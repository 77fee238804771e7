--------------------------- MODULE MigrationsProofs ---------------------------
(***************************************************************************)
(* Proofs about Migrations, for any uploads and quotes: however often the  *)
(* database is migrated and rolled back, and whichever release writes to   *)
(* it meanwhile, every upload charge keeps one sign and one subsidy, every *)
(* quote at most one infrastructure fee, and the schema is that of its     *)
(* version.                                                                *)
(*                                                                         *)
(* The invariants say what a row must look like at each version for the    *)
(* next backfill to find it, and what the backfill that has read and not   *)
(* yet written may rely on.                                                *)
(***************************************************************************)
EXTENDS Migrations, SumsAndFolds, TLAPS

\* A backfill holds knex's lock between its read and its write.
Running ==
  \/ job = NoJob
  \/ /\ job.n \in Backfills /\ version = job.n - 1
     /\ job.seen \subseteq Rows /\ job.receipts \subseteq Quotes
     /\ job.n \in {3, 4} => \A u \in job.seen : u \in Uploads /\ audit[u] # "none"
     /\ job.n = 3 => \A u \in job.seen : audit[u] = "+"
     /\ job.n \in {6, 9} => job.seen \subseteq Quotes
     /\ job.n = 9 => fees # {}

\* A row has a date before it has anything else.
Dated ==
  /\ \A r \in Rows : audit[r] # "none" => date[r] # 0
  /\ \A q \in Quotes : quote[q] # "none" => date[q] # 0

BasicInv == TypeOK /\ Running /\ Dated

-----------------------------------------------------------------------------
LEMMA InitBasic == Init => BasicInv
  BY MigrationsAssumption
  DEF Init, BasicInv, TypeOK, Running, Dated, Latest, Eras, Releases, Signs, NoJob, Rows

\* A release is one of those there were.
LEMMA ReleaseIsOne ==
  ASSUME NEW v \in 0 .. Latest
  PROVE  ReleaseOf(v) \in Releases /\ (v >= 5 => ReleaseOf(v) >= 5)
<1> DEFINE r == IF v >= 7 THEN 7 ELSE IF v >= 5 THEN 5 ELSE v
<1>1. r \in Releases /\ r <= v /\ \A s \in Releases : s <= v => s <= r
  BY DEF Releases, Latest
<1> HIDE DEF r
<1>2. /\ ReleaseOf(v) \in Releases
      /\ \A s \in Releases : s <= v => s <= ReleaseOf(v)
  BY <1>1 DEF ReleaseOf
<1>3. 5 \in Releases
  BY DEF Releases
<1> QED
  BY <1>2, <1>3

\* A migration without a backfill changes nothing but the schema and the catalogs.
LEMMA UpKeeps ==
  ASSUME NEW n \in 1 .. Latest, Up(n)
  PROVE  /\ version' = n /\ n = version + 1 /\ n \notin {3, 4, 5, 6, 7, 9} /\ job = NoJob
         /\ UNCHANGED <<fees, minted, audit, date, uploads, topUps, service, job, history>>
<1>1. IsNext(n) /\ UNCHANGED <<fees, minted, audit, uploads, topUps, job, owed>>
  BY DEF Up
<1>2. version' = n /\ UNCHANGED <<date, service, failed, late>>
  BY DEF Up, Moves
<1>3. n \notin {3, 4, 5, 6, 7, 9}
  BY DEF Up, Backfills
<1> QED
  BY <1>1, <1>2, <1>3 DEF IsNext, history

LEMMA FeeChosen == ASSUME fees # {} PROVE (CHOOSE id \in fees : TRUE) \in fees
  BY Zenon

LEMMA BasicStep == BasicInv /\ [Next]_vars => BasicInv'
<1> SUFFICES ASSUME BasicInv, [Next]_vars PROVE BasicInv'
  OBVIOUS
<1> USE DEF BasicInv, TypeOK, Running, Dated
<1>n. NoJob.n = 0 /\ 0 \notin Backfills
  BY DEF NoJob, Backfills
<1>1. CASE UNCHANGED vars
  BY <1>1 DEF vars, tables, uploads, topUps, service, history
<1>2. ASSUME NEW n \in 1 .. Latest, Up(n) PROVE BasicInv'
  <2>1. /\ version' \in 0 .. Latest /\ job = NoJob
        /\ UNCHANGED <<fees, minted, audit, date, uploads, topUps, service, job, history>>
    BY <1>2, UpKeeps DEF Latest
  <2> QED
    BY <1>n, <2>1 DEF uploads, topUps, service, history
<1>3. ASSUME NEW n \in 1 .. Latest, Read(n) PROVE BasicInv'
  <2>1. /\ Selected(n) \subseteq Rows
        /\ n \in {3, 4} => \A u \in Selected(n) : u \in Uploads /\ audit[u] # "none"
        /\ n = 3 => \A u \in Selected(n) : audit[u] = "+"
        /\ n \in {6, 9} => Selected(n) \subseteq Quotes
    BY <1>3 DEF Read, Backfills, Selected, Uncharged, Rows
  <2>2. version = n - 1 /\ n \in Backfills /\ (n = 9 => fees # {})
    BY <1>3 DEF Read, IsNext, Latest
  <2>3. Running'
    BY <1>3, <2>1, <2>2 DEF Read, tables
  <2>4. job'.n = n
    BY <1>3 DEF Read
  <2> QED
    BY <1>3, <2>2, <2>3, <2>4 DEF Read, tables, uploads, topUps, service, history
<1>4. CASE UpPromoCode
  <2>1. version' \in 0 .. Latest /\ job = NoJob /\ job' = NoJob
    BY <1>4 DEF UpPromoCode, IsNext, Moves, Latest
  <2>2. \A a \in subsidy' : a[1] \in Uploads
    BY <1>4 DEF UpPromoCode
  <2>3. quoted' \in [Quotes -> {"none", "0", "same", "higher"}]
    BY <1>4 DEF UpPromoCode
  <2> QED
    BY <1>4, <1>n, <2>1, <2>2, <2>3 DEF UpPromoCode, Moves, service
<1>5. CASE UpTurboInfraFee
  <2>1. minted' \in 0 .. MaxMints /\ fees' \subseteq 1 .. MaxMints
    BY <1>5, MigrationsAssumption DEF UpTurboInfraFee
  <2>2. version' \in 0 .. Latest /\ job = NoJob /\ job' = NoJob
    BY <1>5 DEF UpTurboInfraFee, IsNext, Latest
  <2> QED
    BY <1>5, <2>1, <2>2 DEF UpTurboInfraFee, uploads, topUps, service, history
<1>6. CASE Abort
  BY <1>6, <1>n DEF Abort, tables, uploads, topUps, service, history
<1>w. ASSUME NEW n \in Backfills, Writes(n)
      PROVE  /\ version' \in 0 .. Latest /\ Running' /\ job'.n = 0 /\ job # NoJob
             /\ job.n = n
  BY <1>w, <1>n DEF Writes, Backfills, Latest
<1>7. CASE FlipSigns
  <2>1. audit' \in [Rows -> Signs]
    BY <1>7 DEF FlipSigns, Signs
  <2>2. Writes(3)
    BY <1>7 DEF FlipSigns
  <2>3. 3 \in Backfills
    BY DEF Backfills
  <2>4. /\ job.n = 3 /\ \A u \in job.seen : audit[u] = "+"
        /\ version' \in 0 .. Latest /\ Running' /\ job'.n = 0
    BY <2>2, <2>3, <1>w
  <2>5. \A r \in Rows : audit'[r] # "none" => date'[r] # 0
    BY <1>7, <2>4, <2>2 DEF FlipSigns, Writes
  <2> QED
    BY <1>7, <2>1, <2>2, <2>4, <2>5 DEF FlipSigns, Writes, uploads, topUps, service
<1>8. CASE BackfillReservations
  <2>1. Writes(4) /\ 4 \in Backfills
    BY <1>8 DEF BackfillReservations, Backfills
  <2>2. job.seen \subseteq Uploads /\ version' \in 0 .. Latest /\ Running' /\ job'.n = 0
    BY <2>1, <1>w
  <2>3. reserved' \subseteq Uploads /\ \A a \in subsidy' : a[1] \in Uploads
    BY <1>8, <2>2 DEF BackfillReservations
  <2> QED
    BY <1>8, <2>1, <2>2, <2>3 DEF BackfillReservations, Writes, topUps, service
<1>9. CASE BackfillPromoCode
  <2>1. Writes(6) /\ 6 \in Backfills
    BY <1>9 DEF BackfillPromoCode, Backfills
  <2>2. job.seen \subseteq Quotes /\ version' \in 0 .. Latest /\ Running' /\ job'.n = 0
    BY <2>1, <1>w
  <2>3. \A a \in subsidy' : a[1] \in Uploads
    BY <1>9 DEF BackfillPromoCode
  <2>4. quoted' \in [Quotes -> {"none", "0", "same", "higher"}]
    BY <1>9 DEF BackfillPromoCode
  <2> QED
    BY <1>9, <2>1, <2>2, <2>3, <2>4 DEF BackfillPromoCode, Writes, service
<1>10. CASE BackfillInfraFee
  <2>1. Writes(9) /\ 9 \in Backfills
    BY <1>10 DEF BackfillInfraFee, Backfills
  <2>2. /\ job.seen \subseteq Quotes /\ job.receipts \subseteq Quotes /\ fees # {}
        /\ version' \in 0 .. Latest /\ Running' /\ job'.n = 0
    BY <2>1, <1>w
  <2> DEFINE fee == CHOOSE id \in fees : TRUE
  <2>6. fee \in fees
    BY <2>2, FeeChosen, Zenon
  <2>5. adjustments' = adjustments \cup
          {Fee(q, BackfilledFee(date[q]), fee, FeeIndex(q), "backfill") : q \in job.seen}
    BY <1>10 DEF BackfillInfraFee
  <2> HIDE DEF fee
  <2>3. fee \in 0 .. MaxMints
    BY <2>6
  <2>4. \A a \in adjustments' : a.quote \in Quotes /\ a.id \in 0 .. MaxMints /\ a.index \in {0, 1}
    BY <2>5, <2>2, <2>3 DEF Fee, FeeIndex
  <2> QED
    BY <1>10, <2>1, <2>2, <2>4 DEF BackfillInfraFee, Writes, uploads, service
<1>11. CASE Down
  <2>1. version' \in 0 .. Latest /\ job = NoJob /\ job' = NoJob
    BY <1>11 DEF Down, Moves, Latest
  <2>2. audit' \in [Rows -> Signs] /\ \A r \in Rows : audit'[r] # "none" => audit[r] # "none"
    BY <1>11 DEF Down, Dropped, Signs
  <2>3. quoted' \in [Quotes -> {"none", "0", "same", "higher"}]
    BY <1>11 DEF Down, Dropped
  <2>4. /\ quote' \in [Quotes -> {"none", "open", "paid"}]
        /\ \A q \in Quotes : quote'[q] # "none" => quote[q] # "none"
    BY <1>11 DEF Down, Dropped
  <2>5. /\ reserved' \subseteq Uploads /\ owed' \subseteq Quotes
        /\ fees' \subseteq fees /\ minted' = minted
    BY <1>11 DEF Down, Dropped
  <2>6. \A a \in subsidy' : a[1] \in Uploads
    BY <1>11 DEF Down, Dropped
  <2>7. adjustments' \subseteq adjustments
    BY <1>11 DEF Down, Dropped, WithoutFees
  <2> QED
    BY <1>11, <1>n, <2>1, <2>2, <2>3, <2>4, <2>5, <2>6, <2>7 DEF Down, Moves, service
<1>12. CASE Refused
  BY <1>12 DEF Refused, tables, uploads, topUps, service
<1>13. CASE Tick
  BY <1>13 DEF Tick, Eras, tables, uploads, topUps, history
<1>14. CASE Deploy
  <2>1. ReleaseOf(version) \in Releases
    BY ReleaseIsOne
  <2> QED
    BY <1>14, <2>1 DEF Deploy, tables, uploads, topUps, history
<1>15. ASSUME NEW u \in Uploads, Upload(u) PROVE BasicInv'
  <2>1. /\ audit' \in [Rows -> Signs] /\ date' \in [Rows -> {0} \cup Eras]
        /\ \A r \in Rows : audit'[r] # "none" => date'[r] # 0
        /\ \A q \in Quotes : date'[q] = date[q]
    BY <1>15, MigrationsAssumption DEF Upload, Signs, Rows, Eras
  <2>2. reserved' \subseteq Uploads /\ late' \subseteq Uploads
    BY <1>15 DEF Upload
  <2>3. \A a \in subsidy' : a[1] \in Uploads
    BY <1>15 DEF Upload
  <2> QED
    BY <1>15, <2>1, <2>2, <2>3 DEF Upload, tables, topUps, service
<1>16. ASSUME NEW q \in Quotes, CreateQuote(q) PROVE BasicInv'
  <2>1. /\ quote' \in [Quotes -> {"none", "open", "paid"}] /\ date' \in [Rows -> {0} \cup Eras]
        /\ \A r \in Rows : date[r] # 0 => date'[r] # 0
        /\ \A p \in Quotes : quote'[p] # "none" => date'[p] # 0
    BY <1>16 DEF CreateQuote, Rows, Eras
  <2>2. quoted' \in [Quotes -> {"none", "0", "same", "higher"}] /\ owed' \subseteq Quotes
    BY <1>16 DEF CreateQuote
  <2> DEFINE fee == CHOOSE id \in fees : TRUE
  <2>7. fees # {} => fee \in fees
    BY FeeChosen, Zenon
  <2>4. 0 \in 0 .. MaxMints
    BY MigrationsAssumption
  <2>6. \A a \in adjustments' : \/ a \in adjustments
                                \/ a = Fee(q, "promo", 0, 0, "quote")
                                \/ /\ fees # {}
                                   /\ \E i \in {0, 1} : a = Fee(q, "0.766", fee, i, "quote")
    BY <1>16 DEF CreateQuote
  <2> HIDE DEF fee
  <2>3. fees # {} => fee \in 0 .. MaxMints
    BY <2>7
  <2>5. \A a \in adjustments' : a.quote \in Quotes /\ a.id \in 0 .. MaxMints /\ a.index \in {0, 1}
    BY <2>3, <2>4, <2>6 DEF Fee
  <2> QED
    BY <1>16, <2>1, <2>2, <2>5 DEF CreateQuote, tables, uploads, service
<1>17. ASSUME NEW q \in Quotes, Pay(q) PROVE BasicInv'
  BY <1>17 DEF Pay, Rows, Signs, tables, uploads, service, history
<1> QED
  BY <1>1, <1>2, <1>3, <1>4, <1>5, <1>6, <1>7, <1>8, <1>9, <1>10, <1>11, <1>12, <1>13, <1>14,
     <1>15, <1>16, <1>17 DEF Next

THEOREM BasicInvariant == Spec => []BasicInv
  BY InitBasic, BasicStep, PTL DEF Spec

\* The type invariant, for any uploads, quotes and number of insertions.
THEOREM MigrationsTyped == Spec => []TypeOK
<1>1. BasicInv => TypeOK
  BY DEF BasicInv
<1> QED
  BY BasicInvariant, <1>1, PTL

-----------------------------------------------------------------------------
(* Uploads.                                                                 *)

Right(u, c) == c = SubsidyOf(date[u]) \/ (c = "sep-oct" /\ date[u] = 7)

\* A charge that no release wrote behind a backfill.
Counted(u) == audit[u] # "none" /\ u \notin late

\* The signs were flipped, or are about to be and this one needs no flip.
Flipped(u) == version >= 3 \/ (job.n = 3 /\ u \notin job.seen)

Signed(u) == audit[u] # "--" /\ (Counted(u) /\ Flipped(u) => audit[u] = "-")

\* The backfill of the reservations has seen it, or it has its reservation.
Reserved(u) ==
  Counted(u) /\ date[u] >= 3 =>
    /\ job.n = 4 => u \in job.seen
    /\ version >= 4 => u \in reserved /\ \E a \in subsidy : a[1] = u

Subsidised(u) ==
  /\ version < 4 \/ audit[u] = "none" => \A a \in subsidy : a[1] # u
  /\ \A a, b \in subsidy : a[1] = u /\ b[1] = u => a[2] = b[2]
  /\ \A a \in subsidy : a[1] = u =>
        /\ version = 5 => a[2] = "pre-promo-code" \/ Right(u, a[2])
        /\ version >= 6 => Right(u, a[2])

UploadInv ==
  /\ \A q \in Quotes : audit[q] \in {"none", "+"}
  /\ \A u \in Uploads : Signed(u) /\ Reserved(u) /\ Subsidised(u)

LEMMA InitUploads == Init => UploadInv
  BY DEF Init, UploadInv, Signed, Reserved, Subsidised, Counted, Rows

\* A step that leaves the uploads alone, and the backfills that bind them.
LEMMA UploadsApart ==
  ASSUME NEW u \in Uploads, BasicInv, Signed(u), Reserved(u), Subsidised(u),
         audit'[u] = audit[u], date' = date, late' = late,
         reserved' = reserved, subsidy' = subsidy,
         job' = job \/ job'.n \notin {3, 4},
         \/ version' = version \/ version' = version - 1
         \/ version' = version + 1 /\ version' \notin {3, 4, 5, 6}
  PROVE  Signed(u)' /\ Reserved(u)' /\ (version' >= 4 \/ version < 4 => Subsidised(u)')
<1>1. version \in Nat /\ version' \in Int
  BY DEF BasicInv, TypeOK, Latest
<1>2. Signed(u)'
  <2>1. version' >= 3 => version >= 3
    BY <1>1
  <2>2. Flipped(u)' => Flipped(u)
    BY <2>1 DEF Flipped
  <2> QED
    BY <2>2 DEF Signed, Counted
<1>3. Reserved(u)'
  BY <1>1 DEF Reserved, Counted
<1>4. version' >= 4 \/ version < 4 => Subsidised(u)'
  BY <1>1 DEF Subsidised, Right
<1> QED
  BY <1>2, <1>3, <1>4

LEMMA UploadsStep == BasicInv /\ UploadInv /\ [Next]_vars => UploadInv'
<1> SUFFICES ASSUME BasicInv, UploadInv, [Next]_vars PROVE UploadInv'
  OBVIOUS
<1>t. version \in Nat /\ release \in Nat /\ NoJob.n = 0
  BY DEF BasicInv, TypeOK, Latest, Releases, NoJob
<1>q. \A q \in Quotes : q \notin Uploads /\ q \in Rows
  BY MigrationsAssumption DEF Rows
<1>a. ASSUME audit' = audit, date' = date, UNCHANGED <<uploads, late>>,
             job' = job \/ job'.n \notin {3, 4},
             \/ version' = version
             \/ version' = version - 1 /\ version # 4
             \/ version' = version + 1 /\ version' \notin {3, 4, 5, 6}
      PROVE  UploadInv'
  <2> SUFFICES ASSUME NEW u \in Uploads PROVE Signed(u)' /\ Reserved(u)' /\ Subsidised(u)'
    BY <1>a DEF UploadInv
  <2>1. version' >= 4 \/ version < 4
    BY <1>a, <1>t
  <2> QED
    BY <1>a, <2>1, UploadsApart DEF UploadInv, uploads
<1>1. CASE UNCHANGED vars
  BY <1>1, <1>a DEF vars, uploads, history
<1>2. ASSUME NEW n \in 1 .. Latest, Up(n) PROVE UploadInv'
  BY <1>2, <1>a, UpKeeps DEF history
<1>3. ASSUME NEW n \in 1 .. Latest, Read(n) PROVE UploadInv'
  <2> SUFFICES ASSUME NEW u \in Uploads PROVE Signed(u)' /\ Reserved(u)' /\ Subsidised(u)'
    BY <1>3 DEF UploadInv, Read
  <2>1. /\ version = n - 1 /\ job'.n = n /\ job'.seen = Selected(n)
        /\ UNCHANGED <<version, audit, date, reserved, subsidy, late>>
    BY <1>3, <1>t DEF Read, IsNext, uploads, history
  <2>2. Signed(u)'
    <3>1. n = 3 /\ u \notin Selected(n) => audit[u] # "+"
      BY DEF Selected
    <3>2. audit[u] \in Signs
      BY DEF BasicInv, TypeOK, Rows
    <3> QED
      BY <2>1, <3>1, <3>2 DEF UploadInv, Signed, Counted, Flipped, Signs
  <2>3. Reserved(u)'
    <3>1. n = 4 /\ audit[u] # "none" /\ date[u] >= 3 => u \in Selected(n)
      BY DEF Selected
    <3> QED
      BY <2>1, <3>1 DEF UploadInv, Reserved, Counted
  <2>4. Subsidised(u)'
    BY <2>1 DEF UploadInv, Subsidised, Right
  <2> QED
    BY <2>2, <2>3, <2>4
<1>4. CASE UpPromoCode
  <2> SUFFICES ASSUME NEW u \in Uploads PROVE Signed(u)' /\ Reserved(u)' /\ Subsidised(u)'
    BY <1>4 DEF UploadInv, UpPromoCode
  <2>1. /\ version = 4 /\ version' = 5 /\ UNCHANGED <<audit, date, reserved, late, job>>
        /\ subsidy' = {<<a[1], "pre-promo-code">> : a \in subsidy}
    BY <1>4, <1>t DEF UpPromoCode, IsNext, Moves
  <2>2. Signed(u)'
    BY <2>1 DEF UploadInv, Signed, Counted, Flipped
  <2>5. ASSUME NEW a \in subsidy PROVE \E b \in subsidy' : b[1] = a[1]
    <3>1. <<a[1], "pre-promo-code">> \in subsidy'
      BY <2>1
    <3> QED
      BY <3>1
  <2>3. Reserved(u)'
    BY <2>1, <2>5 DEF UploadInv, Reserved, Counted
  <2>4. Subsidised(u)'
    BY <2>1 DEF UploadInv, Subsidised, Right
  <2> QED
    BY <2>2, <2>3, <2>4
<1>5. CASE UpTurboInfraFee
  <2>1. version' = version + 1 /\ version' = 7
    BY <1>5 DEF UpTurboInfraFee, IsNext
  <2> QED
    BY <1>5, <1>a, <2>1 DEF UpTurboInfraFee, history
<1>6. CASE Abort
  BY <1>6, <1>a, <1>t DEF Abort, history
<1>w. ASSUME NEW n \in Backfills, Writes(n)
      PROVE  /\ version = n - 1 /\ version' = n /\ job'.n = 0 /\ job.n = n
             /\ UNCHANGED <<date, late>>
  BY <1>w DEF Writes, Backfills, BasicInv, Running, NoJob
<1>7. CASE FlipSigns
  <2>1. /\ version = 2 /\ version' = 3 /\ job'.n = 0 /\ job.n = 3
        /\ UNCHANGED <<date, late, reserved, subsidy>>
    BY <1>7, <1>w DEF FlipSigns, Backfills, uploads
  <2>2. \A u \in job.seen : u \in Uploads /\ audit[u] = "+"
    BY <2>1 DEF BasicInv, Running, NoJob
  <2>3. \A r \in Rows : audit'[r] = IF r \in job.seen THEN "-" ELSE audit[r]
    BY <1>7, <2>2 DEF FlipSigns
  <2> SUFFICES ASSUME NEW u \in Uploads PROVE Signed(u)' /\ Reserved(u)' /\ Subsidised(u)'
    BY <2>2, <2>3, <1>q DEF UploadInv
  <2>4. u \in Rows
    BY DEF Rows
  <2>5. Signed(u)'
    BY <2>1, <2>3, <2>4 DEF UploadInv, Signed, Counted, Flipped
  <2>6. Reserved(u)'
    BY <2>1, <2>3, <2>4 DEF Reserved
  <2>7. Subsidised(u)'
    BY <2>1, <2>3, <2>4 DEF UploadInv, Subsidised, Right
  <2> QED
    BY <2>5, <2>6, <2>7
<1>8. CASE BackfillReservations
  <2>1. /\ version = 3 /\ version' = 4 /\ job'.n = 0 /\ job.n = 4
        /\ UNCHANGED <<date, late, audit>>
        /\ reserved' = job.seen /\ subsidy' = job.seen \X {"operator"}
    BY <1>8, <1>w DEF BackfillReservations, Backfills
  <2>2. \A u \in job.seen : u \in Uploads /\ audit[u] # "none"
    BY <2>1 DEF BasicInv, Running, NoJob
  <2> SUFFICES ASSUME NEW u \in Uploads PROVE Signed(u)' /\ Reserved(u)' /\ Subsidised(u)'
    BY <2>1 DEF UploadInv
  <2>3. Signed(u)'
    BY <2>1 DEF UploadInv, Signed, Counted, Flipped
  <2>4. Reserved(u)'
    <3>1. u \in job.seen => \E a \in subsidy' : a[1] = u
      <4>1. u \in job.seen => <<u, "operator">> \in subsidy' /\ <<u, "operator">>[1] = u
        BY <2>1
      <4> QED
        BY <4>1
    <3> QED
      BY <2>1, <3>1 DEF UploadInv, Reserved, Counted
  <2>5. Subsidised(u)'
    BY <2>1, <2>2 DEF Subsidised
  <2> QED
    BY <2>3, <2>4, <2>5
<1>9. CASE BackfillPromoCode
  <2>1. /\ version = 5 /\ version' = 6 /\ job'.n = 0 /\ job.n = 6
        /\ UNCHANGED <<date, late, audit, reserved>>
        /\ subsidy' = {a \in subsidy : a[2] # "pre-promo-code"}
               \cup {<<a[1], BackfilledSubsidy(date[a[1]])>> :
                       a \in {b \in subsidy : b[2] = "pre-promo-code"}}
    BY <1>9, <1>w DEF BackfillPromoCode, Backfills
  <2> SUFFICES ASSUME NEW u \in Uploads PROVE Signed(u)' /\ Reserved(u)' /\ Subsidised(u)'
    BY <2>1 DEF UploadInv
  <2>2. Signed(u)'
    BY <2>1 DEF UploadInv, Signed, Counted, Flipped
  <2>3. Reserved(u)'
    <3>1. \A a \in subsidy : \E b \in subsidy' : b[1] = a[1]
      <4> SUFFICES ASSUME NEW a \in subsidy PROVE \E b \in subsidy' : b[1] = a[1]
        OBVIOUS
      <4>1. CASE a[2] # "pre-promo-code"
        BY <2>1, <4>1
      <4>2. CASE a[2] = "pre-promo-code"
        <5>1. <<a[1], BackfilledSubsidy(date[a[1]])>> \in subsidy'
          BY <2>1, <4>2
        <5> QED
          BY <5>1
      <4> QED
        BY <4>1, <4>2
    <3> QED
      BY <2>1, <3>1 DEF UploadInv, Reserved, Counted
  <2>4. Subsidised(u)'
    <3>1. \A a \in subsidy' : \E b \in subsidy :
             /\ b[1] = a[1]
             /\ \/ b[2] # "pre-promo-code" /\ b = a
                \/ b[2] = "pre-promo-code" /\ a[2] = BackfilledSubsidy(date[a[1]])
      BY <2>1
    <3>2. audit[u] # "none" => Right(u, BackfilledSubsidy(date[u]))
      BY DEF BasicInv, TypeOK, Dated, Right, BackfilledSubsidy, SubsidyOf, Eras, Rows
    <3>3. \A a \in subsidy' : a[1] = u => Right(u, a[2])
      BY <2>1, <3>1, <3>2 DEF UploadInv, Subsidised
    <3> QED
      BY <2>1, <3>1, <3>3 DEF UploadInv, Subsidised, Right
  <2> QED
    BY <2>2, <2>3, <2>4
<1>10. CASE BackfillInfraFee
  <2>1. Writes(9) /\ 9 \in Backfills /\ audit' = audit /\ UNCHANGED uploads
    BY <1>10 DEF BackfillInfraFee, Backfills
  <2>2. version' = version + 1 /\ version' = 9 /\ job'.n = 0 /\ date' = date /\ late' = late
    BY <2>1, <1>w
  <2> QED
    BY <2>1, <2>2, <1>a
<1>11. CASE Down
  <2>1. /\ version > 0 /\ version' = version - 1 /\ UNCHANGED <<date, late, job>> /\ job = NoJob
    BY <1>11 DEF Down, Moves
  <2>2. CASE version \notin {2, 3, 4, 5}
    BY <1>11, <2>1, <2>2, <1>a DEF Down, Dropped, uploads
  <2>3. CASE version \in {2, 3}
    <3>1. /\ \A r \in Quotes : audit'[r] \in {audit[r], "none"}
          /\ \A r \in Uploads : /\ audit'[r] # "--"
                                /\ audit'[r] # "none" => audit[r] # "none"
          /\ UNCHANGED <<reserved, subsidy>>
      BY <1>11, <2>3, <1>q DEF Down, Dropped, Rows, UploadInv, Signed
    <3> SUFFICES ASSUME NEW u \in Uploads PROVE Signed(u)' /\ Reserved(u)' /\ Subsidised(u)'
      BY <3>1 DEF UploadInv
    <3>4. version' \in 0 .. 2 /\ job'.n = 0
      BY <1>t, <2>1, <2>3
    <3>5. Signed(u)'
      BY <3>1, <3>4 DEF Signed, Flipped
    <3>6. Reserved(u)'
      BY <3>4 DEF Reserved, Counted
    <3>3. Subsidised(u)'
      BY <2>1, <2>3, <3>1 DEF Subsidised, UploadInv
    <3> QED
      BY <3>3, <3>5, <3>6
  <2>4. CASE version \in {4, 5}
    <3>1. /\ audit' = audit
          /\ version = 4 => subsidy' = {}
          /\ version = 5 => reserved' = reserved /\ subsidy' = {<<a[1], "operator">> : a \in subsidy}
      BY <1>11, <2>4 DEF Down, Dropped
    <3> SUFFICES ASSUME NEW u \in Uploads PROVE Signed(u)' /\ Reserved(u)' /\ Subsidised(u)'
      BY <3>1 DEF UploadInv
    <3>2. Signed(u)'
      BY <1>t, <2>1, <2>4, <3>1 DEF UploadInv, Signed, Flipped, Counted
    <3>5. ASSUME version = 5, NEW a \in subsidy PROVE \E b \in subsidy' : b[1] = a[1]
      <4>1. <<a[1], "operator">> \in subsidy'
        BY <3>1, <3>5
      <4> QED
        BY <4>1
    <3>3. Reserved(u)'
      BY <1>t, <2>1, <2>4, <3>1, <3>5 DEF UploadInv, Reserved, Counted
    <3>4. Subsidised(u)'
      BY <2>1, <2>4, <3>1 DEF Subsidised, UploadInv
    <3> QED
      BY <3>2, <3>3, <3>4
  <2> QED
    BY <2>2, <2>3, <2>4
<1>12. CASE Refused
  BY <1>12, <1>a DEF Refused
<1>13. CASE Tick
  BY <1>13, <1>a DEF Tick, history
<1>14. CASE Deploy
  BY <1>14, <1>a DEF Deploy, history
<1>15. ASSUME NEW v \in Uploads, Upload(v) PROVE UploadInv'
  <2>1. /\ audit[v] = "none" /\ release >= 2 /\ version >= 2
        /\ release = 4 => version = 4
        /\ release >= 5 => version >= 5
        /\ audit' = [audit EXCEPT ![v] = IF release < 3 THEN "+" ELSE "-"]
        /\ date' = [date EXCEPT ![v] = era]
        /\ reserved' = IF release < 4 THEN reserved ELSE reserved \cup {v}
        /\ late \subseteq late' /\ late' \subseteq late \cup {v}
        /\ \A n \in {3, 4} : release < n /\ (version >= n \/ job.n = n) => v \in late'
        /\ UNCHANGED <<version, job>>
    BY <1>15 DEF Upload
  <2>2. subsidy' = IF release < 4 THEN subsidy
                   ELSE subsidy \cup {<<v, IF release = 4 THEN "operator" ELSE SubsidyOf(era)>>}
    <3>1. CASE release < 4
      BY <1>15, <3>1 DEF Upload
    <3>2. CASE release = 4
      BY <1>15, <3>2 DEF Upload
    <3>3. CASE release > 4
      BY <1>15, <3>3, <1>t DEF Upload
    <3> QED
      BY <1>t, <3>1, <3>2, <3>3
  <2>3. /\ \A r \in Rows : r # v => audit'[r] = audit[r] /\ date'[r] = date[r]
        /\ audit'[v] = IF release < 3 THEN "+" ELSE "-"
        /\ date'[v] = era
    BY <2>1 DEF BasicInv, TypeOK, Rows
  <2> SUFFICES ASSUME NEW u \in Uploads PROVE Signed(u)' /\ Reserved(u)' /\ Subsidised(u)'
    BY <2>3, <1>q DEF UploadInv
  <2>4. CASE u # v
    <3>1. audit'[u] = audit[u] /\ date'[u] = date[u] /\ (u \in late' <=> u \in late)
      BY <2>1, <2>3, <2>4 DEF Rows
    <3>2. Signed(u)'
      BY <2>1, <3>1 DEF UploadInv, Signed, Flipped, Counted
    <3>3. Reserved(u)'
      BY <2>1, <2>2, <3>1 DEF UploadInv, Reserved, Counted
    <3>4. Subsidised(u)'
      BY <2>1, <2>2, <2>4, <3>1 DEF UploadInv, Subsidised, Right
    <3> QED
      BY <3>2, <3>3, <3>4
  <2>5. CASE u = v
    <3>1. \A a \in subsidy : a[1] # u
      BY <2>1, <2>5 DEF UploadInv, Subsidised
    <3>2. Signed(u)'
      BY <1>t, <2>1, <2>3, <2>5 DEF Signed, Flipped, Counted
    <3>3. Reserved(u)'
      <4>1. job.n = 4 => version = 3
        BY DEF BasicInv, Running, NoJob
      <4>2. release >= 4 => u \in reserved' /\ \E a \in subsidy' : a[1] = u
        <5>1. release >= 4 => <<v, IF release = 4 THEN "operator" ELSE SubsidyOf(era)>> \in subsidy'
          BY <1>t, <2>2
        <5> QED
          BY <1>t, <2>1, <2>5, <5>1
      <4> QED
        BY <1>t, <2>1, <2>5, <4>1, <4>2 DEF Reserved, Counted
    <3>4. Subsidised(u)'
      BY <1>t, <2>1, <2>2, <2>3, <2>5, <3>1 DEF Subsidised, Right
    <3> QED
      BY <3>2, <3>3, <3>4
  <2> QED
    BY <2>4, <2>5
<1>16. ASSUME NEW q \in Quotes, CreateQuote(q) PROVE UploadInv'
  <2>1. /\ \A u \in Uploads : date'[u] = date[u]
        /\ UNCHANGED <<version, audit, reserved, subsidy, job, late>>
    BY <1>16, <1>q DEF CreateQuote, uploads, BasicInv, TypeOK, Rows
  <2> QED
    BY <2>1 DEF UploadInv, Signed, Reserved, Subsidised, Right, Counted, Flipped
<1>17. ASSUME NEW q \in Quotes, Pay(q) PROVE UploadInv'
  <2>1. /\ \A u \in Uploads : audit'[u] = audit[u]
        /\ \A p \in Quotes : audit'[p] \in {audit[p], "+"}
        /\ UNCHANGED <<version, date, reserved, subsidy, job, late>>
    BY <1>17, <1>q DEF Pay, uploads, history, BasicInv, TypeOK, Rows
  <2> QED
    BY <2>1 DEF UploadInv, Signed, Reserved, Subsidised, Right, Counted, Flipped
<1> QED
  BY <1>1, <1>2, <1>3, <1>4, <1>5, <1>6, <1>7, <1>8, <1>9, <1>10, <1>11, <1>12, <1>13, <1>14,
     <1>15, <1>16, <1>17 DEF Next

THEOREM UploadInvariant == Spec => []UploadInv
<1>1. Init => BasicInv /\ UploadInv
  BY InitBasic, InitUploads
<1>2. BasicInv /\ UploadInv /\ [Next]_vars => (BasicInv /\ UploadInv)'
  BY BasicStep, UploadsStep
<1> QED
  BY <1>1, <1>2, PTL DEF Spec

\* Every upload charge keeps one minus sign, its reservation and exactly one
\* adjustment, under the subsidy of its date.
THEOREM UploadsAreCarried == Spec => []UploadsCarried
<1>1. BasicInv /\ UploadInv => UploadsCarried
  <2> SUFFICES ASSUME BasicInv, UploadInv, NEW u \in Uploads, audit[u] # "none"
               PROVE  LET given == {a[2] : a \in {b \in subsidy : b[1] = u}}
                      IN  /\ audit[u] # "--"
                          /\ version >= 3 /\ u \notin late => audit[u] = "-"
                          /\ version >= 4 /\ u \notin late /\ date[u] >= 3 =>
                                u \in reserved /\ Cardinality(given) = 1
                          /\ version >= 6 =>
                                \A c \in given : Right(u, c)
    BY DEF UploadsCarried, UploadInv, Right
  <2> DEFINE given == {a[2] : a \in {b \in subsidy : b[1] = u}}
  <2>1. Signed(u) /\ Reserved(u) /\ Subsidised(u)
    BY DEF UploadInv
  <2>2. version >= 3 /\ u \notin late => audit[u] = "-"
    BY <2>1 DEF Signed, Counted, Flipped
  <2>3. ASSUME version >= 4, u \notin late, date[u] >= 3
        PROVE  u \in reserved /\ Cardinality(given) = 1
    <3>1. u \in reserved /\ \E a \in subsidy : a[1] = u
      BY <2>1, <2>3 DEF Reserved, Counted
    <3>2. PICK a \in subsidy : a[1] = u
      BY <3>1
    <3>3. given = {a[2]}
      BY <2>1, <3>2 DEF Subsidised
    <3> QED
      BY <3>1, <3>3, FS_Singleton
  <2>4. version >= 6 => \A c \in given : Right(u, c)
    BY <2>1 DEF Subsidised
  <2> QED
    BY <2>1, <2>2, <2>3, <2>4 DEF Signed
<1> QED
  BY BasicInvariant, UploadInvariant, <1>1, PTL

-----------------------------------------------------------------------------
(* Quotes and their adjustments.                                            *)

Billed(a) == a.pct # "promo" /\ a.id \in fees

Charged(q) == \E a \in adjustments : a.quote = q /\ Billed(a)

\* The tables and the rows of the fee come and go with their migrations.
Rowed ==
  /\ version < 5 => adjustments = {}
  /\ version < 7 => fees = {} /\ owed = {}
  /\ fees \subseteq {minted}
  /\ \A a \in adjustments : a.id <= minted /\ date[a.quote] # 0
  /\ \A q \in Quotes : quoted[q] # "none" => date[q] # 0

\* A promo code shows in the amounts of its quote, for the backfill to see.
Promoted ==
  \A a \in adjustments : a.pct = "promo" =>
    a = Fee(a.quote, "promo", 0, 0, "quote") /\ quoted[a.quote] = "higher" /\ release >= 5

Single ==
  /\ \A a, b \in adjustments : Billed(a) /\ Billed(b) /\ a.quote = b.quote => a = b
  /\ \A a, b \in adjustments : Billed(a) /\ b.pct = "promo" /\ a.quote = b.quote => a.index = 1
  /\ version < 9 => \A a \in adjustments : Billed(a) => a.pct = "0.766"

Paid == \A q \in owed : Charged(q)

\* What a backfill has read is still so when it writes.
Pending ==
  /\ job.n = 6 => \A q \in job.seen : quoted[q] = "0"
  /\ job.n = 9 => /\ \A q \in job.seen : quote[q] # "none" /\ ~Charged(q)
                  /\ \A q \in job.receipts : q \in job.seen \/ Charged(q)

QuoteInv == Rowed /\ Promoted /\ Single /\ Paid /\ Pending

LEMMA InitQuotes == Init => QuoteInv
  BY DEF Init, QuoteInv, Rowed, Promoted, Single, Paid, Pending, NoJob

\* A step that leaves the adjustments alone.
LEMMA QuotesApart ==
  ASSUME BasicInv, QuoteInv,
         UNCHANGED <<adjustments, fees, minted, quoted, owed>>,
         \A q \in Quotes : date'[q] = date[q] /\ (quote[q] # "none" => quote'[q] # "none"),
         release' = release \/ (version >= 5 => release' >= 5),
         job' = job \/ job'.n \notin {6, 9},
         \/ version' = version
         \/ version' = version + 1
         \/ version' = version - 1 /\ version \notin {5, 7, 9}
  PROVE  QuoteInv'
<1>t. version \in Nat /\ version' \in Int /\ \A a \in adjustments : a.quote \in Quotes
  BY DEF BasicInv, TypeOK, Latest
<1>1. Rowed'
  BY <1>t DEF QuoteInv, Rowed
<1>2. Promoted'
  BY <1>t DEF QuoteInv, Rowed, Promoted
<1>b. \A a : Billed(a)' <=> Billed(a)
  BY DEF Billed
<1>c. \A q : Charged(q)' <=> Charged(q)
  BY <1>b DEF Charged
<1>3. Single'
  BY <1>t, <1>b DEF QuoteInv, Single
<1>4. Paid'
  BY <1>c DEF QuoteInv, Paid
<1>5. Pending'
  <2>1. CASE job' = job
    <3>1. job.n = 9 => \A q \in job.seen : q \in Quotes
      BY DEF BasicInv, Running, NoJob
    <3> QED
      BY <1>c, <2>1, <3>1 DEF QuoteInv, Pending
  <2>2. CASE job'.n \notin {6, 9}
    BY <2>2 DEF Pending
  <2> QED
    BY <2>1, <2>2
<1> QED
  BY <1>1, <1>2, <1>3, <1>4, <1>5 DEF QuoteInv

LEMMA QuotesStep == BasicInv /\ QuoteInv /\ [Next]_vars => QuoteInv'
<1> SUFFICES ASSUME BasicInv, QuoteInv, [Next]_vars PROVE QuoteInv'
  OBVIOUS
<1>t. version \in Nat /\ NoJob.n = 0 /\ \A a \in adjustments : a.quote \in Quotes
  BY DEF BasicInv, TypeOK, Latest, NoJob
<1>q. \A q \in Quotes : q \notin Uploads /\ q \in Rows
  BY MigrationsAssumption DEF Rows
<1>i. Rowed /\ Promoted /\ Single /\ Paid /\ Pending
  BY DEF QuoteInv
<1>e. ASSUME adjustments' = {}, fees' = {}, owed' = {}, job'.n = 0,
             \A q \in Quotes : quoted'[q] # "none" => date'[q] # 0
      PROVE  QuoteInv'
  BY <1>e DEF QuoteInv, Rowed, Promoted, Single, Paid, Pending
<1>1. CASE UNCHANGED vars
  BY <1>1, QuotesApart DEF vars, tables, topUps, service, history
<1>2. ASSUME NEW n \in 1 .. Latest, Up(n) PROVE QuoteInv'
  BY <1>2, UpKeeps, QuotesApart DEF topUps, service, history
<1>3. ASSUME NEW n \in 1 .. Latest, Read(n) PROVE QuoteInv'
  <2>1. /\ job' = [n |-> n, seen |-> Selected(n), receipts |-> {q \in Quotes : quote[q] = "paid"}]
        /\ version = n - 1
        /\ UNCHANGED <<version, adjustments, fees, minted, quoted, quote, date, owed, release>>
    BY <1>3, <1>t DEF Read, IsNext, tables, topUps, service, history
  <2>2. \A q : Charged(q)' <=> Charged(q)
    BY <2>1 DEF Charged, Billed
  <2>3. Rowed' /\ Promoted'
    BY <1>i, <2>1 DEF Rowed, Promoted
  <2>4. Single'
    BY <1>i, <2>1 DEF Single, Billed
  <2>5. Paid'
    BY <1>i, <2>1, <2>2 DEF Paid
  <2>6. n = 6 => \A q \in job'.seen : quoted'[q] = "0"
    BY <2>1 DEF Selected
  <2>7. ASSUME n = 9
        PROVE  /\ \A q \in job'.seen : quote'[q] # "none" /\ ~Charged(q)
               /\ \A q \in job'.receipts : q \in job'.seen \/ Charged(q)
    <3>1. job'.seen = Uncharged /\ job'.receipts = {q \in Quotes : quote[q] = "paid"}
      BY <2>1, <2>7 DEF Selected
    <3>2. \A q \in Quotes : Charged(q) => \E a \in FeesOf(q) : a.pct = "0.766" /\ a.id \in fees
      BY <1>i, <2>1, <2>7 DEF Charged, Single, FeesOf, Billed
    <3>3. \A q \in Quotes : (\E a \in FeesOf(q) : a.pct = "0.766" /\ a.id \in fees) => Charged(q)
      BY DEF Charged, FeesOf, Billed
    <3> QED
      BY <2>1, <3>1, <3>2, <3>3 DEF Uncharged
  <2>8. Pending'
    BY <2>1, <2>2, <2>6, <2>7 DEF Pending
  <2> QED
    BY <2>3, <2>4, <2>5, <2>8 DEF QuoteInv
<1>4. CASE UpPromoCode
  <2>1. /\ version = 4 /\ job = NoJob /\ UNCHANGED <<adjustments, fees, owed, date, job>>
        /\ quoted' = [q \in Quotes |-> IF quote[q] = "none" THEN "none" ELSE "0"]
    BY <1>4, <1>t DEF UpPromoCode, IsNext, Moves
  <2>2. adjustments = {} /\ fees = {} /\ owed = {}
    BY <1>i, <2>1 DEF Rowed
  <2>3. \A q \in Quotes : quoted'[q] # "none" => date'[q] # 0
    BY <2>1 DEF BasicInv, Dated
  <2> QED
    BY <1>t, <1>e, <2>1, <2>2, <2>3
<1>5. CASE UpTurboInfraFee
  <2>1. /\ version = 6 /\ version' = 7 /\ job.n = 0 /\ minted \in Nat
        /\ minted' = minted + 1 /\ fees' = fees \cup {minted + 1}
        /\ UNCHANGED <<adjustments, quoted, date, owed, release, job>>
    BY <1>5, <1>t DEF UpTurboInfraFee, IsNext, topUps, service, history, BasicInv, TypeOK
  <2>2. fees = {} /\ owed = {}
    BY <1>i, <2>1 DEF Rowed
  <2>3. \A a \in adjustments : a.id \in Nat /\ a.id <= minted
    BY <1>i, MigrationsAssumption DEF Rowed, BasicInv, TypeOK
  <2>4. \A a \in adjustments' : ~Billed(a)'
    BY <2>1, <2>2, <2>3 DEF Billed
  <2>5. Rowed'
    BY <1>i, <2>1, <2>2, <2>3 DEF Rowed
  <2>6. Promoted' /\ Single' /\ Paid' /\ Pending'
    BY <1>i, <2>1, <2>2, <2>4 DEF Promoted, Single, Paid, Pending
  <2> QED
    BY <2>5, <2>6 DEF QuoteInv
<1>6. CASE Abort
  BY <1>6, <1>t, QuotesApart DEF Abort, tables, topUps, service, history
<1>w. ASSUME NEW n \in Backfills, Writes(n)
      PROVE  /\ version = n - 1 /\ version' = n /\ job'.n = 0 /\ job.n = n
             /\ UNCHANGED <<fees, minted, date, release>>
  BY <1>w DEF Writes, Backfills, BasicInv, Running, NoJob, service
<1>7. CASE FlipSigns
  <2>1. Writes(3) /\ 3 \in Backfills /\ UNCHANGED <<topUps, owed>>
    BY <1>7 DEF FlipSigns, Backfills
  <2> QED
    BY <1>w, <2>1, QuotesApart DEF topUps
<1>8. CASE BackfillReservations
  <2>1. Writes(4) /\ 4 \in Backfills /\ UNCHANGED <<topUps, owed>>
    BY <1>8 DEF BackfillReservations, Backfills
  <2> QED
    BY <1>w, <2>1, QuotesApart DEF topUps
<1>9. CASE BackfillPromoCode
  <2>1. Writes(6) /\ 6 \in Backfills
    BY <1>9 DEF BackfillPromoCode, Backfills
  <2>2. /\ version = 5 /\ version' = 6 /\ job'.n = 0 /\ job.n = 6
        /\ UNCHANGED <<fees, minted, date, release, adjustments, owed>>
        /\ quoted' = [q \in Quotes |-> IF q \in job.seen THEN "same" ELSE quoted[q]]
    BY <1>9, <2>1, <1>w DEF BackfillPromoCode
  <2>3. \A q \in job.seen : quoted[q] = "0"
    BY <1>i, <2>2 DEF Pending
  <2>4. \A q \in Quotes : /\ quoted'[q] # "none" => quoted[q] # "none"
                          /\ quoted[q] = "higher" => quoted'[q] = "higher"
    BY <2>2, <2>3
  <2>5. Rowed'
    BY <1>i, <2>2, <2>4 DEF Rowed
  <2>6. Promoted'
    BY <1>i, <1>t, <2>2, <2>4 DEF Promoted
  <2>7. Single'
    BY <1>i, <2>2 DEF Single, Billed
  <2>8. Paid' /\ Pending'
    BY <1>i, <2>2 DEF Paid, Charged, Billed, Pending
  <2> QED
    BY <2>5, <2>6, <2>7, <2>8 DEF QuoteInv
<1>10. CASE BackfillInfraFee
  <2> DEFINE fee == CHOOSE id \in fees : TRUE
  <2>1. Writes(9) /\ 9 \in Backfills
    BY <1>10 DEF BackfillInfraFee, Backfills
  <2>2. /\ version = 8 /\ version' = 9 /\ job'.n = 0 /\ job.n = 9
        /\ UNCHANGED <<fees, minted, date, release, quoted, quote>>
        /\ owed' = owed \cup job.receipts
    BY <1>10, <2>1, <1>w DEF BackfillInfraFee
  <2>3. adjustments' = adjustments \cup
          {Fee(q, BackfilledFee(date[q]), fee, FeeIndex(q), "backfill") : q \in job.seen}
    BY <1>10 DEF BackfillInfraFee
  <2>4. fees # {} /\ job.seen \subseteq Quotes
    BY <2>2 DEF BasicInv, Running, NoJob
  <2>5. fee \in fees
    BY <2>4, FeeChosen, Zenon
  <2> HIDE DEF fee
  <2>6. \A q : /\ BackfilledFee(date[q]) # "promo"
               /\ FeeIndex(q) = IF quoted[q] = "same" THEN 0 ELSE 1
    BY DEF BackfilledFee, FeeIndex
  <2> DEFINE New(q) == Fee(q, BackfilledFee(date[q]), fee, FeeIndex(q), "backfill")
  <2>7. \A q : /\ New(q).quote = q /\ New(q).id = fee /\ New(q).pct # "promo"
               /\ New(q).index = IF quoted[q] = "same" THEN 0 ELSE 1
    BY <2>6 DEF Fee
  <2>8. /\ \A a \in adjustments' : a \in adjustments \/ \E q \in job.seen : a = New(q)
        /\ adjustments \subseteq adjustments' /\ \A q \in job.seen : New(q) \in adjustments'
    BY <2>3
  <2> HIDE DEF New
  <2>9. \A q \in job.seen : quote[q] # "none" /\ ~Charged(q)
    BY <1>i, <2>2 DEF Pending
  <2>10. \A q \in job.seen : date[q] # 0
    BY <2>4, <2>9 DEF BasicInv, Dated
  <2>11. Rowed'
    <3>1. fee <= minted'
      BY <1>i, <2>2, <2>5 DEF Rowed, BasicInv, TypeOK
    <3> QED
      BY <1>i, <2>2, <2>7, <2>8, <2>10, <3>1 DEF Rowed
  <2>12. Promoted'
    BY <1>i, <2>2, <2>7, <2>8 DEF Promoted
  <2>13. Single'
    <3>1. \A a, b \in adjustments' : Billed(a)' /\ Billed(b)' /\ a.quote = b.quote => a = b
      BY <1>i, <2>2, <2>7, <2>8, <2>9 DEF Single, Charged, Billed
    <3>2. \A a, b \in adjustments' : Billed(a)' /\ b.pct = "promo" /\ a.quote = b.quote => a.index = 1
      BY <1>i, <2>2, <2>7, <2>8 DEF Single, Promoted, Billed
    <3> QED
      BY <2>2, <3>1, <3>2 DEF Single
  <2>14. Paid'
    <3>1. \A q : Charged(q) => Charged(q)'
      BY <2>2, <2>8 DEF Charged, Billed
    <3>2. \A q \in job.seen : Charged(q)'
      <4> SUFFICES ASSUME NEW q \in job.seen PROVE Charged(q)'
        OBVIOUS
      <4>2. PICK a : a = New(q)
        OBVIOUS
      <4>1. a \in adjustments' /\ a.quote = q /\ Billed(a)'
        BY <2>2, <2>5, <2>7, <2>8, <4>2 DEF Billed
      <4> QED
        BY <4>1 DEF Charged
    <3>3. \A q \in job.receipts : q \in job.seen \/ Charged(q)
      BY <1>i, <2>2 DEF Pending
    <3> QED
      BY <1>i, <2>2, <3>1, <3>2, <3>3 DEF Paid
  <2>15. Pending'
    BY <2>2 DEF Pending
  <2> QED
    BY <2>11, <2>12, <2>13, <2>14, <2>15 DEF QuoteInv
<1>11. CASE Down
  <2>1. /\ version > 0 /\ version' = version - 1 /\ job = NoJob /\ job' = NoJob
        /\ UNCHANGED <<date, minted, release>>
        /\ fees' = IF version = 7 THEN {} ELSE fees
        /\ owed' = IF version \in {5, 7, 9} THEN {} ELSE owed
        /\ quoted' = IF version \in {1, 5} THEN [q \in Quotes |-> "none"] ELSE quoted
    BY <1>11 DEF Down, Moves, Dropped, service
  <2>2. CASE version \in {1, 5}
    <3>1. fees = {} /\ (version = 1 => adjustments = {} /\ owed = {})
      BY <1>i, <2>2 DEF Rowed
    <3>2. adjustments' = {}
      BY <1>11, <2>2, <3>1 DEF Down, Dropped
    <3>3. fees' = {} /\ owed' = {} /\ job'.n = 0
      BY <1>t, <2>1, <2>2, <3>1
    <3>4. \A q \in Quotes : quoted'[q] = "none"
      BY <2>1, <2>2
    <3> QED
      BY <1>e, <3>2, <3>3, <3>4
  <2>3. CASE version \in {7, 9}
    <3>1. /\ adjustments' \subseteq adjustments
          /\ version = 9 => adjustments' = {a \in adjustments : a.pct = "promo" \/ a.id \notin fees}
      BY <1>11, <2>3 DEF Down, Dropped, WithoutFees
    <3>2. /\ fees' \subseteq fees /\ owed' = {} /\ quoted' = quoted /\ job'.n = 0
          /\ version' \in {6, 8} /\ (version = 7 => fees' = {})
      BY <1>t, <2>1, <2>3
    <3>3. \A a \in adjustments' : ~Billed(a)'
      BY <2>3, <3>1, <3>2 DEF Billed
    <3>4. Rowed' /\ Promoted'
      BY <1>i, <1>t, <2>1, <3>1, <3>2 DEF Rowed, Promoted
    <3>5. Single' /\ Paid' /\ Pending'
      BY <3>2, <3>3 DEF Single, Paid, Pending
    <3> QED
      BY <3>4, <3>5 DEF QuoteInv
  <2>4. CASE version \notin {1, 5, 7, 9}
    BY <1>11, <1>t, <2>1, <2>4, QuotesApart DEF Down, Dropped
  <2> QED
    BY <2>2, <2>3, <2>4
<1>12. CASE Refused
  BY <1>12, QuotesApart DEF Refused, tables, topUps, service
<1>13. CASE Tick
  BY <1>13, QuotesApart DEF Tick, tables, topUps, history
<1>14. CASE Deploy
  <2>1. version >= 5 => ReleaseOf(version) >= 5
    BY ReleaseIsOne DEF BasicInv, TypeOK
  <2> QED
    BY <1>14, <2>1, QuotesApart DEF Deploy, tables, topUps, history
<1>15. ASSUME NEW u \in Uploads, Upload(u) PROVE QuoteInv'
  <2>1. \A q \in Quotes : date'[q] = date[q]
    BY <1>15, <1>q DEF Upload, BasicInv, TypeOK
  <2> QED
    BY <1>15, <2>1, QuotesApart DEF Upload, tables, topUps, service
<1>16. ASSUME NEW q \in Quotes, CreateQuote(q) PROVE QuoteInv'
  <2> DEFINE fee == CHOOSE id \in fees : TRUE
             charged == release >= 7 /\ fees # {}
  <2>1. PICK promo \in BOOLEAN :
          /\ promo => release >= 5
          /\ quoted' = [quoted EXCEPT ![q] = IF promo THEN "higher"
                                             ELSE IF release >= 5 THEN "same"
                                             ELSE IF version = 5 THEN "0" ELSE "none"]
          /\ adjustments' = adjustments
               \cup (IF promo THEN {Fee(q, "promo", 0, 0, "quote")} ELSE {})
               \cup (IF charged THEN {Fee(q, "0.766", fee, IF promo THEN 1 ELSE 0, "quote")} ELSE {})
          /\ owed' = IF charged THEN owed \cup {q} ELSE owed
    BY <1>16 DEF CreateQuote
  <2>6. release \in Nat /\ minted \in Nat /\ era # 0 /\ quoted \in [Quotes -> {"none", "0", "same", "higher"}]
        /\ date \in [Rows -> {0} \cup Eras]
    BY MigrationsAssumption DEF BasicInv, TypeOK, Releases, Eras
  <2>2. /\ quote[q] = "none" /\ date[q] = 0 /\ (release < 5 => version <= 5)
        /\ release >= 5 => version >= 5
        /\ date' = [date EXCEPT ![q] = era] /\ quote' = [quote EXCEPT ![q] = "open"]
        /\ UNCHANGED <<version, fees, minted, release, job>>
    BY <1>16, <2>6 DEF CreateQuote, Fits, tables, service
  <2>3. charged => fee \in fees
    BY FeeChosen, Zenon
  <2> HIDE DEF fee
  <2> DEFINE P == Fee(q, "promo", 0, 0, "quote")
             F == Fee(q, "0.766", fee, IF promo THEN 1 ELSE 0, "quote")
  <2>4. /\ P.quote = q /\ P.pct = "promo" /\ P.id = 0 /\ F.quote = q /\ F.pct = "0.766"
        /\ F.id = fee /\ F.index = IF promo THEN 1 ELSE 0
    BY DEF Fee
  <2>5. /\ \A a \in adjustments' : \/ a \in adjustments
                                   \/ promo /\ a = P
                                   \/ charged /\ a = F
        /\ adjustments \subseteq adjustments' /\ (charged => F \in adjustments')
    BY <2>1
  <2>p. P = Fee(q, "promo", 0, 0, "quote")
    OBVIOUS
  <2> HIDE DEF P, F, charged
  <2>7. /\ \A p \in Quotes : p # q => date'[p] = date[p] /\ quoted'[p] = quoted[p]
        /\ date'[q] # 0 /\ (promo => quoted'[q] = "higher")
    BY <1>q, <2>1, <2>2, <2>6
  <2>8. \A a \in adjustments : a.quote # q
    BY <1>i, <2>2 DEF Rowed
  <2>9. (charged => release >= 7 /\ version >= 5) /\ (promo => version >= 5)
    BY <2>1, <2>2, <2>6 DEF charged
  <2>10. Rowed'
    <3>1. charged => fee <= minted /\ version >= 7
      <4>1. charged => fee = minted /\ ~(version < 7)
        BY <1>i, <2>3 DEF Rowed
      <4> QED
        BY <1>t, <2>6, <4>1
    <3> QED
      BY <1>i, <1>t, <2>1, <2>2, <2>4, <2>5, <2>6, <2>7, <2>8, <2>9, <3>1 DEF Rowed
  <2>11. Promoted'
    BY <1>i, <1>t, <2>1, <2>2, <2>4, <2>5, <2>7, <2>8, <2>p DEF Promoted
  <2>12. Single'
    <3>1. \A a, b \in adjustments' : Billed(a)' /\ Billed(b)' /\ a.quote = b.quote => a = b
      BY <1>i, <2>2, <2>4, <2>5, <2>8 DEF Single, Billed
    <3>2. \A a, b \in adjustments' : Billed(a)' /\ b.pct = "promo" /\ a.quote = b.quote => a.index = 1
      BY <1>i, <2>2, <2>4, <2>5, <2>8 DEF Single, Billed
    <3>3. version' < 9 => \A a \in adjustments' : Billed(a)' => a.pct = "0.766"
      BY <1>i, <2>2, <2>4, <2>5 DEF Single, Billed
    <3> QED
      BY <3>1, <3>2, <3>3 DEF Single
  <2>13. \A p : Charged(p) => Charged(p)'
    BY <2>2, <2>5 DEF Charged, Billed
  <2>14. Paid'
    <3>1. ASSUME charged PROVE Charged(q)'
      <4>2. PICK a : a = F
        OBVIOUS
      <4>1. a \in adjustments' /\ a.quote = q /\ Billed(a)'
        BY <2>2, <2>3, <2>4, <2>5, <3>1, <4>2 DEF Billed
      <4> QED
        BY <4>1 DEF Charged
    <3> QED
      BY <1>i, <2>1, <2>13, <3>1 DEF Paid, charged
  <2>15. Pending'
    <3>1. job.n = 6 => q \notin job.seen
      BY <1>i, <2>2 DEF Pending, Rowed
    <3>2. job.n = 9 => q \notin job.seen
      BY <1>i, <2>2 DEF Pending
    <3>3. job.n \in {6, 9} => job.seen \subseteq Quotes
      BY <1>t DEF BasicInv, Running
    <3>4. \A p \in Quotes : p # q => (Charged(p)' <=> Charged(p)) /\ quote'[p] = quote[p]
      <4>1. \A a \in adjustments' : a \in adjustments \/ a.quote = q
        BY <2>4, <2>5
      <4>2. quote \in [Quotes -> {"none", "open", "paid"}]
        BY DEF BasicInv, TypeOK
      <4> QED
        BY <2>2, <2>13, <4>1, <4>2 DEF Charged, Billed
    <3>5. job.n = 6 => \A p \in job.seen : quoted'[p] = "0"
      BY <1>i, <2>7, <3>1, <3>3 DEF Pending
    <3>6. job.n = 9 => \A p \in job.seen : quote'[p] # "none" /\ ~Charged(p)'
      BY <1>i, <3>2, <3>3, <3>4 DEF Pending
    <3>7. job.n = 9 => \A p \in job.receipts : p \in job.seen \/ Charged(p)'
      BY <1>i, <2>13 DEF Pending
    <3> QED
      BY <2>2, <3>5, <3>6, <3>7 DEF Pending
  <2> QED
    BY <2>10, <2>11, <2>12, <2>14, <2>15 DEF QuoteInv
<1>17. ASSUME NEW q \in Quotes, Pay(q) PROVE QuoteInv'
  <2>1. /\ quote[q] = "open" /\ ~(job.n = 6 /\ q \in job.seen)
        /\ quote' = [quote EXCEPT ![q] = "paid"]
        /\ quoted' = [quoted EXCEPT ![q] = IF release < 5 /\ version = 5 THEN "0" ELSE @]
        /\ UNCHANGED <<version, date, fees, minted, release, adjustments, owed, job>>
    BY <1>17 DEF Pay, tables, service, history
  <2>2. /\ quote \in [Quotes -> {"none", "open", "paid"}] /\ release \in Nat
        /\ quoted \in [Quotes -> {"none", "0", "same", "higher"}] /\ date[q] # 0
    BY <2>1 DEF BasicInv, TypeOK, Releases, Dated
  <2>3. \A p \in Quotes : /\ quoted'[p] # quoted[p] => p = q /\ release < 5
                          /\ quote[p] # "none" => quote'[p] # "none"
    BY <2>1, <2>2
  <2>4. \A a, p : (Billed(a)' <=> Billed(a)) /\ (Charged(p)' <=> Charged(p))
    BY <2>1 DEF Charged, Billed
  <2>5. Rowed'
    BY <1>i, <2>1, <2>2, <2>3 DEF Rowed
  <2>6. Promoted'
    BY <1>i, <1>t, <2>1, <2>2, <2>3 DEF Promoted
  <2>7. Single' /\ Paid'
    BY <1>i, <2>1, <2>4 DEF Single, Paid
  <2>8. Pending'
    <3>1. job.n \in {6, 9} => job.seen \subseteq Quotes
      BY <1>t DEF BasicInv, Running
    <3> QED
      BY <1>i, <2>1, <2>3, <2>4, <3>1 DEF Pending
  <2> QED
    BY <2>5, <2>6, <2>7, <2>8 DEF QuoteInv
<1> QED
  BY <1>1, <1>2, <1>3, <1>4, <1>5, <1>6, <1>7, <1>8, <1>9, <1>10, <1>11, <1>12, <1>13, <1>14,
     <1>15, <1>16, <1>17 DEF Next

THEOREM QuoteInvariant == Spec => []QuoteInv
<1>1. Init => BasicInv /\ QuoteInv
  BY InitBasic, InitQuotes
<1>2. BasicInv /\ QuoteInv /\ [Next]_vars => (BasicInv /\ QuoteInv)'
  BY BasicStep, QuotesStep
<1> QED
  BY <1>1, <1>2, PTL DEF Spec

\* A quote never carries two infrastructure fees on sale or two adjustments at
\* one index, and one that was given the fee carries it.
THEOREM QuotesAreChargedOnce == Spec => []ChargedOnce
<1>1. BasicInv /\ QuoteInv => ChargedOnce
  <2> SUFFICES ASSUME BasicInv, QuoteInv, NEW q \in Quotes
               PROVE  LET inForce == {a \in adjustments : a.quote = q /\ InForce(a)}
                          charged == {a \in inForce : a.pct # "promo"}
                      IN  /\ Cardinality(charged) <= 1
                          /\ Cardinality({a.index : a \in inForce}) = Cardinality(inForce)
                          /\ version >= 9 /\ q \in owed => charged # {}
    BY DEF ChargedOnce
  <2> DEFINE inForce == {a \in adjustments : a.quote = q /\ InForce(a)}
             charged == {a \in inForce : a.pct # "promo"}
             promoted == {a \in inForce : a.pct = "promo"}
             indexes == {a.index : a \in inForce}
  <2>1. \A a, b \in charged : a = b
    BY DEF QuoteInv, Single, Billed, InForce
  <2>2. \A a, b \in promoted : a = b /\ a.index = 0
    BY DEF QuoteInv, Promoted, Fee
  <2>3. \A a \in charged, b \in promoted : a.index = 1 /\ b.index = 0 /\ a # b
    BY DEF QuoteInv, Single, Promoted, Billed, InForce, Fee
  <2>4. q \in owed => charged # {}
    BY DEF QuoteInv, Paid, Charged, Billed, InForce
  <2>5. inForce = charged \cup promoted
    OBVIOUS
  <2>6. indexes = {a.index : a \in charged} \cup {a.index : a \in promoted}
    BY <2>5
  <2> HIDE DEF inForce, charged, promoted, indexes
  <2>7. charged = {} \/ \E a : charged = {a}
    <3> SUFFICES ASSUME charged # {} PROVE \E a : charged = {a}
      OBVIOUS
    <3>1. PICK a \in charged : TRUE
      OBVIOUS
    <3>2. charged = {a}
      BY <2>1, <3>1
    <3> QED
      BY <3>2
  <2>8. promoted = {} \/ \E b : promoted = {b}
    BY <2>2
  <2>9. Cardinality(charged) <= 1
    <3>1. Cardinality({}) = 0
      BY FS_EmptySet
    <3>2. ASSUME NEW a, charged = {a} PROVE Cardinality(charged) = 1
      BY <3>2, FS_Singleton
    <3> QED
      BY <2>7, <3>1, <3>2
  <2>10. Cardinality(indexes) = Cardinality(inForce)
    <3>1. CASE charged = {} /\ promoted = {}
      BY <2>5, <2>6, <3>1
    <3>2. ASSUME NEW a, charged = {a}, promoted = {} PROVE Cardinality(indexes) = Cardinality(inForce)
      <4>1. inForce = {a} /\ indexes = {a.index}
        BY <2>5, <2>6, <3>2
      <4> QED
        BY <4>1, FS_Singleton
    <3>3. ASSUME NEW b, promoted = {b}, charged = {} PROVE Cardinality(indexes) = Cardinality(inForce)
      <4>1. inForce = {b} /\ indexes = {b.index}
        BY <2>5, <2>6, <3>3
      <4> QED
        BY <4>1, FS_Singleton
    <3>4. ASSUME NEW a, NEW b, charged = {a}, promoted = {b}
          PROVE  Cardinality(indexes) = Cardinality(inForce)
      <4>1. a # b /\ a.index = 1 /\ b.index = 0
        BY <2>3, <3>4
      <4>2. inForce = {a} \cup {b} /\ indexes = {1} \cup {0}
        BY <2>5, <2>6, <3>4, <4>1
      <4>3. /\ IsFiniteSet({a}) /\ Cardinality({a}) = 1 /\ IsFiniteSet({1}) /\ Cardinality({1}) = 1
        BY FS_Singleton
      <4>4. Cardinality({a} \cup {b}) = 2
        <5>1. b \notin {a}
          BY <4>1
        <5>2. Cardinality({a} \cup {b}) = Cardinality({a}) + 1
          BY <4>3, <5>1, FS_AddElement
        <5> QED
          BY <4>3, <5>2
      <4>5. Cardinality({1} \cup {0}) = 2
        <5>1. 0 \notin {1}
          OBVIOUS
        <5>2. Cardinality({1} \cup {0}) = Cardinality({1}) + 1
          BY <4>3, <5>1, FS_AddElement
        <5> QED
          BY <4>3, <5>2
      <4> QED
        BY <4>2, <4>4, <4>5
    <3> QED
      BY <2>7, <2>8, <3>1, <3>2, <3>3, <3>4
  <2> QED
    BY <2>4, <2>9, <2>10 DEF charged, inForce, indexes
<1> QED
  BY BasicInvariant, QuoteInvariant, <1>1, PTL

-----------------------------------------------------------------------------
(* The schema.                                                              *)

UpOf(n) == Migrations[n].up
DownOf(n) == Migrations[n].down

Tables == UNION {UpOf(n).creates : n \in 1 .. Latest}
Columns == UNION {UpOf(n).adds : n \in 1 .. Latest}

\* The migration that makes a table, or adds a column.
TableBirth(t) ==
  IF t \in TopUpTables \cup {"user"} THEN 1 ELSE IF t = "audit_log" THEN 2
  ELSE IF t \in {"balance_reservation", "upload_adjustment"} THEN 4
  ELSE IF t \in AdjustmentTables THEN 5
  ELSE IF t \in {"unredeemed_gift", "redeemed_gift"} THEN 12
  ELSE IF t \in {"delegated_payment_approval", "inactive_delegated_payment_approval"} THEN 15
  ELSE IF t \in ArNSTables THEN 16 ELSE IF t = "arns_purchase_quote" THEN 17 ELSE 14

ColumnBirth(c) ==
  IF c[1] \in ArNSTables
  THEN IF c[2] = "message_id" THEN 18
       ELSE IF c[2] \in {"paid_by", "overflow_spend"} THEN 19 ELSE 17
  ELSE IF c \in OperatorColumns THEN 4
  ELSE IF c[2] \in {"quoted_payment_amount", "user_address", "catalog_id"} THEN 5
  ELSE IF c[2] = "target_user_group" THEN 8
  ELSE IF c[2] \in {"max_uses", "minimum_payment_amount"} THEN 10
  ELSE IF c[2] = "maximum_discount_amount" THEN 11
  ELSE IF c[2] = "gift_message" THEN 12
  ELSE IF c[2] = "overflow_spend" THEN 15 ELSE 13

\* What migration n does: it makes tables and columns that no other makes, the
\* columns in tables there are, and drops nothing but the operator columns.
UpShape(n) ==
  /\ UpOf(n).drops = {}
  /\ UpOf(n).removes = IF n = 5 THEN OperatorColumns ELSE {}
  /\ \A t \in UpOf(n).creates : TableBirth(t) = n
  /\ \A c \in UpOf(n).adds : ColumnBirth(c) = n /\ TableBirth(c[1]) \in 1 .. n
                             /\ c[1] \in UpOf(TableBirth(c[1])).creates

\* What its rollback does: the reverse.
DownShape(n) ==
  /\ DownOf(n).creates = {} /\ DownOf(n).drops = UpOf(n).creates
  /\ DownOf(n).adds = UpOf(n).removes /\ DownOf(n).removes \subseteq UpOf(n).adds
  /\ \A c \in UpOf(n).adds : c \in DownOf(n).removes \/ c[1] \in UpOf(n).creates

LEMMA TheMigrations ==
  /\ Migrations[1] = Initial /\ Migrations[2] = AuditLog /\ Migrations[3] = RowsOnly
  /\ Migrations[4] = BalanceReservation /\ Migrations[5] = PromoCode
  /\ Migrations[6] = RowsOnly /\ Migrations[7] = RowsOnly
  /\ Migrations[8] = TargetedPromoCodes /\ Migrations[9] = RowsOnly
  /\ Migrations[10] = PilotReferral /\ Migrations[11] = MaxDiscount
  /\ Migrations[12] = GiftByEmail /\ Migrations[13] = LimitedSubsidyEvent
  /\ Migrations[14] = ArPayment /\ Migrations[15] = DelegatedPayments
  /\ Migrations[16] = ArNSPurchase /\ Migrations[17] = ArNSPurchaseQuote
  /\ Migrations[18] = StoreMessageId /\ Migrations[19] = DelegatedArNSPurchases
  /\ Migrations[20] = RowsOnly
BY DEF Migrations

LEMMA TablesMade ==
  /\ UpOf(1).creates = TopUpTables \cup {"user"}
  /\ UpOf(4).creates = {"balance_reservation", "upload_adjustment"}
  /\ UpOf(5).creates = AdjustmentTables
  /\ UpOf(16).creates = ArNSTables
BY TheMigrations DEF UpOf, Change, Initial, BalanceReservation, PromoCode, ArNSPurchase

\* The columns that migration n adds come with it, into tables that are there by then.
AddsRightly(n, added) ==
  \A c \in added : ColumnBirth(c) = n /\ TableBirth(c[1]) \in 1 .. n
                   /\ c[1] \in UpOf(TableBirth(c[1])).creates

LEMMA UpShapeOf ==
  ASSUME NEW n, NEW created, NEW added, NEW gone,
         UpOf(n) = Change(created, {}, added, gone), gone = IF n = 5 THEN OperatorColumns ELSE {},
         \A t \in created : TableBirth(t) = n, AddsRightly(n, added)
  PROVE  UpShape(n)
BY DEF Change, UpShape, AddsRightly

LEMMA DownShapeOf ==
  ASSUME NEW n, NEW created, NEW added, NEW gone, NEW back,
         UpOf(n) = Change(created, {}, added, gone), DownOf(n) = Change({}, created, gone, back),
         back \subseteq added, \A c \in added : c \in back \/ c[1] \in created
  PROVE  DownShape(n)
BY DEF Change, DownShape

LEMMA Shape1 == UpShape(1) /\ DownShape(1)
<1> DEFINE created == TopUpTables \cup {"user"}
           added == {}
<1>1. UpOf(1) = Change(created, {}, added, {}) /\ DownOf(1) = Change({}, created, {}, {})
  BY TheMigrations DEF UpOf, DownOf, Initial
<1>2. \A t \in created : TableBirth(t) = 1
  BY DEF TableBirth, TopUpTables
<1>3. AddsRightly(1, added)
  BY DEF AddsRightly
<1>4. \A c \in added : c \in {} \/ c[1] \in created
  OBVIOUS
<1> HIDE DEF created, added
<1> QED
  BY <1>1, <1>2, <1>3, <1>4, UpShapeOf, DownShapeOf

LEMMA Shape2 == UpShape(2) /\ DownShape(2)
<1> DEFINE created == {"audit_log"}
           added == {}
<1>1. UpOf(2) = Change(created, {}, added, {}) /\ DownOf(2) = Change({}, created, {}, {})
  BY TheMigrations DEF UpOf, DownOf, AuditLog
<1>2. \A t \in created : TableBirth(t) = 2
  BY DEF TableBirth, TopUpTables
<1>3. AddsRightly(2, added)
  BY DEF AddsRightly
<1>4. \A c \in added : c \in {} \/ c[1] \in created
  OBVIOUS
<1> HIDE DEF created, added
<1> QED
  BY <1>1, <1>2, <1>3, <1>4, UpShapeOf, DownShapeOf

LEMMA Shape4 == UpShape(4) /\ DownShape(4)
<1> DEFINE created == {"balance_reservation", "upload_adjustment"}
           added == OperatorColumns
<1>1. UpOf(4) = Change(created, {}, added, {}) /\ DownOf(4) = Change({}, created, {}, {})
  BY TheMigrations DEF UpOf, DownOf, BalanceReservation
<1>2. \A t \in created : TableBirth(t) = 4
  BY DEF TableBirth, OperatorColumns, TopUpTables, ArNSTables
<1>3. AddsRightly(4, added)
  BY TablesMade DEF AddsRightly, TableBirth, ColumnBirth, OperatorColumns, TopUpTables, ArNSTables
<1>4. \A c \in added : c \in {} \/ c[1] \in created
  BY DEF OperatorColumns
<1> HIDE DEF created, added
<1> QED
  BY <1>1, <1>2, <1>3, <1>4, UpShapeOf, DownShapeOf

LEMMA Shape5 == UpShape(5) /\ DownShape(5)
<1> DEFINE created == AdjustmentTables
           added == (TopUpTables \X {"quoted_payment_amount"})
                      \cup ({"upload_adjustment"} \X {"user_address", "catalog_id"})
<1>1. UpOf(5) = Change(created, {}, added, OperatorColumns) /\ DownOf(5) = Change({}, created, OperatorColumns, added)
  BY TheMigrations DEF UpOf, DownOf, PromoCode
<1>2. \A t \in created : TableBirth(t) = 5
  BY DEF TableBirth, AdjustmentTables, OperatorColumns, TopUpTables, ArNSTables
<1>3. AddsRightly(5, added)
  BY TablesMade DEF AddsRightly, TableBirth, ColumnBirth, AdjustmentTables, OperatorColumns, TopUpTables, ArNSTables
<1>4. \A c \in added : c \in added \/ c[1] \in created
  OBVIOUS
<1> HIDE DEF created, added
<1> QED
  BY <1>1, <1>2, <1>3, <1>4, UpShapeOf, DownShapeOf

LEMMA Shape8 == UpShape(8) /\ DownShape(8)
<1> DEFINE created == {}
           added == {"single_use_code_payment_adjustment_catalog"} \X {"target_user_group"}
<1>1. UpOf(8) = Change(created, {}, added, {}) /\ DownOf(8) = Change({}, created, {}, added)
  BY TheMigrations DEF UpOf, DownOf, TargetedPromoCodes, CodeColumns
<1>2. \A t \in created : TableBirth(t) = 8
  OBVIOUS
<1>3. AddsRightly(8, added)
  BY TablesMade DEF AddsRightly, TableBirth, ColumnBirth, AdjustmentTables, OperatorColumns, TopUpTables, ArNSTables
<1>4. \A c \in added : c \in added \/ c[1] \in created
  OBVIOUS
<1> HIDE DEF created, added
<1> QED
  BY <1>1, <1>2, <1>3, <1>4, UpShapeOf, DownShapeOf

LEMMA Shape10 == UpShape(10) /\ DownShape(10)
<1> DEFINE created == {}
           added == {"single_use_code_payment_adjustment_catalog"} \X {"max_uses", "minimum_payment_amount"}
<1>1. UpOf(10) = Change(created, {}, added, {}) /\ DownOf(10) = Change({}, created, {}, added)
  BY TheMigrations DEF UpOf, DownOf, PilotReferral, CodeColumns
<1>2. \A t \in created : TableBirth(t) = 10
  OBVIOUS
<1>3. AddsRightly(10, added)
  BY TablesMade DEF AddsRightly, TableBirth, ColumnBirth, AdjustmentTables, OperatorColumns, TopUpTables, ArNSTables
<1>4. \A c \in added : c \in added \/ c[1] \in created
  OBVIOUS
<1> HIDE DEF created, added
<1> QED
  BY <1>1, <1>2, <1>3, <1>4, UpShapeOf, DownShapeOf

LEMMA Shape11 == UpShape(11) /\ DownShape(11)
<1> DEFINE created == {}
           added == {"single_use_code_payment_adjustment_catalog"} \X {"maximum_discount_amount"}
<1>1. UpOf(11) = Change(created, {}, added, {}) /\ DownOf(11) = Change({}, created, {}, added)
  BY TheMigrations DEF UpOf, DownOf, MaxDiscount, CodeColumns
<1>2. \A t \in created : TableBirth(t) = 11
  OBVIOUS
<1>3. AddsRightly(11, added)
  BY TablesMade DEF AddsRightly, TableBirth, ColumnBirth, AdjustmentTables, OperatorColumns, TopUpTables, ArNSTables
<1>4. \A c \in added : c \in added \/ c[1] \in created
  OBVIOUS
<1> HIDE DEF created, added
<1> QED
  BY <1>1, <1>2, <1>3, <1>4, UpShapeOf, DownShapeOf

LEMMA Shape12 == UpShape(12) /\ DownShape(12)
<1> DEFINE created == {"unredeemed_gift", "redeemed_gift"}
           added == TopUpTables \X {"gift_message"}
<1>1. UpOf(12) = Change(created, {}, added, {}) /\ DownOf(12) = Change({}, created, {}, added)
  BY TheMigrations DEF UpOf, DownOf, GiftByEmail
<1>2. \A t \in created : TableBirth(t) = 12
  BY DEF TableBirth, AdjustmentTables, OperatorColumns, TopUpTables, ArNSTables
<1>3. AddsRightly(12, added)
  BY TablesMade DEF AddsRightly, TableBirth, ColumnBirth, AdjustmentTables, OperatorColumns, TopUpTables, ArNSTables
<1>4. \A c \in added : c \in added \/ c[1] \in created
  OBVIOUS
<1> HIDE DEF created, added
<1> QED
  BY <1>1, <1>2, <1>3, <1>4, UpShapeOf, DownShapeOf

LEMMA Shape13 == UpShape(13)
<1> DEFINE created == {}
           added == {"upload_adjustment_catalog"} \X {"byte_count_threshold", "winc_limitation",
                      "limitation_interval", "limitation_interval_unit"}
<1>1. UpOf(13) = Change(created, {}, added, {})
  BY TheMigrations DEF UpOf, LimitedSubsidyEvent
<1>2. \A t \in created : TableBirth(t) = 13
  OBVIOUS
<1>3. AddsRightly(13, added)
  BY TablesMade DEF AddsRightly, TableBirth, ColumnBirth, AdjustmentTables, OperatorColumns, TopUpTables, ArNSTables
<1> HIDE DEF created, added
<1> QED
  BY <1>1, <1>2, <1>3, UpShapeOf

LEMMA Shape14 == UpShape(14) /\ DownShape(14)
<1> DEFINE created == {"pending_payment_transaction", "failed_payment_transaction",
                        "credited_payment_transaction"}
           added == {}
<1>1. UpOf(14) = Change(created, {}, added, {}) /\ DownOf(14) = Change({}, created, {}, {})
  BY TheMigrations DEF UpOf, DownOf, ArPayment
<1>2. \A t \in created : TableBirth(t) = 14
  BY DEF TableBirth, TopUpTables, AdjustmentTables, ArNSTables
<1>3. AddsRightly(14, added)
  BY DEF AddsRightly
<1>4. \A c \in added : c \in {} \/ c[1] \in created
  OBVIOUS
<1> HIDE DEF created, added
<1> QED
  BY <1>1, <1>2, <1>3, <1>4, UpShapeOf, DownShapeOf

LEMMA Shape15 == UpShape(15) /\ DownShape(15)
<1> DEFINE created == {"delegated_payment_approval", "inactive_delegated_payment_approval"}
           added == {<<"balance_reservation", "overflow_spend">>}
<1>1. UpOf(15) = Change(created, {}, added, {}) /\ DownOf(15) = Change({}, created, {}, added)
  BY TheMigrations DEF UpOf, DownOf, DelegatedPayments
<1>2. \A t \in created : TableBirth(t) = 15
  BY DEF TableBirth, AdjustmentTables, OperatorColumns, TopUpTables, ArNSTables
<1>3. AddsRightly(15, added)
  BY TablesMade DEF AddsRightly, TableBirth, ColumnBirth, AdjustmentTables, OperatorColumns, TopUpTables, ArNSTables
<1>4. \A c \in added : c \in added \/ c[1] \in created
  OBVIOUS
<1> HIDE DEF created, added
<1> QED
  BY <1>1, <1>2, <1>3, <1>4, UpShapeOf, DownShapeOf

LEMMA Shape16 == UpShape(16) /\ DownShape(16)
<1> DEFINE created == ArNSTables
           added == {}
<1>1. UpOf(16) = Change(created, {}, added, {}) /\ DownOf(16) = Change({}, created, {}, {})
  BY TheMigrations DEF UpOf, DownOf, ArNSPurchase
<1>2. \A t \in created : TableBirth(t) = 16
  BY DEF TableBirth, TopUpTables, AdjustmentTables, ArNSTables
<1>3. AddsRightly(16, added)
  BY DEF AddsRightly
<1>4. \A c \in added : c \in {} \/ c[1] \in created
  OBVIOUS
<1> HIDE DEF created, added
<1> QED
  BY <1>1, <1>2, <1>3, <1>4, UpShapeOf, DownShapeOf

LEMMA Shape17 == UpShape(17) /\ DownShape(17)
<1> DEFINE created == {"arns_purchase_quote"}
           added == ArNSTables \X {"quote_creation_date", "quote_expiration_date",
                      "payment_provider", "payment_amount", "quoted_payment_amount",
                      "currency_type", "excess_winc"}
<1>1. UpOf(17) = Change(created, {}, added, {}) /\ DownOf(17) = Change({}, created, {}, added)
  BY TheMigrations DEF UpOf, DownOf, ArNSPurchaseQuote
<1>2. \A t \in created : TableBirth(t) = 17
  BY DEF TableBirth, AdjustmentTables, OperatorColumns, TopUpTables, ArNSTables
<1>3. AddsRightly(17, added)
  BY TablesMade DEF AddsRightly, TableBirth, ColumnBirth, AdjustmentTables, OperatorColumns, TopUpTables, ArNSTables
<1>4. \A c \in added : c \in added \/ c[1] \in created
  OBVIOUS
<1> HIDE DEF created, added
<1> QED
  BY <1>1, <1>2, <1>3, <1>4, UpShapeOf, DownShapeOf

LEMMA Shape18 == UpShape(18) /\ DownShape(18)
<1> DEFINE created == {}
           added == ArNSTables \X {"message_id"}
<1>1. UpOf(18) = Change(created, {}, added, {}) /\ DownOf(18) = Change({}, created, {}, added)
  BY TheMigrations DEF UpOf, DownOf, StoreMessageId
<1>2. \A t \in created : TableBirth(t) = 18
  OBVIOUS
<1>3. AddsRightly(18, added)
  BY TablesMade DEF AddsRightly, TableBirth, ColumnBirth, AdjustmentTables, OperatorColumns, TopUpTables, ArNSTables
<1>4. \A c \in added : c \in added \/ c[1] \in created
  OBVIOUS
<1> HIDE DEF created, added
<1> QED
  BY <1>1, <1>2, <1>3, <1>4, UpShapeOf, DownShapeOf

LEMMA Shape19 == UpShape(19) /\ DownShape(19)
<1> DEFINE created == {}
           added == ArNSTables \X {"paid_by", "overflow_spend"}
<1>1. UpOf(19) = Change(created, {}, added, {}) /\ DownOf(19) = Change({}, created, {}, added)
  BY TheMigrations DEF UpOf, DownOf, DelegatedArNSPurchases
<1>2. \A t \in created : TableBirth(t) = 19
  OBVIOUS
<1>3. AddsRightly(19, added)
  BY TablesMade DEF AddsRightly, TableBirth, ColumnBirth, AdjustmentTables, OperatorColumns, TopUpTables, ArNSTables
<1>4. \A c \in added : c \in added \/ c[1] \in created
  OBVIOUS
<1> HIDE DEF created, added
<1> QED
  BY <1>1, <1>2, <1>3, <1>4, UpShapeOf, DownShapeOf

LEMMA ShapeOfRows == \A n \in {3, 6, 7, 9, 20} : UpShape(n) /\ DownShape(n)
BY TheMigrations DEF UpShape, DownShape, UpOf, DownOf, RowsOnly, Change, Nothing

LEMMA Shapes == \A n \in 1 .. Latest : UpShape(n) /\ (n # 13 => DownShape(n))
<1> SUFFICES ASSUME NEW n \in 1 .. Latest PROVE UpShape(n) /\ (n # 13 => DownShape(n))
  OBVIOUS
<1>1. n \in {3, 6, 7, 9, 20} \/ n \in {1, 2, 4, 5, 8, 10, 11} \/ n \in {12, 13, 14, 15, 16, 17, 18, 19}
  BY DEF Latest
<1> QED
  BY <1>1, ShapeOfRows, Shape1, Shape2, Shape4, Shape5, Shape8, Shape10, Shape11, Shape12, Shape13,
     Shape14, Shape15, Shape16, Shape17, Shape18, Shape19

\* The database after the first v migrations.
AsOf(v) ==
  [tables |-> {t \in Tables : TableBirth(t) <= v},
   columns |-> {c \in Columns : ColumnBirth(c) <= v /\ (v >= 5 => c \notin OperatorColumns)}]

\* Each table and column has the one migration it is born with.
LEMMA Births ==
  /\ \A t \in Tables : TableBirth(t) \in 1 .. Latest /\ t \in UpOf(TableBirth(t)).creates
  /\ \A n \in 1 .. Latest : UpOf(n).creates \subseteq Tables
  /\ \A c \in Columns : /\ ColumnBirth(c) \in 1 .. Latest /\ c \in UpOf(ColumnBirth(c)).adds
                        /\ c[1] \in Tables /\ TableBirth(c[1]) <= ColumnBirth(c)
  /\ \A n \in 1 .. Latest : UpOf(n).adds \subseteq Columns
<1>1. \A n \in 1 .. Latest : UpOf(n).creates \subseteq Tables /\ UpOf(n).adds \subseteq Columns
  BY DEF Tables, Columns
<1>2. ASSUME NEW t \in Tables PROVE TableBirth(t) \in 1 .. Latest /\ t \in UpOf(TableBirth(t)).creates
  <2>1. PICK n \in 1 .. Latest : t \in UpOf(n).creates
    BY DEF Tables
  <2>2. TableBirth(t) = n
    BY <2>1, Shapes DEF UpShape
  <2> QED
    BY <2>1, <2>2
<1>3. ASSUME NEW c \in Columns
      PROVE  /\ ColumnBirth(c) \in 1 .. Latest /\ c \in UpOf(ColumnBirth(c)).adds
             /\ c[1] \in Tables /\ TableBirth(c[1]) <= ColumnBirth(c)
  <2>1. PICK n \in 1 .. Latest : c \in UpOf(n).adds
    BY DEF Columns
  <2>2. /\ ColumnBirth(c) = n /\ TableBirth(c[1]) \in 1 .. n
        /\ c[1] \in UpOf(TableBirth(c[1])).creates
    BY <2>1, Shapes DEF UpShape
  <2>3. TableBirth(c[1]) \in 1 .. Latest /\ TableBirth(c[1]) <= n
    BY <2>2 DEF Latest
  <2>4. c[1] \in Tables
    BY <1>1, <2>2, <2>3
  <2> QED
    BY <2>1, <2>2, <2>3, <2>4
<1> QED
  BY <1>1, <1>2, <1>3

LEMMA OperatorBirth ==
  /\ OperatorColumns \subseteq Columns
  /\ \A c \in OperatorColumns : /\ ColumnBirth(c) = 4 /\ c[1] = "upload_adjustment"
  /\ "upload_adjustment" \in Tables /\ TableBirth("upload_adjustment") = 4
<1>1. UpOf(4).adds = OperatorColumns
  BY TheMigrations DEF UpOf, BalanceReservation, Change
<1>2. 4 \in 1 .. Latest
  BY DEF Latest
<1>3. \A c \in OperatorColumns : c[1] = "upload_adjustment"
  BY DEF OperatorColumns
<1>4. "upload_adjustment" \in UpOf(4).creates
  BY TablesMade
<1> QED
  BY <1>1, <1>2, <1>3, <1>4, Births, Shape4 DEF UpShape

LEMMA UpChanges ==
  ASSUME NEW n \in 1 .. Latest
  PROVE  Possible(AsOf(n - 1), UpOf(n)) /\ Changed(AsOf(n - 1), UpOf(n)) = AsOf(n)
<1> DEFINE s == AsOf(n - 1)
           u == UpOf(n)
<1>1. UpShape(n) /\ u.creates \subseteq Tables /\ u.adds \subseteq Columns
  BY Shapes, Births
<1>2. /\ \A t \in Tables : TableBirth(t) \in Nat /\ (t \in u.creates <=> TableBirth(t) = n)
      /\ \A c \in Columns : ColumnBirth(c) \in Nat /\ (c \in u.adds <=> ColumnBirth(c) = n)
  BY <1>1, Births DEF UpShape
<1>3. /\ s.tables = {t \in Tables : TableBirth(t) <= n - 1}
      /\ s.columns = {c \in Columns : ColumnBirth(c) <= n - 1 /\ (n - 1 >= 5 => c \notin OperatorColumns)}
  BY DEF AsOf
<1>4. /\ u.drops = {} /\ u.removes = IF n = 5 THEN OperatorColumns ELSE {}
      /\ \A c \in u.adds : c[1] \in Tables /\ TableBirth(c[1]) <= n
  BY <1>1, Births DEF UpShape
<1>5. /\ OperatorColumns \subseteq Columns /\ \A c \in OperatorColumns : ColumnBirth(c) = 4
  BY OperatorBirth
<1> HIDE DEF s, u
<1>6. Possible(s, u)
  <2>1. u.creates \cap s.tables = {} /\ u.drops \subseteq s.tables
    BY <1>2, <1>3, <1>4
  <2>2. \A c \in u.adds : c \notin s.columns /\ c[1] \in s.tables \cup u.creates
    BY <1>1, <1>2, <1>3, <1>4
  <2>3. u.removes \subseteq s.columns
    BY <1>3, <1>4, <1>5
  <2> QED
    BY <2>1, <2>2, <2>3 DEF Possible
<1>7. Changed(s, u) = AsOf(n)
  <2>1. (s.tables \ u.drops) \cup u.creates = {t \in Tables : TableBirth(t) <= n}
    BY <1>1, <1>2, <1>3, <1>4
  <2>2. {c \in s.columns \ u.removes : c[1] \notin u.drops} \cup u.adds
          = {c \in Columns : ColumnBirth(c) <= n /\ (n >= 5 => c \notin OperatorColumns)}
    BY <1>1, <1>2, <1>3, <1>4, <1>5
  <2> QED
    BY <2>1, <2>2 DEF Changed, AsOf
<1> QED
  BY <1>6, <1>7 DEF s, u

LEMMA DownChanges ==
  ASSUME NEW n \in 1 .. Latest, n # 13
  PROVE  Possible(AsOf(n), DownOf(n)) /\ Changed(AsOf(n), DownOf(n)) = AsOf(n - 1)
<1> DEFINE s == AsOf(n)
           u == UpOf(n)
           d == DownOf(n)
<1>1. UpShape(n) /\ DownShape(n) /\ u.creates \subseteq Tables /\ u.adds \subseteq Columns
  BY Shapes, Births
<1>2. /\ \A t \in Tables : TableBirth(t) \in Nat /\ (t \in u.creates <=> TableBirth(t) = n)
      /\ \A c \in Columns : ColumnBirth(c) \in Nat /\ (c \in u.adds <=> ColumnBirth(c) = n)
  BY <1>1, Births DEF UpShape
<1>3. /\ s.tables = {t \in Tables : TableBirth(t) <= n}
      /\ s.columns = {c \in Columns : ColumnBirth(c) <= n /\ (n >= 5 => c \notin OperatorColumns)}
  BY DEF AsOf
<1>4. /\ d.creates = {} /\ d.drops = u.creates /\ d.removes \subseteq u.adds
      /\ d.adds = IF n = 5 THEN OperatorColumns ELSE {}
      /\ \A c \in u.adds : c \in d.removes \/ c[1] \in u.creates
  BY <1>1 DEF UpShape, DownShape
<1>5. /\ OperatorColumns \subseteq Columns
      /\ \A c \in OperatorColumns : /\ ColumnBirth(c) = 4 /\ c[1] = "upload_adjustment"
      /\ "upload_adjustment" \in Tables /\ TableBirth("upload_adjustment") = 4
  BY OperatorBirth
<1>6. \A c \in Columns : c[1] \in Tables /\ TableBirth(c[1]) <= ColumnBirth(c)
  BY Births
<1> HIDE DEF s, u, d
<1>7. Possible(s, d)
  <2>1. d.creates \cap s.tables = {} /\ d.drops \subseteq s.tables
    BY <1>1, <1>2, <1>3, <1>4
  <2>2. \A c \in d.adds : c \notin s.columns /\ c[1] \in s.tables \cup d.creates
    BY <1>3, <1>4, <1>5
  <2>3. d.removes \subseteq s.columns
    BY <1>1, <1>2, <1>3, <1>4, <1>5
  <2> QED
    BY <2>1, <2>2, <2>3 DEF Possible
<1>8. Changed(s, d) = AsOf(n - 1)
  <2>1. (s.tables \ d.drops) \cup d.creates = {t \in Tables : TableBirth(t) <= n - 1}
    BY <1>1, <1>2, <1>3, <1>4
  <2>2. {c \in s.columns \ d.removes : c[1] \notin d.drops} \cup d.adds
          = {c \in Columns : ColumnBirth(c) <= n - 1 /\ (n - 1 >= 5 => c \notin OperatorColumns)}
    <3> DEFINE L == {c \in s.columns \ d.removes : c[1] \notin d.drops} \cup d.adds
               R == {c \in Columns : ColumnBirth(c) <= n - 1 /\ (n - 1 >= 5 => c \notin OperatorColumns)}
    <3>1. ASSUME NEW c \in L PROVE c \in R
      BY <1>2, <1>3, <1>4, <1>5
    <3>2. ASSUME NEW c \in R PROVE c \in L
      <4>1. CASE n = 5 /\ c \in OperatorColumns
        BY <1>4, <4>1
      <4>2. CASE ~(n = 5 /\ c \in OperatorColumns)
        <5>1. c \in s.columns
          BY <1>2, <1>3, <4>2
        <5>2. c \notin u.adds /\ c[1] \notin u.creates
          BY <1>2, <1>6
        <5> QED
          BY <1>4, <5>1, <5>2
      <4> QED
        BY <4>1, <4>2
    <3> QED
      BY <3>1, <3>2
  <2> QED
    BY <2>1, <2>2 DEF Changed, AsOf
<1> QED
  BY <1>7, <1>8 DEF s, d

\* Migration 13 cannot be rolled back: it takes its columns from another table.
LEMMA StuckAt13 == ~Possible(AsOf(13), DownOf(13))
<1> DEFINE c == <<"single_use_code_payment_adjustment_catalog", "byte_count_threshold">>
<1>1. c \in DownOf(13).removes
  BY TheMigrations DEF DownOf, LimitedSubsidyEvent, Change
<1>2. ColumnBirth(c) = 13
  BY DEF ColumnBirth, ArNSTables, OperatorColumns
<1>3. c \notin UpOf(13).adds
  BY TheMigrations DEF UpOf, LimitedSubsidyEvent, Change
<1>4. c \notin Columns
  BY <1>2, <1>3, Births
<1> HIDE DEF c
<1>5. c \notin AsOf(13).columns
  BY <1>4 DEF AsOf
<1> QED
  BY <1>1, <1>5 DEF Possible

LEMMA AsOfZero == AsOf(0) = Empty
<1>1. \A t \in Tables : ~(TableBirth(t) <= 0)
  BY Births
<1>2. \A c \in Columns : ~(ColumnBirth(c) <= 0)
  BY Births
<1> QED
  BY <1>1, <1>2 DEF AsOf, Empty

LEMMA ProvidedIs == \A v \in 0 .. Latest : Provided[v] = AsOf(v)
<1> DEFINE g == [v \in 0 .. Latest |-> AsOf(v)]
           Step(f) == [v \in 0 .. Latest |->
                         IF v = 0 THEN Empty ELSE Changed(f[v - 1], Migrations[v].up)]
<1>1. AsOf(0) = Empty
  BY AsOfZero
<1>2. g = Step(g)
  <2>1. ASSUME NEW v \in 0 .. Latest
        PROVE  AsOf(v) = IF v = 0 THEN Empty ELSE Changed(g[v - 1], Migrations[v].up)
    <3>1. CASE v = 0
      BY <1>1, <3>1
    <3>2. CASE v # 0
      <4>1. v \in 1 .. Latest /\ v - 1 \in 0 .. Latest
        BY <3>2 DEF Latest
      <4>2. g[v - 1] = AsOf(v - 1)
        BY <4>1
      <4> HIDE DEF g
      <4> QED
        BY <3>2, <4>1, <4>2, UpChanges DEF UpOf
    <3> QED
      BY <3>1, <3>2
  <2> QED
    BY <2>1
<1> HIDE DEF g
<1>3. Provided = CHOOSE f : f = Step(f)
  BY DEF Provided
<1>4. Provided = Step(Provided)
  BY <1>2, <1>3
<1>5. \A v \in 0 .. Latest :
        Provided[v] = IF v = 0 THEN Empty ELSE Changed(Provided[v - 1], UpOf(v))
  BY <1>4 DEF UpOf
<1> DEFINE N == {n \in Nat : n \in 0 .. Latest => Provided[n] = AsOf(n)}
<1>6. 0 \in N
  BY <1>1, <1>5 DEF Latest
<1>7. ASSUME NEW n \in Nat, n \in N PROVE n + 1 \in N
  <2> SUFFICES ASSUME n + 1 \in 0 .. Latest PROVE Provided[n + 1] = AsOf(n + 1)
    OBVIOUS
  <2>1. n \in 0 .. Latest /\ n + 1 \in 1 .. Latest /\ (n + 1) - 1 = n /\ n + 1 # 0
    BY DEF Latest
  <2>2. Provided[n] = AsOf(n)
    BY <1>7, <2>1
  <2> DEFINE m == n + 1
  <2>3. m \in 1 .. Latest /\ m - 1 = n /\ m # 0 /\ m \in 0 .. Latest
    BY <2>1
  <2> HIDE DEF m
  <2>4. Provided[m] = AsOf(m)
    BY <1>5, <2>2, <2>3, UpChanges
  <2> QED
    BY <2>4 DEF m
<1> HIDE DEF N
<1>8. Nat \subseteq N
  BY <1>6, <1>7, NatSetInduction
<1> QED
  BY <1>8 DEF N

\* A migration that only writes rows leaves the schema as it is.
LEMMA RowsChangeNothing == \A n \in {3, 6, 7, 9, 20} : AsOf(n) = AsOf(n - 1)
<1> SUFFICES ASSUME NEW n \in {3, 6, 7, 9, 20} PROVE AsOf(n) = AsOf(n - 1)
  OBVIOUS
<1>1. n \in 1 .. Latest
  BY DEF Latest
<1>2. UpOf(n) = Change({}, {}, {}, {})
  BY TheMigrations DEF UpOf, RowsOnly, Nothing
<1>3. Changed(AsOf(n - 1), UpOf(n)) = AsOf(n - 1)
  <2>1. \A T, C : Changed([tables |-> T, columns |-> C], Change({}, {}, {}, {}))
                    = [tables |-> T, columns |-> C]
    <3> SUFFICES ASSUME NEW T, NEW C
                 PROVE  Changed([tables |-> T, columns |-> C], Change({}, {}, {}, {}))
                          = [tables |-> T, columns |-> C]
      OBVIOUS
    <3>1. (T \ {}) \cup {} = T /\ {c \in C \ {} : c[1] \notin {}} \cup {} = C
      OBVIOUS
    <3> QED
      BY <3>1 DEF Changed, Change
  <2> QED
    BY <1>2, <2>1 DEF AsOf
<1> QED
  BY <1>1, <1>3, UpChanges

-----------------------------------------------------------------------------
(* The catalogs.                                                            *)

Tokens == {"TOKEN2049", "TOKEN2049-expired"}

\* Which catalogs version v has: the first promo code is on sale or has expired.
CatalogsOf(v, c) ==
  /\ c \subseteq {"TOKEN2049", "TOKEN2049-expired", "YOUTUBE", "PILOT50", "KYVE-fee"}
  /\ "YOUTUBE" \in c <=> v >= 8
  /\ "PILOT50" \in c <=> v >= 11
  /\ "KYVE-fee" \in c <=> v >= 20
  /\ v >= 5 <=> "TOKEN2049" \in c \/ "TOKEN2049-expired" \in c
  /\ "TOKEN2049" \in c => "TOKEN2049-expired" \notin c /\ v < 8

PathInv ==
  /\ schema = AsOf(version) /\ failed \subseteq {13}
  /\ version >= 7 => fees # {}
  /\ CatalogsOf(version, catalogs)

LEMMA PathInit == Init => PathInv
<1> QED
  BY AsOfZero DEF Init, PathInv, CatalogsOf, Tokens

LEMMA CatalogsUp ==
  ASSUME BasicInv, PathInv, NEW n \in 1 .. Latest, Up(n)
  PROVE  CatalogsOf(n, catalogs')
<1>1. version = n - 1 /\ n \notin {3, 4, 5, 6, 7, 9} /\ n \in Nat /\ n <= 20
  <2>1. n = version + 1 /\ n \notin {3, 4, 5, 6, 7, 9} /\ version \in Nat /\ n \in Nat /\ n <= 20
    BY UpKeeps DEF Latest, BasicInv, TypeOK
  <2> QED
    BY <2>1
<1>2. /\ catalogs' = Offered(n) \cup (IF n = 8 THEN (catalogs \ {"TOKEN2049"}) \cup {"TOKEN2049-expired"}
                                      ELSE catalogs)
  BY DEF Up
<1>p. CatalogsOf(n - 1, catalogs)
  BY <1>1 DEF PathInv
<1>3. CASE n = 8
  <2>1. catalogs' = {"YOUTUBE"} \cup (catalogs \ {"TOKEN2049"}) \cup {"TOKEN2049-expired"}
    BY <1>2, <1>3 DEF Offered
  <2>2. CatalogsOf(7, catalogs)
    <3>1. n - 1 = 7
      BY <1>3
    <3> QED
      BY <1>p, <3>1
  <2>3. CatalogsOf(8, catalogs')
    BY <2>1, <2>2 DEF CatalogsOf
  <2> QED
    BY <1>3, <2>3
<1>4. CASE n = 11
  <2>1. catalogs' = {"PILOT50"} \cup catalogs
    BY <1>2, <1>4 DEF Offered
  <2>2. CatalogsOf(10, catalogs)
    <3>1. n - 1 = 10
      BY <1>4
    <3> QED
      BY <1>p, <3>1
  <2>3. CatalogsOf(11, catalogs')
    BY <2>1, <2>2 DEF CatalogsOf
  <2> QED
    BY <1>4, <2>3
<1>5. CASE n = 20
  <2>1. catalogs' = {"KYVE-fee"} \cup catalogs
    BY <1>2, <1>5 DEF Offered
  <2>2. CatalogsOf(19, catalogs)
    <3>1. n - 1 = 19
      BY <1>5
    <3> QED
      BY <1>p, <3>1
  <2>3. CatalogsOf(20, catalogs')
    BY <2>1, <2>2 DEF CatalogsOf
  <2> QED
    BY <1>5, <2>3
<1>6. CASE n \notin {8, 11, 20}
  <2>1. catalogs' = catalogs
    BY <1>1, <1>2, <1>6 DEF Offered
  <2>2. /\ (n >= 5 <=> n - 1 >= 5) /\ (n >= 8 <=> n - 1 >= 8) /\ (n < 8 <=> n - 1 < 8)
        /\ (n >= 11 <=> n - 1 >= 11) /\ (n >= 20 <=> n - 1 >= 20)
    BY <1>1, <1>6
  <2> QED
    BY <1>p, <2>1, <2>2 DEF CatalogsOf
<1> QED
  BY <1>3, <1>4, <1>5, <1>6

LEMMA CatalogsDown ==
  ASSUME BasicInv, PathInv, Down
  PROVE  CatalogsOf(version', catalogs')
<1> DEFINE n == version
<1>1. n \in 1 .. 20 /\ version' = n - 1 /\ catalogs' = catalogs \ Withdrawn(n)
  BY DEF Down, Moves, BasicInv, TypeOK, Latest
<1>p. CatalogsOf(n, catalogs)
  BY DEF PathInv
<1> HIDE DEF n
<1>2. CASE n = 5
  <2>1. Withdrawn(n) = Tokens
    BY <1>2 DEF Withdrawn, Tokens
  <2>2. CatalogsOf(5, catalogs)
    BY <1>p, <1>2
  <2>3. version' = 4
    BY <1>1, <1>2
  <2>4. CatalogsOf(4, catalogs')
    BY <1>1, <2>1, <2>2 DEF CatalogsOf, Tokens
  <2> QED
    BY <2>3, <2>4
<1>3. CASE n = 8
  <2>1. Withdrawn(n) = {"YOUTUBE"}
    BY <1>3 DEF Withdrawn
  <2>2. CatalogsOf(8, catalogs)
    BY <1>p, <1>3
  <2>3. version' = 7
    BY <1>1, <1>3
  <2>4. CatalogsOf(7, catalogs')
    BY <1>1, <2>1, <2>2 DEF CatalogsOf
  <2> QED
    BY <2>3, <2>4
<1>4. CASE n = 11
  <2>1. Withdrawn(n) = {"PILOT50"}
    BY <1>4 DEF Withdrawn
  <2>2. CatalogsOf(11, catalogs)
    BY <1>p, <1>4
  <2>3. version' = 10
    BY <1>1, <1>4
  <2>4. CatalogsOf(10, catalogs')
    BY <1>1, <2>1, <2>2 DEF CatalogsOf
  <2> QED
    BY <2>3, <2>4
<1>5. CASE n = 20
  <2>1. Withdrawn(n) = {"KYVE-fee"}
    BY <1>5 DEF Withdrawn
  <2>2. CatalogsOf(20, catalogs)
    BY <1>p, <1>5
  <2>3. version' = 19
    BY <1>1, <1>5
  <2>4. CatalogsOf(19, catalogs')
    BY <1>1, <2>1, <2>2 DEF CatalogsOf
  <2> QED
    BY <2>3, <2>4
<1>6. CASE n \notin {5, 8, 11, 20}
  <2>1. catalogs' = catalogs
    BY <1>1, <1>6 DEF Withdrawn
  <2>2. /\ (n >= 5 <=> n - 1 >= 5) /\ (n >= 8 <=> n - 1 >= 8) /\ (n < 8 <=> n - 1 < 8)
        /\ (n >= 11 <=> n - 1 >= 11) /\ (n >= 20 <=> n - 1 >= 20)
    BY <1>1, <1>6
  <2>3. CatalogsOf(n - 1, catalogs)
    BY <1>p, <2>2 DEF CatalogsOf
  <2> QED
    BY <1>1, <2>1, <2>3
<1> QED
  BY <1>2, <1>3, <1>4, <1>5, <1>6

LEMMA PathStep == BasicInv /\ QuoteInv /\ PathInv /\ [Next]_vars => PathInv'
<1> SUFFICES ASSUME BasicInv, QuoteInv, PathInv, [Next]_vars PROVE PathInv'
  OBVIOUS
<1>1. version \in 0 .. Latest /\ version \in Nat /\ job.n \in {0} \cup Backfills
  BY DEF BasicInv, TypeOK, Latest
<1>2. schema = AsOf(version) /\ failed \subseteq {13} /\ (version >= 7 => fees # {})
      /\ CatalogsOf(version, catalogs)
  BY DEF PathInv
<1>3. ASSUME UNCHANGED <<version, schema, catalogs, fees, failed>> PROVE PathInv'
  BY <1>2, <1>3 DEF PathInv
<1>4. CASE UNCHANGED vars
  BY <1>3, <1>4 DEF vars, tables, history
<1>5. ASSUME NEW n \in 1 .. Latest, Up(n) PROVE PathInv'
  <2>1. version = n - 1 /\ version' = n /\ n # 7 /\ fees' = fees /\ failed' = failed /\ n \in Nat
    BY <1>1, <1>5, UpKeeps DEF history, Latest
  <2>2. schema' = AsOf(n)
    BY <1>2, <1>5, <2>1, UpChanges DEF Up, Moves, UpOf
  <2>3. n >= 7 => n - 1 >= 7
    BY <2>1
  <2> QED
    BY <1>2, <1>5, <2>1, <2>2, <2>3, CatalogsUp DEF PathInv
<1>6. CASE UpPromoCode
  <2>1. /\ version = 4 /\ version' = 5 /\ schema' = Changed(schema, PromoCode.up)
        /\ catalogs' = catalogs \cup {"TOKEN2049"} /\ fees' = fees /\ failed' = failed
    BY <1>1, <1>6 DEF UpPromoCode, IsNext, Moves, Offered
  <2>2. schema' = AsOf(5)
    <3>1. 5 \in 1 .. Latest /\ UpOf(5) = PromoCode.up /\ 5 - 1 = 4
      BY TheMigrations DEF UpOf, Latest
    <3>2. Changed(AsOf(5 - 1), UpOf(5)) = AsOf(5)
      BY <3>1, UpChanges
    <3> QED
      BY <1>2, <2>1, <3>1, <3>2
  <2>3. CatalogsOf(5, catalogs')
    BY <1>2, <2>1 DEF CatalogsOf, Tokens
  <2> QED
    BY <2>1, <2>2, <2>3 DEF PathInv
<1>7. CASE UpTurboInfraFee
  <2>1. /\ version = 6 /\ version' = 7 /\ UNCHANGED <<schema, catalogs, failed>>
        /\ fees' = fees \cup {minted + 1}
    BY <1>1, <1>7 DEF UpTurboInfraFee, IsNext, history
  <2>2. AsOf(7) = AsOf(6)
    <3>1. AsOf(7) = AsOf(7 - 1) /\ 7 - 1 = 6
      BY RowsChangeNothing
    <3> QED
      BY <3>1
  <2>3. CatalogsOf(7, catalogs)
    BY <1>2, <2>1 DEF CatalogsOf, Tokens
  <2>4. fees' # {}
    BY <2>1
  <2> QED
    BY <1>2, <2>1, <2>2, <2>3, <2>4 DEF PathInv
<1>8. CASE FlipSigns \/ BackfillPromoCode \/ BackfillInfraFee
  <2>1. PICK n \in {3, 6, 9} : Writes(n) /\ schema' = schema
    BY <1>8 DEF FlipSigns, BackfillPromoCode, BackfillInfraFee
  <2>2. version = n - 1 /\ version' = n /\ UNCHANGED <<catalogs, fees, failed>>
    BY <2>1 DEF Writes, BasicInv, Running, NoJob
  <2>3. AsOf(n) = AsOf(n - 1)
    BY RowsChangeNothing
  <2>4. CatalogsOf(n, catalogs)
    BY <1>2, <2>2 DEF CatalogsOf, Tokens
  <2>5. n >= 7 => n - 1 >= 7
    OBVIOUS
  <2> QED
    BY <1>2, <2>1, <2>2, <2>3, <2>4, <2>5 DEF PathInv
<1>9. CASE BackfillReservations
  <2>1. version = 3 /\ version' = 4 /\ UNCHANGED <<catalogs, fees, failed>>
    BY <1>9 DEF BackfillReservations, Writes, BasicInv, Running, NoJob
  <2>2. schema' = AsOf(4)
    <3>1. 4 \in 1 .. Latest /\ UpOf(4) = BalanceReservation.up /\ 4 - 1 = 3
      BY TheMigrations DEF UpOf, Latest
    <3>2. Changed(AsOf(4 - 1), UpOf(4)) = AsOf(4)
      BY <3>1, UpChanges
    <3> QED
      BY <1>2, <1>9, <2>1, <3>1, <3>2 DEF BackfillReservations
  <2>3. CatalogsOf(4, catalogs)
    BY <1>2, <2>1 DEF CatalogsOf, Tokens
  <2> QED
    BY <2>1, <2>2, <2>3 DEF PathInv
<1>10. CASE Down
  <2>1. /\ version \in 1 .. Latest /\ Possible(schema, DownOf(version))
        /\ schema' = Changed(schema, DownOf(version)) /\ version' = version - 1
        /\ failed' = failed /\ fees' = IF version = 7 THEN {} ELSE fees
    BY <1>1, <1>10 DEF Down, Moves, DownOf
  <2>2. version # 13
    BY <1>2, <2>1, StuckAt13
  <2>3. schema' = AsOf(version')
    BY <1>2, <2>1, <2>2, DownChanges
  <2>4. version' >= 7 => fees' # {}
    BY <1>1, <1>2, <2>1
  <2> QED
    BY <1>2, <1>10, <2>1, <2>3, <2>4, CatalogsDown DEF PathInv
<1>11. CASE Refused
  <2>1. PICK c \in {Migrations[n].up : n \in {m \in 1 .. Latest : IsNext(m)}}
                     \cup {Migrations[n].down : n \in {version} \cap (1 .. Latest)} :
          ~Possible(schema, c)
    BY <1>11 DEF Refused
  <2>2. ASSUME NEW n \in 1 .. Latest, IsNext(n) PROVE Possible(schema, Migrations[n].up)
    <3>1. version = n - 1
      BY <1>1, <2>2 DEF IsNext, Latest
    <3> QED
      BY <1>2, <3>1, UpChanges DEF UpOf
  <2>3. version \in 1 .. Latest /\ ~Possible(schema, Migrations[version].down)
    BY <2>1, <2>2
  <2>4. version = 13
    BY <1>2, <2>3, DownChanges DEF DownOf
  <2>5. failed' = failed \cup {version} /\ UNCHANGED <<version, schema, catalogs, fees>>
    BY <1>11 DEF Refused, tables
  <2> QED
    BY <1>2, <2>4, <2>5 DEF PathInv
<1>12. ASSUME NEW n \in 1 .. Latest, Read(n) PROVE PathInv'
  BY <1>3, <1>12 DEF Read, tables, history
<1>13. CASE Abort \/ Tick \/ Deploy
  BY <1>3, <1>13 DEF Abort, Tick, Deploy, tables, history
<1>14. ASSUME NEW u \in Uploads, Upload(u) PROVE PathInv'
  BY <1>3, <1>14 DEF Upload, tables
<1>15. ASSUME NEW q \in Quotes, CreateQuote(q) \/ Pay(q) PROVE PathInv'
  BY <1>3, <1>15 DEF CreateQuote, Pay, tables, history
<1> QED
  BY <1>4, <1>5, <1>6, <1>7, <1>8, <1>9, <1>10, <1>11, <1>12, <1>13, <1>14, <1>15 DEF Next

\* Wherever migrations and rollbacks led, the database is the one migrated straight
\* to its version, and only the rollback of migration 13 is ever refused.
THEOREM VersionIsThePath == Spec => []VersionIsPath
<1>1. BasicInv /\ QuoteInv /\ PathInv => VersionIsPath
  <2> SUFFICES ASSUME BasicInv, QuoteInv, PathInv PROVE VersionIsPath
    OBVIOUS
  <2>1. version \in 0 .. Latest /\ version \in Nat
    BY DEF BasicInv, TypeOK, Latest
  <2>2. schema = Provided[version] /\ failed \subseteq {13}
    BY <2>1, ProvidedIs DEF PathInv
  <2>3. Cardinality(fees) = IF version >= 7 THEN 1 ELSE 0
    <3>1. fees = IF version >= 7 THEN {minted} ELSE {}
      BY <2>1 DEF PathInv, QuoteInv, Rowed
    <3> QED
      BY <3>1, FS_EmptySet, FS_Singleton
  <2>4. /\ catalogs \ Tokens = (IF version >= 8 THEN {"YOUTUBE"} ELSE {})
                                 \cup (IF version >= 11 THEN {"PILOT50"} ELSE {})
                                 \cup (IF version >= 20 THEN {"KYVE-fee"} ELSE {})
        /\ version >= 8 => "TOKEN2049" \notin catalogs
    <3>1. CatalogsOf(version, catalogs)
      BY DEF PathInv
    <3>2. \A c \in catalogs \ Tokens : c \in {"YOUTUBE", "PILOT50", "KYVE-fee"}
      BY <3>1 DEF CatalogsOf, Tokens
    <3>3. /\ "YOUTUBE" \in catalogs <=> version >= 8
          /\ "PILOT50" \in catalogs <=> version >= 11
          /\ "KYVE-fee" \in catalogs <=> version >= 20
      BY <3>1 DEF CatalogsOf
    <3>4. version >= 8 => "TOKEN2049" \notin catalogs
      BY <2>1, <3>1 DEF CatalogsOf
    <3> DEFINE Y == IF version >= 8 THEN {"YOUTUBE"} ELSE {}
               P == IF version >= 11 THEN {"PILOT50"} ELSE {}
               K == IF version >= 20 THEN {"KYVE-fee"} ELSE {}
    <3>5. /\ \A c : c \in Y <=> c = "YOUTUBE" /\ c \in catalogs
          /\ \A c : c \in P <=> c = "PILOT50" /\ c \in catalogs
          /\ \A c : c \in K <=> c = "KYVE-fee" /\ c \in catalogs
      BY <3>3
    <3> HIDE DEF Y, P, K
    <3>6. catalogs \ Tokens = Y \cup P \cup K
      BY <3>2, <3>5 DEF Tokens
    <3> QED
      BY <3>4, <3>6 DEF Y, P, K
  <2>5. Cardinality(catalogs \cap Tokens) = IF version >= 5 THEN 1 ELSE 0
    <3>1. CASE version >= 5
      <4>1. catalogs \cap Tokens \in {{"TOKEN2049"}, {"TOKEN2049-expired"}}
        BY <3>1 DEF PathInv, CatalogsOf, Tokens
      <4> QED
        BY <3>1, <4>1, FS_Singleton
    <3>2. CASE ~(version >= 5)
      <4>1. catalogs \cap Tokens = {}
        BY <2>1, <3>2 DEF PathInv, CatalogsOf, Tokens
      <4> QED
        BY <3>2, <4>1, FS_EmptySet
    <3> QED
      BY <3>1, <3>2
  <2> QED
    BY <2>2, <2>3, <2>4, <2>5 DEF VersionIsPath, Tokens
<1>2. Spec => []PathInv
  <2>1. BasicInv /\ QuoteInv /\ PathInv /\ [Next]_vars => PathInv'
    BY PathStep
  <2> QED
    BY <2>1, PathInit, BasicInvariant, QuoteInvariant, PTL DEF Spec
<1> QED
  BY <1>1, <1>2, BasicInvariant, QuoteInvariant, PTL

=============================================================================
