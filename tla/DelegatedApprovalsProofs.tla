---------------------- MODULE DelegatedApprovalsProofs ----------------------
(***************************************************************************)
(* Proofs about DelegatedApprovals: its types, that nothing is overdrawn,  *)
(* where the rows of an approval can go, and where credits come from.      *)
(***************************************************************************)
EXTENDS DelegatedApprovals, SumsAndFolds, TLAPS

Below(f) == \A a \in Approvals : f[a] # None => f[a] \in 0 .. ApprovedWinc[a] - 1

\* What a session has listed or is about to write about an approval fits in it.
RowsOK(x) ==
  /\ Below(x.rows) /\ Below(x.expired) /\ Below(x.held) /\ Below(x.restore)
  /\ \A a \in Approvals : x.past[a] # None => x.past[a].used \in 0 .. ApprovedWinc[a]
  /\ \A a \in Approvals : x.restore[a] # None => x.past[a] # None /\ x.past[a].reason = "used"

\* What a session knows by where it is.
StageOK(x) ==
  /\ x.pc \in {"create", "trimInsert"} => x.a \in Approvals
  /\ x.pc = "trimInsert" => x.seen \in 0 .. ApprovedWinc[x.a] - 1
  /\ x.pc = "trimWrite" => x.from \in Users /\ x.seen >= 0
  /\ x.pc = "revoke" => x.from \in Users
  /\ x.pc \in {"refundActive", "refundInactive"} => x.d # None
  /\ x.pc # "refundInactive" => x.restore = NoRows

\* The rows a session counts on are in their tables.
TablesHold(x) ==
  /\ x.d # None => reservation[x.d] # None
  /\ \A a \in Approvals :
       /\ x.pc = "revoke" /\ x.rows[a] # None => active[a] # None
       /\ x.held[a] # None => active[a] # None

SessionOK(x) == x \in Sessions /\ RowsOK(x) /\ StageOK(x) /\ TablesHold(x)

\* A row lock has one holder.
Exclusive ==
  \A s, t \in Txns, a \in Approvals : s # t => tx[s].held[a] = None \/ tx[t].held[a] = None

TablesTyped ==
  /\ active \in [Approvals -> OptionalNat]
  /\ inactive \in [Approvals -> InactiveRows \cup {None}]
  /\ lapsed \subseteq Expiring
  /\ balance \in [Users -> Int]
  /\ reservation \in [DataItems -> [approved : Nat, own : Nat] \cup {None}]
  /\ refunds \in [DataItems -> Nat]
  /\ creates \in [Approvals -> 0 .. MaxCreates]

ApprovalInv ==
  /\ TablesTyped
  /\ NothingOverdrawn
  /\ tx \in [Txns -> Sessions]
  /\ \A t \in Txns : SessionOK(tx[t])
  /\ Exclusive

USE ApprovalAssumption

-----------------------------------------------------------------------------
(* A step of one session                                                   *)

LEMMA IdleOK == SessionOK(Idle) /\ Idle.held = NoRows
  BY DEF SessionOK, RowsOK, StageOK, TablesHold, Below, Idle, Sessions, PCs, NoRows, NoDebts,
         OptionalNat

LEMMA EndOK ==
  ASSUME NEW t \in Txns, tx'[t] = Idle
  PROVE  SessionOK(tx[t])' /\ tx'[t].held = NoRows
<1>1. tx'[t] \in Sessions /\ tx'[t].held = NoRows
  BY IdleOK DEF SessionOK
<1>2. RowsOK(tx[t])' /\ StageOK(tx[t])' /\ TablesHold(tx[t])'
  BY DEF RowsOK, StageOK, TablesHold, Below, Idle, NoRows
<1> QED
  BY <1>1, <1>2 DEF SessionOK

LEMMA InitOK == Init => ApprovalInv
<1> SUFFICES ASSUME Init PROVE ApprovalInv
  OBVIOUS
<1>1. TablesTyped
  BY DEF Init, TablesTyped, NoRows, OptionalNat
<1>2. NothingOverdrawn
  BY DEF Init, NothingOverdrawn, Rows, NoRows
<1>3. tx \in [Txns -> Sessions] /\ (\A t \in Txns : SessionOK(tx[t])) /\ Exclusive
  BY IdleOK DEF Init, SessionOK, Exclusive, NoRows
<1> QED
  BY <1>1, <1>2, <1>3 DEF ApprovalInv

\* A session moves on while no row of the active table and no reservation is lost.
LEMMA MoveOK ==
  ASSUME ApprovalInv, NEW t \in Txns, NEW x,
         tx' = [tx EXCEPT ![t] = x], SessionOK(x),
         \A a \in Approvals, s \in Txns \ {t} : x.held[a] # None => tx[s].held[a] = None,
         Rows(active) \subseteq Rows(active)',
         \A d \in DataItems : reservation[d] # None => reservation'[d] # None,
         TablesTyped', NothingOverdrawn'
  PROVE  ApprovalInv'
<1>1. x \in Sessions
  BY DEF SessionOK, Sessions
<1>2. tx' \in [Txns -> Sessions]
  BY <1>1 DEF ApprovalInv
<1>3. ASSUME NEW s \in Txns PROVE SessionOK(tx[s])'
  <2>1. CASE s = t
    <3>1. tx'[s] = x
      BY <2>1 DEF ApprovalInv
    <3>2. x.d # None => x.d \in DataItems
      BY <1>1 DEF Sessions
    <3>3. TablesHold(tx[s])'
      BY <3>1, <3>2 DEF SessionOK, TablesHold, Rows
    <3> QED
      BY <3>1, <3>3, <1>1 DEF SessionOK, RowsOK, StageOK, Below
  <2>2. CASE s # t
    <3>1. tx'[s] = tx[s] /\ SessionOK(tx[s])
      BY <2>2 DEF ApprovalInv
    <3>2. tx[s].d # None => tx[s].d \in DataItems
      BY <3>1 DEF SessionOK, Sessions
    <3>3. TablesHold(tx[s])'
      BY <3>1, <3>2 DEF SessionOK, TablesHold, Rows
    <3> QED
      BY <3>1, <3>3 DEF SessionOK, Sessions, RowsOK, StageOK
  <2> QED
    BY <2>1, <2>2
<1>4. Exclusive'
  BY DEF ApprovalInv, Exclusive
<1> QED
  BY <1>2, <1>3, <1>4 DEF ApprovalInv

LocksNoMore(s) ==
  \A a \in Approvals : tx'[s].held[a] = None \/ tx'[s].held[a] = tx[s].held[a]

\* Rows of the active table are deleted: each other session forgets those it had
\* listed for a DELETE, and none of them has them locked.
LEMMA DeleteOK ==
  ASSUME ApprovalInv, NEW D \in SUBSET Approvals, NEW T \in SUBSET Txns,
         tx' \in [Txns -> Sessions],
         \A s \in Txns \ T : tx'[s] = Deleted(D)[s] /\ \A a \in D : tx[s].held[a] = None,
         \A s \in T : SessionOK(tx[s])' /\ LocksNoMore(s),
         Rows(active) \ D \subseteq Rows(active)',
         \A d \in DataItems : reservation[d] # None => reservation'[d] # None,
         TablesTyped', NothingOverdrawn'
  PROVE  ApprovalInv'
<1>1. ASSUME NEW s \in Txns \ T
      PROVE  SessionOK(tx[s])' /\ tx'[s].held = tx[s].held
  <2>1. SessionOK(tx[s]) /\ tx[s] \in Sessions
    BY DEF ApprovalInv
  <2>2. CASE tx[s].pc # "revoke"
    <3>1. tx'[s] = tx[s]
      BY <2>2 DEF Deleted
    <3>2. TablesHold(tx[s])'
      BY <2>1, <2>2, <3>1 DEF SessionOK, TablesHold, Rows, Sessions
    <3> QED
      BY <2>1, <3>1, <3>2 DEF SessionOK, RowsOK, StageOK
  <2>3. CASE tx[s].pc = "revoke"
    <3> DEFINE x == [tx[s] EXCEPT !.rows = Only(tx[s].rows, Approvals \ D)]
    <3>1. tx'[s] = x
      BY <2>3 DEF Deleted
    <3>2. /\ x.pc = tx[s].pc /\ x.a = tx[s].a /\ x.d = tx[s].d /\ x.from = tx[s].from
          /\ x.expired = tx[s].expired /\ x.held = tx[s].held /\ x.restore = tx[s].restore
          /\ x.past = tx[s].past /\ x.seen = tx[s].seen
          /\ x.rows = Only(tx[s].rows, Approvals \ D)
      BY <2>1 DEF Sessions
    <3>3. RowsOK(x)
      BY <2>1, <3>2 DEF SessionOK, RowsOK, Below, Only
    <3>4. StageOK(x)
      BY <2>1, <3>2 DEF SessionOK, StageOK
    <3>5. TablesHold(tx[s])'
      BY <2>1, <3>1, <3>2, <2>3 DEF SessionOK, TablesHold, Rows, Only, Sessions
    <3>6. RowsOK(tx[s])' /\ StageOK(tx[s])'
      BY <3>1, <3>3, <3>4 DEF RowsOK, StageOK, Below
    <3> QED
      BY <3>1, <3>2, <3>5, <3>6 DEF SessionOK
  <2> QED
    BY <2>2, <2>3
<1>2. \A s \in Txns : SessionOK(tx[s])'
  BY <1>1
<1>3. Exclusive'
  BY <1>1 DEF ApprovalInv, Exclusive, LocksNoMore
<1> QED
  BY <1>2, <1>3 DEF ApprovalInv

\* Nothing but the session changes in a step that leaves the tables alone.
LEMMA ReadOK ==
  ASSUME ApprovalInv, NEW t \in Txns, NEW x,
         tx' = [tx EXCEPT ![t] = x], SessionOK(x),
         \A a \in Approvals, s \in Txns \ {t} : x.held[a] # None => tx[s].held[a] = None,
         UNCHANGED <<approvals, lapsed, balance, uploads>>,
         creates' \in [Approvals -> 0 .. MaxCreates]
  PROVE  ApprovalInv'
<1>1. TablesTyped' /\ NothingOverdrawn'
  BY DEF ApprovalInv, TablesTyped, NothingOverdrawn, Rows, approvals, uploads
<1> QED
  BY <1>1, MoveOK DEF Rows, approvals, uploads

\* A table of optional numbers with one entry changed.
LEMMA WithOK ==
  ASSUME NEW f \in [Approvals -> OptionalNat], NEW a \in Approvals, NEW v \in OptionalNat
  PROVE  /\ With(f, a, v) \in [Approvals -> OptionalNat]
         /\ With(f, a, v)[a] = v
         /\ \A b \in Approvals \ {a} : With(f, a, v)[b] = f[b]
         /\ Below(f) /\ (v # None => v \in 0 .. ApprovedWinc[a] - 1) => Below(With(f, a, v))
BY DEF With, Below

LEMMA AddOK ==
  ASSUME NEW f \in [Users -> Nat], NEW u, NEW winc \in Nat
  PROVE  [f EXCEPT ![u] = f[u] + winc] \in [Users -> Nat]
<1>1. CASE u \in Users
  BY <1>1
<1>2. CASE u \notin Users
  BY <1>2
<1> QED
  BY <1>1, <1>2

LEMMA RowsTyped ==
  ASSUME NEW y \in Sessions, NEW rows \in [Approvals -> OptionalNat]
  PROVE  [y EXCEPT !.rows = rows] \in Sessions
BY DEF Sessions

LEMMA OweOK ==
  ASSUME ApprovalInv, NEW t \in Txns, NEW u, NEW winc \in Nat
  PROVE  Owe(t, u, winc) \in [Users -> Nat]
<1>1. tx[t].owed \in [Users -> Nat]
  BY DEF ApprovalInv, Sessions
<1> QED
  BY <1>1, AddOK DEF Owe

LEMMA DeletedTyped ==
  ASSUME ApprovalInv, NEW D \in SUBSET Approvals
  PROVE  Deleted(D) \in [Txns -> Sessions]
<1> SUFFICES ASSUME NEW s \in Txns, tx[s].pc = "revoke"
             PROVE  [tx[s] EXCEPT !.rows = Only(tx[s].rows, Approvals \ D)] \in Sessions
  BY DEF Deleted, ApprovalInv
<1>1. Only(tx[s].rows, Approvals \ D) \in [Approvals -> OptionalNat]
  BY DEF Only, OptionalNat, ApprovalInv, Sessions
<1>2. tx[s] \in Sessions
  BY DEF ApprovalInv
<1> QED
  BY <1>1, <1>2, RowsTyped

-----------------------------------------------------------------------------
(* Creations                                                               *)

LEMMA CheckConflictsOK ==
  ASSUME ApprovalInv, NEW t \in Txns, NEW a \in Approvals, CheckConflicts(t, a)
  PROVE  ApprovalInv'
<1> DEFINE x == [Idle EXCEPT !.pc = "create", !.a = a]
<1>0. /\ x.pc = "create" /\ x.a = a /\ x.d = None /\ x.from = None /\ x.to = None
      /\ x.rows = NoRows /\ x.past = NoRows /\ x.expired = NoRows /\ x.held = NoRows
      /\ x.restore = NoRows
  BY DEF Idle
<1>a. x \in Sessions
  BY IdleOK DEF SessionOK, Sessions, PCs
<1>1. SessionOK(x)
  BY <1>0, <1>a DEF SessionOK, RowsOK, StageOK, TablesHold, Below, NoRows
<1>2. x.held = NoRows /\ tx[t].pc = "idle"
  BY DEF Idle, CheckConflicts, Begin
<1>3. creates' \in [Approvals -> 0 .. MaxCreates]
  BY DEF CheckConflicts, ApprovalInv, TablesTyped
<1>4. \A b \in Approvals, s \in Txns \ {t} : x.held[b] # None => tx[s].held[b] = None
  BY <1>2 DEF NoRows
<1> QED
  BY <1>1, <1>3, <1>4, ReadOK DEF CheckConflicts, Begin

LEMMA CommitCreateOK ==
  ASSUME ApprovalInv, NEW t \in Txns, CommitCreate(t)
  PROVE  ApprovalInv'
<1> DEFINE a == tx[t].a
           p == PayingAddress[a]
<1>1. a \in Approvals /\ p \in Users /\ ApprovedWinc[a] \in Nat \ {0}
  BY DEF CommitCreate, ApprovalInv, SessionOK, StageOK
<1>2. TablesTyped'
  BY <1>1 DEF CommitCreate, ApprovalInv, TablesTyped, OptionalNat, uploads
<1>3. NothingOverdrawn'
  BY <1>1 DEF CommitCreate, ApprovalInv, TablesTyped, NothingOverdrawn, Rows, OptionalNat
<1>4. Rows(active) \subseteq Rows(active)'
  BY <1>1 DEF CommitCreate, ApprovalInv, TablesTyped, Rows
<1> QED
  BY <1>2, <1>3, <1>4, IdleOK, MoveOK DEF CommitCreate, End, Move, NoRows, uploads

\* A new session that has only listed rows.
LEMMA BeginOK ==
  ASSUME ApprovalInv, NEW t \in Txns, NEW x,
         Begin(t, x), SessionOK(x), x.held = NoRows,
         UNCHANGED <<approvals, lapsed, balance, uploads, creates>>
  PROVE  ApprovalInv'
BY ReadOK DEF Begin, NoRows, ApprovalInv, TablesTyped

-----------------------------------------------------------------------------
(* Revocations                                                             *)

LEMMA StartRevokeOK ==
  ASSUME ApprovalInv, NEW t \in Txns, NEW p \in Users, NEW s \in Users, StartRevoke(t, p, s)
  PROVE  ApprovalInv'
<1> DEFINE rows == Only(active, From(p, s))
           x == [Idle EXCEPT !.pc = "revoke", !.from = p, !.to = s, !.rows = rows]
<1>1. rows \in [Approvals -> OptionalNat] /\ Below(rows)
  BY DEF Only, Below, ApprovalInv, TablesTyped, NothingOverdrawn, Rows, OptionalNat
<1>2. \A a \in Approvals : rows[a] # None => active[a] # None
  BY DEF Only
<1>3. x \in Sessions
  BY <1>1, IdleOK DEF SessionOK, Sessions, PCs
<1>4. /\ x.pc = "revoke" /\ x.from = p /\ x.d = None /\ x.rows = rows
      /\ x.past = NoRows /\ x.expired = NoRows /\ x.held = NoRows /\ x.restore = NoRows
  BY DEF Idle
<1>5. SessionOK(x)
  BY <1>1, <1>2, <1>3, <1>4 DEF SessionOK, RowsOK, StageOK, TablesHold, Below, NoRows
<1> QED
  BY <1>4, <1>5, BeginOK DEF StartRevoke

LEMMA RevokeRowOK ==
  ASSUME ApprovalInv, NEW t \in Txns, NEW a \in Approvals, RevokeRow(t, a)
  PROVE  ApprovalInv'
<1> DEFINE old == tx[t]
           winc == ApprovedWinc[a] - active[a]
           rows == Without(old.rows, a)
           held == With(old.held, a, active[a])
           x == [old EXCEPT !.rows = rows, !.held = held, !.owed = Owe(t, old.from, winc)]
<1>1. old \in Sessions /\ SessionOK(old) /\ old.pc = "revoke" /\ active[a] # None
  BY DEF ApprovalInv, SessionOK, TablesHold, RevokeRow
<1>2. active[a] \in 0 .. ApprovedWinc[a] - 1 /\ winc \in Nat /\ active[a] \in OptionalNat
  BY <1>1 DEF ApprovalInv, TablesTyped, NothingOverdrawn, Rows
<1>3. old.rows \in [Approvals -> OptionalNat] /\ old.held \in [Approvals -> OptionalNat]
  BY <1>1 DEF Sessions
<1>4. /\ rows \in [Approvals -> OptionalNat] /\ held \in [Approvals -> OptionalNat]
      /\ rows[a] = None /\ held[a] = active[a]
      /\ \A b \in Approvals \ {a} : rows[b] = old.rows[b] /\ held[b] = old.held[b]
      /\ Below(rows) /\ Below(held)
  <2>1. Below(old.rows) /\ Below(old.held) /\ None \in OptionalNat
    BY <1>1 DEF SessionOK, RowsOK, OptionalNat
  <2>2. /\ rows \in [Approvals -> OptionalNat] /\ rows[a] = None /\ Below(rows)
        /\ \A b \in Approvals \ {a} : rows[b] = old.rows[b]
    BY <2>1, <1>3 DEF Without, With, Below
  <2>3. /\ held \in [Approvals -> OptionalNat] /\ held[a] = active[a] /\ Below(held)
        /\ \A b \in Approvals \ {a} : held[b] = old.held[b]
    BY <2>1, <1>2, <1>3 DEF With, Below
  <2> QED
    BY <2>2, <2>3
<1> HIDE DEF rows, held, winc
<1>5. x \in Sessions
  BY <1>1, <1>2, <1>4, OweOK DEF Sessions
<1>6. /\ x.pc = old.pc /\ x.a = old.a /\ x.d = old.d /\ x.from = old.from /\ x.seen = old.seen
      /\ x.past = old.past /\ x.expired = old.expired /\ x.restore = old.restore
      /\ x.rows = rows /\ x.held = held
  BY <1>1 DEF Sessions
<1>7. SessionOK(x)
  BY <1>1, <1>4, <1>5, <1>6 DEF SessionOK, RowsOK, StageOK, TablesHold
<1>8. \A b \in Approvals, s \in Txns \ {t} : x.held[b] # None => tx[s].held[b] = None
  BY <1>4, <1>6 DEF RevokeRow, Locked, ApprovalInv, Exclusive
<1>9. tx' = [tx EXCEPT ![t] = x]
  BY DEF RevokeRow, Move, winc, rows, held
<1> QED
  BY <1>7, <1>8, <1>9, ReadOK DEF RevokeRow, ApprovalInv, TablesTyped

LEMMA PayOwedOK ==
  ASSUME ApprovalInv, NEW t \in Txns
  PROVE  /\ PayOwed(t) \in [Users -> Int]
         /\ \A u \in Users : PayOwed(t)[u] >= 0
BY DEF PayOwed, ApprovalInv, TablesTyped, NothingOverdrawn, Sessions

LEMMA CommitRevokeOK ==
  ASSUME ApprovalInv, NEW t \in Txns, CommitRevoke(t)
  PROVE  ApprovalInv'
<1> DEFINE deleted == Rows(tx[t].held)
           used == {a \in From(tx[t].from, tx[t].to) :
                      inactive[a] # None /\ inactive[a].reason = "used"}
<1>1. tx[t] \in Sessions /\ SessionOK(tx[t])
  BY DEF ApprovalInv
<1>2. deleted \subseteq Approvals /\ used \subseteq Approvals
  BY DEF Rows, From
<1>3. \A a \in Approvals :
        /\ a \in deleted => /\ inactive'[a] = [reason |-> "revoked", used |-> tx[t].held[a]]
                            /\ tx[t].held[a] \in 0 .. ApprovedWinc[a] - 1
        /\ a \in used \ deleted =>
             /\ inactive[a] \in InactiveRows
             /\ inactive'[a] = [reason |-> "revoked", used |-> inactive[a].used]
        /\ a \notin used \cup deleted => inactive'[a] = inactive[a]
  BY <1>1 DEF CommitRevoke, Rows, SessionOK, RowsOK, Below, ApprovalInv, TablesTyped
<1>4. inactive' \in [Approvals -> InactiveRows \cup {None}]
  <2>1. ASSUME NEW a \in Approvals PROVE inactive'[a] \in InactiveRows \cup {None}
    <3>1. CASE a \in deleted
      <4>1. inactive'[a] = [reason |-> "revoked", used |-> tx[t].held[a]]
        BY <3>1, <1>3
      <4>2. tx[t].held[a] \in 0 .. ApprovedWinc[a] - 1
        BY <3>1, <1>3
      <4>3. tx[t].held[a] \in Nat
        BY <4>2
      <4> QED
        BY <4>1, <4>3 DEF InactiveRows
    <3>2. CASE a \in used \ deleted
      <4>1. inactive'[a] = [reason |-> "revoked", used |-> inactive[a].used]
        BY <3>2, <1>3
      <4>2. inactive[a].used \in Nat
        BY <3>2, <1>3 DEF InactiveRows
      <4> QED
        BY <4>1, <4>2 DEF InactiveRows
    <3>3. CASE a \notin used \cup deleted
      BY <3>3, <1>3 DEF ApprovalInv, TablesTyped
    <3> QED
      BY <3>1, <3>2, <3>3
  <2>2. inactive' = [a \in Approvals |-> inactive'[a]]
    BY DEF CommitRevoke
  <2> QED
    BY <2>1, <2>2
<1>5. TablesTyped'
  BY <1>4, PayOwedOK
  DEF CommitRevoke, ApprovalInv, TablesTyped, Only, OptionalNat, uploads
<1>6. NothingOverdrawn'
  <2>1. \A a \in Rows(active)' : active'[a] \in 0 .. ApprovedWinc[a] - 1
    BY DEF CommitRevoke, ApprovalInv, NothingOverdrawn, Rows, Only
  <2>2. ASSUME NEW a \in Approvals, inactive'[a] # None
        PROVE  /\ inactive'[a].used \in 0 .. ApprovedWinc[a]
               /\ inactive'[a].reason = "used" => inactive'[a].used = ApprovedWinc[a]
    <3>1. CASE a \in deleted
      <4>1. inactive'[a] = [reason |-> "revoked", used |-> tx[t].held[a]]
        BY <3>1, <1>3
      <4>2. tx[t].held[a] \in 0 .. ApprovedWinc[a] - 1
        BY <3>1, <1>3
      <4> QED
        BY <4>1, <4>2
    <3>2. CASE a \in used \ deleted
      <4>1. inactive'[a] = [reason |-> "revoked", used |-> inactive[a].used]
        BY <3>2, <1>3
      <4>2. inactive[a].used \in 0 .. ApprovedWinc[a]
        BY <3>2 DEF ApprovalInv, NothingOverdrawn, Rows
      <4> QED
        BY <4>1, <4>2
    <3>3. CASE a \notin used \cup deleted
      BY <3>3, <2>2, <1>3 DEF ApprovalInv, NothingOverdrawn, Rows
    <3> QED
      BY <3>1, <3>2, <3>3
  <2>3. \A u \in Users : balance'[u] >= 0
    BY PayOwedOK DEF CommitRevoke
  <2> QED
    BY <2>1, <2>2, <2>3 DEF NothingOverdrawn, Rows
<1> DEFINE T == {t}
<1>7. ASSUME NEW s \in Txns \ T
      PROVE  tx'[s] = Deleted(deleted)[s] /\ \A a \in deleted : tx[s].held[a] = None
  <2>1. tx'[s] = Deleted(deleted)[s]
    BY DEF CommitRevoke, Deleted
  <2>2. \A a \in deleted : tx[s].held[a] = None
    BY DEF Rows, ApprovalInv, Exclusive
  <2> QED
    BY <2>1, <2>2
<1>8. /\ T \in SUBSET Txns
      /\ \A s \in T : SessionOK(tx[s])' /\ LocksNoMore(s)
  <2>1. tx'[t] = Idle
    BY DEF CommitRevoke, Deleted
  <2> QED
    BY <2>1, EndOK DEF LocksNoMore, NoRows
<1>9. tx' \in [Txns -> Sessions]
  BY <1>2, DeletedTyped, IdleOK DEF CommitRevoke, SessionOK
<1>10. Rows(active) \ deleted \subseteq Rows(active)'
  BY DEF CommitRevoke, Rows, Only
<1>11. \A d \in DataItems : reservation[d] # None => reservation'[d] # None
  BY DEF CommitRevoke, uploads
<1> HIDE DEF deleted, used, T
<1> QED
  BY <1>2, <1>5, <1>6, <1>7, <1>8, <1>9, <1>10, <1>11, DeleteOK

-----------------------------------------------------------------------------
(* Reservations                                                            *)

UsedUp(spend) == {a \in DOMAIN spend : spend[a] = Remaining[a]}

LEMMA UseApprovalsOK ==
  ASSUME ApprovalInv, NEW S \in SUBSET Rows(active), NEW spend \in [S -> Nat],
         \A a \in S : spend[a] <= Remaining[a],
         UseApprovals(spend)
  PROVE  /\ active' \in [Approvals -> OptionalNat]
         /\ inactive' \in [Approvals -> InactiveRows \cup {None}]
         /\ \A a \in Rows(active)' : active'[a] \in 0 .. ApprovedWinc[a] - 1
         /\ \A a \in Rows(inactive)' :
              /\ inactive'[a].used \in 0 .. ApprovedWinc[a]
              /\ inactive'[a].reason = "used" => inactive'[a].used = ApprovedWinc[a]
         /\ Rows(active) \ UsedUp(spend) \subseteq Rows(active)'
         /\ tx' = Deleted(UsedUp(spend))
         /\ UsedUp(spend) \subseteq S
<1> DEFINE usedUp == {a \in S : spend[a] = Remaining[a]}
<1>0. DOMAIN spend = S /\ UsedUp(spend) = usedUp
  BY DEF UsedUp
<1>1. /\ active \in [Approvals -> OptionalNat]
      /\ inactive \in [Approvals -> InactiveRows \cup {None}]
      /\ \A a \in Approvals : active[a] # None => active[a] \in 0 .. ApprovedWinc[a] - 1
      /\ \A a \in Approvals : inactive[a] # None =>
           /\ inactive[a].used \in 0 .. ApprovedWinc[a]
           /\ inactive[a].reason = "used" => inactive[a].used = ApprovedWinc[a]
  BY DEF ApprovalInv, TablesTyped, NothingOverdrawn, Rows
<1>2. /\ active' = [a \in Approvals |-> IF a \notin S THEN active[a]
                                        ELSE IF a \in usedUp THEN None ELSE active[a] + spend[a]]
      /\ inactive' = [a \in Approvals |->
           IF a \in usedUp THEN [reason |-> "used", used |-> ApprovedWinc[a]] ELSE inactive[a]]
      /\ tx' = Deleted(usedUp)
  BY <1>0 DEF UseApprovals
<1>3. ASSUME NEW a \in S
      PROVE  /\ active[a] \in 0 .. ApprovedWinc[a] - 1
             /\ Remaining[a] = ApprovedWinc[a] - active[a]
             /\ spend[a] \in 0 .. Remaining[a]
  <2>1. a \in Approvals /\ active[a] # None /\ active[a] \in 0 .. ApprovedWinc[a] - 1
    BY <1>1 DEF Rows
  <2>2. Remaining[a] = ApprovedWinc[a] - active[a]
    BY <2>1 DEF Remaining
  <2>3. Remaining[a] \in Nat /\ spend[a] \in Nat /\ spend[a] <= Remaining[a]
    BY <2>1, <2>2
  <2> QED
    BY <2>1, <2>2, <2>3
<1>4. ASSUME NEW a \in Approvals
      PROVE  active'[a] = None \/ active'[a] \in 0 .. ApprovedWinc[a] - 1
  <2>1. CASE a \notin S
    BY <2>1, <1>1, <1>2 DEF OptionalNat
  <2>2. CASE a \in usedUp
    BY <2>2, <1>2
  <2>3. CASE a \in S \ usedUp
    <3>1. active'[a] = active[a] + spend[a]
      BY <2>3, <1>2
    <3>2. spend[a] \in 0 .. Remaining[a] - 1
      BY <2>3, <1>3
    <3> QED
      BY <3>1, <3>2, <2>3, <1>3
  <2> QED
    BY <2>1, <2>2, <2>3
<1>5. active' \in [Approvals -> OptionalNat]
  BY <1>2, <1>4 DEF OptionalNat
<1>6. ASSUME NEW a \in Approvals
      PROVE  /\ inactive'[a] \in InactiveRows \cup {None}
             /\ inactive'[a] # None =>
                  /\ inactive'[a].used \in 0 .. ApprovedWinc[a]
                  /\ inactive'[a].reason = "used" => inactive'[a].used = ApprovedWinc[a]
  <2>1. CASE a \in usedUp
    <3>1. inactive'[a] = [reason |-> "used", used |-> ApprovedWinc[a]]
      BY <2>1, <1>2
    <3> QED
      BY <3>1 DEF InactiveRows
  <2>2. CASE a \notin usedUp
    BY <2>2, <1>1, <1>2
  <2> QED
    BY <2>1, <2>2
<1>7. inactive' \in [Approvals -> InactiveRows \cup {None}]
  BY <1>2, <1>6
<1>8. Rows(active) \ usedUp \subseteq Rows(active)'
  <2>1. ASSUME NEW a \in Rows(active), a \notin usedUp PROVE active'[a] # None
    <3>1. CASE a \notin S
      BY <3>1, <1>2 DEF Rows
    <3>2. CASE a \in S
      BY <3>2, <2>1, <1>2, <1>3 DEF Rows
    <3> QED
      BY <3>1, <3>2
  <2> QED
    BY <2>1 DEF Rows
<1> QED
  BY <1>0, <1>2, <1>4, <1>5, <1>6, <1>7, <1>8 DEF Rows

LEMMA ReserveBalanceOK ==
  ASSUME ApprovalInv, NEW d \in DataItems, ReserveBalance(d)
  PROVE  ApprovalInv'
<1> DEFINE s == Signer[d]
           offered == IF PaidBy[d] = None THEN {} ELSE From(PaidBy[d], s) \cap Rows(active)
<1>1. /\ reservation[d] = None
      /\ PaidBy[d] # None => \A a \in Rows(active) : ApprovedAddress[a] = s => ~Locked(a)
      /\ UNCHANGED <<lapsed, refunds, creates>>
  BY DEF ReserveBalance
<1>2. PICK approved \in 0 .. Price[d], spend \in [offered -> 0 .. Price[d]] :
        /\ balance[s] >= Price[d] - approved
        /\ balance' = [balance EXCEPT ![s] = @ - (Price[d] - approved)]
        /\ reservation' = [reservation EXCEPT ![d] =
                             [approved |-> approved, own |-> Price[d] - approved]]
        /\ \A a \in offered : spend[a] <= Remaining[a]
        /\ UseApprovals(spend)
  BY DEF ReserveBalance
<1> DEFINE usedUp == UsedUp(spend)
<1>3. Price[d] \in Nat /\ s \in Users /\ offered \in SUBSET Rows(active)
  OBVIOUS
<1>4. /\ active' \in [Approvals -> OptionalNat]
      /\ inactive' \in [Approvals -> InactiveRows \cup {None}]
      /\ \A a \in Rows(active)' : active'[a] \in 0 .. ApprovedWinc[a] - 1
      /\ \A a \in Rows(inactive)' :
           /\ inactive'[a].used \in 0 .. ApprovedWinc[a]
           /\ inactive'[a].reason = "used" => inactive'[a].used = ApprovedWinc[a]
      /\ Rows(active) \ usedUp \subseteq Rows(active)'
      /\ tx' = Deleted(usedUp)
      /\ usedUp \subseteq offered
  <2> HIDE DEF offered
  <2>1. offered \in SUBSET Rows(active) /\ spend \in [offered -> Nat]
    BY <1>2, <1>3
  <2>2. UseApprovals(spend) /\ \A a \in offered : spend[a] <= Remaining[a]
    BY <1>2
  <2> QED
    BY <2>1, <2>2, UseApprovalsOK
<1>5. reservation' \in [DataItems -> [approved : Nat, own : Nat] \cup {None}]
  <2>1. [approved |-> approved, own |-> Price[d] - approved] \in [approved : Nat, own : Nat]
    BY <1>3
  <2> QED
    BY <2>1, <1>2 DEF ApprovalInv, TablesTyped
<1>6. balance' \in [Users -> Int] /\ \A u \in Users : balance'[u] >= 0
  BY <1>2, <1>3 DEF ApprovalInv, TablesTyped, NothingOverdrawn
<1>7. TablesTyped' /\ NothingOverdrawn'
  BY <1>1, <1>4, <1>5, <1>6 DEF TablesTyped, NothingOverdrawn, ApprovalInv
<1>8. usedUp \in SUBSET Approvals
  BY <1>3, <1>4 DEF Rows
<1>9. tx' \in [Txns -> Sessions]
  BY <1>4, <1>8, DeletedTyped
<1>10. ASSUME NEW t \in Txns
       PROVE  tx'[t] = Deleted(usedUp)[t] /\ \A a \in usedUp : tx[t].held[a] = None
  BY <1>1, <1>4 DEF From, Locked
<1>11. \A e \in DataItems : reservation[e] # None => reservation'[e] # None
  BY <1>1, <1>2 DEF ApprovalInv, TablesTyped
<1> DEFINE T == {}
<1>12. /\ T \in SUBSET Txns
       /\ \A t \in T : SessionOK(tx[t])' /\ LocksNoMore(t)
  OBVIOUS
<1> HIDE DEF usedUp, T
<1> QED
  <2>1. \A t \in Txns \ T : tx'[t] = Deleted(usedUp)[t] /\ \A a \in usedUp : tx[t].held[a] = None
    BY <1>10
  <2>2. \A t \in T : SessionOK(tx[t])' /\ LocksNoMore(t)
    BY <1>12
  <2>3. Rows(active) \ usedUp \subseteq Rows(active)'
    BY <1>4
  <2>4. T \in SUBSET Txns /\ usedUp \in SUBSET Approvals
    BY <1>8, <1>12
  <2>5. TablesTyped' /\ NothingOverdrawn'
    BY <1>7
  <2> QED
    BY <1>9, <1>11, <2>1, <2>2, <2>3, <2>4, <2>5, DeleteOK

LEMMA LapseOK ==
  ASSUME ApprovalInv, NEW a \in Approvals, Lapse(a)
  PROVE  ApprovalInv'
<1>1. TablesTyped' /\ NothingOverdrawn'
  BY DEF Lapse, ApprovalInv, TablesTyped, NothingOverdrawn, Rows, approvals, uploads
<1>2. \A t \in Txns : SessionOK(tx[t])'
  BY DEF Lapse, ApprovalInv, SessionOK, RowsOK, StageOK, TablesHold, approvals, uploads
<1> QED
  BY <1>1, <1>2 DEF Lapse, ApprovalInv, Exclusive

LEMMA RefundSignerOK ==
  ASSUME ApprovalInv, NEW d \in DataItems, RefundSigner(d)
  PROVE  ApprovalInv'
<1>1. TablesTyped' /\ NothingOverdrawn'
  BY DEF RefundSigner, ApprovalInv, TablesTyped, NothingOverdrawn, Rows, approvals
<1>2. \A t \in Txns : SessionOK(tx[t])'
  BY DEF RefundSigner, ApprovalInv, SessionOK, RowsOK, StageOK, TablesHold, approvals
<1> QED
  BY <1>1, <1>2 DEF RefundSigner, ApprovalInv, Exclusive

-----------------------------------------------------------------------------
(* Trimmings                                                               *)

LEMMA ListApprovalsOK ==
  ASSUME ApprovalInv, NEW t \in Txns, NEW asked, ListApprovals(t, asked)
  PROVE  ApprovalInv'
<1> DEFINE S == asked \cap lapsed \cap Rows(active)
           expired == Only(active, S)
           x == [Idle EXCEPT !.pc = "trim", !.expired = expired]
<1>1. expired \in [Approvals -> OptionalNat] /\ Below(expired)
  BY DEF Only, Below, ApprovalInv, TablesTyped, NothingOverdrawn, Rows, OptionalNat
<1>5. Begin(t, x)
  BY DEF ListApprovals
<1> HIDE DEF expired
<1>2. x \in Sessions
  BY <1>1, IdleOK DEF SessionOK, Sessions, PCs
<1>3. /\ x.pc = "trim" /\ x.d = None /\ x.expired = expired /\ x.rows = NoRows
      /\ x.past = NoRows /\ x.held = NoRows /\ x.restore = NoRows
  BY DEF Idle
<1>4. SessionOK(x)
  BY <1>1, <1>2, <1>3 DEF SessionOK, RowsOK, StageOK, TablesHold, Below, NoRows
<1> QED
  BY <1>3, <1>4, <1>5, BeginOK DEF ListApprovals

LEMMA TrimDeleteOK ==
  ASSUME ApprovalInv, NEW t \in Txns, NEW a \in Approvals, TrimDelete(t, a)
  PROVE  ApprovalInv'
<1> DEFINE old == tx[t]
           winc == ApprovedWinc[a] - old.expired[a]
           expired == Without(old.expired, a)
           owed == Owe(t, PayingAddress[a], winc)
           x == IF active[a] = None
                THEN [old EXCEPT !.expired = expired, !.owed = owed]
                ELSE [old EXCEPT !.expired = expired, !.owed = owed,
                                 !.pc = "trimInsert", !.a = a, !.seen = active[a]]
<1>1. old \in Sessions /\ SessionOK(old) /\ old.pc = "trim" /\ old.expired[a] # None
  BY DEF ApprovalInv, TrimDelete
<1>2. old.expired[a] \in 0 .. ApprovedWinc[a] - 1 /\ winc \in Nat
  BY <1>1 DEF SessionOK, RowsOK, Below
<1>3. expired \in [Approvals -> OptionalNat] /\ Below(expired)
  BY <1>1 DEF Without, With, Below, Sessions, OptionalNat, SessionOK, RowsOK
<1>4. owed \in [Users -> Nat]
  BY <1>2, OweOK
<1>5. active[a] # None => active[a] \in 0 .. ApprovedWinc[a] - 1
  BY DEF ApprovalInv, NothingOverdrawn, Rows
<1>6. tx' = [Deleted({a}) EXCEPT ![t] = x] /\ active' = [active EXCEPT ![a] = None]
  BY DEF TrimDelete
<1>7. \A s \in Txns : tx[s].held[a] = None
  BY DEF TrimDelete, Locked
<1> HIDE DEF winc, expired, owed
<1>8. x \in Sessions /\ SessionOK(x) /\ x.held = old.held /\ x.pc # "revoke"
  <2>1. CASE active[a] = None
    <3>1. x \in Sessions
      BY <2>1, <1>1, <1>3, <1>4 DEF Sessions
    <3>2. /\ x.pc = "trim" /\ x.d = old.d /\ x.held = old.held /\ x.past = old.past
          /\ x.restore = old.restore /\ x.rows = old.rows /\ x.expired = expired
      BY <2>1, <1>1 DEF Sessions
    <3> QED
      BY <1>1, <1>3, <3>1, <3>2 DEF SessionOK, RowsOK, StageOK, TablesHold
  <2>2. CASE active[a] # None
    <3>1. x \in Sessions
      <4>1. active[a] \in Int
        BY <2>2, <1>5
      <4>2. x = [old EXCEPT !.expired = expired, !.owed = owed,
                            !.pc = "trimInsert", !.a = a, !.seen = active[a]]
        BY <2>2
      <4> QED
        BY <4>1, <4>2, <1>1, <1>3, <1>4 DEF Sessions, PCs
    <3>2. /\ x.pc = "trimInsert" /\ x.a = a /\ x.seen = active[a]
          /\ x.d = old.d /\ x.held = old.held /\ x.past = old.past
          /\ x.restore = old.restore /\ x.rows = old.rows /\ x.expired = expired
      BY <2>2, <1>1 DEF Sessions
    <3> QED
      BY <1>1, <1>3, <1>5, <2>2, <3>1, <3>2 DEF SessionOK, RowsOK, StageOK, TablesHold
  <2> QED
    BY <2>1, <2>2
<1> HIDE DEF x
<1>9. tx'[t] = x /\ \A s \in Txns \ {t} : tx'[s] = Deleted({a})[s]
  BY <1>6 DEF Deleted
<1>10. \A b \in Approvals : active[b] # None /\ b # a => active'[b] # None
  BY <1>6 DEF ApprovalInv, TablesTyped
<1>11. SessionOK(tx[t])'
  <2>1. RowsOK(tx[t])' /\ StageOK(tx[t])' /\ tx'[t] \in Sessions
    BY <1>8, <1>9 DEF SessionOK, RowsOK, StageOK, Below
  <2>2. TablesHold(tx[t])'
    BY <1>7, <1>8, <1>9, <1>10 DEF SessionOK, TablesHold, TrimDelete, uploads
  <2> QED
    BY <2>1, <2>2 DEF SessionOK
<1> DEFINE T == {t}
           D == {a}
<1>12. T \in SUBSET Txns /\ D \in SUBSET Approvals
  OBVIOUS
<1>13. \A s \in Txns \ T : tx'[s] = Deleted(D)[s] /\ \A b \in D : tx[s].held[b] = None
  BY <1>7, <1>9
<1>14. \A s \in T : SessionOK(tx[s])' /\ LocksNoMore(s)
  BY <1>8, <1>9, <1>11 DEF LocksNoMore
<1>15. tx' \in [Txns -> Sessions]
  BY <1>6, <1>8, <1>12, DeletedTyped
<1>16. Rows(active) \ D \subseteq Rows(active)'
  BY <1>10 DEF Rows
<1>17. \A d \in DataItems : reservation[d] # None => reservation'[d] # None
  BY DEF TrimDelete, uploads
<1>18. TablesTyped' /\ NothingOverdrawn'
  BY <1>6 DEF TrimDelete, ApprovalInv, TablesTyped, NothingOverdrawn, Rows, OptionalNat, uploads
<1> HIDE DEF T, D
<1> QED
  BY <1>12, <1>13, <1>14, <1>15, <1>16, <1>17, <1>18, DeleteOK

LEMMA TrimInsertOK ==
  ASSUME ApprovalInv, NEW t \in Txns, TrimInsert(t)
  PROVE  ApprovalInv'
<1> DEFINE old == tx[t]
           a == old.a
           row == [reason |-> "expired", used |-> old.seen]
           x == [old EXCEPT !.pc = "trim"]
<1>1. old \in Sessions /\ SessionOK(old) /\ old.pc = "trimInsert"
  BY DEF ApprovalInv, TrimInsert
<1>2. a \in Approvals /\ old.seen \in 0 .. ApprovedWinc[a] - 1 /\ old.seen \in Nat
  BY <1>1 DEF SessionOK, StageOK
<1>3. row \in InactiveRows /\ row.used = old.seen /\ row.reason = "expired"
  BY <1>2 DEF InactiveRows
<1>4. /\ x \in Sessions /\ x.pc = "trim" /\ x.d = old.d /\ x.held = old.held
      /\ x.rows = old.rows /\ x.past = old.past /\ x.expired = old.expired
      /\ x.restore = old.restore
  BY <1>1 DEF Sessions, PCs
<1>5. SessionOK(x)
  BY <1>1, <1>4 DEF SessionOK, RowsOK, StageOK, TablesHold
<1>6. tx' = [tx EXCEPT ![t] = x] /\ inactive' = [inactive EXCEPT ![a] = row]
  BY DEF TrimInsert, Move
<1> HIDE DEF x, row
<1>7. TablesTyped'
  BY <1>2, <1>3, <1>6 DEF TrimInsert, ApprovalInv, TablesTyped, uploads
<1>8. NothingOverdrawn'
  BY <1>2, <1>3, <1>6 DEF TrimInsert, ApprovalInv, TablesTyped, NothingOverdrawn, Rows
<1>9. \A b \in Approvals, s \in Txns \ {t} : x.held[b] # None => tx[s].held[b] = None
  BY <1>4 DEF ApprovalInv, Exclusive
<1> QED
  BY <1>5, <1>6, <1>7, <1>8, <1>9, MoveOK DEF TrimInsert, Rows, uploads

LEMMA TrimReadPayerOK ==
  ASSUME ApprovalInv, NEW t \in Txns, NEW p \in Users, TrimReadPayer(t, p)
  PROVE  ApprovalInv'
<1> DEFINE old == tx[t]
           x == [old EXCEPT !.pc = "trimWrite", !.from = p, !.seen = balance[p]]
<1>1. /\ old \in Sessions /\ SessionOK(old) /\ old.pc = "trim"
      /\ balance[p] \in Int /\ balance[p] >= 0
  BY DEF TrimReadPayer, ApprovalInv, TablesTyped, NothingOverdrawn
<1>2. /\ x \in Sessions /\ x.pc = "trimWrite" /\ x.from = p /\ x.seen = balance[p]
      /\ x.d = old.d /\ x.held = old.held /\ x.rows = old.rows /\ x.past = old.past
      /\ x.expired = old.expired /\ x.restore = old.restore
  BY <1>1 DEF Sessions, PCs
<1>3. SessionOK(x)
  BY <1>1, <1>2 DEF SessionOK, RowsOK, StageOK, TablesHold
<1>4. \A b \in Approvals, s \in Txns \ {t} : x.held[b] # None => tx[s].held[b] = None
  BY <1>2 DEF ApprovalInv, Exclusive
<1> QED
  BY <1>3, <1>4, ReadOK DEF TrimReadPayer, Move, ApprovalInv, TablesTyped

LEMMA TrimWritePayerOK ==
  ASSUME ApprovalInv, NEW t \in Txns, TrimWritePayer(t)
  PROVE  ApprovalInv'
<1> DEFINE old == tx[t]
           p == old.from
           owed == [old.owed EXCEPT ![p] = 0]
           x == IF owed # NoDebts THEN [old EXCEPT !.pc = "trim", !.owed = owed]
                ELSE IF old.d # None THEN [old EXCEPT !.pc = "refundActive", !.owed = owed]
                ELSE Idle
<1>1. /\ old \in Sessions /\ SessionOK(old) /\ old.pc = "trimWrite"
      /\ p \in Users /\ old.seen \in Int /\ old.seen >= 0
  BY DEF ApprovalInv, TrimWritePayer, SessionOK, StageOK, Sessions
<1>2. owed \in [Users -> Nat] /\ old.owed[p] \in Nat
  BY <1>1 DEF Sessions
<1> HIDE DEF owed
<1>3. SessionOK(x) /\ (x.held = old.held \/ x.held = NoRows)
  <2>1. CASE owed # NoDebts
    <3>1. /\ x \in Sessions /\ x.pc = "trim" /\ x.d = old.d /\ x.held = old.held
          /\ x.rows = old.rows /\ x.past = old.past /\ x.expired = old.expired
          /\ x.restore = old.restore
      BY <2>1, <1>1, <1>2 DEF Sessions, PCs
    <3> QED
      BY <1>1, <3>1 DEF SessionOK, RowsOK, StageOK, TablesHold
  <2>2. CASE owed = NoDebts /\ old.d # None
    <3>1. /\ x \in Sessions /\ x.pc = "refundActive" /\ x.d = old.d /\ x.held = old.held
          /\ x.rows = old.rows /\ x.past = old.past /\ x.expired = old.expired
          /\ x.restore = old.restore
      BY <2>2, <1>1, <1>2 DEF Sessions, PCs
    <3> QED
      BY <2>2, <1>1, <3>1 DEF SessionOK, RowsOK, StageOK, TablesHold
  <2>3. CASE owed = NoDebts /\ old.d = None
    BY <2>3, IdleOK
  <2> QED
    BY <2>1, <2>2, <2>3
<1>4. tx' = [tx EXCEPT ![t] = x]
  BY DEF TrimWritePayer, Move, owed
<1> HIDE DEF x
<1>5. TablesTyped'
  BY <1>1, <1>2 DEF TrimWritePayer, ApprovalInv, TablesTyped, approvals, uploads
<1>6. NothingOverdrawn'
  BY <1>1, <1>2 DEF TrimWritePayer, ApprovalInv, TablesTyped, NothingOverdrawn, Rows, approvals
<1>7. \A b \in Approvals, s \in Txns \ {t} : x.held[b] # None => tx[s].held[b] = None
  BY <1>3 DEF ApprovalInv, Exclusive, NoRows
<1> QED
  BY <1>3, <1>4, <1>5, <1>6, <1>7, MoveOK DEF TrimWritePayer, Rows, approvals, uploads

-----------------------------------------------------------------------------
(* Refunds                                                                 *)

LEMMA StartRefundOK ==
  ASSUME ApprovalInv, NEW t \in Txns, NEW d \in DataItems, StartRefund(t, d)
  PROVE  ApprovalInv'
<1> DEFINE listed == From(PaidBy[d], Signer[d]) \cap Rows(active)
           pc == IF listed \cap lapsed = {} THEN "refundActive" ELSE "trim"
           expired == Only(active, listed \cap lapsed)
           rows == Only(active, listed \ lapsed)
           left == reservation[d].approved
           x == [Idle EXCEPT !.pc = pc, !.d = d, !.left = left, !.expired = expired,
                             !.rows = rows]
<1>1. /\ expired \in [Approvals -> OptionalNat] /\ Below(expired)
      /\ rows \in [Approvals -> OptionalNat] /\ Below(rows)
  BY DEF Only, Below, ApprovalInv, TablesTyped, NothingOverdrawn, Rows, OptionalNat
<1>2. reservation[d] # None /\ left \in Int
  BY DEF StartRefund, ApprovalInv, TablesTyped
<1>3. pc \in {"refundActive", "trim"}
  OBVIOUS
<1>4. Begin(t, x)
  BY DEF StartRefund
<1> HIDE DEF pc, expired, rows, left
<1>5. x \in Sessions
  BY <1>1, <1>2, <1>3, IdleOK DEF SessionOK, Sessions, PCs
<1>6. /\ x.pc = pc /\ x.d = d /\ x.expired = expired /\ x.rows = rows
      /\ x.past = NoRows /\ x.held = NoRows /\ x.restore = NoRows
  BY DEF Idle
<1>7. SessionOK(x)
  BY <1>1, <1>2, <1>3, <1>5, <1>6 DEF SessionOK, RowsOK, StageOK, TablesHold, Below, NoRows
<1> HIDE DEF x
<1> QED
  BY <1>4, <1>6, <1>7, BeginOK DEF StartRefund

\* What is given back comes off the used amount, and no more than that.
LEMMA MinusOK ==
  ASSUME NEW used \in Nat, NEW winc \in Int, winc >= 0
  PROVE  Minus(used, winc) \in 0 .. used
BY DEF Minus

LEMMA RefundRowOK ==
  ASSUME ApprovalInv, NEW t \in Txns, NEW a \in Approvals, RefundRow(t, a)
  PROVE  ApprovalInv'
<1> DEFINE old == tx[t]
           used == old.rows[a]
           winc == reservation[old.d].approved
           rows == Without(old.rows, a)
           left == IF used >= winc THEN 0 ELSE old.left - used
           held == IF active[a] = None THEN old.held ELSE With(old.held, a, Minus(used, winc))
           x == [old EXCEPT !.rows = rows, !.left = left, !.held = held]
<1>1. old \in Sessions /\ SessionOK(old) /\ old.pc = "refundActive" /\ used # None
  BY DEF ApprovalInv, RefundRow
<1>2. used \in 0 .. ApprovedWinc[a] - 1 /\ used \in Nat /\ winc \in Nat
  <2>1. used \in 0 .. ApprovedWinc[a] - 1
    BY <1>1 DEF SessionOK, RowsOK, Below
  <2>2. old.d \in DataItems /\ reservation[old.d] # None
    BY <1>1 DEF SessionOK, StageOK, TablesHold, Sessions
  <2> QED
    BY <2>1, <2>2 DEF ApprovalInv, TablesTyped
<1>3. Minus(used, winc) \in 0 .. ApprovedWinc[a] - 1 /\ Minus(used, winc) \in Nat
  <2> HIDE DEF used, winc
  <2>1. Minus(used, winc) \in 0 .. used
    BY <1>2, MinusOK
  <2> QED
    BY <2>1, <1>2
<1>4. rows \in [Approvals -> OptionalNat] /\ Below(rows) /\ left \in Int
  <2>1. old.rows \in [Approvals -> OptionalNat] /\ Below(old.rows) /\ old.left \in Int
    BY <1>1 DEF SessionOK, RowsOK, Sessions
  <2> QED
    BY <2>1, <1>2 DEF Without, With, Below, OptionalNat
<1>5. /\ held \in [Approvals -> OptionalNat] /\ Below(held)
      /\ \A b \in Approvals : held[b] # None => active[b] # None
      /\ \A b \in Approvals : held[b] # None => b = a \/ old.held[b] # None
  <2>1. /\ old.held \in [Approvals -> OptionalNat] /\ Below(old.held)
        /\ \A b \in Approvals : old.held[b] # None => active[b] # None
    BY <1>1 DEF SessionOK, RowsOK, TablesHold, Sessions
  <2>2. CASE active[a] = None
    BY <2>1, <2>2
  <2>3. CASE active[a] # None
    <3> DEFINE v == Minus(used, winc)
    <3>1. v \in 0 .. ApprovedWinc[a] - 1 /\ v \in OptionalNat
      BY <1>3 DEF OptionalNat
    <3>2. held = [old.held EXCEPT ![a] = v]
      BY <2>3 DEF With
    <3> HIDE DEF v, held
    <3> QED
      BY <2>1, <2>3, <3>1, <3>2 DEF Below
  <2> QED
    BY <2>2, <2>3
<1>6. tx' = [tx EXCEPT ![t] = x]
  BY DEF RefundRow, Move
<1> HIDE DEF rows, left, held
<1>7. /\ x \in Sessions /\ x.pc = old.pc /\ x.d = old.d /\ x.held = held
      /\ x.rows = rows /\ x.past = old.past /\ x.expired = old.expired
      /\ x.restore = old.restore
  BY <1>1, <1>4, <1>5 DEF Sessions
<1>8. SessionOK(x)
  BY <1>1, <1>4, <1>5, <1>7 DEF SessionOK, RowsOK, StageOK, TablesHold
<1>9. \A b \in Approvals, s \in Txns \ {t} : x.held[b] # None => tx[s].held[b] = None
  <2>1. \A s \in Txns : tx[s].held[a] = None
    BY DEF RefundRow, Locked
  <2> QED
    BY <2>1, <1>5, <1>7 DEF ApprovalInv, Exclusive
<1> HIDE DEF x
<1> QED
  BY <1>6, <1>8, <1>9, ReadOK DEF RefundRow, ApprovalInv, TablesTyped

LEMMA ReadInactiveOK ==
  ASSUME ApprovalInv, NEW t \in Txns, ReadInactive(t)
  PROVE  ApprovalInv'
<1> DEFINE old == tx[t]
           past == Only(inactive, From(PaidBy[old.d], Signer[old.d]))
           x == [old EXCEPT !.pc = "refundInactive", !.past = past]
<1>1. old \in Sessions /\ SessionOK(old) /\ old.pc = "refundActive"
  BY DEF ApprovalInv, ReadInactive
<1>2. /\ past \in [Approvals -> InactiveRows \cup {None}]
      /\ \A a \in Approvals : past[a] # None => past[a].used \in 0 .. ApprovedWinc[a]
  BY DEF Only, Rows, ApprovalInv, TablesTyped, NothingOverdrawn
<1>3. tx' = [tx EXCEPT ![t] = x]
  BY DEF ReadInactive, Move
<1> HIDE DEF past
<1>4. /\ x \in Sessions /\ x.pc = "refundInactive" /\ x.d = old.d /\ x.held = old.held
      /\ x.rows = old.rows /\ x.past = past /\ x.expired = old.expired
      /\ x.restore = old.restore
  BY <1>1, <1>2 DEF Sessions, PCs
<1>5. SessionOK(x)
  <2>1. old.restore = NoRows
    BY <1>1 DEF SessionOK, StageOK
  <2> QED
    BY <1>1, <1>2, <1>4, <2>1 DEF SessionOK, RowsOK, StageOK, TablesHold, NoRows
<1>6. \A b \in Approvals, s \in Txns \ {t} : x.held[b] # None => tx[s].held[b] = None
  BY <1>4 DEF ApprovalInv, Exclusive
<1> HIDE DEF x
<1> QED
  BY <1>3, <1>5, <1>6, ReadOK DEF ReadInactive, ApprovalInv, TablesTyped

LEMMA RestoreUsedOK ==
  ASSUME ApprovalInv, NEW t \in Txns, NEW a \in Approvals, RestoreUsed(t, a)
  PROVE  ApprovalInv'
<1> DEFINE old == tx[t]
           used == old.past[a].used
           kept == Minus(used, old.left)
           restore == With(old.restore, a, kept)
           left == old.left - used
           x == [old EXCEPT !.left = left, !.restore = restore]
<1>1. /\ old \in Sessions /\ SessionOK(old) /\ old.pc = "refundInactive"
      /\ old.past[a] # None /\ old.past[a].reason = "used" /\ old.left > 0
  BY DEF ApprovalInv, RestoreUsed, Visits
<1>2. used \in 0 .. ApprovedWinc[a] /\ old.left \in Int /\ left \in Int
  BY <1>1 DEF SessionOK, RowsOK, Sessions
<1>3. kept \in 0 .. ApprovedWinc[a] - 1 /\ kept \in OptionalNat
  <2>1. ApprovedWinc[a] \in Nat \ {0}
    OBVIOUS
  <2> HIDE DEF used
  <2> QED
    BY <2>1, <1>1, <1>2 DEF Minus, OptionalNat
<1>4. tx' = [tx EXCEPT ![t] = x]
  BY DEF RestoreUsed, Move
<1> HIDE DEF kept, left
<1>5. /\ restore \in [Approvals -> OptionalNat] /\ Below(restore)
      /\ \A b \in Approvals : restore[b] # None => b = a \/ old.restore[b] # None
  BY <1>1, <1>3 DEF With, Below, Sessions, SessionOK, RowsOK
<1> HIDE DEF restore
<1>6. /\ x \in Sessions /\ x.pc = old.pc /\ x.d = old.d /\ x.held = old.held
      /\ x.rows = old.rows /\ x.past = old.past /\ x.expired = old.expired
      /\ x.restore = restore
  BY <1>1, <1>2, <1>5 DEF Sessions
<1>7. SessionOK(x)
  BY <1>1, <1>5, <1>6 DEF SessionOK, RowsOK, StageOK, TablesHold
<1>8. \A b \in Approvals, s \in Txns \ {t} : x.held[b] # None => tx[s].held[b] = None
  BY <1>6 DEF ApprovalInv, Exclusive
<1> HIDE DEF x
<1> QED
  BY <1>4, <1>7, <1>8, ReadOK DEF RestoreUsed, ApprovalInv, TablesTyped

LEMMA CreditPayerOK ==
  ASSUME ApprovalInv, NEW t \in Txns, NEW a \in Approvals, CreditPayer(t, a)
  PROVE  ApprovalInv'
<1> DEFINE old == tx[t]
           past == Without(old.past, a)
           used == old.past[a].used
           owed == Owe(t, PaidBy[old.d], used)
           x == [old EXCEPT !.past = past, !.owed = owed]
<1>1. /\ old \in Sessions /\ SessionOK(old) /\ old.pc = "refundInactive"
      /\ old.past[a] # None /\ old.restore[a] = None
  BY DEF ApprovalInv, CreditPayer, Visits
<1>2. used \in 0 .. ApprovedWinc[a] /\ used \in Nat
  BY <1>1 DEF SessionOK, RowsOK
<1>3. owed \in [Users -> Nat]
  BY <1>2, OweOK
<1>4. tx' = [tx EXCEPT ![t] = x]
  BY DEF CreditPayer, Move
<1>5. /\ past \in [Approvals -> InactiveRows \cup {None}]
      /\ \A b \in Approvals : past[b] # None => past[b].used \in 0 .. ApprovedWinc[b]
      /\ \A b \in Approvals : b # a => past[b] = old.past[b]
  BY <1>1 DEF Without, With, Sessions, SessionOK, RowsOK
<1> HIDE DEF owed, past
<1>6. /\ x \in Sessions /\ x.pc = old.pc /\ x.d = old.d /\ x.held = old.held
      /\ x.rows = old.rows /\ x.past = past /\ x.expired = old.expired
      /\ x.restore = old.restore
  BY <1>1, <1>3, <1>5 DEF Sessions
<1>7. SessionOK(x)
  BY <1>1, <1>5, <1>6 DEF SessionOK, RowsOK, StageOK, TablesHold
<1>8. \A b \in Approvals, s \in Txns \ {t} : x.held[b] # None => tx[s].held[b] = None
  BY <1>6 DEF ApprovalInv, Exclusive
<1> HIDE DEF x
<1> QED
  BY <1>4, <1>7, <1>8, ReadOK DEF CreditPayer, ApprovalInv, TablesTyped

LEMMA CommitRefundOK ==
  ASSUME ApprovalInv, NEW t \in Txns, CommitRefund(t)
  PROVE  ApprovalInv'
<1> DEFINE old == tx[t]
           d == old.d
           restored == Rows(old.restore)
<1>1. old \in Sessions /\ SessionOK(old) /\ old.pc = "refundInactive"
  BY DEF ApprovalInv, CommitRefund, Refunded
<1>2. d \in DataItems /\ reservation[d] # None /\ reservation[d].own \in Nat
  BY <1>1 DEF SessionOK, StageOK, TablesHold, Sessions, ApprovalInv, TablesTyped
<1>3. /\ Below(old.restore) /\ Below(old.held)
      /\ old.restore \in [Approvals -> OptionalNat] /\ old.held \in [Approvals -> OptionalNat]
  BY <1>1 DEF SessionOK, RowsOK, Sessions
<1>4. /\ balance' \in [Users -> Int]
      /\ \A u \in Users : balance'[u] >= 0
  <2>1. PayOwed(t) \in [Users -> Int] /\ \A u \in Users : PayOwed(t)[u] >= 0
    BY PayOwedOK
  <2>2. balance' = [PayOwed(t) EXCEPT ![Signer[d]] = @ + reservation[d].own]
    BY DEF CommitRefund
  <2> QED
    BY <2>1, <2>2, <1>2
<1>5. \A a \in Approvals :
        /\ active'[a] \in OptionalNat
        /\ active'[a] # None => active'[a] \in 0 .. ApprovedWinc[a] - 1
        /\ active[a] # None => active'[a] # None
  BY <1>3 DEF CommitRefund, Rows, Below, ApprovalInv, TablesTyped, NothingOverdrawn
<1>6. active' \in [Approvals -> OptionalNat]
  BY <1>5 DEF CommitRefund
<1>7. TablesTyped'
  BY <1>2, <1>4, <1>6 DEF CommitRefund, ApprovalInv, TablesTyped, Only
<1>8. NothingOverdrawn'
  BY <1>4, <1>5 DEF CommitRefund, ApprovalInv, NothingOverdrawn, Rows, Only
<1>9. Rows(active) \subseteq Rows(active)'
  BY <1>5 DEF Rows
<1> QED
  BY <1>7, <1>8, <1>9, IdleOK, MoveOK DEF CommitRefund, End, Move, NoRows

LEMMA AbortOK ==
  ASSUME ApprovalInv, NEW t \in Txns, Abort(t)
  PROVE  ApprovalInv'
BY IdleOK, ReadOK DEF Abort, End, Move, NoRows, ApprovalInv, TablesTyped

-----------------------------------------------------------------------------
LEMMA StutterOK == ApprovalInv /\ UNCHANGED vars => ApprovalInv'
BY DEF vars, approvals, uploads, ApprovalInv, TablesTyped, NothingOverdrawn, Rows, SessionOK,
       Sessions, RowsOK, StageOK, TablesHold, Below, Exclusive

LEMMA NextOK == ApprovalInv /\ [Next]_vars => ApprovalInv'
<1> SUFFICES ASSUME ApprovalInv, [Next]_vars PROVE ApprovalInv'
  OBVIOUS
<1>1. CASE \E a \in Approvals : Lapse(a)
  BY <1>1, LapseOK
<1>2. CASE \E d \in DataItems : ReserveBalance(d) \/ RefundSigner(d)
  BY <1>2, ReserveBalanceOK, RefundSignerOK
<1>3. ASSUME NEW t \in Txns, Statement(t) PROVE ApprovalInv'
  <2>1. CASE CommitCreate(t) \/ CommitRevoke(t) \/ TrimInsert(t) \/ TrimWritePayer(t)
    BY <2>1, CommitCreateOK, CommitRevokeOK, TrimInsertOK, TrimWritePayerOK
  <2>2. CASE ReadInactive(t) \/ CommitRefund(t) \/ Abort(t)
    BY <2>2, ReadInactiveOK, CommitRefundOK, AbortOK
  <2>3. CASE \E a \in Approvals :
               \/ CheckConflicts(t, a) \/ RevokeRow(t, a) \/ TrimDelete(t, a)
               \/ RefundRow(t, a) \/ RestoreUsed(t, a) \/ CreditPayer(t, a)
    BY <2>3, CheckConflictsOK, RevokeRowOK, TrimDeleteOK, RefundRowOK, RestoreUsedOK,
       CreditPayerOK
  <2>4. CASE \E u \in Users : ListApprovals(t, Involving(u)) \/ TrimReadPayer(t, u)
    BY <2>4, ListApprovalsOK, TrimReadPayerOK
  <2>5. CASE \E p, s \in Users : ListApprovals(t, From(p, s)) \/ StartRevoke(t, p, s)
    BY <2>5, ListApprovalsOK, StartRevokeOK
  <2>6. CASE \E d \in DataItems : StartRefund(t, d)
    BY <2>6, StartRefundOK
  <2> QED
    BY <1>3, <2>1, <2>2, <2>3, <2>4, <2>5, <2>6 DEF Statement
<1> QED
  BY <1>1, <1>2, <1>3, StutterOK DEF Next

\* The inductive invariant holds in every reachable state of createDelegatedPaymentApproval,
\* revokeDelegatedPaymentApprovals, trimExpiredApprovals and the uses and refunds of approvals.
THEOREM ApprovalInvariant == Spec => []ApprovalInv
BY InitOK, NextOK, PTL DEF Spec

\* Every table and session keeps its type: for every number of approvals, users, data
\* items and database sessions.
THEOREM ApprovalsTyped == Spec => []TypeOK
<1>1. ApprovalInv => TypeOK
  BY DEF ApprovalInv, TablesTyped, TypeOK
<1> QED
  BY <1>1, ApprovalInvariant, PTL

\* No wallet and no approval is ever overdrawn.
THEOREM NeverOverdrawn == Spec => []NothingOverdrawn
<1>1. ApprovalInv => NothingOverdrawn
  BY DEF ApprovalInv
<1> QED
  BY <1>1, ApprovalInvariant, PTL

-----------------------------------------------------------------------------
(* Where a row can go                                                      *)

MovesRightly(a) ==
  /\ InBoth(a)' /\ ~InBoth(a) => \E t \in Txns : InsertsUnguarded(t, a)
  /\ Recorded(a) /\ ~Recorded(a)' => \E t \in Txns : tx[t].pc = "trim" /\ tx[t].expired[a] # None
  /\ Final(a) /\ ~Final(a)' =>
       \E t \in Txns : tx[t].restore[a] # None /\ tx[t].past[a].reason = "used"

\* The steps that write the two tables.
TableSteps ==
  \/ \E d \in DataItems : ReserveBalance(d)
  \/ \E t \in Txns, a \in Approvals : TrimDelete(t, a)
  \/ \E t \in Txns : CommitCreate(t) \/ CommitRevoke(t) \/ TrimInsert(t) \/ CommitRefund(t)

LEMMA WhoWrites ==
  ASSUME [Next]_vars
  PROVE  TableSteps \/ (active' = active /\ inactive' = inactive)
<1>1. CASE \E a \in Approvals : Lapse(a)
  BY <1>1 DEF Lapse, approvals
<1>2. CASE \E d \in DataItems : ReserveBalance(d) \/ RefundSigner(d)
  BY <1>2 DEF RefundSigner, approvals, TableSteps
<1>3. ASSUME NEW t \in Txns, Statement(t)
      PROVE  TableSteps \/ (active' = active /\ inactive' = inactive)
  <2>1. CASE CommitCreate(t) \/ CommitRevoke(t) \/ TrimInsert(t) \/ CommitRefund(t)
    BY <2>1 DEF TableSteps
  <2>2. CASE TrimWritePayer(t) \/ ReadInactive(t) \/ Abort(t)
    BY <2>2 DEF TrimWritePayer, ReadInactive, Abort, approvals
  <2>3. CASE \E a \in Approvals :
               \/ CheckConflicts(t, a) \/ RevokeRow(t, a) \/ TrimDelete(t, a)
               \/ RefundRow(t, a) \/ RestoreUsed(t, a) \/ CreditPayer(t, a)
    BY <2>3 DEF CheckConflicts, RevokeRow, RefundRow, RestoreUsed, CreditPayer, approvals,
                TableSteps
  <2>4. CASE \E u \in Users : ListApprovals(t, Involving(u)) \/ TrimReadPayer(t, u)
    BY <2>4 DEF ListApprovals, TrimReadPayer, approvals
  <2>5. CASE \E p, s \in Users : ListApprovals(t, From(p, s)) \/ StartRevoke(t, p, s)
    BY <2>5 DEF ListApprovals, StartRevoke, approvals
  <2>6. CASE \E d \in DataItems : StartRefund(t, d)
    BY <2>6 DEF StartRefund, approvals
  <2> QED
    BY <1>3, <2>1, <2>2, <2>3, <2>4, <2>5, <2>6 DEF Statement
<1> QED
  BY <1>1, <1>2, <1>3 DEF Next, vars, approvals

LEMMA ReservationMoves ==
  ASSUME ApprovalInv, NEW d \in DataItems, ReserveBalance(d), NEW a \in Approvals
  PROVE  MovesRightly(a)
<1> DEFINE s == Signer[d]
           offered == IF PaidBy[d] = None THEN {} ELSE From(PaidBy[d], s) \cap Rows(active)
<1>1. PICK spend \in [offered -> 0 .. Price[d]] : UseApprovals(spend)
  BY DEF ReserveBalance
<1> DEFINE usedUp == {b \in offered : spend[b] = Remaining[b]}
<1>2. /\ offered \subseteq Rows(active) /\ Price[d] \in Nat
      /\ \A b \in offered : spend[b] \in Nat
  OBVIOUS
<1>3. /\ usedUp \cap Rows(inactive) = {}
      /\ active'[a] = IF a \notin offered THEN active[a]
                      ELSE IF a \in usedUp THEN None ELSE active[a] + spend[a]
      /\ inactive'[a] = IF a \in usedUp THEN [reason |-> "used", used |-> ApprovedWinc[a]]
                        ELSE inactive[a]
  BY <1>1 DEF UseApprovals
<1> HIDE DEF offered
<1>4. CASE a \in usedUp
  <2>1. inactive'[a] = [reason |-> "used", used |-> ApprovedWinc[a]]
    BY <1>3, <1>4
  <2>2. [reason |-> "used", used |-> ApprovedWinc[a]] \in InactiveRows
    BY DEF InactiveRows
  <2>3. active'[a] = None /\ inactive[a] = None /\ inactive'[a] # None
    BY <1>3, <1>4, <2>1, <2>2 DEF Rows
  <2> QED
    BY <2>3 DEF MovesRightly, InBoth, Recorded, Final
<1>5. CASE a \notin usedUp
  <2>1. inactive'[a] = inactive[a]
    BY <1>3, <1>5
  <2>2. active[a] # None <=> active'[a] # None
    <3>1. CASE a \notin offered
      BY <3>1, <1>3
    <3>2. CASE a \in offered
      <4>1. active[a] \in Nat /\ spend[a] \in Nat /\ active[a] # None
        BY <3>2, <1>2 DEF Rows, ApprovalInv, NothingOverdrawn
      <4> QED
        BY <4>1, <3>2, <1>3, <1>5
    <3> QED
      BY <3>1, <3>2
  <2> QED
    BY <2>1, <2>2 DEF MovesRightly, InBoth, Recorded, Final
<1> QED
  BY <1>4, <1>5

LEMMA TrimDeleteMoves ==
  ASSUME ApprovalInv, NEW t \in Txns, NEW b \in Approvals, TrimDelete(t, b), NEW a \in Approvals
  PROVE  MovesRightly(a)
<1>1. /\ tx[t].pc = "trim" /\ tx[t].expired[b] # None
      /\ inactive' = inactive
      /\ a # b => active'[a] = active[a]
      /\ active'[b] = None
  BY DEF TrimDelete, ApprovalInv, TablesTyped
<1> QED
  BY <1>1 DEF MovesRightly, InBoth, Recorded, Final

LEMMA CreateMoves ==
  ASSUME ApprovalInv, NEW t \in Txns, CommitCreate(t), NEW a \in Approvals
  PROVE  MovesRightly(a)
<1>1. /\ tx[t].pc = "create" /\ inactive' = inactive
      /\ a # tx[t].a => active'[a] = active[a]
      /\ a = tx[t].a => active'[a] # None
  BY DEF CommitCreate, ApprovalInv, TablesTyped
<1> QED
  BY <1>1 DEF MovesRightly, InBoth, Recorded, Final, InsertsUnguarded

LEMMA RevokeMoves ==
  ASSUME ApprovalInv, NEW t \in Txns, CommitRevoke(t), NEW a \in Approvals
  PROVE  MovesRightly(a)
<1> DEFINE deleted == Rows(tx[t].held)
           used == {b \in From(tx[t].from, tx[t].to) :
                      inactive[b] # None /\ inactive[b].reason = "used"}
<1>1. /\ deleted \cap Rows(inactive) = {}
      /\ active'[a] = IF a \in deleted THEN None ELSE active[a]
      /\ a \in deleted => inactive'[a] = [reason |-> "revoked", used |-> tx[t].held[a]]
      /\ a \in used \ deleted => inactive'[a] = [reason |-> "revoked", used |-> inactive[a].used]
      /\ a \notin used \cup deleted => inactive'[a] = inactive[a]
  <2>1. /\ deleted \cap Rows(inactive) = {}
        /\ active' = Only(active, Approvals \ deleted)
        /\ inactive' = [b \in Approvals |->
             CASE b \in deleted -> [reason |-> "revoked", used |-> tx[t].held[b]]
               [] b \in used -> [reason |-> "revoked", used |-> inactive[b].used]
               [] OTHER -> inactive[b]]
    BY DEF CommitRevoke
  <2>0. a \in deleted => a \notin used
    BY <2>1 DEF Rows, From
  <2> HIDE DEF used, deleted
  <2>2. active'[a] = IF a \in deleted THEN None ELSE active[a]
    BY <2>1 DEF Only
  <2>3. a \in deleted => inactive'[a] = [reason |-> "revoked", used |-> tx[t].held[a]]
    BY <2>0, <2>1
  <2>4. a \in used \ deleted => inactive'[a] = [reason |-> "revoked", used |-> inactive[a].used]
    BY <2>1
  <2>5. a \notin used \cup deleted => inactive'[a] = inactive[a]
    BY <2>1
  <2> QED
    BY <2>1, <2>2, <2>3, <2>4, <2>5
<1>2. CASE a \in deleted
  <2>1. tx[t].held[a] \in Nat
    BY <1>2 DEF Rows, ApprovalInv, SessionOK, RowsOK, Below
  <2>2. [reason |-> "revoked", used |-> tx[t].held[a]] \in InactiveRows
    BY <2>1 DEF InactiveRows
  <2>3. inactive[a] = None /\ inactive'[a] # None /\ active'[a] = None
    BY <1>1, <1>2, <2>2 DEF Rows
  <2> QED
    BY <2>3 DEF MovesRightly, InBoth, Recorded, Final
<1>3. CASE a \in used \ deleted
  <2>1. inactive[a] \in InactiveRows /\ inactive[a].used \in Nat
    BY <1>3 DEF ApprovalInv, TablesTyped, InactiveRows
  <2>2. [reason |-> "revoked", used |-> inactive[a].used] \in InactiveRows
    BY <2>1 DEF InactiveRows
  <2>3. /\ inactive[a] # None /\ inactive[a].reason = "used"
        /\ inactive'[a] # None /\ active'[a] = active[a]
    BY <1>1, <1>3, <2>2
  <2> QED
    BY <2>3 DEF MovesRightly, InBoth, Recorded, Final
<1>4. CASE a \notin used \cup deleted
  BY <1>1, <1>4 DEF MovesRightly, InBoth, Recorded, Final
<1> QED
  BY <1>2, <1>3, <1>4

LEMMA TrimInsertMoves ==
  ASSUME ApprovalInv, NEW t \in Txns, TrimInsert(t), NEW a \in Approvals
  PROVE  MovesRightly(a)
<1>1. /\ tx[t].pc = "trimInsert" /\ active' = active /\ inactive[tx[t].a] = None
      /\ a # tx[t].a => inactive'[a] = inactive[a]
  BY DEF TrimInsert, ApprovalInv, TablesTyped
<1> QED
  BY <1>1 DEF MovesRightly, InBoth, Recorded, Final, InsertsUnguarded

LEMMA RefundMoves ==
  ASSUME ApprovalInv, NEW t \in Txns, CommitRefund(t), NEW a \in Approvals
  PROVE  MovesRightly(a)
<1> DEFINE restored == Rows(tx[t].restore)
           held == Rows(tx[t].held)
<1>1. /\ active'[a] = IF a \in restored THEN tx[t].restore[a]
                      ELSE IF a \in held THEN tx[t].held[a] ELSE active[a]
      /\ inactive'[a] = IF a \in restored THEN None ELSE inactive[a]
  BY DEF CommitRefund, Only
<1>2. /\ a \in held => active[a] # None
      /\ a \in restored => tx[t].past[a].reason = "used"
  BY DEF ApprovalInv, SessionOK, TablesHold, RowsOK, Rows
<1>3. CASE a \in restored
  <2>1. active'[a] # None /\ inactive'[a] = None /\ tx[t].restore[a] # None
    BY <1>1, <1>3 DEF Rows
  <2> QED
    BY <1>2, <1>3, <2>1 DEF MovesRightly, InBoth, Recorded, Final
<1>4. CASE a \notin restored
  <2>1. (active'[a] # None <=> active[a] # None) /\ inactive'[a] = inactive[a]
    BY <1>1, <1>2, <1>4 DEF Rows
  <2> QED
    BY <2>1 DEF MovesRightly, InBoth, Recorded, Final
<1> QED
  BY <1>3, <1>4

LEMMA EveryMove ==
  ASSUME ApprovalInv, [Next]_vars, NEW a \in Approvals
  PROVE  MovesRightly(a)
<1>1. CASE TableSteps
  BY <1>1, ReservationMoves, TrimDeleteMoves, CreateMoves, RevokeMoves, TrimInsertMoves,
     RefundMoves DEF TableSteps
<1>2. CASE active' = active /\ inactive' = inactive
  BY <1>2 DEF MovesRightly, InBoth, Recorded, Final
<1> QED
  BY <1>1, <1>2, WhoWrites

\* An approval gets into both tables only through the insert of a creation or of a
\* trimming: of which neither looks at the other table.
THEOREM OneTableTheorem == Spec => OneTableButForInsertRace
<1>1. ApprovalInv /\ [Next]_vars =>
        [\A a \in Approvals : InBoth(a)' /\ ~InBoth(a) => \E t \in Txns : InsertsUnguarded(t, a)]_vars
  BY EveryMove DEF MovesRightly
<1> QED
  BY <1>1, ApprovalInvariant, PTL DEF Spec, OneTableButForInsertRace

\* An approval is lost only by a trimming that has deleted its row.
THEOREM KeptTheorem == Spec => KeptButForTrim
<1>1. ApprovalInv /\ [Next]_vars =>
        [\A a \in Approvals : Recorded(a) /\ ~Recorded(a)' =>
           \E t \in Txns : tx[t].pc = "trim" /\ tx[t].expired[a] # None]_vars
  BY EveryMove DEF MovesRightly
<1> QED
  BY <1>1, ApprovalInvariant, PTL DEF Spec, KeptButForTrim

\* What was revoked or has expired comes back only through a refund that had read it
\* as used.
THEOREM FinalTheorem == Spec => FinalButForRefund
<1>1. ApprovalInv /\ [Next]_vars =>
        [\A a \in Approvals : Final(a) /\ ~Final(a)' =>
           \E t \in Txns : tx[t].restore[a] # None /\ tx[t].past[a].reason = "used"]_vars
  BY EveryMove DEF MovesRightly
<1> QED
  BY <1>1, ApprovalInvariant, PTL DEF Spec, FinalButForRefund

-----------------------------------------------------------------------------
(* Credits                                                                 *)

HIDE ApprovalAssumption

Trims == {"trim", "trimInsert", "trimWrite"}

\* What a session that trims still has to pay.
Owings == [t \in Txns |-> IF tx[t].pc \in Trims THEN SumFunctionOnSet(tx[t].owed, Users) ELSE 0]

\* What a revocation takes out of the rows it has locked.
Takes(x) == [a \in Approvals |-> IF x.held[a] = None THEN 0 ELSE ApprovedWinc[a] - x.held[a]]

\* A revocation owes its payer what the rows it has locked have left.
RevokeOK(x) ==
  x.pc = "revoke" =>
    /\ \A a \in Approvals : x.held[a] # None => active[a] = x.held[a]
    /\ \A u \in Users : x.owed[u] = IF u = x.from THEN SumFunctionOnSet(Takes(x), Approvals) ELSE 0

Revoking == \A t \in Txns : RevokeOK(tx[t])

LEMMA FiniteTables == IsFiniteSet(Approvals) /\ IsFiniteSet(Users) /\ IsFiniteSet(Txns)
BY ApprovalAssumption

CreditSums ==
  /\ Credits = SumFunctionOnSet(balance, Users) + SumFunctionOnSet(Remaining, Approvals)
                + SumFunctionOnSet(Owings, Txns)
  /\ SumFunctionOnSet(balance, Users) \in Int
  /\ \A a \in Approvals : Remaining[a] \in Nat
  /\ SumFunctionOnSet(Remaining, Approvals) \in Int
  /\ \A t \in Txns : /\ Owings[t] \in Nat
                     /\ SumFunctionOnSet(tx[t].owed, Users) \in Nat
                     /\ tx[t].owed \in [Users -> Nat]
  /\ SumFunctionOnSet(Owings, Txns) \in Int

LEMMA CreditSumsOK == ApprovalInv => CreditSums
<1> SUFFICES ASSUME ApprovalInv PROVE CreditSums
  OBVIOUS
<1>1. \A t \in Txns : tx[t].owed \in [Users -> Nat]
  BY DEF ApprovalInv, Sessions
<1>2. Credits = SumFunctionOnSet(balance, Users) + SumFunctionOnSet(Remaining, Approvals)
                  + SumFunctionOnSet(Owings, Txns)
  <2>1. DOMAIN balance = Users /\ DOMAIN Remaining = Approvals /\ DOMAIN Owings = Txns
    BY DEF ApprovalInv, TablesTyped, Remaining, Owings
  <2>2. Owings = [t \in Txns |-> IF tx[t].pc \in Trims THEN SumFunction(tx[t].owed) ELSE 0]
    BY <1>1 DEF Owings, SumFunction
  <2>3. Credits = SumFunction(balance) + SumFunction(Remaining) + SumFunction(Owings)
    BY <2>2, Zenon DEF Credits, Trims
  <2> QED
    BY <2>1, <2>3 DEF SumFunction
<1>3. SumFunctionOnSet(balance, Users) \in Int
  <2>1. \A u \in Users : balance[u] \in Int
    BY DEF ApprovalInv, TablesTyped
  <2> QED
    BY <2>1, FiniteTables, SumType
<1>4. \A a \in Approvals : Remaining[a] \in Nat
  BY ApprovalAssumption DEF ApprovalInv, NothingOverdrawn, Rows, Remaining
<1>5. SumFunctionOnSet(Remaining, Approvals) \in Int
  BY <1>4, FiniteTables, SumType
<1>6. ASSUME NEW t \in Txns PROVE SumFunctionOnSet(tx[t].owed, Users) \in Nat
  <2>1. \A u \in Users : tx[t].owed[u] \in Nat
    BY <1>1
  <2> QED
    BY <2>1, FiniteTables, SumNat
<1>7. \A t \in Txns : Owings[t] \in Nat
  BY <1>6 DEF Owings
<1>8. SumFunctionOnSet(Owings, Txns) \in Int
  BY <1>7, FiniteTables, SumType
<1> QED
  BY <1>1, <1>2, <1>3, <1>4, <1>5, <1>6, <1>7, <1>8 DEF CreditSums

LEMMA CreditSumsNext == ApprovalInv' => CreditSums'
BY CreditSumsOK, PTL

\* The three sums of Credits change by amounts that do not add up to more.
LEMMA NoMore ==
  ASSUME ApprovalInv, ApprovalInv', NEW b \in Int, NEW r \in Int, NEW o \in Int,
         (b + r) + o =< 0,
         SumFunctionOnSet(balance', Users) = SumFunctionOnSet(balance, Users) + b,
         SumFunctionOnSet(Remaining', Approvals) = SumFunctionOnSet(Remaining, Approvals) + r,
         SumFunctionOnSet(Owings', Txns) = SumFunctionOnSet(Owings, Txns) + o
  PROVE  ~(Credits' > Credits)
<1>1. \A B, R, O \in Int : ~((B + b) + (R + r) + (O + o) > B + R + O)
  OBVIOUS
<1> QED
  BY <1>1, CreditSumsOK, CreditSumsNext DEF CreditSums

\* One session's debts change.
LEMMA OwingsChange ==
  ASSUME ApprovalInv, ApprovalInv', NEW t \in Txns,
         \A s \in Txns : s # t => tx'[s].pc = tx[s].pc /\ tx'[s].owed = tx[s].owed
  PROVE  /\ Owings'[t] - Owings[t] \in Int
         /\ SumFunctionOnSet(Owings', Txns)
              = SumFunctionOnSet(Owings, Txns) + (Owings'[t] - Owings[t])
<1>1. \A s \in Txns : Owings[s] \in Int /\ Owings'[s] \in Int
  BY CreditSumsOK, CreditSumsNext DEF CreditSums
<1>2. \A s \in Txns : s # t => Owings'[s] = Owings[s]
  BY DEF Owings
<1> QED
  BY <1>1, <1>2, FiniteTables, SumChanged

NotMore == ~(Credits' > Credits)

\* A session goes on, and neither balances nor approvals change.
LEMMA QuietStep ==
  ASSUME ApprovalInv, ApprovalInv', NEW t \in Txns, NEW x, tx' = [tx EXCEPT ![t] = x],
         UNCHANGED <<balance, active>>,
         \/ x.pc \notin Trims \/ x.owed = NoDebts
         \/ tx[t].pc \in Trims /\ x.owed = tx[t].owed
  PROVE  NotMore
<1>1. DOMAIN tx = Txns
  BY DEF ApprovalInv
<1>2. tx'[t] = x /\ \A s \in Txns : s # t => tx'[s] = tx[s]
  BY <1>1
<1>3. SumFunctionOnSet(NoDebts, Users) = 0
  BY FiniteTables, SumZero DEF NoDebts
<1>4. Owings'[t] \in Nat /\ Owings[t] \in Nat
  BY CreditSumsOK, CreditSumsNext DEF CreditSums
<1>5. Owings'[t] =< Owings[t]
  <2>1. /\ Owings'[t] = IF x.pc \in Trims THEN SumFunctionOnSet(x.owed, Users) ELSE 0
        /\ Owings[t] = IF tx[t].pc \in Trims THEN SumFunctionOnSet(tx[t].owed, Users) ELSE 0
    BY <1>2 DEF Owings
  <2>2. CASE x.pc \notin Trims
    BY <1>4, <2>1, <2>2
  <2>3. CASE x.owed = NoDebts
    BY <1>3, <1>4, <2>1, <2>3
  <2>4. CASE x.pc \in Trims /\ tx[t].pc \in Trims /\ x.owed = tx[t].owed
    BY <1>4, <2>1, <2>4
  <2> QED
    BY <2>2, <2>3, <2>4
<1> DEFINE b == 0
           r == 0
           o == Owings'[t] - Owings[t]
<1>6. b \in Int /\ r \in Int /\ o \in Int /\ (b + r) + o =< 0
  BY <1>4, <1>5
<1>7. SumFunctionOnSet(Owings', Txns) = SumFunctionOnSet(Owings, Txns) + o
  BY <1>2, OwingsChange
<1>8. /\ SumFunctionOnSet(balance', Users) = SumFunctionOnSet(balance, Users) + b
      /\ SumFunctionOnSet(Remaining', Approvals) = SumFunctionOnSet(Remaining, Approvals) + r
  <2>1. balance' = balance /\ Remaining' = Remaining
    BY DEF Remaining
  <2> QED
    BY <2>1, CreditSumsOK DEF CreditSums
<1> HIDE DEF b, r, o
<1> QED
  BY <1>6, <1>7, <1>8, NoMore DEF NotMore

\* One balance changes.
LEMMA BalanceChange ==
  ASSUME ApprovalInv, NEW u \in Users, NEW d \in Int,
         balance' = [balance EXCEPT ![u] = balance[u] + d]
  PROVE  SumFunctionOnSet(balance', Users) = SumFunctionOnSet(balance, Users) + d
<1>1. DOMAIN balance = Users /\ \A v \in Users : balance[v] \in Int
  BY DEF ApprovalInv, TablesTyped
<1> QED
  BY <1>1, FiniteTables, SumExcept

\* One approval changes.
LEMMA RemainingChange ==
  ASSUME ApprovalInv, ApprovalInv', NEW a \in Approvals,
         \A c \in Approvals : c # a => active'[c] = active[c]
  PROVE  /\ Remaining'[a] - Remaining[a] \in Int
         /\ SumFunctionOnSet(Remaining', Approvals)
              = SumFunctionOnSet(Remaining, Approvals) + (Remaining'[a] - Remaining[a])
<1>1. \A c \in Approvals : Remaining[c] \in Int /\ Remaining'[c] \in Int
  BY CreditSumsOK, CreditSumsNext DEF CreditSums
<1>2. \A c \in Approvals : c # a => Remaining'[c] = Remaining[c]
  BY DEF Remaining
<1> QED
  BY <1>1, <1>2, FiniteTables, SumChanged

\* An approval is made from its payer's balance.
LEMMA CreateNotMore ==
  ASSUME ApprovalInv, ApprovalInv', NEW t \in Txns, CommitCreate(t)
  PROVE  NotMore
<1> DEFINE a == tx[t].a
           p == PayingAddress[a]
           b == -ApprovedWinc[a]
           r == Remaining'[a] - Remaining[a]
           o == Owings'[t] - Owings[t]
<1>1. /\ tx[t].pc = "create" /\ a \in Approvals /\ DOMAIN tx = Txns
      /\ active \in [Approvals -> OptionalNat] /\ balance \in [Users -> Int]
  BY DEF CommitCreate, ApprovalInv, SessionOK, StageOK, TablesTyped
<1>2. p \in Users /\ ApprovedWinc[a] \in Nat /\ None \notin Int
  BY <1>1, ApprovalAssumption
<1>3. /\ active[a] = None /\ active' = [active EXCEPT ![a] = 0]
      /\ balance' = [balance EXCEPT ![p] = balance[p] - ApprovedWinc[a]]
      /\ tx' = [tx EXCEPT ![t] = Idle]
  BY <1>1 DEF CommitCreate, End, Move
<1>4. tx'[t] = Idle /\ \A s \in Txns : s # t => tx'[s] = tx[s]
  BY <1>1, <1>3
<1> HIDE DEF a, p
<1>5. Remaining[a] = 0 /\ Remaining'[a] = ApprovedWinc[a]
  BY <1>1, <1>2, <1>3 DEF Remaining, OptionalNat
<1>6. \A c \in Approvals : c # a => active'[c] = active[c]
  BY <1>1, <1>3
<1>7. Owings[t] = 0 /\ Owings'[t] = 0
  BY <1>1, <1>4 DEF Owings, Idle, Trims
<1>8. b \in Int /\ r \in Int /\ o \in Int /\ (b + r) + o =< 0
  BY <1>2, <1>5, <1>7
<1>9. SumFunctionOnSet(balance', Users) = SumFunctionOnSet(balance, Users) + b
  <2>1. balance' = [balance EXCEPT ![p] = balance[p] + b]
    BY <1>1, <1>2, <1>3
  <2> HIDE DEF b
  <2> QED
    BY <1>2, <1>8, <2>1, BalanceChange
<1>10. SumFunctionOnSet(Remaining', Approvals) = SumFunctionOnSet(Remaining, Approvals) + r
  BY <1>1, <1>6, RemainingChange DEF a
<1>11. SumFunctionOnSet(Owings', Txns) = SumFunctionOnSet(Owings, Txns) + o
  BY <1>4, OwingsChange
<1> HIDE DEF b, r, o
<1> QED
  BY <1>8, <1>9, <1>10, <1>11, NoMore DEF NotMore

\* A trimming deletes an expired row as it listed it.
LEMMA TrimDeleteNotMore ==
  ASSUME ApprovalInv, ApprovalInv', NEW t \in Txns, NEW a \in Approvals, TrimDelete(t, a),
         ~StaleTrim(t)
  PROVE  NotMore
<1> DEFINE winc == ApprovedWinc[a] - active[a]
           p == PayingAddress[a]
           b == 0
           r == Remaining'[a] - Remaining[a]
           o == Owings'[t] - Owings[t]
<1>1. /\ tx[t].pc = "trim" /\ tx[t].expired[a] # None
      /\ active' = [active EXCEPT ![a] = None] /\ UNCHANGED balance
  BY DEF TrimDelete
<1>2. active[a] = tx[t].expired[a] /\ active[a] # None
  BY <1>1 DEF StaleTrim
<1>3. /\ active \in [Approvals -> OptionalNat] /\ tx \in [Txns -> Sessions]
      /\ active[a] \in 0 .. ApprovedWinc[a] - 1
  BY <1>2 DEF ApprovalInv, TablesTyped, NothingOverdrawn, Rows
<1>4. p \in Users /\ ApprovedWinc[a] \in Nat /\ winc \in Nat /\ winc \in Int
  BY <1>3, ApprovalAssumption
<1>5. /\ \A s \in Txns : s # t => tx'[s].pc = tx[s].pc /\ tx'[s].owed = tx[s].owed
      /\ tx'[t].pc = "trimInsert" /\ tx'[t].owed = [tx[t].owed EXCEPT ![p] = tx[t].owed[p] + winc]
  <2>1. \A s \in Txns : s # t => tx'[s] = Deleted({a})[s]
    BY <1>3 DEF TrimDelete, Deleted
  <2>2. \A s \in Txns : Deleted({a})[s].pc = tx[s].pc /\ Deleted({a})[s].owed = tx[s].owed
    BY <1>3 DEF Deleted, Sessions
  <2>3. tx[t] \in Sessions /\ Owe(t, p, winc) = [tx[t].owed EXCEPT ![p] = tx[t].owed[p] + winc]
    BY <1>3, <1>4 DEF Owe, Sessions
  <2>4. tx'[t] = [tx[t] EXCEPT !.expired = Without(tx[t].expired, a), !.owed = Owe(t, p, winc),
                              !.pc = "trimInsert", !.a = a, !.seen = active[a]]
    BY <1>2, <1>3 DEF TrimDelete, Deleted
  <2> HIDE DEF p, winc
  <2>5. tx'[t].pc = "trimInsert" /\ tx'[t].owed = Owe(t, p, winc)
    BY <2>3, <2>4 DEF Sessions
  <2> QED
    BY <2>1, <2>2, <2>3, <2>5
<1>6. Remaining[a] = winc /\ Remaining'[a] = 0
  BY <1>1, <1>2, <1>3 DEF Remaining
<1> HIDE DEF p, winc
<1>7. Owings'[t] = Owings[t] + winc
  <2>1. tx[t].owed \in [Users -> Nat]
    BY <1>3 DEF Sessions
  <2>2. DOMAIN tx[t].owed = Users /\ \A u \in Users : tx[t].owed[u] \in Int
    BY <2>1
  <2>3. SumFunctionOnSet([tx[t].owed EXCEPT ![p] = tx[t].owed[p] + winc], Users)
          = SumFunctionOnSet(tx[t].owed, Users) + winc
    BY <1>4, <2>2, FiniteTables, SumExcept
  <2>4. /\ Owings'[t] = SumFunctionOnSet(tx'[t].owed, Users)
        /\ Owings[t] = SumFunctionOnSet(tx[t].owed, Users)
    BY <1>1, <1>5 DEF Owings, Trims
  <2> QED
    BY <1>5, <2>3, <2>4
<1>8. Owings[t] \in Nat
  BY CreditSumsOK DEF CreditSums
<1>9. b \in Int /\ r \in Int /\ o \in Int /\ (b + r) + o =< 0
  BY <1>4, <1>6, <1>7, <1>8
<1>10. SumFunctionOnSet(balance', Users) = SumFunctionOnSet(balance, Users) + b
  BY <1>1, CreditSumsOK DEF CreditSums
<1>11. SumFunctionOnSet(Remaining', Approvals) = SumFunctionOnSet(Remaining, Approvals) + r
  <2>1. \A c \in Approvals : c # a => active'[c] = active[c]
    BY <1>1, <1>3
  <2> QED
    BY <2>1, RemainingChange
<1>12. SumFunctionOnSet(Owings', Txns) = SumFunctionOnSet(Owings, Txns) + o
  BY <1>5, OwingsChange
<1> HIDE DEF b, r, o
<1> QED
  BY <1>9, <1>10, <1>11, <1>12, NoMore DEF NotMore

\* A trimming adds what it took to the balance that it read.
LEMMA TrimWriteNotMore ==
  ASSUME ApprovalInv, ApprovalInv', NEW t \in Txns, TrimWritePayer(t), ~StaleTrim(t)
  PROVE  NotMore
<1> DEFINE p == tx[t].from
           winc == tx[t].owed[p]
           owed == [tx[t].owed EXCEPT ![p] = 0]
           b == winc
           r == 0
           o == Owings'[t] - Owings[t]
<1>1. /\ tx[t].pc = "trimWrite" /\ tx[t] \in Sessions /\ p \in Users /\ tx \in [Txns -> Sessions]
  BY DEF TrimWritePayer, ApprovalInv, SessionOK, StageOK
<1>2. balance' = [balance EXCEPT ![p] = balance[p] + winc]
  BY <1>1 DEF TrimWritePayer, StaleTrim
<1>3. UNCHANGED active
  BY DEF TrimWritePayer, approvals
<1>4. tx[t].owed \in [Users -> Nat] /\ winc \in Nat /\ owed \in [Users -> Nat]
  BY <1>1 DEF Sessions
<1>5. /\ \A s \in Txns : s # t => tx'[s] = tx[s]
      /\ tx'[t] = IF owed # NoDebts THEN [tx[t] EXCEPT !.pc = "trim", !.owed = owed]
                  ELSE IF tx[t].d # None THEN [tx[t] EXCEPT !.pc = "refundActive", !.owed = owed]
                  ELSE Idle
  BY <1>1 DEF TrimWritePayer, Move
<1> HIDE DEF p, winc, owed
<1>6. Owings[t] = SumFunctionOnSet(owed, Users) + winc
  <2>1. /\ DOMAIN tx[t].owed = Users /\ \A u \in Users : tx[t].owed[u] \in Int /\ owed[u] \in Int
        /\ owed = [tx[t].owed EXCEPT ![p] = 0] /\ winc = tx[t].owed[p]
    BY <1>4 DEF owed, winc
  <2>2. \A u \in Users : u # p => owed[u] = tx[t].owed[u]
    BY <2>1
  <2>3. owed[p] = 0
    BY <1>1, <2>1
  <2>4. SumFunctionOnSet(owed, Users)
          = SumFunctionOnSet(tx[t].owed, Users) + (owed[p] - tx[t].owed[p])
    BY <1>1, <2>1, <2>2, FiniteTables, SumChanged
  <2>5. SumFunctionOnSet(tx[t].owed, Users) \in Nat /\ SumFunctionOnSet(owed, Users) \in Int
    <3>1. SumFunctionOnSet(owed, Users) \in Int
      BY <2>1, FiniteTables, SumType
    <3> QED
      BY <3>1, CreditSumsOK DEF CreditSums
  <2>6. Owings[t] = SumFunctionOnSet(tx[t].owed, Users)
    BY <1>1 DEF Owings, Trims
  <2> QED
    BY <1>4, <2>1, <2>3, <2>4, <2>5, <2>6
<1>7. Owings'[t] = SumFunctionOnSet(owed, Users)
  <2>1. owed = NoDebts => SumFunctionOnSet(owed, Users) = 0
    BY FiniteTables, SumZero DEF NoDebts
  <2>2. Owings'[t] = IF tx'[t].pc \in Trims THEN SumFunctionOnSet(tx'[t].owed, Users) ELSE 0
    BY DEF Owings
  <2>3. CASE owed # NoDebts
    <3>1. tx'[t].pc = "trim" /\ tx'[t].owed = owed
      BY <1>1, <1>5, <2>3 DEF Sessions
    <3> QED
      BY <2>2, <3>1 DEF Trims
  <2>4. CASE owed = NoDebts
    <3>1. tx'[t].pc \in {"refundActive", "idle"}
      BY <1>1, <1>5, <2>4 DEF Sessions, Idle
    <3> QED
      BY <2>1, <2>2, <2>4, <3>1 DEF Trims
  <2> QED
    BY <2>3, <2>4
<1>8. Owings[t] \in Nat /\ Owings'[t] \in Nat
  BY CreditSumsOK, CreditSumsNext DEF CreditSums
<1>9. b \in Int /\ r \in Int /\ o \in Int /\ (b + r) + o =< 0
  BY <1>4, <1>6, <1>7, <1>8
<1>10. SumFunctionOnSet(balance', Users) = SumFunctionOnSet(balance, Users) + b
  BY <1>1, <1>2, <1>9, BalanceChange
<1>11. SumFunctionOnSet(Remaining', Approvals) = SumFunctionOnSet(Remaining, Approvals) + r
  <2>1. Remaining' = Remaining
    BY <1>3 DEF Remaining
  <2> QED
    BY <2>1, CreditSumsOK DEF CreditSums
<1>12. SumFunctionOnSet(Owings', Txns) = SumFunctionOnSet(Owings, Txns) + o
  BY <1>5, OwingsChange
<1> HIDE DEF b, r, o
<1> QED
  BY <1>9, <1>10, <1>11, <1>12, NoMore DEF NotMore

LEMMA DeletedKeeps ==
  ASSUME ApprovalInv, NEW D, NEW s \in Txns
  PROVE  /\ Deleted(D)[s].pc = tx[s].pc /\ Deleted(D)[s].owed = tx[s].owed
         /\ Deleted(D)[s].held = tx[s].held /\ Deleted(D)[s].from = tx[s].from
BY DEF Deleted, ApprovalInv, Sessions

\* A revocation pays what the rows had left that it takes away.
LEMMA RevokeNotMore ==
  ASSUME ApprovalInv, ApprovalInv', Revoking, NEW t \in Txns, CommitRevoke(t)
  PROVE  NotMore
<1> DEFINE p == tx[t].from
           takes == Takes(tx[t])
           W == SumFunctionOnSet(takes, Approvals)
           b == W
           r == -W
           o == Owings'[t] - Owings[t]
<1>1. /\ tx[t].pc = "revoke" /\ tx[t] \in Sessions /\ p \in Users /\ tx \in [Txns -> Sessions]
      /\ active \in [Approvals -> OptionalNat]
  BY DEF CommitRevoke, ApprovalInv, TablesTyped, SessionOK, StageOK
<1>2. /\ \A a \in Approvals : tx[t].held[a] # None => active[a] = tx[t].held[a]
      /\ \A u \in Users : tx[t].owed[u] = IF u = p THEN W ELSE 0
  BY <1>1 DEF Revoking, RevokeOK
<1>3. \A a \in Approvals : /\ takes[a] = IF tx[t].held[a] = None THEN 0
                                         ELSE ApprovedWinc[a] - tx[t].held[a]
                           /\ active'[a] = IF tx[t].held[a] # None THEN None ELSE active[a]
  BY DEF Takes, CommitRevoke, Only, Rows
<1>4. \A a \in Approvals : /\ Remaining[a] = Remaining'[a] + takes[a]
                           /\ Remaining[a] \in Int /\ Remaining'[a] \in Int /\ takes[a] \in Int
  <2> SUFFICES ASSUME NEW a \in Approvals
               PROVE  /\ Remaining[a] = Remaining'[a] + takes[a]
                      /\ Remaining[a] \in Int /\ Remaining'[a] \in Int /\ takes[a] \in Int
    OBVIOUS
  <2>1. Remaining[a] \in Nat /\ Remaining'[a] \in Nat
    BY CreditSumsOK, CreditSumsNext DEF CreditSums
  <2>2. CASE tx[t].held[a] = None
    <3>1. takes[a] = 0 /\ Remaining'[a] = Remaining[a]
      BY <1>3, <2>2 DEF Remaining
    <3> HIDE DEF takes
    <3> QED
      BY <2>1, <3>1
  <2>3. CASE tx[t].held[a] # None
    <3>1. takes[a] = Remaining[a]
      BY <1>2, <1>3, <2>3 DEF Remaining
    <3>2. Remaining'[a] = 0
      BY <1>3, <2>3 DEF Remaining
    <3> HIDE DEF takes
    <3> QED
      BY <2>1, <3>1, <3>2
  <2> QED
    BY <2>2, <2>3
<1> HIDE DEF takes
<1>5. W \in Int
  BY <1>4, FiniteTables, SumType
<1> HIDE DEF W
<1>6. balance' = [balance EXCEPT ![p] = balance[p] + W]
  <2>1. balance \in [Users -> Int] /\ balance' = [u \in Users |-> balance[u] + tx[t].owed[u]]
    BY DEF CommitRevoke, PayOwed, ApprovalInv, TablesTyped
  <2>2. \A u \in Users : balance'[u] = IF u = p THEN balance[u] + W ELSE balance[u]
    BY <1>2, <2>1
  <2> QED
    BY <1>1, <2>1, <2>2
<1>7. /\ \A s \in Txns : s # t => tx'[s].pc = tx[s].pc /\ tx'[s].owed = tx[s].owed
      /\ tx'[t] = Idle
  <2>1. tx' = [Deleted(Rows(tx[t].held)) EXCEPT ![t] = Idle]
    BY DEF CommitRevoke
  <2>2. DOMAIN Deleted(Rows(tx[t].held)) = Txns
    BY DEF Deleted
  <2> QED
    BY <2>1, <2>2, DeletedKeeps
<1>8. Owings[t] = 0 /\ Owings'[t] = 0
  BY <1>1, <1>7 DEF Owings, Trims, Idle
<1>9. b \in Int /\ r \in Int /\ o \in Int /\ (b + r) + o =< 0
  BY <1>5, <1>8
<1>10. SumFunctionOnSet(balance', Users) = SumFunctionOnSet(balance, Users) + b
  BY <1>1, <1>6, <1>9, BalanceChange
<1>11. SumFunctionOnSet(Remaining', Approvals) = SumFunctionOnSet(Remaining, Approvals) + r
  <2>1. SumFunctionOnSet(Remaining, Approvals)
          = SumFunctionOnSet(Remaining', Approvals) + SumFunctionOnSet(takes, Approvals)
    BY <1>4, FiniteTables, SumPlus
  <2>2. SumFunctionOnSet(Remaining', Approvals) \in Int
    BY CreditSumsNext DEF CreditSums
  <2> QED
    BY <1>5, <2>1, <2>2 DEF W
<1>12. SumFunctionOnSet(Owings', Txns) = SumFunctionOnSet(Owings, Txns) + o
  BY <1>7, OwingsChange
<1> HIDE DEF b, r, o
<1> QED
  BY <1>9, <1>10, <1>11, <1>12, NoMore DEF NotMore

\* A reservation uses approvals and the signer's balance.
LEMMA ReserveNotMore ==
  ASSUME ApprovalInv, ApprovalInv', NEW d \in DataItems, ReserveBalance(d)
  PROVE  NotMore
<1> DEFINE s == Signer[d]
           offered == IF PaidBy[d] = None THEN {} ELSE From(PaidBy[d], s) \cap Rows(active)
<1>1. PICK approved \in 0 .. Price[d], spend \in [offered -> 0 .. Price[d]] :
        /\ balance' = [balance EXCEPT ![s] = @ - (Price[d] - approved)]
        /\ \A a \in offered : spend[a] <= Remaining[a]
        /\ UseApprovals(spend)
  BY DEF ReserveBalance
<1>2. s \in Users /\ Price[d] \in Nat /\ offered \subseteq Rows(active)
  BY ApprovalAssumption
<1> DEFINE own == Price[d] - approved
           less == [a \in Approvals |-> IF a \in offered THEN spend[a] ELSE 0]
           L == SumFunctionOnSet(less, Approvals)
           b == -own
           r == -L
           o == 0
<1>3. own \in Nat /\ \A a \in offered : spend[a] \in Nat
  BY <1>2
<1>4. /\ DOMAIN spend = offered
      /\ \A a \in Approvals :
           active'[a] = IF a \notin offered THEN active[a]
                        ELSE IF spend[a] = Remaining[a] THEN None
                        ELSE active[a] + spend[a]
  <2> HIDE DEF offered
  <2>1. DOMAIN spend = offered
    OBVIOUS
  <2> QED
    BY <1>1, <2>1 DEF UseApprovals
<1>5. \A s1 \in Txns : tx'[s1].pc = tx[s1].pc /\ tx'[s1].owed = tx[s1].owed
  BY <1>1, DeletedKeeps DEF UseApprovals
<1> HIDE DEF offered, s
<1>6. ASSUME NEW a \in Approvals
      PROVE  /\ Remaining[a] = Remaining'[a] + less[a]
             /\ Remaining[a] \in Int /\ Remaining'[a] \in Int /\ less[a] \in Nat /\ less[a] \in Int
  <2>1. Remaining[a] \in Nat /\ Remaining'[a] \in Nat
    BY CreditSumsOK, CreditSumsNext DEF CreditSums
  <2>2. CASE a \notin offered
    <3>1. Remaining'[a] = Remaining[a] /\ less[a] = 0
      BY <1>4, <2>2 DEF Remaining
    <3> HIDE DEF less
    <3> QED
      BY <2>1, <3>1
  <2>3. CASE a \in offered
    <3>1. active[a] # None /\ active[a] \in 0 .. ApprovedWinc[a] - 1
      BY <1>2, <2>3 DEF Rows, ApprovalInv, NothingOverdrawn
    <3>2. spend[a] \in Nat /\ less[a] = spend[a] /\ ApprovedWinc[a] \in Nat /\ None \notin Int
      BY <1>3, <2>3, ApprovalAssumption
    <3>3. Remaining[a] = ApprovedWinc[a] - active[a]
      BY <3>1 DEF Remaining
    <3> HIDE DEF less
    <3>4. CASE spend[a] = Remaining[a]
      <4>1. Remaining'[a] = 0
        BY <1>4, <2>3, <3>4 DEF Remaining
      <4> QED
        BY <2>1, <3>2, <3>4, <4>1
    <3>5. CASE spend[a] # Remaining[a]
      <4>1. active'[a] = active[a] + spend[a]
        BY <1>4, <2>3, <3>5
      <4>2. active'[a] # None
        BY <3>1, <3>2, <4>1
      <4>3. Remaining'[a] = ApprovedWinc[a] - (active[a] + spend[a])
        BY <4>1, <4>2 DEF Remaining
      <4> QED
        BY <2>1, <3>1, <3>2, <3>3, <4>3
    <3> QED
      BY <3>4, <3>5
  <2> QED
    BY <2>2, <2>3
<1> HIDE DEF own, less
<1>7. L \in Nat
  BY <1>6, FiniteTables, SumNat
<1> HIDE DEF L
<1>8. b \in Int /\ r \in Int /\ o \in Int /\ (b + r) + o =< 0
  BY <1>3, <1>7
<1>9. SumFunctionOnSet(balance', Users) = SumFunctionOnSet(balance, Users) + b
  <2>1. balance' = [balance EXCEPT ![s] = balance[s] + b]
    BY <1>1, <1>2, <1>3 DEF ApprovalInv, TablesTyped, own
  <2> HIDE DEF b
  <2> QED
    BY <1>2, <1>8, <2>1, BalanceChange
<1>10. SumFunctionOnSet(Remaining', Approvals) = SumFunctionOnSet(Remaining, Approvals) + r
  <2>1. SumFunctionOnSet(Remaining, Approvals)
          = SumFunctionOnSet(Remaining', Approvals) + SumFunctionOnSet(less, Approvals)
    BY <1>6, FiniteTables, SumPlus
  <2>2. SumFunctionOnSet(Remaining', Approvals) \in Int
    BY CreditSumsNext DEF CreditSums
  <2> QED
    BY <1>7, <2>1, <2>2 DEF L
<1>11. SumFunctionOnSet(Owings', Txns) = SumFunctionOnSet(Owings, Txns) + o
  <2>1. Owings' = Owings
    BY <1>5 DEF Owings
  <2> QED
    BY <2>1, CreditSumsOK DEF CreditSums
<1> HIDE DEF b, r, o
<1> QED
  BY <1>8, <1>9, <1>10, <1>11, NoMore DEF NotMore

\* The steps that only read, lock or note something, or that end a session.
LEMMA QuietNotMore ==
  ASSUME ApprovalInv, ApprovalInv', NEW t \in Txns, Statement(t), refunds' = refunds,
         ~CommitCreate(t), ~CommitRevoke(t), ~TrimWritePayer(t),
         ~\E a \in Approvals : TrimDelete(t, a)
  PROVE  NotMore
<1>1. tx[t] \in Sessions /\ SessionOK(tx[t]) /\ DOMAIN tx = Txns
  BY DEF ApprovalInv
<1>2. ASSUME NEW a \in Approvals, CheckConflicts(t, a) PROVE NotMore
  <2> DEFINE x == [Idle EXCEPT !.pc = "create", !.a = a]
  <2>1. x.pc = "create" /\ tx' = [tx EXCEPT ![t] = x] /\ UNCHANGED <<balance, active>>
    BY <1>2 DEF CheckConflicts, Begin, Idle, approvals
  <2> HIDE DEF x
  <2> QED
    BY <2>1, QuietStep DEF Trims
<1>3. ASSUME NEW p \in Users, NEW s \in Users, StartRevoke(t, p, s) PROVE NotMore
  <2> DEFINE x == [Idle EXCEPT !.pc = "revoke", !.from = p, !.to = s,
                               !.rows = Only(active, From(p, s))]
  <2>1. x.pc = "revoke" /\ tx' = [tx EXCEPT ![t] = x] /\ UNCHANGED <<balance, active>>
    BY <1>3 DEF StartRevoke, Begin, Idle, approvals
  <2> HIDE DEF x
  <2> QED
    BY <2>1, QuietStep DEF Trims
<1>4. ASSUME NEW a \in Approvals, RevokeRow(t, a) PROVE NotMore
  <2> DEFINE x == [tx[t] EXCEPT !.rows = Without(tx[t].rows, a),
                 !.held = With(tx[t].held, a, active[a]),
                 !.owed = Owe(t, tx[t].from, ApprovedWinc[a] - active[a])]
  <2>1. x.pc = "revoke" /\ tx' = [tx EXCEPT ![t] = x] /\ UNCHANGED <<balance, active>>
    BY <1>1, <1>4 DEF RevokeRow, Move, Sessions, approvals
  <2> HIDE DEF x
  <2> QED
    BY <2>1, QuietStep DEF Trims
<1>5. ASSUME NEW S, ListApprovals(t, S) PROVE NotMore
  <2> DEFINE x == [Idle EXCEPT !.pc = "trim", !.expired = Only(active, S \cap lapsed \cap Rows(active))]
  <2>1. x.owed = NoDebts /\ tx' = [tx EXCEPT ![t] = x] /\ UNCHANGED <<balance, active>>
    BY <1>5 DEF ListApprovals, Begin, Idle, approvals
  <2> HIDE DEF x
  <2> QED
    BY <2>1, QuietStep
<1>6. ASSUME TrimInsert(t) PROVE NotMore
  <2> DEFINE x == [tx[t] EXCEPT !.pc = "trim"]
  <2>1. /\ x.owed = tx[t].owed /\ tx[t].pc \in Trims
        /\ tx' = [tx EXCEPT ![t] = x] /\ UNCHANGED <<balance, active>>
    BY <1>1, <1>6 DEF TrimInsert, Move, Sessions, Trims
  <2> HIDE DEF x
  <2> QED
    BY <2>1, QuietStep
<1>7. ASSUME NEW p \in Users, TrimReadPayer(t, p) PROVE NotMore
  <2> DEFINE x == [tx[t] EXCEPT !.pc = "trimWrite", !.from = p, !.seen = balance[p]]
  <2>1. /\ x.owed = tx[t].owed /\ tx[t].pc \in Trims
        /\ tx' = [tx EXCEPT ![t] = x] /\ UNCHANGED <<balance, active>>
    BY <1>1, <1>7 DEF TrimReadPayer, Move, Sessions, Trims, approvals
  <2> HIDE DEF x
  <2> QED
    BY <2>1, QuietStep
<1>8. ASSUME NEW d \in DataItems, StartRefund(t, d) PROVE NotMore
  <2> DEFINE listed == From(PaidBy[d], Signer[d]) \cap Rows(active)
             x == [Idle EXCEPT !.pc = IF listed \cap lapsed = {} THEN "refundActive" ELSE "trim",
                     !.d = d, !.left = reservation[d].approved,
                     !.expired = Only(active, listed \cap lapsed),
                     !.rows = Only(active, listed \ lapsed)]
  <2>1. x.owed = NoDebts /\ tx' = [tx EXCEPT ![t] = x] /\ UNCHANGED <<balance, active>>
    BY <1>8 DEF StartRefund, Begin, Idle, approvals
  <2> HIDE DEF x
  <2> QED
    BY <2>1, QuietStep
<1>9. ASSUME NEW a \in Approvals, RefundRow(t, a) PROVE NotMore
  <2> DEFINE winc == reservation[tx[t].d].approved
             used == tx[t].rows[a]
             x == [tx[t] EXCEPT !.rows = Without(tx[t].rows, a),
           !.left = IF used >= winc THEN 0 ELSE tx[t].left - used,
           !.held = IF active[a] = None THEN tx[t].held
                    ELSE With(tx[t].held, a, Minus(used, winc))]
  <2>1. x.pc = "refundActive" /\ tx' = [tx EXCEPT ![t] = x] /\ UNCHANGED <<balance, active>>
    BY <1>1, <1>9 DEF RefundRow, Move, Sessions, approvals
  <2> HIDE DEF x
  <2> QED
    BY <2>1, QuietStep DEF Trims
<1>10. ASSUME ReadInactive(t) PROVE NotMore
  <2> DEFINE d == tx[t].d
             x == [tx[t] EXCEPT !.pc = "refundInactive",
                    !.past = Only(inactive, From(PaidBy[d], Signer[d]))]
  <2>1. x.pc = "refundInactive" /\ tx' = [tx EXCEPT ![t] = x] /\ UNCHANGED <<balance, active>>
    BY <1>1, <1>10 DEF ReadInactive, Move, Sessions, approvals
  <2> HIDE DEF x
  <2> QED
    BY <2>1, QuietStep DEF Trims
<1>11. ASSUME NEW a \in Approvals, RestoreUsed(t, a) PROVE NotMore
  <2> DEFINE used == tx[t].past[a].used
             x == [tx[t] EXCEPT !.left = tx[t].left - used,
                               !.restore = With(tx[t].restore, a, Minus(used, tx[t].left))]
  <2>1. x.pc = "refundInactive" /\ tx' = [tx EXCEPT ![t] = x] /\ UNCHANGED <<balance, active>>
    BY <1>1, <1>11 DEF RestoreUsed, Visits, Move, Sessions, approvals
  <2> HIDE DEF x
  <2> QED
    BY <2>1, QuietStep DEF Trims
<1>12. ASSUME NEW a \in Approvals, CreditPayer(t, a) PROVE NotMore
  <2> DEFINE x == [tx[t] EXCEPT !.past = Without(tx[t].past, a),
                           !.owed = Owe(t, PaidBy[tx[t].d], tx[t].past[a].used)]
  <2>1. x.pc = "refundInactive" /\ tx' = [tx EXCEPT ![t] = x] /\ UNCHANGED <<balance, active>>
    BY <1>1, <1>12 DEF CreditPayer, Visits, Move, Sessions, approvals
  <2> HIDE DEF x
  <2> QED
    BY <2>1, QuietStep DEF Trims
<1>13. ASSUME Abort(t) PROVE NotMore
  <2>1. Idle.pc \notin Trims /\ tx' = [tx EXCEPT ![t] = Idle] /\ UNCHANGED <<balance, active>>
    BY <1>13 DEF Abort, End, Move, Idle, Trims, approvals
  <2> QED
    BY <2>1, QuietStep
<1>14. ~CommitRefund(t)
  <2> SUFFICES ASSUME CommitRefund(t) PROVE FALSE
    OBVIOUS
  <2>1. tx[t].d \in DataItems
    BY <1>1 DEF CommitRefund, Refunded, SessionOK, StageOK, Sessions
  <2>2. refunds \in [DataItems -> Nat] /\ refunds' = [refunds EXCEPT ![tx[t].d] = @ + 1]
    BY DEF CommitRefund, ApprovalInv, TablesTyped
  <2>3. refunds'[tx[t].d] = refunds[tx[t].d] + 1 /\ refunds[tx[t].d] \in Nat
    BY <2>1, <2>2
  <2> QED
    BY <2>3
<1> QED
  BY <1>2, <1>3, <1>4, <1>5, <1>6, <1>7, <1>8, <1>9, <1>10, <1>11, <1>12, <1>13, <1>14
     DEF Statement

\* Outside refunds, only a stale trimming makes credits.
LEMMA StepNotMore ==
  ASSUME ApprovalInv, ApprovalInv', Revoking, [Next]_vars, refunds' = refunds,
         \A t \in Txns : ~StaleTrim(t)
  PROVE  NotMore
<1>1. ASSUME UNCHANGED <<balance, active, tx>> PROVE NotMore
  <2>1. balance' = balance /\ Remaining' = Remaining /\ Owings' = Owings
    BY <1>1 DEF Remaining, Owings
  <2>2. \A B, R, O \in Int : ~(B + R + O > B + R + O)
    OBVIOUS
  <2> QED
    BY <2>1, <2>2, CreditSumsOK, CreditSumsNext DEF CreditSums, NotMore
<1>2. CASE UNCHANGED vars
  BY <1>1, <1>2 DEF vars, approvals
<1>3. ASSUME NEW a \in Approvals, Lapse(a) PROVE NotMore
  BY <1>1, <1>3 DEF Lapse, approvals
<1>4. ASSUME NEW d \in DataItems, ReserveBalance(d) PROVE NotMore
  BY <1>4, ReserveNotMore
<1>5. ASSUME NEW d \in DataItems PROVE ~RefundSigner(d)
  <2> SUFFICES ASSUME RefundSigner(d) PROVE FALSE
    OBVIOUS
  <2>1. refunds \in [DataItems -> Nat] /\ refunds' = [refunds EXCEPT ![d] = @ + 1]
    BY DEF RefundSigner, ApprovalInv, TablesTyped
  <2>2. refunds'[d] = refunds[d] + 1 /\ refunds[d] \in Nat
    BY <2>1
  <2> QED
    BY <2>2
<1>6. ASSUME NEW t \in Txns, Statement(t) PROVE NotMore
  BY <1>6, CreateNotMore, RevokeNotMore, TrimWriteNotMore, TrimDeleteNotMore, QuietNotMore
<1> QED
  BY <1>2, <1>3, <1>4, <1>5, <1>6 DEF Next

-----------------------------------------------------------------------------
LEMMA RevokingInit == Init => Revoking
BY DEF Init, Revoking, RevokeOK, Idle

\* The sessions of T move on, the others keep what they have locked and owe.
LEMMA RevokingKept ==
  ASSUME Revoking, NEW T,
         \A s \in Txns \ T :
           /\ tx'[s].pc = tx[s].pc /\ tx'[s].held = tx[s].held
           /\ tx'[s].owed = tx[s].owed /\ tx'[s].from = tx[s].from
           /\ tx[s].pc = "revoke" =>
                \A a \in Approvals : tx[s].held[a] # None => active'[a] = active[a],
         \A s \in Txns \cap T : RevokeOK(tx[s])'
  PROVE  Revoking'
<1> SUFFICES ASSUME NEW s \in Txns \ T PROVE RevokeOK(tx[s])'
  BY DEF Revoking
<1>1. /\ tx'[s].pc = tx[s].pc /\ tx'[s].held = tx[s].held
      /\ tx'[s].owed = tx[s].owed /\ tx'[s].from = tx[s].from
      /\ tx[s].pc = "revoke" =>
           \A a \in Approvals : tx[s].held[a] # None => active'[a] = active[a]
  OBVIOUS
<1>2. RevokeOK(tx[s])
  BY DEF Revoking
<1>3. Takes(tx[s])' = Takes(tx[s])
  BY <1>1 DEF Takes
<1>4. CASE tx[s].pc # "revoke"
  BY <1>1, <1>4 DEF RevokeOK
<1>5. CASE tx[s].pc = "revoke"
  <2>1. \A a \in Approvals : tx[s].held[a] # None => active'[a] = tx[s].held[a]
    BY <1>1, <1>2, <1>5 DEF RevokeOK
  <2>2. \A u \in Users : tx'[s].owed[u] = IF u = tx'[s].from
                                          THEN SumFunctionOnSet(Takes(tx[s])', Approvals) ELSE 0
    BY <1>1, <1>2, <1>3, <1>5 DEF RevokeOK
  <2> QED
    BY <1>1, <2>1, <2>2 DEF RevokeOK, Takes
<1> QED
  BY <1>4, <1>5

\* A session goes on that is not, or no more, one that revokes.
LEMMA RevokingMove ==
  ASSUME ApprovalInv, Revoking, NEW t \in Txns, NEW x, tx' = [tx EXCEPT ![t] = x],
         x.pc # "revoke",
         \A s \in Txns \ {t}, a \in Approvals : tx[s].held[a] # None => active'[a] = active[a]
  PROVE  Revoking'
<1>1. DOMAIN tx = Txns
  BY DEF ApprovalInv
<1>2. tx'[t] = x /\ \A s \in Txns \ {t} : tx'[s] = tx[s]
  BY <1>1
<1>3. RevokeOK(tx[t])'
  BY <1>2 DEF RevokeOK
<1>4. \A s \in Txns \ {t} :
        /\ tx'[s].pc = tx[s].pc /\ tx'[s].held = tx[s].held
        /\ tx'[s].owed = tx[s].owed /\ tx'[s].from = tx[s].from
        /\ tx[s].pc = "revoke" =>
             \A a \in Approvals : tx[s].held[a] # None => active'[a] = active[a]
  BY <1>2
<1>5. \A s \in Txns \cap {t} : RevokeOK(tx[s])'
  BY <1>3
<1> QED
  BY <1>4, <1>5, RevokingKept, Zenon

\* Rows that no other session has locked are deleted.
LEMMA RevokingDeletes ==
  ASSUME ApprovalInv, Revoking, NEW t \in Txns, NEW D, tx'[t].pc # "revoke",
         \A s \in Txns \ {t} : tx'[s] = Deleted(D)[s],
         \A s \in Txns \ {t}, a \in Approvals : tx[s].held[a] # None => active'[a] = active[a]
  PROVE  Revoking'
<1>1. RevokeOK(tx[t])'
  BY DEF RevokeOK
<1>2. \A s \in Txns \ {t} : /\ tx'[s].pc = tx[s].pc /\ tx'[s].held = tx[s].held
                            /\ tx'[s].owed = tx[s].owed /\ tx'[s].from = tx[s].from
  BY DeletedKeeps
<1>3. \A s \in Txns \ {t} :
        /\ tx'[s].pc = tx[s].pc /\ tx'[s].held = tx[s].held
        /\ tx'[s].owed = tx[s].owed /\ tx'[s].from = tx[s].from
        /\ tx[s].pc = "revoke" =>
             \A a \in Approvals : tx[s].held[a] # None => active'[a] = active[a]
  BY <1>2
<1>4. \A s \in Txns \cap {t} : RevokeOK(tx[s])'
  BY <1>1
<1> QED
  BY <1>3, <1>4, RevokingKept, Zenon

\* What a session has locked is in the active table, and no other session has it locked.
LEMMA HeldRows ==
  ASSUME ApprovalInv, NEW s \in Txns, NEW a \in Approvals, tx[s].held[a] # None
  PROVE  /\ active[a] # None /\ Locked(a)
         /\ \A t \in Txns \ {s} : tx[t].held[a] = None
BY DEF ApprovalInv, SessionOK, TablesHold, Exclusive, Locked

LEMMA RevokeOKNext ==
  ASSUME NEW t \in Txns, NEW x, RevokeOK(x), tx'[t] = x, active' = active
  PROVE  RevokeOK(tx[t])'
<1>1. Takes(tx[t])' = Takes(x)
  BY DEF Takes
<1> QED
  BY <1>1 DEF RevokeOK, Takes

LEMMA RevokingReserve ==
  ASSUME ApprovalInv, Revoking, NEW d \in DataItems, ReserveBalance(d)
  PROVE  Revoking'
<1> DEFINE offered == IF PaidBy[d] = None THEN {} ELSE From(PaidBy[d], Signer[d]) \cap Rows(active)
<1>1. PICK spend \in [offered -> 0 .. Price[d]] : UseApprovals(spend)
  BY DEF ReserveBalance
<1>2. \A a \in offered : ~Locked(a)
  BY DEF ReserveBalance, From
<1> HIDE DEF offered
<1>3. \A a \in Approvals : a \notin offered => active'[a] = active[a]
  <2>1. DOMAIN spend = offered
    OBVIOUS
  <2> QED
    BY <1>1, <2>1 DEF UseApprovals
<1>4. PICK D : tx' = Deleted(D)
  BY <1>1 DEF UseApprovals
<1>5. \A s \in Txns \ {} :
        /\ tx'[s].pc = tx[s].pc /\ tx'[s].held = tx[s].held
        /\ tx'[s].owed = tx[s].owed /\ tx'[s].from = tx[s].from
        /\ tx[s].pc = "revoke" =>
             \A a \in Approvals : tx[s].held[a] # None => active'[a] = active[a]
  BY <1>2, <1>3, <1>4, HeldRows, DeletedKeeps
<1>6. \A s \in Txns \cap {} : RevokeOK(tx[s])'
  OBVIOUS
<1> QED
  BY <1>5, <1>6, RevokingKept, Zenon

LEMMA RevokingStart ==
  ASSUME ApprovalInv, Revoking, NEW t \in Txns, NEW p \in Users, NEW s \in Users,
         StartRevoke(t, p, s)
  PROVE  Revoking'
<1> DEFINE x == [Idle EXCEPT !.pc = "revoke", !.from = p, !.to = s,
                             !.rows = Only(active, From(p, s))]
<1>1. tx' = [tx EXCEPT ![t] = x] /\ active' = active
  BY DEF StartRevoke, Begin, approvals
<1>2. x.held = NoRows /\ x.owed = NoDebts
  BY DEF Idle
<1> HIDE DEF x
<1>3. tx'[t] = x /\ \A r \in Txns \ {t} : tx'[r] = tx[r]
  BY <1>1 DEF ApprovalInv
<1>4. \A a \in Approvals : Takes(x)[a] = 0 /\ x.held[a] = None
  BY <1>2 DEF Takes, NoRows
<1>5. SumFunctionOnSet(Takes(x), Approvals) = 0
  BY <1>4, FiniteTables, SumZero
<1>6. \A u \in Users : x.owed[u] = 0
  BY <1>2 DEF NoDebts
<1>7. RevokeOK(x)
  BY <1>4, <1>5, <1>6 DEF RevokeOK
<1>8. RevokeOK(tx[t])'
  BY <1>1, <1>3, <1>7, RevokeOKNext
<1>9. \A r \in Txns \ {t} :
        /\ tx'[r].pc = tx[r].pc /\ tx'[r].held = tx[r].held
        /\ tx'[r].owed = tx[r].owed /\ tx'[r].from = tx[r].from
        /\ tx[r].pc = "revoke" =>
             \A a \in Approvals : tx[r].held[a] # None => active'[a] = active[a]
  BY <1>1, <1>3
<1>10. \A r \in Txns \cap {t} : RevokeOK(tx[r])'
  BY <1>8
<1> QED
  BY <1>9, <1>10, RevokingKept, Zenon

\* A row gets locked, and its payer is owed what it has left.
LEMMA RevokingRow ==
  ASSUME ApprovalInv, Revoking, NEW t \in Txns, NEW a \in Approvals, RevokeRow(t, a)
  PROVE  Revoking'
<1> DEFINE p == tx[t].from
           winc == ApprovedWinc[a] - active[a]
           x == [tx[t] EXCEPT !.rows = Without(tx[t].rows, a),
                 !.held = With(tx[t].held, a, active[a]),
                 !.owed = Owe(t, p, winc)]
<1>1. /\ tx' = [tx EXCEPT ![t] = x] /\ active' = active
      /\ tx[t].pc = "revoke" /\ tx[t].rows[a] # None /\ ~Locked(a)
  BY DEF RevokeRow, Move, approvals
<1>2. tx[t] \in Sessions /\ SessionOK(tx[t]) /\ DOMAIN tx = Txns /\ p \in Users
  BY <1>1 DEF ApprovalInv, SessionOK, StageOK
<1>3. tx[t].held \in [Approvals -> OptionalNat] /\ tx[t].owed \in [Users -> Nat]
  BY <1>2 DEF Sessions
<1>4. active[a] # None /\ tx[t].held[a] = None
  BY <1>1, <1>2 DEF SessionOK, TablesHold, Locked
<1>5. active[a] \in 0 .. ApprovedWinc[a] - 1 /\ ApprovedWinc[a] \in Nat /\ None \notin Int
  <2>1. a \in Rows(active)
    BY <1>4 DEF Rows
  <2>2. ApprovedWinc[a] \in Nat /\ None \notin Int
    BY ApprovalAssumption
  <2> QED
    BY <2>1, <2>2 DEF ApprovalInv, NothingOverdrawn
<1>6. winc \in Nat
  BY <1>5
<1>7. /\ x.pc = "revoke" /\ x.from = p
      /\ x.held = [tx[t].held EXCEPT ![a] = active[a]]
      /\ x.owed = [tx[t].owed EXCEPT ![p] = tx[t].owed[p] + winc]
  BY <1>1, <1>2 DEF Sessions, With, Owe
<1>8. /\ \A c \in Approvals : tx[t].held[c] # None => active[c] = tx[t].held[c]
      /\ \A u \in Users : tx[t].owed[u] = IF u = p
                            THEN SumFunctionOnSet(Takes(tx[t]), Approvals) ELSE 0
  BY <1>1 DEF Revoking, RevokeOK
<1>9. \A r \in Txns \ {t} : tx'[r] = tx[r]
  BY <1>1, <1>2
<1>10. tx'[t] = x
  BY <1>1, <1>2
<1> HIDE DEF x, p
<1>11. \A c \in Approvals : x.held[c] # None => active[c] = x.held[c]
  BY <1>3, <1>7, <1>8
<1>12. /\ \A c \in Approvals : Takes(tx[t])[c] \in Int /\ Takes(x)[c] \in Int
       /\ \A c \in Approvals : c # a => Takes(x)[c] = Takes(tx[t])[c]
       /\ Takes(tx[t])[a] = 0 /\ Takes(x)[a] = winc
  <2>1. Takes(tx[t])[a] = 0
    BY <1>4 DEF Takes
  <2>2. Takes(x)[a] = winc
    BY <1>3, <1>4, <1>7 DEF Takes
  <2>3. \A c \in Approvals : c # a => Takes(x)[c] = Takes(tx[t])[c]
    BY <1>3, <1>7 DEF Takes
  <2>4. \A c \in Approvals : Takes(tx[t])[c] \in Int
    BY <1>3, ApprovalAssumption DEF Takes, OptionalNat
  <2> HIDE DEF winc
  <2> QED
    BY <1>6, <2>1, <2>2, <2>3, <2>4
<1> HIDE DEF winc
<1>13. SumFunctionOnSet(Takes(x), Approvals) = SumFunctionOnSet(Takes(tx[t]), Approvals) + winc
  <2>1. SumFunctionOnSet(Takes(x), Approvals)
          = SumFunctionOnSet(Takes(tx[t]), Approvals) + (Takes(x)[a] - Takes(tx[t])[a])
    <3> DEFINE f == Takes(tx[t])
               g == Takes(x)
    <3>1. \A c \in Approvals : f[c] \in Int /\ g[c] \in Int
      BY <1>12
    <3>2. \A c \in Approvals : c # a => g[c] = f[c]
      BY <1>12
    <3> HIDE DEF f, g
    <3>3. SumFunctionOnSet(g, Approvals) = SumFunctionOnSet(f, Approvals) + (g[a] - f[a])
      BY <3>1, <3>2, FiniteTables, SumChanged
    <3> QED
      BY <3>3 DEF f, g
  <2> QED
    BY <1>6, <1>12, <2>1
<1>14. \A u \in Users : x.owed[u] = IF u = p THEN SumFunctionOnSet(Takes(x), Approvals) ELSE 0
  BY <1>2, <1>3, <1>7, <1>8, <1>13
<1>15. RevokeOK(tx[t])'
  <2>1. RevokeOK(x)
    BY <1>7, <1>11, <1>14 DEF RevokeOK
  <2> QED
    BY <1>1, <1>10, <2>1, RevokeOKNext
<1>16. \A r \in Txns \ {t} :
        /\ tx'[r].pc = tx[r].pc /\ tx'[r].held = tx[r].held
        /\ tx'[r].owed = tx[r].owed /\ tx'[r].from = tx[r].from
        /\ tx[r].pc = "revoke" =>
             \A c \in Approvals : tx[r].held[c] # None => active'[c] = active[c]
  BY <1>1, <1>9
<1>17. \A r \in Txns \cap {t} : RevokeOK(tx[r])'
  BY <1>15
<1> QED
  BY <1>16, <1>17, RevokingKept, Zenon

LEMMA RevokingCommits ==
  ASSUME ApprovalInv, Revoking, NEW t \in Txns,
         CommitCreate(t) \/ CommitRevoke(t) \/ CommitRefund(t)
  PROVE  Revoking'
<1>1. Idle.pc # "revoke" /\ DOMAIN tx = Txns
  BY DEF Idle, ApprovalInv
<1>2. CASE CommitCreate(t)
  <2>1. /\ tx' = [tx EXCEPT ![t] = Idle] /\ active[tx[t].a] = None
        /\ active' = [active EXCEPT ![tx[t].a] = 0]
    BY <1>2 DEF CommitCreate, End, Move
  <2>2. active \in [Approvals -> OptionalNat]
    BY DEF ApprovalInv, TablesTyped
  <2>3. \A s \in Txns \ {t}, a \in Approvals : tx[s].held[a] # None => active'[a] = active[a]
    BY <2>1, <2>2, HeldRows
  <2> QED
    BY <1>1, <2>1, <2>3, RevokingMove
<1>3. CASE CommitRevoke(t)
  <2> DEFINE D == Rows(tx[t].held)
  <2>1. /\ tx' = [Deleted(D) EXCEPT ![t] = Idle]
        /\ active' = [a \in Approvals |-> IF a \in Approvals \ D THEN active[a] ELSE None]
    BY <1>3 DEF CommitRevoke, Only
  <2>2. DOMAIN Deleted(D) = Txns
    BY DEF Deleted
  <2>3. \A s \in Txns \ {t}, a \in Approvals : tx[s].held[a] # None => a \notin D
    BY HeldRows DEF Rows
  <2> HIDE DEF D
  <2>4. \A s \in Txns \ {t} : tx'[s] = Deleted(D)[s]
    BY <2>1, <2>2
  <2>5. tx'[t].pc # "revoke"
    BY <1>1, <2>1, <2>2
  <2>6. \A s \in Txns \ {t}, a \in Approvals : tx[s].held[a] # None => active'[a] = active[a]
    BY <2>1, <2>3
  <2> QED
    BY <2>4, <2>5, <2>6, RevokingDeletes
<1>4. CASE CommitRefund(t)
  <2> DEFINE restored == Rows(tx[t].restore)
  <2>1. /\ tx' = [tx EXCEPT ![t] = Idle] /\ restored \cap Rows(active) = {}
        /\ active' = [a \in Approvals |-> IF a \in restored THEN tx[t].restore[a]
                                          ELSE IF a \in Rows(tx[t].held) THEN tx[t].held[a]
                                          ELSE active[a]]
    BY <1>4 DEF CommitRefund, End, Move
  <2>2. \A s \in Txns \ {t}, a \in Approvals : tx[s].held[a] # None => active'[a] = active[a]
    <3> SUFFICES ASSUME NEW s \in Txns \ {t}, NEW a \in Approvals, tx[s].held[a] # None
                 PROVE  active'[a] = active[a]
      OBVIOUS
    <3>1. active[a] # None /\ tx[t].held[a] = None
      BY HeldRows
    <3> HIDE DEF restored
    <3> QED
      BY <2>1, <3>1 DEF Rows
  <2> QED
    BY <1>1, <2>1, <2>2, RevokingMove
<1> QED
  BY <1>2, <1>3, <1>4

LEMMA RevokingTrimDelete ==
  ASSUME ApprovalInv, Revoking, NEW t \in Txns, NEW a \in Approvals, TrimDelete(t, a)
  PROVE  Revoking'
<1>1. tx \in [Txns -> Sessions] /\ DOMAIN Deleted({a}) = Txns /\ tx[t].pc = "trim"
  BY DEF ApprovalInv, Deleted, TrimDelete
<1>2. \A s \in Txns \ {t} : tx'[s] = Deleted({a})[s]
  BY <1>1 DEF TrimDelete
<1>3. tx'[t].pc # "revoke"
  <2> DEFINE expired == Without(tx[t].expired, a)
             owed == Owe(t, PayingAddress[a], ApprovedWinc[a] - tx[t].expired[a])
  <2>1. tx'[t] = IF active[a] = None
           THEN [tx[t] EXCEPT !.expired = expired, !.owed = owed]
           ELSE [tx[t] EXCEPT !.expired = expired, !.owed = owed,
                              !.pc = "trimInsert", !.a = a, !.seen = active[a]]
    BY <1>1 DEF TrimDelete
  <2> HIDE DEF expired, owed
  <2> QED
    BY <1>1, <2>1 DEF Sessions
<1>4. \A s \in Txns \ {t}, c \in Approvals : tx[s].held[c] # None => active'[c] = active[c]
  <2>1. ~Locked(a) /\ active' = [active EXCEPT ![a] = None]
        /\ active \in [Approvals -> OptionalNat]
    BY DEF TrimDelete, ApprovalInv, TablesTyped
  <2> QED
    BY <2>1, HeldRows
<1> QED
  BY <1>2, <1>3, <1>4, RevokingDeletes

\* The other steps of a session leave the active table alone.
LEMMA RevokingQuiet ==
  ASSUME ApprovalInv, Revoking, NEW t \in Txns, Statement(t),
         ~(CommitCreate(t) \/ CommitRevoke(t) \/ CommitRefund(t)),
         ~\E a \in Approvals : TrimDelete(t, a) \/ RevokeRow(t, a),
         ~\E p, s \in Users : StartRevoke(t, p, s)
  PROVE  Revoking'
<1>1. tx[t] \in Sessions
  BY DEF ApprovalInv
<1>2. ASSUME NEW a \in Approvals, CheckConflicts(t, a) PROVE Revoking'
  <2> DEFINE x == [Idle EXCEPT !.pc = "create", !.a = a]
  <2>1. x.pc # "revoke" /\ tx' = [tx EXCEPT ![t] = x] /\ UNCHANGED active
    BY <1>2 DEF CheckConflicts, Begin, Idle, approvals
  <2> HIDE DEF x
  <2> QED
    BY <2>1, RevokingMove
<1>5. ASSUME NEW S, ListApprovals(t, S) PROVE Revoking'
  <2> DEFINE x == [Idle EXCEPT !.pc = "trim", !.expired = Only(active, S \cap lapsed \cap Rows(active))]
  <2>1. x.pc # "revoke" /\ tx' = [tx EXCEPT ![t] = x] /\ UNCHANGED active
    BY <1>5 DEF ListApprovals, Begin, Idle, approvals
  <2> HIDE DEF x
  <2> QED
    BY <2>1, RevokingMove
<1>6. ASSUME TrimInsert(t) PROVE Revoking'
  <2> DEFINE x == [tx[t] EXCEPT !.pc = "trim"]
  <2>1. x.pc # "revoke" /\ tx' = [tx EXCEPT ![t] = x] /\ UNCHANGED active
    BY <1>1, <1>6 DEF TrimInsert, Move, Sessions
  <2> HIDE DEF x
  <2> QED
    BY <2>1, RevokingMove
<1>7. ASSUME NEW p \in Users, TrimReadPayer(t, p) PROVE Revoking'
  <2> DEFINE x == [tx[t] EXCEPT !.pc = "trimWrite", !.from = p, !.seen = balance[p]]
  <2>1. x.pc # "revoke" /\ tx' = [tx EXCEPT ![t] = x] /\ UNCHANGED active
    BY <1>1, <1>7 DEF TrimReadPayer, Move, Sessions, approvals
  <2> HIDE DEF x
  <2> QED
    BY <2>1, RevokingMove
<1>8. ASSUME NEW d \in DataItems, StartRefund(t, d) PROVE Revoking'
  <2> DEFINE listed == From(PaidBy[d], Signer[d]) \cap Rows(active)
             x == [Idle EXCEPT !.pc = IF listed \cap lapsed = {} THEN "refundActive" ELSE "trim",
                     !.d = d, !.left = reservation[d].approved,
                     !.expired = Only(active, listed \cap lapsed),
                     !.rows = Only(active, listed \ lapsed)]
  <2>1. x.pc # "revoke" /\ tx' = [tx EXCEPT ![t] = x] /\ UNCHANGED active
    BY <1>8 DEF StartRefund, Begin, Idle, approvals
  <2> HIDE DEF x
  <2> QED
    BY <2>1, RevokingMove
<1>9. ASSUME NEW a \in Approvals, RefundRow(t, a) PROVE Revoking'
  <2> DEFINE winc == reservation[tx[t].d].approved
             used == tx[t].rows[a]
             x == [tx[t] EXCEPT !.rows = Without(tx[t].rows, a),
           !.left = IF used >= winc THEN 0 ELSE tx[t].left - used,
           !.held = IF active[a] = None THEN tx[t].held
                    ELSE With(tx[t].held, a, Minus(used, winc))]
  <2>1. x.pc # "revoke" /\ tx' = [tx EXCEPT ![t] = x] /\ UNCHANGED active
    BY <1>1, <1>9 DEF RefundRow, Move, Sessions, approvals
  <2> HIDE DEF x
  <2> QED
    BY <2>1, RevokingMove
<1>10. ASSUME ReadInactive(t) PROVE Revoking'
  <2> DEFINE d == tx[t].d
             x == [tx[t] EXCEPT !.pc = "refundInactive",
                    !.past = Only(inactive, From(PaidBy[d], Signer[d]))]
  <2>1. x.pc # "revoke" /\ tx' = [tx EXCEPT ![t] = x] /\ UNCHANGED active
    BY <1>1, <1>10 DEF ReadInactive, Move, Sessions, approvals
  <2> HIDE DEF x
  <2> QED
    BY <2>1, RevokingMove
<1>11. ASSUME NEW a \in Approvals, RestoreUsed(t, a) PROVE Revoking'
  <2> DEFINE used == tx[t].past[a].used
             x == [tx[t] EXCEPT !.left = tx[t].left - used,
                               !.restore = With(tx[t].restore, a, Minus(used, tx[t].left))]
  <2>1. x.pc # "revoke" /\ tx' = [tx EXCEPT ![t] = x] /\ UNCHANGED active
    BY <1>1, <1>11 DEF RestoreUsed, Visits, Move, Sessions, approvals
  <2> HIDE DEF x
  <2> QED
    BY <2>1, RevokingMove
<1>12. ASSUME NEW a \in Approvals, CreditPayer(t, a) PROVE Revoking'
  <2> DEFINE x == [tx[t] EXCEPT !.past = Without(tx[t].past, a),
                           !.owed = Owe(t, PaidBy[tx[t].d], tx[t].past[a].used)]
  <2>1. x.pc # "revoke" /\ tx' = [tx EXCEPT ![t] = x] /\ UNCHANGED active
    BY <1>1, <1>12 DEF CreditPayer, Visits, Move, Sessions, approvals
  <2> HIDE DEF x
  <2> QED
    BY <2>1, RevokingMove
<1>13. ASSUME Abort(t) PROVE Revoking'
  <2>1. Idle.pc # "revoke" /\ tx' = [tx EXCEPT ![t] = Idle] /\ UNCHANGED active
    BY <1>13 DEF Abort, End, Move, Idle, approvals
  <2> QED
    BY <2>1, RevokingMove
<1>14. ASSUME TrimWritePayer(t) PROVE Revoking'
  <2> DEFINE owed == [tx[t].owed EXCEPT ![tx[t].from] = 0]
             x == IF owed # NoDebts THEN [tx[t] EXCEPT !.pc = "trim", !.owed = owed]
                  ELSE IF tx[t].d # None THEN [tx[t] EXCEPT !.pc = "refundActive", !.owed = owed]
                  ELSE Idle
  <2>1. tx' = [tx EXCEPT ![t] = x] /\ UNCHANGED active
    BY <1>14 DEF TrimWritePayer, Move, approvals
  <2> HIDE DEF owed
  <2>2. x.pc # "revoke"
    BY <1>1 DEF Sessions, Idle
  <2> HIDE DEF x
  <2> QED
    BY <2>1, <2>2, RevokingMove
<1> QED
  BY <1>2, <1>5, <1>6, <1>7, <1>8, <1>9, <1>10, <1>11, <1>12, <1>13, <1>14 DEF Statement

LEMMA RevokingNext == ApprovalInv /\ Revoking /\ [Next]_vars => Revoking'
<1> SUFFICES ASSUME ApprovalInv, Revoking, [Next]_vars PROVE Revoking'
  OBVIOUS
<1>1. ASSUME UNCHANGED <<active, tx>> PROVE Revoking'
  <2>1. Revoking' = Revoking
    BY <1>1 DEF Revoking, RevokeOK, Takes
  <2> QED
    BY <2>1
<1>2. CASE UNCHANGED vars
  BY <1>1, <1>2 DEF vars, approvals
<1>3. ASSUME NEW a \in Approvals, Lapse(a) PROVE Revoking'
  BY <1>1, <1>3 DEF Lapse, approvals
<1>4. ASSUME NEW d \in DataItems, RefundSigner(d) PROVE Revoking'
  BY <1>1, <1>4 DEF RefundSigner, approvals
<1>5. ASSUME NEW t \in Txns, Statement(t) PROVE Revoking'
  BY <1>5, RevokingQuiet, RevokingCommits, RevokingTrimDelete, RevokingRow, RevokingStart
<1> QED
  BY <1>2, <1>3, <1>4, <1>5, RevokingReserve DEF Next

\* Creating, using and revoking approvals never make credits, whatever they
\* interleave with, and a trimming does only from a stale list or balance.
THEOREM CreditsTheorem == Spec => CreditsOnlyFromStaleTrim
<1>1. Spec => [](ApprovalInv /\ Revoking)
  <2>1. Init => ApprovalInv /\ Revoking
    BY InitOK, RevokingInit
  <2>2. (ApprovalInv /\ Revoking) /\ [Next]_vars => (ApprovalInv /\ Revoking)'
    BY NextOK, RevokingNext
  <2> QED
    BY <2>1, <2>2, PTL DEF Spec
<1>2. (ApprovalInv /\ Revoking) /\ (ApprovalInv /\ Revoking)' /\ [Next]_vars =>
        [Credits' > Credits /\ refunds' = refunds => \E t \in Txns : StaleTrim(t)]_vars
  BY StepNotMore DEF NotMore
<1> QED
  BY <1>1, <1>2, PTL DEF Spec, CreditsOnlyFromStaleTrim

=============================================================================
