------------------------------ MODULE Migrations ------------------------------
(***************************************************************************)
(* The schema migrations of the service (src/src/migrations, schema.ts,    *)
(* migration.ts, migrator.ts) run by knex against a database the service   *)
(* goes on writing to.  knex applies the migrations in order, rolls them   *)
(* back from the last one, and gives each its own transaction, so that one *)
(* that fails leaves no trace.  A backfill is two steps, what it reads and *)
(* what it writes, because READ COMMITTED lets the service write between   *)
(* the two.                                                                *)
(*                                                                         *)
(* A table is its name and the columns some migration adds to it or drops  *)
(* from it; of the rows the model keeps those a migration rewrites.        *)
(***************************************************************************)
EXTENDS Naturals, FiniteSets

CONSTANTS Uploads,   \* ids of upload charges in the audit log
          Quotes,    \* ids of top up quotes, of their receipts and audit rows
          MaxMints   \* bound: how often the infrastructure fees are inserted

ASSUME MigrationsAssumption == Uploads \cap Quotes = {} /\ MaxMints \in Nat \ {0}

VARIABLES
    version,      \* number of migrations applied
    schema,       \* [tables, columns]: what the database holds
    catalogs,     \* promo codes, and the KYVE fee, on sale
    fees,         \* ids of the Turbo Infrastructure Fee rows, one per insertion
    minted,       \* how many times those rows were inserted
    audit,        \* sign of the amount of each audit row, or "none"
    date,         \* era of each row
    reserved,     \* uploads with a row in balance_reservation
    subsidy,      \* upload_adjustment, as pairs <<upload, catalog>>
    quote,        \* "none", "open" (top_up_quote) or "paid" (payment_receipt)
    quoted,       \* quoted_payment_amount, compared with payment_amount
    adjustments,  \* payment_adjustment
    era,          \* the wall clock
    release,      \* the migration the deployed service was written for
    job,          \* the migration whose transaction has read and not yet written
    failed,       \* versions from which a migration or a rollback failed
    late,         \* history: uploads an old release wrote behind a backfill
    owed          \* history: quotes that were given the fee

tables == <<schema, catalogs, fees, minted>>
uploads == <<reserved, subsidy>>
topUps == <<quote, quoted, adjustments>>
service == <<era, release>>
history == <<failed, late, owed>>
vars == <<version, tables, audit, date, uploads, topUps, service, job, history>>

Rows == Uploads \cup Quotes
NoJob == [n |-> 0, seen |-> {}, receipts |-> {}]

-----------------------------------------------------------------------------
(* The changes of schema, one record per migration.                          *)

Change(creates, drops, adds, removes) ==
    [creates |-> creates, drops |-> drops, adds |-> adds, removes |-> removes]

Nothing == Change({}, {}, {}, {})

TopUpTables ==
    {"top_up_quote", "failed_top_up_quote", "payment_receipt", "chargeback_receipt"}

Initial == LET created == TopUpTables \cup {"user"}
           IN  [up |-> Change(created, {}, {}, {}), down |-> Change({}, created, {}, {})]

AuditLog == [up |-> Change({"audit_log"}, {}, {}, {}),
             down |-> Change({}, {"audit_log"}, {}, {})]

RowsOnly == [up |-> Nothing, down |-> Nothing]

OperatorColumns ==
    {"upload_adjustment"} \X {"operator", "operator_magnitude",
                              "adjustment_name", "adjustment_description"}

BalanceReservation ==
    LET created == {"balance_reservation", "upload_adjustment"}
    IN  [up |-> Change(created, {}, OperatorColumns, {}),
         down |-> Change({}, created, {}, {})]

AdjustmentTables ==
    {"payment_adjustment", "payment_adjustment_catalog", "upload_adjustment_catalog",
     "single_use_code_payment_adjustment_catalog"}

PromoCode ==
    LET added == (TopUpTables \X {"quoted_payment_amount"})
                    \cup ({"upload_adjustment"} \X {"user_address", "catalog_id"})
    IN  [up |-> Change(AdjustmentTables, {}, added, OperatorColumns),
         down |-> Change({}, AdjustmentTables, OperatorColumns, added)]

CodeColumns(columns) ==
    LET added == {"single_use_code_payment_adjustment_catalog"} \X columns
    IN  [up |-> Change({}, {}, added, {}), down |-> Change({}, {}, {}, added)]

TargetedPromoCodes == CodeColumns({"target_user_group"})
PilotReferral == CodeColumns({"max_uses", "minimum_payment_amount"})
MaxDiscount == CodeColumns({"maximum_discount_amount"})

GiftByEmailLeft ==
    LET created == {"unredeemed_gift", "redeemed_gift"}
        added == TopUpTables \X {"gift_message"}
    IN  [up |-> Change(created, {}, added, {}),
         down |-> Change({}, created, {}, added \ {<<"chargeback_receipt", "gift_message">>})]

GiftByEmail ==
    LET created == {"unredeemed_gift", "redeemed_gift"}
        added == TopUpTables \X {"gift_message"}
    IN  [up |-> Change(created, {}, added, {}), down |-> Change({}, created, {}, added)]

\* Adds its columns to one table and takes them from another.
LimitedSubsidyEvent ==
    LET columns == {"byte_count_threshold", "winc_limitation",
                    "limitation_interval", "limitation_interval_unit"}
    IN  [up |-> Change({}, {}, {"upload_adjustment_catalog"} \X columns, {}),
         down |-> Change({}, {}, {},
                         {"single_use_code_payment_adjustment_catalog"} \X columns)]

ArPayment ==
    LET created == {"pending_payment_transaction", "failed_payment_transaction",
                    "credited_payment_transaction"}
    IN  [up |-> Change(created, {}, {}, {}), down |-> Change({}, created, {}, {})]

DelegatedPayments ==
    LET created == {"delegated_payment_approval", "inactive_delegated_payment_approval"}
        added == {<<"balance_reservation", "overflow_spend">>}
    IN  [up |-> Change(created, {}, added, {}), down |-> Change({}, created, {}, added)]

ArNSTables == {"arns_purchase_receipt", "failed_arns_purchase"}

ArNSPurchase == [up |-> Change(ArNSTables, {}, {}, {}),
                 down |-> Change({}, ArNSTables, {}, {})]

ArNSPurchaseQuote ==
    LET created == {"arns_purchase_quote"}
        added == ArNSTables \X {"quote_creation_date", "quote_expiration_date",
                                "payment_provider", "payment_amount",
                                "quoted_payment_amount", "currency_type", "excess_winc"}
    IN  [up |-> Change(created, {}, added, {}), down |-> Change({}, created, {}, added)]

StoreMessageId ==
    LET added == ArNSTables \X {"message_id"}
    IN  [up |-> Change({}, {}, added, {}), down |-> Change({}, {}, {}, added)]

DelegatedArNSPurchases ==
    LET added == ArNSTables \X {"paid_by", "overflow_spend"}
    IN  [up |-> Change({}, {}, added, {}), down |-> Change({}, {}, {}, added)]

\* In the order of the file names.
Migrations ==
    << Initial, AuditLog, RowsOnly, BalanceReservation, PromoCode, RowsOnly, RowsOnly,
       TargetedPromoCodes, RowsOnly, PilotReferral, MaxDiscount, GiftByEmail,
       LimitedSubsidyEvent, ArPayment, DelegatedPayments, ArNSPurchase,
       ArNSPurchaseQuote, StoreMessageId, DelegatedArNSPurchases, RowsOnly >>

Latest == 20
Empty == [tables |-> {}, columns |-> {}]

\* PostgreSQL refuses to create what is there and to drop or alter what is not.
Possible(s, c) ==
    /\ c.creates \cap s.tables = {} /\ c.drops \subseteq s.tables
    /\ \A column \in c.adds : column \notin s.columns /\ column[1] \in s.tables \cup c.creates
    /\ c.removes \subseteq s.columns

Changed(s, c) ==
    [tables |-> (s.tables \ c.drops) \cup c.creates,
     columns |-> {column \in s.columns \ c.removes : column[1] \notin c.drops} \cup c.adds]

-----------------------------------------------------------------------------
(* Dates.  An era ends where the code's own constants, or the dates of the  *)
(* subsidies, tell rows apart: 13 July (first fee rise), 18 July (subsidy), *)
(* 15 August, 23 August (second fee rise), 15 September, 15 October.         *)

Eras == 1 .. 7

\* The era in which migration n was written: it cannot run earlier.
Written(n) == IF n = 1 THEN 1 ELSE IF n < 4 THEN 2 ELSE IF n = 4 THEN 3
              ELSE IF n = 5 THEN 4 ELSE IF n = 6 THEN 5 ELSE IF n < 11 THEN 6 ELSE 7

\* The subsidy in force, as the service applies it.
SubsidyOf(e) == IF e < 4 THEN "jul-aug" ELSE IF e < 6 THEN "aug-sep"
                ELSE IF e = 6 THEN "sep-oct" ELSE "oct-nov"

\* The subsidy the backfill chooses: it knows three of them.
BackfilledSubsidy(e) ==
    IF e < 4 THEN "jul-aug" ELSE IF e < 6 THEN "aug-sep" ELSE "sep-oct"

\* The fee the backfill chooses: its second test repeats the first.
BackfilledFee(e) == IF e < 2 THEN "0.8" ELSE IF e < 2 THEN "0.77" ELSE "0.766"

Releases == {0, 1, 2, 3, 4, 5, 7}
ReleaseOf(v) == CHOOSE r \in Releases : r <= v /\ \A s \in Releases : s <= v => s <= r

\* A row of payment_adjustment; by tells the service's rows from the backfill's.
Fee(q, pct, id, index, by) ==
    [quote |-> q, pct |-> pct, id |-> id, index |-> index, by |-> by]
FeesOf(q) == {a \in adjustments : a.quote = q /\ a.pct # "promo"}
InForce(a) == a.pct = "promo" \/ a.id \in fees

-----------------------------------------------------------------------------
(* Migrations without a backfill.                                           *)

Init ==
    /\ version = 0 /\ schema = Empty /\ catalogs = {} /\ fees = {} /\ minted = 0
    /\ audit = [r \in Rows |-> "none"] /\ date = [r \in Rows |-> 0]
    /\ reserved = {} /\ subsidy = {}
    /\ quote = [q \in Quotes |-> "none"] /\ quoted = [q \in Quotes |-> "none"]
    /\ adjustments = {}
    /\ era = 1 /\ release = 0 /\ job = NoJob
    /\ failed = {} /\ late = {} /\ owed = {}

Backfills == {3, 4, 6, 9}

Moves(c, v) == /\ Possible(schema, c) /\ schema' = Changed(schema, c) /\ version' = v
               /\ UNCHANGED <<date, service, failed, late>>

\* The next migration may start: its file exists and knex's lock is free.
IsNext(n) == n = version + 1 /\ n <= Latest /\ job = NoJob /\ era >= Written(n)

\* What migration n puts on sale.
Offered(n) == CASE n = 5 -> {"TOKEN2049"} [] n = 8 -> {"YOUTUBE"} [] n = 11 -> {"PILOT50"}
                [] n = 20 -> {"KYVE-fee"} [] OTHER -> {}

Up(n) ==
    /\ IsNext(n) /\ n \notin Backfills \cup {5, 7}
    /\ Moves(Migrations[n].up, n)
    /\ catalogs' = Offered(n) \cup (IF n = 8 THEN (catalogs \ {"TOKEN2049"}) \cup {"TOKEN2049-expired"}
                                    ELSE catalogs)
    /\ UNCHANGED <<fees, minted, audit, uploads, topUps, job, owed>>

\* Rows already there take the default of a column that is added.
UpPromoCode ==
    /\ IsNext(5) /\ Moves(PromoCode.up, 5)
    /\ catalogs' = catalogs \cup Offered(5)
    /\ subsidy' = {<<a[1], "pre-promo-code">> : a \in subsidy}
    /\ quoted' = [q \in Quotes |-> IF quote[q] = "none" THEN "none" ELSE "0"]
    /\ UNCHANGED <<fees, minted, audit, reserved, quote, adjustments, job, owed>>

\* The three rows of the fee get ids of their own each time they are inserted.
UpTurboInfraFee ==
    /\ IsNext(7) /\ minted < MaxMints
    /\ version' = 7 /\ minted' = minted + 1 /\ fees' = fees \cup {minted + 1}
    /\ UNCHANGED <<schema, catalogs, audit, date, uploads, topUps, service, job, history>>

-----------------------------------------------------------------------------
(* Backfills: what the transaction reads, then what it writes.              *)

UnchargedAll == {q \in Quotes : quote[q] = "paid"}

Uncharged == {q \in Quotes : /\ quote[q] = "paid"
                             /\ ~\E a \in FeesOf(q) : a.pct = "0.766" /\ a.id \in fees}

SelectedUnsigned(n) == IF n = 3 THEN {u \in Uploads : audit[u] # "none"}
                       ELSE IF n = 4 THEN {u \in Uploads : audit[u] # "none" /\ date[u] >= 3}
                       ELSE IF n = 6 THEN {q \in Quotes : quoted[q] = "0"} ELSE Uncharged

\* What each backfill selects: positive charges, uploads since the subsidy,
\* rows with the default amount, receipts without the fee.
Selected(n) == CASE n = 3 -> {u \in Uploads : audit[u] = "+"}
                 [] n = 4 -> {u \in Uploads : audit[u] # "none" /\ date[u] >= 3}
                 [] n = 6 -> {q \in Quotes : quoted[q] = "0"}
                 [] OTHER -> Uncharged

Read(n) ==
    /\ IsNext(n) /\ n \in Backfills
    /\ n = 9 => fees # {}
    /\ job' = [n |-> n, seen |-> Selected(n), receipts |-> {q \in Quotes : quote[q] = "paid"}]
    /\ UNCHANGED <<version, tables, audit, date, uploads, topUps, service, history>>

\* An error in mid-transaction: nothing of the migration remains.
Abort == /\ job # NoJob /\ job' = NoJob
         /\ UNCHANGED <<version, tables, audit, date, uploads, topUps, service, history>>

Writes(n) == /\ job.n = n /\ job' = NoJob /\ version' = n
             /\ UNCHANGED <<catalogs, fees, minted, date, service, failed, late>>

FlipSigns ==
    /\ Writes(3)
    /\ audit' = [r \in Rows |-> IF r \in job.seen
                                THEN IF audit[r] = "+" THEN "-" ELSE "--"
                                ELSE audit[r]]
    /\ UNCHANGED <<schema, uploads, topUps, owed>>

\* One reservation and one adjustment for every audit row that was read.
BackfillReservations ==
    /\ Writes(4) /\ Possible(schema, BalanceReservation.up)
    /\ schema' = Changed(schema, BalanceReservation.up)
    /\ reserved' = job.seen /\ subsidy' = job.seen \X {"operator"}
    /\ UNCHANGED <<audit, topUps, owed>>

\* Adjustments older than the catalogs are deleted and inserted again with the
\* catalog of their date; default amounts are replaced; the defaults go.
BackfillPromoCode ==
    /\ Writes(6)
    /\ subsidy' = {a \in subsidy : a[2] # "pre-promo-code"}
                     \cup {<<a[1], BackfilledSubsidy(date[a[1]])>> :
                             a \in {b \in subsidy : b[2] = "pre-promo-code"}}
    /\ quoted' = [q \in Quotes |-> IF q \in job.seen THEN "same" ELSE quoted[q]]
    /\ UNCHANGED <<schema, audit, reserved, quote, adjustments, owed>>

FeeIndexFromOne(q) == IF quoted[q] = "same" THEN 1 ELSE 2

\* The fee follows the adjustment of a promo code, if the amounts show one.
FeeIndex(q) == IF quoted[q] = "same" THEN 0 ELSE 1

BackfillInfraFee ==
    /\ Writes(9)
    /\ adjustments' = adjustments \cup
          {Fee(q, BackfilledFee(date[q]), CHOOSE id \in fees : TRUE, FeeIndex(q), "backfill") :
              q \in job.seen}
    /\ owed' = owed \cup job.receipts
    /\ UNCHANGED <<schema, audit, uploads, quote, quoted>>

-----------------------------------------------------------------------------
(* Rollbacks.                                                               *)

\* The rollback of the backfill deletes the fees the service recorded as well.
WithoutFees == {a \in adjustments : a.pct = "promo" \/ a.id \notin fees}

\* A dropped table takes its rows with it.
Dropped(n) ==
    /\ audit' = CASE n = 2 -> [r \in Rows |-> "none"]
                  [] n = 3 -> [r \in Rows |-> IF r \in Uploads /\ audit[r] # "none"
                                              THEN "+" ELSE audit[r]]
                  [] OTHER -> audit
    /\ reserved' = IF n = 4 THEN {} ELSE reserved
    /\ subsidy' = CASE n = 4 -> {}
                    [] n = 5 -> {<<a[1], "operator">> : a \in subsidy}
                    [] OTHER -> subsidy
    /\ quote' = IF n = 1 THEN [q \in Quotes |-> "none"] ELSE quote
    /\ quoted' = IF n \in {1, 5} THEN [q \in Quotes |-> "none"] ELSE quoted
    /\ adjustments' = CASE n = 5 -> {}
                        [] n = 9 -> WithoutFees
                        [] OTHER -> adjustments
    /\ owed' = IF n \in {5, 7, 9} THEN {} ELSE owed

Withdrawn(n) == CASE n = 5 -> {"TOKEN2049", "TOKEN2049-expired"}
                  [] n = 8 -> {"YOUTUBE"} [] n = 11 -> {"PILOT50"} [] n = 20 -> {"KYVE-fee"}
                  [] OTHER -> {}

Down ==
    /\ version > 0 /\ job = NoJob
    /\ Moves(Migrations[version].down, version - 1) /\ Dropped(version)
    /\ catalogs' = catalogs \ Withdrawn(version)
    /\ fees' = IF version = 7 THEN {} ELSE fees
    /\ UNCHANGED <<minted, job>>

\* Statements PostgreSQL refuses, in the next migration or in the rollback of
\* the last one: the transaction is undone and the command ends there.
Refused ==
    /\ job = NoJob
    /\ \E c \in {Migrations[n].up : n \in {m \in 1 .. Latest : IsNext(m)}}
                  \cup {Migrations[n].down : n \in {version} \cap (1 .. Latest)} :
          ~Possible(schema, c)
    /\ failed' = failed \cup {version}
    /\ UNCHANGED <<version, tables, audit, date, uploads, topUps, service, job, late, owed>>

-----------------------------------------------------------------------------
(* The service, as the releases of the time wrote to these tables.          *)

Tick == /\ era < 7 /\ era' = era + 1
        /\ UNCHANGED <<version, tables, audit, date, uploads, topUps, release, job, history>>

Deploy == /\ release # ReleaseOf(version) /\ release' = ReleaseOf(version)
          /\ UNCHANGED <<version, tables, audit, date, uploads, topUps, era, job, history>>

\* An older release knows nothing of the tables and signs of a newer one; a
\* column it writes that is gone, or a NOT NULL it leaves out, is an error.
Upload(u) ==
    /\ audit[u] = "none" /\ date[u] = 0 /\ release >= 2 /\ version >= 2
    /\ release = 4 => version = 4
    /\ release >= 5 => version >= 5
    /\ audit' = [audit EXCEPT ![u] = IF release < 3 THEN "+" ELSE "-"]
    /\ date' = [date EXCEPT ![u] = era]
    /\ reserved' = IF release < 4 THEN reserved ELSE reserved \cup {u}
    /\ subsidy' = CASE release < 4 -> subsidy
                    [] release = 4 -> subsidy \cup {<<u, "operator">>}
                    [] OTHER -> subsidy \cup {<<u, SubsidyOf(era)>>}
    /\ late' = IF \E n \in {3, 4} : release < n /\ (version >= n \/ job.n = n)
               THEN late \cup {u} ELSE late
    /\ UNCHANGED <<version, tables, topUps, service, job, failed, owed>>

\* Code and database agree on quoted_payment_amount; before the backfill takes
\* its default away an older release may leave the column out.
Fits == IF release < 5 THEN version <= 5 ELSE version >= 5

CreateQuote(q) ==
    /\ quote[q] = "none" /\ date[q] = 0 /\ release >= 1 /\ version >= 1 /\ Fits
    /\ quote' = [quote EXCEPT ![q] = "open"] /\ date' = [date EXCEPT ![q] = era]
    /\ \E promo \in BOOLEAN :
          LET charged == release >= 7 /\ fees # {}
          IN  /\ promo => release >= 5 /\ catalogs \cap {"TOKEN2049", "YOUTUBE", "PILOT50"} # {}
              /\ quoted' = [quoted EXCEPT ![q] = IF promo THEN "higher"
                                                 ELSE IF release >= 5 THEN "same"
                                                 ELSE IF version = 5 THEN "0" ELSE "none"]
              /\ adjustments' = adjustments
                   \cup (IF promo THEN {Fee(q, "promo", 0, 0, "quote")} ELSE {})
                   \cup (IF charged THEN {Fee(q, "0.766", CHOOSE id \in fees : TRUE,
                                              IF promo THEN 1 ELSE 0, "quote")} ELSE {})
              /\ owed' = IF charged THEN owed \cup {q} ELSE owed
    /\ UNCHANGED <<version, tables, audit, uploads, service, job, failed, late>>

\* The receipt repeats the quote's row, which the backfill may hold locked.
Pay(q) ==
    /\ quote[q] = "open" /\ Fits /\ ~(job.n = 6 /\ q \in job.seen)
    /\ release >= 2 => version >= 2
    /\ quote' = [quote EXCEPT ![q] = "paid"]
    /\ quoted' = [quoted EXCEPT ![q] = IF release < 5 /\ version = 5 THEN "0" ELSE @]
    /\ audit' = [audit EXCEPT ![q] = IF release >= 2 THEN "+" ELSE @]
    /\ UNCHANGED <<version, tables, date, uploads, adjustments, service, job, history>>

Next ==
    \/ \E n \in 1 .. Latest : Up(n) \/ Read(n)
    \/ UpPromoCode \/ UpTurboInfraFee \/ Abort
    \/ FlipSigns \/ BackfillReservations \/ BackfillPromoCode \/ BackfillInfraFee
    \/ Down \/ Refused \/ Tick \/ Deploy
    \/ \E u \in Uploads : Upload(u)
    \/ \E q \in Quotes : CreateQuote(q) \/ Pay(q)

Spec == Init /\ [][Next]_vars

-----------------------------------------------------------------------------
(* What the migrations preserve.                                            *)

Signs == {"none", "+", "-", "--"}

TypeOK ==
    /\ version \in 0 .. Latest /\ minted \in 0 .. MaxMints /\ fees \subseteq 1 .. MaxMints
    /\ audit \in [Rows -> Signs] /\ date \in [Rows -> {0} \cup Eras]
    /\ reserved \subseteq Uploads /\ late \subseteq Uploads
    /\ \A a \in subsidy : a[1] \in Uploads
    /\ quote \in [Quotes -> {"none", "open", "paid"}]
    /\ quoted \in [Quotes -> {"none", "0", "same", "higher"}]
    /\ \A a \in adjustments : a.quote \in Quotes /\ a.id \in 0 .. MaxMints /\ a.index \in {0, 1}
    /\ era \in Eras /\ release \in Releases /\ owed \subseteq Quotes
    /\ job.n \in {0} \cup Backfills /\ failed \subseteq 0 .. Latest

Provided[v \in 0 .. Latest] ==
    IF v = 0 THEN Empty ELSE Changed(Provided[v - 1], Migrations[v].up)

\* Whatever migrations and rollbacks led to a version, its tables, columns and
\* catalogs are those of a database migrated straight to it, each catalog there
\* once, and nothing but the rollback of migration 13 is ever refused.
VersionIsPath ==
    LET token == {"TOKEN2049", "TOKEN2049-expired"}
    IN  /\ schema = Provided[version] /\ failed \subseteq {13}
        /\ Cardinality(fees) = IF version >= 7 THEN 1 ELSE 0
        /\ Cardinality(catalogs \cap token) = IF version >= 5 THEN 1 ELSE 0
        /\ version >= 8 => "TOKEN2049" \notin catalogs
        /\ catalogs \ token = (IF version >= 8 THEN {"YOUTUBE"} ELSE {})
                                 \cup (IF version >= 11 THEN {"PILOT50"} ELSE {})
                                 \cup (IF version >= 20 THEN {"KYVE-fee"} ELSE {})

\* Every upload charge of the log keeps one minus sign however often the signs are
\* flipped and flipped back, payments none; every charge since the subsidy has its
\* reservation and exactly one adjustment, under the subsidy of its own date.  What
\* a release older than the migration writes behind its read is left out, and an
\* upload after 15 October that a backfill handles gets the last subsidy it knows.
UploadsCarried ==
    /\ \A q \in Quotes : audit[q] \in {"none", "+"}
    /\ \A u \in Uploads :
        LET given == {a[2] : a \in {b \in subsidy : b[1] = u}}
        IN  audit[u] # "none" =>
              /\ audit[u] # "--"
              /\ version >= 3 /\ u \notin late => audit[u] = "-"
              /\ version >= 4 /\ u \notin late /\ date[u] >= 3 =>
                    u \in reserved /\ Cardinality(given) = 1
              /\ version >= 6 => \A c \in given : \/ c = SubsidyOf(date[u])
                                                  \/ c = "sep-oct" /\ date[u] = 7

\* A quote carries at most one infrastructure fee that is on sale, at an index no
\* other adjustment of it has; after the backfill, every receipt the backfill read
\* and every quote made with the fee carries it.
ChargedOnce ==
    \A q \in Quotes :
        LET inForce == {a \in adjustments : a.quote = q /\ InForce(a)}
            charged == {a \in inForce : a.pct # "promo"}
        IN  /\ Cardinality(charged) <= 1
            /\ Cardinality({a.index : a \in inForce}) = Cardinality(inForce)
            /\ version >= 9 /\ q \in owed => charged # {}

\* README.md:57, "rolls back all migrations": no rollback is refused.
RollbackUndoes == failed = {}

\* migration.ts:349, "Applied From Jul 13 - Aug 23": the fee of a receipt quoted
\* in that time is the 23% one.
FeeOfItsTime ==
    \A a \in adjustments : a.pct # "promo" /\ date[a.quote] \in 2 .. 4 => a.pct = "0.77"

=============================================================================
