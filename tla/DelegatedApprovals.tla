------------------------- MODULE DelegatedApprovals -------------------------
(***************************************************************************)
(* Delegated payment approvals (src/src/database/postgres.ts): a payer     *)
(* sets credits aside for a signer, the signer's uploads use them, and     *)
(* what is left goes back to the payer when the approval is revoked or     *)
(* expires. Refunds of uploads give used credits back to the approvals.    *)
(*                                                                         *)
(* Statements interleave under READ COMMITTED as in TopUpLedger: a step is *)
(* one unlocked read, one statement that waits for a row, or a commit. The *)
(* trimming of expired approvals runs on the bare connection, outside any  *)
(* transaction, so each of its statements commits by itself. A list read   *)
(* from the reader database is one read earlier: it needs no state here.   *)
(***************************************************************************)
EXTENDS Integers, FiniteSetsExt, Functions

CONSTANTS
  Approvals,       \* approval_data_item_id
  Users,           \* user_address
  PayingAddress,   \* paying_address of each approval
  ApprovedAddress, \* approved_address of each approval
  ApprovedWinc,    \* approved_winc_amount of each approval
  Expiring,        \* the approvals that have an expiration_date
  DataItems,       \* data_item_id of reservations
  Signer,          \* who signs each data item
  PaidBy,          \* the address its paid-by header names, or None
  ListOnly,        \* the data items whose payment directive is "list-only"
  Price,           \* winc reserved for each data item
  Funds,           \* what each user starts with
  Txns,            \* database sessions at once
  None,            \* no row, no address
  MaxCreates,      \* bound: create requests per approval
  MaxRefunds       \* bound: refund requests per data item

InactiveRows == [reason : {"used", "expired", "revoked"}, used : Nat]

ASSUME ApprovalAssumption ==
  /\ PayingAddress \in [Approvals -> Users] /\ ApprovedAddress \in [Approvals -> Users]
  /\ ApprovedWinc \in [Approvals -> Nat \ {0}]
  /\ Expiring \subseteq Approvals
  /\ Signer \in [DataItems -> Users] /\ PaidBy \in [DataItems -> Users \cup {None}]
  /\ \A d \in DataItems : PaidBy[d] # Signer[d]
  /\ Price \in [DataItems -> Nat \ {0}]
  /\ Funds \in [Users -> Nat]
  /\ None \notin Users \cup Approvals \cup DataItems
  /\ None \notin Int /\ None \notin InactiveRows
  /\ IsFiniteSet(Approvals) /\ IsFiniteSet(Users) /\ IsFiniteSet(Txns)
  /\ MaxCreates \in Nat /\ MaxRefunds \in Nat

VARIABLES
  active,        \* delegated_payment_approval: used_winc_amount of each row
  inactive,      \* inactive_delegated_payment_approval: its reason and used amount
  lapsed,        \* approvals past their expiration_date
  balance,       \* user.winston_credit_balance
  reservation,   \* balance_reservation: what approvals and the signer paid
  refunds,       \* refund requests served for a data item
  creates,       \* create requests made for an approval
  tx             \* sessions in progress

approvals == <<active, inactive>>
uploads == <<reservation, refunds>>
vars == <<approvals, lapsed, balance, uploads, creates, tx>>

NoRows == [a \in Approvals |-> None]
NoDebts == [u \in Users |-> 0]

Idle == [ pc |-> "idle", a |-> None, d |-> None, from |-> None, to |-> None,
          rows |-> NoRows,      \* active rows listed and yet to be visited: used amounts
          past |-> NoRows,      \* inactive rows listed and yet to be visited
          expired |-> NoRows,   \* expired ones among them, yet to be trimmed
          held |-> NoRows,      \* rows locked until the end, with their new used amount
          restore |-> NoRows,   \* used approvals that go back to the active table
          owed |-> NoDebts,     \* winc to add to balances
          left |-> 0,           \* winc of the refund still to give to approvals
          seen |-> 0 ]          \* what the trimming read: a used amount, a balance

PCs == {"idle", "create", "trim", "trimInsert", "trimWrite",
        "revoke", "refundActive", "refundInactive"}

Init ==
  /\ active = NoRows /\ inactive = NoRows
  /\ lapsed = {}
  /\ balance = Funds
  /\ reservation = [d \in DataItems |-> None]
  /\ refunds = [d \in DataItems |-> 0]
  /\ creates = [a \in Approvals |-> 0]
  /\ tx = [t \in Txns |-> Idle]

-----------------------------------------------------------------------------
Rows(f) == {a \in Approvals : f[a] # None}
Only(f, S) == [a \in Approvals |-> IF a \in S THEN f[a] ELSE None]
From(p, s) == {a \in Approvals : PayingAddress[a] = p /\ ApprovedAddress[a] = s}
Involving(u) == {a \in Approvals : u \in {PayingAddress[a], ApprovedAddress[a]}}

With(f, a, value) == [f EXCEPT ![a] = value]
Without(f, a) == With(f, a, None)

Locked(a) == \E t \in Txns : tx[t].held[a] # None

Begin(t, session) == tx[t].pc = "idle" /\ tx' = [tx EXCEPT ![t] = session]
Move(t, session) == tx' = [tx EXCEPT ![t] = session]
End(t) == Move(t, Idle)

\* A row deleted for good is skipped by a DELETE that had it in its snapshot, even
\* when its id has been inserted again meanwhile.
Deleted(S) == [t \in Txns |-> IF tx[t].pc # "revoke" THEN tx[t]
                              ELSE [tx[t] EXCEPT !.rows = Only(tx[t].rows, Approvals \ S)]]

Minus(used, winc) == IF used >= winc THEN used - winc ELSE 0
Owe(t, u, winc) == [tx[t].owed EXCEPT ![u] = @ + winc]
PayOwed(t) == [u \in Users |-> balance[u] + tx[t].owed[u]]

-----------------------------------------------------------------------------
(* createDelegatedPaymentApproval: the id is looked up without a lock, the *)
(* payer's row is locked from its balance check to the COMMIT              *)

CheckConflicts(t, a) ==
  /\ active[a] = None /\ inactive[a] = None
  /\ creates[a] < MaxCreates
  /\ creates' = [creates EXCEPT ![a] = @ + 1]
  /\ Begin(t, [Idle EXCEPT !.pc = "create", !.a = a])
  /\ UNCHANGED <<approvals, lapsed, balance, uploads>>

CreateUnchecked(t) ==
  /\ tx[t].pc = "create"
  /\ active[tx[t].a] = None
  /\ active' = [active EXCEPT ![tx[t].a] = 0]
  /\ balance' = [balance EXCEPT ![PayingAddress[tx[t].a]] = @ - ApprovedWinc[tx[t].a]]
  /\ lapsed' = lapsed \ {tx[t].a}
  /\ End(t)
  /\ UNCHANGED <<inactive, uploads, creates>>

\* A second row of the same id violates the primary key: of this table only.
CommitCreate(t) ==
  /\ tx[t].pc = "create"
  /\ active[tx[t].a] = None
  /\ balance[PayingAddress[tx[t].a]] >= ApprovedWinc[tx[t].a]
  /\ active' = [active EXCEPT ![tx[t].a] = 0]
  /\ balance' = [balance EXCEPT ![PayingAddress[tx[t].a]] = @ - ApprovedWinc[tx[t].a]]
  /\ lapsed' = lapsed \ {tx[t].a}
  /\ End(t)
  /\ UNCHANGED <<inactive, uploads, creates>>

Lapse(a) ==
  /\ a \in Expiring \ lapsed /\ active[a] # None
  /\ lapsed' = lapsed \cup {a}
  /\ UNCHANGED <<approvals, balance, uploads, creates, tx>>

-----------------------------------------------------------------------------
(* revokeDelegatedPaymentApprovals: DELETE visits the rows of its snapshot *)
(* one by one and skips those that are gone when it has their lock         *)

StartRevoke(t, p, s) ==
  /\ Begin(t, [Idle EXCEPT !.pc = "revoke", !.from = p, !.to = s,
                           !.rows = Only(active, From(p, s))])
  /\ UNCHANGED <<approvals, lapsed, balance, uploads, creates>>

RevokeRowAsListed(t, a) ==
  /\ tx[t].pc = "revoke" /\ tx[t].rows[a] # None
  /\ ~Locked(a)
  /\ Move(t, [tx[t] EXCEPT !.rows = Without(tx[t].rows, a), !.held = With(tx[t].held, a, active[a]),
               !.owed = Owe(t, tx[t].from, ApprovedWinc[a] - tx[t].rows[a])])
  /\ UNCHANGED <<approvals, lapsed, balance, uploads, creates>>

RevokeRow(t, a) ==
  /\ tx[t].pc = "revoke" /\ tx[t].rows[a] # None
  /\ ~Locked(a)
  /\ Move(t, [tx[t] EXCEPT !.rows = Without(tx[t].rows, a), !.held = With(tx[t].held, a, active[a]),
               !.owed = Owe(t, tx[t].from, ApprovedWinc[a] - active[a])])
  /\ UNCHANGED <<approvals, lapsed, balance, uploads, creates>>

\* The deleted rows become revoked, the payer gets what they had left, and the
\* used approvals of this pair are marked revoked as well.
CommitRevoke(t) ==
  LET deleted == Rows(tx[t].held)
      used == {a \in From(tx[t].from, tx[t].to) :
                 inactive[a] # None /\ inactive[a].reason = "used"}
  IN  /\ tx[t].pc = "revoke" /\ Rows(tx[t].rows) = {}
      /\ deleted \cup used # {}
      /\ deleted \cap Rows(inactive) = {}
      /\ active' = Only(active, Approvals \ deleted)
      /\ inactive' = [a \in Approvals |->
           CASE a \in deleted -> [reason |-> "revoked", used |-> tx[t].held[a]]
             [] a \in used -> [reason |-> "revoked", used |-> inactive[a].used]
             [] OTHER -> inactive[a]]
      /\ balance' = PayOwed(t)
      /\ tx' = [Deleted(deleted) EXCEPT ![t] = Idle]
      /\ UNCHANGED <<lapsed, uploads, creates>>

-----------------------------------------------------------------------------
(* reserveBalance with useBalanceAndApprovals: every row it reads is       *)
(* locked first, so it is one step. The approvals are used in no stated    *)
(* order, all but one in full, and expiration dates are not looked at. The *)
(* paid-by list has one address here, and the signer pays the remainder.   *)

Remaining == [a \in Approvals |-> IF active[a] = None THEN 0 ELSE ApprovedWinc[a] - active[a]]

DropUsed(spend) ==
  /\ active' = [a \in Approvals |-> IF a \notin DOMAIN spend THEN active[a]
                                    ELSE IF spend[a] = Remaining[a] THEN None
                                    ELSE active[a] + spend[a]]
  /\ UNCHANGED <<inactive, tx>>

CopyUsed(spend) ==
  LET usedUp == {a \in DOMAIN spend : spend[a] = Remaining[a]}
  IN  /\ active' = [a \in Approvals |-> IF a \in DOMAIN spend \ usedUp
                                        THEN active[a] + spend[a] ELSE active[a]]
      /\ inactive' = [a \in Approvals |->
           IF a \in usedUp THEN [reason |-> "used", used |-> ApprovedWinc[a]] ELSE inactive[a]]
      /\ UNCHANGED tx

\* An approval used in full moves to the inactive table.
UseApprovals(spend) ==
  LET usedUp == {a \in DOMAIN spend : spend[a] = Remaining[a]}
  IN  /\ usedUp \cap Rows(inactive) = {}
      /\ active' = [a \in Approvals |-> IF a \notin DOMAIN spend THEN active[a]
                                        ELSE IF a \in usedUp THEN None
                                        ELSE active[a] + spend[a]]
      /\ inactive' = [a \in Approvals |->
           IF a \in usedUp THEN [reason |-> "used", used |-> ApprovedWinc[a]] ELSE inactive[a]]
      /\ tx' = Deleted(usedUp)

ReserveBalance(d) ==
  LET s == Signer[d]
      offered == IF PaidBy[d] = None THEN {} ELSE From(PaidBy[d], s) \cap Rows(active)
  IN  /\ reservation[d] = None
      /\ PaidBy[d] # None => \A a \in Rows(active) : ApprovedAddress[a] = s => ~Locked(a)
      /\ \E approved \in 0 .. Price[d] :
           LET own == Price[d] - approved
           IN  /\ approved = Min({Price[d], SumFunctionOnSet(Remaining, offered)})
               /\ PaidBy[d] # None /\ own > 0 => d \notin ListOnly
               /\ balance[s] >= own
               /\ balance' = [balance EXCEPT ![s] = @ - own]
               /\ reservation' = [reservation EXCEPT ![d] = [approved |-> approved, own |-> own]]
               /\ \E spend \in [offered -> 0 .. Price[d]] :
                    /\ \A a \in offered : spend[a] <= Remaining[a]
                    /\ SumFunction(spend) = approved
                    /\ Cardinality({a \in offered : spend[a] \notin {0, Remaining[a]}}) <= 1
                    /\ UseApprovals(spend)
      /\ UNCHANGED <<lapsed, refunds, creates>>

-----------------------------------------------------------------------------
(* getAllApprovalsForUserAddress, for a balance or a list of approvals,    *)
(* and getApprovalsFromPayerForAddress: when they read expired ones,       *)
(* trimExpiredApprovals                                                    *)

ListApprovals(t, asked) ==
  LET expired == asked \cap lapsed \cap Rows(active)
  IN  /\ expired # {}
      /\ Begin(t, [Idle EXCEPT !.pc = "trim", !.expired = Only(active, expired)])
      /\ UNCHANGED <<approvals, lapsed, balance, uploads, creates>>

\* What goes back to the payer is what the list said, whether or not the row was
\* still there to delete.
TrimDelete(t, a) ==
  LET listed == tx[t].expired[a]
      expired == Without(tx[t].expired, a)
      owed == Owe(t, PayingAddress[a], ApprovedWinc[a] - listed)
  IN  /\ tx[t].pc = "trim" /\ listed # None
      /\ ~Locked(a)
      /\ active' = [active EXCEPT ![a] = None]
      /\ tx' = [Deleted({a}) EXCEPT ![t] =
           IF active[a] = None
           THEN [tx[t] EXCEPT !.expired = expired, !.owed = owed]
           ELSE [tx[t] EXCEPT !.expired = expired, !.owed = owed,
                              !.pc = "trimInsert", !.a = a, !.seen = active[a]]]
      /\ UNCHANGED <<inactive, lapsed, balance, uploads, creates>>

TrimInsert(t) ==
  /\ tx[t].pc = "trimInsert"
  /\ inactive[tx[t].a] = None     \* its primary key
  /\ inactive' = [inactive EXCEPT ![tx[t].a] = [reason |-> "expired", used |-> tx[t].seen]]
  /\ Move(t, [tx[t] EXCEPT !.pc = "trim"])
  /\ UNCHANGED <<active, lapsed, balance, uploads, creates>>

\* getLockedUser outside a transaction: its lock is gone when it returns.
TrimReadPayer(t, p) ==
  /\ tx[t].pc = "trim" /\ Rows(tx[t].expired) = {}
  /\ tx[t].owed[p] # 0
  /\ Move(t, [tx[t] EXCEPT !.pc = "trimWrite", !.from = p, !.seen = balance[p]])
  /\ UNCHANGED <<approvals, lapsed, balance, uploads, creates>>

TrimWritePayer(t) ==
  LET p == tx[t].from
      owed == [tx[t].owed EXCEPT ![p] = 0]
  IN  /\ tx[t].pc = "trimWrite"
      /\ balance' = [balance EXCEPT ![p] = tx[t].seen + tx[t].owed[p]]
      /\ Move(t, IF owed # NoDebts THEN [tx[t] EXCEPT !.pc = "trim", !.owed = owed]
                 ELSE IF tx[t].d # None THEN [tx[t] EXCEPT !.pc = "refundActive", !.owed = owed]
                 ELSE Idle)
      /\ UNCHANGED <<approvals, lapsed, uploads, creates>>

-----------------------------------------------------------------------------
(* refundBalance with refundWincFromOverflowSpend. Nothing records that a  *)
(* reservation was refunded.                                               *)

RefundSigner(d) ==
  /\ reservation[d] # None /\ reservation[d].approved = 0
  /\ refunds[d] < MaxRefunds
  /\ balance' = [balance EXCEPT ![Signer[d]] = @ + Price[d]]
  /\ refunds' = [refunds EXCEPT ![d] = @ + 1]
  /\ UNCHANGED <<approvals, lapsed, reservation, creates, tx>>

\* The active approvals of the payer are read without a lock, expired ones are
\* trimmed before the others are looked at.
StartRefund(t, d) ==
  LET listed == From(PaidBy[d], Signer[d]) \cap Rows(active)
  IN  /\ reservation[d] # None /\ reservation[d].approved > 0
      /\ refunds[d] < MaxRefunds
      /\ Begin(t, [Idle EXCEPT !.pc = IF listed \cap lapsed = {} THEN "refundActive" ELSE "trim",
                     !.d = d, !.left = reservation[d].approved,
                     !.expired = Only(active, listed \cap lapsed),
                     !.rows = Only(active, listed \ lapsed)])
      /\ UNCHANGED <<approvals, lapsed, balance, uploads, creates>>

RefundRowUnchecked(t, a) ==
  /\ tx[t].pc = "refundActive" /\ tx[t].left > 0 /\ tx[t].rows[a] # None
  /\ ~Locked(a)
  /\ Move(t, [tx[t] EXCEPT !.rows = Without(tx[t].rows, a), !.left = 0,
       !.held = IF active[a] = None THEN tx[t].held
                ELSE With(tx[t].held, a, tx[t].rows[a] - reservation[tx[t].d].approved)])
  /\ UNCHANGED <<approvals, lapsed, balance, uploads, creates>>

\* UPDATE of a used amount read earlier; it matches nothing when the row is gone.
\* What is compared and subtracted is the whole refund, not what is left of it.
RefundRow(t, a) ==
  LET winc == reservation[tx[t].d].approved
      used == tx[t].rows[a]
  IN  /\ tx[t].pc = "refundActive" /\ tx[t].left > 0 /\ used # None
      /\ ~Locked(a)
      /\ Move(t, [tx[t] EXCEPT !.rows = Without(tx[t].rows, a),
           !.left = IF used >= winc THEN 0 ELSE tx[t].left - used,
           !.held = IF active[a] = None THEN tx[t].held
                    ELSE With(tx[t].held, a, Minus(used, winc))])
      /\ UNCHANGED <<approvals, lapsed, balance, uploads, creates>>

\* The inactive approvals of the payer, read without a lock as well.
ReadInactive(t) ==
  LET d == tx[t].d
  IN  /\ tx[t].pc = "refundActive"
      /\ tx[t].left <= 0 \/ Rows(tx[t].rows) = {}
      /\ Move(t, [tx[t] EXCEPT !.pc = "refundInactive",
                    !.past = Only(inactive, From(PaidBy[d], Signer[d]))])
      /\ UNCHANGED <<approvals, lapsed, balance, uploads, creates>>

Visits(t, a) ==
  /\ tx[t].pc = "refundInactive" /\ tx[t].left > 0
  /\ tx[t].past[a] # None /\ tx[t].restore[a] = None

RestoreAny(t, a) ==
  LET used == tx[t].past[a].used
  IN  /\ Visits(t, a)
      /\ Move(t, [tx[t] EXCEPT !.left = tx[t].left - used,
                               !.restore = With(tx[t].restore, a, Minus(used, tx[t].left))])
      /\ UNCHANGED <<approvals, lapsed, balance, uploads, creates>>

\* A used approval becomes active again, with what the refund leaves of it.
RestoreUsed(t, a) ==
  LET used == tx[t].past[a].used
  IN  /\ Visits(t, a) /\ tx[t].past[a].reason = "used"
      /\ Move(t, [tx[t] EXCEPT !.left = tx[t].left - used,
                               !.restore = With(tx[t].restore, a, Minus(used, tx[t].left))])
      /\ UNCHANGED <<approvals, lapsed, balance, uploads, creates>>

\* An expired or revoked approval credits its payer with all it ever used, and the
\* refund still looks for the same winc in the next one.
CreditPayer(t, a) ==
  /\ Visits(t, a) /\ tx[t].past[a].reason # "used"
  /\ Move(t, [tx[t] EXCEPT !.past = Without(tx[t].past, a),
                           !.owed = Owe(t, PaidBy[tx[t].d], tx[t].past[a].used)])
  /\ UNCHANGED <<approvals, lapsed, balance, uploads, creates>>

Refunded(t) ==
  /\ tx[t].pc = "refundInactive"
  /\ tx[t].left <= 0 \/ Rows(tx[t].past) = Rows(tx[t].restore)

\* The rows to restore are deleted and inserted by id, whatever their reason has
\* become since they were read.
CommitRefund(t) ==
  LET d == tx[t].d
      restored == Rows(tx[t].restore)
  IN  /\ Refunded(t)
      /\ restored \subseteq Rows(inactive) /\ restored \cap Rows(active) = {}
      /\ active' = [a \in Approvals |-> IF a \in restored THEN tx[t].restore[a]
                                        ELSE IF a \in Rows(tx[t].held) THEN tx[t].held[a]
                                        ELSE active[a]]
      /\ inactive' = Only(inactive, Approvals \ restored)
      /\ balance' = [PayOwed(t) EXCEPT ![Signer[d]] = @ + reservation[d].own]
      /\ refunds' = [refunds EXCEPT ![d] = @ + 1]
      /\ End(t)
      /\ UNCHANGED <<lapsed, reservation, creates>>

-----------------------------------------------------------------------------
\* An error of a statement, or the loss of the process or its connection. What
\* the trimming wrote stays.
Abort(t) ==
  /\ tx[t].pc # "idle"
  /\ End(t)
  /\ UNCHANGED <<approvals, lapsed, balance, uploads, creates>>

Statement(t) ==
  \/ CommitCreate(t) \/ CommitRevoke(t) \/ TrimInsert(t) \/ TrimWritePayer(t)
  \/ ReadInactive(t) \/ CommitRefund(t) \/ Abort(t)
  \/ \E a \in Approvals : \/ CheckConflicts(t, a) \/ RevokeRow(t, a) \/ TrimDelete(t, a)
                          \/ RefundRow(t, a) \/ RestoreUsed(t, a) \/ CreditPayer(t, a)
  \/ \E u \in Users : ListApprovals(t, Involving(u)) \/ TrimReadPayer(t, u)
  \/ \E p, s \in Users : ListApprovals(t, From(p, s)) \/ StartRevoke(t, p, s)
  \/ \E d \in DataItems : StartRefund(t, d)

Next ==
  \/ \E a \in Approvals : Lapse(a)
  \/ \E d \in DataItems : ReserveBalance(d) \/ RefundSigner(d)
  \/ \E t \in Txns : Statement(t)

Spec == Init /\ [][Next]_vars

-----------------------------------------------------------------------------
(* Correctness                                                             *)

OptionalNat == Nat \cup {None}

Sessions == [ pc : PCs, a : Approvals \cup {None}, d : DataItems \cup {None},
              from : Users \cup {None}, to : Users \cup {None},
              rows : [Approvals -> OptionalNat],
              past : [Approvals -> InactiveRows \cup {None}],
              expired : [Approvals -> OptionalNat],
              held : [Approvals -> OptionalNat],
              restore : [Approvals -> OptionalNat],
              owed : [Users -> Nat], left : Int, seen : Int ]

TypeOK ==
  /\ active \in [Approvals -> OptionalNat]
  /\ inactive \in [Approvals -> InactiveRows \cup {None}]
  /\ lapsed \subseteq Expiring
  /\ balance \in [Users -> Int]
  /\ reservation \in [DataItems -> [approved : Nat, own : Nat] \cup {None}]
  /\ refunds \in [DataItems -> Nat]
  /\ creates \in [Approvals -> 0 .. MaxCreates]
  /\ tx \in [Txns -> Sessions]

\* No interleaving of creations, uses, refunds and trimmings overdraws a wallet or
\* an approval: used amounts stay below what was approved, also those that a
\* refund writes from an earlier read, and those in full are in the other table.
NothingOverdrawn ==
  /\ \A u \in Users : balance[u] >= 0
  /\ \A a \in Rows(active) : active[a] \in 0 .. ApprovedWinc[a] - 1
  /\ \A a \in Rows(inactive) :
       /\ inactive[a].used \in 0 .. ApprovedWinc[a]
       /\ inactive[a].reason = "used" => inactive[a].used = ApprovedWinc[a]

\* An approval comes to be in both tables only at the INSERT of a creation that
\* looked for conflicts before the row became inactive, or of a trimming whose
\* DELETE let the id be created again: every other move keeps it in one.
InBoth(a) == active[a] # None /\ inactive[a] # None
InsertsUnguarded(t, a) == tx[t].pc \in {"create", "trimInsert"} /\ tx[t].a = a
OneTableButForInsertRace ==
  [][\A a \in Approvals : InBoth(a)' /\ ~InBoth(a) => \E t \in Txns : InsertsUnguarded(t, a)]_vars

\* An approval disappears from both tables only while an expired one is trimmed:
\* every other move of a row, and every refund of a moved row, keeps it in one.
Recorded(a) == active[a] # None \/ inactive[a] # None
KeptButForTrim ==
  [][\A a \in Approvals : Recorded(a) /\ ~Recorded(a)' =>
       \E t \in Txns : tx[t].pc = "trim" /\ tx[t].expired[a] # None]_vars

\* An approval that was revoked or has expired becomes active again only through
\* a refund that had read it as used before.
Final(a) == inactive[a] # None /\ inactive[a].reason # "used"
FinalButForRefund ==
  [][\A a \in Approvals : Final(a) /\ ~Final(a)' =>
       \E t \in Txns : tx[t].restore[a] # None /\ tx[t].past[a].reason = "used"]_vars

\* What users have, in balances, in approvals and in a trimming under way.
Credits ==
  SumFunction(balance) + SumFunction(Remaining)
    + SumFunction([t \in Txns |-> IF tx[t].pc \in {"trim", "trimInsert", "trimWrite"}
                                  THEN SumFunction(tx[t].owed) ELSE 0])

\* t is about to count an expired row as it listed it, not as it is, or to write a
\* balance computed from one that is no longer there.
StaleTrim(t) ==
  \/ tx[t].pc = "trim" /\ \E a \in Approvals : tx[t].expired[a] \notin {None, active[a]}
  \/ tx[t].pc = "trimWrite" /\ tx[t].seen # balance[tx[t].from]

\* Credits come from nowhere only in a refund of an upload or in the trimming of
\* expired approvals from a stale list or balance. Creating, using and revoking
\* approvals never make any, whatever they interleave with.
CreditsOnlyFromStaleTrim ==
  [][Credits' > Credits /\ refunds' = refunds => \E t \in Txns : StaleTrim(t)]_vars

\* postgres.ts:1730 "set all used approvals to revoked so that if they are refunded
\* the balance returns to paying user": a revoked approval is never active again.
RevokedIsFinal ==
  [][\A a \in Approvals : inactive[a] # None /\ inactive[a].reason = "revoked"
       => active'[a] = active[a]]_vars

=============================================================================
