--------------------------- MODULE CryptoPayments ---------------------------
(***************************************************************************)
(* Token payments: POST /account/balance/:token submits the id of a        *)
(* transfer (src/src/routes/addPendingPaymentTx.ts), which is credited at  *)
(* once when it is confirmed, or stored as pending; a queue runs the job   *)
(* that asks the gateways about pending payments and credits or fails them *)
(* (src/src/jobs/creditPendingTx.ts, src/src/consumer.ts).                 *)
(*                                                                         *)
(* Statements interleave under READ COMMITTED as in TopUpLedger: the row a *)
(* transaction deleted, and the key it inserted, stay locked until it      *)
(* ends. Reads of the reader database are earlier reads.                   *)
(***************************************************************************)
EXTENDS Integers

CONSTANTS
  Payments,    \* transaction_id of transfers to a wallet of the service
  Users,       \* user_address
  Sender,      \* the address that sent each payment, which is credited
  Prices,      \* winc that the pricing service may say a payment is worth
  Requests,    \* submissions that run at once
  Runs,        \* runs of the job at once
  None         \* no row, no payment

ASSUME CryptoAssumption ==
  /\ Sender \in [Payments -> Users]
  /\ Prices \subseteq Nat
  /\ None \notin Nat \cup Payments \cup Users
  /\ Requests \cap Runs = {}

VARIABLES
  confirmed,   \* payments with enough confirmations on their chain
  pending,     \* pending_payment_transaction: winston_credit_amount of each row
  credited,    \* credited_payment_transaction: the same
  failed,      \* failed_payment_transaction
  user,        \* addresses with a row in the user table
  balance,     \* winston_credit_balance; 0 without a row
  audited,     \* sum of the address's rows in audit_log
  at           \* where each request and run is

tables == <<pending, credited, failed>>
money == <<user, balance, audited>>
vars == <<confirmed, tables, money, at>>

Processes == Requests \cup Runs

Idle == [ pc |-> "idle", p |-> None, winc |-> 0,
          listed |-> {},     \* pending payments a run has yet to visit
          next |-> 1,        \* the table a request looks into next
          known |-> FALSE,   \* p was in a table when the request looked first
          found |-> FALSE,   \* the user row was there when read
          seen |-> 0 ]       \* the balance it held

PCs == { "idle", "look", "new", "insertPending",   \* request
         "next", "price", "delete", "fail",        \* run
         "insertCredited", "readUser", "write" }   \* both

Init ==
  /\ confirmed = {}
  /\ pending = [p \in Payments |-> None]
  /\ credited = [p \in Payments |-> None]
  /\ failed = {}
  /\ user = {}
  /\ balance = [u \in Users |-> 0] /\ audited = [u \in Users |-> 0]
  /\ at = [s \in Processes |-> Idle]

-----------------------------------------------------------------------------
Stored(p) == pending[p] # None \/ credited[p] # None \/ p \in failed

Goto(s, pc) == at' = [at EXCEPT ![s].pc = pc]

\* A request answers; a run visits its next payment, or ends after the last.
Return(s) ==
  LET rest == at[s].listed \ {at[s].p}
  IN  at' = [at EXCEPT ![s] = IF rest = {} THEN Idle
                              ELSE [Idle EXCEPT !.pc = "next", !.listed = rest]]

\* The run that deleted p from the pending table, the transaction that inserted
\* it into the credited one.
PendingHeld(p) ==
  \E s \in Runs : at[s].p = p /\ at[s].pc \in {"insertCredited", "readUser", "write"}
CreditedHeld(p) ==
  \E s \in Processes : at[s].p = p /\ at[s].pc \in {"readUser", "write"}

-----------------------------------------------------------------------------
(* The chain                                                               *)

Confirm(p) ==
  /\ p \notin confirmed
  /\ confirmed' = confirmed \cup {p}
  /\ UNCHANGED <<tables, money, at>>

-----------------------------------------------------------------------------
(* addPendingPaymentTx. checkForPendingTransaction looks into one table    *)
(* after the other, each as it is when the statement runs.                 *)

Backwards == <<"credited", "failed", "pending">>

Tables == <<"pending", "failed", "credited">>

Has(table, p) ==
  \/ table = "pending"  /\ pending[p] # None
  \/ table = "failed"   /\ p \in failed
  \/ table = "credited" /\ credited[p] # None

Submit(s, p) ==
  /\ at[s].pc = "idle"
  /\ ~Has(Tables[1], p)
  /\ at' = [at EXCEPT ![s] = [Idle EXCEPT !.pc = "look", !.p = p, !.next = 2, !.known = Stored(p)]]
  /\ UNCHANGED <<confirmed, tables, money>>

Look(s) ==
  /\ at[s].pc = "look"
  /\ IF Has(Tables[at[s].next], at[s].p) THEN Return(s)
     ELSE IF at[s].next = 3 THEN Goto(s, "new")
     ELSE at' = [at EXCEPT ![s].next = 3]
  /\ UNCHANGED <<confirmed, tables, money>>

\* A payment that the gateway does not know, or not one to the service, is Abort. A
\* gateway that is behind the chain still says pending or not found.
AskGateway(s, winc) ==
  /\ at[s].pc = "new"
  /\ \E pc \in {"insertPending", "insertCredited"} :
       /\ pc = "insertCredited" => at[s].p \in confirmed
       /\ at' = [at EXCEPT ![s] = [@ EXCEPT !.pc = pc, !.winc = winc]]
  /\ UNCHANGED <<confirmed, tables, money>>

\* createPendingTransaction: its key is unique in the pending table only.
InsertPending(s) ==
  LET p == at[s].p
  IN  /\ at[s].pc = "insertPending"
      /\ ~PendingHeld(p)
      /\ \/ pending[p] = None /\ pending' = [pending EXCEPT ![p] = at[s].winc]
         \/ pending[p] # None /\ UNCHANGED pending
      /\ Return(s)
      /\ UNCHANGED <<confirmed, credited, failed, money>>

-----------------------------------------------------------------------------
(* creditPendingTransactionsHandler: one payment after the other, in the   *)
(* order the table gives them; an error only ends the visit of the payment *)

StartRun(s) ==
  LET rows == {p \in Payments : pending[p] # None}
  IN  /\ at[s].pc = "idle" /\ rows # {}
      /\ at' = [at EXCEPT ![s] = [Idle EXCEPT !.pc = "next", !.listed = rows]]
      /\ UNCHANGED <<confirmed, tables, money>>

Visit(s, p, pc) ==
  /\ at[s].pc = "next" /\ p \in at[s].listed
  /\ at' = [at EXCEPT ![s] = [@ EXCEPT !.p = p, !.pc = pc]]
  /\ UNCHANGED <<confirmed, tables, money>>

\* Not found, and stored more than a day ago, as any row may be by now. A gateway may say
\* so of any payment, when it is behind the chain or lost it.
SeeNotFound(s, p) == Visit(s, p, "fail")

\* Still pending, or not found within the first day.
SeePending(s, p) ==
  /\ at[s].pc = "next" /\ p \in at[s].listed
  /\ IF at[s].listed = {p} THEN at' = [at EXCEPT ![s] = Idle]
     ELSE at' = [at EXCEPT ![s].listed = @ \ {p}]
  /\ UNCHANGED <<confirmed, tables, money>>

SeeConfirmedAsPending(s, p) == p \in confirmed /\ SeePending(s, p)

SeeConfirmed(s, p) == p \in confirmed /\ Visit(s, p, "price")

\* The price in USD is asked for, and the payment announced, before it is credited.
Announce(s) ==
  /\ at[s].pc = "price"
  /\ Goto(s, "delete")
  /\ UNCHANGED <<confirmed, tables, money>>

DeletePendingUnchecked(s) ==
  LET p == at[s].p
  IN  /\ at[s].pc = "delete"
      /\ ~PendingHeld(p)
      /\ at' = [at EXCEPT ![s] = [@ EXCEPT !.pc = "insertCredited", !.winc = pending[p]]]
      /\ UNCHANGED <<confirmed, tables, money>>

\* creditPendingTransaction: DELETE waits for the row. When it is gone the
\* transaction ends, with PaymentTransactionNotFound.
DeletePending(s) ==
  LET p == at[s].p
  IN  /\ at[s].pc = "delete"
      /\ ~PendingHeld(p)
      /\ IF pending[p] = None THEN Return(s)
         ELSE at' = [at EXCEPT ![s] = [@ EXCEPT !.pc = "insertCredited", !.winc = pending[p]]]
      /\ UNCHANGED <<confirmed, tables, money>>

\* failPendingTransaction, with the two ways it ends without writing: the row is gone
\* or the key is in the failed table already.
FailPending(s) ==
  LET p == at[s].p
  IN  /\ at[s].pc = "fail"
      /\ ~PendingHeld(p)
      /\ \/ /\ pending[p] # None /\ p \notin failed
            /\ pending' = [pending EXCEPT ![p] = None]
            /\ failed' = failed \cup {p}
         \/ /\ pending[p] = None \/ p \in failed
            /\ UNCHANGED <<pending, failed>>
      /\ Return(s)
      /\ UNCHANGED <<confirmed, credited, money>>

-----------------------------------------------------------------------------
(* What creditPendingTransaction and createNewCreditedTransaction share:   *)
(* the INSERT that fails on a key that is there, and creditOrCreateUser    *)

InsertCreditedUnkeyed(s) ==
  /\ at[s].pc = "insertCredited"
  /\ ~CreditedHeld(at[s].p)
  /\ Goto(s, "readUser")
  /\ UNCHANGED <<confirmed, tables, money>>

InsertCredited(s) ==
  /\ at[s].pc = "insertCredited"
  /\ ~CreditedHeld(at[s].p)
  /\ IF credited[at[s].p] # None THEN Return(s) ELSE Goto(s, "readUser")
  /\ UNCHANGED <<confirmed, tables, money>>

\* getUser in the transaction: no FOR UPDATE.
ReadUser(s) ==
  LET u == Sender[at[s].p]
  IN  /\ at[s].pc = "readUser"
      /\ at' = [at EXCEPT ![s] = [@ EXCEPT !.pc = "write", !.found = u \in user,
                                           !.seen = balance[u]]]
      /\ UNCHANGED <<confirmed, tables, money>>

DuplicateUser(s) == ~at[s].found /\ Sender[at[s].p] \in user

KeepPending(s) == UNCHANGED pending

\* A run takes the payment out of the pending table; a request has nothing there.
TakePending(s) ==
  pending' = IF s \in Runs THEN [pending EXCEPT ![at[s].p] = None] ELSE pending

CommitUnaudited(s) ==
  LET p == at[s].p
      u == Sender[p]
  IN  /\ at[s].pc = "write"
      /\ ~DuplicateUser(s)
      /\ TakePending(s)
      /\ credited' = [credited EXCEPT ![p] = at[s].winc]
      /\ user' = user \cup {u}
      /\ balance' = [balance EXCEPT ![u] = at[s].seen + at[s].winc]
      /\ audited' = [audited EXCEPT ![u] = IF at[s].found THEN @ + at[s].winc ELSE @]
      /\ Return(s)
      /\ UNCHANGED <<confirmed, failed>>

CommitCredit(s) ==
  LET p == at[s].p
      u == Sender[p]
  IN  /\ at[s].pc = "write"
      /\ ~DuplicateUser(s)
      /\ TakePending(s)
      /\ credited' = [credited EXCEPT ![p] = at[s].winc]
      /\ user' = user \cup {u}
      /\ balance' = [balance EXCEPT ![u] = at[s].seen + at[s].winc]
      /\ audited' = [audited EXCEPT ![u] = @ + at[s].winc]
      /\ Return(s)
      /\ UNCHANGED <<confirmed, failed>>

\* The INSERT of a user row that another transaction inserted meanwhile.
FailCredit(s) ==
  /\ at[s].pc = "write" /\ DuplicateUser(s)
  /\ Return(s)
  /\ UNCHANGED <<confirmed, tables, money>>

-----------------------------------------------------------------------------
\* An error: of the gateway, of the price, of a statement. A request answers with it, a
\* run goes on with its next payment.
Abort(s) ==
  /\ at[s].pc \notin {"idle", "next"}
  /\ Return(s)
  /\ UNCHANGED <<confirmed, tables, money>>

\* The process is lost.
Crash(s) ==
  /\ at[s].pc # "idle"
  /\ at' = [at EXCEPT ![s] = Idle]
  /\ UNCHANGED <<confirmed, tables, money>>

Credit(s) == InsertCredited(s) \/ ReadUser(s) \/ CommitCredit(s) \/ FailCredit(s)

Request(s) ==
  \/ \E p \in Payments : Submit(s, p)
  \/ Look(s) \/ InsertPending(s)
  \/ \E winc \in Prices : AskGateway(s, winc)

Run(s) ==
  \/ StartRun(s) \/ Announce(s) \/ DeletePending(s) \/ FailPending(s)
  \/ \E p \in Payments : SeeConfirmed(s, p) \/ SeeNotFound(s, p) \/ SeePending(s, p)

Next ==
  \/ \E p \in Payments : Confirm(p)
  \/ \E s \in Requests : Request(s)
  \/ \E s \in Runs : Run(s)
  \/ \E s \in Processes : Credit(s) \/ Abort(s) \/ Crash(s)

Spec == Init /\ [][Next]_vars

\* The queue starts a run whenever there is none, and a handler that runs goes on. An
\* error or a gateway behind its chain may hit a payment many times, but not always.
On(s, p) == at[s].p = p

FairSpec ==
  /\ Spec
  /\ \A s \in Runs : WF_vars(Run(s))
  /\ \A s \in Processes : WF_vars(Credit(s))
  /\ \A s \in Runs, p \in Payments :
       /\ SF_vars(SeeConfirmed(s, p))
       /\ SF_vars(On(s, p) /\ Announce(s)) /\ SF_vars(On(s, p) /\ DeletePending(s))
       /\ SF_vars(On(s, p) /\ InsertCredited(s)) /\ SF_vars(On(s, p) /\ ReadUser(s))
       /\ SF_vars(On(s, p) /\ (CommitCredit(s) \/ FailCredit(s)))

-----------------------------------------------------------------------------
(* Correctness                                                             *)

OptionalNat == Nat \cup {None}

Positions == [ pc : PCs, p : Payments \cup {None}, winc : Nat,
               listed : SUBSET Payments,
               next : 1 .. 3, known : BOOLEAN, found : BOOLEAN, seen : Nat ]

TypeOK ==
  /\ confirmed \subseteq Payments
  /\ pending \in [Payments -> OptionalNat]
  /\ credited \in [Payments -> OptionalNat]
  /\ failed \subseteq Payments
  /\ user \subseteq Users
  /\ balance \in [Users -> Nat] /\ audited \in [Users -> Nat]
  /\ at \in [Processes -> Positions]

Promise == INSTANCE CryptoPromise WITH credit <- credited, owed <- audited

\* Submissions, runs and their errors, however they overlap, credit a payment once at
\* most, to its sender, for a price of the service, and only when it is confirmed.
KeepsPromise == Promise!Spec

\* A request takes a payment for a new one only if no table had it when it began to
\* look: the payment may move while it looks, but never behind its back.
NoneMissed == \A s \in Requests : at[s].pc = "new" => ~at[s].known

\* A payment gets into a second table only by a request that had found it in none: a
\* run moves it, and leaves nothing behind.
InTwo(p) == \E t, u \in {"pending", "failed", "credited"} : t # u /\ Has(t, p) /\ Has(u, p)
Inserts(s, p) == On(s, p) /\ at[s].pc \in {"insertPending", "write"}
SecondTableByRequest ==
  [][\A p \in Payments : InTwo(p)' /\ ~InTwo(p) => \E s \in Requests : Inserts(s, p)]_vars

\* Credits of one wallet that overlap may lose some, but never make any.
LostNotMade == \A u \in Users : balance[u] <= audited[u]

\* A pending payment that is confirmed is credited, or was failed, in the end.
Settled == \A p \in Payments :
  pending[p] # None /\ p \in confirmed ~> credited[p] # None \/ p \in failed

\* creditPendingTx.test.ts:93 "expect the transaction to be moved to the credited table":
\* a pending payment that is confirmed does not stay pending.
PendingEmptied == \A p \in Payments :
  pending[p] # None /\ p \in confirmed ~> pending[p] = None

=============================================================================
