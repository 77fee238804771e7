----------------------------- MODULE TopUpLedger -----------------------------
(***************************************************************************)
(* The database transactions that move a fiat top up through the tables    *)
(* top_up_quote, payment_receipt, chargeback_receipt, unredeemed_gift and  *)
(* redeemed_gift, and credit or debit the user table                       *)
(* (src/src/database/postgres.ts), interleaved statement by statement      *)
(* under Postgres READ COMMITTED, the isolation level the code runs at.    *)
(*                                                                         *)
(* A transaction reads committed rows, takes the lock of each row it       *)
(* deletes or updates until it ends, and its writes show when it commits.  *)
(* The last row a transaction locks is locked by the step that commits it, *)
(* so only the locks on a quote and on a gift outlive a step here.         *)
(***************************************************************************)
EXTENDS Integers

CONSTANTS
  Quotes,      \* top_up_quote_id; a receipt takes the place of one quote
  Users,       \* user_address
  Txns,        \* transactions open at once on the writer connection pool
  DataItems,   \* data_item_id of balance reservations
  Winc,        \* winston_credit_amount of each quote
  Price,       \* winc reserved for each data item
  Dest,        \* destination_address of each quote
  Email,       \* destination_address_type "email"
  None,        \* no row, no address
  MaxRefunds   \* bound: refund requests per data item

ASSUME LedgerAssumption ==
  /\ Winc \in [Quotes -> Nat]
  /\ Price \in [DataItems -> Nat \ {0}]
  /\ Dest \in [Quotes -> Users \cup {Email}]
  /\ Email \notin Users
  /\ None \notin Users \cup Quotes
  /\ MaxRefunds \in Nat

VARIABLES
  topUpQuote, paymentReceipt, chargebackReceipt,   \* tables of fiat payments
  unredeemedGift, redeemedGift,                    \* tables of gifts
  redeemer,    \* destination_address of each row of redeemed_gift
  lapsed,      \* quotes past quote_expiration_date
  user,        \* addresses with a row in the user table
  balance,     \* winston_credit_balance; 0 without a row
  audited,     \* sum of the address's rows in audit_log
  reserved,    \* balance_reservation: the address that paid for a data item
  refunds,     \* refund requests served for a data item
  tx           \* open transactions

tables == <<topUpQuote, paymentReceipt, chargebackReceipt>>
gifts == <<unredeemedGift, redeemedGift, redeemer>>
money == <<user, balance, audited>>
uploads == <<reserved, refunds>>
vars == <<tables, gifts, lapsed, money, uploads, tx>>

Idle == [pc |-> "idle", q |-> None, u |-> None, found |-> FALSE, seen |-> 0]

PCs == { "idle",
         "settleDelete", "settleCredit", "settleWrite",   \* createPaymentReceipt
         "redeemDelete", "redeemCredit", "redeemWrite",   \* redeemGift
         "clawRead", "clawWrite", "clawCommit" }          \* createChargebackReceipt

Transactions == [ pc    : PCs,
                  q     : Quotes \cup {None},
                  u     : Users \cup {None},
                  found : BOOLEAN,     \* the user row was there when read
                  seen  : Int ]        \* the balance it held

Init ==
  /\ topUpQuote = {} /\ paymentReceipt = {} /\ chargebackReceipt = {}
  /\ unredeemedGift = {} /\ redeemedGift = {}
  /\ redeemer = [q \in Quotes |-> None]
  /\ lapsed = {}
  /\ user = {}
  /\ balance = [u \in Users |-> 0]
  /\ audited = [u \in Users |-> 0]
  /\ reserved = [d \in DataItems |-> None]
  /\ refunds = [d \in DataItems |-> 0]
  /\ tx = [t \in Txns |-> Idle]

-----------------------------------------------------------------------------
(* Statements shared by the transactions                                   *)

Goto(t, pc) == tx' = [tx EXCEPT ![t].pc = pc]

Begin(t, pc, q, u) ==
  /\ tx[t].pc = "idle"
  /\ tx' = [tx EXCEPT ![t] = [pc |-> pc, q |-> q, u |-> u, found |-> FALSE, seen |-> 0]]

\* ROLLBACK, or COMMIT: every lock of t is released.
End(t) == tx' = [tx EXCEPT ![t] = Idle]

RollBack(t) == End(t) /\ UNCHANGED <<tables, gifts, lapsed, money, uploads>>

\* SELECT without FOR UPDATE: the committed row, and no lock on it.
ReadUser(t, u, next) ==
  tx' = [tx EXCEPT ![t] = [@ EXCEPT !.pc = next, !.u = u,
                                    !.found = u \in user, !.seen = balance[u]]]

\* The transaction that deleted the row and has not ended holds its lock.
HoldsQuote(t) == tx[t].pc \in {"settleCredit", "settleWrite"}
HoldsGift(t) == tx[t].pc \in {"redeemCredit", "redeemWrite"}

QuoteLocked(q) == \E s \in Txns : tx[s].q = q /\ HoldsQuote(s)
GiftLocked(q) == \E s \in Txns : tx[s].q = q /\ HoldsGift(s)

\* UPDATE user SET balance = <a value computed from an earlier read>, or INSERT,
\* and the audit row of the change.
SetBalance(u, newBalance, change) ==
  /\ balance' = [balance EXCEPT ![u] = newBalance]
  /\ audited' = [audited EXCEPT ![u] = @ + change]

\* The INSERT of a user row that another transaction inserted meanwhile.
DuplicateUser(t) == ~tx[t].found /\ tx[t].u \in user

CreditDestination(t, amount) ==
  /\ SetBalance(tx[t].u, tx[t].seen + amount, amount)
  /\ user' = user \cup {Dest[tx[t].q]}

CreditSeen(t, amount) ==
  /\ SetBalance(tx[t].u, tx[t].seen + amount, amount)
  /\ user' = user \cup {tx[t].u}

-----------------------------------------------------------------------------
(* createTopUpQuote, and the passing of a quote's expiration date          *)

Known(q) == q \in topUpQuote \cup paymentReceipt \cup chargebackReceipt

CreateTopUpQuote(q) ==
  /\ ~Known(q)
  /\ topUpQuote' = topUpQuote \cup {q}
  /\ UNCHANGED <<paymentReceipt, chargebackReceipt, gifts, lapsed, money, uploads, tx>>

Lapse(q) ==
  /\ q \in topUpQuote \ lapsed
  /\ lapsed' = lapsed \cup {q}
  /\ UNCHANGED <<tables, gifts, money, uploads, tx>>

-----------------------------------------------------------------------------
(* createPaymentReceipt                                                    *)

ReadQuote(t, q) ==
  /\ q \in topUpQuote \ lapsed
  /\ Begin(t, "settleDelete", q, None)
  /\ UNCHANGED <<tables, gifts, lapsed, money, uploads>>

DeleteQuoteUnchecked(t) ==
  /\ tx[t].pc = "settleDelete"
  /\ ~QuoteLocked(tx[t].q)
  /\ Goto(t, "settleCredit")
  /\ UNCHANGED <<tables, gifts, lapsed, money, uploads>>

\* DELETE waits for the row's lock. When the row is gone it returns none, and
\* the receipt built from it violates NOT NULL.
DeleteQuote(t) ==
  /\ tx[t].pc = "settleDelete"
  /\ ~QuoteLocked(tx[t].q)
  /\ \/ tx[t].q \in topUpQuote    /\ Goto(t, "settleCredit")
     \/ tx[t].q \notin topUpQuote /\ End(t)
  /\ UNCHANGED <<tables, gifts, lapsed, money, uploads>>

MoveToReceipt(q) ==
  /\ topUpQuote' = topUpQuote \ {q}
  /\ paymentReceipt' = paymentReceipt \cup {q}
  /\ UNCHANGED chargebackReceipt

CommitGift(t) ==
  /\ tx[t].pc = "settleCredit"
  /\ Dest[tx[t].q] = Email
  /\ MoveToReceipt(tx[t].q)
  /\ unredeemedGift' = unredeemedGift \cup {tx[t].q}
  /\ End(t)
  /\ UNCHANGED <<redeemedGift, redeemer, lapsed, money, uploads>>

ReadDestination(t) ==
  /\ tx[t].pc = "settleCredit"
  /\ Dest[tx[t].q] # Email
  /\ ReadUser(t, Dest[tx[t].q], "settleWrite")
  /\ UNCHANGED <<tables, gifts, lapsed, money, uploads>>

CommitReceipt(t) ==
  /\ tx[t].pc = "settleWrite"
  /\ ~DuplicateUser(t)
  /\ MoveToReceipt(tx[t].q)
  /\ CreditSeen(t, Winc[tx[t].q])
  /\ End(t)
  /\ UNCHANGED <<gifts, lapsed, uploads>>

-----------------------------------------------------------------------------
(* redeemGift. The gift and its receipt are read together here: a receipt  *)
(* never reappears, so reading it later sees no more than reading it now.  *)
(* A wrong recipient email ends the transaction with nothing written.      *)

ReadGift(t, q, u) ==
  /\ q \in unredeemedGift
  /\ q \in paymentReceipt
  /\ Begin(t, "redeemDelete", q, u)
  /\ UNCHANGED <<tables, gifts, lapsed, money, uploads>>

DeleteGiftUnkeyed(t) ==
  /\ tx[t].pc = "redeemDelete"
  /\ ~GiftLocked(tx[t].q)
  /\ Goto(t, "redeemCredit")
  /\ UNCHANGED <<tables, gifts, lapsed, money, uploads>>

\* The result of the DELETE is not looked at: what stops a second redemption is
\* the primary key of redeemed_gift, met by the INSERT that follows.
DeleteGift(t) ==
  /\ tx[t].pc = "redeemDelete"
  /\ ~GiftLocked(tx[t].q)
  /\ \/ tx[t].q \notin redeemedGift /\ Goto(t, "redeemCredit")
     \/ tx[t].q \in redeemedGift    /\ End(t)
  /\ UNCHANGED <<tables, gifts, lapsed, money, uploads>>

ReadRedeemer(t) ==
  /\ tx[t].pc = "redeemCredit"
  /\ ReadUser(t, tx[t].u, "redeemWrite")
  /\ UNCHANGED <<tables, gifts, lapsed, money, uploads>>

CommitRedeem(t) ==
  /\ tx[t].pc = "redeemWrite"
  /\ ~DuplicateUser(t)
  /\ unredeemedGift' = unredeemedGift \ {tx[t].q}
  /\ redeemedGift' = redeemedGift \cup {tx[t].q}
  /\ redeemer' = [redeemer EXCEPT ![tx[t].q] = tx[t].u]
  /\ CreditSeen(t, Winc[tx[t].q])
  /\ End(t)
  /\ UNCHANGED <<tables, lapsed, uploads>>

-----------------------------------------------------------------------------
(* createChargebackReceipt. For a gift the code looks for the redeemer in  *)
(* unredeemed_gift, whose rows have no destination_address, and what it    *)
(* deletes there it has just found missing: no user and no gift is touched *)
(* whether or not the gift was redeemed.                                   *)

ReadReceipt(t, q) ==
  /\ q \in paymentReceipt
  /\ Begin(t, IF Dest[q] = Email THEN "clawCommit" ELSE "clawRead", q, None)
  /\ UNCHANGED <<tables, gifts, lapsed, money, uploads>>

ReadDebtor(t) ==
  /\ tx[t].pc = "clawRead"
  /\ Dest[tx[t].q] \in user
  /\ ReadUser(t, Dest[tx[t].q], "clawWrite")
  /\ UNCHANGED <<tables, gifts, lapsed, money, uploads>>

MoveToChargeback(q) ==
  /\ paymentReceipt' = paymentReceipt \ {q}
  /\ chargebackReceipt' = chargebackReceipt \cup {q}
  /\ UNCHANGED topUpQuote

ClawBackAuditedAsCredit(t) ==
  /\ SetBalance(tx[t].u, tx[t].seen - Winc[tx[t].q], Winc[tx[t].q])
  /\ UNCHANGED user

ClawBack(t) ==
  /\ SetBalance(tx[t].u, tx[t].seen - Winc[tx[t].q], -Winc[tx[t].q])
  /\ UNCHANGED user

\* The receipt's DELETE is last: when another chargeback took the row first, the
\* chargeback built from nothing violates NOT NULL and the clawback is undone.
CommitChargeback(t) ==
  /\ tx[t].q \in paymentReceipt
  /\ MoveToChargeback(tx[t].q)
  /\ \/ tx[t].pc = "clawWrite"  /\ ClawBack(t)
     \/ tx[t].pc = "clawCommit" /\ UNCHANGED money
  /\ End(t)
  /\ UNCHANGED <<gifts, lapsed, uploads>>

-----------------------------------------------------------------------------
(* reserveBalance and refundBalance for a signer who pays alone, with one  *)
(* reservation per data item. The user row is the first row they lock, so  *)
(* each is one step. The upload service asks back what it had reserved.    *)

ReserveUnchecked(d, u) ==
  /\ reserved[d] = None
  /\ u \in user
  /\ SetBalance(u, balance[u] - Price[d], -Price[d])
  /\ reserved' = [reserved EXCEPT ![d] = u]
  /\ UNCHANGED <<tables, gifts, lapsed, user, refunds, tx>>

ReserveBalance(d, u) ==
  /\ reserved[d] = None
  /\ balance[u] >= Price[d]
  /\ SetBalance(u, balance[u] - Price[d], -Price[d])
  /\ reserved' = [reserved EXCEPT ![d] = u]
  /\ UNCHANGED <<tables, gifts, lapsed, user, refunds, tx>>

\* Nothing records that a reservation was refunded.
RefundBalance(d) ==
  /\ reserved[d] # None
  /\ refunds[d] < MaxRefunds
  /\ SetBalance(reserved[d], balance[reserved[d]] + Price[d], Price[d])
  /\ refunds' = [refunds EXCEPT ![d] = @ + 1]
  /\ UNCHANGED <<tables, gifts, lapsed, user, reserved, tx>>

-----------------------------------------------------------------------------
\* An error of a statement, or the loss of the process or its connection.
Abort(t) == tx[t].pc # "idle" /\ RollBack(t)

\* The statement that must fail on the rows it meets.
Fail(t) ==
  /\ \/ tx[t].pc \in {"settleWrite", "redeemWrite"} /\ DuplicateUser(t)
     \/ tx[t].pc = "clawRead" /\ Dest[tx[t].q] \notin user
     \/ tx[t].pc \in {"clawWrite", "clawCommit"} /\ tx[t].q \notin paymentReceipt
  /\ RollBack(t)

Settle(t) == DeleteQuote(t) \/ CommitGift(t) \/ ReadDestination(t) \/ CommitReceipt(t)
RedeemStep(t) == DeleteGift(t) \/ ReadRedeemer(t) \/ CommitRedeem(t)
ClawStep(t) == ReadDebtor(t) \/ CommitChargeback(t)

Next ==
  \/ \E q \in Quotes : CreateTopUpQuote(q) \/ Lapse(q)
  \/ \E t \in Txns, q \in Quotes : ReadQuote(t, q) \/ ReadReceipt(t, q)
  \/ \E t \in Txns, q \in Quotes, u \in Users : ReadGift(t, q, u)
  \/ \E t \in Txns : Settle(t) \/ RedeemStep(t) \/ ClawStep(t) \/ Fail(t) \/ Abort(t)
  \/ \E d \in DataItems, u \in Users : ReserveBalance(d, u)
  \/ \E d \in DataItems : RefundBalance(d)

Spec == Init /\ [][Next]_vars

-----------------------------------------------------------------------------
(* Correctness                                                             *)

TypeOK ==
  /\ topUpQuote \subseteq Quotes
  /\ paymentReceipt \subseteq Quotes
  /\ chargebackReceipt \subseteq Quotes
  /\ unredeemedGift \subseteq Quotes
  /\ redeemedGift \subseteq Quotes
  /\ redeemer \in [Quotes -> Users \cup {None}]
  /\ lapsed \subseteq Quotes
  /\ user \subseteq Users
  /\ balance \in [Users -> Int]
  /\ audited \in [Users -> Int]
  /\ reserved \in [DataItems -> Users \cup {None}]
  /\ refunds \in [DataItems -> 0 .. MaxRefunds]
  /\ tx \in [Txns -> Transactions]

Gifts == {q \in Quotes : Dest[q] = Email}

\* A quote is in one of the three payment tables at most, whatever deliveries,
\* redemptions and disputes of it run at once; a received payment of a gift has a
\* gift row, unredeemed or redeemed, and no other gift row was never paid for.
OneTablePerQuote ==
  /\ topUpQuote \cap paymentReceipt = {}
  /\ topUpQuote \cap chargebackReceipt = {}
  /\ paymentReceipt \cap chargebackReceipt = {}
  /\ unredeemedGift \cap redeemedGift = {}
  /\ paymentReceipt \cap Gifts \subseteq unredeemedGift \cup redeemedGift
  /\ unredeemedGift \cup redeemedGift
       \subseteq (paymentReceipt \cup chargebackReceipt) \cap Gifts

Holds(t) ==
  /\ tx[t].pc # "idle" => tx[t].q \in Quotes
  /\ HoldsQuote(t) =>
       /\ tx[t].q \in topUpQuote
       /\ \A s \in Txns \ {t} : tx[s].q = tx[t].q => ~HoldsQuote(s)
  /\ tx[t].pc \in {"redeemDelete", "redeemCredit", "redeemWrite"} =>
       tx[t].q \in unredeemedGift \cup redeemedGift /\ tx[t].u \in Users
  /\ HoldsGift(t) =>
       /\ tx[t].q \in unredeemedGift
       /\ \A s \in Txns \ {t} : tx[s].q = tx[t].q => ~HoldsGift(s)
  /\ tx[t].pc \in {"settleWrite", "clawRead", "clawWrite"} => Dest[tx[t].q] # Email
  /\ tx[t].pc = "clawCommit" => Dest[tx[t].q] = Email
  /\ tx[t].pc \in {"settleWrite", "clawWrite"} => tx[t].u = Dest[tx[t].q]
  /\ tx[t].pc = "clawWrite" => tx[t].u \in user

\* What a transaction in progress can rely on: the row it deleted is still there
\* for everyone else, nobody else deleted it, and the wallet it read is the one
\* it writes to. A delivered receipt, a redemption and a dispute may overlap.
TransactionsHold == \A t \in Txns : Holds(t)

\* Only a wallet with a user row holds, owes or spent anything.
NoRowNoCredit ==
  /\ \A u \in Users \ user : balance[u] = 0 /\ audited[u] = 0
  /\ \A d \in DataItems : reserved[d] \in user \cup {None}

\* t is about to write a balance computed from one that is no longer there.
StaleWrite(t, u) ==
  /\ tx[t].pc \in {"settleWrite", "redeemWrite", "clawWrite"}
  /\ tx[t].u = u
  /\ tx[t].seen # balance[u]

Drift(u) == balance[u] - audited[u]

\* The stored balance and the audit log of a wallet come apart only in a step
\* that commits a balance computed from an unlocked read that went stale. The
\* locked paths (reserve, refund) and every serial history keep them together.
DriftOnlyByStaleWrite ==
  [][\A u \in Users : Drift(u)' # Drift(u) => \E t \in Txns : StaleWrite(t, u)]_vars

\* Until the first chargeback no interleaving overdraws a wallet, not even one
\* that loses an update: the only debit without a balance check is the clawback.
SolventUntilChargeback ==
  chargebackReceipt = {} => \A u \in Users : balance[u] >= 0

Payment == [q \in Quotes |-> IF q \in topUpQuote THEN "quoted"
                             ELSE IF q \in paymentReceipt THEN "received"
                             ELSE IF q \in chargebackReceipt THEN "chargedback"
                             ELSE "none"]
Gift == [q \in Quotes |-> IF q \in unredeemedGift THEN "unredeemed"
                          ELSE IF q \in redeemedGift THEN "redeemed"
                          ELSE "none"]

Promise == INSTANCE TopUpPromise
             WITH payment <- Payment, gift <- Gift, credited <- audited

\* The one step of the code that is not one of the promise: the chargeback of a gift
\* that leaves the gift to be redeemed, or the credits with who redeemed it.
GiftLeft(q) ==
  /\ Payment[q] = "received"
  /\ Payment' = [Payment EXCEPT ![q] = "chargedback"]
  /\ UNCHANGED <<Gift, redeemer, audited>>

\* In every interleaving a quote credits its destination once, a gift is redeemed
\* once and a wallet's top up is taken back from it once: the audit log adds up to
\* that. Only a gift's chargeback may take nothing back (ChargebackDeletesGift).
PromiseButForGifts ==
  Promise!Init /\ [][Promise!Next \/ \E q \in Gifts : GiftLeft(q)]_(Promise!vars)

\* postgres.int.test.ts:287 "increments existing user's balance as expected": a
\* wallet's balance is what its payments and uploads add up to.
BalanceIsAuditTotal == \A u \in Users : balance[u] = audited[u]

\* postgres.ts:881 "When no redeemed exists yet, delete the unredeemed gift": a
\* charged back gift can no longer be waiting for its recipient.
ChargebackDeletesGift == chargebackReceipt \cap unredeemedGift = {}

=============================================================================
