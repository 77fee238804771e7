----------------------------- MODULE TopUpProofs -----------------------------
(***************************************************************************)
(* What holds of TopUpLedger for every set of quotes, wallets, uploads and *)
(* open transactions, and then of StripeWebhook for every set of handlers. *)
(* The inductive invariant of the first is LedgerInv; its parts are        *)
(* checked by TLC as invariants of MC_TopUpLedger. The webhook's steps on  *)
(* the database are the ledger's, so that what is proved of the ledger     *)
(* holds below the webhook, and a payment handled once is never both       *)
(* credited and refunded.                                                  *)
(***************************************************************************)
EXTENDS StripeWebhook, TLAPS

LedgerInv == TypeOK /\ OneTablePerQuote /\ TransactionsHold /\ NoRowNoCredit

(* The initial state satisfies the invariant.                              *)
LEMMA InitLedger == Init => LedgerInv
  BY LedgerAssumption
  DEF Init, LedgerInv, TypeOK, OneTablePerQuote, TransactionsHold, Holds,
      HoldsQuote, HoldsGift, NoRowNoCredit, Transactions, PCs, Idle, Gifts

-----------------------------------------------------------------------------
(* Types                                                                   *)

(* Ending a transaction leaves its record a transaction record.            *)
LEMMA EndTyped ==
  ASSUME TypeOK, NEW t \in Txns, End(t)
  PROVE  tx' \in [Txns -> Transactions]
  BY DEF TypeOK, End, Idle, Transactions, PCs

(* So does starting it.                                                    *)
LEMMA BeginTyped ==
  ASSUME TypeOK, NEW t \in Txns, NEW pc \in PCs, NEW q \in Quotes \cup {None},
         NEW u \in Users \cup {None}, Begin(t, pc, q, u)
  PROVE  tx' \in [Txns -> Transactions]
  BY DEF TypeOK, Begin, Transactions

(* So does moving it to another statement.                                 *)
LEMMA GotoTyped ==
  ASSUME TypeOK, NEW t \in Txns, NEW pc \in PCs, Goto(t, pc)
  PROVE  tx' \in [Txns -> Transactions]
  BY DEF TypeOK, Goto, Transactions

(* And reading a user row.                                                 *)
LEMMA ReadUserTyped ==
  ASSUME TypeOK, NEW t \in Txns, NEW u \in Users, NEW pc \in PCs, ReadUser(t, u, pc)
  PROVE  tx' \in [Txns -> Transactions]
<1> DEFINE read == [tx[t] EXCEPT !.pc = pc, !.u = u, !.found = u \in user, !.seen = balance[u]]
<1>1. tx[t] \in Transactions /\ balance[u] \in Int /\ (u \in user) \in BOOLEAN
  BY DEF TypeOK
<1>2. read \in Transactions
  BY <1>1 DEF Transactions
<1>3. tx' = [tx EXCEPT ![t] = read]
  BY DEF ReadUser
<1>4. QED
  BY <1>2, <1>3 DEF TypeOK

(* Writing an integer balance with an integer audit row keeps both typed.  *)
LEMMA SetBalanceTyped ==
  ASSUME TypeOK, NEW u \in Users, NEW b \in Int, NEW c \in Int, SetBalance(u, b, c)
  PROVE  balance' \in [Users -> Int] /\ audited' \in [Users -> Int]
  BY DEF TypeOK, SetBalance

(* Every action keeps the types, given what transactions hold.             *)
LEMMA TypeStep == LedgerInv /\ [Next]_vars => TypeOK'
<1> SUFFICES ASSUME LedgerInv, [Next]_vars PROVE TypeOK'
  OBVIOUS
<1> USE LedgerAssumption DEF LedgerInv
<1>q. ASSUME NEW q \in Quotes, CreateTopUpQuote(q) \/ Lapse(q) PROVE TypeOK'
  BY <1>q DEF CreateTopUpQuote, Lapse, TypeOK, tables, gifts, money, uploads
<1>1. ASSUME NEW t \in Txns, NEW q \in Quotes, ReadQuote(t, q) \/ ReadReceipt(t, q)
      PROVE  TypeOK'
  <2>1. tx' \in [Txns -> Transactions]
    BY <1>1, BeginTyped DEF ReadQuote, ReadReceipt, PCs
  <2>2. QED
    BY <1>1, <2>1 DEF ReadQuote, ReadReceipt, TypeOK, tables, gifts, money, uploads
<1>2. ASSUME NEW t \in Txns, NEW q \in Quotes, NEW u \in Users, ReadGift(t, q, u)
      PROVE  TypeOK'
  <2>1. tx' \in [Txns -> Transactions]
    BY <1>2, BeginTyped DEF ReadGift, PCs
  <2>2. QED
    BY <1>2, <2>1 DEF ReadGift, TypeOK, tables, gifts, money, uploads
<1>3. ASSUME NEW t \in Txns, DeleteQuote(t) PROVE TypeOK'
  <2>1. tx' \in [Txns -> Transactions]
    BY <1>3, EndTyped, GotoTyped DEF DeleteQuote, PCs
  <2>2. QED
    BY <1>3, <2>1 DEF DeleteQuote, TypeOK, tables, gifts, money, uploads
<1>4. ASSUME NEW t \in Txns, CommitGift(t) PROVE TypeOK'
  <2>1. tx' \in [Txns -> Transactions]
    BY <1>4, EndTyped DEF CommitGift
  <2>2. tx[t].q \in Quotes
    BY <1>4 DEF CommitGift, TransactionsHold, Holds
  <2>3. QED
    BY <1>4, <2>1, <2>2 DEF CommitGift, MoveToReceipt, TypeOK, money, uploads
<1>5. ASSUME NEW t \in Txns, ReadDestination(t) PROVE TypeOK'
  <2>1. Dest[tx[t].q] \in Users
    BY <1>5 DEF ReadDestination, TransactionsHold, Holds
  <2>2. tx' \in [Txns -> Transactions]
    BY <1>5, <2>1, ReadUserTyped DEF ReadDestination, PCs
  <2>3. QED
    BY <1>5, <2>2 DEF ReadDestination, TypeOK, tables, gifts, money, uploads
<1>6. ASSUME NEW t \in Txns, CommitReceipt(t) \/ CommitRedeem(t) PROVE TypeOK'
  <2>1. tx' \in [Txns -> Transactions]
    BY <1>6, EndTyped DEF CommitReceipt, CommitRedeem
  <2>2. tx[t].q \in Quotes /\ tx[t].u \in Users /\ tx[t].seen \in Int
    BY <1>6 DEF CommitReceipt, CommitRedeem, TransactionsHold, Holds, TypeOK, Transactions
  <2>3. /\ SetBalance(tx[t].u, tx[t].seen + Winc[tx[t].q], Winc[tx[t].q])
        /\ user' = user \cup {tx[t].u}
    BY <1>6 DEF CommitReceipt, CommitRedeem, CreditSeen
  <2>4. Winc[tx[t].q] \in Int /\ tx[t].seen + Winc[tx[t].q] \in Int
    BY <2>2
  <2>5. balance' \in [Users -> Int] /\ audited' \in [Users -> Int]
    BY <2>2, <2>3, <2>4, SetBalanceTyped
  <2>6. QED
    BY <1>6, <2>1, <2>2, <2>3, <2>5
    DEF CommitReceipt, CommitRedeem, MoveToReceipt, TypeOK, tables, gifts, uploads
<1>7. ASSUME NEW t \in Txns, DeleteGift(t) PROVE TypeOK'
  <2>1. tx' \in [Txns -> Transactions]
    BY <1>7, EndTyped, GotoTyped DEF DeleteGift, PCs
  <2>2. QED
    BY <1>7, <2>1 DEF DeleteGift, TypeOK, tables, gifts, money, uploads
<1>8. ASSUME NEW t \in Txns, ReadRedeemer(t) PROVE TypeOK'
  <2>1. tx[t].u \in Users
    BY <1>8 DEF ReadRedeemer, TransactionsHold, Holds
  <2>2. tx' \in [Txns -> Transactions]
    BY <1>8, <2>1, ReadUserTyped DEF ReadRedeemer, PCs
  <2>3. QED
    BY <1>8, <2>2 DEF ReadRedeemer, TypeOK, tables, gifts, money, uploads
<1>9. ASSUME NEW t \in Txns, ReadDebtor(t) PROVE TypeOK'
  <2>1. Dest[tx[t].q] \in Users
    BY <1>9 DEF ReadDebtor, TypeOK
  <2>2. tx' \in [Txns -> Transactions]
    BY <1>9, <2>1, ReadUserTyped DEF ReadDebtor, PCs
  <2>3. QED
    BY <1>9, <2>2 DEF ReadDebtor, TypeOK, tables, gifts, money, uploads
<1>10. ASSUME NEW t \in Txns, CommitChargeback(t) PROVE TypeOK'
  <2>1. tx' \in [Txns -> Transactions]
    BY <1>10, EndTyped DEF CommitChargeback
  <2>2. tx[t].q \in Quotes /\ tx[t].seen \in Int
    BY <1>10 DEF CommitChargeback, TypeOK, Transactions
  <2>3. CASE tx[t].pc = "clawWrite" /\ ClawBack(t)
    <3>1. tx[t].u \in Users
      BY <2>3 DEF TransactionsHold, Holds, TypeOK
    <3>2. -Winc[tx[t].q] \in Int /\ tx[t].seen - Winc[tx[t].q] \in Int
      BY <2>2
    <3>3. balance' \in [Users -> Int] /\ audited' \in [Users -> Int]
      BY <2>3, <3>1, <3>2, SetBalanceTyped DEF ClawBack
    <3>4. QED
      BY <1>10, <2>1, <2>2, <2>3, <3>3
      DEF CommitChargeback, MoveToChargeback, ClawBack, TypeOK, gifts, uploads
  <2>4. CASE UNCHANGED money
    BY <1>10, <2>1, <2>2, <2>4
    DEF CommitChargeback, MoveToChargeback, TypeOK, gifts, uploads, money
  <2>5. QED
    BY <1>10, <2>3, <2>4 DEF CommitChargeback
<1>11. ASSUME NEW t \in Txns, Fail(t) \/ Abort(t) PROVE TypeOK'
  <2>1. tx' \in [Txns -> Transactions]
    BY <1>11, EndTyped DEF Fail, Abort, RollBack
  <2>2. QED
    BY <1>11, <2>1 DEF Fail, Abort, RollBack, TypeOK, tables, gifts, money, uploads
<1>12. ASSUME NEW d \in DataItems, NEW u \in Users, ReserveBalance(d, u) PROVE TypeOK'
  <2>1. balance' \in [Users -> Int] /\ audited' \in [Users -> Int]
    BY <1>12, SetBalanceTyped DEF ReserveBalance, TypeOK
  <2>2. QED
    BY <1>12, <2>1 DEF ReserveBalance, TypeOK, tables, gifts
<1>13. ASSUME NEW d \in DataItems, RefundBalance(d) PROVE TypeOK'
  <2>1. reserved[d] \in Users
    BY <1>13 DEF RefundBalance, TypeOK
  <2>2. balance' \in [Users -> Int] /\ audited' \in [Users -> Int]
    BY <1>13, <2>1, SetBalanceTyped DEF RefundBalance, TypeOK
  <2>3. refunds' \in [DataItems -> 0 .. MaxRefunds]
    BY <1>13 DEF RefundBalance, TypeOK
  <2>4. QED
    BY <1>13, <2>2, <2>3 DEF RefundBalance, TypeOK, tables, gifts
<1>14. CASE UNCHANGED vars
  BY <1>14 DEF vars, TypeOK, tables, gifts, money, uploads
<1>15. QED
  BY <1>q, <1>1, <1>2, <1>3, <1>4, <1>5, <1>6, <1>7, <1>8, <1>9, <1>10, <1>11,
     <1>12, <1>13, <1>14 DEF Next, Settle, RedeemStep, ClawStep

-----------------------------------------------------------------------------
(* Tables. Only three actions move a quote between tables, each from the   *)
(* table the transaction still finds it in.                                *)

LEMMA TablesStep == LedgerInv /\ [Next]_vars => OneTablePerQuote'
<1> SUFFICES ASSUME LedgerInv, [Next]_vars PROVE OneTablePerQuote'
  OBVIOUS
<1> USE DEF LedgerInv
<1>1. ASSUME NEW q \in Quotes, CreateTopUpQuote(q) PROVE OneTablePerQuote'
  BY <1>1 DEF CreateTopUpQuote, Known, OneTablePerQuote, Gifts, gifts
<1>2. ASSUME NEW t \in Txns, CommitGift(t) PROVE OneTablePerQuote'
  <2>1. tx[t].q \in topUpQuote /\ tx[t].q \in Gifts
    BY <1>2 DEF CommitGift, TransactionsHold, Holds, HoldsQuote, Gifts
  <2>2. QED
    BY <1>2, <2>1 DEF CommitGift, MoveToReceipt, OneTablePerQuote, Gifts
<1>3. ASSUME NEW t \in Txns, CommitReceipt(t) PROVE OneTablePerQuote'
  <2>1. tx[t].q \in topUpQuote /\ tx[t].q \notin Gifts
    BY <1>3 DEF CommitReceipt, TransactionsHold, Holds, HoldsQuote, Gifts
  <2>2. QED
    BY <1>3, <2>1 DEF CommitReceipt, MoveToReceipt, OneTablePerQuote, Gifts, gifts
<1>4. ASSUME NEW t \in Txns, CommitRedeem(t) PROVE OneTablePerQuote'
  <2>1. tx[t].q \in unredeemedGift
    BY <1>4 DEF CommitRedeem, TransactionsHold, Holds, HoldsGift
  <2>2. QED
    BY <1>4, <2>1 DEF CommitRedeem, OneTablePerQuote, Gifts, tables
<1>5. ASSUME NEW t \in Txns, CommitChargeback(t) PROVE OneTablePerQuote'
  BY <1>5 DEF CommitChargeback, MoveToChargeback, OneTablePerQuote, Gifts, gifts
<1>6. CASE UNCHANGED <<tables, gifts>>
  BY <1>6 DEF OneTablePerQuote, Gifts, tables, gifts
<1>7. QED
  BY <1>1, <1>2, <1>3, <1>4, <1>5, <1>6
  DEF Next, Settle, RedeemStep, ClawStep, Lapse, ReadQuote, ReadReceipt, ReadGift,
      DeleteQuote, ReadDestination, DeleteGift, ReadRedeemer, ReadDebtor, Fail, Abort,
      RollBack, ReserveBalance, RefundBalance, vars

(* A wallet is credited together with its user row, and debited only with  *)
(* one.                                                                    *)
LEMMA RowStep == LedgerInv /\ [Next]_vars => NoRowNoCredit'
<1> SUFFICES ASSUME LedgerInv, [Next]_vars PROVE NoRowNoCredit'
  OBVIOUS
<1> USE LedgerAssumption DEF LedgerInv
<1>1. ASSUME NEW t \in Txns, CommitReceipt(t) \/ CommitRedeem(t) PROVE NoRowNoCredit'
  BY <1>1 DEF CommitReceipt, CommitRedeem, CreditSeen, SetBalance, NoRowNoCredit,
              TypeOK, uploads
<1>2. ASSUME NEW t \in Txns, CommitChargeback(t) PROVE NoRowNoCredit'
  <2>1. CASE tx[t].pc = "clawWrite" /\ ClawBack(t)
    <3>1. tx[t].u \in user
      BY <2>1 DEF TransactionsHold, Holds
    <3>2. QED
      BY <1>2, <2>1, <3>1
      DEF CommitChargeback, ClawBack, SetBalance, NoRowNoCredit, TypeOK, uploads
  <2>2. CASE UNCHANGED money
    BY <1>2, <2>2 DEF CommitChargeback, NoRowNoCredit, money, uploads
  <2>3. QED
    BY <1>2, <2>1, <2>2 DEF CommitChargeback
<1>3. ASSUME NEW d \in DataItems, NEW u \in Users, ReserveBalance(d, u)
      PROVE  NoRowNoCredit'
  <2>1. u \in user
    BY <1>3 DEF ReserveBalance, NoRowNoCredit, TypeOK
  <2>2. QED
    BY <1>3, <2>1 DEF ReserveBalance, SetBalance, NoRowNoCredit, TypeOK
<1>4. ASSUME NEW d \in DataItems, RefundBalance(d) PROVE NoRowNoCredit'
  BY <1>4 DEF RefundBalance, SetBalance, NoRowNoCredit, TypeOK
<1>5. CASE UNCHANGED <<money, uploads>>
  BY <1>5 DEF NoRowNoCredit, money, uploads
<1>6. QED
  BY <1>1, <1>2, <1>3, <1>4, <1>5
  DEF Next, Settle, RedeemStep, ClawStep, CreateTopUpQuote, Lapse, ReadQuote,
      ReadReceipt, ReadGift, DeleteQuote, CommitGift, ReadDestination, DeleteGift,
      ReadRedeemer, ReadDebtor, Fail, Abort, RollBack, vars

-----------------------------------------------------------------------------
(* Locks. A step of one transaction leaves the records of the others as    *)
(* they are, and moves no row that another one deleted.                    *)

(* A step that moves no row out of top_up_quote or unredeemed_gift leaves  *)
(* alone what the transactions that did not step hold, unless the one that *)
(* stepped took a lock.                                                    *)
LEMMA OthersHold ==
  ASSUME LedgerInv, NEW t \in Txns, NEW s \in Txns \ {t},
         tx'[s] = tx[s],
         user \subseteq user',
         unredeemedGift \cup redeemedGift \subseteq unredeemedGift' \cup redeemedGift',
         HoldsQuote(s) => tx[s].q \in topUpQuote',
         HoldsGift(s) => tx[s].q \in unredeemedGift',
         HoldsQuote(s) /\ HoldsQuote(t)' => tx'[t].q # tx[s].q,
         HoldsGift(s) /\ HoldsGift(t)' => tx'[t].q # tx[s].q,
         \A r \in Txns \ {t} : tx'[r] = tx[r]
  PROVE  Holds(s)'
  BY DEF LedgerInv, TransactionsHold, Holds, HoldsQuote, HoldsGift

LEMMA HoldStep == LedgerInv /\ [Next]_vars => TransactionsHold'
<1> SUFFICES ASSUME LedgerInv, [Next]_vars PROVE TransactionsHold'
  OBVIOUS
<1> USE LedgerAssumption
<1>0. ASSUME UNCHANGED tx, UNCHANGED <<unredeemedGift, redeemedGift>>,
             topUpQuote \subseteq topUpQuote', UNCHANGED user
      PROVE  TransactionsHold'
  BY <1>0 DEF LedgerInv, TransactionsHold, Holds, HoldsQuote, HoldsGift
<1>1. ASSUME NEW t \in Txns, NEW q \in Quotes,
             \/ ReadQuote(t, q) \/ ReadReceipt(t, q)
             \/ \E u \in Users : ReadGift(t, q, u)
      PROVE  TransactionsHold'
  <2>1. Holds(t)'
    BY <1>1 DEF LedgerInv, TypeOK, ReadQuote, ReadReceipt, ReadGift, Begin, Holds,
                HoldsQuote, HoldsGift, tables, gifts, money
  <2>2. ASSUME NEW s \in Txns \ {t} PROVE Holds(s)'
    BY <1>1, <2>2
    DEF LedgerInv, TypeOK, TransactionsHold, Holds, HoldsQuote, HoldsGift, ReadQuote,
        ReadReceipt, ReadGift, Begin, tables, gifts, money
  <2>3. QED
    BY <2>1, <2>2 DEF TransactionsHold
<1>2. ASSUME NEW t \in Txns,
             DeleteQuote(t) \/ DeleteGift(t) \/ ReadDestination(t) \/ ReadRedeemer(t)
               \/ ReadDebtor(t) \/ Fail(t) \/ Abort(t)
      PROVE  TransactionsHold'
  <2>1. UNCHANGED <<tables, gifts, user>>
    BY <1>2 DEF DeleteQuote, DeleteGift, ReadDestination, ReadRedeemer, ReadDebtor, Fail,
                Abort, RollBack, money
  <2>2. \A s \in Txns \ {t} : tx'[s] = tx[s]
    BY <1>2 DEF LedgerInv, TypeOK, DeleteQuote, DeleteGift, ReadDestination, ReadRedeemer,
                ReadDebtor, Fail, Abort, RollBack, End, Goto, ReadUser
  <2>3. Holds(t)'
    <3> USE <2>1, <2>2 DEF LedgerInv, Holds, HoldsQuote, HoldsGift, tables, gifts
    <3>1. CASE DeleteQuote(t)
      BY <3>1 DEF DeleteQuote, TransactionsHold, TypeOK, Transactions, End, Idle, Goto,
                  QuoteLocked
    <3>2. CASE DeleteGift(t)
      BY <3>2 DEF DeleteGift, TransactionsHold, TypeOK, Transactions, End, Idle, Goto,
                  GiftLocked
    <3>3. CASE ReadDestination(t) \/ ReadRedeemer(t) \/ ReadDebtor(t)
      <4>1. PICK u, pc : ReadUser(t, u, pc) /\
              \/ /\ tx[t].pc = "settleCredit" /\ pc = "settleWrite"
                 /\ Dest[tx[t].q] # Email /\ u = Dest[tx[t].q]
              \/ tx[t].pc = "redeemCredit" /\ pc = "redeemWrite" /\ u = tx[t].u
              \/ /\ tx[t].pc = "clawRead" /\ pc = "clawWrite"
                 /\ u \in user /\ u = Dest[tx[t].q]
        BY <3>3 DEF ReadDestination, ReadRedeemer, ReadDebtor
      <4>2. tx'[t].pc = pc /\ tx'[t].u = u /\ tx'[t].q = tx[t].q
        BY <4>1 DEF ReadUser, TypeOK, Transactions
      <4>3. QED
        BY <4>1, <4>2 DEF TransactionsHold
    <3>4. CASE Fail(t) \/ Abort(t)
      BY <3>4 DEF Fail, Abort, RollBack, End, Idle, TypeOK
    <3>5. QED
      BY <1>2, <3>1, <3>2, <3>3, <3>4
  <2>4. QED
    BY <2>1, <2>2, <2>3
    DEF LedgerInv, TransactionsHold, Holds, HoldsQuote, HoldsGift, tables, gifts
<1>3. ASSUME NEW t \in Txns, CommitGift(t) \/ CommitReceipt(t) \/ CommitRedeem(t)
               \/ CommitChargeback(t)
      PROVE  TransactionsHold'
  <2>1. /\ tx'[t] = Idle
        /\ \A s \in Txns \ {t} : tx'[s] = tx[s]
    BY <1>3 DEF LedgerInv, TypeOK, CommitGift, CommitReceipt, CommitRedeem,
                CommitChargeback, End
  <2>2. user \subseteq user'
    BY <1>3 DEF CommitGift, CommitReceipt, CommitRedeem, CommitChargeback, CreditSeen,
                ClawBack, money
  <2>3. ASSUME NEW s \in Txns \ {t}
        PROVE  /\ HoldsQuote(s) => tx[s].q \in topUpQuote'
               /\ HoldsGift(s) => tx[s].q \in unredeemedGift'
    BY <1>3, <2>3
    DEF LedgerInv, TransactionsHold, Holds, HoldsQuote, HoldsGift, CommitGift,
        CommitReceipt, CommitRedeem, CommitChargeback, MoveToReceipt, MoveToChargeback,
        tables, gifts
  <2>4. unredeemedGift \cup redeemedGift \subseteq unredeemedGift' \cup redeemedGift'
    BY <1>3 DEF CommitGift, CommitReceipt, CommitRedeem, CommitChargeback, gifts
  <2>5. Holds(t)' /\ ~HoldsQuote(t)' /\ ~HoldsGift(t)'
    BY <2>1 DEF Idle, Holds, HoldsQuote, HoldsGift
  <2>6. QED
    BY <2>1, <2>2, <2>3, <2>4, <2>5, OthersHold DEF TransactionsHold
<1>4. QED
  BY <1>0, <1>1, <1>2, <1>3
  DEF Next, Settle, RedeemStep, ClawStep, CreateTopUpQuote, Lapse, ReserveBalance,
      RefundBalance, gifts, tables, money, vars

-----------------------------------------------------------------------------
(* The invariant holds, and with it what TLC checks on a small instance.   *)

LEMMA LedgerInvariant == Spec => []LedgerInv
<1>1. LedgerInv /\ [Next]_vars => LedgerInv'
  BY TypeStep, TablesStep, HoldStep, RowStep DEF LedgerInv
<1>2. QED
  BY InitLedger, <1>1, PTL DEF Spec

(* Every reachable state is well typed.                                    *)
THEOREM LedgerTyped == Spec => []TypeOK
  BY LedgerInvariant, PTL DEF LedgerInv

(* Whatever deliveries of a Stripe event, redemptions and disputes run at  *)
(* once, a quote is in one payment table at most and its gift in one.      *)
THEOREM OneTable == Spec => []OneTablePerQuote
  BY LedgerInvariant, PTL DEF LedgerInv

(* The row a transaction deleted stays its own until it commits, although  *)
(* it was found by a SELECT that takes no lock.                            *)
THEOREM RowsHeld == Spec => []TransactionsHold
  BY LedgerInvariant, PTL DEF LedgerInv

(* No wallet holds or owes credits without a user row.                     *)
THEOREM RowBeforeCredit == Spec => []NoRowNoCredit
  BY LedgerInvariant, PTL DEF LedgerInv

-----------------------------------------------------------------------------
(* Lost updates are the only way a balance and its audit log come apart.   *)

(* A credit or debit computed from the current balance keeps the drift.    *)
LEMMA DriftOfWrite ==
  ASSUME TypeOK, NEW w \in Users, NEW u \in Users, NEW b \in Int, NEW c \in Int,
         SetBalance(w, b + c, c), u # w \/ b = balance[w]
  PROVE  Drift(u)' = Drift(u)
  BY DEF TypeOK, SetBalance, Drift

LEMMA DriftStep ==
  LedgerInv /\ [Next]_vars =>
    \A u \in Users : Drift(u)' # Drift(u) => \E t \in Txns : StaleWrite(t, u)
<1> SUFFICES ASSUME LedgerInv, [Next]_vars, NEW u \in Users,
                    \A t \in Txns : ~StaleWrite(t, u)
             PROVE  Drift(u)' = Drift(u)
  OBVIOUS
<1> USE LedgerAssumption DEF LedgerInv
<1>1. ASSUME NEW t \in Txns, CommitReceipt(t) \/ CommitRedeem(t)
      PROVE  Drift(u)' = Drift(u)
  <2>1. tx[t].u \in Users /\ tx[t].seen \in Int /\ Winc[tx[t].q] \in Int
    BY <1>1 DEF CommitReceipt, CommitRedeem, TransactionsHold, Holds, TypeOK, Transactions
  <2>2. tx[t].u # u \/ tx[t].seen = balance[tx[t].u]
    BY <1>1 DEF CommitReceipt, CommitRedeem, StaleWrite
  <2>3. SetBalance(tx[t].u, tx[t].seen + Winc[tx[t].q], Winc[tx[t].q])
    BY <1>1 DEF CommitReceipt, CommitRedeem, CreditSeen
  <2>4. QED
    BY <2>1, <2>2, <2>3, DriftOfWrite
<1>2. ASSUME NEW t \in Txns, CommitChargeback(t) PROVE Drift(u)' = Drift(u)
  <2>1. CASE tx[t].pc = "clawWrite" /\ ClawBack(t)
    <3>1. tx[t].u \in Users /\ tx[t].seen \in Int /\ -Winc[tx[t].q] \in Int
      BY <1>2, <2>1 DEF CommitChargeback, TransactionsHold, Holds, TypeOK, Transactions
    <3>2. tx[t].u # u \/ tx[t].seen = balance[tx[t].u]
      BY <2>1 DEF StaleWrite
    <3>3. Winc[tx[t].q] \in Int
      BY <1>2 DEF CommitChargeback, TypeOK
    <3>4. tx[t].seen - Winc[tx[t].q] = tx[t].seen + (-Winc[tx[t].q])
      BY <3>1, <3>3
    <3>5. SetBalance(tx[t].u, tx[t].seen + (-Winc[tx[t].q]), -Winc[tx[t].q])
      BY <2>1, <3>4 DEF ClawBack
    <3>6. QED
      BY <3>1, <3>2, <3>5, DriftOfWrite
  <2>2. CASE UNCHANGED money
    BY <2>2 DEF money, Drift
  <2>3. QED
    BY <1>2, <2>1, <2>2 DEF CommitChargeback
<1>3. ASSUME NEW d \in DataItems, NEW w \in Users, ReserveBalance(d, w)
      PROVE  Drift(u)' = Drift(u)
  BY <1>3 DEF ReserveBalance, SetBalance, Drift, TypeOK
<1>4. ASSUME NEW d \in DataItems, RefundBalance(d) PROVE Drift(u)' = Drift(u)
  BY <1>4 DEF RefundBalance, SetBalance, Drift, TypeOK
<1>5. CASE UNCHANGED money
  BY <1>5 DEF money, Drift
<1>6. QED
  BY <1>1, <1>2, <1>3, <1>4, <1>5
  DEF Next, Settle, RedeemStep, ClawStep, CreateTopUpQuote, Lapse, ReadQuote,
      ReadReceipt, ReadGift, DeleteQuote, CommitGift, ReadDestination, DeleteGift,
      ReadRedeemer, ReadDebtor, Fail, Abort, RollBack, vars

(* The balance of a wallet and the total of its audit log move together in *)
(* every step but the commit of a balance computed from a read that went   *)
(* stale.                                                                  *)
THEOREM DriftTheorem == Spec => DriftOnlyByStaleWrite
<1>1. LedgerInv /\ [Next]_vars =>
        [\A u \in Users : Drift(u)' # Drift(u) => \E t \in Txns : StaleWrite(t, u)]_vars
  BY DriftStep
<1>2. QED
  BY LedgerInvariant, <1>1, PTL DEF Spec, DriftOnlyByStaleWrite

-----------------------------------------------------------------------------
(* Until a chargeback nobody is overdrawn: a transaction computes a balance *)
(* from one that was not negative either.                                  *)

Solvent ==
  chargebackReceipt = {} =>
    /\ \A u \in Users : balance[u] >= 0
    /\ \A t \in Txns : tx[t].seen >= 0

LEMMA SolventStep == LedgerInv /\ Solvent /\ [Next]_vars => Solvent'
<1> SUFFICES ASSUME LedgerInv, Solvent, [Next]_vars, chargebackReceipt' = {}
             PROVE  /\ \A u \in Users : balance'[u] >= 0
                    /\ \A t \in Txns : tx'[t].seen >= 0
  BY DEF Solvent
<1> USE LedgerAssumption DEF LedgerInv
<1>a. chargebackReceipt = {} /\ \A t \in Txns : ~CommitChargeback(t)
  BY DEF Next, Settle, RedeemStep, ClawStep, CreateTopUpQuote, Lapse, ReadQuote,
         ReadReceipt, ReadGift, DeleteQuote, CommitGift, ReadDestination, CommitReceipt,
         DeleteGift, ReadRedeemer, CommitRedeem, ReadDebtor, CommitChargeback,
         MoveToReceipt, MoveToChargeback, Fail, Abort, RollBack, ReserveBalance,
         RefundBalance, tables, vars
<1>b. (\A u \in Users : balance[u] >= 0) /\ (\A t \in Txns : tx[t].seen >= 0)
  BY <1>a DEF Solvent
<1>1. \A t \in Txns : tx'[t].seen >= 0
  <2> USE <1>b DEF TypeOK, Transactions
  <2>1. ASSUME NEW t \in Txns, NEW u \in Users, NEW pc, ReadUser(t, u, pc)
        PROVE  \A s \in Txns : tx'[s].seen >= 0
    BY <2>1 DEF ReadUser
  <2>2. ASSUME NEW t \in Txns, ReadDestination(t) \/ ReadRedeemer(t) \/ ReadDebtor(t)
        PROVE  \A s \in Txns : tx'[s].seen >= 0
    <3>1. PICK u \in Users, pc \in PCs : ReadUser(t, u, pc)
      BY <2>2 DEF ReadDestination, ReadRedeemer, ReadDebtor, TransactionsHold, Holds, PCs
    <3>2. QED
      BY <2>1, <3>1
  <2>3. ASSUME NEW t \in Txns, End(t) PROVE \A s \in Txns : tx'[s].seen >= 0
    BY <2>3 DEF End, Idle
  <2>4. ASSUME NEW t \in Txns, NEW pc, Goto(t, pc)
        PROVE  \A s \in Txns : tx'[s].seen >= 0
    BY <2>4 DEF Goto
  <2>5. ASSUME NEW t \in Txns, NEW pc, NEW q, NEW u, Begin(t, pc, q, u)
        PROVE  \A s \in Txns : tx'[s].seen >= 0
    BY <2>5 DEF Begin
  <2>6. CASE UNCHANGED tx
    BY <2>6
  <2>7. QED
    BY <1>a, <2>2, <2>3, <2>4, <2>5, <2>6
    DEF Next, Settle, RedeemStep, ClawStep, CreateTopUpQuote, Lapse, ReadQuote,
        ReadReceipt, ReadGift, DeleteQuote, CommitGift, CommitReceipt, DeleteGift,
        CommitRedeem, Fail, Abort, RollBack, ReserveBalance, RefundBalance, vars
<1>2. \A u \in Users : balance'[u] >= 0
  <2>1. ASSUME NEW t \in Txns, CommitReceipt(t) \/ CommitRedeem(t)
        PROVE  \A u \in Users : balance'[u] >= 0
    <3>1. tx[t].seen \in Int /\ tx[t].seen >= 0 /\ Winc[tx[t].q] \in Nat
      BY <1>b, <2>1
      DEF CommitReceipt, CommitRedeem, TransactionsHold, Holds, TypeOK, Transactions
    <3>2. balance' = [balance EXCEPT ![tx[t].u] = tx[t].seen + Winc[tx[t].q]]
      BY <2>1 DEF CommitReceipt, CommitRedeem, CreditSeen, SetBalance
    <3>3. QED
      BY <1>b, <3>1, <3>2 DEF TypeOK
  <2>2. ASSUME NEW d \in DataItems, NEW w \in Users, ReserveBalance(d, w)
        PROVE  \A u \in Users : balance'[u] >= 0
    BY <1>b, <2>2 DEF ReserveBalance, SetBalance, TypeOK
  <2>3. ASSUME NEW d \in DataItems, RefundBalance(d)
        PROVE  \A u \in Users : balance'[u] >= 0
    BY <1>b, <2>3 DEF RefundBalance, SetBalance, TypeOK
  <2>4. CASE UNCHANGED money
    BY <1>b, <2>4 DEF money
  <2>5. QED
    BY <1>a, <2>1, <2>2, <2>3, <2>4
    DEF Next, Settle, RedeemStep, ClawStep, CreateTopUpQuote, Lapse, ReadQuote,
        ReadReceipt, ReadGift, DeleteQuote, CommitGift, ReadDestination, DeleteGift,
        ReadRedeemer, ReadDebtor, Fail, Abort, RollBack, vars
<1>3. QED
  BY <1>1, <1>2

(* However transactions interleave, a wallet is overdrawn only after some  *)
(* payment was charged back.                                               *)
THEOREM SolventTheorem == Spec => []SolventUntilChargeback
<1>1. Init => Solvent
  BY DEF Init, Solvent, Idle
<1>2. Solvent => SolventUntilChargeback
  BY DEF Solvent, SolventUntilChargeback
<1>3. QED
  BY LedgerInvariant, SolventStep, <1>1, <1>2, PTL DEF Spec

-----------------------------------------------------------------------------
(* Refinement: every step of the database transactions is a step of the    *)
(* promise, or does not show in it.                                        *)

LEMMA PromiseStep ==
  LedgerInv /\ [Next]_vars => [Promise!Next \/ \E q \in Gifts : GiftLeft(q)]_(Promise!vars)
<1> SUFFICES ASSUME LedgerInv, [Next]_vars
             PROVE  \/ Promise!Next \/ \E q \in Gifts : GiftLeft(q)
                    \/ UNCHANGED Promise!vars
  OBVIOUS
<1> USE LedgerAssumption DEF LedgerInv
<1>1. ASSUME NEW q \in Quotes, CreateTopUpQuote(q) PROVE Promise!Offer(q)
  BY <1>1 DEF CreateTopUpQuote, Known, Promise!Offer, Payment, Gift, gifts, money
<1>2. ASSUME NEW t \in Txns, CommitGift(t) PROVE Promise!Receive(tx[t].q)
  <2>1. tx[t].q \in topUpQuote /\ tx[t].q \in Gifts
    BY <1>2 DEF CommitGift, TransactionsHold, Holds, HoldsQuote, Gifts
  <2>2. /\ Payment[tx[t].q] = "quoted"
        /\ Payment' = [Payment EXCEPT ![tx[t].q] = "received"]
    BY <1>2, <2>1 DEF CommitGift, MoveToReceipt, Payment, Gifts
  <2>3. Gift' = [Gift EXCEPT ![tx[t].q] = "unredeemed"]
    BY <1>2, <2>1 DEF CommitGift, Gift, Gifts
  <2>4. QED
    BY <1>2, <2>2, <2>3 DEF CommitGift, Promise!Receive, money
<1>3. ASSUME NEW t \in Txns, CommitReceipt(t) PROVE Promise!Receive(tx[t].q)
  <2>1. tx[t].q \in topUpQuote /\ Dest[tx[t].q] # Email /\ tx[t].u = Dest[tx[t].q]
    BY <1>3 DEF CommitReceipt, TransactionsHold, Holds, HoldsQuote
  <2>2. /\ Payment[tx[t].q] = "quoted"
        /\ Payment' = [Payment EXCEPT ![tx[t].q] = "received"]
    BY <1>3, <2>1 DEF CommitReceipt, MoveToReceipt, Payment, TypeOK
  <2>3. QED
    BY <1>3, <2>1, <2>2
    DEF CommitReceipt, CreditSeen, SetBalance, Promise!Receive, Promise!Owe, Gift, gifts
<1>4. ASSUME NEW t \in Txns, CommitRedeem(t) PROVE Promise!Redeem(tx[t].q, tx[t].u)
  <2>1. tx[t].q \in unredeemedGift /\ tx[t].q \in Quotes
    BY <1>4 DEF CommitRedeem, TransactionsHold, Holds, HoldsGift
  <2>2. /\ Gift[tx[t].q] = "unredeemed"
        /\ Gift' = [Gift EXCEPT ![tx[t].q] = "redeemed"]
    BY <1>4, <2>1 DEF CommitRedeem, Gift
  <2>3. QED
    BY <1>4, <2>2
    DEF CommitRedeem, CreditSeen, SetBalance, Promise!Redeem, Promise!Owe, Payment, tables
<1>5. ASSUME NEW t \in Txns, CommitChargeback(t)
      PROVE  \/ Promise!ChargeBack(tx[t].q)
             \/ tx[t].q \in Gifts /\ GiftLeft(tx[t].q)
  <2>1. /\ Payment[tx[t].q] = "received"
        /\ Payment' = [Payment EXCEPT ![tx[t].q] = "chargedback"]
    BY <1>5 DEF CommitChargeback, MoveToChargeback, Payment, TypeOK, OneTablePerQuote
  <2>2. UNCHANGED <<Gift, redeemer>>
    BY <1>5 DEF CommitChargeback, Gift, gifts
  <2>3. CASE tx[t].pc = "clawWrite" /\ ClawBack(t)
    <3>1. Dest[tx[t].q] # Email /\ tx[t].u = Dest[tx[t].q]
      BY <2>3 DEF TransactionsHold, Holds
    <3>2. QED
      BY <2>1, <2>2, <2>3, <3>1 DEF ClawBack, SetBalance, Promise!ChargeBack, Promise!Owe
  <2>4. CASE tx[t].pc = "clawCommit" /\ UNCHANGED money
    <3>1. tx[t].q \in Gifts
      BY <2>4 DEF TransactionsHold, Holds, Gifts
    <3>2. QED
      BY <2>1, <2>2, <2>4, <3>1 DEF GiftLeft, money
  <2>5. QED
    BY <1>5, <2>3, <2>4 DEF CommitChargeback
<1>6. ASSUME NEW d \in DataItems, NEW u \in Users, ReserveBalance(d, u)
      PROVE  Promise!Spend(d, u)
  BY <1>6 DEF ReserveBalance, SetBalance, Promise!Spend, Promise!Owe, Payment, Gift,
              tables, gifts
<1>7. ASSUME NEW d \in DataItems, RefundBalance(d) PROVE Promise!Refund(d, reserved[d])
  BY <1>7 DEF RefundBalance, SetBalance, Promise!Refund, Promise!Owe, Payment, Gift,
              tables, gifts
<1>8. CASE UNCHANGED <<tables, gifts, audited>>
  BY <1>8 DEF Promise!vars, Payment, Gift, tables, gifts
<1>9. \A t \in Txns : tx[t].pc # "idle" => tx[t].q \in Quotes
  BY DEF TransactionsHold, Holds
<1>10. ASSUME NEW t \in Txns, CommitRedeem(t) PROVE tx[t].u \in Users
  BY <1>10 DEF CommitRedeem, TransactionsHold, Holds
<1>11. ASSUME NEW d \in DataItems, RefundBalance(d) PROVE reserved[d] \in Users
  BY <1>11 DEF RefundBalance, TypeOK
<1>12. CASE \E t \in Txns : CommitGift(t) \/ CommitReceipt(t) \/ CommitRedeem(t)
                              \/ CommitChargeback(t)
  BY <1>2, <1>3, <1>4, <1>5, <1>9, <1>10, <1>12
  DEF CommitGift, CommitReceipt, CommitRedeem, CommitChargeback, Promise!Next
<1>13. QED
  BY <1>1, <1>6, <1>7, <1>8, <1>11, <1>12
  DEF Next, Settle, RedeemStep, ClawStep, Lapse, ReadQuote, ReadReceipt, ReadGift,
      DeleteQuote, ReadDestination, DeleteGift, ReadRedeemer, ReadDebtor, Fail, Abort,
      RollBack, money, vars, Promise!Next

(* The interleaved transactions implement the promise but for one step: a  *)
(* quote is received once, a gift redeemed once, a receipt charged back    *)
(* once, and the audit log of each wallet is exactly what that adds up to; *)
(* the chargeback of a gift may leave the gift and the credits alone.      *)
THEOREM Refinement == Spec => PromiseButForGifts
<1>1. Init => Promise!Init
  BY DEF Init, Promise!Init, Payment, Gift
<1>2. QED
  BY LedgerInvariant, PromiseStep, <1>1, PTL DEF Spec, PromiseButForGifts

(* Where all top ups go to wallets nothing is excepted: the receipts,      *)
(* chargebacks, reservations and refunds implement the whole promise.      *)
THEOREM WalletRefinement ==
  ASSUME Gifts = {}
  PROVE  Spec => Promise!Spec
<1>1. [Promise!Next \/ \E q \in Gifts : GiftLeft(q)]_(Promise!vars) => [Promise!Next]_(Promise!vars)
  OBVIOUS
<1>2. QED
  BY <1>1, Refinement, PTL DEF PromiseButForGifts, Promise!Spec

(* No chargeback ever deletes a gift, redeemed or not: the DELETE of the   *)
(* gift branch of createChargebackReceipt never meets a row.               *)
ChargedBackGiftsStay == chargebackReceipt \cap Gifts \subseteq unredeemedGift \cup redeemedGift

THEOREM GiftsOutliveChargebacks == Spec => []ChargedBackGiftsStay
<1>1. Init => ChargedBackGiftsStay
  BY DEF Init, ChargedBackGiftsStay
<1>2. LedgerInv /\ ChargedBackGiftsStay /\ [Next]_vars => ChargedBackGiftsStay'
  <2> SUFFICES ASSUME LedgerInv, ChargedBackGiftsStay, [Next]_vars
               PROVE  ChargedBackGiftsStay'
    OBVIOUS
  <2> USE DEF ChargedBackGiftsStay, Gifts
  <2>1. ASSUME NEW t \in Txns, CommitGift(t) \/ CommitReceipt(t) \/ CommitRedeem(t)
        PROVE  ChargedBackGiftsStay'
    BY <2>1 DEF CommitGift, CommitReceipt, CommitRedeem, MoveToReceipt, gifts, tables
  <2>2. ASSUME NEW t \in Txns, CommitChargeback(t) PROVE ChargedBackGiftsStay'
    BY <2>2 DEF CommitChargeback, MoveToChargeback, LedgerInv, OneTablePerQuote, gifts
  <2>3. CASE UNCHANGED <<chargebackReceipt, unredeemedGift, redeemedGift>>
    BY <2>3
  <2>4. QED
    BY <2>1, <2>2, <2>3
    DEF Next, Settle, RedeemStep, ClawStep, CreateTopUpQuote, Lapse, ReadQuote, ReadReceipt,
        ReadGift, DeleteQuote, ReadDestination, DeleteGift, ReadRedeemer, ReadDebtor, Fail,
        Abort, RollBack, ReserveBalance, RefundBalance, tables, gifts, vars
<1>3. QED
  BY LedgerInvariant, <1>1, <1>2, PTL DEF Spec

-----------------------------------------------------------------------------
(* The webhook                                                             *)

Handlers ==
  /\ handler \in [Txns -> [stage : Stages, q : Quotes \cup {None}]]
  /\ \A t \in Txns : handler[t].q \in Quotes <=> ~InStage(t, "none")

LEMMA InitHandlers == WebhookInit => Handlers
  BY LedgerAssumption DEF WebhookInit, Handlers, InStage, Free, Stages

(* Moving a handler on keeps its quote, or drops both.                     *)
LEMMA MoveOnHandlers ==
  ASSUME Handlers, NEW t \in Txns, NEW stage \in Stages, MoveOn(t, stage), ~InStage(t, "none")
  PROVE  /\ Handlers'
         /\ handler'[t].stage = stage
         /\ stage # "none" => handler'[t].q = handler[t].q
         /\ stage = "none" => handler'[t].q = None
         /\ \A s \in Txns \ {t} : handler'[s] = handler[s]
  BY LedgerAssumption DEF Handlers, MoveOn, InStage, Free, Stages

LEMMA HandlersStep == Handlers /\ [WebhookNext]_webhookVars => Handlers'
<1> SUFFICES ASSUME Handlers, [WebhookNext]_webhookVars PROVE Handlers'
  OBVIOUS
<1>1. ASSUME NEW t \in Txns, NEW q \in Quotes, Deliver(t, q) PROVE Handlers'
  BY <1>1 DEF Deliver, Handlers, InStage, Stages
<1>2. ASSUME NEW t \in Txns, NEW stage \in Stages, MoveOn(t, stage), ~InStage(t, "none")
      PROVE  Handlers'
  BY <1>2, MoveOnHandlers
<1>3. CASE UNCHANGED handler
  BY <1>3 DEF Handlers, InStage
<1>4. ASSUME NEW t \in Txns, Handle(t) \/ Crash(t) PROVE Handlers'
  <2>1. CASE RefuseQuote(t) \/ FailReceipt(t) \/ LoseAck(t)
    BY <1>2, <2>1 DEF RefuseQuote, FailReceipt, LoseAck, InStage, Stages
  <2>2. CASE StartReceipt(t)
    BY <1>3, <2>2 DEF StartReceipt
  <2>3. CASE Statement(t)
    BY <1>2, <1>3, <2>3 DEF Statement, InStage, Stages
  <2>4. CASE Commit(t)
    BY <1>2, <2>4 DEF Commit, InStage, Stages
  <2>5. CASE CheckExisting(t)
    BY <1>2, <2>5 DEF CheckExisting, InStage, Stages
  <2>6. CASE SendEmail(t) \/ RefundPayment(t) \/ GiveUp(t) \/ CheckFails(t) \/ Crash(t)
    BY <1>2, <2>6 DEF SendEmail, RefundPayment, GiveUp, CheckFails, Crash, InStage, Stages
  <2>7. QED
    BY <1>4, <2>1, <2>2, <2>3, <2>4, <2>5, <2>6 DEF Handle
<1>5. QED
  BY <1>1, <1>3, <1>4 DEF WebhookNext, Offer, Pay, StartDispute, Dispute, Replicate, webhookVars

-----------------------------------------------------------------------------
(* The database below the webhook                                          *)

LEMMA LedgerStep == Handlers /\ [WebhookNext]_webhookVars => [Next]_vars
<1> SUFFICES ASSUME Handlers, [WebhookNext]_webhookVars, ~UNCHANGED vars PROVE Next
  OBVIOUS
<1>1. ASSUME NEW q \in Quotes, Offer(q) PROVE Next
  BY <1>1 DEF Offer, Next
<1>2. ASSUME NEW t \in Txns, NEW q \in Quotes, StartDispute(t, q) PROVE Next
  BY <1>2 DEF StartDispute, Next
<1>3. ASSUME NEW t \in Txns, Dispute(t) PROVE Next
  BY <1>3 DEF Dispute, Next
<1>4. ASSUME NEW t \in Txns, StartReceipt(t) PROVE Next
  <2>1. handler[t].q \in Quotes
    BY <1>4 DEF StartReceipt, Handlers, InStage
  <2>2. QED
    BY <1>4, <2>1 DEF StartReceipt, Next
<1>5. ASSUME NEW t \in Txns, Statement(t) \/ FailReceipt(t) \/ Commit(t) \/ LoseAck(t)
      PROVE  Next
  BY <1>5 DEF Statement, FailReceipt, Commit, LoseAck, Next, Settle
<1>6. ASSUME NEW t \in Txns, Crash(t) PROVE Next
  BY <1>6 DEF Crash, Next
<1>7. QED
  BY <1>1, <1>2, <1>3, <1>4, <1>5, <1>6
  DEF WebhookNext, Handle, Pay, Deliver, RefuseQuote, SendEmail, CheckExisting,
      RefundPayment, GiveUp, CheckFails, Replicate, webhookVars

(* The handlers are composed of the transactions of TopUpLedger, so every  *)
(* theorem about Spec is one about WebhookSpec.                            *)
LEMMA WebhookComposed == WebhookSpec => Spec
<1>1. WebhookInit => Init
  BY DEF WebhookInit
<1>2. QED
  BY <1>1, InitHandlers, HandlersStep, LedgerStep, PTL DEF WebhookSpec, Spec

-----------------------------------------------------------------------------
(* Refund or credit. The invariant says what is known of a payment whose   *)
(* event was delivered once at most: one handler at most has it, and while *)
(* that handler may still credit or refund, it was neither credited nor    *)
(* refunded.                                                               *)

Settling(t) == tx[t].pc \in {"settleDelete", "settleCredit", "settleWrite"}

OwnTransaction == \A t \in Txns :
  Settling(t) => InStage(t, "create") /\ tx[t].q = handler[t].q

Once(q) ==
  /\ deliveries[q] = 0 => Running(q) = {} /\ q \notin Received \cup refunded
  /\ deliveries[q] = 1 => \A s, t \in Running(q) : s = t
  /\ deliveries[q] \in {0, 1} /\ q \notin lostAck =>
       /\ q \notin Received \cap refunded
       /\ \A t \in Running(q) : q \notin refunded
       /\ \A t \in Running(q) : ~InStage(t, "email") => q \notin Received

OnceAll == deliveries \in [Quotes -> Nat] /\ \A q \in Quotes : Once(q)

OnceInv == OwnTransaction /\ OnceAll

LEMMA InitOnce == WebhookInit => OnceInv
  BY LedgerAssumption
  DEF WebhookInit, Init, Idle, Free, OnceInv, OnceAll, OwnTransaction, Settling, InStage, Once,
      Running, Received

(* The transaction records of TopUpLedger after its steps.                 *)
LEMMA EndIdle ==
  ASSUME TypeOK, NEW t \in Txns, End(t)
  PROVE  tx'[t].pc = "idle" /\ \A s \in Txns \ {t} : tx'[s] = tx[s]
  BY DEF TypeOK, End, Idle

LEMMA GotoPc ==
  ASSUME TypeOK, NEW t \in Txns, NEW pc, Goto(t, pc)
  PROVE  /\ tx'[t].pc = pc /\ tx'[t].q = tx[t].q
         /\ \A s \in Txns \ {t} : tx'[s] = tx[s]
  BY DEF TypeOK, Transactions, Goto

LEMMA ReadUserPc ==
  ASSUME TypeOK, NEW t \in Txns, NEW pc, NEW u, ReadUser(t, u, pc)
  PROVE  /\ tx'[t].pc = pc /\ tx'[t].q = tx[t].q
         /\ \A s \in Txns \ {t} : tx'[s] = tx[s]
  BY DEF TypeOK, Transactions, ReadUser

LEMMA BeginPc ==
  ASSUME TypeOK, NEW t \in Txns, NEW pc, NEW q, NEW u, Begin(t, pc, q, u)
  PROVE  /\ tx'[t].pc = pc /\ tx'[t].q = q
         /\ \A s \in Txns \ {t} : tx'[s] = tx[s]
  BY DEF TypeOK, Begin

(* A transaction settles in the stage that creates the receipt only, and   *)
(* for the quote of its handler.                                           *)
LEMMA OwnTransactionStep ==
  LedgerInv /\ Handlers /\ OwnTransaction /\ [WebhookNext]_webhookVars => OwnTransaction'
<1> SUFFICES ASSUME LedgerInv, Handlers, OwnTransaction, [WebhookNext]_webhookVars
             PROVE  OwnTransaction'
  OBVIOUS
<1> USE DEF OwnTransaction, Settling, LedgerInv
<1>1. ASSUME UNCHANGED tx, UNCHANGED handler PROVE OwnTransaction'
  BY <1>1 DEF InStage
<1>2. ASSUME NEW t \in Txns, ~Settling(t)',
             \A s \in Txns \ {t} : tx'[s] = tx[s] /\ handler'[s] = handler[s]
      PROVE  OwnTransaction'
  BY <1>2 DEF InStage
<1>3. ASSUME NEW t \in Txns, NEW q \in Quotes, Deliver(t, q) PROVE OwnTransaction'
  BY <1>2, <1>3 DEF Deliver, Handlers, InStage, vars
<1>4. ASSUME NEW t \in Txns, NEW q \in Quotes, StartDispute(t, q) PROVE OwnTransaction'
  <2>1. tx'[t].pc \in {"clawCommit", "clawRead"} /\ \A s \in Txns \ {t} : tx'[s] = tx[s]
    BY <1>4, BeginPc DEF StartDispute, ReadReceipt
  <2>2. QED
    BY <1>2, <1>4, <2>1 DEF StartDispute
<1>5. ASSUME NEW t \in Txns, Dispute(t) PROVE OwnTransaction'
  <2>1. tx'[t].pc \in {"idle", "clawWrite"} /\ \A s \in Txns \ {t} : tx'[s] = tx[s]
    BY <1>5, EndIdle, ReadUserPc
    DEF Dispute, ClawStep, ReadDebtor, CommitChargeback, Fail, Abort, RollBack
  <2>2. QED
    BY <1>2, <1>5, <2>1 DEF Dispute
<1>6. ASSUME NEW t \in Txns, StartReceipt(t) PROVE OwnTransaction'
  <2>1. tx'[t].q = handler[t].q /\ \A s \in Txns \ {t} : tx'[s] = tx[s]
    BY <1>6, BeginPc DEF StartReceipt, ReadQuote
  <2>2. QED
    BY <1>6, <2>1 DEF StartReceipt, InStage
<1>7. ASSUME NEW t \in Txns, Statement(t) PROVE OwnTransaction'
  <2>1. CASE tx'[t].pc = "idle"
    <3>1. \A s \in Txns \ {t} : tx'[s] = tx[s]
      BY <1>7, EndIdle, GotoPc, ReadUserPc DEF Statement, DeleteQuote, ReadDestination
    <3>2. \A s \in Txns \ {t} : handler'[s] = handler[s]
      BY <1>7, <2>1, MoveOnHandlers DEF Statement, InStage, Stages
    <3>3. QED
      BY <1>2, <2>1, <3>1, <3>2
  <2>2. CASE tx'[t].pc # "idle"
    <3>1. tx'[t].q = tx[t].q /\ \A s \in Txns \ {t} : tx'[s] = tx[s]
      BY <1>7, <2>2, EndIdle, GotoPc, ReadUserPc DEF Statement, DeleteQuote, ReadDestination
    <3>2. tx[t].q = handler[t].q
      BY <1>7 DEF Statement, DeleteQuote, ReadDestination
    <3>3. QED
      BY <1>7, <2>2, <3>1, <3>2 DEF Statement, InStage
  <2>3. QED
    BY <2>1, <2>2
<1>8. ASSUME NEW t \in Txns, FailReceipt(t) \/ Commit(t) \/ LoseAck(t) \/ Crash(t)
      PROVE  OwnTransaction'
  <2>1. tx'[t].pc = "idle" /\ \A s \in Txns \ {t} : tx'[s] = tx[s]
    BY <1>8, EndIdle DEF FailReceipt, Commit, LoseAck, Crash, Fail, Abort, RollBack,
                         CommitGift, CommitReceipt, vars
  <2>2. PICK stage \in Stages : MoveOn(t, stage) /\ ~InStage(t, "none")
    BY <1>8 DEF FailReceipt, Commit, LoseAck, Crash, InStage, Stages
  <2>3. QED
    BY <1>2, <2>1, <2>2, MoveOnHandlers
<1>9. ASSUME NEW t \in Txns, RefuseQuote(t) \/ SendEmail(t) \/ CheckExisting(t)
               \/ RefundPayment(t) \/ GiveUp(t) \/ CheckFails(t)
      PROVE  OwnTransaction'
  <2>1. UNCHANGED tx /\ ~Settling(t)
    BY <1>9 DEF RefuseQuote, SendEmail, CheckExisting, RefundPayment, GiveUp, CheckFails,
                InStage, vars
  <2>2. PICK stage \in Stages : MoveOn(t, stage) /\ ~InStage(t, "none")
    BY <1>9 DEF RefuseQuote, SendEmail, CheckExisting, RefundPayment, GiveUp, CheckFails,
                InStage, Stages
  <2>3. QED
    BY <1>2, <2>1, <2>2, MoveOnHandlers
<1>10. QED
  BY <1>1, <1>3, <1>4, <1>5, <1>6, <1>7, <1>8, <1>9
  DEF WebhookNext, Handle, Offer, Pay, CreateTopUpQuote, Lapse, Replicate, vars, webhookVars

(* Only the commit of a handler's receipt adds to the received payments,   *)
(* and it adds the quote of that handler.                                  *)
LEMMA ReceivedStep ==
  ASSUME LedgerInv, Handlers, OwnTransaction, [WebhookNext]_webhookVars,
         \A t \in Txns : ~Commit(t) /\ ~LoseAck(t)
  PROVE  Received' = Received
<1> USE DEF Received, tables, vars
<1>1. CASE UNCHANGED tables
  BY <1>1
<1>2. ASSUME NEW t \in Txns, CommitChargeback(t) PROVE Received' = Received
  BY <1>2 DEF CommitChargeback, MoveToChargeback
<1>3. ASSUME NEW q \in Quotes, CreateTopUpQuote(q) PROVE Received' = Received
  BY <1>3 DEF CreateTopUpQuote
<1>4. QED
  BY <1>1, <1>2, <1>3
  DEF WebhookNext, Handle, Offer, Pay, Deliver, StartDispute, Dispute, ClawStep, ReadDebtor,
      Crash, RefuseQuote, StartReceipt, Statement, FailReceipt, SendEmail, CheckExisting,
      RefundPayment, GiveUp, CheckFails, Replicate, Lapse, ReadReceipt, Fail, Abort,
      RollBack, ReadQuote, DeleteQuote, ReadDestination, webhookVars

LEMMA CommitReceives ==
  ASSUME LedgerInv, OwnTransaction, NEW t \in Txns, Commit(t) \/ LoseAck(t)
  PROVE  InStage(t, "create") /\ Received' = Received \cup {handler[t].q}
<1>1. tx[t].pc \in {"settleCredit", "settleWrite"}
  BY DEF Commit, LoseAck, CommitGift, CommitReceipt
<1>2. InStage(t, "create") /\ tx[t].q = handler[t].q
  BY <1>1 DEF OwnTransaction, Settling
<1>3. QED
  BY <1>2 DEF Commit, LoseAck, CommitGift, CommitReceipt, MoveToReceipt, Received

LEMMA OnceStep ==
  LedgerInv /\ Handlers /\ OnceInv /\ [WebhookNext]_webhookVars => OnceInv'
<1> SUFFICES ASSUME LedgerInv, Handlers, OnceInv, [WebhookNext]_webhookVars
             PROVE  OnceAll'
  BY OwnTransactionStep DEF OnceInv, OnceAll
<1>1. ASSUME NEW t \in Txns, NEW q \in Quotes, Deliver(t, q)
      PROVE  OnceAll'
  <2> USE DEF OnceInv, OnceAll
  <2>1. /\ deliveries' = [deliveries EXCEPT ![q] = @ + 1]
        /\ handler' = [handler EXCEPT ![t] = [stage |-> "create", q |-> q]]
        /\ UNCHANGED <<refunded, lostAck, Received>>
        /\ handler[t].q \notin Quotes
    BY <1>1 DEF Deliver, Handlers, vars, tables, history, Received
  <2>2. ASSUME NEW p \in Quotes
        PROVE  Running(p)' = IF p = q THEN Running(p) \cup {t} ELSE Running(p)
    BY <2>1 DEF Running, Handlers
  <2>3. ASSUME NEW p \in Quotes, p # q PROVE Once(p)'
    <3>1. Once(p) /\ t \notin Running(p)
      BY <2>1, <2>3 DEF Running
    <3>2. \A s \in Running(p) : handler'[s] = handler[s]
      BY <2>1, <3>1 DEF Handlers, Running
    <3>3. QED
      BY <2>1, <2>2, <2>3, <3>1, <3>2 DEF Once, InStage
  <2>4. Once(q)'
    <3>1. deliveries[q] \in Nat /\ deliveries'[q] = deliveries[q] + 1
      BY <2>1
    <3>2. CASE deliveries[q] = 0
      BY <2>1, <2>2, <3>1, <3>2 DEF Once
    <3>3. CASE deliveries[q] # 0
      BY <3>1, <3>3 DEF Once
    <3>4. QED
      BY <3>2, <3>3
  <2>5. QED
    BY <2>1, <2>3, <2>4 
<1>2. ASSUME NEW t \in Txns, NEW stage \in Stages, MoveOn(t, stage), ~InStage(t, "none"),
             UNCHANGED deliveries, lostAck \subseteq lostAck',
             \/ UNCHANGED <<Received, refunded>> /\ (stage = "email" => InStage(t, "email"))
                  /\ ~InStage(t, "email")
             \/ UNCHANGED <<Received, refunded>> /\ stage = "none"
             \/ /\ Received' = Received \cup {handler[t].q} /\ UNCHANGED refunded
                /\ ~InStage(t, "email")
                /\ stage \in {"none", "email"} \/ handler[t].q \in lostAck'
             \/ /\ refunded' = refunded \cup {handler[t].q} /\ UNCHANGED Received
                /\ stage = "none" /\ ~InStage(t, "email")
      PROVE  OnceAll'
  <2> USE DEF OnceInv, OnceAll
  <2>1. ASSUME NEW p \in Quotes PROVE Once(p)'
    <3>1. /\ Once(p)
          /\ \A s \in Txns \ {t} : handler'[s] = handler[s]
          /\ handler'[t].stage = stage
          /\ handler'[t].q = IF stage = "none" THEN None ELSE handler[t].q
      BY <1>2, MoveOnHandlers
    <3>2. p # None /\ Running(p)' \subseteq Running(p)
      BY LedgerAssumption, <3>1 DEF Running
    <3>3. CASE handler[t].q # p
      <4>1. t \notin Running(p)
        BY <3>3 DEF Running
      <4>2. p \in Received' <=> p \in Received
        BY <1>2, <3>3
      <4>3. p \in refunded' <=> p \in refunded
        BY <1>2, <3>3
      <4>4. \A s \in Running(p)' : InStage(s, "email")' <=> InStage(s, "email")
        BY <3>1, <3>2, <4>1 DEF InStage, Running
      <4>5. QED
        BY <1>2, <3>1, <3>2, <4>2, <4>3, <4>4 DEF Once
    <3>4. CASE handler[t].q = p
      <4>1. t \in Running(p)
        BY <3>4 DEF Running
      <4>2. CASE deliveries[p] \in {0, 1}
        <5>1. \A s \in Running(p) : s = t
          BY <3>1, <4>1, <4>2 DEF Once
        <5>2. deliveries'[p] = 1
          BY <1>2, <3>1, <4>1, <4>2 DEF Once
        <5>3. InStage(t, "email")' => stage = "email"
          BY <3>1 DEF InStage
        <5>4. stage = "none" => Running(p)' = {}
          BY <3>1, <3>2, <5>1 DEF Running
        <5>5. stage = "email" => InStage(t, "email")'
          BY <3>1 DEF InStage
        <5>6. QED
          BY <1>2, <3>1, <3>2, <3>4, <4>1, <4>2, <5>1, <5>2, <5>3, <5>4, <5>5 DEF Once
      <4>3. CASE deliveries[p] \notin {0, 1}
        BY <1>2, <4>3 DEF Once
      <4>4. QED
        BY <4>2, <4>3
    <3>5. QED
      BY <3>3, <3>4
  <2>2. QED
    BY <1>2, <2>1 
<1>3. ASSUME UNCHANGED <<deliveries, handler, refunded, lostAck, Received>>
      PROVE  OnceAll'
  BY <1>3 DEF OnceInv, OnceAll, Once, Running, InStage
<1>4. ASSUME NEW t \in Txns, Commit(t) \/ LoseAck(t)
      PROVE  OnceAll'
  <2>1. InStage(t, "create") /\ Received' = Received \cup {handler[t].q}
    BY <1>4, CommitReceives DEF OnceInv
  <2>2. PICK stage \in Stages :
          /\ MoveOn(t, stage)
          /\ stage \in {"none", "email"} \/ handler[t].q \in lostAck'
    BY <1>4 DEF Commit, LoseAck, Stages
  <2>3. /\ UNCHANGED <<deliveries, refunded>>
        /\ lostAck \subseteq lostAck'
    BY <1>4 DEF Commit, LoseAck, stripe, history
  <2>4. ~InStage(t, "none") /\ ~InStage(t, "email")
    BY <2>1 DEF InStage
  <2>5. QED
    BY <1>2, <2>1, <2>2, <2>3, <2>4
<1>5. ASSUME NEW t \in Txns, RefundPayment(t)
      PROVE  OnceAll'
  <2>1. /\ MoveOn(t, "none") /\ refunded' = refunded \cup {handler[t].q}
        /\ ~InStage(t, "none") /\ ~InStage(t, "email")
        /\ UNCHANGED <<deliveries, lostAck, Received>>
    BY <1>5 DEF RefundPayment, InStage, history, vars, tables, Received
  <2>2. QED
    BY <1>2, <2>1 DEF Stages
<1>6. ASSUME NEW t \in Txns, ~Commit(t), ~LoseAck(t), UNCHANGED Received,
             SendEmail(t) \/ GiveUp(t) \/ CheckFails(t) \/ Crash(t)
      PROVE  OnceAll'
  <2>1. /\ MoveOn(t, "none") /\ ~InStage(t, "none")
        /\ UNCHANGED <<deliveries, refunded, lostAck>>
    BY <1>6 DEF SendEmail, GiveUp, CheckFails, Crash, InStage, stripe, history
  <2>2. QED
    BY <1>2, <1>6, <2>1 DEF Stages
<1>7. ASSUME NEW t \in Txns, UNCHANGED Received,
             \/ RefuseQuote(t) \/ FailReceipt(t) \/ CheckExisting(t)
             \/ Statement(t) /\ tx'[t].pc = "idle"
      PROVE  OnceAll'
  <2>1. PICK stage \in Stages \ {"email"} : MoveOn(t, stage)
    BY <1>7 DEF RefuseQuote, FailReceipt, CheckExisting, Statement, Stages
  <2>2. /\ ~InStage(t, "none") /\ ~InStage(t, "email")
        /\ UNCHANGED <<deliveries, refunded, lostAck>>
    BY <1>7 DEF RefuseQuote, FailReceipt, CheckExisting, Statement, InStage, stripe, history
  <2>3. QED
    BY <1>2, <1>7, <2>1, <2>2
<1>8. ASSUME NEW t \in Txns, UNCHANGED Received,
             StartReceipt(t) \/ (Statement(t) /\ tx'[t].pc # "idle")
      PROVE  OnceAll'
  BY <1>3, <1>8 DEF StartReceipt, Statement, stripe, history
<1>9. CASE \E t \in Txns : Commit(t) \/ LoseAck(t)
  BY <1>4, <1>9
<1>10. CASE \A t \in Txns : ~Commit(t) /\ ~LoseAck(t)
  <2>1. UNCHANGED Received
    BY <1>10, ReceivedStep DEF OnceInv
  <2>2. ASSUME NEW t \in Txns, Handle(t) \/ Crash(t)
        PROVE  OnceAll'
    <3>1. CASE RefundPayment(t)
      BY <1>5, <3>1
    <3>2. CASE SendEmail(t) \/ GiveUp(t) \/ CheckFails(t) \/ Crash(t)
      BY <1>6, <1>10, <2>1, <3>2
    <3>3. CASE \/ RefuseQuote(t) \/ FailReceipt(t) \/ CheckExisting(t)
               \/ Statement(t) /\ tx'[t].pc = "idle"
      BY <1>7, <2>1, <3>3
    <3>4. CASE StartReceipt(t) \/ (Statement(t) /\ tx'[t].pc # "idle")
      BY <1>8, <2>1, <3>4
    <3>5. QED
      BY <1>10, <2>2, <3>1, <3>2, <3>3, <3>4 DEF Handle
  <2>3. ASSUME \/ \E q \in Quotes : Offer(q) \/ Pay(q)
               \/ \E t \in Txns, q \in Quotes : StartDispute(t, q)
               \/ \E t \in Txns : Dispute(t)
               \/ Replicate
               \/ UNCHANGED webhookVars
        PROVE  OnceAll'
    BY <1>3, <2>1, <2>3
    DEF Offer, Pay, StartDispute, Dispute, Replicate, webhookVars, stripe, history
  <2>4. QED
    BY <1>1, <2>2, <2>3 DEF WebhookNext
<1>11. QED
  BY <1>9, <1>10

(* A payment is both credited and refunded only if its event was delivered *)
(* twice or a COMMIT was taken for a failure, whatever the reader shows,   *)
(* whatever crashes and however many handlers and disputes run at once.    *)
THEOREM RefundOrCreditTheorem == WebhookSpec => []RefundOrCredit
<1>1. WebhookSpec => []LedgerInv
  BY WebhookComposed, LedgerInvariant, PTL
<1>2. WebhookSpec => []Handlers
  BY InitHandlers, HandlersStep, PTL DEF WebhookSpec
<1>3. WebhookSpec => []OnceInv
  BY <1>1, <1>2, InitOnce, OnceStep, PTL DEF WebhookSpec
<1>4. LedgerInv /\ OnceInv => RefundOrCredit
  <2> SUFFICES ASSUME LedgerInv, OnceInv, NEW q \in refunded \cap Received, q \notin lostAck
               PROVE  deliveries[q] > 1
    BY DEF RefundOrCredit
  <2>1. q \in Quotes
    BY DEF LedgerInv, TypeOK, Received
  <2>2. deliveries[q] \in Nat /\ deliveries[q] \notin {0, 1}
    BY <2>1 DEF OnceInv, OnceAll, Once
  <2>3. QED
    BY <2>2
<1>5. QED
  BY <1>1, <1>3, <1>4, PTL

(* The theorems of TopUpLedger hold below the webhook: here, that no quote *)
(* is ever in two payment tables, and its gift in one.                     *)
THEOREM WebhookOneTable == WebhookSpec => []OneTablePerQuote
  BY WebhookComposed, OneTable, PTL

-----------------------------------------------------------------------------
(* The types, and what the reader database shows: receipts are never taken *)
(* back, so that what it shows of a payment was received.                  *)

Typed ==
  /\ paid \subseteq Quotes /\ deliveries \in [Quotes -> 0 .. MaxDeliveries]
  /\ refunded \subseteq Quotes /\ emailed \subseteq Quotes
  /\ unanswered \subseteq Quotes /\ escaped \subseteq Quotes /\ lostAck \subseteq Quotes

Behind ==
  /\ replica \in [payments : SUBSET Quotes, chargebacks : SUBSET Quotes]
  /\ replica.payments \cup replica.chargebacks \subseteq Received

LEMMA TypedStep == Handlers /\ Typed /\ [WebhookNext]_webhookVars => Typed'
<1> SUFFICES ASSUME Handlers, Typed, [WebhookNext]_webhookVars PROVE Typed'
  OBVIOUS
<1> USE DEF Typed, stripe, history
<1>1. ASSUME NEW t \in Txns, Handle(t) \/ Crash(t) PROVE Typed'
  <2>1. ~InStage(t, "none") => handler[t].q \in Quotes
    BY DEF Handlers
  <2>2. CASE RefuseQuote(t) \/ StartReceipt(t) \/ Statement(t) \/ FailReceipt(t) \/ Commit(t)
               \/ CheckExisting(t)
    BY <2>2 DEF RefuseQuote, StartReceipt, Statement, FailReceipt, Commit, CheckExisting
  <2>3. CASE LoseAck(t) \/ SendEmail(t) \/ RefundPayment(t)
    BY <2>1, <2>3 DEF LoseAck, SendEmail, RefundPayment, InStage
  <2>4. CASE GiveUp(t) \/ CheckFails(t) \/ Crash(t)
    BY <2>1, <2>4 DEF GiveUp, CheckFails, Crash, InStage
  <2>5. QED
    BY <1>1, <2>2, <2>3, <2>4 DEF Handle
<1>2. ASSUME NEW t \in Txns, NEW q \in Quotes, Deliver(t, q) PROVE Typed'
  <2>1. deliveries[q] + 1 \in 0 .. MaxDeliveries
    BY <1>2, WebhookAssumption DEF Deliver
  <2>2. QED
    BY <1>2, <2>1 DEF Deliver
<1>3. ASSUME NEW q \in Quotes, Pay(q) PROVE Typed'
  BY <1>3 DEF Pay
<1>4. QED
  BY <1>1, <1>2, <1>3 DEF WebhookNext, Offer, StartDispute, Dispute, Replicate, webhookVars

LEMMA ReceivedStays ==
  ASSUME LedgerInv, Handlers, OwnTransaction, [WebhookNext]_webhookVars
  PROVE  Received \subseteq Received'
<1>1. CASE \E t \in Txns : Commit(t) \/ LoseAck(t)
  BY <1>1, CommitReceives
<1>2. CASE \A t \in Txns : ~Commit(t) /\ ~LoseAck(t)
  BY <1>2, ReceivedStep
<1>3. QED
  BY <1>1, <1>2

LEMMA BehindStep ==
  LedgerInv /\ Handlers /\ OwnTransaction /\ Behind /\ [WebhookNext]_webhookVars => Behind'
<1> SUFFICES ASSUME LedgerInv, Handlers, OwnTransaction, Behind, [WebhookNext]_webhookVars
             PROVE  Behind'
  OBVIOUS
<1>1. CASE Replicate
  BY <1>1 DEF Replicate, Behind, Received, LedgerInv, TypeOK, vars, tables
<1>2. CASE UNCHANGED replica
  BY <1>2, ReceivedStays DEF Behind
<1>3. QED
  BY <1>1, <1>2
  DEF WebhookNext, Handle, Offer, Pay, Deliver, StartDispute, Dispute, Crash, RefuseQuote,
      StartReceipt, Statement, FailReceipt, Commit, LoseAck, SendEmail, CheckExisting,
      RefundPayment, GiveUp, CheckFails, webhookVars

LEMMA BehindInvariant == WebhookSpec => [](LedgerInv /\ Handlers /\ OwnTransaction /\ Behind)
<1>1. WebhookInit => Behind
  BY DEF WebhookInit, Behind
<1>2. WebhookInit => OwnTransaction
  BY InitOnce DEF OnceInv
<1>3. WebhookSpec => []LedgerInv
  BY WebhookComposed, LedgerInvariant, PTL
<1>4. QED
  BY <1>1, <1>2, <1>3, InitHandlers, HandlersStep, OwnTransactionStep, BehindStep, PTL
  DEF WebhookSpec

(* Events, handlers, the reader and the histories keep their types.        *)
THEOREM WebhookTyped == WebhookSpec => []WebhookTypeOK
<1>1. WebhookInit => Typed
  BY WebhookAssumption DEF WebhookInit, Typed
<1>2. WebhookSpec => []Typed
  BY <1>1, BehindInvariant, TypedStep, PTL DEF WebhookSpec
<1>3. LedgerInv /\ Handlers /\ Behind /\ Typed => WebhookTypeOK
  BY LedgerAssumption DEF LedgerInv, Handlers, Behind, Typed, WebhookTypeOK
<1>4. QED
  BY <1>2, <1>3, BehindInvariant, PTL

(* What the reader once showed of a payment keeps every later delivery of  *)
(* its event from a refund (checkForExistingPaymentByTopUpQuoteId), however *)
(* handlers, disputes and replication interleave.                          *)
THEOREM RecordedStaysTheorem == WebhookSpec => RecordedStays
<1>1. ASSUME LedgerInv, Handlers, OwnTransaction, Behind, [WebhookNext]_webhookVars,
             NEW q \in Quotes, Recorded(q)
      PROVE  Recorded(q)'
  <2>1. q \in replica'.payments \cup replica'.chargebacks
    <3>1. CASE Replicate
      BY <1>1, <3>1 DEF Replicate, Behind, Recorded, Received
    <3>2. CASE UNCHANGED replica
      BY <1>1, <3>2 DEF Recorded
    <3>3. QED
      BY <1>1, <3>1, <3>2
      DEF WebhookNext, Handle, Offer, Pay, Deliver, StartDispute, Dispute, Crash, RefuseQuote,
          StartReceipt, Statement, FailReceipt, Commit, LoseAck, SendEmail, CheckExisting,
          RefundPayment, GiveUp, CheckFails, webhookVars
  <2>2. ASSUME NEW s \in Txns, handler'[s] = handler[s], handler'[s].q = q
        PROVE  handler'[s].stage # "refund"
    BY <1>1, <2>2 DEF Recorded, Running, InStage
  <2>3. CASE UNCHANGED handler
    BY <2>1, <2>2, <2>3 DEF Recorded, Running, InStage
  <2>4. ASSUME NEW t \in Txns, NEW stage \in Stages, MoveOn(t, stage), ~InStage(t, "none"),
               stage = "refund" => handler[t].q # q
        PROVE  Recorded(q)'
    <3>1. /\ handler'[t].stage = stage /\ \A s \in Txns \ {t} : handler'[s] = handler[s]
          /\ stage # "none" => handler'[t].q = handler[t].q
      BY <1>1, <2>4, MoveOnHandlers
    <3>2. \A s \in Txns : handler'[s].q = q => handler'[s].stage # "refund"
      BY <2>2, <2>4, <3>1
    <3>3. QED
      BY <2>1, <3>2 DEF Recorded, Running, InStage
  <2>5. ASSUME NEW t \in Txns, NEW p \in Quotes, Deliver(t, p) PROVE Recorded(q)'
    <3>1. \A s \in Txns : handler'[s].q = q => handler'[s].stage # "refund"
      BY <1>1, <2>2, <2>5 DEF Deliver, Handlers
    <3>2. QED
      BY <2>1, <3>1 DEF Recorded, Running, InStage
  <2>6. ASSUME NEW t \in Txns, Handle(t) \/ Crash(t) PROVE Recorded(q)'
    <3>1. CASE UNCHANGED handler
      BY <2>3, <3>1
    <3>2. CASE CheckExisting(t)
      BY <1>1, <2>4, <3>2 DEF CheckExisting, Recorded, InStage, Stages
    <3>3. CASE \/ Statement(t) /\ tx'[t].pc = "idle"
               \/ RefuseQuote(t) \/ FailReceipt(t) \/ Commit(t) \/ LoseAck(t) \/ SendEmail(t)
               \/ RefundPayment(t) \/ GiveUp(t) \/ CheckFails(t) \/ Crash(t)
      <4>1. PICK stage \in {"none", "check", "email"} : MoveOn(t, stage)
        BY <3>3 DEF RefuseQuote, Statement, FailReceipt, Commit, LoseAck, SendEmail,
                    RefundPayment, GiveUp, CheckFails, Crash
      <4>2. ~InStage(t, "none")
        BY <3>3 DEF RefuseQuote, Statement, FailReceipt, Commit, LoseAck, SendEmail,
                    RefundPayment, GiveUp, CheckFails, Crash, InStage
      <4>3. QED
        BY <2>4, <4>1, <4>2 DEF Stages
    <3>4. CASE StartReceipt(t)
      BY <3>1, <3>4 DEF StartReceipt
    <3>5. CASE Statement(t) /\ tx'[t].pc # "idle"
      BY <3>1, <3>5 DEF Statement
    <3>6. QED
      BY <2>6, <3>2, <3>3, <3>4, <3>5 DEF Handle
  <2>7. QED
    BY <1>1, <2>3, <2>5, <2>6
    DEF WebhookNext, Offer, Pay, StartDispute, Dispute, Replicate, webhookVars
<1>2. LedgerInv /\ Handlers /\ OwnTransaction /\ Behind /\ [WebhookNext]_webhookVars
        => [\A q \in Quotes : Recorded(q) => Recorded(q)']_webhookVars
  BY <1>1
<1>3. QED
  BY <1>2, BehindInvariant, PTL DEF WebhookSpec, RecordedStays

=============================================================================
