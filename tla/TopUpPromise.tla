---------------------------- MODULE TopUpPromise ----------------------------
(***************************************************************************)
(* What the service promises about the money of a top up, with no database *)
(* in sight: a quote is received at most once, a received quote credits    *)
(* its destination (or becomes a gift that is redeemed at most once), and  *)
(* a chargeback takes back exactly what the receipt gave, once: credits    *)
(* from the wallet that was given them, or the gift that nobody redeemed.  *)
(* TopUpLedger, the database transactions of the code, implements this but *)
(* for the chargeback of a gift.                                           *)
(***************************************************************************)
EXTENDS Integers

CONSTANTS
  Quotes,      \* top up quote ids
  Users,       \* wallet addresses
  DataItems,   \* uploads that reserve credits
  Winc,        \* credits bought by each quote
  Price,       \* credits reserved for each upload
  Dest,        \* destination of each quote: a wallet, or Email
  Email,       \* the quote is a gift to an email address
  None         \* no wallet

VARIABLES
  payment,     \* where the money of each quote is
  gift,        \* where the gift of an Email quote is
  redeemer,    \* the wallet that redeemed each gift
  credited     \* what each wallet is owed: the total of its audit log

vars == <<payment, gift, redeemer, credited>>

Init ==
  /\ payment = [q \in Quotes |-> "none"]
  /\ gift = [q \in Quotes |-> "none"]
  /\ redeemer = [q \in Quotes |-> None]
  /\ credited = [u \in Users |-> 0]

Owe(u, amount) == credited' = [credited EXCEPT ![u] = @ + amount]

Offer(q) ==
  /\ payment[q] = "none"
  /\ payment' = [payment EXCEPT ![q] = "quoted"]
  /\ UNCHANGED <<gift, redeemer, credited>>

Receive(q) ==
  /\ payment[q] = "quoted"
  /\ payment' = [payment EXCEPT ![q] = "received"]
  /\ \/ /\ Dest[q] = Email
        /\ gift' = [gift EXCEPT ![q] = "unredeemed"]
        /\ UNCHANGED credited
     \/ /\ Dest[q] # Email
        /\ Owe(Dest[q], Winc[q])
        /\ UNCHANGED gift
  /\ UNCHANGED redeemer

Redeem(q, u) ==
  /\ gift[q] = "unredeemed"
  /\ gift' = [gift EXCEPT ![q] = "redeemed"]
  /\ redeemer' = [redeemer EXCEPT ![q] = u]
  /\ Owe(u, Winc[q])
  /\ UNCHANGED payment

ChargeBack(q) ==
  /\ payment[q] = "received"
  /\ payment' = [payment EXCEPT ![q] = "chargedback"]
  /\ \/ /\ Dest[q] # Email
        /\ Owe(Dest[q], -Winc[q])
        /\ UNCHANGED gift
     \/ /\ gift[q] = "unredeemed"
        /\ gift' = [gift EXCEPT ![q] = "none"]
        /\ UNCHANGED credited
     \/ /\ gift[q] = "redeemed"
        /\ Owe(redeemer[q], -Winc[q])
        /\ UNCHANGED gift
  /\ UNCHANGED redeemer

Spend(d, u) == Owe(u, -Price[d]) /\ UNCHANGED <<payment, gift, redeemer>>

Refund(d, u) == Owe(u, Price[d]) /\ UNCHANGED <<payment, gift, redeemer>>

Next ==
  \/ \E q \in Quotes : Offer(q) \/ Receive(q) \/ ChargeBack(q)
  \/ \E q \in Quotes, u \in Users : Redeem(q, u)
  \/ \E d \in DataItems, u \in Users : Spend(d, u) \/ Refund(d, u)

Spec == Init /\ [][Next]_vars

=============================================================================
