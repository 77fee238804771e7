---------------------------- MODULE CryptoPromise ----------------------------
(***************************************************************************)
(* What the service promises about a token transfer that a user submits:   *)
(* it is credited once at most, to its sender, for a price of the service, *)
(* and not before the chain has confirmed it. CryptoPayments, the tables   *)
(* and handlers of the code, implements this.                              *)
(***************************************************************************)
EXTENDS Integers

CONSTANTS
  Payments,    \* transaction ids of transfers to the service
  Users,       \* sender addresses
  Sender,      \* who sent each payment
  Prices,      \* credits that a payment may be worth
  None         \* not credited

VARIABLES
  confirmed,   \* payments with enough confirmations
  credit,      \* the credits given for each payment, or None
  owed         \* what each user is owed

vars == <<confirmed, credit, owed>>

Init ==
  /\ confirmed = {}
  /\ credit = [p \in Payments |-> None]
  /\ owed = [u \in Users |-> 0]

Confirm(p) ==
  /\ confirmed' = confirmed \cup {p}
  /\ UNCHANGED <<credit, owed>>

Credit(p, winc) ==
  /\ p \in confirmed
  /\ credit[p] = None
  /\ credit' = [credit EXCEPT ![p] = winc]
  /\ owed' = [owed EXCEPT ![Sender[p]] = @ + winc]
  /\ UNCHANGED confirmed

Next == \E p \in Payments : Confirm(p) \/ \E winc \in Prices : Credit(p, winc)

Spec == Init /\ [][Next]_vars

=============================================================================
