-------------------------- MODULE MC_StripeWebhook --------------------------
(* The event of a top up and that of a gift, each delivered up to twice,   *)
(* and two handlers or disputes at a time.                                 *)
EXTENDS StripeWebhook, TLC

CONSTANTS alice, q1, g1, t1, t2

MCUsers == {alice}
MCQuotes == {q1, g1}
MCTxns == {t1, t2}
MCDataItems == {}
MCWinc == q1 :> 2 @@ g1 :> 3
MCPrice == <<>>
MCDest == q1 :> alice @@ g1 :> Email
Symmetry == Permutations(MCTxns)
=============================================================================
