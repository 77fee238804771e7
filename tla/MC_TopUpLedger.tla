--------------------------- MODULE MC_TopUpLedger ---------------------------
(* Two top ups of one wallet and a gift that either of two wallets can     *)
(* redeem, two transactions at a time.                                     *)
EXTENDS TopUpLedger, TLC

CONSTANTS alice, bob, q1, q2, g1, d1

MCUsers == {alice, bob}
MCQuotes == {q1, q2, g1}
MCDataItems == {d1}
MCWinc == q1 :> 2 @@ q2 :> 3 @@ g1 :> 4
MCPrice == d1 :> 3
MCDest == q1 :> alice @@ q2 :> alice @@ g1 :> Email

CONSTANTS t1, t2
MCTxns == {t1, t2}
Symmetry == Permutations(MCTxns)
=============================================================================
