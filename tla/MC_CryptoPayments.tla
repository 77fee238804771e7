-------------------------- MODULE MC_CryptoPayments --------------------------
(* Two payments of one sender, or one of them; two requests; two runs of   *)
(* the job.                                                                *)
EXTENDS CryptoPayments, TLC

CONSTANTS alice, p1, p2, r1, r2, j1, j2

MCUsers == {alice}
MCPayments == {p1, p2}
MCSender == [p \in MCPayments |-> alice]
MCRequests == {r1, r2}
MCRuns == {j1, j2}
Symmetry == Permutations(MCPayments) \cup Permutations(MCRequests) \cup Permutations(MCRuns)

OnePayment == {p1}
SenderOfOne == [p \in OnePayment |-> alice]
==============================================================================
