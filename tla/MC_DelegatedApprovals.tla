------------------------ MODULE MC_DelegatedApprovals ------------------------
(* A payer with two approvals for a signer, one of which expires, and an   *)
(* upload that both of them are needed to pay for.                         *)
EXTENDS DelegatedApprovals, TLC

CONSTANTS payer, signer, a1, a2, d1, t1, t2

MCUsers == {payer, signer}
MCApprovals == {a1, a2}
MCDataItems == {d1}
MCTxns == {t1, t2}
MCPayingAddress == [a \in MCApprovals |-> payer]
MCApprovedAddress == [a \in MCApprovals |-> signer]
MCApprovedWinc == a1 :> 1 @@ a2 :> 2
MCExpiring == {a1}
MCSigner == d1 :> signer
MCPaidBy == d1 :> payer
MCPrice == d1 :> 2
MCFunds == payer :> 3 @@ signer :> 2
Symmetry == Permutations(MCTxns)
==============================================================================
