-------------------------- MODULE MC_ArNSPurchase ---------------------------
(* One name. An order its owner and a payer pay for together, one a payer  *)
(* pays alone, and a quote of an owner who has no row yet: each asked for  *)
(* twice, and every two of them at once.                                   *)
EXTENDS ArNSPurchase

CONSTANTS payer, payer2, owner, newcomer, name, w1, w2

MCUsers == {payer, payer2, owner, newcomer}
MCKnownUsers == {payer, payer2, owner}
MCFunds == payer :> 1 @@ payer2 :> 0 @@ owner :> 1 @@ newcomer :> 0
MCGrant == [p \in MCUsers |-> [s \in MCUsers |-> CASE p = payer /\ s = owner -> 1 [] p = payer2 /\ s = owner -> 5 [] OTHER -> 0]]
MCNames == {name}
MCOrders == {"o1", "o2"}
MCQuotes == {"q1"}
MCOwner == "o1" :> owner @@ "o2" :> owner @@ "q1" :> newcomer
MCName == [n \in MCOrders \cup MCQuotes |-> name]
MCIntent == "o1" :> "Buy-Name" @@ "o2" :> "Upgrade-Name" @@ "q1" :> "Extend-Lease"
MCPrice == "o1" :> 3 @@ "o2" :> 3
MCPaidBy == "o1" :> <<owner, owner, payer, payer2>> @@ "o2" :> <<payer2>>
MCExcess == "q1" :> 1
MCWorkers == {w1, w2}
MCLoads == {"o1" :> 2 @@ "o2" :> 0 @@ "q1" :> 0, "o1" :> 0 @@ "o2" :> 0 @@ "q1" :> 2,
            "o1" :> 1 @@ "o2" :> 1 @@ "q1" :> 0, "o1" :> 0 @@ "o2" :> 1 @@ "q1" :> 1}
=============================================================================
