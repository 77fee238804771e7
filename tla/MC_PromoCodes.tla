---------------------------- MODULE MC_PromoCodes ----------------------------
(* Three quotes of two users. A code that may be used twice, whose catalog *)
(* is replaced after a day by one that may be used once, and a code for    *)
(* new users that ends on that day.                                        *)
EXTENDS PromoCodes, TLC

CONSTANTS alice, bob, q1, q2, q3, once, twice, welcome

MCUsers == {alice, bob}
MCCodes == {"sale", "new"}
MCCatalogs == {once, twice, welcome}
MCCode == once :> "sale" @@ twice :> "sale" @@ welcome :> "new"
MCGroup == once :> "all" @@ twice :> "existing" @@ welcome :> "new"
MCMaxUses == once :> 1 @@ twice :> 2 @@ welcome :> 0
MCStart == twice :> 0 @@ once :> 1 @@ welcome :> 0
MCEnd == once :> Never @@ twice :> Never @@ welcome :> 0
MCMinimum == once :> 0 @@ twice :> 1 @@ welcome :> 1
MCAmounts == {1}
MCQuotes == {q1, q2, q3}
Symmetry == Permutations(MCUsers) \cup Permutations(MCQuotes)
==============================================================================
