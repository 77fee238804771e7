------------------------------ MODULE MC_Pricing ------------------------------
(* Three uploads of one address, one of them paid by another, over two     *)
(* intervals of a limited subsidy, with a subsidy before it and one after  *)
(* it; or payments and names, with the fees of the migrations, a code with *)
(* a maximum discount and a code that takes off an amount.                 *)
EXTENDS Pricing

CONSTANTS alice, bob, u1, u2, u3

MCUsers == {alice, bob}
MCUploads == {u1, u2, u3}
MCBytes == u1 :> 7 @@ u2 :> 11 @@ u3 :> 5
MCSigner == [u \in MCUploads |-> alice]
MCPaidBy == u1 :> <<>> @@ u2 :> <<alice>> @@ u3 :> <<bob>>

Subsidy(id, operator, magnitude, limit, interval, threshold, end) ==
  [id |-> id, operator |-> operator, magnitude |-> magnitude, limit |-> limit,
   interval |-> interval, threshold |-> threshold, start |-> 0, end |-> end]
MCUploadCatalogs ==
  <<Subsidy("event", "multiply", 55, 0, 1, 0, 1),
    Subsidy("free", "multiply", 0, 10, 2, 10, Never),
    Subsidy("cut", "add", -3, 4, 1, 0, Never)>>

Fees(id, operator, magnitude, exclusivity, start) ==
  [id |-> id, operator |-> operator, magnitude |-> magnitude, maximum |-> 0,
   exclusivity |-> exclusivity, minimum |-> 0, start |-> start, end |-> Never]
MCPaymentCatalogs ==
  <<Fees("infra", "multiply", 77, "inclusive", 0),
    Fees("kyve", "multiply", 50, "inclusive_kyve", 1)>>
MCPromoCatalogs ==
  {[Fees("half", "multiply", 50, "exclusive", 0) EXCEPT !.maximum = 60],
   [Fees("ten", "add", -1000, "exclusive", 0) EXCEPT !.minimum = 20]}

MCRates ==
  {[fiat |-> "usd" :> usd @@ "gbp" :> gbp @@ "jpy" :> 900,
    token |-> "arweave" :> usd @@ "ario" :> ario @@ "kyve" :> 2] :
     <<usd, gbp, ario>> \in {<<7, 5, 1>>, <<6, 5, 1>>, <<3, 2, 2>>}}
MCTokenUnits == "arweave" :> 1000 @@ "ario" :> 10 @@ "kyve" :> 10
MCStripeMinimum == "usd" :> 50 @@ "gbp" :> 30 @@ "jpy" :> 120
MCLoads == {{}, MCUploads}
===============================================================================
