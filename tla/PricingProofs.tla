----------------------------- MODULE PricingProofs -----------------------------
(***************************************************************************)
(* Theorems about Pricing, for any catalogs, prices, amounts and uploads:  *)
(* its types, that the adjustments given with a price explain it, and that *)
(* a limited subsidy is exceeded only by uploads that overlap.             *)
(*                                                                         *)
(* Prices are folds over the catalogs: a lemma shows the accumulators of   *)
(* each, and what holds of every accumulator follows by induction. The     *)
(* limit is an argument about sums over the rows of upload_adjustment.     *)
(***************************************************************************)
EXTENDS Pricing, SumsAndFolds

-----------------------------------------------------------------------------
(* Rounding.                                                               *)

LEMMA DownTyped == \A n \in Nat, d \in Nat \ {0} : Down(n, d) \in Nat
  BY DEF Down

LEMMA UpTyped == \A n \in Nat, d \in Nat \ {0} : Up(n, d) \in Nat
<1> SUFFICES ASSUME NEW n \in Nat, NEW d \in Nat \ {0} PROVE (n + d - 1) \div d \in Nat
  BY DEF Up
<1>1. n + d - 1 \in Nat
  OBVIOUS
<1> QED
  BY <1>1

LEMMA HalfTyped ==
  \A n \in Int, d \in Nat \ {0} : Half(n, d) \in Int /\ (n >= 0 => Half(n, d) \in Nat)
<1> SUFFICES ASSUME NEW n \in Int, NEW d \in Nat \ {0}
             PROVE /\ (2 * n + d) \div (2 * d) \in Int
                   /\ n >= 0 => (2 * n + d) \div (2 * d) \in Nat
  BY DEF Half
<1>1. 2 * n + d \in Int /\ 2 * d \in Nat \ {0} /\ (n >= 0 => 2 * n + d \in Nat)
  OBVIOUS
<1> QED
  BY <1>1

LEMMA FlooredTyped == \A x \in Int : Floored(x) \in Nat
  BY DEF Floored

LEMMA TimesTyped == \A m, n \in Nat : m * n \in Nat
  OBVIOUS

\* A part of an amount is no more than it, a multiple no less.
LEMMA PartOf ==
  ASSUME NEW n \in Nat, NEW m \in Nat
  PROVE  /\ m =< 100 => Down(n * m, 100) =< n
         /\ m >= 100 => Down(n * m, 100) >= n
<1>1. m =< 100 => n * m =< n * 100
  OBVIOUS
<1>2. m >= 100 => n * m >= n * 100
  OBVIOUS
<1>3. n * m \in Nat
  BY TimesTyped
<1> DEFINE k == n * m
<1>4. k \in Nat /\ (m =< 100 => k =< n * 100) /\ (m >= 100 => k >= n * 100)
  BY <1>1, <1>2, <1>3
<1> HIDE DEF k
<1>5. (m =< 100 => k \div 100 =< n) /\ (m >= 100 => k \div 100 >= n)
  BY <1>4
<1> QED
  BY <1>5 DEF Down, k

-----------------------------------------------------------------------------
(* Sums of adjustments.                                                    *)

LEMMA TotalSteps ==
  ASSUME NEW list \in Seq(Adjustment)
  PROVE  \E acc : /\ acc[0] = 0
                  /\ \A i \in 1 .. Len(list) : acc[i] = acc[i - 1] + list[i].amount
                  /\ Total(list) = acc[Len(list)]
<1> DEFINE n == Len(list)
           h == [a \in (1 .. n) \X Int |-> a[2] + list[a[1]].amount]
           Step(g) == [r \in SUBSET (1 .. n) |->
                         IF r = {} THEN 0 ELSE g[r \ {Max(r)}] + list[Max(r)].amount]
           it == CHOOSE g : g = Step(g)
<1>1. n \in Nat /\ DOMAIN list = 1 .. n /\ \A i \in 1 .. n : list[i].amount \in Int
  <2>1. \A i \in 1 .. n : list[i] \in Adjustment
    OBVIOUS
  <2>2. \A a \in Adjustment : a.amount \in Int
    BY DEF Adjustment
  <2> QED
    BY <2>1, <2>2
<1>2. \A i \in 1 .. n, v \in Int : h[<<i, v>>] = v + list[i].amount
  OBVIOUS
<1>3. h \in [(1 .. n) \X Int -> Int]
  BY <1>1
<1> HIDE DEF n, h
<1>4. PICK g : LeftFolds(g, n, Int, 0, h)
  <2>1. 0 \in Int
    OBVIOUS
  <2> QED
    BY <1>1, <1>3, <2>1, LeftFoldExists
<1>5. g = Step(g)
  <2>1. ASSUME NEW r \in SUBSET (1 .. n)
        PROVE  g[r] = IF r = {} THEN 0 ELSE g[r \ {Max(r)}] + list[Max(r)].amount
    BY <1>1, <1>2, <1>4, MaxIsIn DEF LeftFolds
  <2> QED
    BY <1>4, <2>1 DEF LeftFolds
<1>6. it = Step(it)
  BY <1>5, Zenon
<1>7. Total(list) = it[1 .. n]
  BY <1>1 DEF Total, FoldLeft, MapThenFoldSet
<1> HIDE DEF it
<1> DEFINE acc == [i \in 0 .. n |-> it[1 .. i]]
<1>8. \A r \in SUBSET (1 .. n) :
        it[r] = IF r = {} THEN 0 ELSE it[r \ {Max(r)}] + list[Max(r)].amount
  BY <1>6
<1>9. acc[0] = 0
  <2>1. 1 .. 0 = {} /\ 0 \in 0 .. n
    BY <1>1
  <2> QED
    BY <1>8, <2>1
<1>10. ASSUME NEW i \in 1 .. n PROVE acc[i] = acc[i - 1] + list[i].amount
  <2>1. i \in 0 .. n /\ i - 1 \in 0 .. n
    BY <1>1
  <2>2. acc[i] = it[1 .. i] /\ acc[i - 1] = it[1 .. (i - 1)]
    BY <2>1
  <2>3. /\ 1 .. i \in SUBSET (1 .. n) /\ 1 .. i # {}
        /\ Max(1 .. i) = i /\ (1 .. i) \ {i} = 1 .. (i - 1)
    BY <1>1, Segment
  <2>4. it[1 .. i] = it[(1 .. i) \ {Max(1 .. i)}] + list[Max(1 .. i)].amount
    BY <1>8, <2>3
  <2> QED
    BY <2>2, <2>3, <2>4
<1>11. acc[n] = it[1 .. n]
  BY <1>1
<1> QED
  BY <1>7, <1>9, <1>10, <1>11 DEF n

LEMMA TotalEmpty == Total(<<>>) = 0
<1>1. <<>> \in Seq(Adjustment) /\ Len(<<>>) = 0
  OBVIOUS
<1> QED
  BY <1>1, TotalSteps

LEMMA TotalAppend ==
  ASSUME NEW list \in Seq(Adjustment), NEW a \in Adjustment
  PROVE  Total(Append(list, a)) = Total(list) + a.amount /\ Total(list) \in Int
<1> DEFINE n == Len(list)
           longer == Append(list, a)
<1>1. /\ longer \in Seq(Adjustment) /\ Len(longer) = n + 1 /\ longer[n + 1] = a
      /\ \A i \in 1 .. n : longer[i] = list[i] /\ list[i].amount \in Int
      /\ n \in Nat
  <2>1. \A i \in 1 .. n : list[i] \in Adjustment
    OBVIOUS
  <2>2. \A b \in Adjustment : b.amount \in Int
    BY DEF Adjustment
  <2> QED
    BY <2>1, <2>2
<1>2. PICK x : x[0] = 0 /\ (\A i \in 1 .. n : x[i] = x[i - 1] + list[i].amount) /\ Total(list) = x[n]
  BY TotalSteps
<1>3. PICK y : /\ y[0] = 0 /\ Total(longer) = y[n + 1]
               /\ \A i \in 1 .. (n + 1) : y[i] = y[i - 1] + longer[i].amount
  <2> HIDE DEF longer
  <2>1. \E acc : /\ acc[0] = 0
                 /\ \A i \in 1 .. Len(longer) : acc[i] = acc[i - 1] + longer[i].amount
                 /\ Total(longer) = acc[Len(longer)]
    BY <1>1, TotalSteps
  <2> QED
    BY <1>1, <2>1
<1> HIDE DEF n, longer
<1> DEFINE S == {i \in Nat : i =< n => x[i] \in Int /\ y[i] = x[i]}
<1>4. 0 \in S
  BY <1>2, <1>3
<1>5. ASSUME NEW i \in Nat, i \in S PROVE i + 1 \in S
  <2>1. CASE i + 1 =< n
    <3>1. i + 1 \in 1 .. n /\ i + 1 \in 1 .. (n + 1) /\ (i + 1) - 1 = i
      BY <1>1, <2>1
    <3>2. x[i] \in Int /\ y[i] = x[i]
      BY <1>5, <2>1, <1>1
    <3>3. x[i + 1] = x[i] + list[i + 1].amount /\ y[i + 1] = y[i] + longer[i + 1].amount
      BY <1>2, <1>3, <3>1
    <3>4. longer[i + 1] = list[i + 1] /\ list[i + 1].amount \in Int
      BY <1>1, <3>1
    <3> QED
      BY <3>2, <3>3, <3>4
  <2>2. CASE ~(i + 1 =< n)
    BY <2>2
  <2> QED
    BY <2>1, <2>2
<1> HIDE DEF S
<1>6. n \in S
  BY <1>1, <1>4, <1>5, NatSetInduction
<1>7. x[n] \in Int /\ y[n] = x[n]
  BY <1>1, <1>6 DEF S
<1>8. y[n + 1] = y[n] + longer[n + 1].amount
  <2>1. n + 1 \in 1 .. (n + 1) /\ (n + 1) - 1 = n
    BY <1>1
  <2> QED
    BY <1>3, <2>1
<1> QED
  BY <1>1, <1>2, <1>3, <1>7, <1>8 DEF longer

-----------------------------------------------------------------------------
(* Payments: amounts with the adjustments that led to them.                *)

Payments == [amount : Nat, adjustments : Seq(Adjustment)]

\* Those that began as an amount and are explained by their adjustments.
Explained(amount) == {p \in Payments : p.amount = amount + Total(p.adjustments)}

LEMMA Unadjusted ==
  ASSUME NEW amount \in Nat
  PROVE  [amount |-> amount, adjustments |-> <<>>] \in Explained(amount)
  BY TotalEmpty DEF Explained, Payments

\* A step that notes what it changed keeps a payment explained.
LEMMA NotedIsExplained ==
  ASSUME NEW amount \in Nat, NEW p \in Explained(amount), NEW after \in Nat, NEW id \in STRING
  PROVE  [amount |-> after,
          adjustments |-> Append(p.adjustments, [catalog |-> id, amount |-> after - p.amount])]
           \in Explained(amount)
<1> DEFINE a == [catalog |-> id, amount |-> after - p.amount]
<1>1. p.amount \in Nat /\ p.adjustments \in Seq(Adjustment) /\ p.amount = amount + Total(p.adjustments)
  BY DEF Explained, Payments
<1>2. a \in Adjustment /\ a.amount = after - p.amount
  BY <1>1 DEF Adjustment
<1> HIDE DEF a
<1>3. Append(p.adjustments, a) \in Seq(Adjustment)
  BY <1>1, <1>2
<1>4. Total(Append(p.adjustments, a)) = Total(p.adjustments) + (after - p.amount)
      /\ Total(p.adjustments) \in Int
  BY <1>1, <1>2, TotalAppend
<1>5. after = amount + Total(Append(p.adjustments, a))
  BY <1>1, <1>4
<1> QED
  BY <1>3, <1>5 DEF Explained, Payments, a

LEMMA RatesTyped ==
  ASSUME rates \in Rates
  PROVE  /\ \A currency \in Currencies : rates.fiat[currency] \in Nat \ {0}
         /\ \A token \in Tokens : rates.token[token] \in Nat \ {0}
         /\ rates.fiat["usd"] \in Nat \ {0}
  BY PricingAssumption

LEMMA ConvertTyped ==
  ASSUME rates \in Rates, NEW currency \in Currencies, NEW amount \in Int
  PROVE  ConvertFromUSD(amount, currency) \in Int
<1> DEFINE n == amount * rates.fiat[currency]
           d == rates.fiat["usd"] * IF currency \in ZeroDecimal THEN 100 ELSE 1
<1>1. n \in Int
  BY RatesTyped
<1>2. d \in Nat \ {0}
  BY RatesTyped
<1>3. ConvertFromUSD(amount, currency) = IF currency = "usd" THEN amount ELSE Half(n, d)
  BY DEF ConvertFromUSD
<1> HIDE DEF n, d
<1> QED
  BY <1>1, <1>2, <1>3, HalfTyped

LEMMA MultipliedTyped ==
  ASSUME rates \in Rates, NEW currency \in Currencies, NEW amount \in Nat,
         NEW c \in PaymentRows, c.magnitude >= 0
  PROVE  Multiplied(amount, c, currency) \in Int
<1>1. c.magnitude \in Nat /\ c.maximum \in Int
  BY DEF PaymentRows
<1>2. amount * c.magnitude \in Int
  BY <1>1
<1>3. Half(amount * c.magnitude, 100) \in Int
  BY <1>2, HalfTyped
<1>4. ConvertFromUSD(c.maximum, currency) \in Int
  BY <1>1, ConvertTyped
<1> QED
  BY <1>3, <1>4 DEF Multiplied

LEMMA AdjustPaymentKeeps ==
  ASSUME rates \in Rates, NEW amount \in Nat, NEW p \in Explained(amount),
         NEW currency \in Currencies,
         NEW c \in PaymentRows, c.operator = "multiply" => c.magnitude >= 0
  PROVE  AdjustPayment(p, c, currency) \in Explained(amount)
<1> DEFINE x == IF c.operator = "add" THEN p.amount + ConvertFromUSD(c.magnitude, currency)
                ELSE Multiplied(p.amount, c, currency)
<1>1. p.amount \in Nat /\ c.magnitude \in Int /\ c.id \in STRING
      /\ (c.operator # "add" => c.operator = "multiply")
  BY DEF PaymentRows, Explained, Payments
<1>2. x \in Int
  BY <1>1, ConvertTyped, MultipliedTyped
<1>3. Floored(x) \in Nat
  BY <1>2, FlooredTyped
<1>4. AdjustPayment(p, c, currency)
        = [amount |-> Floored(x),
           adjustments |-> Append(p.adjustments, [catalog |-> c.id, amount |-> Floored(x) - p.amount])]
  BY DEF AdjustPayment
<1> HIDE DEF x
<1> QED
  BY <1>1, <1>3, <1>4, NotedIsExplained

\* A finite set of catalogs can be listed.
LEMMA Listed ==
  ASSUME NEW S, IsFiniteSet(S)
  PROVE  SetToSeq(S) \in Seq(S)
<1>1. PICK n \in Nat : ExistsBijection(1 .. n, S)
  BY FS_NatBijection
<1>2. Cardinality(S) = n
  BY <1>1, FS_CountingElements
<1>3. PICK f \in [1 .. n -> S] : IsInjective(f)
  BY <1>1 DEF ExistsBijection, Bijection, Injection
<1>4. SetToSeq(S) \in [1 .. n -> S]
  BY <1>2, <1>3 DEF SetToSeq
<1> QED
  BY <1>4

LEMMA CatalogsTyped ==
  ASSUME NEW codes
  PROVE  /\ Catalogs(codes) \in Seq(PaymentRows)
         /\ \A i \in 1 .. Len(Catalogs(codes)) :
              Catalogs(codes)[i].operator = "multiply" => Catalogs(codes)[i].magnitude >= 0
<1> DEFINE S == {c \in PromoCatalogs : c.id \in codes}
           Rows == {c \in PaymentRows : c.operator = "multiply" => c.magnitude >= 0}
<1>1. S \subseteq Rows
  BY PricingAssumption
<1>2. IsFiniteSet(S)
  BY PricingAssumption, FS_Subset
<1>3. SetToSeq(S) \in Seq(S)
  BY <1>2, Listed
<1>4. SetToSeq(S) \in Seq(Rows)
  BY <1>1, <1>3
<1>5. PaymentCatalogs \in Seq(Rows)
  <2>1. PaymentCatalogs \in Seq(PaymentRows)
    BY PricingAssumption
  <2>2. \A i \in 1 .. Len(PaymentCatalogs) : PaymentCatalogs[i] \in ToSet(PaymentCatalogs)
    BY <2>1 DEF ToSet
  <2>3. \A i \in 1 .. Len(PaymentCatalogs) : PaymentCatalogs[i] \in Rows
    BY <2>1, <2>2, PricingAssumption
  <2> QED
    BY <2>1, <2>3
<1> HIDE DEF S, Rows
<1>6. PaymentCatalogs \o SetToSeq(S) \in Seq(Rows)
  BY <1>4, <1>5
<1>7. Catalogs(codes) \in Seq(Rows)
  BY <1>6 DEF Catalogs, S
<1>8. \A i \in 1 .. Len(Catalogs(codes)) : Catalogs(codes)[i] \in Rows
  BY <1>7
<1>9. Catalogs(codes) \in Seq(PaymentRows)
  BY <1>7, <1>8 DEF Rows
<1> QED
  BY <1>8, <1>9 DEF Rows

\* One catalog of a fold over those of one kind that are in force.
Apply(p, c, exclusivity, currency) ==
  IF c.exclusivity = exclusivity /\ (InForce(c) \/ c \in PromoCatalogs)
  THEN AdjustPayment(p, c, currency) ELSE p

LEMMA ApplySteps ==
  ASSUME rates \in Rates, NEW amount \in Nat, NEW currency \in Currencies,
         NEW exclusivity, NEW codes
  PROVE  LET list == Catalogs(codes)
             n == Len(list)
         IN  \E acc : /\ acc[0] = [amount |-> amount, adjustments |-> <<>>]
                      /\ \A i \in 1 .. n :
                           acc[i] = Apply(acc[i - 1], list[i], exclusivity, currency)
                      /\ acc[n] = ApplyPaymentAdjustments(exclusivity, codes, amount, currency)
                      /\ acc[n] \in Explained(amount)
<1> DEFINE list == Catalogs(codes)
           n == Len(list)
           V == Explained(amount)
           base == [amount |-> amount, adjustments |-> <<>>]
           h == [a \in (1 .. n) \X V |-> Apply(a[2], list[a[1]], exclusivity, currency)]
           Step(g) == [r \in SUBSET (1 .. n) |->
                         IF r = {} THEN base
                         ELSE Apply(g[r \ {Max(r)}], list[Max(r)], exclusivity, currency)]
           it == CHOOSE g : g = Step(g)
<1>1. list \in Seq(PaymentRows)
      /\ \A i \in 1 .. Len(list) : list[i].operator = "multiply" => list[i].magnitude >= 0
  BY CatalogsTyped
<1> HIDE DEF list
<1>2. n \in Nat /\ DOMAIN list = 1 .. n /\ \A i \in 1 .. n : list[i] \in PaymentRows
  BY <1>1
<1>3. ASSUME NEW i \in 1 .. n, NEW p \in V
      PROVE  Apply(p, list[i], exclusivity, currency) \in V
  <2>1. AdjustPayment(p, list[i], currency) \in V
    BY <1>1, <1>2, AdjustPaymentKeeps
  <2> QED
    BY <2>1 DEF Apply
<1>4. base \in V
  BY Unadjusted
<1> HIDE DEF n, V, base
<1>5. h \in [(1 .. n) \X V -> V]
  BY <1>3
<1>6. \A i \in 1 .. n, p \in V : h[<<i, p>>] = Apply(p, list[i], exclusivity, currency)
  OBVIOUS
<1> HIDE DEF h
<1>7. PICK g : LeftFolds(g, n, V, base, h)
  BY <1>2, <1>4, <1>5, LeftFoldExists
<1>8. g = Step(g)
  <2>1. ASSUME NEW r \in SUBSET (1 .. n)
        PROVE  g[r] = IF r = {} THEN base
                      ELSE Apply(g[r \ {Max(r)}], list[Max(r)], exclusivity, currency)
    BY <1>2, <1>6, <1>7, MaxIsIn DEF LeftFolds
  <2> QED
    BY <1>7, <2>1 DEF LeftFolds
<1>9. it = Step(it)
  BY <1>8, Zenon
<1>10. ApplyPaymentAdjustments(exclusivity, codes, amount, currency) = it[1 .. n]
  BY <1>2 DEF ApplyPaymentAdjustments, FoldLeft, MapThenFoldSet, Apply, list, base
<1> HIDE DEF it
<1>11. \A r \in SUBSET (1 .. n) :
         it[r] = IF r = {} THEN base
                 ELSE Apply(it[r \ {Max(r)}], list[Max(r)], exclusivity, currency)
  BY <1>9
<1> DEFINE W == [i \in 0 .. n |-> V]
<1>12. it[{}] \in W[0]
  <2>1. {} \in SUBSET (1 .. n) /\ 0 \in 0 .. n
    BY <1>2
  <2>2. it[{}] = base
    BY <1>11, <2>1
  <2> QED
    BY <1>4, <2>1, <2>2
<1>13. ASSUME NEW i \in 1 .. n, it[1 .. (i - 1)] \in W[i - 1] PROVE it[1 .. i] \in W[i]
  <2>1. /\ 1 .. i \in SUBSET (1 .. n) /\ 1 .. i # {}
        /\ Max(1 .. i) = i /\ (1 .. i) \ {i} = 1 .. (i - 1)
    BY <1>2, Segment
  <2>2. i \in 0 .. n /\ i - 1 \in 0 .. n
    BY <1>2
  <2>3. it[1 .. i] = Apply(it[1 .. (i - 1)], list[i], exclusivity, currency)
    BY <1>11, <2>1
  <2> QED
    BY <1>3, <1>13, <2>2, <2>3
<1> HIDE DEF W
<1>14. it[1 .. n] \in W[n]
  BY <1>2, <1>12, <1>13, FoldStaysIn
<1> DEFINE acc == [i \in 0 .. n |-> it[1 .. i]]
<1>15. acc[0] = base
  <2>1. 1 .. 0 = {} /\ {} \in SUBSET (1 .. n) /\ 0 \in 0 .. n
    BY <1>2
  <2> QED
    BY <1>11, <2>1
<1>16. \A i \in 1 .. n : acc[i] = Apply(acc[i - 1], list[i], exclusivity, currency)
  <2> SUFFICES ASSUME NEW i \in 1 .. n
               PROVE  acc[i] = Apply(acc[i - 1], list[i], exclusivity, currency)
    OBVIOUS
  <2>1. /\ 1 .. i \in SUBSET (1 .. n) /\ 1 .. i # {}
        /\ Max(1 .. i) = i /\ (1 .. i) \ {i} = 1 .. (i - 1)
    BY <1>2, Segment
  <2>2. acc[i] = it[1 .. i] /\ acc[i - 1] = it[1 .. (i - 1)]
    BY <1>2
  <2>3. it[1 .. i] = Apply(it[1 .. (i - 1)], list[i], exclusivity, currency)
    BY <1>11, <2>1
  <2> QED
    BY <2>2, <2>3
<1>17. acc[n] = it[1 .. n]
  BY <1>2
<1> HIDE DEF acc
<1>18. acc[n] \in Explained(amount)
  BY <1>2, <1>14, <1>17 DEF W, V
<1> QED
  BY <1>10, <1>15, <1>16, <1>17, <1>18 DEF n, list, base

LEMMA ApplyKeeps ==
  ASSUME rates \in Rates, NEW amount \in Nat, NEW currency \in Currencies,
         NEW exclusivity, NEW codes
  PROVE  ApplyPaymentAdjustments(exclusivity, codes, amount, currency) \in Explained(amount)
  BY ApplySteps

LEMMA PaymentKeeps ==
  ASSUME rates \in Rates, NEW amount \in Nat, NEW currency \in Currencies, NEW codes
  PROVE  LET p == GetWCForPayment(amount, currency, codes)
         IN  /\ p # NoAnswer /\ p.quoted \in Nat /\ p.actual \in Nat
             /\ p.adjustments \in Seq(Adjustment)
             /\ p.actual = p.quoted + Total(p.adjustments)
<1> DEFINE x == ApplyPaymentAdjustments("exclusive", codes, amount, currency)
           y == ApplyPaymentAdjustments("inclusive", codes, amount, currency)
<1>1. x \in Explained(amount)
  BY ApplyKeeps
<1>2. x.amount \in Nat /\ x.adjustments \in Seq(Adjustment) /\ x.amount = amount + Total(x.adjustments)
  BY <1>1 DEF Explained, Payments
<1>3. GetWCForPayment(amount, currency, codes)
        = [kind |-> "payment", quoted |-> amount, actual |-> x.amount,
           adjustments |-> x.adjustments, inclusive |-> y.adjustments,
           winc |-> Half(y.amount * WincPerAR, Cents(currency) * rates.fiat[currency])]
  BY DEF GetWCForPayment
<1> HIDE DEF x, y
<1> QED
  BY <1>2, <1>3 DEF NoAnswer

-----------------------------------------------------------------------------
(* Tokens and names.                                                       *)

LEMMA ToWincTyped ==
  ASSUME rates \in Rates, NEW token \in Tokens, NEW quantity \in Nat
  PROVE  ToWinc(quantity, token) \in Nat
<1> DEFINE n == quantity * rates.token[token] * WincPerAR
           d == TokenUnits[token] * rates.token["arweave"]
<1>1. rates.token[token] \in Nat \ {0} /\ rates.token["arweave"] \in Nat \ {0}
      /\ TokenUnits[token] \in Nat \ {0} /\ WincPerAR \in Nat \ {0}
  BY RatesTyped, PricingAssumption
<1>2. quantity * rates.token[token] \in Nat
  BY <1>1, TimesTyped
<1>3. n \in Nat
  BY <1>1, <1>2, TimesTyped
<1>4. d \in Nat \ {0}
  BY <1>1
<1>5. ToWinc(quantity, token) = IF token = "arweave" THEN quantity ELSE Down(n, d)
  BY DEF ToWinc
<1> HIDE DEF n, d
<1> QED
  BY <1>3, <1>4, <1>5, DownTyped

LEMMA USDToWincTyped ==
  ASSUME rates \in Rates, NEW amount \in Int
  PROVE  USDToWinc(amount) \in Int
<1>1. amount * WincPerAR \in Int /\ 100 * rates.fiat["usd"] \in Nat \ {0}
  BY RatesTyped, PricingAssumption
<1> QED
  BY <1>1, HalfTyped DEF USDToWinc

LEMMA FeeKeeps ==
  ASSUME rates \in Rates, NEW amount \in Nat, NEW p \in Explained(amount), NEW mode,
         NEW c \in PaymentRows, c.operator = "multiply" => c.magnitude >= 0
  PROVE  Fee(p, c, mode) \in Explained(amount)
<1> DEFINE x == IF c.operator = "add"
                THEN p.amount + USDToWinc(IF mode = "invert" THEN -c.magnitude ELSE c.magnitude)
                ELSE IF mode = "invert" /\ c.magnitude # 0 THEN Down(p.amount * 100, c.magnitude)
                ELSE Down(p.amount * c.magnitude, 100)
<1>1. p.amount \in Nat /\ c.magnitude \in Int /\ -c.magnitude \in Int /\ c.id \in STRING
      /\ (c.operator # "add" => c.operator = "multiply")
  BY DEF PaymentRows, Explained, Payments
<1>2. x \in Int
  <2>1. CASE c.operator = "add"
    <3>1. USDToWinc(-c.magnitude) \in Int /\ USDToWinc(c.magnitude) \in Int
      BY <1>1, USDToWincTyped
    <3>2. x = p.amount + USDToWinc(-c.magnitude) \/ x = p.amount + USDToWinc(c.magnitude)
      BY <2>1
    <3> QED
      BY <1>1, <3>1, <3>2
  <2>2. CASE c.operator # "add"
    <3>1. c.magnitude \in Nat
      BY <1>1, <2>2
    <3>2. p.amount * 100 \in Nat /\ p.amount * c.magnitude \in Nat
      BY <1>1, <3>1, TimesTyped
    <3>3. Down(p.amount * c.magnitude, 100) \in Nat
      BY <3>2, DownTyped
    <3>4. c.magnitude # 0 => Down(p.amount * 100, c.magnitude) \in Nat
      BY <3>1, <3>2, DownTyped
    <3>5. x = IF mode = "invert" /\ c.magnitude # 0 THEN Down(p.amount * 100, c.magnitude)
              ELSE Down(p.amount * c.magnitude, 100)
      BY <2>2
    <3> QED
      BY <3>3, <3>4, <3>5
  <2> QED
    BY <2>1, <2>2
<1>3. Floored(x) \in Nat
  BY <1>2, FlooredTyped
<1>4. Fee(p, c, mode)
        = [amount |-> Floored(x),
           adjustments |-> Append(p.adjustments, [catalog |-> c.id, amount |-> Floored(x) - p.amount])]
  BY DEF Fee
<1> HIDE DEF x
<1> QED
  BY <1>1, <1>3, <1>4, NotedIsExplained

\* One catalog of the fold over the fees of a token.
Charged(p, c, token, mode) ==
  IF FeeOn(c, token, mode) THEN Fee(p, c, FeeMode(token, mode)) ELSE p

LEMMA CryptoSteps ==
  ASSUME rates \in Rates, NEW quantity \in Nat, NEW token \in Tokens, NEW mode
  PROVE  LET list == PaymentCatalogs
             n == Len(list)
             winc == ToWinc(quantity, token)
         IN  \E acc : /\ acc[0] = [amount |-> winc, adjustments |-> <<>>]
                      /\ \A i \in 1 .. n : acc[i] = Charged(acc[i - 1], list[i], token, mode)
                      /\ acc[n] \in Explained(winc)
                      /\ GetWCForCryptoPayment(quantity, token, mode)
                           = [kind |-> "crypto", quoted |-> winc, actual |-> acc[n].amount,
                              adjustments |-> acc[n].adjustments]
<1> DEFINE list == PaymentCatalogs
           n == Len(list)
           winc == ToWinc(quantity, token)
           V == Explained(winc)
           base == [amount |-> winc, adjustments |-> <<>>]
           h == [a \in (1 .. n) \X V |-> Charged(a[2], list[a[1]], token, mode)]
           Step(g) == [r \in SUBSET (1 .. n) |->
                         IF r = {} THEN base
                         ELSE Charged(g[r \ {Max(r)}], list[Max(r)], token, mode)]
           it == CHOOSE g : g = Step(g)
<1>1. winc \in Nat
  BY ToWincTyped
<1>2. list \in Seq(PaymentRows)
      /\ \A i \in 1 .. Len(list) : list[i].operator = "multiply" => list[i].magnitude >= 0
  <2>1. list \in Seq(PaymentRows)
    BY PricingAssumption
  <2>2. \A i \in 1 .. Len(list) : list[i] \in ToSet(list)
    BY <2>1 DEF ToSet
  <2> QED
    BY <2>1, <2>2, PricingAssumption
<1> HIDE DEF list
<1>3. n \in Nat /\ DOMAIN list = 1 .. n /\ \A i \in 1 .. n : list[i] \in PaymentRows
  BY <1>2
<1> HIDE DEF winc
<1>4. ASSUME NEW i \in 1 .. n, NEW p \in V PROVE Charged(p, list[i], token, mode) \in V
  <2>1. Fee(p, list[i], FeeMode(token, mode)) \in V
    BY <1>1, <1>2, <1>3, FeeKeeps
  <2> QED
    BY <2>1 DEF Charged
<1>5. base \in V
  BY <1>1, Unadjusted
<1> HIDE DEF n, V, base
<1>6. h \in [(1 .. n) \X V -> V]
  BY <1>4
<1>7. \A i \in 1 .. n, p \in V : h[<<i, p>>] = Charged(p, list[i], token, mode)
  OBVIOUS
<1> HIDE DEF h
<1>8. PICK g : LeftFolds(g, n, V, base, h)
  BY <1>3, <1>5, <1>6, LeftFoldExists
<1>9. g = Step(g)
  <2>1. ASSUME NEW r \in SUBSET (1 .. n)
        PROVE  g[r] = IF r = {} THEN base ELSE Charged(g[r \ {Max(r)}], list[Max(r)], token, mode)
    BY <1>3, <1>7, <1>8, MaxIsIn DEF LeftFolds
  <2> QED
    BY <1>8, <2>1 DEF LeftFolds
<1>10. it = Step(it)
  BY <1>9, Zenon
<1> DEFINE x == it[1 .. n]
<1>11. GetWCForCryptoPayment(quantity, token, mode)
         = [kind |-> "crypto", quoted |-> winc, actual |-> x.amount, adjustments |-> x.adjustments]
  BY <1>3 DEF GetWCForCryptoPayment, FoldLeft, MapThenFoldSet, Charged, list, winc, base
<1> HIDE DEF it
<1>12. \A r \in SUBSET (1 .. n) :
         it[r] = IF r = {} THEN base ELSE Charged(it[r \ {Max(r)}], list[Max(r)], token, mode)
  BY <1>10
<1> DEFINE W == [i \in 0 .. n |-> V]
<1>13. it[{}] \in W[0]
  <2>1. {} \in SUBSET (1 .. n) /\ 0 \in 0 .. n
    BY <1>3
  <2>2. it[{}] = base
    BY <1>12, <2>1
  <2> QED
    BY <1>5, <2>1, <2>2
<1>14. ASSUME NEW i \in 1 .. n, it[1 .. (i - 1)] \in W[i - 1] PROVE it[1 .. i] \in W[i]
  <2>1. /\ 1 .. i \in SUBSET (1 .. n) /\ 1 .. i # {}
        /\ Max(1 .. i) = i /\ (1 .. i) \ {i} = 1 .. (i - 1)
    BY <1>3, Segment
  <2>2. i \in 0 .. n /\ i - 1 \in 0 .. n
    BY <1>3
  <2>3. it[1 .. i] = Charged(it[1 .. (i - 1)], list[i], token, mode)
    BY <1>12, <2>1
  <2> QED
    BY <1>4, <1>14, <2>2, <2>3
<1> HIDE DEF W
<1>15. x \in W[n]
  BY <1>3, <1>13, <1>14, FoldStaysIn
<1> DEFINE acc == [i \in 0 .. n |-> it[1 .. i]]
<1>16. acc[0] = base
  <2>1. 1 .. 0 = {} /\ {} \in SUBSET (1 .. n) /\ 0 \in 0 .. n
    BY <1>3
  <2> QED
    BY <1>12, <2>1
<1>17. \A i \in 1 .. n : acc[i] = Charged(acc[i - 1], list[i], token, mode)
  <2> SUFFICES ASSUME NEW i \in 1 .. n
               PROVE  acc[i] = Charged(acc[i - 1], list[i], token, mode)
    OBVIOUS
  <2>1. /\ 1 .. i \in SUBSET (1 .. n) /\ 1 .. i # {}
        /\ Max(1 .. i) = i /\ (1 .. i) \ {i} = 1 .. (i - 1)
    BY <1>3, Segment
  <2>2. acc[i] = it[1 .. i] /\ acc[i - 1] = it[1 .. (i - 1)]
    BY <1>3
  <2>3. it[1 .. i] = Charged(it[1 .. (i - 1)], list[i], token, mode)
    BY <1>12, <2>1
  <2> QED
    BY <2>2, <2>3
<1>18. acc[n] = x
  BY <1>3
<1> HIDE DEF acc, x
<1>19. acc[n] \in Explained(winc)
  BY <1>3, <1>15, <1>18 DEF W, V
<1> QED
  BY <1>11, <1>16, <1>17, <1>18, <1>19 DEF n, list, base, winc

LEMMA CryptoKeeps ==
  ASSUME rates \in Rates, NEW quantity \in Nat, NEW token \in Tokens, NEW mode
  PROVE  LET p == GetWCForCryptoPayment(quantity, token, mode)
         IN  /\ p # NoAnswer /\ p.quoted \in Nat /\ p.actual \in Nat
             /\ p.adjustments \in Seq(Adjustment)
             /\ p.actual = p.quoted + Total(p.adjustments)
<1> DEFINE winc == ToWinc(quantity, token)
<1>1. winc \in Nat
  BY ToWincTyped
<1>2. PICK x \in Explained(winc) :
        GetWCForCryptoPayment(quantity, token, mode)
          = [kind |-> "crypto", quoted |-> winc, actual |-> x.amount, adjustments |-> x.adjustments]
  BY CryptoSteps
<1> HIDE DEF winc
<1>3. x.amount \in Nat /\ x.adjustments \in Seq(Adjustment) /\ x.amount = winc + Total(x.adjustments)
  BY DEF Explained, Payments
<1> QED
  BY <1>1, <1>2, <1>3 DEF NoAnswer

LEMMA FiatKeeps ==
  ASSUME rates \in Rates, NEW winc \in Nat, NEW currency \in Currencies, NEW codes
  PROVE  LET fiat == GetFiatPrice(winc, currency, codes)
         IN  /\ fiat.quoted \in Nat /\ fiat.paid.amount \in Nat
             /\ fiat.paid.adjustments \in Seq(Adjustment)
             /\ fiat.paid.amount = fiat.quoted + Total(fiat.paid.adjustments)
<1> DEFINE amount == Half(winc * rates.fiat[currency] * Cents(currency), WincPerAR)
           none == [amount |-> amount, adjustments |-> <<>>]
           all == ApplyPaymentAdjustments("exclusive", codes, amount, currency)
<1>1. amount \in Nat
  <2>1. rates.fiat[currency] \in Nat /\ Cents(currency) \in Nat /\ WincPerAR \in Nat \ {0}
    BY RatesTyped, PricingAssumption DEF Cents
  <2>2. winc * rates.fiat[currency] \in Nat
    BY <2>1, TimesTyped
  <2>3. winc * rates.fiat[currency] * Cents(currency) \in Nat
    BY <2>1, <2>2, TimesTyped
  <2> QED
    BY <2>1, <2>3, HalfTyped
<1> HIDE DEF amount
<1>2. none \in Explained(amount) /\ all \in Explained(amount)
  BY <1>1, Unadjusted, ApplyKeeps
<1>3. GetFiatPrice(winc, currency, codes) = [quoted |-> amount, paid |-> IF codes = {} THEN none ELSE all]
  BY DEF GetFiatPrice, amount
<1> HIDE DEF none, all
<1> DEFINE p == IF codes = {} THEN none ELSE all
<1>4. p \in Explained(amount)
  BY <1>2
<1> HIDE DEF p
<1>5. p.amount \in Nat /\ p.adjustments \in Seq(Adjustment) /\ p.amount = amount + Total(p.adjustments)
  BY <1>4 DEF Explained, Payments
<1> QED
  BY <1>1, <1>3, <1>5 DEF p

-----------------------------------------------------------------------------
(* Uploads.                                                                *)

\* A catalog that lowers prices, and the sign of what it may change.
Lowers(c) == IF c.operator = "add" THEN c.magnitude < 0 ELSE c.magnitude =< 100
Signed(c, amount) == IF Lowers(c) THEN amount =< 0 ELSE amount >= 0

\* Quotes for a network price that their adjustments explain.
QuotesFor(base) ==
  {q \in Quote : q.network = base /\ q.price = base + Total(q.adjustments)}

\* A catalog was applied with this amount, within its limit.
Applied(c, user, a) ==
  /\ a.catalog = c.id /\ a \in Adjustment
  /\ Signed(c, a.amount) /\ ~OverLimit(c, user, a.amount)

LEMMA AdjustAdds ==
  ASSUME NEW base \in Nat, NEW q \in QuotesFor(base), NEW bytes, NEW user,
         NEW c \in UploadRows, c.operator = "multiply" => c.magnitude >= 0
  PROVE  LET r == Adjust(q, c, bytes, user)
         IN  /\ r \in QuotesFor(base)
             /\ \/ r.adjustments = q.adjustments
                \/ \E a : Applied(c, user, a) /\ r.adjustments = Append(q.adjustments, a)
<1> DEFINE x == IF c.operator = "add" THEN q.price + c.magnitude
                ELSE Down(q.price * c.magnitude, 100)
           after == Floored(x)
           a == [catalog |-> c.id, amount |-> after - q.price]
           free == after = 0
           r == [q EXCEPT !.price = after, !.adjustments = Append(q.adjustments, a), !.done = free]
<1>1. /\ q.price \in Nat /\ c.magnitude \in Int /\ c.id \in STRING
      /\ c.operator # "add" => c.operator = "multiply"
      /\ q.adjustments \in Seq(Adjustment) /\ q.network = base
      /\ q.price = base + Total(q.adjustments) /\ q \in Quote
  BY DEF UploadRows, QuotesFor, Quote
<1>2. x \in Int /\ (IF Lowers(c) THEN x =< q.price ELSE x >= q.price)
  <2>1. CASE c.operator = "add"
    BY <1>1, <2>1 DEF Lowers
  <2>2. CASE c.operator # "add"
    <3>1. c.magnitude \in Nat
      BY <1>1, <2>2
    <3>2. q.price * c.magnitude \in Nat
      BY <1>1, <3>1, TimesTyped
    <3>3. Down(q.price * c.magnitude, 100) \in Nat
      BY <3>2, DownTyped
    <3>4. /\ c.magnitude =< 100 => Down(q.price * c.magnitude, 100) =< q.price
          /\ c.magnitude >= 100 => Down(q.price * c.magnitude, 100) >= q.price
      BY <1>1, <3>1, PartOf
    <3>5. x = Down(q.price * c.magnitude, 100) /\ (Lowers(c) <=> c.magnitude =< 100)
      BY <2>2 DEF Lowers
    <3> HIDE DEF x
    <3> QED
      BY <3>1, <3>3, <3>4, <3>5
  <2> QED
    BY <2>1, <2>2
<1> HIDE DEF x
<1>3. after \in Nat /\ Signed(c, after - q.price)
  BY <1>1, <1>2 DEF Floored, Signed
<1>4. Adjust(q, c, bytes, user)
        = IF \/ q.done \/ ~InForce(c)
             \/ c.threshold > 0 /\ bytes > c.threshold
             \/ OverLimit(c, user, after - q.price)
          THEN q ELSE r
  BY DEF Adjust, x
<1>free. free \in BOOLEAN
  OBVIOUS
<1> HIDE DEF after, free
<1>5. a \in Adjustment /\ a.catalog = c.id /\ a.amount = after - q.price
  BY <1>1, <1>3 DEF Adjustment
<1> HIDE DEF a
<1>6. /\ Append(q.adjustments, a) \in Seq(Adjustment)
      /\ Total(Append(q.adjustments, a)) = Total(q.adjustments) + (after - q.price)
      /\ Total(q.adjustments) \in Int
  BY <1>1, <1>5, TotalAppend
<1>7. after = base + Total(Append(q.adjustments, a))
  BY <1>1, <1>3, <1>6
<1>8. r \in QuotesFor(base) /\ r.adjustments = Append(q.adjustments, a)
  <2>1. /\ r \in Quote /\ r.network = base /\ r.price = after
        /\ r.adjustments = Append(q.adjustments, a)
    BY <1>1, <1>3, <1>6, <1>free DEF Quote
  <2> HIDE DEF r
  <2> QED
    BY <1>7, <2>1 DEF QuotesFor
<1> HIDE DEF r
<1>9. CASE Adjust(q, c, bytes, user) = q
  BY <1>9
<1>10. CASE Adjust(q, c, bytes, user) = r /\ ~OverLimit(c, user, after - q.price)
  <2>1. Applied(c, user, a)
    BY <1>3, <1>5, <1>10 DEF Applied
  <2> QED
    BY <1>8, <1>10, <2>1
<1> QED
  BY <1>4, <1>9, <1>10

\* Every catalog of a quote is among the first ones, was applied within its limit,
\* and only once.
Within(list, i, user, adjustments) ==
  /\ \A k \in DOMAIN adjustments : \E j \in 1 .. i : Applied(list[j], user, adjustments[k])
  /\ \A k, l \in DOMAIN adjustments : adjustments[k].catalog = adjustments[l].catalog => k = l

LEMMA WithinNext ==
  ASSUME NEW list \in Seq(UploadRows), NEW i \in 1 .. Len(list), NEW user,
         \A j, k \in 1 .. Len(list) : list[j].id = list[k].id => j = k,
         NEW before \in Seq(Adjustment), Within(list, i - 1, user, before)
  PROVE  /\ Within(list, i, user, before)
         /\ \A a : Applied(list[i], user, a) => Within(list, i, user, Append(before, a))
<1> DEFINE n == Len(before)
<1>1. n \in Nat /\ DOMAIN before = 1 .. n
  OBVIOUS
<1>2. ASSUME NEW k \in 1 .. n
      PROVE  \E j \in 1 .. i : j # i /\ Applied(list[j], user, before[k])
  <2>1. PICK j \in 1 .. (i - 1) : Applied(list[j], user, before[k])
    BY <1>1 DEF Within
  <2>2. j \in 1 .. i /\ j # i
    OBVIOUS
  <2> QED
    BY <2>1, <2>2
<1>3. Within(list, i, user, before)
  BY <1>1, <1>2 DEF Within
<1>4. ASSUME NEW a, Applied(list[i], user, a) PROVE Within(list, i, user, Append(before, a))
  <2> DEFINE after == Append(before, a)
  <2>1. a \in Adjustment /\ a.catalog = list[i].id
    BY <1>4 DEF Applied
  <2>2. DOMAIN after = 1 .. (n + 1) /\ after[n + 1] = a /\ \A k \in 1 .. n : after[k] = before[k]
    BY <2>1
  <2> HIDE DEF after, n
  <2>3. i \in 1 .. i /\ 1 .. i \subseteq 1 .. Len(list)
    OBVIOUS
  <2>4. \A k \in 1 .. (n + 1) : k = n + 1 \/ k \in 1 .. n
    BY <1>1
  <2>5. \A k \in 1 .. (n + 1) : \E j \in 1 .. i : Applied(list[j], user, after[k])
    BY <1>2, <1>4, <2>2, <2>3, <2>4
  <2>6. \A k \in 1 .. n : before[k].catalog # a.catalog
    <3> SUFFICES ASSUME NEW k \in 1 .. n PROVE before[k].catalog # a.catalog
      OBVIOUS
    <3>1. PICK j \in 1 .. i : j # i /\ Applied(list[j], user, before[k])
      BY <1>2
    <3>2. before[k].catalog = list[j].id
      BY <3>1 DEF Applied
    <3> QED
      BY <2>1, <2>3, <3>1, <3>2
  <2>7. \A k, l \in 1 .. n : before[k].catalog = before[l].catalog => k = l
    BY <1>1 DEF Within
  <2>8. \A k, l \in 1 .. (n + 1) : after[k].catalog = after[l].catalog => k = l
    BY <2>2, <2>4, <2>6, <2>7
  <2> QED
    BY <2>2, <2>5, <2>8 DEF Within, after
<1> QED
  BY <1>3, <1>4

LEMMA QuoteKeeps ==
  ASSUME network \in NetworkPrices, NEW bytes \in Nat, NEW user
  PROVE  LET q == GetWCForBytes(bytes, user)
         IN  /\ q \in Quote /\ q.price = q.network + Total(q.adjustments)
             /\ Within(UploadCatalogs, Len(UploadCatalogs), user, q.adjustments)
<1> DEFINE list == UploadCatalogs
           n == Len(list)
           price == Up(network * bytes, TenGiB)
           V == QuotesFor(price)
           base == [NoPrice EXCEPT !.network = price, !.price = price]
           h == [a \in (1 .. n) \X V |-> Adjust(a[2], list[a[1]], bytes, user)]
           Step(g) == [r \in SUBSET (1 .. n) |->
                         IF r = {} THEN base ELSE Adjust(g[r \ {Max(r)}], list[Max(r)], bytes, user)]
           it == CHOOSE g : g = Step(g)
<1>1. price \in Nat
  <2>1. network \in Nat /\ TenGiB \in Nat \ {0}
    BY PricingAssumption
  <2>2. network * bytes \in Nat
    BY <2>1, TimesTyped
  <2> QED
    BY <2>1, <2>2, UpTyped
<1>2. /\ list \in Seq(UploadRows)
      /\ \A i \in 1 .. Len(list) : list[i].operator = "multiply" => list[i].magnitude >= 0
      /\ \A i, j \in 1 .. Len(list) : list[i].id = list[j].id => i = j
  <2>1. list \in Seq(UploadRows)
    BY PricingAssumption
  <2>2. \A i \in 1 .. Len(list) : list[i] \in ToSet(list)
    BY <2>1 DEF ToSet
  <2>3. DOMAIN list = 1 .. Len(list)
    BY <2>1
  <2> QED
    BY <2>1, <2>2, <2>3, PricingAssumption
<1> HIDE DEF list
<1>3. n \in Nat /\ DOMAIN list = 1 .. n /\ \A i \in 1 .. n : list[i] \in UploadRows
  BY <1>2
<1> HIDE DEF price
<1>4. ASSUME NEW i \in 1 .. n, NEW q \in V
      PROVE  LET r == Adjust(q, list[i], bytes, user)
             IN  /\ r \in V
                 /\ \/ r.adjustments = q.adjustments
                    \/ \E a : Applied(list[i], user, a) /\ r.adjustments = Append(q.adjustments, a)
  BY <1>1, <1>2, <1>3, AdjustAdds
<1>5. base \in V /\ base.adjustments = <<>>
  <2>1. NoPrice \in Quote /\ NoPrice.adjustments = <<>>
    BY DEF NoPrice, Quote
  <2>2. /\ base \in Quote /\ base.network = price /\ base.price = price
        /\ base.adjustments = <<>>
    BY <1>1, <2>1 DEF Quote
  <2> HIDE DEF base
  <2> QED
    BY <1>1, <2>2, TotalEmpty DEF QuotesFor
<1> HIDE DEF n, V, base
<1>6. h \in [(1 .. n) \X V -> V]
  BY <1>4
<1>7. \A i \in 1 .. n, q \in V : h[<<i, q>>] = Adjust(q, list[i], bytes, user)
  OBVIOUS
<1> HIDE DEF h
<1>8. PICK g : LeftFolds(g, n, V, base, h)
  BY <1>3, <1>5, <1>6, LeftFoldExists
<1>9. g = Step(g)
  <2>1. ASSUME NEW r \in SUBSET (1 .. n)
        PROVE  g[r] = IF r = {} THEN base ELSE Adjust(g[r \ {Max(r)}], list[Max(r)], bytes, user)
    BY <1>3, <1>7, <1>8, MaxIsIn DEF LeftFolds
  <2> QED
    BY <1>8, <2>1 DEF LeftFolds
<1>10. it = Step(it)
  BY <1>9, Zenon
<1>11. GetWCForBytes(bytes, user) = it[1 .. n]
  BY <1>3 DEF GetWCForBytes, FoldLeft, MapThenFoldSet, list, base, price
<1> HIDE DEF it
<1>12. \A r \in SUBSET (1 .. n) :
         it[r] = IF r = {} THEN base ELSE Adjust(it[r \ {Max(r)}], list[Max(r)], bytes, user)
  BY <1>10
<1> DEFINE W == [i \in 0 .. n |-> {q \in V : Within(list, i, user, q.adjustments)}]
<1>13. it[{}] \in W[0]
  <2>1. {} \in SUBSET (1 .. n) /\ 0 \in 0 .. n
    BY <1>3
  <2>2. it[{}] = base
    BY <1>12, <2>1
  <2>3. Within(list, 0, user, <<>>)
    BY DEF Within
  <2> QED
    BY <1>5, <2>1, <2>2, <2>3
<1>14. ASSUME NEW i \in 1 .. n, it[1 .. (i - 1)] \in W[i - 1] PROVE it[1 .. i] \in W[i]
  <2> DEFINE q == it[1 .. (i - 1)]
             r == it[1 .. i]
  <2>1. /\ 1 .. i \in SUBSET (1 .. n) /\ 1 .. i # {}
        /\ Max(1 .. i) = i /\ (1 .. i) \ {i} = 1 .. (i - 1)
    BY <1>3, Segment
  <2>2. i \in 0 .. n /\ i - 1 \in 0 .. n
    BY <1>3
  <2>3. r = Adjust(q, list[i], bytes, user)
    BY <1>12, <2>1
  <2>4. q \in V /\ Within(list, i - 1, user, q.adjustments) /\ q.adjustments \in Seq(Adjustment)
    BY <1>14, <2>2 DEF V, QuotesFor, Quote
  <2> HIDE DEF q, r
  <2>5. /\ r \in V
        /\ \/ r.adjustments = q.adjustments
           \/ \E a : Applied(list[i], user, a) /\ r.adjustments = Append(q.adjustments, a)
    BY <1>4, <2>3, <2>4
  <2>6. /\ Within(list, i, user, q.adjustments)
        /\ \A a : Applied(list[i], user, a) => Within(list, i, user, Append(q.adjustments, a))
    <3>1. i \in 1 .. Len(list)
      BY DEF n
    <3> QED
      BY <1>2, <2>4, <3>1, WithinNext
  <2>7. Within(list, i, user, r.adjustments)
    BY <2>5, <2>6
  <2> QED
    BY <2>2, <2>5, <2>7 DEF r
<1> HIDE DEF W
<1>15. it[1 .. n] \in W[n]
  BY <1>3, <1>13, <1>14, FoldStaysIn
<1>16. it[1 .. n] \in V /\ Within(list, n, user, it[1 .. n].adjustments)
  BY <1>3, <1>15 DEF W
<1>17. it[1 .. n] \in Quote /\ it[1 .. n].price = it[1 .. n].network + Total(it[1 .. n].adjustments)
  BY <1>16 DEF V, QuotesFor
<1> QED
  BY <1>11, <1>16, <1>17 DEF list, n

-----------------------------------------------------------------------------
(* The inductive invariant.                                                *)

Rows(q) == ToSet(q.adjustments)
Quoted(u) == Rows(upload[u].quote)

\* Every adjustment of a price is of one catalog, in its direction, and only one is.
Sourced ==
  \A u \in Uploads :
    /\ \A a \in Quoted(u) : \E c \in ToSet(UploadCatalogs) : a.catalog = c.id /\ Signed(c, a.amount)
    /\ \A a, b \in Quoted(u) : a.catalog = b.catalog => a = b

\* The rows recorded are those of the prices of the uploads reserved, each once; the
\* reader shows all rows of an upload or none.
Recorded ==
  /\ IsFiniteSet(taken)
  /\ \A u \in Uploads : upload[u].at # "idle" => u \in load
  /\ \A r \in taken : /\ upload[r.upload].at = "reserved"
                      /\ \E a \in Quoted(r.upload) : a.catalog = r.catalog /\ a.amount = r.amount
  /\ \A r, s \in taken : r.upload = s.upload /\ r.catalog = s.catalog => r = s
  /\ \A r \in shown, s \in taken : r.upload = s.upload => s \in shown

\* An upload was priced after all that it has seen were reserved, and after all
\* that these had seen.
Ordered ==
  /\ \A u \in Uploads : \A t \in seen[u] :
       /\ t \in {s.upload : s \in taken} /\ upload[u].at # "idle"
       /\ t # u /\ seen[t] \subseteq seen[u]
  /\ \A r \in shown : seen[r.upload] \subseteq {s.upload : s \in shown}

\* What the address an upload was priced for had taken of a subsidy by then.
Before(u, c, p) ==
  {r \in taken : /\ r.upload \in seen[u] /\ r.user = Payer(u)
                 /\ r.catalog = c.id /\ r.date > p - c.interval}

\* At p an upload was priced within the limits, and it is recorded no earlier.
PricedAt(u, p) ==
  /\ \A r \in taken : r.upload = u => p =< r.date
  /\ \A c \in ToSet(UploadCatalogs), a \in Quoted(u) :
       c.limit > 0 /\ a.catalog = c.id => -(Winc(Before(u, c, p)) + a.amount) =< c.limit

Limited == \A u \in Uploads : upload[u].at # "idle" => \E p \in 0 .. now : PricedAt(u, p)

PricingInv == TypeOK /\ PricesAddUp /\ Sourced /\ Recorded /\ Ordered /\ Limited

LEMMA UploadTyped ==
  ASSUME TypeOK, NEW u \in Uploads
  PROVE  /\ upload[u].at \in {"idle", "priced", "reserved", "refused"}
         /\ upload[u].quote \in Quote
         /\ upload[u].quote.adjustments \in Seq(Adjustment)
         /\ \A a \in Quoted(u) : a \in Adjustment /\ a.catalog \in STRING /\ a.amount \in Int
<1>1. upload[u].at \in {"idle", "priced", "reserved", "refused"} /\ upload[u].quote \in Quote
  BY DEF TypeOK
<1>2. upload[u].quote.adjustments \in Seq(Adjustment)
  BY <1>1 DEF Quote
<1>3. \A a \in Quoted(u) : a \in Adjustment
  BY <1>2 DEF Quoted, Rows, ToSet
<1> QED
  BY <1>1, <1>2, <1>3 DEF Adjustment

LEMMA CatalogIs ==
  ASSUME NEW c \in ToSet(UploadCatalogs), NEW d \in ToSet(UploadCatalogs), c.id = d.id
  PROVE  c = d
<1>1. UploadCatalogs \in Seq(UploadRows)
  BY PricingAssumption
<1>2. PICK i \in DOMAIN UploadCatalogs : c = UploadCatalogs[i]
  BY <1>1 DEF ToSet
<1>3. PICK j \in DOMAIN UploadCatalogs : d = UploadCatalogs[j]
  BY <1>1 DEF ToSet
<1> QED
  BY <1>2, <1>3, PricingAssumption

\* The rows recorded are typed, and so is what they sum up to.
LEMMA CatalogTyped ==
  ASSUME NEW c \in ToSet(UploadCatalogs)
  PROVE  /\ c \in UploadRows /\ c.limit \in Nat /\ c.interval \in Nat
         /\ c.operator = "multiply" => c.magnitude >= 0
<1>1. UploadCatalogs \in Seq(UploadRows)
  BY PricingAssumption
<1>2. PICK i \in DOMAIN UploadCatalogs : c = UploadCatalogs[i]
  BY DEF ToSet
<1>3. UploadCatalogs[i] \in UploadRows
  BY <1>1, <1>2
<1> QED
  BY <1>2, <1>3, PricingAssumption DEF UploadRows

LEMMA WincTyped ==
  ASSUME TypeOK, IsFiniteSet(taken), NEW rows \in SUBSET taken
  PROVE  Winc(rows) \in Int
<1> DEFINE f == [r \in rows |-> r.amount]
<1>1. IsFiniteSet(rows)
  BY FS_Subset
<1>2. \A r \in rows : f[r] \in Int
  BY DEF TypeOK
<1>3. SumFunctionOnSet(f, rows) \in Int
  <2> HIDE DEF f
  <2> QED
    BY <1>1, <1>2, SumType
<1>4. Winc(rows) = SumFunctionOnSet(f, rows)
  BY DEF Winc, SumFunction
<1> QED
  BY <1>3, <1>4

LEMMA InitInv == ASSUME Init PROVE PricingInv
<1>1. NoPrice \in Quote /\ NoPrice.adjustments = <<>> /\ NoPrice.price = NoPrice.network
  BY DEF NoPrice, Quote
<1>2. \A u \in Uploads : /\ upload[u] = [at |-> "idle", quote |-> NoPrice]
                       /\ seen[u] = {} /\ Quoted(u) = {}
  BY <1>1 DEF Init, Quoted, Rows, ToSet
<1>3. NoPrice.network \in Nat
  BY <1>1 DEF Quote
<1>4. TypeOK
  BY <1>1, PricingAssumption DEF Init, TypeOK
<1>5. PricesAddUp
  BY <1>1, <1>2, <1>3, TotalEmpty DEF Init, PricesAddUp
<1>6. Sourced /\ Ordered /\ Limited
  BY <1>2 DEF Init, Sourced, Ordered, Limited
<1>7. Recorded
  BY <1>2, FS_EmptySet DEF Init, Recorded
<1> QED
  BY <1>4, <1>5, <1>6, <1>7 DEF PricingInv

-----------------------------------------------------------------------------
(* Every step keeps it. Those that answer about a payment, or forget the   *)
(* answer, leave the uploads alone.                                        *)

LEMMA AnswerKeeps ==
  ASSUME PricingInv, UNCHANGED <<now, uploading>>, network' \in NetworkPrices, rates' \in Rates,
         answer' # NoAnswer =>
           /\ answer'.quoted \in Nat /\ answer'.actual \in Nat
           /\ answer'.adjustments \in Seq(Adjustment)
           /\ answer'.actual = answer'.quoted + Total(answer'.adjustments)
  PROVE  PricingInv'
<1> USE DEF PricingInv, uploading
<1>1. TypeOK'
  BY DEF TypeOK
<1>2. PricesAddUp'
  BY DEF PricesAddUp
<1>3. Sourced'
  BY DEF Sourced, Quoted
<1>4. Recorded'
  BY DEF Recorded, Quoted
<1>5. Ordered'
  BY DEF Ordered
<1>6. Limited'
  <2>1. \A u \in Uploads, t \in Int : PricedAt(u, t) => PricedAt(u, t)'
    BY DEF PricedAt, Quoted, Before
  <2> QED
    BY <2>1 DEF Limited
<1> QED
  BY <1>1, <1>2, <1>3, <1>4, <1>5, <1>6

LEMMA PaymentStep ==
  ASSUME PricingInv, NEW amount \in Amounts, NEW currency \in Currencies, NEW codes,
         PricePayment(amount, currency, codes)
  PROVE  PricingInv'
<1>1. amount \in Nat
  BY PricingAssumption
<1>2. rates \in Rates /\ network \in NetworkPrices
  BY DEF PricingInv, TypeOK
<1>3. answer' = GetWCForPayment(amount, currency, codes)
      /\ UNCHANGED <<now, uploading>> /\ rates' = rates /\ network' = network
  BY DEF PricePayment, prices
<1>4. LET p == GetWCForPayment(amount, currency, codes)
      IN  /\ p # NoAnswer /\ p.quoted \in Nat /\ p.actual \in Nat
          /\ p.adjustments \in Seq(Adjustment)
          /\ p.actual = p.quoted + Total(p.adjustments)
  BY <1>1, <1>2, PaymentKeeps
<1> QED
  BY <1>2, <1>3, <1>4, AnswerKeeps

LEMMA CryptoStep ==
  ASSUME PricingInv, NEW quantity \in Quantities, NEW token \in Tokens,
         PriceCrypto(quantity, token)
  PROVE  PricingInv'
<1>1. quantity \in Nat
  BY PricingAssumption
<1>2. rates \in Rates /\ network \in NetworkPrices
  BY DEF PricingInv, TypeOK
<1>3. answer' = GetWCForCryptoPayment(quantity, token, "default")
      /\ UNCHANGED <<now, uploading>> /\ rates' = rates /\ network' = network
  BY DEF PriceCrypto, prices
<1>4. LET p == GetWCForCryptoPayment(quantity, token, "default")
      IN  /\ p # NoAnswer /\ p.quoted \in Nat /\ p.actual \in Nat
          /\ p.adjustments \in Seq(Adjustment)
          /\ p.actual = p.quoted + Total(p.adjustments)
  BY <1>1, <1>2, CryptoKeeps
<1> QED
  BY <1>2, <1>3, <1>4, AnswerKeeps

LEMMA NameStep ==
  ASSUME PricingInv, NEW quantity \in Quantities, NEW currency \in Currencies, NEW codes,
         PriceName(quantity, currency, codes)
  PROVE  PricingInv'
<1> DEFINE withFee == GetWCForCryptoPayment(quantity, "ario", "invert").actual
           fiat == GetFiatPrice(withFee, currency, codes)
<1>1. quantity \in Nat /\ "ario" \in Tokens
  BY PricingAssumption
<1>2. rates \in Rates /\ network \in NetworkPrices
  BY DEF PricingInv, TypeOK
<1>3. withFee \in Nat
  BY <1>1, <1>2, CryptoKeeps
<1>4. /\ answer' # NoAnswer /\ answer'.quoted = fiat.quoted /\ answer'.actual = fiat.paid.amount
      /\ answer'.adjustments = fiat.paid.adjustments
      /\ UNCHANGED <<now, uploading>> /\ rates' = rates /\ network' = network
  BY DEF PriceName, prices, NoAnswer
<1> HIDE DEF withFee
<1>5. /\ fiat.quoted \in Nat /\ fiat.paid.amount \in Nat
      /\ fiat.paid.adjustments \in Seq(Adjustment)
      /\ fiat.paid.amount = fiat.quoted + Total(fiat.paid.adjustments)
  BY <1>2, <1>3, FiatKeeps
<1> HIDE DEF fiat
<1> QED
  BY <1>2, <1>4, <1>5, AnswerKeeps

LEMMA MoveStep ==
  ASSUME PricingInv, PricesMove
  PROVE  PricingInv'
<1>1. /\ answer' = NoAnswer /\ UNCHANGED <<now, uploading>>
      /\ network' \in NetworkPrices /\ rates' \in Rates
  BY DEF PricesMove, PricingInv, TypeOK
<1> QED
  BY <1>1, AnswerKeeps

LEMMA TickStep ==
  ASSUME PricingInv, Tick
  PROVE  PricingInv'
<1> USE DEF PricingInv, Tick, uploading, prices
<1>1. TypeOK'
  BY PricingAssumption DEF TypeOK
<1>2. PricesAddUp'
  BY DEF PricesAddUp
<1>3. Sourced'
  BY DEF Sourced, Quoted
<1>4. Recorded'
  BY DEF Recorded, Quoted
<1>5. Ordered'
  BY DEF Ordered
<1>6. Limited'
  <2>1. \A u \in Uploads, t \in Int : PricedAt(u, t) => PricedAt(u, t)'
    BY DEF PricedAt, Quoted, Before
  <2>2. now \in Int /\ now' = now + 1 /\ \A u \in Uploads : upload'[u].at = upload[u].at
    BY DEF TypeOK
  <2>3. 0 .. now \subseteq 0 .. now'
    BY <2>2
  <2> QED
    BY <2>1, <2>2, <2>3 DEF Limited
<1> QED
  BY <1>1, <1>2, <1>3, <1>4, <1>5, <1>6

LEMMA ReplicateStep ==
  ASSUME PricingInv, Replicate
  PROVE  PricingInv'
<1> USE DEF PricingInv, Replicate, prices
<1>1. TypeOK'
  BY DEF TypeOK
<1>2. PricesAddUp'
  BY DEF PricesAddUp
<1>3. Sourced'
  BY DEF Sourced, Quoted
<1>4. Recorded'
  BY DEF Recorded, Quoted
<1>5. Ordered'
  <2>1. \A r \in taken : r.upload \in Uploads
    BY PricingAssumption DEF TypeOK
  <2> QED
    BY <2>1 DEF Ordered
<1>6. Limited'
  <2>1. \A u \in Uploads, t \in Int : PricedAt(u, t) => PricedAt(u, t)'
    BY DEF PricedAt, Quoted, Before
  <2> QED
    BY <2>1 DEF Limited
<1> QED
  BY <1>1, <1>2, <1>3, <1>4, <1>5, <1>6

LEMMA RefuseStep ==
  ASSUME PricingInv, NEW u \in Uploads, RefuseBalance(u)
  PROVE  PricingInv'
<1> USE DEF PricingInv, RefuseBalance, prices
<1>1. /\ upload' \in [Uploads -> [at : {"idle", "priced", "reserved", "refused"}, quote : Quote]]
      /\ \A v \in Uploads : upload'[v].quote = upload[v].quote
      /\ \A v \in Uploads : v # u => upload'[v] = upload[v]
      /\ upload[u].at = "priced" /\ upload'[u].at = "refused"
  BY DEF TypeOK
<1>2. TypeOK'
  BY <1>1 DEF TypeOK
<1>3. PricesAddUp'
  BY <1>1 DEF PricesAddUp
<1>4. \A v \in Uploads : Quoted(v)' = Quoted(v)
  BY <1>1 DEF Quoted
<1>5. Sourced'
  BY <1>4 DEF Sourced
<1>6. Recorded'
  <2>1. \A r \in taken : r.upload \in Uploads
    BY PricingAssumption DEF TypeOK
  <2> QED
    BY <1>1, <1>4, <2>1 DEF Recorded
<1>7. Ordered'
  BY <1>1 DEF Ordered
<1>8. Limited'
  <2>1. \A v \in Uploads, t \in Int : PricedAt(v, t) => PricedAt(v, t)'
    BY <1>4 DEF PricedAt, Before
  <2>2. \A v \in Uploads : upload'[v].at # "idle" => upload[v].at # "idle"
    BY <1>1
  <2> QED
    BY <2>1, <2>2 DEF Limited
<1> QED
  BY <1>2, <1>3, <1>5, <1>6, <1>7, <1>8

\* The rows an upload takes, each of one adjustment of its price.
Row(u, a) == [upload |-> u, user |-> Signer[u], date |-> now,
              catalog |-> a.catalog, amount |-> a.amount]

LEMMA ReserveStep ==
  ASSUME PricingInv, NEW u \in Uploads, ReserveBalance(u)
  PROVE  PricingInv'
<1> DEFINE new == {Row(u, a) : a \in Quoted(u)}
<1> USE DEF PricingInv, prices
<1>1. /\ upload' \in [Uploads -> [at : {"idle", "priced", "reserved", "refused"}, quote : Quote]]
      /\ \A v \in Uploads : upload'[v].quote = upload[v].quote
      /\ \A v \in Uploads : v # u => upload'[v] = upload[v]
      /\ upload[u].at = "priced" /\ upload'[u].at = "reserved"
  BY DEF ReserveBalance, TypeOK
<1>2. taken' = taken \cup new /\ UNCHANGED <<now, prices, load, shown, seen, answer>>
  BY DEF ReserveBalance, Row, Quoted, Rows
<1>3. \A v \in Uploads : Quoted(v)' = Quoted(v)
  BY <1>1 DEF Quoted
<1>4. \A r \in new : /\ r.upload = u /\ r.user = Signer[u] /\ r.date = now
                     /\ \E a \in Quoted(u) : r = Row(u, a)
  BY DEF Row
<1>5. \A a \in Quoted(u) : a.amount \in Int /\ Row(u, a).catalog = a.catalog /\ Row(u, a).amount = a.amount
  BY UploadTyped DEF Row
<1>6. \A r \in taken : r.upload \in Uploads /\ r.upload # u
  BY <1>1, PricingAssumption DEF TypeOK, Recorded
<1>7. u \in load /\ now \in 0 .. Horizon
  BY <1>1 DEF Recorded, TypeOK
<1>8. IsFiniteSet(new)
  <2> DEFINE list == upload[u].quote.adjustments
             onto == [i \in 1 .. Len(list) |-> Row(u, list[i])]
  <2>1. list \in Seq(Adjustment)
    BY UploadTyped
  <2>2. new = {Row(u, list[i]) : i \in 1 .. Len(list)}
    BY <2>1 DEF Quoted, Rows, ToSet
  <2>3. Len(list) \in Nat
    BY <2>1
  <2> HIDE DEF list, new
  <2>4. onto \in Surjection(1 .. Len(list), new)
    BY <2>2 DEF Surjection
  <2>5. IsFiniteSet(1 .. Len(list))
    BY <2>3, FS_Interval
  <2> HIDE DEF onto
  <2> QED
    BY <2>4, <2>5, FS_Surjection
<1> HIDE DEF new
<1>9. TypeOK'
  <2>1. \A r \in new : /\ r.upload \in load /\ r.user = Signer[r.upload] /\ r.date \in 0 .. now
                       /\ r.amount \in Int
    BY <1>4, <1>5, <1>7
  <2>2. \A r \in taken' : /\ r.upload \in load /\ r.user = Signer[r.upload] /\ r.date \in 0 .. now
                          /\ r.amount \in Int
    BY <1>2, <2>1 DEF TypeOK
  <2>3. shown \subseteq taken'
    BY <1>2 DEF TypeOK
  <2> QED
    BY <1>1, <1>2, <2>2, <2>3 DEF TypeOK
<1>10. PricesAddUp'
  BY <1>1, <1>2 DEF PricesAddUp
<1>11. Sourced'
  BY <1>3 DEF Sourced
<1>12. Recorded'
  <2>1. IsFiniteSet(taken')
    BY <1>2, <1>8, FS_Union DEF Recorded
  <2>2. \A v \in Uploads : upload'[v].at # "idle" => v \in load'
    BY <1>1, <1>2, <1>7 DEF Recorded
  <2>3. ASSUME NEW r \in taken'
        PROVE  /\ upload'[r.upload].at = "reserved"
               /\ \E a \in Quoted(r.upload)' : a.catalog = r.catalog /\ a.amount = r.amount
    <3>1. CASE r \in taken
      BY <1>1, <1>3, <1>6, <3>1 DEF Recorded
    <3>2. CASE r \in new
      BY <1>1, <1>3, <1>4, <1>5, <3>2
    <3> QED
      BY <1>2, <3>1, <3>2
  <2>4. ASSUME NEW r \in taken', NEW s \in taken', r.upload = s.upload, r.catalog = s.catalog
        PROVE  r = s
    <3>1. CASE r \in taken /\ s \in taken
      BY <2>4, <3>1 DEF Recorded
    <3>2. CASE r \in new /\ s \in new
      <4>1. PICK a \in Quoted(u) : r = Row(u, a)
        BY <1>4, <3>2
      <4>2. PICK b \in Quoted(u) : s = Row(u, b)
        BY <1>4, <3>2
      <4>3. a.catalog = b.catalog
        BY <1>5, <2>4, <4>1, <4>2
      <4>4. a = b
        BY <4>3 DEF Sourced
      <4> QED
        BY <4>1, <4>2, <4>4
    <3> QED
      BY <1>2, <1>4, <1>6, <2>4, <3>1, <3>2
  <2>5. ASSUME NEW r \in shown', NEW s \in taken', r.upload = s.upload PROVE s \in shown'
    <3>1. r \in shown /\ r \in taken
      BY <1>2 DEF TypeOK
    <3>2. s \in taken
      BY <1>2, <1>4, <1>6, <2>5, <3>1
    <3> QED
      BY <1>2, <2>5, <3>1, <3>2 DEF Recorded
  <2> QED
    BY <2>1, <2>2, <2>3, <2>4, <2>5 DEF Recorded
<1>13. Ordered'
  <2>1. {s.upload : s \in taken} \subseteq {s.upload : s \in taken'}
    BY <1>2
  <2>2. \A v \in Uploads : upload[v].at # "idle" => upload'[v].at # "idle"
    BY <1>1
  <2> QED
    BY <1>2, <2>1, <2>2 DEF Ordered
<1>14. Limited'
  <2>1. ASSUME NEW v \in Uploads, upload'[v].at # "idle"
        PROVE  \E p \in 0 .. now' : PricedAt(v, p)'
    <3>1. upload[v].at # "idle"
      BY <1>1, <2>1
    <3>2. PICK p \in 0 .. now : PricedAt(v, p)
      BY <3>1 DEF Limited
    <3>3. \A r \in taken' : r.upload = v => p =< r.date
      <4>1. \A r \in new : p =< r.date
        BY <1>4, <1>7
      <4> QED
        BY <1>2, <3>2, <4>1 DEF PricedAt
    <3>4. u \notin seen[v]
      BY <1>6 DEF Ordered
    <3>5. \A c : Before(v, c, p)' = Before(v, c, p)
      BY <1>2, <1>4, <3>4 DEF Before
    <3>6. PricedAt(v, p)'
      BY <1>3, <3>2, <3>3, <3>5 DEF PricedAt
    <3> QED
      BY <1>2, <3>6
  <2> QED
    BY <2>1 DEF Limited
<1> QED
  BY <1>9, <1>10, <1>11, <1>12, <1>13, <1>14

LEMMA PriceStep ==
  ASSUME PricingInv, NEW u \in Uploads, PriceUpload(u)
  PROVE  PricingInv'
<1> DEFINE q == GetWCForBytes(Bytes[u], {Payer(u)})
           list == UploadCatalogs
           all == {r.upload : r \in shown}
<1> USE DEF PricingInv, prices
<1>1. /\ q \in Quote /\ q.price = q.network + Total(q.adjustments)
      /\ Within(list, Len(list), {Payer(u)}, q.adjustments)
  <2>1. network \in NetworkPrices /\ Bytes[u] \in Nat
    BY PricingAssumption DEF TypeOK
  <2> QED
    BY <2>1, QuoteKeeps
<1>2. /\ u \in load /\ upload[u].at = "idle"
      /\ upload' = [upload EXCEPT ![u] = [at |-> "priced", quote |-> q]]
      /\ seen' = [seen EXCEPT ![u] = all]
      /\ UNCHANGED <<now, prices, load, taken, shown, answer>>
  BY DEF PriceUpload
<1> HIDE DEF q, list
<1>3. /\ upload' \in [Uploads -> [at : {"idle", "priced", "reserved", "refused"}, quote : Quote]]
      /\ \A v \in Uploads : v # u => upload'[v] = upload[v]
      /\ upload'[u].at = "priced" /\ upload'[u].quote = q
  BY <1>1, <1>2 DEF TypeOK
<1>4. all \subseteq load
  BY DEF TypeOK
<1>5. /\ seen' \in [Uploads -> SUBSET load] /\ seen'[u] = all
      /\ \A v \in Uploads : v # u => seen'[v] = seen[v]
  BY <1>2, <1>4 DEF TypeOK
<1>6. \A r \in taken : r.upload \in Uploads /\ r.upload # u
  BY <1>2, PricingAssumption DEF TypeOK, Recorded
<1>7. \A v \in Uploads : v # u => Quoted(v)' = Quoted(v)
  BY <1>3 DEF Quoted
<1>8. Quoted(u)' = Rows(q) /\ list \in Seq(UploadRows) /\ q.adjustments \in Seq(Adjustment)
  BY <1>1, <1>3, PricingAssumption DEF Quoted, Quote, list
<1>9. ASSUME NEW a \in Rows(q)
      PROVE  \E c \in ToSet(list) : Applied(c, {Payer(u)}, a)
  <2>1. PICK k \in DOMAIN q.adjustments : a = q.adjustments[k]
    BY <1>8 DEF Rows, ToSet
  <2>2. PICK j \in 1 .. Len(list) : Applied(list[j], {Payer(u)}, a)
    BY <1>1, <2>1 DEF Within
  <2>3. list[j] \in ToSet(list)
    BY <1>8 DEF ToSet
  <2> QED
    BY <2>2, <2>3
<1>10. TypeOK'
  BY <1>2, <1>3, <1>5 DEF TypeOK
<1>11. PricesAddUp'
  BY <1>1, <1>2, <1>3 DEF PricesAddUp
<1>12. Sourced'
  <2>1. \A a \in Rows(q) : \E c \in ToSet(list) : a.catalog = c.id /\ Signed(c, a.amount)
    BY <1>9 DEF Applied
  <2>2. \A a, b \in Rows(q) : a.catalog = b.catalog => a = b
    BY <1>1, <1>8 DEF Within, Rows, ToSet
  <2>3. ASSUME NEW v \in Uploads
        PROVE  /\ \A a \in Quoted(v)' : \E c \in ToSet(list) : a.catalog = c.id /\ Signed(c, a.amount)
               /\ \A a, b \in Quoted(v)' : a.catalog = b.catalog => a = b
    <3>1. CASE v = u
      BY <1>8, <2>1, <2>2, <3>1
    <3>2. CASE v # u
      BY <1>7, <3>2 DEF Sourced, list
    <3> QED
      BY <3>1, <3>2
  <2> QED
    BY <2>3 DEF Sourced, list
<1>13. Recorded'
  BY <1>2, <1>3, <1>6, <1>7 DEF Recorded
<1>14. Ordered'
  <2>1. \A t \in all : /\ t \in {s.upload : s \in taken} /\ t # u /\ t \in Uploads
                      /\ seen[t] \subseteq all
    BY <1>6 DEF TypeOK, Ordered
  <2>2. ASSUME NEW v \in Uploads, NEW t \in seen'[v]
        PROVE  /\ t \in {s.upload : s \in taken'} /\ upload'[v].at # "idle"
               /\ t # v /\ seen'[t] \subseteq seen'[v]
    <3>1. CASE v = u
      BY <1>2, <1>3, <1>5, <2>1, <2>2, <3>1
    <3>2. CASE v # u
      <4>1. t \in seen[v] /\ t \in {s.upload : s \in taken}
        BY <1>5, <2>2, <3>2 DEF Ordered
      <4>2. t # u /\ t \in Uploads
        BY <1>6, <4>1
      <4> QED
        BY <1>2, <1>3, <1>5, <3>2, <4>1, <4>2 DEF Ordered
    <3> QED
      BY <3>1, <3>2
  <2>3. \A r \in shown : seen'[r.upload] = seen[r.upload]
    BY <1>5, <1>6 DEF TypeOK
  <2> QED
    BY <1>2, <2>2, <2>3 DEF Ordered
<1>15. Limited'
  <2>1. ASSUME NEW v \in Uploads, v # u, upload'[v].at # "idle"
        PROVE  \E p \in 0 .. now' : PricedAt(v, p)'
    <3>1. PICK p \in 0 .. now : PricedAt(v, p)
      BY <1>3, <2>1 DEF Limited
    <3>2. \A c : Before(v, c, p)' = Before(v, c, p)
      BY <1>2, <1>5, <2>1 DEF Before
    <3>3. PricedAt(v, p)'
      BY <1>2, <1>7, <2>1, <3>1, <3>2 DEF PricedAt
    <3> QED
      BY <1>2, <3>3
  <2>2. PricedAt(u, now)'
    <3>1. ASSUME NEW c \in ToSet(list), NEW a \in Rows(q), c.limit > 0, a.catalog = c.id
          PROVE  -(Winc(Before(u, c, now)') + a.amount) =< c.limit
      <4>1. PICK d \in ToSet(list) : Applied(d, {Payer(u)}, a)
        BY <1>9
      <4>2. d = c
        BY <3>1, <4>1, CatalogIs DEF Applied, list
      <4>3. ~OverLimit(c, {Payer(u)}, a.amount) /\ a.amount \in Int
        BY <4>1, <4>2 DEF Applied, Adjustment
      <4>4. Before(u, c, now)'
              = {r \in shown : r.user = Payer(u) /\ r.catalog = c.id /\ r.date > now - c.interval}
        BY <1>2, <1>5 DEF Before, TypeOK, Recorded
      <4>5. WincUsed(Payer(u), c) = Winc(Before(u, c, now)')
        BY <4>4 DEF WincUsed
      <4>6. Winc(Before(u, c, now)') \in Int
        <5>1. Before(u, c, now)' \in SUBSET taken
          BY <4>4 DEF TypeOK
        <5> QED
          BY <5>1, WincTyped DEF Recorded
      <4>7. c.limit \in Nat
        BY <3>1, CatalogTyped DEF list
      <4> HIDE DEF q
      <4>8. ~(-(WincUsed(Payer(u), c) + a.amount) > c.limit)
        BY <3>1, <4>3 DEF OverLimit
      <4> QED
        BY <4>3, <4>5, <4>6, <4>7, <4>8
    <3> QED
      BY <1>2, <1>6, <1>8, <3>1 DEF PricedAt, list
  <2>3. now \in 0 .. now' /\ now' = now
    BY <1>2 DEF TypeOK
  <2>4. \E p \in 0 .. now' : PricedAt(u, p)'
    BY <2>2, <2>3
  <2> QED
    BY <2>1, <2>4 DEF Limited
<1> QED
  BY <1>10, <1>11, <1>12, <1>13, <1>14, <1>15

LEMMA NextKeeps == PricingInv /\ [Next]_vars => PricingInv'
<1> SUFFICES ASSUME PricingInv, [Next]_vars PROVE PricingInv'
  OBVIOUS
<1>1. ASSUME NEW u \in Uploads, PriceUpload(u) PROVE PricingInv'
  BY <1>1, PriceStep
<1>2. ASSUME NEW u \in Uploads, ReserveBalance(u) PROVE PricingInv'
  BY <1>2, ReserveStep
<1>3. ASSUME NEW u \in Uploads, RefuseBalance(u) PROVE PricingInv'
  BY <1>3, RefuseStep
<1>4. ASSUME NEW amount \in Amounts, NEW currency \in Currencies, NEW codes \in SUBSET PromoIds,
             PricePayment(amount, currency, codes)
      PROVE PricingInv'
  BY <1>4, PaymentStep
<1>5. ASSUME NEW quantity \in Quantities, NEW token \in Tokens, PriceCrypto(quantity, token)
      PROVE PricingInv'
  BY <1>5, CryptoStep
<1>6. ASSUME NEW quantity \in Quantities, NEW currency \in Currencies,
             NEW codes \in SUBSET PromoIds, PriceName(quantity, currency, codes)
      PROVE PricingInv'
  BY <1>6, NameStep
<1>7. CASE PricesMove
  BY <1>7, MoveStep
<1>8. CASE Replicate
  BY <1>8, ReplicateStep
<1>9. CASE Tick
  BY <1>9, TickStep
<1>10. CASE UNCHANGED vars
  <2>1. UNCHANGED <<now, uploading, network, rates, answer>>
    BY <1>10 DEF vars, prices, uploading
  <2>2. /\ network' \in NetworkPrices /\ rates' \in Rates
        /\ answer' # NoAnswer =>
             /\ answer'.quoted \in Nat /\ answer'.actual \in Nat
             /\ answer'.adjustments \in Seq(Adjustment)
             /\ answer'.actual = answer'.quoted + Total(answer'.adjustments)
    BY <2>1 DEF PricingInv, TypeOK, PricesAddUp
  <2> QED
    BY <2>1, <2>2, AnswerKeeps DEF uploading
<1> QED
  BY <1>1, <1>2, <1>3, <1>4, <1>5, <1>6, <1>7, <1>8, <1>9, <1>10 DEF Next

LEMMA InvHolds == Spec => []PricingInv
<1>1. Init => PricingInv
  BY InitInv
<1> QED
  BY <1>1, NextKeeps, PTL DEF Spec

(* Clock, prices, rows and answers keep their types: every answer about a  *)
(* payment, and every price of an upload, is never negative.               *)
THEOREM PricingTyped == Spec => []TypeOK
<1>1. PricingInv => TypeOK
  BY DEF PricingInv
<1> QED
  BY <1>1, InvHolds, PTL

(* Whatever the catalogs, the codes and the prices outside, the adjustments *)
(* given with a price lead from the price before them to the price after.  *)
THEOREM PricesExplained == Spec => []PricesAddUp
<1>1. PricingInv => PricesAddUp
  BY DEF PricingInv
<1> QED
  BY <1>1, InvHolds, PTL

LEMMA WincSplits ==
  ASSUME TypeOK, IsFiniteSet(taken), NEW rows \in SUBSET taken, NEW z \in rows
  PROVE  Winc(rows) = z.amount + Winc(rows \ {z})
<1> DEFINE f == [r \in rows |-> r.amount]
           g == [r \in rows \ {z} |-> r.amount]
<1>1. IsFiniteSet(rows) /\ IsFiniteSet(rows \ {z})
  BY FS_Subset, rows \ {z} \in SUBSET taken
<1>2. (\A r \in rows : f[r] \in Int) /\ f[z] = z.amount
  BY DEF TypeOK
<1>3. \A r \in rows \ {z} : f[r] \in Int /\ g[r] = f[r]
  BY <1>2
<1>4. Winc(rows) = SumFunctionOnSet(f, rows) /\ Winc(rows \ {z}) = SumFunctionOnSet(g, rows \ {z})
  BY DEF Winc, SumFunction
<1> HIDE DEF f, g
<1>5. SumFunctionOnSet(f, rows) = f[z] + SumFunctionOnSet(f, rows \ {z})
  BY <1>1, <1>2, SumElement
<1>6. SumFunctionOnSet(g, rows \ {z}) = SumFunctionOnSet(f, rows \ {z})
  BY <1>1, <1>3, SumSame
<1> QED
  BY <1>2, <1>4, <1>5, <1>6

\* More rows that lower a price are no less of a subsidy.
LEMMA WincLowers ==
  ASSUME TypeOK, IsFiniteSet(taken), NEW more \in SUBSET taken, NEW rows \in SUBSET more,
         \A r \in more : r.amount =< 0
  PROVE  Winc(more) =< Winc(rows)
<1> DEFINE f == [r \in more |-> r.amount]
           g == [r \in more |-> IF r \in rows THEN r.amount ELSE 0]
           h == [r \in rows |-> r.amount]
<1>1. IsFiniteSet(more) /\ IsFiniteSet(rows)
  BY FS_Subset, rows \in SUBSET taken
<1>2. \A r \in more : f[r] \in Int /\ g[r] \in Int /\ f[r] =< g[r]
  BY DEF TypeOK
<1>3. (\A r \in rows : g[r] \in Int /\ h[r] = g[r]) /\ \A r \in more \ rows : g[r] = 0
  BY DEF TypeOK
<1>4. Winc(more) = SumFunctionOnSet(f, more) /\ Winc(rows) = SumFunctionOnSet(h, rows)
  BY DEF Winc, SumFunction
<1> HIDE DEF f, g, h
<1>5. SumFunctionOnSet(f, more) =< SumFunctionOnSet(g, more)
  BY <1>1, <1>2, SumMonotone
<1>6. SumFunctionOnSet(g, more) = SumFunctionOnSet(g, rows)
  BY <1>1, <1>3, SumPart
<1>7. SumFunctionOnSet(h, rows) = SumFunctionOnSet(g, rows)
  BY <1>1, <1>3, SumSame
<1> QED
  BY <1>4, <1>5, <1>6, <1>7

\* Of rows that were all shown to one another, one was shown all others.
LEMMA LastExists ==
  ASSUME TypeOK, Recorded, Ordered, NEW rows \in SUBSET taken, rows # {},
         \A s, t \in rows :
           s.upload = t.upload \/ s.upload \in seen[t.upload] \/ t.upload \in seen[s.upload]
  PROVE  \E z \in rows : \A s \in rows : s.upload = z.upload \/ s.upload \in seen[z.upload]
<1> DEFINE Latest(T) == \E z \in T : \A s \in T : s.upload = z.upload \/ s.upload \in seen[z.upload]
           P == {T \in SUBSET rows : T = {} \/ Latest(T)}
<1>1. IsFiniteSet(rows)
  BY FS_Subset DEF Recorded
<1>2. {} \in P
  OBVIOUS
<1>3. \A r \in rows : r.upload \in Uploads
  BY PricingAssumption DEF TypeOK
<1>4. ASSUME NEW T \in SUBSET rows, T # {}, \A x \in T : T \ {x} \in P PROVE T \in P
  <2>1. PICK x \in T : TRUE
    BY <1>4
  <2>2. CASE T \ {x} = {}
    BY <2>1, <2>2
  <2>3. CASE T \ {x} # {}
    <3>1. PICK z \in T \ {x} : \A s \in T \ {x} : s.upload = z.upload \/ s.upload \in seen[z.upload]
      BY <1>4, <2>3
    <3>2. CASE x.upload = z.upload \/ x.upload \in seen[z.upload]
      BY <3>1, <3>2
    <3>3. CASE z.upload \in seen[x.upload]
      <4>1. seen[z.upload] \subseteq seen[x.upload]
        BY <1>3, <3>3 DEF Ordered
      <4>2. \A s \in T : s.upload = x.upload \/ s.upload \in seen[x.upload]
        BY <3>1, <3>3, <4>1
      <4> QED
        BY <4>2
    <3> QED
      BY <3>1, <3>2, <3>3
  <2> QED
    BY <2>2, <2>3
<1> HIDE DEF P
<1>5. SUBSET rows \subseteq P
  BY <1>1, <1>2, <1>4, SubsetInduction
<1> QED
  BY <1>5 DEF P

LEMMA LimitFollows == PricingInv => LimitKept
<1> SUFFICES ASSUME PricingInv, NEW c \in ToSet(UploadCatalogs), NEW r \in taken,
                    c.limit > 0,
                    \A s, t \in Together(c, r) : \/ s.upload = t.upload
                                                 \/ s.upload \in seen[t.upload]
                                                 \/ t.upload \in seen[s.upload]
             PROVE  -Winc(Together(c, r)) =< c.limit
  BY DEF LimitKept
<1> DEFINE rows == Together(c, r)
<1> USE DEF PricingInv
<1>1. rows \in SUBSET taken /\ IsFiniteSet(taken) /\ IsFiniteSet(rows)
  BY FS_Subset DEF Recorded, Together
<1>2. c.limit \in Nat /\ c.interval \in Nat
  BY CatalogTyped
<1>3. \A s \in taken : s.upload \in Uploads /\ s.amount \in Int /\ s.date \in Int
  BY PricingAssumption DEF TypeOK
<1>4. \A s \in taken : s.catalog = c.id => Signed(c, s.amount)
  <2> SUFFICES ASSUME NEW s \in taken, s.catalog = c.id PROVE Signed(c, s.amount)
    OBVIOUS
  <2>1. PICK a \in Quoted(s.upload) : a.catalog = s.catalog /\ a.amount = s.amount
    BY DEF Recorded
  <2>2. PICK d \in ToSet(UploadCatalogs) : a.catalog = d.id /\ Signed(d, a.amount)
    BY <1>3 DEF Sourced
  <2>3. c = d
    BY <2>1, <2>2, CatalogIs
  <2> QED
    BY <2>1, <2>2, <2>3
<1>5. Winc(rows) \in Int
  BY <1>1, WincTyped
<1>6. CASE rows = {}
  <2>1. Winc(rows) = 0
    BY <1>6, SumEmpty DEF Winc, SumFunction
  <2> QED
    BY <1>2, <2>1
<1>7. CASE ~Lowers(c)
  <2> DEFINE f == [s \in rows |-> s.amount]
  <2>1. \A s \in rows : f[s] \in Nat
    BY <1>3, <1>4, <1>7 DEF Together, Signed
  <2>2. Winc(rows) = SumFunctionOnSet(f, rows)
    BY DEF Winc, SumFunction
  <2> HIDE DEF f, rows
  <2>3. Winc(rows) \in Nat
    BY <1>1, <2>1, <2>2, SumNat
  <2> QED
    BY <1>2, <2>3 DEF rows
<1>8. CASE rows # {} /\ Lowers(c)
  <2>1. PICK z \in rows : \A s \in rows : s.upload = z.upload \/ s.upload \in seen[z.upload]
    BY <1>1, <1>8, LastExists
  <2>2. z \in taken /\ z.catalog = c.id /\ z.user = r.user /\ Payer(z.upload) = z.user
        /\ z.date =< r.date /\ z.upload \in Uploads
    BY <1>3 DEF Together
  <2>3. upload[z.upload].at # "idle"
    BY <2>2 DEF Recorded
  <2>4. PICK p \in 0 .. now : PricedAt(z.upload, p)
    BY <2>2, <2>3 DEF Limited
  <2>5. PICK a \in Quoted(z.upload) : a.catalog = z.catalog /\ a.amount = z.amount
    BY <2>2 DEF Recorded
  <2> DEFINE before == Before(z.upload, c, p)
  <2>6. before \in SUBSET taken /\ \A s \in before : s.amount =< 0
    BY <1>4, <1>8 DEF Before, Signed
  <2>7. rows \ {z} \in SUBSET before
    <3> SUFFICES ASSUME NEW s \in rows, s # z PROVE s \in before
      OBVIOUS
    <3>1. s \in taken /\ s.catalog = c.id /\ s.user = r.user /\ s.date > r.date - c.interval
      BY DEF Together
    <3>2. s.upload \in seen[z.upload]
      BY <2>1, <2>2, <3>1 DEF Recorded
    <3>3. p =< z.date /\ p \in Int /\ r.date \in Int
      BY <1>3, <2>2, <2>4 DEF PricedAt
    <3>4. s.date > p - c.interval
      BY <1>2, <1>3, <2>2, <3>1, <3>3
    <3> QED
      BY <2>2, <3>1, <3>2, <3>4 DEF Before
  <2>8. -(Winc(before) + z.amount) =< c.limit
    BY <2>2, <2>4, <2>5 DEF PricedAt
  <2>9. Winc(before) \in Int /\ Winc(rows \ {z}) \in Int /\ z.amount \in Int
    BY <1>1, <1>3, <2>2, <2>6, <2>7, WincTyped
  <2> HIDE DEF before, rows
  <2>10. Winc(before) =< Winc(rows \ {z})
    BY <1>1, <2>6, <2>7, WincLowers
  <2>11. Winc(rows) = z.amount + Winc(rows \ {z})
    BY <1>1, <2>1, WincSplits
  <2> QED
    BY <1>2, <2>8, <2>9, <2>10, <2>11 DEF rows
<1> QED
  BY <1>6, <1>7, <1>8

(* The winc_limitation of a subsidy holds within every interval, for every *)
(* address and however the uploads interleave, as long as each of them was *)
(* priced when the reader already showed the others recorded before it.    *)
THEOREM LimitIsKept == Spec => []LimitKept
  BY LimitFollows, InvHolds, PTL

-----------------------------------------------------------------------------
(* Names. A top up with the price of a name runs the fee backwards, and    *)
(* rounds three times on its way.                                          *)

\* What rounding leaves.
LEMMA DivBounds ==
  ASSUME NEW n \in Int, NEW d \in Nat \ {0}
  PROVE  n \div d \in Int /\ d * (n \div d) =< n /\ n < d * (n \div d) + d
  OBVIOUS

LEMMA HalfBounds ==
  ASSUME NEW n \in Int, NEW d \in Nat \ {0}
  PROVE  /\ Half(n, d) \in Int
         /\ 2 * (d * Half(n, d)) =< 2 * n + d /\ 2 * n + d < 2 * (d * Half(n, d)) + 2 * d
<1> DEFINE q == (2 * n + d) \div (2 * d)
<1>1. 2 * n + d \in Int /\ 2 * d \in Nat \ {0}
  OBVIOUS
<1>2. q \in Int /\ (2 * d) * q =< 2 * n + d /\ 2 * n + d < (2 * d) * q + 2 * d
  BY <1>1, DivBounds
<1>3. Half(n, d) = q
  BY DEF Half
<1> HIDE DEF q
<1>4. (2 * d) * q = 2 * (d * q)
  BY <1>2
<1> QED
  BY <1>2, <1>3, <1>4

LEMMA Scaled ==
  ASSUME NEW x \in Int, NEW y \in Int, NEW k \in Nat
  PROVE  /\ x =< y => k * x =< k * y
         /\ k # 0 /\ k * x < k * y => x < y
         /\ k # 0 /\ x < y => k * x < k * y
<1>1. x =< y => k * x =< k * y
  OBVIOUS
<1>2. k # 0 /\ x < y => k * x < k * y
  <2> SUFFICES ASSUME k # 0, x < y PROVE k * x < k * y
    OBVIOUS
  <2>1. x + 1 =< y /\ x + 1 \in Int
    OBVIOUS
  <2>2. k * (x + 1) =< k * y /\ k * (x + 1) = k * x + k
    BY <2>1
  <2> QED
    BY <2>2
<1>3. y =< x => k * y =< k * x
  OBVIOUS
<1> QED
  BY <1>1, <1>2, <1>3

\* Of a price in winc (credits), the price with its fee (full) and what that is in cents
\* (due), with a surcharge (short) below Stripe's minimum: a top up with both, less
\* the fee, is the price and the excess but for rounding.
RunsBack(credits, full, due, short, m, A, K, cent, topUp, excess) ==
  /\ credits \in Nat /\ full \in Nat /\ due \in Nat /\ short \in Nat
  /\ m \in 1 .. 100 /\ A \in Nat \ {0} /\ K \in Nat \ {0}
  /\ cent \in Nat /\ A =< K * cent
  /\ m * full =< 100 * credits /\ 100 * credits < m * full + m
  /\ due = Half(full * K, A)
  /\ topUp = Half(Half((due + short) * m, 100) * A, K)
  /\ excess = Half(Half(short * m, 100) * A, K)

LEMMA TwoCents ==
  ASSUME NEW credits, NEW full, NEW due, NEW short, NEW m, NEW A, NEW K, NEW cent,
         NEW topUp, NEW excess, RunsBack(credits, full, due, short, m, A, K, cent, topUp, excess)
  PROVE  -2 * cent - 2 =< topUp - (credits + excess) /\ topUp - (credits + excess) =< 2 * cent + 2
<1> DEFINE paid == Half((due + short) * m, 100)
           extra == Half(short * m, 100)
<1> USE DEF RunsBack
<1>1. /\ paid \in Int /\ extra \in Int
      /\ 2 * (100 * paid) =< 2 * ((due + short) * m) + 100
      /\ 2 * ((due + short) * m) + 100 < 2 * (100 * paid) + 2 * 100
      /\ 2 * (100 * extra) =< 2 * (short * m) + 100
      /\ 2 * (short * m) + 100 < 2 * (100 * extra) + 2 * 100
  <2> DEFINE x == (due + short) * m  y == short * m
  <2>1. x \in Int /\ y \in Int /\ 100 \in Nat \ {0}
    OBVIOUS
  <2>2. paid = Half(x, 100) /\ extra = Half(y, 100)
    OBVIOUS
  <2> HIDE DEF x, y
  <2>3. paid \in Int /\ extra \in Int
    BY <2>1, <2>2, HalfBounds
  <2>4. 2 * (100 * paid) =< 2 * x + 100 /\ 2 * x + 100 < 2 * (100 * paid) + 2 * 100
    BY <2>1, <2>2, HalfBounds
  <2>5. 2 * (100 * extra) =< 2 * y + 100 /\ 2 * y + 100 < 2 * (100 * extra) + 2 * 100
    BY <2>1, <2>2, HalfBounds
  <2> QED
    BY <2>3, <2>4, <2>5 DEF x, y
<1>2. /\ topUp \in Int /\ excess \in Int
      /\ 2 * (K * topUp) =< 2 * (paid * A) + K /\ 2 * (paid * A) + K < 2 * (K * topUp) + 2 * K
      /\ 2 * (K * excess) =< 2 * (extra * A) + K /\ 2 * (extra * A) + K < 2 * (K * excess) + 2 * K
  <2> DEFINE x == paid * A  y == extra * A
  <2>1. x \in Int /\ y \in Int
    BY <1>1
  <2>2. topUp = Half(x, K) /\ excess = Half(y, K)
    OBVIOUS
  <2> HIDE DEF x, y
  <2>3. topUp \in Int /\ 2 * (K * topUp) =< 2 * x + K /\ 2 * x + K < 2 * (K * topUp) + 2 * K
    BY <2>1, <2>2, HalfBounds
  <2>4. excess \in Int /\ 2 * (K * excess) =< 2 * y + K /\ 2 * y + K < 2 * (K * excess) + 2 * K
    BY <2>1, <2>2, HalfBounds
  <2> QED
    BY <2>3, <2>4 DEF x, y
<1>3. 2 * (A * due) =< 2 * (full * K) + A /\ 2 * (full * K) + A < 2 * (A * due) + 2 * A
  BY HalfBounds
<1> DEFINE part == due * m
           more == paid - extra
           gain == topUp - excess
           off == gain - credits
<1>4. part \in Int /\ more \in Int /\ gain \in Int /\ off \in Int /\ m \in Nat \ {0}
  BY <1>1, <1>2
<1>5. 100 * more < part + 100 /\ part - 100 < 100 * more
  <2>1. (due + short) * m = due * m + short * m
    OBVIOUS
  <2> QED
    BY <1>1, <2>1
<1>6. K * gain < more * A + K /\ more * A - K < K * gain
  <2>1. K * gain = K * topUp - K * excess /\ more * A = paid * A - extra * A
    BY <1>1, <1>2
  <2> QED
    BY <1>1, <1>2, <2>1
<1>7. 100 * (more * A) < part * A + 100 * A /\ part * A - 100 * A < 100 * (more * A)
  <2>1. A * (100 * more) < A * (part + 100) /\ A * (part - 100) < A * (100 * more)
    BY <1>4, <1>5, Scaled
  <2>2. /\ A * (100 * more) = 100 * (more * A) /\ A * (part + 100) = part * A + 100 * A
        /\ A * (part - 100) = part * A - 100 * A
    BY <1>4
  <2> QED
    BY <2>1, <2>2
<1>8. /\ 2 * (part * A) =< 2 * (m * full * K) + m * A
      /\ 2 * (m * full * K) - m * A =< 2 * (part * A)
  <2>1. m * (2 * (A * due)) =< m * (2 * (full * K) + A)
        /\ m * (2 * (full * K) - A) =< m * (2 * (A * due))
    <3>1. 2 * (A * due) \in Int /\ 2 * (full * K) + A \in Int /\ 2 * (full * K) - A \in Int
          /\ 2 * (full * K) - A =< 2 * (A * due)
      BY <1>3
    <3> QED
      BY <1>3, <1>4, <3>1, Scaled
  <2>2. m * (2 * (A * due)) = 2 * (part * A)
    OBVIOUS
  <2>3. m * (2 * (full * K) + A) = 2 * (m * full * K) + m * A
        /\ m * (2 * (full * K) - A) = 2 * (m * full * K) - m * A
    OBVIOUS
  <2> QED
    BY <2>1, <2>2, <2>3
<1>9. m * full * K =< 100 * (credits * K) /\ 100 * (credits * K) - 100 * K =< m * full * K
  <2>1. K * (m * full) =< K * (100 * credits) /\ K * (100 * credits) =< K * (m * full + 100)
    BY Scaled
  <2>2. /\ K * (m * full) = m * full * K /\ K * (100 * credits) = 100 * (credits * K)
        /\ K * (m * full + 100) = m * full * K + 100 * K
    OBVIOUS
  <2> QED
    BY <2>1, <2>2
<1>10. m * A =< 100 * A
  BY Scaled
<1>11. K * off = K * gain - credits * K
  BY <1>4
<1> DEFINE kg == K * gain  mA == m * A  pA == part * A  rA == more * A
           mfK == m * full * K  cK == credits * K  ko == K * off
<1>12. /\ kg \in Int /\ mA \in Int /\ pA \in Int /\ rA \in Int
       /\ mfK \in Int /\ cK \in Int /\ ko \in Int
  BY <1>4
<1>13. 200 * ko < 300 * A + 200 * K /\ -(300 * A) - 400 * K < 200 * ko
  <2> HIDE DEF kg, mA, pA, rA, mfK, cK, ko, part, more, gain, off
  <2>1. kg < rA + K /\ rA - K < kg
    BY <1>6 DEF kg, rA
  <2>2. 100 * rA < pA + 100 * A /\ pA - 100 * A < 100 * rA
    BY <1>7 DEF rA, pA
  <2>3. 2 * pA =< 2 * mfK + mA /\ 2 * mfK - mA =< 2 * pA
    BY <1>8 DEF pA, mfK, mA
  <2>4. mfK =< 100 * cK /\ 100 * cK - 100 * K =< mfK
    BY <1>9 DEF mfK, cK
  <2>5. mA =< 100 * A /\ ko = kg - cK
    BY <1>10, <1>11 DEF mA, ko, kg, cK
  <2> QED
    BY <1>12, <2>1, <2>2, <2>3, <2>4, <2>5
<1> HIDE DEF kg, mA, pA, rA, mfK, cK, part, more, gain
<1> DEFINE kc == K * cent
<1>14. kc \in Int /\ A =< kc /\ K * (200 * off) = 200 * ko
  BY <1>4
<1>15. K * (300 * cent + 200) = 300 * kc + 200 * K /\ K * (-(300 * cent) - 400) = -(300 * kc) - 400 * K
  OBVIOUS
<1>16. 200 * ko < 300 * kc + 200 * K /\ -(300 * kc) - 400 * K < 200 * ko
  <2> HIDE DEF ko, kc, off
  <2> QED
    BY <1>12, <1>13, <1>14
<1>17. 200 * off < 300 * cent + 200 /\ -(300 * cent) - 400 < 200 * off
  <2> HIDE DEF off, ko, kc
  <2>1. 200 * off \in Int /\ 300 * cent + 200 \in Int /\ -(300 * cent) - 400 \in Int
    BY <1>4
  <2>2. K * (200 * off) < K * (300 * cent + 200) /\ K * (-(300 * cent) - 400) < K * (200 * off)
    BY <1>14, <1>15, <1>16
  <2> QED
    BY <2>1, <2>2, Scaled
<1>18. -2 * cent - 2 =< off /\ off =< 2 * cent + 2
  <2> HIDE DEF off
  <2> QED
    BY <1>4, <1>17
<1> QED
  BY <1>1, <1>2, <1>18 DEF gain

\* The fees in force, and the percentage a payment is worth by them.
FeesNow == {i \in DOMAIN PaymentCatalogs :
              PaymentCatalogs[i].exclusivity = "inclusive" /\ InForce(PaymentCatalogs[i])}
Percent(m) == IF FeesNow = {} THEN m = 100 ELSE m \in {PaymentCatalogs[i].magnitude : i \in FeesNow}

LEMMA OneFee ==
  ASSUME now \in Int, NEW m, Percent(m)
  PROVE  /\ m \in 1 .. 100
         /\ \/ FeesNow = {} /\ m = 100
            \/ \E k \in DOMAIN PaymentCatalogs :
                 /\ FeesNow = {k} /\ m = PaymentCatalogs[k].magnitude
                 /\ PaymentCatalogs[k].operator = "multiply" /\ PaymentCatalogs[k].maximum = 0
<1>1. \A i \in DOMAIN PaymentCatalogs : PaymentCatalogs[i].start \in Nat /\ PaymentCatalogs[i].end \in Nat
  <2>1. PaymentCatalogs \in Seq(PaymentRows)
    BY PricingAssumption
  <2>2. \A i \in DOMAIN PaymentCatalogs : PaymentCatalogs[i] \in PaymentRows
    BY <2>1
  <2> QED
    BY <2>2 DEF PaymentRows
<1>2. \A i, j \in FeesNow : i = j
  BY <1>1, FeeAssumption DEF FeesNow, InForce
<1>3. CASE FeesNow = {}
  BY <1>3 DEF Percent
<1>4. CASE FeesNow # {}
  <2>1. PICK k \in FeesNow : m = PaymentCatalogs[k].magnitude
    BY <1>4 DEF Percent
  <2>2. FeesNow = {k} /\ k \in DOMAIN PaymentCatalogs /\ PaymentCatalogs[k].exclusivity = "inclusive"
    BY <1>2 DEF FeesNow
  <2>3. /\ PaymentCatalogs[k].maximum = 0 /\ PaymentCatalogs[k].operator = "multiply"
        /\ PaymentCatalogs[k].magnitude \in 1 .. 100
    BY <2>2, FeeAssumption
  <2> QED
    BY <2>1, <2>2, <2>3
<1> QED
  BY <1>3, <1>4

LEMMA PercentExists == \E m : Percent(m)
<1>1. CASE FeesNow = {}
  BY <1>1 DEF Percent
<1>2. CASE FeesNow # {}
  <2>1. PICK k \in FeesNow : TRUE
    BY <1>2
  <2>2. Percent(PaymentCatalogs[k].magnitude)
    BY <1>2, <2>1 DEF Percent
  <2> QED
    BY <2>2
<1> QED
  BY <1>1, <1>2

LEMMA Whole == \A amount \in Nat : Half(amount * 100, 100) = amount
<1> SUFFICES ASSUME NEW amount \in Nat PROVE Half(amount * 100, 100) = amount
  OBVIOUS
<1> DEFINE h == Half(amount * 100, 100)
<1>1. /\ h \in Int /\ 2 * (100 * h) =< 2 * (amount * 100) + 100
      /\ 2 * (amount * 100) + 100 < 2 * (100 * h) + 2 * 100
  BY HalfBounds
<1> HIDE DEF h
<1>2. h = amount
  BY <1>1
<1> QED
  BY <1>2 DEF h

LEMMA NoCodes == Catalogs({}) = PaymentCatalogs
<1>1. {c \in PromoCatalogs : c.id \in {}} = {} /\ IsFiniteSet({})
  BY FS_EmptySet
<1>2. SetToSeq({}) \in Seq({})
  BY <1>1, Listed
<1>3. SetToSeq({}) = <<>>
  BY <1>2
<1>4. PaymentCatalogs \in Seq(PaymentRows)
  BY PricingAssumption
<1>5. PaymentCatalogs \o <<>> = PaymentCatalogs
  BY <1>4
<1> QED
  BY <1>1, <1>3, <1>5 DEF Catalogs

\* What a payment without codes is worth is its percentage.
LEMMA InclusiveIs ==
  ASSUME rates \in Rates, now \in Int, NEW m, Percent(m), NEW amount \in Nat,
         NEW currency \in Currencies
  PROVE  ApplyPaymentAdjustments("inclusive", {}, amount, currency).amount = Half(amount * m, 100)
<1> DEFINE list == PaymentCatalogs
           n == Len(list)
           base == [amount |-> amount, adjustments |-> <<>>]
           x == ApplyPaymentAdjustments("inclusive", {}, amount, currency)
<1>1. PICK acc : /\ acc[0] = base /\ acc[n] = x
                 /\ \A i \in 1 .. n : acc[i] = Apply(acc[i - 1], list[i], "inclusive", currency)
  BY ApplySteps, NoCodes
<1>2. list \in Seq(PaymentRows) /\ n \in Nat /\ DOMAIN list = 1 .. n
  BY PricingAssumption
<1>3. \A i \in 1 .. n : i \notin FeesNow => acc[i] = acc[i - 1]
  BY <1>1, <1>2, FeeAssumption DEF FeesNow, Apply
<1> HIDE DEF x, n
<1>4. CASE FeesNow = {} /\ m = 100
  <2>1. \A i \in (0 + 1) .. n : acc[i] = acc[i - 1]
    BY <1>3, <1>4
  <2>2. 0 \in 0 .. n
    BY <1>2
  <2>3. acc[n] = acc[0]
    BY <1>2, <2>1, <2>2, FoldRests
  <2> QED
    BY <1>1, <1>4, <2>3, Whole DEF x
<1>5. ASSUME NEW k \in DOMAIN list, FeesNow = {k}, m = list[k].magnitude, m \in 1 .. 100,
             list[k].operator = "multiply", list[k].maximum = 0
      PROVE  x.amount = Half(amount * m, 100)
  <2>1. k \in 1 .. n /\ k \in 0 .. n /\ k - 1 \in Nat /\ 0 \in 0 .. (k - 1)
    BY <1>2
  <2>2. acc[k - 1] = acc[0]
    <3>1. \A i \in (0 + 1) .. (k - 1) : acc[i] = acc[i - 1]
      BY <1>2, <1>3, <1>5, <2>1
    <3> QED
      BY <2>1, <3>1, FoldRests
  <2>3. acc[n] = acc[k]
    <3>1. \A i \in (k + 1) .. n : acc[i] = acc[i - 1]
      BY <1>2, <1>3, <1>5, <2>1
    <3> QED
      BY <1>2, <2>1, <3>1, FoldRests
  <2>4. acc[k] = AdjustPayment(base, list[k], currency)
    <3>1. k \in FeesNow
      BY <1>5
    <3>2. list[k].exclusivity = "inclusive" /\ InForce(list[k])
      BY <3>1 DEF FeesNow
    <3>3. acc[k] = Apply(acc[k - 1], list[k], "inclusive", currency)
      BY <1>1, <2>1
    <3> QED
      BY <1>1, <2>2, <3>2, <3>3 DEF Apply
  <2>5. AdjustPayment(base, list[k], currency).amount = Floored(Half(amount * m, 100))
    BY <1>5 DEF AdjustPayment, Multiplied
  <2>6. Half(amount * m, 100) \in Nat
    <3>1. m \in Nat /\ amount * m \in Nat
      BY <1>5, TimesTyped
    <3> QED
      BY <3>1, HalfTyped
  <2>7. x.amount = Floored(Half(amount * m, 100))
    BY <1>1, <2>3, <2>4, <2>5
  <2> HIDE DEF base
  <2> QED
    BY <2>6, <2>7 DEF Floored
<1> HIDE DEF list
<1>6. x.amount = Half(amount * m, 100)
  BY <1>4, <1>5, OneFee, Zenon DEF list, x
<1> QED
  BY <1>6 DEF x

\* The price of a name in credits is what its mARIO are worth ...
LEMMA NoFeeInCredits ==
  ASSUME rates \in Rates, NEW quantity \in Nat
  PROVE  GetWCForCryptoPayment(quantity, "ario", "none").actual = ToWinc(quantity, "ario")
<1> DEFINE n == Len(PaymentCatalogs)
           winc == ToWinc(quantity, "ario")
           x == GetWCForCryptoPayment(quantity, "ario", "none")
<1>1. "ario" \in Tokens /\ n \in Nat
  BY PricingAssumption
<1>2. PICK acc : /\ acc[0] = [amount |-> winc, adjustments |-> <<>>]
                 /\ \A i \in 1 .. n : acc[i] = Charged(acc[i - 1], PaymentCatalogs[i], "ario", "none")
                 /\ x = [kind |-> "crypto", quoted |-> winc, actual |-> acc[n].amount,
                         adjustments |-> acc[n].adjustments]
  BY <1>1, CryptoSteps
<1>3. \A i \in (0 + 1) .. n : acc[i] = acc[i - 1]
  BY <1>2 DEF Charged, FeeOn, FeeMode
<1> HIDE DEF x, winc, n
<1>4. acc[n] = acc[0]
  BY <1>1, <1>3, FoldRests
<1>5. x.actual = winc
  BY <1>2, <1>4
<1> QED
  BY <1>5 DEF x, winc

\* ... and with the fee, the greatest of which the percentage is no more than that.
LEMMA FeeIs ==
  ASSUME rates \in Rates, now \in Int, NEW m, Percent(m), NEW quantity \in Nat
  PROVE  LET full == GetWCForCryptoPayment(quantity, "ario", "invert").actual
             winc == ToWinc(quantity, "ario")
         IN  full \in Nat /\ m * full =< 100 * winc /\ 100 * winc < m * full + m
<1> DEFINE list == PaymentCatalogs
           n == Len(list)
           winc == ToWinc(quantity, "ario")
           base == [amount |-> winc, adjustments |-> <<>>]
           x == GetWCForCryptoPayment(quantity, "ario", "invert")
<1>1. "ario" \in Tokens /\ list \in Seq(PaymentRows) /\ n \in Nat /\ DOMAIN list = 1 .. n
  BY PricingAssumption
<1>2. winc \in Nat
  BY <1>1, ToWincTyped
<1>3. PICK acc : /\ acc[0] = base
                 /\ \A i \in 1 .. n : acc[i] = Charged(acc[i - 1], list[i], "ario", "invert")
                 /\ x = [kind |-> "crypto", quoted |-> winc, actual |-> acc[n].amount,
                         adjustments |-> acc[n].adjustments]
  BY <1>1, CryptoSteps
<1>4. FeeMode("ario", "invert") = "invert"
  BY DEF FeeMode
<1>5. \A i \in 1 .. n : i \notin FeesNow => acc[i] = acc[i - 1]
  BY <1>1, <1>3 DEF FeesNow, Charged, FeeOn
<1> HIDE DEF x, n, winc
<1>6. CASE FeesNow = {} /\ m = 100
  <2>1. \A i \in (0 + 1) .. n : acc[i] = acc[i - 1]
    BY <1>5, <1>6
  <2>2. acc[n] = acc[0]
    BY <1>1, <2>1, FoldRests
  <2>3. x.actual = winc
    BY <1>3, <2>2
  <2> QED
    BY <1>2, <1>6, <2>3 DEF x, winc
<1>7. ASSUME NEW k \in DOMAIN list, FeesNow = {k}, m = list[k].magnitude, m \in 1 .. 100,
             list[k].operator = "multiply"
      PROVE  x.actual \in Nat /\ m * x.actual =< 100 * winc /\ 100 * winc < m * x.actual + m
  <2>1. k \in 1 .. n /\ k \in 0 .. n /\ k - 1 \in Nat /\ 0 \in 0 .. (k - 1)
    BY <1>1
  <2>2. acc[k - 1] = acc[0]
    <3>1. \A i \in (0 + 1) .. (k - 1) : acc[i] = acc[i - 1]
      BY <1>1, <1>5, <1>7, <2>1
    <3> QED
      BY <2>1, <3>1, FoldRests
  <2>3. acc[n] = acc[k]
    <3>1. \A i \in (k + 1) .. n : acc[i] = acc[i - 1]
      BY <1>1, <1>5, <1>7, <2>1
    <3> QED
      BY <1>1, <2>1, <3>1, FoldRests
  <2>4. acc[k] = Fee(base, list[k], "invert")
    <3>1. k \in FeesNow
      BY <1>7
    <3>2. list[k].exclusivity = "inclusive" /\ InForce(list[k])
      BY <3>1 DEF FeesNow
    <3>3. acc[k] = Charged(acc[k - 1], list[k], "ario", "invert")
      BY <1>3, <2>1
    <3> QED
      BY <1>3, <1>4, <2>2, <3>2, <3>3 DEF Charged, FeeOn
  <2>5. Fee(base, list[k], "invert").amount = Floored(Down(winc * 100, m))
    BY <1>7 DEF Fee
  <2> DEFINE q == Down(winc * 100, m)
  <2>6. q \in Nat /\ m * q =< winc * 100 /\ winc * 100 < m * q + m
    <3>1. winc * 100 \in Nat /\ winc * 100 \in Int /\ m \in Nat \ {0}
      BY <1>2, <1>7
    <3> QED
      BY <3>1, DownTyped, DivBounds DEF Down
  <2>7. x.actual = Floored(q)
    BY <1>3, <2>3, <2>4, <2>5
  <2> HIDE DEF q, base
  <2>8. x.actual = q
    BY <2>6, <2>7 DEF Floored
  <2> QED
    BY <1>2, <2>6, <2>8
<1> HIDE DEF list
<1>8. x.actual \in Nat /\ m * x.actual =< 100 * winc /\ 100 * winc < m * x.actual + m
  BY <1>6, <1>7, OneFee DEF list, x, winc
<1> QED
  BY <1>8 DEF x, winc

\* How an answer about a name came about.
NameFrom ==
  answer.kind = "name" /\ answer.adjustments = <<>> =>
    LET worth == Cents(answer.currency) * rates.fiat[answer.currency]
    IN /\ answer.currency \in Currencies /\ answer.credits \in Nat
       /\ \E m \in Nat, full \in Nat, due \in Nat, short \in Nat :
            /\ Percent(m) /\ m * full =< 100 * answer.credits /\ 100 * answer.credits < m * full + m
            /\ due = Half(full * worth, WincPerAR) /\ answer.paid = due + short
            /\ answer.excess = Half(Half(short * m, 100) * WincPerAR, worth)

LEMMA NameCosts == TypeOK /\ NameFrom => NameCostsTheSame
<1> SUFFICES ASSUME TypeOK, NameFrom, answer.kind = "name", answer.adjustments = <<>>
             PROVE  NameCostsTheSame
  BY DEF NameCostsTheSame
<1> DEFINE currency == answer.currency
           worth == Cents(currency) * rates.fiat[currency]
           cent == Up(WincPerAR, worth)
           topUp == GetWCForPayment(answer.paid, currency, {}).winc
<1>1. currency \in Currencies /\ answer.credits \in Nat
  BY DEF NameFrom
<1>2. PICK m \in Nat, full \in Nat, due \in Nat, short \in Nat :
        /\ Percent(m) /\ m * full =< 100 * answer.credits /\ 100 * answer.credits < m * full + m
        /\ due = Half(full * worth, WincPerAR) /\ answer.paid = due + short
        /\ answer.excess = Half(Half(short * m, 100) * WincPerAR, worth)
  BY DEF NameFrom
<1>3. rates \in Rates /\ now \in Int /\ WincPerAR \in Nat \ {0}
  BY PricingAssumption DEF TypeOK
<1>4. worth \in Nat \ {0}
  BY <1>1, <1>3, RatesTyped DEF Cents
<1>5. m \in 1 .. 100
  BY <1>2, <1>3, OneFee
<1>6. due + short \in Nat
  OBVIOUS
<1>7. ApplyPaymentAdjustments("inclusive", {}, due + short, currency).amount
        = Half((due + short) * m, 100)
  BY <1>1, <1>2, <1>3, <1>6, InclusiveIs
<1>8. topUp = Half(Half((due + short) * m, 100) * WincPerAR, worth)
  BY <1>2, <1>7 DEF GetWCForPayment
<1> HIDE DEF worth
<1>9. cent \in Nat /\ WincPerAR =< worth * cent
  <2>1. WincPerAR + worth - 1 \in Int
    BY <1>3, <1>4
  <2> DEFINE q == (WincPerAR + worth - 1) \div worth
  <2>2. q \in Int /\ WincPerAR + worth - 1 < worth * q + worth
    BY <1>4, <2>1, DivBounds
  <2>3. cent = q
    BY DEF Up
  <2>4. cent \in Nat
    BY <1>3, <1>4, UpTyped
  <2> HIDE DEF q, cent
  <2>5. worth * q \in Int
    BY <1>4, <2>2
  <2> QED
    BY <1>3, <1>4, <2>2, <2>3, <2>4, <2>5
<1> DEFINE price == answer.credits
           excess == answer.excess
<1>11. RunsBack(price, full, due, short, m, WincPerAR, worth, cent, topUp, excess)
  <2> HIDE DEF cent, topUp, currency
  <2> QED
    BY <1>1, <1>2, <1>3, <1>4, <1>5, <1>8, <1>9 DEF RunsBack
<1>12. /\ -2 * cent - 2 =< topUp - (price + excess)
       /\ topUp - (price + excess) =< 2 * cent + 2
  <2> HIDE DEF cent, topUp, currency, price, excess
  <2> QED
    BY <1>11, TwoCents
<1> HIDE DEF cent, topUp, currency
<1>10. /\ -2 * cent - 2 =< topUp - (answer.credits + answer.excess)
       /\ topUp - (answer.credits + answer.excess) =< 2 * cent + 2
  BY <1>12
<1> QED
  BY <1>10 DEF NameCostsTheSame, cent, topUp, currency, worth

LEMMA NameAnswered ==
  ASSUME PricingInv, NEW quantity \in Quantities, NEW currency \in Currencies, NEW codes,
         PriceName(quantity, currency, codes)
  PROVE  NameFrom'
<1> DEFINE credits == GetWCForCryptoPayment(quantity, "ario", "none").actual
           full == GetWCForCryptoPayment(quantity, "ario", "invert").actual
           fiat == GetFiatPrice(full, currency, codes)
           short == Floored(StripeMinimum[currency] - fiat.paid.amount)
           worth == Cents(currency) * rates.fiat[currency]
           excess == GetWCForPayment(short, currency, {}).winc
<1>1. quantity \in Nat /\ rates \in Rates /\ now \in Int /\ WincPerAR \in Nat \ {0}
  BY PricingAssumption DEF PricingInv, TypeOK
<1>2. PICK m : Percent(m)
  BY PercentExists
<1>3. m \in Nat
  BY <1>1, <1>2, OneFee
<1>4. /\ answer' = [kind |-> "name", quoted |-> fiat.quoted, actual |-> fiat.paid.amount,
                    adjustments |-> fiat.paid.adjustments, paid |-> fiat.paid.amount + short,
                    excess |-> excess, credits |-> credits, currency |-> currency]
      /\ now' = now /\ rates' = rates
  BY DEF PriceName, prices
<1>5. credits \in Nat /\ full \in Nat /\ m * full =< 100 * credits /\ 100 * credits < m * full + m
  <2>1. credits = ToWinc(quantity, "ario") /\ "ario" \in Tokens
    BY <1>1, NoFeeInCredits, PricingAssumption
  <2>2. credits \in Nat
    BY <1>1, <2>1, ToWincTyped
  <2> HIDE DEF credits, full
  <2> QED
    BY <1>1, <1>2, <2>1, <2>2, FeeIs DEF full
<1> HIDE DEF credits, full
<1>6. /\ fiat.quoted \in Nat /\ fiat.paid.amount \in Nat
      /\ fiat.paid.amount = fiat.quoted + Total(fiat.paid.adjustments)
  BY <1>1, <1>5, FiatKeeps
<1>7. fiat.quoted = Half(full * worth, WincPerAR)
  <2>1. rates.fiat[currency] \in Nat /\ Cents(currency) \in Nat
    BY <1>1, RatesTyped DEF Cents
  <2>2. full * rates.fiat[currency] * Cents(currency) = full * worth
    BY <1>5, <2>1
  <2> QED
    BY <2>2 DEF GetFiatPrice
<1>8. short \in Nat
  <2>1. StripeMinimum[currency] \in Nat
    BY PricingAssumption
  <2> QED
    BY <1>6, <2>1, FlooredTyped
<1> HIDE DEF short, fiat
<1>9. excess = Half(Half(short * m, 100) * WincPerAR, worth)
  <2>1. ApplyPaymentAdjustments("inclusive", {}, short, currency).amount = Half(short * m, 100)
    BY <1>1, <1>2, <1>8, InclusiveIs
  <2> QED
    BY <2>1 DEF GetWCForPayment
<1>10. Percent(m)'
  BY <1>2, <1>4 DEF Percent, FeesNow, InForce
<1>11. worth = Cents(currency) * rates'.fiat[currency]
  BY <1>4
<1> HIDE DEF excess, worth
<1>12. ASSUME answer'.adjustments = <<>> PROVE NameFrom'
  <2>1. fiat.paid.amount = fiat.quoted
    BY <1>4, <1>6, <1>12, TotalEmpty
  <2>2. /\ answer'.currency = currency /\ answer'.credits = credits
        /\ answer'.paid = fiat.quoted + short /\ answer'.excess = excess
    BY <1>4, <2>1
  <2> DEFINE due == fiat.quoted
  <2>3. due \in Nat /\ due = Half(full * worth, WincPerAR)
    BY <1>6, <1>7
  <2>4. answer'.kind = "name" /\ answer'.currency \in Currencies
    BY <1>4
  <2>5. (Cents(answer.currency) * rates.fiat[answer.currency])' = worth
    BY <1>11, <2>2 DEF Cents
  <2> HIDE DEF due
  <2> QED
    BY <1>3, <1>5, <1>8, <1>9, <1>10, <2>2, <2>3, <2>4, <2>5 DEF NameFrom, due
<1> QED
  BY <1>12 DEF NameFrom

LEMMA NameStays == PricingInv /\ NameFrom /\ [Next]_vars => NameFrom'
<1> SUFFICES ASSUME PricingInv, NameFrom, [Next]_vars PROVE NameFrom'
  OBVIOUS
<1>1. ASSUME now' = now, rates' = rates, answer' = answer PROVE NameFrom'
  <2>1. \A m : Percent(m) => Percent(m)'
    BY <1>1 DEF Percent, FeesNow, InForce
  <2>2. CASE answer.kind = "name" /\ answer.adjustments = <<>>
    <3> DEFINE worth == Cents(answer.currency) * rates.fiat[answer.currency]
    <3>1. worth' = worth
      BY <1>1 DEF Cents
    <3>2. PICK m \in Nat, full \in Nat, due \in Nat, short \in Nat :
            /\ Percent(m) /\ m * full =< 100 * answer.credits /\ 100 * answer.credits < m * full + m
            /\ due = Half(full * worth, WincPerAR) /\ answer.paid = due + short
            /\ answer.excess = Half(Half(short * m, 100) * WincPerAR, worth)
      BY <2>2 DEF NameFrom
    <3>3. answer.currency \in Currencies /\ answer.credits \in Nat
      BY <2>2 DEF NameFrom
    <3>4. Percent(m)'
      BY <2>1, <3>2
    <3> HIDE DEF worth
    <3>5. /\ Percent(m)' /\ m * full =< 100 * answer'.credits /\ 100 * answer'.credits < m * full + m
          /\ due = Half(full * worth', WincPerAR) /\ answer'.paid = due + short
          /\ answer'.excess = Half(Half(short * m, 100) * WincPerAR, worth')
          /\ answer'.currency \in Currencies /\ answer'.credits \in Nat
      BY <1>1, <3>1, <3>2, <3>3, <3>4
    <3> QED
      BY <3>5 DEF NameFrom, worth
  <2> QED
    BY <1>1, <2>2 DEF NameFrom
<1>2. ASSUME answer'.kind # "name" PROVE NameFrom'
  BY <1>2 DEF NameFrom
<1>3. ASSUME NEW u \in Uploads, PriceUpload(u) \/ ReserveBalance(u) \/ RefuseBalance(u)
      PROVE  NameFrom'
  BY <1>1, <1>3 DEF PriceUpload, ReserveBalance, RefuseBalance, prices
<1>4. ASSUME NEW amount \in Amounts, NEW currency \in Currencies, NEW codes \in SUBSET PromoIds,
             PricePayment(amount, currency, codes)
      PROVE  NameFrom'
  BY <1>2, <1>4 DEF PricePayment, GetWCForPayment
<1>5. ASSUME NEW quantity \in Quantities, NEW token \in Tokens, PriceCrypto(quantity, token)
      PROVE  NameFrom'
  BY <1>2, <1>5 DEF PriceCrypto, GetWCForCryptoPayment
<1>6. ASSUME NEW quantity \in Quantities, NEW currency \in Currencies,
             NEW codes \in SUBSET PromoIds, PriceName(quantity, currency, codes)
      PROVE  NameFrom'
  BY <1>6, NameAnswered
<1>7. CASE PricesMove \/ Tick
  BY <1>2, <1>7 DEF PricesMove, Tick, NoAnswer
<1>8. CASE Replicate
  BY <1>1, <1>8 DEF Replicate, prices
<1>9. CASE UNCHANGED vars
  BY <1>1, <1>9 DEF vars, prices
<1> QED
  BY <1>3, <1>4, <1>5, <1>6, <1>7, <1>8, <1>9 DEF Next

(* A name costs the same in credits and by card, to two cents, for every   *)
(* price of it, every percentage of the fee, rate, currency and minimum.   *)
THEOREM NamesCostTheSame == Spec => []NameCostsTheSame
<1>1. Init => NameFrom
  BY DEF Init, NameFrom, NoAnswer
<1>2. PricingInv /\ NameFrom => NameCostsTheSame
  BY NameCosts DEF PricingInv
<1> QED
  BY <1>1, <1>2, InvHolds, NameStays, PTL DEF Spec
=============================================================================
