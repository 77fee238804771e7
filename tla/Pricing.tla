-------------------------------- MODULE Pricing --------------------------------
(***************************************************************************)
(* TurboPricingService, and what its callers do with its answers. An       *)
(* upload is priced from the network's price and the subsidies in force,   *)
(* some of them limited per address and interval; it is reserved later, in *)
(* a transaction of its own, which records the subsidies it took. Payments *)
(* in fiat and in tokens are turned into credits, and names into prices.   *)
(*                                                                         *)
(* Amounts are integers, magnitudes that multiply are percentages, and an  *)
(* answer is one step: the prices it uses are one cached answer of the     *)
(* oracle. Codes named are eligible (PromoCodes) and balances suffice or   *)
(* not (DelegatedApprovals).                                               *)
(***************************************************************************)
EXTENDS Integers, FiniteSetsExt, SequencesExt

CONSTANTS
  Users,            \* addresses
  Uploads,          \* reservations of credits for uploads
  Bytes,            \* byteCount of each upload
  Signer,           \* signerAddress of each upload
  PaidBy,           \* paidBy of each upload, a sequence
  UploadCatalogs,   \* rows of upload_adjustment_catalog, by priority
  PaymentCatalogs,  \* rows of payment_adjustment_catalog, by priority
  PromoCatalogs,    \* rows of the single use catalog
  NetworkPrices,    \* winc for 10 GiB, as arweave.net may answer
  TenGiB,           \* the bytes in 10 GiB
  Rates,            \* answers of CoinGecko: fiat prices of one AR and of tokens
  Currencies,       \* fiat currency types
  StripeMinimum,    \* stripeMinimumPaymentAmount of each currency
  ZeroDecimal,      \* those without cents
  Tokens,           \* token types
  TokenUnits,       \* base units in one token
  TokensWithoutFees,\* TOKENS_WITHOUT_FEES
  WincPerAR,        \* winc in one AR
  Amounts,          \* amounts of fiat payments
  Quantities,       \* amounts of token payments and prices of names
  Loads,            \* bounds: the uploads of a behaviour, and payments if none
  Horizon           \* bound: the clock

Never == Horizon + 1
UploadRows ==
  [id : STRING, operator : {"add", "multiply"}, magnitude : Int, limit : Nat,
   interval : Nat, threshold : Nat, start : Nat, end : Nat]
PaymentRows ==
  [id : STRING, operator : {"add", "multiply"}, magnitude : Int, maximum : Nat,
   exclusivity : {"exclusive", "inclusive", "inclusive_kyve"}, minimum : Nat,
   start : Nat, end : Nat]

ASSUME PricingAssumption ==
  /\ Bytes \in [Uploads -> Nat] /\ Signer \in [Uploads -> Users]
  /\ PaidBy \in [Uploads -> Seq(Users)]
  /\ NetworkPrices \subseteq Nat /\ TenGiB \in Nat \ {0} /\ WincPerAR \in Nat \ {0}
  /\ ZeroDecimal \subseteq Currencies /\ "usd" \in Currencies
  /\ StripeMinimum \in [Currencies -> Nat]
  /\ Rates \subseteq [fiat : [Currencies -> Nat \ {0}], token : [Tokens -> Nat \ {0}]]
  /\ {"arweave", "ario"} \subseteq Tokens /\ TokenUnits \in [Tokens -> Nat \ {0}]
  /\ TokensWithoutFees \subseteq Tokens
  /\ Amounts \subseteq Nat /\ Quantities \subseteq Nat
  /\ UploadCatalogs \in Seq(UploadRows) /\ PaymentCatalogs \in Seq(PaymentRows)
  /\ IsFiniteSet(PromoCatalogs) /\ PromoCatalogs \subseteq PaymentRows
  /\ \A i, j \in DOMAIN UploadCatalogs : UploadCatalogs[i].id = UploadCatalogs[j].id => i = j
  /\ \A c \in ToSet(UploadCatalogs) \cup ToSet(PaymentCatalogs) \cup PromoCatalogs :
       c.operator = "multiply" => c.magnitude >= 0
  /\ Loads \subseteq SUBSET Uploads /\ Horizon \in Nat

(* The fees on payments are a percentage, one at a time: their dates do not *)
(* overlap. Codes are rows of their own, and only they have a maximum.     *)
ASSUME FeeAssumption ==
  /\ \A i \in DOMAIN PaymentCatalogs :
       LET c == PaymentCatalogs[i]
       IN /\ c \notin PromoCatalogs /\ c.maximum = 0
          /\ c.exclusivity = "inclusive" => c.operator = "multiply" /\ c.magnitude \in 1 .. 100
  /\ \A i, j \in DOMAIN PaymentCatalogs :
       LET c == PaymentCatalogs[i]
           d == PaymentCatalogs[j]
       IN c.exclusivity = "inclusive" /\ d.exclusivity = "inclusive" =>
            i = j \/ c.end =< d.start \/ d.end =< c.start

VARIABLES
  now,         \* the wall clock
  network,     \* winc for 10 GiB
  rates,       \* the cached answer of CoinGecko
  load,        \* the uploads of this behaviour
  taken,       \* rows of upload_adjustment
  shown,       \* the same, as the reader database shows them
  upload,      \* each upload: where it is, and its price
  seen,        \* the uploads with rows shown when it was priced
  answer       \* the last answer about a payment

prices == <<network, rates>>
uploading == <<load, taken, shown, upload, seen>>
vars == <<now, prices, uploading, answer>>

NoPrice == [network |-> 0, price |-> 0, adjustments |-> <<>>, done |-> FALSE]
NoAnswer == [kind |-> "none"]

Init ==
  /\ now = 0
  /\ network \in NetworkPrices /\ rates \in Rates
  /\ load \in Loads
  /\ taken = {} /\ shown = {}
  /\ upload = [u \in Uploads |-> [at |-> "idle", quote |-> NoPrice]]
  /\ seen = [u \in Uploads |-> {}]
  /\ answer = NoAnswer

-----------------------------------------------------------------------------
(* Rounding of n / d: Winston.times of what is not negative, and           *)
(* Math.round, which takes a half up.                                      *)
Down(n, d) == n \div d
Up(n, d) == (n + d - 1) \div d
Half(n, d) == (2 * n + d) \div (2 * d)

(* A mutant of Floored: a price may become negative. *)
FlooredNot(x) == x

Floored(x) == IF x < 0 THEN 0 ELSE x

InForce(c) == c.start =< now /\ now < c.end

Total(adjustments) == FoldLeft(LAMBDA sum, a : sum + a.amount, 0, adjustments)

Winc(rows) == SumFunction([r \in rows |-> r.amount])

-----------------------------------------------------------------------------
(* getWCForBytes. A subsidy with a limit needs a user; it is skipped for   *)
(* one who took, since the interval began and with what this upload would  *)
(* take, more than the limit.                                              *)

WincUsed(user, c) ==
  Winc({r \in shown : r.user = user /\ r.catalog = c.id /\ r.date > now - c.interval})

(* A mutant of OverLimit: what the upload itself would take is not counted. *)
OverLimitBefore(c, user, amount) ==
  c.limit > 0 /\ (user = {} \/ \E u \in user : -WincUsed(u, c) > c.limit)

OverLimit(c, user, amount) ==
  c.limit > 0 /\ (user = {} \/ \E u \in user : -(WincUsed(u, c) + amount) > c.limit)

Adjust(quote, c, bytes, user) ==
  LET before == quote.price
      after == Floored(IF c.operator = "add" THEN before + c.magnitude
                       ELSE Down(before * c.magnitude, 100))
  IN IF \/ quote.done \/ ~InForce(c)
        \/ c.threshold > 0 /\ bytes > c.threshold
        \/ OverLimit(c, user, after - before)
     THEN quote
     ELSE [quote EXCEPT
            !.price = after,
            !.adjustments = Append(@, [catalog |-> c.id, amount |-> after - before]),
            !.done = after = 0]

GetWCForBytes(bytes, user) ==
  LET base == Up(network * bytes, TenGiB)
  IN FoldLeft(LAMBDA quote, c : Adjust(quote, c, bytes, user),
              [NoPrice EXCEPT !.network = base, !.price = base], UploadCatalogs)

(* The reserve balance route prices the upload for its first payer, if it  *)
(* names one, and records what it took under its signer.                   *)
Payer(u) == IF PaidBy[u] = <<>> THEN Signer[u] ELSE Head(PaidBy[u])

PriceUpload(u) ==
  /\ u \in load /\ upload[u].at = "idle"
  /\ upload' = [upload EXCEPT ![u] =
       [at |-> "priced", quote |-> GetWCForBytes(Bytes[u], {Payer(u)})]]
  /\ seen' = [seen EXCEPT ![u] = {r.upload : r \in shown}]
  /\ UNCHANGED <<now, prices, load, taken, shown, answer>>

ReserveBalance(u) ==
  /\ upload[u].at = "priced"
  /\ upload' = [upload EXCEPT ![u].at = "reserved"]
  /\ taken' = taken \cup
       {[upload |-> u, user |-> Signer[u], date |-> now,
         catalog |-> a.catalog, amount |-> a.amount] :
          a \in ToSet(upload[u].quote.adjustments)}
  /\ UNCHANGED <<now, prices, load, shown, seen, answer>>

RefuseBalance(u) ==
  /\ upload[u].at = "priced"
  /\ upload' = [upload EXCEPT ![u].at = "refused"]
  /\ UNCHANGED <<now, prices, load, taken, shown, seen, answer>>

-----------------------------------------------------------------------------
(* Payments.                                                               *)

ConvertFromUSD(amount, currency) ==
  IF currency = "usd" THEN amount
  ELSE Half(amount * rates.fiat[currency],
            rates.fiat["usd"] * IF currency \in ZeroDecimal THEN 100 ELSE 1)

(* A code's maximum discount bounds what its percentage takes off. *)
Multiplied(amount, c, currency) ==
  LET after == Half(amount * c.magnitude, 100)
  IN IF c.maximum # 0 /\ ConvertFromUSD(amount - after, currency) > c.maximum
     THEN amount - ConvertFromUSD(c.maximum, currency)
     ELSE after

(* A mutant of AdjustPayment: all a catalog offers is noted, though the     *)
(* payment cannot become negative.                                         *)
AdjustPaymentWhole(payment, c, currency) ==
  LET before == payment.amount
      after == IF c.operator = "add" THEN before + ConvertFromUSD(c.magnitude, currency)
               ELSE Multiplied(before, c, currency)
  IN [amount |-> Floored(after),
      adjustments |-> Append(payment.adjustments, [catalog |-> c.id, amount |-> after - before])]

AdjustPayment(payment, c, currency) ==
  LET before == payment.amount
      after == Floored(
        IF c.operator = "add"
        THEN before + ConvertFromUSD(c.magnitude, currency)
        ELSE Multiplied(before, c, currency))
  IN [amount |-> after,
      adjustments |-> Append(payment.adjustments, [catalog |-> c.id, amount |-> after - before])]

(* The catalogs in force of one kind, then the codes. *)
Catalogs(codes) == PaymentCatalogs \o SetToSeq({c \in PromoCatalogs : c.id \in codes})

ApplyPaymentAdjustments(exclusivity, codes, amount, currency) ==
  FoldLeft(LAMBDA payment, c :
             IF c.exclusivity = exclusivity /\ (InForce(c) \/ c \in PromoCatalogs)
             THEN AdjustPayment(payment, c, currency) ELSE payment,
           [amount |-> amount, adjustments |-> <<>>], Catalogs(codes))

Enough(amount, currency, codes) ==
  \A c \in PromoCatalogs :
    c.id \in codes => ConvertFromUSD(amount, currency) >= c.minimum

Cents(currency) == IF currency \in ZeroDecimal THEN 1 ELSE 100

(* What is paid is adjusted exclusively; what is credited, inclusively. *)
GetWCForPayment(amount, currency, codes) ==
  LET exclusive == ApplyPaymentAdjustments("exclusive", codes, amount, currency)
      inclusive == ApplyPaymentAdjustments("inclusive", codes, amount, currency)
  IN [kind |-> "payment", quoted |-> amount, actual |-> exclusive.amount,
      adjustments |-> exclusive.adjustments, inclusive |-> inclusive.adjustments,
      winc |-> Half(inclusive.amount * WincPerAR, Cents(currency) * rates.fiat[currency])]

Asked == answer = NoAnswer /\ load = {}

PricePayment(amount, currency, codes) ==
  /\ Asked /\ Enough(amount, currency, codes)
  /\ answer' = GetWCForPayment(amount, currency, codes)
  /\ UNCHANGED <<now, prices, uploading>>

(* A token payment is worth its part of an AR in credits, less the fee; a  *)
(* price in tokens, inverted, is what leaves it when the fee is taken. The *)
(* actual amount of such an answer is the code's finalPrice.               *)
ToWinc(quantity, token) ==
  IF token = "arweave" THEN quantity
  ELSE Down(quantity * rates.token[token] * WincPerAR,
            TokenUnits[token] * rates.token["arweave"])

(* A mutant of FeeMode: tokens without fees override every mode. *)
FeeModeOverridden(token, mode) ==
  IF token \in TokensWithoutFees THEN "none" ELSE mode

FeeMode(token, mode) ==
  IF token \in TokensWithoutFees /\ mode # "invert" THEN "none" ELSE mode

FeeOn(c, token, mode) ==
  /\ FeeMode(token, mode) # "none" /\ InForce(c)
  /\ c.exclusivity = IF token = "kyve" THEN "inclusive_kyve" ELSE "inclusive"

USDToWinc(amount) == Half(amount * WincPerAR, 100 * rates.fiat["usd"])

Fee(payment, c, mode) ==
  LET before == payment.amount
      after == Floored(
        IF c.operator = "add"
        THEN before + USDToWinc(IF mode = "invert" THEN -c.magnitude ELSE c.magnitude)
        ELSE IF mode = "invert" /\ c.magnitude # 0 THEN Down(before * 100, c.magnitude)
        ELSE Down(before * c.magnitude, 100))
  IN [amount |-> after,
      adjustments |-> Append(payment.adjustments, [catalog |-> c.id, amount |-> after - before])]

GetWCForCryptoPayment(quantity, token, mode) ==
  LET winc == ToWinc(quantity, token)
      payment == FoldLeft(LAMBDA p, c : IF FeeOn(c, token, mode)
                                        THEN Fee(p, c, FeeMode(token, mode)) ELSE p,
                          [amount |-> winc, adjustments |-> <<>>], PaymentCatalogs)
  IN [kind |-> "crypto", quoted |-> winc, actual |-> payment.amount,
      adjustments |-> payment.adjustments]

PriceCrypto(quantity, token) ==
  /\ Asked /\ (token # "arweave" => ToWinc(quantity, token) >= 1)
  /\ answer' = GetWCForCryptoPayment(quantity, token, "default")
  /\ UNCHANGED <<now, prices, uploading>>

(* A name costs mARIO: its price in credits, without a fee, and in fiat,   *)
(* with the fee and the exclusive adjustments if codes are named. Stripe   *)
(* takes no less than its minimum; the excess is credited.                 *)
GetFiatPrice(winc, currency, codes) ==
  LET amount == Half(winc * rates.fiat[currency] * Cents(currency), WincPerAR)
  IN [quoted |-> amount,
      paid |-> IF codes = {} THEN [amount |-> amount, adjustments |-> <<>>]
               ELSE ApplyPaymentAdjustments("exclusive", codes, amount, currency)]

PriceName(quantity, currency, codes) ==
  LET credits == GetWCForCryptoPayment(quantity, "ario", "none").actual
      withFee == GetWCForCryptoPayment(quantity, "ario", "invert").actual
      fiat == GetFiatPrice(withFee, currency, codes)
      short == Floored(StripeMinimum[currency] - fiat.paid.amount)
  IN /\ Asked /\ ToWinc(quantity, "ario") >= 1
     /\ Enough(fiat.quoted, currency, codes)
     /\ answer' = [kind |-> "name", quoted |-> fiat.quoted, actual |-> fiat.paid.amount,
                   adjustments |-> fiat.paid.adjustments, paid |-> fiat.paid.amount + short,
                   excess |-> GetWCForPayment(short, currency, {}).winc,
                   credits |-> credits, currency |-> currency]
     /\ UNCHANGED <<now, prices, uploading>>

-----------------------------------------------------------------------------
(* The prices outside, the reader and the clock. *)

PricesMove ==
  /\ \/ load # {} /\ network' \in NetworkPrices /\ rates' = rates
     \/ load = {} /\ rates' \in Rates /\ network' = network
  /\ UNCHANGED <<now, uploading>> /\ answer' = NoAnswer

Replicate ==
  /\ shown # taken /\ shown' = taken
  /\ UNCHANGED <<now, prices, load, taken, upload, seen, answer>>

Tick ==
  /\ now < Horizon /\ now' = now + 1
  /\ UNCHANGED <<prices, uploading>> /\ answer' = NoAnswer

PromoIds == {c.id : c \in PromoCatalogs}

Next ==
  \/ \E u \in Uploads : PriceUpload(u) \/ ReserveBalance(u) \/ RefuseBalance(u)
  \/ \E amount \in Amounts, currency \in Currencies, codes \in SUBSET PromoIds :
       PricePayment(amount, currency, codes)
  \/ \E quantity \in Quantities, token \in Tokens : PriceCrypto(quantity, token)
  \/ \E quantity \in Quantities, currency \in Currencies, codes \in SUBSET PromoIds :
       PriceName(quantity, currency, codes)
  \/ PricesMove \/ Replicate \/ Tick

Spec == Init /\ [][Next]_vars

-----------------------------------------------------------------------------
Adjustment == [catalog : STRING, amount : Int]
Quote == [network : Nat, price : Nat, adjustments : Seq(Adjustment), done : BOOLEAN]

TypeOK ==
  /\ now \in 0..Horizon
  /\ network \in NetworkPrices /\ rates \in Rates
  /\ load \in Loads
  /\ \A r \in taken :
       /\ r.upload \in load /\ r.user = Signer[r.upload] /\ r.date \in 0..now
       /\ r.amount \in Int
  /\ shown \subseteq taken
  /\ upload \in [Uploads ->
       [at : {"idle", "priced", "reserved", "refused"}, quote : Quote]]
  /\ seen \in [Uploads -> SUBSET load]
  /\ answer # NoAnswer =>
       /\ answer.quoted \in Nat /\ answer.actual \in Nat
       /\ answer.adjustments \in Seq(Adjustment)

(* The adjustments given with a price explain it: what an upload costs is  *)
(* the network's price and its adjustments, what is paid is what was       *)
(* quoted and the adjustments, also where a price was kept from becoming   *)
(* negative, a subsidy was skipped or a discount capped.                   *)
PricesAddUp ==
  /\ \A u \in Uploads :
       LET quote == upload[u].quote
       IN quote.price = quote.network + Total(quote.adjustments)
  /\ answer # NoAnswer => answer.actual = answer.quoted + Total(answer.adjustments)

(* Within an interval, the subsidies an address took for uploads it was    *)
(* priced for stay within the winc_limitation, if each of the uploads was  *)
(* priced from a reader that showed the ones before: the limit is exceeded *)
(* only by uploads that overlap. An upload priced for a payer is left out, *)
(* for its subsidy is recorded under its signer.                           *)
Together(c, r) ==
  {s \in taken :
     /\ s.catalog = c.id /\ s.user = r.user /\ Payer(s.upload) = s.user
     /\ s.date =< r.date /\ s.date > r.date - c.interval}

LimitKept ==
  \A c \in ToSet(UploadCatalogs), r \in taken :
    LET rows == Together(c, r)
    IN /\ c.limit > 0
       /\ \A s, t \in rows :
            s.upload = t.upload \/ s.upload \in seen[t.upload] \/ t.upload \in seen[s.upload]
       => -Winc(rows) =< c.limit

(* A name costs the same in credits and in fiat: whoever topped up with    *)
(* the fiat price would get, after the fee, the price in credits and the   *)
(* excess, but for two cents of rounding.                                  *)
NameCostsTheSame ==
  answer.kind = "name" /\ answer.adjustments = <<>> =>
    LET topUp == GetWCForPayment(answer.paid, answer.currency, {}).winc
        cent == Up(WincPerAR, Cents(answer.currency) * rates.fiat[answer.currency])
        off == topUp - (answer.credits + answer.excess)
    IN -2 * cent - 2 =< off /\ off =< 2 * cent + 2
=============================================================================
