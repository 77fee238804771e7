------------------------------ MODULE PromoCodes ------------------------------
(***************************************************************************)
(* The life of a promo code. A top up is priced with the codes the client  *)
(* names, which are looked up and tested on the reader database; its quote *)
(* and one adjustment for each code are stored; and when Stripe reports    *)
(* the payment, createPaymentReceipt tests every code again before it      *)
(* turns the quote into a receipt.                                         *)
(*                                                                         *)
(* Nothing is locked: each statement is a step, any payments overlap, and  *)
(* the reader shows an earlier state. Amounts, gifts, credits and a second *)
(* delivery of a payment are in TopUpLedger and StripeWebhook.             *)
(***************************************************************************)
EXTENDS Integers, FiniteSets

CONSTANTS
  Users,       \* destination addresses
  Codes,       \* code_value
  Catalogs,    \* rows of single_use_code_payment_adjustment_catalog
  Code,        \* code_value of each catalog
  Group,       \* its target_user_group
  MaxUses,     \* its max_uses, 0 for no limit
  Start,       \* its adjustment_start_date
  End,         \* its adjustment_end_date, or Never
  Minimum,     \* its minimum_payment_amount
  Amounts,     \* payment amounts in USD
  Quotes,      \* top_up_quote_id
  Validity,    \* how long a quote is valid
  Horizon      \* bound: the clock

Never == Horizon + 1

ASSUME PromoAssumption ==
  /\ IsFiniteSet(Quotes)
  /\ Code \in [Catalogs -> Codes]
  /\ Group \in [Catalogs -> {"all", "new", "existing"}]
  /\ MaxUses \in [Catalogs -> Nat]
  /\ Horizon \in Nat /\ Validity \in Nat
  /\ Start \in [Catalogs -> Nat] /\ End \in [Catalogs -> 0..Never]
  /\ \A a, b \in Catalogs : a # b /\ Code[a] = Code[b] => Start[a] # Start[b]
  /\ Minimum \in [Catalogs -> Nat] /\ Amounts \subseteq Nat

VARIABLES
  now,         \* the wall clock
  table,       \* the table each quote is in
  user,        \* destination_address of each quote
  made,        \* when each quote was priced
  adjusted,    \* payment_adjustment: the catalogs of each quote
  shown,       \* table and adjusted, as the reader database shows them
  work,        \* where each quote is, and the catalogs it still has to do
  before,      \* the receipts its user had when its payment was reported
  refused      \* why its payment was refunded

quoting == <<now, user, made>>
rows == <<table, adjusted>>
vars == <<quoting, rows, shown, work, before, refused>>

Tables == {"none", "quote", "receipt", "chargeback"}
Stages == {"idle", "priced", "checking", "done"}
Reasons == {"none", "quote", "expired", "uses", "user"}
Rows == [table |-> table, adjusted |-> adjusted]
At(stage, left) == [at |-> stage, left |-> left, counted |-> {}]

Init ==
  /\ now = 0
  /\ table = [q \in Quotes |-> "none"]
  /\ user \in [Quotes -> Users]
  /\ made = [q \in Quotes |-> 0]
  /\ adjusted = [q \in Quotes |-> {}]
  /\ shown = Rows
  /\ work = [q \in Quotes |-> At("idle", {})]
  /\ before = [q \in Quotes |-> {}]
  /\ refused = [q \in Quotes |-> "none"]

-----------------------------------------------------------------------------
(* assertCodeEligibility, over the rows v that a database shows.           *)

Expired(c) == now > End[c]

(* A mutant of Uses: only paid quotes are uses. *)
UsesPaid(v, c) == {q \in Quotes : c \in v.adjusted[q] /\ v.table[q] = "receipt"}

Uses(v, c) == {q \in Quotes : c \in v.adjusted[q]}

UsedUp(v, c) == MaxUses[c] > 0 /\ Cardinality(Uses(v, c)) >= MaxUses[c]

Receipts(v, u) == {q \in Quotes : v.table[q] = "receipt" /\ user[q] = u}

Ineligible(v, u, c) ==
  \E q \in Receipts(v, u) : Group[c] = "new" \/ c \in v.adjusted[q]

Eligible(v, u, c) == ~Expired(c) /\ ~UsedUp(v, c) /\ ~Ineligible(v, u, c)

Matching(code) == {c \in Catalogs : Code[c] = code /\ Start[c] =< now}

MostRecent(code) ==
  {c \in Matching(code) : \A d \in Matching(code) : Start[d] =< Start[c]}

-----------------------------------------------------------------------------
(* The top up route. Every code must be found, eligible and below the      *)
(* amount paid, or there is no quote.                                      *)

Price(q, codes, amount) ==
  LET qualified == UNION {MostRecent(code) : code \in codes} IN
  /\ work[q].at = "idle" /\ table[q] = "none"
  /\ \A code \in codes : Matching(code) # {}
  /\ \A c \in qualified : Eligible(shown, user[q], c) /\ amount >= Minimum[c]
  /\ work' = [work EXCEPT ![q] = At("priced", qualified)]
  /\ made' = [made EXCEPT ![q] = now]
  /\ UNCHANGED <<now, user, rows, shown, before, refused>>

CreateTopUpQuote(q) ==
  /\ work[q].at = "priced"
  /\ table' = [table EXCEPT ![q] = "quote"]
  /\ adjusted' = [adjusted EXCEPT ![q] = work[q].left]
  /\ work' = [work EXCEPT ![q] = At("idle", {})]
  /\ UNCHANGED <<quoting, shown, before, refused>>

-----------------------------------------------------------------------------
(* createPaymentReceipt, called when Stripe reports the payment. An error  *)
(* rolls it back, and its caller refunds the payment: the quote stays, and *)
(* so do its adjustments, which are read in no order.                      *)

Refuse(q, why) ==
  /\ refused' = [refused EXCEPT ![q] = why]
  /\ work' = [work EXCEPT ![q] = At("done", {})]
  /\ UNCHANGED <<quoting, rows, shown, before>>

Goes(q, w) ==
  /\ work' = [work EXCEPT ![q] = w]
  /\ UNCHANGED <<quoting, rows, shown, before, refused>>

ReadQuote(q) ==
  /\ work[q].at = "idle" /\ table[q] = "quote" /\ now =< made[q] + Validity
  /\ before' = [before EXCEPT ![q] = Receipts(Rows, user[q])]
  /\ work' = [work EXCEPT ![q] = At("checking", adjusted[q])]
  /\ UNCHANGED <<quoting, rows, shown, refused>>

RefuseExpiredQuote(q) ==
  /\ work[q].at = "idle" /\ table[q] = "quote" /\ now > made[q] + Validity
  /\ Refuse(q, "quote")

CountUses(q, c) ==
  /\ work[q].at = "checking" /\ work[q].counted = {} /\ c \in work[q].left
  /\ IF Expired(c) THEN Refuse(q, "expired")
     ELSE IF UsedUp(Rows, c) THEN Refuse(q, "uses")
     ELSE Goes(q, [work[q] EXCEPT !.counted = {c}])

(* A mutant of CheckUser: the user's receipts are read from the reader. *)
CheckUserOnReader(q, c) ==
  /\ work[q].at = "checking" /\ c \in work[q].counted
  /\ IF Ineligible(shown, user[q], c) THEN Refuse(q, "user")
     ELSE Goes(q, At("checking", work[q].left \ {c}))

(* A mutant of CheckUser: the next catalog passes for a counted one. *)
CheckUserCounted(q, c) ==
  /\ work[q].at = "checking" /\ c \in work[q].counted
  /\ IF Ineligible(Rows, user[q], c) THEN Refuse(q, "user")
     ELSE Goes(q, [work[q] EXCEPT !.left = @ \ {c}])

CheckUser(q, c) ==
  /\ work[q].at = "checking" /\ c \in work[q].counted
  /\ IF Ineligible(Rows, user[q], c) THEN Refuse(q, "user")
     ELSE Goes(q, At("checking", work[q].left \ {c}))

CreatePaymentReceipt(q) ==
  /\ work[q] = At("checking", {})
  /\ table' = [table EXCEPT ![q] = "receipt"]
  /\ work' = [work EXCEPT ![q] = At("done", {})]
  /\ UNCHANGED <<quoting, adjusted, shown, before, refused>>

-----------------------------------------------------------------------------
(* What else happens to a quote: the bank takes a payment back, a process  *)
(* dies (Stripe reports the payment again; a quote that was only priced is *)
(* lost), the reader catches up, time passes.                              *)

CreateChargebackReceipt(q) ==
  /\ table[q] = "receipt"
  /\ table' = [table EXCEPT ![q] = "chargeback"]
  /\ UNCHANGED <<quoting, adjusted, shown, work, before, refused>>

Crash(q) ==
  /\ work[q].at = "checking"
  /\ Goes(q, At("idle", {}))

Replicate ==
  /\ shown # Rows
  /\ shown' = Rows
  /\ UNCHANGED <<quoting, rows, work, before, refused>>

Tick ==
  /\ now < Horizon
  /\ now' = now + 1
  /\ UNCHANGED <<user, made, rows, shown, work, before, refused>>

Next ==
  \/ \E q \in Quotes :
       \/ \E codes \in SUBSET Codes, amount \in Amounts : Price(q, codes, amount)
       \/ CreateTopUpQuote(q) \/ ReadQuote(q) \/ RefuseExpiredQuote(q)
       \/ \E c \in Catalogs : CountUses(q, c) \/ CheckUser(q, c)
       \/ CreatePaymentReceipt(q) \/ CreateChargebackReceipt(q) \/ Crash(q)
  \/ Replicate \/ Tick

Spec == Init /\ [][Next]_vars

-----------------------------------------------------------------------------
TypeOK ==
  /\ now \in 0..Horizon
  /\ table \in [Quotes -> Tables]
  /\ user \in [Quotes -> Users]
  /\ made \in [Quotes -> 0..Horizon]
  /\ adjusted \in [Quotes -> SUBSET Catalogs]
  /\ shown \in [table : [Quotes -> Tables], adjusted : [Quotes -> SUBSET Catalogs]]
  /\ work \in [Quotes ->
       [at : Stages, left : SUBSET Catalogs, counted : SUBSET Catalogs]]
  /\ \A q \in Quotes : work[q].counted \subseteq work[q].left
  /\ before \in [Quotes -> SUBSET Quotes]
  /\ refused \in [Quotes -> Reasons]

Redeemed(c) == {q \in Uses(Rows, c) : table[q] \in {"receipt", "chargeback"}}

(* However many payments overlap, a code is never redeemed more often than *)
(* its max_uses: assertCodeEligibility counts quotes, not receipts, so the *)
(* uses of every payment that overlaps are counted before it is tested.    *)
WithinMaxUses ==
  \A c \in Catalogs : MaxUses[c] > 0 => Cardinality(Redeemed(c)) =< MaxUses[c]

(* Of two receipts of a user, the later redeems no code the earlier one    *)
(* did, and no code for new users, unless their payments overlapped: a     *)
(* quote made from a reader that lags, or made before the first payment,   *)
(* is caught by the second test, in createPaymentReceipt.                  *)
RedeemedOnce ==
  \A q, r \in Quotes :
    /\ table[q] = "receipt" /\ table[r] = "receipt"
    /\ r \in before[q]
    => \A c \in adjusted[q] : Group[c] # "new" /\ c \notin adjusted[r]

(* What PromoCodeExceedsMaxUses tells the client, that the code "has       *)
(* already been used the maximum number of times", is true of a payment    *)
(* that is refused with it. In the code the quote of the payment is a use  *)
(* itself, and so is every quote that nobody paid.                         *)
RefusedWhenUsedUp ==
  \A q \in Quotes : refused[q] = "uses" =>
    \E c \in adjusted[q] : MaxUses[c] > 0 /\ Cardinality(Redeemed(c)) >= MaxUses[c]
=============================================================================
