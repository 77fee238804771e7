---------------------------- MODULE ArNSPurchase ----------------------------
(***************************************************************************)
(* Buying ArNS names on the AR.IO contract, in the two ways the service    *)
(* offers. An order is paid with credits, the owner's or those of the      *)
(* payers a paid-by list names (routes/initiateArNSPurchase.ts); a quote   *)
(* is paid through Stripe, which delivers the event of its payment at      *)
(* least once (routes/arnsPurchaseQuote.ts, arnsEventHandler.ts). Both     *)
(* send a message to the contract between two database transactions, and   *)
(* undo the first one when anything after it fails.                        *)
(*                                                                         *)
(* A step is one transaction whose rows are locked before they are read,   *)
(* one read that is not, or one remote call. Approvals are one per payer   *)
(* and owner, made beforehand: DelegatedApprovals has their statements.    *)
(***************************************************************************)
EXTENDS Integers, SequencesExt

CONSTANTS
  Users,         \* user_address
  KnownUsers,    \* those with a row in the user table at the start
  Funds,         \* their winston_credit_balance
  Grant,         \* approved_winc_amount by payer and owner, 0 for no approval
  Names,         \* ArNS names
  Orders,        \* nonces of purchases with credits
  Quotes,        \* nonces of purchases through Stripe
  Owner,         \* owner of each nonce
  Name,          \* name of each nonce
  Intent,        \* intent of each nonce
  Price,         \* winc_qty of each order
  PaidBy,        \* paid-by list of each order
  Excess,        \* excess_winc of each quote
  Workers,       \* requests and event handlers at once
  Loads          \* bounds: requests and deliveries of each nonce, one of these

Nonces == Orders \cup Quotes
Intents == {"Buy-Name", "Upgrade-Name", "Extend-Lease", "Increase-Undername-Limit"}
Records == {"none", "lease", "permabuy"}

ASSUME ArNSAssumption ==
  /\ KnownUsers \subseteq Users
  /\ Funds \in [Users -> Nat] /\ \A u \in Users \ KnownUsers : Funds[u] = 0
  /\ Grant \in [Users -> [Users -> Nat]] /\ \A u \in Users : Grant[u][u] = 0
  /\ Orders \cap Quotes = {} /\ "" \notin Nonces
  /\ Owner \in [Nonces -> Users] /\ Name \in [Nonces -> Names]
  /\ Intent \in [Nonces -> Intents]
  /\ Price \in [Orders -> Nat \ {0}] /\ PaidBy \in [Orders -> Seq(Users)]
  /\ Excess \in [Quotes -> Nat]
  /\ IsFiniteSet(Users) /\ IsFiniteSet(Nonces)
  /\ Loads \subseteq [Nonces -> Nat]

VARIABLES
  users,        \* addresses with a row in the user table
  balance,      \* user.winston_credit_balance
  approval,     \* the approval of each payer for each owner, in either table
  receipt,      \* orders with a row in arns_purchase_receipt
  spent,        \* its overflow_spend: what each payer spent
  messageId,    \* orders with a message id on their receipt
  quote,        \* each quote: the table its row is in
  shown,        \* the same, as the reader database shows it
  age,          \* each quote: 0 valid, 1 expired, 2 expired for as long again
  record,       \* the contract: the record of each name
  cached,       \* arnsRecordPromiseCache, "unread" for no entry
  served,       \* the contract: messages of each nonce that took effect
  load,         \* the load of this behaviour
  asked,        \* requests and deliveries of each nonce
  refunded,     \* quotes whose payment Stripe refunded
  work,         \* where each request or handler is
  misreported,  \* nonces with a step reported as failed after the contract served them
  abandoned     \* nonces whose clean-up failed, or whose worker was lost

requests == <<load, asked>>
ledger == <<users, balance, approval>>
receipts == <<receipt, spent, messageId>>
tables == <<receipts, quote>>
contract == <<record, served>>
history == <<misreported, abandoned>>
outside == <<shown, age, contract, cached, requests, refunded>>
vars == <<ledger, tables, outside, work, history>>

Tables == {"none", "quote", "receipt", "failed"}
Stages == {"idle", "create", "buy", "note", "undo", "undoWrite",
           "load", "send", "take", "settle", "stuck", "fail", "check", "refund"}
NoSpend == [u \in Users |-> 0]
NoApproval == [status |-> "none", used |-> 0]
Free == [at |-> "idle", n |-> "", from |-> [u \in Users |-> NoApproval], isNew |-> FALSE]

Init ==
  /\ users = KnownUsers
  /\ balance = Funds
  /\ approval = [p \in Users |-> [s \in Users |->
       IF Grant[p][s] = 0 THEN NoApproval ELSE [status |-> "active", used |-> 0]]]
  /\ receipt = {}
  /\ spent = [o \in Orders |-> NoSpend]
  /\ messageId = {}
  /\ quote = [q \in Quotes |-> "none"] /\ shown = quote
  /\ age = [q \in Quotes |-> 0]
  /\ record \in [Names -> {"none", "lease"}]
  /\ cached = [m \in Names |-> "unread"]
  /\ served = [n \in Nonces |-> 0]
  /\ load \in Loads
  /\ asked = [n \in Nonces |-> 0]
  /\ refunded = {}
  /\ work = [w \in Workers |-> Free]
  /\ misreported = {} /\ abandoned = {}

At(w, stage) == work[w].at = stage
Go(w, stage) ==
  work' = [work EXCEPT ![w] = IF stage = "idle" THEN Free ELSE [@ EXCEPT !.at = stage]]

-----------------------------------------------------------------------------
(* The AR.IO gateway: getTokenCost looks at a record cached for 5 minutes, *)
(* initiateArNSPurchase drops it when the contract has answered. The       *)
(* balance and cost it also caches change no state: a purchase the         *)
(* contract cannot accept is one it refuses.                               *)

Allows(intent, rec) ==
  CASE intent = "Buy-Name" -> rec = "none"
    [] intent = "Increase-Undername-Limit" -> rec # "none"
    [] OTHER -> rec = "lease"

Becomes(intent, rec) ==
  CASE intent = "Buy-Name" -> {"lease", "permabuy"}
    [] intent = "Upgrade-Name" -> {"permabuy"}
    [] OTHER -> {rec}

Known(m) == IF cached[m] = "unread" THEN record[m] ELSE cached[m]

GetTokenCost(n) ==
  /\ Allows(Intent[n], Known(Name[n]))
  /\ cached' = [cached EXCEPT ![Name[n]] = Known(Name[n])]

Forget(m) ==
  /\ cached[m] # "unread"
  /\ cached' = [cached EXCEPT ![m] = "unread"]
  /\ UNCHANGED <<ledger, tables, shown, age, contract, requests, refunded, work, history>>

Serve(n) ==
  /\ Allows(Intent[n], record[Name[n]])
  /\ \E rec \in Becomes(Intent[n], record[Name[n]]) :
       record' = [record EXCEPT ![Name[n]] = rec]
  /\ served' = [served EXCEPT ![n] = @ + 1]

BuyStagesUncaught == [buy |-> <<"note", "idle">>, send |-> <<"take", "fail">>]

BuyStagesNoted == [buy |-> <<"note", "undo">>, send |-> <<"note", "fail">>]

\* Where the worker goes when the message is answered, and when it is not.
BuyStages == [buy |-> <<"note", "undo">>, send |-> <<"take", "fail">>]

Initiate(w) ==
  /\ work[w].at \in DOMAIN BuyStages
  /\ Serve(work[w].n)
  /\ cached' = [cached EXCEPT ![Name[work[w].n]] = "unread"]
  /\ Go(w, BuyStages[work[w].at][1])
  /\ UNCHANGED <<ledger, tables, shown, age, requests, refunded, history>>

\* The contract refuses, or the answer of a message it accepted is lost.
InitiateFails(w) ==
  LET n == work[w].n
  IN  /\ work[w].at \in DOMAIN BuyStages
      /\ \/ UNCHANGED contract /\ UNCHANGED misreported
         \/ Serve(n) /\ misreported' = misreported \cup {n}
      /\ Go(w, BuyStages[work[w].at][2])
      /\ UNCHANGED <<ledger, tables, shown, age, cached, requests, refunded, abandoned>>

-----------------------------------------------------------------------------
(* useBalanceAndApprovals with a paid-by list: who pays how much           *)

\* Set keeps the first of equal addresses, in their order.
Dedupe(list) ==
  FoldLeft(LAMBDA seen, u : IF u \in ToSet(seen) THEN seen ELSE Append(seen, u), <<>>, list)

Available(u, s) ==
  CASE u = s -> balance[s]
    [] u # s /\ approval[u][s].status = "active" -> Grant[u][s] - approval[u][s].used
    [] OTHER -> 0

\* Each address in turn pays what it can of what is left.
ListSpend(o) ==
  LET s == Owner[o]
      Take(acc, u) ==
        LET winc == Min({acc.left, Available(u, s)})
        IN  [left |-> acc.left - winc, spend |-> [acc.spend EXCEPT ![u] = @ + winc]]
  IN  FoldLeft(Take, [left |-> Price[o], spend |-> NoSpend], Dedupe(PaidBy[o]))

\* The owner pays what the list leaves, all of it, and only when not in the list.
Spend(o) ==
  LET s == Owner[o]
      list == ListSpend(o)
  IN  IF list.spend[s] = 0 /\ balance[s] >= list.left
      THEN [left |-> 0, spend |-> [list.spend EXCEPT ![s] = list.left]]
      ELSE list

ChargeOwner(s, spend) ==
  /\ balance' = [balance EXCEPT ![s] = @ - spend[s]]
  /\ UNCHANGED approval

Charge(s, spend) ==
  /\ balance' = [balance EXCEPT ![s] = @ - spend[s]]
  /\ approval' = [p \in Users |-> [approval[p] EXCEPT ![s] =
       IF p = s \/ spend[p] = 0 THEN @
       ELSE [status |-> IF @.used + spend[p] = Grant[p][s] THEN "used" ELSE "active",
             used |-> @.used + spend[p]]]]

-----------------------------------------------------------------------------
(* initiateArNSPurchase, a purchase with credits                           *)

Request(w, o) ==
  /\ At(w, "idle") /\ asked[o] < load[o]
  /\ asked' = [asked EXCEPT ![o] = @ + 1] /\ UNCHANGED load
  /\ GetTokenCost(o)
  /\ work' = [work EXCEPT ![w] = [Free EXCEPT !.at = "create", !.n = o]]
  /\ UNCHANGED <<ledger, tables, shown, age, contract, refunded, history>>

\* createArNSPurchaseReceipt; the INSERT of a nonce waits for its deletion.
CreateReceipt(w) ==
  LET o == work[w].n
      spending == Spend(o)
  IN  /\ At(w, "create")
      /\ o \notin receipt /\ spending.left = 0
      /\ Charge(Owner[o], spending.spend)
      /\ receipt' = receipt \cup {o}
      /\ spent' = [spent EXCEPT ![o] = spending.spend]
      /\ Go(w, "buy")
      /\ UNCHANGED <<users, messageId, quote, outside, history>>

\* InsufficientBalance, ArNSPurchaseAlreadyExists, or an error of the database.
RejectReceipt(w) ==
  /\ At(w, "create")
  /\ Go(w, "idle")
  /\ UNCHANGED <<ledger, tables, outside, history>>

\* A receipt whose COMMIT is reported as failed is nobody's to undo.
ReceiptUnacknowledged(w) ==
  LET o == work[w].n
      spending == Spend(o)
  IN  /\ At(w, "create")
      /\ o \notin receipt /\ spending.left = 0
      /\ Charge(Owner[o], spending.spend)
      /\ receipt' = receipt \cup {o}
      /\ spent' = [spent EXCEPT ![o] = spending.spend]
      /\ abandoned' = abandoned \cup {o}
      /\ Go(w, "idle")
      /\ UNCHANGED <<users, messageId, quote, outside, misreported>>

AddMessageIdThenUndo(w) ==
  /\ At(w, "note")
  /\ Go(w, "undo")
  /\ UNCHANGED <<ledger, tables, outside, history>>

\* addMessageIdToPurchaseReceipt
AddMessageId(w) ==
  /\ At(w, "note")
  /\ messageId' = messageId \cup {work[w].n}
  /\ Go(w, "idle")
  /\ UNCHANGED <<ledger, receipt, spent, quote, outside, history>>

\* The same catch for an error of the purchase and of what follows it.
AddMessageIdFails(w) ==
  /\ At(w, "note")
  /\ misreported' = misreported \cup {work[w].n}
  /\ Go(w, "undo")
  /\ UNCHANGED <<ledger, tables, outside, abandoned>>

\* updateFailedArNSPurchase deletes the receipt and reads the approvals it was
\* paid from, without a lock ...
Undo(w) ==
  /\ At(w, "undo")
  /\ work' = [work EXCEPT ![w].at = "undoWrite",
                          ![w].from = [p \in Users |-> approval[p][Owner[work[w].n]]]]
  /\ UNCHANGED <<ledger, tables, outside, history>>

Minus(used, winc) == IF used >= winc THEN used - winc ELSE 0

\* What a refund of winc to a payer makes of their approval: it was read as seen and
\* is now current. An active one is written by id, from what was read; an inactive
\* one is read again, for the winc that is left: a used one is active again, and
\* the payer of a revoked one is credited with all that was used of it.
Refund(seen, current, winc) ==
  LET left == IF seen.status = "active" THEN Minus(winc, seen.used) ELSE winc
  IN  CASE seen.status = "active" /\ current.status = "active" ->
             [row |-> [current EXCEPT !.used = Minus(seen.used, winc)], credit |-> 0]
        [] left > 0 /\ current.status = "used" ->
             [row |-> [status |-> "active", used |-> Minus(current.used, left)], credit |-> 0]
        [] left > 0 /\ current.status = "revoked" -> [row |-> current, credit |-> current.used]
        [] OTHER -> [row |-> current, credit |-> 0]

\* ... gives everyone back what the receipt says they spent, and keeps a failed row.
UndoWrite(w) ==
  LET o == work[w].n
      s == Owner[o]
      Back(p) == IF p = s \/ spent[o][p] = 0
                 THEN [row |-> approval[p][s], credit |-> IF p = s THEN spent[o][s] ELSE 0]
                 ELSE Refund(work[w].from[p], approval[p][s], spent[o][p])
  IN  /\ At(w, "undoWrite")
      /\ balance' = [p \in Users |-> balance[p] + Back(p).credit]
      /\ approval' = [p \in Users |-> [approval[p] EXCEPT ![s] = Back(p).row]]
      /\ receipt' = receipt \ {o}
      /\ spent' = [spent EXCEPT ![o] = NoSpend]
      /\ messageId' = messageId \ {o}
      /\ Go(w, "idle")
      /\ UNCHANGED <<users, quote, outside, history>>

\* Its own error is logged, and the receipt stays.
UndoFails(w) ==
  /\ work[w].at \in {"undo", "undoWrite"}
  /\ abandoned' = abandoned \cup {work[w].n}
  /\ Go(w, "idle")
  /\ UNCHANGED <<ledger, tables, outside, misreported>>

\* revokeDelegatedPaymentApprovals: what is left of an active approval goes back to
\* its payer, and a used one is only marked.
Revoke(p, s) ==
  /\ approval[p][s].status \in {"active", "used"}
  /\ approval' = [approval EXCEPT ![p][s].status = "revoked"]
  /\ balance' = [balance EXCEPT ![p] = @ + Grant[p][s] - approval[p][s].used]
  /\ UNCHANGED <<users, tables, outside, work, history>>

-----------------------------------------------------------------------------
(* arnsPurchaseQuote and the event of its payment                          *)

StoreQuote(q) ==
  /\ quote[q] = "none"
  /\ quote' = [quote EXCEPT ![q] = "quote"]

\* The Stripe session is returned once the quote is stored.
CreateQuote(q) ==
  /\ load[q] > 0
  /\ GetTokenCost(q)
  /\ StoreQuote(q)
  /\ UNCHANGED <<ledger, receipts, shown, age, contract, requests, refunded, work, history>>

Lapse(q) ==
  /\ quote[q] # "none" /\ age[q] < 2
  /\ age' = [age EXCEPT ![q] = @ + 1]
  /\ UNCHANGED <<ledger, tables, shown, contract, cached, requests, refunded, work, history>>

\* A top up or a pending payment of u inserts their row (TopUpLedger).
Register(u) ==
  /\ u \notin users
  /\ users' = users \cup {u}
  /\ UNCHANGED <<balance, approval, tables, outside, work, history>>

Replicate(q) ==
  /\ shown[q] # quote[q]
  /\ shown' = [shown EXCEPT ![q] = quote[q]]
  /\ UNCHANGED <<ledger, tables, age, contract, cached, requests, refunded, work, history>>

\* The payment of a stored quote was captured.
Deliver(w, q) ==
  /\ At(w, "idle") /\ quote[q] # "none" /\ asked[q] < load[q]
  /\ asked' = [asked EXCEPT ![q] = @ + 1] /\ UNCHANGED load
  /\ work' = [work EXCEPT ![w] = [Free EXCEPT !.at = "load", !.n = q]]
  /\ UNCHANGED <<ledger, tables, shown, age, contract, cached, refunded, history>>

\* getArNSPurchaseQuote, on the reader.
Load(w) ==
  LET q == work[w].n
  IN  /\ At(w, "load")
      /\ Go(w, IF shown[q] = "quote" /\ age[q] < 2 THEN "send" ELSE "check")
      /\ UNCHANGED <<ledger, tables, outside, history>>

\* The row of q is deleted by a transaction that has not ended.
Taken(q) == \E w \in Workers : work[w].n = q /\ work[w].at \in {"settle", "stuck"}

TakeQuoteOrFail(w) ==
  LET q == work[w].n
  IN  /\ At(w, "take") /\ ~Taken(q)
      /\ work' = [work EXCEPT
           ![w].at = IF quote[q] # "quote" \/ age[q] > 0 THEN "fail" ELSE "settle",
           ![w].isNew = Owner[q] \notin users]
      /\ UNCHANGED <<ledger, tables, outside, history>>

\* updateArNSPurchaseQuoteToSuccess: DELETE, and the owner's row is read. An expired
\* quote it deletes through another connection, which waits for this one for good.
TakeQuote(w) ==
  LET q == work[w].n
  IN  /\ At(w, "take") /\ ~Taken(q)
      /\ work' = [work EXCEPT
           ![w].at = IF quote[q] # "quote" THEN "fail" ELSE IF age[q] > 0 THEN "stuck" ELSE "settle",
           ![w].isNew = Owner[q] \notin users]
      /\ UNCHANGED <<ledger, tables, outside, history>>

\* Excess winc goes to the owner, whose row is inserted when there was none: its
\* primary key refuses it when another transaction inserted it meanwhile.
Credit(w) ==
  LET q == work[w].n
  IN  /\ At(w, "settle")
      /\ Excess[q] > 0 /\ work[w].isNew => Owner[q] \notin users
      /\ users' = IF Excess[q] > 0 THEN users \cup {Owner[q]} ELSE users
      /\ balance' = [balance EXCEPT ![Owner[q]] = @ + Excess[q]]
      /\ quote' = [quote EXCEPT ![q] = "receipt"]

Settle(w) ==
  /\ Credit(w)
  /\ Go(w, "idle")
  /\ UNCHANGED <<approval, receipts, outside, history>>

OwnerExists(w) ==
  /\ At(w, "settle")
  /\ Excess[work[w].n] > 0 /\ work[w].isNew /\ Owner[work[w].n] \in users
  /\ misreported' = misreported \cup {work[w].n}
  /\ Go(w, "fail")
  /\ UNCHANGED <<ledger, tables, outside, abandoned>>

\* An error of the database, also one of a COMMIT that took effect.
SettleFails(w) ==
  /\ work[w].at \in {"take", "settle"}
  /\ Credit(w) \/ UNCHANGED <<users, balance, quote>>
  /\ misreported' = misreported \cup {work[w].n}
  /\ Go(w, "fail")
  /\ UNCHANGED <<approval, receipts, outside, abandoned>>

\* updateArNSPurchaseQuoteToFailure, or its error: the quote is gone, or the database
\* fails. Both end in the outer catch.
QuoteFails(w) ==
  LET q == work[w].n
  IN  /\ At(w, "fail")
      /\ \/ ~Taken(q) /\ quote' = [quote EXCEPT ![q] = IF @ = "quote" THEN "failed" ELSE @]
         \/ UNCHANGED quote
      /\ Go(w, "check")
      /\ UNCHANGED <<ledger, receipts, outside, history>>

CheckAnyStatus(w) ==
  /\ At(w, "check")
  /\ Go(w, IF shown[work[w].n] \in {"receipt", "failed"} THEN "idle" ELSE "refund")
  /\ UNCHANGED <<ledger, tables, outside, history>>

\* A second later, getArNSPurchaseStatus on the reader.
CheckStatus(w) ==
  /\ At(w, "check")
  /\ Go(w, IF shown[work[w].n] = "receipt" THEN "idle" ELSE "refund")
  /\ UNCHANGED <<ledger, tables, outside, history>>

RefundPayment(w) ==
  /\ At(w, "refund")
  /\ refunded' = refunded \cup {work[w].n}
  /\ Go(w, "idle")
  /\ UNCHANGED <<ledger, tables, shown, age, contract, cached, requests, history>>

\* The status cannot be read, or Stripe refuses: logged, or uncaught.
GiveUp(w) ==
  /\ work[w].at \in {"check", "refund"}
  /\ abandoned' = abandoned \cup {work[w].n}
  /\ Go(w, "idle")
  /\ UNCHANGED <<ledger, tables, outside, misreported>>

\* The process is lost, and with it its transaction and its cache.
Crash(w) ==
  /\ ~At(w, "idle")
  /\ abandoned' = abandoned \cup {work[w].n}
  /\ cached' = [m \in Names |-> "unread"]
  /\ Go(w, "idle")
  /\ UNCHANGED <<ledger, tables, shown, age, contract, requests, refunded, misreported>>

-----------------------------------------------------------------------------
\* The next step of a worker when nothing fails.
Proceed(w) ==
  \/ CreateReceipt(w) \/ Initiate(w) \/ AddMessageId(w) \/ Undo(w) \/ UndoWrite(w)
  \/ Load(w) \/ TakeQuote(w) \/ Settle(w) \/ OwnerExists(w)
  \/ QuoteFails(w) \/ CheckStatus(w) \/ RefundPayment(w)

Fault(w) ==
  \/ RejectReceipt(w) \/ ReceiptUnacknowledged(w) \/ InitiateFails(w) \/ AddMessageIdFails(w)
  \/ UndoFails(w) \/ SettleFails(w) \/ GiveUp(w) \/ Crash(w)

Next ==
  \/ \E w \in Workers :
       \/ Proceed(w) \/ Fault(w)
       \/ \E o \in Orders : Request(w, o)
       \/ \E q \in Quotes : Deliver(w, q)
  \/ \E q \in Quotes : CreateQuote(q) \/ Lapse(q) \/ Replicate(q)
  \/ \E p, s \in Users : Revoke(p, s)
  \/ \E m \in Names : Forget(m)
  \/ \E u \in Users : Register(u)

Spec == Init /\ [][Next]_vars

-----------------------------------------------------------------------------
(* Correctness                                                             *)

Approvals == [status : {"none", "active", "used", "revoked"}, used : Nat]
Sessions == [at : Stages, n : Nonces \cup {""}, from : [Users -> Approvals], isNew : BOOLEAN]

TypeOK ==
  /\ users \subseteq Users
  /\ balance \in [Users -> Nat]
  /\ approval \in [Users -> [Users -> Approvals]]
  /\ receipt \subseteq Orders
  /\ spent \in [Orders -> [Users -> Nat]]
  /\ messageId \subseteq Orders
  /\ quote \in [Quotes -> Tables] /\ shown \in [Quotes -> Tables]
  /\ age \in [Quotes -> 0 .. 2]
  /\ record \in [Names -> Records] /\ cached \in [Names -> Records \cup {"unread"}]
  /\ load \in Loads
  /\ served \in [Nonces -> Nat] /\ asked \in [Nonces -> Nat]
  /\ refunded \subseteq Quotes
  /\ work \in [Workers -> Sessions]
  /\ misreported \subseteq Nonces /\ abandoned \subseteq Nonces

\* An order the contract served keeps its credits: they go back to the payers only
\* when the service was told of an error after the contract served it.
BoughtIsPaid == \A o \in Orders : served[o] > 0 => o \in receipt \/ o \in misreported

\* An order that is paid and not served is on its way there or back, or its worker
\* was lost: no error path forgets the credits. A message id means both.
Underway(o) == \E w \in Workers : work[w].n = o /\ work[w].at \in {"buy", "undo", "undoWrite"}
PaidIsBought ==
  /\ \A o \in Orders : o \in receipt /\ served[o] = 0 => Underway(o) \/ o \in abandoned
  /\ \A o \in messageId : o \in receipt /\ served[o] > 0

\* A payment is refunded although the name was bought with it only when its event was
\* delivered again, or a step failed or seemed to fail after the contract served it:
\* the answer is lost, the database fails, the owner's row was inserted meanwhile.
RefundedOrBought ==
  \A q \in refunded : served[q] > 0 => asked[q] > 1 \/ q \in misreported

Left(p, s) == IF approval[p][s].status = "active" THEN Grant[p][s] - approval[p][s].used ELSE 0

\* All credits: balances, what is left of approvals, and what receipts hold, without
\* the excess of the quotes that were settled.
Credits ==
  SumFunction(balance) + SumFunction([x \in Users \X Users |-> Left(x[1], x[2])])
    + SumFunction([o \in Orders |-> SumFunction(spent[o])])
    - SumFunction([q \in Quotes |-> IF quote[q] = "receipt" THEN Excess[q] ELSE 0])

\* Less is used of an approval than the receipts of its owner say its payer spent.
Behind(p, s) ==
  /\ approval[p][s].status # "none"
  /\ approval[p][s].used < SumFunction([o \in Orders |-> IF Owner[o] = s THEN spent[o][p] ELSE 0])

\* A refund meets an approval that was used, refunded or revoked after it was read,
\* or that had been revoked before, or that such a refund left behind its receipts.
StaleUndo(w) ==
  /\ At(w, "undoWrite")
  /\ \E p \in Users \ {Owner[work[w].n]} :
       /\ spent[work[w].n][p] > 0
       /\ \/ approval[p][Owner[work[w].n]] # work[w].from[p]
          \/ work[w].from[p].status = "revoked"
          \/ Behind(p, Owner[work[w].n])

\* Credits are neither made nor lost by purchases, and no approval falls behind its
\* receipts, whatever fails and interleaves, but for a refund from such an approval;
\* the excess of a quote is credited with its receipt and never again.
CreditsConserved ==
  [][\/ Credits' # Credits
     \/ \E p, s \in Users : Behind(p, s)' /\ ~Behind(p, s)
     => \E w \in Workers : StaleUndo(w)]_vars

Handled(q) == \E w \in Workers : work[w].n = q

\* A captured payment whose handlers are done ended in a name or in a refund, unless
\* one of them was lost or could not refund it. A handler that finds the quote expired
\* is never done.
PaymentsAnswered ==
  \A q \in Quotes : asked[q] > 0 => \/ quote[q] = "receipt" \/ q \in refunded
                                    \/ q \in abandoned \/ Handled(q)

=============================================================================
