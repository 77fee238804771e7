# Verification of turbo-payment-service

TLA+ models of the payment service in `src/`, the TLC configurations that check
them on small instances, and TLAPS proofs for instances of every size. Paths
below are relative to `src/src/` unless they start with `src/` (`tests/` is
`src/tests/`).

The service sells credits ("winc") for fiat money and tokens, lets wallets give
credits to each other, and keeps the balance that the upload service reserves
from. It is a set of Node processes without shared memory: an HTTP server
(`server.ts`), a queue consumer (`consumer.ts`), and Postgres, reached through a
writer and a lagging reader. What can go wrong is therefore what database
transactions do to each other at READ COMMITTED (the isolation level of every
`writer.transaction`, none of which asks for another), what Stripe, the chains
and SQS repeat or reorder, and what a crash leaves half done. The models are
about that; amounts are small numbers, and messages are ids.

## Inventory

| Part | State | Operations | Correct when |
|---|---|---|---|
| Payment database: top ups, gifts, chargebacks (`database/postgres.ts` 162-1063) | `top_up_quote`, `payment_receipt`, `chargeback_receipt`, `unredeemed_gift`, `redeemed_gift`, `user`, `audit_log`, `balance_reservation` | `createTopUpQuote`, `createPaymentReceipt`, `redeemGift`, `createChargebackReceipt`, `reserveBalance`, `refundBalance` | a quote is credited once and clawed back once, a gift redeemed once, balances are what payments and uploads add up to |
| Stripe webhook (`routes/stripe`, `triggerEmail.ts`) | none of its own; events in flight, the reader's lag | `stripeRoute`, `handlePaymentSuccessEvent`, `handleDisputeCreatedEvent`, `refundPayment` | a captured payment ends in credits or a refund, not both; gifts are announced |
| Delegated approvals (`postgres.ts` 1578-1920, 2257-2707) | `delegated_payment_approval`, `inactive_delegated_payment_approval`, balances, `overflow_spend` of reservations | create, revoke, list (which trims expired ones), use, refund | no approval or wallet is overdrawn, none is lost or in both tables, what is revoked stays revoked |
| Crypto payments (`routes/addPendingPaymentTx.ts`, `jobs/creditPendingTx.ts`) | `pending_`, `credited_`, `failed_payment_transaction`, `user` | submit, and the job: credit, fail | a transfer is credited once, after its confirmation, and does not hang |
| ArNS purchases (`routes/initiateArNSPurchase.ts`, `arnsPurchaseQuote.ts`, `arnsEventHandler.ts`, `gateway/ario.ts`, `postgres.ts` 1922-2257) | `arns_purchase_quote`, `arns_purchase_receipt`, `failed_arns_purchase`, the gateway's caches, the contract | buy with credits, quote, buy with a Stripe payment, refund either | paid for exactly when bought; credits are neither made nor lost |
| Promo codes (`postgres.ts` 1099-1235, `routes/topUp.ts`) | `single_use_code_payment_adjustment_catalog`, uses in `payment_adjustment` | look up, test at the quote and at the receipt | no code is used beyond `max_uses`, none twice by a user, and a code is refused only when it is used up |
| Pricing (`pricing/`, `types/winston.ts`, the price routes) | oracle caches, adjustment catalogs, `upload_adjustment` | prices of uploads, payments, names; fees and subsidies | adjustments explain prices; a limited subsidy stays in its limit; a name costs the same however it is paid |
| Schema and migrations (`migrations/`, `database/schema.ts`, `migration.ts`, `migrator.ts`) | the schema, the rows backfills rewrite | 20 migrations and their rollbacks, while releases of the service write | a version is one schema, whatever led to it; every row is rewritten once |
| Admin credit tool (`jobs/addCreditsToAddresses.ts`, `consumer.ts` 153-212) | `payment_receipt`, gifts, balances | `createBypassedPaymentReceipts` from an SQS message | a message credits each address once |
| Gateways (`gateway/`) | none | transaction, status, polling with backoff | answers `confirmed` only after `minConfirmations` |
| Routes that only read, request authentication, validation, logging, metrics, email and Slack | none | | not stateful |

Interactions: routes and handlers call `PostgresDatabase`; its transactions meet
each other on rows of the tables above. The webhook calls Stripe's API (refunds)
and SES (gift emails). The upload service calls `reserveBalance` and
`refundBalance`. The job and the admin tool run in queue consumers, concurrently
with the server and, on redelivery, with themselves. Buying a name sends a message
to the AR.IO contract between two transactions. knex migrates the database while an
older or newer release of the service writes to it. Reads outside transactions go to
the reader database, which lags behind.

Hard behaviours: balances read without a lock and written as absolute values
(`createPaymentReceipt`, `redeemGift`, `createChargebackReceipt`,
`creditOrCreateUser`), row moves guarded only by a unique key or a NOT NULL
column, handlers that are not awaited, decisions on the reader, multi-statement
repairs outside any transaction (`trimExpiredApprovals`), reads whose result is
used after another transaction moved the row (`refundWincFromOverflowSpend`), a
remote purchase whose answer may be lost (`initiateArNSPurchase`), counts and limits
that are read long before they are used (`assertCodeEligibility`, `getWCForBytes`),
backfills that read and write in two statements.
`PROJECT.json` lists each of them under `hazards` with its line and the
properties that cover it.

## Modules

| Module | What it is |
|---|---|
| `TopUpPromise` | abstract specification: the money of a quote, with no database |
| `TopUpLedger` | the transactions of top ups, gifts, chargebacks, reservations and refunds, statement by statement; implements `TopUpPromise` but for the chargeback of a gift |
| `StripeWebhook` | events, handlers, refunds, emails, crashes and the reader, composed with `TopUpLedger` (it EXTENDS it and takes every database step from it) |
| `TopUpProofs` | the theorems of `TopUpLedger` and `StripeWebhook` |
| `DelegatedApprovals` | creation, use, revocation, trimming and refund of approvals |
| `DelegatedApprovalsProofs` | its theorems |
| `CryptoPromise` | abstract specification: a transfer is credited once, after its confirmation |
| `CryptoPayments` | submissions and runs of the job; implements `CryptoPromise` |
| `CryptoPaymentsProofs` | its theorems |
| `ArNSPurchase` | purchases of names with credits and through Stripe, the contract and its gateway's cache |
| `ArNSPurchaseProofs` | its theorems |
| `PromoCodes` | codes from the quote to the receipt |
| `PromoCodesProofs` | its theorems |
| `Pricing` | prices of uploads, payments and names as operators, and the recording of subsidies |
| `PricingProofs` | its theorems |
| `Migrations` | all migrations and rollbacks, as changes of schema and rewritings of rows |
| `MigrationsProofs` | its theorems |
| `SumsAndFolds` | lemmas: what the community modules' sums and folds compute |
| `MC_*` | constants and symmetry for TLC |

`ArNSPurchase`, `PromoCodes` and `Pricing` are about the same tables as `TopUpLedger` and
`DelegatedApprovals`, but each asks what the others cannot answer, and takes from them
what they have shown: a promo code is tested inside `createPaymentReceipt`, whose locks
are the ledger's; approvals are used one by one, statement by statement, in
`DelegatedApprovals`, and as one list in `ArNSPurchase`.

### How transactions are modelled

All models interleave database transactions in the same way.

- A table is a set of ids, or a function from ids to what a row holds and `None`.
  Rows that only restate others (adjustments, receipts' amounts) are left out.
- A transaction is a session (`tx[t]`, `at[s]`) with a program counter and the
  values it has read. A step is one unlocked read, one statement that may wait
  for a row, or the commit. What a transaction writes shows when it commits.
- A row that a transaction deleted or updated stays locked until the transaction
  ends: `QuoteLocked`, `GiftLocked`, `Locked`, `PendingHeld` and `CreditedHeld`
  say who holds one. A statement that waits is a step that is not enabled; when
  it runs it sees the row as it is then, which is what READ COMMITTED does with a
  statement that waited.
- The last row a transaction locks is locked in the step that commits it. Nothing
  happens between that lock and the commit but the transaction's own statements,
  and another transaction that would wait for the row in between may as well run
  after the commit, so no behaviour is lost. `reserveBalance` and `refundBalance`
  lock first and read afterwards, so they are one step.
- The DELETE of several approvals in `revokeDelegatedPaymentApprovals` has one
  snapshot but may wait row by row. It lists the rows in `StartRevoke` and takes
  them in `RevokeRow`; a row that disappeared after the list was made, even when
  it is created again, is not the listed row any more: `Deleted` removes it from
  the lists of the others.
- A read of the reader database is an earlier read. In `DelegatedApprovals` and
  `CryptoPayments` a session can always have read earlier, so no state is needed;
  `StripeWebhook` keeps the reader's contents in `replica`, since what it shows is
  what the refund depends on.
- An error of any statement, or the loss of a process or a connection, may come
  at any step (`Abort`, `Crash`). Statements that must fail on the rows they meet
  (a unique key, a NOT NULL column) are in the guards and the named failing steps.
- `redeemGift` reads the gift and its receipt in two statements; they are one step
  because a receipt that is gone never comes back, so that the later read sees no
  more than the earlier one.

Definitions such as `DeleteQuoteUnchecked`, `RestoreAny` or `InsertCreditedUnkeyed`
stand beside the definition they vary and are used by no specification. Each is that
definition with a plausible bug, and `PROJECT.json` (`mutants`) names the property that
TLC finds violated when it takes the definition's place: evidence that the
property says something about the code.

### TopUpLedger

`createTopUpQuote` is `CreateTopUpQuote`; the passing of `quote_expiration_date` is
`Lapse`. `createPaymentReceipt` is `ReadQuote` (the quote is there and not expired),
`DeleteQuote` (waits; when the row is gone the receipt built from nothing violates NOT
NULL), then `CommitGift`, or `ReadDestination` (no lock) and `CommitReceipt`, which
writes the balance computed from what was read. `redeemGift` is `ReadGift`,
`DeleteGift`, `ReadRedeemer`, `CommitRedeem`. `createChargebackReceipt` is
`ReadReceipt`, `ReadDebtor`, `CommitChargeback`; for gifts it touches neither a gift
nor a wallet, whatever its comments say. `TopUpPromise` says what those comments say
(an unredeemed gift is deleted, a redeemed one is taken back from the wallet in
`redeemer`), so the ledger implements it with one exception, the step `GiftLeft`
(`PromiseButForGifts`); code that did what the comments say would need none, and would
satisfy `OneTablePerQuote` and `ChargebackDeletesGift` too. `reserveBalance` and `refundBalance` of a
signer who pays alone are `ReserveBalance` and `RefundBalance`; the other payers are
in `DelegatedApprovals`. Nothing records that a reservation was refunded, so refund
requests are bounded by `MaxRefunds`. `audited` is the sum of a wallet's rows in
`audit_log`. A data item has one reservation.

### StripeWebhook

`Deliver` is the route: it answers 200 and calls the handler without `await`.
`RefuseQuote`, `StartReceipt`, `Statement`, `FailReceipt`, `Commit` are
`createPaymentReceipt` as the handler sees it; `LoseAck` is a COMMIT that took effect and
was reported as an error. `SendEmail` is `triggerEmail`. The catch block is
`CheckExisting` (reads `replica`), `RefundPayment`, `GiveUp` (Stripe or SES refuses; the
error is logged and dropped) and `CheckFails` (the check itself throws, and nothing
catches that). `Dispute` runs the ledger's chargeback. `unanswered`, `escaped` and
`lostAck` remember where a handler was cut short, so that properties can name these cases.

### DelegatedApprovals

Approvals are `active` (used amount) or `inactive` (reason, used amount). `CheckConflicts`
and `CommitCreate` create; `StartRevoke`, `RevokeRow`, `CommitRevoke` revoke;
`ListApprovals`, `TrimDelete`, `TrimInsert`, `TrimReadPayer`, `TrimWritePayer` are a list
that finds expired approvals and trims them outside any transaction, each statement
committing by itself; `ReserveBalance` uses approvals in any order, all but one in
full; `StartRefund`, `RefundRow`, `ReadInactive`, `RestoreUsed`, `CreditPayer`,
`CommitRefund` are `refundWincFromOverflowSpend` with its two unlocked reads.
One paid-by address per upload and one reservation per data item are modelled; the
audit rows are not.

### CryptoPayments

`Submit` and `Look` are `checkForPendingTransaction` with its three statements;
`AskGateway` is the gateway's and the pricing service's answer, which may be behind the
chain but never says `confirmed` of what is not; `InsertPending` stores a pending payment.
The job is `StartRun`, one visit per payment (`SeeConfirmed`, `SeeNotFound`, `SeePending`),
`Announce`, `DeletePending`, and `FailPending`. `InsertCredited`, `ReadUser` and
`CommitCredit` are shared by `creditPendingTransaction` and
`createNewCreditedTransaction`. Whether a row is more than a day old is left open:
any row may be by the time of a visit. A confirmed transfer stays confirmed.

### ArNSPurchase

A worker is one run of the route or of the event handler; `work[w].at` says before
which call it is. With credits: `Request` (`getTokenCost`, which may look at a cached
record), `CreateReceipt` (`createArNSPurchaseReceipt`: locks the rows it reads, so one step;
`Spend` is `useBalanceAndApprovals` over a paid-by list with repeated addresses), `Initiate`
(the message to the contract), `AddMessageId`, and after any error `Undo` and `UndoWrite`
(`updateFailedArNSPurchase`, which reads the approvals it refunds without a lock; `Refund`
is `refundWincFromOverflowSpend` for one payer). Through Stripe: `CreateQuote`, then for each
delivery of the event `Deliver`, `Load` (on the reader), `Initiate`, `TakeQuote` and `Settle`
(`updateArNSPurchaseQuoteToSuccess`), `QuoteFails`, `CheckStatus` (on the reader again) and
`RefundPayment`. A quote that expired meanwhile makes `updateArNSPurchaseQuoteToSuccess`
wait for its own lock: the stage `stuck`, which nothing leaves but the loss of the process.
`InitiateFails`, `ReceiptUnacknowledged`, `SettleFails` and `AddMessageIdFails` are the errors, also
those of calls that took effect; `misreported` remembers the latter, `abandoned` a worker
that was lost or could not clean up. The contract refuses what `Allows` does not allow and
does what `Becomes` says; it is external, modelled from how `gateway/ario.ts` uses it.

### PromoCodes

`Price` is the top up route: `MostRecent` catalog of each code, `Eligible` on what the
reader shows. `CreateTopUpQuote` stores quote and adjustments. `ReadQuote`, then for each
adjustment of the quote `CountUses` and `CheckUser`, then `CreatePaymentReceipt` are the second
test in `createPaymentReceipt`; its reads take no lock and each is a step. The two reads of the
first test are one step, since both are of one earlier state of the reader or of a
later one whose refusals are the same. `refused` says why a payment was refunded, `before`
which receipts its user had when it was reported.

### Pricing

`GetWCForBytes`, `GetWCForPayment`, `GetWCForCryptoPayment` and `PriceName` are the answers of
`TurboPricingService`, written as folds that skip the catalogs not in force; `Down`, `Up` and `Half` are the
roundings of `Winston` and `Math.round`. `PriceUpload` and `ReserveBalance` are the two calls of the
reserve balance route between which other uploads take the same subsidy. An answer uses
one cached answer of the oracle; multiplying by the inverse of a magnitude, which in the
code rounds twice, divides once; the limits of amounts per currency (`pricing.ts` 227-321) and
the rates endpoint are left out. `FeeAssumption` is what the migrations put into
`payment_adjustment_catalog` (`database/migration.ts` 332-381): the fees are percentages whose dates
do not overlap, and only promo codes have a maximum discount.

### Migrations

`Migrations` lists the twenty migrations as what each creates, drops, adds and removes;
`Possible` is what PostgreSQL refuses. `Up` and `Down` run one; the four with a backfill are
`Read` and then `FlipSigns`, `BackfillReservations`, `BackfillPromoCode` or `BackfillInfraFee`, between
which the service writes (`Upload`, `CreateQuote`, `Pay`), in the form of its `release`. `Eras` are the
dates the migrations compare. knex runs one migration at a time; a rollback's select and
update are one step; `migrate:down` of one older migration is not modelled.

## Runs

| Run | Instance | Shows |
|---|---|---|
| `ledger` | 2 wallets, 2 top ups of one and a gift, 1 upload, 2 transactions | `TypeOK`, `OneTablePerQuote`, `SolventUntilChargeback`, `DriftOnlyByStaleWrite`, refinement of `TopUpPromise` but for gifts (`PromiseButForGifts`) |
| `balance_is_audit_total` | the same | counterexample: two overlapping receipts lose a credit |
| `webhook` | a top up and a gift, 2 deliveries each, 2 handlers | `RefundOrCredit`, `RecordedStays` |
| `webhook_live` | the same, one delivery each | `Answered`, `GiftsAnnounced` under fairness |
| `approvals` | a payer, a signer, an expiring and a lasting approval each created up to twice, an upload that needs both, 2 sessions | `NothingOverdrawn`, `OneTableButForInsertRace`, `KeptButForTrim`, `FinalButForRefund`, `CreditsOnlyFromStaleTrim` |
| `crypto` | 2 transfers of one sender at 2 prices, 2 submissions, 2 runs of the job | `NoneMissed`, `SecondTableByRequest`, `LostNotMade`, refinement of `CryptoPromise` |
| `crypto_live` | 1 transfer, 2 submissions, 2 runs | `Settled` under fairness |
| `arns` | one name, an order that its owner and two payers pay for together, an order one payer pays alone, a quote of a new owner; 4 loads of two requests or deliveries, 2 workers | `BoughtIsPaid`, `PaidIsBought`, `RefundedOrBought`, `PaymentsAnswered`, `CreditsConserved` |
| `promo` | 3 quotes of 2 users, a code that may be used twice and later once, a code for new users that ends | `WithinMaxUses`, `RedeemedOnce` |
| `promo_last_use` | the same | counterexample: a payment is refunded for a code nobody has redeemed |
| `pricing` | 3 uploads of one address, 3 subsidies; or a payment or name in 3 currencies and 3 tokens at 3 rates, 2 fees, 2 codes | `PricesAddUp`, `LimitKept`, `NameCostsTheSame` |
| `migrations` | 20 migrations, 1 upload, 1 quote, the fee inserted at most twice, 7 releases | `VersionIsPath`, `UploadsCarried`, `ChargedOnce` |

Why the bounds are enough: the hazards are races of two transactions on one
row, so two sessions at a time meet all of them, and most safety properties are
proved for any number. Two top ups of one wallet and a gift give every pair of
transactions that share a wallet (receipt and receipt, receipt and redemption,
dispute and upload). Two deliveries of an event are the least at which a
redelivery races its first; a third behaves like the second. The upload
needs both approvals, one in full and one in part, or the approval and the
signer's own balance, which are the cases of `useBalanceAndApprovals` and of its refund;
the orders of `arns` need a list with a repeated address, one without the owner, and two
payers, so that a refund meets one approval that changed and one that did not.
`Loads` lets two requests of one order, two deliveries of one payment, two orders, or an
order and a payment meet. Three quotes are one more than the uses of a code. In `pricing`
two uploads exceed the limit of a subsidy and one of three is for another payer; the
additive code is larger than the smallest payment, and the smallest price of a name is
below Stripe's minimum. A migration is repeated, so the fee it inserts twice tells a repetition
from a first run; uploads and quotes do not meet, so one of each suffices.
Amounts are chosen so that the sums of different subsets differ where a property
compares them. `MaxRefunds`, `MaxDeliveries`, `MaxCreates`, `MaxMints`, `Loads` and `Horizon` cap
what the environment may repeat for ever.

`CHECK_DEADLOCK FALSE` is set where these caps let the environment run out of
requests: the system then rests. Symmetry is used for transactions and, in `crypto` and
`promo`, for payments, submissions, runs, users and quotes; no property names one of
them, and the liveness runs use none.

### Fairness

- `FairWebhookSpec`: a handler that can go on does (Node runs the continuation of a
  promise that has settled), and so does a chargeback; Stripe delivers an event that
  was never taken, again and again until there is a free handler. Crashes and errors
  are not fair: they may happen or not. A crash may leave a payment `unanswered`, and the properties say so.
- `FairSpec` of `CryptoPayments`: the queue is filled by a timer, so a run starts
  whenever none is going and a run goes on. Strong fairness of each step of a visit says
  that the gateway, the price service and the database do not fail for ever on the same
  payment; without it nothing could be credited, with any program.

## Proofs

Everything below is checked by TLAPS for every number of quotes, wallets,
transactions, approvals, payments and requests, from the assumptions on the constants
(`LedgerAssumption`, `WebhookAssumption`, `ApprovalAssumption`, `CryptoAssumption`,
`ArNSAssumption`, `PromoAssumption`, `MigrationsAssumption`, `PricingAssumption`, `FeeAssumption`), which
TLC evaluates on every run. They are types, disjointness of ids, and finiteness of the sets that
sums range over (users, orders, approvals, transactions: rows of tables and sessions of a database).

**TopUpProofs**, of the ledger. The inductive invariant is `TypeOK /\ OneTablePerQuote /\
TransactionsHold /\ NoRowNoCredit`. `OneTablePerQuote` alone is not inductive: that
`CommitReceipt` moves a row that is still a quote needs `TransactionsHold` (the
transaction that deleted a row finds it untouched at its commit, since nobody else deleted
it), and that in turn needs the locks. Theorems: `LedgerTyped`, `OneTable`, `RowsHeld`,
`RowBeforeCredit`; `DriftTheorem` (balance and audit log come apart only in a stale
write); `SolventTheorem` (no wallet is overdrawn before the first chargeback);
`Refinement` (every step is a step of `TopUpPromise`, changes nothing there, or is the
chargeback of a gift that takes nothing back); `WalletRefinement` (without gifts, the ledger
implements `TopUpPromise`); `GiftsOutliveChargebacks` (the exception is no accident of an
interleaving: no chargeback ever deletes a gift).

Of the webhook: the handlers take every database step from the ledger, so that by composition
(`WebhookComposed`, a lemma) the theorems above hold below the webhook; `WebhookOneTable` is
such a consequence. `RefundOrCreditTheorem`: credits and a refund of
one payment need a second delivery or a lost answer. Its invariant counts
the handlers of a quote that was delivered once: there is one at most, it still has
the quote to itself, and it reaches the refund only if it did not commit.
`RecordedStaysTheorem`: receipts are never taken back, so what the reader shows was received
(`Behind`), and a handler that sees it does not refund. `WebhookTyped` has the types.

**DelegatedApprovalsProofs.** `ApprovalInv` consists of the types, `NothingOverdrawn`,
what each session may rely on (`SessionOK`: what it listed belongs to the payer and signer
it asked for, what it holds is there and locked, what it will restore is below what was
approved) and that no two sessions hold one row (`Exclusive`). From it: `ApprovalsTyped`,
`NeverOverdrawn`, `OneTableTheorem`, `KeptTheorem`, `FinalTheorem`. `CreditsTheorem`, that nothing but a
trimming from a stale list or balance makes credits, is about the sum of all balances and of what
all approvals have left. For each action it says how each of the sums moves. The commit of a
revocation needs more than `ApprovalInv`: it pays at once what it took from several rows in several
steps, and `Revoking` says that it owes its payer exactly what its locked rows have left.

**CryptoPaymentsProofs.** `CryptoInv` adds to the types what a request or a run may rely
on at each step (`SessionOK`: the row it deleted is still there for the others, the key it
inserted is free, the payment is confirmed, the balance it read is covered by the audit
log, a payment known at the first look is in a table not looked into yet), that no two hold one row or key
(`Exclusive`), and that pending rows carry prices of the service (`Priced`). From it:
`CryptoTyped`, `NoneMissedTheorem`, `LostNotMadeTheorem`, `SecondTableTheorem`,
`CryptoRefinement`.

**ArNSPurchaseProofs.** `ArNSInv` has two halves. For orders: a worker between its receipt
and its end holds a receipt and knows whether the contract served it (`Held`), and no two
workers hold one (`HeldOnce`), because the receipt's primary key lets one worker in. For
quotes: nothing was bought for a quote nobody asked for (`Unasked`), two handlers of one
quote are two deliveries (`Deliveries`), and the only handler of one delivery keeps the
quote until it is settled or failed (`First`). Lemmas say what a worker's step does to the
others (`GoMoves` and its like), and which steps keep each half (`OrderKept`, `QuoteKept`, ...), so
that the proof of an action is to name its lemma. Theorems: `OrdersArePaid`,
`CreditsAreReturned`, `BoughtIsNotRefunded`, `PaymentsAreAnswered`.
A second invariant, `MoneyInv`, carries `ArNSTyped` and `CreditsAreConserved`. What an approval was used
for is what its receipts hold, unless a refund left it behind them (`Approved`); a receipt holds the price of its
order or nothing (`Paid`); what an undo has read is below the grant (`ReadOK`); and one transaction
at a time holds the deletion of a quote (`Settling`), without which a repeated delivery could credit an excess
again. Credits are four sums (balances, what approvals have left, what receipts hold, less the
excesses credited), and each action moves them by amounts that cancel.

**PromoCodesProofs.** The count of uses never falls while a code is tested, since an
adjustment stays with its quote: whoever passed the count was counted below the limit
(`CountedBelow`), and of two payments of a user the later one sees the receipt of the
earlier (`AskedFirst`). Theorems: `TypeCorrect`, `UsesAreLimited`, `UsersRedeemOnce`, and
`LastUseIsLost`: a code is redeemed less often than `max_uses`, never as often.

**MigrationsProofs.** Neither property is inductive: what a backfill may write depends on what
it read, on the release that wrote each row and on the migrations rolled back before. For
uploads (`UploadInv`): a charge that no release wrote behind a backfill is flipped, or in
what `FlipSigns` has read (`Signed`), and has its reservation, or is in what
`BackfillReservations` has read (`Reserved`); until its own migration a charge has no
subsidy, and then one (`Subsidised`). For quotes (`QuoteInv`): the fee on sale has the id of
the last insertion, so that fees of an earlier one, left behind when migration 7 was rolled
back, are out of force (`Rowed`); a promo code shows in `quoted_payment_amount`, where the
backfill looks for it, since no release older than the codes pays such a quote (`Promoted`);
what a backfill has read is still so when it writes (`Pending`). Theorems: `MigrationsTyped`,
`UploadsAreCarried`, `QuotesAreChargedOnce`, for any uploads, quotes and insertions.
`VersionIsThePath`: the schema after any migrations and rollbacks is the one migrated straight to
its version. `Provided` is that schema by recursion; `AsOf(v)` gives it at once, from the
migration that creates each table or column and the one that drops it, and `ProvidedIs` shows by induction that they
agree. A migration leads from `AsOf(n - 1)` to `AsOf(n)` and its rollback back, except that
of migration 13, which PostgreSQL refuses (`StuckAt13`); `PathInv` adds which
catalogs each version has.

**PricingProofs.** A fold over the catalogs is the last of its accumulators, so that what each
catalog keeps, the fold keeps: an answer is a natural number that its adjustments explain
(`ApplyKeeps`, `CryptoKeeps`, `QuoteKeeps`). `PricingTyped` and `PricesExplained` follow. `LimitIsKept`
needs the history of an upload: when it was priced, each subsidy it was given was within
the limit together with all that its address was then shown to have taken (`Limited`). Rows
are those of the price they were reserved for, one per upload and catalog (`Sourced`, `Recorded`), and what
an upload was shown contains what was shown to the uploads in it (`Ordered`). Of
uploads that were all shown to one another one saw all others (`LastExists`), and by its
price the sum is within the limit; the amounts of a subsidy have one sign, so rows outside the
interval only add to what it saw (`WincLowers`). `NamesCostTheSame`: with one fee in force
at a time, the price with the fee is the greatest amount of which the percentage is no more than the price
(`FeeIs`), and the three roundings on the way back are at most a cent and a half and two winc
(`TwoCents`).

**SumsAndFolds.** `SumFunctionOnSet` and `FoldLeft` are iterations that choose an element and take it off
the set. That such a function exists follows by well-founded induction on the subsets of a finite
set; from it, that a sum does not depend on the order, is additive, and changes
by the change of an argument, and that `FoldLeft` has accumulators. Induction is over a set (of the numbers or subsets
of which a fact holds) instead of a predicate, which is how it can be cited.

Only model-checked: the liveness properties (`Answered`, `GiftsAnnounced`, `Settled`),
which are out of the prover's reach. Every invariant and every other property of the passing runs
is stated by a theorem. The counterexample runs are TLC's.

Proofs that failed for a reason corrected two models. `CreditsConserved` once spoke of the sum
alone and excused fewer refunds: an undo from a stale read leaves an approval behind its receipts,
and a later undo of such an approval is cut off at zero (`postgres.ts` 2574-2592), so the exception must
name it (`Behind`). `Fee` was a CASE with overlapping guards, of which TLC evaluated the first
and the semantics allow either; it is an IF, as in the code.

## What the checks found

Two places where the code does something else than its comments, messages or tests say,
each with a counterexample (`findings` in `PROJECT.json`):

1. `createPaymentReceipt` and the other credits write balances computed from
   unlocked reads; overlapping credits of one wallet lose one (`balance_is_audit_total`).
   `DriftOnlyByStaleWrite` shows that nothing else makes balance and audit log differ.
2. `assertCodeEligibility` counts quotes as uses, the quote being paid included
   (`promo_last_use`): the payment that took the last use is captured, refused with a
   message that the code "has already been used the maximum number of times"
   (`database/errors.ts:125`) and refunded, and unpaid quotes use a code up for good.
   `LastUseIsLost` proves it for every limit.

Six more have a property in their module that no run checks; adding it to the cfg of the
module's run (alone) shows the counterexample:

| Property, cfg | What the code does | What is said of it |
|---|---|---|
| `ChargebackDeletesGift`, `MC_TopUpLedger` | the gift branch of `createChargebackReceipt` (`database/postgres.ts:875`) looks for a redeemed gift in `unredeemed_gift` and deletes from it only when that found nothing; no gift is deleted (`GiftsOutliveChargebacks` proves it for every instance), no redeemer debited | `database/postgres.ts:881` "delete the unredeemed gift" |
| `ErrorsHandledInternally`, `MC_StripeWebhook_Live` | an error of the reader in the webhook's catch block (`paymentSuccessEventHandler.ts:74`) leaves the handler | `stripeRoute.ts:65` "Handle errors internally" |
| `RevokedIsFinal`, `MC_DelegatedApprovals` | `refundWincFromOverflowSpend` (`database/postgres.ts:2643`) restores an approval that was revoked after it was read | `database/postgres.ts:1730` "if they are refunded the balance returns to paying user" |
| `PendingEmptied`, `MC_CryptoPayments_Live` | racing submissions (`addPendingPaymentTx.ts:71`) leave a transfer pending and credited, and the job then fails on it for ever | `tests/creditPendingTx.test.ts:93` "expect the transaction to be moved to the credited table" |
| `RollbackUndoes`, `MC_Migrations` | the rollback of migration 13 (`database/migrator.ts:277`) drops columns of another table than the migration added them to, and is refused | `src/README.md:57` "rolls back all migrations" |
| `FeeOfItsTime`, `MC_Migrations` | the backfill of the fee (`database/migration.ts:455`) tests one date twice and never chooses the 23% fee | `database/migration.ts:349` "Applied From Jul 13 - Aug 23" |

Some properties name a step as an exception because the code does in it what the property
excludes everywhere else. They show that nothing else goes wrong, and not that these cases are
harmless; the hazards that are such a case have no property in `PROJECT.json`: a purchase or
a delivery whose step is reported as failed after the contract served it, or that is delivered twice
(`misreported`, `asked` in `ArNSPurchase`), a process lost between a receipt and its purchase
(`abandoned`), a handler that waits for its own lock (`stuck`), a crash inside a trimming
(`KeptButForTrim`, `CreditsOnlyFromStaleTrim`), the chargeback of a gift (`GiftLeft`), and a refund from an approval that moved after it was
read (`StaleUndo`).

Seen while modelling, with no statement in the repository to hold them against:
`checkBalance` sets no status for a price of zero, and counts a payer named twice twice; the
limit of a subsidy is tested for the first payer and recorded under the signer (the
exception in `LimitKept`); the cap of a discount, in the currency of the payment, is
converted as if it were US cents (`pricing.ts:673`).

## Not modelled

- The admin credit tool: `createBypassedPaymentReceipts` is `createPaymentReceipt` without a
  quote, and nothing in the repository says that a redelivered message must not credit
  twice; the hazard is listed.
- Uploads with several paid-by addresses (names with several are in `ArNSPurchase`), and
  audit rows of approvals.
- Repeated refunds of one reservation, which the code pays each time: bounded, not forbidden.
- Lock cycles that PostgreSQL's detector breaks by aborting a transaction: an aborted
  transaction is `Abort`.
- Gateways beyond their answers, request authentication and validation, logging, metrics:
  remote calls or pure functions of a request.
- Winston amounts are integers; the code's BigNumber has the same arithmetic.
- Chain reorganisations after `minConfirmations`.

## Plan

1. `DelegatedApprovals` with a list of several paid-by addresses, which then composes with
   `ArNSPurchase`'s refund, statement by statement.
2. An abstract specification of a name purchase, paid for exactly when bought but for the
   errors `misreported` names, that `ArNSPurchase` implements, with the refinement proved.
3. `AdminCredits`: `addCreditsToAddresses` under redelivery after a partial failure.
4. `PricingProofs` for fees in any fraction; the percentages of `Pricing` are coarser than the code's
   magnitudes (0.766), though no step of a proof needs more than that they are at most one.
