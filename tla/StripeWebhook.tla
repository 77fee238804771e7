---------------------------- MODULE StripeWebhook ----------------------------
(***************************************************************************)
(* POST /stripe-webhook (src/src/routes/stripe): Stripe delivers the event *)
(* of a captured payment at least once, the route answers 200 before it    *)
(* handles it, and the handler moves the quote to a payment receipt in the *)
(* database (TopUpLedger), or refunds the payment through Stripe when that *)
(* fails and the reader database shows no receipt. Disputes charge back.   *)
(*                                                                         *)
(* The database is TopUpLedger: every step of the handlers on it is one of *)
(* its actions.                                                            *)
(***************************************************************************)
EXTENDS TopUpLedger

CONSTANT
  MaxDeliveries    \* bound: deliveries of one event

ASSUME WebhookAssumption == MaxDeliveries \in Nat \ {0}

VARIABLES
  paid,          \* quotes whose payment Stripe captured
  deliveries,    \* deliveries of the success event of each quote
  handler,       \* where the handler that runs transaction t is
  replica,       \* the receipts the reader database shows
  refunded,      \* payments Stripe refunded
  emailed,       \* gifts whose redemption email was sent
  unanswered,    \* quotes with a refund or email refused, or a handler's process lost
  escaped,       \* quotes with a handler whose error nothing caught
  lostAck        \* quotes whose COMMIT took effect but was reported as an error

stripe == <<paid, deliveries, refunded>>
history == <<unanswered, escaped, lostAck>>
webhookVars == <<vars, stripe, handler, replica, emailed, history>>

Stages == {"none", "create", "check", "refund", "email"}

Free == [stage |-> "none", q |-> None]

WebhookInit ==
  /\ Init
  /\ paid = {}
  /\ deliveries = [q \in Quotes |-> 0]
  /\ handler = [t \in Txns |-> Free]
  /\ replica = [payments |-> {}, chargebacks |-> {}]
  /\ refunded = {}
  /\ emailed = {}
  /\ unanswered = {}
  /\ escaped = {}
  /\ lostAck = {}

-----------------------------------------------------------------------------
MoveOnKeepingQuote(t, stage) == handler' = [handler EXCEPT ![t].stage = stage]

MoveOn(t, stage) ==
  handler' = [handler EXCEPT ![t] = IF stage = "none" THEN Free ELSE [@ EXCEPT !.stage = stage]]

InStage(t, stage) == handler[t].stage = stage

\* The session to pay with is returned to the client after the quote is stored.
Offer(q) ==
  /\ CreateTopUpQuote(q) \/ Lapse(q)
  /\ UNCHANGED <<stripe, handler, replica, emailed, history>>

Pay(q) ==
  /\ Known(q)
  /\ paid' = paid \cup {q}
  /\ UNCHANGED <<vars, deliveries, refunded, handler, replica, emailed, history>>

\* stripeRoute: the handler is called and not awaited.
Deliver(t, q) ==
  /\ q \in paid
  /\ deliveries[q] < MaxDeliveries
  /\ InStage(t, "none") /\ tx[t].pc = "idle"
  /\ deliveries' = [deliveries EXCEPT ![q] = @ + 1]
  /\ handler' = [handler EXCEPT ![t] = [stage |-> "create", q |-> q]]
  /\ UNCHANGED <<vars, paid, refunded, replica, emailed, history>>

-----------------------------------------------------------------------------
(* handlePaymentSuccessEvent: createPaymentReceipt ...                     *)

RefuseQuoteSilently(t) ==
  /\ InStage(t, "create") /\ tx[t].pc = "idle"
  /\ handler[t].q \notin topUpQuote \/ handler[t].q \in lapsed
  /\ MoveOn(t, "none")
  /\ UNCHANGED <<vars, stripe, replica, emailed, history>>

\* The quote row is not there, or expired: Error before anything is written.
RefuseQuote(t) ==
  /\ InStage(t, "create") /\ tx[t].pc = "idle"
  /\ handler[t].q \notin topUpQuote \/ handler[t].q \in lapsed
  /\ MoveOn(t, "check")
  /\ UNCHANGED <<vars, stripe, replica, emailed, history>>

StartReceipt(t) ==
  /\ InStage(t, "create")
  /\ ReadQuote(t, handler[t].q)
  /\ UNCHANGED <<stripe, handler, replica, emailed, history>>

\* A statement in the middle; when it ends the transaction, the handler catches.
Statement(t) ==
  /\ InStage(t, "create")
  /\ DeleteQuote(t) \/ ReadDestination(t)
  /\ IF tx'[t].pc = "idle" THEN MoveOn(t, "check") ELSE UNCHANGED handler
  /\ UNCHANGED <<stripe, replica, emailed, history>>

FailReceipt(t) ==
  /\ InStage(t, "create")
  /\ Fail(t) \/ Abort(t)
  /\ MoveOn(t, "check")
  /\ UNCHANGED <<stripe, replica, emailed, history>>

CommitWithoutEmail(t) ==
  /\ InStage(t, "create")
  /\ CommitGift(t) \/ CommitReceipt(t)
  /\ MoveOn(t, "none")
  /\ UNCHANGED <<stripe, replica, emailed, history>>

Commit(t) ==
  /\ InStage(t, "create")
  /\ \/ CommitGift(t)    /\ MoveOn(t, "email")
     \/ CommitReceipt(t) /\ MoveOn(t, "none")
  /\ UNCHANGED <<stripe, replica, emailed, history>>

\* The connection fails between the COMMIT and its answer.
LoseAck(t) ==
  /\ InStage(t, "create")
  /\ CommitGift(t) \/ CommitReceipt(t)
  /\ lostAck' = lostAck \cup {handler[t].q}
  /\ MoveOn(t, "check")
  /\ UNCHANGED <<stripe, replica, emailed, unanswered, escaped>>

-----------------------------------------------------------------------------
(* ... triggerEmail for a gift; on an error the check for an existing      *)
(* payment, and the refund                                                 *)

SendEmail(t) ==
  /\ InStage(t, "email")
  /\ emailed' = emailed \cup {handler[t].q}
  /\ MoveOn(t, "none")
  /\ UNCHANGED <<vars, stripe, replica, history>>

CheckPaymentsOnly(t) ==
  /\ InStage(t, "check")
  /\ MoveOn(t, IF handler[t].q \in replica.payments THEN "none" ELSE "refund")
  /\ UNCHANGED <<vars, stripe, replica, emailed, history>>

\* checkForExistingPaymentByTopUpQuoteId reads the reader database, whose
\* failed_top_up_quote is empty: nothing in the code inserts into it.
CheckExisting(t) ==
  /\ InStage(t, "check")
  /\ MoveOn(t, IF handler[t].q \in replica.payments \cup replica.chargebacks
               THEN "none" ELSE "refund")
  /\ UNCHANGED <<vars, stripe, replica, emailed, history>>

\* A full refund that was already made is refused by Stripe.
RefundPayment(t) ==
  /\ InStage(t, "refund")
  /\ refunded' = refunded \cup {handler[t].q}
  /\ MoveOn(t, "none")
  /\ UNCHANGED <<vars, paid, deliveries, replica, emailed, history>>

GiveUpByChecking(t) ==
  /\ InStage(t, "email") \/ InStage(t, "refund")
  /\ unanswered' = unanswered \cup {handler[t].q}
  /\ MoveOn(t, IF InStage(t, "email") THEN "check" ELSE "none")
  /\ UNCHANGED <<vars, stripe, replica, emailed, escaped, lostAck>>

\* An error of triggerEmail or of refundPayment is logged and dropped.
GiveUp(t) ==
  /\ InStage(t, "email") \/ InStage(t, "refund")
  /\ unanswered' = unanswered \cup {handler[t].q}
  /\ MoveOn(t, "none")
  /\ UNCHANGED <<vars, stripe, replica, emailed, escaped, lostAck>>

\* An error of the check itself leaves the handler: the promise is not awaited,
\* so the rejection ends in the process's uncaughtException counter.
CheckFails(t) ==
  /\ InStage(t, "check")
  /\ escaped' = escaped \cup {handler[t].q}
  /\ MoveOn(t, "none")
  /\ UNCHANGED <<vars, stripe, replica, emailed, unanswered, lostAck>>

\* The process of the handler is lost, and its transaction with it.
Crash(t) ==
  /\ ~InStage(t, "none")
  /\ IF tx[t].pc = "idle" THEN UNCHANGED vars ELSE Abort(t)
  /\ unanswered' = unanswered \cup {handler[t].q}
  /\ MoveOn(t, "none")
  /\ UNCHANGED <<stripe, replica, emailed, escaped, lostAck>>

-----------------------------------------------------------------------------
(* handleDisputeCreatedEvent, and the replication to the reader            *)

StartDispute(t, q) ==
  /\ q \in paid
  /\ InStage(t, "none")
  /\ ReadReceipt(t, q)
  /\ UNCHANGED <<stripe, handler, replica, emailed, history>>

\* Its errors are logged and counted; nothing follows.
Dispute(t) ==
  /\ InStage(t, "none")
  /\ ClawStep(t) \/ Fail(t) \/ Abort(t)
  /\ UNCHANGED <<stripe, handler, replica, emailed, history>>

Replicate ==
  /\ replica' = [payments |-> paymentReceipt, chargebacks |-> chargebackReceipt]
  /\ UNCHANGED <<vars, stripe, handler, emailed, history>>

-----------------------------------------------------------------------------
Handle(t) ==
  \/ RefuseQuote(t) \/ StartReceipt(t) \/ Statement(t) \/ FailReceipt(t) \/ Commit(t)
  \/ LoseAck(t) \/ SendEmail(t) \/ CheckExisting(t) \/ RefundPayment(t) \/ GiveUp(t)
  \/ CheckFails(t)

WebhookNext ==
  \/ \E q \in Quotes : Offer(q) \/ Pay(q)
  \/ \E t \in Txns, q \in Quotes : Deliver(t, q) \/ StartDispute(t, q)
  \/ \E t \in Txns : Handle(t) \/ Crash(t) \/ Dispute(t)
  \/ Replicate

WebhookSpec == WebhookInit /\ [][WebhookNext]_webhookVars

\* Stripe delivers an event until it is taken; a handler and a transaction that
\* run go on; the thread of a delivery is free again and again.
FairWebhookSpec ==
  /\ WebhookSpec
  /\ \A t \in Txns : WF_webhookVars(Handle(t)) /\ WF_webhookVars(Dispute(t))
  /\ \A q \in Quotes : SF_webhookVars(deliveries[q] = 0 /\ \E t \in Txns : Deliver(t, q))

-----------------------------------------------------------------------------
(* Correctness                                                             *)

WebhookTypeOK ==
  /\ TypeOK
  /\ paid \subseteq Quotes
  /\ deliveries \in [Quotes -> 0 .. MaxDeliveries]
  /\ handler \in [Txns -> [stage : Stages, q : Quotes \cup {None}]]
  /\ \A t \in Txns : InStage(t, "none") <=> handler[t].q = None
  /\ replica \in [payments : SUBSET Quotes, chargebacks : SUBSET Quotes]
  /\ refunded \subseteq Quotes
  /\ emailed \subseteq Quotes
  /\ unanswered \subseteq Quotes /\ escaped \subseteq Quotes /\ lostAck \subseteq Quotes

Received == paymentReceipt \cup chargebackReceipt
Running(q) == {t \in Txns : handler[t].q = q}

\* The customer gets both the credits and the money back only when the success
\* event was handled more than once or the answer to a COMMIT was lost.
RefundOrCredit ==
  \A q \in refunded \cap Received : deliveries[q] > 1 \/ q \in lostAck

\* Once the reader shows the receipt of a payment, or the chargeback it became,
\* and no handler has already decided otherwise, no redelivery of the event
\* refunds it any more.
Recorded(q) ==
  /\ q \in replica.payments \cup replica.chargebacks
  /\ \A t \in Running(q) : ~InStage(t, "refund")
RecordedStays == [][\A q \in Quotes : Recorded(q) => Recorded(q)']_webhookVars

\* Every captured payment ends in a receipt or a refund, but where a handler
\* was cut short.
Answered == \A q \in Quotes :
  q \in paid ~> q \in Received \cup refunded \cup unanswered \cup escaped

\* Every gift is announced to its recipient, but where a handler was cut short
\* or took a committed gift for a failed one.
GiftsAnnounced == \A q \in Quotes :
  q \in unredeemedGift ~> q \in emailed \cup unanswered \cup lostAck

\* stripeRoute.ts:63 "Return a 200 response [...] Otherwise, Stripe will keep
\* trying to send the event. Handle errors internally": an event that was taken
\* ends in a receipt or a refund unless Stripe or the process fails.
ErrorsHandledInternally == \A q \in Quotes :
  q \in paid ~> q \in Received \cup refunded \cup unanswered

=============================================================================
