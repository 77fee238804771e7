-------------------------- MODULE ArNSPurchaseProofs --------------------------
(***************************************************************************)
(* Proofs about ArNSPurchase, for any users, names, orders, quotes, loads  *)
(* and workers.                                                            *)
(*                                                                         *)
(* Only one worker at a time holds an order, from its receipt to its end   *)
(* (HeldOnce), and knows whether the contract served it (Held). A quote is *)
(* safe as long as one delivery is all there was (First).                  *)
(*                                                                         *)
(* The second half is about the credits: who pays how much is a fold over  *)
(* the paid-by list, all credits are sums over users, approvals, receipts  *)
(* and quotes, and SumsAndFolds says what both are.                        *)
(***************************************************************************)
EXTENDS ArNSPurchase, SumsAndFolds, TLAPS

OrderStages == {"create", "buy", "note", "undo", "undoWrite"}
QuoteStages == {"load", "send", "take", "settle", "stuck", "fail", "check", "refund"}
Holds(w) == work[w].at \in {"buy", "note", "undo", "undoWrite"}

Shape(r) == r = [at |-> r.at, n |-> r.n, from |-> r.from, isNew |-> r.isNew]

Typed ==
  /\ receipt \subseteq Orders /\ messageId \subseteq Orders /\ refunded \subseteq Quotes
  /\ quote \in [Quotes -> Tables] /\ shown \in [Quotes -> Tables]
  /\ served \in [Nonces -> Nat] /\ asked \in [Nonces -> Nat]
  /\ DOMAIN work = Workers

\* A worker is idle, or serves an order, or a quote.
Placed ==
  \A w \in Workers :
    /\ Shape(work[w])
    /\ \/ work[w].at = "idle" /\ work[w].n = ""
       \/ work[w].at \in OrderStages /\ work[w].n \in Orders
       \/ work[w].at \in QuoteStages /\ work[w].n \in Quotes

Held ==
  \A w \in Workers : Holds(w) =>
    /\ work[w].n \in receipt
    /\ work[w].at = "note" => served[work[w].n] > 0
    /\ work[w].at # "note" /\ served[work[w].n] > 0 => work[w].n \in misreported

HeldOnce ==
  \A v, w \in Workers : Holds(v) /\ Holds(w) /\ work[v].n = work[w].n => v = w

\* Nothing was bought or refunded for a quote nobody asked for.
Unasked ==
  \A q \in Quotes : asked[q] = 0 =>
    served[q] = 0 /\ q \notin refunded /\ quote[q] \in {"none", "quote"} /\ ~Handled(q)

\* Two handlers of a quote are two deliveries.
Deliveries ==
  \A v, w \in Workers : work[v].n \in Quotes /\ work[v].n = work[w].n /\ v # w => asked[work[v].n] > 1

\* The only handler of a quote keeps it until it is settled or failed.
First ==
  \A w \in Workers : LET q == work[w].n IN
    q \in Quotes /\ asked[q] = 1 /\ q \notin misreported =>
      /\ q \notin refunded
      /\ work[w].at \in {"load", "send", "fail", "check", "refund"} => served[q] = 0
      /\ work[w].at \in {"load", "send", "take", "settle", "stuck"} => quote[q] = "quote"

Shown == \A q \in Quotes : shown[q] = "receipt" => quote[q] = "receipt"

OrderInv == Held /\ HeldOnce /\ BoughtIsPaid /\ PaidIsBought
QuoteInv == Unasked /\ Deliveries /\ First /\ Shown /\ RefundedOrBought /\ PaymentsAnswered
ArNSInv == Typed /\ Placed /\ OrderInv /\ QuoteInv

-----------------------------------------------------------------------------
(* At the start nobody works, and nothing was asked for. *)
LEMMA InitArNS == Init => ArNSInv
<1> SUFFICES ASSUME Init PROVE ArNSInv
  OBVIOUS
<1>1. /\ \A w \in Workers : work[w].at = "idle" /\ work[w].n = "" /\ Shape(work[w])
      /\ DOMAIN work = Workers
  BY DEF Init, Free, Shape
<1>2. \A n \in Orders \cup Quotes : served[n] = 0 /\ asked[n] = 0
  BY DEF Init, Nonces
<1>3. \A q \in Quotes : quote[q] = "none" /\ shown[q] = "none" /\ ~Handled(q)
  BY <1>1, ArNSAssumption DEF Init, Handled, Nonces
<1>4. Typed
  BY <1>1 DEF Init, Typed, Tables
<1>5. Placed
  BY <1>1 DEF Placed
<1>6. Held /\ HeldOnce
  BY <1>1 DEF Held, HeldOnce, Holds
<1>7. BoughtIsPaid /\ PaidIsBought
  BY <1>2 DEF Init, BoughtIsPaid, PaidIsBought
<1>8. \A w \in Workers : work[w].n \notin Quotes
  BY <1>1, ArNSAssumption DEF Nonces
<1>9. QuoteInv
  BY <1>2, <1>3, <1>8
  DEF Init, QuoteInv, Unasked, Deliveries, First, Shown, RefundedOrBought, PaymentsAnswered
<1> QED
  BY <1>4, <1>5, <1>6, <1>7, <1>9 DEF ArNSInv, OrderInv

-----------------------------------------------------------------------------
(* What a step does to the worker that takes it: the others stay.          *)

Moved(w, stage) ==
  /\ DOMAIN work' = Workers
  /\ \A v \in Workers : v # w => work'[v] = work[v]
  /\ Shape(work'[w]) /\ work'[w].at = stage
  /\ work'[w].n = IF stage = "idle" THEN "" ELSE work[w].n

LEMMA GoMoves ==
  ASSUME ArNSInv, NEW w \in Workers, NEW stage \in Stages, Go(w, stage)
  PROVE  Moved(w, stage)
<1>1. DOMAIN work = Workers /\ Shape(work[w])
  BY DEF ArNSInv, Typed, Placed
<1>2. CASE stage = "idle"
  <2>1. work' = [work EXCEPT ![w] = Free]
    BY <1>2 DEF Go
  <2> QED
    BY <1>1, <1>2, <2>1 DEF Moved, Shape, Free
<1>3. CASE stage # "idle"
  <2>1. work' = [work EXCEPT ![w] = [work[w] EXCEPT !.at = stage]]
    BY <1>1, <1>3 DEF Go
  <2> QED
    BY <1>1, <1>3, <2>1 DEF Moved, Shape
<1> QED
  BY <1>2, <1>3

LEMMA UndoMoves ==
  ASSUME ArNSInv, NEW w \in Workers, Undo(w)
  PROVE  Moved(w, "undoWrite") /\ At(w, "undo")
<1>1. DOMAIN work = Workers /\ Shape(work[w])
  BY DEF ArNSInv, Typed, Placed
<1>2. PICK seen : work' = [work EXCEPT ![w] = [work[w] EXCEPT !.at = "undoWrite", !.from = seen]]
  BY <1>1 DEF Undo
<1> QED
  BY <1>1, <1>2 DEF Undo, Moved, Shape

LEMMA TakeMoves ==
  ASSUME ArNSInv, NEW w \in Workers, TakeQuote(w)
  PROVE  /\ At(w, "take")
         /\ \/ Moved(w, "fail") /\ quote[work[w].n] # "quote"
            \/ Moved(w, "stuck") \/ Moved(w, "settle")
<1> DEFINE stage == IF quote[work[w].n] # "quote" THEN "fail"
                    ELSE IF age[work[w].n] > 0 THEN "stuck" ELSE "settle"
<1>1. DOMAIN work = Workers /\ Shape(work[w])
  BY DEF ArNSInv, Typed, Placed
<1>2. PICK new : work' = [work EXCEPT ![w] = [work[w] EXCEPT !.at = stage, !.isNew = new]]
  BY <1>1 DEF TakeQuote
<1>3. Moved(w, stage)
  <2>1. stage # "idle"
    OBVIOUS
  <2> HIDE DEF stage
  <2> QED
    BY <1>1, <1>2, <2>1 DEF Moved, Shape
<1> QED
  BY <1>3 DEF TakeQuote

LEMMA RequestMoves ==
  ASSUME ArNSInv, NEW w \in Workers, NEW n \in Nonces, NEW stage \in Stages \ {"idle"},
         work' = [work EXCEPT ![w] = [Free EXCEPT !.at = stage, !.n = n]]
  PROVE  /\ DOMAIN work' = Workers
         /\ \A v \in Workers : v # w => work'[v] = work[v]
         /\ Shape(work'[w]) /\ work'[w].at = stage /\ work'[w].n = n
BY DEF ArNSInv, Typed, Placed, Shape, Free, Stages

(* The two messages to the contract. *)
LEMMA BuyMoves ==
  ASSUME ArNSInv, NEW w \in Workers, Initiate(w)
  PROVE  /\ Serve(work[w].n)
         /\ \/ At(w, "buy") /\ Moved(w, "note")
            \/ At(w, "send") /\ Moved(w, "take")
<1>1. work[w].at \in {"buy", "send"}
  BY DEF Initiate, BuyStages
<1>2. CASE work[w].at = "buy"
  <2>1. Go(w, "note")
    BY <1>2 DEF Initiate, BuyStages
  <2> QED
    BY <1>2, <2>1, GoMoves DEF Initiate, At, Stages
<1>3. CASE work[w].at = "send"
  <2>1. Go(w, "take")
    BY <1>3 DEF Initiate, BuyStages
  <2> QED
    BY <1>3, <2>1, GoMoves DEF Initiate, At, Stages
<1> QED
  BY <1>1, <1>2, <1>3

LEMMA BuyFailsMoves ==
  ASSUME ArNSInv, NEW w \in Workers, InitiateFails(w)
  PROVE  /\ \/ UNCHANGED contract /\ UNCHANGED misreported
            \/ Serve(work[w].n) /\ misreported' = misreported \cup {work[w].n}
         /\ \/ At(w, "buy") /\ Moved(w, "undo")
            \/ At(w, "send") /\ Moved(w, "fail")
<1>1. work[w].at \in {"buy", "send"}
  BY DEF InitiateFails, BuyStages
<1>2. CASE work[w].at = "buy"
  <2>1. Go(w, "undo")
    BY <1>2 DEF InitiateFails, BuyStages
  <2> QED
    BY <1>2, <2>1, GoMoves DEF InitiateFails, At, Stages
<1>3. CASE work[w].at = "send"
  <2>1. Go(w, "fail")
    BY <1>3 DEF InitiateFails, BuyStages
  <2> QED
    BY <1>3, <2>1, GoMoves DEF InitiateFails, At, Stages
<1> QED
  BY <1>1, <1>2, <1>3

-----------------------------------------------------------------------------
(* Orders: a worker that moves on with the same receipts keeps what holds  *)
(* of them, if it does not drop an order, and knows what was served.       *)
LEMMA OrderKept ==
  ASSUME ArNSInv, NEW w \in Workers, NEW stage \in Stages, Moved(w, stage),
         UNCHANGED <<receipt, messageId>>,
         misreported \subseteq misreported', abandoned \subseteq abandoned',
         \A o \in Orders : served'[o] # served[o] =>
           o = work[w].n /\ Holds(w) /\ served'[o] > 0,
         stage \in {"buy", "note", "undo", "undoWrite"} => Holds(w),
         stage = "note" => served'[work[w].n] > 0,
         stage \in {"buy", "undo", "undoWrite"} /\ served'[work[w].n] > 0
           => work[w].n \in misreported',
         work[w].at \in {"buy", "undo", "undoWrite"} =>
           \/ stage \in {"buy", "undo", "undoWrite"} \/ work[w].n \in abandoned'
           \/ served'[work[w].n] > 0
  PROVE  OrderInv'
<1> USE DEF ArNSInv, OrderInv
<1>1. \A v \in Workers : Holds(v) => work[v].n \in Orders
  BY ArNSAssumption DEF Placed, Holds, QuoteStages, OrderStages, Typed, Held
<1> DEFINE Back == {"buy", "undo", "undoWrite"}
<1>a. stage \in Back \cup {"note"} => work'[w].n = work[w].n
  BY DEF Moved
<1>b. \A v \in Workers : Holds(v)' => Holds(v) /\ work'[v].n = work[v].n
  BY <1>a DEF Moved, Holds
<1>2. HeldOnce'
  BY <1>b DEF HeldOnce
<1>3. Held'
  <2> SUFFICES ASSUME NEW v \in Workers, Holds(v)'
               PROVE  /\ work'[v].n \in receipt
                      /\ work'[v].at = "note" => served'[work'[v].n] > 0
                      /\ work'[v].at # "note" /\ served'[work'[v].n] > 0
                           => work'[v].n \in misreported'
    BY DEF Held
  <2>1. CASE v = w
    BY <2>1 DEF Moved, Holds, Held
  <2>2. CASE v # w
    <3>1. work'[v] = work[v] /\ Holds(v)
      BY <2>2 DEF Moved, Holds
    <3>2. served'[work[v].n] = served[work[v].n]
      BY <1>1, <2>2, <3>1 DEF HeldOnce
    <3> QED
      BY <3>1, <3>2 DEF Held
  <2> QED
    BY <2>1, <2>2
<1>4. BoughtIsPaid'
  BY DEF BoughtIsPaid, Held
<1>5. ASSUME NEW o \in Orders, o \in receipt, served'[o] = 0
      PROVE  Underway(o)' \/ o \in abandoned'
  <2>1. served[o] = 0
    BY <1>5
  <2>2. CASE o \in abandoned
    BY <2>2
  <2>3. CASE Underway(o)
    <3>1. PICK v \in Workers : work[v].n = o /\ work[v].at \in {"buy", "undo", "undoWrite"}
      BY <2>3 DEF Underway
    <3>2. CASE v = w
      <4>1. stage \in Back \/ o \in abandoned'
        BY <1>5, <3>1, <3>2
      <4>2. stage \in Back => work'[w].at = stage /\ work'[w].n = o
        BY <1>a, <3>1, <3>2 DEF Moved
      <4> QED
        BY <4>1, <4>2 DEF Underway
    <3>3. CASE v # w
      BY <3>1, <3>3 DEF Moved, Underway
    <3> QED
      BY <3>2, <3>3
  <2> QED
    BY <1>5, <2>1, <2>2, <2>3 DEF PaidIsBought
<1>6. \A o \in messageId : o \in receipt /\ served'[o] > 0
  BY DEF PaidIsBought, Typed
<1>7. PaidIsBought'
  BY <1>5, <1>6 DEF PaidIsBought
<1> QED
  BY <1>2, <1>3, <1>4, <1>7

(* A step that moves no worker. *)
LEMMA OrderIdle ==
  ASSUME ArNSInv, UNCHANGED <<receipt, messageId, served, work, misreported, abandoned>>
  PROVE  OrderInv'
BY DEF ArNSInv, OrderInv, Held, HeldOnce, Holds, BoughtIsPaid, PaidIsBought, Underway

(* A worker that takes a request, or the event of a payment. *)
LEMMA OrderTaken ==
  ASSUME ArNSInv, NEW w \in Workers, NEW n \in Nonces, NEW stage \in {"create", "load"},
         At(w, "idle"), work' = [work EXCEPT ![w] = [Free EXCEPT !.at = stage, !.n = n]],
         UNCHANGED <<receipt, messageId, served, misreported, abandoned>>
  PROVE  OrderInv'
<1>1. /\ \A v \in Workers : v # w => work'[v] = work[v]
      /\ work'[w].at = stage /\ work'[w].n = n
  BY RequestMoves DEF Stages
<1>2. \A v \in Workers : (Holds(v) => v # w) /\ (Holds(v)' => v # w)
  BY <1>1 DEF Holds, At
<1> USE DEF ArNSInv, OrderInv
<1>3. Held' /\ HeldOnce'
  BY <1>1, <1>2 DEF Held, HeldOnce, Holds
<1>4. BoughtIsPaid'
  BY DEF BoughtIsPaid
<1>5. \A o \in Orders : Underway(o) => Underway(o)'
  BY <1>1 DEF Underway, At
<1>6. PaidIsBought'
  BY <1>5 DEF PaidIsBought
<1> QED
  BY <1>3, <1>4, <1>6

(* A receipt is made: its worker goes on, or is told that it failed. *)
LEMMA OrderCreated ==
  ASSUME ArNSInv, NEW w \in Workers, NEW stage \in {"buy", "idle"}, Moved(w, stage),
         At(w, "create"), work[w].n \notin receipt, receipt' = receipt \cup {work[w].n},
         stage = "idle" => work[w].n \in abandoned',
         abandoned \subseteq abandoned', UNCHANGED <<messageId, served, misreported>>
  PROVE  OrderInv'
<1> USE DEF ArNSInv, OrderInv
<1>1. work[w].n \in Orders
  BY DEF Placed, At, QuoteStages, OrderStages
<1>2. \A v \in Workers : Holds(v) => v # w /\ work[v].n # work[w].n
  BY DEF Held, Holds, At
<1>a. \A v \in Workers : v # w => work'[v] = work[v] /\ (Holds(v)' <=> Holds(v))
  BY DEF Moved, Holds
<1>b. Holds(w)' => work'[w].n = work[w].n
  BY DEF Moved, Holds
<1>3. HeldOnce'
  <2> SUFFICES ASSUME NEW u \in Workers, NEW v \in Workers, Holds(u)', Holds(v)',
                      work'[u].n = work'[v].n, u # v
               PROVE  FALSE
    BY DEF HeldOnce
  <2>1. CASE u # w /\ v # w
    BY <1>a, <2>1 DEF HeldOnce
  <2>2. CASE u = w \/ v = w
    BY <1>a, <1>b, <1>2, <2>2
  <2> QED
    BY <2>1, <2>2
<1>4. Held'
  BY <1>1, <1>2 DEF Held, Holds, Moved, BoughtIsPaid
<1>5. BoughtIsPaid'
  BY DEF BoughtIsPaid
<1>6. ASSUME NEW o \in Orders, o = work[w].n
      PROVE  Underway(o)' \/ o \in abandoned'
  BY <1>6 DEF Underway, Moved
<1>7. \A o \in Orders : Underway(o) => Underway(o)'
  BY DEF Underway, Moved, At
<1>c. ASSUME NEW o \in Orders, o \in receipt', served'[o] = 0
      PROVE  Underway(o)' \/ o \in abandoned'
  BY <1>c, <1>6, <1>7 DEF PaidIsBought
<1>8. PaidIsBought'
  <2>1. \A o \in messageId' : o \in receipt' /\ served'[o] > 0
    BY DEF PaidIsBought
  <2> QED
    BY <1>c, <2>1 DEF PaidIsBought
<1> QED
  BY <1>3, <1>4, <1>5, <1>8

(* The receipt of an order that could not be bought is deleted. *)
LEMMA OrderUndone ==
  ASSUME ArNSInv, NEW w \in Workers, UndoWrite(w)
  PROVE  OrderInv'
<1> USE DEF ArNSInv, OrderInv
<1> DEFINE o == work[w].n
<1>1. At(w, "undoWrite") /\ Moved(w, "idle")
  BY GoMoves DEF UndoWrite, Stages
<1>2. /\ receipt' = receipt \ {o} /\ messageId' = messageId \ {o}
      /\ UNCHANGED <<served, misreported, abandoned>>
  BY DEF UndoWrite, outside, contract, history
<1>3. Holds(w) /\ \A v \in Workers : Holds(v) /\ v # w => work[v].n # o
  BY <1>1 DEF HeldOnce, Holds, At
<1>4. HeldOnce'
  BY <1>1 DEF HeldOnce, Holds, Moved
<1>5. Held'
  BY <1>1, <1>2, <1>3 DEF Held, Holds, Moved
<1>6. BoughtIsPaid'
  BY <1>1, <1>2, <1>3 DEF BoughtIsPaid, Held, At
<1>7. \A p \in Orders \ {o} : Underway(p) => Underway(p)'
  BY <1>1 DEF Underway, Moved
<1>8. PaidIsBought'
  BY <1>2, <1>7 DEF PaidIsBought
<1> QED
  BY <1>4, <1>5, <1>6, <1>8

(* The message id is stored. *)
LEMMA OrderNoted ==
  ASSUME ArNSInv, NEW w \in Workers, AddMessageId(w)
  PROVE  OrderInv'
<1> USE DEF ArNSInv, OrderInv
<1>1. At(w, "note") /\ Moved(w, "idle")
  BY GoMoves DEF AddMessageId, Stages
<1>2. messageId' = messageId \cup {work[w].n} /\ UNCHANGED <<receipt, served, misreported, abandoned>>
  BY DEF AddMessageId, outside, contract, history
<1>3. work[w].n \in receipt /\ served[work[w].n] > 0
  BY <1>1 DEF Held, Holds, At
<1>4. HeldOnce' /\ Held'
  BY <1>1, <1>2 DEF HeldOnce, Held, Holds, Moved
<1>5. BoughtIsPaid'
  BY <1>2 DEF BoughtIsPaid
<1>6. \A p \in Orders : Underway(p) => Underway(p)'
  BY <1>1 DEF Underway, Moved, At
<1>7. PaidIsBought'
  BY <1>2, <1>3, <1>6 DEF PaidIsBought
<1> QED
  BY <1>4, <1>5, <1>7

-----------------------------------------------------------------------------
(* Every step keeps what holds of orders. *)
LEMMA OrderStep == ArNSInv /\ [Next]_vars => OrderInv'
<1> SUFFICES ASSUME ArNSInv, [Next]_vars PROVE OrderInv'
  OBVIOUS
<1> DEFINE Same == UNCHANGED <<receipt, messageId>>
<1>a. \A n \in Nonces : served[n] \in Nat
  BY DEF ArNSInv, Typed
<1>b. ASSUME NEW w \in Workers, Holds(w)
      PROVE  work[w].n \in Orders /\ work[w].n \in Nonces
  BY <1>b DEF ArNSInv, Typed, OrderInv, Held, Nonces
<1>c. ASSUME NEW w \in Workers
      PROVE  /\ work[w].n \in Orders => work[w].at \notin QuoteStages
             /\ work[w].n \in Quotes => work[w].at \notin OrderStages
  BY <1>c, ArNSAssumption DEF ArNSInv, Placed, OrderStages, QuoteStages, Nonces
<1>1. CASE UNCHANGED vars
  BY <1>1, OrderIdle DEF vars, ledger, tables, receipts, outside, contract, requests, history
<1>2. ASSUME NEW w \in Workers, Proceed(w) PROVE OrderInv'
  <2>1. CASE CreateReceipt(w)
    <3>1. Moved(w, "buy")
      BY <2>1, GoMoves DEF CreateReceipt, Stages
    <3> QED
      BY <2>1, <3>1, OrderCreated DEF CreateReceipt, outside, contract, history
  <2>2. CASE Initiate(w)
    <3>1. /\ Serve(work[w].n)
          /\ \/ At(w, "buy") /\ Moved(w, "note")
             \/ At(w, "send") /\ Moved(w, "take")
      BY <2>2, BuyMoves
    <3>2. Same /\ UNCHANGED <<misreported, abandoned>>
      BY <2>2 DEF Initiate, tables, receipts, history
    <3>3. CASE At(w, "buy") /\ Moved(w, "note")
      <4>1. Holds(w)
        BY <3>3 DEF At, Holds
      <4>2. /\ \A o \in Orders : served'[o] # served[o] => o = work[w].n /\ served'[o] > 0
            /\ served'[work[w].n] > 0
        BY <1>a, <1>b, <3>1, <4>1 DEF Serve, ArNSInv, Typed, Nonces
      <4> QED
        BY <3>2, <3>3, <4>1, <4>2, OrderKept DEF Stages
    <3>4. CASE At(w, "send") /\ Moved(w, "take")
      <4>1. ~Holds(w) /\ work[w].at \notin {"buy", "undo", "undoWrite"} /\ work[w].n \notin Orders
        BY <1>c, <3>4 DEF At, Holds, QuoteStages
      <4>2. \A o \in Orders : served'[o] = served[o]
        BY <3>1, <4>1 DEF Serve, ArNSInv, Typed, Nonces
      <4> QED
        BY <3>2, <3>4, <4>1, <4>2, OrderKept DEF Stages
    <3> QED
      BY <3>1, <3>3, <3>4
  <2>3. CASE AddMessageId(w)
    BY <2>3, OrderNoted
  <2>4. CASE Undo(w)
    <3>1. Moved(w, "undoWrite") /\ At(w, "undo")
      BY <2>4, UndoMoves
    <3>2. Holds(w)
      BY <3>1 DEF At, Holds
    <3>3. Same /\ UNCHANGED <<served, misreported, abandoned>>
      BY <2>4 DEF Undo, tables, receipts, outside, contract, history
    <3>4. served[work[w].n] > 0 => work[w].n \in misreported
      BY <3>1, <3>2 DEF ArNSInv, OrderInv, Held, At
    <3> QED
      BY <3>1, <3>2, <3>3, <3>4, OrderKept DEF Stages
  <2>5. CASE UndoWrite(w)
    BY <2>5, OrderUndone
  <2>6. CASE OwnerExists(w) \/ Load(w) \/ TakeQuote(w) \/ Settle(w) \/ QuoteFails(w)
              \/ CheckStatus(w) \/ RefundPayment(w)
    <3>1. PICK stage \in Stages : Moved(w, stage) /\ stage \notin {"buy", "note", "undo", "undoWrite"}
      <4>1. CASE TakeQuote(w)
        BY <4>1, TakeMoves DEF Stages
      <4>2. CASE ~TakeQuote(w)
        <5>1. PICK stage \in {"fail", "send", "check", "idle", "refund"} : Go(w, stage)
          BY <2>6, <4>2 DEF OwnerExists, Load, Settle, QuoteFails, CheckStatus, RefundPayment
        <5> QED
          BY <5>1, GoMoves DEF Stages
      <4> QED
        BY <4>1, <4>2
    <3>2. work[w].at \notin {"buy", "undo", "undoWrite"}
      BY <2>6, TakeMoves
      DEF At, OwnerExists, Load, Settle, Credit, QuoteFails, CheckStatus, RefundPayment
    <3>3. Same /\ UNCHANGED <<served, abandoned>> /\ misreported \subseteq misreported'
      BY <2>6 DEF OwnerExists, Load, TakeQuote, Settle, QuoteFails, CheckStatus, RefundPayment,
                  tables, receipts, outside, contract, history
    <3> QED
      BY <3>1, <3>2, <3>3, OrderKept
  <2> QED
    BY <1>2, <2>1, <2>2, <2>3, <2>4, <2>5, <2>6 DEF Proceed
<1>3. ASSUME NEW w \in Workers, Fault(w) PROVE OrderInv'
  <2>1. CASE ReceiptUnacknowledged(w)
    <3>1. Moved(w, "idle")
      BY <2>1, GoMoves DEF ReceiptUnacknowledged, Stages
    <3> QED
      BY <2>1, <3>1, OrderCreated DEF ReceiptUnacknowledged, outside, contract
  <2>2. CASE InitiateFails(w)
    <3>1. /\ \/ UNCHANGED contract /\ UNCHANGED misreported
             \/ Serve(work[w].n) /\ misreported' = misreported \cup {work[w].n}
          /\ \/ At(w, "buy") /\ Moved(w, "undo")
             \/ At(w, "send") /\ Moved(w, "fail")
      BY <2>2, BuyFailsMoves
    <3>2. Same /\ UNCHANGED abandoned /\ misreported \subseteq misreported'
      BY <2>2, <3>1 DEF InitiateFails, tables, receipts
    <3>3. CASE At(w, "buy") /\ Moved(w, "undo")
      <4>1. Holds(w)
        BY <3>3 DEF At, Holds
      <4>2. served[work[w].n] > 0 => work[w].n \in misreported
        BY <3>3, <4>1 DEF ArNSInv, OrderInv, Held, At
      <4>3. /\ \A o \in Orders : served'[o] # served[o] => o = work[w].n /\ served'[o] > 0
            /\ served'[work[w].n] > 0 => work[w].n \in misreported'
        <5>1. CASE UNCHANGED contract /\ UNCHANGED misreported
          BY <4>2, <5>1 DEF contract
        <5>2. CASE Serve(work[w].n) /\ misreported' = misreported \cup {work[w].n}
          BY <1>a, <1>b, <4>1, <5>2 DEF Serve, ArNSInv, Typed, Nonces
        <5> QED
          BY <3>1, <5>1, <5>2
      <4> QED
        BY <3>2, <3>3, <4>1, <4>3, OrderKept DEF Stages
    <3>4. CASE At(w, "send") /\ Moved(w, "fail")
      <4>1. ~Holds(w) /\ work[w].at \notin {"buy", "undo", "undoWrite"} /\ work[w].n \notin Orders
        BY <1>c, <3>4 DEF At, Holds, QuoteStages
      <4>2. \A o \in Orders : served'[o] = served[o]
        BY <3>1, <4>1 DEF Serve, contract, ArNSInv, Typed, Nonces
      <4> QED
        BY <3>2, <3>4, <4>1, <4>2, OrderKept DEF Stages
    <3> QED
      BY <3>1, <3>3, <3>4
  <2>3. CASE AddMessageIdFails(w)
    <3>1. At(w, "note") /\ Moved(w, "undo")
      BY <2>3, GoMoves DEF AddMessageIdFails, Stages
    <3>2. /\ Same /\ UNCHANGED <<served, abandoned>> /\ misreported \subseteq misreported'
          /\ work[w].n \in misreported'
      BY <2>3 DEF AddMessageIdFails, tables, receipts, outside, contract
    <3>3. Holds(w)
      BY <3>1 DEF At, Holds
    <3> QED
      BY <3>1, <3>2, <3>3, OrderKept DEF Stages, At
  <2>4. CASE SettleFails(w)
    <3>1. Moved(w, "fail") /\ work[w].at \in {"take", "settle"}
      BY <2>4, GoMoves DEF SettleFails, Stages
    <3>2. Same /\ UNCHANGED <<served, abandoned>> /\ misreported \subseteq misreported'
      BY <2>4 DEF SettleFails, receipts, outside, contract
    <3> QED
      BY <3>1, <3>2, OrderKept DEF Stages
  <2>5. CASE RejectReceipt(w)
    <3>1. Moved(w, "idle") /\ At(w, "create")
      BY <2>5, GoMoves DEF RejectReceipt, Stages
    <3>2. Same /\ UNCHANGED <<served, misreported, abandoned>>
      BY <2>5 DEF RejectReceipt, tables, receipts, outside, contract, history
    <3> QED
      BY <3>1, <3>2, OrderKept DEF Stages, At
  <2>6. CASE UndoFails(w) \/ GiveUp(w) \/ Crash(w)
    <3>1. Moved(w, "idle")
      BY <2>6, GoMoves DEF UndoFails, GiveUp, Crash, Stages
    <3>2. /\ Same /\ UNCHANGED <<served, misreported>> /\ abandoned \subseteq abandoned'
          /\ work[w].n \in abandoned'
      BY <2>6 DEF UndoFails, GiveUp, Crash, tables, receipts, outside, contract
    <3> QED
      BY <3>1, <3>2, OrderKept DEF Stages
  <2> QED
    BY <1>3, <2>1, <2>2, <2>3, <2>4, <2>5, <2>6 DEF Fault
<1>4. ASSUME NEW w \in Workers, NEW o \in Orders, Request(w, o) PROVE OrderInv'
  BY <1>4, OrderTaken DEF Request, Nonces, tables, receipts, contract, history
<1>5. ASSUME NEW w \in Workers, NEW q \in Quotes, Deliver(w, q) PROVE OrderInv'
  BY <1>5, OrderTaken DEF Deliver, Nonces, tables, receipts, contract, history
<1>6. ASSUME NEW q \in Quotes, CreateQuote(q) \/ Lapse(q) \/ Replicate(q) PROVE OrderInv'
  BY <1>6, OrderIdle DEF CreateQuote, Lapse, Replicate, tables, receipts, contract, history
<1>7. ASSUME NEW p \in Users, NEW s \in Users, Revoke(p, s) PROVE OrderInv'
  BY <1>7, OrderIdle DEF Revoke, tables, receipts, outside, contract, history
<1>8. ASSUME NEW m \in Names, Forget(m) PROVE OrderInv'
  BY <1>8, OrderIdle DEF Forget, tables, receipts, contract, history
<1>9. ASSUME NEW u \in Users, Register(u) PROVE OrderInv'
  BY <1>9, OrderIdle DEF Register, tables, receipts, outside, contract, history
<1> QED
  BY <1>1, <1>2, <1>3, <1>4, <1>5, <1>6, <1>7, <1>8, <1>9 DEF Next

-----------------------------------------------------------------------------
(* Quotes: a worker that moves on keeps what holds of them, if it changes  *)
(* only its own, settles it at most once, and leaves it answered.          *)
LEMMA QuoteKept ==
  ASSUME ArNSInv, NEW w \in Workers, NEW stage \in Stages, Moved(w, stage),
         \/ stage = "idle"
         \/ stage \in OrderStages /\ work[w].at \in OrderStages
         \/ stage \in QuoteStages /\ work[w].at \in QuoteStages,
         UNCHANGED <<asked, shown>>, refunded \subseteq refunded', refunded' \subseteq Quotes,
         misreported \subseteq misreported', abandoned \subseteq abandoned',
         \A q \in Quotes : quote[q] = "receipt" => quote'[q] = "receipt",
         \A q \in Quotes \ {work[w].n} :
           served'[q] = served[q] /\ quote'[q] = quote[q] /\ (q \in refunded' => q \in refunded),
         work[w].n \in Quotes /\ asked[work[w].n] = 1 /\ work[w].n \notin misreported' =>
           /\ work[w].n \in refunded' => stage = "idle" /\ served'[work[w].n] = 0
           /\ stage \in {"load", "send", "fail", "check", "refund"} => served'[work[w].n] = 0
           /\ stage \in {"load", "send", "take", "settle", "stuck"} => quote'[work[w].n] = "quote",
         work[w].n \in Quotes /\ stage = "idle" =>
           \/ quote'[work[w].n] = "receipt"
           \/ work[w].n \in refunded' \/ work[w].n \in abandoned'
  PROVE  Placed' /\ QuoteInv'
<1> DEFINE n == work[w].n
<1> USE DEF ArNSInv, QuoteInv
<1>1. /\ work'[w].n = IF stage = "idle" THEN "" ELSE n
      /\ work'[w].at = stage /\ Shape(work'[w])
      /\ \A v \in Workers : v # w => work'[v] = work[v]
  BY DEF Moved
<1>2. Placed'
  <2>1. \A v \in Workers : Shape(work'[v])
    BY <1>1 DEF Placed, Shape
  <2>2. /\ work[w].at \in OrderStages => n \in Orders
        /\ work[w].at \in QuoteStages => n \in Quotes
    BY DEF Placed, OrderStages, QuoteStages
  <2>3. \/ work'[w].at = "idle" /\ work'[w].n = ""
        \/ work'[w].at \in OrderStages /\ work'[w].n \in Orders
        \/ work'[w].at \in QuoteStages /\ work'[w].n \in Quotes
    BY <1>1, <2>2 DEF OrderStages, QuoteStages
  <2>4. ASSUME NEW v \in Workers, v # w
        PROVE  \/ work'[v].at = "idle" /\ work'[v].n = ""
               \/ work'[v].at \in OrderStages /\ work'[v].n \in Orders
               \/ work'[v].at \in QuoteStages /\ work'[v].n \in Quotes
    <3>1. work'[v] = work[v]
      BY <1>1, <2>4
    <3>2. \/ work[v].at = "idle" /\ work[v].n = ""
          \/ work[v].at \in OrderStages /\ work[v].n \in Orders
          \/ work[v].at \in QuoteStages /\ work[v].n \in Quotes
      BY DEF Placed
    <3> QED
      BY <3>1, <3>2
  <2>5. ASSUME NEW v \in Workers PROVE Shape(work[v])'
    BY <2>1 DEF Shape
  <2> QED
    BY <2>3, <2>4, <2>5 DEF Placed
<1>3. "" \notin Quotes
  BY ArNSAssumption DEF Nonces
<1>4. ASSUME NEW v \in Workers, work'[v].n \in Quotes PROVE work'[v].n = work[v].n
  <2>1. CASE v # w
    BY <1>1, <2>1
  <2>2. CASE v = w
    BY <1>1, <1>3, <1>4, <2>2
  <2> QED
    BY <2>1, <2>2
<1>5. ASSUME NEW q \in Quotes, q # n PROVE Handled(q)' <=> Handled(q)
  BY <1>1, <1>3, <1>5 DEF Handled
<1>6. n \in Quotes => asked[n] \in Nat /\ asked[n] # 0
  BY DEF Unasked, Handled, Typed, Nonces
<1>7. Unasked'
  BY <1>5, <1>6 DEF Unasked
<1>8. Deliveries'
  BY <1>4 DEF Deliveries
<1>9. First'
  <2> SUFFICES ASSUME NEW v \in Workers, work'[v].n \in Quotes, asked[work'[v].n] = 1,
                      work'[v].n \notin misreported'
               PROVE  /\ work'[v].n \notin refunded'
                      /\ work'[v].at \in {"load", "send", "fail", "check", "refund"}
                           => served'[work'[v].n] = 0
                      /\ work'[v].at \in {"load", "send", "take", "settle", "stuck"}
                           => quote'[work'[v].n] = "quote"
    BY DEF First
  <2>1. CASE v = w
    <3>1. stage # "idle" /\ work'[v].n = n
      BY <1>1, <1>3, <2>1
    <3> QED
      BY <1>1, <2>1, <3>1
  <2>2. CASE v # w
    <3>1. work'[v] = work[v]
      BY <1>1, <2>2
    <3>2. work[v].n \in Quotes /\ asked[work[v].n] = 1
      BY <3>1
    <3>3. work[v].n # n
      BY <2>2, <3>2 DEF Deliveries
    <3> QED
      BY <3>1, <3>2, <3>3 DEF First
  <2> QED
    BY <2>1, <2>2
<1>10. Shown'
  BY DEF Shown
<1>11. RefundedOrBought'
  <2> SUFFICES ASSUME NEW q \in Quotes, q \in refunded', served'[q] > 0
               PROVE  asked[q] > 1 \/ q \in misreported'
    BY DEF RefundedOrBought
  <2> QED
    BY <1>6 DEF RefundedOrBought
<1>12. PaymentsAnswered'
  <2> SUFFICES ASSUME NEW q \in Quotes, asked[q] > 0
               PROVE  \/ quote'[q] = "receipt" \/ q \in refunded'
                      \/ q \in abandoned' \/ Handled(q)'
    BY DEF PaymentsAnswered
  <2>1. CASE q = n /\ stage # "idle"
    BY <1>1, <2>1 DEF Handled
  <2>2. CASE q # n
    BY <1>5, <2>2 DEF PaymentsAnswered
  <2> QED
    BY <2>1, <2>2
<1> QED
  BY <1>2, <1>7, <1>8, <1>9, <1>10, <1>11, <1>12

(* A step that moves no worker, and at most stores or shows quotes. *)
LEMMA QuoteIdle ==
  ASSUME ArNSInv, UNCHANGED <<asked, refunded, served, work, misreported, abandoned>>,
         \A q \in Quotes : quote'[q] # quote[q] => quote[q] = "none" /\ quote'[q] = "quote",
         \A q \in Quotes : shown'[q] = "receipt" => quote'[q] = "receipt"
  PROVE  Placed' /\ QuoteInv'
<1> USE DEF ArNSInv, QuoteInv
<1>1. Placed'
  BY DEF Placed, Shape
<1>2. Unasked' /\ Deliveries'
  BY DEF Unasked, Deliveries, Handled
<1>3. First'
  BY DEF First
<1>4. Shown' /\ RefundedOrBought'
  BY DEF Shown, RefundedOrBought
<1>5. PaymentsAnswered'
  BY DEF PaymentsAnswered, Handled
<1> QED
  BY <1>1, <1>2, <1>3, <1>4, <1>5

(* A worker that takes a request, or the event of a payment. *)
LEMMA QuoteTaken ==
  ASSUME ArNSInv, NEW w \in Workers, NEW n \in Nonces, NEW stage \in {"create", "load"},
         stage = "create" => n \in Orders,
         stage = "load" => n \in Quotes /\ quote[n] # "none",
         At(w, "idle"), work' = [work EXCEPT ![w] = [Free EXCEPT !.at = stage, !.n = n]],
         asked' = [asked EXCEPT ![n] = @ + 1],
         UNCHANGED <<served, quote, shown, refunded, misreported, abandoned>>
  PROVE  Placed' /\ QuoteInv'
<1> USE DEF ArNSInv, QuoteInv
<1>1. /\ \A v \in Workers : v # w => work'[v] = work[v]
      /\ Shape(work'[w]) /\ work'[w].at = stage /\ work'[w].n = n
  BY RequestMoves DEF Stages
<1>2. work[w].n = "" /\ work[w].n \notin Quotes
  BY ArNSAssumption DEF Placed, At, OrderStages, QuoteStages, Nonces
<1>3. /\ \A q \in Nonces : asked[q] \in Nat /\ asked'[q] = IF q = n THEN asked[n] + 1 ELSE asked[q]
      /\ Quotes \subseteq Nonces
  BY DEF Typed, Nonces
<1>4. \A q \in Quotes : asked'[q] >= asked[q]
  BY <1>3
<1>5. \A v \in Workers : v # w /\ work[v].n = n /\ n \in Quotes => asked'[n] > 1
  BY <1>3 DEF Unasked, Handled
<1>6. \A q \in Quotes : Handled(q)' <=> Handled(q) \/ q = n
  <2> SUFFICES ASSUME NEW q \in Quotes
               PROVE  (\E v \in Workers : work'[v].n = q) <=> (\E v \in Workers : work[v].n = q) \/ q = n
    BY DEF Handled
  <2>1. ASSUME NEW v \in Workers, work'[v].n = q
        PROVE  (\E u \in Workers : work[u].n = q) \/ q = n
    BY <1>1, <2>1
  <2>2. ASSUME NEW v \in Workers, work[v].n = q PROVE \E u \in Workers : work'[u].n = q
    BY <1>1, <1>2, <2>2
  <2>3. q = n => \E u \in Workers : work'[u].n = q
    BY <1>1
  <2> QED
    BY <2>1, <2>2, <2>3
<1>7. Placed'
  <2>1. ASSUME NEW v \in Workers
        PROVE  /\ Shape(work[v])'
               /\ \/ work'[v].at = "idle" /\ work'[v].n = ""
                  \/ work'[v].at \in OrderStages /\ work'[v].n \in Orders
                  \/ work'[v].at \in QuoteStages /\ work'[v].n \in Quotes
    <3>1. CASE v = w
      BY <1>1, <3>1 DEF Shape, OrderStages, QuoteStages
    <3>2. CASE v # w
      <4>1. work'[v] = work[v]
        BY <1>1, <3>2
      <4>2. /\ Shape(work[v])
            /\ \/ work[v].at = "idle" /\ work[v].n = ""
               \/ work[v].at \in OrderStages /\ work[v].n \in Orders
               \/ work[v].at \in QuoteStages /\ work[v].n \in Quotes
        BY DEF Placed
      <4> QED
        BY <4>1, <4>2 DEF Shape
    <3> QED
      BY <3>1, <3>2
  <2> QED
    BY <2>1 DEF Placed
<1>8. Unasked'
  <2> SUFFICES ASSUME NEW q \in Quotes, asked'[q] = 0
               PROVE  served[q] = 0 /\ q \notin refunded /\ quote[q] \in {"none", "quote"} /\ ~Handled(q)'
    BY DEF Unasked
  <2>1. q # n /\ asked[q] = 0
    BY <1>3
  <2> QED
    BY <1>6, <2>1 DEF Unasked
<1>9. Deliveries'
  <2> SUFFICES ASSUME NEW u \in Workers, NEW v \in Workers, work'[u].n \in Quotes,
                      work'[u].n = work'[v].n, u # v
               PROVE  asked'[work'[u].n] > 1
    BY DEF Deliveries
  <2>1. CASE u # w /\ v # w
    <3>1. work'[u] = work[u] /\ work'[v] = work[v]
      BY <1>1, <2>1
    <3>2. asked[work[u].n] > 1
      BY <3>1 DEF Deliveries
    <3>3. \A q \in Nonces : asked[q] > 1 => asked'[q] > 1
      BY <1>3
    <3> QED
      BY <1>3, <3>1, <3>2, <3>3
  <2>2. CASE u = w \/ v = w
    BY <1>1, <1>5, <2>2
  <2> QED
    BY <2>1, <2>2
<1>10. First'
  <2> SUFFICES ASSUME NEW v \in Workers, work'[v].n \in Quotes, asked'[work'[v].n] = 1,
                      work'[v].n \notin misreported
               PROVE  /\ work'[v].n \notin refunded
                      /\ work'[v].at \in {"load", "send", "fail", "check", "refund"}
                           => served[work'[v].n] = 0
                      /\ work'[v].at \in {"load", "send", "take", "settle", "stuck"}
                           => quote[work'[v].n] = "quote"
    BY DEF First
  <2>1. CASE v = w
    <3>1. stage = "load" /\ n \in Quotes
      BY <1>1, <2>1, ArNSAssumption
    <3>2. asked[n] = 0
      BY <1>1, <1>3, <2>1
    <3> QED
      BY <1>1, <2>1, <3>1, <3>2 DEF Unasked
  <2>2. CASE v # w
    <3>1. work'[v] = work[v]
      BY <1>1, <2>2
    <3>2. work[v].n # n
      BY <1>5, <2>2, <3>1
    <3>3. asked[work[v].n] = 1
      BY <1>3, <3>1, <3>2
    <3> QED
      BY <3>1, <3>3 DEF First
  <2> QED
    BY <2>1, <2>2
<1>11. Shown' /\ RefundedOrBought'
  BY <1>3, <1>4 DEF Shown, RefundedOrBought, Typed
<1>12. PaymentsAnswered'
  <2> SUFFICES ASSUME NEW q \in Quotes, asked'[q] > 0
               PROVE  quote[q] = "receipt" \/ q \in refunded \/ q \in abandoned \/ Handled(q)'
    BY DEF PaymentsAnswered
  <2> QED
    BY <1>3, <1>6 DEF PaymentsAnswered
<1> QED
  BY <1>7, <1>8, <1>9, <1>10, <1>11, <1>12

-----------------------------------------------------------------------------
(* Every step keeps the tables well-typed, and what holds of quotes. *)
LEMMA TypedStep == ArNSInv /\ [Next]_vars => Typed'
<1> SUFFICES ASSUME ArNSInv, [Next]_vars PROVE Typed'
  OBVIOUS
<1> USE DEF ArNSInv, Typed
<1>a. ASSUME NEW w \in Workers
      PROVE  /\ work[w].at \in OrderStages => work[w].n \in Orders
             /\ work[w].at \in QuoteStages => work[w].n \in Quotes
  BY <1>a DEF Placed, OrderStages, QuoteStages
<1>b. ASSUME NEW n, Serve(n) PROVE served' \in [Nonces -> Nat]
  <2>1. served' = [served EXCEPT ![n] = served[n] + 1]
    BY <1>b DEF Serve
  <2>2. n \in Nonces => served[n] + 1 \in Nat
    OBVIOUS
  <2> QED
    BY <2>1, <2>2
<1>c. ASSUME NEW w, NEW stage \in Stages, Go(w, stage) PROVE DOMAIN work' = Workers
  BY <1>c DEF Go
<1>1. CASE UNCHANGED vars
  BY <1>1 DEF vars, ledger, tables, receipts, outside, contract, requests, history
<1>2. ASSUME NEW w \in Workers, Proceed(w) PROVE Typed'
  <2>1. CASE CreateReceipt(w)
    BY <1>a, <1>c, <2>1 DEF CreateReceipt, At, OrderStages, Stages, outside, contract, requests, history
  <2>2. CASE Initiate(w)
    <3>1. DOMAIN work' = Workers
      BY <2>2, BuyMoves DEF Moved
    <3> QED
      BY <1>b, <2>2, <3>1 DEF Initiate, tables, receipts, requests, history
  <2>3. CASE AddMessageId(w)
    BY <1>a, <1>c, <2>3 DEF AddMessageId, At, OrderStages, Stages, outside, contract, requests, history
  <2>4. CASE Undo(w)
    BY <2>4 DEF Undo, tables, receipts, outside, contract, requests, history
  <2>5. CASE UndoWrite(w)
    BY <1>c, <2>5 DEF UndoWrite, Stages, outside, contract, requests, history
  <2>6. CASE Load(w) \/ CheckStatus(w)
    <3>1. DOMAIN work' = Workers
      BY <1>c, <2>6 DEF Load, CheckStatus, Stages
    <3> QED
      BY <2>6, <3>1 DEF Load, CheckStatus, tables, receipts, outside, contract, requests, history
  <2>7. CASE TakeQuote(w)
    BY <2>7 DEF TakeQuote, tables, receipts, outside, contract, requests, history
  <2>8. CASE Settle(w)
    BY <1>c, <2>8 DEF Settle, Credit, Tables, Stages, receipts, outside, contract, requests, history
  <2>9. CASE OwnerExists(w)
    BY <1>c, <2>9 DEF OwnerExists, Stages, tables, receipts, outside, contract, requests
  <2>10. CASE QuoteFails(w)
    <3>1. DOMAIN work' = Workers
      BY <1>c, <2>10 DEF QuoteFails, Stages
    <3>2. quote' \in [Quotes -> Tables]
      BY <2>10 DEF QuoteFails, Tables
    <3> QED
      BY <2>10, <3>1, <3>2 DEF QuoteFails, receipts, outside, contract, requests, history
  <2>11. CASE RefundPayment(w)
    BY <1>a, <1>c, <2>11 DEF RefundPayment, At, QuoteStages, Stages, tables, receipts, contract, requests, history
  <2> QED
    BY <1>2, <2>1, <2>2, <2>3, <2>4, <2>5, <2>6, <2>7, <2>8, <2>9, <2>10, <2>11 DEF Proceed
<1>3. ASSUME NEW w \in Workers, Fault(w) PROVE Typed'
  <2>1. CASE ReceiptUnacknowledged(w)
    BY <1>a, <1>c, <2>1 DEF ReceiptUnacknowledged, At, OrderStages, Stages, outside, contract, requests
  <2>2. CASE InitiateFails(w)
    <3>1. DOMAIN work' = Workers
      BY <2>2, BuyFailsMoves DEF Moved
    <3> QED
      BY <1>b, <2>2, <3>1 DEF InitiateFails, contract, tables, receipts, requests
  <2>3. CASE SettleFails(w)
    <3>1. DOMAIN work' = Workers
      BY <1>c, <2>3 DEF SettleFails, Stages
    <3>2. quote' \in [Quotes -> Tables]
      BY <2>3 DEF SettleFails, Credit, Tables
    <3> QED
      BY <2>3, <3>1, <3>2 DEF SettleFails, receipts, outside, contract, requests
  <2>4. CASE RejectReceipt(w) \/ AddMessageIdFails(w) \/ UndoFails(w) \/ GiveUp(w) \/ Crash(w)
    <3>1. DOMAIN work' = Workers
      BY <1>c, <2>4 DEF RejectReceipt, AddMessageIdFails, UndoFails, GiveUp, Crash, Stages
    <3> QED
      BY <2>4, <3>1 DEF RejectReceipt, AddMessageIdFails, UndoFails, GiveUp, Crash,
                       tables, receipts, outside, contract, requests, history
  <2> QED
    BY <1>3, <2>1, <2>2, <2>3, <2>4 DEF Fault
<1>4. ASSUME NEW w \in Workers, NEW o \in Orders, Request(w, o) PROVE Typed'
  <2>1. asked' \in [Nonces -> Nat]
    BY <1>4 DEF Request, Nonces
  <2> QED
    BY <1>4, <2>1 DEF Request, tables, receipts, contract, history
<1>5. ASSUME NEW w \in Workers, NEW q \in Quotes, Deliver(w, q) PROVE Typed'
  <2>1. asked' \in [Nonces -> Nat]
    BY <1>5 DEF Deliver, Nonces
  <2> QED
    BY <1>5, <2>1 DEF Deliver, tables, receipts, contract, history
<1>6. ASSUME NEW q \in Quotes, CreateQuote(q) \/ Lapse(q) \/ Replicate(q) PROVE Typed'
  <2>1. quote' \in [Quotes -> Tables] /\ shown' \in [Quotes -> Tables]
    BY <1>6 DEF CreateQuote, StoreQuote, Lapse, Replicate, Tables, tables, receipts
  <2> QED
    BY <1>6, <2>1 DEF CreateQuote, Lapse, Replicate, tables, receipts, contract, requests, history
<1>7. ASSUME NEW p \in Users, NEW s \in Users, Revoke(p, s) PROVE Typed'
  BY <1>7 DEF Revoke, tables, receipts, outside, contract, requests, history
<1>8. ASSUME NEW m \in Names, Forget(m) PROVE Typed'
  BY <1>8 DEF Forget, tables, receipts, contract, requests, history
<1>9. ASSUME NEW u \in Users, Register(u) PROVE Typed'
  BY <1>9 DEF Register, tables, receipts, outside, contract, requests, history
<1> QED
  BY <1>1, <1>2, <1>3, <1>4, <1>5, <1>6, <1>7, <1>8, <1>9 DEF Next

LEMMA QuoteStep == ArNSInv /\ [Next]_vars => Placed' /\ QuoteInv'
<1> SUFFICES ASSUME ArNSInv, [Next]_vars PROVE Placed' /\ QuoteInv'
  OBVIOUS
<1>t. Typed'
  BY TypedStep
<1>a. ASSUME NEW w \in Workers
      PROVE  /\ work[w].at \in OrderStages => work[w].n \in Orders /\ work[w].n \notin Quotes
             /\ work[w].at \in QuoteStages => work[w].n \in Quotes
  BY <1>a, ArNSAssumption DEF ArNSInv, Placed, OrderStages, QuoteStages, Nonces
<1>b. ASSUME NEW w \in Workers, work[w].n \in Quotes, asked[work[w].n] = 1,
             work[w].n \notin misreported
      PROVE  /\ work[w].n \notin refunded
             /\ work[w].at \in {"load", "send", "fail", "check", "refund"} => served[work[w].n] = 0
             /\ work[w].at \in {"load", "send", "take", "settle", "stuck"} => quote[work[w].n] = "quote"
  BY <1>b DEF ArNSInv, QuoteInv, First
<1>c. \A q \in Quotes : shown[q] = "receipt" => quote[q] = "receipt"
  BY DEF ArNSInv, QuoteInv, Shown
<1>d. refunded' \subseteq Quotes
  BY <1>t DEF Typed
\* A worker of an order touches no quote.
<1>e. ASSUME NEW w \in Workers, NEW stage \in OrderStages \cup {"idle"}, Moved(w, stage),
             work[w].at \in OrderStages,
             UNCHANGED <<asked, shown, quote, refunded>>,
             \A q \in Quotes : served'[q] = served[q],
             misreported \subseteq misreported', abandoned \subseteq abandoned'
      PROVE  Placed' /\ QuoteInv'
  <2>1. stage \in Stages /\ work[w].n \notin Quotes
    BY <1>a, <1>e DEF OrderStages, Stages
  <2> QED
    BY <1>d, <1>e, <2>1, QuoteKept
\* A worker of a quote goes on, and leaves the quote and the contract as they are.
<1>f. ASSUME NEW w \in Workers, NEW stage \in QuoteStages, Moved(w, stage),
             work[w].at \in QuoteStages,
             UNCHANGED <<asked, shown, quote, served, refunded>>,
             misreported \subseteq misreported', abandoned \subseteq abandoned',
             \/ work[w].n \in misreported'
             \/ work[w].at = "load" /\ stage \in {"send", "check"}
             \/ work[w].at = "take" /\ stage = "fail" /\ quote[work[w].n] # "quote"
             \/ work[w].at = "take" /\ stage \in {"settle", "stuck"}
             \/ work[w].at \in {"check", "fail", "send"} /\ stage \in {"check", "refund", "fail"}
      PROVE  Placed' /\ QuoteInv'
  <2>1. stage \in Stages /\ stage # "idle"
    BY <1>f DEF QuoteStages, Stages
  <2>2. ASSUME work[w].n \in Quotes, asked[work[w].n] = 1, work[w].n \notin misreported'
        PROVE  /\ work[w].n \notin refunded'
               /\ stage \in {"load", "send", "fail", "check", "refund"} => served'[work[w].n] = 0
               /\ stage \in {"load", "send", "take", "settle", "stuck"} => quote'[work[w].n] = "quote"
    BY <1>b, <1>f, <2>2
  <2> QED
    BY <1>d, <1>f, <2>1, <2>2, QuoteKept
\* A worker of a quote gives up.
<1>g. ASSUME NEW w \in Workers, Moved(w, "idle"), work[w].n \in abandoned',
             UNCHANGED <<asked, shown, quote, served, refunded>>,
             misreported \subseteq misreported', abandoned \subseteq abandoned'
      PROVE  Placed' /\ QuoteInv'
  <2>1. work[w].n \in Quotes /\ asked[work[w].n] = 1 /\ work[w].n \notin misreported'
          => work[w].n \notin refunded'
    BY <1>b, <1>g
  <2>2. "idle" \in Stages
    BY DEF Stages
  <2> QED
    BY <1>d, <1>g, <2>1, <2>2, QuoteKept
<1>1. CASE UNCHANGED vars
  BY <1>1, <1>c, QuoteIdle DEF vars, ledger, tables, receipts, outside, contract, requests, history
<1>2. ASSUME NEW w \in Workers, Proceed(w) PROVE Placed' /\ QuoteInv'
  <2>1. CASE CreateReceipt(w)
    <3>1. Moved(w, "buy")
      BY <2>1, GoMoves DEF CreateReceipt, Stages
    <3> QED
      BY <1>e, <2>1, <3>1 DEF CreateReceipt, At, OrderStages, outside, contract, requests, history
  <2>2. CASE Initiate(w)
    <3>1. /\ Serve(work[w].n)
          /\ \/ At(w, "buy") /\ Moved(w, "note")
             \/ At(w, "send") /\ Moved(w, "take")
      BY <2>2, BuyMoves
    <3>2. UNCHANGED <<asked, shown, quote, refunded, misreported, abandoned>>
      BY <2>2 DEF Initiate, tables, requests, history
    <3>3. \A q \in Quotes \ {work[w].n} : served'[q] = served[q]
      BY <3>1 DEF Serve, ArNSInv, Typed, Nonces
    <3>4. CASE At(w, "buy") /\ Moved(w, "note")
      <4>1. work[w].at \in OrderStages
        BY <3>4 DEF At, OrderStages
      <4> QED
        BY <1>a, <1>e, <3>2, <3>3, <3>4, <4>1 DEF OrderStages
    <3>5. CASE At(w, "send") /\ Moved(w, "take")
      <4>1. work[w].at \in QuoteStages /\ "take" \in QuoteStages /\ "take" \in Stages
        BY <3>5 DEF At, QuoteStages, Stages
      <4>2. ASSUME work[w].n \in Quotes, asked[work[w].n] = 1, work[w].n \notin misreported'
            PROVE  work[w].n \notin refunded' /\ quote'[work[w].n] = "quote"
        BY <1>b, <3>2, <3>5, <4>2 DEF At
      <4> QED
        BY <1>d, <3>2, <3>3, <3>5, <4>1, <4>2, QuoteKept
    <3> QED
      BY <3>1, <3>4, <3>5
  <2>3. CASE AddMessageId(w)
    <3>1. Moved(w, "idle")
      BY <2>3, GoMoves DEF AddMessageId, Stages
    <3> QED
      BY <1>e, <2>3, <3>1 DEF AddMessageId, At, OrderStages, outside, contract, requests, history
  <2>4. CASE Undo(w)
    <3>1. Moved(w, "undoWrite") /\ At(w, "undo")
      BY <2>4, UndoMoves
    <3> QED
      BY <1>e, <2>4, <3>1 DEF Undo, At, OrderStages, tables, outside, contract, requests, history
  <2>5. CASE UndoWrite(w)
    <3>1. Moved(w, "idle")
      BY <2>5, GoMoves DEF UndoWrite, Stages
    <3> QED
      BY <1>e, <2>5, <3>1 DEF UndoWrite, At, OrderStages, outside, contract, requests, history
  <2>6. CASE Load(w)
    <3>1. PICK stage \in {"send", "check"} : Go(w, stage)
      BY <2>6 DEF Load
    <3>2. Moved(w, stage)
      BY <3>1, GoMoves DEF Stages
    <3>3. UNCHANGED <<asked, shown, quote, served, refunded, misreported, abandoned>>
      BY <2>6 DEF Load, tables, outside, contract, requests, history
    <3> QED
      BY <1>f, <2>6, <3>2, <3>3 DEF Load, At, QuoteStages
  <2>7. CASE TakeQuote(w)
    <3>1. /\ work[w].at = "take"
          /\ \/ Moved(w, "fail") /\ quote[work[w].n] # "quote"
             \/ Moved(w, "stuck") \/ Moved(w, "settle")
      BY <2>7, TakeMoves DEF At
    <3>2. UNCHANGED <<asked, shown, quote, served, refunded, misreported, abandoned>>
      BY <2>7 DEF TakeQuote, tables, outside, contract, requests, history
    <3>3. PICK stage \in {"fail", "stuck", "settle"} :
            Moved(w, stage) /\ (stage = "fail" => quote[work[w].n] # "quote")
      BY <3>1
    <3> QED
      BY <1>f, <3>1, <3>2, <3>3 DEF QuoteStages
  <2>8. CASE Settle(w)
    <3>1. Moved(w, "idle") /\ work[w].at = "settle"
      BY <2>8, GoMoves DEF Settle, Credit, At, Stages
    <3>2. work[w].n \in Quotes
      BY <1>a, <3>1 DEF QuoteStages
    <3>3. UNCHANGED <<asked, shown, served, refunded, misreported, abandoned>>
      BY <2>8 DEF Settle, outside, contract, requests, history
    <3>4. \A q \in Quotes : quote'[q] = IF q = work[w].n THEN "receipt" ELSE quote[q]
      BY <2>8 DEF Settle, Credit, ArNSInv, Typed
    <3>5. work[w].n \in Quotes /\ asked[work[w].n] = 1 /\ work[w].n \notin misreported'
            => work[w].n \notin refunded'
      BY <1>b, <3>3
    <3> QED
      BY <1>d, <3>1, <3>2, <3>3, <3>4, <3>5, QuoteKept DEF Stages
  <2>9. CASE OwnerExists(w)
    <3>1. Moved(w, "fail") /\ work[w].at = "settle"
      BY <2>9, GoMoves DEF OwnerExists, At, Stages
    <3>2. /\ UNCHANGED <<asked, shown, quote, served, refunded, abandoned>>
          /\ misreported' = misreported \cup {work[w].n}
      BY <2>9 DEF OwnerExists, tables, outside, contract, requests
    <3> QED
      BY <1>f, <3>1, <3>2 DEF QuoteStages
  <2>10. CASE QuoteFails(w)
    <3>1. Moved(w, "check") /\ work[w].at = "fail"
      BY <2>10, GoMoves DEF QuoteFails, At, Stages
    <3>2. UNCHANGED <<asked, shown, served, refunded, misreported, abandoned>>
      BY <2>10 DEF QuoteFails, outside, contract, requests, history
    <3>3. \A q \in Quotes : \/ quote'[q] = quote[q]
                            \/ q = work[w].n /\ quote[q] # "receipt"
      BY <2>10 DEF QuoteFails, ArNSInv, Typed
    <3>4. "check" \in QuoteStages /\ "check" \in Stages /\ work[w].at \in QuoteStages
      BY <3>1 DEF QuoteStages, Stages
    <3>5. ASSUME work[w].n \in Quotes, asked[work[w].n] = 1, work[w].n \notin misreported'
          PROVE  work[w].n \notin refunded' /\ served'[work[w].n] = 0
      BY <1>b, <3>1, <3>2, <3>5
    <3> QED
      BY <1>d, <3>1, <3>2, <3>3, <3>4, <3>5, QuoteKept
  <2>11. CASE CheckStatus(w)
    <3>1. work[w].at = "check" /\ work[w].n \in Quotes
      BY <1>a, <2>11 DEF CheckStatus, At, QuoteStages
    <3>2. UNCHANGED <<asked, shown, quote, served, refunded, misreported, abandoned>>
      BY <2>11 DEF CheckStatus, tables, outside, contract, requests, history
    <3>3. CASE shown[work[w].n] = "receipt"
      <4>1. Moved(w, "idle")
        BY <2>11, <3>3, GoMoves DEF CheckStatus, Stages
      <4>2. quote'[work[w].n] = "receipt"
        BY <1>c, <3>1, <3>2, <3>3
      <4>3. asked[work[w].n] = 1 /\ work[w].n \notin misreported' => work[w].n \notin refunded'
        BY <1>b, <3>1, <3>2
      <4> QED
        BY <1>d, <3>2, <4>1, <4>2, <4>3, QuoteKept DEF Stages
    <3>4. CASE shown[work[w].n] # "receipt"
      <4>1. Moved(w, "refund")
        BY <2>11, <3>4, GoMoves DEF CheckStatus, Stages
      <4> QED
        BY <1>f, <3>1, <3>2, <4>1 DEF QuoteStages
    <3> QED
      BY <3>3, <3>4
  <2>12. CASE RefundPayment(w)
    <3>1. Moved(w, "idle") /\ work[w].at = "refund"
      BY <2>12, GoMoves DEF RefundPayment, At, Stages
    <3>2. /\ UNCHANGED <<asked, shown, quote, served, misreported, abandoned>>
          /\ refunded' = refunded \cup {work[w].n}
      BY <2>12 DEF RefundPayment, tables, contract, requests, history
    <3>3. work[w].n \in Quotes /\ asked[work[w].n] = 1 /\ work[w].n \notin misreported'
            => served'[work[w].n] = 0
      BY <1>b, <3>1, <3>2
    <3> QED
      BY <1>d, <3>1, <3>2, <3>3, QuoteKept DEF Stages
  <2> QED
    BY <1>2, <2>1, <2>2, <2>3, <2>4, <2>5, <2>6, <2>7, <2>8, <2>9, <2>10, <2>11, <2>12 DEF Proceed
<1>3. ASSUME NEW w \in Workers, Fault(w) PROVE Placed' /\ QuoteInv'
  <2>1. CASE ReceiptUnacknowledged(w)
    <3>1. Moved(w, "idle")
      BY <2>1, GoMoves DEF ReceiptUnacknowledged, Stages
    <3> QED
      BY <1>e, <2>1, <3>1 DEF ReceiptUnacknowledged, At, OrderStages, outside, contract, requests
  <2>2. CASE InitiateFails(w)
    <3>1. /\ \/ UNCHANGED contract /\ UNCHANGED misreported
             \/ Serve(work[w].n) /\ misreported' = misreported \cup {work[w].n}
          /\ \/ At(w, "buy") /\ Moved(w, "undo")
             \/ At(w, "send") /\ Moved(w, "fail")
      BY <2>2, BuyFailsMoves
    <3>2. /\ UNCHANGED <<asked, shown, quote, refunded, abandoned>>
          /\ misreported \subseteq misreported'
      BY <2>2, <3>1 DEF InitiateFails, tables, requests
    <3>3. /\ \A q \in Quotes \ {work[w].n} : served'[q] = served[q]
          /\ work[w].n \in misreported' \/ UNCHANGED served
      BY <3>1 DEF Serve, contract, ArNSInv, Typed, Nonces
    <3>4. CASE At(w, "buy") /\ Moved(w, "undo")
      <4>1. work[w].at \in OrderStages
        BY <3>4 DEF At, OrderStages
      <4> QED
        BY <1>a, <1>e, <3>2, <3>3, <3>4, <4>1 DEF OrderStages
    <3>5. CASE At(w, "send") /\ Moved(w, "fail")
      <4>1. work[w].at \in QuoteStages /\ "fail" \in QuoteStages /\ "fail" \in Stages
        BY <3>5 DEF At, QuoteStages, Stages
      <4>2. ASSUME work[w].n \in Quotes, asked[work[w].n] = 1, work[w].n \notin misreported'
            PROVE  work[w].n \notin refunded' /\ served'[work[w].n] = 0
        BY <1>b, <3>2, <3>3, <3>5, <4>2 DEF At
      <4> QED
        BY <1>d, <3>2, <3>3, <3>5, <4>1, <4>2, QuoteKept
    <3> QED
      BY <3>1, <3>4, <3>5
  <2>3. CASE AddMessageIdFails(w)
    <3>1. At(w, "note") /\ Moved(w, "undo")
      BY <2>3, GoMoves DEF AddMessageIdFails, Stages
    <3> QED
      BY <1>e, <2>3, <3>1 DEF AddMessageIdFails, At, OrderStages, tables, outside, contract, requests
  <2>4. CASE SettleFails(w)
    <3>1. Moved(w, "fail") /\ work[w].at \in QuoteStages
      BY <2>4, GoMoves DEF SettleFails, QuoteStages, Stages
    <3>2. /\ UNCHANGED <<asked, shown, served, refunded, abandoned>>
          /\ misreported' = misreported \cup {work[w].n}
      BY <2>4 DEF SettleFails, outside, contract, requests
    <3>3. \A q \in Quotes : \/ quote'[q] = quote[q]
                            \/ q = work[w].n /\ quote'[q] = "receipt"
      BY <2>4 DEF SettleFails, Credit, ArNSInv, Typed
    <3>4. "fail" \in QuoteStages /\ "fail" \in Stages
      BY DEF QuoteStages, Stages
    <3> QED
      BY <1>d, <3>1, <3>2, <3>3, <3>4, QuoteKept
  <2>5. CASE RejectReceipt(w)
    <3>1. Moved(w, "idle") /\ At(w, "create")
      BY <2>5, GoMoves DEF RejectReceipt, Stages
    <3> QED
      BY <1>e, <2>5, <3>1 DEF RejectReceipt, At, OrderStages, tables, outside, contract, requests, history
  <2>6. CASE UndoFails(w) \/ GiveUp(w) \/ Crash(w)
    <3>1. Moved(w, "idle")
      BY <2>6, GoMoves DEF UndoFails, GiveUp, Crash, Stages
    <3>2. /\ UNCHANGED <<asked, shown, quote, served, refunded, misreported>>
          /\ abandoned' = abandoned \cup {work[w].n}
      BY <2>6 DEF UndoFails, GiveUp, Crash, tables, outside, contract, requests
    <3> QED
      BY <1>g, <3>1, <3>2
  <2> QED
    BY <1>3, <2>1, <2>2, <2>3, <2>4, <2>5, <2>6 DEF Fault
<1>4. ASSUME NEW w \in Workers, NEW o \in Orders, Request(w, o) PROVE Placed' /\ QuoteInv'
  BY <1>4, QuoteTaken DEF Request, Nonces, tables, contract, history
<1>5. ASSUME NEW w \in Workers, NEW q \in Quotes, Deliver(w, q) PROVE Placed' /\ QuoteInv'
  BY <1>5, QuoteTaken DEF Deliver, Nonces, tables, contract, history
<1>6. ASSUME NEW q \in Quotes, CreateQuote(q) \/ Lapse(q) \/ Replicate(q) PROVE Placed' /\ QuoteInv'
  <2>1. UNCHANGED <<asked, refunded, served, work, misreported, abandoned>>
    BY <1>6 DEF CreateQuote, Lapse, Replicate, contract, requests, history
  <2>2. \A p \in Quotes : quote'[p] # quote[p] => quote[p] = "none" /\ quote'[p] = "quote"
    BY <1>6 DEF CreateQuote, StoreQuote, Lapse, Replicate, tables, ArNSInv, Typed
  <2>3. \A p \in Quotes : shown'[p] = "receipt" => quote'[p] = "receipt"
    BY <1>6, <1>c, <2>2 DEF CreateQuote, Lapse, Replicate, tables, ArNSInv, Typed
  <2> QED
    BY <2>1, <2>2, <2>3, QuoteIdle
<1>7. ASSUME NEW p \in Users, NEW s \in Users, Revoke(p, s) PROVE Placed' /\ QuoteInv'
  BY <1>7, <1>c, QuoteIdle DEF Revoke, tables, outside, contract, requests, history
<1>8. ASSUME NEW m \in Names, Forget(m) PROVE Placed' /\ QuoteInv'
  BY <1>8, <1>c, QuoteIdle DEF Forget, tables, contract, requests, history
<1>9. ASSUME NEW u \in Users, Register(u) PROVE Placed' /\ QuoteInv'
  BY <1>9, <1>c, QuoteIdle DEF Register, tables, outside, contract, requests, history
<1> QED
  BY <1>1, <1>2, <1>3, <1>4, <1>5, <1>6, <1>7, <1>8, <1>9 DEF Next

-----------------------------------------------------------------------------
(* The invariant, and the theorems. *)
LEMMA ArNSInvariant == Spec => []ArNSInv
<1>1. ArNSInv /\ [Next]_vars => ArNSInv'
  BY OrderStep, TypedStep, QuoteStep DEF ArNSInv
<1> QED
  BY InitArNS, <1>1, PTL DEF Spec

\* An order the contract served is paid for, unless the service was told of an error
\* after the contract served it (initiateArNSPurchase, its catch).
THEOREM OrdersArePaid == Spec => []BoughtIsPaid
<1>1. ArNSInv => BoughtIsPaid
  BY DEF ArNSInv, OrderInv
<1> QED
  BY ArNSInvariant, <1>1, PTL

\* No error path of a purchase with credits forgets what it took, and a message id is
\* stored only of an order that is paid and served.
THEOREM CreditsAreReturned == Spec => []PaidIsBought
<1>1. ArNSInv => PaidIsBought
  BY DEF ArNSInv, OrderInv
<1> QED
  BY ArNSInvariant, <1>1, PTL

\* One delivery of a payment that meets no such error is never refunded once the
\* contract has served it (handleArNSPurchaseQuotePaymentSuccess).
THEOREM BoughtIsNotRefunded == Spec => []RefundedOrBought
<1>1. ArNSInv => RefundedOrBought
  BY DEF ArNSInv, QuoteInv
<1> QED
  BY ArNSInvariant, <1>1, PTL

\* A payment whose handlers are done ended in a name or in a refund, unless one of
\* them was lost or could not refund it.
THEOREM PaymentsAreAnswered == Spec => []PaymentsAnswered
<1>1. ArNSInv => PaymentsAnswered
  BY DEF ArNSInv, QuoteInv
<1> QED
  BY ArNSInvariant, <1>1, PTL

-----------------------------------------------------------------------------
(* What useBalanceAndApprovals takes from whom. *)

\* One address of the paid-by list after the other.
LEMMA DedupeSteps ==
  ASSUME NEW list \in Seq(Users)
  PROVE  \E acc : /\ acc[0] = <<>>
                  /\ \A i \in 1 .. Len(list) :
                       acc[i] = IF list[i] \in ToSet(acc[i - 1]) THEN acc[i - 1]
                                ELSE Append(acc[i - 1], list[i])
                  /\ Dedupe(list) = acc[Len(list)]
<1> DEFINE n == Len(list)
           Keep(seen, u) == IF u \in ToSet(seen) THEN seen ELSE Append(seen, u)
           h == [a \in (1 .. n) \X Seq(Users) |-> Keep(a[2], list[a[1]])]
           Step(g) == [s \in SUBSET (1 .. n) |->
                         IF s = {} THEN <<>> ELSE Keep(g[s \ {Max(s)}], list[Max(s)])]
           it == CHOOSE g : g = Step(g)
<1>1. n \in Nat /\ DOMAIN list = 1 .. n /\ \A i \in 1 .. n : list[i] \in Users
  OBVIOUS
<1>2. h \in [(1 .. n) \X Seq(Users) -> Seq(Users)]
  OBVIOUS
<1>3. \A i \in 1 .. n, v \in Seq(Users) : h[<<i, v>>] = Keep(v, list[i])
  OBVIOUS
<1> HIDE DEF n, h
<1>4. PICK g : LeftFolds(g, n, Seq(Users), <<>>, h)
  <2>1. <<>> \in Seq(Users)
    OBVIOUS
  <2> QED
    BY <1>1, <1>2, <2>1, LeftFoldExists
<1>5. g = Step(g)
  <2>1. ASSUME NEW s \in SUBSET (1 .. n)
        PROVE  g[s] = IF s = {} THEN <<>> ELSE Keep(g[s \ {Max(s)}], list[Max(s)])
    BY <1>1, <1>3, <1>4, MaxIsIn DEF LeftFolds
  <2> QED
    BY <1>4, <2>1 DEF LeftFolds
<1>6. it = Step(it)
  BY <1>5, Zenon
<1>7. Dedupe(list) = it[1 .. n]
  BY <1>1 DEF Dedupe, FoldLeft, MapThenFoldSet
<1> HIDE DEF it
<1> DEFINE acc == [i \in 0 .. n |-> it[1 .. i]]
<1>8. \A s \in SUBSET (1 .. n) :
        it[s] = IF s = {} THEN <<>> ELSE Keep(it[s \ {Max(s)}], list[Max(s)])
  BY <1>6
<1> HIDE DEF Keep
<1>9. acc[0] = <<>>
  <2>1. 1 .. 0 = {} /\ 0 \in 0 .. n
    BY <1>1
  <2> QED
    BY <1>8, <2>1
<1>10. ASSUME NEW i \in 1 .. n PROVE acc[i] = Keep(acc[i - 1], list[i])
  <2>1. i \in 0 .. n /\ i - 1 \in 0 .. n
    BY <1>1
  <2>2. acc[i] = it[1 .. i] /\ acc[i - 1] = it[1 .. (i - 1)]
    BY <2>1
  <2>3. /\ 1 .. i \in SUBSET (1 .. n) /\ 1 .. i # {}
        /\ Max(1 .. i) = i /\ (1 .. i) \ {i} = 1 .. (i - 1)
    BY <1>1, Segment
  <2>4. it[1 .. i] = Keep(it[(1 .. i) \ {Max(1 .. i)}], list[Max(1 .. i)])
    BY <1>8, <2>3
  <2> QED
    BY <2>2, <2>3, <2>4
<1>11. acc[n] = it[1 .. n]
  BY <1>1
<1> QED
  BY <1>7, <1>9, <1>10, <1>11 DEF n, Keep

\* No address is left twice.
LEMMA DedupeDistinct ==
  ASSUME NEW list \in Seq(Users)
  PROVE  /\ Dedupe(list) \in Seq(Users)
         /\ \A i, j \in DOMAIN Dedupe(list) : Dedupe(list)[i] = Dedupe(list)[j] => i = j
<1>1. PICK acc :
        /\ acc[0] = <<>>
        /\ \A i \in 1 .. Len(list) :
             acc[i] = IF list[i] \in ToSet(acc[i - 1]) THEN acc[i - 1]
                      ELSE Append(acc[i - 1], list[i])
        /\ Dedupe(list) = acc[Len(list)]
  BY DedupeSteps
<1> DEFINE OK(s) == s \in Seq(Users) /\ \A i, j \in 1 .. Len(s) : s[i] = s[j] => i = j
           P == {i \in Nat : i =< Len(list) => OK(acc[i])}
<1>2. 0 \in P
  <2>1. OK(<<>>)
    OBVIOUS
  <2> HIDE DEF OK
  <2> QED
    BY <1>1, <2>1
<1>3. ASSUME NEW i \in Nat, i \in P PROVE i + 1 \in P
  <2> SUFFICES ASSUME i + 1 =< Len(list) PROVE OK(acc[i + 1])
    OBVIOUS
  <2>1. OK(acc[i]) /\ i + 1 \in 1 .. Len(list) /\ list[i + 1] \in Users
    BY <1>3
  <2>2. acc[i + 1] = IF list[i + 1] \in ToSet(acc[i]) THEN acc[i] ELSE Append(acc[i], list[i + 1])
    <3>1. (i + 1) - 1 = i
      OBVIOUS
    <3> QED
      BY <1>1, <2>1, <3>1
  <2>3. CASE list[i + 1] \in ToSet(acc[i])
    BY <2>1, <2>2, <2>3
  <2>4. CASE list[i + 1] \notin ToSet(acc[i])
    <3>1. acc[i + 1] = Append(acc[i], list[i + 1])
      BY <2>2, <2>4
    <3>2. \A j \in 1 .. Len(acc[i]) : acc[i][j] # list[i + 1]
      BY <2>1, <2>4 DEF ToSet
    <3> QED
      BY <2>1, <3>1, <3>2
  <2> QED
    BY <2>3, <2>4
<1> HIDE DEF P
<1>4. Len(list) \in P
  BY <1>2, <1>3, NatSetInduction
<1>5. OK(Dedupe(list))
  BY <1>1, <1>4 DEF P
<1> QED
  BY <1>5

TakeFrom(acc, u, s) ==
  LET winc == Min({acc.left, Available(u, s)})
  IN  [left |-> acc.left - winc, spend |-> [acc.spend EXCEPT ![u] = @ + winc]]

Spendings == [left : Nat, spend : [Users -> Nat]]

LEMMA MinOfTwo == \A a, b \in Nat : Min({a, b}) = IF a =< b THEN a ELSE b
<1> SUFFICES ASSUME NEW a \in Nat, NEW b \in Nat PROVE Min({a, b}) = IF a =< b THEN a ELSE b
  OBVIOUS
<1> DEFINE m == IF a =< b THEN a ELSE b
<1>1. m \in {a, b} /\ \A y \in {a, b} : m =< y
  OBVIOUS
<1>2. \A x \in {a, b} : (\A y \in {a, b} : x =< y) => x = m
  OBVIOUS
<1> QED
  BY <1>1, <1>2 DEF Min

LEMMA TakeFromTyped ==
  ASSUME NEW s \in Users, NEW u \in Users, Available(u, s) \in Nat, NEW acc \in Spendings
  PROVE  /\ TakeFrom(acc, u, s) \in Spendings
         /\ \A v \in Users \ {u} : TakeFrom(acc, u, s).spend[v] = acc.spend[v]
         /\ \E winc \in Nat : /\ winc =< Available(u, s)
                              /\ TakeFrom(acc, u, s).spend[u] = acc.spend[u] + winc
                              /\ TakeFrom(acc, u, s).left = acc.left - winc
                              /\ winc =< acc.left
<1> DEFINE winc == Min({acc.left, Available(u, s)})
<1>1. winc \in Nat /\ winc =< acc.left /\ winc =< Available(u, s)
  BY MinOfTwo DEF Spendings
<1> HIDE DEF winc
<1>2. TakeFrom(acc, u, s) = [left |-> acc.left - winc,
                             spend |-> [acc.spend EXCEPT ![u] = acc.spend[u] + winc]]
  BY DEF TakeFrom, winc
<1>3. acc.left - winc \in Nat /\ acc.spend[u] + winc \in Nat
  BY <1>1 DEF Spendings
<1> QED
  BY <1>1, <1>2, <1>3 DEF Spendings

LEMMA ListSpendSteps ==
  ASSUME NEW o \in Orders, \A u \in Users : Available(u, Owner[o]) \in Nat
  PROVE  \E acc :
           /\ acc[0] = [left |-> Price[o], spend |-> NoSpend]
           /\ \A i \in 1 .. Len(Dedupe(PaidBy[o])) :
                acc[i] = TakeFrom(acc[i - 1], Dedupe(PaidBy[o])[i], Owner[o])
           /\ ListSpend(o) = acc[Len(Dedupe(PaidBy[o]))]
<1> DEFINE list == Dedupe(PaidBy[o])
           n == Len(list)
           s == Owner[o]
           base == [left |-> Price[o], spend |-> NoSpend]
           h == [a \in (1 .. n) \X Spendings |-> TakeFrom(a[2], list[a[1]], s)]
           Step(g) == [r \in SUBSET (1 .. n) |->
                         IF r = {} THEN base ELSE TakeFrom(g[r \ {Max(r)}], list[Max(r)], s)]
           it == CHOOSE g : g = Step(g)
<1>1. list \in Seq(Users) /\ s \in Users
  BY ArNSAssumption, DedupeDistinct DEF Nonces
<1> HIDE DEF list
<1>2. n \in Nat /\ DOMAIN list = 1 .. n /\ \A i \in 1 .. n : list[i] \in Users
  BY <1>1
<1>3. \A i \in 1 .. n, v \in Spendings : h[<<i, v>>] = TakeFrom(v, list[i], s)
  OBVIOUS
<1>4. h \in [(1 .. n) \X Spendings -> Spendings]
  <2>1. \A i \in 1 .. n, v \in Spendings : TakeFrom(v, list[i], s) \in Spendings
    BY <1>1, <1>2, TakeFromTyped
  <2> QED
    BY <2>1
<1> HIDE DEF n, h
<1>5. PICK g : LeftFolds(g, n, Spendings, base, h)
  <2>1. base \in Spendings
    BY ArNSAssumption DEF Spendings, NoSpend
  <2> HIDE DEF base
  <2> QED
    BY <1>2, <1>4, <2>1, LeftFoldExists
<1>6. g = Step(g)
  <2> HIDE DEF base
  <2>1. ASSUME NEW r \in SUBSET (1 .. n)
        PROVE  g[r] = IF r = {} THEN base ELSE TakeFrom(g[r \ {Max(r)}], list[Max(r)], s)
    BY <1>2, <1>3, <1>5, MaxIsIn DEF LeftFolds
  <2> QED
    BY <1>5, <2>1 DEF LeftFolds
<1>7. it = Step(it)
  BY <1>6, Zenon
<1>8. ListSpend(o) = it[1 .. n]
  BY <1>2 DEF ListSpend, FoldLeft, MapThenFoldSet, TakeFrom, list
<1> HIDE DEF it, base
<1> DEFINE acc == [i \in 0 .. n |-> it[1 .. i]]
<1>9. \A r \in SUBSET (1 .. n) :
        it[r] = IF r = {} THEN base ELSE TakeFrom(it[r \ {Max(r)}], list[Max(r)], s)
  BY <1>7
<1>10. acc[0] = base
  <2>1. 1 .. 0 = {} /\ 0 \in 0 .. n
    BY <1>2
  <2> QED
    BY <1>9, <2>1
<1>11. ASSUME NEW i \in 1 .. n PROVE acc[i] = TakeFrom(acc[i - 1], list[i], s)
  <2>1. i \in 0 .. n /\ i - 1 \in 0 .. n
    BY <1>2
  <2>2. acc[i] = it[1 .. i] /\ acc[i - 1] = it[1 .. (i - 1)]
    BY <2>1
  <2>3. /\ 1 .. i \in SUBSET (1 .. n) /\ 1 .. i # {}
        /\ Max(1 .. i) = i /\ (1 .. i) \ {i} = 1 .. (i - 1)
    BY <1>2, Segment
  <2>4. it[1 .. i] = TakeFrom(it[(1 .. i) \ {Max(1 .. i)}], list[Max(1 .. i)], s)
    BY <1>9, <2>3
  <2> QED
    BY <2>2, <2>3, <2>4
<1>12. acc[n] = it[1 .. n]
  BY <1>2
<1> QED
  BY <1>8, <1>10, <1>11, <1>12 DEF n, list, base

\* Everyone on the list pays at most what they can, once; nobody else pays.
LEMMA ListSpendBound ==
  ASSUME NEW o \in Orders, \A u \in Users : Available(u, Owner[o]) \in Nat
  PROVE  /\ ListSpend(o) \in Spendings
         /\ \A u \in Users : ListSpend(o).spend[u] =< Available(u, Owner[o])
<1> DEFINE list == Dedupe(PaidBy[o])
           n == Len(list)
           s == Owner[o]
<1>1. /\ list \in Seq(Users) /\ s \in Users
      /\ \A i, j \in DOMAIN list : list[i] = list[j] => i = j
  BY ArNSAssumption, DedupeDistinct DEF Nonces
<1>2. PICK acc : /\ acc[0] = [left |-> Price[o], spend |-> NoSpend]
                 /\ \A i \in 1 .. n : acc[i] = TakeFrom(acc[i - 1], list[i], s)
                 /\ ListSpend(o) = acc[n]
  BY ListSpendSteps
<1> HIDE DEF list
<1> DEFINE Paid(i, u) == \E j \in 1 .. i : list[j] = u
           OK(i) == /\ acc[i] \in Spendings
                    /\ \A u \in Users : /\ acc[i].spend[u] =< Available(u, s)
                                        /\ ~Paid(i, u) => acc[i].spend[u] = 0
           P == {i \in Nat : i =< n => OK(i)}
<1>3. OK(0)
  <2>1. [left |-> Price[o], spend |-> NoSpend] \in Spendings /\ \A u \in Users : NoSpend[u] = 0
    BY ArNSAssumption DEF Spendings, NoSpend
  <2>2. acc[0] \in Spendings /\ acc[0].spend = NoSpend
    BY <1>2, <2>1
  <2> QED
    BY <2>1, <2>2
<1>4. ASSUME NEW i \in Nat, i \in P, i + 1 =< n PROVE OK(i + 1)
  <2> DEFINE u == list[i + 1]
  <2>1. OK(i)
    BY <1>1, <1>4
  <2>2. i + 1 \in 1 .. n /\ u \in Users /\ (i + 1) - 1 = i /\ n \in Nat
    BY <1>1, <1>4
  <2>3. acc[i + 1] = TakeFrom(acc[i], u, s)
    BY <1>2, <2>2
  <2>4. ~Paid(i, u)
    BY <1>1, <2>2
  <2>5. \A v \in Users \ {u} : Paid(i, v) => Paid(i + 1, v)
    OBVIOUS
  <2>6. Paid(i + 1, u)
    OBVIOUS
  <2> HIDE DEF Paid
  <2>7. PICK winc \in Nat : winc =< Available(u, s) /\ acc[i + 1].spend[u] = acc[i].spend[u] + winc
    <3> HIDE DEF u, s
    <3>1. u \in Users /\ s \in Users /\ acc[i] \in Spendings /\ Available(u, s) \in Nat
      BY <1>1, <2>1, <2>2 DEF s
    <3>2. \E winc \in Nat : /\ winc =< Available(u, s)
                            /\ TakeFrom(acc[i], u, s).spend[u] = acc[i].spend[u] + winc
      BY <3>1, TakeFromTyped
    <3> QED
      BY <2>3, <3>2
  <2>8. acc[i + 1] \in Spendings /\ \A v \in Users \ {u} : acc[i + 1].spend[v] = acc[i].spend[v]
    BY <1>1, <2>1, <2>2, <2>3, TakeFromTyped
  <2>9. acc[i + 1].spend[u] =< Available(u, s)
    BY <2>1, <2>2, <2>4, <2>7
  <2> HIDE DEF u
  <2> QED
    BY <2>1, <2>5, <2>6, <2>8, <2>9
<1> HIDE DEF OK
<1>5. Nat \subseteq P
  <2>1. 0 \in P /\ \A i \in Nat : i \in P => i + 1 \in P
    BY <1>3, <1>4
  <2> HIDE DEF P
  <2> QED
    BY <2>1, NatSetInduction
<1>6. n \in Nat
  BY <1>1
<1> HIDE DEF n
<1>7. OK(n)
  BY <1>5, <1>6
<1> QED
  BY <1>2, <1>7 DEF OK

\* ... and so is it with the owner, who pays what the list leaves.
LEMMA SpendBound ==
  ASSUME NEW o \in Orders, \A u \in Users : Available(u, Owner[o]) \in Nat
  PROVE  /\ Spend(o) \in Spendings
         /\ \A u \in Users : Spend(o).spend[u] =< Available(u, Owner[o])
<1> DEFINE s == Owner[o]
           list == ListSpend(o)
<1>1. list \in Spendings /\ \A u \in Users : list.spend[u] =< Available(u, s)
  BY ListSpendBound
<1>2. s \in Users /\ Available(s, s) = balance[s]
  BY ArNSAssumption DEF Nonces, Available
<1> HIDE DEF list, s
<1>3. Spend(o) = IF list.spend[s] = 0 /\ balance[s] >= list.left
                 THEN [left |-> 0, spend |-> [list.spend EXCEPT ![s] = list.left]]
                 ELSE list
  BY DEF Spend, list, s
<1>4. CASE list.spend[s] = 0 /\ balance[s] >= list.left
  BY <1>1, <1>2, <1>3, <1>4 DEF Spendings, s
<1>5. CASE ~(list.spend[s] = 0 /\ balance[s] >= list.left)
  BY <1>1, <1>3, <1>5 DEF s
<1> QED
  BY <1>4, <1>5

-----------------------------------------------------------------------------
(* Who has how much: used approvals are used up, nobody uses more than was *)
(* granted, and what an approval paid is on a receipt.                     *)
Approved ==
  \A p, s \in Users :
    /\ approval[p][s].used =< Grant[p][s]
    /\ approval[p][s].status = "none" <=> Grant[p][s] = 0
    /\ approval[p][s].status = "used" => approval[p][s].used = Grant[p][s]

Paid ==
  \A o \in Orders :
    /\ o \notin receipt => spent[o] = NoSpend
    /\ \A p \in Users \ {Owner[o]} : spent[o][p] > 0 => Grant[p][Owner[o]] > 0

MoneyTyped ==
  /\ balance \in [Users -> Nat]
  /\ approval \in [Users -> [Users -> Approvals]]
  /\ spent \in [Orders -> [Users -> Nat]]

Money == MoneyTyped /\ Approved /\ Paid

Lefts == [x \in Users \X Users |-> Left(x[1], x[2])]
Helds == [o \in Orders |-> SumFunctionOnSet(spent[o], Users)]
Excesses == [q \in Quotes |-> IF quote[q] = "receipt" THEN Excess[q] ELSE 0]
Spents(p, s) == [o \in Orders |-> IF Owner[o] = s THEN spent[o][p] ELSE 0]

LEMMA CreditsAre ==
  ASSUME MoneyTyped, MoneyTyped'
  PROVE  /\ Credits = SumFunctionOnSet(balance, Users) + SumFunctionOnSet(Lefts, Users \X Users)
                      + SumFunctionOnSet(Helds, Orders) - SumFunctionOnSet(Excesses, Quotes)
         /\ Credits' = SumFunctionOnSet(balance', Users) + SumFunctionOnSet(Lefts', Users \X Users)
                      + SumFunctionOnSet(Helds', Orders) - SumFunctionOnSet(Excesses', Quotes)
<1>1. /\ DOMAIN balance = Users /\ \A o \in Orders : DOMAIN spent[o] = Users
      /\ DOMAIN balance' = Users /\ \A o \in Orders : DOMAIN spent'[o] = Users
  BY DEF MoneyTyped
<1>2. Helds = [o \in Orders |-> SumFunction(spent[o])]
  BY <1>1 DEF Helds, SumFunction
<1>3. Helds' = [o \in Orders |-> SumFunction(spent'[o])]
  BY <1>1 DEF Helds, SumFunction
<1>4. /\ DOMAIN Lefts = Users \X Users /\ DOMAIN Helds = Orders /\ DOMAIN Excesses = Quotes
      /\ DOMAIN Lefts' = Users \X Users /\ DOMAIN Helds' = Orders /\ DOMAIN Excesses' = Quotes
  BY DEF Lefts, Helds, Excesses
<1>5. Credits = SumFunction(balance) + SumFunction(Lefts) + SumFunction(Helds) - SumFunction(Excesses)
  BY <1>2, Zenon DEF Credits, Lefts, Excesses
<1>6. Credits' = SumFunction(balance') + SumFunction(Lefts') + SumFunction(Helds') - SumFunction(Excesses')
  BY <1>3, Zenon DEF Credits, Lefts, Excesses
<1> QED
  BY <1>1, <1>4, <1>5, <1>6 DEF SumFunction

LEMMA FiniteUsers == /\ IsFiniteSet(Users) /\ IsFiniteSet(Users \X Users)
                     /\ IsFiniteSet(Orders) /\ IsFiniteSet(Quotes)
<1>1. IsFiniteSet(Users) /\ IsFiniteSet(Nonces)
  BY ArNSAssumption
<1>2. Orders \subseteq Nonces /\ Quotes \subseteq Nonces
  BY DEF Nonces
<1> QED
  BY <1>1, <1>2, FS_Subset, FS_Product

LEMMA LeftInt ==
  ASSUME Money, NEW p \in Users, NEW s \in Users
  PROVE  Left(p, s) \in Int
<1>1. Grant[p][s] \in Nat
  <2>1. Grant \in [Users -> [Users -> Nat]]
    BY ArNSAssumption, Zenon
  <2> QED
    BY <2>1
<1>2. approval[p][s] \in Approvals
  BY DEF Money, MoneyTyped
<1>3. approval[p][s].used \in Nat
  BY <1>2 DEF Approvals
<1> QED
  BY <1>1, <1>3 DEF Left

LEMMA SumsTyped ==
  ASSUME Money
  PROVE  /\ SumFunctionOnSet(balance, Users) \in Int
         /\ SumFunctionOnSet(Lefts, Users \X Users) \in Int
         /\ SumFunctionOnSet(Helds, Orders) \in Int
         /\ SumFunctionOnSet(Excesses, Quotes) \in Int
<1>1. \A u \in Users : balance[u] \in Int
  BY DEF Money, MoneyTyped
<1>2. \A x \in Users \X Users : Lefts[x] \in Int
  BY LeftInt DEF Lefts
<1>3. \A o \in Orders : Helds[o] \in Int
  <2> SUFFICES ASSUME NEW o \in Orders PROVE SumFunctionOnSet(spent[o], Users) \in Int
    BY DEF Helds
  <2>1. \A u \in Users : spent[o][u] \in Int
    BY DEF Money, MoneyTyped
  <2> QED
    BY <2>1, FiniteUsers, SumType
<1>4. \A q \in Quotes : Excesses[q] \in Int
  <2>1. Excess \in [Quotes -> Nat]
    BY ArNSAssumption, Zenon
  <2> QED
    BY <2>1 DEF Excesses
<1>5. SumFunctionOnSet(balance, Users) \in Int
  BY <1>1, FiniteUsers, SumType
<1>6. SumFunctionOnSet(Lefts, Users \X Users) \in Int
  BY <1>2, FiniteUsers, SumType
<1>7. SumFunctionOnSet(Helds, Orders) \in Int
  BY <1>3, FiniteUsers, SumType
<1>8. SumFunctionOnSet(Excesses, Quotes) \in Int
  BY <1>4, FiniteUsers, SumType
<1> QED
  BY <1>5, <1>6, <1>7, <1>8

\* The four sums of Credits change by amounts that cancel.
LEMMA CreditsKept ==
  ASSUME Money, MoneyTyped', NEW b \in Int, NEW l \in Int, NEW h \in Int, NEW x \in Int,
         (b + l) + h = x,
         SumFunctionOnSet(balance', Users) = SumFunctionOnSet(balance, Users) + b,
         SumFunctionOnSet(Lefts', Users \X Users) = SumFunctionOnSet(Lefts, Users \X Users) + l,
         SumFunctionOnSet(Helds', Orders) = SumFunctionOnSet(Helds, Orders) + h,
         SumFunctionOnSet(Excesses', Quotes) = SumFunctionOnSet(Excesses, Quotes) + x
  PROVE  Credits' = Credits
<1>1. \A B, L, H, X \in Int : (B + b) + (L + l) + (H + h) - (X + x) = B + L + H - X
  OBVIOUS
<1>2. MoneyTyped
  BY DEF Money
<1> QED
  BY <1>1, <1>2, SumsTyped, CreditsAre

\* What approvals say is left, when those of one owner change.
LEMMA LeftsChange ==
  ASSUME Money, NEW s \in Users, NEW d, \A p \in Users : d[p] \in Int,
         \A p, t \in Users : Left(p, t)' = Left(p, t) + IF t = s THEN d[p] ELSE 0
  PROVE  SumFunctionOnSet(Lefts', Users \X Users)
           = SumFunctionOnSet(Lefts, Users \X Users) + SumFunctionOnSet(d, Users)
<1>1. \A p, t \in Users : Lefts[<<p, t>>] = Left(p, t) /\ Lefts[<<p, t>>] \in Int
  BY LeftInt DEF Lefts
<1>2. \A p, t \in Users : Lefts'[<<p, t>>] = Left(p, t)'
  BY DEF Lefts
<1>3. \A p, t \in Users : Lefts'[<<p, t>>] = Lefts[<<p, t>>] + IF t = s THEN d[p] ELSE 0
  BY <1>1, <1>2
<1>4. IsFiniteSet(Users)
  BY FiniteUsers
<1> HIDE DEF Lefts
<1> QED
  BY <1>1, <1>3, <1>4, SumColumn

\* One user's balance changes.
LEMMA BalanceChanges ==
  ASSUME MoneyTyped, NEW u \in Users, NEW d \in Int,
         balance' = [balance EXCEPT ![u] = balance[u] + d]
  PROVE  SumFunctionOnSet(balance', Users) = SumFunctionOnSet(balance, Users) + d
<1>1. DOMAIN balance = Users /\ \A v \in Users : balance[v] \in Int
  BY DEF MoneyTyped
<1> QED
  BY <1>1, FiniteUsers, SumExcept

\* What an order's payers spent changes.
LEMMA SpentChanges ==
  ASSUME MoneyTyped, NEW o \in Orders, NEW e \in [Users -> Nat],
         spent' = [spent EXCEPT ![o] = e]
  PROVE  /\ SumFunctionOnSet(Helds', Orders) = SumFunctionOnSet(Helds, Orders)
              + (SumFunctionOnSet(e, Users) - SumFunctionOnSet(spent[o], Users))
         /\ \A p, s \in Users :
              SumFunctionOnSet(Spents(p, s)', Orders) = SumFunctionOnSet(Spents(p, s), Orders)
                + IF s = Owner[o] THEN e[p] - spent[o][p] ELSE 0
<1>1. ASSUME NEW g \in [Users -> Nat] PROVE SumFunctionOnSet(g, Users) \in Int
  <2>1. \A u \in Users : g[u] \in Int
    OBVIOUS
  <2> QED
    BY <2>1, FiniteUsers, SumType
<1>2. \A q \in Orders : /\ spent[q] \in [Users -> Nat] /\ spent'[q] \in [Users -> Nat]
                        /\ spent'[q] = IF q = o THEN e ELSE spent[q]
  BY DEF MoneyTyped
<1>3. SumFunctionOnSet(Helds', Orders) = SumFunctionOnSet(Helds, Orders) + (Helds'[o] - Helds[o])
  <2>1. \A q \in Orders : Helds[q] \in Int /\ Helds'[q] \in Int
    BY <1>1, <1>2 DEF Helds
  <2>2. \A q \in Orders : q # o => Helds'[q] = Helds[q]
    BY <1>2 DEF Helds
  <2> QED
    BY <2>1, <2>2, FiniteUsers, SumChanged
<1>4. Helds'[o] = SumFunctionOnSet(e, Users) /\ Helds[o] = SumFunctionOnSet(spent[o], Users)
  BY <1>2 DEF Helds
<1>5. ASSUME NEW p \in Users, NEW s \in Users
      PROVE  SumFunctionOnSet(Spents(p, s)', Orders) = SumFunctionOnSet(Spents(p, s), Orders)
                + IF s = Owner[o] THEN e[p] - spent[o][p] ELSE 0
  <2>1. \A q \in Orders : /\ Spents(p, s)[q] \in Int /\ Spents(p, s)'[q] \in Int
                          /\ Spents(p, s)[q] = IF Owner[q] = s THEN spent[q][p] ELSE 0
                          /\ Spents(p, s)'[q] = IF Owner[q] = s THEN spent'[q][p] ELSE 0
    BY <1>2 DEF Spents
  <2>2. \A q \in Orders : q # o => Spents(p, s)'[q] = Spents(p, s)[q]
    BY <1>2, <2>1
  <2>3. Spents(p, s)'[o] - Spents(p, s)[o] = IF s = Owner[o] THEN e[p] - spent[o][p] ELSE 0
    BY <1>2, <2>1
  <2>4. SumFunctionOnSet(Spents(p, s)', Orders) = SumFunctionOnSet(Spents(p, s), Orders)
          + (Spents(p, s)'[o] - Spents(p, s)[o])
    BY <2>1, <2>2, FiniteUsers, SumChanged
  <2> QED
    BY <2>3, <2>4
<1> QED
  BY <1>3, <1>4, <1>5

-----------------------------------------------------------------------------
(* What the steps that move credits do with them.                          *)

CreditsStay ==
  /\ Credits' = Credits
  /\ \A p, s \in Users : Behind(p, s)' => Behind(p, s)

LEMMA BehindIs ==
  ASSUME NEW p \in Users, NEW s \in Users
  PROVE  /\ Behind(p, s) <=> /\ approval[p][s].status # "none"
                             /\ approval[p][s].used < SumFunctionOnSet(Spents(p, s), Orders)
         /\ Behind(p, s)' <=> /\ approval'[p][s].status # "none"
                              /\ approval'[p][s].used < SumFunctionOnSet(Spents(p, s)', Orders)
<1>1. DOMAIN Spents(p, s) = Orders /\ DOMAIN Spents(p, s)' = Orders
  BY DEF Spents
<1>2. Behind(p, s) <=> /\ approval[p][s].status # "none"
                       /\ approval[p][s].used < SumFunction(Spents(p, s))
  BY Zenon DEF Behind, Spents
<1>3. Behind(p, s)' <=> /\ approval'[p][s].status # "none"
                        /\ approval'[p][s].used < SumFunction(Spents(p, s)')
  BY Zenon DEF Behind, Spents
<1> QED
  BY <1>1, <1>2, <1>3 DEF SumFunction

LEMMA GrantTyped ==
  /\ \A p, s \in Users : Grant[p][s] \in Nat
  /\ \A u \in Users : Grant[u][u] = 0
  /\ \A o \in Orders : Owner[o] \in Users
  /\ \A q \in Quotes : Owner[q] \in Users /\ Excess[q] \in Nat
<1>1. Grant \in [Users -> [Users -> Nat]] /\ Excess \in [Quotes -> Nat]
  BY ArNSAssumption, Zenon
<1>2. (\A u \in Users : Grant[u][u] = 0) /\ Owner \in [Nonces -> Users]
  BY ArNSAssumption, Zenon
<1> QED
  BY <1>1, <1>2 DEF Nonces

LEMMA AvailableIs ==
  ASSUME Money, NEW s \in Users, NEW u \in Users
  PROVE  /\ Available(u, s) \in Nat
         /\ u = s => Available(u, s) = balance[s]
         /\ u # s /\ Available(u, s) > 0 =>
              /\ approval[u][s].status = "active"
              /\ Available(u, s) = Grant[u][s] - approval[u][s].used
<1>1. approval[u][s] \in Approvals /\ approval[u][s].used =< Grant[u][s] /\ balance[s] \in Nat
  BY DEF Money, MoneyTyped, Approved
<1>2. approval[u][s].used \in Nat /\ Grant[u][s] \in Nat
  BY <1>1, GrantTyped DEF Approvals
<1> QED
  BY <1>1, <1>2 DEF Available

\* A receipt is made: its payers are charged what it says they spent.
LEMMA ChargeKeeps ==
  ASSUME Money, NEW o \in Orders, o \notin receipt, Charge(Owner[o], Spend(o).spend),
         receipt' = receipt \cup {o}, spent' = [spent EXCEPT ![o] = Spend(o).spend],
         UNCHANGED quote
  PROVE  Money' /\ CreditsStay
<1> DEFINE s == Owner[o]
           e == Spend(o).spend
           back == [p \in Users |-> IF p = s THEN 0 ELSE -e[p]]
<1>1. s \in Users
  BY GrantTyped
<1>2. e \in [Users -> Nat] /\ \A u \in Users : e[u] =< Available(u, s)
  BY <1>1, AvailableIs, SpendBound DEF Spendings
<1> HIDE DEF e
<1>3. /\ e[s] \in Nat /\ e[s] =< balance[s] /\ balance[s] \in Nat
      /\ balance' = [balance EXCEPT ![s] = balance[s] - e[s]]
  BY <1>1, <1>2, AvailableIs DEF Charge, Money, MoneyTyped, e
<1> HIDE DEF s
<1>4. ASSUME NEW p \in Users, p # s, e[p] > 0
      PROVE  /\ approval[p][s].status = "active" /\ e[p] =< Grant[p][s] - approval[p][s].used
             /\ approval'[p][s] = [status |-> IF approval[p][s].used + e[p] = Grant[p][s]
                                              THEN "used" ELSE "active",
                                   used |-> approval[p][s].used + e[p]]
  <2>1. Available(p, s) \in Nat /\ e[p] \in Nat /\ e[p] =< Available(p, s)
    BY <1>1, <1>2, AvailableIs
  <2>2. Available(p, s) > 0
    BY <1>4, <2>1
  <2>3. approval[p] \in [Users -> Approvals]
    BY DEF Money, MoneyTyped
  <2> QED
    BY <1>1, <1>4, <2>1, <2>2, <2>3, AvailableIs DEF Charge, s, e
<1>5. ASSUME NEW p \in Users, NEW t \in Users, t # s \/ p = s \/ e[p] = 0
      PROVE  approval'[p][t] = approval[p][t]
  BY <1>1, <1>5 DEF Charge, s, e, Money, MoneyTyped
<1>6. approval' \in [Users -> [Users -> Approvals]]
  <2>1. ASSUME NEW p \in Users
        PROVE  approval'[p] \in [Users -> Approvals]
    <3>1. DOMAIN approval'[p] = Users /\ approval'[p] = [t \in Users |-> approval'[p][t]]
      BY DEF Charge, Money, MoneyTyped
    <3>2. ASSUME NEW t \in Users PROVE approval'[p][t] \in Approvals
      <4>1. approval[p][t] \in Approvals /\ e[p] \in Nat
        BY <1>2 DEF Money, MoneyTyped
      <4>2. approval[p][t].used \in Nat
        BY <4>1 DEF Approvals
      <4>3. CASE t = s /\ p # s /\ e[p] > 0
        <5>1. PICK status \in {"used", "active"} :
                approval'[p][s] = [status |-> status, used |-> approval[p][s].used + e[p]]
          BY <1>4, <4>3
        <5>2. approval[p][s].used + e[p] \in Nat
          BY <4>1, <4>2, <4>3
        <5> QED
          BY <4>3, <5>1, <5>2 DEF Approvals
      <4>4. CASE ~(t = s /\ p # s /\ e[p] > 0)
        BY <1>5, <4>1, <4>4
      <4> QED
        BY <4>3, <4>4
    <3> QED
      BY <3>1, <3>2
  <2>2. DOMAIN approval' = Users /\ approval' = [p \in Users |-> approval'[p]]
    BY DEF Charge
  <2> QED
    BY <2>1, <2>2
<1>7. MoneyTyped'
  <2>1. balance' \in [Users -> Nat]
    BY <1>1, <1>3 DEF Money, MoneyTyped
  <2>2. spent' \in [Orders -> [Users -> Nat]]
    BY <1>2 DEF Money, MoneyTyped, e
  <2> QED
    BY <1>6, <2>1, <2>2 DEF MoneyTyped
<1>8. ASSUME NEW p \in Users, NEW t \in Users
      PROVE  /\ approval'[p][t].used =< Grant[p][t]
             /\ approval'[p][t].status = "none" <=> Grant[p][t] = 0
             /\ approval'[p][t].status = "used" => approval'[p][t].used = Grant[p][t]
             /\ approval'[p][t].used = approval[p][t].used
                  + IF t = s /\ p # s THEN e[p] ELSE 0
             /\ Left(p, t)' = Left(p, t) + IF t = s THEN back[p] ELSE 0
  <2>1. /\ approval[p][t] \in Approvals /\ e[p] \in Nat /\ Grant[p][t] \in Nat
        /\ approval[p][t].used =< Grant[p][t]
        /\ approval[p][t].status = "none" <=> Grant[p][t] = 0
        /\ approval[p][t].status = "used" => approval[p][t].used = Grant[p][t]
    BY <1>2, GrantTyped DEF Money, MoneyTyped, Approved
  <2>2. approval[p][t].used \in Nat
    BY <2>1 DEF Approvals
  <2>3. Left(p, t) \in Int
    BY LeftInt
  <2>4. CASE t = s /\ p # s /\ e[p] > 0
    <3>1. /\ approval[p][t].status = "active" /\ e[p] =< Grant[p][t] - approval[p][t].used
          /\ approval'[p][t].status = IF approval[p][t].used + e[p] = Grant[p][t]
                                      THEN "used" ELSE "active"
          /\ approval'[p][t].used = approval[p][t].used + e[p]
      <4>1. /\ approval[p][s].status = "active" /\ e[p] =< Grant[p][s] - approval[p][s].used
            /\ approval'[p][s].status = IF approval[p][s].used + e[p] = Grant[p][s]
                                        THEN "used" ELSE "active"
            /\ approval'[p][s].used = approval[p][s].used + e[p]
        <5> HIDE DEF back
        <5>1. /\ approval[p][s].status = "active" /\ e[p] =< Grant[p][s] - approval[p][s].used
              /\ approval'[p][s] = [status |-> IF approval[p][s].used + e[p] = Grant[p][s]
                                               THEN "used" ELSE "active",
                                    used |-> approval[p][s].used + e[p]]
          BY <1>4, <2>4, Zenon
        <5> QED
          BY <5>1
      <4> QED
        BY <2>4, <4>1
    <3>2. Left(p, t) = Grant[p][t] - approval[p][t].used
      BY <3>1 DEF Left
    <3>3. Left(p, t)' = Grant[p][t] - approval[p][t].used - e[p]
      BY <2>1, <2>2, <3>1 DEF Left
    <3>4. back[p] = -e[p]
      BY <2>4
    <3> QED
      BY <2>1, <2>2, <2>4, <3>1, <3>2, <3>3, <3>4
  <2>5. CASE ~(t = s /\ p # s /\ e[p] > 0)
    <3>1. approval'[p][t] = approval[p][t]
      BY <1>5, <2>1, <2>5
    <3>2. Left(p, t)' = Left(p, t)
      BY <3>1 DEF Left
    <3>3. t = s => back[p] = 0
      BY <2>1, <2>5
    <3>4. t = s /\ p # s => e[p] = 0
      BY <2>1, <2>5
    <3> HIDE DEF back
    <3> QED
      BY <2>1, <2>2, <2>3, <3>1, <3>2, <3>3, <3>4
  <2> QED
    BY <2>4, <2>5
<1>9. Approved'
  BY <1>8 DEF Approved
<1>10. Paid'
  <2>1. ASSUME NEW p \in Users \ {s}, e[p] > 0 PROVE Grant[p][s] > 0
    <3>1. approval[p][s].status # "none"
      BY <1>4, <2>1
    <3>2. Grant[p][s] # 0 /\ Grant[p][s] \in Nat
      BY <1>1, <3>1, GrantTyped DEF Money, Approved
    <3> QED
      BY <3>2
  <2>2. \A q \in Orders : spent'[q] = IF q = o THEN e ELSE spent[q]
    BY DEF Money, MoneyTyped, e
  <2> QED
    BY <2>1, <2>2 DEF Paid, Money, s
<1>11. spent[o] = NoSpend /\ SumFunctionOnSet(spent[o], Users) = 0
  <2>1. spent[o] = NoSpend
    BY DEF Money, Paid
  <2> QED
    BY <2>1, FiniteUsers, SumZero DEF NoSpend
<1>12. Credits' = Credits
  <2> DEFINE b == -e[s]
             l == SumFunctionOnSet(back, Users)
             h == SumFunctionOnSet(e, Users)
             x == 0
  <2>1. /\ \A p \in Users : e[p] \in Int /\ back[p] \in Int
        /\ e[s] \in Int
    BY <1>1, <1>2
  <2>2. b \in Int /\ l \in Int /\ h \in Int
    <3> HIDE DEF back
    <3> QED
      BY <2>1, FiniteUsers, SumType
  <2>3. (b + l) + h = x /\ x \in Int
    <3> DEFINE own == [p \in Users |-> IF p = s THEN e[s] ELSE 0]
    <3>1. \A p \in Users : own[p] = back[p] + e[p]
      BY <2>1
    <3>2. own[s] = e[s] /\ \A p \in Users : p # s => own[p] = 0
      BY <1>1
    <3> HIDE DEF own, back
    <3>3. SumFunctionOnSet(own, Users) = l + h
      BY <2>1, <3>1, FiniteUsers, SumPlus
    <3>4. SumFunctionOnSet(own, Users) = e[s]
      BY <1>1, <2>1, <3>2, FiniteUsers, SumOne
    <3> QED
      BY <2>1, <2>2, <3>3, <3>4
  <2>4. SumFunctionOnSet(balance', Users) = SumFunctionOnSet(balance, Users) + b
    <3>1. balance' = [balance EXCEPT ![s] = balance[s] + b]
      BY <1>3
    <3> QED
      BY <1>1, <2>2, <3>1, BalanceChanges DEF Money
  <2>5. SumFunctionOnSet(Lefts', Users \X Users) = SumFunctionOnSet(Lefts, Users \X Users) + l
    <3>1. \A p, t \in Users : Left(p, t)' = Left(p, t) + IF t = s THEN back[p] ELSE 0
      BY <1>8
    <3> HIDE DEF back
    <3> QED
      BY <1>1, <2>1, <3>1, LeftsChange
  <2>6. SumFunctionOnSet(Helds', Orders) = SumFunctionOnSet(Helds, Orders) + h
    <3>1. SumFunctionOnSet(Helds', Orders) = SumFunctionOnSet(Helds, Orders) + (h - 0)
      BY <1>2, <1>11, SpentChanges DEF Money, e
    <3> QED
      BY <2>2, <3>1
  <2>7. SumFunctionOnSet(Excesses', Quotes) = SumFunctionOnSet(Excesses, Quotes) + x
    <3>1. Excesses' = Excesses
      BY DEF Excesses
    <3> QED
      BY <3>1, SumsTyped
  <2> HIDE DEF b, l, h, x
  <2> QED
    BY <1>7, <2>2, <2>3, <2>4, <2>5, <2>6, <2>7, CreditsKept
<1>13. ASSUME NEW p \in Users, NEW t \in Users, Behind(p, t)' PROVE Behind(p, t)
  <2> DEFINE old == SumFunctionOnSet(Spents(p, t), Orders)
             new == SumFunctionOnSet(Spents(p, t)', Orders)
  <2>1. new = old + IF t = s THEN e[p] - spent[o][p] ELSE 0
    BY <1>2, SpentChanges DEF Money, e, s
  <2>2. spent[o][p] = 0 /\ e[p] \in Nat
    BY <1>2, <1>11 DEF NoSpend
  <2>3. old \in Int
    <3>1. \A q \in Orders : Spents(p, t)[q] \in Int
      BY DEF Spents, Money, MoneyTyped
    <3> QED
      BY <3>1, FiniteUsers, SumType
  <2>4. /\ approval[p][t].used \in Nat
        /\ approval[p][t].status = "none" <=> Grant[p][t] = 0
    BY DEF Money, MoneyTyped, Approved, Approvals
  <2>5. /\ approval'[p][t].used = approval[p][t].used + IF t = s /\ p # s THEN e[p] ELSE 0
        /\ approval'[p][t].status = "none" <=> Grant[p][t] = 0
    BY <1>8
  <2>6. approval'[p][t].status # "none" /\ approval'[p][t].used < new
    BY <1>13, BehindIs
  <2>7. ~(t = s /\ p = s)
    BY <1>1, <2>5, <2>6, GrantTyped
  <2>8. approval[p][t].status # "none"
    BY <2>4, <2>5, <2>6
  <2> HIDE DEF old, new
  <2>9. approval[p][t].used < old
    BY <2>1, <2>2, <2>3, <2>4, <2>5, <2>6, <2>7
  <2> QED
    BY <2>8, <2>9, BehindIs DEF old
<1> QED
  BY <1>7, <1>9, <1>10, <1>12, <1>13 DEF Money, CreditsStay

\* What an undo read is an approval of the owner of its order.
ReadOK ==
  \A w \in Workers : At(w, "undoWrite") =>
    \A p \in Users : work[w].from[p].used =< Grant[p][Owner[work[w].n]]

\* An approval that was read and is unchanged gets back all of a refund.
LEMMA RefundIs ==
  ASSUME NEW seen \in Approvals, NEW current \in Approvals, NEW winc \in Nat \ {0},
         NEW g \in Nat, seen.used =< g, current.used =< g,
         current.status = "used" => current.used = g
  PROVE  /\ Refund(seen, current, winc).row \in Approvals
         /\ Refund(seen, current, winc).credit \in Nat
         /\ Refund(seen, current, winc).row.used =< g
         /\ Refund(seen, current, winc).row.status = "none" <=> current.status = "none"
         /\ Refund(seen, current, winc).row.status = "used"
              => Refund(seen, current, winc).row.used = g
         /\ seen = current /\ current.status \in {"active", "used"} /\ winc =< current.used =>
              Refund(seen, current, winc)
                = [row |-> [status |-> "active", used |-> current.used - winc], credit |-> 0]
<1> DEFINE r == Refund(seen, current, winc)
           left == IF seen.status = "active" THEN Minus(winc, seen.used) ELSE winc
<1>1. /\ seen.status \in {"none", "active", "used", "revoked"} /\ seen.used \in Nat
      /\ current.status \in {"none", "active", "used", "revoked"} /\ current.used \in Nat
      /\ current = [status |-> current.status, used |-> current.used]
  BY DEF Approvals
<1>2. left \in Nat /\ (seen.status # "active" => left = winc)
  BY <1>1 DEF Minus
<1>3. ASSUME NEW a \in Nat, NEW b \in Nat
      PROVE  /\ Minus(a, b) \in Nat /\ Minus(a, b) =< a
             /\ b =< a => Minus(a, b) = a - b
  BY DEF Minus
<1> HIDE DEF left
<1>4. CASE seen.status = "active" /\ current.status = "active"
  <2>1. r = [row |-> [current EXCEPT !.used = Minus(seen.used, winc)], credit |-> 0]
    BY <1>4 DEF Refund
  <2>2. [current EXCEPT !.used = Minus(seen.used, winc)]
          = [status |-> "active", used |-> Minus(seen.used, winc)]
    BY <1>1, <1>4
  <2>3. Minus(seen.used, winc) \in Nat /\ Minus(seen.used, winc) =< seen.used
    BY <1>1, <1>3
  <2>4. Minus(seen.used, winc) =< g
    BY <1>1, <2>3
  <2>5. seen = current /\ winc =< current.used => Minus(seen.used, winc) = current.used - winc
    BY <1>1, <1>3
  <2> QED
    BY <1>1, <1>4, <2>1, <2>2, <2>3, <2>4, <2>5 DEF Approvals
<1>5. CASE ~(seen.status = "active" /\ current.status = "active") /\ left > 0 /\ current.status = "used"
  <2>1. r = [row |-> [status |-> "active", used |-> Minus(current.used, left)], credit |-> 0]
    BY <1>5 DEF Refund, left
  <2>2. Minus(current.used, left) \in Nat /\ Minus(current.used, left) =< current.used
    BY <1>1, <1>2, <1>3
  <2>3. Minus(current.used, left) =< g
    BY <1>1, <2>2
  <2>4. seen = current /\ winc =< current.used => Minus(current.used, left) = current.used - winc
    BY <1>1, <1>2, <1>3, <1>5
  <2> QED
    BY <1>1, <1>5, <2>1, <2>2, <2>3, <2>4 DEF Approvals
<1>6. CASE ~(seen.status = "active" /\ current.status = "active") /\ left > 0 /\ current.status = "revoked"
  <2>1. r = [row |-> current, credit |-> current.used]
    BY <1>6 DEF Refund, left
  <2> QED
    BY <1>1, <1>6, <2>1
<1>7. CASE /\ ~(seen.status = "active" /\ current.status = "active")
           /\ ~(left > 0 /\ current.status \in {"used", "revoked"})
  <2>1. r = [row |-> current, credit |-> 0]
    BY <1>7 DEF Refund, left
  <2>2. current.status \in {"active", "used"} => seen # current
    BY <1>2, <1>7
  <2> QED
    BY <1>1, <1>7, <2>1, <2>2
<1> QED
  BY <1>1, <1>4, <1>5, <1>6, <1>7

\* A failed purchase gives back what its receipt says was spent.
LEMMA UndoKeeps ==
  ASSUME Money, ReadOK, work \in [Workers -> Sessions], NEW w \in Workers,
         work[w].n \in Orders, UndoWrite(w)
  PROVE  Money' /\ (~StaleUndo(w) => CreditsStay)
<1> DEFINE o == work[w].n
           s == Owner[o]
           e == spent[o]
           Back(p) == IF p = s \/ e[p] = 0
                      THEN [row |-> approval[p][s], credit |-> IF p = s THEN e[s] ELSE 0]
                      ELSE Refund(work[w].from[p], approval[p][s], e[p])
           gone == [p \in Users |-> IF p = s THEN 0 ELSE e[p]]
<1>1. o \in Orders /\ s \in Users /\ e \in [Users -> Nat]
  BY GrantTyped DEF Money, MoneyTyped
<1>2. /\ At(w, "undoWrite")
      /\ balance' = [p \in Users |-> balance[p] + Back(p).credit]
      /\ approval' = [p \in Users |-> [approval[p] EXCEPT ![s] = Back(p).row]]
      /\ receipt' = receipt \ {o}
      /\ spent' = [spent EXCEPT ![o] = NoSpend]
      /\ UNCHANGED quote
  BY DEF UndoWrite
<1>3. ASSUME NEW p \in Users
      PROVE  /\ work[w].from[p] \in Approvals /\ work[w].from[p].used =< Grant[p][s]
             /\ \A t \in Users : /\ approval[p][t] \in Approvals /\ approval[p][t].used \in Nat
                                 /\ approval[p][t].used =< Grant[p][t]
                                 /\ approval[p][t].status = "none" <=> Grant[p][t] = 0
                                 /\ approval[p][t].status = "used" => approval[p][t].used = Grant[p][t]
             /\ balance[p] \in Nat /\ e[p] \in Nat /\ Grant[p][s] \in Nat
  <2>1. work[w].from \in [Users -> Approvals]
    BY DEF Sessions
  <2>2. work[w].from[p].used =< Grant[p][s]
    BY <1>2 DEF ReadOK
  <2> QED
    BY <1>1, <2>1, <2>2, GrantTyped DEF Money, MoneyTyped, Approved, Approvals
<1> HIDE DEF e, s, o
<1>4. ASSUME NEW p \in Users
      PROVE  /\ Back(p).row \in Approvals /\ Back(p).credit \in Nat
             /\ Back(p).row.used =< Grant[p][s]
             /\ Back(p).row.status = "none" <=> Grant[p][s] = 0
             /\ Back(p).row.status = "used" => Back(p).row.used = Grant[p][s]
             /\ p = s \/ e[p] = 0 =>
                  /\ Back(p).row = approval[p][s]
                  /\ Back(p).credit = IF p = s THEN e[s] ELSE 0
  <2>1. CASE p = s \/ e[p] = 0
    BY <1>1, <1>3, <2>1
  <2>2. CASE ~(p = s \/ e[p] = 0)
    <3>1. e[p] \in Nat \ {0}
      BY <1>3, <2>2
    <3>2. Back(p) = Refund(work[w].from[p], approval[p][s], e[p])
      BY <2>2
    <3>3. approval[p][s].status = "none" <=> Grant[p][s] = 0
      BY <1>1, <1>3
    <3> HIDE DEF Back
    <3> QED
      BY <1>1, <1>3, <2>2, <3>1, <3>2, <3>3, RefundIs
  <2> QED
    BY <2>1, <2>2
<1> HIDE DEF Back
<1>5. \A p, t \in Users : approval'[p][t] = IF t = s THEN Back(p).row ELSE approval[p][t]
  BY <1>2 DEF Money, MoneyTyped
<1>6. MoneyTyped'
  <2>1. balance' \in [Users -> Nat]
    BY <1>2, <1>3, <1>4
  <2>2. approval' \in [Users -> [Users -> Approvals]]
    BY <1>2, <1>4 DEF Money, MoneyTyped
  <2>3. NoSpend \in [Users -> Nat]
    BY DEF NoSpend
  <2>4. spent' \in [Orders -> [Users -> Nat]]
    BY <1>2, <2>3 DEF Money, MoneyTyped
  <2> QED
    BY <2>1, <2>2, <2>4 DEF MoneyTyped
<1>7. Approved'
  BY <1>3, <1>4, <1>5 DEF Approved
<1>8. Paid'
  <2>1. \A q \in Orders : spent'[q] = IF q = o THEN NoSpend ELSE spent[q]
    BY <1>2 DEF Money, MoneyTyped
  <2>2. \A p \in Users : ~(NoSpend[p] > 0)
    BY DEF NoSpend
  <2> QED
    BY <1>2, <2>1, <2>2 DEF Paid, Money
<1>9. ASSUME ~StaleUndo(w) PROVE CreditsStay
  <2>1. ASSUME NEW p \in Users, p # s, e[p] > 0
        PROVE  /\ Back(p) = [row |-> [status |-> "active", used |-> approval[p][s].used - e[p]],
                             credit |-> 0]
               /\ Left(p, s) = Grant[p][s] - approval[p][s].used
               /\ e[p] =< approval[p][s].used
    <3>1. /\ approval[p][s] = work[w].from[p] /\ work[w].from[p].status # "revoked"
          /\ ~Behind(p, s)
      BY <1>2, <1>9, <2>1 DEF StaleUndo, e, s, o
    <3>2. Grant[p][s] > 0
      BY <1>1, <2>1 DEF Money, Paid, e, s
    <3>3. approval[p][s].status \in {"active", "used"}
      BY <1>1, <1>3, <3>1, <3>2 DEF Approvals
    <3>4. approval[p][s].used >= SumFunctionOnSet(Spents(p, s), Orders)
      <4>1. SumFunctionOnSet(Spents(p, s), Orders) \in Int
        <5>1. \A q \in Orders : Spents(p, s)[q] \in Int
          BY DEF Spents, Money, MoneyTyped
        <5> QED
          BY <5>1, FiniteUsers, SumType
      <4>2. ~(approval[p][s].used < SumFunctionOnSet(Spents(p, s), Orders))
        BY <1>1, <3>1, <3>3, BehindIs
      <4> QED
        BY <1>1, <1>3, <4>1, <4>2
    <3>5. e[p] =< SumFunctionOnSet(Spents(p, s), Orders)
      <4> DEFINE f == Spents(p, s)
      <4>1. /\ \A q \in Orders : f[q] \in Nat
            /\ f[o] = e[p]
        BY <1>1 DEF Spents, Money, MoneyTyped, e, s
      <4> HIDE DEF f
      <4>2. SumFunctionOnSet(f, Orders) = f[o] + SumFunctionOnSet(f, Orders \ {o})
        BY <1>1, <4>1, FiniteUsers, SumElement
      <4>3. SumFunctionOnSet(f, Orders \ {o}) \in Nat
        <5>1. IsFiniteSet(Orders \ {o})
          BY FiniteUsers, FS_Subset
        <5> QED
          BY <4>1, <5>1, SumNat
      <4> QED
        BY <1>3, <4>1, <4>2, <4>3 DEF f
    <3>6. SumFunctionOnSet(Spents(p, s), Orders) \in Nat
      <4>1. \A q \in Orders : Spents(p, s)[q] \in Nat
        BY DEF Spents, Money, MoneyTyped
      <4> QED
        BY <4>1, FiniteUsers, SumNat
    <3>7. e[p] =< approval[p][s].used
      BY <1>1, <1>3, <3>4, <3>5, <3>6
    <3>8. Back(p) = Refund(work[w].from[p], approval[p][s], e[p])
      BY <1>3, <2>1 DEF Back
    <3>9. e[p] \in Nat \ {0}
      BY <1>3, <2>1
    <3>10. Back(p) = [row |-> [status |-> "active", used |-> approval[p][s].used - e[p]], credit |-> 0]
      BY <1>1, <1>3, <3>1, <3>3, <3>7, <3>8, <3>9, RefundIs
    <3>11. Left(p, s) = Grant[p][s] - approval[p][s].used
      BY <1>1, <1>3, <3>3 DEF Left
    <3> QED
      BY <3>7, <3>10, <3>11
  <2>2. ASSUME NEW p \in Users, NEW t \in Users
        PROVE  /\ Left(p, t)' = Left(p, t) + IF t = s THEN gone[p] ELSE 0
               /\ approval'[p][t].status = "none" <=> approval[p][t].status = "none"
               /\ approval'[p][t].used = approval[p][t].used - IF t = s THEN gone[p] ELSE 0
    <3>1. Left(p, t) \in Int
      BY LeftInt
    <3>2. CASE t = s /\ p # s /\ e[p] > 0
      <4>1. /\ Back(p) = [row |-> [status |-> "active", used |-> approval[p][s].used - e[p]],
                          credit |-> 0]
            /\ Left(p, s) = Grant[p][s] - approval[p][s].used
            /\ e[p] =< approval[p][s].used
        BY <2>1, <3>2
      <4>2. approval'[p][t] = [status |-> "active", used |-> approval[p][t].used - e[p]]
        BY <1>1, <1>5, <3>2, <4>1
      <4>3. Left(p, t)' = Grant[p][t] - (approval[p][t].used - e[p])
        BY <4>2 DEF Left
      <4>4. gone[p] = e[p]
        BY <3>2
      <4>5. /\ approval[p][t].used \in Nat /\ e[p] \in Nat /\ Grant[p][t] \in Nat
        BY <1>1, <1>3, GrantTyped
      <4>6. approval[p][t].status # "none"
        <5>1. Grant[p][t] # 0
          BY <4>1, <4>5, <3>2, <1>1, <1>3
        <5> QED
          BY <5>1, <1>1, <1>3
      <4>7. Left(p, t) = Grant[p][t] - approval[p][t].used
        BY <3>2, <4>1
      <4> HIDE DEF gone
      <4>8. Left(p, t)' = Left(p, t) + gone[p]
        BY <4>3, <4>4, <4>5, <4>7
      <4>9. /\ approval'[p][t].status = "active"
            /\ approval'[p][t].used = approval[p][t].used - gone[p]
        BY <4>2, <4>4
      <4> QED
        BY <3>2, <4>6, <4>8, <4>9
    <3>3. CASE ~(t = s /\ p # s /\ e[p] > 0)
      <4>1. approval'[p][t] = approval[p][t]
        BY <1>3, <1>4, <1>5, <3>3
      <4>2. Left(p, t)' = Left(p, t)
        BY <4>1 DEF Left
      <4>3. t = s => gone[p] = 0
        BY <1>3, <3>3
      <4>4. approval[p][t].used \in Nat
        BY <1>3
      <4> HIDE DEF gone
      <4> QED
        BY <3>1, <4>1, <4>2, <4>3, <4>4
    <3> QED
      BY <3>2, <3>3
  <2>3. balance' = [balance EXCEPT ![s] = balance[s] + e[s]]
    <3>1. \A p \in Users : balance'[p] = balance[p] + IF p = s THEN e[s] ELSE 0
      <4> SUFFICES ASSUME NEW p \in Users
                   PROVE  balance'[p] = balance[p] + IF p = s THEN e[s] ELSE 0
        OBVIOUS
      <4>1. Back(p).credit = IF p = s THEN e[s] ELSE 0
        <5>1. CASE p # s /\ e[p] > 0
          BY <2>1, <5>1
        <5>2. CASE ~(p # s /\ e[p] > 0)
          BY <1>3, <1>4, <5>2
        <5> QED
          BY <5>1, <5>2
      <4> QED
        BY <1>2, <4>1
    <3>2. DOMAIN balance' = Users /\ DOMAIN balance = Users /\ balance' = [p \in Users |-> balance'[p]]
      BY <1>2 DEF Money, MoneyTyped
    <3>3. \A p \in Users : balance[p] \in Nat
      BY <1>3
    <3>4. balance = [p \in Users |-> balance[p]]
      BY DEF Money, MoneyTyped
    <3> QED
      BY <1>1, <3>1, <3>2, <3>3, <3>4
  <2> DEFINE b == e[s]
             l == SumFunctionOnSet(gone, Users)
             h == -SumFunctionOnSet(e, Users)
             x == 0
  <2>4. \A p \in Users : e[p] \in Int /\ gone[p] \in Int
    BY <1>3
  <2>5. SumFunctionOnSet(gone, Users) \in Int /\ SumFunctionOnSet(e, Users) \in Int /\ b \in Int
    <3> HIDE DEF gone
    <3> QED
      BY <1>1, <2>4, FiniteUsers, SumType
  <2>6. (b + l) + h = x
    <3> DEFINE own == [p \in Users |-> IF p = s THEN e[s] ELSE 0]
    <3>1. \A p \in Users : e[p] = own[p] + gone[p] /\ own[p] \in Int
      BY <2>4
    <3>2. own[s] = e[s] /\ \A p \in Users : p # s => own[p] = 0
      BY <1>1
    <3> HIDE DEF own, gone
    <3>3. SumFunctionOnSet(e, Users) = SumFunctionOnSet(own, Users) + SumFunctionOnSet(gone, Users)
      BY <2>4, <3>1, FiniteUsers, SumPlus
    <3>4. SumFunctionOnSet(own, Users) = e[s]
      BY <1>1, <2>4, <3>2, FiniteUsers, SumOne
    <3> QED
      BY <2>5, <3>3, <3>4
  <2>7. SumFunctionOnSet(balance', Users) = SumFunctionOnSet(balance, Users) + b
    BY <1>1, <2>3, <2>5, BalanceChanges DEF Money
  <2>8. SumFunctionOnSet(Lefts', Users \X Users) = SumFunctionOnSet(Lefts, Users \X Users) + l
    <3>1. \A p \in Users : gone[p] \in Int
      BY <2>4
    <3> HIDE DEF gone, l
    <3>2. SumFunctionOnSet(Lefts', Users \X Users)
            = SumFunctionOnSet(Lefts, Users \X Users) + SumFunctionOnSet(gone, Users)
      BY <1>1, <2>2, <3>1, LeftsChange
    <3> QED
      BY <3>2 DEF l
  <2>9. /\ SumFunctionOnSet(Helds', Orders) = SumFunctionOnSet(Helds, Orders) + h
        /\ \A p, t \in Users :
             SumFunctionOnSet(Spents(p, t)', Orders) = SumFunctionOnSet(Spents(p, t), Orders)
               + IF t = s THEN 0 - e[p] ELSE 0
    <3>1. NoSpend \in [Users -> Nat] /\ \A p \in Users : NoSpend[p] = 0
      BY DEF NoSpend
    <3>2. SumFunctionOnSet(NoSpend, Users) = 0
      BY <3>1, FiniteUsers, SumZero
    <3>3. /\ SumFunctionOnSet(Helds', Orders) = SumFunctionOnSet(Helds, Orders)
               + (SumFunctionOnSet(NoSpend, Users) - SumFunctionOnSet(e, Users))
          /\ \A p, t \in Users :
               SumFunctionOnSet(Spents(p, t)', Orders) = SumFunctionOnSet(Spents(p, t), Orders)
                 + IF t = s THEN NoSpend[p] - e[p] ELSE 0
      BY <1>1, <1>2, <3>1, SpentChanges DEF Money, e, s
    <3>4. \A n \in Int : 0 - n = -n
      OBVIOUS
    <3> QED
      BY <2>5, <3>1, <3>2, <3>3, <3>4
  <2>10. SumFunctionOnSet(Excesses', Quotes) = SumFunctionOnSet(Excesses, Quotes) + x
    <3>1. Excesses' = Excesses
      BY <1>2 DEF Excesses
    <3> QED
      BY <3>1, SumsTyped
  <2>11. b \in Int /\ l \in Int /\ h \in Int /\ x \in Int
    BY <2>5
  <2> HIDE DEF b, l, h, x
  <2>12. Credits' = Credits
    BY <1>6, <2>6, <2>7, <2>8, <2>9, <2>10, <2>11, CreditsKept
  <2>13. ASSUME NEW p \in Users, NEW t \in Users, Behind(p, t)' PROVE Behind(p, t)
    <3> DEFINE old == SumFunctionOnSet(Spents(p, t), Orders)
               new == SumFunctionOnSet(Spents(p, t)', Orders)
    <3>1. new = old + IF t = s THEN 0 - e[p] ELSE 0
      BY <2>9
    <3>2. old \in Int
      <4>1. \A q \in Orders : Spents(p, t)[q] \in Int
        BY DEF Spents, Money, MoneyTyped
      <4> QED
        BY <4>1, FiniteUsers, SumType
    <3>3. /\ approval[p][t].status # "none"
          /\ approval[p][t].used - (IF t = s THEN gone[p] ELSE 0) < new
      BY <2>2, <2>13, BehindIs
    <3>4. approval[p][t].used \in Nat /\ e[p] \in Nat
      BY <1>3
    <3>5. ~(t = s /\ p = s)
      BY <1>1, <1>3, <3>3, GrantTyped
    <3>6. t = s => gone[p] = e[p]
      BY <3>5
    <3> HIDE DEF old, new, gone
    <3>7. approval[p][t].used < old
      BY <3>1, <3>2, <3>3, <3>4, <3>6
    <3> QED
      BY <3>3, <3>7, BehindIs DEF old
  <2> QED
    BY <2>12, <2>13 DEF CreditsStay
<1> QED
  BY <1>6, <1>7, <1>8, <1>9 DEF Money

\* A payer takes back what is left of an approval.
LEMMA RevokeKeeps ==
  ASSUME Money, NEW p \in Users, NEW s \in Users, Revoke(p, s)
  PROVE  Money' /\ CreditsStay
<1> DEFINE b == Grant[p][s] - approval[p][s].used
           d == [x \in Users |-> IF x = p THEN -b ELSE 0]
<1>1. \A x, t \in Users : /\ approval[x][t] \in Approvals /\ approval[x][t].used \in Nat
                          /\ approval[x][t].used =< Grant[x][t] /\ Grant[x][t] \in Nat
                          /\ approval[x][t].status = "none" <=> Grant[x][t] = 0
                          /\ approval[x][t].status = "used" => approval[x][t].used = Grant[x][t]
  BY GrantTyped DEF Money, MoneyTyped, Approved, Approvals
<1>2. /\ approval[p][s].status \in {"active", "used"}
      /\ approval' = [approval EXCEPT ![p] = [approval[p] EXCEPT ![s] =
                        [approval[p][s] EXCEPT !.status = "revoked"]]]
      /\ balance' = [balance EXCEPT ![p] = balance[p] + Grant[p][s] - approval[p][s].used]
      /\ UNCHANGED <<receipt, spent, quote>>
  BY DEF Revoke, tables, receipts, Money, MoneyTyped
<1>3. b \in Nat /\ b \in Int /\ balance[p] \in Nat
  BY <1>1 DEF Money, MoneyTyped
<1>4. balance' = [balance EXCEPT ![p] = balance[p] + b]
  BY <1>1, <1>2, <1>3
<1>5. [approval[p][s] EXCEPT !.status = "revoked"] = [status |-> "revoked", used |-> approval[p][s].used]
  BY <1>1 DEF Approvals
<1>6. \A x, t \in Users : approval'[x][t] = IF x = p /\ t = s
        THEN [status |-> "revoked", used |-> approval[p][s].used] ELSE approval[x][t]
  BY <1>2, <1>5 DEF Money, MoneyTyped
<1>7. MoneyTyped'
  <2>1. [status |-> "revoked", used |-> approval[p][s].used] \in Approvals
    BY <1>1 DEF Approvals
  <2>2. approval' \in [Users -> [Users -> Approvals]]
    BY <1>2, <1>5, <2>1 DEF Money, MoneyTyped
  <2>3. balance' \in [Users -> Nat]
    BY <1>3, <1>4 DEF Money, MoneyTyped
  <2> QED
    BY <1>2, <2>2, <2>3 DEF Money, MoneyTyped
<1> HIDE DEF b
<1>8. ASSUME NEW x \in Users, NEW t \in Users
      PROVE  /\ approval'[x][t].used = approval[x][t].used
             /\ approval'[x][t].status = "none" <=> approval[x][t].status = "none"
             /\ approval'[x][t].status = "used" => approval[x][t].status = "used"
             /\ Left(x, t)' = Left(x, t) + IF t = s THEN d[x] ELSE 0
  <2>1. CASE x = p /\ t = s
    <3>1. approval'[x][t] = [status |-> "revoked", used |-> approval[p][s].used]
      BY <1>6, <2>1
    <3>2. Left(x, t)' = 0
      BY <3>1 DEF Left
    <3>3. Left(x, t) = b
      BY <1>1, <1>2, <2>1 DEF Left, b
    <3>4. d[x] = -b
      BY <2>1
    <3> HIDE DEF d
    <3>5. Left(x, t)' = Left(x, t) + d[x]
      BY <1>3, <3>2, <3>3, <3>4
    <3> QED
      BY <1>2, <2>1, <3>1, <3>5
  <2>2. CASE ~(x = p /\ t = s)
    <3>1. approval'[x][t] = approval[x][t]
      BY <1>6, <2>2
    <3>2. Left(x, t)' = Left(x, t) /\ Left(x, t) \in Int
      BY <3>1, LeftInt DEF Left
    <3>3. t = s => d[x] = 0
      BY <2>2
    <3> HIDE DEF d
    <3> QED
      BY <3>1, <3>2, <3>3
  <2> QED
    BY <2>1, <2>2
<1>9. Approved'
  BY <1>1, <1>8 DEF Approved
<1>10. Paid'
  BY <1>2 DEF Paid, Money
<1>11. Credits' = Credits
  <2> DEFINE l == -b
             h == 0
             x == 0
  <2>1. /\ \A v \in Users : d[v] \in Int
        /\ d[p] = -b /\ \A v \in Users : v # p => d[v] = 0
    BY <1>3
  <2> HIDE DEF d
  <2>2. SumFunctionOnSet(d, Users) = l
    BY <2>1, FiniteUsers, SumOne
  <2>3. SumFunctionOnSet(Lefts', Users \X Users) = SumFunctionOnSet(Lefts, Users \X Users) + l
    <3>1. \A v, t \in Users : Left(v, t)' = Left(v, t) + IF t = s THEN d[v] ELSE 0
      BY <1>8
    <3> HIDE DEF l
    <3>2. SumFunctionOnSet(Lefts', Users \X Users)
            = SumFunctionOnSet(Lefts, Users \X Users) + SumFunctionOnSet(d, Users)
      BY <2>1, <3>1, LeftsChange
    <3> QED
      BY <2>2, <3>2
  <2>4. SumFunctionOnSet(balance', Users) = SumFunctionOnSet(balance, Users) + b
    BY <1>3, <1>4, BalanceChanges DEF Money
  <2>5. /\ SumFunctionOnSet(Helds', Orders) = SumFunctionOnSet(Helds, Orders) + h
        /\ SumFunctionOnSet(Excesses', Quotes) = SumFunctionOnSet(Excesses, Quotes) + x
    <3>1. Helds' = Helds /\ Excesses' = Excesses
      BY <1>2 DEF Helds, Excesses
    <3> QED
      BY <3>1, SumsTyped
  <2>6. b \in Int /\ l \in Int /\ h \in Int /\ x \in Int /\ (b + l) + h = x
    BY <1>3
  <2> HIDE DEF l, h, x
  <2> QED
    BY <1>7, <2>3, <2>4, <2>5, <2>6, CreditsKept
<1>12. ASSUME NEW x \in Users, NEW t \in Users, Behind(x, t)' PROVE Behind(x, t)
  <2>1. Spents(x, t)' = Spents(x, t)
    BY <1>2 DEF Spents
  <2> QED
    BY <1>8, <1>12, <2>1, BehindIs
<1> QED
  BY <1>7, <1>9, <1>10, <1>11, <1>12 DEF Money, CreditsStay

\* A quote is settled: its excess is credited to its owner.
LEMMA CreditKeeps ==
  ASSUME Money, NEW q \in Quotes, quote \in [Quotes -> Tables], quote[q] = "quote",
         balance' = [balance EXCEPT ![Owner[q]] = @ + Excess[q]],
         quote' = [quote EXCEPT ![q] = "receipt"],
         UNCHANGED <<approval, receipt, spent>>
  PROVE  Money' /\ CreditsStay
<1> DEFINE b == Excess[q]
           l == 0
           h == 0
<1>1. Owner[q] \in Users /\ b \in Nat /\ b \in Int
  BY GrantTyped
<1>2. balance' = [balance EXCEPT ![Owner[q]] = balance[Owner[q]] + b]
  BY DEF Money, MoneyTyped
<1> HIDE DEF b
<1>3. MoneyTyped'
  BY <1>1, <1>2 DEF Money, MoneyTyped
<1>4. Approved' /\ Paid'
  BY DEF Money, Approved, Paid
<1>5. SumFunctionOnSet(balance', Users) = SumFunctionOnSet(balance, Users) + b
  BY <1>1, <1>2, BalanceChanges DEF Money
<1>6. /\ SumFunctionOnSet(Lefts', Users \X Users) = SumFunctionOnSet(Lefts, Users \X Users) + l
      /\ SumFunctionOnSet(Helds', Orders) = SumFunctionOnSet(Helds, Orders) + h
  <2>1. Lefts' = Lefts /\ Helds' = Helds
    BY DEF Lefts, Helds, Left
  <2> QED
    BY <2>1, SumsTyped
<1>7. SumFunctionOnSet(Excesses', Quotes) = SumFunctionOnSet(Excesses, Quotes) + b
  <2>1. \A r \in Quotes : /\ Excesses[r] \in Int /\ Excesses'[r] \in Int
                          /\ r # q => Excesses'[r] = Excesses[r]
    BY GrantTyped DEF Excesses
  <2>2. Excesses'[q] - Excesses[q] = b
    BY <1>1 DEF Excesses, b
  <2>3. SumFunctionOnSet(Excesses', Quotes) = SumFunctionOnSet(Excesses, Quotes)
          + (Excesses'[q] - Excesses[q])
    BY <2>1, FiniteUsers, SumChanged
  <2> QED
    BY <2>2, <2>3
<1>8. b \in Int /\ l \in Int /\ h \in Int /\ (b + l) + h = b
  BY <1>1
<1> HIDE DEF l, h
<1>9. Credits' = Credits
  BY <1>3, <1>5, <1>6, <1>7, <1>8, CreditsKept
<1>10. \A p, s \in Users : Behind(p, s)' => Behind(p, s)
  BY DEF Behind
<1> QED
  BY <1>3, <1>4, <1>9, <1>10 DEF Money, CreditsStay

\* A step that moves no credits.
LEMMA StillKeeps ==
  ASSUME Money, UNCHANGED <<balance, approval, receipt, spent>>,
         \A q \in Quotes : quote'[q] = "receipt" <=> quote[q] = "receipt"
  PROVE  Money' /\ CreditsStay
<1>1. Money'
  BY DEF Money, MoneyTyped, Approved, Paid
<1>2. Lefts' = Lefts /\ Helds' = Helds /\ Excesses' = Excesses
  BY DEF Lefts, Helds, Left, Excesses
<1>3. Credits' = Credits
  BY <1>1, <1>2, CreditsAre DEF Money
<1>4. \A p, s \in Users : Behind(p, s)' => Behind(p, s)
  BY DEF Behind
<1> QED
  BY <1>1, <1>3, <1>4 DEF CreditsStay

-----------------------------------------------------------------------------
\* One transaction at a time holds the deletion of a quote, and finds it again.
Settling ==
  /\ \A w \in Workers : work[w].at \in {"settle", "stuck"} => quote[work[w].n] = "quote"
  /\ \A v, w \in Workers : /\ work[v].at \in {"settle", "stuck"}
                           /\ work[w].at \in {"settle", "stuck"}
                           /\ work[v].n = work[w].n
                           => v = w

WorkTyped == work \in [Workers -> Sessions]

RestTyped ==
  /\ users \subseteq Users
  /\ age \in [Quotes -> 0 .. 2]
  /\ record \in [Names -> Records] /\ cached \in [Names -> Records \cup {"unread"}]
  /\ load \in Loads
  /\ misreported \subseteq Nonces /\ abandoned \subseteq Nonces

MoneyInv == Money /\ ReadOK /\ Settling /\ WorkTyped /\ RestTyped

LEMMA WorkedOn ==
  ASSUME ArNSInv, NEW w \in Workers
  PROVE  /\ work[w].at \in OrderStages => work[w].n \in Orders
         /\ work[w].at \in QuoteStages => work[w].n \in Quotes
         /\ work[w].at # "idle" => work[w].n \in Nonces
<1>1. \/ work[w].at = "idle" /\ work[w].n = ""
      \/ work[w].at \in OrderStages /\ work[w].n \in Orders
      \/ work[w].at \in QuoteStages /\ work[w].n \in Quotes
  BY DEF ArNSInv, Placed
<1> QED
  BY <1>1 DEF OrderStages, QuoteStages, Nonces

-----------------------------------------------------------------------------
(* Every step keeps the credits, but for a refund from a stale approval.   *)
LEMMA MoneyStep ==
  ArNSInv /\ MoneyInv /\ [Next]_vars
    => Money' /\ (CreditsStay \/ \E w \in Workers : StaleUndo(w))
<1> DEFINE Goal == Money' /\ (CreditsStay \/ \E w \in Workers : StaleUndo(w))
<1> SUFFICES ASSUME ArNSInv, MoneyInv, [Next]_vars PROVE Goal
  OBVIOUS
<1>a. Money /\ quote \in [Quotes -> Tables]
  BY DEF MoneyInv, ArNSInv, Typed
<1>b. ASSUME UNCHANGED <<balance, approval, receipt, spent>>,
             \A q \in Quotes : quote'[q] = "receipt" <=> quote[q] = "receipt"
      PROVE  Goal
  BY <1>a, <1>b, StillKeeps
<1>c. ASSUME NEW w \in Workers, Credit(w), UNCHANGED <<approval, receipt, spent>>
      PROVE  Goal
  <2> DEFINE q == work[w].n
  <2>1. At(w, "settle") /\ q \in Quotes
    BY <1>c, WorkedOn DEF Credit, At, QuoteStages
  <2>2. quote[q] = "quote"
    BY <2>1 DEF MoneyInv, Settling, At
  <2>3. /\ balance' = [balance EXCEPT ![Owner[q]] = @ + Excess[q]]
        /\ quote' = [quote EXCEPT ![q] = "receipt"]
    BY <1>c DEF Credit
  <2> HIDE DEF q
  <2> QED
    BY <1>a, <1>c, <2>1, <2>2, <2>3, CreditKeeps
<1>d. ASSUME NEW w \in Workers, CreateReceipt(w) \/ ReceiptUnacknowledged(w)
      PROVE  Goal
  <2> DEFINE o == work[w].n
  <2>1. At(w, "create") /\ o \in Orders
    BY <1>d, WorkedOn DEF CreateReceipt, ReceiptUnacknowledged, At, OrderStages
  <2>2. /\ o \notin receipt /\ Charge(Owner[o], Spend(o).spend)
        /\ receipt' = receipt \cup {o} /\ spent' = [spent EXCEPT ![o] = Spend(o).spend]
        /\ UNCHANGED quote
    BY <1>d DEF CreateReceipt, ReceiptUnacknowledged
  <2> HIDE DEF o
  <2> QED
    BY <1>a, <2>1, <2>2, ChargeKeeps
<1>e. ASSUME NEW w \in Workers, UndoWrite(w) PROVE Goal
  <2>1. work[w].n \in Orders
    BY <1>e, WorkedOn DEF UndoWrite, At, OrderStages
  <2> QED
    BY <1>a, <1>e, <2>1, UndoKeeps DEF MoneyInv, WorkTyped
<1>1. CASE UNCHANGED vars
  BY <1>1, <1>b DEF vars, ledger, tables, receipts
<1>2. ASSUME NEW w \in Workers, Proceed(w) PROVE Goal
  <2>1. CASE Initiate(w) \/ AddMessageId(w) \/ Undo(w) \/ Load(w) \/ TakeQuote(w)
             \/ OwnerExists(w) \/ CheckStatus(w) \/ RefundPayment(w)
    BY <2>1, <1>b DEF Initiate, AddMessageId, Undo, Load, TakeQuote, OwnerExists, CheckStatus,
                      RefundPayment, ledger, tables, receipts
  <2>2. CASE Settle(w)
    BY <2>2, <1>c DEF Settle, receipts
  <2>3. CASE QuoteFails(w)
    <3>1. \A q \in Quotes : quote'[q] = "receipt" <=> quote[q] = "receipt"
      BY <1>a, <2>3 DEF QuoteFails
    <3> QED
      BY <2>3, <3>1, <1>b DEF QuoteFails, ledger, receipts
  <2> QED
    BY <1>2, <1>d, <1>e, <2>1, <2>2, <2>3 DEF Proceed
<1>3. ASSUME NEW w \in Workers, Fault(w) PROVE Goal
  <2>1. CASE RejectReceipt(w) \/ InitiateFails(w) \/ AddMessageIdFails(w) \/ UndoFails(w)
             \/ GiveUp(w) \/ Crash(w)
    BY <2>1, <1>b DEF RejectReceipt, InitiateFails, AddMessageIdFails, UndoFails, GiveUp, Crash,
                      ledger, tables, receipts
  <2>2. CASE SettleFails(w)
    BY <2>2, <1>b, <1>c DEF SettleFails, receipts
  <2> QED
    BY <1>3, <1>d, <2>1, <2>2 DEF Fault
<1>4. ASSUME NEW w \in Workers, (\E o \in Orders : Request(w, o)) \/ (\E q \in Quotes : Deliver(w, q))
      PROVE  Goal
  BY <1>4, <1>b DEF Request, Deliver, ledger, tables, receipts
<1>5. ASSUME NEW q \in Quotes, CreateQuote(q) PROVE Goal
  <2>1. \A r \in Quotes : quote'[r] = "receipt" <=> quote[r] = "receipt"
    BY <1>a, <1>5 DEF CreateQuote, StoreQuote
  <2> QED
    BY <1>5, <2>1, <1>b DEF CreateQuote, ledger, receipts
<1>6. ASSUME NEW q \in Quotes, Lapse(q) \/ Replicate(q) PROVE Goal
  BY <1>6, <1>b DEF Lapse, Replicate, ledger, tables, receipts
<1>7. ASSUME NEW p \in Users, NEW s \in Users, Revoke(p, s) PROVE Goal
  BY <1>7, <1>a, RevokeKeeps
<1>8. ASSUME NEW m \in Names, Forget(m) PROVE Goal
  BY <1>8, <1>b DEF Forget, ledger, tables, receipts
<1>9. ASSUME NEW u \in Users, Register(u) PROVE Goal
  BY <1>9, <1>b DEF Register, tables, receipts
<1> HIDE DEF Goal
<1> QED
  BY <1>1, <1>2, <1>3, <1>4, <1>5, <1>6, <1>7, <1>8, <1>9 DEF Next

-----------------------------------------------------------------------------
(* ... what was read of approvals, and who holds the deletion of a quote.  *)

WorkInv == WorkTyped /\ ReadOK /\ Settling

\* A worker moves on to r.
LEMMA SessionKept ==
  ASSUME MoneyInv, NEW w \in Workers, NEW r \in Sessions,
         work' = [work EXCEPT ![w] = r],
         r.at = "undoWrite" => \A p \in Users : r.from[p].used =< Grant[p][Owner[r.n]],
         r.at \in {"settle", "stuck"} =>
           /\ quote'[r.n] = "quote"
           /\ \A v \in Workers \ {w} : work[v].n = r.n => work[v].at \notin {"settle", "stuck"},
         \A v \in Workers \ {w} : work[v].at \in {"settle", "stuck"} =>
           quote'[work[v].n] = quote[work[v].n]
  PROVE  WorkInv'
<1>1. /\ \A v \in Workers : v # w => work'[v] = work[v]
      /\ work'[w] = r
      /\ work \in [Workers -> Sessions] /\ work' \in [Workers -> Sessions]
  BY DEF MoneyInv, WorkTyped
<1>2. ReadOK'
  BY <1>1 DEF ReadOK, MoneyInv, At
<1>3. Settling'
  <2>1. ASSUME NEW v \in Workers, work'[v].at \in {"settle", "stuck"}
        PROVE  quote'[work'[v].n] = "quote"
    BY <1>1, <2>1 DEF Settling, MoneyInv
  <2>2. ASSUME NEW u \in Workers, NEW v \in Workers, work'[u].at \in {"settle", "stuck"},
               work'[v].at \in {"settle", "stuck"}, work'[u].n = work'[v].n, u # v
        PROVE  FALSE
    <3>1. CASE u # w /\ v # w
      BY <1>1, <2>2, <3>1 DEF Settling, MoneyInv
    <3>2. CASE u = w \/ v = w
      BY <1>1, <2>2, <3>2
    <3> QED
      BY <3>1, <3>2
  <2> QED
    BY <2>1, <2>2 DEF Settling
<1> QED
  BY <1>1, <1>2, <1>3 DEF WorkInv, WorkTyped

LEMMA FreeSession == Free \in Sessions
BY DEF Free, NoApproval, Sessions, Approvals, Stages

\* A step that only moves a worker on, and leaves the quotes others hold alone.
LEMMA GoKept ==
  ASSUME MoneyInv, NEW w \in Workers, NEW stage \in Stages \ {"undoWrite", "settle", "stuck"},
         Go(w, stage),
         \A v \in Workers \ {w} : work[v].at \in {"settle", "stuck"} =>
           quote'[work[v].n] = quote[work[v].n]
  PROVE  WorkInv'
<1>1. work[w] \in Sessions
  BY DEF MoneyInv, WorkTyped
<1> DEFINE r == IF stage = "idle" THEN Free ELSE [work[w] EXCEPT !.at = stage]
<1>2. r \in Sessions /\ r.at = stage
  BY <1>1, FreeSession DEF Free, Sessions
<1>3. work' = [work EXCEPT ![w] = r]
  BY DEF Go, MoneyInv, WorkTyped
<1> HIDE DEF r
<1> QED
  BY <1>2, <1>3, SessionKept

\* A worker takes a request, or the event of a payment.
LEMMA TakenOn ==
  ASSUME MoneyInv, NEW w \in Workers, NEW n \in Nonces, NEW stage \in {"create", "load"},
         work' = [work EXCEPT ![w] = [Free EXCEPT !.at = stage, !.n = n]],
         UNCHANGED quote
  PROVE  WorkInv'
<1> DEFINE r == [Free EXCEPT !.at = stage, !.n = n]
<1>1. r \in Sessions /\ r.at = stage
  BY FreeSession DEF Free, Sessions, Stages
<1> HIDE DEF r
<1> QED
  BY <1>1, SessionKept DEF r

LEMMA ReadIsApproved ==
  ASSUME ArNSInv, MoneyInv, NEW w \in Workers, Undo(w)
  PROVE  WorkInv'
<1> DEFINE s == Owner[work[w].n]
           seen == [p \in Users |-> approval[p][s]]
           r == [work[w] EXCEPT !.at = "undoWrite", !.from = seen]
<1>1. work[w].n \in Orders /\ s \in Users
  BY WorkedOn, GrantTyped DEF Undo, At, OrderStages
<1>2. work[w] \in Sessions
  BY DEF MoneyInv, WorkTyped
<1>3. seen \in [Users -> Approvals] /\ \A p \in Users : seen[p].used =< Grant[p][s]
  BY <1>1 DEF MoneyInv, Money, MoneyTyped, Approved
<1>4. work' = [work EXCEPT ![w] = r]
  BY DEF Undo, MoneyInv, WorkTyped
<1> HIDE DEF seen
<1>5. /\ r \in Sessions /\ r.at = "undoWrite" /\ r.n = work[w].n
      /\ \A p \in Users : r.from[p].used =< Grant[p][s]
  BY <1>2, <1>3 DEF Sessions, Stages
<1>6. UNCHANGED quote
  BY DEF Undo, tables
<1> HIDE DEF r
<1> QED
  BY <1>4, <1>5, <1>6, SessionKept

LEMMA TakeIsAlone ==
  ASSUME ArNSInv, MoneyInv, NEW w \in Workers, TakeQuote(w)
  PROVE  WorkInv'
<1> DEFINE q == work[w].n
           stage == IF quote[q] # "quote" THEN "fail" ELSE IF age[q] > 0 THEN "stuck" ELSE "settle"
           new == Owner[q] \notin users
           r == [work[w] EXCEPT !.at = stage, !.isNew = new]
<1>1. work[w] \in Sessions
  BY DEF MoneyInv, WorkTyped
<1>2. work' = [work EXCEPT ![w] = r]
  BY DEF TakeQuote, MoneyInv, WorkTyped
<1>3. /\ stage \in {"fail", "stuck", "settle"}
      /\ stage \in {"stuck", "settle"} => quote[q] = "quote"
      /\ new \in BOOLEAN
  OBVIOUS
<1> HIDE DEF stage, new
<1>4. r \in Sessions /\ r.at = stage /\ r.n = q
  BY <1>1, <1>3 DEF Sessions, Stages
<1>5. UNCHANGED quote /\ ~Taken(q)
  BY DEF TakeQuote, tables
<1>6. \A v \in Workers : work[v].n = q => work[v].at \notin {"settle", "stuck"}
  BY <1>5 DEF Taken
<1> HIDE DEF r, q
<1> QED
  BY <1>2, <1>3, <1>4, <1>5, <1>6, SessionKept

\* A step that moves no worker, and at most stores a quote.
LEMMA WorkStays ==
  ASSUME MoneyInv, UNCHANGED work,
         \A q : quote[q] = "quote" => quote'[q] = quote[q]
  PROVE  WorkInv'
BY DEF MoneyInv, WorkInv, WorkTyped, ReadOK, Settling, At

LEMMA WorkStep == ArNSInv /\ MoneyInv /\ [Next]_vars => WorkInv'
<1> SUFFICES ASSUME ArNSInv, MoneyInv, [Next]_vars PROVE WorkInv'
  OBVIOUS
<1>a. ASSUME NEW w \in Workers, NEW stage \in Stages \ {"undoWrite", "settle", "stuck"},
             Go(w, stage), UNCHANGED quote
      PROVE  WorkInv'
  BY <1>a, GoKept
<1>b. quote \in [Quotes -> Tables]
  BY DEF ArNSInv, Typed
\* Settling a quote changes it for its only holder.
<1>c. ASSUME NEW w \in Workers, NEW stage \in {"idle", "fail"}, Go(w, stage), Credit(w)
      PROVE  WorkInv'
  <2>1. At(w, "settle") /\ quote' = [quote EXCEPT ![work[w].n] = "receipt"]
    BY <1>c DEF Credit
  <2>2. ASSUME NEW v \in Workers \ {w}, work[v].at \in {"settle", "stuck"}
        PROVE  quote'[work[v].n] = quote[work[v].n]
    <3>1. work[v].n # work[w].n
      BY <2>1, <2>2 DEF MoneyInv, Settling, At
    <3>2. work[v].n \in Quotes
      BY <2>2, WorkedOn DEF QuoteStages
    <3> QED
      BY <1>b, <2>1, <3>1, <3>2
  <2> QED
    BY <1>c, <2>2, GoKept DEF Stages
<1>1. CASE UNCHANGED vars
  BY <1>1, WorkStays DEF vars, tables
<1>2. ASSUME NEW w \in Workers, Proceed(w) PROVE WorkInv'
  <2>1. CASE CreateReceipt(w)
    BY <2>1, <1>a DEF CreateReceipt, Stages
  <2>2. CASE Initiate(w)
    <3>1. PICK stage \in {"note", "take"} : Go(w, stage)
      BY <2>2 DEF Initiate, BuyStages
    <3> QED
      BY <2>2, <3>1, <1>a DEF Initiate, tables, Stages
  <2>3. CASE AddMessageId(w) \/ UndoWrite(w)
    BY <2>3, <1>a DEF AddMessageId, UndoWrite, Stages
  <2>4. CASE Load(w)
    <3>1. PICK stage \in {"send", "check"} : Go(w, stage)
      BY <2>4 DEF Load
    <3> QED
      BY <2>4, <3>1, <1>a DEF Load, tables, Stages
  <2>5. CASE Settle(w)
    BY <2>5, <1>c DEF Settle
  <2>6. CASE OwnerExists(w)
    BY <2>6, <1>a DEF OwnerExists, tables, Stages
  <2>7. CASE QuoteFails(w)
    <3>1. Go(w, "check")
      BY <2>7 DEF QuoteFails
    <3>2. CASE UNCHANGED quote
      BY <1>a, <3>1, <3>2 DEF Stages
    <3>3. CASE /\ ~Taken(work[w].n)
               /\ quote' = [quote EXCEPT ![work[w].n] = IF @ = "quote" THEN "failed" ELSE @]
      <4>1. ASSUME NEW v \in Workers \ {w}, work[v].at \in {"settle", "stuck"}
            PROVE  quote'[work[v].n] = quote[work[v].n]
        <5>1. work[v].n # work[w].n
          BY <3>3, <4>1 DEF Taken
        <5>2. work[v].n \in Quotes
          BY <4>1, WorkedOn DEF QuoteStages
        <5> QED
          BY <1>b, <3>3, <5>1, <5>2
      <4> QED
        BY <3>1, <4>1, GoKept DEF Stages
    <3> QED
      BY <2>7, <3>2, <3>3 DEF QuoteFails
  <2>8. CASE CheckStatus(w)
    <3>1. PICK stage \in {"idle", "refund"} : Go(w, stage)
      BY <2>8 DEF CheckStatus
    <3> QED
      BY <2>8, <3>1, <1>a DEF CheckStatus, tables, Stages
  <2>9. CASE RefundPayment(w)
    BY <2>9, <1>a DEF RefundPayment, tables, Stages
  <2> QED
    BY <1>2, <2>1, <2>2, <2>3, <2>4, <2>5, <2>6, <2>7, <2>8, <2>9, ReadIsApproved, TakeIsAlone
    DEF Proceed
<1>3. ASSUME NEW w \in Workers, Fault(w) PROVE WorkInv'
  <2>1. CASE RejectReceipt(w) \/ ReceiptUnacknowledged(w) \/ UndoFails(w) \/ GiveUp(w) \/ Crash(w)
    BY <2>1, <1>a DEF RejectReceipt, ReceiptUnacknowledged, UndoFails, GiveUp, Crash, tables, Stages
  <2>2. CASE InitiateFails(w)
    <3>1. PICK stage \in {"undo", "fail"} : Go(w, stage)
      BY <2>2 DEF InitiateFails, BuyStages
    <3> QED
      BY <2>2, <3>1, <1>a DEF InitiateFails, tables, Stages
  <2>3. CASE AddMessageIdFails(w)
    BY <2>3, <1>a DEF AddMessageIdFails, tables, Stages
  <2>4. CASE SettleFails(w)
    <3>1. Go(w, "fail")
      BY <2>4 DEF SettleFails
    <3> QED
      BY <2>4, <3>1, <1>a, <1>c DEF SettleFails, Stages
  <2> QED
    BY <1>3, <2>1, <2>2, <2>3, <2>4 DEF Fault
<1>4. ASSUME NEW w \in Workers, NEW o \in Orders, Request(w, o) PROVE WorkInv'
  BY <1>4, TakenOn DEF Request, Nonces, tables
<1>5. ASSUME NEW w \in Workers, NEW q \in Quotes, Deliver(w, q) PROVE WorkInv'
  BY <1>5, TakenOn DEF Deliver, Nonces, tables
<1>6. ASSUME NEW q \in Quotes, CreateQuote(q) PROVE WorkInv'
  <2>1. \A r : quote[r] = "quote" => quote'[r] = quote[r]
    BY <1>6 DEF CreateQuote, StoreQuote
  <2> QED
    BY <1>6, <2>1, WorkStays DEF CreateQuote
<1>7. ASSUME NEW q \in Quotes, Lapse(q) \/ Replicate(q) PROVE WorkInv'
  BY <1>7, WorkStays DEF Lapse, Replicate, tables
<1>8. ASSUME NEW p \in Users, NEW s \in Users, Revoke(p, s) PROVE WorkInv'
  BY <1>8, WorkStays DEF Revoke, tables
<1>9. ASSUME NEW m \in Names, Forget(m) PROVE WorkInv'
  BY <1>9, WorkStays DEF Forget, tables
<1>10. ASSUME NEW u \in Users, Register(u) PROVE WorkInv'
  BY <1>10, WorkStays DEF Register, tables
<1> QED
  BY <1>1, <1>2, <1>3, <1>4, <1>5, <1>6, <1>7, <1>8, <1>9, <1>10 DEF Next

-----------------------------------------------------------------------------
\* What a message makes of a record, and what a cost was looked up with, is a record.
LEMMA RecordsTyped ==
  ASSUME MoneyInv, NEW n \in Nonces
  PROVE  /\ Serve(n) => record' \in [Names -> Records]
         /\ GetTokenCost(n) => cached' \in [Names -> Records \cup {"unread"}]
<1> DEFINE m == Name[n]
<1>1. /\ record \in [Names -> Records] /\ cached \in [Names -> Records \cup {"unread"}]
  BY DEF MoneyInv, RestTyped
<1>2. m \in Names
  <2>1. Name \in [Nonces -> Names]
    BY ArNSAssumption, Zenon
  <2> QED
    BY <2>1
<1> HIDE DEF m
<1>3. ASSUME Serve(n) PROVE record' \in [Names -> Records]
  <2>1. PICK rec \in Becomes(Intent[n], record[m]) : record' = [record EXCEPT ![m] = rec]
    BY <1>3 DEF Serve, m
  <2>2. rec \in Records
    <3>1. record[m] \in Records
      BY <1>1, <1>2
    <3>2. Becomes(Intent[n], record[m]) \subseteq Records
      BY <3>1 DEF Becomes, Records
    <3> QED
      BY <3>2
  <2> QED
    BY <1>1, <2>1, <2>2
<1>4. ASSUME GetTokenCost(n) PROVE cached' \in [Names -> Records \cup {"unread"}]
  <2>1. Known(m) \in Records \cup {"unread"}
    BY <1>1, <1>2 DEF Known
  <2> QED
    BY <1>1, <1>4, <2>1 DEF GetTokenCost, m
<1> QED
  BY <1>3, <1>4

LEMMA RestStep == ArNSInv /\ MoneyInv /\ [Next]_vars => RestTyped'
<1> SUFFICES ASSUME ArNSInv, MoneyInv, [Next]_vars PROVE RestTyped'
  OBVIOUS
<1>a. RestTyped
  BY DEF MoneyInv
<1>b. ASSUME NEW w \in Workers, ~At(w, "idle") PROVE work[w].n \in Nonces
  BY <1>b, WorkedOn DEF At
<1>c. ASSUME NEW n \in Nonces
      PROVE  /\ Serve(n) => record' \in [Names -> Records]
             /\ GetTokenCost(n) => cached' \in [Names -> Records \cup {"unread"}]
  BY RecordsTyped
<1>d. /\ \A m \in Names : [cached EXCEPT ![m] = "unread"] \in [Names -> Records \cup {"unread"}]
      /\ \A m : [cached EXCEPT ![m] = "unread"] \in [Names -> Records \cup {"unread"}]
  BY <1>a DEF RestTyped
<1>e. \A q \in Quotes : Owner[q] \in Users
  BY GrantTyped
<1>1. CASE UNCHANGED vars
  BY <1>1, <1>a DEF vars, RestTyped, ledger, outside, contract, requests, history
<1>2. ASSUME NEW w \in Workers, Proceed(w) PROVE RestTyped'
  <2>1. CASE CreateReceipt(w) \/ AddMessageId(w) \/ Undo(w) \/ UndoWrite(w) \/ Load(w)
             \/ TakeQuote(w) \/ QuoteFails(w) \/ CheckStatus(w)
    BY <2>1, <1>a DEF CreateReceipt, AddMessageId, Undo, UndoWrite, Load, TakeQuote, QuoteFails,
                      CheckStatus, RestTyped, ledger, outside, contract, requests, history
  <2>2. CASE Initiate(w)
    <3>1. work[w].at \in {"buy", "send"}
      BY <2>2 DEF Initiate, BuyStages
    <3>2. record' \in [Names -> Records]
      BY <1>b, <1>c, <2>2, <3>1 DEF Initiate, At
    <3>3. cached' \in [Names -> Records \cup {"unread"}]
      BY <1>d, <2>2 DEF Initiate
    <3> QED
      BY <1>a, <2>2, <3>2, <3>3 DEF Initiate, RestTyped, ledger, requests, history
  <2>3. CASE Settle(w)
    <3>1. work[w].n \in Quotes
      BY <2>3, WorkedOn DEF Settle, Credit, At, QuoteStages
    <3>2. users' \subseteq Users
      BY <1>a, <1>e, <2>3, <3>1 DEF Settle, Credit, RestTyped
    <3> QED
      BY <1>a, <2>3, <3>2 DEF Settle, RestTyped, outside, contract, requests, history
  <2>4. CASE OwnerExists(w)
    BY <1>a, <1>b, <2>4 DEF OwnerExists, At, RestTyped, ledger, outside, contract, requests
  <2>5. CASE RefundPayment(w)
    BY <1>a, <2>5 DEF RefundPayment, RestTyped, ledger, contract, requests, history
  <2> QED
    BY <1>2, <2>1, <2>2, <2>3, <2>4, <2>5 DEF Proceed
<1>3. ASSUME NEW w \in Workers, Fault(w) PROVE RestTyped'
  <2>1. CASE RejectReceipt(w)
    BY <1>a, <2>1 DEF RejectReceipt, RestTyped, ledger, outside, contract, requests, history
  <2>2. CASE ReceiptUnacknowledged(w)
    BY <1>a, <1>b, <2>2 DEF ReceiptUnacknowledged, At, RestTyped, outside, contract, requests
  <2>3. CASE InitiateFails(w)
    <3>1. work[w].at \in {"buy", "send"}
      BY <2>3 DEF InitiateFails, BuyStages
    <3>2. work[w].n \in Nonces
      BY <1>b, <3>1 DEF At
    <3>3. record' \in [Names -> Records] /\ misreported' \subseteq Nonces
      BY <1>a, <1>c, <2>3, <3>2 DEF InitiateFails, RestTyped, contract
    <3> QED
      BY <1>a, <2>3, <3>3 DEF InitiateFails, RestTyped, ledger, requests
  <2>4. CASE AddMessageIdFails(w) \/ UndoFails(w)
    BY <1>a, <1>b, <2>4 DEF AddMessageIdFails, UndoFails, At, RestTyped, ledger, outside, contract, requests
  <2>5. CASE SettleFails(w)
    <3>1. work[w].n \in Quotes /\ work[w].n \in Nonces
      BY <2>5, WorkedOn DEF SettleFails, QuoteStages
    <3>2. users' \subseteq Users
      BY <1>a, <1>e, <2>5, <3>1 DEF SettleFails, Credit, RestTyped
    <3> QED
      BY <1>a, <2>5, <3>1, <3>2 DEF SettleFails, RestTyped, outside, contract, requests
  <2>6. CASE GiveUp(w)
    BY <1>a, <1>b, <2>6 DEF GiveUp, At, RestTyped, ledger, outside, contract, requests
  <2>7. CASE Crash(w)
    BY <1>a, <1>b, <2>7 DEF Crash, RestTyped, ledger, contract, requests
  <2> QED
    BY <1>3, <2>1, <2>2, <2>3, <2>4, <2>5, <2>6, <2>7 DEF Fault
<1>4. ASSUME NEW w \in Workers, NEW o \in Orders, Request(w, o) PROVE RestTyped'
  BY <1>4, <1>a, <1>c DEF Request, Nonces, RestTyped, ledger, contract, history
<1>5. ASSUME NEW w \in Workers, NEW q \in Quotes, Deliver(w, q) PROVE RestTyped'
  BY <1>5, <1>a DEF Deliver, RestTyped, ledger, contract, history
<1>6. ASSUME NEW q \in Quotes, CreateQuote(q) PROVE RestTyped'
  BY <1>6, <1>a, <1>c DEF CreateQuote, Nonces, RestTyped, ledger, contract, requests, history
<1>7. ASSUME NEW q \in Quotes, Lapse(q) PROVE RestTyped'
  <2>1. age' \in [Quotes -> 0 .. 2]
    BY <1>7, <1>a DEF Lapse, RestTyped
  <2> QED
    BY <1>7, <1>a, <2>1 DEF Lapse, RestTyped, ledger, contract, requests, history
<1>8. ASSUME NEW q \in Quotes, Replicate(q) PROVE RestTyped'
  BY <1>8, <1>a DEF Replicate, RestTyped, ledger, contract, requests, history
<1>9. ASSUME NEW p \in Users, NEW s \in Users, Revoke(p, s) PROVE RestTyped'
  BY <1>9, <1>a DEF Revoke, RestTyped, outside, contract, requests, history
<1>10. ASSUME NEW m \in Names, Forget(m) PROVE RestTyped'
  BY <1>10, <1>a, <1>d DEF Forget, RestTyped, ledger, contract, requests, history
<1>11. ASSUME NEW u \in Users, Register(u) PROVE RestTyped'
  BY <1>11, <1>a DEF Register, RestTyped, outside, contract, requests, history
<1> QED
  BY <1>1, <1>2, <1>3, <1>4, <1>5, <1>6, <1>7, <1>8, <1>9, <1>10, <1>11 DEF Next

-----------------------------------------------------------------------------
(* The invariant of the credits, and the theorems. *)
LEMMA InitMoney == Init => MoneyInv
<1> SUFFICES ASSUME Init PROVE MoneyInv
  OBVIOUS
<1>1. \A w \in Workers : work[w] = Free /\ work[w].at = "idle"
  BY DEF Init, Free
<1>2. ReadOK /\ Settling
  BY <1>1 DEF ReadOK, Settling, At
<1>3. WorkTyped
  BY FreeSession DEF Init, WorkTyped
<1>4. MoneyTyped
  <2>1. Funds \in [Users -> Nat]
    BY ArNSAssumption, Zenon
  <2>2. approval \in [Users -> [Users -> Approvals]]
    BY DEF Init, NoApproval, Approvals
  <2>3. spent \in [Orders -> [Users -> Nat]]
    BY DEF Init, NoSpend
  <2> QED
    BY <2>1, <2>2, <2>3 DEF Init, MoneyTyped
<1>5. Approved
  <2>1. ASSUME NEW p \in Users, NEW s \in Users
        PROVE  approval[p][s] = IF Grant[p][s] = 0 THEN NoApproval
                                ELSE [status |-> "active", used |-> 0]
    BY DEF Init
  <2> QED
    BY <2>1, GrantTyped DEF Approved, NoApproval
<1>6. Paid
  BY DEF Init, Paid, NoSpend
<1>7. RestTyped
  <2>1. KnownUsers \subseteq Users
    BY ArNSAssumption, Zenon
  <2> QED
    BY <2>1 DEF Init, RestTyped, Records
<1> QED
  BY <1>2, <1>3, <1>4, <1>5, <1>6, <1>7 DEF MoneyInv, Money

LEMMA MoneyInvariant == Spec => [](ArNSInv /\ MoneyInv)
<1>1. ArNSInv /\ MoneyInv /\ [Next]_vars => ArNSInv' /\ MoneyInv'
  BY OrderStep, TypedStep, QuoteStep, MoneyStep, WorkStep, RestStep
  DEF ArNSInv, MoneyInv, WorkInv
<1> QED
  BY InitArNS, InitMoney, <1>1, PTL DEF Spec

\* The tables, caches and workers of both kinds of purchases hold what they may.
THEOREM ArNSTyped == Spec => []TypeOK
<1>1. ArNSInv /\ MoneyInv => TypeOK
  BY DEF ArNSInv, Typed, MoneyInv, Money, MoneyTyped, WorkTyped, RestTyped, TypeOK
<1> QED
  BY MoneyInvariant, <1>1, PTL

\* Whatever fails and interleaves, purchases neither make nor lose credits, and no
\* approval falls behind its receipts, but for a refund from such an approval
\* (createArNSPurchaseReceipt, updateFailedArNSPurchase, revokeDelegatedPaymentApprovals,
\* updateArNSPurchaseQuoteToSuccess).
THEOREM CreditsAreConserved == Spec => CreditsConserved
<1>1. ArNSInv /\ MoneyInv /\ [Next]_vars =>
        [\/ Credits' # Credits
         \/ \E p, s \in Users : Behind(p, s)' /\ ~Behind(p, s)
         => \E w \in Workers : StaleUndo(w)]_vars
  BY MoneyStep DEF CreditsStay
<1> QED
  BY MoneyInvariant, <1>1, PTL DEF Spec, CreditsConserved

=============================================================================
