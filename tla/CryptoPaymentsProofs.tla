------------------------ MODULE CryptoPaymentsProofs ------------------------
(***************************************************************************)
(* Proofs about CryptoPayments. The invariant CryptoInv says what a        *)
(* request or a run may rely on at each of its steps: a run that deleted a *)
(* row finds it deleted still, the one transaction that inserted a key     *)
(* into the credited table is the only one, a payment is confirmed from    *)
(* the moment a run or a request saw it so, and the balance a transaction  *)
(* read is covered by the audit log of its wallet.                         *)
(***************************************************************************)
EXTENDS CryptoPayments, TLAPS

Crediting == {"readUser", "write"}
Holding == {"insertCredited", "readUser", "write"}

\* What holds of one request or run at each of its steps.
SessionOK(s) ==
  /\ at[s].pc \notin {"idle", "next"} => at[s].p \in Payments
  /\ at[s].pc = "look" => at[s].next \in {2, 3}
  /\ at[s].pc = "look" /\ at[s].known =>
       credited[at[s].p] # None \/ (at[s].next = 2 /\ at[s].p \in failed)
  /\ s \in Requests /\ at[s].pc = "new" => ~at[s].known
  /\ at[s].pc \in Holding \cup {"insertPending"} => at[s].winc \in Prices
  /\ at[s].pc \in Holding \cup {"price", "delete"} => at[s].p \in confirmed
  /\ at[s].pc \in Crediting => credited[at[s].p] = None
  /\ s \in Runs /\ at[s].pc \in Holding => pending[at[s].p] # None
  /\ at[s].pc = "write" => at[s].seen <= audited[Sender[at[s].p]]

\* Two transactions never hold one credited key, two runs never one pending row.
Apart(s, t) ==
  /\ ~(at[s].pc \in Crediting /\ at[t].pc \in Crediting /\ at[s].p = at[t].p)
  /\ s \in Runs /\ t \in Runs =>
       ~(at[s].pc \in Holding /\ at[t].pc \in Holding /\ at[s].p = at[t].p)

Exclusive == \A s, t \in Processes : s # t => Apart(s, t)

Priced == \A p \in Payments : pending[p] \in Prices \cup {None}

CryptoInv ==
  /\ TypeOK
  /\ \A s \in Processes : SessionOK(s)
  /\ Exclusive
  /\ Priced
  /\ LostNotMade

\* What the step of s leaves to the others.
Others(s) ==
  /\ \A t \in Processes \ {s} : at'[t] = at[t]
  /\ confirmed \subseteq confirmed' /\ failed \subseteq failed'
  /\ \A u \in Users : audited[u] <= audited'[u]
  /\ \A p \in Payments : credited[p] # None => credited'[p] # None
  /\ \A t \in Processes \ {s} : at[t].pc \in Crediting => credited'[at[t].p] = None
  /\ \A t \in Runs \ {s} : at[t].pc \in Holding => pending'[at[t].p] # None

-----------------------------------------------------------------------------
\* A step that leaves the others their rows and keys leaves them what they rely on.
LEMMA OthersKept ==
  ASSUME TypeOK, TypeOK', NEW s \in Processes, Others(s),
         NEW t \in Processes, t # s, SessionOK(t)
  PROVE  SessionOK(t)'
<1>1. /\ at'[t] = at[t] /\ at[t] \in Positions
      /\ confirmed \subseteq confirmed' /\ failed \subseteq failed'
      /\ \A u \in Users : audited[u] <= audited'[u]
      /\ \A u \in Users : audited[u] \in Nat /\ audited'[u] \in Nat
      /\ \A p \in Payments : credited[p] # None => credited'[p] # None
      /\ at[t].pc \in Crediting => credited'[at[t].p] = None
      /\ t \in Runs /\ at[t].pc \in Holding => pending'[at[t].p] # None
      /\ at[t].seen \in Nat
  BY DEF Others, TypeOK, Positions
<1>2. /\ at[t].pc \notin {"idle", "next"} => at[t].p \in Payments
      /\ at[t].pc = "look" => at[t].next \in {2, 3}
      /\ at[t].pc = "look" /\ at[t].known =>
           credited[at[t].p] # None \/ (at[t].next = 2 /\ at[t].p \in failed)
      /\ t \in Requests /\ at[t].pc = "new" => ~at[t].known
      /\ at[t].pc \in Holding \cup {"insertPending"} => at[t].winc \in Prices
      /\ at[t].pc \in Holding \cup {"price", "delete"} => at[t].p \in confirmed
      /\ at[t].pc = "write" => at[t].seen <= audited[Sender[at[t].p]]
  BY DEF SessionOK
<1>3. at[t].pc = "write" => at[t].seen <= audited'[Sender[at[t].p]]
  <2>1. at[t].pc = "write" => Sender[at[t].p] \in Users
    BY <1>2, CryptoAssumption
  <2> QED BY <1>1, <1>2, <2>1
<1>4. at[t].pc = "look" /\ at[t].known =>
        credited'[at[t].p] # None \/ (at[t].next = 2 /\ at[t].p \in failed')
  BY <1>1, <1>2
<1> QED BY <1>1, <1>2, <1>3, <1>4 DEF SessionOK, Crediting, Holding

\* A session that has returned holds nothing and the others stay where they were.
LEMMA Returned ==
  ASSUME at \in [Processes -> Positions], NEW s \in Processes, Return(s)
  PROVE  /\ at' \in [Processes -> Positions]
         /\ at'[s].pc \in {"idle", "next"}
         /\ \A t \in Processes \ {s} : at'[t] = at[t]
<1> DEFINE rest == at[s].listed \ {at[s].p}
           n == [Idle EXCEPT !.pc = "next", !.listed = rest]
<1>1. rest \in SUBSET Payments
  BY DEF Positions
<1>2. Idle \in Positions /\ Idle.pc = "idle"
  BY DEF Idle, Positions, PCs
<1>3. n \in Positions /\ n.pc = "next"
  <2> HIDE DEF rest
  <2> QED BY <1>1, <1>2 DEF Positions, PCs
<1>4. at' = [at EXCEPT ![s] = IF rest = {} THEN Idle ELSE n]
  BY DEF Return
<1> QED BY <1>2, <1>3, <1>4

\* Sessions stay apart when the one that moved is apart from the others.
LEMMA ExclusiveKept ==
  ASSUME Exclusive, NEW s \in Processes,
         \A t \in Processes \ {s} : at'[t] = at[t],
         \A t \in Processes \ {s} : Apart(s, t)'
  PROVE  Exclusive'
<1> SUFFICES ASSUME NEW t \in Processes, NEW u \in Processes, t # u
             PROVE  Apart(t, u)'
  BY DEF Exclusive
<1>1. CASE t # s /\ u # s
  BY <1>1 DEF Exclusive, Apart
<1>2. CASE t = s
  BY <1>2
<1>3. CASE u = s
  BY <1>3 DEF Apart
<1> QED BY <1>1, <1>2, <1>3

\* A step of s that writes no table keeps the invariant, when s may rely on what it
\* relies on and holds nothing that another holds.
LEMMA QuietStep ==
  ASSUME CryptoInv, NEW s \in Processes, UNCHANGED <<confirmed, tables, money>>,
         at' \in [Processes -> Positions],
         \A t \in Processes \ {s} : at'[t] = at[t],
         SessionOK(s)',
         \A t \in Processes \ {s} : Apart(s, t)'
  PROVE  CryptoInv'
<1>1. TypeOK'
  BY DEF CryptoInv, TypeOK, tables, money
<1>2. Others(s)
  <2>1. \A t \in Processes : SessionOK(t)
    BY DEF CryptoInv
  <2>2. \A t \in Processes : at[t].pc \in Crediting => credited[at[t].p] = None
    BY <2>1 DEF SessionOK
  <2>3. \A t \in Runs : at[t].pc \in Holding => pending[at[t].p] # None
    BY <2>1 DEF SessionOK, Processes
  <2>4. \A u \in Users : audited[u] <= audited[u]
    BY DEF CryptoInv, TypeOK
  <2> QED BY <2>2, <2>3, <2>4 DEF Others, tables, money
<1>3. \A t \in Processes : SessionOK(t)'
  BY <1>1, <1>2, OthersKept DEF CryptoInv
<1>4. Exclusive'
  BY ExclusiveKept DEF CryptoInv
<1>5. Priced' /\ LostNotMade'
  BY DEF CryptoInv, Priced, LostNotMade, tables, money
<1> QED BY <1>1, <1>3, <1>4, <1>5 DEF CryptoInv

\* So does one that ends the visit or the request.
LEMMA QuietReturn ==
  ASSUME CryptoInv, NEW s \in Processes, UNCHANGED <<confirmed, tables, money>>,
         at' \in [Processes -> Positions], at'[s].pc \in {"idle", "next"},
         \A t \in Processes \ {s} : at'[t] = at[t]
  PROVE  CryptoInv'
<1>1. SessionOK(s)' /\ \A t \in Processes \ {s} : Apart(s, t)'
  BY DEF SessionOK, Apart, Crediting, Holding
<1> QED BY <1>1, QuietStep
-----------------------------------------------------------------------------
(* The steps of a request and of a run that write no table                 *)

LEMMA ConfirmKeeps ==
  ASSUME CryptoInv, NEW p \in Payments, Confirm(p)
  PROVE  CryptoInv'
<1>1. TypeOK' /\ Priced' /\ LostNotMade'
  BY DEF CryptoInv, TypeOK, Confirm, tables, money, Priced, LostNotMade
<1>2. \A s \in Processes : SessionOK(s)'
  BY DEF CryptoInv, SessionOK, Confirm, tables, money, Holding
<1>3. Exclusive'
  BY DEF CryptoInv, Exclusive, Apart, Confirm
<1> QED BY <1>1, <1>2, <1>3 DEF CryptoInv

LEMMA SubmitKeeps ==
  ASSUME CryptoInv, NEW s \in Requests, NEW p \in Payments, Submit(s, p)
  PROVE  CryptoInv'
<1> DEFINE k == Stored(p)
           r == [Idle EXCEPT !.pc = "look", !.p = p, !.next = 2, !.known = k]
<1>1. Idle \in Positions
  BY DEF Idle, Positions, PCs
<1>2. k \in BOOLEAN
  BY DEF Stored
<1>4. at' = [at EXCEPT ![s] = r] /\ UNCHANGED <<confirmed, tables, money>>
  BY DEF Submit
<1>5. k => p \in failed \/ credited[p] # None
  BY DEF Submit, Stored, Has, Tables
<1> HIDE DEF k
<1>3. r \in Positions /\ r.pc = "look" /\ r.p = p /\ r.next = 2 /\ r.known = k
  <2>1. "look" \in PCs /\ 2 \in 1 .. 3 /\ p \in Payments \cup {None}
    BY DEF PCs
  <2> QED BY <1>1, <1>2, <2>1 DEF Positions
<1> HIDE DEF r
<1>6. /\ at' \in [Processes -> Positions] /\ at'[s] = r /\ s \in Processes
      /\ \A t \in Processes \ {s} : at'[t] = at[t]
  BY <1>3, <1>4 DEF CryptoInv, TypeOK, Processes
<1>7. SessionOK(s)'
  BY <1>3, <1>4, <1>5, <1>6 DEF SessionOK, Crediting, Holding, tables
<1>8. \A t \in Processes \ {s} : Apart(s, t)'
  BY <1>3, <1>6 DEF Apart, Crediting, Holding
<1> QED BY <1>4, <1>6, <1>7, <1>8, QuietStep

LEMMA LookKeeps ==
  ASSUME CryptoInv, NEW s \in Requests, Look(s)
  PROVE  CryptoInv'
<1>1. s \in Processes /\ at \in [Processes -> Positions] /\ at[s] \in Positions
  BY DEF CryptoInv, TypeOK, Processes
<1>2. UNCHANGED <<confirmed, tables, money>> /\ at[s].pc = "look"
  BY DEF Look
<1>3. SessionOK(s)
  BY <1>1 DEF CryptoInv
<1>4. CASE Return(s)
  BY <1>1, <1>2, <1>4, Returned, QuietReturn
<1>5. CASE ~Has(Tables[at[s].next], at[s].p) /\ at[s].next = 3 /\ Goto(s, "new")
  <2>1. credited[at[s].p] = None
    BY <1>5 DEF Has, Tables
  <2>2. ~at[s].known
    BY <1>2, <1>3, <1>5, <2>1 DEF SessionOK
  <2>3. /\ at' \in [Processes -> Positions] /\ at'[s].pc = "new"
        /\ at'[s].p = at[s].p /\ at'[s].known = at[s].known
        /\ \A t \in Processes \ {s} : at'[t] = at[t]
    BY <1>1, <1>5 DEF Goto, Positions, PCs
  <2>4. SessionOK(s)' /\ \A t \in Processes \ {s} : Apart(s, t)'
    BY <1>2, <1>3, <2>2, <2>3 DEF SessionOK, Apart, Crediting, Holding
  <2> QED BY <1>1, <1>2, <2>3, <2>4, QuietStep
<1>6. CASE ~Has(Tables[at[s].next], at[s].p) /\ at[s].next # 3 /\ at' = [at EXCEPT ![s].next = 3]
  <2>1. at[s].next = 2
    BY <1>2, <1>3, <1>6 DEF SessionOK
  <2>2. at[s].p \notin failed
    BY <1>6, <2>1 DEF Has, Tables
  <2>3. /\ at' \in [Processes -> Positions] /\ at'[s].pc = "look" /\ at'[s].next = 3
        /\ at'[s].p = at[s].p /\ at'[s].known = at[s].known
        /\ \A t \in Processes \ {s} : at'[t] = at[t]
    BY <1>1, <1>2, <1>6 DEF Positions
  <2>4. SessionOK(s)' /\ \A t \in Processes \ {s} : Apart(s, t)'
    BY <1>2, <1>3, <2>1, <2>2, <2>3 DEF SessionOK, Apart, Crediting, Holding, tables
  <2> QED BY <1>1, <1>2, <2>3, <2>4, QuietStep
<1> QED BY <1>4, <1>5, <1>6 DEF Look

LEMMA AskGatewayKeeps ==
  ASSUME CryptoInv, NEW s \in Requests, NEW winc \in Prices, AskGateway(s, winc)
  PROVE  CryptoInv'
<1>1. s \in Processes /\ s \notin Runs /\ at \in [Processes -> Positions] /\ winc \in Nat
  BY CryptoAssumption DEF CryptoInv, TypeOK, Processes
<1>2. SessionOK(s) /\ at[s].pc = "new" /\ UNCHANGED <<confirmed, tables, money>>
  BY <1>1 DEF CryptoInv, AskGateway
<1>3. PICK pc \in {"insertPending", "insertCredited"} :
        /\ pc = "insertCredited" => at[s].p \in confirmed
        /\ at' = [at EXCEPT ![s] = [@ EXCEPT !.pc = pc, !.winc = winc]]
  BY DEF AskGateway
<1>4. /\ at' \in [Processes -> Positions] /\ at'[s].pc = pc
      /\ at'[s].p = at[s].p /\ at'[s].winc = winc
      /\ \A t \in Processes \ {s} : at'[t] = at[t]
  BY <1>1, <1>3 DEF Positions, PCs
<1>5. SessionOK(s)' /\ \A t \in Processes \ {s} : Apart(s, t)'
  BY <1>1, <1>2, <1>3, <1>4 DEF SessionOK, Apart, Crediting, Holding
<1> QED BY <1>1, <1>2, <1>4, <1>5, QuietStep

LEMMA StartRunKeeps ==
  ASSUME CryptoInv, NEW s \in Runs, StartRun(s)
  PROVE  CryptoInv'
<1> DEFINE rows == {p \in Payments : pending[p] # None}
           r == [Idle EXCEPT !.pc = "next", !.listed = rows]
<1>1. Idle \in Positions /\ rows \in SUBSET Payments
  BY DEF Idle, Positions, PCs
<1>2. at' = [at EXCEPT ![s] = r] /\ UNCHANGED <<confirmed, tables, money>>
  BY DEF StartRun
<1> HIDE DEF rows
<1>3. r \in Positions /\ r.pc = "next"
  BY <1>1 DEF Positions, PCs
<1> HIDE DEF r
<1>4. /\ at' \in [Processes -> Positions] /\ at'[s].pc = "next" /\ s \in Processes
      /\ \A t \in Processes \ {s} : at'[t] = at[t]
  BY <1>2, <1>3 DEF CryptoInv, TypeOK, Processes
<1> QED BY <1>2, <1>4, QuietReturn

\* SeeConfirmed, SeeNotFound and SeePending.
LEMMA VisitKeeps ==
  ASSUME CryptoInv, NEW s \in Runs, NEW p \in Payments,
         SeeConfirmed(s, p) \/ SeeNotFound(s, p) \/ SeePending(s, p)
  PROVE  CryptoInv'
<1>1. s \in Processes /\ at \in [Processes -> Positions] /\ at[s] \in Positions
  BY DEF CryptoInv, TypeOK, Processes
<1>2. UNCHANGED <<confirmed, tables, money>>
  BY DEF SeeConfirmed, SeeNotFound, SeePending, Visit
<1>3. ASSUME NEW pc \in {"price", "fail"}, Visit(s, p, pc), pc = "price" => p \in confirmed
      PROVE  CryptoInv'
  <2>1. /\ at' \in [Processes -> Positions] /\ at'[s].pc = pc /\ at'[s].p = p
        /\ \A t \in Processes \ {s} : at'[t] = at[t]
    BY <1>1, <1>3 DEF Visit, Positions, PCs
  <2>2. SessionOK(s)' /\ \A t \in Processes \ {s} : Apart(s, t)'
    BY <1>2, <1>3, <2>1 DEF SessionOK, Apart, Crediting, Holding
  <2> QED BY <1>1, <1>2, <2>1, <2>2, QuietStep
<1>4. CASE SeePending(s, p)
  <2>1. Idle \in Positions /\ Idle.pc = "idle"
    BY DEF Idle, Positions, PCs
  <2>2. /\ at' \in [Processes -> Positions] /\ at'[s].pc \in {"idle", "next"}
        /\ \A t \in Processes \ {s} : at'[t] = at[t]
    <3>1. CASE at' = [at EXCEPT ![s] = Idle]
      BY <1>1, <2>1, <3>1
    <3>2. CASE at[s].pc = "next" /\ at' = [at EXCEPT ![s].listed = @ \ {p}]
      BY <1>1, <3>2 DEF Positions
    <3> QED BY <1>4, <3>1, <3>2 DEF SeePending
  <2> QED BY <1>1, <1>2, <2>2, QuietReturn
<1> QED BY <1>3, <1>4 DEF SeeConfirmed, SeeNotFound

LEMMA AnnounceKeeps ==
  ASSUME CryptoInv, NEW s \in Runs, Announce(s)
  PROVE  CryptoInv'
<1>1. s \in Processes /\ at \in [Processes -> Positions]
  BY DEF CryptoInv, TypeOK, Processes
<1>2. SessionOK(s) /\ at[s].pc = "price" /\ UNCHANGED <<confirmed, tables, money>>
  BY <1>1 DEF CryptoInv, Announce
<1>3. /\ at' \in [Processes -> Positions] /\ at'[s].pc = "delete" /\ at'[s].p = at[s].p
      /\ \A t \in Processes \ {s} : at'[t] = at[t]
  BY <1>1 DEF Announce, Goto, Positions, PCs
<1>4. SessionOK(s)' /\ \A t \in Processes \ {s} : Apart(s, t)'
  BY <1>2, <1>3 DEF SessionOK, Apart, Crediting, Holding
<1> QED BY <1>1, <1>2, <1>3, <1>4, QuietStep

LEMMA DeletePendingKeeps ==
  ASSUME CryptoInv, NEW s \in Runs, DeletePending(s)
  PROVE  CryptoInv'
<1>1. s \in Processes /\ at \in [Processes -> Positions]
  BY DEF CryptoInv, TypeOK, Processes
<1>2. SessionOK(s) /\ at[s].pc = "delete" /\ UNCHANGED <<confirmed, tables, money>>
  BY <1>1 DEF CryptoInv, DeletePending
<1> DEFINE p == at[s].p
<1>3. p \in Payments /\ p \in confirmed
  BY <1>2 DEF SessionOK
<1>4. CASE Return(s)
  BY <1>1, <1>2, <1>4, Returned, QuietReturn
<1>5. CASE /\ pending[p] # None
           /\ at' = [at EXCEPT ![s] = [@ EXCEPT !.pc = "insertCredited", !.winc = pending[p]]]
  <2>1. pending[p] \in Prices /\ pending[p] \in Nat
    BY <1>3, <1>5, CryptoAssumption DEF CryptoInv, Priced
  <2>2. /\ at' \in [Processes -> Positions] /\ at'[s].pc = "insertCredited"
        /\ at'[s].p = p /\ at'[s].winc = pending[p]
        /\ \A t \in Processes \ {s} : at'[t] = at[t]
    BY <1>1, <1>5, <2>1 DEF Positions, PCs
  <2>3. SessionOK(s)'
    BY <1>2, <1>3, <1>5, <2>1, <2>2 DEF SessionOK, Crediting, Holding, tables
  <2>4. \A t \in Runs : at[t].p = p => at[t].pc \notin Holding
    BY DEF DeletePending, PendingHeld, Holding
  <2>5. \A t \in Processes \ {s} : Apart(s, t)'
    BY <2>2, <2>4 DEF Apart, Crediting, Holding
  <2> QED BY <1>1, <1>2, <2>2, <2>3, <2>5, QuietStep
<1> QED BY <1>4, <1>5 DEF DeletePending

-----------------------------------------------------------------------------
(* The statements that credit                                              *)

LEMMA InsertCreditedKeeps ==
  ASSUME CryptoInv, NEW s \in Processes, InsertCredited(s)
  PROVE  CryptoInv'
<1>1. at \in [Processes -> Positions]
  BY DEF CryptoInv, TypeOK
<1>2. /\ SessionOK(s) /\ at[s].pc = "insertCredited" /\ UNCHANGED <<confirmed, tables, money>>
      /\ \A t \in Processes \ {s} : Apart(s, t)
  BY DEF CryptoInv, InsertCredited, Exclusive
<1>3. CASE Return(s)
  BY <1>1, <1>2, <1>3, Returned, QuietReturn
<1>4. CASE credited[at[s].p] = None /\ Goto(s, "readUser")
  <2>1. /\ at' \in [Processes -> Positions] /\ at'[s].pc = "readUser"
        /\ at'[s].p = at[s].p /\ at'[s].winc = at[s].winc
        /\ \A t \in Processes \ {s} : at'[t] = at[t]
    BY <1>1, <1>4 DEF Goto, Positions, PCs
  <2>2. SessionOK(s)'
    BY <1>2, <1>4, <2>1 DEF SessionOK, Crediting, Holding, tables
  <2>3. \A t \in Processes : at[t].p = at[s].p => at[t].pc \notin Crediting
    BY DEF InsertCredited, CreditedHeld, Crediting
  <2>4. \A t \in Processes \ {s} : Apart(s, t)'
    BY <1>2, <2>1, <2>3 DEF Apart, Crediting, Holding
  <2> QED BY <1>2, <2>1, <2>2, <2>4, QuietStep
<1> QED BY <1>3, <1>4 DEF InsertCredited

LEMMA ReadUserKeeps ==
  ASSUME CryptoInv, NEW s \in Processes, ReadUser(s)
  PROVE  CryptoInv'
<1> DEFINE u == Sender[at[s].p]
           k == u \in user
<1>1. at \in [Processes -> Positions] /\ k \in BOOLEAN
  BY DEF CryptoInv, TypeOK
<1>2. /\ SessionOK(s) /\ at[s].pc = "readUser" /\ UNCHANGED <<confirmed, tables, money>>
      /\ \A t \in Processes \ {s} : Apart(s, t)
  BY DEF CryptoInv, ReadUser, Exclusive
<1>3. u \in Users
  BY <1>2, CryptoAssumption DEF SessionOK
<1>4. balance[u] \in Nat /\ balance[u] <= audited[u]
  BY <1>3 DEF CryptoInv, TypeOK, LostNotMade
<1>5. at' = [at EXCEPT ![s] = [@ EXCEPT !.pc = "write", !.found = k, !.seen = balance[u]]]
  BY DEF ReadUser
<1> HIDE DEF k
<1>6. "write" \in PCs
  BY DEF PCs
<1>7. /\ at' \in [Processes -> Positions] /\ at'[s].pc = "write" /\ at'[s].seen = balance[u]
      /\ at'[s].p = at[s].p /\ at'[s].winc = at[s].winc
      /\ \A t \in Processes \ {s} : at'[t] = at[t]
  BY <1>1, <1>4, <1>5, <1>6 DEF Positions
<1>8. SessionOK(s)'
  BY <1>2, <1>4, <1>7 DEF SessionOK, Crediting, Holding, tables, money
<1>9. \A t \in Processes \ {s} : Apart(s, t)'
  BY <1>2, <1>7 DEF Apart, Crediting, Holding
<1> QED BY <1>2, <1>7, <1>8, <1>9, QuietStep

LEMMA CommitCreditKeeps ==
  ASSUME CryptoInv, NEW s \in Processes, CommitCredit(s)
  PROVE  CryptoInv'
<1> DEFINE p == at[s].p
           u == Sender[p]
<1>1. at \in [Processes -> Positions] /\ at[s] \in Positions /\ at[s].seen \in Nat
  BY DEF CryptoInv, TypeOK, Positions
<1>2. /\ SessionOK(s) /\ at[s].pc = "write"
      /\ \A t \in Processes \ {s} : Apart(s, t)
  BY DEF CryptoInv, CommitCredit, Exclusive
<1>3. /\ p \in Payments /\ u \in Users /\ at[s].winc \in Prices /\ at[s].winc \in Nat
      /\ at[s].winc # None /\ credited[p] = None /\ at[s].seen <= audited[u]
  BY <1>2, CryptoAssumption DEF SessionOK, Crediting, Holding
<1>4. /\ pending' = IF s \in Runs THEN [pending EXCEPT ![p] = None] ELSE pending
      /\ credited' = [credited EXCEPT ![p] = at[s].winc]
      /\ user' = user \cup {u}
      /\ balance' = [balance EXCEPT ![u] = at[s].seen + at[s].winc]
      /\ audited' = [audited EXCEPT ![u] = @ + at[s].winc]
      /\ UNCHANGED <<confirmed, failed>> /\ Return(s)
  BY DEF CommitCredit, TakePending
<1>5. /\ at' \in [Processes -> Positions] /\ at'[s].pc \in {"idle", "next"}
      /\ \A t \in Processes \ {s} : at'[t] = at[t]
  BY <1>1, <1>4, Returned
<1>6. TypeOK'
  <2>1. pending' \in [Payments -> OptionalNat] /\ credited' \in [Payments -> OptionalNat]
    BY <1>3, <1>4 DEF CryptoInv, TypeOK, OptionalNat
  <2>2. at[s].seen + at[s].winc \in Nat /\ audited[u] + at[s].winc \in Nat
    BY <1>1, <1>3 DEF CryptoInv, TypeOK
  <2>3. user' \subseteq Users /\ balance' \in [Users -> Nat] /\ audited' \in [Users -> Nat]
    BY <1>3, <1>4, <2>2 DEF CryptoInv, TypeOK
  <2> QED BY <1>4, <1>5, <2>1, <2>3 DEF CryptoInv, TypeOK
<1>7. Others(s)
  <2>1. \A v \in Users : audited[v] <= audited'[v]
    BY <1>3, <1>4 DEF CryptoInv, TypeOK
  <2>2. \A q \in Payments : credited[q] # None => credited'[q] # None
    BY <1>3, <1>4 DEF CryptoInv, TypeOK
  <2>3. ASSUME NEW t \in Processes \ {s}, at[t].pc \in Crediting
        PROVE  credited'[at[t].p] = None
    <3>1. at[t].p # p
      BY <1>2, <2>3 DEF Apart, Crediting
    <3>2. at[t].p \in Payments /\ credited[at[t].p] = None
      BY <2>3 DEF CryptoInv, SessionOK, Crediting
    <3> QED BY <1>4, <3>1, <3>2 DEF CryptoInv, TypeOK
  <2>4. ASSUME NEW t \in Runs \ {s}, at[t].pc \in Holding
        PROVE  pending'[at[t].p] # None
    <3>1. at[t].p \in Payments /\ pending[at[t].p] # None
      BY <2>4 DEF CryptoInv, SessionOK, Holding, Processes
    <3>2. s \in Runs => at[t].p # p
      BY <1>2, <2>4 DEF Apart, Holding, Processes
    <3> QED BY <1>4, <3>1, <3>2 DEF CryptoInv, TypeOK
  <2> QED BY <1>4, <1>5, <2>1, <2>2, <2>3, <2>4 DEF Others
<1>8. \A t \in Processes : SessionOK(t)'
  <2>1. SessionOK(s)'
    BY <1>5 DEF SessionOK, Crediting, Holding
  <2> QED BY <1>6, <1>7, <2>1, OthersKept DEF CryptoInv
<1>9. Exclusive'
  <2>1. \A t \in Processes \ {s} : Apart(s, t)'
    BY <1>5 DEF Apart, Crediting, Holding
  <2> QED BY <1>5, <2>1, ExclusiveKept DEF CryptoInv
<1>10. Priced'
  BY <1>3, <1>4 DEF CryptoInv, Priced, TypeOK
<1>11. LostNotMade'
  BY <1>1, <1>3, <1>4 DEF CryptoInv, LostNotMade, TypeOK
<1> QED BY <1>6, <1>8, <1>9, <1>10, <1>11 DEF CryptoInv

-----------------------------------------------------------------------------
(* The other two steps that write a table                                  *)

LEMMA InsertPendingKeeps ==
  ASSUME CryptoInv, NEW s \in Requests, InsertPending(s)
  PROVE  CryptoInv'
<1> DEFINE p == at[s].p
<1>1. s \in Processes /\ at \in [Processes -> Positions]
  BY DEF CryptoInv, TypeOK, Processes
<1>2. SessionOK(s) /\ at[s].pc = "insertPending" /\ Return(s)
  BY <1>1 DEF CryptoInv, InsertPending
<1>3. p \in Payments /\ at[s].winc \in Prices /\ at[s].winc \in Nat
  BY <1>2, CryptoAssumption DEF SessionOK
<1>4. /\ at' \in [Processes -> Positions] /\ at'[s].pc \in {"idle", "next"}
      /\ \A t \in Processes \ {s} : at'[t] = at[t]
  BY <1>1, <1>2, Returned
<1>5. /\ pending' = pending \/ pending' = [pending EXCEPT ![p] = at[s].winc]
      /\ UNCHANGED <<confirmed, credited, failed, money>>
  BY DEF InsertPending
<1>6. TypeOK'
  BY <1>3, <1>4, <1>5 DEF CryptoInv, TypeOK, OptionalNat, money
<1>7. Others(s)
  <2>1. \A t \in Processes : SessionOK(t)
    BY DEF CryptoInv
  <2>2. \A t \in Processes : at[t].pc \in Crediting => credited[at[t].p] = None
    BY <2>1 DEF SessionOK
  <2>3. \A t \in Runs : at[t].pc \in Holding => at[t].p \in Payments /\ pending[at[t].p] # None
    BY <2>1 DEF SessionOK, Processes, Holding
  <2>4. \A q \in Payments : pending[q] # None => pending'[q] # None
    BY <1>3, <1>5, CryptoAssumption DEF CryptoInv, TypeOK
  <2>5. \A v \in Users : audited[v] <= audited[v]
    BY DEF CryptoInv, TypeOK
  <2> QED BY <1>4, <1>5, <2>2, <2>3, <2>4, <2>5 DEF Others, money
<1>8. \A t \in Processes : SessionOK(t)'
  <2>1. SessionOK(s)'
    BY <1>4 DEF SessionOK, Crediting, Holding
  <2> QED BY <1>1, <1>6, <1>7, <2>1, OthersKept DEF CryptoInv
<1>9. Exclusive'
  <2>1. \A t \in Processes \ {s} : Apart(s, t)'
    BY <1>4 DEF Apart, Crediting, Holding
  <2> QED BY <1>1, <1>4, <2>1, ExclusiveKept DEF CryptoInv
<1>10. Priced' /\ LostNotMade'
  BY <1>3, <1>5 DEF CryptoInv, Priced, TypeOK, LostNotMade, money
<1> QED BY <1>6, <1>8, <1>9, <1>10 DEF CryptoInv

LEMMA FailPendingKeeps ==
  ASSUME CryptoInv, NEW s \in Runs, FailPending(s)
  PROVE  CryptoInv'
<1> DEFINE p == at[s].p
<1>1. s \in Processes /\ at \in [Processes -> Positions]
  BY DEF CryptoInv, TypeOK, Processes
<1>2. SessionOK(s) /\ at[s].pc = "fail" /\ Return(s) /\ ~PendingHeld(p)
  BY <1>1 DEF CryptoInv, FailPending
<1>3. p \in Payments
  BY <1>2 DEF SessionOK
<1>4. /\ at' \in [Processes -> Positions] /\ at'[s].pc \in {"idle", "next"}
      /\ \A t \in Processes \ {s} : at'[t] = at[t]
  BY <1>1, <1>2, Returned
<1>5. /\ pending' = pending \/ pending' = [pending EXCEPT ![p] = None]
      /\ failed' = failed \/ failed' = failed \cup {p}
      /\ UNCHANGED <<confirmed, credited, money>>
  BY DEF FailPending
<1>6. TypeOK'
  BY <1>3, <1>4, <1>5 DEF CryptoInv, TypeOK, OptionalNat, money
<1>7. Others(s)
  <2>1. \A t \in Processes : SessionOK(t)
    BY DEF CryptoInv
  <2>2. \A t \in Processes : at[t].pc \in Crediting => credited[at[t].p] = None
    BY <2>1 DEF SessionOK
  <2>3. \A t \in Runs : at[t].pc \in Holding => at[t].p \in Payments /\ pending[at[t].p] # None
    BY <2>1 DEF SessionOK, Processes, Holding
  <2>4. \A t \in Runs : at[t].pc \in Holding => at[t].p # p
    BY <1>2 DEF PendingHeld, Holding
  <2>5. \A q \in Payments \ {p} : pending[q] # None => pending'[q] # None
    BY <1>3, <1>5 DEF CryptoInv, TypeOK
  <2>6. \A v \in Users : audited[v] <= audited[v]
    BY DEF CryptoInv, TypeOK
  <2> QED BY <1>4, <1>5, <2>2, <2>3, <2>4, <2>5, <2>6 DEF Others, money
<1>8. \A t \in Processes : SessionOK(t)'
  <2>1. SessionOK(s)'
    BY <1>4 DEF SessionOK, Crediting, Holding
  <2> QED BY <1>1, <1>6, <1>7, <2>1, OthersKept DEF CryptoInv
<1>9. Exclusive'
  <2>1. \A t \in Processes \ {s} : Apart(s, t)'
    BY <1>4 DEF Apart, Crediting, Holding
  <2> QED BY <1>1, <1>4, <2>1, ExclusiveKept DEF CryptoInv
<1>10. Priced' /\ LostNotMade'
  BY <1>5 DEF CryptoInv, Priced, TypeOK, LostNotMade, money
<1> QED BY <1>6, <1>8, <1>9, <1>10 DEF CryptoInv

\* A failed commit, an error, a lost process.
LEMMA GiveUpKeeps ==
  ASSUME CryptoInv, NEW s \in Processes, FailCredit(s) \/ Abort(s) \/ Crash(s)
  PROVE  CryptoInv'
<1>1. at \in [Processes -> Positions] /\ UNCHANGED <<confirmed, tables, money>>
  BY DEF CryptoInv, TypeOK, FailCredit, Abort, Crash
<1>2. CASE Return(s)
  BY <1>1, <1>2, Returned, QuietReturn
<1>3. CASE at' = [at EXCEPT ![s] = Idle]
  <2>1. Idle \in Positions /\ Idle.pc = "idle"
    BY DEF Idle, Positions, PCs
  <2>2. /\ at' \in [Processes -> Positions] /\ at'[s].pc \in {"idle", "next"}
        /\ \A t \in Processes \ {s} : at'[t] = at[t]
    BY <1>1, <1>3, <2>1
  <2> QED BY <1>1, <2>2, QuietReturn
<1> QED BY <1>2, <1>3 DEF FailCredit, Abort, Crash

-----------------------------------------------------------------------------
(* The invariant and what follows from it                                  *)

LEMMA InitInv == Init => CryptoInv
<1> SUFFICES ASSUME Init PROVE CryptoInv
  OBVIOUS
<1>1. Idle \in Positions /\ Idle.pc = "idle"
  BY DEF Idle, Positions, PCs
<1>2. TypeOK
  BY <1>1, CryptoAssumption DEF Init, TypeOK, OptionalNat
<1>3. \A s \in Processes : at[s].pc = "idle"
  BY <1>1 DEF Init
<1>4. (\A s \in Processes : SessionOK(s)) /\ Exclusive
  BY <1>3 DEF SessionOK, Exclusive, Apart, Crediting, Holding
<1>5. Priced /\ LostNotMade
  BY DEF Init, Priced, LostNotMade
<1> QED BY <1>2, <1>4, <1>5 DEF CryptoInv

LEMMA NextInv == CryptoInv /\ [Next]_vars => CryptoInv'
<1> SUFFICES ASSUME CryptoInv, [Next]_vars PROVE CryptoInv'
  OBVIOUS
<1>1. ASSUME NEW p \in Payments, Confirm(p) PROVE CryptoInv'
  BY <1>1, ConfirmKeeps
<1>2. ASSUME NEW s \in Requests, Request(s) PROVE CryptoInv'
  BY <1>2, SubmitKeeps, LookKeeps, InsertPendingKeeps, AskGatewayKeeps DEF Request
<1>3. ASSUME NEW s \in Runs, Run(s) PROVE CryptoInv'
  BY <1>3, StartRunKeeps, AnnounceKeeps, DeletePendingKeeps, FailPendingKeeps, VisitKeeps DEF Run
<1>4. ASSUME NEW s \in Processes, Credit(s) \/ Abort(s) \/ Crash(s) PROVE CryptoInv'
  BY <1>4, InsertCreditedKeeps, ReadUserKeeps, CommitCreditKeeps, GiveUpKeeps DEF Credit
<1>5. CASE UNCHANGED vars
  BY <1>5 DEF vars, tables, money, CryptoInv, TypeOK, SessionOK, Exclusive, Apart, Priced,
     LostNotMade
<1> QED BY <1>1, <1>2, <1>3, <1>4, <1>5 DEF Next

LEMMA Invariant == Spec => []CryptoInv
BY InitInv, NextInv, PTL DEF Spec

\* The tables, the balances and the positions keep their types.
THEOREM CryptoTyped == Spec => []TypeOK
<1>1. CryptoInv => TypeOK
  BY DEF CryptoInv
<1> QED BY <1>1, Invariant, PTL

\* checkForPendingTransaction takes a payment for a new one only if no table had it when
\* it began: pending rows move towards the tables it has not read yet.
THEOREM NoneMissedTheorem == Spec => []NoneMissed
<1>1. CryptoInv => NoneMissed
  BY DEF CryptoInv, SessionOK, NoneMissed, Processes
<1> QED BY <1>1, Invariant, PTL

\* A wallet holds at most what the audit log says it was credited.
THEOREM LostNotMadeTheorem == Spec => []LostNotMade
<1>1. CryptoInv => LostNotMade
  BY DEF CryptoInv
<1> QED BY <1>1, Invariant, PTL

\* A payment comes to be in two tables only by the INSERT of a request that had found it
\* in none; the transactions of the job take the row out as they put it elsewhere.
THEOREM SecondTableTheorem == Spec => SecondTableByRequest
<1> DEFINE A == \A p \in Payments : InTwo(p)' /\ ~InTwo(p) => \E s \in Requests : Inserts(s, p)
<1>1. CryptoInv /\ [Next]_vars => A
  <2> SUFFICES ASSUME CryptoInv, [Next]_vars, NEW p \in Payments, InTwo(p)', ~InTwo(p)
               PROVE  \E s \in Requests : Inserts(s, p)
    OBVIOUS
  <2>1. \/ pending'[p] # None /\ p \in failed'
        \/ pending'[p] # None /\ credited'[p] # None
        \/ p \in failed' /\ credited'[p] # None
    BY DEF InTwo, Has
  <2>2. /\ ~(pending[p] # None /\ p \in failed)
        /\ ~(pending[p] # None /\ credited[p] # None)
        /\ ~(p \in failed /\ credited[p] # None)
    <3>1. Has("pending", p) <=> pending[p] # None
      BY DEF Has
    <3>2. Has("failed", p) <=> p \in failed
      BY DEF Has
    <3>3. Has("credited", p) <=> credited[p] # None
      BY DEF Has
    <3> QED BY <3>1, <3>2, <3>3 DEF InTwo
  <2>3. CASE UNCHANGED tables
    BY <2>1, <2>2, <2>3 DEF tables
  <2>4. ASSUME NEW s \in Requests, InsertPending(s)
        PROVE  \E t \in Requests : Inserts(t, p)
    <3>1. at[s].pc = "insertPending" /\ UNCHANGED <<credited, failed>>
      BY <2>4 DEF InsertPending
    <3>2. at[s].p # p => pending'[p] = pending[p]
      BY <2>4 DEF InsertPending, CryptoInv, TypeOK
    <3>3. at[s].p = p
      BY <2>1, <2>2, <3>1, <3>2
    <3> QED BY <3>1, <3>3 DEF Inserts, On
  <2>5. ASSUME NEW s \in Runs, FailPending(s)
        PROVE  FALSE
    <3>1. /\ credited' = credited
          /\ \/ UNCHANGED <<pending, failed>>
             \/ /\ pending[at[s].p] # None
                /\ pending' = [pending EXCEPT ![at[s].p] = None]
                /\ failed' = failed \cup {at[s].p}
      BY <2>5 DEF FailPending
    <3>2. pending \in [Payments -> OptionalNat]
      BY DEF CryptoInv, TypeOK
    <3> QED BY <2>1, <2>2, <3>1, <3>2
  <2>6. ASSUME NEW s \in Processes, CommitCredit(s)
        PROVE  \E t \in Requests : Inserts(t, p)
    <3>1. /\ at[s].pc = "write" /\ failed' = failed
          /\ pending' = IF s \in Runs THEN [pending EXCEPT ![at[s].p] = None] ELSE pending
          /\ credited' = [credited EXCEPT ![at[s].p] = at[s].winc]
      BY <2>6 DEF CommitCredit, TakePending
    <3>2. pending \in [Payments -> OptionalNat] /\ credited \in [Payments -> OptionalNat]
      BY DEF CryptoInv, TypeOK
    <3>3. s \in Runs => pending[at[s].p] # None
      BY <3>1 DEF CryptoInv, SessionOK, Holding
    <3>4. s \notin Runs /\ at[s].p = p
      BY <2>1, <2>2, <3>1, <3>2, <3>3
    <3> QED BY <3>1, <3>4 DEF Inserts, On, Processes
  <2>7. ASSUME NEW s \in Processes,
               InsertCredited(s) \/ ReadUser(s) \/ FailCredit(s) \/ Abort(s) \/ Crash(s)
        PROVE  UNCHANGED tables
    BY <2>7 DEF InsertCredited, ReadUser, FailCredit, Abort, Crash
  <2>8. ASSUME NEW s \in Requests, Request(s), ~InsertPending(s)
        PROVE  UNCHANGED tables
    BY <2>8 DEF Request, Submit, Look, AskGateway
  <2>9. ASSUME NEW s \in Runs, Run(s), ~FailPending(s)
        PROVE  UNCHANGED tables
    BY <2>9 DEF Run, StartRun, Announce, DeletePending, SeeConfirmed, SeeNotFound, SeePending,
       Visit
  <2>10. ASSUME NEW q \in Payments, Confirm(q)
         PROVE  UNCHANGED tables
    BY <2>10 DEF Confirm
  <2>11. (UNCHANGED vars) => UNCHANGED tables
    BY DEF vars
  <2> QED BY <2>3, <2>4, <2>5, <2>6, <2>7, <2>8, <2>9, <2>10, <2>11 DEF Next, Credit
<1>2. CryptoInv /\ [Next]_vars => [A]_vars
  BY <1>1
<1> QED BY <1>2, Invariant, PTL DEF Spec, SecondTableByRequest

\* Every payment is credited once at most, to its sender, for a price of the service, and
\* only when it is confirmed: the tables and handlers implement the promise.
THEOREM CryptoRefinement == Spec => KeepsPromise
<1>1. Init => Promise!Init
  BY DEF Init, Promise!Init
<1>2. CryptoInv /\ [Next]_vars => [Promise!Next]_Promise!vars
  <2> SUFFICES ASSUME CryptoInv, [Next]_vars PROVE [Promise!Next]_Promise!vars
    OBVIOUS
  <2> DEFINE Same == UNCHANGED <<confirmed, credited, audited>>
  <2>1. ASSUME NEW p \in Payments, Confirm(p)
        PROVE  Promise!Next
    BY <2>1 DEF Confirm, tables, money, Promise!Next, Promise!Confirm
  <2>2. ASSUME NEW s \in Processes, CommitCredit(s)
        PROVE  Promise!Next
    <3>1. SessionOK(s) /\ at[s].pc = "write"
      BY <2>2 DEF CryptoInv, CommitCredit
    <3>2. at[s].p \in Payments /\ at[s].winc \in Prices
      BY <3>1 DEF SessionOK, Holding
    <3>3. Promise!Credit(at[s].p, at[s].winc)
      BY <2>2, <3>1 DEF SessionOK, Holding, Crediting, CommitCredit, Promise!Credit
    <3> QED BY <3>2, <3>3 DEF Promise!Next
  <2>3. ASSUME NEW s \in Processes,
               InsertCredited(s) \/ ReadUser(s) \/ FailCredit(s) \/ Abort(s) \/ Crash(s)
        PROVE  Same
    BY <2>3 DEF InsertCredited, ReadUser, FailCredit, Abort, Crash, tables, money
  <2>4. ASSUME NEW s \in Requests, Request(s)
        PROVE  Same
    BY <2>4 DEF Request, Submit, Look, AskGateway, InsertPending, tables, money
  <2>5. ASSUME NEW s \in Runs, Run(s)
        PROVE  Same
    BY <2>5 DEF Run, StartRun, Announce, DeletePending, SeeConfirmed, SeeNotFound, SeePending,
       Visit, FailPending, tables, money
  <2>6. (UNCHANGED vars) => Same
    BY DEF vars, tables, money
  <2>7. Same => UNCHANGED Promise!vars
    BY DEF Promise!vars
  <2> HIDE DEF Same
  <2> QED BY <2>1, <2>2, <2>3, <2>4, <2>5, <2>6, <2>7 DEF Next, Credit
<1> QED BY <1>1, <1>2, Invariant, PTL DEF Spec, KeepsPromise, Promise!Spec
=============================================================================
