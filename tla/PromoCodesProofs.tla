--------------------------- MODULE PromoCodesProofs ---------------------------
(***************************************************************************)
(* Proofs about PromoCodes, for any users, quotes, codes and catalogs.     *)
(*                                                                         *)
(* A payment that has counted the uses of a catalog keeps its quote, so    *)
(* the payments that counted it, and may yet redeem it, are among the      *)
(* quotes the last of them counted (CountedBelow). A payment that asked    *)
(* for its user's receipts saw those there were before it (AskedFirst).    *)
(***************************************************************************)
EXTENDS PromoCodes, FiniteSetTheorems, TLAPS

USE DEF Tables, Stages, Reasons

Placed ==
  \A q \in Quotes :
    /\ work[q].at = "priced" => table[q] = "none"
    /\ work[q].at = "checking" => table[q] = "quote"
    /\ \A r \in before[q] : table[r] \in {"receipt", "chargeback"} /\ user[r] = user[q]

Counted(c) ==
  {q \in Quotes :
     /\ c \in adjusted[q]
     /\ \/ table[q] \in {"receipt", "chargeback"}
        \/ work[q].at = "checking" /\ (c \in work[q].counted \/ c \notin work[q].left)}

CountedBelow ==
  \A c \in Catalogs : MaxUses[c] > 0 => Cardinality(Counted(c)) < MaxUses[c]

Asked(q, c) == table[q] = "receipt" \/ (work[q].at = "checking" /\ c \notin work[q].left)

AskedFirst ==
  \A q, r \in Quotes : \A c \in adjusted[q] :
    Asked(q, c) /\ r \in before[q] /\ table[r] = "receipt"
    => Group[c] # "new" /\ c \notin adjusted[r]

IInv == TypeOK /\ Placed /\ CountedBelow /\ AskedFirst

-----------------------------------------------------------------------------
(* At the start nothing is quoted. *)
LEMMA InitIInv == Init => IInv
<1> SUFFICES ASSUME Init PROVE IInv
  OBVIOUS
<1> USE PromoAssumption
<1>1. TypeOK
  BY SMTT(30) DEF Init, TypeOK, At, Rows
<1>2. Placed /\ AskedFirst
  BY DEF Init, Placed, AskedFirst, At
<1>3. ASSUME NEW c \in Catalogs, MaxUses[c] > 0 PROVE Cardinality(Counted(c)) < MaxUses[c]
  <2>1. Counted(c) = {}
    BY DEF Init, Counted
  <2> QED
    BY <1>3, <2>1, FS_EmptySet
<1> QED
  BY <1>1, <1>2, <1>3 DEF IInv, CountedBelow

(* Every step keeps the types. *)
LEMMA TypeStep == TypeOK /\ [Next]_vars => TypeOK'
<1> SUFFICES ASSUME TypeOK, [Next]_vars PROVE TypeOK'
  OBVIOUS
<1> USE PromoAssumption DEF TypeOK, At, quoting, rows
<1>1. ASSUME NEW q \in Quotes, NEW codes \in SUBSET Codes, NEW amount \in Amounts,
             Price(q, codes, amount)
      PROVE  TypeOK'
  BY <1>1 DEF Price, MostRecent, Matching
<1>2. ASSUME NEW q \in Quotes, CreateTopUpQuote(q) PROVE TypeOK'
  BY <1>2 DEF CreateTopUpQuote
<1>3. ASSUME NEW q \in Quotes, ReadQuote(q) PROVE TypeOK'
  BY <1>3 DEF ReadQuote, Receipts
<1>4. ASSUME NEW q \in Quotes, RefuseExpiredQuote(q) PROVE TypeOK'
  BY <1>4 DEF RefuseExpiredQuote, Refuse
<1>refuse. ASSUME NEW q \in Quotes, NEW why \in Reasons, Refuse(q, why) PROVE TypeOK'
  BY <1>refuse DEF Refuse
<1>goes. ASSUME NEW q \in Quotes, NEW w, Goes(q, w), w.counted \subseteq w.left,
              w \in [at : Stages, left : SUBSET Catalogs, counted : SUBSET Catalogs]
       PROVE  TypeOK'
  BY <1>goes DEF Goes
<1>5. ASSUME NEW q \in Quotes, NEW c \in Catalogs, CountUses(q, c) PROVE TypeOK'
  <2>1. CASE ~Expired(c) /\ ~UsedUp(Rows, c)
    <3> DEFINE w == [work[q] EXCEPT !.counted = {c}]
    <3>1. Goes(q, w) /\ c \in work[q].left
      BY <1>5, <2>1 DEF CountUses
    <3>2. work[q] \in [at : Stages, left : SUBSET Catalogs, counted : SUBSET Catalogs]
      OBVIOUS
    <3>3. /\ w \in [at : Stages, left : SUBSET Catalogs, counted : SUBSET Catalogs]
          /\ w.counted = {c} /\ w.left = work[q].left
      BY ONLY <3>2, c \in Catalogs
    <3>4. w.counted \subseteq w.left
      BY <3>1, <3>3
    <3> HIDE DEF w
    <3> QED
      BY <1>goes, <3>1, <3>3, <3>4
  <2>2. CASE Expired(c) \/ UsedUp(Rows, c)
    BY <1>refuse, <1>5, <2>2 DEF CountUses
  <2> QED
    BY <2>1, <2>2
<1>6. ASSUME NEW q \in Quotes, NEW c \in Catalogs, CheckUser(q, c) PROVE TypeOK'
  <2>1. CASE ~Ineligible(Rows, user[q], c)
    <3>1. Goes(q, At("checking", work[q].left \ {c}))
      BY <1>6, <2>1 DEF CheckUser
    <3>2. At("checking", work[q].left \ {c}) \in
            [at : Stages, left : SUBSET Catalogs, counted : SUBSET Catalogs]
      OBVIOUS
    <3> QED
      BY <1>goes, <3>1, <3>2
  <2>2. CASE Ineligible(Rows, user[q], c)
    BY <1>refuse, <1>6, <2>2 DEF CheckUser
  <2> QED
    BY <2>1, <2>2
<1>7. ASSUME NEW q \in Quotes, CreatePaymentReceipt(q) PROVE TypeOK'
  BY <1>7 DEF CreatePaymentReceipt
<1>8. ASSUME NEW q \in Quotes, CreateChargebackReceipt(q) PROVE TypeOK'
  BY <1>8 DEF CreateChargebackReceipt
<1>9. ASSUME NEW q \in Quotes, Crash(q) PROVE TypeOK'
  BY <1>9 DEF Crash, Goes
<1>10. CASE Replicate
  BY <1>10 DEF Replicate, Rows
<1>11. CASE Tick
  BY <1>11 DEF Tick
<1>12. CASE UNCHANGED vars
  BY <1>12 DEF vars
<1> QED
  BY <1>1, <1>2, <1>3, <1>4, <1>5, <1>6, <1>7, <1>8, <1>9, <1>10, <1>11, <1>12 DEF Next

(* The quotes that counted c grow by none in a step that counts nothing. *)
LEMMA CountedShrinks ==
  ASSUME TypeOK, CountedBelow, \A c \in Catalogs : Counted(c)' \subseteq Counted(c)
  PROVE  CountedBelow'
<1> SUFFICES ASSUME NEW c \in Catalogs, MaxUses[c] > 0
             PROVE  Cardinality(Counted(c)') < MaxUses[c]
  BY DEF CountedBelow
<1>1. IsFiniteSet(Counted(c))
  BY PromoAssumption, FS_Subset DEF Counted
<1>2. Cardinality(Counted(c)') =< Cardinality(Counted(c))
  BY <1>1, FS_Subset
<1>3. Cardinality(Counted(c)) \in Nat /\ Cardinality(Counted(c)') \in Nat
  BY <1>1, FS_Subset, FS_CardinalityType
<1> QED
  BY <1>2, <1>3, PromoAssumption DEF CountedBelow

(* Every step keeps the rest of the inductive invariant. *)
LEMMA StepIInv == IInv /\ [Next]_vars => IInv'
<1> SUFFICES ASSUME IInv, [Next]_vars PROVE IInv'
  OBVIOUS
<1>0. TypeOK /\ TypeOK'
  BY TypeStep DEF IInv
<1> SUFFICES Placed' /\ CountedBelow' /\ AskedFirst'
  BY <1>0 DEF IInv
<1> USE <1>0, PromoAssumption DEF IInv, Placed, AskedFirst, Asked, At, quoting, rows
<1>1. ASSUME NEW q \in Quotes, NEW codes \in SUBSET Codes, NEW amount \in Amounts,
             Price(q, codes, amount)
      PROVE  Placed' /\ CountedBelow' /\ AskedFirst'
  <2>1. Placed' /\ AskedFirst'
    BY <1>1 DEF Price, TypeOK
  <2>2. \A c \in Catalogs : Counted(c)' \subseteq Counted(c)
    BY <1>1 DEF Price, TypeOK, Counted
  <2> QED
    BY <2>1, <2>2, CountedShrinks
<1>2. ASSUME NEW q \in Quotes, CreateTopUpQuote(q)
      PROVE  Placed' /\ CountedBelow' /\ AskedFirst'
  <2>1. Placed' /\ AskedFirst'
    BY <1>2 DEF CreateTopUpQuote, TypeOK
  <2>2. \A c \in Catalogs : Counted(c)' \subseteq Counted(c)
    BY <1>2 DEF CreateTopUpQuote, TypeOK, Counted
  <2> QED
    BY <2>1, <2>2, CountedShrinks
<1>3. ASSUME NEW q \in Quotes, ReadQuote(q)
      PROVE  Placed' /\ CountedBelow' /\ AskedFirst'
  <2>1. Placed' /\ AskedFirst'
    BY <1>3 DEF ReadQuote, Receipts, Rows, TypeOK
  <2>2. \A c \in Catalogs : Counted(c)' \subseteq Counted(c)
    BY <1>3 DEF ReadQuote, TypeOK, Counted
  <2> QED
    BY <2>1, <2>2, CountedShrinks
<1>4. ASSUME NEW q \in Quotes, NEW why, Refuse(q, why),
             work[q].at = "checking" \/ table[q] = "quote"
      PROVE  Placed' /\ CountedBelow' /\ AskedFirst'
  <2>1. Placed' /\ AskedFirst'
    BY <1>4 DEF Refuse, TypeOK
  <2>2. \A c \in Catalogs : Counted(c)' \subseteq Counted(c)
    BY <1>4 DEF Refuse, TypeOK, Counted
  <2> QED
    BY <2>1, <2>2, CountedShrinks
<1>5. ASSUME NEW q \in Quotes, NEW c \in Catalogs, CountUses(q, c)
      PROVE  Placed' /\ CountedBelow' /\ AskedFirst'
  <2>1. CASE ~Expired(c) /\ ~UsedUp(Rows, c)
    <3>1. Goes(q, [work[q] EXCEPT !.counted = {c}])
      BY <1>5, <2>1 DEF CountUses
    <3>2. Placed' /\ AskedFirst'
      BY <1>5, <3>1 DEF CountUses, Goes, TypeOK
    <3>3. ASSUME NEW d \in Catalogs, MaxUses[d] > 0
          PROVE  Cardinality(Counted(d)') < MaxUses[d]
      <4>1. CASE d = c
        <5>1. Counted(d)' \subseteq Uses(Rows, c) /\ IsFiniteSet(Uses(Rows, c))
          BY <3>1, <4>1, FS_Subset DEF Goes, Counted, Uses, Rows
        <5>2. Cardinality(Uses(Rows, c)) < MaxUses[c] /\ Cardinality(Uses(Rows, c)) \in Nat
          BY <2>1, <3>3, <4>1, <5>1, FS_CardinalityType DEF UsedUp
        <5>3. /\ Cardinality(Counted(d)') =< Cardinality(Uses(Rows, c))
              /\ Cardinality(Counted(d)') \in Nat
          BY <5>1, FS_Subset, FS_CardinalityType
        <5> QED
          BY <4>1, <5>2, <5>3
      <4>2. CASE d # c
        <5>1. Counted(d)' \subseteq Counted(d)
          BY <1>5, <3>1, <4>2 DEF CountUses, Goes, Counted, TypeOK
        <5>2. IsFiniteSet(Counted(d))
          BY FS_Subset DEF Counted
        <5>3. Cardinality(Counted(d)') =< Cardinality(Counted(d))
          BY <5>1, <5>2, FS_Subset
        <5>4. Cardinality(Counted(d)') \in Nat /\ Cardinality(Counted(d)) \in Nat
          BY <5>1, <5>2, FS_Subset, FS_CardinalityType
        <5> QED
          BY <3>3, <5>3, <5>4 DEF CountedBelow
      <4> QED
        BY <4>1, <4>2
    <3> QED
      BY <3>2, <3>3 DEF CountedBelow
  <2>2. CASE Expired(c) \/ UsedUp(Rows, c)
    BY <1>4, <1>5, <2>2 DEF CountUses
  <2> QED
    BY <2>1, <2>2
<1>6. ASSUME NEW q \in Quotes, NEW c \in Catalogs, CheckUser(q, c)
      PROVE  Placed' /\ CountedBelow' /\ AskedFirst'
  <2>1. CASE ~Ineligible(Rows, user[q], c)
    <3>1. Goes(q, At("checking", work[q].left \ {c}))
      BY <1>6, <2>1 DEF CheckUser
    <3>2. Placed'
      BY <1>6, <3>1 DEF CheckUser, Goes, TypeOK
    <3>3. AskedFirst'
      BY <1>6, <2>1, <3>1 DEF CheckUser, Goes, TypeOK, Ineligible, Receipts, Rows
    <3>4. \A d \in Catalogs : Counted(d)' \subseteq Counted(d)
      BY <1>6, <3>1 DEF CheckUser, Goes, TypeOK, Counted
    <3> QED
      BY <3>2, <3>3, <3>4, CountedShrinks
  <2>2. CASE Ineligible(Rows, user[q], c)
    BY <1>4, <1>6, <2>2 DEF CheckUser
  <2> QED
    BY <2>1, <2>2
<1>7. ASSUME NEW q \in Quotes, CreatePaymentReceipt(q)
      PROVE  Placed' /\ CountedBelow' /\ AskedFirst'
  <2>1. Placed' /\ AskedFirst'
    BY <1>7 DEF CreatePaymentReceipt, TypeOK
  <2>2. \A c \in Catalogs : Counted(c)' \subseteq Counted(c)
    BY <1>7 DEF CreatePaymentReceipt, TypeOK, Counted
  <2> QED
    BY <2>1, <2>2, CountedShrinks
<1>8. ASSUME NEW q \in Quotes, CreateChargebackReceipt(q)
      PROVE  Placed' /\ CountedBelow' /\ AskedFirst'
  <2>1. Placed' /\ AskedFirst'
    BY <1>8 DEF CreateChargebackReceipt, TypeOK
  <2>2. \A c \in Catalogs : Counted(c)' \subseteq Counted(c)
    BY <1>8 DEF CreateChargebackReceipt, TypeOK, Counted
  <2> QED
    BY <2>1, <2>2, CountedShrinks
<1>9. ASSUME NEW q \in Quotes, Crash(q)
      PROVE  Placed' /\ CountedBelow' /\ AskedFirst'
  <2>1. Placed' /\ AskedFirst'
    BY <1>9 DEF Crash, Goes, TypeOK
  <2>2. \A c \in Catalogs : Counted(c)' \subseteq Counted(c)
    BY <1>9 DEF Crash, Goes, TypeOK, Counted
  <2> QED
    BY <2>1, <2>2, CountedShrinks
<1>10. CASE UNCHANGED <<table, user, adjusted, work, before>>
  <2>1. Placed' /\ AskedFirst'
    BY <1>10
  <2>2. \A c \in Catalogs : Counted(c)' \subseteq Counted(c)
    BY <1>10 DEF Counted
  <2> QED
    BY <2>1, <2>2, CountedShrinks
<1>11. CASE Replicate \/ Tick \/ UNCHANGED vars
  BY <1>10, <1>11 DEF Replicate, Tick, vars
<1>12. ASSUME NEW q \in Quotes, RefuseExpiredQuote(q)
       PROVE  Placed' /\ CountedBelow' /\ AskedFirst'
  BY <1>4, <1>12 DEF RefuseExpiredQuote
<1> QED
  BY <1>1, <1>2, <1>3, <1>5, <1>6, <1>7, <1>8, <1>9, <1>11, <1>12 DEF Next

-----------------------------------------------------------------------------
(* The variables have their types, and what is counted is still to do. *)
THEOREM TypeCorrect == Spec => []TypeOK
<1>1. Init => TypeOK
  BY InitIInv DEF IInv
<1> QED
  BY <1>1, TypeStep, PTL DEF Spec

(* The inductive invariant holds of every behaviour. *)
LEMMA Inductive == Spec => []IInv
  BY InitIInv, StepIInv, PTL DEF Spec

(* However many payments overlap, no code is redeemed more often than its  *)
(* max_uses allows.                                                        *)
THEOREM UsesAreLimited == Spec => []WithinMaxUses
<1>1. IInv => WithinMaxUses
  <2> SUFFICES ASSUME IInv, NEW c \in Catalogs, MaxUses[c] > 0
               PROVE  Cardinality(Redeemed(c)) =< MaxUses[c]
    BY DEF WithinMaxUses
  <2>1. Redeemed(c) \subseteq Counted(c) /\ IsFiniteSet(Counted(c))
    BY PromoAssumption, FS_Subset DEF Redeemed, Uses, Rows, Counted
  <2>2. /\ Cardinality(Redeemed(c)) =< Cardinality(Counted(c))
        /\ Cardinality(Redeemed(c)) \in Nat /\ Cardinality(Counted(c)) \in Nat
    BY <2>1, FS_Subset, FS_CardinalityType
  <2> QED
    BY <2>2, PromoAssumption DEF IInv, CountedBelow
<1> QED
  BY <1>1, Inductive, PTL

(* A code with max_uses can be redeemed one time less than that: a code    *)
(* for one use by nobody.                                                  *)
THEOREM LastUseIsLost ==
  Spec => [](\A c \in Catalogs : MaxUses[c] > 0 => Cardinality(Redeemed(c)) < MaxUses[c])
<1>1. IInv => \A c \in Catalogs : MaxUses[c] > 0 => Cardinality(Redeemed(c)) < MaxUses[c]
  <2> SUFFICES ASSUME IInv, NEW c \in Catalogs, MaxUses[c] > 0
               PROVE  Cardinality(Redeemed(c)) < MaxUses[c]
    OBVIOUS
  <2>1. Redeemed(c) \subseteq Counted(c) /\ IsFiniteSet(Counted(c))
    BY PromoAssumption, FS_Subset DEF Redeemed, Uses, Rows, Counted
  <2>2. /\ Cardinality(Redeemed(c)) =< Cardinality(Counted(c))
        /\ Cardinality(Redeemed(c)) \in Nat /\ Cardinality(Counted(c)) \in Nat
    BY <2>1, FS_Subset, FS_CardinalityType
  <2> QED
    BY <2>2, PromoAssumption DEF IInv, CountedBelow
<1> QED
  BY <1>1, Inductive, PTL

(* A user redeems no code twice, and no code for new users after another   *)
(* payment, unless the payments overlapped.                                *)
THEOREM UsersRedeemOnce == Spec => []RedeemedOnce
<1>1. IInv => RedeemedOnce
  BY DEF IInv, AskedFirst, Asked, RedeemedOnce
<1> QED
  BY <1>1, Inductive, PTL
=============================================================================
