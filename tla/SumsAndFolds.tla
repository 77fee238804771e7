---------------------------- MODULE SumsAndFolds ----------------------------
(***************************************************************************)
(* What the proofs use of the folds of the community modules. They are     *)
(* iterations over finite sets, taking off one element at a time; here     *)
(* they are shown to exist, by well-founded induction on the subsets.      *)
(*                                                                         *)
(* SumFunctionOnSet of integers is the sum whatever the order it adds them *)
(* in: what it is of a sum of functions, of a function changed at one      *)
(* argument, or along a column of a matrix. FoldLeft over a list is the    *)
(* last of the accumulators of its prefixes (LeftFolds, Segment).          *)
(***************************************************************************)
EXTENDS Integers, SequencesExt, FiniteSetTheorems, WellFoundedInduction, TLAPS

\* Induction over the naturals, for a set instead of a predicate.
LEMMA NatSetInduction ==
  ASSUME NEW S, 0 \in S, \A n \in Nat : n \in S => n + 1 \in S
  PROVE  Nat \subseteq S
<1> SUFFICES ASSUME Nat \ S # {} PROVE FALSE
  OBVIOUS
<1> DEFINE R == OpToRel(<, Nat)
<1>1. \A x, y \in Nat : x < y => <<x, y>> \in R
  BY DEF OpToRel
<1>2. IsWellFoundedOn(R, Nat)
  BY NatLessThanWellFounded
<1> HIDE DEF R
<1>3. PICK x \in Nat \ S : \A y \in Nat \ S : ~(<<y, x>> \in R)
  BY <1>2, WFMin
<1>4. x # 0 /\ x - 1 \in Nat /\ x - 1 < x
  BY <1>3
<1>5. x - 1 \in S
  BY <1>1, <1>3, <1>4
<1>6. (x - 1) + 1 = x
  BY <1>3
<1> QED
  BY <1>3, <1>4, <1>5, <1>6

\* Induction over the subsets of a finite set, by what is left without an element.
LEMMA SubsetInduction ==
  ASSUME NEW S, IsFiniteSet(S), NEW P, {} \in P,
         \A T \in SUBSET S : T # {} /\ (\A x \in T : T \ {x} \in P) => T \in P
  PROVE  SUBSET S \subseteq P
<1> DEFINE N == {n \in Nat : \A T \in SUBSET S : Cardinality(T) = n => T \in P}
<1>1. \A T \in SUBSET S : IsFiniteSet(T) /\ Cardinality(T) \in Nat
  BY FS_Subset, FS_CardinalityType
<1>2. 0 \in N
  BY <1>1, FS_EmptySet
<1>3. ASSUME NEW n \in Nat, n \in N PROVE n + 1 \in N
  <2> SUFFICES ASSUME NEW T \in SUBSET S, Cardinality(T) = n + 1 PROVE T \in P
    OBVIOUS
  <2>1. T # {}
    <3> SUFFICES ASSUME T = {} PROVE FALSE
      OBVIOUS
    <3>1. Cardinality(T) = 0
      BY FS_EmptySet, Zenon
    <3>2. n + 1 # 0
      OBVIOUS
    <3> QED
      BY <3>1, <3>2
  <2>2. ASSUME NEW x \in T PROVE T \ {x} \in P
    <3>1. Cardinality(T \ {x}) = Cardinality(T) - 1
      BY <1>1, FS_RemoveElement
    <3>2. Cardinality(T \ {x}) = n
      BY <3>1
    <3> QED
      BY <1>3, <3>2
  <2> QED
    BY <2>1, <2>2
<1> HIDE DEF N
<1>4. Nat \subseteq N
  BY <1>2, <1>3, NatSetInduction
<1> QED
  BY <1>1, <1>4 DEF N

\* c picks an element of every subset.
Chooses(c, S) == \A s \in SUBSET S : s # {} => c[s] \in s

\* g is the fold of every subset: h makes it of the fold without what c picks.
Folds(g, S, V, base, c, h) ==
  /\ g \in [SUBSET S -> V]
  /\ \A s \in SUBSET S : g[s] = IF s = {} THEN base ELSE h[<<s, g[s \ {c[s]}]>>]

LEMMA FoldExists ==
  ASSUME NEW S, IsFiniteSet(S), NEW V, NEW base \in V,
         NEW c, Chooses(c, S), NEW h \in [(SUBSET S) \X V -> V]
  PROVE  \E g : Folds(g, S, V, base, c, h)
<1> DEFINE After(g, s) == IF s = {} THEN base ELSE h[<<s, g[s \ {c[s]}]>>]
           Upto(g, n) == \A s \in SUBSET S : Cardinality(s) =< n => g[s] = After(g, s)
           N == {n \in Nat : \E g \in [SUBSET S -> V] : Upto(g, n)}
<1>1. \A T \in SUBSET S : IsFiniteSet(T) /\ Cardinality(T) \in Nat
  BY FS_Subset, FS_CardinalityType
<1>2. \A s \in SUBSET S : s # {} =>
        /\ s \ {c[s]} \in SUBSET S
        /\ Cardinality(s \ {c[s]}) = Cardinality(s) - 1
  BY <1>1, FS_RemoveElement DEF Chooses
<1>3. 0 \in N
  <2> DEFINE g == [s \in SUBSET S |-> base]
  <2>1. \A s \in SUBSET S : Cardinality(s) =< 0 => s = {}
    BY <1>1, FS_EmptySet
  <2>2. Upto(g, 0)
    BY <2>1
  <2>3. g \in [SUBSET S -> V]
    OBVIOUS
  <2> QED
    BY <2>2, <2>3
<1>4. ASSUME NEW n \in Nat, n \in N PROVE n + 1 \in N
  <2>1. PICK g \in [SUBSET S -> V] : Upto(g, n)
    BY <1>4
  <2> DEFINE k == [s \in SUBSET S |-> After(g, s)]
  <2>2. ASSUME NEW s \in SUBSET S PROVE After(g, s) \in V
    <3>1. CASE s = {}
      BY <3>1
    <3>2. CASE s # {}
      BY <1>2, <3>2
    <3> QED
      BY <3>1, <3>2
  <2>3. k \in [SUBSET S -> V]
    BY <2>2
  <2>4. ASSUME NEW s \in SUBSET S, Cardinality(s) =< n + 1 PROVE k[s] = After(k, s)
    <3>1. CASE s = {}
      BY <3>1
    <3>2. CASE s # {}
      <4> DEFINE r == s \ {c[s]}
      <4>1. r \in SUBSET S /\ Cardinality(r) =< n
        BY <1>1, <1>2, <2>4, <3>2
      <4>2. g[r] = k[r]
        BY <2>1, <4>1
      <4> QED
        BY <3>2, <4>2
    <3> QED
      BY <3>1, <3>2
  <2>5. Upto(k, n + 1)
    BY <2>4
  <2> HIDE DEF k, Upto
  <2> QED
    BY <2>3, <2>5
<1> HIDE DEF N
<1>5. Cardinality(S) \in N
  BY <1>1, <1>3, <1>4, NatSetInduction
<1>6. PICK g \in [SUBSET S -> V] : Upto(g, Cardinality(S))
  BY <1>5 DEF N
<1>7. \A s \in SUBSET S : Cardinality(s) =< Cardinality(S)
  BY FS_Subset
<1> QED
  BY <1>6, <1>7 DEF Folds

-----------------------------------------------------------------------------
(* Sums of the values of a function over a finite set.                     *)

Some(s) == CHOOSE x \in s : TRUE

\* g gives the sum over every subset of S, by the element taken off first.
Sums(g, f, S) ==
  /\ g \in [SUBSET S -> Int]
  /\ \A s \in SUBSET S : g[s] = IF s = {} THEN 0 ELSE f[Some(s)] + g[s \ {Some(s)}]

LEMMA SumIteration ==
  ASSUME NEW S, IsFiniteSet(S), NEW f, \A x \in S : f[x] \in Int
  PROVE  \E g : Sums(g, f, S) /\ g[S] = SumFunctionOnSet(f, S)
<1> DEFINE c == [s \in SUBSET S |-> Some(s)]
           h == [a \in (SUBSET S) \X Int |-> IF a[1] = {} THEN 0 ELSE f[c[a[1]]] + a[2]]
           Step(g) == [s \in SUBSET S |-> IF s = {} THEN 0 ELSE f[Some(s)] + g[s \ {Some(s)}]]
           sum == CHOOSE g : g = Step(g)
<1>1. \A s \in SUBSET S : s # {} => Some(s) \in s
  BY DEF Some
<1>2. \A s \in SUBSET S : c[s] = Some(s)
  OBVIOUS
<1>3. h \in [(SUBSET S) \X Int -> Int]
  <2>1. ASSUME NEW a \in (SUBSET S) \X Int
        PROVE  (IF a[1] = {} THEN 0 ELSE f[c[a[1]]] + a[2]) \in Int
    <3>1. a[1] # {} => f[c[a[1]]] \in Int
      BY <1>1
    <3>2. a[2] \in Int
      OBVIOUS
    <3> QED
      BY <3>1, <3>2
  <2> QED
    BY <2>1
<1>4. \A s \in SUBSET S, v \in Int : s # {} => h[<<s, v>>] = f[Some(s)] + v
  BY <1>1
<1> HIDE DEF c, h
<1>5. PICK g \in [SUBSET S -> Int] : \A s \in SUBSET S :
        g[s] = IF s = {} THEN 0 ELSE h[<<s, g[s \ {c[s]}]>>]
  <2>1. Chooses(c, S) /\ 0 \in Int
    BY <1>1, <1>2 DEF Chooses
  <2>2. \E g : Folds(g, S, Int, 0, c, h)
    BY <1>3, <2>1, FoldExists
  <2> QED
    BY <2>2 DEF Folds
<1>6. g = Step(g)
  <2>1. ASSUME NEW s \in SUBSET S
        PROVE  g[s] = IF s = {} THEN 0 ELSE f[Some(s)] + g[s \ {Some(s)}]
    BY <1>1, <1>2, <1>4, <1>5
  <2> QED
    BY <2>1
<1>7. sum = Step(sum)
  BY <1>6, Zenon
<1>8. sum[S] = SumFunctionOnSet(f, S)
  BY DEF SumFunctionOnSet, FoldFunctionOnSet, MapThenFoldSet, Some
<1> HIDE DEF sum
<1>9. DOMAIN sum = SUBSET S /\ \A s \in SUBSET S :
        sum[s] = IF s = {} THEN 0 ELSE f[Some(s)] + sum[s \ {Some(s)}]
  BY <1>7
<1> DEFINE P == {s \in SUBSET S : sum[s] \in Int}
<1>10. SUBSET S \subseteq P
  <2>1. {} \in P
    <3>1. {} \in SUBSET S /\ sum[{}] = 0
      BY <1>9
    <3> QED
      BY <3>1
  <2>2. ASSUME NEW s \in SUBSET S, s # {}, \A x \in s : s \ {x} \in P PROVE s \in P
    <3>1. sum[s] = f[Some(s)] + sum[s \ {Some(s)}] /\ Some(s) \in s
      BY <1>1, <1>9, <2>2
    <3>2. sum[s \ {Some(s)}] \in Int
      BY <2>2, <3>1
    <3> QED
      BY <3>1, <3>2
  <2> HIDE DEF P
  <2> QED
    BY <2>1, <2>2, SubsetInduction
<1>11. sum \in [SUBSET S -> Int]
  BY <1>7, <1>10
<1> QED
  BY <1>8, <1>9, <1>11 DEF Sums

\* ... and any two such functions agree.
LEMMA SumsAgree ==
  ASSUME NEW S, IsFiniteSet(S), NEW T \in SUBSET S, NEW f, NEW g, NEW k,
         Sums(g, f, S), Sums(k, f, T)
  PROVE  \A s \in SUBSET T : k[s] = g[s]
<1> DEFINE P == {s \in SUBSET T : k[s] = g[s]}
<1>1. \A s \in SUBSET T : s # {} => Some(s) \in s
  BY DEF Some
<1>2. {} \in P
  BY DEF Sums
<1>3. ASSUME NEW s \in SUBSET T, s # {}, \A x \in s : s \ {x} \in P PROVE s \in P
  <2>1. k[s \ {Some(s)}] = g[s \ {Some(s)}]
    BY <1>1, <1>3
  <2>2. k[s] = f[Some(s)] + k[s \ {Some(s)}]
    BY <1>3 DEF Sums
  <2>3. g[s] = f[Some(s)] + g[s \ {Some(s)}]
    BY <1>3 DEF Sums
  <2> QED
    BY <2>1, <2>2, <2>3
<1>4. IsFiniteSet(T)
  BY FS_Subset
<1> HIDE DEF P
<1>5. SUBSET T \subseteq P
  BY <1>2, <1>3, <1>4, SubsetInduction
<1> QED
  BY <1>5 DEF P

\* The sum over a subset is an integer, and that of what is left with what Some picks.
LEMMA SumOfSubsets ==
  ASSUME NEW S, IsFiniteSet(S), NEW f, \A x \in S : f[x] \in Int, NEW s \in SUBSET S
  PROVE  /\ SumFunctionOnSet(f, s) \in Int
         /\ s = {} => SumFunctionOnSet(f, s) = 0
         /\ s # {} => /\ Some(s) \in s
                      /\ SumFunctionOnSet(f, s)
                           = f[Some(s)] + SumFunctionOnSet(f, s \ {Some(s)})
<1>1. PICK g : Sums(g, f, S)
  BY SumIteration
<1>2. ASSUME NEW r \in SUBSET S PROVE SumFunctionOnSet(f, r) = g[r]
  <2>1. IsFiniteSet(r) /\ \A x \in r : f[x] \in Int
    BY FS_Subset
  <2>2. PICK k : Sums(k, f, r) /\ k[r] = SumFunctionOnSet(f, r)
    BY <2>1, SumIteration
  <2>3. \A q \in SUBSET r : k[q] = g[q]
    BY <1>1, <2>2, SumsAgree
  <2> QED
    BY <2>2, <2>3
<1>3. s # {} => Some(s) \in s
  BY DEF Some
<1>4. SumFunctionOnSet(f, s) = g[s]
  BY <1>2
<1>5. SumFunctionOnSet(f, s \ {Some(s)}) = g[s \ {Some(s)}]
  BY <1>2
<1>6. g[s] \in Int /\ g[s] = IF s = {} THEN 0 ELSE f[Some(s)] + g[s \ {Some(s)}]
  BY <1>1 DEF Sums
<1> QED
  BY <1>3, <1>4, <1>5, <1>6

\* What proofs about sums need: the sum of the empty set, ...
LEMMA SumEmpty == \A f : SumFunctionOnSet(f, {}) = 0
<1> SUFFICES ASSUME NEW f PROVE SumFunctionOnSet(f, {}) = 0
  OBVIOUS
<1>1. IsFiniteSet({}) /\ {} \in SUBSET {} /\ \A x \in {} : f[x] \in Int
  BY FS_EmptySet
<1> QED
  BY <1>1, SumOfSubsets

\* ... that it is an integer, ...
LEMMA SumType ==
  ASSUME NEW S, IsFiniteSet(S), NEW f, \A x \in S : f[x] \in Int
  PROVE  SumFunctionOnSet(f, S) \in Int
  BY SumOfSubsets

\* ... and what an element adds to it.
LEMMA SumElement ==
  ASSUME NEW S, IsFiniteSet(S), NEW f, \A x \in S : f[x] \in Int, NEW x \in S
  PROVE  SumFunctionOnSet(f, S) = f[x] + SumFunctionOnSet(f, S \ {x})
<1> DEFINE sum(s) == SumFunctionOnSet(f, s)
           P == {s \in SUBSET S : \A y \in s : sum(s) = f[y] + sum(s \ {y})}
<1>1. \A s \in SUBSET S : s # {} => Some(s) \in s /\ sum(s) = f[Some(s)] + sum(s \ {Some(s)})
  BY SumOfSubsets
<1>2. \A s \in SUBSET S : sum(s) \in Int
  BY SumOfSubsets
<1> HIDE DEF sum
<1>3. {} \in P
  OBVIOUS
<1>4. ASSUME NEW s \in SUBSET S, s # {}, \A y \in s : s \ {y} \in P PROVE s \in P
  <2> SUFFICES ASSUME NEW y \in s PROVE sum(s) = f[y] + sum(s \ {y})
    OBVIOUS
  <2> DEFINE c == Some(s)
  <2>1. c \in s /\ sum(s) = f[c] + sum(s \ {c})
    BY <1>1, <1>4
  <2> HIDE DEF c
  <2>2. CASE y = c
    BY <2>1, <2>2
  <2>3. CASE y # c
    <3>1. sum(s \ {c}) = f[y] + sum((s \ {c}) \ {y})
      BY <1>4, <2>1, <2>3
    <3>2. sum(s \ {y}) = f[c] + sum((s \ {y}) \ {c})
      BY <1>4, <2>1, <2>3
    <3>3. (s \ {c}) \ {y} = (s \ {y}) \ {c}
      OBVIOUS
    <3> DEFINE rest == sum((s \ {y}) \ {c})
    <3>4. rest \in Int /\ f[c] \in Int /\ f[y] \in Int
      BY <1>2, <2>1
    <3>5. sum(s) = f[c] + (f[y] + rest) /\ sum(s \ {y}) = f[c] + rest
      BY <2>1, <3>1, <3>2, <3>3
    <3> HIDE DEF rest
    <3> QED
      BY <3>4, <3>5
  <2> QED
    BY <2>2, <2>3
<1> HIDE DEF P
<1>5. SUBSET S \subseteq P
  BY <1>3, <1>4, SubsetInduction
<1>6. S \in P
  BY <1>5
<1> QED
  BY <1>6 DEF P, sum

\* The sum of two functions is the sum of their sums.
LEMMA SumPlus ==
  ASSUME NEW S, IsFiniteSet(S), NEW f, NEW g, NEW h,
         \A x \in S : f[x] \in Int /\ g[x] \in Int /\ h[x] = f[x] + g[x]
  PROVE  SumFunctionOnSet(h, S) = SumFunctionOnSet(f, S) + SumFunctionOnSet(g, S)
<1> DEFINE P == {s \in SUBSET S :
             SumFunctionOnSet(h, s) = SumFunctionOnSet(f, s) + SumFunctionOnSet(g, s)}
<1>1. \A x \in S : h[x] \in Int
  OBVIOUS
<1>2. {} \in P
  BY SumEmpty
<1>3. ASSUME NEW s \in SUBSET S, s # {}, \A x \in s : s \ {x} \in P PROVE s \in P
  <2>1. PICK x \in s : TRUE
    BY <1>3
  <2>2. IsFiniteSet(s) /\ IsFiniteSet(s \ {x})
    BY FS_Subset
  <2>3. SumFunctionOnSet(f, s) = f[x] + SumFunctionOnSet(f, s \ {x})
    BY <2>2, SumElement
  <2>4. SumFunctionOnSet(g, s) = g[x] + SumFunctionOnSet(g, s \ {x})
    BY <2>2, SumElement
  <2>5. SumFunctionOnSet(h, s) = h[x] + SumFunctionOnSet(h, s \ {x})
    BY <1>1, <2>2, SumElement
  <2>6. SumFunctionOnSet(f, s \ {x}) \in Int /\ SumFunctionOnSet(g, s \ {x}) \in Int
    BY <2>2, SumType
  <2>7. SumFunctionOnSet(h, s \ {x}) = SumFunctionOnSet(f, s \ {x}) + SumFunctionOnSet(g, s \ {x})
    BY <1>3
  <2>8. f[x] \in Int /\ g[x] \in Int /\ h[x] = f[x] + g[x]
    OBVIOUS
  <2> QED
    BY <2>3, <2>4, <2>5, <2>6, <2>7, <2>8
<1> HIDE DEF P
<1>4. SUBSET S \subseteq P
  BY <1>2, <1>3, SubsetInduction
<1>5. S \in P
  BY <1>4
<1> QED
  BY <1>5 DEF P

LEMMA SumZero ==
  ASSUME NEW S, IsFiniteSet(S), NEW f, \A x \in S : f[x] = 0
  PROVE  SumFunctionOnSet(f, S) = 0
<1>1. SumFunctionOnSet(f, S) = SumFunctionOnSet(f, S) + SumFunctionOnSet(f, S)
  BY SumPlus
<1>2. SumFunctionOnSet(f, S) \in Int
  BY SumType
<1>3. \A n \in Int : n = n + n => n = 0
  OBVIOUS
<1> QED
  BY <1>1, <1>2, <1>3

\* Only the values on the set matter.
LEMMA SumSame ==
  ASSUME NEW S, IsFiniteSet(S), NEW f, NEW g, \A x \in S : f[x] \in Int /\ g[x] = f[x]
  PROVE  SumFunctionOnSet(g, S) = SumFunctionOnSet(f, S)
<1> DEFINE zero == [x \in S |-> 0]
<1>1. SumFunctionOnSet(zero, S) = 0
  BY SumZero
<1>2. SumFunctionOnSet(g, S) = SumFunctionOnSet(f, S) + SumFunctionOnSet(zero, S)
  BY SumPlus
<1>3. SumFunctionOnSet(f, S) \in Int
  BY SumType
<1> QED
  BY <1>1, <1>2, <1>3

LEMMA SumNat ==
  ASSUME NEW S, IsFiniteSet(S), NEW f, \A x \in S : f[x] \in Nat
  PROVE  SumFunctionOnSet(f, S) \in Nat
<1> DEFINE P == {s \in SUBSET S : SumFunctionOnSet(f, s) \in Nat}
<1>1. {} \in P
  BY SumEmpty
<1>2. ASSUME NEW s \in SUBSET S, s # {}, \A x \in s : s \ {x} \in P PROVE s \in P
  <2>1. PICK x \in s : TRUE
    BY <1>2
  <2>2. SumFunctionOnSet(f, s) = f[x] + SumFunctionOnSet(f, s \ {x})
    BY FS_Subset, SumElement
  <2>3. SumFunctionOnSet(f, s \ {x}) \in Nat /\ f[x] \in Nat
    BY <1>2
  <2> QED
    BY <2>2, <2>3
<1> HIDE DEF P
<1>3. SUBSET S \subseteq P
  BY <1>1, <1>2, SubsetInduction
<1>4. S \in P
  BY <1>3
<1> QED
  BY <1>4 DEF P

\* Of a function that is zero but on one element, the sum is that value.
LEMMA SumOne ==
  ASSUME NEW S, IsFiniteSet(S), NEW f, NEW a \in S, f[a] \in Int,
         \A x \in S : x # a => f[x] = 0
  PROVE  SumFunctionOnSet(f, S) = f[a]
<1>1. SumFunctionOnSet(f, S) = f[a] + SumFunctionOnSet(f, S \ {a})
  <2>1. \A x \in S : f[x] \in Int
    OBVIOUS
  <2> QED
    BY <2>1, SumElement
<1>2. SumFunctionOnSet(f, S \ {a}) = 0
  <2>1. IsFiniteSet(S \ {a})
    BY FS_Subset
  <2> QED
    BY <2>1, SumZero
<1> QED
  BY <1>1, <1>2

\* Elements of value zero can be left out.
LEMMA SumPart ==
  ASSUME NEW S, IsFiniteSet(S), NEW T \in SUBSET S, NEW f, \A x \in T : f[x] \in Int,
         \A x \in S \ T : f[x] = 0
  PROVE  SumFunctionOnSet(f, S) = SumFunctionOnSet(f, T)
<1> DEFINE P == {s \in SUBSET S : SumFunctionOnSet(f, s) = SumFunctionOnSet(f, s \cap T)}
<1>1. \A x \in S : f[x] \in Int
  OBVIOUS
<1>2. {} \in P
  OBVIOUS
<1>3. ASSUME NEW s \in SUBSET S, s # {}, \A x \in s : s \ {x} \in P PROVE s \in P
  <2>1. CASE s \subseteq T
    <3>1. s \cap T = s
      BY <2>1
    <3> QED
      BY <3>1
  <2>2. CASE ~(s \subseteq T)
    <3>1. PICK x \in s : x \notin T
      BY <2>2
    <3>2. SumFunctionOnSet(f, s) = f[x] + SumFunctionOnSet(f, s \ {x})
      BY <1>1, FS_Subset, SumElement
    <3>3. SumFunctionOnSet(f, s \ {x}) = SumFunctionOnSet(f, (s \ {x}) \cap T)
      BY <1>3
    <3>4. (s \ {x}) \cap T = s \cap T
      BY <3>1
    <3>5. SumFunctionOnSet(f, s \ {x}) \in Int
      BY <1>1, FS_Subset, SumType
    <3>6. f[x] = 0
      BY <3>1
    <3>7. SumFunctionOnSet(f, s) = SumFunctionOnSet(f, s \ {x})
      BY <3>2, <3>5, <3>6
    <3>8. SumFunctionOnSet(f, s) = SumFunctionOnSet(f, s \cap T)
      BY <3>3, <3>4, <3>7, Zenon
    <3> QED
      BY <3>8
  <2> QED
    BY <2>1, <2>2
<1> HIDE DEF P
<1>4. SUBSET S \subseteq P
  BY <1>2, <1>3, SubsetInduction
<1>5. S \in P /\ S \cap T = T
  BY <1>4
<1> QED
  BY <1>5 DEF P

\* A sum of what is nowhere more is no more.
LEMMA SumMonotone ==
  ASSUME NEW S, IsFiniteSet(S), NEW f, NEW g,
         \A x \in S : f[x] \in Int /\ g[x] \in Int /\ f[x] =< g[x]
  PROVE  SumFunctionOnSet(f, S) =< SumFunctionOnSet(g, S)
<1> DEFINE d == [x \in S |-> g[x] - f[x]]
<1>1. \A x \in S : d[x] \in Nat /\ d[x] \in Int /\ g[x] = f[x] + d[x]
  OBVIOUS
<1> HIDE DEF d
<1>2. SumFunctionOnSet(d, S) \in Nat
  BY <1>1, SumNat
<1>3. SumFunctionOnSet(g, S) = SumFunctionOnSet(f, S) + SumFunctionOnSet(d, S)
  BY <1>1, SumPlus
<1>4. SumFunctionOnSet(f, S) \in Int
  BY SumType
<1> QED
  BY <1>2, <1>3, <1>4

\* The sum over the image of an injection is the sum of what it makes the values.
LEMMA SumImage ==
  ASSUME NEW S, IsFiniteSet(S), NEW b, \A x, y \in S : b[x] = b[y] => x = y,
         NEW f, NEW g, \A x \in S : f[b[x]] \in Int /\ g[x] = f[b[x]]
  PROVE  SumFunctionOnSet(f, {b[x] : x \in S}) = SumFunctionOnSet(g, S)
<1> DEFINE Img(s) == {b[x] : x \in s}
           P == {s \in SUBSET S : SumFunctionOnSet(f, Img(s)) = SumFunctionOnSet(g, s)}
<1>1. \A s \in SUBSET S : IsFiniteSet(s) /\ IsFiniteSet(Img(s))
  <2> SUFFICES ASSUME NEW s \in SUBSET S PROVE IsFiniteSet(s) /\ IsFiniteSet(Img(s))
    OBVIOUS
  <2>1. IsFiniteSet(s)
    BY FS_Subset
  <2> DEFINE onto == [x \in s |-> b[x]]
  <2>2. onto \in Surjection(s, Img(s))
    BY DEF Surjection
  <2> HIDE DEF Img, onto
  <2> QED
    BY <2>1, <2>2, FS_Surjection
<1>2. {} \in P
  <2>1. Img({}) = {}
    OBVIOUS
  <2> QED
    BY <2>1, SumEmpty
<1>3. ASSUME NEW s \in SUBSET S, s # {}, \A x \in s : s \ {x} \in P PROVE s \in P
  <2>1. PICK x \in s : TRUE
    BY <1>3
  <2>2. SumFunctionOnSet(g, s) = g[x] + SumFunctionOnSet(g, s \ {x})
    BY <1>1, SumElement
  <2>3. SumFunctionOnSet(f, Img(s)) = f[b[x]] + SumFunctionOnSet(f, Img(s) \ {b[x]})
    <3>1. b[x] \in Img(s) /\ \A y \in Img(s) : f[y] \in Int
      OBVIOUS
    <3> HIDE DEF Img
    <3> QED
      BY <1>1, <3>1, SumElement
  <2>4. Img(s) \ {b[x]} = Img(s \ {x})
    OBVIOUS
  <2>5. SumFunctionOnSet(f, Img(s \ {x})) = SumFunctionOnSet(g, s \ {x})
    BY <1>3
  <2> QED
    BY <2>2, <2>3, <2>4, <2>5
<1> HIDE DEF P
<1>4. SUBSET S \subseteq P
  BY <1>2, <1>3, SubsetInduction
<1>5. S \in P
  BY <1>4
<1> QED
  BY <1>5 DEF P

\* A function that differs on one element, ...
LEMMA SumChanged ==
  ASSUME NEW S, IsFiniteSet(S), NEW f, NEW g, NEW a \in S,
         \A x \in S : f[x] \in Int /\ g[x] \in Int,
         \A x \in S : x # a => g[x] = f[x]
  PROVE  SumFunctionOnSet(g, S) = SumFunctionOnSet(f, S) + (g[a] - f[a])
<1> DEFINE e == [x \in S |-> IF x = a THEN g[a] - f[a] ELSE 0]
<1>1. \A x \in S : e[x] \in Int /\ g[x] = f[x] + e[x]
  OBVIOUS
<1>2. e[a] = g[a] - f[a] /\ \A x \in S : x # a => e[x] = 0
  OBVIOUS
<1> HIDE DEF e
<1>3. SumFunctionOnSet(g, S) = SumFunctionOnSet(f, S) + SumFunctionOnSet(e, S)
  BY <1>1, SumPlus
<1>4. SumFunctionOnSet(e, S) = e[a]
  BY <1>1, <1>2, SumOne
<1> QED
  BY <1>2, <1>3, <1>4

LEMMA SumExcept ==
  ASSUME NEW S, IsFiniteSet(S), NEW f, \A x \in S : f[x] \in Int, DOMAIN f = S,
         NEW a \in S, NEW d \in Int
  PROVE  SumFunctionOnSet([f EXCEPT ![a] = f[a] + d], S) = SumFunctionOnSet(f, S) + d
<1> DEFINE g == [f EXCEPT ![a] = f[a] + d]
<1>1. \A x \in S : f[x] \in Int /\ g[x] \in Int
  OBVIOUS
<1>2. \A x \in S : x # a => g[x] = f[x]
  OBVIOUS
<1>3. g[a] - f[a] = d
  OBVIOUS
<1> HIDE DEF g
<1>4. SumFunctionOnSet(g, S) = SumFunctionOnSet(f, S) + (g[a] - f[a])
  BY <1>1, <1>2, SumChanged
<1> QED
  BY <1>3, <1>4 DEF g

\* ... and one of pairs that differs in one column.
LEMMA SumColumn ==
  ASSUME NEW U, IsFiniteSet(U), NEW c \in U, NEW f, NEW g, NEW d,
         \A p, s \in U : f[<<p, s>>] \in Int /\ d[p] \in Int,
         \A p, s \in U : g[<<p, s>>] = f[<<p, s>>] + IF s = c THEN d[p] ELSE 0
  PROVE  SumFunctionOnSet(g, U \X U) = SumFunctionOnSet(f, U \X U) + SumFunctionOnSet(d, U)
<1> DEFINE S == U \X U
           e == [x \in S |-> IF x[2] = c THEN d[x[1]] ELSE 0]
           b == [p \in U |-> <<p, c>>]
           T == {b[p] : p \in U}
<1>1. IsFiniteSet(S)
  BY FS_Product
<1>2. ASSUME NEW x \in S
      PROVE  f[x] \in Int /\ e[x] \in Int /\ g[x] = f[x] + e[x]
  <2>1. PICK p \in U, s \in U : x = <<p, s>>
    OBVIOUS
  <2>2. e[x] = IF s = c THEN d[p] ELSE 0
    BY <2>1
  <2> QED
    BY <2>1, <2>2
<1>3. T \subseteq S /\ \A p \in U : e[b[p]] = d[p] /\ d[p] \in Int
  OBVIOUS
<1>4. \A x \in S \ T : e[x] = 0
  OBVIOUS
<1>5. \A p, q \in U : b[p] = b[q] => p = q
  OBVIOUS
<1> HIDE DEF e, b
<1>6. SumFunctionOnSet(g, S) = SumFunctionOnSet(f, S) + SumFunctionOnSet(e, S)
  <2> HIDE DEF S
  <2> QED
    BY <1>1, <1>2, SumPlus
<1>7. SumFunctionOnSet(e, S) = SumFunctionOnSet(e, T)
  <2>1. \A x \in T : e[x] \in Int
    BY <1>3
  <2> HIDE DEF S, T
  <2> QED
    BY <1>1, <1>3, <1>4, <2>1, SumPart
<1>8. SumFunctionOnSet(e, T) = SumFunctionOnSet(d, U)
  BY <1>3, <1>5, SumImage
<1> QED
  BY <1>6, <1>7, <1>8

-----------------------------------------------------------------------------
(* Folds of sequences, FoldLeft: over the positions, the last one last.    *)

LEMMA MaxOfSegment == \A i \in Nat \ {0} : Max(1 .. i) = i
<1> SUFFICES ASSUME NEW i \in Nat \ {0} PROVE Max(1 .. i) = i
  OBVIOUS
<1>1. i \in 1 .. i /\ \A y \in 1 .. i : i >= y
  OBVIOUS
<1>2. \A x \in 1 .. i : (\A y \in 1 .. i : x >= y) => x = i
  OBVIOUS
<1> QED
  BY <1>1, <1>2 DEF Max

LEMMA MaxIsIn ==
  ASSUME NEW n \in Nat, NEW s \in SUBSET (1 .. n), s # {}
  PROVE  Max(s) \in s
<1> DEFINE Top(r) == \E x \in r : \A y \in r : x >= y
           P == {r \in SUBSET s : r = {} \/ Top(r)}
<1>1. IsFiniteSet(s)
  <2>1. IsFiniteSet(1 .. n)
    BY FS_Interval
  <2> QED
    BY <2>1, FS_Subset
<1>2. ASSUME NEW r \in SUBSET s, r # {}, \A x \in r : r \ {x} \in P PROVE r \in P
  <2>1. PICK x \in r : TRUE
    BY <1>2
  <2>2. CASE r \ {x} = {}
    <3>1. \A y \in r : x >= y
      BY <2>2
    <3> QED
      BY <3>1
  <2>3. CASE Top(r \ {x})
    <3>1. PICK m \in r \ {x} : \A y \in r \ {x} : m >= y
      BY <2>3
    <3>2. CASE m >= x
      BY <3>1, <3>2
    <3>3. CASE ~(m >= x)
      <4>1. \A y \in r : x >= y
        BY <3>1, <3>3
      <4> QED
        BY <4>1
    <3> QED
      BY <3>2, <3>3
  <2> QED
    BY <1>2, <2>2, <2>3
<1>3. {} \in P
  OBVIOUS
<1> HIDE DEF P
<1>4. s \in P
  BY <1>1, <1>2, <1>3, SubsetInduction
<1>5. Top(s)
  BY <1>4 DEF P
<1> QED
  BY <1>5 DEF Max

\* A fold from the left exists: h makes the next value of a position and the last one.
LeftFolds(g, n, V, base, h) ==
  /\ g \in [SUBSET (1 .. n) -> V]
  /\ \A s \in SUBSET (1 .. n) :
       g[s] = IF s = {} THEN base ELSE h[<<Max(s), g[s \ {Max(s)}]>>]

LEMMA LeftFoldExists ==
  ASSUME NEW n \in Nat, NEW V, NEW base \in V, NEW h \in [(1 .. n) \X V -> V]
  PROVE  \E g : LeftFolds(g, n, V, base, h)
<1> DEFINE S == 1 .. n
           c == [s \in SUBSET S |-> Max(s)]
           k == [a \in (SUBSET S) \X V |-> IF a[1] = {} THEN base ELSE h[<<c[a[1]], a[2]>>]]
<1>1. IsFiniteSet(S)
  BY FS_Interval
<1>2. \A s \in SUBSET S : c[s] = Max(s) /\ (s # {} => Max(s) \in S)
  BY MaxIsIn
<1>3. Chooses(c, S)
  BY <1>2, MaxIsIn DEF Chooses
<1>4. ASSUME NEW s \in SUBSET S, NEW v \in V
      PROVE  /\ k[<<s, v>>] = IF s = {} THEN base ELSE h[<<Max(s), v>>]
             /\ k[<<s, v>>] \in V
  BY <1>2
<1>5. k \in [(SUBSET S) \X V -> V]
  <2>1. \A a \in (SUBSET S) \X V : k[a] \in V
    BY <1>4
  <2> QED
    BY <2>1
<1> HIDE DEF S, c, k
<1>6. PICK g : Folds(g, S, V, base, c, k)
  BY <1>1, <1>3, <1>5, FoldExists
<1>7. g \in [SUBSET S -> V]
  BY <1>6 DEF Folds
<1>8. ASSUME NEW s \in SUBSET S
      PROVE  g[s] = IF s = {} THEN base ELSE h[<<Max(s), g[s \ {Max(s)}]>>]
  <2>1. g[s] = IF s = {} THEN base ELSE k[<<s, g[s \ {Max(s)}]>>]
    BY <1>2, <1>6 DEF Folds
  <2> QED
    BY <1>4, <1>7, <2>1
<1> QED
  BY <1>7, <1>8 DEF S, LeftFolds

\* What is before the last position of a segment is the segment before it.
LEMMA Segment ==
  ASSUME NEW n \in Nat, NEW i \in 1 .. n
  PROVE  /\ 1 .. i \in SUBSET (1 .. n) /\ 1 .. i # {}
         /\ Max(1 .. i) = i /\ (1 .. i) \ {i} = 1 .. (i - 1)
<1>1. \A x : x \in (1 .. i) \ {i} <=> x \in 1 .. (i - 1)
  OBVIOUS
<1>2. 1 \in 1 .. i /\ i \in Nat \ {0}
  OBVIOUS
<1> QED
  BY <1>1, <1>2, MaxOfSegment

\* The last accumulator is that of the last step that changed it.
LEMMA FoldRests ==
  ASSUME NEW n \in Nat, NEW j \in 0 .. n, NEW acc,
         \A i \in (j + 1) .. n : acc[i] = acc[i - 1]
  PROVE  acc[n] = acc[j]
<1> DEFINE S == {i \in Nat : j + i =< n => acc[j + i] = acc[j]}
<1>1. 0 \in S
  OBVIOUS
<1>2. ASSUME NEW i \in Nat, i \in S PROVE i + 1 \in S
  <2> SUFFICES ASSUME j + (i + 1) =< n PROVE acc[j + (i + 1)] = acc[j]
    OBVIOUS
  <2>1. j + i =< n /\ j + (i + 1) \in (j + 1) .. n /\ (j + (i + 1)) - 1 = j + i
    OBVIOUS
  <2>2. acc[j + (i + 1)] = acc[(j + (i + 1)) - 1]
    BY <2>1
  <2> QED
    BY <1>2, <2>1, <2>2
<1> HIDE DEF S
<1>3. n - j \in Nat /\ j + (n - j) = n
  OBVIOUS
<1>4. n - j \in S
  BY <1>1, <1>2, <1>3, NatSetInduction
<1> QED
  BY <1>3, <1>4 DEF S

\* What holds of the first accumulator and of the next one holds of the last.
LEMMA FoldStaysIn ==
  ASSUME NEW n \in Nat, NEW it, NEW W, it[{}] \in W[0],
         \A i \in 1 .. n : it[1 .. (i - 1)] \in W[i - 1] => it[1 .. i] \in W[i]
  PROVE  it[1 .. n] \in W[n]
<1> DEFINE S == {i \in Nat : i =< n => it[1 .. i] \in W[i]}
<1>1. 0 \in S
  <2>1. 1 .. 0 = {}
    OBVIOUS
  <2> QED
    BY <2>1
<1>2. ASSUME NEW i \in Nat, i \in S PROVE i + 1 \in S
  <2> SUFFICES ASSUME i + 1 =< n PROVE it[1 .. (i + 1)] \in W[i + 1]
    OBVIOUS
  <2>1. i =< n /\ i + 1 \in 1 .. n /\ (i + 1) - 1 = i
    OBVIOUS
  <2>2. it[1 .. i] \in W[i]
    BY <1>2, <2>1
  <2>3. it[1 .. ((i + 1) - 1)] \in W[(i + 1) - 1] => it[1 .. (i + 1)] \in W[i + 1]
    BY <2>1
  <2> QED
    BY <2>1, <2>2, <2>3
<1> HIDE DEF S
<1>3. n \in S
  BY <1>1, <1>2, NatSetInduction
<1> QED
  BY <1>3 DEF S
=============================================================================
