---------------------------- MODULE SumTheorems ----------------------------
(***************************************************************************)
(* Sums of natural numbers over finite sets, as MapThenSumSet computes     *)
(* them.  The library's induction theorems take an operator; here a set of *)
(* subsets takes its place, and a smallest counterexample that of the      *)
(* induction hypothesis.                                                   *)
(***************************************************************************)
EXTENDS Integers, FiniteSetsExt, FiniteSetTheorems, WellFoundedInduction, TLAPS

Weigh(f, S) == MapThenSumSet(LAMBDA x : f[x], S)

LEMMA LeastNumber ==
  ASSUME NEW N \in SUBSET Nat, N # {}
  PROVE  \E n \in N : \A m \in N : n <= m
<1> DEFINE Less == OpToRel(<, Nat)
<1>1. \E i \in N : \A j \in N : ~(<<j, i>> \in Less)
  <2>1. IsWellFoundedOn(Less, Nat)
    BY NatLessThanWellFounded, Zenon
  <2> HIDE DEF Less
  <2> QED
    BY <2>1, WFMin
<1>2. PICK i \in N : \A j \in N : ~(<<j, i>> \in {ss \in Nat \X Nat : ss[1] < ss[2]})
  BY <1>1, Zenon DEF OpToRel
<1>3. ASSUME NEW j \in N PROVE i <= j
  <2>1. i \in Nat /\ j \in Nat
    OBVIOUS
  <2>2. ~(j < i)
    <3> SUFFICES ASSUME j < i PROVE FALSE
      OBVIOUS
    <3>1. <<j, i>> \in Nat \X Nat /\ <<j, i>>[1] = j /\ <<j, i>>[2] = i
      BY <2>1
    <3>2. <<j, i>>[1] < <<j, i>>[2]
      BY <3>1
    <3>3. <<j, i>> \in {ss \in Nat \X Nat : ss[1] < ss[2]}
      BY <3>1, <3>2
    <3> QED
      BY <1>2, <3>3
  <2> QED
    BY <2>1, <2>2
<1> QED
  BY <1>3

\* What holds of a set when it holds of all that lack one of its elements,
\* holds of a finite set.
LEMMA FiniteInduction ==
  ASSUME NEW S, IsFiniteSet(S), NEW A,
         \A s \in SUBSET S : (\A x \in s : s \ {x} \in A) => s \in A
  PROVE  S \in A
<1> SUFFICES ASSUME S \notin A PROVE FALSE
  OBVIOUS
<1> DEFINE N == {Cardinality(s) : s \in {t \in SUBSET S : t \notin A}}
<1>1. \A s \in SUBSET S : IsFiniteSet(s) /\ Cardinality(s) \in Nat
  BY FS_Subset, FS_CardinalityType
<1>2. N \in SUBSET Nat /\ N # {}
  BY <1>1
<1>3. PICK n \in N : \A m \in N : n <= m
  <2> HIDE DEF N
  <2> QED
    BY <1>2, LeastNumber
<1>4. PICK s \in SUBSET S : s \notin A /\ n = Cardinality(s)
  OBVIOUS
<1>5. PICK x \in s : s \ {x} \notin A
  BY <1>4
<1>6. Cardinality(s \ {x}) = Cardinality(s) - 1
  BY <1>1, FS_RemoveElement
<1>7. Cardinality(s \ {x}) \in N
  BY <1>5
<1>8. n <= Cardinality(s \ {x}) /\ n \in Nat
  <2> HIDE DEF N
  <2> QED
    BY <1>2, <1>3, <1>7
<1> QED
  BY <1>4, <1>6, <1>8

-----------------------------------------------------------------------------
(* The recursion behind MapThenSumSet.                                     *)

Pick(s) == CHOOSE x \in s : TRUE

Adds(g, f, S) ==
  g = [s \in SUBSET S |-> IF s = {} THEN 0 ELSE f[Pick(s)] + g[s \ {Pick(s)}]]

LEMMA WeighIsFold ==
  ASSUME NEW f, NEW S
  PROVE  Weigh(f, S) = (CHOOSE g : Adds(g, f, S))[S]
  BY DEF Weigh, MapThenSumSet, MapThenFoldSet, Adds, Pick

LEMMA PickIsIn == ASSUME NEW s, s # {} PROVE Pick(s) \in s
  BY DEF Pick

LEMMA AddsStep ==
  ASSUME NEW g, NEW f, NEW S, Adds(g, f, S), NEW s \in SUBSET S
  PROVE  g[s] = IF s = {} THEN 0 ELSE f[Pick(s)] + g[s \ {Pick(s)}]
<1> DEFINE h == [t \in SUBSET S |-> IF t = {} THEN 0 ELSE f[Pick(t)] + g[t \ {Pick(t)}]]
<1>1. g = h
  BY DEF Adds
<1>2. h[s] = IF s = {} THEN 0 ELSE f[Pick(s)] + g[s \ {Pick(s)}]
  OBVIOUS
<1> HIDE DEF h
<1> QED
  BY <1>1, <1>2

LEMMA AddsAgree ==
  ASSUME NEW f, NEW S, NEW T, NEW g, NEW h, Adds(g, f, S), Adds(h, f, T),
         NEW r \in SUBSET S, r \in SUBSET T, IsFiniteSet(r)
  PROVE  g[r] = h[r]
<1> DEFINE A == {s \in SUBSET r : g[s] = h[s]}
<1>1. ASSUME NEW s \in SUBSET r, \A x \in s : s \ {x} \in A
      PROVE  s \in A
  <2>1. s \in SUBSET S /\ s \in SUBSET T
    OBVIOUS
  <2>2. CASE s = {}
    <3>1. g[s] = 0 /\ h[s] = 0
      BY <2>1, <2>2, AddsStep
    <3> QED
      BY <3>1
  <2>3. CASE s # {}
    <3>1. s \ {Pick(s)} \in A
      BY <1>1, <2>3, PickIsIn
    <3>2. g[s] = f[Pick(s)] + g[s \ {Pick(s)}] /\ h[s] = f[Pick(s)] + h[s \ {Pick(s)}]
      BY <2>1, <2>3, AddsStep
    <3> QED
      BY <3>1, <3>2
  <2> QED
    BY <2>2, <2>3
<1>2. r \in A
  <2> HIDE DEF A
  <2> QED
    BY <1>1, FiniteInduction
<1> QED
  BY <1>2

LEMMA AddsExists ==
  ASSUME NEW f, NEW S, IsFiniteSet(S)
  PROVE  \E g : Adds(g, f, S)
<1> DEFINE A == {s \in SUBSET S : \E g : Adds(g, f, s)}
           chosen(s) == CHOOSE g : Adds(g, f, s)
<1>1. ASSUME NEW s \in SUBSET S, \A x \in s : s \ {x} \in A
      PROVE  s \in A
  <2>0. IsFiniteSet(s) /\ \A t \in SUBSET s : IsFiniteSet(t)
    BY FS_Subset
  <2>1. ASSUME NEW t \in SUBSET s, t # s
        PROVE  \E g : Adds(g, f, t)
    <3>1. PICK x \in s : t \subseteq s \ {x}
      BY <2>1
    <3>2. PICK g : Adds(g, f, s \ {x})
      BY <1>1
    <3> DEFINE h == [u \in SUBSET t |-> g[u]]
    <3>3. ASSUME NEW u \in SUBSET t
          PROVE  h[u] = IF u = {} THEN 0 ELSE f[Pick(u)] + h[u \ {Pick(u)}]
      <4>1. u \in SUBSET (s \ {x}) /\ u \ {Pick(u)} \in SUBSET t
        BY <3>1
      <4>2. h[u] = g[u] /\ h[u \ {Pick(u)}] = g[u \ {Pick(u)}]
        BY <4>1
      <4> HIDE DEF h
      <4> QED
        BY <3>2, <4>1, <4>2, AddsStep
    <3>4. h = [u \in SUBSET t |-> h[u]]
      OBVIOUS
    <3>5. Adds(h, f, t)
      <4> HIDE DEF h
      <4> QED
        BY <3>3, <3>4 DEF Adds
    <3> QED
      BY <3>5
  <2>2. \A t \in SUBSET s : t # s => Adds(chosen(t), f, t)
    BY <2>1
  <2>3. CASE s = {}
    <3> DEFINE h == [u \in SUBSET s |-> 0]
    <3>1. \A u \in SUBSET s : u = {} /\ h[u] = 0
      BY <2>3
    <3>2. h = [u \in SUBSET s |-> h[u]]
      OBVIOUS
    <3>3. Adds(h, f, s)
      <4> HIDE DEF h
      <4> QED
        BY <3>1, <3>2 DEF Adds
    <3> QED
      BY <3>3
  <2>4. CASE s # {}
    <3> DEFINE rest == s \ {Pick(s)}
               h == [u \in SUBSET s |-> IF u = s THEN f[Pick(s)] + chosen(rest)[rest]
                                        ELSE chosen(u)[u]]
    <3>1. rest # s /\ rest \in SUBSET s
      BY <2>4, PickIsIn
    <3>2. ASSUME NEW u \in SUBSET s
          PROVE  h[u] = IF u = {} THEN 0 ELSE f[Pick(u)] + h[u \ {Pick(u)}]
      <4>1. CASE u = s
        <5>1. h[u] = f[Pick(s)] + chosen(rest)[rest] /\ h[rest] = chosen(rest)[rest]
          BY <3>1, <4>1
        <5> HIDE DEF h, chosen
        <5> QED
          BY <2>4, <4>1, <5>1
      <4>2. CASE u # s
        <5>1. h[u] = chosen(u)[u] /\ Adds(chosen(u), f, u) /\ u \in SUBSET u
          BY <2>2, <4>2
        <5>2. CASE u = {}
          <6> HIDE DEF h, chosen
          <6> QED
            BY <5>1, <5>2, AddsStep
        <5>3. CASE u # {}
          <6> DEFINE v == u \ {Pick(u)}
          <6>1. v \in SUBSET s /\ v # s /\ v \in SUBSET u /\ v \in SUBSET v
            BY <5>3, PickIsIn
          <6>2. h[v] = chosen(v)[v] /\ Adds(chosen(v), f, v) /\ IsFiniteSet(v)
            BY <2>0, <2>2, <6>1
          <6> HIDE DEF h, chosen, v
          <6>3. chosen(u)[v] = chosen(v)[v]
            BY <5>1, <6>1, <6>2, AddsAgree
          <6>4. chosen(u)[u] = f[Pick(u)] + chosen(u)[v]
            BY <5>1, <5>3, AddsStep DEF v
          <6> QED
            BY <5>1, <5>3, <6>2, <6>3, <6>4 DEF v
        <5> QED
          BY <5>2, <5>3
      <4> QED
        BY <4>1, <4>2
    <3>3. h = [u \in SUBSET s |-> h[u]]
      OBVIOUS
    <3>4. Adds(h, f, s)
      <4> HIDE DEF h
      <4> QED
        BY <3>2, <3>3 DEF Adds
    <3> QED
      BY <3>4
  <2> QED
    BY <2>3, <2>4
<1>2. S \in A
  <2> HIDE DEF A
  <2> QED
    BY <1>1, FiniteInduction
<1> QED
  BY <1>2

LEMMA WeighStep ==
  ASSUME NEW f, NEW S, IsFiniteSet(S)
  PROVE  Weigh(f, S) = IF S = {} THEN 0 ELSE f[Pick(S)] + Weigh(f, S \ {Pick(S)})
<1> DEFINE g == CHOOSE g : Adds(g, f, S)
           T == S \ {Pick(S)}
           h == CHOOSE h : Adds(h, f, T)
<1>1. IsFiniteSet(T) /\ T \in SUBSET S /\ T \in SUBSET T /\ S \in SUBSET S
  BY FS_Subset
<1>2. Adds(g, f, S) /\ Adds(h, f, T)
  <2> HIDE DEF T
  <2> QED
    BY <1>1, AddsExists
<1>3. Weigh(f, S) = g[S] /\ Weigh(f, T) = h[T]
  BY WeighIsFold
<1> HIDE DEF g, h
<1>4. g[S] = IF S = {} THEN 0 ELSE f[Pick(S)] + g[T]
  BY <1>1, <1>2, AddsStep
<1>5. g[T] = h[T]
  <2> HIDE DEF T
  <2> QED
    BY <1>1, <1>2, AddsAgree
<1> QED
  BY <1>3, <1>4, <1>5

-----------------------------------------------------------------------------
(* What a sum is.                                                          *)

LEMMA SumEmpty == ASSUME NEW f PROVE Weigh(f, {}) = 0
  BY WeighStep, FS_EmptySet

LEMMA SumIsNat ==
  ASSUME NEW f, NEW S, IsFiniteSet(S), \A x \in S : f[x] \in Nat
  PROVE  Weigh(f, S) \in Nat
<1> DEFINE A == {s \in SUBSET S : Weigh(f, s) \in Nat}
<1>1. ASSUME NEW s \in SUBSET S, \A x \in s : s \ {x} \in A
      PROVE  s \in A
  <2>1. IsFiniteSet(s)
    BY FS_Subset
  <2>2. CASE s = {}
    BY <2>2, SumEmpty
  <2>3. CASE s # {}
    <3>1. Pick(s) \in s
      BY <2>3, PickIsIn
    <3>2. Weigh(f, s \ {Pick(s)}) \in Nat /\ f[Pick(s)] \in Nat
      BY <1>1, <3>1
    <3> QED
      BY <2>1, <2>3, <3>2, WeighStep
  <2> QED
    BY <2>2, <2>3
<1>2. S \in A
  <2> HIDE DEF A
  <2> QED
    BY <1>1, FiniteInduction
<1> QED
  BY <1>2

\* Any element may be the last.
LEMMA SumRemove ==
  ASSUME NEW f, NEW S, IsFiniteSet(S), \A x \in S : f[x] \in Nat, NEW y \in S
  PROVE  Weigh(f, S) = f[y] + Weigh(f, S \ {y})
<1> DEFINE A == {s \in SUBSET S : \A x \in s : Weigh(f, s) = f[x] + Weigh(f, s \ {x})}
<1>1. ASSUME NEW s \in SUBSET S, \A x \in s : s \ {x} \in A
      PROVE  s \in A
  <2>1. \A t \in SUBSET s : IsFiniteSet(t) /\ Weigh(f, t) \in Nat
    BY FS_Subset, SumIsNat
  <2>2. ASSUME NEW x \in s
        PROVE  Weigh(f, s) = f[x] + Weigh(f, s \ {x})
    <3> DEFINE p == Pick(s)
    <3>1. p \in s /\ f[p] \in Nat /\ f[x] \in Nat
      BY PickIsIn
    <3>2. Weigh(f, s) = f[p] + Weigh(f, s \ {p})
      BY <2>1, WeighStep
    <3>3. CASE x = p
      BY <3>2, <3>3
    <3>4. CASE x # p
      <4>1. /\ x \in s \ {p} /\ p \in s \ {x}
            /\ (s \ {p}) \ {x} = (s \ {x}) \ {p}
        BY <3>1, <3>4
      <4>2. /\ Weigh(f, s \ {p}) = f[x] + Weigh(f, (s \ {p}) \ {x})
            /\ Weigh(f, s \ {x}) = f[p] + Weigh(f, (s \ {x}) \ {p})
        BY <1>1, <3>1, <4>1
      <4> DEFINE w == Weigh(f, (s \ {p}) \ {x})
      <4>3. w \in Nat
        BY <2>1
      <4>4. Weigh(f, s \ {p}) = f[x] + w /\ Weigh(f, s \ {x}) = f[p] + w
        BY <4>1, <4>2
      <4> HIDE DEF p, w
      <4> QED
        BY <3>1, <3>2, <4>3, <4>4
    <3> QED
      BY <3>3, <3>4
  <2> QED
    BY <2>2
<1>2. S \in A
  <2> HIDE DEF A
  <2> QED
    BY <1>1, FiniteInduction
<1> QED
  BY <1>2

LEMMA SumAdd ==
  ASSUME NEW f, NEW S, IsFiniteSet(S), NEW y, y \notin S,
         \A x \in S \cup {y} : f[x] \in Nat
  PROVE  Weigh(f, S \cup {y}) = Weigh(f, S) + f[y]
<1>1. IsFiniteSet(S \cup {y}) /\ (S \cup {y}) \ {y} = S
  BY FS_AddElement
<1>2. Weigh(f, S \cup {y}) = f[y] + Weigh(f, S)
  BY <1>1, SumRemove
<1>3. Weigh(f, S) \in Nat
  BY SumIsNat
<1> QED
  BY <1>2, <1>3

LEMMA SumUnion ==
  ASSUME NEW f, NEW S, NEW T, IsFiniteSet(S), IsFiniteSet(T), S \cap T = {},
         \A x \in S \cup T : f[x] \in Nat
  PROVE  Weigh(f, S \cup T) = Weigh(f, S) + Weigh(f, T)
<1> DEFINE A == {t \in SUBSET T : Weigh(f, S \cup t) = Weigh(f, S) + Weigh(f, t)}
<1>1. Weigh(f, S) \in Nat
  BY SumIsNat
<1>2. ASSUME NEW t \in SUBSET T, \A x \in t : t \ {x} \in A
      PROVE  t \in A
  <2>1. IsFiniteSet(t) /\ IsFiniteSet(S \cup t)
    BY FS_Subset, FS_Union
  <2>2. CASE t = {}
    <3>1. S \cup t = S
      BY <2>2
    <3> QED
      BY <1>1, <2>2, <3>1, SumEmpty
  <2>3. CASE t # {}
    <3>1. PICK x \in t : TRUE
      BY <2>3
    <3>2. /\ x \in S \cup t /\ (S \cup t) \ {x} = S \cup (t \ {x})
          /\ \A z \in S \cup t : f[z] \in Nat
      BY <3>1
    <3>3. Weigh(f, S \cup t) = f[x] + Weigh(f, S \cup (t \ {x}))
      BY <2>1, <3>2, SumRemove
    <3>4. Weigh(f, t) = f[x] + Weigh(f, t \ {x})
      BY <2>1, <3>1, <3>2, SumRemove
    <3>5. Weigh(f, S \cup (t \ {x})) = Weigh(f, S) + Weigh(f, t \ {x})
      BY <1>2, <3>1
    <3>6. Weigh(f, t \ {x}) \in Nat /\ f[x] \in Nat
      BY <2>1, <3>1, <3>2, FS_Subset, SumIsNat
    <3> QED
      BY <1>1, <3>3, <3>4, <3>5, <3>6
  <2> QED
    BY <2>2, <2>3
<1>3. T \in A
  <2> HIDE DEF A
  <2> QED
    BY <1>2, FiniteInduction
<1> QED
  BY <1>3

\* Only the weights of the elements matter.
LEMMA SumSame ==
  ASSUME NEW f, NEW g, NEW S, IsFiniteSet(S), \A x \in S : f[x] = g[x]
  PROVE  Weigh(f, S) = Weigh(g, S)
<1> DEFINE A == {s \in SUBSET S : Weigh(f, s) = Weigh(g, s)}
<1>1. ASSUME NEW s \in SUBSET S, \A x \in s : s \ {x} \in A
      PROVE  s \in A
  <2>1. IsFiniteSet(s)
    BY FS_Subset
  <2>2. CASE s = {}
    BY <2>2, SumEmpty
  <2>3. CASE s # {}
    <3>1. Pick(s) \in s
      BY <2>3, PickIsIn
    <3>2. Weigh(f, s \ {Pick(s)}) = Weigh(g, s \ {Pick(s)}) /\ f[Pick(s)] = g[Pick(s)]
      BY <1>1, <3>1
    <3> QED
      BY <2>1, <2>3, <3>2, WeighStep
  <2> QED
    BY <2>2, <2>3
<1>2. S \in A
  <2> HIDE DEF A
  <2> QED
    BY <1>1, FiniteInduction
<1> QED
  BY <1>2

LEMMA SumAtMost ==
  ASSUME NEW f, NEW g, NEW S, IsFiniteSet(S),
         \A x \in S : f[x] \in Nat /\ g[x] \in Nat /\ f[x] <= g[x]
  PROVE  Weigh(f, S) <= Weigh(g, S)
<1> DEFINE A == {s \in SUBSET S : Weigh(f, s) <= Weigh(g, s)}
<1>1. ASSUME NEW s \in SUBSET S, \A x \in s : s \ {x} \in A
      PROVE  s \in A
  <2>1. IsFiniteSet(s)
    BY FS_Subset
  <2>2. CASE s = {}
    BY <2>2, SumEmpty
  <2>3. CASE s # {}
    <3>1. PICK x \in s : TRUE
      BY <2>3
    <3>2. /\ Weigh(f, s) = f[x] + Weigh(f, s \ {x}) /\ Weigh(g, s) = g[x] + Weigh(g, s \ {x})
          /\ Weigh(f, s \ {x}) \in Nat /\ Weigh(g, s \ {x}) \in Nat
      BY <2>1, <3>1, SumRemove, SumIsNat, FS_Subset
    <3>3. Weigh(f, s \ {x}) <= Weigh(g, s \ {x}) /\ f[x] <= g[x] /\ f[x] \in Nat /\ g[x] \in Nat
      BY <1>1, <3>1
    <3> QED
      BY <3>2, <3>3
  <2> QED
    BY <2>2, <2>3
<1>2. S \in A
  <2> HIDE DEF A
  <2> QED
    BY <1>1, FiniteInduction
<1> QED
  BY <1>2

\* What is added to the weights of some elements is added to the sum.
LEMMA SumRaise ==
  ASSUME NEW f, NEW g, NEW h, NEW S, IsFiniteSet(S),
         \A x \in S : f[x] \in Nat /\ h[x] \in Nat /\ g[x] = f[x] + h[x]
  PROVE  Weigh(g, S) = Weigh(f, S) + Weigh(h, S)
<1> DEFINE A == {s \in SUBSET S : Weigh(g, s) = Weigh(f, s) + Weigh(h, s)}
<1>1. ASSUME NEW s \in SUBSET S, \A x \in s : s \ {x} \in A
      PROVE  s \in A
  <2>1. \A t \in SUBSET s : IsFiniteSet(t)
    BY FS_Subset
  <2>2. CASE s = {}
    <3>1. Weigh(g, s) = 0 /\ Weigh(f, s) = 0 /\ Weigh(h, s) = 0
      BY <2>2, SumEmpty
    <3> QED
      BY <3>1
  <2>3. CASE s # {}
    <3>1. PICK x \in s : TRUE
      BY <2>3
    <3> DEFINE t == s \ {x}
    <3>2. /\ Weigh(f, s) = f[x] + Weigh(f, t) /\ Weigh(h, s) = h[x] + Weigh(h, t)
          /\ Weigh(f, t) \in Nat /\ Weigh(h, t) \in Nat
      BY <2>1, <3>1, SumRemove, SumIsNat
    <3>3. Weigh(g, s) = g[x] + Weigh(g, t)
      BY <2>1, <3>1, SumRemove
    <3>4. Weigh(g, t) = Weigh(f, t) + Weigh(h, t)
      BY <1>1, <3>1
    <3>5. f[x] \in Nat /\ h[x] \in Nat /\ g[x] = f[x] + h[x]
      BY <3>1
    <3> HIDE DEF t
    <3> QED
      BY <3>2, <3>3, <3>4, <3>5
  <2> QED
    BY <2>2, <2>3
<1>2. S \in A
  <2> HIDE DEF A
  <2> QED
    BY <1>1, FiniteInduction
<1> QED
  BY <1>2

LEMMA SumRaisePart ==
  ASSUME NEW f, NEW g, NEW h, NEW S, NEW T \in SUBSET S, IsFiniteSet(S),
         \A x \in S : f[x] \in Nat, \A x \in S \ T : g[x] = f[x],
         \A x \in T : h[x] \in Nat /\ g[x] = f[x] + h[x]
  PROVE  Weigh(g, S) = Weigh(f, S) + Weigh(h, T)
<1> DEFINE R == S \ T
<1>1. IsFiniteSet(R) /\ IsFiniteSet(T) /\ R \cap T = {} /\ R \cup T = S
  BY FS_Subset
<1>2. \A x \in R \cup T : f[x] \in Nat /\ g[x] \in Nat
  OBVIOUS
<1>3. /\ Weigh(g, S) = Weigh(g, R) + Weigh(g, T)
      /\ Weigh(f, S) = Weigh(f, R) + Weigh(f, T)
  <2> HIDE DEF R
  <2> QED
    BY <1>1, <1>2, SumUnion
<1>4. Weigh(g, R) = Weigh(f, R)
  BY <1>1, SumSame
<1>5. Weigh(g, T) = Weigh(f, T) + Weigh(h, T)
  BY <1>1, SumRaise
<1>6. Weigh(f, R) \in Nat /\ Weigh(f, T) \in Nat /\ Weigh(h, T) \in Nat
  BY <1>1, SumIsNat
<1> HIDE DEF R
<1> QED
  BY <1>3, <1>4, <1>5, <1>6

LEMMA SumZero ==
  ASSUME NEW f, NEW S, IsFiniteSet(S), \A x \in S : f[x] = 0
  PROVE  Weigh(f, S) = 0
<1>1. \A x \in S : f[x] \in Nat /\ f[x] = f[x] + f[x]
  OBVIOUS
<1>2. Weigh(f, S) = Weigh(f, S) + Weigh(f, S) /\ Weigh(f, S) \in Nat
  BY <1>1, SumRaise, SumIsNat
<1>3. \A n \in Nat : n = n + n => n = 0
  OBVIOUS
<1> QED
  BY <1>2, <1>3
=============================================================================
