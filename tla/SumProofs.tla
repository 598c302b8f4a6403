------------------------------ MODULE SumProofs ------------------------------
(***************************************************************************)
(* Sums over finite sets: what SumFunctionOnSet of the community modules   *)
(* is, step by step and as a whole. It is defined by recursion over the    *)
(* subsets, so that these are proofs by induction: over a set of numbers   *)
(* (Numbers) and over the subsets of a finite set (Sizes).                 *)
(***************************************************************************)
EXTENDS FiniteSetTheorems, WellFoundedInduction, Functions, TLAPS

\* A set of numbers that has 0 and with every number the next one has them all.
LEMMA Numbers ==
  ASSUME NEW T, 0 \in T, \A n \in Nat : n \in T => n + 1 \in T
  PROVE  Nat \subseteq T
<1> SUFFICES ASSUME Nat \ T # {} PROVE FALSE
  OBVIOUS
<1>1. \E n \in Nat \ T : \A m \in Nat \ T : ~(<<m, n>> \in OpToRel(<, Nat))
  BY NatLessThanWellFounded, WFMin
<1>2. PICK n \in Nat \ T : \A m \in Nat \ T : ~(m < n)
  BY <1>1 DEF OpToRel
<1>3. n # 0 /\ n - 1 \in Nat /\ n - 1 < n /\ (n - 1) + 1 = n
  BY <1>2
<1>4. n - 1 \in T
  BY <1>2, <1>3
<1> QED BY <1>2, <1>3, <1>4

\* SumFunctionOnSet takes some element, adds its value and goes on with the rest.
Some(s) == CHOOSE x \in s : TRUE

Turn(f, iter, s) == IF s = {} THEN 0 ELSE f[Some(s)] + iter[s \ {Some(s)}]

Iter(f, S) == CHOOSE iter : iter = [s \in SUBSET S |-> Turn(f, iter, s)]

\* The same, with the names above.
LEMMA SumIsIter ==
  ASSUME NEW f, NEW S PROVE SumFunctionOnSet(f, S) = Iter(f, S)[S]
BY DEF SumFunctionOnSet, FoldFunctionOnSet, MapThenFoldSet, Iter, Turn, Some

\* The element taken is one of the set.
LEMMA SomeIn == ASSUME NEW s, s # {} PROVE Some(s) \in s
BY DEF Some

\* There is such an iteration: it is built up from the smaller subsets.
LEMMA IterExists ==
  ASSUME NEW f, NEW S, IsFiniteSet(S)
  PROVE  \E iter : iter = [s \in SUBSET S |-> Turn(f, iter, s)]
<1> DEFINE Small(n) == {s \in SUBSET S : Cardinality(s) <= n}
           T == {n \in Nat : \E g : g = [s \in Small(n) |-> Turn(f, g, s)]}
<1>0. \A s \in SUBSET S : IsFiniteSet(s) /\ Cardinality(s) \in Nat /\ Cardinality(s) <= Cardinality(S)
  BY FS_Subset, FS_CardinalityType
<1>1. 0 \in T
  <2>1. \A s \in Small(0) : s = {}
    BY <1>0, FS_EmptySet
  <2>2. [s \in Small(0) |-> 0] = [s \in Small(0) |-> Turn(f, [t \in Small(0) |-> 0], s)]
    BY <2>1 DEF Turn
  <2> QED BY <2>2
<1>2. ASSUME NEW n \in Nat, n \in T PROVE n + 1 \in T
  <2>1. PICK g : g = [s \in Small(n) |-> Turn(f, g, s)]
    BY <1>2
  <2> DEFINE h == [s \in Small(n + 1) |-> Turn(f, g, s)]
  <2>2. \A s \in Small(n + 1) : s # {} => s \ {Some(s)} \in Small(n)
    BY <1>0, SomeIn, FS_RemoveElement
  <2>3. \A s \in Small(n) : s \in Small(n + 1) /\ h[s] = g[s]
    BY <1>0, <2>1
  <2>4. \A s \in Small(n + 1) : Turn(f, g, s) = Turn(f, h, s)
    BY <2>2, <2>3 DEF Turn
  <2>5. PICK k : k = h
    OBVIOUS
  <2>6. k = [s \in Small(n + 1) |-> Turn(f, k, s)]
    <3>1. k = [s \in Small(n + 1) |-> Turn(f, g, s)]
      BY <2>5
    <3>2. \A s \in Small(n + 1) : Turn(f, g, s) = Turn(f, k, s)
      BY <2>4, <2>5
    <3> HIDE DEF Small
    <3> QED BY <3>1, <3>2
  <2>7. \E m : m = [s \in Small(n + 1) |-> Turn(f, m, s)]
    BY <2>6
  <2> HIDE DEF Small
  <2> QED BY <2>7
<1>3. Cardinality(S) \in T
  BY <1>0, <1>1, <1>2, Numbers, FS_CardinalityType
<1>4. Small(Cardinality(S)) = SUBSET S
  BY <1>0
<1> QED BY <1>3, <1>4

\* So the iteration that was chosen satisfies its equation.
LEMMA IterEquation ==
  ASSUME NEW f, NEW S, IsFiniteSet(S), NEW s \in SUBSET S
  PROVE  Iter(f, S)[s] = Turn(f, Iter(f, S), s)
<1>1. Iter(f, S) = [t \in SUBSET S |-> Turn(f, Iter(f, S), t)]
  BY IterExists DEF Iter
<1> QED BY <1>1

\* The iteration over a smaller set is the same.
LEMMA IterSmaller ==
  ASSUME NEW f, NEW S, IsFiniteSet(S), NEW R \in SUBSET S
  PROVE  Iter(f, R)[R] = Iter(f, S)[R]
<1> DEFINE T == {n \in Nat : \A s \in SUBSET R : Cardinality(s) <= n => Iter(f, R)[s] = Iter(f, S)[s]}
<1>0. IsFiniteSet(R) /\ Cardinality(R) \in Nat
  BY FS_Subset, FS_CardinalityType
<1>00. \A s \in SUBSET R : IsFiniteSet(s) /\ Cardinality(s) \in Nat /\ s \in SUBSET S
  BY <1>0, FS_Subset, FS_CardinalityType
<1>1. 0 \in T
  <2>1. ASSUME NEW s \in SUBSET R, Cardinality(s) <= 0 PROVE Iter(f, R)[s] = Iter(f, S)[s]
    <3>1. s = {}
      BY <1>00, <2>1, FS_EmptySet
    <3>2. Iter(f, R)[s] = Turn(f, Iter(f, R), s) /\ Iter(f, S)[s] = Turn(f, Iter(f, S), s)
      BY <1>0, <1>00, IterEquation
    <3> QED BY <3>1, <3>2 DEF Turn
  <2> QED BY <2>1
<1>2. ASSUME NEW n \in Nat, n \in T PROVE n + 1 \in T
  <2>1. ASSUME NEW s \in SUBSET R, Cardinality(s) <= n + 1 PROVE Iter(f, R)[s] = Iter(f, S)[s]
    <3>1. Iter(f, R)[s] = Turn(f, Iter(f, R), s) /\ Iter(f, S)[s] = Turn(f, Iter(f, S), s)
      BY <1>0, <1>00, IterEquation
    <3>2. CASE s = {}
      BY <3>1, <3>2 DEF Turn
    <3>3. CASE s # {}
      <4>1. Cardinality(s \ {Some(s)}) <= n /\ s \ {Some(s)} \in SUBSET R
        BY <1>00, <2>1, <3>3, SomeIn, FS_RemoveElement
      <4>2. Iter(f, R)[s \ {Some(s)}] = Iter(f, S)[s \ {Some(s)}]
        BY <1>2, <4>1
      <4> QED BY <3>1, <3>3, <4>2 DEF Turn
    <3> QED BY <3>2, <3>3
  <2> QED BY <2>1
<1>3. Cardinality(R) \in T
  BY <1>0, <1>1, <1>2, Numbers
<1> QED BY <1>0, <1>3

\* The sum of nothing.
LEMMA SumEmpty == ASSUME NEW f PROVE SumFunctionOnSet(f, {}) = 0
BY SumIsIter, IterEquation, FS_EmptySet DEF Turn

\* A sum is the value of the element taken and the sum of the rest.
LEMMA SumTurn ==
  ASSUME NEW f, NEW S, IsFiniteSet(S), S # {}
  PROVE  SumFunctionOnSet(f, S) = f[Some(S)] + SumFunctionOnSet(f, S \ {Some(S)})
<1>1. S \in SUBSET S /\ S \ {Some(S)} \in SUBSET S
  OBVIOUS
<1>2. Iter(f, S)[S] = f[Some(S)] + Iter(f, S)[S \ {Some(S)}]
  BY <1>1, IterEquation DEF Turn
<1>3. Iter(f, S \ {Some(S)})[S \ {Some(S)}] = Iter(f, S)[S \ {Some(S)}]
  BY <1>1, IterSmaller
<1> QED BY <1>2, <1>3, SumIsIter

\* Induction over the subsets of a finite set: what holds of the empty set, and of a
\* subset if of all those with one element less, holds of the whole.
LEMMA Sizes ==
  ASSUME NEW P, NEW S, IsFiniteSet(S), {} \in P,
         \A R \in SUBSET S : R # {} /\ (\A x \in R : R \ {x} \in P) => R \in P
  PROVE  S \in P
<1> DEFINE T == {n \in Nat : \A R \in SUBSET S : Cardinality(R) = n => R \in P}
<1>0. \A R \in SUBSET S : IsFiniteSet(R) /\ Cardinality(R) \in Nat
  BY FS_Subset, FS_CardinalityType
<1>1. 0 \in T
  BY <1>0, FS_EmptySet
<1>2. ASSUME NEW n \in Nat, n \in T PROVE n + 1 \in T
  <2>1. ASSUME NEW R \in SUBSET S, Cardinality(R) = n + 1 PROVE R \in P
    <3>1. R # {}
      BY <2>1, FS_EmptySet
    <3>2. \A x \in R : R \ {x} \in SUBSET S /\ Cardinality(R \ {x}) = n
      BY <1>0, <2>1, FS_RemoveElement
    <3>3. \A x \in R : R \ {x} \in P
      BY <1>2, <3>2
    <3> QED BY <3>1, <3>3
  <2> QED BY <2>1
<1>3. Cardinality(S) \in T
  BY <1>0, <1>1, <1>2, Numbers
<1> QED BY <1>3

\* A sum of numbers is one.
LEMMA SumType ==
  ASSUME NEW f, NEW S, IsFiniteSet(S), \A x \in S : f[x] \in Nat
  PROVE  SumFunctionOnSet(f, S) \in Nat
<1> DEFINE P == {R \in SUBSET S : SumFunctionOnSet(f, R) \in Nat}
<1>1. {} \in P
  BY SumEmpty
<1>2. ASSUME NEW R \in SUBSET S, R # {}, \A x \in R : R \ {x} \in P PROVE R \in P
  <2>1. IsFiniteSet(R) /\ Some(R) \in R
    BY <1>2, FS_Subset, SomeIn
  <2>2. SumFunctionOnSet(f, R \ {Some(R)}) \in Nat
    BY <1>2, <2>1
  <2> QED BY <1>2, <2>1, <2>2, SumTurn
<1>3. S \in P
  <2> HIDE DEF P
  <2> QED BY <1>1, <1>2, Sizes
<1> QED BY <1>3

\* Any element may be taken out.
LEMMA SumSplit ==
  ASSUME NEW f, NEW S, IsFiniteSet(S), \A x \in S : f[x] \in Nat, NEW y \in S
  PROVE  SumFunctionOnSet(f, S) = f[y] + SumFunctionOnSet(f, S \ {y})
<1> DEFINE Sum(R) == SumFunctionOnSet(f, R)
           P == {R \in SUBSET S : \A x \in R : Sum(R) = f[x] + Sum(R \ {x})}
<1>0. \A R \in SUBSET S : IsFiniteSet(R) /\ Sum(R) \in Nat
  BY FS_Subset, SumType
<1>1. {} \in P
  OBVIOUS
<1>2. ASSUME NEW R \in SUBSET S, R # {}, \A x \in R : R \ {x} \in P PROVE R \in P
  <2>1. IsFiniteSet(R) /\ Some(R) \in R
    BY <1>2, FS_Subset, SomeIn
  <2>2. Sum(R) = f[Some(R)] + Sum(R \ {Some(R)})
    BY <1>2, <2>1, SumTurn
  <2>3. ASSUME NEW x \in R, x # Some(R) PROVE Sum(R) = f[x] + Sum(R \ {x})
    <3>1. Sum(R \ {Some(R)}) = f[x] + Sum((R \ {Some(R)}) \ {x})
      BY <1>2, <2>1, <2>3
    <3>2. Sum(R \ {x}) = f[Some(R)] + Sum((R \ {x}) \ {Some(R)})
      BY <1>2, <2>1, <2>3
    <3>3. (R \ {Some(R)}) \ {x} = (R \ {x}) \ {Some(R)}
      OBVIOUS
    <3>4. PICK rest : rest = Sum((R \ {x}) \ {Some(R)})
      OBVIOUS
    <3>5. rest \in Nat
      BY <1>0, <3>4
    <3>6. f[x] \in Nat /\ f[Some(R)] \in Nat
      BY <2>1
    <3> QED BY <2>2, <3>1, <3>2, <3>3, <3>4, <3>5, <3>6
  <2> QED BY <2>2, <2>3
<1>3. S \in P
  <2> HIDE DEF P
  <2> QED BY <1>1, <1>2, Sizes
<1> QED BY <1>3

\* An element more.
LEMMA SumAdd ==
  ASSUME NEW f, NEW S, IsFiniteSet(S), NEW y, y \notin S, \A x \in S \cup {y} : f[x] \in Nat
  PROVE  SumFunctionOnSet(f, S \cup {y}) = SumFunctionOnSet(f, S) + f[y]
<1>1. IsFiniteSet(S \cup {y}) /\ (S \cup {y}) \ {y} = S
  BY FS_AddElement
<1>2. SumFunctionOnSet(f, S) \in Nat
  BY SumType
<1> QED BY <1>1, <1>2, SumSplit

\* Only the values at the elements count.
LEMMA SumSame ==
  ASSUME NEW f, NEW g, NEW S, IsFiniteSet(S), \A x \in S : f[x] = g[x]
  PROVE  SumFunctionOnSet(f, S) = SumFunctionOnSet(g, S)
<1> DEFINE P == {R \in SUBSET S : SumFunctionOnSet(f, R) = SumFunctionOnSet(g, R)}
<1>1. {} \in P
  BY SumEmpty
<1>2. ASSUME NEW R \in SUBSET S, R # {}, \A x \in R : R \ {x} \in P PROVE R \in P
  <2>1. IsFiniteSet(R) /\ Some(R) \in R
    BY <1>2, FS_Subset, SomeIn
  <2>2. SumFunctionOnSet(f, R \ {Some(R)}) = SumFunctionOnSet(g, R \ {Some(R)})
    BY <1>2, <2>1
  <2>3. f[Some(R)] = g[Some(R)]
    BY <2>1
  <2> QED BY <1>2, <2>1, <2>2, <2>3, SumTurn
<1>3. S \in P
  <2> HIDE DEF P
  <2> QED BY <1>1, <1>2, Sizes
<1> QED BY <1>3

\* One value is changed.
LEMMA SumChanged ==
  ASSUME NEW f, NEW g, NEW S, IsFiniteSet(S), NEW y \in S,
         \A x \in S : f[x] \in Nat /\ g[x] \in Nat,
         \A x \in S \ {y} : f[x] = g[x]
  PROVE  SumFunctionOnSet(g, S) = SumFunctionOnSet(f, S) - f[y] + g[y]
<1>1. IsFiniteSet(S \ {y})
  BY FS_RemoveElement
<1>2. SumFunctionOnSet(f, S \ {y}) = SumFunctionOnSet(g, S \ {y})
  BY <1>1, SumSame
<1>3. SumFunctionOnSet(f, S \ {y}) \in Nat
  BY <1>1, SumType
<1>4. PICK n \in Nat : n = SumFunctionOnSet(f, S \ {y})
  BY <1>3
<1>5. SumFunctionOnSet(f, S) = f[y] + n /\ SumFunctionOnSet(g, S) = g[y] + n
  BY <1>2, <1>4, SumSplit
<1> QED BY <1>5

\* A sum of zeros.
LEMMA SumZero ==
  ASSUME NEW f, NEW S, IsFiniteSet(S), \A x \in S : f[x] = 0
  PROVE  SumFunctionOnSet(f, S) = 0
<1> DEFINE P == {R \in SUBSET S : SumFunctionOnSet(f, R) = 0}
<1>1. {} \in P
  BY SumEmpty
<1>2. ASSUME NEW R \in SUBSET S, R # {}, \A x \in R : R \ {x} \in P PROVE R \in P
  <2>1. IsFiniteSet(R) /\ Some(R) \in R
    BY <1>2, FS_Subset, SomeIn
  <2>2. SumFunctionOnSet(f, R \ {Some(R)}) = 0 /\ f[Some(R)] = 0
    BY <1>2, <2>1
  <2> QED BY <1>2, <2>1, <2>2, SumTurn
<1>3. S \in P
  <2> HIDE DEF P
  <2> QED BY <1>1, <1>2, Sizes
<1> QED BY <1>3
=============================================================================
