------------------------------- MODULE Induction -------------------------------
(***************************************************************************)
(* Induction over the natural numbers and over the subsets of a finite     *)
(* set, stated for sets so that they can be cited, and what follows from   *)
(* them for the sums of OutboxBench.                                       *)
(***************************************************************************)
EXTENDS Integers, FiniteSets, Functions, FiniteSetTheorems, WellFoundedInduction, TLAPS

\* A set of naturals has a least element.
LEMMA LeastNatural ==
    ASSUME NEW S, S \subseteq Nat, S # {}
    PROVE  \E x \in S : \A y \in S : ~(y < x)
<1>1. \E x \in S : \A y \in S : ~(<<y, x>> \in OpToRel(<, Nat))
  <2> HIDE DEF OpToRel
  <2> QED
    BY NatLessThanWellFounded, WFMin
<1>2. \A x, y \in S : <<y, x>> \in OpToRel(<, Nat) <=> y < x
  BY DEF OpToRel
<1> QED
  BY <1>1, <1>2, Zenon

\* A set with 0 and, with a number, the next one has all of them.
LEMMA NatSetInduction ==
    ASSUME NEW S, 0 \in S, \A n \in Nat : n \in S => n + 1 \in S
    PROVE  Nat \subseteq S
<1> SUFFICES ASSUME Nat \ S # {} PROVE FALSE
  OBVIOUS
<1>1. PICK x \in Nat \ S : \A y \in Nat \ S : ~(y < x)
  BY LeastNatural
<1>2. x # 0 /\ x - 1 \in Nat /\ x - 1 < x
  BY <1>1
<1>3. x - 1 \in S
  BY <1>1, <1>2
<1>4. (x - 1) + 1 \in S
  BY <1>2, <1>3
<1> QED
  BY <1>1, <1>4

\* A family of subsets of a finite set has a minimal member.
LEMMA MinimalSubset ==
    ASSUME NEW S, IsFiniteSet(S), NEW F, F \subseteq SUBSET S, F # {}
    PROVE  \E T \in F : \A U \in F : ~(U \subseteq T /\ U # T)
<1>1. IsWellFoundedOn(StrictSubsetOrdering(S), FiniteSubsetsOf(S))
  BY FS_StrictSubsetOrderingWellFounded
<1>2. F \subseteq FiniteSubsetsOf(S)
  BY FS_Subset DEF FiniteSubsetsOf
<1>3. PICK T \in F : \A U \in F : ~(<<U, T>> \in StrictSubsetOrdering(S))
  BY <1>1, <1>2, WFMin
<1>4. \A U \in F : ~(U \subseteq T /\ U # T)
  BY <1>3 DEF StrictSubsetOrdering
<1> QED
  BY <1>4

\* A set of subsets of S that has a set once it has its proper subsets has all.
LEMMA SubsetInduction ==
    ASSUME NEW S, IsFiniteSet(S), NEW Q,
           \A T \in SUBSET S : (\A U \in SUBSET T : U # T => U \in Q) => T \in Q
    PROVE  \A T \in SUBSET S : T \in Q
<1> SUFFICES ASSUME (SUBSET S) \ Q # {} PROVE FALSE
  OBVIOUS
<1>1. PICK T \in (SUBSET S) \ Q : \A U \in (SUBSET S) \ Q : ~(U \subseteq T /\ U # T)
  <2> DEFINE F == (SUBSET S) \ Q
  <2>1. F \subseteq SUBSET S /\ F # {}
    OBVIOUS
  <2> HIDE DEF F
  <2>2. \E T \in F : \A U \in F : ~(U \subseteq T /\ U # T)
    BY <2>1, MinimalSubset
  <2> QED
    BY <2>2 DEF F
<1>2. \A U \in SUBSET T : U # T => U \in Q
  BY <1>1
<1> QED
  BY <1>1, <1>2

-----------------------------------------------------------------------------
(* Counting *)

\* A part of a finite set has no more elements, ...
LEMMA PartIsNoMore ==
    ASSUME NEW A, IsFiniteSet(A), NEW B, B \subseteq A
    PROVE  /\ Cardinality(A) \in Nat /\ Cardinality(B) \in Nat
           /\ Cardinality(B) <= Cardinality(A)
BY FS_Subset, FS_CardinalityType

\* ... and fewer where one is missing.
LEMMA PartIsLess ==
    ASSUME NEW A, IsFiniteSet(A), NEW x \in A, NEW B, B \subseteq A \ {x}
    PROVE  /\ Cardinality(A) \in Nat /\ Cardinality(B) \in Nat
           /\ Cardinality(B) + 1 <= Cardinality(A)
<1>1. /\ IsFiniteSet(A \ {x}) /\ Cardinality(A \ {x}) = Cardinality(A) - 1
      /\ Cardinality(A) \in Nat
  BY FS_RemoveElement, FS_CardinalityType
<1>2. Cardinality(B) <= Cardinality(A \ {x}) /\ Cardinality(B) \in Nat
  BY <1>1, PartIsNoMore
<1> QED
  BY <1>1, <1>2

\* One element added makes at most one more.
LEMMA OneMore ==
    ASSUME NEW A, IsFiniteSet(A), NEW x, NEW B, B \subseteq A \union {x}
    PROVE  /\ Cardinality(A) \in Nat /\ Cardinality(B) \in Nat
           /\ Cardinality(B) <= Cardinality(A) + 1
<1>1. IsFiniteSet(A \union {x}) /\ Cardinality(A) \in Nat
  BY FS_AddElement, FS_CardinalityType
<1>2. \/ Cardinality(A \union {x}) = Cardinality(A)
      \/ Cardinality(A \union {x}) = Cardinality(A) + 1
  BY FS_AddElement
<1>3. Cardinality(B) <= Cardinality(A \union {x}) /\ Cardinality(B) \in Nat
  BY <1>1, PartIsNoMore
<1> QED
  BY <1>1, <1>2, <1>3

-----------------------------------------------------------------------------
(* Sums over a finite domain *)

Total(f) == FoldFunction(+, 0, f)

Some(T) == CHOOSE x \in T : TRUE

\* The recursion that FoldFunction stands for, on some of the subsets
SumsOf(f, D, g) ==
    g = [T \in D |-> IF T = {} THEN 0 ELSE f[Some(T)] + g[T \ {Some(T)}]]

\* The sum over a subset of the domain
SumOn(f, S) == CHOOSE g : SumsOf(f, SUBSET S, g)

\* FoldFunction(+, 0, f) is the sum over all of its domain.
LEMMA TotalIsSum == ASSUME NEW f PROVE Total(f) = SumOn(f, DOMAIN f)[DOMAIN f]
BY DEF Total, SumOn, SumsOf, Some, FoldFunction, FoldFunctionOnSet, MapThenFoldSet

\* There are such sums: those of n elements are built on those of fewer.
LEMMA SumsExist ==
    ASSUME NEW S, IsFiniteSet(S), NEW f \in [S -> Nat]
    PROVE  SumsOf(f, SUBSET S, SumOn(f, S))
<1> DEFINE Small(n) == {T \in SUBSET S : Cardinality(T) <= n}
           Q == {n \in Nat : \E g : SumsOf(f, Small(n), g)}
<1>1. \A T \in SUBSET S : IsFiniteSet(T) /\ Cardinality(T) \in Nat
  BY FS_Subset, FS_CardinalityType
<1>2. \A T \in SUBSET S : T # {} => Some(T) \in T
  BY DEF Some
<1>3. \A T \in SUBSET S : T # {} =>
          /\ T \ {Some(T)} \in SUBSET S
          /\ Cardinality(T \ {Some(T)}) = Cardinality(T) - 1
  BY <1>1, <1>2, FS_RemoveElement
<1>4. \A T \in SUBSET S : Cardinality(T) = 0 <=> T = {}
  BY <1>1, FS_EmptySet
<1>5. 0 \in Q
  <2> DEFINE g == [T \in Small(0) |-> 0]
  <2>1. \A T \in Small(0) : T = {}
    BY <1>1, <1>4
  <2>2. SumsOf(f, Small(0), g)
    BY <2>1 DEF SumsOf
  <2> QED
    BY <2>2
<1>6. ASSUME NEW n \in Nat, n \in Q PROVE n + 1 \in Q
  <2>1. PICK g : SumsOf(f, Small(n), g)
    BY <1>6
  <2> DEFINE h == [T \in Small(n + 1) |->
                      IF T = {} THEN 0 ELSE f[Some(T)] + g[T \ {Some(T)}]]
  <2>2. \A T \in Small(n + 1) : T # {} => T \ {Some(T)} \in Small(n)
    BY <1>1, <1>3
  <2>3. \A T \in Small(n) : T \in Small(n + 1)
    BY <1>1
  <2>4. \A T \in Small(n) : g[T] = h[T]
    BY <2>1, <2>3 DEF SumsOf
  <2>5. SumsOf(f, Small(n + 1), h)
    <3> HIDE DEF Small
    <3> QED
      BY <2>2, <2>4 DEF SumsOf
  <2>6. \E k : SumsOf(f, Small(n + 1), k)
    BY <2>5
  <2>7. n + 1 \in Nat
    OBVIOUS
  <2> QED
    BY <2>6, <2>7
<1>7. Nat \subseteq Q
  <2> HIDE DEF Q
  <2> QED
    BY <1>5, <1>6, NatSetInduction
<1>8. Cardinality(S) \in Nat /\ Small(Cardinality(S)) = SUBSET S
  BY FS_Subset, FS_CardinalityType
<1>9. \E g : SumsOf(f, SUBSET S, g)
  BY <1>7, <1>8
<1> QED
  BY <1>9 DEF SumOn

\* The recursion, and that it stays in the naturals.
LEMMA SumUnfolds ==
    ASSUME NEW S, IsFiniteSet(S), NEW f \in [S -> Nat]
    PROVE  \A T \in SUBSET S :
              /\ SumOn(f, S)[T] \in Nat
              /\ T = {} => SumOn(f, S)[T] = 0
              /\ T # {} => /\ Some(T) \in T
                           /\ SumOn(f, S)[T] = f[Some(T)] + SumOn(f, S)[T \ {Some(T)}]
<1> DEFINE h == SumOn(f, S)
           Q == {T \in SUBSET S : h[T] \in Nat}
<1>1. \A T \in SUBSET S :
          h[T] = IF T = {} THEN 0 ELSE f[Some(T)] + h[T \ {Some(T)}]
  <2>1. SumsOf(f, SUBSET S, h)
    BY SumsExist
  <2> HIDE DEF h
  <2> QED
    BY <2>1 DEF SumsOf
<1>2. \A T \in SUBSET S : T # {} => Some(T) \in T
  BY DEF Some
<1> HIDE DEF h
<1>3. ASSUME NEW T \in SUBSET S, \A U \in SUBSET T : U # T => U \in Q
      PROVE  T \in Q
  <2>1. CASE T = {}
    <3>1. h[T] = 0
      BY <1>1, <2>1
    <3> QED
      BY <3>1
  <2>2. CASE T # {}
    <3>1. T \ {Some(T)} \in Q /\ Some(T) \in S
      BY <1>2, <1>3, <2>2
    <3>2. f[Some(T)] \in Nat /\ h[T \ {Some(T)}] \in Nat
      BY <3>1
    <3>3. h[T] = f[Some(T)] + h[T \ {Some(T)}]
      BY <1>1, <2>2
    <3> QED
      BY <3>2, <3>3
  <2> QED
    BY <2>1, <2>2
<1>4. \A T \in SUBSET S : T \in Q
  <2> HIDE DEF Q
  <2> QED
    BY <1>3, SubsetInduction
<1> QED
  BY <1>1, <1>2, <1>4 DEF h

\* Any element may be added last.
LEMMA SumRemove ==
    ASSUME NEW S, IsFiniteSet(S), NEW f \in [S -> Nat]
    PROVE  \A T \in SUBSET S : \A x \in T : SumOn(f, S)[T] = f[x] + SumOn(f, S)[T \ {x}]
<1> DEFINE h == SumOn(f, S)
           Q == {T \in SUBSET S : \A x \in T : h[T] = f[x] + h[T \ {x}]}
<1>1. \A T \in SUBSET S :
          /\ h[T] \in Nat
          /\ T # {} => Some(T) \in T /\ h[T] = f[Some(T)] + h[T \ {Some(T)}]
  BY SumUnfolds
<1> HIDE DEF h
<1>2. ASSUME NEW T \in SUBSET S, \A U \in SUBSET T : U # T => U \in Q
      PROVE  T \in Q
  <2> SUFFICES ASSUME NEW x \in T, x # Some(T) PROVE h[T] = f[x] + h[T \ {x}]
    BY <1>1
  <2> DEFINE y == Some(T)
             V == (T \ {x}) \ {y}
  <2>1. y \in T /\ h[T] = f[y] + h[T \ {y}]
    BY <1>1
  <2> HIDE DEF y
  <2>2. h[T \ {y}] = f[x] + h[V]
    <3>1. T \ {y} \in Q /\ x \in T \ {y}
      BY <1>2, <2>1 DEF y
    <3>2. (T \ {y}) \ {x} = V
      OBVIOUS
    <3> QED
      BY <3>1, <3>2
  <2>3. h[T \ {x}] = f[y] + h[V]
    <3>1. T \ {x} \in Q /\ y \in T \ {x}
      BY <1>2, <2>1 DEF y
    <3> QED
      BY <3>1
  <2>4. f[x] \in Nat /\ f[y] \in Nat /\ h[V] \in Nat
    BY <1>1, <2>1
  <2> QED
    BY <2>1, <2>2, <2>3, <2>4
<1>3. \A T \in SUBSET S : T \in Q
  <2> HIDE DEF Q
  <2> QED
    BY <1>2, SubsetInduction
<1> QED
  BY <1>3 DEF h

\* A sum depends only on what is summed.
LEMMA SumAgrees ==
    ASSUME NEW S, IsFiniteSet(S), NEW f \in [S -> Nat], NEW g \in [S -> Nat]
    PROVE  \A T \in SUBSET S :
              (\A x \in T : f[x] = g[x]) => SumOn(f, S)[T] = SumOn(g, S)[T]
<1> DEFINE h == SumOn(f, S)
           k == SumOn(g, S)
           Q == {T \in SUBSET S : (\A x \in T : f[x] = g[x]) => h[T] = k[T]}
<1>1. \A T \in SUBSET S :
          /\ T = {} => h[T] = 0 /\ k[T] = 0
          /\ T # {} => /\ Some(T) \in T
                       /\ h[T] = f[Some(T)] + h[T \ {Some(T)}]
                       /\ k[T] = g[Some(T)] + k[T \ {Some(T)}]
  BY SumUnfolds
<1> HIDE DEF h, k
<1>2. ASSUME NEW T \in SUBSET S, \A U \in SUBSET T : U # T => U \in Q
      PROVE  T \in Q
  <2> SUFFICES ASSUME T # {}, \A x \in T : f[x] = g[x] PROVE h[T] = k[T]
    BY <1>1
  <2>1. T \ {Some(T)} \in Q /\ Some(T) \in T
    BY <1>1, <1>2
  <2> QED
    BY <1>1, <2>1
<1>3. \A T \in SUBSET S : T \in Q
  <2> HIDE DEF Q
  <2> QED
    BY <1>2, SubsetInduction
<1> QED
  BY <1>3 DEF h, k

\* The total is any one of its terms and the rest.
LEMMA TotalSplits ==
    ASSUME NEW S, IsFiniteSet(S), NEW f \in [S -> Nat], NEW x \in S
    PROVE  /\ SumOn(f, S)[S \ {x}] \in Nat
           /\ Total(f) = f[x] + SumOn(f, S)[S \ {x}]
<1>1. \A T \in SUBSET S : SumOn(f, S)[T] \in Nat
  BY SumUnfolds
<1>2. \A T \in SUBSET S : \A y \in T : SumOn(f, S)[T] = f[y] + SumOn(f, S)[T \ {y}]
  BY SumRemove
<1>3. SumOn(f, S)[S] = f[x] + SumOn(f, S)[S \ {x}]
  BY <1>2
<1> QED
  BY <1>1, <1>3, TotalIsSum

\* A function that is raised at one point has a total as much higher.
LEMMA TotalRaised ==
    ASSUME NEW S, IsFiniteSet(S), NEW f \in [S -> Nat], NEW g \in [S -> Nat],
           NEW x \in S, NEW n \in Nat, g[x] = f[x] + n, \A y \in S \ {x} : g[y] = f[y]
    PROVE  Total(f) \in Nat /\ Total(g) = Total(f) + n
<1>1. SumOn(f, S)[S \ {x}] \in Nat /\ Total(f) = f[x] + SumOn(f, S)[S \ {x}]
  BY TotalSplits
<1>2. Total(g) = g[x] + SumOn(g, S)[S \ {x}]
  BY TotalSplits
<1>3. SumOn(f, S)[S \ {x}] = SumOn(g, S)[S \ {x}]
  <2>1. S \ {x} \in SUBSET S
    OBVIOUS
  <2> QED
    BY <2>1, SumAgrees
<1>4. f[x] \in Nat
  OBVIOUS
<1> QED
  BY <1>1, <1>2, <1>3, <1>4

\* The total of zeroes
LEMMA TotalOfZeroes ==
    ASSUME NEW S, IsFiniteSet(S), NEW f \in [S -> Nat], \A x \in S : f[x] = 0
    PROVE  Total(f) = 0
<1> DEFINE h == SumOn(f, S)
           Q == {T \in SUBSET S : h[T] = 0}
<1>1. \A T \in SUBSET S :
          /\ T = {} => h[T] = 0
          /\ T # {} => Some(T) \in T /\ h[T] = f[Some(T)] + h[T \ {Some(T)}]
  BY SumUnfolds
<1>2. Total(f) = h[S]
  BY TotalIsSum
<1> HIDE DEF h
<1>3. ASSUME NEW T \in SUBSET S, \A U \in SUBSET T : U # T => U \in Q
      PROVE  T \in Q
  <2>1. CASE T = {}
    BY <1>1, <2>1
  <2>2. CASE T # {}
    <3>1. T \ {Some(T)} \in Q /\ Some(T) \in S
      BY <1>1, <1>3, <2>2
    <3>2. f[Some(T)] = 0 /\ h[T \ {Some(T)}] = 0
      BY <3>1
    <3> QED
      BY <1>1, <2>2, <3>2
  <2> QED
    BY <2>1, <2>2
<1>4. \A T \in SUBSET S : T \in Q
  <2> HIDE DEF Q
  <2> QED
    BY <1>3, SubsetInduction
<1> QED
  BY <1>2, <1>4

\* The elements counted label by label are the elements.
LEMMA CountedByLabel ==
    ASSUME NEW R, IsFiniteSet(R), NEW L, IsFiniteSet(L), NEW s \in [R -> L]
    PROVE  Total([l \in L |-> Cardinality({r \in R : s[r] = l})]) = Cardinality(R)
<1> DEFINE with(T, l) == {r \in T : s[r] = l}
           tally(T) == [l \in L |-> Cardinality(with(T, l))]
           Q == {T \in SUBSET R : Total(tally(T)) = Cardinality(T)}
<1>1. \A T \in SUBSET R : \A l \in L :
          IsFiniteSet(with(T, l)) /\ Cardinality(with(T, l)) \in Nat
  BY FS_Subset, FS_CardinalityType
<1>2. \A T \in SUBSET R : tally(T) \in [L -> Nat]
  <2> HIDE DEF with
  <2> QED
    BY <1>1
<1>3. ASSUME NEW T \in SUBSET R, \A U \in SUBSET T : U # T => U \in Q
      PROVE  T \in Q
  <2>1. CASE T = {}
    <3>1. \A l \in L : with(T, l) = {}
      BY <2>1
    <3>2. \A l \in L : tally(T)[l] = 0
      <4> HIDE DEF with
      <4> QED
        BY <3>1, FS_EmptySet
    <3>3. Total(tally(T)) = 0
      <4> HIDE DEF tally
      <4> QED
        BY <1>2, <3>2, TotalOfZeroes
    <3> HIDE DEF tally
    <3> QED
      BY <2>1, <3>3, FS_EmptySet
  <2>2. CASE T # {}
    <3>1. PICK x \in T : TRUE
      BY <2>2
    <3> DEFINE U == T \ {x}
    <3>2. U \in Q /\ U \in SUBSET R /\ s[x] \in L
      BY <1>3
    <3>3. IsFiniteSet(T) /\ Cardinality(T) \in Nat /\ Cardinality(U) = Cardinality(T) - 1
      BY FS_Subset, FS_RemoveElement, FS_CardinalityType
    <3>4. \A l \in L \ {s[x]} : with(T, l) = with(U, l)
      OBVIOUS
    <3>5. x \in with(T, s[x]) /\ with(U, s[x]) = with(T, s[x]) \ {x}
      OBVIOUS
    <3>6. tally(T)[s[x]] = tally(U)[s[x]] + 1
      <4> HIDE DEF with, U
      <4>1. Cardinality(with(U, s[x])) = Cardinality(with(T, s[x])) - 1
        <5>1. IsFiniteSet(with(T, s[x]))
          BY <1>1, <3>2
        <5>2. Cardinality(with(T, s[x]) \ {x}) = Cardinality(with(T, s[x])) - 1
          BY <3>5, <5>1, FS_RemoveElement
        <5> QED
          BY <3>5, <5>2
      <4> QED
        BY <1>1, <3>2, <4>1
    <3>7. \A l \in L \ {s[x]} : tally(T)[l] = tally(U)[l]
      <4> HIDE DEF with, U
      <4> QED
        BY <3>4
    <3>8. Total(tally(T)) = Total(tally(U)) + 1
      <4> HIDE DEF tally, U
      <4> QED
        BY <1>2, <3>2, <3>6, <3>7, TotalRaised
    <3>9. Total(tally(U)) = Cardinality(U)
      BY <3>2
    <3> HIDE DEF tally, U
    <3> QED
      BY <3>3, <3>8, <3>9
  <2> QED
    BY <2>1, <2>2
<1>4. R \in Q
  <2> HIDE DEF Q
  <2> QED
    BY <1>3, SubsetInduction
<1> QED
  BY <1>4
=============================================================================
