----------------------------- MODULE SumProofs ------------------------------
(***************************************************************************)
(* Sums over finite sets.  The community modules define them by recursion  *)
(* over the subsets; the lemmas here say what the recursion computes.  The *)
(* induction they need is a least counterexample: a nonempty set of        *)
(* subsets of a finite set has one with the fewest elements.               *)
(***************************************************************************)
EXTENDS Integers, FiniteSetsExt, FiniteSetTheorems, WellFoundedInduction, TLAPS

Sum(amt, S) == MapThenSumSet(LAMBDA x : amt[x], S)

Terms(amt, S) == \A x \in S : amt[x] \in Int

Pick(s) == CHOOSE x \in s : TRUE

(* One unfolding of the recursion, of the sum g of every subset of S.      *)
Unfold(amt, S, g) ==
  [s \in SUBSET S |-> IF s = {} THEN 0 ELSE amt[Pick(s)] + g[s \ {Pick(s)}]]

-----------------------------------------------------------------------------
LEMMA PickIn ==
  ASSUME NEW s, s # {}
  PROVE  Pick(s) \in s
BY DEF Pick

LEMMA LeastNat ==
  ASSUME NEW T \in SUBSET Nat, T # {}
  PROVE  \E n \in T : \A m \in T : ~(m < n)
<1>1. \E x \in T : \A y \in T : ~ (<<y, x>> \in OpToRel(<, Nat))
  BY WFMin, NatLessThanWellFounded
<1> QED
  BY <1>1 DEF OpToRel

(* A property of the finite sets: it holds of the empty set, and of a set  *)
(* when it holds of the set without any one of its elements.               *)
LEMMA SubsetInduction ==
  ASSUME NEW S, IsFiniteSet(S), NEW G,
         {} \in G,
         \A T \in SUBSET S : T # {} /\ (\A x \in T : T \ {x} \in G) => T \in G
  PROVE  \A T \in SUBSET S : T \in G
<1> DEFINE Bad == {n \in Nat : \E T \in SUBSET S : T \notin G /\ Cardinality(T) = n}
<1>1. \A T \in SUBSET S : IsFiniteSet(T) /\ Cardinality(T) \in Nat
  BY FS_Subset, FS_CardinalityType
<1> SUFFICES ASSUME Bad # {} PROVE FALSE
  BY <1>1
<1>2. PICK n \in Bad : \A m \in Bad : ~(m < n)
  BY LeastNat
<1>3. PICK T \in SUBSET S : T \notin G /\ Cardinality(T) = n
  OBVIOUS
<1>4. ASSUME NEW x \in T PROVE T \ {x} \in G
  <2>1. Cardinality(T \ {x}) = Cardinality(T) - 1
    BY <1>1, FS_RemoveElement
  <2>2. T \ {x} \in SUBSET S /\ Cardinality(T \ {x}) \in Nat /\ n \in Nat
    BY <1>1
  <2> QED
    BY <1>2, <1>3, <2>1, <2>2
<1> QED
  BY <1>3, <1>4

-----------------------------------------------------------------------------
(* The recursion has exactly one solution.                                 *)

Solves(amt, S, g) == g = Unfold(amt, S, g)

LEMMA UnfoldAt ==
  ASSUME NEW amt, NEW S, NEW g, Solves(amt, S, g), NEW s \in SUBSET S
  PROVE  g[s] = IF s = {} THEN 0 ELSE amt[Pick(s)] + g[s \ {Pick(s)}]
BY DEF Solves, Unfold

LEMMA SolutionsAgree ==
  ASSUME NEW amt, NEW S, IsFiniteSet(S), NEW g, Solves(amt, S, g),
         NEW T, NEW h, Solves(amt, T, h), NEW s \in SUBSET S, s \in SUBSET T
  PROVE  g[s] = h[s]
<1> DEFINE G == {u \in SUBSET S : u \in SUBSET T => g[u] = h[u]}
<1>1. {} \in G
  BY UnfoldAt
<1>2. ASSUME NEW u \in SUBSET S, u # {}, \A x \in u : u \ {x} \in G PROVE u \in G
  <2>1. Pick(u) \in u
    BY <1>2, PickIn
  <2>2. u \ {Pick(u)} \in G
    BY <1>2, <2>1
  <2>3. SUFFICES ASSUME u \in SUBSET T PROVE g[u] = h[u]
    OBVIOUS
  <2>4. g[u \ {Pick(u)}] = h[u \ {Pick(u)}]
    BY <2>2, <2>3
  <2> QED
    BY <1>2, <2>3, <2>4, UnfoldAt
<1> HIDE DEF G
<1>3. \A u \in SUBSET S : u \in G
  BY <1>1, <1>2, SubsetInduction
<1> QED
  BY <1>3 DEF G

LEMMA Restriction ==
  ASSUME NEW amt, NEW S, NEW g, Solves(amt, S, g), NEW T \in SUBSET S
  PROVE  Solves(amt, T, [s \in SUBSET T |-> g[s]])
<1> DEFINE h == [s \in SUBSET T |-> g[s]]
<1>1. ASSUME NEW s \in SUBSET T
      PROVE  h[s] = IF s = {} THEN 0 ELSE amt[Pick(s)] + h[s \ {Pick(s)}]
  BY UnfoldAt
<1> QED
  BY <1>1 DEF Solves, Unfold

Solution(amt, S) == CHOOSE g : Solves(amt, S, g)

LEMMA SolutionExists ==
  ASSUME NEW amt, NEW S, IsFiniteSet(S)
  PROVE  Solves(amt, S, Solution(amt, S))
<1> DEFINE G == {T \in SUBSET S : \E g : Solves(amt, T, g)}
<1>1. {} \in G
  <2> DEFINE g == [s \in SUBSET {} |-> 0]
  <2>1. Solves(amt, {}, g)
    BY DEF Solves, Unfold
  <2> QED
    BY <2>1
<1>2. ASSUME NEW T \in SUBSET S, T # {}, \A x \in T : T \ {x} \in G PROVE T \in G
  <2> DEFINE Of(u) == Solution(amt, u)[u]
             g == [s \in SUBSET T |-> IF s = {} THEN 0 ELSE amt[Pick(s)] + Of(s \ {Pick(s)})]
  <2>1. ASSUME NEW u \in SUBSET T, u # T PROVE Solves(amt, u, Solution(amt, u))
    <3>1. PICK y \in T : y \notin u
      BY <2>1
    <3>2. PICK h : Solves(amt, T \ {y}, h)
      BY <1>2, <3>1
    <3>3. u \in SUBSET (T \ {y})
      BY <3>1
    <3>4. Solves(amt, u, [s \in SUBSET u |-> h[s]])
      BY <3>2, <3>3, Restriction
    <3> QED
      BY <3>4 DEF Solution
  <2>2. ASSUME NEW u \in SUBSET T, u # T PROVE g[u] = Of(u)
    <3>1. CASE u = {}
      BY <2>1, <2>2, <3>1, UnfoldAt
    <3>2. CASE u # {}
      <4> DEFINE v == u \ {Pick(u)}
      <4>1. v \in SUBSET T /\ v # T /\ v \in SUBSET u
        BY <2>2
      <4>2. IsFiniteSet(u)
        BY FS_Subset
      <4>3. Solution(amt, u)[v] = Of(v)
        BY <2>1, <2>2, <4>1, <4>2, SolutionsAgree
      <4>4. Of(u) = amt[Pick(u)] + Solution(amt, u)[v]
        BY <2>1, <2>2, <3>2, UnfoldAt
      <4>5. g[u] = amt[Pick(u)] + Of(v)
        BY <3>2
      <4> QED
        BY <4>3, <4>4, <4>5
    <3> QED
      BY <3>1, <3>2
  <2>3. ASSUME NEW s \in SUBSET T
        PROVE  g[s] = IF s = {} THEN 0 ELSE amt[Pick(s)] + g[s \ {Pick(s)}]
    <3>1. CASE s = {}
      BY <3>1
    <3>2. CASE s # {}
      <4>1. s \ {Pick(s)} \in SUBSET T /\ s \ {Pick(s)} # T
        BY <3>2, PickIn
      <4>2. g[s \ {Pick(s)}] = Of(s \ {Pick(s)})
        BY <2>2, <4>1
      <4> QED
        BY <3>2, <4>2
    <3> QED
      BY <3>1, <3>2
  <2>4. g = [s \in SUBSET T |-> g[s]]
    OBVIOUS
  <2> HIDE DEF g
  <2>5. Solves(amt, T, g)
    BY <2>3, <2>4 DEF Solves, Unfold
  <2> QED
    BY <2>5
<1> HIDE DEF G
<1>3. \A T \in SUBSET S : T \in G
  BY <1>1, <1>2, SubsetInduction
<1> QED
  BY <1>3 DEF G, Solution

(* The community modules' definition, in these terms.                      *)
LEMMA SumUnfolds ==
  ASSUME NEW amt, NEW S
  PROVE  Sum(amt, S) = Solution(amt, S)[S]
BY DEF Sum, MapThenSumSet, MapThenFoldSet, Solution, Solves, Unfold, Pick

LEMMA SumEmpty ==
  ASSUME NEW amt
  PROVE  Sum(amt, {}) = 0
BY FS_EmptySet, SolutionExists, SumUnfolds, UnfoldAt

LEMMA SumPick ==
  ASSUME NEW amt, NEW S, IsFiniteSet(S), S # {}
  PROVE  Sum(amt, S) = amt[Pick(S)] + Sum(amt, S \ {Pick(S)})
<1> DEFINE T == S \ {Pick(S)}
<1>1. T \in SUBSET S /\ IsFiniteSet(T)
  BY FS_Subset
<1>2. Solves(amt, S, Solution(amt, S)) /\ Solves(amt, T, Solution(amt, T))
  BY <1>1, SolutionExists
<1>3. Solution(amt, S)[S] = amt[Pick(S)] + Solution(amt, S)[T]
  <2> DEFINE g == Solution(amt, S)
  <2>1. Solves(amt, S, g)
    BY <1>2
  <2> HIDE DEF g
  <2>2. S \in SUBSET S
    OBVIOUS
  <2>3. g[S] = IF S = {} THEN 0 ELSE amt[Pick(S)] + g[T]
    BY <2>1, <2>2, UnfoldAt
  <2> QED
    BY <2>3 DEF g
<1>4. Solution(amt, S)[T] = Solution(amt, T)[T]
  BY <1>1, <1>2, SolutionsAgree
<1> QED
  BY <1>3, <1>4, SumUnfolds

-----------------------------------------------------------------------------
(* What the sums of the models need.                                       *)

LEMMA SumType ==
  ASSUME NEW amt, NEW S, IsFiniteSet(S), Terms(amt, S)
  PROVE  Sum(amt, S) \in Int
<1> DEFINE G == {T \in SUBSET S : Sum(amt, T) \in Int}
<1>1. {} \in G
  BY SumEmpty
<1>2. ASSUME NEW T \in SUBSET S, T # {}, \A x \in T : T \ {x} \in G PROVE T \in G
  <2>1. Pick(T) \in T /\ IsFiniteSet(T)
    BY <1>2, PickIn, FS_Subset
  <2>2. amt[Pick(T)] \in Int /\ Sum(amt, T \ {Pick(T)}) \in Int
    BY <1>2, <2>1 DEF Terms
  <2> QED
    BY <1>2, <2>1, <2>2, SumPick
<1> HIDE DEF G
<1>3. \A T \in SUBSET S : T \in G
  BY <1>1, <1>2, SubsetInduction
<1> QED
  BY <1>3 DEF G

(* Any element may be taken out first.                                     *)
LEMMA SumRemove ==
  ASSUME NEW amt, NEW S, IsFiniteSet(S), Terms(amt, S), NEW e \in S
  PROVE  Sum(amt, S) = amt[e] + Sum(amt, S \ {e})
<1> DEFINE G == {T \in SUBSET S : \A x \in T : Sum(amt, T) = amt[x] + Sum(amt, T \ {x})}
<1>1. {} \in G
  OBVIOUS
<1>2. ASSUME NEW T \in SUBSET S, T # {}, \A x \in T : T \ {x} \in G, NEW x \in T
      PROVE  Sum(amt, T) = amt[x] + Sum(amt, T \ {x})
  <2> DEFINE p == Pick(T)
             U == T \ {p, x}
  <2>1. p \in T /\ IsFiniteSet(T)
    BY <1>2, PickIn, FS_Subset
  <2>2. Sum(amt, T) = amt[p] + Sum(amt, T \ {p})
    BY <1>2, <2>1, SumPick
  <2>3. CASE p = x
    BY <2>2, <2>3
  <2>4. CASE p # x
    <3>1. T \ {p} \in G /\ T \ {x} \in G
      BY <1>2, <2>1
    <3>2. Sum(amt, T \ {p}) = amt[x] + Sum(amt, (T \ {p}) \ {x})
      BY <2>4, <3>1
    <3>3. Sum(amt, T \ {x}) = amt[p] + Sum(amt, (T \ {x}) \ {p})
      BY <2>1, <2>4, <3>1
    <3>4. (T \ {p}) \ {x} = U /\ (T \ {x}) \ {p} = U
      OBVIOUS
    <3>5. IsFiniteSet(U) /\ Terms(amt, U) /\ amt[p] \in Int /\ amt[x] \in Int
      BY <2>1, FS_Subset DEF Terms
    <3>6. Sum(amt, U) \in Int
      BY <3>5, SumType
    <3> DEFINE t == Sum(amt, U)
    <3>7. Sum(amt, T \ {p}) = amt[x] + t /\ Sum(amt, T \ {x}) = amt[p] + t
      BY <3>2, <3>3, <3>4
    <3>8. Sum(amt, T) = amt[p] + (amt[x] + t)
      BY <2>2, <3>7
    <3>9. amt[p] + (amt[x] + t) = amt[x] + (amt[p] + t)
      <4> HIDE DEF t, p
      <4> QED
        BY <3>5, <3>6 DEF t
    <3> QED
      BY <3>7, <3>8, <3>9
  <2> QED
    BY <2>3, <2>4
<1>3. \A T \in SUBSET S : T # {} /\ (\A x \in T : T \ {x} \in G) => T \in G
  BY <1>2
<1> HIDE DEF G
<1>4. S \in G
  BY <1>1, <1>3, SubsetInduction
<1> QED
  BY <1>4 DEF G

LEMMA SumAdd ==
  ASSUME NEW amt, NEW S, IsFiniteSet(S), Terms(amt, S), NEW e, e \notin S, amt[e] \in Int
  PROVE  Sum(amt, S \cup {e}) = Sum(amt, S) + amt[e]
<1>1. IsFiniteSet(S \cup {e}) /\ Terms(amt, S \cup {e}) /\ (S \cup {e}) \ {e} = S
  BY FS_AddElement DEF Terms
<1>2. Sum(amt, S \cup {e}) = amt[e] + Sum(amt, S)
  BY <1>1, SumRemove
<1> QED
  BY <1>2, SumType

(* A sum of terms that are not negative is at least any part of it.        *)
LEMMA SumOfPart ==
  ASSUME NEW amt, NEW S, IsFiniteSet(S), \A x \in S : amt[x] \in Nat, NEW T \in SUBSET S
  PROVE  Sum(amt, T) \in Nat /\ Sum(amt, T) <= Sum(amt, S)
<1> DEFINE G == {U \in SUBSET S : /\ Sum(amt, U) \in Nat
                                  /\ \A V \in SUBSET U : Sum(amt, V) \in Nat /\ Sum(amt, V) <= Sum(amt, U)}
<1>1. {} \in G
  BY SumEmpty
<1>2. ASSUME NEW U \in SUBSET S, U # {}, \A x \in U : U \ {x} \in G PROVE U \in G
  <2>1. IsFiniteSet(U) /\ Terms(amt, U)
    BY FS_Subset DEF Terms
  <2>2. ASSUME NEW x \in U PROVE /\ Sum(amt, U) \in Nat /\ Sum(amt, U \ {x}) <= Sum(amt, U)
                                 /\ Sum(amt, U \ {x}) \in Nat
    <3>1. Sum(amt, U) = amt[x] + Sum(amt, U \ {x})
      BY <2>1, SumRemove
    <3>2. amt[x] \in Nat /\ Sum(amt, U \ {x}) \in Nat
      BY <1>2
    <3> QED
      BY <3>1, <3>2
  <2>3. ASSUME NEW V \in SUBSET U PROVE Sum(amt, V) \in Nat /\ Sum(amt, V) <= Sum(amt, U)
    <3>1. CASE V = U
      <4>1. PICK x \in U : TRUE
        BY <1>2
      <4>2. Sum(amt, U) \in Nat
        BY <2>2, <4>1
      <4> QED
        BY <3>1, <4>2
    <3>2. CASE V # U
      <4>1. PICK x \in U : x \notin V
        BY <3>2
      <4>2. V \in SUBSET (U \ {x})
        BY <4>1
      <4>3. Sum(amt, V) \in Nat /\ Sum(amt, V) <= Sum(amt, U \ {x})
        BY <1>2, <4>1, <4>2
      <4> QED
        BY <2>2, <4>1, <4>3
    <3> QED
      BY <3>1, <3>2
  <2> QED
    BY <1>2, <2>2, <2>3
<1> HIDE DEF G
<1>3. \A U \in SUBSET S : U \in G
  BY <1>1, <1>2, SubsetInduction
<1> QED
  BY <1>3 DEF G

LEMMA SumSame ==
  ASSUME NEW amt, NEW bmt, NEW S, IsFiniteSet(S), \A x \in S : amt[x] = bmt[x]
  PROVE  Sum(amt, S) = Sum(bmt, S)
<1> DEFINE G == {T \in SUBSET S : Sum(amt, T) = Sum(bmt, T)}
<1>1. {} \in G
  BY SumEmpty
<1>2. ASSUME NEW T \in SUBSET S, T # {}, \A x \in T : T \ {x} \in G PROVE T \in G
  <2>1. Pick(T) \in T /\ IsFiniteSet(T)
    BY <1>2, PickIn, FS_Subset
  <2>2. amt[Pick(T)] = bmt[Pick(T)]
    BY <2>1
  <2>3. Sum(amt, T \ {Pick(T)}) = Sum(bmt, T \ {Pick(T)})
    BY <1>2, <2>1
  <2>4. Sum(amt, T) = amt[Pick(T)] + Sum(amt, T \ {Pick(T)})
    BY <1>2, <2>1, SumPick
  <2>5. Sum(bmt, T) = bmt[Pick(T)] + Sum(bmt, T \ {Pick(T)})
    BY <1>2, <2>1, SumPick
  <2> QED
    BY <2>2, <2>3, <2>4, <2>5
<1> HIDE DEF G
<1>3. \A T \in SUBSET S : T \in G
  BY <1>1, <1>2, SubsetInduction
<1> QED
  BY <1>3 DEF G
=============================================================================
