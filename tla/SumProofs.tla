------------------------------ MODULE SumProofs ------------------------------
(***************************************************************************)
(* Sums over finite sets, as SumFunctionOnSet of the community modules     *)
(* defines them: taking the elements out one by one, in an order that      *)
(* CHOOSE fixes.  That the recursion has a solution, and that the order    *)
(* does not matter, are inductions over finite sets.  The induction        *)
(* theorems of the library take the statement as an operator; here it is a *)
(* set, the set of counterexamples, which has a smallest element.          *)
(***************************************************************************)
EXTENDS Integers, FiniteSets, FiniteSetsExt, FiniteSetTheorems, TLAPS

\* A nonempty set of subsets of a finite set has a smallest one.
LEMMA SmallestSubset ==
  ASSUME NEW S, IsFiniteSet(S), NEW B, B \subseteq SUBSET S, B # {}
  PROVE  \E T \in B : \A U \in SUBSET T : U # T => U \notin B
<1>1. FiniteSubsetsOf(S) = SUBSET S
  BY FS_FiniteSubsetsOfFinite
<1>2. IsWellFoundedOn(StrictSubsetOrdering(S), SUBSET S)
  BY <1>1, FS_StrictSubsetOrderingWellFounded
<1>3. PICK T \in B : \A y \in B : ~ (<<y, T>> \in StrictSubsetOrdering(S))
  BY <1>2, WFMin
<1>. QED BY <1>3 DEF StrictSubsetOrdering

\* A nonempty set of natural numbers has a smallest one.
LEMMA SmallestNumber ==
  ASSUME NEW B, B \subseteq Nat, B # {}
  PROVE  \E n \in B : \A m \in B : n <= m
<1>1. PICK n \in B : \A y \in B : ~ (<<y, n>> \in OpToRel(<, Nat))
  BY NatLessThanWellFounded, WFMin
<1>2. \A y \in B : ~(y < n)
  BY <1>1 DEF OpToRel
<1>. QED BY <1>2

\* The element that is taken out first.
Some(s) == CHOOSE x \in s : TRUE

\* What the sum over s is, given the sums g over smaller sets.
Added(f, g, s) == IF s = {} THEN 0 ELSE f[Some(s)] + g[s \ {Some(s)}]

\* The sums of f over the subsets of S, as the recursion defines them.
Sums(f, S) == CHOOSE g : g = [s \in SUBSET S |-> Added(f, g, s)]

\* SumFunctionOnSet is defined by that recursion.
LEMMA SumIsIterated ==
  ASSUME NEW f, NEW S
  PROVE  SumFunctionOnSet(f, S) = Sums(f, S)[S]
BY Zenon DEF SumFunctionOnSet, FoldFunctionOnSet, MapThenFoldSet, Sums, Added, Some

\* Taking an element out leaves a smaller subset.
LEMMA SomeTaken ==
  ASSUME NEW S, IsFiniteSet(S), NEW s \in SUBSET S, s # {}
  PROVE  /\ Some(s) \in s /\ s \ {Some(s)} \in SUBSET S /\ s \ {Some(s)} # s
         /\ Cardinality(s) \in Nat /\ Cardinality(s) > 0
         /\ Cardinality(s \ {Some(s)}) = Cardinality(s) - 1
<1>1. Some(s) \in s
  BY DEF Some
<1>2. IsFiniteSet(s)
  BY FS_Subset
<1>3. Cardinality(s) \in Nat /\ Cardinality(s) # 0
  BY <1>2, FS_CardinalityType, FS_EmptySet
<1>4. Cardinality(s \ {Some(s)}) = Cardinality(s) - 1
  BY <1>1, <1>2, FS_RemoveElement
<1>. QED  BY <1>1, <1>3, <1>4

\* The recursion has a solution, and the sums are one.
LEMMA SumsExist ==
  ASSUME NEW S, IsFiniteSet(S), NEW f, \A x \in S : f[x] \in Int
  PROVE  Sums(f, S) = [s \in SUBSET S |-> Added(f, Sums(f, S), s)]
<1>. DEFINE Solves(g, k) == \A s \in SUBSET S : Cardinality(s) <= k => g[s] = Added(f, g, s)
            Bad == {k \in Nat : ~ \E g \in [SUBSET S -> Int] : Solves(g, k)}
<1>1. \A s \in SUBSET S : Cardinality(s) \in Nat /\ (Cardinality(s) = 0 <=> s = {})
                          /\ Cardinality(s) <= Cardinality(S)
  BY FS_Subset, FS_CardinalityType, FS_EmptySet
<1>2. 0 \notin Bad
  <2>. DEFINE g == [s \in SUBSET S |-> 0]
  <2>1. g \in [SUBSET S -> Int]
    OBVIOUS
  <2>2. Solves(g, 0)
    BY <1>1 DEF Added
  <2>. QED BY <2>1, <2>2
<1>3. ASSUME NEW k \in Nat, k \notin Bad PROVE k + 1 \notin Bad
  <2>1. PICK g \in [SUBSET S -> Int] : Solves(g, k)
    BY <1>3
  <2>. DEFINE h == [s \in SUBSET S |-> IF Cardinality(s) <= k THEN g[s] ELSE Added(f, g, s)]
  <2>2. \A s \in SUBSET S : Added(f, g, s) \in Int
    <3>1. ASSUME NEW s \in SUBSET S, s # {} PROVE f[Some(s)] + g[s \ {Some(s)}] \in Int
      <4>1. Some(s) \in S /\ s \ {Some(s)} \in SUBSET S
        BY <3>1, SomeTaken
      <4>. QED BY <4>1
    <3>. QED BY <3>1 DEF Added
  <2>3. h \in [SUBSET S -> Int]
    BY <2>2
  <2>4. Solves(h, k + 1)
    <3>1. ASSUME NEW s \in SUBSET S, Cardinality(s) <= k + 1
          PROVE  h[s] = Added(f, h, s)
      <4>1. CASE s = {}
        <5>1. Cardinality(s) <= k
          BY <1>1, <4>1
        <5>. QED BY <2>1, <4>1, <5>1 DEF Added
      <4>2. CASE s # {}
        <5>. DEFINE u == s \ {Some(s)}
        <5>1. u \in SUBSET S /\ Cardinality(u) = Cardinality(s) - 1
          BY <4>2, SomeTaken
        <5>2. Cardinality(u) <= k
          BY <1>1, <3>1, <5>1
        <5>3. h[u] = g[u]
          BY <5>1, <5>2
        <5>4. h[s] = Added(f, g, s)
          BY <2>1
        <5>. QED BY <4>2, <5>3, <5>4 DEF Added
      <4>. QED BY <4>1, <4>2
    <3>. QED BY <3>1
  <2>. HIDE DEF h, Solves
  <2>. QED BY <2>3, <2>4
<1>. HIDE DEF Solves
<1>4. Bad = {}
  <2>. SUFFICES ASSUME Bad # {} PROVE FALSE
    OBVIOUS
  <2>1. Bad \subseteq Nat
    OBVIOUS
  <2>. HIDE DEF Bad
  <2>2. PICK n \in Bad : \A m \in Bad : n <= m
    BY <2>1, SmallestNumber
  <2>3. n \in Nat /\ n # 0
    BY <1>2, <2>1
  <2>4. n - 1 \in Nat /\ n - 1 \notin Bad /\ (n - 1) + 1 = n
    BY <2>2, <2>3
  <2>. QED BY <1>3, <2>2, <2>4
<1>5. Cardinality(S) \in Nat
  BY FS_CardinalityType
<1>6. PICK g \in [SUBSET S -> Int] : Solves(g, Cardinality(S))
  BY <1>4, <1>5
<1>7. \A s \in SUBSET S : g[s] = Added(f, g, s)
  BY <1>1, <1>6 DEF Solves
<1>8. g = [s \in SUBSET S |-> g[s]]
  OBVIOUS
<1>9. g = [s \in SUBSET S |-> Added(f, g, s)]
  BY <1>7, <1>8, Zenon
<1>10. \E h : h = [s \in SUBSET S |-> Added(f, h, s)]
  BY <1>9
<1>. QED  BY <1>10, Zenon DEF Sums

\* The sums satisfy the recursion, and are numbers.
LEMMA SumsAdd ==
  ASSUME NEW S, IsFiniteSet(S), NEW f, \A x \in S : f[x] \in Nat
  PROVE  \A s \in SUBSET S : Sums(f, S)[s] = Added(f, Sums(f, S), s) /\ Sums(f, S)[s] \in Nat
<1>0. \A x \in S : f[x] \in Int
  OBVIOUS
<1>1. Sums(f, S) = [s \in SUBSET S |-> Added(f, Sums(f, S), s)]
  BY <1>0, SumsExist
<1>. DEFINE g == Sums(f, S)
<1>2. g = [s \in SUBSET S |-> Added(f, g, s)]
  BY <1>1
<1>. HIDE DEF g
<1>3. \A s \in SUBSET S : g[s] = Added(f, g, s)
  BY <1>2, Zenon
<1>. DEFINE Bad == {s \in SUBSET S : g[s] \notin Nat}
<1>4. Bad = {}
  <2>. SUFFICES ASSUME Bad # {} PROVE FALSE
    OBVIOUS
  <2>1. PICK T \in Bad : \A U \in SUBSET T : U # T => U \notin Bad
    <3>1. Bad \subseteq SUBSET S
      OBVIOUS
    <3>. HIDE DEF Bad
    <3>. QED BY <3>1, SmallestSubset
  <2>2. T \in SUBSET S /\ g[T] \notin Nat
    OBVIOUS
  <2>3. T # {}
    <3>1. {} \in SUBSET S
      OBVIOUS
    <3>2. g[{}] = Added(f, g, {})
      BY <1>3, <3>1
    <3>3. g[{}] \in Nat
      BY <3>2 DEF Added
    <3>. HIDE DEF Bad
    <3>. QED BY <2>2, <3>3
  <2>4. Some(T) \in S /\ T \ {Some(T)} \in SUBSET S /\ T \ {Some(T)} \in SUBSET T
        /\ T \ {Some(T)} # T
    BY <2>2, <2>3, SomeTaken
  <2>5. g[T \ {Some(T)}] \in Nat
    BY <2>1, <2>4
  <2>6. g[T] = f[Some(T)] + g[T \ {Some(T)}]
    BY <1>3, <2>2, <2>3 DEF Added
  <2>. QED BY <2>2, <2>4, <2>5, <2>6
<1>. QED  BY <1>3, <1>4 DEF g

\* Any element may be taken out first.
LEMMA SumsCommute ==
  ASSUME NEW S, IsFiniteSet(S), NEW f, \A x \in S : f[x] \in Nat
  PROVE  \A s \in SUBSET S : \A x \in s : Sums(f, S)[s] = f[x] + Sums(f, S)[s \ {x}]
<1>. DEFINE g == Sums(f, S)
            Bad == {s \in SUBSET S : \E x \in s : g[s] # f[x] + g[s \ {x}]}
<1>1. \A s \in SUBSET S : g[s] = Added(f, g, s) /\ g[s] \in Nat
  BY SumsAdd
<1>. HIDE DEF g
<1>2. Bad = {}
  <2>. SUFFICES ASSUME Bad # {} PROVE FALSE
    OBVIOUS
  <2>1. PICK T \in Bad : \A U \in SUBSET T : U # T => U \notin Bad
    <3>1. Bad \subseteq SUBSET S
      OBVIOUS
    <3>. HIDE DEF Bad
    <3>. QED BY <3>1, SmallestSubset
  <2>2. PICK x \in T : g[T] # f[x] + g[T \ {x}]
    OBVIOUS
  <2>3. T \in SUBSET S /\ T # {}
    BY <2>2
  <2>. DEFINE c == Some(T)
  <2>4. c \in T /\ g[T] = f[c] + g[T \ {c}]
    BY <1>1, <2>3, SomeTaken DEF Added
  <2>. HIDE DEF c
  <2>5. x # c
    BY <2>2, <2>4
  <2>6. T \ {c} \notin Bad /\ T \ {x} \notin Bad
    BY <2>1, <2>2, <2>4
  <2>7. x \in T \ {c} /\ c \in T \ {x} /\ T \ {c} \in SUBSET S /\ T \ {x} \in SUBSET S
    BY <2>2, <2>3, <2>4, <2>5
  <2>8. g[T \ {c}] = f[x] + g[(T \ {c}) \ {x}] /\ g[T \ {x}] = f[c] + g[(T \ {x}) \ {c}]
    BY <2>6, <2>7
  <2>9. (T \ {c}) \ {x} = (T \ {x}) \ {c} /\ (T \ {x}) \ {c} \in SUBSET S
    BY <2>7
  <2>10. f[x] \in Nat /\ f[c] \in Nat /\ g[(T \ {x}) \ {c}] \in Nat
    BY <1>1, <2>3, <2>4, <2>9
  <2>11. g[T \ {c}] = f[x] + g[(T \ {x}) \ {c}]
    BY <2>8, <2>9
  <2>. HIDE DEF Bad
  <2>. QED BY <2>2, <2>4, <2>8, <2>10, <2>11
<1>. QED  BY <1>2 DEF g

\* The sums over the subsets of s are the same among the subsets of S.
LEMMA SumsAgree ==
  ASSUME NEW S, IsFiniteSet(S), NEW f, \A x \in S : f[x] \in Nat, NEW s \in SUBSET S
  PROVE  Sums(f, S)[s] = SumFunctionOnSet(f, s)
<1>. DEFINE g == Sums(f, S)
            h == Sums(f, s)
            Bad == {t \in SUBSET s : g[t] # h[t]}
<1>1. IsFiniteSet(s) /\ \A x \in s : f[x] \in Nat
  BY FS_Subset
<1>2. \A t \in SUBSET s : g[t] = Added(f, g, t) /\ h[t] = Added(f, h, t)
  BY <1>1, SumsAdd
<1>. HIDE DEF g, h
<1>3. Bad = {}
  <2>. SUFFICES ASSUME Bad # {} PROVE FALSE
    OBVIOUS
  <2>1. PICK T \in Bad : \A U \in SUBSET T : U # T => U \notin Bad
    <3>1. Bad \subseteq SUBSET s
      OBVIOUS
    <3>. HIDE DEF Bad
    <3>. QED BY <1>1, <3>1, SmallestSubset
  <2>2. T \in SUBSET s /\ g[T] # h[T]
    OBVIOUS
  <2>3. T # {}
    <3>1. {} \in SUBSET s /\ Added(f, g, {}) = 0 /\ Added(f, h, {}) = 0
      BY DEF Added
    <3>. HIDE DEF Bad
    <3>. QED BY <1>2, <2>2, <3>1
  <2>4. T \ {Some(T)} \in SUBSET T /\ T \ {Some(T)} # T
    BY <1>1, <2>2, <2>3, SomeTaken
  <2>5. g[T \ {Some(T)}] = h[T \ {Some(T)}]
    BY <2>1, <2>2, <2>4
  <2>. HIDE DEF Bad
  <2>. QED BY <1>2, <2>2, <2>3, <2>5 DEF Added
<1>4. g[s] = h[s]
  BY <1>3
<1>. QED  BY <1>4, SumIsIterated DEF g, h

-----------------------------------------------------------------------------
(* What a sum is *)

\* The sum over no elements.
LEMMA SumOfNothing ==
  ASSUME NEW f
  PROVE  SumFunctionOnSet(f, {}) = 0
<1>1. IsFiniteSet({}) /\ \A x \in {} : f[x] \in Nat
  BY FS_EmptySet
<1>2. Sums(f, {})[{}] = Added(f, Sums(f, {}), {})
  BY <1>1, SumsAdd
<1>. QED  BY <1>2, SumIsIterated DEF Added

\* The sum of no terms but 0.
LEMMA SumOfNone ==
  ASSUME NEW S, IsFiniteSet(S), NEW f, \A x \in S : f[x] = 0
  PROVE  SumFunctionOnSet(f, S) = 0
<1>. DEFINE g == Sums(f, S)
            Bad == {s \in SUBSET S : g[s] # 0}
<1>1. \A x \in S : f[x] \in Nat
  OBVIOUS
<1>2. \A s \in SUBSET S : g[s] = Added(f, g, s)
  BY <1>1, SumsAdd
<1>. HIDE DEF g
<1>3. Bad = {}
  <2>. SUFFICES ASSUME Bad # {} PROVE FALSE
    OBVIOUS
  <2>1. PICK T \in Bad : \A U \in SUBSET T : U # T => U \notin Bad
    <3>1. Bad \subseteq SUBSET S
      OBVIOUS
    <3>. HIDE DEF Bad
    <3>. QED BY <3>1, SmallestSubset
  <2>2. T \in SUBSET S /\ g[T] # 0
    OBVIOUS
  <2>3. T # {}
    BY <1>2, <2>2 DEF Added
  <2>4. Some(T) \in T /\ T \ {Some(T)} \in SUBSET T /\ T \ {Some(T)} # T
    BY <2>2, <2>3, SomeTaken
  <2>5. g[T \ {Some(T)}] = 0 /\ f[Some(T)] = 0
    BY <2>1, <2>2, <2>4
  <2>. HIDE DEF Bad
  <2>. QED BY <1>2, <2>2, <2>3, <2>5 DEF Added
<1>4. g[S] = 0
  BY <1>3
<1>. QED  BY <1>4, SumIsIterated DEF g

\* A sum of numbers is a number, and any element can be taken out of it.
LEMMA SumTakesOut ==
  ASSUME NEW S, IsFiniteSet(S), NEW f, \A x \in S : f[x] \in Nat
  PROVE  /\ SumFunctionOnSet(f, S) \in Nat
         /\ \A x \in S : SumFunctionOnSet(f, S) = f[x] + SumFunctionOnSet(f, S \ {x})
<1>1. SumFunctionOnSet(f, S) = Sums(f, S)[S] /\ Sums(f, S)[S] \in Nat
  BY SumsAdd, SumIsIterated
<1>2. ASSUME NEW x \in S
      PROVE  SumFunctionOnSet(f, S) = f[x] + SumFunctionOnSet(f, S \ {x})
  <2>1. Sums(f, S)[S] = f[x] + Sums(f, S)[S \ {x}]
    BY SumsCommute
  <2>2. Sums(f, S)[S \ {x}] = SumFunctionOnSet(f, S \ {x})
    BY SumsAgree
  <2>. QED BY <1>1, <2>1, <2>2
<1>. QED  BY <1>1, <1>2

\* One element more.
LEMMA SumOfOneMore ==
  ASSUME NEW S, IsFiniteSet(S), NEW x, x \notin S,
         NEW f, \A y \in S \cup {x} : f[y] \in Nat
  PROVE  SumFunctionOnSet(f, S \cup {x}) = f[x] + SumFunctionOnSet(f, S)
<1>1. IsFiniteSet(S \cup {x})
  BY FS_AddElement
<1>2. (S \cup {x}) \ {x} = S
  OBVIOUS
<1>. QED  BY <1>1, <1>2, SumTakesOut

\* Smaller terms, smaller sum.
LEMMA SumOfSmaller ==
  ASSUME NEW S, IsFiniteSet(S), NEW f, NEW g,
         \A x \in S : f[x] \in Nat /\ g[x] \in Nat /\ f[x] <= g[x]
  PROVE  SumFunctionOnSet(f, S) <= SumFunctionOnSet(g, S)
<1>. DEFINE F(s) == SumFunctionOnSet(f, s)
            G(s) == SumFunctionOnSet(g, s)
            Bad == {s \in SUBSET S : ~(F(s) <= G(s))}
<1>1. ASSUME NEW s \in SUBSET S
      PROVE  /\ F(s) \in Nat /\ G(s) \in Nat
             /\ \A x \in s : F(s) = f[x] + F(s \ {x}) /\ G(s) = g[x] + G(s \ {x})
  <2>1. IsFiniteSet(s) /\ \A x \in s : f[x] \in Nat /\ g[x] \in Nat
    BY FS_Subset
  <2>. QED BY <2>1, SumTakesOut
<1>2. F({}) = 0 /\ G({}) = 0
  BY SumOfNothing
<1>. HIDE DEF F, G
<1>3. Bad = {}
  <2>. SUFFICES ASSUME Bad # {} PROVE FALSE
    OBVIOUS
  <2>1. PICK T \in Bad : \A U \in SUBSET T : U # T => U \notin Bad
    <3>1. Bad \subseteq SUBSET S
      OBVIOUS
    <3>. HIDE DEF Bad
    <3>. QED BY <3>1, SmallestSubset
  <2>2. T \in SUBSET S /\ ~(F(T) <= G(T))
    OBVIOUS
  <2>3. T # {}
    BY <1>2, <2>2
  <2>4. PICK x \in T : TRUE
    BY <2>3
  <2>. DEFINE U == T \ {x}
  <2>5. U \in SUBSET S /\ U \in SUBSET T /\ U # T
    BY <2>2, <2>4
  <2>6. F(U) <= G(U)
    BY <2>1, <2>5
  <2>. HIDE DEF Bad
  <2>7. F(T) = f[x] + F(U) /\ G(T) = g[x] + G(U)
    BY <1>1, <2>2
  <2>. HIDE DEF U
  <2>8. F(U) \in Nat /\ G(U) \in Nat /\ f[x] \in Nat /\ g[x] \in Nat /\ f[x] <= g[x]
    BY <1>1, <2>2, <2>5
  <2>. QED BY <2>2, <2>6, <2>7, <2>8
<1>4. F(S) <= G(S)
  BY <1>3
<1>. QED  BY <1>4 DEF F, G

\* Fewer elements, smaller sum.
LEMMA SumOfFewer ==
  ASSUME NEW S, IsFiniteSet(S), NEW f, \A x \in S : f[x] \in Nat, NEW R \in SUBSET S
  PROVE  SumFunctionOnSet(f, R) <= SumFunctionOnSet(f, S)
<1>. DEFINE F(s) == SumFunctionOnSet(f, s)
            Bad == {s \in SUBSET S : R \subseteq s /\ ~(F(R) <= F(s))}
<1>1. ASSUME NEW s \in SUBSET S
      PROVE  F(s) \in Nat /\ \A x \in s : F(s) = f[x] + F(s \ {x})
  <2>1. IsFiniteSet(s) /\ \A x \in s : f[x] \in Nat
    BY FS_Subset
  <2>. QED BY <2>1, SumTakesOut
<1>. HIDE DEF F
<1>2. Bad = {}
  <2>. SUFFICES ASSUME Bad # {} PROVE FALSE
    OBVIOUS
  <2>1. PICK T \in Bad : \A U \in SUBSET T : U # T => U \notin Bad
    <3>1. Bad \subseteq SUBSET S
      OBVIOUS
    <3>. HIDE DEF Bad
    <3>. QED BY <3>1, SmallestSubset
  <2>2. T \in SUBSET S /\ R \subseteq T /\ ~(F(R) <= F(T))
    OBVIOUS
  <2>3. F(R) \in Nat
    BY <1>1
  <2>4. PICK x \in T : x \notin R
    BY <2>2, <2>3
  <2>. DEFINE U == T \ {x}
  <2>5. U \in SUBSET S /\ U \in SUBSET T /\ U # T /\ R \subseteq U
    BY <2>2, <2>4
  <2>6. F(R) <= F(U)
    BY <2>1, <2>5
  <2>. HIDE DEF Bad
  <2>7. F(T) = f[x] + F(U)
    BY <1>1, <2>2
  <2>. HIDE DEF U
  <2>8. F(U) \in Nat /\ f[x] \in Nat
    BY <1>1, <2>2, <2>5
  <2>. QED BY <2>2, <2>3, <2>6, <2>7, <2>8
<1>3. F(R) <= F(S)
  BY <1>2
<1>. QED  BY <1>3 DEF F

\* Equal terms, equal sum.
LEMMA SumOfSame ==
  ASSUME NEW S, IsFiniteSet(S), NEW f, NEW g, \A x \in S : f[x] \in Nat /\ g[x] = f[x]
  PROVE  SumFunctionOnSet(g, S) = SumFunctionOnSet(f, S)
<1>1. \A x \in S : f[x] \in Nat /\ g[x] \in Nat /\ f[x] <= g[x] /\ g[x] <= f[x]
  OBVIOUS
<1>2. /\ SumFunctionOnSet(f, S) <= SumFunctionOnSet(g, S)
      /\ SumFunctionOnSet(g, S) <= SumFunctionOnSet(f, S)
  BY <1>1, SumOfSmaller
<1>3. SumFunctionOnSet(f, S) \in Nat /\ SumFunctionOnSet(g, S) \in Nat
  BY <1>1, SumTakesOut
<1>. QED  BY <1>2, <1>3

\* One term larger by one.
LEMMA SumOfRaised ==
  ASSUME NEW S, IsFiniteSet(S), NEW f, NEW g, NEW x \in S,
         \A y \in S : f[y] \in Nat, \A y \in S : y # x => g[y] = f[y],
         g[x] = f[x] + 1
  PROVE  SumFunctionOnSet(g, S) = SumFunctionOnSet(f, S) + 1
<1>1. \A y \in S : g[y] \in Nat
  OBVIOUS
<1>2. /\ SumFunctionOnSet(f, S) = f[x] + SumFunctionOnSet(f, S \ {x})
      /\ SumFunctionOnSet(g, S) = g[x] + SumFunctionOnSet(g, S \ {x})
  BY <1>1, SumTakesOut
<1>3. IsFiniteSet(S \ {x})
  BY FS_RemoveElement
<1>4. SumFunctionOnSet(g, S \ {x}) = SumFunctionOnSet(f, S \ {x})
  BY <1>3, SumOfSame
<1>5. SumFunctionOnSet(f, S \ {x}) \in Nat
  BY <1>3, SumTakesOut
<1>. QED  BY <1>2, <1>4, <1>5
=============================================================================
