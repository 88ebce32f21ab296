----------------------------- MODULE SumLemmas -----------------------------
(***************************************************************************)
(* Induction without an operator parameter, and what it gives about the    *)
(* sum of a function over a finite set, a fold of the community modules.   *)
(* A property that is to be shown by induction is the set of the members   *)
(* that have it, and a least counterexample (WFMin) leads to a             *)
(* contradiction.                                                          *)
(***************************************************************************)
EXTENDS Integers, FiniteSets, FiniteSetsExt, WellFoundedInduction, FiniteSetTheorems, TLAPS

SumOver(f, S) == FoldSet(LAMBDA k, sum : sum + f[k], 0, S)

Pick(s) == CHOOSE x \in s : TRUE
\* The equation of the fold, for the partial sums of f.
Step(f, g, s) == IF s = {} THEN 0 ELSE g[s \ {Pick(s)}] + f[Pick(s)]
IsSums(f, S, g) == g = [s \in SUBSET S |-> Step(f, g, s)]
UpTo(S, n) == {t \in SUBSET S : Cardinality(t) <= n}
IsSumsUpTo(f, S, n, g) == g = [s \in UpTo(S, n) |-> Step(f, g, s)]
Sums(f, S) == CHOOSE g : IsSums(f, S, g)

LEMMA SubsetsWellFounded ==
  ASSUME NEW S, IsFiniteSet(S)
  PROVE  IsWellFoundedOn(StrictSubsetOrdering(S), SUBSET S)
BY FS_StrictSubsetOrderingWellFounded, FS_FiniteSubsetsOfFinite

\* A set of subsets of S that has every subset whose own subsets it has, has
\* all of them.
LEMMA SubsetInduction ==
  ASSUME NEW S, IsFiniteSet(S), NEW P,
         \A T \in SUBSET S : (\A U \in SUBSET T : U # T => U \in P) => T \in P
  PROVE  SUBSET S \subseteq P
<1> SUFFICES ASSUME ~(SUBSET S \subseteq P) PROVE FALSE
  OBVIOUS
<1> DEFINE Bad == (SUBSET S) \ P
<1>1. IsWellFoundedOn(StrictSubsetOrdering(S), SUBSET S)
  BY SubsetsWellFounded
<1>2. Bad \subseteq SUBSET S /\ Bad # {}
  OBVIOUS
<1>3. PICK T \in Bad : \A U \in Bad : <<U, T>> \notin StrictSubsetOrdering(S)
  <2> HIDE DEF Bad
  <2> QED BY <1>1, <1>2, WFMin
<1>4. \A U \in SUBSET T : U # T => U \in P
  BY <1>3 DEF StrictSubsetOrdering
<1> QED
  BY <1>3, <1>4

\* The natural numbers, by a set that has 0 and every successor.
LEMMA NatSetInduction ==
  ASSUME NEW P, 0 \in P, \A n \in Nat : n \in P => n + 1 \in P
  PROVE  Nat \subseteq P
<1> SUFFICES ASSUME ~(Nat \subseteq P) PROVE FALSE
  OBVIOUS
<1> DEFINE Bad == Nat \ P
<1>1. Bad \subseteq Nat /\ Bad # {}
  OBVIOUS
<1>2. PICK n \in Bad : \A m \in Bad : <<m, n>> \notin OpToRel(<, Nat)
  <2> HIDE DEF Bad
  <2> QED BY <1>1, NatLessThanWellFounded, WFMin
<1>3. n # 0 /\ n - 1 \in Nat /\ n - 1 < n
  OBVIOUS
<1>4. n - 1 \notin Bad
  BY <1>2, <1>3 DEF OpToRel
<1> QED
  BY <1>3, <1>4

\* Partial sums exist on the subsets of at most n members.
LEMMA SumsUpTo ==
  ASSUME NEW S, IsFiniteSet(S), NEW f
  PROVE  \A n \in Nat : \E g : IsSumsUpTo(f, S, n, g)
<1> DEFINE P == {n \in Nat : \E g : IsSumsUpTo(f, S, n, g)}
<1>0. \A t \in SUBSET S : IsFiniteSet(t) /\ Cardinality(t) \in Nat
  BY FS_Subset, FS_CardinalityType
<1>1. 0 \in P
  <2> DEFINE g == [s \in UpTo(S, 0) |-> 0]
  <2>1. \A s \in UpTo(S, 0) : s = {}
    BY <1>0, FS_EmptySet DEF UpTo
  <2>2. IsSumsUpTo(f, S, 0, g)
    BY <2>1 DEF Step, IsSumsUpTo
  <2> QED BY <2>2
<1>2. ASSUME NEW n \in Nat, n \in P PROVE n + 1 \in P
  <2>1. PICK g : IsSumsUpTo(f, S, n, g)
    BY <1>2
  <2> DEFINE h == [s \in UpTo(S, n + 1) |-> Step(f, g, s)]
  <2>2. \A s \in UpTo(S, n) : s \in UpTo(S, n + 1)
    BY <1>0 DEF UpTo
  <2>3. \A s \in UpTo(S, n) : h[s] = g[s]
    BY <2>1, <2>2 DEF IsSumsUpTo
  <2>4. \A s \in UpTo(S, n + 1) : s # {} => Pick(s) \in s /\ s \ {Pick(s)} \in UpTo(S, n)
    <3> TAKE s \in UpTo(S, n + 1)
    <3> HAVE s # {}
    <3>1. Pick(s) \in s
      BY DEF Pick
    <3>2. Cardinality(s \ {Pick(s)}) = Cardinality(s) - 1
      BY <3>1, <1>0, FS_RemoveElement DEF UpTo
    <3> QED BY <3>1, <3>2, <1>0 DEF UpTo
  <2>5. \A s \in UpTo(S, n + 1) : Step(f, g, s) = Step(f, h, s)
    BY <2>3, <2>4 DEF Step
  <2>6. IsSumsUpTo(f, S, n + 1, h)
    BY <2>5 DEF IsSumsUpTo
  <2> HIDE DEF h
  <2> QED BY <2>6
<1>3. Nat \subseteq P
  <2> HIDE DEF P
  <2> QED BY <1>1, <1>2, NatSetInduction
<1> QED
  BY <1>3

\* The fold satisfies its own equation.
LEMMA SumsEquation ==
  ASSUME NEW S, IsFiniteSet(S), NEW f
  PROVE  IsSums(f, S, Sums(f, S))
<1>1. Cardinality(S) \in Nat
  BY FS_CardinalityType
<1>2. UpTo(S, Cardinality(S)) = SUBSET S
  BY FS_Subset DEF UpTo
<1>3. PICK g : IsSumsUpTo(f, S, Cardinality(S), g)
  BY <1>1, SumsUpTo
<1>4. IsSums(f, S, g)
  BY <1>2, <1>3 DEF IsSums, IsSumsUpTo
<1> QED
  BY <1>4 DEF Sums

LEMMA SumOverIsSums == ASSUME NEW S, NEW f PROVE SumOver(f, S) = Sums(f, S)[S]
BY DEF SumOver, Sums, IsSums, Step, Pick, FoldSet, MapThenFoldSet

\* Each partial sum, from the one without the member picked.
LEMMA SumsStep ==
  ASSUME NEW S, IsFiniteSet(S), NEW f
  PROVE  /\ Sums(f, S)[{}] = 0
         /\ \A s \in SUBSET S : s # {} =>
              /\ Pick(s) \in s
              /\ Sums(f, S)[s] = Sums(f, S)[s \ {Pick(s)}] + f[Pick(s)]
<1> DEFINE g == Sums(f, S)
<1>0. g = [s \in SUBSET S |-> Step(f, g, s)]
  BY SumsEquation DEF IsSums
<1>1. \A s \in SUBSET S : g[s] = Step(f, g, s)
  <2> HIDE DEF g
  <2> QED BY <1>0
<1>2. \A s \in SUBSET S : s # {} => Pick(s) \in s
  BY DEF Pick
<1> QED
  BY <1>1, <1>2 DEF Step

\* A sum of natural numbers is one.
LEMMA SumType ==
  ASSUME NEW S, IsFiniteSet(S), NEW f, \A x \in S : f[x] \in Nat
  PROVE  SumOver(f, S) \in Nat
<1> DEFINE P == {s \in SUBSET S : Sums(f, S)[s] \in Nat}
<1>1. ASSUME NEW T \in SUBSET S, \A U \in SUBSET T : U # T => U \in P
      PROVE  T \in P
  <2>1. CASE T = {}
    BY <2>1, SumsStep
  <2>2. CASE T # {}
    <3>1. Pick(T) \in T /\ Sums(f, S)[T] = Sums(f, S)[T \ {Pick(T)}] + f[Pick(T)]
      BY <2>2, SumsStep
    <3>2. T \ {Pick(T)} \in P
      BY <1>1, <3>1
    <3> QED BY <3>1, <3>2
  <2> QED BY <2>1, <2>2
<1>2. SUBSET S \subseteq P
  <2> HIDE DEF P
  <2> QED BY <1>1, SubsetInduction
<1> QED
  BY <1>2, SumOverIsSums

\* The sum of f, of which g is taken away.
LEMMA SumMinus ==
  ASSUME NEW S, IsFiniteSet(S), NEW f, NEW g, NEW h,
         \A x \in S : f[x] \in Int /\ g[x] \in Int /\ h[x] = f[x] - g[x]
  PROVE  /\ SumOver(f, S) \in Int /\ SumOver(g, S) \in Int
         /\ SumOver(h, S) = SumOver(f, S) - SumOver(g, S)
<1> DEFINE P == {s \in SUBSET S : /\ Sums(f, S)[s] \in Int /\ Sums(g, S)[s] \in Int
                                  /\ Sums(h, S)[s] = Sums(f, S)[s] - Sums(g, S)[s]}
<1>1. ASSUME NEW T \in SUBSET S, \A U \in SUBSET T : U # T => U \in P
      PROVE  T \in P
  <2>1. CASE T = {}
    BY <2>1, SumsStep
  <2>2. CASE T # {}
    <3>1. /\ Pick(T) \in T
          /\ Sums(f, S)[T] = Sums(f, S)[T \ {Pick(T)}] + f[Pick(T)]
          /\ Sums(g, S)[T] = Sums(g, S)[T \ {Pick(T)}] + g[Pick(T)]
          /\ Sums(h, S)[T] = Sums(h, S)[T \ {Pick(T)}] + h[Pick(T)]
      BY <2>2, SumsStep
    <3>2. T \ {Pick(T)} \in P
      BY <1>1, <3>1
    <3> QED BY <3>1, <3>2
  <2> QED BY <2>1, <2>2
<1>2. SUBSET S \subseteq P
  <2> HIDE DEF P
  <2> QED BY <1>1, SubsetInduction
<1> QED
  BY <1>2, SumOverIsSums

\* A sum of terms that are at most c.
LEMMA SumBound ==
  ASSUME NEW S, IsFiniteSet(S), NEW f, NEW c \in Nat, \A x \in S : f[x] \in Nat /\ f[x] <= c
  PROVE  SumOver(f, S) <= Cardinality(S) * c
<1> DEFINE P == {s \in SUBSET S : Sums(f, S)[s] \in Nat /\ Sums(f, S)[s] <= Cardinality(s) * c}
<1>0. \A t \in SUBSET S : IsFiniteSet(t) /\ Cardinality(t) \in Nat
  BY FS_Subset, FS_CardinalityType
<1>1. ASSUME NEW T \in SUBSET S, \A U \in SUBSET T : U # T => U \in P
      PROVE  T \in P
  <2>1. CASE T = {}
    <3>1. Cardinality(T) * c = 0
      BY <2>1, FS_EmptySet
    <3> QED BY <2>1, <3>1, SumsStep
  <2>2. CASE T # {}
    <3>1. Pick(T) \in T /\ Sums(f, S)[T] = Sums(f, S)[T \ {Pick(T)}] + f[Pick(T)]
      BY <2>2, SumsStep
    <3>2. T \ {Pick(T)} \in P
      BY <1>1, <3>1
    <3>3. Cardinality(T \ {Pick(T)}) = Cardinality(T) - 1
      BY <1>0, <3>1, FS_RemoveElement
    <3>4. \A n \in Nat : (n - 1) * c + c = n * c
      OBVIOUS
    <3>5. (Cardinality(T) - 1) * c + c = Cardinality(T) * c
      BY <3>4, <1>0
    <3>6. Cardinality(T) * c \in Nat /\ (Cardinality(T) - 1) * c \in Int
      BY <1>0
    <3> QED BY <3>1, <3>2, <3>3, <3>5, <3>6
  <2> QED BY <2>1, <2>2
<1>2. SUBSET S \subseteq P
  <2> HIDE DEF P
  <2> QED BY <1>1, SubsetInduction
<1> QED
  BY <1>2, SumOverIsSums
=============================================================================
