---------------------------- MODULE Limits_proofs ----------------------------
(***************************************************************************)
(* Proofs about the four limits, for any number of clients and any limits,  *)
(* windows and bounds: types, and how far requests that are in flight       *)
(* together overshoot each limit.  What happened in a window is a sum over  *)
(* ages, so that the proofs begin with the facts about sums.                *)
(***************************************************************************)
EXTENDS Limits, Integers, FiniteSets, Functions, FiniteSetsExt,
        FiniteSetTheorems, WellFoundedInduction, TLAPS

-----------------------------------------------------------------------------
(* Sums over finite sets                                                    *)

\* A set of naturals that is not empty has a least element.
LEMMA LeastNatural ==
  ASSUME NEW T \in SUBSET Nat, T # {}
  PROVE  \E n \in T : \A m \in T : n <= m
<1> DEFINE R == OpToRel(<, Nat)
<1>1. IsWellFoundedOn(R, Nat)
  BY NatLessThanWellFounded
<1>2. ASSUME NEW x \in Nat, NEW y \in Nat, ~ (<<y, x>> \in R)
      PROVE  x <= y
  BY <1>2 DEF OpToRel
<1> HIDE DEF R
<1>3. PICK x \in T : \A y \in T : ~ (<<y, x>> \in R)
  BY <1>1, WFMin
<1>4. \A y \in T : x <= y
  BY <1>2, <1>3
<1> QED
  BY <1>3, <1>4

\* Induction, with the property as a set of naturals.
LEMMA InductionOnNat ==
  ASSUME NEW T, 0 \in T, \A n \in Nat : n \in T => n + 1 \in T
  PROVE  \A n \in Nat : n \in T
<1> DEFINE Out == {n \in Nat : n \notin T}
<1>1. SUFFICES ASSUME Out # {} PROVE FALSE
  OBVIOUS
<1>2. PICK n \in Out : \A m \in Out : n <= m
  BY <1>1, LeastNatural
<1>3. n - 1 \in Nat /\ n - 1 \notin Out
  BY <1>2
<1> QED
  BY <1>2, <1>3

\* The element a sum takes first, and the equation of the sums over the subsets of S.
First(s) == CHOOSE x \in s : TRUE
SumsOf(f, P, h) ==
  h = [s \in P |-> IF s = {} THEN 0 ELSE f[First(s)] + h[s \ {First(s)}]]

LEMMA SmallerSubset ==
  ASSUME NEW S, IsFiniteSet(S), NEW s \in SUBSET S, s # {}
  PROVE  /\ First(s) \in s
         /\ IsFiniteSet(s) /\ IsFiniteSet(s \ {First(s)})
         /\ Cardinality(s) \in Nat
         /\ Cardinality(s \ {First(s)}) = Cardinality(s) - 1
<1>1. First(s) \in s
  BY DEF First
<1> QED
  BY <1>1, FS_Subset, FS_RemoveElement, FS_CardinalityType

\* The sums over the subsets of a finite set exist.
LEMMA SumsExist ==
  ASSUME NEW f, NEW S, IsFiniteSet(S)
  PROVE  \E h : SumsOf(f, SUBSET S, h)
<1> DEFINE P(n) == {s \in SUBSET S : Cardinality(s) <= n}
           T == {n \in Nat : \E h : SumsOf(f, P(n), h)}
<1>1. 0 \in T
  <2> DEFINE h == [s \in P(0) |-> 0]
  <2>1. \A s \in P(0) : s = {}
    BY FS_Subset, FS_EmptySet, FS_CardinalityType
  <2>2. SumsOf(f, P(0), h)
    BY <2>1 DEF SumsOf
  <2> QED
    BY <2>2
<1>2. ASSUME NEW n \in Nat, n \in T
      PROVE  n + 1 \in T
  <2>1. PICK h : SumsOf(f, P(n), h)
    BY <1>2
  <2> DEFINE g == [s \in P(n + 1) |-> IF s = {} THEN 0 ELSE f[First(s)] + h[s \ {First(s)}]]
  <2>2. \A s \in SUBSET S : Cardinality(s) \in Nat
    BY FS_Subset, FS_CardinalityType
  <2>3. ASSUME NEW s \in P(n)
        PROVE  s \in P(n + 1) /\ g[s] = h[s]
    <3>1. s \in P(n + 1)
      BY <2>2
    <3>2. h[s] = IF s = {} THEN 0 ELSE f[First(s)] + h[s \ {First(s)}]
      <4> HIDE DEF P
      <4> QED BY <2>1 DEF SumsOf
    <3> QED
      BY <3>1, <3>2
  <2>4. ASSUME NEW s \in P(n + 1), s # {}
        PROVE  s \ {First(s)} \in P(n)
    <3>1. Cardinality(s \ {First(s)}) = Cardinality(s) - 1
      BY <2>4, SmallerSubset
    <3> QED
      BY <2>2, <3>1
  <2>5. \A s \in P(n + 1) : s # {} => g[s \ {First(s)}] = h[s \ {First(s)}]
    BY <2>3, <2>4
  <2>6. SumsOf(f, P(n + 1), g)
    BY <2>5 DEF SumsOf
  <2> QED
    BY <2>6
<1>3. Cardinality(S) \in Nat
  BY FS_CardinalityType
<1>4. Cardinality(S) \in T
  <2> HIDE DEF T
  <2> QED BY <1>1, <1>2, <1>3, InductionOnNat
<1>5. P(Cardinality(S)) = SUBSET S
  BY FS_Subset
<1> QED
  BY <1>4, <1>5

\* There is one solution only.
LEMMA SumsAgree ==
  ASSUME NEW f, NEW S, NEW U, NEW h, NEW g,
         IsFiniteSet(S), U \subseteq S,
         SumsOf(f, SUBSET S, h), SumsOf(f, SUBSET U, g)
  PROVE  \A s \in SUBSET U : h[s] = g[s]
<1> DEFINE T == {n \in Nat : \A s \in SUBSET U : Cardinality(s) = n => h[s] = g[s]}
<1>0. IsFiniteSet(U) /\ \A s \in SUBSET U : IsFiniteSet(s) /\ Cardinality(s) \in Nat
  BY FS_Subset, FS_CardinalityType
<1>1. 0 \in T
  <2>1. \A s \in SUBSET U : Cardinality(s) = 0 => s = {}
    BY <1>0, FS_EmptySet
  <2> QED
    BY <2>1 DEF SumsOf
<1>2. ASSUME NEW n \in Nat, n \in T
      PROVE  n + 1 \in T
  <2> SUFFICES ASSUME NEW s \in SUBSET U, Cardinality(s) = n + 1
               PROVE  h[s] = g[s]
    OBVIOUS
  <2>1. s # {}
    BY <1>0, FS_EmptySet
  <2>2. s \ {First(s)} \in SUBSET U /\ Cardinality(s \ {First(s)}) = n
    BY <2>1, <1>0, SmallerSubset
  <2>3. h[s \ {First(s)}] = g[s \ {First(s)}]
    BY <2>2, <1>2
  <2> QED
    BY <2>1, <2>3 DEF SumsOf
<1>3. \A n \in Nat : n \in T
  <2> HIDE DEF T
  <2> QED BY <1>1, <1>2, InductionOnNat
<1> QED
  BY <1>0, <1>3

\* What SumFunctionOnSet returns: the empty sum, and a sum less its first element.
LEMMA SumUnfolds ==
  ASSUME NEW f, NEW S, IsFiniteSet(S)
  PROVE  \E h : SumsOf(f, SUBSET S, h) /\ SumFunctionOnSet(f, S) = h[S]
<1> DEFINE h == CHOOSE k : SumsOf(f, SUBSET S, k)
<1>1. SumFunctionOnSet(f, S) = h[S]
  BY DEF SumFunctionOnSet, FoldFunctionOnSet, MapThenFoldSet, SumsOf, First
<1>2. SumsOf(f, SUBSET S, h)
  BY SumsExist
<1> QED
  BY <1>1, <1>2

LEMMA SumOfNone ==
  ASSUME NEW f
  PROVE  SumFunctionOnSet(f, {}) = 0
<1>1. PICK h : SumsOf(f, SUBSET {}, h) /\ SumFunctionOnSet(f, {}) = h[{}]
  BY SumUnfolds, FS_EmptySet
<1> QED
  BY <1>1 DEF SumsOf

LEMMA SumOfSubset ==
  ASSUME NEW f, NEW S, NEW U, NEW h,
         IsFiniteSet(S), U \subseteq S, SumsOf(f, SUBSET S, h)
  PROVE  SumFunctionOnSet(f, U) = h[U]
<1>1. PICK g : SumsOf(f, SUBSET U, g) /\ SumFunctionOnSet(f, U) = g[U]
  BY SumUnfolds, FS_Subset
<1>3. SumsOf(f, SUBSET U, g)
  BY <1>1
<1>2. \A s \in SUBSET U : h[s] = g[s]
  BY ONLY <1>3, IsFiniteSet(S), U \subseteq S, SumsOf(f, SUBSET S, h), SumsAgree
<1> QED
  BY <1>1, <1>2

LEMMA SumLessFirst ==
  ASSUME NEW f, NEW S, IsFiniteSet(S), S # {}
  PROVE  SumFunctionOnSet(f, S) = f[First(S)] + SumFunctionOnSet(f, S \ {First(S)})
<1>1. PICK h : SumsOf(f, SUBSET S, h)
  BY SumUnfolds
<1>2. SumFunctionOnSet(f, S) = h[S]
  BY <1>1, SumOfSubset
<1>3. SumFunctionOnSet(f, S \ {First(S)}) = h[S \ {First(S)}]
  BY <1>1, SumOfSubset
<1>4. h[S] = f[First(S)] + h[S \ {First(S)}]
  BY <1>1 DEF SumsOf
<1> QED
  BY <1>2, <1>3, <1>4

LEMMA SumIsNat ==
  ASSUME NEW f, NEW S, IsFiniteSet(S), \A x \in S : f[x] \in Nat
  PROVE  SumFunctionOnSet(f, S) \in Nat
<1> DEFINE T == {n \in Nat : \A U \in SUBSET S : Cardinality(U) = n => SumFunctionOnSet(f, U) \in Nat}
<1>0. \A U \in SUBSET S : IsFiniteSet(U) /\ Cardinality(U) \in Nat
  BY FS_Subset, FS_CardinalityType
<1>1. 0 \in T
  BY <1>0, FS_EmptySet, SumOfNone
<1>2. ASSUME NEW n \in Nat, n \in T
      PROVE  n + 1 \in T
  <2> SUFFICES ASSUME NEW U \in SUBSET S, Cardinality(U) = n + 1
               PROVE  SumFunctionOnSet(f, U) \in Nat
    OBVIOUS
  <2>1. U # {}
    BY <1>0, FS_EmptySet
  <2>2. First(U) \in U /\ Cardinality(U \ {First(U)}) = n
    BY <2>1, <1>0, SmallerSubset
  <2>3. SumFunctionOnSet(f, U \ {First(U)}) \in Nat
    BY <2>2, <1>2
  <2>4. SumFunctionOnSet(f, U) = f[First(U)] + SumFunctionOnSet(f, U \ {First(U)})
    BY <2>1, <1>0, SumLessFirst
  <2> QED
    BY <2>2, <2>3, <2>4
<1>3. \A n \in Nat : n \in T
  <2> HIDE DEF T
  <2> QED BY <1>1, <1>2, InductionOnNat
<1> QED
  BY <1>0, <1>3

\* A term taken out of a sum.
LEMMA SumLessOne ==
  ASSUME NEW f, NEW S, IsFiniteSet(S), \A y \in S : f[y] \in Nat, NEW x \in S
  PROVE  SumFunctionOnSet(f, S) = f[x] + SumFunctionOnSet(f, S \ {x})
<1> DEFINE T == {n \in Nat : \A U \in SUBSET S : Cardinality(U) = n => \A z \in U :
                    SumFunctionOnSet(f, U) = f[z] + SumFunctionOnSet(f, U \ {z})}
<1>0. \A U \in SUBSET S : IsFiniteSet(U) /\ Cardinality(U) \in Nat
  BY FS_Subset, FS_CardinalityType
<1>1. 0 \in T
  BY <1>0, FS_EmptySet
<1>2. ASSUME NEW n \in Nat, n \in T
      PROVE  n + 1 \in T
  <2> SUFFICES ASSUME NEW U \in SUBSET S, Cardinality(U) = n + 1, NEW z \in U
               PROVE  SumFunctionOnSet(f, U) = f[z] + SumFunctionOnSet(f, U \ {z})
    OBVIOUS
  <2> DEFINE p == First(U)
  <2>0. p \in U /\ IsFiniteSet(U)
    BY <1>0 DEF First
  <2>1. p \in U /\ Cardinality(U \ {p}) = n /\ Cardinality(U \ {z}) = n
    <3>1. \A y \in U : Cardinality(U \ {y}) = Cardinality(U) - 1
      BY <2>0, FS_RemoveElement
    <3> QED
      BY <2>0, <3>1
  <2>2. SumFunctionOnSet(f, U) = f[p] + SumFunctionOnSet(f, U \ {p})
    BY <1>0, SumLessFirst
  <2>3. CASE z = p
    BY <2>2, <2>3
  <2>4. CASE z # p
    <3>1. SumFunctionOnSet(f, U \ {p}) = f[z] + SumFunctionOnSet(f, (U \ {p}) \ {z})
      BY <2>1, <2>4, <1>2
    <3>2. SumFunctionOnSet(f, U \ {z}) = f[p] + SumFunctionOnSet(f, (U \ {z}) \ {p})
      BY <2>1, <2>4, <1>2
    <3>3. (U \ {z}) \ {p} = (U \ {p}) \ {z}
      OBVIOUS
    <3>4. SumFunctionOnSet(f, (U \ {p}) \ {z}) \in Nat
      BY <1>0, SumIsNat
    <3>5. f[p] \in Nat /\ f[z] \in Nat
      BY <2>1
    <3> HIDE DEF p
    <3> QED
      BY <2>2, <3>1, <3>2, <3>3, <3>4, <3>5
  <2> QED
    BY <2>3, <2>4
<1>3. \A n \in Nat : n \in T
  <2> HIDE DEF T
  <2> QED BY <1>1, <1>2, InductionOnNat
<1> QED
  BY <1>0, <1>3

\* A sum is no larger than one whose terms are.
LEMMA SumMonotone ==
  ASSUME NEW f, NEW g, NEW S, IsFiniteSet(S),
         \A x \in S : f[x] \in Nat /\ g[x] \in Nat /\ f[x] <= g[x]
  PROVE  SumFunctionOnSet(f, S) <= SumFunctionOnSet(g, S)
<1> DEFINE T == {n \in Nat : \A U \in SUBSET S : Cardinality(U) = n =>
                    SumFunctionOnSet(f, U) <= SumFunctionOnSet(g, U)}
<1>0. \A U \in SUBSET S : IsFiniteSet(U) /\ Cardinality(U) \in Nat
  BY FS_Subset, FS_CardinalityType
<1>1. 0 \in T
  BY <1>0, FS_EmptySet, SumOfNone
<1>2. ASSUME NEW n \in Nat, n \in T
      PROVE  n + 1 \in T
  <2> SUFFICES ASSUME NEW U \in SUBSET S, Cardinality(U) = n + 1
               PROVE  SumFunctionOnSet(f, U) <= SumFunctionOnSet(g, U)
    OBVIOUS
  <2>1. U # {}
    BY <1>0, FS_EmptySet
  <2>2. First(U) \in U /\ Cardinality(U \ {First(U)}) = n
    BY <2>1, <1>0, SmallerSubset
  <2>3. SumFunctionOnSet(f, U \ {First(U)}) <= SumFunctionOnSet(g, U \ {First(U)})
    BY <2>2, <1>2
  <2>4. /\ SumFunctionOnSet(f, U) = f[First(U)] + SumFunctionOnSet(f, U \ {First(U)})
        /\ SumFunctionOnSet(g, U) = g[First(U)] + SumFunctionOnSet(g, U \ {First(U)})
    BY <2>1, <1>0, SumLessFirst
  <2>5. SumFunctionOnSet(f, U \ {First(U)}) \in Nat /\ SumFunctionOnSet(g, U \ {First(U)}) \in Nat
    BY <1>0, SumIsNat
  <2> QED
    BY <2>2, <2>3, <2>4, <2>5
<1>3. \A n \in Nat : n \in T
  <2> HIDE DEF T
  <2> QED BY <1>1, <1>2, InductionOnNat
<1> QED
  BY <1>0, <1>3

\* The sum of two is the sum of their sums.
LEMMA SumOfTwo ==
  ASSUME NEW f, NEW g, NEW h, NEW S, IsFiniteSet(S),
         \A x \in S : g[x] \in Nat /\ h[x] \in Nat /\ f[x] = g[x] + h[x]
  PROVE  SumFunctionOnSet(f, S) = SumFunctionOnSet(g, S) + SumFunctionOnSet(h, S)
<1> DEFINE T == {n \in Nat : \A U \in SUBSET S : Cardinality(U) = n =>
                    SumFunctionOnSet(f, U) = SumFunctionOnSet(g, U) + SumFunctionOnSet(h, U)}
<1>0. \A U \in SUBSET S : IsFiniteSet(U) /\ Cardinality(U) \in Nat
  BY FS_Subset, FS_CardinalityType
<1>1. 0 \in T
  <2>1. \A U \in SUBSET S : Cardinality(U) = 0 => U = {}
    BY <1>0, FS_EmptySet
  <2>2. /\ SumFunctionOnSet(f, {}) = 0 /\ SumFunctionOnSet(g, {}) = 0
        /\ SumFunctionOnSet(h, {}) = 0
    BY SumOfNone
  <2>3. ASSUME NEW U \in SUBSET S, Cardinality(U) = 0
        PROVE  SumFunctionOnSet(f, U) = SumFunctionOnSet(g, U) + SumFunctionOnSet(h, U)
    <3>1. U = {}
      BY <2>1, <2>3
    <3> QED
      BY <2>2, <3>1
  <2> QED
    BY <2>3
<1>2. ASSUME NEW n \in Nat, n \in T
      PROVE  n + 1 \in T
  <2> SUFFICES ASSUME NEW U \in SUBSET S, Cardinality(U) = n + 1
               PROVE  SumFunctionOnSet(f, U) = SumFunctionOnSet(g, U) + SumFunctionOnSet(h, U)
    OBVIOUS
  <2> DEFINE V == U \ {First(U)}
  <2>1. U # {}
    BY <1>0, FS_EmptySet
  <2>2. First(U) \in U /\ Cardinality(V) = n
    <3>1. First(U) \in U /\ Cardinality(V) = Cardinality(U) - 1
      BY <2>1, SmallerSubset
    <3> QED
      BY <3>1
  <2>3. SumFunctionOnSet(f, V) = SumFunctionOnSet(g, V) + SumFunctionOnSet(h, V)
    BY <2>2, <1>2
  <2>4. /\ SumFunctionOnSet(f, U) = f[First(U)] + SumFunctionOnSet(f, V)
        /\ SumFunctionOnSet(g, U) = g[First(U)] + SumFunctionOnSet(g, V)
        /\ SumFunctionOnSet(h, U) = h[First(U)] + SumFunctionOnSet(h, V)
    BY <2>1, <1>0, SumLessFirst
  <2>5. SumFunctionOnSet(g, V) \in Nat /\ SumFunctionOnSet(h, V) \in Nat
    BY <1>0, SumIsNat
  <2> HIDE DEF V
  <2> QED
    BY <2>2, <2>3, <2>4, <2>5
<1>3. \A n \in Nat : n \in T
  <2> HIDE DEF T
  <2> QED BY <1>1, <1>2, InductionOnNat
<1> QED
  BY <1>0, <1>3

\* Equal terms, equal sums.
LEMMA SumSame ==
  ASSUME NEW f, NEW g, NEW S, IsFiniteSet(S), \A x \in S : f[x] \in Nat /\ f[x] = g[x]
  PROVE  SumFunctionOnSet(f, S) = SumFunctionOnSet(g, S)
<1>1. SumFunctionOnSet(f, S) <= SumFunctionOnSet(g, S)
  BY SumMonotone
<1>2. SumFunctionOnSet(g, S) <= SumFunctionOnSet(f, S)
  BY SumMonotone
<1>3. SumFunctionOnSet(f, S) \in Nat /\ SumFunctionOnSet(g, S) \in Nat
  BY SumIsNat
<1> QED
  BY <1>1, <1>2, <1>3

\* One term is one larger.
LEMMA SumRaised ==
  ASSUME NEW f, NEW g, NEW S, IsFiniteSet(S), \A y \in S : f[y] \in Nat, NEW x \in S,
         g[x] = f[x] + 1, \A y \in S \ {x} : g[y] = f[y]
  PROVE  SumFunctionOnSet(g, S) = SumFunctionOnSet(f, S) + 1
<1>1. SumFunctionOnSet(f, S) = f[x] + SumFunctionOnSet(f, S \ {x})
  BY SumLessOne
<1>2. SumFunctionOnSet(g, S) = g[x] + SumFunctionOnSet(g, S \ {x})
  BY SumLessOne
<1>3. IsFiniteSet(S \ {x})
  BY FS_RemoveElement
<1>4. SumFunctionOnSet(f, S \ {x}) = SumFunctionOnSet(g, S \ {x})
  BY <1>3, SumSame
<1>5. SumFunctionOnSet(f, S \ {x}) \in Nat
  BY <1>3, SumIsNat
<1> QED
  BY <1>1, <1>2, <1>4, <1>5

LEMMA SumOfZeros ==
  ASSUME NEW f, NEW S, IsFiniteSet(S), \A x \in S : f[x] = 0
  PROVE  SumFunctionOnSet(f, S) = 0
<1> DEFINE T == {n \in Nat : \A U \in SUBSET S : Cardinality(U) = n => SumFunctionOnSet(f, U) = 0}
<1>0. \A U \in SUBSET S : IsFiniteSet(U) /\ Cardinality(U) \in Nat
  BY FS_Subset, FS_CardinalityType
<1>1. 0 \in T
  BY <1>0, FS_EmptySet, SumOfNone
<1>2. ASSUME NEW n \in Nat, n \in T
      PROVE  n + 1 \in T
  <2> SUFFICES ASSUME NEW U \in SUBSET S, Cardinality(U) = n + 1
               PROVE  SumFunctionOnSet(f, U) = 0
    OBVIOUS
  <2>1. U # {}
    BY <1>0, FS_EmptySet
  <2>2. First(U) \in U /\ Cardinality(U \ {First(U)}) = n
    BY <2>1, <1>0, SmallerSubset
  <2>3. SumFunctionOnSet(f, U \ {First(U)}) = 0
    BY <2>2, <1>2
  <2>4. SumFunctionOnSet(f, U) = f[First(U)] + SumFunctionOnSet(f, U \ {First(U)})
    BY <2>1, <1>0, SumLessFirst
  <2> QED
    BY <2>2, <2>3, <2>4
<1>3. \A n \in Nat : n \in T
  <2> HIDE DEF T
  <2> QED BY <1>1, <1>2, InductionOnNat
<1> QED
  BY <1>0, <1>3

\* The last term of a sum over 0..n.
LEMMA SumLessLast ==
  ASSUME NEW f, NEW n \in Nat, \A a \in 0..n : f[a] \in Nat
  PROVE  SumFunctionOnSet(f, 0..n) = f[n] + SumFunctionOnSet(f, 0..n - 1)
<1>1. IsFiniteSet(0..n)
  BY FS_Interval
<1>2. (0..n) \ {n} = 0..n - 1
  OBVIOUS
<1>3. SumFunctionOnSet(f, 0..n) = f[n] + SumFunctionOnSet(f, (0..n) \ {n})
  BY <1>1, SumLessOne
<1> QED
  BY <1>2, <1>3

\* A shorter sum of the same terms is no larger.
LEMMA SumOfFewer ==
  ASSUME NEW f, NEW n \in Nat, \A a \in 0..n : f[a] \in Nat, NEW m \in Int, m <= n
  PROVE  SumFunctionOnSet(f, 0..m) <= SumFunctionOnSet(f, 0..n)
<1> DEFINE T == {k \in Nat : m <= k /\ k <= n =>
                    SumFunctionOnSet(f, 0..m) <= SumFunctionOnSet(f, 0..k)}
<1>0. \A k \in Int : k <= n => IsFiniteSet(0..k) /\ SumFunctionOnSet(f, 0..k) \in Nat
  <2> SUFFICES ASSUME NEW k \in Int, k <= n
               PROVE  IsFiniteSet(0..k) /\ SumFunctionOnSet(f, 0..k) \in Nat
    OBVIOUS
  <2>1. IsFiniteSet(0..k) /\ \A a \in 0..k : f[a] \in Nat
    BY FS_Interval
  <2> QED
    BY <2>1, SumIsNat
<1>1. 0 \in T
  <2> SUFFICES ASSUME m <= 0
               PROVE  SumFunctionOnSet(f, 0..m) <= SumFunctionOnSet(f, 0..0)
    OBVIOUS
  <2>0. SumFunctionOnSet(f, 0..0) \in Nat
    <3>1. 0..0 = {0}
      OBVIOUS
    <3>2. IsFiniteSet({0})
      BY FS_Singleton
    <3>3. f[0] \in Nat
      OBVIOUS
    <3> QED
      BY <3>1, <3>2, <3>3, SumIsNat
  <2>1. CASE m = 0
    BY <2>0, <2>1
  <2>2. CASE m < 0
    <3>1. 0..m = {}
      BY <2>2
    <3>2. SumFunctionOnSet(f, 0..m) = 0
      BY <3>1, SumOfNone
    <3> QED
      BY <2>0, <3>2
  <2> QED
    BY <2>1, <2>2
<1>2. ASSUME NEW k \in Nat, k \in T
      PROVE  k + 1 \in T
  <2> SUFFICES ASSUME m <= k + 1, k + 1 <= n
               PROVE  SumFunctionOnSet(f, 0..m) <= SumFunctionOnSet(f, 0..k + 1)
    OBVIOUS
  <2>1. CASE m = k + 1
    BY <2>1, <1>0
  <2>2. CASE m <= k
    <3>1. SumFunctionOnSet(f, 0..m) <= SumFunctionOnSet(f, 0..k)
      BY <2>2, <1>2
    <3>2. SumFunctionOnSet(f, 0..k + 1) = f[k + 1] + SumFunctionOnSet(f, 0..(k + 1) - 1)
      BY SumLessLast
    <3>3. (k + 1) - 1 = k /\ f[k + 1] \in Nat
      OBVIOUS
    <3>4. SumFunctionOnSet(f, 0..m) \in Nat /\ SumFunctionOnSet(f, 0..k) \in Nat
      BY <2>2, <1>0
    <3> QED
      BY <3>1, <3>2, <3>3, <3>4
  <2> QED
    BY <2>1, <2>2
<1>3. \A k \in Nat : k \in T
  <2> HIDE DEF T
  <2> QED BY <1>1, <1>2, InductionOnNat
<1> QED
  BY <1>3

\* A tick: every entry is one older, and the sum is that of what was young enough.
LEMMA SumAged ==
  ASSUME NEW f, NEW g, NEW n \in Nat, \A a \in 0..n : f[a] \in Nat,
         \A a \in 0..n : g[a] = IF a = 0 THEN 0 ELSE f[a - 1]
  PROVE  SumFunctionOnSet(g, 0..n) = SumFunctionOnSet(f, 0..n - 1)
<1> DEFINE T == {k \in Nat : k <= n => SumFunctionOnSet(g, 0..k) = SumFunctionOnSet(f, 0..k - 1)}
<1>0. \A a \in 0..n : g[a] \in Nat
  OBVIOUS
<1>1. 0 \in T
  <2>1. SumFunctionOnSet(g, 0..0) = 0
    <3>1. 0..0 = {0}
      OBVIOUS
    <3>2. IsFiniteSet({0})
      BY FS_Singleton
    <3>3. g[0] = 0
      OBVIOUS
    <3> QED
      BY <3>1, <3>2, <3>3, SumOfZeros
  <2>2. 0..0 - 1 = {}
    OBVIOUS
  <2> QED
    BY <2>1, <2>2, SumOfNone
<1>2. ASSUME NEW k \in Nat, k \in T
      PROVE  k + 1 \in T
  <2> SUFFICES ASSUME k + 1 <= n
               PROVE  SumFunctionOnSet(g, 0..k + 1) = SumFunctionOnSet(f, 0..(k + 1) - 1)
    OBVIOUS
  <2>1. (k + 1) - 1 = k
    OBVIOUS
  <2>2. SumFunctionOnSet(g, 0..k + 1) = g[k + 1] + SumFunctionOnSet(g, 0..(k + 1) - 1)
    BY <1>0, SumLessLast
  <2>3. SumFunctionOnSet(f, 0..k) = f[k] + SumFunctionOnSet(f, 0..k - 1)
    BY SumLessLast
  <2>4. g[k + 1] = f[k]
    BY <2>1
  <2>5. SumFunctionOnSet(g, 0..k) = SumFunctionOnSet(f, 0..k - 1)
    BY <1>2
  <2> QED
    BY <2>1, <2>2, <2>3, <2>4, <2>5
<1>3. \A k \in Nat : k \in T
  <2> HIDE DEF T
  <2> QED BY <1>1, <1>2, InductionOnNat
<1> QED
  BY <1>3

-----------------------------------------------------------------------------
(* The lockout of a staff account                                           *)

\* A part of the requests that one request is not in.
LEMMA OneIsNotIn ==
  ASSUME NEW R, IsFiniteSet(R), NEW A \in SUBSET R
  PROVE  /\ IsFiniteSet(A) /\ Cardinality(A) \in Nat /\ Cardinality(R) \in Nat
         /\ Cardinality(A) <= Cardinality(R)
         /\ \A x \in R : x \notin A => Cardinality(A) + 1 <= Cardinality(R)
         /\ \A x \in R : x \notin A => Cardinality(A \cup {x}) = Cardinality(A) + 1
         /\ \A x \in A : Cardinality(A \ {x}) = Cardinality(A) - 1
<1>1. IsFiniteSet(A) /\ Cardinality(A) <= Cardinality(R)
  BY FS_Subset
<1>2. Cardinality(A) \in Nat /\ Cardinality(R) \in Nat
  BY <1>1, FS_CardinalityType
<1>3. ASSUME NEW x \in R, x \notin A
      PROVE  Cardinality(A) + 1 <= Cardinality(R) /\ Cardinality(A \cup {x}) = Cardinality(A) + 1
  <2>1. Cardinality(A \cup {x}) = Cardinality(A) + 1
    BY <1>1, <1>3, FS_AddElement
  <2>2. Cardinality(A \cup {x}) <= Cardinality(R)
    BY FS_Subset
  <2> QED
    BY <2>1, <2>2
<1>4. ASSUME NEW x \in A
      PROVE  Cardinality(A \ {x}) = Cardinality(A) - 1
  BY <1>1, FS_RemoveElement
<1> QED
  BY <1>1, <1>2, <1>3, <1>4

LEMMA MinOfTwo ==
  ASSUME NEW a \in Nat, NEW b \in Nat
  PROVE  Min({a, b}) = IF a <= b THEN a ELSE b
<1> DEFINE m == IF a <= b THEN a ELSE b
<1>1. m \in {a, b} /\ \A y \in {a, b} : m <= y
  OBVIOUS
<1>2. \A x \in {a, b} : (\A y \in {a, b} : x <= y) => x = m
  OBVIOUS
<1> QED
  BY <1>1, <1>2 DEF Min

\* The operators of the libraries are the same wherever they are instantiated.
LEMMA StaffLibraries ==
  /\ \A S : Staff!IsFiniteSet(S) <=> IsFiniteSet(S)
  /\ \A S : Staff!Cardinality(S) = Cardinality(S)
  /\ \A f, S : Staff!SumFunctionOnSet(f, S) = SumFunctionOnSet(f, S)
  /\ \A S : Staff!Min(S) = Min(S)
<1>1. \A S : Staff!IsFiniteSet(S) <=> IsFiniteSet(S)
  BY DEF Staff!IsFiniteSet, IsFiniteSet
<1>2. \A S : Staff!Cardinality(S) = Cardinality(S)
  BY DEF Staff!Cardinality, Cardinality
<1>3. \A f, S : Staff!SumFunctionOnSet(f, S) = SumFunctionOnSet(f, S)
  BY DEF Staff!SumFunctionOnSet, Staff!FoldFunctionOnSet, Staff!MapThenFoldSet,
         SumFunctionOnSet, FoldFunctionOnSet, MapThenFoldSet
<1>4. \A S : Staff!Min(S) = Min(S)
  BY DEF Staff!Min, Min
<1> QED
  BY <1>1, <1>2, <1>3, <1>4

LEMMA StaffConstants ==
  /\ IsFiniteSet(Clients) /\ Cardinality(Clients) \in Nat
  /\ Threshold \in Nat \ {0} /\ StaffWindow \in Nat \ {0}
  /\ MaxFailuresPerTick \in Nat
  /\ IsFiniteSet(0..StaffWindow)
<1>1. /\ IsFiniteSet(Clients)
      /\ Threshold \in Nat \ {0} /\ StaffWindow \in Nat \ {0}
      /\ MaxFailuresPerTick \in Nat
  BY ConstantsAreSensible, StaffLibraries DEF Staff!Sensible
<1> QED
  BY <1>1, FS_CardinalityType, FS_Interval

LEMMA StaffTypeStep ==
  ASSUME Staff!TypeOK, Staff!Next
  PROVE  Staff!TypeOK'
<1> USE StaffConstants DEF Staff!TypeOK, Staff!Request, Staff!Ages, Staff!Eviction
<1>1. CASE Staff!Tick
  <2>1. staffFails' \in [Staff!Ages -> 0..MaxFailuresPerTick]
    BY <1>1 DEF Staff!Tick, Staff!None
  <2>4. staffKeep' \in 0..2 * StaffWindow
    BY <1>1 DEF Staff!Tick
  <2>2. ASSUME NEW r \in Clients
        PROVE  Staff!Min({staffReq[r].age + 1, StaffWindow + 1}) \in 0..StaffWindow + 1
    <3>1. staffReq[r].age + 1 \in Nat /\ StaffWindow + 1 \in Nat
      OBVIOUS
    <3> QED
      BY <3>1, MinOfTwo, StaffLibraries
  <2>3. staffReq' \in [Clients -> Staff!Request]
    BY <1>1, <2>2 DEF Staff!Tick
  <2> QED
    BY <2>1, <2>3, <2>4
<1>2. ASSUME NEW r \in Clients, Staff!Step(r)
      PROVE  Staff!TypeOK'
  <2>1. CASE Staff!Reject(r)
    BY <2>1 DEF Staff!Reject, Staff!vars
  <2>2. CASE \/ Staff!Admit(r) \/ Staff!Fail(r) \/ Staff!CountFailure(r)
             \/ Staff!Expire(r) \/ Staff!Succeed(r) \/ Staff!Crash(r)
    <3>1. PICK pc \in {"idle", "verify", "record", "add", "clear"} :
            Staff!Goto(r, pc) /\ UNCHANGED staffFails
      BY <2>2 DEF Staff!Admit, Staff!Fail, Staff!CountFailure, Staff!Expire, Staff!Succeed,
                  Staff!Crash
    <3>2. [pc |-> pc, age |-> 0] \in Staff!Request
      OBVIOUS
    <3>3. staffKeep' \in 0..2 * StaffWindow
      BY <2>2 DEF Staff!Admit, Staff!Fail, Staff!CountFailure, Staff!Expire, Staff!Succeed,
                  Staff!Crash, Staff!Trim
    <3> QED
      BY <3>1, <3>2, <3>3 DEF Staff!Goto
  <2>3. CASE Staff!AddFailure(r)
    <3>1. staffReq' \in [Clients -> Staff!Request] /\ staffKeep' = staffKeep
      BY <2>3 DEF Staff!AddFailure, Staff!Goto
    <3>2. staffFails' \in [Staff!Ages -> 0..MaxFailuresPerTick]
      <4> DEFINE a == staffReq[r].age
      <4>1. CASE a \in Staff!Ages
        <5>1. staffFails[a] + 1 \in 0..MaxFailuresPerTick
          BY <2>3, <4>1 DEF Staff!AddFailure
        <5>2. staffFails' = [staffFails EXCEPT ![a] = staffFails[a] + 1]
          BY <2>3, <4>1 DEF Staff!AddFailure
        <5> HIDE DEF a
        <5> QED BY <4>1, <5>1, <5>2
      <4>2. CASE a \notin Staff!Ages
        BY <2>3, <4>2 DEF Staff!AddFailure
      <4> QED
        BY <4>1, <4>2
    <3> QED
      BY <3>1, <3>2
  <2>4. CASE Staff!Clear(r)
    BY <2>4 DEF Staff!Clear, Staff!None, Staff!Goto
  <2> QED
    BY <1>2, <2>1, <2>2, <2>3, <2>4 DEF Staff!Step
<1> QED
  BY <1>1, <1>2 DEF Staff!Next

\* The failures of the window and the requests about to write one.
Adding == {r \in Clients : staffReq[r].pc = "add"}

StaffCounts ==
  /\ Staff!Count = SumFunctionOnSet(staffFails, 0..StaffWindow) /\ Staff!Count \in Nat
  /\ \A a \in 0..StaffWindow : staffFails[a] \in Nat
  /\ IsFiniteSet(Adding) /\ Cardinality(Adding) \in Nat
  /\ StaffOvershootBounded <=>
       Staff!Count + Cardinality(Adding) < Threshold + Cardinality(Clients)

LEMMA StaffView == Staff!TypeOK => StaffCounts
<1> SUFFICES ASSUME Staff!TypeOK PROVE StaffCounts
  OBVIOUS
<1>1. Staff!Count = SumFunctionOnSet(staffFails, 0..StaffWindow)
  BY StaffLibraries DEF Staff!Count, Staff!Ages
<1>2. \A a \in 0..StaffWindow : staffFails[a] \in Nat
  BY StaffConstants DEF Staff!TypeOK, Staff!Ages
<1>3. Staff!Count \in Nat
  BY <1>1, <1>2, StaffConstants, SumIsNat
<1>4. IsFiniteSet(Adding) /\ Cardinality(Adding) \in Nat
  BY StaffConstants, OneIsNotIn DEF Adding
<1>5. StaffOvershootBounded <=>
        Staff!Count + Cardinality(Adding) < Threshold + Cardinality(Clients)
  BY StaffLibraries DEF StaffOvershootBounded, Staff!OvershootBounded, Adding
<1> QED
  BY <1>1, <1>2, <1>3, <1>4, <1>5 DEF StaffCounts

LEMMA StaffViewNext == Staff!TypeOK' => StaffCounts'
BY StaffView, PTL

LEMMA StaffOvershootStep ==
  ASSUME Staff!TypeOK, StaffOvershootBounded, Staff!Next
  PROVE  StaffOvershootBounded'
<1>0. Staff!TypeOK'
  BY StaffTypeStep
<1>u. StaffCounts
  BY StaffView
<1>v. StaffCounts'
  BY <1>0, StaffViewNext
<1> USE DEF StaffCounts
<1>1. CASE Staff!Tick
  <2>1. Staff!Count' <= Staff!Count
    <3>1. CASE staffKeep = 1
      <4>1. \A a \in 0..StaffWindow : staffFails'[a] = 0
        BY <1>1, <3>1 DEF Staff!Tick, Staff!None, Staff!Ages
      <4>2. Staff!Count' = 0
        BY <4>1, <1>v, StaffConstants, SumOfZeros
      <4> QED
        BY <4>2, <1>u
    <3>2. CASE staffKeep # 1
      <4>1. \A a \in 0..StaffWindow : staffFails'[a] = IF a = 0 THEN 0 ELSE staffFails[a - 1]
        BY <1>1, <3>2 DEF Staff!Tick, Staff!Ages
      <4>2. Staff!Count' = SumFunctionOnSet(staffFails, 0..StaffWindow - 1)
        BY <1>v, <1>u, <4>1, StaffConstants, SumAged
      <4>3. SumFunctionOnSet(staffFails, 0..StaffWindow - 1) <= SumFunctionOnSet(staffFails, 0..StaffWindow)
        BY <1>u, StaffConstants, SumOfFewer
      <4> QED
        BY <4>2, <4>3, <1>u
    <3> QED
      BY <3>1, <3>2
  <2>2. Adding' = Adding
    BY <1>1 DEF Staff!Tick, Adding, Staff!TypeOK, Staff!Request
  <2> QED
    BY <1>v, <2>1, <2>2, <1>u, StaffConstants
<1>2. ASSUME NEW r \in Clients, Staff!Step(r)
      PROVE  StaffOvershootBounded'
  <2> USE DEF Staff!TypeOK
  <2>c. Adding \subseteq Clients
    BY DEF Adding
  <2>1. CASE \/ Staff!Reject(r) \/ Staff!Admit(r) \/ Staff!Fail(r)
             \/ Staff!Expire(r) \/ Staff!Succeed(r)
    <3>1. staffFails' = staffFails /\ Adding' = Adding
      BY <2>1 DEF Staff!Reject, Staff!Admit, Staff!Fail, Staff!Expire, Staff!Succeed, Staff!vars,
                  Staff!Goto, Adding
    <3>2. Staff!Count' = Staff!Count
      BY <3>1, <1>v, <1>u
    <3> QED
      BY <3>1, <3>2, <1>v, <1>u
  <2>2. CASE Staff!CountFailure(r)
    <3>1. staffFails' = staffFails /\ r \notin Adding
      BY <2>2 DEF Staff!CountFailure, Adding
    <3>2. Staff!Count' = Staff!Count
      BY <3>1, <1>v, <1>u
    <3>3. CASE Staff!LockedOut
      <4>1. Adding' = Adding
        BY <2>2, <3>3 DEF Staff!CountFailure, Staff!Goto, Adding
      <4> QED
        BY <3>2, <4>1, <1>v, <1>u
    <3>4. CASE ~Staff!LockedOut
      <4>1. Adding' = Adding \cup {r}
        BY <2>2, <3>4 DEF Staff!CountFailure, Staff!Goto, Adding
      <4>2. Cardinality(Adding') = Cardinality(Adding) + 1 /\ Cardinality(Adding) + 1 <= Cardinality(Clients)
        BY <2>c, <3>1, <4>1, StaffConstants, OneIsNotIn
      <4>3. Staff!Count < Threshold
        BY <3>4, <1>u, StaffConstants DEF Staff!LockedOut
      <4> QED
        BY <3>2, <4>2, <4>3, <1>v, <1>u, StaffConstants
    <3> QED
      BY <3>3, <3>4
  <2>3. CASE Staff!AddFailure(r)
    <3>1. r \in Adding /\ Adding' = Adding \ {r}
      BY <2>3 DEF Staff!AddFailure, Staff!Goto, Adding
    <3>2. Cardinality(Adding') = Cardinality(Adding) - 1
      BY <2>c, <3>1, StaffConstants, OneIsNotIn
    <3>3. Staff!Count' = Staff!Count \/ Staff!Count' = Staff!Count + 1
      <4> DEFINE a == staffReq[r].age
      <4>1. CASE a \in 0..StaffWindow
        <5>1. staffFails' = [staffFails EXCEPT ![a] = staffFails[a] + 1]
          BY <2>3, <4>1 DEF Staff!AddFailure, Staff!Ages
        <5>2. staffFails'[a] = staffFails[a] + 1 /\ \A b \in (0..StaffWindow) \ {a} : staffFails'[b] = staffFails[b]
          BY <4>1, <5>1 DEF Staff!Ages
        <5> HIDE DEF a
        <5>3. SumFunctionOnSet(staffFails', 0..StaffWindow) = SumFunctionOnSet(staffFails, 0..StaffWindow) + 1
          BY <1>u, <4>1, <5>2, StaffConstants, SumRaised
        <5> QED BY <1>u, <1>v, <5>3
      <4>2. CASE a \notin 0..StaffWindow
        BY <2>3, <4>2, <1>v, <1>u DEF Staff!AddFailure, Staff!Ages
      <4> QED
        BY <4>1, <4>2
    <3> QED
      BY <3>2, <3>3, <1>v, <1>u, StaffConstants
  <2>4. CASE Staff!Clear(r)
    <3>1. r \notin Adding /\ Adding' = Adding
      BY <2>4 DEF Staff!Clear, Staff!Goto, Adding
    <3>2. Cardinality(Adding') + 1 <= Cardinality(Clients)
      BY <2>c, <3>1, StaffConstants, OneIsNotIn
    <3>3. \A a \in 0..StaffWindow : staffFails'[a] = 0
      BY <2>4 DEF Staff!Clear, Staff!None, Staff!Ages
    <3>4. Staff!Count' = 0
      BY <3>3, <1>v, StaffConstants, SumOfZeros
    <3> QED
      BY <3>2, <3>4, <1>v, StaffConstants
  <2>5. CASE Staff!Crash(r)
    <3>1. staffFails' = staffFails /\ Adding' = Adding \ {r}
      BY <2>5 DEF Staff!Crash, Staff!Goto, Adding
    <3>2. Staff!Count' = Staff!Count
      BY <3>1, <1>v, <1>u
    <3>3. Cardinality(Adding') <= Cardinality(Adding)
      BY <3>1, <1>u, FS_Subset
    <3> QED
      BY <3>2, <3>3, <1>v, <1>u, StaffConstants
  <2> QED
    BY <1>2, <2>1, <2>2, <2>3, <2>4, <2>5 DEF Staff!Step
<1> QED
  BY <1>1, <1>2 DEF Staff!Next

-----------------------------------------------------------------------------
(* The lockout of a customer                                                *)

LEMMA CustomerLibraries ==
  /\ \A S : Customer!IsFiniteSet(S) <=> IsFiniteSet(S)
  /\ \A S : Customer!Cardinality(S) = Cardinality(S)
  /\ \A f, S : Customer!SumFunctionOnSet(f, S) = SumFunctionOnSet(f, S)
<1>1. \A S : Customer!IsFiniteSet(S) <=> IsFiniteSet(S)
  BY DEF Customer!IsFiniteSet, IsFiniteSet
<1>2. \A S : Customer!Cardinality(S) = Cardinality(S)
  BY DEF Customer!Cardinality, Cardinality
<1>3. \A f, S : Customer!SumFunctionOnSet(f, S) = SumFunctionOnSet(f, S)
  BY DEF Customer!SumFunctionOnSet, Customer!FoldFunctionOnSet, Customer!MapThenFoldSet,
         SumFunctionOnSet, FoldFunctionOnSet, MapThenFoldSet
<1> QED
  BY <1>1, <1>2, <1>3

LEMMA CustomerConstants ==
  /\ IsFiniteSet(Clients) /\ Cardinality(Clients) \in Nat
  /\ MaxFailures \in Nat \ {0} /\ CustomerWindow \in Nat \ {0}
  /\ MaxDelay \in Nat /\ MaxLost \in Nat /\ MaxFailuresPerTick \in Nat
  /\ IsFiniteSet(0..CustomerWindow)
<1>1. /\ IsFiniteSet(Clients)
      /\ MaxFailures \in Nat \ {0} /\ CustomerWindow \in Nat \ {0}
      /\ MaxDelay \in Nat /\ MaxLost \in Nat /\ MaxFailuresPerTick \in Nat
  BY ConstantsAreSensible, CustomerLibraries DEF Customer!Sensible
<1> QED
  BY <1>1, FS_CardinalityType, FS_Interval

LEMMA CustomerTypeStep ==
  ASSUME Customer!TypeOK, Customer!Next
  PROVE  Customer!TypeOK'
<1> USE CustomerConstants
    DEF Customer!TypeOK, Customer!Request, Customer!Recorded, Customer!Ages, Customer!LockTtl
<1>1. CASE Customer!Tick
  <2>1. failures' \in [Customer!Ages -> 0..MaxFailuresPerTick]
    BY <1>1 DEF Customer!Tick, Customer!Leave, Customer!None
  <2>2. keep' \in 0..2 * CustomerWindow /\ lock' \in 0..2 * CustomerWindow
    BY <1>1 DEF Customer!Tick
  <2>3. customerReq' \in [Clients -> Customer!Request]
    BY <1>1 DEF Customer!Tick
  <2>4. lost' \in 0..MaxLost
    BY <1>1 DEF Customer!Tick, Customer!Leave
  <2> QED
    BY <2>1, <2>2, <2>3, <2>4
<1>2. ASSUME NEW r \in Clients, Customer!Step(r)
      PROVE  Customer!TypeOK'
  <2>1. CASE Customer!Refuse(r)
    BY <2>1 DEF Customer!Refuse, Customer!vars
  <2>2. CASE Customer!Admit(r) \/ Customer!Fail(r) \/ Customer!Succeed(r)
    <3>1. PICK pc \in {"verify", "add", "clear"} :
            Customer!Goto(r, pc) /\ UNCHANGED <<failures, keep, lock, lost>>
      BY <2>2 DEF Customer!Admit, Customer!Fail, Customer!Succeed
    <3> QED
      BY <3>1 DEF Customer!Goto
  <2>3. CASE Customer!Inactive(r)
    BY <2>3 DEF Customer!Inactive, Customer!Done, Customer!Idle
  <2>4. CASE Customer!AddFailure(r)
    <3>1. customerReq' \in [Clients -> Customer!Request] /\ UNCHANGED <<keep, lock, lost>>
      BY <2>4 DEF Customer!AddFailure, Customer!Goto
    <3>2. failures' \in [Customer!Ages -> 0..MaxFailuresPerTick]
      <4> DEFINE a == customerReq[r].age
      <4>1. failures[a] + 1 \in 0..MaxFailuresPerTick
        BY <2>4 DEF Customer!AddFailure
      <4>2. failures' = [failures EXCEPT ![a] = failures[a] + 1]
        BY <2>4 DEF Customer!AddFailure
      <4> HIDE DEF a
      <4> QED BY <4>1, <4>2
    <3> QED
      BY <3>1, <3>2
  <2>5. CASE Customer!Trim(r)
    <3>1. failures' \in [Customer!Ages -> 0..MaxFailuresPerTick]
      BY <2>5 DEF Customer!Trim, Customer!Leave
    <3>2. keep' \in 0..2 * CustomerWindow /\ lock' = lock
      BY <2>5 DEF Customer!Trim
    <3>3. lost' \in 0..MaxLost
      BY <2>5 DEF Customer!Trim, Customer!Leave
    <3>4. customerReq' \in [Clients -> Customer!Request]
      BY <2>5 DEF Customer!Trim, Customer!Goto
    <3> QED
      BY <3>1, <3>2, <3>3, <3>4
  <2>6. CASE Customer!CountFailures(r)
    <3> DEFINE q == IF Customer!AtLimit THEN [pc |-> "lock", age |-> 0] ELSE Customer!Idle
    <3>1. customerReq' = [customerReq EXCEPT ![r] = q]
      BY <2>6 DEF Customer!CountFailures
    <3>2. q \in Customer!Request
      BY DEF Customer!Idle
    <3> HIDE DEF q
    <3>3. customerReq' \in [Clients -> Customer!Request]
      BY <3>1, <3>2
    <3> QED
      BY <2>6, <3>3 DEF Customer!CountFailures
  <2>7. CASE Customer!SetLock(r)
    BY <2>7 DEF Customer!SetLock, Customer!Done, Customer!Idle
  <2>8. CASE Customer!Clear(r)
    BY <2>8 DEF Customer!Clear, Customer!Leave, Customer!None, Customer!Done, Customer!Idle
  <2>9. CASE Customer!Crash(r)
    <3>1. lost' \in 0..MaxLost
      BY <2>9 DEF Customer!Crash
    <3> QED
      BY <2>9, <3>1 DEF Customer!Crash, Customer!Done, Customer!Idle
  <2> QED
    BY <1>2, <2>1, <2>2, <2>3, <2>4, <2>5, <2>6, <2>7, <2>8, <2>9
    DEF Customer!Step, Customer!Record
<1> QED
  BY <1>1, <1>2 DEF Customer!Next

\* The attempts that may still add a failure, those that have added one and not yet
\* acted on the count; the failures of the window, and those of them that the lock, if
\* there is one, was not set after.
Attempting == {r \in Clients : customerReq[r].pc \in {"verify", "add"}}
Recording == {r \in Clients : customerReq[r].pc \in Customer!Recorded}
Failures == SumFunctionOnSet(failures, 0..CustomerWindow)
SinceLock == [a \in 0..CustomerWindow |->
                IF a + lock < 2 * CustomerWindow THEN failures[a] ELSE 0]
Fresh == SumFunctionOnSet(SinceLock, 0..CustomerWindow)

\* Whoever counts the limit sets a lock, so that the failures since the last one are
\* below the limit but for those whose requests have yet to act on the count, or died
\* before they did.  Attempts are admitted while there is no lock, when these are all
\* the failures of the window: hence the bound.
CustomerLockInv ==
  /\ Failures + Cardinality(Attempting) < MaxFailures + Cardinality(Clients) + lost
  /\ Fresh < MaxFailures + Cardinality(Recording) + lost

CustomerCounts ==
  /\ \A a \in 0..CustomerWindow : failures[a] \in Nat /\ SinceLock[a] \in Nat
  /\ Failures \in Nat /\ Fresh \in Nat
  /\ Fresh <= Failures /\ Failures <= Customer!Count
  /\ lock = 0 => Fresh = Failures
  /\ IsFiniteSet(Attempting) /\ Cardinality(Attempting) \in Nat
  /\ IsFiniteSet(Recording) /\ Cardinality(Recording) \in Nat
  /\ Cardinality(Attempting) + Cardinality(Recording) <= Cardinality(Clients)
  /\ Customer!Count \in Nat /\ lost \in Nat /\ lock \in Nat

LEMMA CustomerView == Customer!TypeOK => CustomerCounts
<1> SUFFICES ASSUME Customer!TypeOK PROVE CustomerCounts
  OBVIOUS
<1>1. /\ \A a \in 0..CustomerWindow + MaxDelay : failures[a] \in Nat
      /\ lost \in Nat /\ lock \in Nat
  BY CustomerConstants DEF Customer!TypeOK, Customer!Ages, Customer!LockTtl
<1>2. \A a \in 0..CustomerWindow : failures[a] \in Nat /\ SinceLock[a] \in Nat
  BY <1>1, CustomerConstants DEF SinceLock
<1>3. Failures \in Nat /\ Fresh \in Nat
  BY <1>2, CustomerConstants, SumIsNat DEF Failures, Fresh
<1>4. Fresh <= Failures
  <2>1. \A a \in 0..CustomerWindow : SinceLock[a] <= failures[a]
    BY <1>2 DEF SinceLock
  <2> QED
    BY <1>2, <2>1, CustomerConstants, SumMonotone DEF Failures, Fresh
<1>5. Customer!Count = SumFunctionOnSet(failures, 0..CustomerWindow + MaxDelay)
  BY CustomerLibraries DEF Customer!Count, Customer!Ages
<1>6. Customer!Count \in Nat
  <2>1. IsFiniteSet(0..CustomerWindow + MaxDelay)
    BY CustomerConstants, FS_Interval
  <2> QED
    BY <1>1, <1>5, <2>1, SumIsNat
<1>7. Failures <= Customer!Count
  <2>1. /\ CustomerWindow + MaxDelay \in Nat /\ CustomerWindow \in Int
        /\ CustomerWindow <= CustomerWindow + MaxDelay
    BY CustomerConstants
  <2>2. SumFunctionOnSet(failures, 0..CustomerWindow)
          <= SumFunctionOnSet(failures, 0..CustomerWindow + MaxDelay)
    BY ONLY <1>1, <2>1, SumOfFewer
  <2> QED
    BY <1>5, <2>2 DEF Failures
<1>8. lock = 0 => Fresh = Failures
  <2>1. lock = 0 => \A a \in 0..CustomerWindow : SinceLock[a] = failures[a]
    BY CustomerConstants DEF SinceLock
  <2> QED
    BY <1>2, <2>1, CustomerConstants, SumSame DEF Failures, Fresh
<1>9. IsFiniteSet(Attempting) /\ Cardinality(Attempting) \in Nat
  BY CustomerConstants, OneIsNotIn DEF Attempting
<1>10. IsFiniteSet(Recording) /\ Cardinality(Recording) \in Nat
  BY CustomerConstants, OneIsNotIn DEF Recording
<1>11. Cardinality(Attempting) + Cardinality(Recording) <= Cardinality(Clients)
  <2>1. Attempting \cap Recording = {} /\ Attempting \cup Recording \subseteq Clients
    BY DEF Attempting, Recording, Customer!Recorded
  <2>2. Cardinality(Attempting \cup Recording) = Cardinality(Attempting) + Cardinality(Recording)
    <3>1. Cardinality(Attempting \cap Recording) = 0
      BY <2>1, FS_EmptySet
    <3> QED
      <4>1. Cardinality(Attempting \cup Recording)
              = Cardinality(Attempting) + Cardinality(Recording) - Cardinality(Attempting \cap Recording)
        BY <1>9, <1>10, FS_Union
      <4> QED
        BY <3>1, <4>1, <1>9, <1>10
  <2>3. Cardinality(Attempting \cup Recording) <= Cardinality(Clients)
    BY <2>1, CustomerConstants, FS_Subset
  <2> QED
    BY <2>2, <2>3
<1> QED
  BY <1>1, <1>2, <1>3, <1>4, <1>6, <1>7, <1>8, <1>9, <1>10, <1>11 DEF CustomerCounts

LEMMA CustomerViewNext == Customer!TypeOK' => CustomerCounts'
BY CustomerView, PTL

\* A sum does not grow when it ages, or when no term of it does.
LEMMA SumAgedOrLess ==
  ASSUME NEW f, NEW g, NEW n \in Nat,
         \A a \in 0..n : f[a] \in Nat /\ g[a] \in Nat,
         \/ \A a \in 0..n : g[a] = IF a = 0 THEN 0 ELSE f[a - 1]
         \/ \A a \in 0..n : g[a] <= f[a]
  PROVE  SumFunctionOnSet(g, 0..n) <= SumFunctionOnSet(f, 0..n)
<1>1. CASE \A a \in 0..n : g[a] = IF a = 0 THEN 0 ELSE f[a - 1]
  <2>1. SumFunctionOnSet(g, 0..n) = SumFunctionOnSet(f, 0..n - 1)
    BY <1>1, SumAged
  <2>2. SumFunctionOnSet(f, 0..n - 1) <= SumFunctionOnSet(f, 0..n)
    BY SumOfFewer
  <2> QED
    BY <2>1, <2>2
<1>2. CASE \A a \in 0..n : g[a] <= f[a]
  <2>1. IsFiniteSet(0..n)
    BY FS_Interval
  <2> QED
    BY <1>2, <2>1, SumMonotone
<1> QED
  BY <1>1, <1>2

\* Adding a failure to an age raises a sum by one, or not at all.
LEMMA SumRaisedOrSame ==
  ASSUME NEW f, NEW g, NEW n \in Nat, NEW x,
         \A a \in 0..n : f[a] \in Nat /\ g[a] \in Nat,
         \A a \in 0..n : a # x => g[a] = f[a],
         x \in 0..n => g[x] = f[x] \/ g[x] = f[x] + 1
  PROVE  SumFunctionOnSet(g, 0..n) = SumFunctionOnSet(f, 0..n)
           \/ SumFunctionOnSet(g, 0..n) = SumFunctionOnSet(f, 0..n) + 1
<1>0. IsFiniteSet(0..n)
  BY FS_Interval
<1>1. CASE x \in 0..n /\ g[x] = f[x] + 1
  BY <1>0, <1>1, SumRaised
<1>2. CASE ~(x \in 0..n /\ g[x] = f[x] + 1)
  <2>1. \A a \in 0..n : f[a] = g[a]
    BY <1>2
  <2> QED
    BY <1>0, <2>1, SumSame
<1> QED
  BY <1>1, <1>2

LEMMA CustomerLockStep ==
  ASSUME Customer!TypeOK, CustomerLockInv, Customer!Next
  PROVE  CustomerLockInv'
<1>u. CustomerCounts
  BY CustomerView
<1>v. CustomerCounts'
  BY CustomerTypeStep, CustomerViewNext
<1>n. /\ Failures \in Nat /\ Failures' \in Nat /\ Fresh \in Nat /\ Fresh' \in Nat
      /\ lost \in Nat /\ lost' \in Nat /\ lock \in Nat /\ lock' \in Nat
      /\ MaxFailures \in Nat \ {0} /\ CustomerWindow \in Nat \ {0}
      /\ Cardinality(Attempting) \in Nat /\ Cardinality(Attempting') \in Nat
      /\ Cardinality(Recording) \in Nat /\ Cardinality(Recording') \in Nat
      /\ Cardinality(Clients) \in Nat
      /\ Cardinality(Attempting') + Cardinality(Recording') <= Cardinality(Clients)
  BY <1>u, <1>v, CustomerConstants DEF CustomerCounts
<1>f. /\ \A a \in 0..CustomerWindow : failures[a] \in Nat /\ failures'[a] \in Nat
      /\ \A a \in 0..CustomerWindow : SinceLock[a] \in Nat /\ SinceLock'[a] \in Nat
  BY <1>u, <1>v DEF CustomerCounts
<1>s. \A a \in 0..CustomerWindow :
        /\ SinceLock[a] = IF a + lock < 2 * CustomerWindow THEN failures[a] ELSE 0
        /\ SinceLock'[a] = IF a + lock' < 2 * CustomerWindow THEN failures'[a] ELSE 0
  BY DEF SinceLock
<1>c. Attempting \subseteq Clients /\ Recording \subseteq Clients
  BY DEF Attempting, Recording
\* Without a failure there is nothing to bound.
<1>0. ASSUME \A a \in 0..CustomerWindow : failures'[a] = 0
      PROVE  CustomerLockInv'
  <2>1. Failures' = 0
    BY <1>0, CustomerConstants, SumOfZeros DEF Failures
  <2>2. Fresh' = 0
    BY <1>0, <1>s, CustomerConstants, SumOfZeros DEF Fresh
  <2> QED
    BY <2>1, <2>2, <1>n DEF CustomerLockInv
\* What leaves the failures and the lock alone leaves the sums alone.
<1>k. ASSUME failures' = failures, lock' = lock
      PROVE  Failures' = Failures /\ Fresh' = Fresh
  BY <1>k DEF Failures, Fresh, SinceLock
<1>1. CASE Customer!Tick
  <2>1. CASE keep = 1
    BY <1>0, <1>1, <2>1, CustomerConstants
    DEF Customer!Tick, Customer!Leave, Customer!None, Customer!Ages
  <2>2. CASE keep # 1
    <3>1. \A a \in 0..CustomerWindow : failures'[a] = IF a = 0 THEN 0 ELSE failures[a - 1]
      BY <1>1, <2>2, CustomerConstants DEF Customer!Tick, Customer!Leave, Customer!Ages
    <3>2. lock' = IF lock = 0 THEN 0 ELSE lock - 1
      BY <1>1 DEF Customer!Tick
    <3>3. \A a \in 0..CustomerWindow : SinceLock'[a] = IF a = 0 THEN 0 ELSE SinceLock[a - 1]
      <4> TAKE a \in 0..CustomerWindow
      <4>1. CASE a = 0
        BY <4>1, <3>1, <1>s
      <4>2. CASE a # 0
        <5>1. a - 1 \in 0..CustomerWindow /\ failures'[a] = failures[a - 1]
          BY <4>2, <3>1, <1>n
        <5>2. a + lock' < 2 * CustomerWindow <=> (a - 1) + lock < 2 * CustomerWindow
          BY <3>2, <5>1, <1>n
        <5> QED
          BY <4>2, <5>1, <5>2, <1>s
      <4> QED
        BY <4>1, <4>2
    <3>4. Failures' <= Failures
      BY ONLY <1>f, <1>n, <3>1, SumAgedOrLess DEF Failures
    <3>5. Fresh' <= Fresh
      BY ONLY <1>f, <1>n, <3>3, SumAgedOrLess DEF Fresh
    <3>6. Attempting' = Attempting /\ Recording' = Recording
      BY <1>1 DEF Customer!Tick, Customer!TypeOK, Customer!Request, Attempting, Recording
    <3>7. CASE failures' = Customer!None
      BY <1>0, <3>7, CustomerConstants DEF Customer!None, Customer!Ages
    <3>8. CASE failures' # Customer!None
      <4>1. lost' = lost
        BY <1>1, <3>8 DEF Customer!Tick, Customer!Leave
      <4> QED
        BY <3>4, <3>5, <3>6, <4>1, <1>n DEF CustomerLockInv
    <3> QED
      BY <3>7, <3>8
  <2> QED
    BY <2>1, <2>2
<1>2. ASSUME NEW r \in Clients, Customer!Step(r)
      PROVE  CustomerLockInv'
  <2> USE DEF Customer!TypeOK, Customer!Recorded
  <2>1. CASE Customer!Admit(r)
    <3>1. failures' = failures /\ lock' = lock /\ lost' = lost /\ lock = 0
      BY <2>1 DEF Customer!Admit
    <3>2. r \notin Attempting /\ Attempting' = Attempting \cup {r} /\ Recording' = Recording
      BY <2>1 DEF Customer!Admit, Customer!Goto, Attempting, Recording
    <3>3. Fresh = Failures
      BY <3>1, <1>u DEF CustomerCounts
    <3> QED
      BY <3>1, <3>2, <3>3, <1>k, <1>n DEF CustomerLockInv
  <2>2. CASE Customer!Refuse(r)
    BY <2>2 DEF Customer!Refuse, Customer!vars, CustomerLockInv, Failures, Fresh, SinceLock,
                Attempting, Recording
  <2>3. CASE Customer!Fail(r) \/ Customer!Succeed(r) \/ Customer!Inactive(r)
    <3>1. failures' = failures /\ lock' = lock /\ lost' = lost
      BY <2>3 DEF Customer!Fail, Customer!Succeed, Customer!Inactive
    <3>2. Attempting' \subseteq Attempting /\ Recording' = Recording
      <4>1. CASE Customer!Fail(r)
        BY <4>1 DEF Customer!Fail, Customer!Goto, Attempting, Recording
      <4>2. CASE Customer!Succeed(r)
        BY <4>2 DEF Customer!Succeed, Customer!Goto, Attempting, Recording
      <4>3. CASE Customer!Inactive(r)
        BY <4>3 DEF Customer!Inactive, Customer!Done, Customer!Idle, Attempting, Recording
      <4> QED
        BY <2>3, <4>1, <4>2, <4>3
    <3>3. Cardinality(Attempting') <= Cardinality(Attempting)
      BY <3>2, <1>u, FS_Subset DEF CustomerCounts
    <3> QED
      BY <3>1, <3>2, <3>3, <1>k, <1>n DEF CustomerLockInv
  <2>4. CASE Customer!AddFailure(r)
    <3>1. r \in Attempting /\ Attempting' = Attempting \ {r}
      BY <2>4 DEF Customer!AddFailure, Customer!Goto, Attempting
    <3>2. r \notin Recording /\ Recording' = Recording \cup {r}
      BY <2>4 DEF Customer!AddFailure, Customer!Goto, Recording
    <3>3. Cardinality(Attempting') = Cardinality(Attempting) - 1
      BY <3>1, <1>c, CustomerConstants, OneIsNotIn
    <3>4. Cardinality(Recording') = Cardinality(Recording) + 1
      BY <3>2, <1>c, CustomerConstants, OneIsNotIn
    <3>5. lock' = lock /\ lost' = lost
      BY <2>4 DEF Customer!AddFailure
    <3>0. PICK x : x = customerReq[r].age
      OBVIOUS
    <3>6. /\ \A a \in 0..CustomerWindow : a # x => failures'[a] = failures[a]
          /\ x \in 0..CustomerWindow => failures'[x] = failures[x] + 1
      BY <2>4, <3>0, CustomerConstants DEF Customer!AddFailure, Customer!Ages
    <3>7. /\ \A a \in 0..CustomerWindow : a # x => SinceLock'[a] = SinceLock[a]
          /\ x \in 0..CustomerWindow =>
               SinceLock'[x] = SinceLock[x] \/ SinceLock'[x] = SinceLock[x] + 1
      BY <3>5, <3>6, <1>s
    <3>8. Failures' = Failures \/ Failures' = Failures + 1
      <4>1. /\ CustomerWindow \in Nat
            /\ \A a \in 0..CustomerWindow : failures[a] \in Nat /\ failures'[a] \in Nat
        BY <1>f, <1>n
      <4>2. x \in 0..CustomerWindow => failures'[x] = failures[x] \/ failures'[x] = failures[x] + 1
        BY <3>6
      <4>3. \/ SumFunctionOnSet(failures', 0..CustomerWindow) = SumFunctionOnSet(failures, 0..CustomerWindow)
            \/ SumFunctionOnSet(failures', 0..CustomerWindow) = SumFunctionOnSet(failures, 0..CustomerWindow) + 1
        BY ONLY <4>1, <4>2, <3>6, SumRaisedOrSame
      <4> QED
        BY <4>3 DEF Failures
    <3>9. Fresh' = Fresh \/ Fresh' = Fresh + 1
      <4>1. /\ CustomerWindow \in Nat
            /\ \A a \in 0..CustomerWindow : SinceLock[a] \in Nat /\ SinceLock'[a] \in Nat
        BY <1>f, <1>n
      <4>2. \/ SumFunctionOnSet(SinceLock', 0..CustomerWindow) = SumFunctionOnSet(SinceLock, 0..CustomerWindow)
            \/ SumFunctionOnSet(SinceLock', 0..CustomerWindow) = SumFunctionOnSet(SinceLock, 0..CustomerWindow) + 1
        BY ONLY <4>1, <3>7, SumRaisedOrSame
      <4> QED
        BY <4>2 DEF Fresh
    <3> QED
      BY <3>3, <3>4, <3>5, <3>8, <3>9, <1>n DEF CustomerLockInv
  <2>5. CASE Customer!Trim(r)
    <3>1. \A a \in 0..CustomerWindow : failures'[a] <= failures[a] /\ lock' = lock
      BY <2>5, <1>f, CustomerConstants DEF Customer!Trim, Customer!Leave, Customer!Ages
    <3>2. \A a \in 0..CustomerWindow : SinceLock'[a] <= SinceLock[a]
      BY <3>1, <1>s
    <3>3. Failures' <= Failures
      BY ONLY <1>f, <1>n, <3>1, SumAgedOrLess DEF Failures
    <3>4. Fresh' <= Fresh
      BY ONLY <1>f, <1>n, <3>2, SumAgedOrLess DEF Fresh
    <3>5. Attempting' = Attempting /\ Recording' = Recording
      BY <2>5 DEF Customer!Trim, Customer!Goto, Attempting, Recording
    <3>6. CASE failures' = Customer!None
      BY <1>0, <3>6, CustomerConstants DEF Customer!None, Customer!Ages
    <3>7. CASE failures' # Customer!None
      <4>1. lost' = lost
        BY <2>5, <3>7 DEF Customer!Trim, Customer!Leave
      <4> QED
        BY <3>3, <3>4, <3>5, <4>1, <1>n DEF CustomerLockInv
    <3> QED
      BY <3>6, <3>7
  <2>6. CASE Customer!CountFailures(r)
    <3>1. failures' = failures /\ lock' = lock /\ lost' = lost
      BY <2>6 DEF Customer!CountFailures
    <3>2. Attempting' = Attempting
      <4>1. customerReq[r].pc = "count" /\ customerReq'[r].pc \in {"lock", "idle"}
        BY <2>6 DEF Customer!CountFailures, Customer!Idle
      <4>2. \A c \in Clients \ {r} : customerReq'[c] = customerReq[c]
        BY <2>6 DEF Customer!CountFailures
      <4> QED
        BY <4>1, <4>2 DEF Attempting
    <3>3. CASE Customer!AtLimit
      <4>1. customerReq' = [customerReq EXCEPT ![r] = [pc |-> "lock", age |-> 0]]
        BY <2>6, <3>3 DEF Customer!CountFailures
      <4>2. Recording' = Recording
        BY <2>6, <4>1 DEF Customer!CountFailures, Recording
      <4> QED
        BY <3>1, <3>2, <4>2, <1>k, <1>n DEF CustomerLockInv
    <3>4. CASE ~Customer!AtLimit
      <4>1. Failures < MaxFailures /\ Fresh < MaxFailures
        BY <3>4, <1>u, CustomerConstants DEF Customer!AtLimit, CustomerCounts
      <4> QED
        BY <3>1, <3>2, <4>1, <1>k, <1>n DEF CustomerLockInv
    <3> QED
      BY <3>3, <3>4
  <2>7. CASE Customer!SetLock(r)
    <3>1. failures' = failures /\ lost' = lost /\ lock' = 2 * CustomerWindow
      BY <2>7 DEF Customer!SetLock, Customer!LockTtl
    <3>2. Failures' = Failures
      BY <3>1 DEF Failures
    <3>3. \A a \in 0..CustomerWindow : SinceLock'[a] = 0
      BY <3>1, <1>s, <1>n
    <3>4. Fresh' = 0
      BY <3>3, CustomerConstants, SumOfZeros DEF Fresh
    <3>5. Attempting' = Attempting
      BY <2>7 DEF Customer!SetLock, Customer!Done, Customer!Idle, Attempting
    <3> QED
      BY <3>1, <3>2, <3>4, <3>5, <1>n DEF CustomerLockInv
  <2>8. CASE Customer!Clear(r)
    BY <1>0, <2>8, CustomerConstants
    DEF Customer!Clear, Customer!Leave, Customer!None, Customer!Ages
  <2>9. CASE Customer!Crash(r)
    <3>1. failures' = failures /\ lock' = lock
      BY <2>9 DEF Customer!Crash
    <3>2. Attempting' \subseteq Attempting
      BY <2>9 DEF Customer!Crash, Customer!Done, Customer!Idle, Attempting
    <3>3. Cardinality(Attempting') <= Cardinality(Attempting)
      BY <3>2, <1>u, FS_Subset DEF CustomerCounts
    <3>4. CASE failures = Customer!None
      BY <1>0, <3>1, <3>4, CustomerConstants DEF Customer!None, Customer!Ages
    <3>5. CASE failures # Customer!None /\ r \in Recording
      <4>1. lost' = lost + 1
        BY <2>9, <3>5 DEF Customer!Crash, Recording
      <4>2. Recording' = Recording \ {r}
        BY <2>9 DEF Customer!Crash, Customer!Done, Customer!Idle, Recording
      <4>3. Cardinality(Recording') = Cardinality(Recording) - 1
        BY <3>5, <4>2, <1>c, CustomerConstants, OneIsNotIn
      <4> QED
        BY <3>1, <3>3, <4>1, <4>3, <1>k, <1>n DEF CustomerLockInv
    <3>6. CASE r \notin Recording
      <4>1. lost' = lost
        BY <2>9, <3>6 DEF Customer!Crash, Recording
      <4>2. Recording' = Recording
        BY <2>9, <3>6 DEF Customer!Crash, Customer!Done, Customer!Idle, Recording
      <4> QED
        BY <3>1, <3>3, <4>1, <4>2, <1>k, <1>n DEF CustomerLockInv
    <3> QED
      BY <3>4, <3>5, <3>6
  <2> QED
    BY <1>2, <2>1, <2>2, <2>3, <2>4, <2>5, <2>6, <2>7, <2>8, <2>9
    DEF Customer!Step, Customer!Record
<1> QED
  BY <1>1, <1>2 DEF Customer!Next

LEMMA CustomerBound ==
  ASSUME Customer!TypeOK, CustomerLockInv
  PROVE  CustomerFailuresBounded
<1> DEFINE A == {r \in Clients : customerReq[r].pc = "add"}
<1>1. CustomerCounts
  BY CustomerView
<1>2. Customer!InWindow = Failures /\ Customer!Cardinality(A) = Cardinality(A)
  BY CustomerLibraries DEF Customer!InWindow, Failures
<1>3. A \subseteq Attempting
  BY DEF Attempting
<1>4. Cardinality(A) \in Nat /\ Cardinality(A) <= Cardinality(Attempting)
  BY <1>1, <1>3, FS_Subset, FS_CardinalityType DEF CustomerCounts
<1> HIDE DEF A
<1>5. Failures + Cardinality(A) < MaxFailures + Cardinality(Clients) + lost
  BY <1>1, <1>4, CustomerConstants DEF CustomerLockInv, CustomerCounts
<1>6. Customer!Cardinality(Clients) = Cardinality(Clients)
  BY CustomerLibraries
<1> QED
  BY <1>2, <1>5, <1>6 DEF CustomerFailuresBounded, Customer!FailuresBounded, A

-----------------------------------------------------------------------------
(* One bucket of the rate limit                                             *)

LEMMA BucketLibraries ==
  /\ \A S : Bucket!IsFiniteSet(S) <=> IsFiniteSet(S)
  /\ \A S : Bucket!Cardinality(S) = Cardinality(S)
  /\ \A f, S : Bucket!SumFunctionOnSet(f, S) = SumFunctionOnSet(f, S)
  /\ \A S : Bucket!Min(S) = Min(S)
<1>1. \A S : Bucket!IsFiniteSet(S) <=> IsFiniteSet(S)
  BY DEF Bucket!IsFiniteSet, IsFiniteSet
<1>2. \A S : Bucket!Cardinality(S) = Cardinality(S)
  BY DEF Bucket!Cardinality, Cardinality
<1>3. \A f, S : Bucket!SumFunctionOnSet(f, S) = SumFunctionOnSet(f, S)
  BY DEF Bucket!SumFunctionOnSet, Bucket!FoldFunctionOnSet, Bucket!MapThenFoldSet,
         SumFunctionOnSet, FoldFunctionOnSet, MapThenFoldSet
<1>4. \A S : Bucket!Min(S) = Min(S)
  BY DEF Bucket!Min, Min
<1> QED
  BY <1>1, <1>2, <1>3, <1>4

LEMMA BucketConstants ==
  /\ IsFiniteSet(Clients) /\ Cardinality(Clients) \in Nat
  /\ Limit \in Nat \ {0} /\ GuardWindow \in Nat \ {0}
  /\ Bucket!MaxCount = Limit + Cardinality(Clients) + 1
  /\ Bucket!MaxCount \in Nat /\ Bucket!MaxCount > Limit
  /\ IsFiniteSet(0..GuardWindow) /\ IsFiniteSet(0..GuardWindow - 1)
<1>1. /\ IsFiniteSet(Clients)
      /\ Limit \in Nat \ {0} /\ GuardWindow \in Nat \ {0}
  BY ConstantsAreSensible, BucketLibraries DEF Bucket!Sensible
<1>2. Cardinality(Clients) \in Nat
  BY <1>1, FS_CardinalityType
<1>3. Bucket!MaxCount = Limit + Cardinality(Clients) + 1
  BY BucketLibraries DEF Bucket!MaxCount
<1>4. IsFiniteSet(0..GuardWindow) /\ IsFiniteSet(0..GuardWindow - 1)
  BY <1>1, FS_Interval
<1> QED
  BY <1>1, <1>2, <1>3, <1>4

\* The types of the bucket, the bound on what a tick lets through left aside.
BucketTypes ==
  /\ count \in 0..Bucket!MaxCount /\ ttl \in 0..GuardWindow
  /\ admitted \in [0..GuardWindow -> Nat]
  /\ guardReq \in [Clients -> Bucket!Request]

\* What INCR returns.
Raised == Bucket!Min({Bucket!MaxCount, count + 1})

LEMMA RaisedCount ==
  ASSUME BucketTypes
  PROVE  /\ Raised \in 0..Bucket!MaxCount
         /\ Raised <= Limit => Raised = count + 1
         /\ Raised >= count
<1>1. Bucket!MaxCount \in Nat /\ count + 1 \in Nat
  BY BucketConstants DEF BucketTypes
<1>2. Raised = IF Bucket!MaxCount <= count + 1 THEN Bucket!MaxCount ELSE count + 1
  BY <1>1, MinOfTwo, BucketLibraries DEF Raised
<1> QED
  BY <1>1, <1>2, BucketConstants DEF BucketTypes

LEMMA BucketTypesStep ==
  ASSUME BucketTypes, Bucket!Next
  PROVE  BucketTypes'
<1> USE BucketConstants DEF BucketTypes, Bucket!Request, Bucket!Ages
<1>1. CASE Bucket!Tick
  <2>1. admitted' \in [0..GuardWindow -> Nat]
    BY <1>1 DEF Bucket!Tick
  <2>2. count' \in 0..Bucket!MaxCount /\ ttl' \in 0..GuardWindow
    BY <1>1 DEF Bucket!Tick
  <2>3. guardReq' \in [Clients -> Bucket!Request]
    <3>1. \A r \in Clients : (guardReq[r].pc # "idle") \in BOOLEAN
      OBVIOUS
    <3> QED
      BY <1>1, <3>1 DEF Bucket!Tick
  <2> QED
    BY <2>1, <2>2, <2>3
<1>2. ASSUME NEW r \in Clients, Bucket!Incr(r)
      PROVE  BucketTypes'
  <2>1. count' = Raised /\ UNCHANGED <<ttl, admitted>>
    BY <1>2 DEF Bucket!Incr, Raised
  <2>2. PICK pc \in {"expire", "decide"} :
          guardReq' = [guardReq EXCEPT ![r] = [pc |-> pc, count |-> Raised, late |-> FALSE]]
    BY <1>2 DEF Bucket!Incr, Raised
  <2>3. [pc |-> pc, count |-> Raised, late |-> FALSE] \in Bucket!Request
    BY RaisedCount
  <2> QED
    BY <2>1, <2>2, <2>3, RaisedCount
<1>3. ASSUME NEW r \in Clients, Bucket!Expire(r)
      PROVE  BucketTypes'
  <2>1. ttl' \in 0..GuardWindow /\ UNCHANGED <<count, admitted>>
    BY <1>3 DEF Bucket!Expire
  <2>2. guardReq' \in [Clients -> Bucket!Request]
    BY <1>3 DEF Bucket!Expire
  <2> QED
    BY <2>1, <2>2
<1>4. ASSUME NEW r \in Clients, Bucket!Decide(r)
      PROVE  BucketTypes'
  <2>1. guardReq' \in [Clients -> Bucket!Request] /\ UNCHANGED <<count, ttl>>
    BY <1>4 DEF Bucket!Decide, Bucket!Idle
  <2>2. admitted' = [admitted EXCEPT ![0] = @ + 1] \/ admitted' = admitted
    BY <1>4 DEF Bucket!Decide
  <2>3. admitted' \in [0..GuardWindow -> Nat]
    <3>1. admitted[0] + 1 \in Nat
      BY BucketConstants
    <3> QED
      BY <2>2, <3>1
  <2> QED
    BY <2>1, <2>3
<1>5. ASSUME NEW r \in Clients, Bucket!Crash(r)
      PROVE  BucketTypes'
  BY <1>5 DEF Bucket!Crash, Bucket!Idle
<1> QED
  BY <1>1, <1>2, <1>3, <1>4, <1>5 DEF Bucket!Next, Bucket!Finish

\* The requests in flight that will be let through, of a set of them.
Passing(R) == {r \in R : guardReq[r].pc # "idle" /\ guardReq[r].count <= Limit}

\* What was let through, and the requests in flight, are of two counters: the present
\* one and the one before it, whose requests (old) are all late.  Of each at most Limit
\* pass.  While the present counter runs, what the one before let through is older
\* than it.
Split(cur, prev, old) ==
  /\ cur \in [0..GuardWindow -> Nat] /\ prev \in [0..GuardWindow -> Nat]
  /\ \A a \in 0..GuardWindow : admitted[a] = cur[a] + prev[a]
  /\ old \subseteq {r \in Clients : guardReq[r].pc # "idle" /\ guardReq[r].late}
  /\ SumFunctionOnSet(cur, 0..GuardWindow) + Cardinality(Passing(Clients \ old)) <= count
  /\ SumFunctionOnSet(cur, 0..GuardWindow) + Cardinality(Passing(Clients \ old)) <= Limit
  /\ SumFunctionOnSet(prev, 0..GuardWindow - 1) + Cardinality(Passing(old)) <= Limit
  /\ ttl > 0 => \A a \in 0..GuardWindow : a + ttl < GuardWindow => prev[a] = 0
  /\ old # {} => ttl \in {0, GuardWindow}

TwoCounters == \E cur, prev, old : Split(cur, prev, old)

LEMMA PassingIsFinite ==
  ASSUME NEW R \in SUBSET Clients
  PROVE  /\ IsFiniteSet(Passing(R)) /\ Cardinality(Passing(R)) \in Nat
         /\ Passing(R) \subseteq Clients
<1>1. Passing(R) \subseteq Clients
  BY DEF Passing
<1> QED
  BY <1>1, BucketConstants, OneIsNotIn

\* The sums of a split.
LEMMA SplitSums ==
  ASSUME NEW f \in [0..GuardWindow -> Nat]
  PROVE  /\ SumFunctionOnSet(f, 0..GuardWindow) \in Nat
         /\ SumFunctionOnSet(f, 0..GuardWindow - 1) \in Nat
         /\ SumFunctionOnSet(f, 0..GuardWindow - 1) <= SumFunctionOnSet(f, 0..GuardWindow)
<1>1. \A a \in 0..GuardWindow : f[a] \in Nat
  OBVIOUS
<1>2. \A a \in 0..GuardWindow - 1 : f[a] \in Nat
  BY BucketConstants
<1>3. SumFunctionOnSet(f, 0..GuardWindow) \in Nat
  BY ONLY <1>1, BucketConstants, SumIsNat
<1>4. SumFunctionOnSet(f, 0..GuardWindow - 1) \in Nat
  BY ONLY <1>2, BucketConstants, SumIsNat
<1>5. GuardWindow \in Nat /\ GuardWindow - 1 \in Int /\ GuardWindow - 1 <= GuardWindow
  BY BucketConstants
<1>6. SumFunctionOnSet(f, 0..GuardWindow - 1) <= SumFunctionOnSet(f, 0..GuardWindow)
  BY ONLY <1>1, <1>5, SumOfFewer
<1> QED
  BY <1>3, <1>4, <1>6

\* A split bounds what a window lets through.
LEMMA SplitBounds ==
  ASSUME BucketTypes, TwoCounters
  PROVE  /\ TwiceTheLimit
         /\ \A a \in 0..GuardWindow - 1 : admitted[a] <= 2 * Limit
<1>1. PICK cur, prev, old : Split(cur, prev, old)
  BY DEF TwoCounters
<1>2. old \subseteq Clients
  BY <1>1 DEF Split
<1>3. /\ SumFunctionOnSet(cur, 0..GuardWindow) \in Nat
      /\ SumFunctionOnSet(cur, 0..GuardWindow - 1) \in Nat
      /\ SumFunctionOnSet(prev, 0..GuardWindow - 1) \in Nat
      /\ SumFunctionOnSet(cur, 0..GuardWindow - 1) <= SumFunctionOnSet(cur, 0..GuardWindow)
  BY <1>1, SplitSums DEF Split
<1>4. Cardinality(Passing(Clients \ old)) \in Nat /\ Cardinality(Passing(old)) \in Nat
  BY <1>2, PassingIsFinite
<1>5. SumFunctionOnSet(admitted, 0..GuardWindow - 1)
        = SumFunctionOnSet(cur, 0..GuardWindow - 1) + SumFunctionOnSet(prev, 0..GuardWindow - 1)
  <2>1. \A a \in 0..GuardWindow - 1 :
          cur[a] \in Nat /\ prev[a] \in Nat /\ admitted[a] = cur[a] + prev[a]
    <3>1. \A a \in 0..GuardWindow - 1 : a \in 0..GuardWindow
      BY BucketConstants
    <3> QED
      BY <1>1, <3>1 DEF Split
  <2> QED
    BY ONLY <2>1, BucketConstants, SumOfTwo
<1>6. SumFunctionOnSet(admitted, 0..GuardWindow - 1) <= 2 * Limit
  <2>1. SumFunctionOnSet(cur, 0..GuardWindow) + Cardinality(Passing(Clients \ old)) <= Limit
    BY <1>1 DEF Split
  <2>2. SumFunctionOnSet(prev, 0..GuardWindow - 1) + Cardinality(Passing(old)) <= Limit
    BY <1>1 DEF Split
  <2> QED
    BY <2>1, <2>2, <1>3, <1>4, <1>5, BucketConstants
<1>7. TwiceTheLimit
  BY <1>6, BucketLibraries DEF TwiceTheLimit, Bucket!TwiceTheLimit, Bucket!InWindow
<1>8. ASSUME NEW a \in 0..GuardWindow - 1
      PROVE  admitted[a] <= 2 * Limit
  <2>1. \A b \in 0..GuardWindow - 1 : admitted[b] \in Nat
    BY BucketConstants DEF BucketTypes
  <2>2. SumFunctionOnSet(admitted, 0..GuardWindow - 1)
          = admitted[a] + SumFunctionOnSet(admitted, (0..GuardWindow - 1) \ {a})
    <3> DEFINE S == 0..GuardWindow - 1
    <3>1. IsFiniteSet(S) /\ a \in S /\ \A b \in S : admitted[b] \in Nat
      BY <2>1, BucketConstants
    <3> HIDE DEF S
    <3>2. PICK x \in S : x = a
      BY <3>1
    <3>3. SumFunctionOnSet(admitted, S) = admitted[x] + SumFunctionOnSet(admitted, S \ {x})
      BY <3>1, SumLessOne
    <3> QED
      BY <3>2, <3>3 DEF S
  <2>3. SumFunctionOnSet(admitted, (0..GuardWindow - 1) \ {a}) \in Nat
    <3>1. IsFiniteSet((0..GuardWindow - 1) \ {a})
      BY BucketConstants, FS_RemoveElement
    <3> QED
      BY ONLY <2>1, <3>1, SumIsNat
  <2> QED
    BY <1>6, <2>1, <2>2, <2>3, BucketConstants
<1> QED
  BY <1>7, <1>8

\* A request leaves, or begins without passing.
LEMMA PassingLess ==
  ASSUME BucketTypes, NEW R \in SUBSET Clients, NEW r \in Clients,
         \A q \in Clients \ {r} : guardReq'[q] = guardReq[q],
         r \in Passing(R)' => r \in Passing(R)
  PROVE  /\ Cardinality(Passing(R)') <= Cardinality(Passing(R))
         /\ r \in Passing(R) /\ r \notin Passing(R)' =>
              Cardinality(Passing(R)') = Cardinality(Passing(R)) - 1
<1>1. IsFiniteSet(Passing(R)) /\ IsFiniteSet(Passing(R)') /\ Passing(R) \subseteq Clients
  <2>1. IsFiniteSet(Passing(R)) /\ Passing(R) \subseteq Clients
    BY PassingIsFinite
  <2>2. Passing(R)' \subseteq Clients
    BY DEF Passing
  <2>3. IsFiniteSet(Passing(R)')
    BY <2>2, BucketConstants, FS_Subset
  <2> QED
    BY <2>1, <2>3
<1>2. \A q \in Clients \ {r} : q \in Passing(R)' <=> q \in Passing(R)
  BY DEF Passing
<1>3. Passing(R)' \subseteq Passing(R)
  BY <1>2 DEF Passing
<1>4. r \in Passing(R) /\ r \notin Passing(R)' => Passing(R)' = Passing(R) \ {r}
  BY <1>1, <1>2, <1>3
<1>5. Cardinality(Passing(R)') <= Cardinality(Passing(R))
  BY <1>1, <1>3, FS_Subset
<1>6. r \in Passing(R) => Cardinality(Passing(R) \ {r}) = Cardinality(Passing(R)) - 1
  BY <1>1, FS_RemoveElement
<1> QED
  BY <1>4, <1>5, <1>6

LEMMA TwoCountersStep ==
  ASSUME BucketTypes, TwoCounters, Bucket!Next
  PROVE  TwoCounters'
<1>0. PICK cur, prev, old : Split(cur, prev, old)
  BY DEF TwoCounters
<1>u. /\ cur \in [0..GuardWindow -> Nat] /\ prev \in [0..GuardWindow -> Nat]
      /\ old \in SUBSET Clients /\ Clients \ old \in SUBSET Clients
  BY <1>0 DEF Split
<1>s. /\ SumFunctionOnSet(cur, 0..GuardWindow) \in Nat
      /\ SumFunctionOnSet(prev, 0..GuardWindow - 1) \in Nat
  BY <1>u, SplitSums
<1>p. Cardinality(Passing(Clients \ old)) \in Nat /\ Cardinality(Passing(old)) \in Nat
  BY <1>u, PassingIsFinite
<1>t. BucketTypes'
  BY BucketTypesStep
<1>q. /\ Passing(Clients \ old)' \subseteq Clients /\ Passing(old)' \subseteq Clients
      /\ Cardinality(Passing(Clients \ old)') \in Nat /\ Cardinality(Passing(old)') \in Nat
  <2>1. Passing(Clients \ old)' \subseteq Clients /\ Passing(old)' \subseteq Clients
    BY <1>u DEF Passing
  <2> QED
    BY <2>1, BucketConstants, OneIsNotIn
<1>1. CASE Bucket!Tick
  <2>0. old = {}
    BY <1>0, <1>1 DEF Split, Bucket!Tick
  <2> DEFINE Aged(f) == [a \in 0..GuardWindow |-> IF a = 0 THEN 0 ELSE f[a - 1]]
             zero == [a \in 0..GuardWindow |-> 0]
  <2>1. admitted' = Aged(admitted)
    BY <1>1 DEF Bucket!Tick, Bucket!Ages
  <2>2. \A R \in SUBSET Clients : Passing(R)' = Passing(R)
    BY <1>1 DEF Bucket!Tick, Passing, BucketTypes, Bucket!Request
  <2>3. ASSUME NEW f \in [0..GuardWindow -> Nat]
        PROVE  /\ Aged(f) \in [0..GuardWindow -> Nat]
               /\ SumFunctionOnSet(Aged(f), 0..GuardWindow) = SumFunctionOnSet(f, 0..GuardWindow - 1)
               /\ SumFunctionOnSet(Aged(f), 0..GuardWindow - 1) <= SumFunctionOnSet(f, 0..GuardWindow - 1)
    <3>1. Aged(f) \in [0..GuardWindow -> Nat]
      BY BucketConstants
    <3>2. \A a \in 0..GuardWindow : f[a] \in Nat
      OBVIOUS
    <3>3. \A a \in 0..GuardWindow : Aged(f)[a] = IF a = 0 THEN 0 ELSE f[a - 1]
      OBVIOUS
    <3> HIDE DEF Aged
    <3>4. SumFunctionOnSet(Aged(f), 0..GuardWindow) = SumFunctionOnSet(f, 0..GuardWindow - 1)
      <4>1. GuardWindow \in Nat
        BY BucketConstants
      <4> QED
        BY ONLY <3>2, <3>3, <4>1, SumAged
    <3>5. SumFunctionOnSet(Aged(f), 0..GuardWindow - 1) <= SumFunctionOnSet(Aged(f), 0..GuardWindow)
      BY <3>1, SplitSums
    <3> QED
      BY <3>1, <3>4, <3>5
  <2>4. CASE ttl # 1
    <3> HIDE DEF Aged
    <3>1. count' = count /\ ttl' \in Nat /\ (ttl' > 0 => ttl > 1 /\ ttl' = ttl - 1)
      BY <1>1, <2>4 DEF Bucket!Tick, BucketTypes
    <3>2. \A a \in 0..GuardWindow : admitted'[a] = Aged(cur)[a] + Aged(prev)[a]
      <4>1. \A a \in 0..GuardWindow : a # 0 => a - 1 \in 0..GuardWindow
        BY BucketConstants
      <4>2. \A a \in 0..GuardWindow : admitted[a] = cur[a] + prev[a]
        BY <1>0 DEF Split
      <4> QED
        BY <2>1, <4>1, <4>2 DEF Aged
    <3>3. SumFunctionOnSet(Aged(cur), 0..GuardWindow) <= SumFunctionOnSet(cur, 0..GuardWindow)
      BY <2>3, <1>u, SplitSums
    <3>4. SumFunctionOnSet(Aged(prev), 0..GuardWindow - 1) <= SumFunctionOnSet(prev, 0..GuardWindow - 1)
      BY <2>3, <1>u
    <3>5. ASSUME ttl' > 0, NEW a \in 0..GuardWindow, a + ttl' < GuardWindow
          PROVE  Aged(prev)[a] = 0
      <4>1. a = 0 \/ (a - 1 \in 0..GuardWindow /\ (a - 1) + ttl < GuardWindow)
        BY <3>1, <3>5, BucketConstants DEF BucketTypes
      <4>2. \A b \in 0..GuardWindow : b + ttl < GuardWindow => prev[b] = 0
        BY <3>1, <3>5, <1>0 DEF Split, BucketTypes
      <4> QED
        BY <4>1, <4>2 DEF Aged
    <3>6. /\ Aged(cur) \in [0..GuardWindow -> Nat] /\ Aged(prev) \in [0..GuardWindow -> Nat]
          /\ SumFunctionOnSet(Aged(cur), 0..GuardWindow) \in Nat
          /\ SumFunctionOnSet(Aged(prev), 0..GuardWindow - 1) \in Nat
      BY <2>3, <1>u, SplitSums
    <3>7. /\ SumFunctionOnSet(Aged(cur), 0..GuardWindow) + Cardinality(Passing(Clients \ old)') <= count'
          /\ SumFunctionOnSet(Aged(cur), 0..GuardWindow) + Cardinality(Passing(Clients \ old)') <= Limit
      <4>1. /\ SumFunctionOnSet(cur, 0..GuardWindow) + Cardinality(Passing(Clients \ old)) <= count
            /\ SumFunctionOnSet(cur, 0..GuardWindow) + Cardinality(Passing(Clients \ old)) <= Limit
        BY <1>0 DEF Split
      <4>2. count \in Nat /\ Limit \in Nat
        BY BucketConstants DEF BucketTypes
      <4>3. Passing(Clients \ old)' = Passing(Clients \ old)
        BY <2>2, <1>u
      <4> QED
        BY <3>1, <3>3, <3>6, <4>1, <4>2, <4>3, <1>s, <1>p
    <3>8. SumFunctionOnSet(Aged(prev), 0..GuardWindow - 1) + Cardinality(Passing(old)') <= Limit
      <4>1. SumFunctionOnSet(prev, 0..GuardWindow - 1) + Cardinality(Passing(old)) <= Limit
        BY <1>0 DEF Split
      <4>2. Passing(old)' = Passing(old)
        BY <2>2, <1>u
      <4>3. Limit \in Nat /\ SumFunctionOnSet(Aged(prev), 0..GuardWindow - 1) \in Nat
        BY <3>6, BucketConstants
      <4> QED
        BY ONLY <3>4, <4>1, <4>2, <4>3, <1>s, <1>p
    <3>9. Split(Aged(cur), Aged(prev), {})'
      BY <2>0, <3>2, <3>5, <3>6, <3>7, <3>8 DEF Split
    <3> QED
      BY <3>9 DEF TwoCounters
  <2>5. CASE ttl = 1
    <3> HIDE DEF Aged
    <3>a. PICK before : before = Aged(admitted)
      OBVIOUS
    <3>b. PICK pending : pending = {r \in Clients : guardReq[r].pc # "idle"}
      OBVIOUS
    <3>1. count' = 0 /\ ttl' = 0
      BY <1>1, <2>5 DEF Bucket!Tick
    <3>2. pending \in SUBSET Clients /\ \A r \in pending : guardReq'[r].late /\ guardReq'[r].pc # "idle"
      BY <1>1, <3>b DEF Bucket!Tick, BucketTypes, Bucket!Request
    <3>3. Passing(Clients \ pending)' = {} /\ Passing(pending)' = Passing(Clients)
      BY <1>1, <3>b DEF Bucket!Tick, Passing, BucketTypes, Bucket!Request
    <3>4. zero \in [0..GuardWindow -> Nat] /\ SumFunctionOnSet(zero, 0..GuardWindow) = 0
      <4>1. \A a \in 0..GuardWindow : zero[a] = 0
        OBVIOUS
      <4>2. zero \in [0..GuardWindow -> Nat]
        OBVIOUS
      <4> HIDE DEF zero
      <4> QED
        BY <4>1, <4>2, BucketConstants, SumOfZeros
    <3>5. SumFunctionOnSet(before, 0..GuardWindow - 1) = SumFunctionOnSet(cur, 0..GuardWindow - 2)
      <4>1. \A a \in 0..GuardWindow - 1 : before[a] = IF a = 0 THEN 0 ELSE cur[a - 1]
        <5>1. ASSUME NEW a \in 0..GuardWindow - 1, a # 0
              PROVE  admitted[a - 1] = cur[a - 1]
          <6>1. a - 1 \in 0..GuardWindow /\ (a - 1) + ttl < GuardWindow
            BY <2>5, <5>1, BucketConstants
          <6>2. admitted[a - 1] = cur[a - 1] + prev[a - 1] /\ prev[a - 1] = 0
            BY <1>0, <2>5, <6>1 DEF Split
          <6> QED
            BY <6>1, <6>2, <1>u
        <5>2. \A a \in 0..GuardWindow - 1 : a \in 0..GuardWindow
          BY BucketConstants
        <5> QED
          BY <3>a, <5>1, <5>2 DEF Aged
      <4>2. \A a \in 0..GuardWindow - 1 : cur[a] \in Nat
        BY <1>u, BucketConstants
      <4>3. GuardWindow - 1 \in Nat /\ (GuardWindow - 1) - 1 = GuardWindow - 2
        BY BucketConstants
      <4>4. SumFunctionOnSet(before, 0..GuardWindow - 1) = SumFunctionOnSet(cur, 0..(GuardWindow - 1) - 1)
        BY ONLY <4>1, <4>2, <4>3, SumAged
      <4> QED
        BY <4>3, <4>4
    <3>6. /\ SumFunctionOnSet(cur, 0..GuardWindow - 2) <= SumFunctionOnSet(cur, 0..GuardWindow)
          /\ SumFunctionOnSet(cur, 0..GuardWindow - 2) \in Nat
      <4>1. \A a \in 0..GuardWindow : cur[a] \in Nat
        BY <1>u
      <4>2. GuardWindow \in Nat /\ GuardWindow - 2 \in Int /\ GuardWindow - 2 <= GuardWindow
        BY BucketConstants
      <4>3. IsFiniteSet(0..GuardWindow - 2) /\ \A a \in 0..GuardWindow - 2 : cur[a] \in Nat
        <5>1. \A a \in 0..GuardWindow - 2 : a \in 0..GuardWindow
          BY <4>2
        <5>2. IsFiniteSet(0..GuardWindow - 2)
          BY <4>2, FS_Interval
        <5> QED
          BY <1>u, <5>1, <5>2
      <4>4. SumFunctionOnSet(cur, 0..GuardWindow - 2) <= SumFunctionOnSet(cur, 0..GuardWindow)
        BY ONLY <4>1, <4>2, SumOfFewer
      <4>5. SumFunctionOnSet(cur, 0..GuardWindow - 2) \in Nat
        BY ONLY <4>3, SumIsNat
      <4> QED
        BY <4>4, <4>5
    <3>7. SumFunctionOnSet(before, 0..GuardWindow - 1) + Cardinality(Passing(pending)') <= Limit
      <4>1. SumFunctionOnSet(cur, 0..GuardWindow) + Cardinality(Passing(Clients)) <= Limit
        <5>1. Clients \ old = Clients
          BY <2>0
        <5> QED
          BY <1>0, <5>1 DEF Split
      <4>2. Cardinality(Passing(Clients)) \in Nat
        BY PassingIsFinite
      <4>3. Passing(pending)' = Passing(Clients)
        BY <3>3
      <4> QED
        BY <3>5, <3>6, <4>1, <4>2, <4>3, <1>s, BucketConstants
    <3>8. Cardinality(Passing(Clients \ pending)') = 0
      BY <3>3, FS_EmptySet
    <3>9. before \in [0..GuardWindow -> Nat]
      BY <2>3, <3>a DEF BucketTypes
    <3>10. \A a \in 0..GuardWindow : admitted'[a] = zero[a] + before[a]
      BY <2>1, <3>9, <3>a
    <3> HIDE DEF zero
    <3>11. pending \subseteq {r \in Clients : guardReq'[r].pc # "idle" /\ guardReq'[r].late}
      BY <3>2
    <3>12. /\ SumFunctionOnSet(zero, 0..GuardWindow) + Cardinality(Passing(Clients \ pending)') <= count'
           /\ SumFunctionOnSet(zero, 0..GuardWindow) + Cardinality(Passing(Clients \ pending)') <= Limit
      BY <3>1, <3>4, <3>8, BucketConstants
    <3>13. Split(zero, before, pending)'
      BY <3>1, <3>4, <3>7, <3>9, <3>10, <3>11, <3>12 DEF Split
    <3> QED
      BY <3>13 DEF TwoCounters
  <2> QED
    BY <2>4, <2>5
<1>2. ASSUME NEW r \in Clients, Bucket!Incr(r)
      PROVE  TwoCounters'
  <2>1. count' = Raised /\ UNCHANGED <<ttl, admitted>>
    BY <1>2 DEF Bucket!Incr, Raised
  <2>2. guardReq[r].pc = "idle" /\ r \notin old
    BY <1>0, <1>2 DEF Bucket!Incr, Split
  <2>3. /\ guardReq'[r].pc # "idle" /\ guardReq'[r].count = Raised
        /\ \A q \in Clients \ {r} : guardReq'[q] = guardReq[q]
    BY <1>2 DEF Bucket!Incr, Raised, BucketTypes
  <2>4. old \subseteq {q \in Clients : guardReq'[q].pc # "idle" /\ guardReq'[q].late}
    BY <1>0, <2>2, <2>3 DEF Split
  <2>5. Passing(old)' = Passing(old)
    BY <1>u, <2>2, <2>3 DEF Passing
  <2>6. /\ SumFunctionOnSet(cur, 0..GuardWindow) + Cardinality(Passing(Clients \ old)') <= count'
        /\ SumFunctionOnSet(cur, 0..GuardWindow) + Cardinality(Passing(Clients \ old)') <= Limit
    <3>0. /\ SumFunctionOnSet(cur, 0..GuardWindow) + Cardinality(Passing(Clients \ old)) <= count
          /\ SumFunctionOnSet(cur, 0..GuardWindow) + Cardinality(Passing(Clients \ old)) <= Limit
          /\ count \in Nat /\ Limit \in Nat /\ Raised \in Nat
      <4>1. count \in Nat /\ Limit \in Nat /\ Raised \in Nat
        BY RaisedCount, BucketConstants DEF BucketTypes
      <4> QED
        BY <1>0, <4>1 DEF Split
    <3>1. CASE Raised <= Limit
      <4>1. r \notin Passing(Clients \ old) /\ Passing(Clients \ old)' = Passing(Clients \ old) \cup {r}
        BY <2>2, <2>3, <3>1 DEF Passing
      <4>2. Cardinality(Passing(Clients \ old)') = Cardinality(Passing(Clients \ old)) + 1
        BY <4>1, <1>u, PassingIsFinite, BucketConstants, OneIsNotIn
      <4>3. Raised = count + 1
        BY <3>1, RaisedCount
      <4> QED
        BY <2>1, <3>0, <3>1, <4>2, <4>3, <1>s, <1>p
    <3>2. CASE ~(Raised <= Limit)
      <4>1. Passing(Clients \ old)' = Passing(Clients \ old)
        BY <2>2, <2>3, <3>2 DEF Passing
      <4>2. Raised >= count
        BY RaisedCount
      <4> QED
        BY <2>1, <3>0, <4>1, <4>2, <1>s, <1>p
    <3> QED
      BY <3>1, <3>2
  <2>7. Split(cur, prev, old)'
    BY <1>0, <2>1, <2>4, <2>5, <2>6 DEF Split
  <2> QED
    BY <2>7 DEF TwoCounters
<1>3. ASSUME NEW r \in Clients, Bucket!Expire(r)
      PROVE  TwoCounters'
  <2>1. /\ UNCHANGED <<count, admitted>> /\ ttl' \in {0, GuardWindow}
        /\ guardReq' = [guardReq EXCEPT ![r].pc = "decide"] /\ guardReq[r].pc = "expire"
    BY <1>3 DEF Bucket!Expire
  <2>2. old \subseteq {q \in Clients : guardReq'[q].pc # "idle" /\ guardReq'[q].late}
    BY <1>0, <2>1 DEF Split, BucketTypes, Bucket!Request
  <2>3. \A R \in SUBSET Clients : Passing(R)' = Passing(R)
    BY <2>1 DEF Passing, BucketTypes, Bucket!Request
  <2>4. Passing(Clients \ old)' = Passing(Clients \ old) /\ Passing(old)' = Passing(old)
    BY <2>3, <1>u
  <2>5. ttl' > 0 => \A a \in 0..GuardWindow : ~(a + ttl' < GuardWindow)
    BY <2>1, BucketConstants
  <2>6. Split(cur, prev, old)'
    BY <1>0, <2>1, <2>2, <2>4, <2>5 DEF Split
  <2> QED
    BY <2>6 DEF TwoCounters
<1>4. ASSUME NEW r \in Clients, guardReq' = [guardReq EXCEPT ![r] = Bucket!Idle]
      PROVE  /\ old \ {r} \subseteq {q \in Clients : guardReq'[q].pc # "idle" /\ guardReq'[q].late}
             /\ Passing((Clients \ (old \ {r})))' = Passing(Clients \ old)'
             /\ Passing(old \ {r})' = Passing(old)'
             /\ Cardinality(Passing(Clients \ old)') <= Cardinality(Passing(Clients \ old))
             /\ Cardinality(Passing(old)') <= Cardinality(Passing(old))
             /\ r \in Passing(Clients \ old) =>
                  Cardinality(Passing(Clients \ old)') = Cardinality(Passing(Clients \ old)) - 1
             /\ r \in Passing(old) => Cardinality(Passing(old)') = Cardinality(Passing(old)) - 1
  <2>1. guardReq'[r].pc = "idle" /\ \A q \in Clients \ {r} : guardReq'[q] = guardReq[q]
    BY <1>4 DEF Bucket!Idle, BucketTypes
  <2>2. old \ {r} \subseteq {q \in Clients : guardReq'[q].pc # "idle" /\ guardReq'[q].late}
    BY <1>0, <2>1 DEF Split
  <2>3. Passing((Clients \ (old \ {r})))' = Passing(Clients \ old)'
    BY <2>1 DEF Passing
  <2>4. Passing(old \ {r})' = Passing(old)'
    BY <2>1 DEF Passing
  <2>5. r \notin Passing(Clients \ old)' /\ r \notin Passing(old)'
    BY <2>1 DEF Passing
  <2>6. /\ Cardinality(Passing(Clients \ old)') <= Cardinality(Passing(Clients \ old))
        /\ r \in Passing(Clients \ old) =>
             Cardinality(Passing(Clients \ old)') = Cardinality(Passing(Clients \ old)) - 1
    BY <1>u, <2>1, <2>5, PassingLess
  <2>7. /\ Cardinality(Passing(old)') <= Cardinality(Passing(old))
        /\ r \in Passing(old) => Cardinality(Passing(old)') = Cardinality(Passing(old)) - 1
    BY <1>u, <2>1, <2>5, PassingLess
  <2> QED
    BY <2>2, <2>3, <2>4, <2>6, <2>7
<1>5. ASSUME NEW r \in Clients, guardReq' = [guardReq EXCEPT ![r] = Bucket!Idle],
             UNCHANGED <<count, ttl, admitted>>
      PROVE  TwoCounters'
  <2>1. /\ SumFunctionOnSet(cur, 0..GuardWindow) + Cardinality(Passing(Clients \ old)') <= count
        /\ SumFunctionOnSet(cur, 0..GuardWindow) + Cardinality(Passing(Clients \ old)') <= Limit
    <3>1. /\ SumFunctionOnSet(cur, 0..GuardWindow) + Cardinality(Passing(Clients \ old)) <= count
          /\ SumFunctionOnSet(cur, 0..GuardWindow) + Cardinality(Passing(Clients \ old)) <= Limit
          /\ count \in Nat /\ Limit \in Nat
      BY <1>0, BucketConstants DEF Split, BucketTypes
    <3>2. Cardinality(Passing(Clients \ old)') <= Cardinality(Passing(Clients \ old))
      BY <1>4, <1>5
    <3> QED
      BY <3>1, <3>2, <1>s, <1>p, <1>q
  <2>2. SumFunctionOnSet(prev, 0..GuardWindow - 1) + Cardinality(Passing(old)') <= Limit
    <3>1. SumFunctionOnSet(prev, 0..GuardWindow - 1) + Cardinality(Passing(old)) <= Limit
      BY <1>0 DEF Split
    <3>2. Cardinality(Passing(old)') <= Cardinality(Passing(old))
      BY <1>4, <1>5
    <3> QED
      BY <3>1, <3>2, <1>s, <1>p, <1>q, BucketConstants
  <2>3. /\ old \ {r} \subseteq {q \in Clients : guardReq'[q].pc # "idle" /\ guardReq'[q].late}
        /\ Passing((Clients \ (old \ {r})))' = Passing(Clients \ old)'
        /\ Passing(old \ {r})' = Passing(old)'
    BY <1>4, <1>5
  <2>4. Split(cur, prev, old \ {r})'
    BY <1>0, <1>5, <2>1, <2>2, <2>3 DEF Split
  <2> QED
    BY <2>4 DEF TwoCounters
<1>6. ASSUME NEW r \in Clients, Bucket!Decide(r), guardReq[r].count <= Limit
      PROVE  TwoCounters'
  <2> DEFINE Plus(f) == [f EXCEPT ![0] = @ + 1]
  <2>1. /\ admitted' = Plus(admitted) /\ UNCHANGED <<count, ttl>>
        /\ guardReq' = [guardReq EXCEPT ![r] = Bucket!Idle] /\ guardReq[r].pc = "decide"
    BY <1>6 DEF Bucket!Decide, Bucket!Within
  <2>2. /\ old \ {r} \subseteq {q \in Clients : guardReq'[q].pc # "idle" /\ guardReq'[q].late}
        /\ Passing((Clients \ (old \ {r})))' = Passing(Clients \ old)'
        /\ Passing(old \ {r})' = Passing(old)'
    BY <1>4, <2>1
  <2>3. ASSUME NEW f \in [0..GuardWindow -> Nat], NEW n \in {GuardWindow, GuardWindow - 1}
        PROVE  /\ Plus(f) \in [0..GuardWindow -> Nat]
               /\ SumFunctionOnSet(Plus(f), 0..n) = SumFunctionOnSet(f, 0..n) + 1
    <3>1. Plus(f) \in [0..GuardWindow -> Nat]
      <4>1. f[0] + 1 \in Nat
        BY BucketConstants
      <4> QED
        BY <4>1
    <3>2. 0 \in 0..n /\ (\A a \in 0..n : a \in 0..GuardWindow) /\ IsFiniteSet(0..n)
      BY BucketConstants
    <3>3. \A a \in 0..n : f[a] \in Nat
      BY <3>2
    <3>4. Plus(f)[0] = f[0] + 1 /\ \A a \in (0..n) \ {0} : Plus(f)[a] = f[a]
      BY <3>2
    <3> HIDE DEF Plus
    <3>5. SumFunctionOnSet(Plus(f), 0..n) = SumFunctionOnSet(f, 0..n) + 1
      <4>1. PICK g : g = Plus(f)
        OBVIOUS
      <4>2. g[0] = f[0] + 1 /\ \A a \in (0..n) \ {0} : g[a] = f[a]
        BY <3>4, <4>1
      <4>3. 0 \in 0..n /\ IsFiniteSet(0..n)
        BY <3>2
      <4>4. SumFunctionOnSet(g, 0..n) = SumFunctionOnSet(f, 0..n) + 1
        BY ONLY <3>3, <4>2, <4>3, SumRaised
      <4> QED
        BY <4>1, <4>4
    <3> QED
      BY <3>1, <3>5
  <2>4. \A a \in 0..GuardWindow :
          /\ admitted[a] = cur[a] + prev[a] /\ cur[a] \in Nat /\ prev[a] \in Nat
          /\ admitted'[a] = IF a = 0 THEN admitted[a] + 1 ELSE admitted[a]
          /\ Plus(cur)[a] = IF a = 0 THEN cur[a] + 1 ELSE cur[a]
          /\ Plus(prev)[a] = IF a = 0 THEN prev[a] + 1 ELSE prev[a]
    BY <1>0, <1>u, <2>1 DEF Split, BucketTypes
  <2> HIDE DEF Plus
  <2>5. CASE r \notin old
    <3>1. r \in Passing(Clients \ old)
      BY <1>6, <2>1, <2>5 DEF Passing
    <3>2. Cardinality(Passing(Clients \ old)') = Cardinality(Passing(Clients \ old)) - 1
      BY <3>1, <2>1, <1>4
    <3>3. Cardinality(Passing(old)') <= Cardinality(Passing(old))
      BY <2>1, <1>4
    <3>4. /\ SumFunctionOnSet(Plus(cur), 0..GuardWindow) + Cardinality(Passing(Clients \ old)') <= count
          /\ SumFunctionOnSet(Plus(cur), 0..GuardWindow) + Cardinality(Passing(Clients \ old)') <= Limit
      <4>1. /\ SumFunctionOnSet(cur, 0..GuardWindow) + Cardinality(Passing(Clients \ old)) <= count
            /\ SumFunctionOnSet(cur, 0..GuardWindow) + Cardinality(Passing(Clients \ old)) <= Limit
            /\ count \in Nat /\ Limit \in Nat
        BY <1>0, BucketConstants DEF Split, BucketTypes
      <4>2. SumFunctionOnSet(Plus(cur), 0..GuardWindow) = SumFunctionOnSet(cur, 0..GuardWindow) + 1
        BY <2>3, <1>u
      <4> QED
        BY <3>2, <4>1, <4>2, <1>s, <1>p, <1>q
    <3>5. SumFunctionOnSet(prev, 0..GuardWindow - 1) + Cardinality(Passing(old)') <= Limit
      <4>1. SumFunctionOnSet(prev, 0..GuardWindow - 1) + Cardinality(Passing(old)) <= Limit
        BY <1>0 DEF Split
      <4> QED
        BY <3>3, <4>1, <1>s, <1>p, <1>q, BucketConstants
    <3>6. \A a \in 0..GuardWindow : admitted'[a] = Plus(cur)[a] + prev[a]
      BY <2>4
    <3>7. Plus(cur) \in [0..GuardWindow -> Nat]
      BY <2>3, <1>u
    <3>8. Split(Plus(cur), prev, old \ {r})'
      BY <1>0, <2>1, <2>2, <3>4, <3>5, <3>6, <3>7 DEF Split
    <3> QED
      BY <3>8 DEF TwoCounters
  <2>6. CASE r \in old
    <3>1. r \in Passing(old)
      BY <1>u, <1>6, <2>1, <2>6 DEF Passing
    <3>2. Cardinality(Passing(old)') = Cardinality(Passing(old)) - 1
      BY <3>1, <2>1, <1>4
    <3>3. Cardinality(Passing(Clients \ old)') <= Cardinality(Passing(Clients \ old))
      BY <2>1, <1>4
    <3>4. /\ SumFunctionOnSet(cur, 0..GuardWindow) + Cardinality(Passing(Clients \ old)') <= count
          /\ SumFunctionOnSet(cur, 0..GuardWindow) + Cardinality(Passing(Clients \ old)') <= Limit
      <4>1. /\ SumFunctionOnSet(cur, 0..GuardWindow) + Cardinality(Passing(Clients \ old)) <= count
            /\ SumFunctionOnSet(cur, 0..GuardWindow) + Cardinality(Passing(Clients \ old)) <= Limit
            /\ count \in Nat /\ Limit \in Nat
        BY <1>0, BucketConstants DEF Split, BucketTypes
      <4> QED
        BY <3>3, <4>1, <1>s, <1>p, <1>q
    <3>5. SumFunctionOnSet(Plus(prev), 0..GuardWindow - 1) + Cardinality(Passing(old)') <= Limit
      <4>1. SumFunctionOnSet(prev, 0..GuardWindow - 1) + Cardinality(Passing(old)) <= Limit
        BY <1>0 DEF Split
      <4>2. SumFunctionOnSet(Plus(prev), 0..GuardWindow - 1) = SumFunctionOnSet(prev, 0..GuardWindow - 1) + 1
        BY <2>3, <1>u
      <4> QED
        BY <3>2, <4>1, <4>2, <1>s, <1>p, <1>q, BucketConstants
    <3>6. \A a \in 0..GuardWindow : admitted'[a] = cur[a] + Plus(prev)[a]
      BY <2>4
    <3>7. Plus(prev) \in [0..GuardWindow -> Nat]
      BY <2>3, <1>u
    <3>8. ttl' > 0 => \A a \in 0..GuardWindow : ~(a + ttl' < GuardWindow)
      <4>1. ttl' \in {0, GuardWindow}
        BY <1>0, <2>1, <2>6 DEF Split
      <4>2. GuardWindow \in Nat
        BY BucketConstants
      <4>3. CASE ttl' = 0
        BY <4>3
      <4>4. CASE ttl' = GuardWindow
        BY <4>2, <4>4
      <4> QED
        BY <4>1, <4>3, <4>4
    <3>9. Split(cur, Plus(prev), old \ {r})'
      BY <1>0, <2>1, <2>2, <3>4, <3>5, <3>6, <3>7, <3>8 DEF Split
    <3> QED
      BY <3>9 DEF TwoCounters
  <2> QED
    BY <2>5, <2>6
<1>7. ASSUME NEW r \in Clients, Bucket!Decide(r), ~(guardReq[r].count <= Limit)
      PROVE  TwoCounters'
  BY <1>5, <1>7 DEF Bucket!Decide, Bucket!Within
<1>8. ASSUME NEW r \in Clients, Bucket!Crash(r)
      PROVE  TwoCounters'
  BY <1>5, <1>8 DEF Bucket!Crash
<1> QED
  BY <1>1, <1>2, <1>3, <1>6, <1>7, <1>8 DEF Bucket!Next, Bucket!Finish

LEMMA TwoCountersInit ==
  ASSUME Bucket!Init
  PROVE  BucketTypes /\ TwoCounters
<1> DEFINE zero == [a \in 0..GuardWindow |-> 0]
<1>1. BucketTypes
  BY BucketConstants DEF Bucket!Init, BucketTypes, Bucket!Request, Bucket!Idle, Bucket!Ages
<1>2. zero \in [0..GuardWindow -> Nat] /\ \A a \in 0..GuardWindow : zero[a] = 0
  OBVIOUS
<1>3. admitted = zero /\ count = 0 /\ ttl = 0 /\ \A r \in Clients : guardReq[r].pc = "idle"
  BY DEF Bucket!Init, Bucket!Ages, Bucket!Idle
<1> HIDE DEF zero
<1>4. SumFunctionOnSet(zero, 0..GuardWindow) = 0 /\ SumFunctionOnSet(zero, 0..GuardWindow - 1) = 0
  <2>1. \A a \in 0..GuardWindow - 1 : zero[a] = 0
    BY <1>2, BucketConstants
  <2> QED
    BY <1>2, <2>1, BucketConstants, SumOfZeros
<1>5. Passing(Clients \ {}) = {} /\ Passing({}) = {} /\ Cardinality({}) = 0
  BY <1>3, FS_EmptySet DEF Passing
<1>6. Split(zero, zero, {})
  <2>1. \A a \in 0..GuardWindow : admitted[a] = zero[a] + zero[a]
    BY <1>2, <1>3
  <2>2. /\ SumFunctionOnSet(zero, 0..GuardWindow) + Cardinality(Passing(Clients \ {})) <= count
        /\ SumFunctionOnSet(zero, 0..GuardWindow) + Cardinality(Passing(Clients \ {})) <= Limit
        /\ SumFunctionOnSet(zero, 0..GuardWindow - 1) + Cardinality(Passing({})) <= Limit
    <3>1. Cardinality(Passing(Clients \ {})) = 0 /\ Cardinality(Passing({})) = 0
      BY <1>5
    <3> QED
      BY <1>3, <1>4, <3>1, BucketConstants
  <2> QED
    BY <1>2, <1>3, <2>1, <2>2 DEF Split
<1> QED
  BY <1>1, <1>6 DEF TwoCounters

-----------------------------------------------------------------------------
(* The codes sent to a phone                                                *)

LEMMA CodesLibraries ==
  /\ \A S : Codes!IsFiniteSet(S) <=> IsFiniteSet(S)
  /\ \A S : Codes!Cardinality(S) = Cardinality(S)
  /\ \A f, S : Codes!SumFunctionOnSet(f, S) = SumFunctionOnSet(f, S)
<1>1. \A S : Codes!IsFiniteSet(S) <=> IsFiniteSet(S)
  BY DEF Codes!IsFiniteSet, IsFiniteSet
<1>2. \A S : Codes!Cardinality(S) = Cardinality(S)
  BY DEF Codes!Cardinality, Cardinality
<1>3. \A f, S : Codes!SumFunctionOnSet(f, S) = SumFunctionOnSet(f, S)
  BY DEF Codes!SumFunctionOnSet, Codes!FoldFunctionOnSet, Codes!MapThenFoldSet,
         SumFunctionOnSet, FoldFunctionOnSet, MapThenFoldSet
<1> QED
  BY <1>1, <1>2, <1>3

LEMMA CodesConstants ==
  /\ IsFiniteSet(Phones) /\ Cardinality(Phones) \in Nat
  /\ Hour \in Nat \ {0} /\ Day \in Nat \ {0} /\ Hour <= Day
  /\ HourlyMax \in Nat \ {0} /\ DailyMax \in Nat \ {0}
  /\ MaxDelay \in Nat /\ MaxCodesPerTick \in Nat
<1>1. IsFiniteSet(Phones)
  BY ConstantsAreSensible, CodesLibraries DEF Codes!Sensible
<1> QED
  BY <1>1, ConstantsAreSensible, FS_CardinalityType DEF Codes!Sensible

LEMMA CodesTypeStep ==
  ASSUME Codes!TypeOK, Codes!Next
  PROVE  Codes!TypeOK'
<1> USE CodesConstants DEF Codes!TypeOK, Codes!Request, Codes!Ages
<1>1. CASE Codes!Tick
  <2>1. /\ open' \in [Codes!Ages -> 0..MaxCodesPerTick]
        /\ spent' \in [Codes!Ages -> 0..MaxCodesPerTick]
    <3>1. ASSUME NEW f \in [Codes!Ages -> 0..MaxCodesPerTick]
          PROVE  Codes!Aged(f) \in [Codes!Ages -> 0..MaxCodesPerTick]
      <4>1. \A a \in Codes!Ages : (IF a = 0 THEN 0 ELSE f[a - 1]) \in 0..MaxCodesPerTick
        OBVIOUS
      <4> QED
        BY <4>1 DEF Codes!Aged
    <3>2. open' = Codes!Aged(open) /\ spent' = Codes!Aged(spent)
      BY <1>1 DEF Codes!Tick
    <3> QED
      BY <3>1, <3>2
  <2>2. codeReq' \in [Phones -> Codes!Request]
    BY <1>1 DEF Codes!Tick
  <2> QED
    BY <2>1, <2>2
<1>2. ASSUME NEW r \in Phones, Codes!PassCooldown(r) \/ Codes!PassActive(r) \/ Codes!PassCaps(r)
      PROVE  Codes!TypeOK'
  <2>1. PICK pc \in {"active", "caps", "create"} : Codes!Goto(r, pc) /\ UNCHANGED <<open, spent>>
    BY <1>2 DEF Codes!PassCooldown, Codes!PassActive, Codes!PassCaps
  <2> QED
    BY <2>1 DEF Codes!Goto
<1>3. ASSUME NEW r \in Phones, Codes!RefuseCooldown(r)
      PROVE  Codes!TypeOK'
  BY <1>3 DEF Codes!RefuseCooldown, Codes!vars
<1>4. ASSUME NEW r \in Phones, Codes!RefuseActive(r) \/ Codes!RefuseCaps(r) \/ Codes!Fail(r)
      PROVE  Codes!TypeOK'
  <2>1. Codes!Done(r) /\ UNCHANGED <<open, spent>>
    BY <1>4 DEF Codes!RefuseActive, Codes!RefuseCaps, Codes!Fail
  <2> QED
    BY <2>1 DEF Codes!Done, Codes!Idle
<1>5. ASSUME NEW r \in Phones, Codes!Create(r)
      PROVE  Codes!TypeOK'
  <2>1. open' \in [Codes!Ages -> 0..MaxCodesPerTick]
    <3>1. 0 \in Codes!Ages /\ open[0] + 1 \in 0..MaxCodesPerTick
      BY <1>5 DEF Codes!Create
    <3> QED
      BY <1>5, <3>1 DEF Codes!Create
  <2>2. codeReq' \in [Phones -> Codes!Request] /\ spent' = spent
    BY <1>5 DEF Codes!Create, Codes!Done, Codes!Idle
  <2> QED
    BY <2>1, <2>2
<1>6. ASSUME NEW a \in Codes!Ages, Codes!Consume(a)
      PROVE  Codes!TypeOK'
  <2>1. open[a] - 1 \in 0..MaxCodesPerTick /\ spent[a] + 1 \in 0..MaxCodesPerTick
    BY <1>6 DEF Codes!Consume
  <2> QED
    BY <1>6, <2>1 DEF Codes!Consume
<1> QED
  BY <1>1, <1>2, <1>3, <1>4, <1>5, <1>6 DEF Codes!Next, Codes!Work

\* The codes of each tick, and the requests about to create one.
Rows == [a \in Codes!Ages |-> open[a] + spent[a]]
Creating == {r \in Phones : codeReq[r].pc = "create"}

\* The codes of the last w ticks and those about to be created, against a limit.
Within(w, limit) ==
  SumFunctionOnSet(Rows, 0..w) + Cardinality(Creating) < limit + Cardinality(Phones)

CodesCounts ==
  /\ \A a \in 0..Day + MaxDelay : Rows[a] = open[a] + spent[a] /\ Rows[a] \in Nat
  /\ \A w \in 0..Day, d \in 0..MaxDelay : Codes!Sent(w, d) = SumFunctionOnSet(Rows, 0..w + d)
  /\ \A w \in 0..Day + MaxDelay : SumFunctionOnSet(Rows, 0..w) \in Nat
  /\ IsFiniteSet(Creating) /\ Cardinality(Creating) \in Nat
  /\ SendsBounded <=> Within(Hour, HourlyMax) /\ Within(Day, DailyMax)

LEMMA CodesView == Codes!TypeOK => CodesCounts
<1> SUFFICES ASSUME Codes!TypeOK PROVE CodesCounts
  OBVIOUS
<1>1. \A a \in 0..Day + MaxDelay : Rows[a] = open[a] + spent[a] /\ Rows[a] \in Nat
  BY CodesConstants DEF Codes!TypeOK, Codes!Ages, Rows
<1>2. \A w \in 0..Day, d \in 0..MaxDelay : Codes!Sent(w, d) = SumFunctionOnSet(Rows, 0..w + d)
  BY CodesLibraries DEF Codes!Sent, Rows
<1>3. ASSUME NEW w \in 0..Day + MaxDelay
      PROVE  SumFunctionOnSet(Rows, 0..w) \in Nat
  <2>1. IsFiniteSet(0..w) /\ \A a \in 0..w : Rows[a] \in Nat
    BY <1>1, CodesConstants, FS_Interval
  <2> QED
    BY <2>1, SumIsNat
<1>4. IsFiniteSet(Creating) /\ Cardinality(Creating) \in Nat
  BY CodesConstants, OneIsNotIn DEF Creating
<1>5. SendsBounded <=> Within(Hour, HourlyMax) /\ Within(Day, DailyMax)
  <2>1. Codes!Sent(Hour, 0) = SumFunctionOnSet(Rows, 0..Hour)
    BY <1>2, CodesConstants
  <2>2. Codes!Sent(Day, 0) = SumFunctionOnSet(Rows, 0..Day)
    BY <1>2, CodesConstants
  <2>3. Codes!Creating = Cardinality(Creating)
    BY CodesLibraries DEF Codes!Creating, Creating
  <2> QED
    BY <2>1, <2>2, <2>3, CodesLibraries DEF SendsBounded, Codes!SendsBounded, Within
<1> QED
  BY <1>1, <1>2, <1>3, <1>4, <1>5 DEF CodesCounts

LEMMA CodesViewNext == Codes!TypeOK' => CodesCounts'
BY CodesView, PTL

\* One limit: the step that decides to create a code found fewer than it allows.
LEMMA OneLimitStep ==
  ASSUME Codes!TypeOK, Codes!Next,
         NEW w \in 0..Day, NEW limit \in Nat \ {0}, Within(w, limit),
         \A r \in Phones : Codes!PassCaps(r) => SumFunctionOnSet(Rows, 0..w) < limit
  PROVE  Within(w, limit)'
<1>0. Codes!TypeOK'
  BY CodesTypeStep
<1>u. CodesCounts
  BY CodesView
<1>v. CodesCounts'
  BY <1>0, CodesViewNext
<1>s. w \in 0..Day + MaxDelay /\ IsFiniteSet(0..w)
  BY CodesConstants, FS_Interval
<1>n. /\ SumFunctionOnSet(Rows, 0..w) \in Nat /\ SumFunctionOnSet(Rows', 0..w) \in Nat
      /\ Cardinality(Creating) \in Nat /\ Cardinality(Creating') \in Nat
      /\ Cardinality(Phones) \in Nat
  BY <1>u, <1>v, <1>s, CodesConstants DEF CodesCounts
<1>c. Creating \subseteq Phones
  BY DEF Creating
<1> USE DEF Within, Codes!TypeOK
\* Nothing is created and no request decides to create.
<1>1. ASSUME UNCHANGED <<open, spent>>, Creating' \subseteq Creating
      PROVE  Within(w, limit)'
  <2>1. Rows' = Rows
    BY <1>1 DEF Rows
  <2>2. Cardinality(Creating') <= Cardinality(Creating)
    BY <1>1, <1>u, FS_Subset DEF CodesCounts
  <2> QED
    BY <2>1, <2>2, <1>n
<1>2. CASE Codes!Tick
  <2>1. \A a \in 0..w : Rows'[a] = IF a = 0 THEN 0 ELSE Rows[a - 1]
    <3> SUFFICES ASSUME NEW a \in 0..w
                 PROVE  Rows'[a] = IF a = 0 THEN 0 ELSE Rows[a - 1]
      OBVIOUS
    <3>1. a \in 0..Day + MaxDelay /\ (a # 0 => a - 1 \in 0..Day + MaxDelay)
      BY CodesConstants
    <3>2. Rows'[a] = open'[a] + spent'[a]
      BY <3>1, <1>v DEF CodesCounts
    <3>3. a # 0 => Rows[a - 1] = open[a - 1] + spent[a - 1]
      BY <3>1, <1>u DEF CodesCounts
    <3>4. /\ open'[a] = IF a = 0 THEN 0 ELSE open[a - 1]
          /\ spent'[a] = IF a = 0 THEN 0 ELSE spent[a - 1]
      BY <1>2, <3>1 DEF Codes!Tick, Codes!Aged, Codes!Ages
    <3> QED
      BY <3>2, <3>3, <3>4
  <2>2. \A a \in 0..w : Rows[a] \in Nat
    BY <1>u, CodesConstants DEF CodesCounts
  <2>n. w \in Nat /\ w - 1 \in Int /\ w - 1 <= w
    BY CodesConstants
  <2>3. SumFunctionOnSet(Rows', 0..w) = SumFunctionOnSet(Rows, 0..w - 1)
    BY ONLY <2>n, <2>1, <2>2, SumAged
  <2>4. SumFunctionOnSet(Rows, 0..w - 1) <= SumFunctionOnSet(Rows, 0..w)
    BY ONLY <2>n, <2>2, SumOfFewer
  <2>5. Creating' = Creating
    BY <1>2 DEF Codes!Tick, Creating, Codes!Request
  <2> QED
    BY <2>3, <2>4, <2>5, <1>n
<1>3. ASSUME NEW r \in Phones, Codes!PassCooldown(r) \/ Codes!PassActive(r)
      PROVE  Within(w, limit)'
  <2>1. PICK pc \in {"active", "caps"} : Codes!Goto(r, pc) /\ UNCHANGED <<open, spent>>
    BY <1>3 DEF Codes!PassCooldown, Codes!PassActive
  <2>2. Creating' \subseteq Creating
    BY <2>1 DEF Codes!Goto, Creating
  <2> QED
    BY <1>1, <2>1, <2>2
<1>4. ASSUME NEW r \in Phones, Codes!RefuseCooldown(r)
      PROVE  Within(w, limit)'
  BY <1>1, <1>4 DEF Codes!RefuseCooldown, Codes!vars, Creating
<1>5. ASSUME NEW r \in Phones, Codes!RefuseActive(r) \/ Codes!RefuseCaps(r) \/ Codes!Fail(r)
      PROVE  Within(w, limit)'
  <2>1. Codes!Done(r) /\ UNCHANGED <<open, spent>>
    BY <1>5 DEF Codes!RefuseActive, Codes!RefuseCaps, Codes!Fail
  <2>2. Creating' \subseteq Creating
    BY <2>1 DEF Codes!Done, Codes!Idle, Creating
  <2> QED
    BY <1>1, <2>1, <2>2
<1>6. ASSUME NEW r \in Phones, Codes!PassCaps(r)
      PROVE  Within(w, limit)'
  <2>1. Rows' = Rows
    BY <1>6 DEF Codes!PassCaps, Rows
  <2>2. r \notin Creating /\ Creating' = Creating \cup {r}
    BY <1>6 DEF Codes!PassCaps, Codes!Goto, Creating
  <2>3. Cardinality(Creating') = Cardinality(Creating) + 1 /\ Cardinality(Creating) + 1 <= Cardinality(Phones)
    BY <2>2, <1>c, CodesConstants, OneIsNotIn
  <2>4. SumFunctionOnSet(Rows, 0..w) < limit
    BY <1>6
  <2> QED
    BY <2>1, <2>3, <2>4, <1>n
<1>7. ASSUME NEW r \in Phones, Codes!Create(r)
      PROVE  Within(w, limit)'
  <2>1. r \in Creating /\ Creating' = Creating \ {r}
    BY <1>7 DEF Codes!Create, Codes!Done, Codes!Idle, Creating
  <2>2. Cardinality(Creating') = Cardinality(Creating) - 1
    BY <2>1, <1>c, CodesConstants, OneIsNotIn
  <2>n. w \in Nat /\ 0 \in 0..w
    BY CodesConstants
  <2>3. Rows'[0] = Rows[0] + 1 /\ \A a \in (0..w) \ {0} : Rows'[a] = Rows[a]
    <3>1. open' = [open EXCEPT ![0] = @ + 1] /\ spent' = spent
      BY <1>7 DEF Codes!Create
    <3>2. ASSUME NEW a \in 0..w
          PROVE  Rows'[a] = IF a = 0 THEN Rows[a] + 1 ELSE Rows[a]
      <4>1. a \in 0..Day + MaxDelay
        BY CodesConstants
      <4>2. Rows[a] = open[a] + spent[a] /\ Rows'[a] = open'[a] + spent'[a]
        BY <4>1, <1>u, <1>v DEF CodesCounts
      <4>3. open[a] \in Nat /\ spent[a] \in Nat
        BY <4>1, CodesConstants DEF Codes!Ages
      <4>4. open'[a] = IF a = 0 THEN open[a] + 1 ELSE open[a]
        BY <3>1, <4>1 DEF Codes!Ages
      <4> QED
        BY <3>1, <4>2, <4>3, <4>4
    <3> QED
      BY <3>2, <2>n
  <2>4. SumFunctionOnSet(Rows', 0..w) = SumFunctionOnSet(Rows, 0..w) + 1
    <3>1. 0 \in 0..w /\ \A a \in 0..w : Rows[a] \in Nat
      BY <1>u, CodesConstants DEF CodesCounts
    <3> QED
      BY <2>3, <3>1, <1>s, SumRaised
  <2> QED
    BY <2>2, <2>4, <1>n
<1>8. ASSUME NEW a \in Codes!Ages, Codes!Consume(a)
      PROVE  Within(w, limit)'
  <2>1. Rows' = Rows
    <3>1. \A b \in Codes!Ages : open'[b] + spent'[b] = open[b] + spent[b]
      BY <1>8, CodesConstants DEF Codes!Consume, Codes!Ages
    <3> QED
      BY <3>1 DEF Rows
  <2>2. Creating' = Creating
    BY <1>8 DEF Codes!Consume, Creating
  <2> QED
    BY <2>1, <2>2
<1> QED
  BY <1>2, <1>3, <1>4, <1>5, <1>6, <1>7, <1>8 DEF Codes!Next, Codes!Work

LEMMA SendsBoundedStep ==
  ASSUME Codes!TypeOK, SendsBounded, Codes!Next
  PROVE  SendsBounded'
<1>0. CodesCounts /\ CodesCounts'
  BY CodesTypeStep, CodesView, CodesViewNext
<1>1. ASSUME NEW r \in Phones, Codes!PassCaps(r)
      PROVE  /\ SumFunctionOnSet(Rows, 0..Hour) < HourlyMax
             /\ SumFunctionOnSet(Rows, 0..Day) < DailyMax
  <2> DEFINE d == codeReq[r].age
  <2>1. d \in 0..MaxDelay
    BY DEF Codes!TypeOK, Codes!Request
  <2>2. ~(Codes!Sent(Hour, d) >= HourlyMax) /\ ~(Codes!Sent(Day, d) >= DailyMax)
    BY <1>1 DEF Codes!PassCaps, Codes!OverCap
  <2> HIDE DEF d
  <2>3. ASSUME NEW w \in 0..Day
        PROVE  /\ Codes!Sent(w, d) \in Nat /\ SumFunctionOnSet(Rows, 0..w) \in Nat
               /\ SumFunctionOnSet(Rows, 0..w) <= Codes!Sent(w, d)
    <3>1. w + d \in 0..Day + MaxDelay /\ w \in 0..Day + MaxDelay /\ w <= w + d
      BY <2>1, CodesConstants
    <3>2. ASSUME NEW a \in 0..w + d
          PROVE  Rows[a] \in Nat
      <4>1. a \in 0..Day + MaxDelay
        BY <3>1, CodesConstants
      <4> QED
        BY <4>1, <1>0 DEF CodesCounts
    <3>3. SumFunctionOnSet(Rows, 0..w) <= SumFunctionOnSet(Rows, 0..w + d)
      BY <3>1, <3>2, SumOfFewer
    <3> QED
      BY <2>1, <3>1, <3>3, <1>0 DEF CodesCounts
  <2> QED
    BY <2>2, <2>3, CodesConstants
<1>2. Within(Hour, HourlyMax)'
  BY <1>0, <1>1, CodesConstants, OneLimitStep DEF CodesCounts
<1>3. Within(Day, DailyMax)'
  BY <1>0, <1>1, CodesConstants, OneLimitStep DEF CodesCounts
<1> QED
  BY <1>0, <1>2, <1>3 DEF CodesCounts

-----------------------------------------------------------------------------
(* The four side by side                                                    *)

BucketInv ==
  BucketTypes /\ TwoCounters /\ \A a \in 0..GuardWindow : admitted[a] <= 2 * Limit

\* The strengthening of the five invariants.
LimitsInv ==
  /\ Staff!TypeOK /\ StaffOvershootBounded
  /\ Customer!TypeOK /\ CustomerLockInv
  /\ BucketInv
  /\ Codes!TypeOK /\ SendsBounded

LEMMA LimitsInit == Init => LimitsInv
<1> SUFFICES ASSUME Init PROVE LimitsInv
  OBVIOUS
<1>1. Staff!Init /\ Customer!Init /\ Bucket!Init /\ Codes!Init
  BY DEF Init
<1>2. Staff!TypeOK
  BY <1>1, StaffConstants
  DEF Staff!Init, Staff!TypeOK, Staff!None, Staff!Ages, Staff!Eviction, Staff!Request, Staff!Idle
<1>3. StaffOvershootBounded
  <2>1. StaffCounts
    BY <1>2, StaffView
  <2>2. \A a \in 0..StaffWindow : staffFails[a] = 0
    BY <1>1 DEF Staff!Init, Staff!None, Staff!Ages
  <2>3. Staff!Count = 0
    BY <2>1, <2>2, StaffConstants, SumOfZeros DEF StaffCounts
  <2>4. Adding = {}
    BY <1>1 DEF Staff!Init, Staff!Idle, Adding
  <2>5. Cardinality(Adding) = 0
    BY <2>4, FS_EmptySet
  <2> QED
    BY <2>1, <2>3, <2>5, StaffConstants DEF StaffCounts
<1>4. Customer!TypeOK
  BY <1>1, CustomerConstants
  DEF Customer!Init, Customer!TypeOK, Customer!None, Customer!Ages, Customer!Request,
      Customer!Recorded, Customer!Idle, Customer!LockTtl
<1>5. CustomerLockInv
  <2>1. (\A a \in 0..CustomerWindow : failures[a] = 0) /\ lost = 0
    BY <1>1, CustomerConstants DEF Customer!Init, Customer!None, Customer!Ages
  <2>2. Failures = 0
    BY <2>1, CustomerConstants, SumOfZeros DEF Failures
  <2>5. Fresh = 0
    <3>1. \A a \in 0..CustomerWindow : SinceLock[a] = 0
      BY <2>1 DEF SinceLock
    <3> QED
      BY <3>1, CustomerConstants, SumOfZeros DEF Fresh
  <2>3. Attempting = {} /\ Recording = {}
    BY <1>1 DEF Customer!Init, Customer!Idle, Customer!Recorded, Attempting, Recording
  <2>4. Cardinality(Attempting) = 0 /\ Cardinality(Recording) = 0
    BY <2>3, FS_EmptySet
  <2> QED
    BY <2>1, <2>2, <2>4, <2>5, CustomerConstants DEF CustomerLockInv
<1>6. BucketTypes /\ TwoCounters
  BY <1>1, TwoCountersInit
<1>7. \A a \in 0..GuardWindow : admitted[a] <= 2 * Limit
  BY <1>1, BucketConstants DEF Bucket!Init, Bucket!Ages
<1>8. Codes!TypeOK
  BY <1>1, CodesConstants
  DEF Codes!Init, Codes!TypeOK, Codes!None, Codes!Ages, Codes!Request, Codes!Idle
<1>9. SendsBounded
  <2>1. CodesCounts
    BY <1>8, CodesView
  <2>2. Creating = {}
    BY <1>1 DEF Codes!Init, Codes!Idle, Creating
  <2>3. Cardinality(Creating) = 0
    BY <2>2, FS_EmptySet
  <2>4. ASSUME NEW w \in 0..Day
        PROVE  SumFunctionOnSet(Rows, 0..w) = 0
    <3>1. ASSUME NEW a \in 0..w
          PROVE  Rows[a] = 0
      <4>1. a \in 0..Day + MaxDelay
        BY CodesConstants
      <4>2. open[a] = 0 /\ spent[a] = 0
        BY <1>1, <4>1 DEF Codes!Init, Codes!None, Codes!Ages
      <4> QED
        BY <2>1, <4>1, <4>2 DEF CodesCounts
    <3>2. IsFiniteSet(0..w)
      BY CodesConstants, FS_Interval
    <3> QED
      BY <3>1, <3>2, SumOfZeros
  <2>5. Within(Hour, HourlyMax) /\ Within(Day, DailyMax)
    BY <2>3, <2>4, CodesConstants DEF Within
  <2> QED
    BY <2>1, <2>5 DEF CodesCounts
<1> QED
  BY <1>2, <1>3, <1>4, <1>5, <1>6, <1>7, <1>8, <1>9 DEF LimitsInv, BucketInv

\* What one component has no part in stays as it is.
LEMMA StaffStays ==
  Staff!TypeOK /\ StaffOvershootBounded /\ UNCHANGED staff
    => Staff!TypeOK' /\ StaffOvershootBounded'
BY DEF staff, Staff!TypeOK, StaffOvershootBounded, Staff!OvershootBounded, Staff!Count

LEMMA CustomerStays ==
  Customer!TypeOK /\ CustomerLockInv /\ UNCHANGED customer
    => Customer!TypeOK' /\ CustomerLockInv'
BY DEF customer, Customer!TypeOK, CustomerLockInv, Failures, Fresh, SinceLock, Attempting,
       Recording

LEMMA BucketStays == BucketInv /\ UNCHANGED bucket => BucketInv'
<1> SUFFICES ASSUME BucketInv, UNCHANGED bucket PROVE BucketInv'
  OBVIOUS
<1>1. count' = count /\ ttl' = ttl /\ admitted' = admitted /\ guardReq' = guardReq
  BY DEF bucket
<1>2. PICK cur, prev, old : Split(cur, prev, old)
  BY DEF BucketInv, TwoCounters
<1>3. Passing(Clients \ old)' = Passing(Clients \ old) /\ Passing(old)' = Passing(old)
  BY <1>1 DEF Passing
<1>4. Split(cur, prev, old)'
  BY <1>1, <1>2, <1>3 DEF Split
<1>5. TwoCounters'
  BY <1>4 DEF TwoCounters
<1> QED
  BY <1>1, <1>5 DEF BucketInv, BucketTypes

LEMMA CodesStay ==
  Codes!TypeOK /\ SendsBounded /\ UNCHANGED codes => Codes!TypeOK' /\ SendsBounded'
BY DEF codes, Codes!TypeOK, SendsBounded, Codes!SendsBounded, Codes!Sent, Codes!Creating

RecentBounded == \A a \in 0..GuardWindow - 1 : admitted[a] <= 2 * Limit

LEMMA RecentIsBounded == BucketTypes /\ TwoCounters => RecentBounded
BY SplitBounds DEF RecentBounded

LEMMA RecentIsBoundedNext == BucketTypes' /\ TwoCounters' => RecentBounded'
BY RecentIsBounded, PTL

LEMMA BucketStep ==
  ASSUME BucketInv, Bucket!Next
  PROVE  BucketInv'
<1>1. BucketTypes' /\ TwoCounters'
  BY BucketTypesStep, TwoCountersStep DEF BucketInv
<1>2. \A a \in 0..GuardWindow - 1 : admitted'[a] <= 2 * Limit
  BY <1>1, RecentIsBoundedNext DEF RecentBounded
<1>3. admitted'[GuardWindow] <= 2 * Limit
  <2>1. /\ admitted'[GuardWindow] = admitted[GuardWindow] \/ admitted'[GuardWindow] = admitted[GuardWindow - 1]
        /\ GuardWindow \in 0..GuardWindow /\ GuardWindow - 1 \in 0..GuardWindow
    BY BucketConstants
    DEF BucketInv, BucketTypes, Bucket!Next, Bucket!Tick, Bucket!Incr, Bucket!Finish,
        Bucket!Expire, Bucket!Decide, Bucket!Crash, Bucket!Ages
  <2> QED
    BY <2>1 DEF BucketInv
<1>4. \A a \in 0..GuardWindow : a = GuardWindow \/ a \in 0..GuardWindow - 1
  BY BucketConstants
<1> QED
  BY <1>1, <1>2, <1>3, <1>4 DEF BucketInv

LEMMA LimitsStep == LimitsInv /\ [Next]_vars => LimitsInv'
<1> SUFFICES ASSUME LimitsInv, [Next]_vars PROVE LimitsInv'
  OBVIOUS
<1> USE DEF LimitsInv
<1>1. CASE OfStaff(Staff!Next)
  <2>1. Staff!Next /\ UNCHANGED customer /\ UNCHANGED bucket /\ UNCHANGED codes
    BY <1>1 DEF OfStaff
  <2> QED
    BY <2>1, StaffTypeStep, StaffOvershootStep, CustomerStays, BucketStays, CodesStay
<1>2. CASE OfCustomer(Customer!Next)
  <2>1. Customer!Next /\ UNCHANGED staff /\ UNCHANGED bucket /\ UNCHANGED codes
    BY <1>2 DEF OfCustomer
  <2> QED
    BY <2>1, CustomerTypeStep, CustomerLockStep, StaffStays, BucketStays, CodesStay
<1>3. CASE OfBucket(Bucket!Next)
  <2>1. Bucket!Next /\ UNCHANGED staff /\ UNCHANGED customer /\ UNCHANGED codes
    BY <1>3 DEF OfBucket
  <2> QED
    BY <2>1, BucketStep, StaffStays, CustomerStays, CodesStay
<1>4. CASE OfCodes(Codes!Next)
  <2>1. Codes!Next /\ UNCHANGED staff /\ UNCHANGED customer /\ UNCHANGED bucket
    BY <1>4 DEF OfCodes
  <2> QED
    BY <2>1, CodesTypeStep, SendsBoundedStep, StaffStays, CustomerStays, BucketStays
<1>5. CASE UNCHANGED vars
  <2>1. UNCHANGED staff /\ UNCHANGED customer /\ UNCHANGED bucket /\ UNCHANGED codes
    BY <1>5 DEF vars
  <2> QED
    BY <2>1, StaffStays, CustomerStays, BucketStays, CodesStay
<1> QED
  BY <1>1, <1>2, <1>3, <1>4, <1>5 DEF Next

LEMMA LimitsInvariant == Spec => []LimitsInv
<1>1. Init => LimitsInv
  BY LimitsInit
<1>2. LimitsInv /\ [Next]_vars => LimitsInv'
  BY LimitsStep
<1> QED
  BY <1>1, <1>2, PTL DEF Spec

\* Counts, ages, locks and clocks stay in range: in particular no tick lets through
\* more than two windows' worth.
THEOREM LimitsTypes == Spec => []TypeOK
<1>1. LimitsInv => TypeOK
  <2> SUFFICES ASSUME LimitsInv PROVE Bucket!TypeOK
    BY DEF LimitsInv, TypeOK
  <2>1. BucketTypes /\ \A a \in 0..GuardWindow : admitted[a] <= 2 * Limit
    BY DEF LimitsInv, BucketInv
  <2>2. admitted \in [0..GuardWindow -> 0..2 * Limit]
    <3>1. \A a \in 0..GuardWindow : admitted[a] \in 0..2 * Limit
      BY <2>1, BucketConstants DEF BucketTypes
    <3> QED
      BY <2>1, <3>1 DEF BucketTypes
  <2> QED
    BY <2>1, <2>2 DEF BucketTypes, Bucket!TypeOK, Bucket!Ages
<1> QED
  BY <1>1, LimitsInvariant, PTL

\* LockoutService.recordFailure: whatever sign-ins race the count, the failures of the
\* window pass the threshold by one for each of them at most.
THEOREM StaffOvershootIsBounded == Spec => []StaffOvershootBounded
<1>1. LimitsInv => StaffOvershootBounded
  BY DEF LimitsInv
<1> QED
  BY <1>1, LimitsInvariant, PTL

\* CustomerLoginLockoutService: however sign-ins interleave with the lock, the expiry of
\* either key and a clear, and whatever commands are lost, the failures of a window stay
\* below the limit plus the sign-ins and those that died before they acted on the count.
THEOREM CustomerFailuresAreBounded == Spec => []CustomerFailuresBounded
<1>1. LimitsInv => CustomerFailuresBounded
  BY CustomerBound DEF LimitsInv
<1> QED
  BY <1>1, LimitsInvariant, PTL

\* MobileRateLimitGuard: whatever requests race the expiry or die before it is set, any
\* window lets through two limits at most.
THEOREM NoMoreThanTwice == Spec => []TwiceTheLimit
<1>1. LimitsInv => TwiceTheLimit
  BY SplitBounds DEF LimitsInv, BucketInv
<1> QED
  BY <1>1, LimitsInvariant, PTL

\* CustomerOtpService.issue: the codes of an hour and of a day pass their limits by one
\* for each concurrent request at most.
THEOREM SendsAreBounded == Spec => []SendsBounded
<1>1. LimitsInv => SendsBounded
  BY DEF LimitsInv
<1> QED
  BY <1>1, LimitsInvariant, PTL
=============================================================================
