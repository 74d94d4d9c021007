---------------------------- MODULE Sums_proofs -----------------------------
(***************************************************************************)
(* Sums over finite sets, as the balances, scores and ratings need them:   *)
(* SumFunctionOnSet(f, S) does not depend on the order it takes S in.      *)
(*                                                                         *)
(* It is defined by recursion, in an order that CHOOSE picks.  Induction   *)
(* here is the search for a smallest counterexample: a set of subsets of a *)
(* finite set, if it is not empty, has one that contains no other          *)
(* (SmallestSet, from the library's theorem on well-founded relations).    *)
(* The first half shows that the recursion has a solution; the second what *)
(* follows when one element, or one value, changes.                        *)
(***************************************************************************)
EXTENDS FiniteSetsExt, FiniteSetTheorems, WellFoundedInduction, TLAPS

(* A family of subsets of a finite set has a member that contains no other. *)
LEMMA SmallestSet ==
  ASSUME NEW S, IsFiniteSet(S), NEW B \in SUBSET (SUBSET S), B # {}
  PROVE  \E T \in B : \A U \in B : U \subseteq T => U = T
<1>1. IsWellFoundedOn(StrictSubsetOrdering(S), SUBSET S)
  BY FS_FiniteSubsetsOfFinite, FS_StrictSubsetOrderingWellFounded
<1>2. PICK T \in B : \A U \in B : <<U, T>> \notin StrictSubsetOrdering(S)
  BY <1>1, WFMin
<1> QED
  BY <1>2 DEF StrictSubsetOrdering

-----------------------------------------------------------------------------
(* The recursion that defines the sum, as an equation on functions of the  *)
(* subsets.                                                                *)
First(s) == CHOOSE x \in s : TRUE
SumStep(f, g, s) == IF s = {} THEN 0 ELSE f[First(s)] + g[s \ {First(s)}]
IsSum(f, S, g) == g = [s \in SUBSET S |-> SumStep(f, g, s)]
SumOver(f, S) == CHOOSE g : IsSum(f, S, g)

(* The community module's sum is a solution of that equation, if it has any. *)
LEMMA SumIsChosen ==
  ASSUME NEW f, NEW S
  PROVE  SumFunctionOnSet(f, S) = SumOver(f, S)[S]
BY DEF SumFunctionOnSet, FoldFunctionOnSet, MapThenFoldSet, SumOver, IsSum, SumStep,
       First

(* The element taken is one of the set. *)
LEMMA FirstIn == ASSUME NEW s, s # {} PROVE First(s) \in s
BY DEF First

(* Two solutions, over different sets, agree where both are defined. *)
LEMMA SumsAgree ==
  ASSUME NEW f, NEW S, NEW T, IsFiniteSet(S), NEW g, IsSum(f, S, g),
         NEW h, IsSum(f, T, h), NEW U \in SUBSET (S \cap T)
  PROVE  g[U] = h[U]
<1> DEFINE B == {V \in SUBSET S : V \subseteq T /\ g[V] # h[V]}
<1> SUFFICES ASSUME B # {} PROVE FALSE
  OBVIOUS
<1>1. PICK V \in B : \A W \in B : W \subseteq V => W = V
  <2>1. B \in SUBSET (SUBSET S)
    OBVIOUS
  <2> HIDE DEF B
  <2> QED
    BY <2>1, SmallestSet
<1>2. g[V] = SumStep(f, g, V) /\ h[V] = SumStep(f, h, V)
  BY DEF IsSum
<1>3. V # {}
  BY <1>2 DEF SumStep
<1>4. V \ {First(V)} \notin B
  BY <1>1, <1>3, FirstIn
<1>5. g[V \ {First(V)}] = h[V \ {First(V)}]
  BY <1>4
<1> QED
  BY <1>2, <1>5 DEF SumStep

(* The equation has a solution: over a smallest set without one, those of the *)
(* smaller sets make one.                                                    *)
LEMMA SumExists ==
  ASSUME NEW f, NEW S, IsFiniteSet(S)
  PROVE  IsSum(f, S, SumOver(f, S))
<1> DEFINE B == {T \in SUBSET S : ~\E g : IsSum(f, T, g)}
<1>1. ASSUME B # {} PROVE FALSE
  <2>1. PICK T \in B : \A U \in B : U \subseteq T => U = T
    <3>1. B \in SUBSET (SUBSET S)
      OBVIOUS
    <3> HIDE DEF B
    <3> QED
      BY <1>1, <3>1, SmallestSet
  <2>2. \A U \in SUBSET T : U # T => IsSum(f, U, SumOver(f, U))
    BY <2>1 DEF SumOver
  <2> DEFINE d == [U \in SUBSET T |-> SumOver(f, U)[U]]
             g == [U \in SUBSET T |-> SumStep(f, d, U)]
  <2>3. ASSUME NEW U \in SUBSET T, U # T PROVE d[U] = SumStep(f, d, U)
    <3> DEFINE h == SumOver(f, U)
    <3>1. IsSum(f, U, h)
      BY <2>2, <2>3
    <3>2. h[U] = SumStep(f, h, U)
      BY <3>1 DEF IsSum
    <3>3. CASE U = {}
      BY <3>2, <3>3 DEF SumStep
    <3>4. CASE U # {}
      <4> DEFINE V == U \ {First(U)}
      <4>1. V \in SUBSET U /\ V # U
        BY <3>4, FirstIn
      <4>2. IsSum(f, V, SumOver(f, V))
        BY <2>2, <4>1
      <4>3. IsFiniteSet(U)
        BY FS_Subset
      <4>4. h[V] = SumOver(f, V)[V]
        BY <3>1, <4>1, <4>2, <4>3, SumsAgree
      <4> QED
        BY <3>2, <3>4, <4>1, <4>4 DEF SumStep
    <3> QED
      BY <3>3, <3>4
  <2>4. \A U \in SUBSET T : SumStep(f, d, U) = SumStep(f, g, U)
    <3> SUFFICES ASSUME NEW U \in SUBSET T, U # {}
                 PROVE  d[U \ {First(U)}] = g[U \ {First(U)}]
      BY DEF SumStep
    <3>1. U \ {First(U)} \in SUBSET T /\ U \ {First(U)} # T
      BY FirstIn
    <3> QED
      BY <2>3, <3>1
  <2>5. IsSum(f, T, g)
    BY <2>4 DEF IsSum
  <2> QED
    BY <2>1, <2>5
<1> QED
  BY <1>1 DEF SumOver

-----------------------------------------------------------------------------
(* Nothing adds up to 0. *)
LEMMA SumOfNone == ASSUME NEW f PROVE SumFunctionOnSet(f, {}) = 0
<1>1. IsSum(f, {}, SumOver(f, {}))
  BY SumExists, FS_EmptySet
<1> QED
  BY <1>1, SumIsChosen DEF IsSum, SumStep

(* The element that is taken, and the rest. *)
LEMMA SumOfFirst ==
  ASSUME NEW f, NEW S, IsFiniteSet(S), S # {}
  PROVE  SumFunctionOnSet(f, S) = f[First(S)] + SumFunctionOnSet(f, S \ {First(S)})
<1> DEFINE T == S \ {First(S)}
<1>1. IsFiniteSet(T)
  BY FS_RemoveElement
<1>2. IsSum(f, S, SumOver(f, S)) /\ IsSum(f, T, SumOver(f, T))
  BY <1>1, SumExists
<1>3. SumOver(f, S)[T] = SumOver(f, T)[T]
  BY <1>2, SumsAgree
<1>4. SumOver(f, S)[S] = SumStep(f, SumOver(f, S), S)
  BY <1>2 DEF IsSum
<1> QED
  BY <1>3, <1>4, SumIsChosen DEF SumStep

(* Naturals add up to one. *)
LEMMA SumOfNat ==
  ASSUME NEW f, NEW S, IsFiniteSet(S), \A x \in S : f[x] \in Nat
  PROVE  SumFunctionOnSet(f, S) \in Nat
<1> DEFINE B == {T \in SUBSET S : SumFunctionOnSet(f, T) \notin Nat}
<1> SUFFICES ASSUME B # {} PROVE FALSE
  OBVIOUS
<1>1. PICK T \in B : \A U \in B : U \subseteq T => U = T
  <2>1. B \in SUBSET (SUBSET S)
    OBVIOUS
  <2> HIDE DEF B
  <2> QED
    BY <2>1, SmallestSet
<1>2. T # {} /\ IsFiniteSet(T)
  <2>1. T # {}
    BY SumOfNone
  <2> QED
    BY <2>1, FS_Subset
<1>3. First(T) \in T
  BY <1>2, FirstIn
<1>4. SumFunctionOnSet(f, T \ {First(T)}) \in Nat
  BY <1>1, <1>3
<1> QED
  BY <1>2, <1>3, <1>4, SumOfFirst

(* Any element, and the rest: the order of the recursion does not matter. *)
LEMMA SumOfOther ==
  ASSUME NEW f, NEW S, IsFiniteSet(S), \A x \in S : f[x] \in Nat, NEW x \in S
  PROVE  SumFunctionOnSet(f, S) = f[x] + SumFunctionOnSet(f, S \ {x})
<1> DEFINE Wrong(T, y) ==
      SumFunctionOnSet(f, T) # f[y] + SumFunctionOnSet(f, T \ {y})
    B == {T \in SUBSET S : \E y \in T : Wrong(T, y)}
<1> SUFFICES ASSUME B # {} PROVE FALSE
  OBVIOUS
<1>1. PICK T \in B : \A U \in B : U \subseteq T => U = T
  <2>1. B \in SUBSET (SUBSET S)
    OBVIOUS
  <2> HIDE DEF B
  <2> QED
    BY <2>1, SmallestSet
<1>2. PICK y \in T : Wrong(T, y)
  OBVIOUS
<1> DEFINE c == First(T)
<1>3. c \in T /\ IsFiniteSet(T)
  BY FirstIn, FS_Subset
<1>4. SumFunctionOnSet(f, T) = f[c] + SumFunctionOnSet(f, T \ {c})
  BY <1>3, SumOfFirst
<1>5. c # y
  BY <1>2, <1>4
<1> HIDE DEF c
<1>6. SumFunctionOnSet(f, T \ {c}) = f[y] + SumFunctionOnSet(f, T \ {c, y})
  <2>1. T \ {c} \in SUBSET S /\ T \ {c} # T /\ y \in T \ {c}
    BY <1>3, <1>5
  <2>2. ~Wrong(T \ {c}, y)
    BY <1>1, <2>1
  <2>3. (T \ {c}) \ {y} = T \ {c, y}
    OBVIOUS
  <2> QED
    BY <2>2, <2>3
<1>7. SumFunctionOnSet(f, T \ {y}) = f[c] + SumFunctionOnSet(f, T \ {c, y})
  <2>1. T \ {y} \in SUBSET S /\ T \ {y} # T /\ c \in T \ {y}
    BY <1>3, <1>5
  <2>2. ~Wrong(T \ {y}, c)
    BY <1>1, <2>1
  <2>3. (T \ {y}) \ {c} = T \ {c, y}
    OBVIOUS
  <2> QED
    BY <2>2, <2>3
<1>8. SumFunctionOnSet(f, T \ {c, y}) \in Nat
  <2>1. IsFiniteSet(T \ {c, y}) /\ \A z \in T \ {c, y} : f[z] \in Nat
    BY <1>3, FS_Subset
  <2> QED
    BY <2>1, SumOfNat
<1>9. f[c] \in Nat /\ f[y] \in Nat
  BY <1>3
<1> HIDE DEF B
<1> QED
  BY <1>2, <1>4, <1>6, <1>7, <1>8, <1>9

(* The sum depends on the values over the set only. *)
LEMMA SumsEqual ==
  ASSUME NEW f, NEW g, NEW S, IsFiniteSet(S), \A x \in S : f[x] = g[x]
  PROVE  SumFunctionOnSet(f, S) = SumFunctionOnSet(g, S)
<1> DEFINE B == {T \in SUBSET S : SumFunctionOnSet(f, T) # SumFunctionOnSet(g, T)}
<1> SUFFICES ASSUME B # {} PROVE FALSE
  OBVIOUS
<1>1. PICK T \in B : \A U \in B : U \subseteq T => U = T
  <2>1. B \in SUBSET (SUBSET S)
    OBVIOUS
  <2> HIDE DEF B
  <2> QED
    BY <2>1, SmallestSet
<1>2. T # {} /\ IsFiniteSet(T)
  <2>1. T # {}
    BY SumOfNone
  <2> QED
    BY <2>1, FS_Subset
<1>3. First(T) \in T
  BY <1>2, FirstIn
<1>4. SumFunctionOnSet(f, T \ {First(T)}) = SumFunctionOnSet(g, T \ {First(T)})
  BY <1>1, <1>3
<1> QED
  BY <1>2, <1>3, <1>4, SumOfFirst

(* Larger values have a larger sum. *)
LEMMA SumAtMost ==
  ASSUME NEW f, NEW g, NEW S, IsFiniteSet(S),
         \A x \in S : f[x] \in Nat /\ g[x] \in Nat /\ f[x] <= g[x]
  PROVE  SumFunctionOnSet(f, S) <= SumFunctionOnSet(g, S)
<1> DEFINE B == {T \in SUBSET S : ~(SumFunctionOnSet(f, T) <= SumFunctionOnSet(g, T))}
<1> SUFFICES ASSUME B # {} PROVE FALSE
  OBVIOUS
<1>1. PICK T \in B : \A U \in B : U \subseteq T => U = T
  <2>1. B \in SUBSET (SUBSET S)
    OBVIOUS
  <2> HIDE DEF B
  <2> QED
    BY <2>1, SmallestSet
<1>2. T # {} /\ IsFiniteSet(T)
  <2>1. T # {}
    BY SumOfNone
  <2> QED
    BY <2>1, FS_Subset
<1>3. First(T) \in T
  BY <1>2, FirstIn
<1> DEFINE U == T \ {First(T)}
<1>4. SumFunctionOnSet(f, U) <= SumFunctionOnSet(g, U)
  BY <1>1, <1>3
<1>5. SumFunctionOnSet(f, U) \in Nat /\ SumFunctionOnSet(g, U) \in Nat
  <2>1. IsFiniteSet(U) /\ \A x \in U : f[x] \in Nat /\ g[x] \in Nat
    BY <1>2, FS_RemoveElement
  <2> HIDE DEF U
  <2> QED
    BY <2>1, SumOfNat
<1> QED
  BY <1>2, <1>3, <1>4, <1>5, SumOfFirst

(* Values up to k add up to no more than k for each. *)
LEMMA SumOfBounded ==
  ASSUME NEW f, NEW S, IsFiniteSet(S), NEW k \in Nat, \A x \in S : f[x] \in 0..k
  PROVE  SumFunctionOnSet(f, S) \in 0..(k * Cardinality(S))
<1> DEFINE B == {T \in SUBSET S :
                   SumFunctionOnSet(f, T) \notin 0..(k * Cardinality(T))}
<1> SUFFICES ASSUME B # {} PROVE FALSE
  OBVIOUS
<1>1. PICK T \in B : \A U \in B : U \subseteq T => U = T
  <2>1. B \in SUBSET (SUBSET S)
    OBVIOUS
  <2> HIDE DEF B
  <2> QED
    BY <2>1, SmallestSet
<1>2. T # {} /\ IsFiniteSet(T)
  BY SumOfNone, FS_Subset, FS_EmptySet
<1> DEFINE U == T \ {First(T)}
<1>3. First(T) \in T /\ U \in SUBSET S /\ U # T
  BY <1>2, FirstIn
<1>4. SumFunctionOnSet(f, U) \in 0..(k * Cardinality(U))
  BY <1>1, <1>3
<1>5. Cardinality(U) = Cardinality(T) - 1 /\ Cardinality(T) \in Nat
  BY <1>2, <1>3, FS_RemoveElement, FS_CardinalityType
<1>6. SumFunctionOnSet(f, T) = f[First(T)] + SumFunctionOnSet(f, U)
  BY <1>2, SumOfFirst
<1>7. f[First(T)] \in 0..k
  BY <1>3
<1>8. k * (Cardinality(T) - 1) + k = k * Cardinality(T)
  BY <1>5
<1>9. SumFunctionOnSet(f, T) \notin 0..(k * Cardinality(T))
  OBVIOUS
<1> HIDE DEF U, B
<1>10. \A a, b, m, n \in Int : a \in 0..k /\ b \in 0..m /\ n = m + k => a + b \in 0..n
  OBVIOUS
<1>11. k * (Cardinality(T) - 1) \in Int /\ k * Cardinality(T) \in Int
  BY <1>5
<1> QED
  BY <1>4, <1>5, <1>6, <1>7, <1>8, <1>9, <1>10, <1>11

(* One value of f becomes larger by n, the others stay. *)
LEMMA SumGrows ==
  ASSUME NEW f, NEW g, NEW S, IsFiniteSet(S), NEW x \in S, NEW n \in Nat,
         \A y \in S : f[y] \in Nat,
         \A y \in S : g[y] = IF y = x THEN f[x] + n ELSE f[y]
  PROVE  SumFunctionOnSet(g, S) = SumFunctionOnSet(f, S) + n
<1> DEFINE U == S \ {x}
<1>1. IsFiniteSet(U)
  BY FS_RemoveElement
<1>2. SumFunctionOnSet(f, U) = SumFunctionOnSet(g, U)
  BY <1>1, SumsEqual
<1>3. SumFunctionOnSet(f, U) \in Nat
  BY <1>1, SumOfNat
<1>4. SumFunctionOnSet(f, S) = f[x] + SumFunctionOnSet(f, U)
  BY SumOfOther
<1>5. SumFunctionOnSet(g, S) = g[x] + SumFunctionOnSet(g, U)
  BY SumOfOther
<1> QED
  BY <1>2, <1>3, <1>4, <1>5
=============================================================================
