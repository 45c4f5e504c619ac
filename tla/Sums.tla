-------------------------------- MODULE Sums --------------------------------
(***************************************************************************)
(* The sum of a function over a finite set: what MapThenSumSet computes.   *)
(* Every fact here is proved by looking at a smallest set without it.      *)
(***************************************************************************)
EXTENDS Integers, FiniteSets, FiniteSetsExt, FiniteSetTheorems, TLAPS

SumOver(f, S) == MapThenSumSet(LAMBDA x : f[x], S)

First(T) == CHOOSE x \in T : TRUE

(* The function that MapThenSumSet defines on the subsets of S.            *)
IsSum(g, f, S) ==
  g = [T \in SUBSET S |-> IF T = {} THEN 0 ELSE f[First(T)] + g[T \ {First(T)}]]

(* A sum is computed by a function on the subsets of the set.              *)
LEMMA SumIsIterated ==
  ASSUME NEW f, NEW S
  PROVE  SumOver(f, S) = (CHOOSE g : IsSum(g, f, S))[S]
BY DEF SumOver, MapThenSumSet, MapThenFoldSet, IsSum, First

(* Of some subsets of a finite set one has none of the others inside it.   *)
LEMMA SmallestSet ==
  ASSUME NEW S, IsFiniteSet(S), NEW Bad \in SUBSET (SUBSET S), Bad # {}
  PROVE  \E T \in Bad : \A U \in Bad : U \subseteq T => U = T
<1>1. IsWellFoundedOn(StrictSubsetOrdering(S), FiniteSubsetsOf(S))
  BY FS_StrictSubsetOrderingWellFounded
<1>2. Bad \subseteq FiniteSubsetsOf(S)
  BY FS_Subset DEF FiniteSubsetsOf
<1>3. PICK T \in Bad : \A U \in Bad : <<U, T>> \notin StrictSubsetOrdering(S)
  BY <1>1, <1>2, WFMin
<1> QED
  BY <1>3 DEF StrictSubsetOrdering

(* How the sum is computed, one element after the other.                   *)
LEMMA SumUnfolds ==
  ASSUME NEW f, NEW S, IsFiniteSet(S)
  PROVE  SumOver(f, S) = IF S = {} THEN 0 ELSE f[First(S)] + SumOver(f, S \ {First(S)})
<1> DEFINE Step(T) == IF T = {} THEN 0 ELSE f[First(T)] + SumOver(f, T \ {First(T)})
           Bad == {T \in SUBSET S : SumOver(f, T) # Step(T)}
<1> SUFFICES ASSUME SumOver(f, S) # Step(S) PROVE FALSE
  OBVIOUS
<1>1. Bad \in SUBSET (SUBSET S) /\ S \in Bad
  OBVIOUS
<1>2. PICK U \in Bad : \A T \in Bad : T \subseteq U => T = U
  <2> HIDE DEF Bad
  <2> QED
    BY <1>1, SmallestSet
<1>3. \A T \in SUBSET U : T # U => SumOver(f, T) = Step(T)
  BY <1>2
<1>4. \A T \in SUBSET U : T # {} => First(T) \in T
  BY DEF First
<1> HIDE DEF Step, Bad
<1> DEFINE h == [T \in SUBSET U |-> Step(T)]
<1>5. IsSum(h, f, U)
  <2>1. ASSUME NEW T \in SUBSET U, T # {}
        PROVE  Step(T) = f[First(T)] + h[T \ {First(T)}]
    <3>1. T \ {First(T)} \in SUBSET U /\ T \ {First(T)} # U
      BY <2>1, <1>4
    <3>2. h[T \ {First(T)}] = SumOver(f, T \ {First(T)})
      BY <3>1, <1>3
    <3> QED
      BY <2>1, <3>2 DEF Step
  <2>2. Step({}) = 0
    BY DEF Step
  <2>3. \A T \in SUBSET U : Step(T) = IF T = {} THEN 0 ELSE f[First(T)] + h[T \ {First(T)}]
    BY <2>1, <2>2
  <2> QED
    BY <2>3 DEF IsSum
<1> DEFINE g == CHOOSE k : IsSum(k, f, U)
<1>6. IsSum(g, f, U)
  BY <1>5
<1> HIDE DEF g, h
<1>7. \A T \in SUBSET U : g[T] = IF T = {} THEN 0 ELSE f[First(T)] + g[T \ {First(T)}]
  BY <1>6 DEF IsSum
<1>8. \A T \in SUBSET U : T # U => g[T] = SumOver(f, T)
  <2> DEFINE Off == {T \in SUBSET U : T # U /\ g[T] # SumOver(f, T)}
  <2> SUFFICES ASSUME Off # {} PROVE FALSE
    OBVIOUS
  <2>1. Off \in SUBSET (SUBSET U)
    OBVIOUS
  <2>2. IsFiniteSet(U)
    BY FS_Subset DEF Bad
  <2>3. PICK T \in Off : \A V \in Off : V \subseteq T => V = T
    <3> HIDE DEF Off
    <3> QED
      BY <2>1, <2>2, SmallestSet
  <2>4. CASE T = {}
    BY <2>3, <2>4, <1>3, <1>7 DEF Step
  <2>5. CASE T # {}
    <3>1. First(T) \in T
      BY <2>3, <2>5, <1>4
    <3>2. T \ {First(T)} \in SUBSET U /\ T \ {First(T)} # U /\ T \ {First(T)} # T
      BY <2>3, <3>1
    <3>3. g[T \ {First(T)}] = SumOver(f, T \ {First(T)})
      BY <2>3, <3>2
    <3>4. g[T] = f[First(T)] + SumOver(f, T \ {First(T)})
      BY <2>3, <2>5, <3>3, <1>7
    <3>5. SumOver(f, T) = f[First(T)] + SumOver(f, T \ {First(T)})
      BY <2>3, <2>5, <1>3 DEF Step
    <3> QED
      BY <2>3, <3>4, <3>5
  <2> QED
    BY <2>4, <2>5
<1>9. SumOver(f, U) = g[U]
  BY SumIsIterated DEF g
<1>10. SumOver(f, U) = Step(U)
  <2>1. CASE U = {}
    BY <2>1, <1>7, <1>9 DEF Step
  <2>2. CASE U # {}
    <3>1. First(U) \in U
      BY <2>2, <1>4
    <3>2. g[U \ {First(U)}] = SumOver(f, U \ {First(U)})
      BY <3>1, <1>8
    <3> QED
      BY <2>2, <3>2, <1>7, <1>9 DEF Step
  <2> QED
    BY <2>1, <2>2
<1> QED
  BY <1>2, <1>10 DEF Bad

(* Nothing adds up to zero.                                                *)
LEMMA SumEmpty ==
  ASSUME NEW f
  PROVE  SumOver(f, {}) = 0
BY SumUnfolds, FS_EmptySet

(* Integers add up to an integer.                                          *)
LEMMA SumType ==
  ASSUME NEW S, IsFiniteSet(S), NEW f, \A x \in S : f[x] \in Int
  PROVE  SumOver(f, S) \in Int
<1> DEFINE Bad == {T \in SUBSET S : SumOver(f, T) \notin Int}
<1> SUFFICES ASSUME SumOver(f, S) \notin Int PROVE FALSE
  OBVIOUS
<1>1. Bad \in SUBSET (SUBSET S) /\ S \in Bad
  OBVIOUS
<1>2. PICK T \in Bad : \A U \in Bad : U \subseteq T => U = T
  <2> HIDE DEF Bad
  <2> QED
    BY <1>1, SmallestSet
<1>3. IsFiniteSet(T)
  BY <1>2, FS_Subset
<1>4. CASE T = {}
  BY <1>2, <1>4, SumEmpty
<1>5. CASE T # {}
  <2>1. First(T) \in T
    BY <1>5 DEF First
  <2>2. T \ {First(T)} \in SUBSET S /\ T \ {First(T)} # T
    BY <1>2, <2>1
  <2>3. SumOver(f, T \ {First(T)}) \in Int
    BY <1>2, <2>2
  <2>4. SumOver(f, T) = f[First(T)] + SumOver(f, T \ {First(T)})
    BY <1>3, <1>5, SumUnfolds
  <2> QED
    BY <1>2, <2>1, <2>3, <2>4
<1> QED
  BY <1>4, <1>5

(* Any element may be taken out first.                                     *)
LEMMA SumTakeOut ==
  ASSUME NEW S, IsFiniteSet(S), NEW f, \A x \in S : f[x] \in Int, NEW e \in S
  PROVE  SumOver(f, S) = f[e] + SumOver(f, S \ {e})
<1> DEFINE Bad == {T \in SUBSET S : \E x \in T : SumOver(f, T) # f[x] + SumOver(f, T \ {x})}
<1> SUFFICES ASSUME SumOver(f, S) # f[e] + SumOver(f, S \ {e}) PROVE FALSE
  OBVIOUS
<1>1. Bad \in SUBSET (SUBSET S) /\ S \in Bad
  OBVIOUS
<1>2. PICK T \in Bad : \A U \in Bad : U \subseteq T => U = T
  <2> HIDE DEF Bad
  <2> QED
    BY <1>1, SmallestSet
<1>3. PICK x \in T : SumOver(f, T) # f[x] + SumOver(f, T \ {x})
  BY <1>2
<1>4. \A U \in SUBSET S : IsFiniteSet(U)
  BY FS_Subset
<1> DEFINE y == First(T)
<1>5. y \in T
  BY <1>3 DEF First
<1>6. SumOver(f, T) = f[y] + SumOver(f, T \ {y})
  BY <1>2, <1>3, <1>4, SumUnfolds
<1> HIDE DEF y
<1>7. y # x
  BY <1>3, <1>6
<1>8. ASSUME NEW U \in SUBSET T, U # T, NEW z \in U
      PROVE  SumOver(f, U) = f[z] + SumOver(f, U \ {z})
  BY <1>2, <1>8
<1> HIDE DEF Bad
<1>9. (T \ {y}) \ {x} = (T \ {x}) \ {y}
  OBVIOUS
<1>10. SumOver(f, T \ {y}) = f[x] + SumOver(f, (T \ {x}) \ {y})
  BY <1>5, <1>7, <1>8, <1>9
<1>11. SumOver(f, T \ {x}) = f[y] + SumOver(f, (T \ {x}) \ {y})
  BY <1>5, <1>7, <1>8
<1>12. (T \ {x}) \ {y} \in SUBSET S /\ x \in S /\ y \in S
  BY <1>2, <1>5 DEF Bad
<1>13. SumOver(f, (T \ {x}) \ {y}) \in Int /\ f[x] \in Int /\ f[y] \in Int
  BY <1>4, <1>12, SumType
<1> QED
  BY <1>3, <1>6, <1>10, <1>11, <1>13

(* Only the values on the set count.                                       *)
LEMMA SumSame ==
  ASSUME NEW S, IsFiniteSet(S), NEW f, NEW g, \A x \in S : f[x] = g[x]
  PROVE  SumOver(f, S) = SumOver(g, S)
<1> DEFINE Bad == {T \in SUBSET S : SumOver(f, T) # SumOver(g, T)}
<1> SUFFICES ASSUME SumOver(f, S) # SumOver(g, S) PROVE FALSE
  OBVIOUS
<1>1. Bad \in SUBSET (SUBSET S) /\ S \in Bad
  OBVIOUS
<1>2. PICK T \in Bad : \A U \in Bad : U \subseteq T => U = T
  <2> HIDE DEF Bad
  <2> QED
    BY <1>1, SmallestSet
<1>3. IsFiniteSet(T)
  BY <1>2, FS_Subset
<1>4. CASE T = {}
  BY <1>2, <1>4, SumEmpty
<1>5. CASE T # {}
  <2>1. First(T) \in T
    BY <1>5 DEF First
  <2>2. T \ {First(T)} \in SUBSET S /\ T \ {First(T)} # T
    BY <1>2, <2>1
  <2>3. SumOver(f, T \ {First(T)}) = SumOver(g, T \ {First(T)})
    BY <1>2, <2>2
  <2>4. SumOver(f, T) = f[First(T)] + SumOver(f, T \ {First(T)})
    BY <1>3, <1>5, SumUnfolds
  <2>5. SumOver(g, T) = g[First(T)] + SumOver(g, T \ {First(T)})
    BY <1>3, <1>5, SumUnfolds
  <2> QED
    BY <1>2, <2>1, <2>3, <2>4, <2>5
<1> QED
  BY <1>4, <1>5

(* One more element.                                                       *)
LEMMA SumAdd ==
  ASSUME NEW S, IsFiniteSet(S), NEW e, e \notin S, NEW f, \A x \in S \cup {e} : f[x] \in Int
  PROVE  SumOver(f, S \cup {e}) = SumOver(f, S) + f[e]
<1>1. IsFiniteSet(S \cup {e}) /\ (S \cup {e}) \ {e} = S
  BY FS_AddElement
<1>2. SumOver(f, S \cup {e}) = f[e] + SumOver(f, S)
  BY <1>1, SumTakeOut
<1>3. SumOver(f, S) \in Int
  BY SumType
<1> QED
  BY <1>2, <1>3

(* The sum changes as much as the one value that changes.                  *)
LEMMA SumUpdate ==
  ASSUME NEW S, IsFiniteSet(S), NEW e \in S, NEW f, NEW g,
         \A x \in S : f[x] \in Int /\ g[x] \in Int,
         \A x \in S \ {e} : f[x] = g[x]
  PROVE  SumOver(g, S) = SumOver(f, S) + (g[e] - f[e])
<1>1. IsFiniteSet(S \ {e})
  BY FS_RemoveElement
<1>2. SumOver(f, S \ {e}) = SumOver(g, S \ {e})
  BY <1>1, SumSame
<1>3. SumOver(f, S) = f[e] + SumOver(f, S \ {e})
  BY SumTakeOut
<1>4. SumOver(g, S) = g[e] + SumOver(g, S \ {e})
  BY SumTakeOut
<1>5. SumOver(f, S \ {e}) \in Int
  BY <1>1, SumType
<1> QED
  BY <1>2, <1>3, <1>4, <1>5

(* A sum of zeros.                                                         *)
LEMMA SumZero ==
  ASSUME NEW S, IsFiniteSet(S), NEW f, \A x \in S : f[x] = 0
  PROVE  SumOver(f, S) = 0
<1> DEFINE Bad == {T \in SUBSET S : SumOver(f, T) # 0}
<1> SUFFICES ASSUME SumOver(f, S) # 0 PROVE FALSE
  OBVIOUS
<1>1. Bad \in SUBSET (SUBSET S) /\ S \in Bad
  OBVIOUS
<1>2. PICK T \in Bad : \A U \in Bad : U \subseteq T => U = T
  <2> HIDE DEF Bad
  <2> QED
    BY <1>1, SmallestSet
<1>3. IsFiniteSet(T)
  BY <1>2, FS_Subset
<1>4. CASE T = {}
  BY <1>2, <1>4, SumEmpty
<1>5. CASE T # {}
  <2>1. First(T) \in T
    BY <1>5 DEF First
  <2>2. T \ {First(T)} \in SUBSET S /\ T \ {First(T)} # T
    BY <1>2, <2>1
  <2>3. SumOver(f, T \ {First(T)}) = 0
    BY <1>2, <2>2
  <2>4. SumOver(f, T) = f[First(T)] + SumOver(f, T \ {First(T)})
    BY <1>3, <1>5, SumUnfolds
  <2> QED
    BY <1>2, <2>1, <2>3, <2>4
<1> QED
  BY <1>4, <1>5

(* What is never negative does not add up to less than one of its values.  *)
LEMMA SumBounds ==
  ASSUME NEW S, IsFiniteSet(S), NEW f, \A x \in S : f[x] \in Nat
  PROVE  SumOver(f, S) >= 0 /\ \A x \in S : f[x] <= SumOver(f, S)
<1>1. \A T \in SUBSET S : IsFiniteSet(T) /\ SumOver(f, T) \in Int
  BY FS_Subset, SumType
<1>2. \A T \in SUBSET S : SumOver(f, T) >= 0
  <2> DEFINE Bad == {T \in SUBSET S : ~(SumOver(f, T) >= 0)}
  <2> SUFFICES ASSUME Bad # {} PROVE FALSE
    OBVIOUS
  <2>1. Bad \in SUBSET (SUBSET S)
    OBVIOUS
  <2>2. PICK T \in Bad : \A U \in Bad : U \subseteq T => U = T
    <3> HIDE DEF Bad
    <3> QED
      BY <2>1, SmallestSet
  <2>4. CASE T = {}
    BY <2>2, <2>4, SumEmpty
  <2>5. CASE T # {}
    <3>1. First(T) \in T
      BY <2>5 DEF First
    <3>2. T \ {First(T)} \in SUBSET S /\ T \ {First(T)} # T
      BY <2>2, <3>1
    <3>3. SumOver(f, T \ {First(T)}) >= 0
      BY <2>2, <3>2
    <3>4. SumOver(f, T) = f[First(T)] + SumOver(f, T \ {First(T)})
      BY <1>1, <2>2, <2>5, SumUnfolds
    <3> QED
      BY <1>1, <2>2, <3>1, <3>2, <3>3, <3>4
  <2> QED
    BY <2>4, <2>5
<1>3. ASSUME NEW x \in S PROVE f[x] <= SumOver(f, S)
  <2>1. SumOver(f, S) = f[x] + SumOver(f, S \ {x})
    BY SumTakeOut
  <2>2. SumOver(f, S \ {x}) >= 0 /\ SumOver(f, S \ {x}) \in Int
    BY <1>1, <1>2
  <2> QED
    BY <2>1, <2>2
<1>4. SumOver(f, S) >= 0
  BY <1>2
<1> QED
  BY <1>3, <1>4
=============================================================================
