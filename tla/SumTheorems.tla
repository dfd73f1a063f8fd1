---------------------------- MODULE SumTheorems ----------------------------
(***************************************************************************)
(* What the sum of a function over a finite set does: SumFunctionOnSet of  *)
(* Functions, a fold over the recursive function that takes one element    *)
(* after another out of the set.  Each fact is shown by looking at a       *)
(* smallest subset for which it would fail.                                *)
(***************************************************************************)
EXTENDS Integers, FiniteSets, Functions, FiniteSetTheorems, TLAPS

\* The element that the fold takes first, and the fold's recursive equation.
First(T) == CHOOSE x \in T : TRUE

Folds(g, f, S) ==
  g = [T \in SUBSET S |-> IF T = {} THEN 0 ELSE f[First(T)] + g[T \ {First(T)}]]

(* Some member of any collection of subsets of a finite set has no other   *)
(* member below it.                                                        *)
LEMMA SmallestSet ==
  ASSUME NEW S, IsFiniteSet(S), NEW C \in SUBSET SUBSET S, C # {}
  PROVE  \E T \in C : \A U \in C : U \subseteq T => U = T
<1>1. IsWellFoundedOn(StrictSubsetOrdering(S), FiniteSubsetsOf(S))
  BY FS_StrictSubsetOrderingWellFounded
<1>2. C \subseteq FiniteSubsetsOf(S) BY FS_FiniteSubsetsOfFinite
<1>3. PICK T \in C : \A U \in C : <<U, T>> \notin StrictSubsetOrdering(S)
  BY <1>1, <1>2, WFMin
<1>4. QED BY <1>3 DEF StrictSubsetOrdering

LEMMA SumIsFold ==
  ASSUME NEW f, NEW S
  PROVE  SumFunctionOnSet(f, S) = (CHOOSE g : Folds(g, f, S))[S]
BY DEF SumFunctionOnSet, FoldFunctionOnSet, MapThenFoldSet, Folds, First

LEMMA FirstIsIn == \A T : T # {} => First(T) \in T
BY DEF First

\* Folds over a set and over a part of it agree on the part.
LEMMA FoldsAgree ==
  ASSUME NEW S, IsFiniteSet(S), NEW V \in SUBSET S, NEW f, NEW g, NEW h, Folds(g, f, S), Folds(h, f, V)
  PROVE  \A U \in SUBSET V : g[U] = h[U]
<1> DEFINE C == {U \in SUBSET V : g[U] # h[U]}
<1> SUFFICES ASSUME C # {} PROVE FALSE OBVIOUS
<1>1. PICK U \in C : \A W \in C : W \subseteq U => W = U
  <2>1. C \in SUBSET SUBSET S OBVIOUS
  <2> HIDE DEF C
  <2>2. QED BY <2>1, SmallestSet
<1>2. g[U] = IF U = {} THEN 0 ELSE f[First(U)] + g[U \ {First(U)}] BY DEF Folds
<1>3. h[U] = IF U = {} THEN 0 ELSE f[First(U)] + h[U \ {First(U)}] BY DEF Folds
<1>4. U # {} => g[U \ {First(U)}] = h[U \ {First(U)}] BY <1>1, FirstIsIn
<1>5. QED BY <1>1, <1>2, <1>3, <1>4

LEMMA FoldExists ==
  ASSUME NEW S, IsFiniteSet(S), NEW f
  PROVE  \E g : Folds(g, f, S)
<1> DEFINE C == {T \in SUBSET S : ~ \E g : Folds(g, f, T)}
           G(T) == CHOOSE g : Folds(g, f, T)
<1>0. SUFFICES ASSUME C # {} PROVE FALSE OBVIOUS
<1>1. PICK T \in C : \A W \in C : W \subseteq T => W = T
  <2>1. C \in SUBSET SUBSET S OBVIOUS
  <2> HIDE DEF C
  <2>2. QED BY <1>0, <2>1, SmallestSet
<1>2. \A V \in SUBSET T : V # T => Folds(G(V), f, V) BY <1>1
<1> DEFINE h == [U \in SUBSET T |-> IF U = {} THEN 0 ELSE f[First(U)] + G(U \ {First(U)})[U \ {First(U)}]]
<1>3. ASSUME NEW V \in SUBSET T, V # T PROVE h[V] = G(V)[V]
  <2>1. Folds(G(V), f, V) BY <1>2, <1>3
  <2>2. CASE V = {}
    <3>1. G(V)[V] = 0 BY <2>1, <2>2 DEF Folds
    <3>2. QED BY <3>1, <2>2
  <2>3. CASE V # {}
    <3> DEFINE R == V \ {First(V)}
    <3>1. First(V) \in V /\ R \in SUBSET V /\ R \in SUBSET T /\ R # T BY <2>3, FirstIsIn
    <3>2. Folds(G(R), f, R) BY <1>2, <3>1
    <3>3. IsFiniteSet(V) BY FS_Subset
    <3>4. G(V)[R] = G(R)[R]
      <4> HIDE DEF G, R
      <4> QED BY <3>1, <3>2, <3>3, <2>1, FoldsAgree
    <3>5. G(V)[V] = f[First(V)] + G(V)[R] BY <2>1, <2>3 DEF Folds
    <3>6. h[V] = f[First(V)] + G(R)[R] BY <2>3
    <3>7. QED BY <3>4, <3>5, <3>6
  <2>4. QED BY <2>2, <2>3
<1>4. ASSUME NEW U \in SUBSET T
      PROVE h[U] = IF U = {} THEN 0 ELSE f[First(U)] + h[U \ {First(U)}]
  <2>1. CASE U = {} BY <2>1
  <2>2. CASE U # {}
    <3>1. U \ {First(U)} \in SUBSET T /\ U \ {First(U)} # T BY <2>2, FirstIsIn
    <3>2. h[U \ {First(U)}] = G(U \ {First(U)})[U \ {First(U)}]
      <4> HIDE DEF h, G
      <4> QED BY <3>1, <1>3
    <3>3. QED BY <2>2, <3>2
  <2>3. QED BY <2>1, <2>2
<1>5. Folds(h, f, T)
  <2>1. h = [U \in SUBSET T |-> h[U]] OBVIOUS
  <2> HIDE DEF h
  <2>2. QED BY <2>1, <1>4 DEF Folds
<1>6. QED BY <1>1, <1>5
-----------------------------------------------------------------------------
(* The sum of no elements, and of one element and the rest. *)

LEMMA SumOfNone == \A f : SumFunctionOnSet(f, {}) = 0
<1> SUFFICES ASSUME NEW f PROVE SumFunctionOnSet(f, {}) = 0 OBVIOUS
<1>1. PICK g : Folds(g, f, {}) BY FoldExists, FS_EmptySet
<1>2. Folds(CHOOSE h : Folds(h, f, {}), f, {}) BY <1>1
<1>3. QED BY <1>2, SumIsFold DEF Folds

LEMMA SumTakesFirst ==
  ASSUME NEW S, IsFiniteSet(S), S # {}, NEW f
  PROVE  SumFunctionOnSet(f, S) = f[First(S)] + SumFunctionOnSet(f, S \ {First(S)})
<1> DEFINE R == S \ {First(S)}
           g == CHOOSE h : Folds(h, f, S)
           k == CHOOSE h : Folds(h, f, R)
<1>1. IsFiniteSet(R) /\ R \in SUBSET S BY FS_Subset
<1>2. Folds(g, f, S) /\ Folds(k, f, R)
  <2>1. \E h : Folds(h, f, S) BY FoldExists
  <2>2. \E h : Folds(h, f, R) BY <1>1, FoldExists
  <2>3. QED BY <2>1, <2>2
<1>3. g[R] = k[R]
  <2> HIDE DEF g, k, R
  <2> QED BY <1>1, <1>2, FoldsAgree
<1>4. g[S] = f[First(S)] + g[R] BY <1>2 DEF Folds
<1>5. SumFunctionOnSet(f, S) = g[S] /\ SumFunctionOnSet(f, R) = k[R] BY SumIsFold
<1>6. QED BY <1>3, <1>4, <1>5

\* A sum of integers is an integer; one of naturals a natural.
LEMMA SumType ==
  ASSUME NEW S, IsFiniteSet(S), NEW f, \A x \in S : f[x] \in Int
  PROVE  SumFunctionOnSet(f, S) \in Int
<1> DEFINE C == {T \in SUBSET S : SumFunctionOnSet(f, T) \notin Int}
<1>0. SUFFICES ASSUME C # {} PROVE FALSE OBVIOUS
<1>1. PICK T \in C : \A W \in C : W \subseteq T => W = T
  <2>1. C \in SUBSET SUBSET S OBVIOUS
  <2> HIDE DEF C
  <2>2. QED BY <1>0, <2>1, SmallestSet
<1>2. T # {} BY SumOfNone
<1>3. IsFiniteSet(T) BY FS_Subset
<1>4. SumFunctionOnSet(f, T) = f[First(T)] + SumFunctionOnSet(f, T \ {First(T)}) BY <1>2, <1>3, SumTakesFirst
<1>5. First(T) \in S BY <1>2, FirstIsIn
<1>6. SumFunctionOnSet(f, T \ {First(T)}) \in Int BY <1>1, <1>2, FirstIsIn
<1>7. QED BY <1>4, <1>5, <1>6

LEMMA SumNatural ==
  ASSUME NEW S, IsFiniteSet(S), NEW f, \A x \in S : f[x] \in Nat
  PROVE  SumFunctionOnSet(f, S) \in Nat
<1> DEFINE C == {T \in SUBSET S : SumFunctionOnSet(f, T) \notin Nat}
<1>0. SUFFICES ASSUME C # {} PROVE FALSE OBVIOUS
<1>1. PICK T \in C : \A W \in C : W \subseteq T => W = T
  <2>1. C \in SUBSET SUBSET S OBVIOUS
  <2> HIDE DEF C
  <2>2. QED BY <1>0, <2>1, SmallestSet
<1>2. T # {} BY SumOfNone
<1>3. IsFiniteSet(T) BY FS_Subset
<1>4. SumFunctionOnSet(f, T) = f[First(T)] + SumFunctionOnSet(f, T \ {First(T)}) BY <1>2, <1>3, SumTakesFirst
<1>5. First(T) \in S BY <1>2, FirstIsIn
<1>6. SumFunctionOnSet(f, T \ {First(T)}) \in Nat BY <1>1, <1>2, FirstIsIn
<1>7. QED BY <1>4, <1>5, <1>6

LEMMA SumOfZeros ==
  ASSUME NEW S, IsFiniteSet(S), NEW f, \A x \in S : f[x] = 0
  PROVE  SumFunctionOnSet(f, S) = 0
<1> DEFINE C == {T \in SUBSET S : SumFunctionOnSet(f, T) # 0}
<1>0. SUFFICES ASSUME C # {} PROVE FALSE OBVIOUS
<1>1. PICK T \in C : \A W \in C : W \subseteq T => W = T
  <2>1. C \in SUBSET SUBSET S OBVIOUS
  <2> HIDE DEF C
  <2>2. QED BY <1>0, <2>1, SmallestSet
<1>2. T # {} BY SumOfNone
<1>3. IsFiniteSet(T) BY FS_Subset
<1>4. SumFunctionOnSet(f, T) = f[First(T)] + SumFunctionOnSet(f, T \ {First(T)}) BY <1>2, <1>3, SumTakesFirst
<1>5. f[First(T)] = 0 BY <1>2, FirstIsIn
<1>6. SumFunctionOnSet(f, T \ {First(T)}) = 0 BY <1>1, <1>2, FirstIsIn
<1>7. QED BY <1>4, <1>5, <1>6

(* Any element may be taken out first. *)
LEMMA SumTakesAny ==
  ASSUME NEW S, IsFiniteSet(S), NEW f, \A x \in S : f[x] \in Int, NEW x \in S
  PROVE  SumFunctionOnSet(f, S) = f[x] + SumFunctionOnSet(f, S \ {x})
<1> DEFINE Sum(T) == SumFunctionOnSet(f, T)
           C == {T \in SUBSET S : \E y \in T : Sum(T) # f[y] + Sum(T \ {y})}
<1>0. SUFFICES ASSUME C # {} PROVE FALSE OBVIOUS
<1>1. PICK T \in C : \A W \in C : W \subseteq T => W = T
  <2>1. C \in SUBSET SUBSET S OBVIOUS
  <2> HIDE DEF C
  <2>2. QED BY <1>0, <2>1, SmallestSet
<1>2. PICK y \in T : Sum(T) # f[y] + Sum(T \ {y}) OBVIOUS
<1> DEFINE p == First(T)
<1>3. p \in T BY FirstIsIn, <1>2
<1>4. Sum(T) = f[p] + Sum(T \ {p})
  <2>1. IsFiniteSet(T) BY FS_Subset
  <2>2. QED BY <2>1, <1>2, SumTakesFirst
<1>5. p # y BY <1>2, <1>4
<1>6. T \ {p} \notin C /\ T \ {y} \notin C
  <2> HIDE DEF C, p
  <2>2. QED BY <1>1, <1>2, <1>3
<1>7. Sum(T \ {p}) = f[y] + Sum((T \ {p}) \ {y}) /\ Sum(T \ {y}) = f[p] + Sum((T \ {y}) \ {p})
  <2> HIDE DEF Sum, p
  <2> QED BY <1>2, <1>3, <1>5, <1>6
<1> DEFINE R == (T \ {p}) \ {y}
<1>8. R = (T \ {y}) \ {p} OBVIOUS
<1>9. Sum(R) \in Int /\ f[p] \in Int /\ f[y] \in Int
  <2>1. IsFiniteSet(R) BY FS_Subset
  <2>2. QED BY <2>1, <1>3, SumType
<1>10. Sum(T \ {p}) = f[y] + Sum(R) /\ Sum(T \ {y}) = f[p] + Sum(R) BY <1>7, <1>8
<1>11. Sum(T) # f[y] + (f[p] + Sum(R)) /\ Sum(T) = f[p] + (f[y] + Sum(R)) BY <1>2, <1>4, <1>10
<1>12. QED
  <2> HIDE DEF Sum, p, R
  <2> QED BY <1>9, <1>11

LEMMA SumAdds ==
  ASSUME NEW S, IsFiniteSet(S), NEW x, x \notin S, NEW f, \A y \in S \cup {x} : f[y] \in Int
  PROVE  SumFunctionOnSet(f, S \cup {x}) = SumFunctionOnSet(f, S) + f[x]
<1>1. IsFiniteSet(S \cup {x}) BY FS_AddElement
<1>2. SumFunctionOnSet(f, S \cup {x}) = f[x] + SumFunctionOnSet(f, (S \cup {x}) \ {x}) BY <1>1, SumTakesAny
<1>3. (S \cup {x}) \ {x} = S OBVIOUS
<1>4. SumFunctionOnSet(f, S) \in Int /\ f[x] \in Int BY SumType
<1>5. SumFunctionOnSet(f, S \cup {x}) = f[x] + SumFunctionOnSet(f, S) BY <1>2, <1>3
<1>6. QED BY <1>4, <1>5
-----------------------------------------------------------------------------
(* Sums over two sets, and of two functions. *)

\* Naturals: more elements do not make less.
LEMMA SumGrows ==
  ASSUME NEW T, IsFiniteSet(T), NEW S \in SUBSET T, NEW f, \A x \in T : f[x] \in Nat
  PROVE  SumFunctionOnSet(f, S) <= SumFunctionOnSet(f, T)
<1> DEFINE Sum(U) == SumFunctionOnSet(f, U)
           C == {U \in SUBSET T : S \subseteq U /\ ~ (Sum(S) <= Sum(U))}
<1>0. SUFFICES ASSUME C # {} PROVE FALSE OBVIOUS
<1>1. PICK U \in C : \A W \in C : W \subseteq U => W = U
  <2>1. C \in SUBSET SUBSET T OBVIOUS
  <2> HIDE DEF C
  <2>2. QED BY <1>0, <2>1, SmallestSet
<1>2. \A V \in SUBSET T : Sum(V) \in Nat
  <2> SUFFICES ASSUME NEW V \in SUBSET T PROVE Sum(V) \in Nat OBVIOUS
  <2>1. IsFiniteSet(V) BY FS_Subset
  <2>2. QED BY <2>1, SumNatural
<1>3. S # U BY <1>2
<1>4. PICK x \in U : x \notin S BY <1>3
<1>5. Sum(U) = f[x] + Sum(U \ {x})
  <2>1. IsFiniteSet(U) BY FS_Subset
  <2>2. QED BY <2>1, SumTakesAny
<1>6. Sum(S) <= Sum(U \ {x}) BY <1>1, <1>4
<1>7. Sum(S) \in Nat /\ Sum(U \ {x}) \in Nat /\ f[x] \in Nat BY <1>2
<1>8. ~ (Sum(S) <= Sum(U)) OBVIOUS
<1>9. QED
  <2> HIDE DEF Sum
  <2> QED BY <1>5, <1>6, <1>7, <1>8

(* A sum depends on what is summed only: the same numbers under other      *)
(* indices add up to the same.                                             *)
LEMMA SumRenamed ==
  ASSUME NEW S, IsFiniteSet(S), NEW e, NEW f, NEW g,
         \A x \in S : f[x] \in Int /\ f[x] = g[e[x]],
         \A x, y \in S : e[x] = e[y] => x = y
  PROVE  /\ IsFiniteSet({e[x] : x \in S})
         /\ SumFunctionOnSet(f, S) = SumFunctionOnSet(g, {e[x] : x \in S})
<1> DEFINE E(T) == {e[x] : x \in T}
           Same(T) == IsFiniteSet(E(T)) /\ SumFunctionOnSet(f, T) = SumFunctionOnSet(g, E(T))
           C == {T \in SUBSET S : ~ Same(T)}
<1>0. SUFFICES ASSUME C # {} PROVE FALSE OBVIOUS
<1>1. PICK T \in C : \A W \in C : W \subseteq T => W = T
  <2>1. C \in SUBSET SUBSET S OBVIOUS
  <2> HIDE DEF C
  <2>2. QED BY <1>0, <2>1, SmallestSet
<1>2. T # {}
  <2>1. E({}) = {} OBVIOUS
  <2>2. Same({}) BY <2>1, SumOfNone, FS_EmptySet
  <2>3. QED BY <2>2
<1>3. PICK p \in T : TRUE BY <1>2
<1> DEFINE R == T \ {p}
<1>4. IsFiniteSet(E(R)) /\ SumFunctionOnSet(f, R) = SumFunctionOnSet(g, E(R))
  <2>1. R \in SUBSET S /\ R \subseteq T /\ R # T BY <1>3
  <2>2. Same(R)
    <3> HIDE DEF Same, R
    <3> QED BY <2>1, <1>1
  <2>3. QED BY <2>2
<1>5. E(T) = E(R) \cup {e[p]} /\ e[p] \notin E(R) BY <1>3
<1>6. IsFiniteSet(E(T)) BY <1>4, <1>5, FS_AddElement
<1>7. SumFunctionOnSet(f, T) = f[p] + SumFunctionOnSet(f, R)
  <2>1. IsFiniteSet(T) BY FS_Subset
  <2>2. QED BY <2>1, SumTakesAny
<1>8. SumFunctionOnSet(g, E(T)) = SumFunctionOnSet(g, E(R)) + g[e[p]]
  <2> DEFINE D == E(R)  z == e[p]
  <2>1. \A y \in D \cup {z} : g[y] \in Int BY <1>3
  <2>2. IsFiniteSet(D) /\ z \notin D /\ E(T) = D \cup {z} BY <1>4, <1>5
  <2> HIDE DEF D, z, E
  <2>3. SumFunctionOnSet(g, D \cup {z}) = SumFunctionOnSet(g, D) + g[z] BY <2>1, <2>2, SumAdds
  <2>4. SumFunctionOnSet(g, E(T)) = SumFunctionOnSet(g, D) + g[z] BY <2>2, <2>3
  <2>5. QED BY <2>4 DEF D, z
<1>9. SumFunctionOnSet(f, R) \in Int /\ f[p] \in Int /\ f[p] = g[e[p]]
  <2>1. IsFiniteSet(R) BY FS_Subset
  <2>2. QED BY <2>1, SumType
<1>10. SumFunctionOnSet(f, T) = SumFunctionOnSet(g, E(T))
  <2>1. SumFunctionOnSet(g, E(T)) = SumFunctionOnSet(f, R) + f[p] BY <1>4, <1>8, <1>9
  <2>2. QED BY <1>7, <1>9, <2>1
<1>11. QED BY <1>6, <1>10

\* In particular, equal functions have equal sums.
LEMMA SumSame ==
  ASSUME NEW S, IsFiniteSet(S), NEW f, NEW g, \A x \in S : f[x] \in Int /\ f[x] = g[x]
  PROVE  SumFunctionOnSet(f, S) = SumFunctionOnSet(g, S)
<1> DEFINE e == [x \in S |-> x]
<1>1. {e[x] : x \in S} = S OBVIOUS
<1>2. \A x \in S : f[x] \in Int /\ f[x] = g[e[x]] OBVIOUS
<1>3. \A x, y \in S : e[x] = e[y] => x = y OBVIOUS
<1> HIDE DEF e
<1>4. SumFunctionOnSet(f, S) = SumFunctionOnSet(g, {e[x] : x \in S}) BY <1>2, <1>3, SumRenamed
<1>5. QED BY <1>1, <1>4

\* One summand changes.
LEMMA SumChanges ==
  ASSUME NEW S, IsFiniteSet(S), NEW a \in S, NEW f, NEW g, g[a] \in Int,
         \A x \in S : f[x] \in Int, \A x \in S : x # a => g[x] = f[x]
  PROVE  SumFunctionOnSet(g, S) = SumFunctionOnSet(f, S) + (g[a] - f[a])
<1> DEFINE R == S \ {a}
<1>1. IsFiniteSet(R) BY FS_Subset
<1>2. SumFunctionOnSet(f, R) = SumFunctionOnSet(g, R) BY <1>1, SumSame
<1>3. SumFunctionOnSet(f, S) = f[a] + SumFunctionOnSet(f, R) BY SumTakesAny
<1>4. SumFunctionOnSet(g, S) = g[a] + SumFunctionOnSet(g, R) BY SumTakesAny
<1>5. SumFunctionOnSet(f, R) \in Int /\ f[a] \in Int BY <1>1, SumType
<1>6. SumFunctionOnSet(g, S) = g[a] + SumFunctionOnSet(f, R) BY <1>2, <1>4
<1> HIDE DEF R
<1>7. QED BY <1>3, <1>5, <1>6
=============================================================================
