----------------------------- MODULE SumProofs -----------------------------
(***************************************************************************)
(* Lemmas about SumFunctionOnSet, the sum over a finite set in which the   *)
(* books are stated: what the sum is when an element joins or leaves the   *)
(* set, or when one of its values changes.                                 *)
(***************************************************************************)
EXTENDS Integers, Functions, FiniteSetTheorems, WellFoundedInduction, TLAPS

(* The element that the sum takes first, one step of the recursion, and    *)
(* the functions that satisfy it on all subsets of T.                      *)
FirstOf(s) == CHOOSE x \in s : TRUE
SumStep(f, g, s) == IF s = {} THEN 0 ELSE f[FirstOf(s)] + g[s \ {FirstOf(s)}]
SumsUpTo(f, g, T) == g = [s \in SUBSET T |-> SumStep(f, g, s)]

(* The sum is the value of such a function, if there is one.               *)
LEMMA SumIsChosen ==
    ASSUME NEW f, NEW S
    PROVE  SumFunctionOnSet(f, S) = (CHOOSE g : SumsUpTo(f, g, S))[S]
BY Zenon DEF SumFunctionOnSet, FoldFunctionOnSet, MapThenFoldSet, SumsUpTo, SumStep, FirstOf

(* A set that is not empty has a first element.                            *)
LEMMA PickElement ==
    ASSUME NEW s, s # {}
    PROVE  FirstOf(s) \in s
BY DEF FirstOf

(* A proper subset.                                                        *)
Within(U, T) == U \subseteq T /\ U # T

(* A set of subsets of a finite set that is not empty has a minimal one.   *)
LEMMA MinimalSubset ==
    ASSUME NEW S, IsFiniteSet(S), NEW D, D \subseteq SUBSET S, D # {}
    PROVE  \E T \in D : \A U \in D : ~Within(U, T)
<1> DEFINE R == StrictSubsetOrdering(S)
<1>1. D \subseteq FiniteSubsetsOf(S)
  BY FS_Subset DEF FiniteSubsetsOf
<1>2. IsWellFoundedOn(R, FiniteSubsetsOf(S))
  BY FS_StrictSubsetOrderingWellFounded
<1> HIDE DEF R
<1>3. PICK T \in D : \A U \in D : ~ (<<U, T>> \in R)
  BY <1>1, <1>2, WFMin
<1>4. \A U \in D : Within(U, T) => <<U, T>> \in R
  BY DEF R, StrictSubsetOrdering, Within
<1> QED BY <1>3, <1>4

(* The recursion has at most one solution.                                 *)
LEMMA SumsUnique ==
    ASSUME NEW T, IsFiniteSet(T), NEW f, NEW g, NEW h,
           SumsUpTo(f, g, T), SumsUpTo(f, h, T)
    PROVE  g = h
<1> DEFINE D == {s \in SUBSET T : g[s] # h[s]}
<1>1. SUFFICES ASSUME D # {} PROVE FALSE
  BY DEF SumsUpTo
<1>2. PICK s \in D : \A U \in D : ~Within(U, s)
  BY <1>1, MinimalSubset
<1>3. g[s] = SumStep(f, g, s) /\ h[s] = SumStep(f, h, s)
  BY DEF SumsUpTo
<1>4. s # {}
  BY <1>3 DEF SumStep
<1>5. /\ s \ {FirstOf(s)} \in SUBSET T /\ s \ {FirstOf(s)} \subseteq s
      /\ s \ {FirstOf(s)} # s
  BY <1>4, PickElement
<1>6. g[s \ {FirstOf(s)}] = h[s \ {FirstOf(s)}]
  BY <1>2, <1>5 DEF Within
<1> QED BY <1>3, <1>4, <1>6 DEF SumStep

(* A solution for the subsets of T is one for the subsets of U.            *)
LEMMA SumsRestrict ==
    ASSUME NEW T, NEW U \in SUBSET T, NEW f, NEW g, SumsUpTo(f, g, T)
    PROVE  SumsUpTo(f, [s \in SUBSET U |-> g[s]], U)
<1> DEFINE h == [s \in SUBSET U |-> g[s]]
<1>1. ASSUME NEW s \in SUBSET U
      PROVE  g[s] = SumStep(f, h, s)
  <2>1. g[s] = SumStep(f, g, s)
    BY DEF SumsUpTo
  <2>2. s \ {FirstOf(s)} \in SUBSET U
    OBVIOUS
  <2>3. h[s \ {FirstOf(s)}] = g[s \ {FirstOf(s)}]
    BY <2>2
  <2> QED BY <2>1, <2>3 DEF SumStep
<1>2. h = [s \in SUBSET U |-> SumStep(f, h, s)]
  <2>1. \A s \in SUBSET U : h[s] = SumStep(f, h, s)
    BY <1>1
  <2> QED BY <2>1
<1> QED BY <1>2 DEF SumsUpTo

(* Every finite set has such a function.                                   *)
LEMMA SumsExist ==
    ASSUME NEW S, IsFiniteSet(S), NEW f
    PROVE  \E g : SumsUpTo(f, g, S)
<1> DEFINE D == {T \in SUBSET S : ~ \E g : SumsUpTo(f, g, T)}
<1>1. SUFFICES ASSUME D # {} PROVE FALSE
  OBVIOUS
<1>2. PICK T \in D : \A U \in D : ~Within(U, T)
  <2>1. D \subseteq SUBSET S
    OBVIOUS
  <2> HIDE DEF D
  <2> QED BY <1>1, <2>1, MinimalSubset
<1> DEFINE H(U) == CHOOSE g : SumsUpTo(f, g, U)
<1>3. ASSUME NEW U \in SUBSET T, U # T
      PROVE  SumsUpTo(f, H(U), U)
  <2>1. U \notin D /\ U \in SUBSET S
    BY <1>2, <1>3 DEF Within
  <2>2. \E g : SumsUpTo(f, g, U)
    BY <2>1
  <2> QED BY <2>2
<1> HIDE DEF H
<1> DEFINE h == [s \in SUBSET T |-> IF s = T THEN SumStep(f, H(T \ {FirstOf(T)}), T)
                                          ELSE H(s)[s]]
<1>4. ASSUME NEW s \in SUBSET T
      PROVE  h[s] = SumStep(f, h, s)
  <2>1. CASE s = {}
    <3>1. CASE s = T
      BY <2>1, <3>1 DEF SumStep
    <3>2. CASE s # T
      <4>1. h[s] = H(s)[s]
        BY <3>2
      <4>2. H(s)[s] = SumStep(f, H(s), s)
        BY <1>3, <3>2 DEF SumsUpTo
      <4> QED BY <2>1, <4>1, <4>2 DEF SumStep
    <3> QED BY <3>1, <3>2
  <2>2. CASE s # {}
    <3> DEFINE r == s \ {FirstOf(s)}
    <3>1. r \in SUBSET T /\ r # T /\ r \in SUBSET s
      BY <2>2, PickElement
    <3>2. h[r] = H(r)[r]
      BY <3>1
    <3>3. CASE s = T
      <4>1. h[s] = SumStep(f, H(r), s)
        BY <3>3
      <4> QED BY <2>2, <3>2, <4>1 DEF SumStep
    <3>4. CASE s # T
      <4>1. SumsUpTo(f, H(s), s) /\ SumsUpTo(f, H(r), r)
        BY <1>3, <3>1, <3>4
      <4>3. IsFiniteSet(r)
        BY <3>1, FS_Subset
      <4> HIDE DEF r
      <4>2. SumsUpTo(f, [u \in SUBSET r |-> H(s)[u]], r)
        <5>1. PICK g : g = H(s)
          OBVIOUS
        <5>2. SumsUpTo(f, g, s) /\ r \in SUBSET s
          BY <3>1, <4>1, <5>1
        <5>3. SumsUpTo(f, [u \in SUBSET r |-> g[u]], r)
          BY <5>2, SumsRestrict
        <5> QED BY <5>1, <5>3
      <4>4. H(r) = [u \in SUBSET r |-> H(s)[u]]
        BY <4>1, <4>2, <4>3, SumsUnique
      <4>5. H(r)[r] = H(s)[r]
        BY <4>4
      <4>6. h[s] = H(s)[s]
        BY <3>4
      <4>7. H(s)[s] = SumStep(f, H(s), s)
        BY <4>1 DEF SumsUpTo
      <4> HIDE DEF h
      <4> QED BY <2>2, <3>2, <4>5, <4>6, <4>7 DEF SumStep, r
    <3> QED BY <3>3, <3>4
  <2> QED BY <2>1, <2>2
<1>5. h = [s \in SUBSET T |-> SumStep(f, h, s)]
  <2>1. \A s \in SUBSET T : h[s] = SumStep(f, h, s)
    BY <1>4
  <2> QED BY <2>1
<1>6. SumsUpTo(f, h, T)
  BY <1>5 DEF SumsUpTo
<1> HIDE DEF h
<1> QED BY <1>6

-----------------------------------------------------------------------------
(* The sum over the empty set, and one step of the recursion.              *)
LEMMA SumEmpty ==
    ASSUME NEW f
    PROVE  SumFunctionOnSet(f, {}) = 0
<1>1. \E g : SumsUpTo(f, g, {})
  BY FS_EmptySet, SumsExist
<1>2. \A g : SumsUpTo(f, g, {}) => g[{}] = 0
  BY DEF SumsUpTo, SumStep
<1> QED BY <1>1, <1>2, SumIsChosen

(* A sum is its first value and the sum of the rest.                       *)
LEMMA SumUnfold ==
    ASSUME NEW f, NEW S, IsFiniteSet(S), S # {}
    PROVE  SumFunctionOnSet(f, S)
             = f[FirstOf(S)] + SumFunctionOnSet(f, S \ {FirstOf(S)})
<1> DEFINE U == S \ {FirstOf(S)}
           g == CHOOSE g : SumsUpTo(f, g, S)
           h == CHOOSE h : SumsUpTo(f, h, U)
<1>1. U \in SUBSET S /\ IsFiniteSet(U)
  BY FS_Subset
<1>2. SumsUpTo(f, g, S) /\ SumsUpTo(f, h, U)
  BY <1>1, SumsExist
<1>3. SumFunctionOnSet(f, S) = g[S] /\ SumFunctionOnSet(f, U) = h[U]
  BY SumIsChosen
<1> HIDE DEF g, h
<1>4. g[S] = f[FirstOf(S)] + g[U]
  BY <1>2 DEF SumsUpTo, SumStep
<1> HIDE DEF U
<1>5. SumsUpTo(f, [s \in SUBSET U |-> g[s]], U)
  BY <1>1, <1>2, SumsRestrict
<1>6. h = [s \in SUBSET U |-> g[s]]
  BY <1>1, <1>2, <1>5, SumsUnique
<1>7. h[U] = g[U]
  BY <1>6
<1> QED BY <1>3, <1>4, <1>7 DEF U

(* The sum of integers is an integer.                                      *)
LEMMA SumInteger ==
    ASSUME NEW S, IsFiniteSet(S), NEW f, \A x \in S : f[x] \in Int
    PROVE  SumFunctionOnSet(f, S) \in Int
<1> DEFINE D == {T \in SUBSET S : SumFunctionOnSet(f, T) \notin Int}
<1>1. SUFFICES ASSUME D # {} PROVE FALSE
  OBVIOUS
<1>2. PICK T \in D : \A U \in D : ~Within(U, T)
  <2>1. D \subseteq SUBSET S
    OBVIOUS
  <2> HIDE DEF D
  <2> QED BY <1>1, <2>1, MinimalSubset
<1>3. T # {} /\ IsFiniteSet(T)
  <2>1. SumFunctionOnSet(f, {}) \in Int
    BY SumEmpty
  <2> QED BY <2>1, FS_Subset
<1> DEFINE U == T \ {FirstOf(T)}
<1>4. FirstOf(T) \in T /\ U \in SUBSET S /\ Within(U, T)
  BY <1>3, PickElement DEF Within
<1>5. SumFunctionOnSet(f, U) \in Int
  BY <1>2, <1>4
<1>6. SumFunctionOnSet(f, T) = f[FirstOf(T)] + SumFunctionOnSet(f, U)
  BY <1>3, SumUnfold
<1> QED BY <1>4, <1>5, <1>6

(* An element that leaves the set takes its value out, whatever the order  *)
(* in which the sum takes them.                                            *)
LEMMA SumRemove ==
    ASSUME NEW S, IsFiniteSet(S), NEW f, \A y \in S : f[y] \in Int,
           NEW x \in S
    PROVE  SumFunctionOnSet(f, S) = SumFunctionOnSet(f, S \ {x}) + f[x]
<1> DEFINE Sum(T) == SumFunctionOnSet(f, T)
           D == {T \in SUBSET S : \E y \in T : Sum(T) # Sum(T \ {y}) + f[y]}
<1>1. SUFFICES ASSUME D # {} PROVE FALSE
  OBVIOUS
<1>2. PICK T \in D : \A U \in D : ~Within(U, T)
  <2>1. D \subseteq SUBSET S
    OBVIOUS
  <2> HIDE DEF D
  <2> QED BY <1>1, <2>1, MinimalSubset
<1>3. PICK y \in T : Sum(T) # Sum(T \ {y}) + f[y]
  BY <1>2
<1> DEFINE z == FirstOf(T)
<1>4. z \in T /\ T \in SUBSET S /\ IsFiniteSet(T)
  BY PickElement, FS_Subset
<1>5. Sum(T) = f[z] + Sum(T \ {z})
  BY <1>4, SumUnfold
<1>6. ASSUME NEW U \in SUBSET S
      PROVE  Sum(U) \in Int
  BY <1>6, FS_Subset, SumInteger
<1>7. ASSUME NEW U \in SUBSET T, U # T, NEW u \in U
      PROVE  Sum(U) = Sum(U \ {u}) + f[u]
  <2>1. Within(U, T) /\ U \in SUBSET S
    BY <1>4, <1>7 DEF Within
  <2> QED BY <1>2, <2>1
<1> HIDE DEF z, Sum, D
<1>8. CASE y = z
  BY <1>3, <1>4, <1>5, <1>6, <1>8
<1>9. CASE y # z
  <2>1. Sum(T \ {z}) = Sum((T \ {z}) \ {y}) + f[y]
    BY <1>4, <1>7, <1>9
  <2>2. Sum(T \ {y}) = Sum((T \ {y}) \ {z}) + f[z]
    BY <1>4, <1>7, <1>9
  <2>3. (T \ {z}) \ {y} = (T \ {y}) \ {z}
    OBVIOUS
  <2> DEFINE c == Sum((T \ {y}) \ {z})
  <2>4. c \in Int /\ f[y] \in Int /\ f[z] \in Int
    BY <1>4, <1>6
  <2>5. Sum(T \ {z}) = c + f[y] /\ Sum(T \ {y}) = c + f[z]
    BY <2>1, <2>2, <2>3
  <2> HIDE DEF c
  <2> QED BY <1>3, <1>5, <2>4, <2>5
<1> QED BY <1>8, <1>9

(* An element that joins the set adds its value.                           *)
LEMMA SumAdd ==
    ASSUME NEW S, IsFiniteSet(S), NEW x, x \notin S, NEW f,
           \A y \in S \cup {x} : f[y] \in Int
    PROVE  SumFunctionOnSet(f, S \cup {x}) = SumFunctionOnSet(f, S) + f[x]
<1> DEFINE T == S \cup {x}
<1>1. IsFiniteSet(T) /\ x \in T /\ T \ {x} = S
  BY FS_AddElement
<1> HIDE DEF T
<1>2. SumFunctionOnSet(f, T) = SumFunctionOnSet(f, T \ {x}) + f[x]
  BY <1>1, SumRemove DEF T
<1> QED BY <1>1, <1>2 DEF T

(* Functions that agree on the set have the same sum.                      *)
LEMMA SumAgree ==
    ASSUME NEW S, IsFiniteSet(S), NEW f, NEW g, \A x \in S : f[x] = g[x]
    PROVE  SumFunctionOnSet(f, S) = SumFunctionOnSet(g, S)
<1> DEFINE D == {T \in SUBSET S : SumFunctionOnSet(f, T) # SumFunctionOnSet(g, T)}
<1>1. SUFFICES ASSUME D # {} PROVE FALSE
  OBVIOUS
<1>2. PICK T \in D : \A U \in D : ~Within(U, T)
  <2>1. D \subseteq SUBSET S
    OBVIOUS
  <2> HIDE DEF D
  <2> QED BY <1>1, <2>1, MinimalSubset
<1>3. T # {} /\ IsFiniteSet(T)
  <2>1. SumFunctionOnSet(f, {}) = SumFunctionOnSet(g, {})
    BY SumEmpty
  <2> QED BY <2>1, FS_Subset
<1> DEFINE U == T \ {FirstOf(T)}
<1>4. FirstOf(T) \in T /\ U \in SUBSET S /\ Within(U, T)
  BY <1>3, PickElement DEF Within
<1>5. SumFunctionOnSet(f, U) = SumFunctionOnSet(g, U)
  BY <1>2, <1>4
<1>6. /\ SumFunctionOnSet(f, T) = f[FirstOf(T)] + SumFunctionOnSet(f, U)
      /\ SumFunctionOnSet(g, T) = g[FirstOf(T)] + SumFunctionOnSet(g, U)
  BY <1>3, SumUnfold
<1> QED BY <1>2, <1>4, <1>5, <1>6

(* When one value changes, the sum changes by as much.                     *)
LEMMA SumChange ==
    ASSUME NEW S, IsFiniteSet(S), NEW f, NEW g, NEW x \in S,
           \A y \in S : f[y] \in Int /\ g[y] \in Int,
           \A y \in S \ {x} : f[y] = g[y]
    PROVE  SumFunctionOnSet(g, S) = SumFunctionOnSet(f, S) + (g[x] - f[x])
<1>1. IsFiniteSet(S \ {x})
  BY FS_RemoveElement
<1>2. SumFunctionOnSet(f, S \ {x}) = SumFunctionOnSet(g, S \ {x})
  BY <1>1, SumAgree
<1>3. /\ SumFunctionOnSet(f, S) = SumFunctionOnSet(f, S \ {x}) + f[x]
      /\ SumFunctionOnSet(g, S) = SumFunctionOnSet(g, S \ {x}) + g[x]
  BY SumRemove
<1>4. SumFunctionOnSet(f, S \ {x}) \in Int
  BY <1>1, SumInteger
<1> QED BY <1>2, <1>3, <1>4

(* The sum of two functions has the sum of their sums.                     *)
LEMMA SumPlus ==
    ASSUME NEW S, IsFiniteSet(S), NEW f, NEW g, NEW h,
           \A x \in S : f[x] \in Int /\ g[x] \in Int /\ h[x] = f[x] + g[x]
    PROVE  SumFunctionOnSet(h, S) = SumFunctionOnSet(f, S) + SumFunctionOnSet(g, S)
<1> DEFINE Sum(e, T) == SumFunctionOnSet(e, T)
           D == {T \in SUBSET S : Sum(h, T) # Sum(f, T) + Sum(g, T)}
<1>1. SUFFICES ASSUME D # {} PROVE FALSE
  OBVIOUS
<1>2. PICK T \in D : \A U \in D : ~Within(U, T)
  <2>1. D \subseteq SUBSET S
    OBVIOUS
  <2> HIDE DEF D
  <2> QED BY <1>1, <2>1, MinimalSubset
<1>3. T # {} /\ IsFiniteSet(T)
  <2>1. Sum(h, {}) = 0 /\ Sum(f, {}) = 0 /\ Sum(g, {}) = 0
    BY SumEmpty
  <2>2. T \in SUBSET S /\ Sum(h, T) # Sum(f, T) + Sum(g, T)
    OBVIOUS
  <2>3. T # {}
    <3>1. ASSUME T = {} PROVE Sum(h, T) = 0 /\ Sum(f, T) + Sum(g, T) = 0
      BY <2>1, <3>1
    <3> QED BY <2>2, <3>1
  <2>4. IsFiniteSet(T)
    BY <2>2, FS_Subset
  <2> QED BY <2>3, <2>4
<1>4. PICK x \in T : x \in S
  BY <1>3
<1>5. T \ {x} \in SUBSET S /\ Within(T \ {x}, T) /\ IsFiniteSet(T \ {x})
  BY <1>3, <1>4, FS_RemoveElement DEF Within
<1>6. Sum(h, T \ {x}) = Sum(f, T \ {x}) + Sum(g, T \ {x})
  BY <1>2, <1>5
<1>7. /\ Sum(h, T) = Sum(h, T \ {x}) + h[x]
      /\ Sum(f, T) = Sum(f, T \ {x}) + f[x]
      /\ Sum(g, T) = Sum(g, T \ {x}) + g[x]
  <2>1. \A y \in T : f[y] \in Int /\ g[y] \in Int /\ h[y] \in Int
    OBVIOUS
  <2> QED BY <1>3, <1>4, <2>1, SumRemove
<1>8. Sum(f, T \ {x}) \in Int /\ Sum(g, T \ {x}) \in Int
  BY <1>5, SumInteger
<1>9. Sum(h, T) # Sum(f, T) + Sum(g, T)
  BY <1>2
<1> HIDE DEF Sum, D
<1>10. f[x] \in Int /\ g[x] \in Int /\ h[x] = f[x] + g[x]
  BY <1>4
<1> QED BY <1>6, <1>7, <1>8, <1>9, <1>10

(* Functions that are zero everywhere have the sum zero.                   *)
LEMMA SumZero ==
    ASSUME NEW S, IsFiniteSet(S), NEW f, \A x \in S : f[x] = 0
    PROVE  SumFunctionOnSet(f, S) = 0
<1> DEFINE a == SumFunctionOnSet(f, S)
<1>1. \A x \in S : f[x] \in Int /\ f[x] = f[x] + f[x]
  OBVIOUS
<1>2. a = a + a
  BY <1>1, SumPlus
<1>3. a \in Int
  BY SumInteger
<1> HIDE DEF a
<1>4. a = 0
  BY <1>2, <1>3
<1> QED BY <1>4 DEF a

(* The sum of naturals is a natural.                                       *)
LEMMA SumNatural ==
    ASSUME NEW S, IsFiniteSet(S), NEW f, \A x \in S : f[x] \in Nat
    PROVE  SumFunctionOnSet(f, S) \in Nat
<1> DEFINE D == {T \in SUBSET S : SumFunctionOnSet(f, T) \notin Nat}
<1>1. SUFFICES ASSUME D # {} PROVE FALSE
  OBVIOUS
<1>2. PICK T \in D : \A U \in D : ~Within(U, T)
  <2>1. D \subseteq SUBSET S
    OBVIOUS
  <2> HIDE DEF D
  <2> QED BY <1>1, <2>1, MinimalSubset
<1>3. T # {} /\ IsFiniteSet(T)
  <2>1. SumFunctionOnSet(f, {}) \in Nat
    BY SumEmpty
  <2> QED BY <2>1, FS_Subset
<1> DEFINE U == T \ {FirstOf(T)}
<1>4. FirstOf(T) \in T /\ U \in SUBSET S /\ Within(U, T)
  BY <1>3, PickElement DEF Within
<1>5. SumFunctionOnSet(f, U) \in Nat
  BY <1>2, <1>4
<1>6. SumFunctionOnSet(f, T) = f[FirstOf(T)] + SumFunctionOnSet(f, U)
  BY <1>3, SumUnfold
<1>7. f[FirstOf(T)] \in Nat
  BY <1>4
<1> QED BY <1>5, <1>6, <1>7

(* A sum of naturals over part of the set is not larger.                   *)
LEMMA SumOfPart ==
    ASSUME NEW S, IsFiniteSet(S), NEW f, \A x \in S : f[x] \in Nat, NEW T \in SUBSET S
    PROVE  SumFunctionOnSet(f, T) <= SumFunctionOnSet(f, S)
<1> DEFINE Sum(U) == SumFunctionOnSet(f, U)
           D == {U \in SUBSET S : T \subseteq U /\ ~(Sum(T) <= Sum(U))}
<1>1. SUFFICES ASSUME D # {} PROVE FALSE
  OBVIOUS
<1>2. PICK U \in D : \A V \in D : ~Within(V, U)
  <2>1. D \subseteq SUBSET S
    OBVIOUS
  <2> HIDE DEF D
  <2> QED BY <1>1, <2>1, MinimalSubset
<1>3. ASSUME NEW V \in SUBSET S
      PROVE  IsFiniteSet(V) /\ Sum(V) \in Nat
  <2>1. IsFiniteSet(V)
    BY FS_Subset
  <2> QED BY <2>1, SumNatural
<1>4. U \in SUBSET S /\ T \subseteq U /\ ~(Sum(T) <= Sum(U))
  OBVIOUS
<1>5. PICK x \in U : x \notin T
  BY <1>3, <1>4
<1>6. Sum(U) = Sum(U \ {x}) + f[x]
  <2>1. IsFiniteSet(U) /\ \A y \in U : f[y] \in Int
    BY <1>3, <1>4
  <2> QED BY <2>1, SumRemove
<1>7. U \ {x} \in SUBSET S /\ T \subseteq U \ {x} /\ Within(U \ {x}, U)
  BY <1>4, <1>5 DEF Within
<1>8. Sum(T) <= Sum(U \ {x})
  BY <1>2, <1>7
<1> HIDE DEF Sum, D
<1>9. f[x] \in Nat /\ Sum(U \ {x}) \in Nat /\ Sum(T) \in Nat
  BY <1>3, <1>4, <1>7
<1> QED BY <1>4, <1>6, <1>8, <1>9

=============================================================================
