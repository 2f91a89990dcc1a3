-------------------------------- MODULE Sums --------------------------------
(***************************************************************************)
(* Facts about SumFunctionOnSet(f, S), the sum of f[x] over a finite set.  *)
(*                                                                         *)
(* It is a recursive definition.  Induction over a finite set is stated    *)
(* with a family of sets, F, in the place of a predicate: every lemma      *)
(* about sums gives the family of the sets for which it holds.             *)
(***************************************************************************)
EXTENDS Integers, FiniteSets, Functions, FiniteSetTheorems, TLAPS

\* The proper subsets of a set come before it.
LEMMA SubsetInduction ==
  ASSUME NEW S, IsFiniteSet(S), NEW F,
         \A T \in SUBSET S : (\A U \in SUBSET T : U # T => U \in F) => T \in F
  PROVE  S \in F
<1> SUFFICES ASSUME S \notin F PROVE FALSE
  OBVIOUS
<1> DEFINE Bad == {T \in SUBSET S : T \notin F}
<1>1. Bad # {} /\ Bad \subseteq SUBSET S
  OBVIOUS
<1>2. IsWellFoundedOn(StrictSubsetOrdering(S), SUBSET S)
  <2>1. FiniteSubsetsOf(S) = SUBSET S
    BY FS_FiniteSubsetsOfFinite
  <2>2. IsWellFoundedOn(StrictSubsetOrdering(S), FiniteSubsetsOf(S))
    BY FS_StrictSubsetOrderingWellFounded
  <2> QED BY <2>1, <2>2
<1>3. PICK T \in Bad : \A U \in Bad : <<U, T>> \notin StrictSubsetOrdering(S)
  <2> HIDE DEF Bad
  <2> QED BY <1>1, <1>2, WFMin
<1>4. \A U \in SUBSET T : U # T => U \in F
  <2> SUFFICES ASSUME NEW U \in SUBSET T, U # T, U \notin F PROVE FALSE
    OBVIOUS
  <2>1. U \in Bad
    OBVIOUS
  <2>2. <<U, T>> \in StrictSubsetOrdering(S)
    BY DEF StrictSubsetOrdering
  <2> QED BY <2>1, <2>2, <1>3
<1>5. T \in SUBSET S /\ T \notin F
  OBVIOUS
<1> QED BY <1>4, <1>5

\* A finite set is built one element at a time.
LEMMA SetInduction ==
  ASSUME NEW S, IsFiniteSet(S), NEW F, {} \in F,
         \A T \in SUBSET S, x \in S : T \in F /\ x \notin T => T \cup {x} \in F
  PROVE  S \in F
<1> SUFFICES ASSUME NEW T \in SUBSET S,
                    \A U \in SUBSET T : U # T => U \in F
             PROVE  T \in F
  BY SubsetInduction
<1>1. CASE T = {}
  BY <1>1
<1>2. CASE T # {}
  <2>1. PICK x \in T : TRUE
    BY <1>2
  <2> DEFINE U == T \ {x}
  <2>2. U \in F /\ U \in SUBSET S /\ x \in S /\ x \notin U /\ T = U \cup {x}
    BY <2>1
  <2> HIDE DEF U
  <2> QED BY <2>2
<1> QED BY <1>1, <1>2

-----------------------------------------------------------------------------
(* The recursive definition.                                               *)

First(S) == CHOOSE x \in S : TRUE

\* g is the function that SumFunctionOnSet(f, S) applies to S.
SumsUpTo(f, S, g) ==
    g = [T \in SUBSET S |->
           IF T = {} THEN 0 ELSE f[First(T)] + g[T \ {First(T)}]]

\* The element that the sum takes first is one of the set.
LEMMA FirstIn == \A S : S # {} => First(S) \in S
  BY DEF First

\* The sum is the value of that function at the set.
LEMMA SumUnfold ==
  ASSUME NEW f, NEW S
  PROVE  SumFunctionOnSet(f, S) = (CHOOSE g : SumsUpTo(f, S, g))[S]
  BY DEF SumFunctionOnSet, FoldFunctionOnSet, MapThenFoldSet, SumsUpTo, First

\* Two such functions agree where both are defined.
LEMMA SumsAgree ==
  ASSUME NEW f, NEW S, IsFiniteSet(S), NEW T \in SUBSET S,
         NEW g, SumsUpTo(f, S, g), NEW h, SumsUpTo(f, T, h)
  PROVE  g[T] = h[T]
<1> DEFINE F == {U \in SUBSET T : g[U] = h[U]}
<1>1. IsFiniteSet(T)
  BY FS_Subset
<1>2. ASSUME NEW U \in SUBSET T, \A V \in SUBSET U : V # U => V \in F
      PROVE  U \in F
  <2>1. U # {} => U \ {First(U)} \in F
    BY <1>2, FirstIn
  <2>2. U # {} => g[U \ {First(U)}] = h[U \ {First(U)}]
    BY <2>1
  <2>3. /\ g[U] = IF U = {} THEN 0 ELSE f[First(U)] + g[U \ {First(U)}]
        /\ h[U] = IF U = {} THEN 0 ELSE f[First(U)] + h[U \ {First(U)}]
    BY DEF SumsUpTo
  <2> QED BY <2>2, <2>3
<1>3. T \in F
  <2> HIDE DEF F
  <2> QED BY <1>1, <1>2, SubsetInduction
<1> QED BY <1>3

\* There is such a function, so the CHOOSE is not arbitrary.
LEMMA SumsExist ==
  ASSUME NEW f, NEW S, IsFiniteSet(S)
  PROVE  \E g : SumsUpTo(f, S, g)
<1> DEFINE G(T) == CHOOSE g : SumsUpTo(f, T, g)
           F == {T \in SUBSET S : \E g : SumsUpTo(f, T, g)}
<1>1. ASSUME NEW T \in SUBSET S, \A U \in SUBSET T : U # T => U \in F
      PROVE  T \in F
  <2> DEFINE Rest(U) == U \ {First(U)}
             Value(U) == IF U = {} THEN 0 ELSE f[First(U)] + G(Rest(U))[Rest(U)]
             g == [U \in SUBSET T |-> Value(U)]
  <2>1. ASSUME NEW U \in SUBSET T, U # T
        PROVE  SumsUpTo(f, U, G(U))
    BY <1>1, <2>1
  <2>2. ASSUME NEW U \in SUBSET T, U # {}
        PROVE  g[Rest(U)] = G(Rest(U))[Rest(U)]
    <3> DEFINE R == Rest(U)
    <3>1. First(U) \in U /\ R \in SUBSET T /\ R # T
      BY <2>2, FirstIn
    <3>2. SumsUpTo(f, R, G(R))
      BY <2>1, <3>1
    <3>3. G(R)[R] = IF R = {} THEN 0 ELSE f[First(R)] + G(R)[Rest(R)]
      <4> HIDE DEF G
      <4> QED BY <3>2 DEF SumsUpTo
    <3>4. ASSUME R # {} PROVE G(R)[Rest(R)] = G(Rest(R))[Rest(R)]
      <4>1. Rest(R) \in SUBSET R /\ Rest(R) # T /\ Rest(R) \in SUBSET T
        BY <3>1, <3>4, FirstIn
      <4>2. SumsUpTo(f, Rest(R), G(Rest(R)))
        BY <2>1, <4>1
      <4>3. IsFiniteSet(R)
        BY <3>1, FS_Subset
      <4> HIDE DEF G, R, Rest
      <4> QED BY <3>2, <4>1, <4>2, <4>3, SumsAgree
    <3>5. G(R)[R] = Value(R)
      <4> HIDE DEF G, R
      <4> QED BY <3>3, <3>4
    <3>6. g[R] = Value(R)
      <4> HIDE DEF Value, R
      <4> QED BY <3>1
    <3> HIDE DEF G, g, Value
    <3> QED BY <3>5, <3>6
  <2>3. ASSUME NEW U \in SUBSET T
        PROVE  Value(U) = IF U = {} THEN 0 ELSE f[First(U)] + g[Rest(U)]
    <3> HIDE DEF g, Rest, G
    <3> QED BY <2>2
  <2>4. SumsUpTo(f, T, g)
    <3> HIDE DEF Value
    <3> QED BY <2>3 DEF SumsUpTo
  <2> HIDE DEF g
  <2> QED BY <2>4
<1>2. S \in F
  <2> HIDE DEF F
  <2> QED BY <1>1, SubsetInduction
<1> QED BY <1>2

\* The sum takes the first element and adds up the rest.
LEMMA SumRecursion ==
  ASSUME NEW f, NEW S, IsFiniteSet(S)
  PROVE  SumFunctionOnSet(f, S) =
           IF S = {} THEN 0
           ELSE f[First(S)] + SumFunctionOnSet(f, S \ {First(S)})
<1> DEFINE G(T) == CHOOSE g : SumsUpTo(f, T, g)
           R == S \ {First(S)}
<1>1. IsFiniteSet(R) /\ R \in SUBSET S
  BY FS_RemoveElement
<1>2. SumsUpTo(f, S, G(S)) /\ SumsUpTo(f, R, G(R))
  <2>1. (\E g : SumsUpTo(f, S, g)) /\ (\E g : SumsUpTo(f, R, g))
    <3> HIDE DEF R
    <3> QED BY <1>1, SumsExist
  <2> HIDE DEF R
  <2> QED BY <2>1
<1>3. SumFunctionOnSet(f, S) = G(S)[S] /\ SumFunctionOnSet(f, R) = G(R)[R]
  <2> HIDE DEF R
  <2> QED BY SumUnfold
<1> HIDE DEF G
<1>4. G(S)[R] = G(R)[R]
  <2> HIDE DEF R
  <2> QED BY <1>1, <1>2, SumsAgree
<1>5. G(S)[S] = IF S = {} THEN 0 ELSE f[First(S)] + G(S)[R]
  BY <1>2 DEF SumsUpTo
<1> QED BY <1>3, <1>4, <1>5
-----------------------------------------------------------------------------
(* What a sum is, whatever the order of its terms.                         *)

\* Nothing sums to zero.
LEMMA SumEmpty == \A f : SumFunctionOnSet(f, {}) = 0
  BY SumRecursion, FS_EmptySet

IntegerOn(f, S) == \A x \in S : f[x] \in Int

\* Integers sum to an integer.
LEMMA SumInteger ==
  ASSUME NEW f, NEW S, IsFiniteSet(S), IntegerOn(f, S)
  PROVE  SumFunctionOnSet(f, S) \in Int
<1> DEFINE F == {T \in SUBSET S : SumFunctionOnSet(f, T) \in Int}
<1>1. ASSUME NEW T \in SUBSET S, \A U \in SUBSET T : U # T => U \in F
      PROVE  T \in F
  <2>1. CASE T = {}
    BY <2>1, SumEmpty
  <2>2. CASE T # {}
    <3>1. First(T) \in T /\ T \ {First(T)} \in F
      BY <1>1, <2>2, FirstIn
    <3>2. IsFiniteSet(T)
      BY FS_Subset
    <3> QED BY <2>2, <3>1, <3>2, SumRecursion DEF IntegerOn
  <2> QED BY <2>1, <2>2
<1> HIDE DEF F
<1>2. S \in F
  BY <1>1, SubsetInduction
<1> QED BY <1>2 DEF F

\* Natural numbers sum to a natural number.
LEMMA SumNatural ==
  ASSUME NEW f, NEW S, IsFiniteSet(S), \A x \in S : f[x] \in Nat
  PROVE  SumFunctionOnSet(f, S) \in Nat
<1> DEFINE F == {T \in SUBSET S : SumFunctionOnSet(f, T) \in Nat}
<1>1. ASSUME NEW T \in SUBSET S, \A U \in SUBSET T : U # T => U \in F
      PROVE  T \in F
  <2>1. CASE T = {}
    BY <2>1, SumEmpty
  <2>2. CASE T # {}
    <3>1. First(T) \in T /\ T \ {First(T)} \in F
      BY <1>1, <2>2, FirstIn
    <3>2. IsFiniteSet(T)
      BY FS_Subset
    <3> QED BY <2>2, <3>1, <3>2, SumRecursion
  <2> QED BY <2>1, <2>2
<1> HIDE DEF F
<1>2. S \in F
  BY <1>1, SubsetInduction
<1> QED BY <1>2 DEF F

\* Any element may be taken first.
LEMMA SumRemove ==
  ASSUME NEW f, NEW S, IsFiniteSet(S), IntegerOn(f, S), NEW x \in S
  PROVE  SumFunctionOnSet(f, S) = f[x] + SumFunctionOnSet(f, S \ {x})
<1> DEFINE Sum(T) == SumFunctionOnSet(f, T)
           F == {T \in SUBSET S : \A y \in T : Sum(T) = f[y] + Sum(T \ {y})}
<1>0. \A T \in SUBSET S : IsFiniteSet(T) /\ Sum(T) \in Int
  <2> TAKE T \in SUBSET S
  <2>1. IsFiniteSet(T) /\ IntegerOn(f, T)
    BY FS_Subset DEF IntegerOn
  <2> QED BY <2>1, SumInteger
<1>1. ASSUME NEW T \in SUBSET S, \A U \in SUBSET T : U # T => U \in F
      PROVE  T \in F
  <2> SUFFICES ASSUME NEW y \in T PROVE Sum(T) = f[y] + Sum(T \ {y})
    OBVIOUS
  <2> DEFINE p == First(T)
  <2>1. p \in T
    BY FirstIn
  <2>2. Sum(T) = f[p] + Sum(T \ {p})
    BY <1>0, SumRecursion
  <2> HIDE DEF p, Sum
  <2>3. CASE y = p
    BY <2>2, <2>3
  <2>4. CASE y # p
    <3>1. T \ {p} \in F /\ T \ {y} \in F
      BY <1>1, <2>1
    <3>2. /\ Sum(T \ {p}) = f[y] + Sum((T \ {p}) \ {y})
          /\ Sum(T \ {y}) = f[p] + Sum((T \ {y}) \ {p})
      BY <2>1, <2>4, <3>1
    <3> DEFINE R == (T \ {p}) \ {y}
    <3>3. R = (T \ {y}) \ {p} /\ R \in SUBSET S
      OBVIOUS
    <3>4. f[p] \in Int /\ f[y] \in Int /\ Sum(R) \in Int
      BY <1>0, <2>1, <3>3 DEF IntegerOn
    <3>5. Sum(T \ {p}) = f[y] + Sum(R) /\ Sum(T \ {y}) = f[p] + Sum(R)
      BY <3>2, <3>3
    <3> HIDE DEF R
    <3> QED BY <2>2, <3>4, <3>5
  <2> QED BY <2>3, <2>4
<1> HIDE DEF F
<1>2. S \in F
  BY <1>1, SubsetInduction
<1> QED BY <1>2 DEF F

\* A new element adds its term.
LEMMA SumAdd ==
  ASSUME NEW f, NEW S, IsFiniteSet(S), NEW x, x \notin S, IntegerOn(f, S \cup {x})
  PROVE  SumFunctionOnSet(f, S \cup {x}) = f[x] + SumFunctionOnSet(f, S)
<1>1. IsFiniteSet(S \cup {x}) /\ (S \cup {x}) \ {x} = S
  BY FS_AddElement
<1> QED BY <1>1, SumRemove

\* Only the terms count.
LEMMA SumEqual ==
  ASSUME NEW f, NEW g, NEW S, IsFiniteSet(S), \A x \in S : f[x] = g[x]
  PROVE  SumFunctionOnSet(f, S) = SumFunctionOnSet(g, S)
<1> DEFINE F == {T \in SUBSET S : SumFunctionOnSet(f, T) = SumFunctionOnSet(g, T)}
<1>1. ASSUME NEW T \in SUBSET S, \A U \in SUBSET T : U # T => U \in F
      PROVE  T \in F
  <2>1. IsFiniteSet(T)
    BY FS_Subset
  <2>2. CASE T = {}
    BY <2>2, SumEmpty
  <2>3. CASE T # {}
    <3>1. First(T) \in T /\ T \ {First(T)} \in F
      BY <1>1, <2>3, FirstIn
    <3> QED BY <2>1, <2>3, <3>1, SumRecursion
  <2> QED BY <2>2, <2>3
<1> HIDE DEF F
<1>2. S \in F
  BY <1>1, SubsetInduction
<1> QED BY <1>2 DEF F

\* Sums add up term by term, with any two weights.
LEMMA SumLinear ==
  ASSUME NEW S, IsFiniteSet(S), NEW f, NEW g, NEW h, NEW a \in Int, NEW b \in Int,
         IntegerOn(f, S), IntegerOn(g, S), \A x \in S : h[x] = a * f[x] + b * g[x]
  PROVE  SumFunctionOnSet(h, S) =
           a * SumFunctionOnSet(f, S) + b * SumFunctionOnSet(g, S)
<1> DEFINE Sum(k, T) == SumFunctionOnSet(k, T)
           F == {T \in SUBSET S : Sum(h, T) = a * Sum(f, T) + b * Sum(g, T)}
<1>1. {} \in F
  BY SumEmpty
<1>2. ASSUME NEW T \in SUBSET S, NEW x \in S, T \in F, x \notin T
      PROVE  T \cup {x} \in F
  <2>1. IsFiniteSet(T) /\ T \cup {x} \in SUBSET S
    BY FS_Subset
  <2>2. /\ IntegerOn(f, T) /\ IntegerOn(f, T \cup {x}) /\ IntegerOn(g, T)
        /\ IntegerOn(g, T \cup {x}) /\ IntegerOn(h, T \cup {x})
    BY <2>1 DEF IntegerOn
  <2>3. Sum(f, T) \in Int /\ Sum(g, T) \in Int
    BY <2>1, <2>2, SumInteger
  <2>4. Sum(f, T \cup {x}) = f[x] + Sum(f, T)
    BY <1>2, <2>1, <2>2, SumAdd
  <2>5. Sum(g, T \cup {x}) = g[x] + Sum(g, T)
    BY <1>2, <2>1, <2>2, SumAdd
  <2>6. Sum(h, T \cup {x}) = h[x] + Sum(h, T)
    BY <1>2, <2>1, <2>2, SumAdd
  <2>7. /\ f[x] \in Int /\ g[x] \in Int /\ h[x] = a * f[x] + b * g[x]
        /\ Sum(h, T) = a * Sum(f, T) + b * Sum(g, T)
    BY <1>2 DEF IntegerOn
  <2> HIDE DEF Sum
  <2>8. \A i, j, k, l \in Int :
          /\ a * (i + j) = a * i + a * j /\ b * (k + l) = b * k + b * l
          /\ a * i \in Int /\ a * j \in Int /\ b * k \in Int /\ b * l \in Int
    OBVIOUS
  <2>9. Sum(h, T \cup {x}) = a * Sum(f, T \cup {x}) + b * Sum(g, T \cup {x})
    BY <2>3, <2>4, <2>5, <2>6, <2>7, <2>8
  <2> QED BY <2>1, <2>9
<1> HIDE DEF F
<1>3. S \in F
  BY <1>1, <1>2, SetInduction
<1> QED BY <1>3 DEF F

\* Zeros sum to zero.
LEMMA SumZero ==
  ASSUME NEW f, NEW S, IsFiniteSet(S), \A x \in S : f[x] = 0
  PROVE  SumFunctionOnSet(f, S) = 0
<1>1. IntegerOn(f, S) /\ \A x \in S : f[x] = 0 * f[x] + 0 * f[x]
  BY DEF IntegerOn
<1>2. SumFunctionOnSet(f, S) = 0 * SumFunctionOnSet(f, S) + 0 * SumFunctionOnSet(f, S)
  BY <1>1, SumLinear
<1> QED BY <1>1, <1>2, SumInteger

\* A sum may be taken over the places that an injection moves its terms to.
LEMMA SumMoved ==
  ASSUME NEW S, IsFiniteSet(S), NEW f, IntegerOn(f, S),
         NEW h, \A x, y \in S : h[x] = h[y] => x = y,
         NEW g, \A x \in S : g[h[x]] = f[x]
  PROVE  SumFunctionOnSet(g, {h[x] : x \in S}) = SumFunctionOnSet(f, S)
<1> DEFINE To(T) == {h[x] : x \in T}
           F == {T \in SUBSET S :
                   /\ IsFiniteSet(To(T))
                   /\ SumFunctionOnSet(g, To(T)) = SumFunctionOnSet(f, T)}
<1>1. {} \in F
  <2>1. To({}) = {}
    OBVIOUS
  <2> HIDE DEF To
  <2> QED BY <2>1, SumEmpty, FS_EmptySet
<1>2. ASSUME NEW T \in SUBSET S, NEW x \in S, T \in F, x \notin T
      PROVE  T \cup {x} \in F
  <2>1. IsFiniteSet(T) /\ IntegerOn(f, T \cup {x})
    BY FS_Subset DEF IntegerOn
  <2>2. To(T \cup {x}) = To(T) \cup {h[x]} /\ h[x] \notin To(T)
    BY <1>2
  <2>3. IsFiniteSet(To(T)) /\ IsFiniteSet(To(T) \cup {h[x]})
    BY <1>2, FS_AddElement
  <2>4. IntegerOn(g, To(T) \cup {h[x]})
    BY <2>1 DEF IntegerOn
  <2>5. SumFunctionOnSet(f, T \cup {x}) = f[x] + SumFunctionOnSet(f, T)
    BY <1>2, <2>1, SumAdd
  <2>6. SumFunctionOnSet(g, To(T) \cup {h[x]}) = g[h[x]] + SumFunctionOnSet(g, To(T))
    <3> HIDE DEF To
    <3> QED BY <2>2, <2>3, <2>4, SumAdd
  <2> HIDE DEF To
  <2> QED BY <1>2, <2>2, <2>3, <2>5, <2>6
<1> HIDE DEF F
<1>3. S \in F
  BY <1>1, <1>2, SetInduction
<1> QED BY <1>3 DEF F

\* What no term exceeds.
LEMMA SumBound ==
  ASSUME NEW f, NEW S, IsFiniteSet(S), NEW c \in Nat,
         \A x \in S : f[x] \in Int /\ f[x] <= c
  PROVE  SumFunctionOnSet(f, S) <= Cardinality(S) * c
<1> DEFINE Sum(T) == SumFunctionOnSet(f, T)
           F == {T \in SUBSET S : Sum(T) <= Cardinality(T) * c}
<1>1. {} \in F
  BY SumEmpty, FS_EmptySet
<1>2. ASSUME NEW T \in SUBSET S, NEW x \in S, T \in F, x \notin T
      PROVE  T \cup {x} \in F
  <2>1. IsFiniteSet(T) /\ T \cup {x} \in SUBSET S
    BY FS_Subset
  <2>2. IntegerOn(f, T) /\ IntegerOn(f, T \cup {x})
    BY DEF IntegerOn
  <2>3. Sum(T \cup {x}) = f[x] + Sum(T) /\ Sum(T) \in Int
    BY <1>2, <2>1, <2>2, SumAdd, SumInteger
  <2>4. Cardinality(T \cup {x}) = Cardinality(T) + 1 /\ Cardinality(T) \in Nat
    BY <1>2, <2>1, FS_AddElement, FS_CardinalityType
  <2>5. \A n \in Nat : (n + 1) * c = n * c + c /\ n * c \in Nat
    OBVIOUS
  <2>6. f[x] \in Int /\ f[x] <= c /\ Sum(T) <= Cardinality(T) * c
    BY <1>2
  <2> HIDE DEF Sum
  <2>7. Sum(T \cup {x}) <= Cardinality(T \cup {x}) * c
    BY <2>3, <2>4, <2>5, <2>6
  <2> QED BY <2>1, <2>7
<1> HIDE DEF F
<1>3. S \in F
  BY <1>1, <1>2, SetInduction
<1> QED BY <1>3 DEF F

\* Two sums whose terms differ at one place.
LEMMA SumChange ==
  ASSUME NEW f, NEW g, NEW S, IsFiniteSet(S), NEW p \in S,
         IntegerOn(f, S), IntegerOn(g, S), \A x \in S \ {p} : f[x] = g[x]
  PROVE  SumFunctionOnSet(g, S) = SumFunctionOnSet(f, S) + g[p] - f[p]
<1> DEFINE R == S \ {p}
<1>1. IsFiniteSet(R) /\ IntegerOn(f, R) /\ IntegerOn(g, R)
  BY FS_RemoveElement DEF IntegerOn
<1>2. /\ SumFunctionOnSet(f, S) = f[p] + SumFunctionOnSet(f, R)
      /\ SumFunctionOnSet(g, S) = g[p] + SumFunctionOnSet(g, R)
  BY SumRemove
<1>3. SumFunctionOnSet(f, R) = SumFunctionOnSet(g, R) /\ SumFunctionOnSet(f, R) \in Int
  <2> HIDE DEF R
  <2>1. \A x \in R : f[x] = g[x]
    BY DEF R
  <2> QED BY <1>1, <2>1, SumEqual, SumInteger
<1> QED BY <1>2, <1>3 DEF IntegerOn

\* What the elements of S with each key in K add up to.
PartTotals(parts, f, S, key, K) ==
    \A k \in K : parts[k] = SumFunctionOnSet(f, {x \in S : key[x] = k})

\* The sums over the parts of a set, which a key tells apart, make up its sum.
LEMMA SumParts ==
  ASSUME NEW f, NEW S, IsFiniteSet(S), IntegerOn(f, S),
         NEW K, IsFiniteSet(K), NEW key, \A x \in S : key[x] \in K,
         NEW parts, PartTotals(parts, f, S, key, K)
  PROVE  SumFunctionOnSet(parts, K) = SumFunctionOnSet(f, S)
<1> DEFINE Part(T, k) == {x \in T : key[x] = k}
           Parts(T) == [k \in K |-> SumFunctionOnSet(f, Part(T, k))]
           F == {T \in SUBSET S :
                   SumFunctionOnSet(Parts(T), K) = SumFunctionOnSet(f, T)}
<1>0. ASSUME NEW T \in SUBSET S
      PROVE  /\ IsFiniteSet(T) /\ IntegerOn(f, T) /\ SumFunctionOnSet(f, T) \in Int
             /\ IntegerOn(Parts(T), K)
  <2>1. IsFiniteSet(T) /\ IntegerOn(f, T)
    BY FS_Subset DEF IntegerOn
  <2>2. ASSUME NEW k \in K PROVE SumFunctionOnSet(f, Part(T, k)) \in Int
    <3>1. IsFiniteSet(Part(T, k)) /\ IntegerOn(f, Part(T, k))
      BY <2>1, FS_Subset DEF IntegerOn
    <3> QED BY <3>1, SumInteger
  <2>3. IntegerOn(Parts(T), K)
    <3> HIDE DEF Part
    <3> QED BY <2>2 DEF IntegerOn
  <2> QED BY <2>1, <2>3, SumInteger
<1>1. {} \in F
  <2>1. \A k \in K : Part({}, k) = {}
    OBVIOUS
  <2>2. \A k \in K : Parts({})[k] = 0
    <3> HIDE DEF Part
    <3> QED BY <2>1, SumEmpty
  <2>3. SumFunctionOnSet(Parts({}), K) = 0
    <3> HIDE DEF Parts
    <3> QED BY <2>2, SumZero
  <2> HIDE DEF Parts
  <2> QED BY <2>3, SumEmpty
<1>2. ASSUME NEW T \in SUBSET S, NEW x \in S, T \in F, x \notin T
      PROVE  T \cup {x} \in F
  <2> DEFINE U == T \cup {x}
             p == key[x]
  <2>1. p \in K /\ U \in SUBSET S /\ f[x] \in Int
    BY DEF IntegerOn
  <2>2. SumFunctionOnSet(f, U) = f[x] + SumFunctionOnSet(f, T)
    BY <1>0, <1>2, <2>1, SumAdd
  <2>3. \A k \in K \ {p} : Parts(T)[k] = Parts(U)[k]
    <3>1. \A k \in K \ {p} : Part(T, k) = Part(U, k)
      OBVIOUS
    <3> HIDE DEF Part, U
    <3> QED BY <3>1
  <2>4. Parts(U)[p] = f[x] + Parts(T)[p]
    <3>1. Part(U, p) = Part(T, p) \cup {x} /\ x \notin Part(T, p)
      BY <1>2
    <3>2. IsFiniteSet(Part(T, p)) /\ IntegerOn(f, Part(T, p) \cup {x})
      BY <1>0, FS_Subset DEF IntegerOn
    <3>3. SumFunctionOnSet(f, Part(U, p)) = f[x] + SumFunctionOnSet(f, Part(T, p))
      <4> HIDE DEF Part, U, p
      <4> QED BY <3>1, <3>2, SumAdd
    <3> HIDE DEF Part, U, p
    <3> QED BY <2>1, <3>3
  <2>5. IntegerOn(Parts(T), K) /\ IntegerOn(Parts(U), K)
    <3> HIDE DEF Parts, U
    <3> QED BY <1>0, <2>1
  <2> HIDE DEF Parts, U, p
  <2>6. SumFunctionOnSet(Parts(U), K) =
          SumFunctionOnSet(Parts(T), K) + Parts(U)[p] - Parts(T)[p]
    BY <2>1, <2>3, <2>5, SumChange
  <2>7. SumFunctionOnSet(Parts(U), K) = SumFunctionOnSet(f, U)
    <3>1. SumFunctionOnSet(Parts(T), K) = SumFunctionOnSet(f, T)
      BY <1>2
    <3>2. SumFunctionOnSet(f, T) \in Int /\ Parts(T)[p] \in Int
      BY <1>0, <2>1, <2>5 DEF IntegerOn
    <3> QED BY <2>1, <2>2, <2>4, <2>6, <3>1, <3>2
  <2> QED BY <2>1, <2>7 DEF U
<1> HIDE DEF F
<1>3. S \in F
  BY <1>1, <1>2, SetInduction
<1>4. SumFunctionOnSet(Parts(S), K) = SumFunctionOnSet(f, S)
  BY <1>3 DEF F
<1>5. \A k \in K : parts[k] = Parts(S)[k]
  BY DEF PartTotals
<1> HIDE DEF Parts
<1> QED BY <1>4, <1>5, SumEqual

\* The totals of a table's rows.
Totals(rows, c, S, T) == \A s \in S : rows[s] = SumFunctionOnSet(c[s], T)

\* c is a table of integers, d the same one by columns.
Transposed(c, d, S, T) ==
    \A s \in S, t \in T : c[s][t] \in Int /\ d[t][s] = c[s][t]

\* A table adds up the same by rows and by columns.
LEMMA SumSwap ==
  ASSUME NEW S, IsFiniteSet(S), NEW T, IsFiniteSet(T),
         NEW c, NEW d, Transposed(c, d, S, T),
         NEW rows, Totals(rows, c, S, T), NEW cols, Totals(cols, d, T, S)
  PROVE  SumFunctionOnSet(rows, S) = SumFunctionOnSet(cols, T)
<1>a. /\ \A s \in S : IntegerOn(c[s], T)
      /\ \A t \in T : IntegerOn(d[t], S)
      /\ \A s \in S, t \in T : d[t][s] = c[s][t]
      /\ \A s \in S : rows[s] = SumFunctionOnSet(c[s], T)
      /\ \A t \in T : cols[t] = SumFunctionOnSet(d[t], S)
  BY DEF Transposed, Totals, IntegerOn
<1> USE <1>a
<1> DEFINE Cols(U) == [t \in T |-> SumFunctionOnSet(d[t], U)]
           F == {U \in SUBSET S : SumFunctionOnSet(rows, U) = SumFunctionOnSet(Cols(U), T)}
<1>0. ASSUME NEW U \in SUBSET S
      PROVE  /\ IsFiniteSet(U) /\ IntegerOn(Cols(U), T)
             /\ \A t \in T : IntegerOn(d[t], U)
  <2>1. IsFiniteSet(U)
    BY FS_Subset
  <2>2. \A t \in T : IntegerOn(d[t], U)
    BY DEF IntegerOn
  <2>3. \A t \in T : SumFunctionOnSet(d[t], U) \in Int
    <3> QED BY <2>1, <2>2, SumInteger
  <2>4. IntegerOn(Cols(U), T)
    <3> QED BY <2>3 DEF IntegerOn
  <2> QED BY <2>1, <2>2, <2>4
<1>1. {} \in F
  <2>1. \A t \in T : Cols({})[t] = 0
    <3> QED BY SumEmpty
  <2>2. SumFunctionOnSet(Cols({}), T) = 0
    <3> HIDE DEF Cols
    <3> QED BY <2>1, SumZero
  <2> HIDE DEF Cols
  <2> QED BY <2>2, SumEmpty
<1>2. ASSUME NEW U \in SUBSET S, NEW x \in S, U \in F, x \notin U
      PROVE  U \cup {x} \in F
  <2> DEFINE V == U \cup {x}
  <2>1. V \in SUBSET S
    OBVIOUS
  <2>2. \A t \in T : Cols(V)[t] = 1 * c[x][t] + 1 * Cols(U)[t]
    <3> SUFFICES ASSUME NEW t \in T
                 PROVE  Cols(V)[t] = 1 * c[x][t] + 1 * Cols(U)[t]
      OBVIOUS
    <3>1. IntegerOn(d[t], U \cup {x}) /\ IsFiniteSet(U) /\ d[t][x] = c[x][t]
      <4> HIDE DEF Cols
      <4>1. IntegerOn(d[t], V) /\ IsFiniteSet(U)
        <5> HIDE DEF V
        <5> QED BY <1>0, <2>1
      <4> QED BY <4>1
    <3>2. SumFunctionOnSet(d[t], U \cup {x})
            = d[t][x] + SumFunctionOnSet(d[t], U)
      <4> QED BY <1>2, <3>1, SumAdd
    <3>3. c[x][t] \in Int /\ Cols(U)[t] \in Int
      <4> HIDE DEF Cols
      <4> QED BY <1>0 DEF IntegerOn
    <3>4. Cols(V)[t] = c[x][t] + Cols(U)[t]
      <4> QED BY <3>1, <3>2
    <3> HIDE DEF Cols, V
    <3> QED BY <3>3, <3>4
  <2>3. IntegerOn(c[x], T) /\ IntegerOn(Cols(U), T)
    <3> HIDE DEF Cols
    <3> QED BY <1>0
  <2>4. SumFunctionOnSet(Cols(V), T)
          = 1 * SumFunctionOnSet(c[x], T) + 1 * SumFunctionOnSet(Cols(U), T)
    <3> HIDE DEF Cols, V
    <3> QED BY <2>2, <2>3, SumLinear
  <2>5. SumFunctionOnSet(c[x], T) \in Int /\ SumFunctionOnSet(Cols(U), T) \in Int
    <3> HIDE DEF Cols
    <3> QED BY <2>3, SumInteger
  <2>6. SumFunctionOnSet(rows, V) = rows[x] + SumFunctionOnSet(rows, U)
    <3>1. IsFiniteSet(U) /\ IntegerOn(rows, U \cup {x})
      <4>1. \A s \in S : rows[s] \in Int
        BY SumInteger
      <4>2. IsFiniteSet(U)
        BY FS_Subset
      <4> QED BY <4>1, <4>2 DEF IntegerOn
    <3> QED BY <1>2, <3>1, SumAdd
  <2>7. SumFunctionOnSet(rows, U) = SumFunctionOnSet(Cols(U), T)
    BY <1>2
  <2> HIDE DEF Cols, V
  <2>8. SumFunctionOnSet(rows, V) = SumFunctionOnSet(Cols(V), T)
    BY <2>4, <2>5, <2>6, <2>7
  <2> QED BY <2>1, <2>8 DEF V
<1> HIDE DEF F
<1>3. S \in F
  BY <1>1, <1>2, SetInduction
<1>4. SumFunctionOnSet(rows, S) = SumFunctionOnSet(Cols(S), T)
  BY <1>3 DEF F
<1>5. \A t \in T : Cols(S)[t] = cols[t]
  OBVIOUS
<1> HIDE DEF Cols
<1> QED BY <1>4, <1>5, SumEqual
=============================================================================
