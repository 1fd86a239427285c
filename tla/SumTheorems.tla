---------------------------- MODULE SumTheorems ----------------------------
(***************************************************************************)
(* What SumFunctionOnSet computes on finite sets.                          *)
(***************************************************************************)
EXTENDS Integers, Functions, FiniteSetTheorems, TLAPS

\* A non-empty set of subsets of a finite set has a minimal member.
LEMMA MinimalSet ==
  ASSUME NEW S, IsFiniteSet(S), NEW C \in SUBSET SUBSET S, C # {}
  PROVE  \E T \in C : \A U \in C : U \subseteq T => U = T
<1>1. IsWellFoundedOn(StrictSubsetOrdering(S), SUBSET S)
  BY FS_StrictSubsetOrderingWellFounded, FS_FiniteSubsetsOfFinite
<1>2. \E T \in C : \A U \in C : ~(<<U, T>> \in StrictSubsetOrdering(S))
  BY <1>1, WFMin, Zenon
<1> QED
  BY <1>2 DEF StrictSubsetOrdering

----------------------------------------------------------------------------
(* The recursion is well defined.                                          *)

First(s) == CHOOSE x \in s : TRUE

\* g is what the definition of the sum chooses.
IsSum(g, f, S) ==
  g = [s \in SUBSET S |-> IF s = {} THEN 0 ELSE f[First(s)] + g[s \ {First(s)}]]

LEMMA SumDef ==
  ASSUME NEW f, NEW S
  PROVE  SumFunctionOnSet(f, S) = (CHOOSE g : IsSum(g, f, S))[S]
BY DEF SumFunctionOnSet, FoldFunctionOnSet, MapThenFoldSet, IsSum, First

\* Two such functions agree where both are defined.
LEMMA SumsAgree ==
  ASSUME NEW f, NEW S, NEW T \in SUBSET S, IsFiniteSet(S),
         NEW g, IsSum(g, f, S), NEW h, IsSum(h, f, T)
  PROVE  g[T] = h[T]
<1> DEFINE C == {s \in SUBSET T : g[s] # h[s]}
<1> SUFFICES ASSUME C # {}
             PROVE  FALSE
  OBVIOUS
<1>1. PICK s \in C : \A u \in C : u \subseteq s => u = s
  <2>1. C \in SUBSET SUBSET S
    OBVIOUS
  <2> HIDE DEF C
  <2> QED
    BY <2>1, MinimalSet
<1>2. g[s] = IF s = {} THEN 0 ELSE f[First(s)] + g[s \ {First(s)}]
  BY DEF IsSum
<1>3. h[s] = IF s = {} THEN 0 ELSE f[First(s)] + h[s \ {First(s)}]
  BY DEF IsSum
<1>4. s # {} => First(s) \in s
  BY DEF First
<1>5. s # {} => g[s \ {First(s)}] = h[s \ {First(s)}]
  BY <1>1, <1>4
<1> QED
  BY <1>2, <1>3, <1>5

\* There is one.
LEMMA SumExists ==
  ASSUME NEW f, NEW S, IsFiniteSet(S)
  PROVE  \E g : IsSum(g, f, S)
<1> DEFINE C == {T \in SUBSET S : ~\E g : IsSum(g, f, T)}
           G(T) == CHOOSE g : IsSum(g, f, T)
<1> SUFFICES ASSUME C # {}
             PROVE  FALSE
  OBVIOUS
<1>1. PICK T \in C : \A U \in C : U \subseteq T => U = T
  <2>1. C \in SUBSET SUBSET S
    OBVIOUS
  <2> HIDE DEF C
  <2> QED
    BY <2>1, MinimalSet
<1>2. \A s \in SUBSET T : s # T => IsSum(G(s), f, s)
  BY <1>1
<1> DEFINE H == [s \in SUBSET T |-> IF s = {} THEN 0
                                    ELSE f[First(s)] + G(s \ {First(s)})[s \ {First(s)}]]
<1>3. \A s : s # {} => First(s) \in s
  BY DEF First
<1>4. IsFiniteSet(T)
  BY <1>1, FS_Subset DEF C
<1>5. ASSUME NEW s \in SUBSET T, s # {}
      PROVE  H[s \ {First(s)}] = G(s \ {First(s)})[s \ {First(s)}]
  <2> DEFINE u == s \ {First(s)}
  <2>1. u \in SUBSET T /\ u # T
    BY <1>3, <1>5
  <2>2. IsSum(G(u), f, u)
    BY <1>2, <2>1
  <2>3. G(u)[u] = IF u = {} THEN 0 ELSE f[First(u)] + G(u)[u \ {First(u)}]
    BY <2>2 DEF IsSum
  <2>4. CASE u = {}
    BY <2>1, <2>3, <2>4
  <2>5. CASE u # {}
    <3> DEFINE v == u \ {First(u)}
    <3>1. v \in SUBSET u /\ v # T /\ v \in SUBSET T
      BY <2>1, <2>5, <1>3
    <3>2. IsSum(G(v), f, v)
      BY <1>2, <3>1
    <3>3. IsFiniteSet(u)
      BY <1>4, <2>1, FS_Subset
    <3>4. G(u)[v] = G(v)[v]
      <4> HIDE DEF G, u, v
      <4> QED
        BY <2>2, <3>1, <3>2, <3>3, SumsAgree
    <3> QED
      BY <2>1, <2>3, <2>5, <3>4
  <2> QED
    BY <2>4, <2>5
<1>6. IsSum(H, f, T)
  <2> DEFINE K == [s \in SUBSET T |-> IF s = {} THEN 0 ELSE f[First(s)] + H[s \ {First(s)}]]
  <2>1. \A s \in SUBSET T : H[s] = K[s]
    <3> SUFFICES ASSUME NEW s \in SUBSET T
                 PROVE  H[s] = K[s]
      OBVIOUS
    <3>1. CASE s = {}
      BY <3>1
    <3>2. CASE s # {}
      <4>1. H[s] = f[First(s)] + G(s \ {First(s)})[s \ {First(s)}]
        BY <3>2
      <4>2. K[s] = f[First(s)] + H[s \ {First(s)}]
        BY <3>2
      <4>3. H[s \ {First(s)}] = G(s \ {First(s)})[s \ {First(s)}]
        BY <1>5, <3>2
      <4> QED
        BY <4>1, <4>2, <4>3
    <3> QED
      BY <3>1, <3>2
  <2>2. H = K
    <3>1. DOMAIN H = SUBSET T /\ DOMAIN K = SUBSET T
      OBVIOUS
    <3>2. H = [s \in SUBSET T |-> H[s]] /\ K = [s \in SUBSET T |-> K[s]]
      OBVIOUS
    <3> HIDE DEF H, K
    <3> QED
      BY <2>1, <3>2
  <2> QED
    BY <2>2 DEF IsSum
<1> QED
  BY <1>6 DEF C

\* The sum of a set without one of its elements.
LEMMA SumStep ==
  ASSUME NEW f, NEW S, IsFiniteSet(S)
  PROVE  SumFunctionOnSet(f, S) =
           IF S = {} THEN 0
           ELSE f[First(S)] + SumFunctionOnSet(f, S \ {First(S)})
<1> DEFINE G(T) == CHOOSE g : IsSum(g, f, T)
           U == S \ {First(S)}
<1>1. IsSum(G(S), f, S)
  BY SumExists
<1>2. IsFiniteSet(U) /\ U \in SUBSET S
  BY FS_Subset
<1>3. IsSum(G(U), f, U)
  BY <1>2, SumExists
<1>4. G(S)[U] = G(U)[U]
  BY <1>1, <1>2, <1>3, SumsAgree
<1>5. G(S)[S] = IF S = {} THEN 0 ELSE f[First(S)] + G(S)[U]
  BY <1>1 DEF IsSum
<1>6. SumFunctionOnSet(f, S) = G(S)[S] /\ SumFunctionOnSet(f, U) = G(U)[U]
  BY SumDef, Zenon
<1> HIDE DEF G
<1> QED
  BY <1>4, <1>5, <1>6, Zenon

----------------------------------------------------------------------------
(* Sums of natural numbers.                                                *)

\* A set of subsets of S that has, with each member, a smaller one is empty.
LEMMA NoDescent ==
  ASSUME NEW S, IsFiniteSet(S), NEW C \in SUBSET SUBSET S,
         \A T \in C : \E x \in T : T \ {x} \in C
  PROVE  C = {}
<1>1. ASSUME C # {}
      PROVE  FALSE
  <2>1. PICK T \in C : \A U \in C : U \subseteq T => U = T
    BY <1>1, MinimalSet
  <2>2. PICK x \in T : T \ {x} \in C
    OBVIOUS
  <2> QED
    BY <2>1, <2>2
<1> QED
  BY <1>1

LEMMA SumEmpty ==
  ASSUME NEW f
  PROVE  SumFunctionOnSet(f, {}) = 0
BY SumStep, FS_EmptySet

\* A sum of natural numbers is one.
LEMMA SumType ==
  ASSUME NEW S, IsFiniteSet(S), NEW f, \A x \in S : f[x] \in Nat
  PROVE  SumFunctionOnSet(f, S) \in Nat
<1> DEFINE C == {T \in SUBSET S : SumFunctionOnSet(f, T) \notin Nat}
<1>1. ASSUME NEW T \in C
      PROVE  \E x \in T : T \ {x} \in C
  <2>1. IsFiniteSet(T)
    BY FS_Subset
  <2>2. T # {}
    BY SumEmpty
  <2>3. First(T) \in T
    BY <2>2 DEF First
  <2>4. SumFunctionOnSet(f, T) = f[First(T)] + SumFunctionOnSet(f, T \ {First(T)})
    BY <2>1, <2>2, SumStep
  <2> QED
    BY <2>3, <2>4
<1>2. C = {}
  <2>1. C \in SUBSET SUBSET S
    OBVIOUS
  <2> HIDE DEF C
  <2> QED
    BY <1>1, <2>1, NoDescent
<1> QED
  BY <1>2

\* Any element may be taken out.
LEMMA SumRemove ==
  ASSUME NEW S, IsFiniteSet(S), NEW f, \A x \in S : f[x] \in Nat, NEW y \in S
  PROVE  SumFunctionOnSet(f, S) = f[y] + SumFunctionOnSet(f, S \ {y})
<1> DEFINE Sum(T) == SumFunctionOnSet(f, T)
           C == {T \in SUBSET S : \E z \in T : Sum(T) # f[z] + Sum(T \ {z})}
<1>1. \A T \in SUBSET S : IsFiniteSet(T)
  BY FS_Subset
<1>2. \A T \in SUBSET S : Sum(T) \in Nat
  BY <1>1, SumType
<1>3. \A T \in SUBSET S : T # {} => First(T) \in T /\ Sum(T) = f[First(T)] + Sum(T \ {First(T)})
  BY <1>1, SumStep DEF First
<1> HIDE DEF Sum
<1>4. ASSUME NEW T \in C
      PROVE  \E x \in T : T \ {x} \in C
  <2>1. PICK z \in T : Sum(T) # f[z] + Sum(T \ {z})
    OBVIOUS
  <2> DEFINE x == First(T)
             u == T \ {x, z}
  <2>2. x \in T /\ Sum(T) = f[x] + Sum(T \ {x})
    BY <1>3
  <2>3. x # z
    BY <2>1, <2>2
  <2>4. z \in T \ {x} /\ x \in T \ {z}
    BY <2>2, <2>3
  <2>5. (T \ {x}) \ {z} = u /\ (T \ {z}) \ {x} = u
    OBVIOUS
  <2>6. f[x] \in Nat /\ f[z] \in Nat /\ Sum(u) \in Nat
    BY <1>2, <2>2
  <2>7. CASE Sum(T \ {x}) # f[z] + Sum(u)
    BY <2>2, <2>4, <2>5, <2>7
  <2>8. CASE Sum(T \ {z}) # f[x] + Sum(u)
    BY <2>2, <2>4, <2>5, <2>8
  <2> HIDE DEF x, u
  <2> QED
    BY <2>1, <2>2, <2>6, <2>7, <2>8
<1>5. C = {}
  <2>1. C \in SUBSET SUBSET S
    OBVIOUS
  <2> HIDE DEF C
  <2> QED
    BY <1>4, <2>1, NoDescent
<1> QED
  BY <1>5 DEF Sum

\* Sums of the same numbers are the same.
LEMMA SumSame ==
  ASSUME NEW S, IsFiniteSet(S), NEW f, NEW h, \A x \in S : f[x] = h[x]
  PROVE  SumFunctionOnSet(f, S) = SumFunctionOnSet(h, S)
<1> DEFINE C == {T \in SUBSET S : SumFunctionOnSet(f, T) # SumFunctionOnSet(h, T)}
<1>1. ASSUME NEW T \in C
      PROVE  \E x \in T : T \ {x} \in C
  <2>1. IsFiniteSet(T)
    BY FS_Subset
  <2>2. T # {}
    BY SumEmpty
  <2>3. First(T) \in T
    BY <2>2 DEF First
  <2>4. /\ SumFunctionOnSet(f, T) = f[First(T)] + SumFunctionOnSet(f, T \ {First(T)})
        /\ SumFunctionOnSet(h, T) = h[First(T)] + SumFunctionOnSet(h, T \ {First(T)})
    BY <2>1, <2>2, SumStep
  <2> QED
    BY <2>3, <2>4
<1>2. C = {}
  <2>1. C \in SUBSET SUBSET S
    OBVIOUS
  <2> HIDE DEF C
  <2> QED
    BY <1>1, <2>1, NoDescent
<1> QED
  BY <1>2

\* A sum of greater numbers is greater.
LEMMA SumMono ==
  ASSUME NEW S, IsFiniteSet(S), NEW f, NEW h,
         \A x \in S : f[x] \in Nat /\ h[x] \in Nat /\ f[x] <= h[x]
  PROVE  SumFunctionOnSet(f, S) <= SumFunctionOnSet(h, S)
<1> DEFINE SumF(T) == SumFunctionOnSet(f, T)
           SumH(T) == SumFunctionOnSet(h, T)
           C == {T \in SUBSET S : ~(SumF(T) <= SumH(T))}
<1>1. \A T \in SUBSET S : SumF(T) \in Nat /\ SumH(T) \in Nat
  BY FS_Subset, SumType
<1>2. SumF({}) = 0 /\ SumH({}) = 0
  BY SumEmpty
<1>3. ASSUME NEW T \in SUBSET S, NEW x \in T
      PROVE  SumF(T) = f[x] + SumF(T \ {x}) /\ SumH(T) = h[x] + SumH(T \ {x})
  BY FS_Subset, SumRemove
<1> HIDE DEF SumF, SumH
<1>4. ASSUME NEW T \in C
      PROVE  \E x \in T : T \ {x} \in C
  <2>1. PICK x : x \in T
    BY <1>2
  <2> DEFINE u == T \ {x}
  <2>2. /\ SumF(T) = f[x] + SumF(u) /\ SumH(T) = h[x] + SumH(u)
        /\ {SumF(u), SumH(u), f[x], h[x]} \subseteq Nat /\ f[x] <= h[x]
        /\ u \in SUBSET S
    BY <1>1, <1>3, <2>1
  <2>3. ~(SumF(u) <= SumH(u))
    <3> HIDE DEF u
    <3> QED
      BY <2>2
  <2> QED
    BY <2>1, <2>2, <2>3
<1>5. C = {}
  <2>1. C \in SUBSET SUBSET S
    OBVIOUS
  <2> HIDE DEF C
  <2> QED
    BY <1>4, <2>1, NoDescent
<1> QED
  BY <1>5 DEF SumF, SumH

\* A part of a sum is no greater than the whole,
LEMMA SumSubset ==
  ASSUME NEW S, IsFiniteSet(S), NEW f, \A x \in S : f[x] \in Nat, NEW T \in SUBSET S
  PROVE  SumFunctionOnSet(f, T) <= SumFunctionOnSet(f, S)
<1> DEFINE Sum(U) == SumFunctionOnSet(f, U)
           C == {U \in SUBSET S : T \subseteq U /\ ~(Sum(T) <= Sum(U))}
<1>1. \A U \in SUBSET S : Sum(U) \in Nat
  BY FS_Subset, SumType
<1>2. \A U \in SUBSET S : \A x \in U : Sum(U) = f[x] + Sum(U \ {x})
  BY FS_Subset, SumRemove
<1> HIDE DEF Sum
<1>3. ASSUME NEW U \in C
      PROVE  \E x \in U : U \ {x} \in C
  <2>1. PICK x \in U : x \notin T
    BY <1>1
  <2>2. Sum(U) = f[x] + Sum(U \ {x}) /\ Sum(U \ {x}) \in Nat /\ f[x] \in Nat
    BY <1>1, <1>2
  <2>3. Sum(T) \in Nat /\ Sum(U) \in Nat /\ ~(Sum(T) <= Sum(U))
    BY <1>1
  <2>4. ~(Sum(T) <= Sum(U \ {x}))
    BY <2>2, <2>3
  <2> QED
    BY <2>1, <2>4
<1>4. C = {}
  <2>1. C \in SUBSET SUBSET S
    OBVIOUS
  <2> HIDE DEF C
  <2> QED
    BY <1>3, <2>1, NoDescent
<1> QED
  BY <1>4 DEF Sum

\* and less if a positive number is left out.
LEMMA SumStrict ==
  ASSUME NEW S, IsFiniteSet(S), NEW f, \A x \in S : f[x] \in Nat,
         NEW T \in SUBSET S, NEW y \in S \ T
  PROVE  SumFunctionOnSet(f, T) + f[y] <= SumFunctionOnSet(f, S)
<1>1. IsFiniteSet(S \ {y}) /\ T \in SUBSET (S \ {y}) /\ IsFiniteSet(T)
  BY FS_Subset
<1>2. SumFunctionOnSet(f, T) <= SumFunctionOnSet(f, S \ {y})
  BY <1>1, SumSubset
<1>3. SumFunctionOnSet(f, S) = f[y] + SumFunctionOnSet(f, S \ {y})
  BY SumRemove
<1>4. SumFunctionOnSet(f, T) \in Nat /\ SumFunctionOnSet(f, S \ {y}) \in Nat
  BY <1>1, SumType
<1> QED
  BY <1>2, <1>3, <1>4

\* A part of a sum is the whole of one with zeros for the rest.
LEMMA SumRestrict ==
  ASSUME NEW S, IsFiniteSet(S), NEW T \in SUBSET S, NEW f, NEW h,
         \A x \in S : h[x] \in Nat /\ h[x] = IF x \in T THEN f[x] ELSE 0
  PROVE  SumFunctionOnSet(f, T) = SumFunctionOnSet(h, S)
<1> DEFINE SumH(U) == SumFunctionOnSet(h, U)
           C == {U \in SUBSET S : T \subseteq U /\ SumFunctionOnSet(f, T) # SumH(U)}
<1>1. \A U \in SUBSET S : SumH(U) \in Nat
  BY FS_Subset, SumType
<1>2. \A U \in SUBSET S : \A x \in U : SumH(U) = h[x] + SumH(U \ {x})
  BY FS_Subset, SumRemove
<1>3. SumFunctionOnSet(f, T) = SumH(T)
  BY FS_Subset, SumSame
<1> HIDE DEF SumH
<1>4. ASSUME NEW U \in C
      PROVE  \E x \in U : U \ {x} \in C
  <2>1. PICK x \in U : x \notin T
    BY <1>3
  <2>2. SumH(U) = h[x] + SumH(U \ {x}) /\ SumH(U \ {x}) \in Nat /\ h[x] = 0
    BY <1>1, <1>2, <2>1
  <2>3. SumH(U \ {x}) = SumH(U)
    BY <2>2
  <2> QED
    BY <2>1, <2>3
<1>5. C = {}
  <2>1. C \in SUBSET SUBSET S
    OBVIOUS
  <2> HIDE DEF C
  <2> QED
    BY <1>4, <2>1, NoDescent
<1> QED
  BY <1>5 DEF SumH

\* If every number grows by r at most, and only on L, the sum grows by r for each of L.
LEMMA SumBump ==
  ASSUME NEW S, IsFiniteSet(S), NEW L \in SUBSET S, NEW r \in Nat, NEW f, NEW h,
         \A x \in S : /\ f[x] \in Nat /\ h[x] \in Nat
                     /\ h[x] <= f[x] + (IF x \in L THEN r ELSE 0)
  PROVE  SumFunctionOnSet(h, S) <= SumFunctionOnSet(f, S) + r * Cardinality(L)
<1> DEFINE SumF(T) == SumFunctionOnSet(f, T)
           SumH(T) == SumFunctionOnSet(h, T)
           Size(T) == Cardinality(L \cap T)
           C == {T \in SUBSET S : ~(SumH(T) <= SumF(T) + r * Size(T))}
<1>1. \A T \in SUBSET S : SumF(T) \in Nat /\ SumH(T) \in Nat
  BY FS_Subset, SumType
<1>2. \A T \in SUBSET S : Size(T) \in Nat
  BY FS_Subset, FS_CardinalityType
<1>3. SumF({}) = 0 /\ SumH({}) = 0
  BY SumEmpty
<1>4. ASSUME NEW T \in SUBSET S, NEW x \in T
      PROVE  SumF(T) = f[x] + SumF(T \ {x}) /\ SumH(T) = h[x] + SumH(T \ {x})
  BY FS_Subset, SumRemove
<1>5. ASSUME NEW T \in SUBSET S, NEW x \in T
      PROVE  Size(T) = Size(T \ {x}) + (IF x \in L THEN 1 ELSE 0)
  <2>1. IsFiniteSet(L \cap T) /\ L \cap (T \ {x}) = (L \cap T) \ {x}
    BY FS_Subset
  <2>2. Cardinality((L \cap T) \ {x})
          = IF x \in L \cap T THEN Cardinality(L \cap T) - 1 ELSE Cardinality(L \cap T)
    BY <2>1, FS_RemoveElement
  <2>3. Size(T \ {x}) = Cardinality((L \cap T) \ {x})
    BY <2>1
  <2>4. Cardinality(L \cap T) \in Nat
    BY <1>2
  <2> QED
    BY <2>2, <2>3, <2>4
<1> HIDE DEF SumF, SumH, Size
<1>6. ASSUME NEW T \in C
      PROVE  \E x \in T : T \ {x} \in C
  <2>0. r * Size({}) \in Nat
    BY <1>2
  <2>1. PICK x : x \in T
    BY <1>3, <2>0
  <2> DEFINE u == T \ {x}
             more == IF x \in L THEN r ELSE 0
  <2>2. /\ SumF(T) = f[x] + SumF(u) /\ SumH(T) = h[x] + SumH(u)
        /\ {SumF(u), SumH(u), f[x], h[x]} \subseteq Nat /\ h[x] <= f[x] + more
        /\ u \in SUBSET S
    BY <1>1, <1>4, <2>1
  <2>3. r * Size(T) = r * Size(u) + more /\ r * Size(u) \in Nat
    <3>1. Size(u) \in Nat /\ Size(T) = Size(u) + (IF x \in L THEN 1 ELSE 0)
      BY <1>2, <1>5, <2>1, <2>2
    <3> HIDE DEF u
    <3> QED
      BY <3>1
  <2>4. ~(SumH(u) <= SumF(u) + r * Size(u))
    <3>1. ~(SumH(T) <= SumF(T) + r * Size(T)) /\ more \in Nat
      OBVIOUS
    <3> DEFINE ru == r * Size(u)
               rT == r * Size(T)
    <3>2. rT = ru + more /\ ru \in Nat /\ ~(SumH(T) <= SumF(T) + rT)
      BY <2>3, <3>1
    <3> SUFFICES ~(SumH(u) <= SumF(u) + ru)
      OBVIOUS
    <3> HIDE DEF u, more, ru, rT
    <3> QED
      BY <2>2, <3>1, <3>2
  <2> QED
    BY <2>1, <2>2, <2>4
<1>7. C = {}
  <2>1. C \in SUBSET SUBSET S
    OBVIOUS
  <2> HIDE DEF C
  <2> QED
    BY <1>6, <2>1, NoDescent
<1> QED
  <2>1. L \cap S = L
    OBVIOUS
  <2> QED
    BY <1>7, <2>1 DEF SumF, SumH, Size
=============================================================================
