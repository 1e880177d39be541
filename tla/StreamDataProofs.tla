-------------------------- MODULE StreamDataProofs --------------------------
(***************************************************************************)
(* Proofs about module StreamData, for every test, number of streams and   *)
(* size of blocks and buffers.                                             *)
(***************************************************************************)
EXTENDS StreamData, TLAPS, FiniteSetTheorems, WellFoundedInduction

-----------------------------------------------------------------------------
(* What SumFunctionOnSet of the library module Functions computes, for     *)
(* every finite set.                                                       *)

\* Every set of natural numbers that is not empty has a least element.
LEMMA LeastNatural ==
  ASSUME NEW B \in SUBSET Nat, B # {}
  PROVE  \E m \in B : \A k \in B : m <= k
<1>1. PICK m \in B : \A k \in B : ~(<<k, m>> \in OpToRel(<, Nat))
  BY NatLessThanWellFounded, WFMin
<1>2. \A k \in B : ~(k < m)
  BY <1>1 DEF OpToRel
<1> QED BY <1>2

\* Induction over the natural numbers, for a set instead of a predicate.
LEMMA NatSetInduction ==
  ASSUME NEW G \in SUBSET Nat, 0 \in G, \A n \in G : n + 1 \in G
  PROVE  G = Nat
<1> SUFFICES ASSUME Nat \ G # {} PROVE FALSE
  OBVIOUS
<1>1. PICK m \in Nat \ G : \A k \in Nat \ G : m <= k
  BY LeastNatural
<1>2. m - 1 \in Nat /\ m - 1 \in G
  BY <1>1
<1> QED BY <1>1, <1>2

\* Induction over the subsets of a finite set.
LEMMA SubsetInduction ==
  ASSUME NEW S, IsFiniteSet(S), NEW G \in SUBSET SUBSET S,
         \A U \in SUBSET S : (\A x \in U : U \ {x} \in G) => U \in G
  PROVE  G = SUBSET S
<1> DEFINE N == {n \in Nat : \A U \in SUBSET S : Cardinality(U) = n => U \in G}
<1>1. 0 \in N
  BY FS_EmptySet, FS_Subset
<1>2. ASSUME NEW n \in N PROVE n + 1 \in N
  <2> SUFFICES ASSUME NEW U \in SUBSET S, Cardinality(U) = n + 1 PROVE U \in G
    OBVIOUS
  <2> HIDE DEF N
  <2>1. n \in Nat /\ IsFiniteSet(U)
    BY FS_Subset DEF N
  <2>2. ASSUME NEW x \in U PROVE U \ {x} \in G
    <3>1. Cardinality(U \ {x}) = Cardinality(U) - 1
      BY <2>1, FS_RemoveElement
    <3>2. Cardinality(U \ {x}) = n /\ U \ {x} \in SUBSET S
      BY <2>1, <3>1
    <3> QED BY <3>2 DEF N
  <2> QED BY <2>2
<1>3. N = Nat
  <2> HIDE DEF N
  <2>1. N \in SUBSET Nat
    BY DEF N
  <2> QED BY <1>1, <1>2, <2>1, NatSetInduction
<1>4. ASSUME NEW U \in SUBSET S PROVE U \in G
  BY <1>3, FS_Subset, FS_CardinalityType
<1> QED BY <1>4

-----------------------------------------------------------------------------
Pick(s) == CHOOSE x \in s : TRUE

\* The function that MapThenFoldSet defines.
IsSum(g, f, S) == g = [s \in SUBSET S |-> IF s = {} THEN 0 ELSE f[Pick(s)] + g[s \ {Pick(s)}]]

LEMMA SumIsSum ==
  ASSUME NEW f, NEW S
  PROVE  SumFunctionOnSet(f, S) = (CHOOSE g : IsSum(g, f, S))[S]
BY DEF SumFunctionOnSet, FoldFunctionOnSet, MapThenFoldSet, IsSum, Pick

Small(S, n) == {s \in SUBSET S : Cardinality(s) <= n}

LEMMA PickLemma == ASSUME NEW s, s # {} PROVE Pick(s) \in s
BY DEF Pick

\* There is such a function.
LEMMA SumExists ==
  ASSUME NEW S, IsFiniteSet(S), NEW f, \A x \in S : f[x] \in Int
  PROVE  \E g \in [SUBSET S -> Int] : IsSum(g, f, S)
<1> DEFINE Rec(g, s) == IF s = {} THEN 0 ELSE f[Pick(s)] + g[s \ {Pick(s)}]
           N == {n \in Nat : \E g \in [Small(S, n) -> Int] : g = [s \in Small(S, n) |-> Rec(g, s)]}
<1>1. 0 \in N
  <2> DEFINE g == [s \in Small(S, 0) |-> 0]
  <2>1. \A s \in Small(S, 0) : s = {}
    BY FS_EmptySet, FS_Subset, FS_CardinalityType DEF Small
  <2>2. g \in [Small(S, 0) -> Int] /\ g = [s \in Small(S, 0) |-> Rec(g, s)]
    BY <2>1
  <2> QED BY <2>2
<1>2. ASSUME NEW n \in N PROVE n + 1 \in N
  <2>1. PICK g \in [Small(S, n) -> Int] : g = [s \in Small(S, n) |-> Rec(g, s)]
    OBVIOUS
  <2>2. n \in Nat
    OBVIOUS
  <2> HIDE DEF N
  <2> DEFINE h == [s \in Small(S, n + 1) |-> Rec(g, s)]
  <2>3. ASSUME NEW s \in Small(S, n + 1), s # {}
        PROVE  Pick(s) \in S /\ s \ {Pick(s)} \in Small(S, n)
    <3>1. s \in SUBSET S /\ IsFiniteSet(s) /\ Cardinality(s) <= n + 1 /\ Pick(s) \in s
      BY <2>3, FS_Subset, PickLemma DEF Small
    <3>2. Cardinality(s \ {Pick(s)}) = Cardinality(s) - 1 /\ Cardinality(s) \in Nat
      BY <3>1, FS_RemoveElement, FS_CardinalityType
    <3> QED BY <2>2, <3>1, <3>2 DEF Small
  <2>4. ASSUME NEW s \in Small(S, n + 1) PROVE Rec(g, s) \in Int
    BY <2>3
  <2>5. h \in [Small(S, n + 1) -> Int]
    BY <2>4
  <2>6. ASSUME NEW s \in Small(S, n) PROVE s \in Small(S, n + 1) /\ h[s] = g[s]
    <3>1. s \in Small(S, n + 1)
      BY <2>2, FS_Subset, FS_CardinalityType DEF Small
    <3> QED BY <2>1, <3>1
  <2>7. ASSUME NEW s \in Small(S, n + 1) PROVE h[s] = Rec(h, s)
    <3>1. h[s] = Rec(g, s)
      OBVIOUS
    <3>2. s # {} => g[s \ {Pick(s)}] = h[s \ {Pick(s)}]
      BY <2>3, <2>6
    <3> QED BY <3>1, <3>2
  <2>8. h = [s \in Small(S, n + 1) |-> Rec(h, s)]
    BY <2>7
  <2> HIDE DEF h
  <2>9. n + 1 \in Nat
    BY <2>2
  <2> QED BY <2>5, <2>8, <2>9 DEF N
<1>3. N = Nat
  <2> HIDE DEF N
  <2>1. N \in SUBSET Nat
    BY DEF N
  <2> QED BY <1>1, <1>2, <2>1, NatSetInduction
<1>4. Cardinality(S) \in Nat /\ Small(S, Cardinality(S)) = SUBSET S
  BY FS_Subset, FS_CardinalityType DEF Small
<1>5. PICK g \in [SUBSET S -> Int] : g = [s \in SUBSET S |-> Rec(g, s)]
  <2>1. Cardinality(S) \in N
    BY <1>3, <1>4
  <2> QED BY <1>4, <2>1
<1> QED BY <1>5 DEF IsSum

\* Such functions agree where they are both defined.
LEMMA SumUnique ==
  ASSUME NEW S, IsFiniteSet(S), NEW T \in SUBSET S, NEW f,
         NEW g, IsSum(g, f, S), NEW h, IsSum(h, f, T)
  PROVE  \A s \in SUBSET T : g[s] = h[s]
<1> DEFINE G == {s \in SUBSET T : g[s] = h[s]}
<1>1. IsFiniteSet(T)
  BY FS_Subset
<1>2. ASSUME NEW U \in SUBSET T, \A x \in U : U \ {x} \in G PROVE U \in G
  <2>1. /\ g[U] = IF U = {} THEN 0 ELSE f[Pick(U)] + g[U \ {Pick(U)}]
        /\ h[U] = IF U = {} THEN 0 ELSE f[Pick(U)] + h[U \ {Pick(U)}]
    BY DEF IsSum
  <2>2. U # {} => g[U \ {Pick(U)}] = h[U \ {Pick(U)}]
    BY <1>2, PickLemma
  <2> QED BY <2>1, <2>2
<1>3. G = SUBSET T
  <2> HIDE DEF G
  <2>1. G \in SUBSET SUBSET T
    BY DEF G
  <2> QED BY <1>1, <1>2, <2>1, SubsetInduction
<1> QED BY <1>3

\* The sums over all subsets.
IsTable(g, f, S) ==
  g \in [SUBSET S -> Int] /\ IsSum(g, f, S) /\ \A T \in SUBSET S : SumFunctionOnSet(f, T) = g[T]

LEMMA SumByTable ==
  ASSUME NEW S, IsFiniteSet(S), NEW f, \A x \in S : f[x] \in Int
  PROVE  \E g : IsTable(g, f, S)
<1>1. PICK g \in [SUBSET S -> Int] : IsSum(g, f, S)
  BY SumExists
<1>2. ASSUME NEW T \in SUBSET S PROVE SumFunctionOnSet(f, T) = g[T]
  <2> DEFINE h == CHOOSE k : IsSum(k, f, T)
  <2>1. IsFiniteSet(T) /\ \A x \in T : f[x] \in Int
    BY FS_Subset
  <2>2. \E k : IsSum(k, f, T)
    BY <2>1, SumExists
  <2>3. IsSum(h, f, T)
    BY <2>2
  <2>4. SumFunctionOnSet(f, T) = h[T]
    BY SumIsSum
  <2> HIDE DEF h
  <2>5. \A s \in SUBSET T : g[s] = h[s]
    BY <1>1, <2>3, SumUnique
  <2> QED BY <2>4, <2>5
<1> QED BY <1>1, <1>2 DEF IsTable

LEMMA SumType ==
  ASSUME NEW S, IsFiniteSet(S), NEW f, \A x \in S : f[x] \in Int
  PROVE  SumFunctionOnSet(f, S) \in Int
<1>1. PICK g : IsTable(g, f, S)
  BY SumByTable
<1> QED BY <1>1 DEF IsTable

LEMMA SumEmpty ==
  ASSUME NEW f PROVE SumFunctionOnSet(f, {}) = 0
<1>1. IsFiniteSet({}) /\ \A x \in {} : f[x] \in Int
  BY FS_EmptySet
<1>2. PICK g : IsTable(g, f, {})
  BY <1>1, SumByTable
<1> QED BY <1>2 DEF IsTable, IsSum

\* Any of the values can be taken out of the sum.
LEMMA SumRemove ==
  ASSUME NEW S, IsFiniteSet(S), NEW f, \A x \in S : f[x] \in Int, NEW x \in S
  PROVE  SumFunctionOnSet(f, S) = f[x] + SumFunctionOnSet(f, S \ {x})
<1>1. PICK g : IsTable(g, f, S)
  BY SumByTable
<1> DEFINE G == {U \in SUBSET S : \A y \in U : g[U] = f[y] + g[U \ {y}]}
<1>2. ASSUME NEW U \in SUBSET S, \A y \in U : U \ {y} \in G PROVE U \in G
  <2> SUFFICES ASSUME NEW y \in U PROVE g[U] = f[y] + g[U \ {y}]
    OBVIOUS
  <2> DEFINE z == Pick(U)
  <2>1. z \in U /\ g[U] = f[z] + g[U \ {z}]
    BY <1>1, PickLemma DEF IsSum, IsTable
  <2> HIDE DEF z
  <2>2. CASE z = y
    BY <2>1, <2>2
  <2>3. CASE z # y
    <3>1. g[U \ {z}] = f[y] + g[(U \ {z}) \ {y}] /\ g[U \ {y}] = f[z] + g[(U \ {y}) \ {z}]
      BY <1>2, <2>1, <2>3
    <3>2. (U \ {z}) \ {y} = (U \ {y}) \ {z}
      OBVIOUS
    <3>3. f[y] \in Int /\ f[z] \in Int /\ g[(U \ {y}) \ {z}] \in Int
      BY <1>1, <2>1 DEF IsTable
    <3>4. g[(U \ {z}) \ {y}] = g[(U \ {y}) \ {z}]
      BY <3>2
    <3> DEFINE a == g[(U \ {y}) \ {z}]
    <3> HIDE DEF a
    <3>5. g[U \ {z}] = f[y] + a /\ g[U \ {y}] = f[z] + a /\ a \in Int
      BY <3>1, <3>3, <3>4 DEF a
    <3> QED BY <2>1, <3>3, <3>5
  <2> QED BY <2>2, <2>3
<1>3. G = SUBSET S
  <2> HIDE DEF G
  <2>1. G \in SUBSET SUBSET S
    BY DEF G
  <2> QED BY <1>2, <2>1, SubsetInduction
<1> QED BY <1>1, <1>3 DEF IsTable

\* Sums of functions that are compared, or added, value by value.
LEMMA SumLe ==
  ASSUME NEW S, IsFiniteSet(S), NEW f, NEW g,
         \A x \in S : f[x] \in Int /\ g[x] \in Int /\ f[x] <= g[x]
  PROVE  SumFunctionOnSet(f, S) <= SumFunctionOnSet(g, S)
<1> DEFINE G == {U \in SUBSET S : SumFunctionOnSet(f, U) <= SumFunctionOnSet(g, U)}
<1>1. ASSUME NEW U \in SUBSET S, \A x \in U : U \ {x} \in G PROVE U \in G
  <2>1. CASE U = {}
    BY <2>1, SumEmpty
  <2>2. ASSUME NEW x \in U PROVE U \in G
    <3>1. IsFiniteSet(U) /\ IsFiniteSet(U \ {x})
      BY FS_Subset
    <3>2. /\ SumFunctionOnSet(f, U) = f[x] + SumFunctionOnSet(f, U \ {x})
          /\ SumFunctionOnSet(g, U) = g[x] + SumFunctionOnSet(g, U \ {x})
      BY <3>1, SumRemove
    <3>3. /\ f[x] \in Int /\ SumFunctionOnSet(f, U \ {x}) \in Int
          /\ g[x] \in Int /\ SumFunctionOnSet(g, U \ {x}) \in Int
      BY <3>1, SumType
    <3>4. U \ {x} \in G
      BY <1>1, <2>2
    <3> QED BY <3>2, <3>3, <3>4
  <2> QED BY <2>1, <2>2
<1>2. G = SUBSET S
  <2> HIDE DEF G
  <2>1. G \in SUBSET SUBSET S
    BY DEF G
  <2> QED BY <1>1, <2>1, SubsetInduction
<1> QED BY <1>2

LEMMA SumEq ==
  ASSUME NEW S, IsFiniteSet(S), NEW f, NEW g, \A x \in S : f[x] \in Int /\ f[x] = g[x]
  PROVE  SumFunctionOnSet(f, S) = SumFunctionOnSet(g, S)
<1>1. \A x \in S : g[x] \in Int /\ f[x] <= g[x] /\ g[x] <= f[x]
  OBVIOUS
<1>2. /\ SumFunctionOnSet(f, S) <= SumFunctionOnSet(g, S)
      /\ SumFunctionOnSet(g, S) <= SumFunctionOnSet(f, S)
  BY <1>1, SumLe
<1>3. SumFunctionOnSet(f, S) \in Int /\ SumFunctionOnSet(g, S) \in Int
  BY <1>1, SumType
<1> QED BY <1>2, <1>3

LEMMA SumPlus ==
  ASSUME NEW S, IsFiniteSet(S), NEW f, NEW g, NEW h,
         \A x \in S : f[x] \in Int /\ g[x] \in Int /\ h[x] \in Int /\ h[x] = f[x] + g[x]
  PROVE  SumFunctionOnSet(h, S) = SumFunctionOnSet(f, S) + SumFunctionOnSet(g, S)
<1> DEFINE G == {U \in SUBSET S : SumFunctionOnSet(h, U) = SumFunctionOnSet(f, U) + SumFunctionOnSet(g, U)}
<1>1. ASSUME NEW U \in SUBSET S, \A x \in U : U \ {x} \in G PROVE U \in G
  <2>1. CASE U = {}
    BY <2>1, SumEmpty
  <2>2. ASSUME NEW x \in U PROVE U \in G
    <3>1. IsFiniteSet(U) /\ IsFiniteSet(U \ {x})
      BY FS_Subset
    <3>2. /\ SumFunctionOnSet(f, U) = f[x] + SumFunctionOnSet(f, U \ {x})
          /\ SumFunctionOnSet(g, U) = g[x] + SumFunctionOnSet(g, U \ {x})
          /\ SumFunctionOnSet(h, U) = h[x] + SumFunctionOnSet(h, U \ {x})
      BY <3>1, SumRemove
    <3>3. /\ f[x] \in Int /\ SumFunctionOnSet(f, U \ {x}) \in Int
          /\ g[x] \in Int /\ SumFunctionOnSet(g, U \ {x}) \in Int
          /\ h[x] \in Int /\ SumFunctionOnSet(h, U \ {x}) \in Int
      BY <3>1, SumType
    <3>4. U \ {x} \in G
      BY <1>1, <2>2
    <3> QED BY <3>2, <3>3, <3>4
  <2> QED BY <2>1, <2>2
<1>2. G = SUBSET S
  <2> HIDE DEF G
  <2>1. G \in SUBSET SUBSET S
    BY DEF G
  <2> QED BY <1>1, <2>1, SubsetInduction
<1> QED BY <1>2

LEMMA SumNat ==
  ASSUME NEW S, IsFiniteSet(S), NEW f, \A x \in S : f[x] \in Nat
  PROVE  SumFunctionOnSet(f, S) \in Nat
<1> DEFINE G == {U \in SUBSET S : SumFunctionOnSet(f, U) \in Nat}
<1>1. ASSUME NEW U \in SUBSET S, \A x \in U : U \ {x} \in G PROVE U \in G
  <2>1. CASE U = {}
    BY <2>1, SumEmpty
  <2>2. ASSUME NEW x \in U PROVE U \in G
    <3>1. IsFiniteSet(U) /\ IsFiniteSet(U \ {x})
      BY FS_Subset
    <3>2. /\ SumFunctionOnSet(f, U) = f[x] + SumFunctionOnSet(f, U \ {x})
      BY <3>1, SumRemove
    <3>3. /\ f[x] \in Int /\ SumFunctionOnSet(f, U \ {x}) \in Int
      BY <3>1, SumType
    <3>4. U \ {x} \in G
      BY <1>1, <2>2
    <3> QED BY <3>2, <3>3, <3>4
  <2> QED BY <2>1, <2>2
<1>2. G = SUBSET S
  <2> HIDE DEF G
  <2>1. G \in SUBSET SUBSET S
    BY DEF G
  <2> QED BY <1>1, <2>1, SubsetInduction
<1> QED BY <1>2

\* Two functions that differ in one value.
LEMMA SumUpdate ==
  ASSUME NEW S, IsFiniteSet(S), NEW f, NEW g, NEW x \in S, f[x] \in Int, g[x] \in Int,
         \A y \in S \ {x} : f[y] \in Int /\ g[y] = f[y]
  PROVE  SumFunctionOnSet(g, S) = SumFunctionOnSet(f, S) - f[x] + g[x]
<1>1. IsFiniteSet(S \ {x}) /\ \A y \in S : f[y] \in Int /\ g[y] \in Int
  BY FS_RemoveElement
<1>2. SumFunctionOnSet(f, S \ {x}) = SumFunctionOnSet(g, S \ {x})
  BY <1>1, SumEq
<1>3. /\ SumFunctionOnSet(f, S) = f[x] + SumFunctionOnSet(f, S \ {x})
      /\ SumFunctionOnSet(g, S) = g[x] + SumFunctionOnSet(g, S \ {x})
  BY <1>1, SumRemove
<1>4. SumFunctionOnSet(f, S \ {x}) \in Int
  BY <1>1, SumType
<1> QED BY <1>2, <1>3, <1>4

\* Zeros add up to zero.
LEMMA SumZero ==
  ASSUME NEW S, IsFiniteSet(S), NEW f, \A x \in S : f[x] = 0
  PROVE  SumFunctionOnSet(f, S) = 0
<1> DEFINE G == {U \in SUBSET S : SumFunctionOnSet(f, U) = 0}
<1>1. ASSUME NEW U \in SUBSET S, \A x \in U : U \ {x} \in G PROVE U \in G
  <2>1. CASE U = {}
    BY <2>1, SumEmpty
  <2>2. CASE U # {}
    <3>1. PICK x \in U : TRUE
      BY <2>2
    <3>2. IsFiniteSet(U) /\ \A y \in U : f[y] \in Int
      BY FS_Subset
    <3>3. SumFunctionOnSet(f, U) = f[x] + SumFunctionOnSet(f, U \ {x})
      BY <3>1, <3>2, SumRemove
    <3>4. U \ {x} \in G /\ f[x] = 0
      BY <1>1, <3>1
    <3> QED BY <3>3, <3>4
  <2> QED BY <2>1, <2>2
<1>2. G = SUBSET S
  <2> HIDE DEF G
  <2>1. G \in SUBSET SUBSET S
    BY DEF G
  <2> QED BY <1>1, <2>1, SubsetInduction
<1> QED BY <1>2

\* What is zero may be left out.
LEMMA SumSubset ==
  ASSUME NEW S, IsFiniteSet(S), NEW f, \A x \in S : f[x] \in Int,
         NEW T \in SUBSET S, \A x \in S \ T : f[x] = 0
  PROVE  SumFunctionOnSet(f, S) = SumFunctionOnSet(f, T)
<1> DEFINE G == {U \in SUBSET S : SumFunctionOnSet(f, U) = SumFunctionOnSet(f, U \cap T)}
<1>1. ASSUME NEW U \in SUBSET S, \A x \in U : U \ {x} \in G PROVE U \in G
  <2>1. CASE U \subseteq T
    <3>1. U \cap T = U
      BY <2>1
    <3> QED BY <3>1
  <2>2. ASSUME NEW x \in U, x \notin T PROVE U \in G
    <3>1. IsFiniteSet(U) /\ IsFiniteSet(U \ {x}) /\ \A y \in U : f[y] \in Int
      BY FS_Subset
    <3>2. SumFunctionOnSet(f, U) = f[x] + SumFunctionOnSet(f, U \ {x})
      BY <3>1, SumRemove
    <3>3. f[x] = 0 /\ SumFunctionOnSet(f, U \ {x}) \in Int
      BY <2>2, <3>1, SumType
    <3>4. SumFunctionOnSet(f, U \ {x}) = SumFunctionOnSet(f, (U \ {x}) \cap T)
      BY <1>1, <2>2
    <3>5. (U \ {x}) \cap T = U \cap T
      BY <2>2
    <3>6. SumFunctionOnSet(f, U) = SumFunctionOnSet(f, U \ {x})
      BY <3>2, <3>3
    <3>7. SumFunctionOnSet(f, U) = SumFunctionOnSet(f, U \cap T)
      BY ONLY <3>4, <3>5, <3>6, Zenon
    <3> QED BY <3>7
  <2> QED BY <2>1, <2>2
<1>2. G = SUBSET S
  <2> HIDE DEF G
  <2>1. G \in SUBSET SUBSET S
    BY DEF G
  <2> QED BY <1>1, <2>1, SubsetInduction
<1>3. S \cap T = T
  OBVIOUS
<1> QED BY <1>2, <1>3

\* The order of two sums: m is a table with rows S and columns T and w the same
\* table by columns; r has the sums of its rows and c those of its columns.
LEMMA SumSwap ==
  ASSUME NEW S, IsFiniteSet(S), NEW T, IsFiniteSet(T), NEW m \in [S -> [T -> Int]],
         NEW r, \A x \in S : r[x] = SumFunctionOnSet(m[x], T),
         NEW w, \A y \in T : \A x \in S : w[y][x] = m[x][y],
         NEW c, \A y \in T : c[y] = SumFunctionOnSet(w[y], S)
  PROVE  SumFunctionOnSet(r, S) = SumFunctionOnSet(c, T)
<1> DEFINE col(y) == w[y]
           part(U) == [y \in T |-> SumFunctionOnSet(col(y), U)]
           G == {U \in SUBSET S : SumFunctionOnSet(r, U) = SumFunctionOnSet(part(U), T)}
<1>1. /\ \A x \in S : r[x] \in Int /\ \A y \in T : m[x][y] \in Int
      /\ \A y \in T : \A x \in S : col(y)[x] = m[x][y] /\ col(y)[x] \in Int
  BY SumType
<1> HIDE DEF col
<1>2. ASSUME NEW U \in SUBSET S, \A x \in U : U \ {x} \in G PROVE U \in G
  <2>1. CASE U = {}
    <3>1. \A y \in T : part(U)[y] = 0
      BY <2>1, SumEmpty
    <3> HIDE DEF part
    <3>2. SumFunctionOnSet(part(U), T) = 0
      BY <3>1, SumZero
    <3> QED BY <2>1, <3>2, SumEmpty
  <2>2. ASSUME NEW x \in U PROVE U \in G
    <3> DEFINE V == U \ {x}
    <3>1. IsFiniteSet(U) /\ IsFiniteSet(V) /\ x \in S /\ V \subseteq S
      BY <2>2, FS_Subset
    <3>2. SumFunctionOnSet(r, U) = r[x] + SumFunctionOnSet(r, V)
      <4>1. \A z \in U : r[z] \in Int
        BY <1>1, <3>1
      <4> HIDE DEF V
      <4>2. SumFunctionOnSet(r, U) = r[x] + SumFunctionOnSet(r, U \ {x})
        BY ONLY <2>2, <3>1, <4>1, SumRemove
      <4> QED BY <4>2 DEF V
    <3>3. SumFunctionOnSet(r, V) = SumFunctionOnSet(part(V), T)
      BY <1>2, <2>2
    <3>4. \A y \in T : /\ SumFunctionOnSet(col(y), U) = m[x][y] + SumFunctionOnSet(col(y), V)
                       /\ SumFunctionOnSet(col(y), V) \in Int
                       /\ SumFunctionOnSet(col(y), U) \in Int
      <4> SUFFICES ASSUME NEW y \in T
                   PROVE  /\ SumFunctionOnSet(col(y), U) = m[x][y] + SumFunctionOnSet(col(y), V)
                          /\ SumFunctionOnSet(col(y), V) \in Int
                          /\ SumFunctionOnSet(col(y), U) \in Int
        OBVIOUS
      <4>1. \A z \in S : col(y)[z] \in Int
        BY <1>1
      <4>2. SumFunctionOnSet(col(y), U) = col(y)[x] + SumFunctionOnSet(col(y), V)
        <5> DEFINE f == col(y)
        <5>1. \A z \in U : f[z] \in Int
          BY <3>1, <4>1
        <5> HIDE DEF f, V
        <5>2. SumFunctionOnSet(f, U) = f[x] + SumFunctionOnSet(f, U \ {x})
          BY ONLY <2>2, <3>1, <5>1, SumRemove
        <5> QED BY <5>2 DEF f, V
      <4>3. SumFunctionOnSet(col(y), V) \in Int /\ SumFunctionOnSet(col(y), U) \in Int
        BY <3>1, <4>1, SumType
      <4> QED BY <1>1, <3>1, <4>2, <4>3
    <3>5. \A y \in T : /\ part(U)[y] = m[x][y] + part(V)[y]
                       /\ part(U)[y] \in Int /\ part(V)[y] \in Int /\ m[x][y] \in Int
      BY <1>1, <3>1, <3>4
    <3> HIDE DEF part, V
    <3>6. SumFunctionOnSet(part(U), T) = SumFunctionOnSet(m[x], T) + SumFunctionOnSet(part(V), T)
      BY <3>5, SumPlus
    <3> QED BY <3>1, <3>2, <3>3, <3>6
  <2> QED BY <2>1, <2>2
<1>3. G = SUBSET S
  <2> HIDE DEF G
  <2>1. G \in SUBSET SUBSET S
    BY DEF G
  <2> QED BY <1>2, <2>1, SubsetInduction
<1>4. SumFunctionOnSet(r, S) = SumFunctionOnSet(part(S), T)
  BY <1>3
<1>5. \A y \in T : part(S)[y] \in Int /\ part(S)[y] = c[y]
  <2> SUFFICES ASSUME NEW y \in T PROVE part(S)[y] \in Int /\ part(S)[y] = c[y]
    OBVIOUS
  <2>1. \A z \in S : col(y)[z] \in Int
    BY <1>1
  <2>2. SumFunctionOnSet(col(y), S) \in Int
    BY <2>1, SumType
  <2> QED BY <2>2 DEF col
<1> HIDE DEF part
<1> QED BY <1>4, <1>5, SumEq

-----------------------------------------------------------------------------
(* The types of the records *)

Interval ==
  [omitted : BOOLEAN, bytes : Nat, packets : Int, errors : Int, packet_count : Nat,
   cnt_error : Nat]

\* struct iperf_stream, struct iperf_test, a connection, and what happened.
StreamRec ==
  [green_light : BOOLEAN, pending_size : Int, diskfile_left : Int,
   packet_count : Nat, peer_packet_count : Nat, omitted_packet_count : Nat,
   cnt_error : Nat, omitted_cnt_error : Nat,
   outoforder : Nat, omitted_outoforder : Nat,
   bytes_sent : Nat, bytes_sent_omit : Nat, bytes_received : Nat,
   sent_this_interval : Nat, received_this_interval : Nat, intervals : Seq(Interval)]

TestRec ==
  [state : {"TEST_RUNNING", "TEST_END", "DISPLAY_RESULTS", "FAILED"}, done : BOOLEAN,
   omitting : BOOLEAN, bytes_sent : Nat, blocks_sent : Nat, bytes_received : Nat,
   blocks_received : Nat, pc : {"select", "send", "timers"}, multisend : Nat,
   ready : SUBSET Stream, next : Nat, active : BOOLEAN]

NetRec == [bytes : 0..SocketBuffer, fly : SUBSET (Nat \ {0}), file : Nat]

GhostRec ==
  [got : [Stream -> SUBSET Nat], dup : [Stream -> Nat], copies : Nat, early : [Stream -> Nat]]

\* A stream's sizes.
SizesOK(sp) ==
  /\ sp.bytes_sent_omit <= sp.bytes_sent
  /\ conf.proto = "tcp" => sp.pending_size \in 0..Block /\ sp.diskfile_left \in 0..Block

\* The receiver sends nothing, and learns at the end what was sent.
ReceiverSendsNothing ==
  \A i \in Stream :
    /\ stream[Receiver][i].bytes_sent_omit = 0
    /\ test[Receiver].state \in {"TEST_RUNNING", "TEST_END"} => stream[Receiver][i].bytes_sent = 0

TypeInv ==
  /\ conf \in Configs /\ now \in 0..MaxTime
  /\ test \in [Side -> TestRec]
  /\ stream \in [Side -> [Stream -> StreamRec]]
  /\ net \in [Stream -> NetRec]
  /\ ghost \in GhostRec
  /\ \A side \in Side, i \in Stream : SizesOK(stream[side][i])
  /\ ReceiverSendsNothing

-----------------------------------------------------------------------------
(* Sending *)

LEMMA MinMaxLemma ==
  ASSUME NEW a \in Int, NEW b \in Int
  PROVE  /\ Min({a, b}) = IF a <= b THEN a ELSE b
         /\ Max({a, b}) = IF a >= b THEN a ELSE b
BY DEF Min, Max

LEMMA ConfLemma ==
  ASSUME conf \in Configs
  PROVE  /\ conf.proto \in {"tcp", "udp", "sctp"} /\ conf.sender \in Side /\ Receiver \in Side
         /\ Receiver # conf.sender /\ Side = {conf.sender, Receiver}
         /\ conf.streams \in Nat \ {0} /\ Block \in Nat \ {0} /\ SocketBuffer \in Nat \ {0}
         /\ conf.omit \in BOOLEAN /\ conf.zerocopy \in BOOLEAN
         /\ conf.rate \in Nat /\ conf.burst \in Nat /\ conf.multisend \in Nat
         /\ conf.bytes \in Nat /\ conf.stale \in Nat /\ conf.blocks \in Nat /\ conf.file \in Nat
         /\ conf.limit \in Nat /\ conf.window \in Nat /\ (conf.limit # 0 => conf.window # 0)
         /\ (conf.bytes = 0 \/ conf.blocks = 0)
         /\ IsFiniteSet(Stream) /\ Stream \subseteq Nat \ {0}
<1>1. conf.streams \in Nat \ {0}
  BY ConfigsAssumption
<1>2. IsFiniteSet(Stream) /\ Stream \subseteq Nat \ {0}
  <2>1. conf.streams \in Int /\ 1 \in Int
    BY <1>1
  <2>2. IsFiniteSet(1..conf.streams)
    BY <2>1, FS_Interval
  <2> QED BY <1>1, <2>2 DEF Stream
<1> QED BY <1>2, ConfigsAssumption, DataAssumption DEF Side, Receiver, Other

LEMMA MaxLemma ==
  ASSUME NEW a \in Nat, NEW b \in Nat
  PROVE  /\ Max({a, b}) \in Nat /\ a <= Max({a, b}) /\ b <= Max({a, b})
         /\ Max({a, b}) = a \/ Max({a, b}) = b
<1>1. Max({a, b}) = IF a >= b THEN a ELSE b
  BY MinMaxLemma
<1> QED BY <1>1

\* What a call of snd leaves alone.
SameCounters(a, b) ==
  /\ a.green_light = b.green_light /\ a.peer_packet_count = b.peer_packet_count
  /\ a.omitted_packet_count = b.omitted_packet_count /\ a.cnt_error = b.cnt_error
  /\ a.omitted_cnt_error = b.omitted_cnt_error /\ a.bytes_sent_omit = b.bytes_sent_omit
  /\ a.bytes_received = b.bytes_received
  /\ a.received_this_interval = b.received_this_interval /\ a.intervals = b.intervals

\* What it sends: r bytes, or nothing; a datagram has the next number.
SentOK(i, sp, a, r) ==
  /\ a \in StreamRec /\ SameCounters(a, sp)
  /\ r \in Nat \/ r = NET_SOFTERROR
  /\ a.bytes_sent = sp.bytes_sent + (IF r = NET_SOFTERROR THEN 0 ELSE r)
  /\ a.sent_this_interval = sp.sent_this_interval + (IF r = NET_SOFTERROR THEN 0 ELSE r)
  /\ r <= Block
  /\ conf.proto # "udp" => r <= Room(i) /\ a.packet_count = sp.packet_count
  /\ a.packet_count \in {sp.packet_count, sp.packet_count + 1}
  /\ conf.proto = "udp" /\ r > 0 => a.packet_count = sp.packet_count + 1

LEMMA StreamFields ==
  ASSUME NEW sp \in StreamRec
  PROVE  /\ sp.green_light \in BOOLEAN /\ sp.pending_size \in Int /\ sp.diskfile_left \in Int
         /\ sp.packet_count \in Nat /\ sp.peer_packet_count \in Nat
         /\ sp.omitted_packet_count \in Nat /\ sp.cnt_error \in Nat
         /\ sp.omitted_cnt_error \in Nat /\ sp.outoforder \in Nat /\ sp.bytes_sent \in Nat
         /\ sp.bytes_sent_omit \in Nat /\ sp.bytes_received \in Nat
         /\ sp.sent_this_interval \in Nat /\ sp.received_this_interval \in Nat
         /\ sp.intervals \in Seq(Interval)
BY DEF StreamRec

\* a is sp after r more bytes.
IsSent(a, sp, r) ==
  /\ a \in StreamRec /\ SameCounters(a, sp)
  /\ a.bytes_sent = sp.bytes_sent + r
  /\ a.sent_this_interval = sp.sent_this_interval + r
  /\ a.packet_count = sp.packet_count
  /\ a.pending_size = sp.pending_size /\ a.diskfile_left = sp.diskfile_left

LEMMA SentLemma ==
  ASSUME NEW sp \in StreamRec, NEW r \in Nat
  PROVE  IsSent(Sent(sp, r), sp, r)
<1> DEFINE a == sp.bytes_sent + r
           b == sp.sent_this_interval + r
<1>1. a \in Nat /\ b \in Nat
  BY StreamFields
<1>2. Sent(sp, r) = [sp EXCEPT !.bytes_sent = a, !.sent_this_interval = b]
  BY DEF Sent
<1> HIDE DEF a, b
<1>3. Sent(sp, r) \in StreamRec
  BY <1>1, <1>2, ZenonT(60) DEF StreamRec
<1>4. /\ SameCounters(Sent(sp, r), sp)
      /\ Sent(sp, r).bytes_sent = a /\ Sent(sp, r).sent_this_interval = b
      /\ Sent(sp, r).packet_count = sp.packet_count
      /\ Sent(sp, r).pending_size = sp.pending_size
      /\ Sent(sp, r).diskfile_left = sp.diskfile_left
  BY <1>2 DEF StreamRec, SameCounters
<1> QED BY <1>3, <1>4 DEF IsSent, a, b

LEMMA ProtocolSend ==
  ASSUME conf \in Configs, NEW i, Room(i) \in Nat, NEW sp \in StreamRec,
         conf.proto = "tcp" => sp.pending_size \in 0..Block,
         NEW o \in protocol_send(i, sp)
  PROVE  /\ SentOK(i, sp, o.sp, o.r)
         /\ o.sp.diskfile_left = sp.diskfile_left
         /\ conf.proto = "tcp" =>
              LET size == IF sp.pending_size = 0 THEN Block ELSE sp.pending_size
              IN  /\ o.sp.pending_size \in 0..Block /\ o.r <= size
                  /\ o.r = NET_SOFTERROR => conf.zerocopy
<1>1. CASE conf.proto = "tcp"
  <2> DEFINE size == IF sp.pending_size = 0 THEN Block ELSE sp.pending_size
             r == Min({size, Room(i)})
  <2>1. size \in 1..Block /\ Block \in Nat
    BY <1>1, ConfLemma
  <2>2. r = IF size <= Room(i) THEN size ELSE Room(i)
    BY <2>1, MinMaxLemma
  <2>3. r \in 0..size /\ r <= Room(i)
    BY <2>1, <2>2
  <2>4. o = IF r = 0 /\ conf.zerocopy
            THEN [sp |-> [sp EXCEPT !.pending_size = size], r |-> NET_SOFTERROR]
            ELSE [sp |-> Sent([sp EXCEPT !.pending_size = size - r], r), r |-> r]
    BY <1>1 DEF protocol_send, iperf_tcp_send
  <2> HIDE DEF size, r
  <2> DEFINE u == [sp EXCEPT !.pending_size = IF r = 0 /\ conf.zerocopy THEN size ELSE size - r]
  <2>5. /\ u \in StreamRec /\ SameCounters(u, sp) /\ u.bytes_sent = sp.bytes_sent
        /\ u.packet_count = sp.packet_count /\ u.sent_this_interval = sp.sent_this_interval
        /\ u.diskfile_left = sp.diskfile_left /\ u.pending_size \in 0..Block
    <3> DEFINE n == IF r = 0 /\ conf.zerocopy THEN size ELSE size - r
    <3>1. n \in 0..Block
      BY <2>1, <2>3
    <3>2. n \in Int
      BY <2>1, <3>1
    <3> HIDE DEF n
    <3>3. [sp EXCEPT !.pending_size = n] \in StreamRec
      BY <3>2 DEF StreamRec
    <3>4. SameCounters([sp EXCEPT !.pending_size = n], sp)
      BY DEF StreamRec, SameCounters
    <3> QED BY <3>1, <3>3, <3>4 DEF StreamRec, n
  <2> HIDE DEF u
  <2>6. CASE r = 0 /\ conf.zerocopy
    <3>1. o.sp = u /\ o.r = NET_SOFTERROR
      BY <2>4, <2>6 DEF u
    <3>2. SentOK(i, sp, u, NET_SOFTERROR)
      BY <1>1, <2>1, <2>5, StreamFields DEF SentOK, NET_SOFTERROR
    <3> QED BY <1>1, <2>1, <2>5, <2>6, <3>1, <3>2 DEF NET_SOFTERROR, size
  <2>7. CASE ~(r = 0 /\ conf.zerocopy)
    <3>1. o.r = r /\ o.sp = Sent(u, r) /\ r \in Nat
      BY <2>3, <2>4, <2>7 DEF u
    <3>2. /\ o.sp \in StreamRec /\ SameCounters(o.sp, u) /\ o.sp.pending_size \in 0..Block
          /\ o.sp.bytes_sent = sp.bytes_sent + r /\ o.sp.packet_count = sp.packet_count
          /\ o.sp.sent_this_interval = sp.sent_this_interval + r
          /\ o.sp.diskfile_left = sp.diskfile_left
      <4>1. IsSent(o.sp, u, r)
        BY <2>5, <3>1, SentLemma
      <4> QED BY <2>5, <4>1 DEF IsSent
    <3>3. SentOK(i, sp, o.sp, o.r)
      <4>1. SameCounters(o.sp, sp)
        BY <2>5, <3>2 DEF SameCounters
      <4> QED BY <1>1, <2>1, <2>3, <3>1, <3>2, <4>1, StreamFields DEF SentOK, NET_SOFTERROR
    <3> QED BY <1>1, <2>1, <2>3, <3>1, <3>2, <3>3 DEF NET_SOFTERROR, size
  <2> QED BY <2>6, <2>7
<1>2. CASE conf.proto = "sctp"
  <2> DEFINE r == Min({Block, Room(i)})
  <2>1. r \in 0..Block /\ r <= Room(i) /\ Block \in Nat
    BY MinMaxLemma, ConfLemma
  <2>2. o.r = r /\ o.sp = Sent(sp, r)
    BY <1>2 DEF protocol_send, iperf_sctp_send
  <2> HIDE DEF r
  <2>3. /\ o.sp \in StreamRec /\ SameCounters(o.sp, sp)
        /\ o.sp.bytes_sent = sp.bytes_sent + r /\ o.sp.packet_count = sp.packet_count
        /\ o.sp.sent_this_interval = sp.sent_this_interval + r
        /\ o.sp.diskfile_left = sp.diskfile_left
    <3>1. IsSent(o.sp, sp, r)
      BY <2>1, <2>2, SentLemma
    <3> QED BY <3>1 DEF IsSent
  <2> QED BY <1>2, <2>1, <2>2, <2>3, StreamFields DEF SentOK, NET_SOFTERROR
<1>3. CASE conf.proto = "udp"
  <2> DEFINE numbered == [sp EXCEPT !.packet_count = @ + 1]
  <2>1. \/ o = [sp |-> Sent(numbered, Block), r |-> Block]
        \/ o = [sp |-> numbered, r |-> NET_SOFTERROR]
    BY <1>3 DEF protocol_send, iperf_udp_send
  <2>2. Block \in Nat /\ Block > 0
    BY ConfLemma
  <2>3. /\ numbered \in StreamRec /\ SameCounters(numbered, sp)
        /\ numbered.packet_count = sp.packet_count + 1 /\ numbered.bytes_sent = sp.bytes_sent
        /\ numbered.sent_this_interval = sp.sent_this_interval
        /\ numbered.diskfile_left = sp.diskfile_left
    <3> DEFINE n == sp.packet_count + 1
    <3>1. n \in Nat
      BY StreamFields
    <3> HIDE DEF n
    <3>2. [sp EXCEPT !.packet_count = n] \in StreamRec
      BY <3>1 DEF StreamRec
    <3>3. SameCounters([sp EXCEPT !.packet_count = n], sp)
      BY DEF StreamRec, SameCounters
    <3> QED BY <3>2, <3>3 DEF StreamRec, n
  <2> HIDE DEF numbered
  <2>4. CASE o = [sp |-> Sent(numbered, Block), r |-> Block]
    <3>1. /\ o.sp \in StreamRec /\ SameCounters(o.sp, numbered)
          /\ o.sp.bytes_sent = sp.bytes_sent + Block /\ o.sp.packet_count = sp.packet_count + 1
          /\ o.sp.sent_this_interval = sp.sent_this_interval + Block
          /\ o.sp.diskfile_left = sp.diskfile_left /\ o.r = Block
      <4>1. o.sp = Sent(numbered, Block) /\ o.r = Block
        BY <2>4
      <4>2. IsSent(o.sp, numbered, Block)
        BY <2>2, <2>3, <4>1, SentLemma
      <4> QED BY <2>3, <4>1, <4>2 DEF IsSent
    <3>2. SameCounters(o.sp, sp)
      BY <2>3, <3>1 DEF SameCounters
    <3> QED BY <1>3, <2>2, <3>1, <3>2, StreamFields DEF SentOK, NET_SOFTERROR
  <2>5. CASE o = [sp |-> numbered, r |-> NET_SOFTERROR]
    BY <1>3, <2>2, <2>3, <2>5, StreamFields DEF SentOK, NET_SOFTERROR
  <2> QED BY <2>1, <2>4, <2>5
<1> QED BY <1>1, <1>2, <1>3, ConfLemma

\* What diskfile_send does to the file: reads, and what it reads is sent or kept.
FileOK(i, sp, done, o) ==
  /\ o.read \in 0..net[i].file /\ o.done \in BOOLEAN
  /\ o.done => conf.file # 0 /\ o.r = 0
  /\ conf.file # 0 /\ done => o.r = 0
  /\ conf.proto = "tcp" => /\ o.sp.pending_size \in 0..Block /\ o.sp.diskfile_left \in 0..Block
                           /\ o.done /\ ~done => sp.diskfile_left = 0 /\ net[i].file = 0
  /\ conf.proto = "tcp" /\ conf.file # 0 /\ ~conf.zerocopy =>
       o.sp.bytes_sent + o.sp.diskfile_left + (net[i].file - o.read)
         = sp.bytes_sent + sp.diskfile_left + net[i].file

LEMMA SndLemma ==
  ASSUME conf \in Configs, NEW i, Room(i) \in Nat, net[i].file \in Nat, NEW sp \in StreamRec,
         SizesOK(sp), NEW done \in BOOLEAN, NEW o \in snd(i, sp, done)
  PROVE  SentOK(i, sp, o.sp, o.r) /\ FileOK(i, sp, done, o)
<1>1. CASE conf.file = 0
  <2>1. PICK p \in protocol_send(i, sp) : o = [sp |-> p.sp, r |-> p.r, read |-> 0, done |-> FALSE]
    BY <1>1 DEF snd, PlainSend
  <2>2. o.sp = p.sp /\ o.r = p.r /\ o.read = 0 /\ o.done \in BOOLEAN /\ ~o.done
    BY <2>1
  <2>3. SentOK(i, sp, p.sp, p.r) /\ p.sp.diskfile_left = sp.diskfile_left
        /\ (conf.proto = "tcp" => p.sp.pending_size \in 0..Block)
    BY ProtocolSend DEF SizesOK
  <2> QED BY <1>1, <2>2, <2>3 DEF FileOK, SizesOK
<1>2. CASE conf.file # 0
  <2> DEFINE read == FileRead(i, sp, done)
             left == sp.diskfile_left + read
             refilled == sp.diskfile_left < Block /\ ~done
             sp1 == IF refilled /\ left # Block THEN [sp EXCEPT !.pending_size = left] ELSE sp
  <2>1. /\ read \in 0..net[i].file /\ read \in Int /\ left \in Int /\ Block \in Nat \ {0}
        /\ sp.diskfile_left \in Int
        /\ refilled => read <= Block - sp.diskfile_left
        /\ ~refilled => read = 0
        /\ refilled /\ read = 0 => net[i].file = 0
    <3>1. Block \in Nat \ {0} /\ sp.diskfile_left \in Int
      BY ConfLemma, StreamFields
    <3>2. CASE refilled
      <4>1. read = Min({net[i].file, Block - sp.diskfile_left})
        BY <3>2 DEF FileRead
      <4>2. read = IF net[i].file <= Block - sp.diskfile_left THEN net[i].file
                   ELSE Block - sp.diskfile_left
        BY <3>1, <4>1, MinMaxLemma
      <4> HIDE DEF read
      <4> QED BY <3>1, <3>2, <4>2
    <3>3. CASE ~refilled
      <4>1. read = 0
        BY <3>3 DEF FileRead
      <4> HIDE DEF read
      <4> QED BY <3>1, <3>3, <4>1
    <3> QED BY <3>2, <3>3
  <2>2. o \in IF done \/ left = 0
              THEN {[sp |-> sp1, r |-> 0, read |-> read, done |-> TRUE]}
              ELSE {[sp |-> IF p.r = NET_SOFTERROR THEN p.sp
                            ELSE [p.sp EXCEPT !.diskfile_left = left - p.r],
                     r |-> p.r, read |-> read, done |-> FALSE] : p \in protocol_send(i, sp1)}
    BY <1>2 DEF snd, diskfile_send
  <2> HIDE DEF read
  <2>3. /\ sp1 \in StreamRec /\ SameCounters(sp1, sp) /\ sp1.bytes_sent = sp.bytes_sent
        /\ sp1.packet_count = sp.packet_count /\ sp1.sent_this_interval = sp.sent_this_interval
        /\ sp1.diskfile_left = sp.diskfile_left
        /\ sp1.pending_size = IF refilled /\ left # Block THEN left ELSE sp.pending_size
    <3> HIDE DEF left
    <3>1. [sp EXCEPT !.pending_size = left] \in StreamRec
      BY <2>1 DEF StreamRec
    <3>2. SameCounters([sp EXCEPT !.pending_size = left], sp) /\ SameCounters(sp, sp)
      BY DEF StreamRec, SameCounters
    <3> QED BY <3>1, <3>2 DEF StreamRec
  <2>4. conf.proto = "tcp" => sp1.pending_size \in 0..Block /\ left \in 0..Block
    BY <2>1, <2>3 DEF SizesOK
  <2> HIDE DEF sp1
  <2>5. CASE done \/ left = 0
    <3>1. o.sp = sp1 /\ o.r = 0 /\ o.read = read /\ o.done = TRUE
      BY <2>2, <2>5
    <3>2. SentOK(i, sp, sp1, 0)
      BY <2>1, <2>3, StreamFields DEF SentOK, NET_SOFTERROR
    <3>3. conf.proto = "tcp" => sp.diskfile_left \in 0..Block /\ (~done => read = 0 /\ net[i].file = 0
                                                                       /\ sp.diskfile_left = 0)
      BY <2>1, <2>5 DEF SizesOK
    <3>4. /\ o.read \in 0..net[i].file /\ o.done \in BOOLEAN /\ o.r = 0
          /\ conf.proto = "tcp" => /\ o.sp.pending_size \in 0..Block
                                   /\ o.sp.diskfile_left \in 0..Block
      BY <2>1, <2>3, <2>4, <3>1, <3>3
    <3>5. conf.proto = "tcp" /\ conf.file # 0 /\ ~conf.zerocopy =>
            o.sp.bytes_sent + o.sp.diskfile_left + (net[i].file - o.read)
              = sp.bytes_sent + sp.diskfile_left + net[i].file
      <4>1. conf.proto = "tcp" => read = 0
        BY <2>1, <2>5, <3>3
      <4> QED BY <2>1, <2>3, <3>1, <4>1, StreamFields
    <3> QED BY <1>2, <3>1, <3>2, <3>3, <3>4, <3>5 DEF FileOK
  <2>6. CASE ~(done \/ left = 0)
    <3>1. PICK p \in protocol_send(i, sp1) :
            o = [sp |-> IF p.r = NET_SOFTERROR THEN p.sp
                        ELSE [p.sp EXCEPT !.diskfile_left = left - p.r],
                 r |-> p.r, read |-> read, done |-> FALSE]
      BY <2>2, <2>6
    <3>2. /\ SentOK(i, sp1, p.sp, p.r) /\ p.sp.diskfile_left = sp.diskfile_left
          /\ conf.proto = "tcp" =>
               /\ p.sp.pending_size \in 0..Block
               /\ p.r <= IF sp1.pending_size = 0 THEN Block ELSE sp1.pending_size
               /\ p.r = NET_SOFTERROR => conf.zerocopy
      BY <2>3, <2>4, ProtocolSend
    <3>3. conf.proto = "tcp" => p.r <= left
      <4> SUFFICES ASSUME conf.proto = "tcp" PROVE p.r <= left
        OBVIOUS
      <4>1. /\ sp.pending_size \in 0..Block /\ sp.diskfile_left \in 0..Block
            /\ p.r \in Nat \/ p.r = -1
        BY <3>2 DEF SizesOK, SentOK, NET_SOFTERROR
      <4>2. CASE refilled /\ left # Block
        BY <2>3, <2>6, <3>2, <4>2
      <4>3. CASE ~(refilled /\ left # Block)
        <5>1. left = Block
          BY <2>1, <2>6, <4>1, <4>3
        <5>2. p.r <= IF sp.pending_size = 0 THEN Block ELSE sp.pending_size
          BY <2>3, <3>2, <4>3
        <5> QED BY <2>1, <4>1, <5>1, <5>2
      <4> QED BY <4>2, <4>3
    <3>4. /\ p.sp \in StreamRec /\ (p.r \in Nat \/ p.r = NET_SOFTERROR)
      BY <3>2 DEF SentOK
    <3> DEFINE d == IF p.r = NET_SOFTERROR THEN p.sp.diskfile_left ELSE left - p.r
    <3>5. /\ d \in Int
          /\ conf.proto = "tcp" => d \in 0..Block
      BY <2>1, <2>4, <3>2, <3>3, <3>4, StreamFields, SMTT(60) DEF SizesOK, NET_SOFTERROR
    <3>6. o.sp = [p.sp EXCEPT !.diskfile_left = d] /\ o.r = p.r /\ o.read = read
          /\ o.done \in BOOLEAN /\ ~o.done
      BY <3>1, <3>4 DEF StreamRec
    <3> HIDE DEF d
    <3>7. /\ o.sp \in StreamRec /\ SameCounters(o.sp, p.sp) /\ o.sp.bytes_sent = p.sp.bytes_sent
          /\ o.sp.packet_count = p.sp.packet_count
          /\ o.sp.sent_this_interval = p.sp.sent_this_interval
          /\ o.sp.diskfile_left = d /\ o.sp.pending_size = p.sp.pending_size
      <4>1. [p.sp EXCEPT !.diskfile_left = d] \in StreamRec
        BY <3>4, <3>5 DEF StreamRec
      <4>2. SameCounters([p.sp EXCEPT !.diskfile_left = d], p.sp)
        BY <3>4 DEF StreamRec, SameCounters
      <4> QED BY <3>4, <3>6, <4>1, <4>2 DEF StreamRec
    <3>8. SentOK(i, sp, o.sp, o.r)
      <4>1. SameCounters(o.sp, sp)
        BY <2>3, <3>2, <3>7 DEF SameCounters, SentOK
      <4> QED BY <2>3, <3>2, <3>6, <3>7, <4>1 DEF SentOK
    <3>9. FileOK(i, sp, done, o)
      <4>1. /\ o.read \in 0..net[i].file /\ o.done \in BOOLEAN /\ ~o.done /\ ~done
            /\ conf.proto = "tcp" => /\ o.sp.pending_size \in 0..Block
                                     /\ o.sp.diskfile_left \in 0..Block
        BY <2>1, <2>6, <3>2, <3>5, <3>6, <3>7
      <4>2. conf.proto = "tcp" /\ ~conf.zerocopy =>
              o.sp.bytes_sent + o.sp.diskfile_left + (net[i].file - o.read)
                = sp.bytes_sent + sp.diskfile_left + net[i].file
        <5> SUFFICES ASSUME conf.proto = "tcp", ~conf.zerocopy
                     PROVE  o.sp.bytes_sent + o.sp.diskfile_left + (net[i].file - o.read)
                              = sp.bytes_sent + sp.diskfile_left + net[i].file
          OBVIOUS
        <5>1. p.r # NET_SOFTERROR /\ p.r \in Nat
          BY <3>2, <3>4
        <5>2. o.sp.bytes_sent = sp.bytes_sent + p.r /\ sp.bytes_sent \in Nat
          BY <2>3, <3>2, <3>7, <5>1, StreamFields DEF SentOK
        <5>3. o.sp.diskfile_left = sp.diskfile_left + read - p.r
          <6>1. d = left - p.r
            BY <5>1 DEF d
          <6> QED BY <2>1, <3>7, <5>1, <6>1
        <5> QED BY <2>1, <3>6, <5>1, <5>2, <5>3
      <4> QED BY <1>2, <4>1, <4>2 DEF FileOK
    <3> QED BY <3>8, <3>9
  <2> QED BY <2>5, <2>6
<1> QED BY <1>1, <1>2

-----------------------------------------------------------------------------
(* Receiving *)

\* What a call of rcv leaves alone.
SameSender(a, b) ==
  /\ a.green_light = b.green_light /\ a.peer_packet_count = b.peer_packet_count
  /\ a.pending_size = b.pending_size /\ a.diskfile_left = b.diskfile_left
  /\ a.omitted_packet_count = b.omitted_packet_count
  /\ a.omitted_cnt_error = b.omitted_cnt_error
  /\ a.bytes_sent = b.bytes_sent /\ a.bytes_sent_omit = b.bytes_sent_omit
  /\ a.sent_this_interval = b.sent_this_interval /\ a.intervals = b.intervals

\* a is sp after r more bytes were received.
IsGot(a, sp, r) ==
  /\ a \in StreamRec /\ SameSender(a, sp)
  /\ a.bytes_received = sp.bytes_received + r
  /\ a.received_this_interval = sp.received_this_interval + r
  /\ a.packet_count = sp.packet_count /\ a.cnt_error = sp.cnt_error
  /\ a.outoforder = sp.outoforder

LEMMA GotLemma ==
  ASSUME NEW sp \in StreamRec, NEW r \in Nat
  PROVE  IsGot(Got(sp, r), sp, r)
<1> DEFINE a == sp.bytes_received + r
           b == sp.received_this_interval + r
<1>1. a \in Nat /\ b \in Nat
  BY StreamFields
<1>2. Got(sp, r) = [sp EXCEPT !.bytes_received = a, !.received_this_interval = b]
  BY DEF Got
<1> HIDE DEF a, b
<1>3. Got(sp, r) \in StreamRec
  BY <1>1, <1>2, ZenonT(60) DEF StreamRec
<1>4. SameSender(Got(sp, r), sp)
  BY <1>2 DEF StreamRec, SameSender
<1>5. /\ Got(sp, r).bytes_received = a /\ Got(sp, r).received_this_interval = b
      /\ Got(sp, r).packet_count = sp.packet_count /\ Got(sp, r).cnt_error = sp.cnt_error
      /\ Got(sp, r).outoforder = sp.outoforder
  BY <1>2 DEF StreamRec
<1> QED BY <1>3, <1>4, <1>5 DEF IsGot, a, b

\* a is sp after datagram p was received.
IsDatagram(a, sp, p) ==
  /\ a \in StreamRec /\ SameSender(a, sp)
  /\ a.bytes_received = sp.bytes_received + Block
  /\ a.received_this_interval = sp.received_this_interval + Block
  /\ a.packet_count = IF p > sp.packet_count THEN p ELSE sp.packet_count
  /\ a.cnt_error = IF p > sp.packet_count THEN sp.cnt_error + (p - 1 - sp.packet_count)
                   ELSE IF sp.cnt_error > 0 THEN sp.cnt_error - 1 ELSE 0

LEMMA DatagramLemma ==
  ASSUME NEW sp \in StreamRec, NEW p \in Nat \ {0}, Block \in Nat
  PROVE  IsDatagram(iperf_udp_recv(sp, p, "TEST_RUNNING"), sp, p)
<1> DEFINE b == Got(sp, Block)
           c == IF p > sp.packet_count THEN sp.cnt_error + (p - 1 - sp.packet_count)
                ELSE IF sp.cnt_error > 0 THEN sp.cnt_error - 1 ELSE 0
           u == IF p > sp.packet_count THEN b.outoforder ELSE b.outoforder + 1
           n == IF p > sp.packet_count THEN p ELSE sp.packet_count
           a == [b EXCEPT !.cnt_error = c, !.outoforder = u, !.packet_count = n]
<1>1. IsGot(b, sp, Block)
  BY GotLemma
<1>2. /\ b \in StreamRec /\ b.packet_count = sp.packet_count /\ b.cnt_error = sp.cnt_error
      /\ sp.packet_count \in Nat /\ sp.cnt_error \in Nat /\ b.outoforder \in Nat
  BY <1>1, StreamFields DEF IsGot
<1>3. c \in Nat /\ u \in Nat /\ n \in Nat
  BY <1>2
<1> HIDE DEF b
<1>4. iperf_udp_recv(sp, p, "TEST_RUNNING") = a
  <2>1. CASE p > sp.packet_count
    <3>1. iperf_udp_recv(sp, p, "TEST_RUNNING")
            = [b EXCEPT !.cnt_error = sp.cnt_error + (p - 1 - sp.packet_count), !.packet_count = p]
      BY <1>2, <2>1 DEF iperf_udp_recv, b
    <3> QED BY <1>2, <2>1, <3>1 DEF StreamRec
  <2>2. CASE ~(p > sp.packet_count)
    <3>1. iperf_udp_recv(sp, p, "TEST_RUNNING")
            = [b EXCEPT !.outoforder = b.outoforder + 1,
                        !.cnt_error = IF b.cnt_error > 0 THEN b.cnt_error - 1 ELSE b.cnt_error]
      BY <1>2, <2>2 DEF iperf_udp_recv, b
    <3>2. c = IF b.cnt_error > 0 THEN b.cnt_error - 1 ELSE b.cnt_error
      BY <1>2, <2>2
    <3> QED BY <1>2, <2>2, <3>1, <3>2 DEF StreamRec
  <2> QED BY <2>1, <2>2
<1> HIDE DEF c, u, n
<1>5. a \in StreamRec
  BY <1>2, <1>3 DEF StreamRec
<1>6. SameSender(a, b)
  BY <1>2 DEF StreamRec, SameSender
<1>7. /\ a.cnt_error = c /\ a.packet_count = n /\ a.bytes_received = b.bytes_received
      /\ a.received_this_interval = b.received_this_interval
  BY <1>2 DEF StreamRec
<1>8. SameSender(a, sp)
  BY <1>1, <1>6 DEF SameSender, IsGot
<1> HIDE DEF a
<1>9. IsDatagram(a, sp, p)
  BY <1>1, <1>5, <1>7, <1>8 DEF IsDatagram, IsGot, c, n
<1> QED BY <1>4, <1>9

-----------------------------------------------------------------------------
(* Statistics *)

\* a is sp after iperf_reset_stats.
IsReset(a, sp) ==
  /\ a \in StreamRec
  /\ a.green_light = sp.green_light /\ a.peer_packet_count = sp.peer_packet_count
  /\ a.pending_size = sp.pending_size /\ a.diskfile_left = sp.diskfile_left
  /\ a.packet_count = sp.packet_count /\ a.cnt_error = sp.cnt_error
  /\ a.omitted_packet_count = sp.packet_count /\ a.omitted_cnt_error = sp.cnt_error
  /\ a.bytes_sent = sp.bytes_sent /\ a.bytes_sent_omit = sp.bytes_sent
  /\ a.bytes_received = 0 /\ a.sent_this_interval = 0 /\ a.received_this_interval = 0
  /\ a.intervals = sp.intervals

LEMMA ResetLemma ==
  ASSUME NEW sp \in StreamRec PROVE IsReset(ResetStream(sp), sp)
<1>1. ResetStream(sp) \in StreamRec
  BY DEF StreamRec, ResetStream
<1> QED BY <1>1 DEF IsReset, StreamRec, ResetStream

LastOf(sp, f) == IF sp.intervals = <<>> THEN 0 ELSE sp.intervals[Len(sp.intervals)][f]

\* a is sp after iperf_stats_callback.
IsCounted(side, a, sp) ==
  /\ a \in StreamRec
  /\ a.green_light = sp.green_light /\ a.peer_packet_count = sp.peer_packet_count
  /\ a.pending_size = sp.pending_size /\ a.diskfile_left = sp.diskfile_left
  /\ a.packet_count = sp.packet_count /\ a.cnt_error = sp.cnt_error
  /\ a.omitted_packet_count = sp.omitted_packet_count
  /\ a.omitted_cnt_error = sp.omitted_cnt_error
  /\ a.bytes_sent = sp.bytes_sent /\ a.bytes_sent_omit = sp.bytes_sent_omit
  /\ a.bytes_received = sp.bytes_received
  /\ a.sent_this_interval = 0 /\ a.received_this_interval = 0
  /\ a.intervals = Append(sp.intervals,
       [omitted |-> test[side].omitting,
        bytes |-> IF side = conf.sender THEN sp.sent_this_interval ELSE sp.received_this_interval,
        packets |-> sp.packet_count - LastOf(sp, "packet_count"),
        errors |-> sp.cnt_error - LastOf(sp, "cnt_error"),
        packet_count |-> sp.packet_count, cnt_error |-> sp.cnt_error])

LEMMA IntervalLemma ==
  ASSUME NEW side, test[side].omitting \in BOOLEAN, NEW sp \in StreamRec
  PROVE  IsCounted(side, AddInterval(side, sp), sp)
<1> DEFINE iv == [omitted |-> test[side].omitting,
                  bytes |-> IF side = conf.sender THEN sp.sent_this_interval
                            ELSE sp.received_this_interval,
                  packets |-> sp.packet_count - LastOf(sp, "packet_count"),
                  errors |-> sp.cnt_error - LastOf(sp, "cnt_error"),
                  packet_count |-> sp.packet_count, cnt_error |-> sp.cnt_error]
           q == Append(sp.intervals, iv)
           a == [sp EXCEPT !.intervals = q, !.sent_this_interval = 0, !.received_this_interval = 0]
<1>1. AddInterval(side, sp) = a
  BY DEF AddInterval, LastOf
<1>2. LastOf(sp, "packet_count") \in Nat /\ LastOf(sp, "cnt_error") \in Nat
  <2>1. sp.intervals \in Seq(Interval)
    BY StreamFields
  <2>2. sp.intervals # <<>> => sp.intervals[Len(sp.intervals)] \in Interval
    BY <2>1
  <2> QED BY <2>2 DEF LastOf, Interval
<1>3. iv \in Interval
  BY <1>2, StreamFields DEF Interval
<1> HIDE DEF iv
<1>4. q \in Seq(Interval)
  BY <1>3, StreamFields
<1> HIDE DEF q
<1>5. a \in StreamRec
  BY <1>4 DEF StreamRec
<1>6. IsCounted(side, a, sp) <=> a.intervals = q
  BY <1>5 DEF IsCounted, StreamRec, q, iv
<1> QED BY <1>1, <1>6 DEF StreamRec

-----------------------------------------------------------------------------
(* What the actions do *)

LEMMA TestFields ==
  ASSUME TypeInv, NEW side \in Side
  PROVE  /\ test[side] \in TestRec
         /\ test[side].state \in {"TEST_RUNNING", "TEST_END", "DISPLAY_RESULTS", "FAILED"}
         /\ test[side].done \in BOOLEAN /\ test[side].omitting \in BOOLEAN
         /\ test[side].bytes_sent \in Nat /\ test[side].blocks_sent \in Nat
         /\ test[side].pc \in {"select", "send", "timers"} /\ test[side].multisend \in Nat
         /\ test[side].ready \subseteq Stream /\ test[side].next \in Nat
BY DEF TypeInv, TestRec

LEMMA NetFields ==
  ASSUME TypeInv, NEW i \in Stream
  PROVE  /\ net[i] \in NetRec /\ net[i].bytes \in 0..SocketBuffer /\ Room(i) \in Nat
         /\ net[i].fly \in SUBSET (Nat \ {0}) /\ net[i].file \in Nat
<1>1. /\ net[i] \in NetRec /\ net[i].bytes \in 0..SocketBuffer
      /\ net[i].fly \in SUBSET (Nat \ {0}) /\ net[i].file \in Nat
  BY DEF TypeInv, NetRec
<1> QED BY <1>1, ConfLemma DEF Room, TypeInv

\* iperf_check_throttle changes the green light only.
SameButGreen(a, b) == a \in StreamRec /\ a = [b EXCEPT !.green_light = a.green_light]

LEMMA ThrottleLemma ==
  ASSUME NEW b \in StreamRec, NEW done \in BOOLEAN, NEW a \in iperf_check_throttle(b, done)
  PROVE  /\ SameButGreen(a, b)
         /\ done => a = b
         /\ ~done /\ conf.rate # 0 /\ now # 0 /\ a.green_light => b.bytes_sent < conf.rate * now
<1>1. CASE done \/ conf.rate = 0
  BY <1>1 DEF iperf_check_throttle, SameButGreen, StreamRec
<1>2. CASE ~(done \/ conf.rate = 0)
  <2>1. PICK g \in BelowRate(b) : a = [b EXCEPT !.green_light = g]
    BY <1>2 DEF iperf_check_throttle
  <2>2. g \in BOOLEAN /\ (now # 0 => (g <=> b.bytes_sent < conf.rate * now))
    BY <2>1 DEF BelowRate
  <2>3. a.green_light = g /\ a \in StreamRec
    BY <2>1, <2>2 DEF StreamRec
  <2> QED BY <1>2, <2>1, <2>2, <2>3 DEF SameButGreen
<1> QED BY <1>1, <1>2

LEMMA GreenFields ==
  ASSUME NEW b \in StreamRec, NEW a, SameButGreen(a, b)
  PROVE  /\ a \in StreamRec /\ a.pending_size = b.pending_size
         /\ a.diskfile_left = b.diskfile_left /\ a.packet_count = b.packet_count
         /\ a.peer_packet_count = b.peer_packet_count
         /\ a.omitted_packet_count = b.omitted_packet_count /\ a.cnt_error = b.cnt_error
         /\ a.omitted_cnt_error = b.omitted_cnt_error /\ a.outoforder = b.outoforder
         /\ a.bytes_sent = b.bytes_sent /\ a.bytes_sent_omit = b.bytes_sent_omit
         /\ a.bytes_received = b.bytes_received
         /\ a.sent_this_interval = b.sent_this_interval
         /\ a.received_this_interval = b.received_this_interval /\ a.intervals = b.intervals
BY DEF SameButGreen, StreamRec

\* One call of snd on stream i, with result o, which leaves the stream a.
SendFacts(i, o, a) ==
  LET side == conf.sender
      t == test[side]
  IN  /\ i \in t.ready /\ i \in Stream /\ i >= t.next /\ stream[side][i].green_light
      /\ t.pc = "send" /\ t.state = "TEST_RUNNING" /\ ~(t.multisend > 1 /\ LimitReached(side))
      /\ SentOK(i, stream[side][i], o.sp, o.r) /\ FileOK(i, stream[side][i], t.done, o)
      /\ SameButGreen(a, o.sp)
      /\ IF ThrottleEachSend /\ o.r # NET_SOFTERROR
         THEN a \in iperf_check_throttle(o.sp, t.done \/ o.done) ELSE a = o.sp
      /\ stream' = [stream EXCEPT ![side] = [stream[side] EXCEPT ![i] = a]]
      /\ net' = [net EXCEPT ![i] = [net[i] EXCEPT
           !.file = net[i].file - o.read,
           !.bytes = IF conf.proto = "udp" \/ o.r = NET_SOFTERROR THEN net[i].bytes
                     ELSE net[i].bytes + o.r,
           !.fly = IF conf.proto = "udp" /\ o.r > 0 THEN net[i].fly \cup {a.packet_count}
                   ELSE net[i].fly]]
      /\ test' = [test EXCEPT ![side] =
           [t EXCEPT !.done = t.done \/ o.done,
                     !.next = IF o.r = NET_SOFTERROR THEN conf.streams + 1 ELSE i + 1,
                     !.active = IF o.r = NET_SOFTERROR THEN t.active ELSE TRUE,
                     !.bytes_sent = IF o.r = NET_SOFTERROR THEN t.bytes_sent ELSE t.bytes_sent + o.r,
                     !.blocks_sent = IF o.r # NET_SOFTERROR /\ a.pending_size = 0
                                     THEN t.blocks_sent + 1 ELSE t.blocks_sent]]

\* The limit is reached: the rest of this round is skipped.
SkipFacts ==
  LET side == conf.sender
      t == test[side]
  IN  /\ t.pc = "send" /\ t.state = "TEST_RUNNING" /\ t.multisend > 1 /\ LimitReached(side)
      /\ test' = [test EXCEPT ![side] = [t EXCEPT !.next = conf.streams + 1]]
      /\ stream' = stream /\ net' = net

LEMMA SendLemma ==
  ASSUME TypeInv, SendOne
  PROVE  SkipFacts \/ \E i, o, a : SendFacts(i, o, a)
<1> DEFINE side == conf.sender
           t == test[side]
           V == ToVisit(t)
           i == Min(V)
<1>1. side \in Side /\ Stream \subseteq Nat
  BY ConfLemma DEF TypeInv
<1>2. i \in Stream /\ i \in t.ready /\ i >= t.next /\ stream[side][i].green_light
  <2>1. V \in SUBSET Stream /\ V # {}
    BY <1>1, TestFields DEF ToVisit, SendOne
  <2>2. PICK m \in V : \A k \in V : m <= k
    <3>1. V \in SUBSET Nat
      BY <1>1, <2>1
    <3> HIDE DEF V
    <3> QED BY <2>1, <3>1, LeastNatural
  <2>3. i \in V
    BY <2>2 DEF Min
  <2> QED BY <2>1, <2>3 DEF ToVisit
<1> HIDE DEF i
<1>3. t.pc = "send" /\ t.state = "TEST_RUNNING"
  BY DEF SendOne, Running
<1>4. CASE t.multisend > 1 /\ LimitReached(side)
  <2>1. /\ test' = [test EXCEPT ![side].next = conf.streams + 1]
        /\ stream' = stream /\ net' = net
    BY <1>4 DEF SendOne
  <2> QED BY <1>3, <1>4, <2>1 DEF SkipFacts
<1>5. CASE ~(t.multisend > 1 /\ LimitReached(side))
  <2>1. PICK o \in snd(i, stream[side][i], t.done) :
          \E a \in IF ThrottleEachSend /\ o.r # NET_SOFTERROR
                   THEN iperf_check_throttle(o.sp, t.done \/ o.done) ELSE {o.sp} :
             /\ stream' = [stream EXCEPT ![side][i] = a]
             /\ net' = [net EXCEPT ![i].file = @ - o.read,
                          ![i].bytes = IF conf.proto = "udp" \/ o.r = NET_SOFTERROR THEN @ ELSE @ + o.r,
                          ![i].fly = IF conf.proto = "udp" /\ o.r > 0
                                     THEN @ \cup {a.packet_count} ELSE @]
             /\ test' = [test EXCEPT ![side] =
                  IF o.r = NET_SOFTERROR THEN [t EXCEPT !.next = conf.streams + 1, !.done = @ \/ o.done]
                  ELSE [t EXCEPT !.next = i + 1, !.active = TRUE, !.done = @ \/ o.done,
                          !.bytes_sent = @ + o.r,
                          !.blocks_sent = IF a.pending_size = 0 THEN @ + 1 ELSE @]]
    BY <1>5 DEF SendOne, i
  <2>2. PICK a \in IF ThrottleEachSend /\ o.r # NET_SOFTERROR
                   THEN iperf_check_throttle(o.sp, t.done \/ o.done) ELSE {o.sp} :
             /\ stream' = [stream EXCEPT ![side][i] = a]
             /\ net' = [net EXCEPT ![i].file = @ - o.read,
                          ![i].bytes = IF conf.proto = "udp" \/ o.r = NET_SOFTERROR THEN @ ELSE @ + o.r,
                          ![i].fly = IF conf.proto = "udp" /\ o.r > 0
                                     THEN @ \cup {a.packet_count} ELSE @]
             /\ test' = [test EXCEPT ![side] =
                  IF o.r = NET_SOFTERROR THEN [t EXCEPT !.next = conf.streams + 1, !.done = @ \/ o.done]
                  ELSE [t EXCEPT !.next = i + 1, !.active = TRUE, !.done = @ \/ o.done,
                          !.bytes_sent = @ + o.r,
                          !.blocks_sent = IF a.pending_size = 0 THEN @ + 1 ELSE @]]
    BY <2>1
  <2>3. /\ stream[side][i] \in StreamRec /\ SizesOK(stream[side][i]) /\ t.done \in BOOLEAN
        /\ t \in TestRec
    BY <1>1, <1>2, TestFields DEF TypeInv
  <2>4. SentOK(i, stream[side][i], o.sp, o.r) /\ FileOK(i, stream[side][i], t.done, o)
    BY <1>2, <2>1, <2>3, SndLemma, NetFields DEF TypeInv
  <2>5. o.sp \in StreamRec /\ o.done \in BOOLEAN
    BY <2>4 DEF SentOK, FileOK
  <2>6. SameButGreen(a, o.sp)
    <3>1. CASE ThrottleEachSend /\ o.r # NET_SOFTERROR
      <4>1. a \in iperf_check_throttle(o.sp, t.done \/ o.done) /\ (t.done \/ o.done) \in BOOLEAN
        BY <2>2, <3>1
      <4> QED BY <2>5, <4>1, ThrottleLemma
    <3>2. CASE ~(ThrottleEachSend /\ o.r # NET_SOFTERROR)
      <4>1. a = o.sp
        BY <2>2, <3>2
      <4> QED BY <2>5, <4>1 DEF SameButGreen, StreamRec
    <3> QED BY <3>1, <3>2
  <2>7. stream' = [stream EXCEPT ![side] = [stream[side] EXCEPT ![i] = a]]
    BY <2>2
  <2>8. net' = [net EXCEPT ![i] = [net[i] EXCEPT
           !.file = net[i].file - o.read,
           !.bytes = IF conf.proto = "udp" \/ o.r = NET_SOFTERROR THEN net[i].bytes
                     ELSE net[i].bytes + o.r,
           !.fly = IF conf.proto = "udp" /\ o.r > 0 THEN net[i].fly \cup {a.packet_count}
                   ELSE net[i].fly]]
    BY <2>2
  <2>9. test' = [test EXCEPT ![side] =
           [t EXCEPT !.done = t.done \/ o.done,
                     !.next = IF o.r = NET_SOFTERROR THEN conf.streams + 1 ELSE i + 1,
                     !.active = IF o.r = NET_SOFTERROR THEN t.active ELSE TRUE,
                     !.bytes_sent = IF o.r = NET_SOFTERROR THEN t.bytes_sent ELSE t.bytes_sent + o.r,
                     !.blocks_sent = IF o.r # NET_SOFTERROR /\ a.pending_size = 0
                                     THEN t.blocks_sent + 1 ELSE t.blocks_sent]]
    BY <2>2, <2>3, ZenonT(60) DEF TestRec
  <2>10. IF ThrottleEachSend /\ o.r # NET_SOFTERROR
         THEN a \in iperf_check_throttle(o.sp, t.done \/ o.done) ELSE a = o.sp
    BY <2>2
  <2>11. SendFacts(i, o, a)
    BY <1>2, <1>3, <1>5, <2>4, <2>6, <2>7, <2>8, <2>9, <2>10, Zenon DEF SendFacts
  <2> QED BY <2>11
<1> QED BY <1>4, <1>5

Streams == [Side -> [Stream -> StreamRec]]

LEMMA SideLemma ==
  ASSUME NEW side \in Side
  PROVE  Other(side) \in Side /\ Other(side) # side /\ Side = {side, Other(side)}
BY DEF Side, Other

\* A timer of one side changes its streams one by one.
CountFacts(side) ==
  /\ stream' \in Streams /\ stream'[Other(side)] = stream[Other(side)]
  /\ \A i \in Stream : IsCounted(side, stream'[side][i], stream[side][i])

LEMMA CountLemma ==
  ASSUME TypeInv, NEW side \in Side, stream' = StreamsOf(side, AddInterval)
  PROVE  CountFacts(side)
<1> DEFINE new == [i \in Stream |-> AddInterval(side, stream[side][i])]
<1>1. stream' = [stream EXCEPT ![side] = new]
  BY DEF StreamsOf
<1>2. ASSUME NEW i \in Stream PROVE IsCounted(side, new[i], stream[side][i])
  <2>1. stream[side][i] \in StreamRec /\ test[side].omitting \in BOOLEAN
    BY TestFields DEF TypeInv
  <2>2. IsCounted(side, AddInterval(side, stream[side][i]), stream[side][i])
    BY <2>1, IntervalLemma
  <2> QED BY <2>2
<1>3. new \in [Stream -> StreamRec]
  <2>1. ASSUME NEW i \in Stream PROVE new[i] \in StreamRec
    BY <1>2 DEF IsCounted
  <2>2. \A i \in Stream : AddInterval(side, stream[side][i]) \in StreamRec
    BY <2>1
  <2> QED BY <2>2
<1> HIDE DEF new
<1>4. stream' \in Streams /\ stream'[side] = new /\ stream'[Other(side)] = stream[Other(side)]
  BY <1>1, <1>3, SideLemma DEF TypeInv, Streams
<1> QED BY <1>2, <1>4 DEF CountFacts

ResetFacts(side) ==
  /\ stream' \in Streams /\ stream'[Other(side)] = stream[Other(side)]
  /\ \A i \in Stream : IsReset(stream'[side][i], stream[side][i])

LEMMA OmitLemma ==
  ASSUME TypeInv, NEW side \in Side, OmitTimer(side)
  PROVE  ResetFacts(side)
<1> DEFINE new == [i \in Stream |-> ResetStream(stream[side][i])]
<1>1. stream' = [stream EXCEPT ![side] = new]
  BY DEF OmitTimer, StreamsOf
<1>2. ASSUME NEW i \in Stream PROVE IsReset(new[i], stream[side][i])
  <2>1. stream[side][i] \in StreamRec
    BY DEF TypeInv
  <2>2. IsReset(ResetStream(stream[side][i]), stream[side][i])
    BY <2>1, ResetLemma
  <2> QED BY <2>2
<1>3. new \in [Stream -> StreamRec]
  <2>1. ASSUME NEW i \in Stream PROVE new[i] \in StreamRec
    BY <1>2 DEF IsReset
  <2>2. \A i \in Stream : ResetStream(stream[side][i]) \in StreamRec
    BY <2>1
  <2> QED BY <2>2
<1> HIDE DEF new
<1>4. stream' \in Streams /\ stream'[side] = new /\ stream'[Other(side)] = stream[Other(side)]
  BY <1>1, <1>3, SideLemma DEF TypeInv, Streams
<1> QED BY <1>2, <1>4 DEF ResetFacts

\* The throttle checks change the green lights of the sender only.
GreenFacts ==
  /\ stream' \in Streams
  /\ \A side \in Side, i \in Stream : SameButGreen(stream'[side][i], stream[side][i])
  /\ \A i \in Stream : stream'[Receiver][i] = stream[Receiver][i]
  /\ \A i \in Stream : LET a == stream'[conf.sender][i]
                           b == stream[conf.sender][i]
                       IN  a = b \/ a \in iperf_check_throttle(b, test[conf.sender].done)

LEMMA SameGreen == ASSUME NEW a \in StreamRec PROVE SameButGreen(a, a)
BY DEF SameButGreen, StreamRec

LEMMA SendTimerLemma ==
  ASSUME TypeInv, NEW i \in Stream, SendTimer(i)
  PROVE  GreenFacts
<1> DEFINE side == conf.sender
<1>1. PICK a \in iperf_check_throttle(stream[side][i], test[side].done) :
        stream' = [stream EXCEPT ![side][i] = a]
  BY DEF SendTimer
<1>2. side \in Side /\ Receiver \in Side /\ Receiver # side /\ Side = {side, Receiver}
  BY ConfLemma DEF TypeInv
<1>3. stream[side][i] \in StreamRec /\ test[side].done \in BOOLEAN
  BY <1>2, TestFields DEF TypeInv
<1>4. SameButGreen(a, stream[side][i])
  BY <1>1, <1>3, ThrottleLemma
<1>5. a \in StreamRec
  BY <1>4 DEF SameButGreen
<1>6. /\ stream' \in Streams
      /\ stream'[Receiver] = stream[Receiver] /\ stream'[side][i] = a
      /\ \A k \in Stream : k # i => stream'[side][k] = stream[side][k]
  BY <1>1, <1>2, <1>5 DEF TypeInv, Streams
<1>7. ASSUME NEW s \in Side, NEW k \in Stream
      PROVE  SameButGreen(stream'[s][k], stream[s][k])
  <2>1. stream[s][k] \in StreamRec
    BY DEF TypeInv
  <2> QED BY <1>2, <1>4, <1>6, <2>1, SameGreen
<1> QED BY <1>1, <1>6, <1>7 DEF GreenFacts

LEMMA SendRoundLemma ==
  ASSUME TypeInv, SendRound
  PROVE  GreenFacts
<1> DEFINE side == conf.sender
           t == test[side]
           more == t.active /\ t.multisend > 1
<1>1. side \in Side /\ Receiver \in Side /\ Receiver # side /\ Side = {side, Receiver}
  BY ConfLemma DEF TypeInv
<1>2. t.done \in BOOLEAN /\ stream \in Streams
  BY <1>1, TestFields DEF TypeInv, Streams
<1>3. CASE more \/ ThrottleEachSend
  <2>1. stream' = stream
    BY <1>3 DEF SendRound
  <2>2. \A s \in Side, k \in Stream : SameButGreen(stream[s][k], stream[s][k])
    BY <1>2, SameGreen DEF Streams
  <2> QED BY <1>2, <2>1, <2>2 DEF GreenFacts
<1>4. CASE ~(more \/ ThrottleEachSend)
  <2>1. PICK g \in [Stream -> BOOLEAN] :
          LET checked(i) == [stream[side][i] EXCEPT !.green_light = g[i]]
          IN  /\ \A i \in Stream : checked(i) \in iperf_check_throttle(stream[side][i], t.done)
              /\ stream' = [stream EXCEPT ![side] = [i \in Stream |-> checked(i)]]
    BY <1>4 DEF SendRound
  <2> DEFINE new == [i \in Stream |-> [stream[side][i] EXCEPT !.green_light = g[i]]]
  <2>2. /\ \A i \in Stream : new[i] \in iperf_check_throttle(stream[side][i], t.done)
        /\ stream' = [stream EXCEPT ![side] = new]
    BY <2>1
  <2>3. new \in [Stream -> StreamRec]
    <3>1. ASSUME NEW i \in Stream PROVE [stream[side][i] EXCEPT !.green_light = g[i]] \in StreamRec
      <4>1. stream[side][i] \in StreamRec /\ g[i] \in BOOLEAN
        BY <1>1, <1>2 DEF Streams
      <4> QED BY <4>1 DEF StreamRec
    <3> QED BY <3>1
  <2> HIDE DEF new
  <2>4. stream' \in Streams /\ stream'[Receiver] = stream[Receiver] /\ stream'[side] = new
    BY <1>1, <1>2, <2>2, <2>3 DEF Streams
  <2>5. ASSUME NEW s \in Side, NEW k \in Stream
        PROVE  SameButGreen(stream'[s][k], stream[s][k])
    <3>1. stream[s][k] \in StreamRec /\ stream[side][k] \in StreamRec
      BY <1>1, <1>2 DEF Streams
    <3>2. SameButGreen(new[k], stream[side][k])
      BY <1>2, <2>2, <3>1, ThrottleLemma
    <3> QED BY <1>1, <2>4, <3>1, <3>2, SameGreen
  <2> QED BY <2>2, <2>4, <2>5 DEF GreenFacts
<1> QED BY <1>3, <1>4

\* iperf_recv on the streams of R, datagram p[i] on stream i.
RecvFacts(R, p) ==
  LET t == test[Receiver]
      counted(i) == i \in R /\ t.state = "TEST_RUNNING"
  IN  /\ t.pc = "select" /\ R \subseteq Stream /\ ~limit.exceeded
      /\ t.state \in {"TEST_RUNNING", "TEST_END"}
      /\ conf.proto = "udp" => \A i \in R : p[i] \in net[i].fly
      /\ stream' \in Streams /\ stream'[conf.sender] = stream[conf.sender]
      /\ \A i \in Stream :
           LET a == stream'[Receiver][i]
               b == stream[Receiver][i]
           IN  /\ ~counted(i) => a = b
               /\ counted(i) /\ conf.proto = "udp" => IsDatagram(a, b, p[i])
               /\ counted(i) /\ conf.proto # "udp" => IsGot(a, b, Min({net[i].bytes, Block}))
      /\ net' \in [Stream -> NetRec]
      /\ \A i \in Stream : net'[i].fly \subseteq net[i].fly /\ net'[i].file = net[i].file
      /\ ghost' \in GhostRec /\ ghost'.early = ghost.early
      /\ \A i \in Stream :
           /\ ghost'.got[i] = IF counted(i) /\ conf.proto = "udp" THEN ghost.got[i] \cup {p[i]}
                              ELSE ghost.got[i]
           /\ ghost'.dup[i] = IF counted(i) /\ conf.proto = "udp" /\ p[i] \in ghost.got[i]
                              THEN ghost.dup[i] + 1 ELSE ghost.dup[i]
      /\ \E n \in Nat, k \in Nat :
           test' = [test EXCEPT ![Receiver] =
             [t EXCEPT !.bytes_received = n, !.blocks_received = k,
                       !.pc = IF t.state = "TEST_RUNNING" THEN "timers" ELSE "select"]]

LEMMA RecvLemma ==
  ASSUME TypeInv, Recv
  PROVE  \E R, p : RecvFacts(R, p)
<1> DEFINE side == Receiver
           t == test[side]
           udp == conf.proto = "udp"
           Size(i) == IF udp THEN Block ELSE Min({net[i].bytes, Block})
<1>1. /\ side \in Side /\ conf.sender \in Side /\ side # conf.sender /\ Block \in Nat \ {0}
      /\ SocketBuffer \in Nat /\ IsFiniteSet(Stream)
  BY ConfLemma DEF TypeInv
<1> DEFINE Step(R, p, kept) ==
           /\ \A i \in R : p[i] \in IF udp THEN net[i].fly ELSE {0}
           /\ kept # {} => udp
           /\ ghost.copies + Cardinality(kept) <= MaxDuplicates
           /\ stream' = [stream EXCEPT ![side] = [i \in Stream |->
                IF i \notin R THEN @[i]
                ELSE IF udp THEN iperf_udp_recv(@[i], p[i], t.state)
                ELSE iperf_tcp_recv(@[i], Size(i), t.state)]]
           /\ net' = [i \in Stream |-> IF i \notin R THEN net[i]
                ELSE IF ~udp THEN [net[i] EXCEPT !.bytes = @ - Size(i)]
                ELSE IF i \in kept THEN net[i] ELSE [net[i] EXCEPT !.fly = @ \ {p[i]}]]
           /\ test' = [test EXCEPT ![side].bytes_received = @ + SumFunction([i \in R |-> Size(i)]),
                                   ![side].blocks_received = @ + Cardinality(R),
                                   ![side].pc = IF t.state = "TEST_RUNNING" THEN "timers" ELSE @]
           /\ LET new == IF udp /\ t.state = "TEST_RUNNING" THEN R ELSE {}
              IN  ghost' = [ghost EXCEPT
                    !.copies = @ + Cardinality(kept),
                    !.got = [i \in Stream |-> IF i \in new THEN @[i] \cup {p[i]} ELSE @[i]],
                    !.dup = [i \in Stream |->
                      IF i \in new /\ p[i] \in ghost.got[i] THEN @[i] + 1 ELSE @[i]]]
<1>2. PICK R \in SUBSET {i \in Stream : net[i].bytes > 0 \/ net[i].fly # {}} \ {{}} :
         \E p \in [R -> UNION {net[i].fly : i \in Stream} \cup {0}], kept \in SUBSET R : Step(R, p, kept)
  BY DEF Recv
<1> HIDE DEF Step
<1>3. PICK p \in [R -> UNION {net[i].fly : i \in Stream} \cup {0}], kept \in SUBSET R : Step(R, p, kept)
  BY <1>2
<1> USE DEF Step
<1>4. /\ t.pc = "select" /\ ~limit.exceeded /\ R \subseteq Stream /\ IsFiniteSet(R)
      /\ t.state \in {"TEST_RUNNING", "TEST_END"} /\ IsFiniteSet(kept)
  <2>1. R \subseteq Stream
    BY <1>2
  <2>2. IsFiniteSet(R)
    BY <1>1, <2>1, FS_Subset
  <2>3. IsFiniteSet(kept)
    BY <1>3, <2>2, FS_Subset
  <2> QED BY <2>1, <2>2, <2>3 DEF Recv
<1>5. udp => \A i \in R : p[i] \in net[i].fly
  BY <1>3
<1>6. ASSUME NEW i \in Stream
      PROVE  /\ Size(i) \in Nat /\ (~udp => Size(i) <= net[i].bytes) /\ net[i] \in NetRec
             /\ net[i].bytes \in 0..SocketBuffer /\ stream[side][i] \in StreamRec
             /\ i \in R /\ udp => p[i] \in Nat \ {0}
  <2>1. net[i] \in NetRec /\ net[i].bytes \in 0..SocketBuffer /\ net[i].fly \in SUBSET (Nat \ {0})
    BY <1>6, NetFields
  <2>2. Min({net[i].bytes, Block}) = IF net[i].bytes <= Block THEN net[i].bytes ELSE Block
    BY <1>1, <2>1, MinMaxLemma
  <2>3. stream[side][i] \in StreamRec
    BY <1>1 DEF TypeInv
  <2> QED BY <1>1, <1>5, <2>1, <2>2, <2>3
<1> DEFINE new == [i \in Stream |->
                IF i \notin R THEN stream[side][i]
                ELSE IF udp THEN iperf_udp_recv(stream[side][i], p[i], t.state)
                ELSE iperf_tcp_recv(stream[side][i], Size(i), t.state)]
<1>7. stream' = [stream EXCEPT ![side] = new]
  BY <1>3
<1>8. ASSUME NEW i \in Stream
      PROVE  /\ new[i] \in StreamRec
             /\ ~(i \in R /\ t.state = "TEST_RUNNING") => new[i] = stream[side][i]
             /\ i \in R /\ t.state = "TEST_RUNNING" /\ udp => IsDatagram(new[i], stream[side][i], p[i])
             /\ i \in R /\ t.state = "TEST_RUNNING" /\ ~udp =>
                  IsGot(new[i], stream[side][i], Min({net[i].bytes, Block}))
  <2>1. CASE ~(i \in R /\ t.state = "TEST_RUNNING")
    <3>1. new[i] = stream[side][i]
      BY <2>1 DEF iperf_udp_recv, iperf_tcp_recv
    <3> QED BY <1>6, <2>1, <3>1
  <2>2. CASE i \in R /\ t.state = "TEST_RUNNING" /\ udp
    <3>1. new[i] = iperf_udp_recv(stream[side][i], p[i], "TEST_RUNNING")
      BY <2>2
    <3>2. IsDatagram(new[i], stream[side][i], p[i])
      BY <1>1, <1>6, <2>2, <3>1, DatagramLemma
    <3> QED BY <2>2, <3>2 DEF IsDatagram
  <2>3. CASE i \in R /\ t.state = "TEST_RUNNING" /\ ~udp
    <3>1. new[i] = Got(stream[side][i], Min({net[i].bytes, Block}))
      BY <2>3 DEF iperf_tcp_recv
    <3>2. IsGot(new[i], stream[side][i], Min({net[i].bytes, Block}))
      BY <1>6, <2>3, <3>1, GotLemma
    <3> QED BY <2>3, <3>2 DEF IsGot
  <2> QED BY <2>1, <2>2, <2>3
<1>9. new \in [Stream -> StreamRec]
  BY <1>8
<1> HIDE DEF new
<1>10. stream' \in Streams /\ stream'[conf.sender] = stream[conf.sender] /\ stream'[side] = new
  BY <1>1, <1>7, <1>9 DEF TypeInv, Streams
<1>11. ASSUME NEW i \in Stream
       PROVE  /\ net'[i] \in NetRec /\ net'[i].fly \subseteq net[i].fly
              /\ net'[i].file = net[i].file
  <2>1. net'[i] = IF i \notin R THEN net[i]
                  ELSE IF ~udp THEN [net[i] EXCEPT !.bytes = @ - Size(i)]
                  ELSE IF i \in kept THEN net[i] ELSE [net[i] EXCEPT !.fly = @ \ {p[i]}]
    BY <1>3
  <2>2. ~udp => net[i].bytes - Size(i) \in 0..SocketBuffer
    BY <1>1, <1>6
  <2> DEFINE b == net[i].bytes - Size(i)
             f == net[i].fly \ {p[i]}
  <2>3. net[i].fly \in SUBSET (Nat \ {0}) /\ f \in SUBSET (Nat \ {0}) /\ f \subseteq net[i].fly
    BY NetFields
  <2>4. \/ net'[i] = net[i]
        \/ ~udp /\ net'[i] = [net[i] EXCEPT !.bytes = b]
        \/ net'[i] = [net[i] EXCEPT !.fly = f]
    BY <2>1
  <2> HIDE DEF b, f
  <2>5. ~udp => b \in 0..SocketBuffer
    BY <2>2 DEF b
  <2> QED BY <1>6, <2>3, <2>4, <2>5 DEF NetRec
<1>12. net' \in [Stream -> NetRec]
  <2>1. net' = [i \in Stream |-> net'[i]]
    BY <1>3
  <2> QED BY <1>11, <2>1
<1>13. /\ ghost' \in GhostRec /\ ghost'.early = ghost.early
       /\ \A i \in Stream :
           /\ ghost'.got[i] = IF i \in R /\ t.state = "TEST_RUNNING" /\ udp
                              THEN ghost.got[i] \cup {p[i]} ELSE ghost.got[i]
           /\ ghost'.dup[i] = IF i \in R /\ t.state = "TEST_RUNNING" /\ udp /\ p[i] \in ghost.got[i]
                              THEN ghost.dup[i] + 1 ELSE ghost.dup[i]
  <2> DEFINE fresh == IF udp /\ t.state = "TEST_RUNNING" THEN R ELSE {}
             got == [i \in Stream |-> IF i \in fresh THEN ghost.got[i] \cup {p[i]} ELSE ghost.got[i]]
             dup == [i \in Stream |-> IF i \in fresh /\ p[i] \in ghost.got[i]
                                      THEN ghost.dup[i] + 1 ELSE ghost.dup[i]]
             copies == ghost.copies + Cardinality(kept)
  <2>1. ghost' = [ghost EXCEPT !.copies = copies, !.got = got, !.dup = dup]
    BY <1>3
  <2>2. /\ ghost \in GhostRec /\ ghost.got \in [Stream -> SUBSET Nat] /\ ghost.dup \in [Stream -> Nat]
        /\ ghost.copies \in Nat
    BY DEF TypeInv, GhostRec
  <2>3. copies \in Nat
    <3>1. Cardinality(kept) \in Nat
      BY <1>4, FS_CardinalityType
    <3> QED BY <2>2, <3>1
  <2>4. \A i \in Stream : i \in fresh => p[i] \in Nat
    BY <1>6
  <2>5. got \in [Stream -> SUBSET Nat] /\ dup \in [Stream -> Nat]
    BY <2>2, <2>4
  <2>6. \A i \in Stream :
           /\ got[i] = IF i \in R /\ t.state = "TEST_RUNNING" /\ udp
                              THEN ghost.got[i] \cup {p[i]} ELSE ghost.got[i]
           /\ dup[i] = IF i \in R /\ t.state = "TEST_RUNNING" /\ udp /\ p[i] \in ghost.got[i]
                              THEN ghost.dup[i] + 1 ELSE ghost.dup[i]
    OBVIOUS
  <2> HIDE DEF got, dup, copies
  <2>7. ghost' \in GhostRec /\ ghost'.early = ghost.early /\ ghost'.got = got /\ ghost'.dup = dup
    BY <2>1, <2>2, <2>3, <2>5 DEF GhostRec
  <2> QED BY <2>6, <2>7
<1>14. \E n \in Nat, k \in Nat :
           test' = [test EXCEPT ![side] =
             [t EXCEPT !.bytes_received = n, !.blocks_received = k,
                       !.pc = IF t.state = "TEST_RUNNING" THEN "timers" ELSE "select"]]
  <2> DEFINE sizes == [i \in R |-> Size(i)]
             n == t.bytes_received + SumFunction(sizes)
             k == t.blocks_received + Cardinality(R)
  <2>1. SumFunction(sizes) \in Nat
    <3>1. SumFunction(sizes) = SumFunctionOnSet(sizes, R)
      BY DEF SumFunction
    <3>2. \A i \in R : sizes[i] \in Nat
      BY <1>4, <1>6
    <3> HIDE DEF sizes
    <3> QED BY <1>4, <3>1, <3>2, SumNat
  <2>2. Cardinality(R) \in Nat /\ t.bytes_received \in Nat /\ t.blocks_received \in Nat
    BY <1>1, <1>4, FS_CardinalityType DEF TypeInv, TestRec
  <2>3. n \in Nat /\ k \in Nat
    BY <2>1, <2>2
  <2>4. test' = [test EXCEPT ![side] =
             [t EXCEPT !.bytes_received = n, !.blocks_received = k,
                       !.pc = IF t.state = "TEST_RUNNING" THEN "timers" ELSE "select"]]
    BY <1>3, <1>4
  <2> HIDE DEF n, k
  <2> QED BY <2>3, <2>4
<1>15. RecvFacts(R, p)
  BY <1>4, <1>5, <1>8, <1>10, <1>11, <1>12, <1>13, <1>14 DEF RecvFacts
<1> QED BY <1>15

LEMMA ResultsLemma ==
  ASSUME TypeInv, NEW side, NEW sps, NEW i \in Stream
  PROVE  send_results(side, sps)[StreamId(i)]
           = [bytes |-> IF side = conf.sender THEN sps[i].bytes_sent - sps[i].bytes_sent_omit
                        ELSE sps[i].bytes_received,
              errors |-> sps[i].cnt_error, packets |-> sps[i].packet_count]
<1>1. \A k \in Stream : StreamId(k) = StreamId(i) => k = i
  <2>1. Stream \subseteq Nat \ {0}
    BY ConfLemma DEF TypeInv
  <2> QED BY <2>1 DEF StreamId
<1>2. (CHOOSE k \in Stream : StreamId(k) = StreamId(i)) = i
  BY <1>1
<1>3. StreamId(i) \in {StreamId(k) : k \in Stream}
  OBVIOUS
<1> QED BY <1>2, <1>3 DEF send_results

\* What the results of its peer change in a stream of the sender, and of the
\* receiver.
SenderTold(a, s, r) ==
  /\ a \in StreamRec
  /\ a.green_light = s.green_light /\ a.pending_size = s.pending_size
  /\ a.diskfile_left = s.diskfile_left /\ a.packet_count = s.packet_count
  /\ a.omitted_packet_count = s.omitted_packet_count
  /\ a.omitted_cnt_error = s.omitted_cnt_error
  /\ a.bytes_sent = s.bytes_sent /\ a.bytes_sent_omit = s.bytes_sent_omit
  /\ a.intervals = s.intervals
  /\ a.cnt_error = r.cnt_error /\ a.peer_packet_count = r.packet_count
  /\ a.bytes_received = r.bytes_received

ReceiverTold(a, r, s) ==
  /\ a \in StreamRec
  /\ a.green_light = r.green_light /\ a.pending_size = r.pending_size
  /\ a.diskfile_left = r.diskfile_left /\ a.packet_count = r.packet_count
  /\ a.omitted_packet_count = r.omitted_packet_count
  /\ a.cnt_error = r.cnt_error /\ a.omitted_cnt_error = r.omitted_cnt_error
  /\ a.bytes_sent_omit = r.bytes_sent_omit /\ a.bytes_received = r.bytes_received
  /\ a.intervals = r.intervals
  /\ a.peer_packet_count = s.packet_count
  /\ a.bytes_sent = s.bytes_sent - s.bytes_sent_omit

ExchangeFacts ==
  /\ \A side \in Side : test[side].state = "TEST_END"
  /\ stream' \in Streams
  /\ \A i \in Stream :
       /\ SenderTold(stream'[conf.sender][i], stream[conf.sender][i], stream[Receiver][i])
       /\ ReceiverTold(stream'[Receiver][i], stream[Receiver][i], stream[conf.sender][i])

LEMMA SenderToldLemma ==
  ASSUME TypeInv, NEW sps, NEW rps, NEW i \in Stream, sps[i] \in StreamRec, rps[i] \in StreamRec
  PROVE  SenderTold(get_results(conf.sender, sps, send_results(Receiver, rps))[i], sps[i], rps[i])
<1> DEFINE c == rps[i].cnt_error
           n == rps[i].packet_count
           b == rps[i].bytes_received
<1>1. c \in Nat /\ n \in Nat /\ b \in Nat /\ Receiver # conf.sender
  BY StreamFields, ConfLemma DEF TypeInv
<1> DEFINE j == send_results(Receiver, rps)
<1>2. j[StreamId(i)].bytes = b /\ j[StreamId(i)].errors = c /\ j[StreamId(i)].packets = n
  <2>1. j[StreamId(i)]
           = [bytes |-> IF Receiver = conf.sender THEN rps[i].bytes_sent - rps[i].bytes_sent_omit
                        ELSE rps[i].bytes_received,
              errors |-> rps[i].cnt_error, packets |-> rps[i].packet_count]
    BY ResultsLemma
  <2> HIDE DEF j
  <2> QED BY <1>1, <2>1
<1> HIDE DEF j
<1>3. get_results(conf.sender, sps, j)[i]
        = [sps[i] EXCEPT !.cnt_error = c, !.peer_packet_count = n, !.bytes_received = b]
  BY <1>2 DEF get_results
<1> HIDE DEF c, n, b
<1> DEFINE a == [sps[i] EXCEPT !.cnt_error = c, !.peer_packet_count = n, !.bytes_received = b]
<1>4. a \in StreamRec
  BY <1>1 DEF StreamRec
<1>5. SenderTold(a, sps[i], rps[i])
  BY <1>4 DEF SenderTold, StreamRec, c, n, b
<1> QED BY <1>3, <1>5 DEF j

LEMMA ReceiverToldLemma ==
  ASSUME TypeInv, NEW sps, NEW rps, NEW i \in Stream, sps[i] \in StreamRec, rps[i] \in StreamRec,
         sps[i].bytes_sent_omit <= sps[i].bytes_sent
  PROVE  ReceiverTold(get_results(Receiver, rps, send_results(conf.sender, sps))[i], rps[i], sps[i])
<1> DEFINE n == sps[i].packet_count
           b == sps[i].bytes_sent - sps[i].bytes_sent_omit
<1>1. n \in Nat /\ b \in Nat /\ Receiver # conf.sender
  <2>1. n \in Nat /\ sps[i].bytes_sent \in Nat /\ sps[i].bytes_sent_omit \in Nat
    BY StreamFields
  <2>2. Receiver # conf.sender
    BY ConfLemma DEF TypeInv
  <2> QED BY <2>1, <2>2
<1> DEFINE j == send_results(conf.sender, sps)
<1>2. j[StreamId(i)].bytes = b /\ j[StreamId(i)].packets = n
  <2>1. j[StreamId(i)]
           = [bytes |-> IF conf.sender = conf.sender THEN sps[i].bytes_sent - sps[i].bytes_sent_omit
                        ELSE sps[i].bytes_received,
              errors |-> sps[i].cnt_error, packets |-> sps[i].packet_count]
    BY ResultsLemma
  <2> HIDE DEF j
  <2> QED BY <2>1
<1> HIDE DEF j
<1>3. get_results(Receiver, rps, j)[i]
        = [rps[i] EXCEPT !.peer_packet_count = n, !.bytes_sent = b]
  BY <1>1, <1>2 DEF get_results
<1> HIDE DEF n, b
<1> DEFINE a == [rps[i] EXCEPT !.peer_packet_count = n, !.bytes_sent = b]
<1>4. a \in StreamRec
  BY <1>1 DEF StreamRec
<1>5. ReceiverTold(a, rps[i], sps[i])
  BY <1>4 DEF ReceiverTold, StreamRec, n, b
<1> QED BY <1>3, <1>5 DEF j

LEMMA ExchangeLemma ==
  ASSUME TypeInv, ExchangeResults
  PROVE  ExchangeFacts
<1> DEFINE s == get_results("s", stream["s"], send_results("c", stream["c"]))
           c == get_results("c", stream["c"], send_results("s", s))
<1>1. /\ \A side \in Side : test[side].state = "TEST_END"
      /\ stream' = [stream EXCEPT !["s"] = s, !["c"] = c]
  BY DEF ExchangeResults
<1>2. /\ conf.sender \in Side /\ Receiver = Other(conf.sender)
      /\ "c" \in Side /\ "s" \in Side /\ Side = {"c", "s"}
  BY ConfLemma DEF TypeInv, Receiver, Side
<1>3. ASSUME NEW i \in Stream
      PROVE  /\ stream["c"][i] \in StreamRec /\ stream["s"][i] \in StreamRec
             /\ stream["c"][i].bytes_sent_omit <= stream["c"][i].bytes_sent
             /\ stream["s"][i].bytes_sent_omit <= stream["s"][i].bytes_sent
  BY <1>2 DEF TypeInv, SizesOK
<1>4. ASSUME NEW i \in Stream
      PROVE  /\ s[i] \in StreamRec /\ c[i] \in StreamRec
             /\ conf.sender = "c" => /\ SenderTold(c[i], stream["c"][i], stream["s"][i])
                                     /\ ReceiverTold(s[i], stream["s"][i], stream["c"][i])
             /\ conf.sender = "s" => /\ SenderTold(s[i], stream["s"][i], stream["c"][i])
                                     /\ ReceiverTold(c[i], stream["c"][i], stream["s"][i])
  <2>1. CASE conf.sender = "c"
    <3>1. Receiver = "s"
      BY <2>1 DEF Receiver, Other
    <3>2. ReceiverTold(s[i], stream["s"][i], stream["c"][i])
      BY <1>3, <2>1, <3>1, ReceiverToldLemma
    <3>3. s[i] \in StreamRec
      BY <3>2 DEF ReceiverTold
    <3> HIDE DEF s
    <3>4. SenderTold(c[i], stream["c"][i], s[i])
      BY <1>3, <2>1, <3>1, <3>3, SenderToldLemma
    <3>5. SenderTold(c[i], stream["c"][i], stream["s"][i])
      BY <3>2, <3>4 DEF SenderTold, ReceiverTold
    <3> QED BY <2>1, <3>2, <3>3, <3>5 DEF SenderTold
  <2>2. CASE conf.sender = "s"
    <3>1. Receiver = "c"
      BY <2>2 DEF Receiver, Other
    <3>2. SenderTold(s[i], stream["s"][i], stream["c"][i])
      BY <1>3, <2>2, <3>1, SenderToldLemma
    <3>3. /\ s[i] \in StreamRec /\ s[i].bytes_sent = stream["s"][i].bytes_sent
          /\ s[i].bytes_sent_omit = stream["s"][i].bytes_sent_omit
      BY <3>2 DEF SenderTold
    <3> HIDE DEF s
    <3>4. ReceiverTold(c[i], stream["c"][i], s[i])
      BY <1>3, <2>2, <3>1, <3>3, ReceiverToldLemma
    <3>5. ReceiverTold(c[i], stream["c"][i], stream["s"][i])
      BY <3>2, <3>4 DEF SenderTold, ReceiverTold
    <3> QED BY <2>2, <3>2, <3>3, <3>5 DEF ReceiverTold
  <2> QED BY <1>2, <2>1, <2>2 DEF Side
<1>5. s \in [Stream -> StreamRec] /\ c \in [Stream -> StreamRec]
  <2>1. \A i \in Stream : s[i] \in StreamRec /\ c[i] \in StreamRec
    BY <1>4
  <2>2. s = [i \in Stream |-> s[i]]
    BY DEF get_results
  <2>3. c = [i \in Stream |-> c[i]]
    <3> HIDE DEF s
    <3> QED BY DEF get_results
  <2> HIDE DEF s, c
  <2> QED BY <2>1, <2>2, <2>3
<1> HIDE DEF s, c
<1>6. stream' \in Streams /\ stream'["s"] = s /\ stream'["c"] = c
  BY <1>1, <1>2, <1>5 DEF TypeInv, Streams
<1>7. CASE conf.sender = "c"
  <2>1. Receiver = "s"
    BY <1>7 DEF Receiver, Other
  <2> QED BY <1>1, <1>4, <1>6, <1>7, <2>1 DEF ExchangeFacts
<1>8. CASE conf.sender = "s"
  <2>1. Receiver = "c"
    BY <1>8 DEF Receiver, Other
  <2> QED BY <1>1, <1>4, <1>6, <1>8, <2>1 DEF ExchangeFacts
<1> QED BY <1>2, <1>7, <1>8 DEF Side

\* A test does not go back.
Active == {"TEST_RUNNING", "TEST_END"}

\* The two steps that end the test of a side.
Ends(side) == (side = "c" /\ EndOfTurn("c") /\ TestIsDone) \/ (side = "s" /\ ServerEnds)

TestOK ==
  /\ test' \in [Side -> TestRec]
  /\ \A side \in Side : /\ \/ test'[side].state = test[side].state
                           \/ /\ test[side].state = "TEST_RUNNING" /\ test'[side].state = "TEST_END"
                              /\ Ends(side)
                           \/ ExchangeResults \/ TestFails
                        /\ test'[side].state \in Active => test[side].state \in Active
                        /\ test'[side].omitting => test[side].omitting
                        /\ test'[side].omitting = test[side].omitting \/ OmitTimer(side)
                        /\ test[side].done => test'[side].done

LEMMA TestUpdate ==
  ASSUME TypeInv, NEW side \in Side, NEW u \in TestRec, test' = [test EXCEPT ![side] = u],
         \/ u.state = test[side].state
         \/ test[side].state = "TEST_RUNNING" /\ u.state = "TEST_END" /\ Ends(side),
         u.omitting = test[side].omitting \/ (OmitTimer(side) /\ ~u.omitting),
         test[side].done => u.done
  PROVE  TestOK
BY DEF TypeInv, TestOK, Active

LEMMA TestLemma ==
  ASSUME TypeInv, [Next]_vars
  PROVE  TestOK
<1>1. /\ conf.sender \in Side /\ "c" \in Side /\ "s" \in Side /\ conf.streams \in Nat
      /\ conf.burst \in Nat /\ conf.multisend \in Nat
      /\ conf.rate \in Nat /\ Receiver \in Side
  BY ConfLemma DEF TypeInv, Side
<1>2. ASSUME NEW side \in Side
      PROVE  /\ test[side] \in TestRec /\ test[side].done \in BOOLEAN
             /\ test[side].multisend \in Nat /\ test[side].bytes_sent \in Nat
             /\ test[side].blocks_sent \in Nat
  BY TestFields
<1>3. CASE SendBegin
  <2> DEFINE m == Multisend
             w == Writable
             u == [test[conf.sender] EXCEPT !.pc = "send", !.multisend = m, !.ready = w,
                                            !.next = 1, !.active = FALSE]
  <2>1. m \in Nat /\ w \subseteq Stream
    BY <1>1 DEF Multisend, Writable
  <2>2. test' = [test EXCEPT ![conf.sender] = u]
    BY <1>3 DEF SendBegin
  <2> HIDE DEF m, w
  <2>3. u \in TestRec
    <3>1. test[conf.sender] \in TestRec
      BY <1>1, <1>2
    <3> QED BY <2>1, <3>1 DEF TestRec
  <2>4. u.state = test[conf.sender].state /\ u.omitting = test[conf.sender].omitting
        /\ u.done = test[conf.sender].done
    BY <1>1, <1>2 DEF TestRec
  <2> HIDE DEF u
  <2> QED BY <1>1, <2>2, <2>3, <2>4, TestUpdate
<1>4. CASE SendOne
  <2>1. CASE SkipFacts
    <3> DEFINE u == [test[conf.sender] EXCEPT !.next = conf.streams + 1]
    <3>1. u \in TestRec
      BY <1>1, <1>2 DEF TestRec
    <3>2. u.state = test[conf.sender].state /\ u.omitting = test[conf.sender].omitting
          /\ u.done = test[conf.sender].done
      BY <1>1, <1>2 DEF TestRec
    <3>3. test' = [test EXCEPT ![conf.sender] = u]
      BY <2>1 DEF SkipFacts
    <3> HIDE DEF u
    <3> QED BY <1>1, <3>1, <3>2, <3>3, TestUpdate
  <2>2. ASSUME NEW i, NEW o, NEW a, SendFacts(i, o, a)
        PROVE  TestOK
    <3>1. /\ i \in Nat /\ o.done \in BOOLEAN
          /\ o.r \in Nat \/ o.r = NET_SOFTERROR
      <4>1. i \in Stream /\ Stream \subseteq Nat
        BY <2>2, ConfLemma DEF SendFacts, TypeInv
      <4> QED BY <2>2, <4>1 DEF SendFacts, FileOK, SentOK
    <3> DEFINE q == test[conf.sender]
               d == q.done \/ o.done
               n == IF o.r = NET_SOFTERROR THEN conf.streams + 1 ELSE i + 1
               v == IF o.r = NET_SOFTERROR THEN q.active ELSE TRUE
               b == IF o.r = NET_SOFTERROR THEN q.bytes_sent ELSE q.bytes_sent + o.r
               k == IF o.r # NET_SOFTERROR /\ a.pending_size = 0
                    THEN q.blocks_sent + 1 ELSE q.blocks_sent
               u == [q EXCEPT !.done = d, !.next = n, !.active = v, !.bytes_sent = b,
                              !.blocks_sent = k]
    <3>2. test' = [test EXCEPT ![conf.sender] = u]
      BY <2>2 DEF SendFacts
    <3>3. n \in Nat /\ v \in BOOLEAN /\ b \in Nat /\ k \in Nat
      <4>1. q.active \in BOOLEAN
        BY <1>1, <1>2 DEF TestRec
      <4>2. q.bytes_sent \in Nat /\ q.blocks_sent \in Nat
        BY <1>1, <1>2
      <4>3. v \in BOOLEAN
        BY <4>1
      <4> HIDE DEF q, v
      <4> QED BY <1>1, <3>1, <4>2, <4>3
    <3>4. d \in BOOLEAN /\ (q.done => d)
      OBVIOUS
    <3> HIDE DEF n, v, b, k, d
    <3>5. u \in TestRec
      <4>1. q \in TestRec
        BY <1>1, <1>2
      <4> HIDE DEF q
      <4> QED BY <3>3, <3>4, <4>1 DEF TestRec
    <3>6. u.state = q.state /\ u.omitting = q.omitting /\ u.done = d
      BY <1>1, <1>2 DEF TestRec
    <3> HIDE DEF u
    <3> QED BY <1>1, <3>2, <3>4, <3>5, <3>6, TestUpdate
  <2> QED BY <1>4, <2>1, <2>2, SendLemma
<1>5. CASE SendRound
  <2> DEFINE q == test[conf.sender]
             u == IF q.active /\ q.multisend > 1
                  THEN [q EXCEPT !.multisend = q.multisend - 1, !.next = 1, !.active = FALSE]
                  ELSE [q EXCEPT !.pc = "timers", !.multisend = 0, !.ready = {}, !.next = 1,
                          !.active = FALSE]
  <2>1. test' = [test EXCEPT ![conf.sender] = u]
    BY <1>5 DEF SendRound
  <2>2. q.multisend > 1 => q.multisend - 1 \in Nat
    BY <1>1, <1>2
  <2>3. u \in TestRec /\ u.state = q.state /\ u.omitting = q.omitting /\ u.done = q.done
    BY <1>1, <1>2, <2>2, ZenonT(60) DEF TestRec
  <2> HIDE DEF u
  <2> QED BY <1>1, <2>1, <2>3, TestUpdate
<1>6. CASE Recv
  <2>1. PICK R, p : RecvFacts(R, p)
    BY <1>6, RecvLemma
  <2>2. PICK n \in Nat, k \in Nat :
           test' = [test EXCEPT ![Receiver] =
             [test[Receiver] EXCEPT !.bytes_received = n, !.blocks_received = k,
               !.pc = IF test[Receiver].state = "TEST_RUNNING" THEN "timers" ELSE "select"]]
    BY <2>1 DEF RecvFacts
  <2> DEFINE u == [test[Receiver] EXCEPT !.bytes_received = n, !.blocks_received = k,
               !.pc = IF test[Receiver].state = "TEST_RUNNING" THEN "timers" ELSE "select"]
  <2>3. u \in TestRec
    BY <1>1, <1>2, <2>2, ZenonT(60) DEF TestRec
  <2>4. u.state = test[Receiver].state /\ u.omitting = test[Receiver].omitting
        /\ u.done = test[Receiver].done
    BY <1>1, <1>2 DEF TestRec
  <2>5. test' = [test EXCEPT ![Receiver] = u]
    BY <2>2
  <2> HIDE DEF u
  <2> QED BY <1>1, <2>3, <2>4, <2>5, TestUpdate
<1>7. ASSUME NEW side \in Side, NothingReady(side) PROVE TestOK
  <2> DEFINE u == [test[side] EXCEPT !.pc = "timers"]
  <2>1. /\ u \in TestRec /\ u.state = test[side].state /\ u.omitting = test[side].omitting
        /\ u.done = test[side].done
    BY <1>2 DEF TestRec
  <2>2. test' = [test EXCEPT ![side] = u]
    BY <1>7 DEF NothingReady
  <2> HIDE DEF u
  <2> QED BY <2>1, <2>2, TestUpdate
<1>8. ASSUME test' = test PROVE TestOK
  BY <1>8 DEF TestOK, TypeInv
<1>9. ASSUME NEW side \in Side, OmitTimer(side) PROVE TestOK
  <2> DEFINE u == [test[side] EXCEPT !.omitting = FALSE, !.bytes_sent = 0, !.blocks_sent = 0]
  <2>1. /\ u \in TestRec /\ u.state = test[side].state /\ ~u.omitting
        /\ u.done = test[side].done
    BY <1>2 DEF TestRec
  <2>2. test' = [test EXCEPT ![side] = u]
    BY <1>9 DEF OmitTimer
  <2> HIDE DEF u
  <2> QED BY <1>9, <2>1, <2>2, TestUpdate
<1>10. CASE TestTimer
  <2> DEFINE u == [test["c"] EXCEPT !.done = TRUE]
  <2>1. /\ u \in TestRec /\ u.state = test["c"].state /\ u.omitting = test["c"].omitting
        /\ u.done
    BY <1>1, <1>2, ZenonT(60) DEF TestRec
  <2>2. test' = [test EXCEPT !["c"] = u]
    BY <1>10 DEF TestTimer
  <2> HIDE DEF u
  <2> QED BY <1>1, <2>1, <2>2, TestUpdate
<1>11. ASSUME NEW side \in Side, EndOfTurn(side) PROVE TestOK
  <2>1. CASE side = "c" /\ TestIsDone
    <3> DEFINE u == [test["c"] EXCEPT !.state = "TEST_END", !.done = TRUE, !.pc = "select"]
    <3>1. u \in TestRec /\ u.omitting = test["c"].omitting /\ u.done /\ u.state = "TEST_END"
      BY <1>1, <1>2, ZenonT(60) DEF TestRec
    <3>2. test' = [test EXCEPT !["c"] = u] /\ test["c"].state = "TEST_RUNNING"
      BY <1>11, <2>1 DEF EndOfTurn, Running
    <3>3. Ends("c")
      BY <1>11, <2>1 DEF Ends
    <3> HIDE DEF u
    <3> QED BY <1>1, <3>1, <3>2, <3>3, TestUpdate
  <2>2. CASE ~(side = "c" /\ TestIsDone)
    <3> DEFINE u == [test[side] EXCEPT !.pc = "select"]
    <3>1. /\ u \in TestRec /\ u.state = test[side].state /\ u.omitting = test[side].omitting
          /\ u.done = test[side].done
      BY <1>2 DEF TestRec
    <3>2. test' = [test EXCEPT ![side] = u]
      BY <1>11, <2>2 DEF EndOfTurn
    <3> HIDE DEF u
    <3> QED BY <3>1, <3>2, TestUpdate
  <2> QED BY <2>1, <2>2
<1>12. CASE ServerEnds
  <2> DEFINE u == [test["s"] EXCEPT !.state = "TEST_END", !.done = TRUE]
  <2>1. u \in TestRec /\ u.omitting = test["s"].omitting /\ u.done /\ u.state = "TEST_END"
    BY <1>1, <1>2, ZenonT(60) DEF TestRec
  <2>2. test' = [test EXCEPT !["s"] = u] /\ test["s"].state = "TEST_RUNNING"
    BY <1>12 DEF ServerEnds, Running
  <2>3. Ends("s")
    BY <1>12 DEF Ends
  <2> HIDE DEF u
  <2> QED BY <1>1, <2>1, <2>2, <2>3, TestUpdate
<1>13. CASE ExchangeResults
  <2>1. \A side \in Side : test'[side] = [test[side] EXCEPT !.state = "DISPLAY_RESULTS"]
    BY <1>13 DEF ExchangeResults
  <2>2. test' = [side \in Side |-> test'[side]]
    BY <1>13 DEF ExchangeResults
  <2>3. \A side \in Side : /\ test'[side] \in TestRec /\ test'[side].state \notin Active
                           /\ test'[side].omitting = test[side].omitting
                           /\ test'[side].done = test[side].done
    <3> SUFFICES ASSUME NEW side \in Side
                 PROVE  /\ test'[side] \in TestRec /\ test'[side].state \notin Active
                        /\ test'[side].omitting = test[side].omitting
                        /\ test'[side].done = test[side].done
      OBVIOUS
    <3>1. test[side] \in TestRec
      BY <1>2
    <3> QED BY <2>1, <3>1, ZenonT(60) DEF TestRec, Active
  <2>4. test' \in [Side -> TestRec]
    BY <2>2, <2>3
  <2> QED BY <1>13, <2>3, <2>4 DEF TestOK
<1>14. CASE TestFails
  <2>1. \A side \in Side : test'[side] = [test[side] EXCEPT !.state = "FAILED", !.pc = "select"]
    BY <1>14 DEF TestFails
  <2>2. test' = [side \in Side |-> test'[side]]
    BY <1>14 DEF TestFails
  <2>3. \A side \in Side : /\ test'[side] \in TestRec /\ test'[side].state \notin Active
                           /\ test'[side].omitting = test[side].omitting
                           /\ test'[side].done = test[side].done
    <3> SUFFICES ASSUME NEW side \in Side
                 PROVE  /\ test'[side] \in TestRec /\ test'[side].state \notin Active
                        /\ test'[side].omitting = test[side].omitting
                        /\ test'[side].done = test[side].done
      OBVIOUS
    <3>1. test[side] \in TestRec
      BY <1>2
    <3> DEFINE u == [test[side] EXCEPT !.state = "FAILED", !.pc = "select"]
    <3>2. u \in TestRec
      BY <3>1 DEF TestRec
    <3>3. u.state = "FAILED" /\ u.omitting = test[side].omitting /\ u.done = test[side].done
      BY <3>1 DEF TestRec
    <3>4. test'[side] = u
      BY <2>1
    <3> HIDE DEF u
    <3> QED BY <3>2, <3>3, <3>4 DEF Active
  <2>4. test' \in [Side -> TestRec]
    BY <2>2, <2>3
  <2> QED BY <1>14, <2>3, <2>4 DEF TestOK
<1> QED
  BY <1>3, <1>4, <1>5, <1>6, <1>7, <1>8, <1>9, <1>10, <1>11, <1>12, <1>13, <1>14
  DEF Next, Send, Timer, StatsTimer, SendTimer, Tick, vars

\* Every step changes the streams in one of these ways.
QuietStep ==
  /\ stream' = stream /\ net' = net /\ ghost' \in GhostRec
  /\ ghost'.got = ghost.got /\ ghost'.dup = ghost.dup
  /\ ghost' = ghost \/ Tick

SendStep == ghost' = ghost /\ \E i, o, a : SendFacts(i, o, a)

GreenStep ==
  /\ GreenFacts /\ net' = net /\ ghost' = ghost /\ test[conf.sender].state = "TEST_RUNNING"
  /\ SendRound \/ \E i \in Stream : SendTimer(i)

RecvStep == \E R, p : RecvFacts(R, p)

CountStep(side) ==
  /\ CountFacts(side) /\ net' = net /\ ghost' = ghost /\ test[side].state = "TEST_RUNNING"
  /\ StatsTimer(side) \/ Ends(side)

ResetStep(side) ==
  /\ ResetFacts(side) /\ net' = net /\ ghost' = ghost /\ test[side].state = "TEST_RUNNING"
  /\ test[side].omitting /\ OmitTimer(side)

ExchangeStep == ExchangeFacts /\ ExchangeResults /\ net' = net /\ ghost' = ghost

LEMMA StepLemma ==
  ASSUME TypeInv, [Next]_vars
  PROVE  /\ conf' = conf /\ now' \in 0..MaxTime
         /\ \/ QuietStep \/ SendStep \/ GreenStep \/ RecvStep \/ ExchangeStep
            \/ \E side \in Side : CountStep(side) \/ ResetStep(side)
<1>1. /\ ghost \in GhostRec /\ now \in 0..MaxTime /\ MaxTime \in Nat
      /\ conf.sender \in Side /\ "c" \in Side /\ "s" \in Side
  BY ConfLemma, DataAssumption DEF TypeInv, Side
<1>2. ASSUME stream' = stream, net' = net, ghost' = ghost PROVE QuietStep
  BY <1>1, <1>2 DEF QuietStep
<1>3. CASE SendBegin
  BY <1>1, <1>2, <1>3 DEF SendBegin
<1>4. CASE SendOne
  <2>1. conf' = conf /\ now' = now /\ ghost' = ghost
    BY <1>4 DEF SendOne
  <2>2. CASE SkipFacts
    BY <1>1, <1>2, <2>1, <2>2 DEF SkipFacts
  <2>3. CASE \E i, o, a : SendFacts(i, o, a)
    BY <1>1, <2>1, <2>3 DEF SendStep
  <2> QED BY <1>4, <2>2, <2>3, SendLemma
<1>5. CASE SendRound
  <2>1. GreenFacts
    BY <1>5, SendRoundLemma
  <2>2. /\ conf' = conf /\ now' = now /\ net' = net /\ ghost' = ghost
        /\ test[conf.sender].state = "TEST_RUNNING"
    BY <1>5 DEF SendRound, Running
  <2> QED BY <1>1, <1>5, <2>1, <2>2 DEF GreenStep
<1>6. CASE Recv
  <2>1. RecvStep
    BY <1>6, RecvLemma DEF RecvStep
  <2> QED BY <1>1, <1>6, <2>1 DEF Recv
<1>7. ASSUME NEW side \in Side, NothingReady(side)
      PROVE  conf' = conf /\ now' \in 0..MaxTime /\ QuietStep
  BY <1>1, <1>2, <1>7 DEF NothingReady
<1>8. ASSUME NEW side \in Side, StatsTimer(side)
      PROVE  conf' = conf /\ now' \in 0..MaxTime /\ CountStep(side)
  <2>1. stream' = StreamsOf(side, AddInterval)
    BY <1>8 DEF StatsTimer, iperf_stats_callback
  <2>2. CountFacts(side)
    BY <1>8, <2>1, CountLemma
  <2>3. /\ conf' = conf /\ now' = now /\ net' = net /\ ghost' = ghost
        /\ test[side].state = "TEST_RUNNING"
    BY <1>8 DEF StatsTimer, Running
  <2> QED BY <1>1, <1>8, <2>2, <2>3 DEF CountStep
<1>9. ASSUME NEW side \in Side, OmitTimer(side)
      PROVE  conf' = conf /\ now' \in 0..MaxTime /\ ResetStep(side)
  <2>1. ResetFacts(side)
    BY <1>9, OmitLemma
  <2>2. /\ conf' = conf /\ now' = now /\ net' = net /\ ghost' = ghost
        /\ test[side].state = "TEST_RUNNING" /\ test[side].omitting
    BY <1>9 DEF OmitTimer, Running
  <2> QED BY <1>1, <1>9, <2>1, <2>2 DEF ResetStep
<1>10. CASE TestTimer
  BY <1>1, <1>2, <1>10 DEF TestTimer
<1>11. ASSUME NEW side \in Side, EndOfTurn(side)
       PROVE  conf' = conf /\ now' \in 0..MaxTime /\ (QuietStep \/ CountStep("c"))
  <2>1. CASE side = "c" /\ TestIsDone
    <3>1. stream' = StreamsOf("c", AddInterval)
      BY <1>11, <2>1 DEF EndOfTurn, iperf_stats_callback
    <3>2. CountFacts("c")
      BY <1>1, <3>1, CountLemma
    <3>3. /\ conf' = conf /\ now' = now /\ net' = net /\ ghost' = ghost
          /\ test["c"].state = "TEST_RUNNING"
      BY <1>11, <2>1 DEF EndOfTurn, Running
    <3>4. Ends("c")
      BY <1>11, <2>1 DEF Ends
    <3> QED BY <1>1, <3>2, <3>3, <3>4 DEF CountStep
  <2>2. CASE ~(side = "c" /\ TestIsDone)
    BY <1>1, <1>2, <1>11, <2>2 DEF EndOfTurn
  <2> QED BY <2>1, <2>2
<1>12. CASE ServerEnds
  <2>1. stream' = StreamsOf("s", AddInterval)
    BY <1>12 DEF ServerEnds, iperf_stats_callback
  <2>2. CountFacts("s")
    BY <1>1, <2>1, CountLemma
  <2>3. /\ conf' = conf /\ now' = now /\ net' = net /\ ghost' = ghost
        /\ test["s"].state = "TEST_RUNNING"
    BY <1>12 DEF ServerEnds, Running
  <2>4. Ends("s")
    BY <1>12 DEF Ends
  <2> QED BY <1>1, <2>2, <2>3, <2>4 DEF CountStep
<1>13. CASE ExchangeResults
  <2>1. ExchangeFacts
    BY <1>13, ExchangeLemma
  <2> QED BY <1>1, <1>13, <2>1 DEF ExchangeResults, ExchangeStep
<1>14. CASE TestFails
  BY <1>1, <1>2, <1>14 DEF TestFails
<1>15. CASE Tick
  <2> DEFINE e == [i \in Stream |-> stream[conf.sender][i].bytes_sent]
  <2>1. e \in [Stream -> Nat]
    <3>1. \A i \in Stream : stream[conf.sender][i] \in StreamRec
      BY <1>1 DEF TypeInv
    <3>2. \A i \in Stream : stream[conf.sender][i].bytes_sent \in Nat
      BY <3>1, StreamFields
    <3> QED BY <3>2
  <2>2. ghost' = IF now > 0 THEN ghost ELSE [ghost EXCEPT !.early = e]
    BY <1>15 DEF Tick
  <2> HIDE DEF e
  <2>3. /\ [ghost EXCEPT !.early = e] \in GhostRec
        /\ [ghost EXCEPT !.early = e].got = ghost.got
        /\ [ghost EXCEPT !.early = e].dup = ghost.dup
    BY <1>1, <2>1 DEF GhostRec
  <2>4. ghost' \in GhostRec /\ ghost'.got = ghost.got /\ ghost'.dup = ghost.dup
    BY <1>1, <2>2, <2>3
  <2>5. conf' = conf /\ stream' = stream /\ net' = net /\ now' \in 0..MaxTime
    BY <1>1, <1>15 DEF Tick
  <2> QED BY <1>15, <2>4, <2>5 DEF QuietStep
<1>16. ASSUME NEW i \in Stream, SendTimer(i)
       PROVE  conf' = conf /\ now' \in 0..MaxTime /\ GreenStep
  <2>1. GreenFacts
    BY <1>16, SendTimerLemma
  <2>2. /\ conf' = conf /\ now' = now /\ net' = net /\ ghost' = ghost
        /\ test[conf.sender].state = "TEST_RUNNING"
    BY <1>16 DEF SendTimer, Running
  <2> QED BY <1>1, <1>16, <2>1, <2>2 DEF GreenStep
<1>17. CASE UNCHANGED vars
  BY <1>1, <1>2, <1>17 DEF vars
<1> QED
  BY <1>1, <1>3, <1>4, <1>5, <1>6, <1>7, <1>8, <1>9, <1>10, <1>11, <1>12, <1>13, <1>14, <1>15,
     <1>16, <1>17
  DEF Next, Send, Timer

-----------------------------------------------------------------------------
(* Types *)

LEMMA TypeInit == ASSUME Init PROVE TypeInv
<1>1. /\ conf \in Configs /\ now = 0 /\ MaxTime \in Nat /\ conf.omit \in BOOLEAN
      /\ conf.file \in Nat /\ SocketBuffer \in Nat /\ Block \in Nat /\ Receiver \in Side
  BY ConfLemma, DataAssumption DEF Init
<1>2. NewTest \in TestRec
  <2> DEFINE z == 0
  <2>1. 1 \in Nat /\ 0 \in Nat
    OBVIOUS
  <2> QED BY <1>1, <2>1 DEF NewTest, TestRec
<1>3. iperf_new_stream \in StreamRec /\ SizesOK(iperf_new_stream)
  <2>1. <<>> \in Seq(Interval) /\ 0 \in Nat /\ 0 \in Int
    OBVIOUS
  <2>2. iperf_new_stream \in StreamRec
    BY <2>1 DEF iperf_new_stream, StreamRec
  <2>3. /\ iperf_new_stream.pending_size = 0 /\ iperf_new_stream.diskfile_left = 0
        /\ iperf_new_stream.bytes_sent = 0 /\ iperf_new_stream.bytes_sent_omit = 0
    BY DEF iperf_new_stream
  <2> QED BY <1>1, <2>2, <2>3 DEF SizesOK
<1>4. [bytes |-> 0, fly |-> {}, file |-> conf.file] \in NetRec
  BY <1>1 DEF NetRec
<1>5. /\ test = [side \in Side |-> NewTest]
      /\ stream = [side \in Side |-> [i \in Stream |-> iperf_new_stream]]
      /\ net = [i \in Stream |-> [bytes |-> 0, fly |-> {}, file |-> conf.file]]
      /\ ghost = [got |-> [i \in Stream |-> {}], dup |-> [i \in Stream |-> 0],
                  copies |-> 0, early |-> [i \in Stream |-> 0]]
  BY DEF Init
<1>6. ghost \in GhostRec
  BY <1>5 DEF GhostRec
<1>7. ReceiverSendsNothing
  <2>1. iperf_new_stream.bytes_sent = 0 /\ iperf_new_stream.bytes_sent_omit = 0
    BY DEF iperf_new_stream
  <2>2. \A i \in Stream : stream[Receiver][i] = iperf_new_stream
    BY <1>1, <1>5
  <2> QED BY <2>1, <2>2 DEF ReceiverSendsNothing
<1>8. test \in [Side -> TestRec] /\ stream \in [Side -> [Stream -> StreamRec]]
      /\ net \in [Stream -> NetRec]
  BY <1>2, <1>3, <1>4, <1>5
<1>9. \A side \in Side, i \in Stream : stream[side][i] = iperf_new_stream
  BY <1>5
<1> QED BY <1>1, <1>3, <1>6, <1>7, <1>8, <1>9 DEF TypeInv

LEMMA TypeStep ==
  ASSUME TypeInv, conf' = conf, now' \in 0..MaxTime, TestOK, stream' \in Streams,
         net' \in [Stream -> NetRec], ghost' \in GhostRec,
         \A side \in Side, i \in Stream : SizesOK(stream'[side][i]),
         \A i \in Stream : /\ stream'[Receiver][i].bytes_sent_omit = 0
                           /\ test'[Receiver].state \in Active => stream'[Receiver][i].bytes_sent = 0
  PROVE  TypeInv'
<1>1. /\ Stream' = Stream /\ Receiver' = Receiver /\ Side' = Side
  BY DEF Stream, Receiver, Other, Side
<1>2. TestRec' = TestRec /\ GhostRec' = GhostRec /\ NetRec' = NetRec /\ StreamRec' = StreamRec
  BY <1>1 DEF TestRec, GhostRec, NetRec, StreamRec, Interval
<1>3. ReceiverSendsNothing'
  BY <1>1 DEF ReceiverSendsNothing, Active
<1>4. \A side \in Side', i \in Stream' : SizesOK(stream[side][i])'
  BY <1>1 DEF SizesOK
<1>5. /\ conf' \in Configs /\ test' \in [Side' -> TestRec']
      /\ stream' \in [Side' -> [Stream' -> StreamRec']] /\ net' \in [Stream' -> NetRec']
      /\ ghost' \in GhostRec'
  BY <1>1, <1>2 DEF TypeInv, TestOK, Streams
<1> QED BY <1>3, <1>4, <1>5 DEF TypeInv

\* What a call of snd means for its stream, before (b) and after (a), with r the
\* bytes sent.
SendEffect(i, a, r) ==
  LET b == stream[conf.sender][i]
  IN  /\ i \in Stream /\ r \in 0..Block /\ r \in Nat
      /\ a \in StreamRec /\ SizesOK(a)
      /\ a.peer_packet_count = b.peer_packet_count /\ a.bytes_sent_omit = b.bytes_sent_omit
      /\ a.omitted_packet_count = b.omitted_packet_count /\ a.cnt_error = b.cnt_error
      /\ a.omitted_cnt_error = b.omitted_cnt_error /\ a.bytes_received = b.bytes_received
      /\ a.received_this_interval = b.received_this_interval /\ a.intervals = b.intervals
      /\ a.bytes_sent = b.bytes_sent + r /\ a.sent_this_interval = b.sent_this_interval + r
      /\ a.packet_count \in {b.packet_count, b.packet_count + 1}
      /\ stream' \in Streams /\ stream'[Receiver] = stream[Receiver]
      /\ stream'[conf.sender][i] = a
      /\ \A k \in Stream : k # i => stream'[conf.sender][k] = stream[conf.sender][k]
      /\ net' \in [Stream -> NetRec]
      /\ \A k \in Stream : k # i => net'[k] = net[k]
      /\ \/ net'[i].fly = net[i].fly
         \/ net'[i].fly = net[i].fly \cup {a.packet_count} /\ a.packet_count = b.packet_count + 1
      /\ conf.proto = "tcp" /\ conf.file # 0 /\ ~conf.zerocopy =>
           a.bytes_sent + a.diskfile_left + net'[i].file
             = b.bytes_sent + b.diskfile_left + net[i].file

LEMMA SendEffectLemma ==
  ASSUME TypeInv, NEW i, NEW o, NEW a, SendFacts(i, o, a)
  PROVE  SendEffect(i, a, IF o.r = NET_SOFTERROR THEN 0 ELSE o.r)
<1> DEFINE side == conf.sender
           b == stream[side][i]
           r == IF o.r = NET_SOFTERROR THEN 0 ELSE o.r
           t == test[side]
<1>1. /\ side \in Side /\ Receiver \in Side /\ Receiver # side /\ Block \in Nat \ {0}
      /\ SocketBuffer \in Nat
  BY ConfLemma DEF TypeInv
<1>2. /\ SentOK(i, b, o.sp, o.r) /\ FileOK(i, b, t.done, o) /\ SameButGreen(a, o.sp)
      /\ stream' = [stream EXCEPT ![side] = [stream[side] EXCEPT ![i] = a]]
      /\ i \in Stream
  BY DEF SendFacts
<1>3. b \in StreamRec /\ SizesOK(b) /\ o.sp \in StreamRec
  BY <1>1, <1>2 DEF TypeInv, SentOK
<1>4. /\ a \in StreamRec /\ a.pending_size = o.sp.pending_size
      /\ a.diskfile_left = o.sp.diskfile_left /\ a.packet_count = o.sp.packet_count
      /\ a.peer_packet_count = o.sp.peer_packet_count
      /\ a.omitted_packet_count = o.sp.omitted_packet_count /\ a.cnt_error = o.sp.cnt_error
      /\ a.omitted_cnt_error = o.sp.omitted_cnt_error
      /\ a.bytes_sent = o.sp.bytes_sent /\ a.bytes_sent_omit = o.sp.bytes_sent_omit
      /\ a.bytes_received = o.sp.bytes_received
      /\ a.sent_this_interval = o.sp.sent_this_interval
      /\ a.received_this_interval = o.sp.received_this_interval /\ a.intervals = o.sp.intervals
  BY <1>2, <1>3, GreenFields
<1>5. /\ r \in 0..Block /\ r \in Nat
      /\ o.r \in Nat \/ o.r = NET_SOFTERROR
  BY <1>1, <1>2 DEF SentOK, NET_SOFTERROR
<1>6. /\ a.peer_packet_count = b.peer_packet_count /\ a.bytes_sent_omit = b.bytes_sent_omit
      /\ a.omitted_packet_count = b.omitted_packet_count /\ a.cnt_error = b.cnt_error
      /\ a.omitted_cnt_error = b.omitted_cnt_error /\ a.bytes_received = b.bytes_received
      /\ a.received_this_interval = b.received_this_interval /\ a.intervals = b.intervals
  BY <1>2, <1>4 DEF SentOK, SameCounters
<1>7. /\ a.bytes_sent = b.bytes_sent + r /\ a.sent_this_interval = b.sent_this_interval + r
      /\ a.packet_count \in {b.packet_count, b.packet_count + 1}
      /\ conf.proto = "udp" /\ o.r > 0 => a.packet_count = b.packet_count + 1
      /\ conf.proto # "udp" => o.r <= Room(i)
  BY <1>2, <1>4 DEF SentOK
<1>8. SizesOK(a)
  <2>1. a.bytes_sent_omit <= a.bytes_sent
    <3>1. b.bytes_sent_omit \in Nat /\ b.bytes_sent \in Nat /\ b.bytes_sent_omit <= b.bytes_sent
      BY <1>3, StreamFields DEF SizesOK
    <3> QED BY <1>5, <1>6, <1>7, <3>1
  <2>2. conf.proto = "tcp" => a.pending_size \in 0..Block /\ a.diskfile_left \in 0..Block
    BY <1>2, <1>4 DEF FileOK
  <2> QED BY <2>1, <2>2 DEF SizesOK
<1>9. /\ stream' \in Streams /\ stream'[Receiver] = stream[Receiver] /\ stream'[side][i] = a
      /\ \A k \in Stream : k # i => stream'[side][k] = stream[side][k]
  <2>1. stream \in Streams
    BY DEF TypeInv, Streams
  <2> QED BY <1>1, <1>2, <1>4, <2>1 DEF Streams
<1> DEFINE f == net[i].file - o.read
           m == IF conf.proto = "udp" \/ o.r = NET_SOFTERROR THEN net[i].bytes ELSE net[i].bytes + o.r
           y == IF conf.proto = "udp" /\ o.r > 0 THEN net[i].fly \cup {a.packet_count}
                ELSE net[i].fly
           n == [net[i] EXCEPT !.file = f, !.bytes = m, !.fly = y]
<1>10. net' = [net EXCEPT ![i] = n]
  BY DEF SendFacts
<1>11. f \in Nat /\ m \in 0..SocketBuffer /\ y \in SUBSET (Nat \ {0}) /\ net[i] \in NetRec
  <2>1. /\ net[i] \in NetRec /\ net[i].bytes \in 0..SocketBuffer
        /\ net[i].fly \in SUBSET (Nat \ {0}) /\ net[i].file \in Nat
    BY <1>2, NetFields
  <2>2. o.read \in 0..net[i].file
    BY <1>2 DEF FileOK
  <2>3. f \in Nat
    BY <2>1, <2>2
  <2>4. m \in 0..SocketBuffer
    BY <1>1, <1>5, <1>7, <2>1 DEF Room
  <2>5. b.packet_count \in Nat
    BY <1>3, StreamFields
  <2>6. conf.proto = "udp" /\ o.r > 0 => a.packet_count \in Nat \ {0}
    BY <1>7, <2>5
  <2>7. y \in SUBSET (Nat \ {0})
    BY <2>1, <2>6
  <2> QED BY <2>1, <2>3, <2>4, <2>7
<1>12. \/ y = net[i].fly
       \/ y = net[i].fly \cup {a.packet_count} /\ a.packet_count = b.packet_count + 1
  BY <1>7
<1>13. f = net[i].file - o.read
  OBVIOUS
<1> HIDE DEF f, m, y
<1>14. n \in NetRec /\ n.fly = y /\ n.file = f
  BY <1>11 DEF NetRec
<1> HIDE DEF n
<1>15. net' \in [Stream -> NetRec] /\ net'[i] = n /\ \A k \in Stream : k # i => net'[k] = net[k]
  BY <1>2, <1>10, <1>14 DEF TypeInv
<1>16. conf.proto = "tcp" /\ conf.file # 0 /\ ~conf.zerocopy =>
           a.bytes_sent + a.diskfile_left + net'[i].file
             = b.bytes_sent + b.diskfile_left + net[i].file
  BY <1>2, <1>4, <1>13, <1>14, <1>15 DEF FileOK
<1> HIDE DEF r, b
<1> QED BY <1>2, <1>4, <1>5, <1>6, <1>7, <1>8, <1>9, <1>12, <1>14, <1>15, <1>16
        DEF SendEffect, r, b

LEMMA TypeNext ==
  ASSUME TypeInv, [Next]_vars
  PROVE  TypeInv'
<1>1. /\ conf' = conf /\ now' \in 0..MaxTime
      /\ \/ QuietStep \/ SendStep \/ GreenStep \/ RecvStep \/ ExchangeStep
         \/ \E side \in Side : CountStep(side) \/ ResetStep(side)
  BY StepLemma
<1>2. TestOK
  BY TestLemma
<1>3. /\ stream \in Streams /\ net \in [Stream -> NetRec] /\ ghost \in GhostRec
      /\ conf.sender \in Side /\ Receiver \in Side /\ Side = {conf.sender, Receiver}
      /\ Receiver # conf.sender
      /\ \A side \in Side, i \in Stream : SizesOK(stream[side][i])
      /\ \A i \in Stream : /\ stream[Receiver][i].bytes_sent_omit = 0
                           /\ test'[Receiver].state \in Active => stream[Receiver][i].bytes_sent = 0
  BY <1>2, ConfLemma DEF TypeInv, ReceiverSendsNothing, Streams, TestOK, Active
<1>4. CASE QuietStep
  BY <1>1, <1>2, <1>3, <1>4, TypeStep DEF QuietStep
<1>5. CASE SendStep
  <2>1. PICK i, o, a : SendFacts(i, o, a)
    BY <1>5 DEF SendStep
  <2>2. SendEffect(i, a, IF o.r = NET_SOFTERROR THEN 0 ELSE o.r)
    BY <2>1, SendEffectLemma
  <2>3. /\ stream' \in Streams /\ stream'[Receiver] = stream[Receiver]
        /\ stream'[conf.sender][i] = a /\ SizesOK(a)
        /\ \A k \in Stream : k # i => stream'[conf.sender][k] = stream[conf.sender][k]
        /\ net' \in [Stream -> NetRec] /\ ghost' = ghost
    BY <1>5, <2>2 DEF SendEffect, SendStep
  <2>4. \A side \in Side, k \in Stream : SizesOK(stream'[side][k])
    BY <1>3, <2>3
  <2> QED BY <1>1, <1>2, <1>3, <2>3, <2>4, TypeStep
<1>6. CASE GreenStep
  <2>1. ASSUME NEW side \in Side, NEW i \in Stream
        PROVE  /\ SizesOK(stream'[side][i])
               /\ stream'[side][i].bytes_sent = stream[side][i].bytes_sent
               /\ stream'[side][i].bytes_sent_omit = stream[side][i].bytes_sent_omit
    <3>1. SameButGreen(stream'[side][i], stream[side][i]) /\ stream[side][i] \in StreamRec
      BY <1>3, <1>6 DEF GreenStep, GreenFacts, Streams
    <3>2. /\ stream'[side][i].bytes_sent = stream[side][i].bytes_sent
          /\ stream'[side][i].bytes_sent_omit = stream[side][i].bytes_sent_omit
          /\ stream'[side][i].pending_size = stream[side][i].pending_size
          /\ stream'[side][i].diskfile_left = stream[side][i].diskfile_left
      BY <3>1, GreenFields
    <3> QED BY <1>3, <3>2 DEF SizesOK
  <2>2. stream' \in Streams /\ net' = net /\ ghost' = ghost
    BY <1>6 DEF GreenStep, GreenFacts
  <2> QED BY <1>1, <1>2, <1>3, <2>1, <2>2, TypeStep
<1>7. CASE RecvStep
  <2>1. PICK R, p : RecvFacts(R, p)
    BY <1>7 DEF RecvStep
  <2>2. /\ stream' \in Streams /\ stream'[conf.sender] = stream[conf.sender]
        /\ net' \in [Stream -> NetRec] /\ ghost' \in GhostRec
    BY <2>1 DEF RecvFacts
  <2>3. ASSUME NEW i \in Stream
        PROVE  /\ stream'[Receiver][i].bytes_sent = stream[Receiver][i].bytes_sent
               /\ stream'[Receiver][i].bytes_sent_omit = stream[Receiver][i].bytes_sent_omit
               /\ stream'[Receiver][i].pending_size = stream[Receiver][i].pending_size
               /\ stream'[Receiver][i].diskfile_left = stream[Receiver][i].diskfile_left
    <3> DEFINE x == stream'[Receiver][i]
               b == stream[Receiver][i]
    <3>1. x = b \/ IsDatagram(x, b, p[i]) \/ IsGot(x, b, Min({net[i].bytes, Block}))
      BY <2>1 DEF RecvFacts
    <3>2. x = b \/ SameSender(x, b)
      BY <3>1 DEF IsDatagram, IsGot
    <3> QED BY <3>2 DEF SameSender
  <2>4. ASSUME NEW side \in Side, NEW i \in Stream PROVE SizesOK(stream'[side][i])
    <3>1. SizesOK(stream[side][i])
      BY <1>3
    <3> QED BY <1>3, <2>2, <2>3, <3>1 DEF SizesOK
  <2> QED BY <1>1, <1>2, <1>3, <2>2, <2>3, <2>4, TypeStep
<1>8. CASE ExchangeStep
  <2>1. ExchangeFacts /\ net' = net /\ ghost' = ghost /\ ExchangeResults
    BY <1>8 DEF ExchangeStep
  <2>2. stream' \in Streams /\ test'[Receiver].state \notin Active
    BY <1>3, <2>1 DEF ExchangeFacts, ExchangeResults, TypeInv, TestRec, Active
  <2>3. ASSUME NEW i \in Stream
        PROVE  /\ stream'[Receiver][i].bytes_sent_omit = 0
               /\ SizesOK(stream'[Receiver][i]) /\ SizesOK(stream'[conf.sender][i])
    <3> DEFINE s == stream[conf.sender][i]
               r == stream[Receiver][i]
    <3>1. /\ SenderTold(stream'[conf.sender][i], s, r) /\ ReceiverTold(stream'[Receiver][i], r, s)
          /\ SizesOK(s) /\ SizesOK(r) /\ r.bytes_sent_omit = 0 /\ s \in StreamRec
      BY <1>3, <2>1 DEF ExchangeFacts, Streams
    <3>2. s.bytes_sent \in Nat /\ s.bytes_sent_omit \in Nat /\ s.bytes_sent_omit <= s.bytes_sent
      BY <3>1, StreamFields DEF SizesOK
    <3>3. SizesOK(stream'[conf.sender][i])
      BY <3>1 DEF SizesOK, SenderTold
    <3>4. /\ stream'[Receiver][i].bytes_sent = s.bytes_sent - s.bytes_sent_omit
          /\ stream'[Receiver][i].bytes_sent_omit = 0
          /\ stream'[Receiver][i].pending_size = r.pending_size
          /\ stream'[Receiver][i].diskfile_left = r.diskfile_left
      BY <3>1 DEF ReceiverTold
    <3>5. stream'[Receiver][i].bytes_sent_omit <= stream'[Receiver][i].bytes_sent
      BY <3>2, <3>4
    <3>6. SizesOK(stream'[Receiver][i])
      BY <3>1, <3>4, <3>5 DEF SizesOK
    <3> QED BY <3>3, <3>4, <3>6
  <2>4. \A side \in Side, i \in Stream : SizesOK(stream'[side][i])
    BY <1>3, <2>3
  <2> QED BY <1>1, <1>2, <1>3, <2>1, <2>2, <2>3, <2>4, TypeStep
<1>9. ASSUME NEW side \in Side, CountStep(side) \/ ResetStep(side) PROVE TypeInv'
  <2>1. /\ stream' \in Streams /\ stream'[Other(side)] = stream[Other(side)]
        /\ net' = net /\ ghost' = ghost
    BY <1>9 DEF CountStep, ResetStep, CountFacts, ResetFacts
  <2>2. ASSUME NEW i \in Stream
        PROVE  /\ SizesOK(stream'[side][i])
               /\ stream'[side][i].bytes_sent = stream[side][i].bytes_sent
               /\ \/ stream'[side][i].bytes_sent_omit = stream[side][i].bytes_sent_omit
                  \/ stream'[side][i].bytes_sent_omit = stream[side][i].bytes_sent
    <3> DEFINE x == stream'[side][i]
               b == stream[side][i]
    <3>1. (IsCounted(side, x, b) \/ IsReset(x, b)) /\ SizesOK(b) /\ b \in StreamRec
      BY <1>3, <1>9 DEF CountStep, ResetStep, CountFacts, ResetFacts, Streams
    <3>2. b.bytes_sent \in Nat /\ b.bytes_sent_omit \in Nat
      BY <3>1, StreamFields
    <3>3. /\ x.pending_size = b.pending_size /\ x.diskfile_left = b.diskfile_left
          /\ x.bytes_sent = b.bytes_sent
          /\ x.bytes_sent_omit = b.bytes_sent_omit \/ x.bytes_sent_omit = b.bytes_sent
      BY <3>1 DEF IsCounted, IsReset
    <3>4. SizesOK(x)
      BY <3>1, <3>2, <3>3 DEF SizesOK
    <3> QED BY <3>3, <3>4
  <2>3. \A s \in Side, i \in Stream : SizesOK(stream'[s][i])
    BY <1>3, <2>1, <2>2, SideLemma
  <2>4. test[side].state = "TEST_RUNNING"
    BY <1>9 DEF CountStep, ResetStep
  <2>5. \A i \in Stream : /\ stream'[Receiver][i].bytes_sent_omit = 0
                          /\ test'[Receiver].state \in Active => stream'[Receiver][i].bytes_sent = 0
    <3>1. CASE side = Receiver
      <4>1. \A i \in Stream : stream[Receiver][i].bytes_sent = 0
        BY <2>4, <3>1 DEF TypeInv, ReceiverSendsNothing
      <4> QED BY <1>3, <2>2, <3>1, <4>1
    <3>2. CASE side # Receiver
      <4>1. stream'[Receiver] = stream[Receiver]
        BY <1>3, <2>1, <3>2, SideLemma
      <4> QED BY <1>3, <4>1
    <3> QED BY <3>1, <3>2
  <2> QED BY <1>1, <1>2, <1>3, <2>1, <2>3, <2>5, TypeStep
<1> QED BY <1>1, <1>4, <1>5, <1>6, <1>7, <1>8, <1>9

\* TypeOK holds in every reachable state.
THEOREM TypeTheorem == Spec => []TypeOK
<1>1. Init => TypeInv
  BY TypeInit
<1>2. TypeInv /\ [Next]_vars => TypeInv'
  BY TypeNext
<1>3. TypeInv => TypeOK
  <2> SUFFICES ASSUME TypeInv PROVE TypeOK
    OBVIOUS
  <2>1. ASSUME NEW side \in Side, NEW i \in Stream
        PROVE  LET sp == stream[side][i]
               IN  /\ sp.green_light \in BOOLEAN
                   /\ conf.proto = "tcp" => sp.pending_size \in 0..Block
                   /\ {sp.packet_count, sp.cnt_error, sp.outoforder, sp.bytes_sent,
                       sp.bytes_received} \subseteq Nat
    <3>1. stream[side][i] \in StreamRec /\ SizesOK(stream[side][i])
      BY DEF TypeInv
    <3> QED BY <3>1, StreamFields DEF SizesOK
  <2> QED BY <2>1, TestFields, NetFields DEF TypeOK, TypeInv
<1> QED BY <1>1, <1>2, <1>3, PTL DEF Spec

-----------------------------------------------------------------------------
(* Losses *)

Missing(n, got) == Cardinality((1..n) \ got)

LEMMA MissingType ==
  ASSUME NEW n \in Nat, NEW got
  PROVE  IsFiniteSet((1..n) \ got) /\ Missing(n, got) \in Nat
<1>1. IsFiniteSet(1..n)
  BY FS_Interval
<1>2. IsFiniteSet((1..n) \ got)
  BY <1>1, FS_Subset
<1> QED BY <1>2, FS_CardinalityType DEF Missing

\* A number above the highest leaves those between missing.
LEMMA MissingNew ==
  ASSUME NEW n \in Nat, NEW got \in SUBSET (1..n), NEW p \in Nat, p > n
  PROVE  Missing(p, got \cup {p}) = Missing(n, got) + (p - 1 - n)
<1> DEFINE A == (1..n) \ got
           B == (n + 1)..(p - 1)
<1>1. (1..p) \ (got \cup {p}) = A \cup B /\ A \cap B = {}
  OBVIOUS
<1>2. IsFiniteSet(A) /\ Cardinality(A) \in Nat
  BY MissingType DEF Missing
<1>3. IsFiniteSet(B) /\ Cardinality(B) = p - 1 - n
  <2>1. n + 1 \in Int /\ p - 1 \in Int
    OBVIOUS
  <2>2. /\ IsFiniteSet(B)
        /\ Cardinality(B) = IF n + 1 > p - 1 THEN 0 ELSE (p - 1) - (n + 1) + 1
    BY <2>1, FS_Interval
  <2> QED BY <2>2
<1>4. Cardinality(A \cup B) = Cardinality(A) + Cardinality(B) - Cardinality(A \cap B)
  BY <1>2, <1>3, FS_Union
<1>5. Cardinality(A \cap B) = 0
  BY <1>1, FS_EmptySet
<1>6. Missing(n, got) = Cardinality(A) /\ Missing(p, got \cup {p}) = Cardinality(A \cup B)
  BY <1>1 DEF Missing
<1> HIDE DEF A, B
<1> QED BY <1>2, <1>3, <1>4, <1>5, <1>6

\* One that is not is either one of the missing or was received before.
LEMMA MissingOld ==
  ASSUME NEW n \in Nat, NEW got, NEW p \in 1..n
  PROVE  IF p \in got THEN Missing(n, got \cup {p}) = Missing(n, got)
         ELSE Missing(n, got \cup {p}) = Missing(n, got) - 1 /\ Missing(n, got) > 0
<1>1. CASE p \in got
  <2>1. got \cup {p} = got
    BY <1>1
  <2> QED BY <1>1, <2>1
<1>2. CASE p \notin got
  <2> DEFINE A == (1..n) \ got
  <2>1. (1..n) \ (got \cup {p}) = A \ {p} /\ p \in A
    BY <1>2
  <2>2. IsFiniteSet(A) /\ Cardinality(A) \in Nat
    BY MissingType DEF Missing
  <2>3. IsFiniteSet(A \ {p}) /\ Cardinality(A \ {p}) = Cardinality(A) - 1
    BY <2>1, <2>2, FS_RemoveElement
  <2>4. Cardinality(A \ {p}) \in Nat
    BY <2>3, FS_CardinalityType
  <2>5. Missing(n, got) = Cardinality(A) /\ Missing(n, got \cup {p}) = Cardinality(A \ {p})
    BY <2>1 DEF Missing
  <2> HIDE DEF A
  <2> QED BY <1>2, <2>2, <2>3, <2>4, <2>5
<1> QED BY <1>1, <1>2

\* A stream s of the sender and r of the receiver, the packets on their way, those
\* received and the number of duplicates.
LossOK(s, r, fly, got, dup) ==
  /\ got \in SUBSET (1..r.packet_count) /\ fly \in SUBSET (1..s.packet_count)
  /\ r.packet_count <= s.packet_count
  /\ conf.proto = "udp" => /\ r.cnt_error <= Missing(r.packet_count, got)
                           /\ Missing(r.packet_count, got) <= r.cnt_error + dup

LossInv ==
  \A i \in Stream :
    LossOK(stream[conf.sender][i], stream[Receiver][i], net[i].fly, ghost.got[i], ghost.dup[i])

LEMMA LossDatagram ==
  ASSUME NEW s \in StreamRec, NEW r \in StreamRec, NEW a, NEW fly, NEW p \in fly, NEW fly2 \in SUBSET fly,
         NEW got, NEW dup \in Nat, LossOK(s, r, fly, got, dup), IsDatagram(a, r, p),
         conf.proto = "udp"
  PROVE  LossOK(s, a, fly2, got \cup {p}, IF p \in got THEN dup + 1 ELSE dup)
<1> DEFINE n == r.packet_count
           c == r.cnt_error
           m == Missing(n, got)
           d == IF p \in got THEN dup + 1 ELSE dup
<1>1. n \in Nat /\ c \in Nat /\ s.packet_count \in Nat /\ a.packet_count \in Nat
      /\ a.cnt_error \in Nat
  BY StreamFields DEF IsDatagram
<1>2. /\ got \in SUBSET (1..n) /\ fly \in SUBSET (1..s.packet_count) /\ n <= s.packet_count
      /\ c <= m /\ m <= c + dup
  BY DEF LossOK
<1>3. p \in 1..s.packet_count
  BY <1>2
<1>4. /\ a.packet_count = IF p > n THEN p ELSE n
      /\ a.cnt_error = IF p > n THEN c + (p - 1 - n) ELSE IF c > 0 THEN c - 1 ELSE 0
  BY DEF IsDatagram
<1>5. m \in Nat
  BY <1>1, MissingType
<1> HIDE DEF n, c, m
<1> DEFINE m2 == Missing(a.packet_count, got \cup {p})
<1>6. /\ got \cup {p} \in SUBSET (1..a.packet_count) /\ a.packet_count <= s.packet_count
      /\ fly2 \in SUBSET (1..s.packet_count)
  BY <1>1, <1>2, <1>3, <1>4
<1>7. CASE p > n
  <2>1. m2 = m + (p - 1 - n)
    BY <1>1, <1>2, <1>3, <1>4, <1>7, MissingNew DEF m
  <2>2. p \notin got
    BY <1>1, <1>2, <1>7
  <2> HIDE DEF m2
  <2>3. a.cnt_error <= m2 /\ m2 <= a.cnt_error + d
    BY <1>1, <1>2, <1>3, <1>4, <1>5, <1>7, <2>1, <2>2
  <2> QED BY <1>6, <2>3 DEF LossOK, m2
<1>8. CASE ~(p > n)
  <2>1. p \in 1..n /\ a.packet_count = n
    BY <1>1, <1>3, <1>4, <1>8
  <2>2. IF p \in got THEN m2 = m ELSE m2 = m - 1 /\ m > 0
    BY <1>1, <2>1, MissingOld DEF m
  <2> HIDE DEF m2
  <2>3. a.cnt_error <= m2 /\ m2 <= a.cnt_error + d
    BY <1>1, <1>2, <1>4, <1>5, <1>8, <2>1, <2>2
  <2> QED BY <1>6, <2>3 DEF LossOK, m2
<1> QED BY <1>7, <1>8

LEMMA LossInit == ASSUME Init PROVE LossInv
<1>1. conf \in Configs /\ conf.sender \in Side /\ Receiver \in Side
  BY ConfLemma DEF Init
<1>2. ASSUME NEW i \in Stream
      PROVE  /\ stream[conf.sender][i].packet_count = 0 /\ stream[Receiver][i].packet_count = 0
             /\ stream[Receiver][i].cnt_error = 0
             /\ net[i].fly = {} /\ ghost.got[i] = {} /\ ghost.dup[i] = 0
  BY <1>1 DEF Init, iperf_new_stream
<1>3. Missing(0, {}) = 0
  <2>1. (1..0) \ {} = {}
    OBVIOUS
  <2> QED BY <2>1, FS_EmptySet DEF Missing
<1>4. ASSUME NEW i \in Stream
      PROVE  LossOK(stream[conf.sender][i], stream[Receiver][i], net[i].fly, ghost.got[i],
                    ghost.dup[i])
  <2>1. Missing(stream[Receiver][i].packet_count, ghost.got[i]) = 0
    BY <1>2, <1>3
  <2>2. /\ ghost.got[i] \in SUBSET (1..stream[Receiver][i].packet_count)
        /\ net[i].fly \in SUBSET (1..stream[conf.sender][i].packet_count)
    BY <1>2
  <2> QED BY <1>2, <2>1, <2>2 DEF LossOK
<1> QED BY <1>4 DEF LossInv

LEMMA LossNext ==
  ASSUME TypeInv, LossInv, [Next]_vars
  PROVE  LossInv'
<1>1. /\ conf' = conf
      /\ \/ QuietStep \/ SendStep \/ GreenStep \/ RecvStep \/ ExchangeStep
         \/ \E side \in Side : CountStep(side) \/ ResetStep(side)
  BY StepLemma
<1> SUFFICES ASSUME NEW i \in Stream
             PROVE  LossOK(stream'[conf.sender][i], stream'[Receiver][i], net'[i].fly,
                           ghost'.got[i], ghost'.dup[i])
  <2>1. Stream' = Stream /\ Receiver' = Receiver /\ Side' = Side
    BY <1>1 DEF Stream, Receiver, Other, Side
  <2> QED BY <1>1, <2>1 DEF LossInv, LossOK
<1> DEFINE s == stream[conf.sender][i]
           r == stream[Receiver][i]
           s2 == stream'[conf.sender][i]
           r2 == stream'[Receiver][i]
<1>2. /\ conf.sender \in Side /\ Receiver \in Side /\ Receiver # conf.sender
      /\ Side = {conf.sender, Receiver}
  BY ConfLemma DEF TypeInv
<1>3. /\ s \in StreamRec /\ r \in StreamRec /\ s.packet_count \in Nat /\ r.packet_count \in Nat
      /\ ghost.dup[i] \in Nat
      /\ LossOK(s, r, net[i].fly, ghost.got[i], ghost.dup[i])
  BY <1>2, StreamFields DEF TypeInv, LossInv, GhostRec
\* No step but a datagram changes the counters of the receiver.
<1>4. ASSUME r2.packet_count = r.packet_count, r2.cnt_error = r.cnt_error,
             s2.packet_count \in {s.packet_count, s.packet_count + 1},
             net'[i].fly \in SUBSET (net[i].fly \cup {s2.packet_count}),
             net'[i].fly \in SUBSET net[i].fly \/ s2.packet_count = s.packet_count + 1,
             ghost'.got[i] = ghost.got[i], ghost'.dup[i] = ghost.dup[i]
      PROVE  LossOK(s2, r2, net'[i].fly, ghost'.got[i], ghost'.dup[i])
  <2> HIDE DEF s, r, s2, r2
  <2>1. net'[i].fly \in SUBSET (1..s2.packet_count) /\ r2.packet_count <= s2.packet_count
    BY <1>3, <1>4 DEF LossOK
  <2> QED BY <1>3, <1>4, <2>1 DEF LossOK
<1>5. CASE QuietStep
  BY <1>4, <1>5 DEF QuietStep
<1>6. CASE SendStep
  <2>1. PICK k, o, a : SendFacts(k, o, a)
    BY <1>6 DEF SendStep
  <2>2. SendEffect(k, a, IF o.r = NET_SOFTERROR THEN 0 ELSE o.r)
    BY <2>1, SendEffectLemma
  <2>3. /\ stream'[Receiver] = stream[Receiver] /\ stream'[conf.sender][k] = a
        /\ \A j \in Stream : j # k => stream'[conf.sender][j] = stream[conf.sender][j]
        /\ \A j \in Stream : j # k => net'[j] = net[j]
        /\ a.packet_count \in {stream[conf.sender][k].packet_count,
                               stream[conf.sender][k].packet_count + 1}
        /\ \/ net'[k].fly = net[k].fly
           \/ /\ net'[k].fly = net[k].fly \cup {a.packet_count}
              /\ a.packet_count = stream[conf.sender][k].packet_count + 1
    BY <2>2 DEF SendEffect
  <2>4. ghost' = ghost
    BY <1>6 DEF SendStep
  <2>5. CASE i = k
    BY <1>4, <2>3, <2>4, <2>5
  <2>6. CASE i # k
    BY <1>4, <2>3, <2>4, <2>6
  <2> QED BY <2>5, <2>6
<1>7. CASE GreenStep
  <2>1. SameButGreen(s2, s) /\ SameButGreen(r2, r) /\ net' = net /\ ghost' = ghost
    BY <1>2, <1>7 DEF GreenStep, GreenFacts
  <2>2. /\ s2.packet_count = s.packet_count /\ r2.packet_count = r.packet_count
        /\ r2.cnt_error = r.cnt_error
    BY <1>3, <2>1, GreenFields
  <2> QED BY <1>4, <2>1, <2>2
<1>8. CASE RecvStep
  <2>1. PICK R, p : RecvFacts(R, p)
    BY <1>8 DEF RecvStep
  <2> DEFINE counted == i \in R /\ test[Receiver].state = "TEST_RUNNING"
  <2>2. /\ conf.proto = "udp" /\ i \in R => p[i] \in net[i].fly
        /\ s2 = s /\ net'[i].fly \in SUBSET net[i].fly
        /\ ~counted => r2 = r
        /\ counted /\ conf.proto = "udp" => IsDatagram(r2, r, p[i])
        /\ counted /\ conf.proto # "udp" => IsGot(r2, r, Min({net[i].bytes, Block}))
        /\ ghost'.got[i] = IF counted /\ conf.proto = "udp" THEN ghost.got[i] \cup {p[i]}
                           ELSE ghost.got[i]
        /\ ghost'.dup[i] = IF counted /\ conf.proto = "udp" /\ p[i] \in ghost.got[i]
                           THEN ghost.dup[i] + 1 ELSE ghost.dup[i]
    BY <2>1 DEF RecvFacts
  <2> HIDE DEF s, r, s2, r2
  <2>3. CASE counted /\ conf.proto = "udp"
    <3> DEFINE d == IF p[i] \in ghost.got[i] THEN ghost.dup[i] + 1 ELSE ghost.dup[i]
    <3>1. LossOK(s, r2, net'[i].fly, ghost.got[i] \cup {p[i]}, d)
      <4>1. /\ p[i] \in net[i].fly /\ net'[i].fly \in SUBSET net[i].fly
            /\ IsDatagram(r2, r, p[i]) /\ conf.proto = "udp"
        BY <2>2, <2>3
      <4> DEFINE q == p[i]
                 fly == net[i].fly
                 fly2 == net'[i].fly
                 got == ghost.got[i]
                 dup == ghost.dup[i]
      <4>2. /\ q \in fly /\ fly2 \in SUBSET fly /\ dup \in Nat /\ LossOK(s, r, fly, got, dup)
            /\ IsDatagram(r2, r, q) /\ s \in StreamRec /\ r \in StreamRec
        BY <1>3, <4>1
      <4> HIDE DEF q, fly, fly2, got, dup, d
      <4>3. LossOK(s, r2, fly2, got \cup {q}, IF q \in got THEN dup + 1 ELSE dup)
        BY <4>1, <4>2, LossDatagram
      <4> QED BY <4>3 DEF q, fly, fly2, got, dup, d
    <3>2. ghost'.got[i] = ghost.got[i] \cup {p[i]} /\ ghost'.dup[i] = d /\ s2 = s
      BY <2>2, <2>3
    <3> HIDE DEF d
    <3>3. LossOK(s2, r2, net'[i].fly, ghost'.got[i], ghost'.dup[i])
      BY <3>1, <3>2
    <3> QED BY <3>3 DEF s2, r2
  <2>4. CASE ~(counted /\ conf.proto = "udp")
    <3>1. r2.packet_count = r.packet_count /\ r2.cnt_error = r.cnt_error
      BY <2>2, <2>4 DEF IsGot
    <3> QED BY <1>4, <2>2, <2>4, <3>1 DEF s2, r2
  <2> QED BY <2>3, <2>4
<1>9. CASE ExchangeStep
  <2>1. /\ SenderTold(s2, s, r) /\ ReceiverTold(r2, r, s) /\ net' = net /\ ghost' = ghost
    BY <1>9 DEF ExchangeStep, ExchangeFacts
  <2>2. /\ s2.packet_count = s.packet_count /\ r2.packet_count = r.packet_count
        /\ r2.cnt_error = r.cnt_error
    BY <2>1 DEF SenderTold, ReceiverTold
  <2> QED BY <1>4, <2>1, <2>2
<1>10. ASSUME NEW side \in Side, CountStep(side) \/ ResetStep(side)
       PROVE  LossOK(s2, r2, net'[i].fly, ghost'.got[i], ghost'.dup[i])
  <2>1. /\ stream'[Other(side)] = stream[Other(side)] /\ net' = net /\ ghost' = ghost
        /\ \/ IsCounted(side, stream'[side][i], stream[side][i])
           \/ IsReset(stream'[side][i], stream[side][i])
    BY <1>10 DEF CountStep, ResetStep, CountFacts, ResetFacts
  <2>2. /\ stream'[side][i].packet_count = stream[side][i].packet_count
        /\ stream'[side][i].cnt_error = stream[side][i].cnt_error
    BY <2>1 DEF IsCounted, IsReset
  <2>3. /\ s2.packet_count = s.packet_count /\ r2.packet_count = r.packet_count
        /\ r2.cnt_error = r.cnt_error
    BY <1>2, <2>1, <2>2, SideLemma
  <2> QED BY <1>4, <2>1, <2>3
<1> QED BY <1>1, <1>5, <1>6, <1>7, <1>8, <1>9, <1>10

\* The loss counter of a UDP receiver is exact up to duplicates.
THEOREM LossCounterTheorem == Spec => []LossCounterIsExact
<1>1. Init => TypeInv /\ LossInv
  BY TypeInit, LossInit
<1>2. TypeInv /\ LossInv /\ [Next]_vars => TypeInv' /\ LossInv'
  BY TypeNext, LossNext
<1>3. LossInv => LossCounterIsExact
  BY DEF LossInv, LossOK, LossCounterIsExact, Missing
<1> QED BY <1>1, <1>2, <1>3, PTL DEF Spec

-----------------------------------------------------------------------------
(* Results *)

\* What the receiver has counted since its last interval, and in all of them.
FractionOK(r) ==
  /\ r.cnt_error - r.omitted_cnt_error <= r.packet_count - r.omitted_packet_count
  /\ r.cnt_error - LastOf(r, "cnt_error") <= r.packet_count - LastOf(r, "packet_count")
  /\ \A k \in DOMAIN r.intervals : r.intervals[k].errors <= r.intervals[k].packets

FractionInv == \A i \in Stream : FractionOK(stream[Receiver][i])

LEMMA LastLemma ==
  ASSUME NEW sp \in StreamRec
  PROVE  LastOf(sp, "packet_count") \in Nat /\ LastOf(sp, "cnt_error") \in Nat
<1>1. sp.intervals \in Seq(Interval)
  BY StreamFields
<1>2. sp.intervals # <<>> => sp.intervals[Len(sp.intervals)] \in Interval
  BY <1>1
<1> QED BY <1>2 DEF LastOf, Interval

LEMMA FractionSame ==
  ASSUME NEW r, NEW a, FractionOK(r), a.cnt_error = r.cnt_error,
         a.omitted_cnt_error = r.omitted_cnt_error, a.packet_count = r.packet_count,
         a.omitted_packet_count = r.omitted_packet_count, a.intervals = r.intervals
  PROVE  FractionOK(a)
BY DEF FractionOK, LastOf

LEMMA FractionDatagram ==
  ASSUME NEW r \in StreamRec, NEW a, NEW p \in Nat, FractionOK(r), IsDatagram(a, r, p)
  PROVE  FractionOK(a)
<1>1. /\ a.omitted_cnt_error = r.omitted_cnt_error /\ a.intervals = r.intervals
      /\ a.omitted_packet_count = r.omitted_packet_count
      /\ a.packet_count = IF p > r.packet_count THEN p ELSE r.packet_count
      /\ a.cnt_error = IF p > r.packet_count THEN r.cnt_error + (p - 1 - r.packet_count)
                       ELSE IF r.cnt_error > 0 THEN r.cnt_error - 1 ELSE 0
  BY DEF IsDatagram, SameSender
<1>2. LastOf(a, "packet_count") = LastOf(r, "packet_count")
      /\ LastOf(a, "cnt_error") = LastOf(r, "cnt_error")
  BY <1>1 DEF LastOf
<1>3. /\ LastOf(r, "packet_count") \in Nat /\ LastOf(r, "cnt_error") \in Nat
      /\ r.packet_count \in Nat /\ r.cnt_error \in Nat
      /\ r.omitted_packet_count \in Nat /\ r.omitted_cnt_error \in Nat
  BY LastLemma, StreamFields
<1>4. /\ r.cnt_error - r.omitted_cnt_error <= r.packet_count - r.omitted_packet_count
      /\ r.cnt_error - LastOf(r, "cnt_error") <= r.packet_count - LastOf(r, "packet_count")
      /\ \A k \in DOMAIN r.intervals : r.intervals[k].errors <= r.intervals[k].packets
  BY DEF FractionOK
<1>5. /\ a.cnt_error - a.omitted_cnt_error <= a.packet_count - a.omitted_packet_count
      /\ a.cnt_error - LastOf(a, "cnt_error") <= a.packet_count - LastOf(a, "packet_count")
  BY <1>1, <1>2, <1>3, <1>4
<1> QED BY <1>1, <1>4, <1>5 DEF FractionOK

LEMMA FractionCount ==
  ASSUME NEW side, NEW r \in StreamRec, NEW a, FractionOK(r), IsCounted(side, a, r)
  PROVE  FractionOK(a)
<1> DEFINE iv == [omitted |-> test[side].omitting,
        bytes |-> IF side = conf.sender THEN r.sent_this_interval ELSE r.received_this_interval,
        packets |-> r.packet_count - LastOf(r, "packet_count"),
        errors |-> r.cnt_error - LastOf(r, "cnt_error"),
        packet_count |-> r.packet_count, cnt_error |-> r.cnt_error]
<1>1. /\ a.omitted_cnt_error = r.omitted_cnt_error /\ a.packet_count = r.packet_count
      /\ a.omitted_packet_count = r.omitted_packet_count /\ a.cnt_error = r.cnt_error
      /\ a.intervals = Append(r.intervals, iv)
  BY DEF IsCounted
<1>2. /\ iv.packet_count = r.packet_count /\ iv.cnt_error = r.cnt_error
      /\ iv.errors <= iv.packets
  BY DEF FractionOK
<1> HIDE DEF iv
<1>3. r.intervals \in Seq(Interval) /\ Len(r.intervals) \in Nat
  BY StreamFields
<1>4. /\ a.intervals # <<>> /\ Len(a.intervals) = Len(r.intervals) + 1
      /\ a.intervals[Len(a.intervals)] = iv
      /\ \A k \in DOMAIN a.intervals :
           a.intervals[k] = iv \/ (k \in DOMAIN r.intervals /\ a.intervals[k] = r.intervals[k])
  BY <1>1, <1>3
<1>5. LastOf(a, "packet_count") = r.packet_count /\ LastOf(a, "cnt_error") = r.cnt_error
  BY <1>2, <1>4 DEF LastOf
<1>6. r.packet_count \in Nat /\ r.cnt_error \in Nat
  BY StreamFields
<1>7. \A k \in DOMAIN a.intervals : a.intervals[k].errors <= a.intervals[k].packets
  BY <1>2, <1>4 DEF FractionOK
<1>8. r.cnt_error - r.omitted_cnt_error <= r.packet_count - r.omitted_packet_count
  BY DEF FractionOK
<1> QED BY <1>1, <1>5, <1>6, <1>7, <1>8 DEF FractionOK

LEMMA FractionReset ==
  ASSUME NEW r \in StreamRec, NEW a, FractionOK(r), IsReset(a, r)
  PROVE  FractionOK(a)
<1>1. /\ a.omitted_cnt_error = r.cnt_error /\ a.packet_count = r.packet_count
      /\ a.omitted_packet_count = r.packet_count /\ a.cnt_error = r.cnt_error
      /\ a.intervals = r.intervals
  BY DEF IsReset
<1>2. r.packet_count \in Nat /\ r.cnt_error \in Nat
  BY StreamFields
<1>3. a.cnt_error - a.omitted_cnt_error = 0 /\ a.packet_count - a.omitted_packet_count = 0
  BY <1>1, <1>2
<1> QED BY <1>1, <1>3 DEF FractionOK, LastOf

\* What both sides know of a stream once the results are exchanged.
Agreed(s, r) ==
  /\ s.cnt_error = r.cnt_error /\ s.peer_packet_count = r.packet_count
  /\ s.bytes_received = r.bytes_received /\ r.peer_packet_count = s.packet_count
  /\ r.bytes_sent = s.bytes_sent - s.bytes_sent_omit

Shown(side) == test[side].state = "DISPLAY_RESULTS"

ShownInv ==
  /\ Shown("c") <=> Shown("s")
  /\ Shown("c") => \A i \in Stream : Agreed(stream[conf.sender][i], stream[Receiver][i])

NothingOmitted ==
  ~conf.omit => \A side \in Side :
     /\ ~test[side].omitting
     /\ \A i \in Stream : /\ stream[side][i].omitted_packet_count = 0
                          /\ stream[side][i].omitted_cnt_error = 0

ResultInv == FractionInv /\ ShownInv /\ NothingOmitted

LEMMA ResultInit == ASSUME Init PROVE ResultInv
<1>1. /\ conf \in Configs /\ conf.sender \in Side /\ Receiver \in Side
      /\ conf.omit \in BOOLEAN
  BY ConfLemma DEF Init
<1>2. ASSUME NEW side \in Side
      PROVE  /\ test[side].state = "TEST_RUNNING" /\ test[side].omitting = conf.omit
             /\ \A i \in Stream : stream[side][i] = iperf_new_stream
  BY <1>1 DEF Init, NewTest
<1>3. /\ iperf_new_stream.packet_count = 0 /\ iperf_new_stream.cnt_error = 0
      /\ iperf_new_stream.omitted_packet_count = 0 /\ iperf_new_stream.omitted_cnt_error = 0
      /\ iperf_new_stream.intervals = <<>>
  BY DEF iperf_new_stream
<1>4. FractionOK(iperf_new_stream)
  BY <1>3 DEF FractionOK, LastOf
<1>5. FractionInv
  BY <1>1, <1>2, <1>4 DEF FractionInv
<1>6. ~Shown("c") /\ ~Shown("s")
  BY <1>2 DEF Shown, Side
<1>7. NothingOmitted
  BY <1>1, <1>2, <1>3 DEF NothingOmitted
<1> QED BY <1>5, <1>6, <1>7 DEF ResultInv, ShownInv

LEMMA FractionNext ==
  ASSUME TypeInv, FractionInv, [Next]_vars
  PROVE  FractionInv'
<1>1. /\ conf' = conf
      /\ \/ QuietStep \/ SendStep \/ GreenStep \/ RecvStep \/ ExchangeStep
         \/ \E side \in Side : CountStep(side) \/ ResetStep(side)
  BY StepLemma
<1> SUFFICES ASSUME NEW i \in Stream PROVE FractionOK(stream'[Receiver][i])
  <2>1. Stream' = Stream /\ Receiver' = Receiver
    BY <1>1 DEF Stream, Receiver, Other
  <2> QED BY <2>1 DEF FractionInv, FractionOK, LastOf
<1> DEFINE r == stream[Receiver][i]
           r2 == stream'[Receiver][i]
<1>2. /\ conf.sender \in Side /\ Receiver \in Side /\ Receiver # conf.sender
      /\ Side = {conf.sender, Receiver}
  BY ConfLemma DEF TypeInv
<1>3. r \in StreamRec /\ FractionOK(r)
  BY <1>2 DEF TypeInv, FractionInv
<1>4. CASE r2 = r
  BY <1>3, <1>4
<1>5. CASE QuietStep
  BY <1>4, <1>5 DEF QuietStep
<1>6. CASE SendStep
  <2>1. PICK k, o, a : SendFacts(k, o, a)
    BY <1>6 DEF SendStep
  <2>2. SendEffect(k, a, IF o.r = NET_SOFTERROR THEN 0 ELSE o.r)
    BY <2>1, SendEffectLemma
  <2>3. stream'[Receiver] = stream[Receiver]
    BY <2>2 DEF SendEffect
  <2> QED BY <1>4, <2>3
<1>7. CASE GreenStep
  BY <1>4, <1>7 DEF GreenStep, GreenFacts
<1>8. CASE RecvStep
  <2>1. PICK R, p : RecvFacts(R, p)
    BY <1>8 DEF RecvStep
  <2>2. \/ r2 = r
        \/ i \in R /\ conf.proto = "udp" /\ p[i] \in net[i].fly /\ IsDatagram(r2, r, p[i])
        \/ IsGot(r2, r, Min({net[i].bytes, Block}))
    BY <2>1 DEF RecvFacts
  <2>3. CASE conf.proto = "udp" /\ p[i] \in net[i].fly /\ IsDatagram(r2, r, p[i])
    <3>1. p[i] \in Nat
      BY <2>3, NetFields
    <3> QED BY <1>3, <2>3, <3>1, FractionDatagram
  <2>4. CASE IsGot(r2, r, Min({net[i].bytes, Block}))
    <3>1. /\ r2.cnt_error = r.cnt_error /\ r2.packet_count = r.packet_count
          /\ r2.omitted_cnt_error = r.omitted_cnt_error
          /\ r2.omitted_packet_count = r.omitted_packet_count /\ r2.intervals = r.intervals
      BY <2>4 DEF IsGot, SameSender
    <3> QED BY <1>3, <3>1, FractionSame
  <2> QED BY <1>4, <2>2, <2>3, <2>4
<1>9. CASE ExchangeStep
  <2>1. ReceiverTold(r2, r, stream[conf.sender][i])
    BY <1>9 DEF ExchangeStep, ExchangeFacts
  <2>2. /\ r2.cnt_error = r.cnt_error /\ r2.packet_count = r.packet_count
        /\ r2.omitted_cnt_error = r.omitted_cnt_error
        /\ r2.omitted_packet_count = r.omitted_packet_count /\ r2.intervals = r.intervals
    BY <2>1 DEF ReceiverTold
  <2> QED BY <1>3, <2>2, FractionSame
<1>10. ASSUME NEW side \in Side, CountStep(side) \/ ResetStep(side) PROVE FractionOK(r2)
  <2>1. CASE side = Receiver
    <3>1. IsCounted(side, r2, r) \/ IsReset(r2, r)
      BY <1>10, <2>1 DEF CountStep, ResetStep, CountFacts, ResetFacts
    <3> QED BY <1>3, <3>1, FractionCount, FractionReset
  <2>2. CASE side # Receiver
    <3>1. Receiver = Other(side)
      BY <1>2, <2>2, SideLemma
    <3>2. stream'[Receiver] = stream[Receiver]
      BY <1>10, <3>1 DEF CountStep, ResetStep, CountFacts, ResetFacts
    <3> QED BY <1>4, <3>2
  <2> QED BY <2>1, <2>2
<1> QED BY <1>1, <1>5, <1>6, <1>7, <1>8, <1>9, <1>10

LEMMA ShownNext ==
  ASSUME TypeInv, ShownInv, [Next]_vars
  PROVE  ShownInv'
<1>1. /\ conf' = conf
      /\ \/ QuietStep \/ SendStep \/ GreenStep \/ RecvStep \/ ExchangeStep
         \/ \E side \in Side : CountStep(side) \/ ResetStep(side)
  BY StepLemma
<1>2. TestOK
  BY TestLemma
<1>3. /\ Stream' = Stream /\ Receiver' = Receiver
      /\ conf.sender \in Side /\ Receiver \in Side /\ "c" \in Side /\ "s" \in Side
      /\ Side = {"c", "s"}
  BY <1>1, ConfLemma DEF Stream, Receiver, Other, Side, TypeInv
<1>4. CASE ExchangeResults
  <2>1. ExchangeFacts /\ Shown("c")' /\ Shown("s")'
    <3>1. ExchangeFacts
      BY <1>4, ExchangeLemma
    <3>2. \A side \in Side : test[side] \in TestRec
      BY TestFields
    <3>3. \A side \in Side : test'[side].state = "DISPLAY_RESULTS"
      BY <1>4, <3>2 DEF ExchangeResults, TestRec
    <3> QED BY <1>3, <3>1, <3>3 DEF Shown
  <2>2. ASSUME NEW i \in Stream PROVE Agreed(stream'[conf.sender][i], stream'[Receiver][i])
    <3>1. /\ SenderTold(stream'[conf.sender][i], stream[conf.sender][i], stream[Receiver][i])
          /\ ReceiverTold(stream'[Receiver][i], stream[Receiver][i], stream[conf.sender][i])
      BY <2>1 DEF ExchangeFacts
    <3> QED BY <3>1 DEF SenderTold, ReceiverTold, Agreed
  <2> QED BY <1>1, <1>3, <2>1, <2>2 DEF ShownInv, Agreed
<1>5. CASE ~ExchangeResults /\ ~Shown("c")
  <2>1. ~Shown("s")
    BY <1>5 DEF ShownInv
  <2>2. ASSUME NEW side \in Side, ~Shown(side) PROVE ~Shown(side)'
    <3>1. CASE TestFails
      <4>1. test[side] \in TestRec
        BY TestFields
      <4> QED BY <3>1, <4>1 DEF TestFails, TestRec, Shown
    <3>2. CASE ~TestFails
      BY <1>2, <1>5, <2>2, <3>2 DEF TestOK, Shown
    <3> QED BY <3>1, <3>2
  <2> QED BY <1>3, <1>5, <2>1, <2>2 DEF ShownInv
<1>6. CASE ~ExchangeResults /\ Shown("c")
  <2>1. \A side \in Side : Shown(side)
    BY <1>3, <1>6 DEF ShownInv
  <2>2. ~TestFails
    BY <1>3, <2>1 DEF TestFails, Running, Shown
  <2>3. \A side \in Side : Shown(side)'
    BY <1>2, <1>6, <2>1, <2>2 DEF TestOK, Shown
  <2>4. QuietStep
    BY <1>1, <1>3, <1>6, <2>1, ZenonT(60)
    DEF SendStep, SendFacts, GreenStep, RecvStep, RecvFacts, ExchangeStep, CountStep, ResetStep, Shown
  <2> QED BY <1>1, <1>3, <1>6, <2>3, <2>4 DEF ShownInv, QuietStep, Agreed
<1> QED BY <1>4, <1>5, <1>6

LEMMA OmittedNext ==
  ASSUME TypeInv, NothingOmitted, [Next]_vars
  PROVE  NothingOmitted'
<1>1. /\ conf' = conf
      /\ \/ QuietStep \/ SendStep \/ GreenStep \/ RecvStep \/ ExchangeStep
         \/ \E side \in Side : CountStep(side) \/ ResetStep(side)
  BY StepLemma
<1>2. TestOK
  BY TestLemma
<1> SUFFICES ASSUME ~conf.omit, NEW side \in Side, NEW i \in Stream
             PROVE  /\ stream'[side][i].omitted_packet_count = 0
                    /\ stream'[side][i].omitted_cnt_error = 0
  <2>1. Stream' = Stream /\ Side' = Side
    BY <1>1 DEF Stream, Side
  <2> QED BY <1>1, <1>2, <2>1 DEF NothingOmitted, TestOK
<1> DEFINE a == stream'[side][i]
           b == stream[side][i]
<1>3. /\ b.omitted_packet_count = 0 /\ b.omitted_cnt_error = 0 /\ b \in StreamRec
      /\ \A s \in Side : ~test[s].omitting
  BY DEF NothingOmitted, TypeInv
<1>4. /\ conf.sender \in Side /\ Receiver \in Side /\ Receiver # conf.sender
      /\ Side = {conf.sender, Receiver}
  BY ConfLemma DEF TypeInv
<1> SUFFICES /\ a.omitted_packet_count = b.omitted_packet_count
             /\ a.omitted_cnt_error = b.omitted_cnt_error
  BY <1>3
<1>5. CASE QuietStep
  BY <1>5 DEF QuietStep
<1>6. CASE SendStep
  <2>1. PICK k, o, x : SendFacts(k, o, x)
    BY <1>6 DEF SendStep
  <2>2. SendEffect(k, x, IF o.r = NET_SOFTERROR THEN 0 ELSE o.r)
    BY <2>1, SendEffectLemma
  <2>3. /\ stream'[Receiver] = stream[Receiver] /\ stream'[conf.sender][k] = x
        /\ \A j \in Stream : j # k => stream'[conf.sender][j] = stream[conf.sender][j]
        /\ x.omitted_packet_count = stream[conf.sender][k].omitted_packet_count
        /\ x.omitted_cnt_error = stream[conf.sender][k].omitted_cnt_error
    BY <2>2 DEF SendEffect
  <2> QED BY <1>4, <2>3
<1>7. CASE GreenStep
  <2>1. SameButGreen(a, b)
    BY <1>7 DEF GreenStep, GreenFacts
  <2> QED BY <1>3, <2>1, GreenFields
<1>8. CASE RecvStep
  <2>1. PICK R, p : RecvFacts(R, p)
    BY <1>8 DEF RecvStep
  <2>2. CASE side = Receiver
    <3>1. a = b \/ IsDatagram(a, b, p[i]) \/ IsGot(a, b, Min({net[i].bytes, Block}))
      BY <2>1, <2>2 DEF RecvFacts
    <3> QED BY <3>1 DEF IsDatagram, IsGot, SameSender
  <2>3. CASE side # Receiver
    <3>1. a = b
      BY <1>4, <2>1, <2>3 DEF RecvFacts
    <3> QED BY <3>1
  <2> QED BY <2>2, <2>3
<1>9. CASE ExchangeStep
  <2>1. \/ side = conf.sender /\ SenderTold(a, b, stream[Receiver][i])
        \/ side = Receiver /\ ReceiverTold(a, b, stream[conf.sender][i])
    BY <1>4, <1>9 DEF ExchangeStep, ExchangeFacts
  <2> QED BY <2>1 DEF SenderTold, ReceiverTold
<1>10. ASSUME NEW s \in Side, CountStep(s) \/ ResetStep(s)
       PROVE  /\ a.omitted_packet_count = b.omitted_packet_count
              /\ a.omitted_cnt_error = b.omitted_cnt_error
  <2>1. CountStep(s)
    BY <1>3, <1>10 DEF ResetStep
  <2>2. CASE s = side
    <3>1. IsCounted(side, a, b)
      BY <2>1, <2>2 DEF CountStep, CountFacts
    <3> QED BY <3>1 DEF IsCounted
  <2>3. CASE s # side
    <3>1. a = b
      BY <2>1, <2>3, SideLemma DEF CountStep, CountFacts
    <3> QED BY <3>1
  <2> QED BY <2>2, <2>3
<1> QED BY <1>1, <1>5, <1>6, <1>7, <1>8, <1>9, <1>10

LEMMA ResultSafety ==
  ASSUME TypeInv, LossInv, ResultInv
  PROVE  LossIsAFraction /\ ReportsAgree
<1>1. /\ conf.sender \in Side /\ Receiver \in Side /\ Receiver # conf.sender
      /\ Side = {conf.sender, Receiver} /\ "c" \in Side /\ "s" \in Side /\ Side = {"c", "s"}
  BY ConfLemma DEF TypeInv, Side
<1>2. ASSUME NEW i \in Stream
      PROVE  /\ stream[conf.sender][i] \in StreamRec /\ stream[Receiver][i] \in StreamRec
             /\ stream[Receiver][i].bytes_sent_omit = 0
  BY <1>1 DEF TypeInv, ReceiverSendsNothing
<1>3. ASSUME NEW i \in Stream
      PROVE  Report(Receiver, i).lost <= Report(Receiver, i).receiver_packets
  <2>1. FractionOK(stream[Receiver][i])
    BY DEF ResultInv, FractionInv
  <2> QED BY <1>1, <2>1 DEF FractionOK, Report
<1>4. ASSUME NEW i \in Stream, ~conf.omit, Shown(conf.sender)
      PROVE  LET r == Report(conf.sender, i)
             IN  r.lost <= Min({r.sender_packets, r.receiver_packets})
  <2> DEFINE s == stream[conf.sender][i]
             r == stream[Receiver][i]
  <2>1. /\ Agreed(s, r) /\ s.omitted_packet_count = 0 /\ s.omitted_cnt_error = 0
        /\ r.omitted_packet_count = 0 /\ r.omitted_cnt_error = 0
    BY <1>1, <1>4 DEF ResultInv, ShownInv, NothingOmitted, Shown
  <2>2. /\ r.cnt_error <= r.packet_count /\ r.packet_count <= s.packet_count
        /\ r.packet_count \in Nat /\ s.packet_count \in Nat /\ r.cnt_error \in Nat
    <3>1. FractionOK(r) /\ r.packet_count <= s.packet_count
      BY DEF ResultInv, FractionInv, LossInv, LossOK
    <3>2. r.packet_count \in Nat /\ s.packet_count \in Nat /\ r.cnt_error \in Nat
      BY <1>2, StreamFields
    <3>3. r.cnt_error - 0 <= r.packet_count - 0
      BY <2>1, <3>1 DEF FractionOK
    <3> QED BY <3>1, <3>2, <3>3
  <2>3. /\ Report(conf.sender, i).sender_packets = s.packet_count
        /\ Report(conf.sender, i).receiver_packets = r.packet_count
        /\ Report(conf.sender, i).lost = r.cnt_error
    <3>1. /\ Report(conf.sender, i).sender_packets = s.packet_count - s.omitted_packet_count
          /\ Report(conf.sender, i).receiver_packets = s.peer_packet_count - s.omitted_packet_count
          /\ Report(conf.sender, i).lost = s.cnt_error - s.omitted_cnt_error
      BY DEF Report
    <3> QED BY <2>1, <2>2, <3>1 DEF Agreed
  <2>4. Min({s.packet_count, r.packet_count}) = r.packet_count
    BY <2>2, MinMaxLemma
  <2> QED BY <2>2, <2>3, <2>4
<1>5. LossIsAFraction
  <2>1. ASSUME NEW i \in Stream, NEW k \in DOMAIN stream[Receiver][i].intervals
        PROVE  print_interval_results(Receiver, i, k).lost
                 <= print_interval_results(Receiver, i, k).packets
    <3>1. stream[Receiver][i].intervals[k].errors <= stream[Receiver][i].intervals[k].packets
      BY DEF ResultInv, FractionInv, FractionOK
    <3> QED BY <3>1 DEF print_interval_results
  <2>2. ASSUME NEW side \in Side, NEW i \in Stream,
               side = Receiver \/ (~conf.omit /\ test[side].state = "DISPLAY_RESULTS")
        PROVE  LET r == Report(side, i)
               IN  r.lost <= IF side = Receiver THEN r.receiver_packets
                             ELSE Min({r.sender_packets, r.receiver_packets})
    <3>1. CASE side = Receiver
      BY <1>3, <3>1
    <3>2. CASE side # Receiver
      <4>1. side = conf.sender /\ Shown(conf.sender) /\ ~conf.omit
        BY <1>1, <2>2, <3>2 DEF Shown
      <4> QED BY <1>1, <1>4, <4>1
    <3> QED BY <3>1, <3>2
  <2> QED BY <2>1, <2>2 DEF LossIsAFraction
<1>6. ReportsAgree
  <2> SUFFICES ASSUME \A side \in Side : test[side].state = "DISPLAY_RESULTS"
               PROVE  LET Same(f) == /\ Totals("c")[f] = Totals("s")[f]
                                     /\ \A i \in Stream : Report("c", i)[f] = Report("s", i)[f]
                      IN  /\ Same("bytes_sent") /\ Same("bytes_received")
                          /\ ~conf.omit => Same("sender_packets") /\ Same("receiver_packets") /\ Same("lost")
    BY DEF ReportsAgree
  <2> DEFINE Fields == {"bytes_sent", "bytes_received", "sender_packets", "receiver_packets", "lost"}
  <2>1. ASSUME NEW f \in Fields, \A i \in Stream : Report("c", i)[f] = Report("s", i)[f]
        PROVE  Totals("c")[f] = Totals("s")[f]
    <3>1. [i \in Stream |-> Report("c", i)[f]] = [i \in Stream |-> Report("s", i)[f]]
      BY <2>1
    <3>2. /\ Totals("c")[f] = SumFunction([i \in Stream |-> Report("c", i)[f]])
          /\ Totals("s")[f] = SumFunction([i \in Stream |-> Report("s", i)[f]])
      BY DEF Totals
    <3> QED BY <3>1, <3>2
  <2>2. ASSUME NEW i \in Stream
        PROVE  LET s == Report(conf.sender, i)
                   r == Report(Receiver, i)
               IN  /\ s.bytes_sent = r.bytes_sent /\ s.bytes_received = r.bytes_received
                   /\ ~conf.omit => /\ s.sender_packets = r.sender_packets
                                    /\ s.receiver_packets = r.receiver_packets
                                    /\ s.lost = r.lost
    <3> DEFINE s == stream[conf.sender][i]
               r == stream[Receiver][i]
    <3>1. Agreed(s, r)
      BY <1>1 DEF ResultInv, ShownInv, Shown
    <3>2. ~conf.omit => /\ s.omitted_packet_count = 0 /\ s.omitted_cnt_error = 0
                        /\ r.omitted_packet_count = 0 /\ r.omitted_cnt_error = 0
      BY <1>1 DEF ResultInv, NothingOmitted
    <3>3. /\ Report(conf.sender, i).bytes_sent = s.bytes_sent - s.bytes_sent_omit
          /\ Report(conf.sender, i).bytes_received = s.bytes_received
          /\ Report(conf.sender, i).sender_packets = s.packet_count - s.omitted_packet_count
          /\ Report(conf.sender, i).receiver_packets = s.peer_packet_count - s.omitted_packet_count
          /\ Report(conf.sender, i).lost = s.cnt_error - s.omitted_cnt_error
      BY DEF Report
    <3>4. /\ Report(Receiver, i).bytes_sent = r.bytes_sent - 0
          /\ Report(Receiver, i).bytes_received = r.bytes_received
          /\ Report(Receiver, i).sender_packets = r.peer_packet_count - r.omitted_packet_count
          /\ Report(Receiver, i).receiver_packets = r.packet_count - r.omitted_packet_count
          /\ Report(Receiver, i).lost = r.cnt_error - r.omitted_cnt_error
      BY <1>1, <1>2 DEF Report
    <3>5. r.bytes_sent \in Nat
      BY <1>2, StreamFields
    <3> QED BY <3>1, <3>2, <3>3, <3>4, <3>5 DEF Agreed
  <2>3. ASSUME NEW i \in Stream
        PROVE  /\ Report("c", i).bytes_sent = Report("s", i).bytes_sent
               /\ Report("c", i).bytes_received = Report("s", i).bytes_received
               /\ ~conf.omit => /\ Report("c", i).sender_packets = Report("s", i).sender_packets
                                /\ Report("c", i).receiver_packets = Report("s", i).receiver_packets
                                /\ Report("c", i).lost = Report("s", i).lost
    <3>1. CASE conf.sender = "c" /\ Receiver = "s"
      BY <2>2, <3>1
    <3>2. CASE conf.sender = "s" /\ Receiver = "c"
      BY <2>2, <3>2
    <3> QED BY <1>1, <3>1, <3>2
  <2> QED BY <2>1, <2>3
<1> QED BY <1>5, <1>6

\* The invariant of all results.
LEMMA ResultTheorem == Spec => [](LossIsAFraction /\ ReportsAgree)
<1>1. Init => TypeInv /\ LossInv /\ ResultInv
  BY TypeInit, LossInit, ResultInit
<1>2. TypeInv /\ LossInv /\ ResultInv /\ [Next]_vars => TypeInv' /\ LossInv' /\ ResultInv'
  BY TypeNext, LossNext, FractionNext, ShownNext, OmittedNext DEF ResultInv
<1>3. TypeInv /\ LossInv /\ ResultInv => LossIsAFraction /\ ReportsAgree
  BY ResultSafety
<1> QED BY <1>1, <1>2, <1>3, PTL DEF Spec

\* No loss of more than 100 % is shown.
THEOREM LossFractionTheorem == Spec => []LossIsAFraction
BY ResultTheorem, PTL

\* Both sides report the same test.
THEOREM ReportsTheorem == Spec => []ReportsAgree
BY ResultTheorem, PTL

=============================================================================
