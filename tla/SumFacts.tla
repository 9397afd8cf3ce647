------------------------------ MODULE SumFacts ------------------------------
(***************************************************************************)
(* Facts about SumFunctionOnSet for finite sets of indices, stated without *)
(* operator parameters.  Induction over finite sets is an argument about a *)
(* smallest counterexample, since strict inclusion is well-founded.        *)
(***************************************************************************)
EXTENDS Integers, FiniteSets, Functions, FiniteSetTheorems, WellFoundedInduction, TLAPS

\* Of some subsets of a finite set one has no other inside it.
LEMMA SmallestSubset ==
    ASSUME NEW S, IsFiniteSet(S), NEW Bad \in SUBSET (SUBSET S), Bad # {}
    PROVE  \E T \in Bad : \A U \in Bad : U \subseteq T => U = T
<1>1. Bad \subseteq FiniteSubsetsOf(S)
  BY FS_FiniteSubsetsOfFinite
<1>2. PICK T \in Bad : \A U \in Bad : <<U, T>> \notin StrictSubsetOrdering(S)
  BY <1>1, FS_StrictSubsetOrderingWellFounded, WFMin
<1> QED
  BY <1>2 DEF StrictSubsetOrdering

\* g adds up f over the subsets of S, an element at a time.
Pick(T) == CHOOSE x \in T : TRUE

Adds(g, f, S) ==
    g = [T \in SUBSET S |-> IF T = {} THEN 0 ELSE f[Pick(T)] + g[T \ {Pick(T)}]]

LEMMA SumUnfolds ==
    ASSUME NEW f, NEW S
    PROVE  SumFunctionOnSet(f, S) = (CHOOSE g : Adds(g, f, S))[S]
BY DEF SumFunctionOnSet, FoldFunctionOnSet, MapThenFoldSet, Adds, Pick

\* What adding up yields for a set does not depend on the set around it.
LEMMA AddsUnique ==
    ASSUME NEW f, NEW S, IsFiniteSet(S), NEW R \in SUBSET S,
           NEW g, Adds(g, f, S), NEW h, Adds(h, f, R)
    PROVE  \A T \in SUBSET R : g[T] = h[T]
<1> DEFINE Bad == {T \in SUBSET R : g[T] # h[T]}
<1> SUFFICES ASSUME Bad # {} PROVE FALSE
  OBVIOUS
<1>1. IsFiniteSet(R)
  BY FS_Subset
<1>2. PICK T \in Bad : \A U \in Bad : U \subseteq T => U = T
  <2> HIDE DEF Bad
  <2>1. Bad \in SUBSET (SUBSET R)
    BY DEF Bad
  <2> QED
    BY <1>1, <2>1, SmallestSubset
<1>3. T \in SUBSET S /\ T \in SUBSET R
  OBVIOUS
<1>4. g[T] = (IF T = {} THEN 0 ELSE f[Pick(T)] + g[T \ {Pick(T)}])
  BY <1>3 DEF Adds
<1>5. h[T] = (IF T = {} THEN 0 ELSE f[Pick(T)] + h[T \ {Pick(T)}])
  BY <1>3 DEF Adds
<1>6. CASE T = {}
  BY <1>4, <1>5, <1>6
<1>7. CASE T # {}
  <2>1. Pick(T) \in T
    BY <1>7 DEF Pick
  <2>2. T \ {Pick(T)} \notin Bad
    BY <1>2, <2>1
  <2>3. g[T \ {Pick(T)}] = h[T \ {Pick(T)}]
    BY <1>3, <2>2
  <2> QED
    BY <1>4, <1>5, <1>7, <2>3
<1> QED
  BY <1>6, <1>7

\* A finite set can be added up.
LEMMA AddsExists ==
    ASSUME NEW f, NEW S, IsFiniteSet(S)
    PROVE  \E g : Adds(g, f, S)
<1> DEFINE Bad == {T \in SUBSET S : ~\E g : Adds(g, f, T)}
<1> SUFFICES ASSUME Bad # {} PROVE FALSE
  OBVIOUS
<1>1. PICK T \in Bad : \A U \in Bad : U \subseteq T => U = T
  <2> HIDE DEF Bad
  <2>1. Bad \in SUBSET (SUBSET S)
    BY DEF Bad
  <2> QED
    BY <2>1, SmallestSubset
<1> DEFINE H(U) == CHOOSE g : Adds(g, f, U)
           Sum(U) == IF U = {} THEN 0 ELSE f[Pick(U)] + H(U \ {Pick(U)})[U \ {Pick(U)}]
           G == [U \in SUBSET T |-> Sum(U)]
<1>2. \A U \in SUBSET T : U # T => Adds(H(U), f, U)
  <2> SUFFICES ASSUME NEW U \in SUBSET T, U # T PROVE \E g : Adds(g, f, U)
    OBVIOUS
  <2> QED
    BY <1>1
<1>3. \A U \in SUBSET T : U # {} => U \ {Pick(U)} \in SUBSET T /\ U \ {Pick(U)} # T
                                    /\ Pick(U) \in U
  BY DEF Pick
<1>4. ASSUME NEW U \in SUBSET T, U # T
      PROVE  G[U] = H(U)[U]
  <2>1. Adds(H(U), f, U)
    BY <1>2, <1>4
  <2> HIDE DEF H
  <2>2. H(U)[U] = (IF U = {} THEN 0 ELSE f[Pick(U)] + H(U)[U \ {Pick(U)}])
    BY <2>1 DEF Adds
  <2>3. CASE U = {}
    BY <2>2, <2>3
  <2>4. CASE U # {}
    <3> DEFINE W == U \ {Pick(U)}
    <3>1. W \in SUBSET T /\ W # T /\ W \in SUBSET U
      BY <1>3, <2>4
    <3>2. Adds(H(W), f, W)
      BY <1>2, <3>1
    <3>3. IsFiniteSet(U)
      <4>1. U \in SUBSET S
        OBVIOUS
      <4> QED
        BY <4>1, FS_Subset
    <3> HIDE DEF W
    <3>4. H(U)[W] = H(W)[W]
      BY <2>1, <3>1, <3>2, <3>3, AddsUnique
    <3> QED
      BY <2>2, <2>4, <3>4 DEF W
  <2> QED
    BY <2>3, <2>4
<1>5. G = [U \in SUBSET T |-> IF U = {} THEN 0 ELSE f[Pick(U)] + G[U \ {Pick(U)}]]
  <2>1. ASSUME NEW U \in SUBSET T
        PROVE  Sum(U) = IF U = {} THEN 0 ELSE f[Pick(U)] + G[U \ {Pick(U)}]
    <3> HIDE DEF G, H
    <3> QED
      BY <1>3, <1>4
  <2>2. G = [U \in SUBSET T |-> Sum(U)]
    OBVIOUS
  <2> HIDE DEF G, Sum
  <2> QED
    BY <2>1, <2>2
<1>6. Adds(G, f, T)
  <2> HIDE DEF G
  <2> QED
    BY <1>5 DEF Adds
<1> HIDE DEF G
<1> QED
  BY <1>1, <1>6

-----------------------------------------------------------------------------
(* What a sum is *)

LEMMA SumEmpty ==
    ASSUME NEW f
    PROVE  SumFunctionOnSet(f, {}) = 0
<1>1. IsFiniteSet({})
  BY FS_EmptySet
<1>2. PICK g : Adds(g, f, {})
  BY <1>1, AddsExists
<1>3. Adds(CHOOSE h : Adds(h, f, {}), f, {})
  BY <1>2
<1>4. (CHOOSE h : Adds(h, f, {}))[{}] = 0
  BY <1>3 DEF Adds
<1> QED
  BY <1>4, SumUnfolds

\* The element that is taken out first.
LEMMA SumPick ==
    ASSUME NEW f, NEW S, IsFiniteSet(S), S # {}
    PROVE  /\ Pick(S) \in S
           /\ SumFunctionOnSet(f, S) = f[Pick(S)] + SumFunctionOnSet(f, S \ {Pick(S)})
<1> DEFINE g == CHOOSE h : Adds(h, f, S)
           W == S \ {Pick(S)}
           k == CHOOSE h : Adds(h, f, W)
<1>1. Pick(S) \in S
  BY DEF Pick
<1>2. IsFiniteSet(W) /\ W \in SUBSET S
  BY FS_Subset
<1>3. Adds(g, f, S)
  BY AddsExists
<1>4. Adds(k, f, W)
  BY <1>2, AddsExists
<1>5. SumFunctionOnSet(f, S) = g[S] /\ SumFunctionOnSet(f, W) = k[W]
  BY SumUnfolds
<1> HIDE DEF g, k
<1>6. g[S] = f[Pick(S)] + g[W]
  BY <1>3 DEF Adds
<1>7. g[W] = k[W]
  <2> HIDE DEF W
  <2> QED
    BY <1>2, <1>3, <1>4, AddsUnique
<1> QED
  BY <1>1, <1>5, <1>6, <1>7

\* A sum of integers is one.
LEMMA SumType ==
    ASSUME NEW f, NEW S, IsFiniteSet(S), \A x \in S : f[x] \in Int
    PROVE  SumFunctionOnSet(f, S) \in Int
<1> DEFINE Bad == {T \in SUBSET S : SumFunctionOnSet(f, T) \notin Int}
<1> SUFFICES ASSUME Bad # {} PROVE FALSE
  OBVIOUS
<1>1. PICK T \in Bad : \A U \in Bad : U \subseteq T => U = T
  <2> HIDE DEF Bad
  <2>1. Bad \in SUBSET (SUBSET S)
    BY DEF Bad
  <2> QED
    BY <2>1, SmallestSubset
<1>2. T # {} /\ IsFiniteSet(T)
  <2>1. SumFunctionOnSet(f, {}) \in Int
    BY SumEmpty
  <2>2. T \in SUBSET S
    OBVIOUS
  <2> QED
    BY <2>1, <2>2, FS_Subset
<1>3. /\ Pick(T) \in T
      /\ SumFunctionOnSet(f, T) = f[Pick(T)] + SumFunctionOnSet(f, T \ {Pick(T)})
  BY <1>2, SumPick
<1>4. SumFunctionOnSet(f, T \ {Pick(T)}) \in Int
  BY <1>1, <1>3
<1> QED
  BY <1>3, <1>4

\* Any element can be taken out of a sum.
LEMMA SumRemove ==
    ASSUME NEW f, NEW S, IsFiniteSet(S), \A x \in S : f[x] \in Int, NEW a \in S
    PROVE  SumFunctionOnSet(f, S) = f[a] + SumFunctionOnSet(f, S \ {a})
<1> DEFINE Sum(T) == SumFunctionOnSet(f, T)
           Bad == {T \in SUBSET S : \E x \in T : Sum(T) # f[x] + Sum(T \ {x})}
<1> SUFFICES ASSUME Bad # {} PROVE FALSE
  OBVIOUS
<1>1. PICK T \in Bad : \A U \in Bad : U \subseteq T => U = T
  <2> HIDE DEF Bad
  <2>1. Bad \in SUBSET (SUBSET S)
    BY DEF Bad
  <2> QED
    BY <2>1, SmallestSubset
<1>2. PICK x \in T : Sum(T) # f[x] + Sum(T \ {x})
  OBVIOUS
<1>3. IsFiniteSet(T) /\ T \in SUBSET S /\ T # {}
  BY FS_Subset
<1> DEFINE y == Pick(T)
           Both == (T \ {x}) \ {y}
<1>4. y \in T /\ Sum(T) = f[y] + Sum(T \ {y})
  BY <1>3, SumPick
<1>5. x # y
  BY <1>2, <1>4
<1>6. Sum(T \ {y}) = f[x] + Sum(Both)
  <2>1. T \ {y} \notin Bad
    BY <1>1, <1>4
  <2>2. x \in T \ {y} /\ T \ {y} \in SUBSET S /\ (T \ {y}) \ {x} = Both
    BY <1>3, <1>5
  <2> QED
    BY <2>1, <2>2
<1>7. Sum(T \ {x}) = f[y] + Sum(Both)
  <2>1. T \ {x} \notin Bad
    BY <1>1, <1>2
  <2>2. y \in T \ {x} /\ T \ {x} \in SUBSET S
    BY <1>3, <1>4, <1>5
  <2> QED
    BY <2>1, <2>2
<1>8. f[x] \in Int /\ f[y] \in Int /\ Sum(Both) \in Int
  <2>1. IsFiniteSet(Both) /\ Both \in SUBSET S
    BY <1>3, FS_Subset
  <2>2. \A z \in Both : f[z] \in Int
    BY <2>1
  <2> QED
    BY <1>3, <1>4, <2>1, <2>2, SumType
<1> HIDE DEF Both, y, Sum
<1> QED
  BY <1>2, <1>4, <1>6, <1>7, <1>8

LEMMA SumAdd ==
    ASSUME NEW f, NEW S, IsFiniteSet(S), NEW a, a \notin S,
           \A x \in S \cup {a} : f[x] \in Int
    PROVE  SumFunctionOnSet(f, S \cup {a}) = SumFunctionOnSet(f, S) + f[a]
<1>1. IsFiniteSet(S \cup {a}) /\ a \in S \cup {a}
  BY FS_AddElement
<1>2. (S \cup {a}) \ {a} = S
  OBVIOUS
<1>3. SumFunctionOnSet(f, S \cup {a}) = f[a] + SumFunctionOnSet(f, S)
  BY <1>1, <1>2, SumRemove
<1>4. SumFunctionOnSet(f, S) \in Int /\ f[a] \in Int
  BY SumType
<1> QED
  BY <1>3, <1>4

\* Functions that agree on a set have the same sum over it.
LEMMA SumAgree ==
    ASSUME NEW f, NEW g, NEW S, IsFiniteSet(S), \A x \in S : f[x] = g[x]
    PROVE  SumFunctionOnSet(f, S) = SumFunctionOnSet(g, S)
<1> DEFINE Bad == {T \in SUBSET S : SumFunctionOnSet(f, T) # SumFunctionOnSet(g, T)}
<1> SUFFICES ASSUME Bad # {} PROVE FALSE
  OBVIOUS
<1>1. PICK T \in Bad : \A U \in Bad : U \subseteq T => U = T
  <2> HIDE DEF Bad
  <2>1. Bad \in SUBSET (SUBSET S)
    BY DEF Bad
  <2> QED
    BY <2>1, SmallestSubset
<1>2. T # {} /\ IsFiniteSet(T)
  BY SumEmpty, FS_Subset
<1>3. /\ Pick(T) \in T
      /\ SumFunctionOnSet(f, T) = f[Pick(T)] + SumFunctionOnSet(f, T \ {Pick(T)})
      /\ SumFunctionOnSet(g, T) = g[Pick(T)] + SumFunctionOnSet(g, T \ {Pick(T)})
  BY <1>2, SumPick
<1>4. SumFunctionOnSet(f, T \ {Pick(T)}) = SumFunctionOnSet(g, T \ {Pick(T)})
  BY <1>1, <1>3
<1> QED
  BY <1>3, <1>4

LEMMA SumZero ==
    ASSUME NEW f, NEW S, IsFiniteSet(S), \A x \in S : f[x] = 0
    PROVE  SumFunctionOnSet(f, S) = 0
<1> DEFINE Bad == {T \in SUBSET S : SumFunctionOnSet(f, T) # 0}
<1> SUFFICES ASSUME Bad # {} PROVE FALSE
  OBVIOUS
<1>1. PICK T \in Bad : \A U \in Bad : U \subseteq T => U = T
  <2> HIDE DEF Bad
  <2>1. Bad \in SUBSET (SUBSET S)
    BY DEF Bad
  <2> QED
    BY <2>1, SmallestSubset
<1>2. T # {} /\ IsFiniteSet(T)
  BY SumEmpty, FS_Subset
<1>3. /\ Pick(T) \in T
      /\ SumFunctionOnSet(f, T) = f[Pick(T)] + SumFunctionOnSet(f, T \ {Pick(T)})
  BY <1>2, SumPick
<1>4. SumFunctionOnSet(f, T \ {Pick(T)}) = 0
  BY <1>1, <1>3
<1> QED
  BY <1>3, <1>4

\* What is added at one index is added to the sum.
LEMMA SumRaise ==
    ASSUME NEW f, NEW g, NEW S, IsFiniteSet(S), NEW a \in S, NEW d \in Int,
           \A x \in S : f[x] \in Int, g[a] = f[a] + d, \A x \in S \ {a} : g[x] = f[x]
    PROVE  SumFunctionOnSet(g, S) = SumFunctionOnSet(f, S) + d
<1> DEFINE R == S \ {a}
<1>1. IsFiniteSet(R) /\ R \in SUBSET S
  BY FS_Subset
<1>2. \A x \in S : g[x] \in Int
  OBVIOUS
<1>3. /\ SumFunctionOnSet(f, S) = f[a] + SumFunctionOnSet(f, R)
      /\ SumFunctionOnSet(g, S) = g[a] + SumFunctionOnSet(g, R)
  BY <1>2, SumRemove
<1>4. \A x \in R : f[x] \in Int /\ g[x] = f[x]
  BY <1>1
<1> HIDE DEF R
<1>5. SumFunctionOnSet(g, R) = SumFunctionOnSet(f, R)
  BY <1>1, <1>4, SumAgree
<1>6. SumFunctionOnSet(f, R) \in Int
  BY <1>1, <1>4, SumType
<1> QED
  BY <1>3, <1>5, <1>6

\* A sum over two disjoint sets is that of the sums over each.
LEMMA SumUnion ==
    ASSUME NEW f, NEW A, NEW B, IsFiniteSet(A), IsFiniteSet(B), A \cap B = {},
           \A x \in A \cup B : f[x] \in Int
    PROVE  SumFunctionOnSet(f, A \cup B) = SumFunctionOnSet(f, A) + SumFunctionOnSet(f, B)
<1> DEFINE Sum(T) == SumFunctionOnSet(f, T)
           Bad == {T \in SUBSET B : Sum(A \cup T) # Sum(A) + Sum(T)}
<1> SUFFICES ASSUME Bad # {} PROVE FALSE
  OBVIOUS
<1>1. PICK T \in Bad : \A U \in Bad : U \subseteq T => U = T
  <2> HIDE DEF Bad
  <2>1. Bad \in SUBSET (SUBSET B)
    BY DEF Bad
  <2> QED
    BY <2>1, SmallestSubset
<1>2. Sum(A) \in Int
  BY SumType
<1>3. T # {}
  <2> SUFFICES ASSUME T = {} PROVE FALSE
    OBVIOUS
  <2>1. Sum(T) = 0
    BY SumEmpty
  <2>2. A \cup T = A
    OBVIOUS
  <2>3. Sum(A \cup T) = Sum(A)
    BY <2>2
  <2>4. Sum(A \cup T) # Sum(A) + Sum(T)
    BY <1>1
  <2> HIDE DEF Sum
  <2> QED
    BY <1>2, <2>1, <2>3, <2>4
<1>4. PICK x \in T : TRUE
  BY <1>3
<1> DEFINE U == T \ {x}
<1>5. U \in SUBSET B /\ IsFiniteSet(U) /\ x \notin U /\ T = U \cup {x}
  BY FS_Subset
<1>6. IsFiniteSet(A \cup U) /\ x \notin A \cup U /\ A \cup T = (A \cup U) \cup {x}
  BY <1>5, FS_Union
<1>7. /\ \A y \in (A \cup U) \cup {x} : f[y] \in Int
      /\ \A y \in U \cup {x} : f[y] \in Int
      /\ f[x] \in Int
  BY <1>5
<1>8. Sum(A \cup U) = Sum(A) + Sum(U)
  BY <1>1, <1>4, <1>5
<1> HIDE DEF U
<1>9. Sum(A \cup T) = Sum(A \cup U) + f[x] /\ Sum(T) = Sum(U) + f[x]
  BY <1>5, <1>6, <1>7, SumAdd
<1>10. Sum(U) \in Int
  BY <1>5, <1>7, SumType
<1>11. Sum(A \cup T) # Sum(A) + Sum(T)
  BY <1>1
<1> HIDE DEF Sum
<1> QED
  BY <1>2, <1>7, <1>8, <1>9, <1>10, <1>11

LEMMA SumNegate ==
    ASSUME NEW f, NEW g, NEW S, IsFiniteSet(S), \A x \in S : f[x] \in Int /\ g[x] = -f[x]
    PROVE  SumFunctionOnSet(g, S) = -SumFunctionOnSet(f, S)
<1> DEFINE Bad == {T \in SUBSET S : SumFunctionOnSet(g, T) # -SumFunctionOnSet(f, T)}
<1> SUFFICES ASSUME Bad # {} PROVE FALSE
  OBVIOUS
<1>1. PICK T \in Bad : \A U \in Bad : U \subseteq T => U = T
  <2> HIDE DEF Bad
  <2>1. Bad \in SUBSET (SUBSET S)
    BY DEF Bad
  <2> QED
    BY <2>1, SmallestSubset
<1>2. T \in SUBSET S /\ T # {} /\ IsFiniteSet(T)
  <2>1. T \in SUBSET S /\ IsFiniteSet(T)
    BY FS_Subset
  <2>2. T # {}
    <3> SUFFICES ASSUME T = {} PROVE FALSE
      OBVIOUS
    <3>1. SumFunctionOnSet(f, T) = 0 /\ SumFunctionOnSet(g, T) = 0
      BY SumEmpty
    <3>2. SumFunctionOnSet(g, T) # -SumFunctionOnSet(f, T)
      BY <1>1
    <3> QED
      BY <3>1, <3>2
  <2> QED
    BY <2>1, <2>2
<1> DEFINE U == T \ {Pick(T)}
<1>3. /\ Pick(T) \in T
      /\ SumFunctionOnSet(f, T) = f[Pick(T)] + SumFunctionOnSet(f, U)
      /\ SumFunctionOnSet(g, T) = g[Pick(T)] + SumFunctionOnSet(g, U)
  BY <1>2, SumPick
<1>4. SumFunctionOnSet(g, U) = -SumFunctionOnSet(f, U)
  BY <1>1, <1>3
<1>5. f[Pick(T)] \in Int /\ g[Pick(T)] = -f[Pick(T)]
  BY <1>2, <1>3
<1>6. SumFunctionOnSet(f, U) \in Int
  <2>1. IsFiniteSet(U) /\ \A x \in U : f[x] \in Int
    BY <1>2, FS_Subset
  <2> HIDE DEF U
  <2> QED
    BY <2>1, SumType
<1>7. SumFunctionOnSet(g, T) # -SumFunctionOnSet(f, T)
  BY <1>1
<1> HIDE DEF U
<1> QED
  BY <1>3, <1>4, <1>5, <1>6, <1>7

\* The moves d, each at an index of its own, lead from f to g.
Moves(f, g, S, at, d, I) ==
    /\ IsFiniteSet(S)
    /\ IsFiniteSet(I)
    /\ at \in [I -> S]
    /\ d \in [I -> Int]
    /\ \A i, j \in I : at[i] = at[j] => i = j
    /\ \A x \in S : f[x] \in Int
    /\ \A i \in I : g[at[i]] = f[at[i]] + d[i]
    /\ \A x \in S : (\A i \in I : at[i] # x) => g[x] = f[x]

\* Moves at different indices add up: what they add to the sum is their sum.
LEMMA SumMoves ==
    ASSUME NEW f, NEW g, NEW S, NEW at, NEW d, NEW I, Moves(f, g, S, at, d, I)
    PROVE  SumFunctionOnSet(g, S) = SumFunctionOnSet(f, S) + SumFunctionOnSet(d, I)
<1> USE DEF Moves
<1> DEFINE After(T) == [x \in S |-> IF \E i \in T : at[i] = x THEN g[x] ELSE f[x]]
           Base == SumFunctionOnSet(f, S)
           Bad == {T \in SUBSET I :
                     SumFunctionOnSet(After(T), S) # Base + SumFunctionOnSet(d, T)}
<1>1. Base \in Int
  BY SumType
<1>2. Bad = {}
  <2> SUFFICES ASSUME Bad # {} PROVE FALSE
    OBVIOUS
  <2>1. PICK T \in Bad : \A U \in Bad : U \subseteq T => U = T
    <3> HIDE DEF Bad
    <3>1. Bad \in SUBSET (SUBSET I)
      BY DEF Bad
    <3> QED
      BY <3>1, SmallestSubset
  <2>2. T \in SUBSET I /\ SumFunctionOnSet(After(T), S) # Base + SumFunctionOnSet(d, T)
    OBVIOUS
  <2>3. T # {}
    <3> SUFFICES ASSUME T = {} PROVE FALSE
      OBVIOUS
    <3>1. \A x \in S : After(T)[x] = f[x]
      OBVIOUS
    <3> HIDE DEF Bad
    <3>2. SumFunctionOnSet(d, T) = 0
      BY SumEmpty
    <3> HIDE DEF After
    <3>3. SumFunctionOnSet(After(T), S) = Base
      BY <3>1, SumAgree
    <3> HIDE DEF Base
    <3> QED
      BY <1>1, <2>2, <3>2, <3>3
  <2>4. PICK i \in T : TRUE
    BY <2>3
  <2> DEFINE U == T \ {i}
  <2>5. U \in SUBSET I /\ IsFiniteSet(U) /\ i \notin U /\ T = U \cup {i} /\ i \in I
    BY <2>2, FS_Subset
  <2>6. U \notin Bad
    BY <2>1, <2>4, <2>5
  <2>7. SumFunctionOnSet(After(U), S) = Base + SumFunctionOnSet(d, U)
    BY <2>5, <2>6
  <2> HIDE DEF U, Bad, Base
  <2>8. SumFunctionOnSet(After(T), S) = SumFunctionOnSet(After(U), S) + d[i]
    <3>1. at[i] \in S /\ d[i] \in Int
      BY <2>5
    <3>2. After(U)[at[i]] = f[at[i]] /\ After(T)[at[i]] = f[at[i]] + d[i]
      BY <2>5, <3>1
    <3>3. \A x \in S \ {at[i]} : After(T)[x] = After(U)[x]
      BY <2>5
    <3>4. \A x \in S : After(U)[x] \in Int
      <4>1. ASSUME NEW x \in S, NEW j \in U, at[j] = x PROVE g[x] \in Int
        BY <2>5, <4>1
      <4> QED
        BY <4>1
    <3> HIDE DEF After
    <3> QED
      BY <3>1, <3>2, <3>3, <3>4, SumRaise
  <2>9. SumFunctionOnSet(d, T) = SumFunctionOnSet(d, U) + d[i]
    <3>1. \A j \in U \cup {i} : d[j] \in Int
      BY <2>5
    <3> QED
      BY <2>5, <3>1, SumAdd
  <2>10. SumFunctionOnSet(d, U) \in Int /\ d[i] \in Int
    <3>1. \A j \in U : d[j] \in Int
      BY <2>5
    <3> QED
      BY <2>5, <3>1, SumType
  <2> HIDE DEF After
  <2> QED
    BY <1>1, <2>2, <2>7, <2>8, <2>9, <2>10
<1>3. SumFunctionOnSet(After(I), S) = Base + SumFunctionOnSet(d, I)
  BY <1>2
<1>4. \A x \in S : After(I)[x] = g[x]
  OBVIOUS
<1> HIDE DEF After
<1>5. SumFunctionOnSet(After(I), S) = SumFunctionOnSet(g, S)
  BY <1>4, SumAgree
<1> QED
  BY <1>3, <1>5
=============================================================================
