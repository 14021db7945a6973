---------------------------- MODULE CorporaProofs ----------------------------
(***************************************************************************)
(* Proofs about the labels the models are judged and trained by.  The human*)
(* review of verdicts (Labelling), for any sessions, classes and sample    *)
(* sizes: the numbers the report prints, too.  The re-identification corpus*)
(* (RealCorpus), for any sessions, addresses, credentials, minimum of      *)
(* sessions and length of the word list.                                   *)
(***************************************************************************)
EXTENDS RealCorpus, Labelling, FiniteSetTheorems, FunctionTheorems, SequenceTheorems, TLAPS

-----------------------------------------------------------------------------
(* Numbers, induction and sums *)

\* A set of numbers has a least element: initial segments are finite, and finite
\* sets are well-founded under strict inclusion.
LEMMA LeastNumber ==
    ASSUME NEW T \in SUBSET Nat, T # {}
    PROVE  \E x \in T : \A y \in T : x <= y
  <1> DEFINE U == {0 .. n : n \in T}
             R == StrictSubsetOrdering(Nat)
  <1>1. U \subseteq FiniteSubsetsOf(Nat)
    <2> SUFFICES ASSUME NEW n \in T PROVE 0 .. n \in FiniteSubsetsOf(Nat)
      OBVIOUS
    <2>1. n \in Int /\ IsFiniteSet(0 .. n)
      BY FS_Interval
    <2> QED BY <2>1 DEF FiniteSubsetsOf
  <1>2. U # {}
    OBVIOUS
  <1>3. IsWellFoundedOn(R, FiniteSubsetsOf(Nat))
    BY FS_StrictSubsetOrderingWellFounded
  <1>4. PICK u \in U : \A v \in U : ~(<<v, u>> \in R)
    <2> HIDE DEF U, R
    <2> QED BY <1>1, <1>2, <1>3, WFMin
  <1>5. PICK x \in T : u = 0 .. x
    OBVIOUS
  <1>6. ASSUME NEW y \in T, y < x PROVE FALSE
    <2>1. 0 .. y \subseteq 0 .. x /\ x \in 0 .. x /\ x \notin 0 .. y
      BY <1>6
    <2>2. 0 .. y \in SUBSET Nat /\ 0 .. x \in SUBSET Nat
      OBVIOUS
    <2>3. <<0 .. y, 0 .. x>> \in R
      BY <2>1, <2>2 DEF StrictSubsetOrdering
    <2> QED BY <1>4, <1>5, <2>3
  <1> QED BY <1>6

\* Induction, for a set of numbers.
LEMMA Induction ==
    ASSUME NEW S, 0 \in S, \A n \in Nat : n \in S => n + 1 \in S
    PROVE  Nat \subseteq S
  <1> DEFINE T == Nat \ S
  <1> SUFFICES ASSUME T # {} PROVE FALSE
    OBVIOUS
  <1>1. PICK x \in T : \A y \in T : x <= y
    <2> HIDE DEF T
    <2>1. T \in SUBSET Nat
      BY DEF T
    <2> QED BY <2>1, LeastNumber
  <1>2. x # 0 /\ x - 1 \in Nat /\ x - 1 < x /\ (x - 1) + 1 = x
    OBVIOUS
  <1>3. x - 1 \in S
    BY <1>1, <1>2
  <1> QED BY <1>2, <1>3

\* Induction over the subsets of a finite set, for a set of them.
LEMMA SubsetInduction ==
    ASSUME NEW S, IsFiniteSet(S), NEW P, {} \in P,
           \A T \in SUBSET S : T \in P => \A x \in S \ T : T \cup {x} \in P
    PROVE  \A T \in SUBSET S : T \in P
  <1> DEFINE N == {n \in Nat : \A T \in SUBSET S : Cardinality(T) = n => T \in P}
  <1>1. 0 \in N
    BY FS_Subset, FS_EmptySet
  <1>2. ASSUME NEW n \in Nat, n \in N PROVE n + 1 \in N
    <2> SUFFICES ASSUME NEW T \in SUBSET S, Cardinality(T) = n + 1 PROVE T \in P
      OBVIOUS
    <2>1. IsFiniteSet(T)
      BY FS_Subset
    <2>2. T # {}
      BY <2>1, FS_EmptySet
    <2>3. PICK x \in T : TRUE
      BY <2>2
    <2>4. IsFiniteSet(T \ {x}) /\ Cardinality(T \ {x}) = Cardinality(T) - 1
      BY <2>1, FS_RemoveElement
    <2>5. T \ {x} \in P
      BY <1>2, <2>4
    <2>6. x \in S \ (T \ {x}) /\ (T \ {x}) \cup {x} = T /\ T \ {x} \in SUBSET S
      OBVIOUS
    <2> QED BY <2>5, <2>6
  <1>3. Nat \subseteq N
    <2> HIDE DEF N
    <2> QED BY <1>1, <1>2, Induction
  <1> SUFFICES ASSUME NEW T \in SUBSET S PROVE T \in P
    OBVIOUS
  <1>4. Cardinality(T) \in Nat
    BY FS_Subset, FS_CardinalityType
  <1> QED BY <1>3, <1>4

-----------------------------------------------------------------------------
(* Sums *)

\* The element a fold takes next.
Taken(T) == CHOOSE x \in T : TRUE

\* F sums f over every subset of S.
Adds(f, F, S) ==
    F = [T \in SUBSET S |-> IF T = {} THEN 0 ELSE f[Taken(T)] + F[T \ {Taken(T)}]]

\* What is taken is an element.
LEMMA TakenIsIn == ASSUME NEW T, T # {} PROVE Taken(T) \in T
  BY DEF Taken

\* There is such a function.
LEMMA AddsExists ==
    ASSUME NEW S, IsFiniteSet(S), NEW f, \A x \in S : f[x] \in Nat
    PROVE  \E F : F \in [SUBSET S -> Nat] /\ Adds(f, F, S)
  <1> DEFINE step(F, T) == IF T = {} THEN 0 ELSE f[Taken(T)] + F[T \ {Taken(T)}]
             N == {n \in Nat : \E F \in [SUBSET S -> Nat] : \A T \in SUBSET S : Cardinality(T) <= n => F[T] = step(F, T)}
  <1>0. ASSUME NEW T \in SUBSET S PROVE /\ IsFiniteSet(T) /\ Cardinality(T) \in Nat
                                        /\ T = {} \/ /\ Taken(T) \in S /\ T \ {Taken(T)} \in SUBSET S
                                                     /\ Cardinality(T \ {Taken(T)}) = Cardinality(T) - 1
    <2>1. IsFiniteSet(T) /\ Cardinality(T) \in Nat
      BY FS_Subset, FS_CardinalityType
    <2>2. CASE T # {}
      BY <2>1, <2>2, TakenIsIn, FS_RemoveElement
    <2> QED BY <2>1, <2>2
  <1>1. 0 \in N
    <2> DEFINE F == [T \in SUBSET S |-> 0]
    <2>1. F \in [SUBSET S -> Nat]
      OBVIOUS
    <2>2. ASSUME NEW T \in SUBSET S, Cardinality(T) <= 0 PROVE F[T] = step(F, T)
      BY <1>0, <2>2, FS_EmptySet
    <2> QED BY <2>1, <2>2
  <1>2. ASSUME NEW n \in Nat, n \in N PROVE n + 1 \in N
    <2>1. PICK F \in [SUBSET S -> Nat] : \A T \in SUBSET S : Cardinality(T) <= n => F[T] = step(F, T)
      BY <1>2
    <2> DEFINE G == [T \in SUBSET S |-> step(F, T)]
    <2>2. ASSUME NEW T \in SUBSET S PROVE step(F, T) \in Nat
      <3>1. CASE T = {}
        BY <3>1
      <3>2. CASE T # {}
        <4>1. f[Taken(T)] \in Nat /\ F[T \ {Taken(T)}] \in Nat
          BY <1>0, <3>2
        <4> QED BY <3>2, <4>1
      <3> QED BY <3>1, <3>2
    <2>3. G \in [SUBSET S -> Nat]
      BY <2>2
    <2>4. ASSUME NEW T \in SUBSET S, Cardinality(T) <= n + 1 PROVE G[T] = step(G, T)
      <3>1. CASE T = {}
        BY <3>1
      <3>2. CASE T # {}
        <4> DEFINE R == T \ {Taken(T)}
        <4>1. R \in SUBSET S /\ Cardinality(R) = Cardinality(T) - 1 /\ Cardinality(T) \in Nat
          BY <1>0, <3>2
        <4>1a. Cardinality(R) <= n
          BY <2>4, <4>1
        <4>2. F[R] = step(F, R)
          BY <2>1, <4>1, <4>1a
        <4>3. G[R] = step(F, R)
          BY <4>1
        <4> QED BY <3>2, <4>2, <4>3
      <3> QED BY <3>1, <3>2
    <2> HIDE DEF G, step
    <2> QED BY <2>3, <2>4
  <1>3. Nat \subseteq N
    <2> HIDE DEF N
    <2> QED BY <1>1, <1>2, Induction
  <1>4. Cardinality(S) \in N
    BY <1>3, FS_CardinalityType
  <1>5. PICK F \in [SUBSET S -> Nat] : \A T \in SUBSET S : Cardinality(T) <= Cardinality(S) => F[T] = step(F, T)
    BY <1>4
  <1>6. ASSUME NEW T \in SUBSET S PROVE F[T] = step(F, T)
    BY <1>5, FS_Subset
  <1>7. F = [T \in SUBSET S |-> step(F, T)]
    <2> HIDE DEF step
    <2> QED BY <1>6
  <1> QED BY <1>7 DEF Adds

\* A sum over a set is the value of any such function.
LEMMA AddsIsSum ==
    ASSUME NEW S, IsFiniteSet(S), NEW f, \A x \in S : f[x] \in Nat,
           NEW F \in [SUBSET S -> Nat], Adds(f, F, S)
    PROVE  \A T \in SUBSET S : SumFunctionOnSet(f, T) = F[T]
  <1> SUFFICES ASSUME NEW T \in SUBSET S PROVE SumFunctionOnSet(f, T) = F[T]
    OBVIOUS
  <1> DEFINE G == CHOOSE G : Adds(f, G, T)
  <1>1. SumFunctionOnSet(f, T) = G[T]
    BY DEF SumFunctionOnSet, FoldFunctionOnSet, MapThenFoldSet, Adds, Taken
  <1>2. IsFiniteSet(T)
    BY FS_Subset
  <1>3. Adds(f, G, T)
    BY <1>2, AddsExists
  <1> HIDE DEF G
  <1> DEFINE P == {U \in SUBSET T : G[U] = F[U]}
             N == {n \in Nat : \A U \in SUBSET T : Cardinality(U) = n => G[U] = F[U]}
  <1>4. ASSUME NEW U \in SUBSET T, U # {}
        PROVE  /\ G[U] = f[Taken(U)] + G[U \ {Taken(U)}] 
               /\ F[U] = f[Taken(U)] + F[U \ {Taken(U)}]
    BY <1>3, <1>4 DEF Adds
  <1>5. G[{}] = 0 /\ F[{}] = 0
    BY <1>3 DEF Adds
  <1>6. 0 \in N
    BY <1>2, <1>5, FS_Subset, FS_EmptySet
  <1>7. ASSUME NEW n \in Nat, n \in N PROVE n + 1 \in N
    <2> SUFFICES ASSUME NEW U \in SUBSET T, Cardinality(U) = n + 1 PROVE G[U] = F[U]
      OBVIOUS
    <2>1. IsFiniteSet(U) /\ U # {}
      BY <1>2, FS_Subset, FS_EmptySet
    <2>2. Cardinality(U \ {Taken(U)}) = Cardinality(U) - 1 /\ U \ {Taken(U)} \in SUBSET T
      BY <2>1, TakenIsIn, FS_RemoveElement
    <2>3. Cardinality(U \ {Taken(U)}) = n
      BY <2>2
    <2> QED BY <1>4, <1>7, <2>1, <2>2, <2>3
  <1>8. Nat \subseteq N
    <2> HIDE DEF N
    <2> QED BY <1>6, <1>7, Induction
  <1>9. Cardinality(T) \in N
    BY <1>2, <1>8, FS_CardinalityType
  <1> QED BY <1>1, <1>9

\* Sums are taken one element after the other, in any order.
LEMMA SumAdd ==
    ASSUME NEW S, IsFiniteSet(S), NEW f, \A x \in S : f[x] \in Nat
    PROVE  /\ SumFunctionOnSet(f, {}) = 0
           /\ \A T \in SUBSET S : SumFunctionOnSet(f, T) \in Nat
           /\ \A T \in SUBSET S : \A x \in S \ T : SumFunctionOnSet(f, T \cup {x}) = f[x] + SumFunctionOnSet(f, T)
  <1>1. PICK F : F \in [SUBSET S -> Nat] /\ Adds(f, F, S)
    BY AddsExists
  <1>2. \A T \in SUBSET S : SumFunctionOnSet(f, T) = F[T]
    BY <1>1, AddsIsSum
  <1>3. F[{}] = 0
    BY <1>1 DEF Adds
  <1>4. ASSUME NEW U \in SUBSET S, U # {}
        PROVE  F[U] = f[Taken(U)] + F[U \ {Taken(U)}]
    BY <1>1, <1>4 DEF Adds
  <1> DEFINE P == {U \in SUBSET S : \A x \in U : F[U] = f[x] + F[U \ {x}]}
             N == {n \in Nat : \A U \in SUBSET S : Cardinality(U) = n => \A x \in U : F[U] = f[x] + F[U \ {x}]}
  <1>5. 0 \in N
    BY FS_Subset, FS_EmptySet
  <1>6. ASSUME NEW n \in Nat, n \in N PROVE n + 1 \in N
    <2> SUFFICES ASSUME NEW U \in SUBSET S, Cardinality(U) = n + 1, NEW x \in U PROVE F[U] = f[x] + F[U \ {x}]
      OBVIOUS
    <2>1. IsFiniteSet(U) /\ Taken(U) \in U
      BY FS_Subset, TakenIsIn
    <2> DEFINE y == Taken(U)
    <2>2. F[U] = f[y] + F[U \ {y}]
      BY <1>4
    <2>3. CASE x = y
      BY <2>2, <2>3
    <2>4. CASE x # y
      <3>0. Cardinality(U \ {x}) = Cardinality(U) - 1 /\ Cardinality(U \ {y}) = Cardinality(U) - 1
        BY <2>1, FS_RemoveElement
      <3>1. Cardinality(U \ {x}) = n /\ Cardinality(U \ {y}) = n
        BY <3>0
      <3>2. F[U \ {y}] = f[x] + F[(U \ {y}) \ {x}]
        BY <1>6, <2>4, <3>1
      <3>3. F[U \ {x}] = f[y] + F[(U \ {x}) \ {y}]
        BY <1>6, <2>1, <2>4, <3>1
      <3>4. (U \ {x}) \ {y} = (U \ {y}) \ {x}
        OBVIOUS
      <3>5. f[x] \in Nat /\ f[y] \in Nat /\ F[(U \ {y}) \ {x}] \in Nat
        BY <1>1, <2>1
      <3>6. F[U] = f[y] + (f[x] + F[(U \ {y}) \ {x}]) /\ F[U \ {x}] = f[y] + F[(U \ {y}) \ {x}]
        BY <2>2, <3>2, <3>3, <3>4
      <3> HIDE DEF y
      <3>7. \A i, j, k \in Nat : i + (j + k) = j + (i + k)
        OBVIOUS
      <3> QED BY <3>5, <3>6, <3>7
    <2> QED BY <2>3, <2>4
  <1>7. Nat \subseteq N
    <2> HIDE DEF N
    <2> QED BY <1>5, <1>6, Induction
  <1>8. ASSUME NEW T \in SUBSET S, NEW x \in S \ T PROVE F[T \cup {x}] = f[x] + F[T]
    <2>1. IsFiniteSet(T \cup {x}) /\ Cardinality(T \cup {x}) \in Nat
      BY FS_Subset, FS_CardinalityType
    <2>2. (T \cup {x}) \ {x} = T /\ T \cup {x} \in SUBSET S /\ x \in T \cup {x}
      OBVIOUS
    <2>3. Cardinality(T \cup {x}) \in N
      BY <1>7, <2>1
    <2> QED BY <2>2, <2>3
  <1>9. {} \in SUBSET S
    OBVIOUS
  <1> QED BY <1>1, <1>2, <1>3, <1>8, <1>9

\* Comparing sums.
LEMMA SumLeq ==
    ASSUME NEW S, IsFiniteSet(S), NEW f, NEW g, \A x \in S : f[x] \in Nat /\ g[x] \in Nat /\ f[x] <= g[x]
    PROVE  \A T \in SUBSET S : SumFunctionOnSet(f, T) <= SumFunctionOnSet(g, T)
  <1> DEFINE P == {T \in SUBSET S : SumFunctionOnSet(f, T) <= SumFunctionOnSet(g, T)}
  <1>1. {} \in P
    BY SumAdd
  <1>2. ASSUME NEW T \in SUBSET S, T \in P, NEW x \in S \ T PROVE T \cup {x} \in P
    <2>1. /\ SumFunctionOnSet(f, T) \in Nat /\ SumFunctionOnSet(f, T \cup {x}) = f[x] + SumFunctionOnSet(f, T)
          /\ SumFunctionOnSet(g, T) \in Nat /\ SumFunctionOnSet(g, T \cup {x}) = g[x] + SumFunctionOnSet(g, T)
      BY SumAdd
    <2> QED BY <1>2, <2>1
  <1>3. \A T \in SUBSET S : T \in P
    <2> HIDE DEF P
    <2> QED BY <1>1, <1>2, SubsetInduction
  <1> QED BY <1>3

\* One element may be set apart.
LEMMA SumWithout ==
    ASSUME NEW S, IsFiniteSet(S), NEW f, \A x \in S : f[x] \in Nat, NEW x \in S
    PROVE  /\ SumFunctionOnSet(f, S) = f[x] + SumFunctionOnSet(f, S \ {x})
           /\ SumFunctionOnSet(f, S \ {x}) \in Nat
           /\ SumFunctionOnSet(f, S) \in Nat
  <1> DEFINE R == S \ {x}
  <1>1. R \in SUBSET S /\ x \in S \ R /\ R \cup {x} = S /\ S \in SUBSET S
    OBVIOUS
  <1>2. /\ SumFunctionOnSet(f, R \cup {x}) = f[x] + SumFunctionOnSet(f, R)
        /\ SumFunctionOnSet(f, R) \in Nat /\ SumFunctionOnSet(f, S) \in Nat
    <2> HIDE DEF R
    <2> QED BY <1>1, SumAdd
  <1> QED BY <1>1, <1>2

\* If every term is at most another and one is less, the sum is less.
LEMMA SumLess ==
    ASSUME NEW S, IsFiniteSet(S), NEW f, NEW g, \A x \in S : f[x] \in Nat /\ g[x] \in Nat /\ f[x] <= g[x],
           NEW x \in S, f[x] < g[x]
    PROVE  SumFunctionOnSet(f, S) < SumFunctionOnSet(g, S)
  <1>1. S \ {x} \in SUBSET S
    OBVIOUS
  <1>2. SumFunctionOnSet(f, S \ {x}) <= SumFunctionOnSet(g, S \ {x})
    BY <1>1, SumLeq
  <1>3. /\ SumFunctionOnSet(f, S) = f[x] + SumFunctionOnSet(f, S \ {x}) /\ SumFunctionOnSet(f, S \ {x}) \in Nat
        /\ SumFunctionOnSet(g, S) = g[x] + SumFunctionOnSet(g, S \ {x}) /\ SumFunctionOnSet(g, S \ {x}) \in Nat
    BY SumWithout
  <1>4. f[x] \in Nat /\ g[x] \in Nat
    OBVIOUS
  <1> QED BY <1>2, <1>3, <1>4

\* Counting by value counts everything.
LEMMA SumCounts ==
    ASSUME NEW S, IsFiniteSet(S), NEW N, IsFiniteSet(N), NEW h, \A n \in N : h[n] \in S
    PROVE  SumFunctionOnSet([x \in S |-> Cardinality({n \in N : h[n] = x})], S) = Cardinality(N)
  <1> DEFINE f == [x \in S |-> Cardinality({n \in N : h[n] = x})]
             P == {T \in SUBSET S : SumFunctionOnSet(f, T) = Cardinality({n \in N : h[n] \in T})}
  <1>0. \A x \in S : f[x] \in Nat
    BY FS_Subset, FS_CardinalityType
  <1>1. {} \in P
    <2>1. SumFunctionOnSet(f, {}) = 0
      BY <1>0, SumAdd
    <2>2. {n \in N : h[n] \in {}} = {}
      OBVIOUS
    <2> HIDE DEF f
    <2> QED BY <2>1, <2>2, FS_EmptySet
  <1>2. ASSUME NEW T \in SUBSET S, T \in P, NEW x \in S \ T PROVE T \cup {x} \in P
    <2> DEFINE A == {n \in N : h[n] = x}
               B == {n \in N : h[n] \in T}
    <2>1. SumFunctionOnSet(f, T \cup {x}) = f[x] + SumFunctionOnSet(f, T)
      <3> HIDE DEF f
      <3> QED BY <1>0, SumAdd
    <2>2. {n \in N : h[n] \in T \cup {x}} = A \cup B /\ A \cap B = {} /\ IsFiniteSet(A) /\ IsFiniteSet(B)
      BY FS_Subset
    <2>3. Cardinality(A \cup B) = Cardinality(A) + Cardinality(B) - Cardinality(A \cap B)
      BY <2>2, FS_Union
    <2>4. Cardinality(A \cap B) = 0 /\ Cardinality(A) \in Nat /\ Cardinality(B) \in Nat
      BY <2>2, FS_EmptySet, FS_CardinalityType
    <2>5. f[x] = Cardinality(A) /\ SumFunctionOnSet(f, T) = Cardinality(B)
      BY <1>2
    <2>6. SumFunctionOnSet(f, T \cup {x}) = Cardinality(A \cup B)
      <3> HIDE DEF f, A, B
      <3> QED BY <2>1, <2>3, <2>4, <2>5
    <2>7. SumFunctionOnSet(f, T \cup {x}) = Cardinality({n \in N : h[n] \in T \cup {x}})
      <3> HIDE DEF f, A, B
      <3> QED BY <2>2, <2>6
    <2> HIDE DEF f
    <2> QED BY <2>7
  <1>3. \A T \in SUBSET S : T \in P
    <2> HIDE DEF P
    <2> QED BY <1>1, <1>2, SubsetInduction
  <1>4. {n \in N : h[n] \in S} = N
    OBVIOUS
  <1> HIDE DEF f
  <1>5. SumFunctionOnSet(f, S) = Cardinality({n \in N : h[n] \in S})
    BY <1>3
  <1> QED BY <1>4, <1>5 DEF f

-----------------------------------------------------------------------------
(* Agreement: what the statistics of a confusion matrix are, in terms of the *)
(* sets of sessions the two called the same.                                 *)

Pair == [human : AttackerClasses, heuristic : AttackerClasses]
ByHuman(pairings, c) == {n \in DOMAIN pairings : pairings[n].human = c}
ByHeuristic(pairings, c) == {n \in DOMAIN pairings : pairings[n].heuristic = c}

\* A cell, a row, a column and all of the matrix.
LEMMA CellCounts ==
    ASSUME NEW N, IsFiniteSet(N), NEW q \in [N -> Pair], NEW t \in AttackerClasses, NEW p \in AttackerClasses
    PROVE  ConfusionMatrix(q)[t][p] = Cardinality(ByHuman(q, t) \cap ByHeuristic(q, p))
  <1>1. {n \in DOMAIN q : q[n] = [human |-> t, heuristic |-> p]} = ByHuman(q, t) \cap ByHeuristic(q, p)
    BY DEF ByHuman, ByHeuristic, Pair
  <1>2. ConfusionMatrix(q)[t][p] = Cardinality({n \in DOMAIN q : q[n] = [human |-> t, heuristic |-> p]})
    BY DEF ConfusionMatrix
  <1> QED BY <1>1, <1>2

\* A row of the matrix adds up to the labels of that class.
LEMMA RowCounts ==
    ASSUME NEW N, IsFiniteSet(N), NEW q \in [N -> Pair], NEW t \in AttackerClasses
    PROVE  RowTotal(ConfusionMatrix(q), t) = Cardinality(ByHuman(q, t))
  <1> DEFINE H == ByHuman(q, t)
             h == [n \in N |-> q[n].heuristic]
             f == [p \in AttackerClasses |-> ConfusionMatrix(q)[t][p]]
             g == [p \in AttackerClasses |-> Cardinality({n \in H : h[n] = p})]
  <1>1. IsFiniteSet(H) /\ \A n \in H : h[n] \in AttackerClasses
    BY FS_Subset DEF ByHuman, Pair
  <1>2. SumFunctionOnSet(g, AttackerClasses) = Cardinality(H)
    <2> HIDE DEF H, h
    <2> QED BY <1>1, SumCounts, ReviewAssumption
  <1>3. ASSUME NEW p \in AttackerClasses PROVE f[p] = g[p]
    <2>1. {n \in H : h[n] = p} = ByHuman(q, t) \cap ByHeuristic(q, p)
      BY DEF ByHuman, ByHeuristic
    <2>2. f[p] = Cardinality(ByHuman(q, t) \cap ByHeuristic(q, p))
      BY CellCounts
    <2> QED BY <2>1, <2>2
  <1>4. f = g
    BY <1>3
  <1>5. RowTotal(ConfusionMatrix(q), t) = SumFunctionOnSet(f, AttackerClasses)
    BY DEF RowTotal, SumFunction
  <1> QED BY <1>2, <1>4, <1>5

\* A column of the matrix adds up to the verdicts of that class.
LEMMA ColCounts ==
    ASSUME NEW N, IsFiniteSet(N), NEW q \in [N -> Pair], NEW p \in AttackerClasses
    PROVE  ColTotal(ConfusionMatrix(q), p) = Cardinality(ByHeuristic(q, p))
  <1> DEFINE H == ByHeuristic(q, p)
             h == [n \in N |-> q[n].human]
             f == [t \in AttackerClasses |-> ConfusionMatrix(q)[t][p]]
             g == [t \in AttackerClasses |-> Cardinality({n \in H : h[n] = t})]
  <1>1. IsFiniteSet(H) /\ \A n \in H : h[n] \in AttackerClasses
    BY FS_Subset DEF ByHeuristic, Pair
  <1>2. SumFunctionOnSet(g, AttackerClasses) = Cardinality(H)
    <2> HIDE DEF H, h
    <2> QED BY <1>1, SumCounts, ReviewAssumption
  <1>3. ASSUME NEW t \in AttackerClasses PROVE f[t] = g[t]
    <2>1. {n \in H : h[n] = t} = ByHuman(q, t) \cap ByHeuristic(q, p)
      BY DEF ByHuman, ByHeuristic
    <2>2. f[t] = Cardinality(ByHuman(q, t) \cap ByHeuristic(q, p))
      BY CellCounts
    <2> QED BY <2>1, <2>2
  <1>4. f = g
    BY <1>3
  <1>5. ColTotal(ConfusionMatrix(q), p) = SumFunctionOnSet(f, AttackerClasses)
    BY DEF ColTotal, SumFunction
  <1> QED BY <1>2, <1>4, <1>5

\* The whole matrix adds up to the pairs.
LEMMA TotalCounts ==
    ASSUME NEW N, IsFiniteSet(N), NEW q \in [N -> Pair]
    PROVE  /\ Total(ConfusionMatrix(q)) = Cardinality(N)
           /\ SumFunctionOnSet([c \in AttackerClasses |-> Cardinality(ByHuman(q, c))], AttackerClasses) = Cardinality(N)
           /\ SumFunctionOnSet([c \in AttackerClasses |-> Cardinality(ByHeuristic(q, c))], AttackerClasses) = Cardinality(N)
  <1> DEFINE human == [n \in N |-> q[n].human]
             heuristic == [n \in N |-> q[n].heuristic]
             f == [c \in AttackerClasses |-> Cardinality({n \in N : human[n] = c})]
             g == [c \in AttackerClasses |-> Cardinality({n \in N : heuristic[n] = c})]
  <1>1. \A n \in N : human[n] \in AttackerClasses /\ heuristic[n] \in AttackerClasses
    BY DEF Pair
  <1>2. SumFunctionOnSet(f, AttackerClasses) = Cardinality(N)
    <2> HIDE DEF human
    <2> QED BY <1>1, SumCounts, ReviewAssumption
  <1>3. SumFunctionOnSet(g, AttackerClasses) = Cardinality(N)
    <2> HIDE DEF heuristic
    <2> QED BY <1>1, SumCounts, ReviewAssumption
  <1>4. ASSUME NEW c \in AttackerClasses PROVE {n \in N : human[n] = c} = ByHuman(q, c) /\ {n \in N : heuristic[n] = c} = ByHeuristic(q, c)
    BY DEF ByHuman, ByHeuristic
  <1>5. f = [c \in AttackerClasses |-> Cardinality(ByHuman(q, c))] /\ g = [c \in AttackerClasses |-> Cardinality(ByHeuristic(q, c))]
    <2> HIDE DEF human, heuristic
    <2> QED BY <1>4
  <1>6. [t \in AttackerClasses |-> RowTotal(ConfusionMatrix(q), t)] = [c \in AttackerClasses |-> Cardinality(ByHuman(q, c))]
    BY RowCounts
  <1>7. Total(ConfusionMatrix(q)) = SumFunctionOnSet([t \in AttackerClasses |-> RowTotal(ConfusionMatrix(q), t)], AttackerClasses)
    BY DEF Total, SumFunction
  <1> QED BY <1>2, <1>3, <1>5, <1>6, <1>7

\* Terms that are 0 add up to 0.
LEMMA SumZero ==
    ASSUME NEW S, IsFiniteSet(S), NEW f, \A x \in S : f[x] = 0
    PROVE  SumFunctionOnSet(f, S) = 0
  <1> DEFINE P == {T \in SUBSET S : SumFunctionOnSet(f, T) = 0}
  <1>0. \A x \in S : f[x] \in Nat
    OBVIOUS
  <1>1. {} \in P
    BY <1>0, SumAdd
  <1>2. ASSUME NEW T \in SUBSET S, T \in P, NEW x \in S \ T PROVE T \cup {x} \in P
    <2>1. SumFunctionOnSet(f, T \cup {x}) = f[x] + SumFunctionOnSet(f, T)
      BY <1>0, SumAdd
    <2> QED BY <1>2, <2>1
  <1>3. \A T \in SUBSET S : T \in P
    <2> HIDE DEF P
    <2> QED BY <1>1, <1>2, SubsetInduction
  <1> QED BY <1>3

\* Products of numbers.
LEMMA Products ==
    ASSUME NEW n \in Nat, NEW r \in Nat, NEW c \in Nat, NEW d \in Nat,
           d <= r, d <= c, r <= n, c <= n, r + c <= n + d
    PROVE  /\ r * c \in Nat /\ r * c <= n * r
           /\ 4 * (r * c) <= n * (r + c) + (2 * n) * d
  <1>1. r * c \in Nat /\ r * c <= n * r
    BY SMTT(30)
  <1>2. 4 * (r * c) <= (r + c) * (r + c)
    <2>1. (r - c) * (r - c) >= 0
      BY SMTT(30)
    <2>2. (r + c) * (r + c) = (r - c) * (r - c) + 4 * (r * c)
      BY SMTT(30)
    <2> QED BY <2>1, <2>2, SMTT(30)
  <1>3. (r + c) * (r + c) <= (r + c) * (n + d)
    BY SMTT(30)
  <1>4. (r + c) * d <= (2 * n) * d
    BY SMTT(30)
  <1>5. (r + c) * (n + d) = n * (r + c) + (r + c) * d
    BY SMTT(30)
  <1> QED BY <1>1, <1>2, <1>3, <1>4, <1>5, SMTT(30)

\* What a confusion matrix of n sessions counts: r and c by row and by column,
\* d on the diagonal, and a the products that make up the chance agreement.
SumOf(f) == SumFunctionOnSet(f, AttackerClasses)

Tally(n, r, c, d, a) ==
    /\ n \in Nat /\ SumOf(r) = n /\ SumOf(c) = n
    /\ \A x \in AttackerClasses :
           /\ r[x] \in Nat /\ c[x] \in Nat /\ d[x] \in Nat /\ a[x] = r[x] * c[x]
           /\ d[x] <= r[x] /\ d[x] <= c[x] /\ r[x] <= n /\ c[x] <= n /\ r[x] + c[x] <= n + d[x]

\* The sums of a tally are numbers.
LEMMA TallyTypes ==
    ASSUME NEW n, NEW r, NEW c, NEW d, NEW a, Tally(n, r, c, d, a)
    PROVE  /\ SumOf(d) \in Nat /\ SumOf(a) \in Nat
           /\ \A x \in AttackerClasses :
                  a[x] \in Nat /\ a[x] <= n * r[x] /\ 4 * a[x] <= n * (r[x] + c[x]) + (2 * n) * d[x]
  <1>1. \A x \in AttackerClasses :
            a[x] \in Nat /\ a[x] <= n * r[x] /\ 4 * a[x] <= n * (r[x] + c[x]) + (2 * n) * d[x]
    <2> SUFFICES ASSUME NEW x \in AttackerClasses
                 PROVE  a[x] \in Nat /\ a[x] <= n * r[x] /\ 4 * a[x] <= n * (r[x] + c[x]) + (2 * n) * d[x]
      OBVIOUS
    <2>1. /\ n \in Nat /\ r[x] \in Nat /\ c[x] \in Nat /\ d[x] \in Nat /\ a[x] = r[x] * c[x]
          /\ d[x] <= r[x] /\ d[x] <= c[x] /\ r[x] <= n /\ c[x] <= n /\ r[x] + c[x] <= n + d[x]
      BY DEF Tally
    <2> DEFINE rx == r[x]
               cx == c[x]
               dx == d[x]
               ax == a[x]
    <2>2. /\ n \in Nat /\ rx \in Nat /\ cx \in Nat /\ dx \in Nat /\ ax = rx * cx
          /\ dx <= rx /\ dx <= cx /\ rx <= n /\ cx <= n /\ rx + cx <= n + dx
      BY <2>1
    <2> HIDE DEF rx, cx, dx, ax
    <2>3. rx * cx \in Nat /\ rx * cx <= n * rx /\ 4 * (rx * cx) <= n * (rx + cx) + (2 * n) * dx
      BY <2>2, Products
    <2>4. ax \in Nat /\ ax <= n * rx /\ 4 * ax <= n * (rx + cx) + (2 * n) * dx
      BY <2>2, <2>3
    <2> QED BY <2>4 DEF rx, cx, dx, ax
  <1>2. AttackerClasses \in SUBSET AttackerClasses /\ \A x \in AttackerClasses : d[x] \in Nat
    BY DEF Tally
  <1> QED BY <1>1, <1>2, SumAdd, ReviewAssumption DEF SumOf

\* h combines f and g.
Combines(h, i, f, j, g) == \A x \in AttackerClasses : f[x] \in Nat /\ g[x] \in Nat /\ h[x] = i * f[x] + j * g[x]

\* The sum of a combination is the combination of the sums.
LEMMA SumCombines ==
    ASSUME NEW h, NEW i, NEW f, NEW j, NEW g, i \in Nat, j \in Nat, Combines(h, i, f, j, g)
    PROVE  SumOf(h) = i * SumOf(f) + j * SumOf(g)
  <1>a. PICK k \in Nat : k = i
    OBVIOUS
  <1>b. PICK l \in Nat : l = j
    OBVIOUS
  <1>c. \A x \in AttackerClasses : f[x] \in Nat /\ g[x] \in Nat /\ h[x] = k * f[x] + l * g[x]
    BY <1>a, <1>b DEF Combines
  <1> DEFINE P == {T \in SUBSET AttackerClasses : SumFunctionOnSet(h, T) = k * SumFunctionOnSet(f, T) + l * SumFunctionOnSet(g, T)}
  <1>0. \A x \in AttackerClasses : h[x] \in Nat
    <2> SUFFICES ASSUME NEW x \in AttackerClasses PROVE h[x] \in Nat
      OBVIOUS
    <2>1. k * f[x] \in Nat /\ l * g[x] \in Nat /\ h[x] = k * f[x] + l * g[x]
      BY <1>c
    <2> QED BY <2>1
  <1>1. {} \in P
    <2>1. SumFunctionOnSet(f, {}) = 0 /\ SumFunctionOnSet(g, {}) = 0 /\ SumFunctionOnSet(h, {}) = 0
      BY <1>0, <1>c, SumAdd, ReviewAssumption
    <2> QED BY <2>1
  <1>2. ASSUME NEW T \in SUBSET AttackerClasses, T \in P, NEW x \in AttackerClasses \ T PROVE T \cup {x} \in P
    <2>1. /\ SumFunctionOnSet(f, T) \in Nat /\ SumFunctionOnSet(f, T \cup {x}) = f[x] + SumFunctionOnSet(f, T)
          /\ SumFunctionOnSet(g, T) \in Nat /\ SumFunctionOnSet(g, T \cup {x}) = g[x] + SumFunctionOnSet(g, T)
          /\ SumFunctionOnSet(h, T) \in Nat /\ SumFunctionOnSet(h, T \cup {x}) = h[x] + SumFunctionOnSet(h, T)
      BY <1>0, <1>c, SumAdd, ReviewAssumption
    <2>2. \A a, b, c, d \in Nat : k * (a + c) + l * (b + d) = (k * a + l * b) + (k * c + l * d)
      OBVIOUS
    <2>3. f[x] \in Nat /\ g[x] \in Nat /\ h[x] = k * f[x] + l * g[x]
      BY <1>c
    <2>4. SumFunctionOnSet(h, T) = k * SumFunctionOnSet(f, T) + l * SumFunctionOnSet(g, T)
      BY <1>2
    <2>5. SumFunctionOnSet(h, T \cup {x}) = k * SumFunctionOnSet(f, T \cup {x}) + l * SumFunctionOnSet(g, T \cup {x})
      BY <2>1, <2>2, <2>3, <2>4
    <2> QED BY <2>5
  <1>3. \A T \in SUBSET AttackerClasses : T \in P
    <2> HIDE DEF P
    <2> QED BY <1>1, <1>2, SubsetInduction, ReviewAssumption
  <1>4. AttackerClasses \in SUBSET AttackerClasses
    OBVIOUS
  <1> QED BY <1>a, <1>b, <1>3, <1>4 DEF SumOf

\* Kappa's denominator is not negative, its numerator at most the denominator
\* and at least its negative.
LEMMA KappaBounds ==
    ASSUME NEW n, NEW r, NEW c, NEW d, NEW a, Tally(n, r, c, d, a)
    PROVE  SumOf(a) <= n * n /\ SumOf(d) <= n /\ 2 * SumOf(a) <= n * n + n * SumOf(d)
  <1> DEFINE S == AttackerClasses
             nr == [x \in S |-> n * r[x] + 0 * r[x]]
             rc == [x \in S |-> n * r[x] + n * c[x]]
             rcd == [x \in S |-> 1 * rc[x] + (2 * n) * d[x]]
             aa == [x \in S |-> 4 * a[x] + 0 * a[x]]
  <1>1. IsFiniteSet(S) /\ S \in SUBSET S /\ n \in Nat /\ 2 * n \in Nat
    BY ReviewAssumption DEF Tally
  <1>2. /\ SumOf(d) \in Nat /\ SumOf(a) \in Nat
        /\ \A x \in S : a[x] \in Nat /\ a[x] <= n * r[x] /\ 4 * a[x] <= n * (r[x] + c[x]) + (2 * n) * d[x]
    BY TallyTypes
  <1>3. \A x \in S : r[x] \in Nat /\ c[x] \in Nat /\ d[x] \in Nat /\ d[x] <= r[x]
    BY DEF Tally
  <1>4. ASSUME NEW x \in S
        PROVE  /\ nr[x] \in Nat /\ rc[x] \in Nat /\ rcd[x] \in Nat /\ aa[x] \in Nat
               /\ a[x] <= nr[x] /\ aa[x] <= rcd[x]
    <2>1. n * r[x] \in Nat /\ n * c[x] \in Nat /\ (2 * n) * d[x] \in Nat /\ r[x] \in Nat /\ c[x] \in Nat
      BY <1>1, <1>3
    <2>2. nr[x] = n * r[x] /\ rc[x] = n * r[x] + n * c[x] /\ rcd[x] = (n * r[x] + n * c[x]) + (2 * n) * d[x] /\ aa[x] = 4 * a[x]
      BY <1>1, <1>2, <1>3, <2>1
    <2>3. n * (r[x] + c[x]) = n * r[x] + n * c[x]
      BY <1>1, <2>1
    <2> QED BY <1>1, <1>2, <2>1, <2>2, <2>3
  <1>5. SumOf(r) = n /\ SumOf(c) = n
    BY DEF Tally
  <1>6. SumOf(nr) = n * SumOf(r) + 0 * SumOf(r)
    <2>1. Combines(nr, n, r, 0, r)
      BY <1>3 DEF Combines
    <2> HIDE DEF nr, rc, rcd, aa
    <2> QED BY <1>1, <2>1, SumCombines
  <1>7. SumOf(rc) = n * SumOf(r) + n * SumOf(c)
    <2>1. Combines(rc, n, r, n, c)
      BY <1>3 DEF Combines
    <2> HIDE DEF nr, rc, rcd, aa
    <2> QED BY <1>1, <2>1, SumCombines
  <1>8. SumOf(rcd) = 1 * SumOf(rc) + (2 * n) * SumOf(d)
    <2>1. Combines(rcd, 1, rc, 2 * n, d)
      BY <1>3, <1>4 DEF Combines
    <2> HIDE DEF nr, rc, rcd, aa
    <2> QED BY <1>1, <2>1, SumCombines
  <1>9. SumOf(aa) = 4 * SumOf(a) + 0 * SumOf(a)
    <2>1. Combines(aa, 4, a, 0, a)
      BY <1>2 DEF Combines
    <2> HIDE DEF nr, rc, rcd, aa
    <2> QED BY <1>1, <2>1, SumCombines
  <1>10. SumOf(a) <= SumOf(nr) /\ SumOf(aa) <= SumOf(rcd) /\ SumOf(d) <= SumOf(r)
    <2> HIDE DEF nr, rc, rcd, aa
    <2>1. SumOf(a) <= SumOf(nr)
      BY <1>1, <1>2, <1>4, SumLeq DEF SumOf
    <2>2. SumOf(aa) <= SumOf(rcd)
      BY <1>1, <1>4, SumLeq DEF SumOf
    <2>3. SumOf(d) <= SumOf(r)
      BY <1>1, <1>3, SumLeq DEF SumOf
    <2> QED BY <2>1, <2>2, <2>3
  <1> HIDE DEF nr, rc, rcd, aa
  <1>11. n * n \in Nat /\ n * SumOf(d) \in Nat
    BY <1>1, <1>2
  <1>12. SumOf(nr) = n * n /\ SumOf(rcd) = 2 * (n * n) + 2 * (n * SumOf(d)) /\ SumOf(aa) = 4 * SumOf(a)
    BY <1>1, <1>2, <1>5, <1>6, <1>7, <1>8, <1>9, <1>11
  <1>13. 4 * SumOf(a) <= 2 * (n * n) + 2 * (n * SumOf(d))
    BY <1>10, <1>12
  <1>14. \A i, j, k \in Nat : 4 * i <= 2 * j + 2 * k => 2 * i <= j + k
    OBVIOUS
  <1> QED BY <1>2, <1>5, <1>10, <1>11, <1>12, <1>13, <1>14

\* A set with more than one element has two.
LEMMA MoreThanOne ==
    ASSUME NEW S, IsFiniteSet(S)
    PROVE  Cardinality(S) > 1 <=> \E x, y \in S : x # y
  <1>1. ASSUME NEW x \in S, NEW y \in S, x # y PROVE Cardinality(S) > 1
    <2>1. Cardinality(S) \in Nat /\ S # {}
      BY FS_CardinalityType
    <2>2. Cardinality(S) # 0
      BY <2>1, FS_EmptySet
    <2>3. Cardinality(S) # 1
      BY <1>1, FS_Singleton
    <2> QED BY <2>1, <2>2, <2>3
  <1>2. ASSUME Cardinality(S) > 1 PROVE \E x, y \in S : x # y
    <2>1. PICK x \in S : TRUE
      BY <1>2, FS_EmptySet
    <2>2. S # {x}
      BY <1>2, FS_Singleton
    <2> QED BY <2>1, <2>2
  <1> QED BY <1>1, <1>2

\* When the two always agree, kappa is undefined or 1: undefined when all
\* sessions are of one class.
LEMMA KappaOfAgreement ==
    ASSUME NEW n, NEW r, NEW c, NEW d, NEW a, Tally(n, r, c, d, a), SumOf(d) = n
    PROVE  SumOf(a) < n * n <=> \E x, y \in AttackerClasses : x # y /\ d[x] > 0 /\ d[y] > 0
  <1> DEFINE S == AttackerClasses
             nd == [x \in S |-> n * d[x] + 0 * d[x]]
  <1>1. /\ IsFiniteSet(S) /\ S \in SUBSET S /\ n \in Nat /\ SumOf(r) = n /\ SumOf(c) = n
        /\ \A x \in S : r[x] \in Nat /\ c[x] \in Nat /\ d[x] \in Nat /\ d[x] <= r[x] /\ d[x] <= c[x] /\ d[x] <= n
    BY ReviewAssumption DEF Tally
  <1>2. SumOf(a) \in Nat /\ \A x \in S : a[x] \in Nat
    BY TallyTypes
  <1>3. ASSUME NEW x \in S PROVE r[x] = d[x] /\ c[x] = d[x]
    <2>1. CASE d[x] < r[x]
      <3>1. SumOf(d) < SumOf(r)
        BY <1>1, <2>1, SumLess DEF SumOf
      <3> QED BY <1>1, <3>1
    <2>2. CASE d[x] < c[x]
      <3>1. SumOf(d) < SumOf(c)
        BY <1>1, <2>2, SumLess DEF SumOf
      <3> QED BY <1>1, <3>1
    <2> QED BY <1>1, <2>1, <2>2
  <1>4. \A x \in S : a[x] = d[x] * d[x]
    BY <1>3 DEF Tally
  <1>5. ASSUME NEW x \in S PROVE nd[x] = n * d[x] /\ nd[x] \in Nat /\ a[x] <= nd[x] /\ (0 < d[x] /\ d[x] < n => a[x] < nd[x])
    <2>1. \A i, j \in Nat : i <= j => /\ j * i \in Nat /\ i * i <= j * i /\ j * i + 0 * i = j * i
                                      /\ 0 < i /\ i < j => i * i < j * i
      BY SMTT(30)
    <2>2. d[x] \in Nat /\ d[x] <= n /\ a[x] = d[x] * d[x]
      BY <1>1, <1>4
    <2> QED BY <1>1, <2>1, <2>2
  <1>6. SumOf(nd) = n * n
    <2>1. Combines(nd, n, d, 0, d)
      BY <1>1 DEF Combines
    <2> HIDE DEF nd
    <2>2. SumOf(nd) = n * SumOf(d) + 0 * SumOf(d)
      BY <1>1, <2>1, SumCombines
    <2> QED BY <1>1, <2>2
  <1>7. ASSUME NEW x \in S PROVE SumOf(d) = d[x] + SumFunctionOnSet(d, S \ {x}) /\ SumFunctionOnSet(d, S \ {x}) \in Nat
    BY <1>1, SumWithout DEF SumOf
  <1>8. ASSUME NEW x \in S, NEW y \in S, x # y, d[x] > 0, d[y] > 0 PROVE SumOf(a) < n * n
    <2> DEFINE R == S \ {x}
    <2>1. IsFiniteSet(R) /\ y \in R /\ \A z \in R : d[z] \in Nat
      BY <1>1, <1>8, FS_Subset
    <2>2. SumFunctionOnSet(d, R) = d[y] + SumFunctionOnSet(d, R \ {y}) /\ SumFunctionOnSet(d, R \ {y}) \in Nat
      <3> HIDE DEF R
      <3> QED BY <2>1, SumWithout
    <2>3. d[x] < n
      <3> HIDE DEF R
      <3>1. n = d[x] + SumFunctionOnSet(d, R)
        BY <1>7 DEF R
      <3> QED BY <1>1, <1>8, <2>2, <3>1
    <2>4. a[x] < nd[x]
      BY <1>5, <1>8, <2>3
    <2>5. SumOf(a) < SumOf(nd)
      <3> HIDE DEF nd
      <3> QED BY <1>1, <1>2, <1>5, <2>4, SumLess DEF SumOf
    <2> QED BY <1>6, <2>5
  <1>9. ASSUME SumOf(a) < n * n PROVE \E x, y \in S : x # y /\ d[x] > 0 /\ d[y] > 0
    <2> SUFFICES ASSUME \A x, y \in S : d[x] > 0 /\ d[y] > 0 => x = y PROVE FALSE
      OBVIOUS
    <2>1. PICK x \in S : d[x] > 0
      <3> SUFFICES ASSUME \A x \in S : ~(d[x] > 0) PROVE FALSE
        OBVIOUS
      <3>1. \A x \in S : d[x] = 0
        BY <1>1
      <3>2. n = 0
        BY <1>1, <3>1, SumZero DEF SumOf
      <3> QED BY <1>2, <1>9, <3>2
    <2>2. \A y \in S \ {x} : d[y] = 0
      BY <1>1, <2>1
    <2>3. SumFunctionOnSet(d, S \ {x}) = 0
      <3> DEFINE R == S \ {x}
      <3>1. IsFiniteSet(R)
        BY <1>1, FS_Subset
      <3> HIDE DEF R
      <3>2. SumFunctionOnSet(d, R) = 0
        BY <2>2, <3>1, SumZero DEF R
      <3> QED BY <3>2 DEF R
    <2>4. d[x] = n
      BY <1>1, <1>7, <2>3
    <2>5. SumOf(a) = a[x] + SumFunctionOnSet(a, S \ {x}) /\ SumFunctionOnSet(a, S \ {x}) \in Nat
      BY <1>1, <1>2, SumWithout DEF SumOf
    <2>6. a[x] = n * n
      BY <1>4, <2>4
    <2> QED BY <1>2, <1>9, <2>5, <2>6
  <1> QED BY <1>8, <1>9

\* When the heuristic always gives the same answer, kappa's numerator is 0.
LEMMA KappaOfConstant ==
    ASSUME NEW n, NEW r, NEW c, NEW d, NEW a, Tally(n, r, c, d, a), NEW x \in AttackerClasses, c[x] = n
    PROVE  n * SumOf(d) = SumOf(a)
  <1> DEFINE S == AttackerClasses
             R == S \ {x}
  <1>1. /\ IsFiniteSet(S) /\ n \in Nat /\ SumOf(c) = n /\ r[x] + c[x] <= n + d[x] /\ a[x] = r[x] * c[x]
        /\ \A y \in S : r[y] \in Nat /\ c[y] \in Nat /\ d[y] \in Nat /\ d[y] <= r[y] /\ d[y] <= c[y] /\ a[y] = r[y] * c[y]
    BY ReviewAssumption DEF Tally
  <1>2. \A y \in S : a[y] \in Nat
    BY TallyTypes
  <1>3. d[x] = r[x]
    BY <1>1
  <1>4. /\ SumOf(c) = c[x] + SumFunctionOnSet(c, R) /\ SumFunctionOnSet(c, R) \in Nat
        /\ SumOf(d) = d[x] + SumFunctionOnSet(d, R)
        /\ SumOf(a) = a[x] + SumFunctionOnSet(a, R)
    BY <1>1, <1>2, SumWithout DEF SumOf
  <1>5. IsFiniteSet(R)
    BY <1>1, FS_Subset
  <1>6. SumFunctionOnSet(c, R) = 0
    BY <1>1, <1>4
  <1>7. ASSUME NEW y \in R PROVE c[y] = 0
    <2>1. SumFunctionOnSet(c, R) = c[y] + SumFunctionOnSet(c, R \ {y}) /\ SumFunctionOnSet(c, R \ {y}) \in Nat
      <3>1. \A z \in R : c[z] \in Nat
        BY <1>1
      <3> HIDE DEF R
      <3> QED BY <1>5, <3>1, SumWithout
    <2> QED BY <1>1, <1>6, <2>1
  <1>8. \A y \in R : d[y] = 0 /\ a[y] = 0
    <2> SUFFICES ASSUME NEW y \in R PROVE d[y] = 0 /\ a[y] = 0
      OBVIOUS
    <2>1. r[y] \in Nat /\ d[y] \in Nat /\ d[y] <= c[y] /\ a[y] = r[y] * c[y] /\ c[y] = 0
      BY <1>1, <1>7
    <2> QED BY <2>1
  <1>9. SumFunctionOnSet(d, R) = 0 /\ SumFunctionOnSet(a, R) = 0
    <2> HIDE DEF R
    <2> QED BY <1>5, <1>8, SumZero
  <1>10. SumOf(d) = r[x] /\ SumOf(a) = r[x] * n
    BY <1>1, <1>2, <1>3, <1>4, <1>9
  <1> QED BY <1>1, <1>10

\* A confusion matrix is such a tally.
LEMMA MatrixTally ==
    ASSUME NEW N, IsFiniteSet(N), NEW q \in [N -> Pair], NEW m, m = ConfusionMatrix(q)
    PROVE  \E n, r, c, d, a :
              /\ Tally(n, r, c, d, a)
              /\ n = Cardinality(N) /\ Total(m) = n /\ Agreed(m) = SumOf(d)
              /\ \A x \in AttackerClasses : RowTotal(m, x) = r[x] /\ ColTotal(m, x) = c[x] /\ m[x][x] = d[x]
              /\ CohensKappa(m) = Frac(n * SumOf(d) - SumOf(a), n * n - SumOf(a))
  <1> DEFINE S == AttackerClasses
             n == Cardinality(N)
             r == [x \in S |-> Cardinality(ByHuman(q, x))]
             c == [x \in S |-> Cardinality(ByHeuristic(q, x))]
             d == [x \in S |-> Cardinality(ByHuman(q, x) \cap ByHeuristic(q, x))]
             a == [x \in S |-> r[x] * c[x]]
  <1>1. n \in Nat
    BY FS_CardinalityType
  <1>2. Total(m) = n /\ SumOf(r) = n /\ SumOf(c) = n
    BY TotalCounts DEF SumOf
  <1>3. ASSUME NEW x \in S
        PROVE  /\ r[x] \in Nat /\ c[x] \in Nat /\ d[x] \in Nat
               /\ d[x] <= r[x] /\ d[x] <= c[x] /\ r[x] <= n /\ c[x] <= n /\ r[x] + c[x] <= n + d[x]
    <2> DEFINE H == ByHuman(q, x)
               P == ByHeuristic(q, x)
    <2>1. H \subseteq N /\ P \subseteq N
      BY DEF ByHuman, ByHeuristic
    <2> HIDE DEF H, P
    <2>2. /\ IsFiniteSet(H) /\ IsFiniteSet(P) /\ IsFiniteSet(H \cap P) /\ IsFiniteSet(H \cup P)
          /\ Cardinality(H) <= n /\ Cardinality(P) <= n /\ Cardinality(H \cup P) <= n
      <3>1. H \cup P \subseteq N /\ H \cap P \subseteq N
        BY <2>1
      <3> QED BY <2>1, <3>1, FS_Subset
    <2>3. Cardinality(H \cap P) <= Cardinality(H) /\ Cardinality(H \cap P) <= Cardinality(P)
      <3>1. H \cap P \subseteq H /\ H \cap P \subseteq P
        OBVIOUS
      <3> QED BY <2>2, <3>1, FS_Subset
    <2>4. Cardinality(H \cup P) = Cardinality(H) + Cardinality(P) - Cardinality(H \cap P)
      BY <2>2, FS_Union
    <2>5. Cardinality(H) \in Nat /\ Cardinality(P) \in Nat /\ Cardinality(H \cap P) \in Nat
      BY <2>2, FS_CardinalityType
    <2>6. r[x] = Cardinality(H) /\ c[x] = Cardinality(P) /\ d[x] = Cardinality(H \cap P)
      BY DEF H, P
    <2> HIDE DEF n, r, c, d
    <2> QED BY <1>1, <2>2, <2>3, <2>4, <2>5, <2>6
  <1>4. Tally(n, r, c, d, a)
    <2>1. \A x \in S : a[x] = r[x] * c[x]
      OBVIOUS
    <2> HIDE DEF n, r, c, d, a
    <2> QED BY <1>1, <1>2, <1>3, <2>1 DEF Tally
  <1>5. \A x \in S : RowTotal(m, x) = r[x] /\ ColTotal(m, x) = c[x] /\ m[x][x] = d[x]
    BY RowCounts, ColCounts, CellCounts
  <1>6. Agreed(m) = SumOf(d)
    <2>1. [x \in S |-> m[x][x]] = d
      BY <1>5
    <2>2. Agreed(m) = SumFunctionOnSet([x \in S |-> m[x][x]], S)
      BY DEF Agreed, SumFunction
    <2> QED BY <2>1, <2>2 DEF SumOf
  <1>7. CohensKappa(m) = Frac(n * SumOf(d) - SumOf(a), n * n - SumOf(a))
    <2>1. [x \in S |-> RowTotal(m, x) * ColTotal(m, x)] = a
      <3> HIDE DEF r, c
      <3> QED BY <1>5
    <2>2. SumFunction([x \in S |-> RowTotal(m, x) * ColTotal(m, x)]) = SumOf([x \in S |-> RowTotal(m, x) * ColTotal(m, x)])
      BY DEF SumFunction, SumOf
    <2>3. SumFunction([x \in S |-> RowTotal(m, x) * ColTotal(m, x)]) = SumOf(a)
      BY <2>1, <2>2
    <2> HIDE DEF n, d, a
    <2> QED BY <1>2, <1>6, <2>3 DEF CohensKappa
  <1> HIDE DEF n, r, c, d, a
  <1> QED BY <1>2, <1>4, <1>5, <1>6, <1>7 DEF n

\* What AgreementIsFair asks of a matrix, of its kappa and of its classes.
FairKappa(m, k) ==
    /\ k # NaN => k.den > 0 /\ k.num <= k.den /\ -k.den <= k.num
    /\ (k # NaN /\ k.num = k.den) <=>
           (Agreed(m) = Total(m) /\ Cardinality({c \in AttackerClasses : m[c][c] > 0}) > 1)
    /\ k # NaN /\ (\E c \in AttackerClasses : ColTotal(m, c) = Total(m)) => k.num = 0

\* cohens_kappa is fair, whatever the pairs.
LEMMA KappaIsFair ==
    ASSUME NEW N, IsFiniteSet(N), NEW q \in [N -> Pair], NEW m, m = ConfusionMatrix(q)
    PROVE  FairKappa(m, CohensKappa(m))
  <1>1. PICK n, r, c, d, a :
              /\ Tally(n, r, c, d, a)
              /\ n = Cardinality(N) /\ Total(m) = n /\ Agreed(m) = SumOf(d)
              /\ \A x \in AttackerClasses : RowTotal(m, x) = r[x] /\ ColTotal(m, x) = c[x] /\ m[x][x] = d[x]
              /\ CohensKappa(m) = Frac(n * SumOf(d) - SumOf(a), n * n - SumOf(a))
    BY MatrixTally
  <1> DEFINE num == n * SumOf(d) - SumOf(a)
             den == n * n - SumOf(a)
             k == CohensKappa(m)
  <1>2. n \in Nat /\ SumOf(d) \in Nat /\ SumOf(a) \in Nat /\ n * n \in Nat /\ n * SumOf(d) \in Nat
    <2>1. n \in Nat /\ SumOf(d) \in Nat /\ SumOf(a) \in Nat
      BY <1>1, TallyTypes DEF Tally
    <2> QED BY <2>1
  <1>3. SumOf(a) <= n * n /\ SumOf(d) <= n /\ 2 * SumOf(a) <= n * n + n * SumOf(d)
    BY <1>1, KappaBounds
  <1>4. num \in Int /\ den \in Nat /\ -den <= num
    BY <1>2, <1>3
  <1>5. num <= den /\ (num = den <=> n * SumOf(d) = n * n)
    <2>1. n * SumOf(d) <= n * n
      BY <1>2, <1>3, SMTT(30)
    <2> QED BY <1>2, <2>1
  <1>6. (den = 0 => k = NaN) /\ (den # 0 => k = [num |-> num, den |-> den])
    BY <1>1 DEF Frac
  <1>7. den # 0 => k # NaN /\ k.num = num /\ k.den = den
    <2> HIDE DEF num, den, k
    <2>1. ASSUME den # 0, k = NaN PROVE FALSE
      <3>1. [num |-> num, den |-> den].den = NaN.den
        BY <1>6, <2>1
      <3> QED BY <2>1, <3>1 DEF NaN
    <2> QED BY <1>6, <2>1
  <1>8. k # NaN <=> den # 0
    BY <1>6, <1>7
  <1>9. k # NaN => k.den > 0 /\ k.num <= k.den /\ -k.den <= k.num
    <2> HIDE DEF num, den, k
    <2> QED BY <1>4, <1>5, <1>7, <1>8
  <1>10. (k # NaN /\ k.num = k.den) <=> (SumOf(d) = n /\ den # 0)
    <2>1. den # 0 => n # 0
      <3> SUFFICES ASSUME n = 0 PROVE den = 0
        OBVIOUS
      <3>1. n * n = 0
        OBVIOUS
      <3> QED BY <1>2, <1>3, <3>1
    <2>2. n # 0 => (n * SumOf(d) = n * n <=> SumOf(d) = n)
      BY <1>2, SMTT(30)
    <2> HIDE DEF num, den, k
    <2> QED BY <1>5, <1>7, <1>8, <2>1, <2>2
  <1>11. SumOf(d) = n => (den # 0 <=> \E x, y \in AttackerClasses : x # y /\ d[x] > 0 /\ d[y] > 0)
    <2>1. den # 0 <=> SumOf(a) < n * n
      BY <1>2, <1>3
    <2> HIDE DEF den
    <2> QED BY <1>1, <2>1, KappaOfAgreement
  <1>12. Cardinality({x \in AttackerClasses : m[x][x] > 0}) > 1 <=> \E x, y \in AttackerClasses : x # y /\ d[x] > 0 /\ d[y] > 0
    <2> DEFINE D == {x \in AttackerClasses : m[x][x] > 0}
    <2>1. IsFiniteSet(D)
      BY FS_Subset, ReviewAssumption
    <2>2. \A x : x \in D <=> x \in AttackerClasses /\ d[x] > 0
      BY <1>1
    <2> HIDE DEF D
    <2>3. Cardinality(D) > 1 <=> \E x, y \in AttackerClasses : x # y /\ d[x] > 0 /\ d[y] > 0
      BY <2>1, <2>2, MoreThanOne
    <2> QED BY <2>3 DEF D
  <1>13. ASSUME k # NaN, NEW x \in AttackerClasses, ColTotal(m, x) = Total(m) PROVE k.num = 0
    <2>1. c[x] = n
      BY <1>1, <1>13
    <2>2. n * SumOf(d) = SumOf(a)
      BY <1>1, <2>1, KappaOfConstant
    <2>3. num = 0
      BY <1>2, <2>2
    <2> HIDE DEF num, den, k
    <2> QED BY <1>7, <1>8, <1>13, <2>3
  <1>14. (k # NaN /\ k.num = k.den) <=>
            (Agreed(m) = Total(m) /\ Cardinality({x \in AttackerClasses : m[x][x] > 0}) > 1)
    <2> HIDE DEF num, den, k
    <2> QED BY <1>1, <1>10, <1>11, <1>12
  <1> HIDE DEF k
  <1>15. FairKappa(m, k)
    BY <1>9, <1>13, <1>14 DEF FairKappa
  <1> QED BY <1>15 DEF k

\* F1 is between precision and recall.
FairClass(x) ==
    LET leq(y, z) == y.num * z.den <= z.num * y.den
    IN  x.f1 # NaN => \/ leq(x.precision, x.f1) /\ leq(x.f1, x.recall)
                      \/ leq(x.recall, x.f1) /\ leq(x.f1, x.precision)

\* F1 lies between precision and recall, whatever the pairs.
LEMMA ClassIsFair ==
    ASSUME NEW N, IsFiniteSet(N), NEW q \in [N -> Pair], NEW m, m = ConfusionMatrix(q), NEW x \in AttackerClasses
    PROVE  FairClass(PerClassMetrics(m)[x])
  <1>1. PICK n, r, c, d, a :
              /\ Tally(n, r, c, d, a)
              /\ \A y \in AttackerClasses : RowTotal(m, y) = r[y] /\ ColTotal(m, y) = c[y] /\ m[y][y] = d[y]
    BY MatrixTally
  <1>2. r[x] \in Nat /\ c[x] \in Nat /\ d[x] \in Nat /\ d[x] <= r[x] /\ d[x] <= c[x]
    BY <1>1 DEF Tally
  <1> DEFINE e == PerClassMetrics(m)[x]
  <1>3. /\ e.precision = Frac(d[x], c[x]) /\ e.recall = Frac(d[x], r[x])
        /\ e.f1 = IF d[x] = 0 THEN NaN ELSE Frac(2 * d[x], c[x] + r[x])
    BY <1>1 DEF PerClassMetrics
  <1> HIDE DEF e
  <1> SUFFICES ASSUME e.f1 # NaN PROVE FairClass(e)
    BY DEF e, FairClass
  <1>4. d[x] # 0
    BY <1>3
  <1>5. c[x] # 0 /\ r[x] # 0 /\ c[x] + r[x] # 0
    BY <1>2, <1>4
  <1>6. /\ e.precision = [num |-> d[x], den |-> c[x]] /\ e.recall = [num |-> d[x], den |-> r[x]]
        /\ e.f1 = [num |-> 2 * d[x], den |-> c[x] + r[x]]
    BY <1>3, <1>4, <1>5 DEF Frac
  <1>7. /\ e.precision.num = d[x] /\ e.precision.den = c[x] /\ e.recall.num = d[x] /\ e.recall.den = r[x]
        /\ e.f1.num = 2 * d[x] /\ e.f1.den = c[x] + r[x]
    BY <1>6
  <1>8. \A i, j, k \in Nat : i <= j => /\ k * (i + j) <= (2 * k) * j /\ k * (j + i) <= (2 * k) * j
                                       /\ (2 * k) * i <= k * (i + j) /\ (2 * k) * i <= k * (j + i)
    BY SMTT(30)
  <1>9. CASE r[x] <= c[x]
    <2>1. d[x] * (c[x] + r[x]) <= (2 * d[x]) * c[x] /\ (2 * d[x]) * r[x] <= d[x] * (c[x] + r[x])
      BY <1>2, <1>8, <1>9
    <2> QED BY <1>7, <2>1 DEF FairClass
  <1>10. CASE c[x] <= r[x]
    <2>1. (2 * d[x]) * c[x] <= d[x] * (c[x] + r[x]) /\ d[x] * (c[x] + r[x]) <= (2 * d[x]) * r[x]
      BY <1>2, <1>8, <1>10
    <2> QED BY <1>7, <2>1 DEF FairClass
  <1> QED BY <1>2, <1>9, <1>10

\* Every label is a pair, unsure or unmatched.
Labels == [session : Reviewed, label : AttackerClasses \cup {"unsure"}]

\* join_labels accounts for every label once.
LEMMA JoinCounts ==
    ASSUME NEW labels \in Seq(Labels), NEW predicted, \A s \in DOMAIN predicted : predicted[s] \in AttackerClasses
    PROVE  LET joined == JoinLabels(labels, predicted)
           IN  /\ IsFiniteSet(DOMAIN joined.pairs) /\ joined.pairs \in [DOMAIN joined.pairs -> Pair]
               /\ Len(labels) = Cardinality(DOMAIN joined.pairs) + joined.unsure + joined.unmatched
  <1> DEFINE D == DOMAIN labels
             U == {n \in D : labels[n].label = "unsure"}
             V == {n \in D \ U : labels[n].session \notin DOMAIN predicted}
             W == D \ (U \cup V)
             q == [n \in W |-> [human |-> labels[n].label, heuristic |-> predicted[labels[n].session]]]
             joined == JoinLabels(labels, predicted)
  <1>1. joined.pairs = q /\ joined.unsure = Cardinality(U) /\ joined.unmatched = Cardinality(V)
    BY DEF JoinLabels
  <1>2. q \in [W -> Pair]
    <2> SUFFICES ASSUME NEW n \in W PROVE q[n] \in Pair
      OBVIOUS
    <2>1. labels[n] \in Labels /\ labels[n].label # "unsure" /\ labels[n].session \in DOMAIN predicted
      OBVIOUS
    <2>2. labels[n].label \in AttackerClasses /\ predicted[labels[n].session] \in AttackerClasses
      BY <2>1 DEF Labels
    <2> QED BY <2>2 DEF Pair
  <1>3. IsFiniteSet(D) /\ Cardinality(D) = Len(labels)
    <2>1. D = 1 .. Len(labels) /\ Len(labels) \in Nat
      OBVIOUS
    <2> HIDE DEF D
    <2> QED BY <2>1, FS_Interval
  <1>4. U \subseteq D /\ V \subseteq D /\ W \subseteq D /\ U \cap V = {} /\ W \cap (U \cup V) = {} /\ W \cup (U \cup V) = D
    OBVIOUS
  <1>5. DOMAIN q = W
    OBVIOUS
  <1> HIDE DEF U, V, W, q, joined
  <1>6. IsFiniteSet(U) /\ IsFiniteSet(V) /\ IsFiniteSet(W) /\ IsFiniteSet(U \cup V)
    BY <1>3, <1>4, FS_Subset, FS_Union
  <1>7. /\ Cardinality(U \cup V) = Cardinality(U) + Cardinality(V) - Cardinality(U \cap V)
        /\ Cardinality(W \cup (U \cup V)) = Cardinality(W) + Cardinality(U \cup V) - Cardinality(W \cap (U \cup V))
    BY <1>6, FS_Union
  <1>8. Cardinality(U \cap V) = 0 /\ Cardinality(W \cap (U \cup V)) = 0
    BY <1>4, FS_EmptySet
  <1>9. Cardinality(U) \in Nat /\ Cardinality(V) \in Nat /\ Cardinality(W) \in Nat
    BY <1>6, FS_CardinalityType
  <1>10. Len(labels) = Cardinality(W) + Cardinality(U) + Cardinality(V)
    BY <1>3, <1>4, <1>7, <1>8, <1>9
  <1> QED BY <1>1, <1>2, <1>5, <1>6, <1>10 DEF joined

-----------------------------------------------------------------------------
(* The inductive invariant of the review *)

\* The files, and what the sampler will write to them, are about classified
\* sessions, and a queued session has its commands.
QueueRows(f) == DOMAIN f \subseteq verdicts /\ \A s \in DOMAIN f : f[s].commands
PredictionRows(f) == DOMAIN f \subseteq verdicts /\ \A s \in DOMAIN f : f[s] \in AttackerClasses

ReviewFiles ==
    /\ verdicts \subseteq stored /\ stored \subseteq Reviewed /\ cutOff \in BOOLEAN
    /\ QueueRows(queue.rows) /\ PredictionRows(predictions.rows)
    /\ gold \in Seq(Labels) /\ LabeledOnce

\* What the sampler has read was true once, and only grows.
SamplerKnows ==
    /\ sampler.at \in {"off", "sessions", "commands", "merge", "queue", "predictions"}
    /\ sampler.at \in {"sessions", "commands", "merge"} => sampler.labeled \subseteq AlreadyLabeled
    /\ sampler.at \in {"commands", "merge"} => sampler.sessions \subseteq verdicts
    /\ sampler.at = "merge" => sampler.sessions \subseteq sampler.commands
    /\ sampler.at = "queue" => QueueRows(sampler.queue)
    /\ sampler.at \in {"queue", "predictions"} => PredictionRows(sampler.predictions)

\* The predictions there are, or will be when the sampler has written its files.
Predicted == IF sampler.at \in {"queue", "predictions"} THEN DOMAIN sampler.predictions ELSE DOMAIN predictions.rows

\* What the labeler still has to show has no label, and what is labelled, shown
\* or queued has a prediction.
LabelerKnows ==
    labeler = Idle \/ labeler \in [at : {"label"}, remaining : SUBSET (Reviewed \ AlreadyLabeled)]

NothingUnpredicted ==
    ~cutOff =>
        /\ AlreadyLabeled \subseteq Predicted
        /\ labeler.at = "label" => labeler.remaining \subseteq Predicted
        /\ DOMAIN queue.rows \subseteq Predicted
        /\ sampler.at = "queue" => DOMAIN sampler.queue \subseteq Predicted

AgreementKnows ==
    /\ agreement.at \in {"off", "join", "report"}
    /\ agreement.at = "join" => agreement.gold \in Seq(Labels)
    /\ AgreementIsFair

ReviewInv == ReviewFiles /\ SamplerKnows /\ LabelerKnows /\ NothingUnpredicted /\ AgreementKnows

\* It holds before the first command.
LEMMA ReviewInitially == LabelInit => ReviewInv
  <1> SUFFICES ASSUME LabelInit PROVE ReviewInv
    OBVIOUS
  <1>1. queue.rows = <<>> /\ predictions.rows = <<>> /\ gold = <<>> /\ DOMAIN queue.rows = {} /\ DOMAIN predictions.rows = {}
    BY DEF LabelInit, NoRows, File
  <1>2. AlreadyLabeled = {} /\ LabeledOnce /\ gold \in Seq(Labels)
    BY <1>1 DEF AlreadyLabeled, LabeledOnce, IsInjective
  <1>3. ReviewFiles
    BY <1>1, <1>2, ReviewAssumption DEF LabelInit, ReviewFiles, QueueRows, PredictionRows
  <1>4. sampler.at = "off" /\ labeler = Idle /\ labeler.at = "off" /\ agreement.at = "off"
    BY DEF LabelInit, Idle
  <1>5. SamplerKnows /\ LabelerKnows
    BY <1>4 DEF SamplerKnows, LabelerKnows
  <1>6. NothingUnpredicted
    BY <1>1, <1>2, <1>4 DEF NothingUnpredicted
  <1>7. AgreementKnows
    BY <1>4 DEF AgreementKnows, AgreementIsFair
  <1> QED BY <1>3, <1>5, <1>6, <1>7 DEF ReviewInv

\* The sensor and the bridge add sessions and verdicts.
LEMMA StoreKeeps == ASSUME ReviewInv, NEW s \in Reviewed, Store(s) \/ Enrich(s) PROVE ReviewInv'
  <1> USE DEF ReviewInv
  <1>1. /\ UNCHANGED <<queue, predictions, gold, sampler, samples, cutOff, labeler, agreement>>
        /\ verdicts \subseteq verdicts' /\ verdicts' \subseteq stored' /\ stored' \subseteq Reviewed
    BY DEF Store, Enrich, ReviewFiles
  <1>2. AlreadyLabeled' = AlreadyLabeled /\ Predicted' = Predicted /\ LabeledOnce' = LabeledOnce
    BY <1>1 DEF AlreadyLabeled, Predicted, LabeledOnce
  <1>3. ReviewFiles'
    BY <1>1, <1>2 DEF ReviewFiles, QueueRows, PredictionRows
  <1>4. SamplerKnows'
    BY <1>1, <1>2 DEF SamplerKnows, QueueRows, PredictionRows
  <1>5. LabelerKnows' /\ NothingUnpredicted'
    BY <1>1, <1>2 DEF LabelerKnows, NothingUnpredicted
  <1>6. AgreementKnows'
    BY <1>1 DEF AgreementKnows, AgreementIsFair
  <1> QED BY <1>3, <1>4, <1>5, <1>6

\* The sampler reads.
LEMMA SampleReads == ASSUME ReviewInv, SampleStart \/ FetchExport \/ FetchAllCommands PROVE ReviewInv'
  <1> USE DEF ReviewInv
  <1>1. /\ UNCHANGED <<stored, verdicts, queue, predictions, gold, cutOff, labeler, agreement>>
        /\ sampler.at \in {"off", "sessions", "commands"} /\ sampler'.at \in {"sessions", "commands", "merge"}
    BY DEF SampleStart, FetchExport, FetchAllCommands
  <1>2. AlreadyLabeled' = AlreadyLabeled /\ Predicted' = Predicted /\ LabeledOnce' = LabeledOnce
    BY <1>1 DEF AlreadyLabeled, Predicted, LabeledOnce
  <1>3. ReviewFiles'
    BY <1>1, <1>2 DEF ReviewFiles, QueueRows, PredictionRows
  <1>4. SamplerKnows'
    <2>1. CASE SampleStart
      BY <1>1, <1>2, <2>1 DEF SampleStart, SamplerKnows
    <2>2. CASE FetchExport
      BY <1>1, <1>2, <2>2 DEF FetchExport, SamplerKnows
    <2>3. CASE FetchAllCommands
      <3>1. sampler.at = "commands" /\ sampler.sessions \subseteq stored /\ sampler.labeled \subseteq AlreadyLabeled /\ sampler.sessions \subseteq verdicts
        BY <2>3 DEF FetchAllCommands, SamplerKnows, ReviewFiles
      <3> QED BY <1>1, <1>2, <2>3, <3>1 DEF FetchAllCommands, SamplerKnows
    <2> QED BY <2>1, <2>2, <2>3
  <1>5. LabelerKnows' /\ NothingUnpredicted'
    BY <1>1, <1>2 DEF LabelerKnows, NothingUnpredicted
  <1>6. AgreementKnows'
    BY <1>1 DEF AgreementKnows, AgreementIsFair
  <1> QED BY <1>3, <1>4, <1>5, <1>6

\* The queue and the predictions are merged with a sample.
LEMMA MergeKeeps == ASSUME ReviewInv, Merge PROVE ReviewInv'
  <1> USE DEF ReviewInv
  <1>1. PICK sampled \in StratifiedSample :
            sampler' = [at |-> "queue", queue |-> MergedQueue(sampled), predictions |-> MergedPredictions(sampled)]
    BY DEF Merge
  <1>2. /\ UNCHANGED <<stored, verdicts, predictions, gold, samples, cutOff, labeler, agreement>>
        /\ sampler.at = "merge" /\ queue' = NoRows
    BY DEF Merge
  <1>3. /\ sampler'.at = "queue" /\ sampler'.queue = MergedQueue(sampled)
        /\ sampler'.predictions = MergedPredictions(sampled)
        /\ queue'.rows = <<>> /\ DOMAIN queue'.rows = {}
    BY <1>1, <1>2 DEF NoRows, File
  <1>4. sampled \subseteq sampler.sessions /\ sampled \subseteq verdicts /\ sampled \subseteq sampler.commands
    BY <1>2 DEF StratifiedSample, SamplerKnows
  <1>5. AlreadyLabeled' = AlreadyLabeled /\ LabeledOnce' = LabeledOnce
    BY <1>2 DEF AlreadyLabeled, LabeledOnce
  <1>6. ReviewFiles'
    BY <1>2, <1>3, <1>5 DEF ReviewFiles, QueueRows, PredictionRows
  <1>7. QueueRows(MergedQueue(sampled))
    <2>1. DOMAIN MergedQueue(sampled) \subseteq DOMAIN queue.rows \cup sampled
      BY DEF MergedQueue
    <2>2. ASSUME NEW s \in DOMAIN MergedQueue(sampled) PROVE MergedQueue(sampled)[s].commands
      <3>1. CASE s \in sampled
        <4>1. MergedQueue(sampled)[s] = BuildQueueRecord(s)
          BY <2>2, <3>1 DEF MergedQueue
        <4>2. s \in sampler.commands
          BY <1>4, <3>1
        <4>3. BuildQueueRecord(s).commands = (s \in sampler.commands)
          BY DEF BuildQueueRecord
        <4>4. BuildQueueRecord(s).commands
          BY <4>2, <4>3, Zenon
        <4> QED BY <4>1, <4>4
      <3>2. CASE s \notin sampled
        <4>1. s \in DOMAIN queue.rows /\ MergedQueue(sampled)[s] = queue.rows[s]
          BY <2>1, <2>2, <3>2 DEF MergedQueue
        <4> QED BY <4>1 DEF ReviewFiles, QueueRows
      <3> QED BY <3>1, <3>2
    <2> QED BY <1>4, <2>1, <2>2 DEF QueueRows, ReviewFiles
  <1>8. PredictionRows(MergedPredictions(sampled))
    <2>1. DOMAIN MergedPredictions(sampled) = DOMAIN predictions.rows \cup sampled
      BY DEF MergedPredictions
    <2>2. ASSUME NEW s \in DOMAIN MergedPredictions(sampled) PROVE MergedPredictions(sampled)[s] \in AttackerClasses
      <3>1. CASE s \in sampled
        <4>1. s \in Reviewed /\ MergedPredictions(sampled)[s] = AttackerClass[s]
          BY <1>4, <2>1, <2>2, <3>1 DEF MergedPredictions, ReviewFiles
        <4> QED BY <4>1, ReviewAssumption
      <3>2. CASE s \notin sampled
        <4>1. s \in DOMAIN predictions.rows /\ MergedPredictions(sampled)[s] = predictions.rows[s]
          BY <2>1, <2>2, <3>2 DEF MergedPredictions
        <4> QED BY <4>1 DEF ReviewFiles, PredictionRows
      <3> QED BY <3>1, <3>2
    <2> QED BY <1>4, <2>1, <2>2 DEF PredictionRows, ReviewFiles
  <1>9. SamplerKnows'
    BY <1>2, <1>3, <1>7, <1>8 DEF SamplerKnows, QueueRows, PredictionRows
  <1>10. LabelerKnows'
    BY <1>2, <1>5 DEF LabelerKnows
  <1>11. NothingUnpredicted'
    <2>1. Predicted = DOMAIN predictions.rows /\ Predicted' = DOMAIN predictions.rows \cup sampled
      BY <1>2, <1>3 DEF Predicted, MergedPredictions
    <2>2. DOMAIN sampler'.queue \subseteq DOMAIN queue.rows \cup sampled
      BY <1>3 DEF MergedQueue
    <2> QED BY <1>2, <1>3, <1>5, <2>1, <2>2 DEF NothingUnpredicted
  <1>12. AgreementKnows'
    BY <1>2 DEF AgreementKnows, AgreementIsFair
  <1> QED BY <1>6, <1>9, <1>10, <1>11, <1>12

\* A file that is being written holds some of the rows.
LEMMA GrowingRows ==
    ASSUME NEW f, NEW data, NEW g \in Growing(f, data)
    PROVE  DOMAIN g.rows \subseteq DOMAIN data /\ \A s \in DOMAIN g.rows : g.rows[s] = data[s]
  <1>1. PICK first \in SUBSET DOMAIN data, cut \in BOOLEAN : g = [rows |-> Restrict(data, first), torn |-> cut]
    BY DEF Growing
  <1> QED BY <1>1 DEF Restrict

\* The sampler writes its files.
LEMMA FlushQueueKeeps == ASSUME ReviewInv, FlushQueue PROVE ReviewInv'
  <1> USE DEF ReviewInv
  <1>1. /\ UNCHANGED <<stored, verdicts, predictions, gold, sampler, samples, cutOff, labeler, agreement>>
        /\ sampler.at = "queue" /\ queue' \in Growing(queue, sampler.queue)
    BY DEF FlushQueue
  <1>2. DOMAIN queue'.rows \subseteq DOMAIN sampler.queue /\ \A s \in DOMAIN queue'.rows : queue'.rows[s] = sampler.queue[s]
    BY <1>1, GrowingRows
  <1>3. AlreadyLabeled' = AlreadyLabeled /\ Predicted' = Predicted /\ LabeledOnce' = LabeledOnce
    BY <1>1 DEF AlreadyLabeled, Predicted, LabeledOnce
  <1>4. ReviewFiles'
    BY <1>1, <1>2, <1>3 DEF ReviewFiles, QueueRows, PredictionRows, SamplerKnows
  <1>5. SamplerKnows' /\ LabelerKnows'
    BY <1>1, <1>3 DEF SamplerKnows, LabelerKnows, QueueRows, PredictionRows
  <1>6. NothingUnpredicted'
    BY <1>1, <1>2, <1>3 DEF NothingUnpredicted
  <1>7. AgreementKnows'
    BY <1>1 DEF AgreementKnows, AgreementIsFair
  <1> QED BY <1>4, <1>5, <1>6, <1>7

\* The queue is complete.
LEMMA CloseQueueKeeps == ASSUME ReviewInv, CloseQueue PROVE ReviewInv'
  <1> USE DEF ReviewInv
  <1>1. /\ UNCHANGED <<stored, verdicts, gold, samples, cutOff, labeler, agreement>>
        /\ sampler.at = "queue" /\ queue'.rows = sampler.queue
        /\ predictions'.rows = <<>> /\ DOMAIN predictions'.rows = {}
        /\ sampler'.at = "predictions" /\ sampler'.predictions = sampler.predictions
    BY DEF CloseQueue, File, NoRows
  <1>2. AlreadyLabeled' = AlreadyLabeled /\ LabeledOnce' = LabeledOnce
    BY <1>1 DEF AlreadyLabeled, LabeledOnce
  <1>3. Predicted' = Predicted
    BY <1>1 DEF Predicted
  <1>4. ReviewFiles'
    BY <1>1, <1>2 DEF ReviewFiles, QueueRows, PredictionRows, SamplerKnows
  <1>5. SamplerKnows' /\ LabelerKnows'
    BY <1>1, <1>2 DEF SamplerKnows, LabelerKnows, PredictionRows
  <1>6. NothingUnpredicted'
    BY <1>1, <1>2, <1>3 DEF NothingUnpredicted
  <1>7. AgreementKnows'
    BY <1>1 DEF AgreementKnows, AgreementIsFair
  <1> QED BY <1>4, <1>5, <1>6, <1>7

\* Some of the predictions reach their file.
LEMMA FlushPredictionsKeeps == ASSUME ReviewInv, FlushPredictions PROVE ReviewInv'
  <1> USE DEF ReviewInv
  <1>1. /\ UNCHANGED <<stored, verdicts, queue, gold, sampler, samples, cutOff, labeler, agreement>>
        /\ sampler.at = "predictions" /\ predictions' \in Growing(predictions, sampler.predictions)
    BY DEF FlushPredictions
  <1>2. /\ DOMAIN predictions'.rows \subseteq DOMAIN sampler.predictions
        /\ \A s \in DOMAIN predictions'.rows : predictions'.rows[s] = sampler.predictions[s]
    BY <1>1, GrowingRows
  <1>3. AlreadyLabeled' = AlreadyLabeled /\ Predicted' = Predicted /\ LabeledOnce' = LabeledOnce
    BY <1>1 DEF AlreadyLabeled, Predicted, LabeledOnce
  <1>4. ReviewFiles'
    BY <1>1, <1>2, <1>3 DEF ReviewFiles, QueueRows, PredictionRows, SamplerKnows
  <1>5. SamplerKnows' /\ LabelerKnows'
    BY <1>1, <1>3 DEF SamplerKnows, LabelerKnows, QueueRows, PredictionRows
  <1>6. NothingUnpredicted'
    BY <1>1, <1>3 DEF NothingUnpredicted
  <1>7. AgreementKnows'
    BY <1>1 DEF AgreementKnows, AgreementIsFair
  <1> QED BY <1>4, <1>5, <1>6, <1>7

\* The predictions are complete, after the queue.
LEMMA ClosePredictionsKeeps == ASSUME ReviewInv, ClosePredictions PROVE ReviewInv'
  <1> USE DEF ReviewInv
  <1>1. /\ UNCHANGED <<stored, verdicts, queue, gold, samples, cutOff, labeler, agreement>>
        /\ sampler.at = "predictions" /\ predictions'.rows = sampler.predictions /\ sampler'.at = "off"
    BY DEF ClosePredictions, File, Idle
  <1>2. AlreadyLabeled' = AlreadyLabeled /\ LabeledOnce' = LabeledOnce
    BY <1>1 DEF AlreadyLabeled, LabeledOnce
  <1>3. Predicted' = Predicted
    BY <1>1 DEF Predicted
  <1>4. ReviewFiles'
    BY <1>1, <1>2 DEF ReviewFiles, QueueRows, PredictionRows, SamplerKnows
  <1>5. SamplerKnows' /\ LabelerKnows'
    BY <1>1, <1>2 DEF SamplerKnows, LabelerKnows
  <1>6. NothingUnpredicted'
    BY <1>1, <1>2, <1>3 DEF NothingUnpredicted
  <1>7. AgreementKnows'
    BY <1>1 DEF AgreementKnows, AgreementIsFair
  <1> QED BY <1>4, <1>5, <1>6, <1>7

\* The sampler is killed: from then on a prediction may be missing if it wrote.
LEMMA SamplerDiesKeeps == ASSUME ReviewInv, SamplerDies PROVE ReviewInv'
  <1> USE DEF ReviewInv
  <1>1. /\ UNCHANGED <<stored, verdicts, queue, predictions, gold, samples, labeler, agreement>>
        /\ cutOff' = (cutOff \/ sampler.at \in {"queue", "predictions"}) /\ sampler'.at = "off"
    BY DEF SamplerDies, Idle
  <1>2. AlreadyLabeled' = AlreadyLabeled /\ LabeledOnce' = LabeledOnce
    BY <1>1 DEF AlreadyLabeled, LabeledOnce
  <1>3. ReviewFiles'
    BY <1>1, <1>2 DEF ReviewFiles, QueueRows, PredictionRows
  <1>4. SamplerKnows' /\ LabelerKnows'
    BY <1>1, <1>2 DEF SamplerKnows, LabelerKnows
  <1>5. NothingUnpredicted'
    <2> SUFFICES ASSUME ~cutOff' PROVE NothingUnpredicted'
      BY DEF NothingUnpredicted
    <2>1. ~cutOff /\ sampler.at \notin {"queue", "predictions"}
      BY <1>1
    <2>2. Predicted' = Predicted
      BY <1>1, <2>1 DEF Predicted
    <2> QED BY <1>1, <1>2, <2>1, <2>2 DEF NothingUnpredicted
  <1>6. AgreementKnows'
    BY <1>1 DEF AgreementKnows, AgreementIsFair
  <1> QED BY <1>3, <1>4, <1>5, <1>6

\* The labeler starts or ends.
LEMMA LabelerTurns == ASSUME ReviewInv, LabelStart \/ LabelerEnds PROVE ReviewInv'
  <1> USE DEF ReviewInv
  <1>1. UNCHANGED <<stored, verdicts, queue, predictions, gold, sampler, samples, cutOff, agreement>>
    BY DEF LabelStart, LabelerEnds
  <1>2. AlreadyLabeled' = AlreadyLabeled /\ LabeledOnce' = LabeledOnce /\ Predicted' = Predicted
    BY <1>1 DEF AlreadyLabeled, LabeledOnce, Predicted
  <1>3. ReviewFiles' /\ SamplerKnows'
    BY <1>1, <1>2 DEF ReviewFiles, SamplerKnows, QueueRows, PredictionRows
  <1>4. Remaining \subseteq Reviewed \ AlreadyLabeled /\ Remaining \subseteq DOMAIN queue.rows
    BY DEF Remaining, ReviewFiles, QueueRows
  <1>5. labeler' = Idle \/ labeler' = [at |-> "label", remaining |-> Remaining]
    BY DEF LabelStart, LabelerEnds
  <1>6. LabelerKnows'
    BY <1>2, <1>4, <1>5 DEF LabelerKnows
  <1>7. NothingUnpredicted'
    <2>1. labeler'.at = "label" => labeler'.remaining = Remaining
      BY <1>5 DEF Idle
    <2> QED BY <1>1, <1>2, <1>4, <2>1 DEF NothingUnpredicted
  <1>8. AgreementKnows'
    BY <1>1 DEF AgreementKnows, AgreementIsFair
  <1> QED BY <1>3, <1>6, <1>7, <1>8

\* A label is given: the session had none, as the labeler still had to show it.
LEMMA PromptKeeps == ASSUME ReviewInv, PromptLabel PROVE ReviewInv'
  <1> USE DEF ReviewInv
  <1> DEFINE s == Min(labeler.remaining)
  <1>1. /\ UNCHANGED <<stored, verdicts, queue, predictions, sampler, samples, cutOff, agreement>>
        /\ labeler.at = "label" /\ labeler.remaining # {} /\ labeler' = [labeler EXCEPT !.remaining = @ \ {s}]
        /\ gold' = gold \/ \E c \in AttackerClasses \cup {"unsure"} : gold' = Append(gold, [session |-> s, label |-> c])
    BY DEF PromptLabel
  <1>2. labeler \in [at : {"label"}, remaining : SUBSET (Reviewed \ AlreadyLabeled)]
    BY <1>1 DEF LabelerKnows, Idle
  <1>3. s \in labeler.remaining
    <2> DEFINE R == labeler.remaining
    <2>1. R \in SUBSET Nat /\ R # {}
      BY <1>1, <1>2, ReviewAssumption
    <2> HIDE DEF R
    <2>2. PICK x \in R : \A y \in R : x <= y
      BY <2>1, LeastNumber
    <2>3. Min(R) \in R
      BY <2>2 DEF Min
    <2> QED BY <2>3 DEF R
  <1> HIDE DEF s
  <1>4. labeler' = [at |-> "label", remaining |-> labeler.remaining \ {s}]
    BY <1>1, <1>2
  <1>5. s \in Reviewed /\ s \notin AlreadyLabeled
    BY <1>2, <1>3
  <1>6. /\ gold' \in Seq(Labels) /\ LabeledOnce'
        /\ AlreadyLabeled \subseteq AlreadyLabeled' /\ AlreadyLabeled' \subseteq AlreadyLabeled \cup {s}
    <2>1. CASE gold' = gold
      BY <2>1 DEF ReviewFiles, LabeledOnce, AlreadyLabeled
    <2>2. ASSUME NEW c \in AttackerClasses \cup {"unsure"}, gold' = Append(gold, [session |-> s, label |-> c])
          PROVE  /\ gold' \in Seq(Labels) /\ LabeledOnce'
                 /\ AlreadyLabeled \subseteq AlreadyLabeled' /\ AlreadyLabeled' \subseteq AlreadyLabeled \cup {s}
      <3> DEFINE n == Len(gold)
                 e == [session |-> s, label |-> c]
      <3>1. gold \in Seq(Labels) /\ n \in Nat /\ DOMAIN gold = 1 .. n /\ e \in Labels /\ e.session = s
        BY <1>5, <2>2 DEF ReviewFiles, Labels
      <3> HIDE DEF e
      <3>2. /\ gold' \in Seq(Labels) /\ DOMAIN gold' = 1 .. (n + 1) /\ gold'[n + 1] = e
            /\ \A i \in 1 .. n : gold'[i] = gold[i]
        BY <2>2, <3>1 DEF e
      <3> HIDE DEF n
      <3>3. \A i \in 1 .. (n + 1) : i \in 1 .. n \/ i = n + 1
        BY <3>1
      <3>4. AlreadyLabeled \subseteq AlreadyLabeled' /\ AlreadyLabeled' \subseteq AlreadyLabeled \cup {s}
        <4>1. 1 .. n \subseteq 1 .. (n + 1)
          BY <3>1
        <4> QED BY <3>1, <3>2, <3>3, <4>1 DEF AlreadyLabeled
      <3>5. \A i \in 1 .. n : gold[i].session # s
        BY <1>5, <3>1 DEF AlreadyLabeled
      <3>6. \A i, j \in 1 .. n : gold[i].session = gold[j].session => i = j
        BY <3>1 DEF ReviewFiles, LabeledOnce, IsInjective
      <3>7. \A i, j \in 1 .. (n + 1) : gold'[i].session = gold'[j].session => i = j
        BY <3>1, <3>2, <3>3, <3>5, <3>6
      <3>8. LabeledOnce'
        BY <3>2, <3>7 DEF LabeledOnce, IsInjective
      <3> QED BY <3>2, <3>4, <3>8
    <2> QED BY <1>1, <2>1, <2>2
  <1>7. Predicted' = Predicted
    BY <1>1 DEF Predicted
  <1>8. ReviewFiles'
    BY <1>1, <1>6 DEF ReviewFiles, QueueRows, PredictionRows
  <1>9. SamplerKnows'
    BY <1>1, <1>6 DEF SamplerKnows, QueueRows, PredictionRows
  <1>10. LabelerKnows'
    BY <1>2, <1>4, <1>6 DEF LabelerKnows
  <1>11. NothingUnpredicted'
    BY <1>1, <1>3, <1>4, <1>6, <1>7 DEF NothingUnpredicted
  <1>12. AgreementKnows'
    BY <1>1 DEF AgreementKnows, AgreementIsFair
  <1> QED BY <1>8, <1>9, <1>10, <1>11, <1>12

\* The labels are read, and then the predictions, whatever these are by then.
LEMMA ReadGoldKeeps == ASSUME ReviewInv, ReadGold PROVE ReviewInv'
  <1> USE DEF ReviewInv
  <1>1. /\ UNCHANGED <<stored, verdicts, queue, predictions, gold, sampler, samples, cutOff, labeler>>
        /\ agreement' = [at |-> "join", gold |-> gold]
    BY DEF ReadGold
  <1>2. AlreadyLabeled' = AlreadyLabeled /\ LabeledOnce' = LabeledOnce /\ Predicted' = Predicted
    BY <1>1 DEF AlreadyLabeled, LabeledOnce, Predicted
  <1>3. ReviewFiles' /\ SamplerKnows'
    BY <1>1, <1>2 DEF ReviewFiles, SamplerKnows, QueueRows, PredictionRows
  <1>4. LabelerKnows' /\ NothingUnpredicted'
    BY <1>1, <1>2 DEF LabelerKnows, NothingUnpredicted
  <1>5. AgreementKnows'
    BY <1>1 DEF AgreementKnows, AgreementIsFair, ReviewFiles
  <1> QED BY <1>3, <1>4, <1>5

\* The report is computed from the labels read before and the predictions read now.
LEMMA ReportKeeps == ASSUME ReviewInv, Report PROVE ReviewInv'
  <1> USE DEF ReviewInv
  <1>1. UNCHANGED <<stored, verdicts, queue, predictions, gold, sampler, samples, cutOff, labeler>>
    BY DEF Report
  <1>2. AlreadyLabeled' = AlreadyLabeled /\ LabeledOnce' = LabeledOnce /\ Predicted' = Predicted
    BY <1>1 DEF AlreadyLabeled, LabeledOnce, Predicted
  <1>3. ReviewFiles' /\ SamplerKnows'
    BY <1>1, <1>2 DEF ReviewFiles, SamplerKnows, QueueRows, PredictionRows
  <1>4. LabelerKnows' /\ NothingUnpredicted'
    BY <1>1, <1>2 DEF LabelerKnows, NothingUnpredicted
  <1>5. AgreementKnows'
    <2> DEFINE labels == agreement.gold
               joined == JoinLabels(labels, predictions.rows)
               q == joined.pairs
               N == DOMAIN q
               m == ConfusionMatrix(q)
    <2>1. labels \in Seq(Labels) /\ \A s \in DOMAIN predictions.rows : predictions.rows[s] \in AttackerClasses
      BY DEF Report, AgreementKnows, ReviewFiles, PredictionRows
    <2>2. IsFiniteSet(N) /\ q \in [N -> Pair] /\ Len(labels) = Cardinality(N) + joined.unsure + joined.unmatched
      <3> HIDE DEF labels
      <3> QED BY <2>1, JoinCounts
    <2>3. /\ agreement'.at = "report" /\ agreement'.total = Len(labels) /\ agreement'.unsure = joined.unsure
          /\ agreement'.unmatched = joined.unmatched /\ agreement'.used = Cardinality(N)
          /\ agreement'.matrix = m /\ agreement'.kappa = CohensKappa(m) /\ agreement'.classes = PerClassMetrics(m)
      BY DEF Report
    <2> HIDE DEF labels, joined, q, N, m
    <2>4. m = ConfusionMatrix(q)
      BY DEF m
    <2>5. Total(m) = Cardinality(N)
      BY <2>2, <2>4, TotalCounts
    <2>6. FairKappa(m, CohensKappa(m))
      BY <2>2, <2>4, KappaIsFair
    <2>7. \A c \in AttackerClasses : FairClass(PerClassMetrics(m)[c])
      BY <2>2, <2>4, ClassIsFair
    <2>8. FairKappa(agreement'.matrix, agreement'.kappa)
      BY <2>3, <2>6
    <2>9. \A c \in AttackerClasses : FairClass(agreement'.classes[c])
      BY <2>3, <2>7
    <2>10. agreement'.total = agreement'.used + agreement'.unsure + agreement'.unmatched /\ agreement'.used = Total(agreement'.matrix)
      BY <2>2, <2>3, <2>5
    <2>11. AgreementIsFair'
      BY <2>8, <2>9, <2>10 DEF AgreementIsFair, FairKappa, FairClass
    <2> QED BY <2>3, <2>11 DEF AgreementKnows
  <1> QED BY <1>3, <1>4, <1>5

\* The review is sound: no session is labelled twice or without its prediction,
\* the reviewer sees every session with its commands, and the agreement report
\* accounts for every label with fair statistics, for any number of sessions,
\* classes and labels.
THEOREM ReviewIsSound == LabelSpec => []ReviewSound
  <1>1. LabelInit => ReviewInv
    BY ReviewInitially
  <1>2. ReviewInv /\ [LabelNext]_lvars => ReviewInv'
    <2> SUFFICES ASSUME ReviewInv, [LabelNext]_lvars PROVE ReviewInv'
      OBVIOUS
    <2>1. CASE UNCHANGED lvars
      <3>1. UNCHANGED <<stored, verdicts, queue, predictions, gold, sampler, cutOff, labeler, agreement>>
        BY <2>1 DEF lvars
      <3>2. AlreadyLabeled' = AlreadyLabeled /\ LabeledOnce' = LabeledOnce /\ Predicted' = Predicted /\ AgreementIsFair' = AgreementIsFair
        BY <3>1 DEF AlreadyLabeled, LabeledOnce, Predicted, AgreementIsFair
      <3>3. ReviewFiles' /\ SamplerKnows'
        BY <3>1, <3>2 DEF ReviewInv, ReviewFiles, SamplerKnows, QueueRows, PredictionRows
      <3>4. LabelerKnows' /\ NothingUnpredicted' /\ AgreementKnows'
        BY <3>1, <3>2 DEF ReviewInv, LabelerKnows, NothingUnpredicted, AgreementKnows
      <3> QED BY <3>3, <3>4 DEF ReviewInv
    <2>2. ASSUME NEW s \in Reviewed, Store(s) \/ Enrich(s) PROVE ReviewInv'
      BY <2>2, StoreKeeps
    <2>3. CASE SampleStart \/ FetchExport \/ FetchAllCommands
      BY <2>3, SampleReads
    <2>4. CASE Merge
      BY <2>4, MergeKeeps
    <2>5. CASE FlushQueue
      BY <2>5, FlushQueueKeeps
    <2>6. CASE CloseQueue
      BY <2>6, CloseQueueKeeps
    <2>7. CASE FlushPredictions
      BY <2>7, FlushPredictionsKeeps
    <2>8. CASE ClosePredictions
      BY <2>8, ClosePredictionsKeeps
    <2>9. CASE SamplerDies
      BY <2>9, SamplerDiesKeeps
    <2>10. CASE LabelStart \/ LabelerEnds
      BY <2>10, LabelerTurns
    <2>11. CASE PromptLabel
      BY <2>11, PromptKeeps
    <2>12. CASE ReadGold
      BY <2>12, ReadGoldKeeps
    <2>13. CASE Report
      BY <2>13, ReportKeeps
    <2> QED BY <2>1, <2>2, <2>3, <2>4, <2>5, <2>6, <2>7, <2>8, <2>9, <2>10, <2>11, <2>12, <2>13 DEF LabelNext
  <1>3. ReviewInv => ReviewSound
    <2> SUFFICES ASSUME ReviewInv PROVE ReviewSound
      OBVIOUS
    <2>1. LabelTypeOK
      <3>1. \A n \in DOMAIN gold : gold[n] \in Labels
        BY DEF ReviewInv, ReviewFiles
      <3> QED BY <3>1 DEF ReviewInv, ReviewFiles, QueueRows, PredictionRows, LabelTypeOK, Labels
    <2>2. LabeledOnce /\ AgreementIsFair
      BY DEF ReviewInv, ReviewFiles, AgreementKnows
    <2>3. LabeledIsPredicted
      BY DEF ReviewInv, NothingUnpredicted, Predicted, LabeledIsPredicted
    <2>4. QueueIsWhole
      BY DEF ReviewInv, ReviewFiles, QueueRows, QueueIsWhole
    <2> QED BY <2>1, <2>2, <2>3, <2>4 DEF ReviewSound
  <1> QED BY <1>1, <1>2, <1>3, PTL DEF LabelSpec

-----------------------------------------------------------------------------
(* The corpus: a sequence of blocks *)

\* The rows of an address are numbered.
LEMMA SetToSeqIs ==
    ASSUME NEW S, IsFiniteSet(S)
    PROVE  SetToSeq(S) \in [1 .. Cardinality(S) -> S] /\ IsInjective(SetToSeq(S))
  <1>1. PICK f : f \in Bijection(1 .. Cardinality(S), S)
    BY FS_CardinalityType DEF ExistsBijection
  <1>2. f \in [1 .. Cardinality(S) -> S] /\ IsInjective(f)
    BY <1>1 DEF Bijection, Injection, IsInjective
  <1> QED BY <1>2 DEF SetToSeq

\* Flattening is concatenating one sequence after the other.
Concatenates(f, seqs) ==
    f = [i \in 1 .. Len(seqs) |-> IF i = 1 THEN seqs[i] ELSE f[i - 1] \o seqs[i]]

\* There is such a function.
LEMMA ConcatenatesExists ==
    ASSUME NEW R, NEW seqs \in Seq(Seq(R))
    PROVE  \E f : f \in [1 .. Len(seqs) -> Seq(R)] /\ Concatenates(f, seqs)
  <1> DEFINE n == Len(seqs)
             step(f, i) == IF i = 1 THEN seqs[i] ELSE f[i - 1] \o seqs[i]
             N == {k \in Nat : \E f \in [1 .. n -> Seq(R)] : \A i \in 1 .. n : i <= k => f[i] = step(f, i)}
  <1>0. n \in Nat /\ \A i \in 1 .. n : seqs[i] \in Seq(R)
    OBVIOUS
  <1>1. 0 \in N
    <2> DEFINE f == [i \in 1 .. n |-> <<>>]
    <2>1. f \in [1 .. n -> Seq(R)] /\ \A i \in 1 .. n : ~(i <= 0)
      BY <1>0
    <2> HIDE DEF n, f, step
    <2> QED BY <2>1
  <1>2. ASSUME NEW k \in Nat, k \in N PROVE k + 1 \in N
    <2>1. PICK f \in [1 .. n -> Seq(R)] : \A i \in 1 .. n : i <= k => f[i] = step(f, i)
      BY <1>2
    <2> DEFINE g == [i \in 1 .. n |-> step(f, i)]
    <2> HIDE DEF n
    <2>2. ASSUME NEW i \in 1 .. n PROVE step(f, i) \in Seq(R)
      <3>1. CASE i = 1
        BY <1>0, <3>1
      <3>2. CASE i # 1
        <4>1. i - 1 \in 1 .. n
          BY <1>0, <3>2
        <4>2. f[i - 1] \in Seq(R) /\ seqs[i] \in Seq(R)
          BY <1>0, <2>1, <4>1
        <4>3. f[i - 1] \o seqs[i] \in Seq(R)
          BY <4>2
        <4> QED BY <3>2, <4>3
      <3> QED BY <3>1, <3>2
    <2>3. g \in [1 .. n -> Seq(R)]
      <3> HIDE DEF step
      <3> QED BY <2>2
    <2>4. ASSUME NEW i \in 1 .. n, i <= k + 1 PROVE g[i] = step(g, i)
      <3>1. CASE i = 1
        BY <3>1
      <3>2. CASE i # 1
        <4>1. i - 1 \in 1 .. n /\ i - 1 <= k
          BY <1>0, <2>4, <3>2
        <4>2. f[i - 1] = step(f, i - 1) /\ g[i - 1] = step(f, i - 1)
          <5> HIDE DEF step
          <5> QED BY <2>1, <4>1
        <4>3. g[i] = step(f, i)
          <5> HIDE DEF step
          <5> QED OBVIOUS
        <4>4. step(f, i) = f[i - 1] \o seqs[i] /\ step(g, i) = g[i - 1] \o seqs[i]
          <5> HIDE DEF g
          <5> QED BY <3>2
        <4> HIDE DEF g, step
        <4> QED BY <4>2, <4>3, <4>4
      <3> QED BY <3>1, <3>2
    <2> HIDE DEF g, step
    <2>5. \E h \in [1 .. n -> Seq(R)] : \A i \in 1 .. n : i <= k + 1 => h[i] = step(h, i)
      BY <2>3, <2>4
    <2>6. k + 1 \in Nat
      OBVIOUS
    <2> QED BY <2>5, <2>6
  <1>3. Nat \subseteq N
    <2> HIDE DEF N
    <2> QED BY <1>1, <1>2, Induction
  <1>4. n \in N
    BY <1>0, <1>3
  <1>5. PICK f \in [1 .. n -> Seq(R)] : \A i \in 1 .. n : i <= n => f[i] = step(f, i)
    BY <1>4
  <1>6. f = [i \in 1 .. n |-> step(f, i)]
    <2> HIDE DEF n, step
    <2> QED BY <1>0, <1>5
  <1> QED BY <1>6 DEF Concatenates

\* So FlattenSeq can be followed one sequence at a time.
LEMMA FlattenSteps ==
    ASSUME NEW R, NEW seqs \in Seq(Seq(R)), Len(seqs) # 0
    PROVE  \E f : /\ FlattenSeq(seqs) = f[Len(seqs)] /\ f[1] = seqs[1]
                  /\ \A i \in 1 .. Len(seqs) : i # 1 => f[i] = f[i - 1] \o seqs[i]
  <1> DEFINE f == CHOOSE g : Concatenates(g, seqs)
  <1>1. FlattenSeq(seqs) = f[Len(seqs)]
    BY DEF FlattenSeq, Concatenates
  <1>2. Concatenates(f, seqs)
    BY ConcatenatesExists
  <1>3. Len(seqs) \in Nat /\ 1 \in 1 .. Len(seqs)
    OBVIOUS
  <1> HIDE DEF f
  <1>4. f[1] = seqs[1] /\ \A i \in 1 .. Len(seqs) : i # 1 => f[i] = f[i - 1] \o seqs[i]
    BY <1>2, <1>3 DEF Concatenates
  <1> QED BY <1>1, <1>4

-----------------------------------------------------------------------------
(* The inductive invariant of the corpus *)

Queries == {"counts", "pairs", "detect", "report", "sessions", "commands", "attempts", "build", "write"}
ReadOf == [commands : BOOLEAN, attempts : BOOLEAN]
CorpusRows == [ip : Ips, kit : Nat \cup {Unknown}, session : Sess, read : ReadOf]

\* What the properties ask of one corpus: nothing that happens later changes it.
Own(corpus, ip) == {m \in DOMAIN corpus : corpus[m].ip = ip}

GoodCorpus(corpus) ==
    /\ corpus \in Seq(CorpusRows)
    /\ IsInjective([n \in DOMAIN corpus |-> corpus[n].session])
    /\ \A n \in DOMAIN corpus :
           /\ corpus[n].read.commands /\ corpus[n].read.attempts
           /\ corpus[n].kit # Unknown => Cardinality(Own(corpus, corpus[n].ip)) >= corpus[n].kit * WordlistLen
           /\ Own(corpus, corpus[n].ip) = Min(Own(corpus, corpus[n].ip)) .. Max(Own(corpus, corpus[n].ip))
           /\ Cardinality(Own(corpus, corpus[n].ip)) >= MinSessions
           /\ \A m \in Own(corpus, corpus[n].ip) : corpus[m].kit = corpus[n].kit

\* The counts were right once, and sessions are only added.
CountsKnown ==
    proc.at \notin {"end", "counts"} =>
        \A ip \in DOMAIN counts : ip \in Ips /\ counts[ip] \in Nat \ {0} /\ counts[ip] <= Cardinality(Rows(ip))

PairsKnown == proc.at \notin {"end", "counts", "pairs"} => DOMAIN pairs = Candidates

Member(ip) == [ip |-> ip, tier |-> counts[ip] \div WordlistLen, count |-> counts[ip]]

CampaignKnown ==
    \/ campaign = Nobody
    \/ /\ proc.at \in {"report", "sessions", "commands", "attempts", "build", "write"}
       /\ campaign.members \subseteq {Member(ip) : ip \in Candidates}
       /\ campaign.excluded \subseteq Candidates

\* The sessions are read after they were counted, so none that was counted is
\* missing, and their commands and attempts were saved together with them.
GotKnown ==
    proc.at \in {"commands", "attempts", "build", "write"} =>
        /\ \A s \in DOMAIN got : s \in saved /\ got[s] \in ReadOf
        /\ \A ip \in DOMAIN counts : counts[ip] <= Cardinality(Read(ip))
        /\ proc.at # "commands" => \A s \in DOMAIN got : got[s].commands
        /\ proc.at \in {"build", "write"} => \A s \in DOMAIN got : got[s].attempts

\* The rows that are of none of the exports E.
Foreign(seq, E) == {n \in DOMAIN seq : \A corpus \in E : \A m \in DOMAIN corpus : seq[n] # corpus[m]}

\* What a load has read, l, begins with rows of one export.
LoadSound(l, E) ==
    /\ l.rows \in Seq(CorpusRows \cup {Spliced}) /\ l.own \in Nat /\ l.cuts \in Nat /\ l.own <= Len(l.rows)
    /\ l.own = 0 \/ \E corpus \in E : IsPrefix(SubSeq(l.rows, 1, l.own), corpus)
    /\ l.cuts = 0 => l.own = Len(l.rows)

\* A load that was not overtaken has read the beginning of the file f, and one
\* that was may still read one row that is foreign, unless it already has.
ReaderKnown(f, E, r) ==
    /\ r \in [on : BOOLEAN, rows : Seq(CorpusRows \cup {Spliced}), own : Nat, cuts : Nat, pos : Nat,
              seam : {"none", "splice", "junk"}]
    /\ LoadSound(r, E)
    /\ ~r.on => r.rows = <<>>
    /\ Cardinality(Foreign(r.rows, E)) + (IF r.seam = "none" THEN 0 ELSE 1) <= r.cuts
    /\ r.cuts = 0 => r.pos = r.own /\ r.pos <= Len(f.rows) /\ r.rows = SubSeq(f.rows, 1, r.pos)

LoadedKnown(E, l) == LoadSound(l, E) /\ Cardinality(Foreign(l.rows, E)) <= l.cuts

\* The file is the beginning of a corpus, and while one is written, what is still
\* to be written completes it.
FilesKnown ==
    /\ \A corpus \in exports : GoodCorpus(corpus)
    /\ rows \in Seq(CorpusRows)
    /\ file \in [rows : Seq(CorpusRows), torn : BOOLEAN]
    /\ file.rows = <<>> \/ \E corpus \in exports : IsPrefix(file.rows, corpus)
    /\ ReaderKnown(file, exports, reader) /\ LoadedKnown(exports, loaded)
    /\ proc.at = "write" => file.rows \o rows \in exports

CorpusInv ==
    /\ saved \subseteq Sess /\ started \in 0 .. Commands
    /\ proc = Off \/ proc \in [kind : {"detect", "export"}, at : Queries]
    /\ CountsKnown /\ PairsKnown /\ CampaignKnown /\ MembersShareWordlist /\ GotKnown /\ FilesKnown

-----------------------------------------------------------------------------
(* Building a corpus *)

\* A row of an address that is kept.
RowOf(x) ==
    /\ x \in CorpusRows /\ x.session \in DOMAIN got /\ x.ip = Ip[x.session] /\ x.read = got[x.session]
    /\ x.kit = ToolkitLabelFor(x.ip) /\ Kept(x.ip)

\* What has been built of a corpus from the addresses in D.
Built(c, D) ==
    /\ c \in Seq(CorpusRows)
    /\ \A n \in DOMAIN c : RowOf(c[n]) /\ c[n].ip \in D
    /\ \A n, m \in DOMAIN c : c[n].session = c[m].session => n = m
    /\ \A n \in DOMAIN c : \E lo \in Nat : Own(c, c[n].ip) = (lo + 1) .. (lo + Cardinality(Read(c[n].ip)))

\* What the queries have left to build from.
Readings ==
    /\ \A s \in DOMAIN got : s \in Sess /\ got[s] \in ReadOf
    /\ \A ip : ToolkitLabelFor(ip) \in Nat \cup {Unknown}

\* An address has finitely many sessions.
LEMMA ReadFinite == ASSUME Readings, NEW ip PROVE IsFiniteSet(Read(ip)) /\ Cardinality(Read(ip)) \in Nat
  <1>1. Read(ip) \subseteq Sess
    BY DEF Readings, Read
  <1> QED BY <1>1, FS_Subset, FS_CardinalityType, CorpusAssumption

\* The block of an address holds each of its sessions once.
LEMMA BlockIs ==
    ASSUME Readings, NEW ip, Kept(ip)
    PROVE  /\ Block(ip) \in Seq(CorpusRows) /\ Len(Block(ip)) = Cardinality(Read(ip))
           /\ \A n \in 1 .. Cardinality(Read(ip)) : RowOf(Block(ip)[n]) /\ Block(ip)[n].ip = ip
           /\ \A n, m \in 1 .. Cardinality(Read(ip)) : Block(ip)[n].session = Block(ip)[m].session => n = m
  <1> DEFINE K == Cardinality(Read(ip))
             q == SetToSeq(Read(ip))
             b == Block(ip)
  <1>1. IsFiniteSet(Read(ip)) /\ K \in Nat
    BY ReadFinite
  <1>2. q \in [1 .. K -> Read(ip)] /\ IsInjective(q)
    BY <1>1, SetToSeqIs
  <1>3. b = [n \in 1 .. K |-> [ip |-> ip, kit |-> ToolkitLabelFor(ip), session |-> q[n], read |-> got[q[n]]]]
    BY <1>2 DEF Block
  <1> HIDE DEF K, q, b
  <1>4. ASSUME NEW n \in 1 .. K PROVE RowOf(b[n]) /\ b[n].ip = ip /\ b[n].session = q[n] /\ b[n] \in CorpusRows
    <2>1. q[n] \in DOMAIN got /\ Ip[q[n]] = ip /\ q[n] \in Sess /\ got[q[n]] \in ReadOf
      BY <1>2 DEF Read, Readings
    <2>2. ip \in Ips
      BY <2>1 DEF Ips
    <2>3. b[n] = [ip |-> ip, kit |-> ToolkitLabelFor(ip), session |-> q[n], read |-> got[q[n]]]
      BY <1>3
    <2>4. ToolkitLabelFor(ip) \in Nat \cup {Unknown}
      BY DEF Readings
    <2>5. b[n] \in CorpusRows
      BY <2>1, <2>2, <2>3, <2>4 DEF CorpusRows
    <2> QED BY <2>1, <2>3, <2>5 DEF RowOf
  <1>5. b \in [1 .. K -> CorpusRows]
    BY <1>3, <1>4
  <1>6. b \in Seq(CorpusRows) /\ Len(b) = K
    BY <1>1, <1>5
  <1>7. \A n, m \in 1 .. K : b[n].session = b[m].session => n = m
    BY <1>2, <1>4 DEF IsInjective
  <1> QED BY <1>4, <1>6, <1>7 DEF K, b

\* An address adds its block.
LEMMA AppendBlock ==
    ASSUME Readings, NEW c, NEW D, Built(c, D), NEW ip, ip \notin D, Kept(ip)
    PROVE  Built(c \o Block(ip), D \cup {ip})
  <1> DEFINE b == Block(ip)
             K == Cardinality(Read(ip))
             l == Len(c)
             e == c \o b
  <1>1. /\ b \in Seq(CorpusRows) /\ Len(b) = K
        /\ \A n \in 1 .. K : RowOf(b[n]) /\ b[n].ip = ip
        /\ \A n, m \in 1 .. K : b[n].session = b[m].session => n = m
    BY BlockIs
  <1>2. c \in Seq(CorpusRows) /\ l \in Nat /\ DOMAIN c = 1 .. l /\ K \in Nat
    BY ReadFinite DEF Built
  <1>3. /\ e \in Seq(CorpusRows) /\ DOMAIN e = 1 .. (l + K)
        /\ \A n \in 1 .. l : e[n] = c[n]
        /\ \A n \in (l + 1) .. (l + K) : e[n] = b[n - l] /\ n - l \in 1 .. K
    <2> HIDE DEF b
    <2> QED BY <1>1, <1>2
  <1>4. /\ \A n \in 1 .. l : RowOf(c[n]) /\ c[n].ip \in D
        /\ \A n, m \in 1 .. l : c[n].session = c[m].session => n = m
        /\ \A n \in 1 .. l : \E lo \in Nat : Own(c, c[n].ip) = (lo + 1) .. (lo + Cardinality(Read(c[n].ip)))
    BY <1>2 DEF Built
  <1> HIDE DEF b, K, l, e
  <1>5. \A n \in 1 .. (l + K) : n \in 1 .. l \/ n \in (l + 1) .. (l + K)
    BY <1>2
  <1>6. \A n \in DOMAIN e : RowOf(e[n]) /\ e[n].ip \in D \cup {ip}
    BY <1>1, <1>3, <1>4, <1>5
  <1>7. \A n \in 1 .. l : \A m \in (l + 1) .. (l + K) : e[n].ip # e[m].ip /\ e[n].session # e[m].session
    <2> SUFFICES ASSUME NEW n \in 1 .. l, NEW m \in (l + 1) .. (l + K) PROVE e[n].ip # e[m].ip /\ e[n].session # e[m].session
      OBVIOUS
    <2>1. e[n].ip \in D /\ e[n].ip = Ip[e[n].session] /\ e[m].ip = ip /\ e[m].ip = Ip[e[m].session]
      BY <1>1, <1>3, <1>4 DEF RowOf
    <2> QED BY <2>1
  <1>8. \A n, m \in DOMAIN e : e[n].session = e[m].session => n = m
    <2> SUFFICES ASSUME NEW n \in 1 .. (l + K), NEW m \in 1 .. (l + K), e[n].session = e[m].session PROVE n = m
      BY <1>3
    <2>1. CASE n \in 1 .. l /\ m \in 1 .. l
      BY <1>3, <1>4, <2>1
    <2>2. CASE n \in (l + 1) .. (l + K) /\ m \in (l + 1) .. (l + K)
      <3>1. n - l = m - l
        BY <1>1, <1>3, <2>2
      <3> QED BY <1>2, <3>1
    <2> QED BY <1>5, <1>7, <2>1, <2>2
  <1>9. ASSUME NEW n \in DOMAIN e
        PROVE  \E lo \in Nat : Own(e, e[n].ip) = (lo + 1) .. (lo + Cardinality(Read(e[n].ip)))
    <2>1. CASE n \in 1 .. l
      <3>1. Own(e, e[n].ip) = Own(c, c[n].ip)
        <4>1. \A m \in 1 .. l : m \in 1 .. (l + K)
          BY <1>2
        <4> QED BY <1>2, <1>3, <1>5, <1>7, <2>1, <4>1 DEF Own
      <3> QED BY <1>3, <1>4, <2>1, <3>1
    <2>2. CASE n \in (l + 1) .. (l + K)
      <3>1. Own(e, e[n].ip) = (l + 1) .. (l + K)
        <4>1. \A m \in (l + 1) .. (l + K) : m \in 1 .. (l + K)
          BY <1>2
        <4>2. \A m \in (l + 1) .. (l + K) : e[m].ip = ip
          BY <1>1, <1>3
        <4> QED BY <1>3, <1>5, <1>7, <2>2, <4>1, <4>2 DEF Own
      <3>2. e[n].ip = ip
        BY <1>1, <1>3, <2>2
      <3> QED BY <1>2, <3>1, <3>2 DEF K
    <2> QED BY <1>3, <1>5, <2>1, <2>2
  <1> QED BY <1>3, <1>6, <1>8, <1>9 DEF Built, e, b

BlockOrNone(ip) == IF Kept(ip) THEN Block(ip) ELSE <<>>

\* What an address contributes is a sequence of rows.
LEMMA BlockOrNoneIs == ASSUME Readings, NEW ip PROVE BlockOrNone(ip) \in Seq(CorpusRows)
  BY BlockIs DEF BlockOrNone

\* One more address is built in.
LEMMA AddAddress ==
    ASSUME Readings, NEW c, NEW D, Built(c, D), NEW ip, ip \notin D
    PROVE  Built(c \o BlockOrNone(ip), D \cup {ip})
  <1>1. CASE Kept(ip)
    BY <1>1, AppendBlock DEF BlockOrNone
  <1>2. CASE ~Kept(ip)
    <2>1. c \o BlockOrNone(ip) = c
      <3>1. c \in Seq(CorpusRows)
        BY DEF Built
      <3> QED BY <1>2, <3>1 DEF BlockOrNone
    <2>2. Built(c, D \cup {ip})
      BY DEF Built
    <2> QED BY <2>1, <2>2
  <1> QED BY <1>1, <1>2

\* The corpus is built from the blocks of all addresses, whatever their order.
LEMMA CorpusIsBuilt ==
    ASSUME Readings, NEW I, IsFiniteSet(I), NEW ips \in SetToSeqs(I)
    PROVE  Built(Corpus(ips), I)
  <1> DEFINE k == Cardinality(I)
             seqs == [n \in DOMAIN ips |-> IF Kept(ips[n]) THEN Block(ips[n]) ELSE <<>>]
             D(i) == {ips[j] : j \in 1 .. i}
  <1>1. k \in Nat /\ ips \in [1 .. k -> I] /\ \A i, j \in 1 .. k : i # j => ips[i] # ips[j]
    BY FS_CardinalityType DEF SetToSeqs
  <1>2. Corpus(ips) = FlattenSeq(seqs)
    BY DEF Corpus
  <1>3. DOMAIN seqs = 1 .. k /\ \A i \in 1 .. k : seqs[i] = BlockOrNone(ips[i])
    BY <1>1 DEF BlockOrNone
  <1>4. seqs \in [1 .. k -> Seq(CorpusRows)]
    <2>1. seqs = [i \in 1 .. k |-> BlockOrNone(ips[i])]
      BY <1>1 DEF BlockOrNone
    <2> QED BY <1>1, <2>1, BlockOrNoneIs
  <1>5. seqs \in Seq(Seq(CorpusRows)) /\ Len(seqs) = k
    <2> HIDE DEF seqs, k
    <2> QED BY <1>1, <1>4
  <1> HIDE DEF seqs, k
  <1>6. Built(<<>>, {})
    BY DEF Built
  <1>7. CASE k = 0
    <2>1. FlattenSeq(seqs) = seqs
      BY <1>5, <1>7 DEF FlattenSeq
    <2>2. seqs = <<>>
      BY <1>5, <1>7
    <2>3. I = {}
      BY <1>7, FS_EmptySet DEF k
    <2> QED BY <1>2, <1>6, <2>1, <2>2, <2>3
  <1>8. CASE k # 0
    <2>1. PICK f : /\ FlattenSeq(seqs) = f[k] /\ f[1] = seqs[1]
                   /\ \A i \in 1 .. k : i # 1 => f[i] = f[i - 1] \o seqs[i]
      BY <1>5, <1>8, FlattenSteps
    <2> DEFINE N == {i \in Nat : i \in 1 .. k => Built(f[i], D(i))}
    <2>2. 0 \in N
      OBVIOUS
    <2>3. ASSUME NEW i \in Nat, i \in N PROVE i + 1 \in N
      <3> SUFFICES ASSUME i + 1 \in 1 .. k PROVE Built(f[i + 1], D(i + 1))
        OBVIOUS
      <3>1. D(i + 1) = D(i) \cup {ips[i + 1]} /\ ips[i + 1] \notin D(i)
        <4>1. 1 .. (i + 1) = 1 .. i \cup {i + 1} /\ \A j \in 1 .. i : j \in 1 .. k /\ j # i + 1
          BY <1>1
        <4> QED BY <1>1, <4>1
      <3>2. seqs[i + 1] = BlockOrNone(ips[i + 1])
        BY <1>3
      <3>3. CASE i = 0
        <4>1. D(i) = {}
          BY <3>3
        <4>2. Built(<<>> \o BlockOrNone(ips[i + 1]), {} \cup {ips[i + 1]})
          BY <1>6, AddAddress
        <4>3. <<>> \o BlockOrNone(ips[i + 1]) = BlockOrNone(ips[i + 1])
          BY BlockOrNoneIs
        <4>4. f[i + 1] = BlockOrNone(ips[i + 1])
          BY <2>1, <3>2, <3>3
        <4> HIDE DEF D
        <4> QED BY <3>1, <4>1, <4>2, <4>3, <4>4
      <3>4. CASE i # 0
        <4>1. i \in 1 .. k /\ i + 1 # 1 /\ (i + 1) - 1 = i
          BY <1>1, <3>4
        <4>2. f[i + 1] = f[i] \o BlockOrNone(ips[i + 1])
          BY <2>1, <3>2, <4>1
        <4>3. Built(f[i], D(i))
          BY <2>3, <4>1
        <4> HIDE DEF D
        <4>4. Built(f[i] \o BlockOrNone(ips[i + 1]), D(i) \cup {ips[i + 1]})
          BY <3>1, <4>3, AddAddress
        <4> QED BY <3>1, <4>2, <4>4
      <3> QED BY <3>3, <3>4
    <2>4. Nat \subseteq N
      <3> HIDE DEF N
      <3> QED BY <2>2, <2>3, Induction
    <2>5. Built(f[k], D(k))
      <3>1. k \in N
        <4> HIDE DEF N
        <4> QED BY <1>1, <2>4
      <3>2. k \in 1 .. k
        BY <1>1, <1>8
      <3> HIDE DEF D
      <3> QED BY <3>1, <3>2
    <2>6. D(k) \subseteq I
      BY <1>1
    <2>7. Built(f[k], I)
      <3> HIDE DEF D
      <3> QED BY <2>5, <2>6 DEF Built
    <2> QED BY <1>2, <2>1, <2>7
  <1> QED BY <1>7, <1>8

\* The least and the largest number of an interval.
LEMMA IntervalEnds ==
    ASSUME NEW i \in Int, NEW j \in Int, i <= j
    PROVE  Min(i .. j) = i /\ Max(i .. j) = j
  <1>1. i \in i .. j /\ j \in i .. j /\ \A x \in i .. j : i <= x /\ x <= j
    OBVIOUS
  <1>2. Min(i .. j) \in i .. j /\ \A y \in i .. j : Min(i .. j) <= y
    BY <1>1 DEF Min
  <1>3. Max(i .. j) \in i .. j /\ \A y \in i .. j : Max(i .. j) >= y
    BY <1>1 DEF Max
  <1> QED BY <1>1, <1>2, <1>3

\* A label of the corpus is the tier of a member.
LEMMA KitIs ==
    ASSUME CountsKnown, CampaignKnown, proc.at \notin {"end", "counts"}, NEW ip
    PROVE  \/ ToolkitLabelFor(ip) = Unknown
           \/ /\ ip \in DOMAIN counts /\ ToolkitLabelFor(ip) \in Nat
              /\ ToolkitLabelFor(ip) * WordlistLen <= counts[ip]
  <1>1. CASE ~ \E m \in campaign.members : m.ip = ip
    BY <1>1 DEF ToolkitLabelFor
  <1>2. CASE \E m \in campaign.members : m.ip = ip
    <2>1. PICK m \in campaign.members : m.ip = ip /\ ToolkitLabelFor(ip) = m.tier
      BY <1>2 DEF ToolkitLabelFor
    <2>2. campaign # Nobody
      BY <2>1 DEF Nobody
    <2>3. PICK x \in Candidates : m = Member(x)
      BY <2>1, <2>2 DEF CampaignKnown
    <2>4. m.ip = x /\ m.tier = counts[x] \div WordlistLen
      BY <2>3 DEF Member
    <2>5. x \in DOMAIN counts /\ counts[x] \in Nat
      BY <2>3 DEF Candidates, CountsKnown
    <2>6. \A i \in Nat, j \in Nat \ {0} : (i \div j) \in Nat /\ (i \div j) * j <= i
      BY SMTT(30)
    <2> QED BY <2>1, <2>4, <2>5, <2>6, CorpusAssumption
  <1> QED BY <1>1, <1>2

\* A corpus that is built from the readings of a whole export is good.
LEMMA BuiltIsGood ==
    ASSUME Readings, CountsKnown, CampaignKnown, GotKnown, proc.at = "build", NEW c, NEW D, Built(c, D)
    PROVE  GoodCorpus(c)
  <1>1. c \in Seq(CorpusRows) /\ IsInjective([n \in DOMAIN c |-> c[n].session])
    BY DEF Built, IsInjective
  <1>2. ASSUME NEW n \in DOMAIN c
        PROVE  /\ c[n].read.commands /\ c[n].read.attempts
               /\ c[n].kit # Unknown => Cardinality(Own(c, c[n].ip)) >= c[n].kit * WordlistLen
               /\ Own(c, c[n].ip) = Min(Own(c, c[n].ip)) .. Max(Own(c, c[n].ip))
               /\ Cardinality(Own(c, c[n].ip)) >= MinSessions
               /\ \A m \in Own(c, c[n].ip) : c[m].kit = c[n].kit
    <2> DEFINE ip == c[n].ip
               K == Cardinality(Read(ip))
               O == Own(c, ip)
    <2>1. RowOf(c[n])
      BY DEF Built
    <2>2. PICK lo \in Nat : O = (lo + 1) .. (lo + K)
      BY DEF Built
    <2>3. K \in Nat
      BY ReadFinite
    <2>4. K >= MinSessions /\ MinSessions \in Nat \ {0}
      BY <2>1, CorpusAssumption DEF RowOf, Kept
    <2>5. c[n].read.commands /\ c[n].read.attempts
      BY <2>1 DEF RowOf, GotKnown
    <2>6. ASSUME NEW m \in O PROVE c[m].kit = c[n].kit
      <3>1. m \in DOMAIN c /\ c[m].ip = c[n].ip
        BY DEF Own
      <3>2. RowOf(c[m])
        BY <3>1 DEF Built
      <3> QED BY <2>1, <3>1, <3>2 DEF RowOf
    <2>7. Cardinality((lo + 1) .. (lo + K)) = K
      <3>1. lo + 1 \in Int /\ lo + K \in Int
        BY <2>3
      <3> HIDE DEF K
      <3>2. Cardinality((lo + 1) .. (lo + K)) = IF lo + 1 > lo + K THEN 0 ELSE (lo + K) - (lo + 1) + 1
        BY <3>1, FS_Interval
      <3> QED BY <2>3, <2>4, <3>2
    <2>8. Min((lo + 1) .. (lo + K)) = lo + 1 /\ Max((lo + 1) .. (lo + K)) = lo + K
      <3>1. lo + 1 \in Int /\ lo + K \in Int /\ lo + 1 <= lo + K
        BY <2>3, <2>4
      <3> HIDE DEF K
      <3> QED BY <3>1, IntervalEnds
    <2>9. c[n].kit # Unknown => K >= c[n].kit * WordlistLen
      <3> SUFFICES ASSUME c[n].kit # Unknown PROVE K >= c[n].kit * WordlistLen
        OBVIOUS
      <3>1. c[n].kit = ToolkitLabelFor(ip)
        BY <2>1 DEF RowOf
      <3>2. ip \in DOMAIN counts /\ ToolkitLabelFor(ip) \in Nat /\ ToolkitLabelFor(ip) * WordlistLen <= counts[ip]
        BY <3>1, KitIs
      <3>3. counts[ip] <= K /\ counts[ip] \in Nat
        BY <3>2 DEF GotKnown, CountsKnown
      <3>4. ToolkitLabelFor(ip) * WordlistLen \in Nat
        BY <3>2, CorpusAssumption
      <3> HIDE DEF K
      <3> QED BY <2>3, <3>1, <3>2, <3>3, <3>4
    <2> HIDE DEF K
    <2> QED BY <2>2, <2>4, <2>5, <2>6, <2>7, <2>8, <2>9
  <1> QED BY <1>1, <1>2 DEF GoodCorpus

-----------------------------------------------------------------------------
(* Loading a corpus *)

\* The more exports there are, the fewer rows are foreign.
LEMMA ForeignShrinks ==
    ASSUME NEW S, NEW seq \in Seq(S), NEW E, NEW E2, E \subseteq E2
    PROVE  /\ Cardinality(Foreign(seq, E)) \in Nat /\ Cardinality(Foreign(seq, E2)) \in Nat
           /\ IsFiniteSet(Foreign(seq, E))
           /\ Cardinality(Foreign(seq, E2)) <= Cardinality(Foreign(seq, E))
  <1>1. IsFiniteSet(DOMAIN seq)
    <2>1. DOMAIN seq = 1 .. Len(seq) /\ Len(seq) \in Nat
      OBVIOUS
    <2>2. 1 \in Int /\ Len(seq) \in Int
      BY <2>1
    <2> QED BY <2>1, <2>2, FS_Interval
  <1>2. Foreign(seq, E) \subseteq DOMAIN seq /\ Foreign(seq, E2) \subseteq Foreign(seq, E)
    BY DEF Foreign
  <1>3. IsFiniteSet(Foreign(seq, E))
    BY <1>1, <1>2, FS_Subset
  <1> QED BY <1>2, <1>3, FS_Subset, FS_CardinalityType

\* One more row is at most one more that is foreign, and none if it is exported.
LEMMA ForeignAppend ==
    ASSUME NEW S, NEW seq \in Seq(S), NEW x \in S, NEW E
    PROVE  /\ Cardinality(Foreign(Append(seq, x), E)) \in Nat
           /\ Cardinality(Foreign(Append(seq, x), E)) <= Cardinality(Foreign(seq, E)) + 1
           /\ (\E corpus \in E : \E m \in DOMAIN corpus : x = corpus[m]) =>
                  Cardinality(Foreign(Append(seq, x), E)) <= Cardinality(Foreign(seq, E))
  <1> DEFINE F == Foreign(seq, E)
             G == Foreign(Append(seq, x), E)
             k == Len(seq) + 1
  <1>1. Cardinality(F) \in Nat /\ IsFiniteSet(F)
    BY ForeignShrinks
  <1>2. G \subseteq F \cup {k} /\ ((\E corpus \in E : \E m \in DOMAIN corpus : x = corpus[m]) => G \subseteq F)
    <2> SUFFICES ASSUME NEW n \in G
                 PROVE  n \in F \/ (n = k /\ ~\E corpus \in E : \E m \in DOMAIN corpus : x = corpus[m])
      OBVIOUS
    <2>1. n \in 1 .. k /\ Len(seq) \in Nat /\ DOMAIN seq = 1 .. Len(seq)
      BY DEF Foreign
    <2>2. CASE n = k
      <3>1. Append(seq, x)[n] = x
        BY <2>1, <2>2
      <3> QED BY <2>2, <3>1 DEF Foreign
    <2>3. CASE n # k
      <3>1. n \in DOMAIN seq /\ Append(seq, x)[n] = seq[n]
        BY <2>1, <2>3
      <3> QED BY <3>1 DEF Foreign
    <2> QED BY <2>2, <2>3
  <1> HIDE DEF F, G, k
  <1>3. IsFiniteSet(F \cup {k}) /\ Cardinality(F \cup {k}) \in Nat /\ Cardinality(F \cup {k}) <= Cardinality(F) + 1
    <2>1. IsFiniteSet(F \cup {k}) /\ Cardinality(F \cup {k}) = (IF k \in F THEN Cardinality(F) ELSE Cardinality(F) + 1)
      BY <1>1, FS_AddElement
    <2> QED BY <1>1, <2>1
  <1>4. Cardinality(G) \in Nat /\ Cardinality(G) <= Cardinality(F \cup {k})
    BY <1>2, <1>3, FS_Subset, FS_CardinalityType
  <1>5. G \subseteq F => Cardinality(G) <= Cardinality(F)
    BY <1>1, FS_Subset
  <1>6. Cardinality(G) <= Cardinality(F) + 1
    BY <1>1, <1>3, <1>4
  <1> QED BY <1>2, <1>4, <1>5, <1>6 DEF F, G

\* A load that has read nothing.
LEMMA NothingRead ==
    ASSUME NEW f, f.rows \in Seq(CorpusRows), NEW E, NEW on \in BOOLEAN
    PROVE  ReaderKnown(f, E, LoadFrom(on)) /\ LoadedKnown(E, NoLoad)
  <1>1. <<>> \in Seq(CorpusRows \cup {Spliced}) /\ Len(<<>>) = 0 /\ SubSeq(f.rows, 1, 0) = <<>> /\ Len(f.rows) \in Nat
    OBVIOUS
  <1>2. Foreign(<<>>, E) = {} /\ Cardinality(Foreign(<<>>, E)) = 0
    <2>1. Foreign(<<>>, E) = {}
      BY DEF Foreign
    <2> QED BY <2>1, FS_EmptySet
  <1>3. /\ LoadFrom(on).rows = <<>> /\ LoadFrom(on).own = 0 /\ LoadFrom(on).cuts = 0 /\ LoadFrom(on).pos = 0
        /\ LoadFrom(on).seam = "none" /\ NoLoad.rows = <<>> /\ NoLoad.own = 0 /\ NoLoad.cuts = 0
        /\ LoadFrom(on) \in [on : BOOLEAN, rows : Seq(CorpusRows \cup {Spliced}), own : Nat, cuts : Nat, pos : Nat,
                             seam : {"none", "splice", "junk"}]
    BY <1>1 DEF LoadFrom, NoLoad
  <1>4. LoadSound(LoadFrom(on), E) /\ LoadSound(NoLoad, E)
    BY <1>1, <1>3 DEF LoadSound
  <1> QED BY <1>1, <1>2, <1>3, <1>4 DEF ReaderKnown, LoadedKnown

\* What is known of a load stays so when there is one more export.
LEMMA LoadedGrows ==
    ASSUME NEW E, NEW E2, E \subseteq E2, NEW l, LoadedKnown(E, l)
    PROVE  LoadedKnown(E2, l)
  <1>1. LoadSound(l, E2) /\ l.rows \in Seq(CorpusRows \cup {Spliced}) /\ l.cuts \in Nat
    BY DEF LoadedKnown, LoadSound
  <1>2. /\ Cardinality(Foreign(l.rows, E)) \in Nat /\ Cardinality(Foreign(l.rows, E2)) \in Nat
        /\ Cardinality(Foreign(l.rows, E2)) <= Cardinality(Foreign(l.rows, E))
    BY <1>1, ForeignShrinks
  <1> QED BY <1>1, <1>2 DEF LoadedKnown

\* What is appended to the file leaves its beginning as it was.
LEMMA FileGrows ==
    ASSUME NEW f, NEW g, NEW x \in Seq(CorpusRows), f.rows \in Seq(CorpusRows), g.rows = f.rows \o x,
           NEW E, NEW r, ReaderKnown(f, E, r)
    PROVE  ReaderKnown(g, E, r)
  <1> DEFINE y == f.rows
  <1>1. y \in Seq(CorpusRows) /\ g.rows = y \o x /\ Len(y) \in Nat /\ Len(y \o x) = Len(y) + Len(x) /\ Len(x) \in Nat
    OBVIOUS
  <1>2. r.pos \in Nat
    BY DEF ReaderKnown
  <1>3. ASSUME r.pos <= Len(y) PROVE r.pos <= Len(g.rows) /\ SubSeq(y, 1, r.pos) = SubSeq(g.rows, 1, r.pos)
    BY <1>1, <1>2, <1>3
  <1> HIDE DEF y
  <1> QED BY <1>3 DEF ReaderKnown, y

\* An export that opens the file leaves a load what it has read.
LEMMA OvertakenKnown ==
    ASSUME NEW f, NEW g, g.rows = <<>>, NEW E, NEW E2, E \subseteq E2, NEW corpus \in Seq(CorpusRows),
           ReaderKnown(f, E, reader), Overtaken(corpus)
    PROVE  ReaderKnown(g, E2, reader')
  <1>1. /\ reader \in [on : BOOLEAN, rows : Seq(CorpusRows \cup {Spliced}), own : Nat, cuts : Nat, pos : Nat,
                      seam : {"none", "splice", "junk"}]
        /\ LoadSound(reader, E) /\ LoadSound(reader, E2)
    BY DEF ReaderKnown, LoadSound
  <1>2. /\ Cardinality(Foreign(reader.rows, E)) \in Nat /\ Cardinality(Foreign(reader.rows, E2)) \in Nat
        /\ Cardinality(Foreign(reader.rows, E2)) <= Cardinality(Foreign(reader.rows, E))
    BY <1>1, ForeignShrinks
  <1>3. reader.cuts \in Nat /\ reader.own \in Nat /\ reader.pos \in Nat
    BY <1>1
  <1>4. CASE ~reader.on \/ reader.rows = <<>>
    <2>1. reader' = reader /\ reader.rows = <<>>
      BY <1>4 DEF Overtaken, ReaderKnown
    <2>2. Cardinality(Foreign(reader.rows, E2)) + (IF reader.seam = "none" THEN 0 ELSE 1) <= reader.cuts
      BY <1>2, <1>3 DEF ReaderKnown
    <2>3. reader.cuts = 0 => reader.pos = reader.own /\ reader.pos <= Len(g.rows) /\ reader.rows = SubSeq(g.rows, 1, reader.pos)
      <3> SUFFICES ASSUME reader.cuts = 0
                   PROVE  reader.pos = reader.own /\ reader.pos <= Len(g.rows) /\ reader.rows = SubSeq(g.rows, 1, reader.pos)
        OBVIOUS
      <3>1. reader.pos = reader.own /\ reader.own = Len(reader.rows)
        BY <1>1 DEF ReaderKnown, LoadSound
      <3>2. reader.pos = 0 /\ Len(g.rows) = 0 /\ SubSeq(<<>>, 1, 0) = <<>>
        BY <2>1, <3>1
      <3> QED BY <2>1, <3>1, <3>2
    <2> QED BY <1>1, <2>1, <2>2, <2>3 DEF ReaderKnown
  <1>5. CASE ~(~reader.on \/ reader.rows = <<>>)
    <2>1. PICK n \in 0 .. Len(corpus), seam \in {"none", "splice", "junk"} :
              reader' = [reader EXCEPT !.cuts = @ + 1, !.pos = n, !.seam = seam]
      BY <1>5 DEF Overtaken
    <2>2. n \in Nat /\ seam \in {"none", "splice", "junk"} /\ reader.cuts + 1 \in Nat
      BY <1>3, <2>1
    <2>3. /\ reader'.on = reader.on /\ reader'.rows = reader.rows /\ reader'.own = reader.own /\ reader'.cuts = reader.cuts + 1 /\ reader'.seam = seam
          /\ reader' \in [on : BOOLEAN, rows : Seq(CorpusRows \cup {Spliced}), own : Nat, cuts : Nat, pos : Nat,
                    seam : {"none", "splice", "junk"}]
      BY <1>1, <2>1, <2>2
    <2>4. reader'.cuts # 0 /\ LoadSound(reader', E2)
      BY <1>1, <1>3, <2>3 DEF LoadSound
    <2>5. Cardinality(Foreign(reader.rows, E)) <= reader.cuts
      BY <1>2, <1>3 DEF ReaderKnown
    <2>6. Cardinality(Foreign(reader'.rows, E2)) + (IF reader'.seam = "none" THEN 0 ELSE 1) <= reader'.cuts
      BY <1>2, <1>3, <2>3, <2>5
    <2> QED BY <1>5, <2>3, <2>4, <2>6 DEF ReaderKnown
  <1> QED BY <1>4, <1>5

\* A row of the beginning of an export is a row of that export, and one more row
\* makes the beginning longer.
LEMMA ReadRowKnown ==
    ASSUME file.rows \in Seq(CorpusRows), ReaderKnown(file, exports, reader), ReadRow,
           file.rows = <<>> \/ \E corpus \in exports : IsPrefix(file.rows, corpus),
           \A corpus \in exports : corpus \in Seq(CorpusRows)
    PROVE  ReaderKnown(file, exports, reader')
  <1> DEFINE S == CorpusRows \cup {Spliced}
             y == file.rows
             k == reader.pos + 1
             x == IF reader.seam = "none" THEN y[k] ELSE Spliced
             seq == reader.rows
  <1>1. /\ reader \in [on : BOOLEAN, rows : Seq(S), own : Nat, cuts : Nat, pos : Nat, seam : {"none", "splice", "junk"}]
        /\ LoadSound(reader, exports)
    BY DEF ReaderKnown
  <1>2. /\ reader.on /\ reader.pos < Len(y)
        /\ reader' = [reader EXCEPT !.rows = Append(@, x), !.own = IF reader.cuts = 0 THEN @ + 1 ELSE @,
                                    !.pos = @ + 1, !.seam = "none"]
    BY DEF ReadRow
  <1>3. y \in Seq(CorpusRows) /\ Len(y) \in Nat /\ reader.pos \in Nat /\ k \in 1 .. Len(y) /\ y[k] \in CorpusRows
    <2>1. y \in Seq(CorpusRows) /\ Len(y) \in Nat /\ reader.pos \in Nat
      BY <1>1
    <2> QED BY <1>2, <2>1
  <1>4. seq \in Seq(S) /\ x \in S /\ Append(seq, x) \in Seq(S) /\ Len(Append(seq, x)) = Len(seq) + 1 /\ Len(seq) \in Nat
    BY <1>1, <1>3
  <1>5. /\ reader'.on = reader.on /\ reader'.rows = Append(seq, x) /\ reader'.cuts = reader.cuts /\ reader'.seam = "none"
        /\ reader'.own = (IF reader.cuts = 0 THEN reader.own + 1 ELSE reader.own) /\ reader'.pos = k
        /\ reader' \in [on : BOOLEAN, rows : Seq(S), own : Nat, cuts : Nat, pos : Nat, seam : {"none", "splice", "junk"}]
    <2>1. k \in Nat /\ k = reader.pos + 1 /\ (IF reader.cuts = 0 THEN reader.own + 1 ELSE reader.own) \in Nat
      BY <1>1, <1>3
    <2> DEFINE own == IF reader.cuts = 0 THEN reader.own + 1 ELSE reader.own
               longer == Append(seq, x)
    <2>2. reader' = [reader EXCEPT !.rows = longer, !.own = own, !.pos = k, !.seam = "none"]
      BY <1>1, <1>2
    <2>3. longer \in Seq(S) /\ own \in Nat
      BY <1>4, <2>1
    <2> HIDE DEF longer, own, k, S
    <2>4. /\ reader'.on = reader.on /\ reader'.rows = longer /\ reader'.cuts = reader.cuts /\ reader'.seam = "none"
          /\ reader'.own = own /\ reader'.pos = k
          /\ reader' \in [on : BOOLEAN, rows : Seq(S), own : Nat, cuts : Nat, pos : Nat, seam : {"none", "splice", "junk"}]
      BY <1>1, <2>1, <2>2, <2>3
    <2> QED BY <2>4 DEF longer, own
  <1>6. PICK corpus \in exports : IsPrefix(y, corpus)
    <2>1. y # <<>>
      BY <1>2, <1>3
    <2> QED BY <2>1
  <1>7. corpus \in Seq(CorpusRows) /\ Len(y) <= Len(corpus) /\ \A i \in 1 .. Len(y) : y[i] = corpus[i]
    <2>1. corpus \in Seq(CorpusRows) /\ Len(corpus) \in Nat
      BY <1>6
    <2>2. Len(y) <= Len(corpus) /\ SubSeq(y, 1, Len(y)) = SubSeq(corpus, 1, Len(y))
      BY <1>6 DEF IsPrefix
    <2>3. \A i \in 1 .. Len(y) : SubSeq(y, 1, Len(y))[i] = y[i] /\ SubSeq(corpus, 1, Len(y))[i] = corpus[i]
      BY <1>3, <2>1, <2>2
    <2> QED BY <2>1, <2>2, <2>3
  <1>8. Cardinality(Foreign(seq, exports)) \in Nat /\ reader.cuts \in Nat /\ reader.own \in Nat
    BY <1>1, <1>4, ForeignShrinks
  <1> HIDE DEF S, y, k, x, seq
  <1>9. Cardinality(Foreign(Append(seq, x), exports)) <= reader.cuts
    <2>1. CASE reader.seam = "none"
      <3>1. x = corpus[k] /\ k \in DOMAIN corpus
        BY <1>3, <1>7, <2>1 DEF x
      <3>2. Cardinality(Foreign(seq, exports)) <= reader.cuts
        BY <1>8, <2>1 DEF ReaderKnown, seq
      <3>3. /\ Cardinality(Foreign(Append(seq, x), exports)) \in Nat
            /\ Cardinality(Foreign(Append(seq, x), exports)) <= Cardinality(Foreign(seq, exports))
        BY <1>4, <1>6, <3>1, ForeignAppend
      <3> QED BY <1>8, <3>2, <3>3
    <2>2. CASE reader.seam # "none"
      <3>1. Cardinality(Foreign(seq, exports)) + 1 <= reader.cuts
        BY <1>8, <2>2 DEF ReaderKnown, seq
      <3>2. /\ Cardinality(Foreign(Append(seq, x), exports)) \in Nat
            /\ Cardinality(Foreign(Append(seq, x), exports)) <= Cardinality(Foreign(seq, exports)) + 1
        BY <1>4, ForeignAppend
      <3> QED BY <1>8, <3>1, <3>2
    <2> QED BY <2>1, <2>2
  <1>10. ASSUME reader.cuts = 0
         PROVE  /\ k = reader'.own /\ Append(seq, x) = SubSeq(y, 1, k) /\ reader'.own = Len(Append(seq, x))
                /\ IsPrefix(SubSeq(Append(seq, x), 1, reader'.own), corpus)
    <2>1. /\ reader.seam = "none" /\ reader.pos = reader.own /\ seq = SubSeq(y, 1, reader.pos)
          /\ reader.own = Len(seq)
      <3>1. reader.seam = "none"
        BY <1>8, <1>10 DEF ReaderKnown, seq
      <3> QED BY <1>1, <1>10, <3>1 DEF ReaderKnown, LoadSound, seq, y
    <2>2. x = y[k] /\ k = reader.pos + 1
      BY <2>1 DEF x, k
    <2>3. SubSeq(y, 1, k) \in Seq(CorpusRows) /\ Len(SubSeq(y, 1, k)) = k /\ \A i \in 1 .. k : SubSeq(y, 1, k)[i] = y[i]
      BY <1>3
    <2>4. Len(seq) = reader.pos /\ \A i \in 1 .. reader.pos : seq[i] = y[i]
      <3> DEFINE n == reader.pos
      <3>1. n \in Nat /\ n <= Len(y)
        BY <1>2, <1>3 DEF y
      <3>2. seq = SubSeq(y, 1, n)
        BY <2>1
      <3> HIDE DEF n
      <3>3. Len(SubSeq(y, 1, n)) = n /\ \A i \in 1 .. n : SubSeq(y, 1, n)[i] = y[i]
        BY <1>3, <3>1
      <3>4. Len(seq) = n /\ \A i \in 1 .. n : seq[i] = y[i]
        BY <3>2, <3>3, Zenon
      <3> QED BY <3>4 DEF n
    <2>5. Append(seq, x) = SubSeq(y, 1, k)
      <3>1. Len(Append(seq, x)) = k
        BY <1>3, <1>4, <2>2, <2>4
      <3>2. ASSUME NEW i \in 1 .. k PROVE Append(seq, x)[i] = SubSeq(y, 1, k)[i]
        <4>1. CASE i = k
          <5>1. Append(seq, x)[i] = x
            BY <1>4, <2>2, <2>4, <4>1
          <5> QED BY <1>3, <2>2, <2>3, <4>1, <5>1
        <4>2. CASE i # k
          <5>1. i \in 1 .. reader.pos
            BY <1>3, <2>2, <4>2
          <5>2. Append(seq, x)[i] = seq[i]
            BY <1>4, <2>4, <5>1
          <5> QED BY <2>3, <2>4, <5>1, <5>2
        <4> QED BY <4>1, <4>2
      <3>3. SubSeq(y, 1, k) \in Seq(S) /\ Append(seq, x) \in Seq(S)
        <4>1. CorpusRows \subseteq S
          BY DEF S
        <4>2. SubSeq(y, 1, k) \in Seq(S)
          BY <2>3, <4>1
        <4> QED BY <1>4, <4>2
      <3> QED BY <2>3, <3>1, <3>2, <3>3, SeqEqual
    <2>6. reader'.own = k /\ Len(Append(seq, x)) = k
      BY <1>4, <1>5, <1>10, <2>1, <2>2
    <2>7. IsPrefix(SubSeq(y, 1, k), corpus)
      <3>1. k <= Len(corpus) /\ k \in Nat /\ Len(corpus) \in Nat
        BY <1>3, <1>7
      <3>2. \A i \in 1 .. k : y[i] = corpus[i]
        BY <1>3, <1>7
      <3>3. SubSeq(y, 1, k) = SubSeq(corpus, 1, k)
        BY <1>3, <1>7, <3>1, <3>2
      <3>4. SubSeq(SubSeq(y, 1, k), 1, k) = SubSeq(y, 1, k)
        BY <1>3, <2>3
      <3> QED BY <2>3, <3>1, <3>3, <3>4 DEF IsPrefix
    <2>8. SubSeq(SubSeq(y, 1, k), 1, k) = SubSeq(y, 1, k)
      BY <1>3, <2>3
    <2> QED BY <2>5, <2>6, <2>7, <2>8
  <1>11. LoadSound(reader', exports)
    <2>1. CASE reader.cuts = 0
      <3>1. reader'.own <= Len(Append(seq, x)) /\ reader'.own \in Nat
        BY <1>4, <1>10, <2>1
      <3>2. reader'.rows \in Seq(CorpusRows \cup {Spliced}) /\ reader'.cuts \in Nat
        BY <1>4, <1>5, <1>8 DEF S
      <3> QED BY <1>5, <1>6, <1>10, <2>1, <3>1, <3>2 DEF LoadSound
    <2>2. CASE reader.cuts # 0
      <3>1. reader'.own = reader.own /\ reader.own <= Len(seq) /\ reader'.cuts # 0
        BY <1>1, <1>5, <2>2 DEF LoadSound, seq
      <3>2. reader'.own <= Len(Append(seq, x)) /\ reader'.own \in Nat
        BY <1>4, <1>8, <3>1
      <3>3. SubSeq(Append(seq, x), 1, reader.own) = SubSeq(seq, 1, reader.own)
        BY <1>4, <1>8, <3>1
      <3>4. reader.own = 0 \/ \E c \in exports : IsPrefix(SubSeq(seq, 1, reader.own), c)
        BY <1>1 DEF LoadSound, seq
      <3>5. reader'.rows \in Seq(CorpusRows \cup {Spliced}) /\ reader'.cuts \in Nat
        BY <1>4, <1>5, <1>8 DEF S
      <3>6. reader'.own = 0 \/ \E c \in exports : IsPrefix(SubSeq(reader'.rows, 1, reader'.own), c)
        BY <1>5, <3>1, <3>3, <3>4
      <3> QED BY <1>5, <3>1, <3>2, <3>5, <3>6 DEF LoadSound
    <2> QED BY <2>1, <2>2
  <1>12. Cardinality(Foreign(reader'.rows, exports)) + (IF reader'.seam = "none" THEN 0 ELSE 1) <= reader'.cuts
    <2>1. Cardinality(Foreign(Append(seq, x), exports)) \in Nat
      BY <1>4, ForeignAppend
    <2> QED BY <1>5, <1>9, <2>1
  <1>13. reader'.cuts = 0 => /\ reader'.pos = reader'.own /\ reader'.pos <= Len(file.rows)
                             /\ reader'.rows = SubSeq(file.rows, 1, reader'.pos)
    <2>1. k <= Len(y)
      BY <1>3
    <2> QED BY <1>5, <1>10, <2>1 DEF y
  <1> QED BY <1>2, <1>5, <1>11, <1>12, <1>13 DEF ReaderKnown, S

-----------------------------------------------------------------------------
(* The invariant of the corpus is inductive *)

\* An address has finitely many rows in the database.
LEMMA RowsFinite ==
    ASSUME saved \subseteq Sess, NEW ip
    PROVE  IsFiniteSet(Rows(ip)) /\ Cardinality(Rows(ip)) \in Nat
  <1>1. Rows(ip) \subseteq Sess
    BY DEF Rows
  <1> QED BY <1>1, FS_Subset, FS_CardinalityType, CorpusAssumption

\* Whoever leaves campaign and pairs alone leaves what is known about them.
LEMMA WordlistKept ==
    ASSUME MembersShareWordlist, UNCHANGED <<campaign, pairs>>
    PROVE  MembersShareWordlist'
  BY DEF MembersShareWordlist

\* The invariant holds before the first command.
LEMMA CorpusInitially == Init => CorpusInv
  <1> SUFFICES ASSUME Init PROVE CorpusInv
    OBVIOUS
  <1>1. proc.at = "end" /\ campaign = Nobody /\ campaign.members = {}
    BY DEF Init, Off, Nobody
  <1>2. CountsKnown /\ PairsKnown /\ CampaignKnown /\ GotKnown /\ MembersShareWordlist
    BY <1>1 DEF CountsKnown, PairsKnown, CampaignKnown, GotKnown, MembersShareWordlist
  <1>3. FilesKnown
    <2>1. /\ exports = {} /\ rows = <<>> /\ file = Empty /\ reader = LoadFrom(FALSE) /\ loaded = NoLoad
          /\ <<>> \in Seq(CorpusRows) /\ proc.at # "write"
      BY <1>1 DEF Init, Off
    <2>2. file.rows = <<>> /\ file \in [rows : Seq(CorpusRows), torn : BOOLEAN]
      BY <2>1 DEF Empty
    <2>3. ReaderKnown(file, exports, reader) /\ LoadedKnown(exports, loaded)
      BY <2>1, <2>2, NothingRead
    <2> QED BY <2>1, <2>2, <2>3 DEF FilesKnown
  <1> QED BY <1>2, <1>3, CorpusAssumption DEF Init, CorpusInv

\* The place of a command.
LEMMA InQuery ==
    ASSUME CorpusInv, proc.at # "end"
    PROVE  /\ proc \in [kind : {"detect", "export"}, at : Queries] /\ proc # Off
           /\ \A q \in Queries : /\ [proc EXCEPT !.at = q] \in [kind : {"detect", "export"}, at : Queries]
                                 /\ [proc EXCEPT !.at = q].at = q
  <1>1. proc # Off
    BY DEF Off
  <1>2. proc \in [kind : {"detect", "export"}, at : Queries]
    BY <1>1 DEF CorpusInv
  <1> QED BY <1>1, <1>2

\* Until a campaign is detected there is none.
LEMMA NobodyYet ==
    ASSUME CorpusInv, proc.at \in {"end", "counts", "pairs", "detect"}
    PROVE  campaign = Nobody /\ campaign.members = {}
  BY DEF CorpusInv, CampaignKnown, Nobody

\* Sensors only add sessions.
LEMMA SaveKeeps == ASSUME CorpusInv, NEW s \in Sess, SaveSession(s) PROVE CorpusInv'
  <1> USE DEF CorpusInv
  <1>1. /\ saved' = saved \cup {s}
        /\ UNCHANGED <<proc, started, counts, pairs, campaign, got, rows, file, exports, report, reader, loaded>>
    BY DEF SaveSession
  <1>2. ASSUME NEW ip PROVE Cardinality(Rows(ip)) <= Cardinality(Rows(ip)') /\ Cardinality(Rows(ip)) \in Nat /\ Cardinality(Rows(ip)') \in Nat
    <2>1. saved' \subseteq Sess
      BY <1>1
    <2>2. Rows(ip) \subseteq Rows(ip)' /\ Rows(ip)' \subseteq Sess
      BY <1>1, <2>1 DEF Rows
    <2>3. IsFiniteSet(Rows(ip)')
      BY <2>2, FS_Subset, CorpusAssumption
    <2> QED BY <2>2, <2>3, FS_Subset, FS_CardinalityType
  <1>3. CountsKnown'
    <2> SUFFICES ASSUME proc.at \notin {"end", "counts"}, NEW ip \in DOMAIN counts
                 PROVE  ip \in Ips /\ counts[ip] \in Nat \ {0} /\ counts[ip] <= Cardinality(Rows(ip)')
      BY <1>1 DEF CountsKnown
    <2>1. ip \in Ips /\ counts[ip] \in Nat \ {0} /\ counts[ip] <= Cardinality(Rows(ip))
      BY DEF CountsKnown
    <2> QED BY <1>2, <2>1
  <1>4. PairsKnown' /\ CampaignKnown' /\ MembersShareWordlist'
    BY <1>1 DEF PairsKnown, CampaignKnown, MembersShareWordlist, Candidates, Member
  <1>5. GotKnown'
    BY <1>1 DEF GotKnown, Read
  <1>6. FilesKnown'
    BY <1>1 DEF FilesKnown
  <1> QED BY <1>1, <1>3, <1>4, <1>5, <1>6

\* A command that starts has read nothing.
LEMMA ConnectKeeps == ASSUME CorpusInv, NEW kind \in {"detect", "export"}, Connect(kind) PROVE CorpusInv'
  <1> USE DEF CorpusInv
  <1>1. /\ proc = Off /\ started < Commands /\ started' = started + 1
        /\ proc' = [kind |-> kind, at |-> "counts"] /\ proc'.at = "counts" /\ proc.at = "end"
        /\ UNCHANGED <<saved, counts, pairs, campaign, got, rows, file, exports, report, reader, loaded>>
    BY DEF Connect, Off
  <1>2. proc' \in [kind : {"detect", "export"}, at : Queries] /\ started' \in 0 .. Commands
    BY <1>1, CorpusAssumption DEF Queries
  <1>3. campaign = Nobody /\ campaign.members = {}
    BY <1>1, NobodyYet
  <1>4. CountsKnown' /\ PairsKnown' /\ CampaignKnown' /\ GotKnown' /\ MembersShareWordlist'
    BY <1>1, <1>3 DEF CountsKnown, PairsKnown, CampaignKnown, GotKnown, MembersShareWordlist
  <1>5. FilesKnown'
    BY <1>1 DEF FilesKnown
  <1> QED BY <1>1, <1>2, <1>4, <1>5

\* The counts are exact when they are read.
LEMMA FetchCountsKeeps == ASSUME CorpusInv, FetchCounts PROVE CorpusInv'
  <1> USE DEF CorpusInv
  <1>1. /\ proc.at = "counts" /\ proc' = [proc EXCEPT !.at = "pairs"]
        /\ counts' = [ip \in {i \in Ips : Rows(i) # {}} |-> Cardinality(Rows(ip))]
        /\ UNCHANGED <<saved, started, pairs, campaign, got, rows, file, exports, report, reader, loaded>>
    BY DEF FetchCounts, Counted
  <1>2. proc' \in [kind : {"detect", "export"}, at : Queries] /\ proc'.at = "pairs"
    BY <1>1, InQuery DEF Queries
  <1>3. campaign = Nobody /\ campaign.members = {}
    BY <1>1, NobodyYet
  <1>4. CountsKnown'
    <2> SUFFICES ASSUME NEW ip \in DOMAIN counts'
                 PROVE  ip \in Ips /\ counts'[ip] \in Nat \ {0} /\ counts'[ip] <= Cardinality(Rows(ip)')
      BY DEF CountsKnown
    <2>1. ip \in Ips /\ Rows(ip) # {} /\ counts'[ip] = Cardinality(Rows(ip)) /\ Rows(ip)' = Rows(ip)
      BY <1>1 DEF Rows
    <2>2. IsFiniteSet(Rows(ip)) /\ Cardinality(Rows(ip)) \in Nat
      BY RowsFinite
    <2>3. Cardinality(Rows(ip)) # 0
      BY <2>1, <2>2, FS_EmptySet
    <2> QED BY <2>1, <2>2, <2>3
  <1>5. PairsKnown' /\ CampaignKnown' /\ GotKnown' /\ MembersShareWordlist'
    BY <1>1, <1>2, <1>3 DEF PairsKnown, CampaignKnown, GotKnown, MembersShareWordlist
  <1>6. FilesKnown'
    BY <1>1, <1>2 DEF FilesKnown
  <1> QED BY <1>1, <1>2, <1>4, <1>5, <1>6

\* Pairs are read for the candidates, and only for them.
LEMMA FetchPairsKeeps == ASSUME CorpusInv, FetchPairs PROVE CorpusInv'
  <1> USE DEF CorpusInv
  <1>1. /\ proc.at = "pairs" /\ proc' = [proc EXCEPT !.at = "detect"] /\ DOMAIN pairs' = Candidates
        /\ UNCHANGED <<saved, started, counts, campaign, got, rows, file, exports, report, reader, loaded>>
    BY DEF FetchPairs
  <1>2. proc' \in [kind : {"detect", "export"}, at : Queries] /\ proc'.at = "detect"
    BY <1>1, InQuery DEF Queries
  <1>3. campaign = Nobody /\ campaign.members = {}
    BY <1>1, NobodyYet
  <1>4. CountsKnown'
    BY <1>1, <1>2 DEF CountsKnown, Rows
  <1>5. PairsKnown'
    BY <1>1 DEF PairsKnown, Candidates
  <1>6. CampaignKnown' /\ GotKnown' /\ MembersShareWordlist'
    BY <1>1, <1>2, <1>3 DEF CampaignKnown, GotKnown, MembersShareWordlist
  <1>7. FilesKnown'
    BY <1>1, <1>2 DEF FilesKnown
  <1> QED BY <1>1, <1>2, <1>4, <1>5, <1>6, <1>7

\* The members of a campaign share the most frequent set of pairs.
LEMMA DetectKeeps == ASSUME CorpusInv, Detect PROVE CorpusInv'
  <1> USE DEF CorpusInv
  <1>1. /\ proc.at = "detect" /\ proc' = [proc EXCEPT !.at = IF proc.kind = "detect" THEN "report" ELSE "sessions"]
        /\ campaign' = Nobody \/ \E reference \in References : campaign' = Result(reference)
        /\ UNCHANGED <<saved, started, counts, pairs, got, rows, file, exports, report, reader, loaded>>
    BY DEF Detect
  <1>2. proc' \in [kind : {"detect", "export"}, at : Queries] /\ proc'.at \in {"report", "sessions"}
    BY <1>1, InQuery DEF Queries
  <1>3. Candidates' = Candidates /\ DOMAIN pairs = Candidates /\ \A ip : Member(ip)' = Member(ip)
    BY <1>1 DEF Candidates, PairsKnown, Member
  <1>4. CountsKnown' /\ PairsKnown' /\ GotKnown'
    BY <1>1, <1>2, <1>3 DEF CountsKnown, PairsKnown, GotKnown, Rows
  <1>5. CampaignKnown' /\ MembersShareWordlist'
    <2>1. CASE campaign' = Nobody
      BY <2>1 DEF CampaignKnown, MembersShareWordlist, Nobody
    <2>2. ASSUME NEW ref \in References, campaign' = Result(ref) PROVE CampaignKnown' /\ MembersShareWordlist'
      <3> DEFINE M == Members(ref)
      <3>1. M = {ip \in Candidates : pairs[ip] = ref}
        BY DEF Members
      <3>2. campaign'.members = {Member(ip) : ip \in M} /\ campaign'.excluded = Candidates \ M
        BY <2>2 DEF Result, Member
      <3>3. \A other \in Range(pairs) :
                Cardinality({ip \in Candidates : pairs[ip] = other}) <= Cardinality({ip \in Candidates : pairs[ip] = ref})
        BY DEF References
      <3> HIDE DEF M
      <3>4. CampaignKnown'
        BY <1>2, <1>3, <3>1, <3>2 DEF CampaignKnown
      <3>5. {x.ip : x \in campaign'.members} = M
        <4>1. \A ip : Member(ip).ip = ip
          BY DEF Member
        <4> QED BY <3>2, <4>1
      <3>6. ASSUME NEW m \in campaign'.members, NEW same, same = {ip \in DOMAIN pairs : pairs[ip] = pairs[m.ip]}
            PROVE  /\ same = {x.ip : x \in campaign'.members}
                   /\ \A ip \in campaign'.excluded :
                          Cardinality({x \in DOMAIN pairs : pairs[x] = pairs[ip]}) <= Cardinality(same)
        <4>1. pairs[m.ip] = ref
          BY <3>1, <3>2 DEF Member
        <4>2. same = M /\ same = {ip \in Candidates : pairs[ip] = ref}
          BY <1>3, <3>1, <3>6, <4>1
        <4>3. ASSUME NEW ip \in campaign'.excluded
              PROVE  Cardinality({x \in DOMAIN pairs : pairs[x] = pairs[ip]}) <= Cardinality(same)
          <5>1. ip \in DOMAIN pairs /\ pairs[ip] \in Range(pairs)
            BY <1>3, <3>2 DEF Range
          <5>2. Cardinality({x \in Candidates : pairs[x] = pairs[ip]}) <= Cardinality({x \in Candidates : pairs[x] = ref})
            BY <3>3, <5>1
          <5> QED BY <1>3, <4>2, <5>2
        <4> QED BY <3>5, <4>2, <4>3
      <3>7. MembersShareWordlist'
        BY <1>1, <3>6 DEF MembersShareWordlist
      <3> QED BY <3>4, <3>7
    <2> QED BY <1>1, <2>1, <2>2
  <1>6. FilesKnown'
    BY <1>1, <1>2 DEF FilesKnown
  <1> QED BY <1>1, <1>2, <1>4, <1>5, <1>6

\* A command that ends or dies leaves its files.
LEMMA ForgetKeeps == ASSUME CorpusInv, WriteReport \/ Die PROVE CorpusInv'
  <1> USE DEF CorpusInv
  <1>1. /\ proc' = Off /\ proc'.at = "end" /\ campaign' = Nobody /\ campaign'.members = {} /\ rows' = <<>>
        /\ UNCHANGED <<saved, started, file, exports, reader, loaded>>
    BY DEF WriteReport, Die, Forget, Off, Nobody
  <1>2. CountsKnown' /\ PairsKnown' /\ CampaignKnown' /\ GotKnown' /\ MembersShareWordlist'
    BY <1>1 DEF CountsKnown, PairsKnown, CampaignKnown, GotKnown, MembersShareWordlist
  <1>3. FilesKnown'
    BY <1>1 DEF FilesKnown
  <1> QED BY <1>1, <1>2, <1>3

\* The sessions are read: all that were counted, and perhaps more.
LEMMA FetchSessionsKeeps == ASSUME CorpusInv, FetchSessions PROVE CorpusInv'
  <1> USE DEF CorpusInv
  <1>1. /\ proc.at = "sessions" /\ proc' = [proc EXCEPT !.at = "commands"]
        /\ got' = [s \in {x \in saved : Protocol[x] = "ssh"} |-> [commands |-> FALSE, attempts |-> FALSE]]
        /\ UNCHANGED <<saved, started, counts, pairs, campaign, rows, file, exports, report, reader, loaded>>
    BY DEF FetchSessions, AfterQuery
  <1>2. proc' \in [kind : {"detect", "export"}, at : Queries] /\ proc'.at = "commands"
    BY <1>1, InQuery DEF Queries
  <1>3. Candidates' = Candidates /\ \A ip : Member(ip)' = Member(ip) /\ Rows(ip)' = Rows(ip) /\ Read(ip)' = Rows(ip)
    BY <1>1 DEF Candidates, Member, Rows, Read
  <1>4. CountsKnown' /\ PairsKnown' /\ CampaignKnown'
    BY <1>1, <1>2, <1>3 DEF CountsKnown, PairsKnown, CampaignKnown
  <1>5. MembersShareWordlist'
    BY <1>1, WordlistKept
  <1>6. GotKnown'
    <2>1. \A s \in DOMAIN got' : s \in saved' /\ got'[s] \in ReadOf
      BY <1>1 DEF ReadOf
    <2>2. \A ip \in DOMAIN counts' : counts'[ip] <= Cardinality(Read(ip)')
      BY <1>1, <1>3 DEF CountsKnown
    <2> QED BY <1>2, <2>1, <2>2 DEF GotKnown
  <1>7. FilesKnown'
    BY <1>1, <1>2 DEF FilesKnown
  <1> QED BY <1>1, <1>2, <1>4, <1>5, <1>6, <1>7

\* Their commands and attempts are there already.
LEMMA FetchOfKeeps == ASSUME CorpusInv, NEW what \in {"commands", "attempts"}, FetchOf(what) PROVE CorpusInv'
  <1> USE DEF CorpusInv
  <1>1. /\ proc.at = what /\ proc' = [proc EXCEPT !.at = AfterQuery[what]]
        /\ got' = [s \in DOMAIN got |-> [got[s] EXCEPT ![what] = s \in saved]]
        /\ UNCHANGED <<saved, started, counts, pairs, campaign, rows, file, exports, report, reader, loaded>>
    BY DEF FetchOf
  <1>2. /\ proc' \in [kind : {"detect", "export"}, at : Queries] /\ proc'.at = AfterQuery[what]
        /\ what = "commands" => AfterQuery[what] = "attempts"
        /\ what = "attempts" => AfterQuery[what] = "build"
    <2>1. /\ what = "commands" => AfterQuery[what] = "attempts"
          /\ what = "attempts" => AfterQuery[what] = "build"
      BY DEF AfterQuery
    <2>2. AfterQuery[what] \in Queries /\ what # "end"
      BY <2>1 DEF Queries
    <2> QED BY <1>1, <2>1, <2>2, InQuery
  <1>3. Candidates' = Candidates /\ \A ip : Member(ip)' = Member(ip) /\ Rows(ip)' = Rows(ip) /\ Read(ip)' = Read(ip)
    BY <1>1 DEF Candidates, Member, Rows, Read
  <1>4. CountsKnown' /\ PairsKnown' /\ CampaignKnown'
    BY <1>1, <1>2, <1>3 DEF CountsKnown, PairsKnown, CampaignKnown
  <1>5. MembersShareWordlist'
    BY <1>1, WordlistKept
  <1>6. GotKnown'
    <2>1. ASSUME NEW s \in DOMAIN got
          PROVE  /\ s \in saved' /\ got'[s] \in ReadOf /\ got'[s][what]
                 /\ what = "attempts" => got'[s].commands
      <3>1. s \in saved /\ got[s] \in ReadOf /\ (what = "attempts" => got[s].commands)
        BY <1>1 DEF GotKnown
      <3>2. PICK yes \in BOOLEAN : yes = TRUE
        OBVIOUS
      <3>3. got'[s] = [got[s] EXCEPT ![what] = yes]
        <4>1. got'[s] = [got[s] EXCEPT ![what] = s \in saved]
          BY <1>1
        <4>2. (s \in saved) = yes
          BY <3>1, <3>2, Zenon
        <4> QED BY <4>1, <4>2
      <3>4. CASE what = "commands"
        BY <1>1, <3>1, <3>2, <3>3, <3>4 DEF ReadOf
      <3>5. CASE what = "attempts"
        BY <1>1, <3>1, <3>2, <3>3, <3>5 DEF ReadOf
      <3> QED BY <3>4, <3>5
    <2>2. DOMAIN got' = DOMAIN got
      BY <1>1
    <2>3. \A ip \in DOMAIN counts' : counts'[ip] <= Cardinality(Read(ip)')
      BY <1>1, <1>3 DEF GotKnown
    <2>4. CASE what = "commands"
      BY <1>2, <2>1, <2>2, <2>3, <2>4 DEF GotKnown
    <2>5. CASE what = "attempts"
      BY <1>2, <2>1, <2>2, <2>3, <2>5 DEF GotKnown
    <2> QED BY <2>4, <2>5
  <1>7. FilesKnown'
    BY <1>1, <1>2 DEF FilesKnown
  <1> QED BY <1>1, <1>2, <1>4, <1>5, <1>6, <1>7

\* The corpus is built from what was read.
LEMMA BuildKeeps == ASSUME CorpusInv, Build PROVE CorpusInv'
  <1> USE DEF CorpusInv
  <1> DEFINE I == {Ip[s] : s \in DOMAIN got}
  <1>1. /\ proc.at = "build" /\ proc' = [proc EXCEPT !.at = "write"] /\ file' = Empty
        /\ UNCHANGED <<saved, started, counts, pairs, campaign, got, report, loaded>>
    BY DEF Build, Opened
  <1>2. PICK ips \in SetToSeqs(I) : /\ rows' = Corpus(ips) /\ exports' = exports \cup {Corpus(ips)}
                                   /\ Overtaken(Corpus(ips))
    BY DEF Build
  <1>3. proc' \in [kind : {"detect", "export"}, at : Queries] /\ proc'.at = "write"
    BY <1>1, InQuery DEF Queries
  <1>4. Candidates' = Candidates /\ \A ip : Member(ip)' = Member(ip) /\ Rows(ip)' = Rows(ip) /\ Read(ip)' = Read(ip)
    BY <1>1 DEF Candidates, Member, Rows, Read
  <1>5. CountsKnown' /\ PairsKnown' /\ CampaignKnown'
    BY <1>1, <1>3, <1>4 DEF CountsKnown, PairsKnown, CampaignKnown
  <1>6. MembersShareWordlist'
    BY <1>1, WordlistKept
  <1>7. GotKnown'
    BY <1>1, <1>3, <1>4 DEF GotKnown
  <1>8. Readings
    <2>1. ASSUME NEW ip PROVE ToolkitLabelFor(ip) \in Nat \cup {Unknown}
      BY <1>1, KitIs
    <2> QED BY <1>1, <2>1 DEF Readings, GotKnown
  <1>9. IsFiniteSet(I)
    <2>1. IsFiniteSet(DOMAIN got)
      BY <1>1, FS_Subset, CorpusAssumption DEF GotKnown
    <2> DEFINE h == [s \in DOMAIN got |-> Ip[s]]
    <2>2. h \in Surjection(DOMAIN got, I)
      BY DEF Surjection
    <2> HIDE DEF h, I
    <2> QED BY <2>1, <2>2, FS_Surjection
  <1> HIDE DEF I
  <1>10. GoodCorpus(Corpus(ips))
    <2>1. Built(Corpus(ips), I)
      BY <1>8, <1>9, CorpusIsBuilt
    <2> QED BY <1>1, <1>8, <2>1, BuiltIsGood
  <1>11. FilesKnown'
    <2>1. Corpus(ips) \in Seq(CorpusRows)
      BY <1>10 DEF GoodCorpus
    <2>2. file'.rows = <<>> /\ file' \in [rows : Seq(CorpusRows), torn : BOOLEAN] /\ <<>> \o Corpus(ips) = Corpus(ips)
      BY <1>1, <2>1 DEF Empty
    <2>3. \A corpus \in exports' : GoodCorpus(corpus)
      BY <1>2, <1>10 DEF FilesKnown
    <2>4. ReaderKnown(file', exports', reader') /\ LoadedKnown(exports', loaded')
      <3>1. Overtaken(Corpus(ips)) /\ exports \subseteq exports'
        BY <1>2
      <3>2. ReaderKnown(file, exports, reader) /\ LoadedKnown(exports, loaded)
        BY DEF FilesKnown
      <3>3. ReaderKnown(file', exports', reader')
        BY <2>1, <2>2, <3>1, <3>2, OvertakenKnown
      <3> QED BY <1>1, <3>1, <3>2, <3>3, LoadedGrows
    <2>5. file'.rows \o rows' \in exports' /\ rows' \in Seq(CorpusRows)
      BY <1>1, <1>2, <2>1, <2>2 DEF FilesKnown
    <2> QED BY <2>2, <2>3, <2>4, <2>5 DEF FilesKnown
  <1> QED BY <1>1, <1>3, <1>5, <1>6, <1>7, <1>11

\* A sequence is the beginning of what is appended to it.
LEMMA BeginsWith == ASSUME NEW S, NEW x \in Seq(S), NEW y \in Seq(S) PROVE IsPrefix(x, x \o y)
  <1>1. Len(x) \in Nat /\ Len(y) \in Nat /\ x \o y \in Seq(S) /\ Len(x \o y) = Len(x) + Len(y)
    OBVIOUS
  <1>2. SubSeq(x, 1, Len(x)) = SubSeq(x \o y, 1, Len(x))
    BY <1>1
  <1> QED BY <1>1, <1>2 DEF IsPrefix

\* Two pieces of a sequence make it up, also when they are appended one by one.
InPieces(S, x, y, n) ==
    /\ SubSeq(y, 1, n) \in Seq(S) /\ SubSeq(y, n + 1, Len(y)) \in Seq(S)
    /\ (x \o SubSeq(y, 1, n)) \o SubSeq(y, n + 1, Len(y)) = x \o y

\* Wherever it is cut.
LEMMA Pieces ==
    ASSUME NEW S, NEW x \in Seq(S), NEW y \in Seq(S), NEW n \in 0 .. Len(y)
    PROVE  InPieces(S, x, y, n)
  <1>0. n \in Nat /\ Len(y) \in Nat
    OBVIOUS
  <1> DEFINE a == SubSeq(y, 1, n)
             b == SubSeq(y, n + 1, Len(y))
  <1>1. a \in Seq(S) /\ Len(a) = n /\ \A i \in 1 .. n : a[i] = y[i]
    BY <1>0
  <1>2. b \in Seq(S) /\ Len(b) = Len(y) - n /\ \A i \in 1 .. (Len(y) - n) : b[i] = y[n + i]
    BY <1>0
  <1> HIDE DEF a, b
  <1>3. a \o b \in Seq(S) /\ Len(a \o b) = Len(y)
    <2>1. a \o b \in Seq(S) /\ Len(a \o b) = Len(a) + Len(b)
      BY <1>1, <1>2, ConcatProperties
    <2>2. Len(a) + Len(b) = Len(y)
      BY <1>0, <1>1, <1>2
    <2> QED BY <2>1, <2>2
  <1>4. ASSUME NEW i \in 1 .. Len(y) PROVE (a \o b)[i] = y[i]
    <2>1. CASE i <= n
      BY <1>0, <1>1, <1>2, <2>1
    <2>2. CASE i > n
      <3>1. i - n \in 1 .. (Len(y) - n) /\ n + (i - n) = i
        BY <1>0, <2>2
      <3>2. (a \o b)[i] = b[i - n]
        BY <1>0, <1>1, <1>2, <2>2
      <3> QED BY <1>2, <3>1, <3>2
    <2>3. i <= n \/ i > n
      BY <1>0
    <2> QED BY <2>1, <2>2, <2>3
  <1>5. a \o b = y
    BY <1>3, <1>4, SeqEqual
  <1>6. (x \o a) \o b = x \o (a \o b)
    <2>1. x \in Seq(S) /\ a \in Seq(S) /\ b \in Seq(S)
      BY <1>1, <1>2
    <2> QED BY <2>1, SMTT(30)
  <1> QED BY <1>1, <1>2, <1>5, <1>6 DEF a, b, InPieces

\* A flush moves the beginning of what is left to the end of the file.
LEMMA FlushKeeps == ASSUME CorpusInv, Flush PROVE CorpusInv'
  <1> USE DEF CorpusInv
  <1>1. /\ proc.at = "write"
        /\ UNCHANGED <<saved, proc, started, counts, pairs, campaign, got, exports, report, reader, loaded>>
    BY DEF Flush
  <1>2. PICK n \in 0 .. Len(rows), torn \in BOOLEAN :
            /\ file' = [rows |-> file.rows \o SubSeq(rows, 1, n), torn |-> torn]
            /\ rows' = SubSeq(rows, n + 1, Len(rows))
    BY DEF Flush
  <1>3. rows \in Seq(CorpusRows) /\ file.rows \in Seq(CorpusRows) /\ file.rows \o rows \in exports
    BY <1>1 DEF FilesKnown
  <1> DEFINE front == file.rows \o SubSeq(rows, 1, n)
  <1>4. SubSeq(rows, 1, n) \in Seq(CorpusRows) /\ rows' \in Seq(CorpusRows) /\ front \o rows' = file.rows \o rows
    <2>1. /\ SubSeq(rows, 1, n) \in Seq(CorpusRows) /\ SubSeq(rows, n + 1, Len(rows)) \in Seq(CorpusRows)
          /\ (file.rows \o SubSeq(rows, 1, n)) \o SubSeq(rows, n + 1, Len(rows)) = file.rows \o rows
      <3> DEFINE x == file.rows
      <3>1. x \in Seq(CorpusRows) /\ rows \in Seq(CorpusRows)
        BY <1>3
      <3> HIDE DEF x
      <3>2. /\ SubSeq(rows, 1, n) \in Seq(CorpusRows) /\ SubSeq(rows, n + 1, Len(rows)) \in Seq(CorpusRows)
            /\ (x \o SubSeq(rows, 1, n)) \o SubSeq(rows, n + 1, Len(rows)) = x \o rows
        <4>1. n \in 0 .. Len(rows)
          BY <1>2
        <4>2. InPieces(CorpusRows, x, rows, n)
          BY <3>1, <4>1, Pieces
        <4> QED BY <4>2 DEF InPieces
      <3> QED BY <3>2 DEF x
    <2> QED BY <1>2, <2>1
  <1>5. front \in Seq(CorpusRows)
    BY <1>3, <1>4
  <1>6. file'.rows = front /\ file' \in [rows : Seq(CorpusRows), torn : BOOLEAN]
    BY <1>2, <1>5
  <1> HIDE DEF front
  <1>7. IsPrefix(front, front \o rows')
    BY <1>4, <1>5, BeginsWith
  <1>8. FilesKnown'
    <2>1. \A corpus \in exports' : GoodCorpus(corpus)
      BY <1>1 DEF FilesKnown
    <2>2. file'.rows \o rows' \in exports' /\ IsPrefix(file'.rows, file'.rows \o rows')
      BY <1>1, <1>3, <1>4, <1>6, <1>7
    <2>3. ReaderKnown(file', exports', reader') /\ LoadedKnown(exports', loaded')
      <3> DEFINE old == file.rows
                 more == SubSeq(rows, 1, n)
      <3>1. old \in Seq(CorpusRows) /\ more \in Seq(CorpusRows) /\ file'.rows = old \o more
        BY <1>3, <1>4, <1>6 DEF front
      <3>2. ReaderKnown(file, exports, reader) /\ LoadedKnown(exports, loaded)
        BY DEF FilesKnown
      <3> HIDE DEF more
      <3> QED BY <1>1, <3>1, <3>2, FileGrows
    <2> QED BY <1>4, <1>6, <2>1, <2>2, <2>3 DEF FilesKnown
  <1>9. Candidates' = Candidates /\ \A ip : Member(ip)' = Member(ip) /\ Rows(ip)' = Rows(ip) /\ Read(ip)' = Read(ip)
    BY <1>1 DEF Candidates, Member, Rows, Read
  <1>10. CountsKnown' /\ PairsKnown' /\ CampaignKnown' /\ GotKnown' /\ MembersShareWordlist'
    <2>1. CountsKnown' /\ PairsKnown' /\ MembersShareWordlist'
      BY <1>1, <1>9 DEF CountsKnown, PairsKnown, MembersShareWordlist
    <2>2. CampaignKnown'
      BY <1>1, <1>9 DEF CampaignKnown
    <2>3. GotKnown'
      BY <1>1, <1>9 DEF GotKnown
    <2> QED BY <2>1, <2>2, <2>3
  <1> QED BY <1>1, <1>8, <1>10

\* Closing the file completes the corpus in it.
LEMMA CloseFileKeeps == ASSUME CorpusInv, CloseFile PROVE CorpusInv'
  <1> USE DEF CorpusInv
  <1>1. /\ proc.at = "write" /\ proc' = Off /\ proc'.at = "end"
        /\ campaign' = Nobody /\ campaign'.members = {} /\ rows' = <<>>
        /\ UNCHANGED <<saved, started, exports, reader, loaded>>
    BY DEF CloseFile, Forget, Off, Nobody
  <1>2. PICK no \in BOOLEAN : file' = [rows |-> file.rows \o rows, torn |-> no]
    BY DEF CloseFile
  <1>3. CountsKnown' /\ PairsKnown' /\ CampaignKnown' /\ GotKnown' /\ MembersShareWordlist'
    BY <1>1 DEF CountsKnown, PairsKnown, CampaignKnown, GotKnown, MembersShareWordlist
  <1>4. rows \in Seq(CorpusRows) /\ file.rows \in Seq(CorpusRows) /\ file.rows \o rows \in exports
    BY <1>1 DEF FilesKnown
  <1> DEFINE whole == file.rows \o rows
  <1>5. whole \in Seq(CorpusRows) /\ whole \o <<>> = whole /\ <<>> \in Seq(CorpusRows)
    BY <1>4
  <1>6. file'.rows = whole /\ file' \in [rows : Seq(CorpusRows), torn : BOOLEAN] /\ whole \in exports
    BY <1>2, <1>4, <1>5
  <1> HIDE DEF whole
  <1>7. IsPrefix(whole, whole)
    <2>1. IsPrefix(whole, whole \o <<>>)
      BY <1>5, BeginsWith
    <2> QED BY <1>5, <2>1
  <1>8. FilesKnown'
    <2>1. \A corpus \in exports' : GoodCorpus(corpus)
      BY <1>1 DEF FilesKnown
    <2>2. ReaderKnown(file', exports', reader') /\ LoadedKnown(exports', loaded')
      <3>1. file'.rows = file.rows \o rows
        BY <1>6 DEF whole
      <3>2. ReaderKnown(file, exports, reader) /\ LoadedKnown(exports, loaded)
        BY DEF FilesKnown
      <3> QED BY <1>1, <1>4, <3>1, <3>2, FileGrows
    <2> QED BY <1>1, <1>5, <1>6, <1>7, <2>1, <2>2 DEF FilesKnown
  <1> QED BY <1>1, <1>3, <1>8

\* A load reads what the file holds.
LEMMA LoadKeeps == ASSUME CorpusInv, Load PROVE CorpusInv'
  <1> USE DEF CorpusInv
  <1>1. UNCHANGED <<saved, proc, started, counts, pairs, campaign, got, rows, file, exports, report>>
    BY DEF Load, OpenCorpus, ReadRow, EndLoad, LoadFails
  <1>2. Candidates' = Candidates /\ \A ip : Member(ip)' = Member(ip) /\ Rows(ip)' = Rows(ip) /\ Read(ip)' = Read(ip)
    BY <1>1 DEF Candidates, Member, Rows, Read
  <1>3. CountsKnown' /\ PairsKnown' /\ CampaignKnown' /\ GotKnown' /\ MembersShareWordlist'
    BY <1>1, <1>2 DEF CountsKnown, PairsKnown, CampaignKnown, GotKnown, MembersShareWordlist
  <1>4. ReaderKnown(file, exports, reader) /\ LoadedKnown(exports, loaded) /\ file.rows \in Seq(CorpusRows)
    BY DEF FilesKnown
  <1>5. ReaderKnown(file, exports, reader') /\ LoadedKnown(exports, loaded')
    <2>1. CASE OpenCorpus
      BY <1>4, <2>1, NothingRead DEF OpenCorpus
    <2>2. CASE ReadRow
      <3>1. file.rows = <<>> \/ \E corpus \in exports : IsPrefix(file.rows, corpus)
        BY DEF FilesKnown
      <3>2. \A corpus \in exports : corpus \in Seq(CorpusRows)
        BY DEF FilesKnown, GoodCorpus
      <3> QED BY <1>4, <2>2, <3>1, <3>2, ReadRowKnown DEF ReadRow
    <2>3. CASE EndLoad
      <3>1. LoadedKnown(exports, loaded')
        <4>1. /\ loaded' = [rows |-> reader.rows, own |-> reader.own, cuts |-> reader.cuts]
              /\ LoadSound(reader, exports)
          BY <1>4, <2>3 DEF EndLoad, ReaderKnown
        <4>2. loaded'.rows = reader.rows /\ loaded'.own = reader.own /\ loaded'.cuts = reader.cuts
          BY <4>1
        <4>3. LoadSound(loaded', exports)
          BY <4>1, <4>2 DEF LoadSound
        <4>4. Cardinality(Foreign(reader.rows, exports)) <= reader.cuts
          <5>1. reader.rows \in Seq(CorpusRows \cup {Spliced}) /\ reader.cuts \in Nat
            BY <4>1 DEF LoadSound
          <5>2. Cardinality(Foreign(reader.rows, exports)) \in Nat
            BY <5>1, ForeignShrinks
          <5> QED BY <1>4, <5>1, <5>2 DEF ReaderKnown
        <4> QED BY <4>2, <4>3, <4>4 DEF LoadedKnown
      <3> QED BY <1>4, <2>3, <3>1, NothingRead DEF EndLoad
    <2>4. CASE LoadFails
      BY <1>4, <2>4, NothingRead DEF LoadFails
    <2> QED BY <2>1, <2>2, <2>3, <2>4 DEF Load
  <1>6. FilesKnown'
    BY <1>1, <1>5 DEF FilesKnown
  <1> QED BY <1>1, <1>3, <1>6

\* The invariant holds in every reachable state of the commands.
LEMMA CorpusInvariant == Spec => []CorpusInv
  <1>1. Init => CorpusInv
    BY CorpusInitially
  <1>2. CorpusInv /\ [Next]_vars => CorpusInv'
    <2> SUFFICES ASSUME CorpusInv, [Next]_vars PROVE CorpusInv'
      OBVIOUS
    <2>1. CASE UNCHANGED vars
      <3>1. UNCHANGED <<saved, proc, started, counts, pairs, campaign, got, rows, file, exports, report, reader, loaded>>
        BY <2>1 DEF vars
      <3>2. Candidates' = Candidates /\ \A ip : Member(ip)' = Member(ip) /\ Rows(ip)' = Rows(ip) /\ Read(ip)' = Read(ip)
        BY <3>1 DEF Candidates, Member, Rows, Read
      <3>3. CountsKnown' /\ PairsKnown' /\ CampaignKnown' /\ GotKnown' /\ MembersShareWordlist'
        BY <3>1, <3>2 DEF CorpusInv, CountsKnown, PairsKnown, CampaignKnown, GotKnown, MembersShareWordlist
      <3>4. FilesKnown'
        BY <3>1 DEF CorpusInv, FilesKnown
      <3> QED BY <3>1, <3>3, <3>4 DEF CorpusInv
    <2>2. ASSUME NEW s \in Sess, SaveSession(s) PROVE CorpusInv'
      BY <2>2, SaveKeeps
    <2>3. ASSUME NEW kind \in {"detect", "export"}, Connect(kind) PROVE CorpusInv'
      BY <2>3, ConnectKeeps
    <2>4. CASE FetchCounts
      BY <2>4, FetchCountsKeeps
    <2>5. CASE FetchPairs
      BY <2>5, FetchPairsKeeps
    <2>6. CASE Detect
      BY <2>6, DetectKeeps
    <2>7. CASE WriteReport \/ Die
      BY <2>7, ForgetKeeps
    <2>8. CASE FetchSessions
      BY <2>8, FetchSessionsKeeps
    <2>9. ASSUME NEW what \in {"commands", "attempts"}, FetchOf(what) PROVE CorpusInv'
      BY <2>9, FetchOfKeeps
    <2>10. CASE Build
      BY <2>10, BuildKeeps
    <2>11. CASE Flush
      BY <2>11, FlushKeeps
    <2>12. CASE CloseFile
      BY <2>12, CloseFileKeeps
    <2>13. CASE Load
      BY <2>13, LoadKeeps
    <2> QED BY <2>1, <2>2, <2>3, <2>4, <2>5, <2>6, <2>7, <2>8, <2>9, <2>10, <2>11, <2>12, <2>13 DEF Next, Command
  <1> QED BY <1>1, <1>2, PTL DEF Spec

\* The labels are honest in every run of the two commands (real_db.py, campaign.py
\* and real_data.py), whatever sensors save between two queries and wherever a
\* command dies: members of a campaign share the most frequent set of credentials;
\* an address labelled with a tier has that many word lists of sessions in the
\* corpus; every session in it has its commands and attempts; and an identity is
\* one block of distinct sessions with one toolkit.
THEOREM LabelsAreHonest == Spec => []LabelsHold
  <1>1. CorpusInv => LabelsHold
    <2> SUFFICES ASSUME CorpusInv PROVE LabelsHold
      OBVIOUS
    <2>1. TypeOK
      <3>1. ASSUME campaign # Nobody
            PROVE  /\ campaign.members \subseteq [ip : Ips, tier : Nat \ {0}, count : Nat \ {0}]
                   /\ campaign.excluded \subseteq Ips
        <4>1. /\ campaign.members \subseteq {Member(ip) : ip \in Candidates} /\ campaign.excluded \subseteq Candidates
              /\ \A ip \in DOMAIN counts : ip \in Ips /\ counts[ip] \in Nat \ {0}
          BY <3>1 DEF CorpusInv, CampaignKnown, CountsKnown
        <4>2. ASSUME NEW ip \in Candidates
              PROVE  ip \in Ips /\ counts[ip] \in Nat \ {0} /\ counts[ip] \div WordlistLen \in Nat \ {0}
          <5>1. ip \in DOMAIN counts /\ counts[ip] % WordlistLen = 0 /\ counts[ip] \in Nat \ {0} /\ ip \in Ips
            BY <4>1 DEF Candidates
          <5>2. ASSUME NEW c \in Nat \ {0}, NEW w \in Nat \ {0}, c % w = 0 PROVE c \div w \in Nat \ {0}
            BY <5>2, SMTT(30)
          <5> QED BY <5>1, <5>2, CorpusAssumption
        <4>3. \A ip \in Candidates : Member(ip) \in [ip : Ips, tier : Nat \ {0}, count : Nat \ {0}]
          BY <4>2 DEF Member
        <4> QED BY <4>1, <4>2, <4>3
      <3>2. campaign = Nobody => campaign.members = {} /\ campaign.excluded = {}
        BY DEF Nobody
      <3>3. proc.kind \in {"off", "detect", "export"}
        BY DEF CorpusInv, Off
      <3>4. file.torn \in BOOLEAN
        BY DEF CorpusInv, FilesKnown
      <3> QED BY <3>1, <3>2, <3>3, <3>4 DEF CorpusInv, TypeOK
    <2>2. MembersShareWordlist
      BY DEF CorpusInv
    <2>3. \A corpus \in exports : GoodCorpus(corpus)
      BY DEF CorpusInv, FilesKnown
    <2>4. TierIsHonest
      BY <2>3 DEF GoodCorpus, Own, TierIsHonest
    <2>5. CorpusIsWhole
      BY <2>3 DEF GoodCorpus, CorpusIsWhole
    <2>6. OneBlockPerIdentity
      BY <2>3 DEF GoodCorpus, Own, OneBlockPerIdentity
    <2> QED BY <2>1, <2>2, <2>4, <2>5, <2>6 DEF LabelsHold
  <1> QED BY <1>1, CorpusInvariant, PTL

\* What the trainer loads is one export's corpus or the beginning of it, in every
\* run in which no export opens the file under it: load_real_identity_corpus reads
\* line by line what save_real_identity_corpus writes in place and may leave
\* cut inside a row.  A load that is overtaken has begun with such a beginning, and
\* returns at most one row for each opening that is of no export.
THEOREM LoadsArePrefixes == Spec => []LoadedIsPrefix
  <1>1. CorpusInv => LoadedIsPrefix
    BY DEF CorpusInv, FilesKnown, LoadedKnown, LoadSound, Foreign, LoadedIsPrefix
  <1> QED BY <1>1, CorpusInvariant, PTL

=============================================================================
