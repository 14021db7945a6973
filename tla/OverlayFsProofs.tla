--------------------------- MODULE OverlayFsProofs ---------------------------
(***************************************************************************)
(* Proofs about the overlay filesystem, for any names, depth and contents, *)
(* any base tree, with or without concealed entries, and any read-only     *)
(* paths; rm -r / included.                                                *)
(***************************************************************************)
EXTENDS OverlayFs, FiniteSetTheorems, SequenceTheorems, TLAPS

-----------------------------------------------------------------------------
(* Induction *)

\* A set of numbers has a least element: initial segments are finite, and finite
\* sets are well-founded under strict inclusion.
LEMMA LeastNumber ==
    ASSUME NEW T \in SUBSET Nat, T # {}
    PROVE  \E x \in T : \A y \in T : x <= y
  <1> DEFINE U == {0 .. n : n \in T}
             R == StrictSubsetOrdering(Nat)
  <1>1. U \subseteq FiniteSubsetsOf(Nat)
    <2> SUFFICES ASSUME NEW n \in T PROVE 0 .. n \in FiniteSubsetsOf(Nat)
      OBVIOUS
    <2>1. n \in Int /\ IsFiniteSet(0 .. n)
      BY FS_Interval
    <2> QED BY <2>1 DEF FiniteSubsetsOf
  <1>2. U # {}
    OBVIOUS
  <1>3. IsWellFoundedOn(R, FiniteSubsetsOf(Nat))
    BY FS_StrictSubsetOrderingWellFounded
  <1>4. PICK u \in U : \A v \in U : ~(<<v, u>> \in R)
    <2> HIDE DEF U, R
    <2> QED BY <1>1, <1>2, <1>3, WFMin
  <1>5. PICK x \in T : u = 0 .. x
    OBVIOUS
  <1>6. ASSUME NEW y \in T, y < x PROVE FALSE
    <2>1. 0 .. y \subseteq 0 .. x /\ x \in 0 .. x /\ x \notin 0 .. y
      BY <1>6
    <2>2. 0 .. y \in SUBSET Nat /\ 0 .. x \in SUBSET Nat
      OBVIOUS
    <2>3. <<0 .. y, 0 .. x>> \in R
      BY <2>1, <2>2 DEF StrictSubsetOrdering
    <2> QED BY <1>4, <1>5, <2>3
  <1> QED BY <1>6

\* Induction, for a set of numbers.
LEMMA Induction ==
    ASSUME NEW S, 0 \in S, \A n \in Nat : n \in S => n + 1 \in S
    PROVE  Nat \subseteq S
  <1> DEFINE T == Nat \ S
  <1> SUFFICES ASSUME T # {} PROVE FALSE
    OBVIOUS
  <1>1. PICK x \in T : \A y \in T : x <= y
    <2> HIDE DEF T
    <2>1. T \in SUBSET Nat
      BY DEF T
    <2> QED BY <2>1, LeastNumber
  <1>2. x # 0 /\ x - 1 \in Nat /\ x - 1 < x /\ (x - 1) + 1 = x
    OBVIOUS
  <1>3. x - 1 \in S
    BY <1>1, <1>2
  <1> QED BY <1>2, <1>3

-----------------------------------------------------------------------------
(* Paths *)

\* A path is a sequence of names of at most Depth.
LEMMA PathIsSeq == \A p : p \in Paths <=> p \in Seq(Names) /\ Len(p) <= Depth
  <1>1. ASSUME NEW p \in Paths PROVE p \in Seq(Names) /\ Len(p) <= Depth
    <2>1. PICK n \in 0 .. Depth : p \in [1 .. n -> Names]
      BY DEF Paths
    <2>2. n \in Nat /\ n <= Depth
      BY DepthAssumption
    <2>3. p \in Seq(Names)
      BY <2>1, <2>2, SeqDef
    <2>4. Len(p) = n
      BY <2>1, <2>2, <2>3, LenProperties
    <2> QED BY <2>2, <2>3, <2>4
  <1>2. ASSUME NEW p \in Seq(Names), Len(p) <= Depth PROVE p \in Paths
    <2>1. Len(p) \in 0 .. Depth /\ p \in [1 .. Len(p) -> Names]
      BY <1>2, LenProperties, DepthAssumption
    <2> QED BY <2>1 DEF Paths
  <1> QED BY <1>1, <1>2

\* The first k names of a path.
Pre(p, k) == SubSeq(p, 1, k)

LEMMA PreType ==
    ASSUME NEW p \in Paths, NEW k \in 0 .. Len(p)
    PROVE  /\ Pre(p, k) \in Paths /\ Len(Pre(p, k)) = k
           /\ \A i \in 1 .. k : Pre(p, k)[i] = p[i]
  <1>1. p \in Seq(Names) /\ Len(p) \in Nat /\ Len(p) <= Depth /\ p \in [1 .. Len(p) -> Names]
    BY PathIsSeq, LenProperties
  <1>2. 1 \in Int /\ k \in Int /\ \A i \in 1 .. k : p[i] \in Names
    BY <1>1
  <1>3. /\ Pre(p, k) \in Seq(Names) /\ Len(Pre(p, k)) = IF 1 <= k THEN k - 1 + 1 ELSE 0
        /\ \A i \in 1 .. k - 1 + 1 : Pre(p, k)[i] = p[1 + i - 1]
    BY <1>2, SubSeqProperties DEF Pre
  <1>4. Len(Pre(p, k)) = k /\ \A i \in 1 .. k : Pre(p, k)[i] = p[i]
    BY <1>1, <1>3
  <1>5. Len(Pre(p, k)) <= Depth
    BY <1>1, <1>4, DepthAssumption
  <1> QED BY <1>3, <1>4, <1>5, PathIsSeq

\* Two paths with the same names are the same.
LEMMA PathEqual ==
    ASSUME NEW p \in Paths, NEW q \in Paths, Len(p) = Len(q), \A i \in 1 .. Len(p) : p[i] = q[i]
    PROVE  p = q
  BY PathIsSeq, SeqEqual

LEMMA PathLen ==
    ASSUME NEW p \in Paths
    PROVE  /\ Len(p) \in Nat /\ Len(p) <= Depth /\ (p = <<>> <=> Len(p) = 0)
           /\ \A i \in 1 .. Len(p) : p[i] \in Names
  <1>1. p \in Seq(Names) /\ Len(p) \in Nat /\ Len(p) <= Depth /\ p \in [1 .. Len(p) -> Names]
    BY PathIsSeq, LenProperties
  <1>2. p = <<>> <=> Len(p) = 0
    BY <1>1, EmptySeq
  <1> QED BY <1>1, <1>2

LEMMA RootIsPath == <<>> \in Paths /\ Len(<<>>) = 0
  <1>1. <<>> \in Seq(Names) /\ Len(<<>>) = 0
    BY EmptySeq
  <1>2. Len(<<>>) <= Depth
    BY <1>1, DepthAssumption
  <1> QED BY <1>1, <1>2, PathIsSeq

LEMMA PreWhole == ASSUME NEW p \in Paths PROVE Pre(p, Len(p)) = p /\ Pre(p, 0) = <<>>
  <1>1. Len(p) \in Nat /\ Len(p) \in 0 .. Len(p) /\ 0 \in 0 .. Len(p)
    BY PathLen
  <1>2. Pre(p, Len(p)) = p
    <2>1. /\ Pre(p, Len(p)) \in Paths /\ Len(Pre(p, Len(p))) = Len(p)
          /\ \A i \in 1 .. Len(p) : Pre(p, Len(p))[i] = p[i]
      BY <1>1, PreType
    <2> QED BY <2>1, PathEqual
  <1>3. Pre(p, 0) \in Paths /\ Len(Pre(p, 0)) = 0
    BY <1>1, PreType
  <1> QED BY <1>2, <1>3, PathLen

LEMMA PreOfPre ==
    ASSUME NEW p \in Paths, NEW k \in 0 .. Len(p), NEW j \in 0 .. k
    PROVE  Pre(Pre(p, k), j) = Pre(p, j)
  <1>1. Len(p) \in Nat /\ j \in 0 .. Len(p)
    BY PathLen
  <1>2. /\ Pre(p, k) \in Paths /\ Len(Pre(p, k)) = k
        /\ \A i \in 1 .. k : Pre(p, k)[i] = p[i]
    BY PreType
  <1>3. /\ Pre(p, j) \in Paths /\ Len(Pre(p, j)) = j
        /\ \A i \in 1 .. j : Pre(p, j)[i] = p[i]
    BY <1>1, PreType
  <1>4. /\ Pre(Pre(p, k), j) \in Paths /\ Len(Pre(Pre(p, k), j)) = j
        /\ \A i \in 1 .. j : Pre(Pre(p, k), j)[i] = Pre(p, k)[i]
    BY <1>2, PreType
  <1>5. \A i \in 1 .. j : i \in 1 .. k
    OBVIOUS
  <1> QED BY <1>2, <1>3, <1>4, <1>5, PathEqual

\* The directory a path is in, and the name it has there.
LEMMA AboveType ==
    ASSUME NEW p \in Paths, p # <<>>
    PROVE  /\ Above(p) \in Paths /\ Len(Above(p)) = Len(p) - 1 /\ Above(p) = Pre(p, Len(p) - 1)
           /\ Base(p) \in Names
           /\ Append(Above(p), Base(p)) = p
  <1>1. Len(p) \in Nat /\ Len(p) # 0 /\ Len(p) - 1 \in 0 .. Len(p) /\ Len(p) \in 1 .. Len(p)
    BY PathLen
  <1>2. Above(p) = Pre(p, Len(p) - 1)
    BY DEF Above, Pre
  <1>3. /\ Above(p) \in Paths /\ Len(Above(p)) = Len(p) - 1
        /\ \A i \in 1 .. Len(p) - 1 : Above(p)[i] = p[i]
    BY <1>1, <1>2, PreType
  <1>4. Base(p) \in Names
    BY <1>1, PathLen DEF Base
  <1>5. Above(p) \in Seq(Names) /\ p \in Seq(Names)
    BY <1>3, PathIsSeq
  <1>6. /\ Append(Above(p), Base(p)) \in Seq(Names)
        /\ Len(Append(Above(p), Base(p))) = Len(p)
        /\ \A i \in 1 .. Len(p) : Append(Above(p), Base(p))[i] = p[i]
    <2>1. /\ Append(Above(p), Base(p)) \in Seq(Names)
          /\ Len(Append(Above(p), Base(p))) = Len(Above(p)) + 1
          /\ \A i \in 1 .. Len(Above(p)) : Append(Above(p), Base(p))[i] = Above(p)[i]
          /\ Append(Above(p), Base(p))[Len(Above(p)) + 1] = Base(p)
      BY <1>4, <1>5, AppendProperties
    <2>2. Base(p) = p[Len(p)]
      BY DEF Base
    <2> QED BY <1>1, <1>3, <2>1, <2>2
  <1>7. Append(Above(p), Base(p)) = p
    BY <1>5, <1>6, SeqEqual
  <1> QED BY <1>2, <1>3, <1>4, <1>7

\* q is p or below it.
Under(p, q) == q = p \/ Below(p, q)

LEMMA UnderIsPre ==
    ASSUME NEW p \in Paths, NEW q \in Paths
    PROVE  /\ Under(p, q) <=> Len(p) <= Len(q) /\ Pre(q, Len(p)) = p
           /\ Below(p, q) <=> Len(p) < Len(q) /\ Pre(q, Len(p)) = p
           /\ Below(p, q) => p # q /\ q # <<>>
  <1>1. Len(p) \in Nat /\ Len(q) \in Nat
    BY PathLen
  <1>2. Below(p, q) <=> Len(p) < Len(q) /\ Pre(q, Len(p)) = p
    BY <1>1 DEF Below, Pre
  <1>3. Len(p) = Len(q) /\ Pre(q, Len(p)) = p => p = q
    BY PreWhole
  <1>4. p = q => Len(p) <= Len(q) /\ Pre(q, Len(p)) = p
    BY <1>1, PreWhole
  <1>5. Below(p, q) => p # q /\ q # <<>>
    BY <1>1, <1>2, PathLen
  <1> QED BY <1>1, <1>2, <1>3, <1>4, <1>5 DEF Under

\* A path below p is in p, or in a directory below it.
LEMMA UnderAbove ==
    ASSUME NEW p \in Paths, NEW q \in Paths, q # <<>>
    PROVE  /\ Below(p, q) <=> Under(p, Above(q))
           /\ Below(Above(q), q)
  <1>1. Len(p) \in Nat /\ Len(q) \in Nat /\ Len(q) # 0
    BY PathLen
  <1>2. Above(q) \in Paths /\ Len(Above(q)) = Len(q) - 1 /\ Above(q) = Pre(q, Len(q) - 1)
    BY AboveType
  <1>3. ASSUME Len(p) <= Len(q) - 1 PROVE Pre(Above(q), Len(p)) = Pre(q, Len(p))
    <2>1. Len(q) - 1 \in 0 .. Len(q) /\ Len(p) \in 0 .. Len(q) - 1
      BY <1>1, <1>3
    <2> QED BY <1>2, <2>1, PreOfPre
  <1>4. Below(p, q) <=> Len(p) < Len(q) /\ Pre(q, Len(p)) = p
    BY UnderIsPre
  <1>5. Under(p, Above(q)) <=> Len(p) <= Len(q) - 1 /\ Pre(Above(q), Len(p)) = p
    BY <1>2, UnderIsPre
  <1>6. Below(p, q) <=> Under(p, Above(q))
    BY <1>1, <1>3, <1>4, <1>5
  <1>7. Below(Above(q), q)
    <2>1. Below(Above(q), q) <=> Len(Above(q)) < Len(q) /\ Pre(q, Len(Above(q))) = Above(q)
      BY <1>2, UnderIsPre
    <2> QED BY <1>1, <1>2, <2>1
  <1> QED BY <1>6, <1>7

\* Where q goes when p moves to r, name by name.
Spelled(p, r, q, t) ==
    /\ t \in Seq(Names)
    /\ Len(t) = Len(r) + Len(q) - Len(p)
    /\ \A i \in 1 .. Len(r) : t[i] = r[i]
    /\ \A i \in Len(p) + 1 .. Len(q) : t[i - Len(p) + Len(r)] = q[i]

LEMMA TargetNames ==
    ASSUME NEW p \in Paths, NEW r \in Paths, NEW q \in Paths, Under(p, q)
    PROVE  Spelled(p, r, q, Target(p, r, q))
  <1> DEFINE tail == SubSeq(q, Len(p) + 1, Len(q))
  <1>1. Len(p) \in Nat /\ Len(q) \in Nat /\ Len(r) \in Nat /\ Len(p) <= Len(q)
    BY PathLen, UnderIsPre
  <1>2. r \in Seq(Names) /\ q \in Seq(Names) /\ \A i \in 1 .. Len(q) : q[i] \in Names
    BY PathIsSeq, PathLen
  <1>3. Len(p) + 1 \in Int /\ Len(q) \in Int /\ \A i \in Len(p) + 1 .. Len(q) : q[i] \in Names
    BY <1>1, <1>2
  <1>4. /\ tail \in Seq(Names)
        /\ Len(tail) = IF Len(p) + 1 <= Len(q) THEN Len(q) - (Len(p) + 1) + 1 ELSE 0
        /\ \A i \in 1 .. Len(q) - (Len(p) + 1) + 1 : tail[i] = q[Len(p) + 1 + i - 1]
    BY <1>3, SubSeqProperties
  <1>5. /\ Len(tail) = Len(q) - Len(p)
        /\ \A i \in 1 .. Len(q) - Len(p) : tail[i] = q[Len(p) + i]
    BY <1>1, <1>4
  <1>6. Target(p, r, q) = r \o tail
    BY DEF Target
  <1> HIDE DEF tail
  <1>7. /\ r \o tail \in Seq(Names) /\ Len(r \o tail) = Len(r) + Len(tail)
        /\ \A i \in 1 .. Len(r) + Len(tail) : (r \o tail)[i] = IF i <= Len(r) THEN r[i] ELSE tail[i - Len(r)]
    BY <1>2, <1>4, ConcatProperties
  <1>8. Len(r \o tail) = Len(r) + Len(q) - Len(p)
    BY <1>1, <1>5, <1>7
  <1>9. \A i \in 1 .. Len(r) : (r \o tail)[i] = r[i]
    BY <1>1, <1>5, <1>7
  <1>10. ASSUME NEW i \in Len(p) + 1 .. Len(q)
         PROVE  (r \o tail)[i - Len(p) + Len(r)] = q[i]
    <2>1. i - Len(p) \in 1 .. Len(q) - Len(p) /\ Len(p) + (i - Len(p)) = i
      BY <1>1
    <2>2. tail[i - Len(p)] = q[i]
      BY <1>5, <2>1
    <2>3. i - Len(p) + Len(r) \in 1 .. Len(r) + Len(tail) /\ ~(i - Len(p) + Len(r) <= Len(r))
          /\ (i - Len(p) + Len(r)) - Len(r) = i - Len(p)
      BY <1>1, <1>5
    <2> QED BY <1>7, <2>2, <2>3
  <1> QED BY <1>6, <1>7, <1>8, <1>9, <1>10 DEF Spelled

\* When p moves to r, what is under p goes under r and back again, and keeps its
\* name and its place in its directory.
LEMMA TargetPath ==
    ASSUME NEW p \in Paths, NEW r \in Paths, NEW q \in Paths, Under(p, q), Target(p, r, q) \in Paths
    PROVE  /\ Under(r, Target(p, r, q))
           /\ Target(r, p, Target(p, r, q)) = q
           /\ q = p <=> Target(p, r, q) = r
  <1> DEFINE t == Target(p, r, q)
  <1>1. Len(p) \in Nat /\ Len(q) \in Nat /\ Len(r) \in Nat /\ Len(p) <= Len(q) /\ Pre(q, Len(p)) = p
    BY PathLen, UnderIsPre
  <1>2. /\ Len(t) = Len(r) + Len(q) - Len(p)
        /\ \A i \in 1 .. Len(r) : t[i] = r[i]
        /\ \A i \in Len(p) + 1 .. Len(q) : t[i - Len(p) + Len(r)] = q[i]
    <2>1. Spelled(p, r, q, t)
      BY TargetNames
    <2> HIDE DEF t
    <2> QED BY <2>1 DEF Spelled
  <1> HIDE DEF t
  <1>3. t \in Paths
    BY DEF t
  <1>4. Len(r) \in 0 .. Len(t)
    BY <1>1, <1>2
  <1>5. /\ Pre(t, Len(r)) \in Paths /\ Len(Pre(t, Len(r))) = Len(r)
        /\ \A i \in 1 .. Len(r) : Pre(t, Len(r))[i] = t[i]
    BY <1>3, <1>4, PreType
  <1>6. Pre(t, Len(r)) = r
    BY <1>2, <1>5, PathEqual
  <1>7. Under(r, t)
    BY <1>3, <1>4, <1>6, UnderIsPre
  <1>8. /\ Target(r, p, t) \in Seq(Names)
        /\ Len(Target(r, p, t)) = Len(p) + Len(t) - Len(r)
        /\ \A i \in 1 .. Len(p) : Target(r, p, t)[i] = p[i]
        /\ \A i \in Len(r) + 1 .. Len(t) : Target(r, p, t)[i - Len(r) + Len(p)] = t[i]
    <2> DEFINE u == Target(r, p, t)
    <2>1. Spelled(r, p, t, u)
      BY <1>3, <1>7, TargetNames
    <2> HIDE DEF u
    <2>2. /\ u \in Seq(Names) /\ Len(u) = Len(p) + Len(t) - Len(r)
          /\ \A i \in 1 .. Len(p) : u[i] = p[i]
          /\ \A i \in Len(r) + 1 .. Len(t) : u[i - Len(r) + Len(p)] = t[i]
      BY <2>1 DEF Spelled
    <2> QED BY <2>2 DEF u
  <1>9. Len(Target(r, p, t)) = Len(q)
    BY <1>1, <1>2, <1>8
  <1>10. \A i \in 1 .. Len(p) : p[i] = q[i]
    <2>1. Len(p) \in 0 .. Len(q)
      BY <1>1
    <2> QED BY <1>1, <2>1, PreType
  <1>11. ASSUME NEW i \in 1 .. Len(q) PROVE Target(r, p, t)[i] = q[i]
    <2>1. CASE i <= Len(p)
      BY <1>1, <1>8, <1>10, <2>1
    <2>2. CASE i > Len(p)
      <3>1. i \in Len(p) + 1 .. Len(q)
        BY <1>1, <2>2
      <3> DEFINE j == i - Len(p) + Len(r)
      <3>2. j \in Len(r) + 1 .. Len(t) /\ j - Len(r) + Len(p) = i
        BY <1>1, <1>2, <3>1
      <3>3. t[j] = q[i]
        BY <1>2, <3>1
      <3> HIDE DEF j
      <3> QED BY <1>8, <3>2, <3>3
    <2> QED BY <1>1, <2>1, <2>2
  <1>12. Target(r, p, t) = q
    BY <1>8, <1>9, <1>11, PathIsSeq, SeqEqual
  <1>13. q = p <=> t = r
    <2>1. q = p => Len(t) = Len(r)
      BY <1>1, <1>2
    <2>2. Len(t) = Len(r) => t = r
      BY <1>3, <1>6, PreWhole
    <2>3. t = r => Len(q) = Len(p)
      BY <1>1, <1>2
    <2>4. Len(q) = Len(p) => q = p
      BY <1>1, PreWhole
    <2> QED BY <2>1, <2>2, <2>3, <2>4
  <1> QED BY <1>7, <1>12, <1>13 DEF t

LEMMA TargetTop == ASSUME NEW p \in Paths, NEW r \in Paths PROVE Target(p, r, p) = r
  <1>1. Under(p, p) /\ Len(p) \in Nat /\ Len(r) \in Nat /\ Len(r) <= Depth
    BY PathLen DEF Under
  <1>2. Target(p, r, p) \in Seq(Names) /\ Len(Target(p, r, p)) = Len(r) + Len(p) - Len(p)
    BY <1>1, TargetNames DEF Spelled
  <1>3. Target(p, r, p) \in Paths
    <2>1. Len(Target(p, r, p)) <= Depth
      BY <1>1, <1>2
    <2> QED BY <1>2, <2>1, PathIsSeq
  <1> QED BY <1>1, <1>3, TargetPath

LEMMA TargetAbove ==
    ASSUME NEW p \in Paths, NEW r \in Paths, NEW q \in Paths, Below(p, q), Target(p, r, q) \in Paths
    PROVE  /\ Target(p, r, q) # <<>> /\ Base(Target(p, r, q)) = Base(q)
           /\ Above(q) \in Paths /\ Under(p, Above(q))
           /\ Above(Target(p, r, q)) = Target(p, r, Above(q))
  <1> DEFINE t == Target(p, r, q)
             u == Target(p, r, Above(q))
  <1>1. /\ Len(p) \in Nat /\ Len(q) \in Nat /\ Len(r) \in Nat /\ Len(p) < Len(q) /\ q # <<>>
        /\ Under(p, q)
    BY PathLen, UnderIsPre DEF Under
  <1>2. /\ Len(t) = Len(r) + Len(q) - Len(p)
        /\ \A i \in 1 .. Len(r) : t[i] = r[i]
        /\ \A i \in Len(p) + 1 .. Len(q) : t[i - Len(p) + Len(r)] = q[i]
    <2>1. Spelled(p, r, q, t)
      BY <1>1, TargetNames
    <2> HIDE DEF t
    <2> QED BY <2>1 DEF Spelled
  <1>3. /\ Above(q) \in Paths /\ Len(Above(q)) = Len(q) - 1 /\ Under(p, Above(q))
        /\ \A i \in 1 .. Len(q) - 1 : Above(q)[i] = q[i]
    <2>1. Len(q) - 1 \in 0 .. Len(q)
      BY <1>1
    <2>2. Above(q) \in Paths /\ Len(Above(q)) = Len(q) - 1 /\ Above(q) = Pre(q, Len(q) - 1)
      BY <1>1, AboveType
    <2>3. Under(p, Above(q))
      BY <1>1, UnderAbove
    <2>4. \A i \in 1 .. Len(q) - 1 : Pre(q, Len(q) - 1)[i] = q[i]
      BY <2>1, PreType
    <2> QED BY <2>2, <2>3, <2>4
  <1>4. /\ u \in Seq(Names) /\ Len(u) = Len(r) + (Len(q) - 1) - Len(p)
        /\ \A i \in 1 .. Len(r) : u[i] = r[i]
        /\ \A i \in Len(p) + 1 .. Len(q) - 1 : u[i - Len(p) + Len(r)] = Above(q)[i]
    <2> DEFINE d == Above(q)
    <2>1. d \in Paths /\ Under(p, d) /\ Len(d) = Len(q) - 1
      BY <1>3
    <2> HIDE DEF d
    <2>2. Spelled(p, r, d, Target(p, r, d))
      BY <2>1, TargetNames
    <2>3. u = Target(p, r, d)
      BY DEF d
    <2> HIDE DEF u
    <2>4. /\ u \in Seq(Names) /\ Len(u) = Len(r) + Len(d) - Len(p)
          /\ \A i \in 1 .. Len(r) : u[i] = r[i]
          /\ \A i \in Len(p) + 1 .. Len(d) : u[i - Len(p) + Len(r)] = d[i]
      BY <2>2, <2>3 DEF Spelled
    <2> QED BY <2>1, <2>4 DEF d
  <1> HIDE DEF t, u
  <1>5. t \in Paths /\ Len(t) # 0
    BY <1>1, <1>2 DEF t
  <1>6. t # <<>>
    BY <1>5, PathLen
  <1>7. Base(t) = Base(q)
    <2>1. Len(q) \in Len(p) + 1 .. Len(q) /\ Len(q) - Len(p) + Len(r) = Len(t)
      BY <1>1, <1>2
    <2> QED BY <1>2, <2>1 DEF Base
  <1>8. /\ Above(t) \in Paths /\ Len(Above(t)) = Len(t) - 1
        /\ \A i \in 1 .. Len(t) - 1 : Above(t)[i] = t[i]
    <2>1. Len(t) - 1 \in 0 .. Len(t)
      BY <1>1, <1>2
    <2> QED BY <1>5, <1>6, <2>1, AboveType, PreType
  <1>9. Len(Above(t)) = Len(u) /\ Len(u) \in Nat
    BY <1>1, <1>2, <1>4, <1>8
  <1>10. ASSUME NEW i \in 1 .. Len(u) PROVE Above(t)[i] = u[i]
    <2>1. Above(t)[i] = t[i]
      BY <1>8, <1>9
    <2>2. CASE i <= Len(r)
      BY <1>1, <1>2, <1>4, <2>1, <2>2
    <2>3. CASE i > Len(r)
      <3> DEFINE j == i - Len(r) + Len(p)
      <3>1. /\ j \in Len(p) + 1 .. Len(q) - 1 /\ j \in Len(p) + 1 .. Len(q) /\ j \in 1 .. Len(q) - 1
            /\ j - Len(p) + Len(r) = i
        BY <1>1, <1>4, <1>9, <2>3
      <3> HIDE DEF j
      <3>2. t[i] = q[j] /\ u[i] = Above(q)[j] /\ Above(q)[j] = q[j]
        BY <1>2, <1>3, <1>4, <3>1
      <3> QED BY <2>1, <3>2
    <2> QED BY <1>1, <1>9, <2>2, <2>3
  <1>11. Above(t) = u
    BY <1>4, <1>8, <1>9, <1>10, PathIsSeq, SeqEqual
  <1> QED BY <1>3, <1>6, <1>7, <1>11 DEF t, u

-----------------------------------------------------------------------------
(* A lookup table and the tree it shows *)

\* What lookup answers at each path.
View(o) == [p \in Paths |-> LookupIn(o, p)]

\* A node is a file or a directory: what it holds goes with that, and bait is
\* hidden in files only.
Proper(n) ==
    /\ n \in Node
    /\ n.hidden => ~n.dir
    /\ n.dir => n.content = {}
    /\ ~n.dir => n.children = {}

\* The directory of p lists it.
IsListed(L, k, p) == Base(p) \in L[Above(p)].children \cup k[Above(p)]

\* The directory of p is there, or it is the root that is gone.
Housed(L, p) == IsDir(L[Above(p)]) \/ (Above(p) = <<>> /\ L[Above(p)] = None)

\* The directory of p, if it is there, lists p; the paths in Z are excused.
InList(L, k, Z, p) == p \in Z \/ L[Above(p)] = None \/ IsListed(L, k, p)

\* The lookup table L with the added children k is a tree, and each directory
\* lists what it has, but for the bait and the paths in Z.
Good(L, k, Z) ==
    /\ L \in [Paths -> Node \cup {None}]
    /\ k \in [Paths -> SUBSET Names]
    /\ L[<<>>] # None => IsDir(L[<<>>])
    /\ \A p \in Paths : L[p] # None => Proper(L[p])
    /\ \A p \in Paths \ {<<>>} : L[p] # None =>
          Housed(L, p) /\ (~L[p].hidden => InList(L, k, Z, p))

\* What a session sees of L.
Shown(L, p) == L[p] # None /\ ~L[p].hidden

TreeOf(L) == [p \in Paths |-> IF Shown(L, p) THEN [dir |-> L[p].dir, content |-> L[p].content] ELSE None]

\* Children are added, none is taken off a list.
Grows(k, m) == m \in [Paths -> SUBSET Names] /\ \A p \in Paths : k[p] \subseteq m[p]

\* A step of the file tree, or none.
Follows(t, u) == t = u \/ Tree!Step(t, u, {p \in Paths : t[p] # u[p]})

\* What every command has to leave behind.
Effect(L, M, m, Z) == Good(M, m, Z) /\ Follows(TreeOf(L), TreeOf(M))

LEMMA NodeIsSomething == \A n \in Node : n # None
  BY BaseAssumption

LEMMA TreeOps ==
    /\ \A p : Tree!Above(p) = Above(p)
    /\ \A p, q : Tree!Below(p, q) <=> Below(p, q)
    /\ \A p, r, q : Tree!Origin(p, r, q) = Target(r, p, q)
    /\ \A X, q : Tree!IsLost(X, q) <=> \E c \in X : Under(c, q)
  BY DEF Tree!Above, Above, Tree!Below, Below, Tree!Origin, Target, Tree!IsLost, Under

\* The entry shown at a path.
LEMMA EntryAt ==
    ASSUME NEW L, NEW k, NEW Z, Good(L, k, Z), NEW p \in Paths
    PROVE  /\ TreeOf(L)[p] # None <=> Shown(L, p)
           /\ Shown(L, p) => TreeOf(L)[p] = [dir |-> L[p].dir, content |-> L[p].content]
           /\ ~Shown(L, p) => TreeOf(L)[p] = None
           /\ Tree!IsDirectory(TreeOf(L), p) <=> IsDir(L[p])
           /\ IsDir(L[p]) => Shown(L, p)
           /\ Shown(L, p) /\ ~IsDir(L[p]) => TreeOf(L)[p] = Tree!File(L[p].content)
  <1> DEFINE n == L[p]
             e == [dir |-> n.dir, content |-> n.content]
  <1>1. TreeOf(L)[p] = IF Shown(L, p) THEN e ELSE None
    BY DEF TreeOf
  <1>2. n # None => Proper(n) /\ n \in Node
    BY DEF Good, Proper
  <1>3. Shown(L, p) <=> n # None /\ ~n.hidden
    BY DEF Shown
  <1>4. IsDir(L[p]) <=> n # None /\ n.dir
    BY DEF IsDir
  <1>5. Tree!IsDirectory(TreeOf(L), p) <=> TreeOf(L)[p] = [dir |-> TRUE, content |-> {}]
    BY DEF Tree!IsDirectory, Tree!Dir
  <1>6. Tree!File(n.content) = [dir |-> FALSE, content |-> n.content]
    BY DEF Tree!File
  <1>7. None # [dir |-> TRUE, content |-> {}]
    <2>1. [dir |-> TRUE, content |-> {}] \in [dir : BOOLEAN, content : SUBSET Data]
      OBVIOUS
    <2> QED BY <2>1, BaseAssumption
  <1>8. n # None => e # None /\ n.dir \in BOOLEAN
    <2> HAVE n # None
    <2>1. n.dir \in BOOLEAN /\ n.content \in SUBSET Data
      BY <1>2 DEF Node
    <2>2. e \in [dir : BOOLEAN, content : SUBSET Data]
      BY <2>1
    <2> QED BY <2>1, <2>2, BaseAssumption
  <1>9. IsDir(L[p]) => Shown(L, p)
    BY <1>2, <1>3, <1>4 DEF Proper
  <1>10. Tree!IsDirectory(TreeOf(L), p) => IsDir(L[p])
    <2> HAVE Tree!IsDirectory(TreeOf(L), p)
    <2>1. Shown(L, p)
      BY <1>1, <1>5, <1>7
    <2>2. e = [dir |-> TRUE, content |-> {}]
      BY <1>1, <1>5, <2>1
    <2>3. n.dir = TRUE
      BY <2>2
    <2> QED BY <1>3, <1>4, <2>1, <2>3
  <1>11. IsDir(L[p]) => Tree!IsDirectory(TreeOf(L), p)
    <2> HAVE IsDir(L[p])
    <2>1. n.dir = TRUE /\ n.content = {}
      BY <1>2, <1>4, <1>8 DEF Proper
    <2> QED BY <1>1, <1>5, <1>9, <2>1
  <1>12. Shown(L, p) /\ ~IsDir(L[p]) => TreeOf(L)[p] = Tree!File(L[p].content)
    <2> HAVE Shown(L, p) /\ ~IsDir(L[p])
    <2>1. n.dir = FALSE
      BY <1>3, <1>4, <1>8
    <2> QED BY <1>1, <1>6, <2>1
  <1>13. Shown(L, p) => e # None
    BY <1>3, <1>8
  <1> QED BY <1>1, <1>9, <1>10, <1>11, <1>12, <1>13

\* Whatever exists is in directories all the way up to the root.
LEMMA AncestorsAreDirs ==
    ASSUME NEW L, NEW k, NEW Z, Good(L, k, Z), NEW q \in Paths, L[q] # None, NEW j \in 1 .. Len(q) - 1
    PROVE  IsDir(L[Pre(q, j)])
  <1> DEFINE S == {n \in Nat : n + 1 \in 1 .. Len(q) - 1 => IsDir(L[Pre(q, Len(q) - (n + 1))])}
  <1>1. Len(q) \in Nat
    BY PathLen
  <1>2. ASSUME NEW i \in 2 .. Len(q), L[Pre(q, i)] # None PROVE IsDir(L[Pre(q, i - 1)])
    <2>1. i \in 0 .. Len(q) /\ i - 1 \in 0 .. i /\ i - 1 \in 0 .. Len(q) /\ i - 1 # 0 /\ i # 0
      BY <1>1
    <2>2. Pre(q, i) \in Paths /\ Len(Pre(q, i)) = i
      BY <2>1, PreType
    <2>3. Pre(q, i) # <<>>
      BY <2>1, <2>2, PathLen
    <2>6. Pre(q, i - 1) \in Paths /\ Len(Pre(q, i - 1)) = i - 1
      BY <2>1, PreType
    <2>7. Pre(q, i - 1) # <<>>
      BY <2>1, <2>6, PathLen
    <2>4. Above(Pre(q, i)) = Pre(Pre(q, i), i - 1)
      BY <2>2, <2>3, AboveType
    <2>5. Pre(Pre(q, i), i - 1) = Pre(q, i - 1)
      BY <2>1, PreOfPre
    <2> QED BY <1>2, <2>2, <2>3, <2>4, <2>5, <2>7 DEF Good, Housed
  <1>3. 0 \in S
    <2> SUFFICES ASSUME 0 + 1 \in 1 .. Len(q) - 1 PROVE IsDir(L[Pre(q, Len(q) - (0 + 1))])
      OBVIOUS
    <2>1. Len(q) \in 2 .. Len(q) /\ Len(q) - (0 + 1) = Len(q) - 1
      BY <1>1
    <2>2. L[Pre(q, Len(q))] # None
      BY PreWhole
    <2> QED BY <1>2, <2>1, <2>2
  <1>4. ASSUME NEW n \in Nat, n \in S PROVE n + 1 \in S
    <2> SUFFICES ASSUME n + 1 + 1 \in 1 .. Len(q) - 1 PROVE IsDir(L[Pre(q, Len(q) - (n + 1 + 1))])
      OBVIOUS
    <2>1. n + 1 \in 1 .. Len(q) - 1
      BY <1>1
    <2>2. IsDir(L[Pre(q, Len(q) - (n + 1))])
      BY <1>4, <2>1
    <2> DEFINE i == Len(q) - (n + 1)
    <2>3. i \in 2 .. Len(q) /\ Len(q) - (n + 1 + 1) = i - 1
      BY <1>1
    <2>4. L[Pre(q, i)] # None
      BY <2>2 DEF IsDir
    <2> HIDE DEF i
    <2> QED BY <1>2, <2>3, <2>4
  <1>5. Nat \subseteq S
    <2> HIDE DEF S
    <2> QED BY <1>3, <1>4, Induction
  <1> DEFINE n == Len(q) - j - 1
  <1>6. n \in Nat /\ n + 1 \in 1 .. Len(q) - 1 /\ Len(q) - (n + 1) = j
    BY <1>1
  <1>7. IsDir(L[Pre(q, Len(q) - (n + 1))])
    <2> HIDE DEF n
    <2> QED BY <1>5, <1>6
  <1> QED BY <1>6, <1>7

\* Nothing is below what is not a directory.
LEMMA NothingBelow ==
    ASSUME NEW L, NEW k, NEW Z, Good(L, k, Z), NEW p \in Paths, p # <<>>, ~IsDir(L[p]),
           NEW q \in Paths, Below(p, q)
    PROVE  L[q] = None
  <1> SUFFICES ASSUME L[q] # None PROVE FALSE
    OBVIOUS
  <1>1. Len(p) < Len(q) /\ Pre(q, Len(p)) = p /\ Len(p) \in Nat /\ Len(q) \in Nat
    BY UnderIsPre, PathLen
  <1>2. Len(p) \in 1 .. Len(q) - 1
    BY <1>1, PathLen
  <1> QED BY <1>1, <1>2, AncestorsAreDirs

-----------------------------------------------------------------------------
(* What each kind of change does to the tree *)

\* A good table, taken apart and put together at one path.
LEMMA GoodAt ==
    ASSUME NEW L, NEW k, NEW Z, Good(L, k, Z), NEW p \in Paths, L[p] # None
    PROVE  /\ L[p] \in Node /\ Proper(L[p])
           /\ p # <<>> => Housed(L, p) /\ (~L[p].hidden => InList(L, k, Z, p))
  BY DEF Good, Proper

\* A path is housed and listed as before where its directory did not change and
\* the listing only grew.
LEMMA StillListed ==
    ASSUME NEW L, NEW M, NEW k, NEW m, NEW Z, Grows(k, m), NEW p \in Paths, p # <<>>,
           M[Above(p)] = L[Above(p)]
    PROVE  /\ Housed(L, p) => Housed(M, p)
           /\ InList(L, k, Z, p) => InList(M, m, Z, p)
  <1>1. Above(p) \in Paths
    BY AboveType
  <1>2. k[Above(p)] \subseteq m[Above(p)]
    BY <1>1 DEF Grows
  <1>3. IsListed(L, k, p) => IsListed(M, m, p)
    BY <1>2 DEF IsListed
  <1> QED BY <1>3 DEF Housed, InList

\* One entry is written.
PutIn(L, p, n) == [q \in Paths |-> IF q = p THEN n ELSE L[q]]

LEMMA PutKeeps ==
    ASSUME NEW L, NEW k, NEW Z, NEW m, Good(L, k, Z), Grows(k, m),
           NEW p \in Paths, p # <<>>, Housed(L, p), IsDir(L[Above(p)]) \/ Shown(L, p), ~IsDir(L[p]),
           NEW n \in Node, ~n.dir, ~n.hidden, n.children = {}, InList(L, m, Z, p)
    PROVE  /\ Good(PutIn(L, p, n), m, Z)
           /\ TreeOf(PutIn(L, p, n)) = Tree!Put(TreeOf(L), p, n.content)
           /\ Tree!CanPut(TreeOf(L), p)
           /\ n.content \in SUBSET Data
  <1> DEFINE M == PutIn(L, p, n)
  <1>1. M \in [Paths -> Node \cup {None}] /\ M[p] = n /\ \A q \in Paths : q # p => M[q] = L[q]
    BY DEF PutIn, Good
  <1>2. n # None /\ Proper(n)
    BY NodeIsSomething DEF Proper
  <1> HIDE DEF M
  <1>3. p \in Paths /\ Above(p) \in Paths /\ Above(p) # p
    <2>1. Len(p) \in Nat /\ Len(Above(p)) = Len(p) - 1 /\ Above(p) \in Paths
      BY AboveType, PathLen
    <2> QED BY <2>1
  <1>4. m \in [Paths -> SUBSET Names]
    BY DEF Grows
  <1>5. M[<<>>] # None => IsDir(M[<<>>])
    BY <1>1, RootIsPath DEF Good
  <1>6. ASSUME NEW q \in Paths, M[q] # None
        PROVE  /\ Proper(M[q])
               /\ q # <<>> => Housed(M, q) /\ (~M[q].hidden => InList(M, m, Z, q))
    <2>1. CASE q = p
      <3>1. M[Above(p)] = L[Above(p)]
        BY <1>1, <1>3
      <3>2. InList(M, m, Z, p) /\ Housed(M, p)
        BY <3>1 DEF IsListed, InList, Housed
      <3> QED BY <1>1, <1>2, <1>3, <2>1, <3>2
    <2>2. CASE q # p
      <3>1. M[q] = L[q] /\ L[q] # None
        BY <1>1, <1>6, <2>2
      <3>2. Proper(L[q]) /\ (q # <<>> => Housed(L, q) /\ (~L[q].hidden => InList(L, k, Z, q)))
        BY <3>1, GoodAt
      <3>3. ASSUME q # <<>> PROVE Above(q) \in Paths /\ M[Above(q)] = L[Above(q)]
        BY <1>1, <3>2, <3>3, AboveType DEF Housed
      <3>4. ASSUME q # <<>>, ~M[q].hidden PROVE InList(M, m, Z, q)
        BY <3>1, <3>2, <3>3, <3>4, StillListed
      <3>5. ASSUME q # <<>> PROVE Housed(M, q)
        BY <3>2, <3>3, <3>5, StillListed
      <3> QED BY <3>1, <3>2, <3>4, <3>5
    <2> QED BY <2>1, <2>2
  <1>7. Good(M, m, Z)
    BY <1>1, <1>4, <1>5, <1>6 DEF Good
  <1>8. TreeOf(M)[p] = Tree!File(n.content)
    <2>1. Shown(M, p) /\ ~IsDir(M[p])
      BY <1>1, <1>2 DEF Shown, IsDir
    <2> QED BY <1>1, <1>7, <2>1, EntryAt
  <1>9. ASSUME NEW q \in Paths, q # p PROVE TreeOf(M)[q] = TreeOf(L)[q]
    BY <1>1, <1>9 DEF TreeOf, Shown
  <1>10. TreeOf(M) = Tree!Put(TreeOf(L), p, n.content)
    BY <1>8, <1>9 DEF TreeOf, Tree!Put
  <1>11. Tree!CanPut(TreeOf(L), p)
    <2>1. ~Tree!IsDirectory(TreeOf(L), p)
      BY EntryAt
    <2>2. CASE IsDir(L[Above(p)])
      <3>1. Tree!IsDirectory(TreeOf(L), Above(p))
        BY <1>3, <2>2, EntryAt
      <3> QED BY <2>1, <3>1, TreeOps DEF Tree!HasPlace, Tree!CanPut
    <2>3. CASE Shown(L, p)
      <3>1. TreeOf(L)[p] # None
        BY <2>3, EntryAt
      <3> QED BY <2>1, <3>1 DEF Tree!CanPut
    <2> QED BY <2>2, <2>3
  <1>12. n.content \in SUBSET Data
    BY DEF Node
  <1> QED BY <1>7, <1>10, <1>11, <1>12 DEF M

\* A tree that changed by a write changed at the path written.
LEMMA PutFollows ==
    ASSUME NEW L, NEW p \in Paths, NEW d \in SUBSET Data, Tree!CanPut(TreeOf(L), p),
           NEW M, TreeOf(M) = Tree!Put(TreeOf(L), p, d)
    PROVE  Follows(TreeOf(L), TreeOf(M))
  <1> DEFINE t == TreeOf(L)
             u == TreeOf(M)
             C == {q \in Paths : t[q] # u[q]}
  <1>1. DOMAIN t = Paths /\ t = [q \in Paths |-> t[q]]
    BY DEF TreeOf
  <1>2. u = Tree!Put(t, p, d) /\ Tree!CanPut(t, p)
    OBVIOUS
  <1> HIDE DEF t, u
  <1>3. ASSUME t[p] = u[p] PROVE t = u
    BY <1>1, <1>2, <1>3 DEF Tree!Put
  <1>4. ASSUME t[p] # u[p] PROVE Tree!Step(t, u, C)
    <2>1. p \in C
      BY <1>4
    <2> HIDE DEF C
    <2> QED BY <1>2, <2>1 DEF Tree!Step
  <1>5. Follows(t, u)
    BY <1>3, <1>4 DEF Follows
  <1> QED BY <1>5 DEF t, u

LEMMA PutEffect ==
    ASSUME NEW L, NEW k, NEW Z, NEW m, Good(L, k, Z), Grows(k, m),
           NEW p \in Paths, p # <<>>, Housed(L, p), IsDir(L[Above(p)]) \/ Shown(L, p), ~IsDir(L[p]),
           NEW n \in Node, ~n.dir, ~n.hidden, n.children = {}, InList(L, m, Z, p)
    PROVE  Effect(L, PutIn(L, p, n), m, Z)
  <1>1. /\ Good(PutIn(L, p, n), m, Z)
        /\ TreeOf(PutIn(L, p, n)) = Tree!Put(TreeOf(L), p, n.content)
        /\ Tree!CanPut(TreeOf(L), p)
        /\ n.content \in SUBSET Data
    BY PutKeeps
  <1>2. Follows(TreeOf(L), TreeOf(PutIn(L, p, n)))
    BY <1>1, PutFollows
  <1> QED BY <1>1, <1>2 DEF Effect

\* An entry goes, with all that is below it.
DeleteIn(L, p) == [q \in Paths |-> IF Under(p, q) THEN None ELSE L[q]]

LEMMA DeleteKeeps ==
    ASSUME NEW L, NEW k, NEW Z, NEW m, Good(L, k, Z), Grows(k, m), NEW p \in Paths, p # <<>>
    PROVE  /\ Good(DeleteIn(L, p), m, Z)
           /\ TreeOf(DeleteIn(L, p)) = Tree!Delete(TreeOf(L), p)
  <1> DEFINE M == DeleteIn(L, p)
  <1>1. M \in [Paths -> Node \cup {None}] /\ \A q \in Paths : M[q] = IF Under(p, q) THEN None ELSE L[q]
    BY DEF DeleteIn, Good
  <1> HIDE DEF M
  <1>2. ~Under(p, <<>>)
    BY RootIsPath, UnderIsPre DEF Under
  <1>3. M[<<>>] # None => IsDir(M[<<>>])
    BY <1>1, <1>2, RootIsPath DEF Good
  <1>4. ASSUME NEW q \in Paths, M[q] # None
        PROVE  /\ Proper(M[q])
               /\ q # <<>> => Housed(M, q) /\ (~M[q].hidden => InList(M, m, Z, q))
    <2>1. ~Under(p, q) /\ M[q] = L[q] /\ L[q] # None
      BY <1>1, <1>4
    <2>2. Proper(L[q]) /\ (q # <<>> => Housed(L, q) /\ (~L[q].hidden => InList(L, k, Z, q)))
      BY <2>1, GoodAt
    <2>3. ASSUME q # <<>> PROVE Above(q) \in Paths /\ M[Above(q)] = L[Above(q)]
      <3>1. ~Under(p, Above(q)) /\ Above(q) \in Paths
        BY <2>1, <2>3, UnderAbove, AboveType DEF Under
      <3> QED BY <1>1, <3>1
    <2>4. ASSUME q # <<>>, ~M[q].hidden PROVE InList(M, m, Z, q)
      BY <2>1, <2>2, <2>3, <2>4, StillListed
    <2>5. ASSUME q # <<>> PROVE Housed(M, q)
      BY <2>2, <2>3, <2>5, StillListed
    <2> QED BY <2>1, <2>2, <2>4, <2>5
  <1>5. m \in [Paths -> SUBSET Names]
    BY DEF Grows
  <1>6. Good(M, m, Z)
    BY <1>1, <1>3, <1>4, <1>5 DEF Good
  <1>7. ASSUME NEW q \in Paths
        PROVE  TreeOf(M)[q] = IF Under(p, q) THEN None ELSE TreeOf(L)[q]
    BY <1>1 DEF TreeOf, Shown
  <1>8. TreeOf(M) = Tree!Delete(TreeOf(L), p)
    BY <1>7, TreeOps DEF TreeOf, Tree!Delete, Under
  <1> QED BY <1>6, <1>8 DEF M

\* A tree that changed by a deletion changed at the path deleted.
LEMMA DeleteFollows ==
    ASSUME NEW L, NEW k, NEW Z, Good(L, k, Z), NEW p \in Paths, p # <<>>,
           NEW u, u = Tree!Delete(TreeOf(L), p)
    PROVE  Follows(TreeOf(L), u)
  <1> DEFINE t == TreeOf(L)
             C == {q \in Paths : t[q] # u[q]}
  <1>1. DOMAIN t = Paths /\ t = [q \in Paths |-> t[q]]
    BY DEF TreeOf
  <1>2. u = [q \in Paths |-> IF Under(p, q) THEN None ELSE t[q]]
    BY TreeOps DEF Tree!Delete, Under
  <1>3. ASSUME t # u PROVE t[p] # u[p]
    <2>1. PICK q \in Paths : t[q] # u[q]
      BY <1>1, <1>2, <1>3
    <2>2. Under(p, q) /\ t[q] # None
      BY <1>2, <2>1
    <2>3. L[q] # None
      BY <2>2 DEF TreeOf, Shown
    <2>4. t[p] # None
      <3>1. CASE q = p
        BY <2>2, <3>1
      <3>2. CASE Below(p, q)
        <4>1. IsDir(L[p])
          BY <2>3, <3>2, NothingBelow
        <4> QED BY <4>1, EntryAt
      <3> QED BY <2>2, <3>1, <3>2 DEF Under
    <2>5. u[p] = None
      BY <1>2 DEF Under
    <2> QED BY <2>4, <2>5
  <1>4. u = Tree!Delete(t, p)
    OBVIOUS
  <1> HIDE DEF t
  <1>5. ASSUME t # u PROVE Tree!Step(t, u, C)
    <2>1. p \in C
      BY <1>3, <1>5
    <2> HIDE DEF C
    <2> QED BY <1>4, <2>1 DEF Tree!Step
  <1>6. Follows(t, u)
    BY <1>5 DEF Follows
  <1> QED BY <1>6 DEF t

LEMMA DeleteEffect ==
    ASSUME NEW L, NEW k, NEW Z, NEW m, Good(L, k, Z), Grows(k, m), NEW p \in Paths, p # <<>>
    PROVE  Effect(L, DeleteIn(L, p), m, Z)
  BY DeleteKeeps, DeleteFollows DEF Effect

\* The root goes, and nothing else.
LEMMA DropEffect ==
    ASSUME NEW L, NEW k, NEW Z, Good(L, k, Z)
    PROVE  Effect(L, PutIn(L, <<>>, None), k, Z)
  <1> DEFINE M == PutIn(L, <<>>, None)
             t == TreeOf(L)
             u == TreeOf(M)
  <1>1. /\ M \in [Paths -> Node \cup {None}] /\ M[<<>>] = None
        /\ \A q \in Paths : q # <<>> => M[q] = L[q]
    BY RootIsPath DEF PutIn, Good
  <1> HIDE DEF M
  <1>2. ASSUME NEW q \in Paths, M[q] # None
        PROVE  /\ Proper(M[q])
               /\ q # <<>> => Housed(M, q) /\ (~M[q].hidden => InList(M, k, Z, q))
    <2>1. q # <<>> /\ M[q] = L[q] /\ L[q] # None
      BY <1>1, <1>2
    <2>2. Proper(L[q]) /\ Housed(L, q) /\ (~L[q].hidden => InList(L, k, Z, q))
      BY <2>1, GoodAt
    <2>3. Above(q) \in Paths
      BY <2>1, AboveType
    <2>4. CASE Above(q) = <<>>
      BY <1>1, <2>1, <2>2, <2>4 DEF Housed, InList
    <2>5. CASE Above(q) # <<>>
      <3>1. M[Above(q)] = L[Above(q)]
        BY <1>1, <2>3, <2>5
      <3> QED BY <2>1, <2>2, <3>1 DEF Housed, InList, IsListed
    <2> QED BY <2>4, <2>5
  <1>3. Good(M, k, Z)
    BY <1>1, <1>2 DEF Good
  <1>4. t = [q \in Paths |-> t[q]] /\ u = [q \in Paths |-> u[q]]
    BY DEF TreeOf
  <1>5. u[<<>>] = None
    BY <1>1, RootIsPath DEF TreeOf, Shown
  <1>6. \A q \in Paths : q # <<>> => u[q] = t[q]
    BY <1>1 DEF TreeOf, Shown
  <1> HIDE DEF t, u
  <1>7. u = Tree!DropRoot(t)
    BY <1>4, <1>5, <1>6, RootIsPath DEF Tree!DropRoot
  <1>8. Follows(t, u)
    BY <1>7 DEF Follows, Tree!Step
  <1> QED BY <1>3, <1>8 DEF Effect, M, t, u

\* The directories to make for p, when the first k names of p are there.
Missing(p, k) == {Pre(p, j) : j \in k + 1 .. Len(p)}

\* Directories are made.
MakeIn(L, S) == [q \in Paths |-> IF q \in S THEN NewDir ELSE L[q]]

LEMMA MissingPaths ==
    ASSUME NEW p \in Paths, NEW k \in 0 .. Len(p) - 1, NEW q \in Missing(p, k)
    PROVE  /\ q \in Paths /\ q # <<>> /\ (q = p \/ Below(q, p))
           /\ Above(q) = Pre(p, k) \/ Above(q) \in Missing(p, k)
           /\ p \in Missing(p, k)
  <1>1. Len(p) \in Nat
    BY PathLen
  <1>2. PICK j \in k + 1 .. Len(p) : q = Pre(p, j)
    BY DEF Missing
  <1>3. j \in 0 .. Len(p) /\ j # 0 /\ j - 1 \in 0 .. j /\ j \in Nat
    BY <1>1
  <1>4. q \in Paths /\ Len(q) = j
    BY <1>2, <1>3, PreType
  <1>5. q # <<>>
    BY <1>3, <1>4, PathLen
  <1>6. q = p \/ Below(q, p)
    <2>1. Under(q, p)
      BY <1>2, <1>3, <1>4, UnderIsPre
    <2> QED BY <2>1 DEF Under
  <1>7. Above(q) = Pre(p, j - 1)
    <2>1. Above(q) = Pre(q, j - 1)
      BY <1>4, <1>5, AboveType
    <2>2. Pre(Pre(p, j), j - 1) = Pre(p, j - 1)
      BY <1>3, PreOfPre
    <2> QED BY <1>2, <2>1, <2>2
  <1>8. j - 1 = k \/ j - 1 \in k + 1 .. Len(p)
    BY <1>1
  <1>9. p \in Missing(p, k)
    <2>1. Len(p) \in k + 1 .. Len(p) /\ p = Pre(p, Len(p))
      BY <1>1, PreWhole
    <2> QED BY <2>1 DEF Missing
  <1> QED BY <1>4, <1>5, <1>6, <1>7, <1>8, <1>9 DEF Missing

LEMMA NewDirIsProper == NewDir \in Node /\ Proper(NewDir) /\ NewDir # None /\ IsDir(NewDir) /\ ~NewDir.hidden
  <1>1. NewDir \in Node
    BY DEF NewDir, Node
  <1>2. NewDir.dir = TRUE /\ NewDir.hidden = FALSE /\ NewDir.content = {}
    BY DEF NewDir
  <1>3. NewDir # None
    BY <1>1, NodeIsSomething
  <1> QED BY <1>1, <1>2, <1>3 DEF Proper, IsDir

LEMMA MakeKeeps ==
    ASSUME NEW L, NEW k, NEW Z, NEW m, Good(L, k, Z), Grows(k, m),
           NEW p \in Paths, NEW i \in 0 .. Len(p) - 1, IsDir(L[Pre(p, i)]),
           \A q \in Missing(p, i) : ~Shown(L, q) /\ IsListed(MakeIn(L, Missing(p, i)), m, q)
    PROVE  /\ Good(MakeIn(L, Missing(p, i)), m, Z)
           /\ TreeOf(MakeIn(L, Missing(p, i))) = Tree!MakeDirectory(TreeOf(L), p)
           /\ Tree!CanMake(TreeOf(L), p)
           /\ TreeOf(L)[p] = None
  <1> DEFINE S == Missing(p, i)
             M == MakeIn(L, S)
  <1>1. S \subseteq Paths /\ p \in S
    <2>1. Len(p) \in Nat /\ Len(p) \in i + 1 .. Len(p) /\ p = Pre(p, Len(p))
      BY PathLen, PreWhole
    <2>2. p \in S
      BY <2>1 DEF Missing
    <2> QED BY <2>2, MissingPaths
  <1>2. \A q \in S : q # <<>> /\ (q = p \/ Below(q, p)) /\ (Above(q) = Pre(p, i) \/ Above(q) \in S)
    BY MissingPaths
  <1>3. M \in [Paths -> Node \cup {None}] /\ \A q \in Paths : M[q] = IF q \in S THEN NewDir ELSE L[q]
    BY NewDirIsProper DEF MakeIn, Good
  <1>4. \A q \in S : ~Shown(L, q) /\ IsListed(M, m, q)
    OBVIOUS
  <1>5. Len(p) \in Nat /\ i \in 0 .. Len(p) /\ Pre(p, i) \in Paths /\ Len(Pre(p, i)) = i
    <2>1. Len(p) \in Nat
      BY PathLen
    <2>2. i \in 0 .. Len(p)
      BY <2>1
    <2> QED BY <2>1, <2>2, PreType
  <1>6. \A q \in Paths : IsDir(L[q]) => q \notin S /\ M[q] = L[q]
    BY <1>3, <1>4, EntryAt
  <1>7. ASSUME NEW q \in Paths, M[q] # None
        PROVE  /\ Proper(M[q])
               /\ q # <<>> => Housed(M, q) /\ (~M[q].hidden => InList(M, m, Z, q))
    <2>1. CASE q \in S
      <3>1. IsDir(M[Above(q)])
        <4>1. CASE Above(q) = Pre(p, i)
          BY <1>5, <1>6, <4>1
        <4>2. CASE Above(q) \in S
          BY <1>1, <1>3, <4>2, NewDirIsProper
        <4> QED BY <1>2, <2>1, <4>1, <4>2
      <3> QED BY <1>3, <1>4, <2>1, <3>1, NewDirIsProper DEF Housed, InList
    <2>2. CASE q \notin S
      <3>1. M[q] = L[q] /\ L[q] # None
        BY <1>3, <1>7, <2>2
      <3>2. Proper(L[q]) /\ (q # <<>> => Housed(L, q) /\ (~L[q].hidden => InList(L, k, Z, q)))
        BY <3>1, GoodAt
      <3>3. ASSUME q # <<>> PROVE Above(q) \in Paths /\ M[Above(q)] = L[Above(q)]
        <4>1. CASE IsDir(L[Above(q)])
          BY <1>6, <3>3, <4>1, AboveType
        <4>2. CASE Above(q) = <<>>
          BY <1>1, <1>2, <1>3, <3>3, <4>2, AboveType
        <4> QED BY <3>2, <3>3, <4>1, <4>2 DEF Housed
      <3>4. ASSUME q # <<>>, ~M[q].hidden PROVE InList(M, m, Z, q)
        BY <3>1, <3>2, <3>3, <3>4, StillListed
      <3>5. ASSUME q # <<>> PROVE Housed(M, q)
        BY <3>2, <3>3, <3>5, StillListed
      <3> QED BY <3>1, <3>2, <3>4, <3>5
    <2> QED BY <2>1, <2>2
  <1>8. M[<<>>] # None => IsDir(M[<<>>])
    <2>1. <<>> \in Paths /\ <<>> \notin S
      BY <1>2, RootIsPath
    <2> QED BY <1>3, <2>1 DEF Good
  <1>9. m \in [Paths -> SUBSET Names]
    BY DEF Grows
  <1> HIDE DEF M
  <1>10. Good(M, m, Z)
    BY <1>3, <1>7, <1>8, <1>9 DEF Good
  <1>11. ASSUME NEW q \in S PROVE TreeOf(L)[q] = None /\ TreeOf(M)[q] = Tree!Dir
    <2>1. IsDir(M[q])
      BY <1>1, <1>3, NewDirIsProper
    <2>2. Tree!IsDirectory(TreeOf(M), q)
      BY <1>1, <1>10, <2>1, EntryAt
    <2> QED BY <1>1, <1>4, <2>2, EntryAt DEF Tree!IsDirectory
  <1>12. ASSUME NEW q \in Paths, q \notin S PROVE TreeOf(M)[q] = TreeOf(L)[q]
    BY <1>3, <1>12 DEF TreeOf, Shown
  <1>13. ASSUME NEW q \in Paths, q \notin S, q # <<>>, Below(q, p) PROVE TreeOf(L)[q] # None
    <2>1. Len(q) \in Nat /\ Len(q) # 0 /\ Len(q) < Len(p) /\ q = Pre(p, Len(q))
      BY <1>13, PathLen, UnderIsPre
    <2>2. Len(q) <= i
      <3>1. Len(q) \notin i + 1 .. Len(p)
        BY <1>13, <2>1 DEF Missing
      <3> QED BY <1>5, <2>1, <3>1
    <2>3. IsDir(L[q])
      <3>1. CASE Len(q) = i
        BY <2>1, <3>1
      <3>2. CASE Len(q) < i
        <4>1. Len(q) \in 1 .. i - 1 /\ Len(q) \in 0 .. i
          BY <2>1, <3>2
        <4>2. L[Pre(p, i)] # None
          BY DEF IsDir
        <4> DEFINE d == Pre(p, i)
        <4>3. d \in Paths /\ L[d] # None /\ Len(d) = i /\ Pre(d, Len(q)) = Pre(p, Len(q))
          BY <1>5, <4>1, <4>2, PreOfPre
        <4> HIDE DEF d
        <4>4. IsDir(L[Pre(d, Len(q))])
          BY <4>1, <4>3, AncestorsAreDirs
        <4> QED BY <2>1, <4>3, <4>4
      <3> QED BY <2>1, <2>2, <3>1, <3>2
    <2> QED BY <2>3, EntryAt
  <1>14. TreeOf(M) = Tree!MakeDirectory(TreeOf(L), p)
    <2> DEFINE t == TreeOf(L)
    <2>1. ASSUME NEW q \in Paths
          PROVE  TreeOf(M)[q] = IF q = p \/ (q # <<>> /\ Below(q, p) /\ t[q] = None) THEN Tree!Dir ELSE t[q]
      <3>1. CASE q \in S
        BY <1>2, <1>11, <3>1
      <3>2. CASE q \notin S
        BY <1>1, <1>12, <1>13, <3>2
      <3> QED BY <3>1, <3>2
    <2>2. TreeOf(M) = [q \in Paths |-> TreeOf(M)[q]]
      BY DEF TreeOf
    <2> HIDE DEF t
    <2>3. Tree!MakeDirectory(t, p) =
            [q \in Paths |-> IF q = p \/ (q # <<>> /\ Below(q, p) /\ t[q] = None) THEN Tree!Dir ELSE t[q]]
      BY TreeOps DEF Tree!MakeDirectory
    <2> QED BY <2>1, <2>2, <2>3 DEF t
  <1>15. Tree!CanMake(TreeOf(L), p)
    <2>1. Tree!IsDirectory(TreeOf(L), SubSeq(p, 1, i))
      BY <1>5, EntryAt DEF Pre
    <2>2. \A j \in i + 1 .. Len(p) : TreeOf(L)[SubSeq(p, 1, j)] = None
      BY <1>11 DEF Missing, Pre
    <2> QED BY <2>1, <2>2 DEF Tree!CanMake
  <1>16. TreeOf(L)[p] = None
    BY <1>1, <1>11
  <1> QED BY <1>10, <1>14, <1>15, <1>16 DEF M

LEMMA MakeEffect ==
    ASSUME NEW L, NEW k, NEW Z, NEW m, Good(L, k, Z), Grows(k, m),
           NEW p \in Paths, NEW i \in 0 .. Len(p) - 1, IsDir(L[Pre(p, i)]),
           \A q \in Missing(p, i) : ~Shown(L, q) /\ IsListed(MakeIn(L, Missing(p, i)), m, q)
    PROVE  Effect(L, MakeIn(L, Missing(p, i)), m, Z)
  <1> DEFINE t == TreeOf(L)
             u == TreeOf(MakeIn(L, Missing(p, i)))
             C == {q \in Paths : t[q] # u[q]}
  <1>1. /\ Good(MakeIn(L, Missing(p, i)), m, Z)
        /\ u = Tree!MakeDirectory(t, p) /\ Tree!CanMake(t, p) /\ t[p] = None
    BY MakeKeeps
  <1> HIDE DEF t, u
  <1>2. u[p] = Tree!Dir
    BY <1>1 DEF Tree!MakeDirectory
  <1>3. Tree!Dir # None
    <2>1. [dir |-> TRUE, content |-> {}] \in [dir : BOOLEAN, content : SUBSET Data]
      OBVIOUS
    <2> QED BY <2>1, BaseAssumption DEF Tree!Dir
  <1>4. p \in C
    BY <1>1, <1>2, <1>3
  <1>5. Tree!Step(t, u, C)
    <2> HIDE DEF C
    <2> QED BY <1>1, <1>4 DEF Tree!Step
  <1>6. Follows(t, u)
    BY <1>5 DEF Follows
  <1> QED BY <1>1, <1>6 DEF Effect, t, u

\* p moves to r: the nodes at Q, which are under p, are placed under r.
Places(p, r, Q) == {Target(p, r, q) : q \in Q}

MoveIn(L, p, r, Q) ==
    [t \in Paths |-> IF t \in Places(p, r, Q) THEN L[Target(r, p, t)]
                     ELSE IF Under(p, t) THEN None ELSE L[t]]

\* q is one of the entries X, or below one.
Lost(X, q) == \E c \in X : Under(c, q)

\* Q holds p and what a session sees below it, with the directories in between,
\* but for the entries X and what is below them.
Whole(L, p, r, Q, X) ==
    /\ Q \subseteq Paths /\ p \in Q
    /\ \A q \in Q : /\ Under(p, q) /\ L[q] # None /\ Target(p, r, q) \in Paths
                    /\ q = p \/ Above(q) \in Q
                    /\ ~Lost(X, q)
    /\ \A q \in Paths : Under(p, q) /\ Shown(L, q) => q \in Q \/ Lost(X, q)

\* p can move to r.
Movable(L, p, r) ==
    /\ p \in Paths /\ r \in Paths /\ p # <<>> /\ r # <<>> /\ r # p /\ ~Below(p, r)
    /\ Shown(L, p) /\ ~IsDir(L[r]) /\ IsDir(L[Above(r)])

LEMMA PlacesPaths ==
    ASSUME NEW L, NEW p \in Paths, NEW r \in Paths, NEW Q, NEW X, Whole(L, p, r, Q, X), NEW t \in Places(p, r, Q)
    PROVE  /\ t \in Paths /\ Under(r, t)
           /\ Target(r, p, t) \in Q /\ t = Target(p, r, Target(r, p, t))
           /\ t # r => Target(r, p, t) # p
  <1>1. PICK q \in Q : t = Target(p, r, q)
    BY DEF Places
  <1>2. q \in Paths /\ Under(p, q) /\ t \in Paths
    BY <1>1 DEF Whole
  <1>3. Under(r, t) /\ Target(r, p, t) = q /\ (q = p <=> t = r)
    BY <1>1, <1>2, TargetPath
  <1> QED BY <1>1, <1>2, <1>3

\* What is placed at t, coming from q, goes into the directory q was in.
Accompanied(p, r, Q, t, q) ==
    /\ Below(p, q) /\ Above(q) \in Q
    /\ Base(t) = Base(q) /\ Above(t) \in Places(p, r, Q)
    /\ Target(r, p, Above(t)) = Above(q)

LEMMA PlaceAbove ==
    ASSUME NEW L, NEW p \in Paths, NEW r \in Paths, NEW Q, NEW X, Whole(L, p, r, Q, X),
           NEW t \in Places(p, r, Q), t # r
    PROVE  Accompanied(p, r, Q, t, Target(r, p, t))
  <1> DEFINE q == Target(r, p, t)
  <1>1. q \in Q /\ t = Target(p, r, q) /\ q # p
    BY PlacesPaths
  <1>2. q \in Paths /\ Under(p, q) /\ Target(p, r, q) \in Paths /\ Above(q) \in Q
    BY <1>1 DEF Whole
  <1>3. Below(p, q)
    BY <1>1, <1>2 DEF Under
  <1>4. Base(t) = Base(q) /\ Above(t) = Target(p, r, Above(q))
    BY <1>1, <1>2, <1>3, TargetAbove
  <1>5. Above(q) \in Paths /\ Under(p, Above(q)) /\ Target(p, r, Above(q)) \in Paths
    BY <1>2 DEF Whole
  <1>6. Target(r, p, Target(p, r, Above(q))) = Above(q)
    BY <1>5, TargetPath
  <1> HIDE DEF q
  <1>7. Accompanied(p, r, Q, t, q)
    BY <1>2, <1>3, <1>4, <1>6 DEF Places, Accompanied
  <1> QED BY <1>7 DEF q

LEMMA MoveAt ==
    ASSUME NEW T, NEW p, NEW r, NEW X
    PROVE  Tree!Move(T, p, r, X) =
             [t \in Paths |-> IF Under(r, t)
                              THEN IF Target(r, p, t) \in Paths /\ ~Lost(X, Target(r, p, t))
                                   THEN T[Target(r, p, t)] ELSE None
                              ELSE IF Under(p, t) THEN None ELSE T[t]]
  <1>1. \A q : Tree!IsLost(X, q) <=> Lost(X, q)
    BY TreeOps DEF Lost
  <1> QED BY <1>1, TreeOps DEF Tree!Move, Under

LEMMA MoveKeeps ==
    ASSUME NEW L, NEW k, NEW Z, NEW m, Good(L, k, Z), Grows(k, m), NEW p \in Paths, NEW r \in Paths,
           NEW Q, NEW X, Movable(L, p, r), Whole(L, p, r, Q, X),
           \A t \in Places(p, r, Q) : IsListed(MoveIn(L, p, r, Q), m, t)
    PROVE  /\ Good(MoveIn(L, p, r, Q), m, Z)
           /\ TreeOf(MoveIn(L, p, r, Q)) = Tree!Move(TreeOf(L), p, r, X)
  <1> DEFINE N == Places(p, r, Q)
             M == MoveIn(L, p, r, Q)
  <1>1. ASSUME NEW t \in N
        PROVE  t \in Paths /\ Under(r, t) /\ Target(r, p, t) \in Q /\ Target(r, p, t) \in Paths
    <2>1. t \in Paths /\ Under(r, t) /\ Target(r, p, t) \in Q
      BY PlacesPaths
    <2> QED BY <2>1 DEF Whole
  <1>2. ASSUME NEW t \in Paths
        PROVE  M[t] = IF t \in N THEN L[Target(r, p, t)] ELSE IF Under(p, t) THEN None ELSE L[t]
    BY DEF MoveIn
  <1>3. M \in [Paths -> Node \cup {None}]
    BY <1>1 DEF MoveIn, Good
  <1>4. r \in N
    <2>1. p \in Q /\ Target(p, r, p) \in Paths /\ Under(p, p)
      BY DEF Whole
    <2>2. Target(p, r, p) = r
      BY <2>1, TargetPath
    <2> QED BY <2>1, <2>2 DEF Places
  <1>5. \A t \in N : IsListed(M, m, t)
    OBVIOUS
  <1>6. ASSUME NEW t \in Paths, Below(r, t) PROVE L[t] = None
    BY <1>6, NothingBelow DEF Movable
  <1> HIDE DEF M, N
  <1>7. ASSUME NEW d \in Paths, ~Under(p, d), ~Under(r, d) PROVE M[d] = L[d]
    BY <1>1, <1>2, <1>7
  <1>8. Above(r) \in Paths /\ ~Under(p, Above(r)) /\ ~Under(r, Above(r))
    <2>1. r # <<>> /\ ~Below(p, r) /\ r # p
      BY DEF Movable
    <2>2. Above(r) \in Paths /\ ~Under(p, Above(r)) /\ ~Below(r, r)
      BY <2>1, AboveType, UnderAbove, UnderIsPre
    <2> QED BY <2>1, <2>2, UnderAbove
  <1>9. M[<<>>] # None => IsDir(M[<<>>])
    <2>1. <<>> \in Paths /\ ~Under(p, <<>>) /\ ~Under(r, <<>>)
      BY RootIsPath, UnderIsPre DEF Under, Movable
    <2> QED BY <1>7, <2>1 DEF Good
  <1>10. ASSUME NEW t \in Paths, M[t] # None
         PROVE  /\ Proper(M[t])
                /\ t # <<>> => Housed(M, t) /\ (~M[t].hidden => InList(M, m, Z, t))
    <2>1. CASE t \in N
      <3> DEFINE q == Target(r, p, t)
      <3>1. q \in Q /\ q \in Paths /\ M[t] = L[q] /\ L[q] # None
        BY <1>1, <1>2, <1>10, <2>1
      <3>2. Proper(L[q]) /\ (q # <<>> => Housed(L, q))
        BY <3>1, GoodAt
      <3>3. ASSUME t # <<>> PROVE IsDir(M[Above(t)])
        <4>1. CASE t = r
          <5>1. IsDir(L[Above(r)])
            BY DEF Movable
          <5> QED BY <1>7, <1>8, <4>1, <5>1
        <4>2. CASE t # r
          <5>1. Above(t) \in N /\ Below(p, q) /\ Target(r, p, Above(t)) = Above(q)
            <6>1. t \in Places(p, r, Q)
              BY <2>1 DEF N
            <6>2. Accompanied(p, r, Q, t, q)
              BY <4>2, <6>1, PlaceAbove
            <6> HIDE DEF q
            <6> QED BY <6>2 DEF N, Accompanied
          <5>2. q # <<>> /\ Above(q) # <<>>
            <6>1. q # <<>> /\ Above(q) \in Paths /\ Under(p, Above(q))
              BY <3>1, <5>1, UnderIsPre, UnderAbove, AboveType
            <6> QED BY <6>1, UnderIsPre DEF Under, Movable
          <5>3. Above(t) \in Paths /\ M[Above(t)] = L[Above(q)]
            BY <1>1, <1>2, <5>1
          <5> QED BY <3>2, <5>2, <5>3 DEF Housed
        <4> QED BY <4>1, <4>2
      <3> QED BY <1>5, <2>1, <3>1, <3>2, <3>3 DEF Housed, InList
    <2>2. CASE t \notin N
      <3>1. ~Under(p, t) /\ M[t] = L[t] /\ L[t] # None
        BY <1>2, <1>10, <2>2
      <3>2. Proper(L[t]) /\ (t # <<>> => Housed(L, t) /\ (~L[t].hidden => InList(L, k, Z, t)))
        BY <3>1, GoodAt
      <3>3. ASSUME t # <<>> PROVE Above(t) \in Paths /\ M[Above(t)] = L[Above(t)]
        <4>1. ~Below(r, t) /\ ~Below(p, t)
          BY <1>6, <3>1 DEF Under
        <4>2. Above(t) \in Paths /\ ~Under(p, Above(t)) /\ ~Under(r, Above(t))
          BY <3>3, <4>1, UnderAbove, AboveType
        <4> QED BY <1>7, <4>2
      <3>4. ASSUME t # <<>>, ~M[t].hidden PROVE InList(M, m, Z, t)
        BY <3>1, <3>2, <3>3, <3>4, StillListed
      <3>5. ASSUME t # <<>> PROVE Housed(M, t)
        BY <3>2, <3>3, <3>5, StillListed
      <3> QED BY <3>1, <3>2, <3>4, <3>5
    <2> QED BY <2>1, <2>2
  <1>11. m \in [Paths -> SUBSET Names]
    BY DEF Grows
  <1>12. Good(M, m, Z)
    BY <1>3, <1>9, <1>10, <1>11 DEF Good
  <1> DEFINE T == TreeOf(L)
             U == TreeOf(M)
  <1>13. ASSUME NEW t \in Paths, NEW q \in Paths, M[t] = L[q] PROVE U[t] = T[q]
    BY <1>13 DEF TreeOf, Shown
  <1>14. ASSUME NEW t \in Paths, M[t] = None PROVE U[t] = None
    BY <1>14 DEF TreeOf, Shown
  <1>15. \A q \in Paths : ~Shown(L, q) => T[q] = None
    BY DEF TreeOf
  <1>16. T = [q \in Paths |-> T[q]] /\ U = [q \in Paths |-> U[q]]
    BY DEF TreeOf
  <1> HIDE DEF T, U
  <1>17. ASSUME NEW t \in Paths, Under(r, t)
         PROVE  U[t] = IF Target(r, p, t) \in Paths /\ ~Lost(X, Target(r, p, t))
                       THEN T[Target(r, p, t)] ELSE None
    <2>1. CASE t \in N
      <3>1. ~Lost(X, Target(r, p, t))
        BY <1>1, <2>1 DEF Whole
      <3> QED BY <1>1, <1>2, <1>13, <2>1, <3>1
    <2>2. CASE t \notin N
      <3>1. M[t] = None
        <4>1. Below(r, t)
          BY <1>4, <1>17, <2>2 DEF Under
        <4> QED BY <1>2, <1>6, <2>2, <4>1
      <3>2. ASSUME Target(r, p, t) \in Paths, ~Lost(X, Target(r, p, t))
            PROVE  T[Target(r, p, t)] = None
        <4>1. Under(p, Target(r, p, t)) /\ Target(p, r, Target(r, p, t)) = t
          BY <1>17, <3>2, TargetPath
        <4>2. Target(r, p, t) \notin Q
          BY <2>2, <4>1 DEF N, Places
        <4>3. ~Shown(L, Target(r, p, t))
          BY <3>2, <4>1, <4>2 DEF Whole
        <4> QED BY <1>15, <3>2, <4>3
      <3> QED BY <1>14, <3>1, <3>2
    <2> QED BY <2>1, <2>2
  <1>18. ASSUME NEW t \in Paths, ~Under(r, t) PROVE U[t] = IF Under(p, t) THEN None ELSE T[t]
    <2>1. M[t] = IF Under(p, t) THEN None ELSE L[t]
      BY <1>1, <1>2, <1>18
    <2> QED BY <1>13, <1>14, <2>1
  <1>19. Tree!Move(T, p, r, X) =
           [t \in Paths |-> IF Under(r, t)
                            THEN IF Target(r, p, t) \in Paths /\ ~Lost(X, Target(r, p, t))
                                 THEN T[Target(r, p, t)] ELSE None
                            ELSE IF Under(p, t) THEN None ELSE T[t]]
    BY MoveAt
  <1>20. U = Tree!Move(T, p, r, X)
    BY <1>16, <1>17, <1>18, <1>19
  <1> QED BY <1>12, <1>20 DEF M, T, U

\* A tree that changed by a move changed where it came from, and where it went
\* unless there was a file with the same content: then nothing more is seen of it
\* than that the source went.
LEMMA MoveFollows ==
    ASSUME NEW L, NEW k, NEW Z, Good(L, k, Z), NEW p \in Paths, NEW r \in Paths, Movable(L, p, r),
           NEW X \in SUBSET Concealed, \A c \in X : Below(p, c) /\ c \in Paths,
           NEW u, u = Tree!Move(TreeOf(L), p, r, X)
    PROVE  Follows(TreeOf(L), u)
  <1> DEFINE t == TreeOf(L)
             C == {q \in Paths : t[q] # u[q]}
  <1>1. u = [q \in Paths |-> IF Under(r, q)
                             THEN IF Target(r, p, q) \in Paths /\ ~Lost(X, Target(r, p, q))
                                  THEN t[Target(r, p, q)] ELSE None
                             ELSE IF Under(p, q) THEN None ELSE t[q]]
    BY MoveAt
  <1>2. t[p] # None
    BY EntryAt DEF Movable
  <1>3. ~Under(r, p)
    <2>1. L[p] # None /\ ~IsDir(L[r]) /\ r # p /\ r # <<>>
      BY DEF Movable, Shown
    <2> QED BY <2>1, NothingBelow DEF Under
  <1>4. ~Under(p, r)
    BY DEF Movable, Under
  <1>5. Tree!CanMove(t, p, r)
    <2>1. Above(r) \in Paths /\ r # <<>> /\ ~Below(p, r) /\ r # p
      BY AboveType DEF Movable
    <2>2. Tree!IsDirectory(t, Above(r)) /\ ~Tree!IsDirectory(t, r)
      BY <2>1, EntryAt DEF Movable
    <2> QED BY <1>2, <2>1, <2>2, TreeOps DEF Tree!CanMove, Tree!HasPlace
  <1>6. ASSUME NEW q \in Paths, Below(r, q) PROVE t[q] = None
    <2>1. L[q] = None
      BY <1>6, NothingBelow DEF Movable
    <2> QED BY <2>1 DEF TreeOf, Shown
  <1>7. u[p] = None
    BY <1>1, <1>3 DEF Under
  <1>8. u[r] = t[p]
    <2>1. Under(r, r) /\ Under(p, p) /\ p \in Paths /\ r \in Paths
      BY DEF Under
    <2>2. Target(r, p, r) = p
      BY TargetTop
    <2>3. ~Lost(X, p)
      <3> SUFFICES ASSUME NEW c \in X, Under(c, p) PROVE FALSE
        BY DEF Lost
      <3>1. c \in Paths /\ Len(p) < Len(c) /\ Len(c) <= Len(p)
        BY UnderIsPre
      <3> QED BY <3>1, PathLen
    <2> QED BY <1>1, <2>1, <2>2, <2>3
  <1>9. CASE t[r] # t[p]
    <2>1. p \in C /\ r \in C
      BY <1>2, <1>7, <1>8, <1>9
    <2>2. u = Tree!Move(t, p, r, X) /\ \A c \in X : Tree!Below(p, c)
      BY TreeOps
    <2> HIDE DEF C, t
    <2>3. Tree!Step(t, u, C)
      BY <1>5, <2>1, <2>2 DEF Tree!Step
    <2> QED BY <2>3 DEF Follows, t, C
  <1>10. CASE t[r] = t[p]
    <2>1. ~IsDir(L[p])
      <3>1. ~Tree!IsDirectory(t, r)
        BY EntryAt DEF Movable
      <3>2. ~Tree!IsDirectory(t, p)
        BY <1>10, <3>1 DEF Tree!IsDirectory
      <3> QED BY <3>2, EntryAt
    <2>2. ASSUME NEW q \in Paths, Below(p, q) PROVE t[q] = None
      <3>1. L[q] = None
        BY <2>1, <2>2, NothingBelow DEF Movable
      <3> QED BY <3>1 DEF TreeOf, Shown
    <2>3. ASSUME NEW q \in Paths PROVE u[q] = IF Under(p, q) THEN None ELSE t[q]
      <3>1. CASE q = r
        BY <1>4, <1>8, <1>10, <3>1
      <3>2. CASE Below(r, q)
        <4>1. ASSUME Target(r, p, q) \in Paths PROVE t[Target(r, p, q)] = None
          <5>1. Under(r, q) /\ q # r
            BY <3>2, UnderIsPre DEF Under
          <5>2. Under(p, Target(r, p, q)) /\ Target(r, p, q) # p
            BY <4>1, <5>1, TargetPath
          <5> QED BY <2>2, <4>1, <5>2 DEF Under
        <4>2. u[q] = None
          BY <1>1, <3>2, <4>1 DEF Under
        <4> QED BY <1>6, <3>2, <4>2
      <3>3. CASE ~Under(r, q)
        BY <1>1, <3>3
      <3> QED BY <3>1, <3>2, <3>3 DEF Under
    <2>4. u = Tree!Delete(t, p)
      <3>1. u = [q \in Paths |-> u[q]]
        BY <1>1
      <3>2. Tree!Delete(t, p) = [q \in Paths |-> IF Under(p, q) THEN None ELSE t[q]]
        BY TreeOps DEF Tree!Delete, Under
      <3> HIDE DEF t
      <3> QED BY <2>3, <3>1, <3>2
    <2> QED BY <2>4, DeleteFollows DEF Movable
  <1> QED BY <1>9, <1>10

LEMMA MoveEffect ==
    ASSUME NEW L, NEW k, NEW Z, NEW m, Good(L, k, Z), Grows(k, m), NEW p \in Paths, NEW r \in Paths,
           NEW Q, NEW X \in SUBSET Concealed, \A c \in X : Below(p, c) /\ c \in Paths,
           Movable(L, p, r), Whole(L, p, r, Q, X),
           \A t \in Places(p, r, Q) : IsListed(MoveIn(L, p, r, Q), m, t)
    PROVE  Effect(L, MoveIn(L, p, r, Q), m, Z)
  BY MoveKeeps, MoveFollows DEF Effect

-----------------------------------------------------------------------------
(* The overlay's lookups and changes *)

\* What is seen and not listed.
UnlistedIn(L, k) ==
    {p \in Paths : p # <<>> /\ Shown(L, p) /\ L[Above(p)] # None /\ ~IsListed(L, k, p)}

Now == UnlistedIn(View(overlay), kids)

\* The inductive invariant: base, overlay and added children are a good table, in
\* which no more is unlisted than the base conceals.
Inv ==
    /\ DOMAIN overlay \subseteq Paths
    /\ Good(View(overlay), kids, Now)
    /\ Now \subseteq Concealed
    /\ stuck \in BOOLEAN

\* A step leaves a good table, in which nothing is unlisted that was listed, and
\* the tree it shows changed as a tree does.
Settled ==
    /\ DOMAIN overlay' \subseteq Paths
    /\ Effect(View(overlay), View(overlay'), kids', Now)
    /\ stuck' \in BOOLEAN

LEMMA LookupAt == \A p \in Paths : lookup(p) = View(overlay)[p]
  BY DEF lookup, View

LEMMA VisibleAt ==
    ASSUME NEW p \in Paths, NEW L, NEW k, NEW Z, L = View(overlay), Good(L, k, Z)
    PROVE  /\ visible(p) # None <=> Shown(L, p)
           /\ Shown(L, p) => visible(p) = L[p]
           /\ IsDir(visible(p)) <=> IsDir(L[p])
  <1>1. lookup(p) = L[p]
    BY LookupAt
  <1>2. visible(p) = IF L[p] # None /\ L[p].hidden THEN None ELSE L[p]
    BY <1>1 DEF visible
  <1>3. IsDir(L[p]) => Shown(L, p)
    BY EntryAt
  <1> QED BY <1>2, <1>3 DEF Shown, IsDir

LEMMA ViewSet ==
    ASSUME NEW o, NEW p \in Paths, NEW n
    PROVE  View(Set(o, p, n)) = PutIn(View(o), p, n) /\ DOMAIN Set(o, p, n) = DOMAIN o \cup {p}
  <1>1. DOMAIN Set(o, p, n) = DOMAIN o \cup {p}
    BY DEF Set
  <1>2. ASSUME NEW q \in Paths
        PROVE  LookupIn(Set(o, p, n), q) = IF q = p THEN n ELSE LookupIn(o, q)
    BY <1>1 DEF LookupIn, Set
  <1> QED BY <1>1, <1>2 DEF View, PutIn

LEMMA ViewRemoved ==
    ASSUME NEW p \in Paths, p # <<>>, DOMAIN overlay \subseteq Paths
    PROVE  View(Removed(p)) = DeleteIn(View(overlay), p) /\ DOMAIN Removed(p) \subseteq Paths
  <1> DEFINE below == {q \in DOMAIN overlay \cup DOMAIN BaseFs : p # <<>> /\ Below(p, q)}
  <1>1. Removed(p) = [q \in DOMAIN overlay \cup {p} \cup below |->
                        IF q = p \/ q \in below THEN None ELSE overlay[q]]
    BY DEF Removed
  <1>2. DOMAIN Removed(p) = DOMAIN overlay \cup {p} \cup below
    BY <1>1
  <1>3. below \subseteq Paths
    BY BaseAssumption
  <1>4. ASSUME NEW q \in Paths
        PROVE  LookupIn(Removed(p), q) = IF Under(p, q) THEN None ELSE LookupIn(overlay, q)
    <2>1. CASE Under(p, q)
      <3>1. q \in DOMAIN Removed(p) => Removed(p)[q] = None
        BY <1>1, <1>2, <2>1 DEF Under
      <3>2. q \notin DOMAIN Removed(p) => q \notin DOMAIN BaseFs
        BY <1>2, <2>1 DEF Under
      <3> QED BY <2>1, <3>1, <3>2 DEF LookupIn
    <2>2. CASE ~Under(p, q)
      <3>1. q # p /\ q \notin below
        BY <2>2 DEF Under
      <3>2. q \in DOMAIN Removed(p) <=> q \in DOMAIN overlay
        BY <1>2, <3>1
      <3>3. q \in DOMAIN overlay => Removed(p)[q] = overlay[q]
        BY <1>1, <3>1
      <3> QED BY <2>2, <3>2, <3>3 DEF LookupIn
    <2> QED BY <2>1, <2>2
  <1> QED BY <1>2, <1>3, <1>4 DEF View, DeleteIn

\* addChild: the directory of p lists p.
LEMMA AddedKids ==
    ASSUME NEW o, NEW k, NEW Z, Good(View(o), k, Z), NEW p \in Paths, p # <<>>
    PROVE  Grows(k, AddChildIn(o, k, p)) /\ IsListed(View(o), AddChildIn(o, k, p), p)
  <1> DEFINE m == AddChildIn(o, k, p)
             d == Above(p)
             L == View(o)
  <1>1. d \in Paths /\ Base(p) \in Names
    BY AboveType
  <1>2. L[d] = LookupIn(o, d)
    BY <1>1 DEF View
  <1>3. m = IF L[d] # None /\ Base(p) \in L[d].children THEN k ELSE [k EXCEPT ![d] = @ \cup {Base(p)}]
    BY <1>2 DEF AddChildIn
  <1>4. k \in [Paths -> SUBSET Names]
    BY DEF Good
  <1> HIDE DEF m, d, L
  <1>5. Grows(k, m)
    BY <1>1, <1>3, <1>4 DEF Grows
  <1>6. Base(p) \in L[d].children \cup m[d]
    BY <1>1, <1>3, <1>4
  <1> QED BY <1>5, <1>6 DEF IsListed, m, d, L

LEMMA NewFileIsNode ==
    ASSUME NEW d \in SUBSET Data
    PROVE  /\ NewFile(d) \in Node /\ ~NewFile(d).dir /\ ~NewFile(d).hidden
           /\ NewFile(d).children = {} /\ NewFile(d).content = d
  BY DEF NewFile, Node

LEMMA KidsGrow == Good(View(overlay), kids, Now) => Grows(kids, kids)
  BY DEF Good, Grows

-----------------------------------------------------------------------------
(* The operations *)

\* A file is written at p, in a directory that is there.
LEMMA PutSettles ==
    ASSUME Inv, NEW p \in Paths, p # <<>>, IsDir(View(overlay)[Above(p)]), ~IsDir(View(overlay)[p]),
           NEW d \in SUBSET Data,
           overlay' = Set(overlay, p, NewFile(d)), addChild(p), UNCHANGED stuck
    PROVE  Settled
  <1>1. Grows(kids, kids') /\ IsListed(View(overlay), kids', p)
    BY AddedKids DEF addChild, Inv
  <1>2. View(overlay') = PutIn(View(overlay), p, NewFile(d)) /\ DOMAIN overlay' = DOMAIN overlay \cup {p}
    BY ViewSet
  <1>3. /\ NewFile(d) \in Node /\ ~NewFile(d).dir /\ ~NewFile(d).hidden /\ NewFile(d).children = {}
    BY NewFileIsNode
  <1>5. Housed(View(overlay), p) /\ InList(View(overlay), kids', Now, p)
    BY <1>1 DEF Housed, InList
  <1>4. Effect(View(overlay), PutIn(View(overlay), p, NewFile(d)), kids', Now)
    BY <1>1, <1>3, <1>5, PutEffect DEF Inv
  <1> QED BY <1>2, <1>4 DEF Settled, Inv

\* A file that is seen at p is emptied.
LEMMA EmptySettles ==
    ASSUME Inv, NEW p \in Paths, visible(p) # None, ~visible(p).dir,
           overlay' = Set(overlay, p, [visible(p) EXCEPT !.content = {}]), UNCHANGED <<kids, stuck>>
    PROVE  Settled
  <1> DEFINE L == View(overlay)
             n == [visible(p) EXCEPT !.content = {}]
  <1>1. Good(L, kids, Now) /\ DOMAIN overlay \subseteq Paths /\ stuck \in BOOLEAN
    BY DEF Inv
  <1>2. L[p] = visible(p) /\ Shown(L, p) /\ L[p] # None /\ ~L[p].hidden /\ ~IsDir(L[p])
    BY <1>1, VisibleAt DEF Shown, IsDir
  <1>3. L[p] \in Node /\ Proper(L[p]) /\ (p # <<>> => Housed(L, p) /\ InList(L, kids, Now, p))
    BY <1>1, <1>2, GoodAt
  <1>4. p # <<>>
    BY <1>1, <1>2 DEF Good
  <1>5. n \in Node /\ ~n.dir /\ ~n.hidden /\ n.children = {}
    BY <1>2, <1>3 DEF Node, Proper
  <1>6. View(overlay') = PutIn(L, p, n) /\ DOMAIN overlay' = DOMAIN overlay \cup {p}
    BY ViewSet
  <1> HIDE DEF n, L
  <1>7. Grows(kids, kids)
    BY <1>1, KidsGrow DEF L
  <1>8. Effect(L, PutIn(L, p, n), kids, Now)
    BY <1>1, <1>2, <1>3, <1>4, <1>5, <1>7, PutEffect
  <1> QED BY <1>1, <1>6, <1>8 DEF Settled, L

LEMMA CreateFileSettles ==
    ASSUME Inv, NEW p \in Paths, NEW f \in BOOLEAN, CreateFile(p, f) PROVE Settled
  <1>1. CASE visible(p) # None
    BY <1>1, EmptySettles DEF CreateFile
  <1>2. CASE visible(p) = None
    <2>1. /\ CanCreate(p) /\ overlay' = Set(overlay, p, NewFile({})) /\ addChild(p) /\ UNCHANGED stuck
      BY <1>2 DEF CreateFile
    <2>2. p # <<>> /\ IsDir(visible(Above(p)))
      BY <2>1 DEF CanCreate
    <2>3. Above(p) \in Paths /\ Good(View(overlay), kids, Now)
      BY <2>2, AboveType DEF Inv
    <2>4. IsDir(View(overlay)[Above(p)]) /\ ~IsDir(View(overlay)[p])
      <3>1. IsDir(View(overlay)[Above(p)])
        BY <2>2, <2>3, VisibleAt
      <3>2. ~IsDir(visible(p))
        BY <1>2 DEF IsDir
      <3> QED BY <2>3, <3>1, <3>2, VisibleAt
    <2>5. {} \in SUBSET Data
      OBVIOUS
    <2> QED BY <2>1, <2>2, <2>4, <2>5, PutSettles
  <1> QED BY <1>1, <1>2

LEMMA SetSizeSettles == ASSUME Inv, NEW p \in Paths, SetSize(p) PROVE Settled
  BY EmptySettles DEF SetSize

\* Directories are made, from the first one missing down to p.
LEMMA MkdirAtSettles ==
    ASSUME Inv, NEW p \in Paths, NEW i \in 0 .. Len(p) - 1, IsDir(View(overlay)[Pre(p, i)]),
           \A q \in Missing(p, i) : ~Shown(View(overlay), q),
           MkdirAt(Missing(p, i)), UNCHANGED stuck
    PROVE  Settled
  <1> DEFINE L == View(overlay)
             S == Missing(p, i)
             M == MakeIn(L, S)
             added(q) == {Base(x) : x \in {y \in S : Above(y) = q
                             /\ ~(q \notin S /\ L[q] # None /\ Base(y) \in L[q].children)}}
  <1>1. Good(L, kids, Now) /\ DOMAIN overlay \subseteq Paths /\ stuck \in BOOLEAN /\ kids \in [Paths -> SUBSET Names]
    BY DEF Inv, Good
  <1>2. \A q \in S : q \in Paths /\ q # <<>> /\ Above(q) \in Paths /\ Base(q) \in Names
    <2> SUFFICES ASSUME NEW q \in S PROVE q \in Paths /\ q # <<>> /\ Above(q) \in Paths /\ Base(q) \in Names
      OBVIOUS
    <2>1. q \in Paths /\ q # <<>>
      BY MissingPaths
    <2> QED BY <2>1, AboveType
  <1>3. overlay' = [q \in DOMAIN overlay \cup S |-> IF q \in S THEN NewDir ELSE overlay[q]]
    BY DEF MkdirAt
  <1>4. kids' = [q \in Paths |-> kids[q] \cup added(q)]
    BY LookupAt DEF MkdirAt
  <1>5. View(overlay') = M
    <2>1. DOMAIN overlay' = DOMAIN overlay \cup S
      BY <1>3
    <2>2. ASSUME NEW q \in Paths
          PROVE  LookupIn(overlay', q) = IF q \in S THEN NewDir ELSE LookupIn(overlay, q)
      <3> HIDE DEF S
      <3> QED BY <1>3, <2>1 DEF LookupIn
    <2> HIDE DEF S
    <2> QED BY <2>2 DEF View, MakeIn
  <1>6. DOMAIN overlay' \subseteq Paths
    BY <1>1, <1>2, <1>3
  <1> HIDE DEF S
  <1>7. ASSUME NEW q \in Paths PROVE added(q) \subseteq Names
    BY <1>2
  <1>8. ASSUME NEW q \in S PROVE IsListed(M, kids', q)
    <2>1. CASE Base(q) \in added(Above(q))
      <3>1. Base(q) \in kids'[Above(q)]
        <4> HIDE DEF added
        <4> QED BY <1>2, <1>4, <2>1
      <3> QED BY <3>1 DEF IsListed
    <2>2. CASE Base(q) \notin added(Above(q))
      <3>1. Above(q) \notin S /\ Base(q) \in L[Above(q)].children
        BY <2>2
      <3>2. M[Above(q)] = L[Above(q)]
        BY <1>2, <3>1 DEF MakeIn
      <3> QED BY <3>1, <3>2 DEF IsListed
    <2> QED BY <2>1, <2>2
  <1> HIDE DEF added
  <1>9. Grows(kids, kids')
    BY <1>1, <1>4, <1>7 DEF Grows
  <1>10. Effect(L, M, kids', Now)
    <2> HIDE DEF L
    <2> QED BY <1>1, <1>8, <1>9, MakeEffect DEF S, L
  <1> QED BY <1>1, <1>5, <1>6, <1>10 DEF Settled

LEMMA MkdirSettles == ASSUME Inv, NEW p \in Paths, Mkdir(p) PROVE Settled
  <1>1. visible(p) = None /\ p # <<>> /\ IsDir(visible(Above(p))) /\ MkdirAt({p}) /\ UNCHANGED stuck
    BY DEF Mkdir, CanCreate
  <1>2. Above(p) \in Paths /\ Above(p) = Pre(p, Len(p) - 1)
    BY <1>1, AboveType
  <1>3. Good(View(overlay), kids, Now)
    BY DEF Inv
  <1>4. ~Shown(View(overlay), p) /\ IsDir(View(overlay)[Above(p)])
    BY <1>1, <1>2, <1>3, VisibleAt
  <1> DEFINE i == Len(p) - 1
  <1>5. Len(p) \in Nat /\ Len(p) # 0
    BY <1>1, PathLen
  <1>6. i \in 0 .. Len(p) - 1 /\ i + 1 .. Len(p) = {Len(p)}
    BY <1>5
  <1>7. Missing(p, i) = {p}
    <2>1. Pre(p, Len(p)) = p
      BY PreWhole
    <2> HIDE DEF i
    <2> QED BY <1>6, <2>1 DEF Missing
  <1>8. MkdirAt(Missing(p, i)) /\ \A q \in Missing(p, i) : ~Shown(View(overlay), q)
    BY <1>1, <1>4, <1>7
  <1>9. IsDir(View(overlay)[Pre(p, i)])
    BY <1>2, <1>4
  <1> HIDE DEF i
  <1> QED BY <1>1, <1>6, <1>8, <1>9, MkdirAtSettles

\* mkdir finds a directory above, or the root is gone and it is stuck.
LEMMA MkdirPSettles == ASSUME Inv, NEW p \in Paths, NEW f \in BOOLEAN, MkdirP(p, f) PROVE Settled
  <1> DEFINE L == View(overlay)
  <1>1. Good(L, kids, Now)
    BY DEF Inv
  <1>2. Len(p) \in Nat
    BY PathLen
  <1>3. CASE stuck' = TRUE /\ UNCHANGED <<overlay, kids>>
    BY <1>1, <1>3 DEF Settled, Effect, Follows, Inv
  <1>9. SUFFICES ASSUME ~(stuck' = TRUE /\ UNCHANGED <<overlay, kids>>) PROVE Settled
    BY <1>3
  <1>4. PICK i \in 0 .. Len(p) - 1 :
          /\ \A q \in Missing(p, i) : lookup(q) = None
          /\ IsDir(lookup(Pre(p, i)))
          /\ MkdirAt(Missing(p, i)) /\ UNCHANGED stuck
    BY <1>9 DEF MkdirP, Missing, Pre
  <1>5. i \in 0 .. Len(p)
    BY <1>2
  <1>6. Pre(p, i) \in Paths
    BY <1>5, PreType
  <1>7. IsDir(L[Pre(p, i)])
    BY <1>4, <1>6, LookupAt
  <1>8. ASSUME NEW q \in Missing(p, i) PROVE ~Shown(L, q)
    <2>1. q \in Paths
      BY MissingPaths
    <2> QED BY <1>4, <2>1, LookupAt DEF Shown
  <1> QED BY <1>4, <1>7, <1>8, MkdirAtSettles

\* An entry other than the root is removed.
LEMMA RemovedSettles ==
    ASSUME Inv, NEW p \in Paths, p # <<>>, overlay' = Removed(p), UNCHANGED <<kids, stuck>>
    PROVE  Settled
  <1>1. Good(View(overlay), kids, Now) /\ DOMAIN overlay \subseteq Paths /\ stuck \in BOOLEAN
    BY DEF Inv
  <1>2. View(overlay') = DeleteIn(View(overlay), p) /\ DOMAIN overlay' \subseteq Paths
    BY <1>1, ViewRemoved
  <1>3. Effect(View(overlay), DeleteIn(View(overlay), p), kids, Now)
    BY <1>1, KidsGrow, DeleteEffect
  <1> QED BY <1>1, <1>2, <1>3 DEF Settled

LEMMA RemoveSettles == ASSUME Inv, NEW p \in Paths, NEW f \in BOOLEAN, Remove(p, f) PROVE Settled
  BY RemovedSettles DEF Remove

\* rm -r / removes the root and nothing below it.
LEMMA RootSettles ==
    ASSUME Inv, overlay' = Removed(<<>>), UNCHANGED <<kids, stuck>>
    PROVE  Settled
  <1>1. Good(View(overlay), kids, Now) /\ DOMAIN overlay \subseteq Paths /\ stuck \in BOOLEAN
    BY DEF Inv
  <1>2. overlay' = [q \in DOMAIN overlay \cup {<<>>} |-> IF q = <<>> THEN None ELSE overlay[q]]
    BY DEF Removed
  <1>3. overlay' = Set(overlay, <<>>, None)
    BY <1>2 DEF Set
  <1>4. View(overlay') = PutIn(View(overlay), <<>>, None) /\ DOMAIN overlay' = DOMAIN overlay \cup {<<>>}
    BY <1>3, RootIsPath, ViewSet
  <1>5. Effect(View(overlay), PutIn(View(overlay), <<>>, None), kids, Now)
    BY <1>1, DropEffect
  <1> QED BY <1>1, <1>4, <1>5, RootIsPath DEF Settled

LEMMA RmSettles ==
    ASSUME Inv, NEW p \in Paths, NEW f \in BOOLEAN, Rm(p, f) PROVE Settled
  BY RemovedSettles, RootSettles DEF Rm

\* The session's own copy of a node is the node.
LEMMA ChmodSettles == ASSUME Inv, NEW p \in Paths, Chmod(p) PROVE Settled
  <1> DEFINE L == View(overlay)
  <1>1. Good(L, kids, Now) /\ DOMAIN overlay \subseteq Paths /\ stuck \in BOOLEAN
    BY DEF Inv
  <1>2. View(overlay') = PutIn(L, p, lookup(p)) /\ DOMAIN overlay' = DOMAIN overlay \cup {p}
    BY ViewSet DEF Chmod
  <1>3. lookup(p) = L[p]
    BY LookupAt
  <1>4. PutIn(L, p, lookup(p)) = L
    BY <1>3 DEF PutIn, View
  <1>5. kids' = kids /\ stuck' = stuck
    BY DEF Chmod
  <1> QED BY <1>1, <1>2, <1>4, <1>5 DEF Settled, Effect, Follows

\* writeFile's checks, on the table.
LEMMA WritesAt ==
    ASSUME Inv, NEW p \in Paths, Writes(p)
    PROVE  p # <<>> /\ IsDir(View(overlay)[Above(p)]) /\ ~IsDir(View(overlay)[p])
  <1>1. p # <<>> /\ IsDir(lookup(Above(p))) /\ ~IsDir(lookup(p))
    BY DEF Writes
  <1>2. Above(p) \in Paths
    BY <1>1, AboveType
  <1> QED BY <1>1, <1>2, LookupAt

LEMMA ContentType == ASSUME Inv, NEW p \in Paths, lookup(p) # None PROVE lookup(p).content \in SUBSET Data
  <1>1. lookup(p) \in Node
    BY LookupAt, GoodAt DEF Inv
  <1> QED BY <1>1 DEF Node

LEMMA WriteFileSettles ==
    ASSUME Inv, NEW p \in Paths, NEW d \in Data, NEW f \in BOOLEAN, WriteFile(p, d, f) PROVE Settled
  <1> DEFINE c == IF f /\ lookup(p) # None THEN lookup(p).content \cup {d} ELSE {d}
  <1>1. c \in SUBSET Data
    BY ContentType
  <1>2. Writes(p) /\ overlay' = Set(overlay, p, NewFile(c)) /\ addChild(p) /\ UNCHANGED stuck
    BY DEF WriteFile
  <1> HIDE DEF c
  <1> QED BY <1>1, <1>2, WritesAt, PutSettles

LEMMA TouchSettles == ASSUME Inv, NEW p \in Paths, Touch(p) PROVE Settled
  <1>1. Writes(p) /\ overlay' = Set(overlay, p, NewFile({})) /\ addChild(p) /\ UNCHANGED stuck
    BY DEF Touch
  <1>2. {} \in SUBSET Data
    OBVIOUS
  <1> QED BY <1>1, <1>2, WritesAt, PutSettles

LEMMA CpSettles == ASSUME Inv, NEW p \in Paths, NEW r \in Paths, Cp(p, r) PROVE Settled
  <1> DEFINE t == Destination(p, r)
  <1>1. /\ lookup(p) # None /\ t \in Paths /\ Writes(t)
        /\ overlay' = Set(overlay, t, NewFile(lookup(p).content)) /\ addChild(t) /\ UNCHANGED stuck
    BY DEF Cp
  <1>2. lookup(p).content \in SUBSET Data
    BY <1>1, ContentType
  <1> HIDE DEF t
  <1> QED BY <1>1, <1>2, WritesAt, PutSettles

\* A file that is seen is what a new file with its content is.
LEMMA SeenFileIsNew ==
    ASSUME NEW n \in Node, Proper(n), ~n.dir, ~n.hidden PROVE n = NewFile(n.content)
  <1>1. n = [dir |-> n.dir, children |-> n.children, hidden |-> n.hidden, content |-> n.content]
    BY DEF Node
  <1>2. n.dir = FALSE /\ n.hidden = FALSE /\ n.children = {}
    BY DEF Node, Proper
  <1>3. NewFile(n.content) = [dir |-> FALSE, children |-> {}, hidden |-> FALSE, content |-> n.content]
    BY DEF NewFile
  <1> QED BY <1>1, <1>2, <1>3

\* mv of a file: it is written at t, and what was at p goes.
LEMMA MvEffect ==
    ASSUME NEW L, NEW k, NEW Z, NEW m, Good(L, k, Z), Grows(k, m), NEW p \in Paths, NEW t \in Paths,
           L[p] # None, ~L[p].dir, t # <<>>, IsDir(L[Above(t)]), ~IsDir(L[t]), IsListed(L, m, t)
    PROVE  Effect(L, PutIn(PutIn(L, t, NewFile(L[p].content)), p, None), m, Z)
  <1> DEFINE n == NewFile(L[p].content)
             L1 == PutIn(L, t, n)
             M == PutIn(L1, p, None)
  <1>1. L[p] \in Node /\ Proper(L[p]) /\ L[p].content \in SUBSET Data /\ ~IsDir(L[p])
    BY GoodAt DEF Node, IsDir
  <1>2. n \in Node /\ ~n.dir /\ ~n.hidden /\ n.children = {} /\ n.content = L[p].content
    BY <1>1, NewFileIsNode
  <1> HIDE DEF n
  <1>3. p # <<>>
    BY <1>1 DEF Good
  <1>4. ASSUME NEW q \in Paths, Below(p, q) PROVE L[q] = None
    BY <1>1, <1>3, <1>4, NothingBelow
  <1>5. M = [q \in Paths |-> IF q = p THEN None ELSE IF q = t THEN n ELSE L[q]]
    BY DEF PutIn
  <1>12. Housed(L, t) /\ InList(L, m, Z, t)
    BY DEF Housed, InList
  <1>6. /\ Good(L1, m, Z) /\ TreeOf(L1) = Tree!Put(TreeOf(L), t, n.content)
        /\ Tree!CanPut(TreeOf(L), t) /\ n.content \in SUBSET Data
    BY <1>2, <1>12, PutKeeps
  <1>7. ~Under(p, Above(t)) /\ Above(t) \in Paths
    <2>1. Above(t) \in Paths /\ L[Above(t)] # None /\ Above(t) # p
      BY <1>1, AboveType DEF IsDir
    <2> QED BY <1>4, <2>1 DEF Under
  <1>8. ~Below(p, t)
    BY <1>7, UnderAbove
  <1> HIDE DEF M
  <1>9. CASE t = p
    <2>1. ASSUME NEW q \in Paths PROVE M[q] = IF Under(p, q) THEN None ELSE L[q]
      BY <1>4, <1>5, <1>9 DEF Under
    <2>2. M = DeleteIn(L, p)
      BY <1>5, <2>1 DEF DeleteIn
    <2> QED BY <1>3, <2>2, DeleteEffect DEF M, L1, n
  <1>10. CASE t # p /\ L[p].hidden
    <2>1. ASSUME NEW q \in Paths PROVE M[q] = IF Under(p, q) THEN None ELSE L1[q]
      <3>1. L1[q] = IF q = t THEN n ELSE L[q]
        BY DEF PutIn
      <3>2. M[q] = IF q = p THEN None ELSE L1[q]
        BY <1>5, <3>1
      <3>3. Below(p, q) => L1[q] = None
        BY <1>4, <1>8, <3>1
      <3> QED BY <3>2, <3>3 DEF Under
    <2>2. M = DeleteIn(L1, p)
      BY <1>5, <2>1 DEF DeleteIn
    <2>3. Grows(m, m)
      BY DEF Grows
    <2>4. Good(M, m, Z)
      <3> HIDE DEF L1
      <3> QED BY <1>3, <1>6, <2>2, <2>3, DeleteKeeps
    <2>5. TreeOf(M) = TreeOf(L1)
      <3>1. L1[p] = L[p]
        BY <1>10 DEF PutIn
      <3>2. \A q \in Paths : q # p => M[q] = L1[q]
        BY <1>5 DEF PutIn
      <3>3. ~Shown(M, p) /\ ~Shown(L1, p)
        BY <1>5, <1>10, <3>1 DEF Shown
      <3> HIDE DEF L1
      <3>4. \A q \in Paths : Shown(M, q) <=> Shown(L1, q)
        BY <3>2, <3>3 DEF Shown
      <3> QED BY <3>2, <3>3, <3>4 DEF TreeOf
    <2>6. Follows(TreeOf(L), TreeOf(M))
      <3> HIDE DEF L1
      <3> QED BY <1>6, <2>5, PutFollows
    <2> QED BY <2>4, <2>6 DEF Effect, M, L1, n
  <1>11. CASE t # p /\ ~L[p].hidden
    <2>1. Movable(L, p, t)
      BY <1>3, <1>8, <1>11 DEF Movable, Shown
    <2>2. Target(p, t, p) = t /\ Target(t, p, t) = p
      BY TargetTop
    <2>3. Whole(L, p, t, {p}, {})
      <3>1. \A q \in Paths : Under(p, q) /\ Shown(L, q) => q \in {p}
        BY <1>4 DEF Under, Shown
      <3> QED BY <2>2, <3>1 DEF Whole, Under, Lost
    <2>4. Places(p, t, {p}) = {t}
      BY <2>2 DEF Places
    <2>5. L[p] = n
      BY <1>1, <1>11, SeenFileIsNew DEF n
    <2>6. ASSUME NEW q \in Paths
          PROVE  M[q] = IF q \in {t} THEN L[Target(t, p, q)] ELSE IF Under(p, q) THEN None ELSE L[q]
      <3>1. CASE q = t
        BY <1>5, <1>11, <2>2, <2>5, <3>1
      <3>2. CASE q # t
        BY <1>4, <1>5, <3>2 DEF Under
      <3> QED BY <3>1, <3>2
    <2>7. M = MoveIn(L, p, t, {p})
      BY <1>5, <2>4, <2>6 DEF MoveIn
    <2>8. IsListed(M, m, t)
      <3>1. Above(t) # p /\ Above(t) # t
        <4>1. Below(Above(t), t)
          BY UnderAbove
        <4> QED BY <1>7, <4>1, UnderIsPre DEF Under
      <3>2. M[Above(t)] = L[Above(t)]
        BY <1>5, <1>7, <3>1
      <3> QED BY <3>2 DEF IsListed
    <2>9. \A q \in Places(p, t, {p}) : IsListed(MoveIn(L, p, t, {p}), m, q)
      BY <2>4, <2>7, <2>8
    <2>10. Effect(L, MoveIn(L, p, t, {p}), m, Z)
      <3>1. {} \in SUBSET Concealed /\ \A c \in {} : Below(p, c) /\ c \in Paths
        OBVIOUS
      <3> QED BY <2>1, <2>3, <2>9, <3>1, MoveEffect
    <2> QED BY <2>7, <2>10 DEF M, L1, n
  <1> QED BY <1>9, <1>10, <1>11

LEMMA MvSettles == ASSUME Inv, NEW p \in Paths, NEW r \in Paths, Mv(p, r) PROVE Settled
  <1> DEFINE t == Destination(p, r)
             L == View(overlay)
             n == NewFile(lookup(p).content)
  <1>1. /\ lookup(p) # None /\ ~lookup(p).dir /\ t \in Paths /\ Writes(t)
        /\ overlay' = Set(Set(overlay, t, n), p, None) /\ addChild(t) /\ UNCHANGED stuck
    BY DEF Mv
  <1> HIDE DEF t
  <1>2. Good(L, kids, Now) /\ DOMAIN overlay \subseteq Paths /\ stuck \in BOOLEAN /\ lookup(p) = L[p]
    BY LookupAt DEF Inv
  <1>3. t # <<>> /\ IsDir(L[Above(t)]) /\ ~IsDir(L[t])
    BY <1>1, WritesAt
  <1>4. Grows(kids, kids') /\ IsListed(L, kids', t)
    BY <1>1, <1>2, <1>3, AddedKids DEF addChild
  <1> HIDE DEF n
  <1>5. View(Set(overlay, t, n)) = PutIn(L, t, n) /\ DOMAIN Set(overlay, t, n) = DOMAIN overlay \cup {t}
    BY <1>1, ViewSet
  <1>6. /\ View(overlay') = PutIn(PutIn(L, t, n), p, None)
        /\ DOMAIN overlay' = DOMAIN overlay \cup {t} \cup {p}
    <2> DEFINE o == Set(overlay, t, n)
    <2>1. View(Set(o, p, None)) = PutIn(View(o), p, None) /\ DOMAIN Set(o, p, None) = DOMAIN o \cup {p}
      <3> HIDE DEF o
      <3> QED BY ViewSet
    <2> QED BY <1>1, <1>5, <2>1
  <1>7. Effect(L, PutIn(PutIn(L, t, NewFile(L[p].content)), p, None), kids', Now)
    <2>1. L[p] # None /\ ~L[p].dir
      BY <1>1, <1>2
    <2> HIDE DEF L
    <2> QED BY <1>1, <1>2, <1>3, <1>4, <2>1, MvEffect
  <1>8. n = NewFile(L[p].content)
    BY <1>2 DEF n
  <1> QED BY <1>1, <1>2, <1>6, <1>7, <1>8 DEF Settled

\* What leads to a path that collect finds is found.
LEMMA CollectedPrefix ==
    ASSUME NEW p \in Paths, NEW q \in Collected(p), NEW c \in Paths, Below(p, c), Under(c, q)
    PROVE  c \in Collected(p)
  <1>1. q \in Paths /\ Below(p, q)
    BY DEF Collected
  <1>2. /\ Len(p) \in Nat /\ Len(q) \in Nat /\ Len(c) \in Nat /\ Len(c) <= Len(q) /\ Len(p) < Len(c)
        /\ c = Pre(q, Len(c)) /\ Len(c) \in 0 .. Len(q)
    <2>1. Len(p) \in Nat /\ Len(q) \in Nat /\ Len(c) \in Nat
      BY <1>1, PathLen
    <2>2. Len(c) <= Len(q) /\ Pre(q, Len(c)) = c /\ Len(p) < Len(c)
      BY <1>1, UnderIsPre
    <2> QED BY <2>1, <2>2
  <1>3. ASSUME NEW i \in Len(p) + 1 .. Len(q)
        PROVE  /\ IsDir(lookup(Pre(q, i - 1))) /\ q[i] \in Listed(Pre(q, i - 1))
               /\ lookup(Pre(q, i)) # None
    BY DEF Collected, Pre
  <1>4. ASSUME NEW i \in 0 .. Len(c) PROVE Pre(c, i) = Pre(q, i)
    <2>1. Pre(Pre(q, Len(c)), i) = Pre(q, i)
      BY <1>1, <1>2, PreOfPre
    <2> QED BY <1>2, <2>1
  <1>5. ASSUME NEW i \in 1 .. Len(c) PROVE c[i] = q[i]
    <2>1. Pre(q, Len(c))[i] = q[i]
      BY <1>1, <1>2, PreType
    <2> QED BY <1>2, <2>1
  <1>6. ASSUME NEW i \in Len(p) + 1 .. Len(c)
        PROVE  /\ IsDir(lookup(SubSeq(c, 1, i - 1))) /\ c[i] \in Listed(SubSeq(c, 1, i - 1))
               /\ lookup(SubSeq(c, 1, i)) # None
    <2>1. i \in Len(p) + 1 .. Len(q) /\ i \in 0 .. Len(c) /\ i - 1 \in 0 .. Len(c) /\ i \in 1 .. Len(c)
      BY <1>2
    <2>2. Pre(c, i) = Pre(q, i) /\ Pre(c, i - 1) = Pre(q, i - 1) /\ c[i] = q[i]
      BY <1>4, <1>5, <2>1
    <2>3. IsDir(lookup(Pre(c, i - 1))) /\ c[i] \in Listed(Pre(c, i - 1)) /\ lookup(Pre(c, i)) # None
      BY <1>3, <2>1, <2>2
    <2> QED BY <2>3 DEF Pre
  <1> QED BY <1>6 DEF Collected

\* What a directory that collect finds lists is found.
LEMMA CollectedStep ==
    ASSUME NEW p \in Paths, NEW c \in Paths, Below(p, c), Above(c) = p \/ Above(c) \in Collected(p),
           IsDir(lookup(Above(c))), Base(c) \in Listed(Above(c)), lookup(c) # None
    PROVE  c \in Collected(p)
  <1> DEFINE d == Above(c)
  <1>1. c # <<>> /\ Len(p) \in Nat /\ Len(c) \in Nat /\ Len(p) < Len(c)
    BY UnderIsPre, PathLen
  <1>2. d \in Paths /\ Len(d) = Len(c) - 1 /\ d = Pre(c, Len(c) - 1)
    BY <1>1, AboveType
  <1>3. Base(c) = c[Len(c)] /\ Pre(c, Len(c)) = c
    BY PreWhole DEF Base
  <1> HIDE DEF d
  <1>4. ASSUME NEW i \in 0 .. Len(c) - 1 PROVE Pre(d, i) = Pre(c, i)
    <2>1. Len(c) - 1 \in 0 .. Len(c)
      BY <1>1
    <2>2. Pre(Pre(c, Len(c) - 1), i) = Pre(c, i)
      BY <2>1, PreOfPre
    <2> QED BY <1>2, <2>2
  <1>5. ASSUME NEW i \in 1 .. Len(c) - 1 PROVE d[i] = c[i]
    <2>1. Len(c) - 1 \in 0 .. Len(c)
      BY <1>1
    <2>2. Pre(c, Len(c) - 1)[i] = c[i]
      BY <2>1, PreType
    <2> QED BY <1>2, <2>2
  <1>6. ASSUME NEW i \in Len(p) + 1 .. Len(c)
        PROVE  /\ IsDir(lookup(Pre(c, i - 1))) /\ c[i] \in Listed(Pre(c, i - 1))
               /\ lookup(Pre(c, i)) # None
    <2>1. CASE i = Len(c)
      BY <1>2, <1>3, <2>1 DEF d
    <2>2. CASE i # Len(c)
      <3>1. /\ i \in Len(p) + 1 .. Len(d) /\ i \in 0 .. Len(c) - 1 /\ i - 1 \in 0 .. Len(c) - 1
            /\ i \in 1 .. Len(c) - 1 /\ Len(d) # Len(p)
        BY <1>1, <1>2, <2>2
      <3>2. d \in Collected(p)
        BY <3>1 DEF d
      <3>3. IsDir(lookup(Pre(d, i - 1))) /\ d[i] \in Listed(Pre(d, i - 1)) /\ lookup(Pre(d, i)) # None
        BY <3>1, <3>2 DEF Collected, Pre
      <3> QED BY <1>4, <1>5, <3>1, <3>3
    <2> QED BY <2>1, <2>2
  <1> QED BY <1>6 DEF Collected, Pre

\* collect finds nodes below p, with the directories that lead to them.
LEMMA CollectedAt ==
    ASSUME Inv, NEW p \in Paths, NEW q \in Collected(p)
    PROVE  /\ q \in Paths /\ Below(p, q) /\ View(overlay)[q] # None
           /\ Above(q) = p \/ Above(q) \in Collected(p)
           /\ IsDir(View(overlay)[p])
  <1> DEFINE L == View(overlay)
  <1>1. q \in Paths /\ Below(p, q)
    BY DEF Collected
  <1>2. /\ Len(p) \in Nat /\ Len(q) \in Nat /\ Len(p) < Len(q) /\ Pre(q, Len(p)) = p /\ q # <<>>
        /\ \A i \in 0 .. Len(q) : Pre(q, i) \in Paths
    BY <1>1, UnderIsPre, PathLen, PreType
  <1>3. ASSUME NEW i \in Len(p) + 1 .. Len(q)
        PROVE  /\ IsDir(lookup(Pre(q, i - 1))) /\ q[i] \in Listed(Pre(q, i - 1))
               /\ lookup(Pre(q, i)) # None
    BY DEF Collected, Pre
  <1>4. L[q] # None
    <2>1. Len(q) \in Len(p) + 1 .. Len(q)
      BY <1>2
    <2>2. lookup(Pre(q, Len(q))) # None
      BY <1>3, <2>1
    <2> QED BY <1>1, <2>2, PreWhole, LookupAt
  <1>5. IsDir(L[p])
    <2>1. Len(p) + 1 \in Len(p) + 1 .. Len(q) /\ (Len(p) + 1) - 1 = Len(p)
      BY <1>2
    <2>2. IsDir(lookup(Pre(q, Len(p))))
      BY <1>3, <2>1
    <2> QED BY <1>2, <2>2, LookupAt
  <1>6. Above(q) = p \/ Above(q) \in Collected(p)
    <2> DEFINE d == Above(q)
    <2>1. d \in Paths /\ Len(d) = Len(q) - 1 /\ d = Pre(q, Len(q) - 1) /\ Under(p, d)
      BY <1>1, <1>2, AboveType, UnderAbove
    <2>2. Under(d, q)
      BY <1>1, <1>2, UnderAbove DEF Under
    <2> HIDE DEF d
    <2>3. ASSUME d # p PROVE d \in Collected(p)
      BY <2>1, <2>2, <2>3, CollectedPrefix DEF Under
    <2> QED BY <2>3 DEF d
  <1> QED BY <1>1, <1>4, <1>5, <1>6

\* The concealed entries below p that collect does not find.
Forgotten(p) == {c \in Concealed : Below(p, c) /\ c \notin Collected(p)}

LEMMA ConcealedPaths == Concealed \subseteq Paths
  BY BaseAssumption DEF Concealed

\* collect finds all a session sees below p, but for what is forgotten.
LEMMA SeenIsCollected ==
    ASSUME Inv, NEW p \in Paths, p # <<>>, NEW q \in Paths, Below(p, q), Shown(View(overlay), q),
           q \notin Collected(p)
    PROVE  Lost(Forgotten(p), q)
  <1> DEFINE L == View(overlay)
             T == {i \in Len(p) + 1 .. Len(q) : Pre(q, i) \notin Collected(p)}
  <1>1. Good(L, kids, Now) /\ Now \subseteq Concealed /\ L[q] # None /\ ~L[q].hidden
    BY DEF Inv, Shown
  <1>2. /\ Len(p) \in Nat /\ Len(q) \in Nat /\ Len(p) # 0 /\ Len(p) < Len(q) /\ q # <<>>
        /\ Pre(q, Len(p)) = p /\ Pre(q, Len(q)) = q
    BY UnderIsPre, PathLen, PreWhole
  <1>3. PICK j \in T : \A i \in T : j <= i
    <2>1. T \in SUBSET Nat
      BY <1>2
    <2>2. Len(q) \in T
      BY <1>2
    <2> HIDE DEF T
    <2> QED BY <2>1, <2>2, LeastNumber
  <1>4. /\ j \in Len(p) + 1 .. Len(q) /\ Pre(q, j) \notin Collected(p) /\ j \in 0 .. Len(q) /\ j \in Nat
        /\ j # 0 /\ j - 1 # 0 /\ j - 1 \in 0 .. Len(q) /\ j - 1 \in 0 .. j /\ Len(p) \in 0 .. j
        /\ Len(p) < j /\ j <= Len(q)
    BY <1>2, <1>3
  <1>5. j - 1 = Len(p) \/ Pre(q, j - 1) \in Collected(p)
    <2>1. j - 1 \notin T
      BY <1>3, <1>4
    <2> QED BY <1>2, <1>4, <2>1
  <1> DEFINE c == Pre(q, j)
  <1>6. c \in Paths /\ Len(c) = j /\ Pre(c, j - 1) = Pre(q, j - 1) /\ Pre(c, Len(p)) = p
    BY <1>2, <1>4, PreType, PreOfPre
  <1>7. Shown(L, c)
    <2>1. CASE j = Len(q)
      BY <1>2, <2>1
    <2>2. CASE j # Len(q)
      <3>1. j \in 1 .. Len(q) - 1
        BY <1>4, <2>2
      <3>2. IsDir(L[c])
        BY <1>1, <3>1, AncestorsAreDirs
      <3> QED BY <1>1, <1>6, <3>2, EntryAt
    <2> QED BY <2>1, <2>2
  <1>8. c \notin Collected(p) /\ Under(c, q)
    BY <1>4, <1>6, UnderIsPre
  <1> HIDE DEF c, T
  <1>9. Below(p, c) /\ c # <<>>
    BY <1>4, <1>6, UnderIsPre
  <1>10. Above(c) \in Paths /\ Len(Above(c)) = j - 1 /\ Above(c) = Pre(q, j - 1)
    BY <1>6, <1>9, AboveType
  <1>11. Above(c) # <<>> /\ (Above(c) = p \/ Above(c) \in Collected(p))
    <2>1. Above(c) # <<>>
      BY <1>4, <1>10, PathLen
    <2> QED BY <1>2, <1>5, <1>10, <2>1
  <1> HIDE DEF L
  <1>12. L[c] # None /\ IsDir(L[Above(c)]) /\ L[Above(c)] # None
    BY <1>1, <1>6, <1>7, <1>9, <1>11, GoodAt DEF Shown, Housed, IsDir
  <1>13. lookup(c) = L[c] /\ lookup(Above(c)) = L[Above(c)]
    BY <1>6, <1>10, LookupAt DEF L
  <1>14. ~IsListed(L, kids, c)
    <2> SUFFICES ASSUME IsListed(L, kids, c) PROVE FALSE
      OBVIOUS
    <2>1. Base(c) \in Listed(Above(c))
      BY <1>13 DEF IsListed, Listed
    <2> QED BY <1>6, <1>8, <1>9, <1>11, <1>12, <1>13, <2>1, CollectedStep
  <1>15. c \in Now
    BY <1>6, <1>7, <1>9, <1>12, <1>14 DEF Now, UnlistedIn, L
  <1>16. c \in Forgotten(p)
    BY <1>1, <1>8, <1>9, <1>15 DEF Forgotten
  <1> QED BY <1>8, <1>16 DEF Lost

LEMMA CollectedIsWhole ==
    ASSUME Inv, NEW p \in Paths, p # <<>>, NEW r \in Paths, Shown(View(overlay), p),
           \A q \in Collected(p) : Target(p, r, q) \in Paths
    PROVE  Whole(View(overlay), p, r, Collected(p) \cup {p}, Forgotten(p))
  <1> DEFINE L == View(overlay)
             Q == Collected(p) \cup {p}
  <1>1. ASSUME NEW q \in Q
        PROVE  /\ q \in Paths /\ Under(p, q) /\ L[q] # None /\ Target(p, r, q) \in Paths
               /\ q = p \/ Above(q) \in Q
    <2>1. CASE q = p
      BY <2>1, TargetTop DEF Under, Shown
    <2>2. CASE q \in Collected(p)
      <3>1. q \in Paths /\ Below(p, q) /\ L[q] # None /\ (Above(q) = p \/ Above(q) \in Collected(p))
        BY <2>2, CollectedAt
      <3> QED BY <2>2, <3>1 DEF Under
    <2> QED BY <2>1, <2>2
  <1>2. ASSUME NEW q \in Paths, Under(p, q), Shown(L, q) PROVE q \in Q \/ Lost(Forgotten(p), q)
    BY <1>2, SeenIsCollected DEF Under
  <1>5. ASSUME NEW q \in Q PROVE ~Lost(Forgotten(p), q)
    <2> SUFFICES ASSUME NEW c \in Forgotten(p), Under(c, q) PROVE FALSE
      BY DEF Lost
    <2>1. c \in Paths /\ Below(p, c) /\ c \notin Collected(p)
      BY ConcealedPaths DEF Forgotten
    <2>2. CASE q = p
      <3>1. Len(p) < Len(c) /\ Len(c) <= Len(p) /\ Len(p) \in Nat /\ Len(c) \in Nat
        BY <2>1, <2>2, UnderIsPre, PathLen
      <3> QED BY <3>1
    <2>3. CASE q \in Collected(p)
      BY <2>1, <2>3, CollectedPrefix
    <2> QED BY <2>2, <2>3
  <1> HIDE DEF L, Q
  <1>3. p \in Q
    BY DEF Q
  <1>4. Whole(L, p, r, Q, Forgotten(p))
    BY <1>1, <1>2, <1>3, <1>5 DEF Whole
  <1> QED BY <1>4 DEF L, Q

\* What the directories learn of a rename, whatever the order of the walk.
LEMMA MovedAreListed ==
    ASSUME Inv, NEW p \in Paths, NEW r \in Paths, NEW Q, NEW X, NEW early, Movable(View(overlay), p, r),
           Q = Collected(p) \cup {p}, Whole(View(overlay), p, r, Q, X), early \subseteq Collected(p)
    PROVE  /\ Grows(kids, MovedKids(p, r, early))
           /\ \A t \in Places(p, r, Q) : IsListed(MoveIn(View(overlay), p, r, Q), MovedKids(p, r, early), t)
  <1> DEFINE L == View(overlay)
             M == MoveIn(L, p, r, Q)
             N == Places(p, r, Q)
             new == {Target(p, r, q) : q \in early}
             seen(t) == IF t = r \/ t \in new
                        THEN LookupIn(Removed(p), Above(t))
                        ELSE lookup(Above(Target(r, p, t)))
             adds(d) == {t \in N : Above(t) = d /\ ~(seen(t) # None /\ Base(t) \in seen(t).children)}
             m == MovedKids(p, r, early)
  <1>1. Good(L, kids, Now) /\ DOMAIN overlay \subseteq Paths /\ kids \in [Paths -> SUBSET Names]
    BY DEF Inv, Good
  <1>2. m = [d \in Paths |-> kids[d] \cup {Base(t) : t \in adds(d)}]
    BY DEF MovedKids, Places
  <1>3. ASSUME NEW t \in N
        PROVE  t \in Paths /\ Under(r, t) /\ t # <<>> /\ Above(t) \in Paths /\ Base(t) \in Names
    <2>1. t \in Paths /\ Under(r, t)
      BY PlacesPaths
    <2>2. t # <<>>
      BY <2>1, UnderIsPre DEF Under, Movable
    <2> QED BY <2>1, <2>2, AboveType
  <1> HIDE DEF m, seen, L, N
  <1>4. ASSUME NEW d \in Paths PROVE {Base(t) : t \in adds(d)} \subseteq Names
    BY <1>3
  <1>5. Grows(kids, m)
    <2> HIDE DEF adds
    <2> QED BY <1>1, <1>2, <1>4 DEF Grows
  <1>6. ASSUME NEW t \in N PROVE seen(t) = M[Above(t)] \/ seen(t) = None \/ seen(t).children = {}
    <2>1. p # <<>> /\ r # <<>> /\ r # p /\ ~Below(p, r) /\ ~IsDir(L[r])
      BY DEF Movable, L
    <2>2. ASSUME NEW d \in Paths
          PROVE  LookupIn(Removed(p), d) = IF Under(p, d) THEN None ELSE L[d]
      <3>1. View(Removed(p)) = DeleteIn(View(overlay), p)
        BY <1>1, <2>1, ViewRemoved
      <3>2. View(Removed(p))[d] = LookupIn(Removed(p), d)
        BY DEF View
      <3> QED BY <3>1, <3>2 DEF DeleteIn, L
    <2>3. ASSUME NEW d \in Paths
          PROVE  M[d] = IF d \in N THEN L[Target(r, p, d)] ELSE IF Under(p, d) THEN None ELSE L[d]
      BY DEF MoveIn, N
    <2>4. CASE t = r
      <3>1. seen(t) = LookupIn(Removed(p), Above(r))
        BY <2>4 DEF seen
      <3>2. Above(r) \in Paths /\ ~Under(r, Above(r)) /\ ~Below(r, r)
        BY <2>1, AboveType, UnderAbove, UnderIsPre
      <3>3. Above(r) \notin N
        BY <1>3, <3>2
      <3>4. M[Above(r)] = IF Under(p, Above(r)) THEN None ELSE L[Above(r)]
        BY <2>3, <3>2, <3>3
      <3> QED BY <2>2, <2>4, <3>1, <3>2, <3>4
    <2>5. CASE t # r /\ t \in new
      <3>1. seen(t) = LookupIn(Removed(p), Above(t))
        BY <2>5 DEF seen
      <3>2. Above(t) \in Paths /\ Under(r, Above(t))
        BY <1>3, <2>5, UnderAbove DEF Under
      <3>3. L[Above(t)] = None \/ L[Above(t)].children = {}
        <4>1. CASE Above(t) = r
          <5>1. L[r] # None => Proper(L[r]) /\ ~L[r].dir
            BY <1>1, <2>1, GoodAt DEF IsDir
          <5> QED BY <4>1, <5>1 DEF Proper
        <4>2. CASE Below(r, Above(t))
          BY <1>1, <2>1, <3>2, <4>2, NothingBelow
        <4> QED BY <3>2, <4>1, <4>2 DEF Under
      <3> QED BY <2>2, <3>1, <3>2, <3>3
    <2>6. CASE t # r /\ t \notin new
      <3>1. seen(t) = lookup(Above(Target(r, p, t)))
        BY <2>6 DEF seen
      <3>2. Accompanied(p, r, Q, t, Target(r, p, t))
        BY <2>6, PlaceAbove DEF N, L
      <3> DEFINE q == Target(r, p, t)
      <3>3. Above(t) \in N /\ Target(r, p, Above(t)) = Above(q) /\ Above(q) \in Q
        BY <3>2 DEF Accompanied, N
      <3>4. Above(q) \in Paths
        BY <3>3 DEF Whole
      <3>5. lookup(Above(q)) = L[Above(q)]
        BY <3>4, LookupAt DEF L
      <3> HIDE DEF q
      <3>6. M[Above(t)] = L[Above(q)]
        <4> DEFINE d == Above(t)
        <4>1. d \in N /\ d \in Paths /\ Target(r, p, d) = Above(q)
          BY <1>3, <3>3
        <4> HIDE DEF d
        <4>2. M[d] = L[Target(r, p, d)]
          BY <2>3, <4>1
        <4> QED BY <4>1, <4>2 DEF d
      <3> QED BY <3>1, <3>5, <3>6 DEF q
    <2> QED BY <2>4, <2>5, <2>6
  <1> HIDE DEF M
  <1>7. ASSUME NEW t \in N PROVE IsListed(M, m, t)
    <2>1. CASE seen(t) # None /\ Base(t) \in seen(t).children
      <3>1. seen(t) = M[Above(t)]
        BY <1>6, <2>1
      <3> QED BY <2>1, <3>1 DEF IsListed
    <2>2. CASE ~(seen(t) # None /\ Base(t) \in seen(t).children)
      <3>1. t \in adds(Above(t))
        BY <2>2
      <3> HIDE DEF adds
      <3>2. Base(t) \in m[Above(t)]
        BY <1>2, <1>3, <3>1
      <3> QED BY <3>2 DEF IsListed
    <2> QED BY <2>1, <2>2
  <1> QED BY <1>5, <1>7 DEF m, M, N, L

LEMMA RenameSettles == ASSUME Inv, NEW p \in Paths, NEW r \in Paths, Rename(p, r) PROVE Settled
  <1> DEFINE L == View(overlay)
             Q == Collected(p) \cup {p}
             N == Places(p, r, Q)
             gone == Removed(p)
  <1>1. Good(L, kids, Now) /\ DOMAIN overlay \subseteq Paths /\ stuck \in BOOLEAN
    BY DEF Inv
  <1>2. /\ visible(p) # None /\ r # p /\ p # <<>> /\ ~Below(p, r) /\ ~IsDir(visible(r))
        /\ r # <<>> /\ IsDir(visible(Above(r)))
        /\ \A q \in Collected(p) : Target(p, r, q) \in Paths
        /\ UNCHANGED stuck
    BY DEF Rename, CanCreate
  <1>3. Above(r) \in Paths
    BY <1>2, AboveType
  <1>4. Shown(L, p) /\ Movable(L, p, r)
    <2>1. Shown(L, p) /\ ~IsDir(L[r]) /\ IsDir(L[Above(r)])
      BY <1>1, <1>2, <1>3, VisibleAt
    <2> QED BY <1>2, <2>1 DEF Movable
  <1>5. Whole(L, p, r, Q, Forgotten(p))
    BY <1>2, <1>4, CollectedIsWhole
  <1>6. (IF lookup(p).dir THEN Collected(p) \cup {p} ELSE {p}) = Q
    <2>1. CASE lookup(p).dir
      BY <2>1
    <2>2. CASE ~lookup(p).dir
      <3>1. ~IsDir(L[p])
        BY <2>2, LookupAt DEF IsDir
      <3>2. Collected(p) = {}
        BY <3>1, CollectedAt
      <3> QED BY <2>2, <3>2
    <2> QED BY <2>1, <2>2
  <1>7. PICK early \in SUBSET Collected(p) : kids' = MovedKids(p, r, early)
    BY DEF Rename
  <1>8. overlay' = [t \in DOMAIN gone \cup N |-> IF t \in N THEN lookup(Target(r, p, t)) ELSE gone[t]]
    BY <1>6 DEF Rename, Places
  <1>9. View(gone) = DeleteIn(L, p) /\ DOMAIN gone \subseteq Paths
    BY <1>1, <1>2, ViewRemoved
  <1>10. ASSUME NEW t \in N PROVE t \in Paths /\ lookup(Target(r, p, t)) = L[Target(r, p, t)]
    <2>1. t \in Paths /\ Target(r, p, t) \in Q
      BY <1>5, PlacesPaths
    <2>2. Target(r, p, t) \in Paths
      BY <1>5, <2>1 DEF Whole
    <2> QED BY <2>1, <2>2, LookupAt
  <1> HIDE DEF gone, N, L
  <1>11. DOMAIN overlay' = DOMAIN gone \cup N
    BY <1>8
  <1>12. View(overlay') = MoveIn(L, p, r, Q)
    <2>1. ASSUME NEW t \in Paths
          PROVE  LookupIn(overlay', t) = IF t \in N THEN L[Target(r, p, t)]
                                         ELSE IF Under(p, t) THEN None ELSE L[t]
      <3>1. CASE t \in N
        <4>1. t \in DOMAIN overlay' /\ overlay'[t] = lookup(Target(r, p, t))
          BY <1>8, <1>11, <3>1
        <4> QED BY <1>10, <3>1, <4>1 DEF LookupIn
      <3>2. CASE t \notin N
        <4>1. LookupIn(overlay', t) = LookupIn(gone, t)
          BY <1>8, <1>11, <3>2 DEF LookupIn
        <4>2. View(gone)[t] = LookupIn(gone, t)
          BY DEF View
        <4> QED BY <1>9, <3>2, <4>1, <4>2 DEF DeleteIn
      <3> QED BY <3>1, <3>2
    <2> QED BY <2>1 DEF View, MoveIn, N
  <1>13. DOMAIN overlay' \subseteq Paths
    BY <1>9, <1>10, <1>11
  <1>14. /\ Grows(kids, kids')
         /\ \A t \in Places(p, r, Q) : IsListed(MoveIn(L, p, r, Q), kids', t)
    <2>1. early \subseteq Collected(p) /\ Movable(View(overlay), p, r) /\ Whole(View(overlay), p, r, Q, Forgotten(p))
      BY <1>4, <1>5 DEF L
    <2> HIDE DEF Q
    <2>2. Q = Collected(p) \cup {p}
      BY DEF Q
    <2> QED BY <1>7, <2>1, <2>2, MovedAreListed DEF L
  <1>15. Effect(L, MoveIn(L, p, r, Q), kids', Now)
    <2>1. Forgotten(p) \in SUBSET Concealed /\ \A c \in Forgotten(p) : Below(p, c) /\ c \in Paths
      BY ConcealedPaths DEF Forgotten
    <2> HIDE DEF Q
    <2> QED BY <1>1, <1>4, <1>5, <1>14, <2>1, MoveEffect
  <1> QED BY <1>1, <1>2, <1>12, <1>13, <1>15 DEF Settled, L

-----------------------------------------------------------------------------
(* The invariant and the refinement *)

LEMMA InitGood == Init => Inv
  <1> SUFFICES ASSUME Init PROVE Inv
    OBVIOUS
  <1> DEFINE L == View(overlay)
  <1>1. overlay = <<>> /\ kids = [p \in Paths |-> {}] /\ stuck = FALSE
    BY DEF Init
  <1>2. DOMAIN overlay = {}
    BY <1>1
  <1>3. \A p \in Paths : L[p] = IF p \in DOMAIN BaseFs THEN BaseFs[p] ELSE None
    BY <1>2 DEF View, LookupIn
  <1>4. L \in [Paths -> Node \cup {None}]
    <2>1. \A p \in Paths : L[p] \in Node \cup {None}
      BY <1>3, BaseAssumption
    <2> QED BY <2>1 DEF View
  <1> HIDE DEF L
  <1>5. L[<<>>] # None => IsDir(L[<<>>])
    <2>1. <<>> \in Paths /\ <<>> \in DOMAIN BaseFs /\ BaseFs[<<>>].dir /\ BaseFs[<<>>] \in Node
      BY RootIsPath, BaseAssumption
    <2> QED BY <1>3, <2>1, NodeIsSomething DEF IsDir
  <1>6. ASSUME NEW p \in Paths, L[p] # None
        PROVE  Proper(L[p]) /\ (p # <<>> => Housed(L, p))
    <2>1. p \in DOMAIN BaseFs /\ L[p] = BaseFs[p] /\ BaseFs[p] \in Node
      BY <1>3, <1>6, BaseAssumption
    <2>2. IF BaseFs[p].dir THEN ~BaseFs[p].hidden /\ BaseFs[p].content = {} ELSE BaseFs[p].children = {}
      BY <2>1, BaseAssumption
    <2>3. Proper(L[p])
      BY <2>1, <2>2 DEF Proper
    <2>4. ASSUME p # <<>> PROVE Housed(L, p)
      <3>1. Above(p) \in DOMAIN BaseFs /\ BaseFs[Above(p)].dir
        BY <2>1, <2>4, BaseAssumption DEF Above
      <3>2. Above(p) \in Paths /\ L[Above(p)] = BaseFs[Above(p)] /\ L[Above(p)] # None
        BY <1>3, <2>4, <3>1, AboveType, BaseAssumption, NodeIsSomething
      <3> QED BY <3>1, <3>2 DEF IsDir, Housed
    <2> QED BY <2>3, <2>4
  <1>7. kids \in [Paths -> SUBSET Names]
    BY <1>1
  <1>8. \A p \in Paths \ {<<>>} : L[p] # None /\ ~L[p].hidden => InList(L, kids, Now, p)
    BY DEF Now, UnlistedIn, InList, Shown, L
  <1>9. Good(L, kids, Now)
    BY <1>4, <1>5, <1>6, <1>7, <1>8 DEF Good
  <1>10. ASSUME NEW p \in Now PROVE p \in Concealed
    <2>1. p \in Paths /\ p # <<>> /\ L[p] # None /\ L[Above(p)] # None /\ ~IsListed(L, kids, p)
      BY DEF Now, UnlistedIn, Shown, L
    <2>2. p \in DOMAIN BaseFs /\ Above(p) \in Paths
      BY <1>3, <2>1, AboveType
    <2>3. L[Above(p)] = BaseFs[Above(p)]
      BY <1>3, <2>1, <2>2
    <2>4. Base(p) \notin BaseFs[Above(p)].children
      BY <2>1, <2>3 DEF IsListed
    <2> QED BY <2>1, <2>2, <2>4 DEF Concealed
  <1> QED BY <1>1, <1>2, <1>9, <1>10 DEF Inv, L

\* Every command and every request settles.
LEMMA NextSettles == ASSUME Inv, Next PROVE Settled
  <1>1. CASE \E p \in Paths, f \in BOOLEAN : CreateFile(p, f)
    BY <1>1, CreateFileSettles
  <1>2. CASE \E p \in Paths, f \in BOOLEAN : Remove(p, f)
    BY <1>2, RemoveSettles
  <1>3. CASE \E p \in Paths : SetSize(p)
    BY <1>3, SetSizeSettles
  <1>4. CASE \E p \in Paths : Mkdir(p)
    BY <1>4, MkdirSettles
  <1>5. CASE \E p, r \in Paths : Rename(p, r)
    BY <1>5, RenameSettles
  <1>6. CASE \E p \in Paths, d \in Data, f \in BOOLEAN : WriteFile(p, d, f)
    BY <1>6, WriteFileSettles
  <1>7. CASE \E p \in Paths, f \in BOOLEAN : Rm(p, f)
    BY <1>7, RmSettles
  <1>8. CASE \E p \in Paths, f \in BOOLEAN : MkdirP(p, f)
    BY <1>8, MkdirPSettles
  <1>9. CASE \E p \in Paths : Touch(p)
    BY <1>9, TouchSettles
  <1>10. CASE \E p \in Paths : Chmod(p)
    BY <1>10, ChmodSettles
  <1>11. CASE \E p, r \in Paths : Cp(p, r)
    BY <1>11, CpSettles
  <1>12. CASE \E p, r \in Paths : Mv(p, r)
    BY <1>12, MvSettles
  <1>13. Sftp \/ Shell
    BY DEF Next
  <1> QED BY <1>1, <1>2, <1>3, <1>4, <1>5, <1>6, <1>7, <1>8, <1>9, <1>10, <1>11, <1>12, <1>13
          DEF Sftp, Shell

\* What is unlisted in a good table is what is excused.
LEMMA UnlistedExcused ==
    ASSUME NEW L, NEW k, NEW Z, Good(L, k, Z)
    PROVE  UnlistedIn(L, k) \subseteq Z /\ Good(L, k, UnlistedIn(L, k))
  <1>1. ASSUME NEW p \in UnlistedIn(L, k) PROVE p \in Z
    <2>1. p \in Paths /\ p # <<>> /\ Shown(L, p) /\ L[Above(p)] # None /\ ~IsListed(L, k, p)
      BY DEF UnlistedIn
    <2> QED BY <2>1, GoodAt DEF Shown, InList
  <1>2. ASSUME NEW p \in Paths \ {<<>>}, L[p] # None
        PROVE  Housed(L, p) /\ (~L[p].hidden => InList(L, k, UnlistedIn(L, k), p))
    BY <1>2, GoodAt DEF UnlistedIn, InList, Shown
  <1> QED BY <1>1, <1>2 DEF Good

LEMMA SettledKeeps == ASSUME Inv, Settled PROVE Inv' /\ Now' \subseteq Now
  <1> DEFINE M == View(overlay')
             m == kids'
  <1>1. Good(M, m, Now) /\ DOMAIN overlay' \subseteq Paths /\ stuck' \in BOOLEAN
    BY DEF Settled, Effect
  <1>2. UnlistedIn(M, m) \subseteq Now /\ Good(M, m, UnlistedIn(M, m))
    <2> HIDE DEF M, m
    <2> QED BY <1>1, UnlistedExcused
  <1>3. Now' = UnlistedIn(M, m)
    BY DEF Now
  <1>4. Now \subseteq Concealed
    BY DEF Inv
  <1> QED BY <1>1, <1>2, <1>3, <1>4 DEF Inv

LEMMA InvHolds == Spec => []Inv
  <1>1. Inv /\ [Next]_vars => Inv'
    <2>1. ASSUME Inv, Next PROVE Inv'
      BY <2>1, NextSettles, SettledKeeps
    <2>2. ASSUME Inv, UNCHANGED vars PROVE Inv'
      BY <2>2 DEF Inv, Now, vars
    <2> QED BY <2>1, <2>2
  <1> QED BY <1>1, InitGood, PTL DEF Spec

\* The table's unlisted paths are the ones of the session.
UnlistedAgrees == \A p \in Paths : Unlisted(p) <=> p \in Now

LEMMA UnlistedIsNow == Inv => UnlistedAgrees
  <1> SUFFICES ASSUME Inv, NEW p \in Paths, p # <<>>
               PROVE  (visible(p) # None /\ visible(Above(p)) # None /\ Base(p) \notin Listed(Above(p)))
                      <=> p \in Now
    BY DEF UnlistedAgrees, Unlisted, Now, UnlistedIn
  <1> DEFINE L == View(overlay)
             d == Above(p)
  <1>1. Good(L, kids, Now)
    BY DEF Inv
  <1>2. d \in Paths
    BY AboveType
  <1> HIDE DEF L, d
  <1>3. (visible(p) # None <=> Shown(L, p)) /\ (visible(d) # None <=> Shown(L, d))
    BY <1>1, <1>2, VisibleAt DEF L
  <1>4. Shown(L, p) /\ L[d] # None => Shown(L, d)
    <2> HAVE Shown(L, p) /\ L[d] # None
    <2>1. IsDir(L[d])
      BY <1>1, GoodAt DEF Shown, Housed, d
    <2> QED BY <1>1, <1>2, <2>1, EntryAt
  <1>5. Base(p) \in Listed(d) <=> IsListed(L, kids, p)
    BY <1>2, LookupAt DEF Listed, IsListed, L, d
  <1>6. p \in Now <=> Shown(L, p) /\ L[d] # None /\ ~IsListed(L, kids, p)
    BY DEF Now, UnlistedIn, L, d
  <1>7. Shown(L, d) => L[d] # None
    BY DEF Shown
  <1> QED BY <1>3, <1>4, <1>5, <1>6, <1>7 DEF d

\* Base, overlay, tombstones and added children are one tree, whatever commands
\* and requests changed it: whatever a lookup finds is in a directory that is
\* there, unless that was the root; and the directory lists it, unless the base
\* conceals it and it was there from the start.
THEOREM TreeIsSound == Spec => TreeSound
  <1>1. ASSUME Inv PROVE TypeOK
    <2> DEFINE L == View(overlay)
    <2>1. Good(L, kids, Now) /\ DOMAIN overlay \subseteq Paths /\ stuck \in BOOLEAN
      BY <1>1 DEF Inv
    <2>2. ASSUME NEW p \in DOMAIN overlay, overlay[p] # None
          PROVE  overlay[p] \in Node /\ (~overlay[p].dir => overlay[p].children = {})
      <3>1. p \in Paths /\ L[p] = overlay[p]
        BY <2>1, <2>2 DEF View, LookupIn
      <3> HIDE DEF L
      <3> QED BY <2>1, <2>2, <3>1, GoodAt DEF Proper
    <2> QED BY <2>1, <2>2 DEF TypeOK, Good
  <1>2. ASSUME Inv PROVE SingleTree
    <2> DEFINE L == View(overlay)
    <2>1. Good(L, kids, Now)
      BY <1>2 DEF Inv
    <2> SUFFICES ASSUME NEW p \in Paths, visible(p) # None, p # <<>>
                 PROVE  IsDir(visible(Above(p))) \/ (Above(p) = <<>> /\ visible(<<>>) = None)
      BY DEF SingleTree
    <2> HIDE DEF L
    <2>2. Above(p) \in Paths /\ <<>> \in Paths
      BY AboveType, RootIsPath
    <2>3. Shown(L, p)
      BY <2>1, VisibleAt DEF L
    <2>4. Housed(L, p)
      BY <2>1, <2>3, GoodAt DEF Shown
    <2>5. CASE IsDir(L[Above(p)])
      BY <2>1, <2>2, <2>5, VisibleAt DEF L
    <2>6. CASE Above(p) = <<>> /\ L[Above(p)] = None
      <3>1. ~Shown(L, <<>>)
        BY <2>6 DEF Shown
      <3>2. visible(<<>>) # None <=> Shown(L, <<>>)
        BY <2>1, <2>2, VisibleAt DEF L
      <3> QED BY <2>6, <3>1, <3>2
    <2> QED BY <2>4, <2>5, <2>6 DEF Housed
  <1>3. ASSUME Inv PROVE \A p \in Paths : Unlisted(p) => p \in Concealed
    BY <1>3, UnlistedIsNow DEF UnlistedAgrees, Inv
  <1>4. Inv' => UnlistedAgrees'
    BY UnlistedIsNow, PTL
  <1>5. ASSUME Inv, [Next]_vars PROVE [\A p \in Paths : Unlisted(p)' => Unlisted(p)]_vars
    <2> SUFFICES ASSUME Next PROVE \A p \in Paths : Unlisted(p)' => Unlisted(p)
      BY <1>5
    <2>1. Inv' /\ Now' \subseteq Now
      BY <1>5, NextSettles, SettledKeeps
    <2>2. UnlistedAgrees /\ UnlistedAgrees'
      BY <1>4, <1>5, <2>1, UnlistedIsNow
    <2> QED BY <2>1, <2>2 DEF UnlistedAgrees
  <1> QED BY <1>1, <1>2, <1>3, <1>5, InvHolds, PTL DEF Spec, TreeSound, ListingMatchesStat

\* What a session sees is the table's tree, before a step and after it.
SeenIn(o) ==
    [p \in Paths |->
        LET v == IF LookupIn(o, p) # None /\ LookupIn(o, p).hidden THEN None ELSE LookupIn(o, p)
        IN  IF v = None THEN None ELSE [dir |-> v.dir, content |-> v.content]]

LEMMA SeenIsTree == Seen = TreeOf(View(overlay)) /\ Seen' = TreeOf(View(overlay'))
  <1>1. ASSUME NEW o PROVE SeenIn(o) = TreeOf(View(o))
    BY DEF SeenIn, TreeOf, Shown, View
  <1>2. Seen = SeenIn(overlay) /\ Seen' = SeenIn(overlay')
    BY DEF Seen, SeenIn, visible, lookup
  <1> QED BY <1>1, <1>2

\* Base, overlay, tombstones and renames together behave as one file tree: every
\* command and every request changes what a session sees the way an operation of
\* the abstract tree does, or not at all.  What a rename loses is concealed in the
\* base, and rm -r / takes the root alone.
THEOREM OverlayImplementsTree == Spec => ImplementsFileTree
  <1>1. Init => Tree!Init
    <2> SUFFICES ASSUME Init PROVE Tree!Init
      OBVIOUS
    <2> DEFINE L == View(overlay)
    <2>1. Good(L, kids, Now)
      BY InitGood DEF Inv
    <2>2. Seen = TreeOf(L)
      BY SeenIsTree
    <2> HIDE DEF L
    <2>3. Tree!IsDirectory(TreeOf(L), <<>>) /\ IsDir(L[<<>>])
      <3>1. <<>> \in Paths /\ <<>> \in DOMAIN BaseFs /\ BaseFs[<<>>].dir /\ BaseFs[<<>>] \in Node
        BY RootIsPath, BaseAssumption
      <3>2. overlay = <<>> /\ DOMAIN overlay = {}
        BY DEF Init
      <3>3. L[<<>>] = BaseFs[<<>>]
        BY <3>1, <3>2 DEF L, View, LookupIn
      <3>4. IsDir(L[<<>>])
        BY <3>1, <3>3, NodeIsSomething DEF IsDir
      <3> QED BY <2>1, <3>1, <3>4, EntryAt
    <2>4. ASSUME NEW p \in Paths, TreeOf(L)[p] # None, p # <<>>
          PROVE  Tree!IsDirectory(TreeOf(L), Above(p))
      <3>1. L[p] # None
        BY <2>1, <2>4, EntryAt DEF Shown
      <3>2. IsDir(L[Above(p)]) /\ Above(p) \in Paths
        BY <2>1, <2>3, <2>4, <3>1, GoodAt, AboveType DEF Housed, IsDir
      <3> QED BY <2>1, <3>2, EntryAt
    <2> QED BY <2>2, <2>3, <2>4, TreeOps DEF Tree!Init
  <1>2. ASSUME Inv, Next PROVE Tree!Next \/ Seen' = Seen
    <2>1. Settled /\ Inv'
      BY <1>2, NextSettles, SettledKeeps
    <2>2. Follows(Seen, Seen')
      BY <2>1, SeenIsTree DEF Settled, Effect
    <2> QED BY <2>2 DEF Follows, Tree!Next
  <1>3. Inv /\ [Next]_vars => [Tree!Next]_Seen
    <2>1. ASSUME UNCHANGED vars PROVE Seen' = Seen
      BY <2>1 DEF vars, Seen, visible, lookup, LookupIn
    <2> QED BY <1>2, <2>1
  <1> QED BY <1>1, <1>3, InvHolds, PTL DEF Spec, ImplementsFileTree, Tree!Spec

=============================================================================
