------------------------------ MODULE FileTree ------------------------------
(***************************************************************************)
(* What the box promises the shells and file transfers that share it: one  *)
(* tree of files and directories, in which an entry is written, made,      *)
(* deleted or moved as a whole; a move may leave out entries concealed     *)
(* below the one that moves.  OverlayFs implements it.                     *)
(***************************************************************************)
EXTENDS Sequences, Naturals

CONSTANTS
    Paths, Data, None,
    Concealed   \* entries that a listing need not show

VARIABLE tree   \* what is at each path: None, or a file or directory

File(d) == [dir |-> FALSE, content |-> d]
Dir     == [dir |-> TRUE, content |-> {}]

Entry == {File(d) : d \in SUBSET Data} \cup {Dir}

Above(p)    == SubSeq(p, 1, Len(p) - 1)
Below(p, q) == Len(q) > Len(p) /\ SubSeq(q, 1, Len(p)) = p

\* p is a directory of the tree t, or an entry may be made at p.
IsDirectory(t, p) == t[p] = Dir
HasPlace(t, p)    == p # <<>> /\ IsDirectory(t, Above(p)) /\ ~IsDirectory(t, p)

\* A file is created, overwritten, appended to, truncated or resized.
CanPut(t, p) == HasPlace(t, p) \/ (t[p] # None /\ ~IsDirectory(t, p))

Put(t, p, d) == [t EXCEPT ![p] = File(d)]

\* A directory can be made, with the directories above it that are missing, under
\* the nearest one that is there.
CanMake(t, p) ==
    \E k \in 0 .. Len(p) - 1 :
        /\ IsDirectory(t, SubSeq(p, 1, k))
        /\ \A j \in k + 1 .. Len(p) : t[SubSeq(p, 1, j)] = None

MakeDirectory(t, p) ==
    [q \in Paths |-> IF q = p \/ (q # <<>> /\ Below(q, p) /\ t[q] = None) THEN Dir ELSE t[q]]

\* An entry other than the root goes, with everything below it.
Delete(t, p) == [q \in Paths |-> IF q = p \/ Below(p, q) THEN None ELSE t[q]]

\* The root goes, and nothing below it.
DropRoot(t) == [t EXCEPT ![<<>>] = None]

\* Where the entry at q comes from when p moves to r: below r, from below p.
Origin(p, r, q) == p \o SubSeq(q, Len(r) + 1, Len(q))

\* An entry moves with what is below it but for concealed entries X, which are
\* lost; it may replace a file.
CanMove(t, p, r) == t[p] # None /\ HasPlace(t, r) /\ r # p /\ ~Below(p, r)

\* q is one of the entries lost, or below one.
IsLost(X, q) == \E c \in X : q = c \/ Below(c, q)

Move(t, p, r, X) ==
    [q \in Paths |->
        IF q = r \/ Below(r, q)
        THEN IF Origin(p, r, q) \in Paths /\ ~IsLost(X, Origin(p, r, q))
             THEN t[Origin(p, r, q)] ELSE None
        ELSE IF q = p \/ Below(p, q) THEN None ELSE t[q]]

\* The step from t to u, which changes what is at the paths C.
Step(t, u, C) ==
    \/ \E p \in C, d \in SUBSET Data : CanPut(t, p) /\ u = Put(t, p, d)
    \/ \E p \in C : CanMake(t, p) /\ u = MakeDirectory(t, p)
    \/ \E p \in C : p # <<>> /\ u = Delete(t, p)
    \/ u = DropRoot(t)
    \/ \E p, r \in C, X \in SUBSET Concealed :
          /\ CanMove(t, p, r) /\ \A c \in X : Below(p, c)
          /\ u = Move(t, p, r, X)

Next ==
    \E t \in {tree}, u \in {tree'} :
        t # u /\ \E C \in {{p \in Paths : t[p] # u[p]}} : Step(t, u, C)

Init ==
    /\ IsDirectory(tree, <<>>)
    /\ \A p \in Paths : tree[p] # None => p = <<>> \/ IsDirectory(tree, Above(p))

Spec == Init /\ [][Next]_tree

=============================================================================
