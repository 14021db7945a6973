----------------------------- MODULE OverlayFs -----------------------------
(***************************************************************************)
(* The simulated filesystem of one connection (internal/shell: fs.go,      *)
(* vfs.go, fileops.go): a base tree shared by every session and never      *)
(* written, under an overlay of this session's own nodes and tombstones    *)
(* and a list of the children it added to each directory.  Shell commands  *)
(* and sftp requests of all channels work on it, each under Machine.mu, so *)
(* each is one step.                                                       *)
(*                                                                         *)
(* A path is the sequence of its names.  A file's content is the set of    *)
(* the pieces written to it; modes, owners, times and the one base symlink *)
(* are left out.  The base may have entries a lookup finds and no listing  *)
(* shows (ConditionalChildren), and bait that is listed and hidden.        *)
(***************************************************************************)
EXTENDS Naturals, Sequences

CONSTANTS
    Names,     \* names a path is made of
    Depth,     \* bound: the longest path
    Data,      \* pieces of file content
    BaseFs,    \* profile.fs: the base nodes, by path
    ReadOnly,  \* paths the profile does not let a session write
    None

Paths == UNION {[1 .. n -> Names] : n \in 0 .. Depth}

\* A node: Children as listed in the base, whether it is hidden bait.
Node == [dir : BOOLEAN, children : SUBSET Names, hidden : BOOLEAN, content : SUBSET Data]

NewFile(d) == [dir |-> FALSE, children |-> {}, hidden |-> FALSE, content |-> d]
NewDir     == [dir |-> TRUE, children |-> {}, hidden |-> FALSE, content |-> {}]

ASSUME DepthAssumption == Depth \in Nat
ASSUME BaseAssumption ==
    /\ None \notin Node /\ None \notin [dir : BOOLEAN, content : SUBSET Data]
    /\ DOMAIN BaseFs \subseteq Paths /\ \A p \in DOMAIN BaseFs : BaseFs[p] \in Node
    /\ <<>> \in DOMAIN BaseFs /\ BaseFs[<<>>].dir
    /\ \A p \in DOMAIN BaseFs : IF BaseFs[p].dir
                                THEN ~BaseFs[p].hidden /\ BaseFs[p].content = {}
                                ELSE BaseFs[p].children = {}
    /\ \A p \in DOMAIN BaseFs \ {<<>>} :
          LET d == SubSeq(p, 1, Len(p) - 1)
          IN  d \in DOMAIN BaseFs /\ BaseFs[d].dir

VARIABLES
    overlay,  \* the overlay's entry for each path it has: a node, or None (removed)
    kids,     \* overlayChildren
    stuck     \* a command holds Machine.mu and will never return

vars == <<overlay, kids, stuck>>

Init ==
    /\ overlay = <<>>
    /\ kids = [p \in Paths |-> {}]
    /\ stuck = FALSE

-----------------------------------------------------------------------------
(* Lookups *)

Above(p)    == SubSeq(p, 1, Len(p) - 1)
Base(p)     == p[Len(p)]
Below(p, q) == Len(q) > Len(p) /\ SubSeq(q, 1, Len(p)) = p

\* ConditionalChildren: in the base, but not in the listing of their directory.
Concealed == {p \in DOMAIN BaseFs \ {<<>>} : Base(p) \notin BaseFs[Above(p)].children}

LookupIn(o, p) ==
    IF p \in DOMAIN o THEN o[p] ELSE IF p \in DOMAIN BaseFs THEN BaseFs[p] ELSE None

lookup(p) == LookupIn(overlay, p)

\* visible: hidden bait is not there.
visible(p) == LET n == lookup(p) IN IF n # None /\ n.hidden THEN None ELSE n

IsDir(n) == n # None /\ n.dir

\* The names a directory's listing goes through.
Listed(p) == lookup(p).children \cup kids[p]

\* readDir: the entries below "." and "..".
readDir(p) ==
    IF ~IsDir(visible(p)) THEN {}
    ELSE {n \in Listed(p) : Append(p, n) \in Paths /\ visible(Append(p, n)) # None}

-----------------------------------------------------------------------------
(* Changes to the overlay *)

Set(o, p, n) == [q \in DOMAIN o \cup {p} |-> IF q = p THEN n ELSE o[q]]

\* addChild of p, with the parent looked up in o.
AddChildIn(o, k, p) ==
    LET parent == LookupIn(o, Above(p))
    IN  IF parent # None /\ Base(p) \in parent.children
        THEN k
        ELSE [k EXCEPT ![Above(p)] = @ \cup {Base(p)}]

addChild(p) == kids' = AddChildIn(overlay, kids, p)

\* remove: p and every known path that has p + "/" as a prefix, which for the
\* root is "//" and matches nothing: after rm -r / only the root is gone.
Removed(p) ==
    LET below == {q \in DOMAIN overlay \cup DOMAIN BaseFs : p # <<>> /\ Below(p, q)}
    IN  [q \in DOMAIN overlay \cup {p} \cup below |-> IF q = p \/ q \in below THEN None ELSE overlay[q]]

CanCreate(p) == p # <<>> /\ IsDir(visible(Above(p))) /\ p \notin ReadOnly

-----------------------------------------------------------------------------
(* vfs.go: requests of the sftp subsystem *)

CreateFile(p, truncate) ==
    \/ /\ visible(p) # None /\ ~visible(p).dir
       /\ p \notin ReadOnly
       /\ truncate
       /\ overlay' = Set(overlay, p, [visible(p) EXCEPT !.content = {}])
       /\ UNCHANGED <<kids, stuck>>
    \/ /\ visible(p) = None
       /\ CanCreate(p)
       /\ overlay' = Set(overlay, p, NewFile({}))
       /\ addChild(p)
       /\ UNCHANGED stuck

\* The uploaded bytes are not kept, only how many they are.
SetSize(p) ==
    /\ visible(p) # None /\ ~visible(p).dir
    /\ overlay' = Set(overlay, p, [visible(p) EXCEPT !.content = {}])
    /\ UNCHANGED <<kids, stuck>>

\* mkdirAt, for p and for every path in between that is missing.
MkdirAt(S) ==
    /\ overlay' = [q \in DOMAIN overlay \cup S |-> IF q \in S THEN NewDir ELSE overlay[q]]
    /\ kids' = [q \in Paths |->
                  kids[q] \cup {Base(p) : p \in {m \in S : Above(m) = q
                      /\ ~(q \notin S /\ lookup(q) # None /\ Base(m) \in lookup(q).children)}}]

Mkdir(p) ==
    /\ visible(p) = None
    /\ CanCreate(p)
    /\ MkdirAt({p})
    /\ UNCHANGED stuck

Remove(p, dir) ==
    /\ visible(p) # None
    /\ p # <<>> /\ p \notin ReadOnly
    /\ visible(p).dir = dir
    /\ dir => readDir(p) = {}
    /\ overlay' = Removed(p)
    /\ UNCHANGED <<kids, stuck>>

\* Mutant: the walk misses the children that come from the base.
CollectedInOverlay(p) ==
    {q \in Paths : Below(p, q) /\ \A k \in Len(p) + 1 .. Len(q) :
        LET d == SubSeq(q, 1, k - 1)
        IN  IsDir(lookup(d)) /\ q[k] \in kids[d] /\ lookup(SubSeq(q, 1, k)) # None}

\* collect: what is below p and found by walking the listings.
Collected(p) ==
    {q \in Paths : Below(p, q) /\ \A k \in Len(p) + 1 .. Len(q) :
        LET d == SubSeq(q, 1, k - 1)
        IN  IsDir(lookup(d)) /\ q[k] \in Listed(d) /\ lookup(SubSeq(q, 1, k)) # None}

Target(p, r, q) == r \o SubSeq(q, Len(p) + 1, Len(q))

\* Mutant: the moved nodes are placed, the directories do not learn of them.
RenamedKids(p, r, early) == kids

\* The nodes moved are placed in the order of a Go map: those in early before
\* the directory they go into.  addChild does not see that directory's own
\* children then and lists the node a second time.
MovedKids(p, r, early) ==
    LET gone    == Removed(p)
        new     == {Target(p, r, q) : q \in early}
        seen(t) == IF t = r \/ t \in new
                   THEN LookupIn(gone, Above(t))
                   ELSE lookup(Above(Target(r, p, t)))
        adds(d) == {t \in {Target(p, r, q) : q \in Collected(p) \cup {p}} :
                        Above(t) = d /\ ~(seen(t) # None /\ Base(t) \in seen(t).children)}
    IN  [d \in Paths |-> kids[d] \cup {Base(t) : t \in adds(d)}]

Rename(p, r) ==
    /\ visible(p) # None
    /\ r # p /\ p # <<>> /\ ~Below(p, r)
    /\ ~IsDir(visible(r))
    /\ CanCreate(r) /\ p \notin ReadOnly
    /\ \A q \in Collected(p) : Target(p, r, q) \in Paths
    /\ LET moves == IF lookup(p).dir THEN Collected(p) \cup {p} ELSE {p}
           gone  == Removed(p)
           new   == {Target(p, r, q) : q \in moves}
       IN  /\ overlay' = [t \in DOMAIN gone \cup new |->
                            IF t \in new THEN lookup(Target(r, p, t)) ELSE gone[t]]
           /\ \E early \in SUBSET Collected(p) : kids' = MovedKids(p, r, early)
    /\ UNCHANGED stuck

\* Chmod, and chmod: the session gets its own copy of the node.
Chmod(p) ==
    /\ lookup(p) # None /\ p \notin ReadOnly
    /\ overlay' = Set(overlay, p, lookup(p))
    /\ UNCHANGED <<kids, stuck>>

-----------------------------------------------------------------------------
(* Shell commands: redirections, touch, rm, mkdir, cp and mv *)

\* writeFile succeeds, and what it leaves at p.
Writes(p) ==
    /\ p # <<>> /\ IsDir(lookup(Above(p)))
    /\ p \notin ReadOnly
    /\ ~IsDir(lookup(p))

WriteFile(p, d, append) ==
    /\ Writes(p)
    /\ overlay' = Set(overlay, p, NewFile(
                      IF append /\ lookup(p) # None THEN lookup(p).content \cup {d} ELSE {d}))
    /\ addChild(p)
    /\ UNCHANGED stuck

Touch(p) ==
    /\ lookup(p) = None
    /\ Writes(p)
    /\ overlay' = Set(overlay, p, NewFile({}))
    /\ addChild(p)
    /\ UNCHANGED stuck

Rm(p, recursive) ==
    /\ lookup(p) # None
    /\ lookup(p).dir => recursive
    /\ p \notin ReadOnly
    /\ overlay' = Removed(p)
    /\ UNCHANGED <<kids, stuck>>

\* mkdir looks upwards for the first path that exists and makes the ones below
\* it.  Above a removed root it never finds one, and path.Dir("/") is "/".
MkdirP(p, parents) ==
    /\ lookup(p) = None
    /\ \/ /\ \A k \in 0 .. Len(p) : lookup(SubSeq(p, 1, k)) = None
          /\ stuck' = TRUE
          /\ UNCHANGED <<overlay, kids>>
       \/ \E k \in 0 .. Len(p) - 1 :
             LET missing == {SubSeq(p, 1, j) : j \in k + 1 .. Len(p)}
             IN  /\ \A q \in missing : lookup(q) = None
                 /\ IsDir(lookup(SubSeq(p, 1, k)))
                 /\ parents \/ missing = {p}
                 /\ SubSeq(p, 1, k + 1) \notin ReadOnly
                 /\ MkdirAt(missing)
                 /\ UNCHANGED stuck

\* The file cp and mv write: into the destination if that is a directory.
Destination(p, r) == IF IsDir(lookup(r)) THEN Append(r, Base(p)) ELSE r

Cp(p, r) ==
    LET t == Destination(p, r)
    IN  /\ lookup(p) # None /\ ~lookup(p).dir
        /\ t \in Paths /\ Writes(t)
        /\ overlay' = Set(overlay, t, NewFile(lookup(p).content))
        /\ addChild(t)
        /\ UNCHANGED stuck

\* mv copies and then removes the source, also when that is the destination.
Mv(p, r) ==
    LET t == Destination(p, r)
    IN  /\ lookup(p) # None /\ ~lookup(p).dir /\ p \notin ReadOnly
        /\ t \in Paths /\ Writes(t)
        /\ overlay' = Set(Set(overlay, t, NewFile(lookup(p).content)), p, None)
        /\ addChild(t)
        /\ UNCHANGED stuck

Sftp ==
    \/ \E p \in Paths :
          \/ \E f \in BOOLEAN : CreateFile(p, f) \/ Remove(p, f)
          \/ SetSize(p) \/ Mkdir(p)
    \/ \E p, r \in Paths : Rename(p, r)

Shell ==
    \/ \E p \in Paths :
          \/ \E d \in Data, f \in BOOLEAN : WriteFile(p, d, f)
          \/ \E f \in BOOLEAN : Rm(p, f) \/ MkdirP(p, f)
          \/ Touch(p) \/ Chmod(p)
    \/ \E p, r \in Paths : Cp(p, r) \/ Mv(p, r)

Next == ~stuck /\ (Sftp \/ Shell)

Spec == Init /\ [][Next]_vars

-----------------------------------------------------------------------------
(* Properties *)

\* Type invariant: nodes are nodes, and a file has no children.
TypeOK ==
    /\ DOMAIN overlay \subseteq Paths
    /\ \A p \in DOMAIN overlay : overlay[p] # None =>
          overlay[p] \in Node /\ (~overlay[p].dir => overlay[p].children = {})
    /\ kids \in [Paths -> SUBSET Names]
    /\ stuck \in BOOLEAN

\* The tree the session sees: what Stat and ReadFile answer at each path.
Seen == [p \in Paths |->
           LET n == visible(p)
           IN  IF n = None THEN None ELSE [dir |-> n.dir, content |-> n.content]]

Tree == INSTANCE FileTree WITH tree <- Seen

\* Base, overlay, tombstones and renames together behave as one file tree: every
\* command and every request changes it the way its abstract operation does.  A
\* directory that moves may lose entries the base conceals, and rm -r / takes the
\* root away from above what stays.
ImplementsFileTree == Tree!Spec

\* The README calls it "a single consistent filesystem tree": whatever exists is
\* in a directory that exists, or was in the root that is gone.
SingleTree ==
    \A p \in Paths : visible(p) # None /\ p # <<>> =>
        IsDir(visible(Above(p))) \/ (Above(p) = <<>> /\ visible(<<>>) = None)

\* What stat finds in a directory that does not list it (readDir shows of the
\* names listed the ones stat finds).
Unlisted(p) ==
    /\ p # <<>> /\ visible(p) # None /\ visible(Above(p)) # None
    /\ Base(p) \notin Listed(Above(p))

\* A listing shows exactly what stat finds, but for what the base conceals: no
\* entry drops out of it when it is shadowed or moved, and one that is made again
\* after a removal is listed, also where the base concealed the old one.
ListingMatchesStat ==
    /\ [](\A p \in Paths : Unlisted(p) => p \in Concealed)
    /\ [][\A p \in Paths : Unlisted(p)' => Unlisted(p)]_vars

\* Base, overlay and added children together are a tree, and its listings keep
\* up with its lookups.
TreeSound == []TypeOK /\ []SingleTree /\ ListingMatchesStat

=============================================================================
