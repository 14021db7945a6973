---------------------------- MODULE UploadsProofs ----------------------------
(***************************************************************************)
(* Proofs about Uploads, for any number of channels, sinks and files, and  *)
(* any limits.                                                             *)
(***************************************************************************)
EXTENDS Uploads, FiniteSetTheorems, SequenceTheorems, TLAPS

-----------------------------------------------------------------------------
(* Numbers and sets *)

\* The limits, one by one.
LEMMA Limits ==
    /\ MaxChunk \in Nat /\ MaxUploads \in Nat /\ MaxHandles \in Nat /\ MaxMutations \in Nat
    /\ DirBatch \in Nat /\ MaxFileBytes \in Nat /\ MaxSessionBytes \in Nat
    /\ MaxTransfers \in Nat /\ MaxDepth \in Nat /\ MaxFileBytes >= 1 /\ MaxDepth >= 1
    /\ IsFiniteSet(Channels) /\ IsFiniteSet(Sinks) /\ IsFiniteSet(Files)
  BY BoundsAssumption

\* A set of numbers has a least element: initial segments are finite, and finite
\* sets are well-founded under strict inclusion.
LEMMA LeastNumber ==
    ASSUME NEW T \in SUBSET Nat, T # {}
    PROVE  \E x \in T : \A y \in T : x <= y
  <1> DEFINE U == {0 .. n : n \in T}
             R == StrictSubsetOrdering(Nat)
  <1>1. U \subseteq FiniteSubsetsOf(Nat)
    <2> SUFFICES ASSUME NEW n \in T PROVE 0 .. n \in FiniteSubsetsOf(Nat)
      OBVIOUS
    <2>1. n \in Int /\ IsFiniteSet(0 .. n)
      BY FS_Interval
    <2> QED BY <2>1 DEF FiniteSubsetsOf
  <1>2. U # {}
    OBVIOUS
  <1>3. IsWellFoundedOn(R, FiniteSubsetsOf(Nat))
    BY FS_StrictSubsetOrderingWellFounded
  <1>4. PICK u \in U : \A v \in U : ~(<<v, u>> \in R)
    <2> HIDE DEF U, R
    <2> QED BY <1>1, <1>2, <1>3, WFMin
  <1>5. PICK x \in T : u = 0 .. x
    OBVIOUS
  <1>6. ASSUME NEW y \in T, y < x PROVE FALSE
    <2>1. 0 .. y \subseteq 0 .. x /\ x \in 0 .. x /\ x \notin 0 .. y
      BY <1>6
    <2>2. 0 .. y \in SUBSET Nat /\ 0 .. x \in SUBSET Nat
      OBVIOUS
    <2>3. <<0 .. y, 0 .. x>> \in R
      BY <2>1, <2>2 DEF StrictSubsetOrdering
    <2> QED BY <1>4, <1>5, <2>3
  <1> QED BY <1>6

\* Max and Min of two numbers.
LEMMA MaxOfTwo ==
    ASSUME NEW a \in Nat, NEW b \in Nat
    PROVE  Max({a, b}) = IF a >= b THEN a ELSE b
  <1> DEFINE m == IF a >= b THEN a ELSE b
  <1>1. m \in {a, b} /\ \A y \in {a, b} : m >= y
    OBVIOUS
  <1>2. \A x \in {a, b} : (\A y \in {a, b} : x >= y) => x = m
    OBVIOUS
  <1> HIDE DEF m
  <1>3. Max({a, b}) = m
    BY <1>1, <1>2 DEF Max
  <1> QED BY <1>3 DEF m

LEMMA MinOfTwo ==
    ASSUME NEW a \in Nat, NEW b \in Int
    PROVE  Min({a, b}) = IF a <= b THEN a ELSE b
  <1> DEFINE m == IF a <= b THEN a ELSE b
  <1>1. m \in {a, b} /\ \A y \in {a, b} : m <= y
    OBVIOUS
  <1>2. \A x \in {a, b} : (\A y \in {a, b} : x <= y) => x = m
    OBVIOUS
  <1> HIDE DEF m
  <1>3. Min({a, b}) = m
    BY <1>1, <1>2 DEF Min
  <1> QED BY <1>3 DEF m

\* newHandle finds a slot below sftpMaxHandles that is not in use.
LEMMA FreeSlotType ==
    ASSUME NEW c \in Channels, Slots(c) \subseteq 0 .. MaxHandles - 1, HasSlot(c)
    PROVE  FreeSlot(c) \in 0 .. MaxHandles - 1 /\ FreeSlot(c) \notin Slots(c)
  <1> DEFINE T == {h \in 0 .. MaxHandles : h \notin Slots(c)}
  <1>n. MaxHandles \in Nat
    BY Limits
  <1>1. ~(0 .. MaxHandles - 1 \subseteq Slots(c))
    <2> SUFFICES ASSUME 0 .. MaxHandles - 1 = Slots(c) PROVE FALSE
      OBVIOUS
    <2>1. Cardinality(0 .. MaxHandles - 1) = MaxHandles
      BY <1>n, FS_Interval
    <2> QED BY <1>n, <2>1 DEF HasSlot
  <1>2. PICK x \in T : \A y \in T : x <= y
    <2>1. T \in SUBSET Nat /\ T # {}
      BY <1>1, <1>n
    <2> HIDE DEF T
    <2> QED BY <2>1, LeastNumber
  <1>3. x < MaxHandles
    <2>1. PICK y \in 0 .. MaxHandles - 1 : y \notin Slots(c)
      BY <1>1
    <2>2. y \in T
      BY <1>n, <2>1
    <2> QED BY <1>2, <1>n, <2>2
  <1>4. FreeSlot(c) = x
    <2>1. \A z \in T : (\A y \in T : z <= y) => z = x
      BY <1>2, <1>n
    <2>2. FreeSlot(c) = Min(T)
      BY DEF FreeSlot
    <2> HIDE DEF T
    <2> QED BY <1>2, <2>1, <2>2 DEF Min
  <1> QED BY <1>2, <1>3, <1>4, <1>n

-----------------------------------------------------------------------------
(* The inductive invariant *)

\* What a request waiting to be carried out holds.
RequestOK(r) ==
    r # None =>
      /\ r.op \in {"open", "setstat", "rename"}
      /\ r.path \in Files
      /\ r.op = "open" => r.size \in 0 .. MaxFileBytes /\ r.write \in BOOLEAN
      /\ r.op = "setstat" => r.size \in 0 .. MaxFileBytes

SinkState == [at : {"line", "body", "ended"}, depth : 1 .. MaxDepth,
              size : 0 .. MaxFileBytes, hash : Seq(Byte)]

\* A handle's hash is over the bytes up to where the next write has to start, and
\* while it is still being taken these are the bytes the client sent.
Honest(f) ==
    /\ f.hash \in Seq(Byte) /\ Len(f.hash) = f.next
    /\ f.hashing /\ ~f.capped => f.sent = f.hash

HandlesHonest == \A c \in Channels : \A h \in Slots(c) : Honest(handles[c][h])

\* A sink has no more of a file than was declared, and nothing between two files.
SinksHonest == \A s \in Sinks :
    /\ Len(sink[s].hash) <= sink[s].size
    /\ sink[s].at # "body" => sink[s].hash = <<>>

\* The bytes that sinks have reserved and not received.
Owed == {p \in Sinks \X (1 .. MaxFileBytes) :
    sink[p[1]].at = "body" /\ Len(sink[p[1]].hash) < p[2] /\ p[2] <= sink[p[1]].size}

\* What was received and what is still owed was reserved before.
Within == received + Cardinality(Owed) <= uploadBytes /\ uploadBytes <= MaxSessionBytes

FilesOK == files \in [Files -> (0 .. MaxFileBytes) \cup {None}]

HandlesOK ==
    /\ handles = [c \in Channels |-> handles[c]]
    /\ \A c \in Channels : Slots(c) \subseteq 0 .. MaxHandles - 1
          /\ \A h \in Slots(c) : handles[c][h] \in Handle
    /\ HandlesHonest

RequestsOK ==
    /\ request = [c \in Channels |-> request[c]]
    /\ \A c \in Channels : RequestOK(request[c])
    /\ mutations \in [Channels -> 0 .. MaxMutations]
    /\ ended \subseteq Channels

SinksOK == sink \in [Sinks -> SinkState] /\ SinksHonest

SessionOK ==
    /\ transfers \in Seq(Record) /\ Len(transfers) <= MaxTransfers
    /\ uploadBytes \in Nat /\ begun \in 0 .. MaxUploads /\ received \in Nat

\* The type invariant by what each part is about, with what the bytes are, what
\* was reserved for them and how many uploads were begun.
Inv == FilesOK /\ HandlesOK /\ RequestsOK /\ SinksOK /\ SessionOK /\ Within /\ EveryUploadRecorded

-----------------------------------------------------------------------------
(* Handles *)

\* Channel c has f as its handle h, and the rest stays.
OnlySets(c, h, f) ==
    /\ handles' = [d \in Channels |-> handles'[d]]
    /\ \A d \in Channels : DOMAIN handles'[d] = IF d = c THEN Slots(c) \cup {h} ELSE Slots(d)
    /\ \A d \in Channels : \A k \in DOMAIN handles'[d] :
          handles'[d][k] = IF d = c /\ k = h THEN f ELSE handles[d][k]

\* What setting a handle changes.
LEMMA SetHandleEffect ==
    ASSUME HandlesOK, NEW c \in Channels, NEW h, NEW f, SetHandle(c, h, f)
    PROVE  OnlySets(c, h, f)
  <1>1. handles = [d \in Channels |-> handles[d]]
    BY DEF HandlesOK
  <1>2. handles' = [d \in Channels |->
           IF d = c THEN [k \in Slots(c) \cup {h} |-> IF k = h THEN f ELSE handles[c][k]] ELSE handles[d]]
    BY <1>1 DEF SetHandle
  <1> QED BY <1>2 DEF Slots, OnlySets

\* What dropping a handle changes.
LEMMA DropHandleEffect ==
    ASSUME HandlesOK, NEW c \in Channels, NEW h, DropHandle(c, h)
    PROVE  /\ handles' = [d \in Channels |-> handles'[d]]
           /\ \A d \in Channels : DOMAIN handles'[d] = IF d = c THEN Slots(c) \ {h} ELSE Slots(d)
           /\ \A d \in Channels : \A k \in DOMAIN handles'[d] : handles'[d][k] = handles[d][k]
  <1>1. handles = [d \in Channels |-> handles[d]]
    BY DEF HandlesOK
  <1>2. handles' = [d \in Channels |-> IF d = c THEN [k \in Slots(c) \ {h} |-> handles[c][k]] ELSE handles[d]]
    BY <1>1 DEF DropHandle
  <1> QED BY <1>2 DEF Slots

\* The uploads under way are finitely many.
LEMMA UploadsFinite ==
    /\ IsFiniteSet(OpenUploads) /\ IsFiniteSet(OpenSinks)
    /\ Cardinality(OpenUploads) \in Nat /\ Cardinality(OpenSinks) \in Nat
  <1>1. IsFiniteSet(0 .. MaxHandles)
    BY Limits, FS_Interval
  <1>2. IsFiniteSet(Channels \X (0 .. MaxHandles))
    BY <1>1, Limits, FS_Product
  <1>3. OpenUploads \subseteq Channels \X (0 .. MaxHandles) /\ OpenSinks \subseteq Sinks
    BY DEF OpenUploads, OpenSinks
  <1> QED BY <1>2, <1>3, Limits, FS_Subset, FS_CardinalityType

\* Whether a handle is an upload that has to be recorded.
IsUpload(f) == f.write /\ f.record

\* A handle that is set is honest or not by itself, and counts as an upload by itself.
LEMMA SetHandleKeeps ==
    ASSUME Inv, NEW c \in Channels, NEW h \in 0 .. MaxHandles - 1, NEW f \in Handle, Honest(f),
           SetHandle(c, h, f)
    PROVE  /\ HandlesOK'
           /\ OpenUploads' = IF IsUpload(f) THEN OpenUploads \cup {<<c, h>>} ELSE OpenUploads \ {<<c, h>>}
  <1>0. OnlySets(c, h, f)
    BY SetHandleEffect DEF Inv
  <1>1. /\ handles' = [d \in Channels |-> handles'[d]]
        /\ \A d \in Channels : DOMAIN handles'[d] = IF d = c THEN Slots(c) \cup {h} ELSE Slots(d)
        /\ \A d \in Channels : \A k \in DOMAIN handles'[d] :
              handles'[d][k] = IF d = c /\ k = h THEN f ELSE handles[d][k]
    BY <1>0 DEF OnlySets
  <1>2. \A d \in Channels : Slots(d) \subseteq 0 .. MaxHandles - 1 /\ \A k \in Slots(d) : handles[d][k] \in Handle
    BY DEF Inv, HandlesOK
  <1>3. \A d \in Channels : \A k \in Slots(d) : Honest(handles[d][k])
    BY DEF Inv, HandlesOK, HandlesHonest
  <1>4. \A d \in Channels : DOMAIN handles'[d] \subseteq 0 .. MaxHandles - 1
    BY <1>1, <1>2
  <1>5. \A d \in Channels : \A k \in DOMAIN handles'[d] : handles'[d][k] \in Handle /\ Honest(handles'[d][k])
    BY <1>1, <1>2, <1>3
  <1>6. HandlesOK'
    BY <1>1, <1>4, <1>5 DEF HandlesOK, HandlesHonest, Slots
  <1>7. h \in 0 .. MaxHandles
    BY Limits
  <1>8. ASSUME NEW d \in Channels, NEW k \in 0 .. MaxHandles
        PROVE  <<d, k>> \in OpenUploads' <=>
                 IF d = c /\ k = h THEN IsUpload(f) ELSE <<d, k>> \in OpenUploads
    <2>1. <<d, k>> \in OpenUploads' <=> k \in DOMAIN handles'[d] /\ handles'[d][k].write /\ handles'[d][k].record
      BY DEF OpenUploads, Slots
    <2>2. <<d, k>> \in OpenUploads <=> k \in Slots(d) /\ handles[d][k].write /\ handles[d][k].record
      BY DEF OpenUploads, Slots
    <2> QED BY <2>1, <2>2, <1>1 DEF IsUpload
  <1>9. OpenUploads \subseteq Channels \X (0 .. MaxHandles) /\ OpenUploads' \subseteq Channels \X (0 .. MaxHandles)
    BY DEF OpenUploads
  <1> QED BY <1>6, <1>7, <1>8, <1>9

\* Dropping a handle ends its upload, if it was one.
LEMMA DropHandleKeeps ==
    ASSUME Inv, NEW c \in Channels, NEW h \in Slots(c), DropHandle(c, h)
    PROVE  /\ HandlesOK'
           /\ OpenUploads' = OpenUploads \ {<<c, h>>}
           /\ <<c, h>> \in OpenUploads <=> IsUpload(handles[c][h])
  <1>1. /\ handles' = [d \in Channels |-> handles'[d]]
        /\ \A d \in Channels : DOMAIN handles'[d] = IF d = c THEN Slots(c) \ {h} ELSE Slots(d)
        /\ \A d \in Channels : \A k \in DOMAIN handles'[d] : handles'[d][k] = handles[d][k]
    BY DropHandleEffect DEF Inv
  <1>2. \A d \in Channels : Slots(d) \subseteq 0 .. MaxHandles - 1 /\ \A k \in Slots(d) : handles[d][k] \in Handle
    BY DEF Inv, HandlesOK
  <1>3. \A d \in Channels : \A k \in Slots(d) : Honest(handles[d][k])
    BY DEF Inv, HandlesOK, HandlesHonest
  <1>4. \A d \in Channels : DOMAIN handles'[d] \subseteq 0 .. MaxHandles - 1
    BY <1>1, <1>2
  <1>5. \A d \in Channels : \A k \in DOMAIN handles'[d] : handles'[d][k] \in Handle /\ Honest(handles'[d][k])
    BY <1>1, <1>2, <1>3
  <1>6. HandlesOK'
    BY <1>1, <1>4, <1>5 DEF HandlesOK, HandlesHonest, Slots
  <1>7. h \in 0 .. MaxHandles
    BY <1>2, Limits
  <1>8. ASSUME NEW d \in Channels, NEW k \in 0 .. MaxHandles
        PROVE  /\ <<d, k>> \in OpenUploads' <=> ~(d = c /\ k = h) /\ <<d, k>> \in OpenUploads
               /\ <<d, k>> \in OpenUploads <=> k \in Slots(d) /\ handles[d][k].write /\ handles[d][k].record
    <2>1. <<d, k>> \in OpenUploads' <=> k \in DOMAIN handles'[d] /\ handles'[d][k].write /\ handles'[d][k].record
      BY DEF OpenUploads, Slots
    <2>2. <<d, k>> \in OpenUploads <=> k \in Slots(d) /\ handles[d][k].write /\ handles[d][k].record
      BY DEF OpenUploads, Slots
    <2> QED BY <2>1, <2>2, <1>1
  <1>9. OpenUploads \subseteq Channels \X (0 .. MaxHandles) /\ OpenUploads' \subseteq Channels \X (0 .. MaxHandles)
    BY DEF OpenUploads
  <1>10. <<c, h>> \in OpenUploads <=> IsUpload(handles[c][h])
    BY <1>7, <1>8 DEF IsUpload
  <1> QED BY <1>6, <1>7, <1>8, <1>9, <1>10

-----------------------------------------------------------------------------
(* Bytes *)

LEMMA ChunkType ==
    ASSUME NEW data \in Chunks
    PROVE  data \in Seq(Byte) /\ Len(data) \in 0 .. MaxChunk
  <1>1. PICK n \in 0 .. MaxChunk : data \in [1 .. n -> Byte]
    BY DEF Chunks
  <1>2. n \in Nat
    BY Limits
  <1>3. data \in Seq(Byte)
    BY <1>1, <1>2, SeqDef
  <1>4. Len(data) = n
    BY <1>1, <1>2, <1>3, LenProperties
  <1> QED BY <1>3, <1>4

\* Bytes that fit into a file are a content.
LEMMA ContentOf ==
    ASSUME NEW q \in Seq(Byte), Len(q) <= MaxFileBytes
    PROVE  q \in Content
  <1>1. Len(q) \in 0 .. MaxFileBytes + 1 + MaxChunk
    BY LenProperties, Limits
  <1>2. q \in [1 .. Len(q) -> Byte \cup {None}]
    BY LenProperties
  <1> QED BY <1>1, <1>2 DEF Content

\* A write that starts where the content ends is appended to it.
LEMMA WrittenAtEnd ==
    ASSUME NEW q \in Seq(Byte), NEW data \in Seq(Byte)
    PROVE  Written(q, Len(q), data) = q \o data
  <1>1. Len(q) \in Nat /\ Len(data) \in Nat /\ (data = <<>> <=> Len(data) = 0)
    BY LenProperties, EmptySeq
  <1>2. Max({Len(q), IF data = <<>> THEN 0 ELSE Len(q) + Len(data)}) = Len(q) + Len(data)
    BY <1>1, MaxOfTwo
  <1>3. /\ q \o data \in Seq(Byte) /\ Len(q \o data) = Len(q) + Len(data)
        /\ \A i \in 1 .. Len(q) + Len(data) :
              (q \o data)[i] = IF i <= Len(q) THEN q[i] ELSE data[i - Len(q)]
    BY ConcatProperties
  <1>4. q \o data = [i \in 1 .. Len(q) + Len(data) |-> (q \o data)[i]]
    BY <1>3, LenProperties
  <1>5. \A i \in 1 .. Len(q) + Len(data) :
           (q \o data)[i] = IF Len(q) < i /\ i <= Len(q) + Len(data) THEN data[i - Len(q)]
                            ELSE IF i <= Len(q) THEN q[i] ELSE None
    BY <1>1, <1>3
  <1>6. Written(q, Len(q), data) =
           [i \in 1 .. Len(q) + Len(data) |->
              IF Len(q) < i /\ i <= Len(q) + Len(data) THEN data[i - Len(q)]
              ELSE IF i <= Len(q) THEN q[i] ELSE None]
    BY <1>2 DEF Written
  <1> QED BY <1>4, <1>5, <1>6

\* The fields of a handle.
LEMMA HandleFields ==
    ASSUME NEW f \in Handle
    PROVE  /\ f = [path |-> f.path, listing |-> f.listing, left |-> f.left, write |-> f.write,
                   hash |-> f.hash, next |-> f.next, size |-> f.size, hashing |-> f.hashing,
                   capped |-> f.capped, record |-> f.record, sent |-> f.sent]
           /\ f.path \in Files \cup {None} /\ f.listing \in BOOLEAN /\ f.left \in 0 .. Cardinality(Files)
           /\ f.write \in BOOLEAN /\ f.hash \in Content /\ f.next \in 0 .. MaxFileBytes
           /\ f.size \in 0 .. MaxFileBytes /\ f.hashing \in BOOLEAN /\ f.capped \in BOOLEAN
           /\ f.record \in BOOLEAN /\ f.sent \in Content
  BY DEF Handle

\* No bytes are a content.
LEMMA EmptyContent == <<>> \in Content /\ <<>> \in Seq(Byte) /\ Len(<<>>) = 0
  <1>1. <<>> \in Seq(Byte) /\ Len(<<>>) = 0
    BY EmptySeq
  <1>2. Len(<<>>) <= MaxFileBytes
    BY <1>1, Limits
  <1> QED BY <1>1, <1>2, ContentOf

\* The handles that opendir and open make are honest.
LEMMA ListingIsHonest ==
    ASSUME NEW n \in 0 .. Cardinality(Files)
    PROVE  /\ [Listing EXCEPT !.left = n] \in Handle
           /\ Honest([Listing EXCEPT !.left = n])
           /\ ~IsUpload([Listing EXCEPT !.left = n])
  <1> DEFINE g == [Listing EXCEPT !.left = n]
  <1>1. 0 \in 0 .. MaxFileBytes /\ 0 \in 0 .. Cardinality(Files)
    BY Limits, FS_CardinalityType
  <1>2. Listing \in Handle
    BY <1>1, EmptyContent, Zenon DEF Listing, Handle
  <1>3. g \in Handle
    BY <1>2 DEF Handle
  <1>4. g.hash = <<>> /\ g.next = 0 /\ ~g.hashing /\ ~g.record
    BY DEF Listing
  <1> HIDE DEF g
  <1>5. Honest(g) /\ ~IsUpload(g)
    BY <1>4, EmptyContent DEF Honest, IsUpload
  <1> QED BY <1>3, <1>5 DEF g

LEMMA OpenedIsHonest ==
    ASSUME NEW r, RequestOK(r), r # None, r.op = "open"
    PROVE  /\ Opened(r) \in Handle /\ Honest(Opened(r))
           /\ IsUpload(Opened(r)) <=> r.write /\ Opened(r).record
  <1> DEFINE fresh == ~r.exists \/ r.trunc
             g == [Listing EXCEPT !.path = r.path, !.listing = FALSE, !.write = r.write,
                                  !.size = r.size, !.hashing = fresh, !.record = fresh]
  <1>0. Opened(r) = g
    BY DEF Opened
  <1>1. r.path \in Files /\ r.size \in 0 .. MaxFileBytes /\ r.write \in BOOLEAN
    BY DEF RequestOK
  <1>2. fresh \in BOOLEAN
    OBVIOUS
  <1>3. 0 \in 0 .. MaxFileBytes /\ 0 \in 0 .. Cardinality(Files)
    BY Limits, FS_CardinalityType
  <1>4. Listing \in Handle
    BY <1>3, EmptyContent, Zenon DEF Listing, Handle
  <1> HIDE DEF fresh
  <1>5. g \in Handle
    BY <1>1, <1>2, <1>4 DEF Handle
  <1>6. g.hash = <<>> /\ g.next = 0 /\ g.sent = <<>> /\ g.write = r.write
    BY DEF Listing
  <1> HIDE DEF g
  <1>7. Honest(g)
    BY <1>6, EmptyContent DEF Honest
  <1> QED BY <1>0, <1>5, <1>6, <1>7 DEF IsUpload

\* readdir only moves the cursor of a listing.
LEMMA ReadIsHonest ==
    ASSUME NEW f \in Handle, Honest(f), NEW n \in 0 .. Cardinality(Files)
    PROVE  /\ [f EXCEPT !.left = n] \in Handle
           /\ Honest([f EXCEPT !.left = n])
           /\ IsUpload([f EXCEPT !.left = n]) <=> IsUpload(f)
  <1> DEFINE g == [f EXCEPT !.left = n]
  <1>1. g \in Handle
    BY DEF Handle
  <1>2. /\ g.hash = f.hash /\ g.next = f.next /\ g.sent = f.sent /\ g.write = f.write
        /\ g.hashing = f.hashing /\ g.capped = f.capped /\ g.record = f.record
    BY DEF Handle
  <1> HIDE DEF g
  <1>3. Honest(g) /\ (IsUpload(g) <=> IsUpload(f))
    BY <1>2 DEF Honest, IsUpload
  <1> QED BY <1>1, <1>3 DEF g

\* The handle after a write that was refused, and after one that was taken.
AfterRefusal(f) == [f EXCEPT !.capped = TRUE, !.sent = <<>>]

AfterWrite(f, off, data) ==
    LET lands == f.hashing /\ off = f.next
    IN  [f EXCEPT
              !.record  = TRUE,
              !.hashing = lands,
              !.hash    = IF lands THEN @ \o data ELSE @,
              !.next    = IF lands THEN off + Len(data) ELSE @,
              !.size    = Max({@, off + Len(data)}),
              !.sent    = IF lands THEN Written(@, off, data) ELSE <<>>]

\* A refused write spoils the hash for good.
LEMMA RefusedIsHonest ==
    ASSUME NEW f \in Handle, Honest(f)
    PROVE  /\ AfterRefusal(f) \in Handle /\ Honest(AfterRefusal(f))
           /\ IsUpload(AfterRefusal(f)) <=> IsUpload(f)
  <1> DEFINE g == AfterRefusal(f)
  <1>1. g \in Handle
    BY EmptyContent DEF Handle, AfterRefusal
  <1>2. /\ g.hash = f.hash /\ g.next = f.next /\ g.write = f.write
        /\ g.capped = TRUE /\ g.record = f.record
    BY DEF Handle, AfterRefusal
  <1> HIDE DEF g
  <1>3. Honest(g) /\ (IsUpload(g) <=> IsUpload(f))
    BY <1>2 DEF Honest, IsUpload
  <1> QED BY <1>1, <1>3 DEF g

\* A write that is taken keeps the handle honest: only a write that continues the
\* hash is hashed.
LEMMA WriteIsHonest ==
    ASSUME NEW f \in Handle, Honest(f), NEW off \in Nat, NEW data \in Seq(Byte),
           ~f.capped, off + Len(data) <= MaxFileBytes
    PROVE  /\ AfterWrite(f, off, data) \in Handle /\ Honest(AfterWrite(f, off, data))
           /\ IsUpload(AfterWrite(f, off, data)) <=> f.write
  <1> DEFINE lands == f.hashing /\ off = f.next
             end == off + Len(data)
             hash == IF lands THEN f.hash \o data ELSE f.hash
             next == IF lands THEN end ELSE f.next
             size == Max({f.size, end})
             sent == IF lands THEN Written(f.sent, off, data) ELSE <<>>
             g == [f EXCEPT !.record = TRUE, !.hashing = lands, !.hash = hash, !.next = next,
                            !.size = size, !.sent = sent]
  <1>n. Len(data) \in Nat /\ MaxFileBytes \in Nat
    BY LenProperties, Limits
  <1>0. AfterWrite(f, off, data) = g
    BY DEF AfterWrite
  <1>1. f.size \in 0 .. MaxFileBytes /\ f.next \in 0 .. MaxFileBytes /\ f.hash \in Content
    BY HandleFields
  <1>2. size \in 0 .. MaxFileBytes
    BY <1>1, <1>n, MaxOfTwo
  <1>3. f.hash \in Seq(Byte) /\ Len(f.hash) = f.next /\ (f.hashing => f.sent = f.hash)
    BY DEF Honest
  <1>4. lands => Written(f.sent, off, data) = f.hash \o data
    BY <1>3, WrittenAtEnd
  <1>5. f.hash \o data \in Seq(Byte) /\ Len(f.hash \o data) = f.next + Len(data)
    BY <1>3, ConcatProperties
  <1>6. next \in 0 .. MaxFileBytes
    BY <1>1, <1>n
  <1>7. hash \in Seq(Byte) /\ Len(hash) = next
    BY <1>3, <1>5
  <1>8. lands \in BOOLEAN
    OBVIOUS
  <1>9. lands => sent = hash
    BY <1>4
  <1>10. ~lands => sent = <<>>
    OBVIOUS
  <1> HIDE DEF lands, hash, next, size, sent
  <1>11. Len(hash) <= MaxFileBytes
    BY <1>6, <1>7, <1>n
  <1>12. hash \in Content
    BY <1>7, <1>11, ContentOf
  <1>13. sent \in Content
    BY <1>9, <1>10, <1>12, EmptyContent
  <1>14. g \in Handle
    BY <1>2, <1>6, <1>8, <1>12, <1>13 DEF Handle
  <1>15. /\ g.hash = hash /\ g.next = next /\ g.sent = sent /\ g.hashing = lands
         /\ g.write = f.write /\ g.record = TRUE
    BY DEF Handle
  <1> HIDE DEF g
  <1>16. Honest(g)
    BY <1>7, <1>9, <1>15 DEF Honest
  <1> QED BY <1>0, <1>14, <1>15, <1>16 DEF IsUpload

-----------------------------------------------------------------------------
(* What a step leaves alone *)

LEMMA Frames ==
    ASSUME Inv
    PROVE  /\ files' = files => FilesOK'
           /\ handles' = handles => HandlesOK' /\ OpenUploads' = OpenUploads
           /\ UNCHANGED <<mutations, request, ended>> => RequestsOK'
           /\ sink' = sink => SinksOK' /\ OpenSinks' = OpenSinks /\ Owed' = Owed
           /\ UNCHANGED sessVars => SessionOK'
  <1>1. files' = files => FilesOK'
    BY DEF Inv, FilesOK
  <1>2. handles' = handles => HandlesOK' /\ OpenUploads' = OpenUploads
    BY DEF Inv, HandlesOK, HandlesHonest, Slots, OpenUploads
  <1>3. UNCHANGED <<mutations, request, ended>> => RequestsOK'
    BY DEF Inv, RequestsOK
  <1>4. sink' = sink => SinksOK' /\ OpenSinks' = OpenSinks /\ Owed' = Owed
    BY DEF Inv, SinksOK, SinksHonest, OpenSinks, Owed
  <1>5. UNCHANGED sessVars => SessionOK'
    BY DEF Inv, SessionOK, sessVars
  <1> QED BY <1>1, <1>2, <1>3, <1>4, <1>5

\* The uploads that were begun and have ended.
Finished == begun - (Cardinality(OpenUploads) + Cardinality(OpenSinks))

\* The list of transfers follows the uploads that ended.
LEMMA RecordedSame ==
    ASSUME Inv, transfers' = transfers, Finished' = Finished
    PROVE  EveryUploadRecorded'
  <1>1. Len(transfers) = Min({MaxTransfers, Finished})
    BY DEF Inv, EveryUploadRecorded, Finished
  <1>2. Len(transfers') = Min({MaxTransfers, Finished'})
    BY <1>1
  <1> QED BY <1>2 DEF EveryUploadRecorded, Finished

LEMMA RecordedOne ==
    ASSUME Inv, begun' \in Nat, NEW r \in Record, appendTransfer(r), Finished' = Finished + 1
    PROVE  /\ EveryUploadRecorded'
           /\ transfers' \in Seq(Record) /\ Len(transfers') <= MaxTransfers
  <1>1. Len(transfers) = Min({MaxTransfers, Finished})
    BY DEF Inv, EveryUploadRecorded, Finished
  <1>2. MaxTransfers \in Nat /\ begun \in Nat
    BY Limits DEF Inv, SessionOK
  <1>3. Finished \in Int
    BY <1>2, UploadsFinite DEF Finished
  <1>4. Len(transfers) = IF MaxTransfers <= Finished THEN MaxTransfers ELSE Finished
    BY <1>1, <1>2, <1>3, MinOfTwo
  <1>5. transfers \in Seq(Record) /\ Len(transfers) \in Nat
    BY LenProperties DEF Inv, SessionOK
  <1>6. transfers' = IF Len(transfers) >= MaxTransfers THEN transfers ELSE Append(transfers, r)
    BY DEF appendTransfer
  <1>7. /\ transfers' \in Seq(Record)
        /\ Len(transfers') = IF Len(transfers) >= MaxTransfers THEN Len(transfers) ELSE Len(transfers) + 1
    BY <1>5, <1>6, AppendProperties
  <1>8. Len(transfers') = IF MaxTransfers <= Finished + 1 THEN MaxTransfers ELSE Finished + 1
    BY <1>2, <1>3, <1>4, <1>5, <1>7
  <1>9. Len(transfers') = Min({MaxTransfers, Finished + 1})
    BY <1>2, <1>3, <1>8, MinOfTwo
  <1>10. Len(transfers') = Min({MaxTransfers, Finished'})
    BY <1>9
  <1>11. EveryUploadRecorded'
    BY <1>10 DEF EveryUploadRecorded, Finished
  <1> QED BY <1>2, <1>3, <1>7, <1>8, <1>11

LEMMA OwedFinite == IsFiniteSet(Owed) /\ Cardinality(Owed) \in Nat
  <1>1. IsFiniteSet(1 .. MaxFileBytes)
    BY Limits, FS_Interval
  <1>2. IsFiniteSet(Sinks \X (1 .. MaxFileBytes)) /\ Owed \subseteq Sinks \X (1 .. MaxFileBytes)
    BY <1>1, Limits, FS_Product DEF Owed
  <1> QED BY <1>2, FS_Subset, FS_CardinalityType

\* A step of an sftp channel leaves the sinks alone, and what it receives it has reserved.
LEMMA ChannelKeeps ==
    ASSUME Inv, sink' = sink, FilesOK', HandlesOK', RequestsOK', SessionOK', EveryUploadRecorded',
           \E n \in Nat : uploadBytes' = uploadBytes + n /\ received' = received + n,
           uploadBytes' <= MaxSessionBytes
    PROVE  Inv'
  <1>1. SinksOK' /\ Owed' = Owed
    BY Frames
  <1>2. IsFiniteSet(Owed) /\ Cardinality(Owed) \in Nat
    BY OwedFinite
  <1>3. received + Cardinality(Owed) <= uploadBytes /\ received \in Nat /\ uploadBytes \in Nat
    BY DEF Inv, Within, SessionOK
  <1>4. Within'
    BY <1>1, <1>2, <1>3 DEF Within
  <1> QED BY <1>1, <1>4 DEF Inv

\* A step that changes neither the uploads nor the session's counts.
LEMMA QuietKeeps ==
    ASSUME Inv, sink' = sink, UNCHANGED sessVars, FilesOK', HandlesOK', RequestsOK',
           OpenUploads' = OpenUploads
    PROVE  Inv'
  <1>1. SessionOK' /\ OpenSinks' = OpenSinks
    BY Frames
  <1>2. transfers' = transfers /\ begun' = begun /\ uploadBytes' = uploadBytes /\ received' = received
    BY DEF sessVars
  <1>3. Finished' = Finished
    BY <1>1, <1>2 DEF Finished
  <1>4. EveryUploadRecorded'
    BY <1>2, <1>3, RecordedSame
  <1>5. uploadBytes \in Nat /\ received \in Nat /\ uploadBytes <= MaxSessionBytes
    BY DEF Inv, Within, SessionOK
  <1>6. \E n \in Nat : uploadBytes' = uploadBytes + n /\ received' = received + n
    BY <1>2, <1>5
  <1> QED BY <1>1, <1>2, <1>4, <1>5, <1>6, ChannelKeeps

-----------------------------------------------------------------------------
(* The steps of an sftp channel *)

\* Requests that look a path up, one that is turned away, and the end of the loop.
LEMMA LookupStep ==
    ASSUME Inv, NEW c \in Channels,
           \/ \E p \in Files, write, creat, excl, trunc \in BOOLEAN : OpenStat(c, p, write, creat, excl, trunc)
           \/ \E p \in Files, size \in {0, MaxFileBytes + 1} : SetstatStat(c, p, size)
           \/ \E p, q \in Files, overwrite \in BOOLEAN : RenameStat(c, p, q, overwrite)
           \/ TooManyChanges(c) \/ End(c)
    PROVE  Inv'
  <1>1. UNCHANGED <<files, handles, mutations, sink, sessVars>>
    BY DEF OpenStat, SetstatStat, RenameStat, TooManyChanges, End
  <1>2. FilesOK' /\ HandlesOK' /\ OpenUploads' = OpenUploads
    BY <1>1, Frames
  <1>3. RequestsOK
    BY DEF Inv
  <1>4. ASSUME NEW r, RequestOK(r), request' = [request EXCEPT ![c] = r], ended' = ended
        PROVE  RequestsOK'
    BY <1>1, <1>3, <1>4 DEF RequestsOK
  <1>5. ASSUME NEW p \in Files, NEW write \in BOOLEAN, NEW creat \in BOOLEAN, NEW excl \in BOOLEAN,
               NEW trunc \in BOOLEAN, OpenStat(c, p, write, creat, excl, trunc)
        PROVE  RequestsOK'
    <2> DEFINE exists == files[p] # None
               r == [op |-> "open", path |-> p, write |-> write, exists |-> exists,
                     trunc |-> trunc /\ (write \/ ~exists),
                     size |-> IF exists /\ write /\ ~trunc THEN files[p] ELSE 0]
    <2>1. request' = [request EXCEPT ![c] = r] /\ ended' = ended
      BY <1>5 DEF OpenStat
    <2>2. files[p] # None => files[p] \in 0 .. MaxFileBytes
      BY DEF Inv, FilesOK
    <2>3. r.size \in 0 .. MaxFileBytes
      BY <2>2, Limits
    <2>4. r.op = "open" /\ r.path = p /\ r.write = write
      OBVIOUS
    <2> HIDE DEF r
    <2>5. RequestOK(r)
      BY <2>3, <2>4 DEF RequestOK
    <2> QED BY <2>1, <2>5, <1>4
  <1>6. ASSUME NEW p \in Files, NEW size \in {0, MaxFileBytes + 1}, SetstatStat(c, p, size)
        PROVE  RequestsOK'
    <2> DEFINE r == [op |-> "setstat", path |-> p, size |-> Min({size, MaxFileBytes})]
    <2>1. request' = [request EXCEPT ![c] = r] /\ ended' = ended
      BY <1>6 DEF SetstatStat
    <2>2. r.size \in 0 .. MaxFileBytes
      BY Limits, MinOfTwo
    <2>3. r.op = "setstat" /\ r.path = p
      OBVIOUS
    <2> HIDE DEF r
    <2>5. RequestOK(r)
      BY <2>2, <2>3 DEF RequestOK
    <2> QED BY <2>1, <2>5, <1>4
  <1>7. ASSUME NEW p \in Files, NEW q \in Files, NEW overwrite \in BOOLEAN, RenameStat(c, p, q, overwrite)
        PROVE  RequestsOK'
    <2> DEFINE r == [op |-> "rename", path |-> p, to |-> q]
    <2>1. request' = [request EXCEPT ![c] = r] /\ ended' = ended
      BY <1>7 DEF RenameStat
    <2>2. r.op = "rename" /\ r.path = p
      OBVIOUS
    <2> HIDE DEF r
    <2>3. RequestOK(r)
      BY <2>2 DEF RequestOK
    <2> QED BY <2>1, <2>3, <1>4
  <1>8. ASSUME TooManyChanges(c)
        PROVE  RequestsOK'
    <2>1. request' = [request EXCEPT ![c] = None] /\ ended' = ended /\ RequestOK(None)
      BY <1>8 DEF TooManyChanges, RequestOK
    <2> QED BY <2>1, <1>4
  <1>9. ASSUME End(c)
        PROVE  RequestsOK'
    BY <1>3, <1>9 DEF End, RequestsOK
  <1>10. RequestsOK'
    BY <1>5, <1>6, <1>7, <1>8, <1>9
  <1> QED BY <1>1, <1>2, <1>10, QuietKeeps

\* newHandle takes a free slot, or drops the handle.
LEMMA NewHandleKeeps ==
    ASSUME Inv, NEW c \in Channels, NEW f \in Handle, Honest(f), NewHandle(c, f)
    PROVE  /\ HandlesOK'
           /\ IF HasSlot(c) /\ IsUpload(f)
              THEN \E x : x \notin OpenUploads /\ OpenUploads' = OpenUploads \cup {x}
              ELSE OpenUploads' = OpenUploads
  <1>1. CASE ~HasSlot(c)
    <2>1. handles' = handles
      BY <1>1 DEF NewHandle
    <2> QED BY <1>1, <2>1, Frames
  <1>2. CASE HasSlot(c)
    <2> DEFINE h == FreeSlot(c)
    <2>1. SetHandle(c, h, f)
      BY <1>2 DEF NewHandle
    <2>2. Slots(c) \subseteq 0 .. MaxHandles - 1
      BY DEF Inv, HandlesOK
    <2>3. h \in 0 .. MaxHandles - 1 /\ h \notin Slots(c)
      BY <1>2, <2>2, FreeSlotType
    <2>4. <<c, h>> \notin OpenUploads
      BY <2>3 DEF OpenUploads
    <2> HIDE DEF h
    <2>5. /\ HandlesOK'
          /\ OpenUploads' = IF IsUpload(f) THEN OpenUploads \cup {<<c, h>>} ELSE OpenUploads \ {<<c, h>>}
      BY <2>1, <2>3, SetHandleKeeps
    <2>6. IF IsUpload(f)
          THEN \E x : x \notin OpenUploads /\ OpenUploads' = OpenUploads \cup {x}
          ELSE OpenUploads' = OpenUploads
      BY <2>4, <2>5
    <2> QED BY <1>2, <2>5, <2>6
  <1> QED BY <1>1, <1>2

\* A request that was carried out is gone.
LEMMA RequestGone ==
    ASSUME Inv, NEW c \in Channels, request' = [request EXCEPT ![c] = None], ended' = ended,
           mutations' \in {mutations, [mutations EXCEPT ![c] = @ + 1]},
           mutations' = mutations \/ mutations[c] < MaxMutations
    PROVE  RequestsOK'
  <1>1. RequestOK(None)
    BY DEF RequestOK
  <1>2. mutations' \in [Channels -> 0 .. MaxMutations]
    BY Limits DEF Inv, RequestsOK
  <1> QED BY <1>1, <1>2 DEF Inv, RequestsOK

LEMMA OpenReadStep ==
    ASSUME Inv, NEW c \in Channels, OpenRead(c)
    PROVE  Inv'
  <1> DEFINE r == request[c]
  <1>1. /\ r # None /\ r.op = "open" /\ ~r.write /\ NewHandle(c, Opened(r))
        /\ request' = [request EXCEPT ![c] = None]
        /\ UNCHANGED <<files, mutations, ended, sink, sessVars>>
    BY DEF OpenRead
  <1>2. RequestOK(r)
    BY DEF Inv, RequestsOK
  <1> HIDE DEF r
  <1>3. Opened(r) \in Handle /\ Honest(Opened(r)) /\ ~IsUpload(Opened(r))
    BY <1>1, <1>2, OpenedIsHonest
  <1>4. HandlesOK' /\ OpenUploads' = OpenUploads
    BY <1>1, <1>3, NewHandleKeeps
  <1>5. RequestsOK'
    BY <1>1, RequestGone
  <1> QED BY <1>1, <1>4, <1>5, Frames, QuietKeeps

\* An open for writing begins an upload, if there is a handle for it.
LEMMA OpenCreateStep ==
    ASSUME Inv, NEW c \in Channels, OpenCreate(c)
    PROVE  Inv'
  <1> DEFINE r == request[c]
  <1>1. /\ r # None /\ r.op = "open" /\ mutations[c] < MaxMutations
        /\ mutations' = [mutations EXCEPT ![c] = @ + 1]
        /\ files' = [files EXCEPT ![r.path] = IF @ = None \/ r.trunc THEN 0 ELSE @]
        /\ NewHandle(c, Opened(r))
        /\ Begin(HasSlot(c) /\ r.write /\ Opened(r).record)
        /\ request' = [request EXCEPT ![c] = None]
        /\ UNCHANGED <<ended, sink, uploadBytes, transfers, received>>
    BY DEF OpenCreate
  <1>2. RequestOK(r)
    BY DEF Inv, RequestsOK
  <1> HIDE DEF r
  <1>3. Opened(r) \in Handle /\ Honest(Opened(r)) /\ (IsUpload(Opened(r)) <=> r.write /\ Opened(r).record)
    BY <1>1, <1>2, OpenedIsHonest
  <1>4. /\ HandlesOK'
        /\ IF HasSlot(c) /\ IsUpload(Opened(r))
           THEN \E x : x \notin OpenUploads /\ OpenUploads' = OpenUploads \cup {x}
           ELSE OpenUploads' = OpenUploads
    BY <1>1, <1>3, NewHandleKeeps
  <1>5. RequestsOK'
    BY <1>1, RequestGone
  <1>6. FilesOK'
    <2>1. files \in [Files -> (0 .. MaxFileBytes) \cup {None}] /\ 0 \in 0 .. MaxFileBytes
      BY Limits DEF Inv, FilesOK
    <2>2. PICK v \in {0, files[r.path]} : files' = [files EXCEPT ![r.path] = v]
      BY <1>1
    <2>3. r.path \in Files
      BY <1>1, <1>2 DEF RequestOK
    <2> QED BY <2>1, <2>2, <2>3 DEF FilesOK
  <1>7. /\ transfers \in Seq(Record) /\ Len(transfers) <= MaxTransfers
        /\ uploadBytes \in Nat /\ begun \in 0 .. MaxUploads /\ received \in Nat
        /\ uploadBytes <= MaxSessionBytes
    BY DEF Inv, SessionOK, Within
  <1>8. /\ OpenSinks' = OpenSinks /\ Cardinality(OpenUploads) \in Nat /\ Cardinality(OpenSinks) \in Nat
    BY <1>1, Frames, UploadsFinite
  <1>9. begun' \in 0 .. MaxUploads /\ Finished' = Finished
    <2>1. CASE HasSlot(c) /\ r.write /\ Opened(r).record
      <3>1. begun' = begun + 1 /\ begun < MaxUploads
        BY <1>1, <2>1 DEF Begin
      <3>2. PICK x : x \notin OpenUploads /\ OpenUploads' = OpenUploads \cup {x}
        BY <1>3, <1>4, <2>1
      <3>3. Cardinality(OpenUploads') = Cardinality(OpenUploads) + 1
        BY <3>2, UploadsFinite, FS_AddElement
      <3> QED BY <1>7, <1>8, <3>1, <3>3, Limits DEF Finished
    <2>2. CASE ~(HasSlot(c) /\ r.write /\ Opened(r).record)
      <3>1. begun' = begun
        BY <1>1, <2>2 DEF Begin
      <3>2. OpenUploads' = OpenUploads
        BY <1>3, <1>4, <2>2
      <3> QED BY <1>7, <1>8, <3>1, <3>2 DEF Finished
    <2> QED BY <2>1, <2>2
  <1>10. EveryUploadRecorded'
    BY <1>1, <1>9, RecordedSame
  <1>11. SessionOK'
    BY <1>1, <1>7, <1>9 DEF SessionOK
  <1>12. \E n \in Nat : uploadBytes' = uploadBytes + n /\ received' = received + n
    BY <1>1, <1>7
  <1> QED BY <1>1, <1>4, <1>5, <1>6, <1>7, <1>10, <1>11, <1>12, ChannelKeeps

LEMMA OpendirStep ==
    ASSUME Inv, NEW c \in Channels, opendir(c)
    PROVE  Inv'
  <1> DEFINE n == Cardinality({f \in Files : files[f] # None})
             g == [Listing EXCEPT !.left = n]
  <1>1. NewHandle(c, g) /\ UNCHANGED <<files, mutations, request, ended, sink, sessVars>>
    BY DEF opendir
  <1>2. n \in Nat /\ Cardinality(Files) \in Nat /\ n <= Cardinality(Files)
    <2>1. {f \in Files : files[f] # None} \subseteq Files
      OBVIOUS
    <2> QED BY <2>1, Limits, FS_Subset, FS_CardinalityType
  <1> HIDE DEF n
  <1>3. n \in 0 .. Cardinality(Files)
    BY <1>2
  <1>4. g \in Handle /\ Honest(g) /\ ~IsUpload(g)
    BY <1>3, ListingIsHonest
  <1> HIDE DEF g
  <1>5. HandlesOK' /\ OpenUploads' = OpenUploads
    BY <1>1, <1>4, NewHandleKeeps
  <1> QED BY <1>1, <1>5, Frames, QuietKeeps

\* Setting an existing handle to one that is as much of an upload.
LEMMA SameUploads ==
    ASSUME Inv, NEW c \in Channels, NEW h \in Slots(c), NEW g \in Handle, Honest(g),
           IsUpload(g) <=> IsUpload(handles[c][h]), SetHandle(c, h, g)
    PROVE  HandlesOK' /\ OpenUploads' = OpenUploads
  <1>1. Slots(c) \subseteq 0 .. MaxHandles - 1
    BY DEF Inv, HandlesOK
  <1>2. h \in 0 .. MaxHandles - 1 /\ h \in 0 .. MaxHandles
    BY <1>1, Limits
  <1>3. /\ HandlesOK'
        /\ OpenUploads' = IF IsUpload(g) THEN OpenUploads \cup {<<c, h>>} ELSE OpenUploads \ {<<c, h>>}
    BY <1>2, SetHandleKeeps
  <1>4. <<c, h>> \in OpenUploads <=> IsUpload(handles[c][h])
    BY <1>2 DEF OpenUploads, IsUpload
  <1> QED BY <1>3, <1>4

LEMMA ReaddirStep ==
    ASSUME Inv, NEW c \in Channels, NEW h \in Slots(c), readdir(c, h)
    PROVE  Inv'
  <1> DEFINE f == handles[c][h]
             n == IF f.left > DirBatch THEN f.left - DirBatch ELSE 0
             g == [f EXCEPT !.left = n]
  <1>1. f \in Handle /\ Honest(f)
    BY DEF Inv, HandlesOK, HandlesHonest
  <1>2. SetHandle(c, h, g) /\ UNCHANGED <<files, mutations, request, ended, sink, sessVars>>
    BY DEF readdir
  <1>3. n \in 0 .. Cardinality(Files)
    <2>1. f.left \in 0 .. Cardinality(Files)
      BY <1>1, HandleFields
    <2>2. Cardinality(Files) \in Nat /\ DirBatch \in Nat
      BY Limits, FS_CardinalityType
    <2> QED BY <2>1, <2>2
  <1> HIDE DEF n
  <1>4. g \in Handle /\ Honest(g) /\ (IsUpload(g) <=> IsUpload(f))
    BY <1>1, <1>3, ReadIsHonest
  <1>5. HandlesOK' /\ OpenUploads' = OpenUploads
    <2> HIDE DEF g
    <2> QED BY <1>2, <1>4, SameUploads
  <1> QED BY <1>2, <1>5, Frames, QuietKeeps

LEMMA RefusedStep ==
    ASSUME Inv, NEW c \in Channels, NEW h \in Slots(c), NEW off, NEW data, WriteRefused(c, h, off, data)
    PROVE  Inv'
  <1> DEFINE f == handles[c][h]
             g == AfterRefusal(f)
  <1>1. f \in Handle /\ Honest(f)
    BY DEF Inv, HandlesOK, HandlesHonest
  <1>2. SetHandle(c, h, g) /\ UNCHANGED <<files, mutations, request, ended, sink, sessVars>>
    BY DEF WriteRefused, AfterRefusal
  <1>4. g \in Handle /\ Honest(g) /\ (IsUpload(g) <=> IsUpload(f))
    BY <1>1, RefusedIsHonest
  <1>5. HandlesOK' /\ OpenUploads' = OpenUploads
    <2> HIDE DEF g
    <2> QED BY <1>2, <1>4, SameUploads
  <1> QED BY <1>2, <1>5, Frames, QuietKeeps

\* A write that is taken was reserved, and begins an upload if there was none.
LEMMA WriteStep ==
    ASSUME Inv, NEW c \in Channels, NEW h \in Slots(c), NEW off \in 0 .. MaxFileBytes + 1,
           NEW data \in Chunks, writeFile(c, h, off, data)
    PROVE  Inv'
  <1> DEFINE f == handles[c][h]
             g == AfterWrite(f, off, data)
             end == off + Len(data)
  <1>1. f \in Handle /\ Honest(f)
    BY DEF Inv, HandlesOK, HandlesHonest
  <1>2. /\ f.write /\ ~Refused(f, off, data)
        /\ uploadBytes' = uploadBytes + Len(data)
        /\ SetHandle(c, h, g)
        /\ files' = [files EXCEPT ![f.path] = IF @ # None /\ end > f.size THEN end ELSE @]
        /\ Begin(~f.record)
        /\ received' = received + Len(data)
        /\ UNCHANGED <<mutations, request, ended, sink, transfers>>
    BY DEF writeFile, Writable, AfterWrite
  <1>3. data \in Seq(Byte) /\ Len(data) \in Nat /\ off \in Nat
    BY ChunkType, Limits
  <1>4. ~f.capped /\ end <= MaxFileBytes /\ uploadBytes + Len(data) <= MaxSessionBytes
    BY <1>2, <1>3, Limits DEF Refused, Reserves, Inv, SessionOK
  <1>5. g \in Handle /\ Honest(g) /\ (IsUpload(g) <=> f.write)
    BY <1>1, <1>3, <1>4, WriteIsHonest
  <1>6. Slots(c) \subseteq 0 .. MaxHandles - 1
    BY DEF Inv, HandlesOK
  <1>7. h \in 0 .. MaxHandles - 1 /\ h \in 0 .. MaxHandles
    BY <1>6, Limits
  <1>8. HandlesOK' /\ OpenUploads' = OpenUploads \cup {<<c, h>>}
    <2> HIDE DEF g
    <2> QED BY <1>2, <1>5, <1>7, SetHandleKeeps
  <1>9. <<c, h>> \in OpenUploads <=> f.record
    BY <1>2, <1>7 DEF OpenUploads
  <1>10. end \in 0 .. MaxFileBytes
    BY <1>3, <1>4, Limits
  <1>11. FilesOK'
    <2> HIDE DEF end, f
    <2> QED BY <1>2, <1>10 DEF Inv, FilesOK
  <1>12. RequestsOK'
    BY <1>2, Frames
  <1>13. /\ transfers \in Seq(Record) /\ Len(transfers) <= MaxTransfers
         /\ uploadBytes \in Nat /\ begun \in 0 .. MaxUploads /\ received \in Nat
    BY DEF Inv, SessionOK
  <1>14. OpenSinks' = OpenSinks /\ Cardinality(OpenUploads) \in Nat /\ Cardinality(OpenSinks) \in Nat
    BY <1>2, Frames, UploadsFinite
  <1>15. begun' \in 0 .. MaxUploads /\ Finished' = Finished
    <2>1. CASE ~f.record
      <3>1. begun' = begun + 1 /\ begun < MaxUploads
        BY <1>2, <2>1 DEF Begin
      <3>2. Cardinality(OpenUploads') = Cardinality(OpenUploads) + 1
        BY <1>8, <1>9, <2>1, UploadsFinite, FS_AddElement
      <3> QED BY <1>13, <1>14, <3>1, <3>2, Limits DEF Finished
    <2>2. CASE f.record
      <3>1. begun' = begun
        BY <1>2, <2>2 DEF Begin
      <3>2. OpenUploads' = OpenUploads
        BY <1>8, <1>9, <2>2
      <3> QED BY <1>13, <1>14, <3>1, <3>2 DEF Finished
    <2> QED BY <2>1, <2>2
  <1>16. EveryUploadRecorded'
    BY <1>2, <1>15, RecordedSame
  <1>17. SessionOK'
    BY <1>2, <1>3, <1>13, <1>15 DEF SessionOK
  <1>18. uploadBytes' <= MaxSessionBytes /\ \E n \in Nat : uploadBytes' = uploadBytes + n /\ received' = received + n
    BY <1>2, <1>3, <1>4
  <1> QED BY <1>2, <1>8, <1>11, <1>12, <1>16, <1>17, <1>18, ChannelKeeps

\* Closing a handle records its upload.
LEMMA CloseStep ==
    ASSUME Inv, NEW c \in Channels, NEW h \in Slots(c), NEW clean \in BOOLEAN, CloseHandle(c, h, clean)
    PROVE  Inv'
  <1> DEFINE f == handles[c][h]
             complete == clean /\ f.hashing /\ ~f.capped /\ f.next = f.size
             r == [size |-> f.size, complete |-> complete, hash |-> IF complete THEN f.hash ELSE None]
  <1>1. f \in Handle /\ Honest(f)
    BY DEF Inv, HandlesOK, HandlesHonest
  <1>2. /\ DropHandle(c, h)
        /\ IF IsUpload(f) THEN appendTransfer(r) ELSE UNCHANGED transfers
        /\ UNCHANGED <<files, mutations, request, ended, sink, uploadBytes, begun, received>>
    BY DEF CloseHandle, IsUpload
  <1>3. r \in Record
    <2>1. f.size \in 0 .. MaxFileBytes /\ f.hash \in Content
      BY <1>1, HandleFields
    <2>2. f.size \in 0 .. MaxFileBytes + 1 /\ complete \in BOOLEAN
      BY <2>1, Limits
    <2> HIDE DEF complete
    <2>3. (IF complete THEN f.hash ELSE None) \in Content \cup {None}
      BY <2>1
    <2> QED BY <2>2, <2>3 DEF Record
  <1>4. HandlesOK' /\ OpenUploads' = OpenUploads \ {<<c, h>>} /\ (<<c, h>> \in OpenUploads <=> IsUpload(f))
    BY <1>2, DropHandleKeeps
  <1>5. FilesOK' /\ RequestsOK' /\ OpenSinks' = OpenSinks
    BY <1>2, Frames
  <1>6. /\ transfers \in Seq(Record) /\ Len(transfers) <= MaxTransfers
        /\ uploadBytes \in Nat /\ begun \in 0 .. MaxUploads /\ received \in Nat
        /\ uploadBytes <= MaxSessionBytes
    BY DEF Inv, SessionOK, Within
  <1>7. Cardinality(OpenUploads) \in Nat /\ Cardinality(OpenSinks) \in Nat /\ begun' = begun /\ begun \in Nat
    BY <1>2, <1>6, UploadsFinite, Limits
  <1> HIDE DEF r
  <1>8. EveryUploadRecorded' /\ transfers' \in Seq(Record) /\ Len(transfers') <= MaxTransfers
    <2>1. CASE IsUpload(f)
      <3>1. Cardinality(OpenUploads') = Cardinality(OpenUploads) - 1
        BY <1>4, <2>1, UploadsFinite, FS_RemoveElement
      <3>2. Finished' = Finished + 1
        BY <1>5, <1>7, <3>1 DEF Finished
      <3> QED BY <1>2, <1>3, <1>7, <2>1, <3>2, RecordedOne
    <2>2. CASE ~IsUpload(f)
      <3>1. OpenUploads' = OpenUploads
        BY <1>4, <2>2
      <3>2. Finished' = Finished /\ transfers' = transfers
        BY <1>2, <1>5, <1>7, <2>2, <3>1 DEF Finished
      <3> QED BY <1>6, <3>2, RecordedSame
    <2> QED BY <2>1, <2>2
  <1>9. SessionOK'
    BY <1>2, <1>6, <1>8 DEF SessionOK
  <1>10. uploadBytes' <= MaxSessionBytes /\ \E n \in Nat : uploadBytes' = uploadBytes + n /\ received' = received + n
    BY <1>2, <1>6
  <1> QED BY <1>2, <1>4, <1>5, <1>8, <1>9, <1>10, ChannelKeeps

\* Changes to the box's files that are no upload.
LEMMA MutateStep ==
    ASSUME Inv, NEW c \in Channels, Mutate(c) \/ \E p \in Files \cup {None} : RemoveFile(c, p)
    PROVE  Inv'
  <1>1. UNCHANGED <<handles, ended, sink, sessVars>>
    BY DEF Mutate, RemoveFile
  <1>2. files \in [Files -> (0 .. MaxFileBytes) \cup {None}]
    BY DEF Inv, FilesOK
  <1>3. FilesOK' /\ RequestsOK'
    <2>1. CASE Mutate(c)
      <3> DEFINE r == request[c]
      <3>1. RequestOK(r) /\ r # None
        BY <2>1 DEF Inv, RequestsOK, Mutate
      <3>2. r.path \in Files /\ (r.op = "setstat" => r.size \in 0 .. MaxFileBytes)
        BY <3>1 DEF RequestOK
      <3>3. files' = IF files[r.path] = None THEN files
                     ELSE IF r.op = "setstat" THEN [files EXCEPT ![r.path] = r.size]
                     ELSE IF r.to = r.path THEN files
                     ELSE [files EXCEPT ![r.path] = None, ![r.to] = files[r.path]]
        BY <2>1 DEF Mutate
      <3> HIDE DEF r
      <3>4. FilesOK'
        BY <1>2, <3>2, <3>3 DEF FilesOK
      <3>5. RequestsOK'
        BY <1>1, <2>1, RequestGone DEF Mutate
      <3> QED BY <3>4, <3>5
    <2>2. ASSUME NEW p \in Files \cup {None}, RemoveFile(c, p) PROVE FilesOK' /\ RequestsOK'
      <3>1. FilesOK'
        BY <1>2, <2>2 DEF FilesOK, RemoveFile
      <3>2. mutations' \in [Channels -> 0 .. MaxMutations]
        BY <2>2, Limits DEF Inv, RequestsOK, RemoveFile
      <3>3. RequestsOK'
        BY <1>1, <2>2, <3>2 DEF Inv, RequestsOK, RemoveFile
      <3> QED BY <3>1, <3>3
    <2> QED BY <2>1, <2>2
  <1> QED BY <1>1, <1>3, Frames, QuietKeeps

LEMMA ShellStep ==
    ASSUME Inv, NEW p \in Files, NEW size \in {None, 1}, ShellChanges(p, size)
    PROVE  Inv'
  <1>1. files' = [files EXCEPT ![p] = size] /\ UNCHANGED <<sftpVars, sink, sessVars>>
    BY DEF ShellChanges
  <1>2. 1 \in 0 .. MaxFileBytes
    BY Limits
  <1>3. FilesOK'
    BY <1>1, <1>2 DEF Inv, FilesOK
  <1>4. UNCHANGED <<handles, mutations, request, ended>>
    BY <1>1 DEF sftpVars
  <1> QED BY <1>1, <1>3, <1>4, Frames, QuietKeeps

LEMMA DispatchStep ==
    ASSUME Inv, NEW c \in Channels, Dispatch(c)
    PROVE  Inv'
  <1>1. ASSUME NEW h \in Slots(c), close(c, h) \/ CloseLeftHandle(c, h) PROVE Inv'
    BY <1>1, CloseStep DEF close, CloseLeftHandle
  <1>2. ASSUME NEW h \in Slots(c), readdir(c, h) PROVE Inv'
    BY <1>2, ReaddirStep
  <1>3. ASSUME NEW h \in Slots(c), NEW off \in 0 .. MaxFileBytes + 1, NEW data \in Chunks,
               writeFile(c, h, off, data) \/ WriteRefused(c, h, off, data)
        PROVE  Inv'
    BY <1>3, WriteStep, RefusedStep
  <1> QED BY <1>1, <1>2, <1>3, LookupStep, OpenCreateStep, OpenReadStep, MutateStep, OpendirStep DEF Dispatch

-----------------------------------------------------------------------------
(* The steps of a sink *)

\* A set that grows by part of T grows by no more than T has.
LEMMA CardinalityGrows ==
    ASSUME NEW S, NEW T, NEW R, IsFiniteSet(S), IsFiniteSet(T), R \subseteq S \cup T
    PROVE  /\ Cardinality(R) <= Cardinality(S) + Cardinality(T)
           /\ Cardinality(R) \in Nat /\ Cardinality(S) \in Nat /\ Cardinality(T) \in Nat
  <1>1. /\ IsFiniteSet(S \cup T)
        /\ Cardinality(S \cup T) = Cardinality(S) + Cardinality(T) - Cardinality(S \cap T)
    BY FS_Union
  <1>2. IsFiniteSet(S \cap T) /\ IsFiniteSet(R) /\ Cardinality(R) <= Cardinality(S \cup T)
    BY <1>1, FS_Subset
  <1>3. /\ Cardinality(R) \in Nat /\ Cardinality(S) \in Nat /\ Cardinality(T) \in Nat
        /\ Cardinality(S \cap T) \in Nat /\ Cardinality(S \cup T) \in Nat
    BY <1>1, <1>2, FS_CardinalityType
  <1> QED BY <1>1, <1>2, <1>3

\* The bytes of a file from after the a-th to the b-th, counted.
LEMMA Segment ==
    ASSUME NEW s, NEW a \in Nat, NEW b \in Nat, a <= b
    PROVE  IsFiniteSet({s} \X (a + 1 .. b)) /\ Cardinality({s} \X (a + 1 .. b)) = b - a
  <1>1. IsFiniteSet(a + 1 .. b) /\ Cardinality(a + 1 .. b) = b - a
    <2> DEFINE c == a + 1
    <2>1. c \in Int /\ b \in Int /\ c = a + 1
      OBVIOUS
    <2> HIDE DEF c
    <2>2. IsFiniteSet(c .. b) /\ Cardinality(c .. b) = IF c > b THEN 0 ELSE b - c + 1
      BY <2>1, FS_Interval
    <2>3. Cardinality(c .. b) = b - a
      BY <2>1, <2>2
    <2> QED BY <2>1, <2>2, <2>3
  <1>2. IsFiniteSet({s}) /\ Cardinality({s}) = 1
    BY FS_Singleton
  <1>3. IsFiniteSet({s} \X (a + 1 .. b)) /\ Cardinality({s} \X (a + 1 .. b)) = 1 * (b - a)
    <2> DEFINE T == a + 1 .. b
    <2>1. IsFiniteSet(T) /\ Cardinality(T) = b - a
      BY <1>1
    <2> HIDE DEF T
    <2>2. IsFiniteSet({s} \X T) /\ Cardinality({s} \X T) = Cardinality({s}) * Cardinality(T)
      BY <1>2, <2>1, FS_Product
    <2> QED BY <1>2, <2>1, <2>2 DEF T
  <1> QED BY <1>3

\* A sink that goes on as g.
LEMMA SinkGoesOn ==
    ASSUME Inv, NEW s \in Sinks, NEW g \in SinkState, sink' = [sink EXCEPT ![s] = g],
           Len(g.hash) <= g.size, g.at # "body" => g.hash = <<>>
    PROVE  /\ SinksOK'
           /\ OpenSinks' = IF g.at = "body" THEN OpenSinks \cup {s} ELSE OpenSinks \ {s}
           /\ \A p \in Sinks \X (1 .. MaxFileBytes) :
                 p \in Owed' <=> IF p[1] = s THEN g.at = "body" /\ Len(g.hash) < p[2] /\ p[2] <= g.size
                                 ELSE p \in Owed
  <1>1. sink \in [Sinks -> SinkState] /\ SinksHonest
    BY DEF Inv, SinksOK
  <1> HIDE DEF SinkState
  <1>2. sink' \in [Sinks -> SinkState] /\ \A t \in Sinks : sink'[t] = IF t = s THEN g ELSE sink[t]
    BY <1>1
  <1>3. SinksOK'
    BY <1>1, <1>2 DEF SinksOK, SinksHonest
  <1>4. OpenSinks' = IF g.at = "body" THEN OpenSinks \cup {s} ELSE OpenSinks \ {s}
    BY <1>2 DEF OpenSinks
  <1>5. ASSUME NEW p \in Sinks \X (1 .. MaxFileBytes)
        PROVE  p \in Owed' <=> IF p[1] = s THEN g.at = "body" /\ Len(g.hash) < p[2] /\ p[2] <= g.size
                               ELSE p \in Owed
    <2>1. p[1] \in Sinks
      OBVIOUS
    <2>2. sink'[p[1]] = IF p[1] = s THEN g ELSE sink[p[1]]
      BY <1>2, <2>1
    <2> QED BY <2>2 DEF Owed
  <1> QED BY <1>3, <1>4, <1>5

\* A step of a sink leaves the sftp channels and the files alone.
LEMMA SinkKeeps ==
    ASSUME Inv, UNCHANGED <<files, sftpVars>>, SinksOK', SessionOK', Within', EveryUploadRecorded'
    PROVE  Inv' /\ OpenUploads' = OpenUploads
  <1>1. UNCHANGED <<handles, mutations, request, ended>>
    BY DEF sftpVars
  <1> QED BY <1>1, Frames DEF Inv

\* The sink's fields.
LEMMA SinkFields ==
    ASSUME Inv, NEW s \in Sinks
    PROVE  /\ sink[s] \in SinkState
           /\ sink[s].at \in {"line", "body", "ended"} /\ sink[s].depth \in 1 .. MaxDepth
           /\ sink[s].size \in 0 .. MaxFileBytes /\ sink[s].hash \in Seq(Byte)
           /\ Len(sink[s].hash) <= sink[s].size
           /\ sink[s].at # "body" => sink[s].hash = <<>>
  <1>1. sink \in [Sinks -> SinkState]
    BY DEF Inv, SinksOK
  <1>2. sink[s] \in SinkState
    <2> HIDE DEF SinkState
    <2> QED BY <1>1
  <1>3. /\ sink[s].at \in {"line", "body", "ended"} /\ sink[s].depth \in 1 .. MaxDepth
        /\ sink[s].size \in 0 .. MaxFileBytes /\ sink[s].hash \in Seq(Byte)
    BY <1>2 DEF SinkState
  <1> QED BY <1>2, <1>3 DEF Inv, SinksOK, SinksHonest

\* A sink that waits, and one that has returned.
LEMMA WaitingIsHonest ==
    ASSUME NEW d \in 1 .. MaxDepth
    PROVE  /\ Waiting(d) \in SinkState /\ Waiting(d).hash = <<>> /\ Waiting(d).size = 0
           /\ Waiting(d).at = "line"
           /\ Returned \in SinkState /\ Returned.hash = <<>> /\ Returned.size = 0
           /\ Returned.at = "ended"
  <1>1. <<>> \in Seq(Byte) /\ 0 \in 0 .. MaxFileBytes /\ 1 \in 1 .. MaxDepth
    BY EmptyContent, Limits
  <1>2. Waiting(d) \in SinkState /\ Waiting(1) \in SinkState
    BY <1>1 DEF Waiting, SinkState
  <1>3. Returned \in SinkState
    BY <1>2 DEF Returned, SinkState
  <1>4. /\ Waiting(d).hash = <<>> /\ Waiting(d).size = 0 /\ Waiting(d).at = "line"
        /\ Returned.hash = <<>> /\ Returned.size = 0 /\ Returned.at = "ended"
    BY DEF Returned, Waiting
  <1> QED BY <1>2, <1>3, <1>4

\* When less is owed and nothing is received, the budget still covers it.
LEMMA OwesLess ==
    ASSUME Inv, Owed' \subseteq Owed, UNCHANGED <<uploadBytes, received>>
    PROVE  Within'
  <1>1. /\ Cardinality(Owed') \in Nat /\ Cardinality(Owed) \in Nat
        /\ Cardinality(Owed') <= Cardinality(Owed)
    BY OwedFinite, FS_Subset, FS_CardinalityType
  <1>2. received \in Nat /\ uploadBytes \in Nat
    BY DEF Inv, SessionOK
  <1> QED BY <1>1, <1>2 DEF Inv, Within

\* A sink that stops being inside a file, or was not, owes nothing.
LEMMA OutsideOwesLess ==
    ASSUME Inv, NEW s \in Sinks, NEW g \in SinkState, sink' = [sink EXCEPT ![s] = g],
           g.at # "body", g.hash = <<>>
    PROVE  SinksOK' /\ OpenSinks' = OpenSinks \ {s} /\ Owed' \subseteq Owed
  <1>1. Len(g.hash) <= g.size
    <2>1. Len(g.hash) = 0 /\ g.size \in Nat
      BY EmptyContent, Limits DEF SinkState
    <2> QED BY <2>1
  <1>2. /\ SinksOK' /\ OpenSinks' = OpenSinks \ {s}
        /\ \A p \in Sinks \X (1 .. MaxFileBytes) :
              p \in Owed' <=> IF p[1] = s THEN g.at = "body" /\ Len(g.hash) < p[2] /\ p[2] <= g.size
                              ELSE p \in Owed
    BY <1>1, SinkGoesOn
  <1>3. Owed' \subseteq Sinks \X (1 .. MaxFileBytes)
    BY DEF Owed
  <1> QED BY <1>2, <1>3

\* A sink between two records stays outside a file.
LEMMA SinkIdleStep ==
    ASSUME Inv, NEW s \in Sinks, SinkEnds(s) \/ \E enter \in BOOLEAN : SinkDirectory(s, enter)
    PROVE  Inv'
  <1>1. sink[s].at = "line" /\ UNCHANGED <<files, sftpVars, sessVars>>
    BY DEF SinkEnds, SinkDirectory
  <1>2. PICK g \in SinkState : sink' = [sink EXCEPT ![s] = g] /\ g.at # "body" /\ g.hash = <<>>
    <2>0. Returned \in SinkState /\ Returned.hash = <<>> /\ Returned.at = "ended"
      <3>1. 1 \in 1 .. MaxDepth
        BY Limits
      <3> QED BY <3>1, WaitingIsHonest
    <2>1. CASE sink' = [sink EXCEPT ![s] = Returned]
      BY <2>0, <2>1
    <2>2. ASSUME NEW d \in 1 .. MaxDepth, sink' = [sink EXCEPT ![s].depth = d]
          PROVE  \E g \in SinkState : sink' = [sink EXCEPT ![s] = g] /\ g.at # "body" /\ g.hash = <<>>
      <3> DEFINE g == [sink[s] EXCEPT !.depth = d]
      <3>1. g \in SinkState
        BY SinkFields DEF SinkState
      <3>2. g.at = "line" /\ g.hash = <<>>
        BY <1>1, SinkFields DEF SinkState
      <3>3. sink' = [sink EXCEPT ![s] = g]
        BY <2>2
      <3> QED BY <3>1, <3>2, <3>3
    <2>3. sink' = [sink EXCEPT ![s] = Returned] \/ \E d \in 1 .. MaxDepth : sink' = [sink EXCEPT ![s].depth = d]
      <3>1. sink[s].depth \in 1 .. MaxDepth /\ MaxDepth \in Nat
        BY SinkFields, Limits
      <3>2. CASE SinkEnds(s)
        BY <3>2 DEF SinkEnds
      <3>3. ASSUME NEW enter \in BOOLEAN, SinkDirectory(s, enter)
            PROVE  sink' = [sink EXCEPT ![s] = Returned] \/ \E d \in 1 .. MaxDepth : sink' = [sink EXCEPT ![s].depth = d]
        <4>1. CASE enter /\ sink[s].depth >= MaxDepth
          BY <3>3, <4>1 DEF SinkDirectory
        <4>2. CASE enter /\ ~(sink[s].depth >= MaxDepth)
          BY <3>1, <3>3, <4>2 DEF SinkDirectory
        <4>3. CASE ~enter
          BY <3>1, <3>3, <4>3 DEF SinkDirectory
        <4> QED BY <4>1, <4>2, <4>3
      <3> QED BY <3>2, <3>3
    <2> QED BY <2>1, <2>2, <2>3
  <1>3. SinksOK' /\ OpenSinks' = OpenSinks \ {s} /\ Owed' \subseteq Owed
    BY <1>2, OutsideOwesLess
  <1>4. s \notin OpenSinks
    BY <1>1 DEF OpenSinks
  <1>5. SessionOK' /\ Within'
    BY <1>1, <1>3, Frames, OwesLess DEF sessVars
  <1>6. OpenUploads' = OpenUploads
    BY <1>1, Frames DEF sftpVars
  <1>7. Finished' = Finished /\ transfers' = transfers
    BY <1>1, <1>3, <1>4, <1>6 DEF Finished, sessVars
  <1>8. EveryUploadRecorded'
    BY <1>7, RecordedSame
  <1> QED BY <1>1, <1>3, <1>5, <1>8, SinkKeeps

\* A file that was declared is owed in full, or recorded as refused.
LEMMA SinkFileStep ==
    ASSUME Inv, NEW s \in Sinks, NEW size \in 0 .. MaxFileBytes + 1, SinkFile(s, size)
    PROVE  Inv'
  <1>1. sink[s].at = "line" /\ begun' = begun + 1 /\ begun < MaxUploads /\ UNCHANGED <<files, sftpVars, received>>
    BY DEF SinkFile, Begin
  <1>2. /\ transfers \in Seq(Record) /\ Len(transfers) <= MaxTransfers
        /\ uploadBytes \in Nat /\ begun \in 0 .. MaxUploads /\ received \in Nat
        /\ received + Cardinality(Owed) <= uploadBytes /\ uploadBytes <= MaxSessionBytes
    BY DEF Inv, SessionOK, Within
  <1>3. begun' \in 0 .. MaxUploads /\ begun' \in Nat /\ begun \in Nat
    BY <1>1, <1>2, Limits
  <1>4. s \notin OpenSinks
    BY <1>1 DEF OpenSinks
  <1>5. OpenUploads' = OpenUploads
    BY <1>1, Frames DEF sftpVars
  <1>6. Cardinality(OpenUploads) \in Nat /\ Cardinality(OpenSinks) \in Nat
    BY UploadsFinite
  <1>n. size \in Nat /\ MaxFileBytes \in Nat
    BY Limits
  <1>7. CASE size > MaxFileBytes \/ ~Reserves(size)
    <2> DEFINE r == [size |-> size, complete |-> FALSE, hash |-> None]
    <2>1. sink' = [sink EXCEPT ![s] = Returned] /\ appendTransfer(r) /\ uploadBytes' = uploadBytes
      BY <1>7 DEF SinkFile
    <2>2. r \in Record
      BY Zenon DEF Record
    <2>3. Returned \in SinkState /\ Returned.hash = <<>> /\ Returned.at = "ended"
      <3>1. 1 \in 1 .. MaxDepth
        BY Limits
      <3> QED BY <3>1, WaitingIsHonest
    <2>4. SinksOK' /\ OpenSinks' = OpenSinks \ {s} /\ Owed' \subseteq Owed
      BY <2>1, <2>3, OutsideOwesLess
    <2> HIDE DEF r
    <2>5. Finished' = Finished + 1
      <3>1. OpenSinks' = OpenSinks
        BY <1>4, <2>4
      <3> QED BY <1>1, <1>3, <1>5, <1>6, <3>1 DEF Finished
    <2>6. EveryUploadRecorded' /\ transfers' \in Seq(Record) /\ Len(transfers') <= MaxTransfers
      BY <1>3, <2>1, <2>2, <2>5, RecordedOne
    <2>7. SessionOK'
      BY <1>1, <1>2, <1>3, <2>1, <2>6 DEF SessionOK
    <2>8. Within'
      BY <1>1, <2>1, <2>4, OwesLess
    <2> QED BY <1>1, <2>4, <2>6, <2>7, <2>8, SinkKeeps
  <1>8. CASE ~(size > MaxFileBytes \/ ~Reserves(size))
    <2> DEFINE g == [sink[s] EXCEPT !.at = "body", !.size = size]
    <2>1. /\ sink' = [sink EXCEPT ![s] = g] /\ uploadBytes' = uploadBytes + size /\ transfers' = transfers
      BY <1>8 DEF SinkFile
    <2>2. size <= MaxFileBytes /\ uploadBytes + size <= MaxSessionBytes
      BY <1>8, <1>2, <1>n DEF Reserves
    <2>3. size \in 0 .. MaxFileBytes
      BY <1>n, <2>2
    <2>4. g \in SinkState
      BY <2>3, SinkFields DEF SinkState
    <2>5. g.at = "body" /\ g.size = size /\ g.hash = <<>>
      BY <1>1, SinkFields DEF SinkState
    <2>6. Len(g.hash) = 0
      BY <2>5, EmptyContent
    <2> HIDE DEF g
    <2>7. Len(g.hash) <= g.size
      BY <2>5, <2>6, <1>n
    <2>8. /\ SinksOK' /\ OpenSinks' = OpenSinks \cup {s}
          /\ \A p \in Sinks \X (1 .. MaxFileBytes) :
                p \in Owed' <=> IF p[1] = s THEN g.at = "body" /\ Len(g.hash) < p[2] /\ p[2] <= g.size
                                ELSE p \in Owed
      BY <2>1, <2>4, <2>5, <2>7, SinkGoesOn
    <2>9. Cardinality(OpenSinks') = Cardinality(OpenSinks) + 1
      BY <1>4, <2>8, UploadsFinite, FS_AddElement
    <2>10. Finished' = Finished
      BY <1>1, <1>3, <1>5, <1>6, <2>9 DEF Finished
    <2>11. EveryUploadRecorded'
      BY <2>1, <2>10, RecordedSame
    <2>12. SessionOK'
      BY <1>1, <1>2, <1>3, <1>n, <2>1 DEF SessionOK
    <2> DEFINE T == {s} \X (0 + 1 .. size)
    <2>13. Owed' \subseteq Owed \cup T
      <3>1. Owed' \subseteq Sinks \X (1 .. MaxFileBytes)
        BY DEF Owed
      <3> SUFFICES ASSUME NEW p \in Owed', p \notin Owed PROVE p \in T
        OBVIOUS
      <3>2. p = <<p[1], p[2]>> /\ p[2] \in 1 .. MaxFileBytes
        BY <3>1
      <3>3. p[1] = s /\ p[2] <= size
        BY <2>5, <2>8, <3>1
      <3>4. p[2] \in 0 + 1 .. size
        BY <3>2, <3>3, <1>n
      <3> QED BY <3>2, <3>3, <3>4
    <2>14. IsFiniteSet(T) /\ Cardinality(T) = size
      <3>1. IsFiniteSet(T) /\ Cardinality(T) = size - 0
        <4>1. 0 \in Nat /\ 0 <= size
          BY <1>n
        <4> QED BY <4>1, <1>n, Segment
      <3> QED BY <3>1, <1>n
    <2> HIDE DEF T
    <2>15. Cardinality(Owed') <= Cardinality(Owed) + size /\ Cardinality(Owed') \in Nat /\ Cardinality(Owed) \in Nat
      BY <2>13, <2>14, OwedFinite, CardinalityGrows
    <2>16. Within'
      BY <1>1, <1>2, <1>n, <2>1, <2>2, <2>15 DEF Within
    <2> QED BY <1>1, <2>8, <2>11, <2>12, <2>16, SinkKeeps
  <1> QED BY <1>7, <1>8

\* What arrives is no longer owed.
LEMMA SinkBytesStep ==
    ASSUME Inv, NEW s \in Sinks, NEW data \in Chunks, SinkBytes(s, data)
    PROVE  Inv'
  <1> DEFINE old == Len(sink[s].hash)
             n == Len(data)
             g == [sink[s] EXCEPT !.hash = sink[s].hash \o data]
             T == {s} \X (old + 1 .. old + n)
  <1>1. /\ sink[s].at = "body" /\ old + n <= sink[s].size
        /\ sink' = [sink EXCEPT ![s] = g]
        /\ received' = received + n
        /\ UNCHANGED <<files, sftpVars, uploadBytes, transfers, begun>>
    BY DEF SinkBytes
  <1>2. data \in Seq(Byte) /\ n \in Nat
    BY ChunkType, Limits
  <1>3. /\ sink[s].size \in 0 .. MaxFileBytes /\ sink[s].hash \in Seq(Byte) /\ old \in Nat
    BY SinkFields, LenProperties
  <1>4. sink[s].hash \o data \in Seq(Byte) /\ Len(sink[s].hash \o data) = old + n
    BY <1>2, <1>3, ConcatProperties
  <1>5. g \in SinkState
    BY <1>4, SinkFields DEF SinkState
  <1>6. g.at = "body" /\ g.size = sink[s].size /\ Len(g.hash) = old + n
    BY <1>1, <1>4, SinkFields DEF SinkState
  <1> HIDE DEF g
  <1>7. Len(g.hash) <= g.size
    BY <1>1, <1>6
  <1>8. /\ SinksOK' /\ OpenSinks' = OpenSinks \cup {s}
        /\ \A p \in Sinks \X (1 .. MaxFileBytes) :
              p \in Owed' <=> IF p[1] = s THEN g.at = "body" /\ Len(g.hash) < p[2] /\ p[2] <= g.size
                              ELSE p \in Owed
    BY <1>1, <1>5, <1>6, <1>7, SinkGoesOn
  <1>9. OpenSinks' = OpenSinks
    BY <1>1, <1>8 DEF OpenSinks
  <1>10. OpenUploads' = OpenUploads
    BY <1>1, Frames DEF sftpVars
  <1>11. Finished' = Finished /\ transfers' = transfers
    BY <1>1, <1>9, <1>10 DEF Finished
  <1>12. EveryUploadRecorded'
    BY <1>11, RecordedSame
  <1>13. /\ transfers \in Seq(Record) /\ Len(transfers) <= MaxTransfers
         /\ uploadBytes \in Nat /\ begun \in 0 .. MaxUploads /\ received \in Nat
         /\ received + Cardinality(Owed) <= uploadBytes /\ uploadBytes <= MaxSessionBytes
    BY DEF Inv, SessionOK, Within
  <1>14. SessionOK'
    BY <1>1, <1>2, <1>13 DEF SessionOK
  <1>n. MaxFileBytes \in Nat
    BY Limits
  <1>15. T \subseteq Owed
    <2> SUFFICES ASSUME NEW k \in old + 1 .. old + n PROVE <<s, k>> \in Owed
      OBVIOUS
    <2>1. old \in Nat /\ n \in Nat /\ old + n <= sink[s].size /\ sink[s].size <= MaxFileBytes
          /\ sink[s].size \in Nat
      BY <1>1, <1>2, <1>3, <1>n
    <2>2. k \in 1 .. MaxFileBytes /\ old < k /\ k <= sink[s].size
      BY <1>n, <2>1
    <2> QED BY <1>1, <2>2 DEF Owed
  <1>16. Owed' \subseteq Owed \ T
    <2>1. Owed' \subseteq Sinks \X (1 .. MaxFileBytes)
      BY DEF Owed
    <2> SUFFICES ASSUME NEW p \in Owed' PROVE p \in Owed /\ p \notin T
      OBVIOUS
    <2>2. p = <<p[1], p[2]>> /\ p[2] \in 1 .. MaxFileBytes
      BY <2>1
    <2>3. CASE p[1] = s
      <3>1. old + n < p[2] /\ p[2] <= sink[s].size
        BY <1>6, <1>8, <2>1, <2>3
      <3>2. old < p[2] /\ p[2] \notin old + 1 .. old + n
        BY <3>1, <1>2, <1>3, <2>2
      <3>3. p \in Owed
        BY <1>1, <2>1, <2>3, <3>1, <3>2 DEF Owed
      <3> QED BY <3>2, <3>3
    <2>4. CASE p[1] # s
      <3>1. p \in Owed
        BY <1>8, <2>1, <2>4
      <3>2. p \notin T
        BY <2>4
      <3> QED BY <3>1, <3>2
    <2> QED BY <2>3, <2>4
  <1>17. IsFiniteSet(T) /\ Cardinality(T) = n
    <2>1. old + n \in Nat /\ old <= old + n
      BY <1>2, <1>3
    <2>2. IsFiniteSet(T) /\ Cardinality(T) = (old + n) - old
      <3> HIDE DEF old, n
      <3> QED BY <1>2, <1>3, <2>1, Segment
    <2> QED BY <2>2, <1>2, <1>3
  <1>18. Cardinality(Owed') <= Cardinality(Owed) - n /\ Cardinality(Owed') \in Nat /\ Cardinality(Owed) \in Nat
    <2> HIDE DEF T
    <2>1. Owed \cap T = T
      BY <1>15
    <2>2. IsFiniteSet(Owed \ T) /\ Cardinality(Owed \ T) = Cardinality(Owed) - n
      <3>1. IsFiniteSet(Owed \ T) /\ Cardinality(Owed \ T) = Cardinality(Owed) - Cardinality(Owed \cap T)
        BY OwedFinite, FS_Difference
      <3> QED BY <1>17, <2>1, <3>1
    <2>3. Cardinality(Owed') <= Cardinality(Owed \ T) /\ IsFiniteSet(Owed')
      BY <1>16, <2>2, FS_Subset
    <2> QED BY <2>2, <2>3, OwedFinite, FS_CardinalityType
  <1>19. Within'
    BY <1>1, <1>2, <1>13, <1>18 DEF Within
  <1> QED BY <1>1, <1>8, <1>12, <1>14, <1>19, SinkKeeps

\* A file that ends is recorded.
LEMMA SinkRecordStep ==
    ASSUME Inv, NEW s \in Sinks, SinkBreaks(s) \/ SinkDone(s)
    PROVE  Inv'
  <1>1. /\ sink[s].at = "body"
        /\ UNCHANGED <<files, sftpVars, uploadBytes, begun, received>>
    BY DEF SinkBreaks, SinkDone
  <1>2. PICK complete \in BOOLEAN : SinkRecord(s, complete)
    BY DEF SinkBreaks, SinkDone
  <1>3. /\ sink[s].size \in 0 .. MaxFileBytes /\ sink[s].hash \in Seq(Byte)
        /\ Len(sink[s].hash) <= sink[s].size /\ sink[s].depth \in 1 .. MaxDepth
    BY SinkFields
  <1>4. Len(sink[s].hash) <= MaxFileBytes
    BY <1>3, LenProperties, Limits
  <1> DEFINE r == [size |-> sink[s].size, complete |-> complete,
                   hash |-> IF complete THEN sink[s].hash ELSE None]
  <1>5. r \in Record
    <2>1. sink[s].size \in 0 .. MaxFileBytes + 1
      BY <1>3, Limits
    <2>2. (IF complete THEN sink[s].hash ELSE None) \in Content \cup {None}
      BY <1>3, <1>4, ContentOf
    <2> QED BY <2>1, <2>2 DEF Record
  <1>6. appendTransfer(r)
    BY <1>2 DEF SinkRecord
  <1> HIDE DEF r
  <1>7. PICK g \in SinkState : sink' = [sink EXCEPT ![s] = g] /\ g.at # "body" /\ g.hash = <<>>
    <2>1. /\ Waiting(sink[s].depth) \in SinkState /\ Waiting(sink[s].depth).hash = <<>>
          /\ Waiting(sink[s].depth).at = "line"
          /\ Returned \in SinkState /\ Returned.hash = <<>> /\ Returned.at = "ended"
      BY <1>3, WaitingIsHonest
    <2>2. sink' = [sink EXCEPT ![s] = Returned] \/ sink' = [sink EXCEPT ![s] = Waiting(sink[s].depth)]
      BY DEF SinkBreaks, SinkDone
    <2> QED BY <2>1, <2>2
  <1>8. SinksOK' /\ OpenSinks' = OpenSinks \ {s} /\ Owed' \subseteq Owed
    BY <1>7, OutsideOwesLess
  <1>9. Cardinality(OpenSinks') = Cardinality(OpenSinks) - 1
    <2>1. s \in OpenSinks
      BY <1>1 DEF OpenSinks
    <2> QED BY <1>8, <2>1, UploadsFinite, FS_RemoveElement
  <1>10. OpenUploads' = OpenUploads
    BY <1>1, Frames DEF sftpVars
  <1>11. /\ uploadBytes \in Nat /\ begun \in 0 .. MaxUploads /\ received \in Nat
         /\ begun' = begun /\ begun \in Nat
    BY <1>1, Limits DEF Inv, SessionOK
  <1>12. Finished' = Finished + 1
    BY <1>9, <1>10, <1>11, UploadsFinite DEF Finished
  <1>13. EveryUploadRecorded' /\ transfers' \in Seq(Record) /\ Len(transfers') <= MaxTransfers
    BY <1>5, <1>6, <1>11, <1>12, RecordedOne
  <1>14. SessionOK'
    BY <1>1, <1>11, <1>13 DEF SessionOK
  <1>15. Within'
    BY <1>1, <1>8, OwesLess
  <1> QED BY <1>1, <1>8, <1>13, <1>14, <1>15, SinkKeeps

-----------------------------------------------------------------------------
(* The theorems *)

LEMMA InvImpliesSound == Inv => TransfersSound
  <1> SUFFICES ASSUME Inv PROVE TransfersSound
    OBVIOUS
  <1>1. \A s \in Sinks : sink[s].at \in {"line", "body", "ended"} /\ sink[s].depth \in 1 .. MaxDepth
    BY SinkFields
  <1>2. TypeOK
    BY <1>1 DEF Inv, TypeOK, FilesOK, HandlesOK, RequestsOK, SessionOK
  <1>3. received \in Nat /\ uploadBytes \in Nat /\ received + Cardinality(Owed) <= uploadBytes
        /\ uploadBytes <= MaxSessionBytes /\ Cardinality(Owed) \in Nat /\ MaxSessionBytes \in Nat
    BY OwedFinite, Limits DEF Inv, SessionOK, Within
  <1>4. BudgetHolds
    BY <1>3 DEF BudgetHolds
  <1> QED BY <1>2, <1>4 DEF Inv, TransfersSound

LEMMA Initially == Init => Inv
  <1> SUFFICES ASSUME Init PROVE Inv
    OBVIOUS
  <1> USE DEF Init
  <1>0. 1 \in 1 .. MaxDepth /\ 0 \in 0 .. MaxFileBytes /\ 0 \in 0 .. MaxUploads /\ 0 \in 0 .. MaxMutations
    BY Limits
  <1>1. FilesOK
    BY BoundsAssumption DEF FilesOK
  <1>2. \A c \in Channels : Slots(c) = {}
    BY DEF Slots
  <1>3. HandlesOK
    BY <1>2 DEF HandlesOK, HandlesHonest
  <1>4. RequestsOK
    BY <1>0 DEF RequestsOK, RequestOK
  <1>5. \A s \in Sinks : sink[s] = Waiting(1)
    OBVIOUS
  <1>6. Waiting(1) \in SinkState /\ Waiting(1).hash = <<>> /\ Waiting(1).size = 0 /\ Waiting(1).at = "line"
    BY <1>0, WaitingIsHonest
  <1>7. SinksOK
    <2>1. sink \in [Sinks -> SinkState]
      <3> HIDE DEF SinkState
      <3> QED BY <1>6
    <2>2. Len(<<>>) <= 0
      BY EmptyContent
    <2>3. SinksHonest
      BY <1>5, <1>6, <2>2 DEF SinksHonest
    <2> QED BY <2>1, <2>3 DEF SinksOK
  <1>8. SessionOK
    <2>1. transfers \in Seq(Record) /\ Len(transfers) = 0
      BY EmptySeq
    <2> QED BY <2>1, <1>0, Limits DEF SessionOK
  <1>9. OpenUploads = {} /\ OpenSinks = {} /\ Owed = {}
    BY <1>2, <1>5, <1>6 DEF OpenUploads, OpenSinks, Owed
  <1>10. Cardinality({}) = 0
    BY FS_EmptySet
  <1>11. Within
    BY <1>9, <1>10, Limits DEF Within
  <1>12. EveryUploadRecorded
    <2>1. MaxTransfers \in Nat /\ Min({MaxTransfers, 0}) = 0
      BY Limits, MinOfTwo
    <2>2. Len(transfers) = 0
      BY EmptySeq
    <2>3. begun - (Cardinality(OpenUploads) + Cardinality(OpenSinks)) = 0
      BY <1>9, <1>10
    <2> QED BY <2>1, <2>2, <2>3 DEF EveryUploadRecorded
  <1> QED BY <1>1, <1>3, <1>4, <1>7, <1>8, <1>11, <1>12 DEF Inv

LEMMA StutterKeeps == ASSUME Inv, UNCHANGED vars PROVE Inv'
  <1>1. UNCHANGED <<files, handles, mutations, request, ended, sink, sessVars>>
    BY DEF vars, sftpVars
  <1> QED BY <1>1, Frames, QuietKeeps

LEMMA InvHolds == Spec => []Inv
  <1>1. Init => Inv
    BY Initially
  <1>2. Inv /\ [Next]_vars => Inv'
    <2> SUFFICES ASSUME Inv, [Next]_vars PROVE Inv'
      OBVIOUS
    <2>1. CASE UNCHANGED vars
      BY <2>1, StutterKeeps
    <2>2. ASSUME NEW c \in Channels, Dispatch(c) PROVE Inv'
      BY <2>2, DispatchStep
    <2>3. ASSUME NEW s \in Sinks, Sink(s) PROVE Inv'
      BY <2>3, SinkIdleStep, SinkFileStep, SinkBytesStep, SinkRecordStep DEF Sink
    <2>4. ASSUME NEW p \in Files, NEW size \in {None, 1}, ShellChanges(p, size) PROVE Inv'
      BY <2>4, ShellStep
    <2> QED BY <2>1, <2>2, <2>3, <2>4 DEF Next
  <1> QED BY <1>1, <1>2, PTL DEF Spec

\* sftp.go and scp.go: every upload of a connection is recorded exactly once
\* unless the list is full, and all channels together stay within the budget.
THEOREM TransfersAreSound == Spec => []TransfersSound
  BY InvHolds, InvImpliesSound, PTL

\* Only a close and the end of a sink's file add a record.
LEMMA RecordsComeFrom ==
    ASSUME Inv, Next, Len(transfers') > Len(transfers)
    PROVE  LET t == Last(transfers')
           IN  IF t.complete
               THEN /\ t.size = Len(t.hash)
                    /\ \/ \E c \in Channels : \E h \in Slots(c) :
                            h \notin DOMAIN handles'[c] /\ t.hash = handles[c][h].sent
                       \/ \E s \in Sinks : sink[s].at = "body" /\ sink'[s].at # "body" /\ t.hash = sink[s].hash
               ELSE t.hash = None
  <1> DEFINE t == Last(transfers')
             Honestly == IF t.complete
                  THEN /\ t.size = Len(t.hash)
                       /\ \/ \E c \in Channels : \E h \in Slots(c) :
                               h \notin DOMAIN handles'[c] /\ t.hash = handles[c][h].sent
                          \/ \E s \in Sinks : sink[s].at = "body" /\ sink'[s].at # "body" /\ t.hash = sink[s].hash
                  ELSE t.hash = None
  <1>1. transfers \in Seq(Record) /\ Len(transfers) \in Nat
    BY LenProperties DEF Inv, SessionOK
  <1>2. transfers' # transfers
    BY <1>1
  <1>3. ASSUME NEW r, r \in Record, appendTransfer(r)
        PROVE  t = r
    <2>1. transfers' = Append(transfers, r)
      BY <1>2, <1>3 DEF appendTransfer
    <2>2. /\ Append(transfers, r) \in Seq(Record) /\ Len(Append(transfers, r)) = Len(transfers) + 1
          /\ Append(transfers, r)[Len(transfers) + 1] = r
      BY <1>1, <1>3, AppendProperties
    <2> QED BY <2>1, <2>2 DEF Last
  <1> HIDE DEF t
  <1>4. ASSUME NEW c \in Channels, NEW h \in Slots(c), NEW clean \in BOOLEAN, CloseHandle(c, h, clean)
        PROVE  Honestly
    <2> DEFINE f == handles[c][h]
               complete == clean /\ f.hashing /\ ~f.capped /\ f.next = f.size
               r == [size |-> f.size, complete |-> complete, hash |-> IF complete THEN f.hash ELSE None]
    <2>1. f \in Handle /\ Honest(f)
      BY DEF Inv, HandlesOK, HandlesHonest
    <2>2. DropHandle(c, h) /\ appendTransfer(r)
      BY <1>2, <1>4 DEF CloseHandle
    <2>3. r \in Record
      <3>1. f.size \in 0 .. MaxFileBytes /\ f.hash \in Content
        BY <2>1, HandleFields
      <3>2. f.size \in 0 .. MaxFileBytes + 1 /\ complete \in BOOLEAN
        BY <3>1, Limits
      <3> HIDE DEF complete
      <3>3. (IF complete THEN f.hash ELSE None) \in Content \cup {None}
        BY <3>1
      <3> QED BY <3>2, <3>3 DEF Record
    <2>4. t = r
      BY <1>3, <2>2, <2>3
    <2>5. complete => f.sent = f.hash /\ f.size = Len(f.hash)
      BY <2>1 DEF Honest
    <2>6. h \notin DOMAIN handles'[c]
      <3>1. DOMAIN handles'[c] = Slots(c) \ {h}
        BY <2>2, DropHandleEffect DEF Inv
      <3> QED BY <3>1
    <2> HIDE DEF complete
    <2>7. t.size = f.size /\ (t.complete <=> complete) /\ t.hash = IF complete THEN f.hash ELSE None
      BY <2>4
    <2> HIDE DEF r
    <2> QED BY <2>5, <2>6, <2>7
  <1>5. ASSUME NEW s \in Sinks, SinkBreaks(s) \/ SinkDone(s)
        PROVE  Honestly
    <2>1. /\ sink[s].at = "body"
      BY <1>5 DEF SinkBreaks, SinkDone
    <2>2. PICK complete \in BOOLEAN : SinkRecord(s, complete) /\ (complete => Len(sink[s].hash) = sink[s].size)
      BY <1>5 DEF SinkBreaks, SinkDone
    <2>3. /\ sink[s].size \in 0 .. MaxFileBytes /\ sink[s].hash \in Seq(Byte)
          /\ Len(sink[s].hash) <= sink[s].size /\ sink[s].depth \in 1 .. MaxDepth
      BY SinkFields
    <2>4. Len(sink[s].hash) <= MaxFileBytes
      BY <2>3, LenProperties, Limits
    <2> DEFINE r == [size |-> sink[s].size, complete |-> complete,
                     hash |-> IF complete THEN sink[s].hash ELSE None]
    <2>5. r \in Record
      <3>1. sink[s].size \in 0 .. MaxFileBytes + 1
        BY <2>3, Limits
      <3>2. (IF complete THEN sink[s].hash ELSE None) \in Content \cup {None}
        BY <2>3, <2>4, ContentOf
      <3> QED BY <3>1, <3>2 DEF Record
    <2>6. appendTransfer(r)
      BY <2>2 DEF SinkRecord
    <2>7. t = r
      BY <1>3, <2>5, <2>6
    <2>8. t.size = sink[s].size /\ (t.complete <=> complete) /\ t.hash = IF complete THEN sink[s].hash ELSE None
      BY <2>7
    <2> HIDE DEF r
    <2>9. sink'[s].at # "body"
      <3>1. sink' = [sink EXCEPT ![s] = Returned] \/ sink' = [sink EXCEPT ![s] = Waiting(sink[s].depth)]
        BY <1>5 DEF SinkBreaks, SinkDone
      <3>2. Returned.at = "ended" /\ Waiting(sink[s].depth).at = "line"
        BY <2>3, WaitingIsHonest
      <3>3. sink \in [Sinks -> SinkState]
        BY DEF Inv, SinksOK
      <3> HIDE DEF SinkState
      <3> QED BY <3>1, <3>2, <3>3
    <2> QED BY <2>1, <2>2, <2>8, <2>9
  <1>6. ASSUME NEW s \in Sinks, NEW size \in 0 .. MaxFileBytes + 1, SinkFile(s, size)
        PROVE  Honestly
    <2> DEFINE r == [size |-> size, complete |-> FALSE, hash |-> None]
    <2>1. appendTransfer(r)
      BY <1>2, <1>6 DEF SinkFile
    <2>2. r \in Record
      BY Zenon DEF Record
    <2>3. t = r
      BY <1>3, <2>1, <2>2
    <2>4. ~t.complete /\ t.hash = None
      BY <2>3
    <2> HIDE DEF r
    <2> QED BY <2>4
  <1> HIDE DEF Honestly
  <1>7. ASSUME NEW c \in Channels, Dispatch(c) PROVE Honestly
    <2>1. PICK h \in Slots(c) : close(c, h) \/ CloseLeftHandle(c, h)
      <3>1. /\ ~\E p \in Files, write, creat, excl, trunc \in BOOLEAN : OpenStat(c, p, write, creat, excl, trunc)
            /\ ~\E p \in Files, size \in {0, MaxFileBytes + 1} : SetstatStat(c, p, size)
            /\ ~\E p, q \in Files, overwrite \in BOOLEAN : RenameStat(c, p, q, overwrite)
            /\ ~\E p \in Files \cup {None} : RemoveFile(c, p)
        BY <1>2 DEF OpenStat, SetstatStat, RenameStat, RemoveFile, sessVars
      <3>2. ~(OpenCreate(c) \/ OpenRead(c) \/ Mutate(c) \/ TooManyChanges(c) \/ opendir(c) \/ End(c))
        BY <1>2 DEF OpenCreate, OpenRead, Mutate, TooManyChanges, opendir, End, sessVars
      <3>3. \A h \in Slots(c) : ~readdir(c, h)
        BY <1>2 DEF readdir, sessVars
      <3>4. \A h \in Slots(c) : \A off \in 0 .. MaxFileBytes + 1, data \in Chunks :
                ~writeFile(c, h, off, data) /\ ~WriteRefused(c, h, off, data)
        BY <1>2 DEF writeFile, WriteRefused, sessVars
      <3> QED BY <1>7, <3>1, <3>2, <3>3, <3>4 DEF Dispatch
    <2> QED BY <1>4, <2>1 DEF close, CloseLeftHandle
  <1>8. ASSUME NEW s \in Sinks, Sink(s) PROVE Honestly
    <2>1. \/ SinkBreaks(s) \/ SinkDone(s)
          \/ \E size \in 0 .. MaxFileBytes + 1 : SinkFile(s, size)
      BY <1>2, <1>8 DEF Sink, SinkDirectory, SinkBytes, SinkEnds, sessVars
    <2> QED BY <1>5, <1>6, <2>1
  <1>9. ~\E p \in Files, size \in {None, 1} : ShellChanges(p, size)
    BY <1>2 DEF ShellChanges, sessVars
  <1>10. Honestly
    BY <1>7, <1>8, <1>9 DEF Next
  <1> QED BY <1>10 DEF Honestly, t

\* sftp.go, closeHandle and scp.go, the sink: a record that is complete has the
\* hash of exactly the bytes the client sent, and no other record has a hash.
THEOREM HashesAreHonest == Spec => HashIsHonest
  <1> DEFINE A == Len(transfers') > Len(transfers) =>
         LET t == Last(transfers')
         IN  IF t.complete
             THEN /\ t.size = Len(t.hash)
                  /\ \/ \E c \in Channels : \E h \in Slots(c) :
                          h \notin DOMAIN handles'[c] /\ t.hash = handles[c][h].sent
                     \/ \E s \in Sinks : sink[s].at = "body" /\ sink'[s].at # "body" /\ t.hash = sink[s].hash
             ELSE t.hash = None
  <1>1. ASSUME Inv, Next PROVE A
    BY <1>1, RecordsComeFrom
  <1>2. ASSUME Inv, [Next]_vars PROVE [A]_vars
    BY <1>1, <1>2
  <1> QED BY <1>2, InvHolds, PTL DEF Spec, HashIsHonest

=============================================================================
