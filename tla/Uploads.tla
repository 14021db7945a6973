------------------------------ MODULE Uploads ------------------------------
(***************************************************************************)
(* File uploads of one connection (internal/server: sftp.go and scp.go).   *)
(* Every sftp channel has its own handles and its own count of changes;    *)
(* all channels share the box's files, the session's upload budget and its *)
(* list of transfers.  Content is hashed as it arrives and not kept: a     *)
(* hash is modelled as the bytes that went into it.                        *)
(*                                                                         *)
(* A request that looks a path up and then changes it takes the machine's  *)
(* lock once for each, so it is two steps.  Directories and the contents   *)
(* of base files are in OverlayFs.  Requests that only read, malformed     *)
(* packets (which end the subsystem) and the reply's texts are left out.   *)
(***************************************************************************)
EXTENDS Naturals, Sequences, FiniteSets, FiniteSetsExt, SequencesExt

CONSTANTS
    Channels,         \* sftp channels
    Sinks,            \* channels running scp -t
    Files,            \* paths
    Existing,         \* function: the paths there at the start, and their sizes
    Byte,             \* values of a byte
    MaxChunk,         \* bound: the longest write
    MaxUploads,       \* bound: uploads begun
    MaxHandles,       \* sftpMaxHandles
    MaxMutations,     \* sftpMaxMutations
    DirBatch,         \* sftpDirBatch
    MaxFileBytes,     \* uploadMaxFileBytes
    MaxSessionBytes,  \* uploadMaxSessionBytes
    MaxTransfers,     \* maxFileTransfers
    MaxDepth,         \* scpMaxDepth
    None

ASSUME BoundsAssumption ==
    /\ {MaxChunk, MaxUploads, MaxHandles, MaxMutations, DirBatch, MaxFileBytes,
        MaxSessionBytes, MaxTransfers, MaxDepth} \subseteq Nat
    /\ MaxFileBytes >= 1 /\ MaxDepth >= 1
    /\ IsFiniteSet(Channels) /\ IsFiniteSet(Sinks) /\ IsFiniteSet(Files)
    /\ DOMAIN Existing \subseteq Files
    /\ \A f \in DOMAIN Existing : Existing[f] \in 0 .. MaxFileBytes
    /\ None \notin Byte

VARIABLES
    files,        \* size of each file of the box, None if there is none
    handles,      \* sftpServer.handles of each channel
    mutations,    \* sftpServer.mutations
    request,      \* the request a channel has looked up and not yet carried out
    ended,        \* channels whose runSFTP loop has returned
    sink,         \* each scp sink: the directory depth and the file under way
    uploadBytes,  \* sessionGuard.uploadBytes
    transfers,    \* sess.FileTransfers
    begun,        \* uploads begun, over all channels
    received      \* upload bytes acknowledged, over all channels

sftpVars == <<handles, mutations, request, ended>>
sessVars == <<uploadBytes, transfers, begun, received>>
vars     == <<files, sftpVars, sink, sessVars>>

Chunks  == UNION {[1 .. n -> Byte] : n \in 0 .. MaxChunk}
Content == UNION {[1 .. n -> Byte \cup {None}] : n \in 0 .. MaxFileBytes + 1 + MaxChunk}

Handle == [path : Files \cup {None}, listing : BOOLEAN, left : 0 .. Cardinality(Files),
           write : BOOLEAN, hash : Content, next : 0 .. MaxFileBytes,
           size : 0 .. MaxFileBytes, hashing : BOOLEAN, capped : BOOLEAN, record : BOOLEAN,
           sent : Content]   \* sent: what the client's writes make of an empty file,
                             \* refused ones included, while a hash is still possible

Record == [size : 0 .. MaxFileBytes + 1, complete : BOOLEAN, hash : Content \cup {None}]

\* A sink between two records, and one that has returned.
Waiting(depth) == [at |-> "line", depth |-> depth, size |-> 0, hash |-> <<>>]
Returned       == [Waiting(1) EXCEPT !.at = "ended"]

Init ==
    /\ files = [f \in Files |-> IF f \in DOMAIN Existing THEN Existing[f] ELSE None]
    /\ handles = [c \in Channels |-> <<>>]
    /\ mutations = [c \in Channels |-> 0]
    /\ request = [c \in Channels |-> None]
    /\ ended = {}
    /\ sink = [s \in Sinks |-> Waiting(1)]
    /\ uploadBytes = 0
    /\ transfers = <<>>
    /\ begun = 0
    /\ received = 0

-----------------------------------------------------------------------------
(* The session's budget and its list of transfers *)

\* reserveUpload finds n bytes left.
Reserves(n) == uploadBytes + n <= MaxSessionBytes

appendTransfer(r) ==
    transfers' = IF Len(transfers) >= MaxTransfers THEN transfers ELSE Append(transfers, r)

\* One more upload that has to be recorded, if new.
Begin(new) == begun' = (IF new THEN begun + 1 ELSE begun) /\ (new => begun < MaxUploads)

-----------------------------------------------------------------------------
(* sftp: handles *)

Serving(c) == c \notin ended /\ request[c] = None

Slots(c) == DOMAIN handles[c]

HasSlot(c) == Cardinality(Slots(c)) < MaxHandles

\* The lowest free slot.
FreeSlot(c) == Min({h \in 0 .. MaxHandles : h \notin Slots(c)})

SetHandle(c, h, f) ==
    handles' = [handles EXCEPT ![c] = [k \in Slots(c) \cup {h} |-> IF k = h THEN f ELSE @[k]]]

DropHandle(c, h) ==
    handles' = [handles EXCEPT ![c] = [k \in Slots(c) \ {h} |-> @[k]]]

\* newHandle: f gets a slot, or the request fails and f is gone.
NewHandle(c, f) ==
    IF HasSlot(c) THEN SetHandle(c, FreeSlot(c), f) ELSE UNCHANGED handles

Listing == [path |-> None, listing |-> TRUE, left |-> 0, write |-> FALSE, hash |-> <<>>,
            next |-> 0, size |-> 0, hashing |-> FALSE, capped |-> FALSE, record |-> FALSE,
            sent |-> <<>>]

\* A handle open makes: exists and size are what Stat said, which may be old by
\* now; nothing is known of the bytes a file had before.
Opened(r) ==
    LET fresh == ~r.exists \/ r.trunc
    IN  [Listing EXCEPT !.path = r.path, !.listing = FALSE, !.write = r.write,
                        !.size = r.size, !.hashing = fresh, !.record = fresh]

\* open: Stat and the checks on its answer.  A file opened for reading is not
\* truncated, and the size matters to a write into what is there.
OpenStat(c, p, write, creat, excl, trunc) ==
    LET exists == files[p] # None
    IN  /\ Serving(c)
        /\ ~(creat /\ excl /\ exists)
        /\ exists \/ creat
        /\ request' = [request EXCEPT ![c] =
              [op |-> "open", path |-> p, write |-> write, exists |-> exists,
               trunc |-> trunc /\ (write \/ ~exists),
               size |-> IF exists /\ write /\ ~trunc THEN files[p] ELSE 0]]
        /\ UNCHANGED <<files, handles, mutations, ended, sink, sessVars>>

\* open: CreateFile, and the handle.
OpenCreate(c) ==
    LET r == request[c]
    IN  /\ r # None /\ r.op = "open"
        /\ r.write \/ ~r.exists
        /\ mutations[c] < MaxMutations
        /\ mutations' = [mutations EXCEPT ![c] = @ + 1]
        /\ files' = [files EXCEPT ![r.path] = IF @ = None \/ r.trunc THEN 0 ELSE @]
        /\ NewHandle(c, Opened(r))
        /\ Begin(HasSlot(c) /\ r.write /\ Opened(r).record)
        /\ request' = [request EXCEPT ![c] = None]
        /\ UNCHANGED <<ended, sink, uploadBytes, transfers, received>>

\* open for reading only.
OpenRead(c) ==
    LET r == request[c]
    IN  /\ r # None /\ r.op = "open"
        /\ ~r.write /\ r.exists
        /\ NewHandle(c, Opened(r))
        /\ request' = [request EXCEPT ![c] = None]
        /\ UNCHANGED <<files, mutations, ended, sink, sessVars>>

\* open and the other changes fail once there were too many.
TooManyChanges(c) ==
    /\ request[c] # None
    /\ mutations[c] >= MaxMutations
    /\ request[c].op = "open" => request[c].write \/ ~request[c].exists
    /\ request' = [request EXCEPT ![c] = None]
    /\ UNCHANGED <<files, handles, mutations, ended, sink, sessVars>>

opendir(c) ==
    /\ Serving(c)
    /\ NewHandle(c, [Listing EXCEPT !.left = Cardinality({f \in Files : files[f] # None})])
    /\ UNCHANGED <<files, mutations, request, ended, sink, sessVars>>

readdir(c, h) ==
    LET f == handles[c][h]
    IN  /\ Serving(c) /\ f.listing
        /\ SetHandle(c, h, [f EXCEPT !.left = IF @ > DirBatch THEN @ - DirBatch ELSE 0])
        /\ UNCHANGED <<files, mutations, request, ended, sink, sessVars>>

-----------------------------------------------------------------------------
(* sftp: writes, and the end of an upload *)

\* The content img with data written at off, as far as its bytes are known.
Written(img, off, data) ==
    [i \in 1 .. Max({Len(img), IF data = <<>> THEN 0 ELSE off + Len(data)}) |->
        IF off < i /\ i <= off + Len(data) THEN data[i - off]
        ELSE IF i <= Len(img) THEN img[i] ELSE None]

Writable(c, h) == Serving(c) /\ handles[c][h].write

\* The write is refused: the file or the session is over its cap.
Refused(f, off, data) ==
    \/ f.capped
    \/ off > MaxFileBytes
    \/ off + Len(data) > MaxFileBytes
    \/ ~Reserves(Len(data))

\* Mutant: the handle forgets that a write was refused.
WriteRefusedOnce(c, h, off, data) ==
    LET f == handles[c][h]
    IN  /\ Writable(c, h)
        /\ Refused(f, off, data)
        /\ SetHandle(c, h, [f EXCEPT !.sent = Written(@, off, data)])
        /\ UNCHANGED <<files, mutations, request, ended, sink, sessVars>>

WriteRefused(c, h, off, data) ==
    LET f == handles[c][h]
    IN  /\ Writable(c, h)
        /\ Refused(f, off, data)
        /\ SetHandle(c, h, [f EXCEPT !.capped = TRUE, !.sent = <<>>])
        /\ UNCHANGED <<files, mutations, request, ended, sink, sessVars>>

writeFile(c, h, off, data) ==
    LET f     == handles[c][h]
        end   == off + Len(data)
        lands == f.hashing /\ off = f.next
    IN  /\ Writable(c, h)
        /\ ~Refused(f, off, data)
        /\ uploadBytes' = uploadBytes + Len(data)
        /\ SetHandle(c, h, [f EXCEPT
              !.record  = TRUE,
              !.hashing = lands,
              !.hash    = IF lands THEN @ \o data ELSE @,
              !.next    = IF lands THEN end ELSE @,
              !.size    = Max({@, end}),
              !.sent    = IF lands THEN Written(@, off, data) ELSE <<>>])
        /\ files' = [files EXCEPT ![f.path] = IF @ # None /\ end > f.size THEN end ELSE @]
        /\ Begin(~f.record)
        /\ received' = received + Len(data)
        /\ UNCHANGED <<mutations, request, ended, sink, transfers>>

\* closeHandle: an upload is recorded, with its hash if it is complete.
CloseHandle(c, h, clean) ==
    LET f        == handles[c][h]
        complete == clean /\ f.hashing /\ ~f.capped /\ f.next = f.size
    IN  /\ DropHandle(c, h)
        /\ IF f.write /\ f.record
           THEN appendTransfer([size |-> f.size, complete |-> complete,
                                hash |-> IF complete THEN f.hash ELSE None])
           ELSE UNCHANGED transfers
        /\ UNCHANGED <<files, mutations, request, ended, sink, uploadBytes, begun, received>>

close(c, h) == Serving(c) /\ CloseHandle(c, h, TRUE)

\* The client closes its side, breaks the protocol, or sent sftpMaxPackets.
End(c) ==
    /\ Serving(c)
    /\ ended' = ended \cup {c}
    /\ UNCHANGED <<files, handles, mutations, request, sink, sessVars>>

\* Mutant: the handles left open are dropped.
ForgetHandle(c, h) ==
    /\ c \in ended
    /\ DropHandle(c, h)
    /\ UNCHANGED <<files, mutations, request, ended, sink, sessVars>>

\* runSFTP's deferred function, in the order of a Go map.
CloseLeftHandle(c, h) == c \in ended /\ CloseHandle(c, h, FALSE)

-----------------------------------------------------------------------------
(* sftp: other changes *)

\* setstat and rename look their paths up first.
SetstatStat(c, p, size) ==
    /\ Serving(c)
    /\ files[p] # None
    /\ request' = [request EXCEPT ![c] = [op |-> "setstat", path |-> p, size |-> Min({size, MaxFileBytes})]]
    /\ UNCHANGED <<files, handles, mutations, ended, sink, sessVars>>

RenameStat(c, p, q, overwrite) ==
    /\ Serving(c)
    /\ files[p] # None
    /\ files[q] = None \/ overwrite
    /\ request' = [request EXCEPT ![c] = [op |-> "rename", path |-> p, to |-> q]]
    /\ UNCHANGED <<files, handles, mutations, ended, sink, sessVars>>

\* mutate: the change is counted, and made if it still can be.
Mutate(c) ==
    LET r == request[c]
    IN  /\ r # None /\ r.op # "open"
        /\ mutations[c] < MaxMutations
        /\ mutations' = [mutations EXCEPT ![c] = @ + 1]
        /\ files' =
              IF files[r.path] = None THEN files
              ELSE IF r.op = "setstat" THEN [files EXCEPT ![r.path] = r.size]
              ELSE IF r.to = r.path THEN files
              ELSE [files EXCEPT ![r.path] = None, ![r.to] = files[r.path]]
        /\ request' = [request EXCEPT ![c] = None]
        /\ UNCHANGED <<handles, ended, sink, sessVars>>

\* remove; mkdir and rmdir, which change no file, are counted as p = None.
RemoveFile(c, p) ==
    /\ Serving(c)
    /\ mutations[c] < MaxMutations
    /\ mutations' = [mutations EXCEPT ![c] = @ + 1]
    /\ files' = IF p = None THEN files ELSE [files EXCEPT ![p] = None]
    /\ UNCHANGED <<handles, request, ended, sink, sessVars>>

-----------------------------------------------------------------------------
(* scp: the receiving side *)

\* A 'D' or 'E' record.
SinkDirectory(s, enter) ==
    /\ sink[s].at = "line"
    /\ IF enter
       THEN IF sink[s].depth >= MaxDepth
            THEN sink' = [sink EXCEPT ![s] = Returned]
            ELSE sink' = [sink EXCEPT ![s].depth = @ + 1]
       ELSE sink' = [sink EXCEPT ![s].depth = IF @ > 1 THEN @ - 1 ELSE @]
    /\ UNCHANGED <<files, sftpVars, sessVars>>

\* Every file the sink was asked to take is recorded, complete or not.
SinkRecord(s, complete) ==
    appendTransfer([size |-> sink[s].size, complete |-> complete,
                    hash |-> IF complete THEN sink[s].hash ELSE None])

\* A 'C' record: the declared size is reserved, or the transfer ends.
SinkFile(s, size) ==
    /\ sink[s].at = "line"
    /\ Begin(TRUE)
    /\ IF size > MaxFileBytes \/ ~Reserves(size)
       THEN /\ sink' = [sink EXCEPT ![s] = Returned]
            /\ appendTransfer([size |-> size, complete |-> FALSE, hash |-> None])
            /\ UNCHANGED uploadBytes
       ELSE /\ sink' = [sink EXCEPT ![s] = [@ EXCEPT !.at = "body", !.size = size]]
            /\ uploadBytes' = uploadBytes + size
            /\ UNCHANGED transfers
    /\ UNCHANGED <<files, sftpVars, received>>

SinkBytes(s, data) ==
    /\ sink[s].at = "body"
    /\ data # <<>> /\ Len(sink[s].hash) + Len(data) <= sink[s].size
    /\ sink' = [sink EXCEPT ![s].hash = @ \o data]
    /\ received' = received + Len(data)
    /\ UNCHANGED <<files, sftpVars, uploadBytes, transfers, begun>>

\* The stream breaks inside a file, or the source reports an error after it.
SinkBreaks(s) ==
    /\ sink[s].at = "body"
    /\ SinkRecord(s, FALSE)
    /\ sink' = [sink EXCEPT ![s] = Returned]
    /\ UNCHANGED <<files, sftpVars, uploadBytes, begun, received>>

\* All bytes are there, and the status byte after them is zero.
SinkDone(s) ==
    /\ sink[s].at = "body"
    /\ Len(sink[s].hash) = sink[s].size
    /\ SinkRecord(s, TRUE)
    /\ sink' = [sink EXCEPT ![s] = Waiting(@.depth)]
    /\ UNCHANGED <<files, sftpVars, uploadBytes, begun, received>>

\* End of input, or a protocol error.
SinkEnds(s) ==
    /\ sink[s].at = "line"
    /\ sink' = [sink EXCEPT ![s] = Returned]
    /\ UNCHANGED <<files, sftpVars, sessVars>>

-----------------------------------------------------------------------------
\* A shell of the same connection writes or removes a file.
ShellChanges(p, size) ==
    /\ files[p] # size
    /\ files' = [files EXCEPT ![p] = size]
    /\ UNCHANGED <<sftpVars, sink, sessVars>>

Dispatch(c) ==
    \/ \E p \in Files, write, creat, excl, trunc \in BOOLEAN : OpenStat(c, p, write, creat, excl, trunc)
    \/ OpenCreate(c) \/ OpenRead(c) \/ Mutate(c) \/ TooManyChanges(c) \/ opendir(c) \/ End(c)
    \/ \E p \in Files, size \in {0, MaxFileBytes + 1} : SetstatStat(c, p, size)
    \/ \E p, q \in Files, overwrite \in BOOLEAN : RenameStat(c, p, q, overwrite)
    \/ \E p \in Files \cup {None} : RemoveFile(c, p)
    \/ \E h \in Slots(c) :
          \/ readdir(c, h) \/ close(c, h) \/ CloseLeftHandle(c, h)
          \/ \E off \in 0 .. MaxFileBytes + 1, data \in Chunks :
                writeFile(c, h, off, data) \/ WriteRefused(c, h, off, data)

Sink(s) ==
    \/ \E enter \in BOOLEAN : SinkDirectory(s, enter)
    \/ \E size \in 0 .. MaxFileBytes + 1 : SinkFile(s, size)
    \/ \E data \in Chunks : SinkBytes(s, data)
    \/ SinkBreaks(s) \/ SinkDone(s) \/ SinkEnds(s)

Next ==
    \/ \E c \in Channels : Dispatch(c)
    \/ \E s \in Sinks : Sink(s)
    \/ \E p \in Files, size \in {None, 1} : ShellChanges(p, size)

Spec == Init /\ [][Next]_vars

-----------------------------------------------------------------------------
(* Properties *)

\* Type invariant, with the caps on handles, changes and recorded transfers.
TypeOK ==
    /\ files \in [Files -> (0 .. MaxFileBytes) \cup {None}]
    /\ \A c \in Channels : Slots(c) \subseteq 0 .. MaxHandles - 1
          /\ \A h \in Slots(c) : handles[c][h] \in Handle
    /\ mutations \in [Channels -> 0 .. MaxMutations]
    /\ ended \subseteq Channels
    /\ \A s \in Sinks : sink[s].at \in {"line", "body", "ended"} /\ sink[s].depth \in 1 .. MaxDepth
    /\ transfers \in Seq(Record) /\ Len(transfers) <= MaxTransfers
    /\ uploadBytes \in Nat /\ begun \in 0 .. MaxUploads /\ received \in Nat

\* The hash of a transfer recorded as complete is the hash of exactly what the
\* client sent to it, byte for byte and in the order of the file, refused writes
\* included: gaps, overlaps, rewrites, a cap in between or a dropped connection
\* leave a record without a hash.
HashIsHonest ==
    [][Len(transfers') > Len(transfers) =>
         LET t == Last(transfers')
         IN  IF t.complete
             THEN /\ t.size = Len(t.hash)
                  /\ \/ \E c \in Channels : \E h \in Slots(c) :
                          h \notin DOMAIN handles'[c] /\ t.hash = handles[c][h].sent
                     \/ \E s \in Sinks : sink[s].at = "body" /\ sink'[s].at # "body" /\ t.hash = sink[s].hash
             ELSE t.hash = None]_vars

\* All channels together never take more than the session's budget.
BudgetHolds == received <= MaxSessionBytes

\* The uploads under way: the handles, and the sinks inside a file.
OpenUploads == {ch \in Channels \X (0 .. MaxHandles) :
    /\ ch[2] \in Slots(ch[1])
    /\ handles[ch[1]][ch[2]].write /\ handles[ch[1]][ch[2]].record}
OpenSinks == {s \in Sinks : sink[s].at = "body"}

\* Every upload ends up in the session's transfers exactly once, unless the list
\* is full: closed, cut off, or left open when its channel ends, which is why
\* none is still owed once every channel has finished with its handles.
EveryUploadRecorded ==
    Len(transfers) = Min({MaxTransfers, begun - (Cardinality(OpenUploads) + Cardinality(OpenSinks))})

\* Every upload is recorded once, and all of them stay within the budget.
TransfersSound == TypeOK /\ BudgetHolds /\ EveryUploadRecorded

=============================================================================
