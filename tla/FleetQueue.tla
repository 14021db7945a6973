------------------------------ MODULE FleetQueue ------------------------------
(***************************************************************************)
(* The durable retry queue between a sensor and mirage-fleet               *)
(* (internal/fleet/queue.go) together with its two users: PushSession,     *)
(* which runs on the goroutine that finalises a session, and the heartbeat *)
(* goroutine's DrainQueue (internal/fleet/client.go, heartbeat.go).        *)
(*                                                                         *)
(* A file is the sequence of writes that produced it.  A chunk records     *)
(* whose bytes it holds and how many: a complete append of p is            *)
(* Size[p] + 1 bytes, the last one the newline; a torn write (ENOSPC)      *)
(* leaves fewer and no newline, so the next append lands on the same line. *)
(* A missing file and an empty one are the same empty sequence: every      *)
(* operation of the queue treats them alike, up to a drain that finds      *)
(* nothing to send.                                                        *)
(***************************************************************************)
EXTENDS Naturals, Sequences, FiniteSets

CONSTANTS
    Payloads,     \* finished sessions, one goroutine each pushes it once
    Drainers,     \* callers of DrainQueue
    NoOne,        \* nobody holds the mutex / no drain is running
    Size,         \* marshalled bytes of each payload
    MaxPayload,   \* maxPayloadBytes
    MaxBytes,     \* Queue.maxBytes
    TornWrites,   \* whether a failing append may leave a fragment behind
    NetFaults,    \* bound: sends that fail transiently
    DiskFaults,   \* bound: file operations that fail
    Crashes       \* bound: process crashes

ASSUME ActorsAssumption ==
    /\ Payloads \cap Drainers = {}
    /\ NoOne \notin Payloads \cup Drainers
ASSUME BytesAssumption ==
    /\ Size \in [Payloads -> Nat \ {0}]
    /\ MaxPayload \in Nat \ {0}
    /\ MaxBytes \in Nat \ {0}
ASSUME FaultsAssumption ==
    /\ TornWrites \in BOOLEAN
    /\ NetFaults \in Nat
    /\ DiskFaults \in Nat
    /\ Crashes \in Nat

VARIABLES
    live,              \* the file at q.path
    claimed,           \* the file at q.path + ".draining"
    tmp,               \* the file at q.path + ".tmp"
    mu,                \* holder of q.mu, between the steps of a critical section
    draining,          \* the drain that won the compare-and-swap
    stage,             \* where each payload's PushSession is
    pc,                \* where each drainer is
    offset,            \* chunks of the claimed file each drainer is done with
    droppedPermanent, droppedOversized, droppedEvicted,  \* Stats, volatile
    order,             \* history: payloads in the order they were appended
    fate,              \* history: what became of a queued payload
    acks,              \* history: 2xx answers received for each payload
    faults             \* faults the environment may still inject

files    == <<live, claimed, tmp>>
counters == <<droppedPermanent, droppedOversized, droppedEvicted>>
history  == <<order, fate, acks>>
vars     == <<files, mu, draining, stage, pc, offset, counters, history, faults>>

-----------------------------------------------------------------------------
(* Files, lines and bytes *)

Chunk == {c \in [id : Payloads, n : Nat] : c.n \in 1 .. Size[c.id] + 1}

Whole(c)      == c.n >= Size[c.id]        \* all of the payload's bytes
Terminated(c) == c.n = Size[c.id] + 1     \* and the newline

\* Bytes on disk of the chunks of f.
Bytes(f) ==
    LET upTo[i \in 0 .. Len(f)] == IF i = 0 THEN 0 ELSE upTo[i - 1] + f[i].n
    IN  upTo[Len(f)]

\* readRecord: positions at which a record of f ends.
Ends(f) == {j \in 1 .. Len(f) : Terminated(f[j]) \/ j = Len(f)}

\* readRecord: the record that starts after chunk i of f ends with chunk j.
IsRecord(f, i, j) == j \in Ends(f) /\ j > i /\ \A k \in Ends(f) : k > i => j <= k

\* The record's length without its newline, which maxPayloadBytes limits.
RecordLen(f, i, j) ==
    Bytes(SubSeq(f, i + 1, j)) - (IF Terminated(f[j]) THEN 1 ELSE 0)

After(f, i) == SubSeq(f, i + 1, Len(f))

\* Payloads all of whose bytes are in the chunks i..j of f.
Held(f, i, j) == {f[k].id : k \in {m \in i .. j : Whole(f[m])}}

Contents(f) == Held(f, 1, Len(f))

OnDisk == Contents(live) \cup Contents(claimed)

-----------------------------------------------------------------------------
(* Environment faults *)

Fault(kind) ==
    /\ faults[kind] > 0
    /\ faults' = [faults EXCEPT ![kind] = @ - 1]


\* Every member of S meets the end w, on top of what it met before.
Settle(S, w) == fate' = [p \in Payloads |-> IF p \in S THEN fate[p] \cup {w} ELSE fate[p]]

-----------------------------------------------------------------------------
Init ==
    /\ live = <<>> /\ claimed = <<>> /\ tmp = <<>>
    /\ mu = NoOne /\ draining = NoOne
    /\ stage = [p \in Payloads |-> "new"]
    /\ pc = [d \in Drainers |-> "idle"]
    /\ offset = [d \in Drainers |-> 0]
    /\ droppedPermanent = 0 /\ droppedOversized = 0 /\ droppedEvicted = 0
    /\ order = <<>>
    /\ fate = [p \in Payloads |-> {}]
    /\ acks = [p \in Payloads |-> 0]
    /\ faults = [net |-> NetFaults, disk |-> DiskFaults, crash |-> Crashes]

-----------------------------------------------------------------------------
(* PushSession and Enqueue, on the goroutine that finalised session p *)

\* post answers 2xx.
PushDelivered(p) ==
    /\ stage[p] = "new"
    /\ stage' = [stage EXCEPT ![p] = "delivered"]
    /\ acks' = [acks EXCEPT ![p] = @ + 1]
    /\ UNCHANGED <<files, mu, draining, pc, offset, counters, order, fate, faults>>

\* post answers a 4xx other than 408 and 429: counted and dropped.
PushRejected(p) ==
    /\ stage[p] = "new"
    /\ stage' = [stage EXCEPT ![p] = "rejected"]
    /\ droppedPermanent' = droppedPermanent + 1
    /\ UNCHANGED <<files, mu, draining, pc, offset, droppedOversized, droppedEvicted,
                   history, faults>>

\* Anything else (no answer, timeout, 3xx, 408, 429, 5xx) sends p to Enqueue.
\* The fleet may have stored p even so: the sensor cannot tell.
PushFailed(p) ==
    /\ stage[p] = "new"
    /\ Fault("net")
    /\ stage' = [stage EXCEPT ![p] = "enqueue"]
    /\ UNCHANGED <<files, mu, draining, pc, offset, counters, history>>

EnqueueOversized(p) ==
    /\ stage[p] = "enqueue"
    /\ Size[p] > MaxPayload
    /\ stage' = [stage EXCEPT ![p] = "oversized"]
    /\ droppedOversized' = droppedOversized + 1
    /\ UNCHANGED <<files, mu, draining, pc, offset, droppedPermanent, droppedEvicted,
                   history, faults>>

\* Mutant: the payload already ends in a newline and gets another.
EnqueueAppendTwoNewlines(p) ==
    /\ stage[p] = "enqueue"
    /\ Size[p] <= MaxPayload
    /\ mu = NoOne
    /\ live' = Append(live, [id |-> p, n |-> Size[p] + 2])
    /\ order' = Append(order, p)
    /\ stage' = [stage EXCEPT ![p] = "queued"]
    /\ UNCHANGED <<claimed, tmp, mu, draining, pc, offset, counters, fate, acks, faults>>

\* The append succeeds.  Under the bound Enqueue returns and unlocks; over it
\* the goroutine keeps the mutex and goes on to evict.
EnqueueAppend(p) ==
    /\ stage[p] = "enqueue"
    /\ Size[p] <= MaxPayload
    /\ mu = NoOne
    /\ live' = Append(live, [id |-> p, n |-> Size[p] + 1])
    /\ order' = Append(order, p)
    /\ IF Bytes(live') <= MaxBytes
       THEN /\ stage' = [stage EXCEPT ![p] = "queued"]
            /\ UNCHANGED mu
       ELSE /\ stage' = [stage EXCEPT ![p] = "evict"]
            /\ mu' = p
    /\ UNCHANGED <<claimed, tmp, draining, pc, offset, counters, fate, acks, faults>>

\* Opening or writing the file fails; a failed write may leave the first n
\* bytes behind.  Enqueue reports the error and PushSession only logs it.
EnqueueFails(p) ==
    /\ stage[p] = "enqueue"
    /\ Size[p] <= MaxPayload
    /\ mu = NoOne
    /\ Fault("disk")
    /\ stage' = [stage EXCEPT ![p] = "failed"]
    /\ \/ UNCHANGED live
       \/ /\ TornWrites
          /\ \E n \in 1 .. Size[p] : live' = Append(live, [id |-> p, n |-> n])
    /\ UNCHANGED <<claimed, tmp, mu, draining, pc, offset, counters, history>>

-----------------------------------------------------------------------------
(* evictOldestLocked, with q.mu held by p *)

\* Mutant: dividing first loses the remainder.
EvictTargetRounded == (MaxBytes \div 5) * 4

EvictTarget == (MaxBytes * 4) \div 5

\* The loop drops whole records from the head of f until at most EvictTarget
\* bytes are left: the first k chunks go.
EvictsFirst(f, k) ==
    LET fits(i) == i \in Ends(f) \cup {0} /\ Bytes(After(f, i)) <= EvictTarget
    IN  fits(k) /\ \A i \in 0 .. k - 1 : ~fits(i)

EvictWriteTmp(p) ==
    /\ stage[p] = "evict"
    /\ \E k \in 0 .. Len(live) :
          /\ EvictsFirst(live, k)
          /\ tmp' = After(live, k)
    /\ stage' = [stage EXCEPT ![p] = "evictRename"]
    /\ UNCHANGED <<live, claimed, mu, draining, pc, offset, counters, history, faults>>

\* The rename replaces the live file; only then are the evicted lines counted.
EvictRename(p) ==
    /\ stage[p] = "evictRename"
    /\ LET k == Len(live) - Len(tmp)
       IN  /\ droppedEvicted' = droppedEvicted + Cardinality({j \in Ends(live) : j <= k})
           /\ Settle(Held(live, 1, k), "evicted")
    /\ live' = tmp
    /\ tmp' = <<>>
    /\ mu' = NoOne
    /\ stage' = [stage EXCEPT ![p] = "queued"]
    /\ UNCHANGED <<claimed, draining, pc, offset, droppedPermanent, droppedOversized,
                   order, acks, faults>>

\* A file operation of the eviction fails: p stays queued, the file over-long.
EvictFails(p) ==
    /\ stage[p] \in {"evict", "evictRename"}
    /\ Fault("disk")
    /\ mu' = NoOne
    /\ stage' = [stage EXCEPT ![p] = "failed"]
    /\ UNCHANGED <<files, draining, pc, offset, counters, history>>

-----------------------------------------------------------------------------
(* Drain, on a heartbeat tick *)

\* Mutant: no compare-and-swap.
DrainStartAnyway(d) ==
    /\ pc[d] = "idle"
    /\ draining' = d
    /\ pc' = [pc EXCEPT ![d] = "claim"]
    /\ UNCHANGED <<files, mu, stage, offset, counters, history, faults>>

\* The compare-and-swap: a drain that loses it returns at once.
DrainStart(d) ==
    /\ pc[d] = "idle"
    /\ draining = NoOne
    /\ draining' = d
    /\ pc' = [pc EXCEPT ![d] = "claim"]
    /\ UNCHANGED <<files, mu, stage, offset, counters, history, faults>>

\* Drain returns: the deferred draining.Store(false).
Return(d) ==
    /\ draining' = NoOne
    /\ pc' = [pc EXCEPT ![d] = "idle"]
    /\ offset' = [offset EXCEPT ![d] = 0]

\* Drain goes on with the claimed file, if there is one.
Decided(d) ==
    /\ pc[d] = "claim"
    /\ mu = NoOne
    /\ IF claimed' = <<>>
       THEN Return(d)
       ELSE /\ pc' = [pc EXCEPT ![d] = "send"]
            /\ offset' = [offset EXCEPT ![d] = 0]
            /\ UNCHANGED draining

\* What Claim does once the claimed file is decided on.
Proceed(d) ==
    /\ Decided(d)
    /\ UNCHANGED <<mu, stage, counters, history, faults>>

\* Mutant: a leftover claimed file is overwritten.
ClaimOverLeftover(d) ==
    /\ claimed' = live /\ live' = <<>> /\ UNCHANGED tmp
    /\ Proceed(d)

\* Mutant: what a leftover claimed file holds goes behind the live lines.
ClaimLeftoverLast(d) ==
    /\ claimed' = live \o claimed /\ live' = <<>> /\ UNCHANGED tmp
    /\ Proceed(d)

\* A claimed file left by an earlier drain is taken first, as it is; otherwise
\* the live file is renamed.
Claim(d) ==
    /\ IF claimed # <<>>
       THEN UNCHANGED files
       ELSE claimed' = live /\ live' = <<>> /\ UNCHANGED tmp
    /\ Proceed(d)

\* claim takes any error of os.Stat for "no leftover": when the call itself fails
\* although a claimed file is there, the live file is renamed over it, and what
\* only the leftover held is gone without a counter.
ClaimStatFails(d) ==
    /\ claimed # <<>>
    /\ Fault("disk")
    /\ Settle(Contents(claimed) \ Contents(live), "overwritten")
    /\ claimed' = live /\ live' = <<>>
    /\ Decided(d)
    /\ UNCHANGED <<tmp, mu, stage, counters, order, acks>>

\* os.Rename of the live file, or opening or reading the claimed one, fails, or
\* os.Stat of a leftover does while there is no live file to rename over it:
\* Drain returns and nothing is restored.
DrainFails(d) ==
    /\ pc[d] \in {"claim", "send"}
    /\ Fault("disk")
    /\ Return(d)
    /\ UNCHANGED <<files, mu, stage, counters, history>>

\* The record the drainer reads next ends with chunk j.
Reads(d, j) == pc[d] = "send" /\ IsRecord(claimed, offset[d], j)

AdvanceTo(d, j, why) ==
    /\ offset' = [offset EXCEPT ![d] = j]
    /\ Settle(Held(claimed, offset[d] + 1, j), why)
    /\ UNCHANGED <<files, mu, draining, stage, pc, order, faults>>

\* Mutant: an over-long record is an error of the reader (bufio.ErrTooLong) and
\* goes back into the queue.
SendStallsOnOversized(d) == \E j \in 1 .. Len(claimed) :
    /\ Reads(d, j)
    /\ RecordLen(claimed, offset[d], j) > MaxPayload
    /\ pc' = [pc EXCEPT ![d] = "restore"]
    /\ UNCHANGED <<files, mu, draining, stage, offset, counters, history, faults>>

\* An over-long record, which a torn write can leave, is skipped and counted.

SendSkipsOversized(d) == \E j \in 1 .. Len(claimed) :
    /\ Reads(d, j)
    /\ RecordLen(claimed, offset[d], j) > MaxPayload
    /\ droppedOversized' = droppedOversized + 1
    /\ AdvanceTo(d, j, "dropped")
    /\ UNCHANGED <<acks, droppedPermanent, droppedEvicted>>

\* The fleet takes a record only if it is exactly one marshalled session.
SendDelivered(d) == \E j \in 1 .. Len(claimed) :
    /\ Reads(d, j)
    /\ RecordLen(claimed, offset[d], j) <= MaxPayload
    /\ j = offset[d] + 1 /\ Whole(claimed[j])
    /\ acks' = [acks EXCEPT ![claimed[j].id] = @ + 1]
    /\ AdvanceTo(d, j, "delivered")
    /\ UNCHANGED counters

SendRejected(d) == \E j \in 1 .. Len(claimed) :
    /\ Reads(d, j)
    /\ RecordLen(claimed, offset[d], j) <= MaxPayload
    /\ droppedPermanent' = droppedPermanent + 1
    /\ AdvanceTo(d, j, "dropped")
    /\ UNCHANGED <<acks, droppedOversized, droppedEvicted>>

\* A transient failure ends the run; the offset stays at the record's start.
SendFailed(d) == \E j \in 1 .. Len(claimed) :
    /\ Reads(d, j)
    /\ RecordLen(claimed, offset[d], j) <= MaxPayload
    /\ Fault("net")
    /\ pc' = [pc EXCEPT ![d] = "restore"]
    /\ UNCHANGED <<files, mu, draining, stage, offset, counters, history>>

\* End of file: restore(claimed, -1) removes the claimed file under the mutex.
DrainDone(d) ==
    /\ pc[d] = "send"
    /\ offset[d] = Len(claimed)
    /\ mu = NoOne
    /\ claimed' = <<>>
    /\ Return(d)
    /\ UNCHANGED <<live, tmp, mu, stage, counters, history, faults>>

-----------------------------------------------------------------------------
(* restore, with q.mu held by d: write tmp, rename it, remove the claimed file *)

RestoreWriteTmp(d) ==
    /\ pc[d] = "restore"
    /\ mu = NoOne
    /\ mu' = d
    /\ tmp' = After(claimed, offset[d]) \o live
    /\ pc' = [pc EXCEPT ![d] = "restoreRename"]
    /\ UNCHANGED <<live, claimed, draining, stage, offset, counters, history, faults>>

RestoreRename(d) ==
    /\ pc[d] = "restoreRename"
    /\ live' = tmp
    /\ tmp' = <<>>
    /\ pc' = [pc EXCEPT ![d] = "restoreRemove"]
    /\ UNCHANGED <<claimed, mu, draining, stage, offset, counters, history, faults>>

RestoreRemove(d) ==
    /\ pc[d] = "restoreRemove"
    /\ claimed' = <<>>
    /\ mu' = NoOne
    /\ Return(d)
    /\ UNCHANGED <<live, tmp, stage, counters, history, faults>>

\* A file operation of restore fails, or the remove that ends a complete drain
\* does: the claimed file stays and the next drain sends all of it again.
RestoreFails(d) ==
    /\ \/ pc[d] = "restore" /\ mu = NoOne
       \/ pc[d] = "send" /\ offset[d] = Len(claimed) /\ mu = NoOne
       \/ pc[d] \in {"restoreRename", "restoreRemove"}
    /\ Fault("disk")
    /\ mu' = NoOne
    /\ Return(d)
    /\ UNCHANGED <<files, stage, counters, history>>

-----------------------------------------------------------------------------
\* The process dies and restarts: files survive, everything else starts anew.
\* A session whose push was under way is only in the local database.
Crash ==
    /\ Fault("crash")
    /\ mu' = NoOne /\ draining' = NoOne
    /\ stage' = [p \in Payloads |->
                    IF stage[p] \in {"enqueue", "evict", "evictRename"} THEN "failed" ELSE stage[p]]
    /\ pc' = [d \in Drainers |-> "idle"]
    /\ offset' = [d \in Drainers |-> 0]
    /\ droppedPermanent' = 0 /\ droppedOversized' = 0 /\ droppedEvicted' = 0
    /\ UNCHANGED <<files, history>>

Push(p) ==
    \/ PushDelivered(p) \/ PushRejected(p) \/ PushFailed(p)
    \/ EnqueueOversized(p) \/ EnqueueAppend(p) \/ EnqueueFails(p)
    \/ EvictWriteTmp(p) \/ EvictRename(p) \/ EvictFails(p)

Drain(d) ==
    \/ DrainStart(d) \/ Claim(d) \/ ClaimStatFails(d) \/ DrainFails(d)
    \/ SendSkipsOversized(d) \/ SendDelivered(d) \/ SendRejected(d) \/ SendFailed(d)
    \/ DrainDone(d)
    \/ RestoreWriteTmp(d) \/ RestoreRename(d) \/ RestoreRemove(d) \/ RestoreFails(d)

Next ==
    \/ \E p \in Payloads : Push(p)
    \/ \E d \in Drainers : Drain(d)
    \/ Crash

Spec == Init /\ [][Next]_vars

\* Goroutines run, and the heartbeat ticker keeps calling DrainQueue.
Fairness ==
    /\ \A p \in Payloads : WF_vars(Push(p))
    /\ \A d \in Drainers : WF_vars(Drain(d))

FairSpec == Spec /\ Fairness

-----------------------------------------------------------------------------
(* Properties *)

\* Type invariant.
TypeOK ==
    /\ live \in Seq(Chunk) /\ claimed \in Seq(Chunk) /\ tmp \in Seq(Chunk)
    /\ mu \in Payloads \cup Drainers \cup {NoOne}
    /\ draining \in Drainers \cup {NoOne}
    /\ stage \in [Payloads -> {"new", "delivered", "rejected", "enqueue", "oversized",
                               "queued", "failed", "evict", "evictRename"}]
    /\ pc \in [Drainers -> {"idle", "claim", "send", "restore", "restoreRename", "restoreRemove"}]
    /\ offset \in [Drainers -> Nat]
    /\ droppedPermanent \in Nat /\ droppedOversized \in Nat /\ droppedEvicted \in Nat
    /\ order \in Seq(Payloads)
    /\ fate \in [Payloads -> SUBSET {"delivered", "dropped", "evicted", "overwritten"}]
    /\ acks \in [Payloads -> Nat]
    /\ faults \in [{"net", "disk", "crash"} -> Nat]

Queued == {order[i] : i \in 1 .. Len(order)}

\* A queued session is in the live file, in the claimed one, or has met an end.
Accounted == \A p \in Queued : p \in OnDisk \/ fate[p] # {}

\* File operations that failed and crashes, added up.
TwoFaults == faults.disk + faults.crash + 2 <= DiskFaults + Crashes

\* Once Enqueue has appended a session, the session is in the live file, in the
\* claimed file, or has met one of the three ends the policy allows: delivered,
\* dropped as unacceptable, or evicted as oldest.  No single crash between the
\* steps of a claim, an eviction or a restore, and no single failing file
\* operation, loses it.  Two can: one leaves a claimed file behind, the other is
\* an os.Stat that fails on it, and claim renames over the leftover.
NoSilentLoss ==
    /\ Accounted
    /\ \A p \in Queued : "overwritten" \in fate[p] => TwoFaults

\* Drain offers sessions in the order they were queued: when one has left the
\* queue through a drain, so has every session queued before it, unless that one
\* was evicted or overwritten ("put back ahead of anything enqueued in the meantime, preserving
\* order").
InOrder ==
    \A i, j \in 1 .. Len(order) :
        i < j /\ fate[order[j]] \cap {"delivered", "dropped"} # {} => fate[order[i]] # {}

\* Why nothing is lost, step by step: who holds the mutex and the claimed file,
\* and what the files contain between the writes, renames and removes of an
\* eviction and a restore.
MutexHeld ==
    /\ \A p \in Payloads : stage[p] \in {"evict", "evictRename"} => mu = p
    /\ \A d \in Drainers : pc[d] \in {"restoreRename", "restoreRemove"} => mu = d
OneDrain == \A d \in Drainers : pc[d] # "idle" => draining = d
OffsetInFile == \A d \in Drainers :
    /\ offset[d] <= Len(claimed)
    /\ pc[d] \in {"idle", "claim"} => offset[d] = 0
PassedIsSettled == \A d \in Drainers : \A q \in Held(claimed, 1, offset[d]) : fate[q] # {}
EvictTmpIsSuffix == \A p \in Payloads :
    stage[p] = "evictRename" => \E k \in 0 .. Len(live) : tmp = After(live, k)
RestoreTmpIsMerge == \A d \in Drainers :
    pc[d] = "restoreRename" => tmp = After(claimed, offset[d]) \o live
RestoredIsLive == \A d \in Drainers :
    pc[d] = "restoreRemove" => Contents(After(claimed, offset[d])) \subseteq Contents(live)

\* A drain that holds the claimed file and an enqueue that holds the mutex never
\* step on each other's files: every file named by a pending rename or remove is
\* still what its holder computed.
Custody ==
    /\ MutexHeld /\ OneDrain /\ OffsetInFile /\ PassedIsSettled
    /\ EvictTmpIsSuffix /\ RestoreTmpIsMerge /\ RestoredIsLive

Faultless == faults.disk = DiskFaults /\ faults.crash = Crashes

\* While no file operation fails and the process lives, no session is delivered
\* twice: two overlapping drains never send the same claimed lines, and restore
\* never puts a delivered line back.
DeliveredOnce == Faultless => \A p \in Payloads : acks[p] <= 1

\* While the process lives, the three counters account for every queued session
\* that is neither on disk nor delivered, unless a claim overwrote it.
LossIsCounted ==
    faults.crash = Crashes =>
        Cardinality({p \in Queued : p \notin OnDisk /\ fate[p] \cap {"delivered", "overwritten"} = {}})
            <= droppedPermanent + droppedOversized + droppedEvicted

\* An Enqueue that succeeds leaves the live file within maxBytes and its own
\* session in it: eviction takes the oldest lines, never the line just written
\* (a line that a torn write before it has spoiled is lost with it).
EnqueueKeepsFreshest ==
    [][\A p \in Payloads :
          /\ stage[p] # "queued" /\ stage'[p] = "queued"
          /\ ~TornWrites \/ faults.disk = DiskFaults
         => Bytes(live') <= MaxBytes /\ p \in Contents(live')]_vars

\* Once the network stops failing, the heartbeat's drains empty the queue, the
\* claimed file a crash left behind included.
QueueEmpties == <>[](OnDisk = {})

\* What fleet is given: the sessions in the order they came, without faults each
\* once, and every one that it will not get, those of an overwritten file apart,
\* is in a counter.
DeliverySound == InOrder /\ LossIsCounted /\ DeliveredOnce

=============================================================================
