--------------------------- MODULE FleetQueueProofs ---------------------------
(***************************************************************************)
(* Proofs about FleetQueue, for any number of sessions and drainers, any   *)
(* sizes and bounds and any number of faults and crashes.                  *)
(***************************************************************************)
EXTENDS FleetQueue, FiniteSetTheorems, SequenceTheorems, TLAPS

-----------------------------------------------------------------------------
(* Files *)

\* A suffix of a queue file is a queue file.
LEMMA AfterType ==
    ASSUME NEW f \in Seq(Chunk), NEW k \in 0 .. Len(f)
    PROVE  /\ After(f, k) \in Seq(Chunk)
           /\ Len(After(f, k)) = Len(f) - k
           /\ \A i \in 1 .. Len(f) - k : After(f, k)[i] = f[k + i]
  <1>1. k + 1 \in 1 .. Len(f) + 1 /\ Len(f) \in k .. Len(f)
    OBVIOUS
  <1> QED BY <1>1, SubSeqProperties DEF After

\* The types of the files, and of what has been read of the claimed one.
LEMMA FileTypes ==
    ASSUME TypeOK
    PROVE  /\ live \in Seq(Chunk) /\ claimed \in Seq(Chunk) /\ order \in Seq(Payloads)
           /\ Len(live) \in Nat /\ Len(claimed) \in Nat /\ Len(order) \in Nat
  <1>1. live \in Seq(Chunk) /\ claimed \in Seq(Chunk) /\ order \in Seq(Payloads)
    BY DEF TypeOK
  <1> QED BY <1>1, LenProperties

LEMMA OffsetType ==
    ASSUME TypeOK, Custody, NEW d \in Drainers
    PROVE  offset[d] \in 0 .. Len(claimed)
  <1>1. offset[d] \in Nat /\ offset[d] <= Len(claimed)
    BY DEF TypeOK, Custody, OffsetInFile
  <1> QED BY <1>1, FileTypes

\* What a file holds is in its first k chunks or in the rest.
LEMMA SplitContents ==
    ASSUME NEW f \in Seq(Chunk), NEW k \in 0 .. Len(f)
    PROVE  /\ Contents(f) \subseteq Held(f, 1, k) \cup Contents(After(f, k))
           /\ Contents(After(f, k)) \subseteq Contents(f)
  <1>1. ASSUME NEW m \in 1 .. Len(f), Whole(f[m])
        PROVE  f[m].id \in Held(f, 1, k) \cup Contents(After(f, k))
    <2>1. CASE m <= k
      BY <1>1, <2>1 DEF Held
    <2>2. CASE m > k
      <3>1. m - k \in 1 .. Len(After(f, k)) /\ After(f, k)[m - k] = f[m]
        BY <2>2, AfterType
      <3> QED BY <1>1, <3>1 DEF Contents, Held
    <2> QED BY <2>1, <2>2
  <1>2. ASSUME NEW m \in 1 .. Len(After(f, k)), Whole(After(f, k)[m])
        PROVE  After(f, k)[m].id \in Contents(f)
    <2>1. k + m \in 1 .. Len(f) /\ After(f, k)[m] = f[k + m]
      BY AfterType
    <2> QED BY <1>2, <2>1 DEF Contents, Held
  <1> QED BY <1>1, <1>2 DEF Contents, Held

\* Copying one file behind another keeps what both hold.
LEMMA ConcatContents ==
    ASSUME NEW f \in Seq(Chunk), NEW g \in Seq(Chunk)
    PROVE  /\ f \o g \in Seq(Chunk)
           /\ Contents(f) \cup Contents(g) \subseteq Contents(f \o g)
  <1>1. f \o g \in Seq(Chunk) /\ Len(f \o g) = Len(f) + Len(g)
    BY ConcatProperties
  <1>2. ASSUME NEW m \in 1 .. Len(f), Whole(f[m]) PROVE f[m].id \in Contents(f \o g)
    <2>1. m \in 1 .. Len(f \o g) /\ (f \o g)[m] = f[m]
      BY <1>1, ConcatProperties
    <2> QED BY <1>2, <2>1 DEF Contents, Held
  <1>3. ASSUME NEW m \in 1 .. Len(g), Whole(g[m]) PROVE g[m].id \in Contents(f \o g)
    <2>1. Len(f) + m \in 1 .. Len(f \o g) /\ (f \o g)[Len(f) + m] = g[m]
      BY <1>1, ConcatProperties
    <2> QED BY <1>3, <2>1 DEF Contents, Held
  <1> QED BY <1>1, <1>2, <1>3 DEF Contents, Held

\* Appending a chunk keeps what the file holds and adds a whole payload.
LEMMA AppendContents ==
    ASSUME NEW f \in Seq(Chunk), NEW c \in Chunk
    PROVE  /\ Append(f, c) \in Seq(Chunk)
           /\ Len(Append(f, c)) = Len(f) + 1
           /\ Contents(f) \subseteq Contents(Append(f, c))
           /\ Whole(c) => c.id \in Contents(Append(f, c))
  <1>1. /\ Append(f, c) \in Seq(Chunk) /\ Len(Append(f, c)) = Len(f) + 1
        /\ Append(f, c)[Len(f) + 1] = c
        /\ \A m \in 1 .. Len(f) : Append(f, c)[m] = f[m]
    BY AppendProperties
  <1>2. ASSUME NEW m \in 1 .. Len(f), Whole(f[m]) PROVE f[m].id \in Contents(Append(f, c))
    BY <1>1, <1>2 DEF Contents, Held
  <1>3. Whole(c) => c.id \in Contents(Append(f, c))
    BY <1>1 DEF Contents, Held
  <1> QED BY <1>1, <1>2, <1>3 DEF Contents, Held

\* The empty file holds nothing.
LEMMA EmptyContents == /\ <<>> \in Seq(Chunk) /\ Len(<<>>) = 0 /\ Contents(<<>>) = {}
  BY DEF Contents, Held

\* What a complete append writes is a chunk.
LEMMA ChunkType ==
    ASSUME NEW p \in Payloads, NEW n \in 1 .. Size[p] + 1
    PROVE  [id |-> p, n |-> n] \in Chunk
  BY BytesAssumption DEF Chunk

-----------------------------------------------------------------------------
(* Type correctness *)

\* The number of evicted records is a natural number.
LEMMA EvictedCount ==
    ASSUME NEW f \in Seq(Chunk), NEW k
    PROVE  Cardinality({j \in Ends(f) : j <= k}) \in Nat
  <1>1. IsFiniteSet(1 .. Len(f))
    BY FS_Interval, LenProperties
  <1>2. IsFiniteSet({j \in Ends(f) : j <= k})
    BY <1>1, FS_Subset DEF Ends
  <1> QED BY <1>2, FS_CardinalityType

\* Settling payloads keeps fate a function and never erases an earlier end.
LEMMA SettleType ==
    ASSUME TypeOK, NEW S, NEW w \in {"delivered", "dropped", "evicted", "overwritten"}, Settle(S, w)
    PROVE  /\ fate' \in [Payloads -> SUBSET {"delivered", "dropped", "evicted", "overwritten"}]
           /\ \A q \in Payloads : fate[q] # {} => fate'[q] # {}
           /\ \A q \in Payloads : q \in S => fate'[q] # {}
  BY DEF TypeOK, Settle

LEMMA InitType == Init => TypeOK
  BY FaultsAssumption DEF Init, TypeOK

LEMMA FaultType ==
    ASSUME TypeOK, NEW kind \in {"net", "disk", "crash"}, Fault(kind)
    PROVE  faults' \in [{"net", "disk", "crash"} -> Nat]
  BY DEF TypeOK, Fault

LEMMA PushType ==
    ASSUME TypeOK, NEW p \in Payloads, Push(p)
    PROVE  TypeOK'
  <1> USE DEF files, counters, history
  <1>1. CASE PushDelivered(p)
    BY <1>1 DEF TypeOK, PushDelivered
  <1>2. CASE PushRejected(p)
    BY <1>2 DEF TypeOK, PushRejected
  <1>3. CASE PushFailed(p)
    BY <1>3, FaultType DEF TypeOK, PushFailed
  <1>4. CASE EnqueueOversized(p)
    BY <1>4 DEF TypeOK, EnqueueOversized
  <1>5. CASE EnqueueAppend(p)
    <2>1. live' \in Seq(Chunk)
      <3>1. [id |-> p, n |-> Size[p] + 1] \in Chunk
        BY ChunkType, BytesAssumption
      <3> QED BY <1>5, <3>1, AppendContents DEF TypeOK, EnqueueAppend
    <2>2. order' \in Seq(Payloads)
      BY <1>5 DEF TypeOK, EnqueueAppend
    <2> QED BY <1>5, <2>1, <2>2 DEF TypeOK, EnqueueAppend
  <1>6. CASE EnqueueFails(p)
    <2>1. live' \in Seq(Chunk)
      <3>1. \A n \in 1 .. Size[p] : [id |-> p, n |-> n] \in Chunk
        BY ChunkType, BytesAssumption
      <3>2. CASE UNCHANGED live
        BY <3>2 DEF TypeOK
      <3>3. CASE \E n \in 1 .. Size[p] : live' = Append(live, [id |-> p, n |-> n])
        BY <3>1, <3>3, AppendContents DEF TypeOK
      <3> QED BY <1>6, <3>2, <3>3 DEF EnqueueFails
    <2> QED BY <1>6, <2>1, FaultType DEF TypeOK, EnqueueFails
  <1>7. CASE EvictWriteTmp(p)
    <2>1. tmp' \in Seq(Chunk)
      BY <1>7, AfterType DEF TypeOK, EvictWriteTmp
    <2> QED BY <1>7, <2>1 DEF TypeOK, EvictWriteTmp
  <1>8. CASE EvictRename(p)
    <2> DEFINE n == Cardinality({j \in Ends(live) : j <= Len(live) - Len(tmp)})
    <2>a. n \in Nat
      BY EvictedCount DEF TypeOK
    <2>b. droppedEvicted' = droppedEvicted + n
      BY <1>8 DEF EvictRename
    <2>1. droppedEvicted' \in Nat
      BY <2>a, <2>b DEF TypeOK
    <2>2. fate' \in [Payloads -> SUBSET {"delivered", "dropped", "evicted", "overwritten"}]
      BY <1>8, SettleType DEF EvictRename
    <2> QED BY <1>8, <2>1, <2>2, EmptyContents DEF TypeOK, EvictRename
  <1>9. CASE EvictFails(p)
    BY <1>9, FaultType DEF TypeOK, EvictFails
  <1> QED BY <1>1, <1>2, <1>3, <1>4, <1>5, <1>6, <1>7, <1>8, <1>9 DEF Push

LEMMA DrainType ==
    ASSUME TypeOK, NEW d \in Drainers, Drain(d), OffsetInFile
    PROVE  TypeOK'
  <1> USE DEF files, counters, history
  <1>1. CASE DrainStart(d)
    BY <1>1 DEF TypeOK, DrainStart
  <1>2. CASE Claim(d) \/ ClaimStatFails(d)
    <2>1. live' \in Seq(Chunk) /\ claimed' \in Seq(Chunk) /\ tmp' = tmp
      BY <1>2, EmptyContents DEF TypeOK, Claim, ClaimStatFails, Proceed, Decided
    <2>f. /\ fate' \in [Payloads -> SUBSET {"delivered", "dropped", "evicted", "overwritten"}]
          /\ faults' \in [{"net", "disk", "crash"} -> Nat]
      <3>1. CASE Claim(d)
        BY <3>1 DEF Claim, Proceed, TypeOK
      <3>2. CASE ClaimStatFails(d)
        BY <3>2, FaultType, SettleType DEF ClaimStatFails, TypeOK
      <3> QED BY <1>2, <3>1, <3>2
    <2>2. /\ draining' \in Drainers \cup {NoOne}
          /\ pc' \in [Drainers -> {"idle", "claim", "send", "restore", "restoreRename",
                                   "restoreRemove"}]
          /\ offset' \in [Drainers -> Nat]
      <3>1. CASE Return(d)
        BY <3>1 DEF TypeOK, Return
      <3>2. CASE /\ pc' = [pc EXCEPT ![d] = "send"]
                 /\ offset' = [offset EXCEPT ![d] = 0]
                 /\ UNCHANGED draining
        BY <3>2 DEF TypeOK
      <3> QED BY <1>2, <3>1, <3>2 DEF Claim, ClaimStatFails, Proceed, Decided
    <2> QED BY <1>2, <2>1, <2>2, <2>f DEF TypeOK, Claim, ClaimStatFails, Proceed, Decided
  <1>3. CASE DrainFails(d)
    BY <1>3, FaultType DEF TypeOK, DrainFails, Return
  <1>4. ASSUME NEW j \in 1 .. Len(claimed), NEW w \in {"dropped", "delivered"},
               AdvanceTo(d, j, w)
        PROVE  /\ fate' \in [Payloads -> SUBSET {"delivered", "dropped", "evicted", "overwritten"}]
               /\ offset' \in [Drainers -> Nat]
               /\ UNCHANGED <<live, claimed, tmp, mu, draining, stage, pc, order, faults>>
    <2>1. j \in Nat
      OBVIOUS
    <2> QED BY <1>4, <2>1, SettleType DEF AdvanceTo, TypeOK
  <1>5. CASE SendSkipsOversized(d)
    <2>1. PICK j \in 1 .. Len(claimed) :
             /\ droppedOversized' = droppedOversized + 1
             /\ AdvanceTo(d, j, "dropped")
             /\ UNCHANGED <<acks, droppedPermanent, droppedEvicted>>
      BY <1>5 DEF SendSkipsOversized
    <2> QED BY <1>4, <2>1 DEF TypeOK
  <1>6. CASE SendDelivered(d)
    <2>1. PICK j \in 1 .. Len(claimed) :
             /\ acks' = [acks EXCEPT ![claimed[j].id] = @ + 1]
             /\ AdvanceTo(d, j, "delivered")
             /\ UNCHANGED counters
      BY <1>6 DEF SendDelivered
    <2>2. claimed[j].id \in Payloads
      BY ElementOfSeq DEF TypeOK, Chunk
    <2>3. acks' \in [Payloads -> Nat]
      <3>1. acks \in [Payloads -> Nat]
        BY DEF TypeOK
      <3> QED BY <2>1, <2>2, <3>1
    <2> QED BY <1>4, <2>1, <2>3 DEF TypeOK
  <1>7. CASE SendRejected(d)
    <2>1. PICK j \in 1 .. Len(claimed) :
             /\ droppedPermanent' = droppedPermanent + 1
             /\ AdvanceTo(d, j, "dropped")
             /\ UNCHANGED <<acks, droppedOversized, droppedEvicted>>
      BY <1>7 DEF SendRejected
    <2> QED BY <1>4, <2>1 DEF TypeOK
  <1>8. CASE SendFailed(d)
    BY <1>8, FaultType DEF TypeOK, SendFailed
  <1>9. CASE DrainDone(d)
    BY <1>9, EmptyContents DEF TypeOK, DrainDone, Return
  <1>10. CASE RestoreWriteTmp(d)
    <2>1. After(claimed, offset[d]) \in Seq(Chunk)
      BY AfterType DEF TypeOK, OffsetInFile
    <2>2. tmp' \in Seq(Chunk)
      BY <1>10, <2>1, ConcatContents DEF TypeOK, RestoreWriteTmp
    <2> QED BY <1>10, <2>2 DEF TypeOK, RestoreWriteTmp
  <1>11. CASE RestoreRename(d)
    BY <1>11, EmptyContents DEF TypeOK, RestoreRename
  <1>12. CASE RestoreRemove(d)
    BY <1>12, EmptyContents DEF TypeOK, RestoreRemove, Return
  <1>13. CASE RestoreFails(d)
    BY <1>13, FaultType DEF TypeOK, RestoreFails, Return
  <1> QED BY <1>1, <1>2, <1>3, <1>5, <1>6, <1>7, <1>8, <1>9, <1>10, <1>11, <1>12, <1>13
          DEF Drain

LEMMA CrashType == TypeOK /\ Crash => TypeOK'
  BY FaultType DEF TypeOK, Crash, files, history

-----------------------------------------------------------------------------
(* Who holds the mutex and the claimed file *)

\* The mutex and the compare-and-swap exclude each other's holders.
LEMMA ExclusionStep ==
    ASSUME TypeOK, MutexHeld, OneDrain, Next
    PROVE  MutexHeld' /\ OneDrain'
  <1> USE ActorsAssumption DEF files, counters, history
  <1>1. ASSUME NEW p \in Payloads, Push(p)
        PROVE  MutexHeld' /\ OneDrain'
    <2>1. OneDrain'
      BY <1>1 DEF OneDrain, Push, PushDelivered, PushRejected, PushFailed, EnqueueOversized,
         EnqueueAppend, EnqueueFails, EvictWriteTmp, EvictRename, EvictFails
    <2>2. CASE mu' = mu /\ (stage'[p] \in {"evict", "evictRename"} => mu = p)
      <3>1. pc' = pc /\ \A q \in Payloads \ {p} : stage'[q] = stage[q]
        BY <1>1 DEF TypeOK, Push, PushDelivered, PushRejected, PushFailed, EnqueueOversized,
           EnqueueAppend, EnqueueFails, EvictWriteTmp, EvictRename, EvictFails
      <3> QED BY <2>1, <2>2, <3>1 DEF MutexHeld
    <2>3. CASE EnqueueAppend(p)
      BY <2>1, <2>3 DEF TypeOK, MutexHeld, EnqueueAppend
    <2>4. CASE EvictRename(p)
      BY <2>1, <2>4 DEF TypeOK, MutexHeld, EvictRename
    <2>5. CASE EvictFails(p)
      BY <2>1, <2>5 DEF TypeOK, MutexHeld, EvictFails
    <2>6. CASE EvictWriteTmp(p)
      BY <2>2, <2>6 DEF TypeOK, MutexHeld, EvictWriteTmp
    <2>7. CASE \/ PushDelivered(p) \/ PushRejected(p) \/ PushFailed(p)
               \/ EnqueueOversized(p) \/ EnqueueFails(p)
      BY <2>2, <2>7 DEF TypeOK, PushDelivered, PushRejected, PushFailed, EnqueueOversized,
         EnqueueFails
    <2> QED BY <1>1, <2>3, <2>4, <2>5, <2>6, <2>7 DEF Push
  <1>2. ASSUME NEW d \in Drainers, Drain(d)
        PROVE  MutexHeld' /\ OneDrain'
    <2>1. stage' = stage /\ \A e \in Drainers \ {d} : pc'[e] = pc[e]
      BY <1>2 DEF TypeOK, Drain, DrainStart, Claim, ClaimStatFails, Proceed, Decided, DrainFails, SendSkipsOversized,
         SendDelivered, SendRejected, SendFailed, DrainDone, RestoreWriteTmp, RestoreRename,
         RestoreRemove, RestoreFails, AdvanceTo, Return
    <2>2. CASE DrainStart(d)
      BY <2>1, <2>2 DEF TypeOK, MutexHeld, OneDrain, DrainStart
    <2>3. CASE Claim(d) \/ ClaimStatFails(d)
      <3>1. mu' = mu /\ pc'[d] \in {"idle", "send"} /\ pc[d] = "claim"
        BY <2>3 DEF TypeOK, Claim, ClaimStatFails, Proceed, Decided, Return
      <3>2. (pc'[d] = "idle" /\ draining' = NoOne) \/ draining' = draining
        BY <2>3 DEF TypeOK, Claim, ClaimStatFails, Proceed, Decided, Return
      <3> QED BY <2>1, <3>1, <3>2 DEF MutexHeld, OneDrain
    <2>4. CASE DrainFails(d) \/ DrainDone(d)
      <3>1. mu' = mu /\ pc'[d] = "idle" /\ pc[d] # "idle"
        BY <2>4 DEF TypeOK, DrainFails, DrainDone, Return
      <3> QED BY <2>1, <3>1 DEF MutexHeld, OneDrain
    <2>5. CASE SendSkipsOversized(d) \/ SendDelivered(d) \/ SendRejected(d)
      BY <2>1, <2>5 DEF TypeOK, MutexHeld, OneDrain, SendSkipsOversized, SendDelivered,
         SendRejected, AdvanceTo
    <2>6. CASE SendFailed(d)
      BY <2>1, <2>6 DEF TypeOK, MutexHeld, OneDrain, SendFailed, Reads
    <2>7. CASE RestoreWriteTmp(d)
      BY <2>1, <2>7 DEF TypeOK, MutexHeld, OneDrain, RestoreWriteTmp
    <2>8. CASE RestoreRename(d)
      BY <2>1, <2>8 DEF TypeOK, MutexHeld, OneDrain, RestoreRename
    <2>9. CASE RestoreRemove(d)
      BY <2>1, <2>9 DEF TypeOK, MutexHeld, OneDrain, RestoreRemove, Return
    <2>10. CASE RestoreFails(d)
      BY <2>1, <2>10 DEF TypeOK, MutexHeld, OneDrain, RestoreFails, Return
    <2> QED BY <1>2, <2>2, <2>3, <2>4, <2>5, <2>6, <2>7, <2>8, <2>9, <2>10 DEF Drain
  <1>3. CASE Crash
    BY <1>3 DEF TypeOK, MutexHeld, OneDrain, Crash
  <1> QED BY <1>1, <1>2, <1>3 DEF Next

-----------------------------------------------------------------------------
(* What the running drain has put behind it *)

\* Whatever is held in the first j chunks is in the first i or between the two.
LEMMA HeldSplit ==
    ASSUME NEW f \in Seq(Chunk), NEW i \in 0 .. Len(f), NEW j \in 0 .. Len(f)
    PROVE  Held(f, 1, j) \subseteq Held(f, 1, i) \cup Held(f, i + 1, j)
  BY DEF Held

LEMMA HeldIsPayload ==
    ASSUME NEW f \in Seq(Chunk), NEW i \in Nat, NEW j \in 0 .. Len(f), i >= 1
    PROVE  Held(f, i, j) \subseteq Payloads
  <1>1. \A m \in 1 .. Len(f) : f[m].id \in Payloads
    BY ElementOfSeq DEF Chunk
  <1> QED BY <1>1 DEF Held

\* No session's end is ever taken back.
LEMMA FateGrows ==
    ASSUME TypeOK, Next
    PROVE  \A q \in Payloads : fate[q] # {} => fate'[q] # {}
  <1> USE DEF files, counters, history
  <1>1. ASSUME NEW p \in Payloads, Push(p)
        PROVE  \A q \in Payloads : fate[q] # {} => fate'[q] # {}
    <2>1. CASE EvictRename(p)
      BY <2>1, SettleType DEF EvictRename
    <2>2. CASE ~EvictRename(p)
      BY <1>1, <2>2 DEF Push, PushDelivered, PushRejected, PushFailed, EnqueueOversized,
         EnqueueAppend, EnqueueFails, EvictWriteTmp, EvictFails
    <2> QED BY <2>1, <2>2
  <1>2. ASSUME NEW d \in Drainers, Drain(d)
        PROVE  \A q \in Payloads : fate[q] # {} => fate'[q] # {}
    <2>1. CASE SendSkipsOversized(d) \/ SendDelivered(d) \/ SendRejected(d) \/ ClaimStatFails(d)
      BY <2>1, SettleType DEF SendSkipsOversized, SendDelivered, SendRejected, AdvanceTo,
         ClaimStatFails
    <2>2. CASE ~(SendSkipsOversized(d) \/ SendDelivered(d) \/ SendRejected(d) \/ ClaimStatFails(d))
      BY <1>2, <2>2 DEF Drain, DrainStart, Claim, Proceed, Decided, DrainFails, SendFailed, DrainDone,
         RestoreWriteTmp, RestoreRename, RestoreRemove, RestoreFails
    <2> QED BY <2>1, <2>2
  <1>3. CASE Crash
    BY <1>3 DEF Crash
  <1> QED BY <1>1, <1>2, <1>3 DEF Next

\* Everything before the offset of a drain has met its end.
LEMMA PassedStep ==
    ASSUME TypeOK, OneDrain, OffsetInFile, PassedIsSettled, Next
    PROVE  OffsetInFile' /\ PassedIsSettled'
  <1> USE DEF files, counters, history
  <1>f. ASSUME claimed' = claimed, pc' = pc, offset' = offset
        PROVE  OffsetInFile' /\ PassedIsSettled'
    <2>1. \A e \in Drainers : Held(claimed, 1, offset[e]) \subseteq Payloads
      BY HeldIsPayload DEF TypeOK, OffsetInFile
    <2> QED BY <1>f, <2>1, FateGrows DEF OffsetInFile, PassedIsSettled, Held
  <1>z. ASSUME \A e \in Drainers : offset'[e] = 0, claimed' \in Seq(Chunk)
        PROVE  OffsetInFile' /\ PassedIsSettled'
    BY <1>z DEF OffsetInFile, PassedIsSettled, Held
  <1>1. ASSUME NEW p \in Payloads, Push(p)
        PROVE  OffsetInFile' /\ PassedIsSettled'
    BY <1>1, <1>f DEF Push, PushDelivered, PushRejected, PushFailed, EnqueueOversized,
       EnqueueAppend, EnqueueFails, EvictWriteTmp, EvictRename, EvictFails
  <1>2. ASSUME NEW d \in Drainers, Drain(d)
        PROVE  OffsetInFile' /\ PassedIsSettled'
    <2>o. ASSUME pc[d] # "idle", NEW e \in Drainers \ {d} PROVE offset[e] = 0
      BY <2>o DEF OneDrain, OffsetInFile
    <2>c. claimed' \in Seq(Chunk)
      BY <1>2, DrainType DEF TypeOK
    <2>1. CASE DrainStart(d)
      <3>1. claimed' = claimed /\ offset' = offset /\ offset[d] = 0
        BY <2>1 DEF DrainStart, OffsetInFile
      <3>2. \A e \in Drainers \ {d} : pc'[e] = pc[e]
        BY <2>1 DEF DrainStart, TypeOK
      <3>3. fate' = fate
        BY <2>1 DEF DrainStart
      <3> QED BY <3>1, <3>2, <3>3 DEF OffsetInFile, PassedIsSettled, Held
    <2>2. CASE Claim(d) \/ ClaimStatFails(d)
      <3>1. \A e \in Drainers : offset'[e] = 0
        BY <2>2, <2>o DEF TypeOK, Claim, ClaimStatFails, Proceed, Decided, Return
      <3> QED BY <3>1, <2>c, <1>z
    <2>3. CASE DrainFails(d) \/ DrainDone(d) \/ RestoreRemove(d) \/ RestoreFails(d)
      <3>1. \A e \in Drainers : offset'[e] = 0
        BY <2>3, <2>o DEF TypeOK, DrainFails, DrainDone, RestoreRemove, RestoreFails, Return
      <3> QED BY <3>1, <2>c, <1>z
    <2>4. ASSUME NEW j \in 1 .. Len(claimed), Reads(d, j),
                 NEW w \in {"delivered", "dropped"}, AdvanceTo(d, j, w)
          PROVE  OffsetInFile' /\ PassedIsSettled'
      <3>1. /\ claimed' = claimed /\ pc' = pc /\ offset'[d] = j
            /\ \A e \in Drainers \ {d} : offset'[e] = 0
        BY <2>4, <2>o DEF AdvanceTo, Reads, TypeOK
      <3>2. offset[d] \in 0 .. Len(claimed) /\ pc[d] = "send"
        BY <2>4 DEF Reads, OffsetInFile, TypeOK
      <3>3. \A q \in Held(claimed, 1, j) : fate'[q] # {}
        <4>1. Held(claimed, 1, j) \subseteq
                  Held(claimed, 1, offset[d]) \cup Held(claimed, offset[d] + 1, j)
          BY <3>2, HeldSplit DEF TypeOK
        <4>2. Held(claimed, 1, j) \subseteq Payloads
          BY HeldIsPayload DEF TypeOK
        <4> QED BY <4>1, <4>2, <2>4, SettleType DEF AdvanceTo, PassedIsSettled
      <3>4. OffsetInFile'
        BY <3>1, <3>2 DEF OffsetInFile, TypeOK
      <3>5. PassedIsSettled'
        <4>1. \A e \in Drainers \ {d} : Held(claimed, 1, 0) = {}
          BY DEF Held
        <4> QED BY <3>1, <3>3, <4>1 DEF PassedIsSettled, Held
      <3> QED BY <3>4, <3>5
    <2>5. CASE SendSkipsOversized(d) \/ SendDelivered(d) \/ SendRejected(d)
      BY <2>5, <2>4 DEF SendSkipsOversized, SendDelivered, SendRejected
    <2>6. CASE SendFailed(d) \/ RestoreWriteTmp(d) \/ RestoreRename(d)
      <3>1. /\ claimed' = claimed /\ offset' = offset /\ fate' = fate
            /\ pc'[d] \notin {"idle", "claim"}
            /\ \A e \in Drainers \ {d} : pc'[e] = pc[e]
        BY <2>6 DEF SendFailed, RestoreWriteTmp, RestoreRename, TypeOK
      <3> QED BY <3>1 DEF OffsetInFile, PassedIsSettled, Held
    <2> QED BY <1>2, <2>1, <2>2, <2>3, <2>5, <2>6 DEF Drain
  <1>3. CASE Crash
    BY <1>3, <1>z DEF Crash, TypeOK
  <1> QED BY <1>1, <1>2, <1>3 DEF Next

-----------------------------------------------------------------------------
(* What the temporary file and the live file hold during a rewrite *)

\* Nobody touches the live file, the claimed file or the temporary one while
\* another actor is between writing the temporary file and renaming it.
LEMMA RewriteStep ==
    ASSUME TypeOK, Custody, Next
    PROVE  EvictTmpIsSuffix' /\ RestoreTmpIsMerge' /\ RestoredIsLive'
  <1> USE ActorsAssumption DEF files, counters, history
  <1>1. ASSUME NEW p \in Payloads, Push(p)
        PROVE  EvictTmpIsSuffix' /\ RestoreTmpIsMerge' /\ RestoredIsLive'
    <2>0. /\ claimed' = claimed /\ pc' = pc /\ offset' = offset
          /\ \A q \in Payloads \ {p} : stage'[q] = stage[q]
      BY <1>1 DEF TypeOK, Push, PushDelivered, PushRejected, PushFailed, EnqueueOversized,
         EnqueueAppend, EnqueueFails, EvictWriteTmp, EvictRename, EvictFails
    <2>1. CASE live' = live /\ tmp' = tmp /\ stage'[p] # "evictRename"
      BY <2>0, <2>1 DEF Custody, EvictTmpIsSuffix, RestoreTmpIsMerge, RestoredIsLive
    <2>2. CASE mu = NoOne /\ stage'[p] # "evictRename"
      <3>1. \A q \in Payloads : stage'[q] # "evictRename"
        BY <2>0, <2>2 DEF Custody, MutexHeld
      <3>2. \A e \in Drainers : pc'[e] \notin {"restoreRename", "restoreRemove"}
        BY <2>0, <2>2 DEF Custody, MutexHeld
      <3> QED BY <3>1, <3>2 DEF EvictTmpIsSuffix, RestoreTmpIsMerge, RestoredIsLive
    <2>3. CASE EvictWriteTmp(p)
      <3>1. \A e \in Drainers : pc'[e] \notin {"restoreRename", "restoreRemove"}
        BY <2>0, <2>3 DEF Custody, MutexHeld, EvictWriteTmp
      <3>2. \A q \in Payloads \ {p} : stage'[q] # "evictRename"
        BY <2>0, <2>3 DEF Custody, MutexHeld, EvictWriteTmp
      <3>3. live' = live /\ \E k \in 0 .. Len(live) : tmp' = After(live, k)
        BY <2>3 DEF EvictWriteTmp
      <3> QED BY <3>1, <3>2, <3>3 DEF EvictTmpIsSuffix, RestoreTmpIsMerge, RestoredIsLive
    <2>4. CASE EvictRename(p)
      <3>1. \A e \in Drainers : pc'[e] \notin {"restoreRename", "restoreRemove"}
        BY <2>0, <2>4 DEF Custody, MutexHeld, EvictRename
      <3>2. \A q \in Payloads : stage'[q] # "evictRename"
        BY <2>0, <2>4 DEF TypeOK, Custody, MutexHeld, EvictRename
      <3> QED BY <3>1, <3>2 DEF EvictTmpIsSuffix, RestoreTmpIsMerge, RestoredIsLive
    <2>5. CASE \/ PushDelivered(p) \/ PushRejected(p) \/ PushFailed(p)
               \/ EnqueueOversized(p) \/ EvictFails(p)
      BY <2>1, <2>5 DEF TypeOK, PushDelivered, PushRejected, PushFailed, EnqueueOversized,
         EvictFails
    <2>6. CASE EnqueueAppend(p) \/ EnqueueFails(p)
      BY <2>2, <2>6 DEF TypeOK, EnqueueAppend, EnqueueFails
    <2> QED BY <1>1, <2>3, <2>4, <2>5, <2>6 DEF Push
  <1>2. ASSUME NEW d \in Drainers, Drain(d)
        PROVE  EvictTmpIsSuffix' /\ RestoreTmpIsMerge' /\ RestoredIsLive'
    <2>0. stage' = stage /\ \A e \in Drainers \ {d} : pc'[e] = pc[e]
      BY <1>2 DEF TypeOK, Drain, DrainStart, Claim, ClaimStatFails, Proceed, Decided, DrainFails, SendSkipsOversized,
         SendDelivered, SendRejected, SendFailed, DrainDone, RestoreWriteTmp, RestoreRename,
         RestoreRemove, RestoreFails, AdvanceTo, Return
    <2>o. ASSUME pc[d] # "idle", NEW e \in Drainers \ {d} PROVE pc'[e] = "idle"
      BY <2>0, <2>o DEF Custody, OneDrain
    <2>1. CASE /\ live' = live /\ tmp' = tmp /\ pc[d] # "idle"
               /\ pc'[d] \notin {"restoreRename", "restoreRemove"}
      BY <2>0, <2>o, <2>1 DEF Custody, EvictTmpIsSuffix, RestoreTmpIsMerge, RestoredIsLive
    <2>2. CASE /\ mu = NoOne /\ pc'[d] \notin {"restoreRename", "restoreRemove"}
      <3>1. \A q \in Payloads : stage'[q] # "evictRename"
        BY <2>0, <2>2 DEF Custody, MutexHeld
      <3>2. \A e \in Drainers : pc'[e] \notin {"restoreRename", "restoreRemove"}
        BY <2>0, <2>2 DEF Custody, MutexHeld
      <3> QED BY <3>1, <3>2 DEF EvictTmpIsSuffix, RestoreTmpIsMerge, RestoredIsLive
    <2>3. CASE DrainStart(d)
      BY <2>0, <2>3 DEF TypeOK, DrainStart, Custody, EvictTmpIsSuffix, RestoreTmpIsMerge,
         RestoredIsLive
    <2>4. CASE Claim(d) \/ ClaimStatFails(d)
      <3>1. mu = NoOne /\ pc'[d] \notin {"restoreRename", "restoreRemove"}
        BY <2>4 DEF TypeOK, Claim, ClaimStatFails, Proceed, Decided, Return
      <3> QED BY <3>1, <2>2
    <2>5. CASE DrainFails(d) \/ DrainDone(d) \/ RestoreRemove(d) \/ RestoreFails(d)
      BY <2>1, <2>5 DEF TypeOK, DrainFails, DrainDone, RestoreRemove, RestoreFails, Return
    <2>6. CASE SendSkipsOversized(d) \/ SendDelivered(d) \/ SendRejected(d)
      BY <2>1, <2>6 DEF SendSkipsOversized, SendDelivered, SendRejected, AdvanceTo, Reads
    <2>7. CASE SendFailed(d)
      BY <2>1, <2>7 DEF TypeOK, SendFailed, Reads
    <2>8. CASE RestoreWriteTmp(d)
      <3>1. \A q \in Payloads : stage'[q] # "evictRename"
        BY <2>0, <2>8 DEF Custody, MutexHeld, RestoreWriteTmp
      <3>2. /\ pc'[d] = "restoreRename" /\ tmp' = After(claimed, offset[d]) \o live
            /\ claimed' = claimed /\ offset' = offset /\ live' = live /\ pc[d] # "idle"
        BY <2>8 DEF TypeOK, RestoreWriteTmp
      <3> QED BY <2>o, <3>1, <3>2 DEF EvictTmpIsSuffix, RestoreTmpIsMerge, RestoredIsLive
    <2>9. CASE RestoreRename(d)
      <3>1. \A q \in Payloads : stage'[q] # "evictRename"
        BY <2>0, <2>9 DEF Custody, MutexHeld, RestoreRename
      <3>2. /\ pc'[d] = "restoreRemove" /\ live' = After(claimed, offset[d]) \o live
            /\ claimed' = claimed /\ offset' = offset /\ pc[d] # "idle"
        BY <2>9 DEF TypeOK, RestoreRename, Custody, RestoreTmpIsMerge
      <3>3. After(claimed, offset[d]) \in Seq(Chunk)
        BY AfterType DEF TypeOK, Custody, OffsetInFile
      <3>4. Contents(After(claimed, offset[d])) \subseteq Contents(live')
        BY <3>2, <3>3, ConcatContents DEF TypeOK
      <3> QED BY <2>o, <3>1, <3>2, <3>4
              DEF EvictTmpIsSuffix, RestoreTmpIsMerge, RestoredIsLive
    <2> QED BY <1>2, <2>3, <2>4, <2>5, <2>6, <2>7, <2>8, <2>9 DEF Drain
  <1>3. CASE Crash
    BY <1>3 DEF TypeOK, Crash, EvictTmpIsSuffix, RestoreTmpIsMerge, RestoredIsLive
  <1> QED BY <1>1, <1>2, <1>3 DEF Next

LEMMA CustodyStep == TypeOK /\ Custody /\ Next => Custody'
  BY ExclusionStep, PassedStep, RewriteStep DEF Custody

-----------------------------------------------------------------------------
(* No queued session is lost *)

LEMMA QueuedIsPayload == TypeOK => Queued \subseteq Payloads
  BY ElementOfSeq DEF TypeOK, Queued

\* Every step keeps each queued session on disk or gives it an end.
LEMMA LossStep ==
    ASSUME TypeOK, TypeOK', Custody, Accounted, Next
    PROVE  Accounted'
  <1> USE DEF files, counters, history
  <1>q. Queued \subseteq Payloads
    BY QueuedIsPayload
  <1>k. ASSUME order' = order,
               \A q \in OnDisk : q \in OnDisk' \/ (q \in Payloads => fate'[q] # {})
        PROVE  Accounted'
    BY <1>k, <1>q, FateGrows DEF Accounted, Queued
  <1>1. ASSUME NEW p \in Payloads, Push(p)
        PROVE  Accounted'
    <2>1. CASE EnqueueAppend(p)
      <3>1. [id |-> p, n |-> Size[p] + 1] \in Chunk /\ Whole([id |-> p, n |-> Size[p] + 1])
        BY ChunkType, BytesAssumption DEF Whole
      <3>2. OnDisk \cup {p} \subseteq OnDisk'
        BY <2>1, <3>1, AppendContents DEF TypeOK, EnqueueAppend, OnDisk
      <3>3. Queued' \subseteq Queued \cup {p}
        <4>1. order' = Append(order, p)
          BY <2>1 DEF EnqueueAppend
        <4>2. /\ Len(order') = Len(order) + 1 /\ order'[Len(order) + 1] = p
              /\ \A i \in 1 .. Len(order) : order'[i] = order[i]
          BY <4>1, AppendProperties DEF TypeOK
        <4>n. Len(order) \in Nat
          BY LenProperties DEF TypeOK
        <4>3. \A i \in 1 .. Len(order') : i \in 1 .. Len(order) \/ i = Len(order) + 1
          BY <4>2, <4>n
        <4> QED BY <4>2, <4>3 DEF Queued
      <3>4. fate' = fate
        BY <2>1 DEF EnqueueAppend
      <3> QED BY <3>2, <3>3, <3>4 DEF Accounted
    <2>2. CASE EnqueueFails(p)
      <3>1. \A n \in 1 .. Size[p] : [id |-> p, n |-> n] \in Chunk
        BY ChunkType, BytesAssumption
      <3>2. Contents(live) \subseteq Contents(live')
        <4>1. CASE UNCHANGED live
          BY <4>1
        <4>2. CASE \E n \in 1 .. Size[p] : live' = Append(live, [id |-> p, n |-> n])
          BY <3>1, <4>2, AppendContents DEF TypeOK
        <4> QED BY <2>2, <4>1, <4>2 DEF EnqueueFails
      <3>3. OnDisk \subseteq OnDisk' /\ order' = order
        BY <2>2, <3>2 DEF EnqueueFails, OnDisk
      <3> QED BY <3>3, <1>k
    <2>3. CASE EvictRename(p)
      <3>1. PICK k \in 0 .. Len(live) : tmp = After(live, k)
        BY <2>3 DEF Custody, EvictTmpIsSuffix, EvictRename
      <3>2. Len(live) - Len(tmp) = k
        <4>1. Len(tmp) = Len(live) - k /\ Len(live) \in Nat
          BY <3>1, AfterType, LenProperties DEF TypeOK
        <4> QED BY <4>1
      <3>3. Settle(Held(live, 1, k), "evicted")
        BY <2>3, <3>2 DEF EvictRename
      <3>4. \A q \in Payloads : q \in Held(live, 1, k) => fate'[q] # {}
        BY <3>3, SettleType
      <3>5. Contents(live) \subseteq Held(live, 1, k) \cup Contents(live')
        BY <2>3, <3>1, SplitContents DEF TypeOK, EvictRename
      <3>6. claimed' = claimed /\ order' = order
        BY <2>3 DEF EvictRename
      <3> QED BY <3>4, <3>5, <3>6, <1>k DEF OnDisk
    <2>4. CASE ~(EnqueueAppend(p) \/ EnqueueFails(p) \/ EvictRename(p))
      <3>1. OnDisk' = OnDisk /\ order' = order
        BY <1>1, <2>4 DEF OnDisk, Push, PushDelivered, PushRejected, PushFailed,
           EnqueueOversized, EvictWriteTmp, EvictFails
      <3> QED BY <3>1, <1>k
    <2> QED BY <2>1, <2>2, <2>3, <2>4
  <1>2. ASSUME NEW d \in Drainers, Drain(d)
        PROVE  Accounted'
    <2>0. order' = order
      BY <1>2 DEF Drain, DrainStart, Claim, ClaimStatFails, Proceed, Decided, DrainFails, SendSkipsOversized,
         SendDelivered, SendRejected, SendFailed, DrainDone, RestoreWriteTmp, RestoreRename,
         RestoreRemove, RestoreFails, AdvanceTo
    <2>1. CASE Claim(d)
      <3>1. OnDisk \subseteq OnDisk'
        BY <2>1, EmptyContents DEF Claim, OnDisk
      <3> QED BY <2>0, <3>1, <1>k
    <2>s. CASE ClaimStatFails(d)
      <3>1. Contents(live) \subseteq OnDisk'
        BY <2>s DEF ClaimStatFails, OnDisk
      <3>2. \A q \in Contents(claimed) \ Contents(live) : q \in Payloads => fate'[q] # {}
        BY <2>s, SettleType DEF ClaimStatFails
      <3> QED BY <2>0, <3>1, <3>2, <1>k DEF OnDisk
    <2>2. CASE DrainDone(d)
      <3>1. Contents(claimed) = Held(claimed, 1, offset[d])
        BY <2>2 DEF DrainDone, Contents
      <3>2. \A q \in Contents(claimed) : q \in Payloads => fate'[q] # {}
        BY <3>1, FateGrows DEF Custody, PassedIsSettled
      <3>3. live' = live
        BY <2>2 DEF DrainDone
      <3> QED BY <2>0, <3>2, <3>3, <1>k DEF OnDisk
    <2>3. CASE RestoreRename(d)
      <3>1. After(claimed, offset[d]) \in Seq(Chunk)
        BY AfterType, FileTypes, OffsetType
      <3>2. live' = After(claimed, offset[d]) \o live /\ claimed' = claimed
        BY <2>3 DEF RestoreRename, Custody, RestoreTmpIsMerge
      <3>3. Contents(live) \subseteq Contents(live')
        BY <3>1, <3>2, ConcatContents DEF TypeOK
      <3> QED BY <2>0, <3>2, <3>3, <1>k DEF OnDisk
    <2>4. CASE RestoreRemove(d)
      <3>1. offset[d] \in 0 .. Len(claimed)
        BY DEF TypeOK, Custody, OffsetInFile
      <3>2. Contents(claimed) \subseteq
                Held(claimed, 1, offset[d]) \cup Contents(After(claimed, offset[d]))
        BY <3>1, SplitContents DEF TypeOK
      <3>3. Contents(After(claimed, offset[d])) \subseteq Contents(live)
        BY <2>4 DEF RestoreRemove, Custody, RestoredIsLive
      <3>4. \A q \in Held(claimed, 1, offset[d]) : q \in Payloads => fate'[q] # {}
        BY FateGrows DEF Custody, PassedIsSettled
      <3>5. live' = live
        BY <2>4 DEF RestoreRemove
      <3> QED BY <2>0, <3>2, <3>3, <3>4, <3>5, <1>k DEF OnDisk
    <2>5. CASE ~(Claim(d) \/ ClaimStatFails(d) \/ DrainDone(d) \/ RestoreRename(d)
                 \/ RestoreRemove(d))
      <3>1. OnDisk' = OnDisk
        BY <1>2, <2>5 DEF OnDisk, Drain, DrainStart, DrainFails, SendSkipsOversized,
           SendDelivered, SendRejected, SendFailed, RestoreWriteTmp, RestoreFails, AdvanceTo
      <3> QED BY <2>0, <3>1, <1>k
    <2> QED BY <2>1, <2>s, <2>2, <2>3, <2>4, <2>5
  <1>3. CASE Crash
    <2>1. OnDisk' = OnDisk /\ order' = order
      BY <1>3 DEF Crash, OnDisk
    <2> QED BY <2>1, <1>k
  <1> QED BY <1>1, <1>2, <1>3 DEF Next

-----------------------------------------------------------------------------
(* The theorems *)

Safe == TypeOK /\ Custody /\ Accounted

LEMMA SafeInit == Init => Safe
  <1> SUFFICES ASSUME Init PROVE Safe
    OBVIOUS
  <1>1. TypeOK
    BY InitType
  <1>2. Custody
    BY DEF Init, Custody, MutexHeld, OneDrain, OffsetInFile, PassedIsSettled,
       EvictTmpIsSuffix, RestoreTmpIsMerge, RestoredIsLive, Held
  <1>3. Accounted
    BY DEF Init, Accounted, Queued
  <1> QED BY <1>1, <1>2, <1>3 DEF Safe

LEMMA SafeStep == Safe /\ [Next]_vars => Safe'
  <1> SUFFICES ASSUME Safe, [Next]_vars PROVE Safe'
    OBVIOUS
  <1>1. CASE Next
    <2>1. TypeOK'
      BY <1>1, PushType, DrainType, CrashType DEF Safe, Custody, Next
    <2> QED BY <1>1, <2>1, CustodyStep, LossStep DEF Safe
  <1>2. CASE UNCHANGED vars
    <2> USE <1>2 DEF vars, files, counters, history
    <2>1. TypeOK'
      BY DEF Safe, TypeOK
    <2>2. (MutexHeld /\ OneDrain)' /\ (OffsetInFile /\ PassedIsSettled)'
      BY DEF Safe, Custody, MutexHeld, OneDrain, OffsetInFile, PassedIsSettled, Held
    <2>3. (EvictTmpIsSuffix /\ RestoreTmpIsMerge /\ RestoredIsLive)'
      BY DEF Safe, Custody, EvictTmpIsSuffix, RestoreTmpIsMerge, RestoredIsLive
    <2>4. Accounted'
      BY DEF Safe, Accounted, OnDisk, Queued
    <2> QED BY <2>1, <2>2, <2>3, <2>4 DEF Safe, Custody
  <1> QED BY <1>1, <1>2

\* The files, counters and positions of the queue keep their types, whatever
\* fails and wherever the process dies.
THEOREM TypeCorrect == Spec => []TypeOK
  <1>1. Spec => []Safe
    BY SafeInit, SafeStep, PTL DEF Spec
  <1> QED BY <1>1, PTL DEF Safe

\* The mutex, the compare-and-swap and the order of write, rename and remove
\* keep every file what its holder computed.
THEOREM FilesInCustody == Spec => []Custody
  <1>1. Spec => []Safe
    BY SafeInit, SafeStep, PTL DEF Spec
  <1> QED BY <1>1, PTL DEF Safe

-----------------------------------------------------------------------------
(* What a step does to the files and to the histories *)

\* A session whose push has not reached the queue.
Fresh(p) == stage[p] \in {"new", "enqueue"}

\* Nothing happens to the files and the fates; a push may be acknowledged.
Quiet ==
    /\ UNCHANGED <<live, claimed, order, fate>>
    /\ \/ acks' = acks
       \/ \E p \in Payloads : stage[p] = "new" /\ ~Fresh(p)' /\ acks' = [acks EXCEPT ![p] = @ + 1]

\* Enqueue writes the chunk c of p, whole and queued, or torn.
Appends(p, c) ==
    /\ stage[p] = "enqueue" /\ ~Fresh(p)' /\ c.id = p
    /\ live' = Append(live, c) /\ UNCHANGED <<claimed, fate, acks, pc, offset, draining>>
    /\ \/ order' = order /\ TornWrites /\ faults'.disk # faults.disk
       \/ order' = Append(order, p) /\ Terminated(c) /\ faults' = faults

\* The rename of an eviction takes the first k chunks away.
Evicts(k) ==
    /\ live' = After(live, k) /\ Settle(Held(live, 1, k), "evicted")
    /\ droppedEvicted' = droppedEvicted + Cardinality({j \in Ends(live) : j <= k})
    /\ UNCHANGED <<claimed, order, acks, pc, offset, draining, droppedPermanent, droppedOversized>>

\* A drain claims the live file.
Takes == claimed = <<>> /\ claimed' = live /\ live' = <<>> /\ UNCHANGED <<order, fate, acks>>

\* A drain whose os.Stat fails renames the live file over a leftover.
Overwrites(d) ==
    /\ claimed # <<>> /\ claimed' = live /\ live' = <<>> /\ pc[d] = "claim"
    /\ Settle(Contents(claimed) \ Contents(live), "overwritten")
    /\ faults.disk > 0 /\ faults' = [faults EXCEPT !.disk = @ - 1]
    /\ UNCHANGED <<order, acks, counters>>

\* A drain is done with the record that ends at chunk j.
Passes(d, j, why) ==
    /\ Reads(d, j) /\ Settle(Held(claimed, offset[d] + 1, j), why)
    /\ offset' = [offset EXCEPT ![d] = j]
    /\ \/ /\ why = "delivered" /\ j = offset[d] + 1
          /\ acks' = [acks EXCEPT ![claimed[j].id] = @ + 1]
          /\ UNCHANGED counters
       \/ /\ why = "dropped" /\ UNCHANGED <<acks, droppedEvicted>>
          /\ \/ droppedPermanent' = droppedPermanent + 1 /\ UNCHANGED droppedOversized
             \/ droppedOversized' = droppedOversized + 1 /\ UNCHANGED droppedPermanent
    /\ UNCHANGED <<live, claimed, order, pc, draining, faults>>

\* The rename of a restore.
Restores(d) ==
    /\ pc[d] = "restoreRename" /\ pc' = [pc EXCEPT ![d] = "restoreRemove"]
    /\ live' = After(claimed, offset[d]) \o live
    /\ UNCHANGED <<claimed, order, fate, acks, offset, draining>>

\* The claimed file is removed.
Removes(d) ==
    /\ \/ pc[d] = "send" /\ offset[d] = Len(claimed)
       \/ pc[d] = "restoreRemove"
    /\ claimed' = <<>> /\ UNCHANGED <<live, order, fate, acks>>

\* Every step does one of eight things to the files.
LEMMA Effects ==
    ASSUME TypeOK, Custody, Next
    PROVE  \/ Quiet
           \/ \E p \in Payloads, c \in Chunk : Appends(p, c)
           \/ \E k \in 0 .. Len(live) : Evicts(k)
           \/ Takes
           \/ \E d \in Drainers, j \in 1 .. Len(claimed), why \in {"delivered", "dropped"} :
                 Passes(d, j, why)
           \/ \E d \in Drainers : Restores(d)
           \/ \E d \in Drainers : Removes(d)
           \/ \E d \in Drainers : Overwrites(d)
  <1> USE DEF files, counters, history
  <1>1. ASSUME NEW p \in Payloads, Push(p)
        PROVE  \/ Quiet
               \/ \E c \in Chunk : Appends(p, c)
               \/ \E k \in 0 .. Len(live) : Evicts(k)
    <2>1. CASE EnqueueAppend(p)
      <3>1. [id |-> p, n |-> Size[p] + 1] \in Chunk
        BY ChunkType, BytesAssumption
      <3>2. ~Fresh(p)'
        BY <2>1 DEF EnqueueAppend, Fresh, TypeOK
      <3>3. Appends(p, [id |-> p, n |-> Size[p] + 1])
        BY <2>1, <3>2 DEF EnqueueAppend, Appends, Terminated
      <3> QED BY <3>1, <3>3
    <2>2. CASE EnqueueFails(p)
      <3>1. ~Fresh(p)'
        BY <2>2 DEF EnqueueFails, Fresh, TypeOK
      <3>2. faults'.disk # faults.disk
        BY <2>2 DEF EnqueueFails, Fault, TypeOK
      <3>3. CASE TornWrites /\ \E n \in 1 .. Size[p] : live' = Append(live, [id |-> p, n |-> n])
        <4>1. PICK n \in 1 .. Size[p] : live' = Append(live, [id |-> p, n |-> n])
          BY <3>3
        <4>2. [id |-> p, n |-> n] \in Chunk
          BY ChunkType, BytesAssumption
        <4>3. Appends(p, [id |-> p, n |-> n])
          BY <2>2, <3>1, <3>2, <3>3, <4>1 DEF EnqueueFails, Appends
        <4> QED BY <4>2, <4>3
      <3> QED BY <2>2, <3>3 DEF EnqueueFails, Quiet
    <2>3. CASE EvictRename(p)
      <3>1. PICK k \in 0 .. Len(live) : tmp = After(live, k)
        BY <2>3 DEF Custody, EvictTmpIsSuffix, EvictRename
      <3>2. Len(live) - Len(tmp) = k
        <4>1. Len(tmp) = Len(live) - k /\ Len(live) \in Nat
          BY <3>1, AfterType, LenProperties DEF TypeOK
        <4> QED BY <4>1
      <3>3. Evicts(k)
        BY <2>3, <3>1, <3>2 DEF EvictRename, Evicts
      <3> QED BY <3>3
    <2>4. CASE PushDelivered(p)
      <3>1. ~Fresh(p)'
        BY <2>4 DEF PushDelivered, Fresh, TypeOK
      <3> QED BY <2>4, <3>1 DEF PushDelivered, Quiet
    <2>5. CASE ~(EnqueueAppend(p) \/ EnqueueFails(p) \/ EvictRename(p) \/ PushDelivered(p))
      BY <1>1, <2>5 DEF Quiet, Push, PushRejected, PushFailed, EnqueueOversized, EvictWriteTmp,
         EvictFails
    <2> QED BY <2>1, <2>2, <2>3, <2>4, <2>5
  <1>2. ASSUME NEW d \in Drainers, Drain(d)
        PROVE  \/ Quiet \/ Takes \/ Restores(d) \/ Removes(d) \/ Overwrites(d)
               \/ \E j \in 1 .. Len(claimed), why \in {"delivered", "dropped"} : Passes(d, j, why)
    <2>1. CASE Claim(d)
      BY <2>1 DEF Claim, Proceed, Quiet, Takes
    <2>s. CASE ClaimStatFails(d)
      BY <2>s DEF ClaimStatFails, Decided, Fault, Overwrites
    <2>2. CASE SendDelivered(d)
      BY <2>2 DEF SendDelivered, AdvanceTo, Passes
    <2>3. CASE SendRejected(d) \/ SendSkipsOversized(d)
      BY <2>3 DEF SendRejected, SendSkipsOversized, AdvanceTo, Passes
    <2>4. CASE RestoreRename(d)
      BY <2>4 DEF RestoreRename, Restores, Custody, RestoreTmpIsMerge
    <2>5. CASE DrainDone(d) \/ RestoreRemove(d)
      BY <2>5 DEF DrainDone, RestoreRemove, Removes
    <2>6. CASE ~(Claim(d) \/ ClaimStatFails(d) \/ SendDelivered(d) \/ SendRejected(d) \/ SendSkipsOversized(d)
                 \/ RestoreRename(d) \/ DrainDone(d) \/ RestoreRemove(d))
      BY <1>2, <2>6 DEF Quiet, Drain, DrainStart, DrainFails, SendFailed, RestoreWriteTmp,
         RestoreFails
    <2> QED BY <2>1, <2>s, <2>2, <2>3, <2>4, <2>5, <2>6
  <1>3. Crash => Quiet
    BY DEF Crash, Quiet
  <1> QED BY <1>1, <1>2, <1>3 DEF Next

-----------------------------------------------------------------------------
(* The lines of the files *)

\* The chunks of a file, and of both.
Chunks(f) == {f[m] : m \in 1 .. Len(f)}

Stored == Chunks(live) \cup Chunks(claimed)

\* A session that is not queued yet is in no file and has met no end.
Untouched == \A p \in Payloads : Fresh(p) =>
    /\ p \notin Queued /\ fate[p] = {} /\ acks[p] = 0
    /\ \A c \in Stored : c.id # p

\* A queued session was written with its newline: it ends its record.
QueuedEndLines == \A c \in Stored : c.id \in Queued => Terminated(c)

\* A suffix has no other chunks.
LEMMA ChunksOfAfter ==
    ASSUME NEW f \in Seq(Chunk), NEW k \in 0 .. Len(f)
    PROVE  Chunks(After(f, k)) \subseteq Chunks(f)
  <1>1. /\ Len(After(f, k)) = Len(f) - k
        /\ \A m \in 1 .. Len(f) - k : After(f, k)[m] = f[k + m]
    BY AfterType
  <1>2. ASSUME NEW m \in 1 .. Len(f) - k PROVE After(f, k)[m] \in Chunks(f)
    <2>1. k + m \in 1 .. Len(f)
      BY LenProperties
    <2> QED BY <1>1, <2>1 DEF Chunks
  <1> QED BY <1>1, <1>2 DEF Chunks

\* The same of a concatenation.
LEMMA ChunksOfConcat ==
    ASSUME NEW f \in Seq(Chunk), NEW g \in Seq(Chunk)
    PROVE  Chunks(f \o g) \subseteq Chunks(f) \cup Chunks(g)
  <1> SUFFICES ASSUME NEW m \in 1 .. Len(f) + Len(g)
               PROVE  (f \o g)[m] \in Chunks(f) \cup Chunks(g)
    <2>1. Len(f \o g) = Len(f) + Len(g)
      BY ConcatProperties
    <2> DEFINE S == Chunks(f) \cup Chunks(g)
               h == f \o g
    <2>2. \A i \in 1 .. Len(h) : h[i] \in S
      BY <2>1
    <2> HIDE DEF S, h
    <2>3. Chunks(h) \subseteq S
      BY <2>2 DEF Chunks
    <2> QED BY <2>3 DEF S, h
  <1>1. CASE m <= Len(f)
    BY <1>1, ConcatProperties DEF Chunks
  <1>2. CASE m > Len(f)
    <2>1. (f \o g)[m] = g[m - Len(f)] /\ m - Len(f) \in 1 .. Len(g)
      BY <1>2, ConcatProperties, LenProperties
    <2> QED BY <2>1 DEF Chunks
  <1> QED BY <1>1, <1>2

\* The same of an append.
LEMMA ChunksOfAppend ==
    ASSUME NEW f \in Seq(Chunk), NEW c \in Chunk
    PROVE  Chunks(Append(f, c)) = Chunks(f) \cup {c}
  <1>1. /\ Len(Append(f, c)) = Len(f) + 1 /\ Append(f, c)[Len(f) + 1] = c
        /\ \A m \in 1 .. Len(f) : Append(f, c)[m] = f[m]
    BY AppendProperties
  <1>2. \A m \in 1 .. Len(f) + 1 : m \in 1 .. Len(f) \/ m = Len(f) + 1
    BY LenProperties
  <1>3. Len(f) + 1 \in 1 .. Len(f) + 1 /\ \A m \in 1 .. Len(f) : m \in 1 .. Len(f) + 1
    BY LenProperties
  <1> QED BY <1>1, <1>2, <1>3 DEF Chunks

\* Queueing p adds p, at the end.
LEMMA QueuedAfterAppend ==
    ASSUME TypeOK, NEW p \in Payloads, order' = Append(order, p)
    PROVE  /\ Queued' = Queued \cup {p}
           /\ Len(order') = Len(order) + 1 /\ order'[Len(order) + 1] = p
           /\ \A i \in 1 .. Len(order) : order'[i] = order[i]
  <1>1. /\ Len(order') = Len(order) + 1 /\ order'[Len(order) + 1] = p
        /\ \A i \in 1 .. Len(order) : order'[i] = order[i]
    BY AppendProperties DEF TypeOK
  <1>2. \A i \in 1 .. Len(order) + 1 : i \in 1 .. Len(order) \/ i = Len(order) + 1
    BY FileTypes
  <1>3. Len(order) + 1 \in 1 .. Len(order) + 1
        /\ \A i \in 1 .. Len(order) : i \in 1 .. Len(order) + 1
    BY LenProperties DEF TypeOK
  <1> QED BY <1>1, <1>2, <1>3 DEF Queued

\* A session that is past Enqueue never comes back to it.
LEMMA FreshStep ==
    ASSUME TypeOK, Next
    PROVE  \A p \in Payloads : Fresh(p)' => Fresh(p)
  <1> USE DEF files, counters, history
  <1>1. ASSUME NEW q \in Payloads, Push(q)
        PROVE  \A p \in Payloads : Fresh(p)' => Fresh(p)
    BY <1>1 DEF Fresh, TypeOK, Push, PushDelivered, PushRejected, PushFailed, EnqueueOversized,
       EnqueueAppend, EnqueueFails, EvictWriteTmp, EvictRename, EvictFails
  <1>2. ASSUME NEW d \in Drainers, Drain(d)
        PROVE  stage' = stage
    BY <1>2 DEF Drain, DrainStart, Claim, ClaimStatFails, Proceed, Decided, DrainFails, SendSkipsOversized,
       SendDelivered, SendRejected, SendFailed, DrainDone, RestoreWriteTmp, RestoreRename,
       RestoreRemove, RestoreFails, AdvanceTo
  <1>3. CASE Crash
    BY <1>3 DEF Crash, Fresh, TypeOK
  <1> QED BY <1>1, <1>2, <1>3 DEF Next, Fresh

\* The ids of the records between i and j of a file are those of its chunks.
LEMMA HeldIsStored ==
    ASSUME NEW f \in Seq(Chunk), NEW i \in Nat, NEW j \in 0 .. Len(f), i >= 1
    PROVE  \A q \in Held(f, i, j) : \E c \in Chunks(f) : c.id = q
  BY DEF Held, Chunks

\* Only Enqueue creates lines, one for a session that had none.
LEMMA LinesStep ==
    ASSUME TypeOK, TypeOK', Custody, Untouched, QueuedEndLines, Next
    PROVE  Untouched' /\ QueuedEndLines'
  <1>k. ASSUME Stored' \subseteq Stored, order' = order,
               \A p \in Payloads : Fresh(p)' /\ (\A c \in Stored : c.id # p)
                   => fate'[p] = fate[p] /\ acks'[p] = acks[p]
        PROVE  Untouched' /\ QueuedEndLines'
    <2>1. Queued' = Queued
      BY <1>k DEF Queued
    <2>2. QueuedEndLines'
      BY <1>k, <2>1 DEF QueuedEndLines, Terminated
    <2>3. Untouched'
      BY <1>k, <2>1, FreshStep DEF Untouched
    <2> QED BY <2>2, <2>3
  <1>1. CASE Quiet
    <2>1. Stored' = Stored
      BY <1>1 DEF Quiet, Stored, Chunks
    <2>2. \A p \in Payloads : Fresh(p)' => acks'[p] = acks[p]
      BY <1>1 DEF Quiet, TypeOK
    <2> QED BY <1>1, <1>k, <2>1, <2>2 DEF Quiet
  <1>2. ASSUME NEW p \in Payloads, NEW c \in Chunk, Appends(p, c)
        PROVE  Untouched' /\ QueuedEndLines'
    <2>1. Stored' = Stored \cup {c}
      BY <1>2, ChunksOfAppend DEF Appends, Stored, TypeOK
    <2>2. Fresh(p) /\ ~Fresh(p)' /\ c.id = p /\ fate' = fate /\ acks' = acks
      BY <1>2 DEF Appends, Fresh
    <2>3. CASE order' = order
      <3>1. Queued' = Queued /\ p \notin Queued
        BY <2>2, <2>3 DEF Queued, Untouched
      <3>2. QueuedEndLines'
        BY <2>1, <2>2, <3>1 DEF QueuedEndLines, Terminated
      <3>3. Untouched'
        BY <2>1, <2>2, <3>1, FreshStep DEF Untouched
      <3> QED BY <3>2, <3>3
    <2>4. CASE order' = Append(order, p) /\ Terminated(c)
      <3>1. Queued' = Queued \cup {p}
        BY <2>4, QueuedAfterAppend
      <3>2. QueuedEndLines'
        BY <2>1, <2>2, <2>4, <3>1 DEF QueuedEndLines, Terminated, Untouched
      <3>3. Untouched'
        BY <2>1, <2>2, <3>1, FreshStep DEF Untouched
      <3> QED BY <3>2, <3>3
    <2> QED BY <1>2, <2>3, <2>4 DEF Appends
  <1>3. ASSUME NEW k \in 0 .. Len(live), Evicts(k)
        PROVE  Untouched' /\ QueuedEndLines'
    <2>1. Stored' \subseteq Stored
      BY <1>3, ChunksOfAfter DEF Evicts, Stored, TypeOK
    <2>2. \A q \in Held(live, 1, k) : \E c \in Stored : c.id = q
      <3>1. 1 \in Nat /\ 1 >= 1
        OBVIOUS
      <3>2. \A q \in Held(live, 1, k) : \E c \in Chunks(live) : c.id = q
        BY <3>1, FileTypes, HeldIsStored
      <3> QED BY <3>2 DEF Stored
    <2>3. \A p \in Payloads : (\A c \in Stored : c.id # p) => fate'[p] = fate[p]
      BY <1>3, <2>2 DEF Evicts, Settle
    <2> QED BY <1>3, <1>k, <2>1, <2>3 DEF Evicts
  <1>4. CASE Takes
    <2>1. Stored' \subseteq Stored
      BY <1>4 DEF Takes, Stored, Chunks
    <2> QED BY <1>4, <1>k, <2>1 DEF Takes
  <1>5. ASSUME NEW d \in Drainers, NEW j \in 1 .. Len(claimed), NEW why, Passes(d, j, why)
        PROVE  Untouched' /\ QueuedEndLines'
    <2>1. Stored' = Stored
      BY <1>5 DEF Passes, Stored
    <2>2. offset[d] \in Nat /\ claimed \in Seq(Chunk)
      BY DEF TypeOK
    <2>3. \A q \in Held(claimed, offset[d] + 1, j) : \E c \in Stored : c.id = q
      BY <2>2 DEF Held, Stored, Chunks
    <2>4. claimed[j] \in Stored
      BY DEF Stored, Chunks
    <2>5. \A p \in Payloads : (\A c \in Stored : c.id # p)
              => fate'[p] = fate[p] /\ acks'[p] = acks[p]
      BY <1>5, <2>3, <2>4 DEF Passes, Settle, TypeOK
    <2> QED BY <1>5, <1>k, <2>1, <2>5 DEF Passes
  <1>6. ASSUME NEW d \in Drainers, Restores(d)
        PROVE  Untouched' /\ QueuedEndLines'
    <2>1. offset[d] \in 0 .. Len(claimed)
      BY DEF TypeOK, Custody, OffsetInFile
    <2>2. Chunks(live') \subseteq Stored
      <3> DEFINE rest == After(claimed, offset[d])
      <3>1. rest \in Seq(Chunk) /\ Chunks(rest) \subseteq Chunks(claimed) /\ live \in Seq(Chunk)
        BY <2>1, FileTypes, AfterType, ChunksOfAfter
      <3>2. live' = rest \o live
        BY <1>6 DEF Restores
      <3> HIDE DEF rest
      <3>3. Chunks(rest \o live) \subseteq Chunks(rest) \cup Chunks(live)
        BY <3>1, ChunksOfConcat
      <3> QED BY <3>1, <3>2, <3>3 DEF Stored
    <2>3. Stored' \subseteq Stored
      BY <1>6, <2>2 DEF Restores, Stored
    <2> QED BY <1>6, <1>k, <2>3 DEF Restores
  <1>7. ASSUME NEW d \in Drainers, Removes(d)
        PROVE  Untouched' /\ QueuedEndLines'
    <2>1. Stored' \subseteq Stored
      BY <1>7 DEF Removes, Stored, Chunks
    <2> QED BY <1>7, <1>k, <2>1 DEF Removes
  <1>8. ASSUME NEW d \in Drainers, Overwrites(d)
        PROVE  Untouched' /\ QueuedEndLines'
    <2>1. Stored' \subseteq Stored
      BY <1>8 DEF Overwrites, Stored, Chunks
    <2>2. \A q \in Contents(claimed) : \E c \in Stored : c.id = q
      BY DEF Contents, Held, Stored, Chunks
    <2>3. \A p \in Payloads : (\A c \in Stored : c.id # p) => fate'[p] = fate[p]
      BY <1>8, <2>2 DEF Overwrites, Settle
    <2> QED BY <1>8, <1>k, <2>1, <2>3 DEF Overwrites
  <1> QED BY <1>1, <1>2, <1>3, <1>4, <1>5, <1>6, <1>7, <1>8, Effects

-----------------------------------------------------------------------------
(* The order of the lines *)

\* While the claimed file waits to be removed, the live file begins with what
\* was left of it.
RestoredFirst == \A d \in Drainers : pc[d] = "restoreRemove" =>
    /\ Len(claimed) - offset[d] <= Len(live)
    /\ \A m \in 1 .. Len(claimed) - offset[d] : live[m] = claimed[offset[d] + m]

\* The mutex keeps the live file as the restore left it.
LEMMA RestoredStep ==
    ASSUME TypeOK, Custody, RestoredFirst, Next
    PROVE  RestoredFirst'
  <1> USE ActorsAssumption DEF files, counters, history
  <1> SUFFICES ASSUME NEW e \in Drainers, pc'[e] = "restoreRemove"
               PROVE  /\ Len(claimed') - offset'[e] <= Len(live')
                      /\ \A m \in 1 .. Len(claimed') - offset'[e] :
                            live'[m] = claimed'[offset'[e] + m]
    BY DEF RestoredFirst
  <1>1. CASE pc[e] = "restoreRemove"
    <2>1. mu = e /\ draining = e
      BY <1>1 DEF Custody, MutexHeld, OneDrain
    <2>2. ASSUME NEW p \in Payloads, Push(p)
          PROVE  live' = live /\ claimed' = claimed /\ offset' = offset
      <3>1. stage[p] \notin {"evict", "evictRename"}
        BY <2>1 DEF Custody, MutexHeld
      <3> QED BY <2>1, <2>2, <3>1 DEF Push, PushDelivered, PushRejected, PushFailed,
             EnqueueOversized, EnqueueAppend, EnqueueFails, EvictWriteTmp, EvictRename, EvictFails
    <2>3. ASSUME NEW d \in Drainers, Drain(d) PROVE FALSE
      <3>1. d = e
        BY <2>1, <2>3 DEF Custody, OneDrain, Drain, DrainStart, Claim, ClaimStatFails, Proceed, Decided, DrainFails,
           SendSkipsOversized, SendDelivered, SendRejected, SendFailed, DrainDone, Reads,
           RestoreWriteTmp, RestoreRename, RestoreRemove, RestoreFails
      <3> QED BY <1>1, <2>1, <2>3, <3>1 DEF TypeOK, Drain, DrainStart, Claim, ClaimStatFails, Proceed, Decided, DrainFails,
             SendSkipsOversized, SendDelivered, SendRejected, SendFailed, DrainDone, Reads,
             RestoreWriteTmp, RestoreRename, RestoreRemove, RestoreFails, Return
    <2>4. ~Crash
      BY DEF Crash
    <2> QED BY <1>1, <2>2, <2>3, <2>4 DEF Next, RestoredFirst
  <1>2. CASE pc[e] # "restoreRemove"
    <2>1. RestoreRename(e)
      <3>1. ASSUME NEW p \in Payloads, Push(p) PROVE pc' = pc
        BY <3>1 DEF Push, PushDelivered, PushRejected, PushFailed, EnqueueOversized,
           EnqueueAppend, EnqueueFails, EvictWriteTmp, EvictRename, EvictFails
      <3>2. ASSUME NEW d \in Drainers, Drain(d) PROVE RestoreRename(e)
        BY <1>2, <3>2 DEF TypeOK, Drain, DrainStart, Claim, ClaimStatFails, Proceed, Decided, DrainFails,
           SendSkipsOversized, SendDelivered, SendRejected, SendFailed, DrainDone, AdvanceTo,
           RestoreWriteTmp, RestoreRename, RestoreRemove, RestoreFails, Return
      <3>3. ~Crash
        BY DEF Crash
      <3> QED BY <1>2, <3>1, <3>2, <3>3 DEF Next
    <2>2. /\ claimed' = claimed /\ offset' = offset
          /\ live' = After(claimed, offset[e]) \o live
      BY <2>1 DEF RestoreRename, Custody, RestoreTmpIsMerge
    <2>3. offset[e] \in 0 .. Len(claimed)
      BY DEF TypeOK, Custody, OffsetInFile
    <2>4. /\ After(claimed, offset[e]) \in Seq(Chunk)
          /\ Len(After(claimed, offset[e])) = Len(claimed) - offset[e]
          /\ \A i \in 1 .. Len(claimed) - offset[e] :
                After(claimed, offset[e])[i] = claimed[offset[e] + i]
      BY <2>3, FileTypes, AfterType
    <2>5. /\ Len(live') = (Len(claimed) - offset[e]) + Len(live)
          /\ \A m \in 1 .. Len(claimed) - offset[e] : live'[m] = After(claimed, offset[e])[m]
      <3> DEFINE rest == After(claimed, offset[e])
      <3>1. rest \in Seq(Chunk) /\ live \in Seq(Chunk) /\ Len(rest) = Len(claimed) - offset[e]
        BY <2>4, FileTypes
      <3>2. live' = rest \o live
        BY <2>2
      <3> HIDE DEF rest
      <3>3. /\ Len(rest \o live) = Len(rest) + Len(live)
            /\ \A m \in 1 .. Len(rest) + Len(live) :
                  (rest \o live)[m] = IF m <= Len(rest) THEN rest[m] ELSE live[m - Len(rest)]
        BY <3>1, ConcatProperties
      <3>4. Len(rest) \in Nat /\ Len(live) \in Nat
        BY <3>1, LenProperties
      <3>5. \A m \in 1 .. Len(rest) : (rest \o live)[m] = rest[m]
        BY <3>3, <3>4
      <3> QED BY <3>1, <3>2, <3>3, <3>5 DEF rest
    <2>6. Len(live) \in Nat
      BY FileTypes
    <2> QED BY <2>2, <2>3, <2>4, <2>5, <2>6
  <1> QED BY <1>1, <1>2

Ids(f, n) == {f[m].id : m \in 1 .. n}

\* In the order o, q comes before r.
Earlier(o, q, r) == \E i, j \in 1 .. Len(o) : i < j /\ o[i] = q /\ o[j] = r

\* In the claimed file followed by the live one, a session comes after every
\* session that was queued before it and has met no end.
ClaimedSorted == \A m \in 1 .. Len(claimed) : \A q \in Payloads :
    Earlier(order, q, claimed[m].id) /\ fate[q] = {} => q \in Ids(claimed, m - 1)
LiveSorted == \A m \in 1 .. Len(live) : \A q \in Payloads :
    Earlier(order, q, live[m].id) /\ fate[q] = {} => q \in Ids(claimed, Len(claimed)) \cup Ids(live, m - 1)

\* The live file on its own is in order too: it is what is left should a claim
\* overwrite the claimed file.
LiveKeepsOrder == \A m \in 1 .. Len(live) : \A q \in Payloads :
    Earlier(order, q, live[m].id) /\ fate[q] = {} /\ q \in Ids(live, Len(live))
        => q \in Ids(live, m - 1)

\* The order is one of queued sessions.
LEMMA EarlierQueued ==
    ASSUME NEW q, NEW r, Earlier(order, q, r) PROVE q \in Queued /\ r \in Queued
  BY DEF Earlier, Queued

\* A session that is queued comes after all others.
LEMMA EarlierAfterAppend ==
    ASSUME TypeOK, NEW p \in Payloads, order' = Append(order, p), NEW q, NEW r, Earlier(order', q, r)
    PROVE  Earlier(order, q, r) \/ (q \in Queued /\ r = p)
  <1>1. /\ Len(order') = Len(order) + 1 /\ order'[Len(order) + 1] = p
        /\ \A i \in 1 .. Len(order) : order'[i] = order[i]
    BY QueuedAfterAppend
  <1>2. PICK i \in 1 .. Len(order'), j \in 1 .. Len(order') :
            i < j /\ order'[i] = q /\ order'[j] = r
    BY DEF Earlier
  <1>3. Len(order) \in Nat
    BY LenProperties DEF TypeOK
  <1>4. i \in 1 .. Len(order) /\ (j \in 1 .. Len(order) \/ j = Len(order) + 1)
    BY <1>1, <1>2, <1>3
  <1>5. CASE j \in 1 .. Len(order)
    BY <1>1, <1>2, <1>4, <1>5 DEF Earlier
  <1>6. CASE j = Len(order) + 1
    BY <1>1, <1>2, <1>4, <1>6 DEF Queued
  <1> QED BY <1>4, <1>5, <1>6

\* Of a queued session a file has the whole line.
LEMMA QueuedIsWhole ==
    ASSUME TypeOK, QueuedEndLines, NEW f \in {live, claimed}, NEW m \in 1 .. Len(f),
           f[m].id \in Queued
    PROVE  Whole(f[m])
  <1>1. f[m] \in Stored /\ f[m] \in Chunk
    BY ElementOfSeq DEF Stored, Chunks, TypeOK
  <1>2. f[m].n = Size[f[m].id] + 1 /\ Size[f[m].id] \in Nat
    BY <1>1, BytesAssumption DEF QueuedEndLines, Terminated, Chunk
  <1> QED BY <1>2 DEF Whole

Sorted == ClaimedSorted /\ LiveSorted /\ LiveKeepsOrder

\* Claims, evictions, restores and removals keep the order of the lines.
LEMMA SortedStep ==
    ASSUME TypeOK, TypeOK', Custody, Accounted, Untouched, QueuedEndLines, RestoredFirst,
           Sorted, Next
    PROVE  Sorted'
  <1>t. live \in Seq(Chunk) /\ claimed \in Seq(Chunk)
    BY DEF TypeOK
  <1>n. Len(live) \in Nat /\ Len(claimed) \in Nat
    BY <1>t, LenProperties
  <1>f. \A q \in Payloads : fate'[q] = {} => fate[q] = {}
    BY FateGrows
  <1>o. ASSUME order' = order, NEW q, NEW r, Earlier(order', q, r) PROVE Earlier(order, q, r)
    BY <1>o DEF Earlier
  <1>c. ASSUME claimed' = claimed, order' = order
        PROVE  ClaimedSorted'
    BY <1>c, <1>f, <1>o DEF Sorted, ClaimedSorted, Ids
  <1>l. ASSUME claimed' = claimed, order' = order, live' = live
        PROVE  Sorted'
    <2>1. LiveSorted'
      BY <1>l, <1>f, <1>o DEF Sorted, LiveSorted, Ids
    <2>2. LiveKeepsOrder'
      BY <1>l, <1>f, <1>o DEF Sorted, LiveKeepsOrder, Ids
    <2> QED BY <1>l, <1>c, <2>1, <2>2 DEF Sorted
  <1>p. ASSUME NEW d \in Drainers, NEW i \in 1 .. offset[d], i \in 1 .. Len(claimed),
               claimed[i].id \in Queued
        PROVE  fate[claimed[i].id] # {}
    <2>1. claimed[i].id \in Held(claimed, 1, offset[d])
      BY <1>p, QueuedIsWhole DEF Held
    <2> QED BY <2>1 DEF Custody, PassedIsSettled
  <1>1. CASE Quiet
    BY <1>1, <1>l DEF Quiet
  <1>2. ASSUME NEW p \in Payloads, NEW c \in Chunk, Appends(p, c)
        PROVE  Sorted'
    <2>1. /\ claimed' = claimed /\ fate' = fate /\ Len(live') = Len(live) + 1
          /\ live'[Len(live) + 1].id = p
          /\ \A m \in 1 .. Len(live) : live'[m] = live[m]
      BY <1>2, AppendProperties DEF Appends, TypeOK
    <2>2. /\ p \notin Queued
          /\ \A m \in 1 .. Len(live) : live[m].id # p
          /\ \A m \in 1 .. Len(claimed) : claimed[m].id # p
      BY <1>2 DEF Appends, Fresh, Untouched, Stored, Chunks
    <2>3. ASSUME NEW q, NEW r, Earlier(order', q, r)
          PROVE  \/ Earlier(order, q, r) /\ r # p
                 \/ q \in Queued /\ r = p
      BY <1>2, <1>o, <2>2, <2>3, EarlierQueued, EarlierAfterAppend DEF Appends
    <2>4. ClaimedSorted'
      BY <2>1, <2>2, <2>3 DEF Sorted, ClaimedSorted, Ids
    <2>5. ASSUME NEW m \in 1 .. Len(live'), NEW q \in Payloads, Earlier(order', q, live'[m].id),
                 fate'[q] = {}
          PROVE  q \in Ids(claimed', Len(claimed')) \cup Ids(live', m - 1)
      <3>1. CASE m \in 1 .. Len(live)
        BY <1>n, <2>1, <2>2, <2>3, <2>5, <3>1 DEF Sorted, LiveSorted, Ids
      <3>2. CASE m = Len(live) + 1
        <4>1. q \in Queued
          BY <2>1, <2>2, <2>3, <2>5, <3>2, EarlierQueued
        <4>2. q \in Contents(live) \cup Contents(claimed)
          BY <2>1, <2>5, <4>1 DEF Accounted, OnDisk
        <4>3. Ids(live', m - 1) = Ids(live, Len(live))
          BY <1>n, <2>1, <3>2 DEF Ids
        <4> QED BY <2>1, <4>2, <4>3 DEF Contents, Held, Ids
      <3> QED BY <1>n, <2>1, <3>1, <3>2
    <2>6. ASSUME NEW m \in 1 .. Len(live'), NEW q \in Payloads, Earlier(order', q, live'[m].id),
                 fate'[q] = {}, q \in Ids(live', Len(live'))
          PROVE  q \in Ids(live', m - 1)
      <3>0. q \in Queued
        BY <2>3, <2>6, EarlierQueued
      <3>1. PICK i \in 1 .. Len(live') : live'[i].id = q
        BY <2>6 DEF Ids
      <3>2. i \in 1 .. Len(live) /\ live[i].id = q
        BY <1>n, <2>1, <2>2, <3>0, <3>1
      <3>3. q \in Ids(live, Len(live))
        BY <3>2 DEF Ids
      <3>4. CASE m \in 1 .. Len(live)
        <4>1. Earlier(order, q, live[m].id) /\ fate[q] = {}
          BY <2>1, <2>2, <2>3, <2>6, <3>4
        <4>2. q \in Ids(live, m - 1)
          BY <3>3, <3>4, <4>1 DEF Sorted, LiveKeepsOrder
        <4> QED BY <1>n, <2>1, <3>4, <4>2 DEF Ids
      <3>5. CASE m = Len(live) + 1
        BY <1>n, <2>1, <3>2, <3>5 DEF Ids
      <3> QED BY <1>n, <2>1, <3>4, <3>5
    <2> QED BY <2>4, <2>5, <2>6 DEF Sorted, LiveSorted, LiveKeepsOrder
  <1>3. ASSUME NEW k \in 0 .. Len(live), Evicts(k)
        PROVE  Sorted'
    <2>1. /\ Len(live') = Len(live) - k
          /\ \A m \in 1 .. Len(live) - k : live'[m] = live[k + m]
      <3>1. live' = After(live, k)
        BY <1>3 DEF Evicts
      <3> QED BY <1>t, <3>1, AfterType
    <2>2. \A q \in Payloads : q \in Held(live, 1, k) => fate'[q] # {}
      BY <1>3, SettleType DEF Evicts
    <2>3. claimed' = claimed /\ order' = order
      BY <1>3 DEF Evicts
    <2>4. ASSUME NEW m \in 1 .. Len(live'), NEW q \in Payloads, Earlier(order', q, live'[m].id),
                 fate'[q] = {}
          PROVE  q \in Ids(claimed', Len(claimed')) \cup Ids(live', m - 1)
      <3>1. k + m \in 1 .. Len(live) /\ Earlier(order, q, live[k + m].id) /\ q \in Queued
        BY <1>n, <1>o, <2>1, <2>3, <2>4, EarlierQueued
      <3>2. q \in Ids(claimed, Len(claimed)) \cup Ids(live, (k + m) - 1)
        BY <1>f, <2>4, <3>1 DEF Sorted, LiveSorted
      <3>3. CASE q \in Ids(live, (k + m) - 1)
        <4>1. PICK i \in 1 .. (k + m) - 1 : live[i].id = q
          BY <3>3 DEF Ids
        <4>2. i \in 1 .. Len(live) /\ Whole(live[i])
          BY <1>n, <3>1, <4>1, QueuedIsWhole
        <4>3. i > k
          BY <2>2, <2>4, <4>1, <4>2 DEF Held
        <4>4. i - k \in 1 .. m - 1 /\ live'[i - k] = live[i]
          <5>1. i - k \in 1 .. m - 1 /\ i - k \in 1 .. Len(live') /\ k + (i - k) = i
            BY <1>n, <2>1, <3>1, <4>1, <4>2, <4>3
          <5> QED BY <2>1, <5>1
        <4> QED BY <4>1, <4>4 DEF Ids
      <3> QED BY <2>3, <3>2, <3>3
    <2>5. ASSUME NEW m \in 1 .. Len(live'), NEW q \in Payloads, Earlier(order', q, live'[m].id),
                 fate'[q] = {}, q \in Ids(live', Len(live'))
          PROVE  q \in Ids(live', m - 1)
      <3>1. k + m \in 1 .. Len(live) /\ Earlier(order, q, live[k + m].id) /\ q \in Queued
        BY <1>n, <1>o, <2>1, <2>3, <2>5, EarlierQueued
      <3>2. PICK h \in 1 .. Len(live') : live'[h].id = q
        BY <2>5 DEF Ids
      <3>3. k + h \in 1 .. Len(live) /\ live[k + h].id = q
        BY <1>n, <2>1, <3>2
      <3>4. q \in Ids(live, Len(live))
        BY <3>3 DEF Ids
      <3>5. q \in Ids(live, (k + m) - 1)
        BY <1>f, <2>5, <3>1, <3>4 DEF Sorted, LiveKeepsOrder
      <3>6. PICK i \in 1 .. (k + m) - 1 : live[i].id = q
        BY <3>5 DEF Ids
      <3>7. i \in 1 .. Len(live) /\ Whole(live[i])
        BY <1>n, <3>1, <3>6, QueuedIsWhole
      <3>8. i > k
        BY <2>2, <2>5, <3>6, <3>7 DEF Held
      <3>9. i - k \in 1 .. m - 1 /\ i - k \in 1 .. Len(live') /\ k + (i - k) = i
        BY <1>n, <2>1, <3>1, <3>6, <3>7, <3>8
      <3>10. live'[i - k] = live[i]
        BY <2>1, <3>9
      <3> QED BY <3>6, <3>9, <3>10 DEF Ids
    <2> QED BY <1>c, <2>3, <2>4, <2>5 DEF Sorted, LiveSorted, LiveKeepsOrder
  <1>4. CASE Takes
    <2>1. /\ claimed' = live /\ live' = <<>> /\ order' = order /\ fate' = fate
          /\ claimed = <<>> /\ Len(claimed) = 0 /\ Len(live') = 0
      BY <1>4 DEF Takes
    <2>2. LiveSorted' /\ LiveKeepsOrder'
      BY <2>1 DEF LiveSorted, LiveKeepsOrder
    <2>3. Ids(claimed, Len(claimed)) = {}
      BY <2>1 DEF Ids
    <2>4. ClaimedSorted'
      BY <1>o, <2>1, <2>3 DEF Sorted, ClaimedSorted, LiveSorted, Ids
    <2> QED BY <2>2, <2>4 DEF Sorted
  <1>5. ASSUME NEW d \in Drainers, NEW j \in 1 .. Len(claimed), NEW why, Passes(d, j, why)
        PROVE  Sorted'
    BY <1>5, <1>l DEF Passes
  <1>6. ASSUME NEW d \in Drainers, Restores(d)
        PROVE  Sorted'
    <2>1. offset[d] \in 0 .. Len(claimed)
      BY DEF TypeOK, Custody, OffsetInFile
    <2> DEFINE o == offset[d]
               L == Len(claimed) - offset[d]
    <2>2. /\ After(claimed, o) \in Seq(Chunk) /\ Len(After(claimed, o)) = L
          /\ \A m \in 1 .. L : After(claimed, o)[m] = claimed[o + m]
      BY <1>t, <2>1, AfterType
    <2>l. L \in Nat
      BY <1>n, <2>1
    <2>3. /\ Len(live') = L + Len(live)
          /\ \A m \in 1 .. L : live'[m] = claimed[o + m]
          /\ \A m \in L + 1 .. L + Len(live) : live'[m] = live[m - L]
      <3>1. live' = After(claimed, o) \o live
        BY <1>6 DEF Restores
      <3> HIDE DEF L, o
      <3>2. /\ Len(live') = L + Len(live)
            /\ \A m \in 1 .. L + Len(live) :
                  live'[m] = IF m <= L THEN After(claimed, o)[m] ELSE live[m - L]
        BY <1>t, <2>2, <3>1, ConcatProperties
      <3> QED BY <1>n, <2>2, <2>l, <3>2
    <2>4. claimed' = claimed /\ order' = order
      BY <1>6 DEF Restores
    <2>5. ASSUME NEW m \in 1 .. Len(live'), NEW q \in Payloads, Earlier(order', q, live'[m].id),
                 fate'[q] = {}
          PROVE  q \in Ids(claimed', Len(claimed')) \cup Ids(live', m - 1)
      <3>0. fate[q] = {} /\ Earlier(order, q, live'[m].id)
        BY <1>f, <1>o, <2>4, <2>5
      <3>1. CASE m <= L
        <4>1. o + m \in 1 .. Len(claimed) /\ live'[m] = claimed[o + m]
          BY <1>n, <2>1, <2>3, <3>1
        <4>2. q \in Ids(claimed, (o + m) - 1)
          BY <3>0, <4>1 DEF Sorted, ClaimedSorted
        <4>3. Ids(claimed, (o + m) - 1) \subseteq Ids(claimed, Len(claimed))
          BY <1>n, <4>1 DEF Ids
        <4> QED BY <2>4, <4>2, <4>3
      <3>2. CASE m > L
        <4>1. m - L \in 1 .. Len(live) /\ live'[m] = live[m - L]
          BY <1>n, <2>1, <2>3, <3>2
        <4>2. q \in Ids(claimed, Len(claimed)) \cup Ids(live, (m - L) - 1)
          BY <3>0, <4>1 DEF Sorted, LiveSorted
        <4>3. Ids(live, (m - L) - 1) \subseteq Ids(live', m - 1)
          <5> SUFFICES ASSUME NEW i \in 1 .. (m - L) - 1 PROVE live[i].id \in Ids(live', m - 1)
            BY DEF Ids
          <5> HIDE DEF L
          <5>1. L + i \in 1 .. m - 1 /\ L + i \in L + 1 .. L + Len(live) /\ (L + i) - L = i
            BY <1>n, <2>l, <4>1
          <5>2. live'[L + i] = live[i]
            BY <2>3, <5>1
          <5> QED BY <5>1, <5>2 DEF Ids
        <4> QED BY <2>4, <4>2, <4>3
      <3> QED BY <1>n, <2>1, <2>3, <3>1, <3>2
    <2>6. ASSUME NEW m \in 1 .. Len(live'), NEW q \in Payloads, Earlier(order', q, live'[m].id),
                 fate'[q] = {}
          PROVE  q \in Ids(live', m - 1)
      <3>0. fate[q] = {} /\ Earlier(order, q, live'[m].id) /\ q \in Queued
        BY <1>f, <1>o, <2>4, <2>6, EarlierQueued
      <3>c. ASSUME NEW i \in 1 .. Len(claimed), claimed[i].id = q PROVE i > o
        BY <1>p, <2>1, <3>0, <3>c
      <3> HIDE DEF L
      <3>l. L = Len(claimed) - o
        BY DEF L
      <3> HIDE DEF o
      <3>o. o \in 0 .. Len(claimed)
        BY <2>1 DEF o
      <3>s. ASSUME NEW i \in 1 .. Len(claimed), claimed[i].id = q, i - o < m
            PROVE  q \in Ids(live', m - 1)
        <4>1. i > o
          BY <3>c, <3>s
        <4>2. i - o \in 1 .. L /\ o + (i - o) = i
          BY <1>n, <2>l, <3>l, <3>o, <4>1
        <4>3. live'[i - o].id = q
          BY <2>3, <3>s, <4>2
        <4>4. i - o \in 1 .. m - 1
          BY <1>n, <2>3, <2>l, <3>o, <3>s, <4>2
        <4> QED BY <4>3, <4>4 DEF Ids
      <3>1. CASE m <= L
        <4>1. o + m \in 1 .. Len(claimed) /\ live'[m] = claimed[o + m]
          BY <1>n, <2>3, <2>l, <3>1, <3>l, <3>o
        <4>2. q \in Ids(claimed, (o + m) - 1)
          BY <3>0, <4>1 DEF Sorted, ClaimedSorted
        <4>3. PICK i \in 1 .. (o + m) - 1 : claimed[i].id = q
          BY <4>2 DEF Ids
        <4>4. i \in 1 .. Len(claimed) /\ i - o < m
          BY <1>n, <3>o, <4>1, <4>3
        <4> QED BY <3>s, <4>3, <4>4
      <3>2. CASE m > L
        <4>1. m - L \in 1 .. Len(live) /\ live'[m] = live[m - L]
          BY <1>n, <2>3, <2>l, <3>2
        <4>2. q \in Ids(claimed, Len(claimed)) \cup Ids(live, (m - L) - 1)
          BY <3>0, <4>1 DEF Sorted, LiveSorted
        <4>3. CASE q \in Ids(claimed, Len(claimed))
          <5>1. PICK i \in 1 .. Len(claimed) : claimed[i].id = q
            BY <4>3 DEF Ids
          <5>2. i - o < m
            BY <1>n, <2>l, <3>2, <3>l, <3>o
          <5> QED BY <3>s, <5>1, <5>2
        <4>4. CASE q \in Ids(live, (m - L) - 1)
          <5>1. PICK i \in 1 .. (m - L) - 1 : live[i].id = q
            BY <4>4 DEF Ids
          <5>2. L + i \in 1 .. m - 1 /\ L + i \in L + 1 .. L + Len(live) /\ (L + i) - L = i
            BY <1>n, <2>l, <4>1
          <5>3. live'[L + i] = live[i]
            BY <2>3, <5>2
          <5> QED BY <5>1, <5>2, <5>3 DEF Ids
        <4> QED BY <4>2, <4>3, <4>4
      <3> QED BY <1>n, <2>3, <2>l, <3>1, <3>2
    <2> QED BY <1>c, <2>4, <2>5, <2>6 DEF Sorted, LiveSorted, LiveKeepsOrder
  <1>7. ASSUME NEW d \in Drainers, Removes(d)
        PROVE  Sorted'
    <2>1. claimed' = <<>> /\ Len(claimed') = 0 /\ live' = live /\ order' = order /\ fate' = fate
      BY <1>7 DEF Removes
    <2>2. ClaimedSorted'
      BY <2>1 DEF ClaimedSorted
    <2>3. offset[d] \in 0 .. Len(claimed)
      BY DEF TypeOK, Custody, OffsetInFile
    <2>4. ASSUME NEW m \in 1 .. Len(live), NEW q \in Payloads, Earlier(order, q, live[m].id),
                 fate[q] = {}
          PROVE  q \in Ids(live, m - 1)
      <3>0. q \in Queued
        BY <2>4, EarlierQueued
      <3>1. ASSUME NEW i \in 1 .. Len(claimed), claimed[i].id = q PROVE i > offset[d]
        BY <1>p, <2>3, <2>4, <3>0, <3>1
      <3>2. q \in Ids(claimed, Len(claimed)) \cup Ids(live, m - 1)
        BY <2>4 DEF Sorted, LiveSorted
      <3>3. CASE q \in Ids(claimed, Len(claimed)) /\ pc[d] = "restoreRemove"
        <4>1. PICK i \in 1 .. Len(claimed) : claimed[i].id = q
          BY <3>3 DEF Ids
        <4>r. /\ Len(claimed) - offset[d] <= Len(live)
              /\ \A k \in 1 .. Len(claimed) - offset[d] : live[k] = claimed[offset[d] + k]
          BY <3>3 DEF RestoredFirst
        <4>2. ASSUME NEW h \in 1 .. Len(claimed), claimed[h].id = q, h - offset[d] < m
              PROVE  q \in Ids(live, m - 1)
          <5>1. h > offset[d]
            BY <3>1, <4>2
          <5>2. h - offset[d] \in 1 .. Len(claimed) - offset[d] /\ offset[d] + (h - offset[d]) = h
            BY <1>n, <2>3, <5>1
          <5>3. live[h - offset[d]].id = q
            BY <4>2, <4>r, <5>2
          <5>4. h - offset[d] \in 1 .. m - 1
            BY <1>n, <2>3, <4>2, <5>2
          <5> QED BY <5>3, <5>4 DEF Ids
        <4>3. CASE m > Len(claimed) - offset[d]
          <5>1. i - offset[d] < m
            BY <1>n, <2>3, <4>3
          <5> QED BY <4>1, <4>2, <5>1
        <4>4. CASE m <= Len(claimed) - offset[d]
          <5>1. offset[d] + m \in 1 .. Len(claimed) /\ claimed[offset[d] + m] = live[m]
            BY <1>n, <2>3, <4>4, <4>r
          <5>2. q \in Ids(claimed, (offset[d] + m) - 1)
            BY <2>4, <5>1 DEF Sorted, ClaimedSorted
          <5>3. PICK h \in 1 .. (offset[d] + m) - 1 : claimed[h].id = q
            BY <5>2 DEF Ids
          <5>4. h \in 1 .. Len(claimed) /\ h - offset[d] < m
            BY <1>n, <2>3, <5>1
          <5> QED BY <4>2, <5>3, <5>4
        <4> QED BY <1>n, <2>3, <4>3, <4>4
      <3>4. CASE q \in Ids(claimed, Len(claimed)) /\ offset[d] = Len(claimed)
        BY <1>n, <3>1, <3>4 DEF Ids
      <3> QED BY <1>7, <3>2, <3>3, <3>4 DEF Removes
    <2>5. LiveSorted' /\ LiveKeepsOrder'
      BY <1>o, <2>1, <2>4 DEF LiveSorted, LiveKeepsOrder, Ids
    <2> QED BY <2>2, <2>5 DEF Sorted
  <1>8. ASSUME NEW d \in Drainers, Overwrites(d)
        PROVE  Sorted'
    <2>1. /\ claimed' = live /\ live' = <<>> /\ order' = order /\ Len(live') = 0
      BY <1>8 DEF Overwrites
    <2>2. LiveSorted' /\ LiveKeepsOrder'
      BY <2>1 DEF LiveSorted, LiveKeepsOrder
    <2>3. \A q \in Contents(claimed) \ Contents(live) : q \in Payloads => fate'[q] # {}
      BY <1>8, SettleType DEF Overwrites
    <2>4. ASSUME NEW m \in 1 .. Len(live), NEW q \in Payloads, Earlier(order', q, live[m].id),
                 fate'[q] = {}
          PROVE  q \in Ids(live, m - 1)
      <3>1. Earlier(order, q, live[m].id) /\ fate[q] = {} /\ q \in Queued
        BY <1>f, <1>o, <2>1, <2>4, EarlierQueued
      <3>2. q \in Ids(claimed, Len(claimed)) \cup Ids(live, m - 1)
        BY <3>1 DEF Sorted, LiveSorted
      <3>3. CASE q \in Ids(claimed, Len(claimed))
        <4>1. PICK i \in 1 .. Len(claimed) : claimed[i].id = q
          BY <3>3 DEF Ids
        <4>2. q \in Contents(claimed)
          BY <3>1, <4>1, QueuedIsWhole DEF Contents, Held
        <4>3. q \in Ids(live, Len(live))
          BY <2>3, <2>4, <4>2 DEF Contents, Held, Ids
        <4> QED BY <3>1, <4>3 DEF Sorted, LiveKeepsOrder
      <3> QED BY <3>2, <3>3
    <2>5. ClaimedSorted'
      BY <2>1, <2>4 DEF ClaimedSorted
    <2> QED BY <2>2, <2>5 DEF Sorted
  <1> QED BY <1>1, <1>2, <1>3, <1>4, <1>5, <1>6, <1>7, <1>8, Effects

\* A drain passes the lines in their order, so that none overtakes another.
LEMMA InOrderStep ==
    ASSUME TypeOK, TypeOK', Custody, Untouched, QueuedEndLines, Sorted, InOrder, Next
    PROVE  InOrder'
  <1>q. Queued \subseteq Payloads /\ Queued' \subseteq Payloads
    <2>1. order \in Seq(Payloads) /\ order' \in Seq(Payloads)
      BY DEF TypeOK
    <2> QED BY <2>1, ElementOfSeq DEF Queued
  <1>i. ASSUME NEW q, NEW r, Earlier(order, q, r), fate[r] \cap {"delivered", "dropped"} # {}
        PROVE  fate[q] # {}
    BY <1>i DEF InOrder, Earlier
  <1> SUFFICES ASSUME NEW q, NEW r, Earlier(order', q, r),
                      fate'[r] \cap {"delivered", "dropped"} # {}
               PROVE  fate'[q] # {}
    BY DEF InOrder, Earlier
  <1>p. q \in Payloads /\ r \in Payloads
    BY <1>q DEF Earlier, Queued
  <1>g. fate[q] # {} => fate'[q] # {}
    BY <1>p, FateGrows
  <1>k. ASSUME order' = order, fate[r] \cap {"delivered", "dropped"} # {}
        PROVE  fate'[q] # {}
    BY <1>g, <1>i, <1>k
  <1>1. CASE Quiet
    BY <1>1, <1>k DEF Quiet
  <1>2. ASSUME NEW p \in Payloads, NEW c \in Chunk, Appends(p, c)
        PROVE  fate'[q] # {}
    <2>1. fate' = fate /\ fate[p] = {}
      BY <1>2 DEF Appends, Untouched, Fresh
    <2>2. Earlier(order, q, r)
      BY <1>2, <2>1, EarlierAfterAppend DEF Appends
    <2> QED BY <1>i, <2>1, <2>2
  <1>3. ASSUME NEW k \in 0 .. Len(live), Evicts(k)
        PROVE  fate'[q] # {}
    <2>1. fate[r] \cap {"delivered", "dropped"} # {}
      BY <1>3, <1>p DEF Evicts, Settle
    <2> QED BY <1>3, <1>k, <2>1 DEF Evicts
  <1>4. CASE Takes
    BY <1>4, <1>k DEF Takes
  <1>5. ASSUME NEW d \in Drainers, NEW j \in 1 .. Len(claimed), NEW why \in {"delivered", "dropped"},
               Passes(d, j, why)
        PROVE  fate'[q] # {}
    <2>1. order' = order /\ Earlier(order, q, r)
      BY <1>5 DEF Passes
    <2>2. CASE r \in Held(claimed, offset[d] + 1, j) /\ fate[q] = {}
      <3>0. offset[d] \in 0 .. Len(claimed) /\ Len(claimed) \in Nat
        BY LenProperties DEF TypeOK, Custody, OffsetInFile
      <3>1. PICK m \in offset[d] + 1 .. j : claimed[m].id = r
        BY <2>2 DEF Held
      <3>2. m \in 1 .. Len(claimed)
        BY <3>0
      <3>3. q \in Ids(claimed, m - 1)
        BY <1>p, <2>1, <2>2, <3>1, <3>2 DEF Sorted, ClaimedSorted
      <3>4. PICK i \in 1 .. m - 1 : claimed[i].id = q
        BY <3>3 DEF Ids
      <3>5. i \in 1 .. Len(claimed) /\ Whole(claimed[i])
        BY <2>1, <3>0, <3>2, <3>4, EarlierQueued, QueuedIsWhole
      <3>6. i > offset[d]
        <4>1. \A s \in Held(claimed, 1, offset[d]) : fate[s] # {}
          BY DEF Custody, PassedIsSettled
        <4>2. q \notin Held(claimed, 1, offset[d])
          <5> DEFINE H == Held(claimed, 1, offset[d])
          <5>1. \A s \in H : fate[s] # {}
            BY <4>1
          <5> HIDE DEF H
          <5>2. fate[q] = {}
            BY <2>2
          <5>3. q \notin H
            BY <5>1, <5>2
          <5> QED BY <5>3 DEF H
        <4>3. i \notin 1 .. offset[d]
          BY <3>4, <3>5, <4>2 DEF Held
        <4> QED BY <3>0, <3>5, <4>3
      <3>7. q \in Held(claimed, offset[d] + 1, j)
        BY <3>0, <3>4, <3>5, <3>6 DEF Held
      <3> QED BY <1>5, <1>p, <3>7, SettleType DEF Passes
    <2>3. CASE r \notin Held(claimed, offset[d] + 1, j)
      BY <1>5, <1>k, <1>p, <2>1, <2>3 DEF Passes, Settle
    <2> QED BY <1>g, <2>2, <2>3
  <1>6. ASSUME NEW d \in Drainers, Restores(d)
        PROVE  fate'[q] # {}
    BY <1>6, <1>k DEF Restores
  <1>7. ASSUME NEW d \in Drainers, Removes(d)
        PROVE  fate'[q] # {}
    BY <1>7, <1>k DEF Removes
  <1>8. ASSUME NEW d \in Drainers, Overwrites(d)
        PROVE  fate'[q] # {}
    <2>1. fate[r] \cap {"delivered", "dropped"} # {}
      BY <1>8, <1>p DEF Overwrites, Settle
    <2> QED BY <1>8, <1>k, <2>1 DEF Overwrites
  <1> QED BY <1>1, <1>2, <1>3, <1>4, <1>5, <1>6, <1>7, <1>8, Effects

-----------------------------------------------------------------------------
(* What the counters account for *)

\* Faults are never given back.
FaultsBounded == faults.disk <= DiskFaults /\ faults.crash <= Crashes

\* The queued sessions that were dropped or evicted, and how many there can be.
Spent == {p \in Queued : fate[p] \cap {"dropped", "evicted"} # {}}

SpentIsCounted == faults.crash = Crashes =>
    Cardinality(Spent) <= droppedPermanent + droppedOversized + droppedEvicted

\* Faults are used up, and the counters of a process that lives on only grow.
LEMMA CountersStep ==
    ASSUME TypeOK, Next
    PROVE  /\ faults'.disk <= faults.disk /\ faults'.crash <= faults.crash
           /\ faults'.crash = faults.crash =>
                 /\ droppedPermanent' >= droppedPermanent
                 /\ droppedOversized' >= droppedOversized
                 /\ droppedEvicted' >= droppedEvicted
  <1> USE DEF files, counters, history
  <1>t. /\ droppedPermanent \in Nat /\ droppedOversized \in Nat /\ droppedEvicted \in Nat
        /\ faults \in [{"net", "disk", "crash"} -> Nat]
    BY DEF TypeOK
  <1>f. ASSUME NEW kind \in {"net", "disk", "crash"}, Fault(kind)
        PROVE  /\ faults'.disk <= faults.disk /\ faults'.crash <= faults.crash
               /\ kind = "crash" => faults'.crash # faults.crash
    BY <1>f, <1>t DEF Fault
  <1>1. ASSUME NEW p \in Payloads, Push(p)
        PROVE  /\ faults'.disk <= faults.disk /\ faults'.crash <= faults.crash
               /\ droppedPermanent' >= droppedPermanent
               /\ droppedOversized' >= droppedOversized
               /\ droppedEvicted' >= droppedEvicted
    <2>1. CASE EvictRename(p)
      <3>1. Cardinality({j \in Ends(live) : j <= Len(live) - Len(tmp)}) \in Nat
        BY EvictedCount DEF TypeOK
      <3> QED BY <1>t, <2>1, <3>1 DEF EvictRename
    <2>2. CASE ~EvictRename(p)
      BY <1>1, <1>f, <1>t, <2>2 DEF Push, PushDelivered, PushRejected, PushFailed,
         EnqueueOversized, EnqueueAppend, EnqueueFails, EvictWriteTmp, EvictFails
    <2> QED BY <2>1, <2>2
  <1>2. ASSUME NEW d \in Drainers, Drain(d)
        PROVE  /\ faults'.disk <= faults.disk /\ faults'.crash <= faults.crash
               /\ droppedPermanent' >= droppedPermanent
               /\ droppedOversized' >= droppedOversized
               /\ droppedEvicted' >= droppedEvicted
    BY <1>2, <1>f, <1>t DEF Drain, DrainStart, Claim, ClaimStatFails, Proceed, Decided, DrainFails, SendSkipsOversized,
       SendDelivered, SendRejected, SendFailed, DrainDone, RestoreWriteTmp, RestoreRename,
       RestoreRemove, RestoreFails, AdvanceTo
  <1>3. CASE Crash
    BY <1>3, <1>f DEF Crash
  <1> QED BY <1>1, <1>2, <1>3 DEF Next

\* The image of a finite set is finite and no larger.
LEMMA ImageIsSmaller ==
    ASSUME NEW S, IsFiniteSet(S), NEW f
    PROVE  /\ IsFiniteSet({f[x] : x \in S})
           /\ Cardinality({f[x] : x \in S}) <= Cardinality(S)
  <1> DEFINE T == {f[x] : x \in S}
             g == [x \in S |-> f[x]]
  <1>1. g \in Surjection(S, T)
    BY DEF Surjection
  <1> HIDE DEF T, g
  <1>2. IsFiniteSet(T) /\ Cardinality(T) <= Cardinality(S)
    BY <1>1, FS_Surjection
  <1> QED BY <1>2 DEF T

\* Finitely many sessions have been queued.
LEMMA SpentIsFinite == TypeOK => IsFiniteSet(Queued) /\ IsFiniteSet(Spent)
  <1> SUFFICES ASSUME TypeOK PROVE IsFiniteSet(Queued) /\ IsFiniteSet(Spent)
    OBVIOUS
  <1>1. IsFiniteSet(1 .. Len(order))
    BY FS_Interval, LenProperties DEF TypeOK
  <1>2. IsFiniteSet(Queued)
    BY <1>1, ImageIsSmaller DEF Queued
  <1> QED BY <1>2, FS_Subset DEF Spent

\* The set may grow by T, the counters by as much.
LEMMA CardinalityGrows ==
    ASSUME NEW S, NEW T, NEW R, IsFiniteSet(S), IsFiniteSet(T), R \subseteq S \cup T
    PROVE  /\ Cardinality(R) <= Cardinality(S) + Cardinality(T)
           /\ Cardinality(R) \in Nat /\ Cardinality(S) \in Nat /\ Cardinality(T) \in Nat
  <1>1. /\ IsFiniteSet(S \cup T)
        /\ Cardinality(S \cup T) = Cardinality(S) + Cardinality(T) - Cardinality(S \cap T)
    BY FS_Union
  <1>2. IsFiniteSet(S \cap T) /\ IsFiniteSet(R) /\ Cardinality(R) <= Cardinality(S \cup T)
    BY <1>1, FS_Subset
  <1>3. /\ Cardinality(R) \in Nat /\ Cardinality(S) \in Nat /\ Cardinality(T) \in Nat
        /\ Cardinality(S \cap T) \in Nat /\ Cardinality(S \cup T) \in Nat
    BY <1>1, <1>2, FS_CardinalityType
  <1> QED BY <1>1, <1>2, <1>3

\* One more count pays for one more session.
LEMMA CountPays ==
    ASSUME NEW a \in Nat, NEW b \in Nat, NEW c \in Nat, NEW x \in Nat, NEW y \in Nat, NEW z \in Nat,
           x >= a, y >= b, z >= c, x = a + 1 \/ y = b + 1,
           NEW m \in Nat, NEW n \in Nat, n <= a + b + c, m <= n + 1
    PROVE  m <= x + y + z
  OBVIOUS

\* A record holds at most one queued session, so that one count pays for it.
LEMMA SpentStep ==
    ASSUME TypeOK, TypeOK', Custody, Untouched, QueuedEndLines, FaultsBounded, SpentIsCounted, Next
    PROVE  SpentIsCounted'
  <1> SUFFICES ASSUME faults'.crash = Crashes
               PROVE  Cardinality(Spent') <= droppedPermanent' + droppedOversized' + droppedEvicted'
    BY DEF SpentIsCounted
  <1>t. /\ droppedPermanent \in Nat /\ droppedOversized \in Nat /\ droppedEvicted \in Nat
        /\ droppedPermanent' \in Nat /\ droppedOversized' \in Nat /\ droppedEvicted' \in Nat
        /\ faults.crash \in Nat /\ Crashes \in Nat
        /\ live \in Seq(Chunk) /\ claimed \in Seq(Chunk)
    BY FaultsAssumption DEF TypeOK
  <1>v. /\ droppedPermanent \in Nat /\ droppedOversized \in Nat /\ droppedEvicted \in Nat
        /\ droppedPermanent' \in Nat /\ droppedOversized' \in Nat /\ droppedEvicted' \in Nat
    BY <1>t
  <1>q. Queued \subseteq Payloads
    BY QueuedIsPayload
  <1>f. faults.crash = Crashes /\ faults'.crash = faults.crash
    BY <1>t, CountersStep DEF FaultsBounded
  <1>c. /\ droppedPermanent' >= droppedPermanent /\ droppedOversized' >= droppedOversized
        /\ droppedEvicted' >= droppedEvicted
    BY <1>f, CountersStep
  <1>s. /\ IsFiniteSet(Spent)
        /\ Cardinality(Spent) <= droppedPermanent + droppedOversized + droppedEvicted
    BY <1>f, SpentIsFinite DEF SpentIsCounted
  <1>k. ASSUME Spent' \subseteq Spent
        PROVE  Cardinality(Spent') <= droppedPermanent' + droppedOversized' + droppedEvicted'
    <2>1. Cardinality(Spent') <= Cardinality(Spent) /\ Cardinality(Spent) \in Nat
          /\ Cardinality(Spent') \in Nat
      BY <1>k, <1>s, FS_Subset, FS_CardinalityType
    <2> QED BY <1>c, <1>s, <1>v, <2>1
  <1>m. ASSUME Cardinality(Spent') <= Cardinality(Spent) + 1,
               Cardinality(Spent') \in Nat, Cardinality(Spent) \in Nat,
               \/ droppedPermanent' = droppedPermanent + 1
               \/ droppedOversized' = droppedOversized + 1
        PROVE  Cardinality(Spent') <= droppedPermanent' + droppedOversized' + droppedEvicted'
    BY <1>c, <1>m, <1>s, <1>v, CountPays
  <1>e. ASSUME order' = order, fate' = fate
        PROVE  Cardinality(Spent') <= droppedPermanent' + droppedOversized' + droppedEvicted'
    BY <1>e, <1>k DEF Spent, Queued
  <1>1. CASE Quiet
    BY <1>1, <1>e DEF Quiet
  <1>2. ASSUME NEW p \in Payloads, NEW c \in Chunk, Appends(p, c)
        PROVE  Cardinality(Spent') <= droppedPermanent' + droppedOversized' + droppedEvicted'
    <2>1. fate' = fate /\ fate[p] = {}
      BY <1>2 DEF Appends, Untouched, Fresh
    <2>2. Queued' \subseteq Queued \cup {p}
      BY <1>2, QueuedAfterAppend DEF Appends, Queued
    <2>3. Spent' \subseteq Spent
      BY <2>1, <2>2 DEF Spent
    <2> QED BY <1>k, <2>3
  <1>3. ASSUME NEW k \in 0 .. Len(live), Evicts(k)
        PROVE  Cardinality(Spent') <= droppedPermanent' + droppedOversized' + droppedEvicted'
    <2> DEFINE E == {j \in Ends(live) : j <= k}
               id == [j \in 1 .. Len(live) |-> live[j].id]
               T == {id[j] : j \in E}
    <2>0. Len(live) \in Nat
      BY <1>t, LenProperties
    <2>1. IsFiniteSet(E)
      <3>1. IsFiniteSet(1 .. Len(live))
        BY <2>0, FS_Interval
      <3> QED BY <3>1, FS_Subset DEF Ends
    <2>2. IsFiniteSet(T) /\ Cardinality(T) <= Cardinality(E) /\ Cardinality(E) \in Nat
      <3> HIDE DEF E, id
      <3> QED BY <2>1, ImageIsSmaller, FS_CardinalityType
    <2>3. ASSUME NEW r \in Queued, r \in Held(live, 1, k) PROVE r \in T
      <3>1. PICK m \in 1 .. k : live[m].id = r
        BY <2>3 DEF Held
      <3>2. m \in 1 .. Len(live) /\ live[m] \in Stored
        BY <2>0 DEF Stored, Chunks
      <3>3. m \in E
        BY <2>0, <3>1, <3>2 DEF QueuedEndLines, Ends
      <3> QED BY <3>1, <3>2, <3>3
    <2>4. Queued' = Queued
      BY <1>3 DEF Evicts, Queued
    <2>5. Spent' \subseteq Spent \cup T
      <3> SUFFICES ASSUME NEW r \in Queued, fate'[r] \cap {"dropped", "evicted"} # {}, r \notin T
                   PROVE  fate[r] \cap {"dropped", "evicted"} # {}
        BY <2>4 DEF Spent
      <3> HIDE DEF T
      <3>1. r \notin Held(live, 1, k) /\ r \in Payloads
        BY <1>q, <2>3
      <3>2. fate'[r] = fate[r]
        BY <1>3, <3>1 DEF Evicts, Settle
      <3> QED BY <3>2
    <2>6. /\ droppedEvicted' = droppedEvicted + Cardinality(E)
          /\ droppedPermanent' = droppedPermanent /\ droppedOversized' = droppedOversized
      BY <1>3 DEF Evicts
    <2> HIDE DEF T, E
    <2>7. /\ Cardinality(Spent') <= Cardinality(Spent) + Cardinality(T)
          /\ Cardinality(Spent') \in Nat /\ Cardinality(Spent) \in Nat /\ Cardinality(T) \in Nat
      BY <1>s, <2>2, <2>5, CardinalityGrows
    <2> QED BY <1>s, <1>t, <2>2, <2>6, <2>7
  <1>4. CASE Takes
    BY <1>4, <1>e DEF Takes
  <1>5. ASSUME NEW d \in Drainers, NEW j \in 1 .. Len(claimed), NEW why \in {"delivered", "dropped"},
               Passes(d, j, why)
        PROVE  Cardinality(Spent') <= droppedPermanent' + droppedOversized' + droppedEvicted'
    <2>1. Queued' = Queued /\ Settle(Held(claimed, offset[d] + 1, j), why) /\ Reads(d, j)
      BY <1>5 DEF Passes, Queued
    <2>2. CASE why = "delivered"
      <3>1. \A r \in Payloads : fate'[r] \cap {"dropped", "evicted"} = fate[r] \cap {"dropped", "evicted"}
        BY <2>1, <2>2 DEF Settle
      <3>2. Spent' \subseteq Spent
        BY <1>q, <2>1, <3>1 DEF Spent
      <3> QED BY <1>k, <3>2
    <2>3. CASE why = "dropped"
      <3>0. offset[d] \in 0 .. Len(claimed) /\ Len(claimed) \in Nat
        BY LenProperties DEF TypeOK, Custody, OffsetInFile
      <3>1. ASSUME NEW r \in Queued, r \in Held(claimed, offset[d] + 1, j) PROVE r = claimed[j].id
        <4>1. PICK m \in offset[d] + 1 .. j : claimed[m].id = r
          BY <3>1 DEF Held
        <4>2. m \in 1 .. Len(claimed) /\ claimed[m] \in Stored
          BY <3>0 DEF Stored, Chunks
        <4>3. m \in Ends(claimed) /\ m > offset[d]
          BY <3>0, <4>1, <4>2 DEF QueuedEndLines, Ends
        <4>4. j <= m
          BY <2>1, <4>3 DEF Reads, IsRecord
        <4> QED BY <3>0, <4>1, <4>4
      <3>2. Spent' \subseteq Spent \cup {claimed[j].id}
        <4> SUFFICES ASSUME NEW r \in Queued, fate'[r] \cap {"dropped", "evicted"} # {},
                            r # claimed[j].id
                     PROVE  fate[r] \cap {"dropped", "evicted"} # {}
          BY <2>1 DEF Spent
        <4>1. fate'[r] = fate[r]
          BY <1>q, <2>1, <3>1 DEF Settle
        <4> QED BY <4>1
      <3>3. IsFiniteSet({claimed[j].id}) /\ Cardinality({claimed[j].id}) = 1
        BY FS_Singleton
      <3>4. /\ Cardinality(Spent') <= Cardinality(Spent) + Cardinality({claimed[j].id})
            /\ Cardinality(Spent') \in Nat /\ Cardinality(Spent) \in Nat
        BY <1>s, <3>2, <3>3, CardinalityGrows
      <3>5. \/ droppedPermanent' = droppedPermanent + 1
            \/ droppedOversized' = droppedOversized + 1
        BY <1>5, <2>3 DEF Passes
      <3>6. Cardinality(Spent') <= Cardinality(Spent) + 1
        BY <3>3, <3>4
      <3> QED BY <1>m, <3>4, <3>5, <3>6
    <2> QED BY <2>2, <2>3
  <1>6. ASSUME NEW d \in Drainers, Restores(d)
        PROVE  Cardinality(Spent') <= droppedPermanent' + droppedOversized' + droppedEvicted'
    BY <1>6, <1>e DEF Restores
  <1>7. ASSUME NEW d \in Drainers, Removes(d)
        PROVE  Cardinality(Spent') <= droppedPermanent' + droppedOversized' + droppedEvicted'
    BY <1>7, <1>e DEF Removes
  <1>8. ASSUME NEW d \in Drainers, Overwrites(d)
        PROVE  Cardinality(Spent') <= droppedPermanent' + droppedOversized' + droppedEvicted'
    <2>1. Queued' = Queued /\ Settle(Contents(claimed) \ Contents(live), "overwritten")
      BY <1>8 DEF Overwrites, Queued
    <2>2. \A r \in Payloads : fate'[r] \cap {"dropped", "evicted"} = fate[r] \cap {"dropped", "evicted"}
      BY <2>1 DEF Settle
    <2>3. Spent' \subseteq Spent
      BY <1>q, <2>1, <2>2 DEF Spent
    <2> QED BY <1>k, <2>3
  <1> QED BY <1>1, <1>2, <1>3, <1>4, <1>5, <1>6, <1>7, <1>8, Effects

\* A queued session that is neither on disk nor delivered is spent.
LEMMA LossIsSpent == TypeOK /\ Accounted /\ SpentIsCounted => LossIsCounted
  <1> SUFFICES ASSUME TypeOK, Accounted, SpentIsCounted, faults.crash = Crashes
               PROVE  Cardinality({p \in Queued : p \notin OnDisk /\ fate[p] \cap {"delivered", "overwritten"} = {}})
                          <= droppedPermanent + droppedOversized + droppedEvicted
    BY DEF LossIsCounted
  <1> DEFINE Lost == {p \in Queued : p \notin OnDisk /\ fate[p] \cap {"delivered", "overwritten"} = {}}
  <1>1. \A p \in Queued : fate[p] \subseteq {"delivered", "dropped", "evicted", "overwritten"}
    BY QueuedIsPayload DEF TypeOK
  <1>2. Lost \subseteq Spent
    BY <1>1 DEF Accounted, Spent
  <1>3. Cardinality(Spent) <= droppedPermanent + droppedOversized + droppedEvicted
    BY DEF SpentIsCounted
  <1>4. droppedPermanent + droppedOversized + droppedEvicted \in Nat
    BY DEF TypeOK
  <1> HIDE DEF Lost
  <1>5. /\ Cardinality(Lost) <= Cardinality(Spent)
        /\ Cardinality(Lost) \in Nat /\ Cardinality(Spent) \in Nat
    BY <1>2, SpentIsFinite, FS_Subset, FS_CardinalityType
  <1> QED BY <1>3, <1>4, <1>5 DEF Lost

-----------------------------------------------------------------------------
(* Each session once, while nothing but the network fails *)

\* Where a drain has lines of the claimed file left to send or to put back.
Unsent == {"send", "restore", "restoreRename"}

\* Every claimed file has its drain.
ClaimedIsOwned == Faultless /\ claimed # <<>> =>
    draining \in Drainers /\ pc[draining] \in Unsent \cup {"restoreRemove"}

\* No session has two chunks in f.
Distinct(f) == \A i, j \in 1 .. Len(f) : f[i].id = f[j].id => i = j

\* No session has two lines that will be sent, and none that fleet has
\* acknowledged has one.
OneLineEach == Faultless =>
    /\ Distinct(live) /\ Distinct(claimed)
    /\ \A p \in Payloads : acks[p] # 0 => acks[p] = 1 /\ p \notin Ids(live, Len(live))
    /\ \A d \in Drainers : pc[d] \in Unsent => \A m \in offset[d] + 1 .. Len(claimed) :
          acks[claimed[m].id] = 0 /\ claimed[m].id \notin Ids(live, Len(live))

\* A step after which there was no fault is not one.
LEMMA FaultlessStep ==
    ASSUME TypeOK, FaultsBounded, Next, Faultless'
    PROVE  Faultless /\ faults'.disk = faults.disk /\ faults'.crash = faults.crash
  <1>1. /\ faults.disk \in Nat /\ faults.crash \in Nat /\ DiskFaults \in Nat /\ Crashes \in Nat
        /\ faults'.disk <= faults.disk /\ faults'.crash <= faults.crash
    BY CountersStep, FaultsAssumption DEF TypeOK
  <1> QED BY <1>1 DEF Faultless, FaultsBounded

\* Without a fault no file operation fails and nothing crashes.
LEMMA FaultlessActions ==
    ASSUME TypeOK, FaultsBounded, Next, Faultless'
    PROVE  /\ ~Crash
           /\ \A p \in Payloads : ~EnqueueFails(p) /\ ~EvictFails(p)
           /\ \A d \in Drainers : ~DrainFails(d) /\ ~RestoreFails(d) /\ ~ClaimStatFails(d)
  <1>1. ~Fault("disk") /\ ~Fault("crash")
    BY FaultlessStep DEF Fault, TypeOK
  <1> QED BY <1>1 DEF Crash, EnqueueFails, EvictFails, DrainFails, RestoreFails, ClaimStatFails

\* A claimed file is removed before its drain returns.
LEMMA OwnedStep ==
    ASSUME TypeOK, Custody, FaultsBounded, ClaimedIsOwned, Next
    PROVE  ClaimedIsOwned'
  <1> USE ActorsAssumption DEF files, counters, history
  <1> SUFFICES ASSUME Faultless', claimed' # <<>>
               PROVE  draining' \in Drainers /\ pc'[draining'] \in Unsent \cup {"restoreRemove"}
    BY DEF ClaimedIsOwned
  <1>0. Faultless
    BY FaultlessStep
  <1>1. ASSUME NEW p \in Payloads, Push(p)
        PROVE  claimed' = claimed /\ draining' = draining /\ pc' = pc
    BY <1>1 DEF Push, PushDelivered, PushRejected, PushFailed, EnqueueOversized,
       EnqueueAppend, EnqueueFails, EvictWriteTmp, EvictRename, EvictFails
  <1>2. ASSUME NEW d \in Drainers, Drain(d)
        PROVE  draining' \in Drainers /\ pc'[draining'] \in Unsent \cup {"restoreRemove"}
    <2>0. ~DrainFails(d) /\ ~RestoreFails(d) /\ ~ClaimStatFails(d)
      BY FaultlessActions
    <2>1. CASE DrainStart(d)
      BY <1>0, <2>1 DEF DrainStart, ClaimedIsOwned
    <2>2. CASE Claim(d) \/ ClaimStatFails(d)
      <3>1. draining = d
        BY <2>2 DEF Claim, ClaimStatFails, Proceed, Decided, Custody, OneDrain
      <3>2. draining' = draining /\ pc' = [pc EXCEPT ![d] = "send"]
        BY <2>2 DEF Claim, ClaimStatFails, Proceed, Decided
      <3> QED BY <3>1, <3>2 DEF TypeOK, Unsent
    <2>3. CASE SendSkipsOversized(d) \/ SendDelivered(d) \/ SendRejected(d)
      BY <1>0, <2>3 DEF SendSkipsOversized, SendDelivered, SendRejected, AdvanceTo, ClaimedIsOwned
    <2>4. CASE SendFailed(d) \/ RestoreWriteTmp(d) \/ RestoreRename(d)
      <3>1. pc[d] # "idle" /\ pc'[d] \in Unsent \cup {"restoreRemove"} /\ draining' = draining
        BY <2>4 DEF SendFailed, Reads, RestoreWriteTmp, RestoreRename, TypeOK, Unsent
      <3> QED BY <3>1 DEF Custody, OneDrain
    <2>5. CASE DrainDone(d) \/ RestoreRemove(d)
      BY <2>5 DEF DrainDone, RestoreRemove
    <2> QED BY <1>2, <2>0, <2>1, <2>2, <2>3, <2>4, <2>5 DEF Drain
  <1> QED BY <1>0, <1>1, <1>2, FaultlessActions DEF Next, ClaimedIsOwned

\* A drain has lines to send because it had them before, or because it claims.
LEMMA UnsentStep ==
    ASSUME TypeOK, Custody, FaultsBounded, Next, Faultless', NEW e \in Drainers, pc'[e] \in Unsent
    PROVE  \/ pc[e] \in Unsent /\ offset'[e] >= offset[e]
           \/ pc[e] = "claim"
  <1> USE DEF files, counters, history
  <1>t. \A d \in Drainers : offset[d] \in Nat
    BY DEF TypeOK
  <1>1. ASSUME NEW p \in Payloads, Push(p)
        PROVE  offset' = offset /\ pc' = pc
    BY <1>1 DEF Push, PushDelivered, PushRejected, PushFailed, EnqueueOversized,
       EnqueueAppend, EnqueueFails, EvictWriteTmp, EvictRename, EvictFails
  <1>2. ASSUME NEW d \in Drainers, Drain(d)
        PROVE  \/ pc[e] \in Unsent /\ offset'[e] >= offset[e]
               \/ pc[e] = "claim"
    <2>1. CASE SendSkipsOversized(d) \/ SendDelivered(d) \/ SendRejected(d)
      <3>1. PICK j \in 1 .. Len(claimed) : /\ Reads(d, j)
                                           /\ offset' = [offset EXCEPT ![d] = j] /\ pc' = pc
        BY <2>1 DEF SendSkipsOversized, SendDelivered, SendRejected, AdvanceTo
      <3>2. j > offset[d]
        BY <3>1 DEF Reads, IsRecord
      <3>3. offset'[e] = IF e = d THEN j ELSE offset[e]
        BY <3>1 DEF TypeOK
      <3> QED BY <1>t, <3>1, <3>2, <3>3
    <2>2. CASE SendFailed(d) \/ RestoreWriteTmp(d) \/ RestoreRename(d)
      <3>1. offset' = offset /\ pc[d] \in Unsent /\ \A c \in Drainers \ {d} : pc'[c] = pc[c]
        BY <2>2 DEF SendFailed, Reads, RestoreWriteTmp, RestoreRename, TypeOK, Unsent
      <3> QED BY <1>t, <3>1
    <2>3. CASE DrainStart(d) \/ DrainDone(d) \/ RestoreRemove(d) \/ DrainFails(d) \/ RestoreFails(d)
      <3>1. pc'[d] \notin Unsent /\ \A c \in Drainers \ {d} : pc'[c] = pc[c] /\ offset'[c] = offset[c]
        BY <2>3 DEF DrainStart, DrainDone, RestoreRemove, DrainFails, RestoreFails, Return, TypeOK, Unsent
      <3> QED BY <1>t, <3>1
    <2>4. CASE Claim(d) \/ ClaimStatFails(d)
      <3>1. pc[d] = "claim" /\ \A c \in Drainers \ {d} : pc'[c] = pc[c] /\ offset'[c] = offset[c]
        BY <2>4 DEF Claim, ClaimStatFails, Proceed, Decided, Return, TypeOK
      <3> QED BY <1>t, <3>1
    <2> QED BY <1>2, <2>1, <2>2, <2>3, <2>4 DEF Drain
  <1> QED BY <1>1, <1>2, <1>t, FaultlessActions DEF Next

\* A restore puts back only lines that were not sent, and Enqueue writes one.
LEMMA OneLineStep ==
    ASSUME TypeOK, TypeOK', Custody, Untouched, FaultsBounded, ClaimedIsOwned, OneLineEach, Next
    PROVE  OneLineEach'
  <1> SUFFICES ASSUME Faultless' PROVE OneLineEach'
    BY DEF OneLineEach
  <1>0. Faultless /\ faults'.disk = faults.disk
    BY FaultlessStep
  <1>t. /\ live \in Seq(Chunk) /\ claimed \in Seq(Chunk)
        /\ acks \in [Payloads -> Nat] /\ offset \in [Drainers -> Nat]
    BY DEF TypeOK
  <1>n. Len(live) \in Nat /\ Len(claimed) \in Nat
    BY <1>t, LenProperties
  <1>i. /\ \A m \in 1 .. Len(live) : live[m].id \in Payloads
        /\ \A m \in 1 .. Len(claimed) : claimed[m].id \in Payloads
    BY <1>t, ElementOfSeq DEF Chunk
  <1>h. /\ Distinct(live) /\ Distinct(claimed)
        /\ \A p \in Payloads : acks[p] # 0 => acks[p] = 1 /\ p \notin Ids(live, Len(live))
        /\ \A d \in Drainers : pc[d] \in Unsent => \A m \in offset[d] + 1 .. Len(claimed) :
              acks[claimed[m].id] = 0 /\ claimed[m].id \notin Ids(live, Len(live))
    BY <1>0 DEF OneLineEach
  <1>o. \A d \in Drainers : pc[d] # "idle" => draining = d
    BY DEF Custody, OneDrain
  <1>c. ASSUME NEW e \in Drainers, pc[e] = "claim" PROVE claimed = <<>>
    BY <1>0, <1>c, <1>o DEF ClaimedIsOwned, Unsent
  <1>u. ASSUME claimed' = claimed, NEW e \in Drainers, pc'[e] \in Unsent, NEW m \in offset'[e] + 1 .. Len(claimed')
        PROVE  /\ pc[e] \in Unsent /\ m \in offset[e] + 1 .. Len(claimed)
               /\ m \in 1 .. Len(claimed)
    <2>1. offset'[e] \in Nat /\ offset[e] \in Nat
      BY DEF TypeOK
    <2>2. Len(claimed) # 0
      BY <1>n, <1>u, <2>1
    <2>3. pc[e] # "claim"
      BY <1>c, <2>2
    <2> QED BY <1>n, <1>u, <2>1, <2>3, UnsentStep
  <1>1. CASE Quiet
    <2>1. live' = live /\ claimed' = claimed
      BY <1>1 DEF Quiet
    <2>2. CASE acks' = acks
      BY <1>h, <1>u, <2>1, <2>2 DEF OneLineEach, Distinct, Ids
    <2>3. CASE \E p \in Payloads : stage[p] = "new" /\ acks' = [acks EXCEPT ![p] = @ + 1]
      <3>1. PICK p \in Payloads : stage[p] = "new" /\ acks' = [acks EXCEPT ![p] = @ + 1]
        BY <2>3
      <3>2. acks[p] = 0 /\ \A c \in Stored : c.id # p
        BY <3>1 DEF Untouched, Fresh
      <3>3. p \notin Ids(live, Len(live)) /\ \A m \in 1 .. Len(claimed) : claimed[m].id # p
        BY <3>2 DEF Stored, Chunks, Ids
      <3>4. \A q \in Payloads : acks'[q] = IF q = p THEN 1 ELSE acks[q]
        BY <1>t, <3>1, <3>2
      <3>5. \A q \in Payloads : acks'[q] # 0 => acks'[q] = 1 /\ q \notin Ids(live', Len(live'))
        BY <1>h, <2>1, <3>3, <3>4
      <3>6. ASSUME NEW e \in Drainers, pc'[e] \in Unsent, NEW m \in offset'[e] + 1 .. Len(claimed')
            PROVE  acks'[claimed'[m].id] = 0 /\ claimed'[m].id \notin Ids(live', Len(live'))
        BY <1>h, <1>i, <1>u, <2>1, <3>3, <3>4, <3>6
      <3> QED BY <1>h, <2>1, <3>5, <3>6 DEF OneLineEach, Distinct
    <2> QED BY <1>1, <2>2, <2>3 DEF Quiet
  <1>2. ASSUME NEW p \in Payloads, NEW c \in Chunk, Appends(p, c)
        PROVE  OneLineEach'
    <2>1. /\ claimed' = claimed /\ acks' = acks /\ pc' = pc /\ offset' = offset
          /\ live' = Append(live, c) /\ c.id = p
      BY <1>2 DEF Appends
    <2>2. /\ Len(live') = Len(live) + 1 /\ live'[Len(live) + 1].id = p
          /\ \A m \in 1 .. Len(live) : live'[m] = live[m]
      BY <1>t, <2>1, AppendProperties
    <2>3. acks[p] = 0 /\ \A x \in Stored : x.id # p
      BY <1>2 DEF Appends, Untouched, Fresh
    <2>4. /\ \A m \in 1 .. Len(live) : live[m].id # p
          /\ \A m \in 1 .. Len(claimed) : claimed[m].id # p
      BY <2>3 DEF Stored, Chunks
    <2>5. \A m \in 1 .. Len(live') : m \in 1 .. Len(live) \/ m = Len(live) + 1
      BY <1>n, <2>2
    <2>6. Distinct(live')
      BY <1>h, <2>2, <2>4, <2>5 DEF Distinct
    <2>7. Ids(live', Len(live')) \subseteq Ids(live, Len(live)) \cup {p}
      BY <2>2, <2>5 DEF Ids
    <2>8. \A q \in Payloads : acks'[q] # 0 => acks'[q] = 1 /\ q \notin Ids(live', Len(live'))
      BY <1>h, <2>1, <2>3, <2>7
    <2>9. ASSUME NEW e \in Drainers, pc'[e] \in Unsent, NEW m \in offset'[e] + 1 .. Len(claimed')
          PROVE  acks'[claimed'[m].id] = 0 /\ claimed'[m].id \notin Ids(live', Len(live'))
      BY <1>h, <1>u, <2>1, <2>4, <2>7, <2>9
    <2> QED BY <1>h, <2>1, <2>6, <2>8, <2>9 DEF OneLineEach, Distinct
  <1>3. ASSUME NEW k \in 0 .. Len(live), Evicts(k)
        PROVE  OneLineEach'
    <2>1. /\ claimed' = claimed /\ acks' = acks /\ pc' = pc /\ offset' = offset
          /\ live' = After(live, k)
      BY <1>3 DEF Evicts
    <2>2. /\ Len(live') = Len(live) - k
          /\ \A m \in 1 .. Len(live) - k : live'[m] = live[k + m]
      BY <1>t, <2>1, AfterType
    <2>3. \A m \in 1 .. Len(live') : k + m \in 1 .. Len(live) /\ live'[m] = live[k + m]
      BY <1>n, <2>2
    <2>4. Distinct(live')
      <3> SUFFICES ASSUME NEW x \in 1 .. Len(live'), NEW y \in 1 .. Len(live'), live'[x].id = live'[y].id
                   PROVE  x = y
        BY DEF Distinct
      <3>1. k + x \in 1 .. Len(live) /\ k + y \in 1 .. Len(live) /\ live[k + x].id = live[k + y].id
        BY <2>3
      <3>2. k + x = k + y
        BY <1>h, <3>1 DEF Distinct
      <3> QED BY <3>2
    <2>5. Ids(live', Len(live')) \subseteq Ids(live, Len(live))
      BY <2>3 DEF Ids
    <2>6. \A q \in Payloads : acks'[q] # 0 => acks'[q] = 1 /\ q \notin Ids(live', Len(live'))
      BY <1>h, <2>1, <2>5
    <2>7. ASSUME NEW e \in Drainers, pc'[e] \in Unsent, NEW m \in offset'[e] + 1 .. Len(claimed')
          PROVE  acks'[claimed'[m].id] = 0 /\ claimed'[m].id \notin Ids(live', Len(live'))
      BY <1>h, <1>u, <2>1, <2>5, <2>7
    <2> QED BY <1>h, <2>1, <2>4, <2>6, <2>7 DEF OneLineEach, Distinct
  <1>4. CASE Takes
    <2>1. claimed' = live /\ live' = <<>> /\ acks' = acks /\ Len(live') = 0
      BY <1>4 DEF Takes
    <2>2. Ids(live', Len(live')) = {} /\ Distinct(live') /\ Distinct(claimed')
      BY <1>h, <2>1 DEF Ids, Distinct
    <2>3. ASSUME NEW e \in Drainers, NEW m \in offset'[e] + 1 .. Len(claimed')
          PROVE  acks'[claimed'[m].id] = 0
      <3>1. m \in 1 .. Len(live)
        <4>1. offset'[e] \in Nat
          BY DEF TypeOK
        <4> QED BY <1>n, <2>1, <4>1
      <3>2. live[m].id \in Ids(live, Len(live))
        BY <3>1 DEF Ids
      <3> QED BY <1>h, <1>i, <2>1, <3>1, <3>2
    <2> QED BY <1>h, <2>1, <2>2, <2>3 DEF OneLineEach
  <1>5. ASSUME NEW d \in Drainers, NEW j \in 1 .. Len(claimed), NEW why \in {"delivered", "dropped"},
               Passes(d, j, why)
        PROVE  OneLineEach'
    <2>1. /\ live' = live /\ claimed' = claimed /\ pc' = pc /\ Reads(d, j)
          /\ offset' = [offset EXCEPT ![d] = j]
      BY <1>5 DEF Passes
    <2>2. pc[d] = "send" /\ j > offset[d] /\ offset'[d] = j
      BY <1>t, <2>1 DEF Reads, IsRecord
    <2>3. CASE acks' = acks
      BY <1>h, <1>u, <2>1, <2>3 DEF OneLineEach, Distinct, Ids
    <2>4. CASE acks' = [acks EXCEPT ![claimed[j].id] = @ + 1]
      <3>1. j \in offset[d] + 1 .. Len(claimed)
        BY <1>n, <1>t, <2>2
      <3>2. acks[claimed[j].id] = 0 /\ claimed[j].id \notin Ids(live, Len(live))
        BY <1>h, <2>2, <3>1 DEF Unsent
      <3>3. \A q \in Payloads : acks'[q] = IF q = claimed[j].id THEN 1 ELSE acks[q]
        BY <1>t, <2>4, <3>2
      <3>4. \A q \in Payloads : acks'[q] # 0 => acks'[q] = 1 /\ q \notin Ids(live', Len(live'))
        BY <1>h, <2>1, <3>2, <3>3
      <3>5. ASSUME NEW e \in Drainers, pc'[e] \in Unsent, NEW m \in offset'[e] + 1 .. Len(claimed')
            PROVE  acks'[claimed'[m].id] = 0 /\ claimed'[m].id \notin Ids(live', Len(live'))
        <4>1. /\ pc[e] \in Unsent /\ m \in offset[e] + 1 .. Len(claimed)
              /\ m \in 1 .. Len(claimed)
          BY <1>u, <2>1, <3>5
        <4>2. e = d
          BY <1>o, <2>2, <4>1 DEF Unsent
        <4>3. m # j
          BY <2>2, <4>2
        <4>4. claimed[m].id # claimed[j].id /\ claimed[m].id \in Payloads
          BY <1>h, <1>i, <4>1, <4>3 DEF Distinct
        <4> QED BY <1>h, <2>1, <3>3, <4>1, <4>4
      <3> QED BY <1>h, <2>1, <3>4, <3>5 DEF OneLineEach, Distinct
    <2> QED BY <1>5, <2>3, <2>4 DEF Passes
  <1>6. ASSUME NEW d \in Drainers, Restores(d)
        PROVE  OneLineEach'
    <2>1. /\ live' = After(claimed, offset[d]) \o live /\ claimed' = claimed /\ acks' = acks
          /\ pc[d] = "restoreRename" /\ pc'[d] = "restoreRemove"
      BY <1>6 DEF Restores, TypeOK
    <2>2. offset[d] \in 0 .. Len(claimed)
      BY <1>t DEF Custody, OffsetInFile
    <2> DEFINE o == offset[d]
               L == Len(claimed) - offset[d]
    <2>3. /\ After(claimed, o) \in Seq(Chunk) /\ Len(After(claimed, o)) = L
          /\ \A m \in 1 .. L : After(claimed, o)[m] = claimed[o + m]
      BY <1>t, <2>2, AfterType
    <2>4. L \in Nat
      BY <1>n, <2>2
    <2>5. \A m \in 1 .. L : o + m \in offset[d] + 1 .. Len(claimed) /\ o + m \in 1 .. Len(claimed)
      BY <1>n, <2>2
    <2>6. /\ Len(live') = L + Len(live)
          /\ \A m \in 1 .. Len(live') :
                \/ m \in 1 .. L /\ live'[m] = claimed[o + m]
                \/ m - L \in 1 .. Len(live) /\ live'[m] = live[m - L]
      <3>1. live' = After(claimed, o) \o live
        BY <2>1
      <3> HIDE DEF L, o
      <3>2. /\ Len(live') = L + Len(live)
            /\ \A m \in 1 .. L + Len(live) :
                  live'[m] = IF m <= L THEN After(claimed, o)[m] ELSE live[m - L]
        BY <1>t, <2>3, <3>1, ConcatProperties
      <3> QED BY <1>n, <2>3, <2>4, <3>2
    <2>7. \A m \in 1 .. L : /\ acks[claimed[o + m].id] = 0
                            /\ claimed[o + m].id \notin Ids(live, Len(live))
      BY <1>h, <2>1, <2>5 DEF Unsent
    <2>8. Distinct(live')
      <3> SUFFICES ASSUME NEW x \in 1 .. Len(live'), NEW y \in 1 .. Len(live'),
                          live'[x].id = live'[y].id
                   PROVE  x = y
        BY DEF Distinct
      <3> HIDE DEF L, o
      <3>1. CASE x \in 1 .. L /\ live'[x] = claimed[o + x]
        <4>1. y \in 1 .. L /\ live'[y] = claimed[o + y]
          BY <2>6, <2>7, <3>1 DEF Ids
        <4>2. o + x = o + y
          BY <1>h, <2>5, <3>1, <4>1 DEF Distinct
        <4> QED BY <2>2, <3>1, <4>1, <4>2 DEF o
      <3>2. CASE x - L \in 1 .. Len(live) /\ live'[x] = live[x - L]
        <4>1. y - L \in 1 .. Len(live) /\ live'[y] = live[y - L]
          BY <2>6, <2>7, <3>2 DEF Ids
        <4>2. x - L = y - L
          BY <1>h, <3>2, <4>1 DEF Distinct
        <4> QED BY <2>4, <2>6, <4>2, <1>n
      <3> QED BY <2>6, <3>1, <3>2
    <2>9. \A q \in Payloads : acks'[q] # 0 => acks'[q] = 1 /\ q \notin Ids(live', Len(live'))
      <3> SUFFICES ASSUME NEW m \in 1 .. Len(live'), live'[m].id \in Payloads,
                          acks[live'[m].id] # 0
                   PROVE  FALSE
        BY <1>h, <2>1 DEF Ids
      <3> HIDE DEF L, o
      <3> QED BY <1>h, <2>6, <2>7 DEF Ids
    <2>10. ASSUME NEW e \in Drainers, pc'[e] \in Unsent, NEW m \in offset'[e] + 1 .. Len(claimed')
           PROVE  FALSE
      <3>1. pc[e] \in Unsent
        BY <1>u, <2>1, <2>10
      <3>2. e = d
        BY <1>o, <2>1, <3>1 DEF Unsent
      <3> QED BY <2>1, <2>10, <3>2 DEF Unsent
    <2> QED BY <1>h, <2>1, <2>8, <2>9, <2>10 DEF OneLineEach, Distinct
  <1>7. ASSUME NEW d \in Drainers, Removes(d)
        PROVE  OneLineEach'
    <2>1. claimed' = <<>> /\ Len(claimed') = 0 /\ live' = live /\ acks' = acks
      BY <1>7 DEF Removes
    <2>2. \A e \in Drainers : offset'[e] \in Nat
      BY DEF TypeOK
    <2>3. \A e \in Drainers : offset'[e] + 1 .. Len(claimed') = {}
      BY <2>1, <2>2
    <2> QED BY <1>h, <2>1, <2>3 DEF OneLineEach, Distinct
  <1>8. ~\E d \in Drainers : Overwrites(d)
    BY <1>c DEF Overwrites
  <1> QED BY <1>1, <1>2, <1>3, <1>4, <1>5, <1>6, <1>7, <1>8, Effects

-----------------------------------------------------------------------------
(* What it takes to overwrite a claimed file *)

OverwritingNeedsTwo == \A p \in Payloads : "overwritten" \in fate[p] => TwoFaults

\* The leftover a claim overwrites is there because of an earlier fault.
LEMMA OverwrittenStep ==
    ASSUME TypeOK, Custody, FaultsBounded, ClaimedIsOwned, OverwritingNeedsTwo, Next
    PROVE  OverwritingNeedsTwo'
  <1>f. /\ faults.disk \in Nat /\ faults.crash \in Nat /\ DiskFaults \in Nat /\ Crashes \in Nat
        /\ faults'.disk <= faults.disk /\ faults'.crash <= faults.crash
        /\ faults'.disk \in Int /\ faults'.crash \in Int
    <2>1. faults' \in [{"net", "disk", "crash"} -> Nat]
      BY PushType, DrainType, CrashType DEF Next, TypeOK, Custody
    <2> QED BY <2>1, CountersStep, FaultsAssumption DEF TypeOK
  <1>g. TwoFaults => TwoFaults'
    BY <1>f DEF TwoFaults
  <1>k. ASSUME \A p \in Payloads : "overwritten" \in fate'[p] => "overwritten" \in fate[p]
        PROVE  OverwritingNeedsTwo'
    BY <1>g, <1>k DEF OverwritingNeedsTwo
  <1>w. ASSUME NEW S, NEW why \in {"delivered", "dropped", "evicted"}, Settle(S, why)
        PROVE  OverwritingNeedsTwo'
    BY <1>k, <1>w DEF Settle
  <1>1. ASSUME Quiet \/ Takes \/ (\E p \in Payloads, c \in Chunk : Appends(p, c))
               \/ (\E d \in Drainers : Restores(d) \/ Removes(d))
        PROVE  OverwritingNeedsTwo'
    <2>1. fate' = fate
      BY <1>1 DEF Quiet, Takes, Appends, Restores, Removes
    <2> QED BY <1>k, <2>1
  <1>2. ASSUME NEW k \in 0 .. Len(live), Evicts(k)
        PROVE  OverwritingNeedsTwo'
    BY <1>2, <1>w DEF Evicts
  <1>3. ASSUME NEW d \in Drainers, NEW j \in 1 .. Len(claimed), NEW why \in {"delivered", "dropped"},
               Passes(d, j, why)
        PROVE  OverwritingNeedsTwo'
    BY <1>3, <1>w DEF Passes
  <1>4. ASSUME NEW d \in Drainers, Overwrites(d)
        PROVE  OverwritingNeedsTwo'
    <2>1. draining = d /\ pc[d] = "claim" /\ claimed # <<>>
      BY <1>4 DEF Overwrites, Custody, OneDrain
    <2>2. ~Faultless
      BY <2>1 DEF ClaimedIsOwned, Unsent
    <2>3. faults.disk + faults.crash + 1 <= DiskFaults + Crashes
      BY <1>f, <2>2 DEF Faultless, FaultsBounded
    <2>4. faults'.disk = faults.disk - 1
      BY <1>4 DEF Overwrites, TypeOK
    <2>5. TwoFaults'
      BY <1>f, <2>3, <2>4 DEF TwoFaults
    <2> QED BY <2>5 DEF OverwritingNeedsTwo
  <1> QED BY <1>1, <1>2, <1>3, <1>4, Effects

-----------------------------------------------------------------------------
(* Induction, and the bytes of a file *)

\* A set of numbers has a least element: initial segments are finite, and finite
\* sets are well-founded under strict inclusion.
LEMMA LeastNumber ==
    ASSUME NEW T \in SUBSET Nat, T # {}
    PROVE  \E x \in T : \A y \in T : x <= y
  <1> DEFINE U == {0 .. n : n \in T}
             R == StrictSubsetOrdering(Nat)
  <1>1. U \subseteq FiniteSubsetsOf(Nat)
    <2> SUFFICES ASSUME NEW n \in T PROVE 0 .. n \in FiniteSubsetsOf(Nat)
      OBVIOUS
    <2>1. n \in Int /\ IsFiniteSet(0 .. n)
      BY FS_Interval
    <2> QED BY <2>1 DEF FiniteSubsetsOf
  <1>2. U # {}
    OBVIOUS
  <1>3. IsWellFoundedOn(R, FiniteSubsetsOf(Nat))
    BY FS_StrictSubsetOrderingWellFounded
  <1>4. PICK u \in U : \A v \in U : ~(<<v, u>> \in R)
    <2> HIDE DEF U, R
    <2> QED BY <1>1, <1>2, <1>3, WFMin
  <1>5. PICK x \in T : u = 0 .. x
    OBVIOUS
  <1>6. ASSUME NEW y \in T, y < x PROVE FALSE
    <2>1. 0 .. y \subseteq 0 .. x /\ x \in 0 .. x /\ x \notin 0 .. y
      BY <1>6
    <2>2. 0 .. y \in SUBSET Nat /\ 0 .. x \in SUBSET Nat
      OBVIOUS
    <2>3. <<0 .. y, 0 .. x>> \in R
      BY <2>1, <2>2 DEF StrictSubsetOrdering
    <2> QED BY <1>4, <1>5, <2>3
  <1> QED BY <1>6

\* Induction over the naturals, with a set in the place of a predicate.
LEMMA Induction ==
    ASSUME NEW S, 0 \in S, \A n \in Nat : n \in S => n + 1 \in S
    PROVE  Nat \subseteq S
  <1> DEFINE T == Nat \ S
  <1> SUFFICES ASSUME T # {} PROVE FALSE
    OBVIOUS
  <1>1. PICK x \in T : \A y \in T : x <= y
    <2> HIDE DEF T
    <2>1. T \in SUBSET Nat
      BY DEF T
    <2> QED BY <2>1, LeastNumber
  <1>2. x # 0 /\ x - 1 \in Nat /\ x - 1 < x /\ (x - 1) + 1 = x
    OBVIOUS
  <1>3. x - 1 \in S
    BY <1>1, <1>2
  <1> QED BY <1>2, <1>3

\* The bytes of the first i chunks, for every i.
IsTally(g, f) == g = [i \in 0 .. Len(f) |-> IF i = 0 THEN 0 ELSE g[i - 1] + f[i].n]

\* The length of a chunk.
LEMMA ChunkBytes == ASSUME NEW f \in Seq(Chunk), NEW i \in 1 .. Len(f) PROVE f[i].n \in Nat
  BY ElementOfSeq DEF Chunk

\* The recursion that Bytes is defined by has a solution.
LEMMA TallyExists ==
    ASSUME NEW f \in Seq(Chunk)
    PROVE  \E g : IsTally(g, f)
  <1> DEFINE P(g, n) == \A i \in 0 .. n : g[i] = IF i = 0 THEN 0 ELSE g[i - 1] + f[i].n
             S == {n \in Nat : n <= Len(f) => \E g \in [0 .. n -> Nat] : P(g, n)}
  <1>n. Len(f) \in Nat
    BY LenProperties
  <1>1. 0 \in S
    <2>1. P([i \in 0 .. 0 |-> 0], 0) /\ [i \in 0 .. 0 |-> 0] \in [0 .. 0 -> Nat]
      OBVIOUS
    <2> QED BY <2>1
  <1>2. ASSUME NEW n \in Nat, n \in S PROVE n + 1 \in S
    <2>0. n + 1 \in Nat
      OBVIOUS
    <2> HIDE DEF P
    <2> SUFFICES ASSUME n + 1 <= Len(f) PROVE \E g \in [0 .. n + 1 -> Nat] : P(g, n + 1)
      BY <2>0
    <2> USE DEF P
    <2>1. PICK g \in [0 .. n -> Nat] : P(g, n)
      BY <1>2, <1>n
    <2> DEFINE h == [i \in 0 .. n + 1 |-> IF i = n + 1 THEN g[n] + f[n + 1].n ELSE g[i]]
    <2>2. f[n + 1].n \in Nat
      BY <1>n, ChunkBytes
    <2>3. h \in [0 .. n + 1 -> Nat]
      BY <2>2
    <2>4. P(h, n + 1)
      <3> SUFFICES ASSUME NEW i \in 0 .. n + 1 PROVE h[i] = IF i = 0 THEN 0 ELSE h[i - 1] + f[i].n
        OBVIOUS
      <3>1. CASE i = n + 1
        BY <3>1
      <3>2. CASE i # n + 1
        <4>1. i \in 0 .. n /\ (i # 0 => i - 1 \in 0 .. n)
          BY <3>2
        <4>2. h[i] = g[i] /\ (i # 0 => h[i - 1] = g[i - 1])
          BY <4>1
        <4> QED BY <2>1, <4>1, <4>2
      <3> QED BY <3>1, <3>2
    <2> QED BY <2>3, <2>4
  <1>3. Len(f) \in S
    <2> HIDE DEF S
    <2> QED BY <1>1, <1>2, <1>n, Induction
  <1>4. PICK g \in [0 .. Len(f) -> Nat] : P(g, Len(f))
    BY <1>3, <1>n
  <1>5. IsTally(g, f)
    BY <1>4 DEF IsTally
  <1> QED BY <1>5

\* Bytes is the last value of that tally.
LEMMA BytesByTally ==
    ASSUME NEW f \in Seq(Chunk)
    PROVE  \E g : IsTally(g, f) /\ Bytes(f) = g[Len(f)]
  <1> DEFINE g == CHOOSE x : IsTally(x, f)
  <1>1. IsTally(g, f)
    BY TallyExists
  <1>2. Bytes(f) = g[Len(f)]
    BY DEF Bytes, IsTally
  <1> QED BY <1>1, <1>2

\* The bytes of a file are a number, those of a file with one chunk the chunk's.
LEMMA BytesType ==
    ASSUME NEW f \in Seq(Chunk)
    PROVE  Bytes(f) \in Nat /\ (Len(f) = 1 => Bytes(f) = f[1].n)
  <1>1. PICK g : IsTally(g, f) /\ Bytes(f) = g[Len(f)]
    BY BytesByTally
  <1>n. Len(f) \in Nat
    BY LenProperties
  <1>2. \A i \in 0 .. Len(f) : g[i] = IF i = 0 THEN 0 ELSE g[i - 1] + f[i].n
    BY <1>1 DEF IsTally
  <1> DEFINE S == {i \in Nat : i <= Len(f) => g[i] \in Nat}
  <1>3. 0 \in S
    BY <1>2, <1>n
  <1>4. ASSUME NEW i \in Nat, i \in S PROVE i + 1 \in S
    <2> SUFFICES ASSUME i + 1 <= Len(f) PROVE g[i + 1] \in Nat
      OBVIOUS
    <2>1. i + 1 \in 0 .. Len(f) /\ i + 1 \in 1 .. Len(f) /\ i + 1 # 0 /\ (i + 1) - 1 = i
      BY <1>n
    <2>2. g[i + 1] = g[i] + f[i + 1].n
      BY <1>2, <2>1
    <2>3. g[i] \in Nat
      BY <1>4, <1>n
    <2> QED BY <2>1, <2>2, <2>3, ChunkBytes
  <1>5. Len(f) \in S
    <2> HIDE DEF S
    <2> QED BY <1>3, <1>4, <1>n, Induction
  <1>6. Bytes(f) \in Nat
    BY <1>1, <1>5, <1>n
  <1>7. ASSUME Len(f) = 1 PROVE Bytes(f) = f[1].n
    <2>1. g[0] = 0 /\ g[1] = g[0] + f[1].n
      BY <1>2, <1>7
    <2>2. f[1].n \in Nat
      <3>1. 1 \in 1 .. Len(f)
        BY <1>7
      <3> QED BY <3>1, ChunkBytes
    <2> QED BY <1>1, <1>7, <2>1, <2>2
  <1> QED BY <1>6, <1>7

-----------------------------------------------------------------------------
(* What an eviction keeps *)

\* p is inside evictOldestLocked.
Evicting(p) == stage[p] \in {"evict", "evictRename"}

\* The goroutine that evicts has just written the last line of the live file.
FreshestLast == \A p \in Payloads : Evicting(p) =>
    /\ Len(live) # 0 /\ live[Len(live)] = [id |-> p, n |-> Size[p] + 1]
    /\ Size[p] <= MaxPayload

\* What it is about to rename is what the loop decided to keep.
TmpFits == \A p \in Payloads : stage[p] = "evictRename" =>
    \E k \in 0 .. Len(live) : tmp = After(live, k) /\ EvictsFirst(live, k)

\* No append was torn, so that every chunk is a line.
Untorn == ~TornWrites \/ faults.disk = DiskFaults

WholeLines == Untorn => \A c \in Stored : Terminated(c)

\* Nobody writes the live file or the temporary one while p evicts.
LEMMA EvictingStep ==
    ASSUME TypeOK, Custody, FreshestLast, TmpFits, Next
    PROVE  FreshestLast' /\ TmpFits'
  <1> USE ActorsAssumption DEF files, counters, history
  <1>k. ASSUME NEW q \in Payloads, Evicting(q), stage'[q] = stage[q]
        PROVE  live' = live /\ tmp' = tmp
    <2>1. mu = q
      BY <1>k DEF Evicting, Custody, MutexHeld
    <2>2. ASSUME NEW p \in Payloads, Push(p) PROVE live' = live /\ tmp' = tmp
      <3>1. p # q => ~Evicting(p)
        BY <2>1 DEF Evicting, Custody, MutexHeld
      <3>2. ~EnqueueAppend(p) /\ ~EnqueueFails(p)
        BY <2>1 DEF EnqueueAppend, EnqueueFails
      <3>3. ~EvictWriteTmp(p) /\ ~EvictRename(p)
        BY <1>k, <3>1 DEF EvictWriteTmp, EvictRename, Evicting, TypeOK
      <3> QED BY <2>2, <3>2, <3>3 DEF Push, PushDelivered, PushRejected, PushFailed,
             EnqueueOversized, EvictFails
    <2>3. ASSUME NEW d \in Drainers, Drain(d) PROVE live' = live /\ tmp' = tmp
      <3>1. pc[d] \notin {"restoreRename", "restoreRemove"}
        BY <2>1 DEF Custody, MutexHeld
      <3> QED BY <2>1, <2>3, <3>1 DEF Drain, DrainStart, Claim, ClaimStatFails, Proceed, Decided, DrainFails,
             SendSkipsOversized, SendDelivered, SendRejected, SendFailed, DrainDone,
             RestoreWriteTmp, RestoreRename, RestoreRemove, RestoreFails, AdvanceTo
    <2>4. Crash => live' = live /\ tmp' = tmp
      BY DEF Crash
    <2> QED BY <2>2, <2>3, <2>4 DEF Next
  <1>s. ASSUME NEW q \in Payloads, Evicting(q)', stage'[q] # stage[q]
        PROVE  \/ EnqueueAppend(q) /\ stage'[q] = "evict"
               \/ EvictWriteTmp(q) /\ stage'[q] = "evictRename"
    <2>1. ASSUME NEW p \in Payloads, Push(p)
          PROVE  \/ EnqueueAppend(q) /\ stage'[q] = "evict"
                 \/ EvictWriteTmp(q) /\ stage'[q] = "evictRename"
      <3>0. DOMAIN stage = Payloads /\ stage'[q] \in {"evict", "evictRename"}
        BY <1>s DEF Evicting, TypeOK
      <3>1. ASSUME NEW v, stage' = [stage EXCEPT ![p] = v] PROVE p = q /\ stage'[q] = v
        BY <1>s, <3>0, <3>1
      <3>2. \E v \in {"delivered", "rejected", "enqueue", "oversized", "failed", "queued"} :
              PushDelivered(p) \/ PushRejected(p) \/ PushFailed(p) \/ EnqueueOversized(p)
              \/ EnqueueFails(p) \/ EvictRename(p) \/ EvictFails(p) => stage' = [stage EXCEPT ![p] = v]
        BY DEF PushDelivered, PushRejected, PushFailed, EnqueueOversized, EnqueueFails, EvictRename,
               EvictFails
      <3>3. EnqueueAppend(p) => stage' = [stage EXCEPT ![p] = "queued"] \/ stage' = [stage EXCEPT ![p] = "evict"]
        BY DEF EnqueueAppend
      <3>4. EvictWriteTmp(p) => stage' = [stage EXCEPT ![p] = "evictRename"]
        BY DEF EvictWriteTmp
      <3>5. EnqueueAppend(p) \/ EvictWriteTmp(p)
        BY <2>1, <3>0, <3>1, <3>2 DEF Push
      <3> QED BY <3>0, <3>1, <3>3, <3>4, <3>5
    <2>2. ASSUME NEW d \in Drainers, Drain(d) PROVE stage' = stage
      BY <2>2 DEF Drain, DrainStart, Claim, ClaimStatFails, Proceed, Decided, DrainFails, SendSkipsOversized,
         SendDelivered, SendRejected, SendFailed, DrainDone, RestoreWriteTmp, RestoreRename,
         RestoreRemove, RestoreFails, AdvanceTo
    <2>3. ~Crash
      BY <1>s DEF Crash, Evicting, TypeOK
    <2> QED BY <1>s, <2>1, <2>2, <2>3 DEF Next
  <1>1. ASSUME NEW q \in Payloads, Evicting(q)'
        PROVE  /\ Len(live') # 0 /\ live'[Len(live')] = [id |-> q, n |-> Size[q] + 1]
               /\ Size[q] <= MaxPayload
    <2>1. CASE stage'[q] = stage[q]
      BY <1>1, <1>k, <2>1 DEF Evicting, FreshestLast
    <2>2. CASE EnqueueAppend(q)
      <3>1. [id |-> q, n |-> Size[q] + 1] \in Chunk
        BY ChunkType, BytesAssumption
      <3>2. live' = Append(live, [id |-> q, n |-> Size[q] + 1]) /\ Size[q] <= MaxPayload
        BY <2>2 DEF EnqueueAppend
      <3>3. /\ Len(live') = Len(live) + 1 /\ Len(live) \in Nat
            /\ live'[Len(live) + 1] = [id |-> q, n |-> Size[q] + 1]
        BY <3>1, <3>2, AppendProperties, LenProperties DEF TypeOK
      <3> QED BY <3>2, <3>3
    <2>3. CASE EvictWriteTmp(q)
      BY <2>3 DEF EvictWriteTmp, FreshestLast, Evicting
    <2> QED BY <1>1, <1>s, <2>1, <2>2, <2>3
  <1>2. ASSUME NEW q \in Payloads, stage'[q] = "evictRename"
        PROVE  \E k \in 0 .. Len(live') : tmp' = After(live', k) /\ EvictsFirst(live', k)
    <2>0. Evicting(q)'
      BY <1>2 DEF Evicting
    <2>1. CASE stage'[q] = stage[q]
      <3>1. live' = live /\ tmp' = tmp
        BY <1>2, <1>k, <2>1 DEF Evicting
      <3> QED BY <1>2, <2>1, <3>1 DEF TmpFits
    <2>2. CASE EvictWriteTmp(q)
      BY <2>2 DEF EvictWriteTmp
    <2> QED BY <1>2, <1>s, <2>0, <2>1, <2>2
  <1> QED BY <1>1, <1>2 DEF FreshestLast, TmpFits

\* Without a torn write every chunk ends with its newline.
LEMMA WholeLinesStep ==
    ASSUME TypeOK, Custody, FaultsBounded, WholeLines, Next
    PROVE  WholeLines'
  <1> SUFFICES ASSUME Untorn' PROVE \A c \in Stored' : Terminated(c)
    BY DEF WholeLines, Terminated
  <1>f. faults.disk \in Nat /\ DiskFaults \in Nat /\ faults'.disk <= faults.disk
    BY CountersStep, FaultsAssumption DEF TypeOK
  <1>u. Untorn /\ (TornWrites => faults'.disk = faults.disk)
    BY <1>f DEF Untorn, FaultsBounded
  <1>k. ASSUME Stored' \subseteq Stored PROVE \A c \in Stored' : Terminated(c)
    BY <1>k, <1>u DEF WholeLines
  <1>1. CASE Quiet
    BY <1>1, <1>k DEF Quiet, Stored
  <1>2. ASSUME NEW p \in Payloads, NEW c \in Chunk, Appends(p, c)
        PROVE  \A x \in Stored' : Terminated(x)
    <2>1. Stored' = Stored \cup {c}
      BY <1>2, ChunksOfAppend DEF Appends, Stored, TypeOK
    <2>2. Terminated(c)
      BY <1>2, <1>u DEF Appends
    <2> QED BY <1>u, <2>1, <2>2 DEF WholeLines
  <1>3. ASSUME NEW k \in 0 .. Len(live), Evicts(k)
        PROVE  \A c \in Stored' : Terminated(c)
    <2>1. Stored' \subseteq Stored
      BY <1>3, ChunksOfAfter DEF Evicts, Stored, TypeOK
    <2> QED BY <1>k, <2>1
  <1>4. CASE Takes
    <2>1. Stored' \subseteq Stored
      BY <1>4 DEF Takes, Stored, Chunks
    <2> QED BY <1>k, <2>1
  <1>5. ASSUME NEW d \in Drainers, NEW j \in 1 .. Len(claimed), NEW why, Passes(d, j, why)
        PROVE  \A c \in Stored' : Terminated(c)
    BY <1>5, <1>k DEF Passes, Stored
  <1>6. ASSUME NEW d \in Drainers, Restores(d)
        PROVE  \A c \in Stored' : Terminated(c)
    <2>1. offset[d] \in 0 .. Len(claimed)
      BY DEF TypeOK, Custody, OffsetInFile
    <2>2. Chunks(live') \subseteq Stored
      <3> DEFINE rest == After(claimed, offset[d])
      <3>1. rest \in Seq(Chunk) /\ Chunks(rest) \subseteq Chunks(claimed) /\ live \in Seq(Chunk)
        BY <2>1, FileTypes, AfterType, ChunksOfAfter
      <3>2. live' = rest \o live
        BY <1>6 DEF Restores
      <3> HIDE DEF rest
      <3>3. Chunks(rest \o live) \subseteq Chunks(rest) \cup Chunks(live)
        BY <3>1, ChunksOfConcat
      <3> QED BY <3>1, <3>2, <3>3 DEF Stored
    <2>3. Stored' \subseteq Stored
      BY <1>6, <2>2 DEF Restores, Stored
    <2> QED BY <1>k, <2>3
  <1>7. ASSUME NEW d \in Drainers, Removes(d)
        PROVE  \A c \in Stored' : Terminated(c)
    <2>1. Stored' \subseteq Stored
      BY <1>7 DEF Removes, Stored, Chunks
    <2> QED BY <1>k, <2>1
  <1>8. ASSUME NEW d \in Drainers, Overwrites(d)
        PROVE  \A c \in Stored' : Terminated(c)
    <2>1. Stored' \subseteq Stored
      BY <1>8 DEF Overwrites, Stored, Chunks
    <2> QED BY <1>k, <2>1
  <1> QED BY <1>1, <1>2, <1>3, <1>4, <1>5, <1>6, <1>7, <1>8, Effects

\* The loop of the eviction stops at the last line, which fits.
LEMMA FreshestStep ==
    ASSUME MaxPayload < EvictTarget, TypeOK, Custody, FreshestLast, TmpFits, WholeLines, Next,
           NEW p \in Payloads, stage[p] # "queued", stage'[p] = "queued", Untorn
    PROVE  Bytes(live') <= MaxBytes /\ p \in Contents(live')
  <1> USE DEF files, counters, history
  <1>t. live \in Seq(Chunk)
    BY DEF TypeOK
  <1>n. Len(live) \in Nat /\ Size[p] \in Nat /\ MaxPayload \in Nat /\ MaxBytes \in Nat
    BY <1>t, LenProperties, BytesAssumption
  <1>c. /\ [id |-> p, n |-> Size[p] + 1] \in Chunk /\ Whole([id |-> p, n |-> Size[p] + 1])
    BY ChunkType, BytesAssumption DEF Whole
  <1>1. EnqueueAppend(p) \/ EvictRename(p)
    <2>1. ASSUME NEW q \in Payloads, Push(q) PROVE EnqueueAppend(p) \/ EvictRename(p)
      BY <2>1 DEF TypeOK, Push, PushDelivered, PushRejected, PushFailed, EnqueueOversized,
         EnqueueAppend, EnqueueFails, EvictWriteTmp, EvictRename, EvictFails
    <2>2. ASSUME NEW d \in Drainers, Drain(d) PROVE stage' = stage
      BY <2>2 DEF Drain, DrainStart, Claim, ClaimStatFails, Proceed, Decided, DrainFails, SendSkipsOversized,
         SendDelivered, SendRejected, SendFailed, DrainDone, RestoreWriteTmp, RestoreRename,
         RestoreRemove, RestoreFails, AdvanceTo
    <2>3. ~Crash
      BY DEF Crash, TypeOK
    <2> QED BY <2>1, <2>2, <2>3 DEF Next
  <1>2. CASE EnqueueAppend(p)
    <2>1. Bytes(live') <= MaxBytes
      BY <1>2 DEF EnqueueAppend, TypeOK
    <2>2. p \in Contents(live')
      BY <1>2, <1>c, <1>t, AppendContents DEF EnqueueAppend
    <2> QED BY <2>1, <2>2
  <1>3. CASE EvictRename(p)
    <2>1. PICK k \in 0 .. Len(live) : tmp = After(live, k) /\ EvictsFirst(live, k)
      BY <1>3 DEF EvictRename, TmpFits
    <2>2. /\ Len(live) # 0 /\ live[Len(live)] = [id |-> p, n |-> Size[p] + 1]
          /\ Size[p] <= MaxPayload
      BY <1>3 DEF EvictRename, FreshestLast, Evicting
    <2> DEFINE l == Len(live) - 1
    <2>3. l \in 0 .. Len(live) /\ l + 1 = Len(live) /\ Len(live) \in 1 .. Len(live)
      BY <1>n, <2>2
    <2>4. Bytes(After(live, l)) <= EvictTarget
      <3>1. /\ After(live, l) \in Seq(Chunk) /\ Len(After(live, l)) = Len(live) - l
            /\ \A i \in 1 .. Len(live) - l : After(live, l)[i] = live[l + i]
        BY <1>t, <2>3, AfterType
      <3>2. Len(live) - l = 1
        BY <1>n
      <3>3. After(live, l)[1] = live[Len(live)]
        BY <2>3, <3>1, <3>2
      <3>4. Bytes(After(live, l)) = Size[p] + 1
        BY <2>2, <3>1, <3>2, <3>3, BytesType
      <3>5. EvictTarget \in Int
        BY <1>n DEF EvictTarget
      <3> QED BY <1>n, <2>2, <3>4, <3>5
    <2>5. l \in Ends(live) \cup {0}
      <3>1. CASE l # 0
        <4>1. l \in 1 .. Len(live)
          BY <1>n, <2>3, <3>1
        <4>2. Terminated(live[l])
          BY <4>1 DEF WholeLines, Stored, Chunks
        <4> QED BY <4>1, <4>2 DEF Ends
      <3> QED BY <3>1
    <2>6. k <= l
      <3> SUFFICES ASSUME k > l PROVE FALSE
        BY <1>n, <2>3
      <3> HIDE DEF l
      <3>1. l \in 0 .. k - 1
        BY <1>n, <2>3
      <3> QED BY <2>1, <2>4, <2>5, <3>1 DEF EvictsFirst
    <2>7. live' = After(live, k)
      BY <1>3, <2>1 DEF EvictRename
    <2>8. Bytes(live') <= MaxBytes
      <3>1. Bytes(live') \in Nat
        BY <1>t, <2>7, AfterType, BytesType
      <3>2. Bytes(live') <= EvictTarget
        BY <2>1, <2>7 DEF EvictsFirst
      <3>3. EvictTarget <= MaxBytes /\ EvictTarget \in Int
        BY <1>n DEF EvictTarget
      <3> QED BY <1>n, <3>1, <3>2, <3>3
    <2>9. p \in Contents(live')
      <3>1. /\ Len(live') = Len(live) - k
            /\ \A i \in 1 .. Len(live) - k : live'[i] = live[k + i]
        BY <1>t, <2>7, AfterType
      <3>2. Len(live) - k \in 1 .. Len(live') /\ k + (Len(live) - k) = Len(live)
        BY <1>n, <2>6, <3>1
      <3>3. live'[Len(live) - k] = [id |-> p, n |-> Size[p] + 1]
        BY <2>2, <3>1, <3>2
      <3> QED BY <1>c, <3>2, <3>3 DEF Contents, Held
    <2> QED BY <2>8, <2>9
  <1> QED BY <1>1, <1>2, <1>3

-----------------------------------------------------------------------------
(* The theorems about what fleet is given *)

\* The inductive invariant, on top of Safe.
Delivery ==
    /\ Untouched /\ QueuedEndLines /\ RestoredFirst /\ Sorted /\ InOrder
    /\ FaultsBounded /\ SpentIsCounted
    /\ ClaimedIsOwned /\ OneLineEach
    /\ FreshestLast /\ TmpFits /\ WholeLines
    /\ OverwritingNeedsTwo

\* It holds in the initial state.
LEMMA DeliveryInit == Init => Delivery
  <1> SUFFICES ASSUME Init PROVE Delivery
    OBVIOUS
  <1>1. live = <<>> /\ claimed = <<>> /\ order = <<>> /\ Len(live) = 0 /\ Len(claimed) = 0 /\ Len(order) = 0
    BY DEF Init
  <1>2. Stored = {} /\ Queued = {}
    BY <1>1 DEF Stored, Chunks, Queued
  <1>3. Untouched /\ QueuedEndLines /\ WholeLines
    BY <1>2 DEF Init, Untouched, QueuedEndLines, WholeLines
  <1>4. RestoredFirst /\ FreshestLast /\ TmpFits
    BY DEF Init, RestoredFirst, FreshestLast, TmpFits, Evicting
  <1>5. Sorted /\ InOrder
    BY <1>1 DEF Sorted, ClaimedSorted, LiveSorted, LiveKeepsOrder, InOrder
  <1>6. FaultsBounded
    BY FaultsAssumption DEF Init, FaultsBounded
  <1>7. SpentIsCounted
    <2>1. Spent = {}
      BY <1>2 DEF Spent
    <2> QED BY <2>1, FS_EmptySet DEF Init, SpentIsCounted
  <1>8. ClaimedIsOwned /\ OneLineEach
    BY <1>1 DEF Init, ClaimedIsOwned, OneLineEach, Distinct, Unsent
  <1>9. OverwritingNeedsTwo
    BY DEF Init, OverwritingNeedsTwo
  <1> QED BY <1>3, <1>4, <1>5, <1>6, <1>7, <1>8, <1>9 DEF Delivery

\* Every step keeps it.
LEMMA DeliveryStep == Safe /\ Safe' /\ Delivery /\ [Next]_vars => Delivery'
  <1> SUFFICES ASSUME Safe, Safe', Delivery, [Next]_vars PROVE Delivery'
    OBVIOUS
  <1> USE DEF Safe, Delivery
  <1>1. CASE Next
    <2>1. Untouched' /\ QueuedEndLines'
      BY <1>1, LinesStep
    <2>2. RestoredFirst'
      BY <1>1, RestoredStep
    <2>3. Sorted'
      BY <1>1, SortedStep
    <2>4. InOrder'
      BY <1>1, InOrderStep
    <2>5. FaultsBounded'
      <3>1. /\ faults.disk \in Nat /\ faults.crash \in Nat /\ faults'.disk \in Nat /\ faults'.crash \in Nat
            /\ DiskFaults \in Nat /\ Crashes \in Nat
            /\ faults'.disk <= faults.disk /\ faults'.crash <= faults.crash
        BY <1>1, CountersStep, FaultsAssumption DEF TypeOK
      <3> QED BY <3>1 DEF FaultsBounded
    <2>6. SpentIsCounted'
      BY <1>1, SpentStep
    <2>7. ClaimedIsOwned'
      BY <1>1, OwnedStep
    <2>8. OneLineEach'
      BY <1>1, OneLineStep
    <2>9. FreshestLast' /\ TmpFits'
      BY <1>1, EvictingStep
    <2>10. WholeLines'
      BY <1>1, WholeLinesStep
    <2>11. OverwritingNeedsTwo'
      BY <1>1, OverwrittenStep
    <2> QED BY <2>1, <2>2, <2>3, <2>4, <2>5, <2>6, <2>7, <2>8, <2>9, <2>10, <2>11
  <1>2. CASE UNCHANGED vars
    <2>0. /\ live' = live /\ claimed' = claimed /\ tmp' = tmp /\ draining' = draining /\ stage' = stage
          /\ pc' = pc /\ offset' = offset /\ order' = order /\ fate' = fate /\ acks' = acks
          /\ faults' = faults /\ droppedPermanent' = droppedPermanent
          /\ droppedOversized' = droppedOversized /\ droppedEvicted' = droppedEvicted
      BY <1>2 DEF vars, files, counters, history
    <2>1. Stored' = Stored /\ Queued' = Queued
      BY <2>0 DEF Stored, Queued
    <2>2. (Untouched /\ QueuedEndLines /\ WholeLines)'
      BY <2>0, <2>1 DEF Untouched, QueuedEndLines, WholeLines, Untorn, Fresh
    <2>3. (RestoredFirst /\ FreshestLast /\ TmpFits)'
      BY <2>0 DEF RestoredFirst, FreshestLast, TmpFits, Evicting
    <2>4. (Sorted /\ InOrder)'
      BY <2>0 DEF Sorted, ClaimedSorted, LiveSorted, LiveKeepsOrder, InOrder
    <2>5. (FaultsBounded /\ SpentIsCounted)'
      BY <2>0, <2>1 DEF FaultsBounded, SpentIsCounted, Spent
    <2>6. (ClaimedIsOwned /\ OneLineEach)'
      BY <2>0 DEF ClaimedIsOwned, OneLineEach, Faultless
    <2>7. OverwritingNeedsTwo'
      BY <2>0 DEF OverwritingNeedsTwo, TwoFaults
    <2> QED BY <2>2, <2>3, <2>4, <2>5, <2>6, <2>7
  <1> QED BY <1>1, <1>2

\* It holds throughout.
LEMMA DeliveryHolds == Spec => [](Safe /\ Delivery)
  <1>1. Init => Safe /\ Delivery
    BY SafeInit, DeliveryInit
  <1>2. Safe /\ Delivery /\ [Next]_vars => (Safe /\ Delivery)'
    BY SafeStep, DeliveryStep
  <1> QED BY <1>1, <1>2, PTL DEF Spec

\* Once queued, a session stays in the live file or in the claimed one until it
\* is delivered, dropped or evicted: no single crash and no single failing file
\* operation loses it, for any number of sessions and drainers.  Losing one takes
\* two faults, the second an os.Stat that fails on the file the first left behind.
THEOREM NothingLost == Spec => []NoSilentLoss
  <1>1. Safe /\ Delivery => NoSilentLoss
    BY QueuedIsPayload DEF Safe, Delivery, NoSilentLoss, OverwritingNeedsTwo
  <1> QED BY <1>1, DeliveryHolds, PTL

\* Fleet is given the sessions in the order they were queued, each once as long
\* as only the network fails, and while the process lives the counters account
\* for every session it will not be given, those a claim overwrote apart.
THEOREM DeliveryIsSound == Spec => []DeliverySound
  <1>1. Safe /\ Delivery => DeliverySound
    <2> SUFFICES ASSUME Safe, Delivery PROVE DeliverySound
      OBVIOUS
    <2>1. InOrder
      BY DEF Delivery
    <2>2. LossIsCounted
      BY LossIsSpent DEF Safe, Delivery
    <2>3. DeliveredOnce
      <3>1. acks \in [Payloads -> Nat]
        BY DEF Safe, TypeOK
      <3>2. Faultless => \A p \in Payloads : acks[p] # 0 => acks[p] = 1
        BY DEF Delivery, OneLineEach
      <3> QED BY <3>1, <3>2 DEF DeliveredOnce
    <2> QED BY <2>1, <2>2, <2>3 DEF DeliverySound
  <1> QED BY <1>1, DeliveryHolds, PTL

\* When the eviction target leaves room for the longest line, an Enqueue that
\* succeeds leaves the live file within its bound and its own session in it,
\* for any sizes and any number of sessions (unless a torn write has spoiled a
\* line).
THEOREM FreshestIsKept ==
    ASSUME MaxPayload < EvictTarget
    PROVE  Spec => EnqueueKeepsFreshest
  <1> DEFINE Keeps == \A p \in Payloads :
                /\ stage[p] # "queued" /\ stage'[p] = "queued"
                /\ ~TornWrites \/ faults.disk = DiskFaults
               => Bytes(live') <= MaxBytes /\ p \in Contents(live')
  <1>1. ASSUME Safe, Delivery, Next PROVE Keeps
    BY <1>1, FreshestStep DEF Safe, Delivery, Untorn
  <1>2. ASSUME Safe, Delivery, [Next]_vars PROVE [Keeps]_vars
    BY <1>1, <1>2
  <1> QED BY <1>2, DeliveryHolds, PTL DEF Spec, EnqueueKeepsFreshest

=============================================================================
