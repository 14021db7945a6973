---------------------------- MODULE BridgeProofs ----------------------------
(***************************************************************************)
(* Proofs about the enrichment worker, for any sessions, any of them       *)
(* poison, any batch size and any number of faults; about what it enriches *)
(* them with, for any documents, tokenizers and artifacts; and about how   *)
(* the same sessions become training rows, for any log, corpus and limits. *)
(***************************************************************************)
EXTENDS Bridge, Enrichment, TrainingViews, FiniteSetTheorems, SequenceTheorems, TLAPS

Busy == {"enrich", "update", "insert", "commit", "rollback", "mark", "markcommit"}

\* The worker has a batch exactly while it processes one, without repetitions,
\* and nobody has given the sessions after the one at hand a verdict.
BatchIsPending ==
    /\ pc \in Busy <=> batch # <<>>
    /\ \A i, j \in 1 .. Len(batch) : batch[i] = batch[j] => i = j
    /\ \A i \in 2 .. Len(batch) : verdict[batch[i]] = Null

\* Neither has the session at hand one, but for a commit that was not answered,
\* which has lost the connection.
CurrentIsPending == pc \in Busy /\ (pc = "rollback" => conn = "open") => verdict[batch[1]] = Null

\* What is uncommitted follows from where the worker is.
TxFollowsPc ==
    /\ conn = "lost" => tx = {}
    /\ pc \notin {"insert", "commit", "markcommit"} => tx = {}
    /\ conn = "open" /\ pc = "insert" => tx = {"verdict"}
    /\ conn = "open" /\ pc = "commit" => tx = {"verdict", "embedding"}
    /\ conn = "open" /\ pc = "markcommit" => tx = {"error"}

\* An aborted transaction is met by the next session's UPDATE, or by a rollback.
AbortedFollowsPc == aborted => conn = "open" /\ pc \in {"fetch", "enrich", "update", "rollback"}

\* The sessions marked although nothing of their own has failed.
Innocent == {s \in Sessions : verdict[s] = "error" /\ s \notin failed}

\* One more may be marked soon: the transaction it needs is aborted already, or
\* its handler is under way.
Looming ==
    /\ conn = "open"
    /\ \/ aborted /\ pc \in {"fetch", "enrich", "update"}
       \/ pc \in {"rollback", "mark", "markcommit"} /\ batch[1] \notin failed

\* Each of them has cost a fault.
EachCostAFault == Cardinality(Innocent) + (IF Looming THEN 1 ELSE 0) <= MaxFaults - faults

Inv ==
    /\ TypeOK /\ RowsAgree /\ BatchIsPending /\ CurrentIsPending /\ TxFollowsPc
    /\ AbortedFollowsPc /\ EachCostAFault

-----------------------------------------------------------------------------
(* Lemmas *)

\* NextSession leaves the sessions after the one at hand.
LEMMA RestOfBatch ==
    ASSUME NEW S, NEW q \in Seq(S), q # <<>>
    PROVE  /\ Head(q) = q[1] /\ q[1] \in S /\ Len(q) \in Nat \ {0}
           /\ Tail(q) \in Seq(S) /\ Len(Tail(q)) = Len(q) - 1
           /\ \A i \in 1 .. Len(Tail(q)) : Tail(q)[i] = q[i + 1]
           /\ Len(q) = 1 <=> Tail(q) = <<>>
<1>1. Len(q) \in Nat \ {0} /\ Head(q) = q[1] /\ q[1] \in S
  OBVIOUS
<1>2. Tail(q) \in Seq(S) /\ Len(Tail(q)) = Len(q) - 1
  OBVIOUS
<1>3. \A i \in 1 .. Len(Tail(q)) : Tail(q)[i] = q[i + 1]
  OBVIOUS
<1>4. \A t \in Seq(S) : Len(t) = 0 <=> t = <<>>
  OBVIOUS
<1>5. Len(q) = 1 <=> Len(Tail(q)) = 0
  BY <1>1, <1>2
<1>. QED  BY <1>1, <1>2, <1>3, <1>4, <1>5

\* Innocent sessions are finitely many, and a step that marks at most one more
\* adds at most one.
LEMMA InnocentCount ==
    ASSUME TypeOK
    PROVE  /\ IsFiniteSet(Innocent) /\ Cardinality(Innocent) \in Nat
           /\ \A T : T \subseteq Innocent => Cardinality(T) \in Nat /\ Cardinality(T) <= Cardinality(Innocent)
           /\ \A T, x : T \subseteq Innocent \cup {x} =>
                  Cardinality(T) \in Nat /\ Cardinality(T) <= Cardinality(Innocent) + 1
<1>1. IsFiniteSet(Innocent)
  BY WorkerAssumption, FS_Subset DEF Innocent
<1>2. Cardinality(Innocent) \in Nat
  BY <1>1, FS_CardinalityType
<1>3. ASSUME NEW T, T \subseteq Innocent
      PROVE  Cardinality(T) \in Nat /\ Cardinality(T) <= Cardinality(Innocent)
  BY <1>1, <1>3, FS_Subset, FS_CardinalityType
<1>4. ASSUME NEW T, NEW x, T \subseteq Innocent \cup {x}
      PROVE  Cardinality(T) \in Nat /\ Cardinality(T) <= Cardinality(Innocent) + 1
  <2>1. /\ IsFiniteSet(Innocent \cup {x})
        /\ Cardinality(Innocent \cup {x}) <= Cardinality(Innocent) + 1
    BY <1>1, <1>2, FS_AddElement
  <2>2. /\ Cardinality(T) <= Cardinality(Innocent \cup {x}) /\ IsFiniteSet(T)
    BY <2>1, <1>4, FS_Subset
  <2>3. Cardinality(T) \in Nat /\ Cardinality(Innocent \cup {x}) \in Nat
    BY <2>1, <2>2, FS_CardinalityType
  <2>. QED  BY <1>2, <2>1, <2>2, <2>3
<1>. QED  BY <1>1, <1>2, <1>3, <1>4

-----------------------------------------------------------------------------
(* The step of every action *)

\* A worker that goes on has the rest of its batch, and no session of it twice.
LEMMA NextSessionStep ==
    ASSUME TypeOK, BatchIsPending, pc \in Busy, NextSession, saved' = saved
    PROVE  /\ batch # <<>> /\ Current = batch[1] /\ batch[1] \in saved /\ 1 \in 1 .. Len(batch)
           /\ batch' \in Seq(saved') /\ Len(batch') <= BatchSize
           /\ pc' \in {"fetch", "enrich"} /\ (pc' \in Busy <=> batch' # <<>>)
           /\ \A i, k \in 1 .. Len(batch') : batch'[i] = batch'[k] => i = k
           /\ \A i \in 1 .. Len(batch') :
                  batch'[i] \in Sessions /\ batch'[i] # batch[1] /\ verdict[batch'[i]] = Null
<1>1. /\ batch \in Seq(saved) /\ batch # <<>> /\ Len(batch) <= BatchSize /\ BatchSize \in Nat
      /\ saved \subseteq Sessions
  BY WorkerAssumption DEF TypeOK, BatchIsPending
<1>2. batch' = Tail(batch) /\ pc' = IF Len(batch) = 1 THEN "fetch" ELSE "enrich"
  BY DEF NextSession
<1>3. /\ batch[1] \in saved /\ Current = batch[1] /\ Len(batch) \in Nat \ {0}
      /\ batch' \in Seq(saved) /\ Len(batch') = Len(batch) - 1
      /\ \A i \in 1 .. Len(batch') : batch'[i] = batch[i + 1]
      /\ Len(batch) = 1 <=> batch' = <<>>
  BY <1>1, <1>2, RestOfBatch DEF Current
<1>4. \A i \in 1 .. Len(batch') : i + 1 \in 2 .. Len(batch) /\ batch'[i] \in Sessions
  BY <1>1, <1>3
<1>5. /\ \A i, k \in 1 .. Len(batch) : batch[i] = batch[k] => i = k
      /\ \A i \in 2 .. Len(batch) : verdict[batch[i]] = Null
  BY DEF BatchIsPending
<1>6. /\ \A i, k \in 1 .. Len(batch') : batch'[i] = batch'[k] => i = k
      /\ \A i \in 1 .. Len(batch') : batch'[i] # batch[1] /\ verdict[batch'[i]] = Null
  <2>1. ASSUME NEW i \in 1 .. Len(batch')
        PROVE  batch'[i] = batch[i + 1] /\ i + 1 \in 1 .. Len(batch) /\ i + 1 \in 2 .. Len(batch) /\ i + 1 # 1
    BY <1>3, <1>4
  <2>2. 1 \in 1 .. Len(batch)
    BY <1>3
  <2>3. ASSUME NEW i \in 1 .. Len(batch'), NEW k \in 1 .. Len(batch'), batch'[i] = batch'[k] PROVE i = k
    <3>1. batch[i + 1] = batch[k + 1] /\ i + 1 \in 1 .. Len(batch) /\ k + 1 \in 1 .. Len(batch)
      BY <2>1, <2>3
    <3>2. i + 1 = k + 1
      BY <1>5, <3>1
    <3>. QED  BY <3>2
  <2>4. ASSUME NEW i \in 1 .. Len(batch') PROVE batch'[i] # batch[1] /\ verdict[batch'[i]] = Null
    BY <1>5, <2>1, <2>2
  <2>. QED  BY <2>3, <2>4
<1>. QED  BY <1>1, <1>2, <1>3, <1>4, <1>6 DEF Busy

\* When the process ends nothing is left to be marked, and the tables stay.
LEMMA ExitStep ==
    ASSUME Inv, Exits, faults' \in 0 .. faults
    PROVE  Inv'
<1>. USE DEF Inv
<1>1. TypeOK'
  <2>1. /\ saved' \subseteq Sessions /\ embeddings' \subseteq saved' /\ failed' \subseteq saved'
        /\ verdict' \in [Sessions -> {Null, "enriched", "error"}]
    BY DEF TypeOK, Exits, table
  <2>2. /\ tx' \subseteq {"verdict", "embedding", "error"} /\ aborted' \in BOOLEAN
        /\ stop' \in BOOLEAN /\ conn' \in {"open", "lost"}
    BY DEF TypeOK, Exits, table
  <2>3. /\ batch' \in Seq(saved') /\ Len(batch') <= BatchSize /\ faults' \in 0 .. MaxFaults
    BY WorkerAssumption DEF TypeOK, Exits, table
  <2>. QED  BY <2>1, <2>2, <2>3 DEF TypeOK, Exits, table
<1>2. RowsAgree' /\ BatchIsPending' /\ CurrentIsPending' /\ TxFollowsPc' /\ AbortedFollowsPc'
  BY DEF RowsAgree, BatchIsPending, CurrentIsPending, TxFollowsPc, AbortedFollowsPc, Busy, Exits, table
<1>3. Innocent' = Innocent /\ ~Looming'
  BY DEF Innocent, Looming, Exits, table
<1>4. EachCostAFault'
  BY <1>3, InnocentCount, WorkerAssumption DEF EachCostAFault, TypeOK
<1>. QED  BY <1>1, <1>2, <1>4

\* A new session has no verdict and is in no batch.
LEMMA SaveSessionStep ==
    ASSUME Inv, NEW s \in Sessions, SaveSession(s)
    PROVE  Inv'
<1>. USE DEF Inv
<1>1. TypeOK'
  BY WorkerAssumption DEF TypeOK, SaveSession, link
<1>2. RowsAgree' /\ BatchIsPending'
  BY DEF TypeOK, RowsAgree, BatchIsPending, Busy, SaveSession, link
<1>3. CurrentIsPending'
  BY DEF BatchIsPending, CurrentIsPending, AbortedFollowsPc, Busy, SaveSession, link
<1>4. TxFollowsPc' /\ AbortedFollowsPc'
  BY DEF TypeOK, TxFollowsPc, AbortedFollowsPc, SaveSession, link
<1>5. Innocent' \subseteq Innocent /\ (Looming' => Looming)
  BY DEF Innocent, Looming, AbortedFollowsPc, SaveSession, link
<1>6. EachCostAFault'
  BY <1>5, InnocentCount, WorkerAssumption DEF EachCostAFault, TypeOK, SaveSession, link
<1>. QED  BY <1>1, <1>2, <1>3, <1>4, <1>6

\* With the connection the transaction is gone.
LEMMA ConnectionLostStep ==
    ASSUME Inv, ConnectionLost
    PROVE  Inv'
<1>. USE DEF Inv
<1>1. TypeOK'
  <2>1. /\ saved' \subseteq Sessions /\ embeddings' \subseteq saved' /\ failed' \subseteq saved'
        /\ verdict' \in [Sessions -> {Null, "enriched", "error"}]
    BY DEF TypeOK, ConnectionLost, Fault, table
  <2>2. /\ tx' \subseteq {"verdict", "embedding", "error"} /\ aborted' \in BOOLEAN
        /\ stop' \in BOOLEAN /\ conn' \in {"open", "lost"}
    BY DEF TypeOK, ConnectionLost, Fault, table
  <2>3. /\ batch' \in Seq(saved') /\ Len(batch') <= BatchSize /\ faults' \in 0 .. MaxFaults
    BY WorkerAssumption DEF TypeOK, ConnectionLost, Fault, table
  <2>. QED  BY <2>1, <2>2, <2>3 DEF TypeOK, ConnectionLost, Fault, table
<1>2. RowsAgree' /\ BatchIsPending'
  BY DEF TypeOK, RowsAgree, BatchIsPending, Busy, ConnectionLost, Fault, table
<1>3. CurrentIsPending'
  BY DEF BatchIsPending, CurrentIsPending, AbortedFollowsPc, Busy, ConnectionLost, Fault, table
<1>4. TxFollowsPc' /\ AbortedFollowsPc'
  BY DEF TypeOK, TxFollowsPc, AbortedFollowsPc, ConnectionLost, Fault, table
<1>5. Innocent' \subseteq Innocent /\ (Looming' => Looming)
  BY DEF Innocent, Looming, AbortedFollowsPc, ConnectionLost, Fault, table
<1>6. EachCostAFault'
  BY <1>5, InnocentCount, WorkerAssumption DEF EachCostAFault, TypeOK, ConnectionLost, Fault, table
<1>. QED  BY <1>1, <1>2, <1>3, <1>4, <1>6

\* A signal only sets a flag.
LEMMA SignalStep ==
    ASSUME Inv, Signal
    PROVE  Inv'
<1>. USE DEF Inv
<1>1. TypeOK'
  BY WorkerAssumption DEF TypeOK, Signal, Fault, table, link
<1>2. RowsAgree' /\ BatchIsPending'
  BY DEF TypeOK, RowsAgree, BatchIsPending, Busy, Signal, Fault, table, link
<1>3. CurrentIsPending'
  BY DEF BatchIsPending, CurrentIsPending, AbortedFollowsPc, Busy, Signal, Fault, table, link
<1>4. TxFollowsPc' /\ AbortedFollowsPc'
  BY DEF TypeOK, TxFollowsPc, AbortedFollowsPc, Signal, Fault, table, link
<1>5. Innocent' \subseteq Innocent /\ (Looming' => Looming)
  BY DEF Innocent, Looming, AbortedFollowsPc, Signal, Fault, table, link
<1>6. EachCostAFault'
  BY <1>5, InnocentCount, WorkerAssumption DEF EachCostAFault, TypeOK, Signal, Fault, table, link
<1>. QED  BY <1>1, <1>2, <1>3, <1>4, <1>6

\* The worker starts without a batch.
LEMMA StartStep ==
    ASSUME Inv, Start
    PROVE  Inv'
<1>. USE DEF Inv
<1>1. TypeOK'
  BY WorkerAssumption DEF TypeOK, Start, table, link
<1>2. RowsAgree' /\ BatchIsPending'
  BY DEF TypeOK, RowsAgree, BatchIsPending, Busy, Start, table, link
<1>3. CurrentIsPending'
  BY DEF BatchIsPending, CurrentIsPending, AbortedFollowsPc, Busy, Start, table, link
<1>4. TxFollowsPc' /\ AbortedFollowsPc'
  BY DEF TypeOK, TxFollowsPc, AbortedFollowsPc, Start, table, link
<1>5. Innocent' \subseteq Innocent /\ (Looming' => Looming)
  BY DEF Innocent, Looming, AbortedFollowsPc, Start, table, link
<1>6. EachCostAFault'
  BY <1>5, InnocentCount, WorkerAssumption DEF EachCostAFault, TypeOK, Start, table, link
<1>. QED  BY <1>1, <1>2, <1>3, <1>4, <1>6

\* The worker wakes without a batch.
LEMMA WakeStep ==
    ASSUME Inv, Wake
    PROVE  Inv'
<1>. USE DEF Inv
<1>1. TypeOK'
  BY WorkerAssumption DEF TypeOK, Wake, table, link
<1>2. RowsAgree' /\ BatchIsPending'
  BY DEF TypeOK, RowsAgree, BatchIsPending, Busy, Wake, table, link
<1>3. CurrentIsPending'
  BY DEF BatchIsPending, CurrentIsPending, AbortedFollowsPc, Busy, Wake, table, link
<1>4. TxFollowsPc' /\ AbortedFollowsPc'
  BY DEF TypeOK, TxFollowsPc, AbortedFollowsPc, Wake, table, link
<1>5. Innocent' \subseteq Innocent /\ (Looming' => Looming)
  BY DEF Innocent, Looming, AbortedFollowsPc, Wake, table, link
<1>6. EachCostAFault'
  BY <1>5, InnocentCount, WorkerAssumption DEF EachCostAFault, TypeOK, Wake, table, link
<1>. QED  BY <1>1, <1>2, <1>3, <1>4, <1>6

\* The batch is of sessions without a verdict, none of them twice.
LEMMA FetchPendingStep ==
    ASSUME Inv, FetchPending
    PROVE  Inv'
<1>. USE DEF Inv
<1>. DEFINE n == IF Cardinality(Pending) > BatchSize THEN BatchSize ELSE Cardinality(Pending)
<1>1. n \in Nat /\ n <= BatchSize
  <2>1. Pending \in SUBSET Sessions
    BY DEF Pending, TypeOK
  <2>2. Cardinality(Pending) \in Nat
    BY <2>1, WorkerAssumption, FS_Subset, FS_CardinalityType
  <2>. QED  BY <2>2, WorkerAssumption
<1>2. /\ batch' \in [1 .. n -> Pending]
      /\ \A i, j \in 1 .. n : i < j => batch'[i] < batch'[j]
      /\ pc' = IF batch' = <<>> THEN "sleep" ELSE "enrich"
  BY DEF FetchPending, Oldest
<1>. HIDE DEF n
<1>3. /\ batch' \in Seq(saved) /\ Len(batch') = n
      /\ \A i \in 1 .. n : batch'[i] \in Nat /\ verdict[batch'[i]] = Null
  <2>1. Pending \subseteq saved /\ Pending \subseteq Nat /\ \A x \in Pending : verdict[x] = Null
    BY WorkerAssumption DEF TypeOK, Pending
  <2>2. batch' \in [1 .. n -> saved]
    BY <2>1, <1>2
  <2>3. batch' \in Seq(saved) /\ Len(batch') = n
    BY <2>2, <1>1
  <2>4. \A i \in 1 .. n : batch'[i] \in Pending
    BY <1>2
  <2>. QED  BY <2>1, <2>3, <2>4
<1>4. TypeOK'
  BY <1>1, <1>2, <1>3 DEF TypeOK, FetchPending, table, link
<1>5. \A i, j \in 1 .. n : batch'[i] = batch'[j] => i = j
  BY <1>1, <1>2, <1>3
<1>6. BatchIsPending'
  BY <1>1, <1>2, <1>3, <1>5 DEF BatchIsPending, Busy, FetchPending, table
<1>7. CurrentIsPending'
  <2>1. CASE batch' = <<>>
    BY <2>1, <1>2 DEF CurrentIsPending, Busy
  <2>2. CASE batch' # <<>>
    <3>1. 1 \in 1 .. n
      BY <2>2, <1>1, <1>3
    <3>. QED  BY <3>1, <1>3 DEF CurrentIsPending, FetchPending, table
  <2>. QED  BY <2>1, <2>2
<1>8. RowsAgree' /\ TxFollowsPc' /\ AbortedFollowsPc'
  BY <1>2 DEF RowsAgree, TxFollowsPc, AbortedFollowsPc, FetchPending, table, link
<1>9. Innocent' = Innocent /\ ~Looming'
  BY <1>2 DEF Innocent, Looming, FetchPending, table, link
<1>10. EachCostAFault'
  BY <1>9, InnocentCount, WorkerAssumption DEF EachCostAFault, TypeOK, FetchPending
<1>. QED  BY <1>4, <1>6, <1>7, <1>8, <1>10

\* Enrichment itself writes nothing.
LEMMA EnrichedStep ==
    ASSUME Inv, Enriched
    PROVE  Inv'
<1>. USE DEF Inv
<1>1. TypeOK'
  BY WorkerAssumption DEF TypeOK, Enriched, table, link
<1>2. RowsAgree' /\ BatchIsPending'
  BY DEF TypeOK, RowsAgree, BatchIsPending, Busy, Enriched, table, link
<1>3. CurrentIsPending'
  BY DEF BatchIsPending, CurrentIsPending, AbortedFollowsPc, Busy, Enriched, table, link
<1>4. TxFollowsPc' /\ AbortedFollowsPc'
  BY DEF TypeOK, TxFollowsPc, AbortedFollowsPc, Enriched, table, link
<1>5. Innocent' \subseteq Innocent /\ (Looming' => Looming)
  BY DEF Innocent, Looming, AbortedFollowsPc, Enriched, table, link
<1>6. EachCostAFault'
  BY <1>5, InnocentCount, WorkerAssumption DEF EachCostAFault, TypeOK, Enriched, table, link
<1>. QED  BY <1>1, <1>2, <1>3, <1>4, <1>6

\* A session whose enrichment raises is not innocent.
LEMMA EnrichRaisesStep ==
    ASSUME Inv, EnrichRaises
    PROVE  Inv'
<1>. USE DEF Inv
<1>0. batch # <<>> /\ Current = batch[1] /\ batch[1] \in saved
  BY RestOfBatch DEF TypeOK, BatchIsPending, Busy, Current, EnrichRaises
<1>1. TypeOK'
  <2>1. /\ saved' \subseteq Sessions /\ embeddings' \subseteq saved' /\ failed' \subseteq saved'
        /\ verdict' \in [Sessions -> {Null, "enriched", "error"}]
    BY <1>0 DEF TypeOK, EnrichRaises, table, link
  <2>2. /\ tx' \subseteq {"verdict", "embedding", "error"} /\ aborted' \in BOOLEAN
        /\ stop' \in BOOLEAN /\ conn' \in {"open", "lost"}
    BY DEF TypeOK, EnrichRaises, table, link
  <2>3. /\ batch' \in Seq(saved') /\ Len(batch') <= BatchSize /\ faults' \in 0 .. MaxFaults
    BY WorkerAssumption DEF TypeOK, EnrichRaises, table, link
  <2>. QED  BY <2>1, <2>2, <2>3 DEF TypeOK, EnrichRaises, table, link
<1>2. RowsAgree' /\ BatchIsPending'
  BY DEF TypeOK, RowsAgree, BatchIsPending, Busy, EnrichRaises, Current, table, link
<1>3. CurrentIsPending'
  BY DEF BatchIsPending, CurrentIsPending, AbortedFollowsPc, Busy, EnrichRaises, Current, table, link
<1>4. TxFollowsPc' /\ AbortedFollowsPc'
  BY DEF TypeOK, TxFollowsPc, AbortedFollowsPc, EnrichRaises, Current, table, link
<1>5. Innocent' \subseteq Innocent /\ ~Looming'
  BY <1>0 DEF Innocent, Looming, EnrichRaises, table, link
<1>6. EachCostAFault'
  BY <1>5, InnocentCount, WorkerAssumption DEF EachCostAFault, TypeOK, EnrichRaises
<1>. QED  BY <1>1, <1>2, <1>3, <1>4, <1>6

\* The UPDATE is uncommitted.
LEMMA UpdateSessionStep ==
    ASSUME Inv, UpdateSession
    PROVE  Inv'
<1>. USE DEF Inv
<1>1. TypeOK'
  BY WorkerAssumption DEF TypeOK, UpdateSession, table
<1>2. RowsAgree' /\ BatchIsPending'
  BY DEF TypeOK, RowsAgree, BatchIsPending, Busy, UpdateSession, table
<1>3. CurrentIsPending'
  BY DEF BatchIsPending, CurrentIsPending, AbortedFollowsPc, Busy, UpdateSession, table
<1>4. TxFollowsPc' /\ AbortedFollowsPc'
  BY DEF TypeOK, TxFollowsPc, AbortedFollowsPc, UpdateSession, table
<1>5. Innocent' \subseteq Innocent /\ (Looming' => Looming)
  BY DEF Innocent, Looming, AbortedFollowsPc, UpdateSession, table
<1>6. EachCostAFault'
  BY <1>5, InnocentCount, WorkerAssumption DEF EachCostAFault, TypeOK, UpdateSession, table
<1>. QED  BY <1>1, <1>2, <1>3, <1>4, <1>6

\* So is the upsert.
LEMMA InsertEmbeddingStep ==
    ASSUME Inv, InsertEmbedding
    PROVE  Inv'
<1>. USE DEF Inv
<1>1. TypeOK'
  BY WorkerAssumption DEF TypeOK, InsertEmbedding, table
<1>2. RowsAgree' /\ BatchIsPending'
  BY DEF TypeOK, RowsAgree, BatchIsPending, Busy, InsertEmbedding, table
<1>3. CurrentIsPending'
  BY DEF BatchIsPending, CurrentIsPending, AbortedFollowsPc, Busy, InsertEmbedding, table
<1>4. TxFollowsPc' /\ AbortedFollowsPc'
  BY DEF TypeOK, TxFollowsPc, AbortedFollowsPc, InsertEmbedding, table
<1>5. Innocent' \subseteq Innocent /\ (Looming' => Looming)
  BY DEF Innocent, Looming, AbortedFollowsPc, InsertEmbedding, table
<1>6. EachCostAFault'
  BY <1>5, InnocentCount, WorkerAssumption DEF EachCostAFault, TypeOK, InsertEmbedding, table
<1>. QED  BY <1>1, <1>2, <1>3, <1>4, <1>6

\* What a commit does to the tables: verdict and embedding come together, and
\* only the session at hand is touched, which had no verdict.
LEMMA ApplyStep ==
    ASSUME Inv, Apply, pc \in {"commit", "markcommit"}, conn = "open"
    PROVE  /\ batch # <<>> /\ Current = batch[1] /\ batch[1] \in saved /\ verdict[batch[1]] = Null
           /\ saved' = saved /\ tx' = {} /\ embeddings' \subseteq saved' /\ RowsAgree'
           /\ verdict' \in [Sessions -> {Null, "enriched", "error"}]
           /\ \A s \in Sessions : s # batch[1] => verdict'[s] = verdict[s]
           /\ pc = "commit" => verdict'[batch[1]] = "enriched"
<1>. USE DEF Inv
<1>1. batch # <<>> /\ Current = batch[1] /\ batch[1] \in saved /\ batch[1] \in Sessions
  BY RestOfBatch DEF TypeOK, BatchIsPending, Busy, Current
<1>2. verdict[batch[1]] = Null /\ saved' = saved /\ tx' = {}
  BY DEF CurrentIsPending, Busy, Apply
<1>3. CASE pc = "commit"
  <2>1. verdict' = [verdict EXCEPT ![batch[1]] = "enriched"] /\ embeddings' = embeddings \cup {batch[1]}
    BY <1>1, <1>3 DEF TxFollowsPc, Apply
  <2>. QED  BY <1>1, <1>2, <1>3, <2>1 DEF TypeOK, RowsAgree
<1>4. CASE pc = "markcommit"
  <2>1. verdict' = [verdict EXCEPT ![batch[1]] = "error"] /\ embeddings' = embeddings
    BY <1>1, <1>4 DEF TxFollowsPc, Apply
  <2>. QED  BY <1>1, <1>2, <1>4, <2>1, WorkerAssumption DEF TypeOK, RowsAgree
<1>. QED  BY <1>3, <1>4

\* A commit gives the session at hand its verdict, and the batch goes on.
LEMMA CommitStep ==
    ASSUME Inv, Commit \/ MarkCommit
    PROVE  Inv'
<1>. USE DEF Inv
<1>1. /\ pc \in {"commit", "markcommit"} /\ conn = "open" /\ Apply /\ NextSession
      /\ UNCHANGED <<aborted, conn, stop, faults, failed>> /\ pc \in Busy
  BY DEF Commit, MarkCommit, Busy
<1>2. /\ batch[1] \in saved /\ verdict[batch[1]] = Null
      /\ saved' = saved /\ tx' = {} /\ embeddings' \subseteq saved' /\ RowsAgree'
      /\ verdict' \in [Sessions -> {Null, "enriched", "error"}]
      /\ \A s \in Sessions : s # batch[1] => verdict'[s] = verdict[s]
      /\ pc = "commit" => verdict'[batch[1]] = "enriched"
  BY <1>1, ApplyStep
<1>3. /\ batch' \in Seq(saved') /\ Len(batch') <= BatchSize
      /\ pc' \in {"fetch", "enrich"} /\ (pc' \in Busy <=> batch' # <<>>)
      /\ \A i, k \in 1 .. Len(batch') : batch'[i] = batch'[k] => i = k
      /\ \A i \in 1 .. Len(batch') :
             batch'[i] \in Sessions /\ batch'[i] # batch[1] /\ verdict[batch'[i]] = Null
  BY <1>1, <1>2, NextSessionStep
<1>4. TypeOK'
  BY <1>1, <1>2, <1>3 DEF TypeOK
<1>5. \A i \in 1 .. Len(batch') : verdict'[batch'[i]] = Null
  BY <1>2, <1>3
<1>6. BatchIsPending' /\ CurrentIsPending'
  <2>1. batch' # <<>> => 1 \in 1 .. Len(batch')
    BY <1>3
  <2>2. \A i \in 2 .. Len(batch') : i \in 1 .. Len(batch')
    BY <1>3
  <2>. QED  BY <1>3, <1>5, <2>1, <2>2 DEF BatchIsPending, CurrentIsPending
<1>7. TxFollowsPc' /\ AbortedFollowsPc' /\ ~Looming'
  BY <1>1, <1>2, <1>3 DEF TxFollowsPc, AbortedFollowsPc, Looming
<1>8. /\ Innocent' \subseteq Innocent \cup {batch[1]}
      /\ pc = "commit" \/ batch[1] \in failed => Innocent' \subseteq Innocent
  BY <1>1, <1>2 DEF Innocent
<1>9. EachCostAFault'
  <2>1. CASE pc = "commit" \/ batch[1] \in failed
    BY <2>1, <1>1, <1>7, <1>8, InnocentCount, WorkerAssumption DEF EachCostAFault, TypeOK
  <2>2. CASE pc = "markcommit" /\ batch[1] \notin failed
    <3>1. Looming
      BY <2>2, <1>1 DEF Looming
    <3>2. /\ Cardinality(Innocent) \in Nat /\ Cardinality(Innocent') \in Nat
          /\ Cardinality(Innocent') <= Cardinality(Innocent) + 1
      BY <1>8, InnocentCount
    <3>3. Cardinality(Innocent) + 1 <= MaxFaults - faults /\ faults' = faults
      BY <3>1, <1>1 DEF EachCostAFault
    <3>4. faults \in Int /\ MaxFaults \in Int
      BY WorkerAssumption DEF TypeOK
    <3>. QED  BY <3>2, <3>3, <3>4, <1>7 DEF EachCostAFault
  <2>. QED  BY <2>1, <2>2, <1>1
<1>. QED  BY <1>2, <1>4, <1>6, <1>7, <1>9

\* A commit whose answer is lost has done the same, and the connection is gone.
LEMMA CommitUnansweredStep ==
    ASSUME Inv, CommitUnanswered
    PROVE  Inv'
<1>. USE DEF Inv
<1>1. /\ pc \in {"commit", "markcommit"} /\ conn = "open" /\ Apply /\ conn' = "lost" /\ pc \in Busy
      /\ UNCHANGED <<aborted, stop, failed>> /\ faults > 0 /\ faults' = faults - 1
      /\ IF pc = "commit" THEN pc' = "rollback" /\ batch' = batch ELSE NextSession
  BY DEF CommitUnanswered, Busy, Fault
<1>2. /\ batch # <<>> /\ batch[1] \in saved /\ verdict[batch[1]] = Null
      /\ saved' = saved /\ tx' = {} /\ embeddings' \subseteq saved' /\ RowsAgree'
      /\ verdict' \in [Sessions -> {Null, "enriched", "error"}]
      /\ \A s \in Sessions : s # batch[1] => verdict'[s] = verdict[s]
  BY <1>1, ApplyStep
<1>3. /\ batch' \in Seq(saved') /\ Len(batch') <= BatchSize /\ pc' \in {"fetch", "enrich", "rollback"}
      /\ (pc' \in Busy <=> batch' # <<>>)
      /\ \A i, k \in 1 .. Len(batch') : batch'[i] = batch'[k] => i = k
      /\ \A i \in 1 .. Len(batch') : batch'[i] \in Sessions
      /\ \A i \in 2 .. Len(batch') : batch'[i] # batch[1] /\ verdict[batch'[i]] = Null
      /\ pc' # "rollback" /\ batch' # <<>> => batch'[1] # batch[1] /\ verdict[batch'[1]] = Null
  <2>1. CASE pc = "commit"
    BY <2>1, <1>1, <1>2 DEF TypeOK, BatchIsPending, Busy
  <2>2. CASE pc = "markcommit"
    <3>1. /\ batch' \in Seq(saved') /\ Len(batch') <= BatchSize
          /\ pc' \in {"fetch", "enrich"} /\ (pc' \in Busy <=> batch' # <<>>)
          /\ \A i, k \in 1 .. Len(batch') : batch'[i] = batch'[k] => i = k
          /\ \A i \in 1 .. Len(batch') :
                 batch'[i] \in Sessions /\ batch'[i] # batch[1] /\ verdict[batch'[i]] = Null
      BY <2>2, <1>1, <1>2, NextSessionStep
    <3>2. batch' # <<>> => 1 \in 1 .. Len(batch')
      BY <3>1
    <3>3. \A i \in 2 .. Len(batch') : i \in 1 .. Len(batch')
      BY <3>1
    <3>. QED  BY <3>1, <3>2, <3>3
  <2>. QED  BY <2>1, <2>2, <1>1
<1>4. TypeOK'
  <2>1. faults' \in 0 .. MaxFaults
    BY <1>1, WorkerAssumption DEF TypeOK
  <2>. QED  BY <2>1, <1>1, <1>2, <1>3 DEF TypeOK
<1>5. /\ \A i \in 2 .. Len(batch') : verdict'[batch'[i]] = Null
      /\ pc' # "rollback" /\ batch' # <<>> => verdict'[batch'[1]] = Null
  <2>1. \A i \in 2 .. Len(batch') : i \in 1 .. Len(batch')
    BY <1>3
  <2>2. batch' # <<>> => 1 \in 1 .. Len(batch')
    BY <1>3
  <2>. QED  BY <2>1, <2>2, <1>2, <1>3
<1>6. BatchIsPending' /\ CurrentIsPending'
  BY <1>1, <1>3, <1>5 DEF BatchIsPending, CurrentIsPending
<1>7. TxFollowsPc' /\ AbortedFollowsPc' /\ ~Looming'
  BY <1>1, <1>2, <1>3 DEF TxFollowsPc, AbortedFollowsPc, Looming
<1>8. Innocent' \subseteq Innocent \cup {batch[1]}
  BY <1>1, <1>2 DEF Innocent
<1>9. EachCostAFault'
  <2>1. /\ Cardinality(Innocent) \in Nat /\ Cardinality(Innocent') \in Nat
        /\ Cardinality(Innocent') <= Cardinality(Innocent) + 1
    BY <1>8, InnocentCount
  <2>2. faults \in Int /\ MaxFaults \in Int
    BY WorkerAssumption DEF TypeOK
  <2>3. Cardinality(Innocent) <= MaxFaults - faults
    BY <2>1, <2>2 DEF EachCostAFault
  <2>. QED  BY <2>1, <2>2, <2>3, <1>1, <1>7 DEF EachCostAFault
<1>. QED  BY <1>2, <1>4, <1>6, <1>7, <1>9

\* A session whose write raises is not innocent either, and has cost a fault.
LEMMA WriteRaisesStep ==
    ASSUME Inv, WriteRaises
    PROVE  Inv'
<1>. USE DEF Inv
<1>0. batch # <<>> /\ Current = batch[1] /\ batch[1] \in saved
  BY RestOfBatch DEF TypeOK, BatchIsPending, Busy, Current, WriteRaises
<1>1. TypeOK'
  <2>1. /\ saved' \subseteq Sessions /\ embeddings' \subseteq saved' /\ failed' \subseteq saved'
        /\ verdict' \in [Sessions -> {Null, "enriched", "error"}]
    BY <1>0 DEF TypeOK, WriteRaises, Fault, table
  <2>2. /\ tx' \subseteq {"verdict", "embedding", "error"} /\ aborted' \in BOOLEAN
        /\ stop' \in BOOLEAN /\ conn' \in {"open", "lost"}
    BY DEF TypeOK, WriteRaises, Fault, table
  <2>3. /\ batch' \in Seq(saved') /\ Len(batch') <= BatchSize /\ faults' \in 0 .. MaxFaults
    BY WorkerAssumption DEF TypeOK, WriteRaises, Fault, table
  <2>. QED  BY <2>1, <2>2, <2>3 DEF TypeOK, WriteRaises, Fault, table
<1>2. RowsAgree' /\ BatchIsPending'
  BY DEF TypeOK, RowsAgree, BatchIsPending, Busy, WriteRaises, Fault, Current, table
<1>3. CurrentIsPending'
  BY DEF BatchIsPending, CurrentIsPending, AbortedFollowsPc, Busy, WriteRaises, Fault, Current, table
<1>4. TxFollowsPc' /\ AbortedFollowsPc'
  BY DEF TypeOK, TxFollowsPc, AbortedFollowsPc, WriteRaises, Fault, Current, table
<1>5. Innocent' \subseteq Innocent
  BY DEF Innocent, WriteRaises, Fault, Current, table
<1>6. EachCostAFault'
  BY <1>5, InnocentCount, WorkerAssumption DEF EachCostAFault, TypeOK, WriteRaises, Fault, Current, table
<1>. QED  BY <1>1, <1>2, <1>3, <1>4, <1>6

\* Refused is what was aborted before, or has lost its connection.
LEMMA WriteRefusedStep ==
    ASSUME Inv, WriteRefused
    PROVE  Inv'
<1>. USE DEF Inv
<1>1. TypeOK'
  BY WorkerAssumption DEF TypeOK, WriteRefused, table, link
<1>2. RowsAgree' /\ BatchIsPending'
  BY DEF TypeOK, RowsAgree, BatchIsPending, Busy, WriteRefused, table, link
<1>3. CurrentIsPending'
  BY DEF BatchIsPending, CurrentIsPending, AbortedFollowsPc, Busy, WriteRefused, table, link
<1>4. TxFollowsPc' /\ AbortedFollowsPc'
  BY DEF TypeOK, TxFollowsPc, AbortedFollowsPc, WriteRefused, table, link
<1>5. Innocent' \subseteq Innocent /\ (Looming' => Looming)
  BY DEF Innocent, Looming, AbortedFollowsPc, WriteRefused, table, link
<1>6. EachCostAFault'
  BY <1>5, InnocentCount, WorkerAssumption DEF EachCostAFault, TypeOK, WriteRefused, table, link
<1>. QED  BY <1>1, <1>2, <1>3, <1>4, <1>6

\* The handler rolls back before it marks.
LEMMA RollbackStep ==
    ASSUME Inv, Rollback
    PROVE  Inv'
<1>. USE DEF Inv
<1>1. TypeOK'
  BY WorkerAssumption DEF TypeOK, Rollback, table
<1>2. RowsAgree' /\ BatchIsPending'
  BY DEF TypeOK, RowsAgree, BatchIsPending, Busy, Rollback, table
<1>3. CurrentIsPending'
  BY DEF BatchIsPending, CurrentIsPending, AbortedFollowsPc, Busy, Rollback, table
<1>4. TxFollowsPc' /\ AbortedFollowsPc'
  BY DEF TypeOK, TxFollowsPc, AbortedFollowsPc, Rollback, table
<1>5. Innocent' \subseteq Innocent /\ (Looming' => Looming)
  BY DEF Innocent, Looming, AbortedFollowsPc, Rollback, table
<1>6. EachCostAFault'
  BY <1>5, InnocentCount, WorkerAssumption DEF EachCostAFault, TypeOK, Rollback, table
<1>. QED  BY <1>1, <1>2, <1>3, <1>4, <1>6

\* The mark is uncommitted.
LEMMA MarkFailedStep ==
    ASSUME Inv, MarkFailed
    PROVE  Inv'
<1>. USE DEF Inv
<1>1. TypeOK'
  BY WorkerAssumption DEF TypeOK, MarkFailed, table
<1>2. RowsAgree' /\ BatchIsPending'
  BY DEF TypeOK, RowsAgree, BatchIsPending, Busy, MarkFailed, table
<1>3. CurrentIsPending'
  BY DEF BatchIsPending, CurrentIsPending, AbortedFollowsPc, Busy, MarkFailed, table
<1>4. TxFollowsPc' /\ AbortedFollowsPc'
  BY DEF TypeOK, TxFollowsPc, AbortedFollowsPc, MarkFailed, table
<1>5. Innocent' \subseteq Innocent /\ (Looming' => Looming)
  BY DEF Innocent, Looming, AbortedFollowsPc, MarkFailed, table
<1>6. EachCostAFault'
  BY <1>5, InnocentCount, WorkerAssumption DEF EachCostAFault, TypeOK, MarkFailed, table
<1>. QED  BY <1>1, <1>2, <1>3, <1>4, <1>6

\* A mark that fails marks nobody, and has cost a fault if it aborts what the
\* next session needs.
LEMMA MarkRaisesStep ==
    ASSUME Inv, MarkRaises
    PROVE  Inv'
<1>. USE DEF Inv
<1>1. /\ pc \in {"mark", "markcommit"} /\ pc \in Busy /\ tx' = {} /\ NextSession
      /\ UNCHANGED <<table, conn, stop, failed>>
      /\ \/ conn = "lost" /\ UNCHANGED <<aborted, faults>>
         \/ conn = "open" /\ faults > 0 /\ faults' = faults - 1 /\ aborted' = (pc = "mark")
  BY DEF MarkRaises, Fault, Busy
<1>2. /\ batch' \in Seq(saved') /\ Len(batch') <= BatchSize
      /\ pc' \in {"fetch", "enrich"} /\ (pc' \in Busy <=> batch' # <<>>)
      /\ \A i, k \in 1 .. Len(batch') : batch'[i] = batch'[k] => i = k
      /\ \A i \in 1 .. Len(batch') : verdict[batch'[i]] = Null
  BY <1>1, NextSessionStep DEF table
<1>3. TypeOK'
  <2>1. faults' \in 0 .. MaxFaults
    BY <1>1, WorkerAssumption DEF TypeOK
  <2>2. aborted' \in BOOLEAN
    <3>1. aborted \in BOOLEAN /\ (pc = "mark") \in BOOLEAN
      BY DEF TypeOK
    <3>. QED  BY <3>1, <1>1, Zenon
  <2>. QED  BY <2>1, <2>2, <1>1, <1>2 DEF TypeOK, table
<1>4. RowsAgree' /\ BatchIsPending' /\ CurrentIsPending'
  <2>1. batch' # <<>> => 1 \in 1 .. Len(batch')
    BY <1>2
  <2>2. \A i \in 2 .. Len(batch') : i \in 1 .. Len(batch')
    BY <1>2
  <2>. QED  BY <1>1, <1>2, <2>1, <2>2 DEF RowsAgree, BatchIsPending, CurrentIsPending, table
<1>5. TxFollowsPc' /\ AbortedFollowsPc'
  BY <1>1, <1>2 DEF TypeOK, TxFollowsPc, AbortedFollowsPc
<1>6. Innocent' = Innocent /\ (conn = "lost" => ~Looming')
  BY <1>1 DEF Innocent, Looming, table
<1>7. EachCostAFault'
  BY <1>1, <1>6, InnocentCount, WorkerAssumption DEF EachCostAFault, TypeOK
<1>. QED  BY <1>3, <1>4, <1>5, <1>7

-----------------------------------------------------------------------------
(* The invariant *)

\* Every step of the worker, of the database and of the sensors keeps it.
LEMMA Step == ASSUME Inv, [Next]_vars PROVE Inv'
<1>1. CASE Worker
  <2>1. CASE Start \/ Wake
    BY <2>1, StartStep, WakeStep
  <2>2. CASE StopRequested \/ FetchRaises \/ OnceDone \/ RollbackRaises
    <3>1. Exits /\ faults' = faults
      BY <2>2 DEF StopRequested, FetchRaises, OnceDone, RollbackRaises
    <3>2. faults' \in 0 .. faults
      BY <3>1 DEF Inv, TypeOK
    <3>. QED  BY <3>1, <3>2, ExitStep
  <2>3. CASE FetchPending
    BY <2>3, FetchPendingStep
  <2>4. CASE Enriched \/ EnrichRaises \/ UpdateSession \/ InsertEmbedding \/ WriteRefused
    BY <2>4, EnrichedStep, EnrichRaisesStep, UpdateSessionStep, InsertEmbeddingStep, WriteRefusedStep
  <2>5. CASE Rollback \/ MarkFailed \/ MarkRaises
    BY <2>5, RollbackStep, MarkFailedStep, MarkRaisesStep
  <2>6. CASE Commit \/ MarkCommit
    BY <2>6, CommitStep
  <2>. QED  BY <1>1, <2>1, <2>2, <2>3, <2>4, <2>5, <2>6 DEF Worker, Batch, Loop
<1>2. CASE Faults
  <2>1. CASE Crash
    <3>1. Exits /\ faults > 0 /\ faults' = faults - 1
      BY <2>1 DEF Crash, Fault
    <3>2. faults' \in 0 .. faults
      BY <3>1 DEF Inv, TypeOK
    <3>. QED  BY <3>1, <3>2, ExitStep
  <2>2. CASE ConnectionLost \/ Signal \/ WriteRaises \/ CommitUnanswered \/ MarkRaises
    BY <2>2, ConnectionLostStep, SignalStep, WriteRaisesStep, CommitUnansweredStep, MarkRaisesStep
  <2>. QED  BY <1>2, <2>1, <2>2 DEF Faults
<1>3. CASE \E s \in Sessions : SaveSession(s)
  BY <1>3, SaveSessionStep
<1>4. CASE UNCHANGED vars
  <2>1. /\ TypeOK' /\ RowsAgree' /\ BatchIsPending' /\ CurrentIsPending'
    BY <1>4 DEF Inv, TypeOK, RowsAgree, BatchIsPending, CurrentIsPending, vars, table, link
  <2>2. /\ TxFollowsPc' /\ AbortedFollowsPc'
    BY <1>4 DEF Inv, TxFollowsPc, AbortedFollowsPc, vars, table, link
  <2>3. EachCostAFault'
    BY <1>4 DEF Inv, EachCostAFault, Innocent, Looming, vars, table, link
  <2>. QED  BY <2>1, <2>2, <2>3 DEF Inv
<1>. QED  BY <1>1, <1>2, <1>3, <1>4 DEF Next

\* It holds of empty tables and a worker that is not running.
LEMMA InitStep == Init => Inv
<1>. SUFFICES ASSUME Init PROVE Inv
  OBVIOUS
<1>1. TypeOK
  <2>1. <<>> \in Seq({}) /\ Len(<<>>) = 0
    OBVIOUS
  <2>2. 0 <= BatchSize /\ MaxFaults \in 0 .. MaxFaults
    BY WorkerAssumption
  <2>3. [s \in Sessions |-> Null] \in [Sessions -> {Null, "enriched", "error"}]
    OBVIOUS
  <2>. QED  BY <2>1, <2>2, <2>3 DEF Init, TypeOK
<1>2. BatchIsPending /\ CurrentIsPending /\ TxFollowsPc /\ AbortedFollowsPc
  BY DEF Init, BatchIsPending, CurrentIsPending, TxFollowsPc, AbortedFollowsPc, Busy
<1>3. Innocent = {} /\ ~Looming
  BY WorkerAssumption DEF Init, Innocent, Looming
<1>4. RowsAgree
  BY WorkerAssumption DEF Init, RowsAgree
<1>5. EachCostAFault
  BY <1>3, FS_EmptySet, WorkerAssumption DEF EachCostAFault, Init
<1>. QED  BY <1>1, <1>2, <1>4, <1>5 DEF Inv

\* So it holds throughout.
LEMMA Invariance == Spec => []Inv
BY InitStep, Step, PTL DEF Spec

\* For any sessions, batch size and number of faults: a session has its verdict
\* and its embedding row or neither, and one that failed costs at most one other
\* session per fault.
THEOREM VerdictsAreSound == Spec => []VerdictsSound
<1>1. Inv => VerdictsSound
  <2>. SUFFICES ASSUME Inv PROVE PoisonIsContained
    BY DEF Inv, VerdictsSound
  <2>. QED  BY InnocentCount, WorkerAssumption DEF Inv, EachCostAFault, PoisonIsContained, Innocent, TypeOK
<1>. QED  BY <1>1, Invariance, PTL

\* A verdict once given stays: whatever is retried after a crash or a lost answer.
THEOREM VerdictsAreFinal == Spec => VerdictIsFinal
<1>1. ASSUME Inv, [Next]_vars
      PROVE  \A s \in Sessions : verdict[s] # Null => verdict'[s] = verdict[s]
  <2>1. CASE Commit \/ MarkCommit \/ CommitUnanswered
    <3>1. pc \in {"commit", "markcommit"} /\ conn = "open" /\ Apply
      BY <2>1 DEF Commit, MarkCommit, CommitUnanswered
    <3>. QED  BY <1>1, <3>1, ApplyStep
  <2>2. CASE ~(Commit \/ MarkCommit \/ CommitUnanswered)
    <3>1. verdict' = verdict
      BY <1>1, <2>2 DEF Next, Worker, Faults, Batch, Loop, vars, table, link, SaveSession, ConnectionLost,
         Signal, Crash, Exits, Start, StopRequested, FetchPending, FetchRaises, Wake, OnceDone, Enriched,
         EnrichRaises, UpdateSession, InsertEmbedding, WriteRaises, WriteRefused, Rollback, RollbackRaises,
         MarkFailed, MarkRaises
    <3>. QED  BY <3>1
  <2>. QED  BY <2>1, <2>2
<1>. QED  BY <1>1, Invariance, PTL DEF Spec, VerdictIsFinal

-----------------------------------------------------------------------------
(* The enrichment of a session *)

Artifacts == {"none", "torn", "one", "two"}
Loadables == {"none", "one", "two"}

\* What is on disk and in memory: nothing torn is loaded.
ArtifactsTyped ==
    /\ disk.ckpt \in Artifacts /\ disk.vocab \in Artifacts /\ disk.config \in Artifacts
    /\ DOMAIN disk = {"vocab", "config", "ckpt", "classifier", "centroids"}
    /\ writing \in Seq({"vocab", "config", "ckpt"})
    /\ DOMAIN mem = {"model", "vocab", "config", "classifier", "centroids", "device"}
    /\ mem.model \in Loadables /\ mem.vocab \in Loadables /\ mem.config \in Loadables
    /\ mem.classifier # "bad" /\ mem.centroids # "bad"

\* What the loading has got to: the model first, then the settings, then the words.
LoadedSoFar ==
    /\ stage \in {"boot", "config", "vocab", "classifier", "centroids", "ready"}
    /\ stage = "boot" => mem.model = "none" /\ mem.vocab = "none" /\ mem.config = "none"
    /\ stage = "config" => mem.model # "none" /\ mem.vocab = "none" /\ mem.config = "none"
    /\ stage = "vocab" => mem.model # "none" /\ mem.vocab = "none" /\ mem.config # "none"
    /\ ModelIsWhole

\* What the last document gave.
ResultSound ==
    /\ at \in 1 .. Len(Docs) + 1
    /\ result.state \in {"none", "enriched", "raised"}
    /\ result.state # "none" => stage = "ready"
    /\ EmbeddingAgrees /\ RaisesOnlyOnMismatch /\ AnnotationsFollow /\ BaitIsSevere /\ SummaryIsBounded

EnrichInv == ArtifactsTyped /\ LoadedSoFar /\ ResultSound

-----------------------------------------------------------------------------
(* Sorting and encoding *)

\* In a strict total order of a finite set, every number below its size is the number of
\* predecessors of some element.
Ordering(S, pred) ==
    /\ pred \in [S -> SUBSET S]
    /\ \A x \in S : x \notin pred[x]
    /\ \A x, y \in S : y \in pred[x] => pred[y] \subseteq pred[x]
    /\ \A x, y \in S : x # y => x \in pred[y] \/ y \in pred[x]

LEMMA RanksAreTaken ==
    ASSUME NEW S, IsFiniteSet(S), NEW pred, Ordering(S, pred), NEW m \in 1 .. Cardinality(S)
    PROVE  \E x \in S : Cardinality(pred[x]) = m - 1
  <1> USE DEF Ordering
  <1>1. PICK k \in Nat : k = Cardinality(S)
    BY FS_CardinalityType
  <1>2. ASSUME NEW x \in S
        PROVE  IsFiniteSet(pred[x]) /\ Cardinality(pred[x]) \in Nat /\ Cardinality(pred[x]) < k
    <2>1. pred[x] \in SUBSET S /\ pred[x] # S
      OBVIOUS
    <2>2. IsFiniteSet(pred[x]) /\ Cardinality(pred[x]) <= k /\ Cardinality(pred[x]) # k
      BY <1>1, <2>1, FS_Subset
    <2>3. Cardinality(pred[x]) \in Nat
      BY <2>2, FS_CardinalityType
    <2> QED BY <2>2, <2>3
  <1>3. ASSUME NEW x \in S, NEW y \in S, x \in pred[y] PROVE Cardinality(pred[x]) < Cardinality(pred[y])
    <2>1. pred[x] \in SUBSET pred[y] /\ pred[x] # pred[y]
      BY <1>3
    <2>2. Cardinality(pred[x]) <= Cardinality(pred[y]) /\ Cardinality(pred[x]) # Cardinality(pred[y])
      BY <1>2, <2>1, FS_Subset
    <2> QED BY <1>2, <2>2
  <1> SUFFICES ASSUME \A x \in S : Cardinality(pred[x]) # m - 1 PROVE FALSE
    OBVIOUS
  <1> DEFINE U == 1 .. k
             T == U \ {m}
             rank == [x \in S |-> Cardinality(pred[x]) + 1]
  <1>4. IsFiniteSet(U) /\ Cardinality(U) = k /\ m \in U
    BY <1>1, FS_Interval
  <1>5. IsFiniteSet(T) /\ Cardinality(T) = k - 1
    <2> HIDE DEF U
    <2> QED BY <1>4, FS_RemoveElement
  <1>6. rank \in [S -> T]
    <2>1. ASSUME NEW x \in S PROVE Cardinality(pred[x]) + 1 \in T
      <3>1. Cardinality(pred[x]) \in Nat /\ Cardinality(pred[x]) < k /\ Cardinality(pred[x]) # m - 1
        BY <1>2
      <3>2. PICK c \in Nat : c = Cardinality(pred[x])
        BY <3>1
      <3> QED BY <3>1, <3>2
    <2> HIDE DEF T
    <2> QED BY <2>1
  <1>7. PICK x \in S, y \in S : x # y /\ rank[x] = rank[y]
    <2>1. Cardinality(T) < Cardinality(S)
      BY <1>1, <1>5
    <2> HIDE DEF rank, T
    <2> QED BY <1>5, <1>6, <2>1, FS_PigeonHole
  <1>8. Cardinality(pred[x]) = Cardinality(pred[y])
    <2>1. Cardinality(pred[x]) + 1 = Cardinality(pred[y]) + 1
      BY <1>7
    <2> QED BY <1>2, <2>1
  <1> QED BY <1>2, <1>3, <1>7, <1>8

\* The order of the offsets holds positions only.
LEMMA ByOffsetIs ==
    ASSUME NEW n \in Nat, NEW offs \in [1 .. n -> Int]
    PROVE  ByOffset(offs) \in [1 .. n -> 1 .. n]
  <1> DEFINE S == 1 .. n
             pred == [i \in S |-> Before(offs, i)]
  <1>1. IsFiniteSet(S) /\ Cardinality(S) = n
    BY FS_Interval
  <1>2. pred \in [S -> SUBSET S] /\ DOMAIN offs = S
    BY DEF Before
  <1>3. \A x \in S : x \notin pred[x]
    BY DEF Before
  <1>4. \A x, y \in S : y \in pred[x] => pred[y] \subseteq pred[x]
    <2> SUFFICES ASSUME NEW x \in S, NEW y \in S, y \in pred[x], NEW z \in pred[y] PROVE z \in pred[x]
      OBVIOUS
    <2>1. z \in S /\ offs[x] \in Int /\ offs[y] \in Int /\ offs[z] \in Int
      BY <1>2
    <2>2. offs[y] < offs[x] \/ (offs[y] = offs[x] /\ y < x)
      BY DEF Before
    <2>3. offs[z] < offs[y] \/ (offs[z] = offs[y] /\ z < y)
      BY DEF Before
    <2>4. offs[z] < offs[x] \/ (offs[z] = offs[x] /\ z < x)
      BY <2>1, <2>2, <2>3
    <2> QED BY <2>1, <2>4 DEF Before
  <1>5. \A x, y \in S : x # y => x \in pred[y] \/ y \in pred[x]
    <2> SUFFICES ASSUME NEW x \in S, NEW y \in S, x # y PROVE x \in pred[y] \/ y \in pred[x]
      OBVIOUS
    <2>1. offs[x] \in Int /\ offs[y] \in Int
      OBVIOUS
    <2>2. offs[x] < offs[y] \/ offs[y] < offs[x] \/ (offs[x] = offs[y] /\ (x < y \/ y < x))
      BY <2>1
    <2> QED BY <2>2 DEF Before
  <1>6. ASSUME NEW m \in S PROVE (CHOOSE i \in S : Cardinality(Before(offs, i)) = m - 1) \in S
    <2>1. \E i \in S : Cardinality(pred[i]) = m - 1
      <3>1. m \in 1 .. Cardinality(S)
        BY <1>1
      <3> HIDE DEF S, pred
      <3>2. Ordering(S, pred)
        BY <1>2, <1>3, <1>4, <1>5 DEF Ordering
      <3> QED BY <1>1, <3>1, <3>2, RanksAreTaken
    <2> QED BY <2>1
  <1> QED BY <1>2, <1>6 DEF ByOffset

LEMMA MaxOfTwo == ASSUME NEW x \in Int PROVE Max({0, x}) \in Int
  <1>1. \E y \in {0, x} : \A z \in {0, x} : y >= z
    <2>1. CASE x >= 0
      BY <2>1
    <2>2. CASE ~(x >= 0)
      BY <2>2
    <2> QED BY <2>1, <2>2
  <1>2. Max({0, x}) \in {0, x}
    BY <1>1 DEF Max
  <1> QED BY <1>2

\* What a parsed document has of the document.
ParsedFrom(doc, p) ==
    /\ p.session.banner = Blank /\ p.session.auth = <<>>
    /\ p.session.cmds \in [1 .. Len(doc.cmds) -> Range(p.session.cmds)]
    /\ DOMAIN p.cwds = 1 .. Len(doc.cmds) /\ Len(p.cwds) = Len(doc.cmds)
    /\ \A i \in 1 .. Len(doc.cmds) : \E k \in 1 .. Len(doc.cmds) :
          /\ doc.cmds[k].cwd = p.cwds[i] /\ Text(doc.cmds[k]) = p.session.cmds[i].raw
          /\ Max({0, doc.cmds[k].ts - doc.start}) = p.session.cmds[i].off
    /\ p.escalation = Max({0} \cup {doc.bait[i] : i \in DOMAIN doc.bait})

LEMMA ParseIs == ASSUME NEW n \in DOMAIN Docs PROVE ParsedFrom(Docs[n], Parse(Docs[n]))
  <1>1. PICK doc : doc = Docs[n]
    OBVIOUS
  <1>2. /\ doc.start \in Int /\ doc.cmds \in Seq(Range(doc.cmds)) /\ \A i \in DOMAIN doc.cmds : doc.cmds[i].ts \in Int
    BY <1>1, EnrichmentAssumption
  <1>3. PICK k \in Nat : k = Len(doc.cmds) /\ DOMAIN doc.cmds = 1 .. k
    BY <1>2
  <1> DEFINE offs == [i \in DOMAIN doc.cmds |-> Max({0, doc.cmds[i].ts - doc.start})]
             order == ByOffset(offs)
             cmd == [i \in DOMAIN doc.cmds |-> [raw |-> Text(doc.cmds[i]), off |-> offs[i]]]
             cwd == [i \in DOMAIN doc.cmds |-> doc.cmds[i].cwd]
             p == Parse(doc)
  <1>4. offs \in [1 .. k -> Int]
    <2>1. ASSUME NEW i \in 1 .. k PROVE Max({0, doc.cmds[i].ts - doc.start}) \in Int
      <3>1. doc.cmds[i].ts - doc.start \in Int
        BY <1>2, <1>3
      <3> QED BY <3>1, MaxOfTwo
    <2> QED BY <1>3, <2>1
  <1>5. order \in [1 .. k -> 1 .. k]
    <2> HIDE DEF offs
    <2> QED BY <1>4, ByOffsetIs
  <1>6. /\ p.session.cmds = [i \in DOMAIN order |-> cmd[order[i]]] /\ p.session.banner = Blank /\ p.session.auth = <<>>
        /\ p.cwds = [i \in DOMAIN order |-> cwd[order[i]]]
        /\ p.escalation = Max({0} \cup {doc.bait[i] : i \in DOMAIN doc.bait})
    BY DEF Parse, Following
  <1>7. \A i \in 1 .. k : cmd[i].raw = Text(doc.cmds[i]) /\ cmd[i].off = Max({0, doc.cmds[i].ts - doc.start})
                          /\ cwd[i] = doc.cmds[i].cwd
    BY <1>3
  <1> HIDE DEF order, cmd, cwd, p
  <1>8. DOMAIN p.session.cmds = 1 .. k /\ \A i \in 1 .. k : p.session.cmds[i] = cmd[order[i]]
    BY <1>5, <1>6
  <1>9. DOMAIN p.cwds = 1 .. k /\ Len(p.cwds) = k /\ \A i \in 1 .. k : p.cwds[i] = cwd[order[i]]
    <2>1. DOMAIN p.cwds = 1 .. k /\ \A i \in 1 .. k : p.cwds[i] = cwd[order[i]]
      BY <1>5, <1>6
    <2>2. p.cwds \in [1 .. k -> {cwd[i] : i \in 1 .. k}]
      BY <1>5, <1>6
    <2> QED BY <2>1, <2>2
  <1>10. ASSUME NEW i \in 1 .. k
         PROVE \E j \in 1 .. k :
          /\ doc.cmds[j].cwd = p.cwds[i] /\ Text(doc.cmds[j]) = p.session.cmds[i].raw
          /\ Max({0, doc.cmds[j].ts - doc.start}) = p.session.cmds[i].off
    <2>1. PICK j \in 1 .. k : j = order[i]
      BY <1>5
    <2>2. p.session.cmds[i] = cmd[j] /\ p.cwds[i] = cwd[j]
      BY <1>8, <1>9, <2>1
    <2>3. cmd[j].raw = Text(doc.cmds[j]) /\ cmd[j].off = Max({0, doc.cmds[j].ts - doc.start}) /\ cwd[j] = doc.cmds[j].cwd
      BY <1>7
    <2>4. /\ doc.cmds[j].cwd = p.cwds[i] /\ Text(doc.cmds[j]) = p.session.cmds[i].raw
          /\ Max({0, doc.cmds[j].ts - doc.start}) = p.session.cmds[i].off
      BY <2>2, <2>3
    <2> QED BY <2>4
  <1>11. p.session.cmds \in [1 .. k -> Range(p.session.cmds)]
    BY <1>5, <1>6 DEF Range
  <1>12. ParsedFrom(doc, p)
    BY <1>3, <1>6, <1>8, <1>9, <1>10, <1>11 DEF ParsedFrom
  <1> QED BY <1>1, <1>12 DEF p

\* An id of the vocabulary.
LEMMA IdIs ==
    ASSUME NEW tk, tk.vocab \in Seq(Range(tk.vocab)), Len(tk.vocab) >= 5, NEW line
    PROVE  EncodeCommand(tk, line) \in 0 .. Len(tk.vocab) - 1
  <1>1. Len(tk.vocab) \in Nat /\ DOMAIN tk.vocab = 1 .. Len(tk.vocab)
    OBVIOUS
  <1>2. ASSUME NEW t PROVE IdOf(tk, t) \in 0 .. Len(tk.vocab) - 1
    <2>1. CASE t \in Range(tk.vocab)
      <3>1. \E i \in DOMAIN tk.vocab : tk.vocab[i] = t
        BY <2>1 DEF Range
      <3>2. (CHOOSE i \in DOMAIN tk.vocab : tk.vocab[i] = t) \in 1 .. Len(tk.vocab)
        BY <1>1, <3>1
      <3> QED BY <1>1, <2>1, <3>2 DEF IdOf
    <2>2. CASE t \notin Range(tk.vocab)
      BY <1>1, <2>2 DEF IdOf, OovId
    <2> QED BY <2>1, <2>2
  <1> QED BY <1>1, <1>2 DEF EncodeCommand, OovId

\* The model and the tokenizer of one training run embed every session of the worker's.
LEMMA SameRunEmbeds ==
    ASSUME mem.model \in {"one", "two"}, mem.vocab = mem.model, mem.config = mem.model,
           NEW s, NEW k \in Nat, s.banner = Blank, s.auth = <<>>,
           s.cmds \in [1 .. k -> Range(s.cmds)]
    PROVE  Embeds(s)
  <1>1. PICK V : V = Tokenizers[mem.model].vocab
    OBVIOUS
  <1>2. PICK v \in Nat : v = Len(V) /\ v >= 5 /\ V \in Seq(Range(V))
    <2>1. V \in Seq(Range(V)) /\ Len(V) >= Len(Specials)
      BY <1>1, EnrichmentAssumption
    <2>2. Len(Specials) = 5
      BY DEF Specials
    <2> QED BY <2>1, <2>2
  <1>3. PICK tk : tk = Loaded
    OBVIOUS
  <1>4. tk.vocab = V
    BY <1>1, <1>3, EnrichmentAssumption DEF Loaded
  <1> DEFINE Ids == 0 .. v - 1
             n == Limit(s, BridgeLength)
             dur == IF tk.meta THEN <<DurId>> ELSE <<>>
             extra == IF tk.meta THEN [i \in DOMAIN MetaTokens(s) |-> IdOf(tk, MetaTokens(s)[i])] ELSE <<>>
             cmds == [i \in 1 .. n |-> EncodeCommand(tk, s.cmds[i].raw)]
             ids == Encode(tk, s, BridgeLength).ids
  <1>5. ids = <<BosId>> \o dur \o extra \o cmds \o <<EosId>>
    BY DEF Encode
  <1>6. n \in Nat /\ n <= BridgeLength
    <2>1. Len(s.cmds) = k
      OBVIOUS
    <2>2. \E y \in {k, BridgeLength} : \A z \in {k, BridgeLength} : y <= z
      <3>1. BridgeLength \in Nat
        BY EnrichmentAssumption
      <3>2. CASE k <= BridgeLength
        BY <3>1, <3>2
      <3>3. CASE ~(k <= BridgeLength)
        BY <3>1, <3>3
      <3> QED BY <3>2, <3>3
    <2>3. n \in {k, BridgeLength} /\ \A z \in {k, BridgeLength} : n <= z
      BY <2>1, <2>2 DEF Limit, Min
    <2> QED BY <2>3, EnrichmentAssumption
  <1>7. extra = <<>>
    <2>1. MetaTokens(s) = <<>>
      BY DEF MetaTokens
    <2> QED BY <2>1
  <1>8. cmds \in Seq(Ids) /\ Len(cmds) = n
    <2>1. \A i \in 1 .. n : EncodeCommand(tk, s.cmds[i].raw) \in Ids
      BY <1>2, <1>4, IdIs
    <2> HIDE DEF n, Ids
    <2> QED BY <1>6, <2>1
  <1>9. <<BosId>> \in Seq(Ids) /\ <<EosId>> \in Seq(Ids) /\ dur \in Seq(Ids) /\ Len(dur) <= 1 /\ Len(dur) \in Nat
    <2>1. BosId \in Ids /\ EosId \in Ids /\ DurId \in Ids
      BY <1>2 DEF BosId, EosId, DurId
    <2> HIDE DEF Ids
    <2>2. <<BosId>> \in Seq(Ids) /\ <<EosId>> \in Seq(Ids) /\ <<DurId>> \in Seq(Ids) /\ <<>> \in Seq(Ids)
      BY <2>1
    <2>3. CASE tk.meta
      BY <2>2, <2>3
    <2>4. CASE ~tk.meta
      BY <2>2, <2>4
    <2> QED BY <2>2, <2>3, <2>4
  <1> HIDE DEF Ids, dur, extra, cmds, n
  <1>10. ids \in Seq(Ids) /\ Len(ids) <= n + 3 /\ Len(ids) \in Nat
    <2>1. <<BosId>> \o dur \in Seq(Ids) /\ Len(<<BosId>> \o dur) <= 2
      BY <1>9
    <2>2. <<BosId>> \o dur \o extra \in Seq(Ids) /\ Len(<<BosId>> \o dur \o extra) <= 2
      BY <1>7, <2>1
    <2>3. /\ <<BosId>> \o dur \o extra \o cmds \in Seq(Ids)
          /\ Len(<<BosId>> \o dur \o extra \o cmds) <= 2 + n
      BY <1>6, <1>8, <2>2
    <2> QED BY <1>5, <1>6, <1>9, <2>3
  <1>11. Len(ids) <= Capacity
    BY <1>6, <1>10, EnrichmentAssumption
  <1>12. \A i \in DOMAIN ids : ids[i] < Len(Tokenizers[mem.model].vocab)
    <2> HIDE DEF ids
    <2>1. \A i \in DOMAIN ids : ids[i] \in Ids
      BY <1>10
    <2> QED BY <1>1, <1>2, <2>1 DEF Ids
  <1> QED BY <1>3, <1>11, <1>12 DEF Embeds

-----------------------------------------------------------------------------
(* The steps of the worker and of the training run *)

LEMMA EnrichInitially == EnrichInit => EnrichInv
  <1> SUFFICES ASSUME EnrichInit PROVE EnrichInv
    OBVIOUS
  <1>1. stage = "boot" /\ at = 1 /\ result.state = "none" /\ Len(Docs) \in Nat
    BY EnrichmentAssumption DEF EnrichInit, NoResult
  <1>2. /\ DOMAIN mem = {"model", "vocab", "config", "classifier", "centroids", "device"} /\ mem.model = "none" /\ mem.vocab = "none"
        /\ mem.config = "none" /\ mem.classifier = "none" /\ mem.centroids = "none"
    BY DEF EnrichInit
  <1>3. /\ disk.ckpt \in Artifacts /\ disk.vocab \in Artifacts /\ disk.config \in Artifacts
        /\ DOMAIN disk = {"vocab", "config", "ckpt", "classifier", "centroids"}
    BY DEF EnrichInit, Artifacts
  <1>4. writing \in Seq({"vocab", "config", "ckpt"})
    <2>1. writing = <<>> \/ writing = <<"vocab", "config", "ckpt">>
      BY DEF EnrichInit
    <2> DEFINE S == {"vocab", "config", "ckpt"}
    <2>2. <<"vocab", "config", "ckpt">> \in Seq(S)
      OBVIOUS
    <2> HIDE DEF S
    <2>3. <<>> \in Seq(S)
      OBVIOUS
    <2>4. writing \in Seq(S)
      BY <2>1, <2>2, <2>3
    <2> QED BY <2>4 DEF S
  <1>5. ArtifactsTyped
    BY <1>2, <1>3, <1>4 DEF ArtifactsTyped, Loadables
  <1>6. LoadedSoFar
    BY <1>1, <1>2 DEF LoadedSoFar, ModelIsWhole
  <1>7. ResultSound
    BY <1>1 DEF ResultSound, Done, EmbeddingAgrees, RaisesOnlyOnMismatch, AnnotationsFollow, BaitIsSevere, SummaryIsBounded
  <1> QED BY <1>5, <1>6, <1>7 DEF EnrichInv

\* The result stays what it is as long as nothing is loaded or enriched.
LEMMA ResultStays ==
    ASSUME ResultSound, UNCHANGED <<at, result>>,
           result.state # "none" => UNCHANGED <<stage, mem>>
    PROVE  ResultSound'
  <1>1. Doc' = Doc /\ Done' = Done
    BY DEF Doc, Done
  <1>2. EmbeddingAgrees' /\ AnnotationsFollow' /\ BaitIsSevere' /\ SummaryIsBounded'
    BY <1>1 DEF ResultSound, EmbeddingAgrees, AnnotationsFollow, BaitIsSevere, SummaryIsBounded
  <1>3. RaisesOnlyOnMismatch'
    BY <1>1 DEF ResultSound, RaisesOnlyOnMismatch, OtherDim
  <1> QED BY <1>2, <1>3 DEF ResultSound

LEMMA TruncateKeeps == ASSUME EnrichInv, Truncate PROVE EnrichInv'
  <1> USE DEF EnrichInv
  <1>1. ResultSound'
    BY ResultStays DEF Truncate
  <1>2. LoadedSoFar'
    BY DEF Truncate, LoadedSoFar, ModelIsWhole
  <1>3. PICK h \in {"vocab", "config", "ckpt"} : h = Head(writing)
    BY DEF Truncate, ArtifactsTyped
  <1>4. disk' = [disk EXCEPT ![h] = "torn"] /\ UNCHANGED <<writing, mem>>
    BY <1>3 DEF Truncate
  <1>5. ArtifactsTyped'
    BY <1>3, <1>4 DEF ArtifactsTyped, Artifacts
  <1> QED BY <1>1, <1>2, <1>5

LEMMA WriteArtifactKeeps == ASSUME EnrichInv, Write PROVE EnrichInv'
  <1> USE DEF EnrichInv
  <1>1. ResultSound'
    BY ResultStays DEF Write
  <1>2. LoadedSoFar'
    BY DEF Write, LoadedSoFar, ModelIsWhole
  <1>3. PICK h \in {"vocab", "config", "ckpt"} : h = Head(writing)
    BY DEF Write, ArtifactsTyped
  <1>4. disk' = [disk EXCEPT ![h] = "two"] /\ writing' = Tail(writing) /\ UNCHANGED mem
    BY <1>3 DEF Write
  <1>5. writing' \in Seq({"vocab", "config", "ckpt"})
    BY <1>4 DEF ArtifactsTyped, Write
  <1>6. ArtifactsTyped'
    BY <1>3, <1>4, <1>5 DEF ArtifactsTyped, Artifacts
  <1> QED BY <1>1, <1>2, <1>6

\* The files are loaded one by one, while they change.
LEMMA LoadingKeeps ==
    ASSUME EnrichInv, LoadCheckpoint \/ LoadConfig \/ LoadVocab \/ LoadClassifier \/ LoadCentroids
    PROVE  EnrichInv'
  <1> USE DEF EnrichInv
  <1>1. stage # "ready" /\ UNCHANGED <<disk, writing, at, result>>
    BY DEF LoadCheckpoint, LoadConfig, LoadVocab, LoadClassifier, LoadCentroids, Load
  <1>2. ResultSound'
    <2>1. result.state = "none"
      BY <1>1 DEF ResultSound
    <2> QED BY <1>1, <2>1, ResultStays
  <1>3. Runs = {"one", "two"}
    BY EnrichmentAssumption DEF Runs
  <1>4. mem = mem /\ DOMAIN mem = {"model", "vocab", "config", "classifier", "centroids", "device"}
    BY DEF ArtifactsTyped
  <1>5. ASSUME mem' = Degraded, stage' = "classifier" PROVE ArtifactsTyped' /\ LoadedSoFar'
    BY <1>1, <1>4, <1>5 DEF ArtifactsTyped, LoadedSoFar, ModelIsWhole, Degraded, Loadables
  <1>6. CASE LoadCheckpoint
    <2>2. CASE ~(disk.ckpt = "none" \/ ~TokenizerDir) /\ disk.ckpt \notin Runs
      BY <1>2, <1>5, <1>6, <2>2 DEF LoadCheckpoint, Load
    <2>3. CASE ~(disk.ckpt = "none" \/ ~TokenizerDir) /\ disk.ckpt \in Runs
      <3>1. stage' = "config" /\ mem' = [mem EXCEPT !.model = disk.ckpt] /\ stage = "boot"
        BY <1>6, <2>3 DEF LoadCheckpoint, Load
      <3>2. ArtifactsTyped' /\ LoadedSoFar'
        BY <1>1, <1>3, <1>4, <2>3, <3>1 DEF ArtifactsTyped, LoadedSoFar, ModelIsWhole, Loadables
      <3> QED BY <1>2, <3>2
    <2>1. CASE disk.ckpt = "none" \/ ~TokenizerDir
      <3>1. stage' = "classifier" /\ mem' = mem /\ stage = "boot"
        BY <1>6, <2>1 DEF LoadCheckpoint, Load
      <3> QED BY <1>1, <1>2, <3>1 DEF ArtifactsTyped, LoadedSoFar, ModelIsWhole
    <2> QED BY <2>1, <2>2, <2>3
  <1>7. CASE LoadConfig
    <2>1. CASE disk.config \in Runs
      <3>1. stage' = "vocab" /\ mem' = [mem EXCEPT !.config = disk.config] /\ stage = "config"
        BY <1>7, <2>1 DEF LoadConfig, Load
      <3>2. ArtifactsTyped' /\ LoadedSoFar'
        BY <1>1, <1>3, <1>4, <2>1, <3>1 DEF ArtifactsTyped, LoadedSoFar, ModelIsWhole, Loadables
      <3> QED BY <1>2, <3>2
    <2>2. CASE disk.config \notin Runs
      BY <1>2, <1>5, <1>7, <2>2 DEF LoadConfig, Load
    <2> QED BY <2>1, <2>2
  <1>8. CASE LoadVocab
    <2>1. CASE disk.vocab \in Runs
      <3>1. stage' = "classifier" /\ mem' = [mem EXCEPT !.vocab = disk.vocab] /\ stage = "vocab"
        BY <1>8, <2>1 DEF LoadVocab, Load
      <3>2. ArtifactsTyped' /\ LoadedSoFar'
        BY <1>1, <1>3, <1>4, <2>1, <3>1 DEF ArtifactsTyped, LoadedSoFar, ModelIsWhole, Loadables
      <3> QED BY <1>2, <3>2
    <2>2. CASE disk.vocab \notin Runs
      BY <1>2, <1>5, <1>8, <2>2 DEF LoadVocab, Load
    <2> QED BY <2>1, <2>2
  <1>9. CASE LoadClassifier
    <2>1. PICK c : c = (IF disk.classifier = "bad" THEN "none" ELSE disk.classifier) /\ c # "bad"
      OBVIOUS
    <2>2. stage' = "centroids" /\ mem' = [mem EXCEPT !.classifier = c] /\ stage = "classifier"
      BY <1>9, <2>1 DEF LoadClassifier, Load
    <2>3. ArtifactsTyped' /\ LoadedSoFar'
      BY <1>1, <1>4, <2>1, <2>2 DEF ArtifactsTyped, LoadedSoFar, ModelIsWhole, Loadables
    <2> QED BY <1>2, <2>3
  <1>10. CASE LoadCentroids
    <2>1. PICK c : c = (IF disk.centroids = "bad" THEN "none" ELSE disk.centroids) /\ c # "bad"
      OBVIOUS
    <2>2. stage' = "ready" /\ mem' = [mem EXCEPT !.centroids = c] /\ stage = "centroids"
      BY <1>10, <2>1 DEF LoadCentroids, Load
    <2>3. ArtifactsTyped' /\ LoadedSoFar'
      BY <1>1, <1>4, <2>1, <2>2 DEF ArtifactsTyped, LoadedSoFar, ModelIsWhole, Loadables
    <2> QED BY <1>2, <2>3
  <1> QED BY <1>6, <1>7, <1>8, <1>9, <1>10

\* Copied bait is critical and read bait high at least, whatever the class.
LEMMA TemplateIsSevere ==
    ASSUME NEW p, NEW class, NEW e \in Int, p.escalation = e
    PROVE  /\ Template(p, class).by = "template" /\ Template(p, class).severity \in Severities
           /\ Template(p, class).actions \in 1 .. 3
           /\ e >= 2 => Template(p, class).severity = "critical"
           /\ e >= 1 => Template(p, class).severity \in {"high", "critical"}
  <1>1. /\ SeverityFromSignals(p, class) \in Severities
        /\ e >= 2 => SeverityFromSignals(p, class) = "critical"
        /\ e >= 1 => SeverityFromSignals(p, class) \in {"high", "critical"}
    BY DEF SeverityFromSignals, Severities
  <1>2. TemplateActions(p, class) \in 1 .. 3
    BY DEF TemplateActions
  <1> HIDE DEF Severities
  <1> QED BY <1>1, <1>2 DEF Template

\* The greatest escalation of a document's bait, 0 without any.
LEMMA EscalationIs ==
    ASSUME NEW n \in DOMAIN Docs, NEW doc, doc = Docs[n]
    PROVE  Max({0} \cup {doc.bait[i] : i \in DOMAIN doc.bait}) \in Int
  <1> DEFINE S == {0} \cup {doc.bait[i] : i \in DOMAIN doc.bait}
  <1>1. S \subseteq 0 .. 3 /\ 0 \in S
    BY EnrichmentAssumption
  <1> HIDE DEF S
  <1>2. \E x \in S : \A y \in S : x >= y
    <2>1. CASE 3 \in S
      BY <1>1, <2>1
    <2>2. CASE 3 \notin S /\ 2 \in S
      <3>1. \A y \in S : 2 >= y
        BY <1>1, <2>2
      <3> QED BY <2>2, <3>1
    <2>3. CASE 3 \notin S /\ 2 \notin S /\ 1 \in S
      <3>1. \A y \in S : 1 >= y
        BY <1>1, <2>3
      <3> QED BY <2>3, <3>1
    <2>4. CASE 3 \notin S /\ 2 \notin S /\ 1 \notin S
      <3>1. \A y \in S : 0 >= y
        BY <1>1, <2>4
      <3> QED BY <1>1, <3>1
    <2> QED BY <2>1, <2>2, <2>3, <2>4
  <1>3. Max(S) \in S
    BY <1>2 DEF Max
  <1> QED BY <1>1, <1>3 DEF S

\* A summary is bounded, and severe where the template wrote it.
LEMMA SummaryIs ==
    ASSUME NEW p, NEW class, NEW e \in Int, p.escalation = e, NEW sum \in Summaries(p, class)
    PROVE  /\ sum.severity \in Severities /\ sum.actions <= 3
           /\ sum.by = "template" => /\ e >= 2 => sum.severity = "critical"
                                     /\ e >= 1 => sum.severity \in {"high", "critical"}
  <1>1. CASE sum = Template(p, class)
    BY <1>1, TemplateIsSevere
  <1>2. CASE sum # Template(p, class)
    <2>1. PICK sev \in Severities \cup {"other"}, k \in {0, 5} :
             sum = [by |-> "llm", severity |-> Checked(sev, Template(p, class).severity), actions |-> Min({k, 3})]
      <3>1. UseLlm
        BY <1>2 DEF Summaries
      <3> QED BY <1>2, <3>1 DEF Summaries
    <2>2. Checked(sev, Template(p, class).severity) \in Severities
      BY TemplateIsSevere DEF Checked
    <2>3. Min({k, 3}) <= 3
      <3>1. CASE k = 0
        <4>1. Min({0, 3}) \in {0, 3}
          <5>1. \A y \in {0, 3} : 0 <= y
            OBVIOUS
          <5> QED BY <5>1 DEF Min
        <4> QED BY <3>1, <4>1
      <3>2. CASE k = 5
        <4>1. Min({5, 3}) \in {5, 3} /\ \A y \in {5, 3} : Min({5, 3}) <= y
          <5>1. \A y \in {5, 3} : 3 <= y
            OBVIOUS
          <5> QED BY <5>1 DEF Min
        <4> QED BY <3>2, <4>1
      <3> QED BY <3>1, <3>2
    <2> QED BY <2>1, <2>2, <2>3
  <1> QED BY <1>1, <1>2

\* The weak labels.
LEMMA WeakLabelIs == ASSUME NEW doc, NEW p, p.escalation >= 2 PROVE WeakLabel(doc, p) = "apt"
  BY DEF WeakLabel

\* A document is enriched, or raises for a reason.
LEMMA EnrichKeeps == ASSUME EnrichInv, Enrich PROVE EnrichInv'
  <1> USE DEF EnrichInv
  <1>1. stage = "ready" /\ at \in DOMAIN Docs /\ at' = at + 1 /\ at \in Nat /\ UNCHANGED <<disk, writing, stage, mem>>
    BY EnrichmentAssumption DEF Enrich, ResultSound
  <1>2. ArtifactsTyped' /\ LoadedSoFar'
    BY <1>1 DEF ArtifactsTyped, LoadedSoFar, ModelIsWhole
  <1>3. at' \in 1 .. Len(Docs) + 1 /\ Doc' = Docs[at]
    BY <1>1, EnrichmentAssumption DEF Doc
  <1>4. PICK doc : doc = Docs[at]
    OBVIOUS
  <1>5. PICK p : p = Parse(doc) /\ ParsedFrom(doc, p)
    BY <1>1, <1>4, ParseIs
  <1>6. PICK k \in Nat : k = Len(doc.cmds) /\ DOMAIN doc.cmds = 1 .. k
    BY <1>1, <1>4, EnrichmentAssumption
  <1>7. PICK e \in Int : e = p.escalation /\ e = Max({0} \cup {doc.bait[i] : i \in DOMAIN doc.bait})
    <2>1. Max({0} \cup {doc.bait[i] : i \in DOMAIN doc.bait}) \in Int
      BY <1>1, <1>4, EscalationIs
    <2> QED BY <1>5, <2>1 DEF ParsedFrom
  <1>8. PICK embedded \in BOOLEAN : embedded = (HasModel /\ p.session.cmds # <<>>)
    OBVIOUS
  <1> DEFINE raises == ClassifierRefuses(embedded) \/ (embedded /\ (OtherDim(mem.centroids) \/ ~Embeds(p.session)))
             tells == \E class \in Verdicts(doc, p) : \E sum \in Summaries(p, class) :
                         result' = EnrichmentResult(p, embedded, class, sum)
  <1>11. \/ (raises \/ MayMissName(embedded)) /\ result' = Raised
         \/ tells
    BY <1>4, <1>5, <1>8 DEF Enrich
  <1>9. CASE (raises \/ MayMissName(embedded)) /\ result' = Raised
    <2>2. result'.state = "raised" /\ ~Done'
      BY <1>9 DEF Raised, Done
    <2>1. /\ embedded => mem.model \in {"one", "two"} /\ mem.model # "none" /\ doc.cmds # <<>>
          /\ ~embedded => mem.model = "none" \/ doc.cmds = <<>>
      <3>1. p.session.cmds = <<>> <=> k = 0
        BY <1>5, <1>6 DEF ParsedFrom
      <3>2. k = 0 <=> doc.cmds = <<>>
        <4>1. doc.cmds \in Seq(Range(doc.cmds))
          BY <1>1, <1>4, EnrichmentAssumption
        <4> QED BY <1>6, <4>1
      <3>3. HasModel <=> mem.model # "none"
        BY <1>1 DEF HasModel, LoadedSoFar, ModelIsWhole
      <3> QED BY <1>8, <3>1, <3>2, <3>3 DEF ArtifactsTyped, Loadables
    <2>3. \/ mem.classifier \in {"other", "loose"}
          \/ mem.classifier # "none" /\ mem.device = "cuda"
          \/ mem.classifier \in Runs /\ (mem.model = "none" \/ doc.cmds = <<>> \/ OtherDim(mem.classifier))
          \/ /\ mem.model # "none" /\ doc.cmds # <<>>
             /\ \/ mem.model # mem.vocab \/ mem.model # mem.config
                \/ mem.centroids = "loose" \/ OtherDim(mem.centroids)
      <3>1. CASE ClassifierRefuses(embedded) \/ MayMissName(embedded)
        BY <2>1, <3>1 DEF ClassifierRefuses, MayMissName
      <3>2. CASE embedded /\ OtherDim(mem.centroids)
        BY <2>1, <3>2
      <3>3. CASE embedded /\ ~Embeds(p.session)
        <4>1. mem.model # mem.vocab \/ mem.model # mem.config
          BY <1>5, <1>6, <2>1, <3>3, SameRunEmbeds DEF ParsedFrom
        <4> QED BY <2>1, <3>3, <4>1
      <3> QED BY <1>9, <3>1, <3>2, <3>3
    <2>4. RaisesOnlyOnMismatch'
      BY <1>1, <1>3, <1>4, <2>3 DEF RaisesOnlyOnMismatch, OtherDim
    <2>5. EmbeddingAgrees' /\ AnnotationsFollow' /\ BaitIsSevere' /\ SummaryIsBounded'
      BY <2>2 DEF EmbeddingAgrees, AnnotationsFollow, BaitIsSevere, SummaryIsBounded
    <2>6. ResultSound'
      BY <1>1, <1>3, <2>2, <2>4, <2>5 DEF ResultSound
    <2> QED BY <1>2, <2>6
  <1>10. CASE tells
    <2>1. PICK class \in Verdicts(doc, p) : \E sum \in Summaries(p, class) : result' = EnrichmentResult(p, embedded, class, sum)
      BY <1>10
    <2>2. PICK sum \in Summaries(p, class) : result' = EnrichmentResult(p, embedded, class, sum)
      BY <2>1
    <2>3. /\ result'.state = "enriched" /\ result'.class = class /\ result'.cwds = p.cwds
          /\ result'.cmds = p.session.cmds /\ result'.embedding = embedded /\ result'.version = VersionRecorded(embedded)
          /\ result'.trajectory = embedded /\ result'.cluster = Cluster(p.session, embedded)
          /\ result'.summary = sum /\ result'.source = (IF mem.classifier # "none" THEN "model" ELSE "weak_label")
      BY <2>2 DEF EnrichmentResult
    <2>4. EmbeddingAgrees'
      <3>1. Cluster(p.session, embedded) = "centroid" => embedded
        BY DEF Cluster, HashCluster
      <3>2. embedded => Parse(Doc').session.cmds # <<>>
        BY <1>3, <1>4, <1>5, <1>8
      <3> QED BY <2>3, <3>1, <3>2 DEF EmbeddingAgrees, VersionRecorded
    <2>5. RaisesOnlyOnMismatch'
      BY <2>3 DEF RaisesOnlyOnMismatch
    <2>6. AnnotationsFollow'
      <3>1. Doc' = doc /\ result'.cwds = p.cwds /\ result'.cmds = p.session.cmds
        BY <1>3, <1>4, <2>3
      <3>2. Len(p.cwds) = Len(doc.cmds) /\ DOMAIN p.cwds = 1 .. k /\ DOMAIN doc.cmds = 1 .. k
        BY <1>5, <1>6 DEF ParsedFrom
      <3>3. \A i \in DOMAIN p.cwds : \E j \in DOMAIN doc.cmds :
              /\ doc.cmds[j].cwd = p.cwds[i] /\ Text(doc.cmds[j]) = p.session.cmds[i].raw
              /\ Max({0, doc.cmds[j].ts - doc.start}) = p.session.cmds[i].off
        BY <1>5, <1>6, <3>2 DEF ParsedFrom
      <3> QED BY <3>1, <3>2, <3>3 DEF AnnotationsFollow
    <2>7. BaitIsSevere'
      <3>1. e >= 2 /\ result'.source = "weak_label" => class = "apt"
        <4> SUFFICES ASSUME e >= 2, result'.source = "weak_label" PROVE class = "apt"
          OBVIOUS
        <4>1. class = WeakLabel(doc, p)
          BY <2>3 DEF Verdicts
        <4> QED BY <1>7, <4>1, WeakLabelIs
      <3>2. sum.by = "template" => /\ e >= 2 => sum.severity = "critical"
                                   /\ e >= 1 => sum.severity \in {"high", "critical"}
        BY <1>7, SummaryIs
      <3> QED BY <1>3, <1>4, <1>7, <2>3, <3>1, <3>2 DEF BaitIsSevere
    <2>8. SummaryIsBounded'
      BY <1>7, <2>3, SummaryIs DEF SummaryIsBounded
    <2>9. ResultSound'
      BY <1>1, <1>3, <2>3, <2>4, <2>5, <2>6, <2>7, <2>8 DEF ResultSound
    <2> QED BY <1>2, <2>9
  <1> QED BY <1>9, <1>10, <1>11

LEMMA EnrichmentKeeps == EnrichInv /\ [EnrichNext]_evars => EnrichInv'
  <1> SUFFICES ASSUME EnrichInv, [EnrichNext]_evars PROVE EnrichInv'
    OBVIOUS
  <1>1. CASE UNCHANGED evars
    <2>1. ResultSound'
      BY <1>1, ResultStays DEF evars, EnrichInv
    <2> QED BY <1>1, <2>1 DEF evars, EnrichInv, ArtifactsTyped, LoadedSoFar, ModelIsWhole
  <1>2. CASE EnrichNext
    BY <1>2, LoadingKeeps, EnrichKeeps, TruncateKeeps, WriteArtifactKeeps DEF EnrichNext, Enricher
  <1> QED BY <1>1, <1>2

\* For every set of documents, tokenizers and artifacts, and whatever a training run writes
\* while the worker loads: what Enricher.enrich gives for a document is consistent, its raising has a
\* reason, annotations stay with their commands and bait is not played down.
THEOREM EnrichmentIsSound == EnrichSpec => []EnrichmentSound
  <1>1. EnrichInv => EnrichmentSound
    <2> SUFFICES ASSUME EnrichInv PROVE EnrichmentSound
      OBVIOUS
    <2> USE DEF EnrichInv
    <2>1. \A f \in {"model", "vocab", "config"} : mem[f] \in Runs \cup {"none"}
      BY EnrichmentAssumption DEF ArtifactsTyped, Loadables, Runs
    <2>2. EnrichTypeOK
      BY <2>1 DEF EnrichTypeOK, ArtifactsTyped, LoadedSoFar, ResultSound
    <2> QED BY <2>2 DEF EnrichmentSound, LoadedSoFar, ResultSound
  <1>2. EnrichSpec => []EnrichInv
    BY EnrichInitially, EnrichmentKeeps, PTL DEF EnrichSpec
  <1> QED BY <1>1, <1>2, PTL

-----------------------------------------------------------------------------
(* Sequences in order *)

\* A finite set in a strict total order: each element is there, in its place.
Enumerates(A, pred, S) ==
    /\ A \in [1 .. Cardinality(S) -> S]
    /\ \A n \in 1 .. Cardinality(S) : Cardinality(pred[A[n]]) = n - 1
    /\ \A m, n \in 1 .. Cardinality(S) : m < n => A[m] \in pred[A[n]]
    /\ \A x \in S : \E n \in 1 .. Cardinality(S) : A[n] = x

LEMMA RankedIs ==
    ASSUME NEW S, IsFiniteSet(S), NEW pred, Ordering(S, pred)
    PROVE  Cardinality(S) \in Nat /\ Enumerates(Ranked(pred), pred, S)
  <1>1. PICK k \in Nat : k = Cardinality(S)
    BY FS_CardinalityType
  <1>2. DOMAIN pred = S /\ \A x \in S : pred[x] \subseteq S /\ x \notin pred[x]
    BY DEF Ordering
  <1>3. ASSUME NEW x \in S
        PROVE  IsFiniteSet(pred[x]) /\ Cardinality(pred[x]) \in Nat /\ Cardinality(pred[x]) < k
    <2>1. pred[x] \in SUBSET S /\ pred[x] # S
      BY <1>2
    <2>2. IsFiniteSet(pred[x]) /\ Cardinality(pred[x]) <= k /\ Cardinality(pred[x]) # k
      BY <1>1, <2>1, FS_Subset
    <2>3. Cardinality(pred[x]) \in Nat
      BY <2>2, FS_CardinalityType
    <2> QED BY <2>2, <2>3
  <1>4. ASSUME NEW x \in S, NEW y \in S, x \in pred[y] PROVE Cardinality(pred[x]) < Cardinality(pred[y])
    <2>1. pred[x] \in SUBSET pred[y] /\ pred[x] # pred[y]
      BY <1>2, <1>4 DEF Ordering
    <2>2. Cardinality(pred[x]) <= Cardinality(pred[y]) /\ Cardinality(pred[x]) # Cardinality(pred[y])
      BY <1>3, <2>1, FS_Subset
    <2> QED BY <1>3, <2>2
  <1> DEFINE A == Ranked(pred)
             nth(n) == CHOOSE x \in S : Cardinality(pred[x]) = n - 1
  <1>5. A = [n \in 1 .. k |-> nth(n)]
    BY <1>1, <1>2 DEF Ranked
  <1>6. ASSUME NEW n \in 1 .. k PROVE nth(n) \in S /\ Cardinality(pred[nth(n)]) = n - 1
    <2>1. \E x \in S : Cardinality(pred[x]) = n - 1
      BY <1>1, RanksAreTaken
    <2> QED BY <2>1
  <1> HIDE DEF A, nth
  <1>7. A \in [1 .. k -> S] /\ \A n \in 1 .. k : Cardinality(pred[A[n]]) = n - 1
    BY <1>5, <1>6
  <1>8. ASSUME NEW m \in 1 .. k, NEW n \in 1 .. k, m < n PROVE A[m] \in pred[A[n]]
    <2>1. A[m] \in S /\ A[n] \in S /\ Cardinality(pred[A[m]]) = m - 1 /\ Cardinality(pred[A[n]]) = n - 1
      BY <1>7
    <2>2. A[m] # A[n]
      BY <1>8, <2>1
    <2>3. A[n] \notin pred[A[m]]
      BY <1>4, <1>8, <2>1
    <2> QED BY <2>1, <2>2, <2>3 DEF Ordering
  <1>9. ASSUME NEW x \in S PROVE \E n \in 1 .. k : A[n] = x
    <2>1. PICK c \in Nat : c = Cardinality(pred[x]) /\ c < k
      BY <1>3
    <2>2. c + 1 \in 1 .. k
      BY <2>1
    <2>3. A[c + 1] \in S /\ Cardinality(pred[A[c + 1]]) = c
      BY <1>7, <2>2
    <2>4. A[c + 1] = x
      <3>1. PICK y \in S : y = A[c + 1]
        BY <2>3
      <3>2. Cardinality(pred[x]) = Cardinality(pred[y]) /\ Cardinality(pred[y]) \in Nat
        BY <1>3, <2>1, <2>3, <3>1
      <3>3. x \notin pred[y] /\ y \notin pred[x]
        BY <1>4, <3>2
      <3> QED BY <3>1, <3>3 DEF Ordering
    <2> QED BY <2>2, <2>4
  <1> QED BY <1>1, <1>7, <1>8, <1>9 DEF Enumerates, A

\* Numbers in order.
Below(S) == [x \in S |-> {y \in S : y < x}]

InAscent(A, S) ==
    /\ Cardinality(S) \in Nat /\ A \in [1 .. Cardinality(S) -> S]
    /\ \A n \in 1 .. Cardinality(S) : Cardinality({y \in S : y < A[n]}) = n - 1
    /\ \A m, n \in 1 .. Cardinality(S) : m < n => A[m] < A[n]
    /\ \A x \in S : \E n \in 1 .. Cardinality(S) : A[n] = x

LEMMA AscendingIs ==
    ASSUME NEW S \in SUBSET Int, IsFiniteSet(S)
    PROVE  InAscent(Ascending(S), S)
  <1> DEFINE pred == Below(S)
  <1>1. Ordering(S, pred)
    <2>1. pred \in [S -> SUBSET S] /\ \A x \in S : x \notin pred[x]
      BY DEF Below
    <2>2. \A x, y \in S : y \in pred[x] => pred[y] \subseteq pred[x]
      <3> SUFFICES ASSUME NEW x \in S, NEW y \in S, y \in pred[x], NEW z \in pred[y] PROVE z \in pred[x]
        OBVIOUS
      <3>1. y < x /\ z \in S /\ z < y
        BY DEF Below
      <3>2. x \in Int /\ y \in Int /\ z \in Int
        BY <3>1
      <3>3. z < x
        BY <3>1, <3>2
      <3> QED BY <3>1, <3>3 DEF Below
    <2>3. \A x, y \in S : x # y => x \in pred[y] \/ y \in pred[x]
      BY DEF Below
    <2> HIDE DEF pred
    <2> QED BY <2>1, <2>2, <2>3 DEF Ordering
  <1>2. \A x \in S : pred[x] = {y \in S : y < x}
    BY DEF Below
  <1>3. Ascending(S) = Ranked(pred)
    BY DEF Ascending, Below
  <1> HIDE DEF pred
  <1>4. Cardinality(S) \in Nat /\ Enumerates(Ranked(pred), pred, S)
    BY <1>1, RankedIs
  <1> DEFINE A == Ascending(S)
  <1> HIDE DEF A
  <1>5. A \in [1 .. Cardinality(S) -> S] /\ \A x \in S : \E n \in 1 .. Cardinality(S) : A[n] = x
    BY <1>3, <1>4 DEF Enumerates, A
  <1>6. ASSUME NEW n \in 1 .. Cardinality(S) PROVE Cardinality({y \in S : y < A[n]}) = n - 1
    <2>1. A[n] \in S /\ Cardinality(pred[A[n]]) = n - 1
      BY <1>3, <1>4, <1>5 DEF Enumerates, A
    <2> QED BY <1>2, <2>1
  <1>7. ASSUME NEW m \in 1 .. Cardinality(S), NEW n \in 1 .. Cardinality(S), m < n PROVE A[m] < A[n]
    <2>1. A[n] \in S /\ A[m] \in pred[A[n]]
      BY <1>3, <1>4, <1>5, <1>7 DEF Enumerates, A
    <2> QED BY <1>2, <2>1
  <1> QED BY <1>4, <1>5, <1>6, <1>7 DEF InAscent, A

\* The places that are left when D is taken away.
LEMMA RestIs ==
    ASSUME NEW n \in Nat, NEW D \in SUBSET (1 .. n)
    PROVE  /\ IsFiniteSet(D) /\ Cardinality(D) \in 0 .. n
           /\ Cardinality((1 .. n) \ D) = n - Cardinality(D)
           /\ InAscent(Ascending((1 .. n) \ D), (1 .. n) \ D)
  <1>1. IsFiniteSet(1 .. n) /\ Cardinality(1 .. n) = n
    BY FS_Interval
  <1>2. IsFiniteSet(D) /\ Cardinality(D) <= n /\ Cardinality(D) \in Nat
    BY <1>1, FS_Subset, FS_CardinalityType
  <1>3. IsFiniteSet((1 .. n) \ D) /\ Cardinality((1 .. n) \ D) = n - Cardinality((1 .. n) \cap D)
    BY <1>1, FS_Difference
  <1>4. (1 .. n) \cap D = D
    OBVIOUS
  <1>5. InAscent(Ascending((1 .. n) \ D), (1 .. n) \ D)
    BY <1>3, AscendingIs
  <1> QED BY <1>2, <1>3, <1>4, <1>5

-----------------------------------------------------------------------------
(* Rows and what they come from *)

Timing == [ms : Int, noisy : BOOLEAN]

IsSeq(s) == s \in Seq(Range(s))

LEMMA SeqIs == ASSUME NEW S, NEW s \in Seq(S) PROVE IsSeq(s)
  <1>1. \A i \in 1 .. Len(s) : s[i] \in Range(s)
    BY DEF Range
  <1> QED BY <1>1 DEF IsSeq

RowShape(r) == IsSeq(r.ids) /\ r.tim \in Seq(Timing) /\ Len(r.ids) = Len(r.tim)

\* Every position of r is one of ex, with its id or masked, and with its timing.
From(r, ex, g) ==
    /\ g \in [1 .. Len(r.ids) -> 1 .. Len(ex.ids)]
    /\ \A i, j \in 1 .. Len(r.ids) : g[i] = g[j] => i = j
    /\ \A i \in 1 .. Len(r.ids) : (r.ids[i] = ex.ids[g[i]] \/ r.ids[i] = OovId) /\ r.tim[i].ms = ex.tim[g[i]].ms

Exact(r, ex, g) == From(r, ex, g) /\ \A i \in 1 .. Len(r.ids) : r.ids[i] = ex.ids[g[i]]

Traced(r, ex) == \E g : From(r, ex, g)

LEMMA TracedThrough ==
    ASSUME NEW r, NEW q, NEW ex, RowShape(r), RowShape(q), RowShape(ex), Traced(q, r), Traced(r, ex)
    PROVE  Traced(q, ex)
  <1>1. PICK g : From(r, ex, g)
    BY DEF Traced
  <1>2. PICK h : From(q, r, h)
    BY DEF Traced
  <1> DEFINE f == [i \in 1 .. Len(q.ids) |-> g[h[i]]]
  <1>3. Len(r.ids) \in Nat /\ Len(q.ids) \in Nat /\ Len(ex.ids) \in Nat
    BY DEF RowShape, IsSeq
  <1>4. From(q, ex, f)
    BY <1>1, <1>2, <1>3 DEF From
  <1> QED BY <1>4 DEF Traced

LEMMA ExactThrough ==
    ASSUME NEW r, NEW q, NEW ex, RowShape(r), RowShape(q), RowShape(ex), NEW g, NEW h, Exact(r, ex, g), Exact(q, r, h)
    PROVE  Exact(q, ex, [i \in 1 .. Len(q.ids) |-> g[h[i]]])
  <1> DEFINE f == [i \in 1 .. Len(q.ids) |-> g[h[i]]]
  <1>1. Len(r.ids) \in Nat /\ Len(q.ids) \in Nat /\ Len(ex.ids) \in Nat
    BY DEF RowShape, IsSeq
  <1>2. From(q, ex, f)
    BY <1>1 DEF From, Exact
  <1>3. ASSUME NEW i \in 1 .. Len(q.ids) PROVE q.ids[i] = ex.ids[f[i]]
    <2>1. h[i] \in 1 .. Len(r.ids) /\ q.ids[i] = r.ids[h[i]]
      BY DEF From, Exact
    <2>2. r.ids[h[i]] = ex.ids[g[h[i]]]
      BY <2>1 DEF Exact
    <2> QED BY <2>1, <2>2
  <1> QED BY <1>2, <1>3 DEF Exact

\* A row with the same ids and the same times.
LEMMA SameTraced ==
    ASSUME NEW r, NEW q, RowShape(r), RowShape(q), Len(q.ids) = Len(r.ids),
           \A i \in 1 .. Len(r.ids) : (q.ids[i] = r.ids[i] \/ q.ids[i] = OovId) /\ q.tim[i].ms = r.tim[i].ms
    PROVE  From(q, r, [i \in 1 .. Len(r.ids) |-> i]) /\ Traced(q, r)
  <1> DEFINE g == [i \in 1 .. Len(r.ids) |-> i]
  <1>1. Len(r.ids) \in Nat
    BY DEF RowShape, IsSeq
  <1>2. From(q, r, g)
    BY <1>1 DEF From
  <1> QED BY <1>2 DEF Traced

\* A row of some of the positions, in any order.
LEMMA ChosenTraced ==
    ASSUME NEW r, NEW q, RowShape(r), NEW n \in Nat, NEW h \in [1 .. n -> 1 .. Len(r.ids)],
           \A i, j \in 1 .. n : h[i] = h[j] => i = j,
           q.ids = [i \in 1 .. n |-> r.ids[h[i]]], q.tim = [i \in 1 .. n |-> r.tim[h[i]]]
    PROVE  RowShape(q) /\ Len(q.ids) = n /\ Exact(q, r, h) /\ Traced(q, r)
  <1>1. Len(r.ids) \in Nat /\ \A i \in 1 .. Len(r.ids) : r.ids[i] \in Range(r.ids) /\ r.tim[i] \in Timing
    BY DEF RowShape, IsSeq
  <1>2. q.ids \in [1 .. n -> Range(r.ids)] /\ q.tim \in [1 .. n -> Timing]
    BY <1>1
  <1>3. IsSeq(q.ids) /\ q.tim \in Seq(Timing) /\ Len(q.ids) = n /\ Len(q.tim) = n
    <2>1. q.ids \in Seq(Range(r.ids)) /\ q.tim \in Seq(Timing) /\ Len(q.ids) = n /\ Len(q.tim) = n
      BY <1>2
    <2> QED BY <2>1, SeqIs
  <1>4. \A i \in 1 .. n : q.ids[i] = r.ids[h[i]] /\ q.tim[i] = r.tim[h[i]]
    OBVIOUS
  <1>5. Exact(q, r, h)
    BY <1>3, <1>4 DEF Exact, From
  <1> QED BY <1>3, <1>5 DEF RowShape, Exact, Traced

\* A row never has a pair more often than what it comes from.
LEMMA PairsAreTraced ==
    ASSUME NEW r, NEW ex, RowShape(r), RowShape(ex), Traced(r, ex), NEW i \in DOMAIN r.ids, r.ids[i] # OovId
    PROVE  Count(r, PairAt(r, i)) <= Count(ex, PairAt(r, i))
  <1>1. PICK g : From(r, ex, g)
    BY DEF Traced
  <1>2. Len(r.ids) \in Nat /\ Len(ex.ids) \in Nat /\ DOMAIN r.ids = 1 .. Len(r.ids) /\ DOMAIN ex.ids = 1 .. Len(ex.ids)
    BY DEF RowShape, IsSeq
  <1> DEFINE S == {k \in DOMAIN r.ids : PairAt(r, k) = PairAt(r, i)}
             T == {k \in DOMAIN ex.ids : PairAt(ex, k) = PairAt(r, i)}
             f == [k \in S |-> g[k]]
  <1>3. ASSUME NEW k \in S PROVE g[k] \in T
    <2>1. k \in 1 .. Len(r.ids) /\ r.ids[k] = r.ids[i] /\ r.tim[k].ms = r.tim[i].ms
      BY <1>2 DEF PairAt
    <2>2. g[k] \in 1 .. Len(ex.ids) /\ ex.ids[g[k]] = r.ids[i] /\ ex.tim[g[k]].ms = r.tim[i].ms
      BY <1>1, <2>1 DEF From
    <2> QED BY <1>2, <2>2 DEF PairAt
  <1>4. \A k, j \in S : g[k] = g[j] => k = j
    BY <1>1, <1>2 DEF From
  <1>5. IsFiniteSet(T)
    <2>1. IsFiniteSet(1 .. Len(ex.ids))
      BY <1>2, FS_Interval
    <2> QED BY <1>2, <2>1, FS_Subset
  <1>6. f \in Injection(S, T)
    <2> HIDE DEF S, T
    <2> QED BY <1>3, <1>4 DEF Injection, IsInjective
  <1>7. Cardinality(S) <= Cardinality(T)
    <2> HIDE DEF S, T, f
    <2> QED BY <1>5, <1>6, FS_Injection
  <1> QED BY <1>7 DEF Count

-----------------------------------------------------------------------------
(* Reordering *)

Free(ids, P) == {i \in DOMAIN ids : ids[i] \notin P}

Increasing(g, n) == \A i, j \in 1 .. n : i < j => g[i] < g[j]

\* Among the positions in L, none has moved by two windows or more.
Near(g, L) ==
    \A a \in L : Cardinality({i \in L : i < a}) - Cardinality({i \in L : g[i] < g[a]})
                     \in (1 - 2 * Window) .. (2 * Window - 1)

LEMMA IncreasingIsNear ==
    ASSUME NEW n \in Nat, NEW m \in Nat, NEW g \in [1 .. n -> 1 .. m], Increasing(g, n),
           NEW L \in SUBSET (1 .. n), Window \in Nat \ {0}
    PROVE  Near(g, L)
  <1> SUFFICES ASSUME NEW a \in L
               PROVE  Cardinality({i \in L : i < a}) - Cardinality({i \in L : g[i] < g[a]})
                          \in (1 - 2 * Window) .. (2 * Window - 1)
    BY DEF Near
  <1>1. {i \in L : i < a} = {i \in L : g[i] < g[a]}
    <2>1. ASSUME NEW i \in L PROVE i < a <=> g[i] < g[a]
      <3>1. g[i] \in Int /\ g[a] \in Int /\ i \in Int /\ a \in Int
        OBVIOUS
      <3>2. (i < a => g[i] < g[a]) /\ (a < i => g[a] < g[i])
        BY DEF Increasing
      <3> QED BY <3>1, <3>2
    <2> QED BY <2>1
  <1>2. PICK c \in Nat : c = Cardinality({i \in L : i < a})
    <2>1. IsFiniteSet(1 .. n)
      BY FS_Interval
    <2>2. {i \in L : i < a} \in SUBSET (1 .. n)
      OBVIOUS
    <2>3. Cardinality({i \in L : i < a}) \in Nat
      BY <2>1, <2>2, FS_Subset, FS_CardinalityType
    <2> QED BY <2>3
  <1>3. c - c \in (1 - 2 * Window) .. (2 * Window - 1)
    OBVIOUS
  <1> QED BY <1>1, <1>2, <1>3

\* A permutation that lets no two numbers pass each other by d or more moves none by d or more.
LEMMA MovesLess ==
    ASSUME NEW n \in Nat, NEW o \in [1 .. n -> 1 .. n], \A i, j \in 1 .. n : o[i] = o[j] => i = j,
           NEW d \in Nat \ {0}, \A i, j \in 1 .. n : i < j => o[i] - o[j] < d, NEW k \in 1 .. n
    PROVE  k - o[k] < d /\ o[k] - k < d
  <1>1. IsFiniteSet(1 .. n) /\ Cardinality(1 .. n) = n
    BY FS_Interval
  <1>0. o[k] \in 1 .. n /\ o[k] \in Int /\ k \in Int
    OBVIOUS
  <1>2. ASSUME o[k] - k >= d PROVE FALSE
    <2>0. o[k] > k
      BY <1>0, <1>2
    <2> DEFINE S == k .. n
               T == (k + 1) .. n
    <2>1. IsFiniteSet(S) /\ Cardinality(S) = n - k + 1 /\ IsFiniteSet(T) /\ Cardinality(T) = n - k
      <3>1. IsFiniteSet(S) /\ Cardinality(S) = n - k + 1
        BY FS_Interval
      <3>2. IsFiniteSet(T) /\ Cardinality(T) = IF k + 1 > n THEN 0 ELSE n - (k + 1) + 1
        BY FS_Interval
      <3> QED BY <3>1, <3>2
    <2>2. ASSUME \A j \in S : o[j] \in T PROVE FALSE
      <3> DEFINE f == [j \in S |-> o[j]]
      <3>1. f \in [S -> T]
        <4> HIDE DEF S, T
        <4> QED BY <2>2
      <3>2. Cardinality(T) < Cardinality(S)
        BY <2>1
      <3>3. PICK x \in S, y \in S : x # y /\ f[x] = f[y]
        <4>1. IsFiniteSet(S) /\ IsFiniteSet(T)
          BY <2>1
        <4> HIDE DEF S, T, f
        <4> QED BY <3>1, <3>2, <4>1, FS_PigeonHole
      <3>4. o[x] = o[y] /\ x \in 1 .. n /\ y \in 1 .. n
        BY <3>3
      <3> QED BY <3>3, <3>4
    <2>3. PICK j \in S : o[j] \notin T
      BY <2>2
    <2>4. o[j] <= k /\ j \in 1 .. n
      <3>1. j \in 1 .. n /\ o[j] \in 1 .. n
        OBVIOUS
      <3> QED BY <2>3, <3>1
    <2>5. j > k
      BY <2>0, <2>4
    <2>6. o[k] - o[j] < d
      BY <2>4, <2>5
    <2> QED BY <1>2, <2>4, <2>6
  <1>3. ASSUME k - o[k] >= d PROVE FALSE
    <2>0. o[k] < k
      BY <1>0, <1>3
    <2> DEFINE S == 1 .. k
               T == 1 .. (k - 1)
    <2>1. IsFiniteSet(S) /\ Cardinality(S) = k /\ IsFiniteSet(T) /\ Cardinality(T) = k - 1
      <3>1. k \in Nat /\ k - 1 \in Nat
        OBVIOUS
      <3> QED BY <3>1, FS_Interval
    <2>2. ASSUME \A j \in S : o[j] \in T PROVE FALSE
      <3> DEFINE f == [j \in S |-> o[j]]
      <3>1. f \in [S -> T]
        <4> HIDE DEF S, T
        <4> QED BY <2>2
      <3>2. Cardinality(T) < Cardinality(S)
        BY <2>1
      <3>3. PICK x \in S, y \in S : x # y /\ f[x] = f[y]
        <4>1. IsFiniteSet(S) /\ IsFiniteSet(T)
          BY <2>1
        <4> HIDE DEF S, T, f
        <4> QED BY <3>1, <3>2, <4>1, FS_PigeonHole
      <3>4. o[x] = o[y] /\ x \in 1 .. n /\ y \in 1 .. n
        BY <3>3
      <3> QED BY <3>3, <3>4
    <2>3. PICK j \in S : o[j] \notin T
      BY <2>2
    <2>4. o[j] >= k /\ j \in 1 .. n
      <3>1. j \in 1 .. n /\ o[j] \in 1 .. n
        OBVIOUS
      <3> QED BY <2>3, <3>1
    <2>5. j < k
      BY <2>0, <2>4
    <2>6. o[j] - o[k] < d
      BY <2>4, <2>5
    <2>7. PICK a \in Int, b \in Int, c \in Int : a = o[k] /\ b = o[j] /\ c = d
      BY <1>0, <2>4
    <2> QED BY <1>3, <2>4, <2>6, <2>7
  <1> QED BY <1>0, <1>2, <1>3

\* Where the pairs of a row are distinct, a pair's rank can be told, and is as near as its position.
LEMMA NearIsLocal ==
    ASSUME NEW r, NEW ex, NEW P, NEW g, RowShape(r), RowShape(ex), Exact(r, ex, g),
           Near(g, Free(r.ids, P)),
           NEW pairs, pairs = {PairAt(r, i) : i \in Free(r.ids, P)},
           NEW of, of = {i \in Free(ex.ids, P) : PairAt(ex, i) \in pairs},
           Cardinality(pairs) = Cardinality(of), NEW p \in pairs
    PROVE  Rank(r, p, Free(r.ids, P)) - Rank(ex, p, of) \in (1 - 2 * Window) .. (2 * Window - 1)
  <1> DEFINE L == Free(r.ids, P)
  <1>1. Len(r.ids) \in Nat /\ Len(ex.ids) \in Nat /\ DOMAIN r.ids = 1 .. Len(r.ids) /\ DOMAIN ex.ids = 1 .. Len(ex.ids)
    BY DEF RowShape, IsSeq
  <1>2. ASSUME NEW i \in L
        PROVE  i \in 1 .. Len(r.ids) /\ g[i] \in of /\ PairAt(ex, g[i]) = PairAt(r, i) /\ PairAt(r, i) \in pairs
    <2>1. i \in 1 .. Len(r.ids) /\ r.ids[i] \notin P
      BY <1>1 DEF Free
    <2>2. g[i] \in 1 .. Len(ex.ids) /\ ex.ids[g[i]] = r.ids[i] /\ ex.tim[g[i]].ms = r.tim[i].ms
      BY <2>1 DEF Exact, From
    <2>3. PairAt(ex, g[i]) = PairAt(r, i)
      BY <2>2 DEF PairAt
    <2>4. PairAt(r, i) \in pairs
      OBVIOUS
    <2>5. g[i] \in Free(ex.ids, P)
      BY <1>1, <2>1, <2>2 DEF Free
    <2> QED BY <2>1, <2>3, <2>4, <2>5
  <1>3. IsFiniteSet(of)
    <2>1. IsFiniteSet(1 .. Len(ex.ids))
      <3>1. \A m \in Nat : IsFiniteSet(1 .. m)
        <4> TAKE m \in Nat
        <4> HIDE DEF L
        <4> QED BY FS_Interval
      <3> QED BY <1>1, <3>1
    <2>2. of \subseteq 1 .. Len(ex.ids)
      BY <1>1 DEF Free
    <2> QED BY <2>1, <2>2, FS_Subset
  <1>4. ASSUME NEW x \in of, NEW y \in of, PairAt(ex, x) = PairAt(ex, y) PROVE x = y
    <2> DEFINE f == [z \in of |-> PairAt(ex, z)]
    <2>1. f \in [of -> pairs]
      OBVIOUS
    <2>2. ASSUME NEW q \in pairs PROVE \E z \in of : f[z] = q
      <3>1. PICK i \in L : q = PairAt(r, i)
        OBVIOUS
      <3>2. g[i] \in of /\ PairAt(ex, g[i]) = q
        BY <1>2, <3>1
      <3> QED BY <3>2
    <2>3. f \in Surjection(of, pairs)
      <3> HIDE DEF f
      <3> QED BY <2>1, <2>2 DEF Surjection
    <2>4. f \in Injection(of, pairs)
      <3> HIDE DEF f
      <3> QED BY <1>3, <2>3, FS_SurjSameCardinalityImpliesInj
    <2>5. f[x] = f[y]
      BY <1>4
    <2> HIDE DEF f
    <2> QED BY <2>4, <2>5 DEF Injection, IsInjective
  <1>5. PICK a \in L : p = PairAt(r, a)
    OBVIOUS
  <1>6. {k \in L : PairAt(r, k) = p} = {a}
    <2>1. ASSUME NEW k \in L, PairAt(r, k) = p PROVE k = a
      <3>1. g[k] = g[a]
        <4>1. g[k] \in of /\ g[a] \in of /\ PairAt(ex, g[k]) = p /\ PairAt(ex, g[a]) = p
          BY <1>2, <1>5, <2>1
        <4> QED BY <1>4, <4>1
      <3>2. k \in 1 .. Len(r.ids) /\ a \in 1 .. Len(r.ids)
        BY <1>2
      <3> QED BY <3>1, <3>2 DEF Exact, From
    <2> HIDE DEF L
    <2> QED BY <1>5, <2>1
  <1>7. {k \in of : PairAt(ex, k) = p} = {g[a]}
    <2>1. g[a] \in of /\ PairAt(ex, g[a]) = p
      BY <1>2, <1>5
    <2>2. \A k \in of : PairAt(ex, k) = p => k = g[a]
      BY <1>4, <2>1
    <2> QED BY <2>1, <2>2, Zenon
  <1>8. Rank(r, p, L) = Cardinality({i \in L : i < a})
    <2>1. Min({a}) = a
      <3>1. a \in Int
        BY <1>2
      <3> QED BY <3>1 DEF Min
    <2> HIDE DEF L
    <2> QED BY <1>6, <2>1 DEF Rank
  <1>9. Rank(ex, p, of) = Cardinality({i \in of : i < g[a]})
    <2>1. Min({g[a]}) = g[a]
      <3>1. g[a] \in Int
        <4>1. g[a] \in of
          BY <1>2
        <4> QED BY <1>1, <4>1 DEF Free
      <3> QED BY <3>1 DEF Min
    <2> QED BY <1>7, <2>1 DEF Rank
  <1>10. Cardinality({i \in of : i < g[a]}) = Cardinality({i \in L : g[i] < g[a]})
    <2> DEFINE S == {i \in L : g[i] < g[a]}
               T == {i \in of : i < g[a]}
               f == [i \in S |-> g[i]]
    <2>1. ASSUME NEW i \in S PROVE f[i] \in T
      BY <1>2
    <2>2. ASSUME NEW z \in T PROVE \E i \in S : f[i] = z
      <3>1. PICK i \in L : PairAt(ex, z) = PairAt(r, i)
        OBVIOUS
      <3>2. g[i] = z
        BY <1>2, <1>4, <3>1
      <3>3. i \in S
        BY <3>1, <3>2
      <3> QED BY <3>2, <3>3
    <2>3. \A i, j \in S : f[i] = f[j] => i = j
      BY <1>2 DEF Exact, From
    <2>4. f \in Surjection(S, T) /\ f \in Injection(S, T)
      <3>1. f \in [S -> T]
        <4>1. DOMAIN f = S /\ f = [i \in S |-> f[i]]
          OBVIOUS
        <4> HIDE DEF f, S, T
        <4> QED BY <2>1, <4>1
      <3> HIDE DEF f, S, T
      <3> QED BY <2>2, <2>3, <3>1 DEF Surjection, Injection, IsInjective
    <2>5. IsFiniteSet(T)
      BY <1>3, FS_Subset
    <2> HIDE DEF f, S, T
    <2>6. IsFiniteSet(S)
      BY <2>4, <2>5, FS_Injection
    <2> QED BY <2>4, <2>6, FS_Surjection DEF S, T
  <1> QED BY <1>5, <1>8, <1>9, <1>10 DEF Near

-----------------------------------------------------------------------------
(* What a view keeps of its example *)

\* The identity is in front and the end is the end.
Anchored(r, ex, M) ==
    /\ r.ids # <<>> /\ r.ids[Len(r.ids)] = EosId
    /\ \A i \in 1 .. Len(ex.ids) : (\A k \in 1 .. i : ex.ids[k] \in M) =>
           i \in 1 .. Len(r.ids) /\ r.ids[i] = ex.ids[i] /\ r.tim[i] = ex.tim[i]

\* The commands are in order, and after the reordering near it.
Placed(r, ex, P, ordered) ==
    \E g : /\ Exact(r, ex, g)
           /\ ordered => Increasing(g, Len(r.ids))
           /\ Window > 0 => Near(g, Free(r.ids, P))

\* Dropping positions.
Drops(q, r, D) == q.ids = Without(r.ids, D) /\ q.tim = Without(r.tim, D)

Thinned(q, r, D, K, A) ==
    /\ RowShape(q) /\ Len(q.ids) = Len(r.ids) - Cardinality(D) /\ Cardinality(D) \in Nat
    /\ InAscent(A, K) /\ Cardinality(K) = Len(q.ids)
    /\ Exact(q, r, A) /\ Traced(q, r) /\ Increasing(A, Len(q.ids))
    /\ \A i \in 1 .. Len(q.ids) : q.tim[i] = r.tim[A[i]]

LEMMA DropIs ==
    ASSUME NEW r, NEW q, RowShape(r), NEW D \in SUBSET (1 .. Len(r.ids)), Drops(q, r, D)
    PROVE  Thinned(q, r, D, (1 .. Len(r.ids)) \ D, Ascending((1 .. Len(r.ids)) \ D))
  <1>1. PICK n \in Nat : n = Len(r.ids) /\ n = Len(r.tim) /\ DOMAIN r.ids = 1 .. n /\ DOMAIN r.tim = 1 .. n
    BY DEF RowShape, IsSeq
  <1> DEFINE K == (1 .. n) \ D
             A == Ascending(K)
             c == Cardinality(K)
  <1>2. c = n - Cardinality(D) /\ Cardinality(D) \in Nat /\ InAscent(A, K)
    <2>1. D \in SUBSET (1 .. n)
      BY <1>1
    <2>2. Cardinality(D) \in 0 .. n /\ c = n - Cardinality(D) /\ InAscent(A, K)
      BY <2>1, RestIs
    <2> QED BY <2>2
  <1> HIDE DEF K, A
  <1>3. c \in Nat /\ A \in [1 .. c -> K] /\ \A i, j \in 1 .. c : i < j => A[i] < A[j]
    BY <1>2 DEF InAscent
  <1>4. K \subseteq 1 .. n
    BY DEF K
  <1>5. A \in [1 .. c -> 1 .. Len(r.ids)] /\ DOMAIN A = 1 .. c
    BY <1>1, <1>3, <1>4
  <1>6. \A i, j \in 1 .. c : A[i] = A[j] => i = j
    <2>1. ASSUME NEW i \in 1 .. c, NEW j \in 1 .. c, i < j PROVE A[i] # A[j]
      <3>1. A[i] < A[j]
        BY <1>3, <2>1
      <3>2. A[i] \in 1 .. Len(r.ids)
        BY <1>5
      <3> QED BY <1>1, <3>1, <3>2
    <2>2. \A i, j \in 1 .. c : i < j \/ j < i \/ i = j
      OBVIOUS
    <2> HIDE DEF c
    <2> QED BY <2>1, <2>2
  <1>7. q.ids = [i \in 1 .. c |-> r.ids[A[i]]] /\ q.tim = [i \in 1 .. c |-> r.tim[A[i]]]
    <2>1. Pick(r.ids, K) = [i \in 1 .. c |-> r.ids[A[i]]] /\ Pick(r.tim, K) = [i \in 1 .. c |-> r.tim[A[i]]]
      BY <1>1, <1>5 DEF Pick, K, A
    <2>2. DOMAIN r.ids \ D = K /\ DOMAIN r.tim \ D = K
      BY <1>1 DEF K
    <2> QED BY <2>1, <2>2 DEF Drops, Without
  <1> HIDE DEF c
  <1>8. RowShape(q) /\ Len(q.ids) = c /\ Exact(q, r, A) /\ Traced(q, r)
    BY <1>3, <1>5, <1>6, <1>7, ChosenTraced
  <1>9. \A i \in 1 .. c : q.tim[i] = r.tim[A[i]]
    BY <1>7
  <1>10. Thinned(q, r, D, K, A)
    BY <1>1, <1>2, <1>3, <1>8, <1>9 DEF Increasing, Thinned, c
  <1> QED BY <1>1, <1>10 DEF K, A

LEMMA DropKeepsAnchors ==
    ASSUME NEW r, NEW q, NEW ex, RowShape(r), RowShape(ex), NEW P, NEW M \in SUBSET P, EosId \in P,
           Anchored(r, ex, M), NEW D \in SUBSET Free(r.ids, P), Drops(q, r, D)
    PROVE  Anchored(q, ex, M)
  <1>1. PICK n \in Nat : n = Len(r.ids) /\ DOMAIN r.ids = 1 .. n /\ n >= 1
    BY DEF RowShape, IsSeq, Anchored
  <1> DEFINE K == (1 .. n) \ D
             A == Ascending(K)
  <1>2. D \subseteq 1 .. n
    BY <1>1 DEF Free
  <1>3. /\ RowShape(q) /\ InAscent(A, K) /\ Cardinality(K) = Len(q.ids) /\ Exact(q, r, A)
        /\ \A i \in 1 .. Len(q.ids) : q.tim[i] = r.tim[A[i]]
    <2>1. D \in SUBSET (1 .. Len(r.ids)) /\ Thinned(q, r, D, (1 .. Len(r.ids)) \ D, Ascending((1 .. Len(r.ids)) \ D))
      BY <1>1, <1>2, DropIs
    <2>2. Thinned(q, r, D, K, A)
      BY <1>1, <2>1
    <2> HIDE DEF A, K
    <2> QED BY <2>2 DEF Thinned
  <1>4. PICK c \in Nat : c = Len(q.ids) /\ c = Cardinality(K)
    BY <1>3 DEF RowShape, IsSeq
  <1>5. /\ A \in [1 .. c -> K] /\ \A i \in 1 .. c : Cardinality({y \in K : y < A[i]}) = i - 1
        /\ \A i, j \in 1 .. c : i < j => A[i] < A[j]
        /\ \A x \in K : \E i \in 1 .. c : A[i] = x
    BY <1>3, <1>4 DEF InAscent
  <1> HIDE DEF A
  <1>6. ASSUME NEW i \in 1 .. c PROVE q.ids[i] = r.ids[A[i]] /\ q.tim[i] = r.tim[A[i]]
    BY <1>3, <1>4 DEF Exact
  <1>7. n \in K
    BY <1>1 DEF Anchored, Free
  <1>8. A[c] = n /\ c >= 1
    <2>1. PICK i \in 1 .. c : A[i] = n
      BY <1>5, <1>7
    <2>2. i = c
      <3> SUFFICES ASSUME i < c PROVE FALSE
        OBVIOUS
      <3>1. A[i] < A[c] /\ A[c] \in 1 .. n
        BY <1>5
      <3> QED BY <2>1, <3>1
    <2> QED BY <2>1, <2>2
  <1>9. q.ids # <<>> /\ q.ids[Len(q.ids)] = EosId
    <2>1. q.ids[c] = EosId
      BY <1>1, <1>6, <1>8 DEF Anchored
    <2>2. q.ids # <<>>
      <3> SUFFICES ASSUME q.ids = <<>> PROVE FALSE
        OBVIOUS
      <3>1. Len(q.ids) = 0
        OBVIOUS
      <3> QED BY <1>4, <1>8, <3>1
    <2> QED BY <1>4, <2>1, <2>2
  <1>10. ASSUME NEW i \in 1 .. Len(ex.ids), \A k \in 1 .. i : ex.ids[k] \in M
         PROVE  i \in 1 .. c /\ A[i] = i
    <2>0. Len(ex.ids) \in Nat
      BY DEF RowShape, IsSeq
    <2>1. ASSUME NEW k \in 1 .. i PROVE k \in K
      <3>1. k \in 1 .. Len(ex.ids) /\ \A j \in 1 .. k : ex.ids[j] \in M
        BY <1>10, <2>0
      <3>2. k \in 1 .. n /\ r.ids[k] = ex.ids[k]
        BY <1>1, <3>1 DEF Anchored
      <3>3. r.ids[k] \in P
        BY <3>1, <3>2
      <3> QED BY <3>2, <3>3 DEF Free
    <2>2. {y \in K : y < i} = 1 .. (i - 1)
      <3>1. \A y \in K : y \in 1 .. n
        OBVIOUS
      <3>2. \A y \in 1 .. (i - 1) : y \in K
        BY <2>0, <2>1
      <3> HIDE DEF K
      <3> QED BY <2>0, <3>1, <3>2
    <2>3. Cardinality(1 .. (i - 1)) = i - 1
      BY <2>0, FS_Interval
    <2>4. PICK j \in 1 .. c : A[j] = i
      BY <1>5, <2>1
    <2>5. j - 1 = i - 1
      BY <1>5, <2>2, <2>3, <2>4
    <2>6. j = i
      BY <2>0, <2>5
    <2> QED BY <2>4, <2>6
  <1>11. ASSUME NEW i \in 1 .. Len(ex.ids), \A k \in 1 .. i : ex.ids[k] \in M
         PROVE  i \in 1 .. Len(q.ids) /\ q.ids[i] = ex.ids[i] /\ q.tim[i] = ex.tim[i]
    <2>1. i \in 1 .. c /\ A[i] = i
      BY <1>10, <1>11
    <2>2. r.ids[i] = ex.ids[i] /\ r.tim[i] = ex.tim[i]
      BY <1>11 DEF Anchored
    <2>3. q.ids[i] = r.ids[i] /\ q.tim[i] = r.tim[i]
      BY <1>6, <2>1
    <2> QED BY <1>4, <2>1, <2>2, <2>3
  <1> QED BY <1>9, <1>11 DEF Anchored

LEMMA DropKeepsPlaces ==
    ASSUME NEW r, NEW q, NEW ex, NEW P, RowShape(r), RowShape(ex), Window \in Nat, Placed(r, ex, P, TRUE),
           NEW D \in SUBSET (1 .. Len(r.ids)), Drops(q, r, D)
    PROVE  Placed(q, ex, P, TRUE)
  <1> DEFINE A == Ascending((1 .. Len(r.ids)) \ D)
  <1>1. Thinned(q, r, D, (1 .. Len(r.ids)) \ D, A)
    BY DropIs
  <1> HIDE DEF A
  <1>2. RowShape(q) /\ Exact(q, r, A) /\ Increasing(A, Len(q.ids))
    BY <1>1 DEF Thinned
  <1>3. PICK g : Exact(r, ex, g) /\ Increasing(g, Len(r.ids))
    BY DEF Placed
  <1>4. Len(q.ids) \in Nat /\ Len(r.ids) \in Nat /\ Len(ex.ids) \in Nat /\ DOMAIN q.ids = 1 .. Len(q.ids)
    BY <1>2 DEF RowShape, IsSeq
  <1> DEFINE f == [i \in 1 .. Len(q.ids) |-> g[A[i]]]
  <1>5. Exact(q, ex, f)
    BY <1>2, <1>3, ExactThrough
  <1>6. Increasing(f, Len(q.ids))
    <2> SUFFICES ASSUME NEW i \in 1 .. Len(q.ids), NEW j \in 1 .. Len(q.ids), i < j PROVE g[A[i]] < g[A[j]]
      BY DEF Increasing
    <2>1. A[i] \in 1 .. Len(r.ids) /\ A[j] \in 1 .. Len(r.ids)
      BY <1>2 DEF Exact, From
    <2>2. A[i] < A[j]
      BY <1>2 DEF Increasing
    <2> QED BY <1>3, <2>1, <2>2 DEF Increasing
  <1>7. f \in [1 .. Len(q.ids) -> 1 .. Len(ex.ids)]
    BY <1>5 DEF Exact, From
  <1>8. Free(q.ids, P) \in SUBSET (1 .. Len(q.ids))
    BY <1>4 DEF Free
  <1> HIDE DEF f
  <1>9. ASSUME Window > 0 PROVE Near(f, Free(q.ids, P))
    <2>1. Window \in Nat \ {0}
      BY <1>9
    <2> QED BY <1>4, <1>6, <1>7, <1>8, <2>1, IncreasingIsNear
  <1> QED BY <1>5, <1>6, <1>9 DEF Placed

\* A command is left when not all are dropped.
LEMMA DropKeepsOne ==
    ASSUME NEW r, NEW q, NEW P, RowShape(r), NEW D \in SUBSET Free(r.ids, P), Drops(q, r, D), Free(r.ids, P) # D
    PROVE  Free(q.ids, P) # {}
  <1>1. PICK x \in Free(r.ids, P) : x \notin D
    OBVIOUS
  <1>2. Len(r.ids) \in Nat /\ DOMAIN r.ids = 1 .. Len(r.ids)
    BY DEF RowShape, IsSeq
  <1> DEFINE K == (1 .. Len(r.ids)) \ D
             A == Ascending(K)
  <1>3. Thinned(q, r, D, K, A)
    <2>1. D \in SUBSET (1 .. Len(r.ids))
      BY <1>2 DEF Free
    <2> QED BY <2>1, DropIs
  <1>4. x \in K /\ r.ids[x] \notin P
    BY <1>1, <1>2 DEF Free
  <1> HIDE DEF A, K
  <1>5. RowShape(q) /\ InAscent(A, K) /\ Cardinality(K) = Len(q.ids) /\ Exact(q, r, A)
    BY <1>3 DEF Thinned
  <1>6. PICK i \in 1 .. Len(q.ids) : A[i] = x
    BY <1>4, <1>5 DEF InAscent
  <1>7. q.ids[i] = r.ids[x]
    BY <1>5, <1>6 DEF Exact
  <1>8. DOMAIN q.ids = 1 .. Len(q.ids)
    BY <1>5 DEF RowShape, IsSeq
  <1> QED BY <1>4, <1>7, <1>8 DEF Free

\* The dropper stops before the last command.
LEMMA RoomLeavesOne ==
    ASSUME NEW n \in Nat, NEW F \in SUBSET (1 .. n), F # {}, NEW D \in SUBSET F,
           \A i \in D : Cardinality(F \ {j \in D : j < i}) > 1
    PROVE  F # D
  <1> SUFFICES ASSUME F = D PROVE FALSE
    OBVIOUS
  <1>1. IsFiniteSet(F)
    <2>1. IsFiniteSet(1 .. n)
      BY FS_Interval
    <2> QED BY <2>1, FS_Subset
  <1>2. PICK c \in Nat \ {0} : c = Cardinality(F)
    BY <1>1, FS_CardinalityType, FS_EmptySet
  <1>3. InAscent(Ascending(F), F)
    BY <1>1, AscendingIs
  <1> DEFINE A == Ascending(F)
  <1> HIDE DEF A
  <1>4. /\ A \in [1 .. c -> F] /\ \A i, j \in 1 .. c : i < j => A[i] < A[j]
        /\ \A x \in F : \E i \in 1 .. c : A[i] = x
    BY <1>2, <1>3 DEF InAscent, A
  <1> DEFINE m == A[c]
  <1>5. m \in F /\ c \in 1 .. c
    BY <1>4
  <1>6. \A x \in F : x < m \/ x = m
    <2> SUFFICES ASSUME NEW x \in F PROVE x < m \/ x = m
      OBVIOUS
    <2>1. PICK i \in 1 .. c : A[i] = x
      BY <1>4
    <2>2. i < c \/ i = c
      OBVIOUS
    <2> QED BY <1>4, <1>5, <2>1, <2>2
  <1> HIDE DEF m
  <1>7. F \ {j \in D : j < m} = {m}
    <2>1. ~(m < m)
      BY <1>5
    <2> QED BY <1>5, <1>6, <2>1
  <1>8. Cardinality({m}) = 1
    BY FS_Singleton
  <1>9. Cardinality({m}) > 1
    BY <1>5, <1>7
  <1> QED BY <1>8, <1>9

\* Reordering the positions in L.
Reorders(q, r, L) ==
    \E order \in Orders(Len(Ascending(L))) :
        q.ids = Moved(r.ids, Ascending(L), order) /\ q.tim = Moved(r.tim, Ascending(L), order)

Shuffled(q, r, L, h) ==
    /\ RowShape(q) /\ Len(q.ids) = Len(r.ids) /\ Exact(q, r, h) /\ Traced(q, r)
    /\ \A i \in 1 .. Len(r.ids) : q.tim[i] = r.tim[h[i]]
    /\ \A i \in (1 .. Len(r.ids)) \ L : h[i] = i
    /\ \A i \in L : h[i] \in L
    /\ \A y \in L : \E x \in L : h[x] = y
    /\ Window > 0 => \A a \in L : Cardinality({j \in L : j < a}) - Cardinality({j \in L : j < h[a]})
                                     \in (1 - 2 * Window) .. (2 * Window - 1)

LEMMA OrderIs ==
    ASSUME NEW n \in Nat, NEW o \in Orders(n), Window \in Nat
    PROVE  /\ o \in [1 .. n -> 1 .. n] /\ \A i, j \in 1 .. n : o[i] = o[j] => i = j
           /\ \A w \in 1 .. n : \E v \in 1 .. n : o[v] = w
           /\ Window > 0 => \A k \in 1 .. n : k - o[k] \in (1 - 2 * Window) .. (2 * Window - 1)
  <1>1. o \in Bijection(1 .. n, 1 .. n) /\ (Window > 0 => \A i, j \in 1 .. n : i < j => o[i] - o[j] < 2 * Window)
    BY DEF Orders
  <1>2. o \in [1 .. n -> 1 .. n] /\ \A w \in 1 .. n : \E v \in 1 .. n : o[v] = w
    BY <1>1 DEF Bijection, Surjection, Injection
  <1>3. \A i, j \in 1 .. n : o[i] = o[j] => i = j
    BY <1>1 DEF Bijection, Injection, IsInjective
  <1>4. ASSUME Window > 0, NEW k \in 1 .. n PROVE k - o[k] \in (1 - 2 * Window) .. (2 * Window - 1)
    <2>1. PICK d \in Nat \ {0} : d = 2 * Window
      BY <1>4
    <2>2. \A i, j \in 1 .. n : i < j => o[i] - o[j] < d
      BY <1>1, <1>4, <2>1
    <2>3. k - o[k] < d /\ o[k] - k < d
      BY <1>2, <1>3, <2>2, MovesLess
    <2>4. k \in Int /\ o[k] \in Int
      BY <1>2
    <2> QED BY <2>1, <2>3, <2>4
  <1> QED BY <1>2, <1>3, <1>4

LEMMA ReorderIs ==
    ASSUME NEW r, NEW q, RowShape(r), NEW L \in SUBSET (1 .. Len(r.ids)), Reorders(q, r, L), Window \in Nat
    PROVE  \E h : Shuffled(q, r, L, h)
  <1>1. PICK n \in Nat : n = Len(r.ids) /\ n = Len(r.tim) /\ DOMAIN r.ids = 1 .. n /\ DOMAIN r.tim = 1 .. n
    BY DEF RowShape, IsSeq
  <1> DEFINE slots == Ascending(L)
  <1>2. IsFiniteSet(L)
    <2>1. IsFiniteSet(1 .. n)
      BY FS_Interval
    <2> QED BY <1>1, <2>1, FS_Subset
  <1>3. PICK c \in Nat : c = Cardinality(L)
    BY <1>2, FS_CardinalityType
  <1>4. InAscent(slots, L)
    BY <1>1, <1>2, AscendingIs
  <1> HIDE DEF slots
  <1>5. /\ slots \in [1 .. c -> L] /\ \A i, j \in 1 .. c : i < j => slots[i] < slots[j]
        /\ \A i \in 1 .. c : Cardinality({j \in L : j < slots[i]}) = i - 1
        /\ \A x \in L : \E i \in 1 .. c : slots[i] = x
    BY <1>3, <1>4 DEF InAscent
  <1>6. Range(slots) = L /\ Len(slots) = c /\ DOMAIN slots = 1 .. c
    <2>1. DOMAIN slots = 1 .. c /\ slots \in Seq(L)
      BY <1>5
    <2>2. Range(slots) = L
      BY <1>5, <2>1, Zenon DEF Range
    <2>3. Len(slots) = c
      BY <1>5, <2>1
    <2> QED BY <2>1, <2>2, <2>3
  <1>7. PICK o \in Orders(c) : q.ids = Moved(r.ids, slots, o) /\ q.tim = Moved(r.tim, slots, o)
    BY <1>6 DEF Reorders, slots
  <1>8. /\ o \in [1 .. c -> 1 .. c] /\ \A i, j \in 1 .. c : o[i] = o[j] => i = j
        /\ \A w \in 1 .. c : \E v \in 1 .. c : o[v] = w
        /\ Window > 0 => \A k \in 1 .. c : k - o[k] \in (1 - 2 * Window) .. (2 * Window - 1)
    BY OrderIs
  <1>9. \A i, j \in 1 .. c : slots[i] = slots[j] => i = j
    <2>1. ASSUME NEW i \in 1 .. c, NEW j \in 1 .. c, i < j PROVE slots[i] # slots[j]
      <3>1. slots[i] < slots[j] /\ slots[i] \in L
        BY <1>5, <2>1
      <3>2. slots[i] \in Int
        <4>1. slots[i] \in 1 .. Len(r.ids)
          BY <3>1
        <4> QED BY <1>1, <4>1
      <3> QED BY <3>1, <3>2
    <2>2. \A i, j \in 1 .. c : i < j \/ j < i \/ i = j
      OBVIOUS
    <2> QED BY <2>1, <2>2
  <1> DEFINE rank(i) == CHOOSE k \in DOMAIN slots : slots[k] = i
             h == [i \in 1 .. n |-> IF i \in L THEN slots[o[rank(i)]] ELSE i]
  <1>10. ASSUME NEW i \in L PROVE rank(i) \in 1 .. c /\ slots[rank(i)] = i
    BY <1>5, <1>6
  <1>11. Moved(r.ids, slots, o) = [i \in 1 .. n |-> r.ids[h[i]]] /\ Moved(r.tim, slots, o) = [i \in 1 .. n |-> r.tim[h[i]]]
    BY <1>1, <1>6 DEF Moved
  <1> HIDE DEF rank
  <1>12. ASSUME NEW i \in L PROVE i \in 1 .. n /\ h[i] = slots[o[rank(i)]] /\ h[i] \in L
    BY <1>1, <1>5, <1>8, <1>10
  <1>13. \A i \in (1 .. n) \ L : h[i] = i
    OBVIOUS
  <1> HIDE DEF h
  <1>14. h \in [1 .. n -> 1 .. n]
    <2>1. DOMAIN h = 1 .. n /\ h = [i \in DOMAIN h |-> h[i]]
      BY DEF h
    <2>2. \A i \in 1 .. n : h[i] \in 1 .. n
      BY <1>1, <1>12, <1>13
    <2> QED BY <2>1, <2>2
  <1>15. ASSUME NEW i \in 1 .. n, NEW j \in 1 .. n, h[i] = h[j] PROVE i = j
    <2>1. CASE i \in L /\ j \in L
      <3>1. rank(i) \in 1 .. c /\ rank(j) \in 1 .. c /\ slots[o[rank(i)]] = slots[o[rank(j)]]
        BY <1>10, <1>12, <1>15, <2>1
      <3>2. o[rank(i)] = o[rank(j)]
        <4>1. o[rank(i)] \in 1 .. c /\ o[rank(j)] \in 1 .. c
          BY <1>8, <3>1
        <4> QED BY <1>9, <3>1, <4>1
      <3>3. rank(i) = rank(j)
        BY <1>8, <3>1, <3>2
      <3> QED BY <1>10, <2>1, <3>3
    <2>2. CASE ~(i \in L /\ j \in L)
      BY <1>12, <1>13, <1>15, <2>2
    <2> QED BY <2>1, <2>2
  <1>16. ASSUME NEW y \in L PROVE \E x \in L : h[x] = y
    <2>1. PICK k \in 1 .. c : slots[k] = y
      BY <1>5
    <2>2. PICK v \in 1 .. c : o[v] = k
      BY <1>8
    <2>3. slots[v] \in L
      BY <1>5
    <2>4. rank(slots[v]) = v
      BY <1>9, <1>10, <2>3
    <2> QED BY <1>12, <2>1, <2>2, <2>3, <2>4
  <1>17. ASSUME Window > 0, NEW a \in L
         PROVE  Cardinality({j \in L : j < a}) - Cardinality({j \in L : j < h[a]}) \in (1 - 2 * Window) .. (2 * Window - 1)
    <2>1. PICK k \in 1 .. c : k = rank(a) /\ slots[k] = a
      BY <1>10
    <2>2. o[k] \in 1 .. c /\ h[a] = slots[o[k]]
      BY <1>8, <1>12, <2>1
    <2>3. Cardinality({j \in L : j < a}) = k - 1
      BY <1>5, <2>1
    <2>4. Cardinality({j \in L : j < h[a]}) = o[k] - 1
      BY <1>5, <2>2
    <2>5. k - o[k] \in (1 - 2 * Window) .. (2 * Window - 1)
      BY <1>8, <1>17
    <2> QED BY <2>2, <2>3, <2>4, <2>5
  <1>18. q.ids = [i \in 1 .. n |-> r.ids[h[i]]] /\ q.tim = [i \in 1 .. n |-> r.tim[h[i]]]
    BY <1>7, <1>11
  <1>19. RowShape(q) /\ Len(q.ids) = n /\ Exact(q, r, h) /\ Traced(q, r)
    BY <1>1, <1>14, <1>15, <1>18, ChosenTraced
  <1>20. \A i \in 1 .. n : q.tim[i] = r.tim[h[i]]
    BY <1>18
  <1>21. Shuffled(q, r, L, h)
    BY <1>1, <1>12, <1>13, <1>16, <1>17, <1>19, <1>20 DEF Shuffled
  <1> QED BY <1>21

LEMMA ReorderKeepsAnchors ==
    ASSUME NEW r, NEW q, NEW ex, RowShape(r), RowShape(ex), NEW P, NEW M \in SUBSET P, EosId \in P,
           Anchored(r, ex, M), NEW h, Shuffled(q, r, Free(r.ids, P), h)
    PROVE  Anchored(q, ex, M)
  <1>1. PICK n \in Nat : n = Len(r.ids) /\ DOMAIN r.ids = 1 .. n /\ n >= 1
    BY DEF RowShape, IsSeq, Anchored
  <1>2. ASSUME NEW i \in 1 .. n, r.ids[i] \in P PROVE q.ids[i] = r.ids[i] /\ q.tim[i] = r.tim[i]
    <2>1. i \notin Free(r.ids, P)
      BY <1>2 DEF Free
    <2>2. h[i] = i
      BY <1>1, <2>1 DEF Shuffled
    <2>3. q.ids[i] = r.ids[h[i]] /\ q.tim[i] = r.tim[h[i]]
      BY <1>1 DEF Shuffled, Exact
    <2> QED BY <2>2, <2>3
  <1>3. Len(q.ids) = n
    BY <1>1 DEF Shuffled
  <1>4. q.ids[n] = EosId
    BY <1>1, <1>2 DEF Anchored
  <1>5. q.ids # <<>>
    <2> SUFFICES ASSUME q.ids = <<>> PROVE FALSE
      OBVIOUS
    <2>1. Len(q.ids) = 0
      OBVIOUS
    <2> QED BY <1>1, <1>3, <2>1
  <1>6. ASSUME NEW i \in 1 .. Len(ex.ids), \A k \in 1 .. i : ex.ids[k] \in M
        PROVE  i \in 1 .. Len(q.ids) /\ q.ids[i] = ex.ids[i] /\ q.tim[i] = ex.tim[i]
    <2>1. i \in 1 .. n /\ r.ids[i] = ex.ids[i] /\ r.tim[i] = ex.tim[i]
      BY <1>1, <1>6 DEF Anchored
    <2>2. ex.ids[i] \in M
      <3>1. i \in 1 .. i
        BY <2>1
      <3> QED BY <1>6, <3>1
    <2> QED BY <1>2, <1>3, <2>1, <2>2
  <1> QED BY <1>3, <1>4, <1>5, <1>6 DEF Anchored

LEMMA ReorderKeepsFree ==
    ASSUME NEW r, NEW q, RowShape(r), NEW P, NEW h, Shuffled(q, r, Free(r.ids, P), h)
    PROVE  Free(q.ids, P) = Free(r.ids, P)
  <1> DEFINE L == Free(r.ids, P)
  <1>1. PICK n \in Nat : n = Len(r.ids) /\ DOMAIN r.ids = 1 .. n /\ DOMAIN q.ids = 1 .. n
    BY DEF RowShape, IsSeq, Shuffled
  <1>2. \A i \in L : i \in 1 .. n /\ r.ids[i] \notin P
    BY <1>1 DEF Free
  <1>3. \A i \in (1 .. n) \ L : r.ids[i] \in P
    BY <1>1 DEF Free
  <1> HIDE DEF L
  <1>4. \A i \in 1 .. n : q.ids[i] = r.ids[h[i]] /\ (i \in L => h[i] \in L) /\ (i \notin L => h[i] = i)
    BY <1>1 DEF Shuffled, Exact, L
  <1>5. \A i \in 1 .. n : q.ids[i] \notin P <=> i \in L
    BY <1>2, <1>3, <1>4
  <1>6. Free(q.ids, P) = L
    BY <1>1, <1>2, <1>5 DEF Free
  <1> QED BY <1>6 DEF L

LEMMA ReorderKeepsPlaces ==
    ASSUME NEW r, NEW q, NEW ex, NEW P, RowShape(r), RowShape(ex), Window \in Nat, Placed(r, ex, P, TRUE),
           NEW h, Shuffled(q, r, Free(r.ids, P), h)
    PROVE  Placed(q, ex, P, FALSE)
  <1> DEFINE L == Free(r.ids, P)
  <1>1. PICK g : Exact(r, ex, g) /\ Increasing(g, Len(r.ids))
    BY DEF Placed
  <1>2. PICK n \in Nat : n = Len(r.ids) /\ n = Len(q.ids) /\ DOMAIN r.ids = 1 .. n
    BY DEF RowShape, IsSeq, Shuffled
  <1> DEFINE f == [i \in 1 .. Len(q.ids) |-> g[h[i]]]
  <1>3. Exact(q, ex, f)
    <2>1. RowShape(q) /\ Exact(q, r, h)
      BY DEF Shuffled
    <2> QED BY <1>1, <2>1, ExactThrough
  <1>4. Free(q.ids, P) = L
    BY ReorderKeepsFree
  <1>5. L \in SUBSET (1 .. n)
    BY <1>2 DEF Free
  <1> HIDE DEF L
  <1>6. /\ \A i \in L : h[i] \in L
        /\ \A y \in L : \E x \in L : h[x] = y
        /\ Window > 0 => \A a \in L : Cardinality({j \in L : j < a}) - Cardinality({j \in L : j < h[a]})
                                         \in (1 - 2 * Window) .. (2 * Window - 1)
    BY DEF Shuffled, L
  <1>7. \A i, j \in 1 .. n : h[i] = h[j] => i = j
    BY <1>2 DEF Shuffled, Exact, From
  <1>8. ASSUME NEW i \in L, NEW j \in L PROVE f[i] < f[j] <=> h[i] < h[j]
    <2>1. h[i] \in 1 .. n /\ h[j] \in 1 .. n /\ f[i] = g[h[i]] /\ f[j] = g[h[j]]
      BY <1>2, <1>5, <1>6
    <2>2. g[h[i]] \in Int /\ g[h[j]] \in Int
      <3>1. Len(ex.ids) \in Nat
        BY DEF RowShape, IsSeq
      <3>2. g \in [1 .. n -> 1 .. Len(ex.ids)]
        BY <1>1, <1>2 DEF Exact, From
      <3> QED BY <2>1, <3>1, <3>2
    <2>3. (h[i] < h[j] => g[h[i]] < g[h[j]]) /\ (h[j] < h[i] => g[h[j]] < g[h[i]])
      BY <1>1, <1>2, <2>1 DEF Increasing
    <2> QED BY <2>1, <2>2, <2>3
  <1>9. ASSUME NEW a \in L PROVE Cardinality({i \in L : f[i] < f[a]}) = Cardinality({j \in L : j < h[a]})
    <2> DEFINE S == {i \in L : f[i] < f[a]}
               T == {j \in L : j < h[a]}
               e == [i \in S |-> h[i]]
    <2> HIDE DEF f
    <2>1. \A i \in S : e[i] \in T
      BY <1>6, <1>8
    <2>2. \A z \in T : \E i \in S : e[i] = z
      BY <1>6, <1>8
    <2>3. \A i, j \in S : e[i] = e[j] => i = j
      BY <1>5, <1>7
    <2>4. e \in Surjection(S, T) /\ e \in Injection(S, T)
      <3>1. DOMAIN e = S /\ e = [i \in S |-> e[i]]
        OBVIOUS
      <3> HIDE DEF e, S, T
      <3>2. e \in [S -> T]
        BY <2>1, <3>1
      <3> QED BY <2>2, <2>3, <3>2 DEF Surjection, Injection, IsInjective
    <2>5. IsFiniteSet(S) /\ IsFiniteSet(T)
      <3>1. IsFiniteSet(1 .. n)
        BY FS_Interval
      <3>2. IsFiniteSet(L)
        BY <1>5, <3>1, FS_Subset
      <3> QED BY <3>2, FS_Subset
    <2> HIDE DEF e, S, T
    <2> QED BY <2>4, <2>5, FS_Surjection DEF S, T
  <1> HIDE DEF f
  <1>10. Window > 0 => Near(f, L)
    BY <1>6, <1>9 DEF Near
  <1> QED BY <1>3, <1>4, <1>10 DEF Placed

\* Noise on some of the timing values.
Noised(q, r, F) ==
    q.ids = r.ids /\ q.tim = [i \in DOMAIN r.tim |-> IF i \in F THEN Noise(r.tim[i]) ELSE r.tim[i]]

LEMMA NoiseIs ==
    ASSUME NEW r, NEW q, RowShape(r), NEW F, Noised(q, r, F)
    PROVE  /\ RowShape(q) /\ Len(q.ids) = Len(r.ids) /\ Traced(q, r)
           /\ \A i \in 1 .. Len(r.ids) : q.tim[i].ms = r.tim[i].ms /\ (i \notin F => q.tim[i] = r.tim[i])
  <1>1. PICK n \in Nat : n = Len(r.ids) /\ r.tim \in [1 .. n -> Timing] /\ n = Len(r.tim) /\ DOMAIN r.tim = 1 .. n
    BY DEF RowShape, IsSeq
  <1>2. \A t \in Timing : Noise(t) \in Timing /\ Noise(t).ms = t.ms
    BY DEF Timing, Noise
  <1>3. q.tim \in [1 .. n -> Timing]
    BY <1>1, <1>2 DEF Noised
  <1>4. q.tim \in Seq(Timing) /\ Len(q.tim) = n
    BY <1>3
  <1>5. RowShape(q) /\ Len(q.ids) = n
    BY <1>1, <1>4 DEF RowShape, Noised
  <1>6. \A i \in 1 .. n : q.tim[i].ms = r.tim[i].ms /\ (i \notin F => q.tim[i] = r.tim[i])
    BY <1>1, <1>2 DEF Noised
  <1>7. Traced(q, r)
    <2>1. \A i \in 1 .. Len(r.ids) : (q.ids[i] = r.ids[i] \/ q.ids[i] = OovId) /\ q.tim[i].ms = r.tim[i].ms
      BY <1>1, <1>6 DEF Noised
    <2> QED BY <1>1, <1>5, <2>1, SameTraced
  <1> QED BY <1>1, <1>5, <1>6, <1>7

LEMMA NoiseKeeps ==
    ASSUME NEW r, NEW q, NEW ex, RowShape(r), RowShape(ex), NEW P, NEW M \in SUBSET P, Noised(q, r, Free(r.ids, P))
    PROVE  /\ Anchored(r, ex, M) => Anchored(q, ex, M)
           /\ Placed(r, ex, P, FALSE) => Placed(q, ex, P, FALSE)
  <1>1. /\ RowShape(q) /\ Len(q.ids) = Len(r.ids) /\ q.ids = r.ids
        /\ \A i \in 1 .. Len(r.ids) : q.tim[i].ms = r.tim[i].ms /\ (i \notin Free(r.ids, P) => q.tim[i] = r.tim[i])
    <2>1. PICK F : F = Free(r.ids, P)
      OBVIOUS
    <2>2. Noised(q, r, F)
      BY <2>1
    <2>3. /\ RowShape(q) /\ Len(q.ids) = Len(r.ids)
          /\ \A i \in 1 .. Len(r.ids) : q.tim[i].ms = r.tim[i].ms /\ (i \notin F => q.tim[i] = r.tim[i])
      BY <2>2, NoiseIs
    <2>4. q.ids = r.ids
      BY <2>2 DEF Noised
    <2> QED BY <2>1, <2>3, <2>4
  <1>2. ASSUME Anchored(r, ex, M) PROVE Anchored(q, ex, M)
    <2> SUFFICES ASSUME NEW i \in 1 .. Len(ex.ids), \A k \in 1 .. i : ex.ids[k] \in M
                 PROVE  i \in 1 .. Len(q.ids) /\ q.ids[i] = ex.ids[i] /\ q.tim[i] = ex.tim[i]
      BY <1>1, <1>2 DEF Anchored
    <2>1. i \in 1 .. Len(r.ids) /\ r.ids[i] = ex.ids[i] /\ r.tim[i] = ex.tim[i]
      BY <1>2 DEF Anchored
    <2>2. ex.ids[i] \in M
      <3>1. Len(ex.ids) \in Nat
        BY DEF RowShape, IsSeq
      <3>2. i \in 1 .. i
        BY <3>1
      <3> QED BY <3>2
    <2>3. i \notin Free(r.ids, P)
      BY <2>1, <2>2 DEF Free
    <2> QED BY <1>1, <2>1, <2>3
  <1>3. ASSUME Placed(r, ex, P, FALSE) PROVE Placed(q, ex, P, FALSE)
    <2>1. PICK g : Exact(r, ex, g) /\ (Window > 0 => Near(g, Free(r.ids, P)))
      BY <1>3 DEF Placed
    <2>2. Exact(q, ex, g)
      BY <1>1, <2>1 DEF Exact, From
    <2> QED BY <1>1, <2>1, <2>2 DEF Placed
  <1> QED BY <1>2, <1>3

-----------------------------------------------------------------------------
(* Encoding and padding *)

LEMMA LeastOf == ASSUME NEW x \in Int, NEW y \in Int PROVE Min({x, y}) \in {x, y} /\ Min({x, y}) <= x /\ Min({x, y}) <= y
  <1> DEFINE Least(z) == \A w \in {x, y} : z =< w
  <1>1. \E z \in {x, y} : Least(z)
    <2>1. CASE x <= y
      BY <2>1
    <2>2. CASE y <= x
      BY <2>2
    <2> QED BY <2>1, <2>2
  <1>2. Min({x, y}) = CHOOSE z \in {x, y} : Least(z)
    BY DEF Min
  <1> HIDE DEF Least
  <1>3. Min({x, y}) \in {x, y} /\ Least(Min({x, y}))
    BY <1>1, <1>2
  <1> QED BY <1>3 DEF Least

LEMMA GreatestOf == ASSUME NEW x \in Int, NEW y \in Int PROVE Max({x, y}) \in {x, y} /\ Max({x, y}) >= x /\ Max({x, y}) >= y
  <1> DEFINE Most(z) == \A w \in {x, y} : z >= w
  <1>1. \E z \in {x, y} : Most(z)
    <2>1. CASE x <= y
      BY <2>1
    <2>2. CASE y <= x
      BY <2>2
    <2> QED BY <2>1, <2>2
  <1>2. Max({x, y}) = CHOOSE z \in {x, y} : Most(z)
    BY DEF Max
  <1> HIDE DEF Most
  <1>3. Max({x, y}) \in {x, y} /\ Most(Max({x, y}))
    BY <1>1, <1>2
  <1> QED BY <1>3 DEF Most

LEMMA MaxIs ==
    ASSUME NEW S \in SUBSET Int, IsFiniteSet(S), S # {}
    PROVE  Max(S) \in S /\ \A x \in S : x <= Max(S)
  <1>1. PICK c \in Nat \ {0} : c = Cardinality(S)
    BY FS_CardinalityType, FS_EmptySet
  <1> DEFINE A == Ascending(S)
  <1>2. InAscent(A, S)
    BY AscendingIs
  <1> HIDE DEF A
  <1>3. /\ A \in [1 .. c -> S] /\ \A i, j \in 1 .. c : i < j => A[i] < A[j]
        /\ \A x \in S : \E i \in 1 .. c : A[i] = x
    BY <1>1, <1>2 DEF InAscent
  <1>4. A[c] \in S /\ \A x \in S : A[c] >= x
    <2>1. c \in 1 .. c /\ A[c] \in S /\ A[c] \in Int
      <3>1. c \in 1 .. c
        OBVIOUS
      <3>2. A[c] \in S
        BY <1>3, <3>1
      <3> QED BY <3>1, <3>2
    <2> SUFFICES ASSUME NEW x \in S PROVE A[c] >= x
      BY <2>1
    <2>2. PICK i \in 1 .. c : A[i] = x
      BY <1>3
    <2>3. i < c \/ i = c
      OBVIOUS
    <2>4. x \in Int
      OBVIOUS
    <2> QED BY <1>3, <2>1, <2>2, <2>3, <2>4
  <1> DEFINE Most(z) == \A y \in S : z >= y
  <1>5. \E z \in S : Most(z)
    BY <1>4
  <1>6. Max(S) = CHOOSE z \in S : Most(z)
    BY DEF Max
  <1> HIDE DEF Most
  <1>7. Max(S) \in S /\ Most(Max(S))
    BY <1>5, <1>6
  <1> QED BY <1>7 DEF Most

\* What _pad appends.
PaddedTo(s, width, with) == s \o [i \in 1 .. width - Len(s) |-> with]

LEMMA PadIs ==
    ASSUME NEW s, IsSeq(s), NEW width \in Nat, Len(s) <= width, NEW with
    PROVE  /\ Len(PaddedTo(s, width, with)) = width /\ DOMAIN PaddedTo(s, width, with) = 1 .. width
           /\ SubSeq(PaddedTo(s, width, with), 1, Len(s)) = s
           /\ \A i \in 1 .. width : i > Len(s) => PaddedTo(s, width, with)[i] = with
  <1>1. PICK n \in Nat : n = Len(s) /\ n <= width
    BY DEF IsSeq
  <1> DEFINE T == Range(s) \cup {with}
             e == [i \in 1 .. width - n |-> with]
             p == s \o e
  <1>2. s \in Seq(T)
    <2>1. s \in Seq(Range(s))
      BY DEF IsSeq
    <2>2. Range(s) \subseteq T
      OBVIOUS
    <2> HIDE DEF T
    <2> QED BY <2>1, <2>2
  <1>3. e \in Seq(T) /\ Len(e) = width - n
    <2>1. width - n \in Nat /\ e \in [1 .. width - n -> T]
      BY <1>1
    <2> HIDE DEF e, T
    <2>2. e \in Seq(T)
      BY <2>1
    <2> QED BY <2>1, <2>2
  <1>4. PaddedTo(s, width, with) = p
    BY <1>1 DEF PaddedTo
  <1>5. \A i \in 1 .. width - n : e[i] = with
    OBVIOUS
  <1> HIDE DEF e, T
  <1>6. p \in Seq(T) /\ Len(p) = width /\ DOMAIN p = 1 .. width
    BY <1>1, <1>2, <1>3
  <1>7. \A i \in 1 .. width : p[i] = IF i <= n THEN s[i] ELSE e[i - n]
    BY <1>1, <1>2, <1>3
  <1>8. SubSeq(p, 1, n) = s
    <2> HIDE DEF p
    <2>1. SubSeq(p, 1, n) \in Seq(T) /\ Len(SubSeq(p, 1, n)) = n
      BY <1>1, <1>6
    <2>2. \A i \in 1 .. n : SubSeq(p, 1, n)[i] = s[i]
      BY <1>1, <1>6, <1>7
    <2> QED BY <1>1, <1>2, <2>1, <2>2, SeqEqual
  <1>9. \A i \in 1 .. width : i > n => p[i] = with
    <2> SUFFICES ASSUME NEW i \in 1 .. width, i > n PROVE p[i] = with
      OBVIOUS
    <2>1. i - n \in 1 .. width - n /\ ~(i <= n)
      BY <1>1
    <2> HIDE DEF p
    <2> QED BY <1>5, <1>7, <2>1
  <1> QED BY <1>1, <1>4, <1>6, <1>8, <1>9

\* A padded batch is its rows.
PaddedExactly(b, rs) ==
    \A r \in DOMAIN b.ids :
        LET n == Len(rs[r].ids)
        IN  /\ Len(b.ids[r]) = Len(b.mask[r]) /\ Len(b.tim[r]) = Len(b.mask[r])
            /\ SubSeq(b.ids[r], 1, n) = rs[r].ids /\ SubSeq(b.tim[r], 1, n) = rs[r].tim
            /\ {i \in DOMAIN b.mask[r] : b.mask[r][i] = 1} = 1 .. n
            /\ \A i \in DOMAIN b.mask[r] : i > n => b.ids[r][i] = PadId

LEMMA PadViewsIs ==
    ASSUME NEW rs, IsSeq(rs), \A r \in DOMAIN rs : RowShape(rs[r])
    PROVE  PaddedExactly(PadViews(rs), rs)
  <1> DEFINE lengths == {Len(rs[r].ids) : r \in DOMAIN rs}
             width == Max(lengths)
             b == PadViews(rs)
  <1>1. /\ b.ids = [r \in DOMAIN rs |-> PaddedTo(rs[r].ids, width, PadId)]
        /\ b.tim = [r \in DOMAIN rs |-> PaddedTo(rs[r].tim, width, Clean(0))]
        /\ b.mask = [r \in DOMAIN rs |-> [i \in 1 .. width |-> IF i <= Len(rs[r].ids) THEN 1 ELSE 0]]
    BY DEF PadViews, PaddedTo, AttentionMask
  <1> HIDE DEF b
  <1> SUFFICES ASSUME NEW r \in DOMAIN rs
               PROVE  LET n == Len(rs[r].ids)
                      IN  /\ Len(b.ids[r]) = Len(b.mask[r]) /\ Len(b.tim[r]) = Len(b.mask[r])
                          /\ SubSeq(b.ids[r], 1, n) = rs[r].ids /\ SubSeq(b.tim[r], 1, n) = rs[r].tim
                          /\ {i \in DOMAIN b.mask[r] : b.mask[r][i] = 1} = 1 .. n
                          /\ \A i \in DOMAIN b.mask[r] : i > n => b.ids[r][i] = PadId
    <2>1. DOMAIN b.ids = DOMAIN rs
      BY <1>1
    <2> HIDE DEF lengths, width
    <2> QED BY <2>1 DEF PaddedExactly, b
  <1>2. Len(rs[r].ids) \in Nat /\ IsSeq(rs[r].ids) /\ IsSeq(rs[r].tim) /\ Len(rs[r].tim) = Len(rs[r].ids)
    <2>1. RowShape(rs[r])
      OBVIOUS
    <2>2. IsSeq(rs[r].tim)
      BY <2>1, SeqIs DEF RowShape
    <2> QED BY <2>1, <2>2 DEF RowShape, IsSeq
  <1>3. width \in Nat /\ Len(rs[r].ids) <= width
    <2>1. \A x \in DOMAIN rs : Len(rs[x].ids) \in Nat
      BY DEF RowShape, IsSeq
    <2>2. lengths \in SUBSET Int /\ lengths # {} /\ lengths \in SUBSET Nat /\ Len(rs[r].ids) \in lengths
      <3>1. \A l \in lengths : l \in Nat
        BY <2>1
      <3>2. Len(rs[r].ids) \in lengths
        BY Zenon
      <3> HIDE DEF lengths
      <3> QED BY <3>1, <3>2
    <2>3. IsFiniteSet(lengths)
      <3>1. IsFiniteSet(DOMAIN rs)
        <4>1. Len(rs) \in Nat /\ DOMAIN rs = 1 .. Len(rs)
          BY DEF IsSeq
        <4>2. IsFiniteSet(1 .. Len(rs))
          BY <4>1, FS_Interval
        <4> QED BY <4>1, <4>2
      <3> DEFINE f == [x \in DOMAIN rs |-> Len(rs[x].ids)]
      <3>2. f \in Surjection(DOMAIN rs, lengths)
        BY DEF Surjection
      <3> HIDE DEF f, lengths
      <3> QED BY <3>1, <3>2, FS_Surjection
    <2> HIDE DEF lengths
    <2> QED BY <2>2, <2>3, MaxIs
  <1> HIDE DEF lengths, width
  <1>4. PICK n \in Nat : n = Len(rs[r].ids) /\ n = Len(rs[r].tim) /\ n <= width
    BY <1>2, <1>3
  <1>5. b.ids[r] = PaddedTo(rs[r].ids, width, PadId) /\ b.tim[r] = PaddedTo(rs[r].tim, width, Clean(0))
    BY <1>1
  <1>6. b.mask[r] = [i \in 1 .. width |-> IF i <= n THEN 1 ELSE 0]
    <2>1. b.mask[r] = [i \in 1 .. width |-> IF i <= Len(rs[r].ids) THEN 1 ELSE 0]
      BY <1>1
    <2> QED BY <1>4, <2>1, Zenon
  <1>7. /\ Len(b.ids[r]) = width /\ SubSeq(b.ids[r], 1, n) = rs[r].ids
        /\ \A i \in 1 .. width : i > n => b.ids[r][i] = PadId
    <2>1. PICK s : s = rs[r].ids /\ IsSeq(s) /\ Len(s) = n
      BY <1>2, <1>4
    <2>2. /\ Len(PaddedTo(s, width, PadId)) = width /\ SubSeq(PaddedTo(s, width, PadId), 1, Len(s)) = s
          /\ \A i \in 1 .. width : i > Len(s) => PaddedTo(s, width, PadId)[i] = PadId
      BY <1>3, <1>4, <2>1, PadIs
    <2> QED BY <1>5, <2>1, <2>2
  <1>8. Len(b.tim[r]) = width /\ SubSeq(b.tim[r], 1, n) = rs[r].tim
    <2>1. PICK s : s = rs[r].tim /\ IsSeq(s) /\ Len(s) = n
      BY <1>2, <1>4
    <2>2. Len(PaddedTo(s, width, Clean(0))) = width /\ SubSeq(PaddedTo(s, width, Clean(0)), 1, Len(s)) = s
      BY <1>3, <1>4, <2>1, PadIs
    <2> QED BY <1>5, <2>1, <2>2
  <1>9. DOMAIN b.mask[r] = 1 .. width /\ Len(b.mask[r]) = width
    <2>1. DOMAIN b.mask[r] = 1 .. width /\ b.mask[r] \in [1 .. width -> {0, 1}]
      BY <1>6
    <2>2. b.mask[r] \in Seq({0, 1})
      BY <1>3, <2>1
    <2> QED BY <1>3, <2>1, <2>2
  <1>10. {i \in DOMAIN b.mask[r] : b.mask[r][i] = 1} = 1 .. n
    <2>1. \A i \in 1 .. width : b.mask[r][i] = 1 <=> i <= n
      BY <1>6
    <2>2. {i \in 1 .. width : i <= n} = 1 .. n
      BY <1>3, <1>4
    <2>3. {i \in DOMAIN b.mask[r] : b.mask[r][i] = 1} = {i \in 1 .. width : i <= n}
      BY <1>9, <2>1, Zenon
    <2> QED BY <2>2, <2>3
  <1> QED BY <1>4, <1>7, <1>8, <1>9, <1>10

\* An example ends with <eos>, and its channels have one length.
Framed(ex) == RowShape(ex) /\ ex.ids # <<>> /\ ex.ids[Len(ex.ids)] = EosId

LEMMA GapIs ==
    ASSUME NEW s, IsSession(s), NEW i \in 1 .. Len(s.cmds)
    PROVE  Gap(s, i) \in Int
  <1>1. Len(s.cmds) \in Nat /\ DOMAIN s.cmds = 1 .. Len(s.cmds)
    BY DEF IsSession
  <1>2. CASE i = 1
    BY <1>2 DEF Gap
  <1>3. CASE i # 1
    <2>1. i \in DOMAIN s.cmds /\ i - 1 \in DOMAIN s.cmds
      BY <1>1, <1>3
    <2>2. s.cmds[i].off \in Int /\ s.cmds[i - 1].off \in Int
      BY <2>1 DEF IsSession
    <2>3. PICK x \in Int : x = s.cmds[i].off - s.cmds[i - 1].off
      BY <2>2
    <2>4. Max({x, 0}) \in {x, 0}
      <3>1. 0 \in Int
        OBVIOUS
      <3> QED BY <3>1, GreatestOf, Zenon
    <2>5. Gap(s, i) = Max({x, 0})
      BY <1>3, <2>3 DEF Gap
    <2> QED BY <2>4, <2>5
  <1> QED BY <1>2, <1>3

LEMMA DurationIs == ASSUME NEW s, IsSession(s) PROVE EffectiveDuration(s) \in Int
  <1>1. CASE s.cmds = <<>> \/ s.dur # None
    BY <1>1 DEF EffectiveDuration, IsSession
  <1>2. CASE s.cmds # <<>> /\ s.dur = None
    <2>1. Len(s.cmds) \in Nat /\ DOMAIN s.cmds = 1 .. Len(s.cmds) /\ Len(s.cmds) # 0
      BY <1>2 DEF IsSession
    <2>2. Len(s.cmds) \in DOMAIN s.cmds
      BY <2>1
    <2>3. EffectiveDuration(s) = s.cmds[Len(s.cmds)].off
      BY <1>2 DEF EffectiveDuration, Last
    <2> QED BY <2>2, <2>3 DEF IsSession
  <1> QED BY <1>1, <1>2

LEMMA JoinIs ==
    ASSUME NEW S, NEW a \in Seq(S), NEW b \in Seq(S), NEW c \in Seq(S), NEW d \in Seq(S), NEW e \in S
    PROVE  LET w == a \o b \o c \o d \o <<e>>
           IN  w \in Seq(S) /\ Len(w) = Len(a) + Len(b) + Len(c) + Len(d) + 1 /\ w[Len(w)] = e
  <1>1. PICK v \in Seq(S) : v = a \o b \o c \o d /\ Len(v) = Len(a) + Len(b) + Len(c) + Len(d)
    <2>1. a \o b \in Seq(S) /\ Len(a \o b) = Len(a) + Len(b)
      OBVIOUS
    <2>2. (a \o b) \o c \in Seq(S) /\ Len((a \o b) \o c) = Len(a) + Len(b) + Len(c)
      BY <2>1
    <2>3. ((a \o b) \o c) \o d \in Seq(S) /\ Len(((a \o b) \o c) \o d) = Len((a \o b) \o c) + Len(d)
      BY <2>2
    <2> QED BY <2>2, <2>3
  <1>2. v \o <<e>> \in Seq(S) /\ Len(v \o <<e>>) = Len(v) + 1 /\ (v \o <<e>>)[Len(v) + 1] = e
    OBVIOUS
  <1> QED BY <1>1, <1>2

LEMMA MetaIs ==
    ASSUME NEW s, IsSession(s)
    PROVE  \E m \in Nat : DOMAIN MetaTokens(s) = 1 .. m
  <1> DEFINE auth == [i \in DOMAIN s.auth |-> CredentialToken(s.auth[i])]
             T == Range(auth) \cup {BannerToken(s.banner)}
             head == IF s.banner # Blank THEN <<BannerToken(s.banner)>> ELSE <<>>
  <1>1. PICK k \in Nat : DOMAIN s.auth = 1 .. k
    BY DEF IsSession
  <1>2. auth \in Seq(T)
    <2>1. \A i \in 1 .. k : auth[i] \in T
      BY <1>1 DEF Range
    <2>2. auth \in [1 .. k -> T]
      <3>1. auth = [i \in 1 .. k |-> auth[i]]
        BY <1>1
      <3> HIDE DEF auth, T
      <3> QED BY <2>1, <3>1
    <2> HIDE DEF auth, T
    <2> QED BY <2>2
  <1>3. head \in Seq(T)
    <2>1. BannerToken(s.banner) \in T
      OBVIOUS
    <2> HIDE DEF T
    <2> QED BY <2>1
  <1>4. MetaTokens(s) = head \o auth
    BY DEF MetaTokens
  <1> HIDE DEF head, auth, T
  <1>5. MetaTokens(s) \in Seq(T)
    BY <1>2, <1>3, <1>4
  <1> QED BY <1>5

LEMMA EncodeIs ==
    ASSUME NEW t, NEW s, IsSession(s), NEW limit \in Nat
    PROVE  Framed(Encode(t, s, limit))
  <1>1. PICK n \in Nat : n = Limit(s, limit) /\ n <= Len(s.cmds)
    <2>1. Len(s.cmds) \in Nat
      BY DEF IsSession
    <2>2. PICK l \in Int : l = Len(s.cmds)
      BY <2>1
    <2>3. limit \in Int
      OBVIOUS
    <2>4. Min({l, limit}) \in {l, limit} /\ Min({l, limit}) <= l
      BY <2>3, LeastOf
    <2> QED BY <2>1, <2>2, <2>4 DEF Limit
  <1> DEFINE extra == IF t.meta THEN [i \in DOMAIN MetaTokens(s) |-> IdOf(t, MetaTokens(s)[i])] ELSE <<>>
             codes == [i \in 1 .. n |-> EncodeCommand(t, s.cmds[i].raw)]
             front == IF t.meta THEN <<DurId>> ELSE <<>>
             span == IF t.meta THEN <<Clean(EffectiveDuration(s))>> ELSE <<>>
             gaps == Gaps(s, n)
             ex == Encode(t, s, limit)
             Ids == {BosId, DurId, EosId} \cup Range(extra) \cup Range(codes)
  <1>2. PICK x \in Nat : DOMAIN extra = 1 .. x /\ extra \in Seq(Ids) /\ Len(extra) = x
    <2>1. PICK m \in Nat : DOMAIN MetaTokens(s) = 1 .. m
      BY MetaIs
    <2>2. \E y \in Nat : DOMAIN extra = 1 .. y /\ extra = [i \in 1 .. y |-> extra[i]]
      <3>1. CASE t.meta
        <4>1. DOMAIN extra = 1 .. m /\ extra = [i \in 1 .. m |-> extra[i]]
          BY <2>1, <3>1
        <4> QED BY <4>1
      <3>2. CASE ~t.meta
        <4>1. extra = <<>>
          BY <3>2
        <4> HIDE DEF extra
        <4>2. DOMAIN extra = 1 .. 0 /\ extra = [i \in 1 .. 0 |-> extra[i]]
          BY <4>1
        <4> QED BY <4>2
      <3> QED BY <3>1, <3>2
    <2>3. PICK y \in Nat : DOMAIN extra = 1 .. y /\ extra = [i \in 1 .. y |-> extra[i]]
      BY <2>2
    <2>4. \A i \in 1 .. y : extra[i] \in Ids
      <3> HIDE DEF extra, codes
      <3> QED BY <2>3 DEF Range
    <2> HIDE DEF extra, Ids
    <2>5. extra \in [1 .. y -> Ids]
      BY <2>3, <2>4
    <2>6. extra \in Seq(Ids) /\ Len(extra) = y
      BY <2>5
    <2> QED BY <2>3, <2>6
  <1>3. codes \in Seq(Ids) /\ Len(codes) = n
    <2>1. \A i \in 1 .. n : codes[i] \in Ids
      <3> HIDE DEF extra
      <3> QED BY DEF Range
    <2>2. codes = [i \in 1 .. n |-> codes[i]]
      OBVIOUS
    <2> HIDE DEF codes, Ids, extra
    <2>3. codes \in [1 .. n -> Ids]
      BY <2>1, <2>2
    <2> QED BY <2>3
  <1>4. BosId \in Ids /\ DurId \in Ids /\ EosId \in Ids
    OBVIOUS
  <1>5. ex.ids = <<BosId>> \o front \o extra \o codes \o <<EosId>>
    BY <1>1 DEF Encode
  <1>6. ex.tim = Zeros(1) \o span \o Zeros(Len(extra)) \o gaps \o Zeros(1)
    BY <1>1 DEF Encode
  <1> HIDE DEF extra, codes, Ids, ex
  <1>7. front \in Seq(Ids) /\ <<BosId>> \in Seq(Ids) /\ Len(front) \in Nat
    BY <1>4
  <1> DEFINE w == <<BosId>> \o front \o extra \o codes \o <<EosId>>
  <1>8. w \in Seq(Ids) /\ Len(w) = 1 + Len(front) + x + n + 1 /\ w[Len(w)] = EosId
    <2>1. w \in Seq(Ids) /\ Len(w) = Len(<<BosId>>) + Len(front) + Len(extra) + Len(codes) + 1 /\ w[Len(w)] = EosId
      <3> HIDE DEF front
      <3>1. PICK a \in Seq(Ids) : a = <<BosId>>
        BY <1>7
      <3>2. LET u == a \o front \o extra \o codes \o <<EosId>>
            IN  u \in Seq(Ids) /\ Len(u) = Len(a) + Len(front) + Len(extra) + Len(codes) + 1 /\ u[Len(u)] = EosId
        BY <1>2, <1>3, <1>4, <1>7, JoinIs
      <3> QED BY <3>1, <3>2
    <2> QED BY <1>2, <1>3, <2>1
  <1>9. Clean(0) \in Timing /\ \A k \in Int : Clean(k) \in Timing
    BY DEF Clean, Timing
  <1>10. \A k \in Nat : Zeros(k) \in Seq(Timing) /\ Len(Zeros(k)) = k
    <2> SUFFICES ASSUME NEW k \in Nat PROVE Zeros(k) \in Seq(Timing) /\ Len(Zeros(k)) = k
      OBVIOUS
    <2>1. Zeros(k) \in [1 .. k -> Timing]
      BY <1>9 DEF Zeros
    <2> QED BY <2>1
  <1>11. span \in Seq(Timing) /\ Len(span) = Len(front)
    BY <1>9, DurationIs
  <1>12. gaps \in Seq(Timing) /\ Len(gaps) = n
    <2>1. \A i \in 1 .. n : Gap(s, i) \in Int
      <3> SUFFICES ASSUME NEW i \in 1 .. n PROVE Gap(s, i) \in Int
        OBVIOUS
      <3>1. i \in 1 .. Len(s.cmds)
        <4>1. Len(s.cmds) \in Nat
          BY DEF IsSession
        <4> QED BY <1>1, <4>1
      <3> QED BY <3>1, GapIs
    <2>2. gaps \in [1 .. n -> Timing]
      BY <1>9, <2>1 DEF Gaps
    <2> HIDE DEF gaps
    <2> QED BY <2>2
  <1>13. Zeros(1) = <<Clean(0)>>
    BY DEF Zeros
  <1> DEFINE v == Zeros(1) \o span \o Zeros(Len(extra)) \o gaps \o <<Clean(0)>>
  <1>14. v \in Seq(Timing) /\ Len(v) = 1 + Len(front) + x + n + 1
    <2> HIDE DEF span, gaps, front
    <2>1. v \in Seq(Timing) /\ Len(v) = Len(Zeros(1)) + Len(span) + Len(Zeros(Len(extra))) + Len(gaps) + 1
      <3>1. Zeros(1) \in Seq(Timing) /\ Zeros(Len(extra)) \in Seq(Timing)
        BY <1>2, <1>10
      <3> QED BY <1>9, <1>11, <1>12, <3>1, JoinIs
    <2> QED BY <1>2, <1>10, <1>11, <1>12, <2>1
  <1>15. ex.ids = w /\ ex.tim = v
    BY <1>5, <1>6, <1>13
  <1>16. IsSeq(ex.ids) /\ ex.tim \in Seq(Timing) /\ Len(ex.ids) = Len(ex.tim)
    <2> HIDE DEF w, v
    <2> QED BY <1>8, <1>14, <1>15, SeqIs
  <1>17. ex.ids # <<>> /\ ex.ids[Len(ex.ids)] = EosId
    <2> HIDE DEF w, v, front
    <2>1. w # <<>>
      <3> SUFFICES ASSUME w = <<>> PROVE FALSE
        OBVIOUS
      <3>1. Len(w) = 0
        OBVIOUS
      <3> QED BY <1>7, <1>8, <3>1
    <2> QED BY <1>8, <1>15, <2>1
  <1>18. Framed(ex)
    BY <1>16, <1>17 DEF Framed, RowShape
  <1> QED BY <1>18 DEF ex

-----------------------------------------------------------------------------
(* Loading *)

Stamps == {e.ts : e \in Events}
Commands == [ts : Int \cap Stamps, raw : {e.raw : e \in Events}]
Accumulators == [sid : {e.sid : e \in Events}, start : Int \cap (Stamps \cup {None}), evs : Seq(Commands), dur : Int]

LEMMA ObserveIs == ASSUME NEW a \in Accumulators, NEW e \in Events PROVE Observe(a, e) \in Accumulators
  <1>1. e.ts \in Int /\ e.dur \in Int
    BY ViewsAssumption
  <1>2. StartAfter(a, e) \in Int \cap (Stamps \cup {None})
    BY <1>1 DEF StartAfter, ObserveStart, Accumulators, Stamps
  <1>3. [ts |-> e.ts, raw |-> e.raw] \in Commands
    BY <1>1 DEF Commands, Stamps
  <1>4. \A c \in Commands : Append(a.evs, c) \in Seq(Commands)
    BY DEF Accumulators
  <1> QED BY <1>1, <1>2, <1>3, <1>4 DEF Observe, Accumulators

LEMMA AccumulateIs ==
    ASSUME acc \in Seq(Accumulators), NEW e \in Events
    PROVE  Accumulate(e) \in Seq(Accumulators)
  <1>1. CASE \E n \in DOMAIN acc : acc[n].sid = e.sid
    <2>1. \A n \in DOMAIN acc : acc[n] \in Accumulators /\ Observe(acc[n], e) \in Accumulators
      BY ObserveIs
    <2>2. Accumulate(e) \in [DOMAIN acc -> Accumulators]
      BY <1>1, <2>1 DEF Accumulate
    <2>3. DOMAIN acc = 1 .. Len(acc) /\ Len(acc) \in Nat
      OBVIOUS
    <2> QED BY <2>2, <2>3
  <1>2. CASE ~\E n \in DOMAIN acc : acc[n].sid = e.sid
    <2>1. Fresh(e.sid) \in Accumulators
      BY DEF Fresh, Accumulators, None
    <2>2. Observe(Fresh(e.sid), e) \in Accumulators
      BY <2>1, ObserveIs
    <2>3. Append(acc, Observe(Fresh(e.sid), e)) \in Seq(Accumulators)
      BY <2>2
    <2> QED BY <1>2, <2>3 DEF Accumulate
  <1> QED BY <1>1, <1>2

LEMMA PickIs ==
    ASSUME NEW S, NEW s \in Seq(S), NEW T \in SUBSET DOMAIN s
    PROVE  Pick(s, T) \in Seq(S)
  <1>1. PICK n \in Nat : n = Len(s) /\ DOMAIN s = 1 .. n
    OBVIOUS
  <1>2. IsFiniteSet(T) /\ T \in SUBSET Int
    <2>1. IsFiniteSet(1 .. n)
      BY FS_Interval
    <2> QED BY <1>1, <2>1, FS_Subset
  <1> DEFINE A == Ascending(T)
  <1>3. InAscent(A, T)
    BY <1>2, AscendingIs
  <1> HIDE DEF A
  <1>4. PICK c \in Nat : A \in [1 .. c -> T]
    BY <1>3 DEF InAscent
  <1>5. \A i \in 1 .. c : s[A[i]] \in S
    BY <1>1, <1>4
  <1>6. Pick(s, T) = [i \in 1 .. c |-> s[A[i]]]
    BY <1>4 DEF Pick, A
  <1>7. Pick(s, T) \in [1 .. c -> S]
    BY <1>5, <1>6
  <1> QED BY <1>7

LEMMA PickFrom ==
    ASSUME NEW S, NEW s \in Seq(S), NEW T \in SUBSET DOMAIN s, NEW R, \A m \in T : s[m] \in R
    PROVE  Pick(s, T) \in Seq(R)
  <1>1. PICK n \in Nat : n = Len(s) /\ DOMAIN s = 1 .. n
    OBVIOUS
  <1>2. IsFiniteSet(T) /\ T \in SUBSET Int
    <2>1. IsFiniteSet(1 .. n)
      BY FS_Interval
    <2> QED BY <1>1, <2>1, FS_Subset
  <1> DEFINE A == Ascending(T)
  <1>3. InAscent(A, T)
    BY <1>2, AscendingIs
  <1> HIDE DEF A
  <1>4. PICK c \in Nat : A \in [1 .. c -> T]
    BY <1>3 DEF InAscent
  <1>5. \A i \in 1 .. c : s[A[i]] \in R
    BY <1>4
  <1>6. Pick(s, T) = [i \in 1 .. c |-> s[A[i]]]
    BY <1>4 DEF Pick, A
  <1>7. Pick(s, T) \in [1 .. c -> R]
    BY <1>5, <1>6
  <1> QED BY <1>7

\* The time order of commands, with the order of arrival among equals.
Earlier(evs) ==
    [j \in DOMAIN evs |-> {i \in DOMAIN evs : evs[i].ts < evs[j].ts \/ (evs[i].ts = evs[j].ts /\ i < j)}]

LEMMA TimeOrderIs ==
    ASSUME NEW evs \in Seq(Commands)
    PROVE  /\ Enumerates(Ranked(Earlier(evs)), Earlier(evs), 1 .. Len(evs))
           /\ Cardinality(1 .. Len(evs)) = Len(evs)
  <1>1. PICK n \in Nat : n = Len(evs) /\ DOMAIN evs = 1 .. n
    OBVIOUS
  <1>2. \A i \in 1 .. n : evs[i].ts \in Int
    <2>1. \A i \in 1 .. n : evs[i] \in Commands
      BY <1>1
    <2> QED BY <2>1 DEF Commands
  <1> DEFINE pred == Earlier(evs)
             Stamp(i) == evs[i].ts
  <1>3. pred \in [1 .. n -> SUBSET (1 .. n)]
    BY <1>1 DEF Earlier
  <1>4. \A i, j \in 1 .. n : i \in pred[j] <=> (Stamp(i) < Stamp(j) \/ (Stamp(i) = Stamp(j) /\ i < j))
    BY <1>1 DEF Earlier
  <1> HIDE DEF pred, Stamp
  <1>5. \A i \in 1 .. n : Stamp(i) \in Int
    BY <1>2 DEF Stamp
  <1>6. \A x \in 1 .. n : x \notin pred[x]
    BY <1>4, <1>5
  <1>7. \A x, y \in 1 .. n : x # y => x \in pred[y] \/ y \in pred[x]
    BY <1>4, <1>5
  <1>8. \A x, y \in 1 .. n : y \in pred[x] => pred[y] \subseteq pred[x]
    <2> SUFFICES ASSUME NEW x \in 1 .. n, NEW y \in 1 .. n, y \in pred[x], NEW z \in pred[y] PROVE z \in pred[x]
      OBVIOUS
    <2>1. z \in 1 .. n
      BY <1>3
    <2>2. Stamp(x) \in Int /\ Stamp(y) \in Int /\ Stamp(z) \in Int
      BY <1>5, <2>1
    <2>3. (Stamp(y) < Stamp(x) \/ (Stamp(y) = Stamp(x) /\ y < x)) /\ (Stamp(z) < Stamp(y) \/ (Stamp(z) = Stamp(y) /\ z < y))
      BY <1>4, <2>1
    <2>4. Stamp(z) < Stamp(x) \/ (Stamp(z) = Stamp(x) /\ z < x)
      BY <2>1, <2>2, <2>3
    <2> QED BY <1>4, <2>1, <2>4
  <1>9. Ordering(1 .. n, pred)
    BY <1>3, <1>6, <1>7, <1>8 DEF Ordering
  <1>10. IsFiniteSet(1 .. n) /\ Cardinality(1 .. n) = n
    BY FS_Interval
  <1>11. Enumerates(Ranked(pred), pred, 1 .. n)
    BY <1>9, <1>10, RankedIs
  <1> QED BY <1>1, <1>10, <1>11 DEF pred

LEMMA InTimeOrderIs ==
    ASSUME NEW evs \in Seq(Commands)
    PROVE  InTimeOrder(evs) \in Seq(Commands) /\ Len(InTimeOrder(evs)) = Len(evs)
  <1>1. PICK n \in Nat : n = Len(evs) /\ DOMAIN evs = 1 .. n
    OBVIOUS
  <1> DEFINE A == Ranked(Earlier(evs))
  <1>2. InTimeOrder(evs) = [i \in 1 .. n |-> evs[A[i]]]
    BY <1>1 DEF InTimeOrder, Earlier
  <1>3. Enumerates(A, Earlier(evs), 1 .. n) /\ Cardinality(1 .. n) = n
    BY <1>1, TimeOrderIs
  <1> HIDE DEF A
  <1>4. A \in [1 .. n -> 1 .. n]
    BY <1>3 DEF Enumerates
  <1>5. \A i \in 1 .. n : evs[A[i]] \in Commands
    BY <1>1, <1>4
  <1>6. InTimeOrder(evs) \in [1 .. n -> Commands]
    BY <1>2, <1>5
  <1> QED BY <1>1, <1>6

\* The offset of a stamp from a start: the span, cut off to milliseconds or one less.
LEMMA OffsetIs ==
    ASSUME NEW x \in Int \cap Stamps, NEW y \in Int \cap Stamps
    PROVE  /\ Offset(x - y) \in Nat
           /\ x <= y => Offset(x - y) = 0
           /\ x > y => PerMs * Offset(x - y) <= x - y /\ x - y <= PerMs * Offset(x - y) + PerMs
  <1>1. CASE x <= y
    <2>1. ~(x - y > 0)
      BY <1>1
    <2> QED BY <1>1, <2>1 DEF Offset
  <1>2. CASE x > y
    <2>1. x - y > 0 /\ ~(x <= y)
      BY <1>2
    <2>2. x - y \in {e.ts - g.ts : e, g \in Events}
      BY DEF Stamps
    <2>3. x - y \in Spans
      BY <2>1, <2>2 DEF Spans
    <2>4. Offset(x - y) = Millis(x - y)
      BY <2>1 DEF Offset
    <2> QED BY <2>1, <2>3, <2>4, MillisAssumption
  <1> QED BY <1>1, <1>2

LEMMA OffsetGrows ==
    ASSUME NEW x \in Int \cap Stamps, NEW z \in Int \cap Stamps, NEW y \in Int \cap Stamps, x <= z
    PROVE  Offset(x - y) <= Offset(z - y)
  <1>1. CASE x <= y
    BY <1>1, OffsetIs
  <1>2. CASE x > y
    <2>1. x - y > 0 /\ z - y > 0 /\ x - y <= z - y
      BY <1>2
    <2>2. x - y \in {e.ts - g.ts : e, g \in Events} /\ z - y \in {e.ts - g.ts : e, g \in Events}
      BY DEF Stamps
    <2>3. x - y \in Spans /\ z - y \in Spans
      BY <2>1, <2>2 DEF Spans
    <2>4. Offset(x - y) = Millis(x - y) /\ Offset(z - y) = Millis(z - y)
      BY <2>1 DEF Offset
    <2> QED BY <2>1, <2>3, <2>4, MillisAssumption
  <1> QED BY <1>1, <1>2

LEMMA FinalizeIs == ASSUME NEW a \in Accumulators, a.start # None PROVE IsSession(Finalize(a))
  <1> DEFINE evs == InTimeOrder(a.evs)
             cmds == [i \in DOMAIN evs |-> [ts |-> evs[i].ts, raw |-> evs[i].raw, off |-> Offset(evs[i].ts - a.start)]]
  <1>1. a.evs \in Seq(Commands) /\ a.start \in Int /\ a.dur \in Int
    BY DEF Accumulators
  <1>2. evs \in Seq(Commands)
    BY <1>1, InTimeOrderIs
  <1>3. Finalize(a).cmds = cmds /\ Finalize(a).dur = a.dur /\ Finalize(a).auth = <<>>
    BY DEF Finalize
  <1> HIDE DEF evs
  <1>4. PICK n \in Nat : DOMAIN evs = 1 .. n
    BY <1>2
  <1>5. ASSUME NEW i \in 1 .. n PROVE cmds[i].off \in Int /\ cmds[i].raw \in Seq(Range(cmds[i].raw))
    <2>1. evs[i] \in Commands
      BY <1>2, <1>4
    <2>2. PICK e \in Events : e.raw = evs[i].raw
      BY <2>1 DEF Commands
    <2>3. evs[i].raw \in Seq(Range(evs[i].raw))
      BY <2>2, ViewsAssumption
    <2>4. PICK x \in Int \cap Stamps, y \in Int \cap Stamps : x = evs[i].ts /\ y = a.start
      BY <2>1 DEF Commands, Accumulators
    <2>5. Offset(x - y) \in Int
      BY OffsetIs
    <2>6. cmds[i].off = Offset(x - y) /\ cmds[i].raw = evs[i].raw
      BY <1>4, <2>4
    <2> QED BY <2>3, <2>5, <2>6
  <1>6. cmds \in Seq(Range(cmds)) /\ DOMAIN cmds = 1 .. n
    <2>1. DOMAIN cmds = 1 .. n /\ cmds = [i \in 1 .. n |-> cmds[i]]
      BY <1>4
    <2> HIDE DEF cmds
    <2>2. cmds \in [1 .. n -> Range(cmds)]
      BY <2>1 DEF Range
    <2> QED BY <2>1, <2>2
  <1>7. <<>> \in Seq(Range(<<>>))
    OBVIOUS
  <1> HIDE DEF cmds
  <1> QED BY <1>1, <1>3, <1>5, <1>6, <1>7 DEF IsSession

LoadedTyped == IsSeq(sessions) /\ \A n \in DOMAIN sessions : IsSession(sessions[n])

LEMMA EndFileLoads ==
    ASSUME LoadedTyped, acc \in Seq(Accumulators), EndFile
    PROVE  LoadedTyped'
  <1> DEFINE kept == Pick(acc, {n \in DOMAIN acc : Kept(acc[n])})
             new == [n \in DOMAIN kept |-> Finalize(kept[n])]
             started == {a \in Accumulators : a.start # None}
             S == Range(sessions) \cup {Finalize(a) : a \in started}
  <1>1. kept \in Seq(started)
    <2>1. {n \in DOMAIN acc : Kept(acc[n])} \in SUBSET DOMAIN acc
      OBVIOUS
    <2>2. \A m \in {n \in DOMAIN acc : Kept(acc[n])} : acc[m] \in started
      BY DEF Kept
    <2> HIDE DEF started
    <2> QED BY <2>1, <2>2, PickFrom
  <1>2. sessions' = sessions \o new
    BY DEF EndFile
  <1> HIDE DEF kept
  <1> HIDE DEF started
  <1>3. PICK m \in Nat : DOMAIN kept = 1 .. m /\ \A i \in 1 .. m : kept[i] \in started
    BY <1>1
  <1>4. new \in Seq(S)
    <2>1. \A i \in 1 .. m : Finalize(kept[i]) \in S
      BY <1>3
    <2> HIDE DEF S
    <2>2. new \in [1 .. m -> S]
      BY <1>3, <2>1
    <2> QED BY <2>2
  <1>5. sessions \in Seq(S)
    <2>1. sessions \in Seq(Range(sessions))
      BY DEF LoadedTyped, IsSeq
    <2>2. Range(sessions) \subseteq S
      OBVIOUS
    <2> HIDE DEF S
    <2> QED BY <2>1, <2>2
  <1>6. \A s \in S : IsSession(s)
    <2>1. \A s \in Range(sessions) : IsSession(s)
      BY DEF LoadedTyped, Range
    <2>2. \A a \in started : IsSession(Finalize(a))
      BY FinalizeIs DEF started
    <2> QED BY <2>1, <2>2
  <1> HIDE DEF S, new
  <1>7. sessions' \in Seq(S)
    BY <1>2, <1>4, <1>5
  <1>8. IsSeq(sessions')
    BY <1>7, SeqIs
  <1>9. \A n \in DOMAIN sessions' : IsSession(sessions'[n])
    BY <1>6, <1>7
  <1> QED BY <1>8, <1>9 DEF LoadedTyped

-----------------------------------------------------------------------------
(* Views of examples *)

\* What holds of a view of ex, at every stage.
View(r, ex, P, M, reid, ordered) ==
    /\ RowShape(r) /\ Traced(r, ex) /\ (Len(r.ids) >= MinLength \/ Len(r.ids) >= Len(ex.ids))
    /\ reid => Anchored(r, ex, M) /\ Placed(r, ex, P, ordered) /\ (Free(ex.ids, P) # {} => Free(r.ids, P) # {})

LEMMA ExampleIsView ==
    ASSUME NEW ex, Framed(ex), NEW P, NEW M, NEW reid, Window \in Nat
    PROVE  View(ex, ex, P, M, reid, TRUE)
  <1>1. RowShape(ex) /\ Len(ex.ids) \in Nat /\ DOMAIN ex.ids = 1 .. Len(ex.ids)
    BY DEF Framed, RowShape, IsSeq
  <1> DEFINE g == [i \in 1 .. Len(ex.ids) |-> i]
  <1>2. From(ex, ex, g) /\ Traced(ex, ex)
    BY <1>1, SameTraced
  <1>3. Exact(ex, ex, g)
    BY <1>2 DEF Exact
  <1>4. g \in [1 .. Len(ex.ids) -> 1 .. Len(ex.ids)] /\ Increasing(g, Len(ex.ids))
    BY DEF Increasing
  <1> HIDE DEF g
  <1>5. Window > 0 => Near(g, Free(ex.ids, P))
    <2>1. Free(ex.ids, P) \in SUBSET (1 .. Len(ex.ids))
      BY <1>1 DEF Free
    <2>2. Window > 0 => Window \in Nat \ {0}
      OBVIOUS
    <2> QED BY <1>1, <1>4, <2>1, <2>2, IncreasingIsNear
  <1>6. Placed(ex, ex, P, TRUE)
    BY <1>3, <1>4, <1>5 DEF Placed
  <1>7. Anchored(ex, ex, M)
    BY DEF Framed, Anchored
  <1>8. Len(ex.ids) >= Len(ex.ids)
    BY <1>1
  <1> QED BY <1>1, <1>2, <1>6, <1>7, <1>8 DEF View

LEMMA ViewStays ==
    ASSUME NEW r, NEW q, NEW ex, NEW P, NEW M, NEW reid, NEW was \in BOOLEAN, NEW ordered \in BOOLEAN,
           View(r, ex, P, M, reid, was), ordered => was, q.ids = r.ids, q.tim = r.tim
    PROVE  View(q, ex, P, M, reid, ordered)
  <1>1. RowShape(q) /\ (Len(q.ids) >= MinLength \/ Len(q.ids) >= Len(ex.ids))
    BY DEF View, RowShape
  <1>2. Traced(q, ex)
    BY DEF View, Traced, From
  <1>3. Anchored(r, ex, M) => Anchored(q, ex, M)
    BY DEF Anchored
  <1>4. Placed(r, ex, P, was) => Placed(q, ex, P, ordered)
    <2> SUFFICES ASSUME Placed(r, ex, P, was) PROVE Placed(q, ex, P, ordered)
      OBVIOUS
    <2>1. PICK g : Exact(r, ex, g) /\ (was => Increasing(g, Len(r.ids))) /\ (Window > 0 => Near(g, Free(r.ids, P)))
      BY DEF Placed
    <2>2. Exact(q, ex, g)
      BY <2>1 DEF Exact, From
    <2> QED BY <2>1, <2>2 DEF Placed
  <1> QED BY <1>1, <1>2, <1>3, <1>4 DEF View

\* A view that is not of a re-identification corpus may be any part of its example.
LEMMA PartIsView ==
    ASSUME NEW r, NEW q, NEW ex, RowShape(ex), NEW P, NEW M, NEW was, View(r, ex, P, M, FALSE, was),
           RowShape(q), Traced(q, r), Len(q.ids) >= MinLength \/ Len(q.ids) = Len(r.ids)
    PROVE  View(q, ex, P, M, FALSE, FALSE)
  <1>1. RowShape(r) /\ Traced(r, ex) /\ (Len(r.ids) >= MinLength \/ Len(r.ids) >= Len(ex.ids))
    BY DEF View
  <1>2. Traced(q, ex)
    BY <1>1, TracedThrough
  <1> QED BY <1>1, <1>2 DEF View

LEMMA DropIsView ==
    ASSUME NEW r, NEW q, NEW ex, RowShape(ex), Window \in Nat, MinLength \in Nat, NEW P, NEW M \in SUBSET P, EosId \in P,
           View(r, ex, P, M, TRUE, TRUE), NEW D \in SUBSET Free(r.ids, P), Drops(q, r, D),
           Len(r.ids) - Cardinality(D) >= MinLength, \A i \in D : Cardinality(Free(r.ids, P) \ {j \in D : j < i}) > 1
    PROVE  View(q, ex, P, M, TRUE, TRUE)
  <1>1. RowShape(r) /\ Traced(r, ex) /\ Anchored(r, ex, M) /\ Placed(r, ex, P, TRUE)
    BY DEF View
  <1>2. Len(r.ids) \in Nat /\ DOMAIN r.ids = 1 .. Len(r.ids)
    BY <1>1 DEF RowShape, IsSeq
  <1>3. D \in SUBSET (1 .. Len(r.ids)) /\ Free(r.ids, P) \in SUBSET (1 .. Len(r.ids))
    BY <1>2 DEF Free
  <1>4. Thinned(q, r, D, (1 .. Len(r.ids)) \ D, Ascending((1 .. Len(r.ids)) \ D))
    BY <1>1, <1>3, DropIs
  <1>5. RowShape(q) /\ Traced(q, r) /\ Len(q.ids) >= MinLength
    BY <1>4 DEF Thinned
  <1>6. Anchored(q, ex, M)
    BY <1>1, DropKeepsAnchors
  <1>7. Placed(q, ex, P, TRUE)
    BY <1>1, <1>3, DropKeepsPlaces
  <1>8. Free(r.ids, P) # {} => Free(q.ids, P) # {}
    <2> SUFFICES ASSUME Free(r.ids, P) # {} PROVE Free(q.ids, P) # {}
      OBVIOUS
    <2>1. PICK F \in SUBSET (1 .. Len(r.ids)) : F = Free(r.ids, P)
      BY <1>3
    <2>2. F # D
      BY <1>2, <2>1, RoomLeavesOne
    <2> QED BY <1>1, <2>1, <2>2, DropKeepsOne
  <1>9. Traced(q, ex)
    BY <1>1, <1>5, TracedThrough
  <1> QED BY <1>5, <1>6, <1>7, <1>8, <1>9 DEF View

LEMMA ReorderIsView ==
    ASSUME NEW r, NEW q, NEW ex, RowShape(ex), Window \in Nat, NEW P, NEW M \in SUBSET P, EosId \in P,
           View(r, ex, P, M, TRUE, TRUE), Reorders(q, r, Free(r.ids, P))
    PROVE  View(q, ex, P, M, TRUE, FALSE)
  <1>1. RowShape(r) /\ Traced(r, ex) /\ Anchored(r, ex, M) /\ Placed(r, ex, P, TRUE)
    BY DEF View
  <1>2. Free(r.ids, P) \in SUBSET (1 .. Len(r.ids))
    BY <1>1 DEF Free, RowShape, IsSeq
  <1>3. PICK h : Shuffled(q, r, Free(r.ids, P), h)
    BY <1>1, <1>2, ReorderIs
  <1>4. RowShape(q) /\ Traced(q, r) /\ Len(q.ids) = Len(r.ids)
    BY <1>3 DEF Shuffled
  <1>5. Anchored(q, ex, M)
    BY <1>1, <1>3, ReorderKeepsAnchors
  <1>6. Placed(q, ex, P, FALSE)
    BY <1>1, <1>3, ReorderKeepsPlaces
  <1>7. Free(q.ids, P) = Free(r.ids, P)
    BY <1>1, <1>3, ReorderKeepsFree
  <1>8. Traced(q, ex)
    BY <1>1, <1>4, TracedThrough
  <1> QED BY <1>4, <1>5, <1>6, <1>7, <1>8 DEF View

LEMMA NoiseIsView ==
    ASSUME NEW r, NEW q, NEW ex, RowShape(ex), NEW P, NEW M \in SUBSET P,
           View(r, ex, P, M, TRUE, FALSE), Noised(q, r, Free(r.ids, P))
    PROVE  View(q, ex, P, M, TRUE, FALSE)
  <1>1. RowShape(r) /\ Traced(r, ex) /\ Anchored(r, ex, M) /\ Placed(r, ex, P, FALSE)
    BY DEF View
  <1>2. PICK F : F = Free(r.ids, P) /\ Noised(q, r, F)
    OBVIOUS
  <1>3. RowShape(q) /\ Len(q.ids) = Len(r.ids) /\ Traced(q, r)
    BY <1>1, <1>2, NoiseIs
  <1>4. Anchored(q, ex, M) /\ Placed(q, ex, P, FALSE)
    BY <1>1, NoiseKeeps
  <1>5. Free(q.ids, P) = Free(r.ids, P)
    BY DEF Noised
  <1>6. Traced(q, ex)
    BY <1>1, <1>3, TracedThrough
  <1> QED BY <1>3, <1>4, <1>5, <1>6 DEF View

-----------------------------------------------------------------------------
(* The inductive invariant *)

Anchors == {BosId} \cup MetadataIds(tok)
Stages == IF collator = "reid" THEN {"drop", "reorder", "reid_jitter", "ready"}
          ELSE {"crop", "dropout", "mask", "jitter", "ready"}
Ordered(r) == r.stage \in {"drop", "reorder"}

\* The row at hand is a view of the example at hand.
RowFits(r) ==
    /\ Len(rows) + 1 \in DOMAIN examples /\ r.stage \in Stages
    /\ View(r, Example, Protected, Anchors, collator = "reid", Ordered(r))

DataTyped ==
    /\ collator \in {"contrastive", "reid"} /\ unread \in SUBSET Events /\ acc \in Seq(Accumulators)
    /\ LoadedTyped
    /\ IsSeq(examples) /\ \A n \in DOMAIN examples : Framed(examples[n])

RowsTyped == IsSeq(rows) /\ \A n \in DOMAIN rows : RowShape(rows[n])

ViewsInv ==
    /\ DataTyped /\ RowsTyped
    /\ InRow => phase = "augment" /\ RowFits(row)
    /\ padded = NoBatch \/ (phase = "done" /\ padded = PadViews(rows))

LEMMA ViewsConstants == Window \in Nat /\ MinLength \in Nat \ {0} /\ MaxLength \in Nat /\ RowsPerBatch \in Nat
  BY ViewsAssumption

LEMMA AnchorsProtected ==
    ASSUME collator = "reid" PROVE Anchors \in SUBSET Protected /\ EosId \in Protected
  BY DEF Anchors, Protected, ReidProtected, FrameIds

LEMMA PositionsAre == ASSUME NEW ids PROVE Positions(ids) = Free(ids, Protected)
  BY DEF Positions, Free

LEMMA BecomesKeeps ==
    ASSUME ViewsInv, phase = "augment", NEW nx, NEW ids, NEW tim, Becomes(nx, ids, tim),
           RowFits([stage |-> nx, ids |-> ids, tim |-> tim])
    PROVE  ViewsInv'
  <1>1. /\ row' = [stage |-> nx, ids |-> ids, tim |-> tim] /\ UNCHANGED <<phase, rows, padded>>
        /\ UNCHANGED <<collator, unread, acc, files, sessions, tok, examples>>
    BY DEF Becomes, data
  <1>2. PICK q : q = [stage |-> nx, ids |-> ids, tim |-> tim] /\ RowFits(q) /\ row' = q
    BY <1>1
  <1>3. RowFits(row)'
    <2>1. Example' = Example /\ Protected' = Protected /\ Anchors' = Anchors /\ Stages' = Stages
      BY <1>1 DEF Example, Protected, ReidProtected, FrameIds, Anchors, Stages
    <2> QED BY <1>1, <1>2, <2>1 DEF RowFits, Ordered
  <1>4. DataTyped' /\ RowsTyped'
    BY <1>1 DEF ViewsInv, DataTyped, LoadedTyped, RowsTyped
  <1> QED BY <1>1, <1>3, <1>4 DEF ViewsInv

LEMMA NextExampleKeeps == ASSUME ViewsInv, NextExample PROVE ViewsInv'
  <1>1. phase = "augment" /\ Len(rows) < InBatch
    BY DEF NextExample, At
  <1>2. Len(rows) + 1 \in DOMAIN examples
    <2>1. Len(rows) \in Nat /\ Len(examples) \in Nat /\ DOMAIN examples = 1 .. Len(examples)
      BY DEF ViewsInv, DataTyped, RowsTyped, IsSeq
    <2>2. PICK l \in Int, b \in Int : l = Len(examples) /\ b = RowsPerBatch
      <3>1. Len(examples) \in Int /\ RowsPerBatch \in Int
        BY <2>1, ViewsConstants
      <3> QED BY <3>1
    <2>3. Min({b, l}) \in {b, l} /\ Min({b, l}) <= l
      BY LeastOf
    <2>4. InBatch = Min({b, l})
      BY <2>2 DEF InBatch
    <2> QED BY <1>1, <2>1, <2>2, <2>3, <2>4
  <1> DEFINE ex == examples[Len(rows) + 1]
             nx == IF collator = "reid" THEN "drop" ELSE "crop"
             q == [stage |-> nx, ids |-> ex.ids, tim |-> ex.tim]
  <1>3. Framed(ex) /\ Example = ex
    BY <1>2 DEF ViewsInv, DataTyped, Example
  <1>4. Becomes(nx, ex.ids, ex.tim)
    BY DEF NextExample
  <1>5. q.ids = ex.ids /\ q.tim = ex.tim /\ q.stage = nx
    OBVIOUS
  <1> HIDE DEF ex, q
  <1>6. View(ex, ex, Protected, Anchors, collator = "reid", TRUE)
    BY <1>3, ViewsConstants, ExampleIsView
  <1>7. View(q, ex, Protected, Anchors, collator = "reid", Ordered(q))
    <2>1. PICK reid, was \in BOOLEAN, ordered \in BOOLEAN :
              reid = (collator = "reid") /\ was = TRUE /\ ordered = Ordered(q)
      <3>1. (collator = "reid") \in BOOLEAN /\ TRUE \in BOOLEAN /\ Ordered(q) \in BOOLEAN
        BY DEF Ordered
      <3> QED BY <3>1, Zenon
    <2>2. View(ex, ex, Protected, Anchors, reid, was) /\ (ordered => was)
      BY <1>6, <2>1
    <2>3. View(q, ex, Protected, Anchors, reid, ordered)
      BY <1>5, <2>2, ViewStays
    <2> QED BY <2>1, <2>3
  <1>8. q.stage \in Stages
    BY <1>5 DEF Stages
  <1>9. RowFits(q)
    BY <1>2, <1>3, <1>7, <1>8 DEF RowFits
  <1> QED BY <1>1, <1>4, <1>9, BecomesKeeps DEF q

\* What a stage starts from.
LEMMA StageHas ==
    ASSUME ViewsInv, NEW st, st # "none", At(st)
    PROVE  /\ phase = "augment" /\ RowFits(row) /\ row.stage = st /\ st \in Stages
           /\ RowShape(Example) /\ RowShape(row) /\ Len(row.ids) \in Nat /\ DOMAIN row.ids = 1 .. Len(row.ids)
  <1>1. phase = "augment" /\ row.stage = st /\ RowFits(row)
    BY DEF At, ViewsInv, InRow
  <1>2. RowShape(Example)
    BY <1>1 DEF RowFits, ViewsInv, DataTyped, Framed, Example
  <1>3. RowShape(row) /\ st \in Stages
    BY <1>1 DEF RowFits, View
  <1> QED BY <1>1, <1>2, <1>3 DEF RowShape, IsSeq

\* A stage of the contrastive augmenter may take any part of the row.
LEMMA PartFits ==
    ASSUME ViewsInv, NEW st \in {"crop", "dropout", "mask", "jitter"}, At(st),
           NEW nx \in {"dropout", "mask", "jitter", "ready"}, NEW ids, NEW tim, NEW q, q = [stage |-> nx, ids |-> ids, tim |-> tim],
           RowShape(q), Traced(q, row), Len(ids) >= MinLength \/ Len(ids) = Len(row.ids), Becomes(nx, ids, tim)
    PROVE  ViewsInv'
  <1>1. phase = "augment" /\ RowFits(row) /\ st \in Stages /\ RowShape(Example)
    BY StageHas
  <1>2. (collator = "reid") = FALSE /\ nx \in Stages
    BY <1>1 DEF Stages
  <1>3. q.ids = ids /\ q.stage = nx
    OBVIOUS
  <1>4. PICK was : View(row, Example, Protected, Anchors, FALSE, was)
    BY <1>1, <1>2 DEF RowFits
  <1>5. View(q, Example, Protected, Anchors, FALSE, FALSE)
    BY <1>1, <1>3, <1>4, PartIsView
  <1>6. Ordered(q) = FALSE
    BY <1>3 DEF Ordered
  <1>7. RowFits(q)
    BY <1>1, <1>2, <1>3, <1>5, <1>6 DEF RowFits
  <1> QED BY <1>1, <1>7, BecomesKeeps

LEMMA CropKeeps == ASSUME ViewsInv, TemporalCrop PROVE ViewsInv'
  <1>1. At("crop")
    BY DEF TemporalCrop
  <1>2. RowShape(row) /\ Len(row.ids) \in Nat /\ Len(row.tim) = Len(row.ids)
    BY <1>1, StageHas DEF RowShape
  <1>3. PICK n \in Nat : n = Len(row.ids)
    BY <1>2
  <1>4. PICK part \in Int : part = (6 * n + 5) \div 10
    OBVIOUS
  <1>5. PICK keep \in Int : keep = Max({MinLength, part}) /\ keep >= MinLength
    <2>1. MinLength \in Int
      BY ViewsConstants
    <2>2. Max({MinLength, part}) \in {MinLength, part} /\ Max({MinLength, part}) >= MinLength
      BY <2>1, GreatestOf
    <2> QED BY <2>1, <2>2
  <1>6. PICK start \in 1 .. (IF keep >= n THEN 1 ELSE n - keep + 1) :
           LET end == IF keep >= n THEN n ELSE start + keep - 1
           IN  Becomes("dropout", SubSeq(row.ids, start, end), SubSeq(row.tim, start, end))
    BY <1>3, <1>4, <1>5 DEF TemporalCrop
  <1>7. PICK end \in Int : end = IF keep >= n THEN n ELSE start + keep - 1
    BY <1>6
  <1>8. PICK m \in Nat : m = end - start + 1 /\ (m >= MinLength \/ m = n)
    <2>1. MinLength \in Nat \ {0}
      BY ViewsConstants
    <2>2. CASE keep >= n
      BY <1>6, <1>7, <2>1, <2>2
    <2>3. CASE ~(keep >= n)
      BY <1>5, <1>6, <1>7, <2>1, <2>3
    <2> QED BY <2>2, <2>3
  <1>9. start \in Nat \ {0} /\ end <= n
    BY <1>5, <1>6, <1>7, ViewsConstants
  <1> DEFINE ids == SubSeq(row.ids, start, end)
             tim == SubSeq(row.tim, start, end)
             h == [i \in 1 .. m |-> start + i - 1]
  <1>10. h \in [1 .. m -> 1 .. Len(row.ids)] /\ \A i, j \in 1 .. m : h[i] = h[j] => i = j
    BY <1>3, <1>8, <1>9
  <1>11. ids = [i \in 1 .. m |-> row.ids[h[i]]] /\ tim = [i \in 1 .. m |-> row.tim[h[i]]]
    <2>1. \A i \in 1 .. m : h[i] = start + i - 1
      OBVIOUS
    <2>2. ids = [i \in 1 .. m |-> row.ids[start + i - 1]] /\ tim = [i \in 1 .. m |-> row.tim[start + i - 1]]
      <3>1. row.ids \in Seq(Range(row.ids)) /\ row.tim \in Seq(Timing)
        BY <1>2 DEF RowShape, IsSeq
      <3> QED BY <1>2, <1>3, <1>8, <1>9, <3>1
    <2> HIDE DEF h
    <2> QED BY <2>1, <2>2
  <1> DEFINE q == [stage |-> "dropout", ids |-> ids, tim |-> tim]
  <1>12. Becomes("dropout", ids, tim)
    BY <1>6, <1>7
  <1> HIDE DEF h, ids, tim
  <1>13. q.ids = ids /\ q.tim = tim
    OBVIOUS
  <1>14. RowShape(q) /\ Len(q.ids) = m /\ Traced(q, row)
    <2> HIDE DEF q
    <2>1. q.ids = [i \in 1 .. m |-> row.ids[h[i]]] /\ q.tim = [i \in 1 .. m |-> row.tim[h[i]]]
      BY <1>11, <1>13, Zenon
    <2>2. m \in Nat /\ h \in [1 .. m -> 1 .. Len(row.ids)] /\ \A i, j \in 1 .. m : h[i] = h[j] => i = j
      BY <1>8, <1>10
    <2>3. RowShape(q) /\ Len(q.ids) = m /\ Exact(q, row, h) /\ Traced(q, row)
      BY <1>2, <2>1, <2>2, ChosenTraced
    <2> QED BY <2>3
  <1>15. Len(ids) >= MinLength \/ Len(ids) = Len(row.ids)
    BY <1>3, <1>8, <1>13, <1>14
  <1> QED BY <1>1, <1>12, <1>14, <1>15, PartFits

LEMMA DropoutKeeps == ASSUME ViewsInv, CommandDropout PROVE ViewsInv'
  <1>1. At("dropout")
    BY DEF CommandDropout
  <1>2. RowShape(row) /\ Len(row.ids) \in Nat /\ DOMAIN row.ids = 1 .. Len(row.ids)
    BY <1>1, StageHas
  <1>3. PICK D \in SUBSET Positions(row.ids) :
           IF TooShort(Len(row.ids) - Cardinality(D)) THEN Becomes("mask", row.ids, row.tim)
           ELSE Becomes("mask", Without(row.ids, D), Without(row.tim, D))
    BY DEF CommandDropout
  <1>4. D \in SUBSET (1 .. Len(row.ids))
    BY <1>2 DEF Positions
  <1>5. CASE TooShort(Len(row.ids) - Cardinality(D))
    <2> DEFINE q == [stage |-> "mask", ids |-> row.ids, tim |-> row.tim]
    <2>1. q.ids = row.ids /\ q.tim = row.tim /\ RowShape(q)
      BY <1>2 DEF RowShape
    <2>2. Traced(q, row)
      <3> HIDE DEF q
      <3> QED BY <1>2, <2>1, SameTraced
    <2>3. Becomes("mask", row.ids, row.tim)
      BY <1>3, <1>5
    <2> QED BY <1>1, <2>1, <2>2, <2>3, PartFits
  <1>6. CASE ~TooShort(Len(row.ids) - Cardinality(D))
    <2> DEFINE ids == Without(row.ids, D)
               tim == Without(row.tim, D)
               q == [stage |-> "mask", ids |-> ids, tim |-> tim]
    <2>1. q.ids = ids /\ Drops(q, row, D)
      BY DEF Drops
    <2>2. Thinned(q, row, D, (1 .. Len(row.ids)) \ D, Ascending((1 .. Len(row.ids)) \ D))
      <3> HIDE DEF q
      <3> QED BY <1>2, <1>4, <2>1, DropIs
    <2>3. RowShape(q) /\ Traced(q, row) /\ Len(q.ids) = Len(row.ids) - Cardinality(D) /\ Cardinality(D) \in Nat
      BY <2>2 DEF Thinned
    <2>4. Len(ids) >= MinLength
      BY <1>2, <1>6, <2>1, <2>3, ViewsConstants DEF TooShort
    <2>5. Becomes("mask", ids, tim)
      BY <1>3, <1>6
    <2> HIDE DEF ids, tim
    <2> QED BY <1>1, <2>1, <2>3, <2>4, <2>5, PartFits
  <1> QED BY <1>5, <1>6

LEMMA MaskKeeps == ASSUME ViewsInv, SpanMask PROVE ViewsInv'
  <1>1. At("mask")
    BY DEF SpanMask
  <1>2. RowShape(row) /\ Len(row.ids) \in Nat
    BY <1>1, StageHas
  <1>3. PICK n \in Nat : n = Len(row.ids)
    BY <1>2
  <1>4. PICK span \in 1 .. Max({1, (2 * n + 5) \div 10}), start \in 1 .. n :
           Becomes("jitter", [i \in 1 .. n |->
                      IF span < n /\ i \in start .. start + span - 1 /\ row.ids[i] \notin Protected
                      THEN OovId ELSE row.ids[i]], row.tim)
    BY <1>3 DEF SpanMask
  <1> DEFINE ids == [i \in 1 .. n |-> IF span < n /\ i \in start .. start + span - 1 /\ row.ids[i] \notin Protected
                                      THEN OovId ELSE row.ids[i]]
             q == [stage |-> "jitter", ids |-> ids, tim |-> row.tim]
             S == Range(row.ids) \cup {OovId}
  <1>5. Becomes("jitter", ids, row.tim)
    BY <1>4
  <1>6. \A i \in 1 .. n : row.ids[i] \in Range(row.ids)
    BY <1>2, <1>3 DEF RowShape, IsSeq
  <1>7. ids \in [1 .. n -> S] /\ \A i \in 1 .. n : ids[i] = row.ids[i] \/ ids[i] = OovId
    BY <1>6
  <1>8. q.ids = ids /\ q.tim = row.tim
    OBVIOUS
  <1> HIDE DEF ids, S, q
  <1>9. ids \in Seq(S) /\ Len(ids) = n
    BY <1>7
  <1>10. IsSeq(ids)
    BY <1>9, SeqIs
  <1>11. RowShape(q)
    BY <1>2, <1>3, <1>8, <1>9, <1>10 DEF RowShape
  <1>12. Traced(q, row)
    BY <1>2, <1>3, <1>7, <1>8, <1>9, <1>11, SameTraced
  <1> QED BY <1>1, <1>3, <1>5, <1>9, <1>11, <1>12, PartFits DEF q

LEMMA JitterKeeps == ASSUME ViewsInv, TimingJitter PROVE ViewsInv'
  <1>1. At("jitter")
    BY DEF TimingJitter
  <1>2. RowShape(row)
    BY <1>1, StageHas
  <1> DEFINE tim == [i \in DOMAIN row.tim |-> Noise(row.tim[i])]
             q == [stage |-> "ready", ids |-> row.ids, tim |-> tim]
             F == DOMAIN row.tim
  <1>3. Noised(q, row, F) /\ q.ids = row.ids
    BY DEF Noised
  <1>4. Becomes("ready", row.ids, tim)
    BY DEF TimingJitter
  <1> HIDE DEF q, F, tim
  <1>5. RowShape(q) /\ Len(q.ids) = Len(row.ids) /\ Traced(q, row)
    BY <1>2, <1>3, NoiseIs
  <1> QED BY <1>1, <1>3, <1>4, <1>5, PartFits DEF q

\* A stage of the re-identification augmenter, given that it keeps the view.
LEMMA ReidFits ==
    ASSUME ViewsInv, NEW st \in {"drop", "reorder", "reid_jitter"}, At(st),
           NEW nx \in {"reorder", "reid_jitter", "ready"}, NEW ids, NEW tim, NEW q, q = [stage |-> nx, ids |-> ids, tim |-> tim],
           View(q, Example, Protected, Anchors, TRUE, nx = "reorder"), Becomes(nx, ids, tim)
    PROVE  ViewsInv'
  <1>1. phase = "augment" /\ RowFits(row) /\ st \in Stages
    BY StageHas
  <1>2. collator = "reid" /\ nx \in Stages /\ q.stage = nx
    BY <1>1 DEF Stages
  <1>3. Ordered(q) = (nx = "reorder") /\ (collator = "reid") = TRUE
    BY <1>2 DEF Ordered
  <1>4. RowFits(q)
    BY <1>1, <1>2, <1>3 DEF RowFits
  <1> QED BY <1>1, <1>4, BecomesKeeps

LEMMA ReidHas ==
    ASSUME ViewsInv, NEW st \in {"drop", "reorder", "reid_jitter"}, At(st)
    PROVE  /\ collator = "reid" /\ RowShape(Example) /\ RowShape(row)
           /\ View(row, Example, Protected, Anchors, TRUE, st \in {"drop", "reorder"})
           /\ Anchors \in SUBSET Protected /\ EosId \in Protected
  <1>1. RowFits(row) /\ row.stage = st /\ st \in Stages /\ RowShape(Example) /\ RowShape(row)
    BY StageHas
  <1>2. collator = "reid" /\ (collator = "reid") = TRUE
    BY <1>1 DEF Stages
  <1>3. View(row, Example, Protected, Anchors, TRUE, st \in {"drop", "reorder"})
    BY <1>1, <1>2 DEF RowFits, Ordered
  <1> QED BY <1>1, <1>2, <1>3, AnchorsProtected

LEMMA ReidDropKeeps == ASSUME ViewsInv, ReidDropout PROVE ViewsInv'
  <1>1. At("drop")
    BY DEF ReidDropout
  <1>2. /\ RowShape(Example) /\ RowShape(row) /\ View(row, Example, Protected, Anchors, TRUE, TRUE)
        /\ Anchors \in SUBSET Protected /\ EosId \in Protected
    <2>1. PICK st \in {"drop", "reorder", "reid_jitter"} : st = "drop" /\ At(st)
      BY <1>1
    <2>2. (st \in {"drop", "reorder"}) = TRUE
      BY <2>1
    <2> QED BY <2>1, <2>2, ReidHas
  <1>3. PICK D \in SUBSET Positions(row.ids) :
           /\ \A i \in D : RoomFor(row.ids, D, i)
           /\ IF TooShort(Len(row.ids) - Cardinality(D)) THEN Becomes("reorder", row.ids, row.tim)
              ELSE Becomes("reorder", Without(row.ids, D), Without(row.tim, D))
    BY DEF ReidDropout
  <1>4. Positions(row.ids) = Free(row.ids, Protected)
    BY PositionsAre
  <1>5. CASE TooShort(Len(row.ids) - Cardinality(D))
    <2> DEFINE q == [stage |-> "reorder", ids |-> row.ids, tim |-> row.tim]
    <2>1. q.ids = row.ids /\ q.tim = row.tim
      OBVIOUS
    <2>2. View(q, Example, Protected, Anchors, TRUE, TRUE)
      <3> HIDE DEF q
      <3> QED BY <1>2, <2>1, ViewStays
    <2>3. Becomes("reorder", row.ids, row.tim)
      BY <1>3, <1>5
    <2>4. ("reorder" = "reorder") = TRUE
      OBVIOUS
    <2> QED BY <1>1, <2>2, <2>3, <2>4, ReidFits
  <1>6. CASE ~TooShort(Len(row.ids) - Cardinality(D))
    <2> DEFINE ids == Without(row.ids, D)
               tim == Without(row.tim, D)
               q == [stage |-> "reorder", ids |-> ids, tim |-> tim]
    <2>1. Drops(q, row, D)
      BY DEF Drops
    <2>2. Len(row.ids) - Cardinality(D) >= MinLength
      <3>1. Len(row.ids) \in Nat /\ DOMAIN row.ids = 1 .. Len(row.ids)
        BY <1>2 DEF RowShape, IsSeq
      <3>2. D \in SUBSET (1 .. Len(row.ids))
        BY <3>1 DEF Positions
      <3>3. Cardinality(D) \in Nat
        <4>1. PICK n \in Nat : n = Len(row.ids) /\ D \in SUBSET (1 .. n)
          BY <3>1, <3>2
        <4>2. Cardinality(D) \in 0 .. n
          BY <4>1, RestIs
        <4> QED BY <4>2
      <3> QED BY <1>6, <3>1, <3>3, ViewsConstants DEF TooShort
    <2>3. D \in SUBSET Free(row.ids, Protected) /\ \A i \in D : Cardinality(Free(row.ids, Protected) \ {j \in D : j < i}) > 1
      BY <1>3, <1>4 DEF RoomFor
    <2>4. View(q, Example, Protected, Anchors, TRUE, TRUE)
      <3> HIDE DEF q
      <3>1. MinLength \in Nat /\ Window \in Nat
        BY ViewsConstants
      <3> QED BY <1>2, <2>1, <2>2, <2>3, <3>1, DropIsView
    <2>5. Becomes("reorder", ids, tim)
      BY <1>3, <1>6
    <2> HIDE DEF ids, tim
    <2>6. ("reorder" = "reorder") = TRUE
      OBVIOUS
    <2> QED BY <1>1, <2>4, <2>5, <2>6, ReidFits
  <1> QED BY <1>5, <1>6

LEMMA ReorderKeeps == ASSUME ViewsInv, Reorder PROVE ViewsInv'
  <1>1. At("reorder")
    BY DEF Reorder
  <1>2. /\ RowShape(Example) /\ RowShape(row) /\ View(row, Example, Protected, Anchors, TRUE, TRUE)
        /\ Anchors \in SUBSET Protected /\ EosId \in Protected
    <2>1. PICK st \in {"drop", "reorder", "reid_jitter"} : st = "reorder" /\ At(st)
      BY <1>1
    <2>2. (st \in {"drop", "reorder"}) = TRUE
      BY <2>1
    <2> QED BY <2>1, <2>2, ReidHas
  <1> DEFINE L == Free(row.ids, Protected)
  <1>3. PICK order \in Orders(Len(Ascending(L))) :
           Becomes("reid_jitter", Moved(row.ids, Ascending(L), order), Moved(row.tim, Ascending(L), order))
    BY PositionsAre DEF Reorder
  <1> DEFINE ids == Moved(row.ids, Ascending(L), order)
             tim == Moved(row.tim, Ascending(L), order)
             q == [stage |-> "reid_jitter", ids |-> ids, tim |-> tim]
  <1>4. Reorders(q, row, Free(row.ids, Protected))
    BY DEF Reorders
  <1>5. Becomes("reid_jitter", ids, tim)
    BY <1>3
  <1> HIDE DEF ids, tim
  <1>6. View(q, Example, Protected, Anchors, TRUE, FALSE)
    <2> HIDE DEF q
    <2> QED BY <1>2, <1>4, ViewsConstants, ReorderIsView
  <1>7. ("reid_jitter" = "reorder") = FALSE
    OBVIOUS
  <1> QED BY <1>1, <1>5, <1>6, <1>7, ReidFits

LEMMA ReidJitterKeeps == ASSUME ViewsInv, ReidJitter PROVE ViewsInv'
  <1>1. At("reid_jitter")
    BY DEF ReidJitter
  <1>2. /\ RowShape(Example) /\ RowShape(row) /\ View(row, Example, Protected, Anchors, TRUE, FALSE)
        /\ Anchors \in SUBSET Protected
    <2>1. PICK st \in {"drop", "reorder", "reid_jitter"} : st = "reid_jitter" /\ At(st)
      BY <1>1
    <2>2. (st \in {"drop", "reorder"}) = FALSE
      BY <2>1
    <2> QED BY <2>1, <2>2, ReidHas
  <1> DEFINE tim == [i \in DOMAIN row.tim |-> IF i \in Positions(row.ids) THEN Noise(row.tim[i]) ELSE row.tim[i]]
             q == [stage |-> "ready", ids |-> row.ids, tim |-> tim]
  <1>3. Noised(q, row, Free(row.ids, Protected))
    BY PositionsAre DEF Noised
  <1>4. Becomes("ready", row.ids, tim)
    BY DEF ReidJitter
  <1> HIDE DEF tim
  <1>5. View(q, Example, Protected, Anchors, TRUE, FALSE)
    <2> HIDE DEF q
    <2> QED BY <1>2, <1>3, NoiseIsView
  <1>6. ("ready" = "reorder") = FALSE
    OBVIOUS
  <1> QED BY <1>1, <1>4, <1>5, <1>6, ReidFits

LEMMA SkipKeeps ==
    ASSUME ViewsInv, NEW st, NEW nx, Skip(st, nx), st # "none", st \in Stages => nx \in Stages,
           nx \in {"drop", "reorder"} => st \in {"drop", "reorder"}
    PROVE  ViewsInv'
  <1>1. At(st) /\ Becomes(nx, row.ids, row.tim)
    BY DEF Skip
  <1>2. phase = "augment" /\ RowFits(row) /\ row.stage = st /\ st \in Stages
    BY <1>1, StageHas
  <1> DEFINE q == [stage |-> nx, ids |-> row.ids, tim |-> row.tim]
  <1>3. q.ids = row.ids /\ q.tim = row.tim /\ q.stage = nx
    OBVIOUS
  <1> HIDE DEF q
  <1>4. View(q, Example, Protected, Anchors, collator = "reid", Ordered(q))
    <2>1. PICK reid, was \in BOOLEAN, ordered \in BOOLEAN :
              reid = (collator = "reid") /\ was = Ordered(row) /\ ordered = Ordered(q)
      <3>1. (collator = "reid") \in BOOLEAN /\ Ordered(row) \in BOOLEAN /\ Ordered(q) \in BOOLEAN
        BY DEF Ordered
      <3> QED BY <3>1, Zenon
    <2>2. View(row, Example, Protected, Anchors, reid, was)
      BY <1>2, <2>1 DEF RowFits
    <2>3. ordered => was
      BY <1>2, <1>3, <2>1 DEF Ordered
    <2>4. View(q, Example, Protected, Anchors, reid, ordered)
      BY <1>3, <2>2, <2>3, ViewStays
    <2> QED BY <2>1, <2>4
  <1>5. RowFits(q)
    BY <1>2, <1>3, <1>4 DEF RowFits
  <1> QED BY <1>1, <1>2, <1>5, BecomesKeeps DEF q

LEMMA SkipStageKeeps == ASSUME ViewsInv, SkipStage PROVE ViewsInv'
  <1>1. CASE Skip("crop", "dropout")
    BY <1>1, SkipKeeps DEF Stages
  <1>2. CASE Skip("dropout", "mask")
    BY <1>2, SkipKeeps DEF Stages
  <1>3. CASE Skip("mask", "jitter")
    BY <1>3, SkipKeeps DEF Stages
  <1>4. CASE Skip("jitter", "ready")
    BY <1>4, SkipKeeps DEF Stages
  <1>5. CASE Skip("drop", "reorder")
    BY <1>5, SkipKeeps DEF Stages
  <1>6. CASE Skip("reorder", "reid_jitter")
    BY <1>6, SkipKeeps DEF Stages
  <1>7. CASE Skip("reid_jitter", "ready")
    BY <1>7, SkipKeeps DEF Stages
  <1> QED BY <1>1, <1>2, <1>3, <1>4, <1>5, <1>6, <1>7 DEF SkipStage

LEMMA AppendRowKeeps == ASSUME ViewsInv, AppendRow PROVE ViewsInv'
  <1>1. At("ready")
    BY DEF AppendRow
  <1>2. RowShape(row) /\ phase = "augment"
    BY <1>1, StageHas
  <1> DEFINE q == [ids |-> row.ids, tim |-> row.tim]
  <1>3. RowShape(q)
    BY <1>2 DEF RowShape
  <1>4. /\ rows' = Append(rows, q) /\ row' = NoRow /\ UNCHANGED <<phase, padded>>
        /\ UNCHANGED <<collator, unread, acc, files, sessions, tok, examples>>
    BY DEF AppendRow, data
  <1> HIDE DEF q
  <1>5. RowsTyped'
    <2> DEFINE S == Range(rows) \cup {q}
    <2>1. \A x \in S : RowShape(x)
      BY <1>3 DEF ViewsInv, RowsTyped, Range
    <2>2. rows \in Seq(S) /\ q \in S
      <3>1. rows \in Seq(Range(rows)) /\ Range(rows) \subseteq S
        BY DEF ViewsInv, RowsTyped, IsSeq
      <3> HIDE DEF S
      <3>2. rows \in Seq(S)
        BY <3>1
      <3> QED BY <3>2 DEF S
    <2> HIDE DEF S
    <2>3. rows' \in Seq(S)
      BY <1>4, <2>2
    <2>4. IsSeq(rows')
      BY <2>3, SeqIs
    <2> QED BY <2>1, <2>3, <2>4 DEF RowsTyped
  <1>6. DataTyped'
    BY <1>4 DEF ViewsInv, DataTyped, LoadedTyped
  <1>7. ~InRow'
    BY <1>4 DEF InRow, NoRow
  <1>8. padded' = NoBatch
    BY <1>2, <1>4 DEF ViewsInv
  <1> QED BY <1>5, <1>6, <1>7, <1>8 DEF ViewsInv

LEMMA CollateKeeps == ASSUME ViewsInv, Collate PROVE ViewsInv'
  <1>1. row.stage = "none" /\ phase' = "done" /\ padded' = PadViews(rows) /\ UNCHANGED <<row, rows>>
        /\ UNCHANGED <<collator, unread, acc, files, sessions, tok, examples>>
    BY DEF Collate, At, data
  <1>2. DataTyped' /\ RowsTyped'
    BY <1>1 DEF ViewsInv, DataTyped, LoadedTyped, RowsTyped
  <1>3. ~InRow'
    BY <1>1 DEF InRow
  <1>4. padded' = PadViews(rows')
    BY <1>1
  <1> QED BY <1>1, <1>2, <1>3, <1>4 DEF ViewsInv

\* Before there is a row, the data may change.
LEMMA DataKeeps ==
    ASSUME ViewsInv, phase \in {"read", "failed", "fit", "encode"}, DataTyped', UNCHANGED <<row, rows, padded>>
    PROVE  ViewsInv'
  <1>1. ~InRow /\ padded = NoBatch
    BY DEF ViewsInv
  <1>2. ~InRow' /\ padded' = NoBatch /\ RowsTyped'
    BY <1>1 DEF InRow, ViewsInv, RowsTyped
  <1> QED BY <1>2 DEF ViewsInv

LEMMA ReadLineKeeps == ASSUME ViewsInv, NEW e \in Events, ReadLine(e) PROVE ViewsInv'
  <1>1. /\ phase = "read" /\ unread' = unread \ {e} /\ acc' = IF e.sid = Blank THEN acc ELSE Accumulate(e)
        /\ UNCHANGED <<collator, sessions, examples, row, rows, padded>>
    BY DEF ReadLine
  <1>2. acc' \in Seq(Accumulators)
    BY <1>1, AccumulateIs DEF ViewsInv, DataTyped
  <1>3. DataTyped'
    BY <1>1, <1>2 DEF ViewsInv, DataTyped, LoadedTyped
  <1> QED BY <1>1, <1>3, DataKeeps

LEMMA LoadAbortsKeeps == ASSUME ViewsInv, LoadAborts PROVE ViewsInv'
  <1>1. /\ phase = "read" /\ acc' = <<>> /\ sessions' = <<>>
        /\ UNCHANGED <<collator, unread, examples, row, rows, padded>>
    BY DEF LoadAborts
  <1>2. DataTyped'
    BY <1>1 DEF ViewsInv, DataTyped, LoadedTyped, IsSeq
  <1> QED BY <1>1, <1>2, DataKeeps

LEMMA EndFileKeeps == ASSUME ViewsInv, EndFile PROVE ViewsInv'
  <1>1. phase = "read" /\ acc' = <<>> /\ UNCHANGED <<collator, unread, examples, row, rows, padded>>
    BY DEF EndFile
  <1>2. LoadedTyped'
    BY EndFileLoads DEF ViewsInv, DataTyped
  <1>3. DataTyped'
    BY <1>1, <1>2 DEF ViewsInv, DataTyped
  <1> QED BY <1>1, <1>3, DataKeeps

LEMMA FitKeeps == ASSUME ViewsInv, FitTokenizer PROVE ViewsInv'
  <1>1. phase = "fit" /\ UNCHANGED <<collator, unread, acc, sessions, examples, row, rows, padded>>
    BY DEF FitTokenizer
  <1>2. DataTyped'
    BY <1>1 DEF ViewsInv, DataTyped, LoadedTyped
  <1> QED BY <1>1, <1>2, DataKeeps

LEMMA EncodeKeeps == ASSUME ViewsInv, EncodeAll PROVE ViewsInv'
  <1>1. /\ phase = "encode" /\ examples' = [n \in DOMAIN sessions |-> Encode(tok, sessions[n], MaxLength)]
        /\ UNCHANGED <<collator, unread, acc, sessions, row, rows, padded>>
    BY DEF EncodeAll
  <1>2. PICK k \in Nat : DOMAIN sessions = 1 .. k /\ \A n \in 1 .. k : IsSession(sessions[n])
    BY DEF ViewsInv, DataTyped, LoadedTyped, IsSeq
  <1>3. \A n \in 1 .. k : Framed(Encode(tok, sessions[n], MaxLength))
    BY <1>2, ViewsConstants, EncodeIs
  <1>4. DOMAIN examples' = 1 .. k /\ \A n \in 1 .. k : examples'[n] = Encode(tok, sessions[n], MaxLength)
    BY <1>1, <1>2
  <1>5. IsSeq(examples')
    <2> DEFINE S == {Encode(tok, sessions[n], MaxLength) : n \in 1 .. k}
    <2>1. \A n \in 1 .. k : Encode(tok, sessions[n], MaxLength) \in S
      OBVIOUS
    <2> HIDE DEF S
    <2>2. examples' \in [1 .. k -> S]
      BY <1>1, <1>2, <2>1
    <2>3. examples' \in Seq(S)
      BY <2>2
    <2> QED BY <2>3, SeqIs
  <1>6. DataTyped'
    BY <1>1, <1>3, <1>4, <1>5 DEF ViewsInv, DataTyped, LoadedTyped
  <1> QED BY <1>1, <1>6, DataKeeps

LEMMA ViewsInitially == ViewsInit => ViewsInv
  <1> SUFFICES ASSUME ViewsInit PROVE ViewsInv
    OBVIOUS
  <1>1. acc = <<>> /\ examples = <<>> /\ row = NoRow /\ rows = <<>> /\ padded = NoBatch
    BY DEF ViewsInit
  <1>2. collator \in {"contrastive", "reid"} /\ unread \in SUBSET Events
    BY DEF ViewsInit, Readable
  <1>3. LoadedTyped
    <2>1. CASE sessions = <<>>
      BY <2>1 DEF LoadedTyped, IsSeq
    <2>2. CASE sessions \in Corpora
      BY <2>2, ViewsAssumption DEF LoadedTyped, IsSeq
    <2> QED BY <2>1, <2>2 DEF ViewsInit
  <1>4. DataTyped /\ RowsTyped
    BY <1>1, <1>2, <1>3 DEF DataTyped, RowsTyped, IsSeq
  <1>5. ~InRow
    BY <1>1 DEF InRow, NoRow
  <1> QED BY <1>1, <1>4, <1>5 DEF ViewsInv

LEMMA ViewsKeep == ViewsInv /\ [ViewsNext]_tvars => ViewsInv'
  <1> SUFFICES ASSUME ViewsInv, [ViewsNext]_tvars PROVE ViewsInv'
    OBVIOUS
  <1>1. CASE \E e \in Events : ReadLine(e)
    BY <1>1, ReadLineKeeps
  <1>2. CASE Augment
    BY <1>2, NextExampleKeeps, CropKeeps, DropoutKeeps, MaskKeeps, JitterKeeps, ReidDropKeeps, ReorderKeeps,
       ReidJitterKeeps, SkipStageKeeps, AppendRowKeeps DEF Augment
  <1>3. CASE UNCHANGED tvars
    <2>1. UNCHANGED <<phase, collator, unread, acc, files, sessions, tok, examples, row, rows, padded>>
      BY <1>3 DEF tvars, data
    <2>2. DataTyped' /\ RowsTyped' /\ (RowFits(row)' <=> RowFits(row)) /\ (InRow' <=> InRow)
      BY <2>1 DEF ViewsInv, DataTyped, LoadedTyped, RowsTyped, RowFits, Example, Protected, ReidProtected,
                  FrameIds, Anchors, Stages, Ordered, InRow
    <2> QED BY <2>1, <2>2 DEF ViewsInv
  <1> QED BY <1>1, <1>2, <1>3, LoadAbortsKeeps, EndFileKeeps, FitKeeps, EncodeKeeps, CollateKeeps DEF ViewsNext

LEMMA InvIsSound == ASSUME ViewsInv PROVE ViewsSound
  <1>1. ASSUME InRow
        PROVE  /\ RowFits(row) /\ RowShape(row) /\ RowShape(Example) /\ Traced(row, Example)
               /\ Len(row.ids) \in Nat /\ Len(Example.ids) \in Nat
               /\ DOMAIN row.ids = 1 .. Len(row.ids) /\ DOMAIN Example.ids = 1 .. Len(Example.ids)
    <2>1. RowFits(row)
      BY <1>1 DEF ViewsInv
    <2>2. RowShape(row) /\ Traced(row, Example)
      BY <2>1 DEF RowFits, View
    <2>3. RowShape(Example)
      BY <2>1 DEF RowFits, ViewsInv, DataTyped, Framed, Example
    <2> QED BY <2>1, <2>2, <2>3 DEF RowShape, IsSeq
  <1>2. ASSUME InRow, collator = "reid"
        PROVE  /\ Anchored(row, Example, Anchors) /\ Placed(row, Example, Protected, Ordered(row))
               /\ Free(Example.ids, Protected) # {} => Free(row.ids, Protected) # {}
    BY <1>1, <1>2 DEF RowFits, View
  <1>3. AnchorsStay
    BY <1>1, <1>2 DEF AnchorsStay, Anchored, Anchors, Last
  <1>4. PairsTravel
    BY <1>1, PairsAreTraced DEF PairsTravel
  <1>5. MovesAreLocal
    <2> DEFINE L == Free(row.ids, Protected)
               pairs == {PairAt(row, i) : i \in L}
               of == {i \in Free(Example.ids, Protected) : PairAt(Example, i) \in pairs}
    <2> SUFFICES ASSUME collator = "reid", InRow, Window > 0, Cardinality(pairs) = Cardinality(of), NEW p \in pairs
                 PROVE  Rank(row, p, L) - Rank(Example, p, of) \in (1 - 2 * Window) .. (2 * Window - 1)
      BY PositionsAre, Zenon DEF MovesAreLocal
    <2>1. PICK g : Exact(row, Example, g) /\ Near(g, L)
      BY <1>2 DEF Placed
    <2>2. RowShape(row) /\ RowShape(Example)
      BY <1>1
    <2>3. PICK ps, os : ps = pairs /\ os = of
      OBVIOUS
    <2> HIDE DEF pairs, of
    <2>4. Rank(row, p, Free(row.ids, Protected)) - Rank(Example, p, os) \in (1 - 2 * Window) .. (2 * Window - 1)
      BY <2>1, <2>2, <2>3, NearIsLocal DEF pairs, of
    <2> QED BY <2>3, <2>4
  <1>6. ViewIsUsable
    <2> SUFFICES ASSUME InRow
                 PROVE  /\ Len(row.ids) >= Min({MinLength, Len(Example.ids)})
                        /\ (collator = "reid" /\ Positions(Example.ids) # {}) => Positions(row.ids) # {}
      BY DEF ViewIsUsable
    <2>1. (collator = "reid" /\ Positions(Example.ids) # {}) => Positions(row.ids) # {}
      BY <1>2, PositionsAre
    <2>2. PICK l \in Int, b \in Int : l = Len(Example.ids) /\ b = MinLength
      <3>1. Len(Example.ids) \in Int /\ MinLength \in Int
        BY <1>1, ViewsConstants
      <3> QED BY <3>1
    <2>3. Min({b, l}) \in Int /\ Min({b, l}) <= b /\ Min({b, l}) <= l
      BY LeastOf
    <2>4. Len(row.ids) >= b \/ Len(row.ids) >= l
      BY <1>1, <2>2 DEF RowFits, View
    <2> QED BY <1>1, <2>1, <2>2, <2>3, <2>4
  <1>7. PaddingIsExact
    <2>1. CASE padded = NoBatch
      BY <2>1 DEF PaddingIsExact, NoBatch
    <2>2. CASE padded = PadViews(rows)
      <3>1. PaddedExactly(padded, rows)
        BY <2>2, PadViewsIs DEF ViewsInv, RowsTyped
      <3> QED BY <3>1 DEF PaddedExactly, PaddingIsExact
    <2> QED BY <2>1, <2>2 DEF ViewsInv
  <1> QED BY <1>3, <1>4, <1>5, <1>6, <1>7 DEF ViewsSound

\* A view keeps identity, pairing, locality and a minimum of its example, and the batch
\* attends to exactly the views (augment.py, collate.py): for every log, corpus and tokenizer.
THEOREM ViewsAreSound == ViewsSpec => []ViewsSound
  <1>1. ViewsInv => ViewsSound
    BY InvIsSound
  <1> QED BY <1>1, ViewsInitially, ViewsKeep, PTL DEF ViewsSpec

-----------------------------------------------------------------------------
(* What the loader keeps of a log *)

Unconnected(sid) == \A e \in Events : e.sid = sid => e.kind # "connect"

\* An accumulator with a command has a start, no later than the command if no connect line set it.
AccSound(a) ==
    /\ a.start = None => a.evs = <<>>
    /\ Unconnected(a.sid) => \A i \in 1 .. Len(a.evs) : a.start <= a.evs[i].ts

LEMMA ObserveSound ==
    ASSUME NEW a \in Accumulators, AccSound(a), NEW e \in Events, e.sid = a.sid
    PROVE  /\ AccSound(Observe(a, e)) /\ Observe(a, e).sid = a.sid
           /\ Len(Observe(a, e).evs) = Len(a.evs) + (IF IsCommand(e) THEN 1 ELSE 0)
  <1>1. e.ts \in Int /\ e.dur \in Int
    BY ViewsAssumption
  <1>2. a.evs \in Seq(Commands) /\ a.start \in Int
    BY DEF Accumulators
  <1> DEFINE c == [ts |-> e.ts, raw |-> e.raw]
             b == Observe(a, e)
  <1>3. /\ b.sid = a.sid /\ b.start = StartAfter(a, e)
        /\ b.evs = IF IsCommand(e) THEN Append(a.evs, c) ELSE a.evs
    BY DEF Observe, Accumulators, IsCommand
  <1>4. c \in Commands /\ c.ts = e.ts
    BY <1>1 DEF Commands, Stamps
  <1> HIDE DEF b, c
  <1>5. PICK n \in Nat : n = Len(a.evs) /\ \A i \in 1 .. n : a.evs[i] \in Commands /\ a.evs[i].ts \in Int
    <2>1. \A i \in 1 .. Len(a.evs) : a.evs[i] \in Commands
      BY <1>2
    <2> QED BY <1>2, <2>1 DEF Commands
  <1>6. IsCommand(e) => Len(b.evs) = n + 1 /\ b.evs[n + 1] = c /\ \A i \in 1 .. n : b.evs[i] = a.evs[i]
    BY <1>2, <1>3, <1>4, <1>5
  <1>7. ~IsCommand(e) => b.evs = a.evs
    BY <1>3
  <1>8. Len(b.evs) = Len(a.evs) + (IF IsCommand(e) THEN 1 ELSE 0)
    <2>1. CASE IsCommand(e)
      BY <1>5, <1>6, <2>1
    <2>2. CASE ~IsCommand(e)
      BY <1>5, <1>7, <2>2
    <2> QED BY <2>1, <2>2
  <1>9. b.start \in Int /\ (b.start = None => a.start = None /\ e.ts = None)
    BY <1>1, <1>2, <1>3 DEF StartAfter, ObserveStart
  <1>10. b.start = None => b.evs = <<>>
    BY <1>7, <1>9 DEF AccSound, IsCommand
  <1>11. ASSUME Unconnected(b.sid), NEW i \in 1 .. Len(b.evs) PROVE b.start <= b.evs[i].ts
    <2>1. e.kind # "connect" /\ Unconnected(a.sid)
      BY <1>3, <1>11 DEF Unconnected
    <2>2. b.start = ObserveStart(a.start, e.ts)
      BY <1>3, <2>1 DEF StartAfter
    <2>3. CASE i \in 1 .. n
      <3>1. b.evs[i] = a.evs[i] /\ a.evs # <<>>
        <4>1. b.evs[i] = a.evs[i]
          BY <1>6, <1>7, <2>3
        <4>2. a.evs # <<>>
          BY <1>5, <2>3
        <4> QED BY <4>1, <4>2
      <3>2. a.start # None /\ a.start <= a.evs[i].ts
        BY <1>5, <2>1, <2>3, <3>1 DEF AccSound
      <3>3. b.start <= a.start
        BY <1>1, <1>2, <2>2, <3>2 DEF ObserveStart
      <3>4. a.evs[i].ts \in Int
        BY <1>5, <2>3
      <3> QED BY <1>2, <1>9, <3>1, <3>2, <3>3, <3>4
    <2>4. CASE i \notin 1 .. n
      <3>1. IsCommand(e) /\ i = n + 1
        BY <1>5, <1>6, <1>7, <1>11, <2>4
      <3>2. b.evs[i].ts = e.ts /\ e.ts # None
        BY <1>4, <1>6, <3>1 DEF IsCommand
      <3>3. b.start <= e.ts
        BY <1>1, <1>2, <2>2, <3>2 DEF ObserveStart
      <3> QED BY <3>2, <3>3
    <2> QED BY <2>3, <2>4
  <1>12. AccSound(b)
    BY <1>10, <1>11 DEF AccSound
  <1> QED BY <1>3, <1>8, <1>12 DEF b

LEMMA FreshSound ==
    ASSUME NEW e \in Events
    PROVE  Fresh(e.sid) \in Accumulators /\ AccSound(Fresh(e.sid)) /\ Fresh(e.sid).sid = e.sid /\ Fresh(e.sid).evs = <<>>
  <1>1. Fresh(e.sid) \in Accumulators /\ Fresh(e.sid).sid = e.sid /\ Fresh(e.sid).evs = <<>>
    BY DEF Fresh, Accumulators, None
  <1>2. Len(Fresh(e.sid).evs) = 0
    BY <1>1
  <1> QED BY <1>1, <1>2 DEF AccSound

\* What LoadedInOrder and PausesSurvive say of one session.
SessionSound(s) ==
    /\ \A i, j \in DOMAIN s.cmds : i < j => 0 <= s.cmds[i].off /\ s.cmds[i].off <= s.cmds[j].off
    /\ \A b \in s.bait, i \in DOMAIN s.cmds :
          (\E w \in Range(s.cmds[i].raw) : b.type \in BaitOf[w]) => b.ts <= s.cmds[i].ts
    /\ Unconnected(s.sid) =>
          \A i, j \in DOMAIN s.cmds :
             (Units(s.cmds[j]) - Units(s.cmds[i])) - (s.cmds[j].ts - s.cmds[i].ts) \in -PerMs .. PerMs

LEMMA MinIs ==
    ASSUME NEW S \in SUBSET Int, IsFiniteSet(S), S # {}
    PROVE  Min(S) \in S /\ \A x \in S : Min(S) <= x
  <1>1. PICK c \in Nat \ {0} : c = Cardinality(S)
    BY FS_CardinalityType, FS_EmptySet
  <1> DEFINE A == Ascending(S)
  <1>2. InAscent(A, S)
    BY AscendingIs
  <1> HIDE DEF A
  <1>3. /\ A \in [1 .. c -> S] /\ \A i, j \in 1 .. c : i < j => A[i] < A[j]
        /\ \A x \in S : \E i \in 1 .. c : A[i] = x
    BY <1>1, <1>2 DEF InAscent
  <1>4. A[1] \in S /\ \A x \in S : A[1] <= x
    <2>1. 1 \in 1 .. c /\ A[1] \in S
      BY <1>3
    <2>2. A[1] \in Int
      BY <2>1
    <2> SUFFICES ASSUME NEW x \in S PROVE A[1] <= x
      BY <2>1
    <2>3. PICK i \in 1 .. c : A[i] = x
      BY <1>3
    <2>4. 1 < i \/ i = 1
      OBVIOUS
    <2>5. x \in Int
      OBVIOUS
    <2> QED BY <1>3, <2>1, <2>2, <2>3, <2>4, <2>5
  <1> DEFINE Least(z) == \A y \in S : z <= y
  <1>5. \E z \in S : Least(z)
    BY <1>4
  <1>6. Min(S) = CHOOSE z \in S : Least(z)
    BY DEF Min
  <1> HIDE DEF Least
  <1>7. Min(S) \in S /\ Least(Min(S))
    BY <1>5, <1>6
  <1> QED BY <1>7 DEF Least

LEMMA TimesAscend ==
    ASSUME NEW evs \in Seq(Commands)
    PROVE  LET sorted == InTimeOrder(evs)
           IN  /\ \A i, j \in 1 .. Len(evs) : i < j => sorted[i].ts <= sorted[j].ts
               /\ \A i \in 1 .. Len(evs) : \E k \in 1 .. Len(evs) : sorted[i] = evs[k]
  <1>1. PICK n \in Nat : n = Len(evs) /\ DOMAIN evs = 1 .. n
    OBVIOUS
  <1> DEFINE A == Ranked(Earlier(evs))
             sorted == InTimeOrder(evs)
  <1>2. sorted = [i \in 1 .. n |-> evs[A[i]]]
    BY <1>1 DEF InTimeOrder, Earlier
  <1>3. Enumerates(A, Earlier(evs), 1 .. n) /\ Cardinality(1 .. n) = n
    BY <1>1, TimeOrderIs
  <1> HIDE DEF A, sorted
  <1>4. A \in [1 .. n -> 1 .. n] /\ \A i, j \in 1 .. n : i < j => A[i] \in Earlier(evs)[A[j]]
    BY <1>3 DEF Enumerates
  <1>5. ASSUME NEW i \in 1 .. n, NEW j \in 1 .. n, i < j PROVE sorted[i].ts <= sorted[j].ts
    <2>1. A[i] \in 1 .. n /\ A[j] \in 1 .. n /\ A[i] \in Earlier(evs)[A[j]]
      BY <1>4, <1>5
    <2>2. evs[A[i]].ts < evs[A[j]].ts \/ evs[A[i]].ts = evs[A[j]].ts
      BY <1>1, <2>1 DEF Earlier
    <2>3. evs[A[i]] \in Commands /\ evs[A[j]] \in Commands
      BY <1>1, <2>1
    <2>4. evs[A[i]].ts \in Int /\ evs[A[j]].ts \in Int
      BY <2>3 DEF Commands
    <2>5. sorted[i] = evs[A[i]] /\ sorted[j] = evs[A[j]]
      BY <1>2
    <2> QED BY <2>2, <2>4, <2>5
  <1>6. \A i \in 1 .. n : \E k \in 1 .. n : sorted[i] = evs[k]
    BY <1>2, <1>4
  <1> QED BY <1>1, <1>5, <1>6 DEF sorted

LEMMA DetectIs ==
    ASSUME NEW cmds, NEW n \in Nat, DOMAIN cmds = 1 .. n, \A i \in 1 .. n : cmds[i].ts \in Int,
           \A i, j \in 1 .. n : i < j => cmds[i].ts <= cmds[j].ts,
           NEW b \in Detect(cmds), NEW i \in 1 .. n, \E w \in Range(cmds[i].raw) : b.type \in BaitOf[w]
    PROVE  b.ts <= cmds[i].ts
  <1> DEFINE touches(t) == {k \in DOMAIN cmds : \E w \in Range(cmds[k].raw) : t \in BaitOf[w]}
             types == UNION {BaitOf[w] : w \in UNION {Range(cmds[k].raw) : k \in DOMAIN cmds}}
  <1>1. Detect(cmds) = {[type |-> t, ts |-> cmds[Min(touches(t))].ts] : t \in types}
    BY DEF Detect
  <1> HIDE DEF types, touches
  <1>2. PICK t \in types : b = [type |-> t, ts |-> cmds[Min(touches(t))].ts]
    BY <1>1
  <1>3. b.type = t /\ b.ts = cmds[Min(touches(t))].ts
    BY <1>2
  <1>4. i \in touches(t) /\ touches(t) \in SUBSET (1 .. n)
    BY <1>3 DEF touches
  <1>5. IsFiniteSet(touches(t)) /\ touches(t) \in SUBSET Int
    <2>1. IsFiniteSet(1 .. n)
      BY FS_Interval
    <2> QED BY <1>4, <2>1, FS_Subset
  <1>6. PICK k \in 1 .. n : k = Min(touches(t)) /\ k <= i
    <2>1. Min(touches(t)) \in touches(t) /\ Min(touches(t)) <= i
      BY <1>4, <1>5, MinIs
    <2> QED BY <1>4, <2>1
  <1>7. k < i \/ k = i
    BY <1>6
  <1>8. cmds[k].ts <= cmds[i].ts
    BY <1>7
  <1> QED BY <1>3, <1>6, <1>8

LEMMA FinalizeSound ==
    ASSUME NEW a \in Accumulators, AccSound(a), a.start # None
    PROVE  /\ SessionSound(Finalize(a)) /\ Finalize(a).sid = a.sid
           /\ DOMAIN Finalize(a).cmds = 1 .. Len(a.evs)
  <1> DEFINE evs == InTimeOrder(a.evs)
             cmds == [i \in DOMAIN evs |-> [ts |-> evs[i].ts, raw |-> evs[i].raw, off |-> Offset(evs[i].ts - a.start)]]
             s == Finalize(a)
  <1>1. a.evs \in Seq(Commands) /\ a.start \in Int
    BY DEF Accumulators
  <1>0. PICK z \in Int \cap Stamps : z = a.start
    BY DEF Accumulators
  <1>2. evs \in Seq(Commands) /\ Len(evs) = Len(a.evs)
    BY <1>1, InTimeOrderIs
  <1>3. s.cmds = cmds /\ s.sid = a.sid /\ s.bait = Detect(cmds)
    BY DEF Finalize
  <1>4. PICK n \in Nat : n = Len(a.evs) /\ DOMAIN evs = 1 .. n
    BY <1>1, <1>2
  <1>5. /\ \A i, j \in 1 .. n : i < j => evs[i].ts <= evs[j].ts
        /\ \A i \in 1 .. n : \E k \in 1 .. n : evs[i] = a.evs[k]
    BY <1>1, <1>4, TimesAscend
  <1> HIDE DEF evs, s
  <1>6. ASSUME NEW i \in 1 .. n
        PROVE  evs[i].ts \in Int \cap Stamps /\ cmds[i].ts = evs[i].ts /\ cmds[i].off = Offset(evs[i].ts - z)
    <2>1. evs[i] \in Commands
      BY <1>2, <1>4
    <2>2. evs[i].ts \in Int \cap Stamps
      BY <2>1 DEF Commands
    <2>3. cmds[i].off = Offset(evs[i].ts - z) /\ cmds[i].ts = evs[i].ts
      BY <1>0, <1>4
    <2> QED BY <2>2, <2>3
  <1>7. DOMAIN cmds = 1 .. n
    BY <1>4
  <1> HIDE DEF cmds
  <1>8. \A i, j \in 1 .. n : i < j => 0 <= cmds[i].off /\ cmds[i].off <= cmds[j].off
    <2> SUFFICES ASSUME NEW i \in 1 .. n, NEW j \in 1 .. n, i < j PROVE 0 <= cmds[i].off /\ cmds[i].off <= cmds[j].off
      OBVIOUS
    <2>1. evs[i].ts <= evs[j].ts
      BY <1>5
    <2>2. PICK x \in Int \cap Stamps, y \in Int \cap Stamps : x = evs[i].ts /\ y = evs[j].ts
      BY <1>6
    <2>3. cmds[i].off = Offset(x - z) /\ cmds[j].off = Offset(y - z)
      BY <1>6, <2>2
    <2>4. Offset(x - z) \in Nat /\ Offset(x - z) <= Offset(y - z)
      BY <2>1, <2>2, OffsetIs, OffsetGrows
    <2> QED BY <2>3, <2>4
  <1>9. ASSUME NEW b \in Detect(cmds), NEW i \in 1 .. n, \E w \in Range(cmds[i].raw) : b.type \in BaitOf[w]
        PROVE  b.ts <= cmds[i].ts
    <2>1. \A k \in 1 .. n : cmds[k].ts \in Int
      BY <1>6
    <2>2. \A k, j \in 1 .. n : k < j => cmds[k].ts <= cmds[j].ts
      BY <1>5, <1>6
    <2> QED BY <1>7, <1>9, <2>1, <2>2, DetectIs
  <1>10. ASSUME Unconnected(a.sid), NEW i \in 1 .. n
         PROVE  \E x \in Int, u \in Int : /\ x = evs[i].ts /\ x = cmds[i].ts /\ u = Units(cmds[i])
                                          /\ u <= x - z /\ x - z <= u + PerMs
    <2>1. PICK k \in 1 .. n : evs[i] = a.evs[k]
      BY <1>5
    <2>2. a.start <= a.evs[k].ts
      BY <1>4, <1>10 DEF AccSound
    <2>3. PICK x \in Int \cap Stamps : x = evs[i].ts /\ x = cmds[i].ts /\ cmds[i].off = Offset(x - z)
      BY <1>6
    <2>4. z <= x
      BY <1>0, <2>1, <2>2, <2>3
    <2>5. PICK m \in Nat : m = Offset(x - z) /\ (x <= z => m = 0) /\ (x > z => PerMs * m <= x - z /\ x - z <= PerMs * m + PerMs)
      BY OffsetIs
    <2>6. PICK u \in Int : u = PerMs * m /\ (m = 0 => u = 0)
      BY MillisAssumption
    <2>7. u <= x - z /\ x - z <= u + PerMs
      <3>1. CASE x = z
        BY <2>5, <2>6, <3>1, MillisAssumption
      <3>2. CASE x > z
        BY <2>5, <2>6, <3>2
      <3> QED BY <2>4, <3>1, <3>2
    <2>8. u = Units(cmds[i])
      BY <2>3, <2>5, <2>6 DEF Units
    <2> QED BY <2>3, <2>7, <2>8
  <1>11. ASSUME Unconnected(a.sid), NEW i \in 1 .. n, NEW j \in 1 .. n
         PROVE  (Units(cmds[j]) - Units(cmds[i])) - (cmds[j].ts - cmds[i].ts) \in -PerMs .. PerMs
    <2>1. PICK x \in Int, u \in Int : x = cmds[i].ts /\ u = Units(cmds[i]) /\ u <= x - z /\ x - z <= u + PerMs
      BY <1>10, <1>11
    <2>2. PICK y \in Int, v \in Int : y = cmds[j].ts /\ v = Units(cmds[j]) /\ v <= y - z /\ y - z <= v + PerMs
      BY <1>10, <1>11
    <2>3. PICK q \in Nat : q = PerMs
      BY MillisAssumption
    <2>4. (v - u) - (y - x) \in -q .. q
      BY <2>1, <2>2, <2>3
    <2> QED BY <2>1, <2>2, <2>3, <2>4
  <1>12. SessionSound(s)
    BY <1>3, <1>7, <1>8, <1>9, <1>11 DEF SessionSound
  <1> QED BY <1>3, <1>4, <1>7, <1>12 DEF s

\* The commands that are held in accumulators, and those that are in sessions.
HeldIn(q, sid) == UNION {{n} \X DOMAIN q[n].evs : n \in {m \in DOMAIN q : q[m].sid = sid}}
BuiltIn(q, sid) == UNION {{n} \X DOMAIN q[n].cmds : n \in {m \in DOMAIN q : q[m].sid = sid}}
ReadIn(left, sid) == {e \in Events \ left : e.sid = sid /\ IsCommand(e)}

\* No two share a session id.
Distinct(q) == \A m, n \in DOMAIN q : q[m].sid = q[n].sid => m = n

LEMMA ColumnIs ==
    ASSUME NEW n, NEW k \in Nat
    PROVE  IsFiniteSet({n} \X (1 .. k)) /\ Cardinality({n} \X (1 .. k)) = k
  <1>1. IsFiniteSet(1 .. k) /\ Cardinality(1 .. k) = k
    BY FS_Interval
  <1>2. IsFiniteSet({n}) /\ Cardinality({n}) = 1
    BY FS_Singleton
  <1>3. IsFiniteSet({n} \X (1 .. k)) /\ Cardinality({n} \X (1 .. k)) = Cardinality({n}) * Cardinality(1 .. k)
    BY <1>1, <1>2, FS_Product
  <1> QED BY <1>1, <1>2, <1>3

LEMMA HeldCount ==
    ASSUME NEW q \in Seq(Accumulators), Distinct(q), NEW sid
    PROVE  /\ \A n \in DOMAIN q : q[n].sid = sid => Cardinality(HeldIn(q, sid)) = Len(q[n].evs)
           /\ (\A n \in DOMAIN q : q[n].sid # sid) => Cardinality(HeldIn(q, sid)) = 0
  <1>1. ASSUME NEW n \in DOMAIN q, q[n].sid = sid PROVE Cardinality(HeldIn(q, sid)) = Len(q[n].evs)
    <2>1. {m \in DOMAIN q : q[m].sid = sid} = {n}
      BY <1>1, Zenon DEF Distinct
    <2>2. HeldIn(q, sid) = {n} \X DOMAIN q[n].evs
      BY <2>1, Zenon DEF HeldIn
    <2>3. q[n].evs \in Seq(Commands)
      <3>1. q[n] \in Accumulators
        OBVIOUS
      <3> QED BY <3>1 DEF Accumulators
    <2>4. PICK k \in Nat : k = Len(q[n].evs) /\ DOMAIN q[n].evs = 1 .. k
      BY <2>3
    <2>5. HeldIn(q, sid) = {n} \X (1 .. k)
      BY <2>2, <2>4, Zenon
    <2> QED BY <2>4, <2>5, ColumnIs
  <1>2. ASSUME \A n \in DOMAIN q : q[n].sid # sid PROVE Cardinality(HeldIn(q, sid)) = 0
    <2>1. {m \in DOMAIN q : q[m].sid = sid} = {}
      BY <1>2
    <2>2. HeldIn(q, sid) = {}
      BY <2>1, Zenon DEF HeldIn
    <2> QED BY <2>2, FS_EmptySet
  <1> QED BY <1>1, <1>2

\* What is said of an id, as one more line is read.
LEMMA AccumulateSound ==
    ASSUME acc \in Seq(Accumulators), Distinct(acc), \A n \in DOMAIN acc : AccSound(acc[n]), NEW e \in Events,
           NEW q, q = Accumulate(e), NEW sid
    PROVE  /\ Distinct(q) /\ \A n \in DOMAIN q : AccSound(q[n])
           /\ Cardinality(HeldIn(q, sid)) = Cardinality(HeldIn(acc, sid)) + (IF e.sid = sid /\ IsCommand(e) THEN 1 ELSE 0)
  <1>0. q \in Seq(Accumulators)
    BY AccumulateIs
  <1> DEFINE more == IF IsCommand(e) THEN 1 ELSE 0
  <1>1. PICK n \in Nat : n = Len(acc) /\ DOMAIN acc = 1 .. n /\ \A i \in 1 .. n : acc[i] \in Accumulators
    OBVIOUS
  <1>2. \A i \in 1 .. n : Len(acc[i].evs) \in Nat
    BY <1>1 DEF Accumulators
  <1>3. CASE \E i \in DOMAIN acc : acc[i].sid = e.sid
    <2>1. PICK i \in 1 .. n : acc[i].sid = e.sid
      BY <1>1, <1>3
    <2>2. DOMAIN q = 1 .. n /\ q[i] = Observe(acc[i], e) /\ \A j \in 1 .. n : j # i => q[j] = acc[j]
      <3>1. q = [j \in 1 .. n |-> IF acc[j].sid = e.sid THEN Observe(acc[j], e) ELSE acc[j]]
        BY <1>1, <1>3 DEF Accumulate
      <3>2. \A j \in 1 .. n : j # i => acc[j].sid # e.sid
        BY <1>1, <2>1 DEF Distinct
      <3> QED BY <2>1, <3>1, <3>2
    <2>3. AccSound(q[i]) /\ q[i].sid = acc[i].sid /\ Len(q[i].evs) = Len(acc[i].evs) + more
      BY <1>1, <2>1, <2>2, ObserveSound
    <2> HIDE DEF more
    <2>4. \A j \in 1 .. n : AccSound(q[j]) /\ q[j].sid = acc[j].sid
      BY <1>1, <2>2, <2>3
    <2>5. Distinct(q)
      BY <1>1, <2>2, <2>4 DEF Distinct
    <2>6. CASE e.sid = sid
      <3>1. Cardinality(HeldIn(acc, sid)) = Len(acc[i].evs)
        BY <1>1, <2>1, <2>6, HeldCount
      <3>2. Cardinality(HeldIn(q, sid)) = Len(q[i].evs)
        BY <1>0, <2>1, <2>2, <2>4, <2>5, <2>6, HeldCount
      <3> QED BY <2>2, <2>3, <2>4, <2>5, <2>6, <3>1, <3>2 DEF more
    <2>7. CASE e.sid # sid
      <3>1. CASE \E j \in 1 .. n : acc[j].sid = sid
        <4>1. PICK j \in 1 .. n : acc[j].sid = sid
          BY <3>1
        <4>2. j # i /\ q[j] = acc[j]
          BY <2>1, <2>2, <2>7, <4>1
        <4>3. Cardinality(HeldIn(acc, sid)) = Len(acc[j].evs)
          BY <1>1, <4>1, HeldCount
        <4>4. Cardinality(HeldIn(q, sid)) = Len(q[j].evs)
          BY <1>0, <2>2, <2>5, <4>1, <4>2, HeldCount
        <4> QED BY <1>2, <2>2, <2>4, <2>5, <2>7, <4>2, <4>3, <4>4
      <3>2. CASE ~\E j \in 1 .. n : acc[j].sid = sid
        <4>1. Cardinality(HeldIn(acc, sid)) = 0
          BY <1>1, <3>2, HeldCount
        <4>2. Cardinality(HeldIn(q, sid)) = 0
          BY <1>0, <2>2, <2>4, <2>5, <3>2, HeldCount
        <4> QED BY <2>2, <2>4, <2>5, <2>7, <4>1, <4>2
      <3> QED BY <3>1, <3>2
    <2> QED BY <2>6, <2>7
  <1>4. CASE ~\E i \in DOMAIN acc : acc[i].sid = e.sid
    <2> DEFINE b == Observe(Fresh(e.sid), e)
    <2>1. b \in Accumulators /\ AccSound(b) /\ b.sid = e.sid /\ Len(b.evs) = more
      <3>1. PICK f \in Accumulators : f = Fresh(e.sid) /\ AccSound(f) /\ f.sid = e.sid /\ f.evs = <<>>
        BY FreshSound
      <3>2. AccSound(Observe(f, e)) /\ Observe(f, e).sid = f.sid /\ Len(Observe(f, e).evs) = Len(f.evs) + more
        BY <3>1, ObserveSound
      <3>3. Observe(f, e) \in Accumulators /\ Len(f.evs) = 0
        BY <3>1, ObserveIs
      <3> QED BY <3>1, <3>2, <3>3
    <2>2. q = Append(acc, b)
      BY <1>4 DEF Accumulate
    <2> HIDE DEF b, more
    <2>3. DOMAIN q = 1 .. n + 1 /\ q[n + 1] = b /\ \A j \in 1 .. n : q[j] = acc[j]
      BY <1>1, <2>1, <2>2
    <2>4. \A j \in DOMAIN q : AccSound(q[j])
      BY <1>1, <2>1, <2>3
    <2>5. Distinct(q)
      <3>1. \A j \in 1 .. n : acc[j].sid # e.sid
        BY <1>1, <1>4
      <3>2. \A j \in 1 .. n + 1 : j \in 1 .. n \/ j = n + 1
        BY <1>1
      <3> QED BY <1>1, <2>1, <2>3, <3>1, <3>2 DEF Distinct
    <2>6. CASE e.sid = sid
      <3>1. Cardinality(HeldIn(acc, sid)) = 0
        BY <1>1, <1>4, <2>6, HeldCount
      <3>2. Cardinality(HeldIn(q, sid)) = Len(q[n + 1].evs)
        <4>1. n + 1 \in DOMAIN q /\ q[n + 1].sid = sid
          BY <1>1, <2>1, <2>3, <2>6
        <4> QED BY <1>0, <2>5, <4>1, HeldCount
      <3> QED BY <2>1, <2>3, <2>4, <2>5, <2>6, <3>1, <3>2 DEF more
    <2>7. CASE e.sid # sid
      <3>1. CASE \E j \in 1 .. n : acc[j].sid = sid
        <4>1. PICK j \in 1 .. n : acc[j].sid = sid
          BY <3>1
        <4>2. q[j] = acc[j] /\ j \in DOMAIN q
          BY <1>1, <2>3
        <4>3. Cardinality(HeldIn(acc, sid)) = Len(acc[j].evs)
          BY <1>1, <4>1, HeldCount
        <4>4. Cardinality(HeldIn(q, sid)) = Len(q[j].evs)
          BY <1>0, <2>5, <4>1, <4>2, HeldCount
        <4> QED BY <1>2, <2>4, <2>5, <2>7, <4>2, <4>3, <4>4
      <3>2. CASE ~\E j \in 1 .. n : acc[j].sid = sid
        <4>1. Cardinality(HeldIn(acc, sid)) = 0
          BY <1>1, <3>2, HeldCount
        <4>2. Cardinality(HeldIn(q, sid)) = 0
          <5>1. \A j \in DOMAIN q : q[j].sid # sid
            <6>1. \A j \in 1 .. n + 1 : j \in 1 .. n \/ j = n + 1
              BY <1>1
            <6> QED BY <2>1, <2>3, <2>7, <3>2, <6>1
          <5> QED BY <1>0, <2>5, <5>1, HeldCount
        <4> QED BY <2>4, <2>5, <2>7, <4>1, <4>2
      <3> QED BY <3>1, <3>2
    <2> QED BY <2>6, <2>7
  <1> QED BY <1>3, <1>4

LEMMA UnionSplits ==
    ASSUME NEW F, NEW N, NEW x
    PROVE  UNION {F[n] : n \in N \cup {x}} = (UNION {F[n] : n \in N}) \cup F[x]
  <1> DEFINE A == UNION {F[n] : n \in N \cup {x}}
             B == UNION {F[n] : n \in N}
  <1>1. \A z : z \in A <=> \E n \in N \cup {x} : z \in F[n]
    BY Zenon
  <1>2. \A z : z \in B <=> \E n \in N : z \in F[n]
    BY Zenon
  <1> HIDE DEF A, B
  <1>3. A = B \cup F[x]
    BY <1>1, <1>2
  <1> QED BY <1>3, Zenon DEF A, B

\* What of an id is in u, when t comes after s.
Grown(u, s, t, sid) ==
    /\ \A n \in DOMAIN t, k \in Nat : t[n].sid = sid /\ DOMAIN t[n].cmds = 1 .. k =>
          /\ IsFiniteSet(BuiltIn(u, sid))
          /\ Cardinality(BuiltIn(u, sid)) = Cardinality(BuiltIn(s, sid)) + k
    /\ (\A n \in DOMAIN t : t[n].sid # sid) => BuiltIn(u, sid) = BuiltIn(s, sid)

LEMMA BuiltGrows ==
    ASSUME NEW s, IsSeq(s), NEW t, IsSeq(t), Distinct(t), NEW sid, IsFiniteSet(BuiltIn(s, sid)), NEW u, u = s \o t
    PROVE  Grown(u, s, t, sid)
  <1>1. PICK p \in Nat, r \in Nat : /\ p = Len(s) /\ r = Len(t) /\ DOMAIN s = 1 .. p /\ DOMAIN t = 1 .. r
                                   /\ DOMAIN u = 1 .. p + r /\ \A i \in 1 .. p + r : u[i] = IF i <= p THEN s[i] ELSE t[i - p]
    <2> DEFINE S == Range(s) \cup Range(t)
    <2>1. s \in Seq(S) /\ t \in Seq(S)
      <3>1. s \in Seq(Range(s)) /\ t \in Seq(Range(t)) /\ Range(s) \subseteq S /\ Range(t) \subseteq S
        BY DEF IsSeq
      <3> HIDE DEF S
      <3> QED BY <3>1
    <2> HIDE DEF S
    <2>2. PICK p \in Nat, r \in Nat : p = Len(s) /\ r = Len(t) /\ DOMAIN s = 1 .. p /\ DOMAIN t = 1 .. r
      BY <2>1
    <2>3. Len(u) = p + r /\ u \in Seq(S)
      BY <2>1, <2>2
    <2>4. DOMAIN u = 1 .. p + r /\ \A i \in 1 .. p + r : u[i] = IF i <= p THEN s[i] ELSE t[i - p]
      BY <2>1, <2>2, <2>3
    <2> QED BY <2>2, <2>4
  <1> DEFINE N == {m \in DOMAIN s : s[m].sid = sid}
             K == {m \in DOMAIN u : u[m].sid = sid}
  <1>2. \A m \in 1 .. p : u[m] = s[m] /\ (m \in K <=> m \in N)
    BY <1>1
  <1>3. \A j \in 1 .. r : u[p + j] = t[j] /\ (p + j \in K <=> t[j].sid = sid)
    BY <1>1
  <1>4. \A m \in K : m \in 1 .. p \/ \E j \in 1 .. r : m = p + j
    <2> SUFFICES ASSUME NEW m \in K, m \notin 1 .. p PROVE \E j \in 1 .. r : m = p + j
      OBVIOUS
    <2>1. m - p \in 1 .. r /\ m = p + (m - p)
      BY <1>1
    <2> QED BY <2>1
  <1>5. N \subseteq 1 .. p
    BY <1>1
  <1>6. BuiltIn(u, sid) = UNION {{n} \X DOMAIN u[n].cmds : n \in K} /\ BuiltIn(s, sid) = UNION {{n} \X DOMAIN s[n].cmds : n \in N}
    BY DEF BuiltIn
  <1> HIDE DEF N, K
  <1>7. UNION {{n} \X DOMAIN u[n].cmds : n \in N} = BuiltIn(s, sid)
    <2>1. \A n \in N : u[n] = s[n]
      BY <1>2, <1>5
    <2>2. {{n} \X DOMAIN u[n].cmds : n \in N} = {{n} \X DOMAIN s[n].cmds : n \in N}
      BY <2>1, Zenon
    <2> QED BY <1>6, <2>2
  <1>8. ASSUME \A n \in DOMAIN t : t[n].sid # sid PROVE BuiltIn(u, sid) = BuiltIn(s, sid)
    <2>1. \A m \in K : m \in N
      BY <1>1, <1>2, <1>3, <1>4, <1>8
    <2>2. \A m \in N : m \in K
      BY <1>2, <1>5
    <2>3. K = N
      BY <2>1, <2>2
    <2> QED BY <1>6, <1>7, <2>3
  <1>9. ASSUME NEW j \in DOMAIN t, NEW k \in Nat, t[j].sid = sid, DOMAIN t[j].cmds = 1 .. k
        PROVE  IsFiniteSet(BuiltIn(u, sid)) /\ Cardinality(BuiltIn(u, sid)) = Cardinality(BuiltIn(s, sid)) + k
    <2> DEFINE x == p + j
    <2>1. K = N \cup {x}
      <3>1. x \in K
        BY <1>1, <1>3, <1>9
      <3>2. N \subseteq K
        BY <1>2, <1>5
      <3>3. ASSUME NEW m \in K PROVE m \in N \cup {x}
        <4>1. CASE m \in 1 .. p
          BY <1>2, <4>1
        <4>2. CASE \E i \in 1 .. r : m = p + i
          <5>1. PICK i \in 1 .. r : m = p + i
            BY <4>2
          <5>2. t[i].sid = sid
            BY <1>3, <5>1
          <5>3. i = j
            BY <1>1, <1>9, <5>2 DEF Distinct
          <5> QED BY <5>1, <5>3
        <4> QED BY <1>4, <4>1, <4>2
      <3> HIDE DEF x
      <3> QED BY <3>1, <3>2, <3>3
    <2>2. u[x].cmds = t[j].cmds
      BY <1>1, <1>3
    <2> DEFINE C == {x} \X (1 .. k)
    <2>3. BuiltIn(u, sid) = BuiltIn(s, sid) \cup C
      <3>1. BuiltIn(u, sid) = (UNION {{n} \X DOMAIN u[n].cmds : n \in N}) \cup ({x} \X DOMAIN u[x].cmds)
        <4> HIDE DEF x
        <4> DEFINE F == [n \in K |-> {n} \X DOMAIN u[n].cmds]
        <4>1. \A n \in K : F[n] = {n} \X DOMAIN u[n].cmds
          OBVIOUS
        <4>2. x \in K /\ N \subseteq K
          BY <2>1
        <4> HIDE DEF F
        <4>3. {{n} \X DOMAIN u[n].cmds : n \in K} = {F[n] : n \in K}
          BY <4>1, Zenon
        <4>4. {{n} \X DOMAIN u[n].cmds : n \in N} = {F[n] : n \in N}
          <5>1. \A n \in N : F[n] = {n} \X DOMAIN u[n].cmds
            BY <4>1, <4>2
          <5> QED BY <5>1, Zenon
        <4>5. UNION {F[n] : n \in N \cup {x}} = (UNION {F[n] : n \in N}) \cup F[x]
          BY UnionSplits
        <4>6. BuiltIn(u, sid) = UNION {F[n] : n \in K}
          BY <1>6, <4>3
        <4> QED BY <2>1, <4>1, <4>2, <4>4, <4>5, <4>6
      <3>2. {x} \X DOMAIN u[x].cmds = C
        BY <1>9, <2>2
      <3> HIDE DEF C, x
      <3>3. PICK U, V : U = UNION {{n} \X DOMAIN u[n].cmds : n \in N} /\ V = {x} \X DOMAIN u[x].cmds
        OBVIOUS
      <3>4. U = BuiltIn(s, sid)
        BY <1>7, <3>3
      <3>5. V = C
        BY <3>2, <3>3
      <3>6. BuiltIn(u, sid) = U \cup V
        BY <3>1, <3>3, Zenon
      <3> HIDE DEF C, x
      <3> QED BY <3>4, <3>5, <3>6
    <2>4. IsFiniteSet(C) /\ Cardinality(C) = k
      BY ColumnIs
    <2>5. BuiltIn(s, sid) \cap C = {}
      <3> SUFFICES ASSUME NEW z \in BuiltIn(s, sid), z \in C PROVE FALSE
        OBVIOUS
      <3>1. PICK n \in N : z \in {n} \X DOMAIN s[n].cmds
        BY <1>6
      <3>2. z[1] = n
        BY <3>1
      <3>3. z[1] = x
        OBVIOUS
      <3>4. n \in 1 .. p /\ j \in 1 .. r
        BY <1>1, <1>5
      <3> QED BY <3>2, <3>3, <3>4
    <2> HIDE DEF C
    <2>6. /\ IsFiniteSet(BuiltIn(s, sid) \cup C)
          /\ Cardinality(BuiltIn(s, sid) \cup C) =
                Cardinality(BuiltIn(s, sid)) + Cardinality(C) - Cardinality(BuiltIn(s, sid) \cap C)
      BY <2>4, FS_Union
    <2>7. Cardinality(BuiltIn(s, sid) \cap C) = 0
      BY <2>5, FS_EmptySet
    <2>8. Cardinality(BuiltIn(s, sid)) \in Nat
      BY FS_CardinalityType
    <2> QED BY <2>3, <2>4, <2>6, <2>7, <2>8
  <1> QED BY <1>8, <1>9 DEF Grown

\* At most this many commands of an id are dropped with a file.
Slack == Max({0, MinCommands - 1})

LEMMA SlackIs == Slack \in Nat /\ MinCommands - 1 <= Slack
  <1>1. PICK x \in Int : x = MinCommands - 1
    BY ViewsAssumption
  <1>2. Max({0, x}) \in {0, x} /\ Max({0, x}) >= 0 /\ Max({0, x}) >= x
    <2>1. 0 \in Int
      OBVIOUS
    <2> QED BY <2>1, GreatestOf, Zenon
  <1>3. PICK m \in Int : m = Max({0, x}) /\ m >= 0 /\ m >= x
    BY <1>2
  <1> QED BY <1>1, <1>3 DEF Slack

\* The ids of accumulators that are kept.
LEMMA KeptAre ==
    ASSUME acc \in Seq(Accumulators), Distinct(acc), NEW S \in SUBSET DOMAIN acc, NEW kept, kept = Pick(acc, S)
    PROVE  /\ kept \in Seq(Accumulators) /\ Distinct(kept)
           /\ \A n \in DOMAIN kept : \E m \in S : kept[n] = acc[m]
           /\ \A m \in S : \E n \in DOMAIN kept : kept[n] = acc[m]
  <1>1. PICK l \in Nat : DOMAIN acc = 1 .. l
    OBVIOUS
  <1>2. IsFiniteSet(S) /\ S \in SUBSET Int
    <2>1. IsFiniteSet(1 .. l)
      BY FS_Interval
    <2> QED BY <1>1, <2>1, FS_Subset
  <1> DEFINE A == Ascending(S)
  <1>3. InAscent(A, S)
    BY <1>2, AscendingIs
  <1> HIDE DEF A
  <1>4. PICK c \in Nat : /\ A \in [1 .. c -> S] /\ \A i, j \in 1 .. c : i < j => A[i] < A[j]
                         /\ \A x \in S : \E n \in 1 .. c : A[n] = x
    BY <1>3 DEF InAscent
  <1>5. kept = [n \in 1 .. c |-> acc[A[n]]]
    BY <1>4 DEF Pick, A
  <1>6. DOMAIN kept = 1 .. c /\ \A n \in 1 .. c : kept[n] = acc[A[n]] /\ A[n] \in S
    BY <1>4, <1>5
  <1>7. Distinct(kept)
    <2> SUFFICES ASSUME NEW m \in 1 .. c, NEW n \in 1 .. c, kept[m].sid = kept[n].sid PROVE m = n
      BY <1>6 DEF Distinct
    <2>1. A[m] = A[n] /\ A[m] \in Int /\ A[n] \in Int
      BY <1>2, <1>6 DEF Distinct
    <2>2. ~(m < n) /\ ~(n < m)
      BY <1>4, <2>1
    <2> QED BY <2>2
  <1>8. kept \in Seq(Accumulators)
    BY PickIs
  <1>9. \A n \in DOMAIN kept : \E m \in S : kept[n] = acc[m]
    BY <1>6
  <1>10. ASSUME NEW m \in S PROVE \E n \in DOMAIN kept : kept[n] = acc[m]
    <2>1. PICK n \in 1 .. c : A[n] = m
      BY <1>4
    <2> QED BY <1>6, <2>1
  <1> QED BY <1>7, <1>8, <1>9, <1>10

LEMMA EndFileSound ==
    ASSUME LoadedTyped, acc \in Seq(Accumulators), Distinct(acc), \A n \in DOMAIN acc : AccSound(acc[n]), EndFile
    PROVE  /\ (\A n \in DOMAIN sessions : SessionSound(sessions[n])) => \A n \in DOMAIN sessions' : SessionSound(sessions'[n])
           /\ \A sid : IsFiniteSet(BuiltIn(sessions, sid)) =>
                 /\ IsFiniteSet(BuiltIn(sessions', sid))
                 /\ \E lost \in 0 .. Slack : Cardinality(BuiltIn(sessions', sid)) + lost
                                              = Cardinality(BuiltIn(sessions, sid)) + Cardinality(HeldIn(acc, sid))
  <1> DEFINE S == {n \in DOMAIN acc : Kept(acc[n])}
             kept == Pick(acc, S)
             new == [n \in DOMAIN kept |-> Finalize(kept[n])]
  <1>1. sessions' = sessions \o new
    BY DEF EndFile
  <1>2. /\ kept \in Seq(Accumulators) /\ Distinct(kept)
        /\ \A n \in DOMAIN kept : \E m \in S : kept[n] = acc[m]
        /\ \A m \in S : \E n \in DOMAIN kept : kept[n] = acc[m]
    <2>1. S \in SUBSET DOMAIN acc
      OBVIOUS
    <2> HIDE DEF S
    <2> QED BY <2>1, KeptAre
  <1> HIDE DEF kept
  <1>3. PICK k \in Nat : DOMAIN kept = 1 .. k /\ DOMAIN new = 1 .. k /\ \A n \in 1 .. k : kept[n] \in Accumulators
    BY <1>2
  <1>4. \A n \in 1 .. k : new[n] = Finalize(kept[n]) /\ AccSound(kept[n]) /\ kept[n].start # None
    BY <1>2, <1>3 DEF Kept
  <1>5. IsSeq(new)
    <2> DEFINE R == {Finalize(a) : a \in Accumulators}
    <2>1. \A i \in 1 .. k : Finalize(kept[i]) \in R
      BY <1>3
    <2> HIDE DEF R
    <2>2. new \in [1 .. k -> R]
      BY <1>3, <2>1
    <2>3. new \in Seq(R)
      BY <2>2
    <2> QED BY <2>3, SeqIs
  <1> HIDE DEF new
  <1>6. \A n \in 1 .. k : SessionSound(new[n]) /\ new[n].sid = kept[n].sid /\ DOMAIN new[n].cmds = 1 .. Len(kept[n].evs)
    BY <1>3, <1>4, FinalizeSound
  <1>7. ASSUME \A n \in DOMAIN sessions : SessionSound(sessions[n]), NEW n \in DOMAIN sessions' PROVE SessionSound(sessions'[n])
    <2> DEFINE T == Range(sessions) \cup Range(new)
    <2>1. \A x \in T : SessionSound(x)
      BY <1>3, <1>6, <1>7 DEF Range
    <2>2. sessions \in Seq(T) /\ new \in Seq(T)
      <3>1. sessions \in Seq(Range(sessions)) /\ new \in Seq(Range(new)) /\ Range(sessions) \subseteq T /\ Range(new) \subseteq T
        BY <1>5 DEF IsSeq, LoadedTyped
      <3> HIDE DEF T
      <3> QED BY <3>1
    <2> HIDE DEF T
    <2>3. sessions' \in Seq(T)
      BY <1>1, <2>2
    <2> QED BY <1>7, <2>1, <2>3
  <1>8. Distinct(new)
    BY <1>2, <1>3, <1>6 DEF Distinct
  <1>9. ASSUME NEW sid, IsFiniteSet(BuiltIn(sessions, sid))
        PROVE  /\ IsFiniteSet(BuiltIn(sessions', sid))
               /\ \E lost \in 0 .. Slack : Cardinality(BuiltIn(sessions', sid)) + lost
                                            = Cardinality(BuiltIn(sessions, sid)) + Cardinality(HeldIn(acc, sid))
    <2>0. PICK b \in Nat : b = Cardinality(BuiltIn(sessions, sid))
      BY <1>9, FS_CardinalityType
    <2>1. IsSeq(sessions)
      BY DEF LoadedTyped
    <2>2. PICK u : u = sessions' /\ u = sessions \o new
      BY <1>1
    <2>3. Grown(u, sessions, new, sid)
      BY <1>5, <1>8, <1>9, <2>1, <2>2, BuiltGrows
    <2>4. CASE \E m \in S : acc[m].sid = sid
      <3>1. PICK m \in S : acc[m].sid = sid
        BY <2>4
      <3>2. PICK n \in 1 .. k : kept[n] = acc[m]
        BY <1>2, <1>3, <3>1
      <3>3. PICK h \in Nat : h = Len(kept[n].evs)
        BY <1>3 DEF Accumulators
      <3>4. Cardinality(HeldIn(acc, sid)) = h
        BY <3>1, <3>2, <3>3, HeldCount
      <3>5. new[n].sid = sid /\ DOMAIN new[n].cmds = 1 .. h /\ n \in DOMAIN new
        BY <1>3, <1>6, <3>1, <3>2, <3>3
      <3>6. IsFiniteSet(BuiltIn(u, sid)) /\ Cardinality(BuiltIn(u, sid)) = b + h
        BY <2>0, <2>3, <3>5 DEF Grown
      <3>7. 0 \in 0 .. Slack /\ b + h + 0 = b + h
        BY SlackIs
      <3> QED BY <2>0, <2>2, <3>4, <3>6, <3>7
    <2>5. CASE ~\E m \in S : acc[m].sid = sid
      <3>1. ASSUME NEW n \in DOMAIN new PROVE new[n].sid # sid
        <4>1. n \in 1 .. k /\ n \in DOMAIN kept
          BY <1>3
        <4>2. PICK m \in S : kept[n] = acc[m]
          BY <1>2, <4>1
        <4>3. acc[m].sid # sid /\ new[n].sid = kept[n].sid
          BY <1>6, <2>5, <4>1
        <4> QED BY <4>2, <4>3
      <3>2. BuiltIn(u, sid) = BuiltIn(sessions, sid)
        BY <2>3, <3>1 DEF Grown
      <3>3. PICK lost \in 0 .. Slack : lost = Cardinality(HeldIn(acc, sid))
        <4>1. CASE \E m \in DOMAIN acc : acc[m].sid = sid
          <5>1. PICK m \in DOMAIN acc : acc[m].sid = sid
            BY <4>1
          <5>2. ~Kept(acc[m])
            BY <2>5, <5>1
          <5>3. PICK h \in Nat : h = Len(acc[m].evs)
            <6>1. acc[m] \in Accumulators
              OBVIOUS
            <6> QED BY <6>1 DEF Accumulators
          <5>4. h < MinCommands \/ h = 0
            <6>1. CASE acc[m].start = None
              <7>1. acc[m].evs = <<>>
                BY <6>1 DEF AccSound
              <7> QED BY <5>3, <7>1
            <6>2. CASE acc[m].start # None
              BY <5>2, <5>3, <6>2, ViewsAssumption DEF Kept
            <6> QED BY <6>1, <6>2
          <5>5. h \in 0 .. Slack
            BY <5>4, SlackIs, ViewsAssumption
          <5> QED BY <5>1, <5>3, <5>5, HeldCount
        <4>2. CASE ~\E m \in DOMAIN acc : acc[m].sid = sid
          <5>1. Cardinality(HeldIn(acc, sid)) = 0
            BY <4>2, HeldCount
          <5> QED BY <5>1, SlackIs
        <4> QED BY <4>1, <4>2
      <3> QED BY <1>9, <2>2, <3>2, <3>3
    <2> QED BY <2>4, <2>5
  <1> QED BY <1>7, <1>9

\* The commands of an id that were read are held, built, or among the few that were dropped.
Counted(sid) ==
    /\ IsFiniteSet(BuiltIn(sessions, sid))
    /\ Cardinality(ReadIn(unread, sid)) - Cardinality(HeldIn(acc, sid)) - Cardinality(BuiltIn(sessions, sid))
          \in 0 .. files * Slack

LoadPart ==
    /\ phase \in {"read", "failed", "fit", "encode", "augment", "done"}
    /\ files \in Nat /\ files <= MaxFiles /\ (phase = "read" => files < MaxFiles)
    /\ Distinct(acc) /\ \A n \in DOMAIN acc : AccSound(acc[n])
    /\ collator = "contrastive" => \A n \in DOMAIN sessions : SessionSound(sessions[n])
    /\ collator = "contrastive" /\ phase # "failed" => \A sid : sid # Blank => Counted(sid)

RowPart ==
    /\ phase \in {"read", "failed", "fit", "encode"} => rows = <<>>
    /\ Len(rows) <= InBatch /\ (InRow => Len(rows) < InBatch)

LoadInv == LoadPart /\ RowPart

LEMMA HeldIsNat == ASSUME NEW q \in Seq(Accumulators), Distinct(q), NEW sid PROVE Cardinality(HeldIn(q, sid)) \in Nat
  <1>1. CASE \E n \in DOMAIN q : q[n].sid = sid
    <2>1. PICK n \in DOMAIN q : q[n].sid = sid
      BY <1>1
    <2>2. q[n] \in Accumulators
      OBVIOUS
    <2>3. Len(q[n].evs) \in Nat
      BY <2>2 DEF Accumulators
    <2> QED BY <2>1, <2>3, HeldCount
  <1>2. CASE ~\E n \in DOMAIN q : q[n].sid = sid
    BY <1>2, HeldCount
  <1> QED BY <1>1, <1>2

LEMMA ReadGrows ==
    ASSUME unread \in SUBSET Events, NEW e \in unread, NEW sid
    PROVE  /\ Cardinality(ReadIn(unread, sid)) \in Nat
           /\ Cardinality(ReadIn(unread \ {e}, sid)) = Cardinality(ReadIn(unread, sid)) + (IF e.sid = sid /\ IsCommand(e) THEN 1 ELSE 0)
  <1>1. IsFiniteSet(ReadIn(unread, sid))
    <2>1. ReadIn(unread, sid) \in SUBSET Events /\ IsFiniteSet(Events)
      BY ViewsAssumption DEF ReadIn
    <2> QED BY <2>1, FS_Subset
  <1>2. Cardinality(ReadIn(unread, sid)) \in Nat
    BY <1>1, FS_CardinalityType
  <1>3. CASE e.sid = sid /\ IsCommand(e)
    <2>1. ReadIn(unread \ {e}, sid) = ReadIn(unread, sid) \cup {e}
      BY <1>3 DEF ReadIn
    <2>2. e \notin ReadIn(unread, sid)
      BY DEF ReadIn
    <2> QED BY <1>1, <1>2, <1>3, <2>1, <2>2, FS_AddElement
  <1>4. CASE ~(e.sid = sid /\ IsCommand(e))
    <2>1. ReadIn(unread \ {e}, sid) = ReadIn(unread, sid)
      BY <1>4 DEF ReadIn
    <2> QED BY <1>2, <1>4, <2>1
  <1> QED BY <1>2, <1>3, <1>4

LEMMA ReadLineLoads == ASSUME ViewsInv, LoadPart, NEW e \in Events, ReadLine(e) PROVE LoadPart'
  <1>1. /\ e \in unread /\ unread' = unread \ {e} /\ acc' = (IF e.sid = Blank THEN acc ELSE Accumulate(e))
        /\ UNCHANGED <<phase, collator, files, sessions>>
    BY DEF ReadLine
  <1>2. acc \in Seq(Accumulators) /\ Distinct(acc) /\ (\A n \in DOMAIN acc : AccSound(acc[n])) /\ unread \in SUBSET Events
    BY DEF ViewsInv, DataTyped, LoadPart
  <1>3. PICK q : q = acc'
    OBVIOUS
  <1>4. Distinct(q) /\ \A n \in DOMAIN q : AccSound(q[n])
    <2>1. CASE e.sid = Blank
      BY <1>1, <1>2, <1>3, <2>1
    <2>2. CASE e.sid # Blank
      <3>1. q = Accumulate(e)
        BY <1>1, <1>3, <2>2
      <3> QED BY <1>2, <3>1, AccumulateSound
    <2> QED BY <2>1, <2>2
  <1>5. ASSUME NEW sid, sid # Blank, Counted(sid) PROVE Counted(sid)'
    <2>1. Cardinality(HeldIn(acc, sid)) \in Nat
      BY <1>2, HeldIsNat
    <2>2. PICK more \in {0, 1} : more = IF e.sid = sid /\ IsCommand(e) THEN 1 ELSE 0
      OBVIOUS
    <2>3. Cardinality(HeldIn(q, sid)) = Cardinality(HeldIn(acc, sid)) + more
      <3>1. CASE e.sid = Blank
        BY <1>1, <1>3, <1>5, <2>1, <2>2, <3>1
      <3>2. CASE e.sid # Blank
        <4>1. q = Accumulate(e)
          BY <1>1, <1>3, <3>2
        <4> QED BY <1>2, <2>2, <4>1, AccumulateSound
      <3> QED BY <3>1, <3>2
    <2>4. Cardinality(ReadIn(unread, sid)) \in Nat /\ Cardinality(ReadIn(unread', sid)) = Cardinality(ReadIn(unread, sid)) + more
      BY <1>1, <1>2, <2>2, ReadGrows
    <2>5. PICK b \in Nat : b = Cardinality(BuiltIn(sessions, sid))
      BY <1>5, FS_CardinalityType DEF Counted
    <2>6. PICK h \in Nat, r \in Nat : h = Cardinality(HeldIn(acc, sid)) /\ r = Cardinality(ReadIn(unread, sid))
      BY <2>1, <2>4
    <2>7. (r + more) - (h + more) - b = r - h - b
      OBVIOUS
    <2>8. r - h - b \in 0 .. files * Slack
      BY <1>5, <2>5, <2>6 DEF Counted
    <2>9. Cardinality(ReadIn(unread', sid)) - Cardinality(HeldIn(acc', sid)) - Cardinality(BuiltIn(sessions', sid)) = r - h - b
      BY <1>1, <1>3, <2>3, <2>4, <2>5, <2>6, <2>7
    <2>10. IsFiniteSet(BuiltIn(sessions', sid)) /\ files' * Slack = files * Slack
      BY <1>1, <1>5 DEF Counted
    <2>11. Counted(sid)' <=> /\ IsFiniteSet(BuiltIn(sessions', sid))
                             /\ Cardinality(ReadIn(unread', sid)) - Cardinality(HeldIn(acc', sid)) - Cardinality(BuiltIn(sessions', sid))
                                   \in 0 .. files' * Slack
      BY DEF Counted, ReadIn, HeldIn, BuiltIn, Slack
    <2> QED BY <2>8, <2>9, <2>10, <2>11
  <1>6. Distinct(acc)' /\ (\A n \in DOMAIN acc : AccSound(acc[n]))'
    BY <1>3, <1>4 DEF Distinct, AccSound, Unconnected
  <1>7. collator' = "contrastive" => \A n \in DOMAIN sessions' : SessionSound(sessions'[n])
    BY <1>1 DEF LoadPart
  <1>8. collator' = "contrastive" => \A sid : sid # Blank => Counted(sid)'
    BY <1>1, <1>5 DEF LoadPart, ReadLine
  <1>9. files' \in Nat /\ files' <= MaxFiles /\ (phase' = "read" => files' < MaxFiles)
        /\ phase' \in {"read", "failed", "fit", "encode", "augment", "done"}
    BY <1>1 DEF LoadPart
  <1> QED BY <1>6, <1>7, <1>8, <1>9 DEF LoadPart, SessionSound, Unconnected

LEMMA EndFileCounts == ASSUME ViewsInv, LoadPart, EndFile PROVE LoadPart'
  <1>1. /\ phase = "read" /\ (unread = {} \/ files + 1 < MaxFiles) /\ acc' = <<>> /\ files' = files + 1
        /\ phase' = (IF unread = {} THEN "fit" ELSE "read") /\ UNCHANGED <<collator, unread>>
    BY DEF EndFile
  <1>2. acc \in Seq(Accumulators) /\ Distinct(acc) /\ (\A n \in DOMAIN acc : AccSound(acc[n])) /\ LoadedTyped
        /\ unread \in SUBSET Events
    BY DEF ViewsInv, DataTyped, LoadPart
  <1>3. files \in Nat /\ files < MaxFiles /\ MaxFiles \in Nat
    BY <1>1, ViewsAssumption DEF LoadPart
  <1>4. files' \in Nat /\ files' <= MaxFiles /\ (phase' = "read" => files' < MaxFiles)
        /\ phase' \in {"read", "failed", "fit", "encode", "augment", "done"}
    BY <1>1, <1>3
  <1>5. Distinct(acc)' /\ (\A n \in DOMAIN acc : AccSound(acc[n]))'
    BY <1>1 DEF Distinct
  <1>6. /\ (\A n \in DOMAIN sessions : SessionSound(sessions[n])) => \A n \in DOMAIN sessions' : SessionSound(sessions'[n])
        /\ \A sid : IsFiniteSet(BuiltIn(sessions, sid)) =>
              /\ IsFiniteSet(BuiltIn(sessions', sid))
              /\ \E lost \in 0 .. Slack : Cardinality(BuiltIn(sessions', sid)) + lost
                                           = Cardinality(BuiltIn(sessions, sid)) + Cardinality(HeldIn(acc, sid))
    BY <1>2, EndFileSound
  <1>7. ASSUME NEW sid, Counted(sid) PROVE Counted(sid)'
    <2>1. IsFiniteSet(BuiltIn(sessions, sid))
      BY <1>7 DEF Counted
    <2>2. PICK lost \in 0 .. Slack : Cardinality(BuiltIn(sessions', sid)) + lost
                                      = Cardinality(BuiltIn(sessions, sid)) + Cardinality(HeldIn(acc, sid))
      BY <1>6, <2>1
    <2>3. IsFiniteSet(BuiltIn(sessions', sid))
      BY <1>6, <2>1
    <2>4. PICK b \in Nat, c \in Nat, h \in Nat :
             b = Cardinality(BuiltIn(sessions, sid)) /\ c = Cardinality(BuiltIn(sessions', sid)) /\ h = Cardinality(HeldIn(acc, sid))
      BY <1>2, <2>1, <2>3, FS_CardinalityType, HeldIsNat
    <2>5. PICK r \in Nat : r = Cardinality(ReadIn(unread, sid))
      <3>1. ReadIn(unread, sid) \in SUBSET Events /\ IsFiniteSet(Events)
        BY ViewsAssumption DEF ReadIn
      <3>2. Cardinality(ReadIn(unread, sid)) \in Nat
        BY <3>1, FS_Subset, FS_CardinalityType
      <3> QED BY <3>2
    <2>6. PICK s \in Nat, p \in Nat : s = Slack /\ p = files * Slack /\ files' * Slack = p + s
      <3>1. PICK s \in Nat : s = Slack
        BY SlackIs
      <3>2. PICK f \in Nat : f = files
        BY <1>3
      <3>3. f * s \in Nat /\ (f + 1) * s = f * s + s
        BY <3>1, <3>2
      <3> QED BY <1>1, <3>1, <3>2, <3>3
    <2>7. r - h - b \in 0 .. p /\ c + lost = b + h /\ lost \in 0 .. s
      BY <1>7, <2>2, <2>4, <2>5, <2>6 DEF Counted
    <2>8. Cardinality(HeldIn(acc', sid)) = 0
      <3>1. {m \in DOMAIN acc' : acc'[m].sid = sid} = {}
        BY <1>1
      <3>2. HeldIn(acc', sid) = {}
        BY <3>1, Zenon DEF HeldIn
      <3> QED BY <3>2, FS_EmptySet
    <2>9. r - 0 - c \in 0 .. p + s
      BY <2>7
    <2>10. ReadIn(unread', sid) = ReadIn(unread, sid)
      BY <1>1
    <2>11. Counted(sid)' <=> /\ IsFiniteSet(BuiltIn(sessions', sid))
                             /\ Cardinality(ReadIn(unread', sid)) - Cardinality(HeldIn(acc', sid)) - Cardinality(BuiltIn(sessions', sid))
                                   \in 0 .. files' * Slack
      BY DEF Counted, ReadIn, HeldIn, BuiltIn, Slack
    <2> QED BY <2>3, <2>4, <2>5, <2>6, <2>8, <2>9, <2>10, <2>11
  <1>8. collator' = "contrastive" => \A n \in DOMAIN sessions' : SessionSound(sessions'[n])
    BY <1>1, <1>6 DEF LoadPart
  <1>9. collator' = "contrastive" => \A sid : sid # Blank => Counted(sid)'
    BY <1>1, <1>7 DEF LoadPart
  <1> QED BY <1>4, <1>5, <1>8, <1>9 DEF LoadPart, SessionSound, Unconnected

\* Nothing else touches what was loaded.
LEMMA LoadedStays ==
    ASSUME LoadPart, UNCHANGED <<collator, unread, acc, files, sessions>>,
           (phase # "failed" /\ phase' \in {"fit", "encode", "augment", "done"}) \/ phase' = phase
    PROVE  LoadPart'
  <1>1. \A sid : Counted(sid) => Counted(sid)'
    BY DEF Counted, ReadIn, HeldIn, BuiltIn, Slack
  <1>2. Distinct(acc)' /\ (\A n \in DOMAIN acc : AccSound(acc[n]))'
    BY DEF LoadPart, Distinct, AccSound, Unconnected
  <1>3. (collator' = "contrastive" => \A n \in DOMAIN sessions' : SessionSound(sessions'[n]))
        /\ (collator' = "contrastive" /\ phase' # "failed" => \A sid : sid # Blank => Counted(sid)')
    BY <1>1 DEF LoadPart
  <1>4. files' \in Nat /\ files' <= MaxFiles /\ (phase' = "read" => files' < MaxFiles)
        /\ phase' \in {"read", "failed", "fit", "encode", "augment", "done"}
    BY DEF LoadPart
  <1> QED BY <1>2, <1>3, <1>4 DEF LoadPart, SessionSound, Unconnected

LEMMA InBatchIs ==
    ASSUME IsSeq(examples)
    PROVE  InBatch \in Nat
  <1>1. PICK l \in Nat, b \in Nat : l = Len(examples) /\ b = RowsPerBatch
    BY ViewsConstants DEF IsSeq
  <1>2. Min({b, l}) \in {b, l}
    <2>1. b \in Int /\ l \in Int
      OBVIOUS
    <2> QED BY <2>1, LeastOf
  <1> QED BY <1>1, <1>2 DEF InBatch

LEMMA RowsStay ==
    ASSUME RowPart, NEW nx, NEW ids, NEW tim, Becomes(nx, ids, tim), phase = "augment", Len(rows) < InBatch
    PROVE  RowPart'
  <1>1. UNCHANGED <<phase, rows, examples>>
    BY DEF Becomes, data
  <1>2. InBatch' = InBatch /\ rows' = rows /\ phase' = "augment"
    BY <1>1 DEF InBatch
  <1> QED BY <1>2 DEF RowPart

LEMMA AugmentRows == ASSUME ViewsInv, RowPart, Augment PROVE RowPart'
  <1>1. CASE NextExample
    BY <1>1, RowsStay DEF NextExample, At
  <1>2. CASE AppendRow
    <2>1. InRow /\ phase = "augment" /\ phase' = phase /\ row' = NoRow /\ examples' = examples
      BY <1>2 DEF AppendRow, At, InRow, data
    <2>2. rows' = Append(rows, [ids |-> row.ids, tim |-> row.tim])
      BY <1>2 DEF AppendRow
    <2>3. Len(rows) \in Nat /\ Len(rows') = Len(rows) + 1
      BY <2>2 DEF ViewsInv, RowsTyped, IsSeq
    <2>4. InBatch' = InBatch /\ InBatch \in Nat /\ ~InRow' /\ Len(rows) < InBatch
      BY <2>1, InBatchIs DEF InBatch, InRow, NoRow, RowPart, ViewsInv, DataTyped
    <2> QED BY <2>1, <2>3, <2>4 DEF RowPart
  <1>3. CASE Augment /\ ~NextExample /\ ~AppendRow
    <2>1. phase = "augment" /\ InRow
      BY <1>3 DEF Augment, TemporalCrop, CommandDropout, SpanMask, TimingJitter, ReidDropout, Reorder, ReidJitter,
                  SkipStage, Skip, At, InRow
    <2>2. \E nx, ids, tim : Becomes(nx, ids, tim)
      BY <1>3 DEF Augment, TemporalCrop, CommandDropout, SpanMask, TimingJitter, ReidDropout, Reorder, ReidJitter,
                  SkipStage, Skip
    <2> QED BY <2>1, <2>2, RowsStay DEF RowPart
  <1> QED BY <1>1, <1>2, <1>3

LEMMA LoadInitially == ViewsInit => LoadInv
  <1> SUFFICES ASSUME ViewsInit PROVE LoadInv
    OBVIOUS
  <1>1. acc = <<>> /\ files = 0 /\ examples = <<>> /\ row = NoRow /\ rows = <<>> /\ phase \in {"read", "fit"}
    BY DEF ViewsInit
  <1>2. collator = "contrastive" => unread \in {Events, Readable} /\ sessions = <<>>
    BY DEF ViewsInit
  <1>3. ASSUME NEW sid, collator = "contrastive" PROVE Counted(sid)
    <2>1. ReadIn(unread, sid) = {}
      BY <1>2, <1>3 DEF ReadIn, Readable, IsCommand
    <2>2. HeldIn(acc, sid) = {}
      <3>1. {m \in DOMAIN acc : acc[m].sid = sid} = {}
        BY <1>1
      <3> QED BY <3>1, Zenon DEF HeldIn
    <2>3. BuiltIn(sessions, sid) = {}
      <3>1. {m \in DOMAIN sessions : sessions[m].sid = sid} = {}
        BY <1>2, <1>3
      <3> QED BY <3>1, Zenon DEF BuiltIn
    <2>4. Cardinality({}) = 0 /\ IsFiniteSet({})
      BY FS_EmptySet
    <2>5. files * Slack = 0
      BY <1>1, SlackIs
    <2> QED BY <2>1, <2>2, <2>3, <2>4, <2>5 DEF Counted
  <1>4. Distinct(acc) /\ \A n \in DOMAIN acc : AccSound(acc[n])
    BY <1>1 DEF Distinct
  <1>5. collator = "contrastive" => \A n \in DOMAIN sessions : SessionSound(sessions[n])
    BY <1>2
  <1>6. LoadPart
    BY <1>1, <1>3, <1>4, <1>5, ViewsAssumption DEF LoadPart
  <1>7. RowPart
    <2>1. InBatch \in Nat /\ ~InRow /\ Len(rows) = 0
      BY <1>1, InBatchIs DEF InRow, NoRow, IsSeq
    <2> QED BY <1>1, <2>1 DEF RowPart
  <1> QED BY <1>6, <1>7 DEF LoadInv

LEMMA LoadKeeps == ViewsInv /\ LoadInv /\ ViewsInv' /\ [ViewsNext]_tvars => LoadInv'
  <1> SUFFICES ASSUME ViewsInv, LoadInv, ViewsInv', [ViewsNext]_tvars PROVE LoadInv'
    OBVIOUS
  <1>0. LoadPart /\ RowPart
    BY DEF LoadInv
  <1>1. ASSUME phase \in {"read", "failed", "fit", "encode"}, UNCHANGED <<row, rows>> PROVE RowPart'
    <2>1. rows' = <<>> /\ ~InRow'
      BY <1>0, <1>1 DEF RowPart, ViewsInv, InRow
    <2>2. InBatch' \in Nat
      <3>1. PICK x : x = examples' /\ IsSeq(x)
        BY DEF ViewsInv, DataTyped
      <3>2. PICK l \in Nat, b \in Nat : l = Len(x) /\ b = RowsPerBatch
        BY <3>1, ViewsConstants DEF IsSeq
      <3>3. Min({b, l}) \in {b, l}
        <4>1. b \in Int /\ l \in Int
          OBVIOUS
        <4> QED BY <4>1, LeastOf
      <3> QED BY <3>1, <3>2, <3>3 DEF InBatch
    <2>3. Len(rows') = 0
      BY <2>1
    <2> QED BY <2>1, <2>2, <2>3 DEF RowPart
  <1>2. CASE \E e \in Events : ReadLine(e)
    <2>1. PICK e \in Events : ReadLine(e)
      BY <1>2
    <2>2. phase = "read" /\ UNCHANGED <<row, rows>>
      BY <2>1 DEF ReadLine
    <2> QED BY <1>0, <1>1, <2>1, <2>2, ReadLineLoads DEF LoadInv
  <1>3. CASE EndFile
    <2>1. phase = "read" /\ UNCHANGED <<row, rows>>
      BY <1>3 DEF EndFile
    <2> QED BY <1>0, <1>1, <1>3, <2>1, EndFileCounts DEF LoadInv
  <1>9. CASE LoadAborts
    <2>1. /\ phase = "read" /\ phase' = "failed" /\ acc' = <<>> /\ sessions' = <<>>
          /\ UNCHANGED <<row, rows>> /\ UNCHANGED <<collator, files>>
      BY <1>9 DEF LoadAborts
    <2>2. Distinct(acc)' /\ (\A n \in DOMAIN acc : AccSound(acc[n]))' /\ \A n \in DOMAIN sessions' : SessionSound(sessions'[n])
      BY <2>1 DEF Distinct
    <2>3. LoadPart'
      BY <1>0, <2>1, <2>2 DEF LoadPart, SessionSound, Unconnected
    <2> QED BY <1>1, <2>1, <2>3 DEF LoadInv
  <1>4. CASE FitTokenizer
    <2>1. phase = "fit" /\ phase' = "encode" /\ UNCHANGED <<row, rows>> /\ UNCHANGED <<collator, unread, acc, files, sessions>>
      BY <1>4 DEF FitTokenizer
    <2> QED BY <1>0, <1>1, <2>1, LoadedStays DEF LoadInv
  <1>5. CASE EncodeAll
    <2>1. phase = "encode" /\ phase' = "augment" /\ UNCHANGED <<row, rows>> /\ UNCHANGED <<collator, unread, acc, files, sessions>>
      BY <1>5 DEF EncodeAll
    <2> QED BY <1>0, <1>1, <2>1, LoadedStays DEF LoadInv
  <1>6. CASE Augment
    <2>1. phase' = phase /\ UNCHANGED <<collator, unread, acc, files, sessions>>
      BY <1>6 DEF Augment, NextExample, TemporalCrop, CommandDropout, SpanMask, TimingJitter, ReidDropout, Reorder,
                  ReidJitter, SkipStage, Skip, AppendRow, Becomes, data
    <2> QED BY <1>0, <1>6, <2>1, AugmentRows, LoadedStays DEF LoadInv
  <1>7. CASE Collate
    <2>1. phase = "augment" /\ phase' = "done" /\ UNCHANGED <<row, rows, examples>> /\ UNCHANGED <<collator, unread, acc, files, sessions>>
      BY <1>7 DEF Collate, At, data
    <2>2. RowPart'
      BY <1>0, <2>1 DEF RowPart, InBatch, InRow
    <2> QED BY <1>0, <2>1, <2>2, LoadedStays DEF LoadInv
  <1>8. CASE UNCHANGED tvars
    <2>1. phase' = phase /\ UNCHANGED <<row, rows, examples>> /\ UNCHANGED <<collator, unread, acc, files, sessions>>
      BY <1>8 DEF tvars, data
    <2>2. RowPart'
      BY <1>0, <2>1 DEF RowPart, InBatch, InRow
    <2> QED BY <1>0, <2>1, <2>2, LoadedStays DEF LoadInv
  <1> QED BY <1>2, <1>3, <1>4, <1>5, <1>6, <1>7, <1>8, <1>9 DEF ViewsNext

LEMMA LoadIsSound == ASSUME ViewsInv, LoadInv PROVE LoadedSound
  <1>1. LoadPart /\ RowPart /\ DataTyped
    BY DEF LoadInv, ViewsInv
  <1>2. ViewsTypeOK
    <2>1. row.stage \in {"none", "ready"} \cup (IF collator = "reid" THEN {"drop", "reorder", "reid_jitter"}
                                               ELSE {"crop", "dropout", "mask", "jitter"})
      <3>1. InRow => row.stage \in Stages
        BY DEF ViewsInv, RowFits
      <3> QED BY <3>1 DEF InRow, Stages
    <2>2. files \in 0 .. MaxFiles
      BY <1>1, ViewsAssumption DEF LoadPart
    <2>3. Len(rows) <= InBatch /\ (row.stage # "none" => Len(rows) < InBatch)
      BY <1>1 DEF RowPart, InRow
    <2> QED BY <1>1, <2>1, <2>2, <2>3 DEF ViewsTypeOK, LoadPart, DataTyped
  <1>3. LoadedInOrder
    BY <1>1 DEF LoadPart, SessionSound, LoadedInOrder
  <1>4. PausesSurvive
    BY <1>1 DEF LoadPart, SessionSound, PausesSurvive, Unconnected
  <1>5. NoCommandLost
    <2> SUFFICES ASSUME collator = "contrastive", phase # "failed", NEW sid, sid # Blank
                 PROVE  Cardinality(ReadIn(unread, sid)) - Cardinality(HeldIn(acc, sid)) - Cardinality(BuiltIn(sessions, sid))
                            \in 0 .. files * Slack
      BY Zenon DEF NoCommandLost, ReadIn, HeldIn, BuiltIn, Slack
    <2> QED BY <1>1 DEF LoadPart, Counted
  <1> QED BY <1>2, <1>3, <1>4, <1>5 DEF LoadedSound

\* Whatever the order of the lines and the cuts between files, the loader gives the load up or
\* loses no command and builds sessions in order, with their pauses to within a millisecond
\* (DataLoader): for every log, corpus and bound, and for every way the float product rounds.
THEOREM LoadingIsSound == ViewsSpec => []LoadedSound
  <1>1. ViewsInv /\ LoadInv => LoadedSound
    BY LoadIsSound
  <1> QED BY <1>1, ViewsInitially, ViewsKeep, LoadInitially, LoadKeeps, PTL DEF ViewsSpec

-----------------------------------------------------------------------------
(* Stripping wrappers *)

\* A set of numbers that is not empty has a least one.
LEMMA LowestNumber ==
    ASSUME NEW T \in SUBSET Nat, T # {}
    PROVE  \E x \in T : \A y \in T : x <= y
  <1> DEFINE U == {0 .. n : n \in T}
             R == StrictSubsetOrdering(Nat)
  <1>1. U \subseteq FiniteSubsetsOf(Nat)
    <2> SUFFICES ASSUME NEW n \in T PROVE 0 .. n \in FiniteSubsetsOf(Nat)
      OBVIOUS
    <2>1. n \in Int /\ IsFiniteSet(0 .. n)
      BY FS_Interval
    <2> QED BY <2>1 DEF FiniteSubsetsOf
  <1>2. U # {}
    OBVIOUS
  <1>3. IsWellFoundedOn(R, FiniteSubsetsOf(Nat))
    BY FS_StrictSubsetOrderingWellFounded
  <1>4. PICK u \in U : \A v \in U : ~(<<v, u>> \in R)
    <2> HIDE DEF U, R
    <2> QED BY <1>1, <1>2, <1>3, WFMin
  <1>5. PICK x \in T : u = 0 .. x
    OBVIOUS
  <1>6. ASSUME NEW y \in T, y < x PROVE FALSE
    <2>1. 0 .. y \subseteq 0 .. x /\ x \in 0 .. x /\ x \notin 0 .. y
      BY <1>6
    <2>2. 0 .. y \in SUBSET Nat /\ 0 .. x \in SUBSET Nat
      OBVIOUS
    <2>3. <<0 .. y, 0 .. x>> \in R
      BY <2>1, <2>2 DEF StrictSubsetOrdering
    <2> QED BY <1>4, <1>5, <2>3
  <1> QED BY <1>6

\* Induction, for a set of numbers.
LEMMA StepByStep ==
    ASSUME NEW S, 0 \in S, \A n \in Nat : n \in S => n + 1 \in S
    PROVE  Nat \subseteq S
  <1> DEFINE T == Nat \ S
  <1> SUFFICES ASSUME T # {} PROVE FALSE
    OBVIOUS
  <1>1. PICK x \in T : \A y \in T : x <= y
    <2> HIDE DEF T
    <2>1. T \in SUBSET Nat
      BY DEF T
    <2> QED BY <2>1, LowestNumber
  <1>2. x # 0 /\ x - 1 \in Nat /\ x - 1 < x /\ (x - 1) + 1 = x
    OBVIOUS
  <1>3. x - 1 \in S
    BY <1>1, <1>2
  <1> QED BY <1>2, <1>3

-----------------------------------------------------------------------------
\* f follows jumps forward, up to a place in halts.
Lands(f, n, halts, jump) == f = [i \in 1 .. n |-> IF i \in halts THEN i ELSE f[jump[i]]]

\* There is such a function, if jumps go forward and none leaves.
LEMMA LandsExists ==
    ASSUME NEW n \in Nat, NEW halts, NEW jump, \A i \in 1 .. n : i \notin halts => jump[i] \in (i + 1) .. n
    PROVE  \E f \in [1 .. n -> 1 .. n] : Lands(f, n, halts, jump)
  <1> DEFINE to(f, i) == IF i \in halts THEN i ELSE f[jump[i]]
             N == {j \in Nat : \E f \in [1 .. n -> 1 .. n] : \A i \in 1 .. n : i + j > n => f[i] = to(f, i)}
  <1>1. 0 \in N
    <2>1. [i \in 1 .. n |-> i] \in [1 .. n -> 1 .. n] /\ \A i \in 1 .. n : ~(i + 0 > n)
      OBVIOUS
    <2> QED BY <2>1
  <1>2. ASSUME NEW j \in Nat, j \in N PROVE j + 1 \in N
    <2>1. PICK f \in [1 .. n -> 1 .. n] : \A i \in 1 .. n : i + j > n => f[i] = to(f, i)
      BY <1>2
    <2>2. ASSUME NEW i \in 1 .. n PROVE to(f, i) \in 1 .. n
      <3>1. CASE i \in halts
        BY <3>1
      <3>2. CASE i \notin halts
        <4>1. jump[i] \in 1 .. n
          BY <3>2
        <4>2. f[jump[i]] \in 1 .. n
          BY <2>1, <4>1
        <4> QED BY <3>2, <4>2
      <3> QED BY <3>1, <3>2
    <2> DEFINE g == [i \in 1 .. n |-> to(f, i)]
    <2>3. g \in [1 .. n -> 1 .. n]
      <3> HIDE DEF to
      <3> QED BY <2>2
    <2>4. ASSUME NEW i \in 1 .. n, i + (j + 1) > n PROVE g[i] = to(g, i)
      <3>1. CASE i \in halts
        BY <3>1
      <3>2. CASE i \notin halts
        <4>1. PICK k \in 1 .. n : k = jump[i] /\ k + j > n
          <5>1. jump[i] \in (i + 1) .. n
            BY <3>2
          <5>2. PICK k \in (i + 1) .. n : k = jump[i]
            BY <5>1
          <5>3. k \in 1 .. n /\ k + j > n
            BY <2>4
          <5> QED BY <5>2, <5>3
        <4>2. f[k] = to(f, k)
          <5> HIDE DEF to
          <5> QED BY <2>1, <4>1
        <4>3. g[k] = to(f, k) /\ g[i] = to(f, i)
          <5> HIDE DEF to
          <5> QED BY <4>1
        <4>4. to(f, i) = f[k] /\ to(g, i) = g[k]
          <5> HIDE DEF g
          <5> QED BY <3>2, <4>1
        <4> HIDE DEF g, to
        <4> QED BY <4>2, <4>3, <4>4
      <3> QED BY <3>1, <3>2
    <2> HIDE DEF g, to
    <2>5. \E h \in [1 .. n -> 1 .. n] : \A i \in 1 .. n : i + (j + 1) > n => h[i] = to(h, i)
      BY <2>3, <2>4
    <2>6. j + 1 \in Nat
      OBVIOUS
    <2> QED BY <2>5, <2>6
  <1>3. n \in N
    <2> HIDE DEF N
    <2>1. Nat \subseteq N
      BY <1>1, <1>2, StepByStep
    <2> QED BY <2>1
  <1>4. PICK f \in [1 .. n -> 1 .. n] : \A i \in 1 .. n : i + n > n => f[i] = to(f, i)
    BY <1>3
  <1>5. f = [i \in 1 .. n |-> to(f, i)]
    <2>1. \A i \in 1 .. n : f[i] = to(f, i)
      <3> HIDE DEF to
      <3> QED BY <1>4
    <2> HIDE DEF to
    <2> QED BY <2>1
  <1> QED BY <1>5 DEF Lands

\* It lands on the first halts that is reached: on the next one, if a jump is one step.
LandsWell(f, n, halts, jump) ==
    \A i \in 1 .. n : /\ f[i] \in i .. n /\ f[i] \in halts
                      /\ (\A j \in 1 .. n : j \notin halts => jump[j] = j + 1)
                            => \A j \in i .. (f[i] - 1) : j \notin halts

LEMMA LandsOnStop ==
    ASSUME NEW n \in Nat, NEW halts, NEW jump, \A i \in 1 .. n : i \notin halts => jump[i] \in (i + 1) .. n,
           NEW f, Lands(f, n, halts, jump)
    PROVE  LandsWell(f, n, halts, jump)
  <1> DEFINE Steps == \A j \in 1 .. n : j \notin halts => jump[j] = j + 1
             Fine(i) == /\ f[i] \in i .. n /\ f[i] \in halts
                        /\ Steps => \A j \in i .. (f[i] - 1) : j \notin halts
             N == {k \in Nat : \A i \in 1 .. n : i + k > n => Fine(i)}
  <1>0. \A i \in 1 .. n : f[i] = IF i \in halts THEN i ELSE f[jump[i]]
    BY DEF Lands
  <1>1. 0 \in N
    <2>1. \A i \in 1 .. n : ~(i + 0 > n)
      OBVIOUS
    <2> QED BY <2>1
  <1>2. ASSUME NEW k \in Nat, k \in N PROVE k + 1 \in N
    <2> SUFFICES ASSUME NEW i \in 1 .. n, i + (k + 1) > n PROVE Fine(i)
      OBVIOUS
    <2>1. CASE i \in halts
      <3>1. f[i] = i
        BY <1>0, <2>1
      <3> HIDE DEF Steps
      <3> QED BY <2>1, <3>1
    <2>2. CASE i \notin halts
      <3>1. PICK m \in (i + 1) .. n : m = jump[i] /\ f[i] = f[m]
        BY <1>0, <2>2
      <3>2. m \in 1 .. n /\ m + k > n
        BY <3>1
      <3>3. Fine(m)
        BY <1>2, <3>2
      <3>4. f[i] \in i .. n /\ f[i] \in halts
        BY <3>1, <3>3
      <3>5. ASSUME Steps, NEW j \in i .. (f[i] - 1) PROVE j \notin halts
        <4>1. m = i + 1
          BY <2>2, <3>1, <3>5
        <4>2. CASE j = i
          BY <2>2, <4>2
        <4>3. CASE j # i
          <5>1. f[i] \in Int
            BY <3>4
          <5>2. j \in m .. (f[m] - 1)
            BY <3>1, <4>1, <4>3, <5>1
          <5> QED BY <3>3, <3>5, <5>2
        <4> QED BY <4>2, <4>3
      <3> HIDE DEF Steps
      <3> QED BY <3>4, <3>5
    <2> QED BY <2>1, <2>2
  <1>3. n \in N
    <2> HIDE DEF N
    <2>1. Nat \subseteq N
      BY <1>1, <1>2, StepByStep
    <2> QED BY <2>1
  <1>4. \A i \in 1 .. n : i + n > n
    OBVIOUS
  <1>5. \A i \in 1 .. n : Fine(i)
    <2> HIDE DEF Fine
    <2> QED BY <1>3, <1>4
  <1> QED BY <1>5 DEF LandsWell

\* The two recursions of StripWrappers: over a wrapper's flags, and over what comes first.
SkipsFlags(f, line) ==
    f = [i \in 1 .. Len(line) + 1 |->
            IF i > Len(line) \/ line[i] \notin Flags THEN i
            ELSE IF i < Len(line) /\ line[i + 1] \notin Flags \cup Wrappers THEN f[i + 2]
            ELSE f[i + 1]]

SkipsWrappers(g, f, line) ==
    g = [i \in 1 .. Len(line) + 1 |->
            IF i > Len(line) THEN i
            ELSE IF line[i] \in Assignments THEN g[i + 1]
            ELSE IF line[i] \in Wrappers THEN g[f[i + 1]]
            ELSE i]

LEMMA StripDefinition ==
    ASSUME NEW line
    PROVE  LET f == CHOOSE f : SkipsFlags(f, line)
               g == CHOOSE g : SkipsWrappers(g, f, line)
           IN  StripWrappers(line) = SubSeq(line, g[1], Len(line))
  BY DEF StripWrappers, SkipsFlags, SkipsWrappers

\* The flags of a wrapper end at a word that is none, or at the end.
LEMMA FlagsSkipped ==
    ASSUME NEW line, IsSeq(line), NEW n \in Nat, n = Len(line) + 1
    PROVE  LET f == CHOOSE f : SkipsFlags(f, line)
           IN  \A i \in 1 .. n : /\ f[i] \in i .. n
                                 /\ Range(line) \cap Flags = {} => f[i] = i
  <1> DEFINE halts == {i \in 1 .. n : i = n \/ line[i] \notin Flags}
             jump == [i \in 1 .. n |-> IF i < n - 1 /\ line[i + 1] \notin Flags \cup Wrappers THEN i + 2 ELSE i + 1]
             f == CHOOSE h : SkipsFlags(h, line)
  <1>1. Len(line) \in Nat /\ Len(line) = n - 1 /\ DOMAIN line = 1 .. (n - 1)
    BY DEF IsSeq
  <1>2. \A i \in 1 .. n : i \notin halts => jump[i] \in (i + 1) .. n
    BY <1>1
  <1>3. ASSUME NEW h PROVE SkipsFlags(h, line) <=> Lands(h, n, halts, jump)
    <2> DEFINE one(i) == IF i > Len(line) \/ line[i] \notin Flags THEN i
                         ELSE IF i < Len(line) /\ line[i + 1] \notin Flags \cup Wrappers THEN h[i + 2]
                         ELSE h[i + 1]
               two(i) == IF i \in halts THEN i ELSE h[jump[i]]
    <2>1. ASSUME NEW i \in 1 .. n PROVE one(i) = two(i)
      <3>1. i > Len(line) <=> i = n
        BY <1>1
      <3>2. i < Len(line) <=> i < n - 1
        BY <1>1
      <3>3. CASE i \in halts
        BY <3>1, <3>3
      <3>4. CASE i \notin halts
        <4>1. ~(i > Len(line) \/ line[i] \notin Flags)
          BY <3>1, <3>4
        <4>2. one(i) = IF i < n - 1 /\ line[i + 1] \notin Flags \cup Wrappers THEN h[i + 2] ELSE h[i + 1]
          BY <3>2, <4>1
        <4>3. jump[i] = IF i < n - 1 /\ line[i + 1] \notin Flags \cup Wrappers THEN i + 2 ELSE i + 1
          OBVIOUS
        <4> HIDE DEF one, jump
        <4>4. two(i) = h[jump[i]]
          BY <3>4
        <4> HIDE DEF two
        <4> QED BY <4>2, <4>3, <4>4
      <3> QED BY <3>3, <3>4
    <2>2. SkipsFlags(h, line) <=> h = [i \in 1 .. n |-> one(i)]
      BY DEF SkipsFlags
    <2>3. Lands(h, n, halts, jump) <=> h = [i \in 1 .. n |-> two(i)]
      BY DEF Lands
    <2> HIDE DEF one, two, halts, jump
    <2>4. [i \in 1 .. n |-> one(i)] = [i \in 1 .. n |-> two(i)]
      BY <2>1
    <2> QED BY <2>2, <2>3, <2>4
  <1>4. Lands(f, n, halts, jump)
    <2> HIDE DEF halts, jump
    <2>1. \E h : SkipsFlags(h, line)
      BY <1>2, <1>3, LandsExists
    <2> QED BY <1>3, <2>1
  <1>5. \A i \in 1 .. n : f[i] \in i .. n
    <2> HIDE DEF halts, jump, f
    <2>1. LandsWell(f, n, halts, jump)
      BY <1>2, <1>4, LandsOnStop
    <2> QED BY <2>1 DEF LandsWell
  <1>6. ASSUME Range(line) \cap Flags = {}, NEW i \in 1 .. n PROVE f[i] = i
    <2>1. i \in halts
      <3>1. CASE i = n
        BY <3>1
      <3>2. CASE i # n
        <4>1. line[i] \in Range(line)
          BY <1>1, <3>2 DEF Range
        <4> QED BY <1>6, <4>1
      <3> QED BY <3>1, <3>2
    <2> HIDE DEF halts, jump, f
    <2> QED BY <1>4, <2>1 DEF Lands
  <1> HIDE DEF f
  <1>7. \A i \in 1 .. n : f[i] \in i .. n /\ (Range(line) \cap Flags = {} => f[i] = i)
    BY <1>5, <1>6
  <1> QED BY <1>7 DEF f

\* What is stripped is a beginning of the line, and what is left starts with a command.
StrippedAt(line, k) ==
    /\ k \in 1 .. (Len(line) + 1) /\ StripWrappers(line) = SubSeq(line, k, Len(line))
    /\ k <= Len(line) => line[k] \notin Assignments \cup Wrappers
    /\ Len(line) > 0 /\ line[1] \notin Assignments \cup Wrappers => k = 1
    /\ Range(line) \cap Flags = {} => \A i \in 1 .. (k - 1) : line[i] \in Assignments \cup Wrappers

LEMMA StripIs ==
    ASSUME NEW line, IsSeq(line)
    PROVE  \E k \in 1 .. (Len(line) + 1) : StrippedAt(line, k)
  <1>0. PICK n \in Nat : n = Len(line) + 1 /\ Len(line) = n - 1 /\ n >= 1
    <2>1. Len(line) \in Nat
      BY DEF IsSeq
    <2> QED BY <2>1
  <1> DEFINE f == CHOOSE h : SkipsFlags(h, line)
             g == CHOOSE h : SkipsWrappers(h, f, line)
             halts == {i \in 1 .. n : i = n \/ line[i] \notin Assignments \cup Wrappers}
             jump == [i \in 1 .. n |-> IF line[i] \in Assignments THEN i + 1 ELSE f[i + 1]]
  <1>1. \A i \in 1 .. n : f[i] \in i .. n /\ (Range(line) \cap Flags = {} => f[i] = i)
    BY <1>0, FlagsSkipped
  <1>2. StripWrappers(line) = SubSeq(line, g[1], Len(line))
    BY StripDefinition
  <1> HIDE DEF f
  <1>3. \A i \in 1 .. n : i \notin halts => jump[i] \in (i + 1) .. n
    <2> SUFFICES ASSUME NEW i \in 1 .. n, i \notin halts PROVE jump[i] \in (i + 1) .. n
      OBVIOUS
    <2>1. i + 1 \in 1 .. n
      OBVIOUS
    <2>2. f[i + 1] \in (i + 1) .. n /\ i + 1 \in (i + 1) .. n
      BY <1>1, <2>1
    <2> QED BY <2>2
  <1>4. ASSUME NEW h PROVE SkipsWrappers(h, f, line) <=> Lands(h, n, halts, jump)
    <2> DEFINE one(i) == IF i > Len(line) THEN i
                         ELSE IF line[i] \in Assignments THEN h[i + 1]
                         ELSE IF line[i] \in Wrappers THEN h[f[i + 1]]
                         ELSE i
               two(i) == IF i \in halts THEN i ELSE h[jump[i]]
    <2>1. ASSUME NEW i \in 1 .. n PROVE one(i) = two(i)
      <3>1. i > Len(line) <=> i = n
        BY <1>0
      <3>2. CASE i \in halts
        BY <3>1, <3>2
      <3>3. CASE i \notin halts
        <4>1. two(i) = h[jump[i]] /\ ~(i > Len(line)) /\ (line[i] \in Assignments \/ line[i] \in Wrappers)
          BY <3>1, <3>3
        <4>2. jump[i] = IF line[i] \in Assignments THEN i + 1 ELSE f[i + 1]
          OBVIOUS
        <4> HIDE DEF two, jump
        <4> QED BY <4>1, <4>2
      <3> QED BY <3>2, <3>3
    <2>2. SkipsWrappers(h, f, line) <=> h = [i \in 1 .. n |-> one(i)]
      BY <1>0 DEF SkipsWrappers
    <2>3. Lands(h, n, halts, jump) <=> h = [i \in 1 .. n |-> two(i)]
      BY DEF Lands
    <2> HIDE DEF one, two, halts, jump
    <2>4. [i \in 1 .. n |-> one(i)] = [i \in 1 .. n |-> two(i)]
      BY <2>1
    <2> QED BY <2>2, <2>3, <2>4
  <1>5. Lands(g, n, halts, jump)
    <2> HIDE DEF halts, jump
    <2>1. \E h : SkipsWrappers(h, f, line)
      BY <1>3, <1>4, LandsExists
    <2> QED BY <1>4, <2>1
  <1> HIDE DEF g
  <1>6. PICK k \in 1 .. n : /\ k = g[1] /\ k \in halts
                            /\ (\A j \in 1 .. n : j \notin halts => jump[j] = j + 1)
                                  => \A j \in 1 .. (k - 1) : j \notin halts
    <2>1. 1 \in 1 .. n
      BY <1>0
    <2> HIDE DEF halts, jump
    <2>2. LandsWell(g, n, halts, jump)
      BY <1>3, <1>5, LandsOnStop
    <2> QED BY <2>1, <2>2 DEF LandsWell
  <1>7. ASSUME Range(line) \cap Flags = {}, NEW i \in 1 .. (k - 1) PROVE line[i] \in Assignments \cup Wrappers
    <2>1. ASSUME NEW j \in 1 .. n, j \notin halts PROVE jump[j] = j + 1
      <3>1. j + 1 \in 1 .. n
        BY <2>1
      <3>2. f[j + 1] = j + 1
        BY <1>1, <1>7, <3>1
      <3> QED BY <3>2
    <2>2. i \notin halts
      <3> HIDE DEF halts, jump
      <3> QED BY <1>6, <2>1
    <2> QED BY <2>2
  <1>8. k <= Len(line) => line[k] \notin Assignments \cup Wrappers
    BY <1>0, <1>6
  <1>9. ASSUME Len(line) > 0, line[1] \notin Assignments \cup Wrappers PROVE k = 1
    <2>1. 1 \in 1 .. n /\ 1 \in halts
      BY <1>0, <1>9
    <2> HIDE DEF halts, jump
    <2>2. g[1] = 1
      BY <1>5, <2>1 DEF Lands
    <2> QED BY <1>6, <2>2
  <1> HIDE DEF halts, jump
  <1>10. StrippedAt(line, k)
    BY <1>0, <1>2, <1>6, <1>7, <1>8, <1>9 DEF StrippedAt
  <1> QED BY <1>0, <1>10

\* Nothing is left to strip.
LEMMA StripTwice ==
    ASSUME NEW line, IsSeq(line)
    PROVE  StripWrappers(StripWrappers(line)) = StripWrappers(line)
  <1>1. PICK k \in 1 .. (Len(line) + 1) : StrippedAt(line, k)
    BY StripIs
  <1>2. PICK n \in Nat : n = Len(line) /\ line \in Seq(Range(line))
    BY DEF IsSeq
  <1> DEFINE words == StripWrappers(line)
             m == n + 1 - k
  <1>3. m \in Nat /\ words = [i \in 1 .. m |-> line[k + i - 1]]
    BY <1>1, <1>2 DEF StrippedAt
  <1>4. words \in [1 .. m -> Range(line)]
    <2>1. \A i \in 1 .. m : line[k + i - 1] \in Range(line)
      <3> SUFFICES ASSUME NEW i \in 1 .. m PROVE line[k + i - 1] \in Range(line)
        OBVIOUS
      <3>1. k + i - 1 \in 1 .. n
        BY <1>2
      <3> QED BY <1>2, <3>1 DEF Range
    <2> HIDE DEF m, words
    <2> QED BY <1>3, <2>1
  <1> HIDE DEF words, m
  <1>5. words \in Seq(Range(line)) /\ Len(words) = m
    <2>1. m \in Nat
      BY <1>3
    <2> QED BY <1>4, <2>1
  <1>6. IsSeq(words)
    BY <1>5, SeqIs
  <1>7. PICK j \in 1 .. (m + 1) : StrippedAt(words, j)
    BY <1>5, <1>6, StripIs
  <1>8. StripWrappers(words) = SubSeq(words, j, m)
    BY <1>5, <1>7 DEF StrippedAt
  <1>9. CASE m = 0
    <2>1. words = <<>> /\ j = 1
      BY <1>3, <1>9
    <2> QED BY <1>8, <1>9, <2>1 DEF words
  <1>10. CASE m > 0
    <2>1. words[1] = line[k] /\ k <= Len(line)
      <3>1. 1 \in 1 .. m /\ k + 1 - 1 = k /\ k <= n
        BY <1>2, <1>3, <1>10 DEF m
      <3> QED BY <1>2, <1>3, <3>1
    <2>2. words[1] \notin Assignments \cup Wrappers
      BY <1>1, <2>1 DEF StrippedAt
    <2>3. j = 1
      BY <1>5, <1>7, <1>10, <2>2 DEF StrippedAt
    <2>4. SubSeq(words, 1, m) = words
      BY <1>5
    <2> QED BY <1>8, <2>3, <2>4 DEF words
  <1> QED BY <1>3, <1>9, <1>10

\* A line without flags is reduced to its first plain word.
LEMMA HeadIs ==
    ASSUME NEW line, IsSeq(line), Range(line) \cap Flags = {},
           NEW plain, plain = {k \in DOMAIN line : line[k] \notin Assignments \cup Wrappers}, plain # {},
           line[Min(plain)] \notin Breaks
    PROVE  HeadCommand(line) = BaseName[line[Min(plain)]]
  <1>1. PICK k \in 1 .. (Len(line) + 1) : StrippedAt(line, k)
    BY StripIs
  <1>2. PICK n \in Nat : n = Len(line) /\ DOMAIN line = 1 .. n
    BY DEF IsSeq
  <1>3. plain \in SUBSET (1 .. n) /\ plain \in SUBSET Int /\ IsFiniteSet(plain)
    <2>1. plain \in SUBSET (1 .. n) /\ plain \in SUBSET Int
      BY <1>2
    <2>2. IsFiniteSet(1 .. n)
      BY FS_Interval
    <2> QED BY <2>1, <2>2, FS_Subset
  <1>4. PICK m \in plain : m = Min(plain) /\ \A x \in plain : m <= x
    BY <1>3, MinIs
  <1>5. m \in 1 .. n /\ line[m] \notin Assignments \cup Wrappers
    BY <1>2, <1>4
  <1>6. k <= m
    <2> SUFFICES ASSUME m < k PROVE FALSE
      BY <1>5
    <2>1. m \in 1 .. (k - 1)
      BY <1>5
    <2> QED BY <1>1, <1>5, <2>1 DEF StrippedAt
  <1>7. k \in plain
    <2>1. k \in 1 .. n /\ k <= Len(line)
      BY <1>2, <1>5, <1>6
    <2> QED BY <1>1, <1>2, <2>1 DEF StrippedAt
  <1>8. k = m
    BY <1>4, <1>5, <1>6, <1>7
  <1> DEFINE words == StripWrappers(line)
  <1>9. words # <<>> /\ words[1] = line[m]
    <2>1. words = SubSeq(line, k, n) /\ n + 1 - k \in Nat /\ n + 1 - k >= 1
      BY <1>1, <1>2, <1>5, <1>8 DEF StrippedAt
    <2>2. words = [i \in 1 .. (n + 1 - k) |-> line[k + i - 1]]
      BY <1>2, <2>1
    <2>3. 1 \in 1 .. (n + 1 - k) /\ k + 1 - 1 = k
      BY <2>1
    <2> HIDE DEF words
    <2>4. words[1] = line[k] /\ 1 \in DOMAIN words
      BY <2>2, <2>3
    <2> QED BY <1>8, <2>4
  <1> QED BY <1>4, <1>9 DEF HeadCommand

Reduced(line) ==
    LET plain == {k \in DOMAIN line : line[k] \notin Assignments \cup Wrappers}
    IN  /\ StripWrappers(StripWrappers(line)) = StripWrappers(line)
        /\ (Range(line) \cap Flags = {} /\ plain # {} /\ line[Min(plain)] \notin Breaks)
              => HeadCommand(line) = BaseName[line[Min(plain)]]

LEMMA HeadsAreCommands == ASSUME LoadedTyped PROVE HeadIsCommand
  <1>1. ASSUME NEW line, IsSeq(line) PROVE Reduced(line)
    <2> DEFINE plain == {k \in DOMAIN line : line[k] \notin Assignments \cup Wrappers}
    <2>1. StripWrappers(StripWrappers(line)) = StripWrappers(line)
      BY <1>1, StripTwice
    <2>2. (Range(line) \cap Flags = {} /\ plain # {} /\ line[Min(plain)] \notin Breaks)
              => HeadCommand(line) = BaseName[line[Min(plain)]]
      BY <1>1, HeadIs, Zenon
    <2> QED BY <2>1, <2>2 DEF Reduced
  <1>2. ASSUME NEW n \in DOMAIN sessions, NEW i \in DOMAIN sessions[n].cmds PROVE Reduced(sessions[n].cmds[i].raw)
    <2>1. IsSeq(sessions[n].cmds[i].raw)
      BY DEF LoadedTyped, IsSession, IsSeq
    <2> QED BY <1>1, <2>1
  <1> QED BY <1>2, Zenon DEF HeadIsCommand, Reduced

-----------------------------------------------------------------------------
(* The fitted tokenizer *)

\* A finite function has finitely many values.
LEMMA ValuesFinite ==
    ASSUME NEW S, IsFiniteSet(S), NEW f, f = [x \in S |-> f[x]]
    PROVE  IsFiniteSet({f[x] : x \in S})
  <1> DEFINE T == {f[x] : x \in S}
  <1>1. f \in [S -> T] /\ \A y \in T : \E x \in S : f[x] = y
    OBVIOUS
  <1>2. f \in Surjection(S, T)
    <2> HIDE DEF T
    <2> QED BY <1>1 DEF Surjection
  <1> HIDE DEF T
  <1>3. IsFiniteSet(T)
    BY <1>2, FS_Surjection
  <1> QED BY <1>3 DEF T

LEMMA DeviationIs ==
    ASSUME NEW sample \in SUBSET Int, IsFiniteSet(sample)
    PROVE  Deviation(sample) \in Int /\ Deviation(sample) > 0
  <1>1. CASE sample = {}
    BY <1>1 DEF Deviation
  <1>2. CASE sample # {}
    <2>1. PICK hi \in sample : hi = Max(sample) /\ \A x \in sample : x <= hi
      BY <1>2, MaxIs
    <2>2. PICK lo \in sample : lo = Min(sample) /\ \A x \in sample : lo <= x
      BY <1>2, MinIs
    <2>3. hi \in Int /\ lo \in Int /\ lo <= hi
      BY <2>1, <2>2
    <2>4. Deviation(sample) = IF hi = lo THEN 1 ELSE hi - lo
      BY <1>2, <2>1, <2>2 DEF Deviation
    <2> QED BY <2>3, <2>4
  <1> QED BY <1>1, <1>2

AreSessions(ss) == IsSeq(ss) /\ \A n \in DOMAIN ss : IsSession(ss[n])

LEMMA ScalesAre ==
    ASSUME NEW ss, AreSessions(ss), NEW cfg
    PROVE  Fit(cfg, ss).timingStd > 0 /\ Fit(cfg, ss).durationStd > 0
  <1>1. PICK k \in Nat : DOMAIN ss = 1 .. k /\ \A n \in 1 .. k : IsSession(ss[n])
    BY DEF AreSessions, IsSeq
  <1>2. IsFiniteSet(1 .. k)
    BY FS_Interval
  <1> DEFINE Of(n) == {Gap(ss[n], i) : i \in 2 .. Len(ss[n].cmds)}
             gaps == UNION {Of(n) : n \in DOMAIN ss}
             durations == {EffectiveDuration(ss[n]) : n \in DOMAIN ss}
  <1>3. ASSUME NEW n \in 1 .. k PROVE IsFiniteSet(Of(n)) /\ Of(n) \in SUBSET Int
    <2>1. PICK m \in Nat : m = Len(ss[n].cmds) /\ IsSession(ss[n])
      BY <1>1 DEF IsSession
    <2>2. IsFiniteSet(2 .. m)
      BY FS_Interval
    <2> DEFINE f == [i \in 2 .. m |-> Gap(ss[n], i)]
    <2>3. IsFiniteSet({f[i] : i \in 2 .. m})
      <3>1. f = [i \in 2 .. m |-> f[i]]
        OBVIOUS
      <3> HIDE DEF f
      <3> QED BY <2>2, <3>1, ValuesFinite
    <2>4. Of(n) = {f[i] : i \in 2 .. m}
      BY <2>1
    <2>5. \A i \in 2 .. m : Gap(ss[n], i) \in Int
      BY <2>1, GapIs
    <2> QED BY <2>1, <2>3, <2>4, <2>5
  <1>4. IsFiniteSet(gaps) /\ gaps \in SUBSET Int
    <2> DEFINE f == [n \in 1 .. k |-> Of(n)]
               S == {f[n] : n \in 1 .. k}
    <2> HIDE DEF Of
    <2>1. IsFiniteSet(S)
      <3>1. f = [n \in 1 .. k |-> f[n]]
        OBVIOUS
      <3> HIDE DEF f
      <3> QED BY <1>2, <3>1, ValuesFinite
    <2>2. \A T \in S : IsFiniteSet(T) /\ T \in SUBSET Int
      BY <1>3
    <2>3. gaps = UNION S
      BY <1>1
    <2> HIDE DEF S, gaps
    <2>4. IsFiniteSet(UNION S)
      BY <2>1, <2>2, FS_UNION
    <2> QED BY <2>2, <2>3, <2>4
  <1>5. IsFiniteSet(durations) /\ durations \in SUBSET Int
    <2> DEFINE f == [n \in 1 .. k |-> EffectiveDuration(ss[n])]
    <2>1. IsFiniteSet({f[n] : n \in 1 .. k})
      <3>1. f = [n \in 1 .. k |-> f[n]]
        OBVIOUS
      <3> HIDE DEF f
      <3> QED BY <1>2, <3>1, ValuesFinite
    <2>2. durations = {f[n] : n \in 1 .. k}
      BY <1>1
    <2>3. \A n \in 1 .. k : EffectiveDuration(ss[n]) \in Int
      BY <1>1, DurationIs
    <2> QED BY <1>1, <2>1, <2>2, <2>3
  <1>6. Fit(cfg, ss).timingStd = Deviation(gaps) /\ Fit(cfg, ss).durationStd = IF cfg.meta THEN Deviation(durations) ELSE 1
    BY DEF Fit
  <1> HIDE DEF gaps, durations
  <1> QED BY <1>4, <1>5, <1>6, DeviationIs

\* Flattening is concatenating one sequence after the other.
Concatenates(f, seqs) ==
    f = [i \in 1 .. Len(seqs) |-> IF i = 1 THEN seqs[i] ELSE f[i - 1] \o seqs[i]]

\* There is such a function.
LEMMA ConcatenatesExists ==
    ASSUME NEW R, NEW seqs \in Seq(Seq(R))
    PROVE  \E f : f \in [1 .. Len(seqs) -> Seq(R)] /\ Concatenates(f, seqs)
  <1> DEFINE n == Len(seqs)
             onto(f, i) == IF i = 1 THEN seqs[i] ELSE f[i - 1] \o seqs[i]
             N == {k \in Nat : \E f \in [1 .. n -> Seq(R)] : \A i \in 1 .. n : i <= k => f[i] = onto(f, i)}
  <1>0. n \in Nat /\ \A i \in 1 .. n : seqs[i] \in Seq(R)
    OBVIOUS
  <1>1. 0 \in N
    <2> DEFINE f == [i \in 1 .. n |-> <<>>]
    <2>1. f \in [1 .. n -> Seq(R)] /\ \A i \in 1 .. n : ~(i <= 0)
      BY <1>0
    <2> HIDE DEF n, f, onto
    <2> QED BY <2>1
  <1>2. ASSUME NEW k \in Nat, k \in N PROVE k + 1 \in N
    <2>1. PICK f \in [1 .. n -> Seq(R)] : \A i \in 1 .. n : i <= k => f[i] = onto(f, i)
      BY <1>2
    <2> DEFINE g == [i \in 1 .. n |-> onto(f, i)]
    <2> HIDE DEF n
    <2>2. ASSUME NEW i \in 1 .. n PROVE onto(f, i) \in Seq(R)
      <3>1. CASE i = 1
        BY <1>0, <3>1
      <3>2. CASE i # 1
        <4>1. i - 1 \in 1 .. n
          BY <1>0, <3>2
        <4>2. f[i - 1] \in Seq(R) /\ seqs[i] \in Seq(R)
          BY <1>0, <2>1, <4>1
        <4>3. f[i - 1] \o seqs[i] \in Seq(R)
          BY <4>2
        <4> QED BY <3>2, <4>3
      <3> QED BY <3>1, <3>2
    <2>3. g \in [1 .. n -> Seq(R)]
      <3> HIDE DEF onto
      <3> QED BY <2>2
    <2>4. ASSUME NEW i \in 1 .. n, i <= k + 1 PROVE g[i] = onto(g, i)
      <3>1. CASE i = 1
        BY <3>1
      <3>2. CASE i # 1
        <4>1. i - 1 \in 1 .. n /\ i - 1 <= k
          BY <1>0, <2>4, <3>2
        <4>2. f[i - 1] = onto(f, i - 1) /\ g[i - 1] = onto(f, i - 1)
          <5> HIDE DEF onto
          <5> QED BY <2>1, <4>1
        <4>3. g[i] = onto(f, i)
          <5> HIDE DEF onto
          <5> QED OBVIOUS
        <4>4. onto(f, i) = f[i - 1] \o seqs[i] /\ onto(g, i) = g[i - 1] \o seqs[i]
          <5> HIDE DEF g
          <5> QED BY <3>2
        <4> HIDE DEF g, onto
        <4> QED BY <4>2, <4>3, <4>4
      <3> QED BY <3>1, <3>2
    <2> HIDE DEF g, onto
    <2>5. \E h \in [1 .. n -> Seq(R)] : \A i \in 1 .. n : i <= k + 1 => h[i] = onto(h, i)
      BY <2>3, <2>4
    <2>6. k + 1 \in Nat
      OBVIOUS
    <2> QED BY <2>5, <2>6
  <1>3. Nat \subseteq N
    <2> HIDE DEF N
    <2> QED BY <1>1, <1>2, StepByStep
  <1>4. n \in N
    BY <1>0, <1>3
  <1>5. PICK f \in [1 .. n -> Seq(R)] : \A i \in 1 .. n : i <= n => f[i] = onto(f, i)
    BY <1>4
  <1>6. f = [i \in 1 .. n |-> onto(f, i)]
    <2> HIDE DEF n, onto
    <2> QED BY <1>0, <1>5
  <1> QED BY <1>6 DEF Concatenates

\* What is flattened is made of the same elements.
LEMMA FlattenIs ==
    ASSUME NEW R, NEW seqs \in Seq(Seq(R))
    PROVE  FlattenSeq(seqs) \in Seq(R)
  <1>1. CASE Len(seqs) = 0
    <2>1. seqs = <<>>
      BY <1>1
    <2>2. FlattenSeq(seqs) = <<>>
      BY <1>1, <2>1 DEF FlattenSeq
    <2> QED BY <2>2
  <1>2. CASE Len(seqs) # 0
    <2> DEFINE f == CHOOSE g : Concatenates(g, seqs)
               n == Len(seqs)
               N == {k \in Nat : \A i \in 1 .. n : i <= k => f[i] \in Seq(R)}
    <2>1. FlattenSeq(seqs) = f[n]
      BY <1>2 DEF FlattenSeq, Concatenates
    <2>2. Concatenates(f, seqs)
      BY ConcatenatesExists
    <2>3. n \in Nat /\ n \in 1 .. n /\ \A i \in 1 .. n : seqs[i] \in Seq(R)
      BY <1>2
    <2>4. \A i \in 1 .. n : f[i] = IF i = 1 THEN seqs[i] ELSE f[i - 1] \o seqs[i]
      <3> HIDE DEF f
      <3> QED BY <2>2 DEF Concatenates
    <2> HIDE DEF f, n
    <2>5. 0 \in N
      BY <2>3
    <2>6. ASSUME NEW k \in Nat, k \in N PROVE k + 1 \in N
      <3> SUFFICES ASSUME NEW i \in 1 .. n, i <= k + 1 PROVE f[i] \in Seq(R)
        OBVIOUS
      <3>1. CASE i = 1
        BY <2>3, <2>4, <3>1
      <3>2. CASE i # 1
        <4>1. i - 1 \in 1 .. n /\ i - 1 <= k
          BY <2>3, <3>2
        <4>2. f[i - 1] \in Seq(R) /\ seqs[i] \in Seq(R)
          BY <2>3, <2>6, <4>1
        <4>3. f[i - 1] \o seqs[i] \in Seq(R)
          BY <4>2
        <4> QED BY <2>4, <3>2, <4>3
      <3> QED BY <3>1, <3>2
    <2>7. Nat \subseteq N
      <3> HIDE DEF N
      <3> QED BY <2>5, <2>6, StepByStep
    <2>8. f[n] \in Seq(R)
      <3>1. n \in N
        <4> HIDE DEF N
        <4> QED BY <2>3, <2>7
      <3>2. n <= n
        BY <2>3
      <3> QED BY <2>3, <3>1, <3>2
    <2> QED BY <2>1, <2>8
  <1> QED BY <1>1, <1>2

LEMMA PickWhere ==
    ASSUME NEW S, NEW s \in Seq(S), NEW T \in SUBSET DOMAIN s, NEW U, \A i \in T : s[i] \in U
    PROVE  Pick(s, T) \in Seq(U)
  <1>1. PICK n \in Nat : n = Len(s) /\ DOMAIN s = 1 .. n
    OBVIOUS
  <1>2. IsFiniteSet(T) /\ T \in SUBSET Int
    <2>1. IsFiniteSet(1 .. n)
      BY FS_Interval
    <2> QED BY <1>1, <2>1, FS_Subset
  <1> DEFINE A == Ascending(T)
  <1>3. InAscent(A, T)
    BY <1>2, AscendingIs
  <1> HIDE DEF A
  <1>4. PICK c \in Nat : A \in [1 .. c -> T]
    BY <1>3 DEF InAscent
  <1>5. \A i \in 1 .. c : s[A[i]] \in U
    BY <1>4
  <1>6. Pick(s, T) = [i \in 1 .. c |-> s[A[i]]]
    BY <1>4 DEF Pick, A
  <1>7. Pick(s, T) \in [1 .. c -> U]
    BY <1>5, <1>6
  <1> QED BY <1>7

LEMMA CommandTokensAre ==
    ASSUME NEW ss, AreSessions(ss), NEW mode
    PROVE  \E U : NoToken \notin U /\ CommandTokens(mode, ss) \in Seq(U)
  <1>1. PICK k \in Nat : DOMAIN ss = 1 .. k /\ \A n \in 1 .. k : IsSession(ss[n])
    BY DEF AreSessions, IsSeq
  <1> DEFINE of(n) == [i \in DOMAIN ss[n].cmds |-> Normalize(mode, ss[n].cmds[i].raw)]
             seqs == [n \in DOMAIN ss |-> of(n)]
             R == UNION {Range(of(n)) : n \in 1 .. k}
             all == FlattenSeq(seqs)
             U == R \ {NoToken}
             T == {i \in DOMAIN all : all[i] # NoToken}
  <1>2. ASSUME NEW n \in 1 .. k PROVE of(n) \in Seq(R)
    <2>1. PICK m \in Nat : DOMAIN ss[n].cmds = 1 .. m
      <3>1. IsSession(ss[n])
        BY <1>1
      <3> HIDE DEF of, R
      <3> QED BY <3>1 DEF IsSession
    <2>2. of(n) = [i \in 1 .. m |-> of(n)[i]] /\ DOMAIN of(n) = 1 .. m
      BY <2>1
    <2> HIDE DEF of
    <2>3. \A i \in 1 .. m : of(n)[i] \in R
      BY <2>2 DEF Range
    <2> HIDE DEF R
    <2>4. of(n) \in [1 .. m -> R]
      BY <2>2, <2>3
    <2> QED BY <2>4
  <1>3. seqs \in Seq(Seq(R))
    <2> HIDE DEF of, R
    <2>1. seqs \in [1 .. k -> Seq(R)]
      BY <1>1, <1>2
    <2> QED BY <2>1
  <1>4. CommandTokens(mode, ss) = Pick(all, T)
    BY DEF CommandTokens
  <1> HIDE DEF seqs, R
  <1>5. all \in Seq(R)
    BY <1>3, FlattenIs
  <1> HIDE DEF all
  <1>6. \A i \in T : all[i] \in U
    BY <1>5
  <1>7. T \in SUBSET DOMAIN all /\ NoToken \notin U
    OBVIOUS
  <1> HIDE DEF T, U
  <1>8. Pick(all, T) \in Seq(U)
    BY <1>5, <1>6, <1>7, PickWhere
  <1> QED BY <1>4, <1>7, <1>8

LEMMA MetaTokensAre ==
    ASSUME NEW s, IsSession(s)
    PROVE  /\ IsSeq(MetaTokens(s)) /\ NoToken \notin Range(MetaTokens(s))
           /\ Len(MetaTokens(s)) <= Len(s.auth) + 1
  <1> DEFINE auth == [i \in DOMAIN s.auth |-> CredentialToken(s.auth[i])]
             T == Range(auth) \cup {BannerToken(s.banner)}
             head == IF s.banner # Blank THEN <<BannerToken(s.banner)>> ELSE <<>>
  <1>1. PICK k \in Nat : DOMAIN s.auth = 1 .. k /\ Len(s.auth) = k
    BY DEF IsSession
  <1>2. auth \in Seq(T) /\ Len(auth) = k
    <2>1. \A i \in 1 .. k : auth[i] \in T
      BY <1>1 DEF Range
    <2>2. auth \in [1 .. k -> T]
      <3>1. auth = [i \in 1 .. k |-> auth[i]]
        BY <1>1
      <3> HIDE DEF auth, T
      <3> QED BY <2>1, <3>1
    <2> HIDE DEF auth, T
    <2> QED BY <2>2
  <1>3. head \in Seq(T) /\ Len(head) \in 0 .. 1
    <2>1. BannerToken(s.banner) \in T
      OBVIOUS
    <2> HIDE DEF T
    <2> QED BY <2>1
  <1>4. NoToken \notin T
    <2>1. BannerToken(s.banner) # NoToken
      <3>1. Len(BannerToken(s.banner)) = 2 /\ Len(NoToken) = 0
        BY DEF BannerToken, NoToken
      <3> QED BY <3>1
    <2>2. ASSUME NEW i \in DOMAIN s.auth PROVE CredentialToken(s.auth[i]) # NoToken
      <3>1. Len(CredentialToken(s.auth[i])) = 3 /\ Len(NoToken) = 0
        BY DEF CredentialToken, NoToken
      <3> QED BY <3>1
    <2>3. \A x \in Range(auth) : \E i \in DOMAIN s.auth : x = CredentialToken(s.auth[i])
      BY DEF Range
    <2> QED BY <2>1, <2>2, <2>3
  <1>5. MetaTokens(s) = head \o auth
    BY DEF MetaTokens
  <1> HIDE DEF head, auth, T
  <1>6. MetaTokens(s) \in Seq(T) /\ Len(MetaTokens(s)) = Len(head) + k
    <2>1. head \in Seq(T)
      BY <1>3
    <2>2. head \o auth \in Seq(T) /\ Len(head \o auth) = Len(head) + Len(auth)
      BY <1>2, <2>1
    <2> QED BY <1>2, <1>5, <2>2
  <1>7. IsSeq(MetaTokens(s))
    BY <1>6, SeqIs
  <1>8. Range(MetaTokens(s)) \in SUBSET T
    BY <1>6 DEF Range
  <1>9. Len(MetaTokens(s)) <= Len(s.auth) + 1
    <2>1. PICK h \in 0 .. 1 : h = Len(head)
      BY <1>3
    <2>2. h + k <= k + 1
      OBVIOUS
    <2> QED BY <1>1, <1>6, <2>1, <2>2
  <1>10. NoToken \notin Range(MetaTokens(s))
    BY <1>4, <1>8
  <1> QED BY <1>7, <1>9, <1>10

\* Tokens by number of occurrences, and by the first one among equals.
LEMMA MostCommonIs ==
    ASSUME NEW R, NEW tokens \in Seq(R), NEW k \in Nat
    PROVE  MostCommon(tokens, k) \in Seq(R)
  <1>0. PICK l \in Nat : l = Len(tokens) /\ DOMAIN tokens = 1 .. l
    OBVIOUS
  <1> DEFINE places(t) == {i \in DOMAIN tokens : tokens[i] = t}
             count(t) == Cardinality(places(t))
             first(t) == Min(places(t))
             S == Range(tokens)
             pred == [u \in S |-> {t \in S : count(t) > count(u) \/ (count(t) = count(u) /\ first(t) < first(u))}]
             ranked == Ranked(pred)
  <1>1. IsFiniteSet(1 .. l)
    BY FS_Interval
  <1>2. IsFiniteSet(S) /\ S \in SUBSET R
    <2>1. tokens = [i \in 1 .. l |-> tokens[i]]
      BY <1>0
    <2>2. IsFiniteSet({tokens[i] : i \in 1 .. l})
      BY <1>1, <2>1, ValuesFinite
    <2>3. S = {tokens[i] : i \in 1 .. l}
      BY <1>0 DEF Range
    <2> QED BY <1>0, <2>2, <2>3
  <1>3. ASSUME NEW t \in S PROVE count(t) \in Int /\ first(t) \in Int /\ tokens[first(t)] = t
    <2> DEFINE P == places(t)
    <2>1. P \in SUBSET (1 .. l) /\ P \in SUBSET Int /\ P # {}
      BY <1>0, <1>3 DEF Range
    <2>2. \A i \in P : tokens[i] = t
      OBVIOUS
    <2> HIDE DEF P
    <2>3. IsFiniteSet(P)
      BY <1>1, <2>1, FS_Subset
    <2>4. Min(P) \in P /\ Cardinality(P) \in Nat
      BY <2>1, <2>3, MinIs, FS_CardinalityType
    <2> QED BY <2>1, <2>2, <2>4 DEF P
  <1>4. \A t, u \in S : t # u => first(t) # first(u)
    <2> HIDE DEF first
    <2> QED BY <1>3
  <1> HIDE DEF first, count, S
  <1>5. Ordering(S, pred)
    <2>1. pred \in [S -> SUBSET S]
      OBVIOUS
    <2>2. \A x, y \in S : y \in pred[x] <=> (count(y) > count(x) \/ (count(y) = count(x) /\ first(y) < first(x)))
      OBVIOUS
    <2> HIDE DEF pred
    <2>3. \A x \in S : x \notin pred[x]
      BY <1>3, <2>2
    <2>4. \A x, y \in S : x # y => x \in pred[y] \/ y \in pred[x]
      BY <1>3, <1>4, <2>2
    <2>5. ASSUME NEW x \in S, NEW y \in S, y \in pred[x], NEW z \in pred[y] PROVE z \in pred[x]
      <3>1. z \in S
        BY <2>1
      <3>2. PICK a \in Int, b \in Int, c \in Int : a = count(x) /\ b = count(y) /\ c = count(z)
        BY <1>3, <3>1
      <3>3. PICK d \in Int, e \in Int, f \in Int : d = first(x) /\ e = first(y) /\ f = first(z)
        BY <1>3, <3>1
      <3>4. b > a \/ (b = a /\ e < d)
        BY <2>2, <2>5, <3>2, <3>3
      <3>5. c > b \/ (c = b /\ f < e)
        BY <2>2, <3>1, <3>2, <3>3
      <3>6. c > a \/ (c = a /\ f < d)
        BY <3>4, <3>5
      <3> QED BY <2>2, <3>1, <3>2, <3>3, <3>6
    <2> QED BY <2>1, <2>3, <2>4, <2>5 DEF Ordering
  <1>6. MostCommon(tokens, k) = SubSeq(ranked, 1, Min({k, Len(ranked)}))
    BY DEF MostCommon, count, first, S
  <1> HIDE DEF pred
  <1>7. PICK c \in Nat : ranked \in [1 .. c -> S]
    BY <1>2, <1>5, RankedIs DEF Enumerates
  <1> HIDE DEF ranked
  <1>8. ranked \in Seq(S) /\ Len(ranked) = c
    BY <1>7
  <1>9. PICK m \in 0 .. c : m = Min({k, Len(ranked)})
    <2>1. k \in Int /\ c \in Int
      OBVIOUS
    <2>2. Min({k, c}) \in {k, c} /\ Min({k, c}) <= k /\ Min({k, c}) <= c
      BY <2>1, LeastOf
    <2> QED BY <1>8, <2>2
  <1>10. SubSeq(ranked, 1, m) \in Seq(S)
    <2>1. SubSeq(ranked, 1, m) = [i \in 1 .. m |-> ranked[i]]
      BY <1>8
    <2>2. \A i \in 1 .. m : ranked[i] \in S
      BY <1>7
    <2>3. PICK w : w = SubSeq(ranked, 1, m) /\ w \in [1 .. m -> S]
      BY <2>1, <2>2
    <2>4. m \in Nat
      OBVIOUS
    <2>5. w \in [1 .. m -> S]
      BY <2>3
    <2>6. w \in Seq(S)
      BY <2>4, <2>5
    <2> QED BY <2>3, <2>6
  <1>11. Seq(S) \subseteq Seq(R)
    BY <1>2
  <1> QED BY <1>6, <1>9, <1>10, <1>11

\* A vocabulary begins with the special tokens, and has none of them twice.
Vocabulary(v) ==
    /\ IsSeq(v) /\ Len(v) >= 5 /\ \A i \in 1 .. 5 : v[i] = Specials[i]
    /\ \A i \in 6 .. Len(v) : v[i] \notin Range(Specials) /\ v[i] # NoToken

LEMMA SpecialsAre == Len(Specials) = 5 /\ DOMAIN Specials = 1 .. 5 /\ IsSeq(Specials)
  BY DEF Specials, IsSeq, Range

LEMMA VocabularyGrows ==
    ASSUME NEW v, IsSeq(v), Len(v) >= 5, Range(Specials) \subseteq Range(v), NEW R, NEW tokens \in Seq(R), NoToken \notin R,
           \A i \in 1 .. 5 : v[i] = Specials[i],
           \A i \in 6 .. Len(v) : v[i] \notin Range(Specials) /\ v[i] # NoToken
    PROVE  Vocabulary(Extended(v, tokens))
  <1> DEFINE T == {i \in DOMAIN tokens : tokens[i] \notin Range(v)}
             U == R \ Range(v)
             new == Pick(tokens, T)
             V == Range(v) \cup U
             w == Extended(v, tokens)
  <1>1. T \in SUBSET DOMAIN tokens /\ \A i \in T : tokens[i] \in U
    OBVIOUS
  <1>2. w = v \o new
    BY DEF Extended
  <1>3. U \cap Range(v) = {} /\ NoToken \notin U
    OBVIOUS
  <1> HIDE DEF T, U
  <1>4. new \in Seq(U)
    BY <1>1, PickWhere
  <1> HIDE DEF new, w
  <1>5. PICK a \in Nat : a = Len(v) /\ a >= 5
    BY DEF IsSeq
  <1>6. PICK b \in Nat : b = Len(new)
    BY <1>4
  <1>7. v \in Seq(V) /\ new \in Seq(V)
    <2>1. v \in Seq(Range(v)) /\ Range(v) \subseteq V /\ U \subseteq V
      BY DEF IsSeq
    <2> HIDE DEF V
    <2> QED BY <1>4, <2>1
  <1> HIDE DEF V
  <1>8. w \in Seq(V) /\ Len(w) = a + b
    BY <1>2, <1>5, <1>6, <1>7
  <1>9. \A i \in 1 .. a : w[i] = v[i]
    BY <1>2, <1>5, <1>6, <1>7
  <1>10. ASSUME NEW i \in (a + 1) .. (a + b) PROVE w[i] \in U
    <2>1. w[i] = new[i - a] /\ i - a \in 1 .. b
      BY <1>2, <1>5, <1>6, <1>7
    <2> QED BY <1>4, <1>6, <2>1
  <1>11. IsSeq(w)
    BY <1>8, SeqIs
  <1>12. \A i \in 1 .. 5 : w[i] = Specials[i]
    BY <1>5, <1>9
  <1>13. ASSUME NEW i \in 6 .. Len(w) PROVE w[i] \notin Range(Specials) /\ w[i] # NoToken
    <2>1. CASE i <= a
      <3>1. w[i] = v[i] /\ i \in 6 .. Len(v)
        BY <1>5, <1>9, <2>1
      <3> QED BY <3>1
    <2>2. CASE i > a
      <3>1. i \in (a + 1) .. (a + b)
        BY <1>8, <2>2
      <3>2. w[i] \in U
        BY <1>10, <3>1
      <3> QED BY <1>3, <3>2
    <2> QED BY <1>5, <2>1, <2>2
  <1>14. Vocabulary(w)
    BY <1>5, <1>6, <1>8, <1>11, <1>12, <1>13 DEF Vocabulary
  <1> QED BY <1>14 DEF w

LEMMA FitIs ==
    ASSUME NEW ss, AreSessions(ss), NEW cfg
    PROVE  Vocabulary(Fit(cfg, ss).vocab)
  <1>1. PICK k \in Nat : DOMAIN ss = 1 .. k /\ \A n \in 1 .. k : IsSession(ss[n])
    BY DEF AreSessions, IsSeq
  <1>2. TopK \in Nat /\ MetaTopK \in Nat
    BY ViewsAssumption
  <1> DEFINE commands == Extended(Specials, MostCommon(CommandTokens(cfg.mode, ss), TopK))
             seqs == [n \in DOMAIN ss |-> MetaTokens(ss[n])]
             meta == FlattenSeq(seqs)
             v == Fit(cfg, ss).vocab
             R == UNION {Range(MetaTokens(ss[n])) : n \in 1 .. k}
  <1>3. Vocabulary(commands)
    <2>1. PICK U : NoToken \notin U /\ CommandTokens(cfg.mode, ss) \in Seq(U)
      BY CommandTokensAre
    <2>2. MostCommon(CommandTokens(cfg.mode, ss), TopK) \in Seq(U)
      BY <1>2, <2>1, MostCommonIs
    <2>3. PICK sp : sp = Specials /\ IsSeq(sp) /\ Len(sp) = 5
      BY SpecialsAre
    <2>4. PICK tokens \in Seq(U) : tokens = MostCommon(CommandTokens(cfg.mode, ss), TopK)
      BY <2>2
    <2>5. Len(sp) >= 5 /\ Range(Specials) \subseteq Range(sp) /\ (\A i \in 1 .. 5 : sp[i] = Specials[i])
      BY <2>3
    <2>6. \A i \in 6 .. Len(sp) : sp[i] \notin Range(Specials) /\ sp[i] # NoToken
      BY <2>3
    <2>7. Vocabulary(Extended(sp, tokens))
      BY <2>1, <2>3, <2>5, <2>6, VocabularyGrows
    <2> QED BY <2>3, <2>4, <2>7
  <1>4. seqs \in Seq(Seq(R))
    <2>1. ASSUME NEW n \in 1 .. k PROVE MetaTokens(ss[n]) \in Seq(R)
      <3>1. IsSeq(MetaTokens(ss[n]))
        BY <1>1, MetaTokensAre
      <3>2. Range(MetaTokens(ss[n])) \subseteq R
        OBVIOUS
      <3> HIDE DEF R
      <3> QED BY <3>1, <3>2 DEF IsSeq
    <2> HIDE DEF R
    <2>2. seqs \in [1 .. k -> Seq(R)]
      BY <1>1, <2>1
    <2> QED BY <2>2
  <1>5. NoToken \notin R
    BY <1>1, MetaTokensAre
  <1>6. v = IF cfg.meta THEN Extended(commands, MostCommon(meta, MetaTopK)) ELSE commands
    BY DEF Fit
  <1> HIDE DEF commands, seqs, R, v
  <1>7. MostCommon(meta, MetaTopK) \in Seq(R)
    BY <1>2, <1>4, FlattenIs, MostCommonIs
  <1>8. Range(Specials) \subseteq Range(commands)
    <2>1. \A i \in 1 .. 5 : i \in DOMAIN commands /\ commands[i] = Specials[i]
      BY <1>3 DEF Vocabulary, IsSeq
    <2> QED BY <2>1, SpecialsAre DEF Range
  <1>9. Vocabulary(Extended(commands, MostCommon(meta, MetaTopK)))
    BY <1>3, <1>5, <1>7, <1>8, VocabularyGrows DEF Vocabulary
  <1> QED BY <1>3, <1>6, <1>9 DEF v

-----------------------------------------------------------------------------
(* Encoding and decoding *)

\* An id is that of a token which is not special, or below five.
Codes(v, c, t) ==
    /\ c \in 0 .. (Len(v) - 1)
    /\ c >= 5 <=> t \in Range(v) \ Range(Specials)
    /\ c >= 5 => v[c + 1] = t

LEMMA IdCodes ==
    ASSUME NEW tk, Vocabulary(tk.vocab), NEW t
    PROVE  Codes(tk.vocab, IdOf(tk, t), t)
  <1> DEFINE v == tk.vocab
  <1>1. PICK l \in Nat : l = Len(v) /\ DOMAIN v = 1 .. l /\ l >= 5
    BY DEF Vocabulary, IsSeq
  <1>2. Vocabulary(v)
    OBVIOUS
  <1>3. IdOf(tk, t) = IF t \in Range(v) THEN (CHOOSE i \in DOMAIN v : v[i] = t) - 1 ELSE 3
    BY DEF IdOf, OovId
  <1> HIDE DEF v
  <1>4. CASE t \notin Range(v)
    BY <1>1, <1>3, <1>4 DEF Codes, v
  <1>5. CASE t \in Range(v)
    <2>1. \E i \in DOMAIN v : v[i] = t
      BY <1>5 DEF Range
    <2>2. PICK i \in 1 .. l : i = (CHOOSE j \in DOMAIN v : v[j] = t) /\ v[i] = t
      BY <1>1, <2>1
    <2>3. IdOf(tk, t) = i - 1
      BY <1>3, <1>5, <2>2
    <2>4. i >= 6 => t \notin Range(Specials)
      BY <1>1, <1>2, <2>2 DEF Vocabulary
    <2>5. ASSUME i < 6 PROVE t \in Range(Specials)
      <3>1. i \in 1 .. 5
        BY <2>5
      <3>2. Specials[i] = t
        BY <1>2, <2>2, <3>1 DEF Vocabulary
      <3> QED BY <3>1, <3>2, SpecialsAre DEF Range
    <2>6. PICK c \in 0 .. (Len(v) - 1) : c = IdOf(tk, t) /\ c + 1 = i /\ (c >= 5 <=> i >= 6) /\ (i >= 6 \/ i < 6)
      BY <1>1, <2>3
    <2>7. c >= 5 <=> t \in Range(v) \ Range(Specials)
      BY <1>5, <2>4, <2>5, <2>6
    <2>8. v[c + 1] = t
      BY <2>2, <2>6
    <2> QED BY <2>6, <2>7, <2>8 DEF Codes, v
  <1> QED BY <1>4, <1>5

LEMMA CommandCodes ==
    ASSUME NEW tk, Vocabulary(tk.vocab), NEW line
    PROVE  Codes(tk.vocab, EncodeCommand(tk, line), Normalize(tk.mode, line))
  <1> DEFINE v == tk.vocab
             t == Normalize(tk.mode, line)
  <1>1. CASE t = NoToken
    <2>1. EncodeCommand(tk, line) = 3
      BY <1>1 DEF EncodeCommand, OovId
    <2>2. PICK l \in Nat : l = Len(v) /\ DOMAIN v = 1 .. l /\ l >= 5 /\ Vocabulary(v)
      BY DEF Vocabulary, IsSeq
    <2> HIDE DEF v, t
    <2>3. t \notin Range(v) \ Range(Specials)
      <3> SUFFICES ASSUME NEW i \in 1 .. l, v[i] = NoToken PROVE NoToken \in Range(Specials)
        BY <1>1, <2>2 DEF Range
      <3>1. i \in 1 .. 5
        BY <2>2 DEF Vocabulary
      <3>2. Specials[i] = NoToken
        BY <2>2, <3>1 DEF Vocabulary
      <3> QED BY <3>1, <3>2, SpecialsAre DEF Range
    <2>4. 3 \in 0 .. (l - 1)
      BY <2>2
    <2> QED BY <2>1, <2>2, <2>3, <2>4 DEF Codes, v, t
  <1>2. CASE t # NoToken
    BY <1>2, IdCodes DEF EncodeCommand
  <1> QED BY <1>1, <1>2

\* Numbers in order, one way only.
LEMMA AscentIsOne ==
    ASSUME NEW S \in SUBSET Int, IsFiniteSet(S), NEW A, InAscent(A, S), NEW B, InAscent(B, S)
    PROVE  A = B
  <1>1. PICK c \in Nat : c = Cardinality(S) /\ A \in [1 .. c -> S] /\ B \in [1 .. c -> S]
    BY DEF InAscent
  <1>2. ASSUME NEW x \in S, NEW y \in S, x < y PROVE Cardinality({z \in S : z < x}) # Cardinality({z \in S : z < y})
    <2> DEFINE X == {z \in S : z < x}
               Y == {z \in S : z < y}
    <2>1. x \in Int /\ y \in Int
      OBVIOUS
    <2>2. X \in SUBSET Y
      <3> SUFFICES ASSUME NEW z \in S, z < x PROVE z < y
        OBVIOUS
      <3> QED BY <1>2, <2>1
    <2>3. x \in Y /\ x \notin X
      BY <1>2
    <2>4. IsFiniteSet(Y)
      BY FS_Subset
    <2> HIDE DEF X, Y
    <2>5. Cardinality(X) # Cardinality(Y)
      BY <2>2, <2>3, <2>4, FS_Subset
    <2> QED BY <2>5 DEF X, Y
  <1>3. ASSUME NEW n \in 1 .. c PROVE A[n] = B[n]
    <2>1. PICK x \in S, y \in S : x = A[n] /\ y = B[n]
      BY <1>1
    <2>2. Cardinality({z \in S : z < x}) = Cardinality({z \in S : z < y})
      BY <1>1, <2>1 DEF InAscent
    <2>3. ~(x < y) /\ ~(y < x)
      BY <1>2, <2>2
    <2>4. x \in Int /\ y \in Int
      OBVIOUS
    <2> QED BY <2>1, <2>3, <2>4
  <1> QED BY <1>1, <1>3

Upwards(S, k) == {k + x : x \in S}

LEMMA UpwardsCount ==
    ASSUME NEW S \in SUBSET Int, IsFiniteSet(S), NEW k \in Int
    PROVE  IsFiniteSet(Upwards(S, k)) /\ Cardinality(Upwards(S, k)) = Cardinality(S)
  <1> DEFINE T == Upwards(S, k)
             f == [x \in S |-> k + x]
  <1>1. f \in [S -> T] /\ \A y \in T : \E x \in S : f[x] = y
    BY DEF Upwards
  <1>2. \A x, y \in S : f[x] = f[y] => x = y
    <2> SUFFICES ASSUME NEW x \in S, NEW y \in S, f[x] = f[y] PROVE x = y
      OBVIOUS
    <2>1. k + x = k + y /\ x \in Int /\ y \in Int
      OBVIOUS
    <2> HIDE DEF f
    <2> QED BY <2>1
  <1> HIDE DEF f, T
  <1>3. f \in Surjection(S, T) /\ f \in Injection(S, T)
    BY <1>1, <1>2 DEF Surjection, Injection, IsInjective
  <1>4. IsFiniteSet(T) /\ Cardinality(T) = Cardinality(S)
    BY <1>3, FS_Surjection
  <1> QED BY <1>4 DEF T

LEMMA UpwardsAscends ==
    ASSUME NEW S \in SUBSET Int, IsFiniteSet(S), NEW k \in Int
    PROVE  Ascending(Upwards(S, k)) = [n \in 1 .. Cardinality(S) |-> k + Ascending(S)[n]]
  <1> DEFINE T == Upwards(S, k)
             A == Ascending(S)
  <1>1. InAscent(A, S)
    BY AscendingIs
  <1> HIDE DEF A
  <1>2. PICK c \in Nat : c = Cardinality(S) /\ A \in [1 .. c -> S]
    BY <1>1 DEF InAscent
  <1>3. IsFiniteSet(T) /\ Cardinality(T) = c
    BY <1>2, UpwardsCount
  <1>4. T \in SUBSET Int /\ \A x \in S : k + x \in T
    BY DEF Upwards
  <1> DEFINE B == [n \in 1 .. c |-> k + A[n]]
  <1>5. B \in [1 .. c -> T] /\ \A n \in 1 .. c : B[n] = k + A[n] /\ A[n] \in Int
    <2>1. \A n \in 1 .. c : A[n] \in S /\ k + A[n] \in T
      BY <1>2, <1>4
    <2> HIDE DEF T
    <2> QED BY <2>1
  <1>6. ASSUME NEW n \in 1 .. c PROVE Cardinality({y \in T : y < B[n]}) = n - 1
    <2>1. PICK a \in S : a = A[n] /\ B[n] = k + a
      BY <1>2, <1>5
    <2> DEFINE X == {x \in S : x < a}
    <2>2. {y \in T : y < B[n]} = Upwards(X, k)
      <3>1. ASSUME NEW x \in S PROVE k + x < k + a <=> x < a
        OBVIOUS
      <3> QED BY <2>1, <3>1 DEF Upwards
    <2>3. X \in SUBSET Int /\ IsFiniteSet(X)
      BY FS_Subset
    <2>4. Cardinality(X) = n - 1
      BY <1>1, <1>2, <2>1 DEF InAscent
    <2> HIDE DEF X, T, B
    <2> QED BY <2>2, <2>3, <2>4, UpwardsCount
  <1>7. ASSUME NEW m \in 1 .. c, NEW n \in 1 .. c, m < n PROVE B[m] < B[n]
    <2>1. A[m] < A[n]
      BY <1>1, <1>2, <1>7 DEF InAscent
    <2> QED BY <1>5, <2>1
  <1>8. ASSUME NEW y \in T PROVE \E n \in 1 .. c : B[n] = y
    <2>1. PICK x \in S : y = k + x
      BY DEF Upwards
    <2>2. PICK n \in 1 .. c : A[n] = x
      BY <1>1, <1>2 DEF InAscent
    <2> QED BY <1>5, <2>1, <2>2
  <1> HIDE DEF T, B
  <1>9. InAscent(B, T)
    BY <1>3, <1>5, <1>6, <1>7, <1>8 DEF InAscent
  <1>10. InAscent(Ascending(T), T)
    BY <1>3, <1>4, AscendingIs
  <1>11. Ascending(T) = B
    BY <1>3, <1>4, <1>9, <1>10, AscentIsOne
  <1> QED BY <1>2, <1>11 DEF T, A, B

Decodes(tk, ids, told) ==
    /\ \A i \in DOMAIN ids : ids[i] \in 0 .. (Len(tk.vocab) - 1)
    /\ Decode(tk, ids) = Pick(told, {i \in DOMAIN told : told[i] \in Range(tk.vocab) \ Range(Specials)})

\* Ids that stand for tokens, with special ones around them, decode to the tokens the vocabulary has.
LEMMA DecodeIs ==
    ASSUME NEW tk, Vocabulary(tk.vocab), NEW k \in Nat, NEW m \in Nat, NEW told, DOMAIN told = 1 .. m,
           NEW ids, DOMAIN ids = 1 .. (k + m + 1),
           \A j \in 1 .. k : ids[j] \in 0 .. 4, ids[k + m + 1] \in 0 .. 4,
           \A j \in 1 .. m : Codes(tk.vocab, ids[k + j], told[j])
    PROVE  Decodes(tk, ids, told)
  <1> DEFINE v == tk.vocab
             T == {i \in 1 .. m : told[i] \in Range(v) \ Range(Specials)}
             U == {i \in DOMAIN ids : ids[i] >= Len(Specials)}
             A == Ascending(T)
             shown == Pick(ids, U)
  <1>1. PICK l \in Nat : l = Len(v) /\ l >= 5
    BY DEF Vocabulary, IsSeq
  <1>2. \A j \in 1 .. m : /\ ids[k + j] \in 0 .. (l - 1)
                          /\ ids[k + j] >= 5 <=> j \in T
                          /\ j \in T => v[ids[k + j] + 1] = told[j]
    BY <1>1 DEF Codes
  <1>3. ASSUME NEW i \in 1 .. (k + m + 1)
        PROVE  ids[i] \in 0 .. (l - 1) /\ (ids[i] >= 5 <=> \E j \in T : i = k + j)
    <2>1. CASE i \in 1 .. k
      <3>1. ids[i] \in 0 .. 4 /\ \A j \in T : i # k + j
        BY <2>1
      <3> QED BY <1>1, <3>1
    <2>2. CASE i = k + m + 1
      <3>1. ids[i] \in 0 .. 4 /\ \A j \in T : i # k + j
        BY <2>2
      <3> QED BY <1>1, <3>1
    <2>3. CASE i > k /\ i # k + m + 1
      <3>1. PICK j \in 1 .. m : i = k + j
        <4>1. i - k \in 1 .. m /\ i = k + (i - k)
          BY <2>3
        <4> QED BY <4>1
      <3>2. \A h \in T : k + h = k + j => h = j
        OBVIOUS
      <3> HIDE DEF T
      <3> QED BY <1>2, <3>1, <3>2
    <2> QED BY <2>1, <2>2, <2>3
  <1>4. U = Upwards(T, k)
    <2>1. U = {i \in 1 .. (k + m + 1) : ids[i] >= 5}
      BY SpecialsAre
    <2>2. \A j \in T : k + j \in 1 .. (k + m + 1)
      OBVIOUS
    <2> HIDE DEF T, U
    <2> QED BY <1>3, <2>1, <2>2 DEF Upwards
  <1>5. T \in SUBSET (1 .. m) /\ T \in SUBSET Int /\ IsFiniteSet(T)
    <2>1. IsFiniteSet(1 .. m)
      BY FS_Interval
    <2> QED BY <2>1, FS_Subset
  <1> HIDE DEF T, U
  <1>6. InAscent(A, T)
    BY <1>5, AscendingIs
  <1>7. PICK c \in Nat : c = Cardinality(T) /\ A \in [1 .. c -> T]
    BY <1>6 DEF InAscent
  <1>8. Ascending(U) = [n \in 1 .. c |-> k + A[n]]
    BY <1>4, <1>5, <1>7, UpwardsAscends
  <1> HIDE DEF A
  <1>9. shown = [n \in 1 .. c |-> ids[k + A[n]]]
    BY <1>8 DEF Pick
  <1>10. Decode(tk, ids) = [n \in DOMAIN shown |-> v[shown[n] + 1]]
    BY DEF Decode, U
  <1>11. Pick(told, T) = [n \in 1 .. c |-> told[A[n]]]
    BY <1>7 DEF Pick, A
  <1>12. \A n \in 1 .. c : v[ids[k + A[n]] + 1] = told[A[n]]
    BY <1>2, <1>5, <1>7
  <1>13. Decode(tk, ids) = [n \in 1 .. c |-> v[ids[k + A[n]] + 1]]
    <2> HIDE DEF shown
    <2> QED BY <1>9, <1>10
  <1>14. Decode(tk, ids) = Pick(told, T)
    BY <1>11, <1>12, <1>13
  <1>15. \A i \in DOMAIN ids : ids[i] \in 0 .. (Len(v) - 1)
    BY <1>1, <1>3
  <1> QED BY <1>14, <1>15 DEF Decodes, T

\* Two sequences in a row.
InARow(S, w, a, b) ==
    /\ w \in Seq(S) /\ Len(w) = Len(a) + Len(b)
    /\ \A i \in 1 .. Len(a) : w[i] = a[i]
    /\ \A i \in 1 .. Len(b) : w[Len(a) + i] = b[i]

LEMMA ConcatIs == ASSUME NEW S, NEW a \in Seq(S), NEW b \in Seq(S) PROVE InARow(S, a \o b, a, b)
  <1>1. a \o b \in Seq(S) /\ Len(a \o b) = Len(a) + Len(b)
    OBVIOUS
  <1>2. ASSUME NEW i \in 1 .. Len(a) PROVE (a \o b)[i] = a[i]
    OBVIOUS
  <1>3. ASSUME NEW i \in 1 .. Len(b) PROVE (a \o b)[Len(a) + i] = b[i]
    OBVIOUS
  <1> QED BY <1>1, <1>2, <1>3 DEF InARow

\* Five in a row, the last of one element: where each of them is found.
AllInARow(w, a, b, c, d, e) ==
    /\ \A i \in 1 .. Len(a) : w[i] = a[i]
    /\ \A i \in 1 .. Len(b) : w[Len(a) + i] = b[i]
    /\ \A i \in 1 .. Len(c) : w[Len(a) + Len(b) + i] = c[i]
    /\ \A i \in 1 .. Len(d) : w[Len(a) + Len(b) + Len(c) + i] = d[i]
    /\ w[Len(a) + Len(b) + Len(c) + Len(d) + 1] = e
    /\ DOMAIN w = 1 .. Len(w) /\ Len(w) = Len(a) + Len(b) + Len(c) + Len(d) + 1

LEMMA JoinHas ==
    ASSUME NEW S, NEW a \in Seq(S), NEW b \in Seq(S), NEW c \in Seq(S), NEW d \in Seq(S), NEW e \in S,
           NEW w, w = a \o b \o c \o d \o <<e>>
    PROVE  AllInARow(w, a, b, c, d, e)
  <1>1. PICK la \in Nat, lb \in Nat, lc \in Nat, ld \in Nat : la = Len(a) /\ lb = Len(b) /\ lc = Len(c) /\ ld = Len(d)
    OBVIOUS
  <1> DEFINE p == a \o b
             q == p \o c
             r == q \o d
             f == <<e>>
  <1>2. w = r \o f
    OBVIOUS
  <1>3. f \in Seq(S) /\ Len(f) = 1 /\ f[1] = e
    OBVIOUS
  <1>4. p \in Seq(S) /\ Len(p) = la + lb /\ (\A i \in 1 .. la : p[i] = a[i]) /\ \A i \in 1 .. lb : p[la + i] = b[i]
    <2>1. InARow(S, p, a, b)
      BY ConcatIs
    <2> HIDE DEF p
    <2> QED BY <1>1, <2>1 DEF InARow
  <1> HIDE DEF p
  <1>5. q \in Seq(S) /\ Len(q) = la + lb + lc /\ (\A i \in 1 .. (la + lb) : q[i] = p[i])
        /\ \A i \in 1 .. lc : q[la + lb + i] = c[i]
    <2>1. InARow(S, q, p, c)
      BY <1>4, ConcatIs
    <2> HIDE DEF q
    <2> QED BY <1>1, <1>4, <2>1 DEF InARow
  <1> HIDE DEF q
  <1>6. r \in Seq(S) /\ Len(r) = la + lb + lc + ld /\ (\A i \in 1 .. (la + lb + lc) : r[i] = q[i])
        /\ \A i \in 1 .. ld : r[la + lb + lc + i] = d[i]
    <2>1. InARow(S, r, q, d)
      BY <1>5, ConcatIs
    <2> HIDE DEF r
    <2> QED BY <1>1, <1>5, <2>1 DEF InARow
  <1> HIDE DEF r, f
  <1>7. /\ \A i \in 1 .. (la + lb + lc + ld) : w[i] = r[i]
        /\ w[la + lb + lc + ld + 1] = e /\ w \in Seq(S) /\ Len(w) = la + lb + lc + ld + 1
    <2>1. InARow(S, w, r, f)
      BY <1>2, <1>3, <1>6, ConcatIs
    <2>2. 1 \in 1 .. Len(f)
      BY <1>3
    <2>3. w[Len(r) + 1] = f[1]
      BY <2>1, <2>2 DEF InARow
    <2> QED BY <1>3, <1>6, <2>1, <2>3 DEF InARow
  <1>8. ASSUME NEW i \in 1 .. la PROVE w[i] = a[i]
    <2>1. i \in 1 .. (la + lb) /\ i \in 1 .. (la + lb + lc) /\ i \in 1 .. (la + lb + lc + ld)
      OBVIOUS
    <2>2. w[i] = r[i]
      BY <1>7, <2>1
    <2>3. r[i] = q[i]
      BY <1>6, <2>1
    <2>4. q[i] = p[i]
      BY <1>5, <2>1
    <2>5. p[i] = a[i]
      BY <1>4
    <2> QED BY <2>2, <2>3, <2>4, <2>5
  <1>9. ASSUME NEW i \in 1 .. lb PROVE w[la + i] = b[i]
    <2>1. la + i \in 1 .. (la + lb) /\ la + i \in 1 .. (la + lb + lc) /\ la + i \in 1 .. (la + lb + lc + ld)
      OBVIOUS
    <2>2. w[la + i] = r[la + i]
      BY <1>7, <2>1
    <2>3. r[la + i] = q[la + i]
      BY <1>6, <2>1
    <2>4. q[la + i] = p[la + i]
      BY <1>5, <2>1
    <2>5. p[la + i] = b[i]
      BY <1>4
    <2> QED BY <2>2, <2>3, <2>4, <2>5
  <1>10. ASSUME NEW i \in 1 .. lc PROVE w[la + lb + i] = c[i]
    <2>1. la + lb + i \in 1 .. (la + lb + lc) /\ la + lb + i \in 1 .. (la + lb + lc + ld)
      OBVIOUS
    <2>2. w[la + lb + i] = r[la + lb + i]
      BY <1>7, <2>1
    <2>3. r[la + lb + i] = q[la + lb + i]
      BY <1>6, <2>1
    <2>4. q[la + lb + i] = c[i]
      BY <1>5
    <2> QED BY <2>2, <2>3, <2>4
  <1>11. ASSUME NEW i \in 1 .. ld PROVE w[la + lb + lc + i] = d[i]
    <2>1. la + lb + lc + i \in 1 .. (la + lb + lc + ld)
      OBVIOUS
    <2> QED BY <1>6, <1>7, <2>1
  <1>12. DOMAIN w = 1 .. Len(w)
    BY <1>7
  <1> QED BY <1>1, <1>7, <1>8, <1>9, <1>10, <1>11, <1>12 DEF AllInARow

Meta(tk, s) == IF tk.meta THEN MetaTokens(s) ELSE <<>>
Told(tk, s, limit) == Meta(tk, s) \o [i \in 1 .. Limit(s, limit) |-> Normalize(tk.mode, s.cmds[i].raw)]

\* What the ids of an example say of its session.
Says(tk, s, limit, ids) ==
    /\ \A i \in DOMAIN ids : ids[i] \in 0 .. (Len(tk.vocab) - 1)
    /\ Decode(tk, ids) = Pick(Told(tk, s, limit), {i \in DOMAIN Told(tk, s, limit) :
                                  Told(tk, s, limit)[i] \in Range(tk.vocab) \ Range(Specials)})
    /\ Len(ids) <= limit + Len(s.auth) + 4

LEMMA EncodeSays ==
    ASSUME NEW tk, Vocabulary(tk.vocab), NEW s, IsSession(s), NEW limit \in Nat
    PROVE  Says(tk, s, limit, Encode(tk, s, limit).ids)
  <1>1. PICK n \in Nat : n = Limit(s, limit) /\ n <= limit
    <2>1. Len(s.cmds) \in Nat
      BY DEF IsSession
    <2>2. PICK l \in Int : l = Len(s.cmds)
      BY <2>1
    <2>3. limit \in Int
      OBVIOUS
    <2>4. Min({l, limit}) \in {l, limit} /\ Min({l, limit}) <= l /\ Min({l, limit}) <= limit
      BY <2>3, LeastOf
    <2> QED BY <2>1, <2>2, <2>4 DEF Limit
  <1> DEFINE meta == Meta(tk, s)
             extra == [i \in DOMAIN meta |-> IdOf(tk, meta[i])]
             lines == [i \in 1 .. n |-> Normalize(tk.mode, s.cmds[i].raw)]
             codes == [i \in 1 .. n |-> EncodeCommand(tk, s.cmds[i].raw)]
             front == IF tk.meta THEN <<DurId>> ELSE <<>>
             first == <<BosId>>
             ids == Encode(tk, s, limit).ids
             told == meta \o lines
             v == tk.vocab
  <1>2. PICK x \in Nat : DOMAIN meta = 1 .. x /\ Len(meta) = x /\ IsSeq(meta) /\ x <= Len(s.auth) + 1
    <2>1. IsSeq(MetaTokens(s)) /\ Len(MetaTokens(s)) <= Len(s.auth) + 1
      BY MetaTokensAre
    <2>2. IsSeq(<<>>) /\ Len(<<>>) = 0
      BY DEF IsSeq, Range
    <2>3. Len(s.auth) \in Nat
      BY DEF IsSession
    <2>4. IsSeq(meta) /\ Len(meta) <= Len(s.auth) + 1
      BY <2>1, <2>2, <2>3 DEF Meta
    <2> HIDE DEF meta
    <2> QED BY <2>4 DEF IsSeq
  <1>3. ids = first \o front \o extra \o codes \o <<EosId>>
    <2>1. CASE tk.meta
      BY <1>1, <2>1 DEF Encode, Meta
    <2>2. CASE ~tk.meta
      <3>1. extra = <<>>
        BY <2>2 DEF Meta
      <3>2. front = <<>>
        BY <2>2
      <3>3. ids = <<BosId>> \o <<>> \o <<>> \o codes \o <<EosId>>
        BY <1>1, <2>2 DEF Encode
      <3> HIDE DEF ids, extra, front, codes
      <3> QED BY <3>1, <3>2, <3>3
    <2> QED BY <2>1, <2>2
  <1> HIDE DEF meta
  <1>4. PICK l \in Nat : l = Len(v) /\ l >= 5
    BY DEF Vocabulary, IsSeq
  <1>5. \A i \in 1 .. x : Codes(v, extra[i], meta[i])
    BY <1>2, IdCodes
  <1>6. \A i \in 1 .. n : Codes(v, codes[i], lines[i])
    BY CommandCodes
  <1>7. extra \in Seq(Int) /\ Len(extra) = x
    <2>1. \A i \in 1 .. x : extra[i] \in Int
      BY <1>4, <1>5 DEF Codes
    <2>2. extra = [i \in 1 .. x |-> extra[i]]
      BY <1>2
    <2> HIDE DEF extra
    <2>3. extra \in [1 .. x -> Int]
      BY <2>1, <2>2
    <2> QED BY <2>3
  <1>8. codes \in Seq(Int) /\ Len(codes) = n
    <2>1. \A i \in 1 .. n : codes[i] \in Int
      BY <1>4, <1>6 DEF Codes
    <2>2. codes = [i \in 1 .. n |-> codes[i]]
      OBVIOUS
    <2> HIDE DEF codes
    <2>3. codes \in [1 .. n -> Int]
      BY <2>1, <2>2
    <2> QED BY <2>3
  <1>9. PICK f \in 0 .. 1 : front \in Seq(Int) /\ Len(front) = f /\ \A i \in 1 .. f : front[i] = 4
    <2>1. CASE tk.meta
      <3>1. front = <<4>>
        BY <2>1 DEF DurId
      <3> HIDE DEF front
      <3> QED BY <3>1
    <2>2. CASE ~tk.meta
      <3>1. front = <<>>
        BY <2>2
      <3> HIDE DEF front
      <3> QED BY <3>1
    <2> QED BY <2>1, <2>2
  <1>10. first \in Seq(Int) /\ Len(first) = 1 /\ first[1] = 1 /\ EosId \in Int /\ EosId = 2
    BY DEF BosId, EosId
  <1>11. lines \in Seq(Range(lines)) /\ Len(lines) = n
    <2>1. lines = [i \in 1 .. n |-> lines[i]]
      OBVIOUS
    <2> HIDE DEF lines
    <2>2. lines \in [1 .. n -> Range(lines)]
      BY <2>1 DEF Range
    <2> QED BY <2>2
  <1> HIDE DEF extra, lines, codes, front, first, ids, v
  <1>12. PICK e \in Int : e = EosId /\ e = 2
    BY <1>10
  <1>13. AllInARow(ids, first, front, extra, codes, e)
    BY <1>3, <1>7, <1>8, <1>9, <1>10, <1>12, JoinHas
  <1>14. /\ \A i \in 1 .. 1 : ids[i] = 1
         /\ \A i \in 1 .. f : ids[1 + i] = 4
         /\ \A i \in 1 .. x : ids[1 + f + i] = extra[i]
         /\ \A i \in 1 .. n : ids[1 + f + x + i] = codes[i]
         /\ ids[1 + f + x + n + 1] = 2
         /\ DOMAIN ids = 1 .. (1 + f + (x + n) + 1) /\ Len(ids) = 1 + f + (x + n) + 1
    <2>1. Len(ids) = 1 + f + (x + n) + 1
      BY <1>7, <1>8, <1>9, <1>10, <1>13 DEF AllInARow
    <2> QED BY <1>7, <1>8, <1>9, <1>10, <1>12, <1>13, <2>1 DEF AllInARow
  <1>15. told \in Seq(Range(meta) \cup Range(lines)) /\ InARow(Range(meta) \cup Range(lines), told, meta, lines)
    <2>1. meta \in Seq(Range(meta))
      BY <1>2 DEF IsSeq
    <2> DEFINE S == Range(meta) \cup Range(lines)
    <2>2. meta \in Seq(S) /\ lines \in Seq(S)
      BY <1>11, <2>1
    <2> HIDE DEF S
    <2>3. InARow(S, told, meta, lines)
      BY <2>2, ConcatIs
    <2> QED BY <2>3 DEF InARow, S
  <1> HIDE DEF told
  <1>16. /\ DOMAIN told = 1 .. (x + n)
         /\ \A i \in 1 .. x : told[i] = meta[i]
         /\ \A i \in 1 .. n : told[x + i] = lines[i]
    <2>1. Len(told) = x + n
      BY <1>2, <1>11, <1>15 DEF InARow
    <2>2. DOMAIN told = 1 .. Len(told)
      BY <1>15
    <2> QED BY <1>2, <1>11, <1>15, <2>1, <2>2 DEF InARow
  <1>17. ASSUME NEW j \in 1 .. (x + n) PROVE Codes(v, ids[1 + f + j], told[j])
    <2>1. CASE j \in 1 .. x
      BY <1>5, <1>14, <1>16, <2>1
    <2>2. CASE j \notin 1 .. x
      <3>1. PICK i \in 1 .. n : j = x + i
        <4>1. j - x \in 1 .. n /\ j = x + (j - x)
          BY <2>2
        <4> QED BY <4>1
      <3>2. 1 + f + j = 1 + f + x + i
        BY <3>1
      <3>3. ids[1 + f + j] = codes[i]
        BY <1>14, <3>1, <3>2
      <3>4. told[j] = lines[i]
        BY <1>16, <3>1
      <3> QED BY <1>6, <3>3, <3>4
    <2> QED BY <2>1, <2>2
  <1>18. \A j \in 1 .. (1 + f) : ids[j] \in 0 .. 4
    <2> SUFFICES ASSUME NEW j \in 1 .. (1 + f) PROVE ids[j] \in 0 .. 4
      OBVIOUS
    <2>1. CASE j = 1
      BY <1>14, <2>1
    <2>2. CASE j # 1
      <3>1. f = 1 /\ j = 1 + 1 /\ 1 \in 1 .. f
        BY <2>2
      <3> QED BY <1>14, <3>1
    <2> QED BY <2>1, <2>2
  <1>19. ids[1 + f + (x + n) + 1] \in 0 .. 4
    <2>1. 1 + f + (x + n) + 1 = 1 + f + x + n + 1
      OBVIOUS
    <2> QED BY <1>14, <2>1
  <1>20. PICK k \in Nat, m \in Nat : k = 1 + f /\ m = x + n
    OBVIOUS
  <1>21. /\ DOMAIN told = 1 .. m /\ DOMAIN ids = 1 .. (k + m + 1)
         /\ \A j \in 1 .. k : ids[j] \in 0 .. 4
         /\ ids[k + m + 1] \in 0 .. 4
         /\ \A j \in 1 .. m : Codes(tk.vocab, ids[k + j], told[j])
    BY <1>14, <1>16, <1>17, <1>18, <1>19, <1>20 DEF v
  <1>22. Decodes(tk, ids, told)
    BY <1>21, DecodeIs
  <1>23. told = Told(tk, s, limit)
    BY <1>1 DEF Told, told, meta, lines
  <1>24. Len(ids) <= limit + Len(s.auth) + 4
    <2>1. PICK a \in Nat : a = Len(s.auth)
      BY DEF IsSession
    <2>2. Len(ids) = 1 + f + (x + n) + 1 /\ x <= a + 1
      BY <1>2, <1>14, <2>1
    <2>3. 1 + f + (x + n) + 1 <= limit + a + 4
      BY <1>1, <2>2
    <2> QED BY <2>1, <2>2, <2>3
  <1> QED BY <1>22, <1>23, <1>24 DEF Says, Decodes, ids

-----------------------------------------------------------------------------
(* The examples of a run *)

Fitted ==
    phase \notin {"read", "failed", "fit"} /\ sessions # <<>> =>
        Vocabulary(tok.vocab) /\ tok.timingStd > 0 /\ tok.durationStd > 0

Encoded ==
    IF phase \in {"read", "failed", "fit", "encode"} THEN examples = <<>>
    ELSE examples = [n \in DOMAIN sessions |-> Encode(tok, sessions[n], MaxLength)]

EncodeInv == Fitted /\ Encoded /\ (~InRow => row = NoRow)

LEMMA FitFits == ASSUME ViewsInv, EncodeInv, FitTokenizer PROVE EncodeInv'
  <1>1. /\ phase = "fit" /\ phase' = "encode" /\ sessions' = sessions
        /\ UNCHANGED <<examples, row>>
    BY DEF FitTokenizer
  <1>2. PICK cfg \in Configs[collator], held \in {0, 1} : tok' = Fit(cfg, SubSeq(sessions, 1, Max({1, Len(sessions) - held})))
    BY DEF FitTokenizer
  <1>3. Encoded' /\ (~InRow => row = NoRow)'
    BY <1>1 DEF EncodeInv, Encoded, InRow
  <1>4. ASSUME sessions # <<>> PROVE Vocabulary(tok'.vocab) /\ tok'.timingStd > 0 /\ tok'.durationStd > 0
    <2>1. LoadedTyped
      BY DEF ViewsInv, DataTyped
    <2>2. PICK k \in Nat \ {0} : k = Len(sessions) /\ DOMAIN sessions = 1 .. k /\ sessions \in Seq(Range(sessions))
      BY <1>4, <2>1 DEF LoadedTyped, IsSeq
    <2>3. PICK one \in Int, y \in Int : one = 1 /\ y = k - held
      BY <1>2
    <2>4. Max({one, y}) \in {one, y} /\ Max({one, y}) >= one
      BY GreatestOf
    <2>5. PICK m \in 1 .. k : m = Max({1, Len(sessions) - held})
      BY <1>2, <2>2, <2>3, <2>4
    <2>6. PICK ss : ss = SubSeq(sessions, 1, m)
      OBVIOUS
    <2>7. ss \in Seq(Range(sessions)) /\ Len(ss) = m /\ \A n \in 1 .. m : ss[n] = sessions[n]
      <3>1. SubSeq(sessions, 1, m) = [i \in 1 .. m |-> sessions[i]]
        BY <2>2
      <3>2. ss = [i \in 1 .. m |-> sessions[i]]
        BY <2>6, <3>1
      <3>3. \A i \in 1 .. m : sessions[i] \in Range(sessions)
        BY <2>2 DEF Range
      <3>4. ss \in [1 .. m -> Range(sessions)] /\ m \in Nat
        BY <3>2, <3>3
      <3> QED BY <3>2, <3>4
    <2>8. AreSessions(ss)
      <3>1. IsSeq(ss)
        BY <2>7, SeqIs
      <3>2. DOMAIN ss = 1 .. m
        BY <2>7
      <3> QED BY <2>1, <2>2, <2>7, <3>1, <3>2 DEF AreSessions, LoadedTyped
    <2>9. tok' = Fit(cfg, ss)
      BY <1>2, <2>5, <2>6
    <2>10. Vocabulary(Fit(cfg, ss).vocab)
      BY <2>8, FitIs
    <2>11. Fit(cfg, ss).timingStd > 0 /\ Fit(cfg, ss).durationStd > 0
      BY <2>8, ScalesAre
    <2> QED BY <2>9, <2>10, <2>11
  <1>5. Fitted'
    BY <1>1, <1>4 DEF Fitted
  <1> QED BY <1>3, <1>5 DEF EncodeInv

LEMMA AugmentTurns ==
    ASSUME Augment
    PROVE  /\ phase = "augment" /\ UNCHANGED <<phase, sessions, tok, examples>>
           /\ row' = NoRow \/ row'.stage # "none"
  <1>1. ASSUME NEW nx, nx # "none", NEW ids, NEW tim, Becomes(nx, ids, tim)
        PROVE  UNCHANGED <<phase, sessions, tok, examples>> /\ row'.stage # "none"
    BY <1>1 DEF Becomes, data
  <1>2. CASE AppendRow
    BY <1>2 DEF AppendRow, At, data
  <1>3. CASE NextExample
    BY <1>1, <1>3 DEF NextExample, At
  <1>4. CASE TemporalCrop
    BY <1>1, <1>4 DEF TemporalCrop, At
  <1>5. CASE CommandDropout
    BY <1>1, <1>5 DEF CommandDropout, At
  <1>6. CASE SpanMask
    BY <1>1, <1>6 DEF SpanMask, At
  <1>7. CASE TimingJitter
    BY <1>1, <1>7 DEF TimingJitter, At
  <1>8. CASE ReidDropout
    BY <1>1, <1>8 DEF ReidDropout, At
  <1>9. CASE Reorder
    BY <1>1, <1>9 DEF Reorder, At
  <1>10. CASE ReidJitter
    BY <1>1, <1>10 DEF ReidJitter, At
  <1>11. CASE SkipStage
    BY <1>1, <1>11 DEF SkipStage, Skip, At
  <1> QED BY <1>2, <1>3, <1>4, <1>5, <1>6, <1>7, <1>8, <1>9, <1>10, <1>11 DEF Augment

LEMMA EncodeInitially == ViewsInit => EncodeInv
  <1> SUFFICES ASSUME ViewsInit PROVE EncodeInv
    OBVIOUS
  <1>1. phase \in {"read", "fit"} /\ examples = <<>> /\ row = NoRow
    BY DEF ViewsInit
  <1> QED BY <1>1 DEF EncodeInv, Fitted, Encoded

LEMMA EncodeKeep == ViewsInv /\ EncodeInv /\ [ViewsNext]_tvars => EncodeInv'
  <1> SUFFICES ASSUME ViewsInv, EncodeInv, [ViewsNext]_tvars PROVE EncodeInv'
    OBVIOUS
  <1>1. CASE \E e \in Events : ReadLine(e)
    <2>1. phase = "read" /\ UNCHANGED <<phase, examples, row>>
      BY <1>1 DEF ReadLine
    <2> QED BY <2>1 DEF EncodeInv, Fitted, Encoded, InRow
  <1>2. CASE EndFile
    <2>1. phase = "read" /\ phase' \in {"read", "fit"} /\ UNCHANGED <<examples, row>>
      BY <1>2 DEF EndFile
    <2> QED BY <2>1 DEF EncodeInv, Fitted, Encoded, InRow
  <1>8. CASE LoadAborts
    <2>1. phase = "read" /\ phase' = "failed" /\ UNCHANGED <<examples, row>>
      BY <1>8 DEF LoadAborts
    <2> QED BY <2>1 DEF EncodeInv, Fitted, Encoded, InRow
  <1>3. CASE FitTokenizer
    BY <1>3, FitFits
  <1>4. CASE EncodeAll
    <2>1. /\ phase = "encode" /\ phase' = "augment" /\ UNCHANGED <<sessions, tok, row>>
          /\ examples' = [n \in DOMAIN sessions |-> Encode(tok, sessions[n], MaxLength)]
      BY <1>4 DEF EncodeAll
    <2>2. examples' = [n \in DOMAIN sessions' |-> Encode(tok', sessions'[n], MaxLength)]
      BY <2>1
    <2> QED BY <2>1, <2>2 DEF EncodeInv, Fitted, Encoded, InRow
  <1>5. CASE Augment
    <2>1. phase = "augment" /\ UNCHANGED <<phase, sessions, tok, examples>> /\ (row' = NoRow \/ row'.stage # "none")
      BY <1>5, AugmentTurns
    <2> QED BY <2>1 DEF EncodeInv, Fitted, Encoded, InRow
  <1>6. CASE Collate
    <2>1. phase = "augment" /\ phase' = "done" /\ UNCHANGED <<sessions, tok, examples, row>>
      BY <1>6 DEF Collate, At, data
    <2> QED BY <2>1 DEF EncodeInv, Fitted, Encoded, InRow
  <1>7. CASE UNCHANGED tvars
    <2>1. UNCHANGED <<phase, sessions, tok, examples, row>>
      BY <1>7 DEF tvars, data
    <2> QED BY <2>1 DEF EncodeInv, Fitted, Encoded, InRow
  <1> QED BY <1>1, <1>2, <1>3, <1>4, <1>5, <1>6, <1>7, <1>8 DEF ViewsNext

LEMMA InvIsFaithful == ASSUME ViewsInv, EncodeInv PROVE EncodingSound
  <1>1. LoadedTyped
    BY DEF ViewsInv, DataTyped
  <1>2. HeadIsCommand
    BY <1>1, HeadsAreCommands
  <1>3. ScaleIsUsable
    BY DEF ScaleIsUsable, Ended, EncodeInv, Fitted
  <1>4. ChannelsAligned
    <2>1. \A n \in DOMAIN examples : Len(examples[n].ids) = Len(examples[n].tim)
      BY DEF ViewsInv, DataTyped, Framed, RowShape
    <2>2. \A r \in DOMAIN rows : Len(rows[r].ids) = Len(rows[r].tim)
      BY DEF ViewsInv, RowsTyped, RowShape
    <2>3. Len(row.ids) = Len(row.tim)
      <3>1. CASE InRow
        BY <3>1 DEF ViewsInv, RowFits, View, RowShape
      <3>2. CASE ~InRow
        <4>1. row.ids = row.tim
          BY <3>2 DEF EncodeInv, NoRow
        <4> QED BY <4>1
      <3> QED BY <3>1, <3>2
    <2> QED BY <2>1, <2>2, <2>3 DEF ChannelsAligned
  <1>5. MaxLength \in Nat /\ Headroom \in Nat
    BY ViewsAssumption
  <1>6. ASSUME NEW n \in DOMAIN examples
        PROVE  Says(tok, sessions[n], MaxLength, examples[n].ids) /\ Len(sessions[n].auth) \in Nat /\ Len(examples[n].ids) \in Nat
    <2>1. examples = [k \in DOMAIN sessions |-> Encode(tok, sessions[k], MaxLength)] /\ phase \notin {"read", "failed", "fit"}
      BY <1>6 DEF EncodeInv, Encoded
    <2>2. n \in DOMAIN sessions /\ examples[n] = Encode(tok, sessions[n], MaxLength)
      BY <2>1
    <2>3. IsSession(sessions[n]) /\ sessions # <<>>
      BY <1>1, <2>2 DEF LoadedTyped
    <2>4. Vocabulary(tok.vocab)
      BY <2>1, <2>3 DEF EncodeInv, Fitted
    <2>5. Says(tok, sessions[n], MaxLength, Encode(tok, sessions[n], MaxLength).ids)
      BY <1>5, <2>3, <2>4, EncodeSays
    <2>6. Len(examples[n].ids) \in Nat
      BY DEF ViewsInv, DataTyped, Framed, RowShape, IsSeq
    <2> QED BY <2>2, <2>3, <2>5, <2>6 DEF IsSession
  <1>7. EncodingFaithful
    <2> SUFFICES ASSUME NEW n \in DOMAIN examples
                 PROVE  /\ \A i \in DOMAIN examples[n].ids : examples[n].ids[i] \in 0 .. Len(tok.vocab) - 1
                        /\ Decode(tok, examples[n].ids) =
                             Pick(Told(tok, sessions[n], MaxLength),
                                  {i \in DOMAIN Told(tok, sessions[n], MaxLength) :
                                     Told(tok, sessions[n], MaxLength)[i] \in Range(tok.vocab) \ Range(Specials)})
      BY Zenon DEF EncodingFaithful, Told, Meta
    <2> QED BY <1>6 DEF Says
  <1>8. FitsPositions
    <2> SUFFICES ASSUME NEW n \in DOMAIN examples, Len(sessions[n].auth) <= Headroom - 4
                 PROVE  Len(examples[n].ids) <= MaxLength + Headroom
      BY DEF FitsPositions
    <2>1. PICK a \in Nat, l \in Nat : a = Len(sessions[n].auth) /\ l = Len(examples[n].ids) /\ l <= MaxLength + a + 4
      BY <1>6 DEF Says
    <2> QED BY <1>5, <2>1
  <1> QED BY <1>2, <1>3, <1>4, <1>7, <1>8 DEF EncodingSound

\* An example says what its session says, less what the vocabulary does not hold, in two
\* channels of one length that fit the embedder, and nothing is divided by zero
\* (normalize.py, tokenizer.py, dataset.py): for every log, corpus, vocabulary size and length limit.
THEOREM EncodingIsSound == ViewsSpec => []EncodingSound
  <1>1. ViewsInv /\ EncodeInv => EncodingSound
    BY InvIsFaithful
  <1> QED BY <1>1, ViewsInitially, ViewsKeep, EncodeInitially, EncodeKeep, PTL DEF ViewsSpec

=============================================================================
