------------------------------- MODULE Bridge -------------------------------
(***************************************************************************)
(* The enrichment worker (bridge/worker.py, bridge/db.py): it polls the    *)
(* sessions table for rows without a verdict, enriches them one by one,    *)
(* and writes the verdict and the embedding row in one transaction; a      *)
(* session whose enrichment fails is marked with the verdict 'error'.      *)
(*                                                                         *)
(* One connection, in PostgreSQL's transaction semantics: a statement that *)
(* fails aborts the transaction, and every later one is refused until the  *)
(* client rolls back.  What enrichment computes is left out.               *)
(***************************************************************************)
EXTENDS Naturals, Sequences, FiniteSets

CONSTANTS
    Sessions,   \* finished ssh sessions, in the order of start_ms
    Poison,     \* sessions whose enrichment raises
    BatchSize,  \* config.batch_size
    MaxFaults,  \* bound: failing statements, lost connections, crashes and signals
    Null

ASSUME WorkerAssumption ==
    /\ Sessions \subseteq Nat /\ IsFiniteSet(Sessions)
    /\ Poison \subseteq Sessions
    /\ BatchSize \in Nat \ {0} /\ MaxFaults \in Nat
    /\ Null \notin {"enriched", "error"}

VARIABLES
    saved,       \* rows of the sessions table
    verdict,     \* attacker_class of each row
    embeddings,  \* rows of session_embeddings
    tx,          \* uncommitted: a set of "verdict", "embedding", "error" for the session at hand
    aborted,     \* the transaction was aborted by a statement that failed
    conn,        \* the connection: "open" or "lost"
    pc,          \* where the worker is
    batch,       \* sessions of the batch still to process, the one at hand first
    stop,        \* _Shutdown.stop
    faults,      \* faults left
    failed       \* sessions whose own enrichment or own write has failed

table == <<saved, verdict, embeddings>>
link  == <<tx, aborted, conn>>
vars  == <<table, link, pc, batch, stop, faults, failed>>

Init ==
    /\ saved = {} /\ embeddings = {}
    /\ verdict = [s \in Sessions |-> Null]
    /\ tx = {} /\ aborted = FALSE /\ conn = "open"
    /\ pc = "down" /\ batch = <<>> /\ stop = FALSE
    /\ faults = MaxFaults /\ failed = {}

-----------------------------------------------------------------------------
(* The sensor, the database and the operator *)

\* SaveSession inserts the finished session and everything under it at once.
SaveSession(s) ==
    /\ s \notin saved
    /\ saved' = saved \cup {s}
    /\ UNCHANGED <<verdict, embeddings, link, pc, batch, stop, faults, failed>>

Fault == faults > 0 /\ faults' = faults - 1

ConnectionLost ==
    /\ Fault
    /\ pc # "down" /\ conn = "open"
    /\ conn' = "lost" /\ tx' = {} /\ aborted' = FALSE
    /\ UNCHANGED <<table, pc, batch, stop, failed>>

\* SIGTERM or SIGINT: the flag is read between batches.
Signal ==
    /\ Fault
    /\ pc # "down" /\ ~stop
    /\ stop' = TRUE
    /\ UNCHANGED <<table, link, pc, batch, failed>>

-----------------------------------------------------------------------------
(* The worker process *)

\* The process ends, and the server rolls back what it had not committed.
Exits ==
    /\ pc' = "down" /\ batch' = <<>> /\ stop' = FALSE
    /\ tx' = {} /\ aborted' = FALSE /\ conn' = "open"
    /\ UNCHANGED <<table, failed>>

Crash == Fault /\ pc # "down" /\ Exits

\* The container is restarted; connect_with_retry and ensure_schema.
Start ==
    /\ pc = "down"
    /\ pc' = "fetch"
    /\ UNCHANGED <<table, link, batch, stop, faults, failed>>

\* The loop's condition, after a signal.
StopRequested == pc = "fetch" /\ stop /\ Exits /\ UNCHANGED faults

\* Mutant: sessions marked as failed are tried again.
PendingOrFailed == {s \in saved : verdict[s] # "enriched"}

Pending == {s \in saved : verdict[s] = Null}

\* ORDER BY start_ms LIMIT batch_size: the sequences of the first sessions of S,
\* oldest first, of which there is one.
Oldest(S) ==
    LET n == IF Cardinality(S) > BatchSize THEN BatchSize ELSE Cardinality(S)
    IN  {q \in [1 .. n -> S] :
            /\ \A i, j \in 1 .. n : i < j => q[i] < q[j]
            /\ \A s \in S \ {q[i] : i \in 1 .. n} : \A i \in 1 .. n : q[i] < s}

\* fetch_pending, which ends its transaction.
FetchPending ==
    /\ pc = "fetch" /\ ~stop
    /\ conn = "open" /\ ~aborted
    /\ batch' \in Oldest(Pending)
    /\ pc' = IF batch' = <<>> THEN "sleep" ELSE "enrich"
    /\ UNCHANGED <<table, link, stop, faults, failed>>

\* Its SELECT raises: nothing catches that, and the worker ends.
FetchRaises ==
    /\ pc = "fetch" /\ ~stop
    /\ conn = "lost" \/ aborted
    /\ Exits
    /\ UNCHANGED faults

\* _sleep_interruptible; with --once the worker ends instead.
Wake ==
    /\ pc = "sleep"
    /\ pc' = "fetch"
    /\ UNCHANGED <<table, link, batch, stop, faults, failed>>

OnceDone == pc = "sleep" /\ Exits /\ UNCHANGED faults

-----------------------------------------------------------------------------
(* _process_batch *)

Current == Head(batch)

\* The loop goes on with the next session of the batch.
NextSession ==
    /\ batch' = Tail(batch)
    /\ pc' = IF Len(batch) = 1 THEN "fetch" ELSE "enrich"

Enriched ==
    /\ pc = "enrich"
    /\ Current \notin Poison
    /\ pc' = "update"
    /\ UNCHANGED <<table, link, batch, stop, faults, failed>>

EnrichRaises ==
    /\ pc = "enrich"
    /\ Current \in Poison
    /\ failed' = failed \cup {Current}
    /\ pc' = "rollback"
    /\ UNCHANGED <<table, link, batch, stop, faults>>

\* Mutant: the UPDATE is committed by itself.
UpdateCommitted ==
    /\ pc = "update"
    /\ conn = "open" /\ ~aborted
    /\ verdict' = [verdict EXCEPT ![Current] = "enriched"]
    /\ tx' = {}
    /\ pc' = "insert"
    /\ UNCHANGED <<saved, embeddings, aborted, conn, batch, stop, faults, failed>>

\* write_enrichment: the UPDATE of sessions.
UpdateSession ==
    /\ pc = "update"
    /\ conn = "open" /\ ~aborted
    /\ tx' = {"verdict"}
    /\ pc' = "insert"
    /\ UNCHANGED <<table, aborted, conn, batch, stop, faults, failed>>

\* The upsert into session_embeddings.
InsertEmbedding ==
    /\ pc = "insert"
    /\ conn = "open" /\ ~aborted
    /\ tx' = tx \cup {"embedding"}
    /\ pc' = "commit"
    /\ UNCHANGED <<table, aborted, conn, batch, stop, faults, failed>>

\* What the server does when the transaction of the session at hand commits.
Apply ==
    /\ verdict' = IF "error" \in tx THEN [verdict EXCEPT ![Current] = "error"]
                  ELSE IF "verdict" \in tx THEN [verdict EXCEPT ![Current] = "enriched"]
                  ELSE verdict
    /\ embeddings' = IF "embedding" \in tx THEN embeddings \cup {Current} ELSE embeddings
    /\ tx' = {}
    /\ UNCHANGED saved

Commit ==
    /\ pc = "commit"
    /\ conn = "open"
    /\ Apply
    /\ NextSession
    /\ UNCHANGED <<aborted, conn, stop, faults, failed>>

\* The connection breaks after the server has committed and before it says so.
CommitUnanswered ==
    /\ pc \in {"commit", "markcommit"}
    /\ conn = "open"
    /\ Fault
    /\ Apply
    /\ conn' = "lost"
    /\ IF pc = "commit" THEN pc' = "rollback" /\ UNCHANGED batch ELSE NextSession
    /\ UNCHANGED <<aborted, stop, failed>>

\* A statement or the commit of write_enrichment fails on its own account.
WriteRaises ==
    /\ pc \in {"update", "insert", "commit"}
    /\ conn = "open" /\ ~aborted
    /\ Fault
    /\ aborted' = TRUE /\ tx' = {}
    /\ failed' = failed \cup {Current}
    /\ pc' = "rollback"
    /\ UNCHANGED <<table, conn, batch, stop>>

\* A statement is refused: the transaction or the connection was gone before.
WriteRefused ==
    /\ pc \in {"update", "insert", "commit"}
    /\ conn = "lost" \/ aborted
    /\ pc' = "rollback"
    /\ UNCHANGED <<table, link, batch, stop, faults, failed>>

Rollback ==
    /\ pc = "rollback"
    /\ conn = "open"
    /\ tx' = {} /\ aborted' = FALSE
    /\ pc' = "mark"
    /\ UNCHANGED <<table, conn, batch, stop, faults, failed>>

\* rollback of a lost connection raises out of the handler and ends the worker.
RollbackRaises ==
    /\ pc = "rollback"
    /\ conn = "lost"
    /\ Exits
    /\ UNCHANGED faults

\* Mutant: a session that failed is left as it is.
MarkNothing ==
    /\ pc = "mark"
    /\ conn = "open"
    /\ NextSession
    /\ UNCHANGED <<table, link, stop, faults, failed>>

\* mark_failed: the UPDATE.
MarkFailed ==
    /\ pc = "mark"
    /\ conn = "open"
    /\ tx' = {"error"}
    /\ pc' = "markcommit"
    /\ UNCHANGED <<table, aborted, conn, batch, stop, faults, failed>>

MarkCommit ==
    /\ pc = "markcommit"
    /\ conn = "open"
    /\ Apply
    /\ NextSession
    /\ UNCHANGED <<aborted, conn, stop, faults, failed>>

\* mark_failed fails; that is caught and printed, without a rollback.
MarkRaises ==
    /\ pc \in {"mark", "markcommit"}
    /\ \/ conn = "lost" /\ UNCHANGED <<aborted, faults>>
       \/ conn = "open" /\ Fault /\ aborted' = (pc = "mark")
    /\ tx' = {}
    /\ NextSession
    /\ UNCHANGED <<table, conn, stop, failed>>

-----------------------------------------------------------------------------
Batch ==
    \/ Enriched \/ EnrichRaises \/ UpdateSession \/ InsertEmbedding \/ Commit
    \/ WriteRefused \/ Rollback \/ RollbackRaises \/ MarkFailed \/ MarkCommit
    \/ (conn = "lost" /\ MarkRaises)

Loop == Start \/ StopRequested \/ FetchPending \/ FetchRaises \/ Wake

Worker == Batch \/ Loop \/ OnceDone

Faults == ConnectionLost \/ Signal \/ Crash \/ WriteRaises \/ CommitUnanswered \/ MarkRaises

Next == Worker \/ Faults \/ \E s \in Sessions : SaveSession(s)

Spec == Init /\ [][Next]_vars

\* The worker is scheduled, and the container restarted whenever it ends.
FairSpec == Spec /\ WF_vars(Worker)

-----------------------------------------------------------------------------
(* Properties *)

\* Type invariant.
TypeOK ==
    /\ saved \subseteq Sessions /\ embeddings \subseteq saved
    /\ verdict \in [Sessions -> {Null, "enriched", "error"}]
    /\ tx \subseteq {"verdict", "embedding", "error"}
    /\ aborted \in BOOLEAN /\ stop \in BOOLEAN /\ conn \in {"open", "lost"}
    /\ pc \in {"down", "fetch", "sleep", "enrich", "update", "insert", "commit",
               "rollback", "mark", "markcommit"}
    /\ batch \in Seq(saved) /\ Len(batch) <= BatchSize
    /\ faults \in 0 .. MaxFaults /\ failed \subseteq saved

\* "A session's intelligence columns and its embedding row never disagree":
\* whatever fails and wherever the worker dies, a session has an embedding row
\* exactly if it has a verdict other than 'error'.
RowsAgree == \A s \in Sessions : s \in embeddings <=> verdict[s] = "enriched"

\* A verdict is given once: neither a retry after a crash nor a commit that was
\* never answered enriches a session again or turns its verdict around.
VerdictIsFinal == [][\A s \in Sessions : verdict[s] # Null => verdict'[s] = verdict[s]]_vars

\* Every finished session gets a verdict, however many sessions before it cannot
\* be enriched and whatever failed on the way, once faults stop.
EverySessionGetsVerdict == \A s \in Sessions : s \in saved ~> verdict[s] # Null

\* The worker's handler is there to "isolate poison sessions": a session is marked
\* as failed only if enriching or writing that very session has failed.  The one
\* exception is a mark_failed that itself failed and left its transaction aborted:
\* that costs the session after it, and no more than that one.
PoisonIsContained ==
    Cardinality({s \in Sessions : verdict[s] = "error" /\ s \notin failed}) <= MaxFaults - faults

\* Whatever fails between the statements of a session: its verdict agrees with its
\* embedding row, and a failure does not spread over the batch.
VerdictsSound == TypeOK /\ RowsAgree /\ PoisonIsContained

=============================================================================
