---------------------------- MODULE WeeklyExport ----------------------------
(***************************************************************************)
(* The weekly Parquet export (scripts/export_parquet.py): a run reads the  *)
(* manifest of the bucket, reads every complete week that is not in it     *)
(* from the database, one short transaction per chunk, uploads the two     *)
(* files of the week and then the manifest.  A run may die at any point    *)
(* and the timer starts another one.                                       *)
(***************************************************************************)
EXTENDS SessionTable, Sequences, SequencesExt

CONSTANTS
    MaxWait,       \* max_wait_ms: how long a week waits for the classifier
    Deaths         \* bound on the runs that die

ASSUME ExportAssumption ==
    /\ MaxWait \in Nat /\ Deaths \in Nat
    /\ "missing" \notin Sessions

VARIABLES
    bucket,        \* bucket[path]: the rows of the uploaded file, or Missing
    manifest,      \* the entries of the manifest in the bucket
    run,           \* the export run under way
    deaths         \* runs that may still die

exportVars == <<bucket, manifest, run, deaths>>

Tables == <<"sessions", "commands">>
Protocols == <<"ssh", "telnet">>
Missing == {[id |-> "missing", cls |-> FALSE]}
Weeks == 1 .. (MaxTime \div WeekLen) + 1
Paths == Range(Tables) \X Range(Protocols) \X Weeks

\* complete_weeks: a week whose sessions have had lag_ms to be inserted.
IsComplete(w, at) == EndOf(w) + Lag <= at

\* Mutant: a week waits for the classifier without a limit.
IsReadyOnlyClassified(w, at, pending) == pending = 0

IsReady(w, at, pending) == pending = 0 \/ at >= EndOf(w) + MaxWait

\* One record of a data file: the columns the properties tell apart are the
\* session and whether its attacker_class was there when it was read.
Record(s) == [id |-> s, cls |-> s \in classified]

\* SESSIONS_SQL and COMMANDS_SQL for one chunk: both tables select by the
\* start of the session, so a command is in the week of its session.
Selected(protocol, w, chunk) ==
    {Record(s) : s \in {r \in Rows : /\ Protocol[r] = protocol
                                     /\ Start[r] = (w - 1) * WeekLen + chunk}}

\* PENDING_ENRICHMENT_SQL: unclassified sessions of the week, asked for ssh.
Pending(protocol, w) ==
    IF protocol # "ssh" THEN 0
    ELSE Cardinality({s \in Rows \ classified : Protocol[s] = "ssh" /\ WeekOf(Start[s]) = w})

Covers(m, protocol, w) ==
    \A t \in Range(Tables) : \E e \in m : e.path = <<t, protocol, w>>

\* Mutant: an entry replaces the other entries of its table.
AddByTable(m, entry) == {e \in m : e.path[1] # entry.path[1]} \cup {entry}

\* Manifest.add replaces the entry of the same path.
Add(m, entry) == {e \in m : e.path # entry.path} \cup {entry}

Idle == [pc |-> "idle"]
Off == [pc |-> "off"]     \* the timer is not installed
At(pc, r) == [r EXCEPT !.pc = pc]
NextProtocol(r) ==
    IF r.protocol = Len(Protocols) THEN Idle
    ELSE [r EXCEPT !.pc = "protocol", !.protocol = @ + 1]
NextWeek(r) == [r EXCEPT !.pc = "week", !.week = @ + 1]

ExportInit ==
    /\ bucket = [p \in Paths |-> Missing]
    /\ manifest = {}
    /\ run \in {Idle, Off}
    /\ deaths = Deaths

\* The timer starts a run: it reads the clock and the manifest once.
StartRun ==
    /\ run.pc = "idle"
    /\ run' = [pc |-> "protocol", protocol |-> 1, week |-> 1, now |-> now,
               manifest |-> manifest, pending |-> 0, table |-> 1, chunk |-> 0,
               rows |-> [t \in Range(Tables) |-> {}]]
    /\ UNCHANGED <<bucket, manifest, deaths>>

\* FIRST_SESSION_SQL: the weeks of a protocol start at its first session.
FirstSession ==
    /\ run.pc = "protocol"
    /\ LET starts == {Start[s] : s \in {r \in Rows : Protocol[r] = Protocols[run.protocol]}}
       IN  run' = IF starts = {} THEN NextProtocol(run)
                  ELSE [run EXCEPT !.pc = "week",
                                   !.week = WeekOf(CHOOSE t \in starts : \A u \in starts : t <= u)]
    /\ UNCHANGED <<bucket, manifest, deaths>>

\* One iteration over complete_weeks: past the last one, published already,
\* waiting for the classifier, or to be exported.
ConsiderWeek ==
    /\ run.pc = "week"
    /\ LET protocol == Protocols[run.protocol]
           pending == Pending(protocol, run.week)
       IN  run' = CASE ~IsComplete(run.week, run.now) -> NextProtocol(run)
                    [] Covers(run.manifest, protocol, run.week) -> NextWeek(run)
                    [] OTHER -> IF IsReady(run.week, run.now, pending)
                                THEN [run EXCEPT !.pc = "read", !.pending = pending, !.table = 1, !.chunk = 0,
                                                 !.rows = [t \in Range(Tables) |-> {}]]
                                ELSE NextWeek(run)
    /\ UNCHANGED <<bucket, manifest, deaths>>

\* write_table: the rows of one chunk, in a transaction of their own; then the
\* next chunk, the next table, or the upload.
ReadChunk ==
    /\ run.pc = "read"
    /\ LET more == [run EXCEPT !.rows[Tables[run.table]] =
                       @ \cup Selected(Protocols[run.protocol], run.week, run.chunk)]
       IN  run' = CASE run.chunk < WeekLen - 1 -> [more EXCEPT !.chunk = @ + 1]
                    [] run.chunk = WeekLen - 1 /\ run.table < Len(Tables) ->
                           [more EXCEPT !.chunk = 0, !.table = @ + 1]
                    [] OTHER -> [more EXCEPT !.pc = "put", !.table = 1]
    /\ UNCHANGED <<bucket, manifest, deaths>>

\* Mutant: the manifest is uploaded first, then the files it lists.
PutTableAfterManifest ==
    /\ run.pc = "put"
    /\ LET Entry(t) == [path |-> <<t, Protocols[run.protocol], run.week>>,
                        rows |-> run.rows[t], pending |-> run.pending]
       IN  IF run.table = 1
           THEN /\ manifest' = Add(Add(manifest, Entry("sessions")), Entry("commands"))
                /\ run' = [run EXCEPT !.manifest = manifest', !.table = 2]
                /\ UNCHANGED bucket
           ELSE /\ bucket' = [p \in Paths |-> IF p[2] = Protocols[run.protocol] /\ p[3] = run.week
                                             THEN run.rows[p[1]] ELSE bucket[p]]
                /\ run' = At("manifest", run)
                /\ UNCHANGED manifest
    /\ UNCHANGED deaths

\* publish_week: a data file goes up and is added to the manifest in memory.
PutTable ==
    /\ run.pc = "put"
    /\ LET table == Tables[run.table]
           path == <<table, Protocols[run.protocol], run.week>>
           entry == [path |-> path, rows |-> run.rows[table], pending |-> run.pending]
           listed == Add(run.manifest, entry)
       IN  /\ bucket' = [bucket EXCEPT ![path] = run.rows[table]]
           /\ run' = IF run.table < Len(Tables) THEN [run EXCEPT !.manifest = listed, !.table = @ + 1]
                     ELSE [run EXCEPT !.manifest = listed, !.pc = "manifest"]
    /\ UNCHANGED <<manifest, deaths>>

\* publish_week, last step: the manifest goes up after the files it lists.
PutManifest ==
    /\ run.pc = "manifest"
    /\ manifest' = run.manifest
    /\ run' = NextWeek(run)
    /\ UNCHANGED <<bucket, deaths>>

\* A statement, an upload or the process fails: nothing is caught, the run ends.
RunDies ==
    /\ run.pc \notin {"idle", "off"}
    /\ deaths > 0
    /\ deaths' = deaths - 1
    /\ run' = Idle
    /\ UNCHANGED <<bucket, manifest>>

ExportStep ==
    \/ StartRun \/ FirstSession \/ ConsiderWeek \/ ReadChunk
    \/ PutTable \/ PutManifest \/ RunDies

ExportWorks == StartRun \/ FirstSession \/ ConsiderWeek \/ ReadChunk \/ PutTable \/ PutManifest

-----------------------------------------------------------------------------
\* A session whose row was there when the lag of its week ran out.
Timely(s) == s \in Rows \ late

Ids(rows) == {r.id : r \in rows}

ExportType ==
    /\ \A e \in manifest : e.path \in Paths /\ e.pending \in 0 .. Cardinality(Sessions)
    /\ DOMAIN bucket = Paths
    /\ deaths \in 0 .. Deaths
    /\ run.pc \in {"off", "idle", "protocol", "week", "read", "put", "manifest"}

\* publish_week: "a reader following the manifest never finds a listed file
\* missing", and it finds the content whose hash is listed, whatever run died
\* between two uploads.
ListedIsThere ==
    \A e \in manifest : bucket[e.path] = e.rows /\ bucket[e.path] # Missing

\* export_parquet.py: "Published files are never rewritten", and no run takes
\* an entry off the manifest.
PublishedStays ==
    [][\A e \in manifest : e \in manifest' /\ bucket'[e.path] = bucket[e.path]]_exportVars

\* Both files of a published week hold every session of it that was saved
\* within the lag, although each chunk of each table is another transaction.
WeekIsWhole ==
    \A s \in Sessions :
        LET w == WeekOf(Start[s]) IN
        Timely(s) /\ Covers(manifest, Protocol[s], w) =>
            \A t \in Range(Tables) : s \in Ids(bucket[<<t, Protocol[s], w>>])

\* unenriched_sessions of the manifest is no less than the unclassified sessions
\* in the file, so a week listed with none carries the same class for a session
\* in both of its files, although the classifier works while they are read.
PendingIsHonest ==
    \A e \in manifest :
        e.path[2] = "ssh" =>
            Cardinality({r \in e.rows : ~r.cls /\ Timely(r.id)}) <= e.pending

\* The timer picks up what a dead run left: every week with a session is
\* published once its wait is over, even if the classifier never comes back.
WeeksGetPublished ==
    \A s \in Sessions :
        run # Off => []<>(s \in Rows => Covers(manifest, Protocol[s], WeekOf(Start[s])))

=============================================================================
