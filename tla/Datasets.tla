------------------------------ MODULE Datasets ------------------------------
(***************************************************************************)
(* The published datasets: the weekly export and the exports of the API    *)
(* read one sessions table while sensors insert into it and the bridge     *)
(* classifies it.                                                          *)
(***************************************************************************)
EXTENDS WeeklyExport, ApiExport

vars == <<tableVars, exportVars, apiVars>>

\* The weekly export runs on the sensor and the exports of the API elsewhere:
\* they share nothing but the table, which neither writes, so an instance has
\* one or the other.
Init ==
    /\ TableInit /\ ExportInit /\ ApiInit
    /\ (run = Off) <=> (exports > 0)

Next ==
    \/ TableStep /\ UNCHANGED <<exportVars, apiVars>>
    \/ ExportStep /\ UNCHANGED <<tableVars, apiVars>>
    \/ ApiStep /\ UNCHANGED <<tableVars, exportVars>>

\* Time passes, the timer starts the weekly run and a run works on; nothing
\* forces the classifier or a session's end.
Spec ==
    /\ Init /\ [][Next]_vars
    /\ WF_vars(Tick /\ UNCHANGED <<exportVars, apiVars>>)
    /\ WF_vars(ExportWorks /\ UNCHANGED <<tableVars, apiVars>>)

\* Type invariant: of the table, of the weekly export and of the API exports.
TypeOK == TableType /\ ExportType /\ ApiType

\* What is published is there, holds its week and says what is missing in it,
\* although tables change while they are read and runs die between uploads.
PublishedSound == TypeOK /\ ListedIsThere /\ WeekIsWhole /\ PendingIsHonest

\* A paged export has the sessions there were, each once and in its network.
RowsSound == FetchedOnce /\ RowsAreLocated

=============================================================================
