----------------------------- MODULE ApiExport -----------------------------
(***************************************************************************)
(* The versioned dataset directory: export_dataset.py streams all sessions *)
(* from /api/export, export_commands_dataset.py pages through the commands *)
(* of /api/export/commands, while sessions keep arriving.  Both endpoints  *)
(* use keyset cursors, sessions from the newest, commands from the oldest. *)
(* The commands are joined with the bait they touched, one row for each.   *)
(* A session is located by bisection in the DB-IP tables (geo_lookup.py).  *)
(***************************************************************************)
EXTENDS SessionTable, Sequences, SequencesExt

CONSTANTS
    PageLimit,     \* PageLimit[what]: rows in a page of sessions or commands
    MaxPages,      \* maxExportPages, of sessions
    Hits,          \* Hits[s]: the bait interactions its command triggered
    Ip,            \* Ip[s]: the client address, a number
    AsnFile,       \* the lines of the ASN file: [from, to, asn] or Malformed
    Exports        \* bound on the exports started

Malformed == [from |-> 1, to |-> 0, asn |-> "malformed"]
Unknown == "unknown"

ASSUME ApiAssumption ==
    /\ PageLimit \in [{"sessions", "commands"} -> Nat \ {0}] /\ MaxPages \in Nat \ {0}
    /\ Hits \in [Sessions -> Nat] /\ Exports \in Nat
    /\ "none" \notin Sessions
    /\ Ip \in [Sessions -> Nat]
    /\ AsnFile \in Seq([from : Nat, to : Nat, asn : STRING])
    /\ \A i \in DOMAIN AsnFile : AsnFile[i] = Malformed \/ AsnFile[i].from <= AsnFile[i].to
    \* DB-IP ships disjoint ranges
    /\ \A i, j \in DOMAIN AsnFile :
          i = j \/ AsnFile[i] = Malformed \/ AsnFile[j] = Malformed
              \/ AsnFile[i].to < AsnFile[j].from \/ AsnFile[j].to < AsnFile[i].from

VARIABLES
    api,           \* the export under way
    dataset,       \* the files of the dataset directory
    exports        \* exports that may still start

apiVars == <<api, dataset, exports>>

-----------------------------------------------------------------------------
\* The elements of a finite set in a strict order.
Sorted(S, precedes(_, _)) ==
    CHOOSE f \in SetToSeqs(S) : \A i, j \in DOMAIN f : i < j => precedes(f[i], f[j])

\* _load_asn: malformed lines are skipped, the rest sorted by their start.
AsnRows ==
    Sorted(Range(AsnFile) \ {Malformed}, LAMBDA a, b : a.from < b.from)

\* GeoLookup.lookup: bisect_right on the starts, then one comparison.
Lookup(ip) ==
    LET idx == Cardinality({i \in DOMAIN AsnRows : AsnRows[i].from <= ip})
    IN  IF idx > 0 /\ AsnRows[idx].from <= ip /\ ip <= AsnRows[idx].to
        THEN AsnRows[idx].asn ELSE Unknown

-----------------------------------------------------------------------------
\* The order (start_ms, session_id), which both keysets use: a session's command
\* carries the time of its session here.
Before(s, t) == Start[s] < Start[t] \/ (Start[s] = Start[t] /\ Id[s] < Id[t])

\* Mutant: the cursor compares the time alone.
BeyondByTime(what, s, cursor) ==
    \/ cursor = "none"
    \/ what = "sessions" /\ Start[s] < Start[cursor]
    \/ what = "commands" /\ Start[cursor] < Start[s]

\* The rows a cursor leaves: the sessions before it, the commands after it.
Beyond(what, s, cursor) ==
    \/ cursor = "none"
    \/ what = "sessions" /\ Before(s, cursor)
    \/ what = "commands" /\ Before(cursor, s)

\* LEFT JOIN bait_interactions: a command has a row for each bait it touched, or
\* one without; a session has one row.
Joined(what, s) == IF what = "commands" /\ Hits[s] > 0 THEN 1 .. Hits[s] ELSE {0}

\* What the query selects.
Select(what, cursor) ==
    UNION {{[id |-> s, hit |-> h] : h \in Joined(what, s)}
           : s \in {t \in Rows : Protocol[t] = "ssh" /\ Beyond(what, t, cursor)}}

\* ORDER BY; the rows of one command come in an order of the database's.
Ordered(what, r, q) ==
    \/ what = "sessions" /\ Before(q.id, r.id)
    \/ what = "commands" /\ Before(r.id, q.id)
    \/ r.id = q.id /\ r.hit < q.hit

\* GetExportPage and GetCommandExport: at most PageLimit rows after the cursor.
Page(what, cursor) ==
    LET left == Sorted(Select(what, cursor), LAMBDA r, q : Ordered(what, r, q))
    IN  SubSeq(left, 1, IF Len(left) < PageLimit[what] THEN Len(left) ELSE PageLimit[what])

\* A full page names its last row as the next cursor, a short one ends the export.
NextCursor(what, page) == IF Len(page) = PageLimit[what] THEN page[Len(page)].id ELSE "none"

Files == {"sessions.csv", "sessions.json", "summary", "commands"}

ApiInit ==
    /\ api = [pc |-> "idle"]
    /\ dataset = [f \in Files |-> <<>>]
    /\ exports \in {0, Exports}

\* main of either script.
StartExport(what) ==
    /\ api.pc = "idle" /\ exports > 0
    /\ exports' = exports - 1
    /\ api' = [pc |-> "fetch", what |-> what, cursor |-> "none", pages |-> 0, got |-> <<>>,
               there |-> Rows]
    /\ UNCHANGED dataset

\* streamExport ends with a whole answer when it has sent maxExportPages pages.
AtCap(what, pages) == what = "sessions" /\ pages = MaxPages

\* streamExport and fetch_all_commands: the next page, until one has no cursor.
FetchPage ==
    /\ api.pc = "fetch"
    /\ LET page == Page(api.what, api.cursor)
           next == NextCursor(api.what, page)
           pages == api.pages + 1
       IN  api' = [api EXCEPT !.got = @ \o page, !.cursor = next, !.pages = pages,
                              !.pc = IF next # "none" /\ ~AtCap(api.what, pages) THEN "fetch"
                                     ELSE IF api.what = "sessions" THEN "csv" ELSE "commands"]
    /\ UNCHANGED <<dataset, exports>>

\* A query fails: the answer of /api/export is cut, /api/export/commands says so,
\* and the script raises before it has written anything.
FetchFails ==
    /\ api.pc = "fetch"
    /\ api' = [api EXCEPT !.pc = "idle"]
    /\ UNCHANGED <<dataset, exports>>

\* enrich_sessions: one row for each session fetched, located.
Enriched(got) == [i \in DOMAIN got |-> [id |-> got[i].id, asn |-> Lookup(Ip[got[i].id])]]

\* write_csv, write_json and the summary, one file after the other.
WriteCsv ==
    /\ api.pc = "csv"
    /\ dataset' = [dataset EXCEPT !["sessions.csv"] = Enriched(api.got)]
    /\ api' = [api EXCEPT !.pc = "json"]
    /\ UNCHANGED exports

WriteJson ==
    /\ api.pc = "json"
    /\ dataset' = [dataset EXCEPT !["sessions.json"] = Enriched(api.got)]
    /\ api' = [api EXCEPT !.pc = "summary"]
    /\ UNCHANGED exports

WriteSummary ==
    /\ api.pc = "summary"
    /\ dataset' = [dataset EXCEPT !["summary"] = Enriched(api.got)]
    /\ api' = [api EXCEPT !.pc = "idle"]
    /\ UNCHANGED exports

\* anonymize_and_scrub and write_jsonl: the rows as they came, not located.
WriteCommands ==
    /\ api.pc = "commands"
    /\ dataset' = [dataset EXCEPT !["commands"] = api.got]
    /\ api' = [api EXCEPT !.pc = "idle"]
    /\ UNCHANGED exports

ApiStep ==
    \/ \E what \in {"sessions", "commands"} : StartExport(what)
    \/ FetchPage \/ FetchFails \/ WriteCsv \/ WriteJson \/ WriteSummary \/ WriteCommands

-----------------------------------------------------------------------------
ApiType ==
    /\ api.pc \in {"idle", "fetch", "csv", "json", "summary", "commands"}
    /\ exports \in 0 .. Exports
    /\ DOMAIN dataset = Files

\* What a page-wise export fetched when it starts to write: every ssh session or
\* command saved before it began, whatever arrived between the pages, unless
\* the sessions filled all the pages there may be; a session once, and a
\* command at most once for each bait it touched.
FetchedOnce ==
    api.pc \in {"csv", "json", "summary", "commands"} =>
        /\ \/ {s \in api.there : Protocol[s] = "ssh"} \subseteq {api.got[i].id : i \in DOMAIN api.got}
           \/ api.what = "sessions" /\ Len(api.got) = MaxPages * PageLimit["sessions"]
        /\ \A s \in Sessions :
               Cardinality({i \in DOMAIN api.got : api.got[i].id = s}) <= Cardinality(Joined(api.what, s))

\* Every session exported carries the network whose range holds its address, and
\* is unmatched only if no range does.
RowsAreLocated ==
    \A f \in Files \ {"commands"} : \A i \in DOMAIN dataset[f] :
        LET row == dataset[f][i]
            homes == {r \in Range(AsnFile) : r.from <= Ip[row.id] /\ Ip[row.id] <= r.to}
        IN  IF homes = {} THEN row.asn = Unknown ELSE \E r \in homes : row.asn = r.asn

=============================================================================
