----------------------------- MODULE RealCorpus -----------------------------
(***************************************************************************)
(* The corpus of captured sessions the re-identification model is trained  *)
(* on: the detection of the campaign that replays one word list            *)
(* (reid/campaign.py), the queries it and the export read with             *)
(* (reid/real_db.py), and the file the export writes and the trainer loads *)
(* (reid/real_data.py).  Every query sees what is committed when it runs,  *)
(* and sensors save sessions between two of them.                          *)
(***************************************************************************)
EXTENDS Integers, Sequences, FiniteSets, FiniteSetsExt, SequencesExt

CONSTANTS
    Sess,            \* the sessions sensors may save
    Before,          \* the ones that are there already
    Ip, Protocol,    \* Ip[s], Protocol[s]
    Attempts,        \* Attempts[s]: its login attempts, [method, pair] records
    WordlistLen,     \* wordlist_len
    MinSessions,     \* --min-sessions-per-identity
    Commands,        \* bound on the commands started
    Unknown,         \* UNKNOWN_TOOLKIT
    Spliced          \* a row made of the pieces of two

ASSUME CorpusAssumption ==
    /\ WordlistLen \in Nat \ {0} /\ MinSessions \in Nat \ {0} /\ Commands \in Nat
    /\ IsFiniteSet(Sess) /\ Before \subseteq Sess

VARIABLES
    saved,           \* the sessions in the database
    proc,            \* the query the command under way runs next
    started,         \* commands started
    counts,          \* what fetch_session_counts returned
    pairs,           \* what fetch_credential_pair_sets returned
    campaign,        \* the CampaignResult
    got,             \* what fetch_real_sessions has read of every session
    rows,            \* the rows of the corpus that are not in the file yet
    file,            \* the corpus file
    exports,         \* the corpora the exports have built
    report,          \* campaign_membership.json
    reader,          \* the load under way
    loaded           \* the corpus the trainer loaded

vars == <<saved, proc, started, counts, pairs, campaign, got, rows, file, exports, report, reader, loaded>>

Off == [kind |-> "off", at |-> "end"]
Nobody == [members |-> {}, excluded |-> {}]
Empty == [rows |-> <<>>, torn |-> FALSE]

\* A load: the rows read, how many of them before an export first cut the file
\* under it (own), how often that happened (cuts), and the rows in front of its
\* offset in the file (pos).  What stands at the offset goes on where the rows
\* read end (seam "none"), or is no continuation of what is buffered: then the
\* line may pass for a row ("splice"), or cannot ("junk").
LoadFrom(on) == [on |-> on, rows |-> <<>>, own |-> 0, cuts |-> 0, pos |-> 0, seam |-> "none"]
NoLoad == [rows |-> <<>>, own |-> 0, cuts |-> 0]
Ips == {Ip[s] : s \in Sess}
Rows(ip) == {s \in saved : Ip[s] = ip /\ Protocol[s] = "ssh"}

Init ==
    /\ saved = Before /\ proc = Off /\ started = 0
    /\ counts = <<>> /\ pairs = <<>> /\ campaign = Nobody /\ got = <<>>
    /\ rows = <<>> /\ file = Empty /\ exports = {} /\ report = Nobody
    /\ reader = LoadFrom(FALSE) /\ loaded = NoLoad

\* What a command has read is gone with it.
Forget == counts' = <<>> /\ pairs' = <<>> /\ campaign' = Nobody /\ got' = <<>> /\ rows' = <<>>

\* A sensor saves a session with its commands and attempts, in one transaction.
SaveSession(s) ==
    /\ s \notin saved
    /\ saved' = saved \cup {s}
    /\ UNCHANGED <<proc, started, counts, pairs, campaign, got, rows, file, exports, report, reader, loaded>>

\* main_detect_campaign or main_export_corpus starts.
Connect(kind) ==
    /\ proc = Off /\ started < Commands
    /\ proc' = [kind |-> kind, at |-> "counts"] /\ started' = started + 1
    /\ UNCHANGED <<saved, counts, pairs, campaign, got, rows, file, exports, report, reader, loaded>>

\* Mutant: the sessions of other protocols are counted too.
CountedAll(ip) == {s \in saved : Ip[s] = ip}

\* The sessions an address is counted with.
Counted(ip) == Rows(ip)

\* fetch_session_counts.
FetchCounts ==
    /\ proc.at = "counts"
    /\ counts' = [ip \in {i \in Ips : Counted(i) # {}} |-> Cardinality(Counted(ip))]
    /\ proc' = [proc EXCEPT !.at = "pairs"]
    /\ UNCHANGED <<saved, started, pairs, campaign, got, rows, file, exports, report, reader, loaded>>

\* divisibility_candidates.
Candidates == {ip \in DOMAIN counts : counts[ip] % WordlistLen = 0}

\* fetch_credential_pair_sets: the pairs tried with a password, of the
\* candidates only.
FetchPairs ==
    /\ proc.at = "pairs"
    /\ pairs' = [ip \in Candidates |->
                    UNION {{a.pair : a \in {x \in Attempts[s] : x.method # "publickey"}} : s \in Rows(ip)}]
    /\ proc' = [proc EXCEPT !.at = "detect"]
    /\ UNCHANGED <<saved, started, counts, campaign, got, rows, file, exports, report, reader, loaded>>

\* Counter.most_common(1): one of the most frequent sets; the order in which
\* the database returned the addresses decides between equals.
References ==
    LET times(set) == Cardinality({ip \in Candidates : pairs[ip] = set})
    IN  {set \in Range(pairs) : \A other \in Range(pairs) : times(other) <= times(set)}

\* The candidates with the reference set are the members.
Members(reference) == {ip \in Candidates : pairs[ip] = reference}

\* CampaignResult.
Result(reference) ==
    [members |-> {[ip |-> ip, tier |-> counts[ip] \div WordlistLen, count |-> counts[ip]]
                  : ip \in Members(reference)},
     excluded |-> Candidates \ Members(reference)]

\* detect_campaign.
Detect ==
    /\ proc.at = "detect"
    /\ IF Candidates = {} THEN campaign' = Nobody
       ELSE \E reference \in References : campaign' = Result(reference)
    /\ proc' = [proc EXCEPT !.at = IF proc.kind = "detect" THEN "report" ELSE "sessions"]
    /\ UNCHANGED <<saved, started, counts, pairs, got, rows, file, exports, report, reader, loaded>>

\* main_detect_campaign: the report.
WriteReport ==
    /\ proc.at = "report"
    /\ report' = campaign /\ proc' = Off /\ Forget
    /\ UNCHANGED <<saved, started, file, exports, reader, loaded>>

\* The order of the three queries of fetch_real_sessions.
AfterQuery == [sessions |-> "commands", commands |-> "attempts", attempts |-> "build"]

\* fetch_real_sessions: the sessions, which everything else is attached to.
FetchSessions ==
    /\ proc.at = "sessions"
    /\ got' = [s \in {x \in saved : Protocol[x] = "ssh"} |-> [commands |-> FALSE, attempts |-> FALSE]]
    /\ proc' = [proc EXCEPT !.at = AfterQuery["sessions"]]
    /\ UNCHANGED <<saved, started, counts, pairs, campaign, rows, file, exports, report, reader, loaded>>

\* The commands, and then the attempts, of the sessions read.
FetchOf(what) ==
    /\ proc.at = what
    /\ got' = [s \in DOMAIN got |-> [got[s] EXCEPT ![what] = s \in saved]]
    /\ proc' = [proc EXCEPT !.at = AfterQuery[what]]
    /\ UNCHANGED <<saved, started, counts, pairs, campaign, rows, file, exports, report, reader, loaded>>

\* toolkit_label_for.
ToolkitLabelFor(ip) ==
    IF \E m \in campaign.members : m.ip = ip
    THEN (CHOOSE m \in campaign.members : m.ip = ip).tier ELSE Unknown

Read(ip) == {s \in DOMAIN got : Ip[s] = ip}

\* min_sessions_per_identity.
Kept(ip) == Cardinality(Read(ip)) >= MinSessions

\* The rows of one address.
Block(ip) ==
    LET seq == SetToSeq(Read(ip))
    IN  [n \in DOMAIN seq |-> [ip |-> ip, kit |-> ToolkitLabelFor(ip), session |-> seq[n],
                               read |-> got[seq[n]]]]

\* build_real_identity_corpus for the addresses in the order ips: the sessions
\* of an address stay together, an address with too few is left out.
Corpus(ips) == FlattenSeq([n \in DOMAIN ips |-> IF Kept(ips[n]) THEN Block(ips[n]) ELSE <<>>])

\* Mutant: the file is opened for appending.
OpenedForAppend == file

\* open("w"): the file is empty.
Opened == Empty

\* A load that has read something keeps its offset in bytes, which may be
\* anywhere in the rows of another export, or behind them.
Overtaken(corpus) ==
    IF ~reader.on \/ reader.rows = <<>> THEN UNCHANGED reader
    ELSE \E n \in 0 .. Len(corpus), seam \in {"none", "splice", "junk"} :
             reader' = [reader EXCEPT !.cuts = @ + 1, !.pos = n, !.seam = seam]

\* The corpus is built and the file opened.
Build ==
    /\ proc.at = "build"
    /\ \E ips \in SetToSeqs({Ip[s] : s \in DOMAIN got}) :
           /\ rows' = Corpus(ips) /\ exports' = exports \cup {Corpus(ips)}
           /\ Overtaken(Corpus(ips))
    /\ file' = Opened
    /\ proc' = [proc EXCEPT !.at = "write"]
    /\ UNCHANGED <<saved, started, counts, pairs, campaign, got, report, loaded>>

\* save_real_identity_corpus: the buffer is flushed, perhaps inside a row.
Flush ==
    /\ proc.at = "write" /\ rows # <<>>
    /\ \E n \in 0 .. Len(rows) : \E torn \in (IF n < Len(rows) THEN BOOLEAN ELSE {FALSE}) :
           /\ file' = [rows |-> file.rows \o SubSeq(rows, 1, n), torn |-> torn]
           /\ n > 0 \/ (torn /\ ~file.torn)
           /\ rows' = SubSeq(rows, n + 1, Len(rows))
    /\ UNCHANGED <<saved, proc, started, counts, pairs, campaign, got, exports, report, reader, loaded>>

CloseFile ==
    /\ proc.at = "write"
    /\ file' = [rows |-> file.rows \o rows, torn |-> FALSE]
    /\ proc' = Off /\ Forget
    /\ UNCHANGED <<saved, started, exports, report, reader, loaded>>

\* The command is killed, or the database fails it.
Die ==
    /\ proc # Off
    /\ proc' = Off /\ Forget
    /\ UNCHANGED <<saved, started, file, exports, report, reader, loaded>>

\* load_real_identity_corpus, at any time.
OpenCorpus ==
    /\ ~reader.on
    /\ reader' = LoadFrom(TRUE) /\ loaded' = NoLoad
    /\ UNCHANGED <<saved, proc, started, counts, pairs, campaign, got, rows, file, exports, report>>

\* The next line of the file, as far as it is written.
ReadRow ==
    /\ reader.on /\ reader.pos < Len(file.rows) /\ reader.seam # "junk"
    /\ reader' = [reader EXCEPT
           !.rows = Append(@, IF reader.seam = "none" THEN file.rows[reader.pos + 1] ELSE Spliced),
           !.own = IF reader.cuts = 0 THEN @ + 1 ELSE @,
           !.pos = @ + 1, !.seam = "none"]
    /\ UNCHANGED <<saved, proc, started, counts, pairs, campaign, got, rows, file, exports, report, loaded>>

\* Nothing is left to read, not even a piece of a row.
EndOfFile ==
    /\ reader.pos >= Len(file.rows) /\ reader.seam # "splice"
    /\ file.torn => reader.pos > Len(file.rows) \/ reader.seam = "junk"

EndLoad ==
    /\ reader.on /\ EndOfFile
    /\ loaded' = [rows |-> reader.rows, own |-> reader.own, cuts |-> reader.cuts]
    /\ reader' = LoadFrom(FALSE)
    /\ UNCHANGED <<saved, proc, started, counts, pairs, campaign, got, rows, file, exports, report>>

\* json.loads raises on a line that is no row, and a trainer may be killed.
LoadFails ==
    /\ reader.on
    /\ reader' = LoadFrom(FALSE)
    /\ UNCHANGED <<saved, proc, started, counts, pairs, campaign, got, rows, file, exports, report, loaded>>

Load == OpenCorpus \/ ReadRow \/ EndLoad \/ LoadFails

Command ==
    \/ FetchCounts \/ FetchPairs \/ Detect \/ WriteReport
    \/ FetchSessions \/ (\E what \in {"commands", "attempts"} : FetchOf(what))
    \/ Build \/ Flush \/ CloseFile

Next ==
    \/ \E s \in Sess : SaveSession(s)
    \/ \E kind \in {"detect", "export"} : Connect(kind)
    \/ Command \/ Die \/ Load

Spec == Init /\ [][Next]_vars

-----------------------------------------------------------------------------
(* Properties. *)

\* Type invariant: a member of a campaign has sessions, and a tier above 0.
TypeOK ==
    /\ saved \subseteq Sess /\ started \in 0 .. Commands
    /\ proc.kind \in {"off", "detect", "export"}
    /\ campaign.members \subseteq [ip : Ips, tier : Nat \ {0}, count : Nat \ {0}]
    /\ campaign.excluded \subseteq Ips
    /\ file.torn \in BOOLEAN

\* Any two members of a campaign tried the same credentials when these were
\* read, no candidate that did is left out, and no other set of credentials is
\* shared by more candidates.
MembersShareWordlist ==
    \A m \in campaign.members :
        LET same == {ip \in DOMAIN pairs : pairs[ip] = pairs[m.ip]}
        IN  /\ same = {x.ip : x \in campaign.members}
            /\ \A ip \in campaign.excluded :
                   Cardinality({x \in DOMAIN pairs : pairs[x] = pairs[ip]}) <= Cardinality(same)

\* An address that is labelled with tier t has at least t word lists of
\* sessions in the corpus, although the sessions were read after the counts.
TierIsHonest ==
    \A corpus \in exports : \A n \in DOMAIN corpus :
        corpus[n].kit # Unknown =>
            Cardinality({m \in DOMAIN corpus : corpus[m].ip = corpus[n].ip})
                >= corpus[n].kit * WordlistLen

\* Every session of a corpus has its commands and its attempts, although they
\* are read by later queries while sessions are being saved.
CorpusIsWhole ==
    \A corpus \in exports : \A n \in DOMAIN corpus :
        corpus[n].read.commands /\ corpus[n].read.attempts

\* In a corpus an identity is one block of distinct sessions with one toolkit,
\* and at least as many as asked for.
OneBlockPerIdentity ==
    \A corpus \in exports :
        /\ IsInjective([n \in DOMAIN corpus |-> corpus[n].session])
        /\ \A n \in DOMAIN corpus :
               LET own == {m \in DOMAIN corpus : corpus[m].ip = corpus[n].ip}
               IN  /\ own = Min(own) .. Max(own) /\ Cardinality(own) >= MinSessions
                   /\ \A m \in own : corpus[m].kit = corpus[n].kit

\* What the trainer loads is one export's corpus or the beginning of it, also
\* when it reads while an export writes or after one was killed.  Only an export
\* that opens the file under a load can add rows of its own, and then the
\* rows read before are such a beginning, and at most one row for each opening
\* is no row of any export.
LoadedIsPrefix ==
    /\ loaded.own = 0 \/ \E corpus \in exports : IsPrefix(SubSeq(loaded.rows, 1, loaded.own), corpus)
    /\ loaded.cuts = 0 => loaded.own = Len(loaded.rows)
    /\ Cardinality({n \in DOMAIN loaded.rows :
                       \A corpus \in exports : \A m \in DOMAIN corpus : loaded.rows[n] # corpus[m]})
           <= loaded.cuts

\* The labels of campaigns and the corpora agree with the sessions, although every
\* query has seen another state of the database.
LabelsHold == TypeOK /\ MembersShareWordlist /\ TierIsHonest /\ CorpusIsWhole /\ OneBlockPerIdentity

=============================================================================
