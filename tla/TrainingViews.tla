--------------------------- MODULE TrainingViews ---------------------------
(***************************************************************************)
(* From log files to the batches of the two contrastive trainers: the      *)
(* loader groups the events of each file into sessions, the tokenizer is   *)
(* fitted on some and encodes all, and a collator augments a batch example *)
(* by example and pads it.                                                 *)
(*                                                                         *)
(* The lines of a log come in any order and a file may end anywhere: the   *)
(* sensors' clocks, their buffers and log rotation decide.  What a seeded  *)
(* generator draws is a choice among the values it can give.               *)
(***************************************************************************)
EXTENDS SessionEncoding

CONSTANTS
    Events,      \* the log lines: [sid, kind, ts, raw, dur]; sid Blank stands for a line that is skipped,
                 \* kind "broken" for one whose time stamp does not parse or that is no JSON object
    PerMs,       \* units of a time stamp in a millisecond: 1000
    Millis(_),   \* int(delta.total_seconds() * 1000.0), of a span in those units
    BaitOf,      \* a word -> the bait types whose pattern it matches
    Corpora,     \* identity corpora (reid/data.py, reid/real_data.py): sequences of sessions
    Configs,     \* collator -> the tokenizer configurations it is used with: [mode, meta]
    RowsPerBatch, \* the trainers' batch_size; the batch at hand is the first of the epoch
    MinSessions, \* sessions the embedding trainer asks for: 4 in train()
    MinCommands, \* DataLoader.min_commands
    MaxLength,   \* the trainers' max_length
    Headroom,    \* positions the embedder has beyond max_length: 8 in the trainers
    MinLength,   \* min_length of both augmenters
    Window,      \* ReIDAugmentConfig.shuffle_window
    MaxFiles     \* bound: files the lines are spread over

\* A Session, as far as the tokenizer looks at it.
IsSession(s) ==
    /\ s.cmds \in Seq(Range(s.cmds)) /\ s.auth \in Seq(Range(s.auth)) /\ s.dur \in Int
    /\ \A i \in DOMAIN s.cmds : s.cmds[i].off \in Int /\ s.cmds[i].raw \in Seq(Range(s.cmds[i].raw))

Spans == {d \in {e.ts - f.ts : e, f \in Events} : d > 0}

\* The product of floats is cut off, and may fall short of a whole millisecond (1.001 s gives
\* 1000 ms): the offset is less than the span by one millisecond at most, and a longer span
\* has no smaller one.
ASSUME MillisAssumption ==
    /\ PerMs \in Nat \ {0}
    /\ \A d \in Spans : Millis(d) \in Nat /\ PerMs * Millis(d) <= d /\ d <= PerMs * Millis(d) + PerMs
    /\ \A c, d \in Spans : c <= d => Millis(c) <= Millis(d)

ASSUME ViewsAssumption ==
    /\ MinSessions \in Nat /\ MinCommands \in Nat /\ MaxLength \in Nat /\ Headroom \in Nat
    /\ MinLength \in Nat \ {0} /\ RowsPerBatch \in Nat \ {0} /\ Window \in Nat /\ MaxFiles \in Nat \ {0}
    /\ TopK \in Nat /\ MetaTopK \in Nat /\ IsFiniteSet(Events)
    /\ \A e \in Events : e.ts \in Int /\ e.dur \in Int /\ e.raw \in Seq(Range(e.raw))
    /\ \A corpus \in Corpora : corpus \in Seq(Range(corpus)) /\ \A n \in DOMAIN corpus : IsSession(corpus[n])

VARIABLES
    phase,     \* "read", "failed", "fit", "encode", "augment", "done"
    collator,  \* "contrastive" for a log, "reid" for an identity corpus
    unread,    \* lines not yet read
    acc,       \* accumulators of the file at hand, in the order their sessions were met
    files,     \* files ended so far
    sessions,  \* sessions loaded so far
    tok,       \* the fitted tokenizer, NoTok before
    examples,  \* the encoded sessions
    row,       \* the example being augmented, as [ids, tim], with the stage it is at
    rows,      \* the augmented examples of the batch
    padded     \* the padded batch, NoBatch before

data == <<collator, unread, acc, files, sessions, tok, examples>>
tvars == <<phase, data, row, rows, padded>>

NoTok == [vocab |-> <<>>]
NoBatch == [ids |-> <<>>, tim |-> <<>>, mask |-> <<>>]
NoRow == [stage |-> "none", ids |-> <<>>, tim |-> <<>>]

\* A log without a line that cannot be read.
Readable == {e \in Events : e.kind # "broken"}

ViewsInit ==
    /\ acc = <<>> /\ files = 0 /\ tok = NoTok /\ examples = <<>>
    /\ row = NoRow /\ rows = <<>> /\ padded = NoBatch
    /\ \/ phase = "read" /\ collator = "contrastive" /\ unread \in {Events, Readable} /\ sessions = <<>>
       \/ phase = "fit" /\ collator = "reid" /\ unread = {} /\ sessions \in Corpora

ViewsIdle ==
    /\ phase = "done" /\ collator = "contrastive" /\ unread = {} /\ acc = <<>> /\ files = 0
    /\ sessions = <<>> /\ tok = NoTok /\ examples = <<>> /\ row = NoRow /\ rows = <<>> /\ padded = NoBatch

-----------------------------------------------------------------------------
(* DataLoader *)

\* Mutant: the start is the first stamp read, not the earliest.
ObserveStartFirst(start, ts) == IF start = None THEN ts ELSE start

ObserveStart(start, ts) == IF ts # None /\ (start = None \/ ts < start) THEN ts ELSE start

StartAfter(a, e) ==
    IF e.kind = "connect" /\ e.ts # None THEN e.ts ELSE ObserveStart(a.start, e.ts)

Observe(a, e) ==
    [a EXCEPT !.start = StartAfter(a, e),
              !.evs = IF e.kind = "command" /\ e.ts # None /\ e.raw # <<>>
                      THEN Append(@, [ts |-> e.ts, raw |-> e.raw]) ELSE @,
              !.dur = IF e.kind = "closed" /\ e.dur # None THEN e.dur ELSE @]

Fresh(sid) == [sid |-> sid, start |-> None, evs |-> <<>>, dur |-> None]

Accumulate(e) ==
    IF \E n \in DOMAIN acc : acc[n].sid = e.sid
    THEN [n \in DOMAIN acc |-> IF acc[n].sid = e.sid THEN Observe(acc[n], e) ELSE acc[n]]
    ELSE Append(acc, Observe(Fresh(e.sid), e))

\* One line: one that is no JSON, or that names no session, is skipped.
ReadLine(e) ==
    /\ phase = "read" /\ e \in unread \cap Readable
    /\ unread' = unread \ {e}
    /\ acc' = IF e.sid = Blank THEN acc ELSE Accumulate(e)
    /\ UNCHANGED <<phase, collator, files, sessions, tok, examples, row, rows, padded>>

\* Nothing catches what else a line or a file may raise (a time stamp that does not parse, a
\* line that is no object, a .gz that was cut, a failing read): the load is given up, and with
\* it the sessions of the files before.
LoadAborts ==
    /\ phase = "read" /\ phase' = "failed"
    /\ acc' = <<>> /\ sessions' = <<>>
    /\ UNCHANGED <<collator, unread, files, tok, examples, row, rows, padded>>

\* sorted() by timestamp, which keeps the order of equals.
InTimeOrder(evs) ==
    LET ranked == Ranked([j \in DOMAIN evs |->
                      {i \in DOMAIN evs : evs[i].ts < evs[j].ts \/ (evs[i].ts = evs[j].ts /\ i < j)}])
    IN  [i \in DOMAIN evs |-> evs[ranked[i]]]

\* BaitDetector.detect: the first command that matches, for each bait type.
Detect(cmds) ==
    LET touches(t) == {i \in DOMAIN cmds : \E w \in Range(cmds[i].raw) : t \in BaitOf[w]}
        types == UNION {BaitOf[w] : w \in UNION {Range(cmds[i].raw) : i \in DOMAIN cmds}}
    IN  {[type |-> t, ts |-> cmds[Min(touches(t))].ts] : t \in types}

\* ms_offset, clamped below at zero.
Offset(d) == IF d > 0 THEN Millis(d) ELSE 0

Finalize(a) ==
    LET evs == InTimeOrder(a.evs)
        cmds == [i \in DOMAIN evs |-> [ts |-> evs[i].ts, raw |-> evs[i].raw,
                                      off |-> Offset(evs[i].ts - a.start)]]
    IN  [sid |-> a.sid, cmds |-> cmds, dur |-> a.dur, banner |-> Blank, auth |-> <<>>,
         bait |-> Detect(cmds)]

Kept(a) == Len(a.evs) >= MinCommands /\ a.start # None

\* The end of a file: its sessions are built from its own lines only.
EndFile ==
    /\ phase = "read" /\ acc # <<>>
    /\ unread = {} \/ files + 1 < MaxFiles
    /\ LET kept == Pick(acc, {n \in DOMAIN acc : Kept(acc[n])})
       IN  sessions' = sessions \o [n \in DOMAIN kept |-> Finalize(kept[n])]
    /\ acc' = <<>> /\ files' = files + 1
    /\ phase' = IF unread = {} THEN "fit" ELSE "read"
    /\ UNCHANGED <<collator, unread, tok, examples, row, rows, padded>>

-----------------------------------------------------------------------------
(* Tokenizer and datasets *)

\* The tokenizer is fitted on the sessions that are not held out.
FitTokenizer ==
    /\ phase = "fit" /\ Len(sessions) >= (IF collator = "reid" THEN 1 ELSE MinSessions)
    /\ \E cfg \in Configs[collator], held \in {0, 1} :
          tok' = Fit(cfg, SubSeq(sessions, 1, Max({1, Len(sessions) - held})))
    /\ phase' = "encode"
    /\ UNCHANGED <<collator, unread, acc, files, sessions, examples, row, rows, padded>>

\* SessionDataset and ReIDDataset encode every session.
EncodeAll ==
    /\ phase = "encode"
    /\ examples' = [n \in DOMAIN sessions |-> Encode(tok, sessions[n], MaxLength)]
    /\ phase' = "augment"
    /\ UNCHANGED <<collator, unread, acc, files, sessions, tok, row, rows, padded>>

-----------------------------------------------------------------------------
(* Augmentation: each stage is applied or not. *)

FrameIds == {PadId, BosId, EosId}

\* ReIDCollator and PKCollator: the metadata are anchors too.
ReidProtected == FrameIds \cup MetadataIds(tok)

Protected == IF collator = "reid" THEN ReidProtected ELSE FrameIds

Positions(ids) == {i \in DOMAIN ids : ids[i] \notin Protected}
Without(s, D) == Pick(s, DOMAIN s \ D)

At(stage) == phase = "augment" /\ row.stage = stage
Becomes(stage, ids, tim) ==
    /\ row' = [stage |-> stage, ids |-> ids, tim |-> tim]
    /\ UNCHANGED <<phase, data, rows, padded>>
Skip(stage, next) == At(stage) /\ Becomes(next, row.ids, row.tim)

InBatch == Min({RowsPerBatch, Len(examples)})

NextExample ==
    /\ At("none") /\ Len(rows) < InBatch
    /\ LET ex == examples[Len(rows) + 1]
       IN  Becomes(IF collator = "reid" THEN "drop" ELSE "crop", ex.ids, ex.tim)

\* _temporal_crop: a window of the length the configuration keeps (crop_min_frac is 0.6).
TemporalCrop ==
    /\ At("crop")
    /\ LET n == Len(row.ids)
           keep == Max({MinLength, (6 * n + 5) \div 10})
       IN  \E start \in 1 .. (IF keep >= n THEN 1 ELSE n - keep + 1) :
              LET end == IF keep >= n THEN n ELSE start + keep - 1
              IN  Becomes("dropout", SubSeq(row.ids, start, end), SubSeq(row.tim, start, end))

TooShort(n) == n < MinLength

\* SessionAugmenter._command_dropout
CommandDropout ==
    /\ At("dropout")
    /\ LET n == Len(row.ids)
       IN  \E D \in SUBSET Positions(row.ids) :
              /\ \A i \in D : n - Cardinality({j \in 1 .. i - 1 : j \notin D}) > MinLength
              /\ IF TooShort(n - Cardinality(D)) THEN Becomes("mask", row.ids, row.tim)
                 ELSE Becomes("mask", Without(row.ids, D), Without(row.tim, D))

\* _span_mask: a span of at most a fifth of the row, protected ids excepted.
SpanMask ==
    /\ At("mask")
    /\ LET n == Len(row.ids)
       IN  \E span \in 1 .. Max({1, (2 * n + 5) \div 10}), start \in 1 .. n :
              /\ start + span - 1 <= n
              /\ Becomes("jitter",
                         [i \in 1 .. n |->
                             IF span < n /\ i \in start .. start + span - 1 /\ row.ids[i] \notin Protected
                             THEN OovId ELSE row.ids[i]], row.tim)

Noise(t) == [t EXCEPT !.noisy = TRUE]

\* SessionAugmenter._timing_jitter moves every timing value.
TimingJitter ==
    /\ At("jitter")
    /\ Becomes("ready", row.ids, [i \in DOMAIN row.tim |-> Noise(row.tim[i])])

\* What ReIDAugmenter._command_dropout asks before it drops position i, having dropped D before.
RoomFor(ids, D, i) ==
    /\ Cardinality(Positions(ids) \ {j \in D : j < i}) > 1
    /\ Cardinality({j \in 1 .. i - 1 : j \notin D}) + (Len(ids) - i + 1) > MinLength

ReidDropout ==
    /\ At("drop")
    /\ \E D \in SUBSET Positions(row.ids) :
          /\ \A i \in D : RoomFor(row.ids, D, i)
          /\ IF TooShort(Len(row.ids) - Cardinality(D)) THEN Becomes("reorder", row.ids, row.tim)
             ELSE Becomes("reorder", Without(row.ids, D), Without(row.tim, D))

\* The ranks sorted by rank + uniform(-window, window): two ranks trade places only when they
\* are less than two windows apart.
Orders(n) ==
    {o \in Bijection(1 .. n, 1 .. n) : Window > 0 => \A i, j \in 1 .. n : i < j => o[i] - o[j] < 2 * Window}

Moved(s, slots, order) ==
    [i \in DOMAIN s |-> IF i \in Range(slots)
                        THEN s[slots[order[CHOOSE k \in DOMAIN slots : slots[k] = i]]] ELSE s[i]]

\* Mutant: the ids move and the timing stays.
ReorderIds ==
    /\ At("reorder")
    /\ LET slots == Ascending(Positions(row.ids))
       IN  \E order \in Orders(Len(slots)) : Becomes("reid_jitter", Moved(row.ids, slots, order), row.tim)

\* ReIDAugmenter._reorder
Reorder ==
    /\ At("reorder")
    /\ LET slots == Ascending(Positions(row.ids))
       IN  \E order \in Orders(Len(slots)) :
              Becomes("reid_jitter", Moved(row.ids, slots, order), Moved(row.tim, slots, order))

\* ReIDAugmenter._timing_jitter
ReidJitter ==
    /\ At("reid_jitter")
    /\ Becomes("ready", row.ids,
               [i \in DOMAIN row.tim |-> IF i \in Positions(row.ids) THEN Noise(row.tim[i]) ELSE row.tim[i]])

SkipStage ==
    \/ Skip("crop", "dropout") \/ Skip("dropout", "mask") \/ Skip("mask", "jitter") \/ Skip("jitter", "ready")
    \/ Skip("drop", "reorder") \/ Skip("reorder", "reid_jitter") \/ Skip("reid_jitter", "ready")

\* The view of one example is complete.
AppendRow ==
    /\ At("ready")
    /\ rows' = Append(rows, [ids |-> row.ids, tim |-> row.tim])
    /\ row' = NoRow
    /\ UNCHANGED <<phase, data, padded>>

Collate ==
    /\ At("none") /\ Len(rows) = InBatch
    /\ padded' = PadViews(rows)
    /\ phase' = "done"
    /\ UNCHANGED <<data, row, rows>>

-----------------------------------------------------------------------------
Augment ==
    \/ NextExample \/ TemporalCrop \/ CommandDropout \/ SpanMask \/ TimingJitter
    \/ ReidDropout \/ Reorder \/ ReidJitter \/ SkipStage \/ AppendRow

ViewsNext ==
    \/ \E e \in Events : ReadLine(e)
    \/ LoadAborts \/ EndFile \/ FitTokenizer \/ EncodeAll \/ Augment \/ Collate

ViewsSpec == ViewsInit /\ [][ViewsNext]_tvars

-----------------------------------------------------------------------------
(* Properties *)

Ended == phase \notin {"read", "failed", "fit", "encode"}

\* The type of the state, and the stages a row goes through.
ViewsTypeOK ==
    /\ phase \in {"read", "failed", "fit", "encode", "augment", "done"}
    /\ collator \in {"contrastive", "reid"}
    /\ unread \subseteq Events /\ files \in 0 .. MaxFiles
    /\ Len(rows) <= InBatch /\ (row.stage # "none" => Len(rows) < InBatch)
    /\ row.stage \in {"none", "ready"} \cup (IF collator = "reid" THEN {"drop", "reorder", "reid_jitter"}
                                            ELSE {"crop", "dropout", "mask", "jitter"})

\* Whatever the order of the lines, the commands of a loaded session are in the order of
\* their offsets, none before the start, and each bait is stamped with its first touch.
LoadedInOrder ==
    collator = "contrastive" =>
    \A n \in DOMAIN sessions :
        LET s == sessions[n]
        IN  /\ \A i, j \in DOMAIN s.cmds : i < j => 0 <= s.cmds[i].off /\ s.cmds[i].off <= s.cmds[j].off
            /\ \A b \in s.bait, i \in DOMAIN s.cmds :
                  (\E w \in Range(s.cmds[i].raw) : b.type \in BaitOf[w]) => b.ts <= s.cmds[i].ts

IsCommand(e) == e.kind = "command" /\ e.ts # None /\ e.raw # <<>>

\* A command line read is in the accumulator or in a session of its own id: only a session
\* with fewer than MinCommands commands in a file is dropped, or the whole load is given up.
NoCommandLost ==
    collator = "contrastive" /\ phase \notin {"failed", "done"} =>
    \A sid \in {e.sid : e \in Events} \ {Blank} :
        LET read == Cardinality({e \in Events \ unread : e.sid = sid /\ IsCommand(e)})
            held == UNION {{n} \X DOMAIN acc[n].evs : n \in {m \in DOMAIN acc : acc[m].sid = sid}}
            built == UNION {{n} \X DOMAIN sessions[n].cmds : n \in {m \in DOMAIN sessions : sessions[m].sid = sid}}
        IN  read - Cardinality(held) - Cardinality(built) \in 0 .. files * Max({0, MinCommands - 1})

Units(c) == PerMs * c.off

\* The pauses between commands survive: without a connect line to set the start, the offsets
\* of a session differ by what its time stamps differ by, to within one millisecond.
PausesSurvive ==
    collator = "contrastive" =>
    \A n \in DOMAIN sessions :
        LET s == sessions[n]
        IN  (\A e \in Events : e.sid = s.sid => e.kind # "connect") =>
            \A i, j \in DOMAIN s.cmds :
                (Units(s.cmds[j]) - Units(s.cmds[i])) - (s.cmds[j].ts - s.cmds[i].ts) \in -PerMs .. PerMs

\* head_command against its description: what is stripped leaves nothing to strip, and a line
\* without flags is reduced to its first word that is no assignment and no wrapper.
HeadIsCommand ==
    \A n \in DOMAIN sessions : \A i \in DOMAIN sessions[n].cmds :
        LET line == sessions[n].cmds[i].raw
            plain == {k \in DOMAIN line : line[k] \notin Assignments \cup Wrappers}
        IN  /\ StripWrappers(StripWrappers(line)) = StripWrappers(line)
            /\ (Range(line) \cap Flags = {} /\ plain # {} /\ line[Min(plain)] \notin Breaks)
                  => HeadCommand(line) = BaseName[line[Min(plain)]]

\* An encoded session decodes to its banner, credentials and first MaxLength commands, less
\* those the vocabulary does not hold, and every id is one the embedder has a row for.
EncodingFaithful ==
    \A n \in DOMAIN examples :
        LET s == sessions[n]
            meta == IF tok.meta THEN MetaTokens(s) ELSE <<>>
            told == meta \o [i \in 1 .. Limit(s, MaxLength) |-> Normalize(tok.mode, s.cmds[i].raw)]
        IN  /\ \A i \in DOMAIN examples[n].ids : examples[n].ids[i] \in 0 .. Len(tok.vocab) - 1
            /\ Decode(tok, examples[n].ids) =
                  Pick(told, {i \in DOMAIN told : told[i] \in Range(tok.vocab) \ Range(Specials)})

\* The token and the timing channel stay the same length through encoding and every
\* augmentation: the augmenters index one by the positions of the other.
ChannelsAligned ==
    /\ \A n \in DOMAIN examples : Len(examples[n].ids) = Len(examples[n].tim)
    /\ Len(row.ids) = Len(row.tim)
    /\ \A r \in DOMAIN rows : Len(rows[r].ids) = Len(rows[r].tim)

\* The headroom of the embedder's positional encoding is enough for the frame, the duration,
\* the banner and the few credentials that fit it.
FitsPositions ==
    \A n \in DOMAIN examples :
        Len(sessions[n].auth) <= Headroom - 4 => Len(examples[n].ids) <= MaxLength + Headroom

\* What the collator divides its jitter by, unchecked, is never zero.
ScaleIsUsable == Ended /\ sessions # <<>> => tok.timingStd > 0 /\ tok.durationStd > 0

Example == examples[Len(rows) + 1]
InRow == row.stage # "none"

\* A re-identification view keeps the duration, the known banner and the known credentials
\* in front, in place and without noise: they are the identity.
AnchorsStay ==
    collator = "reid" /\ InRow =>
    LET ex == Example
        anchor(i) == ex.ids[i] \in {BosId} \cup MetadataIds(tok)
    IN  /\ Last(row.ids) = EosId
        /\ \A i \in DOMAIN ex.ids :
              (\A k \in 1 .. i : anchor(k)) =>
                  i \in DOMAIN row.ids /\ row.ids[i] = ex.ids[i] /\ row.tim[i] = ex.tim[i]

PairAt(r, i) == <<r.ids[i], r.tim[i].ms>>
Count(r, p) == Cardinality({i \in DOMAIN r.ids : PairAt(r, i) = p})

\* A command keeps its own pause: dropping, cropping and reordering never pair an id
\* with the timing of another position, and invent none.
PairsTravel ==
    InRow => \A i \in DOMAIN row.ids :
        row.ids[i] # OovId => Count(row, PairAt(row, i)) <= Count(Example, PairAt(row, i))

Rank(r, p, S) == Cardinality({i \in S : i < Min({k \in S : PairAt(r, k) = p})})

\* The reordering is local: among the commands that are left, one moves by less than two
\* windows (where all its pairs are distinct, so that a move can be told).
MovesAreLocal ==
    collator = "reid" /\ InRow /\ Window > 0 =>
    LET ex == Example
        left == Positions(row.ids)
        pairs == {PairAt(row, i) : i \in left}
        of == {i \in Positions(ex.ids) : PairAt(ex, i) \in pairs}
    IN  Cardinality(pairs) = Cardinality(of) =>
        \A p \in pairs : Rank(row, p, left) - Rank(ex, p, of) \in (1 - 2 * Window) .. (2 * Window - 1)

\* No view is cut below the minimum, and a re-identification view keeps a command.
ViewIsUsable ==
    InRow => /\ Len(row.ids) >= Min({MinLength, Len(Example.ids)})
             /\ (collator = "reid" /\ Positions(Example.ids) # {}) => Positions(row.ids) # {}

\* The batch attends to every position of every view and to nothing else.
PaddingIsExact ==
    \A r \in DOMAIN padded.ids :
        LET n == Len(rows[r].ids)
        IN  /\ Len(padded.ids[r]) = Len(padded.mask[r]) /\ Len(padded.tim[r]) = Len(padded.mask[r])
            /\ SubSeq(padded.ids[r], 1, n) = rows[r].ids /\ SubSeq(padded.tim[r], 1, n) = rows[r].tim
            /\ {i \in DOMAIN padded.mask[r] : padded.mask[r][i] = 1} = 1 .. n
            /\ \A i \in DOMAIN padded.mask[r] : i > n => padded.ids[r][i] = PadId

\* The loader: whatever the order of lines and the cuts between files, no command
\* is lost, and sessions have their commands, pauses and bait in order.
LoadedSound == ViewsTypeOK /\ LoadedInOrder /\ NoCommandLost /\ PausesSurvive

\* The tokenizer: an example says what its session says, in two channels of one
\* length that fit the model, with statistics that can be divided by.
EncodingSound == HeadIsCommand /\ EncodingFaithful /\ ChannelsAligned /\ FitsPositions /\ ScaleIsUsable

\* The augmenters and collators: a view keeps identity, pairing, locality and a
\* minimum of its session, and the batch attends to exactly the views.
ViewsSound == AnchorsStay /\ PairsTravel /\ MovesAreLocal /\ ViewIsUsable /\ PaddingIsExact

=============================================================================
