-------------------------- MODULE SessionEncoding --------------------------
(***************************************************************************)
(* What the model sees of a session (mirage/tokenizer, mirage/data/schema): *)
(* the normal form of a command line, the fitted vocabulary, the encoding  *)
(* in two parallel channels, and the padded batch.                         *)
(*                                                                         *)
(* A command line is the sequence of its words and a token the sequence of *)
(* words that stands for it.  Ids count from 0 as in the code.  A timing   *)
(* value is the millisecond figure it is the (monotone) logarithm of, with *)
(* a mark for noise; the deviation of a sample is abstracted to its range, *)
(* which is 0 for the same samples.                                        *)
(***************************************************************************)
EXTENDS Integers, Sequences, FiniteSets, FiniteSetsExt, SequencesExt

CONSTANTS
    Assignments, \* words that look like NAME=value
    Wrappers,    \* sudo, env, nohup, ...
    Flags,       \* words that start with a dash
    Breaks,      \* |, ;, && and the other words that end a simple command
    BaseName,    \* a word -> the token left without path, quotes and case; NoToken if nothing is
    Masked,      \* a word -> the word with URLs, addresses and numbers masked
    TopK,        \* TokenizerConfig.top_k
    MetaTopK     \* TokenizerConfig.metadata_top_k

None == -1       \* an absent time or duration
NoToken == <<>>
Blank == ""       \* a word, a session id or a banner that is not there

Specials == <<<<"<pad>">>, <<"<bos>">>, <<"<eos>">>, <<"<oov>">>, <<"<dur>">>>>
PadId == 0
BosId == 1
EosId == 2
OovId == 3
DurId == 4

\* The elements of a finite set in order, where pred[x] are the ones before x.
Ranked(pred) ==
    [n \in 1 .. Cardinality(DOMAIN pred) |-> CHOOSE x \in DOMAIN pred : Cardinality(pred[x]) = n - 1]
Ascending(S) == Ranked([x \in S |-> {y \in S : y < x}])

\* What a sequence has at the places in S, in order.
Pick(s, S) == LET places == Ascending(S) IN [n \in DOMAIN places |-> s[places[n]]]

-----------------------------------------------------------------------------
(* The normal form of a command line. *)

\* Leading assignments and wrappers go, and a wrapper's flags with the one
\* word after each that is neither a flag nor a wrapper.
StripWrappers(line) ==
    LET n == Len(line)
        flags[i \in 1 .. n + 1] ==
            IF i > n \/ line[i] \notin Flags THEN i
            ELSE IF i < n /\ line[i + 1] \notin Flags \cup Wrappers THEN flags[i + 2]
            ELSE flags[i + 1]
        start[i \in 1 .. n + 1] ==
            IF i > n THEN i
            ELSE IF line[i] \in Assignments THEN start[i + 1]
            ELSE IF line[i] \in Wrappers THEN start[flags[i + 1]]
            ELSE i
    IN  SubSeq(line, start[1], n)

HeadCommand(line) ==
    LET words == StripWrappers(line)
    IN  IF words = <<>> \/ words[1] \in Breaks THEN NoToken ELSE BaseName[words[1]]

NormalizeFull(line) ==
    LET words == Pick(line, {i \in DOMAIN line : line[i] # Blank}) IN [i \in DOMAIN words |-> Masked[words[i]]]

Normalize(mode, line) == IF mode = "command" THEN HeadCommand(line) ELSE NormalizeFull(line)

-----------------------------------------------------------------------------
(* A session, and the vocabulary fitted on some. *)

\* A session: its commands [raw, ts, off] with off from the start, the duration the close event
\* gave, the client's banner and the credentials it tried.
EffectiveDuration(s) ==
    IF s.dur # None THEN s.dur ELSE IF s.cmds # <<>> THEN Last(s.cmds).off ELSE 0

Gap(s, i) == IF i = 1 THEN 0 ELSE Max({s.cmds[i].off - s.cmds[i - 1].off, 0})

BannerToken(b) == <<"banner:", b>>
CredentialToken(a) == <<"cred:", a.user, a.cred>>

CommandTokens(mode, sessions) ==
    LET all == FlattenSeq([n \in DOMAIN sessions |->
                  [i \in DOMAIN sessions[n].cmds |-> Normalize(mode, sessions[n].cmds[i].raw)]])
    IN  Pick(all, {i \in DOMAIN all : all[i] # NoToken})
MetaTokens(s) ==
    (IF s.banner # Blank THEN <<BannerToken(s.banner)>> ELSE <<>>)
        \o [i \in DOMAIN s.auth |-> CredentialToken(s.auth[i])]

\* Counter.most_common: by count, and by first occurrence among equals.
MostCommon(tokens, k) ==
    LET count(t) == Cardinality({i \in DOMAIN tokens : tokens[i] = t})
        first(t) == Min({i \in DOMAIN tokens : tokens[i] = t})
        ranked == Ranked([u \in Range(tokens) |->
                      {t \in Range(tokens) : count(t) > count(u) \/ (count(t) = count(u) /\ first(t) < first(u))}])
    IN  SubSeq(ranked, 1, Min({k, Len(ranked)}))

Extended(vocab, tokens) == vocab \o Pick(tokens, {i \in DOMAIN tokens : tokens[i] \notin Range(vocab)})

\* math.sqrt(var) or 1.0; the configured 1.0 stays when there is no sample.
Deviation(sample) ==
    IF sample = {} \/ Max(sample) = Min(sample) THEN 1 ELSE Max(sample) - Min(sample)

Fit(cfg, sessions) ==
    LET Of(n) == {Gap(sessions[n], i) : i \in 2 .. Len(sessions[n].cmds)}
        commands == Extended(Specials, MostCommon(CommandTokens(cfg.mode, sessions), TopK))
        meta == FlattenSeq([n \in DOMAIN sessions |-> MetaTokens(sessions[n])])
        durations == {EffectiveDuration(sessions[n]) : n \in DOMAIN sessions}
    IN  [mode |-> cfg.mode, meta |-> cfg.meta,
         vocab |-> IF cfg.meta THEN Extended(commands, MostCommon(meta, MetaTopK)) ELSE commands,
         timingStd |-> Deviation(UNION {Of(n) : n \in DOMAIN sessions}),
         durationStd |-> IF cfg.meta THEN Deviation(durations) ELSE 1]

-----------------------------------------------------------------------------
(* The two channels of an encoded session. *)

IdOf(tok, t) ==
    IF t \in Range(tok.vocab) THEN (CHOOSE i \in DOMAIN tok.vocab : tok.vocab[i] = t) - 1 ELSE OovId

EncodeCommand(tok, line) ==
    LET t == Normalize(tok.mode, line) IN IF t = NoToken THEN OovId ELSE IdOf(tok, t)

\* metadata_ids: the banner and credential tokens, and <dur>.
MetadataIds(tok) ==
    {i \in 0 .. Len(tok.vocab) - 1 : tok.vocab[i + 1][1] \in {"banner:", "cred:"}} \cup {DurId}

Clean(ms) == [ms |-> ms, noisy |-> FALSE]
Zeros(n) == [i \in 1 .. n |-> Clean(0)]

\* Mutant: the length limit is not applied to the gaps.
GapsAll(s, n) == [i \in DOMAIN s.cmds |-> Clean(Gap(s, i))]

Gaps(s, n) == [i \in 1 .. n |-> Clean(Gap(s, i))]

Limit(s, maxLength) == Min({Len(s.cmds), maxLength})

\* Only the commands are cut to maxLength; what is put around them is not counted.
Encode(tok, s, maxLength) ==
    LET n == Limit(s, maxLength)
        extra == IF tok.meta THEN [i \in DOMAIN MetaTokens(s) |-> IdOf(tok, MetaTokens(s)[i])] ELSE <<>>
    IN  [ids |-> <<BosId>> \o (IF tok.meta THEN <<DurId>> ELSE <<>>) \o extra
                   \o [i \in 1 .. n |-> EncodeCommand(tok, s.cmds[i].raw)] \o <<EosId>>,
         tim |-> Zeros(1) \o (IF tok.meta THEN <<Clean(EffectiveDuration(s))>> ELSE <<>>)
                   \o Zeros(Len(extra)) \o Gaps(s, n) \o Zeros(1)]

Decode(tok, ids) ==
    LET shown == Pick(ids, {i \in DOMAIN ids : ids[i] >= Len(Specials)})
    IN  [j \in DOMAIN shown |-> tok.vocab[shown[j] + 1]]

AttentionMask(rows, width) ==
    [r \in DOMAIN rows |-> [i \in 1 .. width |-> IF i <= Len(rows[r].ids) THEN 1 ELSE 0]]

\* The collators' _pad and _pad_views: right padding to the longest row.
PadViews(rows) ==
    LET width == Max({Len(rows[r].ids) : r \in DOMAIN rows})
        Pad(s, with) == s \o [i \in 1 .. width - Len(s) |-> with]
    IN  [ids |-> [r \in DOMAIN rows |-> Pad(rows[r].ids, PadId)],
         tim |-> [r \in DOMAIN rows |-> Pad(rows[r].tim, Clean(0))],
         mask |-> AttentionMask(rows, width)]

=============================================================================
