----------------------------- MODULE Enrichment -----------------------------
(***************************************************************************)
(* The enrichment of one session document (bridge/enrich.py and            *)
(* mirage/intel): the worker loads an embedder, its tokenizer, a           *)
(* classifier and cluster centroids, each optional, and then turns every   *)
(* document into a verdict or raises.                                      *)
(*                                                                         *)
(* A training run may be writing the same directory: the tokenizer's two   *)
(* files first, the checkpoint at the end, none of them atomically.  What  *)
(* a network computes is any of its outputs; the language model answers    *)
(* anything, or fails.  A file is "none", "torn" while it is being         *)
(* written, "bad" when it never loads, or the run that wrote it.           *)
(***************************************************************************)
EXTENDS SessionEncoding

CONSTANTS
    Docs,          \* session documents to enrich, in order
    Tokenizers,    \* run -> the tokenizer it fitted
    Capacity,      \* positions of the embedder
    BridgeLength,  \* BridgeConfig.max_length
    EmbeddingDim,  \* run -> embedding_dim of the embedder it trained
    Devices,       \* what the worker may run on: "cpu", "cuda"
    ClassifierFiles, CentroidFiles, \* what may be on disk, of any age
    UseLlm         \* BridgeConfig.use_llm

\* A classifier is "none", "bad", "plain" (the features alone), a run (made with embeddings of its
\* embedder), "other" (features of another width) or "loose" (more classes than the taxonomy has);
\* centroids are "none", "bad", a run or "loose" (no rows, or more of them than ids).

\* A tokenizer begins with the special tokens (Fit); and the worker cuts a session no later
\* than the trainer did, whose embedder has more positions than that (8 in train.py).
ASSUME EnrichmentAssumption ==
    /\ DOMAIN Tokenizers = {"one", "two"}
    /\ \A r \in DOMAIN Tokenizers :
          /\ DOMAIN Tokenizers[r] = {"mode", "meta", "vocab", "timingStd", "durationStd"}
          /\ Tokenizers[r].vocab \in Seq(Range(Tokenizers[r].vocab))
          /\ Len(Tokenizers[r].vocab) >= Len(Specials)
    /\ BridgeLength \in Nat /\ Capacity \in Nat /\ BridgeLength + 3 <= Capacity
    /\ Docs \in Seq(Range(Docs))
    /\ \A n \in DOMAIN Docs :
          /\ Docs[n].start \in Int /\ Docs[n].bait \in Seq(0 .. 3) /\ Docs[n].cmds \in Seq(Range(Docs[n].cmds))
          /\ \A i \in DOMAIN Docs[n].cmds : Docs[n].cmds[i].ts \in Int

VARIABLES
    disk,    \* the artifacts: vocab, config, ckpt, classifier, centroids
    writing, \* what the training run still has to write, in order; a torn file first
    stage,   \* the worker: "boot", "config", "vocab", "classifier", "centroids", "ready"
    mem,     \* what it has loaded: model, vocab, config, classifier, centroids; and its device
    at,      \* the document it is at
    result   \* what the last document gave

evars == <<disk, writing, stage, mem, at, result>>

Runs == DOMAIN Tokenizers
Files == {"vocab", "config", "ckpt"}
NoResult == [state |-> "none"]
Raised == [state |-> "raised"]

EnrichInit ==
    /\ \E v, c, k \in {"none", "one"}, clf \in ClassifierFiles, cen \in CentroidFiles :
          disk = [vocab |-> v, config |-> c, ckpt |-> k, classifier |-> clf, centroids |-> cen]
    /\ writing \in {<<>>, <<"vocab", "config", "ckpt">>}
    /\ stage = "boot" /\ at = 1 /\ result = NoResult
    /\ \E dev \in Devices :
          mem = [model |-> "none", vocab |-> "none", config |-> "none", classifier |-> "none", centroids |-> "none", device |-> dev]

EnrichIdle ==
    /\ disk = [vocab |-> "none", config |-> "none", ckpt |-> "none", classifier |-> "none", centroids |-> "none"]
    /\ writing = <<>> /\ stage = "ready" /\ at = Len(Docs) + 1 /\ result = NoResult
    /\ mem = [model |-> "none", vocab |-> "none", config |-> "none", classifier |-> "none", centroids |-> "none", device |-> "cpu"]

-----------------------------------------------------------------------------
(* The training run beside it: CommandTokenizer.save, and the checkpoint later. *)

Truncate ==
    /\ writing # <<>> /\ disk[Head(writing)] # "torn"
    /\ disk' = [disk EXCEPT ![Head(writing)] = "torn"]
    /\ UNCHANGED <<writing, stage, mem, at, result>>

Write ==
    /\ writing # <<>> /\ disk[Head(writing)] = "torn"
    /\ disk' = [disk EXCEPT ![Head(writing)] = "two"]
    /\ writing' = Tail(writing)
    /\ UNCHANGED <<stage, mem, at, result>>

-----------------------------------------------------------------------------
(* Enricher.__init__ *)

Load(next, loaded) ==
    /\ stage' = next /\ mem' = loaded
    /\ UNCHANGED <<disk, writing, at, result>>

\* Mutant: a tokenizer that fails to load leaves the model in place.
DegradedModel == [mem EXCEPT !.vocab = "none", !.config = "none"]

\* The except branch: neither a model nor a tokenizer.
Degraded == [mem EXCEPT !.model = "none", !.vocab = "none", !.config = "none"]

TokenizerDir == disk.vocab # "none" \/ disk.config # "none"

LoadCheckpoint ==
    /\ stage = "boot"
    /\ IF disk.ckpt = "none" \/ ~TokenizerDir THEN Load("classifier", mem)
       ELSE IF disk.ckpt \notin Runs THEN Load("classifier", Degraded)
       ELSE Load("config", [mem EXCEPT !.model = disk.ckpt])

\* CommandTokenizer.load reads config.json, then vocab.json.
LoadConfig ==
    /\ stage = "config"
    /\ IF disk.config \in Runs THEN Load("vocab", [mem EXCEPT !.config = disk.config])
       ELSE Load("classifier", Degraded)

LoadVocab ==
    /\ stage = "vocab"
    /\ IF disk.vocab \in Runs THEN Load("classifier", [mem EXCEPT !.vocab = disk.vocab])
       ELSE Load("classifier", Degraded)

LoadClassifier ==
    /\ stage = "classifier"
    /\ Load("centroids", [mem EXCEPT !.classifier = IF disk.classifier = "bad" THEN "none" ELSE disk.classifier])

LoadCentroids ==
    /\ stage = "centroids"
    /\ Load("ready", [mem EXCEPT !.centroids = IF disk.centroids = "bad" THEN "none" ELSE disk.centroids])

-----------------------------------------------------------------------------
(* parse_session_document *)

\* decode_command_text: the raw input where it decodes to something, else the parsed words.
Text(c) ==
    LET words == SelectSeq(c.b64, LAMBDA w : w # Blank) IN IF words # <<>> THEN words ELSE c.parsed

\* sorted() by offset, which keeps the order of equals: the positions by how many come before.
Before(offs, i) == {j \in DOMAIN offs : offs[j] < offs[i] \/ (offs[j] = offs[i] /\ j < i)}
ByOffset(offs) ==
    [n \in DOMAIN offs |-> CHOOSE i \in DOMAIN offs : Cardinality(Before(offs, i)) = n - 1]

Following(values, order) == [i \in DOMAIN order |-> values[order[i]]]

Parse(doc) ==
    LET offs == [i \in DOMAIN doc.cmds |-> Max({0, doc.cmds[i].ts - doc.start})]
        order == ByOffset(offs)
        cmd == [i \in DOMAIN doc.cmds |-> [raw |-> Text(doc.cmds[i]), off |-> offs[i]]]
    IN  [session |-> [cmds |-> [i \in DOMAIN order |-> cmd[order[i]]], dur |-> doc.dur, banner |-> Blank, auth |-> <<>>],
         cwds |-> Following([i \in DOMAIN doc.cmds |-> doc.cmds[i].cwd], order),
         escalation |-> Max({0} \cup {doc.bait[i] : i \in DOMAIN doc.bait})]

-----------------------------------------------------------------------------
(* Enricher.enrich *)

HasModel == mem.model # "none" /\ mem.vocab # "none"

\* The tokenizer in memory: the words of one file, the settings of the other.
Loaded ==
    [Tokenizers[mem.vocab] EXCEPT !.mode = Tokenizers[mem.config].mode, !.meta = Tokenizers[mem.config].meta]

\* An id without a row in the embedding, or a position without an encoding, raises.
Embeds(s) ==
    LET ids == Encode(Loaded, s, BridgeLength).ids
    IN  /\ Len(ids) <= Capacity
        /\ \A i \in DOMAIN ids : ids[i] < Len(Tokenizers[mem.model].vocab)

\* _hash_cluster: two commands at least, one of them not blank.
HashCluster(s) ==
    IF Len(s.cmds) < 2 \/ \A i \in DOMAIN s.cmds : Range(s.cmds[i].raw) \subseteq {Blank}
    THEN "none" ELSE "payload"

\* Rows of another dimension cannot be subtracted from the embedding.
OtherDim(run) == run \in Runs /\ mem.model \in Runs /\ EmbeddingDim[run] # EmbeddingDim[mem.model]

\* _assign_cluster
Cluster(s, embedded) ==
    IF embedded /\ mem.centroids # "none" THEN "centroid" ELSE HashCluster(s)

Classes == {"automated_scanner", "script_kiddie", "manual_recon", "apt"}

\* weak_label: the first rule that applies; "persistence", "dropper" and "other" stand for the
\* three families of tool signatures it tells apart.
WeakLabel(doc, p) ==
    LET n == Len(p.session.cmds)
        automated == doc.pace = "automated"
        human == doc.pace = "human"
    IN  IF p.escalation >= 2 THEN "apt"
        ELSE IF doc.tool = "persistence" /\ n >= 5 /\ ~automated THEN "apt"
        ELSE IF doc.tool = "dropper" THEN IF automated /\ n <= 4 THEN "automated_scanner" ELSE "script_kiddie"
        ELSE IF human /\ doc.tool = "other" THEN "manual_recon"
        ELSE IF automated \/ (doc.attempts >= 3 /\ n <= 2) \/ (n = 0 /\ doc.attempts >= 1) THEN "automated_scanner"
        ELSE IF human THEN "manual_recon" ELSE "automated_scanner"

\* classify, SessionClassifier.forward: the features are a tensor of the CPU, whatever device the
\* classifier is on; and they and the embedding must have the widths it was made for.
ClassifierRefuses(embedded) ==
    \/ mem.classifier # "none" /\ mem.device = "cuda"
    \/ mem.classifier = "other"
    \/ mem.classifier \in Runs /\ (~embedded \/ OtherDim(mem.classifier))

\* A cluster without an id, or a class without a name: it depends on which is the nearest, or likeliest.
MayMissName(embedded) == mem.classifier = "loose" \/ (embedded /\ mem.centroids = "loose")

Verdicts(doc, p) == IF mem.classifier # "none" THEN Classes ELSE {WeakLabel(doc, p)}

Severities == {"low", "medium", "high", "critical"}

SeverityFromSignals(p, class) ==
    IF class = "apt" \/ p.escalation >= 2 THEN "critical"
    ELSE IF p.escalation = 1 \/ class = "script_kiddie" THEN "high"
    ELSE IF class = "manual_recon" THEN "medium"
    ELSE "low"

\* _template_actions: track the source, rotate what the bait gave away, keep the payload.
TemplateActions(p, class) ==
    1 + (IF p.escalation >= 1 THEN 1 ELSE 0) + (IF class \in {"apt", "script_kiddie"} THEN 1 ELSE 0)

Template(p, class) ==
    [by |-> "template", severity |-> SeverityFromSignals(p, class), actions |-> TemplateActions(p, class)]

Checked(severity, fallback) == IF severity \in Severities THEN severity ELSE fallback

\* summarize_session: the template, or what the language model answers; if it fails, the template.
Summaries(p, class) ==
    {Template(p, class)} \cup
    (IF UseLlm THEN {[by |-> "llm", severity |-> Checked(sev, Template(p, class).severity), actions |-> Min({k, 3})] :
                        sev \in Severities \cup {"other"}, k \in {0, 5}}
     ELSE {})

VersionRecorded(embedded) == embedded

EnrichmentResult(p, embedded, class, sum) ==
    [state |-> "enriched", class |-> class, cwds |-> p.cwds, cmds |-> p.session.cmds,
     embedding |-> embedded, version |-> VersionRecorded(embedded), trajectory |-> embedded,
     cluster |-> Cluster(p.session, embedded), summary |-> sum,
     source |-> IF mem.classifier # "none" THEN "model" ELSE "weak_label"]

\* The document at hand: one call of enrich.
Enrich ==
    /\ stage = "ready" /\ at <= Len(Docs)
    /\ LET p == Parse(Docs[at])
           embedded == HasModel /\ p.session.cmds # <<>>
       IN  IF ClassifierRefuses(embedded) \/ (embedded /\ (OtherDim(mem.centroids) \/ ~Embeds(p.session)))
           THEN result' = Raised
           ELSE \/ MayMissName(embedded) /\ result' = Raised
                \/ \E class \in Verdicts(Docs[at], p) : \E sum \in Summaries(p, class) :
                      result' = EnrichmentResult(p, embedded, class, sum)
    /\ at' = at + 1
    /\ UNCHANGED <<disk, writing, stage, mem>>

-----------------------------------------------------------------------------
Enricher == LoadCheckpoint \/ LoadConfig \/ LoadVocab \/ LoadClassifier \/ LoadCentroids \/ Enrich

EnrichNext == Enricher \/ Truncate \/ Write

EnrichSpec == EnrichInit /\ [][EnrichNext]_evars

-----------------------------------------------------------------------------
(* Properties *)

Done == result.state = "enriched"
Doc == Docs[at - 1]

\* The type of the state: nothing torn is ever in memory.
EnrichTypeOK ==
    /\ stage \in {"boot", "config", "vocab", "classifier", "centroids", "ready"}
    /\ at \in 1 .. Len(Docs) + 1
    /\ \A f \in {"model", "vocab", "config"} : mem[f] \in Runs \cup {"none"}
    /\ mem.classifier # "bad" /\ mem.centroids # "bad"
    /\ result.state \in {"none", "enriched", "raised"}

\* However the files change while the worker loads them, it ends with a model and a whole
\* tokenizer or with neither.
ModelIsWhole ==
    stage \in {"classifier", "centroids", "ready"} =>
        (mem.model = "none" <=> mem.vocab = "none") /\ (mem.model = "none" <=> mem.config = "none")

\* The embedding, its version and its trajectory are written together, and a cluster of the
\* centroids only with them.
EmbeddingAgrees ==
    Done => /\ result.version = result.embedding /\ result.trajectory = result.embedding
            /\ (result.cluster = "centroid" => result.embedding)
            /\ (result.embedding => Parse(Doc).session.cmds # <<>>)

\* A worker on the CPU whose model, tokenizer, classifier and centroids come from one training
\* run raises on no document, unless the classifier wants an embedding the session cannot have;
\* and on a session without commands nothing but the classifier raises.
RaisesOnlyOnMismatch ==
    result.state = "raised" =>
        \/ mem.classifier \in {"other", "loose"}
        \/ mem.classifier # "none" /\ mem.device = "cuda"
        \/ mem.classifier \in Runs /\ (mem.model = "none" \/ Doc.cmds = <<>> \/ OtherDim(mem.classifier))
        \/ /\ mem.model # "none" /\ Doc.cmds # <<>>
           /\ \/ mem.model # mem.vocab \/ mem.model # mem.config
              \/ mem.centroids = "loose" \/ OtherDim(mem.centroids)

\* Each command of the verdict's session carries the working directory it was run in.
AnnotationsFollow ==
    Done => /\ Len(result.cwds) = Len(Doc.cmds)
            /\ \A i \in DOMAIN result.cwds : \E k \in DOMAIN Doc.cmds :
                  /\ Doc.cmds[k].cwd = result.cwds[i] /\ Text(Doc.cmds[k]) = result.cmds[i].raw
                  /\ Max({0, Doc.cmds[k].ts - Doc.start}) = result.cmds[i].off

\* Taking bait is never played down where the honeypot itself judges: copied bait is critical
\* whatever the classifier says, and by the heuristics it is an apt; read bait is high at least.
BaitIsSevere ==
    Done => LET level == Max({0} \cup {Doc.bait[i] : i \in DOMAIN Doc.bait})
            IN  /\ (level >= 2 /\ result.source = "weak_label") => result.class = "apt"
                /\ result.summary.by = "template" =>
                      /\ level >= 2 => result.summary.severity = "critical"
                      /\ level >= 1 => result.summary.severity \in {"high", "critical"}

\* What the language model answers cannot put an unknown severity or a long list of actions
\* into the record.
SummaryIsBounded == Done => result.summary.severity \in Severities /\ result.summary.actions <= 3

\* Whatever artifacts the worker found, whole, torn, stale or missing, and whatever
\* the models answer: what it writes about a session is consistent.
EnrichmentSound ==
    /\ EnrichTypeOK /\ ModelIsWhole /\ EmbeddingAgrees /\ RaisesOnlyOnMismatch
    /\ AnnotationsFollow /\ BaitIsSevere /\ SummaryIsBounded

=============================================================================
