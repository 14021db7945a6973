----------------------------- MODULE Labelling ------------------------------
(***************************************************************************)
(* The human review of the classifier's verdicts: sample_for_labeling.py   *)
(* draws sessions into a queue for the reviewer and keeps the verdicts in  *)
(* a file of their own, label_sessions.py shows the queue and appends the  *)
(* reviewer's labels, and compute_label_agreement.py compares the two.     *)
(* The three commands share a directory and no lock; any of them may run   *)
(* while another does, and any may be killed.  One person reviews, so each *)
(* command runs at most once at a time.                                    *)
(***************************************************************************)
EXTENDS Integers, Sequences, FiniteSets, FiniteSetsExt, SequencesExt

CONSTANTS
    Reviewed,        \* sessions, numbers in the order of session_id
    AttackerClass,   \* AttackerClass[s]: the verdict the bridge gives s
    AttackerClasses, \* ATTACKER_CLASSES
    AtFirst,         \* the sessions stored at the beginning
    PerClass,        \* --per-class
    MaxSamples       \* bound on the samples drawn

ASSUME ReviewAssumption ==
    /\ Reviewed \subseteq Nat \ {0} /\ AtFirst \subseteq Reviewed
    /\ AttackerClass \in [Reviewed -> AttackerClasses] /\ IsFiniteSet(AttackerClasses)
    /\ "unsure" \notin AttackerClasses /\ PerClass \in Nat /\ MaxSamples \in Nat

VARIABLES
    stored,          \* the sessions in the database
    verdicts,        \* those of them with an attacker_class
    queue,           \* labeling_queue.jsonl
    predictions,     \* heuristic_predictions.jsonl
    gold,            \* gold_labels.jsonl: a sequence of [session, label]
    sampler,         \* sample_for_labeling.py: where it is and what it has read
    samples,         \* how often it was started
    cutOff,          \* it was killed while it wrote its files
    labeler,         \* label_sessions.py: the sessions it still has to show
    agreement        \* compute_label_agreement.py: the labels read, then the report

lvars == <<stored, verdicts, queue, predictions, gold, sampler, samples, cutOff, labeler, agreement>>

\* A file of one JSON object per session, written in the order of the keys;
\* torn: the last line is cut.
File(rows) == [rows |-> rows, torn |-> FALSE]
NoRows == File(<<>>)
Idle == [at |-> "off"]

LabelInit ==
    /\ stored = AtFirst /\ verdicts = {}
    /\ queue = NoRows /\ predictions = NoRows /\ gold = <<>>
    /\ sampler = Idle /\ samples = 0 /\ cutOff = FALSE
    /\ labeler = Idle /\ agreement = Idle

\* A sensor saves a session with its commands, in one transaction.
Store(s) ==
    /\ s \notin stored
    /\ stored' = stored \cup {s}
    /\ UNCHANGED <<verdicts, queue, predictions, gold, sampler, samples, cutOff, labeler, agreement>>

\* The bridge classifies a session, once (VerdictIsFinal of Bridge).
Enrich(s) ==
    /\ s \in stored \ verdicts
    /\ verdicts' = verdicts \cup {s}
    /\ UNCHANGED <<stored, queue, predictions, gold, sampler, samples, cutOff, labeler, agreement>>

-----------------------------------------------------------------------------
(* sample_for_labeling.py *)

\* Labels are appended with one small write each: every line is whole.
AlreadyLabeled == {gold[n].session : n \in DOMAIN gold}

SampleStart ==
    /\ sampler.at = "off" /\ samples < MaxSamples
    /\ sampler' = [at |-> "sessions", labeled |-> AlreadyLabeled]
    /\ samples' = samples + 1
    /\ UNCHANGED <<stored, verdicts, queue, predictions, gold, cutOff, labeler, agreement>>

\* One request answers with all sessions; the unclassified ones are of no use.
FetchExport ==
    /\ sampler.at = "sessions"
    /\ sampler' = [at |-> "commands", labeled |-> sampler.labeled, sessions |-> verdicts]
    /\ UNCHANGED <<stored, verdicts, queue, predictions, gold, samples, cutOff, labeler, agreement>>

\* The commands come in pages, which hold those of every session that was
\* stored when the first was asked for (FetchedOnce of ApiExport).
FetchAllCommands ==
    /\ sampler.at = "commands"
    /\ sampler' = [at |-> "merge", labeled |-> sampler.labeled, sessions |-> sampler.sessions, commands |-> stored]
    /\ UNCHANGED <<stored, verdicts, queue, predictions, gold, samples, cutOff, labeler, agreement>>

\* Up to PerClass of the unlabelled sessions of each class, any of them.
StratifiedSample ==
    LET of(c) == {s \in sampler.sessions \ sampler.labeled : AttackerClass[s] = c}
        enough(c) == IF Cardinality(of(c)) < PerClass THEN Cardinality(of(c)) ELSE PerClass
    IN  {S \in SUBSET sampler.sessions :
            /\ S \cap sampler.labeled = {}
            /\ \A c \in AttackerClasses : Cardinality(S \cap of(c)) = enough(c)}

\* The reviewer's view of a session has its commands, none if none were read.
BuildQueueRecord(s) == [commands |-> s \in sampler.commands]

\* The sample on top of what is queued, without what had been labelled.
MergedQueue(sampled) ==
    [s \in ((DOMAIN queue.rows) \cup sampled) \ sampler.labeled |->
        IF s \in sampled THEN BuildQueueRecord(s) ELSE queue.rows[s]]

\* Mutant: labelled sessions are dropped from the predictions as well.
MergedPredictionsPruned(sampled) ==
    [s \in ((DOMAIN predictions.rows) \cup sampled) \ sampler.labeled |-> AttackerClass[s]]

\* Predictions stay when their session has been labelled.
MergedPredictions(sampled) ==
    [s \in (DOMAIN predictions.rows) \cup sampled |->
        IF s \in sampled THEN AttackerClass[s] ELSE predictions.rows[s]]

\* Both files are read, which fails when either is torn, and the queue is
\* opened for writing, which empties it.
Merge ==
    /\ sampler.at = "merge"
    /\ ~queue.torn /\ ~predictions.torn
    /\ \E sampled \in StratifiedSample :
           sampler' = [at |-> "queue", queue |-> MergedQueue(sampled), predictions |-> MergedPredictions(sampled)]
    /\ queue' = NoRows
    /\ UNCHANGED <<stored, verdicts, predictions, gold, samples, cutOff, labeler, agreement>>

\* What a reader may find of f while write_jsonl_sorted writes rows to it: the
\* first of them, not fewer than before, and perhaps a part of the next.
Growing(f, rows) ==
    {[rows |-> Restrict(rows, first), torn |-> cut] :
        first \in {P \in {{s \in DOMAIN rows : s <= n} : n \in (DOMAIN rows) \cup {0}} :
                     DOMAIN f.rows \subseteq P /\ P # DOMAIN rows},
        cut \in BOOLEAN}

FlushQueue ==
    /\ sampler.at = "queue"
    /\ queue' \in Growing(queue, sampler.queue)
    /\ UNCHANGED <<stored, verdicts, predictions, gold, sampler, samples, cutOff, labeler, agreement>>

\* The queue is whole and the predictions are opened, which empties them.
CloseQueue ==
    /\ sampler.at = "queue"
    /\ queue' = File(sampler.queue)
    /\ predictions' = NoRows
    /\ sampler' = [at |-> "predictions", predictions |-> sampler.predictions]
    /\ UNCHANGED <<stored, verdicts, gold, samples, cutOff, labeler, agreement>>

FlushPredictions ==
    /\ sampler.at = "predictions"
    /\ predictions' \in Growing(predictions, sampler.predictions)
    /\ UNCHANGED <<stored, verdicts, queue, gold, sampler, samples, cutOff, labeler, agreement>>

ClosePredictions ==
    /\ sampler.at = "predictions"
    /\ predictions' = File(sampler.predictions)
    /\ sampler' = Idle
    /\ UNCHANGED <<stored, verdicts, queue, gold, samples, cutOff, labeler, agreement>>

\* A request fails, a file does not parse, or the command is killed.
SamplerDies ==
    /\ sampler.at # "off"
    /\ cutOff' = (cutOff \/ sampler.at \in {"queue", "predictions"})
    /\ sampler' = Idle
    /\ UNCHANGED <<stored, verdicts, queue, predictions, gold, samples, labeler, agreement>>

-----------------------------------------------------------------------------
(* label_sessions.py *)

\* What is queued and has no label when the command starts.
Remaining == DOMAIN queue.rows \ AlreadyLabeled

LabelStart ==
    /\ labeler.at = "off" /\ ~queue.torn
    /\ labeler' = [at |-> "label", remaining |-> Remaining]
    /\ UNCHANGED <<stored, verdicts, queue, predictions, gold, sampler, samples, cutOff, agreement>>

\* The next session, in the order of the file, is shown.  The reviewer gives it
\* a class or is unsure, or skips it.
PromptLabel ==
    /\ labeler.at = "label" /\ labeler.remaining # {}
    /\ LET s == Min(labeler.remaining)
       IN  /\ labeler' = [labeler EXCEPT !.remaining = @ \ {s}]
           /\ \/ gold' = gold
              \/ \E c \in AttackerClasses \cup {"unsure"} : gold' = Append(gold, [session |-> s, label |-> c])
    /\ UNCHANGED <<stored, verdicts, queue, predictions, sampler, samples, cutOff, agreement>>

\* All sessions were shown, the reviewer quits, or the command is killed.
LabelerEnds ==
    /\ labeler.at = "label"
    /\ labeler' = Idle
    /\ UNCHANGED <<stored, verdicts, queue, predictions, gold, sampler, samples, cutOff, agreement>>

-----------------------------------------------------------------------------
(* compute_label_agreement.py *)

ReadGold ==
    /\ agreement.at # "join" /\ gold # <<>>
    /\ agreement' = [at |-> "join", gold |-> gold]
    /\ UNCHANGED <<stored, verdicts, queue, predictions, gold, sampler, samples, cutOff, labeler>>

\* The pairs of a definite label and a prediction, and what is left out.
JoinLabels(labels, predicted) ==
    LET unsure == {n \in DOMAIN labels : labels[n].label = "unsure"}
        unmatched == {n \in (DOMAIN labels) \ unsure : labels[n].session \notin DOMAIN predicted}
    IN  [pairs |-> [n \in (DOMAIN labels) \ (unsure \cup unmatched) |->
                       [human |-> labels[n].label, heuristic |-> predicted[labels[n].session]]],
         unsure |-> Cardinality(unsure), unmatched |-> Cardinality(unmatched)]

ConfusionMatrix(pairs) ==
    [t \in AttackerClasses |-> [p \in AttackerClasses |->
        Cardinality({n \in DOMAIN pairs : pairs[n] = [human |-> t, heuristic |-> p]})]]

\* Sums over a confusion matrix.
RowTotal(m, t) == SumFunction([p \in AttackerClasses |-> m[t][p]])
ColTotal(m, p) == SumFunction([t \in AttackerClasses |-> m[t][p]])
Agreed(m) == SumFunction([c \in AttackerClasses |-> m[c][c]])
Total(m) == SumFunction([t \in AttackerClasses |-> RowTotal(m, t)])

\* A fraction; NaN where the code has float("nan").
NaN == [num |-> 0, den |-> 0]
Frac(n, d) == IF d = 0 THEN NaN ELSE [num |-> n, den |-> d]

\* (po - pe) / (1 - pe), both multiplied by the square of the total.
CohensKappa(m) ==
    LET n == Total(m)
        chance == SumFunction([c \in AttackerClasses |-> RowTotal(m, c) * ColTotal(m, c)])
    IN  Frac(n * Agreed(m) - chance, n * n - chance)

KappaInterpretation(k) ==
    LET reaches(percent) == 100 * k.num >= percent * k.den
    IN  CASE k = NaN -> "undefined (no data)"
          [] k # NaN /\ reaches(81) -> "almost perfect"
          [] k # NaN /\ ~reaches(81) /\ reaches(61) -> "substantial"
          [] k # NaN /\ ~reaches(61) /\ reaches(41) -> "moderate"
          [] k # NaN /\ ~reaches(41) /\ reaches(21) -> "fair"
          [] k # NaN /\ ~reaches(21) /\ reaches(1) -> "slight"
          [] OTHER -> "poor / no better than chance"

\* F1 is undefined, like a mean of it, where nothing was found.
PerClassMetrics(m) ==
    [c \in AttackerClasses |->
        [precision |-> Frac(m[c][c], ColTotal(m, c)), recall |-> Frac(m[c][c], RowTotal(m, c)),
         f1 |-> IF m[c][c] = 0 THEN NaN ELSE Frac(2 * m[c][c], ColTotal(m, c) + RowTotal(m, c)),
         support |-> RowTotal(m, c)]]

RawAccuracy(m) == Frac(Agreed(m), Total(m))

\* The predictions are read after the labels, and the report is written.
Report ==
    /\ agreement.at = "join" /\ ~predictions.torn
    /\ LET joined == JoinLabels(agreement.gold, predictions.rows)
           m == ConfusionMatrix(joined.pairs)
       IN  agreement' = [at |-> "report", total |-> Len(agreement.gold), unsure |-> joined.unsure,
                         unmatched |-> joined.unmatched, used |-> Cardinality(DOMAIN joined.pairs),
                         matrix |-> m, kappa |-> CohensKappa(m), verdict |-> KappaInterpretation(CohensKappa(m)),
                         classes |-> PerClassMetrics(m), accuracy |-> RawAccuracy(m)]
    /\ UNCHANGED <<stored, verdicts, queue, predictions, gold, sampler, samples, cutOff, labeler>>

-----------------------------------------------------------------------------
LabelNext ==
    \/ \E s \in Reviewed : Store(s) \/ Enrich(s)
    \/ SampleStart \/ FetchExport \/ FetchAllCommands \/ Merge
    \/ FlushQueue \/ CloseQueue \/ FlushPredictions \/ ClosePredictions \/ SamplerDies
    \/ LabelStart \/ PromptLabel \/ LabelerEnds
    \/ ReadGold \/ Report

LabelSpec == LabelInit /\ [][LabelNext]_lvars

-----------------------------------------------------------------------------
(* Properties. *)

\* Type invariant: labels are classes or "unsure", and only sessions with a
\* verdict are queued.
LabelTypeOK ==
    /\ verdicts \subseteq stored /\ stored \subseteq Reviewed
    /\ DOMAIN queue.rows \subseteq verdicts /\ DOMAIN predictions.rows \subseteq verdicts
    /\ \A n \in DOMAIN gold : gold[n].session \in Reviewed /\ gold[n].label \in AttackerClasses \cup {"unsure"}

\* The reviewer labels a session at most once, although a sample that began
\* before the label was given queues the session again.
LabeledOnce == IsInjective([n \in DOMAIN gold |-> gold[n].session])

\* A labelled session has its prediction: it is sampled no more, so one that is
\* lost never comes back.  Only a sample killed while it wrote its files can
\* lose one.
LabeledIsPredicted ==
    sampler.at \notin {"queue", "predictions"} /\ ~cutOff =>
        AlreadyLabeled \subseteq DOMAIN predictions.rows

\* The reviewer judges a session by all its commands, although these are
\* fetched by other requests than the sessions, while sensors save more.
QueueIsWhole == \A s \in DOMAIN queue.rows : queue.rows[s].commands

\* A report accounts for every label; kappa is 1 exactly when the two agree on
\* sessions of more than one class, 0 for a heuristic that always gives the
\* same answer however often that is right, and F1 is between precision and
\* recall.
AgreementIsFair ==
    agreement.at = "report" =>
        LET m == agreement.matrix
            k == agreement.kappa
            leq(x, y) == x.num * y.den <= y.num * x.den
        IN  /\ agreement.total = agreement.used + agreement.unsure + agreement.unmatched
            /\ agreement.used = Total(m)
            /\ k # NaN => k.den > 0 /\ k.num <= k.den /\ -k.den <= k.num
            /\ (k # NaN /\ k.num = k.den) <=>
                   (Agreed(m) = Total(m) /\ Cardinality({c \in AttackerClasses : m[c][c] > 0}) > 1)
            /\ k # NaN /\ (\E c \in AttackerClasses : ColTotal(m, c) = Total(m)) => k.num = 0
            /\ \A c \in AttackerClasses :
                   LET x == agreement.classes[c]
                   IN  x.f1 # NaN => \/ leq(x.precision, x.f1) /\ leq(x.f1, x.recall)
                                     \/ leq(x.recall, x.f1) /\ leq(x.f1, x.precision)

\* The review is complete and counted right, whatever the three commands do at
\* the same time.
ReviewSound == LabelTypeOK /\ LabeledOnce /\ LabeledIsPredicted /\ QueueIsWhole /\ AgreementIsFair

=============================================================================
