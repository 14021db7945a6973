--------------------------- MODULE ModelTraining ---------------------------
(***************************************************************************)
(* The trainers of the session embedder (training/train.py), of the        *)
(* re-identification model (reid/train.py, with its ablation) and of the   *)
(* re-identification model on captured sessions (reid/real_train.py).      *)
(* They run one after the other into one output directory and may die at   *)
(* any step, also while writing a file.                                    *)
(***************************************************************************)
EXTENDS Batches

CONSTANTS
    Jobs,          \* the configurations main is started with
    Losses,        \* the mean validation losses an epoch can have; 0 is no batch
    NaN, Inf,
    Unknown, None, \* UNKNOWN_TOOLKIT; SupConLoss without an ignored label
    Kit,           \* Kit[i]: the toolkit label of identity i
    Ks,            \* the ranks of recall@k
    Runs, Crashes  \* bounds on the runs started and on the ones that die

\* The configurations: what the properties tell apart of the dataclasses.
TrainConfig ==
    [trainer : {"embed"}, corpora : SUBSET Seq(DOMAIN Kit), epochs : Nat, batch : Nat \ {0},
     frac : [num : Nat, den : Nat \ {0}], warmup : [num : Nat, den : Nat \ {0}]]
TrainReIDConfig ==
    [trainer : {"reid"}, corpora : SUBSET Seq(DOMAIN Kit), epochs : Nat, batch : Nat \ {0},
     nProbe : Nat, warm : BOOLEAN, warmup : [num : Nat, den : Nat \ {0}],
     variants : Nat \ {0}, bn : BOOLEAN]
TrainRealReIDConfig ==
    [trainer : {"real"}, corpora : SUBSET Seq(DOMAIN Kit), epochs : Nat, p : Nat, k : Nat,
     perEpoch : Nat, minSessions : Nat, nProbe : Nat, warm : BOOLEAN,
     warmup : [num : Nat, den : Nat \ {0}]]

ASSUME ModelsAssumption ==
    /\ Jobs # {}
    /\ \A job \in Jobs : \/ job \in TrainConfig \/ job \in TrainReIDConfig
                         \/ job \in TrainRealReIDConfig
    /\ Losses \subseteq Nat \ {0} /\ {NaN, Inf} \cap Nat = {} /\ Ks \subseteq Nat \ {0}
    /\ Runs \in Nat /\ Crashes \in Nat

VARIABLES
    job, phase,    \* the run under way and where it is
    run,           \* its number
    labels,        \* its corpus
    train,         \* the sessions trained on, in order; gallery in re-identification
    held,          \* the sessions held out: validation set or probes
    tok,           \* the sessions the tokenizer was fitted on
    fed,           \* the sessions the optimizer has seen
    epoch, left,   \* the epoch, and what its loader has left to serve
    batch, pairs,  \* the batch of the last step and what its loss pulled together
    mode,          \* the model is in training or in evaluation mode
    step,          \* calls of scheduler.step
    losses,        \* the validation losses so far
    ranks,         \* the ranked galleries of the probes evaluated so far
    todo,          \* the files still to be written before the run goes on
    disk,          \* disk[file]: the run and epoch that wrote it
    crashes        \* runs that may still die

fitVars == <<labels, train, held, tok>>
loopVars == <<fed, epoch, left, batch, pairs, mode, step, losses, ranks>>
modelVars == <<job, phase, run, fitVars, loopVars, todo, disk, crashes>>

Files == {"tokenizer", "best", "last", "metrics", "history", "model", "summary"}
NoFile == [run |-> 0, epoch |-> 0, torn |-> FALSE]
Ended == {"off", "done", "failed"}
Is(trainer) == phase \notin Ended /\ todo = <<>> /\ job.trainer = trainer

ModelInit ==
    /\ job = (CHOOSE j \in Jobs : TRUE) /\ phase = "off" /\ run = 0
    /\ labels = <<>> /\ train = <<>> /\ held = {} /\ tok = {}
    /\ fed = {} /\ epoch = 0 /\ left = {} /\ batch = <<>> /\ pairs = {} /\ step = 0
    /\ mode = "train" /\ losses = <<>> /\ ranks = <<>>
    /\ todo = <<>> /\ disk = [f \in Files |-> NoFile] /\ crashes = Crashes

\* main: a run of one of the trainers, into the same directory.
Start(j) ==
    /\ phase \in Ended /\ run < Runs
    /\ job' = j /\ phase' = "prepare" /\ run' = run + 1
    /\ labels' \in j.corpora
    /\ train' = <<>> /\ held' = {} /\ tok' = {}
    /\ fed' = {} /\ epoch' = 0 /\ left' = {} /\ batch' = <<>> /\ pairs' = {} /\ step' = 0
    /\ mode' = "train" /\ losses' = <<>> /\ ranks' = <<>> /\ todo' = <<>>
    /\ UNCHANGED <<disk, crashes>>
StartEmbed == \E j \in Jobs : j.trainer = "embed" /\ Start(j)
StartReid == \E j \in Jobs : j.trainer = "reid" /\ Start(j)
StartReal == \E j \in Jobs : j.trainer = "real" /\ Start(j)

Fail == phase' = "failed" /\ UNCHANGED <<job, run, fitVars, loopVars, todo, disk, crashes>>

-----------------------------------------------------------------------------
(* Before the first epoch. *)

\* Mutant: the tokenizer is fitted before the split.
SplitFitsAll(H, corpus) ==
    /\ held' = H
    /\ train' = Ascending(DOMAIN corpus \ H)
    /\ tok' = DOMAIN corpus
    /\ labels' = corpus

\* The sessions that are not held out, in corpus order; the tokenizer sees
\* those and no others.
Split(H, corpus) ==
    /\ held' = H
    /\ train' = Ascending(DOMAIN corpus \ H)
    /\ tok' = DOMAIN corpus \ H
    /\ labels' = corpus

\* train: too few sessions are refused; the tokenizer is saved right away.
PrepareEmbed ==
    /\ Is("embed") /\ phase = "prepare"
    /\ IF Len(labels) < 4 THEN Fail
       ELSE /\ \E H \in ValidationSets(Len(labels), job.frac) : Split(H, labels)
            /\ phase' = "build" /\ todo' = <<"tokenizer">>
            /\ UNCHANGED <<job, run, loopVars, disk, crashes>>

\* fit_reid.
PrepareReid ==
    /\ Is("reid") /\ phase = "prepare"
    /\ \E H \in ProbeSets(labels, job.nProbe) : Split(H, labels)
    /\ phase' = "build"
    /\ UNCHANGED <<job, run, loopVars, todo, disk, crashes>>

\* min_sessions_per_identity.
KeepFrequent(corpus, least) ==
    IF least > 1 THEN At(corpus, {n \in DOMAIN corpus : Counts(corpus)[corpus[n]] >= least})
    ELSE corpus

\* fit_real_reid: the sampler refuses a gallery with fewer than p identities.
PrepareReal ==
    /\ Is("real") /\ phase = "prepare"
    /\ LET kept == KeepFrequent(labels, job.minSessions)
       IN  \E H \in ProbeSets(kept, job.nProbe) :
               IF SamplerRefuses(At(kept, DOMAIN kept \ H), job.p, job.k)
               THEN Fail
               ELSE /\ Split(H, kept) /\ phase' = "build"
                    /\ UNCHANGED <<job, run, loopVars, todo, disk, crashes>>

\* The size of a batch and the batches of an epoch, from the loader's length.
Size == IF job.trainer = "reid" THEN ReidBatchSize(job.batch, Len(train)) ELSE job.batch
DropLast == job.trainer = "embed" \/ ReidDropsLast(Len(train), Size)
PerEpoch == IF job.trainer = "real" THEN job.perEpoch
            ELSE Max({1, LoaderLen(Len(train), Size, DropLast)})

\* Mutant: the schedule counts sessions and not batches.
TotalSessions == Len(train) * job.epochs

Total == PerEpoch * job.epochs
\* The embedder rounds the warm-up, the others truncate it.
Warmup == IF job.trainer = "embed" THEN Round(Total * job.warmup.num, job.warmup.den)
          ELSE (Total * job.warmup.num) \div job.warmup.den

\* The loader at the start of an epoch: the sessions to draw from, or for the
\* sampler the numbers of its batches.
FullLoader == IF job.trainer = "real" THEN 1 .. job.perEpoch ELSE Range(train)

\* from_backbone_checkpoint: a warm start needs the embedder's checkpoint.
Loadable == disk["best"] # NoFile /\ ~disk["best"].torn

\* _build_model: a warm start that cannot be loaded raises.
BuildRefuses == job.trainer # "embed" /\ job.warm /\ ~Loadable

\* The model, the optimizer and the schedule.
Build ==
    /\ phase = "build" /\ todo = <<>>
    /\ IF BuildRefuses \/ ScheduleRefuses(Warmup, Total) THEN Fail
       ELSE /\ phase' = "train" /\ epoch' = 1 /\ left' = FullLoader /\ mode' = "train"
            /\ UNCHANGED <<job, run, fitVars, fed, batch, pairs, step, losses, ranks,
                           todo, disk, crashes>>

-----------------------------------------------------------------------------
(* The epochs. *)

\* One optimizer step on the batch b.
Optimize(b, pulled) ==
    /\ batch' = b /\ pairs' = pulled
    /\ fed' = fed \cup Range(b)
    /\ step' = step + 1
    /\ UNCHANGED <<job, phase, run, fitVars, epoch, mode, losses, ranks, todo, disk, crashes>>

TakeBatch(b) == left' = left \ Range(b) /\ Optimize(b, NTXentPairs(b))

\* _run_epoch over the training loader.
StepEmbed ==
    /\ Is("embed") /\ phase = "train"
    /\ \E b \in Served(left, Size, DropLast) : TakeBatch(b)

\* The inner loop of fit_reid: the batch norm of the projection head, if it has
\* one (projection_use_bn), raises on a batch of one session.
StepReid ==
    /\ Is("reid") /\ phase = "train"
    /\ \E b \in Served(left, Size, DropLast) :
           IF job.bn /\ Len(b) = 1 THEN Fail ELSE TakeBatch(b)

\* Subset(dataset, gallery_idx): a position of the sampler is one of the gallery.
Rows(positions) == [r \in DOMAIN positions |-> train[positions[r]]]

\* The inner loop of fit_real_reid.
StepReal ==
    /\ Is("real") /\ phase = "train" /\ left # {}
    /\ \E positions \in PKBatches([n \in DOMAIN train |-> labels[train[n]]], job.p, job.k) :
           LET rows == Rows(positions)
           IN  Optimize(rows, CampaignAwarePairs(rows, labels, Kit, Unknown, None))
    /\ left' = left \ {Max(left)}

\* The loader has no batch left.
Exhausted == IF job.trainer = "real" THEN left = {} ELSE Served(left, Size, DropLast) = {}

\* A warm-started backbone keeps the vocabulary of its checkpoint while the
\* tokenizer is fitted anew: an id beyond the embedding table raises.
UnknownToken ==
    /\ phase = "train" /\ job.trainer # "embed" /\ job.warm /\ ~Exhausted
    /\ Fail

\* The embedder validates, the others go on.
EndEpoch ==
    /\ phase = "train" /\ todo = <<>> /\ Exhausted
    /\ phase' = IF job.trainer = "embed" THEN "validate" ELSE "next"
    /\ mode' = IF job.trainer = "embed" THEN "eval" ELSE mode
    /\ batch' = <<>> /\ pairs' = {}
    /\ UNCHANGED <<job, run, fitVars, fed, epoch, left, step, losses, ranks, todo, disk, crashes>>

Least(seq) == Min(Range(seq) \ {NaN})
BestSoFar == IF Range(losses) \subseteq {NaN} THEN Inf ELSE Least(losses)

\* val_loss < best_val; a comparison with NaN is false.
Improves(loss) == loss # NaN /\ (BestSoFar = Inf \/ loss < BestSoFar)

\* _run_epoch over the validation loader, which drops a short last batch: with
\* no batch at all the mean is 0.
ValidationLosses ==
    IF LoaderLen(Cardinality(held), Size, TRUE) = 0 THEN {0} ELSE Losses \cup {NaN}

\* Validation, the history and the best checkpoint.
Validate ==
    /\ Is("embed") /\ phase = "validate"
    /\ \E loss \in ValidationLosses :
           /\ losses' = Append(losses, loss)
           /\ todo' = IF Improves(loss) THEN <<"best">> ELSE <<>>
    /\ phase' = "next"
    /\ UNCHANGED <<job, run, fitVars, fed, epoch, left, batch, pairs, mode, step, ranks, disk, crashes>>

MoreEpochs == epoch < job.epochs

\* model.train() at the start of every epoch.
EpochMode == "train"

\* The next epoch, or what follows the last one: the embedder's files, the
\* evaluation of the others.
NextEpoch ==
    /\ phase = "next" /\ todo = <<>>
    /\ IF MoreEpochs
       THEN /\ phase' = "train" /\ epoch' = epoch + 1 /\ left' = FullLoader /\ todo' = <<>>
            /\ mode' = EpochMode
       ELSE /\ epoch' = epoch
            /\ IF job.trainer = "embed"
               THEN /\ phase' = "finish" /\ todo' = <<"last", "metrics", "history">> /\ left' = {}
                    /\ mode' = mode
               ELSE /\ phase' = "rank" /\ left' = held /\ todo' = <<>> /\ mode' = "eval"
    /\ UNCHANGED <<job, run, fitVars, fed, batch, pairs, step, losses, ranks, disk, crashes>>

\* reid_evaluate: the gallery is ranked for every probe.
Rank ==
    /\ phase = "rank" /\ left # {}
    /\ \E order \in SetToSeqs(Range(train)) :
           ranks' = Append(ranks, [r \in DOMAIN order |-> labels[order[r]] = labels[Min(left)]])
    /\ left' = left \ {Min(left)}
    /\ UNCHANGED <<job, phase, run, fitVars, fed, epoch, batch, pairs, mode, step, losses, todo,
                   disk, crashes>>

\* Mutant: the summary is written before the model.
ReidFilesSummaryFirst == <<"tokenizer", "summary", "model">>

\* The order in which train_reid and train_real_reid write their files.
ReidFiles == <<"tokenizer", "model", "summary">>

\* embed_dataset restores the mode it found.
Evaluated ==
    /\ phase = "rank" /\ left = {}
    /\ phase' = "finish" /\ todo' = ReidFiles /\ mode' = "train"
    /\ UNCHANGED <<job, run, fitVars, fed, epoch, left, batch, pairs, step, losses, ranks,
                   disk, crashes>>

\* The next file, written whole.
Write ==
    /\ phase \notin Ended /\ todo # <<>>
    /\ disk' = [disk EXCEPT ![Head(todo)] = [run |-> run, epoch |-> epoch, torn |-> FALSE]]
    /\ todo' = Tail(todo)
    /\ UNCHANGED <<job, phase, run, fitVars, loopVars, crashes>>

Finish ==
    /\ phase = "finish" /\ todo = <<>>
    /\ phase' = "done"
    /\ UNCHANGED <<job, run, fitVars, loopVars, todo, disk, crashes>>

\* augmentation_ablation: the next variant, with the same corpus and, as the
\* seed is the same, the same split; it writes into the same directory.
NextVariant ==
    /\ phase = "done" /\ job.trainer = "reid" /\ job.variants > 1
    /\ job' = [job EXCEPT !.variants = @ - 1]
    /\ run' = run + 1 /\ phase' = "build"
    /\ fed' = {} /\ epoch' = 0 /\ left' = {} /\ batch' = <<>> /\ pairs' = {} /\ step' = 0
    /\ mode' = "train" /\ losses' = <<>> /\ ranks' = <<>>
    /\ UNCHANGED <<fitVars, todo, disk, crashes>>

\* The process dies; the file it was writing may be cut short.
Crash ==
    /\ phase \notin Ended /\ crashes > 0
    /\ phase' = "off" /\ crashes' = crashes - 1 /\ todo' = <<>>
    /\ \/ UNCHANGED disk
       \/ /\ todo # <<>>
          /\ disk' = [disk EXCEPT ![Head(todo)] = [run |-> run, epoch |-> epoch, torn |-> TRUE]]
    /\ UNCHANGED <<job, run, fitVars, loopVars>>

Trainer ==
    \/ PrepareEmbed \/ PrepareReid \/ PrepareReal \/ Build
    \/ StepEmbed \/ StepReid \/ StepReal \/ UnknownToken
    \/ EndEpoch \/ Validate \/ NextEpoch \/ Rank \/ Evaluated
    \/ Write \/ Finish \/ NextVariant

ModelNext == StartEmbed \/ StartReid \/ StartReal \/ Trainer \/ Crash

ModelSpec == ModelInit /\ [][ModelNext]_modelVars

-----------------------------------------------------------------------------
(* Properties. *)

\* Type invariant: a run takes no more epochs than asked for and trains on its corpus only.
ModelTypeOK ==
    /\ phase \in Ended \cup {"prepare", "build", "train", "validate", "next", "rank", "finish"}
    /\ run \in Nat /\ epoch \in 0 .. job.epochs /\ step \in Nat
    /\ held \subseteq DOMAIN labels /\ Range(train) \subseteq DOMAIN labels
    /\ Range(losses) \subseteq Losses \cup {NaN, 0}
    /\ Range(todo) \subseteq Files
    /\ disk \in [Files -> [run : Nat, epoch : Nat, torn : BOOLEAN]]

\* A session held out for validation or as a probe reaches neither the
\* tokenizer's vocabulary and timing statistics nor the optimizer, although
\* one data set holds both kinds and the sampler counts positions of its own.
NoLeak == held \cap (tok \cup fed) = {}

\* Every batch is what its objective is written for: full batches for the
\* embedder, for re-identification at least two sessions unless the head has no
\* batch norm, and for the sampler p identities with k rows each.
BatchShape ==
    batch # <<>> =>
        CASE job.trainer = "embed" -> Len(batch) = job.batch
          [] job.trainer = "reid" -> Len(batch) >= 2 \/ ~job.bn
          [] job.trainer = "real" ->
                LET ids == {labels[s] : s \in Range(batch)}
                IN  /\ Cardinality(ids) = job.p
                    /\ \A i \in ids : Cardinality({r \in DOMAIN batch : labels[batch[r]] = i}) = job.k

\* A loss pulls a row towards another row and never towards itself: the other
\* view of the same session, or, with labels, a session of the same identity
\* or of the same confirmed campaign; sessions of no campaign are no class.
PositivesMatch ==
    \A x \in pairs :
        /\ x[1] # x[2]
        /\ IF job.trainer = "real"
           THEN \/ labels[x[3]] = labels[x[4]]
                \/ Kit[labels[x[3]]] = Kit[labels[x[4]]] /\ Kit[labels[x[3]]] # Unknown
           ELSE x[3] = x[4]

\* The optimizer only steps in training mode, and losses and rankings are
\* only computed in evaluation mode, however the two alternate.
ModeFits ==
    /\ batch # <<>> => mode = "train"
    /\ phase \in {"validate", "rank"} => mode = "eval"

\* A shuffled epoch leaves out fewer sessions than a batch, and no session at
\* all when there are fewer than two batches.
EpochCovers ==
    phase \in {"validate", "next"} /\ job.trainer # "real" =>
        /\ Cardinality(left) < Size
        /\ job.trainer = "reid" /\ Len(train) < 2 * Size => left = {}

\* The schedule is laid out for exactly the steps that are taken: it never
\* runs past its end, and a run that took any step ends at the floor, unless
\* it was all warm-up.
ScheduleFits ==
    phase \notin {"prepare", "off", "failed"} /\ run > 0 =>
        /\ step <= Total
        /\ phase \in {"finish", "done"} /\ step > 0 =>
               LET rate == LrLambda(step, Warmup, Total)
               IN  ~rate.warm /\ (Warmup < Total => rate.num = rate.den)

\* best.pt is the checkpoint of the first epoch with the least validation
\* loss of this run, whatever an earlier run left there.
BestIsBest ==
    phase \in {"next", "finish", "done"} /\ job.trainer = "embed" /\ todo # <<"best">>
        /\ Range(losses) # {NaN} =>
            disk["best"] = [run |-> run, torn |-> FALSE,
                            epoch |-> Min({e \in DOMAIN losses : losses[e] = Least(losses)})]

\* A run that finishes leaves a complete set of files of its own, also over
\* what a run that died left there.  (best.pt is only written for a number.)
WholeWhenDone ==
    phase = "done" =>
        \A f \in (IF job.trainer = "embed" THEN {"tokenizer", "best", "last", "metrics", "history"}
                  ELSE {"tokenizer", "model", "summary"}) :
            \/ f = "best" /\ Range(losses) = {NaN}
            \/ disk[f].run = run /\ ~disk[f].torn

\* The summary is written last: whoever finds a whole summary of a run finds a
\* model that is at least as new.
SummaryTrailsModel ==
    ~disk["summary"].torn => disk["summary"].run <= disk["model"].run

\* The metrics are sound: recall@k grows with k; every probe can be found, so
\* the whole gallery recalls it; the average precision is positive, and 1
\* exactly when the sessions of the probe's identity come first; the length of
\* the ranking is a scale fine enough to tell.
RetrievalSound ==
    \A n \in DOMAIN ranks :
        LET rel == ranks[n]
            hits == {r \in DOMAIN rel : rel[r]}
            scale == Len(rel)
            ap == AveragePrecision(rel, scale)
        IN  /\ \A k, m \in Ks : k <= m /\ Hit(rel, k) => Hit(rel, m)
            /\ Hit(rel, Len(rel))
            /\ ap > 0 /\ ap <= scale
            /\ ap = scale <=> hits = 1 .. Cardinality(hits)

\* What an optimizer step is given, and when: batches its objective is written
\* for, pairs that belong together, the right mode, the rate of its step.
StepsFit == ModelTypeOK /\ BatchShape /\ PositivesMatch /\ ModeFits /\ EpochCovers /\ ScheduleFits

\* The output directory, whatever runs died in it: the best checkpoint is the best,
\* a finished run's files are its own and the summary is not ahead of its model.
FilesAreOwn == BestIsBest /\ WholeWhenDone /\ SummaryTrailsModel

=============================================================================
