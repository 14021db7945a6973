# TLA+ models of Mirage

Mirage is an SSH (and telnet) honeypot. A sensor written in Go accepts
connections, serves a simulated machine to whoever logs in, and stores what was
tried as one *session* per connection in PostgreSQL. Around it are an optional
central collector (mirage-fleet), a Python service that decides how the sensor
answers and can generate command output with a language model, a Python worker
that enriches stored sessions with a classifier's verdict, offline trainers of the
models those two use, and exports that publish the sessions as datasets.

This directory holds TLA+ specifications of the parts of that system whose
correctness depends on the order of steps: what runs concurrently, what can fail
in between, what is shared, and which indices and lengths have to agree along a
pipeline. TLC checks them on small instances. TLAPS proves, for all instances, every
safety property the runs check; liveness is model-checked only.

Paths below are relative to the repository (`src/`). `PROJECT.json` maps every
definition to the lines it models.

Contents: [inventory](#inventory) · [plan](#plan) · [modules](#modules) ·
[runs](#runs) · [bounds](#bounds) · [fairness](#fairness) · [proofs](#proofs) ·
[observations](#observations) ·
[what is not modelled](#what-is-not-modelled)

## Inventory

### Fleet retry queue (`internal/fleet`)

*State.* Three files (the live queue `q.path`, the claimed copy `.draining`, the
scratch copy `.tmp`), a mutex, an atomic `draining` flag, three drop counters in
memory.
*Operations.* `PushSession` (post; on a transient error `Enqueue`), `Enqueue`
with `evictOldestLocked`, `Drain` = `claim`, `sendClaimed`, `restore`; the
heartbeat goroutine calls `DrainQueue` on every tick.
*Interactions.* `PushSession` runs on the goroutine that finalises a session;
`Drain` runs on the heartbeat's. They share the files.
*Hard.* Sends happen without the mutex; every rename, write and remove can fail
or be the last thing the process does; an append may be torn.
*Correct when* a queued session is never lost without being delivered, rejected or
evicted, whichever single thing fails; order is kept; losses are counted; the queue
drains once fleet answers.

### SSH connection (`internal/server/server.go`)

*State.* One session record behind `sessionGuard`'s mutex, one goroutine for the
connection, one per channel.
*Operations.* Password callbacks, channel acceptance, exec/shell/sftp requests,
the shell read loop, `appendCommand`, `appendBaitEvents`, `appendRejected`,
`recordOutcome`, `finalize`.
*Interactions.* Runs the interpreter on the shared box, calls `SaveSession` and
`PushSession`.
*Hard.* Several channels append to one record; caps are over all of them; any
goroutine may panic, hit a deadline or lose its connection at any point; the
record is saved when all have finished.
*Correct when* the caps hold in total, no bait event names a command that is not
stored (a foreign key would lose the whole session), the record is saved once and
final, and every connection that tried a credential is saved.

### Completion engine (`ml/mirage/deception/completion.py`)

*State.* Active provider, per-session cache and budget with a TTL, a sliding
window of calls, a circuit breaker.
*Operations.* `complete`, in two critical sections around a provider call made
with the lock released; `set_active`; eviction inside `complete`.
*Hard.* Everything read before the call may be stale after it.
*Correct when* rate and budget hold whatever interleaves, answers settle, and a
failing provider is left alone for the cooldown.

### Overlay filesystem (`internal/shell`: `fs.go`, `vfs.go`, `fileops.go`)

*State.* A base tree shared read-only by all sessions; per session an overlay of
nodes and tombstones and a list of added children; `Machine.mu`.
*Operations.* Lookup, stat, listing; create, truncate, resize, mkdir, remove,
rename, chmod of sftp; redirection, touch, rm, mkdir, cp, mv, chmod of the shell.
*Hard.* Long mixtures of operations: removal and recreation over base nodes,
renames of directories made of base and overlay nodes, hidden bait, base entries that
are found and not listed.
*Correct when* all of it behaves as one file tree, and listing agrees with stat but
for what the base conceals.

### Uploads (`internal/server`: `sftp.go`, `scp.go`)

*State.* Per sftp channel: handles with a running hash, a count of changes; per
session: an upload budget and the list of transfers, shared by all channels.
*Operations.* open, write, close, setstat, rename, remove, opendir, readdir; the
scp sink protocol; the deferred close when a channel ends.
*Hard.* Writes at any offset, caps hit half way, stat and create in separate
critical sections, channels that end at any point.
*Correct when* every upload is recorded exactly once, and a hash is recorded only
if it is the hash of exactly what was sent.

### Enrichment worker (`bridge/`)

*State.* Rows of `sessions` and `session_embeddings`, one connection with one
transaction, the batch in progress.
*Operations.* `fetch_pending`, `enrich`, `write_enrichment`, `mark_failed`,
signal handling, restart.
*Hard.* Statements and commits fail, commits go unanswered, the process dies
between any two steps; sessions that cannot be enriched come back.
*Correct when* verdict and embedding row agree, a verdict is final, and every
session gets one.

### Enrichment of a session (`bridge/enrich.py`, `ml/mirage/intel`)

*State.* Model, tokenizer, classifier and centroids in memory, loaded once from
files that a training run may be rewriting.
*Operations.* `Enricher.__init__` with its three loaders; `enrich`:
`parse_session_document`, `embed`, cluster, `weak_label` or the classifier,
`summarize_session`.
*Hard.* Four artifacts, each optional, of any age and any width; a device to run them
on; sessions without commands; a language model that answers anything.
*Correct when* a model is loaded with its tokenizer or not at all, what is written
about the embedding agrees, nothing raises while artifacts match, and taken bait is
not played down.

### Deception policy service (`live.py`, `serve.py`, `internal/deception`, `applyDeception`)

*State.* A tracker of running counters per live session, with a TTL, behind a lock;
two runtime flags in the sensor.
*Operations.* `Client.Decide` with its timeout; `decide` with eviction; running the
command and rewriting its response.
*Hard.* Answers that come after the client gave up, restarts, flags that change in
the middle of a command, eviction as a side effect of other sessions' calls.
*Correct when* trackers behave as a memory per session, the observation is what
the policy was trained on, one command uses one decision, and no command hangs.

### Deception training (`ml/mirage/deception`: `environment.py`, `train.py`, `bandit.py`, `ppo.py`)

*State.* The simulated episode, networks, the batch collected, checkpoints.
*Operations.* Reset, step, bandit update, A2C update, PPO minibatches with early
stop, returns and advantages, evaluation, saving.
*Hard.* Off-by-one and end-of-episode handling that raises no error and only makes
the policy worse.
*Correct when* samples are used by the policy that made them, trajectories and
targets stop with their episode, an update is whole passes over its batch, and each
checkpoint is its own policy.

### Sessions as training data (`ml/mirage/data`, `tokenizer`, `training/dataset.py`, `training/augment.py`, `reid/dataset.py`, `reid/augment.py`)

*State.* Accumulators per session id, the fitted vocabulary and statistics, two
parallel channels (ids and timing) per example, the views under construction.
*Operations.* `iter_dir`, `_finalize`, `fit`, `encode`, `decode`, the four
augmentations of the contrastive trainer and the three of re-identification,
padding.
*Hard.* Lines out of order, sessions split over rotated files, degenerate
statistics, index arithmetic in two channels.
*Correct when* no command or pause is lost or moved to another unless the whole load is
given up, encodings decode,
lengths fit the model, and augmentation keeps what identifies a session.

### Model training (`training/train.py`, `reid/train.py`, `reid/real_train.py`)

*State.* Split, batches, schedule, mode, best loss, the files of the output directory.
*Operations.* Preparation, epochs, validation, checkpoints, the ablation's variants,
ranking, the summary.
*Hard.* Small corpora, indices into subsets, runs killed at any step, several runs
into one directory.
*Correct when* nothing held out is trained on, batches and losses fit, the schedule
ends with the steps, and what a finished run leaves is its own.

### Re-identification corpus (`reid/campaign.py`, `real_db.py`, `real_data.py`)

*State.* What each query returned, the campaign found, the corpus file.
*Operations.* Two commands of several queries each, writing, loading.
*Hard.* Sessions are saved between the queries; commands are killed; the trainer
loads while an export writes.
*Correct when* labels agree with the sessions exported, and a load is one export or its
beginning unless an export opens the file under it.

### Human review of verdicts (`scripts/sample_for_labeling.py`, `label_sessions.py`, `compute_label_agreement.py`)

*State.* Three files in one directory: the queue of sessions to review, the
classifier's verdicts on them, and the reviewer's labels. *Operations.* A sample
reads the labels, fetches sessions and then commands from the API, draws some of
each class and rewrites queue and verdicts; the reviewer's command shows what is
queued and not labelled, and appends; the third joins labels and verdicts and
computes Cohen's kappa. *Hard.* No lock; files are emptied before they are written;
labels given during a sample; a session that is labelled is never sampled again.
*Correct when* no session is labelled twice, from part of its commands or without a
verdict to compare with, and the statistics mean what the report says.

### Dataset exports (`scripts/export_parquet.py`, `export_dataset.py`, `export_commands_dataset.py`, `geo_lookup.py`)

*State.* Bucket and manifest; the pages fetched so far.
*Operations.* The weekly run (readiness, chunked reads, uploads, manifest); keyset
pages over the API; bisection in address ranges; writing the files.
*Hard.* Runs that die half way, tables that change between reads, boundaries of
weeks, pages and ranges.
*Correct when* what is listed is there, whole and never changes, every week is
published, and a paged export has every session once and every command for each bait
it touched at most once.

### Parts without a module

Migrations (`internal/store/migrate.go`), telnet sensor
(`internal/server/telnet.go`, `internal/telnet`), accept loop with connection
slots and PROXY protocol, shell language (`internal/shell`: parser, expansion, awk,
text tools), validity checks (`internal/validity`), HTTP API, analysis and figures,
operational scripts, the vendored SSH library. See
[what is not modelled](#what-is-not-modelled).

### Hazards

`PROJECT.json` lists, at the line where each bites, what in this code a test would
hardly reach, with the properties that cover it or a note why none does.

## Plan

Order of work, most important behaviour first:

1. *Done.* `FleetQueue` with `FleetQueueProofs`: the one component that must
   survive crashes, and the target of the first proofs.
2. *Done.* `SshConnection`: the session record, the product of the whole system.
3. *Done.* `CompletionEngine`, `FileTree` and `OverlayFs`, `Uploads`, `Bridge`.
4. *Done.* The Python side: `DeceptionEnv`, `LiveDeception` (with the abstract
   `SessionMemory`) and `DeceptionTraining`; `SessionTable`, `WeeklyExport`,
   `ApiExport` and their composition `Datasets`; `Batches` and `ModelTraining`;
   `RealCorpus`; `SessionEncoding`, `TrainingViews` and `Enrichment`; `Labelling`.
5. *Done.* Proofs of every safety property checked of the modules in 1 to 4, the
   refinements of `FileTree` and `SessionMemory` included.
6. *Later models.* Telnet connection (login, read deadlines, which sessions are
   kept); `Migrate` (sensors starting together, the advisory lock, lock timeouts, a
   crash between migrations); the accept loop's slots; a clock in `SshConnection`
   for deadlines and command delays; the validity algorithms as operators against
   reference definitions; `SshConnection` saving into the table `Bridge` reads.

## Modules

| Module | Models | Uses |
| --- | --- | --- |
| `FleetQueue` | `internal/fleet/queue.go`, `PushSession`, heartbeat drain | |
| `SshConnection` | `handleConnection`, `handleChannels`, `handleSessionRequests`, `sessionGuard` | |
| `CompletionEngine` | `CompletionEngine` of `completion.py` | |
| `FileTree` | abstract: one tree of files and directories | |
| `OverlayFs` | base, overlay and every operation on them | instance of `FileTree` |
| `Uploads` | `sftp.go`, `scp.go` | |
| `Bridge` | `worker.py`, `db.py` | |
| `DeceptionEnv` | `environment.py`, hand-written policies, as operators | |
| `SessionMemory` | abstract: one memory of counters per session | |
| `LiveDeception` | `live.py`, `serve.py`, `client.go`, `applyDeception` | extends `DeceptionEnv`, instance of `SessionMemory` |
| `DeceptionTraining` | `train.py`, `bandit.py`, `ppo.py` of `deception` | extends `DeceptionEnv` |
| `SessionTable` | the sessions table as exports see it | |
| `WeeklyExport` | `export_parquet.py` | extends `SessionTable` |
| `ApiExport` | `export_dataset.py`, `export_commands_dataset.py`, `geo_lookup.py`, `GetExportPage` | extends `SessionTable` |
| `Datasets` | both exports over one table | extends `WeeklyExport`, `ApiExport` |
| `Batches` | splits, batches, positives, schedule and metrics, as operators | |
| `ModelTraining` | the three trainers and their files | extends `Batches` |
| `RealCorpus` | `campaign.py`, `real_db.py`, `real_data.py` | |
| `Labelling` | `sample_for_labeling.py`, `label_sessions.py`, `compute_label_agreement.py` | |
| `SessionEncoding` | normal form, vocabulary, encoding and padding, as operators | |
| `TrainingViews` | loader, fit, encode, augmenters, collators | extends `SessionEncoding` |
| `Enrichment` | `enrich.py`, `intel` | extends `SessionEncoding` |
| `FleetQueueProofs`, `OverlayFsProofs`, `UploadsProofs`, `DatasetsProofs` | theorems about the module of that name | extends its module, `TLAPS` |
| `SensorProofs` | theorems about a sensor's connections and generated answers | extends `SshConnection`, `CompletionEngine` |
| `BridgeProofs` | theorems about the worker, what it enriches with, and the training data | extends `Bridge`, `Enrichment`, `TrainingViews` |
| `CorporaProofs` | theorems about the labels models are trained and judged by | extends `RealCorpus`, `Labelling` |
| `LearningProofs` | theorems about what is learned from sessions | extends `LiveDeception`, `DeceptionTraining`, `ModelTraining` |
| `MC*` | model values, sizes and symmetry for TLC | extends its module |

Definitions whose comment starts with "Mutant" are not part of the models: each
is a plausible mistake in the code, listed in `PROJECT.json` with the property
that notices it. Modules that share a proof module have names of their own for what
others call `TypeOK` or `Spec`: `ConnectionSpec`, `TrainSpec`, `ModelSpec`,
`EnrichSpec`, `LabelSpec`.

### FleetQueue

A file is the sequence of writes that made it; a chunk `[id, n]` holds the first
`n` bytes of a session's line. `Size[p] + 1` bytes are a complete line, the last
one the newline; fewer are a torn write, after which the next append continues the
same line, exactly as `readRecord` will see it. Bytes matter because eviction and
the oversized test count them. Variables `live`, `claimed`, `tmp`, `mu`,
`draining` and the counters are the code's; `stage` and `pc` are program counters
of the pushing goroutines and the drainers; `order`, `fate` and `acks` are history.

`PushDelivered`, `PushRejected`, `PushFailed` are the three results of `post`.
`Enqueue` is `EnqueueOversized`, `EnqueueAppend` or `EnqueueFails`; over the bound
the goroutine keeps the mutex through `EvictWriteTmp` and `EvictRename`. `Drain`
is `DrainStart` (compare-and-swap), `Claim`, one `Send...` per line, and either
`DrainDone` or the three steps of `restore`. Each has a failing twin, and `Crash`
may come between any two steps: files survive, memory does not. The stat at the head of
`claim` fails in a way of its own: `ClaimStatFails` takes the leftover file for absent
and renames over it, and what was only there has the fate `overwritten`.

### SshConnection

`main` is where the connection's goroutine is, `pc[c]` where each channel's is.
Every critical section of `sessionGuard` is a step, and so is each read and each
run of a command outside it, so the check of a cap and the append it protects are
separate wherever they are in the code (`ShellLimit` and `AppendCommand`), and the
command and its bait events are appended in two steps. `ConnectionEnds` is the
client or the deadline; from then on reads see EOF, which is what the vendored mux
turns every closed connection into. A panic in a command (`RunPanics`) ends the
channel only, as its `recover` does. A command may also never return (`Hang`, see
`mkdir` in `OverlayFs`); it then holds the mutex of the machine, and another channel
gets past its own command only with a completion, which does not need it. `finalize`, `SaveSession` and `PushSession`
are three steps of `main`; `saved` and `pushed` hold what each was given.

### CompletionEngine

A logical clock; sessions' state as functions over `tracked`; each thread's
outstanding call in `call`. `Hit`, `RefusedEarly`, `RefusedByRate` and `Call` are
the exits of the first critical section, `CallFails`, `CallBlank`, `CallReturns`
those of the second. `calls` and `results` are history; `recent` holds the numbers
of the calls that `_recent_calls` holds the times of. Commands other than the
ones being asked are irrelevant to each other, and providers are an environment
that answers anything.

### OverlayFs and FileTree

A path is a sequence of names, `overlay` a partial function to nodes or `None`
(the nil entry that is a tombstone), `kids` the code's `overlayChildren`. Every
operation takes `Machine.mu` and is one step. File contents are sets of pieces, so
append, truncate and overwrite are told apart. `Rename` keeps the nondeterminism
of ranging over a Go map: nodes in `early` are placed before their directory.
`stuck` marks `mkdir`'s endless search upwards: `MkdirP` looks for the nearest
ancestor that exists, and there is none once `rm -r /` has taken the root away from
above everything else. `BaseAssumption` is what `fs.go` builds: a root directory, each
node in a directory, hidden nodes and contents only with files. It says nothing about
listings: `Concealed` are the base nodes that exist and that their directory does not
list (`ConditionalChildren`), and a listed node may be hidden.

`FileTree` is what a user of the box may expect: put, make directory (with
parents), delete (with everything below), move (with everything below, less some of
what the base conceals), and the loss of the root alone. `ImplementsFileTree` says that
the tree seen through stat and read changes by these only. The mapping is `Seen`.

### Uploads

Handles carry the running hash as the bytes that went into it, and `sent`, a
history of what the client's writes make of the file. `open` is `OpenStat`
followed by `OpenCreate` or `OpenRead`, `setstat` and `rename` likewise look up
first and change in a second step; a shell of the same connection (`ShellChanges`)
may intervene. When a channel ends (`End`), `CloseLeftHandle` is the deferred loop.
The scp sink is `SinkDirectory`, `SinkFile`, `SinkBytes` and its three ways to end.
`OpenUploads` and `OpenSinks` are the uploads begun and not yet recorded.

### Bridge

`tx`, `aborted` and `conn` are the connection as PostgreSQL sees it: a failed
statement aborts the transaction, later ones are refused until rollback. `Batch`
is `_process_batch` statement by statement; `CommitUnanswered` commits on the
server and raises in the client. `Exits` covers every way the process ends;
`Start` is the container's restart. `failed` is history: the sessions whose own
enrichment or write went wrong.

### DeceptionEnv, SessionMemory and LiveDeception

An episode is a record, `EnvReset` and `EnvStep` are operators on it. Hidden
archetype and goodwill only set probabilities strictly between 0 and 1, so the next
category and whether the attacker leaves are nondeterministic; rewards count tenths.

In `LiveDeception` a channel is idle, waits for `Decide`, has a decision or has run
its command, or is stuck in it; requests on their way are a set, so they may be answered
late or never, and the next command's request may overtake a late one.
`Decide` is one step because `decide` holds the lock throughout. `Restart` empties
the trackers. `shadow` is history: the training episode with the same commands.
`SessionMemory` counts each session by itself and forgets it after `TTL` of its own
silence; the mapping takes an expired tracker for no memory, so `MemorySpec` says
that neither late nor early eviction is ever visible.

### DeceptionTraining

A network is a version number that every optimizer step or bandit update increases;
a sample remembers the version that chose its action, `base` the version a batch
started with; `pass` counts the epochs of PPO over one batch. Critic values come from
`Values`, and GAE is computed with integer `Gamma` and `Lambda`. `main` runs the trainers asked for in order, evaluates all
and saves.

### SessionTable, WeeklyExport, ApiExport and Datasets

A row appears when its session ends, with its start time, and is classified at some
later time or never. `WeeklyExport` follows one run: protocols in order, weeks in
order, readiness, one read per chunk and table, two uploads, the manifest; `RunDies`
may come between any two. `ApiExport` fetches page by page with the cursor of the
page before, up to the cap on pages, and locates sessions by bisection as
`geo_lookup.py` does, over a file with unsorted and malformed lines. The page of
commands is a join with the baits touched, so a command has a row for each (`Joined`). The two exports share only the table, so an instance
of `Datasets` runs one or the other.

### Batches and ModelTraining

A session is its index in the corpus, a corpus the sequence of its identity labels.
What a seeded generator draws is the set of possible outcomes, so every split and
every shuffle is tried. `Batches` has the splits, loaders, sampler, the pairs each
loss pulls together, the schedule as fractions and the metrics; an average precision
is in units of one over the length of the ranking. `ModelTraining`
runs a job from `Start` through `Prepare`, `Build`, one step per batch, `Validate`,
`NextEpoch` to `Finish` and `Rank`; `disk` says which run and epoch wrote each file and whether
it is torn. `bn` is `projection_use_bn`: with it a batch of one ends the run, without it the
step is taken. `tok`, `fed`, `pairs`, `left` and `ranks` are history.

### RealCorpus

`proc.at` is the next query of the command under way; `SaveSession` may come between
any two. The corpus file is rows and a mark for a row half written; `Flush` moves
rows into it in pieces, as a buffered writer does. `reader` is a load under way, row by
row; an export that opens the file leaves it at an offset that can be anywhere in the new
rows (`Overtaken`): at the start of one, inside one, whose rest is then a line that does not
parse or, by chance, a row nobody wrote (`Spliced`), or behind the end. `exports` is history.

### Labelling

A session is a number, in the order of the ids; a file is its rows and a mark for a
cut last line, written in pieces (`FlushQueue`, `FlushPredictions`). `sampler`
holds what the sample has read so far, `labeler` what is still to be shown,
`agreement` the labels read and then the report, with kappa and the class metrics
as fractions and `NaN` where the code has it. `SamplerDies` comes anywhere; `cutOff`
is history. A label is one small write and is never cut. Any class may be given
to any session; the classes are as in the code, reduced to two by the instance.

### SessionEncoding, TrainingViews and Enrichment

A command line is the sequence of its words; which words are flags, wrappers or
assignments, and what base name or mask a word has, are constants. A timing value is
the millisecond figure it is the monotone logarithm of, with a mark for noise. `Millis` is
the code's `int` of a product of floats: any monotone function that falls short of the
span by at most a millisecond.
`TrainingViews` reads lines in any order and ends files at any point, gives up the load on a
line that raises or a file that is cut, fits, encodes,
and then augments one row at a time, one stage per step, with every outcome the
random generator allows. `Enrichment` loads file by file, while `Truncate` and
`Write` of a training run happen in between; a network's output is any class or
vector, the language model's answer anything or an error. Artifacts keep the training run
they are of, whose embedding has a dimension, and the widths they were made for; the
worker runs on the CPU or not.

## Runs

All runs use `tlc -config <cfg> <module>` and pass.

| Run | Checks | Shows |
| --- | --- | --- |
| `fleet_faults` | `TypeOK`, `NoSilentLoss`, `Custody`, `DeliverySound`, `EnqueueKeepsFreshest`, `QueueEmpties` | two drains against three enqueues with torn writes, an oversized session, a crash and a disk fault anywhere: nothing vanishes by one of the two, order is kept, every loss is counted, without faults nothing is acknowledged twice, an enqueue never evicts its own line, the inductive invariant of the proofs holds, and the queue empties once faults stop |
| `ssh_channels` | `RecordSound`, `SessionIsSaved`, `RefusalEndsSession` | two channels on one record; every end of a connection leads to one save and one push, and a refused command ends the session whatever the client does, unless a command never returns |
| `completion_guards` | `BudgetsHold`, `AnswerSettles`, `SickProviderRests` | two sessions on two threads against a clock: no window holds more calls than allowed, eviction does not renew a budget early, answers settle, a failing provider rests |
| `fs_tree` | `TreeSound`, `ImplementsFileTree` | every reachable state of a small box behaves as one tree, whose listings leave out only what the base conceals; `rm -r /` included |
| `uploads` | `TransfersSound`, `HashIsHonest` | two sftp handles, an scp sink and a shell on one connection |
| `bridge_live` | `VerdictsSound`, `VerdictIsFinal`, `EverySessionGetsVerdict` | four sessions, two of them poison, four faults of any kind |
| `deception_live` | `DecisionsSound`, `StaleTrackersGo`, `CommandsEnd`, `MemorySpec` | two sessions, one with two channels; slow, lost, late and overtaking requests, restarts, changing flags, a command that never returns: trackers implement a memory per session |
| `deception_training` | `SamplesSound`, `PassesAreWhole` | bandit, A2C and PPO, alone and one after the other |
| `datasets` | `PublishedSound`, `RowsSound`, `PublishedStays`, `WeeksGetPublished` | weekly runs that die anywhere and paged exports, while sessions are saved and classified |
| `model_training` | `NoLeak`, `StepsFit`, `FilesAreOwn`, `RetrievalSound` | seven jobs, two runs after each other into one directory, one of them killed at any step |
| `real_corpus` | `LabelsHold`, `LoadedIsPrefix`, `ReviewSound` | detection and export while sessions are saved between their queries, killed or loaded from at any point; or sampling, human labelling and the agreement report at the same time, killed at any point |
| `session_intel` | `LoadedSound`, `EncodingSound`, `ViewsSound`, `EnrichmentSound` | one pass of a trainer's data pipeline from shuffled log lines to padded batches; and one life of the enrichment worker while a training run rewrites what it loads |

Properties about one part of the state are conjunctions of named parts, each stated
and explained in its module:

| Property | Parts |
| --- | --- |
| `DeliverySound` | `InOrder`, `LossIsCounted`, `DeliveredOnce` |
| `RecordSound` | `ConnectionTypeOK`, `BaitHasCommand`, `CapsHold`, `SavedIsFinal` |
| `BudgetsHold` | `TypeOK`, `RateBounded`, `SessionBudgetBounded` |
| `TreeSound` | `TypeOK`, `SingleTree`, `ListingMatchesStat` |
| `TransfersSound` | `TypeOK`, `BudgetHolds`, `EveryUploadRecorded` |
| `VerdictsSound` | `TypeOK`, `RowsAgree`, `PoisonIsContained` |
| `DecisionsSound` | `TypeOK`, `MirrorsTraining`, `ExecAgreesWithApply` |
| `SamplesSound` | `TrainTypeOK`, `OnPolicy`, `TrajectoryAligned`, `TargetsStopAtEpisodeEnd`, `HistoryComplete`, `CheckpointsAreOwn` |
| `PublishedSound` | `TypeOK`, `ListedIsThere`, `WeekIsWhole`, `PendingIsHonest` |
| `RowsSound` | `FetchedOnce`, `RowsAreLocated` |
| `StepsFit` | `ModelTypeOK`, `BatchShape`, `PositivesMatch`, `ModeFits`, `EpochCovers`, `ScheduleFits` |
| `FilesAreOwn` | `BestIsBest`, `WholeWhenDone`, `SummaryTrailsModel` |
| `LabelsHold` | `TypeOK`, `MembersShareWordlist`, `TierIsHonest`, `CorpusIsWhole`, `OneBlockPerIdentity` |
| `ReviewSound` | `LabelTypeOK`, `LabeledOnce`, `LabeledIsPredicted`, `QueueIsWhole`, `AgreementIsFair` |
| `LoadedSound` | `ViewsTypeOK`, `LoadedInOrder`, `NoCommandLost`, `PausesSurvive` |
| `EncodingSound` | `HeadIsCommand`, `EncodingFaithful`, `ChannelsAligned`, `FitsPositions`, `ScaleIsUsable` |
| `ViewsSound` | `AnchorsStay`, `PairsTravel`, `MovesAreLocal`, `ViewIsUsable`, `PaddingIsExact` |
| `EnrichmentSound` | `EnrichTypeOK`, `ModelIsWhole`, `EmbeddingAgrees`, `RaisesOnlyOnMismatch`, `AnnotationsFollow`, `BaitIsSevere`, `SummaryIsBounded` |

Several properties state how far the code's promise reaches, where the code's own
comments go further; the difference is in the [observations](#observations):

- `SessionBudgetBounded` is stated for windows of `SessionTTL`: a session that is
  quiet for longer than the TTL is forgotten and gets a new budget, which the code
  intends. `AnswerSettles` starts once no call for the command is under way.
- `NoSilentLoss` is about one crash or failing file operation; with two of them the claim
  after the second can overwrite what the first left. `LossIsCounted` leaves such sessions
  out, and crashes, which the counters do not survive.
- `SessionIsSaved`, `RefusalEndsSession` and `CommandsEnd` except connections and sessions in
  which a command never returns.
- `SingleTree` and `ListingMatchesStat` are about directories that exist: `rm -r /` leaves
  what was below the root in none. What the base conceals may be found unlisted.
- `PoisonIsContained` allows one other session per fault to be marked.
- `MirrorsTraining` leaves out the bait count, which the sensor's hint drives live
  and the chosen action in training, and ends where a training episode would.
- `WeekIsWhole` and `PendingIsHonest` are about sessions saved within the lag.
- `FetchedOnce` has a command at most once per bait it touched, and excepts a session export
  that the cap on pages ends.
- `LoadedIsPrefix` is about the rows read before an export opens the file under the load;
  of the rest it only says that rows of no export are at most one per opening.
- `NoCommandLost` excepts a load that is given up. `PausesSurvive` allows a millisecond and
  is about sessions without a connect line; `MovesAreLocal` allows
  moves of less than two windows; `FitsPositions` is about at most four credentials;
  `HeadIsCommand` about lines without flags.
- `LabeledIsPredicted` leaves out samples killed while they write their files.
- `RaisesOnlyOnMismatch` names every way enrichment does raise.
- `PassesAreWhole` excepts the last pass, which the early stop cuts.
- `ScheduleFits` has a run end at the floor of the schedule unless all of it was
  warm-up.

## Bounds

- *FleetQueue.* Three sessions and two drainers: one line claimed, one live, one
  being written, with a second drain competing. `MaxBytes = 4` holds the two
  smaller lines only if one was torn, so appends evict. `NetFaults`, `DiskFaults`
  and `Crashes` bound the environment; four network faults let every session be
  queued and one drain fail and restore, one disk fault and one crash let each
  follow the other, so a failing stat meets a leftover file. Sizes differ and `big` is over `MaxPayload`, so torn fragments join into lines of every
  kind: whole, cut, merged, oversized.
- *SshConnection.* Two channels: enough to race for the last place under a cap, to
  end in different ways and for one to outlive the other. Two commands and
  three bytes are reached by count and by volume. `MaxAuthTries` is the code's six,
  reduced.
- *CompletionEngine.* All limits are 2, time runs to 4 and calls to `MaxRequests =
  4`, so that windows, TTL and cooldown all expire within a behaviour and limits
  are met exactly. `calls` and `results` are cut by that bound.
- *OverlayFs.* Two names and depth two: seven paths, with a base directory, a visible
  file it does not list and hidden bait it does, so every operation meets base,
  overlay, tombstone, concealed and hidden nodes, files and directories. `Depth` bounds
  renames to places within `Paths`. The state space (39 212 states) is complete for these
  paths.
- *Uploads.* Files of up to two bytes over two byte values, writes of up to one
  byte at any offset up to one past the cap, two uploads begun, a list of one
  transfer, so each cap is met from both sides. One sftp channel with two handles
  stands for two channels with one each where handles are concerned; the budget is
  shared with the sink.
- *Bridge.* Batches of two out of four sessions, the first and third of them
  poison: each batch can hold a poison session before a good one. Four faults reach
  every pair of failure and failing recovery.
- *LiveDeception.* Two sessions, one with two channels, two commands each at most, a TTL
  of 1 in two units of time: a tracker expires, is evicted by the other session's call or is
  found expired by its own. Two commands reach `MaxSteps`, where an episode ends.
- *DeceptionTraining.* Episodes of at most two steps, three episodes in batches of
  two (rounded down), two iterations, two epochs of minibatches of two, two critic
  values: the last minibatch can be short, and an early stop can come in every epoch.
  `Gamma = 2` and `Lambda = 3` make a term that leaks over an episode's end, or is
  weighted as the other, visible; that `Lambda` is no probability does not matter to the
  equation, and 3 tells it from `1 - Lambda` and from 1.
- *Datasets.* Two weeks of two units, a lag of one and a wait of two, three sessions
  of which two start together and one is telnet; a page has one session or two rows of
  commands, so equal keys meet at a page boundary; two pages at most, and a command that
  touched three baits: the cap is met, and a page ends inside one command's rows; one
  death, so a later run meets what it left.
- *ModelTraining.* Corpora of three to seven sessions of up to three identities: too
  few for a batch, exactly two batches, and one more; fractions that round to no
  validation set; batches of one, with and without batch normalisation; zero epochs; two losses, their tie, NaN and no batch at all.
- *RealCorpus.* Two addresses and six sessions of which three are there at first, a
  word list of two: both addresses can become candidates, share a word list or not,
  and change between the queries of two commands.
- *Labelling.* Three sessions, two of one class, drawn one per class in two samples:
  the second can start before the labels of the first, and a report has up to three
  pairs, so both classes can be right, wrong or missing.
- *TrainingViews.* Six lines of three ids (one empty) over at most two files, at stamps of
  two units to the millisecond; corpora
  with unknown words, special tokens as commands, empty sessions, equal pauses, and
  four credentials, the most the headroom has room for; `Window = 1`, `MaxLength = 3`
  of four commands. *Enrichment.* Two training runs with embeddings of different
  dimensions, every kind of classifier and centroid file, both devices, four documents: without commands, out of order, with undecodable
  text, and with equal times.

Symmetry is used where the permuted model values are interchangeable
(`completion_guards`: sessions, threads, outputs; `uploads`: bytes, channels), in
runs without liveness. Deadlock is checked where the system goes on for ever
(`fleet_faults`, `ssh_channels`, `completion_guards`, `uploads`, `bridge_live`; what may
end there has an explicit last step). The other runs are of programs that end, of a clock
and commands cut by a bound, or, `fs_tree`, of a box that `mkdir` after `rm -r /` stops for
good, and say so in their configuration.

## Fairness

- *FleetQueue* (`Fairness`): weak fairness of each push and of each drainer. The
  Go scheduler runs goroutines, and the heartbeat ticker keeps calling
  `DrainQueue`. Faults are bounded, so "eventually" means after the last fault.
- *SshConnection*: weak fairness of the server's own goroutines, and of the end of
  input *once the connection is closed*. A goroutine that runs a command may take the step
  `Hang` instead of finishing it, and then never moves; nothing says it does not. Nothing is assumed of the client: it may
  hold the connection open, send nothing, or never stop sending. No fairness is
  assumed of the idle deadline either, since a client can always avoid it.
- *Bridge*: weak fairness of the worker, restart included; `docker-compose.yml`
  says `restart: unless-stopped`. Sessions need not arrive.
- *LiveDeception*: weak fairness of a channel that has asked, whose HTTP client has a
  timeout. Nothing is assumed of the service: it may never answer; nor of the interpreter:
  a command may hang.
- *Datasets*: weak fairness of the clock and of the weekly run, which a timer starts
  again after every end. Deaths are bounded. The classifier may never come back.

`completion_guards`, `fs_tree`, `uploads`, `deception_training`, `model_training`,
`real_corpus` and `session_intel` check safety only.

## Proofs

Each theorem holds for every value of the constants that satisfies the assumptions
of its module; TLC evaluates those in every run of it. They only say that limits are
numbers, that some are not zero, that sets the code keeps finite are finite, and
that markers such as `None` are not values. Five go further. One is the hypothesis
of its theorem, `MaxPayload < EvictTarget`; four are assumptions: that published address
ranges do not overlap (`ApiAssumption`), that the worker cuts a session where the trainer
does (`EnrichmentAssumption`), that a span in milliseconds is cut by no more than one of
them and never shrinks as the span grows (`MillisAssumption`), and that the base is a tree
(`BaseAssumption`). All are explained below.

Every proof has the same layout: an inductive invariant, a lemma that it holds
initially, one lemma or step per action that it is kept, and the theorem with PTL.
An invariant that a run checks is seldom inductive; the strengthening is listed with
each module, with the reason for it.

| Theorem | States | Module |
| --- | --- | --- |
| `TypeCorrect`, `FilesInCustody`, `NothingLost` | `[]TypeOK`, `[]Custody`, `[]NoSilentLoss` | `FleetQueueProofs` |
| `DeliveryIsSound`, `FreshestIsKept` | `[]DeliverySound`, `EnqueueKeepsFreshest` | `FleetQueueProofs` |
| `RecordIsSound` | `[]RecordSound` | `SensorProofs` |
| `VerdictsAreSound`, `VerdictsAreFinal` | `[]VerdictsSound`, `VerdictIsFinal` | `BridgeProofs` |
| `EnrichmentIsSound` | `[]EnrichmentSound` | `BridgeProofs` |
| `LoadingIsSound`, `EncodingIsSound`, `ViewsAreSound` | `[]LoadedSound`, `[]EncodingSound`, `[]ViewsSound` | `BridgeProofs` |
| `DecisionsAreSound`, `StaleTrackersAreDropped` | `[]DecisionsSound`, `StaleTrackersGo` | `LearningProofs` |
| `TrackersImplementMemory` | `MemorySpec` (a refinement) | `LearningProofs` |
| `BudgetsAlwaysHold`, `AnswersSettle`, `SickProvidersRest` | `[]BudgetsHold`, `AnswerSettles`, `SickProviderRests` | `SensorProofs` |
| `SamplesAreSound`, `UpdatesAreWholePasses` | `[]SamplesSound`, `[]PassesAreWhole` | `LearningProofs` |
| `NothingLeaks`, `FilesStayOwn` | `[]NoLeak`, `[]FilesAreOwn` | `LearningProofs` |
| `StepsAlwaysFit`, `RetrievalIsSound` | `[]StepsFit`, `[]RetrievalSound` | `LearningProofs` |
| `PublishedIsSound`, `PublishedFilesStay` | `[]PublishedSound`, `PublishedStays` | `DatasetsProofs` |
| `RowsAreSound` | `[]RowsSound` | `DatasetsProofs` |
| `LabelsAreHonest`, `LoadsArePrefixes` | `[]LabelsHold`, `[]LoadedIsPrefix` | `CorporaProofs` |
| `ReviewIsSound` | `[]ReviewSound` | `CorporaProofs` |
| `TransfersAreSound`, `HashesAreHonest` | `[]TransfersSound`, `HashIsHonest` | `UploadsProofs` |
| `TreeIsSound` | `TreeSound` | `OverlayFsProofs` |
| `OverlayImplementsTree` | `ImplementsFileTree` (a refinement) | `OverlayFsProofs` |

### Fleet queue

*Assumptions:* `ActorsAssumption` (payloads, drainers and nobody are different
things), `BytesAssumption` (a session has at least one byte, limits are positive)
and `FaultsAssumption` (the bounds are numbers).

`NoSilentLoss` is not inductive. A rename replaces the live file by
the scratch file, so one has to know what is in the scratch file; a remove drops
the claimed file, so one has to know that what was not delivered is in the live
one. The inductive invariant `Safe` is `TypeOK /\ Custody /\ Accounted`, `Accounted`
being the first half of `NoSilentLoss`, and `Custody` says

- `MutexHeld`, `OneDrain`: whoever is between the steps of an eviction or a
  restore holds the mutex; whoever is draining is the one that won the flag. With
  these, no second actor changes a file in between.
- `OffsetInFile`, `PassedIsSettled`: a drainer's offset is within the claimed
  file, and every session before it has been delivered or dropped. So the part not
  copied back by restore is settled.
- `EvictTmpIsSuffix`: before eviction's rename the scratch file is a suffix of the
  live one, the dropped prefix being the evicted sessions.
- `RestoreTmpIsMerge`: before restore's rename the scratch file is the undelivered
  tail followed by the live file.
- `RestoredIsLive`: before the claimed file is removed its undelivered part is in
  the live file.

The proof has one step per action; lemmas about `Held` and `Contents` of
concatenations, suffixes and appends carry the reasoning about files. A crash
empties the program counters and so makes every clause trivial but `Accounted`
itself, which speaks of files only: that is why a crash is harmless.

Order, counting and single delivery need more. `Effects` first classifies every step
by what it does to the files and histories: nothing, append a chunk, evict a prefix,
claim, claim over a leftover, pass some lines, restore, remove. `Delivery` is then kept by each class:

- `Sorted`, `Untouched`: the lines in the two files are in the order of `order`, the
  claimed ones first, and a session that is not yet queued is nowhere. From them
  `InOrder`, for whatever is sent next is the oldest.
- `QueuedEndLines`, `RestoredFirst`: a queued session's chunk ends its line, so a
  line that is passed settles at most one queued session; between the rename and the
  remove of a restore the claimed tail begins the live file.
- `SpentIsCounted`, `FaultsBounded`: without another crash to come, the counters
  cover the queued sessions dropped or evicted.
- `ClaimedIsOwned`, `OneLineEach`: without faults a claimed file always has its
  drainer and no session has two lines, so none is acknowledged twice.
- `OverwritingNeedsTwo`: a claimed file without a drainer has cost one fault, so when a
  stat fails on it that is the second. This is the other half of `NoSilentLoss`.
- `FreshestLast`, `TmpFits`, `WholeLines`: while a push evicts, its own line is the
  last of the live file; and what eviction writes is within the bound.

`FreshestIsKept` has the hypothesis `MaxPayload < EvictTarget`, a line and its newline
fit into what eviction leaves. It holds for the code's constants (1 MiB against four
fifths of 64 MiB) and not for every value of `MIRAGE_FLEET_QUEUE_MAX_BYTES`: below
that size an enqueue may evict what it has just written.

### SSH session record

*Assumption:* `LimitsAssumption`. `CapsHold` is inductive by itself, since each
append tests its cap in the critical section that appends. `BaitHasCommand` needs
`BaitFollowsCommand`: a channel about to append bait events has its command in the
record, although the two are appended in separate critical sections and other
channels append in between. `SavedIsFinal` needs `ChannelsFollowMain` (no channel is
open once `finalize` is reached) and `SavedFollowsMain` (what has been saved and
pushed at each place of `handleConnection`).

### Enrichment worker

*Assumption:* `WorkerAssumption`. `RowsAgree` and `VerdictIsFinal` rest on knowing
what the transaction holds and for whom: `TxFollowsPc` and `AbortedFollowsPc` give
`tx` and `aborted` at each statement, `BatchIsPending` and `CurrentIsPending` say that
nobody in the rest of the batch has a verdict; the one exception is a commit that
took effect and was not answered. `PoisonIsContained` bounds the sessions marked
without fault of their own by the faults, and is inductive only with those that are
about to be marked (`Looming`): `EachCostAFault` counts both.

### Enrichment of a session

*Assumption:* `EnrichmentAssumption`. A tokenizer begins with the special tokens, as
`fit` makes it, and `BridgeLength + 3 <= Capacity`: with the start and end tokens and
the duration, what the worker keeps of a session has a position. The trainer
gives its embedder eight positions more than its own `max_length`, and the worker's
comes from `MIRAGE_MAX_LENGTH`: a worker set to more than that would fail on long
sessions, which `RaisesOnlyOnMismatch` rules out, so the assumption is needed.

`LoadedSoFar` follows the loading file by file. It says what has been loaded at each
stage, and so that a model without its settings or words is given up, whatever a
training run truncates or writes in between. `ResultSound` is kept because a result
is computed in one step from what is loaded and one document. The lemmas below it
are about that computation: an ingested document is a reordering of its commands,
every id is within the vocabulary, and the length within the capacity; what a classifier
or centroids of other widths do is in `ClassifierRefuses` and `OtherDim`.

### Sessions as training data

*Assumptions:* `ViewsAssumption`, `MillisAssumption`. Lines and sessions have times and
words, whatever they are; the limits are numbers. How a span becomes milliseconds is any
function that is monotone and short of the span by at most one, which is what `int` makes
of a float product whose rounding error is far below a millisecond.

*Loading.* `NoCommandLost` compares counts and is not inductive: when a file ends, its
accumulators are gone, and one has to know that each session id had only one of them.
The invariant `LoadPart` has `Distinct` (one accumulator per id), `AccSound` (an
accumulator without a start has no commands, and of a session without a connect line the
start is no later than any command), `SessionSound` (the offsets of a built session
are in order and not negative, bait is not later than its command, pauses are those
of the log to within a millisecond) and `Counted`: the commands read of an id are held, built or given up, and
at most `MinCommands - 1` are given up per file. It needs no induction over the log, since each
line adds one command to one accumulator.

*Encoding.* The invariant `EncodeInv` is small: once fitted, the tokenizer has a
`Vocabulary` (the special tokens in front, none of them again, no empty token) and
deviations above zero, and the examples are the encoded sessions. The work is in what the
operators compute. Stripping is two nested recursions that only move forward; both
are instances of `Lands` (stop at `i`, or go on from `jump[i] > i`), which lands on a
stop with only skipped words before it (`LandsOnStop`), by downward induction on the
position. So the line from there on is stripped to itself, and a line without
flags to its first plain word. `MostCommon` picks among the tokens it is given, so
`FitIs` needs only that no token is empty and that `Extended` adds what is new. An id
is 5 or more exactly if its token is in the vocabulary and not special (`Codes`), and
the frame and the duration are below; hence the ids that `Decode` keeps are the told
tokens the vocabulary holds, moved by the length of the front (`DecodeIs`,
`UpwardsAscends`).

*Augmenting.* `ViewsSound` compares a row with its example by counts and ranks, and
the stages in between do not keep those one by one. The invariant `RowFits` says where
a row comes from instead: there is an injection from its positions to the example's
under which ids and pauses agree (`Traced`), increasing until `_reorder`, near afterwards
(`Placed`); the identity is in front (`Anchored`). Every stage composes it
with another such map. The counts, ranks and distances of `ViewsSound` then follow
from lemmas about injections between finite sets: a permutation in which no element overtakes
another by `2 * Window` moves none by that much (`MovesLess`).

### Deception service

*Assumption:* `LiveAssumption`. The invariant `TrackersPaired` relates each tracker
with the training episode of the same commands (`Paired`: the counters agree whether
or not the episode has reached its cap); `ChannelsAgree` says that a command that has
run did so with what will be applied. For the refinement, an expired tracker and a
missing one are both "no memory" of `SessionMemory`: an eviction is a stutter, and a
tick may turn a memory into none without a change of the trackers.
`MemorySpec` has no fairness, so the refinement is proved whole.

### Deception training

*Assumptions:* `MaxStepsAssumption`, `TrainingAssumption`. The invariant `TrainInv`
follows an episode into the batch: `EpisodeFollows` (a sample for every step, the last
one done exactly when the episode is), `BatchIsWhole` (a batch is whole episodes one
after the other, and each target is its reward plus the discounted next target of the
same episode, mixed with the critic's value for PPO), `Versions` (every sample is of the version the update started from) and
`Progress` (how many episodes, batches and returns there are at each place). `JobsLeft`
says that what is trained and what is still to be trained is the request.

`TargetsStopAtEpisodeEnd` says what GAE and the returns are, and both are recursive
functions that run backwards over an episode. A recursive function satisfies its
equation only if some function does, which `BackwardsExists` shows by induction over
the steps from the end. The target is the advantage and the value it was measured from,
and the equation is that of the lambda-return for every `Gamma` and `Lambda`. Joining an episode to the batch keeps the equation, since an episode's last step
does not look at the next.

`Passes` carries `PassesAreWhole`: within a pass the position is a multiple of the size of a
minibatch, so the pass ends after as many steps as the batch has minibatches, the last of
them short or not.

The proof found a mistake in the model: an episode could be reset when the batch
was already complete. The guard `eps < BatchSize` of `ResetEpisode` is the loop's.

### Model training

*Assumption:* `ModelsAssumption`: jobs are configurations of one of the three
trainers, losses are positive numbers or `NaN`. Nothing bounds the number of
identities, sessions, epochs, runs or crashes.

`FitInv` carries `NoLeak` and `FilesAreOwn`. `SplitKept`: what is held out and what is
trained on are apart, and loader, tokenizer and optimizer have only seen the latter.
`Pending` and `Written`: the files a run still has to write at each place, and that
all others of its own are whole and of this run. `BestKept`: `best.pt` is of the
first epoch with the least loss, or about to be written, where a `NaN` never compares
as less. A crash leaves one file torn and the program counter at the end, so what
the next run needs is in `SummaryTrailsModel` alone.

`Ranked` carries `RetrievalSound`: the probes of an identity always leave one session
of it in the gallery (`ProbesLeaveOne`), so every ranking has a hit. Average precision
is the number of units below the precision of each hit; it is all of them exactly
when no miss comes before a hit, by counting (`PrecisionIs`).

`Fed` carries the shape of a batch. The sampler joins `p` blocks of `k` rows; `InBlocks`
gives the place of each row in its block, from which every identity of a batch has `k`
rows, and its positives are others of its own (`PKCounts`, `PairsAgree`). `Counted`
carries the schedule: the steps taken are the epochs passed times the batches of a
loader, plus those of the epoch under way, and what is left of the epoch is what those
batches left. At the end of an epoch that is all of the loader's batches
(`EpochEnds`), so at the end of the run it is all of the schedule.

### Exports

*Assumptions:* `TableAssumption` (ids are unique), `ExportAssumption`, `ApiAssumption`
(pages hold a row; the address ranges of a DB-IP file are disjoint, malformed lines
aside). `EntrySound` is what a manifest entry promises in a way that later changes of
the table cannot break: its week is over by more than the lag, so a session saved into
it now is late. `Working` says that a run's own manifest is the published one and the
entries of what it has uploaded, whichever chunk it dies in; `ReadSoFar` what the
chunks hold so far; `PendingCounted` that the sessions counted as unclassified cover
all that are read without a class, although classification goes on between the reads.
For the paged exports `Fetching` says that what was there at the start is fetched or
beyond the cursor, and how often the rows of a command can have been fetched. A page is the first rows of a sorted set, and its last row
bounds it (the order is by time and id, so no two rows are equal). `RowsAreLocated`
rests on `BisectRight` and `LookupIsRight`: the starts up to an address are the first
ones of the sorted table, and the last of them is the only range it can be in.

### Corpus and human review

*Assumptions:* `CorpusAssumption`, `ReviewAssumption`. For the corpus, `CountsKnown` and
`GotKnown` say in which direction the queries can disagree: a session is read after
it was counted, so those read are at least those counted, and this is why a toolkit
label never claims more word lists than the corpus has sessions for. `Built` follows
the corpus address by address, each with one block of rows. `FilesKnown` says that the
file is a prefix of a whole corpus, and that what is still to be written completes it;
a kill at any point keeps the prefix. A load that no export has overtaken has read a
prefix of the file, which only grows; after that, each opening can give one row that is
spliced from two, and every other row is one of the file.

For the review, `NothingUnpredicted` counts the predictions a sample is about to write
among those there are, unless one has been cut off; `LabelerKnows` keeps a session
from being labelled twice. `AgreementIsFair` is about numbers: kappa is at most one,
at least minus one, and one exactly on full agreement over several classes. It is
proved for every set of classes and pairs by writing all totals as sums over the
classes (`Tally`) and comparing sums term by term.

### Completion engine

*Assumption:* `EngineAssumption`. The rate bound needs `RecentCovers`: a call that is
not in `recent` has left the window. The session budget needs `SeenAtCalls` and
`BudgetCovers`: a session has paid for all its calls except ones further back than
the TTL; in an untracked session those are all of them, which is why eviction does
not renew a budget early. The breaker needs `BreakerFollows`: `failures` counts the
failures since the last success, and from the threshold on the breaker is open until
`Cooldown` after the last. `AnswerSettles` needs the types (`CallsTyped`).

### Uploads

*Assumption:* `BoundsAssumption` (the limits are numbers, a file may have a byte and a
directory a level, channels, sinks and files are finite). `HandlesHonest` says that a
hash has as many bytes as the next sequential offset and, while it runs and no cap was
met, is of exactly what the client's writes make of the file; `SinksHonest` that a
sink has no more of a file than was declared, and nothing between two files. With
them `HashIsHonest` follows at the close. `Within` adds to the bytes received those that
sinks have been promised (`Owed`), as `scp` takes a file's size from the budget before
its bytes come. `EveryUploadRecorded` is kept by counting `OpenUploads` and
`OpenSinks`: every action adds to `begun`, moves an upload into the list of transfers,
or leaves both.

### Overlay filesystem

*Assumptions:* `DepthAssumption`, `BaseAssumption` (the base is a tree of directories and
files; which of its nodes are listed or hidden is open).

Base and overlay are merged into one lookup table, `View(overlay)`. The invariant says
that this table and `kids` are `Good` for the set `Now` of paths found and not listed: what
has a path is in a directory, unless that is the root and it is gone; the directory lists
it unless it is in `Now`; and `Now` is within `Concealed`. Each operation is then one of
five changes of the table (`PutIn`, `DeleteIn`, `MakeIn`, `MoveIn`, and the drop of the
root); lemmas say that each keeps `Good` with a `Now` that has not grown, and changes the
tree seen through stat by `FileTree`'s `Put`, `Delete`, `MakeDirectory`, `Move` or
`DropRoot` (`Follows`). What the sftp and shell operations add is which guards establish
the lemmas' hypotheses. Three cases are worth knowing: moving a file onto one with the
same content shows as the deletion of the first; hidden bait left behind by a move is
not part of the tree seen; and what a rename does not collect is concealed
(`SeenIsCollected`), so the move may lose it.

### Induction

The library's induction theorems take a predicate as a parameter, which the backends
cannot instantiate. Where a proof needs induction over numbers (the ancestors of
a node are directories, the pieces eviction keeps, the counts of finite sets, the
blocks of a flattened sequence, backward recursions), it is
stated for a *set* of numbers and derived from the well-foundedness of finite sets
(`LeastNumber`, `Induction`, `StepByStep`).

### Only model-checked

- Liveness: `QueueEmpties`, `SessionIsSaved`, `RefusalEndsSession`,
  `EverySessionGetsVerdict`, `CommandsEnd`, `WeeksGetPublished`; the
  proof system has no support for fairness and `ENABLED`.
- Inequalities of numbers the models abstract from (losses, rates, probabilities).

## Observations

Behaviours met while modelling. No run states them as properties; each is what the
models do, because the code does it, or lies below their level of detail. Some
differ from a comment in the code, quoted here.

- *The queue file is not bounded by `maxBytes`.* `queue.go:24` says "The file is
  bounded". Only `Enqueue` looks at the bound; `restore` (`queue.go:253-297`) merges
  the undelivered lines with everything queued meanwhile, whatever the total. The
  next `Enqueue` evicts the excess (`EnqueueKeepsFreshest`).
- *An idle shell is recorded as a clean disconnect.* The branch at
  `server.go:1088-1091` waits for a timeout error from a channel read; the mux
  (`mux.go:212-220`) closes its channels on any read error of the connection, the
  deadline included, and the read returns `io.EOF`. The branch is unreachable.
- *`rm -r /` removes the root and nothing else.* `remove` (`fileops.go:110-123`)
  looks for the prefix `//`, and `rmBuiltin` has no guard for the root. What was
  below stays reachable by path and is in no directory; a later `mkdir` of a missing
  path never finds an ancestor and loops (`fileops.go:289-297`) with `Machine.mu` held.
  Its channel never ends, `wg.Wait` (`server.go:862`) never returns, and the session is not
  saved, whatever its other channels do.
- *A failed `mark_failed` costs the next session.* The inner handler at
  `worker.py:53` does not roll back; the next session's `UPDATE` is refused by the
  aborted transaction and that session is marked `error` for good, although the
  handler is there to "isolate poison sessions".
- *A failing stat costs the claimed file.* `queue.go:195` takes any error of `os.Stat` for
  the absence of a leftover `.draining` file, and `os.Rename` replaces the file. It takes two
  faults: one that leaves the file, and this one. The sessions are in no counter.
- *Fleet queue.* While a drain holds the older lines, eviction can only reach the
  newer ones in the live file, so the freshest go first, against the intent of
  `queue.go:25`. A torn append joins two sessions into one line, which fleet
  rejects: both are lost, counted as one rejection, and the torn one was already
  reported as not queued. Nothing is synced to disk; the model's crash is the
  process's, not the machine's.
- *SSH.* `server.go:1158-1160` says the append can fail only on volume; with two
  shells it can fail on count. An accepted credential whose reply misses the
  handshake deadline is saved with outcome `auth_failed`. `InterCommandDelayMS` can
  be negative when two channels overlap.
- *Completion engine.* Two requests for one command that both miss the cache are
  both generated and may differ, although `completion.py:361` says the two must be
  the same. A call to the previous provider that fails after `set_active` counts
  against the new one.
- *Filesystem.* Renaming a directory can add a child twice to a listing
  (`vfs.go:230-235`). `mv` of a file onto itself deletes it. Hidden bait is not
  moved with its directory. Renaming `/home/ubuntu` drops `.aws` and `.python_history`,
  which it does not list and stat finds; so does its removal by sftp, to which a directory
  with unlisted entries only is empty. `ls` lists the hidden `.aws/credentials` and sftp
  does not, although `vfs.go:11-14` says that the two "can never disagree".
- *Uploads.* An open refused because the handle table is full has already created
  or truncated the file, and no transfer records it. A transfer's size is the file's
  and not the bytes received (`session.go:105`) when writes are sparse or the file
  existed. Two channels can both open a path exclusively. A handle that is read-only
  and creates its file leaves no transfer.
- *Bridge.* Two workers at once would process the same rows; the deployment has one.
- *Enrichment.* A classifier trained on embeddings raises for sessions without
  commands and whenever the model could not be loaded, although the loaders are
  written to "degrade rather than crash"; such sessions are marked `error`. On a GPU every
  classifier raises, since the features stay on the CPU (`classifier.py:266`,
  `enrich.py:190`). So do centroids of another dimension than the model's
  (`enrich.py:329`), a classifier of other widths (`classifier.py:83,93`), more classes
  than names, and centroids without rows or with more rows than ids. Files of
  different training runs load together without complaint; an id beyond the model's
  vocabulary then raises. `schema_adapter.py` is used by nothing.
- *Tokenizer and loader.* `max_length` cuts commands only, so a session with more
  than four credentials overflows the headroom of eight positions. A command spelled
  like a special token gets its id. `sudo -E ls` loses `ls` (the word after a flag is
  taken for its value), and `/usr/bin/sudo x` has the head `sudo`. A session split
  over two files becomes two. A stamp that does not parse, a line that is JSON and no object,
  and a cut `.gz` end the load of all files (`loader.py:177`). Offsets are cut off
  (`loader.py:222`): a command 1.001 s after the start is at 1000 ms. "Connect time is authoritative" (`loader.py:187`), but
  a line read later with an earlier stamp still lowers the start.
- *Augmentation.* A banner or credential outside the vocabulary is not protected and
  is dropped or moved like a command. A command moves by less than twice
  `shuffle_window`, not by the window.
- *Trainers.* A validation set smaller than a batch gives a loss of 0.0, and
  `best.pt` stays at the first epoch. Losses that are all NaN never write it. The
  tokenizer is saved first, so a run that dies leaves its tokenizer beside the model
  of the run before. A gallery of three ends in a batch of one, which batch
  normalisation refuses (`projection_use_bn`). A schedule whose warm-up comes to all of its steps ends
  at the peak of the learning rate and never decays. Ablation variants overwrite each other's files. A warm start
  keeps the checkpoint's vocabulary while the tokenizer is fitted anew.
- *Corpus.* Candidates without password attempts share the empty set of credentials
  and can be the reference. Credentials are read after the counts and may be newer.
  The export truncates the previous corpus first; a killed one leaves a shorter
  corpus that loads without error. A load that an export overtakes (`real_data.py:107`,
  `120-128`) goes on in the new file at its old offset and can mix rows of the two.
- *Human review.* A sample killed between its two files leaves queued sessions
  without a verdict on file; once labelled they are sampled no more and stay
  `unmatched`. One killed within a file leaves a line no command can parse, and none
  of them runs until it is removed by hand. Full agreement on a single class gives
  kappa "undefined (no data)" although there is data, and a class nothing was found
  of has no F1 rather than 0, so it is left out of the macro mean.
- *Exports.* The export of commands joins the baits touched (`read.go:664`) and pages by
  command: a command with two of them is returned twice, and where a page ends between
  its rows the rest of them is dropped. A dump of sessions that reaches 5000 pages ends as a
  well-formed body with sessions missing, which the comment at `cmd/api/export.go:32-34`
  means to avoid. With `--anonymize-ips`, `stats_summary.json` still carries addresses in
  `coordinated_ip_groups` (`export_dataset.py:156`). A crash of a `--out-dir` run
  while `manifest.json` is written stops later runs. Two overlapping runs can lose an
  update of the manifest. A session saved after the lag is in no week's file.
- *Daily health check.* An outage that lasts to the end of the period is not
  reported as a gap, and an empty result counts as healthy.

## What is not modelled

- *Within modelled parts.* A fleet client without an URL and the failing
  `json.Marshal` of a session; modes, owners, times, `/dev`, `/proc` and symlinks;
  read-only paths are in `OverlayFs` but empty in its instance; the bytes of the
  shell's line editor; SSH key exchange; wire formats of sftp; gradients, losses as
  numbers and what a network computes; feature vectors, MITRE and STIX tables;
  anonymisation and scrubbing of exported text; how a session
  is shown to the reviewer.
- *Not yet.* Telnet, migrations, connection slots, validity checks: see the plan.
- *Out of scope.* The shell language (a sequential interpreter over strings, which
  the repository tests by replay against a real shell); HTTP handlers (no state of
  their own); fingerprinting and PROXY parsing (byte-level); the adversarial suite
  and the fingerprint baseline of re-identification, analysis and figures
  (numerical, stateless); reports and the probes of `detection_checks.py` (one pass
  of input and output each); the vendored SSH library, of which only the behaviour
  of a closed mux is used.
