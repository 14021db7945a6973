-------------------------- MODULE DeceptionTraining --------------------------
(***************************************************************************)
(* The three trainers of ml/mirage/deception: the LinUCB bandit            *)
(* (bandit.py), batched A2C (train.py) and PPO (ppo.py), collecting        *)
(* episodes of DeceptionEnv.  The networks are a version number: every     *)
(* optimizer step or bandit update produces the next version, and a sample *)
(* remembers the version that chose its action.  Critic values are drawn   *)
(* from Values; GAE is computed with integer gamma and lambda, which may   *)
(* stand for any numbers as its equations are polynomials in them.  main() *)
(* trains the algorithms asked for one after the other, evaluates them     *)
(* all on fresh environments and saves a checkpoint of each.               *)
(***************************************************************************)
EXTENDS DeceptionEnv, SequencesExt

CONSTANTS Requests,    \* the values of --algo, as sets of trainers
          Cats, Acts,  \* the categories drawn and the actions sampled
          Values,      \* critic outputs
          Episodes,    \* episodes asked for (bandit, A2C)
          Batch,       \* batch_episodes / episodes_per_iteration
          Iterations,  \* PPO iterations
          Epochs, Minibatch,
          Gamma, Lambda

Trainers == {"bandit", "reinforce", "ppo"}

ASSUME TrainingAssumption ==
  /\ Cats \subseteq Categories /\ Acts \subseteq DeceptionAction
  /\ Values \subseteq Int /\ Requests \subseteq SUBSET Trainers
  /\ {Episodes, Batch, Iterations, Epochs, Minibatch} \subseteq Nat \ {0}
  /\ {Gamma, Lambda} \subseteq Nat

VARIABLES
  jobs,     \* what main() has still to do; its head is the current job
  trained,  \* the version of each policy main() has trained
  saved,    \* the checkpoints written
  pc,
  env,      \* the DeceptionEnv episode
  ep,       \* the samples of the current episode
  buf,      \* the samples of the finished episodes of this batch
  eps,      \* episodes finished in this batch
  it,       \* iterations done
  ver,      \* version of the policy
  base,     \* the version this batch started with
  hist,     \* number of episode returns recorded
  pass, start   \* PPO's passes over the batch

trainVars == <<jobs, trained, saved, pc, env, ep, buf, eps, it, ver, base, hist, pass, start>>

\* What main() does: the trainers asked for one after the other, the comparison
\* of the policies and the checkpoints.
Planned(r) ==
  LET first(job, rest) == IF job \in r THEN <<job>> \o rest ELSE rest
  IN  first("bandit", first("reinforce", first("ppo", <<"evaluate", "save">>)))

algo == IF jobs = <<>> THEN "none" ELSE Head(jobs)

BatchSize == IF algo \in {"reinforce", "ppo"} THEN Batch ELSE 1

\* iterations = max(1, episodes // batch_episodes) for A2C; the bandit takes
\* its episodes one by one; PPO has its own count.
Rounds == CASE algo \in {"bandit", "evaluate"} -> Episodes
            [] algo = "reinforce" -> IF Episodes \div Batch > 1
                                     THEN Episodes \div Batch ELSE 1
            [] algo = "ppo"       -> Iterations
            [] OTHER -> 0

\* Mutant: the next value is read at the step itself.
GaeSameValue(s) ==
  LET A[t \in 1..Len(s)] ==
        LET next == IF s[t].done THEN 0 ELSE s[t].value
        IN  s[t].reward + Gamma * next - s[t].value
            + (IF s[t].done THEN 0 ELSE Gamma * Lambda * A[t+1])
  IN  A

\* compute_gae over one trajectory: the advantage of step t from the critic's
\* values, in reverse; a step that ended the episode has no next value.
Gae(s) ==
  LET A[t \in 1..Len(s)] ==
        LET next  == IF s[t].done THEN 0 ELSE s[t+1].value
            delta == s[t].reward + Gamma * next - s[t].value
        IN  delta + (IF s[t].done THEN 0 ELSE Gamma * Lambda * A[t+1])
  IN  A

\* _discounted_returns: return-to-go, accumulated backwards.
DiscountedReturns(s) ==
  LET R[t \in 1..Len(s) + 1] ==
        IF t > Len(s) THEN 0 ELSE s[t].reward + Gamma * R[t + 1]
  IN  [t \in 1..Len(s) |-> R[t]]

\* What an episode adds to the batch: each sample with its regression target.
Targets(s) ==
  IF algo = "ppo"
  THEN LET A == Gae(s) IN [t \in 1..Len(s) |-> A[t] + s[t].value]
  ELSE DiscountedReturns(s)

TrainInit ==
  /\ \E r \in Requests : jobs = Planned(r)
  /\ trained = <<>> /\ saved = <<>>
  /\ pc = "collect" /\ env = EnvIdle
  /\ ep = <<>> /\ buf = <<>> /\ eps = 0 /\ it = 0
  /\ ver = 0 /\ base = 0 /\ hist = 0 /\ pass = 0 /\ start = 0

\* env.reset() at the head of the episode loop.
ResetEpisode ==
  /\ pc = "collect" /\ algo \notin {"save", "none"}
  /\ env.done /\ ep = <<>> /\ eps < BatchSize
  /\ \E c \in Cats : env' = EnvReset(c)
  /\ UNCHANGED <<jobs, trained, saved, pc, ep, buf, eps, it, ver, base, hist, pass, start>>

\* One turn: act on the observation, step the environment, record the sample
\* with the observation the action was chosen on.
Turn(acts, values) ==
  /\ pc = "collect" /\ ~env.done
  /\ \E a \in acts, leaves \in BOOLEAN, next \in Cats, v \in values :
       LET e == EnvStep(env, a, leaves, next)
       IN  /\ env' = e
           /\ ep' = Append(ep, [obs |-> Observe(env), act |-> a, done |-> e.done,
                                reward |-> StepReward(env, a), value |-> v,
                                target |-> 0, ver |-> ver])
  /\ UNCHANGED <<jobs, trained, saved, pc, buf, eps, it, base, hist, pass, start>>

\* The bandit selects by its confidence bounds and learns from the reward at
\* once: its A and b change with every turn.
BanditUpdate == ver' = ver + 1

BanditTurn == algo = "bandit" /\ Turn(Acts, {0}) /\ BanditUpdate

A2CTurn == algo = "reinforce" /\ Turn(Acts, {0}) /\ UNCHANGED ver

\* PPO also records the critic's value of the observed state.
PpoTurn == algo = "ppo" /\ Turn(Acts, Values) /\ UNCHANGED ver

\* evaluate_policy: the heuristic baseline or any greedy choice of a trained
\* policy; nothing is learned.
EvaluateTurn ==
  /\ algo = "evaluate"
  /\ Turn(Acts \union {Heuristic(Observe(env))}, {0})
  /\ UNCHANGED ver

\* The episode is done: its samples join the batch with their targets and its
\* return enters the history.
FinishEpisode ==
  /\ pc = "collect" /\ env.done /\ ep # <<>>
  /\ LET target == Targets(ep)
     IN  buf' = buf \o [t \in 1..Len(ep) |-> [ep[t] EXCEPT !.target = target[t]]]
  /\ ep' = <<>> /\ eps' = eps + 1 /\ hist' = hist + 1
  /\ pc' = IF eps + 1 = BatchSize THEN "update" ELSE "collect"
  /\ UNCHANGED <<jobs, trained, saved, env, it, ver, base, pass, start>>

\* The end of an iteration: the batch is dropped and the next one starts from
\* the policy as it now is.
EndIteration ==
  /\ it' = it + 1 /\ buf' = <<>> /\ eps' = 0 /\ pass' = 0 /\ start' = 0
  /\ base' = ver'
  /\ pc' = IF it + 1 = Rounds THEN "return" ELSE "collect"
  /\ UNCHANGED <<jobs, trained, saved, env, ep, hist>>

\* The bandit and an evaluation have nothing left to do; A2C takes a single
\* gradient step.
Update ==
  /\ pc = "update" /\ algo # "ppo"
  /\ ver' = IF algo = "reinforce" THEN ver + 1 ELSE ver
  /\ EndIteration

\* Mutant: the early stop leaves the minibatch loop and not the epochs.
PpoMinibatchGoesOn ==
  /\ pc = "update" /\ algo = "ppo"
  /\ ver' = ver + 1
  /\ \E klTooLarge \in BOOLEAN :
       LET passDone == klTooLarge \/ start + Minibatch >= Len(buf)
       IN  IF passDone /\ pass + 1 = Epochs
           THEN EndIteration
           ELSE /\ start' = IF passDone THEN 0 ELSE start + Minibatch
                /\ pass' = IF passDone THEN pass + 1 ELSE pass
                /\ UNCHANGED <<jobs, trained, saved, pc, env, ep, buf, eps, it, base, hist>>

\* One PPO minibatch of a random permutation of the batch; the pass and the
\* remaining epochs are abandoned when the KL estimate is too large.
PpoMinibatch ==
  /\ pc = "update" /\ algo = "ppo"
  /\ ver' = ver + 1
  /\ \E klTooLarge \in BOOLEAN :
       LET passDone == start + Minibatch >= Len(buf)
       IN  IF klTooLarge \/ (passDone /\ pass + 1 = Epochs)
           THEN EndIteration
           ELSE /\ start' = IF passDone THEN 0 ELSE start + Minibatch
                /\ pass' = IF passDone THEN pass + 1 ELSE pass
                /\ UNCHANGED <<jobs, trained, saved, pc, env, ep, buf, eps, it, base, hist>>

\* A trainer returns its policy to main(); the next job builds its own.
TrainerReturns ==
  /\ pc = "return" /\ jobs' = Tail(jobs)
  /\ trained' = IF algo = "evaluate" THEN trained
                ELSE [a \in DOMAIN trained \union {algo} |-> IF a = algo THEN ver ELSE trained[a]]
  /\ pc' = "collect" /\ it' = 0 /\ hist' = 0 /\ ver' = 0 /\ base' = 0
  /\ UNCHANGED <<saved, env, ep, buf, eps, pass, start>>

\* With --output-dir each trained policy's checkpoint is written.
SaveCheckpoints ==
  /\ algo = "save" /\ jobs' = <<>> /\ saved' = trained
  /\ UNCHANGED <<trained, pc, env, ep, buf, eps, it, ver, base, hist, pass, start>>

TrainNext ==
  \/ ResetEpisode \/ BanditTurn \/ A2CTurn \/ PpoTurn \/ EvaluateTurn
  \/ FinishEpisode \/ Update \/ PpoMinibatch
  \/ TrainerReturns \/ SaveCheckpoints

TrainSpec == TrainInit /\ [][TrainNext]_trainVars
-----------------------------------------------------------------------------
(* Properties *)

\* Type invariant: no episode is longer than the step cap and no buffer than its batch.
TrainTypeOK ==
  /\ algo \in Trainers \union {"evaluate", "save", "none"}
  /\ pc \in {"collect", "update", "return"}
  /\ env \in EnvType
  /\ Len(ep) <= MaxSteps /\ Len(buf) <= Batch * MaxSteps
  /\ eps \in 0..BatchSize /\ it \in 0..Rounds

\* All samples a gradient step sees were chosen by one version of the policy,
\* the one the batch started with: the old log-probabilities PPO's ratio
\* divides by, and A2C's on-policy estimate, belong to the behaviour policy.
OnPolicy ==
  algo \in {"reinforce", "ppo"} =>
    \A s \in Range(ep) \union Range(buf) : s.ver = base

\* In every recorded trajectory the sample of step t holds the observation of
\* the state BEFORE that step (t - 1 commands captured), and only the last
\* one is done: compute_gae, which reads values[t + 1] of every other step,
\* never reads past the trajectory.
TrajectoryAligned ==
  /\ \A t \in DOMAIN ep : /\ ep[t].obs.commands = t - 1
                          /\ ep[t].obs.step = t - 1
                          /\ ep[t].done = (env.done /\ t = Len(ep))
  /\ \A t \in DOMAIN buf : ~buf[t].done =>
       t < Len(buf) /\ buf[t + 1].obs.commands = buf[t].obs.commands + 1

\* What the target of a step takes over from the next one of its episode: for
\* PPO a mix of the critic's value and the target by gae_lambda, so that "1.0 ==
\* plain Monte-Carlo advantage", for the others the return.
Carried(value, target) ==
  IF algo = "ppo" THEN (1 - Lambda) * value + Lambda * target ELSE target

\* The targets of a batch are the lambda-returns of its own episodes, the one
\* equation that defines them: one episode's rewards and values never reach the
\* targets of the episode before it, which is its neighbour in the flat batch.
TargetsStopAtEpisodeEnd ==
  \A t \in DOMAIN buf :
    buf[t].target = buf[t].reward +
                    (IF buf[t].done THEN 0
                     ELSE Gamma * Carried(buf[t + 1].value, buf[t + 1].target))

\* The history has one return per episode; an A2C run that ends has played the
\* episodes asked for "rounded down to a multiple of the batch", and one batch
\* when that would be none.
HistoryComplete ==
  /\ hist = it * BatchSize + eps
  /\ pc = "return" /\ algo = "reinforce" =>
       hist = IF Episodes < Batch THEN Batch ELSE Episodes - (Episodes % Batch)

\* Every checkpoint written is of a policy the command line asked for, and an
\* A2C policy has had exactly its own updates: no trainer goes on from the
\* networks of the one main() ran before it, and the evaluation changes none.
CheckpointsAreOwn ==
  algo = "none" =>
    /\ saved = trained
    /\ DOMAIN saved \in Requests
    /\ "reinforce" \in DOMAIN saved =>
         saved["reinforce"] = IF Episodes < Batch THEN 1 ELSE Episodes \div Batch

\* Every gradient step of a PPO iteration belongs to a pass over the whole batch
\* or to the pass under way, and there are no more passes than epochs: the early
\* stop ends the update, not only its pass, so no sample of a batch is trained
\* on more often than another one but by the pass that is not over.
PassesAreWhole ==
  algo = "ppo" /\ pc = "update" =>
    LET perPass == (Len(buf) + Minibatch - 1) \div Minibatch
    IN  /\ ver - base = pass * perPass + start \div Minibatch
        /\ pass < Epochs /\ start < Len(buf)

\* What the updates learn from, samples of the policy that is updated, in whole
\* trajectories with targets of their own episode; and what main() leaves, a return
\* for every episode and every policy's own weights.
SamplesSound ==
    /\ TrainTypeOK /\ OnPolicy /\ TrajectoryAligned /\ TargetsStopAtEpisodeEnd
    /\ HistoryComplete /\ CheckpointsAreOwn

=============================================================================
