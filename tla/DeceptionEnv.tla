---------------------------- MODULE DeceptionEnv ----------------------------
(***************************************************************************)
(* The attacker simulator the deception policies are trained in            *)
(* (ml/mirage/deception/environment.py) as operators on an episode record, *)
(* and the hand-written policies.  Rewards are in tenths.  The hidden      *)
(* archetype and goodwill only set probabilities that are never 0 or 1:    *)
(* which category comes next, and whether the attacker leaves after a      *)
(* step, are nondeterministic.                                             *)
(***************************************************************************)
EXTENDS Integers, FiniteSets, Sequences

CONSTANT MaxSteps    \* DeceptionConfig.max_steps

ASSUME MaxStepsAssumption == MaxSteps \in Nat \ {0}

Categories == {"recon", "download", "read_sensitive", "escalate", "exfil"}

Sensitive == {"read_sensitive", "escalate", "exfil"}

DeceptionAction == {"MINIMAL", "ENRICH", "SURFACE_BAIT", "STALL", "FAKE_SUCCESS"}

LOCAL AtMost(a, b) == IF a < b THEN a ELSE b

\* The part of the deception physics that reaches the observation or the
\* reward: bait gained and capture bonus, in tenths.
Effects(cat, act) ==
  [bait |-> IF act = "SURFACE_BAIT" /\ cat \in Sensitive THEN 30 ELSE 0,
   cap  |-> CASE act = "ENRICH" /\ cat \in {"recon", "download"}          -> 3
              [] act = "FAKE_SUCCESS" /\ cat \in {"download", "escalate"} -> 5
              [] OTHER -> 0]

EnvType == [step : 0..MaxSteps, cat : Categories, seen : SUBSET Categories,
            commands : Nat, bait : Nat, done : BOOLEAN]

EnvIdle == [step |-> 0, cat |-> "recon", seen |-> {}, commands |-> 0,
            bait |-> 0, done |-> TRUE]

EnvReset(cat) == [EnvIdle EXCEPT !.cat = cat, !.done = FALSE]

\* The observation the policy conditions on: the counters over MaxSteps, as
\* numerators, and the current category.
Observe(e) ==
  [step |-> e.step, cat |-> e.cat, commands |-> e.commands,
   seen |-> Cardinality(e.seen), bait |-> AtMost(e.bait, 3),
   sensitive |-> e.cat \in Sensitive]

StepReward(e, act) ==
  LET fx == Effects(e.cat, act)
  IN  10 + fx.cap + (IF e.cat \notin e.seen THEN 5 ELSE 0) + fx.bait

\* step(): capture the command, fold the effects in, end the episode when the
\* attacker leaves or at the cap, otherwise draw the next category.
EnvStep(e, act, leaves, next) ==
  LET end == leaves \/ e.step + 1 >= MaxSteps
  IN  [step     |-> e.step + 1,
       cat      |-> IF end THEN e.cat ELSE next,
       seen     |-> e.seen \union {e.cat},
       commands |-> e.commands + 1,
       bait     |-> e.bait + (IF Effects(e.cat, act).bait > 0 THEN 1 ELSE 0),
       done     |-> end]

\* HeuristicPolicy.select_action: bait for a sensitive probe, a faked success
\* for a download, detail for the rest.
Heuristic(o) == IF o.cat \in Sensitive THEN "SURFACE_BAIT"
                ELSE IF o.cat = "download" THEN "FAKE_SUCCESS" ELSE "ENRICH"
=============================================================================
