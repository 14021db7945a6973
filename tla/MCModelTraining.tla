-------------------------- MODULE MCModelTraining --------------------------
(* An instance of ModelTraining for TLC. *)
EXTENDS ModelTraining, TLC

CONSTANTS a, b, c, kit

\* The identities a and b are of one campaign, c of none.
MCKit == a :> kit @@ b :> kit @@ c :> Unknown

Tenth == [num |-> 1, den |-> 10]
Half == [num |-> 1, den |-> 2]

MCJobs ==
    {[trainer |-> "embed", corpora |-> {<<a, a, b>>, <<a, a, b, b>>, <<a, a, a, b, b>>}, epochs |-> 2, batch |-> 2,
      frac |-> Half, warmup |-> Half],
     [trainer |-> "embed", corpora |-> {<<a, a, a, b, b>>}, epochs |-> 2, batch |-> 2,
      frac |-> Tenth, warmup |-> Tenth],
     [trainer |-> "embed", corpora |-> {<<a, a, b, b>>}, epochs |-> 0, batch |-> 2,
      frac |-> Tenth, warmup |-> Tenth],
     [trainer |-> "reid", corpora |-> {<<a, b, a, b>>, <<a, b, b, a, a, b>>, <<a, b, c, a, b, c>>},
      epochs |-> 2, batch |-> 128, nProbe |-> 1, warm |-> TRUE, warmup |-> Tenth,
      variants |-> 2, bn |-> TRUE],
     [trainer |-> "reid", corpora |-> IdentityCorpora({a, b}, 2) \cup {<<a, b, b, a, a, b>>,
                                                                    <<a, b, c, a, b, c>>},
      epochs |-> 2, batch |-> 128, nProbe |-> 1, warm |-> FALSE, warmup |-> Tenth,
      variants |-> 1, bn |-> TRUE],
     [trainer |-> "reid", corpora |-> {<<a, a>>, <<a, b, a, b>>}, epochs |-> 2, batch |-> 128,
      nProbe |-> 1, warm |-> FALSE, warmup |-> Tenth, variants |-> 1, bn |-> FALSE],
     [trainer |-> "real", corpora |-> {<<a, a, b, b, c>>, <<a, b, c, c>>}, epochs |-> 2,
      p |-> 2, k |-> 2, perEpoch |-> 1, minSessions |-> 1, nProbe |-> 1, warm |-> FALSE,
      warmup |-> Half],
     [trainer |-> "real", corpora |-> {<<a, a, b, b, c, c, c>>}, epochs |-> 1,
      p |-> 2, k |-> 2, perEpoch |-> 2, minSessions |-> 3, nProbe |-> 1, warm |-> FALSE,
      warmup |-> Half]}

=============================================================================
