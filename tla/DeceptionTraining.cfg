SPECIFICATION TrainSpec
CONSTANTS
    MaxSteps = 2
    Requests = {{"bandit"}, {"reinforce"}, {"ppo"}, {"bandit", "reinforce", "ppo"}}
    Cats = {"recon", "escalate"}
    Acts = {"ENRICH", "SURFACE_BAIT"}
    Values = {0, 7}
    Episodes = 3
    Batch = 2
    Iterations = 2
    Epochs = 2
    Minibatch = 2
    Gamma = 2
    Lambda = 3
CHECK_DEADLOCK FALSE
INVARIANTS SamplesSound PassesAreWhole
