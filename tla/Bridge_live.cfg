CONSTANTS
    Null = Null
    Sessions = {1, 2, 3, 4}
    Poison = {1, 3}
    BatchSize = 2
    MaxFaults = 4
SPECIFICATION FairSpec
INVARIANTS VerdictsSound
PROPERTIES VerdictIsFinal EverySessionGetsVerdict
