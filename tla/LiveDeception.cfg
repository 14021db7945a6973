SPECIFICATION Spec
CONSTANTS
    c1 = c1  c2 = c2 c3 = c3  s1 = s1  s2 = s2
    Channels = {c1, c2, c3}
    Sessions = {s1, s2}
    SessionOf <- MCSessionOf
    Commands = {{}, {"exfil", "read_sensitive"}}
    BaitKinds = {"exfil"}
    Answers = {"ENRICH"}
    TTL = 1
    MaxTime = 2
    MaxCommands = 2
    MaxSteps = 2
CHECK_DEADLOCK FALSE
INVARIANTS DecisionsSound
PROPERTIES StaleTrackersGo CommandsEnd MemorySpec
