CONSTANTS
    c1 = c1  c2 = c2
    Channels = {c1, c2}
    MaxChannels = 2
    MaxCommands = 2
    MaxInputBytes = 3
    MaxRejected = 1
    MaxAuthTries = 1
    InputSizes = {1, 2}
SPECIFICATION FairSpec
INVARIANTS RecordSound
PROPERTIES SessionIsSaved RefusalEndsSession
