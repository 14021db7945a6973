CONSTANTS
    s1 = s1  s2 = s2  s3 = s3  s4 = s4  s5 = s5  s6 = s6  a = a  b = b
    Sess = {s1, s2, s3, s4, s5, s6}
    Ip <- MCIp
    Protocol <- MCProtocol
    Attempts <- MCAttempts
    Unknown = Unknown
    Spliced = Spliced
    Before = {s1, s2, s3}
    WordlistLen = 2
    MinSessions = 2
    Commands = 2
    Reviewed = {1, 2, 3}
    AttackerClass <- MCAttackerClass
    AttackerClasses = {"automated_scanner", "apt"}
    AtFirst = {1, 2}
    PerClass = 1
    MaxSamples = 2
SPECIFICATION CorporaSpec
CHECK_DEADLOCK FALSE
INVARIANTS LabelsHold LoadedIsPrefix ReviewSound
