CONSTANTS
    s1 = s1  s2 = s2  s3 = s3
    Sessions = {s1, s2, s3}
    Id <- MCId
    Start <- MCStart
    Protocol <- MCProtocol
    MaxTime = 5
    WeekLen = 2
    Lag = 1
    MaxWait = 2
    Deaths = 1
    PageLimit <- MCPageLimit
    MaxPages = 2
    Hits <- MCHits
    Ip <- MCIp
    AsnFile <- MCAsnFile
    Exports = 1
SPECIFICATION Spec
CHECK_DEADLOCK FALSE
INVARIANTS PublishedSound RowsSound
PROPERTIES PublishedStays WeeksGetPublished
