CONSTANTS
    p1 = p1  p2 = p2  big = big  d1 = d1  d2 = d2
    NoOne = NoOne
    Payloads = {p1, p2, big}
    Drainers = {d1, d2}
    Size <- MCTornSize
    MaxPayload = 2
    MaxBytes = 4
    TornWrites = TRUE
    NetFaults = 4
    DiskFaults = 1
    Crashes = 1
SPECIFICATION FairSpec
INVARIANTS TypeOK NoSilentLoss Custody DeliverySound
PROPERTIES EnqueueKeepsFreshest QueueEmpties
