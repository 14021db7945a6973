CONSTANTS
    s1 = s1  s2 = s2  uptime = uptime  o1 = o1  o2 = o2  a = a  b = b  t1 = t1  t2 = t2
    None = None
    Sessions = {s1, s2}
    Commands = {uptime}
    Outputs = {o1, o2}
    Providers = {a}
    Threads = {t1, t2}
    MaxPerSession = 2
    RateLimit = 2
    RateWindow = 2
    FailureThreshold = 2
    Cooldown = 2
    SessionTTL = 2
    MaxTime = 4
    MaxRequests = 4
SPECIFICATION Spec
SYMMETRY Symmetry
INVARIANTS BudgetsHold
PROPERTIES AnswerSettles SickProviderRests
