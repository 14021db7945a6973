CONSTANTS
    a = a  b = b  c = c  kit = kit
    NaN = NaN  Inf = Inf  Unknown = Unknown  None = None
    Kit <- MCKit
    Jobs <- MCJobs
    Losses = {1, 2}
    Ks = {1, 2}
    Runs = 2
    Crashes = 1
SPECIFICATION ModelSpec
CHECK_DEADLOCK FALSE
INVARIANTS NoLeak StepsFit FilesAreOwn RetrievalSound
