CONSTANTS
    Assignments = {"A=1"}
    Wrappers = {"sudo", "env"}
    Flags = {"-u"}
    Breaks = {"|"}
    BaseName <- MCBaseName
    Masked <- MCMasked
    BaitOf <- MCBaitOf
    TopK = 3
    MetaTopK = 2
    Events <- MCEvents
    PerMs = 2
    Millis <- MCMillis
    Corpora <- MCCorpora
    Configs <- MCConfigs
    MinSessions = 2
    MinCommands = 1
    RowsPerBatch = 2
    MaxLength = 3
    Headroom = 8
    MinLength = 2
    Window = 1
    MaxFiles = 2
    Docs <- MCDocs
    Tokenizers <- MCTokenizers
    Capacity = 10
    BridgeLength = 2
    EmbeddingDim <- MCEmbeddingDim
    Devices = {"cpu", "cuda"}
    ClassifierFiles = {"none", "bad", "plain", "one", "other", "loose"}
    CentroidFiles = {"none", "bad", "one", "loose"}
    UseLlm = TRUE
SPECIFICATION Spec
CHECK_DEADLOCK FALSE
INVARIANTS LoadedSound EncodingSound ViewsSound EnrichmentSound
