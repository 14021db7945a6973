CONSTANTS
    doc = doc  x = x  y = y
    None = None
    Channels = {c1}
    Sinks = {s1}
    Files = {doc}
    Existing <- MCExisting
    Byte = {x, y}
    MaxChunk = 1
    MaxUploads = 2
    MaxHandles = 2
    MaxMutations = 2
    DirBatch = 1
    MaxFileBytes = 2
    MaxSessionBytes = 2
    MaxTransfers = 1
    MaxDepth = 2
SPECIFICATION Spec
SYMMETRY Symmetry
INVARIANTS TransfersSound
PROPERTIES HashIsHonest
