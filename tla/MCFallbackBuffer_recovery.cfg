\* One entry of one process while Redis comes back.
SPECIFICATION FallbackSpec
CONSTANTS
    p1 = p1
    f1 = f1
    g1 = g1
    g2 = g2
    Process = {p1}
    Flusher = {f1}
    Worker = {g1}
    NoWorker = NoWorker
    MaxIndex = 0
    MaxVersion = 1
    RetryMax = 2
    MaxSwitches = 1
    MaxRestarts = 0
    hash <- MCHash
PROPERTIES MemoryIsDrained
