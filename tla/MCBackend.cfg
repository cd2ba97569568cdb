\* One entry with one change, a change of Redis' health and a restart; a workspace
\* that is built or updated over two ticks and a restart.
SPECIFICATION BackendSpec
CONSTANTS
    p1 = p1
    f1 = f1
    g1 = g1
    g2 = g2
    w1 = w1
    Process = {p1}
    Flusher = {f1}
    Worker = {g1}
    NoWorker = NoWorker
    MaxIndex = 0
    MaxVersion = 1
    RetryMax = 2
    MaxSwitches = 1
    MaxRestarts = 1
    hash <- MCHash
    Workspace = {w1}
    threshold <- OneThreshold
    MaxTime = 2
    MaxBuilds = 1
    MaxUpdates = 1
    MaxRuns = 1
INVARIANTS  WaitIsBounded
PROPERTIES NoRepeat
