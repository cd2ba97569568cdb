\* Redis: two goroutines that flush, one entry and a change of its health, under fairness.
SPECIFICATION FairFallbackSpec
CONSTANTS
    p1 = p1
    f1 = f1
    g1 = g1
    g2 = g2
    Process = {p1}
    Flusher = {f1}
    Worker = {g1, g2}
    NoWorker = NoWorker
    MaxIndex = 0
    MaxVersion = 0
    RetryMax = 2
    MaxSwitches = 1
    MaxRestarts = 1
    hash <- MCHash
PROPERTIES QueueDrains
