\* One process, two goroutines, two indexes; an entry changes twice.
SPECIFICATION FairSpec
CONSTANTS
    p1 = p1
    f1 = f1
    f2 = f2
    Process = {p1}
    Flusher = {f1, f2}
    MaxIndex = 1
    MaxVersion = 2
    hash <- MCHash
INVARIANTS CheckpointIsStored NoQuietLoss
PROPERTIES StoreNeverRegresses FlushEnds
