\* One reader, three entries, one failing call or crash.
SPECIFICATION FairSyncSpec
CONSTANTS
    p1 = p1
    f1 = f1
    f2 = f2
    r1 = r1
    r2 = r2
    NoReader = NoReader
    Process = {p1}
    Reader = {r1}
    Flusher = {f1, r1}
    MaxIndex = 2
    MaxVersion = 0
    MaxFaults = 1
    hash <- MCHash
INVARIANTS 
           NothingStranded
PROPERTIES PositionNeverErased
           StreamIsReleased
