\* Nothing fails: an update arrives after the entry behind it was stored, or during a flush.
SPECIFICATION SyncSpec
CONSTANTS
    p1 = p1
    f1 = f1
    f2 = f2
    r1 = r1
    r2 = r2
    NoReader = NoReader
    Process = {p1}
    Reader = {r1}
    Flusher = {f1, r1}
    MaxIndex = 1
    MaxVersion = 1
    MaxFaults = 0
    hash <- MCHash
INVARIANTS EndIsConsistent
