\* Two sessions and a page that is resized, refused and cut off; a development
\* server that is started and stopped three times.
SPECIFICATION HomeSpec
CHECK_DEADLOCK FALSE
CONSTANTS
    NoSession = NoSession
    Session = {s1, s2}
    MaxTasks = 3
    MaxFailures = 3
    MaxMoves = 3
    MaxStarts = 3
    MaxJobs = 3
    MaxErrors = 2
INVARIANTS NoStraySockets ShownAsItRuns
PROPERTIES LinksRecover ButtonReturns
