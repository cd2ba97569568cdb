\* One key and three timers; with and without Redis.
SPECIFICATION Spec
CONSTANTS
    k1 = k1
    t1 = t1
    t2 = t2
    t3 = t3
    NoTimer = NoTimer
    Key = {k1}
    Timer = {t1, t2, t3}
    Window = 2
    MaxLag = 1
    MaxFrames = 4
INVARIANTS LastFrameSurvives
           SentOnce
PROPERTIES TakenApart
           DeliversTheLatest
