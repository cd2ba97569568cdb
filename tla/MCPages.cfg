\* Two tabs, three workspaces and two panes on a page; a log of four entries in pages
\* of two; three edits and three requests of a composer; two todos; three clicks.
SPECIFICATION PagesSpec
CHECK_DEADLOCK FALSE
CONSTANTS
    a = a
    b = b
    c = c
    None = None
    Workspace = {a, b, c}
    MaxOpen = 2
    Tab = {t1, t2}
    Running = {t1}
    Boards <- SomeBoards
    FirstView <- TwoPanes
    MaxEvents <- Events
    MaxBreaks = 1
    MaxLog = 4
    MaxVersion = 2
    Limit = 2
    MaxLoads = 3
    MaxDrops = 1
    Blank = Blank
    Nothing = Nothing
    Text = {x, y}
    Button = {go}
    Todo = {task}
    MaxEdits = 3
    MaxCalls = 3
    MaxFailures = 1
    MaxTodos = 2
    MaxTexts = 3
    MaxRequests = 4
    MaxErrors = 1
    MaxClicks = 3
    MaxTimers = 2
INVARIANTS PagesAreSound PutAwayStaysAway  PaneIsCurrent PanelIsCurrent
           WithdrawnIsNotStored 
PROPERTIES FramesOnlyAdd DraftIsKept
