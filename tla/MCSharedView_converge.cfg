\* Two tabs, three workspaces, two panes on a page.
SPECIFICATION ViewSpec
CONSTANTS
    a = a
    b = b
    c = c
    None = None
    Workspace = {a, b, c}
    MaxOpen = 2
    Tab = {t1, t2}
    Running = {t1}
    Boards <- SomeBoards
    FirstView <- TwoPanes
    MaxEvents <- Events
    MaxBreaks = 0
INVARIANTS OnlineTabsConverge
