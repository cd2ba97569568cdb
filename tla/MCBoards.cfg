\* Two sessions of the card; two workspaces and three entries in its dialog; two
\* agents; two projects with three issues; two fields; two messages; two dialogs.
SPECIFICATION BoardsSpec
CHECK_DEADLOCK FALSE
CONSTANTS
    a = a
    b = b
    p = p
    q = q
    i = i
    j = j
    k = k
    t = t
    u = u
    todo = todo
    done = done
    plan = plan
    plan2 = plan2
    test = test
    deploy = deploy
    long = long
    proposal = proposal
    report = report
    msg = msg
    feature = feature
    main = main
    None = None
    MaxSessions = 2
    MaxAsks = 5
    MaxBreaks = 3
    Workspace = {a, b}
    Text = {hello}
    MaxLog = 3
    MaxCalls = 3
    MaxLost = 1
    NewIssue = {n}
    Agent = {claude, codex}
    Target = {r1, r2}
    Usual = claude
    Preferred = r1
    Silent = {claude}
    MaxCreate = 6
    Project = {p, q}
    Issue = {i, j, k}
    Status = {todo, done}
    Title = {t, u}
    Fresh = {j}
    MaxIssueCalls = 4
    MaxTyped = 2
    PanelIssue = {i, j}
    MaxPanelCalls = 3
    MaxQuestions = 4
    MaxDialogs = 2
    MaxPanels = 3
    MaxRequests = 2
INVARIANTS BoardIsWatched DialogIsWatched ShowsItsOwn  
           BoardIsCurrent TypedIsStored TextIsStored  StreamEndsWithPanel
           TitleIsKept
