SPECIFICATION DialogSpec
CONSTANTS
    Workspace = {a, b}
    Text = {hello}
    Nothing = nothing
    MaxLog = 3
    MaxCalls = 3
    MaxLost = 1
CHECK_DEADLOCK FALSE
PROPERTIES
    PushedIsShown
