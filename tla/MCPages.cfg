SPECIFICATION Spec
CONSTANTS
    Profiles = {p1}
    Commands = {cmd}
    Files = {own, f1}
    OwnFile = own
    None = None
    Bad = bad
    Fills <- MCFills
    MaxCalls = 3
    SettingsClicks = 2
    StartsClicks = 3
    Scenarios <- MCScenarios
INVARIANT ApprovedStarts
PROPERTY UnderPermissions
CHECK_DEADLOCK FALSE
