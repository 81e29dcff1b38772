SPECIFICATION Spec
CONSTANTS
    Items = {w1}
    Runs = {r1, r2}
    Servers = {s1, s2}
    Operators = {}
    NoItem = NoItem
    NoRun = NoRun
    NoStage = NoStage
    Required <- MCRequired
    MaxConcurrent = 1
    MaxCrashes = 0

INVARIANT OneActive
