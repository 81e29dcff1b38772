SPECIFICATION Spec
CONSTANTS
    Items = {w1, w2}
    Runs = {r1, r2}
    Servers = {s1}
    Operators = {}
    NoItem = NoItem
    NoRun = NoRun
    NoStage = NoStage
    Required <- MCRequired
    MaxConcurrent = 1
    MaxCrashes = 0

INVARIANT WithinCapacity
