SPECIFICATION OverrideSpec
CONSTANTS
    Items = {w1}
    Runs = {r1}
    Servers = {s1}
    Operators = {o1}
    NoItem = NoItem
    NoRun = NoRun
    NoStage = NoStage
    Required <- MCRequired
    MaxConcurrent = 1
    MaxCrashes = 0

PROPERTY EndedIsFinal
