SPECIFICATION MCLoopSpec
CONSTANTS
    f1 = f1
    f2 = f2
    f3 = f3
    za = za
    zb = zb
    c1 = c1
    c2 = c2
    Items = {f1, f2, f3}
    Zones = {za, zb}
    Tokens = {t1, t2, t3}
    Callers = {c1, c2}
    NoItem = NoItem
    NoToken = NoToken
    Rank <- MCRank
    ZoneSets <- MCApart
    SeedDeps <- MCQueues
    Leases = {1}
    Asked = {"implemented"}
    MaxCandidates = 2
    Tools <- MCAskingTools
    Steady = {c2}
PROPERTIES LapsedLockGoes ExpiredRecovered FirstIsServed ClaimRespectsLocks
