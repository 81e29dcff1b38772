SPECIFICATION RuledSpec
CONSTANTS
    f1 = f1
    f2 = f2
    f3 = f3
    za = za
    zb = zb
    c1 = c1
    c2 = c2
    Items = {f1, f2}
    Zones = {za, zb}
    Tokens = {t1, t2, t3, t4}
    Callers = {c1, c2}
    NoItem = NoItem
    NoToken = NoToken
    Rank <- MCRank
    ZoneSets <- MCZoneSets
    SeedDeps <- MCAnyDep
    Leases = {2}
    Asked = {"in_progress", "blocked"}
    MaxCandidates = 2
    Tools <- MCAgentTools
    Steady = {}
SYMMETRY MCSymmetry
INVARIANTS TypeOK Covered
PROPERTIES NeverStolen LeaseSpec
