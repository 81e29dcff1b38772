SPECIFICATION Spec
CONSTANTS
    agent1 = agent1
    agent2 = agent2
    team1 = team1
    skill1 = skill1
    skill2 = skill2
    member = member
    scope = scope
    policy = policy
    p1 = p1
    p2 = p2
    p3 = p3
    a1 = a1
    a2 = a2
    a3 = a3
    c1 = c1
    c2 = c2
    f1 = f1
    f2 = f2
    s1 = s1
    s2 = s2
    t1 = t1
    Nobody = Nobody
    Agents = {agent1, agent2}
    Teams = {team1}
    Skills = {skill1, skill2}
    Facts = {member, scope, policy}
    About <- MCAbout
    FactSort <- MCFactSort
    There = {agent1, team1, skill1}
    RowIds = {p1, p2, p3, a1, a2, a3, c1, c2, f1, f2, s1, s2, t1}
    RowSort <- MCRowSort
    StartRows <- MCStart
    Items = {1, 2, 3}
    StartItems = 2
    PageSize = 2
    MaxRuns = 2
    Procs = {app, bridge}
    ToolRuns = {r1, r2}
    Imports = {i1}
    Chunks = 2
    RegistryActs <- FewActs
    CatalogActs <- MoreActs
    ItemActs <- FewActs
    ToolActs <- CrashActs
    ImportActs <- FewActs
INVARIANTS TypeOK OwnForm UnderOpened LinksAsPicked FreshTree OwnRun AsReported
CHECK_DEADLOCK FALSE
