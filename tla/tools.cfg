SPECIFICATION Spec
CONSTANTS
    p1 = p1
    p2 = p2
    d1 = d1
    d2 = d2
    Products = {p1, p2}
    First = p1
    Nothing = nothing
    Nodes = {1, 2}
    Sessions = {1, 2}
    Preselected = {p1, nothing}
    Picked = {dx, d2}
    There = dx
    Own <- MCOwn
    Files = {code, readme}
    OnDisk = {readme}
    MaxRows = 3
    Models = {whisper}
    PlannerActs <- FewActs
    IdeActs <- FewActs
    ChatActs <- MoreActs
    PhoneActs <- FewerActs
INVARIANTS TypeOK OneTurn NothingHidden AppliedOnce MicReleased FilesAsShown OwnProposal OwnContext 
PROPERTY Settles
CHECK_DEADLOCK FALSE
