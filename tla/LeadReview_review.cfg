SPECIFICATION ReviewSpec
CONSTANTS
    NLeads = 2
    PageSize = 1
    Requests = {r1, r2}
    MaxDecisions = 2
    MaxLoads = 2
    MaxSurprises = 1
SYMMETRY Slots
INVARIANTS
    NothingLost
    NoLeadSkipped
    QueueExplained
CHECK_DEADLOCK FALSE
