SPECIFICATION TrackerSpec
CONSTANTS
    Jobs = {j1}
    List = List
    Nil = Nil
    Requests = {r1, r2}
    Agents = {a1}
    MaxMoves = 2
    MaxAdvances = 1
    MaxFaults = 1
    MaxReads = 2
SYMMETRY Symmetry
INVARIANTS AppliedDated ViewsSettle
CHECK_DEADLOCK FALSE
