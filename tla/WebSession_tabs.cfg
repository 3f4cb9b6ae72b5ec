SPECIFICATION Spec
CONSTANTS
    Tabs = {A, B}
    Queries = {q}
    Nobody = Nobody
    OTPMaxAttempts = 2
    MaxTokens = 3
    MaxCodes = 1
    MaxLoads = 2
    MaxExpiries = 1
    MaxFaults = 1
SYMMETRY TabSymmetry
CHECK_DEADLOCK FALSE
INVARIANTS OneRefresherServesAll AlarmsExplained GuessesBounded
