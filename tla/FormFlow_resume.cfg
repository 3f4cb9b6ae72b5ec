SPECIFICATION Spec
CONSTANTS
    Tabs = {t}
    MaxHops = 1
    MaxRuns = 2
    MaxLost = 1
    MaxByHand = 1
CHECK_DEADLOCK FALSE
INVARIANTS RunLimits AcceptedOnce SubmittedWasAccepted
PROPERTIES PressedAgainOnErrors GivenUpUnsent
