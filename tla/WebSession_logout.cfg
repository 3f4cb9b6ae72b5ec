SPECIFICATION Spec
CONSTANTS
    Tabs = {A}
    Queries = {q}
    Nobody = Nobody
    OTPMaxAttempts = 2
    MaxTokens = 3
    MaxCodes = 1
    MaxLoads = 1
    MaxExpiries = 1
    MaxFaults = 0
CHECK_DEADLOCK FALSE
PROPERTIES LogoutRevokes
