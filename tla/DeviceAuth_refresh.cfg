SPECIFICATION Spec
CONSTANTS
    Worker = Worker
    Panel = Panel
    callW = callW
    callP = callP
    Calls = {callP}
    Home <- MCHome
    Handshakes = {h}
    Nobody = Nobody
    MaxExchanges = 2
    MaxTokens = 3
    DeviceCap = 1
    MaxFaults = 1
CHECK_DEADLOCK FALSE
INVARIANTS
    TheftOnlyAfterLoss
    DevicesCapped
PROPERTIES
    ForgetsOnlyDead
