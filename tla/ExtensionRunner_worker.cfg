\* Two applications, one tick, one fault and one thing done by hand.
SPECIFICATION FairSpec
CONSTANTS
    Apps = {a, b}
    NoApp = NoApp
    TickLimit = 2
    Tries = 1
    MaxReportAttempts = 1
    MaxFaults = 1
    MaxByHand = 1
    MaxTicks = 1
INVARIANTS ClaimsAccounted BegunOncePerTick
PROPERTIES OneAtATime TickEnds OutboxDrains
