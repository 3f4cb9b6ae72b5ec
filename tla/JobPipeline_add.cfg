\* One dialog and one request for a new URL, a listed one or a text; two
\* statements fail of their own.
SPECIFICATION FairSpec
CONSTANTS
    Modals = {m}
    MaxPosts = 1
    Urls = {u, v}
    NoUrl = NoUrl
    Listed = {v}
    None = None
    MaxFaults = 2
CHECK_DEADLOCK FALSE
INVARIANTS SavedWhenTold
PROPERTIES FormNotTakenOver ProcessingEnds
