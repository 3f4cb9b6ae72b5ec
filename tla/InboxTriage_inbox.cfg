\* One process; one mail to two users, only one of whom has an application,
\* and a later mail to that one.
SPECIFICATION FairSpec
CONSTANTS
    e1 = e1
    e2 = e2
    u = u
    v = v
    Instances = {i1}
    Deliveries = {d1}
    Emails = {e1, e2}
    Users = {u, v}
    NRows = 3
    EmailOf <- BothThenOne
    UserOf <- Recipients
    Applicants = {u}
    Spoofed = {}
    Kinds = {"confirmation", "interview"}
    None = None
    BatchSize = 2
    MaxTriageAttempts = 2
    MaxIncidents = 1
CHECK_DEADLOCK FALSE
INVARIANTS OutcomeKept AlertedOnce
PROPERTIES MailStored TriageEnds
