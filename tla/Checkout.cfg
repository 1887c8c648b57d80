CONSTANTS
    Kinds = {"topup", "subscription", "addon", "modify", "invoice"}
    Creator = Creator
    Webhooks = {w1}
    Polls = {p1}
    Cleaners = {c1}
    Redelivers = TRUE
    MaxFaults = 2
    None = None
SPECIFICATION Spec
INVARIANTS
    TypeOK
    CompletedMeansDelivered
    EndedMeansWithdrawn
PROPERTIES
    ImplementsPromise
    SessionEnds
CHECK_DEADLOCK FALSE
