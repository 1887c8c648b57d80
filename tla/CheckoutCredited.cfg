CONSTANTS
    Kinds = {"topup"}
    Creator = Creator
    Webhooks = {w1}
    Polls = {}
    Cleaners = {c1}
    Redelivers = TRUE
    MaxFaults = 1
    None = None
SPECIFICATION Spec
INVARIANT
    CompletedMeansCredited
CHECK_DEADLOCK FALSE
