CONSTANTS
    c1 = c1
    c2 = c2
    Credits = {c1, c2}
    AmountOf <- MCAmountOf
    ExpiryOf <- MCExpiryOf
    NumPeriods = 2
    Length = 2
    BusyHours = {0, 1, 2}
    ByHand = {1}
    AddTimes = {0, 2}
    MaxUsage = 1
    Lateness = 1
    Grace = 1
    Hold = 2
    MaxTime = 5
SPECIFICATION Spec
INVARIANTS
    TypeOK
    AppliedWasDebited
    CreditPaysEarlierUsage
PROPERTIES
    CreditExpiresOverPaidUsage
    EndedPeriodIsBilled
CHECK_DEADLOCK FALSE
