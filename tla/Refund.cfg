CONSTANTS
    Procs = {p1, p2}
    Amounts <- MCAmounts
    Refundable = {1, 2}
    Unsupported = {2}
    Total = 3
    Prepaid = 1
    Notes = {n1}
    Void = Void
    None = None
SYMMETRY Alike
SPECIFICATION Spec
INVARIANTS
    TypeOK
    PromisedIsDue
    RefundedIsPromised
    StatusTellsWhoPaid
PROPERTIES
    ImplementsPromise
CHECK_DEADLOCK FALSE
