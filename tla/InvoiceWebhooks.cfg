CONSTANTS
    g1 = g1
    d1 = d1
    Procs = {p1, p2}
    Gateway = {g1}
    Direct = {d1}
    AmountOf <- MCAmountOf
    Due = 2
    Free = Free
SPECIFICATION Spec
INVARIANTS
    PaymentCountedOnce
CHECK_DEADLOCK FALSE
