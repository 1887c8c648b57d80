CONSTANTS
    c1 = c1
    d1 = d1
    m1 = m1
    x1 = x1
    Procs = {p1, p2}
    Readers = {r1}
    Credits = {c1}
    Debits = {d1}
    ManualDebits = {m1}
    Purchases = {x1}
    AmountOf <- MCAmountOf
    Amounts = {1, 2, 3}
    CacheEnabled = TRUE
    Free = Free
SPECIFICATION Spec
INVARIANTS
    LockedReadIsCurrent
