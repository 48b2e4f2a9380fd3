\* A withdrawal of this release and one of an older release share a wallet that holds
\* one kobo, next to a commission sweep: one worker, one fault.
CONSTANTS
    w1 = w1  w2 = w2  s1 = s1  p1 = p1  p2 = p2  p3 = p3
    None = None
    Withdrawals = {w1, w2}
    Sweeps = {s1}
    Legacy = {w2}
    Procs = {p1}
    Amount <- AmountOne
    MaxBalance = 1
    EarnedInit = 1
    MaxEarned = 2
    MaxFaults = 1
SPECIFICATION Spec
INVARIANT SweepOnce
PROPERTY ImplementsWithdrawal
