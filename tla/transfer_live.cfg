\* Fair recovery, a redelivered failure only where the property assumes it: two processes, one fault.
CONSTANTS
    w1 = w1  w2 = w2  s1 = s1  p1 = p1  p2 = p2  p3 = p3
    None = None
    Withdrawals = {w1}
    Sweeps = {}
    Legacy = {}
    Procs = {p1, p2}
    Amount <- AmountOne
    MaxBalance = 2
    EarnedInit = 1
    MaxEarned = 2
    MaxFaults = 1
SPECIFICATION FairSpec
INVARIANTS Inductive Conservation OneDispatcher
PROPERTIES EventuallySettled EventuallyReturned
