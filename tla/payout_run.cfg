\* Two wallets, two paydays, two administrators, two executions side by side, an
\* erasure, one fault.
CONSTANTS
    b1 = b1  b2 = b2  a1 = a1  a2 = a2  q1 = q1  q2 = q2
    None = None
    Wallets = {1, 2}
    Accounts <- OneEachOrTwo
    Periods = {1, 2}
    Admins = {a1, a2}
    Procs = {q1, q2}
    MinPayout = 1
    Credits = {1}
    MaxEarned = 1
    Statuses <- SecondLeaves
    MaxFaults = 1
SPECIFICATION Spec
SYMMETRY Symmetry
INVARIANTS TakenOnce FourEyes ExecutedIsComplete
PROPERTIES ImplementsPayroll
