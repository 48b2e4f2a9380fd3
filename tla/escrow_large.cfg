\* A booking above the threshold, two administrators.  A booking paid out is final:
\* nothing happens any more, which is no deadlock.
CONSTANTS
    b1 = b1  b2 = b2  p1 = p1  p2 = p2  a1 = a1  a2 = a2
    None = None
    Bookings = {b1}
    Large = {b1}
    Procs = {p1, p2}
    Admins = {a1, a2}
    Pay <- PayThree
    Fee <- FeeOne
    StartPhases = {1}
    MaxDisputes = 1
    MaxFaults = 0
SPECIFICATION Spec
SYMMETRY Symmetry
INVARIANTS ApprovalsHonoured PaidIsUndisputed
CHECK_DEADLOCK FALSE
