\* Fair jobs, one fault, a booking past its start and grace.  A booking paid
\* out is final: nothing happens any more, which is no deadlock.
CONSTANTS
    b1 = b1  b2 = b2  p1 = p1  p2 = p2  a1 = a1  a2 = a2
    None = None
    Bookings = {b1}
    Large = {}
    Procs = {p1, p2}
    Admins = {}
    Pay <- PayThree
    Fee <- FeeOne
    StartPhases = {3}
    MaxDisputes = 1
    MaxFaults = 1
SPECIFICATION FairSpec

PROPERTIES EventuallyRecorded EventuallyDivided
CHECK_DEADLOCK FALSE
