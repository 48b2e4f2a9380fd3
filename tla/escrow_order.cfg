\* Two bookings of one order, each with a life of its own.  Bookings paid out are
\* final: nothing happens any more, which is no deadlock.
CONSTANTS
    b1 = b1  b2 = b2  p1 = p1  p2 = p2  a1 = a1  a2 = a2
    None = None
    Bookings = {b1, b2}
    Large = {}
    Procs = {p1}
    Admins = {}
    Pay <- PayThree
    Fee <- FeeOne
    StartPhases = {1}
    MaxDisputes = 1
    MaxFaults = 0
SPECIFICATION Spec

INVARIANT OrderAddsUp
CHECK_DEADLOCK FALSE
