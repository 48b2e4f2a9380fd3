\* A booking below the approval threshold, from more than 48 hours before its start: two
\* processes, two disputes, one fault.
CONSTANTS
    b1 = b1  b2 = b2  p1 = p1  p2 = p2  a1 = a1  a2 = a2
    None = None
    Bookings = {b1}
    Large = {}
    Procs = {p1, p2}
    Admins = {a1}
    Pay <- PayThree
    Fee <- FeeOne
    StartPhases = {0}
    MaxDisputes = 2
    MaxFaults = 1
SPECIFICATION Spec
SYMMETRY ProcSymmetry
INVARIANTS TypeOK PaidOnce Recordable
PROPERTY ImplementsCustody
