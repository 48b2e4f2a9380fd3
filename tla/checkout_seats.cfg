\* Two orders that compete for the seats of two overlapping events, e1 with one seat
\* and e2 with two, one process for requests and jobs; the account may be suspended, no
\* faults, the clock before the start.
CONSTANTS
    o1 = o1  o2 = o2  u1 = u1  u2 = u2  e1 = e1  e2 = e2  p1 = p1  w = w
    Orders = {o1, o2}
    Legacy = {}
    Ushers = {u1, u2}
    Events = {e1, e2}
    Headcount <- OneAndTwo
    Handlers = {w}
    Worker = w
    None = None
    Accounts = {"ACTIVE", "SUSPENDED"}
    LastPhase = 0
    MaxFaults = 0
SPECIFICATION Spec
SYMMETRY Symmetry
INVARIANT SeatsAgree
PROPERTIES ImplementsReservation
\* When every seat is taken and every page paid, nothing is left to do.
CHECK_DEADLOCK FALSE
