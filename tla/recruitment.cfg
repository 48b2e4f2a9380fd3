\* Two ushers of one event or two events of one usher, three sets of terms on two days.
CONSTANTS
    e1 = e1  e2 = e2  u1 = u1  u2 = u2
    Events = {e1, e2}
    Ushers = {u1, u2}
    Barrable = {u2}
    Terms <- TwoDays
    Pools <- Pairs
    Hours = 2
SPECIFICATION Spec
INVARIANTS Agreed ScheduleKept Staffed
