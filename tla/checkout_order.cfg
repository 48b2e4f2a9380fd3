\* One order of up to two bookings, new or older than the checkout table, with a
\* request handler and the job, one fault, erasure and reinstatement of the account.
CONSTANTS
    o1 = o1  o2 = o2  u1 = u1  u2 = u2  e1 = e1  e2 = e2  p1 = p1  w = w
    Orders = {o1}
    Legacy = {o1}
    Ushers = {u1, u2}
    Events = {e2}
    Headcount <- OneAndTwo
    Handlers = {p1}
    Worker = w
    None = None
    Accounts = {"ACTIVE", "ANONYMIZED"}
    LastPhase = 1
    MaxFaults = 1
SPECIFICATION FairSpec
INVARIANTS InitializedOnce FollowsEvidence NoUrlAfterErasure
PROPERTIES ChargesSettle EventuallyFreed
