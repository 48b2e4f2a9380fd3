------------------------------ MODULE Custody ------------------------------
(***************************************************************************)
(* What the escrow of HireQuick promises of the money a client paid for a  *)
(* booking: it is held until it is divided, once and completely, between   *)
(* the staff member, the platform and the client.  A dispute freezes it;   *)
(* frozen money never goes to the staff member without being thawed first, *)
(* and earnings leave only when the dispute window has closed.             *)
(***************************************************************************)
EXTENDS Integers

CONSTANTS
    Bookings,
    Pay, Fee,    \* staff pay and platform fee of each booking
    Splits       \* percentages of a booking a cancellation may return

Gross(b) == Pay[b] + Fee[b]

VARIABLES
    custody,     \* "held", "frozen" or "spent"
    staff,       \* what the staff member was credited
    platform,    \* what the platform kept
    client,      \* what was returned to the client
    closed       \* whether the dispute window has closed

vars == <<custody, staff, platform, client, closed>>

Returned(part, percent) == (part * percent) \div 100

\* A payment confirmed late may find the dispute window closed.
CustodyInit ==
    /\ custody = [b \in Bookings |-> "held"]
    /\ staff = [b \in Bookings |-> 0]
    /\ platform = [b \in Bookings |-> 0]
    /\ client = [b \in Bookings |-> 0]
    /\ closed \in BOOLEAN

Spend(b, s, f, c) ==
    /\ custody[b] # "spent"
    /\ custody' = [custody EXCEPT ![b] = "spent"]
    /\ staff' = [staff EXCEPT ![b] = s]
    /\ platform' = [platform EXCEPT ![b] = f]
    /\ client' = [client EXCEPT ![b] = c]
    /\ UNCHANGED closed

\* The staff member earns the booking after the dispute window, never while frozen.
Earn(b) == closed /\ custody[b] = "held" /\ Spend(b, Pay[b], Fee[b], 0)

\* Everything goes back to the client: no-show, cancellation, refund, dispute.
GiveBack(b) == Spend(b, 0, 0, Gross(b))

\* A late cancellation by the client divides each part at the policy percentage.
Divide(b, percent) ==
    LET p == Returned(Pay[b], percent)
        f == Returned(Fee[b], percent)
    IN  custody[b] = "held" /\ Spend(b, Pay[b] - p, Fee[b] - f, p + f)

Freeze(b) ==
    /\ ~closed /\ custody[b] = "held"
    /\ custody' = [custody EXCEPT ![b] = "frozen"]
    /\ UNCHANGED <<staff, platform, client, closed>>

Thaw(b) ==
    /\ custody[b] = "frozen"
    /\ custody' = [custody EXCEPT ![b] = "held"]
    /\ UNCHANGED <<staff, platform, client, closed>>

\* A decision for the staff member after the deadline thaws and pays at once.
ThawAndEarn(b) == closed /\ custody[b] = "frozen" /\ Spend(b, Pay[b], Fee[b], 0)

Close == closed' = TRUE /\ UNCHANGED <<custody, staff, platform, client>>

CustodyNext ==
    \/ Close
    \/ \E b \in Bookings :
        \/ Earn(b) \/ GiveBack(b) \/ Freeze(b) \/ Thaw(b) \/ ThawAndEarn(b)
        \/ \E percent \in Splits : Divide(b, percent)

CustodySpec == CustodyInit /\ [][CustodyNext]_vars
=============================================================================
