-------------------------- MODULE MCBookingEscrow --------------------------
(* Small instances of BookingEscrow for TLC. *)
EXTENDS BookingEscrow, TLC

CONSTANTS b1, b2, p1, p2, a1, a2

\* An odd price: three kobo of staff pay and one of fee.
PayThree == [b \in Bookings |-> 3]
FeeOne == [b \in Bookings |-> 1]
ProcSymmetry == Permutations(Procs)
Symmetry == ProcSymmetry \cup Permutations(Admins)
=============================================================================
