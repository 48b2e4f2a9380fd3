---------------------------- MODULE Reservation ----------------------------
(***************************************************************************)
(* What a checkout of HireQuick promises about seats and money.  A batch of *)
(* seats is reserved at once, within the headcount of the event and for    *)
(* staff who are free; then it is confirmed as a whole by a payment, or    *)
(* freed as a whole.  A payment for freed seats never brings them back: it *)
(* is owed to the client until all of it is returned.                      *)
(***************************************************************************)
EXTENDS Integers, FiniteSets

CONSTANTS Orders, Ushers, Events, Headcount, None

VARIABLES
    fate,     \* of the order
    at,       \* the event of the order
    seats     \* the ushers whose seats the order occupies

vars == <<fate, at, seats>>

Fates == {"none", "reserved", "confirmed", "freed", "owed", "returned"}

Occupants(e) == {s \in Orders \X Ushers : at[s[1]] = e /\ s[2] \in seats[s[1]]}
Engaged(u) == \E o \in Orders : u \in seats[o]

ReservationInit ==
    /\ fate \in [Orders -> {"none", "reserved"}]
    /\ at \in [Orders -> Events \cup {None}]
    /\ seats \in [Orders -> SUBSET Ushers]
    /\ \A o \in Orders : fate[o] = "none" => at[o] = None /\ seats[o] = {}

Reserve(o, e, S) ==
    /\ fate[o] = "none" /\ S # {}
    /\ Cardinality(Occupants(e)) + Cardinality(S) <= Headcount[e]
    /\ \A u \in S : ~Engaged(u)
    /\ fate' = [fate EXCEPT ![o] = "reserved"]
    /\ at' = [at EXCEPT ![o] = e]
    /\ seats' = [seats EXCEPT ![o] = S]

Confirm(o) ==
    /\ fate[o] = "reserved"
    /\ fate' = [fate EXCEPT ![o] = "confirmed"]
    /\ UNCHANGED <<at, seats>>

Free(o) ==
    /\ fate[o] = "reserved"
    /\ fate' = [fate EXCEPT ![o] = "freed"]
    /\ seats' = [seats EXCEPT ![o] = {}]
    /\ UNCHANGED at

\* One member of a confirmed batch is cancelled.
Leave(o, u) ==
    /\ fate[o] = "confirmed"
    /\ seats' = [seats EXCEPT ![o] = @ \ {u}]
    /\ UNCHANGED <<fate, at>>

PayLate(o) ==
    /\ fate[o] = "freed"
    /\ fate' = [fate EXCEPT ![o] = "owed"]
    /\ UNCHANGED <<at, seats>>

Return(o) ==
    /\ fate[o] = "owed"
    /\ fate' = [fate EXCEPT ![o] = "returned"]
    /\ UNCHANGED <<at, seats>>

ReservationNext ==
    \E o \in Orders :
        \/ Confirm(o) \/ Free(o) \/ PayLate(o) \/ Return(o)
        \/ \E u \in seats[o] : Leave(o, u)
        \/ \E e \in Events, S \in SUBSET Ushers : Reserve(o, e, S)

ReservationSpec == ReservationInit /\ [][ReservationNext]_vars
=============================================================================
