------------------------------ MODULE Payroll -------------------------------
(***************************************************************************)
(* What a weekly payout promises: a list of lines is approved as a whole   *)
(* and never changes afterwards; each of its lines is paid at most once,   *)
(* in exactly the amount and to the account that were approved.            *)
(***************************************************************************)
CONSTANTS
    Periods, Payees,
    Lists,                 \* some of the payees, each with a line
    NotApproved, Unpaid

VARIABLES approved, paid   \* the approved list of each period, and what was paid

payroll == <<approved, paid>>

PayrollInit ==
    /\ approved = [p \in Periods |-> NotApproved]
    /\ paid = [p \in Periods |-> [w \in Payees |-> Unpaid]]

Approve(p) ==
    /\ approved[p] = NotApproved
    /\ \E list \in Lists : approved' = [approved EXCEPT ![p] = list]
    /\ UNCHANGED paid

Pay(p, w) ==
    /\ approved[p] # NotApproved
    /\ w \in DOMAIN approved[p]
    /\ paid[p][w] = Unpaid
    /\ paid' = [paid EXCEPT ![p][w] = approved[p][w]]
    /\ UNCHANGED approved

PayrollNext == \E p \in Periods : Approve(p) \/ \E w \in Payees : Pay(p, w)

PayrollSpec == PayrollInit /\ [][PayrollNext]_payroll
=============================================================================
