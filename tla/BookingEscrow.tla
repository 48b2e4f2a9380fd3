--------------------------- MODULE BookingEscrow ---------------------------
(***************************************************************************)
(* The money of one paid order of HireQuick, from the confirmed bookings   *)
(* (holdOrder) to the last kobo paid out or returned: attendance,          *)
(* completion, the 72-hour dispute window, disputes, cancellations,        *)
(* no-shows, administrator refunds, and the refund operation that every    *)
(* one of them drives against the payment provider.                        *)
(*                                                                         *)
(* One step is one database transaction, or one provider call.  Every      *)
(* transaction here takes the event, order and booking locks before it     *)
(* reads what it decides on, so it is one step; what a handler read before *)
(* its first transaction is in the process' task, and may be stale.        *)
(*                                                                         *)
(* Left to other modules: event.status, which no guard here reads; the     *)
(* wallet's balance; the suspension of a repeated late canceller, which    *)
(* reads the audit log of other orders; the amounts of legacy bookings.    *)
(***************************************************************************)
EXTENDS Integers, Sequences, FiniteSets

CONSTANTS
    Bookings,     \* the bookings of the order
    Large,        \* those above the two-administrator threshold
    Pay, Fee,     \* staff pay and platform fee of each booking
    Procs,        \* request handlers, webhook handlers and jobs
    Admins,
    None,
    StartPhases,  \* when the order may be paid, see Phases
    MaxDisputes,  \* bound: disputes of one booking
    MaxFaults     \* bound: crashes, failed transactions, lost provider answers

Gross(b) == Pay[b] + Fee[b]

\* Time: more than 48h before the start, 12-48h, less than 12h or started, past
\* start + grace, past end + grace, past the dispute deadline (end + 72h).
Phases == 0..5
Grace == 3
Ended == 4
Deadline == 5

CancelWindow(ph) == CASE ph = 0 -> "GT_48H" [] ph = 1 -> "BETWEEN_12_48H"
                      [] OTHER -> "LT_12H"
Windows == {"GT_48H", "BETWEEN_12_48H", "LT_12H"}

\* CLIENT_CANCEL: what the client gets back of each part of the price.
RefundPercent(w) == CASE w = "GT_48H" -> 100 [] w = "BETWEEN_12_48H" -> 50 [] OTHER -> 0

Kinds == {"NO_SHOW", "USHER_CANCEL", "CLIENT_CANCEL", "REFUND", "DISPUTE_REFUND",
          "DISPUTE_RELEASE", "RECOVERY", "CALLBACK"}
Precursors == {"NONE", "CANCEL", "NO_SHOW"}
ApprovalIds == [kind : {"CLIENT_CANCEL", "REFUND", "DISPUTE_REFUND", "DISPUTE_RELEASE"},
                booking : Bookings, dispute : 0..MaxDisputes, maker : Admins]

ASSUME EscrowAssumption ==
    /\ Large \subseteq Bookings
    /\ Pay \in [Bookings -> Nat \ {0}] /\ Fee \in [Bookings -> Nat]
    /\ None \notin Procs \cup Bookings \cup ApprovalIds
    /\ StartPhases \subseteq Phases
    /\ MaxDisputes \in Nat /\ MaxFaults \in Nat
    /\ IsFiniteSet(Bookings) /\ Bookings # {}

VARIABLES
    phase,       \* the clock, in Phases
    status,      \* booking.status
    escrow,      \* payment.escrowStatus
    released,    \* RELEASE rows of the escrow ledger, and the wallet credit
    kept,        \* FEE rows
    refunded,    \* REFUND rows
    order,       \* order.status
    arrived,     \* booking.arrivalAssertedAt is set
    checkedIn,   \* booking.checkedInAt is set
    disputes,    \* status of the disputes of a booking, oldest first
    op,          \* status of the BOOKING_REFUND operation
    tried,       \* its attempts > 0
    intent,      \* its payload; by, read by no action, is who reserved it (history)
    approvals,   \* PENDING, APPROVED and EXECUTED approvals
    docked,      \* how often the usher lost reliability for this booking
    bank,        \* the refund at the provider
    posts,       \* refund requests that reached the provider
    pc, task, ev,\* where a process is, what it does, the evidence it carries
    faults

booking == <<status, escrow, arrived, checkedIn, disputes>>
money   == <<released, kept, refunded, order>>
refund  == <<op, tried, intent>>
world   == <<bank, posts>>
procs   == <<pc, task, ev>>
vars == <<phase, booking, money, refund, approvals, docked, world, procs, faults>>

BookingStatus == {"CONFIRMED", "CHECKED_IN", "COMPLETED", "PAID", "DISPUTED",
                  "CANCELLED", "REFUNDED"}
EscrowStatus == {"HELD", "FROZEN", "RELEASED", "REFUNDED"}
OpStatus == {"NONE", "PENDING", "PROVIDER_OK", "RECORDED", "FAILED"}
BankStatus == {"none", "lost", "pending", "processed", "failed"}
Evidence == {"unknown", "pending", "success", "failed"}
Labels == {"idle", "reserve", "begin", "check", "post", "verify", "checkpoint",
           "finalize", "penalty", "repair", "release", "executed"}

NoIntent == [precursor |-> "NONE", window |-> "NONE", dispute |-> 0, by |-> "NONE"]

Init ==
    /\ phase \in StartPhases
    /\ status = [b \in Bookings |-> "CONFIRMED"]
    /\ escrow = [b \in Bookings |-> "HELD"]
    /\ released = [b \in Bookings |-> 0]
    /\ kept = [b \in Bookings |-> 0]
    /\ refunded = [b \in Bookings |-> 0]
    /\ order = "PAID"
    /\ arrived = [b \in Bookings |-> FALSE]
    /\ checkedIn = [b \in Bookings |-> FALSE]
    /\ disputes = [b \in Bookings |-> <<>>]
    /\ op = [b \in Bookings |-> "NONE"]
    /\ tried = [b \in Bookings |-> FALSE]
    /\ intent = [b \in Bookings |-> NoIntent]
    /\ approvals = {}
    /\ docked = [b \in Bookings |-> 0]
    /\ bank = [b \in Bookings |-> "none"]
    /\ posts = [b \in Bookings |-> 0]
    /\ pc = [p \in Procs |-> "idle"]
    /\ task = [p \in Procs |-> None]
    /\ ev = [p \in Procs |-> "unknown"]
    /\ faults = 0

-----------------------------------------------------------------------------
(* Control of a process.                                                   *)

NewTask(kind, b, precursor, d, approval) ==
    [kind |-> kind, booking |-> b, precursor |-> precursor, dispute |-> d,
     approval |-> approval]

Start(p, label, t) ==
    /\ pc[p] = "idle"
    /\ pc' = [pc EXCEPT ![p] = label]
    /\ task' = [task EXCEPT ![p] = t]
    /\ UNCHANGED ev

Goto(p, label) ==
    /\ pc' = [pc EXCEPT ![p] = label]
    /\ UNCHANGED <<task, ev>>

GotoWith(p, label, evidence) ==
    /\ pc' = [pc EXCEPT ![p] = label]
    /\ ev' = [ev EXCEPT ![p] = evidence]
    /\ UNCHANGED task

Done(p) ==
    /\ pc' = [pc EXCEPT ![p] = "idle"]
    /\ task' = [task EXCEPT ![p] = None]
    /\ ev' = [ev EXCEPT ![p] = "unknown"]

Fault == faults < MaxFaults /\ faults' = faults + 1

-----------------------------------------------------------------------------
(* Guards of the ledger.                                                   *)

BookingTransitions ==
    {<<"CONFIRMED", "CHECKED_IN">>, <<"CONFIRMED", "CANCELLED">>, <<"CONFIRMED", "NO_SHOW">>,
     <<"CONFIRMED", "DISPUTED">>, <<"CHECKED_IN", "COMPLETED">>, <<"CHECKED_IN", "DISPUTED">>,
     <<"COMPLETED", "PAID">>, <<"COMPLETED", "DISPUTED">>, <<"DISPUTED", "COMPLETED">>,
     <<"DISPUTED", "REFUNDED">>, <<"DISPUTED", "CANCELLED">>, <<"CANCELLED", "REFUNDED">>,
     <<"NO_SHOW", "REFUNDED">>}

Balance(b) == Gross(b) - released[b] - kept[b] - refunded[b]

Unresolved(b) == {d \in 1..Len(disputes[b]) : disputes[b][d] # "RESOLVED"}

\* Mutant: only a refund the provider has confirmed reserves the money.
ReservedLate(b) == op[b] = "PROVIDER_OK"

\* assertNoRefundReservation: an operation that has not failed reserves the money.
Reserved(b) == op[b] \notin {"NONE", "FAILED"}

Target(b, precursor) == CASE precursor = "CANCEL" -> "CANCELLED"
                          [] precursor = "NO_SHOW" -> "NO_SHOW"
                          [] OTHER -> status[b]

\* assertRefundable, for the whole allocation.
Refundable(b, precursor) ==
    /\ escrow[b] \in {"HELD", "FROZEN"}
    /\ Balance(b) = Gross(b)
    /\ precursor # "NONE" => <<status[b], Target(b, precursor)>> \in BookingTransitions
    /\ <<Target(b, precursor), "REFUNDED">> \in BookingTransitions
    /\ order \in {"PAID", "PARTIALLY_REFUNDED"}

\* cancellationApproved: a large cancellation needs a maker and another checker.
CancellationApproved(b) ==
    b \in Large => \E a \in approvals : /\ a.id.kind = "CLIENT_CANCEL" /\ a.id.booking = b
                                        /\ a.status \in {"APPROVED", "EXECUTED"}

\* releaseBooking's money guards.
Releasable(b) ==
    /\ phase = Deadline
    /\ escrow[b] = "HELD" /\ ~ Reserved(b) /\ Unresolved(b) = {}
    /\ Balance(b) = Gross(b)

-----------------------------------------------------------------------------
(* Time, attendance, completion.                                           *)

Tick ==
    /\ phase < Deadline
    /\ phase' = phase + 1
    /\ UNCHANGED <<booking, money, refund, approvals, docked, world, procs, faults>>

AssertArrival(b) ==
    /\ status[b] \in {"CONFIRMED", "CHECKED_IN"} /\ ~ Reserved(b) /\ ~ arrived[b]
    /\ arrived' = [arrived EXCEPT ![b] = TRUE]
    /\ UNCHANGED <<phase, status, escrow, checkedIn, disputes, money, refund, approvals,
                   docked, world, procs, faults>>

\* Mutant: an attendance code is accepted for a booking reserved for a refund.
CheckInReserved(b) ==
    /\ status[b] = "CONFIRMED"
    /\ status' = [status EXCEPT ![b] = "CHECKED_IN"]
    /\ checkedIn' = [checkedIn EXCEPT ![b] = TRUE]
    /\ UNCHANGED <<phase, escrow, arrived, disputes, money, refund, approvals, docked,
                   world, procs, faults>>

\* verifyCheckin with the right code.
CheckIn(b) ==
    /\ status[b] = "CONFIRMED" /\ ~ Reserved(b)
    /\ status' = [status EXCEPT ![b] = "CHECKED_IN"]
    /\ checkedIn' = [checkedIn EXCEPT ![b] = TRUE]
    /\ UNCHANGED <<phase, escrow, arrived, disputes, money, refund, approvals, docked,
                   world, procs, faults>>

\* completeBookingHeld, then releaseBooking once the deadline has passed.
CompleteAndRelease(b, early) ==
    IF phase = Deadline
    THEN /\ Releasable(b)
         /\ status' = [status EXCEPT ![b] = "PAID"]
         /\ escrow' = [escrow EXCEPT ![b] = "RELEASED"]
         /\ released' = [released EXCEPT ![b] = Pay[b]]
         /\ kept' = [kept EXCEPT ![b] = Fee[b]]
    ELSE /\ early
         /\ escrow[b] = "HELD" /\ ~ Reserved(b) /\ Balance(b) = Gross(b)
         /\ status' = [status EXCEPT ![b] = "COMPLETED"]
         /\ UNCHANGED <<escrow, released, kept>>

\* completeBooking: the client confirms the work.
Complete(b) ==
    /\ status[b] \in {"CHECKED_IN", "COMPLETED"}
    /\ CompleteAndRelease(b, status[b] = "CHECKED_IN")
    /\ UNCHANGED <<phase, arrived, checkedIn, disputes, refunded, order, refund, approvals,
                   docked, world, procs, faults>>

\* Mutant: a booking its client completed early is never released by the job.
AutoCompleteOnce(b) ==
    /\ status[b] = "CHECKED_IN" \/ (status[b] = "CONFIRMED" /\ arrived[b])
    /\ phase >= Ended /\ Unresolved(b) = {}
    /\ CompleteAndRelease(b, TRUE)
    /\ checkedIn' = [checkedIn EXCEPT ![b] = @ \/ status[b] = "CONFIRMED"]
    /\ UNCHANGED <<phase, arrived, disputes, refunded, order, refund, approvals, docked,
                   world, procs, faults>>

\* autoComplete: attended or arrival asserted, the event over, no open dispute.
AutoComplete(b) ==
    /\ status[b] \in {"CHECKED_IN", "COMPLETED"} \/ (status[b] = "CONFIRMED" /\ arrived[b])
    /\ phase >= Ended /\ Unresolved(b) = {}
    /\ CompleteAndRelease(b, status[b] # "COMPLETED")
    /\ checkedIn' = [checkedIn EXCEPT ![b] = @ \/ status[b] = "CONFIRMED"]
    /\ UNCHANGED <<phase, arrived, disputes, refunded, order, refund, approvals, docked,
                   world, procs, faults>>

-----------------------------------------------------------------------------
(* Disputes.                                                               *)

\* openDispute and freezeBooking: the usher only after checking in.
OpenDispute(b, party) ==
    /\ party = "USHER" => checkedIn[b]
    /\ phase < Deadline /\ escrow[b] = "HELD" /\ ~ Reserved(b)
    /\ <<status[b], "DISPUTED">> \in BookingTransitions
    /\ Len(disputes[b]) < MaxDisputes
    /\ status' = [status EXCEPT ![b] = "DISPUTED"]
    /\ escrow' = [escrow EXCEPT ![b] = "FROZEN"]
    /\ disputes' = [disputes EXCEPT ![b] = Append(@, "OPEN")]
    /\ UNCHANGED <<phase, arrived, checkedIn, money, refund, approvals, docked, world,
                   procs, faults>>

\* resolveDispute below the threshold: the decision is read, then carried out.
ResolveDispute(p, b, d, kind) ==
    /\ b \notin Large /\ d \in Unresolved(b)
    /\ Start(p, IF kind = "DISPUTE_RELEASE" THEN "release" ELSE "reserve",
             NewTask(kind, b, "NONE", d, None))
    /\ UNCHANGED <<phase, booking, money, refund, approvals, docked, world, faults>>

Finish(p) == IF task[p].approval = None THEN Done(p) ELSE Goto(p, "executed")

\* Mutant: a decision for the usher pays at once, whatever the deadline.
ReleaseDisputeNow(p) ==
    LET b == task[p].booking
        d == task[p].dispute
    IN  /\ pc[p] = "release" /\ d \in Unresolved(b)
        /\ status[b] = "DISPUTED" /\ escrow[b] = "FROZEN" /\ ~ Reserved(b)
        /\ disputes' = [disputes EXCEPT ![b][d] = "RESOLVED"]
        /\ status' = [status EXCEPT ![b] = "PAID"]
        /\ escrow' = [escrow EXCEPT ![b] = "RELEASED"]
        /\ released' = [released EXCEPT ![b] = Pay[b]]
        /\ kept' = [kept EXCEPT ![b] = Fee[b]]
        /\ Finish(p)
        /\ UNCHANGED <<phase, arrived, checkedIn, refunded, order, refund, approvals,
                       docked, world, faults>>

\* Mutant: the money moves, and the process may die before the dispute is resolved.
ReleaseKeepsDispute(p) ==
    LET b == task[p].booking
        d == task[p].dispute
        late == phase = Deadline
    IN  /\ pc[p] = "release" /\ d \in Unresolved(b)
        /\ status[b] = "DISPUTED" /\ escrow[b] = "FROZEN" /\ ~ Reserved(b)
        /\ status' = [status EXCEPT ![b] = IF late THEN "PAID" ELSE "COMPLETED"]
        /\ escrow' = [escrow EXCEPT ![b] = IF late THEN "RELEASED" ELSE "HELD"]
        /\ released' = [released EXCEPT ![b] = IF late THEN Pay[b] ELSE 0]
        /\ kept' = [kept EXCEPT ![b] = IF late THEN Fee[b] ELSE 0]
        /\ Finish(p)
        /\ UNCHANGED <<phase, arrived, checkedIn, disputes, refunded, order, refund,
                       approvals, docked, world, faults>>

\* executeDisputeResolution for the usher, in one transaction.
ReleaseDispute(p) ==
    LET b == task[p].booking
        d == task[p].dispute
        late == phase = Deadline
    IN  /\ pc[p] = "release" /\ d \in Unresolved(b)
        /\ status[b] = "DISPUTED" /\ escrow[b] = "FROZEN" /\ ~ Reserved(b)
        /\ Balance(b) = Gross(b)
        /\ disputes' = [disputes EXCEPT ![b][d] = "RESOLVED"]
        /\ status' = [status EXCEPT ![b] = IF late THEN "PAID" ELSE "COMPLETED"]
        /\ escrow' = [escrow EXCEPT ![b] = IF late THEN "RELEASED" ELSE "HELD"]
        /\ released' = [released EXCEPT ![b] = IF late THEN Pay[b] ELSE 0]
        /\ kept' = [kept EXCEPT ![b] = IF late THEN Fee[b] ELSE 0]
        /\ Finish(p)
        /\ UNCHANGED <<phase, arrived, checkedIn, refunded, order, refund, approvals,
                       docked, world, faults>>

\* The dispute is resolved already, or the booking is not disputed: nothing to do.  The
\* repair of a booking that an older release of the program paid and left disputed is left
\* out: this one resolves and pays in one step (PaidIsUndisputed).
ReleaseNothing(p) ==
    LET b == task[p].booking
        d == task[p].dispute
    IN  /\ pc[p] = "release"
        /\ \/ d \notin Unresolved(b) /\ Finish(p)
           \/ /\ d \in Unresolved(b) /\ (status[b] # "DISPUTED" \/ Reserved(b))
              /\ Done(p)
        /\ UNCHANGED <<phase, booking, money, refund, approvals, docked, world, faults>>

-----------------------------------------------------------------------------
(* Who starts a refund: what they read first is in their task.             *)

\* noShowSweep: a confirmed booking, nobody arrived by start + grace.
SweepNoShow(p, b) ==
    /\ status[b] = "CONFIRMED" /\ ~ checkedIn[b] /\ ~ arrived[b] /\ phase >= Grace
    /\ Start(p, "reserve", NewTask("NO_SHOW", b, "NO_SHOW", 0, None))
    /\ UNCHANGED <<phase, booking, money, refund, approvals, docked, world, faults>>

\* cancelBookingByUsher: the client always gets everything back.
UsherCancels(p, b) ==
    /\ status[b] = "CONFIRMED"
    /\ Start(p, "reserve", NewTask("USHER_CANCEL", b, "CANCEL", 0, None))
    /\ UNCHANGED <<phase, booking, money, refund, approvals, docked, world, faults>>

RefundPrecursor(b) == IF status[b] = "CONFIRMED" THEN "CANCEL" ELSE "NONE"

\* createRefund below the threshold, by an administrator.
AdminRefunds(p, b) ==
    /\ Admins # {} /\ b \notin Large
    /\ Start(p, "reserve", NewTask("REFUND", b, RefundPrecursor(b), 0, None))
    /\ UNCHANGED <<phase, booking, money, refund, approvals, docked, world, faults>>

\* cancelConfirmedBooking: the first request reserves the booking and fixes its
\* amounts; a repeated one drives the same cancellation.
ClientCancels(p, b) ==
    /\ \/ /\ op[b] = "NONE" /\ status[b] = "CONFIRMED"
          /\ escrow[b] = "HELD" /\ Refundable(b, "CANCEL")
          /\ op' = [op EXCEPT ![b] = "PENDING"]
          /\ intent' = [intent EXCEPT ![b] = [precursor |-> "CANCEL",
                                              window |-> CancelWindow(phase), dispute |-> 0,
                                              by |-> "CLIENT_CANCEL"]]
       \/ /\ op[b] \notin {"NONE", "FAILED"} /\ intent[b].window # "NONE"
          /\ UNCHANGED <<op, intent>>
    /\ Start(p, "begin", NewTask("CLIENT_CANCEL", b, "CANCEL", 0, None))
    /\ UNCHANGED <<phase, booking, money, tried, approvals, docked, world, faults>>

\* Mutant: recovery overlooks an operation the provider has already confirmed.
RecoverPending(p, b) ==
    /\ op[b] = "PENDING"
    /\ Start(p, "begin", NewTask("RECOVERY", b, "NONE", 0, None))
    /\ UNCHANGED <<phase, booking, money, refund, approvals, docked, world, faults>>

\* resumePaymentOperation: recovery drives an unfinished operation.
Recover(p, b) ==
    /\ op[b] \in {"PENDING", "PROVIDER_OK"}
    /\ Start(p, "begin", NewTask("RECOVERY", b, "NONE", 0, None))
    /\ UNCHANGED <<phase, booking, money, refund, approvals, docked, world, faults>>

\* handleRefundEvent: a callback about the charge wakes the operations already tried.
Callback(p, b) ==
    /\ \E c \in Bookings : bank[c] \in {"pending", "processed", "failed"}
    /\ (op[b] = "PENDING" /\ tried[b]) \/ op[b] = "PROVIDER_OK"
    /\ Start(p, "begin", NewTask("CALLBACK", b, "NONE", 0, None))
    /\ UNCHANGED <<phase, booking, money, refund, approvals, docked, world, faults>>

-----------------------------------------------------------------------------
(* Two administrators: proposals above the threshold.                      *)

Active(kind, b) == \E a \in approvals : /\ a.id.kind = kind /\ a.id.booking = b

Propose(kind, b, d, admin) ==
    approvals' = approvals \cup
        {[id |-> [kind |-> kind, booking |-> b, dispute |-> d, maker |-> admin],
          status |-> "PENDING"]}

\* resolveDispute above the threshold.
ProposeResolution(admin, b, d, kind) ==
    /\ b \in Large /\ d \in 1..Len(disputes[b]) /\ disputes[b][d] = "OPEN"
    /\ Propose(kind, b, d, admin)
    /\ disputes' = [disputes EXCEPT ![b][d] = "UNDER_REVIEW"]
    /\ UNCHANGED <<phase, status, escrow, arrived, checkedIn, money, refund, docked, world,
                   procs, faults>>

\* createRefund above the threshold.  A proposal that has not been carried out, to refund
\* the booking or to approve its cancellation, is answered in place of a new one.
ProposeRefund(admin, b) ==
    /\ b \in Large /\ Refundable(b, RefundPrecursor(b))
    /\ ~ \E a \in approvals : /\ a.id.kind \in {"REFUND", "CLIENT_CANCEL"}
                              /\ a.id.booking = b /\ a.status # "EXECUTED"
    /\ Propose("REFUND", b, 0, admin)
    /\ UNCHANGED <<phase, booking, money, refund, docked, world, procs, faults>>

\* proposeCancellation: the client's reservation, for a second administrator.
ProposeCancellation(admin, b) ==
    /\ b \in Large /\ op[b] \in {"PENDING", "PROVIDER_OK"} /\ intent[b].window # "NONE"
    /\ escrow[b] = "HELD" /\ Refundable(b, "CANCEL")
    /\ ~ Active("CLIENT_CANCEL", b)
    /\ Propose("CLIENT_CANCEL", b, 0, admin)
    /\ UNCHANGED <<phase, booking, money, refund, docked, world, procs, faults>>

\* Carry an authorized approval out: executeApprovalOp, for its first run and the later ones.
Carry(p, a) ==
    LET b == a.id.booking
    IN  CASE a.id.kind = "CLIENT_CANCEL" ->
               Start(p, "begin", NewTask("CLIENT_CANCEL", b, "CANCEL", 0, a.id))
          [] a.id.kind = "REFUND" ->
               Start(p, "reserve", NewTask("REFUND", b, RefundPrecursor(b), 0, a.id))
          [] a.id.kind = "DISPUTE_REFUND" ->
               Start(p, "reserve", NewTask(a.id.kind, b, "NONE", a.id.dispute, a.id))
          [] OTHER ->
               Start(p, "release", NewTask(a.id.kind, b, "NONE", a.id.dispute, a.id))

\* decideApproval, approve: a checker who is not the maker; then carried out.
Approve(p, admin, a) ==
    /\ a.status = "PENDING" /\ admin # a.id.maker
    /\ approvals' = (approvals \ {a}) \cup {[a EXCEPT !.status = "APPROVED"]}
    /\ Carry(p, a)
    /\ UNCHANGED <<phase, booking, money, refund, docked, world, faults>>

\* decideApproval, reject: a dispute under review is open again.
Reject(admin, a) ==
    /\ a.status = "PENDING" /\ admin # a.id.maker
    /\ approvals' = approvals \ {a}
    /\ disputes' = IF a.id.dispute \in Unresolved(a.id.booking)
                   THEN [disputes EXCEPT ![a.id.booking][a.id.dispute] = "OPEN"]
                   ELSE disputes
    /\ UNCHANGED <<phase, status, escrow, arrived, checkedIn, money, refund, docked, world,
                   procs, faults>>

\* The recovery job resumes APPROVAL_EXECUTE.
ResumeApproval(p, a) ==
    /\ a.status = "APPROVED"
    /\ Carry(p, a)
    /\ UNCHANGED <<phase, booking, money, refund, approvals, docked, world, faults>>

\* executeApprovalOp's onSuccess.
MarkExecuted(p) ==
    /\ pc[p] = "executed"
    /\ approvals' = {a \in approvals : a.id # task[p].approval}
                      \cup {[id |-> task[p].approval, status |-> "EXECUTED"]}
    /\ Done(p)
    /\ UNCHANGED <<phase, booking, money, refund, docked, world, faults>>

-----------------------------------------------------------------------------
(* refundBookingToClient, driveRefund and runOperation.                    *)

Compatible(p) ==
    LET saved == intent[task[p].booking]
    IN  /\ saved.window = "NONE"
        /\ task[p].precursor \in {"NONE", saved.precursor}

\* The first transaction: adopt the booking's operation, or check and create it.
Reserve(p) ==
    LET b == task[p].booking
    IN  /\ pc[p] = "reserve"
        /\ \/ op[b] # "NONE" /\ Compatible(p) /\ Goto(p, "begin") /\ UNCHANGED refund
           \/ /\ op[b] = "NONE" /\ Refundable(b, task[p].precursor)
              /\ op' = [op EXCEPT ![b] = "PENDING"]
              /\ intent' = [intent EXCEPT ![b] = [precursor |-> task[p].precursor,
                                                  window |-> "NONE",
                                                  dispute |-> task[p].dispute,
                                                  by |-> task[p].kind]]
              /\ Goto(p, "begin")
              /\ UNCHANGED tried
        /\ UNCHANGED <<phase, booking, money, approvals, docked, world, faults>>

\* REFUND_CONFLICT, or a precondition of assertRefundable fails: nothing is written.
ReserveRefused(p) ==
    LET b == task[p].booking
    IN  /\ pc[p] = "reserve"
        /\ \/ op[b] # "NONE" /\ ~ Compatible(p)
           \/ op[b] = "NONE" /\ ~ Refundable(b, task[p].precursor)
        /\ Done(p)
        /\ UNCHANGED <<phase, booking, money, refund, approvals, docked, world, faults>>

\* What the caller does with a RECORDED refund.
Recorded(p) ==
    CASE task[p].kind \in {"NO_SHOW", "USHER_CANCEL"} -> Goto(p, "penalty")
      [] task[p].kind = "DISPUTE_REFUND" -> Goto(p, "repair")
      [] OTHER -> Finish(p)

\* Mutant: a large cancellation is dispatched without its approval.
AwaitingNever(b) == FALSE

\* driveRefund: an unapproved cancellation is not dispatched.
Awaiting(b) == intent[b].window # "NONE" /\ ~ CancellationApproved(b)

RefundAmount(b) ==
    LET percent == RefundPercent(intent[b].window)
    IN  IF intent[b].window = "NONE" THEN Gross(b)
        ELSE (Pay[b] * percent) \div 100 + (Fee[b] * percent) \div 100

\* driveRefund stops at an unapproved cancellation, runOperation at a settled one.
DriveSettled(p) ==
    LET b == task[p].booking
    IN  /\ pc[p] = "begin"
        /\ IF op[b] = "RECORDED" THEN Recorded(p)
           ELSE (op[b] = "FAILED" \/ Awaiting(b)) /\ Done(p)
        /\ UNCHANGED <<phase, booking, money, refund, approvals, docked, world, faults>>

\* runOperation, first transaction: only the first attempt may send the refund,
\* and a zero refund needs no provider.
RunOperation(p) ==
    LET b == task[p].booking
    IN  /\ pc[p] = "begin" /\ op[b] \in {"PENDING", "PROVIDER_OK"} /\ ~ Awaiting(b)
        /\ tried' = IF op[b] = "PENDING" THEN [tried EXCEPT ![b] = TRUE] ELSE tried
        /\ CASE op[b] = "PROVIDER_OK" -> Goto(p, "finalize")
             [] op[b] = "PENDING" /\ RefundAmount(b) = 0 -> GotoWith(p, "checkpoint", "success")
             [] op[b] = "PENDING" /\ RefundAmount(b) # 0 /\ ~ tried[b] -> Goto(p, "check")
             [] OTHER -> Goto(p, "verify")
        /\ UNCHANGED <<phase, booking, money, op, intent, approvals, docked, world, faults>>

\* verifyRefund: what the provider lists under the operation's note.
Evident(b) == CASE bank[b] \in {"none", "lost"} -> "unknown"
                [] bank[b] = "processed" -> "success"
                [] OTHER -> bank[b]

\* paystack.refund looks first, and sends only what the provider does not know.
Check(p) ==
    LET seen == Evident(task[p].booking)
    IN  /\ pc[p] = "check"
        /\ IF seen = "unknown" THEN Goto(p, "post") ELSE GotoWith(p, "checkpoint", seen)
        /\ UNCHANGED <<phase, booking, money, refund, approvals, docked, world, faults>>

\* paystack.verifyRefund, on every later attempt.
Verify(p) ==
    /\ pc[p] = "verify"
    /\ GotoWith(p, "checkpoint", Evident(task[p].booking))
    /\ UNCHANGED <<phase, booking, money, refund, approvals, docked, world, faults>>

\* POST /refund reaches the provider and its answer arrives.
Post(p) ==
    LET b == task[p].booking
    IN  /\ pc[p] = "post"
        /\ posts' = [posts EXCEPT ![b] = @ + 1]
        /\ \E answer \in {"pending", "processed", "failed"} :
              /\ bank' = [bank EXCEPT ![b] = answer]
              /\ GotoWith(p, "checkpoint", IF answer = "processed" THEN "success" ELSE answer)
        /\ UNCHANGED <<phase, booking, money, refund, approvals, docked, faults>>

\* The answer is lost: the request reached the provider, may yet, or never will.
PostLost(p) ==
    LET b == task[p].booking
    IN  /\ pc[p] = "post" /\ Fault
        /\ \/ posts' = [posts EXCEPT ![b] = @ + 1] /\ bank' = [bank EXCEPT ![b] = "lost"]
           \/ UNCHANGED world
        /\ Done(p)
        /\ UNCHANGED <<phase, booking, money, refund, approvals, docked>>

\* runOperation, second transaction: keep conclusive evidence of a pending refund.
Checkpoint(p) ==
    LET b == task[p].booking
    IN  /\ pc[p] = "checkpoint"
        /\ op' = CASE op[b] = "PENDING" /\ ev[p] = "success" -> [op EXCEPT ![b] = "PROVIDER_OK"]
                   [] op[b] = "PENDING" /\ ev[p] = "failed" -> [op EXCEPT ![b] = "FAILED"]
                   [] OTHER -> op
        /\ Goto(p, "finalize")
        /\ UNCHANGED <<phase, booking, money, tried, intent, approvals, docked, world, faults>>

\* The order after a refund of booking b: every sibling REFUNDED, or not.
OrderAfter(b) == IF \A c \in Bookings \ {b} : status[c] = "REFUNDED"
                 THEN "REFUNDED" ELSE "PARTIALLY_REFUNDED"

\* Mutant: the booking is left in the precursor's status.
SettleKeepsPrecursor(b) ==
    /\ Refundable(b, intent[b].precursor)
    /\ status' = [status EXCEPT ![b] = Target(b, intent[b].precursor)]
    /\ escrow' = [escrow EXCEPT ![b] = "REFUNDED"]
    /\ refunded' = [refunded EXCEPT ![b] = Gross(b)]
    /\ order' = OrderAfter(b)
    /\ UNCHANGED <<released, kept, disputes>>

\* refundBooking after its precursor, with the dispute it decides.
SettleRefund(b) ==
    /\ Refundable(b, intent[b].precursor)
    /\ status' = [status EXCEPT ![b] = "REFUNDED"]
    /\ escrow' = [escrow EXCEPT ![b] = "REFUNDED"]
    /\ refunded' = [refunded EXCEPT ![b] = Gross(b)]
    /\ order' = OrderAfter(b)
    /\ disputes' = IF intent[b].dispute = 0 THEN disputes
                   ELSE [disputes EXCEPT ![b][intent[b].dispute] = "RESOLVED"]
    /\ UNCHANGED <<released, kept>>

\* Mutant: the compensation is rounded down instead of being the remainder.
SettleRounded(b) ==
    LET percent == RefundPercent(intent[b].window)
        back == RefundAmount(b)
    IN  /\ escrow[b] = "HELD" /\ Refundable(b, "CANCEL") /\ CancellationApproved(b)
        /\ status' = [status EXCEPT ![b] = "CANCELLED"]
        /\ escrow' = [escrow EXCEPT ![b] = "RELEASED"]
        /\ refunded' = [refunded EXCEPT ![b] = back]
        /\ released' = [released EXCEPT ![b] = (Pay[b] * (100 - percent)) \div 100]
        /\ kept' = [kept EXCEPT ![b] = (Fee[b] * (100 - percent)) \div 100]
        /\ order' = IF back > 0 THEN "PARTIALLY_REFUNDED" ELSE order
        /\ UNCHANGED disputes

\* settleClientCancellation when the staff member is compensated: the rest of each
\* part of the price stays with its recipient.
SettleDivided(b) ==
    LET percent == RefundPercent(intent[b].window)
        back == RefundAmount(b)
    IN  /\ escrow[b] = "HELD" /\ Refundable(b, "CANCEL") /\ CancellationApproved(b)
        /\ status' = [status EXCEPT ![b] = "CANCELLED"]
        /\ escrow' = [escrow EXCEPT ![b] = "RELEASED"]
        /\ refunded' = [refunded EXCEPT ![b] = back]
        /\ released' = [released EXCEPT ![b] = Pay[b] - (Pay[b] * percent) \div 100]
        /\ kept' = [kept EXCEPT ![b] = Fee[b] - (Fee[b] * percent) \div 100]
        /\ order' = IF back > 0 THEN "PARTIALLY_REFUNDED" ELSE order
        /\ UNCHANGED disputes

Divided(b) == intent[b].window \in {"BETWEEN_12_48H", "LT_12H"}

\* A full cancellation is held to the same checks before it is refunded.
SettleCancelled(b) ==
    /\ escrow[b] = "HELD" /\ CancellationApproved(b)
    /\ SettleRefund(b)

\* runOperation, last transaction: the ledger and RECORDED together.
Finalize(p) ==
    LET b == task[p].booking
    IN  /\ pc[p] = "finalize" /\ op[b] = "PROVIDER_OK"
        /\ CASE Divided(b) -> SettleDivided(b)
             [] intent[b].window = "GT_48H" -> SettleCancelled(b)
             [] OTHER -> SettleRefund(b)
        /\ op' = [op EXCEPT ![b] = "RECORDED"]
        /\ Recorded(p)
        /\ UNCHANGED <<phase, arrived, checkedIn, tried, intent, approvals, docked, world,
                       faults>>

\* Not PROVIDER_OK: the caller learns the operation's status.
FinalizeNothing(p) ==
    LET b == task[p].booking
    IN  /\ pc[p] = "finalize" /\ op[b] # "PROVIDER_OK"
        /\ IF op[b] = "RECORDED" THEN Recorded(p) ELSE Done(p)
        /\ UNCHANGED <<phase, booking, money, refund, approvals, docked, world, faults>>

\* After a RECORDED refund, the no-show sweep and the usher's cancellation take the
\* usher's reliability down, in a transaction of its own.
Penalise(p) ==
    /\ pc[p] = "penalty"
    /\ docked' = [docked EXCEPT ![task[p].booking] = @ + 1]
    /\ Done(p)
    /\ UNCHANGED <<phase, booking, money, refund, approvals, world, faults>>

\* executeDisputeResolution, after the refund: the dispute is resolved, if it is not.
Repair(p) ==
    LET b == task[p].booking
    IN  /\ pc[p] = "repair" /\ status[b] = "REFUNDED"
        /\ disputes' = [disputes EXCEPT ![b][task[p].dispute] = "RESOLVED"]
        /\ Finish(p)
        /\ UNCHANGED <<phase, status, escrow, arrived, checkedIn, money, refund, approvals,
                       docked, world, faults>>

\* The process dies, or its transaction or its provider call fails.
Crash(p) ==
    /\ pc[p] # "idle" /\ Fault
    /\ Done(p)
    /\ UNCHANGED <<phase, booking, money, refund, approvals, docked, world>>

-----------------------------------------------------------------------------
(* The provider.                                                           *)

\* A request whose answer was lost is processed after all.
Arrive(b) ==
    /\ bank[b] = "lost"
    /\ bank' = [bank EXCEPT ![b] = "pending"]
    /\ UNCHANGED <<phase, booking, money, refund, approvals, docked, posts, procs, faults>>

\* A pending refund ends.
BankSettles(b) ==
    /\ bank[b] = "pending"
    /\ \E outcome \in {"processed", "failed"} : bank' = [bank EXCEPT ![b] = outcome]
    /\ UNCHANGED <<phase, booking, money, refund, approvals, docked, posts, procs, faults>>

-----------------------------------------------------------------------------

DisputeKinds == {"DISPUTE_REFUND", "DISPUTE_RELEASE"}

Drive(p) ==
    \/ ReleaseDispute(p) \/ ReleaseNothing(p) \/ Reserve(p) \/ ReserveRefused(p)
    \/ DriveSettled(p) \/ RunOperation(p) \/ Check(p) \/ Post(p) \/ Verify(p)
    \/ Checkpoint(p) \/ Finalize(p) \/ FinalizeNothing(p)
    \/ Penalise(p) \/ Repair(p) \/ MarkExecuted(p)

Request(p, b) ==
    \/ SweepNoShow(p, b) \/ UsherCancels(p, b) \/ AdminRefunds(p, b) \/ ClientCancels(p, b)
    \/ Recover(p, b) \/ Callback(p, b)
    \/ \E d \in 1..MaxDisputes, kind \in DisputeKinds : ResolveDispute(p, b, d, kind)

Decide(p, admin) ==
    \E a \in approvals : Approve(p, admin, a) \/ Reject(admin, a)

Next ==
    \/ Tick
    \/ \E b \in Bookings :
        \/ AssertArrival(b) \/ CheckIn(b) \/ Complete(b) \/ AutoComplete(b)
        \/ \E party \in {"CLIENT", "USHER"} : OpenDispute(b, party)
        \/ Arrive(b) \/ BankSettles(b)
        \/ \E admin \in Admins :
            \/ ProposeRefund(admin, b) \/ ProposeCancellation(admin, b)
            \/ \E d \in 1..MaxDisputes, kind \in DisputeKinds :
                ProposeResolution(admin, b, d, kind)
    \/ \E p \in Procs :
        \/ Drive(p) \/ PostLost(p) \/ Crash(p)
        \/ \E b \in Bookings : Request(p, b)
        \/ \E admin \in Admins : Decide(p, admin)
        \/ \E a \in approvals : ResumeApproval(p, a)

Spec == Init /\ [][Next]_vars

\* The jobs run again and again, a process that runs goes on, the provider answers.
\* Nothing obliges a user, an administrator or a lost request to arrive.
FairSpec ==
    /\ Spec
    /\ WF_vars(Tick)
    /\ \A p \in Procs : WF_vars(Drive(p))
    /\ \A b \in Bookings :
        /\ WF_vars(AutoComplete(b)) /\ WF_vars(BankSettles(b))
        /\ SF_vars(\E p \in Procs : Recover(p, b))
        /\ SF_vars(\E p \in Procs : SweepNoShow(p, b))

-----------------------------------------------------------------------------
(* Correctness.                                                            *)

TaskSet == [kind : Kinds, booking : Bookings, precursor : Precursors,
            dispute : 0..MaxDisputes, approval : ApprovalIds \cup {None}]

Intents == [precursor : Precursors, window : Windows \cup {"NONE"},
            dispute : 0..MaxDisputes, by : Kinds \cup {"NONE"}]

RowsType ==
    /\ status \in [Bookings -> BookingStatus] /\ escrow \in [Bookings -> EscrowStatus]
    /\ released \in [Bookings -> Nat] /\ kept \in [Bookings -> Nat]
    /\ refunded \in [Bookings -> Nat]
    /\ order \in {"PAID", "PARTIALLY_REFUNDED", "REFUNDED"}
    /\ disputes \in [Bookings -> Seq({"OPEN", "UNDER_REVIEW", "RESOLVED"})]
    /\ op \in [Bookings -> OpStatus] /\ tried \in [Bookings -> BOOLEAN]
    /\ intent \in [Bookings -> Intents]
    /\ bank \in [Bookings -> BankStatus] /\ posts \in [Bookings -> Nat]

ControlType ==
    /\ pc \in [Procs -> Labels] /\ task \in [Procs -> TaskSet \cup {None}]
    /\ ev \in [Procs -> Evidence]
    /\ faults \in 0..MaxFaults

\* Type correctness of the rows, the provider's refund and the processes.
TypeOK ==
    /\ phase \in Phases
    /\ RowsType /\ ControlType
    /\ arrived \in [Bookings -> BOOLEAN] /\ checkedIn \in [Bookings -> BOOLEAN]
    /\ approvals \subseteq [id : ApprovalIds, status : {"PENDING", "APPROVED", "EXECUTED"}]
    /\ docked \in [Bookings -> Nat]

\* The whole price stays in escrow while it is HELD or FROZEN, and none of it
\* afterwards: releaseBooking, refundBooking and settleClientCancellation divide a
\* booking exactly, whichever of them comes first and whatever is retried.
Divides ==
    \A b \in Bookings :
        /\ escrow[b] \in {"HELD", "FROZEN"} => released[b] + kept[b] + refunded[b] = 0
        /\ escrow[b] \in {"RELEASED", "REFUNDED"} => Balance(b) = 0

\* A booking is not paid to two sides: money the provider returned to the client is
\* never also earned by the staff member (beyond the compensation of a late
\* cancellation), and the ledger records no refund the provider did not make.
NotPaidTwice ==
    \A b \in Bookings :
        /\ bank[b] = "processed" => released[b] + kept[b] + RefundAmount(b) <= Gross(b)
        /\ bank[b] = "processed" => status[b] \notin {"CHECKED_IN", "COMPLETED", "PAID"}
        /\ refunded[b] > 0 => bank[b] = "processed" /\ refunded[b] = RefundAmount(b)

\* runOperation sends a refund at most once: POST /refund has no idempotency key at
\* the provider, so a second one pays the client twice.
SentOnce == \A b \in Bookings : posts[b] <= 1

\* The client is refunded once, and never the staff member besides.
PaidOnce == NotPaidTwice /\ SentOnce

\* Once the provider has returned the money, the ledger can always record it: no
\* attendance, dispute, release or other refund got in the way since the
\* reservation (assertNoRefundReservation).
Recordable ==
    \A b \in Bookings :
        op[b] = "PROVIDER_OK" =>
            /\ Refundable(b, intent[b].precursor)
            /\ intent[b].window # "NONE" => escrow[b] = "HELD" /\ CancellationApproved(b)

\* Two administrators agreed on a step of this kind, on this booking and dispute.
Agreed(kind, b, d) ==
    \E a \in approvals : /\ a.id.kind = kind /\ a.id.booking = b /\ a.id.dispute = d
                         /\ a.status # "PENDING"

\* What needs a second administrator above the threshold.  A usher's cancellation and a
\* no-show return the money without one.
TwoAdminRefunds == {"CLIENT_CANCEL", "REFUND", "DISPUTE_REFUND"}

\* The refund was sent to the provider, or the operation takes it as made.
Effective(b) == posts[b] > 0 \/ op[b] \in {"PROVIDER_OK", "RECORDED"}

\* Of a large booking, no client's cancellation and no administrator's refund takes effect
\* before two administrators agreed on exactly that; a cancellation that returns nothing
\* has no provider step and is held back all the same.
RefundedByTwo ==
    \A b \in Large :
        Effective(b) /\ intent[b].by \in TwoAdminRefunds =>
            Agreed(intent[b].by, b, intent[b].dispute)

\* Its disputes are resolved only as two of them decided: for the staff member, or by a
\* refund that is in the ledger.
ResolvedByTwo ==
    \A b \in Large : \A d \in 1..Len(disputes[b]) : disputes[b][d] = "RESOLVED" =>
        \/ Agreed("DISPUTE_RELEASE", b, d)
        \/ op[b] = "RECORDED" /\ Agreed("DISPUTE_REFUND", b, d)

TwoAdministrators == RefundedByTwo /\ ResolvedByTwo

\* An approval is EXECUTED only when its decision has taken effect on the money.
ExecutedIsDone ==
    \A a \in approvals : a.status = "EXECUTED" =>
        IF a.id.kind = "DISPUTE_RELEASE"
        THEN disputes[a.id.booking][a.id.dispute] = "RESOLVED"
        ELSE op[a.id.booking] = "RECORDED"

\* The four-eyes decision comes first and is reported done last, whoever crashes,
\* rejects or retries in between.
ApprovalsHonoured == TwoAdministrators /\ ExecutedIsDone

\* A paid booking has no dispute left, and no refund that is in flight or made.
PaidIsUndisputed ==
    \A b \in Bookings : status[b] = "PAID" => Unresolved(b) = {} /\ ~ Reserved(b)

\* The order's status tells which of its bookings were returned to the client.
OrderAgrees ==
    /\ order = "PAID" <=> \A b \in Bookings : refunded[b] = 0
    /\ order = "REFUNDED" <=> \A b \in Bookings : status[b] = "REFUNDED"

\* Each booking is divided exactly, and its order tells how.
OrderAddsUp == Divides /\ OrderAgrees

Promise == INSTANCE Custody WITH
    Splits <- {0, 50},
    custody <- [b \in Bookings |-> CASE escrow[b] = "HELD" -> "held"
                                     [] escrow[b] = "FROZEN" -> "frozen"
                                     [] OTHER -> "spent"],
    staff <- released, platform <- kept, client <- refunded,
    closed <- (phase = Deadline)

\* Every step of the handlers, jobs and webhooks is a step of the custody promise.
ImplementsCustody == Promise!CustodySpec

\* A refund the provider made is recorded in the end, whoever crashed after it.
EventuallyRecorded == \A b \in Bookings : bank[b] = "processed" ~> op[b] = "RECORDED"

\* An operation whose only dispatch was lost: left to an operator (docs/PAYMENTS.md).
Stranded(b) == op[b] = "PENDING" /\ tried[b] /\ bank[b] \in {"none", "lost"}

\* A refund that failed for good leaves a booking nobody attended with an operator.
Failed(b) == op[b] = "FAILED" /\ status[b] \in {"CONFIRMED", "DISPUTED"}

\* After the dispute deadline the jobs divide every booking, unless a dispute is open
\* or its refund was lost or refused by the provider.
EventuallyDivided ==
    \A b \in Bookings :
        phase = Deadline ~> \/ escrow[b] \in {"RELEASED", "REFUNDED"}
                           \/ Unresolved(b) # {} \/ Stranded(b) \/ Failed(b)

-----------------------------------------------------------------------------
(* The inductive invariant behind the safety properties.                   *)

\* A refund is sent once, for an amount, by an operation that has reserved the booking;
\* it stays recordable until the ledger has recorded it, and nothing else refunds.
RefundOK(b) ==
    /\ posts[b] = IF bank[b] = "none" THEN 0 ELSE 1
    /\ bank[b] # "none" => tried[b] /\ op[b] # "NONE" /\ RefundAmount(b) # 0 /\ ~ Awaiting(b)
    /\ op[b] = "FAILED" => bank[b] = "failed"
    /\ op[b] \in {"PROVIDER_OK", "RECORDED"} => bank[b] = "processed" \/ RefundAmount(b) = 0
    /\ op[b] \in {"PROVIDER_OK", "RECORDED"} => ~ Awaiting(b)
    /\ op[b] \in {"PENDING", "PROVIDER_OK"} =>
         /\ Refundable(b, intent[b].precursor)
         /\ intent[b].window # "NONE" => escrow[b] = "HELD"
    /\ intent[b].window # "NONE" => intent[b].precursor = "CANCEL" /\ op[b] # "NONE"
    /\ IF op[b] = "RECORDED"
       THEN /\ status[b] \in {"CANCELLED", "REFUNDED"} /\ refunded[b] = RefundAmount(b)
            /\ escrow[b] \in {"RELEASED", "REFUNDED"}
       ELSE status[b] # "REFUNDED" /\ refunded[b] = 0

\* A booking has one open dispute at most, which freezes it until a refund is recorded.
DisputesOK(b) ==
    /\ \A d, e \in Unresolved(b) : d = e
    /\ Unresolved(b) # {} => (status[b] = "DISPUTED" /\ escrow[b] = "FROZEN") \/ op[b] = "RECORDED"
    /\ status[b] = "PAID" => Unresolved(b) = {} /\ ~ Reserved(b)

\* Of a process that drives a refund: what it knows of the operation still holds.
Sender(p) == pc[p] \in {"check", "post"}
DriverOK(p) ==
    LET b == task[p].booking IN
    pc[p] # "idle" =>
        /\ task[p] \in TaskSet
        /\ pc[p] \notin {"reserve", "release", "executed"} => op[b] # "NONE"
        /\ pc[p] \in {"check", "post", "verify", "checkpoint"} => ~ Awaiting(b)
        /\ Sender(p) => tried[b] /\ bank[b] = "none" /\ RefundAmount(b) # 0
        /\ pc[p] = "checkpoint" /\ ev[p] = "failed" => bank[b] = "failed"
        /\ pc[p] = "checkpoint" /\ ev[p] = "success" =>
             bank[b] = "processed" \/ RefundAmount(b) = 0
        /\ pc[p] \in {"penalty", "repair"} => op[b] = "RECORDED"

\* tried is the token: one process at a time may send the refund of a booking.
OneSender ==
    \A p, q \in Procs :
        Sender(p) /\ Sender(q) /\ task[p].booking = task[q].booking => p = q

\* A decision two administrators took, and its effect.
AgreedOn(id) == \E a \in approvals : a.id = id /\ a.status # "PENDING"
Effected(id) == IF id.kind = "DISPUTE_RELEASE"
                THEN disputes[id.booking][id.dispute] = "RESOLVED"
                ELSE op[id.booking] = "RECORDED"

\* Of a process that carries out an approval: it is the one that was given.
CarrierOK(p) ==
    LET t == task[p] IN
    pc[p] # "idle" =>
        /\ t.dispute \in 0..Len(disputes[t.booking])
        /\ t.dispute # 0 <=> t.kind \in DisputeKinds
        /\ pc[p] = "release" => t.kind = "DISPUTE_RELEASE"
        /\ pc[p] = "reserve" => t.kind # "CLIENT_CANCEL"
        /\ t.kind = "DISPUTE_RELEASE" => pc[p] \in {"release", "executed"}
        /\ t.kind \in {"REFUND"} \cup DisputeKinds /\ t.booking \in Large =>
             t.approval # None
        /\ t.approval # None =>
             /\ AgreedOn(t.approval)
             /\ t.approval.kind = t.kind /\ t.approval.booking = t.booking
             /\ t.approval.dispute = t.dispute
        /\ pc[p] = "executed" => t.approval # None /\ Effected(t.approval)

ApprovalOK(a) ==
    /\ a.id.dispute \in 0..Len(disputes[a.id.booking])
    /\ a.id.dispute # 0 <=> a.id.kind \in DisputeKinds
    /\ a.id.kind = "CLIENT_CANCEL" => op[a.id.booking] # "NONE"
    /\ a.status = "EXECUTED" => Effected(a.id)

\* A large booking is reserved for a refund by two administrators, or by a cancellation
\* that waits for them.
DecidedByTwo(b) ==
    /\ intent[b].by = "CLIENT_CANCEL" => intent[b].window # "NONE" /\ intent[b].dispute = 0
    /\ b \in Large /\ intent[b].by \in {"REFUND", "DISPUTE_REFUND"} =>
         Agreed(intent[b].by, b, intent[b].dispute)
    /\ intent[b].dispute # 0 => intent[b].by = "DISPUTE_REFUND"

\* The conjunction is preserved by every step, and from it ResolvedByTwo.
Inductive ==
    /\ TypeOK /\ OrderAddsUp
    /\ \A b \in Bookings : RefundOK(b) /\ DisputesOK(b) /\ DecidedByTwo(b)
    /\ OneSender /\ \A p \in Procs : DriverOK(p) /\ CarrierOK(p)
    /\ \A a \in approvals : ApprovalOK(a)

-----------------------------------------------------------------------------
(* What the documents say and the code does not do.                        *)

\* docs/WORKFLOWS.md: no-show handling "requires no verified check-in and no asserted
\* arrival".  noShowSweep reads the arrival before it reserves the refund.
NoShowNeverAsserted ==
    \A b \in Bookings : op[b] = "RECORDED" /\ intent[b].precursor = "NO_SHOW" =>
        ~ arrived[b] /\ ~ checkedIn[b]

\* policy.ts: a no-show leaves the client "fully refunded, usher unpaid and
\* penalised".  Only the sweep that records the refund itself penalises.
NoShowPenalised ==
    \A b \in Bookings :
        op[b] = "RECORDED" /\ intent[b].precursor = "NO_SHOW" ~> docked[b] > 0

\* ledger.ts: an open dispute freezes the escrow "(blocks release/refund)".  A
\* cancellation that read the booking before the dispute refunds it all the same.
FrozenUntilDecided ==
    [][\A b \in Bookings :
        escrow[b] = "FROZEN" /\ escrow'[b] # "FROZEN" =>
            \E d \in Unresolved(b) : disputes'[b][d] = "RESOLVED"]_vars
=============================================================================
