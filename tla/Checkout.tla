------------------------------ MODULE Checkout ------------------------------
(***************************************************************************)
(* The checkout of one HireQuick client: confirmBatch reserves seats and   *)
(* creates an order, resumeCheckout initializes the hosted payment page at *)
(* most once, and the charge is recorded by a webhook or by the            *)
(* reconciliation, or the reservation expires on evidence that nothing     *)
(* was paid; a charge that arrives after that is refunded.                 *)
(*                                                                         *)
(* One step is one transaction (all of them hold the event and order       *)
(* locks) or one provider call.  The evidence a reconciliation fetched is  *)
(* kept in its job and may be stale when it is used.                       *)
(*                                                                         *)
(* Events are those of one client whose hours overlap, so that one clock   *)
(* serves them all; every usher has an accepted application to each, and   *)
(* headcount and hours are fixed, as editEvent leaves a booked event.  The *)
(* charge, when there is one, has the reference and the amount asked for.  *)
(***************************************************************************)
EXTENDS Integers, FiniteSets

CONSTANTS
    Orders,      \* orders, each named by the idempotency key of its request
    Legacy,      \* those that may predate the checkout table
    Ushers, Events,
    Headcount,
    Handlers,    \* request handlers
    Worker,      \* the process of the scheduled jobs; it may serve requests too
    None,
    Accounts,    \* bound: the account states the client may be put in
    LastPhase,   \* bound: how far the clock goes, see phase
    MaxFaults    \* bound: crashes, lost and delayed provider calls

Procs == Handlers \cup {Worker}
NewJob(o) == [order |-> o, next |-> "idle", late |-> FALSE, evidence |-> "unknown"]
Idle == NewJob(None)

ASSUME CheckoutAssumption ==
    /\ Legacy \subseteq Orders
    /\ \A e \in Events : Headcount[e] \in Nat \ {0}
    /\ None \notin Orders \cup Events \cup Procs
    /\ Accounts \subseteq {"ACTIVE", "SUSPENDED", "ANONYMIZED"}
    /\ LastPhase \in 0..2 /\ MaxFaults \in Nat
    /\ IsFiniteSet(Orders) /\ IsFiniteSet(Ushers)

VARIABLES
    order,      \* order.status
    at,         \* order.eventId
    checkout,   \* checkout.state
    attempted,  \* checkout.attemptedAt is set
    url,        \* checkout.authorizationUrl is set
    late,       \* checkout.expiresAt has passed
    booking,    \* booking.status, per order and usher
    refund,     \* status of the refund operations of a late charge
    staffing,   \* event.status
    phase,      \* 0 before the events start, 1 while they run, 2 after
    owner,      \* status of the client's account
    charge,     \* the transaction at the provider
    inflight,   \* initializations that time out here and still arrive there
    posts,      \* initializations sent
    pc, job,    \* where a process is, and what it works on
    faults

ledger   == <<order, checkout, attempted, url, at>>
seating  == <<booking, staffing>>
provider == <<charge, inflight, posts>>
procs    == <<pc, job>>
vars == <<ledger, late, seating, refund, phase, owner, provider, procs, faults>>

OrderStatus == {"NONE", "PENDING", "PAID", "PARTIALLY_REFUNDED", "REFUNDED"}
CheckoutState == {"NONE", "CREATED", "INITIALIZING", "READY", "REVIEW", "EXPIRED",
                  "PAID", "REFUND_PENDING", "REFUNDED"}
BookingStatus == {"NONE", "PENDING_PAYMENT", "CONFIRMED", "CANCELLED", "REFUNDED"}
EventStatus == {"OPEN", "PARTIALLY_STAFFED", "FULLY_STAFFED", "IN_PROGRESS", "COMPLETED"}
ChargeStatus == {"none", "open", "unpaid", "success"}
Evidence == {"unknown", "ongoing", "unpaid", "success"}
Labels == {"idle", "ensure", "dispatch", "post", "ready", "review", "reopen",
           "read", "verify", "settle", "finish"}

Vacated == {"NONE", "CANCELLED", "REFUNDED"}
Batch(o) == {u \in Ushers : booking[o][u] # "NONE"}

\* Bookings of event e that occupy a seat.
Seats(bookings, event, e) ==
    {s \in Orders \X Ushers : event[s[1]] = e /\ bookings[s[1]][s[2]] \notin Vacated}

\* Recruitment never reopens after the start, even when a seat is freed.
StaffingStatus(e, current, seats) ==
    IF current = "COMPLETED" \/ (phase = 2 /\ seats = 0) THEN "COMPLETED"
    ELSE IF current = "IN_PROGRESS" \/ phase > 0 THEN "IN_PROGRESS"
    ELSE IF seats >= Headcount[e] THEN "FULLY_STAFFED"
    ELSE IF seats > 0 THEN "PARTIALLY_STAFFED" ELSE "OPEN"

\* Mutant: the bookings are counted before the transaction's own writes.
RefreshEarly(e) ==
    staffing' = [staffing EXCEPT ![e] =
                    StaffingStatus(e, @, Cardinality(Seats(booking, at, e)))]

\* Every transaction that writes a booking ends with this.
Refresh(e) ==
    staffing' = [staffing EXCEPT ![e] =
                    StaffingStatus(e, @, Cardinality(Seats(booking', at', e)))]

Reserved(S) == [u \in Ushers |-> IF u \in S THEN "PENDING_PAYMENT" ELSE "NONE"]

\* An order that predates the checkout table has bookings, and may have been paid.
Init ==
    /\ order \in [Orders -> {"NONE", "PENDING"}]
    /\ \A o \in Orders : order[o] = "PENDING" => o \in Legacy
    /\ at \in [Orders -> Events \cup {None}]
    /\ \A o \in Orders : at[o] = None <=> order[o] = "NONE"
    /\ \E S \in [Orders -> SUBSET Ushers] :
        /\ \A o \in Orders : S[o] = {} <=> order[o] = "NONE"
        /\ \A o, q \in Orders : o # q => S[o] \cap S[q] = {}
        /\ booking = [o \in Orders |-> Reserved(S[o])]
    /\ \A e \in Events : Cardinality(Seats(booking, at, e)) <= Headcount[e]
    /\ phase = 0
    /\ staffing = [e \in Events |->
                     StaffingStatus(e, "OPEN", Cardinality(Seats(booking, at, e)))]
    /\ charge \in [Orders -> ChargeStatus]
    /\ \A o \in Orders : order[o] = "NONE" => charge[o] = "none"
    /\ checkout = [o \in Orders |-> "NONE"]
    /\ attempted = [o \in Orders |-> FALSE]
    /\ url = [o \in Orders |-> FALSE]
    /\ late = [o \in Orders |-> FALSE]
    /\ refund = [o \in Orders |-> [u \in Ushers |-> "NONE"]]
    /\ owner = "ACTIVE"
    /\ inflight = {}
    /\ posts = [o \in Orders |-> IF order[o] = "NONE" THEN 0 ELSE 1]
    /\ pc = [p \in Procs |-> "idle"]
    /\ job = [p \in Procs |-> Idle]
    /\ faults = 0

-----------------------------------------------------------------------------
(* Control of a process.                                                   *)

Start(p, o, label) ==
    /\ pc[p] = "idle"
    /\ pc' = [pc EXCEPT ![p] = label]
    /\ job' = [job EXCEPT ![p] = NewJob(o)]

\* A checkout is never deleted: ensureCheckout does nothing when there is one.
EnsureThen(p, o, label) ==
    IF checkout[o] # "NONE" THEN Start(p, o, label)
    ELSE /\ pc[p] = "idle"
         /\ pc' = [pc EXCEPT ![p] = "ensure"]
         /\ job' = [job EXCEPT ![p] = [NewJob(o) EXCEPT !.next = label]]

Goto(p, label) ==
    /\ pc' = [pc EXCEPT ![p] = label]
    /\ UNCHANGED job

Done(p) ==
    /\ pc' = [pc EXCEPT ![p] = "idle"]
    /\ job' = [job EXCEPT ![p] = Idle]

At(p, label, o) == pc[p] = label /\ o = job[p].order

Fault == faults < MaxFaults /\ faults' = faults + 1

-----------------------------------------------------------------------------
(* Selecting staff: the request that creates the order.                    *)

\* The event must be recruiting, each usher free of overlapping bookings, the
\* batch within the headcount; then all of it is reserved.
ConfirmBatch(p, o, e, S) ==
    /\ order[o] = "NONE" /\ S # {}
    /\ owner = "ACTIVE"
    /\ staffing[e] \in {"OPEN", "PARTIALLY_STAFFED"} /\ phase = 0
    /\ \A q \in Orders, u \in S : booking[q][u] \in Vacated
    /\ Cardinality(Seats(booking, at, e)) + Cardinality(S) <= Headcount[e]
    /\ order' = [order EXCEPT ![o] = "PENDING"]
    /\ at' = [at EXCEPT ![o] = e]
    /\ checkout' = [checkout EXCEPT ![o] = "CREATED"]
    /\ booking' = [booking EXCEPT ![o] = Reserved(S)]
    /\ Refresh(e)
    /\ Start(p, o, "dispatch")
    /\ UNCHANGED <<attempted, url, late, refund, phase, owner, provider, faults>>

-----------------------------------------------------------------------------
(* Initializing the hosted page.                                           *)

\* A retry of the selection, or a client who reopens the page.
Resume(p, o) ==
    /\ order[o] # "NONE"
    /\ EnsureThen(p, o, "dispatch")
    /\ UNCHANGED <<ledger, late, seating, refund, phase, owner, provider, faults>>

\* Mutant: the job leaves out expired references.
CheckOpen(p, o) ==
    /\ order[o] # "NONE"
    /\ p = Worker => checkout[o] \notin {"PAID", "REFUNDED", "EXPIRED"}
    /\ EnsureThen(p, o, "read")
    /\ UNCHANGED <<ledger, late, seating, refund, phase, owner, provider, faults>>

\* getCheckout and one turn of reconcileCheckouts.
Check(p, o) ==
    /\ order[o] # "NONE"
    /\ p = Worker => checkout[o] \notin {"PAID", "REFUNDED"}
    /\ EnsureThen(p, o, "read")
    /\ UNCHANGED <<ledger, late, seating, refund, phase, owner, provider, faults>>

\* An order without a checkout may have been initialized: never dispatch it.
EnsureCheckout(p, o) ==
    /\ At(p, "ensure", o)
    /\ IF checkout[o] # "NONE" THEN UNCHANGED <<checkout, attempted>>
       ELSE /\ checkout' = [checkout EXCEPT ![o] =
                               IF order[o] = "PENDING" THEN "REVIEW"
                               ELSE IF order[o] = "REFUNDED" THEN "REFUNDED" ELSE "PAID"]
            /\ attempted' = [attempted EXCEPT ![o] = TRUE]
    /\ pc' = [pc EXCEPT ![p] = job[p].next]
    /\ job' = [job EXCEPT ![p] = NewJob(o)]
    /\ UNCHANGED <<order, at, url, late, seating, refund, phase, owner, provider, faults>>

\* Mutant: a checkout without a page is taken for one that was never sent.
DispatchableNoUrl(o) ==
    checkout[o] \in {"CREATED", "REVIEW"} /\ ~url[o] /\ order[o] = "PENDING" /\ ~late[o]

Dispatchable(o) == checkout[o] = "CREATED" /\ order[o] = "PENDING" /\ ~late[o]

\* The durable claim that makes the initialization happen at most once.
Dispatch(p, o) ==
    /\ At(p, "dispatch", o)
    /\ owner = "ACTIVE" /\ Dispatchable(o)
    /\ checkout' = [checkout EXCEPT ![o] = "INITIALIZING"]
    /\ attempted' = [attempted EXCEPT ![o] = TRUE]
    /\ Goto(p, "post")
    /\ UNCHANGED <<order, at, url, late, seating, refund, phase, owner, provider, faults>>

NoDispatch(p, o) ==
    /\ At(p, "dispatch", o)
    /\ IF owner = "ACTIVE" THEN ~Dispatchable(o) /\ Goto(p, "reopen") ELSE Done(p)
    /\ UNCHANGED <<ledger, late, seating, refund, phase, owner, provider, faults>>

Register(o) == charge' = [charge EXCEPT ![o] = IF @ = "none" THEN "open" ELSE @]

\* The provider may create the transaction or refuse it.  The answer may be
\* lost, and a request that timed out here may still arrive.
Initialize(p, o) ==
    /\ At(p, "post", o)
    /\ posts' = [posts EXCEPT ![o] = @ + 1]
    /\ \/ /\ Register(o)
          /\ Goto(p, "ready")
          /\ UNCHANGED <<inflight, faults>>
       \/ /\ Goto(p, "review")
          /\ UNCHANGED <<charge, inflight, faults>>
       \/ /\ Register(o) /\ Fault
          /\ Goto(p, "review")
          /\ UNCHANGED inflight
       \/ /\ inflight' = inflight \cup {o} /\ Fault
          /\ Goto(p, "review")
          /\ UNCHANGED charge
    /\ UNCHANGED <<ledger, late, seating, refund, phase, owner>>

\* Mutant: the account is not looked at again after the call.
PublishBlindly(p, o) ==
    /\ At(p, "ready", o)
    /\ IF checkout[o] \in {"INITIALIZING", "REVIEW"}
       THEN /\ checkout' = [checkout EXCEPT ![o] = "READY"]
            /\ url' = [url EXCEPT ![o] = TRUE]
       ELSE UNCHANGED <<checkout, url>>
    /\ Done(p)
    /\ UNCHANGED <<order, at, attempted, late, seating, refund, phase, owner, provider, faults>>

\* The page is published unless the account was closed or the order moved on.
Publish(p, o) ==
    /\ At(p, "ready", o)
    /\ IF owner = "ACTIVE" /\ checkout[o] \in {"INITIALIZING", "REVIEW"}
       THEN /\ checkout' = [checkout EXCEPT ![o] = "READY"]
            /\ url' = [url EXCEPT ![o] = TRUE]
       ELSE UNCHANGED <<checkout, url>>
    /\ Done(p)
    /\ UNCHANGED <<order, at, attempted, late, seating, refund, phase, owner, provider, faults>>

PublishFails(p, o) ==
    /\ At(p, "ready", o)
    /\ Fault
    /\ Goto(p, "review")
    /\ UNCHANGED <<ledger, late, seating, refund, phase, owner, provider>>

\* An unknown outcome, or a failure to publish.
Doubt(p, o) ==
    /\ At(p, "review", o)
    /\ checkout' = [checkout EXCEPT ![o] = IF @ = "INITIALIZING" THEN "REVIEW" ELSE @]
    /\ Done(p)
    /\ UNCHANGED <<order, at, attempted, url, late, seating, refund, phase, owner,
                   provider, faults>>

Reopen(p, o) ==
    /\ At(p, "reopen", o)
    /\ IF (checkout[o] = "READY" /\ ~late[o]) \/ checkout[o] = "INITIALIZING"
       THEN Done(p) ELSE Goto(p, "read")
    /\ UNCHANGED <<ledger, late, seating, refund, phase, owner, provider, faults>>

-----------------------------------------------------------------------------
(* Recording the charge: by the webhook or by the reconciliation.          *)

\* Mutant: an expired reservation is confirmed like any other.
HoldOrderExpired(o) ==
    /\ order[o] = "PENDING"
    /\ order' = [order EXCEPT ![o] = "PAID"]
    /\ booking' = [booking EXCEPT ![o] =
                      [u \in Ushers |-> IF u \in Batch(o) THEN "CONFIRMED" ELSE "NONE"]]
    /\ checkout' = [checkout EXCEPT ![o] = IF @ = "NONE" THEN @ ELSE "PAID"]
    /\ UNCHANGED <<at, refund>>

\* The order is paid in time: its bookings are confirmed.
HoldOrder(o) ==
    /\ order[o] = "PENDING" /\ checkout[o] # "EXPIRED"
    /\ \A u \in Batch(o) : booking[o][u] = "PENDING_PAYMENT"
    /\ order' = [order EXCEPT ![o] = "PAID"]
    /\ booking' = [booking EXCEPT ![o] =
                      [u \in Ushers |-> IF u \in Batch(o) THEN "CONFIRMED" ELSE "NONE"]]
    /\ checkout' = [checkout EXCEPT ![o] = IF @ = "NONE" THEN @ ELSE "PAID"]
    /\ UNCHANGED <<at, refund>>

\* The reservation is gone: the money is held only to be refunded.
HoldForRefund(o) ==
    /\ order[o] = "PENDING" /\ checkout[o] = "EXPIRED"
    /\ \A u \in Batch(o) : booking[o][u] = "CANCELLED"
    /\ order' = [order EXCEPT ![o] = "PAID"]
    /\ refund' = [refund EXCEPT ![o] =
                     [u \in Ushers |-> IF u \in Batch(o) THEN "PENDING" ELSE "NONE"]]
    /\ checkout' = [checkout EXCEPT ![o] = "REFUND_PENDING"]
    /\ UNCHANGED <<at, booking>>

RecordCharge(o) ==
    /\ HoldOrder(o) \/ HoldForRefund(o)
    /\ url' = [url EXCEPT ![o] = FALSE]
    /\ Refresh(at[o])
    /\ UNCHANGED attempted

\* charge.success, verified at the provider; it may come late, twice or never.
Hook(o) ==
    /\ charge[o] = "success"
    /\ RecordCharge(o)
    /\ UNCHANGED <<late, phase, owner, provider, procs, faults>>

-----------------------------------------------------------------------------
(* reconcileCheckout: evidence outside the locks, the decision inside.     *)

\* Whether the reservation is past its time is noted here.  The code compares with
\* the clock of the job's start, which is no later: it may expire a reservation in a
\* later run of the job, never in an earlier one.
Read(p, o) ==
    /\ At(p, "read", o)
    /\ CASE checkout[o] = "REFUND_PENDING" -> Goto(p, "finish")
         [] checkout[o] \in {"PAID", "REFUNDED"} -> Done(p)
         [] OTHER -> /\ pc' = [pc EXCEPT ![p] = IF attempted[o] THEN "verify" ELSE "settle"]
                     /\ job' = [job EXCEPT ![p].late = late[o]]
    /\ UNCHANGED <<ledger, late, seating, refund, phase, owner, provider, faults>>

\* verifyCheckout: an unknown reference is an error, like a lost answer.
Seen(o) == CASE charge[o] = "none" -> "unknown" [] charge[o] = "open" -> "ongoing"
             [] OTHER -> charge[o]

Verify(p, o) ==
    /\ At(p, "verify", o)
    /\ \/ job' = [job EXCEPT ![p].evidence = Seen(o)] /\ UNCHANGED faults
       \/ Fault /\ UNCHANGED job
    /\ pc' = [pc EXCEPT ![p] = "settle"]
    /\ UNCHANGED <<ledger, late, seating, refund, phase, owner, provider>>

Settling(p, o) ==
    /\ At(p, "settle", o)
    /\ pc' = [pc EXCEPT ![p] = "finish"]
    /\ job' = [job EXCEPT ![p] = NewJob(o)]

SettleCharge(p, o) ==
    /\ Settling(p, o)
    /\ job[p].evidence = "success" /\ RecordCharge(o)
    /\ UNCHANGED <<late, phase, owner, provider, faults>>

NeverDispatched(o) == checkout[o] = "CREATED" /\ ~attempted[o]

\* Mutant: an unknown outcome is taken for unpaid once the time is up.
ExpirableUnknown(p, o) ==
    /\ job[p].late
    /\ NeverDispatched(o) \/ job[p].evidence \in {"unpaid", "unknown"}

\* Mutant: only the provider's word frees the seats.
ExpirableByProvider(p, o) == job[p].late /\ job[p].evidence = "unpaid"

\* Only conclusive evidence that nothing was paid frees the seats.
Expirable(p, o) ==
    /\ job[p].late
    /\ NeverDispatched(o) \/ job[p].evidence = "unpaid"

Undecided(p, o) ==
    order[o] = "PENDING" /\ checkout[o] # "EXPIRED" /\ job[p].evidence # "success"

Expire(p, o) ==
    /\ Settling(p, o)
    /\ Undecided(p, o) /\ Expirable(p, o)
    /\ \A u \in Batch(o) : booking[o][u] = "PENDING_PAYMENT"
    /\ checkout' = [checkout EXCEPT ![o] = "EXPIRED"]
    /\ url' = [url EXCEPT ![o] = FALSE]
    /\ booking' = [booking EXCEPT ![o] =
                      [u \in Ushers |-> IF u \in Batch(o) THEN "CANCELLED" ELSE "NONE"]]
    /\ UNCHANGED <<order, at, attempted>>
    /\ Refresh(at[o])
    /\ UNCHANGED <<late, refund, phase, owner, provider, faults>>

Retain(p, o) ==
    /\ Settling(p, o)
    /\ Undecided(p, o) /\ ~Expirable(p, o)
    /\ checkout' = [checkout EXCEPT ![o] =
          IF attempted[o] /\ (job[p].evidence = "unknown" \/ ~url[o] \/ job[p].late)
          THEN "REVIEW" ELSE @]
    /\ UNCHANGED <<order, at, attempted, url, late, seating, refund, phase, owner,
                   provider, faults>>

\* Another process has settled the order, or the reservation expired unpaid.
NothingToSettle(p, o) ==
    /\ Settling(p, o)
    /\ order[o] # "PENDING" \/ (checkout[o] = "EXPIRED" /\ job[p].evidence # "success")
    /\ UNCHANGED <<ledger, late, seating, refund, phase, owner, provider, faults>>

-----------------------------------------------------------------------------
(* Refunds.                                                                *)

RefundBooking(o, u) ==
    LET all == \A w \in Batch(o) \ {u} : booking[o][w] = "REFUNDED"
    IN  /\ booking' = [booking EXCEPT ![o][u] = "REFUNDED"]
        /\ order' = [order EXCEPT ![o] = IF all THEN "REFUNDED" ELSE "PARTIALLY_REFUNDED"]
        /\ UNCHANGED at
        /\ Refresh(at[o])

\* driveRefund, by whoever drives it: the bank returns the money or refuses.
\* BookingEscrow models its steps.
DriveRefund(o, u) ==
    /\ refund[o][u] = "PENDING"
    /\ \/ /\ refund' = [refund EXCEPT ![o][u] = "RECORDED"]
          /\ RefundBooking(o, u)
       \/ /\ refund' = [refund EXCEPT ![o][u] = "FAILED"]
          /\ UNCHANGED <<booking, order, at, staffing>>
    /\ UNCHANGED <<checkout, attempted, url, late, phase, owner, provider, procs, faults>>

\* finishLateRefunds, after its drives; it does nothing unless there was a late
\* charge, so reconcileCheckout's test of that is not a step of its own.
Finish(p, o) ==
    /\ At(p, "finish", o)
    /\ checkout' = [checkout EXCEPT ![o] =
          IF order[o] = "REFUNDED" /\ @ = "REFUND_PENDING" THEN "REFUNDED" ELSE @]
    /\ Done(p)
    /\ UNCHANGED <<order, at, attempted, url, late, seating, refund, phase, owner,
                   provider, faults>>

\* A confirmed booking is cancelled in time and refunded; BookingEscrow has the rest.
Leave(o, u) ==
    /\ booking[o][u] = "CONFIRMED" /\ phase = 0
    /\ RefundBooking(o, u)
    /\ UNCHANGED <<checkout, attempted, url, late, refund, phase, owner, provider,
                   procs, faults>>

-----------------------------------------------------------------------------
(* The customer, the provider, the clock, the account, failures.           *)

Pay(o) ==
    /\ charge[o] \in {"open", "unpaid"}
    /\ charge' = [charge EXCEPT ![o] = "success"]
    /\ UNCHANGED <<ledger, late, seating, refund, phase, owner, inflight, posts, procs, faults>>

\* Abandoned or failed; the page may still be paid later.
Abandon(o) ==
    /\ charge[o] = "open"
    /\ charge' = [charge EXCEPT ![o] = "unpaid"]
    /\ UNCHANGED <<ledger, late, seating, refund, phase, owner, inflight, posts, procs, faults>>

Arrive(o) ==
    /\ o \in inflight
    /\ inflight' = inflight \ {o}
    /\ Register(o)
    /\ UNCHANGED <<ledger, late, seating, refund, phase, owner, posts, procs, faults>>

TimeOut(o) ==
    /\ order[o] # "NONE" /\ ~late[o]
    /\ late' = [late EXCEPT ![o] = TRUE]
    /\ UNCHANGED <<ledger, seating, refund, phase, owner, provider, procs, faults>>

Tick ==
    /\ phase < LastPhase
    /\ phase' = phase + 1
    /\ UNCHANGED <<ledger, late, seating, refund, owner, provider, procs, faults>>

\* The completion job refreshes the events that time has moved on.
SweepStaffing(e) ==
    /\ UNCHANGED booking /\ UNCHANGED at
    /\ Refresh(e) /\ staffing' # staffing
    /\ UNCHANGED <<order, checkout, attempted, url, late, refund, phase, owner, provider,
                   procs, faults>>

\* The administrator's actions do not look at the account's status.
Suspend ==
    /\ "SUSPENDED" \in Accounts
    /\ owner' = "SUSPENDED"
    /\ UNCHANGED <<ledger, late, seating, refund, phase, provider, procs, faults>>

Reinstate ==
    /\ "ACTIVE" \in Accounts
    /\ owner' = "ACTIVE"
    /\ UNCHANGED <<ledger, late, seating, refund, phase, provider, procs, faults>>

\* eraseUser scrubs the saved pages; orders and references stay for late charges.
Erase ==
    /\ "ANONYMIZED" \in Accounts
    /\ owner' = "ANONYMIZED"
    /\ url' = [o \in Orders |-> FALSE]
    /\ UNCHANGED <<order, checkout, attempted, at, late, seating, refund, phase,
                   provider, procs, faults>>

\* The process dies, its request fails, or a transaction is rolled back.
Crash(p) ==
    /\ pc[p] # "idle"
    /\ Fault
    /\ Done(p)
    /\ UNCHANGED <<ledger, late, seating, refund, phase, owner, provider>>

-----------------------------------------------------------------------------

Continue(p, o) ==
    \/ EnsureCheckout(p, o) \/ Dispatch(p, o) \/ NoDispatch(p, o) \/ Initialize(p, o)
    \/ Publish(p, o) \/ PublishFails(p, o) \/ Doubt(p, o) \/ Reopen(p, o)
    \/ Read(p, o) \/ Verify(p, o) \/ SettleCharge(p, o) \/ Expire(p, o) \/ Retain(p, o)
    \/ NothingToSettle(p, o) \/ Finish(p, o)

Next ==
    \/ \E p \in Handlers, o \in Orders :
        \/ Resume(p, o)
        \/ \E e \in Events, S \in SUBSET Ushers : ConfirmBatch(p, o, e, S)
    \/ \E p \in Procs, o \in Orders : Check(p, o) \/ Continue(p, o)
    \/ \E p \in Procs : Crash(p)
    \/ \E o \in Orders : Hook(o) \/ Pay(o) \/ Abandon(o) \/ Arrive(o) \/ TimeOut(o)
    \/ \E o \in Orders, u \in Ushers : DriveRefund(o, u) \/ Leave(o, u)
    \/ \E e \in Events : SweepStaffing(e)
    \/ Tick \/ Suspend \/ Reinstate \/ Erase

Spec == Init /\ [][Next]_vars

\* The checkouts job runs every five minutes and visits every open checkout, and
\* the recovery job drives the refunds.  Nothing is assumed of the client, of the
\* handlers or of the webhooks.
Fairness ==
    /\ \A o \in Orders : SF_vars(Check(Worker, o)) /\ WF_vars(Continue(Worker, o))
    /\ \A o \in Orders, u \in Ushers : WF_vars(DriveRefund(o, u))

FairSpec == Spec /\ Fairness

-----------------------------------------------------------------------------
(* Properties.                                                             *)

JobType == [order : Orders \cup {None}, late : BOOLEAN, evidence : Evidence,
            next : {"idle", "dispatch", "read"}]

\* Every variable keeps its type: the columns and enums of the code.
TypeOK ==
    /\ order \in [Orders -> OrderStatus]
    /\ at \in [Orders -> Events \cup {None}]
    /\ checkout \in [Orders -> CheckoutState]
    /\ attempted \in [Orders -> BOOLEAN] /\ url \in [Orders -> BOOLEAN]
    /\ late \in [Orders -> BOOLEAN]
    /\ booking \in [Orders -> [Ushers -> BookingStatus]]
    /\ refund \in [Orders -> [Ushers -> {"NONE", "PENDING", "RECORDED", "FAILED"}]]
    /\ staffing \in [Events -> EventStatus]
    /\ phase \in 0..2
    /\ owner \in {"ACTIVE", "SUSPENDED", "ANONYMIZED"}
    /\ charge \in [Orders -> ChargeStatus]
    /\ inflight \subseteq Orders /\ posts \in [Orders -> Nat]
    /\ pc \in [Procs -> Labels]
    /\ job \in [Procs -> JobType]
    /\ faults \in 0..MaxFaults

\* "Durable at-most-once initialization": one POST per order, whoever resumes,
\* retries, crashes or reconciles, and none for an order of unknown history.
InitializedOnce == \A o \in Orders : posts[o] <= 1

\* Money is recorded only when the provider has it, from either path.
PaidOnlyIfCharged ==
    \A o \in Orders : order[o] \notin {"NONE", "PENDING"} => charge[o] = "success"

\* Seats are never freed while an initialization is being sent, may still arrive,
\* or left no trace at the provider: "never infer safe dispatch from a missing URL".
FreedOnEvidence ==
    \A o \in Orders : checkout[o] = "EXPIRED" =>
        /\ o \notin inflight
        /\ posts[o] > 0 => charge[o] # "none"
        /\ \A p \in Procs : ~At(p, "post", o)

\* Every allocation of a late charge is on its way back to the client, and the
\* checkout says REFUNDED only when all of them are.
LateIsOwed ==
    \A o \in Orders : \A u \in Batch(o) :
        /\ checkout[o] = "REFUND_PENDING" => refund[o][u] # "NONE"
        /\ checkout[o] = "REFUNDED" => booking[o][u] = "REFUNDED"
        /\ refund[o][u] \in {"PENDING", "FAILED"} =>
             booking[o][u] = "CANCELLED" /\ checkout[o] = "REFUND_PENDING"
        /\ refund[o][u] = "RECORDED" => booking[o][u] = "REFUNDED"

\* What an order tells of its money and its seats follows the provider's evidence,
\* across stale reads, expiry and late charges.
FollowsEvidence == PaidOnlyIfCharged /\ FreedOnEvidence /\ LateIsOwed

\* An erased account has no hosted page, however late the initialization returns:
\* "never resurrect an authorization URL after that scrub has committed".
NoUrlAfterErasure == owner = "ANONYMIZED" => \A o \in Orders : ~url[o]

\* Until it starts, an event recruits exactly when it has a free seat: freeing or
\* taking seats without refreshing it would lock out or overbook the event.
StaffingAgrees ==
    phase = 0 => \A e \in Events :
        staffing[e] = StaffingStatus(e, "OPEN", Cardinality(Seats(booking, at, e)))

\* Rows of the right types whose events agree with them.
SeatsAgree == TypeOK /\ StaffingAgrees

\* Seats and money of an order, as Reservation tells it.
Fate(o) ==
    CASE order[o] = "NONE" -> "none"
      [] checkout[o] = "EXPIRED" -> "freed"
      [] checkout[o] = "REFUND_PENDING" -> "owed"
      [] checkout[o] = "REFUNDED" /\ \E u \in Ushers : refund[o][u] # "NONE" -> "returned"
      [] order[o] = "PENDING" /\ checkout[o] # "EXPIRED" -> "reserved"
      [] OTHER -> "confirmed"

Promise == INSTANCE Reservation WITH
    fate <- [o \in Orders |-> Fate(o)],
    seats <- [o \in Orders |-> {u \in Ushers : booking[o][u] \notin Vacated}]

\* The checkout implements Reservation: a batch is reserved, confirmed and freed
\* as a whole, and a late charge never brings seats back.
ImplementsReservation == Promise!ReservationSpec

\* A charge is always accounted for, even if every webhook is lost: the order is
\* held, or its refund is under way.
EventuallyAccounted ==
    \A o \in Orders : charge[o] = "success" ~> order[o] \notin {"NONE", "PENDING"}

\* A charge for freed seats is returned in full, unless the bank refuses.
LateReturned ==
    \A o \in Orders : checkout[o] = "REFUND_PENDING" ~>
        checkout[o] = "REFUNDED" \/ \E u \in Ushers : refund[o][u] = "FAILED"

\* Nobody's money is lost track of: what was paid holds the seats or goes back.
ChargesSettle == EventuallyAccounted /\ LateReturned

\* A reservation whose time is up and which is known to be unpaid does not hold
\* its seats for ever.
EventuallyFreed ==
    \A o \in Orders :
        (late[o] /\ (checkout[o] = "CREATED" \/ (order[o] = "PENDING" /\ charge[o] = "unpaid")))
            ~> (checkout[o] = "EXPIRED" \/ order[o] # "PENDING")

-----------------------------------------------------------------------------
(* The inductive invariant behind the safety properties.                   *)

Paid(o) == order[o] \notin {"NONE", "PENDING"}

\* What the columns of an order say together: nothing before it is made; a batch that
\* is reserved or freed as a whole while it is unpaid; after that, money of the provider
\* that holds the batch or is returned to the client.
OrderOK(o) ==
    /\ order[o] = "NONE" =>
         /\ at[o] = None /\ checkout[o] = "NONE" /\ Batch(o) = {}
         /\ posts[o] = 0
    /\ order[o] # "NONE" => at[o] \in Events /\ Batch(o) # {}
    /\ order[o] = "PENDING" =>
         /\ checkout[o] \notin {"PAID", "REFUND_PENDING", "REFUNDED"}
         /\ \A u \in Batch(o) :
              booking[o][u] = IF checkout[o] = "EXPIRED" THEN "CANCELLED" ELSE "PENDING_PAYMENT"
    /\ Paid(o) =>
         /\ charge[o] = "success"
         /\ checkout[o] \in {"NONE", "PAID", "REFUND_PENDING", "REFUNDED"}
         /\ \A u \in Batch(o) :
              booking[o][u] \in {"REFUNDED", IF checkout[o] = "REFUND_PENDING"
                                             THEN "CANCELLED" ELSE "CONFIRMED"}
    /\ order[o] = "REFUNDED" => \A u \in Batch(o) : booking[o][u] = "REFUNDED"
    /\ checkout[o] = "REFUNDED" => order[o] = "REFUNDED"
    /\ \A u \in Ushers : refund[o][u] # "NONE" =>
         /\ u \in Batch(o) /\ checkout[o] \in {"REFUND_PENDING", "REFUNDED"}
         /\ booking[o][u] = IF refund[o][u] = "RECORDED" THEN "REFUNDED" ELSE "CANCELLED"
    /\ checkout[o] = "REFUND_PENDING" => \A u \in Batch(o) : refund[o][u] # "NONE"

\* An initialization is sent once, by the process that claimed it; until it arrives
\* the provider knows nothing.
SentOK(o) ==
    /\ posts[o] \in 0..1
    /\ posts[o] = 0 => charge[o] = "none" /\ o \notin inflight
    /\ o \in inflight => charge[o] = "none"
    /\ checkout[o] = "CREATED" => posts[o] = 0
    /\ checkout[o] = "EXPIRED" => o \notin inflight /\ (posts[o] > 0 => charge[o] # "none")
    /\ \A p \in Procs : At(p, "post", o) =>
         posts[o] = 0 /\ checkout[o] \notin {"NONE", "CREATED", "EXPIRED"}
    /\ \A p, q \in Procs : At(p, "post", o) /\ At(q, "post", o) => p = q

\* A process works on an order that exists; what it learned of the charge may be stale,
\* but was true.
ProcOK(p) ==
    pc[p] # "idle" =>
        /\ job[p].order \in Orders /\ order[job[p].order] # "NONE"
        /\ pc[p] = "ensure" => job[p].next # "idle"
        /\ pc[p] # "ensure" => checkout[job[p].order] # "NONE"
        /\ job[p].evidence = "success" => charge[job[p].order] = "success"
        /\ job[p].evidence = "unpaid" => charge[job[p].order] \in {"unpaid", "success"}

Inductive ==
    /\ SeatsAgree /\ NoUrlAfterErasure
    /\ \A o \in Orders : OrderOK(o) /\ SentOK(o)
    /\ \A p \in Procs : ProcOK(p)
=============================================================================
