--------------------------- MODULE CheckoutProofs ---------------------------
(***************************************************************************)
(* Proofs about Checkout, for any number of orders, ushers, events,        *)
(* processes and faults, and any headcount.                                *)
(*                                                                         *)
(* A step writes the columns of one order, the staffing of one event and   *)
(* the work of one process at most.  The first part is about what such a   *)
(* step leaves in order elsewhere; then come the steps of the processes,   *)
(* of the seats, and of the customer, the provider and the account.        *)
(***************************************************************************)
EXTENDS Checkout, TLAPS

USE CheckoutAssumption DEF Procs

-----------------------------------------------------------------------------
(* Seats and staffing.                                                     *)

LEMMA SeatsKept ==
  ASSUME NEW b, NEW ev, NEW e, NEW b2, NEW ev2, NEW o \in Orders,
         \A q \in Orders \ {o} : b[q] = b2[q] /\ ev[q] = ev2[q],
         (b[o] = b2[o] /\ ev[o] = ev2[o]) \/ (e # ev[o] /\ e # ev2[o])
  PROVE  Seats(b, ev, e) = Seats(b2, ev2, e)
  BY DEF Seats

\* What an event says before it starts depends on its seats alone.
LEMMA StatusBeforeStart ==
  ASSUME NEW e, NEW n, phase = 0
  PROVE  /\ StaffingStatus(e, "OPEN", n) \in {"OPEN", "PARTIALLY_STAFFED", "FULLY_STAFFED"}
         /\ \A s \in {"OPEN", "PARTIALLY_STAFFED", "FULLY_STAFFED"} :
              StaffingStatus(e, s, n) = StaffingStatus(e, "OPEN", n)
<1> DEFINE seat == n
<1> DEFINE free == Headcount[e]
<1>1. \A s : StaffingStatus(e, s, n) =
         IF s = "COMPLETED" \/ (phase = 2 /\ seat = 0) THEN "COMPLETED"
         ELSE IF s = "IN_PROGRESS" \/ phase > 0 THEN "IN_PROGRESS"
         ELSE IF seat >= free THEN "FULLY_STAFFED"
         ELSE IF seat > 0 THEN "PARTIALLY_STAFFED" ELSE "OPEN"
  BY DEF StaffingStatus
<1> HIDE DEF seat, free
<1>2. ~ (phase > 0) /\ phase # 2
  OBVIOUS
<1>3. \A s \in {"OPEN", "PARTIALLY_STAFFED", "FULLY_STAFFED"} :
        StaffingStatus(e, s, n) = IF seat >= free THEN "FULLY_STAFFED"
                                  ELSE IF seat > 0 THEN "PARTIALLY_STAFFED" ELSE "OPEN"
  BY <1>1, <1>2
<1> QED BY <1>3

LEMMA StatusType ==
  ASSUME NEW e, NEW s, NEW n
  PROVE  StaffingStatus(e, s, n) \in EventStatus
<1>1. StaffingStatus(e, s, n) \in
        {"OPEN", "PARTIALLY_STAFFED", "FULLY_STAFFED", "IN_PROGRESS", "COMPLETED"}
  BY DEF StaffingStatus
<1> QED BY <1>1 DEF EventStatus

LEMMA StatusPrimed ==
  ASSUME NEW e, NEW s, NEW n, phase' = phase
  PROVE  StaffingStatus(e, s, n)' = StaffingStatus(e, s, n)
  BY DEF StaffingStatus

\* A step that ends with the refresh of the event whose seats it took or freed.
LEMMA Refreshed ==
  ASSUME TypeOK, StaffingAgrees, phase' = phase, NEW e \in Events, Refresh(e),
         \A f \in Events \ {e} : Seats(booking', at', f) = Seats(booking, at, f)
  PROVE  StaffingAgrees' /\ staffing' \in [Events -> EventStatus]
<1>1. PICK n : n = Cardinality(Seats(booking', at', e))
  OBVIOUS
<1>2. staffing' = [staffing EXCEPT ![e] = StaffingStatus(e, staffing[e], n)]
  BY <1>1 DEF Refresh
<1>3. staffing \in [Events -> EventStatus]
  BY DEF TypeOK
<1>4. staffing' \in [Events -> EventStatus]
  BY <1>2, <1>3, StatusType
<1>5. ASSUME phase = 0, NEW f \in Events
      PROVE  staffing'[f] = StaffingStatus(f, "OPEN", Cardinality(Seats(booking', at', f)))
  <2>1. staffing[f] = StaffingStatus(f, "OPEN", Cardinality(Seats(booking, at, f)))
    BY <1>5 DEF StaffingAgrees
  <2>2. staffing[f] \in {"OPEN", "PARTIALLY_STAFFED", "FULLY_STAFFED"}
    BY <1>5, <2>1, StatusBeforeStart
  <2>3. CASE f = e
    BY <1>1, <1>2, <1>3, <1>5, <2>2, <2>3, StatusBeforeStart
  <2>4. CASE f # e
    <3>1. staffing'[f] = staffing[f]
      BY <1>2, <1>3, <2>4
    <3> QED BY <2>1, <2>4, <3>1
  <2> QED BY <2>3, <2>4
<1>6. StaffingAgrees'
  <2> SUFFICES ASSUME phase' = 0, NEW f \in Events
               PROVE  staffing'[f] = StaffingStatus(f, "OPEN", Cardinality(Seats(booking, at, f)))'
    BY DEF StaffingAgrees
  <2>1. PICK m : m = Cardinality(Seats(booking', at', f))
    OBVIOUS
  <2>2. staffing'[f] = StaffingStatus(f, "OPEN", m)
    BY <1>5, <2>1
  <2>3. StaffingStatus(f, "OPEN", m)' = StaffingStatus(f, "OPEN", m)
    BY StatusPrimed
  <2>4. StaffingStatus(f, "OPEN", Cardinality(Seats(booking, at, f)))' = StaffingStatus(f, "OPEN", m)'
    BY <2>1 DEF Seats, StaffingStatus
  <2> QED BY <2>2, <2>3, <2>4
<1> QED BY <1>4, <1>6

LEMMA StaffingStays ==
  ASSUME StaffingAgrees, UNCHANGED <<booking, at, staffing, phase>>
  PROVE  StaffingAgrees'
  BY DEF StaffingAgrees, StaffingStatus, Seats
-----------------------------------------------------------------------------
(* What a step leaves in order.                                            *)

SameOrder(o) ==
    /\ order'[o] = order[o] /\ at'[o] = at[o] /\ checkout'[o] = checkout[o]
    /\ booking'[o] = booking[o] /\ refund'[o] = refund[o]

\* What the provider and the senders know of an order.
Reached(o) ==
    /\ posts'[o] = posts[o] /\ (o \in inflight' => o \in inflight)
    /\ charge'[o] = "none" <=> charge[o] = "none"
    /\ charge[o] = "success" => charge'[o] = "success"

\* Nobody starts to send the initialization of an order.
Unsent(o) == \A p \in Procs : At(p, "post", o)' => At(p, "post", o)

\* What never goes back, in whatever step.
Grows ==
    \A o \in Orders :
        /\ order[o] # "NONE" => order'[o] # "NONE"
        /\ checkout[o] # "NONE" => checkout'[o] # "NONE"
        /\ charge[o] = "success" => charge'[o] = "success"
        /\ charge[o] \in {"unpaid", "success"} => charge'[o] \in {"unpaid", "success"}

LEMMA OrderFrame ==
  ASSUME NEW o \in Orders, OrderOK(o), SameOrder(o), Reached(o)
  PROVE  OrderOK(o)'
  BY DEF OrderOK, SameOrder, Reached, Paid, Batch

LEMMA SentFrame ==
  ASSUME NEW o \in Orders, SentOK(o), Reached(o), Unsent(o),
         \/ checkout'[o] = checkout[o]
         \/ checkout'[o] \notin {"NONE", "CREATED", "EXPIRED"}
  PROVE  SentOK(o)'
<1>1. \A p \in Procs : At(p, "post", o)' =>
        posts'[o] = 0 /\ checkout'[o] \notin {"NONE", "CREATED", "EXPIRED"}
  BY DEF SentOK, Reached, Unsent
<1>2. \A p, q \in Procs : At(p, "post", o)' /\ At(q, "post", o)' => p = q
  BY DEF SentOK, Unsent
<1>3. /\ posts'[o] \in 0..1
      /\ posts'[o] = 0 => charge'[o] = "none" /\ o \notin inflight'
      /\ o \in inflight' => charge'[o] = "none"
      /\ checkout'[o] = "CREATED" => posts'[o] = 0
      /\ checkout'[o] = "EXPIRED" => o \notin inflight' /\ (posts'[o] > 0 => charge'[o] # "none")
  BY DEF SentOK, Reached
<1> QED BY <1>1, <1>2, <1>3 DEF SentOK

\* Process p goes to l with the work j.
Moves(p, l, j) ==
    /\ pc' = [pc EXCEPT ![p] = l]
    /\ job' = [job EXCEPT ![p] = j]

\* The work of a process that is at l, see ProcOK.
Fits(l, j) ==
    l # "idle" =>
        /\ j.order \in Orders /\ order[j.order] # "NONE"
        /\ l = "ensure" => j.next # "idle"
        /\ l # "ensure" => checkout[j.order] # "NONE"
        /\ j.evidence = "success" => charge[j.order] = "success"
        /\ j.evidence = "unpaid" => charge[j.order] \in {"unpaid", "success"}

ProcTypes == pc \in [Procs -> Labels] /\ job \in [Procs -> JobType]

LEMMA Moved ==
  ASSUME ProcTypes, NEW p \in Procs, NEW l \in Labels, NEW j \in JobType, Moves(p, l, j)
  PROVE  /\ ProcTypes'
         /\ pc'[p] = l /\ job'[p] = j
         /\ \A q \in Procs \ {p} : pc'[q] = pc[q] /\ job'[q] = job[q]
  BY DEF ProcTypes, Moves

LEMMA ProcsMove ==
  ASSUME ProcTypes, \A q \in Procs : ProcOK(q), Grows,
         NEW p \in Procs, NEW l \in Labels, NEW j \in JobType, Moves(p, l, j), Fits(l, j)'
  PROVE  \A q \in Procs : ProcOK(q)'
<1> TAKE q \in Procs
<1>1. CASE q = p
  <2>1. pc'[q] = l /\ job'[q] = j
    BY <1>1, Moved
  <2> QED BY <2>1 DEF Fits, ProcOK
<1>2. CASE q # p
  <2>1. pc'[q] = pc[q] /\ job'[q] = job[q]
    BY <1>2, Moved
  <2> QED BY <2>1 DEF ProcOK, Grows
<1> QED BY <1>1, <1>2

LEMMA ProcsStay ==
  ASSUME \A q \in Procs : ProcOK(q), Grows, UNCHANGED procs
  PROVE  \A q \in Procs : ProcOK(q)'
  BY DEF ProcOK, Grows, procs

LEMMA MovesUnsent ==
  ASSUME ProcTypes, NEW p \in Procs, NEW l \in Labels, NEW j \in JobType, Moves(p, l, j),
         NEW o \in Orders, l # "post" \/ j.order # o
  PROVE  Unsent(o)
  BY Moved DEF Unsent, At

LEMMA StayUnsent ==
  ASSUME UNCHANGED procs
  PROVE  \A o \in Orders : Unsent(o)
  BY DEF Unsent, At, procs

\* The ways in which a process moves.
LEMMA NewJobs ==
  ASSUME NEW o \in Orders
  PROVE  /\ NewJob(o) \in JobType /\ Idle \in JobType
         /\ NewJob(o).order = o /\ NewJob(o).evidence = "unknown"
  BY DEF NewJob, Idle, JobType, Evidence

LEMMA GotoMoves ==
  ASSUME ProcTypes, NEW p \in Procs, NEW l, Goto(p, l)
  PROVE  Moves(p, l, job[p]) /\ job[p] \in JobType
  BY DEF ProcTypes, Goto, Moves

LEMMA DoneMoves ==
  ASSUME NEW p \in Procs, Done(p)
  PROVE  Moves(p, "idle", Idle)
  BY DEF Done, Moves

LEMMA IdleFits == Fits("idle", Idle)'
  BY DEF Fits
-----------------------------------------------------------------------------
(* Steps that only decide where a process goes.                            *)

LEMMA InductiveParts ==
  ASSUME Inductive
  PROVE  /\ TypeOK /\ StaffingAgrees /\ NoUrlAfterErasure /\ ProcTypes
         /\ \A o \in Orders : OrderOK(o) /\ SentOK(o)
         /\ \A p \in Procs : ProcOK(p)
  BY DEF Inductive, SeatsAgree, TypeOK, ProcTypes

\* A move to a place that is not the sending.
Quiet(p) ==
    \E l \in Labels \ {"post"}, j \in JobType : Moves(p, l, j) /\ Fits(l, j)

LEMMA QuietMove ==
  ASSUME NEW p, NEW l \in Labels \ {"post"}, NEW j \in JobType, Moves(p, l, j), Fits(l, j)
  PROVE  Quiet(p)
<1> SUFFICES \E k \in JobType : Moves(p, l, k) /\ Fits(l, k)
  BY Zenon DEF Quiet
<1> WITNESS j \in JobType
<1> QED OBVIOUS

LEMMA Control ==
  ASSUME Inductive, UNCHANGED <<ledger, late, seating, refund, phase, owner, provider>>,
         faults' \in 0..MaxFaults, NEW p \in Procs, Quiet(p)
  PROVE  Inductive'
<1>1. PICK l \in Labels \ {"post"}, j \in JobType : Moves(p, l, j) /\ Fits(l, j)
  BY DEF Quiet
<1>2. /\ TypeOK /\ StaffingAgrees /\ NoUrlAfterErasure /\ ProcTypes
      /\ \A o \in Orders : OrderOK(o) /\ SentOK(o)
      /\ \A q \in Procs : ProcOK(q)
  BY InductiveParts
<1>3. Grows
  BY DEF Grows, ledger, provider
<1>4. Fits(l, j)'
  BY <1>1 DEF Fits, ledger, provider
<1>5. \A q \in Procs : ProcOK(q)'
  BY <1>1, <1>2, <1>3, <1>4, ProcsMove
<1>6. ProcTypes'
  BY <1>1, <1>2, Moved
<1>7. ASSUME NEW o \in Orders
      PROVE  OrderOK(o)' /\ SentOK(o)'
  <2>1. Unsent(o)
    BY <1>1, <1>2, MovesUnsent
  <2>2. SameOrder(o) /\ Reached(o)
    BY DEF SameOrder, Reached, ledger, seating, provider
  <2> QED BY <1>2, <2>1, <2>2, OrderFrame, SentFrame DEF SameOrder
<1>8. TypeOK'
  BY <1>2, <1>6 DEF TypeOK, ProcTypes, ledger, seating, provider
<1>9. StaffingAgrees' /\ NoUrlAfterErasure'
  BY <1>2, StaffingStays DEF NoUrlAfterErasure, ledger, seating
<1> QED BY <1>5, <1>7, <1>8, <1>9 DEF Inductive, SeatsAgree

LEMMA Starts ==
  ASSUME NEW p \in Procs, NEW o \in Orders, order[o] # "NONE",
         NEW label \in {"dispatch", "read"}, EnsureThen(p, o, label)
  PROVE  Quiet(p)
<1>1. CASE checkout[o] # "NONE"
  <2>0. NewJob(o) \in JobType
    BY NewJobs
  <2>5. PICK j \in JobType : j = NewJob(o)
    BY <2>0
  <2>1. j = NewJob(o) /\ j.order = o /\ j.evidence = "unknown"
    BY <2>5, NewJobs
  <2>2. Moves(p, label, j)
    BY <1>1, <2>1 DEF EnsureThen, Start, Moves
  <2>3. Fits(label, j)
    BY <1>1, <2>1 DEF Fits
  <2>4. label \in Labels \ {"post"}
    BY DEF Labels
  <2> QED BY <2>2, <2>3, <2>4, QuietMove
<1>2. CASE checkout[o] = "NONE"
  <2>7. PICK k : k = NewJob(o)
    OBVIOUS
  <2>5. k \in JobType /\ k.order = o /\ k.evidence = "unknown"
    BY <2>7, NewJobs
  <2>6. PICK j : j = [k EXCEPT !.next = label]
    OBVIOUS
  <2>1. j \in JobType /\ j.order = o /\ j.evidence = "unknown" /\ j.next = label
    BY <2>5, <2>6 DEF JobType
  <2>2. Moves(p, "ensure", j)
    BY <1>2, <2>6, <2>7 DEF EnsureThen, Moves
  <2>3. Fits("ensure", j)
    BY <2>1 DEF Fits
  <2>4. "ensure" \in Labels \ {"post"}
    BY DEF Labels
  <2> QED BY <2>1, <2>2, <2>3, <2>4, QuietMove
<1> QED BY <1>1, <1>2

\* A process that goes on, or that has done.
LEMMA GoesOn ==
  ASSUME ProcTypes, NEW p \in Procs, ProcOK(p), pc[p] \notin {"idle", "ensure"},
         NEW l \in Labels \ {"post", "ensure"}, Goto(p, l)
  PROVE  Quiet(p)
<1>1. Moves(p, l, job[p]) /\ job[p] \in JobType
  BY GotoMoves
<1>2. Fits(l, job[p])
  BY DEF ProcOK, Fits
<1> QED BY <1>1, <1>2 DEF Quiet

LEMMA Ends ==
  ASSUME NEW p \in Procs, Done(p)
  PROVE  Quiet(p)
<1>1. Moves(p, "idle", Idle) /\ Fits("idle", Idle)
  BY DoneMoves DEF Fits
<1>2. Idle \in JobType /\ "idle" \in Labels \ {"post"}
  BY DEF Idle, NewJob, JobType, Evidence, Labels
<1> QED BY <1>1, <1>2 DEF Quiet

\* A process that begins the next part of its work with an empty job.
LEMMA GoesAfresh ==
  ASSUME NEW p \in Procs, NEW o \in Orders, order[o] # "NONE", checkout[o] # "NONE",
         NEW l \in Labels \ {"post", "ensure"}, Moves(p, l, NewJob(o))
  PROVE  Quiet(p)
<1>0. NewJob(o) \in JobType
  BY NewJobs
<1>4. PICK j \in JobType : j = NewJob(o)
  BY <1>0
<1>1. j = NewJob(o) /\ j.order = o /\ j.evidence = "unknown"
  BY <1>4, NewJobs
<1>2. Fits(l, j)
  BY <1>1 DEF Fits
<1>3. Moves(p, l, j)
  BY <1>1
<1> QED BY <1>2, <1>3, QuietMove

\* Where a process is, it works on an order that has a checkout.
LEMMA Busy ==
  ASSUME Inductive, NEW p \in Procs, NEW o \in Orders, NEW l, At(p, l, o)
  PROVE  /\ pc[p] = l /\ job[p].order = o /\ job[p] \in JobType
         /\ l # "idle" => order[o] # "NONE"
         /\ l \notin {"idle", "ensure"} => checkout[o] # "NONE"
         /\ ProcOK(p)
  BY InductiveParts DEF At, ProcOK, ProcTypes

LEMMA SeenOf ==
  ASSUME NEW o \in Orders, charge[o] \in ChargeStatus
  PROVE  /\ Seen(o) \in Evidence
         /\ Seen(o) = "success" => charge[o] = "success"
         /\ Seen(o) = "unpaid" => charge[o] = "unpaid"
<1>1. CASE charge[o] = "none"
  BY <1>1 DEF Seen, Evidence
<1>2. CASE charge[o] = "open"
  BY <1>2 DEF Seen, Evidence
<1>3. CASE charge[o] \in {"unpaid", "success"}
  <2>1. Seen(o) = charge[o]
    BY <1>3, Zenon DEF Seen
  <2> QED BY <1>3, <2>1 DEF Evidence
<1> QED BY <1>1, <1>2, <1>3 DEF ChargeStatus
LEMMA ControlSteps ==
  ASSUME Inductive, NEW p \in Procs, NEW o \in Orders,
         \/ Resume(p, o) \/ Check(p, o) \/ NoDispatch(p, o) \/ PublishFails(p, o)
         \/ Reopen(p, o) \/ Read(p, o) \/ Verify(p, o) \/ NothingToSettle(p, o) \/ Crash(p)
  PROVE  Inductive'
<1> USE DEF Labels
<1>1. ProcTypes /\ ProcOK(p) /\ charge[o] \in ChargeStatus /\ checkout[o] \in CheckoutState
      /\ late[o] \in BOOLEAN /\ faults \in 0..MaxFaults
  BY InductiveParts DEF TypeOK
<1>2. UNCHANGED <<ledger, late, seating, refund, phase, owner, provider>>
      /\ faults' \in 0..MaxFaults
  BY <1>1 DEF Resume, Check, NoDispatch, PublishFails, Reopen, Read, Verify, NothingToSettle,
     Crash, Fault
<1>3. CASE Resume(p, o) \/ Check(p, o)
  BY <1>2, <1>3, Starts, Control DEF Resume, Check
<1>4. CASE NoDispatch(p, o)
  BY <1>1, <1>2, <1>4, Busy, GoesOn, Ends, Control DEF NoDispatch
<1>5. CASE PublishFails(p, o)
  BY <1>1, <1>2, <1>5, Busy, GoesOn, Control DEF PublishFails
<1>6. CASE Reopen(p, o)
  BY <1>1, <1>2, <1>6, Busy, GoesOn, Ends, Control DEF Reopen
<1>7. CASE Read(p, o)
  <2>1. At(p, "read", o)
    BY <1>7 DEF Read
  <2>2. CASE checkout[o] = "REFUND_PENDING"
    BY <1>1, <1>2, <1>7, <2>1, <2>2, Busy, GoesOn, Control DEF Read
  <2>3. CASE checkout[o] \in {"PAID", "REFUNDED"}
    BY <1>1, <1>2, <1>7, <2>1, <2>3, Ends, Control DEF Read
  <2>4. CASE checkout[o] \notin {"REFUND_PENDING", "PAID", "REFUNDED"}
    <3>1. PICK j : j = [job[p] EXCEPT !.late = late[o]]
      OBVIOUS
    <3>6. job[p] \in JobType /\ job[p].order = o
      BY <2>1, Busy
    <3>2. j \in JobType /\ j.order = o /\ j.evidence = job[p].evidence
      BY <1>1, <3>1, <3>6 DEF JobType
    <3>3. PICK l \in {"verify", "settle"} : l = IF attempted[o] THEN "verify" ELSE "settle"
      OBVIOUS
    <3>4. Moves(p, l, j)
      BY <1>7, <2>4, <3>1, <3>3, Zenon DEF Read, Moves
    <3>5. Fits(l, j)
      BY <1>1, <2>1, <3>2, Busy DEF Fits, ProcOK
    <3> QED BY <1>2, <3>2, <3>4, <3>5, QuietMove, Control
  <2> QED BY <2>2, <2>3, <2>4
<1>8. CASE Verify(p, o)
  <2>1. At(p, "verify", o)
    BY <1>8 DEF Verify
  <2>2. CASE job' = job
    <3>1. Goto(p, "settle")
      BY <1>8, <2>2 DEF Verify, Goto
    <3> QED BY <1>1, <1>2, <2>1, <3>1, Busy, GoesOn, Control
  <2>3. CASE job' = [job EXCEPT ![p].evidence = Seen(o)]
    <3>1. PICK e \in Evidence : e = Seen(o)
      BY <1>1, SeenOf
    <3>2. (e = "success" => charge[o] = "success") /\ (e = "unpaid" => charge[o] = "unpaid")
      BY <1>1, <3>1, SeenOf
    <3>3. PICK j : j = [job[p] EXCEPT !.evidence = e]
      OBVIOUS
    <3>7. job[p] \in JobType /\ job[p].order = o
      BY <2>1, Busy
    <3>4. j \in JobType /\ j.order = o /\ j.evidence = e
      BY <3>3, <3>7 DEF JobType
    <3>5. Moves(p, "settle", j)
      BY <1>8, <2>3, <3>1, <3>3 DEF Verify, Moves
    <3>6. Fits("settle", j)
      BY <2>1, <3>2, <3>4, Busy DEF Fits
    <3> QED BY <1>2, <3>4, <3>5, <3>6, QuietMove, Control
  <2> QED BY <1>8, <2>2, <2>3 DEF Verify
<1>9. CASE NothingToSettle(p, o)
  <2>1. At(p, "settle", o) /\ Moves(p, "finish", NewJob(o))
    BY <1>9 DEF NothingToSettle, Settling, Moves
  <2> QED BY <1>2, <2>1, Busy, GoesAfresh, Control
<1>10. CASE Crash(p)
  BY <1>2, <1>10, Ends, Control DEF Crash
<1> QED BY <1>3, <1>4, <1>5, <1>6, <1>7, <1>8, <1>9, <1>10
-----------------------------------------------------------------------------
(* Steps that write the checkout of one order.                             *)

LEMMA Writes ==
  ASSUME Inductive, NEW o \in Orders, OrderOK(o)', SentOK(o)',
         \A q \in Orders \ {o} : SameOrder(q) /\ Reached(q) /\ Unsent(q),
         TypeOK', StaffingAgrees', NoUrlAfterErasure', \A p \in Procs : ProcOK(p)'
  PROVE  Inductive'
<1>1. ASSUME NEW q \in Orders \ {o}
      PROVE  OrderOK(q)' /\ SentOK(q)'
  <2>1. OrderOK(q) /\ SentOK(q)
    BY InductiveParts
  <2>2. SameOrder(q) /\ Reached(q) /\ Unsent(q)
    OBVIOUS
  <2> QED BY <2>1, <2>2, OrderFrame, SentFrame DEF SameOrder
<1>2. \A q \in Orders : OrderOK(q)' /\ SentOK(q)'
  BY <1>1
<1> QED BY <1>2 DEF Inductive, SeatsAgree

\* Process p writes c into the checkout of o and moves on.
LEMMA CheckoutWritten ==
  ASSUME Inductive, UNCHANGED <<order, at, late, seating, refund, phase, owner, provider, faults>>,
         NEW o \in Orders, NEW c \in CheckoutState \ {"NONE"},
         checkout' = [checkout EXCEPT ![o] = c],
         attempted' \in [Orders -> BOOLEAN], url' \in [Orders -> BOOLEAN], NoUrlAfterErasure',
         NEW p \in Procs, NEW l \in Labels, NEW j \in JobType, Moves(p, l, j), Fits(l, j)',
         j.order = o \/ l # "post",
         OrderOK(o)', SentOK(o)'
  PROVE  Inductive'
<1>1. /\ TypeOK /\ StaffingAgrees /\ ProcTypes
      /\ \A q \in Procs : ProcOK(q)
  BY InductiveParts
<1>2. checkout'[o] = c /\ \A q \in Orders \ {o} : checkout'[q] = checkout[q]
  BY <1>1 DEF TypeOK
<1>3. Grows
  BY <1>2 DEF Grows, provider
<1>4. \A q \in Procs : ProcOK(q)'
  BY <1>1, <1>3, ProcsMove
<1>5. TypeOK'
  BY <1>1, Moved DEF TypeOK, ProcTypes, seating, provider
<1>6. StaffingAgrees'
  BY <1>1, StaffingStays DEF seating
<1>7. \A q \in Orders \ {o} : SameOrder(q) /\ Reached(q)
  BY <1>2 DEF SameOrder, Reached, seating, provider
<1>8. \A q \in Orders \ {o} : Unsent(q)
  BY <1>1, MovesUnsent
<1> QED BY <1>4, <1>5, <1>6, <1>7, <1>8, Writes

\* The same, by a process that does not go on to send anything.
LEMMA QuietWrite ==
  ASSUME Inductive, UNCHANGED <<order, at, late, seating, refund, phase, owner, provider, faults>>,
         NEW o \in Orders, NEW c \in CheckoutState \ {"NONE", "CREATED", "EXPIRED"},
         checkout' = [checkout EXCEPT ![o] = c],
         attempted' \in [Orders -> BOOLEAN], url' \in [Orders -> BOOLEAN], NoUrlAfterErasure',
         NEW p \in Procs, Quiet(p), OrderOK(o)'
  PROVE  Inductive'
<1>1. PICK l \in Labels \ {"post"}, j \in JobType : Moves(p, l, j) /\ Fits(l, j)
  BY DEF Quiet
<1>2. TypeOK /\ ProcTypes /\ SentOK(o)
  BY InductiveParts
<1>3. checkout'[o] = c /\ \A q \in Orders \ {o} : checkout'[q] = checkout[q]
  BY <1>2 DEF TypeOK
<1>4. Fits(l, j)'
  BY <1>1, <1>3 DEF Fits, provider
<1>5. Unsent(o) /\ Reached(o)
  BY <1>1, <1>2, MovesUnsent DEF Reached, provider
<1>6. SentOK(o)'
  BY <1>2, <1>3, <1>5, SentFrame
<1> QED BY <1>1, <1>4, <1>6, CheckoutWritten

LEMMA EnsureCheckoutStep ==
  ASSUME Inductive, NEW p \in Procs, NEW o \in Orders, EnsureCheckout(p, o)
  PROVE  Inductive'
<1>1. /\ At(p, "ensure", o) /\ Moves(p, job[p].next, NewJob(o))
      /\ UNCHANGED <<order, at, url, late, seating, refund, phase, owner, provider, faults>>
  BY DEF EnsureCheckout, Moves
<1>2. PICK l \in {"dispatch", "read"} : l = job[p].next
  BY <1>1, Busy DEF ProcOK, JobType
<1>3. TypeOK /\ NoUrlAfterErasure /\ OrderOK(o) /\ SentOK(o) /\ order[o] # "NONE"
  BY <1>1, Busy, InductiveParts
<1>4. CASE checkout[o] # "NONE"
  <2>1. UNCHANGED <<ledger, late, seating, refund, phase, owner, provider>>
    BY <1>1, <1>4 DEF EnsureCheckout, ledger
  <2>2. Quiet(p)
    BY <1>1, <1>2, <1>3, <1>4, GoesAfresh DEF Labels
  <2> QED BY <1>1, <1>3, <2>1, <2>2, Control DEF TypeOK
<1>5. CASE checkout[o] = "NONE"
  <2>1. PICK c \in {"REVIEW", "REFUNDED", "PAID"} :
          c = IF order[o] = "PENDING" THEN "REVIEW"
              ELSE IF order[o] = "REFUNDED" THEN "REFUNDED" ELSE "PAID"
    OBVIOUS
  <2>2. checkout' = [checkout EXCEPT ![o] = c] /\ attempted' = [attempted EXCEPT ![o] = TRUE]
    BY <1>1, <1>5, <2>1 DEF EnsureCheckout
  <2>3. checkout'[o] = c /\ \A q \in Orders \ {o} : checkout'[q] = checkout[q]
    BY <1>3, <2>2 DEF TypeOK
  <2>4. OrderOK(o)'
    BY <1>1, <1>3, <1>5, <2>1, <2>3 DEF OrderOK, Paid, Batch, seating, provider
  <2>5. /\ attempted' \in [Orders -> BOOLEAN] /\ url' \in [Orders -> BOOLEAN] /\ NoUrlAfterErasure'
    BY <1>1, <1>3, <2>2 DEF TypeOK, NoUrlAfterErasure
  <2>6. PICK j \in JobType : j = NewJob(o)
    BY NewJobs
  <2>7. j.order = o /\ j.evidence = "unknown" /\ Moves(p, l, j)
    BY <1>1, <1>2, <2>6, NewJobs
  <2>8. Fits(l, j)'
    BY <1>1, <1>3, <2>1, <2>3, <2>7 DEF Fits
  <2>9. Unsent(o) /\ Reached(o)
    BY <1>1, <2>7, InductiveParts, MovesUnsent DEF Reached, provider, Labels
  <2>10. SentOK(o)'
    BY <1>3, <2>1, <2>3, <2>9, SentFrame
  <2>11. c \in CheckoutState \ {"NONE"} /\ l \in Labels \ {"post"}
    BY <2>1 DEF CheckoutState, Labels
  <2> QED BY <1>1, <2>2, <2>4, <2>5, <2>7, <2>8, <2>10, <2>11, CheckoutWritten
<1> QED BY <1>4, <1>5
\* The claim: who goes on to send is the only one, as the checkout is no longer CREATED.
LEMMA DispatchStep ==
  ASSUME Inductive, NEW p \in Procs, NEW o \in Orders, Dispatch(p, o)
  PROVE  Inductive'
<1>1. /\ At(p, "dispatch", o) /\ Goto(p, "post")
      /\ checkout[o] = "CREATED" /\ order[o] = "PENDING"
      /\ checkout' = [checkout EXCEPT ![o] = "INITIALIZING"]
      /\ attempted' = [attempted EXCEPT ![o] = TRUE]
      /\ UNCHANGED <<order, at, url, late, seating, refund, phase, owner, provider, faults>>
  BY DEF Dispatch, Dispatchable
<1>2. /\ TypeOK /\ NoUrlAfterErasure /\ ProcTypes /\ OrderOK(o) /\ SentOK(o) /\ ProcOK(p)
  BY InductiveParts
<1>3. job[p] \in JobType /\ job[p].order = o /\ pc[p] = "dispatch"
  BY <1>1, Busy
<1>4. PICK j \in JobType : j = job[p]
  BY <1>3
<1>5. Moves(p, "post", j)
  BY <1>1, <1>2, <1>4, GotoMoves
<1>6. checkout'[o] = "INITIALIZING" /\ \A q \in Orders \ {o} : checkout'[q] = checkout[q]
  BY <1>1, <1>2 DEF TypeOK
<1>7. OrderOK(o)'
  BY <1>1, <1>2, <1>6 DEF OrderOK, Paid, Batch, seating, provider
<1>8. \A q \in Procs : At(q, "post", o)' => q = p
  <2>1. \A q \in Procs : ~ At(q, "post", o)
    BY <1>1, <1>2 DEF SentOK
  <2> QED BY <1>2, <1>5, <2>1, Moved DEF Labels, At
<1>9. SentOK(o)'
  BY <1>1, <1>2, <1>6, <1>8 DEF SentOK, provider
<1>10. Fits("post", j)'
  BY <1>1, <1>2, <1>3, <1>4, <1>6 DEF Fits, ProcOK, provider
<1>11. attempted' \in [Orders -> BOOLEAN] /\ url' \in [Orders -> BOOLEAN] /\ NoUrlAfterErasure'
  BY <1>1, <1>2 DEF TypeOK, NoUrlAfterErasure
<1>12. "INITIALIZING" \in CheckoutState \ {"NONE"} /\ "post" \in Labels /\ j.order = o
  BY <1>3, <1>4 DEF CheckoutState, Labels
<1> QED BY <1>1, <1>5, <1>6, <1>7, <1>9, <1>10, <1>11, <1>12, CheckoutWritten

\* The page is published,
LEMMA PublishStep ==
  ASSUME Inductive, NEW p \in Procs, NEW o \in Orders, Publish(p, o)
  PROVE  Inductive'
<1>1. /\ At(p, "ready", o) /\ Quiet(p)
      /\ UNCHANGED <<order, at, attempted, late, seating, refund, phase, owner, provider, faults>>
  BY Ends DEF Publish
<1>2. /\ TypeOK /\ NoUrlAfterErasure /\ OrderOK(o) /\ order[o] # "NONE"
  BY <1>1, Busy, InductiveParts
<1>3. CASE owner = "ACTIVE" /\ checkout[o] \in {"INITIALIZING", "REVIEW"}
  <2>1. checkout' = [checkout EXCEPT ![o] = "READY"] /\ url' = [url EXCEPT ![o] = TRUE]
    BY <1>3 DEF Publish
  <2>2. checkout'[o] = "READY"
    BY <1>2, <2>1 DEF TypeOK
  <2>3. OrderOK(o)'
    BY <1>1, <1>2, <1>3, <2>2 DEF OrderOK, Paid, Batch, seating, provider
  <2>4. attempted' \in [Orders -> BOOLEAN] /\ url' \in [Orders -> BOOLEAN] /\ NoUrlAfterErasure'
    BY <1>1, <1>2, <1>3, <2>1 DEF TypeOK, NoUrlAfterErasure
  <2>5. "READY" \in CheckoutState \ {"NONE", "CREATED", "EXPIRED"}
    BY DEF CheckoutState
  <2> QED BY <1>1, <2>1, <2>3, <2>4, <2>5, QuietWrite
<1>4. CASE ~ (owner = "ACTIVE" /\ checkout[o] \in {"INITIALIZING", "REVIEW"})
  <2>1. UNCHANGED <<ledger, late, seating, refund, phase, owner, provider>>
    BY <1>1, <1>4 DEF Publish, ledger
  <2> QED BY <1>1, <1>2, <2>1, Control DEF TypeOK
<1> QED BY <1>3, <1>4

\* or what came of it is in doubt, or stays so,
LEMMA DoubtStep ==
  ASSUME Inductive, NEW p \in Procs, NEW o \in Orders, Doubt(p, o) \/ Retain(p, o)
  PROVE  Inductive'
<1>1. /\ At(p, "review", o) \/ At(p, "settle", o)
      /\ UNCHANGED <<order, at, attempted, url, late, seating, refund, phase, owner, provider, faults>>
  BY DEF Doubt, Retain, Settling
<1>2. /\ TypeOK /\ NoUrlAfterErasure /\ OrderOK(o) /\ order[o] # "NONE" /\ checkout[o] # "NONE"
  BY <1>1, Busy, InductiveParts
<1>3. Quiet(p)
  <2>1. CASE Doubt(p, o)
    BY <2>1, Ends DEF Doubt
  <2>2. CASE Retain(p, o)
    <3>1. Moves(p, "finish", NewJob(o))
      BY <2>2 DEF Retain, Settling, Moves
    <3> QED BY <1>2, <3>1, GoesAfresh DEF Labels
  <2> QED BY <2>1, <2>2
<1>4. \/ checkout' = checkout
      \/ checkout' = [checkout EXCEPT ![o] = "REVIEW"]
         /\ (checkout[o] = "INITIALIZING" \/ (order[o] = "PENDING" /\ checkout[o] # "EXPIRED"))
  BY <1>2 DEF Doubt, Retain, Undecided, TypeOK
<1>5. CASE checkout' = checkout
  <2>1. UNCHANGED <<ledger, late, seating, refund, phase, owner, provider>>
    BY <1>1, <1>5 DEF ledger
  <2> QED BY <1>1, <1>2, <1>3, <2>1, Control DEF TypeOK
<1>6. CASE checkout' # checkout
  <2>1. /\ checkout' = [checkout EXCEPT ![o] = "REVIEW"]
        /\ checkout[o] = "INITIALIZING" \/ (order[o] = "PENDING" /\ checkout[o] # "EXPIRED")
    BY <1>4, <1>6
  <2>2. checkout'[o] = "REVIEW"
    BY <1>2, <2>1 DEF TypeOK
  <2>3. OrderOK(o)'
    BY <1>1, <1>2, <2>1, <2>2 DEF OrderOK, Paid, Batch, seating, provider
  <2>4. attempted' \in [Orders -> BOOLEAN] /\ url' \in [Orders -> BOOLEAN] /\ NoUrlAfterErasure'
    BY <1>1, <1>2 DEF TypeOK, NoUrlAfterErasure
  <2>5. "REVIEW" \in CheckoutState \ {"NONE", "CREATED", "EXPIRED"}
    BY DEF CheckoutState
  <2> QED BY <1>1, <1>3, <2>1, <2>3, <2>4, <2>5, QuietWrite
<1> QED BY <1>5, <1>6

\* or the late charge has been returned.
LEMMA FinishStep ==
  ASSUME Inductive, NEW p \in Procs, NEW o \in Orders, Finish(p, o)
  PROVE  Inductive'
<1>1. /\ At(p, "finish", o) /\ Quiet(p)
      /\ UNCHANGED <<order, at, attempted, url, late, seating, refund, phase, owner, provider, faults>>
  BY Ends DEF Finish
<1>2. /\ TypeOK /\ NoUrlAfterErasure /\ OrderOK(o)
  BY InductiveParts
<1>3. CASE order[o] = "REFUNDED" /\ checkout[o] = "REFUND_PENDING"
  <2>1. checkout' = [checkout EXCEPT ![o] = "REFUNDED"]
    BY <1>3 DEF Finish
  <2>2. checkout'[o] = "REFUNDED"
    BY <1>2, <2>1 DEF TypeOK
  <2>3. OrderOK(o)'
    BY <1>1, <1>2, <1>3, <2>2 DEF OrderOK, Paid, Batch, seating, provider
  <2>4. attempted' \in [Orders -> BOOLEAN] /\ url' \in [Orders -> BOOLEAN] /\ NoUrlAfterErasure'
    BY <1>1, <1>2 DEF TypeOK, NoUrlAfterErasure
  <2>5. "REFUNDED" \in CheckoutState \ {"NONE", "CREATED", "EXPIRED"}
    BY DEF CheckoutState
  <2> QED BY <1>1, <2>1, <2>3, <2>4, <2>5, QuietWrite
<1>4. CASE ~ (order[o] = "REFUNDED" /\ checkout[o] = "REFUND_PENDING")
  <2>1. checkout' = checkout
    BY <1>2, <1>4 DEF Finish, TypeOK
  <2>2. UNCHANGED <<ledger, late, seating, refund, phase, owner, provider>>
    BY <1>1, <2>1 DEF ledger
  <2> QED BY <1>1, <1>2, <2>2, Control DEF TypeOK
<1> QED BY <1>3, <1>4

\* The request leaves once, and nobody sends it any more.
LEMMA InitializeStep ==
  ASSUME Inductive, NEW p \in Procs, NEW o \in Orders, Initialize(p, o)
  PROVE  Inductive'
<1>1. /\ At(p, "post", o) /\ posts' = [posts EXCEPT ![o] = @ + 1]
      /\ charge' = charge \/ Register(o)
      /\ inflight' = inflight \/ (inflight' = inflight \cup {o} /\ charge' = charge)
      /\ Goto(p, "ready") \/ Goto(p, "review")
      /\ faults' = faults \/ Fault
      /\ UNCHANGED <<ledger, late, seating, refund, phase, owner>>
  BY DEF Initialize
<1>2. /\ TypeOK /\ StaffingAgrees /\ NoUrlAfterErasure /\ ProcTypes /\ OrderOK(o) /\ SentOK(o)
      /\ \A q \in Procs : ProcOK(q)
  BY InductiveParts
<1>3. /\ posts[o] = 0 /\ charge[o] = "none" /\ o \notin inflight
      /\ checkout[o] \notin {"NONE", "CREATED", "EXPIRED"} /\ order[o] # "NONE"
  BY <1>1, <1>2, Busy DEF SentOK
<1>4. /\ posts'[o] = 1 /\ charge'[o] \in {"none", "open"} /\ (o \in inflight' => charge'[o] = "none")
      /\ \A q \in Orders \ {o} : /\ posts'[q] = posts[q] /\ charge'[q] = charge[q]
                                 /\ q \in inflight' => q \in inflight
  BY <1>1, <1>2, <1>3 DEF TypeOK, Register
<1>5. PICK l \in {"ready", "review"} : Goto(p, l)
  BY <1>1
<1>6. Moves(p, l, job[p]) /\ job[p] \in JobType /\ job[p].order = o
  BY <1>1, <1>2, <1>5, GotoMoves, Busy
<1>7. Grows
  BY <1>1, <1>3, <1>4 DEF Grows, ledger
<1>8. PICK j \in JobType : j = job[p]
  BY <1>6
<1>9. l \in Labels \ {"post"} /\ Moves(p, l, j)
  BY <1>6, <1>8 DEF Labels
<1>10. Fits(l, j)'
  <2>1. j.order = o /\ j.evidence = job[p].evidence
    BY <1>6, <1>8
  <2>2. j.evidence \notin {"success", "unpaid"}
    BY <1>1, <1>2, <1>3, <2>1, Busy DEF ProcOK
  <2> QED BY <1>1, <1>3, <2>1, <2>2 DEF Fits, ledger
<1>11. \A q \in Procs : ProcOK(q)'
  BY <1>2, <1>7, <1>9, <1>10, ProcsMove
<1>12. \A q \in Orders : Unsent(q)
  BY <1>2, <1>9, MovesUnsent
<1>13. \A q \in Orders \ {o} : SameOrder(q) /\ Reached(q)
  BY <1>1, <1>4 DEF SameOrder, Reached, ledger, seating
<1>14. \A q \in Procs : ~ At(q, "post", o)'
  BY <1>1, <1>2, <1>9, <1>12, Moved DEF Unsent, SentOK, At
<1>15. SentOK(o)'
  BY <1>1, <1>3, <1>4, <1>14 DEF SentOK, ledger
<1>16. OrderOK(o)'
  BY <1>1, <1>2, <1>3, <1>4 DEF OrderOK, Paid, Batch, ledger, seating
<1>17. TypeOK'
  <2>2. charge' \in [Orders -> ChargeStatus]
    BY <1>1, <1>2 DEF TypeOK, Register, ChargeStatus
  <2>3. posts \in [Orders -> Nat] /\ faults \in 0..MaxFaults /\ inflight \subseteq Orders
    BY <1>2 DEF TypeOK
  <2>4. posts' \in [Orders -> Nat]
    BY <1>1, <2>3
  <2>5. faults' \in 0..MaxFaults
    BY <1>1, <2>3 DEF Fault
  <2>1. charge' \in [Orders -> ChargeStatus] /\ posts' \in [Orders -> Nat] /\ inflight' \subseteq Orders
        /\ faults' \in 0..MaxFaults
    BY <1>1, <2>2, <2>3, <2>4, <2>5
  <2> QED BY <1>1, <1>2, <1>9, <2>1, Moved DEF TypeOK, ProcTypes, ledger, seating
<1>18. StaffingAgrees' /\ NoUrlAfterErasure'
  BY <1>1, <1>2, StaffingStays DEF NoUrlAfterErasure, ledger, seating
<1> QED BY <1>11, <1>12, <1>13, <1>15, <1>16, <1>17, <1>18, Writes
-----------------------------------------------------------------------------
(* Steps that take, pay, free or refund seats.                             *)

RowTypes ==
    /\ order \in [Orders -> OrderStatus]
    /\ at \in [Orders -> Events \cup {None}]
    /\ checkout \in [Orders -> CheckoutState]
    /\ attempted \in [Orders -> BOOLEAN] /\ url \in [Orders -> BOOLEAN]
    /\ booking \in [Orders -> [Ushers -> BookingStatus]]
    /\ refund \in [Orders -> [Ushers -> {"NONE", "PENDING", "RECORDED", "FAILED"}]]
    /\ staffing \in [Events -> EventStatus]

\* A transaction has written the columns of order o, and left them in order.
Written(o) ==
    /\ UNCHANGED <<late, phase, owner, provider, faults>>
    /\ RowTypes' /\ StaffingAgrees' /\ NoUrlAfterErasure' /\ OrderOK(o)'
    /\ \A q \in Orders \ {o} : SameOrder(q)
    /\ order[o] # "NONE" => order'[o] # "NONE"
    /\ checkout[o] # "NONE" => checkout'[o] # "NONE"

LEMMA WrittenParts ==
  ASSUME Inductive, NEW o \in Orders, Written(o)
  PROVE  /\ Grows
         /\ \A q \in Orders : Reached(q)
         /\ ProcTypes' => TypeOK'
<1>1. Grows
  BY DEF Grows, Written, SameOrder, provider
<1>2. \A q \in Orders : Reached(q)
  BY DEF Written, Reached, provider
<1>3. ASSUME ProcTypes'
      PROVE  TypeOK'
  BY <1>3, InductiveParts DEF TypeOK, ProcTypes, RowTypes, Written, provider
<1> QED BY <1>1, <1>2, <1>3

\* It was called by nobody's process,
LEMMA WrittenOutside ==
  ASSUME Inductive, NEW o \in Orders, Written(o), UNCHANGED procs,
         checkout'[o] = checkout[o] \/ checkout'[o] \notin {"NONE", "CREATED", "EXPIRED"}
  PROVE  Inductive'
<1>1. /\ Grows /\ (\A q \in Orders : Reached(q)) /\ (ProcTypes' => TypeOK')
  BY WrittenParts
<1>2. ProcTypes' /\ \A q \in Orders : Unsent(q)
  BY InductiveParts, StayUnsent DEF ProcTypes, procs
<1>3. \A p \in Procs : ProcOK(p)'
  BY <1>1, InductiveParts, ProcsStay
<1>4. SentOK(o)'
  BY <1>1, <1>2, InductiveParts, SentFrame
<1> QED BY <1>1, <1>2, <1>3, <1>4, Writes DEF Written

\* or by a process that goes on with the order.
LEMMA WrittenInside ==
  ASSUME Inductive, NEW o \in Orders, Written(o), order'[o] # "NONE", checkout'[o] # "NONE",
         NEW p \in Procs, NEW l \in Labels \ {"post", "ensure"}, Moves(p, l, NewJob(o)),
         (\A q \in Orders : Unsent(q)) => SentOK(o)'
  PROVE  Inductive'
<1>1. /\ Grows /\ (\A q \in Orders : Reached(q)) /\ (ProcTypes' => TypeOK')
  BY WrittenParts
<1>2. PICK j : j = NewJob(o)
  OBVIOUS
<1>3. j \in JobType /\ j.order = o /\ j.evidence = "unknown" /\ Moves(p, l, j)
  BY <1>2, NewJobs
<1>4. Fits(l, j)'
  BY <1>3 DEF Fits
<1>5. \A q \in Procs : ProcOK(q)'
  BY <1>1, <1>3, <1>4, InductiveParts, ProcsMove
<1>6. ProcTypes' /\ \A q \in Orders : Unsent(q)
  BY <1>3, InductiveParts, Moved, MovesUnsent
<1> QED BY <1>1, <1>5, <1>6, Writes DEF Written

\* Seats of one event are taken or freed, and its staffing is refreshed.
LEMMA SeatsWritten ==
  ASSUME Inductive, phase' = phase, NEW o \in Orders, NEW e \in Events, Refresh(e),
         at'[o] = e, at[o] \in {e, None},
         \A q \in Orders \ {o} : booking'[q] = booking[q] /\ at'[q] = at[q]
  PROVE  StaffingAgrees' /\ staffing' \in [Events -> EventStatus]
<1>1. \A f \in Events \ {e} : Seats(booking', at', f) = Seats(booking, at, f)
  <2> TAKE f \in Events \ {e}
  <2>1. f # at[o] /\ f # at'[o]
    OBVIOUS
  <2> QED BY <2>1, SeatsKept
<1> QED BY <1>1, InductiveParts, Refreshed

LEMMA ReservedBatch ==
  ASSUME NEW S \in SUBSET Ushers
  PROVE  /\ Reserved(S) \in [Ushers -> BookingStatus]
         /\ \A u \in Ushers : Reserved(S)[u] = IF u \in S THEN "PENDING_PAYMENT" ELSE "NONE"
  BY DEF Reserved, BookingStatus

\* A batch is reserved,
LEMMA ConfirmBatchStep ==
  ASSUME Inductive, NEW p \in Procs, NEW o \in Orders, NEW e \in Events,
         NEW S \in SUBSET Ushers, ConfirmBatch(p, o, e, S)
  PROVE  Inductive'
<1>1. /\ order[o] = "NONE" /\ S # {}
      /\ order' = [order EXCEPT ![o] = "PENDING"] /\ at' = [at EXCEPT ![o] = e]
      /\ checkout' = [checkout EXCEPT ![o] = "CREATED"]
      /\ booking' = [booking EXCEPT ![o] = Reserved(S)]
      /\ Refresh(e) /\ Moves(p, "dispatch", NewJob(o))
      /\ UNCHANGED <<attempted, url, late, refund, phase, owner, provider, faults>>
  BY DEF ConfirmBatch, Start, Moves
<1>2. /\ TypeOK /\ NoUrlAfterErasure /\ OrderOK(o) /\ SentOK(o)
      /\ \A q \in Procs : ProcOK(q)
  BY InductiveParts
<1>3. /\ order'[o] = "PENDING" /\ at'[o] = e /\ checkout'[o] = "CREATED"
      /\ booking'[o] = Reserved(S)
      /\ \A q \in Orders \ {o} : /\ order'[q] = order[q] /\ at'[q] = at[q]
                                 /\ checkout'[q] = checkout[q] /\ booking'[q] = booking[q]
  BY <1>1, <1>2 DEF TypeOK
<1>4. PICK row \in [Ushers -> BookingStatus] :
        /\ row = Reserved(S)
        /\ \A u \in Ushers : row[u] = IF u \in S THEN "PENDING_PAYMENT" ELSE "NONE"
  BY ReservedBatch
<1>5. OrderOK(o)'
  <2>1. Batch(o)' = S
    BY <1>3, <1>4 DEF Batch
  <2>2. \A u \in S : booking'[o][u] = "PENDING_PAYMENT"
    BY <1>3, <1>4
  <2>3. \A u \in Ushers : refund'[o][u] = "NONE"
    BY <1>1, <1>2 DEF OrderOK
  <2> QED BY <1>1, <1>3, <2>1, <2>2, <2>3 DEF OrderOK, Paid
<1>6. at[o] = None
  BY <1>1, <1>2 DEF OrderOK
<1>7. StaffingAgrees' /\ staffing' \in [Events -> EventStatus]
  BY <1>1, <1>3, <1>6, SeatsWritten
<1>8. RowTypes'
  BY <1>1, <1>2, <1>4, <1>7 DEF TypeOK, RowTypes, OrderStatus, CheckoutState
<1>9. Written(o)
  BY <1>1, <1>2, <1>3, <1>5, <1>7, <1>8 DEF Written, SameOrder, NoUrlAfterErasure
<1>10. ASSUME \A q \in Orders : Unsent(q)
       PROVE  SentOK(o)'
  <2>1. posts[o] = 0 /\ charge[o] = "none" /\ o \notin inflight
    BY <1>1, <1>2 DEF OrderOK, SentOK
  <2>2. \A q \in Procs : ~ At(q, "post", o)'
    BY <1>1, <1>2, <1>10 DEF Unsent, At, ProcOK
  <2> QED BY <1>1, <1>3, <2>1, <2>2 DEF SentOK, provider
<1> QED BY <1>1, <1>3, <1>9, <1>10, WrittenInside DEF Labels
\* confirmed or owed,
LEMMA ChargeRecorded ==
  ASSUME Inductive, NEW o \in Orders, charge[o] = "success", RecordCharge(o),
         UNCHANGED <<late, phase, owner, provider, faults>>
  PROVE  /\ Written(o) /\ order'[o] = "PAID"
         /\ checkout'[o] = checkout[o] \/ checkout'[o] \notin {"NONE", "CREATED", "EXPIRED"}
<1>1. /\ order[o] = "PENDING" /\ order' = [order EXCEPT ![o] = "PAID"]
      /\ url' = [url EXCEPT ![o] = FALSE] /\ Refresh(at[o]) /\ UNCHANGED <<at, attempted>>
  BY DEF RecordCharge, HoldOrder, HoldForRefund
<1>2. TypeOK /\ NoUrlAfterErasure /\ OrderOK(o)
  BY InductiveParts
<1>3. PICK S \in SUBSET Ushers : S = Batch(o)
  BY DEF Batch
<1>4. \A u \in Ushers : u \in S <=> booking[o][u] # "NONE"
  BY <1>3 DEF Batch
<1>5. /\ at[o] \in Events /\ at'[o] = at[o] /\ S # {} /\ order'[o] = "PAID"
      /\ \A q \in Orders \ {o} : order'[q] = order[q]
  BY <1>1, <1>2, <1>3 DEF OrderOK, TypeOK
<1>6. CASE HoldOrder(o)
  <2>1. PICK c \in CheckoutState : c = IF checkout[o] = "NONE" THEN "NONE" ELSE "PAID"
    BY DEF CheckoutState
  <2>2. PICK row : row = [u \in Ushers |-> IF u \in S THEN "CONFIRMED" ELSE "NONE"]
    OBVIOUS
  <2>3. /\ checkout[o] # "EXPIRED" /\ refund' = refund
        /\ booking' = [booking EXCEPT ![o] = row] /\ checkout' = [checkout EXCEPT ![o] = c]
    BY <1>3, <1>6, <2>1, <2>2 DEF HoldOrder
  <2>4. row \in [Ushers -> BookingStatus]
    BY <2>2 DEF BookingStatus
  <2>5. /\ booking'[o] = row /\ checkout'[o] = c
        /\ \A q \in Orders \ {o} : booking'[q] = booking[q] /\ checkout'[q] = checkout[q]
    BY <1>2, <2>3 DEF TypeOK
  <2>6. Batch(o)' = S /\ \A u \in S : booking'[o][u] = "CONFIRMED"
    BY <2>2, <2>5 DEF Batch
  <2>7. \A u \in Ushers : refund'[o][u] = "NONE"
    BY <1>1, <1>2, <2>3 DEF OrderOK
  <2>8. OrderOK(o)'
    BY <1>5, <2>1, <2>5, <2>6, <2>7 DEF OrderOK, Paid, provider
  <2>9. StaffingAgrees' /\ staffing' \in [Events -> EventStatus]
    BY <1>1, <1>5, <2>5, SeatsWritten
  <2>10. RowTypes'
    BY <1>1, <1>2, <2>3, <2>4, <2>9 DEF TypeOK, RowTypes, OrderStatus
  <2> QED BY <1>1, <1>2, <1>5, <2>1, <2>3, <2>5, <2>8, <2>9, <2>10
          DEF Written, SameOrder, NoUrlAfterErasure, TypeOK
<1>7. CASE HoldForRefund(o)
  <2>1. PICK row : row = [u \in Ushers |-> IF u \in S THEN "PENDING" ELSE "NONE"]
    OBVIOUS
  <2>2. /\ checkout[o] = "EXPIRED" /\ booking' = booking
        /\ refund' = [refund EXCEPT ![o] = row] /\ checkout' = [checkout EXCEPT ![o] = "REFUND_PENDING"]
        /\ \A u \in S : booking[o][u] = "CANCELLED"
    BY <1>3, <1>7, <2>1 DEF HoldForRefund
  <2>3. row \in [Ushers -> {"NONE", "PENDING", "RECORDED", "FAILED"}]
    BY <2>1
  <2>4. /\ refund'[o] = row /\ checkout'[o] = "REFUND_PENDING"
        /\ \A q \in Orders \ {o} : refund'[q] = refund[q] /\ checkout'[q] = checkout[q]
    BY <1>2, <2>2 DEF TypeOK
  <2>5. Batch(o)' = S
    BY <1>3, <2>2 DEF Batch
  <2>6. \A u \in Ushers : refund'[o][u] = IF u \in S THEN "PENDING" ELSE "NONE"
    BY <2>1, <2>4
  <2>7. OrderOK(o)'
    BY <1>5, <2>2, <2>4, <2>5, <2>6 DEF OrderOK, Paid, provider
  <2>8. StaffingAgrees' /\ staffing' \in [Events -> EventStatus]
    BY <1>1, <1>5, <2>2, SeatsWritten
  <2>9. RowTypes'
    BY <1>1, <1>2, <2>2, <2>3, <2>8 DEF TypeOK, RowTypes, OrderStatus, CheckoutState
  <2> QED BY <1>1, <1>2, <1>5, <2>2, <2>4, <2>7, <2>8, <2>9
          DEF Written, SameOrder, NoUrlAfterErasure, TypeOK
<1> QED BY <1>6, <1>7 DEF RecordCharge

LEMMA HookStep ==
  ASSUME Inductive, NEW o \in Orders, Hook(o)
  PROVE  Inductive'
<1>1. charge[o] = "success" /\ RecordCharge(o) /\ UNCHANGED <<late, phase, owner, provider, procs, faults>>
  BY DEF Hook
<1>2. /\ Written(o)
      /\ checkout'[o] = checkout[o] \/ checkout'[o] \notin {"NONE", "CREATED", "EXPIRED"}
  BY <1>1, ChargeRecorded
<1> QED BY <1>1, <1>2, WrittenOutside

LEMMA SettleChargeStep ==
  ASSUME Inductive, NEW p \in Procs, NEW o \in Orders, SettleCharge(p, o)
  PROVE  Inductive'
<1>1. /\ At(p, "settle", o) /\ job[p].evidence = "success" /\ RecordCharge(o)
      /\ Moves(p, "finish", NewJob(o)) /\ UNCHANGED <<late, phase, owner, provider, faults>>
  BY DEF SettleCharge, Settling, Moves
<1>2. charge[o] = "success" /\ checkout[o] # "NONE"
  BY <1>1, Busy DEF ProcOK
<1>3. /\ Written(o) /\ order'[o] # "NONE"
      /\ checkout'[o] = checkout[o] \/ checkout'[o] \notin {"NONE", "CREATED", "EXPIRED"}
  BY <1>1, <1>2, ChargeRecorded
<1>4. (\A q \in Orders : Unsent(q)) => SentOK(o)'
  BY <1>3, InductiveParts, WrittenParts, SentFrame
<1> QED BY <1>1, <1>2, <1>3, <1>4, WrittenInside DEF Labels

\* freed, when the evidence is conclusive,
LEMMA ExpireStep ==
  ASSUME Inductive, NEW p \in Procs, NEW o \in Orders, Expire(p, o)
  PROVE  Inductive'
<1>1. /\ At(p, "settle", o) /\ order[o] = "PENDING"
      /\ (checkout[o] = "CREATED" \/ job[p].evidence = "unpaid")
      /\ checkout' = [checkout EXCEPT ![o] = "EXPIRED"] /\ url' = [url EXCEPT ![o] = FALSE]
      /\ Refresh(at[o]) /\ Moves(p, "finish", NewJob(o))
      /\ UNCHANGED <<order, at, attempted, late, refund, phase, owner, provider, faults>>
  BY DEF Expire, Settling, Moves, Undecided, Expirable, NeverDispatched
<1>2. TypeOK /\ NoUrlAfterErasure /\ OrderOK(o) /\ SentOK(o)
  BY InductiveParts
<1>3. PICK S \in SUBSET Ushers : S = Batch(o)
  BY DEF Batch
<1>4. PICK row : row = [u \in Ushers |-> IF u \in S THEN "CANCELLED" ELSE "NONE"]
  OBVIOUS
<1>5. row \in [Ushers -> BookingStatus]
  BY <1>4 DEF BookingStatus
<1>6. booking' = [booking EXCEPT ![o] = row]
  BY <1>3, <1>4 DEF Expire
<1>7. /\ checkout'[o] = "EXPIRED" /\ booking'[o] = row /\ at[o] \in Events /\ S # {}
      /\ \A q \in Orders \ {o} : checkout'[q] = checkout[q] /\ booking'[q] = booking[q]
  BY <1>1, <1>2, <1>3, <1>6 DEF TypeOK, OrderOK
<1>8. Batch(o)' = S /\ \A u \in S : booking'[o][u] = "CANCELLED"
  BY <1>4, <1>7 DEF Batch
<1>9. \A u \in Ushers : refund'[o][u] = "NONE"
  BY <1>1, <1>2 DEF OrderOK
<1>10. OrderOK(o)'
  BY <1>1, <1>7, <1>8, <1>9 DEF OrderOK, Paid
<1>11. StaffingAgrees' /\ staffing' \in [Events -> EventStatus]
  BY <1>1, <1>7, SeatsWritten
<1>12. RowTypes'
  BY <1>1, <1>2, <1>5, <1>6, <1>11 DEF TypeOK, RowTypes, CheckoutState
<1>13. Written(o)
  BY <1>1, <1>2, <1>7, <1>10, <1>11, <1>12 DEF Written, SameOrder, NoUrlAfterErasure, TypeOK
<1>14. /\ o \notin inflight /\ (posts[o] > 0 => charge[o] # "none")
       /\ \A q \in Procs : ~ At(q, "post", o)
  <2>1. CASE checkout[o] = "CREATED"
    BY <1>2, <2>1 DEF SentOK
  <2>2. CASE job[p].evidence = "unpaid"
    <3>1. charge[o] \in {"unpaid", "success"}
      BY <1>1, <2>2, Busy DEF ProcOK
    <3> QED BY <1>2, <3>1 DEF SentOK
  <2> QED BY <1>1, <2>1, <2>2
<1>15. (\A q \in Orders : Unsent(q)) => SentOK(o)'
  BY <1>1, <1>2, <1>7, <1>14 DEF SentOK, Unsent, provider
<1> QED BY <1>1, <1>7, <1>13, <1>15, WrittenInside DEF Labels
\* or refunded one by one.
LEMMA BookingRefunded ==
  ASSUME Inductive, NEW o \in Orders, NEW u \in Ushers, RefundBooking(o, u), Paid(o),
         booking[o][u] \in {"CONFIRMED", "CANCELLED"},
         UNCHANGED <<checkout, attempted, url, late, phase, owner, provider, faults>>,
         \/ booking[o][u] = "CONFIRMED" /\ refund' = refund
         \/ booking[o][u] = "CANCELLED" /\ refund' = [refund EXCEPT ![o][u] = "RECORDED"]
  PROVE  Written(o)
<1>1. TypeOK /\ NoUrlAfterErasure /\ OrderOK(o)
  BY InductiveParts
<1>2. PICK S \in SUBSET Ushers : S = Batch(o)
  BY DEF Batch
<1>3. \A w \in Ushers : w \in S <=> booking[o][w] # "NONE"
  BY <1>2 DEF Batch
<1>4. PICK s \in {"REFUNDED", "PARTIALLY_REFUNDED"} :
        s = IF \A w \in S \ {u} : booking[o][w] = "REFUNDED" THEN "REFUNDED" ELSE "PARTIALLY_REFUNDED"
  OBVIOUS
<1>5. /\ booking' = [booking EXCEPT ![o][u] = "REFUNDED"]
      /\ order' = [order EXCEPT ![o] = s]
      /\ at' = at /\ Refresh(at[o])
  BY <1>2, <1>4 DEF RefundBooking
<1>6. /\ order'[o] = s /\ booking'[o][u] = "REFUNDED"
      /\ \A w \in Ushers \ {u} : booking'[o][w] = booking[o][w]
      /\ \A q \in Orders \ {o} : order'[q] = order[q] /\ booking'[q] = booking[q] /\ refund'[q] = refund[q]
  BY <1>1, <1>5 DEF TypeOK
<1>7. /\ at[o] \in Events /\ S # {} /\ charge[o] = "success" /\ order[o] # "REFUNDED"
      /\ checkout[o] # "REFUNDED" /\ u \in S
  BY <1>1, <1>2, <1>3 DEF OrderOK, Paid
<1>8. Batch(o)' = S
  BY <1>3, <1>6, <1>7 DEF Batch
<1>9. s = "REFUNDED" => \A w \in S : booking'[o][w] = "REFUNDED"
  BY <1>4, <1>6
<1>10. \A w \in S : booking'[o][w] \in {"REFUNDED", IF checkout[o] = "REFUND_PENDING"
                                                     THEN "CANCELLED" ELSE "CONFIRMED"}
  BY <1>1, <1>2, <1>6 DEF OrderOK
<1>11. \A w \in Ushers : refund'[o][w] # "NONE" =>
         /\ w \in S /\ checkout[o] = "REFUND_PENDING"
         /\ booking'[o][w] = IF refund'[o][w] = "RECORDED" THEN "REFUNDED" ELSE "CANCELLED"
  <2>1. CASE booking[o][u] = "CONFIRMED" /\ refund' = refund
    BY <1>1, <1>2, <1>6, <1>7, <2>1 DEF OrderOK
  <2>2. CASE booking[o][u] = "CANCELLED" /\ refund' = [refund EXCEPT ![o][u] = "RECORDED"]
    <3>1. checkout[o] = "REFUND_PENDING"
      BY <1>1, <1>2, <1>7, <2>2 DEF OrderOK
    <3>2. refund'[o][u] = "RECORDED" /\ \A w \in Ushers \ {u} : refund'[o][w] = refund[o][w]
      BY <1>1, <2>2 DEF TypeOK
    <3> QED BY <1>1, <1>2, <1>6, <1>7, <3>1, <3>2 DEF OrderOK
  <2> QED BY <2>1, <2>2
<1>12. checkout[o] = "REFUND_PENDING" => \A w \in S : refund'[o][w] # "NONE"
  <2>1. CASE refund' = refund
    BY <1>1, <1>2, <2>1 DEF OrderOK
  <2>2. CASE refund' = [refund EXCEPT ![o][u] = "RECORDED"]
    <3>1. refund'[o][u] = "RECORDED" /\ \A w \in Ushers \ {u} : refund'[o][w] = refund[o][w]
      BY <1>1, <2>2 DEF TypeOK
    <3> QED BY <1>1, <1>2, <3>1 DEF OrderOK
  <2> QED BY <2>1, <2>2
<1>13. OrderOK(o)'
  BY <1>1, <1>4, <1>5, <1>6, <1>7, <1>8, <1>9, <1>10, <1>11, <1>12 DEF OrderOK, Paid, provider
<1>14. StaffingAgrees' /\ staffing' \in [Events -> EventStatus]
  BY <1>5, <1>6, <1>7, SeatsWritten
<1>15. RowTypes'
  <2>1. booking' \in [Orders -> [Ushers -> BookingStatus]]
    BY <1>1, <1>5 DEF TypeOK, BookingStatus
  <2>2. refund' \in [Orders -> [Ushers -> {"NONE", "PENDING", "RECORDED", "FAILED"}]]
    <3>1. refund \in [Orders -> [Ushers -> {"NONE", "PENDING", "RECORDED", "FAILED"}]]
      BY <1>1 DEF TypeOK
    <3>2. refund' = refund \/ refund' = [refund EXCEPT ![o][u] = "RECORDED"]
      OBVIOUS
    <3> QED BY ONLY <3>1, <3>2
  <2>3. order' \in [Orders -> OrderStatus]
    BY <1>1, <1>4, <1>5 DEF TypeOK, OrderStatus
  <2> QED BY <1>1, <1>5, <1>14, <2>1, <2>2, <2>3 DEF TypeOK, RowTypes
<1> QED BY <1>1, <1>4, <1>5, <1>6, <1>13, <1>14, <1>15 DEF Written, SameOrder, NoUrlAfterErasure

LEMMA DriveRefundStep ==
  ASSUME Inductive, NEW o \in Orders, NEW u \in Ushers, DriveRefund(o, u)
  PROVE  Inductive'
<1>1. /\ refund[o][u] = "PENDING"
      /\ UNCHANGED <<checkout, attempted, url, late, phase, owner, provider, procs, faults>>
  BY DEF DriveRefund
<1>2. TypeOK /\ OrderOK(o) /\ NoUrlAfterErasure /\ StaffingAgrees
  BY InductiveParts
<1>3. /\ booking[o][u] = "CANCELLED" /\ u \in Batch(o) /\ order[o] # "REFUNDED"
      /\ checkout[o] = "REFUND_PENDING" /\ Paid(o)
  <2>1. u \in Batch(o) /\ booking[o][u] = "CANCELLED" /\ checkout[o] \in {"REFUND_PENDING", "REFUNDED"}
    BY <1>1, <1>2 DEF OrderOK
  <2> QED BY <1>2, <2>1 DEF OrderOK, Paid
<1>4. CASE refund' = [refund EXCEPT ![o][u] = "RECORDED"] /\ RefundBooking(o, u)
  <2>1. Written(o)
    BY <1>1, <1>3, <1>4, BookingRefunded
  <2> QED BY <1>1, <2>1, WrittenOutside
<1>5. CASE refund' = [refund EXCEPT ![o][u] = "FAILED"] /\ UNCHANGED <<booking, order, at, staffing>>
  <2>1. /\ refund' \in [Orders -> [Ushers -> {"NONE", "PENDING", "RECORDED", "FAILED"}]]
        /\ refund'[o][u] = "FAILED" /\ \A w \in Ushers \ {u} : refund'[o][w] = refund[o][w]
        /\ \A q \in Orders \ {o} : refund'[q] = refund[q]
    BY <1>2, <1>5 DEF TypeOK
  <2>2. OrderOK(o)'
    BY <1>1, <1>2, <1>3, <1>5, <2>1 DEF OrderOK, Paid, Batch, provider
  <2>3. RowTypes' /\ StaffingAgrees' /\ NoUrlAfterErasure'
    BY <1>1, <1>2, <1>5, <2>1, StaffingStays DEF TypeOK, RowTypes, NoUrlAfterErasure
  <2>4. Written(o)
    BY <1>1, <1>5, <2>1, <2>2, <2>3 DEF Written, SameOrder
  <2> QED BY <1>1, <2>4, WrittenOutside
<1> QED BY <1>4, <1>5 DEF DriveRefund

LEMMA LeaveStep ==
  ASSUME Inductive, NEW o \in Orders, NEW u \in Ushers, Leave(o, u)
  PROVE  Inductive'
<1>1. /\ booking[o][u] = "CONFIRMED" /\ RefundBooking(o, u)
      /\ UNCHANGED <<checkout, attempted, url, late, refund, phase, owner, provider, procs, faults>>
  BY DEF Leave
<1>2. Paid(o)
  <2>1. u \in Batch(o) /\ OrderOK(o)
    BY <1>1, InductiveParts DEF Batch
  <2> QED BY <1>1, <2>1 DEF OrderOK, Paid
<1>3. Written(o)
  BY <1>1, <1>2, BookingRefunded
<1> QED BY <1>1, <1>3, WrittenOutside

-----------------------------------------------------------------------------
(* The customer, the provider, the clock and the account.                  *)

LEMMA Elsewhere ==
  ASSUME Inductive, UNCHANGED <<order, at, checkout, booking, refund, posts, procs>>,
         \A o \in Orders : Reached(o), Grows,
         TypeOK', StaffingAgrees', NoUrlAfterErasure'
  PROVE  Inductive'
<1>1. ASSUME NEW o \in Orders
      PROVE  OrderOK(o)' /\ SentOK(o)'
  <2>1. SameOrder(o) /\ Reached(o) /\ Unsent(o)
    BY StayUnsent DEF SameOrder
  <2> QED BY <2>1, InductiveParts, OrderFrame, SentFrame DEF SameOrder
<1>2. \A p \in Procs : ProcOK(p)'
  BY InductiveParts, ProcsStay
<1> QED BY <1>1, <1>2 DEF Inductive, SeatsAgree

LEMMA CustomerStep ==
  ASSUME Inductive, NEW o \in Orders, Pay(o) \/ Abandon(o)
  PROVE  Inductive'
<1>1. /\ charge[o] \in {"open", "unpaid"}
      /\ UNCHANGED <<ledger, late, seating, refund, phase, owner, inflight, posts, procs, faults>>
  BY DEF Pay, Abandon
<1>2. TypeOK /\ StaffingAgrees /\ NoUrlAfterErasure
  BY InductiveParts
<1>3. PICK s \in {"unpaid", "success"} : charge' = [charge EXCEPT ![o] = s]
  BY DEF Pay, Abandon
<1>4. charge'[o] = s /\ \A q \in Orders \ {o} : charge'[q] = charge[q]
  BY <1>2, <1>3 DEF TypeOK
<1>5. charge[o] = "unpaid" => s = "success"
  BY <1>2, <1>4 DEF Pay, Abandon, TypeOK
<1>6. (\A q \in Orders : Reached(q)) /\ Grows
  BY <1>1, <1>4, <1>5 DEF Reached, Grows, ledger
<1>7. TypeOK'
  <2>1. charge' \in [Orders -> ChargeStatus]
    BY <1>2, <1>3 DEF TypeOK, ChargeStatus
  <2> QED BY <1>1, <1>2, <2>1 DEF TypeOK, ledger, seating, procs
<1>8. StaffingAgrees' /\ NoUrlAfterErasure'
  BY <1>1, <1>2, StaffingStays DEF NoUrlAfterErasure, ledger, seating
<1> QED BY <1>1, <1>6, <1>7, <1>8, Elsewhere DEF ledger, seating

LEMMA ArriveStep ==
  ASSUME Inductive, NEW o \in Orders, Arrive(o)
  PROVE  Inductive'
<1>1. /\ o \in inflight /\ inflight' = inflight \ {o} /\ Register(o)
      /\ UNCHANGED <<ledger, late, seating, refund, phase, owner, posts, procs, faults>>
  BY DEF Arrive
<1>2. /\ TypeOK /\ StaffingAgrees /\ NoUrlAfterErasure /\ OrderOK(o) /\ SentOK(o)
  BY InductiveParts
<1>3. charge[o] = "none" /\ posts[o] # 0
  BY <1>1, <1>2 DEF SentOK
<1>4. charge' = [charge EXCEPT ![o] = "open"]
  BY <1>1, <1>3 DEF Register
<1>5. charge'[o] = "open" /\ \A q \in Orders \ {o} : charge'[q] = charge[q]
  BY <1>2, <1>4 DEF TypeOK
<1>6. TypeOK'
  <2>1. charge' \in [Orders -> ChargeStatus]
    BY <1>2, <1>4 DEF TypeOK, ChargeStatus
  <2> QED BY <1>1, <1>2, <2>1 DEF TypeOK, ledger, seating, procs
<1>7. StaffingAgrees' /\ NoUrlAfterErasure'
  BY <1>1, <1>2, StaffingStays DEF NoUrlAfterErasure, ledger, seating
<1>8. \A q \in Orders : Unsent(q)
  BY <1>1, StayUnsent
<1>9. \A q \in Orders \ {o} : SameOrder(q) /\ Reached(q)
  BY <1>1, <1>5 DEF SameOrder, Reached, ledger, seating
<1>10. OrderOK(o)'
  BY <1>1, <1>2, <1>3, <1>5 DEF OrderOK, Paid, Batch, ledger, seating
<1>11. SentOK(o)'
  BY <1>1, <1>2, <1>3, <1>5 DEF SentOK, At, ledger, procs
<1>12. \A p \in Procs : ProcOK(p)'
  <2>1. Grows
    BY <1>1, <1>3, <1>5 DEF Grows, ledger
  <2> QED BY <1>1, <2>1, InductiveParts, ProcsStay
<1> QED BY <1>6, <1>7, <1>8, <1>9, <1>10, <1>11, <1>12, Writes

LEMMA WorldStep ==
  ASSUME Inductive,
         \/ \E o \in Orders : TimeOut(o)
         \/ \E e \in Events : SweepStaffing(e)
         \/ Tick \/ Suspend \/ Reinstate \/ Erase
  PROVE  Inductive'
<1>1. UNCHANGED <<order, at, checkout, attempted, booking, refund, provider, procs, faults>>
  BY DEF TimeOut, SweepStaffing, Tick, Suspend, Reinstate, Erase, ledger, seating
<1>2. TypeOK /\ StaffingAgrees /\ NoUrlAfterErasure
  BY InductiveParts
<1>3. (\A q \in Orders : Reached(q)) /\ Grows
  BY <1>1 DEF Reached, Grows, provider
<1>4. TypeOK' /\ StaffingAgrees' /\ NoUrlAfterErasure'
  <2>1. CASE \E o \in Orders : TimeOut(o)
    BY <1>1, <1>2, <2>1, StaffingStays DEF TimeOut, TypeOK, NoUrlAfterErasure, ledger, seating, provider, procs
  <2>2. CASE \E e \in Events : SweepStaffing(e)
    <3>1. PICK e \in Events : SweepStaffing(e)
      BY <2>2
    <3>2. \A f \in Events : Seats(booking', at', f) = Seats(booking, at, f)
      BY <1>1
    <3>3. StaffingAgrees' /\ staffing' \in [Events -> EventStatus]
      BY <1>2, <3>1, <3>2, Refreshed DEF SweepStaffing
    <3>4. UNCHANGED <<url, late, phase, owner>>
      BY <3>1 DEF SweepStaffing
    <3> QED BY <1>1, <1>2, <3>3, <3>4 DEF TypeOK, NoUrlAfterErasure, provider, procs
  <2>3. CASE Tick
    <3>1. /\ phase \in 0..2 /\ phase < LastPhase /\ phase' = phase + 1
          /\ UNCHANGED <<url, late, staffing, owner>>
      BY <1>2, <2>3 DEF Tick, TypeOK, ledger, seating
    <3>2. phase' \in 0..2 /\ phase' # 0
      BY <3>1
    <3> QED BY <1>1, <1>2, <3>1, <3>2 DEF TypeOK, StaffingAgrees, NoUrlAfterErasure, provider, procs
  <2>4. CASE Suspend \/ Reinstate \/ Erase
    <3>1. /\ UNCHANGED <<late, staffing, phase>> /\ owner' \in {"ACTIVE", "SUSPENDED", "ANONYMIZED"}
          /\ url' = url \/ url' = [o \in Orders |-> FALSE]
      BY <2>4 DEF Suspend, Reinstate, Erase, ledger, seating
    <3>2. StaffingAgrees'
      BY <1>1, <1>2, <3>1, StaffingStays
    <3>3. owner' = "ANONYMIZED" => url' = [o \in Orders |-> FALSE]
      BY <2>4 DEF Suspend, Reinstate, Erase
    <3> QED BY <1>1, <1>2, <3>1, <3>2, <3>3 DEF TypeOK, NoUrlAfterErasure, provider, procs
  <2> QED BY <2>1, <2>2, <2>3, <2>4
<1> QED BY <1>1, <1>3, <1>4, Elsewhere DEF provider

LEMMA StutterStep ==
  ASSUME Inductive, UNCHANGED vars
  PROVE  Inductive'
<1>1. UNCHANGED <<order, at, checkout, attempted, url, late, booking, staffing, refund, phase, owner,
                  charge, inflight, posts, pc, job, faults>>
  BY DEF vars, ledger, seating, provider, procs
<1>2. (\A q \in Orders : Reached(q)) /\ Grows
  BY <1>1 DEF Reached, Grows
<1>3. TypeOK' /\ StaffingAgrees' /\ NoUrlAfterErasure'
  BY <1>1, InductiveParts, StaffingStays DEF TypeOK, NoUrlAfterErasure
<1> QED BY <1>1, <1>2, <1>3, Elsewhere DEF procs
-----------------------------------------------------------------------------
(* The invariant.                                                          *)

LEMMA InitInductive == Init => Inductive
<1> SUFFICES ASSUME Init PROVE Inductive
  OBVIOUS
<1>1. /\ order \in [Orders -> {"NONE", "PENDING"}] /\ at \in [Orders -> Events \cup {None}]
      /\ \A o \in Orders : at[o] = None <=> order[o] = "NONE"
      /\ phase = 0 /\ charge \in [Orders -> ChargeStatus]
      /\ \A o \in Orders : order[o] = "NONE" => charge[o] = "none"
      /\ checkout = [o \in Orders |-> "NONE"]
      /\ attempted = [o \in Orders |-> FALSE] /\ url = [o \in Orders |-> FALSE]
      /\ late = [o \in Orders |-> FALSE]
      /\ refund = [o \in Orders |-> [u \in Ushers |-> "NONE"]]
      /\ owner = "ACTIVE" /\ inflight = {} /\ faults = 0
      /\ posts = [o \in Orders |-> IF order[o] = "NONE" THEN 0 ELSE 1]
      /\ pc = [p \in Procs |-> "idle"] /\ job = [p \in Procs |-> Idle]
  BY DEF Init
<1>2. PICK S \in [Orders -> SUBSET Ushers] :
        /\ \A o \in Orders : S[o] = {} <=> order[o] = "NONE"
        /\ booking = [o \in Orders |-> Reserved(S[o])]
  BY DEF Init
<1>3. booking \in [Orders -> [Ushers -> BookingStatus]]
  BY <1>2, ReservedBatch
<1>4. ASSUME NEW o \in Orders
      PROVE  Batch(o) = S[o] /\ \A u \in S[o] : booking[o][u] = "PENDING_PAYMENT"
  <2>1. \A u \in Ushers : booking[o][u] = IF u \in S[o] THEN "PENDING_PAYMENT" ELSE "NONE"
    BY <1>2, ReservedBatch
  <2> QED BY <2>1 DEF Batch
<1>5. \A e \in Events : staffing[e] = StaffingStatus(e, "OPEN", Cardinality(Seats(booking, at, e)))
  BY DEF Init
<1>6. staffing \in [Events -> EventStatus]
  <2>1. \E f : /\ staffing = [e \in Events |-> f[e]]
               /\ \A e \in Events : f[e] \in EventStatus
    <3> WITNESS [e \in Events |-> StaffingStatus(e, "OPEN", Cardinality(Seats(booking, at, e)))]
    <3> QED BY StatusType DEF Init
  <2> QED BY <2>1
<1>7. TypeOK
  <2>1. ProcTypes
    BY <1>1 DEF ProcTypes, Labels, Idle, NewJob, JobType, Evidence
  <2>2. /\ order \in [Orders -> OrderStatus] /\ checkout \in [Orders -> CheckoutState]
        /\ refund \in [Orders -> [Ushers -> {"NONE", "PENDING", "RECORDED", "FAILED"}]]
        /\ posts \in [Orders -> Nat]
    BY <1>1 DEF OrderStatus, CheckoutState
  <2> QED BY <1>1, <1>3, <1>6, <2>1, <2>2 DEF TypeOK, ProcTypes
<1>8. StaffingAgrees /\ NoUrlAfterErasure
  BY <1>1, <1>5 DEF StaffingAgrees, NoUrlAfterErasure
<1>9. \A o \in Orders : OrderOK(o)
  BY <1>1, <1>2, <1>4 DEF OrderOK, Paid
<1>10. \A o \in Orders : SentOK(o)
  BY <1>1 DEF SentOK, At
<1>11. \A p \in Procs : ProcOK(p)
  BY <1>1 DEF ProcOK
<1> QED BY <1>7, <1>8, <1>9, <1>10, <1>11 DEF Inductive, SeatsAgree

LEMMA NextInductive == Inductive /\ [Next]_vars => Inductive'
<1> SUFFICES ASSUME Inductive, [Next]_vars PROVE Inductive'
  OBVIOUS
<1>1. ASSUME NEW p \in Procs, NEW o \in Orders, Continue(p, o)
      PROVE  Inductive'
  BY <1>1, ControlSteps, EnsureCheckoutStep, DispatchStep, InitializeStep, PublishStep, DoubtStep,
     SettleChargeStep, ExpireStep, FinishStep DEF Continue
<1>2. ASSUME NEW p \in Procs, NEW o \in Orders, Resume(p, o) \/ Check(p, o) \/ Crash(p)
      PROVE  Inductive'
  BY <1>2, ControlSteps
<1>3. ASSUME NEW p \in Procs, Crash(p)
      PROVE  Inductive'
  <2>1. job[p].order \in Orders
    BY <1>3, InductiveParts DEF Crash, ProcOK
  <2> QED BY <1>3, <2>1, ControlSteps
<1>4. CASE \E p \in Handlers, o \in Orders :
             \/ Resume(p, o)
             \/ \E e \in Events, S \in SUBSET Ushers : ConfirmBatch(p, o, e, S)
  BY <1>2, <1>4, ConfirmBatchStep
<1>5. CASE \E o \in Orders : Hook(o) \/ Pay(o) \/ Abandon(o) \/ Arrive(o) \/ TimeOut(o)
  BY <1>5, HookStep, CustomerStep, ArriveStep, WorldStep
<1>6. CASE \E o \in Orders, u \in Ushers : DriveRefund(o, u) \/ Leave(o, u)
  BY <1>6, DriveRefundStep, LeaveStep
<1>7. CASE (\E e \in Events : SweepStaffing(e)) \/ Tick \/ Suspend \/ Reinstate \/ Erase
  BY <1>7, WorldStep
<1>8. CASE UNCHANGED vars
  BY <1>8, StutterStep
<1> QED BY <1>1, <1>2, <1>3, <1>4, <1>5, <1>6, <1>7, <1>8 DEF Next

\* Seats, orders, what was sent and what the processes know stay in order.
THEOREM InductiveInvariant == Spec => []Inductive
  BY InitInductive, NextInductive, PTL DEF Spec

-----------------------------------------------------------------------------
(* The safety properties.                                                  *)

\* events/staffing.ts:15-51, bookings/service.ts:83-204.  Whatever transaction takes or frees a seat, the
\* event recruits exactly when a seat is free.
THEOREM SeatsTellStaffing == Spec => []SeatsAgree
<1>1. Inductive => SeatsAgree
  BY DEF Inductive
<1> QED BY <1>1, InductiveInvariant, PTL

\* payments/checkout.ts:155-186.  One initialization is sent, whoever resumes, retries,
\* crashes or reconciles.
THEOREM SentOnce == Spec => []InitializedOnce
<1>1. Inductive => InitializedOnce
  <2> SUFFICES ASSUME Inductive, NEW o \in Orders PROVE posts[o] <= 1
    BY DEF InitializedOnce
  <2>1. posts[o] \in 0..1
    BY InductiveParts DEF SentOK
  <2> QED BY <2>1
<1> QED BY <1>1, InductiveInvariant, PTL

\* payments/checkout.ts:73-147, ledger.ts:177-301.  Money, seats and late charges follow what the provider knows,
\* however stale the evidence of the process that records it.
THEOREM EvidenceFollowed == Spec => []FollowsEvidence
<1>1. Inductive => FollowsEvidence
  <2> SUFFICES ASSUME Inductive PROVE FollowsEvidence
    OBVIOUS
  <2>1. PaidOnlyIfCharged
    BY InductiveParts DEF PaidOnlyIfCharged, OrderOK, Paid
  <2>2. FreedOnEvidence
    BY InductiveParts DEF FreedOnEvidence, SentOK
  <2>3. LateIsOwed
    <3> SUFFICES ASSUME NEW o \in Orders, NEW u \in Batch(o)
                 PROVE  /\ checkout[o] = "REFUND_PENDING" => refund[o][u] # "NONE"
                        /\ checkout[o] = "REFUNDED" => booking[o][u] = "REFUNDED"
                        /\ refund[o][u] \in {"PENDING", "FAILED"} =>
                             booking[o][u] = "CANCELLED" /\ checkout[o] = "REFUND_PENDING"
                        /\ refund[o][u] = "RECORDED" => booking[o][u] = "REFUNDED"
      BY DEF LateIsOwed
    <3>1. OrderOK(o) /\ u \in Ushers
      BY InductiveParts DEF Batch
    <3> QED BY <3>1 DEF OrderOK
  <2> QED BY <2>1, <2>2, <2>3 DEF FollowsEvidence
<1> QED BY <1>1, InductiveInvariant, PTL

\* payments/checkout.ts:170-176, privacy/service.ts:190-266.  The page of an erased account
\* never comes back, however late its initialization returns.
THEOREM ErasedWithoutUrl == Spec => []NoUrlAfterErasure
<1>1. Inductive => NoUrlAfterErasure
  BY DEF Inductive
<1> QED BY <1>1, InductiveInvariant, PTL
-----------------------------------------------------------------------------
(* The promise of Reservation.                                             *)

Fates == [o \in Orders |-> Fate(o)]
Taken == [o \in Orders |-> {u \in Ushers : booking[o][u] \notin Vacated}]

\* The fate of an order with these columns.
FateOf(s, c, r) ==
    CASE s = "NONE" -> "none"
      [] c = "EXPIRED" -> "freed"
      [] c = "REFUND_PENDING" -> "owed"
      [] c = "REFUNDED" /\ \E u \in Ushers : r[u] # "NONE" -> "returned"
      [] s = "PENDING" /\ c # "EXPIRED" -> "reserved"
      [] OTHER -> "confirmed"

LEMMA FateValues ==
  ASSUME NEW s, NEW c, NEW r
  PROVE  /\ s = "NONE" /\ c = "NONE" => FateOf(s, c, r) = "none"
         /\ s = "PENDING" /\ c \notin {"EXPIRED", "REFUND_PENDING", "REFUNDED"} =>
              FateOf(s, c, r) = "reserved"
         /\ s # "NONE" /\ c = "EXPIRED" => FateOf(s, c, r) = "freed"
         /\ s \notin {"NONE", "PENDING"} /\ c = "REFUND_PENDING" => FateOf(s, c, r) = "owed"
         /\ s \notin {"NONE", "PENDING"} /\ c = "REFUNDED" /\ (\E u \in Ushers : r[u] # "NONE") =>
              FateOf(s, c, r) = "returned"
         /\ s \notin {"NONE", "PENDING"} /\ c \notin {"EXPIRED", "REFUND_PENDING", "REFUNDED"} =>
              FateOf(s, c, r) = "confirmed"
         /\ s \notin {"NONE", "PENDING"} /\ c = "REFUNDED" /\ (\A u \in Ushers : r[u] = "NONE") =>
              FateOf(s, c, r) = "confirmed"
<1> DEFINE returned == \E u \in Ushers : r[u] # "NONE"
<1>1. returned \in BOOLEAN /\ (returned <=> \E u \in Ushers : r[u] # "NONE")
  OBVIOUS
<1>2. FateOf(s, c, r) =
        CASE s = "NONE" -> "none" [] c = "EXPIRED" -> "freed" [] c = "REFUND_PENDING" -> "owed"
          [] c = "REFUNDED" /\ returned -> "returned"
          [] s = "PENDING" /\ c # "EXPIRED" -> "reserved" [] OTHER -> "confirmed"
  BY DEF FateOf
<1> HIDE DEF returned
<1>3. CASE s = "NONE" /\ c = "NONE"
  <2>1. FateOf(s, c, r) = "none"
    BY <1>2, <1>3
  <2> QED BY <1>3, <2>1
<1>4. CASE s # "NONE" /\ c = "EXPIRED"
  <2>1. FateOf(s, c, r) = "freed"
    BY <1>2, <1>4
  <2> QED BY <1>4, <2>1
<1>5. CASE s \notin {"NONE", "PENDING"} /\ c = "REFUND_PENDING"
  <2>1. FateOf(s, c, r) = "owed"
    BY <1>2, <1>5
  <2> QED BY <1>5, <2>1
<1>6. CASE s \notin {"NONE", "PENDING"} /\ c = "REFUNDED" /\ returned
  <2>1. FateOf(s, c, r) = "returned"
    BY <1>2, <1>6
  <2> QED BY <1>1, <1>6, <2>1
<1>7. CASE s = "PENDING" /\ c \notin {"EXPIRED", "REFUND_PENDING", "REFUNDED"}
  <2>1. FateOf(s, c, r) = "reserved"
    BY <1>2, <1>7
  <2> QED BY <1>7, <2>1
<1>8. CASE s \notin {"NONE", "PENDING"} /\ c \notin {"EXPIRED", "REFUND_PENDING", "REFUNDED"}
  <2>1. FateOf(s, c, r) = "confirmed"
    BY <1>2, <1>8
  <2> QED BY <1>8, <2>1
<1>9. CASE s \notin {"NONE", "PENDING"} /\ c = "REFUNDED" /\ ~ returned
  <2>1. FateOf(s, c, r) = "confirmed"
    BY <1>2, <1>9
  <2> QED BY <1>1, <1>9, <2>1
<1> QED BY <1>1, <1>3, <1>4, <1>5, <1>6, <1>7, <1>8, <1>9

LEMMA FateByColumns ==
  Fates = [o \in Orders |-> FateOf(order[o], checkout[o], refund[o])]
  BY DEF Fates, Fate, FateOf

LEMMA FateByColumnsNext ==
  Fates' = [o \in Orders |-> FateOf(order'[o], checkout'[o], refund'[o])]
  BY DEF Fates, Fate, FateOf
\* Reservation counts as Checkout does.
LEMMA SameCount ==
  ASSUME NEW T
  PROVE  Promise!Cardinality(T) = Cardinality(T)
  BY DEF Promise!Cardinality, Cardinality

\* The seats that Reservation counts are those that staffing counts.
LEMMA OccupantsAreSeats ==
  ASSUME NEW e
  PROVE  Promise!Occupants(e) = Seats(booking, at, e)
<1>1. \A o \in Orders, u \in Ushers : u \in Taken[o] <=> booking[o][u] \notin Vacated
  BY DEF Taken
<1>2. Promise!Occupants(e) = {s \in Orders \X Ushers : at[s[1]] = e /\ s[2] \in Taken[s[1]]}
  BY DEF Promise!Occupants, Taken
<1> QED BY <1>1, <1>2 DEF Seats

\* What a step does to one order is what it does to the promise.
LEMMA Mapped ==
  ASSUME NEW o \in Orders, \A q \in Orders \ {o} : SameOrder(q), NEW a,
         a = FateOf(order'[o], checkout'[o], refund'[o])
  PROVE  /\ Fates' = [Fates EXCEPT ![o] = a]
         /\ \A T : T = {u \in Ushers : booking'[o][u] \notin Vacated} =>
              Taken' = [Taken EXCEPT ![o] = T]
<1>1. Fates' = [Fates EXCEPT ![o] = a]
  <2>1. \A q \in Orders \ {o} :
          FateOf(order'[q], checkout'[q], refund'[q]) = FateOf(order[q], checkout[q], refund[q])
    BY DEF SameOrder
  <2> QED BY <2>1, FateByColumns, FateByColumnsNext
<1>2. ASSUME NEW T, T = {u \in Ushers : booking'[o][u] \notin Vacated}
      PROVE  Taken' = [Taken EXCEPT ![o] = T]
  <2>1. \A q \in Orders \ {o} : {u \in Ushers : booking'[q][u] \notin Vacated}
                              = {u \in Ushers : booking[q][u] \notin Vacated}
    BY DEF SameOrder
  <2> QED BY <1>2, <2>1 DEF Taken
<1> QED BY <1>1, <1>2

LEMMA FateNow ==
  ASSUME NEW o \in Orders
  PROVE  Fates[o] = FateOf(order[o], checkout[o], refund[o])
  BY FateByColumns

\* A step in which no order changes its fate or its seats.
LEMMA NoSeatMoves ==
  ASSUME UNCHANGED <<order, at, checkout, booking, refund>>
  PROVE  UNCHANGED Promise!vars
<1>1. Fates' = Fates
  BY FateByColumns, FateByColumnsNext
<1>2. Taken' = Taken
  BY DEF Taken
<1> QED BY <1>1, <1>2 DEF Promise!vars, Fates, Taken

\* The same, when the columns of one order change.
LEMMA SameFate ==
  ASSUME NEW o \in Orders, at' = at, \A q \in Orders \ {o} : SameOrder(q),
         FateOf(order'[o], checkout'[o], refund'[o]) = FateOf(order[o], checkout[o], refund[o]),
         \A u \in Ushers : booking'[o][u] \in Vacated <=> booking[o][u] \in Vacated
  PROVE  UNCHANGED Promise!vars
<1>1. Fates' = Fates
  <2>1. \A q \in Orders :
          FateOf(order'[q], checkout'[q], refund'[q]) = FateOf(order[q], checkout[q], refund[q])
    BY DEF SameOrder
  <2> QED BY <2>1, FateByColumns, FateByColumnsNext
<1>2. Taken' = Taken
  <2>1. \A q \in Orders : {u \in Ushers : booking'[q][u] \notin Vacated}
                        = {u \in Ushers : booking[q][u] \notin Vacated}
    BY DEF SameOrder
  <2> QED BY <2>1 DEF Taken
<1> QED BY <1>1, <1>2 DEF Promise!vars, Fates, Taken

\* Another state of the checkout of an order that stays reserved or confirmed.
LEMMA CheckoutKeeps ==
  ASSUME Inductive, NEW p \in Procs, NEW o \in Orders,
         \/ EnsureCheckout(p, o) \/ Dispatch(p, o) \/ Publish(p, o) \/ Doubt(p, o) \/ Retain(p, o)
  PROVE  UNCHANGED Promise!vars
<1>1. TypeOK /\ OrderOK(o) /\ UNCHANGED <<order, at, booking, refund>>
  BY InductiveParts DEF EnsureCheckout, Dispatch, Publish, Doubt, Retain, seating
<1>2. CASE checkout' = checkout
  BY <1>1, <1>2, NoSeatMoves
<1>3. CASE checkout' # checkout
  <2>1. order[o] # "NONE"
    BY Busy DEF EnsureCheckout, Dispatch, Publish, Doubt, Retain, Settling
  <2>2. \A q \in Orders \ {o} : checkout'[q] = checkout[q]
    BY <1>1 DEF TypeOK, EnsureCheckout, Dispatch, Publish, Doubt, Retain
  <2>3. checkout'[o] # checkout[o]
    BY <1>1, <1>3, <2>2 DEF TypeOK, EnsureCheckout, Dispatch, Publish, Doubt, Retain
  <2>4. PICK s, c, d, r : s = order[o] /\ c = checkout[o] /\ d = checkout'[o] /\ r = refund[o]
    OBVIOUS
  <2>5. \/ s = "PENDING" /\ c \notin {"EXPIRED", "REFUND_PENDING", "REFUNDED"}
           /\ d \notin {"EXPIRED", "REFUND_PENDING", "REFUNDED"}
        \/ s \notin {"NONE", "PENDING"} /\ c = "NONE" /\ d \in {"PAID", "REFUNDED"}
           /\ \A u \in Ushers : r[u] = "NONE"
    <3>1. CASE EnsureCheckout(p, o)
      BY <1>1, <2>1, <2>3, <2>4, <3>1 DEF EnsureCheckout, OrderOK, TypeOK
    <3>2. CASE Dispatch(p, o)
      BY <1>1, <2>1, <2>4, <3>2 DEF Dispatch, Dispatchable, TypeOK
    <3>3. CASE Publish(p, o)
      BY <1>1, <2>1, <2>3, <2>4, <3>3 DEF Publish, OrderOK, Paid, TypeOK
    <3>4. CASE Doubt(p, o)
      BY <1>1, <2>1, <2>3, <2>4, <3>4 DEF Doubt, OrderOK, Paid, TypeOK
    <3>5. CASE Retain(p, o)
      BY <1>1, <2>1, <2>3, <2>4, <3>5 DEF Retain, Undecided, OrderOK, TypeOK
    <3> QED BY <3>1, <3>2, <3>3, <3>4, <3>5
  <2>6. FateOf(s, d, r) = FateOf(s, c, r)
    BY <2>5, FateValues
  <2>7. \A q \in Orders \ {o} : SameOrder(q)
    BY <1>1, <2>2 DEF SameOrder
  <2> QED BY <1>1, <2>4, <2>6, <2>7, SameFate
<1> QED BY <1>2, <1>3

LEMMA FinishKeeps ==
  ASSUME Inductive, NEW p \in Procs, NEW o \in Orders, Finish(p, o)
  PROVE  Promise!Return(o) \/ UNCHANGED Promise!vars
<1>1. TypeOK /\ OrderOK(o) /\ UNCHANGED <<order, at, booking, refund>>
  BY InductiveParts DEF Finish, seating
<1>2. CASE order[o] = "REFUNDED" /\ checkout[o] = "REFUND_PENDING"
  <2>1. checkout' = [checkout EXCEPT ![o] = "REFUNDED"]
    BY <1>2 DEF Finish
  <2>2. checkout'[o] = "REFUNDED" /\ \A q \in Orders \ {o} : SameOrder(q)
    BY <1>1, <2>1 DEF TypeOK, SameOrder
  <2>3. \E u \in Ushers : refund[o][u] # "NONE"
    BY <1>1, <1>2 DEF OrderOK, Batch
  <2>4. PICK r : r = refund[o] /\ r = refund'[o]
    BY <1>1
  <2>5. FateOf("REFUNDED", "REFUND_PENDING", r) = "owed" /\ FateOf("REFUNDED", "REFUNDED", r) = "returned"
    BY <2>3, <2>4, FateValues
  <2>6. Fates[o] = "owed" /\ Fates' = [Fates EXCEPT ![o] = "returned"]
    BY <1>1, <1>2, <2>2, <2>4, <2>5, FateNow, Mapped
  <2>7. Taken' = Taken /\ at' = at
    BY <1>1 DEF Taken
  <2> QED BY <2>6, <2>7 DEF Promise!Return, Fates, Taken
<1>3. CASE ~ (order[o] = "REFUNDED" /\ checkout[o] = "REFUND_PENDING")
  <2>1. checkout' = checkout
    BY <1>1, <1>3 DEF Finish, TypeOK
  <2> QED BY <1>1, <2>1, NoSeatMoves
<1> QED BY <1>2, <1>3
LEMMA ReservationKeeps ==
  ASSUME Inductive, NEW p \in Procs, NEW o \in Orders, NEW e \in Events,
         NEW S \in SUBSET Ushers, ConfirmBatch(p, o, e, S)
  PROVE  Promise!Reserve(o, e, S)
<1>1. /\ order[o] = "NONE" /\ S # {}
      /\ \A q \in Orders, u \in S : booking[q][u] \in Vacated
      /\ Cardinality(Seats(booking, at, e)) + Cardinality(S) <= Headcount[e]
      /\ order' = [order EXCEPT ![o] = "PENDING"] /\ at' = [at EXCEPT ![o] = e]
      /\ checkout' = [checkout EXCEPT ![o] = "CREATED"]
      /\ booking' = [booking EXCEPT ![o] = Reserved(S)] /\ refund' = refund
  BY DEF ConfirmBatch
<1>2. TypeOK /\ OrderOK(o)
  BY InductiveParts
<1>3. /\ order'[o] = "PENDING" /\ checkout'[o] = "CREATED" /\ booking'[o] = Reserved(S)
      /\ \A q \in Orders \ {o} : SameOrder(q)
  BY <1>1, <1>2 DEF TypeOK, SameOrder
<1>4. Fates[o] = "none"
  <2>1. PICK r : r = refund[o]
    OBVIOUS
  <2>2. checkout[o] = "NONE"
    BY <1>1, <1>2 DEF OrderOK
  <2>3. FateOf("NONE", "NONE", r) = "none"
    BY FateValues
  <2> QED BY <1>1, <2>1, <2>2, <2>3, FateNow
<1>5. Fates' = [Fates EXCEPT ![o] = "reserved"]
  <2>1. PICK r : r = refund'[o]
    OBVIOUS
  <2>2. FateOf("PENDING", "CREATED", r) = "reserved"
    BY FateValues
  <2> QED BY <1>3, <2>1, <2>2, Mapped
<1>6. Taken' = [Taken EXCEPT ![o] = S]
  <2>1. S = {u \in Ushers : booking'[o][u] \notin Vacated}
    BY <1>3, ReservedBatch DEF Vacated
  <2> QED BY <1>3, <2>1, Mapped
<1>7. \A u \in S : ~ Promise!Engaged(u)
  <2> SUFFICES ASSUME NEW u \in S, NEW q \in Orders PROVE u \notin Taken[q]
    BY DEF Promise!Engaged, Taken
  <2> QED BY <1>1 DEF Taken
<1>8. Promise!Cardinality(Promise!Occupants(e)) + Promise!Cardinality(S) <= Headcount[e]
  BY <1>1, OccupantsAreSeats, SameCount
<1> QED BY <1>1, <1>4, <1>5, <1>6, <1>7, <1>8 DEF Promise!Reserve, Fates, Taken

LEMMA RecordingKeeps ==
  ASSUME Inductive, NEW o \in Orders, charge[o] = "success", RecordCharge(o),
         UNCHANGED <<late, phase, owner, provider, faults>>
  PROVE  Promise!Confirm(o) \/ Promise!PayLate(o)
<1>1. Written(o) /\ order'[o] = "PAID" /\ order[o] = "PENDING" /\ at' = at
  BY ChargeRecorded DEF RecordCharge, HoldOrder, HoldForRefund
<1>2. TypeOK /\ OrderOK(o) /\ \A q \in Orders \ {o} : SameOrder(q)
  BY <1>1, InductiveParts DEF Written
<1>3. PICK c, r, d, t : c = checkout[o] /\ r = refund[o] /\ d = checkout'[o] /\ t = refund'[o]
  OBVIOUS
<1>4. CASE HoldOrder(o)
  <2>1. /\ c \notin {"EXPIRED", "REFUND_PENDING", "REFUNDED"} /\ d \in {"NONE", "PAID"}
    BY <1>1, <1>2, <1>3, <1>4 DEF HoldOrder, OrderOK, TypeOK
  <2>2. FateOf("PENDING", c, r) = "reserved" /\ FateOf("PAID", d, t) = "confirmed"
    BY <2>1, FateValues
  <2>3. Fates[o] = "reserved" /\ Fates' = [Fates EXCEPT ![o] = "confirmed"]
    BY <1>1, <1>2, <1>3, <2>2, FateNow, Mapped
  <2>4. \A u \in Ushers : booking'[o][u] = IF u \in Batch(o) THEN "CONFIRMED" ELSE "NONE"
    BY <1>2, <1>4 DEF HoldOrder, TypeOK
  <2>5. \A u \in Ushers : u \in Batch(o) <=> booking[o][u] # "NONE"
    BY DEF Batch
  <2>6. \A u \in Batch(o) : booking[o][u] = "PENDING_PAYMENT"
    BY <1>4 DEF HoldOrder
  <2>7. \A q \in Orders : {u \in Ushers : booking'[q][u] \notin Vacated}
                        = {u \in Ushers : booking[q][u] \notin Vacated}
    BY <1>2, <2>4, <2>5, <2>6 DEF Vacated, SameOrder
  <2>8. Taken' = Taken
    BY <2>7 DEF Taken
  <2> QED BY <1>1, <2>3, <2>8 DEF Promise!Confirm, Fates, Taken
<1>5. CASE HoldForRefund(o)
  <2>1. c = "EXPIRED" /\ d = "REFUND_PENDING" /\ booking' = booking
    BY <1>2, <1>3, <1>5 DEF HoldForRefund, TypeOK
  <2>2. FateOf("PENDING", c, r) = "freed" /\ FateOf("PAID", d, t) = "owed"
    BY <2>1, FateValues
  <2>3. Fates[o] = "freed" /\ Fates' = [Fates EXCEPT ![o] = "owed"]
    BY <1>1, <1>2, <1>3, <2>2, FateNow, Mapped
  <2>4. Taken' = Taken
    BY <2>1 DEF Taken
  <2> QED BY <1>1, <2>3, <2>4 DEF Promise!PayLate, Fates, Taken
<1> QED BY <1>4, <1>5 DEF RecordCharge

LEMMA ExpiryKeeps ==
  ASSUME Inductive, NEW p \in Procs, NEW o \in Orders, Expire(p, o)
  PROVE  Promise!Free(o)
<1>1. /\ order[o] = "PENDING" /\ checkout[o] # "EXPIRED"
      /\ checkout' = [checkout EXCEPT ![o] = "EXPIRED"]
      /\ booking' = [booking EXCEPT ![o] =
                        [u \in Ushers |-> IF u \in Batch(o) THEN "CANCELLED" ELSE "NONE"]]
      /\ UNCHANGED <<order, at, refund>>
  BY DEF Expire, Undecided
<1>2. TypeOK /\ OrderOK(o)
  BY InductiveParts
<1>3. /\ checkout'[o] = "EXPIRED"
      /\ \A u \in Ushers : booking'[o][u] \in {"CANCELLED", "NONE"}
      /\ \A q \in Orders \ {o} : SameOrder(q)
  BY <1>1, <1>2 DEF TypeOK, SameOrder
<1>4. PICK c, r : c = checkout[o] /\ r = refund[o] /\ r = refund'[o]
  BY <1>1
<1>5. c \notin {"EXPIRED", "REFUND_PENDING", "REFUNDED"}
  BY <1>1, <1>2, <1>4 DEF OrderOK
<1>6. FateOf("PENDING", c, r) = "reserved" /\ FateOf("PENDING", "EXPIRED", r) = "freed"
  BY <1>5, FateValues
<1>7. Fates[o] = "reserved" /\ Fates' = [Fates EXCEPT ![o] = "freed"]
  BY <1>1, <1>3, <1>4, <1>6, FateNow, Mapped
<1>8. Taken' = [Taken EXCEPT ![o] = {}]
  <2>1. {} = {u \in Ushers : booking'[o][u] \notin Vacated}
    BY <1>3 DEF Vacated
  <2> QED BY <1>3, <2>1, Mapped
<1> QED BY <1>1, <1>7, <1>8 DEF Promise!Free, Fates, Taken

\* The refund of a booking whose seat is free already.
LEMMA RefundKeeps ==
  ASSUME Inductive, NEW o \in Orders, NEW u \in Ushers, DriveRefund(o, u)
  PROVE  UNCHANGED Promise!vars
<1>1. refund[o][u] = "PENDING" /\ checkout' = checkout
  BY DEF DriveRefund
<1>2. TypeOK /\ OrderOK(o)
  BY InductiveParts
<1>3. /\ booking[o][u] = "CANCELLED" /\ checkout[o] = "REFUND_PENDING" /\ Paid(o)
  <2>1. u \in Batch(o) /\ booking[o][u] = "CANCELLED" /\ checkout[o] \in {"REFUND_PENDING", "REFUNDED"}
    BY <1>1, <1>2 DEF OrderOK
  <2> QED BY <1>2, <2>1 DEF OrderOK, Paid
<1>4. /\ at' = at /\ order'[o] \notin {"NONE", "PENDING"}
      /\ \A q \in Orders \ {o} : SameOrder(q)
      /\ booking'[o][u] \in {"CANCELLED", "REFUNDED"}
      /\ \A w \in Ushers \ {u} : booking'[o][w] = booking[o][w]
  <2>1. CASE RefundBooking(o, u) /\ refund' = [refund EXCEPT ![o][u] = "RECORDED"]
    <3>1. PICK s \in {"REFUNDED", "PARTIALLY_REFUNDED"} : order' = [order EXCEPT ![o] = s]
      BY <2>1 DEF RefundBooking
    <3>2. booking' = [booking EXCEPT ![o][u] = "REFUNDED"] /\ at' = at
      BY <2>1 DEF RefundBooking
    <3> QED BY <1>1, <1>2, <2>1, <3>1, <3>2 DEF TypeOK, SameOrder
  <2>2. CASE refund' = [refund EXCEPT ![o][u] = "FAILED"] /\ UNCHANGED <<booking, order, at>>
    BY <1>1, <1>2, <1>3, <2>2 DEF TypeOK, SameOrder, Paid
  <2> QED BY <2>1, <2>2 DEF DriveRefund
<1>5. PICK s, t, r, v : s = order[o] /\ t = order'[o] /\ r = refund[o] /\ v = refund'[o]
  OBVIOUS
<1>6. FateOf(s, "REFUND_PENDING", r) = FateOf(t, "REFUND_PENDING", v)
  BY <1>3, <1>4, <1>5, FateValues DEF Paid
<1>7. FateOf(order'[o], checkout'[o], refund'[o]) = FateOf(order[o], checkout[o], refund[o])
  BY <1>1, <1>3, <1>5, <1>6
<1>8. \A w \in Ushers : booking'[o][w] \in Vacated <=> booking[o][w] \in Vacated
  BY <1>3, <1>4 DEF Vacated
<1> QED BY <1>4, <1>7, <1>8, SameFate

LEMMA LeavingKeeps ==
  ASSUME Inductive, NEW o \in Orders, NEW u \in Ushers, Leave(o, u)
  PROVE  u \in Taken[o] /\ Promise!Leave(o, u)
<1>1. booking[o][u] = "CONFIRMED" /\ RefundBooking(o, u) /\ UNCHANGED <<checkout, refund>>
  BY DEF Leave
<1>2. TypeOK /\ OrderOK(o)
  BY InductiveParts
<1>3. PICK s \in {"REFUNDED", "PARTIALLY_REFUNDED"} : order' = [order EXCEPT ![o] = s]
  BY <1>1 DEF RefundBooking
<1>4. /\ at' = at /\ order'[o] = s /\ booking'[o][u] = "REFUNDED"
      /\ \A w \in Ushers \ {u} : booking'[o][w] = booking[o][w]
      /\ \A q \in Orders \ {o} : SameOrder(q)
  BY <1>1, <1>2, <1>3 DEF RefundBooking, TypeOK, SameOrder
<1>5. Paid(o) /\ checkout[o] \in {"NONE", "PAID"}
  <2>1. u \in Batch(o)
    BY <1>1 DEF Batch
  <2> QED BY <1>1, <1>2, <2>1 DEF OrderOK, Paid
<1>6. PICK q, c, r : q = order[o] /\ c = checkout[o] /\ r = refund[o]
  OBVIOUS
<1>7. FateOf(q, c, r) = "confirmed" /\ FateOf(s, c, r) = "confirmed"
  BY <1>5, <1>6, FateValues DEF Paid
<1>8. Fates[o] = "confirmed" /\ Fates' = [Fates EXCEPT ![o] = "confirmed"]
  BY <1>1, <1>4, <1>6, <1>7, FateNow, Mapped
<1>9. Fates' = Fates
  BY <1>8 DEF Fates
<1>10. Taken' = [Taken EXCEPT ![o] = Taken[o] \ {u}]
  <2>1. Taken[o] \ {u} = {w \in Ushers : booking'[o][w] \notin Vacated}
    BY <1>4 DEF Taken, Vacated
  <2> QED BY <1>4, <2>1, Mapped
<1>11. u \in Taken[o]
  BY <1>1 DEF Taken, Vacated
<1> QED BY <1>4, <1>8, <1>9, <1>10, <1>11 DEF Promise!Leave, Fates, Taken

LEMMA StepKeepsPromise ==
  Inductive /\ [Next]_vars => [Promise!ReservationNext]_(Promise!vars)
<1> SUFFICES ASSUME Inductive, [Next]_vars
             PROVE  Promise!ReservationNext \/ UNCHANGED Promise!vars
  OBVIOUS
<1>1. ASSUME NEW p \in Procs, NEW o \in Orders, Continue(p, o)
      PROVE  Promise!ReservationNext \/ UNCHANGED Promise!vars
  <2>1. CASE \/ EnsureCheckout(p, o) \/ Dispatch(p, o) \/ Publish(p, o) \/ Doubt(p, o) \/ Retain(p, o)
    BY <2>1, CheckoutKeeps
  <2>2. CASE Finish(p, o)
    BY <2>2, FinishKeeps DEF Promise!ReservationNext
  <2>3. CASE SettleCharge(p, o)
    <3>1. charge[o] = "success" /\ RecordCharge(o) /\ UNCHANGED <<late, phase, owner, provider, faults>>
      BY <2>3, Busy DEF SettleCharge, Settling, ProcOK
    <3> QED BY <3>1, RecordingKeeps DEF Promise!ReservationNext
  <2>4. CASE Expire(p, o)
    BY <2>4, ExpiryKeeps DEF Promise!ReservationNext
  <2>5. CASE \/ NoDispatch(p, o) \/ Initialize(p, o) \/ PublishFails(p, o) \/ Reopen(p, o)
             \/ Read(p, o) \/ Verify(p, o) \/ NothingToSettle(p, o)
    <3>1. UNCHANGED <<order, at, checkout, booking, refund>>
      BY <2>5 DEF NoDispatch, Initialize, PublishFails, Reopen, Read, Verify, NothingToSettle,
         ledger, seating
    <3> QED BY <3>1, NoSeatMoves
  <2> QED BY <1>1, <2>1, <2>2, <2>3, <2>4, <2>5 DEF Continue
<1>2. ASSUME NEW p \in Procs, NEW o \in Orders, Resume(p, o) \/ Check(p, o)
      PROVE  UNCHANGED Promise!vars
  <2>1. UNCHANGED <<order, at, checkout, booking, refund>>
    BY <1>2 DEF Resume, Check, ledger, seating
  <2> QED BY <2>1, NoSeatMoves
<1>3. ASSUME NEW p \in Handlers, NEW o \in Orders, NEW e \in Events, NEW S \in SUBSET Ushers,
             ConfirmBatch(p, o, e, S)
      PROVE  Promise!ReservationNext
  BY <1>3, ReservationKeeps DEF Promise!ReservationNext
<1>4. ASSUME NEW o \in Orders, Hook(o)
      PROVE  Promise!ReservationNext
  BY <1>4, RecordingKeeps DEF Hook, Promise!ReservationNext
<1>5. ASSUME NEW o \in Orders, NEW u \in Ushers, DriveRefund(o, u) \/ Leave(o, u)
      PROVE  Promise!ReservationNext \/ UNCHANGED Promise!vars
  BY <1>5, RefundKeeps, LeavingKeeps DEF Promise!ReservationNext, Taken
<1>6. CASE \/ \E p \in Procs : Crash(p)
           \/ \E o \in Orders : Pay(o) \/ Abandon(o) \/ Arrive(o) \/ TimeOut(o)
           \/ \E e \in Events : SweepStaffing(e)
           \/ Tick \/ Suspend \/ Reinstate \/ Erase \/ UNCHANGED vars
  <2>1. UNCHANGED <<order, at, checkout, booking, refund>>
    BY <1>6 DEF Crash, Pay, Abandon, Arrive, TimeOut, SweepStaffing, Tick, Suspend, Reinstate, Erase,
       vars, ledger, seating
  <2> QED BY <2>1, NoSeatMoves
<1> QED BY <1>1, <1>2, <1>3, <1>4, <1>5, <1>6 DEF Next

LEMMA InitKeepsPromise == Init => Promise!ReservationInit
<1> SUFFICES ASSUME Init PROVE Promise!ReservationInit
  OBVIOUS
<1>1. /\ order \in [Orders -> {"NONE", "PENDING"}] /\ at \in [Orders -> Events \cup {None}]
      /\ \A o \in Orders : at[o] = None <=> order[o] = "NONE"
      /\ checkout = [o \in Orders |-> "NONE"]
  BY DEF Init
<1>2. Inductive
  BY InitInductive
<1>3. \A o \in Orders : Fates[o] = IF order[o] = "NONE" THEN "none" ELSE "reserved"
  <2> TAKE o \in Orders
  <2>1. PICK r : r = refund[o]
    OBVIOUS
  <2>2. FateOf("NONE", "NONE", r) = "none" /\ FateOf("PENDING", "NONE", r) = "reserved"
    BY FateValues
  <2> QED BY <1>1, <2>1, <2>2, FateNow
<1>4. \A o \in Orders : order[o] = "NONE" => at[o] = None /\ Taken[o] = {}
  BY <1>2, InductiveParts DEF OrderOK, Batch, Taken, Vacated
<1>5. Fates \in [Orders -> {"none", "reserved"}] /\ Taken \in [Orders -> SUBSET Ushers]
  <2>1. Fates = [o \in Orders |-> Fates[o]]
    BY DEF Fates
  <2>2. Taken \in [Orders -> SUBSET Ushers]
    BY DEF Taken
  <2> QED BY <1>3, <2>1, <2>2
<1> QED BY <1>1, <1>3, <1>4, <1>5 DEF Promise!ReservationInit, Fates, Taken

\* bookings/service.ts:83-204, payments/checkout.ts:73-147.  The checkout keeps the promise of
\* Reservation: a batch is reserved within the headcount, confirmed or freed as a whole,
\* and a late charge never brings its seats back.
THEOREM ReservationImplemented == Spec => ImplementsReservation
<1>1. Spec => []Inductive
  BY InductiveInvariant
<1> QED BY <1>1, InitKeepsPromise, StepKeepsPromise, PTL
        DEF Spec, ImplementsReservation, Promise!ReservationSpec
=============================================================================
