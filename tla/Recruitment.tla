---------------------------- MODULE Recruitment -----------------------------
(***************************************************************************)
(* Recruitment: applications, invitations, selection, the availability     *)
(* calendar, edits of an event, and the reservation that ends it.          *)
(*                                                                         *)
(* Each operation is one transaction that holds the lock of its event and  *)
(* the schedule locks of its ushers, so a step is a transaction; which     *)
(* request comes next, on however old a screen, is open.  The clients are  *)
(* one, and always active.  Payment, work and refunds are BookingEscrow's  *)
(* and Checkout's: a booking here is live or vacated.                      *)
(***************************************************************************)
EXTENDS Integers, FiniteSets

CONSTANTS
    Events, Ushers,
    Barrable,       \* bound: ushers who lose and regain their verification or account
    Terms,          \* bound: what an event may be published or edited to
    Pools,          \* bound: the events published, and the ushers each has to do with
    Hours           \* bound: the clock runs from 0 to Hours

ASSUME RecruitmentAssumption ==
    /\ IsFiniteSet(Ushers) /\ Barrable \subseteq Ushers
    /\ Pools \subseteq UNION {[P -> SUBSET Ushers] : P \in SUBSET Events}
    /\ Hours \in Nat
    /\ \A t \in Terms :
        /\ DOMAIN t = {"date", "start", "end", "headcount"}
        /\ t.date \in Nat /\ t.start \in Nat /\ t.end \in Nat /\ t.start < t.end
        /\ t.headcount \in Nat \ {0}
    /\ \A s, t \in Terms : s.date < t.date => s.end <= t.start

VARIABLES
    terms,         \* event.eventDate, startTime, endTime, headcount
    status,        \* event.status
    application,   \* application.status
    invitation,    \* invitation.status; EXPIRED, which nothing writes, is left out
    booking,       \* the newest booking of an usher for an event
    unavailable,   \* availability rows that are not AVAILABLE, as dates
    pool,          \* one of Pools
    barred,        \* ushers not VERIFIED or not ACTIVE
    clock,
    word           \* history: what the usher last said about the event

rows == <<application, invitation, booking>>
vars == <<terms, status, rows, unavailable, pool, barred, clock, word>>

Dates == {t.date : t \in Terms}
Published == DOMAIN pool

Init ==
    /\ pool \in Pools
    /\ terms \in [Published -> Terms]
    /\ status = [e \in Published |-> "OPEN"]
    /\ application = [e \in Published |-> [u \in Ushers |-> "NONE"]]
    /\ invitation = [e \in Published |-> [u \in Ushers |-> "NONE"]]
    /\ booking = [e \in Published |-> [u \in Ushers |-> "NONE"]]
    /\ unavailable = [u \in Ushers |-> {}]
    /\ barred = {}
    /\ clock = 0
    /\ word = [e \in Published |-> [u \in Ushers |-> "NONE"]]

-----------------------------------------------------------------------------
(* The checks the operations share.                                        *)

Recruiting == {"OPEN", "PARTIALLY_STAFFED"}
assertRecruiting(e) == status[e] \in Recruiting /\ clock < terms[e].start

Overlaps(s, t) == s.date = t.date /\ s.start < t.end /\ t.start < s.end

assertStaffEligible(e, S) ==
    /\ assertRecruiting(e)
    /\ S \cap barred = {}
    /\ \A u \in S :
        /\ terms[e].date \notin unavailable[u]
        /\ \A o \in Published \ {e} : booking[o][u] = "LIVE" => ~Overlaps(terms[o], terms[e])

assertNoLiveBooking(e, u) == booking[e][u] # "LIVE"
Closed(e, u) == invitation[e][u] = "DECLINED"

Live(b, e) == {u \in Ushers : b[e][u] = "LIVE"}

\* The status an event takes when a booking of it changes; b are the bookings then.
staffingStatus(e, b) ==
    LET t == terms[e]
        occupied == Cardinality(Live(b, e))
    IN  CASE status[e] = "COMPLETED" -> "COMPLETED"
          [] status[e] # "COMPLETED" /\ clock >= t.end /\ occupied = 0 -> "COMPLETED"
          [] OTHER ->
                IF status[e] = "IN_PROGRESS" \/ clock >= t.start THEN "IN_PROGRESS"
                ELSE IF occupied >= t.headcount THEN "FULLY_STAFFED"
                ELSE IF occupied > 0 THEN "PARTIALLY_STAFFED" ELSE "OPEN"

Set(f, e, u, value) == [f EXCEPT ![e][u] = value]

-----------------------------------------------------------------------------
(* The usher.                                                              *)

\* A second application changes neither the shortlist nor the acceptance.
applyToEvent(e, u) ==
    /\ assertStaffEligible(e, {u})
    /\ assertNoLiveBooking(e, u)
    /\ ~Closed(e, u)
    /\ application' = IF application[e][u] \in {"APPLIED", "SHORTLISTED", "ACCEPTED"} THEN application
                      ELSE Set(application, e, u, "APPLIED")
    /\ word' = Set(word, e, u, "yes")
    /\ UNCHANGED <<terms, status, invitation, booking, unavailable, pool, barred, clock>>

\* Neither retracts a rejection nor revives an application the client rejected since.
acceptAgain(e, u) ==
    /\ u \notin barred
    /\ invitation[e][u] = "ACCEPTED"
    /\ word' = Set(word, e, u, "yes")
    /\ UNCHANGED <<terms, status, rows, unavailable, pool, barred, clock>>

acceptInvitation(e, u) ==
    /\ invitation[e][u] = "SENT"
    /\ assertNoLiveBooking(e, u)
    /\ assertStaffEligible(e, {u})
    /\ application' = Set(application, e, u, "ACCEPTED")
    /\ invitation' = Set(invitation, e, u, "ACCEPTED")
    /\ word' = Set(word, e, u, "yes")
    /\ UNCHANGED <<terms, status, booking, unavailable, pool, barred, clock>>

\* Mutant: a decline leaves the accepted application as it is.
declineInvitationOnly(e, u) ==
    /\ u \notin barred
    /\ invitation[e][u] # "NONE"
    /\ assertNoLiveBooking(e, u)
    /\ invitation' = Set(invitation, e, u, "DECLINED")
    /\ word' = Set(word, e, u, "no")
    /\ UNCHANGED <<terms, status, application, booking, unavailable, pool, barred, clock>>

\* Also after recruitment has closed, and again.
declineInvitation(e, u) ==
    /\ u \notin barred
    /\ invitation[e][u] # "NONE"
    /\ assertNoLiveBooking(e, u)
    /\ application' = IF application[e][u] = "NONE" THEN application
                      ELSE Set(application, e, u, "WITHDRAWN")
    /\ invitation' = Set(invitation, e, u, "DECLINED")
    /\ word' = Set(word, e, u, "no")
    /\ UNCHANGED <<terms, status, booking, unavailable, pool, barred, clock>>

\* An accepted invitation ends with the application.
withdrawApplication(e, u) ==
    /\ application[e][u] \notin {"NONE", "REJECTED"}
    /\ assertNoLiveBooking(e, u)
    /\ application' = Set(application, e, u, "WITHDRAWN")
    /\ invitation' = IF application[e][u] # "WITHDRAWN" /\ invitation[e][u] = "ACCEPTED"
                     THEN Set(invitation, e, u, "DECLINED") ELSE invitation
    /\ word' = Set(word, e, u, "no")
    /\ UNCHANGED <<terms, status, booking, unavailable, pool, barred, clock>>

setAvailability(u, date) ==
    /\ \/ /\ date \notin unavailable[u]
          /\ \A e \in Published : terms[e].date = date => booking[e][u] # "LIVE"
          /\ unavailable' = [unavailable EXCEPT ![u] = @ \cup {date}]
       \/ unavailable' = [unavailable EXCEPT ![u] = @ \ {date}]
    /\ UNCHANGED <<terms, status, rows, pool, barred, clock, word>>

-----------------------------------------------------------------------------
(* The client.                                                             *)

\* What the client may choose, also from an outdated list.
Selectable(e, u, choice) ==
    choice # "REJECTED" =>
        /\ assertStaffEligible(e, {u})
        /\ ~Closed(e, u)
        /\ application[e][u] # "WITHDRAWN"

selectApplication(e, u, choice) ==
    /\ application[e][u] # "NONE"
    /\ assertRecruiting(e)
    /\ assertNoLiveBooking(e, u)
    /\ Selectable(e, u, choice)
    /\ application' = Set(application, e, u, choice)
    /\ UNCHANGED <<terms, status, invitation, booking, unavailable, pool, barred, clock, word>>

\* All of S or none: who has answered already refuses the whole request.
inviteManyToEvent(e, S) ==
    /\ assertStaffEligible(e, S)
    /\ \A u \in S : assertNoLiveBooking(e, u) /\ invitation[e][u] \in {"NONE", "SENT"}
    /\ invitation' = [invitation EXCEPT ![e] =
                        [u \in Ushers |-> IF u \in S THEN "SENT" ELSE @[u]]]
    /\ UNCHANGED <<terms, status, application, booking, unavailable, pool, barred, clock, word>>

inviteToEvent(e, u) == inviteManyToEvent(e, {u})

\* Mutant: an event with places left may still be moved.
editEventStaffed(e) ==
    /\ status[e] \in Recruiting
    /\ \E t \in Terms : terms' = [terms EXCEPT ![e] = t]
    /\ UNCHANGED <<status, rows, unavailable, pool, barred, clock, word>>

\* Only before the first booking, whatever became of it.
editEvent(e) ==
    /\ status[e] \in Recruiting
    /\ \A u \in Ushers : booking[e][u] = "NONE"
    /\ \E t \in Terms : terms' = [terms EXCEPT ![e] = t]
    /\ UNCHANGED <<status, rows, unavailable, pool, barred, clock, word>>

\* Mutant: room for one of the selection is taken for room for all of it.
confirmBatchCrowded(e, S) ==
    /\ \A u \in S : application[e][u] = "ACCEPTED" /\ ~Closed(e, u) /\ assertNoLiveBooking(e, u)
    /\ assertStaffEligible(e, S)
    /\ Cardinality(Live(booking, e)) < terms[e].headcount
    /\ booking' = [booking EXCEPT ![e] = [u \in Ushers |-> IF u \in S THEN "LIVE" ELSE @[u]]]
    /\ status' = [status EXCEPT ![e] = staffingStatus(e, booking')]
    /\ UNCHANGED <<terms, application, invitation, unavailable, pool, barred, clock, word>>

confirmBatch(e, S) ==
    /\ \A u \in S : application[e][u] = "ACCEPTED" /\ ~Closed(e, u) /\ assertNoLiveBooking(e, u)
    /\ assertStaffEligible(e, S)
    /\ Cardinality(Live(booking, e)) + Cardinality(S) <= terms[e].headcount
    /\ booking' = [booking EXCEPT ![e] = [u \in Ushers |-> IF u \in S THEN "LIVE" ELSE @[u]]]
    /\ status' = [status EXCEPT ![e] = staffingStatus(e, booking')]
    /\ UNCHANGED <<terms, application, invitation, unavailable, pool, barred, clock, word>>

-----------------------------------------------------------------------------
(* The rest of the system.                                                 *)

\* A cancellation, an expired reservation, a refund or a no-show.
Vacate(e, u) ==
    /\ booking[e][u] = "LIVE"
    /\ booking' = Set(booking, e, u, "VACATED")
    /\ status' = [status EXCEPT ![e] = staffingStatus(e, booking')]
    /\ UNCHANGED <<terms, application, invitation, unavailable, pool, barred, clock, word>>

\* Suspension or a lost verification, and their end.
Bar(u) ==
    /\ u \in Barrable
    /\ barred' = IF u \in barred THEN barred \ {u} ELSE barred \cup {u}
    /\ UNCHANGED <<terms, status, rows, unavailable, pool, clock, word>>

Tick ==
    /\ clock < Hours /\ clock' = clock + 1
    /\ UNCHANGED <<terms, status, rows, unavailable, pool, barred, word>>

Next ==
    \/ \E e \in Published : \E u \in pool[e] :
        \/ applyToEvent(e, u)
        \/ acceptAgain(e, u) \/ acceptInvitation(e, u) \/ declineInvitation(e, u)
        \/ withdrawApplication(e, u)
        \/ \E choice \in {"SHORTLISTED", "ACCEPTED", "REJECTED"} : selectApplication(e, u, choice)
        \/ inviteToEvent(e, u)
        \/ Vacate(e, u)
    \/ \E e \in Published : \E S \in SUBSET pool[e] \ {{}} : inviteManyToEvent(e, S) \/ confirmBatch(e, S)
    \/ \E e \in Published : editEvent(e)
    \/ \E e \in Published : \E u \in pool[e] : Bar(u) \/ \E date \in Dates : setAvailability(u, date)
    \/ Tick

Spec == Init /\ [][Next]_vars

-----------------------------------------------------------------------------
(* Properties.                                                             *)

Applications == {"NONE", "APPLIED", "SHORTLISTED", "ACCEPTED", "REJECTED", "WITHDRAWN"}
Invitations == {"NONE", "SENT", "ACCEPTED", "DECLINED"}
Statuses == Recruiting \cup {"FULLY_STAFFED", "IN_PROGRESS", "COMPLETED"}

\* Shape of the state.
TypeOK ==
    /\ pool \in Pools /\ clock \in 0..Hours
    /\ terms \in [Published -> Terms] /\ status \in [Published -> Statuses]
    /\ barred \subseteq Ushers /\ unavailable \in [Ushers -> SUBSET Dates]
    /\ application \in [Published -> [Ushers -> Applications]]
    /\ invitation \in [Published -> [Ushers -> Invitations]]
    /\ booking \in [Published -> [Ushers -> {"NONE", "LIVE", "VACATED"}]]

\* recruitment.ts:30-233, service.ts:115-158.  What the two sides agreed on still stands
\* while the booking does: no reply, withdrawal, selection or new application slips
\* in under a live booking, whoever accepted an invitation has an application, and none
\* is accepted who declined.
Agreed ==
    /\ TypeOK
    /\ \A e \in Published, u \in Ushers :
        /\ booking[e][u] = "LIVE" => application[e][u] = "ACCEPTED"
        /\ application[e][u] = "ACCEPTED" => invitation[e][u] # "DECLINED"
        /\ invitation[e][u] = "ACCEPTED" => application[e][u] # "NONE"

NotDoubleBooked ==
    \A u \in Ushers : \A e, o \in Published :
        e # o /\ booking[e][u] = "LIVE" /\ booking[o][u] = "LIVE" => ~Overlaps(terms[e], terms[o])

KeptFree ==
    \A u \in Ushers, e \in Published : booking[e][u] = "LIVE" => terms[e].date \notin unavailable[u]

\* eligibility.ts:19-40, edit.ts:73, profile/routes.ts:531-568.  Nobody is booked for
\* two events at a time, nor on a day taken off, whichever of the calendar, the two
\* reservations and an edit that moved an event after the usher was accepted came first.
ScheduleKept == NotDoubleBooked /\ KeptFree

\* staffing.ts:16-51, edit.ts:73-88.  An event is never staffed beyond its places, and
\* says that it is full or not as it is, although an edit does not refresh the status.
Staffed ==
    \A e \in Published :
        LET occupied == Cardinality(Live(booking, e)) IN
        /\ occupied <= terms[e].headcount
        /\ status[e] \in Recruiting => occupied < terms[e].headcount
        /\ status[e] = "FULLY_STAFFED" => occupied = terms[e].headcount

\* reports/__tests__/marketplace.test.ts:598: "a withdrawn application cannot be
\* reserved".  It is if the client rejects it, which the withdrawal does not prevent,
\* and then accepts what is now a rejected application.
Consent ==
    \A e \in Published, u \in Ushers : booking[e][u] = "LIVE" => word[e][u] = "yes"
=============================================================================
