-------------------------- MODULE RecruitmentProofs -------------------------
(***************************************************************************)
(* Proofs about Recruitment, for any number of events, ushers and terms:   *)
(* what was agreed, the schedule and the staffing of an event are kept by  *)
(* every transaction.  Together with the shape of the state, each of the   *)
(* three is inductive.                                                     *)
(***************************************************************************)
EXTENDS Recruitment, FiniteSetTheorems, TLAPS

USE RecruitmentAssumption DEF rows

-----------------------------------------------------------------------------
(* Lemmas about the operators of the model.                                *)

\* A set of rows has one more value in it, and is otherwise as it was.
LEMMA SetRow ==
  ASSUME NEW D, NEW V, NEW f \in [D -> [Ushers -> V]], NEW e \in D, NEW u \in Ushers, NEW v \in V
  PROVE  /\ Set(f, e, u, v) \in [D -> [Ushers -> V]] /\ Set(f, e, u, v)[e][u] = v
         /\ \A o \in D, w \in Ushers : o # e \/ w # u => Set(f, e, u, v)[o][w] = f[o][w]
  BY DEF Set

\* To write what is there changes nothing.
LEMMA SetSame ==
  ASSUME NEW D, NEW V, NEW f \in [D -> [Ushers -> V]], NEW e \in D, NEW u \in Ushers
  PROVE  Set(f, e, u, f[e][u]) = f
  BY DEF Set

\* The ushers an event has to do with are ushers.
LEMMA PoolUshers ==
  ASSUME pool \in Pools, NEW e \in Published
  PROVE  pool[e] \subseteq Ushers
  BY DEF Published

\* The number of places taken.
LEMMA LiveFinite ==
  ASSUME NEW b, NEW e
  PROVE  /\ IsFiniteSet(Live(b, e)) /\ Cardinality(Live(b, e)) \in Nat
<1>1. Live(b, e) \subseteq Ushers
  BY DEF Live
<1> QED BY <1>1, FS_Subset, FS_CardinalityType

\* Whatever changes at an event, it says that it recruits only while there is room,
\* and that it is full only when there is none.
LEMMA StaffingHonest ==
  ASSUME TypeOK, NEW e \in Published, NEW b, Cardinality(Live(b, e)) <= terms[e].headcount
  PROVE  LET s == staffingStatus(e, b)
             occupied == Cardinality(Live(b, e))
         IN  /\ s \in Recruiting => occupied < terms[e].headcount
             /\ s = "FULLY_STAFFED" => occupied = terms[e].headcount
             /\ s \in Statuses
<1>1. terms[e] \in Terms /\ terms[e].headcount \in Nat /\ terms[e].start \in Nat /\ terms[e].end \in Nat
  BY DEF TypeOK
<1>2. Cardinality(Live(b, e)) \in Nat /\ clock \in Nat
  BY LiveFinite DEF TypeOK
<1>3. PICK t, n : t = terms[e] /\ n = Cardinality(Live(b, e))
  OBVIOUS
<1>4. n \in Nat /\ t.headcount \in Nat /\ n <= t.headcount
  BY <1>1, <1>2, <1>3
<1> QED BY <1>1, <1>2, <1>3, <1>4 DEF staffingStatus, Recruiting, Statuses

-----------------------------------------------------------------------------
(* The operations, sorted by the rows they write: the replies of an usher  *)
(* and the choices of a client, the bookings, the terms, the calendar.     *)

Replies ==
    \E e \in Published : \E u \in pool[e] :
        \/ applyToEvent(e, u) \/ acceptAgain(e, u) \/ acceptInvitation(e, u)
        \/ declineInvitation(e, u) \/ withdrawApplication(e, u)

Choices ==
    \E e \in Published :
        \/ \E u \in pool[e] :
            \E choice \in {"SHORTLISTED", "ACCEPTED", "REJECTED"} : selectApplication(e, u, choice)
        \/ \E S \in SUBSET Ushers : inviteManyToEvent(e, S)

Bookings ==
    \E e \in Published :
        \/ \E S \in SUBSET Ushers : confirmBatch(e, S)
        \/ \E u \in Ushers : Vacate(e, u)

Edits == \E e \in Published : editEvent(e)

Calendar ==
    \/ \E u \in Ushers : Bar(u) \/ \E date \in Dates : setAvailability(u, date)
    \/ Tick

\* There is no other operation.
LEMMA Operations ==
  ASSUME TypeOK, [Next]_vars
  PROVE  Replies \/ Choices \/ Bookings \/ Edits \/ Calendar \/ UNCHANGED vars
<1>1. \A e \in Published : pool[e] \subseteq Ushers
  BY PoolUshers DEF TypeOK
<1>2. CASE \E e \in Published : \E u \in pool[e] :
             \/ applyToEvent(e, u)
             \/ acceptAgain(e, u) \/ acceptInvitation(e, u) \/ declineInvitation(e, u)
             \/ withdrawApplication(e, u)
  BY <1>2 DEF Replies
<1>3. CASE \E e \in Published : \E u \in pool[e] :
             \E choice \in {"SHORTLISTED", "ACCEPTED", "REJECTED"} : selectApplication(e, u, choice)
  BY <1>3 DEF Choices
<1>4. CASE \E e \in Published : \E u \in pool[e] : inviteToEvent(e, u) \/ Vacate(e, u)
  BY <1>1, <1>4 DEF Choices, Bookings, inviteToEvent
<1>5. CASE \E e \in Published : \E S \in SUBSET pool[e] \ {{}} :
             inviteManyToEvent(e, S) \/ confirmBatch(e, S)
  BY <1>1, <1>5 DEF Choices, Bookings
<1>6. CASE \/ \E e \in Published : editEvent(e)
           \/ \E e \in Published : \E u \in pool[e] : Bar(u) \/ \E date \in Dates : setAvailability(u, date)
           \/ Tick
  BY <1>1, <1>6 DEF Edits, Calendar
<1> QED BY <1>2, <1>3, <1>4, <1>5, <1>6 DEF Next

\* Neither a reply nor a choice touches anything but the replies and the choices.
LEMMA RepliesFrame ==
  ASSUME Replies \/ Choices
  PROVE  UNCHANGED <<terms, status, booking, unavailable, pool, barred, clock>>
  BY DEF Replies, Choices, applyToEvent, acceptAgain, acceptInvitation, declineInvitation,
     withdrawApplication, selectApplication, inviteManyToEvent

\* Each reply and each selection writes one application and one invitation.  It changes
\* the application under no live booking, and what it writes fits together.
Writes(e, u, a, i) ==
    /\ application' = Set(application, e, u, a) /\ invitation' = Set(invitation, e, u, i)
    /\ a \in Applications /\ i \in Invitations
    /\ a # application[e][u] => booking[e][u] # "LIVE"
    /\ \/ a = application[e][u] /\ i = invitation[e][u]
       \/ ~(a = "ACCEPTED" /\ i = "DECLINED") /\ ~(i = "ACCEPTED" /\ a = "NONE")

LEMMA WritesReply ==
  ASSUME TypeOK, NEW e \in Published, NEW u \in Ushers,
         \/ applyToEvent(e, u) \/ acceptAgain(e, u) \/ acceptInvitation(e, u)
         \/ declineInvitation(e, u) \/ withdrawApplication(e, u)
         \/ \E choice \in {"SHORTLISTED", "ACCEPTED", "REJECTED"} : selectApplication(e, u, choice)
  PROVE  \E a, i : Writes(e, u, a, i)
<1>1. /\ application[e][u] \in Applications /\ invitation[e][u] \in Invitations
      /\ application = Set(application, e, u, application[e][u])
      /\ invitation = Set(invitation, e, u, invitation[e][u])
  <2>1. /\ application \in [Published -> [Ushers -> Applications]]
        /\ invitation \in [Published -> [Ushers -> Invitations]]
    BY DEF TypeOK
  <2>2. application = Set(application, e, u, application[e][u])
    BY ONLY <2>1, SetSame, e \in Published, u \in Ushers
  <2>3. invitation = Set(invitation, e, u, invitation[e][u])
    BY ONLY <2>1, SetSame, e \in Published, u \in Ushers
  <2> QED BY <2>1, <2>2, <2>3
<1> USE DEF Applications, Invitations
<1>2. CASE applyToEvent(e, u)
  <2>1. CASE application[e][u] \in {"APPLIED", "SHORTLISTED", "ACCEPTED"}
    <3>1. Writes(e, u, application[e][u], invitation[e][u])
      BY <1>1, <1>2, <2>1 DEF Writes, applyToEvent
    <3> QED BY <3>1
  <2>2. CASE application[e][u] \notin {"APPLIED", "SHORTLISTED", "ACCEPTED"}
    <3>1. Writes(e, u, "APPLIED", invitation[e][u])
      BY <1>1, <1>2, <2>2 DEF Writes, applyToEvent, assertNoLiveBooking
    <3> QED BY <3>1
  <2> QED BY <2>1, <2>2
<1>3. CASE acceptAgain(e, u)
  <2>1. Writes(e, u, application[e][u], invitation[e][u])
    BY <1>1, <1>3 DEF Writes, acceptAgain
  <2> QED BY <2>1
<1>4. CASE acceptInvitation(e, u)
  <2>1. Writes(e, u, "ACCEPTED", "ACCEPTED")
    BY <1>4 DEF Writes, acceptInvitation, assertNoLiveBooking
  <2> QED BY <2>1
<1>5. CASE declineInvitation(e, u)
  <2>1. CASE application[e][u] = "NONE"
    <3>1. Writes(e, u, application[e][u], "DECLINED")
      BY <1>1, <1>5, <2>1 DEF Writes, declineInvitation
    <3> QED BY <3>1
  <2>2. CASE application[e][u] # "NONE"
    <3>1. Writes(e, u, "WITHDRAWN", "DECLINED")
      BY <1>1, <1>5, <2>2 DEF Writes, declineInvitation, assertNoLiveBooking
    <3> QED BY <3>1
  <2> QED BY <2>1, <2>2
<1>6. CASE withdrawApplication(e, u)
  <2>1. CASE application[e][u] # "WITHDRAWN" /\ invitation[e][u] = "ACCEPTED"
    <3>1. Writes(e, u, "WITHDRAWN", "DECLINED")
      BY <1>1, <1>6, <2>1 DEF Writes, withdrawApplication, assertNoLiveBooking
    <3> QED BY <3>1
  <2>2. CASE ~(application[e][u] # "WITHDRAWN" /\ invitation[e][u] = "ACCEPTED")
    <3>1. Writes(e, u, "WITHDRAWN", invitation[e][u])
      BY <1>1, <1>6, <2>2 DEF Writes, withdrawApplication, assertNoLiveBooking
    <3> QED BY <3>1
  <2> QED BY <2>1, <2>2
<1>7. ASSUME NEW choice \in {"SHORTLISTED", "ACCEPTED", "REJECTED"}, selectApplication(e, u, choice)
      PROVE  \E a, i : Writes(e, u, a, i)
  <2>1. Writes(e, u, choice, invitation[e][u])
    BY <1>1, <1>7 DEF Writes, selectApplication, Selectable, Closed, assertNoLiveBooking
  <2> QED BY <2>1
<1> QED BY <1>2, <1>3, <1>4, <1>5, <1>6, <1>7

LEMMA BookingsFrame ==
  ASSUME Bookings
  PROVE  UNCHANGED <<terms, application, invitation, unavailable, pool, barred, clock>>
  BY DEF Bookings, confirmBatch, Vacate

LEMMA CalendarFrame ==
  ASSUME Calendar \/ UNCHANGED vars
  PROVE  UNCHANGED <<terms, status, rows, pool>>
  BY DEF Calendar, Bar, setAvailability, Tick, vars

-----------------------------------------------------------------------------
(* The shape of the state.                                                 *)

LEMMA TypeNext == TypeOK /\ [Next]_vars => TypeOK'
<1> SUFFICES ASSUME TypeOK, [Next]_vars PROVE TypeOK'
  OBVIOUS
<1>1. /\ application \in [Published -> [Ushers -> Applications]]
      /\ invitation \in [Published -> [Ushers -> Invitations]]
      /\ booking \in [Published -> [Ushers -> {"NONE", "LIVE", "VACATED"}]]
      /\ \A e \in Published : pool[e] \subseteq Ushers
  BY PoolUshers DEF TypeOK
<1>2. ASSUME Replies \/ Choices
      PROVE  /\ application' \in [Published -> [Ushers -> Applications]]
             /\ invitation' \in [Published -> [Ushers -> Invitations]]
  <2>1. ASSUME NEW e \in Published, NEW u \in Ushers, NEW a, NEW i, Writes(e, u, a, i)
        PROVE  /\ application' \in [Published -> [Ushers -> Applications]]
               /\ invitation' \in [Published -> [Ushers -> Invitations]]
    BY <1>1, <2>1, SetRow DEF Writes
  <2>2. ASSUME NEW e \in Published, NEW S \in SUBSET Ushers, inviteManyToEvent(e, S)
        PROVE  /\ application' \in [Published -> [Ushers -> Applications]]
               /\ invitation' \in [Published -> [Ushers -> Invitations]]
    BY <1>1, <2>2 DEF inviteManyToEvent, Invitations
  <2> QED BY <1>1, <1>2, <2>1, <2>2, WritesReply DEF Replies, Choices
<1>3. CASE Replies \/ Choices
  BY <1>2, <1>3, RepliesFrame DEF TypeOK, Published
<1>4. ASSUME Bookings
      PROVE  /\ booking' \in [Published -> [Ushers -> {"NONE", "LIVE", "VACATED"}]]
             /\ status' \in [Published -> Statuses]
  <2>1. status \in [Published -> Statuses]
    BY DEF TypeOK
  <2>2. ASSUME NEW e \in Published, NEW b PROVE staffingStatus(e, b) \in Statuses
    BY <2>1 DEF staffingStatus, Statuses, Recruiting
  <2>3. CASE \E e \in Published, S \in SUBSET Ushers : confirmBatch(e, S)
    BY <1>1, <2>1, <2>2, <2>3 DEF confirmBatch
  <2>4. CASE \E e \in Published, u \in Ushers : Vacate(e, u)
    BY <1>1, <2>1, <2>2, <2>4 DEF Vacate, Set
  <2> QED BY <1>4, <2>3, <2>4 DEF Bookings
<1>5. CASE Bookings
  BY <1>4, <1>5, BookingsFrame DEF TypeOK, Published
<1>6. CASE Edits
  BY <1>6 DEF TypeOK, Edits, editEvent, Published
<1>7. CASE Calendar \/ UNCHANGED vars
  <2>1. /\ unavailable' \in [Ushers -> SUBSET Dates] /\ barred' \subseteq Ushers
        /\ clock' \in 0..Hours
    BY <1>7 DEF TypeOK, Calendar, Bar, setAvailability, Tick, vars
  <2> QED BY <1>7, <2>1, CalendarFrame DEF TypeOK, Published
<1> QED BY <1>3, <1>5, <1>6, <1>7, Operations

-----------------------------------------------------------------------------
(* What was agreed.                                                        *)

LEMMA AgreedNext == Agreed /\ [Next]_vars => Agreed'
<1> SUFFICES ASSUME Agreed, [Next]_vars PROVE Agreed'
  OBVIOUS
<1>1. TypeOK /\ TypeOK'
  BY TypeNext DEF Agreed
<1>2. /\ application \in [Published -> [Ushers -> Applications]]
      /\ invitation \in [Published -> [Ushers -> Invitations]]
      /\ booking \in [Published -> [Ushers -> {"NONE", "LIVE", "VACATED"}]]
      /\ \A e \in Published : pool[e] \subseteq Ushers
  BY <1>1, PoolUshers DEF TypeOK
<1> DEFINE Pair(e, u) ==
             /\ booking[e][u] = "LIVE" => application[e][u] = "ACCEPTED"
             /\ application[e][u] = "ACCEPTED" => invitation[e][u] # "DECLINED"
             /\ invitation[e][u] = "ACCEPTED" => application[e][u] # "NONE"
<1>3. \A e \in Published, u \in Ushers : Pair(e, u)
  BY DEF Agreed
<1>4. Published' = Published
  <2>1. UNCHANGED pool
    BY <1>1, Operations, RepliesFrame, BookingsFrame, CalendarFrame DEF Edits, editEvent
  <2> QED BY <2>1 DEF Published
<1>5. SUFFICES \A e \in Published, u \in Ushers : Pair(e, u)'
  BY <1>1, <1>4 DEF Agreed
<1>6. ASSUME NEW e \in Published, NEW u \in Ushers, NEW a, NEW i, Writes(e, u, a, i),
             UNCHANGED booking
      PROVE  \A o \in Published, w \in Ushers : Pair(o, w)'
  <2>1. /\ application'[e][u] = a /\ invitation'[e][u] = i
        /\ \A o \in Published, w \in Ushers : o # e \/ w # u =>
             application'[o][w] = application[o][w] /\ invitation'[o][w] = invitation[o][w]
    <3>1. /\ application' = Set(application, e, u, a) /\ invitation' = Set(invitation, e, u, i)
          /\ a \in Applications /\ i \in Invitations
      BY <1>6 DEF Writes
    <3>2. /\ application'[e][u] = a
          /\ \A o \in Published, w \in Ushers : o # e \/ w # u => application'[o][w] = application[o][w]
      BY ONLY <1>2, <3>1, e \in Published, u \in Ushers DEF Set
    <3>3. /\ invitation'[e][u] = i
          /\ \A o \in Published, w \in Ushers : o # e \/ w # u => invitation'[o][w] = invitation[o][w]
      BY ONLY <1>2, <3>1, e \in Published, u \in Ushers DEF Set
    <3> QED BY <3>2, <3>3
  <2>2. Pair(e, u)'
    BY <1>3, <1>6, <2>1 DEF Writes
  <2>3. \A o \in Published, w \in Ushers : o # e \/ w # u => Pair(o, w)'
    BY <1>3, <1>6, <2>1
  <2> QED BY <2>2, <2>3
<1>7. ASSUME NEW e \in Published, NEW S \in SUBSET Ushers, inviteManyToEvent(e, S)
      PROVE  \A o \in Published, w \in Ushers : Pair(o, w)'
  <2>1. \A o \in Published, w \in Ushers : invitation'[o][w] \in {invitation[o][w], "SENT"}
    BY <1>2, <1>7 DEF inviteManyToEvent
  <2>2. UNCHANGED <<application, booking>>
    BY <1>7 DEF inviteManyToEvent
  <2> QED BY <1>3, <2>1, <2>2
<1>8. CASE Bookings
  <2>1. UNCHANGED <<application, invitation>>
    BY <1>8, BookingsFrame
  <2> QED BY <1>2, <1>3, <1>8, <2>1 DEF Bookings, confirmBatch, Vacate, Set
<1>9. CASE Edits
  BY <1>3, <1>9 DEF Edits, editEvent
<1>10. CASE Calendar \/ UNCHANGED vars
  BY <1>3, <1>10, CalendarFrame
<1>11. CASE Replies \/ Choices
  BY <1>1, <1>2, <1>6, <1>7, <1>11, WritesReply, RepliesFrame DEF Replies, Choices
<1> QED BY <1>1, <1>8, <1>9, <1>10, <1>11, Operations

-----------------------------------------------------------------------------
(* The schedule of an usher.                                               *)

LEMMA ScheduleNext == TypeOK /\ ScheduleKept /\ [Next]_vars => ScheduleKept'
<1> SUFFICES ASSUME TypeOK, ScheduleKept, [Next]_vars PROVE ScheduleKept'
  OBVIOUS
<1>1. /\ booking \in [Published -> [Ushers -> {"NONE", "LIVE", "VACATED"}]]
      /\ terms \in [Published -> Terms] /\ unavailable \in [Ushers -> SUBSET Dates]
  BY DEF TypeOK
<1>2. CASE Replies \/ Choices
  BY <1>2, RepliesFrame DEF ScheduleKept, NotDoubleBooked, KeptFree, Published
<1>3. CASE Bookings
  <2>1. UNCHANGED <<terms, unavailable>> /\ Published' = Published
    BY <1>3, BookingsFrame DEF Published
  <2>2. ASSUME NEW e \in Published, NEW S \in SUBSET Ushers, confirmBatch(e, S)
        PROVE  ScheduleKept'
    <3>1. /\ \A u \in S : terms[e].date \notin unavailable[u]
          /\ \A u \in S, o \in Published \ {e} :
               booking[o][u] = "LIVE" => ~Overlaps(terms[o], terms[e])
      BY <2>2 DEF confirmBatch, assertStaffEligible
    <3>2. \A o \in Published, u \in Ushers :
            booking'[o][u] = "LIVE" => booking[o][u] = "LIVE" \/ (o = e /\ u \in S)
      BY <1>1, <2>2 DEF confirmBatch
    <3>3. \A s, t : Overlaps(s, t) <=> Overlaps(t, s)
      BY DEF Overlaps
    <3>4. NotDoubleBooked'
      BY <2>1, <3>1, <3>2, <3>3 DEF NotDoubleBooked, ScheduleKept
    <3>5. KeptFree'
      BY <2>1, <3>1, <3>2 DEF KeptFree, ScheduleKept
    <3> QED BY <3>4, <3>5 DEF ScheduleKept
  <2>3. ASSUME NEW e \in Published, NEW u \in Ushers, Vacate(e, u)
        PROVE  ScheduleKept'
    <3>1. \A o \in Published, w \in Ushers : booking'[o][w] = "LIVE" => booking[o][w] = "LIVE"
      BY <1>1, <2>3 DEF Vacate, Set
    <3> QED BY <2>1, <3>1 DEF ScheduleKept, NotDoubleBooked, KeptFree
  <2> QED BY <1>3, <2>2, <2>3 DEF Bookings
<1>4. ASSUME NEW e \in Published, editEvent(e) PROVE ScheduleKept'
  <2>1. /\ \A u \in Ushers : booking[e][u] # "LIVE"
        /\ \A o \in Published \ {e} : terms'[o] = terms[o]
        /\ UNCHANGED <<booking, unavailable>> /\ Published' = Published
    BY <1>1, <1>4 DEF editEvent, Published
  <2> QED BY <2>1 DEF ScheduleKept, NotDoubleBooked, KeptFree
<1>5. CASE Calendar \/ UNCHANGED vars
  <2>1. UNCHANGED <<terms, booking>> /\ Published' = Published
    BY <1>5, CalendarFrame DEF Published
  <2>2. \A u \in Ushers, date \in Dates :
          date \in unavailable'[u] /\ date \notin unavailable[u]
            => \A e \in Published : terms[e].date = date => booking[e][u] # "LIVE"
    BY <1>1, <1>5 DEF Calendar, Bar, setAvailability, Tick, vars
  <2>3. \A e \in Published : terms[e].date \in Dates
    BY <1>1 DEF Dates
  <2> QED BY <2>1, <2>2, <2>3 DEF ScheduleKept, NotDoubleBooked, KeptFree
<1> QED BY <1>2, <1>3, <1>4, <1>5, Operations DEF Edits

-----------------------------------------------------------------------------
(* The staffing of an event.                                               *)

\* What leaves the status of every event and its bookings alone.
LEMMA StaffedFrame ==
  ASSUME Staffed, UNCHANGED <<terms, status, booking, pool>>
  PROVE  Staffed'
  BY DEF Staffed, Live, Published

\* A change of the bookings of an event that keeps to its places.
LEMMA StaffedRefreshed ==
  ASSUME TypeOK, Staffed, NEW e \in Published, NEW row \in [Ushers -> {"NONE", "LIVE", "VACATED"}],
         booking' = [booking EXCEPT ![e] = row], UNCHANGED <<terms, pool>>,
         status' = [status EXCEPT ![e] = staffingStatus(e, booking')],
         Cardinality({u \in Ushers : row[u] = "LIVE"}) <= terms[e].headcount
  PROVE  Staffed'
<1>1. /\ booking'[e] = row /\ status'[e] = staffingStatus(e, booking')
      /\ \A o \in Published \ {e} : booking'[o] = booking[o] /\ status'[o] = status[o]
      /\ Published' = Published
  BY DEF TypeOK, Published
<1>2. Live(booking', e) = {u \in Ushers : row[u] = "LIVE"}
  BY <1>1 DEF Live
<1>3. \A o \in Published \ {e} : Live(booking', o) = Live(booking, o)
  BY <1>1 DEF Live
<1>4. PICK s, n : s = staffingStatus(e, booking') /\ n = Cardinality(Live(booking', e))
  OBVIOUS
<1>5. /\ n <= terms[e].headcount
      /\ s = "FULLY_STAFFED" => n = terms[e].headcount
      /\ s \in Recruiting => n < terms[e].headcount
  BY <1>2, <1>4, StaffingHonest
<1>6. SUFFICES ASSUME NEW o \in Published
               PROVE  /\ Cardinality(Live(booking', o)) <= terms[o].headcount
                      /\ status'[o] \in Recruiting => Cardinality(Live(booking', o)) < terms[o].headcount
                      /\ status'[o] = "FULLY_STAFFED"
                           => Cardinality(Live(booking', o)) = terms[o].headcount
  BY <1>1 DEF Staffed, Live
<1>7. CASE o = e
  <2>1. status'[o] = s /\ Cardinality(Live(booking', o)) = n
    BY <1>1, <1>4, <1>7
  <2> HIDE DEF Live
  <2> QED BY <1>5, <1>7, <2>1
<1>8. CASE o # e
  <2>1. status'[o] = status[o] /\ Live(booking', o) = Live(booking, o)
    BY <1>1, <1>3, <1>8
  <2> QED BY <2>1 DEF Staffed
<1> QED BY <1>7, <1>8

LEMMA StaffedNext == TypeOK /\ Staffed /\ [Next]_vars => Staffed'
<1> SUFFICES ASSUME TypeOK, Staffed, [Next]_vars PROVE Staffed'
  OBVIOUS
<1>1. /\ booking \in [Published -> [Ushers -> {"NONE", "LIVE", "VACATED"}]]
      /\ terms \in [Published -> Terms]
  BY DEF TypeOK
<1>2. CASE Replies \/ Choices
  BY <1>2, RepliesFrame, StaffedFrame
<1>3. ASSUME NEW e \in Published, NEW S \in SUBSET Ushers, confirmBatch(e, S)
      PROVE  Staffed'
  <2> DEFINE row == [u \in Ushers |-> IF u \in S THEN "LIVE" ELSE booking[e][u]]
  <2>1. /\ booking' = [booking EXCEPT ![e] = row] /\ UNCHANGED <<terms, pool>>
        /\ status' = [status EXCEPT ![e] = staffingStatus(e, booking')]
    BY <1>3 DEF confirmBatch
  <2>2. {u \in Ushers : row[u] = "LIVE"} = Live(booking, e) \cup S
    BY DEF Live
  <2>3. Cardinality(Live(booking, e) \cup S) <= Cardinality(Live(booking, e)) + Cardinality(S)
    <3>1. IsFiniteSet(Live(booking, e)) /\ IsFiniteSet(S)
      BY LiveFinite, FS_Subset
    <3>2. Cardinality(Live(booking, e) \cap S) \in Nat
      BY <3>1, FS_Intersection, FS_CardinalityType
    <3>3. Cardinality(Live(booking, e)) \in Nat /\ Cardinality(S) \in Nat
      BY <3>1, FS_CardinalityType
    <3>4. Cardinality(Live(booking, e) \cup S)
            = Cardinality(Live(booking, e)) + Cardinality(S) - Cardinality(Live(booking, e) \cap S)
      BY <3>1, FS_Union
    <3>5. PICK m, n, k : m = Cardinality(Live(booking, e)) /\ n = Cardinality(S)
                         /\ k = Cardinality(Live(booking, e) \cap S)
      OBVIOUS
    <3> QED BY <3>2, <3>3, <3>4, <3>5
  <2>4. Cardinality(Live(booking, e) \cup S) <= terms[e].headcount
    <3>1. /\ Cardinality(Live(booking, e)) \in Nat /\ Cardinality(S) \in Nat
          /\ Cardinality(Live(booking, e) \cup S) \in Nat
      BY LiveFinite, FS_Subset, FS_CardinalityType, FS_Union
    <3>2. terms[e].headcount \in Nat
      BY <1>1
    <3>3. Cardinality(Live(booking, e)) + Cardinality(S) <= terms[e].headcount
      BY <1>3 DEF confirmBatch
    <3> QED BY <2>3, <3>1, <3>2, <3>3
  <2>5. row \in [Ushers -> {"NONE", "LIVE", "VACATED"}]
    BY <1>1
  <2> QED BY <2>1, <2>2, <2>4, <2>5, StaffedRefreshed
<1>4. ASSUME NEW e \in Published, NEW u \in Ushers, Vacate(e, u)
      PROVE  Staffed'
  <2> DEFINE row == [booking[e] EXCEPT ![u] = "VACATED"]
  <2>1. /\ booking' = [booking EXCEPT ![e] = row] /\ UNCHANGED <<terms, pool>>
        /\ status' = [status EXCEPT ![e] = staffingStatus(e, booking')]
    BY <1>1, <1>4 DEF Vacate, Set
  <2>2. row \in [Ushers -> {"NONE", "LIVE", "VACATED"}]
    BY <1>1
  <2>3. {w \in Ushers : row[w] = "LIVE"} \subseteq Live(booking, e)
    BY <1>1 DEF Live
  <2>4. Cardinality({w \in Ushers : row[w] = "LIVE"}) <= terms[e].headcount
    <3>1. Cardinality({w \in Ushers : row[w] = "LIVE"}) <= Cardinality(Live(booking, e))
      BY <2>3, LiveFinite, FS_Subset
    <3>2. /\ Cardinality(Live(booking, e)) \in Nat
          /\ Cardinality({w \in Ushers : row[w] = "LIVE"}) \in Nat
      BY <2>3, LiveFinite, FS_Subset, FS_CardinalityType
    <3>3. terms[e].headcount \in Nat /\ Cardinality(Live(booking, e)) <= terms[e].headcount
      BY <1>1 DEF Staffed
    <3> QED BY <3>1, <3>2, <3>3
  <2> QED BY <2>1, <2>2, <2>4, StaffedRefreshed
<1>5. ASSUME NEW e \in Published, editEvent(e) PROVE Staffed'
  <2>1. /\ \A o \in Published \ {e} : terms'[o] = terms[o]
        /\ terms'[e] \in Terms /\ UNCHANGED <<status, booking, pool>> /\ status[e] \in Recruiting
        /\ \A u \in Ushers : booking[e][u] = "NONE"
    BY <1>1, <1>5 DEF editEvent
  <2>2. Live(booking, e) = {}
    BY <2>1 DEF Live
  <2>3. Cardinality(Live(booking, e)) = 0 /\ terms'[e].headcount \in Nat \ {0}
    BY <2>1, <2>2, FS_EmptySet
  <2>4. \A o \in Published : Live(booking', o) = Live(booking, o)
    BY <2>1 DEF Live
  <2>5. Published' = Published
    BY <2>1 DEF Published
  <2>6. SUFFICES ASSUME NEW o \in Published
                 PROVE  /\ Cardinality(Live(booking, o)) <= terms'[o].headcount
                        /\ status[o] \in Recruiting => Cardinality(Live(booking, o)) < terms'[o].headcount
                        /\ status[o] = "FULLY_STAFFED"
                             => Cardinality(Live(booking, o)) = terms'[o].headcount
    BY <2>1, <2>5 DEF Staffed, Live
  <2>7. CASE o = e
    <3>1. status[o] # "FULLY_STAFFED"
      BY <2>1, <2>7 DEF Recruiting
    <3> QED BY <2>3, <2>7, <3>1
  <2>8. CASE o # e
    BY <2>1, <2>8 DEF Staffed
  <2> QED BY <2>7, <2>8
<1>6. CASE Calendar \/ UNCHANGED vars
  BY <1>6, CalendarFrame, StaffedFrame
<1> QED BY <1>2, <1>3, <1>4, <1>5, <1>6, Operations DEF Bookings, Edits

-----------------------------------------------------------------------------
(* The theorems.                                                           *)

\* A published event is open, nobody has replied, and nobody is booked.
LEMMA InitAll == Init => Agreed /\ ScheduleKept /\ Staffed
<1> SUFFICES ASSUME Init PROVE Agreed /\ ScheduleKept /\ Staffed
  OBVIOUS
<1>1. Agreed
  BY DEF Init, Agreed, TypeOK, Applications, Invitations, Statuses, Recruiting, Published
<1>2. ScheduleKept
  BY DEF Init, ScheduleKept, NotDoubleBooked, KeptFree
<1>3. ASSUME NEW e \in Published
      PROVE  Cardinality(Live(booking, e)) = 0 /\ terms[e].headcount \in Nat \ {0} /\ status[e] = "OPEN"
  <2>1. Live(booking, e) = {}
    BY DEF Init, Live
  <2> QED BY <2>1, FS_EmptySet DEF Init
<1>4. Staffed
  BY <1>3 DEF Staffed
<1> QED BY <1>1, <1>2, <1>4

\* recruitment.ts:30-233, service.ts:115-158.  Whatever the two sides do, a booking
\* stands on an accepted application, and no application is accepted against a decline.
THEOREM AgreementStands == Spec => []Agreed
  BY InitAll, AgreedNext, PTL DEF Spec

\* eligibility.ts:19-40, edit.ts:73.  Nobody is booked twice at a time, nor on a day off.
THEOREM NoDoubleBooking == Spec => []ScheduleKept
<1>1. Agreed => TypeOK
  BY DEF Agreed
<1> QED BY <1>1, InitAll, ScheduleNext, AgreementStands, PTL DEF Spec

\* staffing.ts:16-51.  No event is staffed beyond its places, nor says it is full or not
\* when it is not.
THEOREM NeverOverstaffed == Spec => []Staffed
<1>1. Agreed => TypeOK
  BY DEF Agreed
<1> QED BY <1>1, InitAll, StaffedNext, AgreementStands, PTL DEF Spec
=============================================================================
