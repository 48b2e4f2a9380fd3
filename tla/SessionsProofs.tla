--------------------------- MODULE SessionsProofs ---------------------------
(***************************************************************************)
(* Proofs about Sessions, for any number of users, calls, pairs of tokens, *)
(* sessions and faults.                                                    *)
(*                                                                         *)
(* Most steps leave the session, the pair in memory and the server alone:  *)
(* work of the queue ends, a call is answered or given up, a refresh is    *)
(* lost.  The first part says what they have in common and that it keeps   *)
(* the invariant.  The second is about the steps that begin or end a       *)
(* session, the third about a refresh, the last about writes and restarts. *)
(***************************************************************************)
EXTENDS Sessions, TLAPS

USE SessionsAssumption DEF Gens, Tokens, Calls, Next1

-----------------------------------------------------------------------------
(* The parts of the invariant, and sequences.                              *)

Jobs == \A i \in DOMAIN queue : JobOK(queue[i])
Flights == \A g \in Gens : FlightOK(g)

\* Work is taken from the head of the queue, and added behind it.
LEMMA Behead ==
  ASSUME NEW T, NEW q \in Seq(T), q # <<>>
  PROVE  /\ Head(q) = q[1] /\ q[1] \in T /\ 1 \in DOMAIN q /\ Len(q) \in Nat \ {0}
         /\ Tail(q) \in Seq(T) /\ Len(Tail(q)) = Len(q) - 1
         /\ \A i \in 1..(Len(q) - 1) : Tail(q)[i] = q[i + 1]
  OBVIOUS

LEMMA Behind ==
  ASSUME NEW T, NEW q \in Seq(T), NEW x \in T
  PROVE  /\ Append(q, x) \in Seq(T) /\ Len(Append(q, x)) = Len(q) + 1 /\ Len(q) \in Nat
         /\ DOMAIN Append(q, x) = 1..(Len(q) + 1)
         /\ Append(q, x)[Len(q) + 1] = x
         /\ \A i \in 1..Len(q) : Append(q, x)[i] = q[i]
  OBVIOUS

LEMMA IssuedPairs ==
  ASSUME TypeOK
  PROVE  /\ Len(tok) \in 0..MaxTokens /\ Issued = 1..Len(tok) /\ Issued \subseteq Tokens
         /\ None \notin Issued /\ None \notin superseded
         /\ \A t \in Issued : tok[t].user \in Users /\ tok[t].login \in Tokens
<1>1. tok \in Seq([user : Users, login : Tokens]) /\ Len(tok) <= MaxTokens /\ superseded \subseteq Issued
  BY DEF TypeOK
<1>2. Len(tok) \in Nat /\ DOMAIN tok = 1..Len(tok)
  BY ONLY <1>1
<1>3. \A t \in 1..Len(tok) : tok[t] \in [user : Users, login : Tokens]
  <2>1. PICK T : T = [user : Users, login : Tokens]
    OBVIOUS
  <2>2. tok \in Seq(T)
    BY <1>1, <2>1
  <2>3. \A t \in 1..Len(tok) : tok[t] \in T
    BY ONLY <2>2
  <2> QED BY <2>1, <2>3
<1>4. \A t \in 1..Len(tok) : tok[t].user \in Users /\ tok[t].login \in Tokens
  BY ONLY <1>3
<1> QED BY <1>1, <1>2, <1>4 DEF Issued

-----------------------------------------------------------------------------
(* Steps within a session.                                                 *)

\* A job is as it was, or nobody waits for it any more.
SameJob(j, k) ==
  /\ j.kind = k.kind /\ j.gen = k.gen
  /\ j.who = k.who \/ (j.who = None /\ k.who \notin Gens)

\* The first h jobs are done, and a call may have queued one.
QueueKept(h) ==
  /\ queue' \in Seq(JobType) /\ h \in 0..1 /\ h <= Len(queue)
  /\ Len(queue') \in {Len(queue) - h, Len(queue) - h + 1}
  /\ \A i \in 1..(Len(queue) - h) : SameJob(queue'[i], queue[i + h])
  /\ \A i \in DOMAIN queue' : i > Len(queue) - h =>
       queue'[i].kind = "snapshot" /\ queue'[i].gen = gen /\ queue'[i].who \in Calls
  /\ h = 0 /\ Len(queue') # Len(queue) => Drained

\* A job of this session was done, and the keychain holds what memory does.
Succeeded(h) == h = 1 /\ Next1.gen = gen /\ ~ dirty' /\ loaded /\ disk' = mem

StoreKept(h) ==
  /\ UNCHANGED <<server, gen, mem, loaded, signedOut>>
  /\ disk' \in {disk} \cup writing /\ dirty' \in BOOLEAN /\ (dirty' => dirty)
  /\ dirty' \/ ~ loaded \/ disk' = mem
  /\ h = 0 => UNCHANGED <<writing, dirty, disk>>
  /\ h = 1 => writing' = {} /\ (Next1.kind = "update" => writing # {})

CallsKept(h) ==
  /\ call' \in [Calls -> CallType]
  /\ \A c \in Calls :
       \/ call'[c].token = None
       \/ call'[c].token = call[c].token /\ call'[c].gen = call[c].gen
       \/ Succeeded(h) /\ call'[c].token = mem /\ call'[c].gen = gen

SameFlight(e, f) ==
  e.pc = f.pc /\ e.token = f.token /\ e.pair = f.pair /\ (f.pc = "none" => e = f)
FlightsKept(h) ==
  /\ flight' \in [Gens -> FlightType]
  /\ h = 1 /\ Next1.kind = "update" => flight'[Next1.who] = NoFlight
  /\ \A g \in Gens :
       \/ /\ flight'[g] = NoFlight
          /\ flight[g].pc \in {"none", "sent", "answered"} \/ (h = 1 /\ g = Next1.who)
          /\ \/ flight[g].pair \in {None} \cup lost' \cup revs'
             \/ h = 1 /\ g = Next1.who /\ Next1.kind = "update"
       \/ SameFlight(flight'[g], flight[g])
       \/ /\ Succeeded(h) /\ Next1.kind = "snapshot" /\ g = Next1.who
          /\ flight'[g].pc = "sent" /\ flight'[g].token = mem /\ flight[g].token = mem
          /\ flight'[g].pair = None

\* Pairs of sessions that are over are superseded, others given up.
NetKept ==
  /\ lost \subseteq lost' /\ revs \subseteq revs'
  /\ lost' \subseteq Issued /\ revs' \subseteq Issued /\ stray' \subseteq Issued
  /\ superseded \subseteq superseded'
  /\ \A t \in superseded' \ superseded :
       \E g \in Gens : g # gen /\ flight[g].pc = "answered" /\ flight[g].token = t

ScreenKept(h) ==
  \/ screen' \in {screen, Unavailable, Loading}
  \/ screen' = Guest /\ mem = None /\ Succeeded(h)
  \/ mem # None /\ screen' = Authed(tok[mem].user)

Keeps(h) ==
  /\ QueueKept(h) /\ StoreKept(h) /\ CallsKept(h) /\ FlightsKept(h) /\ NetKept /\ ScreenKept(h)
  /\ faults' \in Nat

\* The positions of the queue, before and after.
LEMMA Positions ==
  ASSUME TypeOK, NEW h, QueueKept(h)
  PROVE  /\ Len(queue) \in Nat /\ DOMAIN queue = 1..Len(queue)
         /\ Len(queue') \in Nat /\ DOMAIN queue' = 1..Len(queue')
         /\ \A i \in DOMAIN queue : queue[i] \in JobType
         /\ \A i \in DOMAIN queue' : queue'[i] \in JobType
         /\ \A i \in DOMAIN queue' :
              \/ i + h \in DOMAIN queue /\ i <= Len(queue) - h /\ SameJob(queue'[i], queue[i + h])
              \/ /\ i = Len(queue) - h + 1 /\ queue'[i].kind = "snapshot" /\ queue'[i].gen = gen
                 /\ queue'[i].who \in Calls
<1>1. queue \in Seq(JobType) /\ queue' \in Seq(JobType)
  BY DEF TypeOK, QueueKept
<1>2. /\ Len(queue) \in Nat /\ DOMAIN queue = 1..Len(queue)
      /\ Len(queue') \in Nat /\ DOMAIN queue' = 1..Len(queue')
      /\ \A i \in DOMAIN queue : queue[i] \in JobType
      /\ \A i \in DOMAIN queue' : queue'[i] \in JobType
  BY ONLY <1>1
<1>3. ASSUME NEW i \in DOMAIN queue'
      PROVE  \/ i + h \in DOMAIN queue /\ i <= Len(queue) - h /\ SameJob(queue'[i], queue[i + h])
             \/ /\ i = Len(queue) - h + 1 /\ queue'[i].kind = "snapshot" /\ queue'[i].gen = gen
                /\ queue'[i].who \in Calls
  <2>1. /\ h \in 0..1 /\ h <= Len(queue) /\ Len(queue') \in {Len(queue) - h, Len(queue) - h + 1}
        /\ \A k \in 1..(Len(queue) - h) : SameJob(queue'[k], queue[k + h])
        /\ \A k \in DOMAIN queue' : k > Len(queue) - h =>
             queue'[k].kind = "snapshot" /\ queue'[k].gen = gen /\ queue'[k].who \in Calls
    BY DEF QueueKept
  <2>2. i \in 1..Len(queue') /\ Len(queue) \in Nat /\ Len(queue') \in Nat
    BY <1>2
  <2>3. CASE i <= Len(queue) - h
    <3>1. i \in 1..(Len(queue) - h) /\ i + h \in 1..Len(queue)
      BY ONLY <2>1, <2>2, <2>3
    <3> QED BY <1>2, <2>1, <2>3, <3>1
  <2>4. CASE i > Len(queue) - h
    <3>1. i = Len(queue) - h + 1
      BY ONLY <2>1, <2>2, <2>4
    <3> QED BY <2>1, <2>4, <3>1
  <2> QED BY <2>1, <2>2, <2>3, <2>4
<1> QED BY <1>2, <1>3

LEMMA QueueKeeps ==
  ASSUME TypeOK, QueueOK, gen' = gen, NEW h, QueueKept(h)
  PROVE  QueueOK'
<1>1. h \in 0..1 /\ gen \in Nat
  BY DEF QueueKept, TypeOK
<1>2. \A i \in DOMAIN queue : queue[i].gen \in Nat
  BY Positions DEF JobType
<1> SUFFICES ASSUME NEW i \in DOMAIN queue'
             PROVE  /\ queue'[i].gen <= gen
                    /\ queue'[i].kind = "persist" => \A k \in 1..(i - 1) : queue'[k].gen < queue'[i].gen
                    /\ \A k \in 1..i : queue'[k].gen <= queue'[i].gen
                    /\ \A k \in DOMAIN queue' :
                         queue'[i].who \in Gens /\ queue'[k].who = queue'[i].who => k = i
  BY DEF QueueOK
<1>3. CASE i + h \in DOMAIN queue /\ i <= Len(queue) - h /\ SameJob(queue'[i], queue[i + h])
  <2>1. \A k \in 1..i : k \in DOMAIN queue' /\ k + h \in 1..(i + h) /\ k + h \in DOMAIN queue
                        /\ SameJob(queue'[k], queue[k + h])
    BY <1>1, <1>3, Positions
  <2>2. queue'[i].gen <= gen /\ \A k \in 1..i : queue'[k].gen <= queue'[i].gen
    BY <1>3, <2>1 DEF QueueOK, SameJob
  <2>3. queue'[i].kind = "persist" => \A k \in 1..(i - 1) : queue'[k].gen < queue'[i].gen
    <3> SUFFICES ASSUME queue'[i].kind = "persist", NEW k \in 1..(i - 1)
                 PROVE  queue'[k].gen < queue'[i].gen
      OBVIOUS
    <3>1. k \in 1..i /\ k + h \in 1..((i + h) - 1)
      BY <1>1, <1>3, Positions
    <3> QED BY <1>3, <2>1, <3>1 DEF QueueOK, SameJob
  <2>4. ASSUME NEW k \in DOMAIN queue', queue'[i].who \in Gens, queue'[k].who = queue'[i].who
        PROVE  k = i
    <3>1. queue[i + h].who = queue'[i].who
      BY <1>3, <2>4 DEF SameJob
    <3>2. k + h \in DOMAIN queue /\ SameJob(queue'[k], queue[k + h])
      BY <2>4, Positions
    <3>3. queue[k + h].who = queue'[k].who
      BY <2>4, <3>2 DEF SameJob
    <3>4. k + h = i + h
      BY <1>3, <2>4, <3>1, <3>2, <3>3 DEF QueueOK
    <3> QED BY <1>1, <3>4, Positions
  <2> QED BY <2>2, <2>3, <2>4
<1>4. CASE i = Len(queue) - h + 1 /\ queue'[i].kind = "snapshot" /\ queue'[i].gen = gen
           /\ queue'[i].who \in Calls
  <2>1. \A k \in 1..i : queue'[k].gen <= gen
    <3> TAKE k \in 1..i
    <3>1. k \in DOMAIN queue'
      BY Positions
    <3> QED BY <1>1, <3>1, Positions DEF QueueOK, SameJob
  <2> QED BY <1>4, <2>1
<1> QED BY <1>3, <1>4, Positions

\* Work that ends a session before this one, or begins this one, is done if it was.
LEMMA SettledKeeps ==
  ASSUME TypeOK, QueueOK, gen' = gen, NEW h, QueueKept(h)
  PROVE  /\ Settled => Settled'
         /\ h = 1 /\ Next1.gen = gen =>
              Settled' /\ \A i \in DOMAIN queue' : queue'[i].gen = gen
         /\ (\A i \in DOMAIN queue : queue[i].gen = gen) => \A i \in DOMAIN queue' : queue'[i].gen = gen
<1>1. h \in 0..1 /\ gen \in Nat /\ \A i \in DOMAIN queue : queue[i].gen \in Nat
  <2>1. h \in 0..1 /\ gen \in Nat
    BY DEF QueueKept, TypeOK
  <2> QED BY <2>1, Positions DEF JobType
<1>2. Settled => Settled'
  BY Positions DEF Settled, SameJob
<1>3. ASSUME h = 1, Next1.gen = gen PROVE Settled' /\ \A i \in DOMAIN queue' : queue'[i].gen = gen
  <2>1. Next1 = queue[1]
    <3>1. queue \in Seq(JobType) /\ Len(queue) >= 1
      BY <1>1, <1>3, Positions DEF QueueKept, TypeOK
    <3>2. queue # <<>>
      BY ONLY <3>1
    <3> QED BY ONLY <3>1, <3>2 DEF Next1
  <2> SUFFICES ASSUME NEW i \in DOMAIN queue'
               PROVE  queue'[i].gen = gen /\ queue'[i].kind # "persist"
    BY <1>3 DEF Settled
  <2>2. CASE i + h \in DOMAIN queue /\ SameJob(queue'[i], queue[i + h])
    <3>1. 1 \in 1..(i + h) /\ 1 \in 1..((i + h) - 1)
      BY <1>3, <2>2, Positions
    <3>2. queue[i + h].gen = gen /\ queue[i + h].kind # "persist"
      BY <1>1, <1>3, <2>1, <2>2, <3>1 DEF QueueOK
    <3> QED BY <2>2, <3>2 DEF SameJob
  <2> QED BY <2>2, Positions
<1>4. ASSUME \A i \in DOMAIN queue : queue[i].gen = gen
      PROVE  \A i \in DOMAIN queue' : queue'[i].gen = gen
  BY <1>4, Positions DEF SameJob
<1> QED BY <1>2, <1>3, <1>4

\* A flight that serves a job is not given up before the job is done.
LEMMA JobsKeep ==
  ASSUME TypeOK, QueueOK, Jobs, NEW h, Keeps(h)
  PROVE  Jobs'
<1>1. gen' = gen /\ mem' = mem /\ h \in 0..1
  BY DEF Keeps, StoreKept, QueueKept
<1> SUFFICES ASSUME NEW i \in DOMAIN queue' PROVE JobOK(queue[i])'
  BY DEF Jobs
<1>2. CASE i + h \in DOMAIN queue /\ i <= Len(queue) - h /\ SameJob(queue'[i], queue[i + h])
  <2>1. PICK j : j = queue'[i]
    OBVIOUS
  <2>2. PICK k : k = queue[i + h]
    OBVIOUS
  <2>3. JobOK(k) /\ SameJob(j, k) /\ k \in JobType /\ j \in JobType
    BY <1>2, <2>1, <2>2, Positions DEF Jobs, Keeps
  <2>4. ASSUME j.who \in Gens
        PROVE  flight'[j.who].pc = flight[j.who].pc
    <3>1. k.who = j.who
      BY <2>3, <2>4 DEF SameJob
    <3>2. flight[j.who].pc \in {"snapshot", "update", "ending"}
      BY <2>3, <2>4, <3>1 DEF JobOK, Serves, JobType
    <3>3. h = 1 => Next1.who # j.who
      <4> SUFFICES ASSUME h = 1, Next1.who = j.who PROVE FALSE
        OBVIOUS
      <4>1. queue \in Seq(JobType) /\ Len(queue) >= 1
        BY <1>2, Positions DEF TypeOK
      <4>2. queue # <<>>
        BY ONLY <4>1
      <4>3. Next1 = queue[1] /\ 1 \in DOMAIN queue
        BY ONLY <4>1, <4>2 DEF Next1
      <4>4. i + h = 1
        BY <1>2, <2>2, <2>4, <3>1, <4>3 DEF QueueOK
      <4> QED BY <4>4, Positions DEF Keeps
    <3> QED BY <2>4, <3>2, <3>3 DEF Keeps, FlightsKept, SameFlight, Succeeded
  <2>5. JobOK(j)'
    <3>1. CASE j.who = None
      <4>1. j.kind # "update"
        BY <2>3, <3>1 DEF JobOK, SameJob
      <4> QED BY <3>1, <4>1 DEF JobOK, Bounded
    <3>2. CASE j.who = k.who
      BY <1>1, <2>3, <2>4, <3>2 DEF JobOK, SameJob
    <3> QED BY <2>3, <3>1, <3>2 DEF SameJob
  <2> QED BY <2>1, <2>5
<1>3. CASE queue'[i].kind = "snapshot" /\ queue'[i].who \in Calls
  BY <1>3 DEF JobOK
<1> QED BY <1>2, <1>3, Positions DEF Keeps

\* What is written is what memory holds, still.
LEMMA HeadKept ==
  ASSUME TypeOK, NEW h, QueueKept(h), h = 0, queue # <<>>
  PROVE  queue' # <<>> /\ SameJob(Next1', Next1)
<1>1. queue \in Seq(JobType) /\ queue' \in Seq(JobType)
  BY DEF TypeOK, QueueKept
<1>2. Len(queue) >= 1 /\ Next1 = queue[1]
  BY ONLY <1>1, queue # <<>> DEF Next1
<1>3. Len(queue') >= 1 /\ SameJob(queue'[1], queue[1])
  BY <1>1, <1>2 DEF QueueKept
<1>4. queue' # <<>>
  BY ONLY <1>1, <1>3
<1>5. Next1' = queue'[1]
  BY ONLY <1>1, <1>4 DEF Next1
<1> QED BY <1>2, <1>3, <1>4, <1>5

LEMMA StoreKeeps ==
  ASSUME TypeOK, QueueOK, StoreOK, Flights, NEW h, Keeps(h)
  PROVE  StoreOK'
<1>1. gen' = gen /\ mem' = mem /\ loaded' = loaded /\ h \in 0..1
  BY DEF Keeps, StoreKept, QueueKept
<1>2. writing' # {} => /\ queue' # <<>> /\ dirty' /\ loaded'
                       /\ Next1'.gen = gen' => writing' = {mem'}
  <2> SUFFICES ASSUME writing' # {}
               PROVE  /\ queue' # <<>> /\ dirty' /\ loaded'
                      /\ Next1'.gen = gen' => writing' = {mem'}
    OBVIOUS
  <2>1. h = 0 /\ writing' = writing /\ dirty' = dirty
    BY <1>1 DEF Keeps, StoreKept
  <2>2. queue' # <<>> /\ Next1'.gen = Next1.gen
    BY <2>1, HeadKept DEF StoreOK, Keeps, SameJob
  <2> QED BY <1>1, <2>1, <2>2 DEF StoreOK
<1>3. ASSUME ~ loaded
      PROVE  /\ mem' = None /\ writing' = {} /\ superseded' = {}
             /\ screen'.status \in {"loading", "unavailable"}
             /\ \A c \in Calls : call'[c].token = None
             /\ \A g \in Gens : flight'[g].pc = "none"
  <2>1. /\ mem = None /\ writing = {} /\ superseded = {}
        /\ screen.status \in {"loading", "unavailable"}
        /\ \A c \in Calls : call[c].token = None
        /\ \A g \in Gens : flight[g].pc = "none"
    BY <1>3 DEF StoreOK
  <2>2. writing' = {} /\ ~ Succeeded(h)
    BY <1>1, <1>3, <2>1 DEF Keeps, StoreKept, Succeeded
  <2>3. superseded' = {}
    BY <2>1 DEF Keeps, NetKept
  <2>4. screen'.status \in {"loading", "unavailable"}
    BY <2>1, <2>2 DEF Keeps, ScreenKept, Loading, Unavailable
  <2>5. \A c \in Calls : call'[c].token = None
    BY <2>1, <2>2 DEF Keeps, CallsKept
  <2>6. \A g \in Gens : flight'[g].pc = "none"
    BY <2>1, <2>2 DEF Keeps, FlightsKept, SameFlight, NoFlight
  <2> QED BY <1>1, <2>1, <2>2, <2>3, <2>4, <2>5, <2>6
<1>4. screen'.status = "guest" => \A i \in DOMAIN queue' : queue'[i].gen = gen'
  <2> SUFFICES ASSUME screen'.status = "guest" PROVE \A i \in DOMAIN queue' : queue'[i].gen = gen
    BY <1>1
  <2>1. CASE screen' = screen
    BY <1>1, <2>1, SettledKeeps DEF StoreOK, Keeps
  <2>2. CASE Succeeded(h)
    BY <1>1, <2>2, SettledKeeps DEF Succeeded, Keeps
  <2> QED BY <2>1, <2>2 DEF Keeps, ScreenKept, Loading, Unavailable, Authed
<1> QED BY <1>1, <1>2, <1>3, <1>4 DEF StoreOK

LEMMA CallsKeep ==
  ASSUME TypeOK, QueueOK, StoreOK, CallsOK, NEW h, Keeps(h)
  PROVE  CallsOK'
<1>1. /\ gen' = gen /\ mem' = mem /\ tok' = tok /\ gen \in Nat
      /\ mem \in Issued \cup {None}
  BY DEF Keeps, StoreKept, TypeOK, server
<1>2. \A t : Current(t) => Current(t)'
  BY <1>1 DEF Current, LoginOf, Issued
<1>3. Settled => Settled'
  BY <1>1, SettledKeeps DEF Keeps
<1>4. Succeeded(h) => Settled'
  BY <1>1, SettledKeeps DEF Keeps, Succeeded
<1>5. Issued' = Issued /\ (mem # None => mem \in Issued /\ Current(mem))
  BY <1>1 DEF Issued, Current
<1> SUFFICES ASSUME NEW c \in Calls, call'[c].token # None
             PROVE  /\ call'[c].gen <= gen /\ call'[c].token \in Issued
                    /\ call'[c].gen = gen => Current(call[c].token)' /\ Settled'
  BY <1>1, <1>5 DEF CallsOK
<1>6. CASE call'[c].token = call[c].token /\ call'[c].gen = call[c].gen
  <2>1. /\ call[c].gen <= gen /\ call[c].token \in Issued
        /\ call[c].gen = gen => Current(call[c].token) /\ Settled
    BY <1>6 DEF CallsOK
  <2> QED BY <1>2, <1>3, <1>6, <2>1
<1>7. CASE Succeeded(h) /\ call'[c].token = mem /\ call'[c].gen = gen
  <2>1. mem # None
    BY <1>7
  <2> QED BY <1>1, <1>2, <1>4, <1>5, <1>7, <2>1
<1> QED BY <1>6, <1>7 DEF Keeps, CallsKept

\* The flights after the step are the ones before it, or one that is sent now.
LEMMA FlightsBefore ==
  ASSUME TypeOK, Jobs, Flights, NEW h, Keeps(h), NEW g \in Gens, flight'[g].pc # "none"
  PROVE  /\ flight[g].pc # "none" /\ flight'[g].token = flight[g].token
         /\ flight'[g].pair = flight[g].pair /\ FlightOK(g)
         /\ \/ flight'[g].pc = flight[g].pc
            \/ /\ g = gen /\ Succeeded(h) /\ flight[g].pc = "snapshot" /\ flight'[g].pc = "sent"
               /\ flight[g].token = mem
<1>1. CASE SameFlight(flight'[g], flight[g])
  BY <1>1 DEF SameFlight, Flights
<1>2. CASE /\ Succeeded(h) /\ Next1.kind = "snapshot" /\ g = Next1.who
           /\ flight'[g].pc = "sent" /\ flight'[g].token = mem /\ flight[g].token = mem
           /\ flight'[g].pair = None
  <2>1. queue \in Seq(JobType) /\ Len(queue) >= 1
    BY <1>2, Positions DEF Keeps, QueueKept, TypeOK, Succeeded
  <2>2. queue # <<>>
    BY ONLY <2>1
  <2>3. Next1 = queue[1] /\ 1 \in DOMAIN queue
    BY ONLY <2>1, <2>2 DEF Next1
  <2>4. JobOK(Next1)
    BY <2>3 DEF Jobs
  <2>5. flight[g].pc = "snapshot" /\ Next1.gen = g
    BY <1>2, <2>4 DEF JobOK, Serves
  <2>6. FlightOK(g) /\ flight[g].pair = None
    BY <2>5 DEF Flights, FlightOK
  <2> QED BY <1>2, <2>5, <2>6 DEF Succeeded
<1>3. flight'[g] # NoFlight
  BY DEF NoFlight
<1> QED BY <1>1, <1>2, <1>3 DEF Keeps, FlightsKept

LEMMA FlightsKeep ==
  ASSUME TypeOK, QueueOK, Jobs, StoreOK, Flights, Apart, NEW h, Keeps(h)
  PROVE  Flights'
<1>1. /\ gen' = gen /\ mem' = mem /\ tok' = tok /\ revoked' = revoked /\ loaded' = loaded
      /\ h \in 0..1 /\ (h = 0 => writing' = writing /\ dirty' = dirty)
      /\ (h = 1 => writing' = {} /\ (Next1.kind = "update" => writing # {}))
      /\ (dirty' => dirty) /\ dirty' \in BOOLEAN
      /\ lost \subseteq lost' /\ revs \subseteq revs'
  BY DEF Keeps, StoreKept, QueueKept, NetKept, server
<1>2. \A t : Current(t)' <=> Current(t)
  BY <1>1 DEF Current, LoginOf, Issued
<1>3. Settled => Settled'
  BY <1>1, SettledKeeps DEF Keeps
<1>4. Issued' = Issued /\ \A t : LoginOf(t)' = LoginOf(t)
  BY <1>1 DEF Issued, LoginOf
<1> SUFFICES ASSUME NEW g \in Gens PROVE FlightOK(g)'
  BY DEF Flights
<1>5. CASE flight'[g].pc = "none"
  <2>1. flight'[g] = NoFlight
    BY <1>5 DEF Keeps, FlightsKept, SameFlight, Flights, FlightOK
  <2> QED BY <1>5, <2>1 DEF FlightOK
<1>6. CASE flight'[g].pc # "none"
  <2>1. PICK e : e = flight'[g]
    OBVIOUS
  <2>2. PICK f : f = flight[g]
    OBVIOUS
  <2>3. /\ f.pc # "none" /\ e.token = f.token /\ e.pair = f.pair /\ FlightOK(g)
        /\ \/ e.pc = f.pc
           \/ /\ g = gen /\ Succeeded(h) /\ f.pc = "snapshot" /\ e.pc = "sent"
              /\ f.token = mem
    BY <1>6, <2>1, <2>2, FlightsBefore
  <2>4. /\ g <= gen /\ f.token \in Issued
        /\ g = gen => Current(f.token) /\ Settled
        /\ f.pair # None <=> f.pc \in {"answered", "update"} /\ f.pair \in Issued
        /\ f.pair # None => /\ LoginOf(f.pair) = LoginOf(f.token) /\ f.token < f.pair
                            /\ f.token \in revoked /\ f.pair \notin superseded
        /\ g = gen /\ f.pc \in {"sent", "answered"} => writing = {} /\ ~ dirty /\ mem = f.token
        /\ f.pc = "update" =>
                /\ f.pair # None /\ queue # <<>> /\ Next1 = Job("update", g, g)
                /\ IF writing = {} THEN g = gen /\ Len(queue) = 1 /\ mem = f.token
                   ELSE IF g = gen THEN mem = f.pair
                   ELSE f.pair \in revs \cup lost \cup revoked
    BY <2>2, <2>3 DEF FlightOK
  <2>5. /\ g <= gen' /\ e.token \in Issued'
        /\ g = gen' => Current(f.token)' /\ Settled'
    BY <1>1, <1>2, <1>3, <1>4, <2>3, <2>4
  <2>6. e.pair # None <=> e.pc \in {"answered", "update"} /\ e.pair \in Issued'
    BY <1>4, <2>3, <2>4
  <2>7. ASSUME e.pair # None
        PROVE  /\ LoginOf(f.pair)' = LoginOf(f.token)' /\ e.token < e.pair
               /\ e.token \in revoked' /\ e.pair \notin superseded'
    <3>1. /\ LoginOf(f.pair) = LoginOf(f.token) /\ f.token < f.pair
          /\ f.token \in revoked /\ f.pair \notin superseded /\ f.token \in Nat
      BY <2>3, <2>4, <2>7 DEF TypeOK, Issued
    <3>2. f.pair \notin superseded'
      <4> SUFFICES ASSUME f.pair \in superseded' PROVE FALSE
        OBVIOUS
      <4>1. PICK x \in Gens : x # gen /\ flight[x].pc = "answered" /\ flight[x].token = f.pair
        BY <3>1 DEF Keeps, NetKept
      <4>2. CASE x = g
        BY <2>2, <3>1, <4>1, <4>2
      <4>3. CASE x # g
        BY <2>2, <2>3, <3>1, <4>1, <4>3 DEF Apart
      <4> QED BY <4>2, <4>3
    <3> QED BY <1>1, <1>4, <2>3, <3>1, <3>2
  <2>8. ASSUME g = gen', e.pc \in {"sent", "answered"}
        PROVE  writing' = {} /\ ~ dirty' /\ mem' = e.token
    <3>1. CASE e.pc = f.pc
      BY <1>1, <2>3, <2>4, <2>8, <3>1
    <3>2. CASE Succeeded(h) /\ f.token = mem
      BY <1>1, <2>3, <3>2 DEF Succeeded
    <3> QED BY <2>3, <3>1, <3>2
  <2>9. ASSUME e.pc = "update"
        PROVE  /\ e.pair # None /\ queue' # <<>> /\ Next1' = Job("update", g, g)
               /\ IF writing' = {} THEN g = gen' /\ Len(queue') = 1 /\ mem' = e.token
                  ELSE IF g = gen' THEN mem' = e.pair
                  ELSE e.pair \in revs' \cup lost' \cup revoked'
    <3>1. f.pc = "update" /\ Next1 = Job("update", g, g) /\ queue # <<>>
      BY <2>3, <2>4, <2>9
    <3>2. h = 0
      <4> SUFFICES ASSUME h = 1 PROVE FALSE
        BY <1>1
      <4>1. flight'[g] = NoFlight
        BY <3>1 DEF Job, Keeps, FlightsKept
      <4> QED BY <1>6, <4>1 DEF NoFlight
    <3>3. queue' # <<>> /\ SameJob(Next1', Next1)
      BY <3>1, <3>2, HeadKept DEF Keeps
    <3>4. Next1' \in JobType
      <4>1. queue' \in Seq(JobType)
        BY DEF Keeps, QueueKept
      <4> QED BY ONLY <3>3, <4>1 DEF Next1
    <3>5. Next1' = Job("update", g, g)
      BY <3>1, <3>3, <3>4 DEF SameJob, Job, JobType
    <3>6. writing = {} => Len(queue') = Len(queue)
      BY <3>1, <3>2 DEF Keeps, QueueKept, Drained
    <3> QED BY <1>1, <2>3, <2>4, <3>1, <3>2, <3>3, <3>5, <3>6
  <2> HIDE DEF Next1
  <2> QED BY <1>6, <2>1, <2>3, <2>5, <2>6, <2>7, <2>8, <2>9 DEF FlightOK
<1> QED BY <1>5, <1>6

LEMMA ApartKeeps ==
  ASSUME TypeOK, Jobs, Flights, Apart, NEW h, Keeps(h)
  PROVE  Apart'
<1>1. gen' = gen /\ mem' = mem /\ tok' = tok
  BY DEF Keeps, StoreKept, server
<1>2. \A t : (Current(t)' <=> Current(t)) /\ LoginOf(t)' = LoginOf(t)
  BY <1>1 DEF Current, LoginOf, Issued
<1>3. \A g \in Gens : flight'[g].pc # "none" =>
        flight[g].pc # "none" /\ flight'[g].token = flight[g].token
  BY FlightsBefore
<1> QED BY <1>1, <1>2, <1>3 DEF Apart

\* Nobody presents what was superseded, in this session or in those that are over.
LEMMA SupersededKeeps ==
  ASSUME TypeOK, QueueOK, Jobs, Flights, Apart, SupersededOK, NotReused, NEW h, Keeps(h)
  PROVE  SupersededOK' /\ NotReused'
<1>1. /\ gen' = gen /\ mem' = mem /\ gen \in Gens /\ None \notin superseded /\ None \notin Issued
      /\ superseded \subseteq Issued /\ Issued \subseteq Nat /\ h \in 0..1
  BY IssuedPairs DEF Keeps, StoreKept, QueueKept, TypeOK
<1>2. mem \notin superseded' \ superseded
  <2> SUFFICES ASSUME mem \in superseded' \ superseded PROVE FALSE
    OBVIOUS
  <2>1. PICK x \in Gens : x # gen /\ flight[x].pc = "answered" /\ flight[x].token = mem
    BY DEF Keeps, NetKept
  <2>2. FlightOK(x)
    BY DEF Flights
  <2>3. mem \in Issued /\ mem # None
    BY <1>1, <2>1, <2>2 DEF FlightOK
  <2> QED BY <2>1, <2>3 DEF Apart, Current
<1>3. SupersededOK'
  <2> SUFFICES ASSUME mem \in superseded
               PROVE  flight'[gen].pc = "update" /\ mem = flight'[gen].token
    BY <1>1, <1>2 DEF SupersededOK
  <2>1. flight[gen].pc = "update" /\ mem = flight[gen].token /\ FlightOK(gen)
    BY <1>1 DEF SupersededOK, Flights
  <2>2. /\ flight[gen].pair # None /\ flight[gen].token < flight[gen].pair
        /\ Next1 = Job("update", gen, gen)
        /\ writing # {} => mem = flight[gen].pair
    BY <1>1, <2>1 DEF FlightOK
  <2>3. writing = {}
    <3>1. flight[gen].token \in Nat
      BY <1>1, <2>1 DEF FlightOK
    <3>2. flight[gen].pair # flight[gen].token
      BY ONLY <2>2, <3>1
    <3> QED BY <2>1, <2>2, <3>2
  <2>4. h = 0
    BY <1>1, <2>2, <2>3 DEF Keeps, StoreKept, Job
  <2> QED BY <1>1, <2>1, <2>4 DEF Keeps, FlightsKept, SameFlight, Succeeded
<1>4. NotReused'
  <2> SUFFICES ASSUME NEW g \in Gens, flight'[g].pc = "sent"
               PROVE  flight'[g].token \notin superseded'
    BY DEF NotReused
  <2>1. /\ flight[g].pc # "none" /\ flight'[g].token = flight[g].token /\ FlightOK(g)
        /\ \/ flight[g].pc = "sent"
           \/ g = gen /\ flight[g].pc = "snapshot" /\ flight[g].token = mem
    BY FlightsBefore
  <2>2. flight[g].token \notin superseded
    BY <1>1, <2>1 DEF NotReused, SupersededOK
  <2>3. ASSUME flight[g].token \in superseded' PROVE FALSE
    <3>1. PICK x \in Gens : x # gen /\ flight[x].pc = "answered" /\ flight[x].token = flight[g].token
      BY <2>2, <2>3 DEF Keeps, NetKept
    <3>2. x # g
      BY <2>1, <3>1
    <3> QED BY <2>1, <3>1, <3>2 DEF Apart
  <2> QED BY <2>1, <2>3
<1> QED BY <1>3, <1>4

\* A pair that is accounted for stays so, or it is the one in memory.
LEMMA AccountedKeeps ==
  ASSUME TypeOK, QueueOK, Jobs, Flights, NEW h, Keeps(h), NEW t \in Live
  PROVE  /\ t \in Accounted => t \in Accounted' \/ t = mem
         /\ (t \in lost \cup revs \/ \E g \in Gens : flight[g].pair = t /\ g # gen) =>
              (t \in lost' \cup revs' \/ \E g \in Gens : flight'[g].pair = t /\ g # gen)
<1>1. t \in Issued /\ t \notin revoked /\ t # None /\ lost \subseteq lost' /\ revs \subseteq revs'
  BY IssuedPairs DEF Live, Issued, Keeps, NetKept
<1>2. ASSUME NEW g \in Gens, flight[g].pair = t
      PROVE  \/ flight'[g].pair = t
             \/ t \in lost' \cup revs'
             \/ g = gen /\ t = mem
  <2>1. CASE h = 1 /\ g = Next1.who /\ Next1.kind = "update"
    <3>1. queue \in Seq(JobType) /\ Len(queue) >= 1
      BY <2>1, Positions DEF Keeps, QueueKept, TypeOK
    <3>2. queue # <<>>
      BY ONLY <3>1
    <3>3. Next1 = queue[1] /\ 1 \in DOMAIN queue
      BY ONLY <3>1, <3>2 DEF Next1
    <3>4. JobOK(Next1)
      BY <3>3 DEF Jobs
    <3>5. flight[g].pc = "update" /\ FlightOK(g)
      <4>1. flight[g].pc # "none" /\ "update" = Serves(flight[g].pc)
        BY <2>1, <3>4 DEF JobOK
      <4>2. flight[g].pc = "update"
        BY <4>1 DEF Serves
      <4> QED BY <4>2 DEF Flights
    <3>6. writing # {}
      BY <2>1 DEF Keeps, StoreKept
    <3>7. IF g = gen THEN mem = flight[g].pair ELSE flight[g].pair \in revs \cup lost \cup revoked
      BY <3>5, <3>6 DEF FlightOK
    <3> QED BY <1>1, <1>2, <3>7
  <2>2. CASE SameFlight(flight'[g], flight[g])
    BY <1>2, <2>2 DEF SameFlight
  <2>3. CASE flight[g].pair \in {None} \cup lost' \cup revs'
    BY <1>1, <1>2, <2>3
  <2>4. CASE /\ Succeeded(h) /\ Next1.kind = "snapshot" /\ g = Next1.who
             /\ flight'[g].pc = "sent" /\ flight'[g].token = mem /\ flight[g].token = mem
             /\ flight'[g].pair = None
    <3>1. flight'[g].pair = flight[g].pair
      BY <2>4, FlightsBefore
    <3> QED BY <1>2, <3>1
  <2> QED BY <2>1, <2>2, <2>3, <2>4 DEF Keeps, FlightsKept
<1> QED BY <1>1, <1>2 DEF Accounted

LEMMA HoldingsKeep ==
  ASSUME TypeOK, QueueOK, Jobs, StoreOK, Flights, HoldingsOK, NEW h, Keeps(h)
  PROVE  HoldingsOK'
<1>1. /\ gen' = gen /\ mem' = mem /\ tok' = tok /\ revoked' = revoked /\ loaded' = loaded
      /\ signedOut' = signedOut /\ disk' \in {disk} \cup writing /\ writing' \subseteq writing
      /\ ~ loaded => disk' = disk
  <2>1. h \in 0..1 /\ (h = 0 => writing' = writing) /\ (h = 1 => writing' = {})
    BY DEF Keeps, StoreKept, QueueKept
  <2>2. ~ loaded => writing = {}
    BY DEF StoreOK
  <2> QED BY <2>1, <2>2 DEF Keeps, StoreKept, server
<1>2. \A t : (Current(t)' <=> Current(t)) /\ LoginOf(t)' = LoginOf(t)
  BY <1>1 DEF Current, LoginOf, Issued
<1>3. Live' = Live
  BY <1>1 DEF Live
<1>4. /\ \A t \in Live : Current(t) => t = mem \/ t \in Accounted
      /\ \A x \in ({disk} \cup writing) \ {None} : \A t \in Live :
           LoginOf(t) = LoginOf(x) => t \in {x, mem} \cup Accounted
      /\ mem # None => LoginOf(mem) \notin signedOut
      /\ ~ loaded /\ disk # None => LoginOf(disk) \notin signedOut
      /\ \A t \in Live : LoginOf(t) \in signedOut =>
           t \in lost \cup revs \/ \E g \in Gens : flight[g].pair = t /\ g # gen
  BY DEF HoldingsOK
<1>5. \A t \in Live : t \in Accounted => t \in Accounted' \/ t = mem
  BY AccountedKeeps
<1>6. \A t \in Live' : Current(t)' => t = mem' \/ t \in Accounted'
  BY <1>1, <1>2, <1>3, <1>4, <1>5
<1>7. \A x \in ({disk'} \cup writing') \ {None} : \A t \in Live' :
        LoginOf(t)' = LoginOf(x)' => t \in {x, mem'} \cup Accounted'
  <2> SUFFICES ASSUME NEW x \in ({disk'} \cup writing') \ {None}, NEW t \in Live,
                      LoginOf(t) = LoginOf(x)
               PROVE  t \in {x, mem} \cup Accounted'
    BY <1>1, <1>2, <1>3
  <2>1. x \in ({disk} \cup writing) \ {None}
    BY <1>1
  <2> QED BY <1>4, <1>5, <2>1
<1>8. \A t \in Live' : LoginOf(t)' \in signedOut' =>
        t \in lost' \cup revs' \/ \E g \in Gens : flight'[g].pair = t /\ g # gen'
  BY <1>1, <1>2, <1>3, <1>4, AccountedKeeps
<1>9. /\ mem' # None => LoginOf(mem)' \notin signedOut'
      /\ ~ loaded' /\ disk' # None => LoginOf(disk)' \notin signedOut'
  BY <1>1, <1>4 DEF LoginOf
<1> QED BY <1>6, <1>7, <1>8, <1>9 DEF HoldingsOK

LEMMA TypeKeeps ==
  ASSUME TypeOK, Flights, NEW h, Keeps(h)
  PROVE  TypeOK'
<1>1. /\ UNCHANGED <<account, tok, revoked, gen, mem, loaded, signedOut>>
      /\ disk' \in {disk} \cup writing /\ dirty' \in BOOLEAN /\ writing' \subseteq writing
  BY DEF Keeps, StoreKept, QueueKept, server
<1>2. Issued' = Issued /\ mem \in Issued \cup {None}
  BY <1>1 DEF Issued, TypeOK
<1>3. superseded' \subseteq Issued
  <2> SUFFICES ASSUME NEW t \in superseded', t \notin superseded PROVE t \in Issued
    BY DEF TypeOK
  <2>1. PICK g \in Gens : flight[g].pc = "answered" /\ flight[g].token = t
    BY DEF Keeps, NetKept
  <2> QED BY <2>1 DEF Flights, FlightOK
<1>4. screen' \in {Loading, Guest, Unavailable} \cup {Authed(u) : u \in Users}
  <2>1. mem # None => tok[mem].user \in Users
    BY <1>2, IssuedPairs
  <2>2. screen \in {Loading, Guest, Unavailable} \cup {Authed(u) : u \in Users}
    BY DEF TypeOK
  <2> QED BY <2>1, <2>2 DEF Keeps, ScreenKept
<1>5. /\ queue' \in Seq(JobType) /\ call' \in [Calls -> CallType] /\ flight' \in [Gens -> FlightType]
      /\ faults' \in Nat /\ lost' \subseteq Issued /\ revs' \subseteq Issued /\ stray' \subseteq Issued
  BY DEF Keeps, QueueKept, CallsKept, FlightsKept, NetKept
<1>6. /\ account \in [Users -> {"ACTIVE", "SUSPENDED"}]
      /\ tok \in Seq([user : Users, login : Tokens]) /\ Len(tok) <= MaxTokens
      /\ revoked \subseteq Issued /\ signedOut \subseteq Issued
      /\ disk' \in Issued \cup {None} /\ writing' \subseteq Issued \cup {None}
      /\ gen \in Gens /\ loaded \in BOOLEAN
  BY <1>1 DEF TypeOK
<1> QED BY <1>1, <1>2, <1>3, <1>4, <1>5, <1>6 DEF TypeOK

LEMMA ScreenKeeps ==
  ASSUME ScreenIsTrue, StoreOK, Flights, NEW h, Keeps(h)
  PROVE  ScreenIsTrue'
<1>1. TypeOK'
  BY TypeKeeps DEF ScreenIsTrue
<1>2. /\ gen' = gen /\ mem' = mem /\ tok' = tok /\ loaded' = loaded /\ h \in 0..1 /\ h <= Len(queue)
      /\ disk' \in {disk} \cup writing /\ (dirty' \/ ~ loaded' \/ disk' = mem') /\ (h = 0 => disk' = disk)
  BY DEF Keeps, StoreKept, QueueKept, server
<1>3. ASSUME screen'.status = "guest" PROVE disk' = None /\ mem' = None
  <2>1. CASE screen' = screen
    <3>1. disk = None /\ mem = None /\ \A i \in DOMAIN queue : queue[i].gen = gen
      BY <1>3, <2>1 DEF ScreenIsTrue, StoreOK
    <3>2. CASE writing = {}
      BY <1>2, <3>1, <3>2
    <3>3. CASE writing # {}
      <4>1. queue # <<>> /\ queue \in Seq(JobType)
        BY <3>3 DEF StoreOK, ScreenIsTrue, TypeOK
      <4>2. Next1 = queue[1] /\ 1 \in DOMAIN queue
        BY ONLY <4>1 DEF Next1
      <4> QED BY <1>2, <3>1, <3>3, <4>2 DEF StoreOK
    <3> QED BY <3>2, <3>3
  <2>2. CASE mem = None /\ Succeeded(h)
    BY <1>2, <2>2 DEF Succeeded
  <2> QED BY <1>3, <2>1, <2>2 DEF Keeps, ScreenKept, Loading, Unavailable, Authed
<1>4. ASSUME screen'.status = "authed", mem' # None PROVE tok'[mem'].user = screen'.user
  BY <1>2, <1>4 DEF ScreenIsTrue, Keeps, ScreenKept, Loading, Unavailable, Guest, Authed
<1> QED BY <1>1, <1>2, <1>3, <1>4 DEF ScreenIsTrue

\* A step within a session keeps the invariant.
LEMMA SessionKeeps ==
  ASSUME Inductive, NEW h, Keeps(h)
  PROVE  Inductive'
<1>1. /\ ScreenIsTrue /\ TypeOK /\ NotReused /\ LoginsOK /\ QueueOK /\ StoreOK /\ CallsOK /\ Apart
      /\ SupersededOK /\ HoldingsOK /\ Jobs /\ Flights
  BY DEF Inductive, ScreenIsTrue, Jobs, Flights
<1>2. LoginsOK'
  <2>1. tok' = tok /\ revoked' = revoked
    BY DEF Keeps, StoreKept, server
  <2> QED BY <1>1, <2>1 DEF LoginsOK, LoginOf, OneSuccessor, Live, Issued
<1>3. QueueOK' /\ gen' = gen
  BY <1>1, QueueKeeps DEF Keeps, StoreKept
<1>4. ScreenIsTrue' /\ StoreOK' /\ CallsOK'
  BY <1>1, ScreenKeeps, StoreKeeps, CallsKeep
<1>5. Apart' /\ SupersededOK' /\ NotReused' /\ HoldingsOK'
  BY <1>1, ApartKeeps, SupersededKeeps, HoldingsKeep
<1>6. Jobs' /\ Flights'
  BY <1>1, JobsKeep, FlightsKeep
<1> QED BY <1>2, <1>3, <1>4, <1>5, <1>6 DEF Inductive, Jobs, Flights

-----------------------------------------------------------------------------
(* Work of the queue that is done or fails.                                *)

LEMMA Parts ==
  ASSUME Inductive
  PROVE  /\ ScreenIsTrue /\ TypeOK /\ NotReused /\ LoginsOK /\ QueueOK /\ StoreOK /\ CallsOK /\ Apart
         /\ SupersededOK /\ HoldingsOK /\ Jobs /\ Flights
  BY DEF Inductive, ScreenIsTrue, Jobs, Flights

\* The work at the head, and the refresh it is for.
LEMMA HeadOK ==
  ASSUME TypeOK, Jobs, Flights, queue # <<>>
  PROVE  /\ Next1 = queue[1] /\ 1 \in DOMAIN queue /\ Next1 \in JobType /\ JobOK(Next1)
         /\ Next1.who \in Gens =>
              /\ FlightOK(Next1.who)
              /\ Next1.kind = "snapshot" => flight[Next1.who].pc = "snapshot" /\ Next1.gen = Next1.who
              /\ Next1.kind = "update" => flight[Next1.who].pc = "update" /\ Next1.gen = Next1.who
              /\ Next1.kind = "persist" => flight[Next1.who].pc = "ending"
              /\ Next1.kind # "update" => flight[Next1.who].pair = None
<1>1. queue \in Seq(JobType)
  BY DEF TypeOK
<1>2. Next1 = queue[1] /\ 1 \in DOMAIN queue /\ Next1 \in JobType
  BY ONLY <1>1, queue # <<>> DEF Next1
<1>3. JobOK(Next1)
  BY <1>2 DEF Jobs
<1>4. ASSUME Next1.who \in Gens
      PROVE  /\ FlightOK(Next1.who)
             /\ Next1.kind = "snapshot" => flight[Next1.who].pc = "snapshot" /\ Next1.gen = Next1.who
             /\ Next1.kind = "update" => flight[Next1.who].pc = "update" /\ Next1.gen = Next1.who
             /\ Next1.kind = "persist" => flight[Next1.who].pc = "ending"
             /\ Next1.kind # "update" => flight[Next1.who].pair = None
  <2>1. PICK j : j = Next1
    OBVIOUS
  <2>2. /\ flight[j.who].pc # "none" /\ j.kind = Serves(flight[j.who].pc)
        /\ j.kind # "persist" => j.gen = j.who
    BY <1>3, <1>4, <2>1 DEF JobOK
  <2>3. j.kind \in {"snapshot", "update", "persist"}
    BY <1>2, <2>1 DEF JobType
  <2>4. /\ j.kind = "snapshot" => flight[j.who].pc = "snapshot"
        /\ j.kind = "update" => flight[j.who].pc = "update"
        /\ j.kind = "persist" => flight[j.who].pc = "ending"
    BY ONLY <2>2, <2>3 DEF Serves
  <2>5. FlightOK(j.who)
    BY <1>4, <2>1 DEF Flights
  <2>6. j.kind # "update" => flight[j.who].pair = None
    BY <2>2, <2>3, <2>4, <2>5 DEF FlightOK
  <2> QED BY <2>1, <2>2, <2>4, <2>5, <2>6
<1> QED BY <1>2, <1>3, <1>4

LEMMA JobTypes ==
  /\ \A c \in Calls, g \in Gens : Job("snapshot", g, c) \in JobType
  /\ \A g, h \in Gens : Job("snapshot", g, h) \in JobType /\ Job("update", g, h) \in JobType
                        /\ Job("persist", g, h) \in JobType
  /\ \A g \in Gens : Job("persist", g, Main) \in JobType /\ Job("persist", g, Logout) \in JobType
  BY DEF Job, JobType, Bounded

LEMMA TailKept ==
  ASSUME TypeOK, queue # <<>>,
         queue' = Tail(queue) \/ \E c \in Calls : queue' = Append(Tail(queue), Job("snapshot", gen, c))
  PROVE  QueueKept(1)
<1>1. queue \in Seq(JobType) /\ gen \in Gens
  BY DEF TypeOK
<1>2. /\ Tail(queue) \in Seq(JobType) /\ Len(Tail(queue)) = Len(queue) - 1 /\ Len(queue) \in Nat \ {0}
      /\ \A i \in 1..(Len(queue) - 1) : Tail(queue)[i] = queue[i + 1]
  BY ONLY <1>1, queue # <<>>, Behead
<1>3. CASE queue' = Tail(queue)
  BY <1>2, <1>3 DEF QueueKept, SameJob
<1>4. CASE \E c \in Calls : queue' = Append(Tail(queue), Job("snapshot", gen, c))
  <2>1. PICK c \in Calls : queue' = Append(Tail(queue), Job("snapshot", gen, c))
    BY <1>4
  <2>2. PICK x : x = Job("snapshot", gen, c)
    OBVIOUS
  <2>3. x \in JobType /\ x.kind = "snapshot" /\ x.gen = gen /\ x.who = c
    BY <1>1, <2>2, JobTypes DEF Job
  <2>4. PICK q : q = Tail(queue)
    OBVIOUS
  <2>5. /\ queue' \in Seq(JobType) /\ Len(queue') = Len(q) + 1
        /\ DOMAIN queue' = 1..(Len(q) + 1) /\ queue'[Len(q) + 1] = x
        /\ \A i \in 1..Len(q) : queue'[i] = q[i]
    <3>1. q \in Seq(JobType) /\ queue' = Append(q, x)
      BY <1>2, <2>1, <2>2, <2>4
    <3> QED BY ONLY <2>3, <3>1, Behind
  <2>6. /\ Len(q) = Len(queue) - 1 /\ Len(queue) \in Nat \ {0}
        /\ \A i \in 1..Len(q) : q[i] = queue[i + 1]
    BY <1>2, <2>4
  <2>7. 1 <= Len(queue) /\ Len(queue') \in {Len(queue) - 1, Len(queue) - 1 + 1}
    BY ONLY <2>5, <2>6
  <2>8. \A i \in 1..(Len(queue) - 1) : SameJob(queue'[i], queue[i + 1])
    BY ONLY <2>5, <2>6 DEF SameJob
  <2>9. ASSUME NEW i \in DOMAIN queue', i > Len(queue) - 1
        PROVE  queue'[i].kind = "snapshot" /\ queue'[i].gen = gen /\ queue'[i].who \in Calls
    <3>1. i = Len(q) + 1
      BY ONLY <2>5, <2>6, <2>9
    <3> QED BY <2>3, <2>5, <3>1
  <2> QED BY ONLY <2>5, <2>7, <2>8, <2>9 DEF QueueKept
<1> QED BY <1>3, <1>4

\* Superseding operations only takes names off the jobs.
LEMMA WithoutKept ==
  ASSUME TypeOK, NEW K, K \cap Gens = {}
  PROVE  /\ QueueWithout(K) \in Seq(JobType)
         /\ Len(QueueWithout(K)) = Len(queue) /\ Len(queue) \in Nat
         /\ DOMAIN queue = 1..Len(queue)
         /\ \A i \in 1..Len(queue) : SameJob(QueueWithout(K)[i], queue[i])
         /\ QueueWithout(K) = <<>> <=> queue = <<>>
<1>1. queue \in Seq(JobType)
  BY DEF TypeOK
<1>2. Len(queue) \in Nat /\ DOMAIN queue = 1..Len(queue) /\ \A i \in 1..Len(queue) : queue[i] \in JobType
  BY ONLY <1>1
<1>4. PICK q : q = QueueWithout(K)
  OBVIOUS
<1>5. ASSUME NEW i \in 1..Len(queue) PROVE q[i] \in JobType /\ SameJob(q[i], queue[i])
  <2>1. PICK k : k = queue[i]
    OBVIOUS
  <2>2. k \in JobType /\ q[i] = IF k.who \in K THEN [k EXCEPT !.who = None] ELSE k
    BY <1>2, <1>4, <2>1 DEF QueueWithout
  <2>3. PICK n : n = [k EXCEPT !.who = None]
    OBVIOUS
  <2>4. n \in JobType
    BY ONLY <2>2, <2>3 DEF JobType
  <2>5. n.kind = k.kind /\ n.gen = k.gen /\ n.who = None
    BY ONLY <2>2, <2>3 DEF JobType
  <2> QED BY <2>1, <2>2, <2>3, <2>4, <2>5 DEF SameJob
<1>6. DOMAIN q = 1..Len(queue) /\ q = [i \in 1..Len(queue) |-> q[i]]
  BY <1>2, <1>4 DEF QueueWithout
<1>7. q \in Seq(JobType) /\ Len(q) = Len(queue)
  BY ONLY <1>2, <1>5, <1>6
<1>8. q = <<>> <=> queue = <<>>
  BY ONLY <1>1, <1>7
<1> QED BY <1>2, <1>4, <1>5, <1>7, <1>8

LEMMA Idles == Idle \in CallType /\ Idle.token = None /\ NoFlight \in FlightType
  BY DEF Idle, CallType, NoFlight, FlightType

\* Refreshes that are aborted are given up; those that had not started lose their caller.
LEMMA AbortKept ==
  ASSUME TypeOK, Flights, NEW K, Abort(K)
  PROVE  /\ flight' \in [Gens -> FlightType]
         /\ \A g \in Gens :
              \/ /\ flight'[g] = NoFlight /\ flight[g].pc \in {"sent", "answered"}
                 /\ flight[g].pair \in {None} \cup lost'
              \/ SameFlight(flight'[g], flight[g])
         /\ lost \subseteq lost' /\ lost' \subseteq Issued /\ stray' \subseteq Issued
<1>1. ASSUME NEW g \in Gens
      PROVE  /\ flight'[g] \in FlightType
             /\ \/ /\ flight'[g] = NoFlight /\ flight[g].pc \in {"sent", "answered"}
                   /\ flight[g].pair \in {None} \cup lost'
                \/ SameFlight(flight'[g], flight[g])
  <2>1. PICK f : f = flight[g]
    OBVIOUS
  <2>2. f \in FlightType
    BY <2>1 DEF TypeOK
  <2>3. PICK n : n = [f EXCEPT !.by = Aborted]
    OBVIOUS
  <2>4. n \in FlightType
    BY ONLY <2>2, <2>3 DEF FlightType
  <2>5. n.pc = f.pc /\ n.token = f.token /\ n.pair = f.pair
    BY ONLY <2>2, <2>3 DEF FlightType
  <2>6. flight'[g] = IF g \in Dropped(K) THEN NoFlight
                     ELSE IF f.by \in K /\ f.pc = "snapshot" THEN n ELSE f
    BY <2>1, <2>3 DEF Abort
  <2>7. CASE g \in Dropped(K)
    <3>1. f.pc \in {"sent", "answered"} /\ flight'[g] = NoFlight
      BY <2>1, <2>6, <2>7 DEF Dropped
    <3>2. lost' = lost \cup ({flight[x].pair : x \in Dropped(K)} \ {None})
      BY DEF Abort
    <3> QED BY <2>1, <2>7, <3>1, <3>2, Idles
  <2>8. CASE g \notin Dropped(K)
    BY <2>1, <2>2, <2>4, <2>5, <2>6, <2>8 DEF SameFlight
  <2> QED BY <2>7, <2>8
<1>2. flight' \in [Gens -> FlightType]
  <2>1. flight' = [g \in Gens |-> flight'[g]]
    BY DEF Abort
  <2> QED BY <1>1, <2>1
<1>3. \A g \in Dropped(K) : flight[g].token \in Issued /\ flight[g].pair \in Issued \cup {None}
  BY DEF Dropped, Flights, FlightOK
<1>4. lost \subseteq lost' /\ lost' \subseteq Issued /\ stray' \subseteq Issued
  BY <1>3 DEF Abort, TypeOK
<1> QED BY <1>1, <1>2, <1>4

LEMMA CallsWithoutKept ==
  ASSUME TypeOK, NEW K
  PROVE  /\ CallsWithout(K) \in [Calls -> CallType]
         /\ \A c \in Calls : CallsWithout(K)[c] \in {Idle, call[c]}
  BY Idles DEF TypeOK, CallsWithout

LEMMA RejectKept ==
  ASSUME TypeOK, NEW S, Reject(S)
  PROVE  /\ call' \in [Calls -> CallType] /\ \A c \in Calls : call'[c] \in {Idle, call[c]}
         /\ screen' \in {screen, Unavailable}
  BY Idles DEF TypeOK, Reject

\* The calls that a pair goes to, and those that are told it failed.
LEMMA ResendKept ==
  ASSUME TypeOK, NEW g \in Gens, NEW m \in Tokens \cup {None}, Resend(g, m)
  PROVE  /\ flight' = [flight EXCEPT ![g] = NoFlight] /\ screen' = screen
         /\ call' \in [Calls -> CallType]
         /\ \A c \in Calls : call'[c] = call[c] \/ (call'[c].token = m /\ call'[c].gen = g)
<1>1. ASSUME NEW c \in Calls
      PROVE  call'[c] \in CallType /\ (call'[c] = call[c] \/ (call'[c].token = m /\ call'[c].gen = g))
  <2>1. PICK k : k = call[c]
    OBVIOUS
  <2>2. k \in CallType
    BY <2>1 DEF TypeOK
  <2>3. PICK n : n = [k EXCEPT !.pc = "resent", !.token = m]
    OBVIOUS
  <2>4. n \in CallType
    BY ONLY <2>2, <2>3, m \in Tokens \cup {None} DEF CallType
  <2>5. n.token = m /\ n.gen = k.gen
    BY ONLY <2>2, <2>3 DEF CallType
  <2>6. call'[c] = IF c \in Waiters(g) THEN n ELSE k
    BY <2>1, <2>3 DEF Resend
  <2>7. c \in Waiters(g) => k.gen = g
    BY <2>1 DEF Waiters
  <2> QED BY <2>1, <2>2, <2>4, <2>5, <2>6, <2>7
<1>2. call' = [c \in Calls |-> call'[c]]
  BY DEF Resend
<1> QED BY <1>1, <1>2 DEF Resend

\* One refresh is over.
LEMMA OverKept ==
  ASSUME TypeOK, NEW g \in Gens
  PROVE  /\ [flight EXCEPT ![g] = NoFlight] \in [Gens -> FlightType]
         /\ [flight EXCEPT ![g] = NoFlight][g] = NoFlight
         /\ \A x \in Gens \ {g} : [flight EXCEPT ![g] = NoFlight][x] = flight[x]
  BY Idles DEF TypeOK

\* What the end of a piece of work leaves alone.
Ended ==
  /\ UNCHANGED <<server, gen, mem, loaded, revs, superseded, signedOut>>
  /\ queue # <<>> /\ writing' = {} /\ (Next1.kind = "update" => writing # {})
  /\ disk' \in {disk} \cup writing /\ dirty' \in BOOLEAN /\ (dirty' => dirty)
  /\ dirty' \/ ~ loaded \/ disk' = mem
  /\ faults' \in Nat

LEMMA EndedKept ==
  ASSUME TypeOK, Ended, lost \subseteq lost', lost' \subseteq Issued, stray' \subseteq Issued
  PROVE  StoreKept(1) /\ NetKept
  BY DEF Ended, StoreKept, NetKept, TypeOK, server

LEMMA InvalidatedKept ==
  ASSUME TypeOK, Flights, queue # <<>>, NEW g, NEW s, Invalidated(g, s)
  PROVE  /\ QueueKept(1) /\ screen' = s
         /\ call' \in [Calls -> CallType] /\ \A c \in Calls : call'[c] \in {Idle, call[c]}
         /\ flight' \in [Gens -> FlightType]
         /\ \A x \in Gens :
              \/ /\ flight'[x] = NoFlight /\ flight[x].pc \in {"sent", "answered"}
                 /\ flight[x].pair \in {None} \cup lost'
              \/ SameFlight(flight'[x], flight[x])
         /\ lost \subseteq lost' /\ lost' \subseteq Issued /\ stray' \subseteq Issued
<1>1. PICK q : q = QueueWithout(Cancelled)
  OBVIOUS
<1>2. queue' = Tail(q) /\ screen' = s /\ Abort(Cancelled)
  BY <1>1 DEF Invalidated
<1>3. Cancelled \cap Gens = {}
  BY DEF Cancelled, Bounded
<1>4. /\ q \in Seq(JobType) /\ Len(q) = Len(queue) /\ Len(queue) \in Nat /\ q # <<>>
      /\ \A i \in 1..Len(queue) : SameJob(q[i], queue[i])
  BY <1>1, <1>3, WithoutKept
<1>5. /\ Tail(q) \in Seq(JobType) /\ Len(Tail(q)) = Len(q) - 1 /\ Len(q) \in Nat \ {0}
      /\ \A i \in 1..(Len(q) - 1) : Tail(q)[i] = q[i + 1]
  BY ONLY <1>4, Behead
<1>6. QueueKept(1)
  <2>1. /\ queue' \in Seq(JobType) /\ Len(queue') = Len(queue) - 1 /\ Len(queue) \in Nat \ {0}
        /\ \A i \in 1..(Len(queue) - 1) : queue'[i] = q[i + 1]
    BY <1>2, <1>4, <1>5
  <2>2. 1 <= Len(queue) /\ Len(queue') \in {Len(queue) - 1, Len(queue) - 1 + 1}
    BY ONLY <2>1
  <2>3. \A i \in 1..(Len(queue) - 1) : SameJob(queue'[i], queue[i + 1])
    BY ONLY <1>4, <2>1
  <2>4. \A i \in DOMAIN queue' : ~ i > Len(queue) - 1
    BY ONLY <2>1
  <2> QED BY ONLY <2>1, <2>2, <2>3, <2>4 DEF QueueKept
<1>7. call' \in [Calls -> CallType] /\ \A c \in Calls : call'[c] \in {Idle, call[c]}
  BY CallsWithoutKept DEF Invalidated
<1> QED BY <1>2, <1>6, <1>7, AbortKept

\* A flight that waits for the work at the head is given up with it, the others stay.
LEMMA HeadOver ==
  ASSUME TypeOK, Jobs, Flights, queue # <<>>, Next1.who \in Gens,
         flight' = [flight EXCEPT ![Next1.who] = NoFlight]
  PROVE  FlightsKept(1)
<1>1. PICK g : g = Next1.who
  OBVIOUS
<1>2. /\ flight' \in [Gens -> FlightType] /\ flight'[g] = NoFlight
      /\ \A x \in Gens \ {g} : flight'[x] = flight[x]
  BY <1>1, OverKept
<1>3. Next1.kind # "update" => flight[g].pair = None
  BY <1>1, HeadOK
<1> QED BY <1>1, <1>2, <1>3 DEF FlightsKept, SameFlight

LEMMA FailedKeeps ==
  ASSUME Inductive, Ended, Failed(Next1)
  PROVE  Inductive'
<1>1. TypeOK /\ Jobs /\ Flights /\ queue # <<>>
  BY Parts DEF Ended
<1>2. Next1.kind = "update" => Next1.who \in Gens
  BY <1>1, HeadOK DEF JobOK
<1>3. lost \subseteq Issued /\ stray \subseteq Issued
  BY <1>1 DEF TypeOK
<1>4. SUFFICES /\ QueueKept(1) /\ CallsKept(1) /\ FlightsKept(1) /\ ScreenKept(1)
               /\ lost \subseteq lost' /\ lost' \subseteq Issued /\ stray' \subseteq Issued
  <2>1. faults' \in Nat
    BY DEF Ended
  <2> QED BY <1>1, <1>4, <2>1, EndedKept, SessionKeeps DEF Keeps
<1>5. CASE Next1.who \in Calls /\ Reject({Next1.who}) /\ queue' = Tail(queue) /\ UNCHANGED <<flight, stray, lost>>
  <2>1. CallsKept(1) /\ ScreenKept(1)
    BY <1>1, <1>5, RejectKept, Idles DEF CallsKept, ScreenKept
  <2>2. FlightsKept(1)
    BY <1>1, <1>2, <1>5 DEF FlightsKept, SameFlight, TypeOK
  <2> QED BY <1>1, <1>3, <1>5, <2>1, <2>2, TailKept
<1>6. CASE Next1.who \in {Logout, None} /\ \E s \in {screen, Unavailable} : Shown(s)
  <2>1. CallsKept(1) /\ ScreenKept(1)
    BY <1>1, <1>6 DEF CallsKept, ScreenKept, Shown, TypeOK
  <2>2. FlightsKept(1)
    BY <1>1, <1>2, <1>6 DEF FlightsKept, SameFlight, TypeOK, Shown
  <2> QED BY <1>1, <1>3, <1>6, <2>1, <2>2, TailKept DEF Shown
<1>7. CASE Next1.kind = "persist" /\ Invalidated(Next1.who, Unavailable)
  BY <1>1, <1>7, InvalidatedKept, Idles DEF CallsKept, ScreenKept, FlightsKept
<1>8. CASE Next1.who \in Gens /\ GiveUp(Next1.who) /\ queue' = Tail(queue) /\ UNCHANGED <<stray, lost>>
  <2>1. CallsKept(1) /\ ScreenKept(1)
    <3>1. Reject(Waiters(Next1.who))
      BY <1>8 DEF GiveUp
    <3> QED BY <1>1, <3>1, RejectKept, Idles DEF CallsKept, ScreenKept
  <2>2. FlightsKept(1)
    BY <1>1, <1>8, HeadOver DEF GiveUp
  <2> QED BY <1>1, <1>3, <1>8, <2>1, <2>2, TailKept
<1>9. \/ Next1.who \in Calls /\ Reject({Next1.who}) /\ queue' = Tail(queue) /\ UNCHANGED <<flight, stray, lost>>
      \/ Next1.who \in {Logout, None} /\ \E s \in {screen, Unavailable} : Shown(s)
      \/ Next1.kind = "persist" /\ Invalidated(Next1.who, Unavailable)
      \/ Next1.who \in Gens /\ GiveUp(Next1.who) /\ queue' = Tail(queue) /\ UNCHANGED <<stray, lost>>
  BY DEF Failed
<1> QED BY <1>5, <1>6, <1>7, <1>8, <1>9

\* Callers that are sent with the pair in memory.
LEMMA ResentKept ==
  ASSUME TypeOK, Jobs, Flights, queue # <<>>, Succeeded(1), Next1.kind # "persist",
         Next1.who \in Gens, Resend(Next1.who, mem)
  PROVE  CallsKept(1) /\ FlightsKept(1) /\ ScreenKept(1)
<1>1. Next1.who = gen
  BY HeadOK DEF Succeeded, JobOK
<1>2. mem \in Tokens \cup {None}
  BY IssuedPairs DEF TypeOK
<1>3. /\ flight' = [flight EXCEPT ![Next1.who] = NoFlight] /\ screen' = screen
      /\ call' \in [Calls -> CallType]
      /\ \A c \in Calls : call'[c] = call[c] \/ (call'[c].token = mem /\ call'[c].gen = Next1.who)
  BY <1>2, ResendKept
<1>4. CallsKept(1)
  BY <1>1, <1>3 DEF CallsKept
<1> QED BY <1>3, <1>4, HeadOver DEF ScreenKept

LEMMA ReadKept ==
  ASSUME TypeOK, queue # <<>>, Succeeded(1), Next1.kind = "snapshot", NEW c \in Calls, Next1.who = c, Read(c, mem)
  PROVE  /\ QueueKept(1) /\ CallsKept(1) /\ FlightsKept(1) /\ ScreenKept(1)
         /\ UNCHANGED <<stray, lost>>
<1>1. FlightsKept(1)
  BY DEF FlightsKept, SameFlight, TypeOK, Read
<1>2. mem \in Tokens \cup {None} /\ gen \in Gens
  BY IssuedPairs DEF TypeOK
<1>3. CASE call[c].pc = "check" /\ mem = None /\ screen' = Guest /\ call' = [call EXCEPT ![c] = Idle]
           /\ queue' = Tail(queue)
  BY <1>1, <1>3, TailKept, Idles DEF CallsKept, ScreenKept, TypeOK, Read
<1>4. CASE /\ call' = [call EXCEPT ![c].pc = "begin"] /\ UNCHANGED screen
           /\ queue' = Append(Tail(queue), Job("snapshot", gen, c))
  <2>1. PICK k : k = call[c]
    OBVIOUS
  <2>2. PICK n : n = [k EXCEPT !.pc = "begin"]
    OBVIOUS
  <2>3. k \in CallType
    BY <2>1 DEF TypeOK
  <2>4. n \in CallType
    BY ONLY <2>2, <2>3 DEF CallType
  <2>5. n.token = k.token /\ n.gen = k.gen
    BY ONLY <2>2, <2>3 DEF CallType
  <2>6. call' = [call EXCEPT ![c] = n]
    BY <1>4, <2>1, <2>2
  <2>7. CallsKept(1)
    BY <2>1, <2>4, <2>5, <2>6 DEF CallsKept, TypeOK
  <2>8. QueueKept(1)
    BY <1>4, TailKept
  <2> QED BY <1>1, <1>4, <2>7, <2>8 DEF ScreenKept, Read
<1>5. CASE /\ call' = [call EXCEPT ![c] = [pc |-> "sent", gen |-> gen, token |-> mem]]
           /\ queue' = Tail(queue) /\ UNCHANGED screen
  <2>1. PICK n : n = [pc |-> "sent", gen |-> gen, token |-> mem]
    OBVIOUS
  <2>2. n \in CallType /\ n.token = mem /\ n.gen = gen
    BY <1>2, <2>1 DEF CallType
  <2>3. CallsKept(1)
    BY <1>5, <2>1, <2>2 DEF CallsKept, TypeOK
  <2> QED BY <1>1, <1>5, <2>3, TailKept DEF ScreenKept, Read
<1> QED BY <1>3, <1>4, <1>5 DEF Read

LEMMA PresentKept ==
  ASSUME TypeOK, Jobs, Flights, queue # <<>>, Succeeded(1), Next1.kind = "snapshot",
         Next1.who \in Gens, Present(Next1.who, mem)
  PROVE  /\ QueueKept(1) /\ CallsKept(1) /\ FlightsKept(1) /\ ScreenKept(1)
         /\ UNCHANGED <<stray, lost>>
<1>1. QueueKept(1) /\ UNCHANGED <<stray, lost>>
  BY TailKept DEF Present
<1>2. PICK g \in Gens : g = Next1.who
  OBVIOUS
<1>3. CASE /\ mem = flight[g].token /\ flight' = [flight EXCEPT ![g].pc = "sent"]
           /\ UNCHANGED <<call, screen>>
  <2>1. PICK f : f = flight[g]
    OBVIOUS
  <2>2. PICK n : n = [f EXCEPT !.pc = "sent"]
    OBVIOUS
  <2>3. f \in FlightType
    BY <2>1 DEF TypeOK
  <2>4. n \in FlightType
    BY ONLY <2>2, <2>3 DEF FlightType
  <2>5. n.pc = "sent" /\ n.token = f.token /\ n.pair = f.pair
    BY ONLY <2>2, <2>3 DEF FlightType
  <2>6. f.pair = None
    BY <1>2, <2>1, HeadOK
  <2>7. flight' = [flight EXCEPT ![g] = n]
    BY <1>3, <2>1, <2>2
  <2>8. FlightsKept(1)
    <3>1. flight \in [Gens -> FlightType]
      BY DEF TypeOK
    <3>2. /\ flight' \in [Gens -> FlightType] /\ flight'[g] = n
          /\ \A h \in Gens : h # g => flight'[h] = flight[h]
      BY ONLY <1>2, <2>4, <2>7, <3>1
    <3>3. \A h \in Gens : h # g => SameFlight(flight'[h], flight[h])
      BY ONLY <3>2 DEF SameFlight
    <3>4. /\ flight'[g].pc = "sent" /\ flight'[g].token = mem /\ flight[g].token = mem
          /\ flight'[g].pair = None
      BY <1>3, <2>1, <2>5, <2>6, <3>2, <1>2
    <3>5. Succeeded(1) /\ Next1.kind = "snapshot"
      OBVIOUS
    <3> HIDE DEF Next1
    <3> QED BY ONLY <1>2, <3>2, <3>3, <3>4, <3>5 DEF FlightsKept
  <2>9. call' = call /\ screen' = screen
    BY <1>1, <1>3
  <2>10. CallsKept(1) /\ ScreenKept(1)
    BY ONLY <2>9, TypeOK DEF CallsKept, ScreenKept, TypeOK
  <2> QED BY ONLY <1>1, <2>8, <2>10
<1>4. CASE Resend(Next1.who, mem)
  BY <1>1, <1>4, ResentKept
<1>5. CASE GiveUp(Next1.who)
  <2>1. Reject(Waiters(Next1.who)) /\ FlightsKept(1)
    BY <1>5, HeadOver DEF GiveUp
  <2> QED BY <1>1, <2>1, RejectKept, Idles DEF CallsKept, ScreenKept
<1> QED BY <1>2, <1>3, <1>4, <1>5 DEF Present

LEMMA DoneKeeps ==
  ASSUME Inductive, Ended, Succeeded(1), Done(Next1, mem)
  PROVE  Inductive'
<1>1. TypeOK /\ Jobs /\ Flights /\ queue # <<>>
  BY Parts DEF Ended
<1>2. JobOK(Next1) /\ Next1.gen = gen
  BY <1>1, HeadOK DEF Succeeded
<1>3. lost \subseteq Issued /\ stray \subseteq Issued
  BY <1>1 DEF TypeOK
<1>4. SUFFICES /\ QueueKept(1) /\ CallsKept(1) /\ FlightsKept(1) /\ ScreenKept(1)
               /\ lost \subseteq lost' /\ lost' \subseteq Issued /\ stray' \subseteq Issued
  <2>1. faults' \in Nat
    BY DEF Ended
  <2> QED BY <1>1, <1>4, <2>1, EndedKept, SessionKeeps DEF Keeps
<1>5. CASE Next1.kind = "snapshot" /\ Next1.who \in Calls /\ Read(Next1.who, mem)
  BY <1>1, <1>3, <1>5, ReadKept
<1>6. CASE Next1.kind = "snapshot" /\ Next1.who \in Gens /\ Present(Next1.who, mem)
  BY <1>1, <1>3, <1>6, PresentKept
<1>7. CASE /\ Next1.kind = "update" /\ Resend(Next1.who, mem) /\ queue' = Tail(queue)
           /\ UNCHANGED <<stray, lost>>
  BY <1>1, <1>2, <1>3, <1>7, ResentKept, TailKept DEF JobOK
<1>8. CASE Next1.kind = "persist" /\ Next1.who = Main /\ Saved
  <2>1. PICK k : k = call[Main]
    OBVIOUS
  <2>2. PICK n : n = [k EXCEPT !.pc = "begin"]
    OBVIOUS
  <2>3. k \in CallType /\ Main \in Calls
    BY <1>1, <2>1 DEF TypeOK, Bounded
  <2>4. n \in CallType
    BY ONLY <2>2, <2>3 DEF CallType
  <2>5. n.token = k.token /\ n.gen = k.gen
    BY ONLY <2>2, <2>3 DEF CallType
  <2>6. call' = [call EXCEPT ![Main] = n]
    BY <1>8, <2>1, <2>2 DEF Saved
  <2>7. CallsKept(1)
    BY <1>1, <2>1, <2>3, <2>4, <2>5, <2>6 DEF CallsKept, TypeOK
  <2>8. FlightsKept(1)
    BY <1>1, <1>8 DEF FlightsKept, SameFlight, TypeOK, Saved
  <2>9. QueueKept(1)
    BY <1>1, <1>8, <2>3, TailKept DEF Saved
  <2> QED BY <1>3, <1>8, <2>7, <2>8, <2>9 DEF ScreenKept, Saved
<1>9. CASE Next1.kind = "persist" /\ Next1.who = Logout /\ Shown(Guest)
  <2>1. mem = None
    BY <1>2, <1>9 DEF JobOK
  <2>2. CallsKept(1) /\ FlightsKept(1)
    BY <1>1, <1>9 DEF CallsKept, FlightsKept, SameFlight, TypeOK, Shown
  <2> QED BY <1>1, <1>3, <1>9, <2>1, <2>2, TailKept DEF ScreenKept, Shown
<1>10. CASE Next1.kind = "persist" /\ Next1.who \in Gens /\ Invalidated(Next1.who, Guest)
  <2>1. mem = None
    BY <1>2, <1>10 DEF JobOK
  <2> QED BY <1>1, <1>10, <2>1, InvalidatedKept, Idles DEF CallsKept, ScreenKept, FlightsKept
<1>11. CASE Next1.who = None /\ Shown(screen)
  <2>1. Next1.kind # "update"
    BY <1>2, <1>11 DEF JobOK
  <2>2. CallsKept(1) /\ FlightsKept(1)
    BY <1>1, <1>11, <2>1 DEF CallsKept, FlightsKept, SameFlight, TypeOK, Shown
  <2> QED BY <1>1, <1>3, <1>11, <2>2, TailKept DEF ScreenKept, Shown
<1> QED BY <1>5, <1>6, <1>7, <1>8, <1>9, <1>10, <1>11 DEF Done

\* A pair on its way to the store is of this session, until its write begins.
LEMMA UpdateCurrent ==
  ASSUME TypeOK, Jobs, Flights, queue # <<>>, writing = {}, Next1.kind = "update"
  PROVE  ~ Stale(Next1)
<1>1. Next1.who \in Gens
  BY HeadOK DEF JobOK
<1>2. /\ flight[Next1.who].pc = "update" /\ Next1.gen = Next1.who /\ FlightOK(Next1.who)
  BY <1>1, HeadOK
<1>3. Next1.who = gen /\ mem = flight[Next1.who].token
  BY <1>2 DEF FlightOK
<1> QED BY <1>2, <1>3 DEF Stale

LEMMA DropWorkKeeps ==
  ASSUME Inductive, DropWork
  PROVE  Inductive'
<1>1. Next1.kind # "update"
  BY Parts, UpdateCurrent DEF DropWork
<1>2. Ended
  BY <1>1, Parts DEF DropWork, Ended, store, ScreenIsTrue, TypeOK
<1> QED BY <1>2, FailedKeeps DEF DropWork

LEMMA KeychainFailsKeeps ==
  ASSUME Inductive, KeychainFails
  PROVE  Inductive'
<1>1. Next1.kind = "update" => writing # {}
  BY DEF KeychainFails, Load
<1>2. faults' \in Nat
  BY Parts DEF KeychainFails, Fault, TypeOK
<1>3. Ended
  BY <1>1, <1>2, Parts DEF KeychainFails, Ended, store, ScreenIsTrue, TypeOK
<1> QED BY <1>3, FailedKeeps DEF KeychainFails

LEMMA EndWorkKeeps ==
  ASSUME Inductive, EndWork
  PROVE  Inductive'
<1>1. writing # {} /\ disk' \in writing /\ writing' = {}
  BY DEF EndWork
<1>2. queue # <<>> /\ dirty /\ loaded /\ (Next1.gen = gen => writing = {mem}) /\ TypeOK
  BY <1>1, Parts DEF StoreOK
<1>3. UNCHANGED <<server, gen, mem, loaded, revs, superseded, signedOut, faults>>
  BY DEF EndWork
<1>4. CASE Next1.gen = gen
  <2>1. dirty' = FALSE /\ Done(Next1, mem) /\ disk' = mem
    BY <1>1, <1>2, <1>4 DEF EndWork
  <2>2. Ended
    BY <1>1, <1>2, <1>3, <2>1 DEF Ended, TypeOK
  <2>3. Succeeded(1)
    BY <1>2, <1>4, <2>1 DEF Succeeded
  <2> QED BY <2>1, <2>2, <2>3, DoneKeeps
<1>5. CASE Next1.gen # gen
  <2>1. dirty' = dirty /\ Failed(Next1)
    BY <1>5 DEF EndWork
  <2>2. Ended
    BY <1>1, <1>2, <1>3, <2>1 DEF Ended, TypeOK
  <2> QED BY <2>1, <2>2, FailedKeeps
<1> QED BY <1>4, <1>5

\* Nothing is to be written: the work is done at once.
LEMMA NoWriteKeeps ==
  ASSUME Inductive, BeginWork, Next1.kind = "snapshot", ~ Load, ~ dirty
  PROVE  Inductive'
<1>1. loaded /\ Next1.gen = gen /\ queue # <<>> /\ writing = {}
  BY DEF BeginWork, Load, Stale
<1>2. mem' = mem /\ loaded' = loaded /\ Done(Next1, mem) /\ UNCHANGED <<dirty, writing>>
  BY <1>1, Parts DEF BeginWork, TypeOK
<1>3. disk = mem /\ TypeOK
  BY <1>1, Parts DEF ScreenIsTrue
<1>4. Ended
  BY <1>1, <1>2, <1>3 DEF BeginWork, Ended, TypeOK
<1>5. Succeeded(1)
  BY <1>1, <1>2, <1>3 DEF BeginWork, Succeeded
<1> QED BY <1>2, <1>4, <1>5, DoneKeeps

-----------------------------------------------------------------------------
(* Calls, refreshes that come to nothing, and late answers.                *)

\* The queue is left alone.
LEMMA SameQueue ==
  ASSUME TypeOK, queue' = queue
  PROVE  QueueKept(0)
<1>1. queue \in Seq(JobType)
  BY DEF TypeOK
<1>2. Len(queue) \in Nat /\ DOMAIN queue = 1..Len(queue)
  BY ONLY <1>1
<1>3. /\ 0 \in 0..1 /\ 0 <= Len(queue) /\ Len(queue') \in {Len(queue) - 0, Len(queue) - 0 + 1}
      /\ Len(queue') = Len(queue)
      /\ \A i \in 1..(Len(queue) - 0) : SameJob(queue'[i], queue[i + 0])
      /\ \A i \in DOMAIN queue' : ~ i > Len(queue) - 0
  BY ONLY <1>2, queue' = queue DEF SameJob
<1> QED BY ONLY <1>1, <1>3, queue' = queue DEF QueueKept

\* So are the refreshes.
LEMMA SameFlights ==
  ASSUME TypeOK, flight' = flight
  PROVE  FlightsKept(0)
  BY DEF TypeOK, FlightsKept, SameFlight

LEMMA WithinSession ==
  ASSUME Inductive, UNCHANGED <<server, store, writing, signedOut, faults>>,
         QueueKept(0), CallsKept(0), FlightsKept(0), NetKept, ScreenKept(0)
  PROVE  Inductive'
<1>1. StoreKept(0) /\ faults' \in Nat
  BY Parts DEF StoreKept, store, server, ScreenIsTrue, TypeOK
<1> QED BY <1>1, SessionKeeps DEF Keeps

LEMMA SameNet ==
  ASSUME TypeOK, UNCHANGED <<revs, lost, stray, superseded>>
  PROVE  NetKept
  BY DEF TypeOK, NetKept

LEMMA NoAnswerKeeps ==
  ASSUME Inductive, NEW c \in Calls, NoAnswer(c)
  PROVE  Inductive'
<1>1. CallsKept(0) /\ ScreenKept(0)
  BY Parts, RejectKept, Idles DEF NoAnswer, CallsKept, ScreenKept
<1>2. QueueKept(0) /\ FlightsKept(0) /\ NetKept
  BY Parts, SameQueue, SameFlights, SameNet DEF NoAnswer, io, net, history
<1> QED BY <1>1, <1>2, WithinSession DEF NoAnswer, io, history

LEMMA AnsweredKeeps ==
  ASSUME Inductive, NEW c \in Calls, Success(c) \/ Inactive(c)
  PROVE  Inductive'
<1>1. TypeOK /\ CallsOK /\ LoginsOK
  BY Parts
<1>2. call[c].gen = gen /\ call[c].token # None /\ call' = [call EXCEPT ![c] = Idle]
  BY DEF Success, Inactive
<1>3. mem # None /\ tok[call[c].token].user = tok[mem].user
  BY <1>1, <1>2 DEF CallsOK, LoginsOK, Current, TypeOK
<1>4. CallsKept(0) /\ ScreenKept(0)
  BY <1>1, <1>2, <1>3, Idles DEF Success, Inactive, CallsKept, ScreenKept, TypeOK
<1>5. QueueKept(0) /\ FlightsKept(0) /\ NetKept
  BY <1>1, SameQueue, SameFlights, SameNet DEF Success, Inactive, io, net, history
<1> QED BY <1>4, <1>5, WithinSession DEF Success, Inactive, io, history

\* Names are taken off the queue, or a call's work is added to it.
LEMMA GrownQueue ==
  ASSUME TypeOK, NEW q \in Seq(JobType), Len(q) = Len(queue),
         \A i \in 1..Len(queue) : SameJob(q[i], queue[i]),
         queue' = q \/ (Drained /\ \E c \in Calls : queue' = Append(q, Job("snapshot", gen, c)))
  PROVE  QueueKept(0)
<1>1. queue \in Seq(JobType) /\ gen \in Gens
  BY DEF TypeOK
<1>2. /\ Len(queue) \in Nat /\ Len(q) = Len(queue) /\ DOMAIN q = 1..Len(queue)
      /\ \A i \in 1..Len(queue) : SameJob(q[i], queue[i])
  <2>1. Len(queue) \in Nat
    BY ONLY <1>1
  <2>2. DOMAIN q = 1..Len(q)
    BY ONLY q \in Seq(JobType)
  <2> QED BY <2>1, <2>2
<1>3. CASE queue' = q
  <2>1. /\ 0 \in 0..1 /\ 0 <= Len(queue) /\ Len(queue') \in {Len(queue) - 0, Len(queue) - 0 + 1}
        /\ Len(queue') = Len(queue)
        /\ \A i \in DOMAIN queue' : ~ i > Len(queue) - 0
    <3>1. Len(queue') = Len(queue) /\ DOMAIN queue' = 1..Len(queue)
      BY <1>2, <1>3
    <3> QED BY ONLY <1>2, <3>1
  <2>2. \A i \in 1..(Len(queue) - 0) : SameJob(queue'[i], queue[i + 0])
    <3> TAKE i \in 1..(Len(queue) - 0)
    <3>1. i \in 1..Len(queue) /\ i + 0 = i
      BY ONLY <1>2
    <3> QED BY ONLY <1>2, <1>3, <3>1
  <2> QED BY ONLY q \in Seq(JobType), <1>3, <2>1, <2>2 DEF QueueKept
<1>4. CASE Drained /\ \E c \in Calls : queue' = Append(q, Job("snapshot", gen, c))
  <2>1. PICK c \in Calls : queue' = Append(q, Job("snapshot", gen, c))
    BY <1>4
  <2>2. PICK x : x = Job("snapshot", gen, c)
    OBVIOUS
  <2>3. x \in JobType /\ x.kind = "snapshot" /\ x.gen = gen /\ x.who = c
    BY <1>1, <2>2, JobTypes DEF Job
  <2>4. /\ queue' \in Seq(JobType) /\ Len(queue') = Len(q) + 1
        /\ DOMAIN queue' = 1..(Len(q) + 1) /\ queue'[Len(q) + 1] = x
        /\ \A i \in 1..Len(q) : queue'[i] = q[i]
    <3>1. queue' = Append(q, x)
      BY <2>1, <2>2
    <3> QED BY ONLY q \in Seq(JobType), <2>3, <3>1, Behind
  <2>5. 0 \in 0..1 /\ 0 <= Len(queue) /\ Len(queue') \in {Len(queue) - 0, Len(queue) - 0 + 1}
    BY ONLY <1>2, <2>4
  <2>6. \A i \in 1..(Len(queue) - 0) : SameJob(queue'[i], queue[i + 0])
    <3> TAKE i \in 1..(Len(queue) - 0)
    <3>1. i \in 1..Len(queue) /\ i + 0 = i
      BY ONLY <1>2
    <3> QED BY ONLY <1>2, <2>4, <3>1
  <2>7. ASSUME NEW i \in DOMAIN queue', i > Len(queue) - 0
        PROVE  queue'[i].kind = "snapshot" /\ queue'[i].gen = gen /\ queue'[i].who \in Calls
    <3>1. i = Len(q) + 1
      BY ONLY <1>2, <2>4, <2>7
    <3> QED BY <2>3, <2>4, <3>1
  <2> QED BY ONLY <1>4, <2>4, <2>5, <2>6, <2>7 DEF QueueKept
<1> QED BY <1>3, <1>4

LEMMA CallKeeps ==
  ASSUME Inductive, NEW c \in Calls, Call(c)
  PROVE  Inductive'
<1>1. TypeOK /\ queue \in Seq(JobType) /\ gen \in Gens
  BY Parts DEF TypeOK
<1>2. PICK n : n = [pc |-> "begin", gen |-> gen, token |-> None]
  OBVIOUS
<1>3. n \in CallType /\ n.token = None /\ call' = [call EXCEPT ![c] = n]
  BY <1>1, <1>2 DEF CallType, Call
<1>4. CallsKept(0) /\ ScreenKept(0)
  BY <1>1, <1>3 DEF CallsKept, ScreenKept, Call, TypeOK
<1>5. QueueKept(0)
  BY <1>1, GrownQueue DEF Call, SameJob
<1>6. FlightsKept(0) /\ NetKept
  BY <1>1, SameFlights, SameNet DEF Call, net, history
<1> QED BY <1>4, <1>5, <1>6, WithinSession DEF Call, io, history

\* An operation of the session gives way to another, or is out of time.
LEMMA AbortKeeps ==
  ASSUME TypeOK, Flights, NEW K, Abort(K), UNCHANGED <<revs, superseded>>
  PROVE  FlightsKept(0) /\ NetKept
<1>1. FlightsKept(0)
  BY AbortKept DEF FlightsKept
<1> QED BY <1>1, AbortKept DEF NetKept, TypeOK

LEMMA RestoreKeeps ==
  ASSUME Inductive, Restore
  PROVE  Inductive'
<1>1. TypeOK /\ Flights /\ gen \in Gens /\ Main \in Calls
  BY Parts DEF TypeOK, Bounded
<1>2. Cancelled \cap Gens = {}
  BY DEF Cancelled, Bounded
<1>3. PICK n : n = [pc |-> "check", gen |-> gen, token |-> None]
  OBVIOUS
<1>4. n \in CallType /\ n.token = None /\ call' = [CallsWithout(Cancelled) EXCEPT ![Main] = n]
  BY <1>1, <1>3 DEF CallType, Restore
<1>5. CallsKept(0) /\ ScreenKept(0)
  <2>1. PICK w : w = CallsWithout(Cancelled)
    OBVIOUS
  <2>2. w \in [Calls -> CallType] /\ \A c \in Calls : w[c] \in {Idle, call[c]}
    BY <1>1, <2>1, CallsWithoutKept
  <2>3. call' = [w EXCEPT ![Main] = n]
    BY <1>4, <2>1
  <2>4. CallsKept(0)
    BY <1>1, <1>4, <2>2, <2>3, Idles DEF CallsKept
  <2> QED BY <2>4 DEF ScreenKept, Restore
<1>6. QueueKept(0)
  BY <1>1, <1>2, WithoutKept, GrownQueue DEF Restore
<1>7. FlightsKept(0) /\ NetKept
  BY <1>1, AbortKeeps DEF Restore
<1> QED BY <1>5, <1>6, <1>7, WithinSession DEF Restore

LEMMA TimeoutKeeps ==
  ASSUME Inductive, NEW c \in Calls, Timeout(c)
  PROVE  Inductive'
<1>1. TypeOK /\ Flights
  BY Parts
<1>2. {c} \cap Gens = {}
  OBVIOUS
<1>3. CallsKept(0) /\ ScreenKept(0)
  BY <1>1, CallsWithoutKept, Idles DEF CallsKept, ScreenKept, Timeout
<1>4. QueueKept(0)
  BY <1>1, <1>2, WithoutKept, GrownQueue DEF Timeout
<1>5. FlightsKept(0) /\ NetKept
  BY <1>1, AbortKeeps DEF Timeout
<1> QED BY <1>3, <1>4, <1>5, WithinSession DEF Timeout

\* A refresh is over: lost, or too late, with its pair to be revoked or for a session
\* that is over.
LEMMA OverKeeps ==
  ASSUME Inductive, NEW g \in Gens, flight[g].pc \in {"sent", "answered"},
         flight' = [flight EXCEPT ![g] = NoFlight], Reject(Waiters(g)),
         UNCHANGED <<server, store, io, signedOut, faults>>,
         lost \subseteq lost', lost' \subseteq Issued, revs \subseteq revs', revs' \subseteq Issued,
         stray' \subseteq Issued, flight[g].pair \in {None} \cup lost' \cup revs',
         \/ superseded' = superseded
         \/ g # gen /\ flight[g].pc = "answered" /\ superseded' = superseded \cup {flight[g].token}
  PROVE  Inductive'
<1>1. TypeOK
  BY Parts
<1>2. QueueKept(0)
  BY <1>1, SameQueue DEF io
<1>3. CallsKept(0) /\ ScreenKept(0)
  BY <1>1, RejectKept, Idles DEF CallsKept, ScreenKept
<1>4. FlightsKept(0)
  BY <1>1, OverKept DEF FlightsKept, SameFlight
<1>5. NetKept
  BY DEF NetKept
<1> QED BY <1>2, <1>3, <1>4, <1>5, WithinSession DEF io

LEMMA RefreshLostKeeps ==
  ASSUME Inductive, NEW g \in Gens, RefreshLost(g)
  PROVE  Inductive'
<1>1. TypeOK /\ FlightOK(g)
  BY Parts DEF Flights
<1>2. flight[g].pc \in {"sent", "answered"}
  BY DEF RefreshLost
<1>3. flight[g].token \in Issued /\ flight[g].pair \in Issued \cup {None}
  BY <1>1, <1>2 DEF FlightOK
<1>4. /\ lost \subseteq lost' /\ lost' \subseteq Issued /\ revs' = revs /\ revs \subseteq Issued
      /\ stray' \subseteq Issued /\ flight[g].pair \in {None} \cup lost'
  BY <1>1, <1>3 DEF RefreshLost, TypeOK
<1> QED BY <1>2, <1>4, OverKeeps DEF RefreshLost

LEMMA LateKeeps ==
  ASSUME Inductive, NEW g \in Gens, g # gen, Refreshed(g) \/ Refused(g)
  PROVE  Inductive'
<1>1. TypeOK /\ FlightOK(g)
  BY Parts DEF Flights
<1>2. flight[g].pc = "answered" /\ flight' = [flight EXCEPT ![g] = NoFlight] /\ Reject(Waiters(g))
  BY DEF Refreshed, Refused
<1>3. flight[g].token \in Issued /\ flight[g].pair \in Issued \cup {None}
  BY <1>1, <1>2 DEF FlightOK
<1>4. /\ lost \subseteq lost' /\ lost' \subseteq Issued /\ revs \subseteq revs' /\ revs' \subseteq Issued
      /\ stray' \subseteq Issued /\ flight[g].pair \in {None} \cup lost' \cup revs'
  BY <1>1, <1>3 DEF Refreshed, Refused, TypeOK, net, history
<1>5. UNCHANGED <<server, store, io, signedOut, faults>>
  BY DEF Refreshed, Refused, store, io, history
<1> QED BY <1>2, <1>4, <1>5, OverKeeps DEF Refreshed, Refused, history

-----------------------------------------------------------------------------
(* A session begins or ends.                                               *)

LEMMA PairIssued ==
  ASSUME TypeOK, Len(tok) < MaxTokens, NEW r \in [user : Users, login : Tokens], tok' = Append(tok, r)
  PROVE  /\ tok' \in Seq([user : Users, login : Tokens]) /\ Len(tok') <= MaxTokens
         /\ Len(tok') = Len(tok) + 1 /\ Len(tok) + 1 \in Tokens
         /\ Issued' = Issued \cup {Len(tok) + 1} /\ Issued = 1..Len(tok)
         /\ Len(tok) + 1 \notin Issued /\ tok'[Len(tok) + 1] = r
         /\ \A t \in Issued : tok'[t] = tok[t]
         /\ \A t \in Issued : LoginOf(t)' = LoginOf(t)
<1>1. PICK T : T = [user : Users, login : Tokens]
  OBVIOUS
<1>2. tok \in Seq(T) /\ r \in T
  BY <1>1 DEF TypeOK
<1>3. /\ tok' \in Seq(T) /\ Len(tok') = Len(tok) + 1 /\ Len(tok) \in Nat
      /\ DOMAIN tok' = 1..(Len(tok) + 1) /\ DOMAIN tok = 1..Len(tok)
      /\ tok'[Len(tok) + 1] = r /\ \A t \in 1..Len(tok) : tok'[t] = tok[t]
  BY ONLY <1>2, tok' = Append(tok, r)
<1>4. Issued' = 1..(Len(tok) + 1) /\ Issued = 1..Len(tok)
  BY <1>3 DEF Issued
<1>5. /\ Issued' = Issued \cup {Len(tok) + 1} /\ Len(tok) + 1 \notin Issued
      /\ Len(tok) + 1 \in Tokens /\ Len(tok') <= MaxTokens
  BY <1>3, <1>4
<1> QED BY <1>1, <1>3, <1>4, <1>5 DEF LoginOf

\* The next session: the work that begins or ends one is queued behind that of the
\* others, for w; the calls and refreshes of the last one are over or carry on in vain.
Succession(q, w) ==
  /\ gen' = gen + 1 /\ gen' \in Gens /\ loaded' = TRUE /\ dirty' = TRUE
  /\ UNCHANGED <<account, revoked, disk, writing, superseded, faults>>
  /\ Drained
  /\ q \in Seq(JobType) /\ Len(q) = Len(queue) /\ \A i \in 1..Len(queue) : SameJob(q[i], queue[i])
  /\ queue' = Append(q, Job("persist", gen', w))
  /\ w \in {Main, Logout} \/ (w = gen /\ flight[gen].pc = "answered" /\ flight'[gen].pc = "ending")
  /\ w = Main \/ mem' = None
  /\ call' \in [Calls -> CallType]
  /\ \A c \in Calls : \/ call'[c].token = None
                      \/ call'[c].token = call[c].token /\ call'[c].gen = call[c].gen
  /\ flight' \in [Gens -> FlightType]
  /\ \A g \in Gens :
       \/ /\ flight'[g] = NoFlight /\ flight[g].pc \in {"sent", "answered"}
          /\ flight[g].pair \in {None} \cup lost'
       \/ SameFlight(flight'[g], flight[g])
       \/ /\ g = gen /\ w = gen /\ flight[g].pc = "answered" /\ flight'[g].pc = "ending"
          /\ flight'[g].token = flight[g].token /\ flight[g].pair = None /\ flight'[g].pair = None
  /\ lost \subseteq lost' /\ lost' \subseteq Issued /\ revs \subseteq revs' /\ revs' \subseteq Issued
  /\ stray' \subseteq Issued
  /\ mem # None => mem \in revs' \/ flight[gen].pc = "answered"
  /\ screen' \in {screen, Loading} /\ screen'.status # "guest"

\* It is nobody's, or that of a pair that was just issued.
Ends ==
  /\ tok' = tok /\ mem' = None
  /\ \/ signedOut' = signedOut
     \/ mem # None /\ mem \in revs' /\ signedOut' = signedOut \cup {LoginOf(mem)}
Begins ==
  /\ Len(tok) < MaxTokens /\ mem' = Len(tok) + 1 /\ mem = None /\ signedOut' = signedOut
  /\ screen' = Loading
  /\ \E u \in Users : tok' = Append(tok, [user |-> u, login |-> Len(tok) + 1])

LEMMA NewTokens ==
  ASSUME TypeOK, Ends \/ Begins
  PROVE  /\ tok' \in Seq([user : Users, login : Tokens]) /\ Len(tok') <= MaxTokens
         /\ Issued \subseteq Issued' /\ \A t \in Issued : LoginOf(t)' = LoginOf(t) /\ tok'[t] = tok[t]
         /\ mem' \in Issued' \cup {None}
         /\ mem' # None => /\ Issued' = Issued \cup {mem'} /\ mem' \notin Issued
                           /\ LoginOf(mem)' = mem' /\ mem' = Len(tok) + 1 /\ Issued = 1..Len(tok)
                           /\ signedOut' = signedOut /\ mem = None /\ screen' = Loading
         /\ mem' = None => Issued' = Issued
<1>1. CASE Ends
  BY <1>1 DEF Ends, TypeOK, Issued, LoginOf
<1>2. CASE Begins
  <2>1. PICK u \in Users : tok' = Append(tok, [user |-> u, login |-> Len(tok) + 1])
    BY <1>2 DEF Begins
  <2>2. PICK r : r = [user |-> u, login |-> Len(tok) + 1]
    OBVIOUS
  <2>3. Len(tok) + 1 \in Tokens
    BY <1>2, IssuedPairs DEF Begins
  <2>4. r \in [user : Users, login : Tokens] /\ r.login = Len(tok) + 1
    BY ONLY <2>2, <2>3
  <2>5. tok' = Append(tok, r) /\ Len(tok) < MaxTokens /\ mem' = Len(tok) + 1
    BY <1>2, <2>1, <2>2 DEF Begins
  <2>6. /\ tok' \in Seq([user : Users, login : Tokens]) /\ Len(tok') <= MaxTokens
        /\ Issued' = Issued \cup {Len(tok) + 1} /\ Issued = 1..Len(tok)
        /\ Len(tok) + 1 \notin Issued /\ tok'[Len(tok) + 1] = r
        /\ \A t \in Issued : tok'[t] = tok[t]
        /\ \A t \in Issued : LoginOf(t)' = LoginOf(t)
    BY <2>4, <2>5, PairIssued
  <2>7. LoginOf(mem)' = Len(tok) + 1
    BY <2>4, <2>5, <2>6 DEF LoginOf
  <2>8. None \notin Tokens
    OBVIOUS
  <2> QED BY <1>2, <2>3, <2>5, <2>6, <2>7, <2>8 DEF Begins
<1> QED BY <1>1, <1>2

\* The queue of the next session: the old work, and the new behind it.
LEMMA NewQueue ==
  ASSUME TypeOK, QueueOK, NEW q, NEW w, Succession(q, w)
  PROVE  /\ queue' \in Seq(JobType) /\ Len(queue) \in Nat /\ DOMAIN queue = 1..Len(queue)
         /\ DOMAIN queue' = 1..(Len(queue) + 1)
         /\ queue'[Len(queue) + 1] = Job("persist", gen', w)
         /\ \A i \in DOMAIN queue :
              /\ queue[i] \in JobType /\ queue'[i] \in JobType /\ SameJob(queue'[i], queue[i])
              /\ queue[i].gen \in Nat /\ queue[i].gen <= gen /\ queue'[i].gen < gen'
         /\ gen \in Nat /\ gen' = gen + 1
<1>1. queue \in Seq(JobType) /\ gen \in Gens /\ gen' \in Gens /\ gen' = gen + 1
  BY DEF TypeOK, Succession
<1>2. Len(queue) \in Nat /\ DOMAIN queue = 1..Len(queue) /\ \A i \in 1..Len(queue) : queue[i] \in JobType
  BY ONLY <1>1
<1>3. PICK x : x = Job("persist", gen', w)
  OBVIOUS
<1>4. x \in JobType
  <2>1. w \in {Main, Logout} \cup Gens
    BY <1>1 DEF Succession
  <2> QED BY <1>1, <1>3, <2>1, JobTypes
<1>5. /\ q \in Seq(JobType) /\ Len(q) = Len(queue) /\ queue' = Append(q, x)
      /\ \A i \in 1..Len(queue) : SameJob(q[i], queue[i])
  BY <1>3 DEF Succession
<1>6. /\ queue' \in Seq(JobType) /\ DOMAIN queue' = 1..(Len(queue) + 1)
      /\ queue'[Len(queue) + 1] = x /\ \A i \in 1..Len(queue) : queue'[i] = q[i]
  BY ONLY <1>2, <1>4, <1>5, Behind
<1>7. ASSUME NEW i \in DOMAIN queue
      PROVE  /\ queue[i] \in JobType /\ queue'[i] \in JobType /\ SameJob(queue'[i], queue[i])
             /\ queue[i].gen \in Nat /\ queue[i].gen <= gen /\ queue'[i].gen < gen'
  <2>1. queue[i] \in JobType /\ SameJob(queue'[i], queue[i])
    BY <1>2, <1>5, <1>6
  <2>2. queue'[i] \in JobType
    <3>1. i \in 1..(Len(queue) + 1)
      BY <1>2
    <3> QED BY ONLY <1>6, <3>1
  <2>3. queue[i].gen <= gen
    BY DEF QueueOK
  <2>4. queue[i].gen \in Gens /\ queue'[i].gen = queue[i].gen
    BY <2>1 DEF JobType, SameJob
  <2> QED BY <1>1, <2>1, <2>2, <2>3, <2>4
<1> QED BY <1>1, <1>2, <1>3, <1>6, <1>7

LEMMA NewQueueOK ==
  ASSUME TypeOK, QueueOK, Jobs, NEW q, NEW w, Succession(q, w)
  PROVE  QueueOK'
<1>1. w \in Gens => \A i \in DOMAIN queue : queue[i].who # w
  <2> SUFFICES ASSUME w \in Gens, NEW i \in DOMAIN queue, queue[i].who = w PROVE FALSE
    OBVIOUS
  <2>1. flight[w].pc = "answered"
    BY DEF Succession, Bounded
  <2>2. PICK j : j = queue[i]
    OBVIOUS
  <2>3. j.kind = Serves("answered") /\ j \in JobType
    BY <2>1, <2>2, NewQueue DEF Jobs, JobOK
  <2> QED BY ONLY <2>3 DEF Serves, JobType
<1>2. PICK x : x = Job("persist", gen', w)
  OBVIOUS
<1>3. x.kind = "persist" /\ x.gen = gen' /\ x.who = w
  BY <1>2 DEF Job
<1>4. PICK n : n = Len(queue)
  OBVIOUS
<1>5. /\ n \in Nat /\ DOMAIN queue = 1..n /\ DOMAIN queue' = 1..(n + 1) /\ queue'[n + 1] = x
      /\ \A i \in DOMAIN queue : /\ SameJob(queue'[i], queue[i]) /\ queue[i].gen \in Nat
                                 /\ queue'[i].gen < gen'
      /\ gen' \in Nat
  BY <1>2, <1>4, NewQueue
<1> SUFFICES ASSUME NEW i \in DOMAIN queue'
             PROVE  /\ queue'[i].gen <= gen'
                    /\ queue'[i].kind = "persist" => \A k \in 1..(i - 1) : queue'[k].gen < queue'[i].gen
                    /\ \A k \in 1..i : queue'[k].gen <= queue'[i].gen
                    /\ \A k \in DOMAIN queue' :
                         queue'[i].who \in Gens /\ queue'[k].who = queue'[i].who => k = i
  BY DEF QueueOK
<1>6. CASE i \in DOMAIN queue
  <2>1. \A k \in 1..i : k \in DOMAIN queue /\ queue'[k].gen = queue[k].gen
    BY <1>5, <1>6 DEF SameJob
  <2>2. /\ queue'[i].kind = "persist" => \A k \in 1..(i - 1) : queue'[k].gen < queue'[i].gen
        /\ \A k \in 1..i : queue'[k].gen <= queue'[i].gen
    <3>1. /\ queue[i].kind = "persist" => \A k \in 1..(i - 1) : queue[k].gen < queue[i].gen
          /\ \A k \in 1..i : queue[k].gen <= queue[i].gen
      BY <1>6 DEF QueueOK
    <3>2. queue'[i].gen = queue[i].gen /\ queue'[i].kind = queue[i].kind
      BY <1>5, <1>6 DEF SameJob
    <3>3. \A k \in 1..(i - 1) : k \in 1..i
      BY <1>5, <1>6
    <3> QED BY ONLY <2>1, <3>1, <3>2, <3>3
  <2>3. queue'[i].gen <= gen'
    BY <1>5, <1>6, <2>1
  <2>4. ASSUME NEW k \in DOMAIN queue', queue'[i].who \in Gens, queue'[k].who = queue'[i].who
        PROVE  k = i
    <3>1. queue[i].who = queue'[i].who
      BY <1>5, <1>6, <2>4 DEF SameJob
    <3>2. k \in DOMAIN queue
      BY <1>1, <1>3, <1>5, <1>6, <2>4, <3>1
    <3>3. queue[k].who = queue'[k].who
      BY <1>5, <2>4, <3>2 DEF SameJob
    <3> QED BY <1>6, <2>4, <3>1, <3>2, <3>3 DEF QueueOK
  <2> QED BY <2>2, <2>3, <2>4
<1>7. CASE i = n + 1
  <2>1. \A k \in 1..(i - 1) : queue'[k].gen < gen' /\ queue'[k].gen \in Nat
    BY <1>5, <1>7 DEF SameJob
  <2>2. \A k \in 1..i : queue'[k].gen <= gen'
    <3> TAKE k \in 1..i
    <3>1. k \in 1..(i - 1) \/ k = i
      BY <1>5, <1>7
    <3> QED BY <1>3, <1>5, <1>7, <2>1, <3>1
  <2>3. ASSUME NEW k \in DOMAIN queue', queue'[i].who \in Gens, queue'[k].who = queue'[i].who
        PROVE  k = i
    <3>1. k \in DOMAIN queue \/ k = i
      BY <1>5, <1>7
    <3> QED BY <1>1, <1>3, <1>5, <1>7, <2>3, <3>1 DEF SameJob
  <2> QED BY <1>3, <1>5, <1>7, <2>1, <2>2, <2>3
<1> QED BY <1>5, <1>6, <1>7

LEMMA NewJobs ==
  ASSUME TypeOK, QueueOK, Jobs, NEW q, NEW w, Succession(q, w)
  PROVE  Jobs'
<1> SUFFICES ASSUME NEW i \in DOMAIN queue' PROVE JobOK(queue[i])'
  BY DEF Jobs
<1>1. CASE i \in DOMAIN queue
  <2>1. PICK j : j = queue'[i]
    OBVIOUS
  <2>2. PICK k : k = queue[i]
    OBVIOUS
  <2>3. JobOK(k) /\ SameJob(j, k) /\ k \in JobType /\ j \in JobType /\ j.gen # gen'
    BY <1>1, <2>1, <2>2, NewQueue DEF Jobs
  <2>4. ASSUME j.who \in Gens
        PROVE  flight'[j.who].pc = flight[j.who].pc
    <3>1. k.who = j.who
      BY <2>3, <2>4 DEF SameJob
    <3>2. flight[j.who].pc \in {"snapshot", "update", "ending"}
      BY <2>3, <2>4, <3>1 DEF JobOK, Serves, JobType
    <3> QED BY <2>4, <3>2 DEF Succession, SameFlight
  <2>5. JobOK(j)'
    <3>1. CASE j.who = None
      BY <2>3, <3>1 DEF JobOK, SameJob
    <3>2. CASE j.who = k.who
      BY <2>3, <2>4, <3>2 DEF JobOK, SameJob
    <3> QED BY <2>3, <3>1, <3>2 DEF SameJob
  <2> QED BY <2>1, <2>5
<1>2. CASE i = Len(queue) + 1
  <2>1. PICK j : j = queue'[i]
    OBVIOUS
  <2>2. j.kind = "persist" /\ j.gen = gen' /\ j.who = w
    <3>1. queue'[Len(queue) + 1] = Job("persist", gen', w)
      BY NewQueue
    <3> QED BY ONLY <1>2, <2>1, <3>1 DEF Job
  <2>3. w \in Gens \cup {Logout} => mem' = None
    BY DEF Succession, Bounded
  <2>4. w \in Gens => flight'[w].pc = "ending"
    BY DEF Succession, Bounded
  <2>5. JobOK(j)'
    BY <2>2, <2>3, <2>4 DEF JobOK, Serves
  <2> QED BY <2>1, <2>5
<1> QED BY <1>1, <1>2, NewQueue

LEMMA NewCalls ==
  ASSUME TypeOK, CallsOK, NEW q, NEW w, Succession(q, w), Ends \/ Begins
  PROVE  CallsOK'
<1>1. Issued \subseteq Issued' /\ gen \in Nat /\ gen' = gen + 1
  BY NewTokens DEF Succession, TypeOK
<1> SUFFICES ASSUME NEW c \in Calls, call'[c].token # None
             PROVE  call'[c].gen <= gen' /\ call'[c].gen # gen' /\ call'[c].token \in Issued'
  BY DEF CallsOK
<1>2. call'[c].token = call[c].token /\ call'[c].gen = call[c].gen
  BY DEF Succession
<1>3. call[c].gen <= gen /\ call[c].token \in Issued
  BY <1>2 DEF CallsOK
<1>4. call[c].gen \in Nat
  <2>1. PICK k : k = call[c]
    OBVIOUS
  <2>2. k \in CallType
    BY <2>1 DEF TypeOK
  <2>3. k.gen \in Gens
    BY ONLY <2>2 DEF CallType
  <2> QED BY <2>1, <2>3
<1> QED BY <1>1, <1>2, <1>3, <1>4

LEMMA NewScreen ==
  ASSUME ScreenIsTrue, LoginsOK, QueueOK, NEW q, NEW w, Succession(q, w), Ends \/ Begins
  PROVE  ScreenIsTrue'
<1>1. TypeOK
  BY DEF ScreenIsTrue
<1>2. /\ tok' \in Seq([user : Users, login : Tokens]) /\ Len(tok') <= MaxTokens
      /\ Issued \subseteq Issued' /\ mem' \in Issued' \cup {None}
  BY <1>1, NewTokens
<1>3. signedOut' \subseteq Issued'
  <2>1. \A t \in Issued : LoginOf(t) \in Issued
    BY <1>1, IssuedPairs DEF LoginsOK
  <2>2. mem \in Issued \cup {None} /\ signedOut \subseteq Issued
    BY <1>1 DEF TypeOK
  <2> QED BY <1>2, <2>1, <2>2 DEF Ends, Begins
<1>4. queue' \in Seq(JobType)
  BY <1>1, NewQueue
<1>5. /\ account' = account /\ revoked' = revoked /\ disk' = disk /\ writing' = writing
      /\ superseded' = superseded /\ faults' = faults /\ loaded' = TRUE /\ dirty' = TRUE
      /\ gen' \in Gens /\ call' \in [Calls -> CallType] /\ flight' \in [Gens -> FlightType]
      /\ lost' \subseteq Issued /\ revs' \subseteq Issued /\ stray' \subseteq Issued
      /\ screen' \in {screen, Loading} /\ screen'.status # "guest"
  BY DEF Succession
<1>6. TypeOK'
  <2>1. /\ account \in [Users -> {"ACTIVE", "SUSPENDED"}]
        /\ revoked \subseteq Issued /\ superseded \subseteq Issued
        /\ disk \in Issued \cup {None} /\ writing \subseteq Issued \cup {None}
        /\ screen \in {Loading, Guest, Unavailable} \cup {Authed(u) : u \in Users}
        /\ faults \in Nat
    BY <1>1 DEF TypeOK
  <2>2. /\ account' \in [Users -> {"ACTIVE", "SUSPENDED"}] /\ faults' \in Nat
        /\ gen' \in Gens /\ loaded' \in BOOLEAN /\ dirty' \in BOOLEAN
    BY ONLY <1>5, <2>1
  <2>3. screen' \in {Loading, Guest, Unavailable} \cup {Authed(u) : u \in Users}
    BY ONLY <1>5, <2>1
  <2>4. writing' \subseteq Issued' \cup {None} /\ disk' \in Issued' \cup {None}
    BY <1>2, <1>3, <1>4, <1>5, <2>1
  <2> QED BY <1>2, <1>3, <1>4, <1>5, <2>1, <2>2, <2>3, <2>4 DEF TypeOK
<1>7. mem' # None => screen' = Loading
  BY <1>1, NewTokens
<1> QED BY <1>5, <1>6, <1>7 DEF ScreenIsTrue, Loading

LEMMA NewLogins ==
  ASSUME TypeOK, LoginsOK, NEW q, NEW w, Succession(q, w), Ends \/ Begins
  PROVE  LoginsOK'
<1>1. revoked' = revoked
  BY DEF Succession
<1>2. CASE mem' = None
  <2>1. tok' = tok
    <3>1. Begins => mem' = Len(tok) + 1 /\ Len(tok) < MaxTokens
      BY DEF Begins
    <3>2. Len(tok) \in Nat /\ MaxTokens \in Nat
      BY IssuedPairs, SessionsAssumption
    <3>3. Begins => mem' \in Tokens
      BY ONLY <3>1, <3>2 DEF Tokens
    <3>4. ~ Begins
      BY <1>2, <3>3, SessionsAssumption
    <3> QED BY <3>4 DEF Ends
  <2> QED BY <1>1, <2>1 DEF LoginsOK, LoginOf, OneSuccessor, Live, Issued
<1>3. CASE mem' # None
  <2>1. /\ \A t \in Issued : LoginOf(t)' = LoginOf(t) /\ tok'[t] = tok[t] /\ LoginOf(t) \in 1..t
        /\ Issued' = Issued \cup {mem'} /\ mem' \notin Issued
        /\ LoginOf(mem)' = mem' /\ mem' = Len(tok) + 1 /\ Issued = 1..Len(tok) /\ Len(tok) \in Nat
    BY <1>3, NewTokens, IssuedPairs DEF LoginsOK
  <2>2. PICK n : n = mem'
    OBVIOUS
  <2>3. LoginOf(n)' = n /\ n \in Nat /\ n >= 1 /\ \A t \in Issued : t < n /\ t \in Nat
    BY <2>1, <2>2 DEF LoginOf
  <2>4. \A t \in Issued : LoginOf(t)' = LoginOf(t) /\ LoginOf(t)' # n /\ LoginOf(t)' \in 1..t
    BY <2>1, <2>3
  <2>5. \A t, s \in Issued' : LoginOf(t)' = LoginOf(s)' => tok'[t].user = tok'[s].user
    <3>1. \A t, s \in Issued : LoginOf(t) = LoginOf(s) => tok[t].user = tok[s].user
      BY DEF LoginsOK
    <3> QED BY <2>1, <2>2, <2>3, <2>4, <3>1
  <2>6. \A t \in Issued' : LoginOf(t)' \in 1..t
    BY <2>1, <2>2, <2>3, <2>4
  <2>7. OneSuccessor'
    <3>1. Live' \subseteq Live \cup {n}
      BY <1>1, <2>1, <2>2 DEF Live, Issued
    <3>2. \A t, s \in Live : LoginOf(t) = LoginOf(s) => t = s
      BY DEF LoginsOK, OneSuccessor, LoginOf
    <3>3. Live \subseteq Issued
      BY DEF Live, Issued
    <3>4. \A t, s \in Live' : LoginOf(t)' = LoginOf(s)' => t = s
      BY <2>1, <2>3, <2>4, <3>1, <3>2, <3>3
    <3> QED BY <3>4 DEF OneSuccessor, LoginOf
  <2> QED BY <2>5, <2>6, <2>7 DEF LoginsOK
<1> QED BY <1>2, <1>3

LEMMA NewStore ==
  ASSUME TypeOK, QueueOK, StoreOK, NEW q, NEW w, Succession(q, w)
  PROVE  StoreOK'
<1>1. writing' = writing /\ dirty' = TRUE /\ loaded' = TRUE /\ screen'.status # "guest"
  BY DEF Succession
<1>2. ASSUME writing # {} PROVE queue' # <<>> /\ Next1'.gen # gen'
  <2>1. queue # <<>> /\ queue \in Seq(JobType)
    BY <1>2 DEF StoreOK, TypeOK
  <2>2. 1 \in DOMAIN queue
    BY ONLY <2>1
  <2>3. queue' \in Seq(JobType) /\ queue'[1].gen < gen' /\ queue'[1].gen = queue[1].gen
        /\ queue[1].gen \in Nat /\ gen' \in Nat /\ Len(queue) \in Nat /\ DOMAIN queue' = 1..(Len(queue) + 1)
    BY <2>2, NewQueue DEF SameJob
  <2>4. queue' # <<>> /\ Next1' = queue'[1]
    <3>1. queue' # <<>>
      BY ONLY <2>3
    <3> QED BY ONLY <2>3, <3>1 DEF Next1
  <2> QED BY <2>3, <2>4
<1>3. /\ writing' # {} => queue' # <<>> /\ dirty' /\ loaded' /\ Next1'.gen # gen'
      /\ loaded' /\ screen'.status # "guest"
  BY <1>1, <1>2
<1> QED
  <2> HIDE DEF Next1
  <2> QED BY ONLY <1>3 DEF StoreOK

\* A refresh that goes on belongs to a session that is over; if its pair is in memory,
\* it will be revoked.
LEMMA NewFlights ==
  ASSUME TypeOK, QueueOK, Flights, NEW q, NEW w, Succession(q, w), Ends \/ Begins
  PROVE  Flights'
<1>1. /\ Issued \subseteq Issued' /\ \A t \in Issued : LoginOf(t)' = LoginOf(t)
      /\ revoked' = revoked /\ superseded' = superseded /\ writing' = writing
      /\ gen \in Nat /\ gen' = gen + 1 /\ lost \subseteq lost' /\ revs \subseteq revs'
  <2>1. Issued \subseteq Issued' /\ \A t \in Issued : LoginOf(t)' = LoginOf(t)
    BY NewTokens
  <2>2. gen \in Nat
    BY DEF TypeOK
  <2> QED BY <2>1, <2>2 DEF Succession
<1>7. None \notin Issued'
  BY NewTokens, IssuedPairs
<1> SUFFICES ASSUME NEW g \in Gens PROVE FlightOK(g)'
  BY DEF Flights
<1>2. PICK e : e = flight'[g]
  OBVIOUS
<1>3. PICK f : f = flight[g]
  OBVIOUS
<1>4. CASE e = NoFlight
  BY <1>2, <1>4 DEF FlightOK, NoFlight
<1>5. CASE /\ f.pc = "answered" /\ e.pc = "ending" /\ e.token = f.token /\ e.pair = None
           /\ g = gen
  <2>1. f.token \in Issued
    BY <1>3, <1>5 DEF Flights, FlightOK
  <2>2. e.token \in Issued' /\ g <= gen' /\ g # gen'
    BY <1>1, <1>5, <2>1
  <2> QED BY <1>2, <1>5, <2>2 DEF FlightOK
<1>6. CASE e.pc = f.pc /\ e.token = f.token /\ e.pair = f.pair /\ (f.pc = "none" => e = f)
  <2>1. CASE f.pc = "none"
    BY <1>2, <1>3, <1>6, <2>1 DEF Flights, FlightOK
  <2>2. CASE f.pc # "none"
    <3>1. /\ g <= gen /\ f.token \in Issued
          /\ f.pair # None <=> f.pc \in {"answered", "update"} /\ f.pair \in Issued
          /\ f.pair # None => /\ LoginOf(f.pair) = LoginOf(f.token) /\ f.token < f.pair
                              /\ f.token \in revoked /\ f.pair \notin superseded
          /\ f.pc = "update" =>
                  /\ f.pair # None /\ queue # <<>> /\ Next1 = Job("update", g, g)
                  /\ writing # {} => IF g = gen THEN mem = f.pair
                                     ELSE f.pair \in revs \cup lost \cup revoked
      BY <1>3, <2>2 DEF Flights, FlightOK
    <3>2. g <= gen' /\ g # gen' /\ e.token \in Issued'
      BY <1>1, <1>6, <3>1
    <3>3. e.pair # None <=> e.pc \in {"answered", "update"} /\ e.pair \in Issued'
      BY <1>1, <1>6, <1>7, <3>1
    <3>4. e.pair # None => /\ LoginOf(e.pair)' = LoginOf(e.token)' /\ e.token < e.pair
                           /\ e.token \in revoked' /\ e.pair \notin superseded'
      BY <1>1, <1>6, <3>1
    <3>5. ASSUME e.pc = "update"
          PROVE  /\ e.pair # None /\ queue' # <<>> /\ Next1' = Job("update", g, g)
                 /\ writing' # {} /\ e.pair \in revs' \cup lost' \cup revoked'
      <4>1. f.pc = "update" /\ queue # <<>> /\ queue \in Seq(JobType) /\ Next1 = Job("update", g, g)
        BY <1>6, <3>1, <3>5 DEF TypeOK
      <4>2. writing # {}
        BY <4>1 DEF Succession, Drained
      <4>3. 1 \in DOMAIN queue /\ Next1 = queue[1]
        BY ONLY <4>1 DEF Next1
      <4>4. /\ queue' \in Seq(JobType) /\ queue'[1] \in JobType /\ SameJob(queue'[1], queue[1])
            /\ Len(queue) \in Nat /\ DOMAIN queue' = 1..(Len(queue) + 1)
        BY <4>3, NewQueue
      <4>5. queue' # <<>> /\ Next1' = queue'[1]
        <5>1. queue' # <<>>
          BY ONLY <4>4
        <5> QED BY ONLY <4>4, <5>1 DEF Next1
      <4>6. Next1' = Job("update", g, g)
        BY <4>1, <4>3, <4>4, <4>5 DEF SameJob, Job, JobType
      <4>7. mem = f.pair => f.pair \in revs'
        <5> SUFFICES ASSUME mem = f.pair, flight[gen].pc = "answered", mem # None PROVE FALSE
          BY <3>1, <4>1 DEF Succession
        <5>1. FlightOK(gen) /\ gen \in Gens
          BY DEF Flights, TypeOK
        <5> QED BY <4>2, <5>1 DEF FlightOK
      <4>8. g = gen \/ f.pair \in revs \cup lost \cup revoked
        BY <3>1, <4>1, <4>2
      <4> QED BY <1>1, <1>6, <3>1, <4>1, <4>2, <4>5, <4>6, <4>7, <4>8
    <3> HIDE DEF Next1
    <3> QED BY <1>2, <1>6, <2>2, <3>2, <3>3, <3>4, <3>5 DEF FlightOK
  <2> QED BY <2>1, <2>2
<1> QED BY <1>2, <1>3, <1>4, <1>5, <1>6 DEF Succession, SameFlight

LEMMA NewApart ==
  ASSUME TypeOK, LoginsOK, Flights, Apart, NotReused,
         NEW q, NEW w, Succession(q, w), Ends \/ Begins
  PROVE  Apart' /\ NotReused' /\ SupersededOK'
<1>1. \A t \in Issued : LoginOf(t)' = LoginOf(t)
  BY NewTokens
<1>2. \A g \in Gens : flight'[g].pc # "none" =>
        /\ flight[g].pc # "none" /\ flight'[g].token = flight[g].token /\ flight[g].token \in Issued
        /\ flight'[g].pc = "sent" => flight[g].pc = "sent"
  <2> SUFFICES ASSUME NEW g \in Gens, flight'[g].pc # "none"
               PROVE  /\ flight[g].pc # "none" /\ flight'[g].token = flight[g].token
                      /\ flight[g].token \in Issued
                      /\ flight'[g].pc = "sent" => flight[g].pc = "sent"
    OBVIOUS
  <2>1. /\ flight[g].pc # "none" /\ flight'[g].token = flight[g].token
        /\ flight'[g].pc = "sent" => flight[g].pc = "sent"
    BY DEF Succession, SameFlight, NoFlight
  <2> QED BY <2>1 DEF Flights, FlightOK
<1>3. \A g \in Gens : flight'[g].pc # "none" => ~ Current(flight[g].token)'
  <2> SUFFICES ASSUME NEW g \in Gens, flight'[g].pc # "none", Current(flight[g].token)' PROVE FALSE
    OBVIOUS
  <2>1. PICK t \in Issued : t = flight'[g].token
    BY <1>2
  <2>2. mem' # None /\ LoginOf(t)' = LoginOf(mem)'
    BY <2>1 DEF Current, LoginOf
  <2>3. LoginOf(mem)' = mem' /\ mem' = Len(tok) + 1 /\ Issued = 1..Len(tok) /\ Len(tok) \in Nat
    BY <2>2, NewTokens, IssuedPairs
  <2>4. LoginOf(t)' \in 1..t
    BY <1>1, <2>1 DEF LoginsOK
  <2> QED BY ONLY <2>1, <2>2, <2>3, <2>4
<1>4. Apart'
  <2>1. \A g, h \in Gens : flight'[g].pc # "none" /\ flight'[h].pc # "none" /\ g # h =>
          LoginOf(flight[g].token)' # LoginOf(flight[h].token)'
    <3> SUFFICES ASSUME NEW g \in Gens, NEW h \in Gens, flight'[g].pc # "none",
                        flight'[h].pc # "none", g # h
                 PROVE  LoginOf(flight[g].token)' # LoginOf(flight[h].token)'
      OBVIOUS
    <3>1. PICK t \in Issued : t = flight[g].token /\ t = flight'[g].token
      BY <1>2
    <3>2. PICK s \in Issued : s = flight[h].token /\ s = flight'[h].token
      BY <1>2
    <3>3. LoginOf(t) # LoginOf(s)
      BY <1>2, <3>1, <3>2 DEF Apart
    <3>4. LoginOf(t)' # LoginOf(s)'
      BY <1>1, <3>3
    <3> QED BY <3>1, <3>2, <3>4 DEF LoginOf
  <2> QED BY <1>3, <2>1 DEF Apart
<1>5. superseded' = superseded
  BY DEF Succession
<1>6. NotReused'
  BY <1>2, <1>5 DEF NotReused
<1>7. mem' \notin superseded'
  <2>1. superseded \subseteq Issued
    BY DEF TypeOK
  <2> QED BY <1>5, <2>1, NewTokens, IssuedPairs
<1> QED BY <1>4, <1>6, <1>7 DEF SupersededOK

\* The pair that was in memory is revoked, or it is the one the keychain keeps until the
\* queue has come to the end of the session.
LEMMA NewHoldings ==
  ASSUME TypeOK, ScreenIsTrue, LoginsOK, StoreOK, Flights, HoldingsOK,
         NEW q, NEW w, Succession(q, w), Ends \/ Begins
  PROVE  HoldingsOK'
<1>1. /\ Issued \subseteq Issued' /\ \A t \in Issued : LoginOf(t)' = LoginOf(t)
      /\ revoked' = revoked /\ disk' = disk /\ writing' = writing /\ loaded' = TRUE
      /\ lost \subseteq lost' /\ revs \subseteq revs' /\ gen \in Nat /\ gen' = gen + 1
      /\ None \notin Issued
  BY NewTokens, IssuedPairs DEF Succession, TypeOK
<1>2. \A t \in Live' : t \in Live \/ t = mem'
  BY <1>1, NewTokens DEF Live, Issued
<1>3. \A t \in Live : t \in Issued
  BY DEF Live, Issued
\* What was accounted for still is.
<1>4. ASSUME NEW t \in Live, NEW g \in Gens, flight[g].pair = t
      PROVE  t \in lost' \/ flight'[g].pair = t
  <2>1. t # None
    BY <1>1, <1>3
  <2> QED BY <1>4, <2>1 DEF Succession, SameFlight
<1>5. \A t \in Live : t \in Accounted => t \in Accounted'
  BY <1>1, <1>4 DEF Accounted
<1>6. \A g \in Gens : flight[g].pair # None => g # gen'
  BY <1>1 DEF Flights, FlightOK, NoFlight
\* The new pair is of a login of its own.
<1>7. ASSUME NEW t \in Issued PROVE mem' # None => LoginOf(t)' # mem'
  <2>1. mem' # None => mem' = Len(tok) + 1 /\ Issued = 1..Len(tok) /\ Len(tok) \in Nat
    BY NewTokens, IssuedPairs
  <2>2. LoginOf(t)' \in 1..t
    BY <1>1 DEF LoginsOK
  <2> QED BY <2>1, <2>2
<1>8. \A t \in Live' : Current(t)' => t = mem'
  <2> SUFFICES ASSUME NEW t \in Live, Current(t)' PROVE FALSE
    BY <1>2
  <2>1. mem' # None /\ LoginOf(t)' = LoginOf(mem)'
    BY DEF Current, LoginOf
  <2>2. LoginOf(mem)' = mem'
    BY <2>1, NewTokens
  <2> QED BY <1>3, <1>7, <2>1, <2>2
<1>9. \A x \in ({disk'} \cup writing') \ {None} : \A t \in Live' :
        LoginOf(t)' = LoginOf(x)' => t \in {x, mem'} \cup Accounted'
  <2> SUFFICES ASSUME NEW x \in ({disk} \cup writing) \ {None}, NEW t \in Live, LoginOf(t)' = LoginOf(x)'
               PROVE  t \in {x} \cup Accounted'
    BY <1>1, <1>2
  <2>1. x \in Issued /\ t \in Issued
    BY <1>3 DEF TypeOK
  <2>2. LoginOf(t) = LoginOf(x)
    BY <1>1, <2>1
  <2>3. t \in {x, mem} \cup Accounted
    BY <2>2 DEF HoldingsOK
  <2>4. ASSUME t = mem, mem \notin revs' PROVE t = x
    <3>1. mem # None /\ flight[gen].pc = "answered" /\ gen \in Gens
      BY <1>1, <2>1, <2>4 DEF Succession, TypeOK
    <3>2. writing = {} /\ ~ dirty
      BY <3>1 DEF Flights, FlightOK
    <3>3. loaded
      BY <3>1 DEF StoreOK
    <3> QED BY <2>4, <3>2, <3>3 DEF ScreenIsTrue, TypeOK
  <2>5. mem \in revs' => mem \in Accounted'
    BY DEF Accounted
  <2> QED BY <1>5, <2>3, <2>4, <2>5
<1>10. mem' # None => LoginOf(mem)' \notin signedOut'
  <2>1. signedOut \subseteq Issued
    BY DEF TypeOK
  <2>2. mem' # None => LoginOf(mem)' = mem' /\ mem' \notin Issued /\ signedOut' = signedOut
    BY NewTokens
  <2> QED BY <2>1, <2>2
<1>11. ASSUME NEW t \in Live', LoginOf(t)' \in signedOut'
       PROVE  t \in lost' \cup revs' \/ \E g \in Gens : flight'[g].pair = t /\ g # gen'
  <2>1. t \in Live
    <3> SUFFICES ASSUME t = mem', t \notin Issued PROVE FALSE
      BY <1>1, <1>2 DEF Live, Issued
    <3>1. mem' # None
      <4>1. t \in Issued'
        BY DEF Live, Issued
      <4> QED BY <4>1, NewTokens, IssuedPairs
    <3>2. LoginOf(t)' = LoginOf(mem)'
      BY DEF LoginOf
    <3> QED BY <1>10, <1>11, <3>1, <3>2
  <2>2. t \in Issued /\ LoginOf(t)' = LoginOf(t) /\ t # None
    BY <1>1, <1>3, <2>1
  <2>3. \/ LoginOf(t) \in signedOut
        \/ mem # None /\ mem \in revs' /\ LoginOf(t) = LoginOf(mem)
    BY <1>11, <2>2, NewTokens DEF Ends, Begins
  <2>4. \/ t \in lost \cup revs \/ \E g \in Gens : flight[g].pair = t
        \/ t = mem /\ mem \in revs'
    <3>1. CASE LoginOf(t) \in signedOut
      BY <2>1, <3>1 DEF HoldingsOK
    <3>2. CASE mem # None /\ mem \in revs' /\ LoginOf(t) = LoginOf(mem)
      <4>1. Current(t)
        BY <2>2, <3>2 DEF Current
      <4>2. LoginOf(t) \notin signedOut
        BY <3>2 DEF HoldingsOK
      <4> QED BY <2>1, <3>2, <4>1, <4>2 DEF HoldingsOK, Accounted
    <3> QED BY <2>3, <3>1, <3>2
  <2> QED BY <1>1, <1>4, <1>6, <2>1, <2>2, <2>4
<1> QED BY <1>1, <1>8, <1>9, <1>10, <1>11 DEF HoldingsOK

LEMMA SuccessionKeeps ==
  ASSUME Inductive, NEW q, NEW w, Succession(q, w), Ends \/ Begins
  PROVE  Inductive'
<1>1. /\ ScreenIsTrue /\ TypeOK /\ NotReused /\ LoginsOK /\ QueueOK /\ StoreOK /\ CallsOK /\ Apart
      /\ SupersededOK /\ HoldingsOK /\ Jobs /\ Flights
  BY Parts
<1>2. ScreenIsTrue' /\ LoginsOK' /\ QueueOK' /\ Jobs'
  BY <1>1, NewScreen, NewLogins, NewQueueOK, NewJobs
<1>3. StoreOK' /\ CallsOK' /\ Flights'
  BY <1>1, NewStore, NewCalls, NewFlights
<1>4. Apart' /\ NotReused' /\ SupersededOK' /\ HoldingsOK'
  BY <1>1, NewApart, NewHoldings
<1> QED BY <1>2, <1>3, <1>4 DEF Inductive, Jobs, Flights

\* What superseding the operations of a session does to its calls and refreshes.
LEMMA Superseded ==
  ASSUME TypeOK, Flights, Abort(Cancelled)
  PROVE  /\ QueueWithout(Cancelled) \in Seq(JobType) /\ Len(QueueWithout(Cancelled)) = Len(queue)
         /\ \A i \in 1..Len(queue) : SameJob(QueueWithout(Cancelled)[i], queue[i])
         /\ CallsWithout(Cancelled) \in [Calls -> CallType]
         /\ \A c \in Calls : CallsWithout(Cancelled)[c] \in {Idle, call[c]}
         /\ flight' \in [Gens -> FlightType]
         /\ \A g \in Gens :
              \/ /\ flight'[g] = NoFlight /\ flight[g].pc \in {"sent", "answered"}
                 /\ flight[g].pair \in {None} \cup lost'
              \/ SameFlight(flight'[g], flight[g])
         /\ lost \subseteq lost' /\ lost' \subseteq Issued /\ stray' \subseteq Issued
<1>1. Cancelled \cap Gens = {}
  BY DEF Cancelled, Bounded
<1> QED BY <1>1, WithoutKept, CallsWithoutKept, AbortKept

LEMMA SignOutKeeps ==
  ASSUME Inductive, SignOut
  PROVE  Inductive'
<1>1. TypeOK /\ Flights /\ HoldingsOK /\ StoreOK
  BY Parts
<1>2. Abort(Cancelled)
  BY DEF SignOut
<1>3. Ends
  <2>1. signedOut' = signedOut \/ (mem # None /\ signedOut' = signedOut \cup {LoginOf(mem)})
    BY DEF SignOut, LoginOf
  <2>2. mem # None => mem \in revs'
    BY DEF SignOut
  <2> QED BY <2>1, <2>2 DEF Ends, SignOut, server
<1>4. revs \subseteq revs' /\ revs' \subseteq Issued
  BY <1>1 DEF SignOut, TypeOK
<1>5. PICK q : q = QueueWithout(Cancelled)
  OBVIOUS
<1>6. Succession(q, Logout)
  <2>1. /\ q \in Seq(JobType) /\ Len(q) = Len(queue)
        /\ \A i \in 1..Len(queue) : SameJob(q[i], queue[i])
    BY <1>1, <1>2, <1>5, Superseded
  <2>2. /\ call' \in [Calls -> CallType]
        /\ \A c \in Calls : \/ call'[c].token = None
                            \/ call'[c].token = call[c].token /\ call'[c].gen = call[c].gen
    BY <1>1, <1>2, Superseded, Idles DEF SignOut
  <2>3. /\ flight' \in [Gens -> FlightType]
        /\ \A g \in Gens :
             \/ /\ flight'[g] = NoFlight /\ flight[g].pc \in {"sent", "answered"}
                /\ flight[g].pair \in {None} \cup lost'
             \/ SameFlight(flight'[g], flight[g])
        /\ lost \subseteq lost' /\ lost' \subseteq Issued /\ stray' \subseteq Issued
    BY <1>1, <1>2, Superseded
  <2>4. /\ gen' = gen + 1 /\ gen' \in Gens /\ loaded' = TRUE /\ dirty' = TRUE /\ Drained
        /\ UNCHANGED <<account, revoked, disk, writing, superseded, faults>>
        /\ queue' = Append(q, Job("persist", gen', Logout)) /\ mem' = None
        /\ mem # None => mem \in revs'
        /\ screen' = Loading
    BY <1>5 DEF SignOut, server
  <2>5. screen'.status # "guest"
    BY <2>4 DEF Loading
  <2> QED BY ONLY <1>4, <2>1, <2>2, <2>3, <2>4, <2>5 DEF Succession
<1> QED BY <1>3, <1>6, SuccessionKeeps

LEMMA LoginKeeps ==
  ASSUME Inductive, NEW u \in Users, Login(u)
  PROVE  Inductive'
<1>1. TypeOK /\ Flights /\ ScreenIsTrue
  BY Parts
<1>2. Abort(Cancelled) /\ screen.status = "guest"
  BY DEF Login
<1>3. mem = None
  BY <1>1, <1>2 DEF ScreenIsTrue
<1>4. Begins
  BY <1>3 DEF Begins, Login
<1>5. PICK q : q = QueueWithout(Cancelled)
  OBVIOUS
<1>6. Succession(q, Main)
  <2>1. /\ q \in Seq(JobType) /\ Len(q) = Len(queue)
        /\ \A i \in 1..Len(queue) : SameJob(q[i], queue[i])
    BY <1>1, <1>2, <1>5, Superseded
  <2>2. PICK n : n = [pc |-> "saving", gen |-> gen', token |-> None]
    OBVIOUS
  <2>3. gen' \in Gens /\ gen' = gen + 1
    BY DEF Login
  <2>4. n \in CallType /\ n.token = None
    BY <2>2, <2>3 DEF CallType
  <2>5. PICK v : v = CallsWithout(Cancelled)
    OBVIOUS
  <2>6. v \in [Calls -> CallType] /\ \A c \in Calls : v[c] \in {Idle, call[c]}
    BY <1>1, <1>2, <2>5, Superseded
  <2>7. call' = [v EXCEPT ![Main] = n]
    BY <2>2, <2>5 DEF Login
  <2>8. /\ call' \in [Calls -> CallType]
        /\ \A c \in Calls : \/ call'[c].token = None
                            \/ call'[c].token = call[c].token /\ call'[c].gen = call[c].gen
    BY <2>4, <2>6, <2>7, Idles
  <2>9. /\ flight' \in [Gens -> FlightType]
        /\ \A g \in Gens :
             \/ /\ flight'[g] = NoFlight /\ flight[g].pc \in {"sent", "answered"}
                /\ flight[g].pair \in {None} \cup lost'
             \/ SameFlight(flight'[g], flight[g])
        /\ lost \subseteq lost' /\ lost' \subseteq Issued /\ stray' \subseteq Issued
    BY <1>1, <1>2, Superseded
  <2>10. /\ loaded' = TRUE /\ dirty' = TRUE /\ Drained /\ revs' = revs
         /\ UNCHANGED <<account, revoked, disk, writing, superseded, faults>>
         /\ queue' = Append(q, Job("persist", gen', Main))
         /\ screen' = Loading
    BY <1>5 DEF Login
  <2>11. screen'.status # "guest" /\ revs \subseteq Issued
    BY <1>1, <2>10 DEF Loading, TypeOK
  <2> QED BY ONLY <1>3, <2>1, <2>3, <2>8, <2>9, <2>10, <2>11 DEF Succession
<1> QED BY <1>4, <1>6, SuccessionKeeps

\* The server has refused the refresh of this session.
LEMMA RefusedKeeps ==
  ASSUME Inductive, Refused(gen), gen' # gen
  PROVE  Inductive'
<1>1. TypeOK /\ Flights /\ ScreenIsTrue /\ gen \in Gens /\ gen + 1 # gen
  BY Parts DEF TypeOK
<1>2. /\ Drained /\ flight[gen].pc = "answered" /\ flight[gen].pair = None
      /\ gen + 1 \in Gens /\ gen' = gen + 1 /\ mem' = None /\ loaded' = TRUE /\ dirty' = TRUE
      /\ queue' = Append(queue, Job("persist", gen', gen))
      /\ flight' = [flight EXCEPT ![gen].pc = "ending"]
      /\ UNCHANGED <<call, screen>>
      /\ UNCHANGED <<server, disk, writing, net, history, faults>>
  BY DEF Refused
<1>3. screen.status # "guest"
  <2>1. mem # None
    BY <1>1, <1>2 DEF Flights, FlightOK, Current
  <2> QED BY <1>1, <2>1 DEF ScreenIsTrue
<1>4. Ends
  BY <1>2 DEF Ends, server, history
<1>5. PICK f : f = flight[gen]
  OBVIOUS
<1>6. PICK n : n = [f EXCEPT !.pc = "ending"]
  OBVIOUS
<1>7. f \in FlightType
  BY <1>1, <1>5 DEF TypeOK
<1>8. n \in FlightType
  BY ONLY <1>6, <1>7 DEF FlightType
<1>9. n.pc = "ending" /\ n.token = f.token /\ n.pair = f.pair
  BY ONLY <1>6, <1>7 DEF FlightType
<1>10. flight' = [flight EXCEPT ![gen] = n]
  BY <1>2, <1>5, <1>6
<1>11. flight' \in [Gens -> FlightType] /\ flight'[gen] = n /\ \A g \in Gens \ {gen} : flight'[g] = flight[g]
  BY <1>1, <1>8, <1>10 DEF TypeOK
<1>12. Succession(queue, gen)
  <2>1. /\ queue \in Seq(JobType) /\ call \in [Calls -> CallType]
        /\ lost \subseteq Issued /\ revs \subseteq Issued /\ stray \subseteq Issued
    BY <1>1 DEF TypeOK
  <2>2. \A g \in Gens \ {gen} : SameFlight(flight'[g], flight[g])
    BY <1>11 DEF SameFlight
  <2>3. \A i \in 1..Len(queue) : SameJob(queue[i], queue[i])
    BY DEF SameJob
  <2>4. gen' \in Gens /\ UNCHANGED <<account, revoked, disk, writing, superseded, faults, lost, revs, stray, call, screen>>
    BY <1>2 DEF server, history, net
  <2> QED BY ONLY <1>1, <1>2, <1>3, <1>5, <1>9, <1>11, <2>1, <2>2, <2>3, <2>4 DEF Succession
<1> QED BY <1>4, <1>12, SuccessionKeeps

-----------------------------------------------------------------------------
(* A write begins.                                                         *)

\* The work that begins or ends this session is done when other work of it is next.
LEMMA SettledHead ==
  ASSUME TypeOK, QueueOK, queue # <<>>, Next1.gen = gen, Next1.kind # "persist"
  PROVE  Settled
<1>1. queue \in Seq(JobType) /\ gen \in Nat
  BY DEF TypeOK
<1>2. /\ Next1 = queue[1] /\ 1 \in DOMAIN queue /\ DOMAIN queue = 1..Len(queue)
      /\ Len(queue) \in Nat
  BY ONLY <1>1, queue # <<>> DEF Next1
<1> SUFFICES ASSUME NEW i \in DOMAIN queue, queue[i].kind = "persist", queue[i].gen = gen PROVE FALSE
  BY DEF Settled
<1>3. 1 \in 1..(i - 1)
  BY <1>2
<1>4. queue[1].gen < queue[i].gen
  BY <1>3 DEF QueueOK
<1> QED BY <1>1, <1>2, <1>4

\* The value that is about to be written.
Writes ==
  /\ queue # <<>> /\ writing = {} /\ ~ Stale(Next1)
  /\ ~ (Next1.kind = "snapshot" /\ ~ Load /\ ~ dirty)
  /\ loaded' = TRUE /\ dirty' = TRUE /\ writing' = {mem'}
  /\ UNCHANGED <<queue, screen, call, flight, stray, lost, server, gen, disk, revs, superseded,
                 signedOut, faults>>

LEMMA WritesQueue ==
  ASSUME Inductive, Writes, mem' \in Issued \cup {None}, mem' = mem \/ Settled
  PROVE  QueueOK' /\ Jobs' /\ StoreOK' /\ LoginsOK' /\ NotReused'
<1>1. QueueOK /\ Jobs /\ StoreOK /\ LoginsOK /\ NotReused /\ TypeOK
  BY Parts
<1>2. QueueOK'
  BY <1>1 DEF Writes, QueueOK
<1>3. LoginsOK' /\ NotReused'
  BY <1>1 DEF Writes, server, LoginsOK, OneSuccessor, Live, Issued, LoginOf, NotReused
<1>4. Jobs'
  <2> SUFFICES ASSUME NEW i \in DOMAIN queue PROVE JobOK(queue[i])'
    BY DEF Jobs, Writes
  <2>1. PICK j : j = queue[i]
    OBVIOUS
  <2>2. JobOK(j)
    BY <1>1, <2>1 DEF Jobs
  <2>3. j.kind = "persist" /\ j.gen = gen => mem' = mem
    BY <2>1 DEF Settled
  <2>4. JobOK(j)'
    BY <2>2, <2>3 DEF JobOK, Writes
  <2> QED BY <2>1, <2>4 DEF Writes
<1>5. StoreOK'
  BY <1>1 DEF Writes, StoreOK
<1> QED BY <1>2, <1>3, <1>4, <1>5

\* The envelope that was read, and nothing is known yet that could contradict it.
LEMMA LoadKeeps ==
  ASSUME Inductive, Writes, Load, mem' = disk
  PROVE  Inductive'
<1>1. /\ ScreenIsTrue /\ TypeOK /\ QueueOK /\ StoreOK /\ Flights /\ HoldingsOK
  BY Parts
<1>2. Settled
  BY <1>1, SettledHead DEF Writes, Load, Stale
<1>3. disk \in Issued \cup {None} /\ None \notin Issued
  BY <1>1, IssuedPairs DEF TypeOK
<1>4. QueueOK' /\ Jobs' /\ StoreOK' /\ LoginsOK' /\ NotReused'
  BY <1>2, <1>3, WritesQueue
<1>5. /\ mem = None /\ superseded = {} /\ screen.status \in {"loading", "unavailable"}
      /\ \A c \in Calls : call[c].token = None
      /\ \A g \in Gens : flight[g] = NoFlight
  BY <1>1 DEF Load, StoreOK, Flights, FlightOK
<1>6. TypeOK'
  BY <1>1, <1>3 DEF TypeOK, Writes, server, Issued
<1>7. ScreenIsTrue'
  BY <1>5, <1>6 DEF ScreenIsTrue, Writes
<1>8. CallsOK' /\ Apart' /\ Flights' /\ SupersededOK'
  BY <1>5 DEF Writes, CallsOK, Apart, Flights, FlightOK, SupersededOK, NoFlight
<1>9. HoldingsOK'
  <2>1. /\ Live' = Live /\ Accounted' = Accounted /\ Issued' = Issued /\ loaded' = TRUE
        /\ signedOut' = signedOut /\ disk' = disk /\ writing' = {disk}
        /\ \A t : LoginOf(t)' = LoginOf(t)
    BY DEF Writes, server, Live, Accounted, Issued, LoginOf
  <2>2. \A t \in Live : disk # None /\ LoginOf(t) = LoginOf(disk) => t = disk \/ t \in Accounted
    <3>1. Live \subseteq Issued
      BY DEF Live, Issued
    <3> QED BY <1>1, <1>3, <1>5, <3>1 DEF HoldingsOK
  <2>3. \A t \in Live' : Current(t)' => t = mem' \/ t \in Accounted'
    BY <2>1, <2>2 DEF Current, LoginOf
  <2>4. \A x \in ({disk'} \cup writing') \ {None} : \A t \in Live' :
          LoginOf(t)' = LoginOf(x)' => t \in {x, mem'} \cup Accounted'
    BY <2>1, <2>2
  <2>5. mem' # None => LoginOf(mem)' \notin signedOut'
    BY <1>1, <2>1 DEF HoldingsOK, LoginOf, Load, Writes, server
  <2>6. \A t \in Live' : LoginOf(t)' \in signedOut' =>
          t \in lost' \cup revs' \/ \E g \in Gens : flight'[g].pair = t /\ g # gen'
    BY <1>1, <2>1 DEF HoldingsOK, Writes
  <2> QED BY <2>1, <2>3, <2>4, <2>5, <2>6 DEF HoldingsOK
<1> QED BY <1>4, <1>7, <1>8, <1>9 DEF Inductive, Jobs, Flights

\* The rotated pair takes the place of the one it was rotated from.
LEMMA UpdateKeeps ==
  ASSUME Inductive, Writes, Next1.kind = "update", mem' = flight[Next1.who].pair
  PROVE  Inductive'
<1>1. /\ ScreenIsTrue /\ TypeOK /\ QueueOK /\ StoreOK /\ Flights /\ Jobs /\ HoldingsOK /\ CallsOK
      /\ Apart /\ LoginsOK
  BY Parts
<1>2. Next1.who \in Gens /\ queue # <<>> /\ writing = {}
  BY <1>1, HeadOK DEF JobOK, Writes
<1>3. flight[Next1.who].pc = "update" /\ FlightOK(Next1.who)
  BY <1>1, <1>2, HeadOK
<1>4. Next1.who = gen
  BY <1>2, <1>3 DEF FlightOK
<1>5. PICK f : f = flight[gen]
  OBVIOUS
<1>6. /\ f.pc = "update" /\ mem = f.token /\ mem' = f.pair /\ f.pair \in Issued /\ f.pair # None
      /\ LoginOf(f.pair) = LoginOf(f.token) /\ f.token \in revoked /\ f.pair \notin superseded
      /\ Current(f.token) /\ Settled /\ gen \in Gens
  BY <1>1, <1>2, <1>3, <1>4, <1>5 DEF FlightOK, TypeOK
<1>7. mem # None /\ mem \in Issued /\ LoginOf(mem) = LoginOf(f.pair) /\ tok[f.pair].user = tok[mem].user
  BY <1>1, <1>6 DEF Current, LoginsOK
<1>8. QueueOK' /\ Jobs' /\ StoreOK' /\ LoginsOK' /\ NotReused'
  BY <1>6, WritesQueue
<1>9. TypeOK'
  BY <1>1, <1>6 DEF TypeOK, Writes, server, Issued
<1>10. ScreenIsTrue'
  <2>1. screen.status # "guest"
    BY <1>1, <1>7 DEF ScreenIsTrue
  <2>2. screen.status = "authed" => tok[mem'].user = screen.user
    BY <1>1, <1>6, <1>7 DEF ScreenIsTrue
  <2> QED BY <1>9, <2>1, <2>2 DEF ScreenIsTrue, Writes, server
<1>11. /\ Live' = Live /\ Accounted' = Accounted /\ Issued' = Issued /\ loaded' = TRUE /\ gen' = gen
       /\ signedOut' = signedOut /\ disk' = disk /\ writing' = {f.pair} /\ tok' = tok /\ queue' = queue
       /\ \A t : LoginOf(t)' = LoginOf(t)
  BY <1>6 DEF Writes, server, Live, Accounted, Issued, LoginOf
<1>12. LoginOf(mem)' = LoginOf(mem)
  BY <1>6, <1>7, <1>11 DEF LoginOf
<1>13. (\A t : Current(t)' <=> Current(t)) /\ (Settled' <=> Settled)
  BY <1>6, <1>7, <1>11, <1>12 DEF Current, LoginOf, Settled
<1>14. CallsOK' /\ Apart'
  BY <1>1, <1>11, <1>13 DEF Writes, CallsOK, Apart
<1>15. SupersededOK'
  BY <1>6 DEF SupersededOK, Writes
<1>16. Flights'
  <2> SUFFICES ASSUME NEW g \in Gens PROVE FlightOK(g)'
    BY DEF Flights
  <2>1. FlightOK(g) /\ flight' = flight /\ revoked' = revoked /\ superseded' = superseded
    BY <1>1 DEF Flights, Writes, server
  <2>2. CASE g # gen
    <3>1. flight[g].pc # "update"
      BY <1>2, <2>1, <2>2 DEF FlightOK
    <3> QED BY <1>11, <1>13, <2>1, <2>2, <3>1 DEF FlightOK
  <2>3. CASE g = gen
    <3>1. flight'[g] = f
      BY <1>5, <2>1, <2>3
    <3>2. /\ f.token \in Issued /\ g <= gen /\ f.pair \in Issued /\ Next1 = Job("update", g, g)
          /\ f.token < f.pair
      BY <1>5, <1>6, <2>1, <2>3 DEF FlightOK
    <3>3. Next1' = Next1 /\ queue' # <<>> /\ writing' # {}
      BY <1>2, <1>11
    <3> QED BY <1>6, <1>11, <1>13, <2>1, <2>3, <3>1, <3>2, <3>3 DEF FlightOK
  <2> QED BY <2>2, <2>3
<1>17. HoldingsOK'
  <2>1. \A t \in Live : t # mem
    BY <1>6 DEF Live
  <2>2. \A t \in Live' : Current(t)' => t = mem' \/ t \in Accounted'
    BY <1>1, <1>11, <1>13, <2>1 DEF HoldingsOK
  <2>3. \A x \in ({disk'} \cup writing') \ {None} : \A t \in Live' :
          LoginOf(t)' = LoginOf(x)' => t \in {x, mem'} \cup Accounted'
    <3> SUFFICES ASSUME NEW x \in {disk, f.pair} \ {None}, NEW t \in Live, LoginOf(t) = LoginOf(x)
                 PROVE  t \in {x} \cup Accounted
      BY <1>11
    <3>1. CASE x = disk
      BY <1>1, <2>1, <3>1 DEF HoldingsOK
    <3>2. CASE x = f.pair
      <4>1. Current(t)
        BY <1>6, <1>7, <3>2 DEF Current, Live, Issued
      <4> QED BY <1>1, <2>1, <4>1 DEF HoldingsOK
    <3> QED BY <3>1, <3>2
  <2>4. mem' # None => LoginOf(mem)' \notin signedOut'
    BY <1>1, <1>7, <1>11, <1>12 DEF HoldingsOK
  <2>5. \A t \in Live' : LoginOf(t)' \in signedOut' =>
          t \in lost' \cup revs' \/ \E g \in Gens : flight'[g].pair = t /\ g # gen'
    BY <1>1, <1>11 DEF HoldingsOK, Writes
  <2> QED BY <1>11, <2>2, <2>3, <2>4, <2>5 DEF HoldingsOK
<1> QED BY <1>8, <1>10, <1>14, <1>15, <1>16, <1>17 DEF Inductive, Jobs, Flights

\* What memory holds is written down.
LEMMA RewriteKeeps ==
  ASSUME Inductive, Writes, Next1.kind # "update", mem' = mem, loaded \/ ~ Load
  PROVE  Inductive'
<1>1. /\ ScreenIsTrue /\ TypeOK /\ QueueOK /\ StoreOK /\ Flights /\ HoldingsOK /\ CallsOK
      /\ Apart /\ SupersededOK
  BY Parts
<1>2. mem \in Issued \cup {None} /\ None \notin Issued
  BY <1>1, IssuedPairs DEF TypeOK
<1>3. QueueOK' /\ Jobs' /\ StoreOK' /\ LoginsOK' /\ NotReused'
  BY <1>2, WritesQueue
<1>4. TypeOK'
  BY <1>1, <1>2 DEF TypeOK, Writes, server, Issued
<1>5. ScreenIsTrue'
  BY <1>1, <1>4 DEF ScreenIsTrue, Writes, server
<1>6. /\ Live' = Live /\ Accounted' = Accounted /\ Issued' = Issued /\ loaded' = TRUE /\ gen' = gen
      /\ signedOut' = signedOut /\ disk' = disk /\ writing' = {mem} /\ queue' = queue
      /\ flight' = flight /\ revoked' = revoked /\ superseded' = superseded
      /\ (\A t : LoginOf(t)' = LoginOf(t)) /\ LoginOf(mem)' = LoginOf(mem)
  BY DEF Writes, server, Live, Accounted, Issued, LoginOf
<1>7. (\A t : Current(t)' <=> Current(t)) /\ (Settled' <=> Settled)
  BY <1>6 DEF Current, Settled
<1>8. CallsOK' /\ Apart' /\ SupersededOK'
  BY <1>1, <1>6, <1>7 DEF Writes, CallsOK, Apart, SupersededOK
<1>9. Flights'
  <2> SUFFICES ASSUME NEW g \in Gens PROVE FlightOK(g)'
    BY DEF Flights
  <2>1. FlightOK(g)
    BY <1>1 DEF Flights
  <2>2. flight[g].pc # "update"
    BY <2>1 DEF Writes, FlightOK, Job
  <2>3. ~ (g = gen /\ flight[g].pc \in {"sent", "answered"})
    <3> SUFFICES ASSUME g = gen, flight[g].pc \in {"sent", "answered"} PROVE FALSE
      OBVIOUS
    <3>1. Settled /\ ~ dirty /\ loaded
      BY <1>1, <2>1 DEF FlightOK, StoreOK
    <3>2. Next1.kind = "persist" /\ queue # <<>> /\ queue \in Seq(JobType) /\ Next1.gen = gen
      <4>1. queue # <<>> /\ queue \in Seq(JobType) /\ Next1.gen = gen
        BY <1>1 DEF TypeOK, Writes, Stale
      <4>2. Next1 \in JobType
        BY ONLY <4>1 DEF Next1
      <4>3. Next1.kind # "snapshot"
        BY <3>1 DEF Writes, Load
      <4> QED BY <4>1, <4>2, <4>3 DEF JobType
    <3>3. Next1 = queue[1] /\ 1 \in DOMAIN queue
      BY ONLY <3>2 DEF Next1
    <3> QED BY <3>1, <3>2, <3>3 DEF Settled
  <2> QED BY <1>6, <1>7, <2>1, <2>2, <2>3 DEF FlightOK
<1>10. HoldingsOK'
  <2>1. \A t \in Live' : Current(t)' => t = mem' \/ t \in Accounted'
    BY <1>1, <1>6, <1>7 DEF HoldingsOK
  <2>2. \A x \in ({disk'} \cup writing') \ {None} : \A t \in Live' :
          LoginOf(t)' = LoginOf(x)' => t \in {x, mem'} \cup Accounted'
    <3> SUFFICES ASSUME NEW x \in {disk, mem} \ {None}, NEW t \in Live, LoginOf(t) = LoginOf(x)
                 PROVE  t \in {x, mem} \cup Accounted
      BY <1>6
    <3>1. CASE x = disk
      BY <1>1, <3>1 DEF HoldingsOK
    <3>2. CASE x = mem
      <4>1. Current(t)
        BY <3>2 DEF Current, Live, Issued
      <4> QED BY <1>1, <4>1 DEF HoldingsOK
    <3> QED BY <3>1, <3>2
  <2>3. mem' # None => LoginOf(mem)' \notin signedOut'
    BY <1>1, <1>6 DEF HoldingsOK
  <2>4. \A t \in Live' : LoginOf(t)' \in signedOut' =>
          t \in lost' \cup revs' \/ \E g \in Gens : flight'[g].pair = t /\ g # gen'
    BY <1>1, <1>6 DEF HoldingsOK, Writes
  <2> QED BY <1>6, <2>1, <2>2, <2>3, <2>4 DEF HoldingsOK
<1> QED BY <1>3, <1>5, <1>8, <1>9, <1>10 DEF Inductive, Jobs, Flights

LEMMA BeginWorkKeeps ==
  ASSUME Inductive, BeginWork
  PROVE  Inductive'
<1>1. CASE Next1.kind = "snapshot" /\ ~ Load /\ ~ dirty
  BY <1>1, NoWriteKeeps
<1>2. CASE ~ (Next1.kind = "snapshot" /\ ~ Load /\ ~ dirty)
  <2>1. Writes
    BY <1>2 DEF BeginWork, Writes
  <2>2. CASE Load
    BY <2>1, <2>2, LoadKeeps DEF BeginWork
  <2>3. CASE ~ Load /\ Next1.kind = "update"
    BY <2>1, <2>3, UpdateKeeps DEF BeginWork
  <2>4. CASE ~ Load /\ Next1.kind # "update"
    BY <2>1, <2>4, RewriteKeeps DEF BeginWork
  <2> QED BY <2>2, <2>3, <2>4
<1> QED BY <1>1, <1>2

-----------------------------------------------------------------------------
(* The refresh of this session.                                            *)

LEMMA ExpiredKeeps ==
  ASSUME Inductive, NEW c \in Calls, Expired(c)
  PROVE  Inductive'
<1>1. /\ ScreenIsTrue /\ TypeOK /\ NotReused /\ LoginsOK /\ QueueOK /\ StoreOK /\ CallsOK /\ Apart
      /\ SupersededOK /\ HoldingsOK /\ Jobs /\ Flights /\ gen \in Gens
  BY Parts DEF TypeOK
<1>2. PICK k : k = call[c]
  OBVIOUS
<1>3. PICK n : n = [k EXCEPT !.pc = "refreshing"]
  OBVIOUS
<1>4. k \in CallType
  BY <1>1, <1>2 DEF TypeOK
<1>5. n \in CallType
  BY ONLY <1>3, <1>4 DEF CallType
<1>6. n.token = k.token /\ n.gen = k.gen
  BY ONLY <1>3, <1>4 DEF CallType
<1>7. call' = [call EXCEPT ![c] = n]
  BY <1>2, <1>3 DEF Expired
<1>8. /\ call' \in [Calls -> CallType]
      /\ \A x \in Calls : call'[x].token = call[x].token /\ call'[x].gen = call[x].gen
  BY <1>1, <1>2, <1>5, <1>6, <1>7 DEF TypeOK
<1>9. /\ Drained /\ UNCHANGED <<server, store, writing, screen, net, history, faults>>
      /\ k.token # None /\ k.gen = gen
  BY <1>2 DEF Expired
<1>10. CASE flight[gen] # NoFlight
  <2>1. QueueKept(0) /\ FlightsKept(0) /\ NetKept /\ ScreenKept(0)
    BY <1>1, <1>9, <1>10, SameQueue, SameFlights, SameNet DEF Expired, net, history, ScreenKept
  <2>2. CallsKept(0)
    BY <1>8 DEF CallsKept
  <2> QED BY <1>9, <2>1, <2>2, WithinSession DEF history
<1>11. CASE flight[gen] = NoFlight
  <2>1. PICK e : e = [pc |-> "snapshot", token |-> k.token, pair |-> None,
                      by |-> IF c \in Bounded THEN c ELSE None]
    OBVIOUS
  <2>2. e \in FlightType /\ e.pc = "snapshot" /\ e.token = k.token /\ e.pair = None
    <3>1. k.token \in Tokens \cup {None}
      BY ONLY <1>4 DEF CallType
    <3> QED BY ONLY <2>1, <3>1 DEF FlightType
  <2>3. flight' = [flight EXCEPT ![gen] = e]
    BY <1>2, <1>11, <2>1 DEF Expired
  <2>4. flight' \in [Gens -> FlightType] /\ flight'[gen] = e /\ \A g \in Gens \ {gen} : flight'[g] = flight[g]
    BY <1>1, <2>2, <2>3 DEF TypeOK
  <2>5. PICK x : x = Job("snapshot", gen, gen)
    OBVIOUS
  <2>6. x \in JobType /\ x.kind = "snapshot" /\ x.gen = gen /\ x.who = gen
    BY <1>1, <2>5, JobTypes DEF Job
  <2>7. queue' = Append(queue, x) /\ queue \in Seq(JobType)
    BY <1>1, <1>11, <2>5 DEF Expired, TypeOK
  <2>8. PICK m : m = Len(queue)
    OBVIOUS
  <2>9. /\ queue' \in Seq(JobType) /\ m \in Nat /\ DOMAIN queue' = 1..(m + 1) /\ queue'[m + 1] = x
        /\ DOMAIN queue = 1..m /\ \A i \in DOMAIN queue : queue'[i] = queue[i]
    <3>1. /\ queue' \in Seq(JobType) /\ m \in Nat /\ DOMAIN queue' = 1..(m + 1) /\ queue'[m + 1] = x
          /\ \A i \in 1..m : queue'[i] = queue[i]
      BY ONLY <2>6, <2>7, <2>8, Behind
    <3>2. DOMAIN queue = 1..m
      BY ONLY <2>7, <2>8
    <3> QED BY <3>1, <3>2
  <2>10. queue # <<>> => queue' # <<>> /\ Next1' = Next1 /\ writing # {}
    <3> SUFFICES ASSUME queue # <<>> PROVE queue' # <<>> /\ Next1' = Next1 /\ writing # {}
      OBVIOUS
    <3>1. writing # {}
      BY <1>9 DEF Drained
    <3>2. 1 \in DOMAIN queue /\ Next1 = queue[1]
      BY ONLY <2>7, queue # <<>> DEF Next1
    <3>3. queue' # <<>>
      BY ONLY <2>9
    <3>4. Next1' = queue'[1]
      BY ONLY <2>9, <3>3 DEF Next1
    <3> QED BY <2>9, <3>1, <3>2, <3>3, <3>4
  <2>11. PICK t : t = k.token
    OBVIOUS
  <2>12. t \in Issued /\ Current(t) /\ Settled
    BY <1>1, <1>2, <1>9, <2>11 DEF CallsOK
  <2>13. \A i \in DOMAIN queue : queue[i].who # gen
    BY <1>1, <1>11 DEF Jobs, JobOK, NoFlight
  <2>14. /\ UNCHANGED <<account, tok, revoked, gen, loaded, mem, dirty, disk, writing, screen, revs,
                        stray, superseded, signedOut, lost, faults>>
    BY <1>9 DEF server, store, net, history
  <2>15. (\A s : Current(s)' <=> Current(s)) /\ (\A s : LoginOf(s)' = LoginOf(s)) /\ Issued' = Issued
         /\ Live' = Live
    BY <2>14 DEF Current, LoginOf, Issued, Live
  <2>16. Settled'
    BY <2>6, <2>9, <2>12, <2>14 DEF Settled
  <2>17. ScreenIsTrue' /\ LoginsOK'
    <3>1. TypeOK'
      BY <1>1, <1>8, <2>4, <2>9, <2>14, <2>15 DEF TypeOK
    <3> QED BY <1>1, <2>14, <2>15, <3>1 DEF ScreenIsTrue, LoginsOK, OneSuccessor
  <2>18. QueueOK'
    <3>1. \A i \in DOMAIN queue : queue[i].gen \in Nat /\ queue[i].gen <= gen
      <4> TAKE i \in DOMAIN queue
      <4>1. queue[i] \in JobType
        BY ONLY <2>7
      <4>2. queue[i].gen \in Gens
        BY ONLY <4>1 DEF JobType
      <4> QED BY <1>1, <4>2 DEF QueueOK
    <3> SUFFICES ASSUME NEW i \in DOMAIN queue'
                 PROVE  /\ queue'[i].gen <= gen
                        /\ queue'[i].kind = "persist" => \A j \in 1..(i - 1) : queue'[j].gen < queue'[i].gen
                        /\ \A j \in 1..i : queue'[j].gen <= queue'[i].gen
                        /\ \A j \in DOMAIN queue' :
                             queue'[i].who \in Gens /\ queue'[j].who = queue'[i].who => j = i
      BY <2>14 DEF QueueOK
    <3>2. CASE i \in DOMAIN queue
      <4>1. \A j \in 1..i : j \in DOMAIN queue /\ queue'[j] = queue[j]
        BY <2>9, <3>2
      <4>2. \A j \in 1..(i - 1) : j \in 1..i
        BY <2>9, <3>2
      <4>3. /\ queue[i].gen <= gen
            /\ queue[i].kind = "persist" => \A j \in 1..(i - 1) : queue[j].gen < queue[i].gen
            /\ \A j \in 1..i : queue[j].gen <= queue[i].gen
            /\ \A j \in DOMAIN queue : queue[i].who \in Gens /\ queue[j].who = queue[i].who => j = i
        BY <1>1, <3>2 DEF QueueOK
      <4>4. queue'[i] = queue[i]
        BY <2>9, <3>2
      <4>5. \A j \in DOMAIN queue' : queue'[i].who \in Gens /\ queue'[j].who = queue'[i].who => j = i
        <5> TAKE j \in DOMAIN queue'
        <5>1. j \in DOMAIN queue \/ queue'[j].who = gen
          BY <2>6, <2>9
        <5> QED BY <2>9, <2>13, <3>2, <4>3, <4>4, <5>1
      <4> QED BY ONLY <4>1, <4>2, <4>3, <4>4, <4>5
    <3>3. CASE i = m + 1
      <4>1. \A j \in 1..i : queue'[j].gen <= gen
        <5> TAKE j \in 1..i
        <5>1. j \in DOMAIN queue \/ j = m + 1
          BY <2>9, <3>3
        <5> QED BY <1>1, <2>6, <2>9, <3>1, <5>1
      <4>2. \A j \in DOMAIN queue' : queue'[j].who = gen => j = i
        BY <2>9, <2>13, <3>3
      <4> QED BY <1>1, <2>6, <2>9, <3>3, <4>1, <4>2
    <3> QED BY <2>9, <3>2, <3>3
  <2>19. Jobs'
    <3> SUFFICES ASSUME NEW i \in DOMAIN queue' PROVE JobOK(queue[i])'
      BY DEF Jobs
    <3>1. PICK j : j = queue'[i]
      OBVIOUS
    <3>2. CASE i \in DOMAIN queue
      <4>1. JobOK(j) /\ j.who # gen
        BY <1>1, <2>9, <2>13, <3>1, <3>2 DEF Jobs
      <4>2. JobOK(j)'
        BY <2>4, <2>14, <4>1 DEF JobOK
      <4> QED BY <3>1, <4>2
    <3>3. CASE i = m + 1
      <4>1. JobOK(j)'
        BY <2>2, <2>4, <2>6, <2>9, <3>1, <3>3 DEF JobOK, Serves
      <4> QED BY <3>1, <4>1
    <3> QED BY <2>9, <3>2, <3>3
  <2>20. loaded
    BY <1>1, <2>12 DEF StoreOK, Current
  <2>21. StoreOK'
    <3>1. writing # {} => queue # <<>> /\ dirty /\ loaded /\ (Next1.gen = gen => writing = {mem})
      BY <1>1 DEF StoreOK
    <3>2. \A i \in DOMAIN queue' : screen.status = "guest" => queue'[i].gen = gen
      BY <1>1, <2>6, <2>9 DEF StoreOK
    <3> HIDE DEF Next1
    <3> QED BY <2>10, <2>14, <2>20, <3>1, <3>2 DEF StoreOK
  <2>22. CallsOK'
    <3> SUFFICES ASSUME NEW y \in Calls, call'[y].token # None
                 PROVE  /\ call'[y].gen <= gen /\ call'[y].token \in Issued
                        /\ call'[y].gen = gen => Current(call[y].token)' /\ Settled'
      BY <2>14, <2>15 DEF CallsOK
    <3>1. /\ call[y].gen <= gen /\ call[y].token \in Issued
          /\ call[y].gen = gen => Current(call[y].token)
      BY <1>1, <1>8 DEF CallsOK
    <3>2. call'[y].token = call[y].token /\ call'[y].gen = call[y].gen
      BY <1>8
    <3> QED BY <2>14, <2>16, <3>1, <3>2 DEF Current, LoginOf, Issued
  <2>23. Flights'
    <3> SUFFICES ASSUME NEW g \in Gens PROVE FlightOK(g)'
      BY DEF Flights
    <3>1. CASE g = gen
      <4>1. Current(t)' /\ gen <= gen
        BY <1>1, <2>12, <2>15
      <4>2. flight'[g] = e /\ e.token = t
        BY <2>2, <2>4, <2>11, <3>1
      <4>3. None \notin Issued
        BY <1>1, IssuedPairs
      <4> QED BY <2>2, <2>12, <2>14, <2>15, <2>16, <3>1, <4>1, <4>2, <4>3 DEF FlightOK
    <3>2. CASE g # gen
      <4>1. FlightOK(g) /\ flight'[g] = flight[g]
        BY <1>1, <2>4, <3>2 DEF Flights
      <4> HIDE DEF Next1
      <4> QED BY <2>10, <2>14, <2>15, <3>2, <4>1 DEF FlightOK
    <3> QED BY <3>1, <3>2
  <2>24. Apart'
    <3>1. \A g \in Gens : g # gen /\ flight[g].pc # "none" => LoginOf(flight[g].token) # LoginOf(t)
      <4> SUFFICES ASSUME NEW g \in Gens, g # gen, flight[g].pc # "none",
                          LoginOf(flight[g].token) = LoginOf(t)
                   PROVE  FALSE
        OBVIOUS
      <4>1. flight[g].token \in Issued
        BY <1>1 DEF Flights, FlightOK
      <4>2. Current(flight[g].token)
        BY <2>12, <4>1 DEF Current
      <4> QED BY <1>1, <4>2 DEF Apart
    <3>2. \A g, h \in Gens : flight'[g].pc # "none" /\ flight'[h].pc # "none" /\ g # h =>
            LoginOf(flight[g].token)' # LoginOf(flight[h].token)'
      <4>1. \A g \in Gens : LoginOf(flight[g].token)' = LoginOf(IF g = gen THEN t ELSE flight[g].token)
        BY <2>2, <2>4, <2>11, <2>14 DEF LoginOf
      <4> QED BY <1>1, <2>4, <3>1, <4>1 DEF Apart
    <3>3. \A g \in Gens : flight'[g].pc # "none" /\ g # gen => ~ Current(flight[g].token)'
      BY <1>1, <2>4, <2>14 DEF Apart, Current, LoginOf, Issued
    <3> QED BY <2>14, <3>2, <3>3 DEF Apart
  <2>25. SupersededOK' /\ NotReused'
    BY <1>1, <1>11, <2>2, <2>4, <2>14 DEF SupersededOK, NotReused, NoFlight
  <2>26. HoldingsOK'
    <3>1. \A g \in Gens : flight'[g].pair = flight[g].pair
      BY <1>11, <2>2, <2>4 DEF NoFlight
    <3>2. Accounted' = Accounted
      BY <2>14, <3>1 DEF Accounted
    <3> QED BY <1>1, <2>14, <2>15, <3>1, <3>2 DEF HoldingsOK, LoginOf
  <2> QED BY <2>17, <2>18, <2>19, <2>21, <2>22, <2>23, <2>24, <2>25, <2>26
             DEF Inductive, Jobs, Flights
<1> QED BY <1>10, <1>11

\* A new pair for this session: the queue was empty, and holds its update now.
LEMMA RefreshedKeeps ==
  ASSUME Inductive, NEW g \in Gens, g = gen, Refreshed(g)
  PROVE  Inductive'
<1>1. /\ ScreenIsTrue /\ TypeOK /\ NotReused /\ LoginsOK /\ QueueOK /\ StoreOK /\ CallsOK /\ Apart
      /\ SupersededOK /\ HoldingsOK /\ Jobs /\ Flights
  BY Parts
<1>2. PICK f : f = flight[g]
  OBVIOUS
<1>3. PICK e : e = [f EXCEPT !.pc = "update"]
  OBVIOUS
<1>4. f \in FlightType
  BY <1>1, <1>2 DEF TypeOK
<1>5. e \in FlightType
  BY ONLY <1>3, <1>4 DEF FlightType
<1>6. e.pc = "update" /\ e.token = f.token /\ e.pair = f.pair
  BY ONLY <1>3, <1>4 DEF FlightType
<1>7. flight' = [flight EXCEPT ![g] = e]
  BY <1>2, <1>3 DEF Refreshed
<1>8. flight' \in [Gens -> FlightType] /\ flight'[g] = e /\ \A x \in Gens \ {g} : flight'[x] = flight[x]
  BY <1>1, <1>5, <1>7 DEF TypeOK
<1>9. f.pc = "answered" /\ f.pair # None /\ Drained /\ superseded' = superseded \cup {f.token}
  BY <1>2 DEF Refreshed
<1>10. /\ f.token \in Issued /\ Current(f.token) /\ Settled /\ f.pair \in Issued
       /\ LoginOf(f.pair) = LoginOf(f.token) /\ f.token < f.pair /\ f.token \in revoked
       /\ f.pair \notin superseded /\ writing = {} /\ ~ dirty /\ mem = f.token
  BY <1>1, <1>2, <1>9 DEF Flights, FlightOK
<1>11. queue = <<>>
  BY <1>9, <1>10 DEF Drained
<1>12. PICK x : x = Job("update", g, g)
  OBVIOUS
<1>13. x \in JobType /\ x.kind = "update" /\ x.gen = g /\ x.who = g
  BY <1>12, JobTypes DEF Job
<1>14. queue' = <<x>>
  <2>1. queue' = Append(<<>>, x)
    BY <1>11, <1>12 DEF Refreshed
  <2> QED BY ONLY <2>1
<1>15. /\ queue' \in Seq(JobType) /\ DOMAIN queue' = {1} /\ queue'[1] = x /\ Len(queue') = 1
       /\ queue' # <<>> /\ Next1' = x
  BY ONLY <1>13, <1>14 DEF Next1
<1>16. UNCHANGED <<account, tok, revoked, gen, loaded, mem, dirty, disk, writing, screen, call, revs,
                   stray, signedOut, lost, faults>>
  BY <1>10 DEF Refreshed, server, store
<1>17. (\A s : Current(s)' <=> Current(s)) /\ (\A s : LoginOf(s)' = LoginOf(s)) /\ Issued' = Issued
       /\ Live' = Live /\ gen \in Gens /\ None \notin Issued
  BY <1>1, <1>16, IssuedPairs DEF Current, LoginOf, Issued, Live, TypeOK
<1>18. Settled'
  BY <1>13, <1>15 DEF Settled
<1>19. ScreenIsTrue' /\ LoginsOK'
  <2>1. TypeOK'
    BY <1>1, <1>8, <1>9, <1>10, <1>15, <1>16, <1>17 DEF TypeOK
  <2> QED BY <1>1, <1>16, <1>17, <2>1 DEF ScreenIsTrue, LoginsOK, OneSuccessor
<1>20. QueueOK' /\ Jobs'
  <2>1. QueueOK'
    <3>1. \A k \in 1..(1 - 1) : FALSE
      OBVIOUS
    <3>2. \A k \in 1..1 : k = 1
      OBVIOUS
    <3>3. gen \in Nat
      BY <1>17
    <3> QED BY <1>13, <1>15, <1>16, <3>1, <3>2, <3>3 DEF QueueOK
  <2>2. JobOK(x)'
    BY <1>6, <1>8, <1>13 DEF JobOK, Serves
  <2> QED BY <1>15, <2>1, <2>2 DEF Jobs
<1>21. StoreOK'
  <2>1. mem # None /\ loaded /\ screen.status # "guest"
    BY <1>1, <1>10 DEF Current, StoreOK, ScreenIsTrue
  <2> QED BY <1>10, <1>16, <2>1 DEF StoreOK
<1>22. CallsOK'
  BY <1>1, <1>16, <1>17, <1>18 DEF CallsOK, Current, LoginOf, Issued
\* The refreshes of other sessions are of other logins.
<1>23. ASSUME NEW h \in Gens \ {g}, flight[h].pc # "none"
       PROVE  /\ flight[h].token # f.token /\ flight[h].pair # f.token
              /\ flight[h].pc # "update"
  <2>1. FlightOK(h) /\ LoginOf(flight[h].token) # LoginOf(f.token)
    BY <1>1, <1>2, <1>9, <1>23 DEF Flights, Apart
  <2>2. flight[h].pair # None => LoginOf(flight[h].pair) = LoginOf(flight[h].token)
    BY <1>23, <2>1 DEF FlightOK
  <2>3. flight[h].pc # "update"
    BY <1>11, <2>1 DEF FlightOK
  <2> QED BY <1>10, <1>17, <2>1, <2>2, <2>3
<1>24. Flights'
  <2> SUFFICES ASSUME NEW h \in Gens PROVE FlightOK(h)'
    BY DEF Flights
  <2>1. CASE h = g
    <3>1. f.token # f.pair
      <4>1. f.token \in Nat /\ f.pair \in Nat
        BY <1>1, <1>10, IssuedPairs
      <4> QED BY ONLY <1>10, <4>1
    <3>2. /\ e.token \in Issued' /\ g <= gen' /\ e.pair \in Issued' /\ e.pair \notin superseded'
          /\ Current(f.token)'
      BY <1>6, <1>9, <1>10, <1>16, <1>17, <3>1
    <3>3. g = gen'
      BY <1>16
    <3> HIDE DEF Next1
    <3> QED BY <1>6, <1>8, <1>9, <1>10, <1>12, <1>15, <1>16, <1>17, <1>18, <2>1, <3>2, <3>3 DEF FlightOK
  <2>2. CASE h # g
    <3>1. FlightOK(h) /\ flight'[h] = flight[h]
      BY <1>1, <1>8, <2>2 DEF Flights
    <3>2. flight[h].pc # "none" => flight[h].pair # f.token /\ flight[h].pc # "update"
      BY <1>23, <2>2
    <3> HIDE DEF Next1
    <3> QED BY <1>9, <1>16, <1>17, <2>2, <3>1, <3>2 DEF FlightOK
  <2> QED BY <2>1, <2>2
<1>25. \A h \in Gens : /\ flight'[h].token = flight[h].token /\ flight'[h].pair = flight[h].pair
                       /\ flight'[h].pc = "none" <=> flight[h].pc = "none"
                       /\ flight'[h].pc = "sent" => flight[h].pc = "sent" /\ h # g
  BY <1>2, <1>6, <1>8, <1>9
<1>26. Apart'
  BY <1>1, <1>16, <1>17, <1>25 DEF Apart
<1>27. SupersededOK' /\ NotReused'
  <2>1. SupersededOK'
    BY <1>6, <1>8, <1>10, <1>16 DEF SupersededOK
  <2>2. NotReused'
    BY <1>1, <1>9, <1>23, <1>25 DEF NotReused
  <2> QED BY <2>1, <2>2
<1>28. HoldingsOK'
  <2>1. Accounted' = Accounted
    BY <1>16, <1>25 DEF Accounted
  <2> QED BY <1>1, <1>16, <1>17, <1>25, <2>1 DEF HoldingsOK, LoginOf
<1> QED BY <1>19, <1>20, <1>21, <1>22, <1>24, <1>26, <1>27, <1>28 DEF Inductive, Jobs, Flights

-----------------------------------------------------------------------------
(* The server.                                                             *)

\* A pair takes the place of another of its login: its answer is on its way to the app,
\* or nobody waits for it.
Rotated(t, g) ==
  /\ t \in Live /\ Len(tok) < MaxTokens /\ revoked' = revoked \cup {t} /\ tok' = Append(tok, tok[t])
  /\ UNCHANGED <<account, store, io, screen, call, revs, superseded, signedOut, faults>>
  /\ flight' \in [Gens -> FlightType] /\ lost \subseteq lost' /\ lost' \subseteq Issued \cup {Len(tok) + 1}
  /\ stray' \subseteq Issued
  /\ \A h \in Gens \ {g} : flight'[h] = flight[h]
  /\ \/ Len(tok) + 1 \in lost' /\ flight' = flight
     \/ /\ g \in Gens /\ flight[g].pc = "sent" /\ flight'[g].pc = "answered" /\ flight[g].token = t
        /\ flight'[g].token = t /\ flight'[g].pair = Len(tok) + 1

LEMMA RotatedKeeps ==
  ASSUME Inductive, NEW t, NEW g, Rotated(t, g)
  PROVE  Inductive'
<1>1. /\ ScreenIsTrue /\ TypeOK /\ NotReused /\ LoginsOK /\ QueueOK /\ StoreOK /\ CallsOK /\ Apart
      /\ SupersededOK /\ HoldingsOK /\ Jobs /\ Flights /\ gen \in Gens
  BY Parts DEF TypeOK
<1>2. t \in Issued /\ t \notin revoked /\ t \in 1..Len(tok) /\ Len(tok) \in Nat
  BY <1>1, IssuedPairs DEF Rotated, Live, Issued
<1>3. PICK r : r = tok[t]
  OBVIOUS
<1>4. r \in [user : Users, login : Tokens]
  <2>1. PICK T : T = [user : Users, login : Tokens]
    OBVIOUS
  <2>2. tok \in Seq(T)
    BY <1>1, <2>1 DEF TypeOK
  <2>3. tok[t] \in T
    BY ONLY <1>2, <2>2
  <2> QED BY <1>3, <2>1, <2>3
<1>5. PICK n : n = Len(tok) + 1
  OBVIOUS
<1>6. /\ tok' \in Seq([user : Users, login : Tokens]) /\ Len(tok') <= MaxTokens
      /\ Len(tok') = n /\ n \in Tokens /\ Issued' = Issued \cup {n} /\ Issued = 1..Len(tok)
      /\ n \notin Issued /\ tok'[n] = r
      /\ \A s \in Issued : tok'[s] = tok[s]
      /\ \A s \in Issued : LoginOf(s)' = LoginOf(s)
  <2>1. Len(tok) < MaxTokens /\ tok' = Append(tok, r)
    BY <1>3 DEF Rotated
  <2> QED BY <1>1, <1>4, <1>5, <2>1, PairIssued
<1>7. LoginOf(n)' = LoginOf(t) /\ tok'[n].user = tok[t].user /\ t < n /\ n \in Nat
  BY <1>2, <1>3, <1>5, <1>6 DEF LoginOf
<1>8. None \notin Issued' /\ None \notin Issued /\ n # None
  <2>1. None \notin Tokens
    OBVIOUS
  <2> QED BY <1>1, <1>6, <2>1, IssuedPairs
<1>9. /\ UNCHANGED <<account, gen, loaded, mem, dirty, disk, queue, writing, screen, call, revs,
                     superseded, signedOut, faults>>
      /\ revoked' = revoked \cup {t} /\ lost \subseteq lost'
  BY DEF Rotated, store, io
<1>10. /\ mem \in Issued \cup {None} /\ disk \in Issued \cup {None} /\ writing \subseteq Issued \cup {None}
       /\ superseded \subseteq Issued /\ signedOut \subseteq Issued
  BY <1>1 DEF TypeOK
<1>11. \A s \in Issued : Current(s)' <=> Current(s)
  BY <1>6, <1>9, <1>10 DEF Current, LoginOf
\* The token was the one pair of its login that could be refreshed, and is so no more.
<1>12. \A s \in Live : LoginOf(s) = LoginOf(t) => s = t
  BY <1>1 DEF LoginsOK, OneSuccessor, Rotated, LoginOf
<1>13. \A s \in Live' : s = n \/ (s \in Live /\ s \in Issued /\ s # t)
  BY <1>6, <1>9 DEF Live, Issued
<1>14. LoginsOK'
  <2>1. \A s \in Issued' : LoginOf(s)' \in 1..s
    <3>1. LoginOf(t) \in 1..t
      BY <1>1, <1>2 DEF LoginsOK
    <3>2. LoginOf(t) \in 1..n
      BY ONLY <1>2, <1>7, <3>1
    <3> QED BY <1>1, <1>6, <1>7, <3>2 DEF LoginsOK
  <2>2. \A s, z \in Issued' : LoginOf(s)' = LoginOf(z)' => tok'[s].user = tok'[z].user
    <3>1. \A s, z \in Issued : LoginOf(s) = LoginOf(z) => tok[s].user = tok[z].user
      BY <1>1 DEF LoginsOK
    <3>2. \A s \in Issued' : \E z \in Issued : LoginOf(s)' = LoginOf(z) /\ tok'[s].user = tok[z].user
      BY <1>2, <1>6, <1>7
    <3> QED BY ONLY <3>1, <3>2
  <2>3. OneSuccessor'
    <3>1. \A s, z \in Live' : LoginOf(s)' = LoginOf(z)' => s = z
      <4>1. \A s, z \in Live : LoginOf(s) = LoginOf(z) => s = z
        BY <1>1 DEF LoginsOK, OneSuccessor, LoginOf
      <4> QED BY <1>6, <1>7, <1>12, <1>13, <4>1
    <3> QED BY <3>1 DEF OneSuccessor, LoginOf
  <2> QED BY <2>1, <2>2, <2>3 DEF LoginsOK
<1>15. TypeOK'
  <2>1. /\ flight' \in [Gens -> FlightType] /\ lost' \subseteq Issued' /\ stray' \subseteq Issued'
    BY <1>5, <1>6 DEF Rotated
  <2> QED BY <1>1, <1>2, <1>6, <1>9, <2>1 DEF TypeOK
<1>16. ScreenIsTrue'
  BY <1>1, <1>6, <1>9, <1>10, <1>15 DEF ScreenIsTrue
<1>17. QueueOK'
  BY <1>1, <1>9 DEF QueueOK
\* Other refreshes are as they were.
<1>18. ASSUME NEW h \in Gens
       PROVE  \/ flight'[h] = flight[h]
              \/ /\ h = g /\ flight[h].pc = "sent" /\ flight'[h].pc = "answered"
                 /\ flight[h].token = t /\ flight'[h].token = t /\ flight'[h].pair = n
                 /\ flight[h].pair = None
  <2>1. flight[h].pc = "sent" => flight[h].pair = None
    BY <1>1 DEF Flights, FlightOK
  <2> QED BY <1>5, <2>1 DEF Rotated
<1>19. Jobs'
  <2> SUFFICES ASSUME NEW i \in DOMAIN queue PROVE JobOK(queue[i])'
    BY <1>9 DEF Jobs
  <2>1. PICK j : j = queue[i]
    OBVIOUS
  <2>2. j \in JobType /\ JobOK(j)
    <3>1. queue \in Seq(JobType)
      BY <1>1 DEF TypeOK
    <3>2. queue[i] \in JobType
      BY ONLY <3>1
    <3> QED BY <1>1, <2>1, <3>2 DEF Jobs
  <2>3. j.who \in Gens => flight[j.who].pc # "sent"
    BY <2>2 DEF JobOK, Serves, JobType
  <2>4. j.who \in Gens => flight'[j.who] = flight[j.who]
    BY <1>18, <2>3
  <2>5. JobOK(j)'
    BY <1>9, <2>2, <2>4 DEF JobOK
  <2> QED BY <1>9, <2>1, <2>5
<1>20. StoreOK'
  <2>1. \A h \in Gens : flight[h].pc = "none" => flight'[h].pc = "none"
    BY <1>18
  <2> QED BY <1>1, <1>9, <2>1 DEF StoreOK
<1>21. Settled' <=> Settled
  BY <1>9 DEF Settled
<1>22. CallsOK'
  <2> SUFFICES ASSUME NEW c \in Calls, call[c].token # None
               PROVE  /\ call[c].gen <= gen /\ call[c].token \in Issued'
                      /\ call[c].gen = gen => Current(call[c].token)' /\ Settled'
    BY <1>9 DEF CallsOK
  <2>1. PICK s : s = call[c].token
    OBVIOUS
  <2>2. call[c].gen <= gen /\ s \in Issued /\ (call[c].gen = gen => Current(s) /\ Settled)
    BY <1>1, <2>1 DEF CallsOK
  <2>3. Current(s)' <=> Current(call[c].token)'
    BY <1>9, <2>1 DEF Current, LoginOf
  <2> QED BY <1>6, <1>11, <1>21, <2>1, <2>2, <2>3
<1>23. Flights'
  <2> SUFFICES ASSUME NEW h \in Gens PROVE FlightOK(h)'
    BY DEF Flights
  <2>1. FlightOK(h)
    BY <1>1 DEF Flights
  <2>2. CASE flight'[h] = flight[h]
    <3>1. PICK f : f = flight[h]
      OBVIOUS
    <3>2. CASE f.pc = "none"
      BY <2>1, <2>2, <3>1, <3>2 DEF FlightOK
    <3>3. CASE f.pc # "none"
      <4>1. /\ h <= gen /\ f.token \in Issued
            /\ h = gen => Current(f.token) /\ Settled
            /\ f.pair # None <=> f.pc \in {"answered", "update"} /\ f.pair \in Issued
            /\ f.pair # None => /\ LoginOf(f.pair) = LoginOf(f.token) /\ f.token < f.pair
                                /\ f.token \in revoked /\ f.pair \notin superseded
            /\ h = gen /\ f.pc \in {"sent", "answered"} => writing = {} /\ ~ dirty /\ mem = f.token
            /\ f.pc = "update" =>
                    /\ f.pair # None /\ queue # <<>> /\ Next1 = Job("update", h, h)
                    /\ IF writing = {} THEN h = gen /\ Len(queue) = 1 /\ mem = f.token
                       ELSE IF h = gen THEN mem = f.pair
                       ELSE f.pair \in revs \cup lost \cup revoked
        BY <2>1, <3>1, <3>3 DEF FlightOK
      <4>2. f.pair \in Issued \cup {None}
        BY <4>1, <3>1, <1>1 DEF TypeOK
      <4>3. f.pair \in Issued' /\ f.pc \in {"answered", "update"} => f.pair # None
        BY <1>8
      <4>4. f.pair # None => LoginOf(f.pair)' = LoginOf(f.token)'
        BY <1>6, <4>1
      <4>5. Next1' = Next1
        BY <1>9
      <4> HIDE DEF Next1
      <4> QED BY <1>6, <1>9, <1>11, <1>21, <2>2, <3>1, <3>3, <4>1, <4>3, <4>4, <4>5 DEF FlightOK
    <3> QED BY <3>2, <3>3
  <2>3. CASE /\ h = g /\ flight[h].pc = "sent" /\ flight'[h].pc = "answered"
             /\ flight[h].token = t /\ flight'[h].token = t /\ flight'[h].pair = n
    <3>1. /\ h <= gen /\ (h = gen => Current(t) /\ Settled /\ writing = {} /\ ~ dirty /\ mem = t)
      BY <2>1, <2>3 DEF FlightOK
    <3>2. n \notin superseded /\ t \in Issued' /\ n \in Issued' /\ LoginOf(t)' = LoginOf(t)
      BY <1>2, <1>6, <1>10
    <3>3. h = gen => Current(t)' /\ Settled'
      BY <1>2, <1>11, <1>21, <3>1
    <3>4. PICK f : f = flight'[h]
      OBVIOUS
    <3>5. f.pc = "answered" /\ f.token = t /\ f.pair = n
      BY <2>3, <3>4
    <3> QED BY <1>7, <1>8, <1>9, <3>1, <3>2, <3>3, <3>4, <3>5 DEF FlightOK
  <2> QED BY <1>18, <2>2, <2>3
<1>24. \A h \in Gens : /\ flight'[h].token = flight[h].token
                       /\ flight'[h].pc = "none" <=> flight[h].pc = "none"
                       /\ flight'[h].pc \in {"sent", "update"} => flight'[h].pc = flight[h].pc
                       /\ flight[h].pc = "update" => flight'[h].pc = "update"
                       /\ flight[h].pair # None => flight'[h].pair = flight[h].pair
                       /\ flight[h].pc # "none" => flight[h].token \in Issued
  <2>1. \A h \in Gens : flight[h].pc # "none" => flight[h].token \in Issued
    BY <1>1 DEF Flights, FlightOK
  <2> QED BY <1>18, <2>1
<1>25. Apart'
  <2>1. \A h \in Gens : flight'[h].pc # "none" =>
          /\ flight[h].pc # "none" /\ flight[h].token \in Issued
          /\ LoginOf(flight[h].token)' = LoginOf(flight[h].token)
          /\ Current(flight[h].token)' <=> Current(flight[h].token)
    <3> SUFFICES ASSUME NEW h \in Gens, flight'[h].pc # "none"
                 PROVE  /\ flight[h].pc # "none" /\ flight[h].token \in Issued
                        /\ LoginOf(flight[h].token)' = LoginOf(flight[h].token)
                        /\ Current(flight[h].token)' <=> Current(flight[h].token)
      OBVIOUS
    <3>1. flight[h].pc # "none" /\ flight[h].token \in Issued /\ flight'[h].token = flight[h].token
      BY <1>24
    <3>2. PICK s \in Issued : s = flight[h].token /\ s = flight'[h].token
      BY <3>1
    <3>3. LoginOf(s)' = LoginOf(s) /\ (Current(s)' <=> Current(s))
      BY <1>6, <1>11
    <3>4. LoginOf(s)' = LoginOf(flight[h].token)' /\ (Current(s)' <=> Current(flight[h].token)')
      BY <3>2 DEF LoginOf, Current
    <3> QED BY <3>1, <3>2, <3>3, <3>4
  <2> QED BY <1>1, <1>9, <2>1 DEF Apart
<1>26. SupersededOK' /\ NotReused'
  BY <1>1, <1>9, <1>24 DEF SupersededOK, NotReused
<1>27. HoldingsOK'
  <2>1. Accounted \ {None} \subseteq Accounted' /\ n \in Accounted'
    <3>1. n \in lost' \/ \E h \in Gens : flight'[h].pair = n
      BY <1>5 DEF Rotated
    <3> QED BY <1>9, <1>24, <3>1 DEF Accounted
  <2>2. \A s \in Live' : Current(s)' => s = mem' \/ s \in Accounted'
    BY <1>1, <1>8, <1>9, <1>11, <1>13, <2>1 DEF HoldingsOK
  <2>3. \A x \in ({disk'} \cup writing') \ {None} : \A s \in Live' :
          LoginOf(s)' = LoginOf(x)' => s \in {x, mem'} \cup Accounted'
    <3> SUFFICES ASSUME NEW x \in ({disk} \cup writing) \ {None}, NEW s \in Live, s \in Issued,
                        LoginOf(s)' = LoginOf(x)'
                 PROVE  s \in {x, mem} \cup Accounted'
      BY <1>9, <1>13, <2>1
    <3>1. LoginOf(s) = LoginOf(x)
      BY <1>6, <1>10
    <3> QED BY <1>1, <1>8, <2>1, <3>1 DEF HoldingsOK
  <2>4. mem # None => LoginOf(mem)' = LoginOf(mem)
    BY <1>6, <1>9, <1>10 DEF LoginOf
  <2>5. disk # None => LoginOf(disk)' = LoginOf(disk)
    BY <1>6, <1>9, <1>10 DEF LoginOf
  <2>6. ASSUME NEW s \in Live', LoginOf(s)' \in signedOut'
        PROVE  s \in lost' \cup revs' \/ \E h \in Gens : flight'[h].pair = s /\ h # gen'
    <3>1. CASE s = n
      <4>1. LoginOf(t) \in signedOut
        BY <1>7, <1>9, <2>6, <3>1
      <4>2. ASSUME g \in Gens, g = gen, flight[g].pc = "sent", flight[g].token = t PROVE FALSE
        <5>1. mem = t /\ mem # None
          BY <1>1, <1>2, <1>8, <4>2 DEF Flights, FlightOK
        <5> QED BY <1>1, <4>1, <5>1 DEF HoldingsOK
      <4> QED BY <1>5, <1>9, <3>1, <4>2 DEF Rotated
    <3>2. CASE s \in Live /\ s \in Issued
      <4>1. LoginOf(s) \in signedOut /\ s # None
        BY <1>6, <1>8, <1>9, <2>6, <3>2
      <4>2. s \in lost \cup revs \/ \E h \in Gens : flight[h].pair = s /\ h # gen
        BY <1>1, <3>2, <4>1 DEF HoldingsOK
      <4> QED BY <1>9, <1>24, <4>1, <4>2
    <3> QED BY <1>13, <3>1, <3>2
  <2> QED BY <1>1, <1>9, <2>2, <2>3, <2>4, <2>5, <2>6 DEF HoldingsOK
<1> QED BY <1>14, <1>16, <1>17, <1>19, <1>20, <1>22, <1>23, <1>25, <1>26, <1>27
           DEF Inductive, Jobs, Flights

LEMMA AnswerKeeps ==
  ASSUME Inductive, NEW g \in Gens, Answer(g)
  PROVE  Inductive'
<1>1. /\ ScreenIsTrue /\ TypeOK /\ NotReused /\ LoginsOK /\ QueueOK /\ StoreOK /\ CallsOK /\ Apart
      /\ SupersededOK /\ HoldingsOK /\ Jobs /\ Flights /\ gen \in Gens
  BY Parts DEF TypeOK
<1>2. flight[g].pc = "sent" /\ FlightOK(g)
  BY <1>1 DEF Answer, Flights
<1>3. PICK f : f = flight[g]
  OBVIOUS
<1>4. f \in FlightType /\ f.token \in Issued /\ f.pair = None
  BY <1>1, <1>2, <1>3 DEF TypeOK, FlightOK
<1>5. /\ lost \subseteq Issued /\ stray \subseteq Issued
      /\ UNCHANGED <<account, store, io, screen, call, revs, superseded, signedOut, faults, stray, lost>>
  BY <1>1 DEF Answer, TypeOK, net, history
<1>6. CASE /\ Rotates(f.token) /\ Rotate(f.token)
           /\ flight' = [flight EXCEPT ![g].pc = "answered", ![g].pair = Len(tok')]
  <2>1. PICK n : n = Len(tok) + 1
    OBVIOUS
  <2>2. n \in Tokens /\ Len(tok) < MaxTokens
    BY <1>1, <1>6, <2>1, IssuedPairs DEF Rotate
  <2>3. PICK T : T = [user : Users, login : Tokens]
    OBVIOUS
  <2>4. tok \in Seq(T) /\ f.token \in 1..Len(tok)
    BY <1>1, <1>4, <2>3, IssuedPairs DEF TypeOK
  <2>5. PICK r : r = tok[f.token]
    OBVIOUS
  <2>6. r \in T
    BY ONLY <2>4, <2>5
  <2>7. Len(tok') = n
    <3>1. tok' = Append(tok, r)
      BY <1>6, <2>5 DEF Rotate
    <3> QED BY ONLY <2>1, <2>4, <2>6, <3>1
  <2>8. PICK e : e = [f EXCEPT !.pc = "answered", !.pair = n]
    OBVIOUS
  <2>9. e \in FlightType
    BY ONLY <1>4, <2>2, <2>8 DEF FlightType
  <2>10. e.pc = "answered" /\ e.token = f.token /\ e.pair = n
    BY ONLY <1>4, <2>8 DEF FlightType
  <2>11. flight' = [flight EXCEPT ![g] = e]
    BY <1>1, <1>3, <1>6, <2>7, <2>8 DEF TypeOK
  <2>12. flight' \in [Gens -> FlightType] /\ flight'[g] = e /\ \A h \in Gens \ {g} : flight'[h] = flight[h]
    BY <1>1, <2>9, <2>11 DEF TypeOK
  <2>13. f.token \in Live
    BY <1>4, <1>6 DEF Live, Issued, Rotates
  <2>14. Rotated(f.token, g)
    BY <1>2, <1>3, <1>5, <1>6, <2>1, <2>10, <2>12, <2>13 DEF Rotated, Rotate
  <2> QED BY <2>14, RotatedKeeps
<1>7. CASE /\ ~ Rotates(f.token) /\ UNCHANGED <<tok, revoked>>
           /\ flight' = [flight EXCEPT ![g].pc = "answered"]
  <2>1. PICK e : e = [f EXCEPT !.pc = "answered"]
    OBVIOUS
  <2>2. e \in FlightType
    BY ONLY <1>4, <2>1 DEF FlightType
  <2>3. e.pc = "answered" /\ e.token = f.token /\ e.pair = f.pair
    BY ONLY <1>4, <2>1 DEF FlightType
  <2>4. flight' = [flight EXCEPT ![g] = e]
    BY <1>3, <1>7, <2>1
  <2>5. flight' \in [Gens -> FlightType] /\ flight'[g] = e /\ \A h \in Gens \ {g} : flight'[h] = flight[h]
    BY <1>1, <2>2, <2>4 DEF TypeOK
  <2>6. UNCHANGED <<account, tok, revoked, gen, loaded, mem, dirty, disk, queue, writing, screen, call,
                    revs, stray, superseded, signedOut, lost, faults>>
    BY <1>5, <1>7 DEF store, io
  <2>7. (\A s : Current(s)' <=> Current(s)) /\ (\A s : LoginOf(s)' = LoginOf(s)) /\ Issued' = Issued
        /\ Live' = Live /\ (Settled' <=> Settled) /\ None \notin Issued
    BY <1>1, <2>6, IssuedPairs DEF Current, LoginOf, Issued, Live, Settled
  <2>8. ScreenIsTrue' /\ LoginsOK' /\ QueueOK' /\ CallsOK'
    <3>1. TypeOK'
      BY <1>1, <2>5, <2>6, <2>7 DEF TypeOK
    <3> QED BY <1>1, <2>6, <2>7, <3>1 DEF ScreenIsTrue, LoginsOK, OneSuccessor, QueueOK, CallsOK
  <2>9. \A h \in Gens : /\ flight'[h].token = flight[h].token /\ flight'[h].pair = flight[h].pair
                        /\ flight'[h].pc = "none" <=> flight[h].pc = "none"
                        /\ flight'[h].pc = "sent" => flight[h].pc = "sent"
                        /\ flight[h].pc # "sent" => flight'[h] = flight[h]
    BY <1>2, <1>3, <2>3, <2>5
  <2>10. Jobs'
    <3> SUFFICES ASSUME NEW i \in DOMAIN queue PROVE JobOK(queue[i])'
      BY <2>6 DEF Jobs
    <3>1. PICK j : j = queue[i]
      OBVIOUS
    <3>2. j \in JobType /\ JobOK(j)
      <4>1. queue \in Seq(JobType)
        BY <1>1 DEF TypeOK
      <4>2. queue[i] \in JobType
        BY ONLY <4>1
      <4> QED BY <1>1, <3>1, <4>2 DEF Jobs
    <3>3. j.who \in Gens => flight[j.who].pc # "sent"
      BY <3>2 DEF JobOK, Serves, JobType
    <3>4. j.who \in Gens => flight'[j.who] = flight[j.who]
      BY <2>9, <3>3
    <3>5. JobOK(j)'
      BY <2>6, <3>2, <3>4 DEF JobOK
    <3> QED BY <2>6, <3>1, <3>5
  <2>11. StoreOK'
    BY <1>1, <2>6, <2>9 DEF StoreOK
  <2>12. Flights'
    <3> SUFFICES ASSUME NEW h \in Gens PROVE FlightOK(h)'
      BY DEF Flights
    <3>1. FlightOK(h)
      BY <1>1 DEF Flights
    <3>2. CASE h = g
      <4>1. flight'[h] = e
        BY <2>5, <3>2
      <4>2. /\ h <= gen /\ (h = gen => Current(f.token) /\ Settled /\ writing = {} /\ ~ dirty /\ mem = f.token)
        BY <1>2, <1>3, <3>1, <3>2 DEF FlightOK
      <4> QED BY <1>4, <2>3, <2>6, <2>7, <4>1, <4>2 DEF FlightOK
    <3>3. CASE h # g
      <4>1. flight'[h] = flight[h]
        BY <2>5, <3>3
      <4> QED BY <2>6, <2>7, <3>1, <4>1 DEF FlightOK
    <3> QED BY <3>2, <3>3
  <2>13. Apart' /\ SupersededOK' /\ NotReused'
    BY <1>1, <2>6, <2>7, <2>9 DEF Apart, SupersededOK, NotReused
  <2>14. HoldingsOK'
    <3>1. Accounted' = Accounted
      BY <2>6, <2>9 DEF Accounted
    <3> QED BY <1>1, <2>6, <2>7, <2>9, <3>1 DEF HoldingsOK, LoginOf
  <2> QED BY <2>8, <2>10, <2>11, <2>12, <2>13, <2>14 DEF Inductive, Jobs, Flights
<1> QED BY <1>3, <1>6, <1>7 DEF Answer

LEMMA AnswerStrayKeeps ==
  ASSUME Inductive, NEW t \in Tokens, AnswerStray(t)
  PROVE  Inductive'
<1>1. TypeOK /\ t \in Issued /\ stray' \subseteq Issued /\ lost \subseteq Issued /\ flight \in [Gens -> FlightType]
  BY Parts DEF TypeOK, AnswerStray
<1>2. UNCHANGED <<account, store, io, screen, call, flight, revs, superseded, signedOut, faults>>
  BY DEF AnswerStray
<1>3. CASE Rotates(t) /\ Rotate(t) /\ lost' = lost \cup {Len(tok')}
  <2>1. PICK T : T = [user : Users, login : Tokens]
    OBVIOUS
  <2>2. tok \in Seq(T) /\ t \in 1..Len(tok)
    BY <1>1, <2>1, IssuedPairs DEF TypeOK
  <2>3. PICK r : r = tok[t]
    OBVIOUS
  <2>4. tok' = Append(tok, r) /\ Len(tok) < MaxTokens /\ revoked' = revoked \cup {t}
    BY <1>3, <2>3 DEF Rotate
  <2>5. Len(tok') = Len(tok) + 1
    <3>1. r \in T
      BY ONLY <2>2, <2>3
    <3> QED BY ONLY <2>2, <2>4, <3>1
  <2>6. t \in Live
    BY <1>1, <1>3 DEF Live, Issued, Rotates
  <2>7. Rotated(t, None)
    BY <1>1, <1>2, <1>3, <2>3, <2>4, <2>5, <2>6 DEF Rotated
  <2> QED BY <2>7, RotatedKeeps
<1>4. CASE UNCHANGED <<tok, revoked, lost>>
  <2>1. QueueKept(0) /\ FlightsKept(0)
    BY <1>1, <1>2, SameQueue, SameFlights DEF io
  <2>2. NetKept
    BY <1>1, <1>2, <1>4 DEF NetKept, TypeOK
  <2>3. CallsKept(0) /\ ScreenKept(0)
    BY <1>1, <1>2 DEF CallsKept, ScreenKept, TypeOK
  <2> QED BY <1>2, <1>4, <2>1, <2>2, <2>3, WithinSession DEF server, io
<1> QED BY <1>3, <1>4 DEF AnswerStray

LEMMA RevokeKeeps ==
  ASSUME Inductive, NEW t \in Tokens, Revoke(t)
  PROVE  Inductive'
<1>1. /\ ScreenIsTrue /\ TypeOK /\ NotReused /\ LoginsOK /\ QueueOK /\ StoreOK /\ CallsOK /\ Apart
      /\ SupersededOK /\ HoldingsOK /\ Jobs /\ Flights
  BY Parts
<1>2. UNCHANGED <<account, tok, gen, loaded, mem, dirty, disk, queue, writing, screen, call, flight,
                  stray, superseded, signedOut, faults>>
  BY DEF Revoke, store, io
<1>3. /\ t \in revs /\ t \in Issued /\ revs' = revs \ {t}
      /\ \/ revoked' = revoked \cup {t} /\ lost' = lost
         \/ revoked' = revoked /\ lost' = lost \cup {t}
  BY <1>1 DEF Revoke, TypeOK
<1>4. /\ Issued' = Issued /\ (\A s : Current(s)' <=> Current(s)) /\ (\A s : LoginOf(s)' = LoginOf(s))
      /\ (Settled' <=> Settled)
  BY <1>2 DEF Current, LoginOf, Issued, Settled
<1>5. Live' \subseteq Live /\ \A s \in Live' : s \in revs \cup lost => s \in revs' \cup lost'
  BY <1>2, <1>3 DEF Live
<1>6. ScreenIsTrue' /\ LoginsOK' /\ QueueOK' /\ CallsOK'
  <2>1. TypeOK'
    BY <1>1, <1>2, <1>3, <1>4 DEF TypeOK
  <2>2. ScreenIsTrue' /\ QueueOK' /\ CallsOK'
    BY <1>1, <1>2, <1>4, <2>1 DEF ScreenIsTrue, QueueOK, CallsOK
  <2>3. OneSuccessor'
    BY <1>1, <1>2, <1>5 DEF LoginsOK, OneSuccessor
  <2> QED BY <1>1, <1>2, <1>4, <2>2, <2>3 DEF LoginsOK
<1>7. Jobs' /\ StoreOK' /\ Apart' /\ SupersededOK' /\ NotReused'
  BY <1>1, <1>2, <1>4 DEF Jobs, JobOK, StoreOK, Apart, SupersededOK, NotReused
<1>8. Flights'
  <2> SUFFICES ASSUME NEW h \in Gens PROVE FlightOK(h)'
    BY DEF Flights
  <2>1. FlightOK(h)
    BY <1>1 DEF Flights
  <2>2. \A s : s \in revs \cup lost \cup revoked => s \in revs' \cup lost' \cup revoked'
    BY <1>3
  <2>3. revoked \subseteq revoked'
    BY <1>3
  <2> QED BY <1>2, <1>4, <2>1, <2>2, <2>3 DEF FlightOK
<1>9. HoldingsOK'
  <2>1. \A s \in Live' : s \in Accounted => s \in Accounted'
    BY <1>2, <1>5 DEF Accounted
  <2>2. \A s \in Live' : Current(s)' => s = mem' \/ s \in Accounted'
    BY <1>1, <1>2, <1>4, <1>5, <2>1 DEF HoldingsOK
  <2>3. \A x \in ({disk'} \cup writing') \ {None} : \A s \in Live' :
          LoginOf(s)' = LoginOf(x)' => s \in {x, mem'} \cup Accounted'
    BY <1>1, <1>2, <1>4, <1>5, <2>1 DEF HoldingsOK
  <2>4. \A s \in Live' : LoginOf(s)' \in signedOut' =>
          s \in lost' \cup revs' \/ \E h \in Gens : flight'[h].pair = s /\ h # gen'
    BY <1>1, <1>2, <1>4, <1>5 DEF HoldingsOK
  <2>5. /\ mem' # None => LoginOf(mem)' \notin signedOut'
        /\ ~ loaded' /\ disk' # None => LoginOf(disk)' \notin signedOut'
    BY <1>1, <1>2 DEF HoldingsOK, LoginOf
  <2> QED BY <2>2, <2>3, <2>4, <2>5 DEF HoldingsOK
<1> QED BY <1>6, <1>7, <1>8, <1>9 DEF Inductive, Jobs, Flights

LEMMA ChangeStatusKeeps ==
  ASSUME Inductive, NEW u \in Users, ChangeStatus(u)
  PROVE  Inductive'
<1>1. TypeOK
  BY Parts
<1>2. account' \in [Users -> {"ACTIVE", "SUSPENDED"}]
  BY <1>1 DEF TypeOK, ChangeStatus
<1>3. UNCHANGED <<tok, revoked, gen, loaded, mem, dirty, disk, queue, writing, screen, call, flight,
                  revs, stray, superseded, signedOut, lost, faults>>
  BY DEF ChangeStatus, store, io, net, history
<1>4. TypeOK'
  BY <1>1, <1>2, <1>3 DEF TypeOK, Issued
<1>5. ScreenIsTrue' /\ LoginsOK' /\ NotReused' /\ QueueOK' /\ StoreOK' /\ CallsOK'
  <2>1. ScreenIsTrue' /\ NotReused' /\ QueueOK' /\ StoreOK'
    BY <1>3, <1>4, Parts DEF ScreenIsTrue, NotReused, QueueOK, StoreOK
  <2>2. LoginsOK' /\ CallsOK'
    BY <1>3, Parts DEF LoginsOK, OneSuccessor, Live, LoginOf, Issued, CallsOK, Current, Settled
  <2> QED BY <2>1, <2>2
<1>6. Apart' /\ SupersededOK' /\ HoldingsOK'
  BY <1>3, Parts DEF Apart, SupersededOK, HoldingsOK, Accounted, Current, Live, LoginOf, Issued
<1>7. Jobs' /\ Flights'
  BY <1>3, Parts DEF Jobs, JobOK, Flights, FlightOK, Current, Settled, LoginOf, Issued
<1> QED BY <1>5, <1>6, <1>7 DEF Inductive, Jobs, Flights

-----------------------------------------------------------------------------
(* The app is killed and started again.                                    *)

LEMMA Waiting ==
  ASSUME NEW g \in Gens
  PROVE  LET x == Job("snapshot", g, Main)
         IN  /\ <<x>> \in Seq(JobType) /\ DOMAIN <<x>> = {1} /\ Len(<<x>>) = 1
             /\ <<x>>[1] = x /\ x.kind = "snapshot" /\ x.gen = g /\ x.who = Main
             /\ Main \notin Gens
<1>1. PICK x : x = Job("snapshot", g, Main)
  OBVIOUS
<1>2. x \in JobType /\ x.kind = "snapshot" /\ x.gen = g /\ x.who = Main /\ Main \notin Gens
  BY <1>1, JobTypes DEF Job, Bounded
<1>3. <<x>> \in Seq(JobType) /\ DOMAIN <<x>> = {1} /\ Len(<<x>>) = 1 /\ <<x>>[1] = x
  BY ONLY <1>2
<1> QED BY <1>1, <1>2, <1>3

\* A queue with nothing but a restore.
LEMMA OneRestore ==
  ASSUME gen \in Gens, queue = <<Job("snapshot", gen, Main)>>
  PROVE  /\ QueueOK /\ Jobs /\ queue \in Seq(JobType)
         /\ \A i \in DOMAIN queue : queue[i].gen = gen
<1>1. PICK x : x = Job("snapshot", gen, Main)
  OBVIOUS
<1>2. /\ queue \in Seq(JobType) /\ DOMAIN queue = {1} /\ queue[1] = x
      /\ x.kind = "snapshot" /\ x.gen = gen /\ x.who = Main /\ Main \notin Gens
  BY <1>1, Waiting
<1>3. QueueOK
  <2>1. \A k \in 1..1 : k = 1
    OBVIOUS
  <2>2. gen \in Nat
    OBVIOUS
  <2> QED BY <1>2, <2>1, <2>2 DEF QueueOK
<1>4. Main # Logout
  BY DEF Bounded
<1>5. Jobs
  BY <1>2, <1>4 DEF Jobs, JobOK
<1> QED BY <1>2, <1>3, <1>5

\* Nothing is loaded, and nothing under way.
LEMMA Unloaded ==
  ASSUME TypeOK, LoginsOK, ~ loaded, mem = None, writing = {}, superseded = {},
         screen = Loading, queue = <<Job("snapshot", gen, Main)>>,
         \A c \in Calls : call[c].token = None, flight = [g \in Gens |-> NoFlight], HoldingsOK
  PROVE  Inductive
<1>1. QueueOK /\ Jobs /\ \A i \in DOMAIN queue : queue[i].gen = gen
  BY OneRestore DEF TypeOK
<1>2. ScreenIsTrue
  BY DEF ScreenIsTrue, Loading
<1>3. \A g \in Gens : flight[g] = NoFlight /\ flight[g].pc = "none"
  BY DEF NoFlight
<1>4. StoreOK /\ CallsOK
  BY <1>1, <1>3 DEF StoreOK, CallsOK, Loading
<1>5. Flights /\ Apart /\ SupersededOK /\ NotReused
  BY <1>3 DEF Flights, FlightOK, Apart, SupersededOK, NotReused
<1> QED BY <1>1, <1>2, <1>4, <1>5 DEF Inductive, Jobs, Flights

LEMMA RelaunchKeeps ==
  ASSUME Inductive, Relaunch
  PROVE  Inductive'
<1>1. /\ TypeOK /\ LoginsOK /\ HoldingsOK /\ Flights /\ gen \in Gens
  BY Parts DEF TypeOK
<1>2. PICK n : n = [pc |-> "check", gen |-> gen, token |-> None]
  OBVIOUS
<1>3. n \in CallType /\ n.token = None
  BY <1>1, <1>2 DEF CallType
<1>4. /\ loaded' = FALSE /\ mem' = None /\ dirty' = FALSE /\ writing' = {} /\ superseded' = {}
      /\ screen' = Loading /\ queue' = <<Job("snapshot", gen, Main)>>
      /\ flight' = [g \in Gens |-> NoFlight] /\ disk' \in {disk} \cup writing
      /\ call' = [c \in Calls |-> IF c = Main THEN n ELSE Idle]
      /\ UNCHANGED <<account, tok, revoked, gen, revs>>
  BY <1>2 DEF Relaunch, server
<1>5. call' \in [Calls -> CallType] /\ \A c \in Calls : call'[c].token = None
  BY <1>3, <1>4, Idles
<1>6. \A g \in Gens : /\ flight[g].pc = "sent" => flight[g].token \in Issued
                      /\ flight[g].pair \in Issued \cup {None}
  BY <1>1 DEF Flights, FlightOK, NoFlight
<1>7. /\ lost' = lost \cup ((({mem} \ {disk'}) \cup {flight[g].pair : g \in Gens}) \ {None})
      /\ signedOut' = {l \in signedOut : disk' = None \/ tok[disk'].login # l}
  BY DEF Relaunch
<1>8. /\ (\A t : LoginOf(t)' = LoginOf(t)) /\ Issued' = Issued /\ Live' = Live /\ None \notin Issued
  BY <1>1, <1>4, IssuedPairs DEF LoginOf, Issued, Live
<1>9. TypeOK'
  <2>1. /\ queue' \in Seq(JobType)
    BY <1>1, <1>4, Waiting
  <2>2. flight' \in [Gens -> FlightType]
    BY <1>4, Idles
  <2>3. lost' \subseteq Issued
    BY <1>1, <1>6, <1>7 DEF TypeOK
  <2>4. stray' \subseteq Issued
    BY <1>1, <1>6 DEF Relaunch, TypeOK
  <2>5. faults' \in Nat
    BY <1>1 DEF Relaunch, Fault, TypeOK
  <2>6. signedOut' \subseteq Issued
    BY <1>1, <1>7 DEF TypeOK
  <2>7. disk' \in Issued \cup {None} /\ revs' \subseteq Issued
    BY <1>1, <1>4 DEF TypeOK
  <2>8. /\ account \in [Users -> {"ACTIVE", "SUSPENDED"}]
        /\ tok \in Seq([user : Users, login : Tokens]) /\ Len(tok) <= MaxTokens
        /\ revoked \subseteq Issued
    BY <1>1 DEF TypeOK
  <2> QED BY ONLY <1>1, <1>4, <1>5, <1>8, <2>1, <2>2, <2>3, <2>4, <2>5, <2>6, <2>7, <2>8 DEF TypeOK
<1>10. LoginsOK'
  BY <1>1, <1>4, <1>8 DEF LoginsOK, OneSuccessor
<1>11. \A t \in Live : t \in Issued /\ t # None
  BY <1>8 DEF Live, Issued
<1>12. \A t \in Live : t \in Accounted => t \in lost' \cup revs'
  BY <1>4, <1>7, <1>11 DEF Accounted
<1>13. \A t \in Live : t = mem => t = disk' \/ t \in lost'
  BY <1>7, <1>11
<1>14. HoldingsOK'
  <2>1. \A t \in Live' : ~ Current(t)'
    BY <1>4 DEF Current
  <2>2. \A x \in ({disk'} \cup writing') \ {None} : \A t \in Live' :
          LoginOf(t)' = LoginOf(x)' => t \in {x, mem'} \cup Accounted'
    <3> SUFFICES ASSUME disk' # None, NEW t \in Live, LoginOf(t)' = LoginOf(disk)'
                 PROVE  t \in {disk'} \cup Accounted'
      BY <1>4, <1>8 DEF LoginOf
    <3>1. PICK x : x = disk'
      OBVIOUS
    <3>2. x \in ({disk} \cup writing) \ {None} /\ LoginOf(t) = LoginOf(x)
      BY <1>4, <3>1 DEF LoginOf
    <3>3. t \in {x, mem} \cup Accounted
      BY <1>1, <3>2 DEF HoldingsOK
    <3> QED BY <1>12, <1>13, <3>1, <3>3 DEF Accounted
  <2>3. disk' # None => LoginOf(disk)' \notin signedOut'
    BY <1>4, <1>7 DEF LoginOf
  <2>4. ASSUME NEW t \in Live', LoginOf(t)' \in signedOut'
        PROVE  t \in lost' \cup revs'
    <3>1. t \in Live /\ LoginOf(t) \in signedOut
      BY <1>7, <1>8, <2>4
    <3>2. t \in Accounted
      BY <1>1, <3>1 DEF HoldingsOK, Accounted
    <3> QED BY <1>12, <3>1, <3>2
  <2> QED BY <1>4, <2>1, <2>2, <2>3, <2>4 DEF HoldingsOK
<1>15. PICK x : x = Job("snapshot", gen, Main)
  OBVIOUS
<1>16. /\ DOMAIN queue' = {1} /\ queue'[1] = x
       /\ x.kind = "snapshot" /\ x.gen = gen' /\ x.who = Main /\ Main \notin Gens
       /\ Main # Logout /\ gen' \in Nat
  <2>1. queue' = <<x>>
    BY <1>4, <1>15
  <2>2. <<x>> \in Seq(JobType) /\ DOMAIN <<x>> = {1} /\ <<x>>[1] = x
        /\ x.kind = "snapshot" /\ x.gen = gen /\ x.who = Main /\ Main \notin Gens
    BY <1>1, <1>15, Waiting
  <2>3. Main # Logout /\ gen' \in Nat
    BY <1>1, <1>4 DEF Bounded
  <2> QED BY <1>4, <2>1, <2>2, <2>3
<1>17. QueueOK'
  <2>1. \A k \in 1..1 : k = 1
    OBVIOUS
  <2> QED BY ONLY <1>16, <2>1 DEF QueueOK
<1>18. Jobs' /\ \A i \in DOMAIN queue' : queue'[i].gen = gen'
  BY ONLY <1>16 DEF Jobs, JobOK
<1>19. ScreenIsTrue'
  BY <1>4, <1>9 DEF ScreenIsTrue, Loading
<1>20. \A g \in Gens : flight'[g] = NoFlight /\ flight'[g].pc = "none"
  BY <1>4 DEF NoFlight
<1>21. StoreOK' /\ CallsOK'
  BY <1>4, <1>5, <1>18, <1>20 DEF StoreOK, CallsOK, Loading
<1>22. Flights' /\ Apart' /\ SupersededOK' /\ NotReused'
  BY <1>4, <1>20 DEF Flights, FlightOK, Apart, SupersededOK, NotReused
<1> QED BY <1>10, <1>14, <1>17, <1>18, <1>19, <1>21, <1>22 DEF Inductive, Jobs, Flights

LEMMA InitInductive ==
  ASSUME Init
  PROVE  Inductive
<1>1. PICK u \in Users : \/ tok = <<[user |-> u, login |-> 1]>> /\ disk = 1
                         \/ tok = <<>> /\ disk = None
  BY DEF Init
<1>2. PICK r : r = [user |-> u, login |-> 1]
  OBVIOUS
<1>3. r \in [user : Users, login : Tokens] /\ r.login = 1
  BY ONLY <1>2, SessionsAssumption DEF Tokens
<1>4. /\ tok \in Seq([user : Users, login : Tokens])
      /\ \/ tok = <<r>> /\ disk = 1 /\ Len(tok) = 1 /\ DOMAIN tok = {1} /\ tok[1].login = 1
         \/ tok = <<>> /\ disk = None /\ Len(tok) = 0 /\ DOMAIN tok = {}
  <2>1. PICK T : T = [user : Users, login : Tokens]
    OBVIOUS
  <2>2. r \in T /\ (tok = <<r>> \/ tok = <<>>)
    BY <1>1, <1>2, <1>3, <2>1
  <2>3. tok \in Seq(T)
    <3>1. <<r>> \in Seq(T) /\ <<>> \in Seq(T)
      BY ONLY <2>2
    <3> QED BY <2>2, <3>1
  <2>4. tok = <<r>> => Len(tok) = 1 /\ DOMAIN tok = {1} /\ tok[1] = r
    BY ONLY <2>2
  <2>5. tok = <<>> => Len(tok) = 0 /\ DOMAIN tok = {}
    OBVIOUS
  <2> QED BY <1>1, <1>2, <1>3, <2>1, <2>3, <2>4, <2>5
<1>5. /\ revoked = {} /\ gen = 0 /\ loaded = FALSE /\ mem = None /\ dirty = FALSE
      /\ queue = <<Job("snapshot", 0, Main)>> /\ writing = {} /\ screen = Loading
      /\ call = [c \in Calls |-> IF c = Main THEN [Idle EXCEPT !.pc = "check"] ELSE Idle]
      /\ flight = [g \in Gens |-> NoFlight]
      /\ revs = {} /\ stray = {} /\ superseded = {} /\ signedOut = {} /\ lost = {} /\ faults = 0
      /\ account = [v \in Users |-> "ACTIVE"]
  BY DEF Init
<1>6. PICK n : n = [Idle EXCEPT !.pc = "check"]
  OBVIOUS
<1>7. n \in CallType /\ n.token = None
  <2>1. 0 \in Gens
    OBVIOUS
  <2> QED BY ONLY <1>6, <2>1 DEF Idle, CallType
<1>8. call \in [Calls -> CallType] /\ \A c \in Calls : call[c].token = None
  BY <1>5, <1>6, <1>7, Idles
<1>9. TypeOK
  <2>1. queue \in Seq(JobType) /\ gen \in Gens
    <3>1. 0 \in Gens
      OBVIOUS
    <3> QED BY <1>5, <3>1, Waiting
  <2>2. flight \in [Gens -> FlightType]
    BY <1>5, Idles
  <2>3. disk \in Issued \cup {None} /\ Len(tok) <= MaxTokens
    <3>1. \/ disk = 1 /\ Len(tok) = 1 /\ DOMAIN tok = {1}
          \/ disk = None /\ Len(tok) = 0
      BY ONLY <1>4
    <3>2. MaxTokens \in Nat \ {0}
      BY SessionsAssumption
    <3>3. disk \in DOMAIN tok \cup {None}
      BY ONLY <3>1
    <3>4. Len(tok) <= MaxTokens
      <4>1. 1 <= MaxTokens /\ 0 <= MaxTokens
        BY ONLY <3>2
      <4> QED BY ONLY <3>1, <4>1
    <3> QED BY <3>3, <3>4 DEF Issued
  <2> QED BY <1>4, <1>5, <1>8, <2>1, <2>2, <2>3 DEF TypeOK
<1>10. LoginsOK
  BY <1>4 DEF LoginsOK, LoginOf, OneSuccessor, Live, Issued
<1>11. HoldingsOK
  BY <1>4, <1>5 DEF HoldingsOK, Live, LoginOf, Current
<1> QED BY <1>5, <1>8, <1>9, <1>10, <1>11, Unloaded

-----------------------------------------------------------------------------
(* The theorems.                                                           *)

LEMMA NextInductive ==
  ASSUME Inductive, [Next]_vars
  PROVE  Inductive'
<1>1. CASE DropWork
  BY <1>1, DropWorkKeeps
<1>2. CASE BeginWork
  BY <1>2, BeginWorkKeeps
<1>3. CASE EndWork
  BY <1>3, EndWorkKeeps
<1>4. CASE KeychainFails
  BY <1>4, KeychainFailsKeeps
<1>5. CASE SignOut
  BY <1>5, SignOutKeeps
<1>6. CASE Restore
  BY <1>6, RestoreKeeps
<1>7. CASE Relaunch
  BY <1>7, RelaunchKeeps
<1>8. ASSUME NEW u \in Users, Login(u) \/ ChangeStatus(u) PROVE Inductive'
  BY <1>8, LoginKeeps, ChangeStatusKeeps
<1>9. ASSUME NEW c \in Calls, Call(c) \/ Timeout(c) \/ NoAnswer(c) PROVE Inductive'
  BY <1>9, CallKeeps, TimeoutKeeps, NoAnswerKeeps
<1>10. ASSUME NEW c \in Calls, Success(c) \/ Inactive(c) \/ Expired(c) PROVE Inductive'
  BY <1>10, AnsweredKeeps, ExpiredKeeps
<1>11. ASSUME NEW g \in Gens, Answer(g) \/ RefreshLost(g) PROVE Inductive'
  BY <1>11, AnswerKeeps, RefreshLostKeeps
<1>12. ASSUME NEW g \in Gens, Refreshed(g) PROVE Inductive'
  BY <1>12, LateKeeps, RefreshedKeeps
<1>13. ASSUME NEW g \in Gens, Refused(g) PROVE Inductive'
  <2>1. CASE g # gen
    BY <1>13, <2>1, LateKeeps
  <2>2. CASE g = gen
    <3>1. gen' # gen
      <4>1. gen \in Nat
        BY Parts DEF TypeOK
      <4> QED BY <1>13, <2>2, <4>1 DEF Refused
    <3> QED BY <1>13, <2>2, <3>1, RefusedKeeps
  <2> QED BY <2>1, <2>2
<1>14. ASSUME NEW t \in Tokens, AnswerStray(t) \/ Revoke(t) PROVE Inductive'
  BY <1>14, AnswerStrayKeeps, RevokeKeeps
<1>15. CASE UNCHANGED vars
  <2>1. UNCHANGED <<account, tok, revoked, gen, loaded, mem, dirty, disk, queue, writing, screen, call,
                    flight, revs, stray, superseded, signedOut, lost, faults>>
    BY <1>15 DEF vars, server, store, io, net, history
  <2>2. ScreenIsTrue' /\ NotReused' /\ QueueOK' /\ StoreOK'
    BY <2>1, Parts DEF ScreenIsTrue, TypeOK, Issued, NotReused, QueueOK, StoreOK
  <2>3. LoginsOK' /\ CallsOK'
    BY <2>1, Parts DEF LoginsOK, OneSuccessor, Live, LoginOf, Issued, CallsOK, Current, Settled
  <2>4. Apart' /\ SupersededOK' /\ HoldingsOK'
    BY <2>1, Parts DEF Apart, SupersededOK, HoldingsOK, Accounted, Current, Live, LoginOf, Issued
  <2>5. Jobs' /\ Flights'
    BY <2>1, Parts DEF Jobs, JobOK, Flights, FlightOK, Current, Settled, LoginOf, Issued
  <2> QED BY <2>2, <2>3, <2>4, <2>5 DEF Inductive, Jobs, Flights
<1> QED BY <1>1, <1>2, <1>3, <1>4, <1>5, <1>6, <1>7, <1>8, <1>9, <1>10, <1>11, <1>12, <1>13, <1>14,
           <1>15 DEF Next

\* The inductive invariant: what the screen, the store, its queue, the calls, the refreshes
\* and the keychain have to do with one another (session-store.ts, http-client.ts,
\* auth-session.ts, rotation.ts).
THEOREM InductiveInvariant == Spec => []Inductive
<1>1. Init => Inductive
  BY InitInductive
<1>2. Inductive /\ [Next]_vars => Inductive'
  BY NextInductive
<1> QED BY <1>1, <1>2, PTL DEF Spec

\* session-store.ts:25-30, :71-79, auth-session.ts:69-173: what the screen says is what the
\* phone holds, whatever sign-outs, logins, refreshes and keychain writes overlap.
THEOREM ScreenAlwaysTrue == Spec => []ScreenIsTrue
<1>1. Inductive => ScreenIsTrue
  BY DEF Inductive
<1> QED BY <1>1, InductiveInvariant, PTL

\* session-store.ts:59-69, rotation.ts:28-52: the app does not present a token again whose
\* successor it has, and of each login one pair at most can still be refreshed.
THEOREM TokensUsedOnce == Spec => []UsedOnce
<1>1. Inductive => UsedOnce
  BY DEF Inductive, UsedOnce, LoginsOK
<1> QED BY <1>1, InductiveInvariant, PTL

\* http-client.ts:75-80, auth-session.ts:134-151: every pair of a login that the user ended
\* is revoked, about to be, or went missing where the code cannot see it.
THEOREM NoPairForgotten == Spec => []NothingForgotten
<1>1. Inductive => NothingForgotten
  BY DEF Inductive, HoldingsOK, NothingForgotten, LoginOf
<1> QED BY <1>1, InductiveInvariant, PTL

=============================================================================
