------------------------------ MODULE Sessions ------------------------------
(***************************************************************************)
(* The sign-in of one phone: the app's session store with its serial queue *)
(* of keychain writes, its HTTP client with one refresh a generation, the  *)
(* coordinator that publishes the signed-in user, and the API's rotation   *)
(* and revocation of refresh tokens.                                       *)
(*                                                                         *)
(* The app is one JavaScript thread: a step is what runs between two       *)
(* events, and an event waits until the queue is empty or busy with a      *)
(* write (Drained).  A pair of tokens is a number, in the order of issue.  *)
(* The operation counter is not kept: an operation that supersedes another *)
(* takes the other out of the running (Cancel), which is what the counter  *)
(* and the abort controllers do together.  Codes, roles and the push token *)
(* that rides along with a sign-out are left out.                          *)
(***************************************************************************)
EXTENDS Integers, Sequences

CONSTANTS
    Users,
    Suspendable,    \* bound: users whose account the administrators suspend
    Main,           \* the call of a restore or a login
    Profiles,       \* calls of refreshMe
    Requests,       \* requests of the screens, which no abort controller bounds
    Logout, Aborted, None,
    MaxTokens,      \* bound: pairs issued
    MaxGeneration,  \* bound: logins and sign-outs of one installation
    MaxQueue,       \* bound: work the queue holds when the user restores or calls
    MaxFaults       \* bound: failed keychain calls and restarts of the app

Bounded == {Main} \cup Profiles
Calls == Bounded \cup Requests
Tokens == 1..MaxTokens
Gens == 0..MaxGeneration

ASSUME SessionsAssumption ==
    /\ Suspendable \subseteq Users
    /\ MaxTokens \in Nat \ {0} /\ MaxGeneration \in Nat /\ MaxQueue \in Nat /\ MaxFaults \in Nat
    /\ Calls \cap Gens = {} /\ Logout # None /\ Aborted # None
    /\ {Logout, Aborted, None} \cap (Calls \cup Gens \cup Users \cup Tokens) = {}

VARIABLES
    account,      \* user.status
    tok,          \* the pairs issued: their user, and the login they descend from
    revoked,      \* revokedToken
    disk,         \* the keychain's envelope
    gen, loaded, mem, dirty,     \* the session store: tokens are mem
    queue, writing,              \* its queue of work, and the value being written, if any
    screen,       \* AuthState
    call,         \* calls in progress
    flight,       \* refreshes in progress, by generation
    revs, stray,  \* requests under way that nobody waits for: /logout, and /refresh
    superseded,   \* history: pairs whose successor reached the app
    signedOut,    \* history: logins the user signed out of
    lost,         \* history: pairs whose arrival, storage or revocation got lost
    faults

server  == <<account, tok, revoked>>
store   == <<gen, loaded, mem, dirty, disk>>
io      == <<queue, writing>>
net     == <<revs, stray>>
history == <<superseded, signedOut, lost>>
vars    == <<server, store, io, screen, call, flight, net, history, faults>>

Idle == [pc |-> "idle", gen |-> 0, token |-> None]
NoFlight == [pc |-> "none", token |-> None, by |-> None, pair |-> None]
Loading == [status |-> "loading", user |-> None]
Guest == [status |-> "guest", user |-> None]
Unavailable == [status |-> "unavailable", user |-> None]
Authed(u) == [status |-> "authed", user |-> u]
Job(kind, g, who) == [kind |-> kind, gen |-> g, who |-> who]

\* A cold start restores at once.
Init ==
    /\ account = [u \in Users |-> "ACTIVE"]
    /\ \E u \in Users : \/ tok = <<[user |-> u, login |-> 1]>> /\ disk = 1
                        \/ tok = <<>> /\ disk = None
    /\ revoked = {}
    /\ gen = 0 /\ loaded = FALSE /\ mem = None /\ dirty = FALSE
    /\ queue = <<Job("snapshot", 0, Main)>> /\ writing = {}
    /\ screen = Loading
    /\ call = [c \in Calls |-> IF c = Main THEN [Idle EXCEPT !.pc = "check"] ELSE Idle]
    /\ flight = [g \in Gens |-> NoFlight]
    /\ revs = {} /\ stray = {}
    /\ superseded = {} /\ signedOut = {} /\ lost = {}
    /\ faults = 0

Drained == queue = <<>> \/ writing # {}
Fault == faults < MaxFaults /\ faults' = faults + 1

-----------------------------------------------------------------------------
(* What an outcome does to those who wait for it.                          *)

Waiters(g) == {c \in Calls : call[c].pc = "refreshing" /\ call[c].gen = g}

\* Calls that fail, as the screen shows it: a restore or a login that is current.
Reject(S) ==
    /\ call' = [c \in Calls |-> IF c \in S THEN Idle ELSE call[c]]
    /\ screen' = IF Main \in S /\ call[Main].gen = gen THEN Unavailable ELSE screen

\* Aborting the calls of K: they have no say any more, and the refreshes they began
\* are given up with everyone who waits for them.
Dropped(K) == {g \in Gens : flight[g].by \in K /\ flight[g].pc \in {"sent", "answered"}}
Abort(K) ==
    /\ flight' = [g \in Gens |->
            IF g \in Dropped(K) THEN NoFlight
            ELSE IF flight[g].by \in K /\ flight[g].pc = "snapshot"
            THEN [flight[g] EXCEPT !.by = Aborted] ELSE flight[g]]
    /\ stray' = stray \cup {flight[g].token : g \in {x \in Dropped(K) : flight[x].pc = "sent"}}
    /\ lost' = lost \cup ({flight[g].pair : g \in Dropped(K)} \ {None})
CallsWithout(K) ==
    [c \in Calls |-> IF c \in K \cup UNION {Waiters(g) : g \in Dropped(K)}
                     THEN Idle ELSE call[c]]
QueueWithout(K) ==
    [i \in DOMAIN queue |-> IF queue[i].who \in K THEN [queue[i] EXCEPT !.who = None]
                            ELSE queue[i]]

\* cancel(): a login, a sign-out, a restore or an invalidation supersedes the others.
Cancelled == Bounded \cup {Logout}

-----------------------------------------------------------------------------
(* The store's queue.  A snapshot loads the envelope if need be and writes *)
(* it back while it is dirty; an update stores a rotated pair; a persist   *)
(* writes what a login or the end of a session left in memory.             *)

Next1 == Head(queue)

\* Those who wait for a refresh are sent again with the pair m, or told that it failed.
Resend(g, m) ==
    /\ flight' = [flight EXCEPT ![g] = NoFlight]
    /\ call' = [c \in Calls |-> IF c \in Waiters(g)
                    THEN [call[c] EXCEPT !.pc = "resent", !.token = m] ELSE call[c]]
    /\ UNCHANGED screen
GiveUp(g) == flight' = [flight EXCEPT ![g] = NoFlight] /\ Reject(Waiters(g))

\* A restore goes on if there is a session; other calls are sent with what was read.
Read(c, m) ==
    /\ UNCHANGED <<flight, stray, lost>>
    /\ \/ /\ call[c].pc = "check" /\ m = None
          /\ screen' = Guest /\ call' = [call EXCEPT ![c] = Idle]
          /\ queue' = Tail(queue)
       \/ /\ call[c].pc = "check" /\ m # None
          /\ call' = [call EXCEPT ![c].pc = "begin"]
          /\ queue' = Append(Tail(queue), Job("snapshot", gen, c))
          /\ UNCHANGED screen
       \/ /\ call[c].pc # "check"
          /\ call' = [call EXCEPT ![c] = [pc |-> "sent", gen |-> gen, token |-> m]]
          /\ queue' = Tail(queue) /\ UNCHANGED screen

\* A refresh presents the token its caller used, unless the caller has gone or another
\* refresh has replaced the pair.
Present(g, m) ==
    /\ \/ /\ m = flight[g].token /\ flight[g].by # Aborted
          /\ flight' = [flight EXCEPT ![g].pc = "sent"]
          /\ UNCHANGED <<call, screen>>
       \/ m \notin {None, flight[g].token} /\ Resend(g, m)
       \/ (m = None \/ (m = flight[g].token /\ flight[g].by = Aborted)) /\ GiveUp(g)
    /\ queue' = Tail(queue) /\ UNCHANGED <<stray, lost>>

\* The login is in the keychain: ask for the user.
Saved ==
    /\ call' = [call EXCEPT ![Main].pc = "begin"]
    /\ queue' = Append(Tail(queue), Job("snapshot", gen, Main))
    /\ UNCHANGED <<screen, flight, stray, lost>>

\* onUnauthorized: those who waited for the refresh are told with the rest.
Invalidated(g, s) ==
    /\ screen' = s
    /\ call' = CallsWithout(Cancelled \cup Waiters(g))
    /\ queue' = Tail(QueueWithout(Cancelled))
    /\ Abort(Cancelled)

\* Only the screen hears of it.
Shown(s) == screen' = s /\ queue' = Tail(queue) /\ UNCHANGED <<call, flight, stray, lost>>

\* The work succeeded, m is the pair it leaves in memory.
Done(j, m) ==
    \/ j.kind = "snapshot" /\ j.who \in Calls /\ Read(j.who, m)
    \/ j.kind = "snapshot" /\ j.who \in Gens /\ Present(j.who, m)
    \/ j.kind = "update" /\ Resend(j.who, m) /\ queue' = Tail(queue) /\ UNCHANGED <<stray, lost>>
    \/ j.kind = "persist" /\ j.who = Main /\ Saved
    \/ j.kind = "persist" /\ j.who = Logout /\ Shown(Guest)
    \/ j.kind = "persist" /\ j.who \in Gens /\ Invalidated(j.who, Guest)
    \/ j.who = None /\ Shown(screen)

\* The work failed: the session changed under it, or the keychain refused.
Failed(j) ==
    \/ j.who \in Calls /\ Reject({j.who}) /\ queue' = Tail(queue) /\ UNCHANGED <<flight, stray, lost>>
    \/ j.who = Logout /\ Shown(IF j.gen = gen THEN Unavailable ELSE screen)
    \/ j.who \in Gens /\ j.kind = "persist" /\ j.gen = gen /\ Invalidated(j.who, Unavailable)
    \/ /\ j.who \in Gens /\ ~ (j.kind = "persist" /\ j.gen = gen)
       /\ GiveUp(j.who) /\ queue' = Tail(queue) /\ UNCHANGED <<stray, lost>>
    \/ j.who = None /\ Shown(screen)

Stale(j) == j.gen # gen \/ (j.kind = "update" /\ mem # flight[j.who].token)

DropWork ==
    /\ queue # <<>> /\ writing = {} /\ Stale(Next1)
    /\ Failed(Next1)
    /\ UNCHANGED <<server, store, writing, revs, superseded, signedOut, faults>>

\* An envelope that was read is written back, in the format of today.
Load == \lnot loaded /\ Next1.kind = "snapshot"

\* The awaited read of the keychain and the load are one step.  A session that changes
\* during the read is one that changed before it: the job is dropped with nothing loaded.
BeginWork ==
    /\ queue # <<>> /\ writing = {} /\ ~ Stale(Next1)
    /\ mem' = IF Load THEN disk
              ELSE IF Next1.kind = "update" THEN flight[Next1.who].pair ELSE mem
    /\ loaded' = TRUE
    /\ IF Next1.kind = "snapshot" /\ ~ Load /\ ~ dirty
       THEN Done(Next1, mem) /\ UNCHANGED <<dirty, writing>>
       ELSE /\ dirty' = TRUE /\ writing' = {mem'}
            /\ UNCHANGED <<queue, screen, call, flight, stray, lost>>
    /\ UNCHANGED <<server, gen, disk, revs, superseded, signedOut, faults>>

\* The keychain has written: for naught, if the session changed meanwhile.
EndWork ==
    /\ writing' = {} /\ \E value \in writing : disk' = value
    /\ IF Next1.gen = gen THEN dirty' = FALSE /\ Done(Next1, mem)
       ELSE UNCHANGED dirty /\ Failed(Next1)
    /\ UNCHANGED <<server, gen, loaded, mem, revs, superseded, signedOut, faults>>

\* Mutant: a pair the keychain refuses is forgotten, and the old one is back.
KeychainForgets ==
    /\ Fault /\ queue # <<>>
    /\ \/ writing # {}
       \/ writing = {} /\ ~ Stale(Next1) /\ Load
    /\ writing' = {}
    /\ mem' = IF Next1.kind = "update" /\ Next1.gen = gen THEN flight[Next1.who].token ELSE mem
    /\ Failed(Next1)
    /\ UNCHANGED <<server, gen, loaded, dirty, disk, revs, superseded, signedOut>>

\* A read or a write the keychain refuses.
KeychainFails ==
    /\ Fault /\ queue # <<>>
    /\ \/ writing # {}
       \/ writing = {} /\ ~ Stale(Next1) /\ Load
    /\ writing' = {}
    /\ Failed(Next1)
    /\ UNCHANGED <<server, store, revs, superseded, signedOut>>

-----------------------------------------------------------------------------
(* The user.                                                               *)

\* A code was verified for an active account; the app saves the pair.
Login(u) ==
    /\ Drained /\ screen.status = "guest" /\ gen + 1 \in Gens
    /\ account[u] = "ACTIVE" /\ Len(tok) < MaxTokens
    /\ LET t == Len(tok) + 1 IN
        /\ tok' = Append(tok, [user |-> u, login |-> t])
        /\ mem' = t
    /\ gen' = gen + 1 /\ loaded' = TRUE /\ dirty' = TRUE
    /\ Abort(Cancelled)
    /\ queue' = Append(QueueWithout(Cancelled), Job("persist", gen', Main))
    /\ call' = [CallsWithout(Cancelled) EXCEPT ![Main] = [pc |-> "saving", gen |-> gen', token |-> None]]
    /\ screen' = Loading
    /\ UNCHANGED <<account, revoked, disk, writing, revs, superseded, signedOut, faults>>

\* Mutant: the login screen is shown before the keychain has let go.
SignOutEager ==
    /\ Drained /\ gen + 1 \in Gens
    /\ revs' = revs \cup ({mem} \ {None})
    /\ signedOut' = IF mem = None THEN signedOut ELSE signedOut \cup {tok[mem].login}
    /\ gen' = gen + 1 /\ loaded' = TRUE /\ dirty' = TRUE /\ mem' = None
    /\ Abort(Cancelled)
    /\ queue' = Append(QueueWithout(Cancelled), Job("persist", gen', Logout))
    /\ call' = CallsWithout(Cancelled)
    /\ screen' = Guest
    /\ UNCHANGED <<server, disk, writing, superseded, faults>>

\* The session ends in memory at once; the keychain and the server follow.  Whatever
\* screen it was asked for on, another may have come while the phone was detached
\* from its notifications (auth-context.tsx:61-65).
SignOut ==
    /\ Drained /\ gen + 1 \in Gens
    /\ revs' = revs \cup ({mem} \ {None})
    /\ signedOut' = IF mem = None THEN signedOut ELSE signedOut \cup {tok[mem].login}
    /\ gen' = gen + 1 /\ loaded' = TRUE /\ dirty' = TRUE /\ mem' = None
    /\ Abort(Cancelled)
    /\ queue' = Append(QueueWithout(Cancelled), Job("persist", gen', Logout))
    /\ call' = CallsWithout(Cancelled)
    /\ screen' = Loading
    /\ UNCHANGED <<server, disk, writing, superseded, faults>>

Restore ==
    /\ Drained /\ screen.status = "unavailable" /\ Len(queue) < MaxQueue
    /\ Abort(Cancelled)
    /\ queue' = Append(QueueWithout(Cancelled), Job("snapshot", gen, Main))
    /\ call' = [CallsWithout(Cancelled) EXCEPT ![Main] = [pc |-> "check", gen |-> gen, token |-> None]]
    /\ screen' = Loading
    /\ UNCHANGED <<server, store, writing, revs, superseded, signedOut, faults>>

\* refreshMe, or a request of a screen.
Call(c) ==
    /\ Drained /\ screen.status = "authed" /\ Len(queue) < MaxQueue
    /\ c \in Profiles \cup Requests /\ call[c] = Idle
    /\ call' = [call EXCEPT ![c] = [pc |-> "begin", gen |-> gen, token |-> None]]
    /\ queue' = Append(queue, Job("snapshot", gen, c))
    /\ UNCHANGED <<server, store, writing, screen, flight, net, history, faults>>

\* Mutant: an operation out of time tells nobody.
TimeoutSilent(c) ==
    /\ Drained /\ c \in Bounded /\ call[c] # Idle
    /\ Abort({c})
    /\ call' = CallsWithout({c})
    /\ queue' = QueueWithout({c})
    /\ UNCHANGED <<server, store, writing, screen, revs, superseded, signedOut, faults>>

\* The eight seconds of a restore, a login or a profile are over.
Timeout(c) ==
    /\ Drained /\ c \in Bounded /\ call[c] # Idle
    /\ Abort({c})
    /\ call' = CallsWithout({c})
    /\ queue' = QueueWithout({c})
    /\ screen' = IF c = Main /\ call[c].gen = gen THEN Unavailable ELSE screen
    /\ UNCHANGED <<server, store, writing, revs, superseded, signedOut, faults>>

-----------------------------------------------------------------------------
(* Requests and refreshes.                                                 *)

Answered(c) == Drained /\ call[c].pc \in {"sent", "resent"}

\* No answer, or one for a session that is over.
NoAnswer(c) ==
    /\ Answered(c)
    /\ Reject({c})
    /\ UNCHANGED <<server, store, io, flight, net, history, faults>>

\* Of two profile requests the later one alone is published by the code; here either may.
Success(c) ==
    /\ Answered(c) /\ call[c].gen = gen
    /\ call[c].token # None /\ account[tok[call[c].token].user] = "ACTIVE"
    /\ screen' = IF c \in Bounded THEN Authed(tok[call[c].token].user) ELSE screen
    /\ call' = [call EXCEPT ![c] = Idle]
    /\ UNCHANGED <<server, store, io, flight, net, history, faults>>

Inactive(c) ==
    /\ Answered(c) /\ call[c].gen = gen
    /\ call[c].token # None /\ account[tok[call[c].token].user] # "ACTIVE"
    /\ screen' = IF c \in Bounded THEN Unavailable ELSE screen
    /\ call' = [call EXCEPT ![c] = Idle]
    /\ UNCHANGED <<server, store, io, flight, net, history, faults>>

\* 401: join the refresh of this generation, or start it.
Expired(c) ==
    /\ Drained /\ call[c].pc = "sent" /\ call[c].gen = gen
    /\ call[c].token # None /\ Len(tok) < MaxTokens
    /\ call' = [call EXCEPT ![c].pc = "refreshing"]
    /\ IF flight[gen] # NoFlight THEN UNCHANGED <<flight, queue>>
       ELSE /\ flight' = [flight EXCEPT ![gen] =
                    [pc |-> "snapshot", token |-> call[c].token, pair |-> None,
                     by |-> IF c \in Bounded THEN c ELSE None]]
            /\ queue' = Append(queue, Job("snapshot", gen, gen))
    /\ UNCHANGED <<server, store, writing, screen, net, history, faults>>

Rotates(t) == account[tok[t].user] = "ACTIVE" /\ t \notin revoked

\* rotateRefreshToken, one transaction: claim the token, issue its successor.
Rotate(t) ==
    /\ Len(tok) < MaxTokens
    /\ revoked' = revoked \cup {t}
    /\ tok' = Append(tok, tok[t])

Answer(g) ==
    /\ flight[g].pc = "sent"
    /\ LET t == flight[g].token IN
        \/ /\ Rotates(t) /\ Rotate(t)
           /\ flight' = [flight EXCEPT ![g].pc = "answered", ![g].pair = Len(tok')]
        \/ /\ ~ Rotates(t) /\ UNCHANGED <<tok, revoked>>
           /\ flight' = [flight EXCEPT ![g].pc = "answered"]
    /\ UNCHANGED <<account, store, io, screen, call, net, history, faults>>

\* A refresh whose client has given up still reaches the server, or does not.
AnswerStray(t) ==
    /\ t \in stray /\ stray' = stray \ {t}
    /\ \/ Rotates(t) /\ Rotate(t) /\ lost' = lost \cup {Len(tok')}
       \/ UNCHANGED <<tok, revoked, lost>>
    /\ UNCHANGED <<account, store, io, screen, call, flight, revs, superseded, signedOut, faults>>

\* The answer of a refresh never arrives.
RefreshLost(g) ==
    /\ Drained /\ flight[g].pc \in {"sent", "answered"}
    /\ Reject(Waiters(g))
    /\ flight' = [flight EXCEPT ![g] = NoFlight]
    /\ stray' = IF flight[g].pc = "sent" THEN stray \cup {flight[g].token} ELSE stray
    /\ lost' = lost \cup ({flight[g].pair} \ {None})
    /\ UNCHANGED <<server, store, io, revs, superseded, signedOut, faults>>

\* Mutant: a pair that comes too late is dropped.
RefreshedDropped(g) ==
    /\ Drained /\ flight[g].pc = "answered" /\ flight[g].pair # None
    /\ superseded' = superseded \cup {flight[g].token}
    /\ \/ /\ g = gen
          /\ flight' = [flight EXCEPT ![g].pc = "update"]
          /\ queue' = Append(queue, Job("update", g, g))
          /\ UNCHANGED <<call, screen>>
       \/ /\ g # gen
          /\ flight' = [flight EXCEPT ![g] = NoFlight]
          /\ Reject(Waiters(g))
          /\ UNCHANGED queue
    /\ UNCHANGED <<server, store, writing, revs, stray, signedOut, lost, faults>>

\* A new pair: kept through the queue, or revoked when it comes too late.
Refreshed(g) ==
    /\ Drained /\ flight[g].pc = "answered" /\ flight[g].pair # None
    /\ superseded' = superseded \cup {flight[g].token}
    /\ \/ /\ g = gen
          /\ flight' = [flight EXCEPT ![g].pc = "update"]
          /\ queue' = Append(queue, Job("update", g, g))
          /\ UNCHANGED <<revs, call, screen>>
       \/ /\ g # gen
          /\ flight' = [flight EXCEPT ![g] = NoFlight]
          /\ revs' = revs \cup {flight[g].pair}
          /\ Reject(Waiters(g))
          /\ UNCHANGED queue
    /\ UNCHANGED <<server, store, writing, stray, signedOut, lost, faults>>

\* 401: the session is over, here too.
Refused(g) ==
    /\ Drained /\ flight[g].pc = "answered" /\ flight[g].pair = None
    /\ \/ /\ g = gen /\ gen + 1 \in Gens
          /\ gen' = gen + 1 /\ mem' = None /\ loaded' = TRUE /\ dirty' = TRUE
          /\ queue' = Append(queue, Job("persist", gen', g))
          /\ flight' = [flight EXCEPT ![g].pc = "ending"]
          /\ UNCHANGED <<call, screen>>
       \/ /\ g # gen
          /\ flight' = [flight EXCEPT ![g] = NoFlight]
          /\ Reject(Waiters(g))
          /\ UNCHANGED <<gen, mem, loaded, dirty, queue>>
    /\ UNCHANGED <<server, disk, writing, net, history, faults>>

\* POST /logout, which the app does not repeat.
Revoke(t) ==
    /\ t \in revs /\ revs' = revs \ {t}
    /\ \/ revoked' = revoked \cup {t} /\ UNCHANGED lost
       \/ lost' = lost \cup {t} /\ UNCHANGED revoked
    /\ UNCHANGED <<account, tok, store, io, screen, call, flight, stray, superseded, signedOut, faults>>

ChangeStatus(u) ==
    /\ u \in Suspendable
    /\ account' = [account EXCEPT ![u] = IF @ = "ACTIVE" THEN "SUSPENDED" ELSE "ACTIVE"]
    /\ UNCHANGED <<tok, revoked, store, io, screen, call, flight, net, history, faults>>

\* The app is killed, with a write under way or not, and started again.  A sign-out
\* that had not reached the keychain is undone.
Relaunch ==
    /\ Fault
    /\ disk' \in {disk} \cup writing
    /\ loaded' = FALSE /\ mem' = None /\ dirty' = FALSE /\ writing' = {}
    /\ queue' = <<Job("snapshot", gen, Main)>>
    /\ screen' = Loading
    /\ call' = [c \in Calls |-> IF c = Main THEN [pc |-> "check", gen |-> gen, token |-> None] ELSE Idle]
    /\ flight' = [g \in Gens |-> NoFlight]
    /\ stray' = stray \cup {flight[g].token : g \in {x \in Gens : flight[x].pc = "sent"}}
    /\ lost' = lost \cup ((({mem} \ {disk'}) \cup {flight[g].pair : g \in Gens}) \ {None})
    /\ superseded' = {}
    /\ signedOut' = {l \in signedOut : disk' = None \/ tok[disk'].login # l}
    /\ UNCHANGED <<server, gen, revs>>

Next ==
    \/ DropWork \/ BeginWork \/ EndWork \/ KeychainFails
    \/ \E u \in Users : Login(u) \/ ChangeStatus(u)
    \/ SignOut \/ Restore \/ Relaunch
    \/ \E c \in Calls : Call(c) \/ Timeout(c) \/ NoAnswer(c) \/ Success(c) \/ Inactive(c) \/ Expired(c)
    \/ \E g \in Gens : Answer(g) \/ RefreshLost(g) \/ Refreshed(g) \/ Refused(g)
    \/ \E t \in Tokens : AnswerStray(t) \/ Revoke(t)

Spec == Init /\ [][Next]_vars

\* The queue runs, the keychain answers, a bounded call answers or times out.
FairSpec ==
    /\ Spec
    /\ WF_vars(DropWork) /\ WF_vars(BeginWork) /\ WF_vars(EndWork)
    /\ \A c \in Bounded : WF_vars(Timeout(c))

-----------------------------------------------------------------------------
(* Properties.                                                             *)

Live == {t \in DOMAIN tok : t \notin revoked}

\* Shape of the state.
Issued == DOMAIN tok
JobType == [kind : {"snapshot", "update", "persist"}, gen : Gens,
            who : Calls \cup Gens \cup {Logout, None}]
CallType == [pc : {"idle", "saving", "check", "begin", "sent", "refreshing", "resent"},
             gen : Gens, token : Tokens \cup {None}]
FlightType == [pc : {"none", "snapshot", "sent", "answered", "update", "ending"},
               token : Tokens \cup {None}, by : Bounded \cup {Aborted, None},
               pair : Tokens \cup {None}]
TypeOK ==
    /\ account \in [Users -> {"ACTIVE", "SUSPENDED"}]
    /\ tok \in Seq([user : Users, login : Tokens]) /\ Len(tok) <= MaxTokens
    /\ revoked \subseteq Issued /\ revs \subseteq Issued /\ stray \subseteq Issued
    /\ superseded \subseteq Issued /\ signedOut \subseteq Issued /\ lost \subseteq Issued
    /\ disk \in Issued \cup {None} /\ mem \in Issued \cup {None}
    /\ gen \in Gens /\ loaded \in BOOLEAN /\ dirty \in BOOLEAN
    /\ queue \in Seq(JobType) /\ writing \subseteq Issued \cup {None}
    /\ call \in [Calls -> CallType] /\ flight \in [Gens -> FlightType]
    /\ screen \in {Loading, Guest, Unavailable} \cup {Authed(u) : u \in Users}
    /\ faults \in Nat

\* session-store.ts:25-30, :71-79, auth-session.ts:69-173.  What the screen says is what the
\* phone holds, although sign-out, login, refresh and their keychain writes overlap: no
\* session the next start would bring back behind a signed-out screen, no late answer
\* that shows the previous user to the next one, and no store that takes the keychain
\* for something it is not.
ScreenIsTrue ==
    /\ TypeOK
    /\ dirty \/ ~loaded \/ disk = mem
    /\ screen.status = "guest" => disk = None /\ mem = None
    /\ screen.status = "authed" /\ mem # None => tok[mem].user = screen.user

\* session-store.ts:59-69.  The app does not present a refresh token again whose
\* successor it has received, not even when the keychain refused to store that one.
NotReused ==
    \A g \in Gens : flight[g].pc = "sent" => flight[g].token \notin superseded

\* http-client.ts:75-80, auth-session.ts:134-151.  A sign-out leaves no session behind:
\* whatever refresh it overlapped, each pair of that login is revoked, is about to be,
\* or its own request or answer got lost on the way, or the pair itself with a memory
\* that the keychain had refused to keep.
NothingForgotten ==
    \A t \in Live : tok[t].login \in signedOut =>
        \/ t \in lost \cup revs \cup stray
        \/ \E g \in Gens : flight[g].pair = t /\ g # gen

\* rotation.ts:28-52.  One pair of a login at most can still be refreshed.
OneSuccessor ==
    \A t, s \in Live : tok[t].login = tok[s].login => t = s

\* A refresh token is used once, by the app that presents it and by the API.
UsedOnce == NotReused /\ OneSuccessor

\* auth-session.ts:35-53, :134-151.  The app never shows its launch screen for good:
\* whatever supersedes what, an operation that hides the screen gives it back, within
\* its eight seconds or as soon as the keychain answers.
EventuallyDecided == screen.status = "loading" ~> screen.status # "loading"

-----------------------------------------------------------------------------
(* The inductive invariant behind the safety properties.                   *)

LoginOf(t) == tok[t].login

\* A login is of one user, and numbered by its first pair.
LoginsOK ==
    /\ \A t \in Issued : LoginOf(t) \in 1..t
    /\ \A t, s \in Issued : LoginOf(t) = LoginOf(s) => tok[t].user = tok[s].user
    /\ OneSuccessor

\* The work of a session comes after that of the sessions before it, and the work that
\* begins or ends it comes first.
QueueOK ==
    /\ \A i \in DOMAIN queue :
        /\ queue[i].gen <= gen
        /\ queue[i].kind = "persist" => \A k \in 1..(i - 1) : queue[k].gen < queue[i].gen
        /\ \A k \in 1..i : queue[k].gen <= queue[i].gen
        /\ \A k \in DOMAIN queue : queue[i].who \in Gens /\ queue[k].who = queue[i].who => k = i

\* What a job was queued for.
Serves(pc) == CASE pc = "snapshot" -> "snapshot" [] pc = "update" -> "update"
                [] pc = "ending" -> "persist" [] OTHER -> "none"
JobOK(j) ==
    /\ j.kind = "snapshot" => j.who # Logout
    /\ j.kind = "update" => j.who \in Gens
    /\ j.kind = "persist" /\ j.gen = gen /\ j.who \in Gens \cup {Logout} => mem = None
    /\ j.who \in Gens => /\ flight[j.who].pc # "none" /\ j.kind = Serves(flight[j.who].pc)
                         /\ j.kind # "persist" => j.gen = j.who

\* The work that begins or ends this session is done.
Settled == \A i \in DOMAIN queue : queue[i].kind = "persist" => queue[i].gen # gen

\* A write puts down what is in memory, unless the session has changed under it.
StoreOK ==
    /\ writing # {} =>
        /\ queue # <<>> /\ dirty /\ loaded
        /\ Next1.gen = gen => writing = {mem}
    /\ ~ loaded =>
        /\ mem = None /\ writing = {} /\ superseded = {}
        /\ screen.status \in {"loading", "unavailable"}
        /\ \A c \in Calls : call[c].token = None
        /\ \A g \in Gens : flight[g].pc = "none"
    /\ screen.status = "guest" => \A i \in DOMAIN queue : queue[i].gen = gen

\* The pair in memory belongs to the session a call of it was sent with.
Current(t) == mem # None /\ t \in Issued /\ LoginOf(t) = LoginOf(mem)
CallsOK ==
    \A c \in Calls : call[c].token # None =>
        /\ call[c].gen <= gen /\ call[c].token \in Issued
        /\ call[c].gen = gen => Current(call[c].token) /\ Settled

\* A refresh at the server is of a pair that is in the keychain and in memory; its
\* answer is a pair of the same login that nobody else has seen.
FlightOK(g) ==
    LET f == flight[g] IN
    IF f.pc = "none" THEN f = NoFlight
    ELSE /\ g <= gen /\ f.token \in Issued
         /\ g = gen => Current(f.token) /\ Settled
         /\ f.pair # None <=> f.pc \in {"answered", "update"} /\ f.pair \in Issued
         /\ f.pair # None => /\ LoginOf(f.pair) = LoginOf(f.token) /\ f.token < f.pair
                             /\ f.token \in revoked /\ f.pair \notin superseded
         /\ g = gen /\ f.pc \in {"sent", "answered"} => writing = {} /\ ~ dirty /\ mem = f.token
         /\ f.pc = "update" =>
                /\ f.pair # None /\ queue # <<>> /\ Next1 = Job("update", g, g)
                /\ IF writing = {} THEN g = gen /\ Len(queue) = 1 /\ mem = f.token
                   ELSE IF g = gen THEN mem = f.pair
                   ELSE f.pair \in revs \cup lost \cup revoked

\* Refreshes of different sessions are of different logins.
Apart ==
    /\ \A g, h \in Gens : flight[g].pc # "none" /\ flight[h].pc # "none" /\ g # h =>
           LoginOf(flight[g].token) # LoginOf(flight[h].token)
    /\ \A g \in Gens : flight[g].pc # "none" /\ g # gen => ~ Current(flight[g].token)

\* What has been superseded leaves memory as soon as its successor is stored.
SupersededOK ==
    mem \in superseded => flight[gen].pc = "update" /\ mem = flight[gen].token

\* Of each session the phone holds, or would find at its next start, the pair that can
\* still be refreshed is held, on its way here or out of the world.
Accounted == lost \cup revs \cup {flight[g].pair : g \in Gens}
HoldingsOK ==
    /\ \A t \in Live : Current(t) => t = mem \/ t \in Accounted
    /\ \A x \in ({disk} \cup writing) \ {None} : \A t \in Live :
           LoginOf(t) = LoginOf(x) => t \in {x, mem} \cup Accounted
    /\ mem # None => LoginOf(mem) \notin signedOut
    /\ ~ loaded /\ disk # None => LoginOf(disk) \notin signedOut
    /\ \A t \in Live : LoginOf(t) \in signedOut =>
           t \in lost \cup revs \/ \E g \in Gens : flight[g].pair = t /\ g # gen

Inductive ==
    /\ ScreenIsTrue /\ NotReused
    /\ LoginsOK /\ QueueOK /\ StoreOK /\ CallsOK /\ Apart /\ SupersededOK /\ HoldingsOK
    /\ \A i \in DOMAIN queue : JobOK(queue[i])
    /\ \A g \in Gens : FlightOK(g)
=============================================================================
