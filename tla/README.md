# HireQuick: a TLA+ verification project

HireQuick is a marketplace for event staff in Nigeria. A client selects ushers for an
event and pays for the whole batch; the money is held in escrow per booking; an usher
checks in, works and earns into a wallet; the wallet is paid out by bank transfer, on
request or in a weekly run. All of the authoritative state is in Postgres behind one API,
`src/apps/api/src`, which runs as several web and worker processes and talks to Paystack
for money, to Smile ID for identities and to an object store for files. The mobile, admin
and web applications only call it; the mobile one keeps a session of its own.

What is hard in this code is what happens between its transactions: provider calls that are
retried, answered late or never, crashes, callbacks, jobs and administrators that meet on the
same rows. These modules model that, action by action, in seven components.

## 1. Inventory

| Component | State | Operations | Hard behaviour | What must be true |
|---|---|---|---|---|
| Recruitment (`events/recruitment.ts`, `edit.ts`, `eligibility.ts`, `staffing.ts`) | event terms and status, applications, invitations, calendar | apply, invite, reply, withdraw, select, edit, reserve | requests in any order on old screens; an edit after the agreement | what was agreed stands while the booking does; nobody double booked; no event overstaffed |
| Checkout (`payments/checkout.ts`, `bookings/service.ts` confirmBatch) | order, checkout, bookings, event.status | select, initialize, reopen, reconcile, expire, record a charge, refund a late one | one POST at most; evidence read outside locks; a page paid after its seats were given away; erasure during the call | seats within the headcount, charges accounted for, late ones returned |
| Booking escrow (`payments/ledger`, `cancellation.ts`, `bookings/service.ts`, `admin/service.ts`) | booking, payment, escrow ledger, disputes, refund operation, approvals | attend, complete, release, dispute, cancel, no-show, admin refund, approve | refunds in flight against attendance, disputes and releases; four-eyes approval; lost answers | the price is divided once and exactly; a refund is sent once and can be recorded |
| Withdrawals and sweeps (`payments/service.ts`, `transfer-dispatch.ts`, `withdrawal-reversal.ts`, `recovery.ts`) | wallet, withdrawal, transfer and reversal intents, lease | request, dispatch, webhook, reverse, recover | leases that lapse, terminal webhooks in any order, a bank that returns a paid transfer | paid on the bank's word, credited back once, no kobo created |
| Payout runs (`payments/payout-runs.ts`) | run, lines, hash, status, wallets | build, submit, reject, cancel, approve, execute, resume | crash between lines, two executions at once, a stale list, midnight | each line once, exactly as two people saw it |
| Sessions (`auth/*`; `apps/mobile/lib/session-store.ts`, `http-client.ts`, `auth-session.ts`) | token pairs and their revocation; keychain, store, queue, screen | login, restore, refresh, rotate, call, sign out, suspend | answers that arrive for a session that is over, keychain failures, restarts | a token is used once; sign-out leaves nothing; the screen is true |
| Identity and files (`verification/*`, `storage/uploads.ts`, `profile/routes.ts`, `privacy/service.ts`, `jobs/jobs.ts`) | submissions, business submissions, evidence cache, upload intents, deletions, objects, account status | upload, attach, replace, submit, capture, call back, review, look up, purge, clean up, erase | late callbacks and registry answers, two reviewers, cleanup against attaching, erasure | the latest submission decides; what is attached exists; nothing is forgotten |
| Recovery schedule, idempotency, reconciliation | operation rows, keys, reports | claim a batch, quarantine, resume; replay; compare | a queue held up by failures, two first requests | nobody starves; one effect per key |
| One-time codes, audit chain, messages, notifications, rewards, discovery | codes, hash chain, conversations, device tokens | issue, verify; append; send; read | chain order; codes are locked per phone number | single use; one chain |
| Jobs runtime, HTTP, observability, user interfaces | none that the above relies on | | | |

Interactions: request handlers, webhook handlers and jobs meet only in the database
(row locks in the order event, order, booking; user rows; advisory locks; leases) and at the
providers. Recruitment ends in a reservation, which is checkout; checkout hands an order to
booking escrow when it is PAID (`holdOrder`); booking escrow releases earnings to the wallet;
withdrawals and payout runs take them from there, and both become transfers of
`TransferDispatch`. A late charge in checkout uses the refund operation of booking escrow.
Suspension and erasure meet all of them: each module has the status of the account that its
code looks at.

## 2. Modules

| Module | Models | Abstract promise |
|---|---|---|
| `TransferDispatch` | withdrawals and platform sweeps | `Withdrawal` |
| `BookingEscrow` | a paid order until its last kobo is divided | `Custody` |
| `Checkout` | seats and payment of orders | `Reservation` |
| `PayoutRun` | weekly runs and the wallets they pay | `Payroll` |
| `Sessions` | the phone's session and the API's rotation | |
| `Recruitment` | everything before the reservation | |
| `Identity` | one account: checks, files, retention, erasure | |
| `TransferDispatchProofs`, `PayoutRunProofs`, `BookingEscrowProofs`, `CheckoutProofs`, `RecruitmentProofs`, `IdentityProofs`, `SessionsProofs` | theorems about the modules they are named after | |
| `SumProofs` | lemmas about sums over finite sets | |
| `MC...` | the instances TLC checks | |

One step of a detailed module is one committed transaction or one provider call. Where a
transaction locks what it reads before it decides, it is one step. What was read before the
locks is kept in the state of the process and may be stale. A process is a record of where
it is (`pc`), what it works on (`job` or `task`) and the evidence it holds (`ev`); a crash
loses it. Operators marked *Mutant* are plausible errors; they are not part of any
specification and only show that a property can fail.

**TransferDispatch.** `Request` debits the wallet and stores the intent; `Claim`, `SendOwns`
and `Release` are the lease; `Verify`, `Post`, `Posted` are the provider; `Checkpoint`,
`Finalize` are `runOperation`; `Reverse` credits back; `HookSuccess`, `HookFailure`,
`HookSweep` are the webhooks; `Stuck...` is `reconcileStuckWithdrawals`. A timed-out POST
may arrive later (`LatePost`), leases may lapse while their owner lives (`Expire`), and the
bank may return a transfer it reported successful.

**BookingEscrow.** `phase` is the clock: the cancellation windows, the no-show grace, the
end, the dispute deadline. Handlers of one transaction are actions (`CheckIn`,
`OpenDispute`, `AutoComplete`); refunds are reserved (`Reserve`), driven
(`RunOperation`, `Verify`, `Post`, `Checkpoint`) and recorded (`Finalize`) in steps, by whoever
drives them: a request, an approval, recovery or a callback. `intent` is the payload of the
operation, so the first reservation decides how the money is divided; its field `by` is a history of
what the refund was reserved for.

**Checkout.** `ConfirmBatch` reserves, `Dispatch` is the durable claim of the initialization,
`Initialize` the POST, `Publish` and `Doubt` what is done with the answer. `Read`,
`Verify` and `SettleCharge`/`Expire`/`Retain` are `reconcileCheckout`, with the evidence and the
clock it read in between. `Hook` is `charge.success`. The initial states include an order
that predates the checkout table, for which `EnsureCheckout` must assume a page exists.

**PayoutRun.** `buildPayoutRun`, `submitPayoutRun`, `rejectPayoutRun`, `cancelPayoutRun`,
`approvePayoutRun` keep the code's names; `ViewRun` puts a run and its list on an
administrator's screen, and the hash that comes back with the decision is of that list.
`executePayoutRun` snapshots the lines, `executeLine` is one of them, `MarkExecuted` ends it. A
request builds the run of the date it read before it got the run lock, so midnight may come in
between. `WithdrawOwn`, `ChooseAccount`, `ChangeStatus` and `Fail` are what happens to wallets,
accounts and transfers meanwhile.

**Sessions.** The app is one thread, so a step is what runs between two events. `queue` is
the store's serial queue, `BeginWork`/`EndWork`/`KeychainFails` a write of the keychain,
`flight` the refresh of each generation with its answer still to come (`Answer`,
`Refreshed`, `Refused`, `RefreshLost`), `call` the requests that wait for it. `Login`, `Restore`,
`SignOut` supersede what is in progress. `Rotate` and `Revoke` are the API's transactions.
`Relaunch` restarts the app at any moment.

**Recruitment.** One action per operation of `recruitment.ts`, plus `editEvent`,
`setAvailability`, `confirmBatch` as far as it checks and books, and `Vacate` for a refund. `word`
is a history variable: what the usher last said.

**Identity.** Files: `issueUpload`, `Put` (the client's PUT, which needs no session),
`finalizeUpload` (the copy may be made and the commit lost), `Consume` in `setAvatar`,
`addPhoto` and the submissions, `Abandon`, `CleanStaging` and `Clean` of `cleanupStorage`. Checks:
`Submit`, `Capture` and `Judge` at the provider, `Fetch` and `applyKycResult` as the two halves
of a callback, `OpenReview` and `reviewVerification` as the two halves of a decision, `Lookup` and
`saveRegistryResult` as those of a registry question. `scope` fixes for a behaviour the role and
which files, captures and submissions there may be.

## 3. Runs

| Run | Question | Bounds |
|---|---|---|
| `transfer_two` | refinement of `Withdrawal`; a sweep is booked once | two withdrawals, one of an older release, that the wallet cannot hold both, and a sweep; one worker, one fault |
| `transfer_live` | the inductive invariant of the proofs, conservation, the lease; settlement without callbacks, money returned | one withdrawal, two processes, one fault |
| `escrow_small` | paid to one side, sent once, always recordable, refinement of `Custody` | one small booking, two processes, two disputes, one fault |
| `escrow_large` | a client's cancellation, an administrator's refund and the decision of a dispute wait for two administrators, executed means done, a paid booking is undisputed | one large booking, two processes, two administrators |
| `escrow_order` | exact division, order status | two bookings of one order |
| `escrow_live` | refunds recorded, bookings divided | one booking past its start, two processes, one fault |
| `checkout_seats` | recruiting status, refinement of `Reservation` | two orders, two overlapping events of one and two seats, two ushers, suspension |
| `checkout_order` | at-most-once initialization, evidence, late charges, erasure, liveness | one order of up to two bookings, one handler and the job, one fault |
| `payout_run` | one open run and true books, four eyes, nothing forgotten, refinement of `Payroll` | two wallets, two paydays, two administrators, two executions, one fault |
| `sessions` | the screen is true, tokens are used once, nothing survives a sign-out, the launch screen ends | two users, three calls, three pairs, two generations, one fault |
| `recruitment` | agreement, schedule, staffing | two ushers of one event or two events of one usher, three sets of terms on two days |
| `identity` | status, earned approvals, decisions, attached files, orphans | four accounts: pictures only (two files); document and capture (two submissions); two captures for two submissions; a client, who may be a business |

Why these bounds are enough to be interesting. Two processes and the environment's own
actions (webhooks, provider, clock) already give three actors on a row, as many as the locks
and the lease distinguish; a fault is a crash, an exception, a failed transaction or a lost or
delayed call, and with one of them every label of every process can be the place where it
happens. Two withdrawals share one wallet row. In `checkout_seats` a one-seat
event is overbooked by any second seat and the two-seat event is staffed in part; its one
process serves requests and jobs, since two orders already race through webhooks, clock and
stale evidence. Prices of three and one kobo make halves round. In `payout_run` one wallet
starts with one account, two or none, and the second one's user is erased and may come back; a
second payday is what a forgotten or doubled line needs. In `sessions` three pairs
are one login, its successor and a second login. In `recruitment` the terms overlap, do not
overlap, or are on another day, and differ in headcount. In `identity` what happens to a
picture, a document, a capture and a business document is independent but for the account, so each
has an instance; the second file replaces the first, the second submission supersedes the first
one, and the second capture is a late one of the first session. One request in flight is enough
there: all but its read and its transaction is atomic, and everything else may happen in
between.

Counters are bounded by `MaxFaults`, `MaxDisputes`, `MaxEarned`, `MaxTokens`, `MaxGeneration`,
`MaxQueue`, `Hours`, `Periods` and the submissions of a scope; `MaxBalance` stands for
`MAX_INT32_KOBO`. Deadlock is not checked where a run may really come to an end (bookings paid
out; every seat taken and paid with the clock fixed). Symmetry of processes, administrators,
ushers, orders, files and captures is used in safety runs only.

What the properties are about, beyond one type invariant a module (which is a conjunct of the
first property of its runs): `PaidOnce`, `Recordable`, `ApprovalsHonoured`, `PaidIsUndisputed`,
`OrderAddsUp` (escrow); `SeatsAgree`, `InitializedOnce`, `FollowsEvidence`, `NoUrlAfterErasure`,
`ChargesSettle`, `EventuallyFreed` (checkout); `TakenOnce`, `FourEyes`, `ExecutedIsComplete`
(payout runs); `ScreenIsTrue`, `UsedOnce`, `NothingForgotten`, `EventuallyDecided` (sessions);
`Agreed`, `ScheduleKept`, `Staffed` (recruitment); `Consistent`, `VerifiedIsEarned`,
`BusinessEarned`, `DecisionStands`, `AttachedKept`, `NothingOrphaned` (identity); `Conservation`,
`OneDispatcher`, `SweepOnce`, `EventuallySettled`, `EventuallyReturned` (transfers). Each is stated
in words above its definition.

## 4. Liveness and fairness

Nothing is assumed of clients, ushers, administrators, customers at the hosted page, or of
webhooks. What is assumed:

- A process that can go on does (`ProcStep`, `Drive`, `Continue`): handlers and jobs run to
  their end unless they crash, and crashes are bounded.
- Recovery visits an open operation again and again. `recovery-schedule.ts` claims a
  batch with back-off and quarantines an operation after twelve attempts; the assumption
  is that an administrator resumes a quarantined one, so it is an assumption about people
  as well as about code.
- The checkouts job (`jobs/runtime.ts`, every five minutes) visits every open checkout,
  expired ones included; the completion and no-show sweeps run for each booking. Strong
  fairness, because a visit is disabled while the process is at something else.
- The provider settles what is pending; a live lease lapses.
- On the phone, the queue runs its work, the keychain answers one way or the other, and a call
  bounded by an abort controller answers or times out after eight seconds. A screen's own request
  has no such bound and none is assumed.
- `EventuallyReturned` needs more: a bank that returns a transfer after it was PAID is heard of
  only by its webhook, so the property is conditional on that failure being redelivered.

`EventuallyDivided` names two states in which money waits for an operator: a refund whose only
POST was lost (`Stranded`) and one the provider refused for good (`Failed`). `EventuallyFreed`
speaks only of reservations with conclusive evidence; without it the code keeps the
seats for ever, on purpose. `PayoutRun`, `Recruitment` and `Identity` state no liveness.

## 5. What is proved

By TLAPS, for every value of the constants that the `ASSUME` of each module admits: any number of
withdrawals, orders, bookings, runs, ushers, files, processes and faults, any amounts. The
assumptions say what the constants are (finite sets where the model counts or sums, positive
amounts, `None` outside the sets it is added to) and `Bookings # {}`, for a Custody of no booking
has no state to close. TLC evaluates them in every run.

Each component has one inductive invariant, a conjunction of named parts that stands in its
module next to the properties; TLC checked each on the small instances before it was proved. The proofs have
one lemma per action (or per kind of step, where many actions write the same
columns), a lemma that `Next` preserves the invariant, and the temporal steps.

**`TransferDispatchProofs`** (`Withdrawal`). `InductiveInvariant`; `TypeCorrect`,
`CreditedBackOnce`, `PaidIsPaid`, `IntentsAgree`, `SweptOnce`, which it contains;
`DispatchImplementsWithdrawal`; `BalanceConserved` and `SingleDispatcher`. That a withdrawal marked
FAILED was failed by the bank depends on what every process, webhook and row may still carry.
`Inductive` adds that a process past a label holds the row it read (`LocksOK`), that evidence was
reported by the bank whoever holds it (`EvidenceOK`), that a failure acted on is durable before it
is acted on (`ProcsOK`), that only the reversal fails a withdrawal and fails its dispatch with it
(`ReversalOK`), and that a withdrawal not yet requested has left no trace (`UntouchedOK`).
`Conservation` adds a sum over the withdrawals to it, `OneDispatcher` the owner of each lease.

**`SumProofs`**. How `SumFunctionOnSet` unfolds, and what it becomes when one summand changes
(`SumUpdate`). The induction over the subsets of a finite set is by a minimal counterexample
(`WFMin` on strict inclusion), which needs no operator parameter.

**`PayoutRunProofs`** (`Payroll`). `MoneyTakenOnce`, `ReviewedByTwo`, `NoLineForgotten` and
`PayrollImplemented`. Besides the three properties, `Inductive` says that what took money is a line of an
approved run in that line's amount and account (`TakenAsApproved`), that each line of a run under
execution is still to do, done or reported skipped (`ExecutionsOK`), and that what
awaits approval is what its maker reviewed (`MakerReviewed`): the hash binds the
approval to that list.

**`BookingEscrowProofs`** (`Custody`). `DividedExactly`, `RefundedOnce`, `AlwaysRecordable`,
`AgreedFirst`, `PaidUndisputed`, `CustodyImplemented`. Three layers: the rows of a booking
(`RefundOK`: an operation reserves the booking before its refund is sent, and until it is
recorded nobody else can settle the escrow; `DisputesOK`: one open dispute, which freezes), the
processes that drive a refund (`DriverOK`, `OneSender`: the durable `tried` mark makes one of them the
sender), and the approvals (`CarrierOK`, `ApprovalOK`: who carries out a large step holds the
approval of that very step). That a large booking's disputes are resolved only as two administrators
decided (`ResolvedByTwo`) is proved as a second invariant on top of these, from what each step
does to approvals, recorded refunds and disputes.

**`CheckoutProofs`** (`Reservation`). `SeatsTellStaffing`, `SentOnce`, `EvidenceFollowed`,
`ErasedWithoutUrl`, `ReservationImplemented`. `OrderOK` ties the columns of an order, its batch and
its refunds; `SentOK` says that the process that claimed the initialization is the only one that
can send it, and that an expired order has nothing on the way; `ProcOK` that evidence read
outside the locks may be stale but was true.

**`RecruitmentProofs`**. `AgreementStands`, `NoDoubleBooking`, `NeverOverstaffed`: each is
inductive once the shape of the rows is added, because every operation decides under the lock of the
event on the rows it then writes.

**`IdentityProofs`**. `ProfileFollows`, `VerifiedByEvidence`, `BusinessByEvidence`, `ShownIsKept`,
`NothingLeftBehind`, and the action property `FirstDecisionStands`. The invariant has two halves.
Files: what a file is attached to is what it was issued for (`Purposed`), and a file is
finalized, consumed, queued and gone in that order (`FileOK`). Checks: the profile follows the
latest submissions (`ProfileOK`, `StandingOK`), and what is in flight is about a submission that was
made and carries the verdict of its own capture (`FlightOK`).

**`SessionsProofs`**. `InductiveInvariant`, `ScreenAlwaysTrue`, `TokensUsedOnce`,
`NoPairForgotten`. The invariant has to say what the queue, the store, the calls and the refreshes
know of each other. `QueueOK`: the work of a session comes after that of earlier ones, behind the
write that begins or ends it. `JobOK`: a job is for a refresh at the matching step, and a write that
ends the current session finds memory empty. `StoreOK`: a write under way puts down what memory
holds, unless the session changed under it, and a store that is not loaded has no call or refresh
with a token. `CallsOK`: a call of the current session was sent with a pair of the login in memory.
`FlightOK`: a refresh of the current session that the server may see is of a pair that memory and
keychain agree on, and its answer is a fresh pair of the same login. `Apart`: refreshes of
different sessions are of different logins. `SupersededOK`: a superseded pair is in memory only
until its successor is stored. `HoldingsOK`: the pair of a login that can still be refreshed is in
memory, in an answer, about to be revoked, or lost. `LoginsOK` is the API's part. Twenty-odd actions
reduce to four kinds of step, each with its own lemma: steps within a session (`Keeps`: none, or the
first, of the queued jobs is done, and refreshes are only given up or sent), steps from one session
to the next (`Succession`), the rotation of a pair at the API (`Rotated`), and the start of a write
(`Writes`); a restart is treated on its own.

Only model-checked: all liveness, which is beyond the prover.

## 6. Where the code and its documents part

Each is stated as a definition of the module, next to its properties, and belongs to no run,
since the code does not keep it:

- `NoShowNeverAsserted` (`BookingEscrow`): the no-show sweep reads `arrivalAssertedAt` before it
  reserves the refund. An arrival asserted in between does not stop it, against
  `docs/WORKFLOWS.md`.
- `NoShowPenalised` (`BookingEscrow`): a no-show whose refund is recorded by recovery or a
  callback leaves the usher without the penalty that `policy.ts` and `docs/PAYMENTS.md` announce.
- `FrozenUntilDecided` (`BookingEscrow`): an usher's cancellation that read the booking before a
  dispute was opened refunds the frozen escrow, and the dispute stays open.
- `SkippedKeepsBalance` (`PayoutRun`): `docs/PAYMENTS.md` says a skipped line leaves its balance
  in the wallet. If another execution of the run is still under way and the obstacle goes, that
  one pays it, and the run lists the line as skipped.
- `Consent` (`Recruitment`): `recruitment.ts` refuses to accept a withdrawn application, but not to
  reject it, and a rejected one can be accepted; so the usher who withdrew is booked. The test
  `reports/__tests__/marketplace.test.ts` says "a withdrawn application cannot be reserved".

Seen while modelling, without a definition of their own:

- `docs/WORKFLOWS.md` line 70 says the service rejects a client's cancellation within 48 hours,
  which the code now settles with split compensation.
- `checkout.ts` line 143 says a saved page may still resume in its time window, while one failed
  verification takes a READY checkout to REVIEW, from where no page is shown; an initialization
  the provider refused keeps its seats reserved, because nothing conclusive can be learned of it.
- The administrator's `reinstate` does not look at the status, so it reactivates an erased account.
- A sign-out aborts a refresh begun by a restore, a login or a profile call: if the API rotated
  already, the successor is revoked by nobody (`lost` in `Sessions`, until it expires). A sign-out
  before the store is loaded revokes nothing.
- A rotated pair that the keychain refuses to store lives in memory until a later write. If the
  app is killed before that, the pair is revoked by nobody (`lost` in `Relaunch`), and the next start
  presents the token that was consumed, gets a 401 and ends the session.
- `editEvent` protects bookings, not applications: who applied to a day may be accepted for
  another. The invitation status EXPIRED is written nowhere.
- While a business submission is PENDING, a slow registry question that ends as UNAVAILABLE can
  overwrite the VERIFIED of a later refresh; it cannot be approved then until it is refreshed again.

## 7. What is not modelled

- Inside the modelled components: in `BookingEscrow`, event status, the wallet's limit, the
  suspension after repeated late cancellations, V1 amounts, repair of data of older releases,
  changes of an administrator's role; in `Checkout`, charges of another amount or reference (the
  code leaves them to REVIEW), more than one client, availability calendars, the steps of a
  refund (they are `BookingEscrow`'s); in `PayoutRun`, the transfer codes an account owner enters
  and the flags and exclusions shown to administrators; in `Sessions`, one-time codes, roles, the
  administrators' browser sessions, push tokens; in `Recruitment`, venues, titles and preferences,
  suspension of the client; in `Identity`, files of conversations, keys older than upload intents,
  sizes and signatures of files, and resuming a session or asking for fresh photos, which change no
  state of the API; the rate of captures (five in six hours); a copy that the object store makes after
  the API gave it up (fifteen seconds) or died and the row was unlocked: if the file was erased and
  cleaned up meanwhile, it stays, so `NothingOrphaned` speaks of copies made under the lock.
- The terms of an event that has a booking are fixed in `Checkout`, as `edit.ts` leaves them.
- User interfaces (most of the repository's lines): they hold no authoritative state. Validation of
  requests, signatures, message texts, logging, metrics, cryptography: no protocol.
- Messages, notifications and realtime events: appended or sent after the commit, best effort,
  never read by what is modelled. Discovery, rewards, reports, profiles: reads, and updates of
  one row.
- The one-time codes (an advisory lock per phone number serializes them), the audit chain (appended
  under a lock), reconciliation (a read-only comparison), the recovery schedule's back-off:
  candidates for a later extension.

## 8. Plan

Done: the money paths, the payout runs, sessions, recruitment, identity and files, each with its
promise or its invariants; the safety properties of all of them proved, and the four refinements.

Next: an abstract specification of a session (a phone that is signed in as one user or as nobody,
an API that keeps one refreshable pair per login) which `Sessions` implements, with the invariant
above as what the step simulation needs; then promises for `Recruitment` and `Identity`; then the
recovery schedule with its back-off and quarantine, from which the fairness of recovery that section
4 assumes could be derived.
