----------------------------- MODULE PayoutRun ------------------------------
(***************************************************************************)
(* Weekly payout runs: a snapshot of the payable wallets, submitted by one *)
(* administrator, approved by another, turned into one withdrawal a line,  *)
(* and resumed after a crash.                                              *)
(*                                                                         *)
(* One step is one database transaction.  The run lock serializes build,   *)
(* submit, reject, cancel, approve and the last step of an execution; the  *)
(* lines of an execution only take the lock of their wallet, so a request  *)
(* and the recovery job may execute one run side by side.  The transfer of *)
(* a withdrawal is TransferDispatch's: here it is issued, then settled.    *)
(* The hash of a list stands for the list: two lists hash alike iff they   *)
(* are equal.  Flags and exclusions only inform the administrators.        *)
(***************************************************************************)
EXTENDS Integers, FiniteSetsExt

CONSTANTS
    Wallets,      \* wallets, numbered in the order of their ids
    Accounts,     \* bound: the bank accounts the ushers may start with
    Periods,      \* bound: the dates (lagosDateKey) a run is built for, 1..n
    Admins,
    Procs,        \* handlers of the approve and dispatch routes, the job
    None,
    MinPayout,    \* PAYOUT_MIN_KOBO
    Credits,      \* bound: kobo a wallet is credited at once
    MaxEarned,    \* bound: kobo a wallet is credited in all
    Statuses,     \* bound: what the status of a wallet's user may change to
    MaxFaults     \* bound: crashes and exceptions of an execution

UserStatus == {"ACTIVE", "SUSPENDED", "ANONYMIZED"}
Banks == UNION {a[w] : a \in Accounts, w \in Wallets}
Line == [amount : 1..MaxEarned, bank : Banks]
Lists == UNION {[S -> Line] : S \in SUBSET Wallets}
EmptyList == [w \in {} |-> None]

ASSUME PayoutAssumption ==
    /\ Wallets \subseteq Nat /\ IsFiniteSet(Wallets)
    /\ Periods \subseteq Nat \ {0} /\ IsFiniteSet(Periods)
    /\ MinPayout \in Nat \ {0} /\ MaxEarned \in Nat /\ MaxFaults \in Nat
    /\ Credits \subseteq Nat \ {0}
    /\ None \notin Admins \cup Procs \cup Banks \cup Periods \cup Lists
    /\ \A a \in Accounts : DOMAIN a = Wallets
    /\ Statuses \in [Wallets -> SUBSET UserStatus]

VARIABLES
    balance,      \* wallet.availableBalance
    earned,       \* credits of the wallet
    own,          \* net debits of the usher's own withdrawals
    user,         \* status of the wallet's user
    account,      \* usher.payoutBankAccountId
    recipients,   \* accounts of the usher that have a transfer recipient
    today,        \* the Lagos date
    status,       \* payoutRun.status, "NONE" before the run is built
    lines,        \* payoutRun.lines
    maker, checker,   \* submittedById, approvedById
    skipped,      \* payoutRun.skipped
    seen,         \* the run and list an administrator has on the screen
    reviewed,     \* history: the lists the maker and the checker put their names to
    made,         \* kobo the withdrawals of a run took from a wallet, and their account
    wd,           \* that withdrawal, from its intent to its end
    run, todo, notSent,   \* an execution: its run, the lines left, its skips
    faults

wallets == <<balance, earned, own, user, account, recipients>>
runs    == <<status, lines, maker, checker, skipped, reviewed>>
payouts == <<made, wd>>
procs   == <<run, todo, notSent>>
vars    == <<wallets, today, runs, seen, payouts, procs, faults>>

RunStatus == {"NONE", "DRAFT", "AWAITING_APPROVAL", "APPROVED", "EXECUTED", "CANCELLED"}
Open == {"DRAFT", "AWAITING_APPROVAL", "APPROVED"}
Nothing == [run |-> None, list |-> EmptyList]
Unpaid == [amount |-> 0, bank |-> None]
NobodyYet == [a \in Admins |-> None]

Init ==
    /\ balance = [w \in Wallets |-> 0]
    /\ earned = [w \in Wallets |-> 0]
    /\ own = [w \in Wallets |-> 0]
    /\ user = [w \in Wallets |-> "ACTIVE"]
    /\ recipients \in Accounts
    /\ account \in [Wallets -> Banks \cup {None}]
    /\ \A w \in Wallets : IF recipients[w] = {} THEN account[w] = None
                           ELSE account[w] \in recipients[w]
    /\ today = 1
    /\ status = [p \in Periods |-> "NONE"]
    /\ lines = [p \in Periods |-> EmptyList]
    /\ maker = [p \in Periods |-> None]
    /\ checker = [p \in Periods |-> None]
    /\ skipped = [p \in Periods |-> {}]
    /\ seen = [a \in Admins |-> Nothing]
    /\ reviewed = [p \in Periods |-> NobodyYet]
    /\ made = [p \in Periods |-> [w \in Wallets |-> Unpaid]]
    /\ wd = [p \in Periods |-> [w \in Wallets |-> "NONE"]]
    /\ run = [q \in Procs |-> None]
    /\ todo = [q \in Procs |-> EmptyList]
    /\ notSent = [q \in Procs |-> {}]
    /\ faults = 0

-----------------------------------------------------------------------------
(* Wallets and their owners.                                               *)

Credit(w) ==
    /\ \E k \in Credits :
        /\ earned[w] + k <= MaxEarned
        /\ earned' = [earned EXCEPT ![w] = @ + k]
        /\ balance' = [balance EXCEPT ![w] = @ + k]
    /\ UNCHANGED <<own, user, account, recipients, today, runs, seen, payouts, procs, faults>>

\* initWithdrawal, while the usher may still withdraw on request.
WithdrawOwn(w) ==
    /\ user[w] = "ACTIVE" /\ recipients[w] # {}
    /\ \E k \in Credits :
        /\ balance[w] >= k
        /\ balance' = [balance EXCEPT ![w] = @ - k]
        /\ own' = [own EXCEPT ![w] = @ + k]
    /\ UNCHANGED <<earned, user, account, recipients, today, runs, seen, payouts, procs, faults>>

ChooseAccount(w) ==
    /\ user[w] = "ACTIVE"
    /\ \E b \in recipients[w] \ {account[w]} : account' = [account EXCEPT ![w] = b]
    /\ UNCHANGED <<balance, earned, own, user, recipients, today, runs, seen, payouts, procs, faults>>

\* Suspension, reinstatement and erasure; the latter drops the recipients.
ChangeStatus(w) ==
    /\ \E s \in Statuses[w] \ {user[w]} :
        /\ user' = [user EXCEPT ![w] = s]
        /\ recipients' = IF s = "ANONYMIZED"
                         THEN [recipients EXCEPT ![w] = {}] ELSE recipients
    /\ UNCHANGED <<balance, earned, own, account, today, runs, seen, payouts, procs, faults>>

Tomorrow ==
    /\ today + 1 \in Periods
    /\ today' = today + 1
    /\ UNCHANGED <<wallets, runs, seen, payouts, procs, faults>>

-----------------------------------------------------------------------------
(* The administrators' side of a run.                                      *)

Payable(w) ==
    /\ balance[w] >= MinPayout
    /\ user[w] = "ACTIVE"
    /\ account[w] \in recipients[w]

payableLines ==
    [w \in {x \in Wallets : Payable(x)} |-> [amount |-> balance[w], bank |-> account[w]]]

\* Mutant: the draft of another day stays open.
buildPayoutRunBeside(p) ==
    /\ p \in {today, today - 1} \cap Periods
    /\ status[p] \in {"NONE", "DRAFT"}
    /\ \A o \in Periods \ {p} : status[o] \notin {"AWAITING_APPROVAL", "APPROVED"}
    /\ status' = [status EXCEPT ![p] = "DRAFT"]
    /\ lines' = [lines EXCEPT ![p] = payableLines]
    /\ UNCHANGED <<wallets, today, maker, checker, skipped, reviewed, seen, payouts, procs, faults>>

\* The date is read before the run lock is granted, so a request that waited over
\* midnight still builds the run of yesterday.
buildPayoutRun(p) ==
    /\ p \in {today, today - 1} \cap Periods
    /\ status[p] \in {"NONE", "DRAFT"}
    /\ \A o \in Periods \ {p} : status[o] \notin {"AWAITING_APPROVAL", "APPROVED"}
    /\ status' = [o \in Periods |-> IF o = p THEN "DRAFT"
                                    ELSE IF status[o] = "DRAFT" THEN "CANCELLED"
                                    ELSE status[o]]
    /\ lines' = [lines EXCEPT ![p] = payableLines]
    /\ UNCHANGED <<wallets, today, maker, checker, skipped, reviewed, seen, payouts, procs, faults>>

\* An administrator opens the run: its list and hash are now on the screen.
ViewRun(a, p) ==
    /\ status[p] \in {"DRAFT", "AWAITING_APPROVAL"}
    /\ seen' = [seen EXCEPT ![a] = [run |-> p, list |-> lines[p]]]
    /\ UNCHANGED <<wallets, today, runs, payouts, procs, faults>>

\* Mutant: the hash of the list on the screen is not compared.
assertHashTrusting(a, p) == TRUE

assertHash(a, p) == seen[a].list = lines[p]

submitPayoutRun(a, p) ==
    /\ status[p] = "DRAFT" /\ seen[a].run = p
    /\ assertHash(a, p)
    /\ DOMAIN lines[p] # {}
    /\ status' = [status EXCEPT ![p] = "AWAITING_APPROVAL"]
    /\ maker' = [maker EXCEPT ![p] = a]
    /\ reviewed' = [reviewed EXCEPT ![p] = [NobodyYet EXCEPT ![a] = seen[a].list]]
    /\ UNCHANGED <<wallets, today, lines, checker, skipped, seen, payouts, procs, faults>>

rejectPayoutRun(p) ==
    /\ status[p] = "AWAITING_APPROVAL"
    /\ status' = [status EXCEPT ![p] = "DRAFT"]
    /\ maker' = [maker EXCEPT ![p] = None]
    /\ UNCHANGED <<wallets, today, lines, checker, skipped, reviewed, seen, payouts, procs, faults>>

cancelPayoutRun(p) ==
    /\ status[p] = "DRAFT"
    /\ status' = [status EXCEPT ![p] = "CANCELLED"]
    /\ UNCHANGED <<wallets, today, lines, maker, checker, skipped, reviewed, seen, payouts, procs, faults>>

approvePayoutRun(a, p) ==
    /\ status[p] = "AWAITING_APPROVAL" /\ seen[a].run = p
    /\ maker[p] \notin {None, a}
    /\ assertHash(a, p)
    /\ status' = [status EXCEPT ![p] = "APPROVED"]
    /\ checker' = [checker EXCEPT ![p] = a]
    /\ reviewed' = [reviewed EXCEPT ![p][a] = seen[a].list]
    /\ UNCHANGED <<wallets, today, lines, maker, skipped, seen, payouts, procs, faults>>

-----------------------------------------------------------------------------
(* An execution: the approve handler, the dispatch route or the job reads  *)
(* the approved run once, then carries out line after line.                *)

executePayoutRun(q, p) ==
    /\ run[q] = None
    /\ status[p] = "APPROVED"
    /\ run' = [run EXCEPT ![q] = p]
    /\ todo' = [todo EXCEPT ![q] = lines[p]]
    /\ notSent' = [notSent EXCEPT ![q] = {}]
    /\ UNCHANGED <<wallets, today, runs, seen, payouts, faults>>

\* Of the line of wallet w: why its money stays where it is.  Suspended or erased,
\* the account gone, or a balance that no longer covers it.
Skips(w, line) ==
    \/ user[w] # "ACTIVE"
    \/ line.bank \notin recipients[w]
    \/ balance[w] < line.amount

\* Mutant: a withdrawal the bank returned does not count as the line's.
ExistsUnreturned(p, w) == wd[p][w] \notin {"NONE", "FAILED"}

Exists(p, w) == wd[p][w] # "NONE"

\* The withdrawal, its ledger debit and its dispatch intent are one transaction.
Create(p, w, line) ==
    /\ balance' = [balance EXCEPT ![w] = @ - line.amount]
    /\ made' = [made EXCEPT ![p][w] = [amount |-> @.amount + line.amount, bank |-> line.bank]]
    /\ wd' = [wd EXCEPT ![p][w] = "PENDING"]

executeLine(q) ==
    /\ run[q] # None /\ DOMAIN todo[q] # {}
    /\ LET w == Min(DOMAIN todo[q])
           line == todo[q][w]
       IN  /\ todo' = [todo EXCEPT ![q] = [x \in DOMAIN @ \ {w} |-> @[x]]]
           /\ \/ Exists(run[q], w) /\ UNCHANGED <<balance, payouts, notSent>>
              \/ /\ ~Exists(run[q], w) /\ Skips(w, line)
                 /\ notSent' = [notSent EXCEPT ![q] = @ \cup {w}]
                 /\ UNCHANGED <<balance, payouts>>
              \/ /\ ~Exists(run[q], w) /\ ~Skips(w, line)
                 /\ Create(run[q], w, line)
                 /\ UNCHANGED notSent
    /\ UNCHANGED <<earned, own, user, account, recipients, today, runs, seen, run, faults>>

\* The last step, under the run lock; whoever comes second leaves it as it is.
MarkExecuted(q) ==
    /\ run[q] # None /\ DOMAIN todo[q] = {}
    /\ status' = [status EXCEPT ![run[q]] = "EXECUTED"]
    /\ skipped' = IF status[run[q]] = "EXECUTED" THEN skipped
                  ELSE [skipped EXCEPT ![run[q]] = notSent[q]]
    /\ run' = [run EXCEPT ![q] = None]
    /\ notSent' = [notSent EXCEPT ![q] = {}]
    /\ UNCHANGED <<wallets, today, lines, maker, checker, reviewed, seen, payouts, todo, faults>>

\* Mutant: an exception ends the run like its last line.
AbortDone(q) ==
    /\ run[q] # None /\ faults < MaxFaults
    /\ faults' = faults + 1
    /\ status' = [status EXCEPT ![run[q]] = "EXECUTED"]
    /\ skipped' = [skipped EXCEPT ![run[q]] = notSent[q]]
    /\ run' = [run EXCEPT ![q] = None]
    /\ todo' = [todo EXCEPT ![q] = EmptyList]
    /\ notSent' = [notSent EXCEPT ![q] = {}]
    /\ UNCHANGED <<wallets, today, lines, maker, checker, reviewed, seen, payouts>>

\* The process dies, or a line or the last step throws.
Abort(q) ==
    /\ run[q] # None /\ faults < MaxFaults
    /\ faults' = faults + 1
    /\ run' = [run EXCEPT ![q] = None]
    /\ todo' = [todo EXCEPT ![q] = EmptyList]
    /\ notSent' = [notSent EXCEPT ![q] = {}]
    /\ UNCHANGED <<wallets, today, runs, seen, payouts>>

-----------------------------------------------------------------------------
(* The transfers.                                                          *)

\* driveTransfer on a pending intent: by the request, or by resumeOps, which asks
\* nothing of the run.  A code the provider wants of the owner changes nothing here.
dispatchPayoutRun(p, w) ==
    /\ wd[p][w] = "PENDING"
    /\ wd' = [wd EXCEPT ![p][w] = "ISSUED"]
    /\ UNCHANGED <<wallets, today, runs, seen, made, procs, faults>>

\* The provider refuses the transfer or takes it back, sooner or later.
Fail(p, w) ==
    /\ wd[p][w] = "ISSUED"
    /\ wd' = [wd EXCEPT ![p][w] = "FAILED"]
    /\ balance' = [balance EXCEPT ![w] = @ + lines[p][w].amount]
    /\ UNCHANGED <<earned, own, user, account, recipients, today, runs, seen, made, procs, faults>>

Next ==
    \/ \E w \in Wallets : Credit(w) \/ WithdrawOwn(w) \/ ChooseAccount(w) \/ ChangeStatus(w)
    \/ Tomorrow
    \/ \E p \in Periods :
        \/ buildPayoutRun(p) \/ rejectPayoutRun(p) \/ cancelPayoutRun(p)
        \/ \E a \in Admins : ViewRun(a, p) \/ submitPayoutRun(a, p) \/ approvePayoutRun(a, p)
        \/ \E q \in Procs : executePayoutRun(q, p)
        \/ \E w \in Wallets : dispatchPayoutRun(p, w) \/ Fail(p, w)
    \/ \E q \in Procs : executeLine(q) \/ MarkExecuted(q) \/ Abort(q)

Spec == Init /\ [][Next]_vars

-----------------------------------------------------------------------------
(* Properties.                                                             *)

Withdrawals == {"NONE", "PENDING", "ISSUED", "FAILED"}
Approved == {"APPROVED", "EXECUTED"}

\* Kobo that each run holds or has sent of a wallet's earnings, and all of them.
Held(w) ==
    [p \in Periods |-> IF wd[p][w] \in {"NONE", "FAILED"} THEN 0 ELSE made[p][w].amount]

Outstanding(w) == SumFunctionOnSet(Held(w), Periods)

WalletsType ==
    /\ balance \in [Wallets -> 0..MaxEarned] /\ earned \in [Wallets -> 0..MaxEarned]
    /\ own \in [Wallets -> Nat] /\ user \in [Wallets -> UserStatus]
    /\ account \in [Wallets -> Banks \cup {None}]
    /\ DOMAIN recipients = Wallets /\ \A w \in Wallets : recipients[w] \subseteq Banks

RunsType ==
    /\ status \in [Periods -> RunStatus] /\ lines \in [Periods -> Lists]
    /\ maker \in [Periods -> Admins \cup {None}] /\ checker \in [Periods -> Admins \cup {None}]
    /\ skipped \in [Periods -> SUBSET Wallets]
    /\ reviewed \in [Periods -> [Admins -> Lists \cup {None}]]

PayoutsType ==
    /\ wd \in [Periods -> [Wallets -> Withdrawals]]
    /\ made \in [Periods -> [Wallets -> [amount : 0..MaxEarned, bank : Banks \cup {None}]]]
    /\ run \in [Procs -> Periods \cup {None}] /\ todo \in [Procs -> Lists]
    /\ notSent \in [Procs -> SUBSET Wallets] /\ faults \in Nat

\* Shape of the state.
TypeOK == WalletsType /\ RunsType /\ PayoutsType

\* payout-runs.ts:317-375.  A wallet holds what it earned less what left it.
BooksAgree == \A w \in Wallets : balance[w] = earned[w] - own[w] - Outstanding(w)

\* payout-runs.ts:160-214.  Whatever requests and midnights cross, one run at most
\* is being prepared, awaits approval or executes, so no balance is promised twice.
OneOpenRun ==
    \A p, o \in Periods : status[p] \in Open /\ status[o] \in Open => p = o

\* Of rows of the right types: a wallet's balance is in one open run at most, and what
\* runs took of it, whatever overlapped, is what it lacks.
TakenOnce == TypeOK /\ BooksAgree /\ OneOpenRun

\* payout-runs.ts:226-312.  What runs was reviewed by two: the two administrators
\* whose names an approved run carries are not the same, and each of them put that
\* name to exactly the lines that are now carried out, whatever was rejected,
\* refreshed and submitted again in between.
FourEyes ==
    \A p \in Periods : status[p] \in Approved =>
        /\ maker[p] # checker[p] /\ {maker[p], checker[p]} \subseteq Admins
        /\ \A a \in {maker[p], checker[p]} : reviewed[p][a] = lines[p]

\* payout-runs.ts:382-430.  A run is EXECUTED only when no line of it is forgotten:
\* each made its withdrawal or is on the list of those that did not, although two
\* executions each saw only a part of it and a crash may have hidden another.
ExecutedIsComplete ==
    \A p \in Periods : status[p] = "EXECUTED" =>
        \A w \in DOMAIN lines[p] : Exists(p, w) \/ w \in skipped[p]

\* payout-runs.ts:287-375.  A run implements the payroll: its list is fixed when it is
\* approved, and each line is paid at most once, in the amount and to the account approved.
Promise == INSTANCE Payroll WITH
    Payees <- Wallets, NotApproved <- None,
    approved <- [p \in Periods |-> IF status[p] \in Approved THEN lines[p] ELSE None],
    paid <- made

ImplementsPayroll == Promise!PayrollSpec

-----------------------------------------------------------------------------
(* The inductive invariant behind these properties.                        *)

\* What took money is a line of an approved run, in that line's amount and account.
TakenAsApproved ==
    \A p \in Periods, w \in Wallets :
        IF Exists(p, w)
        THEN status[p] \in Approved /\ w \in DOMAIN lines[p] /\ made[p][w] = lines[p][w]
        ELSE made[p][w] = Unpaid

\* An execution carries out an approved run; the lines behind it are done or skipped.
ExecutionsOK ==
    \A q \in Procs : run[q] # None =>
        /\ status[run[q]] \in Approved
        /\ DOMAIN todo[q] \subseteq DOMAIN lines[run[q]]
        /\ \A w \in DOMAIN todo[q] : todo[q][w] = lines[run[q]][w]
        /\ \A w \in DOMAIN lines[run[q]] \ DOMAIN todo[q] : Exists(run[q], w) \/ w \in notSent[q]

\* What awaits approval is what its maker reviewed.
MakerReviewed ==
    \A p \in Periods : status[p] = "AWAITING_APPROVAL" =>
        /\ maker[p] \in Admins
        /\ reviewed[p][maker[p]] = lines[p]

\* The conjunction is preserved by every step.
Inductive ==
    /\ TakenOnce /\ FourEyes /\ ExecutedIsComplete
    /\ TakenAsApproved /\ ExecutionsOK /\ MakerReviewed

-----------------------------------------------------------------------------
(* What the documents say and the code does not do.                        *)

\* docs/PAYMENTS.md:192: "The run records them as `skipped`; the balance stays in the
\* wallet".  It does not if another execution, still under way, takes up the line
\* once its obstacle is gone.
SkippedKeepsBalance ==
    \A p \in Periods : \A w \in skipped[p] : ~Exists(p, w)
=============================================================================
