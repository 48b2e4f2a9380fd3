-------------------------- MODULE TransferDispatch --------------------------
(***************************************************************************)
(* Outbound transfers of HireQuick: the wallet withdrawals of an usher and *)
(* the platform's commission sweeps, from the durable intent row           *)
(* (payment_operations) to the bank and back.                              *)
(*                                                                         *)
(* Processes are request handlers, webhook handlers and recovery jobs of   *)
(* the API.  One step is one database transaction, or one call to the      *)
(* payment provider; a process may crash, or see an exception, between any *)
(* two of them.  The transactions that read the reversal intent and then   *)
(* pay are two steps each, under the row lock "holder": Postgres runs them *)
(* READ COMMITTED, and the insertion of the reversal takes no lock on the  *)
(* row they hold.                                                          *)
(*                                                                         *)
(* The attempts column is left out: for a transfer the first dispatch and  *)
(* the reconciliation are one function (send), so it decides nothing.      *)
(***************************************************************************)
EXTENDS Integers, FiniteSets, FiniteSetsExt

CONSTANTS
    Withdrawals,   \* withdrawals of one wallet
    Sweeps,        \* commission sweeps
    Legacy,        \* withdrawals debited by an older release, still PROCESSING
    Procs,         \* request handlers, webhook handlers and jobs
    None,          \* no process, no transfer
    Amount,        \* kobo of each withdrawal
    MaxBalance,    \* MAX_INT32_KOBO: the largest balance a wallet row can hold
    EarnedInit,    \* earnings credited before the behaviour starts
    MaxEarned,     \* bound: total of the earnings credited
    MaxFaults      \* bound: crashes, exceptions, lost calls, slow owners

Transfers == Withdrawals \cup Sweeps

Total(S) == SumFunctionOnSet(Amount, S)

ASSUME TransferAssumption ==
    /\ Withdrawals \cap Sweeps = {} /\ IsFiniteSet(Withdrawals)
    /\ Legacy \subseteq Withdrawals
    /\ None \notin Procs \cup Transfers
    /\ Amount \in [Withdrawals -> Nat \ {0}]
    /\ MaxBalance \in Nat /\ EarnedInit \in Nat /\ MaxEarned \in Nat
    /\ MaxFaults \in Nat

\* The balance after the older debits, which the earnings covered.
Opening == EarnedInit - Total(Legacy)

ASSUME OpeningAssumption == Opening \in 0..MaxBalance

VARIABLES
    balance,    \* wallet.availableBalance
    earned,     \* sum of the CREDIT rows of the wallet ledger
    reversals,  \* REVERSAL rows of the wallet ledger, for each withdrawal
    wd,         \* withdrawal.status
    swept,      \* net COMMISSION_SWEEP rows of the escrow ledger, for each sweep
    op,         \* status of the dispatch intent
    lease,      \* payload.dispatchLease of the intent
    reversal,   \* status of the WITHDRAWAL_REVERSAL intent
    holder,     \* process whose open transaction holds the intent's row lock
    bank,       \* the transfer at the provider, under its reference
    delayed,    \* transfers whose POST timed out and may still arrive
    events,     \* terminal callbacks the provider has sent: <<transfer, outcome>>
    pc, job,    \* where a process is, and the transfer it drives
    mine,       \* whether it claimed the dispatch lease in this run
    ev,         \* the provider evidence it carries
    faults      \* faults so far

money == <<balance, earned, reversals, wd, swept>>
rows  == <<op, lease, reversal, holder>>
world == <<bank, delayed, events>>
procs == <<pc, job, mine, ev>>
vars  == <<money, rows, world, procs, faults>>

WithdrawalStatus == {"NONE", "PROCESSING", "PAID", "FAILED"}
OpStatus == {"NONE", "PENDING", "PROVIDER_OK", "RECORDED", "FAILED"}
BankStatus == {"unknown", "pending", "success", "failed"}
Final == {"success", "failed"}
Labels == {"idle", "known", "claim", "begin", "sendKnown", "sendOwns", "verify",
           "verified", "reknown", "reowns", "post", "posted", "persist",
           "checkpoint", "finalize", "finalizeCommit", "reverse", "release",
           "hook", "hookCommit", "stuck", "stuckVerify", "stuckVerified", "stuckSettle"}

NoLease == [owner |-> None, live |-> FALSE]

Init ==
    /\ wd = [w \in Withdrawals |-> IF w \in Legacy THEN "PROCESSING" ELSE "NONE"]
    /\ earned = EarnedInit
    /\ balance = Opening
    /\ reversals = [w \in Withdrawals |-> 0]
    /\ swept = [t \in Sweeps |-> 0]
    /\ op \in [Transfers -> {"NONE", "RECORDED"}]
    /\ \A t \in Transfers : op[t] = "RECORDED" => t \in Legacy
    /\ bank = [t \in Transfers |-> IF op[t] = "RECORDED" THEN "pending" ELSE "unknown"]
    /\ lease = [t \in Transfers |-> NoLease]
    /\ reversal = [w \in Withdrawals |-> "NONE"]
    /\ holder = [t \in Transfers |-> None]
    /\ delayed = {} /\ events = {}
    /\ pc = [p \in Procs |-> "idle"]
    /\ job = [p \in Procs |-> None]
    /\ mine = [p \in Procs |-> FALSE]
    /\ ev = [p \in Procs |-> "unknown"]
    /\ faults = 0

-----------------------------------------------------------------------------
(* Control of a process.                                                   *)

At(p, label) == pc[p] = label

Goto(p, label) ==
    /\ pc' = [pc EXCEPT ![p] = label]
    /\ UNCHANGED <<job, mine, ev>>

GotoWith(p, label, evidence) ==
    /\ pc' = [pc EXCEPT ![p] = label]
    /\ ev' = [ev EXCEPT ![p] = evidence]
    /\ UNCHANGED <<job, mine>>

Begin(p, label, t, evidence) ==
    /\ pc[p] = "idle"
    /\ pc' = [pc EXCEPT ![p] = label]
    /\ job' = [job EXCEPT ![p] = t]
    /\ ev' = [ev EXCEPT ![p] = evidence]
    /\ UNCHANGED mine

Done(p) ==
    /\ pc' = [pc EXCEPT ![p] = "idle"]
    /\ job' = [job EXCEPT ![p] = None]
    /\ mine' = [mine EXCEPT ![p] = FALSE]
    /\ ev' = [ev EXCEPT ![p] = "unknown"]

Fault == faults < MaxFaults /\ faults' = faults + 1

Unlocked(t) == holder[t] = None

KnownReversal(t) == t \in Withdrawals /\ reversal[t] # "NONE"

-----------------------------------------------------------------------------
(* Ledger effects of a settlement.                                         *)

\* completeWithdrawal: PROCESSING becomes PAID, a terminal row is left alone.
Complete(w) ==
    /\ wd' = IF wd[w] = "PROCESSING" THEN [wd EXCEPT ![w] = "PAID"] ELSE wd
    /\ UNCHANGED <<balance, earned, reversals, swept>>

\* Mutant: a PAID withdrawal that is credited back keeps its status.
FailKeepsPaid(w) ==
    IF wd[w] = "FAILED"
    THEN UNCHANGED money
    ELSE /\ balance' = balance + Amount[w]
         /\ reversals' = [reversals EXCEPT ![w] = @ + 1]
         /\ wd' = IF wd[w] = "PAID" THEN wd ELSE [wd EXCEPT ![w] = "FAILED"]
         /\ UNCHANGED <<earned, swept>>

\* Mutant: only a PROCESSING withdrawal can be credited back.
FailIgnoresPaid(w) ==
    IF wd[w] # "PROCESSING"
    THEN UNCHANGED money
    ELSE /\ balance' = balance + Amount[w]
         /\ reversals' = [reversals EXCEPT ![w] = @ + 1]
         /\ wd' = [wd EXCEPT ![w] = "FAILED"]
         /\ UNCHANGED <<earned, swept>>

\* failWithdrawal: the REVERSAL row, the balance and FAILED in one transaction.
Fail(w) ==
    IF wd[w] = "FAILED"
    THEN UNCHANGED money
    ELSE /\ balance' = balance + Amount[w]
         /\ reversals' = [reversals EXCEPT ![w] = @ + 1]
         /\ wd' = [wd EXCEPT ![w] = "FAILED"]
         /\ UNCHANGED <<earned, swept>>

\* appendWallet refuses a balance past the column's limit (BALANCE_LIMIT).
FailFits(w) == wd[w] = "FAILED" \/ balance + Amount[w] <= MaxBalance

\* recordWithdrawalReversal: insert the intent, skipping a duplicate.
RecordReversal(w) ==
    reversal' = IF reversal[w] = "NONE" THEN [reversal EXCEPT ![w] = "PROVIDER_OK"]
                                        ELSE reversal

-----------------------------------------------------------------------------
(* Entry points.                                                           *)

\* initWithdrawal: debit the wallet and write the intent, then drive it.
Request(p, w) ==
    /\ wd[w] = "NONE" /\ balance >= Amount[w]
    /\ wd' = [wd EXCEPT ![w] = "PROCESSING"]
    /\ balance' = balance - Amount[w]
    /\ op' = [op EXCEPT ![w] = "PENDING"]
    /\ Begin(p, "known", w, "unknown")
    /\ UNCHANGED <<earned, reversals, swept, lease, reversal, holder, world, faults>>

\* runCommissionSweep: the intent of a period, then drive it.
StartSweep(p, t) ==
    /\ op[t] = "NONE"
    /\ op' = [op EXCEPT ![t] = "PENDING"]
    /\ Begin(p, "known", t, "unknown")
    /\ UNCHANGED <<money, lease, reversal, holder, world, faults>>

\* A replayed request or the recovery job drives an existing intent again.
Resume(p, t) ==
    /\ op[t] # "NONE"
    /\ Begin(p, "known", t, "unknown")
    /\ UNCHANGED <<money, rows, world, faults>>

\* The recovery job drives a recorded reversal.
ResumeReversal(p, w) ==
    /\ reversal[w] = "PROVIDER_OK"
    /\ Begin(p, "reverse", w, "unknown")
    /\ UNCHANGED <<money, rows, world, faults>>

\* reconcileStuckWithdrawals: ensure the intent; a RECORDED one whose withdrawal
\* is PROCESSING is repaired apart, any other is driven.  The candidate read and
\* ensureWithdrawalOperation are one step here.  If a withdrawal settles between them,
\* the drive meets a settled intent and does nothing, as after ReconcileStuck; the
\* settled intent that the code writes for a row that had none is left out.
ReconcileStuck(p, w) ==
    /\ wd[w] = "PROCESSING"
    /\ op' = IF op[w] = "NONE" THEN [op EXCEPT ![w] = "PENDING"] ELSE op
    /\ Begin(p, IF op[w] = "RECORDED" THEN "stuck" ELSE "known", w, "unknown")
    /\ UNCHANGED <<money, lease, reversal, holder, world, faults>>

\* Earnings reach the wallet (releaseBooking), unless the row is full.
Credit ==
    /\ earned < MaxEarned /\ balance < MaxBalance
    /\ earned' = earned + 1 /\ balance' = balance + 1
    /\ UNCHANGED <<reversals, wd, swept, rows, world, procs, faults>>

-----------------------------------------------------------------------------
(* driveTransfer and runOperation, one transaction or call at a time.      *)

\* Before anything else: a recorded reversal is driven instead.
Known(p) ==
    /\ At(p, "known")
    /\ Goto(p, IF KnownReversal(job[p]) THEN "reverse" ELSE "claim")
    /\ UNCHANGED <<money, rows, world, faults>>

\* claimTransferDispatch finds another owner's live lease: return at once.
ClaimBusy(p) ==
    /\ At(p, "claim") /\ Unlocked(job[p])
    /\ op[job[p]] = "PENDING" /\ lease[job[p]].live
    /\ Done(p)
    /\ UNCHANGED <<money, rows, world, faults>>

\* Mutant: another owner's live lease is taken over.
ClaimLive(p) ==
    /\ At(p, "claim") /\ Unlocked(job[p])
    /\ IF op[job[p]] # "PENDING"
       THEN UNCHANGED <<lease, mine>>
       ELSE /\ lease' = [lease EXCEPT ![job[p]] = [owner |-> p, live |-> TRUE]]
            /\ mine' = [mine EXCEPT ![p] = TRUE]
    /\ pc' = [pc EXCEPT ![p] = "begin"]
    /\ UNCHANGED <<money, op, reversal, holder, world, job, ev, faults>>

\* claimTransferDispatch takes a free or expired lease, or finds the intent settled.
Claim(p) ==
    /\ At(p, "claim") /\ Unlocked(job[p])
    /\ \/ /\ op[job[p]] # "PENDING"
          /\ UNCHANGED <<lease, mine>>
       \/ /\ op[job[p]] = "PENDING" /\ ~ lease[job[p]].live
          /\ lease' = [lease EXCEPT ![job[p]] = [owner |-> p, live |-> TRUE]]
          /\ mine' = [mine EXCEPT ![p] = TRUE]
    /\ pc' = [pc EXCEPT ![p] = "begin"]
    /\ UNCHANGED <<money, op, reversal, holder, world, job, ev, faults>>

\* Mutant: only a PENDING intent is driven again.
RunOnlyPending(p) ==
    /\ At(p, "begin") /\ Unlocked(job[p])
    /\ Goto(p, IF op[job[p]] = "PENDING" THEN "sendKnown" ELSE "release")
    /\ UNCHANGED <<money, rows, world, faults>>

\* runOperation, first transaction: where the intent stands.
RunOperation(p) ==
    /\ At(p, "begin") /\ Unlocked(job[p])
    /\ Goto(p, CASE op[job[p]] = "PENDING" -> "sendKnown"
                 [] op[job[p]] = "PROVIDER_OK" -> "finalize"
                 [] OTHER -> "release")
    /\ UNCHANGED <<money, rows, world, faults>>

Owns(p) == mine[p] /\ op[job[p]] = "PENDING" /\ lease[job[p]] = [owner |-> p, live |-> TRUE]

\* send checks for a reversal three times; a recorded one is a failure.
SendKnown(p, from, to) ==
    /\ At(p, from)
    /\ IF KnownReversal(job[p]) THEN GotoWith(p, "checkpoint", "failed") ELSE Goto(p, to)
    /\ UNCHANGED <<money, rows, world, faults>>

\* ownsTransferDispatch, before the verification and again before the POST.
SendOwns(p, from, to) ==
    /\ At(p, from) /\ Unlocked(job[p])
    /\ IF Owns(p) THEN Goto(p, to) ELSE GotoWith(p, "checkpoint", "pending")
    /\ UNCHANGED <<money, rows, world, faults>>

\* Mutant: a pending transfer is taken for a failure.
VerifyPendingFails(p) ==
    /\ At(p, "verify")
    /\ GotoWith(p, "verified", IF bank[job[p]] = "pending" THEN "failed" ELSE bank[job[p]])
    /\ UNCHANGED <<money, rows, world, faults>>

\* paystack.verifyTransfer answers with the provider's state of the reference.
Verify(p) ==
    /\ At(p, "verify")
    /\ GotoWith(p, "verified", bank[job[p]])
    /\ UNCHANGED <<money, rows, world, faults>>

\* After the verification: a known outcome is kept, an unknown reference may be sent.
Verified(p) ==
    /\ At(p, "verified")
    /\ IF KnownReversal(job[p]) THEN GotoWith(p, "checkpoint", "failed")
       ELSE IF ev[p] = "failed" /\ job[p] \in Withdrawals THEN Goto(p, "persist")
       ELSE Goto(p, IF ev[p] = "unknown" THEN "reknown" ELSE "checkpoint")
    /\ UNCHANGED <<money, rows, world, faults>>

\* The provider meets a transfer request: a reference it knows is not sent twice.
BankAccept(t, outcome) ==
    /\ outcome \in {"pending"} \cup Final
    /\ bank' = IF bank[t] = "unknown" THEN [bank EXCEPT ![t] = outcome] ELSE bank
    /\ events' = IF bank[t] = "unknown" /\ outcome \in Final
                 THEN events \cup {<<t, outcome>>} ELSE events

\* paystack.transfer: the request is met, and its answer arrives.
Post(p) ==
    /\ At(p, "post")
    /\ \E outcome \in {"pending"} \cup Final :
          /\ BankAccept(job[p], outcome)
          /\ GotoWith(p, "posted", bank'[job[p]])
    /\ UNCHANGED <<money, rows, delayed, faults>>

\* The request is lost, is met but its answer lost, or arrives after the timeout.
PostLost(p) ==
    /\ At(p, "post") /\ Fault
    /\ \/ /\ delayed' \in {delayed, delayed \cup {job[p]}}
          /\ UNCHANGED <<bank, events>>
       \/ /\ \E outcome \in {"pending"} \cup Final : BankAccept(job[p], outcome)
          /\ UNCHANGED delayed
    /\ GotoWith(p, "posted", "unknown")
    /\ UNCHANGED <<money, rows>>

\* After the POST: a reversal recorded meanwhile outranks its answer.
Posted(p) ==
    /\ At(p, "posted")
    /\ IF KnownReversal(job[p]) THEN GotoWith(p, "checkpoint", "failed")
       ELSE Goto(p, IF ev[p] = "failed" /\ job[p] \in Withdrawals THEN "persist" ELSE "checkpoint")
    /\ UNCHANGED <<money, rows, world, faults>>

\* Mutant: the failure is checkpointed before its reversal is durable.
PersistNothing(p) ==
    /\ At(p, "persist")
    /\ Goto(p, "checkpoint")
    /\ UNCHANGED <<money, rows, world, faults>>

\* persistFailure: the reversal intent is durable before the checkpoint.
Persist(p) ==
    /\ At(p, "persist")
    /\ RecordReversal(job[p])
    /\ Goto(p, "checkpoint")
    /\ UNCHANGED <<money, op, lease, holder, world, faults>>

\* runOperation, second transaction: record the evidence while still PENDING.  A
\* failure with a recorded reversal rolls back and is driven as that reversal.
Checkpoint(p) ==
    /\ At(p, "checkpoint") /\ Unlocked(job[p])
    /\ IF op[job[p]] # "PENDING" \/ ev[p] \in {"pending", "unknown"}
       THEN Goto(p, "finalize") /\ UNCHANGED <<money, op>>
       ELSE IF ev[p] = "success"
       THEN /\ op' = [op EXCEPT ![job[p]] = "PROVIDER_OK"]
            /\ Goto(p, "finalize") /\ UNCHANGED money
       ELSE IF KnownReversal(job[p])
       THEN Goto(p, "reverse") /\ UNCHANGED <<money, op>>
       ELSE /\ op' = [op EXCEPT ![job[p]] = "FAILED"]
            /\ IF job[p] \in Withdrawals THEN Fail(job[p]) ELSE UNCHANGED money
            /\ Goto(p, "finalize")
    /\ UNCHANGED <<lease, reversal, holder, world, faults>>

\* commissionSweep: the sweep leaves the balance, in the ledger.
SweepOut(t) == swept' = [swept EXCEPT ![t] = @ + 1] /\ UNCHANGED <<balance, earned, reversals, wd>>

\* runOperation, third transaction: with the intent locked, read it and, for a
\* withdrawal, its reversal.  A sweep is recorded at once.
Finalize(p) ==
    /\ At(p, "finalize") /\ Unlocked(job[p])
    /\ IF op[job[p]] # "PROVIDER_OK"
       THEN Goto(p, "release") /\ UNCHANGED <<money, op, holder>>
       ELSE IF job[p] \in Sweeps
       THEN /\ SweepOut(job[p])
            /\ op' = [op EXCEPT ![job[p]] = "RECORDED"]
            /\ Goto(p, "release") /\ UNCHANGED holder
       ELSE IF KnownReversal(job[p])
       THEN Goto(p, "reverse") /\ UNCHANGED <<money, op, holder>>
       ELSE /\ holder' = [holder EXCEPT ![job[p]] = p]
            /\ Goto(p, "finalizeCommit") /\ UNCHANGED <<money, op>>
    /\ UNCHANGED <<lease, reversal, world, faults>>

\* ... and commit PAID together with RECORDED.
FinalizeCommit(p) ==
    /\ At(p, "finalizeCommit")
    /\ Complete(job[p])
    /\ op' = [op EXCEPT ![job[p]] = "RECORDED"]
    /\ holder' = [holder EXCEPT ![job[p]] = None]
    /\ Goto(p, "release")
    /\ UNCHANGED <<lease, reversal, world, faults>>

\* driveWithdrawalReversal: credit the wallet, fail the withdrawal and both
\* intents in one transaction; a full wallet leaves the reversal for later.
Reverse(p) ==
    /\ At(p, "reverse") /\ Unlocked(job[p])
    /\ IF reversal[job[p]] = "PROVIDER_OK" /\ FailFits(job[p])
       THEN /\ Fail(job[p])
            /\ op' = IF op[job[p]] = "NONE" THEN op ELSE [op EXCEPT ![job[p]] = "FAILED"]
            /\ reversal' = [reversal EXCEPT ![job[p]] = "RECORDED"]
       ELSE UNCHANGED <<money, op, reversal>>
    /\ Goto(p, "release")
    /\ UNCHANGED <<lease, holder, world, faults>>

\* driveTransfer's finally: give back a lease that is still one's own.
Release(p) ==
    /\ At(p, "release")
    /\ mine[p] => Unlocked(job[p])
    /\ lease' = IF mine[p] /\ lease[job[p]].owner = p
                THEN [lease EXCEPT ![job[p]] = NoLease] ELSE lease
    /\ Done(p)
    /\ UNCHANGED <<money, op, reversal, holder, world, faults>>

-----------------------------------------------------------------------------
(* handleTransferTerminal: the provider's terminal callbacks, any number of *)
(* times and in any order.                                                 *)

\* transfer.failed or transfer.reversed of a withdrawal: make it durable, drive it.
HookFailure(p, w) ==
    /\ <<w, "failed">> \in events
    /\ RecordReversal(w)
    /\ Begin(p, "reverse", w, "failed")
    /\ UNCHANGED <<money, op, lease, holder, world, faults>>

\* transfer.success of a withdrawal: the intent is looked up before the transaction.
HookSuccess(p, w) ==
    /\ <<w, "success">> \in events
    /\ Begin(p, "hook", w, IF op[w] = "NONE" THEN "unknown" ELSE "success")
    /\ UNCHANGED <<money, rows, world, faults>>

\* With the intent locked, if there was one: a reversal is driven instead of the
\* success, and a FAILED intent ignores it.
Hook(p) ==
    /\ At(p, "hook")
    /\ ev[p] = "success" => Unlocked(job[p])
    /\ IF KnownReversal(job[p])
       THEN Goto(p, "reverse") /\ UNCHANGED holder
       ELSE IF ev[p] = "success" /\ op[job[p]] = "FAILED"
       THEN Done(p) /\ UNCHANGED holder
       ELSE /\ holder' = IF ev[p] = "success" THEN [holder EXCEPT ![job[p]] = p] ELSE holder
            /\ Goto(p, "hookCommit")
    /\ UNCHANGED <<money, op, lease, reversal, world, faults>>

\* Settle the withdrawal and let the intent follow what it settled to.
HookCommit(p) ==
    /\ At(p, "hookCommit")
    /\ Complete(job[p])
    /\ IF ev[p] = "success"
       THEN /\ op' = [op EXCEPT ![job[p]] = IF wd'[job[p]] = "FAILED" THEN "FAILED" ELSE "RECORDED"]
            /\ holder' = [holder EXCEPT ![job[p]] = None]
       ELSE UNCHANGED <<op, holder>>
    /\ Done(p)
    /\ UNCHANGED <<lease, reversal, world, faults>>

\* Mutant: a success callback does not look at the intent's status.
HookSweepAgain(t, outcome) ==
    /\ <<t, outcome>> \in events /\ Unlocked(t)
    /\ op[t] # "FAILED"
    /\ IF outcome = "success"
       THEN /\ SweepOut(t)
            /\ op' = [op EXCEPT ![t] = "RECORDED"]
       ELSE /\ swept' = IF op[t] = "RECORDED" THEN [swept EXCEPT ![t] = @ - 1] ELSE swept
            /\ UNCHANGED <<balance, earned, reversals, wd>>
            /\ op' = [op EXCEPT ![t] = "FAILED"]
    /\ UNCHANGED <<lease, reversal, holder, world, procs, faults>>

\* A commission sweep settles, or returns, in the callback's one transaction.
HookSweep(t, outcome) ==
    /\ <<t, outcome>> \in events /\ Unlocked(t)
    /\ op[t] # "FAILED"
    /\ IF outcome = "success"
       THEN /\ op[t] # "RECORDED"
            /\ SweepOut(t)
            /\ op' = [op EXCEPT ![t] = "RECORDED"]
       ELSE /\ swept' = IF op[t] = "RECORDED" THEN [swept EXCEPT ![t] = @ - 1] ELSE swept
            /\ UNCHANGED <<balance, earned, reversals, wd>>
            /\ op' = [op EXCEPT ![t] = "FAILED"]
    /\ UNCHANGED <<lease, reversal, holder, world, procs, faults>>

-----------------------------------------------------------------------------
(* reconcileStuckWithdrawals of a RECORDED intent.                         *)

\* A known reversal is driven, or left to its own turn by the scheduled sweep.
Stuck(p, from, to) ==
    /\ At(p, from)
    /\ IF KnownReversal(job[p]) THEN Goto(p, "reverse") \/ Done(p) ELSE Goto(p, to)
    /\ UNCHANGED <<money, rows, world, faults>>

StuckVerify(p) ==
    /\ At(p, "stuckVerify")
    /\ GotoWith(p, "stuckVerified", bank[job[p]])
    /\ UNCHANGED <<money, rows, world, faults>>

StuckSettle(p) ==
    /\ At(p, "stuckSettle")
    /\ \/ /\ ev[p] = "success" /\ Complete(job[p]) /\ Done(p)
          /\ UNCHANGED reversal
       \/ /\ ev[p] = "failed" /\ RecordReversal(job[p]) /\ Goto(p, "reverse")
          /\ UNCHANGED money
       \/ /\ ev[p] \notin Final /\ Done(p)
          /\ UNCHANGED <<money, reversal>>
    /\ UNCHANGED <<op, lease, holder, world, faults>>

-----------------------------------------------------------------------------
(* Faults, the clock and the provider.                                     *)

\* The rollback of a transaction gives up the intent's row lock.
Unlock(p) == holder' = [t \in Transfers |-> IF holder[t] = p THEN None ELSE holder[t]]

\* The process dies: its open transaction rolls back, its lease stays.
Crash(p) ==
    /\ pc[p] # "idle" /\ Fault
    /\ Unlock(p) /\ Done(p)
    /\ UNCHANGED <<money, op, lease, reversal, world>>

\* A database or provider exception: roll back, then the finally block.
Exception(p) ==
    /\ pc[p] \notin {"idle", "release"} /\ Fault
    /\ Unlock(p) /\ Goto(p, "release")
    /\ UNCHANGED <<money, op, lease, reversal, world>>

\* Five minutes pass: the lease of an owner that is gone, or only slow, expires.
Expire(t) ==
    /\ lease[t].live
    /\ \/ /\ ~ \E p \in Procs : mine[p] /\ job[p] = t
          /\ UNCHANGED faults
       \/ /\ \E p \in Procs : mine[p] /\ job[p] = t
          /\ Fault
    /\ lease' = [lease EXCEPT ![t].live = FALSE]
    /\ UNCHANGED <<money, op, reversal, holder, world, procs>>

\* A transfer request that timed out reaches the provider after all.
LatePost(t) ==
    /\ t \in delayed /\ delayed' = delayed \ {t}
    /\ \E outcome \in {"pending"} \cup Final : BankAccept(t, outcome)
    /\ UNCHANGED <<money, rows, procs, faults>>

\* The bank settles a pending transfer, or returns one that succeeded.
BankSettles(t, outcome) ==
    /\ \/ bank[t] = "pending"
       \/ bank[t] = "success" /\ outcome = "failed"
    /\ bank' = [bank EXCEPT ![t] = outcome]
    /\ events' = events \cup {<<t, outcome>>}
    /\ UNCHANGED <<money, rows, delayed, procs, faults>>

-----------------------------------------------------------------------------
ProcStep(p) ==
    \/ Known(p) \/ ClaimBusy(p) \/ Claim(p) \/ RunOperation(p)
    \/ SendKnown(p, "sendKnown", "sendOwns") \/ SendOwns(p, "sendOwns", "verify")
    \/ Verify(p) \/ Verified(p)
    \/ SendKnown(p, "reknown", "reowns") \/ SendOwns(p, "reowns", "post")
    \/ Post(p) \/ Posted(p) \/ Persist(p) \/ Checkpoint(p)
    \/ Finalize(p) \/ FinalizeCommit(p) \/ Reverse(p) \/ Release(p)
    \/ Hook(p) \/ HookCommit(p)
    \/ Stuck(p, "stuck", "stuckVerify") \/ StuckVerify(p)
    \/ Stuck(p, "stuckVerified", "stuckSettle") \/ StuckSettle(p)

Start(p) ==
    \/ \E w \in Withdrawals : \/ Request(p, w) \/ ResumeReversal(p, w) \/ ReconcileStuck(p, w)
                              \/ HookFailure(p, w) \/ HookSuccess(p, w)
    \/ \E t \in Sweeps : StartSweep(p, t)
    \/ \E t \in Transfers : Resume(p, t)

Environment ==
    \/ Credit
    \/ \E p \in Procs : Crash(p) \/ Exception(p) \/ PostLost(p)
    \/ \E t \in Transfers : Expire(t) \/ LatePost(t)
    \/ \E t \in Transfers, outcome \in Final : BankSettles(t, outcome)
    \/ \E t \in Sweeps, outcome \in Final : HookSweep(t, outcome)

Next == (\E p \in Procs : Start(p) \/ ProcStep(p)) \/ Environment

Spec == Init /\ [][Next]_vars

-----------------------------------------------------------------------------
(* Fairness.  Postgres serves the waiters of a row lock in turn, and the   *)
(* recovery job offers every open intent again and again (until it is      *)
(* quarantined, and then once an administrator resumes it).                *)

Recovery(t) == op[t] \in {"PENDING", "PROVIDER_OK"} /\ \E p \in Procs : Resume(p, t)

LeaseLapses(t) == Expire(t) /\ UNCHANGED faults

FairSpec ==
    /\ Spec
    /\ \A p \in Procs : SF_vars(ProcStep(p))
    /\ \A t \in Transfers : SF_vars(Recovery(t)) /\ WF_vars(LeaseLapses(t))
    /\ \A w \in Withdrawals : SF_vars(\E p \in Procs : ResumeReversal(p, w))
    /\ \A t \in Transfers :
          WF_vars(bank[t] = "pending" /\ \E outcome \in Final : BankSettles(t, outcome))

\* The provider also redelivers a failure until it is acknowledged.
FailuresRedelivered == \A w \in Withdrawals : SF_vars(\E p \in Procs : HookFailure(p, w))

-----------------------------------------------------------------------------
(* Properties.                                                             *)

MoneyType ==
    /\ balance \in 0..MaxBalance
    /\ earned \in Nat
    /\ reversals \in [Withdrawals -> Nat]
    /\ wd \in [Withdrawals -> WithdrawalStatus]
    /\ swept \in [Sweeps -> Int]

RowsType ==
    /\ op \in [Transfers -> OpStatus]
    /\ lease \in [Transfers -> [owner : Procs \cup {None}, live : BOOLEAN]]
    /\ reversal \in [Withdrawals -> {"NONE", "PROVIDER_OK", "RECORDED"}]
    /\ holder \in [Transfers -> Procs \cup {None}]

WorldType ==
    /\ bank \in [Transfers -> BankStatus]
    /\ delayed \in SUBSET Transfers
    /\ events \in SUBSET (Transfers \X Final)

ProcsType ==
    /\ pc \in [Procs -> Labels]
    /\ job \in [Procs -> Transfers \cup {None}]
    /\ mine \in [Procs -> BOOLEAN]
    /\ ev \in [Procs -> BankStatus]
    /\ faults \in Nat

\* Every variable keeps its type; in particular the wallet row never leaves
\* 0..MAX_INT32_KOBO (appendWallet).
TypeOK == MoneyType /\ RowsType /\ WorldType /\ ProcsType

\* The balance is what was earned less the withdrawals that are out: no order of
\* callbacks, retries and crashes creates or loses a kobo of the wallet.
Conservation ==
    balance = earned - Total({w \in Withdrawals : wd[w] \in {"PROCESSING", "PAID"}})

\* A withdrawal is credited back exactly when it is FAILED, and once (failWithdrawal).
OneReversal == \A w \in Withdrawals : reversals[w] = IF wd[w] = "FAILED" THEN 1 ELSE 0

\* The wallet is credited back only for a transfer the bank failed or returned: no
\* lost answer, timeout or crash pays an usher twice.
CreditedOnlyIfFailed ==
    \A w \in Withdrawals : wd[w] = "FAILED" => bank[w] = "failed"

\* A withdrawal is PAID only if the bank reported success.
PaidOnlyIfSucceeded ==
    \A w \in Withdrawals : wd[w] = "PAID" => <<w, "success">> \in events

\* The intent never disagrees with the withdrawal it settled: they share a commit.
IntentAgrees ==
    \A w \in Withdrawals :
        /\ op[w] = "RECORDED" /\ w \notin Legacy => wd[w] = "PAID"
        /\ op[w] = "FAILED" => wd[w] = "FAILED"
        /\ reversal[w] = "RECORDED" => wd[w] = "FAILED"

\* A sweep is in the escrow ledger once while its intent is RECORDED, else not at
\* all, whichever of the worker and the callbacks settles it.
SweepOnce ==
    \A t \in Sweeps : /\ swept[t] = IF op[t] = "RECORDED" THEN 1 ELSE 0
                      /\ op[t] = "RECORDED" => <<t, "success">> \in events

\* While no process crashes or outlasts its lease, one process at most is about to
\* send a transfer (claimTransferDispatch: "committed exclusion across processes").
\* An owner that stalls past its lease is let through to the POST by the code: then
\* the provider's reference is what prevents the second transfer.
OneDispatcher ==
    faults = 0 => \A p, q \in Procs : pc[p] = "post" /\ pc[q] = "post" /\ job[p] = job[q] => p = q

\* A withdrawal that left the wallet settles in the end, callbacks or not: the
\* lease, the crashes and the lost answers never strand it in PROCESSING.
EventuallySettled ==
    \A w \in Withdrawals : wd[w] = "PROCESSING" ~> wd[w] \in {"PAID", "FAILED"}

\* A transfer that the bank fails or returns is credited back in the end, even
\* after the withdrawal was PAID, if the failure is redelivered.
EventuallyReturned ==
    FailuresRedelivered => \A w \in Withdrawals : bank[w] = "failed" ~> wd[w] = "FAILED"

-----------------------------------------------------------------------------
(* The inductive invariant behind the safety properties.                   *)

\* Labels reached only while a withdrawal is driven.
WithdrawalLabels == {"persist", "finalizeCommit", "reverse", "hook", "hookCommit",
                     "stuck", "stuckVerify", "stuckVerified", "stuckSettle"}

\* A running process drives a transfer, and a failure it acts on is durable.
ProcsOK ==
    \A p \in Procs :
        /\ pc[p] # "idle" => job[p] \in Transfers
        /\ pc[p] \in WithdrawalLabels => job[p] \in Withdrawals
        /\ pc[p] = "reverse" => reversal[job[p]] # "NONE"
        /\ pc[p] = "checkpoint" /\ ev[p] = "failed" /\ job[p] \in Withdrawals
              => reversal[job[p]] # "NONE"

\* Evidence, whoever holds it, is what the bank has reported.
EvidenceOK ==
    /\ \A p \in Procs : /\ ev[p] \in Final => <<job[p], ev[p]>> \in events
                        /\ pc[p] \in {"hook", "hookCommit"} => <<job[p], "success">> \in events
                        /\ pc[p] = "persist" => ev[p] = "failed"
    /\ \A w \in Withdrawals : reversal[w] # "NONE" => <<w, "failed">> \in events
    /\ \A t \in Transfers : /\ <<t, "failed">> \in events <=> bank[t] = "failed"
                            /\ bank[t] = "success" => <<t, "success">> \in events
                            /\ <<t, "success">> \in events => bank[t] \in Final
                            /\ op[t] = "PROVIDER_OK" => <<t, "success">> \in events

\* A transaction between its read and its commit holds the row it read.
LocksOK ==
    \A p \in Procs :
        /\ pc[p] = "finalizeCommit" => holder[job[p]] = p /\ op[job[p]] = "PROVIDER_OK"
        /\ pc[p] = "hook" /\ ev[p] = "success" => op[job[p]] # "NONE"
        /\ pc[p] = "hookCommit" /\ ev[p] = "success"
              => holder[job[p]] = p /\ op[job[p]] \notin {"NONE", "FAILED"}

\* A withdrawal that was never requested has left no trace.
UntouchedOK ==
    \A w \in Withdrawals : wd[w] = "NONE" =>
        /\ op[w] = "NONE" /\ reversal[w] = "NONE"
        /\ bank[w] = "unknown" /\ w \notin delayed
        /\ \A p \in Procs : job[p] # w

\* Only the reversal intent fails a withdrawal, and it fails the dispatch with it.
ReversalOK ==
    \A w \in Withdrawals : /\ wd[w] = "FAILED" <=> reversal[w] = "RECORDED"
                           /\ reversal[w] = "RECORDED" => op[w] \in {"NONE", "FAILED"}

\* The conjunction is preserved by every step.
Inductive ==
    /\ TypeOK /\ ProcsOK /\ EvidenceOK /\ LocksOK /\ UntouchedOK /\ ReversalOK
    /\ OneReversal /\ PaidOnlyIfSucceeded /\ IntentAgrees /\ SweepOnce

\* Short of faults, a lease that a process claimed is its own until it gives it back;
\* only its owner may send, and an idle process has none.
LeaseOK ==
    \A p \in Procs :
        /\ pc[p] = "post" => mine[p]
        /\ mine[p] => pc[p] # "idle"
        /\ mine[p] /\ faults = 0 => lease[job[p]].owner = p /\ lease[job[p]].live

-----------------------------------------------------------------------------
(* Refinement.                                                             *)

\* What the bank has told of each withdrawal.
Told == [w \in Withdrawals |-> {outcome \in Final : <<w, outcome>> \in events}]

Promise == INSTANCE Withdrawal WITH told <- Told

\* The dispatch protocol keeps the promise of a withdrawal, stated without
\* intents, leases, callbacks or recovery.
ImplementsWithdrawal == Promise!Spec

=============================================================================
