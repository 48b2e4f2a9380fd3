------------------------ MODULE TransferDispatchProofs ------------------------
(***************************************************************************)
(* Proofs about TransferDispatch: its inductive invariant, for any number  *)
(* of withdrawals, sweeps, processes and faults.  One lemma per action,    *)
(* one step per part of the invariant that the action can disturb.         *)
(***************************************************************************)
EXTENDS TransferDispatch, SumProofs, TLAPS

USE TransferAssumption DEF Transfers, Final, At, Unlocked, KnownReversal, money, rows, world, procs

-----------------------------------------------------------------------------
(* Lemmas about the operators the actions are built from.                  *)

\* A jump to a label keeps the types of the process variables.
LEMMA GotoType ==
  ASSUME ProcsType, NEW p \in Procs, NEW label \in Labels, Goto(p, label), faults' = faults
  PROVE  ProcsType'
  BY DEF ProcsType, Goto

\* ... with evidence,
LEMMA GotoWithType ==
  ASSUME ProcsType, NEW p \in Procs, NEW label \in Labels, NEW e \in BankStatus,
         GotoWith(p, label, e), faults' = faults
  PROVE  ProcsType'
  BY DEF ProcsType, GotoWith

\* ... and the end of a run.
LEMMA DoneType ==
  ASSUME ProcsType, NEW p \in Procs, Done(p), faults' = faults
  PROVE  ProcsType'
  BY DEF ProcsType, Done, Labels, BankStatus

\* A failed withdrawal that fits the wallet row leaves the money well typed.
LEMMA FailType ==
  ASSUME MoneyType, NEW w \in Withdrawals, Fail(w), FailFits(w)
  PROVE  MoneyType'
<1>1. CASE wd[w] = "FAILED"
  BY <1>1 DEF MoneyType, Fail
<1>2. CASE wd[w] # "FAILED"
  <2>1. balance' = balance + Amount[w] /\ balance + Amount[w] <= MaxBalance
    BY <1>2 DEF Fail, FailFits
  <2>2. balance' \in 0..MaxBalance
    BY <2>1 DEF MoneyType
  <2>3. /\ reversals' \in [Withdrawals -> Nat] /\ wd' \in [Withdrawals -> WithdrawalStatus]
        /\ earned' \in Nat /\ swept' \in [Sweeps -> Int]
    BY <1>2 DEF MoneyType, Fail, WithdrawalStatus
  <2> QED BY <2>2, <2>3 DEF MoneyType
<1> QED BY <1>1, <1>2

\* The provider's events keep telling what the bank holds.
LEMMA BankAcceptEvidence ==
  ASSUME WorldType, EvidenceOK, NEW t \in Transfers, NEW outcome, BankAccept(t, outcome)
  PROVE  /\ bank' \in [Transfers -> BankStatus] /\ events' \in SUBSET (Transfers \X Final)
         /\ events \subseteq events'
         /\ \A u \in Transfers : /\ <<u, "failed">> \in events' <=> bank'[u] = "failed"
                                 /\ bank'[u] = "success" => <<u, "success">> \in events'
                                 /\ <<u, "success">> \in events' => bank'[u] \in Final
  BY DEF WorldType, BankStatus, EvidenceOK, BankAccept

-----------------------------------------------------------------------------
(* Every action preserves the invariant.                                   *)

\* requestWithdrawal keeps the invariant.
LEMMA RequestStep ==
  ASSUME Inductive, NEW p \in Procs, NEW w \in Withdrawals, Request(p, w)
  PROVE  Inductive'
<1>1. WorldType'
BY DEF Request, Begin, Inductive, TypeOK, WorldType
<1>2. MoneyType'
  <2>1. balance' \in 0..MaxBalance
    BY DEF Request, Inductive, TypeOK, MoneyType
  <2> QED BY <2>1 DEF Request, Inductive, TypeOK, MoneyType, WithdrawalStatus
<1>3. RowsType'
BY DEF Request, Begin, Inductive, TypeOK, RowsType, ProcsType, OpStatus, NoLease
<1>4. ProcsType'
BY DEF Request, Begin, Inductive, TypeOK, ProcsType, RowsType, WorldType, ProcsOK, Labels,
     BankStatus
<1>5. ProcsOK'
BY DEF Request, Begin, Inductive, TypeOK, ProcsType, RowsType, ProcsOK, WithdrawalLabels
<1>6. EvidenceOK'
BY DEF Request, Begin, Inductive, TypeOK, ProcsType, RowsType, WorldType, ProcsOK,
     EvidenceOK, WithdrawalLabels, BankStatus
<1>7. LocksOK'
  BY DEF Request, Begin, Inductive, TypeOK, ProcsType, RowsType, ProcsOK, UntouchedOK, LocksOK
<1>8. UntouchedOK'
BY DEF Request, Begin, Inductive, TypeOK, MoneyType, RowsType, WorldType, ProcsType,
     ProcsOK, EvidenceOK, UntouchedOK, WithdrawalLabels
<1>9. ReversalOK'
BY DEF Request, Begin, Inductive, TypeOK, MoneyType, RowsType, ProcsType, ProcsOK, LocksOK,
     UntouchedOK, ReversalOK, WithdrawalLabels
<1>10. OneReversal'
BY DEF Request, Begin, Inductive, TypeOK, MoneyType, ProcsOK, ReversalOK, OneReversal,
     WithdrawalLabels
<1>11. PaidOnlyIfSucceeded'
BY DEF Request, Begin, Inductive, TypeOK, MoneyType, ProcsType, ProcsOK, EvidenceOK,
     PaidOnlyIfSucceeded, WithdrawalLabels
<1>12. IntentAgrees'
BY DEF Request, Begin, Inductive, TypeOK, MoneyType, RowsType, ProcsType, ProcsOK, LocksOK,
     UntouchedOK, ReversalOK, IntentAgrees, WithdrawalLabels
<1>13. SweepOnce'
BY DEF Request, Begin, Inductive, TypeOK, RowsType, MoneyType, ProcsOK, EvidenceOK,
     SweepOnce, WithdrawalLabels
<1> QED BY <1>1, <1>2, <1>3, <1>4, <1>5, <1>6, <1>7, <1>8, <1>9, <1>10, <1>11, <1>12, <1>13
     DEF Inductive, TypeOK

\* So does a new sweep,
LEMMA StartSweepStep ==
  ASSUME Inductive, NEW p \in Procs, NEW t \in Sweeps, StartSweep(p, t)
  PROVE  Inductive'
<1>1. MoneyType' /\ WorldType' /\ OneReversal' /\ PaidOnlyIfSucceeded'
BY DEF StartSweep, Begin, Inductive, TypeOK, MoneyType, WorldType, OneReversal,
     PaidOnlyIfSucceeded
<1>2. RowsType'
BY DEF StartSweep, Begin, Inductive, TypeOK, RowsType, ProcsType, OpStatus, NoLease
<1>3. ProcsType'
BY DEF StartSweep, Begin, Inductive, TypeOK, ProcsType, RowsType, WorldType, ProcsOK,
     Labels, BankStatus
<1>4. ProcsOK'
BY DEF StartSweep, Begin, Inductive, TypeOK, ProcsType, RowsType, ProcsOK, WithdrawalLabels
<1>5. EvidenceOK'
BY DEF StartSweep, Begin, Inductive, TypeOK, ProcsType, RowsType, WorldType, ProcsOK,
     EvidenceOK, WithdrawalLabels, BankStatus
<1>6. LocksOK'
BY DEF StartSweep, Begin, Inductive, TypeOK, ProcsType, RowsType, ProcsOK, LocksOK,
     WithdrawalLabels
<1>7. UntouchedOK'
BY DEF StartSweep, Begin, Inductive, TypeOK, MoneyType, RowsType, WorldType, ProcsType,
     ProcsOK, EvidenceOK, UntouchedOK, WithdrawalLabels
<1>8. ReversalOK'
BY DEF StartSweep, Begin, Inductive, TypeOK, MoneyType, RowsType, ProcsType, ProcsOK,
     LocksOK, UntouchedOK, ReversalOK, WithdrawalLabels
<1>9. IntentAgrees'
BY DEF StartSweep, Begin, Inductive, TypeOK, MoneyType, RowsType, ProcsType, ProcsOK,
     LocksOK, UntouchedOK, ReversalOK, IntentAgrees, WithdrawalLabels
<1>10. SweepOnce'
BY DEF StartSweep, Begin, Inductive, TypeOK, RowsType, MoneyType, ProcsOK, EvidenceOK,
     SweepOnce, WithdrawalLabels
<1> QED BY <1>1, <1>2, <1>3, <1>4, <1>5, <1>6, <1>7, <1>8, <1>9, <1>10 DEF Inductive, TypeOK

\* a replayed or recovered intent,
LEMMA ResumeStep ==
  ASSUME Inductive, NEW p \in Procs, NEW t \in Transfers, Resume(p, t)
  PROVE  Inductive'
<1>1. MoneyType' /\ RowsType' /\ WorldType' /\ ReversalOK' /\ OneReversal' /\
     PaidOnlyIfSucceeded' /\ IntentAgrees' /\ SweepOnce'
BY DEF Resume, Begin, Inductive, TypeOK, MoneyType, RowsType, WorldType, ReversalOK,
     OneReversal, PaidOnlyIfSucceeded, IntentAgrees, SweepOnce
<1>2. ProcsType'
BY DEF Resume, Begin, Inductive, TypeOK, ProcsType, RowsType, WorldType, ProcsOK, Labels,
     BankStatus
<1>3. ProcsOK'
BY DEF Resume, Begin, Inductive, TypeOK, ProcsType, RowsType, ProcsOK, WithdrawalLabels
<1>4. EvidenceOK'
BY DEF Resume, Begin, Inductive, TypeOK, ProcsType, RowsType, WorldType, ProcsOK,
     EvidenceOK, WithdrawalLabels, BankStatus
<1>5. LocksOK'
BY DEF Resume, Begin, Inductive, TypeOK, ProcsType, RowsType, ProcsOK, LocksOK,
     WithdrawalLabels
<1>6. UntouchedOK'
BY DEF Resume, Begin, Inductive, TypeOK, MoneyType, RowsType, WorldType, ProcsType, ProcsOK,
     EvidenceOK, UntouchedOK, WithdrawalLabels
<1> QED BY <1>1, <1>2, <1>3, <1>4, <1>5, <1>6 DEF Inductive, TypeOK

\* a recovered reversal,
LEMMA ResumeReversalStep ==
  ASSUME Inductive, NEW p \in Procs, NEW w \in Withdrawals, ResumeReversal(p, w)
  PROVE  Inductive'
<1>1. MoneyType' /\ RowsType' /\ WorldType' /\ ReversalOK' /\ OneReversal' /\
     PaidOnlyIfSucceeded' /\ IntentAgrees' /\ SweepOnce'
BY DEF ResumeReversal, Begin, Inductive, TypeOK, MoneyType, RowsType, WorldType, ReversalOK,
     OneReversal, PaidOnlyIfSucceeded, IntentAgrees, SweepOnce
<1>2. ProcsType'
BY DEF ResumeReversal, Begin, Inductive, TypeOK, ProcsType, RowsType, WorldType, ProcsOK,
     Labels, BankStatus
<1>3. ProcsOK'
BY DEF ResumeReversal, Begin, Inductive, TypeOK, ProcsType, RowsType, ProcsOK,
     WithdrawalLabels
<1>4. EvidenceOK'
BY DEF ResumeReversal, Begin, Inductive, TypeOK, ProcsType, RowsType, WorldType, ProcsOK,
     EvidenceOK, WithdrawalLabels, BankStatus
<1>5. LocksOK'
BY DEF ResumeReversal, Begin, Inductive, TypeOK, ProcsType, RowsType, ProcsOK, LocksOK,
     WithdrawalLabels
<1>6. UntouchedOK'
BY DEF ResumeReversal, Begin, Inductive, TypeOK, MoneyType, RowsType, WorldType, ProcsType,
     ProcsOK, EvidenceOK, UntouchedOK, WithdrawalLabels
<1> QED BY <1>1, <1>2, <1>3, <1>4, <1>5, <1>6 DEF Inductive, TypeOK

\* the repair of an older withdrawal,
LEMMA ReconcileStuckStep ==
  ASSUME Inductive, NEW p \in Procs, NEW w \in Withdrawals, ReconcileStuck(p, w)
  PROVE  Inductive'
<1>1. MoneyType' /\ WorldType' /\ OneReversal' /\ PaidOnlyIfSucceeded'
BY DEF ReconcileStuck, Begin, Inductive, TypeOK, MoneyType, WorldType, OneReversal,
     PaidOnlyIfSucceeded
<1>2. RowsType'
BY DEF ReconcileStuck, Begin, Inductive, TypeOK, RowsType, ProcsType, OpStatus, NoLease
<1>3. ProcsType'
BY DEF ReconcileStuck, Begin, Inductive, TypeOK, ProcsType, RowsType, WorldType, ProcsOK,
     Labels, BankStatus
<1>4. ProcsOK'
BY DEF ReconcileStuck, Begin, Inductive, TypeOK, ProcsType, RowsType, ProcsOK,
     WithdrawalLabels
<1>5. EvidenceOK'
BY DEF ReconcileStuck, Begin, Inductive, TypeOK, ProcsType, RowsType, WorldType, ProcsOK,
     EvidenceOK, WithdrawalLabels, BankStatus
<1>6. LocksOK'
BY DEF ReconcileStuck, Begin, Inductive, TypeOK, ProcsType, RowsType, ProcsOK, LocksOK,
     WithdrawalLabels
<1>7. UntouchedOK'
BY DEF ReconcileStuck, Begin, Inductive, TypeOK, MoneyType, RowsType, WorldType, ProcsType,
     ProcsOK, EvidenceOK, UntouchedOK, WithdrawalLabels
<1>8. ReversalOK'
BY DEF ReconcileStuck, Begin, Inductive, TypeOK, MoneyType, RowsType, ProcsType, ProcsOK,
     LocksOK, UntouchedOK, ReversalOK, WithdrawalLabels
<1>9. IntentAgrees'
BY DEF ReconcileStuck, Begin, Inductive, TypeOK, MoneyType, RowsType, ProcsType, ProcsOK,
     LocksOK, UntouchedOK, ReversalOK, IntentAgrees, WithdrawalLabels
<1>10. SweepOnce'
BY DEF ReconcileStuck, Begin, Inductive, TypeOK, RowsType, MoneyType, ProcsOK, EvidenceOK,
     SweepOnce, WithdrawalLabels
<1> QED BY <1>1, <1>2, <1>3, <1>4, <1>5, <1>6, <1>7, <1>8, <1>9, <1>10 DEF Inductive, TypeOK

\* an earning,
LEMMA CreditStep ==
  ASSUME Inductive, Credit
  PROVE  Inductive'
<1>1. RowsType' /\ WorldType' /\ ProcsType' /\ ProcsOK' /\ EvidenceOK' /\ LocksOK' /\
     UntouchedOK' /\ ReversalOK' /\ OneReversal' /\ PaidOnlyIfSucceeded' /\ IntentAgrees' /\
     SweepOnce'
BY DEF Credit, Inductive, TypeOK, RowsType, WorldType, ProcsType, ProcsOK, EvidenceOK,
     LocksOK, UntouchedOK, ReversalOK, OneReversal, PaidOnlyIfSucceeded, IntentAgrees,
     SweepOnce
<1>2. MoneyType'
BY DEF Credit, Inductive, TypeOK, MoneyType, WithdrawalStatus
<1> QED BY <1>1, <1>2 DEF Inductive, TypeOK

\* the first look for a reversal,
LEMMA KnownStep ==
  ASSUME Inductive, NEW p \in Procs, Known(p)
  PROVE  Inductive'
<1>1. MoneyType' /\ RowsType' /\ WorldType' /\ UntouchedOK' /\ ReversalOK' /\ OneReversal'
     /\ PaidOnlyIfSucceeded' /\ IntentAgrees' /\ SweepOnce'
BY DEF Known, Goto, Inductive, TypeOK, MoneyType, RowsType, WorldType, UntouchedOK,
     ReversalOK, OneReversal, PaidOnlyIfSucceeded, IntentAgrees, SweepOnce
<1>2. ProcsType'
BY DEF Known, Goto, Inductive, TypeOK, ProcsType, RowsType, WorldType, ProcsOK, Labels,
     BankStatus
<1>3. ProcsOK'
BY DEF Known, Goto, Inductive, TypeOK, ProcsType, RowsType, ProcsOK, WithdrawalLabels
<1>4. EvidenceOK'
BY DEF Known, Goto, Inductive, TypeOK, ProcsType, RowsType, WorldType, ProcsOK, EvidenceOK,
     WithdrawalLabels, BankStatus
<1>5. LocksOK'
BY DEF Known, Goto, Inductive, TypeOK, ProcsType, RowsType, ProcsOK, LocksOK,
     WithdrawalLabels
<1> QED BY <1>1, <1>2, <1>3, <1>4, <1>5 DEF Inductive, TypeOK

\* a claim that finds the lease taken,
LEMMA ClaimBusyStep ==
  ASSUME Inductive, NEW p \in Procs, ClaimBusy(p)
  PROVE  Inductive'
<1>1. MoneyType' /\ RowsType' /\ WorldType' /\ ReversalOK' /\ OneReversal' /\
     PaidOnlyIfSucceeded' /\ IntentAgrees' /\ SweepOnce'
BY DEF ClaimBusy, Done, Inductive, TypeOK, MoneyType, RowsType, WorldType, ReversalOK,
     OneReversal, PaidOnlyIfSucceeded, IntentAgrees, SweepOnce
<1>2. ProcsType'
BY DEF ClaimBusy, Done, Inductive, TypeOK, ProcsType, RowsType, WorldType, ProcsOK, Labels,
     BankStatus
<1>3. ProcsOK'
BY DEF ClaimBusy, Done, Inductive, TypeOK, ProcsType, RowsType, ProcsOK, WithdrawalLabels
<1>4. EvidenceOK'
BY DEF ClaimBusy, Done, Inductive, TypeOK, ProcsType, RowsType, WorldType, ProcsOK,
     EvidenceOK, WithdrawalLabels, BankStatus
<1>5. LocksOK'
BY DEF ClaimBusy, Done, Inductive, TypeOK, ProcsType, RowsType, ProcsOK, LocksOK,
     WithdrawalLabels
<1>6. UntouchedOK'
BY DEF ClaimBusy, Done, Inductive, TypeOK, MoneyType, RowsType, WorldType, ProcsType,
     ProcsOK, EvidenceOK, UntouchedOK, WithdrawalLabels
<1> QED BY <1>1, <1>2, <1>3, <1>4, <1>5, <1>6 DEF Inductive, TypeOK

\* a claim,
LEMMA ClaimStep ==
  ASSUME Inductive, NEW p \in Procs, Claim(p)
  PROVE  Inductive'
<1>1. MoneyType' /\ WorldType' /\ UntouchedOK' /\ ReversalOK' /\ OneReversal' /\
     PaidOnlyIfSucceeded' /\ IntentAgrees' /\ SweepOnce'
BY DEF Claim, Inductive, TypeOK, MoneyType, WorldType, UntouchedOK, ReversalOK, OneReversal,
     PaidOnlyIfSucceeded, IntentAgrees, SweepOnce
<1>2. RowsType'
  <2>1. [owner |-> p, live |-> TRUE] \in [owner : Procs \cup {None}, live : BOOLEAN]
    OBVIOUS
  <2>2. CASE UNCHANGED lease
    BY <2>2 DEF Claim, Inductive, TypeOK, RowsType
  <2>3. CASE lease' = [lease EXCEPT ![job[p]] = [owner |-> p, live |-> TRUE]]
    BY <2>1, <2>3 DEF Claim, Inductive, TypeOK, RowsType
  <2> QED BY <2>2, <2>3 DEF Claim
<1>3. ProcsType'
BY DEF Claim, Inductive, TypeOK, ProcsType, RowsType, WorldType, ProcsOK, Labels, BankStatus
<1>4. ProcsOK'
BY DEF Claim, Inductive, TypeOK, ProcsType, RowsType, ProcsOK, WithdrawalLabels
<1>5. EvidenceOK'
BY DEF Claim, Inductive, TypeOK, ProcsType, RowsType, WorldType, ProcsOK, EvidenceOK,
     WithdrawalLabels, BankStatus
<1>6. LocksOK'
BY DEF Claim, Inductive, TypeOK, ProcsType, RowsType, ProcsOK, LocksOK, WithdrawalLabels
<1> QED BY <1>1, <1>2, <1>3, <1>4, <1>5, <1>6 DEF Inductive, TypeOK

\* the first transaction of runOperation,
LEMMA RunOperationStep ==
  ASSUME Inductive, NEW p \in Procs, RunOperation(p)
  PROVE  Inductive'
<1>1. MoneyType' /\ RowsType' /\ WorldType' /\ UntouchedOK' /\ ReversalOK' /\ OneReversal'
     /\ PaidOnlyIfSucceeded' /\ IntentAgrees' /\ SweepOnce'
BY DEF RunOperation, Goto, Inductive, TypeOK, MoneyType, RowsType, WorldType, UntouchedOK,
     ReversalOK, OneReversal, PaidOnlyIfSucceeded, IntentAgrees, SweepOnce
<1>2. ProcsType'
BY DEF RunOperation, Goto, Inductive, TypeOK, ProcsType, RowsType, WorldType, ProcsOK,
     Labels, BankStatus
<1>3. ProcsOK'
BY DEF RunOperation, Goto, Inductive, TypeOK, ProcsType, RowsType, ProcsOK, WithdrawalLabels
<1>4. EvidenceOK'
BY DEF RunOperation, Goto, Inductive, TypeOK, ProcsType, RowsType, WorldType, ProcsOK,
     EvidenceOK, WithdrawalLabels, BankStatus
<1>5. LocksOK'
BY DEF RunOperation, Goto, Inductive, TypeOK, ProcsType, RowsType, ProcsOK, LocksOK,
     WithdrawalLabels
<1> QED BY <1>1, <1>2, <1>3, <1>4, <1>5 DEF Inductive, TypeOK

\* the later looks for a reversal,
LEMMA SendKnownStep ==
  ASSUME Inductive, NEW p \in Procs, NEW from \in Labels, NEW to \in Labels,
         <<from, to>> = <<"sendKnown", "sendOwns">> \/ <<from, to>> = <<"reknown", "reowns">>,
         SendKnown(p, from, to)
  PROVE  Inductive'
<1>1. MoneyType' /\ RowsType' /\ WorldType' /\ UntouchedOK' /\ ReversalOK' /\ OneReversal'
     /\ PaidOnlyIfSucceeded' /\ IntentAgrees' /\ SweepOnce'
BY DEF SendKnown, Goto, GotoWith, Inductive, TypeOK, MoneyType, RowsType, WorldType,
     UntouchedOK, ReversalOK, OneReversal, PaidOnlyIfSucceeded, IntentAgrees, SweepOnce
<1>2. ProcsType'
  BY GotoType, GotoWithType, DoneType DEF SendKnown, Inductive, TypeOK, Labels, BankStatus
<1>3. ProcsOK'
BY DEF SendKnown, Goto, GotoWith, Inductive, TypeOK, ProcsType, RowsType, ProcsOK,
     WithdrawalLabels
<1>4. EvidenceOK'
BY DEF SendKnown, Goto, GotoWith, Inductive, TypeOK, ProcsType, RowsType, WorldType,
     ProcsOK, EvidenceOK, WithdrawalLabels, BankStatus
<1>5. LocksOK'
BY DEF SendKnown, Goto, GotoWith, Inductive, TypeOK, ProcsType, RowsType, ProcsOK, LocksOK,
     WithdrawalLabels
<1> QED BY <1>1, <1>2, <1>3, <1>4, <1>5 DEF Inductive, TypeOK

\* the looks at the lease,
LEMMA SendOwnsStep ==
  ASSUME Inductive, NEW p \in Procs, NEW from \in Labels, NEW to \in Labels,
         <<from, to>> = <<"sendOwns", "verify">> \/ <<from, to>> = <<"reowns", "post">>,
         SendOwns(p, from, to)
  PROVE  Inductive'
<1>1. MoneyType' /\ RowsType' /\ WorldType' /\ UntouchedOK' /\ ReversalOK' /\ OneReversal'
     /\ PaidOnlyIfSucceeded' /\ IntentAgrees' /\ SweepOnce'
BY DEF SendOwns, Goto, GotoWith, Inductive, TypeOK, MoneyType, RowsType, WorldType,
     UntouchedOK, ReversalOK, OneReversal, PaidOnlyIfSucceeded, IntentAgrees, SweepOnce
<1>2. ProcsType'
  BY GotoType, GotoWithType, DoneType DEF SendOwns, Inductive, TypeOK, Labels, BankStatus
<1>3. ProcsOK'
BY DEF SendOwns, Goto, GotoWith, Owns, Inductive, TypeOK, ProcsType, RowsType, ProcsOK,
     WithdrawalLabels
<1>4. EvidenceOK'
BY DEF SendOwns, Goto, GotoWith, Owns, Inductive, TypeOK, ProcsType, RowsType, WorldType,
     ProcsOK, EvidenceOK, WithdrawalLabels, BankStatus
<1>5. LocksOK'
BY DEF SendOwns, Goto, GotoWith, Owns, Inductive, TypeOK, ProcsType, RowsType, ProcsOK,
     LocksOK, WithdrawalLabels
<1> QED BY <1>1, <1>2, <1>3, <1>4, <1>5 DEF Inductive, TypeOK

\* the verification,
LEMMA VerifyStep ==
  ASSUME Inductive, NEW p \in Procs, Verify(p)
  PROVE  Inductive'
<1>1. MoneyType' /\ RowsType' /\ WorldType' /\ UntouchedOK' /\ ReversalOK' /\ OneReversal'
     /\ PaidOnlyIfSucceeded' /\ IntentAgrees' /\ SweepOnce'
BY DEF Verify, GotoWith, Inductive, TypeOK, MoneyType, RowsType, WorldType, UntouchedOK,
     ReversalOK, OneReversal, PaidOnlyIfSucceeded, IntentAgrees, SweepOnce
<1>2. ProcsType'
BY DEF Verify, GotoWith, Inductive, TypeOK, ProcsType, RowsType, WorldType, ProcsOK, Labels,
     BankStatus
<1>3. ProcsOK'
BY DEF Verify, GotoWith, Inductive, TypeOK, ProcsType, RowsType, ProcsOK, WithdrawalLabels
<1>4. EvidenceOK'
BY DEF Verify, GotoWith, Inductive, TypeOK, ProcsType, RowsType, WorldType, ProcsOK,
     EvidenceOK, WithdrawalLabels, BankStatus
<1>5. LocksOK'
BY DEF Verify, GotoWith, Inductive, TypeOK, ProcsType, RowsType, ProcsOK, LocksOK,
     WithdrawalLabels
<1> QED BY <1>1, <1>2, <1>3, <1>4, <1>5 DEF Inductive, TypeOK

\* its outcome,
LEMMA VerifiedStep ==
  ASSUME Inductive, NEW p \in Procs, Verified(p)
  PROVE  Inductive'
<1>1. MoneyType' /\ RowsType' /\ WorldType' /\ UntouchedOK' /\ ReversalOK' /\ OneReversal'
     /\ PaidOnlyIfSucceeded' /\ IntentAgrees' /\ SweepOnce'
BY DEF Verified, Goto, GotoWith, Inductive, TypeOK, MoneyType, RowsType, WorldType,
     UntouchedOK, ReversalOK, OneReversal, PaidOnlyIfSucceeded, IntentAgrees, SweepOnce
<1>2. ProcsType'
  BY GotoType, GotoWithType, DoneType DEF Verified, Inductive, TypeOK, Labels, BankStatus
<1>3. ProcsOK'
BY DEF Verified, Goto, GotoWith, Inductive, TypeOK, ProcsType, RowsType, ProcsOK,
     WithdrawalLabels
<1>4. EvidenceOK'
BY DEF Verified, Goto, GotoWith, Inductive, TypeOK, ProcsType, RowsType, WorldType, ProcsOK,
     EvidenceOK, WithdrawalLabels, BankStatus
<1>5. LocksOK'
BY DEF Verified, Goto, GotoWith, Inductive, TypeOK, ProcsType, RowsType, ProcsOK, LocksOK,
     WithdrawalLabels
<1> QED BY <1>1, <1>2, <1>3, <1>4, <1>5 DEF Inductive, TypeOK

\* the POST,
LEMMA PostStep ==
  ASSUME Inductive, NEW p \in Procs, Post(p)
  PROVE  Inductive'
<1>1. MoneyType' /\ RowsType' /\ ReversalOK' /\ OneReversal' /\ IntentAgrees'
BY DEF Post, GotoWith, BankAccept, Inductive, TypeOK, MoneyType, RowsType, ReversalOK,
     OneReversal, IntentAgrees
<1>2. WorldType'
  <2>1. PICK outcome \in {"pending"} \cup Final : BankAccept(job[p], outcome)
    BY DEF Post
  <2>2. job[p] \in Transfers
    BY DEF Post, Inductive, ProcsOK
  <2> QED BY <2>1, <2>2, BankAcceptEvidence DEF Post, Inductive, TypeOK, WorldType
<1>3. ProcsType'
  <2>1. bank' \in [Transfers -> BankStatus] /\ job[p] \in Transfers
    BY <1>2 DEF Post, Inductive, ProcsOK, WorldType
  <2> QED BY <2>1, GotoWithType DEF Post, Inductive, TypeOK, Labels
<1>4. ProcsOK'
BY DEF Post, GotoWith, BankAccept, Inductive, TypeOK, ProcsType, RowsType, ProcsOK,
     WithdrawalLabels
<1>5. EvidenceOK'
  <2>1. PICK outcome \in {"pending"} \cup Final :
            BankAccept(job[p], outcome) /\ GotoWith(p, "posted", bank'[job[p]])
    BY DEF Post
  <2>2. job[p] \in Transfers
    BY DEF Post, Inductive, ProcsOK
  <2>3. /\ events \subseteq events'
        /\ \A u \in Transfers : /\ <<u, "failed">> \in events' <=> bank'[u] = "failed"
                                /\ bank'[u] = "success" => <<u, "success">> \in events'
                                /\ <<u, "success">> \in events' => bank'[u] \in Final
    BY <2>1, <2>2, BankAcceptEvidence DEF Inductive, TypeOK
  <2>4. \A q \in Procs : ev'[q] \in Final => <<job'[q], ev'[q]>> \in events'
    BY <2>1, <2>2, <2>3 DEF GotoWith, Inductive, TypeOK, ProcsType, EvidenceOK
  <2> QED BY <2>1, <2>3, <2>4 DEF Post, GotoWith, Inductive, TypeOK, ProcsType, EvidenceOK
<1>6. LocksOK'
BY DEF Post, GotoWith, BankAccept, Inductive, TypeOK, ProcsType, RowsType, ProcsOK, LocksOK,
     WithdrawalLabels
<1>7. UntouchedOK'
BY DEF Post, GotoWith, BankAccept, Inductive, TypeOK, MoneyType, RowsType, WorldType,
     ProcsType, ProcsOK, EvidenceOK, UntouchedOK, WithdrawalLabels
<1>8. PaidOnlyIfSucceeded'
BY DEF Post, GotoWith, BankAccept, Inductive, TypeOK, MoneyType, ProcsType, ProcsOK,
     EvidenceOK, PaidOnlyIfSucceeded, WithdrawalLabels
<1>9. SweepOnce'
BY DEF Post, GotoWith, BankAccept, Inductive, TypeOK, RowsType, MoneyType, ProcsOK,
     EvidenceOK, SweepOnce, WithdrawalLabels
<1> QED BY <1>1, <1>2, <1>3, <1>4, <1>5, <1>6, <1>7, <1>8, <1>9 DEF Inductive, TypeOK

\* a POST that is lost,
LEMMA PostLostStep ==
  ASSUME Inductive, NEW p \in Procs, PostLost(p)
  PROVE  Inductive'
<1>1. MoneyType' /\ RowsType' /\ ReversalOK' /\ OneReversal' /\ IntentAgrees'
BY DEF PostLost, GotoWith, BankAccept, Fault, Inductive, TypeOK, MoneyType, RowsType,
     ReversalOK, OneReversal, IntentAgrees
<1>2. WorldType'
  <2>1. job[p] \in Transfers
    BY DEF PostLost, Inductive, ProcsOK
  <2>2. CASE UNCHANGED <<bank, events>>
    BY <2>1, <2>2 DEF PostLost, Inductive, TypeOK, WorldType
  <2>3. CASE \E outcome \in {"pending"} \cup Final : BankAccept(job[p], outcome)
    BY <2>1, <2>3, BankAcceptEvidence DEF PostLost, Inductive, TypeOK, WorldType
  <2> QED BY <2>2, <2>3 DEF PostLost
<1>3. ProcsType'
BY DEF PostLost, GotoWith, BankAccept, Fault, Inductive, TypeOK, ProcsType, RowsType,
     WorldType, ProcsOK, Labels, BankStatus
<1>4. ProcsOK'
BY DEF PostLost, GotoWith, BankAccept, Fault, Inductive, TypeOK, ProcsType, RowsType,
     ProcsOK, WithdrawalLabels
<1>5. EvidenceOK'
BY DEF PostLost, GotoWith, BankAccept, Fault, Inductive, TypeOK, ProcsType, RowsType,
     WorldType, ProcsOK, EvidenceOK, WithdrawalLabels, BankStatus
<1>6. LocksOK'
BY DEF PostLost, GotoWith, BankAccept, Fault, Inductive, TypeOK, ProcsType, RowsType,
     ProcsOK, LocksOK, WithdrawalLabels
<1>7. UntouchedOK'
BY DEF PostLost, GotoWith, BankAccept, Fault, Inductive, TypeOK, MoneyType, RowsType,
     WorldType, ProcsType, ProcsOK, EvidenceOK, UntouchedOK, WithdrawalLabels
<1>8. PaidOnlyIfSucceeded'
BY DEF PostLost, GotoWith, BankAccept, Fault, Inductive, TypeOK, MoneyType, ProcsType,
     ProcsOK, EvidenceOK, PaidOnlyIfSucceeded, WithdrawalLabels
<1>9. SweepOnce'
BY DEF PostLost, GotoWith, BankAccept, Fault, Inductive, TypeOK, RowsType, MoneyType,
     ProcsOK, EvidenceOK, SweepOnce, WithdrawalLabels
<1> QED BY <1>1, <1>2, <1>3, <1>4, <1>5, <1>6, <1>7, <1>8, <1>9 DEF Inductive, TypeOK

\* its answer,
LEMMA PostedStep ==
  ASSUME Inductive, NEW p \in Procs, Posted(p)
  PROVE  Inductive'
<1>1. MoneyType' /\ RowsType' /\ WorldType' /\ UntouchedOK' /\ ReversalOK' /\ OneReversal'
     /\ PaidOnlyIfSucceeded' /\ IntentAgrees' /\ SweepOnce'
BY DEF Posted, Goto, GotoWith, Inductive, TypeOK, MoneyType, RowsType, WorldType,
     UntouchedOK, ReversalOK, OneReversal, PaidOnlyIfSucceeded, IntentAgrees, SweepOnce
<1>2. ProcsType'
  BY GotoType, GotoWithType, DoneType DEF Posted, Inductive, TypeOK, Labels, BankStatus
<1>3. ProcsOK'
BY DEF Posted, Goto, GotoWith, Inductive, TypeOK, ProcsType, RowsType, ProcsOK,
     WithdrawalLabels
<1>4. EvidenceOK'
BY DEF Posted, Goto, GotoWith, Inductive, TypeOK, ProcsType, RowsType, WorldType, ProcsOK,
     EvidenceOK, WithdrawalLabels, BankStatus
<1>5. LocksOK'
BY DEF Posted, Goto, GotoWith, Inductive, TypeOK, ProcsType, RowsType, ProcsOK, LocksOK,
     WithdrawalLabels
<1> QED BY <1>1, <1>2, <1>3, <1>4, <1>5 DEF Inductive, TypeOK

\* a durable failure,
LEMMA PersistStep ==
  ASSUME Inductive, NEW p \in Procs, Persist(p)
  PROVE  Inductive'
<1>1. MoneyType' /\ WorldType' /\ OneReversal' /\ PaidOnlyIfSucceeded' /\ SweepOnce'
BY DEF Persist, Goto, RecordReversal, Inductive, TypeOK, MoneyType, WorldType, OneReversal,
     PaidOnlyIfSucceeded, SweepOnce
<1>2. RowsType'
BY DEF Persist, Goto, RecordReversal, Inductive, TypeOK, RowsType, ProcsType, OpStatus,
     NoLease
<1>3. ProcsType'
BY DEF Persist, Goto, RecordReversal, Inductive, TypeOK, ProcsType, RowsType, WorldType,
     ProcsOK, Labels, BankStatus
<1>4. ProcsOK'
BY DEF Persist, Goto, RecordReversal, Inductive, TypeOK, ProcsType, RowsType, ProcsOK,
     WithdrawalLabels
<1>5. EvidenceOK'
BY DEF Persist, Goto, RecordReversal, Inductive, TypeOK, ProcsType, RowsType, WorldType,
     ProcsOK, EvidenceOK, WithdrawalLabels, BankStatus
<1>6. LocksOK'
BY DEF Persist, Goto, RecordReversal, Inductive, TypeOK, ProcsType, RowsType, ProcsOK,
     LocksOK, WithdrawalLabels
<1>7. UntouchedOK'
BY DEF Persist, Goto, RecordReversal, Inductive, TypeOK, MoneyType, RowsType, WorldType,
     ProcsType, ProcsOK, EvidenceOK, UntouchedOK, WithdrawalLabels
<1>8. ReversalOK'
BY DEF Persist, Goto, RecordReversal, Inductive, TypeOK, MoneyType, RowsType, ProcsType,
     ProcsOK, LocksOK, UntouchedOK, ReversalOK, WithdrawalLabels
<1>9. IntentAgrees'
BY DEF Persist, Goto, RecordReversal, Inductive, TypeOK, MoneyType, RowsType, ProcsType,
     ProcsOK, LocksOK, UntouchedOK, ReversalOK, IntentAgrees, WithdrawalLabels
<1> QED BY <1>1, <1>2, <1>3, <1>4, <1>5, <1>6, <1>7, <1>8, <1>9 DEF Inductive, TypeOK

\* the checkpoint (a failure at this point is always durable),
LEMMA CheckpointStep ==
  ASSUME Inductive, NEW p \in Procs, Checkpoint(p)
  PROVE  Inductive'
<1>1. WorldType'
BY DEF Checkpoint, Goto, Fail, Inductive, TypeOK, WorldType
<1>2. MoneyType'
  <2>1. UNCHANGED money
    BY DEF Checkpoint, Inductive, ProcsOK, TypeOK, ProcsType, BankStatus
  <2> QED BY <2>1 DEF Inductive, TypeOK, MoneyType
<1>3. RowsType'
BY DEF Checkpoint, Goto, Fail, Inductive, TypeOK, RowsType, ProcsType, OpStatus, NoLease
<1>4. ProcsType'
BY DEF Checkpoint, Goto, Fail, Inductive, TypeOK, ProcsType, RowsType, WorldType, ProcsOK,
     Labels, BankStatus
<1>5. ProcsOK'
BY DEF Checkpoint, Goto, Fail, Inductive, TypeOK, ProcsType, RowsType, ProcsOK,
     WithdrawalLabels
<1>6. EvidenceOK'
BY DEF Checkpoint, Goto, Fail, Inductive, TypeOK, ProcsType, RowsType, WorldType, ProcsOK,
     EvidenceOK, WithdrawalLabels, BankStatus
<1>7. LocksOK'
BY DEF Checkpoint, Goto, Fail, Inductive, TypeOK, ProcsType, RowsType, ProcsOK, LocksOK,
     WithdrawalLabels
<1>8. UntouchedOK'
BY DEF Checkpoint, Goto, Fail, Inductive, TypeOK, MoneyType, RowsType, WorldType, ProcsType,
     ProcsOK, EvidenceOK, UntouchedOK, WithdrawalLabels
<1>9. ReversalOK'
  <2>1. UNCHANGED <<wd, reversal>>
    BY DEF Checkpoint, Inductive, ProcsOK, TypeOK, ProcsType, BankStatus
  <2>2. \A w \in Withdrawals : op'[w] # op[w] => op[w] = "PENDING"
    BY DEF Checkpoint, Inductive, TypeOK, RowsType
  <2> QED BY <2>1, <2>2 DEF Inductive, ReversalOK
<1>10. OneReversal'
BY DEF Checkpoint, Goto, Fail, Inductive, TypeOK, MoneyType, ProcsOK, ReversalOK,
     OneReversal, WithdrawalLabels
<1>11. PaidOnlyIfSucceeded'
BY DEF Checkpoint, Goto, Fail, Inductive, TypeOK, MoneyType, ProcsType, ProcsOK, EvidenceOK,
     PaidOnlyIfSucceeded, WithdrawalLabels
<1>12. IntentAgrees'
BY DEF Checkpoint, Goto, Fail, Inductive, TypeOK, MoneyType, RowsType, ProcsType, ProcsOK,
     LocksOK, UntouchedOK, ReversalOK, IntentAgrees, WithdrawalLabels
<1>13. SweepOnce'
  <2>1. \A t \in Sweeps : op'[t] = "RECORDED" <=> op[t] = "RECORDED"
    BY DEF Checkpoint, Inductive, TypeOK, RowsType
  <2>2. UNCHANGED <<swept, events>>
    BY DEF Checkpoint, Fail
  <2> QED BY <2>1, <2>2 DEF Inductive, SweepOnce
<1> QED BY <1>1, <1>2, <1>3, <1>4, <1>5, <1>6, <1>7, <1>8, <1>9, <1>10, <1>11, <1>12, <1>13
     DEF Inductive, TypeOK

\* the read of the last transaction,
LEMMA FinalizeStep ==
  ASSUME Inductive, NEW p \in Procs, Finalize(p)
  PROVE  Inductive'
<1>1. WorldType' /\ OneReversal' /\ PaidOnlyIfSucceeded'
BY DEF Finalize, Goto, SweepOut, Inductive, TypeOK, WorldType, OneReversal,
     PaidOnlyIfSucceeded
<1>2. MoneyType'
BY DEF Finalize, Goto, SweepOut, Inductive, TypeOK, MoneyType, WithdrawalStatus
<1>3. RowsType'
BY DEF Finalize, Goto, SweepOut, Inductive, TypeOK, RowsType, ProcsType, OpStatus, NoLease
<1>4. ProcsType'
BY DEF Finalize, Goto, SweepOut, Inductive, TypeOK, ProcsType, RowsType, WorldType, ProcsOK,
     Labels, BankStatus
<1>5. ProcsOK'
BY DEF Finalize, Goto, SweepOut, Inductive, TypeOK, ProcsType, RowsType, ProcsOK,
     WithdrawalLabels
<1>6. EvidenceOK'
BY DEF Finalize, Goto, SweepOut, Inductive, TypeOK, ProcsType, RowsType, WorldType, ProcsOK,
     EvidenceOK, WithdrawalLabels, BankStatus
<1>7. LocksOK'
BY DEF Finalize, Goto, SweepOut, Inductive, TypeOK, ProcsType, RowsType, ProcsOK, LocksOK,
     WithdrawalLabels
<1>8. UntouchedOK'
BY DEF Finalize, Goto, SweepOut, Inductive, TypeOK, MoneyType, RowsType, WorldType,
     ProcsType, ProcsOK, EvidenceOK, UntouchedOK, WithdrawalLabels
<1>9. ReversalOK'
BY DEF Finalize, Goto, SweepOut, Inductive, TypeOK, MoneyType, RowsType, ProcsType, ProcsOK,
     LocksOK, UntouchedOK, ReversalOK, WithdrawalLabels
<1>10. IntentAgrees'
BY DEF Finalize, Goto, SweepOut, Inductive, TypeOK, MoneyType, RowsType, ProcsType, ProcsOK,
     LocksOK, UntouchedOK, ReversalOK, IntentAgrees, WithdrawalLabels
<1>11. SweepOnce'
  <2>1. CASE UNCHANGED <<money, op>>
    BY <2>1 DEF Finalize, Inductive, SweepOnce
  <2>2. CASE op[job[p]] = "PROVIDER_OK" /\ job[p] \in Sweeps
    <3>1. <<job[p], "success">> \in events
      BY <2>2 DEF Inductive, EvidenceOK
    <3>2. /\ swept' = [swept EXCEPT ![job[p]] = @ + 1] /\ events' = events
          /\ op' = [op EXCEPT ![job[p]] = "RECORDED"]
      BY <2>2 DEF Finalize, SweepOut
    <3>a. swept[job[p]] = 0
      BY <2>2 DEF Inductive, SweepOnce
    <3>3. swept'[job[p]] = 1 /\ op'[job[p]] = "RECORDED"
      BY <2>2, <3>2, <3>a DEF Inductive, TypeOK, MoneyType, RowsType
    <3>4. \A t \in Sweeps : t # job[p] => swept'[t] = swept[t] /\ op'[t] = op[t]
      BY <3>2 DEF Inductive, TypeOK, MoneyType, RowsType
    <3> QED BY <3>1, <3>2, <3>3, <3>4 DEF Inductive, SweepOnce
  <2> QED BY <2>1, <2>2 DEF Finalize
<1> QED BY <1>1, <1>2, <1>3, <1>4, <1>5, <1>6, <1>7, <1>8, <1>9, <1>10, <1>11 DEF Inductive,
     TypeOK

\* its commit, which holds the intent's lock,
LEMMA FinalizeCommitStep ==
  ASSUME Inductive, NEW p \in Procs, FinalizeCommit(p)
  PROVE  Inductive'
<1>1. WorldType'
BY DEF FinalizeCommit, Goto, Complete, Inductive, TypeOK, WorldType
<1>2. MoneyType'
BY DEF FinalizeCommit, Goto, Complete, Inductive, TypeOK, MoneyType, WithdrawalStatus
<1>3. RowsType'
BY DEF FinalizeCommit, Goto, Complete, Inductive, TypeOK, RowsType, ProcsType, OpStatus,
     NoLease
<1>4. ProcsType'
BY DEF FinalizeCommit, Goto, Complete, Inductive, TypeOK, ProcsType, RowsType, WorldType,
     ProcsOK, Labels, BankStatus
<1>5. ProcsOK'
BY DEF FinalizeCommit, Goto, Complete, Inductive, TypeOK, ProcsType, RowsType, ProcsOK,
     WithdrawalLabels
<1>6. EvidenceOK'
BY DEF FinalizeCommit, Goto, Complete, Inductive, TypeOK, ProcsType, RowsType, WorldType,
     ProcsOK, EvidenceOK, WithdrawalLabels, BankStatus
<1>7. LocksOK'
BY DEF FinalizeCommit, Goto, Complete, Inductive, TypeOK, ProcsType, RowsType, ProcsOK,
     LocksOK, WithdrawalLabels
<1>8. UntouchedOK'
BY DEF FinalizeCommit, Goto, Complete, Inductive, TypeOK, MoneyType, RowsType, WorldType,
     ProcsType, ProcsOK, EvidenceOK, UntouchedOK, WithdrawalLabels
<1>9. ReversalOK'
BY DEF FinalizeCommit, Goto, Complete, Inductive, TypeOK, MoneyType, RowsType, ProcsType,
     ProcsOK, LocksOK, UntouchedOK, ReversalOK, WithdrawalLabels
<1>10. OneReversal'
BY DEF FinalizeCommit, Goto, Complete, Inductive, TypeOK, MoneyType, ProcsOK, ReversalOK,
     OneReversal, WithdrawalLabels
<1>11. PaidOnlyIfSucceeded'
  <2>1. job[p] \in Withdrawals
    BY DEF FinalizeCommit, Inductive, ProcsOK, WithdrawalLabels
  <2>2. <<job[p], "success">> \in events
    BY <2>1 DEF FinalizeCommit, Inductive, LocksOK, EvidenceOK
  <2> QED BY <2>1, <2>2 DEF FinalizeCommit, Complete, Inductive, TypeOK, MoneyType, PaidOnlyIfSucceeded
<1>12. IntentAgrees'
  <2>1. job[p] \in Withdrawals
    BY DEF FinalizeCommit, Inductive, ProcsOK, WithdrawalLabels
  <2>2. op[job[p]] = "PROVIDER_OK"
    BY DEF FinalizeCommit, Inductive, LocksOK
  <2>3. wd[job[p]] \in {"PROCESSING", "PAID"}
    BY <2>1, <2>2 DEF Inductive, TypeOK, MoneyType, WithdrawalStatus, UntouchedOK, ReversalOK
  <2>4. wd'[job[p]] = "PAID" /\ op'[job[p]] = "RECORDED" /\ reversal' = reversal
    BY <2>1, <2>3 DEF FinalizeCommit, Complete, Inductive, TypeOK, MoneyType, RowsType
  <2>5. \A w \in Withdrawals : w # job[p] => wd'[w] = wd[w] /\ op'[w] = op[w]
    BY <2>1 DEF FinalizeCommit, Complete, Inductive, TypeOK, MoneyType, RowsType
  <2>6. reversal[job[p]] # "RECORDED"
    BY <2>1, <2>2 DEF Inductive, ReversalOK
  <2> QED BY <2>1, <2>4, <2>5, <2>6 DEF Inductive, IntentAgrees
<1>13. SweepOnce'
  <2>1. job[p] \in Withdrawals
    BY DEF FinalizeCommit, Inductive, ProcsOK, WithdrawalLabels
  <2>2. \A t \in Sweeps : op'[t] = op[t]
    BY <2>1 DEF FinalizeCommit, Inductive, TypeOK, RowsType
  <2>3. swept' = swept /\ events' = events
    BY DEF FinalizeCommit, Complete
  <2> QED BY <2>2, <2>3 DEF Inductive, SweepOnce
<1> QED BY <1>1, <1>2, <1>3, <1>4, <1>5, <1>6, <1>7, <1>8, <1>9, <1>10, <1>11, <1>12, <1>13
     DEF Inductive, TypeOK

\* the reversal, which waits for that lock,
LEMMA ReverseStep ==
  ASSUME Inductive, NEW p \in Procs, Reverse(p)
  PROVE  Inductive'
<1>1. WorldType'
BY DEF Reverse, Goto, Fail, Inductive, TypeOK, WorldType
<1>2. MoneyType'
  <2>1. job[p] \in Withdrawals
    BY DEF Reverse, Inductive, ProcsOK, WithdrawalLabels
  <2>2. CASE Fail(job[p]) /\ FailFits(job[p])
    BY <2>1, <2>2, FailType DEF Inductive, TypeOK
  <2>3. CASE UNCHANGED money
    BY <2>3 DEF Inductive, TypeOK, MoneyType
  <2> QED BY <2>2, <2>3 DEF Reverse
<1>3. RowsType'
BY DEF Reverse, Goto, Fail, FailFits, Inductive, TypeOK, RowsType, ProcsType, OpStatus,
     NoLease
<1>4. ProcsType'
BY DEF Reverse, Goto, Fail, FailFits, Inductive, TypeOK, ProcsType, RowsType, WorldType,
     ProcsOK, Labels, BankStatus
<1>5. ProcsOK'
BY DEF Reverse, Goto, Fail, FailFits, Inductive, TypeOK, ProcsType, RowsType, ProcsOK,
     WithdrawalLabels
<1>6. EvidenceOK'
BY DEF Reverse, Goto, Fail, FailFits, Inductive, TypeOK, ProcsType, RowsType, WorldType,
     ProcsOK, EvidenceOK, WithdrawalLabels, BankStatus
<1>7. LocksOK'
BY DEF Reverse, Goto, Fail, FailFits, Inductive, TypeOK, ProcsType, RowsType, ProcsOK,
     LocksOK, WithdrawalLabels
<1>8. UntouchedOK'
BY DEF Reverse, Goto, Fail, FailFits, Inductive, TypeOK, MoneyType, RowsType, WorldType,
     ProcsType, ProcsOK, EvidenceOK, UntouchedOK, WithdrawalLabels
<1>9. ReversalOK'
BY DEF Reverse, Goto, Fail, FailFits, Inductive, TypeOK, MoneyType, RowsType, ProcsType,
     ProcsOK, LocksOK, UntouchedOK, ReversalOK, WithdrawalLabels
<1>10. OneReversal'
BY DEF Reverse, Goto, Fail, FailFits, Inductive, TypeOK, MoneyType, ProcsOK, ReversalOK,
     OneReversal, WithdrawalLabels
<1>11. PaidOnlyIfSucceeded'
BY DEF Reverse, Goto, Fail, FailFits, Inductive, TypeOK, MoneyType, ProcsType, ProcsOK,
     EvidenceOK, PaidOnlyIfSucceeded, WithdrawalLabels
<1>12. IntentAgrees'
BY DEF Reverse, Goto, Fail, FailFits, Inductive, TypeOK, MoneyType, RowsType, ProcsType,
     ProcsOK, LocksOK, UntouchedOK, ReversalOK, IntentAgrees, WithdrawalLabels
<1>13. SweepOnce'
  <2>1. job[p] \in Withdrawals
    BY DEF Reverse, Inductive, ProcsOK, WithdrawalLabels
  <2>2. \A t \in Sweeps : op'[t] = op[t]
    BY <2>1 DEF Reverse, Inductive, TypeOK, RowsType
  <2> QED BY <2>2 DEF Reverse, Fail, Inductive, SweepOnce
<1> QED BY <1>1, <1>2, <1>3, <1>4, <1>5, <1>6, <1>7, <1>8, <1>9, <1>10, <1>11, <1>12, <1>13
     DEF Inductive, TypeOK

\* the release of the lease,
LEMMA ReleaseStep ==
  ASSUME Inductive, NEW p \in Procs, Release(p)
  PROVE  Inductive'
<1>1. MoneyType' /\ WorldType' /\ ReversalOK' /\ OneReversal' /\ PaidOnlyIfSucceeded' /\
     IntentAgrees' /\ SweepOnce'
BY DEF Release, Done, Inductive, TypeOK, MoneyType, WorldType, ReversalOK, OneReversal,
     PaidOnlyIfSucceeded, IntentAgrees, SweepOnce
<1>2. RowsType'
BY DEF Release, Done, Inductive, TypeOK, RowsType, ProcsType, OpStatus, NoLease
<1>3. ProcsType'
BY DEF Release, Done, Inductive, TypeOK, ProcsType, RowsType, WorldType, ProcsOK, Labels,
     BankStatus
<1>4. ProcsOK'
BY DEF Release, Done, Inductive, TypeOK, ProcsType, RowsType, ProcsOK, WithdrawalLabels
<1>5. EvidenceOK'
BY DEF Release, Done, Inductive, TypeOK, ProcsType, RowsType, WorldType, ProcsOK,
     EvidenceOK, WithdrawalLabels, BankStatus
<1>6. LocksOK'
BY DEF Release, Done, Inductive, TypeOK, ProcsType, RowsType, ProcsOK, LocksOK,
     WithdrawalLabels
<1>7. UntouchedOK'
BY DEF Release, Done, Inductive, TypeOK, MoneyType, RowsType, WorldType, ProcsType, ProcsOK,
     EvidenceOK, UntouchedOK, WithdrawalLabels
<1> QED BY <1>1, <1>2, <1>3, <1>4, <1>5, <1>6, <1>7 DEF Inductive, TypeOK

\* a failure callback,
LEMMA HookFailureStep ==
  ASSUME Inductive, NEW p \in Procs, NEW w \in Withdrawals, HookFailure(p, w)
  PROVE  Inductive'
<1>1. MoneyType' /\ WorldType' /\ OneReversal' /\ PaidOnlyIfSucceeded' /\ SweepOnce'
BY DEF HookFailure, Begin, RecordReversal, Inductive, TypeOK, MoneyType, WorldType,
     OneReversal, PaidOnlyIfSucceeded, SweepOnce
<1>2. RowsType'
BY DEF HookFailure, Begin, RecordReversal, Inductive, TypeOK, RowsType, ProcsType, OpStatus,
     NoLease
<1>3. ProcsType'
BY DEF HookFailure, Begin, RecordReversal, Inductive, TypeOK, ProcsType, RowsType,
     WorldType, ProcsOK, Labels, BankStatus
<1>4. ProcsOK'
BY DEF HookFailure, Begin, RecordReversal, Inductive, TypeOK, ProcsType, RowsType, ProcsOK,
     WithdrawalLabels
<1>5. EvidenceOK'
BY DEF HookFailure, Begin, RecordReversal, Inductive, TypeOK, ProcsType, RowsType,
     WorldType, ProcsOK, EvidenceOK, WithdrawalLabels, BankStatus
<1>6. LocksOK'
BY DEF HookFailure, Begin, RecordReversal, Inductive, TypeOK, ProcsType, RowsType, ProcsOK,
     LocksOK, WithdrawalLabels
<1>7. UntouchedOK'
  <2>1. bank[w] = "failed"
    BY DEF HookFailure, Inductive, EvidenceOK
  <2>2. wd[w] # "NONE"
    BY <2>1 DEF Inductive, UntouchedOK
  <2> QED BY <2>2 DEF HookFailure, Begin, RecordReversal, Inductive, TypeOK, ProcsType, RowsType, UntouchedOK
<1>8. ReversalOK'
BY DEF HookFailure, Begin, RecordReversal, Inductive, TypeOK, MoneyType, RowsType,
     ProcsType, ProcsOK, LocksOK, UntouchedOK, ReversalOK, WithdrawalLabels
<1>9. IntentAgrees'
BY DEF HookFailure, Begin, RecordReversal, Inductive, TypeOK, MoneyType, RowsType,
     ProcsType, ProcsOK, LocksOK, UntouchedOK, ReversalOK, IntentAgrees, WithdrawalLabels
<1> QED BY <1>1, <1>2, <1>3, <1>4, <1>5, <1>6, <1>7, <1>8, <1>9 DEF Inductive, TypeOK

\* a success callback,
LEMMA HookSuccessStep ==
  ASSUME Inductive, NEW p \in Procs, NEW w \in Withdrawals, HookSuccess(p, w)
  PROVE  Inductive'
<1>1. MoneyType' /\ RowsType' /\ WorldType' /\ ReversalOK' /\ OneReversal' /\
     PaidOnlyIfSucceeded' /\ IntentAgrees' /\ SweepOnce'
BY DEF HookSuccess, Begin, Inductive, TypeOK, MoneyType, RowsType, WorldType, ReversalOK,
     OneReversal, PaidOnlyIfSucceeded, IntentAgrees, SweepOnce
<1>2. ProcsType'
BY DEF HookSuccess, Begin, Inductive, TypeOK, ProcsType, RowsType, WorldType, ProcsOK,
     Labels, BankStatus
<1>3. ProcsOK'
BY DEF HookSuccess, Begin, Inductive, TypeOK, ProcsType, RowsType, ProcsOK, WithdrawalLabels
<1>4. EvidenceOK'
BY DEF HookSuccess, Begin, Inductive, TypeOK, ProcsType, RowsType, WorldType, ProcsOK,
     EvidenceOK, WithdrawalLabels, BankStatus
<1>5. LocksOK'
BY DEF HookSuccess, Begin, Inductive, TypeOK, ProcsType, RowsType, ProcsOK, LocksOK,
     WithdrawalLabels
<1>6. UntouchedOK'
  <2>1. wd[w] # "NONE"
    BY DEF HookSuccess, Inductive, EvidenceOK, UntouchedOK
  <2> QED BY <2>1 DEF HookSuccess, Begin, Inductive, TypeOK, ProcsType, UntouchedOK
<1> QED BY <1>1, <1>2, <1>3, <1>4, <1>5, <1>6 DEF Inductive, TypeOK

\* its read,
LEMMA HookStep ==
  ASSUME Inductive, NEW p \in Procs, Hook(p)
  PROVE  Inductive'
<1>1. MoneyType' /\ WorldType' /\ ReversalOK' /\ OneReversal' /\ PaidOnlyIfSucceeded' /\
     IntentAgrees' /\ SweepOnce'
BY DEF Hook, Goto, Done, Inductive, TypeOK, MoneyType, WorldType, ReversalOK, OneReversal,
     PaidOnlyIfSucceeded, IntentAgrees, SweepOnce
<1>2. RowsType'
BY DEF Hook, Goto, Done, Inductive, TypeOK, RowsType, ProcsType, OpStatus, NoLease
<1>3. ProcsType'
  BY GotoType, GotoWithType, DoneType DEF Hook, Inductive, TypeOK, Labels, BankStatus
<1>4. ProcsOK'
BY DEF Hook, Goto, Done, Inductive, TypeOK, ProcsType, RowsType, ProcsOK, WithdrawalLabels
<1>5. EvidenceOK'
BY DEF Hook, Goto, Done, Inductive, TypeOK, ProcsType, RowsType, WorldType, ProcsOK,
     EvidenceOK, WithdrawalLabels, BankStatus
<1>6. LocksOK'
BY DEF Hook, Goto, Done, Inductive, TypeOK, ProcsType, RowsType, ProcsOK, LocksOK,
     WithdrawalLabels
<1>7. UntouchedOK'
BY DEF Hook, Goto, Done, Inductive, TypeOK, MoneyType, RowsType, WorldType, ProcsType,
     ProcsOK, EvidenceOK, UntouchedOK, WithdrawalLabels
<1> QED BY <1>1, <1>2, <1>3, <1>4, <1>5, <1>6, <1>7 DEF Inductive, TypeOK

\* its commit,
LEMMA HookCommitStep ==
  ASSUME Inductive, NEW p \in Procs, HookCommit(p)
  PROVE  Inductive'
<1>1. WorldType'
BY DEF HookCommit, Done, Complete, Inductive, TypeOK, WorldType
<1>2. MoneyType'
BY DEF HookCommit, Done, Complete, Inductive, TypeOK, MoneyType, WithdrawalStatus
<1>3. RowsType'
BY DEF HookCommit, Done, Complete, Inductive, TypeOK, RowsType, ProcsType, OpStatus, NoLease
<1>4. ProcsType'
BY DEF HookCommit, Done, Complete, Inductive, TypeOK, ProcsType, RowsType, WorldType,
     ProcsOK, Labels, BankStatus
<1>5. ProcsOK'
BY DEF HookCommit, Done, Complete, Inductive, TypeOK, ProcsType, RowsType, ProcsOK,
     WithdrawalLabels
<1>6. EvidenceOK'
BY DEF HookCommit, Done, Complete, Inductive, TypeOK, ProcsType, RowsType, WorldType,
     ProcsOK, EvidenceOK, WithdrawalLabels, BankStatus
<1>7. LocksOK'
BY DEF HookCommit, Done, Complete, Inductive, TypeOK, ProcsType, RowsType, ProcsOK, LocksOK,
     WithdrawalLabels
<1>8. UntouchedOK'
BY DEF HookCommit, Done, Complete, Inductive, TypeOK, MoneyType, RowsType, WorldType,
     ProcsType, ProcsOK, EvidenceOK, UntouchedOK, WithdrawalLabels
<1>9. ReversalOK'
BY DEF HookCommit, Done, Complete, Inductive, TypeOK, MoneyType, RowsType, ProcsType,
     ProcsOK, LocksOK, UntouchedOK, ReversalOK, WithdrawalLabels
<1>10. OneReversal'
BY DEF HookCommit, Done, Complete, Inductive, TypeOK, MoneyType, ProcsOK, ReversalOK,
     OneReversal, WithdrawalLabels
<1>11. PaidOnlyIfSucceeded'
BY DEF HookCommit, Done, Complete, Inductive, TypeOK, MoneyType, ProcsType, ProcsOK,
     EvidenceOK, PaidOnlyIfSucceeded, WithdrawalLabels
<1>12. IntentAgrees'
  <2>1. job[p] \in Withdrawals
    BY DEF HookCommit, Inductive, ProcsOK, WithdrawalLabels
  <2>2. \A w \in Withdrawals : wd'[w] = wd[w] \/ (wd[w] = "PROCESSING" /\ wd'[w] = "PAID" /\ w = job[p])
    BY <2>1 DEF HookCommit, Complete, Inductive, TypeOK, MoneyType
  <2>3. CASE ev[p] # "success"
    BY <2>1, <2>2, <2>3 DEF HookCommit, Inductive, IntentAgrees
  <2>4. CASE ev[p] = "success"
    <3>1. op[job[p]] \notin {"NONE", "FAILED"}
      BY <2>4 DEF HookCommit, Inductive, LocksOK
    <3>2. wd[job[p]] \in {"PROCESSING", "PAID"} /\ reversal[job[p]] # "RECORDED"
      BY <2>1, <3>1 DEF Inductive, TypeOK, MoneyType, WithdrawalStatus, UntouchedOK, ReversalOK
    <3>3. wd'[job[p]] = "PAID" /\ op'[job[p]] = "RECORDED" /\ reversal' = reversal
      BY <2>1, <2>4, <3>2 DEF HookCommit, Complete, Inductive, TypeOK, MoneyType, RowsType
    <3>4. \A w \in Withdrawals : w # job[p] => wd'[w] = wd[w] /\ op'[w] = op[w]
      BY <2>1, <2>2, <2>4 DEF HookCommit, Inductive, TypeOK, RowsType
    <3> QED BY <3>2, <3>3, <3>4 DEF Inductive, IntentAgrees
  <2> QED BY <2>3, <2>4
<1>13. SweepOnce'
  <2>1. job[p] \in Withdrawals
    BY DEF HookCommit, Inductive, ProcsOK, WithdrawalLabels
  <2>2. \A t \in Sweeps : op'[t] = op[t]
    BY <2>1 DEF HookCommit, Inductive, TypeOK, RowsType
  <2> QED BY <2>2 DEF HookCommit, Complete, Inductive, SweepOnce
<1> QED BY <1>1, <1>2, <1>3, <1>4, <1>5, <1>6, <1>7, <1>8, <1>9, <1>10, <1>11, <1>12, <1>13
     DEF Inductive, TypeOK

\* a callback of a sweep,
LEMMA HookSweepStep ==
  ASSUME Inductive, NEW t \in Sweeps, NEW outcome \in Final, HookSweep(t, outcome)
  PROVE  Inductive'
<1>1. WorldType' /\ ProcsType' /\ ProcsOK' /\ OneReversal' /\ PaidOnlyIfSucceeded'
BY DEF HookSweep, SweepOut, Inductive, TypeOK, WorldType, ProcsType, ProcsOK, OneReversal,
     PaidOnlyIfSucceeded
<1>2. MoneyType'
BY DEF HookSweep, SweepOut, Inductive, TypeOK, MoneyType, WithdrawalStatus
<1>3. RowsType'
BY DEF HookSweep, SweepOut, Inductive, TypeOK, RowsType, ProcsType, OpStatus, NoLease
<1>4. EvidenceOK'
BY DEF HookSweep, SweepOut, Inductive, TypeOK, ProcsType, RowsType, WorldType, ProcsOK,
     EvidenceOK, WithdrawalLabels, BankStatus
<1>5. LocksOK'
BY DEF HookSweep, SweepOut, Inductive, TypeOK, ProcsType, RowsType, ProcsOK, LocksOK,
     WithdrawalLabels
<1>6. UntouchedOK'
BY DEF HookSweep, SweepOut, Inductive, TypeOK, MoneyType, RowsType, WorldType, ProcsType,
     ProcsOK, EvidenceOK, UntouchedOK, WithdrawalLabels
<1>7. ReversalOK'
  <2>1. \A w \in Withdrawals : op'[w] = op[w]
    BY DEF HookSweep, Inductive, TypeOK, RowsType
  <2> QED BY <2>1 DEF HookSweep, SweepOut, Inductive, ReversalOK
<1>8. IntentAgrees'
BY DEF HookSweep, SweepOut, Inductive, TypeOK, MoneyType, RowsType, ProcsType, ProcsOK,
     LocksOK, UntouchedOK, ReversalOK, IntentAgrees, WithdrawalLabels
<1>9. SweepOnce'
  <2>1. op[t] # "FAILED" /\ <<t, outcome>> \in events /\ events' = events
    BY DEF HookSweep
  <2>2. swept'[t] = IF op'[t] = "RECORDED" THEN 1 ELSE 0
    <3>1. swept[t] = IF op[t] = "RECORDED" THEN 1 ELSE 0
      BY DEF Inductive, SweepOnce
    <3>2. CASE outcome = "success"
      BY <3>1, <3>2 DEF HookSweep, SweepOut, Inductive, TypeOK, MoneyType, RowsType
    <3>3. CASE outcome = "failed"
      BY <3>1, <3>3 DEF HookSweep, Inductive, TypeOK, MoneyType, RowsType
    <3> QED BY <3>2, <3>3
  <2>3. op'[t] = "RECORDED" => outcome = "success"
    BY DEF HookSweep, Inductive, TypeOK, RowsType
  <2>4. \A u \in Sweeps : u # t => swept'[u] = swept[u] /\ op'[u] = op[u]
    BY DEF HookSweep, SweepOut, Inductive, TypeOK, MoneyType, RowsType
  <2> QED BY <2>1, <2>2, <2>3, <2>4 DEF Inductive, SweepOnce
<1> QED BY <1>1, <1>2, <1>3, <1>4, <1>5, <1>6, <1>7, <1>8, <1>9 DEF Inductive, TypeOK

\* the looks for a reversal of the stuck sweep,
LEMMA StuckStep ==
  ASSUME Inductive, NEW p \in Procs, NEW from \in Labels, NEW to \in Labels,
         <<from, to>> = <<"stuck", "stuckVerify">> \/ <<from, to>> = <<"stuckVerified", "stuckSettle">>,
         Stuck(p, from, to)
  PROVE  Inductive'
<1>1. MoneyType' /\ RowsType' /\ WorldType' /\ ReversalOK' /\ OneReversal' /\
     PaidOnlyIfSucceeded' /\ IntentAgrees' /\ SweepOnce'
BY DEF Stuck, Goto, Done, Inductive, TypeOK, MoneyType, RowsType, WorldType, ReversalOK,
     OneReversal, PaidOnlyIfSucceeded, IntentAgrees, SweepOnce
<1>2. ProcsType'
  BY GotoType, GotoWithType, DoneType DEF Stuck, Inductive, TypeOK, Labels, BankStatus
<1>3. ProcsOK'
BY DEF Stuck, Goto, Done, Inductive, TypeOK, ProcsType, RowsType, ProcsOK, WithdrawalLabels
<1>4. EvidenceOK'
BY DEF Stuck, Goto, Done, Inductive, TypeOK, ProcsType, RowsType, WorldType, ProcsOK,
     EvidenceOK, WithdrawalLabels, BankStatus
<1>5. LocksOK'
BY DEF Stuck, Goto, Done, Inductive, TypeOK, ProcsType, RowsType, ProcsOK, LocksOK,
     WithdrawalLabels
<1>6. UntouchedOK'
BY DEF Stuck, Goto, Done, Inductive, TypeOK, MoneyType, RowsType, WorldType, ProcsType,
     ProcsOK, EvidenceOK, UntouchedOK, WithdrawalLabels
<1> QED BY <1>1, <1>2, <1>3, <1>4, <1>5, <1>6 DEF Inductive, TypeOK

\* its verification,
LEMMA StuckVerifyStep ==
  ASSUME Inductive, NEW p \in Procs, StuckVerify(p)
  PROVE  Inductive'
<1>1. MoneyType' /\ RowsType' /\ WorldType' /\ UntouchedOK' /\ ReversalOK' /\ OneReversal'
     /\ PaidOnlyIfSucceeded' /\ IntentAgrees' /\ SweepOnce'
BY DEF StuckVerify, GotoWith, Inductive, TypeOK, MoneyType, RowsType, WorldType,
     UntouchedOK, ReversalOK, OneReversal, PaidOnlyIfSucceeded, IntentAgrees, SweepOnce
<1>2. ProcsType'
BY DEF StuckVerify, GotoWith, Inductive, TypeOK, ProcsType, RowsType, WorldType, ProcsOK,
     Labels, BankStatus
<1>3. ProcsOK'
BY DEF StuckVerify, GotoWith, Inductive, TypeOK, ProcsType, RowsType, ProcsOK,
     WithdrawalLabels
<1>4. EvidenceOK'
BY DEF StuckVerify, GotoWith, Inductive, TypeOK, ProcsType, RowsType, WorldType, ProcsOK,
     EvidenceOK, WithdrawalLabels, BankStatus
<1>5. LocksOK'
BY DEF StuckVerify, GotoWith, Inductive, TypeOK, ProcsType, RowsType, ProcsOK, LocksOK,
     WithdrawalLabels
<1> QED BY <1>1, <1>2, <1>3, <1>4, <1>5 DEF Inductive, TypeOK

\* its settlement,
LEMMA StuckSettleStep ==
  ASSUME Inductive, NEW p \in Procs, StuckSettle(p)
  PROVE  Inductive'
<1>1. WorldType' /\ SweepOnce'
BY DEF StuckSettle, Goto, Done, Complete, RecordReversal, Inductive, TypeOK, WorldType,
     SweepOnce
<1>2. MoneyType'
BY DEF StuckSettle, Goto, Done, Complete, RecordReversal, Inductive, TypeOK, MoneyType,
     WithdrawalStatus
<1>3. RowsType'
BY DEF StuckSettle, Goto, Done, Complete, RecordReversal, Inductive, TypeOK, RowsType,
     ProcsType, OpStatus, NoLease
<1>4. ProcsType'
  <2>1. faults' = faults /\ (Done(p) \/ Goto(p, "reverse"))
    BY DEF StuckSettle
  <2>2. CASE Done(p)
    BY <2>1, <2>2 DEF Done, Inductive, TypeOK, ProcsType, Labels, BankStatus
  <2>3. CASE Goto(p, "reverse")
    BY <2>1, <2>3 DEF Goto, Inductive, TypeOK, ProcsType, Labels
  <2> QED BY <2>1, <2>2, <2>3
<1>5. ProcsOK'
BY DEF StuckSettle, Goto, Done, Complete, RecordReversal, Inductive, TypeOK, ProcsType,
     RowsType, ProcsOK, WithdrawalLabels
<1>6. EvidenceOK'
  <2>1. job[p] \in Withdrawals
    BY DEF StuckSettle, Inductive, ProcsOK, WithdrawalLabels
  <2>2. \A w \in Withdrawals : reversal'[w] # "NONE" => <<w, "failed">> \in events
    <3>1. CASE UNCHANGED reversal
      BY <3>1 DEF Inductive, EvidenceOK
    <3>2. CASE ev[p] = "failed" /\ RecordReversal(job[p])
      <4>1. <<job[p], "failed">> \in events
        BY <3>2 DEF Inductive, EvidenceOK, Final
      <4>2. \A w \in Withdrawals : w # job[p] => reversal'[w] = reversal[w]
        BY <2>1, <3>2 DEF RecordReversal, Inductive, TypeOK, RowsType
      <4> QED BY <4>1, <4>2 DEF Inductive, EvidenceOK
    <3> QED BY <3>1, <3>2 DEF StuckSettle
  <2> QED BY <2>2 DEF StuckSettle, Goto, Done, Inductive, TypeOK, ProcsType, EvidenceOK
<1>7. LocksOK'
BY DEF StuckSettle, Goto, Done, Complete, RecordReversal, Inductive, TypeOK, ProcsType,
     RowsType, ProcsOK, LocksOK, WithdrawalLabels
<1>8. UntouchedOK'
BY DEF StuckSettle, Goto, Done, Complete, RecordReversal, Inductive, TypeOK, MoneyType,
     RowsType, WorldType, ProcsType, ProcsOK, EvidenceOK, UntouchedOK, WithdrawalLabels
<1>9. ReversalOK'
BY DEF StuckSettle, Goto, Done, Complete, RecordReversal, Inductive, TypeOK, MoneyType,
     RowsType, ProcsType, ProcsOK, LocksOK, UntouchedOK, ReversalOK, WithdrawalLabels
<1>10. OneReversal'
BY DEF StuckSettle, Goto, Done, Complete, RecordReversal, Inductive, TypeOK, MoneyType,
     ProcsOK, ReversalOK, OneReversal, WithdrawalLabels
<1>11. PaidOnlyIfSucceeded'
BY DEF StuckSettle, Goto, Done, Complete, RecordReversal, Inductive, TypeOK, MoneyType,
     ProcsType, ProcsOK, EvidenceOK, PaidOnlyIfSucceeded, WithdrawalLabels
<1>12. IntentAgrees'
BY DEF StuckSettle, Goto, Done, Complete, RecordReversal, Inductive, TypeOK, MoneyType,
     RowsType, ProcsType, ProcsOK, LocksOK, UntouchedOK, ReversalOK, IntentAgrees,
     WithdrawalLabels
<1> QED BY <1>1, <1>2, <1>3, <1>4, <1>5, <1>6, <1>7, <1>8, <1>9, <1>10, <1>11, <1>12 DEF
     Inductive, TypeOK

\* a crash,
LEMMA CrashStep ==
  ASSUME Inductive, NEW p \in Procs, Crash(p)
  PROVE  Inductive'
<1>1. MoneyType' /\ WorldType' /\ ReversalOK' /\ OneReversal' /\ PaidOnlyIfSucceeded' /\
     IntentAgrees' /\ SweepOnce'
BY DEF Crash, Done, Fault, Unlock, Inductive, TypeOK, MoneyType, WorldType, ReversalOK,
     OneReversal, PaidOnlyIfSucceeded, IntentAgrees, SweepOnce
<1>2. RowsType'
BY DEF Crash, Done, Fault, Unlock, Inductive, TypeOK, RowsType, ProcsType, OpStatus, NoLease
<1>3. ProcsType'
BY DEF Crash, Done, Fault, Unlock, Inductive, TypeOK, ProcsType, RowsType, WorldType,
     ProcsOK, Labels, BankStatus
<1>4. ProcsOK'
BY DEF Crash, Done, Fault, Unlock, Inductive, TypeOK, ProcsType, RowsType, ProcsOK,
     WithdrawalLabels
<1>5. EvidenceOK'
BY DEF Crash, Done, Fault, Unlock, Inductive, TypeOK, ProcsType, RowsType, WorldType,
     ProcsOK, EvidenceOK, WithdrawalLabels, BankStatus
<1>6. LocksOK'
BY DEF Crash, Done, Fault, Unlock, Inductive, TypeOK, ProcsType, RowsType, ProcsOK, LocksOK,
     WithdrawalLabels
<1>7. UntouchedOK'
BY DEF Crash, Done, Fault, Unlock, Inductive, TypeOK, MoneyType, RowsType, WorldType,
     ProcsType, ProcsOK, EvidenceOK, UntouchedOK, WithdrawalLabels
<1> QED BY <1>1, <1>2, <1>3, <1>4, <1>5, <1>6, <1>7 DEF Inductive, TypeOK

\* an exception,
LEMMA ExceptionStep ==
  ASSUME Inductive, NEW p \in Procs, Exception(p)
  PROVE  Inductive'
<1>1. MoneyType' /\ WorldType' /\ UntouchedOK' /\ ReversalOK' /\ OneReversal' /\
     PaidOnlyIfSucceeded' /\ IntentAgrees' /\ SweepOnce'
BY DEF Exception, Goto, Fault, Unlock, Inductive, TypeOK, MoneyType, WorldType, UntouchedOK,
     ReversalOK, OneReversal, PaidOnlyIfSucceeded, IntentAgrees, SweepOnce
<1>2. RowsType'
BY DEF Exception, Goto, Fault, Unlock, Inductive, TypeOK, RowsType, ProcsType, OpStatus,
     NoLease
<1>3. ProcsType'
BY DEF Exception, Goto, Fault, Unlock, Inductive, TypeOK, ProcsType, RowsType, WorldType,
     ProcsOK, Labels, BankStatus
<1>4. ProcsOK'
BY DEF Exception, Goto, Fault, Unlock, Inductive, TypeOK, ProcsType, RowsType, ProcsOK,
     WithdrawalLabels
<1>5. EvidenceOK'
BY DEF Exception, Goto, Fault, Unlock, Inductive, TypeOK, ProcsType, RowsType, WorldType,
     ProcsOK, EvidenceOK, WithdrawalLabels, BankStatus
<1>6. LocksOK'
BY DEF Exception, Goto, Fault, Unlock, Inductive, TypeOK, ProcsType, RowsType, ProcsOK,
     LocksOK, WithdrawalLabels
<1> QED BY <1>1, <1>2, <1>3, <1>4, <1>5, <1>6 DEF Inductive, TypeOK

\* an expired lease,
LEMMA ExpireStep ==
  ASSUME Inductive, NEW t \in Transfers, Expire(t)
  PROVE  Inductive'
<1>1. MoneyType' /\ WorldType' /\ ProcsOK' /\ EvidenceOK' /\ LocksOK' /\ UntouchedOK' /\
     ReversalOK' /\ OneReversal' /\ PaidOnlyIfSucceeded' /\ IntentAgrees' /\ SweepOnce'
BY DEF Expire, Fault, Inductive, TypeOK, MoneyType, WorldType, ProcsOK, EvidenceOK, LocksOK,
     UntouchedOK, ReversalOK, OneReversal, PaidOnlyIfSucceeded, IntentAgrees, SweepOnce
<1>2. RowsType'
  <2>1. lease[t] \in [owner : Procs \cup {None}, live : BOOLEAN]
    BY DEF Inductive, TypeOK, RowsType
  <2>2. [lease[t] EXCEPT !.live = FALSE] \in [owner : Procs \cup {None}, live : BOOLEAN]
    BY <2>1
  <2> QED BY <2>2 DEF Expire, Inductive, TypeOK, RowsType
<1>3. ProcsType'
  BY DEF Expire, Fault, Inductive, TypeOK, ProcsType
<1> QED BY <1>1, <1>2, <1>3 DEF Inductive, TypeOK

\* a late POST,
LEMMA LatePostStep ==
  ASSUME Inductive, NEW t \in Transfers, LatePost(t)
  PROVE  Inductive'
<1>1. MoneyType' /\ RowsType' /\ ProcsType' /\ ProcsOK' /\ LocksOK' /\ ReversalOK' /\
     OneReversal' /\ IntentAgrees'
BY DEF LatePost, BankAccept, Inductive, TypeOK, MoneyType, RowsType, ProcsType, ProcsOK,
     LocksOK, ReversalOK, OneReversal, IntentAgrees
<1>2. WorldType'
BY DEF LatePost, BankAccept, Inductive, TypeOK, WorldType, ProcsType, ProcsOK, BankStatus
<1>3. EvidenceOK'
  <2>1. /\ events \subseteq events'
        /\ \A u \in Transfers : /\ <<u, "failed">> \in events' <=> bank'[u] = "failed"
                                /\ bank'[u] = "success" => <<u, "success">> \in events'
                                /\ <<u, "success">> \in events' => bank'[u] \in Final
    BY BankAcceptEvidence DEF LatePost, Inductive, TypeOK
  <2> QED BY <2>1 DEF LatePost, Inductive, EvidenceOK
<1>4. UntouchedOK'
BY DEF LatePost, BankAccept, Inductive, TypeOK, MoneyType, RowsType, WorldType, ProcsType,
     ProcsOK, EvidenceOK, UntouchedOK, WithdrawalLabels
<1>5. PaidOnlyIfSucceeded'
BY DEF LatePost, BankAccept, Inductive, TypeOK, MoneyType, ProcsType, ProcsOK, EvidenceOK,
     PaidOnlyIfSucceeded, WithdrawalLabels
<1>6. SweepOnce'
BY DEF LatePost, BankAccept, Inductive, TypeOK, RowsType, MoneyType, ProcsOK, EvidenceOK,
     SweepOnce, WithdrawalLabels
<1> QED BY <1>1, <1>2, <1>3, <1>4, <1>5, <1>6 DEF Inductive, TypeOK

\* and the bank.
LEMMA BankSettlesStep ==
  ASSUME Inductive, NEW t \in Transfers, NEW outcome \in Final, BankSettles(t, outcome)
  PROVE  Inductive'
<1>1. MoneyType' /\ RowsType' /\ ProcsType' /\ ProcsOK' /\ LocksOK' /\ ReversalOK' /\
     OneReversal' /\ IntentAgrees'
BY DEF BankSettles, Inductive, TypeOK, MoneyType, RowsType, ProcsType, ProcsOK, LocksOK,
     ReversalOK, OneReversal, IntentAgrees
<1>2. WorldType'
BY DEF BankSettles, Inductive, TypeOK, WorldType, ProcsType, ProcsOK, BankStatus
<1>3. EvidenceOK'
BY DEF BankSettles, Inductive, TypeOK, ProcsType, RowsType, WorldType, ProcsOK, EvidenceOK,
     WithdrawalLabels, BankStatus
<1>4. UntouchedOK'
BY DEF BankSettles, Inductive, TypeOK, MoneyType, RowsType, WorldType, ProcsType, ProcsOK,
     EvidenceOK, UntouchedOK, WithdrawalLabels
<1>5. PaidOnlyIfSucceeded'
BY DEF BankSettles, Inductive, TypeOK, MoneyType, ProcsType, ProcsOK, EvidenceOK,
     PaidOnlyIfSucceeded, WithdrawalLabels
<1>6. SweepOnce'
BY DEF BankSettles, Inductive, TypeOK, RowsType, MoneyType, ProcsOK, EvidenceOK, SweepOnce,
     WithdrawalLabels
<1> QED BY <1>1, <1>2, <1>3, <1>4, <1>5, <1>6 DEF Inductive, TypeOK

-----------------------------------------------------------------------------
(* The invariant.                                                          *)

\* The initial states satisfy the invariant.
LEMMA InitInductive == Init => Inductive
<1> SUFFICES ASSUME Init PROVE Inductive
  OBVIOUS
<1>1. TypeOK
  <2>1. MoneyType
    BY OpeningAssumption DEF Init, MoneyType, WithdrawalStatus
  <2>2. RowsType /\ WorldType /\ ProcsType
    BY DEF Init, RowsType, WorldType, ProcsType, OpStatus, BankStatus, Labels, NoLease
  <2> QED BY <2>1, <2>2 DEF TypeOK
<1>2. ProcsOK /\ LocksOK
  BY DEF Init, ProcsOK, LocksOK, WithdrawalLabels
<1>3. EvidenceOK
  BY DEF Init, EvidenceOK
<1>4. UntouchedOK /\ ReversalOK /\ OneReversal /\ PaidOnlyIfSucceeded /\ IntentAgrees /\ SweepOnce
  BY DEF Init, UntouchedOK, ReversalOK, OneReversal, PaidOnlyIfSucceeded, IntentAgrees, SweepOnce
<1> QED BY <1>1, <1>2, <1>3, <1>4 DEF Inductive

\* Every step of a process preserves the invariant.
LEMMA ProcInductive ==
  ASSUME Inductive, NEW p \in Procs, Start(p) \/ ProcStep(p)
  PROVE  Inductive'
<1>1. CASE Start(p)
  BY <1>1, RequestStep, StartSweepStep, ResumeStep, ResumeReversalStep, ReconcileStuckStep,
     HookFailureStep, HookSuccessStep DEF Start
<1>2. CASE ProcStep(p)
  <2>1. CASE \/ SendKnown(p, "sendKnown", "sendOwns") \/ SendKnown(p, "reknown", "reowns")
             \/ SendOwns(p, "sendOwns", "verify") \/ SendOwns(p, "reowns", "post")
             \/ Stuck(p, "stuck", "stuckVerify") \/ Stuck(p, "stuckVerified", "stuckSettle")
    BY <2>1, SendKnownStep, SendOwnsStep, StuckStep DEF Labels
  <2>2. CASE \/ Known(p) \/ ClaimBusy(p) \/ Claim(p) \/ RunOperation(p)
             \/ Verify(p) \/ Verified(p) \/ Post(p) \/ Posted(p) \/ Persist(p) \/ Checkpoint(p)
    BY <2>2, KnownStep, ClaimBusyStep, ClaimStep, RunOperationStep, VerifyStep, VerifiedStep,
       PostStep, PostedStep, PersistStep, CheckpointStep
  <2>3. CASE \/ Finalize(p) \/ FinalizeCommit(p) \/ Reverse(p) \/ Release(p)
             \/ Hook(p) \/ HookCommit(p) \/ StuckVerify(p) \/ StuckSettle(p)
    BY <2>3, FinalizeStep, FinalizeCommitStep, ReverseStep, ReleaseStep, HookStep, HookCommitStep,
       StuckVerifyStep, StuckSettleStep
  <2> QED BY <1>2, <2>1, <2>2, <2>3 DEF ProcStep
<1> QED BY <1>1, <1>2

\* Every step of the system preserves the invariant.
LEMMA NextInductive == Inductive /\ [Next]_vars => Inductive'
<1> SUFFICES ASSUME Inductive, [Next]_vars PROVE Inductive'
  OBVIOUS
<1>1. CASE \E p \in Procs : Start(p) \/ ProcStep(p)
  BY <1>1, ProcInductive
<1>2. CASE Environment
  BY <1>2, CreditStep, CrashStep, ExceptionStep, PostLostStep, ExpireStep, LatePostStep,
     BankSettlesStep, HookSweepStep DEF Environment
<1>3. CASE UNCHANGED vars
  <2>1. TypeOK' /\ ProcsOK' /\ EvidenceOK'
    BY <1>3 DEF vars, Inductive, TypeOK, MoneyType, RowsType, WorldType, ProcsType, ProcsOK, EvidenceOK
  <2>2. LocksOK' /\ UntouchedOK' /\ ReversalOK'
    BY <1>3 DEF vars, Inductive, LocksOK, UntouchedOK, ReversalOK
  <2>3. OneReversal' /\ PaidOnlyIfSucceeded' /\ IntentAgrees' /\ SweepOnce'
    BY <1>3 DEF vars, Inductive, OneReversal, PaidOnlyIfSucceeded, IntentAgrees, SweepOnce
  <2> QED BY <2>1, <2>2, <2>3 DEF Inductive
<1> QED BY <1>1, <1>2, <1>3 DEF Next

\* The strengthened invariant holds in every reachable state.
THEOREM InductiveInvariant == Spec => []Inductive
  BY InitInductive, NextInductive, PTL DEF Spec

\* Type correctness: in particular no balance leaves 0..MAX_INT32_KOBO.
THEOREM TypeCorrect == Spec => []TypeOK
<1>1. Inductive => TypeOK
  BY DEF Inductive
<1> QED BY <1>1, InductiveInvariant, PTL

\* A failed withdrawal is credited back once, and only when the bank failed or
\* returned its transfer.
THEOREM CreditedBackOnce == Spec => [](OneReversal /\ CreditedOnlyIfFailed)
<1>1. Inductive => OneReversal /\ CreditedOnlyIfFailed
  BY DEF Inductive, ReversalOK, EvidenceOK, CreditedOnlyIfFailed
<1> QED BY <1>1, InductiveInvariant, PTL

\* A withdrawal is PAID only after the bank reported success.
THEOREM PaidIsPaid == Spec => []PaidOnlyIfSucceeded
<1>1. Inductive => PaidOnlyIfSucceeded
  BY DEF Inductive
<1> QED BY <1>1, InductiveInvariant, PTL

\* The dispatch intent, the reversal intent and the withdrawal agree.
THEOREM IntentsAgree == Spec => []IntentAgrees
<1>1. Inductive => IntentAgrees
  BY DEF Inductive
<1> QED BY <1>1, InductiveInvariant, PTL

\* A commission sweep is in the ledger exactly while its intent is RECORDED.
THEOREM SweptOnce == Spec => []SweepOnce
<1>1. Inductive => SweepOnce
  BY DEF Inductive
<1> QED BY <1>1, InductiveInvariant, PTL

-----------------------------------------------------------------------------
(* The wallet's books.                                                     *)

Out == {w \in Withdrawals : wd[w] \in {"PROCESSING", "PAID"}}

\* What a step can do to the wallet: nothing, but perhaps complete a withdrawal, or
\* one of the three ledger entries.
Entry ==
    \/ /\ UNCHANGED <<balance, earned>>
       /\ Out' = Out
    \/ /\ earned' = earned + 1 /\ balance' = balance + 1
       /\ Out' = Out
    \/ \E w \in Withdrawals \ Out :
        balance' = balance - Amount[w] /\ earned' = earned /\ Out' = Out \cup {w}
    \/ \E w \in Out :
        balance' = balance + Amount[w] /\ earned' = earned /\ Out' = Out \ {w}

\* A completed withdrawal stays out.
LEMMA CompleteEntry ==
  ASSUME Inductive, NEW w \in Withdrawals, Complete(w)
  PROVE  Entry
  BY DEF Complete, Entry, Out, Inductive, TypeOK, MoneyType

\* A failed one comes back.
LEMMA FailEntry ==
  ASSUME Inductive, NEW w \in Withdrawals, wd[w] # "NONE", Fail(w)
  PROVE  Entry
<1>1. CASE wd[w] = "FAILED"
  BY <1>1 DEF Fail, Entry, Out
<1>2. CASE wd[w] # "FAILED"
  <2>1. w \in Out
    BY <1>2 DEF Out, Inductive, TypeOK, MoneyType, WithdrawalStatus
  <2>2. Out' = Out \ {w} /\ balance' = balance + Amount[w] /\ earned' = earned
    BY <1>2 DEF Fail, Out, Inductive, TypeOK, MoneyType
  <2> QED BY <2>1, <2>2 DEF Entry
<1> QED BY <1>1, <1>2

\* Every step makes one entry at most.
LEMMA NextEntry == Inductive /\ [Next]_vars => Entry
<1> SUFFICES ASSUME Inductive, [Next]_vars PROVE Entry
  OBVIOUS
<1>1. CASE UNCHANGED <<balance, earned, wd>>
  BY <1>1 DEF Entry, Out
<1>2. ASSUME NEW p \in Procs, Start(p) PROVE Entry
  <2>1. ASSUME NEW w \in Withdrawals, Request(p, w) PROVE Entry
    <3>1. w \notin Out /\ Out' = Out \cup {w}
      BY <2>1 DEF Request, Out, Inductive, TypeOK, MoneyType
    <3> QED BY <2>1, <3>1 DEF Request, Entry
  <2> QED
    BY <1>1, <1>2, <2>1 DEF Start, StartSweep, Resume, ResumeReversal, ReconcileStuck, HookFailure, HookSuccess
<1>3. ASSUME NEW p \in Procs, ProcStep(p) PROVE Entry
  <2>1. CASE FinalizeCommit(p) \/ HookCommit(p)
    <3>1. job[p] \in Withdrawals
      BY <2>1 DEF FinalizeCommit, HookCommit, Inductive, ProcsOK, WithdrawalLabels
    <3> QED BY <2>1, <3>1, CompleteEntry DEF FinalizeCommit, HookCommit
  <2>2. CASE StuckSettle(p)
    <3>1. job[p] \in Withdrawals
      BY <2>2 DEF StuckSettle, Inductive, ProcsOK, WithdrawalLabels
    <3> QED BY <1>1, <2>2, <3>1, CompleteEntry DEF StuckSettle
  <2>3. CASE Reverse(p)
    <3>1. job[p] \in Withdrawals /\ wd[job[p]] # "NONE"
      BY <2>3 DEF Reverse, Inductive, ProcsOK, WithdrawalLabels, UntouchedOK
    <3> QED BY <1>1, <2>3, <3>1, FailEntry DEF Reverse
  <2>4. CASE Checkpoint(p)
    <3>1. UNCHANGED money
      BY <2>4 DEF Checkpoint, Inductive, ProcsOK, TypeOK, ProcsType, BankStatus
    <3> QED BY <1>1, <3>1
  <2>5. CASE Finalize(p)
    BY <1>1, <2>5 DEF Finalize, SweepOut
  <2>6. CASE UNCHANGED money
    BY <1>1, <2>6
  <2> QED
    BY <1>3, <2>1, <2>2, <2>3, <2>4, <2>5, <2>6
    DEF ProcStep, Known, ClaimBusy, Claim, RunOperation, SendKnown, SendOwns, Verify, Verified,
        Post, Posted, Persist, Release, Hook, Stuck, StuckVerify
<1>4. CASE Environment
  <2>1. CASE Credit
    <3>1. Out' = Out
      BY <2>1 DEF Credit, Out
    <3> QED BY <2>1, <3>1 DEF Credit, Entry
  <2> QED
    BY <1>1, <1>4, <2>1
    DEF Environment, Crash, Exception, PostLost, Expire, LatePost, BankSettles, HookSweep, SweepOut
<1>5. CASE UNCHANGED vars
  BY <1>1, <1>5 DEF vars
<1> QED BY <1>2, <1>3, <1>4, <1>5 DEF Next

\* Nothing is out at first but what an older release took.
LEMMA InitConservation == Init => Conservation
<1> SUFFICES ASSUME Init PROVE Conservation
  OBVIOUS
<1>1. {w \in Withdrawals : wd[w] \in {"PROCESSING", "PAID"}} = Legacy
  BY DEF Init
<1> QED BY <1>1 DEF Init, Conservation, Opening

\* An entry keeps the books, whichever withdrawals are out.
LEMMA EntryConservation ==
  ASSUME Inductive, Conservation, Entry
  PROVE  Conservation'
<1>1. /\ balance = earned - Total(Out) /\ balance \in Int /\ earned \in Int
      /\ Conservation' <=> balance' = earned' - Total(Out')
  BY DEF Conservation, Out, Inductive, TypeOK, MoneyType
<1>2. IsFiniteSet(Out) /\ Out \subseteq Withdrawals
  BY FS_Subset DEF Out
<1>3. Total(Out) \in Int
  BY <1>2, SumType DEF Total
<1>4. CASE UNCHANGED <<balance, earned>> /\ Out' = Out
  BY <1>1, <1>4
<1>5. CASE earned' = earned + 1 /\ balance' = balance + 1 /\ Out' = Out
  BY <1>1, <1>3, <1>5
<1>6. ASSUME NEW w \in Withdrawals \ Out, balance' = balance - Amount[w], earned' = earned,
             Out' = Out \cup {w}
      PROVE  Conservation'
  <2>1. Total(Out \cup {w}) = Total(Out) + Amount[w]
    BY <1>2, SumAdd DEF Total
  <2> QED BY <1>1, <1>3, <1>6, <2>1
<1>7. ASSUME NEW w \in Out, balance' = balance + Amount[w], earned' = earned, Out' = Out \ {w}
      PROVE  Conservation'
  <2>1. Total(Out) = Amount[w] + Total(Out \ {w})
    BY <1>2, SumElement DEF Total
  <2>2. Total(Out \ {w}) \in Int
    <3>1. IsFiniteSet(Out \ {w})
      BY <1>2, FS_Subset
    <3> QED BY <1>2, <3>1, SumType DEF Total
  <2> QED BY <1>1, <1>2, <1>7, <2>1, <2>2
<1> QED BY <1>4, <1>5, <1>6, <1>7 DEF Entry

\* No order of callbacks, retries and crashes creates or loses a kobo: the balance is
\* what was earned less what is out, for any amounts and any number of withdrawals.
THEOREM BalanceConserved == Spec => []Conservation
  BY InitConservation, NextEntry, EntryConservation, InductiveInvariant, PTL DEF Spec

-----------------------------------------------------------------------------
(* The dispatch lease.                                                     *)

\* A step of a process keeps every claimed lease its owner's.
LEMMA LeaseProc ==
  ASSUME TypeOK, ProcsOK, LeaseOK, NEW p \in Procs, Start(p) \/ ProcStep(p)
  PROVE  LeaseOK'
<1> USE DEF TypeOK, RowsType, ProcsType, ProcsOK, LeaseOK
<1>1. CASE Start(p)
  <2>1. PICK label, t, evidence : label \in Labels \ {"post"} /\ Begin(p, label, t, evidence)
    BY <1>1 DEF Start, Request, StartSweep, Resume, ResumeReversal, ReconcileStuck, HookFailure,
       HookSuccess, Labels
  <2>2. UNCHANGED <<lease, faults>>
    BY <1>1 DEF Start, Request, StartSweep, Resume, ResumeReversal, ReconcileStuck, HookFailure,
       HookSuccess
  <2> QED BY <2>1, <2>2 DEF Begin
<1>2. CASE Claim(p)
  BY <1>2 DEF Claim
<1>3. CASE Release(p)
  BY <1>3 DEF Release, Done
<1>4. CASE SendOwns(p, "sendOwns", "verify") \/ SendOwns(p, "reowns", "post")
  BY <1>4 DEF SendOwns, Owns, Goto, GotoWith
<1>5. CASE \/ Known(p) \/ ClaimBusy(p) \/ RunOperation(p) \/ Verify(p) \/ Verified(p)
           \/ Post(p) \/ Posted(p) \/ Persist(p) \/ Checkpoint(p)
  BY <1>5 DEF Known, ClaimBusy, RunOperation, Verify, Verified, Post, Posted, Persist, Checkpoint,
     Goto, GotoWith, Done
<1>6. CASE \/ Finalize(p) \/ FinalizeCommit(p) \/ Reverse(p) \/ Hook(p) \/ HookCommit(p)
           \/ StuckVerify(p) \/ StuckSettle(p)
  BY <1>6 DEF Finalize, FinalizeCommit, Reverse, Hook, HookCommit, StuckVerify, StuckSettle,
     Goto, GotoWith, Done
<1>7. CASE \/ SendKnown(p, "sendKnown", "sendOwns") \/ SendKnown(p, "reknown", "reowns")
           \/ Stuck(p, "stuck", "stuckVerify") \/ Stuck(p, "stuckVerified", "stuckSettle")
  BY <1>7 DEF SendKnown, Stuck, Goto, GotoWith, Done
<1> QED BY <1>1, <1>2, <1>3, <1>4, <1>5, <1>6, <1>7 DEF ProcStep

\* So does every step.
LEMMA LeaseNext == Inductive /\ LeaseOK /\ [Next]_vars => LeaseOK'
<1> SUFFICES ASSUME TypeOK, ProcsOK, LeaseOK, [Next]_vars PROVE LeaseOK'
  BY DEF Inductive
<1>1. CASE \E p \in Procs : Start(p) \/ ProcStep(p)
  BY <1>1, LeaseProc
<1>2. CASE Environment
  <2> USE DEF TypeOK, RowsType, ProcsType, ProcsOK, LeaseOK
  <2>1. ASSUME NEW p \in Procs, Crash(p) \/ Exception(p) \/ PostLost(p) PROVE LeaseOK'
    BY <2>1 DEF Crash, Exception, PostLost, Fault, Done, Goto, GotoWith
  <2>2. ASSUME NEW t \in Transfers, Expire(t) PROVE LeaseOK'
    BY <2>2 DEF Expire, Fault
  <2>3. CASE UNCHANGED <<lease, procs, faults>>
    BY <2>3
  <2> QED
    BY <1>2, <2>1, <2>2, <2>3 DEF Environment, Credit, LatePost, BankSettles, HookSweep
<1>3. CASE UNCHANGED vars
  BY <1>3 DEF vars, LeaseOK
<1> QED BY <1>1, <1>2, <1>3 DEF Next

\* While no process crashes or outlasts its lease, at most one is about to send.
THEOREM SingleDispatcher == Spec => []OneDispatcher
<1>1. Init => LeaseOK
  BY DEF Init, LeaseOK
<1>2. LeaseOK => OneDispatcher
  BY DEF LeaseOK, OneDispatcher
<1> QED BY <1>1, <1>2, LeaseNext, InductiveInvariant, PTL DEF Spec

-----------------------------------------------------------------------------
(* Refinement.                                                             *)

\* A step that leaves the wallet, the withdrawals and the callbacks is a stutter.
LEMMA StutterRefines ==
  ASSUME UNCHANGED <<balance, wd, events>>
  PROVE  UNCHANGED Promise!vars
  BY DEF Promise!vars, Told

\* completeWithdrawal on the bank's word is Pay, or changes nothing.
LEMMA CompleteRefines ==
  ASSUME Inductive, NEW w \in Withdrawals, <<w, "success">> \in events, Complete(w),
         UNCHANGED events
  PROVE  [Promise!Next]_(Promise!vars)
<1>1. CASE wd[w] = "PROCESSING"
  <2>1. Promise!Pay(w)
    BY <1>1 DEF Promise!Pay, Complete, Told
  <2> QED BY <2>1 DEF Promise!Next
<1>2. CASE wd[w] # "PROCESSING"
  BY <1>2, StutterRefines DEF Complete
<1> QED BY <1>1, <1>2

\* A transfer request is, at most, one new report of the bank.
LEMMA BankAcceptRefines ==
  ASSUME Inductive, NEW t \in Transfers, NEW outcome \in {"pending"} \cup Final,
         BankAccept(t, outcome), UNCHANGED <<balance, wd>>
  PROVE  [Promise!Next]_(Promise!vars)
<1>1. CASE events' = events
  BY <1>1, StutterRefines
<1>2. CASE events' = events \cup {<<t, outcome>>} /\ outcome \in Final /\ bank[t] = "unknown"
  <2>1. CASE t \in Withdrawals
    <3>1. "failed" \notin Told[t]
      BY <1>2, <2>1 DEF Inductive, EvidenceOK, Told
    <3>2. Told' = [Told EXCEPT ![t] = @ \cup {outcome}]
      BY <1>2, <2>1 DEF Told
    <3>3. Promise!Report(t, outcome)
      BY <3>1, <3>2 DEF Promise!Report
    <3> QED BY <1>2, <2>1, <3>3 DEF Promise!Next
  <2>2. CASE t \notin Withdrawals
    <3>1. Told' = Told
      BY <1>2, <2>2 DEF Told
    <3> QED BY <3>1 DEF Promise!vars
  <2> QED BY <2>1, <2>2
<1> QED BY <1>1, <1>2 DEF BankAccept

\* The initial states are initial states of the promise.
LEMMA InitRefines == Init => Promise!Init
  BY DEF Init, Promise!Init, Told

\* Every step of the protocol is a step of the promise, or a stutter.
LEMMA NextRefines == Inductive /\ [Next]_vars => [Promise!Next]_(Promise!vars)
<1> SUFFICES ASSUME Inductive, [Next]_vars PROVE [Promise!Next]_(Promise!vars)
  OBVIOUS
<1>1. ASSUME NEW p \in Procs, Start(p) PROVE [Promise!Next]_(Promise!vars)
  <2>1. ASSUME NEW w \in Withdrawals, Request(p, w) PROVE [Promise!Next]_(Promise!vars)
    <3>1. Promise!Take(w)
      BY <2>1 DEF Request, Promise!Take, Told
    <3> QED BY <3>1 DEF Promise!Next
  <2>2. CASE UNCHANGED <<money, world>>
    BY <2>2, StutterRefines
  <2> QED
    BY <1>1, <2>1, <2>2 DEF Start, StartSweep, Resume, ResumeReversal, ReconcileStuck, HookFailure, HookSuccess
<1>2. ASSUME NEW p \in Procs, ProcStep(p) PROVE [Promise!Next]_(Promise!vars)
  <2>1. CASE FinalizeCommit(p)
    <3>1. job[p] \in Withdrawals /\ <<job[p], "success">> \in events
      BY <2>1 DEF FinalizeCommit, Inductive, ProcsOK, WithdrawalLabels, LocksOK, EvidenceOK
    <3> QED BY <2>1, <3>1, CompleteRefines DEF FinalizeCommit
  <2>2. CASE HookCommit(p)
    <3>1. job[p] \in Withdrawals /\ <<job[p], "success">> \in events
      BY <2>2 DEF HookCommit, Inductive, ProcsOK, WithdrawalLabels, EvidenceOK
    <3> QED BY <2>2, <3>1, CompleteRefines DEF HookCommit
  <2>3. CASE StuckSettle(p)
    <3>1. CASE ev[p] = "success" /\ Complete(job[p])
      <4>1. job[p] \in Withdrawals /\ <<job[p], "success">> \in events
        BY <2>3, <3>1 DEF StuckSettle, Inductive, ProcsOK, WithdrawalLabels, EvidenceOK
      <4> QED BY <2>3, <3>1, <4>1, CompleteRefines DEF StuckSettle
    <3>2. CASE UNCHANGED money
      BY <2>3, <3>2, StutterRefines DEF StuckSettle
    <3> QED BY <2>3, <3>1, <3>2 DEF StuckSettle
  <2>4. CASE Reverse(p)
    <3>1. job[p] \in Withdrawals /\ "failed" \in Told[job[p]]
      BY <2>4 DEF Reverse, Inductive, ProcsOK, WithdrawalLabels, EvidenceOK, Told
    <3>2. CASE Fail(job[p]) /\ FailFits(job[p]) /\ wd[job[p]] # "FAILED"
      <4>1. wd[job[p]] \in {"PROCESSING", "PAID"}
        BY <2>4, <3>1, <3>2 DEF Reverse, Inductive, TypeOK, MoneyType, WithdrawalStatus, ProcsOK, UntouchedOK
      <4>2. UNCHANGED Told
        BY <2>4 DEF Reverse, Told
      <4>3. Promise!Return(job[p])
        BY <3>1, <3>2, <4>1, <4>2 DEF Fail, FailFits, Promise!Return
      <4> QED BY <3>1, <4>3 DEF Promise!Next
    <3>3. CASE UNCHANGED money
      BY <2>4, <3>3, StutterRefines DEF Reverse
    <3> QED BY <2>4, <3>2, <3>3 DEF Reverse, Fail
  <2>5. CASE Post(p)
    <3>1. job[p] \in Transfers
      BY <2>5 DEF Post, Inductive, ProcsOK
    <3> QED BY <2>5, <3>1, BankAcceptRefines DEF Post
  <2>6. CASE Checkpoint(p)
    <3>1. UNCHANGED money
      BY <2>6 DEF Checkpoint, Inductive, ProcsOK, TypeOK, ProcsType, BankStatus
    <3> QED BY <2>6, <3>1, StutterRefines DEF Checkpoint
  <2>7. CASE Finalize(p)
    BY <2>7, StutterRefines DEF Finalize, SweepOut
  <2>8. CASE UNCHANGED <<money, world>>
    BY <2>8, StutterRefines
  <2> QED
    BY <1>2, <2>1, <2>2, <2>3, <2>4, <2>5, <2>6, <2>7, <2>8
    DEF ProcStep, Known, ClaimBusy, Claim, RunOperation, SendKnown, SendOwns, Verify, Verified,
        Posted, Persist, Release, Hook, Stuck, StuckVerify
<1>3. CASE Environment
  <2>1. CASE Credit
    <3>1. Promise!Earn
      BY <2>1 DEF Credit, Promise!Earn, Told
    <3> QED BY <3>1 DEF Promise!Next
  <2>2. ASSUME NEW p \in Procs, Crash(p) \/ Exception(p) PROVE [Promise!Next]_(Promise!vars)
    BY <2>2, StutterRefines DEF Crash, Exception
  <2>3. ASSUME NEW p \in Procs, PostLost(p) PROVE [Promise!Next]_(Promise!vars)
    <3>1. job[p] \in Transfers
      BY <2>3 DEF PostLost, Inductive, ProcsOK
    <3>2. CASE UNCHANGED events
      BY <2>3, <3>2, StutterRefines DEF PostLost
    <3>3. CASE \E outcome \in {"pending"} \cup Final : BankAccept(job[p], outcome)
      BY <2>3, <3>1, <3>3, BankAcceptRefines DEF PostLost
    <3> QED BY <2>3, <3>2, <3>3 DEF PostLost
  <2>4. ASSUME NEW t \in Transfers, Expire(t) PROVE [Promise!Next]_(Promise!vars)
    BY <2>4, StutterRefines DEF Expire
  <2>5. ASSUME NEW t \in Transfers, LatePost(t) PROVE [Promise!Next]_(Promise!vars)
    BY <2>5, BankAcceptRefines DEF LatePost
  <2>6. ASSUME NEW t \in Transfers, NEW outcome \in Final, BankSettles(t, outcome)
        PROVE  [Promise!Next]_(Promise!vars)
    <3>1. events' = events \cup {<<t, outcome>>} /\ UNCHANGED <<balance, wd>> /\ bank[t] # "failed"
      BY <2>6 DEF BankSettles
    <3>2. CASE t \in Withdrawals
      <4>1. "failed" \notin Told[t]
        BY <3>1, <3>2 DEF Inductive, EvidenceOK, Told
      <4>2. Told' = [Told EXCEPT ![t] = @ \cup {outcome}]
        BY <2>6, <3>1, <3>2 DEF Told
      <4>3. Promise!Report(t, outcome)
        BY <3>1, <4>1, <4>2 DEF Promise!Report
      <4> QED BY <2>6, <3>2, <4>3 DEF Promise!Next
    <3>3. CASE t \notin Withdrawals
      <4>1. Told' = Told
        BY <3>1, <3>3 DEF Told
      <4> QED BY <3>1, <4>1 DEF Promise!vars
    <3> QED BY <3>2, <3>3
  <2>7. ASSUME NEW t \in Sweeps, NEW outcome \in Final, HookSweep(t, outcome)
        PROVE  [Promise!Next]_(Promise!vars)
    BY <2>7, StutterRefines DEF HookSweep, SweepOut
  <2> QED BY <1>3, <2>1, <2>2, <2>3, <2>4, <2>5, <2>6, <2>7 DEF Environment
<1>4. CASE UNCHANGED vars
  BY <1>4, StutterRefines DEF vars
<1> QED BY <1>1, <1>2, <1>3, <1>4 DEF Next

\* The dispatch protocol implements the promise of a withdrawal.
THEOREM DispatchImplementsWithdrawal == Spec => ImplementsWithdrawal
  BY InitRefines, NextRefines, InductiveInvariant, PTL DEF Spec, ImplementsWithdrawal, Promise!Spec

=============================================================================
