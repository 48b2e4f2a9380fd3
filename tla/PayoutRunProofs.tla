--------------------------- MODULE PayoutRunProofs --------------------------
(***************************************************************************)
(* Proofs about PayoutRun, for any number of wallets, periods, admins,     *)
(* executions side by side and faults: its inductive invariant, one lemma  *)
(* per action, and the refinement of Payroll.                              *)
(***************************************************************************)
EXTENDS PayoutRun, SumProofs, TLAPS

USE PayoutAssumption DEF wallets, runs, payouts, procs

-----------------------------------------------------------------------------
(* Lemmas about the sums and the lists.                                    *)

\* What a run holds of a wallet is some kobo,
LEMMA HeldNat ==
  ASSUME PayoutsType, NEW w \in Wallets
  PROVE  \A p \in Periods : Held(w)[p] \in Nat
  BY DEF PayoutsType, Held

\* so what all runs hold of it is too,
LEMMA OutstandingNat ==
  ASSUME PayoutsType, NEW w \in Wallets
  PROVE  Outstanding(w) \in Nat
<1>1. \A p \in Periods : Held(w)[p] \in Nat
  BY HeldNat
<1> HIDE DEF Held
<1> QED BY <1>1, SumNat DEF Outstanding

\* and when one run holds k kobo more, so do all of them together.
LEMMA OutstandingStep ==
  ASSUME PayoutsType, NEW w \in Wallets, NEW p \in Periods, NEW k \in Int,
         Held(w)[p] + k \in Nat, Held(w)'[p] = Held(w)[p] + k,
         \A o \in Periods \ {p} : Held(w)'[o] = Held(w)[o]
  PROVE  Outstanding(w)' = Outstanding(w) + k /\ Outstanding(w)' \in Nat
<1>1. \A o \in Periods : Held(w)[o] \in Nat /\ Held(w)'[o] \in Nat
  BY HeldNat
<1>2. PICK f, e : f = Held(w) /\ e = Held(w)'
  OBVIOUS
<1>3. IsFiniteSet(Periods) /\ \A o \in Periods : f[o] \in Nat /\ e[o] \in Nat
  BY <1>1, <1>2
<1>4. \A o \in Periods \ {p} : f[o] = e[o]
  BY <1>2
<1>5. /\ SumFunctionOnSet(f, Periods) \in Nat /\ SumFunctionOnSet(e, Periods) \in Nat
      /\ SumFunctionOnSet(e, Periods) = SumFunctionOnSet(f, Periods) + e[p] - f[p]
  BY ONLY <1>3, <1>4, SumStep, p \in Periods
<1>6. Outstanding(w) = SumFunctionOnSet(f, Periods) /\ Outstanding(w)' = SumFunctionOnSet(e, Periods)
  BY <1>2 DEF Outstanding
<1> QED BY <1>1, <1>2, <1>5, <1>6

\* The sums depend on the withdrawals only.
LEMMA OutstandingFrame ==
  ASSUME UNCHANGED <<made, wd>>, NEW w
  PROVE  Outstanding(w)' = Outstanding(w)
  BY DEF Outstanding, Held

\* A list is a function on some wallets.
LEMMA ListDomain ==
  ASSUME NEW list \in Lists
  PROVE  /\ DOMAIN list \subseteq Wallets /\ list = [w \in DOMAIN list |-> list[w]]
         /\ \A w \in DOMAIN list : list[w] \in Line /\ list[w].amount \in 1..MaxEarned
  BY DEF Lists, Line

\* Of lines, a list is made.
LEMMA ListIntro ==
  ASSUME NEW S \in SUBSET Wallets, NEW list \in [S -> Line]
  PROVE  list \in Lists
  BY DEF Lists

LEMMA EmptyListType == EmptyList \in Lists
<1>1. EmptyList \in [{} -> Line]
  BY DEF EmptyList
<1> QED BY <1>1, ListIntro

\* The lists a run is built of.
LEMMA PayableType ==
  ASSUME TypeOK
  PROVE  payableLines \in Lists
<1> DEFINE S == {x \in Wallets : Payable(x)}
<1>1. \A w \in S : balance[w] \in 1..MaxEarned /\ account[w] \in Banks
  BY DEF Payable, TypeOK, WalletsType
<1>2. \A w \in S : [amount |-> balance[w], bank |-> account[w]] \in Line
  BY <1>1 DEF Line
<1>3. payableLines \in [S -> Line]
  BY <1>2 DEF payableLines
<1> QED BY <1>3, ListIntro
-----------------------------------------------------------------------------
(* What a step that leaves some variables alone leaves true.               *)

\* The parts of the invariant about runs,
LEMMA RunsFrame ==
  ASSUME Inductive, UNCHANGED <<runs, payouts, procs>>
  PROVE  /\ OneOpenRun' /\ FourEyes' /\ ExecutedIsComplete'
         /\ TakenAsApproved' /\ ExecutionsOK' /\ MakerReviewed'
<1>1. OneOpenRun' /\ FourEyes' /\ MakerReviewed'
  BY DEF Inductive, TakenOnce, OneOpenRun, FourEyes, MakerReviewed
<1>2. ExecutedIsComplete' /\ TakenAsApproved' /\ ExecutionsOK'
  BY DEF Inductive, ExecutedIsComplete, TakenAsApproved, ExecutionsOK, Exists
<1> QED BY <1>1, <1>2

\* and the parts about money.
LEMMA MoneyFrame ==
  ASSUME Inductive, UNCHANGED <<wallets, made, wd>>
  PROVE  BooksAgree' /\ WalletsType'
<1>1. BooksAgree'
  BY OutstandingFrame DEF Inductive, TakenOnce, BooksAgree
<1> QED BY <1>1 DEF Inductive, TakenOnce, TypeOK, WalletsType

\* An execution is undisturbed by whatever keeps its run approved and undoes no withdrawal.
LEMMA ExecutionsFrame ==
  ASSUME Inductive, UNCHANGED <<lines, procs>>,
         \A p \in Periods : status[p] \in Approved => status'[p] \in Approved,
         \A p \in Periods, w \in Wallets : wd[p][w] # "NONE" => wd'[p][w] # "NONE"
  PROVE  ExecutionsOK'
<1> USE DEF Inductive, TakenOnce, TypeOK
<1>1. \A p \in Periods : DOMAIN lines[p] \subseteq Wallets
  BY ListDomain DEF RunsType
<1>2. \A q \in Procs : run[q] # None => run[q] \in Periods
  BY DEF PayoutsType
<1>3. SUFFICES ASSUME NEW q \in Procs, run'[q] # None
               PROVE  /\ status'[run[q]] \in Approved
                      /\ DOMAIN todo[q] \subseteq DOMAIN lines[run[q]]
                      /\ \A w \in DOMAIN todo[q] : todo[q][w] = lines[run[q]][w]
                      /\ \A w \in DOMAIN lines[run[q]] \ DOMAIN todo[q] :
                           wd'[run[q]][w] # "NONE" \/ w \in notSent[q]
  BY DEF ExecutionsOK, Exists
<1>4. run[q] # None
  BY <1>3
<1>5. /\ status[run[q]] \in Approved
      /\ DOMAIN todo[q] \subseteq DOMAIN lines[run[q]]
      /\ \A w \in DOMAIN todo[q] : todo[q][w] = lines[run[q]][w]
      /\ \A w \in DOMAIN lines[run[q]] \ DOMAIN todo[q] :
           wd[run[q]][w] # "NONE" \/ w \in notSent[q]
  BY <1>4 DEF ExecutionsOK, Exists
<1> QED BY <1>1, <1>2, <1>4, <1>5

-----------------------------------------------------------------------------
(* Every action preserves the invariant.                                   *)

\* A credit keeps the books, and no balance exceeds what was earned.
LEMMA CreditStep ==
  ASSUME Inductive, NEW w \in Wallets, Credit(w)
  PROVE  Inductive'
<1> USE DEF Inductive, TakenOnce, TypeOK
<1>1. PICK k \in Credits : /\ earned[w] + k <= MaxEarned
                           /\ earned' = [earned EXCEPT ![w] = @ + k]
                           /\ balance' = [balance EXCEPT ![w] = @ + k]
  BY DEF Credit
<1>2. UNCHANGED <<own, user, account, recipients, runs, seen, payouts, procs, faults>>
  BY DEF Credit
<1>3. BooksAgree'
  <2>1. \A x \in Wallets : Outstanding(x)' = Outstanding(x) /\ Outstanding(x) \in Nat
    BY <1>2, OutstandingFrame, OutstandingNat
  <2> QED BY <1>1, <1>2, <2>1 DEF BooksAgree, WalletsType
<1>4. WalletsType'
  <2>1. balance[w] <= earned[w]
    <3>1. Outstanding(w) \in Nat
      BY OutstandingNat
    <3> QED BY <3>1 DEF BooksAgree, WalletsType
  <2> QED BY <1>1, <1>2, <2>1 DEF WalletsType
<1>5. RunsType' /\ PayoutsType'
  BY <1>2 DEF RunsType, PayoutsType
<1> QED BY <1>2, <1>3, <1>4, <1>5, RunsFrame

\* A withdrawal on request leaves the wallet and enters the books,
LEMMA WithdrawOwnStep ==
  ASSUME Inductive, NEW w \in Wallets, WithdrawOwn(w)
  PROVE  Inductive'
<1> USE DEF Inductive, TakenOnce, TypeOK
<1>1. PICK k \in Credits : /\ balance[w] >= k
                           /\ balance' = [balance EXCEPT ![w] = @ - k]
                           /\ own' = [own EXCEPT ![w] = @ + k]
  BY DEF WithdrawOwn
<1>2. UNCHANGED <<earned, user, account, recipients, runs, seen, payouts, procs, faults>>
  BY DEF WithdrawOwn
<1>3. BooksAgree'
  <2>1. \A x \in Wallets : Outstanding(x)' = Outstanding(x) /\ Outstanding(x) \in Nat
    BY <1>2, OutstandingFrame, OutstandingNat
  <2> QED BY <1>1, <1>2, <2>1 DEF BooksAgree, WalletsType
<1>4. WalletsType'
  <2>1. k \in Nat /\ balance[w] \in 0..MaxEarned /\ own[w] \in Nat
    BY <1>1 DEF WalletsType
  <2>2. balance[w] - k \in 0..MaxEarned /\ own[w] + k \in Nat
    BY <1>1, <2>1
  <2> QED BY <1>1, <1>2, <2>2 DEF WalletsType
<1>5. RunsType' /\ PayoutsType'
  BY <1>2 DEF RunsType, PayoutsType
<1> QED BY <1>2, <1>3, <1>4, <1>5, RunsFrame

\* and what else the owner or an administrator does moves no money.
LEMMA OwnerStep ==
  ASSUME Inductive, NEW w \in Wallets, ChooseAccount(w) \/ ChangeStatus(w)
  PROVE  Inductive'
<1> USE DEF Inductive, TakenOnce, TypeOK
<1>1. UNCHANGED <<balance, earned, own, runs, seen, payouts, procs, faults>>
  BY DEF ChooseAccount, ChangeStatus
<1>2. BooksAgree'
  BY <1>1, OutstandingFrame DEF BooksAgree
<1>3. WalletsType'
  BY DEF ChooseAccount, ChangeStatus, WalletsType, UserStatus
<1>4. RunsType' /\ PayoutsType'
  BY <1>1 DEF RunsType, PayoutsType
<1> QED BY <1>1, <1>2, <1>3, <1>4, RunsFrame

\* Neither midnight nor a look at a run changes anything the invariant is about.
LEMMA LookStep ==
  ASSUME Inductive, Tomorrow \/ \E a \in Admins, p \in Periods : ViewRun(a, p)
  PROVE  Inductive'
<1> USE DEF Inductive, TakenOnce, TypeOK
<1>1. UNCHANGED <<wallets, runs, payouts, procs, faults>>
  BY DEF Tomorrow, ViewRun
<1>2. RunsType' /\ PayoutsType'
  BY <1>1 DEF RunsType, PayoutsType
<1> QED BY <1>1, <1>2, MoneyFrame, RunsFrame

\* A run is built beside no other, of the balances as they are.
LEMMA BuildStep ==
  ASSUME Inductive, NEW p \in Periods, buildPayoutRun(p)
  PROVE  Inductive'
<1> USE DEF Inductive, TakenOnce, TypeOK
<1>1. /\ status' = [o \in Periods |-> IF o = p THEN "DRAFT"
                                      ELSE IF status[o] = "DRAFT" THEN "CANCELLED" ELSE status[o]]
      /\ status[p] \in {"NONE", "DRAFT"}
      /\ \A o \in Periods \ {p} : status[o] \notin {"AWAITING_APPROVAL", "APPROVED"}
      /\ lines' = [lines EXCEPT ![p] = payableLines]
      /\ UNCHANGED <<wallets, maker, checker, skipped, reviewed, seen, payouts, procs, faults>>
  BY DEF buildPayoutRun
<1>2. RunsType' /\ PayoutsType'
  BY <1>1, PayableType DEF RunsType, PayoutsType, RunStatus
<1>3. OneOpenRun' /\ FourEyes' /\ MakerReviewed'
  BY <1>1 DEF OneOpenRun, Open, FourEyes, Approved, MakerReviewed, RunsType
<1>4. ExecutedIsComplete' /\ TakenAsApproved'
  BY <1>1 DEF ExecutedIsComplete, TakenAsApproved, Exists, Approved, RunsType
<1>5. ExecutionsOK'
  BY <1>1 DEF ExecutionsOK, Exists, Approved, RunsType, PayoutsType
<1> QED BY <1>1, <1>2, <1>3, <1>4, <1>5, MoneyFrame

\* The steps of its review leave its lines alone,
LEMMA ReviewStep ==
  ASSUME Inductive, NEW p \in Periods,
         \/ rejectPayoutRun(p) \/ cancelPayoutRun(p)
         \/ \E a \in Admins : submitPayoutRun(a, p)
  PROVE  Inductive'
<1> USE DEF Inductive, TakenOnce, TypeOK
<1>1. /\ \/ status[p] = "AWAITING_APPROVAL" /\ status' = [status EXCEPT ![p] = "DRAFT"]
         \/ status[p] = "DRAFT" /\ status' = [status EXCEPT ![p] = "CANCELLED"]
         \/ status[p] = "DRAFT" /\ status' = [status EXCEPT ![p] = "AWAITING_APPROVAL"]
      /\ UNCHANGED <<wallets, lines, checker, skipped, seen, payouts, procs, faults>>
  BY DEF rejectPayoutRun, cancelPayoutRun, submitPayoutRun
<1>2. reviewed' \in [Periods -> [Admins -> Lists \cup {None}]]
  <2>1. CASE \E a \in Admins : submitPayoutRun(a, p)
    <3>1. PICK a \in Admins : submitPayoutRun(a, p)
      BY <2>1
    <3>2. seen[a].list \in Lists
      BY <3>1 DEF submitPayoutRun, assertHash, RunsType
    <3>3. [NobodyYet EXCEPT ![a] = seen[a].list] \in [Admins -> Lists \cup {None}]
      BY <3>2 DEF NobodyYet
    <3> QED BY <3>1, <3>3 DEF submitPayoutRun, RunsType
  <2>2. CASE rejectPayoutRun(p) \/ cancelPayoutRun(p)
    BY <2>2 DEF rejectPayoutRun, cancelPayoutRun, RunsType
  <2> QED BY <2>1, <2>2
<1>7. RunsType' /\ PayoutsType'
  <2>1. maker' \in [Periods -> Admins \cup {None}]
    BY DEF RunsType, rejectPayoutRun, cancelPayoutRun, submitPayoutRun
  <2> QED BY <1>1, <1>2, <2>1 DEF RunsType, PayoutsType, RunStatus
<1>3. OneOpenRun'
  BY <1>1 DEF OneOpenRun, Open, RunsType
<1>4. FourEyes' /\ MakerReviewed'
  BY DEF FourEyes, Approved, MakerReviewed, RunsType, rejectPayoutRun, cancelPayoutRun,
     submitPayoutRun, assertHash, NobodyYet
<1>5. ExecutedIsComplete' /\ TakenAsApproved'
  BY <1>1 DEF ExecutedIsComplete, TakenAsApproved, Exists, Approved, RunsType
<1>6. ExecutionsOK'
  <2>1. \A o \in Periods : status[o] \in Approved => status'[o] \in Approved
    BY <1>1 DEF Approved, RunsType
  <2> QED BY <1>1, <2>1, ExecutionsFrame
<1> QED BY <1>1, <1>2, <1>3, <1>4, <1>5, <1>6, <1>7, MoneyFrame

\* and so does its approval, by another administrator than its maker.
LEMMA ApproveStep ==
  ASSUME Inductive, NEW p \in Periods, NEW a \in Admins, approvePayoutRun(a, p)
  PROVE  Inductive'
<1> USE DEF Inductive, TakenOnce, TypeOK
<1>1. /\ status[p] = "AWAITING_APPROVAL" /\ status' = [status EXCEPT ![p] = "APPROVED"]
      /\ UNCHANGED <<wallets, lines, maker, skipped, seen, payouts, procs, faults>>
      /\ maker[p] \notin {None, a} /\ checker' = [checker EXCEPT ![p] = a]
  BY DEF approvePayoutRun
<1>2. RunsType' /\ PayoutsType'
  <2>1. seen[a].list \in Lists /\ reviewed' = [reviewed EXCEPT ![p][a] = seen[a].list]
    BY DEF approvePayoutRun, assertHash, RunsType
  <2> QED BY <1>1, <2>1 DEF RunsType, PayoutsType, RunStatus
<1>3. OneOpenRun'
  BY <1>1 DEF OneOpenRun, Open, RunsType
<1>4. MakerReviewed'
  BY <1>1 DEF MakerReviewed, RunsType, approvePayoutRun
<1>5. FourEyes'
  <2>1. /\ \A o \in Periods \ {p} : reviewed'[o] = reviewed[o]
        /\ reviewed'[p][a] = lines[p]
        /\ reviewed'[p][maker[p]] = reviewed[p][maker[p]]
    BY <1>1 DEF approvePayoutRun, assertHash, RunsType, MakerReviewed
  <2>2. maker[p] \in Admins /\ reviewed[p][maker[p]] = lines[p]
    BY <1>1 DEF RunsType, MakerReviewed
  <2> QED BY <1>1, <2>1, <2>2 DEF FourEyes, Approved, RunsType
<1>6. ExecutedIsComplete' /\ TakenAsApproved'
  BY <1>1 DEF ExecutedIsComplete, TakenAsApproved, Exists, Approved, RunsType
<1>7. ExecutionsOK'
  BY <1>1 DEF ExecutionsOK, Exists, Approved, RunsType, PayoutsType
<1> QED BY <1>1, <1>2, <1>3, <1>4, <1>5, <1>6, <1>7, MoneyFrame

\* An execution starts with all lines of an approved run before it,
LEMMA ExecuteStep ==
  ASSUME Inductive, NEW p \in Periods, NEW q \in Procs, executePayoutRun(q, p)
  PROVE  Inductive'
<1> USE DEF Inductive, TakenOnce, TypeOK
<1>1. /\ run[q] = None /\ status[p] = "APPROVED"
      /\ run' = [run EXCEPT ![q] = p] /\ todo' = [todo EXCEPT ![q] = lines[p]]
      /\ notSent' = [notSent EXCEPT ![q] = {}]
      /\ UNCHANGED <<wallets, runs, seen, payouts, faults>>
  BY DEF executePayoutRun
<1>2. RunsType' /\ PayoutsType'
  BY <1>1 DEF RunsType, PayoutsType
<1>3. OneOpenRun' /\ FourEyes' /\ MakerReviewed'
  BY <1>1 DEF OneOpenRun, FourEyes, MakerReviewed
<1>4. ExecutedIsComplete' /\ TakenAsApproved'
  BY <1>1 DEF ExecutedIsComplete, TakenAsApproved, Exists
<1>5. ExecutionsOK'
  BY <1>1 DEF ExecutionsOK, Exists, Approved, RunsType, PayoutsType
<1> QED BY <1>1, <1>2, <1>3, <1>4, <1>5, MoneyFrame

\* breaks off with nothing it forgot counted as done,
LEMMA AbortStep ==
  ASSUME Inductive, NEW q \in Procs, Abort(q)
  PROVE  Inductive'
<1> USE DEF Inductive, TakenOnce, TypeOK
<1>1. /\ run' = [run EXCEPT ![q] = None] /\ todo' = [todo EXCEPT ![q] = EmptyList]
      /\ notSent' = [notSent EXCEPT ![q] = {}] /\ faults' = faults + 1
      /\ UNCHANGED <<wallets, runs, seen, payouts>>
  BY DEF Abort
<1>2. RunsType' /\ PayoutsType'
  BY <1>1, EmptyListType DEF RunsType, PayoutsType
<1>3. OneOpenRun' /\ FourEyes' /\ MakerReviewed'
  BY <1>1 DEF OneOpenRun, FourEyes, MakerReviewed
<1>4. ExecutedIsComplete' /\ TakenAsApproved'
  BY <1>1 DEF ExecutedIsComplete, TakenAsApproved, Exists
<1>5. ExecutionsOK'
  BY <1>1 DEF ExecutionsOK, Exists, PayoutsType
<1> QED BY <1>1, <1>2, <1>3, <1>4, <1>5, MoneyFrame

\* or marks its run when no line is left.
LEMMA MarkExecutedStep ==
  ASSUME Inductive, NEW q \in Procs, MarkExecuted(q)
  PROVE  Inductive'
<1> USE DEF Inductive, TakenOnce, TypeOK
<1>1. /\ run[q] # None /\ DOMAIN todo[q] = {}
      /\ status' = [status EXCEPT ![run[q]] = "EXECUTED"]
      /\ skipped' = IF status[run[q]] = "EXECUTED" THEN skipped
                    ELSE [skipped EXCEPT ![run[q]] = notSent[q]]
      /\ run' = [run EXCEPT ![q] = None] /\ notSent' = [notSent EXCEPT ![q] = {}]
      /\ UNCHANGED <<wallets, lines, maker, checker, reviewed, seen, payouts, todo, faults>>
  BY DEF MarkExecuted
<1>2. run[q] \in Periods /\ status[run[q]] \in Approved
  BY <1>1 DEF PayoutsType, ExecutionsOK
<1>3. RunsType' /\ PayoutsType'
  BY <1>1, <1>2 DEF RunsType, PayoutsType, RunStatus
<1>4. OneOpenRun' /\ FourEyes' /\ MakerReviewed'
  BY <1>1, <1>2 DEF OneOpenRun, Open, FourEyes, MakerReviewed, Approved, RunsType
<1>5. ExecutedIsComplete'
  <2>1. \A w \in DOMAIN lines[run[q]] : Exists(run[q], w) \/ w \in notSent[q]
    BY <1>1 DEF ExecutionsOK
  <2> QED BY <1>1, <1>2, <2>1 DEF ExecutedIsComplete, Exists, RunsType
<1>6. \A p \in Periods : status[p] \in Approved => status'[p] \in Approved
  BY <1>1, <1>2 DEF Approved, RunsType
<1>7. TakenAsApproved'
  BY <1>1, <1>6 DEF TakenAsApproved, Exists
<1>8. ExecutionsOK'
  <2> SUFFICES ASSUME NEW o \in Procs, run'[o] # None
               PROVE  /\ status'[run'[o]] \in Approved
                      /\ DOMAIN todo'[o] \subseteq DOMAIN lines'[run'[o]]
                      /\ \A w \in DOMAIN todo'[o] : todo'[o][w] = lines'[run'[o]][w]
                      /\ \A w \in DOMAIN lines'[run'[o]] \ DOMAIN todo'[o] :
                           Exists(run[o], w)' \/ w \in notSent'[o]
    BY DEF ExecutionsOK
  <2>1. o # q /\ run'[o] = run[o] /\ notSent'[o] = notSent[o] /\ todo'[o] = todo[o]
    BY <1>1 DEF PayoutsType
  <2>2. run[o] \in Periods /\ lines' = lines
    BY <1>1, <2>1 DEF PayoutsType
  <2>3. \A w : Exists(run[o], w)' <=> Exists(run[o], w)
    BY <1>1, <2>1 DEF Exists
  <2>4. /\ status[run[o]] \in Approved
        /\ DOMAIN todo[o] \subseteq DOMAIN lines[run[o]]
        /\ \A w \in DOMAIN todo[o] : todo[o][w] = lines[run[o]][w]
        /\ \A w \in DOMAIN lines[run[o]] \ DOMAIN todo[o] : Exists(run[o], w) \/ w \in notSent[o]
    BY <2>1 DEF ExecutionsOK
  <2> QED BY ONLY <1>6, <2>1, <2>2, <2>3, <2>4
<1> QED BY <1>1, <1>3, <1>4, <1>5, <1>7, <1>8, MoneyFrame

\* A line of it makes its withdrawal, which leaves the wallet and enters the books.
LEMMA CreateStep ==
  ASSUME Inductive, NEW p \in Periods, NEW w \in Wallets, NEW line \in Line,
         ~Exists(p, w), balance[w] >= line.amount, Create(p, w, line),
         UNCHANGED <<earned, own, user, account, recipients>>
  PROVE  BooksAgree' /\ WalletsType' /\ made' = [made EXCEPT ![p][w] = line]
<1> USE DEF Inductive, TakenOnce, TypeOK
<1> DEFINE k == line.amount
<1>1. k \in Nat /\ line = [amount |-> k, bank |-> line.bank]
  BY DEF Line
<1>2. made[p][w] = Unpaid /\ wd[p][w] = "NONE"
  BY DEF TakenAsApproved, Exists
<1>3. [amount |-> made[p][w].amount + line.amount, bank |-> line.bank] = line
  BY <1>1, <1>2 DEF Unpaid
<1>4. made' = [made EXCEPT ![p][w] = line]
  BY <1>3 DEF Create
<1>5. balance' = [balance EXCEPT ![w] = @ - k] /\ wd' = [wd EXCEPT ![p][w] = "PENDING"]
  BY DEF Create
<1>6. /\ Held(w)[p] = 0 /\ Held(w)'[p] = k
      /\ \A o \in Periods \ {p} : Held(w)'[o] = Held(w)[o]
  BY <1>2, <1>4, <1>5 DEF Held, PayoutsType
<1>7. Outstanding(w)' = Outstanding(w) + k
  BY <1>1, <1>6, OutstandingStep
<1>8. \A x \in Wallets \ {w} : Outstanding(x)' = Outstanding(x)
  <2> TAKE x \in Wallets \ {w}
  <2>1. Held(x)' = Held(x)
    BY <1>4, <1>5 DEF Held, PayoutsType
  <2> QED BY <2>1 DEF Outstanding
<1>9. BooksAgree'
  <2>1. \A x \in Wallets : Outstanding(x) \in Nat
    BY OutstandingNat
  <2> QED BY <1>1, <1>5, <1>7, <1>8, <2>1 DEF BooksAgree, WalletsType
<1>10. WalletsType'
  <2>1. balance[w] - k \in 0..MaxEarned
    BY <1>1 DEF WalletsType
  <2> QED BY <1>5, <2>1 DEF WalletsType
<1> QED BY <1>4, <1>9, <1>10

\* The line at hand is a wallet's, and the approved one.
LEMMA LineAtHand ==
  ASSUME Inductive, NEW q \in Procs, run[q] # None, DOMAIN todo[q] # {}, NEW w,
         w = Min(DOMAIN todo[q])
  PROVE  /\ w \in DOMAIN todo[q] /\ w \in Wallets /\ run[q] \in Periods
         /\ w \in DOMAIN lines[run[q]] /\ todo[q][w] = lines[run[q]][w] /\ todo[q][w] \in Line
         /\ [x \in DOMAIN todo[q] \ {w} |-> todo[q][x]] \in Lists
<1> USE DEF Inductive, TakenOnce, TypeOK
<1>1. todo[q] \in Lists /\ run[q] \in Periods
  BY DEF PayoutsType
<1>2. /\ DOMAIN todo[q] \subseteq Wallets
      /\ \A x \in DOMAIN todo[q] : todo[q][x] \in Line
  BY <1>1, ListDomain
<1>3. w \in DOMAIN todo[q]
  BY <1>2, MinOfNat
<1>4. [x \in DOMAIN todo[q] \ {w} |-> todo[q][x]] \in [DOMAIN todo[q] \ {w} -> Line]
  BY <1>2
<1>5. DOMAIN todo[q] \ {w} \in SUBSET Wallets
  BY <1>2
<1>6. [x \in DOMAIN todo[q] \ {w} |-> todo[q][x]] \in Lists
  BY <1>4, <1>5, ListIntro
<1> QED BY <1>1, <1>2, <1>3, <1>6 DEF ExecutionsOK

\* The lines behind an execution are done or skipped, and so is the next one after it.
LEMMA LineBehind ==
  ASSUME Inductive, NEW q \in Procs, NEW p \in Periods, p = run[q], NEW w \in Wallets,
         UNCHANGED <<status, lines, run>>, NEW rest \in Lists,
         rest = [x \in DOMAIN todo[q] \ {w} |-> todo[q][x]], todo' = [todo EXCEPT ![q] = rest],
         \A o \in Procs : notSent[o] \subseteq notSent'[o],
         \A o \in Periods, x \in Wallets : wd[o][x] # "NONE" => wd'[o][x] # "NONE",
         wd'[p][w] # "NONE" \/ w \in notSent'[q]
  PROVE  ExecutionsOK'
<1> USE DEF Inductive, TakenOnce, TypeOK
<1>1. \A o \in Periods : DOMAIN lines[o] \subseteq Wallets
  BY ListDomain DEF RunsType
<1>2. SUFFICES ASSUME NEW o \in Procs, run[o] # None
               PROVE  /\ status[run[o]] \in Approved
                      /\ DOMAIN todo'[o] \subseteq DOMAIN lines[run[o]]
                      /\ \A x \in DOMAIN todo'[o] : todo'[o][x] = lines[run[o]][x]
                      /\ \A x \in DOMAIN lines[run[o]] \ DOMAIN todo'[o] :
                           wd'[run[o]][x] # "NONE" \/ x \in notSent'[o]
  BY DEF ExecutionsOK, Exists
<1>3. /\ status[run[o]] \in Approved
      /\ DOMAIN todo[o] \subseteq DOMAIN lines[run[o]]
      /\ \A x \in DOMAIN todo[o] : todo[o][x] = lines[run[o]][x]
      /\ \A x \in DOMAIN lines[run[o]] \ DOMAIN todo[o] :
           wd[run[o]][x] # "NONE" \/ x \in notSent[o]
  BY <1>2 DEF ExecutionsOK, Exists
<1>4. run[o] \in Periods /\ todo \in [Procs -> Lists]
  BY <1>2 DEF PayoutsType
<1>5. CASE o # q
  BY <1>1, <1>3, <1>4, <1>5
<1>6. CASE o = q
  <2>1. /\ todo'[q] = rest /\ DOMAIN rest = DOMAIN todo[q] \ {w}
        /\ \A x \in DOMAIN rest : rest[x] = todo[q][x]
    BY <1>4
  <2>2. \A x \in DOMAIN lines[p] \ DOMAIN rest : x = w \/ x \in DOMAIN lines[p] \ DOMAIN todo[q]
    BY <2>1
  <2> QED BY <1>1, <1>3, <1>4, <1>6, <2>1, <2>2
<1> QED BY <1>5, <1>6

\* Nothing moves when the line is done before or is skipped,
LEMMA LineLeft ==
  ASSUME Inductive, NEW q \in Procs, NEW p \in Periods, p = run[q], NEW w \in Wallets,
         UNCHANGED <<wallets, runs, seen, run, payouts, faults>>, NEW rest \in Lists,
         rest = [x \in DOMAIN todo[q] \ {w} |-> todo[q][x]], todo' = [todo EXCEPT ![q] = rest],
         \/ Exists(p, w) /\ UNCHANGED notSent
         \/ notSent' = [notSent EXCEPT ![q] = @ \cup {w}]
  PROVE  Inductive'
<1> USE DEF Inductive, TakenOnce, TypeOK
<1>1. /\ notSent' \in [Procs -> SUBSET Wallets]
      /\ \A o \in Procs : notSent[o] \subseteq notSent'[o]
      /\ wd'[p][w] # "NONE" \/ w \in notSent'[q]
  <2>1. notSent \in [Procs -> SUBSET Wallets]
    BY DEF PayoutsType
  <2>2. CASE Exists(p, w) /\ UNCHANGED notSent
    BY <2>1, <2>2 DEF Exists
  <2>3. CASE notSent' = [notSent EXCEPT ![q] = @ \cup {w}]
    BY <2>1, <2>3
  <2> QED BY <2>2, <2>3
<1>2. RunsType' /\ PayoutsType'
  BY <1>1 DEF RunsType, PayoutsType
<1>3. OneOpenRun' /\ FourEyes' /\ MakerReviewed'
  BY DEF OneOpenRun, FourEyes, MakerReviewed
<1>4. ExecutedIsComplete' /\ TakenAsApproved'
  BY DEF ExecutedIsComplete, TakenAsApproved, Exists
<1>5. ExecutionsOK'
  BY <1>1, LineBehind
<1> QED BY <1>2, <1>3, <1>4, <1>5, MoneyFrame

\* and the balance when it is paid.
LEMMA LinePaid ==
  ASSUME Inductive, NEW q \in Procs, NEW p \in Periods, p = run[q], NEW w \in Wallets,
         UNCHANGED <<earned, own, user, account, recipients, runs, seen, run, notSent, faults>>,
         NEW rest \in Lists, rest = [x \in DOMAIN todo[q] \ {w} |-> todo[q][x]],
         todo' = [todo EXCEPT ![q] = rest], status[p] \in Approved,
         NEW line \in Line, w \in DOMAIN lines[p], line = lines[p][w],
         ~Exists(p, w), balance[w] >= line.amount, Create(p, w, line)
  PROVE  Inductive'
<1> USE DEF Inductive, TakenOnce, TypeOK
<1>1. /\ BooksAgree' /\ WalletsType' /\ made' = [made EXCEPT ![p][w] = line]
      /\ wd' = [wd EXCEPT ![p][w] = "PENDING"]
  <2>1. wd' = [wd EXCEPT ![p][w] = "PENDING"]
    BY DEF Create
  <2> QED BY <2>1, CreateStep
<1>2. wd \in [Periods -> [Wallets -> Withdrawals]] /\ notSent \in [Procs -> SUBSET Wallets]
  BY DEF PayoutsType
<1>3. /\ wd'[p][w] = "PENDING"
      /\ \A o \in Periods, x \in Wallets : ~(o = p /\ x = w) => wd'[o][x] = wd[o][x]
  BY <1>1, <1>2
<1>4. /\ made'[p][w] = line
      /\ \A o \in Periods, x \in Wallets : ~(o = p /\ x = w) => made'[o][x] = made[o][x]
  <2>1. made \in [Periods -> [Wallets -> [amount : 0..MaxEarned, bank : Banks \cup {None}]]]
    BY DEF PayoutsType
  <2> QED BY <1>1, <2>1
<1>5. RunsType' /\ PayoutsType'
  <2>1. line \in [amount : 0..MaxEarned, bank : Banks \cup {None}]
    BY DEF Line
  <2> QED BY <1>1, <2>1 DEF RunsType, PayoutsType, Withdrawals
<1>6. OneOpenRun' /\ FourEyes' /\ MakerReviewed'
  BY DEF OneOpenRun, FourEyes, MakerReviewed
<1>7. \A o \in Periods : DOMAIN lines[o] \subseteq Wallets
  BY ListDomain DEF RunsType
<1>8. \A o \in Periods, x \in Wallets : wd[o][x] # "NONE" => wd'[o][x] # "NONE"
  BY <1>3
<1>9. ExecutedIsComplete'
  BY <1>7, <1>8 DEF ExecutedIsComplete, Exists
<1>10. TakenAsApproved'
  BY <1>3, <1>4 DEF TakenAsApproved, Exists
<1>11. ExecutionsOK'
  BY <1>2, <1>3, <1>8, LineBehind
<1> QED BY <1>1, <1>5, <1>6, <1>9, <1>10, <1>11

\* A step of an execution is the one or the other.
LEMMA ExecuteLineStep ==
  ASSUME Inductive, NEW q \in Procs, executeLine(q)
  PROVE  Inductive'
<1>1. PICK w, p, line, rest :
        /\ w = Min(DOMAIN todo[q]) /\ p = run[q] /\ line = todo[q][w]
        /\ rest = [x \in DOMAIN todo[q] \ {w} |-> todo[q][x]]
  OBVIOUS
<1>2. /\ p # None /\ DOMAIN todo[q] # {} /\ todo' = [todo EXCEPT ![q] = rest]
      /\ UNCHANGED <<earned, own, user, account, recipients, runs, seen, run, faults>>
  BY <1>1 DEF executeLine
<1>3. \/ Exists(p, w) /\ UNCHANGED <<balance, payouts, notSent>>
      \/ /\ ~Exists(p, w) /\ notSent' = [notSent EXCEPT ![q] = @ \cup {w}]
         /\ UNCHANGED <<balance, payouts>>
      \/ ~Exists(p, w) /\ ~Skips(w, line) /\ Create(p, w, line) /\ UNCHANGED notSent
  BY <1>1 DEF executeLine
<1>4. /\ w \in DOMAIN todo[q] /\ w \in Wallets /\ p \in Periods
      /\ w \in DOMAIN lines[p] /\ line = lines[p][w] /\ line \in Line
      /\ rest \in Lists
  BY <1>1, <1>2, LineAtHand
<1>5. status[p] \in Approved
  BY <1>1, <1>2 DEF Inductive, ExecutionsOK
<1>6. CASE /\ UNCHANGED <<balance, payouts>>
           /\ \/ Exists(p, w) /\ UNCHANGED notSent
              \/ notSent' = [notSent EXCEPT ![q] = @ \cup {w}]
  BY <1>1, <1>2, <1>4, <1>6, LineLeft
<1>7. CASE ~Exists(p, w) /\ ~Skips(w, line) /\ Create(p, w, line) /\ UNCHANGED notSent
  <2>1. balance[w] \in Int /\ line.amount \in Int
    BY <1>4 DEF Inductive, TakenOnce, TypeOK, WalletsType, Line
  <2>2. balance[w] >= line.amount
    BY <1>7, <2>1 DEF Skips
  <2> QED BY <1>1, <1>2, <1>4, <1>5, <1>7, <2>2, LinePaid
<1> QED BY <1>3, <1>6, <1>7

\* A transfer that goes out holds the money as before,
LEMMA DispatchStep ==
  ASSUME Inductive, NEW p \in Periods, NEW w \in Wallets, dispatchPayoutRun(p, w)
  PROVE  Inductive'
<1> USE DEF Inductive, TakenOnce, TypeOK
<1>1. /\ wd[p][w] = "PENDING" /\ wd' = [wd EXCEPT ![p][w] = "ISSUED"]
      /\ UNCHANGED <<wallets, runs, seen, made, procs, faults>>
  BY DEF dispatchPayoutRun
<1>2. \A o \in Periods, x \in Wallets : Exists(o, x)' <=> Exists(o, x)
  BY <1>1 DEF Exists, PayoutsType
<1>3. BooksAgree'
  <2>1. \A x \in Wallets : Held(x)' = Held(x)
    BY <1>1 DEF Held, PayoutsType
  <2> QED BY <1>1, <2>1 DEF BooksAgree, Outstanding
<1>4. TypeOK'
  BY <1>1 DEF WalletsType, RunsType, PayoutsType, Withdrawals
<1>5. OneOpenRun' /\ FourEyes' /\ MakerReviewed'
  BY <1>1 DEF OneOpenRun, FourEyes, MakerReviewed
<1>6. \A o \in Periods : DOMAIN lines[o] \subseteq Wallets
  BY ListDomain DEF RunsType
<1>7. ExecutedIsComplete' /\ TakenAsApproved'
  BY <1>1, <1>2, <1>6 DEF ExecutedIsComplete, TakenAsApproved, Exists
<1>8. ExecutionsOK'
  BY <1>1, <1>2, ExecutionsFrame DEF Exists
<1> QED BY <1>3, <1>4, <1>5, <1>7, <1>8

\* and one that fails brings back what the line took.
LEMMA FailStep ==
  ASSUME Inductive, NEW p \in Periods, NEW w \in Wallets, Fail(p, w)
  PROVE  Inductive'
<1> USE DEF Inductive, TakenOnce, TypeOK
<1> DEFINE k == lines[p][w].amount
<1>1. /\ wd[p][w] = "ISSUED" /\ wd' = [wd EXCEPT ![p][w] = "FAILED"]
      /\ balance' = [balance EXCEPT ![w] = @ + k]
      /\ UNCHANGED <<earned, own, user, account, recipients, runs, seen, made, procs, faults>>
  BY DEF Fail
<1>2. made[p][w] = lines[p][w] /\ k \in Nat
  <2>1. made[p][w] = lines[p][w]
    BY <1>1 DEF TakenAsApproved, Exists
  <2>2. made[p][w] \in [amount : 0..MaxEarned, bank : Banks \cup {None}]
    BY DEF PayoutsType
  <2> QED BY <2>1, <2>2
<1>3. /\ Held(w)[p] = k /\ Held(w)'[p] = 0
      /\ \A o \in Periods \ {p} : Held(w)'[o] = Held(w)[o]
  BY <1>1, <1>2 DEF Held, PayoutsType
<1>4. Outstanding(w)' = Outstanding(w) - k /\ Outstanding(w)' \in Nat
  <2>1. /\ -k \in Int /\ Held(w)[p] + (-k) \in Nat /\ Held(w)'[p] = Held(w)[p] + (-k)
    BY <1>2, <1>3
  <2>2. Outstanding(w)' = Outstanding(w) + (-k) /\ Outstanding(w)' \in Nat
    BY <1>3, <2>1, OutstandingStep
  <2>3. Outstanding(w) \in Nat
    BY OutstandingNat
  <2> QED BY <1>2, <2>2, <2>3
<1>5. \A x \in Wallets \ {w} : Outstanding(x)' = Outstanding(x)
  <2> TAKE x \in Wallets \ {w}
  <2>1. Held(x)' = Held(x)
    BY <1>1 DEF Held, PayoutsType
  <2> QED BY <2>1 DEF Outstanding
<1>6. \A x \in Wallets : Outstanding(x) \in Nat
  BY OutstandingNat
<1>7. BooksAgree'
  BY <1>1, <1>2, <1>4, <1>5, <1>6 DEF BooksAgree, WalletsType
<1>8. WalletsType'
  <2>1. balance[w] + k = earned[w] - own[w] - Outstanding(w)'
    <3>1. balance[w] = earned[w] - own[w] - Outstanding(w) /\ Outstanding(w) \in Nat
      BY <1>6 DEF BooksAgree
    <3>2. balance[w] \in Int /\ earned[w] \in Int /\ own[w] \in Int
      BY DEF WalletsType
    <3>3. PICK x, y : x = Outstanding(w) /\ y = Outstanding(w)'
      OBVIOUS
    <3> QED BY <1>2, <1>4, <3>1, <3>2, <3>3
  <2>2. balance[w] + k \in 0..MaxEarned
    BY <1>2, <1>4, <2>1 DEF WalletsType
  <2> QED BY <1>1, <2>2 DEF WalletsType
<1>9. RunsType' /\ PayoutsType'
  BY <1>1 DEF RunsType, PayoutsType, Withdrawals
<1>10. OneOpenRun' /\ FourEyes' /\ MakerReviewed'
  BY <1>1 DEF OneOpenRun, FourEyes, MakerReviewed
<1>11. \A o \in Periods, x \in Wallets : Exists(o, x)' <=> Exists(o, x)
  BY <1>1 DEF Exists, PayoutsType
<1>12. \A o \in Periods : DOMAIN lines[o] \subseteq Wallets
  BY ListDomain DEF RunsType
<1>13. ExecutedIsComplete' /\ TakenAsApproved'
  BY <1>1, <1>11, <1>12 DEF ExecutedIsComplete, TakenAsApproved, Exists
<1>14. ExecutionsOK'
  BY <1>1, <1>11, ExecutionsFrame DEF Exists
<1> QED BY <1>7, <1>8, <1>9, <1>10, <1>13, <1>14

\* No run has taken anything yet.
LEMMA InitInductive == Init => Inductive
<1> SUFFICES ASSUME Init PROVE Inductive
  OBVIOUS
<1> USE DEF Init
<1>1. WalletsType
  <2>1. \A w \in Wallets : recipients[w] \subseteq Banks
    BY DEF Banks
  <2>2. account \in [Wallets -> Banks \cup {None}] /\ DOMAIN recipients = Wallets
    OBVIOUS
  <2> QED BY <2>1, <2>2 DEF WalletsType, UserStatus
<1>2. RunsType
  <2>1. NobodyYet \in [Admins -> Lists \cup {None}]
    BY DEF NobodyYet
  <2> QED BY <2>1, EmptyListType DEF RunsType, RunStatus
<1>3. PayoutsType
  BY EmptyListType DEF PayoutsType, Withdrawals, Unpaid
<1>4. BooksAgree
  <2> SUFFICES ASSUME NEW w \in Wallets
               PROVE  balance[w] = earned[w] - own[w] - Outstanding(w)
    BY DEF BooksAgree
  <2>1. \A p \in Periods : Held(w)[p] \in {0}
    BY DEF Held
  <2>2. 0 \in {0} /\ \A a, b \in {0} : a + b \in {0}
    OBVIOUS
  <2>3. PICK f : f = Held(w)
    OBVIOUS
  <2>4. SumFunctionOnSet(f, Periods) \in {0}
    BY ONLY <2>1, <2>2, <2>3, SumClosed, IsFiniteSet(Periods), Zenon
  <2> QED BY <2>3, <2>4 DEF Outstanding
<1>5. OneOpenRun /\ FourEyes /\ ExecutedIsComplete
  BY DEF OneOpenRun, Open, FourEyes, Approved, ExecutedIsComplete
<1>6. TakenAsApproved /\ ExecutionsOK /\ MakerReviewed
  BY DEF TakenAsApproved, ExecutionsOK, MakerReviewed, Exists
<1> QED BY <1>1, <1>2, <1>3, <1>4, <1>5, <1>6 DEF Inductive, TakenOnce, TypeOK

LEMMA NextInductive == Inductive /\ [Next]_vars => Inductive'
<1> SUFFICES ASSUME Inductive, [Next]_vars PROVE Inductive'
  OBVIOUS
<1>1. CASE \E w \in Wallets : Credit(w) \/ WithdrawOwn(w) \/ ChooseAccount(w) \/ ChangeStatus(w)
  BY <1>1, CreditStep, WithdrawOwnStep, OwnerStep
<1>2. CASE Tomorrow \/ \E p \in Periods, a \in Admins : ViewRun(a, p)
  BY <1>2, LookStep
<1>3. CASE \E p \in Periods :
             \/ buildPayoutRun(p) \/ rejectPayoutRun(p) \/ cancelPayoutRun(p)
             \/ \E a \in Admins : submitPayoutRun(a, p) \/ approvePayoutRun(a, p)
  BY <1>3, BuildStep, ReviewStep, ApproveStep
<1>4. CASE \E p \in Periods : \/ \E q \in Procs : executePayoutRun(q, p)
                              \/ \E w \in Wallets : dispatchPayoutRun(p, w) \/ Fail(p, w)
  BY <1>4, ExecuteStep, DispatchStep, FailStep
<1>5. CASE \E q \in Procs : executeLine(q) \/ MarkExecuted(q) \/ Abort(q)
  BY <1>5, ExecuteLineStep, MarkExecutedStep, AbortStep
<1>6. CASE UNCHANGED vars
  <2>1. UNCHANGED <<wallets, runs, payouts, procs, faults>>
    BY <1>6 DEF vars
  <2>2. RunsType' /\ PayoutsType'
    BY <2>1 DEF Inductive, TakenOnce, TypeOK, RunsType, PayoutsType
  <2> QED BY <2>1, <2>2, MoneyFrame, RunsFrame DEF Inductive, TakenOnce, TypeOK
<1> QED BY <1>1, <1>2, <1>3, <1>4, <1>5, <1>6 DEF Next

\* The inductive invariant, for every number of wallets, periods, admins and executions.
THEOREM InductiveInvariant == Spec => []Inductive
  BY InitInductive, NextInductive, PTL DEF Spec

-----------------------------------------------------------------------------
(* What follows from it.                                                   *)

\* payout-runs.ts:160-214, 317-375.  A wallet's balance is promised by one open run at
\* most, and the kobo it lacks are exactly what was withdrawn and what runs took.
THEOREM MoneyTakenOnce == Spec => []TakenOnce
<1>1. Inductive => TakenOnce
  BY DEF Inductive
<1> QED BY <1>1, InductiveInvariant, PTL

\* payout-runs.ts:226-312.  An approved run was reviewed, line by line, by two.
THEOREM ReviewedByTwo == Spec => []FourEyes
<1>1. Inductive => FourEyes
  BY DEF Inductive
<1> QED BY <1>1, InductiveInvariant, PTL

\* payout-runs.ts:382-430.  No line of an executed run is forgotten, whatever executions
\* overlapped, crashed or were resumed.
THEOREM NoLineForgotten == Spec => []ExecutedIsComplete
<1>1. Inductive => ExecutedIsComplete
  BY DEF Inductive
<1> QED BY <1>1, InductiveInvariant, PTL

-----------------------------------------------------------------------------
(* The refinement: approvePayoutRun is Approve, a line's withdrawal is its *)
(* Pay, and everything else a step the payroll does not see.               *)

ApprovedList(p) == IF status[p] \in Approved THEN lines[p] ELSE None

\* What keeps the approved lists and the payments is a stutter of the payroll.
LEMMA PayrollStutter ==
  ASSUME UNCHANGED made, \A p \in Periods : ApprovedList(p)' = ApprovedList(p)
  PROVE  UNCHANGED Promise!payroll
<1>1. [p \in Periods |-> ApprovedList(p)]' = [p \in Periods |-> ApprovedList(p)]
  OBVIOUS
<1> QED BY <1>1 DEF Promise!payroll, ApprovedList

LEMMA ApproveRefines ==
  ASSUME Inductive, NEW p \in Periods, NEW a \in Admins, approvePayoutRun(a, p)
  PROVE  Promise!Approve(p)
<1> USE DEF Inductive, TakenOnce, TypeOK
<1> DEFINE before == [o \in Periods |-> IF status[o] \in Approved THEN lines[o] ELSE None]
<1>1. /\ status[p] = "AWAITING_APPROVAL" /\ status' = [status EXCEPT ![p] = "APPROVED"]
      /\ UNCHANGED <<lines, made>>
  BY DEF approvePayoutRun
<1>2. lines[p] \in Lists /\ before[p] = None
  BY <1>1 DEF RunsType, Approved
<1>3. before' = [before EXCEPT ![p] = lines[p]]
  BY <1>1 DEF Approved, RunsType
<1> QED BY <1>1, <1>2, <1>3 DEF Promise!Approve

LEMMA LineRefines ==
  ASSUME Inductive, NEW q \in Procs, executeLine(q)
  PROVE  UNCHANGED Promise!payroll \/ \E p \in Periods, w \in Wallets : Promise!Pay(p, w)
<1> USE DEF Inductive, TakenOnce, TypeOK
<1>1. PICK w, p, line : w = Min(DOMAIN todo[q]) /\ p = run[q] /\ line = todo[q][w]
  OBVIOUS
<1>2. p # None /\ DOMAIN todo[q] # {} /\ UNCHANGED <<earned, own, user, account, recipients, runs>>
  BY <1>1 DEF executeLine
<1>3. UNCHANGED made \/ (~Exists(p, w) /\ ~Skips(w, line) /\ Create(p, w, line))
  BY <1>1 DEF executeLine
<1>4. /\ w \in Wallets /\ p \in Periods /\ w \in DOMAIN lines[p]
      /\ line = lines[p][w] /\ line \in Line
  BY <1>1, <1>2, LineAtHand
<1>5. status[p] \in Approved
  BY <1>1, <1>2 DEF ExecutionsOK
<1>6. \A o \in Periods : ApprovedList(o)' = ApprovedList(o)
  BY <1>2 DEF ApprovedList
<1>7. CASE UNCHANGED made
  BY <1>6, <1>7, PayrollStutter
<1>8. CASE ~Exists(p, w) /\ ~Skips(w, line) /\ Create(p, w, line)
  <2>1. balance[w] >= line.amount
    BY <1>4, <1>8 DEF Skips, WalletsType, Line
  <2>2. made' = [made EXCEPT ![p][w] = lines[p][w]]
    BY <1>2, <1>4, <1>8, <2>1, CreateStep
  <2>3. made[p][w] = Unpaid
    BY <1>4, <1>8 DEF TakenAsApproved
  <2>4. lines[p] # None
    BY <1>4 DEF RunsType
  <2> DEFINE list == [o \in Periods |-> IF status[o] \in Approved THEN lines[o] ELSE None]
  <2>5. list[p] = lines[p] /\ UNCHANGED list
    BY <1>2, <1>4, <1>5
  <2> QED BY <1>4, <2>2, <2>3, <2>4, <2>5 DEF Promise!Pay
<1> QED BY <1>3, <1>7, <1>8

LEMMA StepRefines == Inductive /\ [Next]_vars => [Promise!PayrollNext]_(Promise!payroll)
<1> SUFFICES ASSUME Inductive, [Next]_vars PROVE [Promise!PayrollNext]_(Promise!payroll)
  OBVIOUS
<1> USE DEF Inductive, TakenOnce, TypeOK
<1>1. CASE UNCHANGED <<made, status, lines>>
  <2>1. \A p \in Periods : ApprovedList(p)' = ApprovedList(p)
    BY <1>1 DEF ApprovedList
  <2> QED BY <1>1, <2>1, PayrollStutter
<1>2. CASE \E w \in Wallets : Credit(w) \/ WithdrawOwn(w) \/ ChooseAccount(w) \/ ChangeStatus(w)
  BY <1>1, <1>2 DEF Credit, WithdrawOwn, ChooseAccount, ChangeStatus
<1>3. CASE Tomorrow \/ \E p \in Periods, a \in Admins : ViewRun(a, p)
  BY <1>1, <1>3 DEF Tomorrow, ViewRun
<1>4. ASSUME NEW p \in Periods, buildPayoutRun(p)
      PROVE  UNCHANGED Promise!payroll
  <2>1. \A o \in Periods : ApprovedList(o)' = ApprovedList(o)
    BY <1>4 DEF buildPayoutRun, ApprovedList, Approved, RunsType
  <2> QED BY <1>4, <2>1, PayrollStutter DEF buildPayoutRun
<1>5. ASSUME NEW p \in Periods, rejectPayoutRun(p) \/ cancelPayoutRun(p)
                                \/ \E a \in Admins : submitPayoutRun(a, p)
      PROVE  UNCHANGED Promise!payroll
  <2>1. \A o \in Periods : ApprovedList(o)' = ApprovedList(o)
    BY <1>5 DEF rejectPayoutRun, cancelPayoutRun, submitPayoutRun, ApprovedList, Approved, RunsType
  <2>2. UNCHANGED made
    BY <1>5 DEF rejectPayoutRun, cancelPayoutRun, submitPayoutRun
  <2> QED BY <2>1, <2>2, PayrollStutter
<1>6. CASE \E p \in Periods, a \in Admins : approvePayoutRun(a, p)
  BY <1>6, ApproveRefines DEF Promise!PayrollNext
<1>7. CASE \E p \in Periods : \/ \E q \in Procs : executePayoutRun(q, p)
                              \/ \E w \in Wallets : dispatchPayoutRun(p, w) \/ Fail(p, w)
  BY <1>1, <1>7 DEF executePayoutRun, dispatchPayoutRun, Fail
<1>8. CASE \E q \in Procs : executeLine(q)
  BY <1>8, LineRefines DEF Promise!PayrollNext
<1>9. ASSUME NEW q \in Procs, MarkExecuted(q)
      PROVE  UNCHANGED Promise!payroll
  <2>1. run[q] \in Periods /\ status[run[q]] \in Approved
    BY <1>9 DEF MarkExecuted, PayoutsType, ExecutionsOK
  <2>2. \A o \in Periods : ApprovedList(o)' = ApprovedList(o)
    BY <1>9, <2>1 DEF MarkExecuted, ApprovedList, Approved, RunsType
  <2> QED BY <1>9, <2>2, PayrollStutter DEF MarkExecuted
<1>10. CASE \E q \in Procs : Abort(q)
  BY <1>1, <1>10 DEF Abort
<1>11. CASE UNCHANGED vars
  BY <1>1, <1>11 DEF vars
<1> QED BY <1>2, <1>3, <1>4, <1>5, <1>6, <1>7, <1>8, <1>9, <1>10, <1>11 DEF Next

\* payout-runs.ts:287-375.  The runs implement the payroll: a list is fixed when it is
\* approved, and each line is paid at most once, in the amount and to the account approved.
THEOREM PayrollImplemented == Spec => ImplementsPayroll
<1>1. Init => Promise!PayrollInit
  BY DEF Init, Promise!PayrollInit, Approved
<1> QED BY <1>1, StepRefines, InductiveInvariant, PTL DEF Spec, ImplementsPayroll, Promise!PayrollSpec
=============================================================================
