----------------------------- MODULE Withdrawal -----------------------------
(***************************************************************************)
(* What the ledger promises of the withdrawals of one wallet, whatever the *)
(* provider protocol underneath does: the money leaves the wallet when the *)
(* withdrawal is requested; it is PAID only on the bank's word; and it     *)
(* comes back once, on the bank's word, and for good.                      *)
(***************************************************************************)
EXTENDS Integers

CONSTANTS
    Withdrawals, Legacy, Amount,
    MaxBalance,    \* MAX_INT32_KOBO
    Opening        \* the balance to begin with

VARIABLES
    balance,   \* wallet.availableBalance
    wd,        \* withdrawal.status
    told       \* the outcomes the bank has reported of each transfer

vars == <<balance, wd, told>>

Init ==
    /\ balance = Opening
    /\ wd = [w \in Withdrawals |-> IF w \in Legacy THEN "PROCESSING" ELSE "NONE"]
    /\ told = [w \in Withdrawals |-> {}]

Earn ==
    /\ balance < MaxBalance
    /\ balance' = balance + 1
    /\ UNCHANGED <<wd, told>>

\* requestWithdrawal
Take(w) ==
    /\ wd[w] = "NONE" /\ balance >= Amount[w]
    /\ balance' = balance - Amount[w]
    /\ wd' = [wd EXCEPT ![w] = "PROCESSING"]
    /\ UNCHANGED told

\* A failure or a return is the bank's last word.
Report(w, outcome) ==
    /\ "failed" \notin told[w]
    /\ told' = [told EXCEPT ![w] = @ \cup {outcome}]
    /\ UNCHANGED <<balance, wd>>

\* completeWithdrawal
Pay(w) ==
    /\ wd[w] = "PROCESSING" /\ "success" \in told[w]
    /\ wd' = [wd EXCEPT ![w] = "PAID"]
    /\ UNCHANGED <<balance, told>>

\* failWithdrawal
Return(w) ==
    /\ wd[w] \in {"PROCESSING", "PAID"} /\ "failed" \in told[w]
    /\ balance + Amount[w] <= MaxBalance
    /\ balance' = balance + Amount[w]
    /\ wd' = [wd EXCEPT ![w] = "FAILED"]
    /\ UNCHANGED told

Next ==
    \/ Earn
    \/ \E w \in Withdrawals : Take(w) \/ Pay(w) \/ Return(w)
    \/ \E w \in Withdrawals, outcome \in {"success", "failed"} : Report(w, outcome)

Spec == Init /\ [][Next]_vars

=============================================================================
