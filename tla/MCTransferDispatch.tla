------------------------- MODULE MCTransferDispatch -------------------------
(* Small instances of TransferDispatch for TLC. *)
EXTENDS TransferDispatch, TLC

CONSTANTS w1, w2, s1, p1, p2, p3

AmountOne == [w \in Withdrawals |-> 1]
ProcSymmetry == Permutations(Procs)
=============================================================================
