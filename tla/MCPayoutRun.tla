---------------------------- MODULE MCPayoutRun -----------------------------
(* Small instances of PayoutRun for TLC. *)
EXTENDS PayoutRun, TLC

CONSTANTS b1, b2, a1, a2, q1, q2

\* Both ushers have an account, or one has two and the other none yet; the second
\* one is erased, and reinstated by an administrator who does not look.
OneEachOrTwo == {1 :> {b1} @@ 2 :> {b1}, 1 :> {b1, b2} @@ 2 :> {}}
SecondLeaves == 1 :> {} @@ 2 :> {"ACTIVE", "ANONYMIZED"}

Symmetry == Permutations(Admins) \cup Permutations(Procs)
=============================================================================
