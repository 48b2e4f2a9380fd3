----------------------------- MODULE MCIdentity -----------------------------
(* Small instances of Identity for TLC. *)
EXTENDS Identity, TLC

CONSTANTS k1, k2, j1, j2, p1

\* An account that only has pictures; an usher who is checked by documents and by
\* capture; one with two captures; a business.
Scope(as, for, ks, js, max) ==
    [role |-> as, uses |-> for, keys |-> ks, jobs |-> js, submissions |-> max]
Pictures == Scope("USHER", {"avatar", "portfolio"}, {k1, k2}, {}, 0)
Checked == Scope("USHER", {"document"}, {k1}, {j1}, 2)
Captured == Scope("USHER", {}, {}, {j1, j2}, 2)
Business == Scope("CLIENT", {"authority"}, {k1}, {j1}, 1)
Four == {Pictures, Checked, Captured, Business}

Symmetry == Permutations(Keys) \cup Permutations(Jobs)
=============================================================================
