----------------------------- MODULE MCSessions -----------------------------
(* Instances of Sessions for TLC. *)
EXTENDS Sessions, TLC
Symmetry == Permutations(Requests) \cup Permutations(SessionIds) \cup Permutations(Accounts) \cup Permutations(Emails)
=============================================================================
