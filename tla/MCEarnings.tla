----------------------------- MODULE MCEarnings -----------------------------
(***************************************************************************)
(* Instances of Earnings for TLC.  At 10 percent the fee of b1 is rounded: *)
(* 25 is 3 for the platform and 22 for the professional; b2 is worth so    *)
(* little that no fee is left of it.                                       *)
(***************************************************************************)
EXTENDS Earnings, TLC

CONSTANTS b1, b2

Totals == [b \in Bookings |-> IF b = b1 THEN 25 ELSE 4]

Symmetry == Permutations(Completers) \cup Permutations(Withdrawers) \cup Permutations(Payouts)

\* What a request for a payout read is forgotten where it is not read any more.
Asking == {w \in Withdrawers : pc[w] # "idle"}
View == <<completed, matured, payout, ledger, pc, working, stale \cap UnderWay, overtaken,
          [w \in Asking |-> asked[w]], [w \in Asking |-> IF pc[w] = "pending" THEN seen[w] ELSE 0]>>
=============================================================================
