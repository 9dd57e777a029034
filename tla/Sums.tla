-------------------------------- MODULE Sums --------------------------------
(***************************************************************************)
(* What the members of a finite set add up to, as SUM(...) of a SELECT     *)
(* does.  The amount F[x] of a member is counted out in units, so that a   *)
(* total is the number of units: its laws then follow from those of        *)
(* cardinalities.  MCLedgerTx compares it with a fold of the same amounts. *)
(***************************************************************************)
EXTENDS Integers, FiniteSets

Units(F, S) == UNION {{x} \X (1 .. F[x]) : x \in S}

Total(F, S) == Cardinality(Units(F, S))
=============================================================================
