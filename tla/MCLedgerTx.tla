----------------------------- MODULE MCLedgerTx -----------------------------
(***************************************************************************)
(* The instance of LedgerTx that TLC checks: a customer who pays, is paid  *)
(* and is refused, and another user whose credit carries a reference that  *)
(* is also the customer's.                                                 *)
(***************************************************************************)
EXTENDS LedgerTx, FiniteSetsExt, TLC

CONSTANTS c1, c2, r1, r2, r3

Entries(u, type, amount, ref) ==
  [user |-> u, type |-> type, amount |-> amount, reference |-> ref]

AllCalls == {Entries(c1, "CREDIT", 2, r1), Entries(c1, "DEBIT", 2, r2),
             Entries(c1, "DEBIT", 1, r3), Entries(c2, "CREDIT", 2, r1)}

\* Counting units is adding up.
ASSUME TotalAddsUp ==
  \A S \in SUBSET AllCalls :
    Total(Atomic!Amount, S) = MapThenSumSet(LAMBDA e : e.amount, S)

Symmetry == Permutations(Processes)
=============================================================================
