----------------------------- MODULE MCPayments -----------------------------
(***************************************************************************)
(* The instance of Payments that TLC checks: intents of one customer, who  *)
(* has one wallet for all of them.                                         *)
(***************************************************************************)
EXTENDS Payments, TLC

CONSTANTS c1, i1, i2, i3, i4

OneCustomer == [i \in Intents |-> c1]
Costs == [i \in Intents |-> IF i = i1 THEN 2 ELSE 1]
Seerbit == [i \in Intents |-> "seerbit"]
EveryGateway ==
  [i \in Intents |-> CASE i = i1 -> "seerbit" [] i = i2 -> "paystack"
                      [] i = i3 -> "mock" [] OTHER -> "seerbit_test"]

Symmetry == Permutations(Handlers)
=============================================================================
