----------------------------- MODULE MCOutreach -----------------------------
(* Instances of Outreach for TLC. *)
EXTENDS Outreach, TLC
CONSTANTS b1, alice, bob
Customers == b1 :> alice
Professionals == b1 :> bob
=============================================================================
