------------------------------ MODULE MCContent ------------------------------
(***************************************************************************)
(* Instances of Reputation and of Storefront for TLC, in one run: a        *)
(* behaviour chooses at the start which of the two its requests are for.   *)
(* They share no rows, so nothing is lost by not mixing them.              *)
(***************************************************************************)
EXTENDS Reputation, Storefront, TLC

CONSTANTS post, deal, service, item, profile, category

VARIABLE half

\* A row of every kind, a day of 12 units.
Kinds == post :> "post" @@ deal :> "deal" @@ service :> "service"
           @@ item :> "item" @@ profile :> "profile" @@ category :> "category"
SomePlans == {{[start |-> 2, end |-> 12]}, {[start |-> 0, end |-> 5], [start |-> 7, end |-> 11]}}
SomeBusy == {[start |-> 4, end |-> 6]}

\* The storefront is asked by so many of the requests.
StorefrontRequests == 3

ContentInit == half \in {"reputation", "storefront"} /\ Init /\ StorefrontInit

ReputationStep ==
  /\ half = "reputation"
  /\ Next
  /\ UNCHANGED <<half, rows, marks, active, hours, page, on, held, gives>>

StorefrontStep ==
  /\ half = "storefront"
  /\ StorefrontNext
  /\ Cardinality({r \in Requests : Begun(r)'}) <= StorefrontRequests
  /\ UNCHANGED <<half, status, reviewing, verifying, disputing, work>>

ContentNext == ReputationStep \/ StorefrontStep

ContentSpec == ContentInit /\ [][ContentNext]_<<half, vars, storefront>>

Symmetry == Permutations(Requests) \cup Permutations(Bookings) \cup Permutations(Documents)
=============================================================================
