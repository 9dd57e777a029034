------------------------------ MODULE Handlers ------------------------------
(***************************************************************************)
(* The requests of Reputation and Storefront: a request is one HTTP call,  *)
(* whose handler sends one statement after another and then answers.  Of   *)
(* time the models keep which requests had been answered with success when *)
(* another began: what "at the same time" and "later" mean in their        *)
(* properties.                                                             *)
(***************************************************************************)
CONSTANTS Requests, None

VARIABLES
  pc, op,    \* of a request: next step and kind
  \* history:
  ended,     \* requests answered with success
  before     \* of a request: what had ended when it began

Goto(r, next) == pc' = [pc EXCEPT ![r] = next]

Begun(r) == pc[r] # "idle"

\* Neither of two requests had ended when the other began.
Concurrent(r, s) == r \notin before[s] /\ s \notin before[r]
=============================================================================
