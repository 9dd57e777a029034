------------------------------ MODULE Rotation ------------------------------
(***************************************************************************)
(* What refresh-token sessions promise (internal/auth/session.go:63,       *)
(* service.go:257): a session is good for one end, a logout or a refresh,  *)
(* and a refresh hands over to at most one new session.                    *)
(***************************************************************************)
CONSTANTS Sessions, None

VARIABLES
  state,   \* of a session
  parent   \* the session a session was made from, None after a sign-in

vars == <<state, parent>>

States == {"unused", "live", "handing over", "ended"}

Init ==
  /\ state = [s \in Sessions |-> "unused"]
  /\ parent = [s \in Sessions |-> None]

Open(s) ==
  /\ state[s] = "unused"
  /\ state' = [state EXCEPT ![s] = "live"]
  /\ UNCHANGED parent

End(s) ==
  /\ state[s] = "live"
  /\ state' = [state EXCEPT ![s] = "ended"]
  /\ UNCHANGED parent

Take(s) ==
  /\ state[s] = "live"
  /\ state' = [state EXCEPT ![s] = "handing over"]
  /\ UNCHANGED parent

\* The handler that took the session fails before it made a new one.
Lose(s) ==
  /\ state[s] = "handing over"
  /\ state' = [state EXCEPT ![s] = "ended"]
  /\ UNCHANGED parent

HandOver(s, t) ==
  /\ state[s] = "handing over"
  /\ state[t] = "unused"
  /\ state' = [state EXCEPT ![s] = "ended", ![t] = "live"]
  /\ parent' = [parent EXCEPT ![t] = s]

Next ==
  \E s \in Sessions :
    \/ Open(s) \/ End(s) \/ Take(s) \/ Lose(s)
    \/ \E t \in Sessions : HandOver(s, t)

Spec == Init /\ [][Next]_vars
=============================================================================
