------------------------------ MODULE Calendar ------------------------------
(***************************************************************************)
(* What the calendar of a professional promises (bookings/store.go:130:    *)
(* "inserts a booking only when no other active booking overlaps"): a      *)
(* request looks at the calendar, and later makes its booking in one step, *)
(* where its time and its own margins meet no booking that is held and was *)
(* there at the look.  A booking is made once and keeps its time until it  *)
(* is let go.  Bookings is the program that keeps this promise.            *)
(***************************************************************************)
EXTENDS Integers

CONSTANTS
  BookingIds,  \* ids of bookings
  Requests,    \* those who make bookings
  Starts, Durations,
  Buffer,      \* kept free behind a booking
  Travel       \* kept free before a booking at the customer's home

VARIABLES
  held,        \* the bookings that occupy their time
  made,        \* the ids of all bookings made so far
  missed,      \* bookings made since each request looked
  crossed      \* <<b, c>>: b was made by a request that had missed c

calendar == <<held, made, missed, crossed>>

Entry(b, s, d, home) == [booking |-> b, start |-> s, end |-> s + d, home |-> home]

Lead(e) == IF e.home THEN Travel ELSE 0

\* f is outside of e and of the margins of e.
KeepsClear(e, f) == f.end <= e.start - Lead(e) \/ f.start >= e.end + Buffer

Init ==
  /\ held = {}
  /\ made = {}
  /\ missed = [p \in Requests |-> {}]
  /\ crossed = {}

Look(p) ==
  /\ missed' = [missed EXCEPT ![p] = {}]
  /\ UNCHANGED <<held, made, crossed>>

Book(p, b) ==
  /\ b \notin made
  /\ made' = made \cup {b}
  /\ \E s \in Starts, d \in Durations, home \in BOOLEAN :
       LET e == Entry(b, s, d, home) IN
       /\ \A f \in held : f.booking \in missed[p] \/ KeepsClear(e, f)
       /\ held' = held \cup {e}
  /\ \E m \in [Requests -> {{}, {b}}] :
       missed' = [q \in Requests |-> IF q = p THEN {} ELSE missed[q] \cup m[q]]
  /\ crossed' = crossed \cup ({b} \X missed[p])

\* A booking ends, or is moved: from then on it is not held where it was made.
LetGo(e) ==
  /\ held' = held \ {e}
  /\ UNCHANGED <<made, missed, crossed>>

Next ==
  \/ \E p \in Requests : Look(p) \/ \E b \in BookingIds : Book(p, b)
  \/ \E e \in held : LetGo(e)

Spec == Init /\ [][Next]_calendar

\* Of two bookings that are held, and of which neither was made past the other, the
\* later one keeps its margins from the other: the buffer behind it and the travel
\* before it.  The margins of the earlier one are not looked at.
OneKeepsClear ==
  \A e, f \in held :
    \/ e = f
    \/ KeepsClear(e, f) \/ KeepsClear(f, e)
    \/ <<e.booking, f.booking>> \in crossed \/ <<f.booking, e.booking>> \in crossed
=============================================================================
