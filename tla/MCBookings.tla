----------------------------- MODULE MCBookings -----------------------------
(* Instances of Bookings for TLC. *)
EXTENDS Bookings, TLC

CONSTANTS b1, b2, r1, r2, k1

AtHome == [home |-> TRUE, deposit |-> FALSE, key |-> None]
WithDeposit == [home |-> FALSE, deposit |-> TRUE, key |-> None]
Retried == [home |-> FALSE, deposit |-> FALSE, key |-> k1]

CalendarOffers == {Retried, AtHome}
LifecycleOffers == {WithDeposit}

\* Bookings and requests are interchangeable: no definition tells them apart.
Symmetry == Permutations(BookingIds) \cup Permutations(Requests)

\* No guard reads the history rows or the history variables: a run need not tell
\* states apart by those that its properties do not read, nor by locals that decide
\* nothing any more (a Create inserts no row when no id is left).
Guarded == <<status, span, terms, depositPaid, bookingCount, locks, pc>>

LiveLocals == [p \in Requests |->
  CASE pc[p] = "release" -> req[p].span.start
    [] pc[p] = "event" -> IF req[p].op = "reschedule" THEN req[p].span.start ELSE 0
    [] req[p].op = "create" /\ ~IdLeft -> <<req[p].span.start, req[p].free>>
    [] OTHER -> req[p]]

CalendarView ==
  LET unseen == [p \in Requests |-> IF InTransaction(p) THEN missed[p] ELSE {}] IN
  <<Guarded, LiveLocals, displaced, crossed, unseen,
    {p \in unkeyed : pc[p] = "begin" \/ InTransaction(p)},
    {b \in unguarded : \/ \E p \in Requests : b \in unseen[p]
                       \/ \E c \in BookingIds : Crossed(b, c)}>>

LifecycleView ==
  <<Guarded, req, reopened,
    {e \in UNION {history[b] : b \in BookingIds} : e[2] = "COMPLETED"}>>
=============================================================================
