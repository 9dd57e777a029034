------------------------------ MODULE Bookings ------------------------------
(***************************************************************************)
(* One professional's calendar: internal/bookings (service.go, store.go)   *)
(* together with the expiry job of internal/jobs.                          *)
(*                                                                         *)
(* Every statement the code sends to the database or to Redis is one step, *)
(* so requests interleave exactly where the code lets them: between a read *)
(* and the conditional UPDATE that follows it, between the availability    *)
(* check and the slot lock, between an UPDATE and its history row.  The    *)
(* rows are those of one professional, since every statement of the        *)
(* component selects by booking id or by professional_id.                  *)
(*                                                                         *)
(* Abstracted: money (a deposit is due or not, paid or not), wording, the  *)
(* who of a request (authorisation only ever refuses) and the weekly       *)
(* windows, which only narrow Starts.                                      *)
(***************************************************************************)
EXTENDS Integers, FiniteSets

CONSTANTS
  BookingIds,      \* ids of the rows the run may insert
  Requests,        \* handlers and jobs running at the same time
  Starts,          \* start times inside the professional's open hours
  Durations,       \* lengths of the services on offer
  Buffer,          \* BOOKING_BUFFER_MINUTES
  Travel,          \* HOME_SERVICE_TRAVEL_MINUTES
  Keys,            \* values of the Idempotency-Key header
  Offers,          \* the terms customers ask for
  Ops,             \* the operations clients and the scheduler issue
  SnapshotAtBegin, \* TRUE: a transaction reads as of START TRANSACTION (TiDB)
                   \* FALSE: as of its first plain SELECT (InnoDB)
  MaxCount,        \* bound on professionals.booking_count
  None

AllOps == {"create", "reschedule", "confirm", "start", "complete", "cancel", "expire"}

\* A length may be any integer: Update of a service and the delta of a variant
\* are not validated (internal/services/service.go:45-63, store.go:56-60).
ASSUME ConstantsAssumption ==
  /\ Starts \subseteq Nat
  /\ Durations \subseteq Int
  /\ Buffer \in Nat
  /\ Travel \in Nat
  /\ Offers \subseteq [home : BOOLEAN, deposit : BOOLEAN, key : Keys \cup {None}]
  /\ Ops \subseteq AllOps
  /\ SnapshotAtBegin \in BOOLEAN
  /\ MaxCount \in Nat

ASSUME NoneAssumption == None \notin BookingIds \cup Requests \cup Keys \cup AllOps

VARIABLES
  status,       \* bookings.status, "NONE" while the row does not exist
  span,         \* bookings.start_at and end_at
  terms,        \* what Create fixes for good: home service, deposit due, key
  depositPaid,  \* bookings with a SUCCEEDED DEPOSIT intent (payment_intents)
  history,      \* booking_status_history: the set of <<from, to>> per booking
  bookingCount, \* professionals.booking_count
  slotLocks,    \* Redis keys booking:slot:<pro>:<start> that are set
  rowLock,      \* the request whose transaction locks the professionals row
  pc,           \* the next statement of each request
  req,          \* each request's local variables
  \* History variables: no guard reads them.
  displaced,    \* bookings moved or revived after Create
  missed,       \* the bookings made since each open transaction looked
  crossed,      \* <<b, c>>: the Create of b did not see c, which was there before b
  unkeyed,      \* Creates whose slot key expired or was deleted under them
  unguarded,    \* the bookings such Creates inserted
  reopened      \* how often Confirm took back a completion

table == <<status, span, terms>>
locks == <<slotLocks, rowLock>>
meetings == <<missed, crossed, unkeyed, unguarded>>
marks == <<displaced, meetings, reopened>>
vars == <<table, depositPaid, history, bookingCount, locks, pc, req, marks>>

-----------------------------------------------------------------------------
Active == {"PENDING", "CONFIRMED", "IN_PROGRESS"}
Statuses == Active \cup {"COMPLETED", "CANCELLED", "NO_SHOW"}
Events == ({"", "NONE"} \cup Statuses) \X (Statuses \cup {"NONE"})
Spans == [start : Int, end : Int]
Terms == [home : BOOLEAN, deposit : BOOLEAN, key : Keys \cup {None}]
Steps == {"idle", "claim", "begin", "lock", "check", "insert",
          "write", "move", "event", "release"}

Locals == [op : AllOps \cup {None}, booking : BookingIds \cup {None},
           from : Statuses \cup {"NONE"}, span : Spans, terms : Terms,
           free : BOOLEAN]

NoSpan == [start |-> 0, end |-> 0]
NoTerms == [home |-> FALSE, deposit |-> FALSE, key |-> None]
NoLocals == [op |-> None, booking |-> None, from |-> "NONE", span |-> NoSpan,
             terms |-> NoTerms, free |-> FALSE]

\* The target status of a read-then-write operation.
Target(op) == CASE op = "confirm" -> "CONFIRMED"
                [] op = "start" -> "IN_PROGRESS"
                [] op = "complete" -> "COMPLETED"
                [] OTHER -> "CANCELLED"

\* The statuses in which the handler goes on after GetByID.  Confirm checks
\* the deposit but not the status.
Accepts(op) == CASE op = "confirm" -> Statuses
                 [] op = "start" -> {"CONFIRMED"}
                 [] op = "complete" -> {"CONFIRMED", "IN_PROGRESS"}
                 [] op = "cancel" -> Active
                 [] OTHER -> {"PENDING"}

-----------------------------------------------------------------------------
\* Variants of the definitions below that a slip in the code would give; the
\* runs show that the properties tell them from the code.
ConfirmUngated(op, b) == TRUE
MatchesById(b, from, to) == from # to
KeyAlwaysUnused(k) == TRUE
CompletedUncounted(b) == UNCHANGED bookingCount
RollbackForgotten(p) == UNCHANGED rowLock
OverlapsSettled(b, w) ==
  status[b] \in {"CONFIRMED", "IN_PROGRESS"} /\ span[b].start < w.end /\ span[b].end > w.start
WithoutMargins(s, t) == s

-----------------------------------------------------------------------------
\* HasSucceededDeposit, asked by Confirm when a deposit is due.
DepositGatePasses(op, b) ==
  op = "confirm" /\ terms[b].deposit => b \in depositPaid

\* checkBounds: the interval a new booking must find free.
CheckBounds(s, t) ==
  [start |-> IF t.home THEN s.start - Travel ELSE s.start,
   end |-> s.end + Buffer]

\* ListOverlapping and the conflict query of CreateIfSlotFree.
Overlaps(b, w) ==
  status[b] \in Active /\ span[b].start < w.end /\ span[b].end > w.start

SlotFree(w, exclude) ==
  \A b \in BookingIds \ {exclude} : ~Overlaps(b, w)

\* WHERE id = ? AND status = ?, and the row really changes (the driver counts
\* changed rows, so confirming a CONFIRMED booking affects none).
Matches(b, from, to) == status[b] = from /\ from # to

\* GetByIdempotencyKey and the unique index uq_bookings_idempotency.
KeyUnused(k) ==
  k # None => \A b \in BookingIds : status[b] # "NONE" => terms[b].key # k

\* The history row of a handler: Reschedule passes no from_status, and as
\* to_status the status it read at the start.
Event(r) == IF r.op = "reschedule" THEN <<"", r.from>> ELSE <<r.from, Target(r.op)>>

\* booking_count = booking_count + 1, in CompleteStatus.
CountCompleted(b) == bookingCount' = bookingCount + 1

\* tx.Rollback or tx.Commit: the lock on the professionals row is given up.
EndTransaction(p) == rowLock' = IF rowLock = p THEN None ELSE rowLock

Goto(p, step) == pc' = [pc EXCEPT ![p] = step]
Finish(p) == Goto(p, "idle") /\ req' = [req EXCEPT ![p] = NoLocals]

Init ==
  /\ status = [b \in BookingIds |-> "NONE"]
  /\ span = [b \in BookingIds |-> NoSpan]
  /\ terms = [b \in BookingIds |-> NoTerms]
  /\ depositPaid = {}
  /\ history = [b \in BookingIds |-> {}]
  /\ bookingCount = 0
  /\ slotLocks = {}
  /\ rowLock = None
  /\ pc = [p \in Requests |-> "idle"]
  /\ req = [p \in Requests |-> NoLocals]
  /\ displaced = {}
  /\ missed = [p \in Requests |-> {}]
  /\ crossed = {}
  /\ unkeyed = {}
  /\ unguarded = {}
  /\ reopened = 0

-----------------------------------------------------------------------------
(* Create and Reschedule: the part before the slot lock. *)

\* Bound: no Create is begun when no id is left for its row.
IdLeft == \E b \in BookingIds : status[b] = "NONE"

\* Service.Create up to slotAvailable: the key is new and the extended interval
\* is free.  A refusal changes nothing and is not a step.
CreateRequest(p, s, d, t) ==
  LET asked == [start |-> s, end |-> s + d] IN
  /\ "create" \in Ops
  /\ pc[p] = "idle"
  /\ IdLeft
  /\ KeyUnused(t.key)
  /\ SlotFree(CheckBounds(asked, t), None)
  /\ req' = [req EXCEPT ![p] = [NoLocals EXCEPT !.op = "create", !.span = asked,
                                                !.terms = t]]
  /\ Goto(p, "claim")
  /\ UNCHANGED <<table, depositPaid, history, bookingCount, locks, marks>>

\* Service.Reschedule up to slotAvailable: the booking keeps its length and is
\* left out of the overlap check.
RescheduleRequest(p, b, s) ==
  LET asked == [start |-> s, end |-> s + (span[b].end - span[b].start)] IN
  /\ "reschedule" \in Ops
  /\ pc[p] = "idle"
  /\ status[b] \in {"PENDING", "CONFIRMED"}
  /\ SlotFree(CheckBounds(asked, terms[b]), b)
  /\ req' = [req EXCEPT ![p] = [NoLocals EXCEPT !.op = "reschedule", !.booking = b,
                                  !.from = status[b], !.span = asked]]
  /\ Goto(p, "claim")
  /\ UNCHANGED <<table, depositPaid, history, bookingCount, locks, marks>>

\* SET on the start time, whoever holds it.
ClaimTakenSlot(p) ==
  /\ pc[p] = "claim"
  /\ slotLocks' = slotLocks \cup {req[p].span.start}
  /\ unkeyed' = unkeyed \ {p}
  /\ Goto(p, IF req[p].op = "create" THEN "begin" ELSE "move")
  /\ UNCHANGED <<table, depositPaid, history, bookingCount, rowLock, req>>
  /\ UNCHANGED <<displaced, missed, crossed, unguarded, reopened>>

\* acquireSlotLock: SET NX on the exact start time, or 409 slot_just_booked.
ClaimSlot(p) ==
  /\ pc[p] = "claim"
  /\ IF req[p].span.start \in slotLocks
     THEN Finish(p) /\ UNCHANGED <<slotLocks, unkeyed>>
     ELSE /\ slotLocks' = slotLocks \cup {req[p].span.start}
          /\ unkeyed' = unkeyed \ {p}
          /\ Goto(p, IF req[p].op = "create" THEN "begin" ELSE "move")
          /\ UNCHANGED req
  /\ UNCHANGED <<table, depositPaid, history, bookingCount, rowLock>>
  /\ UNCHANGED <<displaced, missed, crossed, unguarded, reopened>>

\* The Creates that count on the key of a start time.
Claimants(s) ==
  {p \in Requests : pc[p] \in {"begin", "lock", "check", "insert"} /\ req[p].span.start = s}

\* DEL, or the end of the TTL: the key is gone for whoever counts on it.
DropKey(s) ==
  /\ slotLocks' = slotLocks \ {s}
  /\ unkeyed' = unkeyed \cup Claimants(s)

\* releaseSlotLock: DEL, whoever set the key that is there now.
ReleaseSlot(p) ==
  /\ pc[p] = "release"
  /\ DropKey(req[p].span.start)
  /\ Finish(p)
  /\ UNCHANGED <<table, depositPaid, history, bookingCount, rowLock>>
  /\ UNCHANGED <<displaced, missed, crossed, unguarded, reopened>>

\* The TTL of a slot key runs out, whether or not its request is still working.
SlotLockExpires(s) ==
  /\ s \in slotLocks
  /\ DropKey(s)
  /\ UNCHANGED <<table, depositPaid, history, bookingCount, rowLock, pc, req>>
  /\ UNCHANGED <<displaced, missed, crossed, unguarded, reopened>>

-----------------------------------------------------------------------------
(* Store.CreateIfSlotFree: one transaction, four statements. *)

\* What others insert from here on the request will not see.
Look(p) == missed' = [missed EXCEPT ![p] = {}]

InTransaction(p) == pc[p] \in {"lock", "check", "insert"}

\* BeginTx: under TiDB the later plain SELECT will see the rows as of now.
BeginTx(p) ==
  /\ pc[p] = "begin"
  /\ req' = [req EXCEPT ![p].free =
               SnapshotAtBegin /\ SlotFree(CheckBounds(req[p].span, req[p].terms), None)]
  /\ Look(p)
  /\ Goto(p, "lock")
  /\ UNCHANGED <<table, depositPaid, history, bookingCount, locks>>
  /\ UNCHANGED <<displaced, crossed, unkeyed, unguarded, reopened>>

\* SELECT 1 FROM professionals ... FOR UPDATE.
LockProfessional(p) ==
  /\ pc[p] = "lock"
  /\ rowLock = None
  /\ rowLock' = p
  /\ Goto(p, "check")
  /\ UNCHANGED <<table, depositPaid, history, bookingCount, slotLocks, req, marks>>

\* SELECT id FROM bookings ...: a conflict rolls back and answers 409.
CheckOverlap(p) ==
  /\ pc[p] = "check"
  /\ IF IF SnapshotAtBegin THEN req[p].free
        ELSE SlotFree(CheckBounds(req[p].span, req[p].terms), None)
     THEN Goto(p, "insert") /\ UNCHANGED rowLock
     ELSE Goto(p, "release") /\ EndTransaction(p)
  /\ IF SnapshotAtBegin THEN UNCHANGED missed ELSE Look(p)
  /\ UNCHANGED <<table, depositPaid, history, bookingCount, slotLocks, req>>
  /\ UNCHANGED <<displaced, crossed, unkeyed, unguarded, reopened>>

\* The two INSERTs and COMMIT.
InsertBooking(p, b) ==
  /\ pc[p] = "insert"
  /\ status[b] = "NONE"
  /\ KeyUnused(req[p].terms.key)
  /\ status' = [status EXCEPT ![b] = "PENDING"]
  /\ span' = [span EXCEPT ![b] = req[p].span]
  /\ terms' = [terms EXCEPT ![b] = req[p].terms]
  /\ history' = [history EXCEPT ![b] = {<<"", "PENDING">>}]
  /\ EndTransaction(p)
  /\ Goto(p, "release")
  /\ missed' = [q \in Requests |-> IF q = p THEN {}
                                    ELSE missed[q] \cup {c \in {b} : InTransaction(q)}]
  /\ crossed' = crossed \cup ({b} \X missed[p])
  /\ unguarded' = IF p \in unkeyed THEN unguarded \cup {b} ELSE unguarded
  /\ UNCHANGED <<depositPaid, bookingCount, slotLocks, req, displaced, unkeyed, reopened>>

\* One of the INSERTs fails: the key is taken by now, or any database error.
InsertFails(p) ==
  /\ pc[p] = "insert"
  /\ EndTransaction(p)
  /\ Goto(p, "release")
  /\ UNCHANGED <<table, depositPaid, history, bookingCount, slotLocks, req, marks>>

-----------------------------------------------------------------------------
(* Reads, then writes: Confirm, Start, Complete, Cancel, ExpireStalePending. *)

\* Bound: no more completions are asked for than MaxCount allows.
CountBound ==
  bookingCount + Cardinality({p \in Requests : req[p].op = "complete"}) < MaxCount

\* GetByID and the handler's checks on what it returned.
ReadBooking(p, op, b) ==
  /\ op \in Ops \ {"create", "reschedule"}
  /\ pc[p] = "idle"
  /\ status[b] \in Accepts(op)
  /\ DepositGatePasses(op, b)
  /\ op = "complete" => CountBound
  /\ req' = [req EXCEPT ![p] = [NoLocals EXCEPT !.op = op, !.booking = b,
                                                !.from = status[b]]]
  /\ Goto(p, "write")
  /\ UNCHANGED <<table, depositPaid, history, bookingCount, locks, marks>>

\* Any PENDING booking may be old enough.
ListStalePending == {b \in BookingIds : status[b] = "PENDING"}

\* The expiry job takes up a booking of its list; a list read once serves many
\* bookings, each of which may have moved on by the time of its UPDATE.
ExpireStalePending(p, b) == b \in ListStalePending /\ ReadBooking(p, "expire", b)

\* Store.UpdateStatus: the conditional UPDATE; no row affected is a 409.
UpdateStatus(p) ==
  LET b == req[p].booking
      to == Target(req[p].op)
  IN
  /\ pc[p] = "write"
  /\ req[p].op # "complete"
  /\ IF Matches(b, req[p].from, to)
     THEN /\ status' = [status EXCEPT ![b] = to]
          /\ displaced' = IF to \in Active /\ status[b] \notin Active
                          THEN displaced \cup {b} ELSE displaced
          /\ reopened' = IF status[b] = "COMPLETED" THEN reopened + 1 ELSE reopened
          /\ Goto(p, "event")
          /\ UNCHANGED req
     ELSE Finish(p) /\ UNCHANGED <<status, displaced, reopened>>
  /\ UNCHANGED <<span, terms, depositPaid, history, bookingCount, locks, meetings>>

\* Store.CompleteStatus: status, count and history row in one transaction,
\* which waits for the professionals row while a Create holds it.
CompleteStatus(p) ==
  LET b == req[p].booking IN
  /\ pc[p] = "write"
  /\ req[p].op = "complete"
  /\ rowLock = None
  /\ IF Matches(b, req[p].from, "COMPLETED")
     THEN /\ status' = [status EXCEPT ![b] = "COMPLETED"]
          /\ CountCompleted(b)
          /\ history' = [history EXCEPT ![b] = @ \cup {<<req[p].from, "COMPLETED">>}]
     ELSE UNCHANGED <<status, bookingCount, history>>
  /\ Finish(p)
  /\ UNCHANGED <<span, terms, depositPaid, locks, marks>>

\* Store.Reschedule: UPDATE ... WHERE id = ?, whatever the status is by now.
\* The same times again affect no row and answer 404.
MoveBooking(p) ==
  LET b == req[p].booking IN
  /\ pc[p] = "move"
  /\ IF span[b] # req[p].span
     THEN /\ span' = [span EXCEPT ![b] = req[p].span]
          /\ displaced' = displaced \cup {b}
          /\ Goto(p, "event")
     ELSE Goto(p, "release") /\ UNCHANGED <<span, displaced>>
  /\ UNCHANGED <<status, terms, depositPaid, history, bookingCount, locks, req>>
  /\ UNCHANGED <<meetings, reopened>>

\* AddStatusEvent, a statement of its own after UpdateStatus and Reschedule.
AddStatusEvent(p) ==
  LET b == req[p].booking IN
  /\ pc[p] = "event"
  /\ history' = [history EXCEPT ![b] = @ \cup {Event(req[p])}]
  /\ IF req[p].op = "reschedule" THEN Goto(p, "release") /\ UNCHANGED req ELSE Finish(p)
  /\ UNCHANGED <<table, depositPaid, bookingCount, locks, marks>>

-----------------------------------------------------------------------------
(* The environment. *)

\* payments.Store.MarkIntentSucceeded on the booking's DEPOSIT intent; intents
\* are created and paid whatever the status of the booking.
DepositSucceeds(b) ==
  /\ status[b] # "NONE"
  /\ terms[b].deposit
  /\ b \notin depositPaid
  /\ depositPaid' = depositPaid \cup {b}
  /\ UNCHANGED <<table, history, bookingCount, locks, pc, req, marks>>

\* The process dies, the client goes away (every statement runs under the
\* request's context) or a statement fails: the transaction rolls back, the
\* rest of the handler does not run, the slot key stays until its TTL.
Abandon(p) ==
  /\ pc[p] # "idle"
  /\ EndTransaction(p)
  /\ Finish(p)
  /\ UNCHANGED <<table, depositPaid, history, bookingCount, slotLocks, marks>>

Request(p) ==
  \/ \E s \in Starts, d \in Durations, t \in Offers : CreateRequest(p, s, d, t)
  \/ \E b \in BookingIds, s \in Starts : RescheduleRequest(p, b, s)
  \/ \E op \in AllOps \ {"expire"}, b \in BookingIds : ReadBooking(p, op, b)
  \/ \E b \in BookingIds : ExpireStalePending(p, b)

\* What a request does once it is under way.
Continue(p) ==
  \/ ClaimSlot(p) \/ ReleaseSlot(p)
  \/ BeginTx(p) \/ LockProfessional(p) \/ CheckOverlap(p)
  \/ \E b \in BookingIds : InsertBooking(p, b)
  \/ InsertFails(p)
  \/ UpdateStatus(p) \/ CompleteStatus(p) \/ MoveBooking(p) \/ AddStatusEvent(p)

Next ==
  \/ \E p \in Requests : Request(p) \/ Continue(p) \/ Abandon(p)
  \/ \E s \in Starts : SlotLockExpires(s)
  \/ \E b \in BookingIds : DepositSucceeds(b)

Spec == Init /\ [][Next]_vars

\* A handler that was given the CPU goes on to its next statement, and the
\* database grants a row lock to waiters in turn, so a waiter that is passed over
\* again and again gets it in the end.
Fairness ==
  \A p \in Requests :
    /\ WF_vars(Continue(p))
    /\ SF_vars(LockProfessional(p) \/ CompleteStatus(p))

FairSpec == Spec /\ Fairness

-----------------------------------------------------------------------------
(* Properties *)

\* Every variable keeps its type.
TypeOK ==
  /\ status \in [BookingIds -> Statuses \cup {"NONE"}]
  /\ span \in [BookingIds -> Spans]
  /\ terms \in [BookingIds -> Terms]
  /\ depositPaid \in SUBSET BookingIds
  /\ history \in [BookingIds -> SUBSET Events]
  /\ bookingCount \in Nat
  /\ slotLocks \in SUBSET Int
  /\ rowLock \in Requests \cup {None}
  /\ pc \in [Requests -> Steps]
  /\ req \in [Requests -> Locals]
  /\ displaced \in SUBSET BookingIds
  /\ missed \in [Requests -> SUBSET BookingIds]
  /\ crossed \in SUBSET (BookingIds \X BookingIds)
  /\ unkeyed \in SUBSET Requests
  /\ unguarded \in SUBSET BookingIds
  /\ reopened \in Nat

Disjoint(b, c) == span[b].end <= span[c].start \/ span[c].end <= span[b].start

\* The bookings that are active where Create put them: neither moved by Reschedule
\* nor brought back by Confirm after they had stopped being active.
Held == {b \in BookingIds \ displaced : status[b] \in Active}

\* One of the two Creates did not see the booking of the other.
Crossed(b, c) == <<b, c>> \in crossed \/ <<c, b>> \in crossed

\* "so a slot is never double-booked" (service.go:85-86), as far as the check in
\* the transaction goes: two bookings that are active where Create put them overlap
\* only if one of them was inserted while the transaction of the other was open,
\* whatever moves, confirmations, cancellations, crashes and expired keys there were.
CreatesDisjoint ==
  \A b, c \in Held : b # c => Disjoint(b, c) \/ Crossed(b, c)

\* "concurrent creates for the same professional serialize against each other,
\* closing the check-then-insert race even when bookings start at different times"
\* (store.go:131-134): bookings active where Create put them never overlap.
CreatesSerialize == \A b, c \in Held : b # c => Disjoint(b, c)

\* Two Creates that did not see each other's booking start at different times as
\* long as both still held their slot key at the INSERT: SET NX keeps equal starts
\* apart where the transactions do not (service.go:85-86, 176-184).
KeysKeepStartsApart ==
  \A b, c \in BookingIds \ (displaced \cup unguarded) :
    <<b, c>> \in crossed => span[b].start # span[c].start

\* The bookings as Calendar sees them.
Shown(b) == [booking |-> b, start |-> span[b].start, end |-> span[b].end, home |-> terms[b].home]

Promise == INSTANCE Calendar WITH
  held <- {Shown(b) : b \in Held},
  made <- {b \in BookingIds : status[b] # "NONE"}

\* However requests interleave, crash and outlive their slot keys, Create looks
\* like a look at the calendar and one later step that puts the booking where it
\* and its margins meet nothing that was there at the look (store.go:130,
\* service.go:618-626), and nothing else puts, prolongs or brings back a booking
\* that is not marked as displaced.
ImplementsCalendar == Promise!Spec

\* A booking whose deposit is due is never confirmed, nor anything later,
\* before the deposit was paid (store.go:249-251), even when an expiry, a
\* cancellation and a payment cross the confirmation.
DepositGate ==
  \A b \in BookingIds :
    status[b] \in {"CONFIRMED", "IN_PROGRESS", "COMPLETED"} /\ terms[b].deposit
      => b \in depositPaid

\* The lifecycle, as the handlers mean it: each status change leaves from a
\* status its handler accepts, although the handler read the status long before
\* it writes (UpdateStatus and CompleteStatus compare before they set).
LifecycleStep(from, to) ==
  \/ from = "NONE" /\ to = "PENDING"
  \/ from \in Statuses /\ to = "CONFIRMED"
  \/ from = "CONFIRMED" /\ to = "IN_PROGRESS"
  \/ from \in {"CONFIRMED", "IN_PROGRESS"} /\ to = "COMPLETED"
  \/ from \in Active /\ to = "CANCELLED"

FollowsLifecycle ==
  [][\A b \in BookingIds :
       status'[b] # status[b] => LifecycleStep(status[b], status'[b])]_vars

\* What the parties of a booking are shown of its history.
ListStatusEvents(b) == history[b]

\* "so the two can never diverge" (store.go:336-337): in every state, whatever
\* crashes, a COMPLETED booking shows when it was completed, and the completions
\* counted are the COMPLETED bookings and those that Confirm took back
\* (service.go:307 accepts any status, and nothing counts down).
CompletionRecorded ==
  /\ \A b \in BookingIds : status[b] = "COMPLETED" =>
       \E from \in {"CONFIRMED", "IN_PROGRESS"} : <<from, "COMPLETED">> \in ListStatusEvents(b)
  /\ bookingCount = Cardinality({b \in BookingIds : status[b] = "COMPLETED"}) + reopened

\* A retried request never books twice: a key names at most one booking, also
\* when both attempts passed the lookup (service.go:123-131).
KeyNamesOneBooking ==
  \A b, c \in BookingIds :
    /\ b # c
    /\ status[b] # "NONE"
    /\ status[c] # "NONE"
    /\ terms[b].key = terms[c].key
    => terms[b].key = None

\* Every request ends, whatever locks the others hold, lose or leave behind.
RequestsEnd == \A p \in Requests : pc[p] # "idle" ~> pc[p] = "idle"

=============================================================================
