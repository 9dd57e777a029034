--------------------------- MODULE BookingsProofs ---------------------------
(* What the calendar guarantees for any number of bookings and requests.   *)
EXTENDS Bookings, FiniteSetTheorems, TLAPS

USE DEF marks, meetings

-----------------------------------------------------------------------------
(* The inductive invariant *)

\* A request about to write holds the id of an existing row.
BookingNamed ==
  \A p \in Requests :
    pc[p] = "write" \/ req[p].op = "reschedule" =>
      req[p].booking \in BookingIds /\ status[req[p].booking] # "NONE"

\* Who reaches which statement.
StepsBelong ==
  \A p \in Requests :
    /\ pc[p] = "claim" => req[p].op \in {"create", "reschedule"}
    /\ pc[p] = "move" => req[p].op = "reschedule"

\* What the handler checked before it writes is still what its locals say, and
\* a deposit seen as paid stays paid.
ReadAccepted ==
  \A p \in Requests :
    pc[p] = "write" =>
      /\ req[p].op \in AllOps \ {"create", "reschedule"}
      /\ req[p].from \in Accepts(req[p].op)
      /\ DepositGatePasses(req[p].op, req[p].booking)

\* A request that found its time free still finds it free of all that was there
\* when it looked, but for bookings that Reschedule or Confirm slipped in.
InsertClear ==
  \A p \in Requests :
    pc[p] = "insert" \/ (pc[p] \in {"lock", "check"} /\ req[p].free) =>
      \A b \in BookingIds \ (displaced \cup missed[p]) :
        ~Overlaps(b, CheckBounds(req[p].span, req[p].terms))

-----------------------------------------------------------------------------
(* Types *)

\* The locals a request starts with are well typed.
LEMMA NoLocalsType == NoLocals \in Locals
  BY DEF NoLocals, Locals, NoSpan, NoTerms, Spans, Terms, Statuses, Active, AllOps

\* Ending a request or moving it to another statement keeps pc and req typed.
LEMMA GotoType ==
  ASSUME TypeOK, NEW p \in Requests, NEW step \in Steps, Goto(p, step)
  PROVE  pc' \in [Requests -> Steps]
  BY DEF TypeOK, Goto

LEMMA FinishType ==
  ASSUME TypeOK, NEW p \in Requests, Finish(p)
  PROVE  /\ pc' \in [Requests -> Steps]
         /\ req' \in [Requests -> Locals]
  BY NoLocalsType DEF TypeOK, Finish, Goto, Steps

LEMMA EndTransactionType ==
  ASSUME TypeOK, NEW p \in Requests, EndTransaction(p)
  PROVE  rowLock' \in Requests \cup {None}
  BY DEF TypeOK, EndTransaction

LEMMA LookType ==
  ASSUME TypeOK, NEW p \in Requests, Look(p)
  PROVE  missed' \in [Requests -> SUBSET BookingIds]
  BY DEF TypeOK, Look

LEMMA DropKeyType ==
  ASSUME TypeOK, NEW s, DropKey(s)
  PROVE  slotLocks' \in SUBSET Int /\ unkeyed' \in SUBSET Requests
  BY DEF TypeOK, DropKey, Claimants

LEMMA InitType == Init => TypeOK
  BY NoLocalsType
     DEF Init, TypeOK, NoSpan, NoTerms, Spans, Terms, Steps

LEMMA CreateRequestType ==
  ASSUME TypeOK, NEW p \in Requests, NEW s \in Starts, NEW d \in Durations,
         NEW t \in Offers, CreateRequest(p, s, d, t)
  PROVE  TypeOK'
<1>1. t \in Terms
  BY ConstantsAssumption DEF Terms
<1>2. [start |-> s, end |-> s + d] \in Spans
  BY ConstantsAssumption DEF Spans
<1>3. [NoLocals EXCEPT !.op = "create", !.span = [start |-> s, end |-> s + d],
                       !.terms = t] \in Locals
  BY <1>1, <1>2, NoLocalsType DEF Locals, AllOps
<1>4. req' \in [Requests -> Locals]
  BY <1>3 DEF CreateRequest, TypeOK
<1>5. pc' \in [Requests -> Steps]
  BY DEF CreateRequest, Goto, TypeOK, Steps
<1>. QED
  BY <1>4, <1>5 DEF CreateRequest, TypeOK, table, locks

LEMMA RescheduleRequestType ==
  ASSUME TypeOK, NEW p \in Requests, NEW b \in BookingIds, NEW s \in Starts,
         RescheduleRequest(p, b, s)
  PROVE  TypeOK'
<1>. DEFINE asked == [start |-> s, end |-> s + (span[b].end - span[b].start)]
<1>1. asked \in Spans
  <2>1. span[b].start \in Int /\ span[b].end \in Int
    BY DEF TypeOK, Spans
  <2>2. s \in Int
    BY ConstantsAssumption
  <2>. QED
    BY <2>1, <2>2 DEF Spans
<1>2. status[b] \in Statuses
  BY DEF RescheduleRequest, Statuses, Active
<1>3. [NoLocals EXCEPT !.op = "reschedule", !.booking = b, !.from = status[b],
                       !.span = asked] \in Locals
  BY <1>1, <1>2, NoLocalsType DEF Locals, AllOps
<1>4. req' \in [Requests -> Locals]
  BY <1>3 DEF RescheduleRequest, TypeOK
<1>5. pc' \in [Requests -> Steps]
  BY DEF RescheduleRequest, Goto, TypeOK, Steps
<1>. QED
  BY <1>4, <1>5 DEF RescheduleRequest, TypeOK, table, locks

LEMMA ReadBookingType ==
  ASSUME TypeOK, NEW p \in Requests, NEW op \in AllOps, NEW b \in BookingIds,
         ReadBooking(p, op, b)
  PROVE  TypeOK'
<1>1. status[b] \in Statuses \cup {"NONE"}
  BY DEF TypeOK
<1>2. [NoLocals EXCEPT !.op = op, !.booking = b, !.from = status[b]] \in Locals
  BY <1>1, NoLocalsType DEF Locals
<1>3. req' \in [Requests -> Locals]
  BY <1>2 DEF ReadBooking, TypeOK
<1>4. pc' \in [Requests -> Steps]
  BY DEF ReadBooking, Goto, TypeOK, Steps
<1>. QED
  BY <1>3, <1>4 DEF ReadBooking, TypeOK, table, locks

LEMMA ClaimSlotType ==
  ASSUME TypeOK, NEW p \in Requests, ClaimSlot(p)
  PROVE  TypeOK'
<1>1. req[p].span.start \in Int
  BY DEF TypeOK, Locals, Spans
<1>2. CASE req[p].span.start \in slotLocks
  <2>1. Finish(p) /\ UNCHANGED slotLocks
    BY <1>2 DEF ClaimSlot
  <2>. QED
    BY <1>2, <2>1, FinishType DEF ClaimSlot, TypeOK, table
<1>3. CASE req[p].span.start \notin slotLocks
  <2>1. slotLocks' \in SUBSET Int /\ unkeyed' \in SUBSET Requests /\ UNCHANGED req
    BY <1>1, <1>3 DEF ClaimSlot, TypeOK
  <2>2. pc' \in [Requests -> Steps]
    BY <1>3 DEF ClaimSlot, Goto, TypeOK, Steps
  <2>. QED
    BY <2>1, <2>2 DEF ClaimSlot, TypeOK, table
<1>. QED
  BY <1>2, <1>3

LEMMA ReleaseSlotType ==
  ASSUME TypeOK, NEW p \in Requests, ReleaseSlot(p)
  PROVE  TypeOK'
  BY FinishType, DropKeyType DEF ReleaseSlot, TypeOK, table

LEMMA BeginTxType ==
  ASSUME TypeOK, NEW p \in Requests, BeginTx(p)
  PROVE  TypeOK'
<1>. DEFINE seen == SnapshotAtBegin /\ SlotFree(CheckBounds(req[p].span, req[p].terms), None)
<1>1. seen \in BOOLEAN
  BY ZenonT(10) DEF SlotFree
<1>2. req' = [req EXCEPT ![p].free = seen]
  BY DEF BeginTx
<1>. HIDE DEF seen
<1>3. req' \in [Requests -> Locals]
  BY <1>1, <1>2 DEF TypeOK, Locals
<1>4. pc' \in [Requests -> Steps]
  BY DEF BeginTx, Goto, TypeOK, Steps
<1>. QED
  BY <1>3, <1>4, LookType DEF BeginTx, TypeOK, table, locks

LEMMA LockProfessionalType ==
  ASSUME TypeOK, NEW p \in Requests, LockProfessional(p)
  PROVE  TypeOK'
  BY DEF LockProfessional, Goto, TypeOK, Steps, table

LEMMA CheckOverlapType ==
  ASSUME TypeOK, NEW p \in Requests, CheckOverlap(p)
  PROVE  TypeOK'
<1>1. pc' \in [Requests -> Steps]
  BY DEF CheckOverlap, Goto, TypeOK, Steps
<1>2. rowLock' \in Requests \cup {None}
  BY EndTransactionType DEF CheckOverlap, TypeOK
<1>3. missed' \in [Requests -> SUBSET BookingIds]
  BY LookType DEF CheckOverlap, TypeOK
<1>. QED
  BY <1>1, <1>2, <1>3 DEF CheckOverlap, TypeOK, table

LEMMA InsertBookingType ==
  ASSUME TypeOK, NEW p \in Requests, NEW b \in BookingIds, InsertBooking(p, b)
  PROVE  TypeOK'
<1>1. req[p].span \in Spans /\ req[p].terms \in Terms
  BY DEF TypeOK, Locals
<1>2. pc' \in [Requests -> Steps]
  BY DEF InsertBooking, Goto, TypeOK, Steps
<1>3. rowLock' \in Requests \cup {None}
  BY EndTransactionType DEF InsertBooking
<1>4. status' \in [BookingIds -> Statuses \cup {"NONE"}]
  BY DEF InsertBooking, TypeOK, Statuses, Active
<1>5. history' \in [BookingIds -> SUBSET Events]
  <2>. DEFINE first == {<<"", "PENDING">>}
  <2>1. <<"", "PENDING">> \in Events
    BY DEF Events, Statuses, Active
  <2>3. first \in SUBSET Events
    BY <2>1
  <2>2. history' = [history EXCEPT ![b] = first]
    BY DEF InsertBooking
  <2>. HIDE DEF first
  <2>. QED
    BY <2>2, <2>3 DEF TypeOK
<1>6. /\ missed' \in [Requests -> SUBSET BookingIds]
      /\ crossed' \in SUBSET (BookingIds \X BookingIds)
      /\ unguarded' \in SUBSET BookingIds
  <2>1. missed[p] \in SUBSET BookingIds
    BY DEF TypeOK
  <2>2. crossed' \in SUBSET (BookingIds \X BookingIds)
    BY <2>1 DEF InsertBooking, TypeOK
  <2>3. missed' \in [Requests -> SUBSET BookingIds]
    BY DEF InsertBooking, TypeOK
  <2>. QED
    BY <2>2, <2>3 DEF InsertBooking, TypeOK
<1>. QED
  BY <1>1, <1>2, <1>3, <1>4, <1>5, <1>6 DEF InsertBooking, TypeOK

LEMMA InsertFailsType ==
  ASSUME TypeOK, NEW p \in Requests, InsertFails(p)
  PROVE  TypeOK'
<1>1. pc' \in [Requests -> Steps]
  BY DEF InsertFails, Goto, TypeOK, Steps
<1>. QED
  BY <1>1, EndTransactionType DEF InsertFails, TypeOK, table

LEMMA TargetType == ASSUME NEW op PROVE Target(op) \in Statuses
  BY DEF Target, Statuses, Active

LEMMA UpdateStatusType ==
  ASSUME TypeOK, BookingNamed, NEW p \in Requests, UpdateStatus(p)
  PROVE  TypeOK'
<1>. DEFINE b == req[p].booking
            to == Target(req[p].op)
<1>1. CASE Matches(b, req[p].from, to)
  <2>1. status' = [status EXCEPT ![b] = to] /\ UNCHANGED req /\ Goto(p, "event")
    BY <1>1 DEF UpdateStatus
  <2>2. status' \in [BookingIds -> Statuses \cup {"NONE"}]
    BY <2>1, TargetType DEF TypeOK
  <2>3. displaced' \in SUBSET BookingIds /\ reopened' \in Nat
    <3>1. b \in BookingIds
      BY DEF UpdateStatus, BookingNamed
    <3>2. displaced' \in {displaced, displaced \cup {b}} /\ reopened' \in {reopened, reopened + 1}
      BY <1>1 DEF UpdateStatus
    <3>. QED
      BY <3>1, <3>2 DEF TypeOK
  <2>4. pc' \in [Requests -> Steps]
    BY <2>1 DEF Goto, TypeOK, Steps
  <2>. QED
    BY <2>1, <2>2, <2>3, <2>4 DEF UpdateStatus, TypeOK, locks
<1>2. CASE ~Matches(b, req[p].from, to)
  <2>1. Finish(p) /\ UNCHANGED <<status, displaced, reopened>>
    BY <1>2 DEF UpdateStatus
  <2>. QED
    BY <2>1, FinishType DEF UpdateStatus, TypeOK, locks
<1>. QED
  BY <1>1, <1>2

LEMMA CompleteStatusType ==
  ASSUME TypeOK, NEW p \in Requests, CompleteStatus(p)
  PROVE  TypeOK'
<1>. DEFINE b == req[p].booking
<1>1. pc' \in [Requests -> Steps] /\ req' \in [Requests -> Locals]
  BY FinishType DEF CompleteStatus
<1>2. CASE Matches(b, req[p].from, "COMPLETED")
  <2>1. /\ status' = [status EXCEPT ![b] = "COMPLETED"]
        /\ bookingCount' = bookingCount + 1
        /\ history' = [history EXCEPT ![b] = @ \cup {<<req[p].from, "COMPLETED">>}]
    BY <1>2 DEF CompleteStatus, CountCompleted
  <2>2. <<req[p].from, "COMPLETED">> \in Events
    BY DEF TypeOK, Locals, Events, Statuses
  <2>3. history' \in [BookingIds -> SUBSET Events]
    BY <2>1, <2>2 DEF TypeOK
  <2>4. status' \in [BookingIds -> Statuses \cup {"NONE"}]
    BY <2>1 DEF TypeOK, Statuses
  <2>. QED
    BY <1>1, <2>1, <2>3, <2>4 DEF CompleteStatus, TypeOK, locks
<1>3. CASE ~Matches(b, req[p].from, "COMPLETED")
  BY <1>1, <1>3 DEF CompleteStatus, TypeOK, locks
<1>. QED
  BY <1>2, <1>3

LEMMA MoveBookingType ==
  ASSUME TypeOK, BookingNamed, StepsBelong, NEW p \in Requests, MoveBooking(p)
  PROVE  TypeOK'
<1>. DEFINE b == req[p].booking
<1>1. b \in BookingIds /\ req[p].span \in Spans
  BY DEF MoveBooking, BookingNamed, StepsBelong, TypeOK, Locals
<1>2. pc' \in [Requests -> Steps]
  BY DEF MoveBooking, Goto, TypeOK, Steps
<1>3. span' \in [BookingIds -> Spans] /\ displaced' \in SUBSET BookingIds
  BY <1>1 DEF MoveBooking, TypeOK
<1>. QED
  BY <1>2, <1>3 DEF MoveBooking, TypeOK, locks

LEMMA AddStatusEventType ==
  ASSUME TypeOK, NEW p \in Requests, AddStatusEvent(p)
  PROVE  TypeOK'
<1>1. Event(req[p]) \in Events
  <2>1. req[p].from \in Statuses \cup {"NONE"}
    BY DEF TypeOK, Locals
  <2>. QED
    BY <2>1, TargetType DEF Event, Events
<1>2. history' \in [BookingIds -> SUBSET Events]
  BY <1>1 DEF AddStatusEvent, TypeOK
<1>3. CASE req[p].op = "reschedule"
  <2>1. pc' \in [Requests -> Steps] /\ UNCHANGED req
    BY <1>3 DEF AddStatusEvent, Goto, TypeOK, Steps
  <2>. QED
    BY <1>2, <2>1 DEF AddStatusEvent, TypeOK, table, locks
<1>4. CASE req[p].op # "reschedule"
  <2>1. pc' \in [Requests -> Steps] /\ req' \in [Requests -> Locals]
    BY <1>4, FinishType DEF AddStatusEvent
  <2>. QED
    BY <1>2, <2>1 DEF AddStatusEvent, TypeOK, table, locks
<1>. QED
  BY <1>3, <1>4

LEMMA AbandonType ==
  ASSUME TypeOK, NEW p \in Requests, Abandon(p)
  PROVE  TypeOK'
<1>1. rowLock' \in Requests \cup {None}
  BY EndTransactionType DEF Abandon
<1>2. pc' \in [Requests -> Steps] /\ req' \in [Requests -> Locals]
  BY FinishType DEF Abandon
<1>. QED
  BY <1>1, <1>2 DEF Abandon, TypeOK, table

LEMMA EnvironmentType ==
  ASSUME TypeOK,
         \/ \E s \in Starts : SlotLockExpires(s)
         \/ \E b \in BookingIds : DepositSucceeds(b)
  PROVE  TypeOK'
<1>1. ASSUME NEW s \in Starts, SlotLockExpires(s) PROVE TypeOK'
  BY <1>1, DropKeyType DEF SlotLockExpires, TypeOK, table
<1>2. ASSUME NEW b \in BookingIds, DepositSucceeds(b) PROVE TypeOK'
  BY <1>2 DEF DepositSucceeds, TypeOK, table, locks
<1>. QED
  BY <1>1, <1>2

LEMMA TypeStep ==
  ASSUME TypeOK, BookingNamed, StepsBelong, [Next]_vars
  PROVE  TypeOK'
<1>1. ASSUME NEW p \in Requests, Request(p) PROVE TypeOK'
  BY <1>1, CreateRequestType, RescheduleRequestType, ReadBookingType DEF Request, ExpireStalePending, AllOps
<1>2. ASSUME NEW p \in Requests, Continue(p) PROVE TypeOK'
  BY <1>2, ClaimSlotType, ReleaseSlotType, BeginTxType, LockProfessionalType,
     CheckOverlapType, InsertBookingType, InsertFailsType, UpdateStatusType,
     CompleteStatusType, MoveBookingType, AddStatusEventType
     DEF Continue
<1>3. ASSUME NEW p \in Requests, Abandon(p) PROVE TypeOK'
  BY <1>3, AbandonType
<1>4. CASE UNCHANGED vars
  BY <1>4 DEF vars, table, locks, TypeOK
<1>. QED
  BY <1>1, <1>2, <1>3, <1>4, EnvironmentType DEF Next

-----------------------------------------------------------------------------
(* What a step leaves alone *)

\* A request changes its own program counter and locals only.
LEMMA OthersKeepLocals ==
  ASSUME TypeOK, NEW p \in Requests, NEW q \in Requests, p # q,
         Request(p) \/ Continue(p) \/ Abandon(p)
  PROVE  pc'[q] = pc[q] /\ req'[q] = req[q]
<1>1. CASE Request(p)
  BY <1>1 DEF Request, CreateRequest, RescheduleRequest, ReadBooking, ExpireStalePending, Goto, TypeOK
<1>2. CASE Abandon(p)
  BY <1>2 DEF Abandon, Finish, Goto, TypeOK
<1>3. CASE Continue(p)
  <2>1. CASE ClaimSlot(p) \/ ReleaseSlot(p)
    BY <2>1 DEF ClaimSlot, ReleaseSlot, Finish, Goto, TypeOK
  <2>2. CASE BeginTx(p) \/ LockProfessional(p) \/ CheckOverlap(p) \/ InsertFails(p)
    BY <2>2 DEF BeginTx, LockProfessional, CheckOverlap, InsertFails, Goto, TypeOK
  <2>3. CASE \E b \in BookingIds : InsertBooking(p, b)
    BY <2>3 DEF InsertBooking, Goto, TypeOK
  <2>4. CASE UpdateStatus(p)
    BY <2>4 DEF UpdateStatus, Finish, Goto, TypeOK
  <2>5. CASE CompleteStatus(p)
    BY <2>5 DEF CompleteStatus, Finish, Goto, TypeOK
  <2>6. CASE MoveBooking(p)
    BY <2>6 DEF MoveBooking, Goto, TypeOK
  <2>7. CASE AddStatusEvent(p)
    BY <2>7 DEF AddStatusEvent, Finish, Goto, TypeOK
  <2>. QED
    BY <1>3, <2>1, <2>2, <2>3, <2>4, <2>5, <2>6, <2>7 DEF Continue
<1>. QED
  BY <1>1, <1>2, <1>3

\* Rows are never deleted, what Create fixed stays, payments are not undone.
LEMMA RowsStay ==
  ASSUME TypeOK, [Next]_vars
  PROVE  /\ \A b \in BookingIds : status[b] # "NONE" =>
              status'[b] # "NONE" /\ terms'[b] = terms[b]
         /\ depositPaid \subseteq depositPaid'
<1>. USE DEF table, locks
<1>1. ASSUME NEW p \in Requests, Request(p) PROVE UNCHANGED <<status, terms, depositPaid>>
  BY <1>1 DEF Request, CreateRequest, RescheduleRequest, ReadBooking, ExpireStalePending
<1>2. ASSUME NEW p \in Requests, Abandon(p) PROVE UNCHANGED <<status, terms, depositPaid>>
  BY <1>2 DEF Abandon
<1>3. ASSUME NEW p \in Requests,
             \/ ClaimSlot(p) \/ ReleaseSlot(p) \/ BeginTx(p) \/ LockProfessional(p)
             \/ CheckOverlap(p) \/ InsertFails(p) \/ MoveBooking(p) \/ AddStatusEvent(p)
      PROVE  UNCHANGED <<status, terms, depositPaid>>
  BY <1>3 DEF ClaimSlot, ReleaseSlot, BeginTx, LockProfessional, CheckOverlap,
              InsertFails, MoveBooking, AddStatusEvent
<1>4. ASSUME NEW p \in Requests, NEW c \in BookingIds, InsertBooking(p, c)
      PROVE  /\ \A b \in BookingIds \ {c} : status'[b] = status[b] /\ terms'[b] = terms[b]
             /\ status[c] = "NONE"
             /\ UNCHANGED depositPaid
  BY <1>4 DEF InsertBooking, TypeOK
<1>5. ASSUME NEW p \in Requests, UpdateStatus(p)
      PROVE  /\ \A b \in BookingIds : status'[b] = status[b] \/ status'[b] \in Statuses
             /\ UNCHANGED <<terms, depositPaid>>
  BY <1>5, TargetType DEF UpdateStatus, TypeOK
<1>6. ASSUME NEW p \in Requests, CompleteStatus(p)
      PROVE  /\ \A b \in BookingIds : status'[b] = status[b] \/ status'[b] = "COMPLETED"
             /\ UNCHANGED <<terms, depositPaid>>
  BY <1>6 DEF CompleteStatus, TypeOK
<1>7. ASSUME NEW s \in Starts, SlotLockExpires(s) PROVE UNCHANGED <<status, terms, depositPaid>>
  BY <1>7 DEF SlotLockExpires
<1>8. ASSUME NEW b \in BookingIds, DepositSucceeds(b)
      PROVE  UNCHANGED <<status, terms>> /\ depositPaid \subseteq depositPaid'
  BY <1>8 DEF DepositSucceeds
<1>9. CASE UNCHANGED vars
  BY <1>9 DEF vars
<1>10. "NONE" \notin Statuses
  BY DEF Statuses, Active
<1>. QED
  BY <1>1, <1>2, <1>3, <1>4, <1>5, <1>6, <1>7, <1>8, <1>9, <1>10 DEF Next, Continue

-----------------------------------------------------------------------------
(* What a request's locals say *)

\* The locals of a request as its own step leaves them: it is about to write
\* only just after ReadBooking, it keeps its operation and its booking until it
\* ends, and only a claimed Reschedule gets to move.
LEMMA OwnStep ==
  ASSUME TypeOK, BookingNamed, StepsBelong, NEW p \in Requests,
         Request(p) \/ Continue(p) \/ Abandon(p)
  PROVE  \/ /\ pc'[p] \notin {"write", "claim", "move"}
            /\ \/ req'[p].op = None
               \/ req'[p].op = req[p].op /\ req'[p].booking = req[p].booking
         \/ /\ pc'[p] = "move"
            /\ req[p].op = "reschedule"
            /\ req'[p] = req[p]
         \/ /\ pc'[p] = "claim"
            /\ \/ req'[p].op = "create"
               \/ /\ req'[p].op = "reschedule"
                  /\ req'[p].booking \in BookingIds
                  /\ status[req'[p].booking] # "NONE"
         \/ \E op \in AllOps, b \in BookingIds :
               /\ ReadBooking(p, op, b)
               /\ pc'[p] = "write"
               /\ req'[p].op = op
               /\ req'[p].booking = b
               /\ req'[p].from = status[b]
<1>. USE DEF Goto, Finish, NoLocals, TypeOK, Locals
<1>1. CASE \E s \in Starts, d \in Durations, t \in Offers : CreateRequest(p, s, d, t)
  <2>1. pc'[p] = "claim" /\ req'[p].op = "create"
    BY <1>1 DEF CreateRequest
  <2>. QED
    BY <2>1
<1>2. CASE \E b \in BookingIds, s \in Starts : RescheduleRequest(p, b, s)
  <2>1. PICK b \in BookingIds, s \in Starts : RescheduleRequest(p, b, s)
    BY <1>2
  <2>2. /\ pc'[p] = "claim"
        /\ req'[p].op = "reschedule"
        /\ req'[p].booking = b
        /\ status[b] # "NONE"
    BY <2>1 DEF RescheduleRequest
  <2>. QED
    BY <2>2
<1>3. CASE \E op \in AllOps, b \in BookingIds : ReadBooking(p, op, b)
  <2>1. PICK op \in AllOps, b \in BookingIds : ReadBooking(p, op, b)
    BY <1>3
  <2>2. pc'[p] = "write" /\ req'[p].op = op /\ req'[p].booking = b /\ req'[p].from = status[b]
    BY <2>1 DEF ReadBooking
  <2>. QED
    BY <2>1, <2>2
<1>10. CASE \E b \in BookingIds : ExpireStalePending(p, b)
  <2>1. PICK b \in BookingIds : ExpireStalePending(p, b)
    BY <1>10
  <2>2. \E op \in AllOps : ReadBooking(p, op, b) /\ op = "expire"
    BY <2>1 DEF ExpireStalePending, AllOps
  <2>. QED
    BY <1>3, <2>2
<1>4. CASE ClaimSlot(p)
  <2>1. CASE req[p].span.start \in slotLocks
    BY <1>4, <2>1 DEF ClaimSlot
  <2>2. CASE req[p].span.start \notin slotLocks
    <3>1. req'[p] = req[p] /\ pc'[p] = IF req[p].op = "create" THEN "begin" ELSE "move"
      BY <1>4, <2>2 DEF ClaimSlot
    <3>2. req[p].op \in {"create", "reschedule"}
      BY <1>4 DEF ClaimSlot, StepsBelong
    <3>. QED
      BY <3>1, <3>2
  <2>. QED
    BY <2>1, <2>2
<1>5. CASE BeginTx(p)
  <2>1. /\ pc'[p] = "lock"
        /\ req'[p].op = req[p].op
        /\ req'[p].booking = req[p].booking
    BY <1>5 DEF BeginTx
  <2>. QED
    BY <2>1
<1>6. CASE \/ LockProfessional(p) \/ CheckOverlap(p) \/ InsertFails(p) \/ MoveBooking(p)
           \/ \E b \in BookingIds : InsertBooking(p, b)
  <2>1. pc'[p] \in {"check", "insert", "release", "event"} /\ req'[p] = req[p]
    BY <1>6 DEF LockProfessional, CheckOverlap, InsertFails, MoveBooking, InsertBooking
  <2>. QED
    BY <2>1
<1>7. CASE ReleaseSlot(p) \/ CompleteStatus(p) \/ Abandon(p)
  <2>1. pc'[p] = "idle" /\ req'[p].op = None
    BY <1>7 DEF ReleaseSlot, CompleteStatus, Abandon
  <2>. QED
    BY <2>1
<1>8. CASE UpdateStatus(p)
  <2>1. \/ pc'[p] = "event" /\ req'[p] = req[p]
        \/ pc'[p] = "idle" /\ req'[p].op = None
    BY <1>8 DEF UpdateStatus
  <2>. QED
    BY <2>1
<1>9. CASE AddStatusEvent(p)
  <2>1. \/ pc'[p] = "release" /\ req'[p] = req[p]
        \/ pc'[p] = "idle" /\ req'[p].op = None
    BY <1>9 DEF AddStatusEvent
  <2>. QED
    BY <2>1
<1>. HIDE DEF Goto, Finish, NoLocals, TypeOK, Locals
<1>. QED
  BY <1>1, <1>2, <1>3, <1>4, <1>5, <1>6, <1>7, <1>8, <1>9, <1>10 DEF Request, Continue

\* Every step is the step of one request, or leaves all locals alone.
LEMMA WhoseStep ==
  ASSUME [Next]_vars
  PROVE  \/ \E p \in Requests : Request(p) \/ Continue(p) \/ Abandon(p)
         \/ UNCHANGED <<pc, req, missed>>
  BY DEF Next, SlotLockExpires, DepositSucceeds, vars

LEMMA BookingNamedStep ==
  ASSUME TypeOK, BookingNamed, StepsBelong, [Next]_vars
  PROVE  BookingNamed'
<1>. SUFFICES ASSUME NEW q \in Requests, pc'[q] = "write" \/ req'[q].op = "reschedule"
              PROVE  req'[q].booking \in BookingIds /\ status'[req'[q].booking] # "NONE"
  BY DEF BookingNamed
<1>1. CASE pc'[q] = pc[q] /\ req'[q] = req[q]
  BY <1>1, RowsStay DEF BookingNamed
<1>2. ASSUME Request(q) \/ Continue(q) \/ Abandon(q)
      PROVE  req'[q].booking \in BookingIds /\ status'[req'[q].booking] # "NONE"
  <2>1. CASE pc'[q] # "write" /\ req'[q].op = req[q].op /\ req'[q].booking = req[q].booking
    BY <2>1, RowsStay DEF BookingNamed
  <2>2. CASE pc'[q] = "claim" /\ req'[q].booking \in BookingIds
             /\ status[req'[q].booking] # "NONE"
    BY <2>2, RowsStay
  <2>3. ASSUME NEW op \in AllOps, NEW b \in BookingIds, ReadBooking(q, op, b),
               req'[q].booking = b
        PROVE  req'[q].booking \in BookingIds /\ status'[req'[q].booking] # "NONE"
    <3>1. status[b] # "NONE"
      BY <2>3 DEF ReadBooking, Accepts, Statuses, Active
    <3>. QED
      BY <2>3, <3>1, RowsStay
  <2>. QED
    BY <1>2, <2>1, <2>2, <2>3, OwnStep, NoneAssumption DEF AllOps
<1>. QED
  BY <1>1, <1>2, WhoseStep, OthersKeepLocals

LEMMA StepsBelongStep ==
  ASSUME TypeOK, BookingNamed, StepsBelong, [Next]_vars
  PROVE  StepsBelong'
<1>. SUFFICES ASSUME NEW q \in Requests
              PROVE  /\ pc'[q] = "claim" => req'[q].op \in {"create", "reschedule"}
                     /\ pc'[q] = "move" => req'[q].op = "reschedule"
  BY DEF StepsBelong
<1>1. CASE pc'[q] = pc[q] /\ req'[q] = req[q]
  BY <1>1 DEF StepsBelong
<1>2. CASE Request(q) \/ Continue(q) \/ Abandon(q)
  BY <1>2, OwnStep
<1>. QED
  BY <1>1, <1>2, WhoseStep, OthersKeepLocals

LEMMA ReadAcceptedStep ==
  ASSUME TypeOK, BookingNamed, StepsBelong, ReadAccepted, [Next]_vars
  PROVE  ReadAccepted'
<1>. SUFFICES ASSUME NEW q \in Requests, pc'[q] = "write"
              PROVE  /\ req'[q].op \in AllOps \ {"create", "reschedule"}
                     /\ req'[q].from \in Accepts(req'[q].op)
                     /\ DepositGatePasses(req[q].op, req[q].booking)'
  BY DEF ReadAccepted, DepositGatePasses
<1>1. CASE pc'[q] = pc[q] /\ req'[q] = req[q]
  <2>1. req[q].booking \in BookingIds /\ status[req[q].booking] # "NONE"
    BY <1>1 DEF BookingNamed
  <2>2. terms'[req[q].booking] = terms[req[q].booking] /\ depositPaid \subseteq depositPaid'
    BY <2>1, RowsStay
  <2>. QED
    BY <1>1, <2>2 DEF ReadAccepted, DepositGatePasses
<1>2. CASE Request(q) \/ Continue(q) \/ Abandon(q)
  <2>1. PICK op \in AllOps, b \in BookingIds :
               ReadBooking(q, op, b) /\ req'[q].op = op /\ req'[q].booking = b
               /\ req'[q].from = status[b]
    BY <1>2, OwnStep
  <2>2. op \in AllOps \ {"create", "reschedule"} /\ status[b] \in Accepts(op)
    BY <2>1, ConstantsAssumption DEF ReadBooking
  <2>3. DepositGatePasses(op, b) /\ UNCHANGED <<terms, depositPaid>>
    BY <2>1 DEF ReadBooking, table
  <2>. QED
    BY <2>1, <2>2, <2>3 DEF DepositGatePasses
<1>. QED
  BY <1>1, <1>2, WhoseStep, OthersKeepLocals

-----------------------------------------------------------------------------
(* The overlap check *)

\* A booking that is active and still where Create put it was so before the
\* step, unless this step inserts it.
LEMMA ActiveFrame ==
  ASSUME TypeOK, [Next]_vars, NEW b \in BookingIds,
         b \notin displaced', status'[b] \in Active,
         \A p \in Requests : ~InsertBooking(p, b)
  PROVE  b \notin displaced /\ status[b] \in Active /\ span'[b] = span[b]
<1>. USE DEF table, locks
<1>1. ASSUME NEW p \in Requests,
             \/ Request(p) \/ ClaimSlot(p) \/ ReleaseSlot(p) \/ BeginTx(p)
             \/ LockProfessional(p) \/ CheckOverlap(p) \/ InsertFails(p)
             \/ AddStatusEvent(p) \/ Abandon(p)
      PROVE  UNCHANGED <<status, span, displaced>>
  BY <1>1 DEF Request, CreateRequest, RescheduleRequest, ReadBooking, ExpireStalePending, ClaimSlot, ReleaseSlot,
              BeginTx, LockProfessional, CheckOverlap, InsertFails, AddStatusEvent, Abandon
<1>2. CASE \/ \E s \in Starts : SlotLockExpires(s)
           \/ \E c \in BookingIds : DepositSucceeds(c)
           \/ UNCHANGED vars
  BY <1>2 DEF SlotLockExpires, DepositSucceeds, vars
<1>3. ASSUME NEW p \in Requests, NEW c \in BookingIds, InsertBooking(p, c)
      PROVE  b # c /\ status'[b] = status[b] /\ span'[b] = span[b] /\ UNCHANGED displaced
  BY <1>3 DEF InsertBooking, TypeOK
<1>4. ASSUME NEW p \in Requests, UpdateStatus(p)
      PROVE  b \notin displaced /\ status[b] \in Active /\ span'[b] = span[b]
  BY <1>4 DEF UpdateStatus, TypeOK
<1>5. ASSUME NEW p \in Requests, CompleteStatus(p)
      PROVE  b \notin displaced /\ status[b] \in Active /\ span'[b] = span[b]
  BY <1>5 DEF CompleteStatus, TypeOK, Active
<1>6. ASSUME NEW p \in Requests, MoveBooking(p)
      PROVE  b \notin displaced /\ status[b] \in Active /\ span'[b] = span[b]
  BY <1>6 DEF MoveBooking, TypeOK
<1>. QED
  BY <1>1, <1>2, <1>3, <1>4, <1>5, <1>6 DEF Next, Continue

\* A request that is not stepping goes on missing what it missed, and the others
\* keep its transaction posted of what they insert.
LEMMA OthersKeepMissed ==
  ASSUME TypeOK, [Next]_vars, NEW q \in Requests, pc'[q] = pc[q], req'[q] = req[q],
         ~BeginTx(q), ~CheckOverlap(q), \A b \in BookingIds : ~InsertBooking(q, b)
  PROVE  /\ missed[q] \subseteq missed'[q]
         /\ \A p \in Requests, b \in BookingIds :
              InsertBooking(p, b) /\ InTransaction(q) => b \in missed'[q]
         /\ (\A p \in Requests, b \in BookingIds : ~InsertBooking(p, b)) => missed'[q] = missed[q]
<1>1. ASSUME NEW p \in Requests,
             \/ Request(p) \/ ClaimSlot(p) \/ ReleaseSlot(p) \/ LockProfessional(p)
             \/ InsertFails(p) \/ UpdateStatus(p) \/ CompleteStatus(p) \/ MoveBooking(p)
             \/ AddStatusEvent(p) \/ Abandon(p)
      PROVE  missed' = missed
  BY <1>1
     DEF Request, CreateRequest, RescheduleRequest, ReadBooking, ExpireStalePending, ClaimSlot,
         ReleaseSlot, LockProfessional, InsertFails, UpdateStatus, CompleteStatus, MoveBooking,
         AddStatusEvent, Abandon
<1>2. ASSUME NEW p \in Requests, BeginTx(p) \/ CheckOverlap(p) PROVE missed'[q] = missed[q]
  BY <1>2 DEF BeginTx, CheckOverlap, Look, TypeOK
<1>3. ASSUME NEW p \in Requests, NEW b \in BookingIds, InsertBooking(p, b)
      PROVE  missed'[q] = missed[q] \cup {c \in {b} : InTransaction(q)}
  BY <1>3 DEF InsertBooking, TypeOK
<1>4. ASSUME \/ \E s \in Starts : SlotLockExpires(s)
             \/ \E c \in BookingIds : DepositSucceeds(c)
             \/ UNCHANGED vars
      PROVE  missed' = missed
  BY <1>4 DEF SlotLockExpires, DepositSucceeds, vars
<1>5. \/ missed'[q] = missed[q]
      \/ \E p \in Requests, b \in BookingIds : InsertBooking(p, b)
  BY <1>1, <1>2, <1>4 DEF Next, Continue
<1>. QED
  BY <1>3, <1>5

\* The ways a request comes to stand inside its transaction.
LEMMA TransactionStep ==
  ASSUME TypeOK, NEW q \in Requests, Request(q) \/ Continue(q) \/ Abandon(q),
         pc'[q] \in {"lock", "check", "insert"}
  PROVE  \/ BeginTx(q) /\ pc'[q] = "lock"
         \/ LockProfessional(q) /\ pc[q] = "lock" /\ pc'[q] = "check"
         \/ CheckOverlap(q) /\ pc[q] = "check" /\ pc'[q] = "insert"
<1>. USE DEF Goto, Finish, TypeOK
<1>1. ~Request(q) /\ ~Abandon(q)
  BY DEF Request, CreateRequest, RescheduleRequest, ReadBooking, ExpireStalePending, Abandon
<1>2. ~ClaimSlot(q) /\ ~ReleaseSlot(q) /\ ~InsertFails(q)
      /\ \A b \in BookingIds : ~InsertBooking(q, b)
  BY DEF ClaimSlot, ReleaseSlot, InsertFails, InsertBooking
<1>3. ~UpdateStatus(q) /\ ~CompleteStatus(q) /\ ~MoveBooking(q) /\ ~AddStatusEvent(q)
  BY DEF UpdateStatus, CompleteStatus, MoveBooking, AddStatusEvent
<1>4. BeginTx(q) => pc'[q] = "lock"
  BY DEF BeginTx
<1>5. LockProfessional(q) => pc[q] = "lock" /\ pc'[q] = "check"
  BY DEF LockProfessional
<1>6. CheckOverlap(q) => pc[q] = "check" /\ pc'[q] = "insert"
  BY DEF CheckOverlap
<1>. QED
  BY <1>1, <1>2, <1>3, <1>4, <1>5, <1>6 DEF Continue

\* Everything is clear where the transaction just looked.
LEMMA FreeIsClear ==
  ASSUME NEW w, SlotFree(w, None), NEW b \in BookingIds
  PROVE  ~Overlaps(b, w)
  BY NoneAssumption DEF SlotFree

LEMMA InsertClearStep ==
  ASSUME TypeOK, InsertClear, [Next]_vars
  PROVE  InsertClear'
<1>. DEFINE Bounds(p) == CheckBounds(req[p].span, req[p].terms)
<1>. SUFFICES ASSUME NEW q \in Requests,
                     pc'[q] = "insert" \/ (pc'[q] \in {"lock", "check"} /\ req'[q].free),
                     NEW b \in BookingIds, b \notin displaced', b \notin missed'[q]
              PROVE  ~Overlaps(b, Bounds(q))'
  BY DEF InsertClear
<1>1. CASE BeginTx(q)
  <2>1. pc'[q] = "lock" /\ UNCHANGED <<status, span>>
    BY <1>1 DEF BeginTx, Goto, TypeOK, table
  <2>2. req'[q].span = req[q].span /\ req'[q].terms = req[q].terms
    BY <1>1 DEF BeginTx, TypeOK, Locals
  <2>4. SlotFree(Bounds(q), None)
    <3>. DEFINE seen == SnapshotAtBegin /\ SlotFree(Bounds(q), None)
    <3>1. req' = [req EXCEPT ![q].free = seen]
      BY <1>1 DEF BeginTx
    <3>2. req'[q].free
      BY <2>1
    <3>. HIDE DEF seen
    <3>3. seen
      BY <3>1, <3>2 DEF TypeOK, Locals
    <3>. QED
      BY <3>3 DEF seen
  <2>3. ~Overlaps(b, Bounds(q))
    BY <2>4, FreeIsClear
  <2>. QED
    BY <2>1, <2>2, <2>3 DEF Overlaps, CheckBounds
<1>2. CASE LockProfessional(q) /\ pc[q] = "lock" /\ pc'[q] = "check"
  <2>1. UNCHANGED <<status, span, req, displaced, missed>>
    BY <1>2 DEF LockProfessional, table
  <2>2. ~Overlaps(b, Bounds(q))
    BY <1>2, <2>1 DEF InsertClear
  <2>. QED
    BY <2>1, <2>2 DEF Overlaps, CheckBounds
<1>3. CASE CheckOverlap(q) /\ pc[q] = "check" /\ pc'[q] = "insert"
  <2>1. UNCHANGED <<status, span, req, displaced>>
    BY <1>3 DEF CheckOverlap, table
  <2>2. CASE SnapshotAtBegin
    <3>1. req[q].free /\ missed' = missed
      BY <1>3, <2>2 DEF CheckOverlap, Goto, TypeOK
    <3>. QED
      BY <1>3, <2>1, <3>1 DEF InsertClear, Overlaps, CheckBounds
  <2>3. CASE ~SnapshotAtBegin
    <3>1. SlotFree(Bounds(q), None)
      BY <1>3, <2>3 DEF CheckOverlap, Goto, TypeOK
    <3>2. ~Overlaps(b, Bounds(q))
      BY <3>1, FreeIsClear
    <3>. QED
      BY <2>1, <3>2 DEF Overlaps, CheckBounds
  <2>. QED
    BY <2>2, <2>3
<1>4. CASE /\ pc'[q] = pc[q] /\ req'[q] = req[q]
           /\ ~BeginTx(q) /\ ~CheckOverlap(q) /\ \A c \in BookingIds : ~InsertBooking(q, c)
  <2>1. InTransaction(q)
    BY <1>4 DEF InTransaction
  <2>2. b \notin missed[q] /\ \A p \in Requests : ~InsertBooking(p, b)
    BY <1>4, <2>1, OthersKeepMissed
  <2>3. CASE status'[b] \in Active
    <3>1. b \notin displaced /\ status[b] \in Active /\ span'[b] = span[b]
      BY <2>2, <2>3, ActiveFrame
    <3>2. ~Overlaps(b, Bounds(q))
      BY <1>4, <2>2, <3>1 DEF InsertClear
    <3>. QED
      BY <1>4, <3>1, <3>2 DEF Overlaps, CheckBounds
  <2>4. CASE status'[b] \notin Active
    BY <2>4 DEF Overlaps
  <2>. QED
    BY <2>3, <2>4
<1>5. CASE Request(q) \/ Continue(q) \/ Abandon(q)
  BY <1>1, <1>2, <1>3, <1>5, TransactionStep
<1>6. CASE ~(Request(q) \/ Continue(q) \/ Abandon(q))
  <2>1. pc'[q] = pc[q] /\ req'[q] = req[q]
    BY <1>6, WhoseStep, OthersKeepLocals
  <2>2. ~BeginTx(q) /\ ~CheckOverlap(q) /\ \A c \in BookingIds : ~InsertBooking(q, c)
    BY <1>6 DEF Continue
  <2>. QED
    BY <1>4, <2>1, <2>2
<1>. QED
  BY <1>5, <1>6

\* An interval that is free up to the margins is free without them.
LEMMA MarginsOnlyWiden ==
  ASSUME NEW s \in Spans, NEW t \in Terms, NEW e \in Spans,
         ~(e.start < CheckBounds(s, t).end /\ e.end > CheckBounds(s, t).start)
  PROVE  e.end <= s.start \/ s.end <= e.start
<1>1. /\ s.start \in Int /\ s.end \in Int /\ e.start \in Int /\ e.end \in Int
      /\ Buffer \in Nat /\ Travel \in Nat
  BY ConstantsAssumption DEF Spans
<1>2. CheckBounds(s, t).end = s.end + Buffer
      /\ CheckBounds(s, t).start \in {s.start, s.start - Travel}
  BY DEF CheckBounds
<1>. QED
  BY <1>1, <1>2

\* Only an INSERT records a crossing, and what is recorded stays.
LEMMA CrossedGrows ==
  ASSUME [Next]_vars
  PROVE  /\ crossed \subseteq crossed'
         /\ (\A p \in Requests, b \in BookingIds : ~InsertBooking(p, b)) =>
              crossed' = crossed /\ unguarded' = unguarded
<1>1. ASSUME NEW p \in Requests,
             \/ Request(p) \/ ClaimSlot(p) \/ ReleaseSlot(p) \/ BeginTx(p)
             \/ LockProfessional(p) \/ CheckOverlap(p) \/ InsertFails(p)
             \/ UpdateStatus(p) \/ CompleteStatus(p) \/ MoveBooking(p)
             \/ AddStatusEvent(p) \/ Abandon(p)
      PROVE  UNCHANGED <<crossed, unguarded>>
  BY <1>1
     DEF Request, CreateRequest, RescheduleRequest, ReadBooking, ExpireStalePending, ClaimSlot,
         ReleaseSlot, BeginTx, LockProfessional, CheckOverlap, InsertFails, UpdateStatus,
         CompleteStatus, MoveBooking, AddStatusEvent, Abandon
<1>2. ASSUME NEW p \in Requests, NEW b \in BookingIds, InsertBooking(p, b)
      PROVE  crossed \subseteq crossed'
  BY <1>2 DEF InsertBooking
<1>3. CASE \/ \E s \in Starts : SlotLockExpires(s)
           \/ \E c \in BookingIds : DepositSucceeds(c)
           \/ UNCHANGED vars
  BY <1>3 DEF SlotLockExpires, DepositSucceeds, vars
<1>. QED
  BY <1>1, <1>2, <1>3 DEF Next, Continue

LEMMA CreatesDisjointStep ==
  ASSUME TypeOK, InsertClear, CreatesDisjoint, [Next]_vars
  PROVE  CreatesDisjoint'
<1>1. ASSUME NEW p \in Requests, NEW b \in BookingIds, InsertBooking(p, b),
             NEW c \in BookingIds, c # b, c \notin displaced', status'[c] \in Active
      PROVE  (Disjoint(b, c) \/ Crossed(b, c))'
  <2>1. c \notin displaced /\ status[c] \in Active
    BY <1>1 DEF InsertBooking, TypeOK
  <2>2. CASE c \in missed[p]
    BY <1>1, <2>2 DEF InsertBooking, Crossed
  <2>3. CASE c \notin missed[p]
    <3>1. ~Overlaps(c, CheckBounds(req[p].span, req[p].terms))
      BY <1>1, <2>1, <2>3 DEF InsertBooking, InsertClear
    <3>2. req[p].span \in Spans /\ req[p].terms \in Terms /\ span[c] \in Spans
      BY DEF TypeOK, Locals
    <3>3. span[c].end <= req[p].span.start \/ req[p].span.end <= span[c].start
      BY <2>1, <3>1, <3>2, MarginsOnlyWiden DEF Overlaps
    <3>4. span'[b] = req[p].span /\ span'[c] = span[c]
      BY <1>1 DEF InsertBooking, TypeOK
    <3>. QED
      BY <3>3, <3>4 DEF Disjoint
  <2>. QED
    BY <2>2, <2>3
<1>. SUFFICES ASSUME NEW b \in BookingIds, NEW c \in BookingIds, b # c,
                     b \notin displaced', c \notin displaced',
                     status'[b] \in Active, status'[c] \in Active
              PROVE  (Disjoint(b, c) \/ Crossed(b, c))'
  BY DEF CreatesDisjoint, Held
<1>2. CASE \E p \in Requests : InsertBooking(p, b)
  BY <1>1, <1>2
<1>3. CASE \E p \in Requests : InsertBooking(p, c)
  <2>1. (Disjoint(c, b) \/ Crossed(c, b))'
    BY <1>1, <1>3
  <2>. QED
    BY <2>1 DEF Disjoint, Crossed
<1>4. CASE \A p \in Requests : ~InsertBooking(p, b) /\ ~InsertBooking(p, c)
  <2>1. /\ b \notin displaced /\ status[b] \in Active /\ span'[b] = span[b]
        /\ c \notin displaced /\ status[c] \in Active /\ span'[c] = span[c]
    BY <1>4, ActiveFrame
  <2>2. Disjoint(b, c) \/ Crossed(b, c)
    BY <2>1 DEF CreatesDisjoint, Held
  <2>3. crossed \subseteq crossed'
    BY CrossedGrows
  <2>. QED
    BY <2>1, <2>2, <2>3 DEF Disjoint, Crossed
<1>. QED
  BY <1>2, <1>3, <1>4

-----------------------------------------------------------------------------
(* Status changes *)

\* Whatever happened since the read, a write leaves from a status its handler
\* accepts, and confirms only what may be confirmed.
LEMMA StatusStep ==
  ASSUME TypeOK, ReadAccepted, [Next]_vars,
         NEW b \in BookingIds, status'[b] # status[b]
  PROVE  /\ LifecycleStep(status[b], status'[b])
         /\ status'[b] = "CONFIRMED" => DepositGatePasses("confirm", b)
<1>. USE DEF table, locks
<1>1. ASSUME NEW p \in Requests,
             \/ Request(p) \/ ClaimSlot(p) \/ ReleaseSlot(p) \/ BeginTx(p)
             \/ LockProfessional(p) \/ CheckOverlap(p) \/ InsertFails(p)
             \/ MoveBooking(p) \/ AddStatusEvent(p) \/ Abandon(p)
      PROVE  UNCHANGED status
  BY <1>1 DEF Request, CreateRequest, RescheduleRequest, ReadBooking, ExpireStalePending, ClaimSlot, ReleaseSlot,
              BeginTx, LockProfessional, CheckOverlap, InsertFails, MoveBooking,
              AddStatusEvent, Abandon
<1>2. CASE \/ \E s \in Starts : SlotLockExpires(s)
           \/ \E c \in BookingIds : DepositSucceeds(c)
           \/ UNCHANGED vars
  BY <1>2 DEF SlotLockExpires, DepositSucceeds, vars
<1>3. ASSUME NEW p \in Requests, NEW c \in BookingIds, InsertBooking(p, c)
      PROVE  status[b] = "NONE" /\ status'[b] = "PENDING"
  BY <1>3 DEF InsertBooking, TypeOK
<1>4. ASSUME NEW p \in Requests, UpdateStatus(p)
      PROVE  /\ LifecycleStep(status[b], status'[b])
             /\ status'[b] = "CONFIRMED" => DepositGatePasses("confirm", b)
  <2>1. /\ b = req[p].booking
        /\ status[b] = req[p].from
        /\ status'[b] = Target(req[p].op)
    BY <1>4 DEF UpdateStatus, Matches, Finish, TypeOK
  <2>2. /\ req[p].op \in {"confirm", "start", "cancel", "expire"}
        /\ req[p].from \in Accepts(req[p].op)
        /\ DepositGatePasses(req[p].op, b)
    BY <1>4, <2>1 DEF UpdateStatus, ReadAccepted, AllOps
  <2>3. LifecycleStep(status[b], status'[b])
    BY <2>1, <2>2 DEF LifecycleStep, Target, Accepts, Statuses, Active
  <2>4. status'[b] = "CONFIRMED" => req[p].op = "confirm"
    BY <2>1, <2>2 DEF Target
  <2>. QED
    BY <2>2, <2>3, <2>4
<1>5. ASSUME NEW p \in Requests, CompleteStatus(p)
      PROVE  /\ status[b] \in {"CONFIRMED", "IN_PROGRESS"}
             /\ status'[b] = "COMPLETED"
  <2>1. b = req[p].booking /\ status[b] = req[p].from /\ status'[b] = "COMPLETED"
    BY <1>5 DEF CompleteStatus, Matches, TypeOK
  <2>. QED
    BY <1>5, <2>1 DEF CompleteStatus, ReadAccepted, Accepts
<1>. QED
  BY <1>1, <1>2, <1>3, <1>4, <1>5 DEF Next, Continue, LifecycleStep

LEMMA DepositGateStep ==
  ASSUME TypeOK, ReadAccepted, DepositGate, [Next]_vars
  PROVE  DepositGate'
<1>. SUFFICES ASSUME NEW b \in BookingIds,
                     status'[b] \in {"CONFIRMED", "IN_PROGRESS", "COMPLETED"},
                     terms'[b].deposit
              PROVE  b \in depositPaid'
  BY DEF DepositGate
<1>1. status[b] # "NONE"
  BY StatusStep DEF LifecycleStep, Statuses, Active
<1>2. terms[b].deposit /\ depositPaid \subseteq depositPaid'
  BY <1>1, RowsStay
<1>3. CASE status[b] \in {"CONFIRMED", "IN_PROGRESS", "COMPLETED"}
  BY <1>2, <1>3 DEF DepositGate
<1>4. CASE status[b] \notin {"CONFIRMED", "IN_PROGRESS", "COMPLETED"}
  <2>1. DepositGatePasses("confirm", b)
    BY <1>4, StatusStep DEF LifecycleStep
  <2>. QED
    BY <1>2, <2>1 DEF DepositGatePasses
<1>. QED
  BY <1>3, <1>4

-----------------------------------------------------------------------------
(* Keys, counts and histories *)

\* A row appears with its INSERT only, which finds its key unused.
LEMMA NewRow ==
  ASSUME TypeOK, BookingNamed, [Next]_vars, NEW b \in BookingIds, status[b] = "NONE", status'[b] # "NONE"
  PROVE  /\ KeyUnused(terms'[b].key)
         /\ \A c \in BookingIds \ {b} : status'[c] = status[c] /\ terms'[c] = terms[c]
<1>. USE DEF table, locks
<1>1. ASSUME NEW p \in Requests,
             \/ Request(p) \/ ClaimSlot(p) \/ ReleaseSlot(p) \/ BeginTx(p)
             \/ LockProfessional(p) \/ CheckOverlap(p) \/ InsertFails(p)
             \/ MoveBooking(p) \/ AddStatusEvent(p) \/ Abandon(p)
      PROVE  UNCHANGED status
  BY <1>1 DEF Request, CreateRequest, RescheduleRequest, ReadBooking, ExpireStalePending, ClaimSlot, ReleaseSlot,
              BeginTx, LockProfessional, CheckOverlap, InsertFails, MoveBooking,
              AddStatusEvent, Abandon
<1>2. CASE \/ \E s \in Starts : SlotLockExpires(s)
           \/ \E c \in BookingIds : DepositSucceeds(c)
           \/ UNCHANGED vars
  BY <1>2 DEF SlotLockExpires, DepositSucceeds, vars
<1>3. ASSUME NEW p \in Requests, NEW c \in BookingIds, InsertBooking(p, c)
      PROVE  /\ KeyUnused(terms'[b].key)
             /\ \A d \in BookingIds \ {b} : status'[d] = status[d] /\ terms'[d] = terms[d]
  <2>1. b = c
    BY <1>3 DEF InsertBooking, TypeOK
  <2>. QED
    BY <1>3, <2>1 DEF InsertBooking, TypeOK
<1>4. ASSUME NEW p \in Requests, UpdateStatus(p) \/ CompleteStatus(p) PROVE FALSE
  <2>1. b = req[p].booking
    BY <1>4 DEF UpdateStatus, CompleteStatus, TypeOK
  <2>2. status[req[p].booking] # "NONE"
    BY <1>4 DEF UpdateStatus, CompleteStatus, BookingNamed
  <2>. QED
    BY <2>1, <2>2
<1>. QED
  BY <1>1, <1>2, <1>3, <1>4 DEF Next, Continue

LEMMA KeyNamesStep ==
  ASSUME TypeOK, BookingNamed, KeyNamesOneBooking, [Next]_vars
  PROVE  KeyNamesOneBooking'
<1>. SUFFICES ASSUME NEW b \in BookingIds, NEW c \in BookingIds, b # c,
                     status'[b] # "NONE", status'[c] # "NONE",
                     terms'[b].key = terms'[c].key
              PROVE  terms'[b].key = None
  BY DEF KeyNamesOneBooking
<1>1. CASE status[b] # "NONE" /\ status[c] # "NONE"
  BY <1>1, RowsStay DEF KeyNamesOneBooking
<1>2. CASE status[b] = "NONE"
  BY <1>2, NewRow DEF KeyUnused
<1>3. CASE status[c] = "NONE"
  BY <1>3, NewRow DEF KeyUnused
<1>. QED
  BY <1>1, <1>2, <1>3

\* The history of a row only grows, the counter follows CompleteStatus, and
\* nothing else makes a booking COMPLETED.
LEMMA CompletionStep ==
  ASSUME TypeOK, BookingNamed, ReadAccepted, [Next]_vars
  PROVE  /\ \A b \in BookingIds : status[b] # "NONE" => history[b] \subseteq history'[b]
         /\ \/ UNCHANGED <<bookingCount, reopened>>
               /\ \A b \in BookingIds : status'[b] = "COMPLETED" <=> status[b] = "COMPLETED"
            \/ \E c \in BookingIds :
                 /\ bookingCount' = bookingCount + 1 /\ reopened' = reopened
                 /\ status[c] # "COMPLETED" /\ status'[c] = "COMPLETED"
                 /\ \A b \in BookingIds \ {c} : status'[b] = status[b]
                 /\ \E from \in {"CONFIRMED", "IN_PROGRESS"} :
                      <<from, "COMPLETED">> \in history'[c]
            \/ \E c \in BookingIds :
                 /\ bookingCount' = bookingCount /\ reopened' = reopened + 1
                 /\ status[c] = "COMPLETED" /\ status'[c] # "COMPLETED"
                 /\ \A b \in BookingIds \ {c} : status'[b] = status[b]
<1>. USE DEF table, locks
<1>1. ASSUME NEW p \in Requests,
             \/ Request(p) \/ ClaimSlot(p) \/ ReleaseSlot(p) \/ BeginTx(p)
             \/ LockProfessional(p) \/ CheckOverlap(p) \/ InsertFails(p)
             \/ MoveBooking(p) \/ Abandon(p)
      PROVE  UNCHANGED <<status, history, bookingCount, reopened>>
  BY <1>1 DEF Request, CreateRequest, RescheduleRequest, ReadBooking, ExpireStalePending, ClaimSlot, ReleaseSlot,
              BeginTx, LockProfessional, CheckOverlap, InsertFails, MoveBooking, Abandon
<1>2. CASE \/ \E s \in Starts : SlotLockExpires(s)
           \/ \E c \in BookingIds : DepositSucceeds(c)
           \/ UNCHANGED vars
  BY <1>2 DEF SlotLockExpires, DepositSucceeds, vars
<1>3. ASSUME NEW p \in Requests, NEW c \in BookingIds, InsertBooking(p, c)
      PROVE  /\ UNCHANGED <<bookingCount, reopened>>
             /\ status[c] = "NONE" /\ status'[c] = "PENDING"
             /\ \A b \in BookingIds \ {c} : status'[b] = status[b] /\ history'[b] = history[b]
  BY <1>3 DEF InsertBooking, TypeOK
<1>4. ASSUME NEW p \in Requests, AddStatusEvent(p)
      PROVE  /\ UNCHANGED <<status, bookingCount, reopened>>
             /\ \A b \in BookingIds : history[b] \subseteq history'[b]
  BY <1>4 DEF AddStatusEvent, TypeOK
<1>5. ASSUME NEW p \in Requests, UpdateStatus(p)
      PROVE  /\ UNCHANGED <<history, bookingCount>>
             /\ \/ /\ reopened' = reopened
                   /\ \A b \in BookingIds : status'[b] = "COMPLETED" <=> status[b] = "COMPLETED"
                \/ \E c \in BookingIds :
                     /\ reopened' = reopened + 1
                     /\ status[c] = "COMPLETED" /\ status'[c] # "COMPLETED"
                     /\ \A b \in BookingIds \ {c} : status'[b] = status[b]
  <2>. DEFINE c == req[p].booking
              to == Target(req[p].op)
  <2>1. to # "COMPLETED" /\ c \in BookingIds
    BY <1>5 DEF UpdateStatus, Target, BookingNamed
  <2>2. UNCHANGED <<history, bookingCount>>
    BY <1>5 DEF UpdateStatus
  <2>3. CASE ~Matches(c, req[p].from, to)
    <3>1. UNCHANGED <<status, reopened>>
      BY <1>5, <2>3 DEF UpdateStatus
    <3>. QED
      BY <2>2, <3>1
  <2>4. CASE Matches(c, req[p].from, to)
    <3>1. /\ status' = [status EXCEPT ![c] = to]
          /\ reopened' = IF status[c] = "COMPLETED" THEN reopened + 1 ELSE reopened
      BY <1>5, <2>4 DEF UpdateStatus
    <3>2. status'[c] = to /\ \A b \in BookingIds \ {c} : status'[b] = status[b]
      BY <2>1, <3>1 DEF TypeOK
    <3>. HIDE DEF c, to
    <3>. QED
      BY <2>1, <2>2, <3>1, <3>2
  <2>. QED
    BY <2>3, <2>4
<1>6. ASSUME NEW p \in Requests, CompleteStatus(p), Matches(req[p].booking, req[p].from, "COMPLETED"),
             req[p].booking \in BookingIds
      PROVE  LET c == req[p].booking IN
             /\ bookingCount' = bookingCount + 1 /\ reopened' = reopened
             /\ status[c] # "COMPLETED" /\ status'[c] = "COMPLETED"
             /\ \A b \in BookingIds \ {c} : status'[b] = status[b]
             /\ \A b \in BookingIds : history[b] \subseteq history'[b]
             /\ \E from \in {"CONFIRMED", "IN_PROGRESS"} : <<from, "COMPLETED">> \in history'[c]
  <2>1. req[p].from \in {"CONFIRMED", "IN_PROGRESS"}
    BY <1>6 DEF CompleteStatus, ReadAccepted, Accepts
  <2>2. <<req[p].from, "COMPLETED">> \in history'[req[p].booking]
    BY <1>6 DEF CompleteStatus, TypeOK
  <2>3. \A b \in BookingIds : history[b] \subseteq history'[b]
    BY <1>6 DEF CompleteStatus, TypeOK
  <2>4. /\ bookingCount' = bookingCount + 1 /\ reopened' = reopened
        /\ status[req[p].booking] # "COMPLETED" /\ status'[req[p].booking] = "COMPLETED"
        /\ \A b \in BookingIds \ {req[p].booking} : status'[b] = status[b]
    BY <1>6, <2>1 DEF CompleteStatus, CountCompleted, Matches, TypeOK
  <2>. QED
    BY <2>1, <2>2, <2>3, <2>4
<1>7. ASSUME NEW p \in Requests, CompleteStatus(p),
             ~Matches(req[p].booking, req[p].from, "COMPLETED")
      PROVE  UNCHANGED <<status, history, bookingCount, reopened>>
  BY <1>7 DEF CompleteStatus
<1>8. ASSUME NEW p \in Requests, CompleteStatus(p) PROVE req[p].booking \in BookingIds
  BY <1>8 DEF CompleteStatus, BookingNamed
<1>9. CASE \E p \in Requests, c \in BookingIds : InsertBooking(p, c)
  BY <1>3, <1>9
<1>10. CASE \E p \in Requests : CompleteStatus(p)
  BY <1>6, <1>7, <1>8, <1>10
<1>11. CASE \/ \E p \in Requests : AddStatusEvent(p) \/ UpdateStatus(p)
            \/ UNCHANGED <<status, history, bookingCount, reopened>>
  BY <1>4, <1>5, <1>11
<1>. QED
  BY <1>1, <1>2, <1>9, <1>10, <1>11 DEF Next, Continue

-----------------------------------------------------------------------------
(* Theorems *)

\* The inductive invariant of every build.
IInv == TypeOK /\ BookingNamed /\ StepsBelong /\ ReadAccepted /\ InsertClear

LEMMA CompletionRecordedStep ==
  ASSUME IsFiniteSet(BookingIds), IInv, CompletionRecorded, [Next]_vars
  PROVE  CompletionRecorded'
<1>. DEFINE Completed == {b \in BookingIds : status[b] = "COMPLETED"}
<1>. USE DEF IInv
<1>1. \A b \in BookingIds : status[b] # "NONE" => history[b] \subseteq history'[b]
  BY CompletionStep
<1>2. IsFiniteSet(Completed) /\ Cardinality(Completed) \in Nat
  BY FS_Subset, FS_CardinalityType
<1>3. bookingCount \in Nat /\ reopened \in Nat /\ bookingCount = Cardinality(Completed) + reopened
  BY DEF TypeOK, CompletionRecorded
<1>4. CASE /\ UNCHANGED <<bookingCount, reopened>>
           /\ \A b \in BookingIds : status'[b] = "COMPLETED" <=> status[b] = "COMPLETED"
  <2>1. Completed' = Completed
    BY <1>4
  <2>2. bookingCount' = Cardinality(Completed') + reopened'
    BY <1>3, <1>4, <2>1
  <2>. QED
    BY <1>1, <1>4, <2>2 DEF CompletionRecorded, ListStatusEvents
<1>5. ASSUME NEW c \in BookingIds,
             bookingCount' = bookingCount + 1, reopened' = reopened,
             status[c] # "COMPLETED", status'[c] = "COMPLETED",
             \A b \in BookingIds \ {c} : status'[b] = status[b],
             \E from \in {"CONFIRMED", "IN_PROGRESS"} : <<from, "COMPLETED">> \in history'[c]
      PROVE  CompletionRecorded'
  <2>1. Completed' = Completed \cup {c} /\ c \notin Completed
    BY <1>5
  <2>2. Cardinality(Completed') = Cardinality(Completed) + 1
    BY <1>2, <2>1, FS_AddElement
  <2>. HIDE DEF Completed
  <2>3. bookingCount' = Cardinality(Completed') + reopened'
    BY <1>2, <1>3, <1>5, <2>2
  <2>. QED
    BY <1>1, <1>5, <2>3 DEF CompletionRecorded, ListStatusEvents, Completed
<1>6. ASSUME NEW c \in BookingIds,
             bookingCount' = bookingCount, reopened' = reopened + 1,
             status[c] = "COMPLETED", status'[c] # "COMPLETED",
             \A b \in BookingIds \ {c} : status'[b] = status[b]
      PROVE  CompletionRecorded'
  <2>1. Completed' = Completed \ {c} /\ c \in Completed
    BY <1>6
  <2>2. Cardinality(Completed') = Cardinality(Completed) - 1
    BY <1>2, <2>1, FS_RemoveElement
  <2>. HIDE DEF Completed
  <2>3. bookingCount' = Cardinality(Completed') + reopened'
    BY <1>2, <1>3, <1>6, <2>2
  <2>. QED
    BY <1>1, <1>6, <2>3 DEF CompletionRecorded, ListStatusEvents, Completed
<1>. QED
  BY <1>4, <1>5, <1>6, CompletionStep

LEMMA InitIInv == Init => IInv /\ DepositGate /\ CreatesDisjoint
<1>. SUFFICES ASSUME Init PROVE IInv /\ DepositGate /\ CreatesDisjoint
  OBVIOUS
<1>1. TypeOK
  BY InitType
<1>2. \A p \in Requests : pc[p] = "idle" /\ req[p].op = None
  BY DEF Init, NoLocals
<1>3. \A b \in BookingIds : status[b] = "NONE"
  BY DEF Init
<1>4. BookingNamed /\ StepsBelong /\ ReadAccepted /\ InsertClear
  BY <1>2, NoneAssumption
     DEF BookingNamed, StepsBelong, ReadAccepted, InsertClear, AllOps
<1>5. DepositGate /\ CreatesDisjoint
  BY <1>3 DEF DepositGate, CreatesDisjoint, Held, Active
<1>. QED
  BY <1>1, <1>4, <1>5 DEF IInv

LEMMA StepIInv == IInv /\ [Next]_vars => IInv'
  BY TypeStep, BookingNamedStep, StepsBelongStep, ReadAcceptedStep, InsertClearStep
     DEF IInv

LEMMA Invariance == Spec => []IInv
  BY InitIInv, StepIInv, PTL DEF Spec

\* Every variable keeps its type.
THEOREM TypeCorrect == Spec => []TypeOK
<1>1. IInv => TypeOK
  BY DEF IInv
<1>. QED
  BY <1>1, Invariance, PTL

\* For any number of concurrent requests, crashes and expired keys: two bookings that
\* are active where Create put them overlap only if one was inserted while the
\* transaction of the other was open, wherever the database puts the read point.
THEOREM OnlyOpenTransactionsOverlap == Spec => []CreatesDisjoint
<1>1. IInv /\ CreatesDisjoint /\ [Next]_vars => CreatesDisjoint'
  BY CreatesDisjointStep DEF IInv
<1>. QED
  BY <1>1, InitIInv, Invariance, PTL DEF Spec

\* No booking is CONFIRMED, IN_PROGRESS or COMPLETED on an unpaid deposit.
THEOREM DepositsGateConfirmation == Spec => []DepositGate
<1>1. IInv /\ DepositGate /\ [Next]_vars => DepositGate'
  BY DepositGateStep DEF IInv
<1>. QED
  BY <1>1, InitIInv, Invariance, PTL DEF Spec

\* Compare-and-set keeps the lifecycle although every handler reads first and
\* writes later.
THEOREM LifecycleFollowed == Spec => FollowsLifecycle
<1>1. IInv /\ [Next]_vars =>
        [\A b \in BookingIds :
           status'[b] # status[b] => LifecycleStep(status[b], status'[b])]_vars
  BY StatusStep DEF IInv
<1>. QED
  BY <1>1, Invariance, PTL DEF Spec, FollowsLifecycle
\* However the attempts of a retried request interleave, its key names at most
\* one booking.
THEOREM RetriesBookOnce == Spec => []KeyNamesOneBooking
<1>1. Init => KeyNamesOneBooking
  BY DEF Init, KeyNamesOneBooking
<1>2. IInv /\ KeyNamesOneBooking /\ [Next]_vars => KeyNamesOneBooking'
  BY KeyNamesStep DEF IInv
<1>. QED
  BY <1>1, <1>2, Invariance, PTL DEF Spec

\* Whatever crashes, every COMPLETED booking shows when it was completed, and the
\* count is that of the COMPLETED bookings and of the completions Confirm took back:
\* for any finite set of bookings.
THEOREM CompletionsRecorded ==
  ASSUME IsFiniteSet(BookingIds)
  PROVE  Spec => []CompletionRecorded
<1>1. Init => CompletionRecorded
  <2>. SUFFICES ASSUME Init PROVE CompletionRecorded
    OBVIOUS
  <2>1. {b \in BookingIds : status[b] = "COMPLETED"} = {}
    BY DEF Init
  <2>2. Cardinality({b \in BookingIds : status[b] = "COMPLETED"}) = 0
    BY <2>1, FS_EmptySet
  <2>. QED
    BY <2>2 DEF Init, CompletionRecorded
<1>2. IInv /\ CompletionRecorded /\ [Next]_vars => CompletionRecorded'
  BY CompletionRecordedStep
<1>. QED
  BY <1>1, <1>2, Invariance, PTL DEF Spec

-----------------------------------------------------------------------------
(* The refinement *)

\* The bookings that Calendar sees, and the ids that are taken.
heldBar == {Shown(b) : b \in Held}
madeBar == {b \in BookingIds : status[b] # "NONE"}

\* A request for a new booking asks for a time and a length that are on offer.
AskedFor ==
  \A p \in Requests :
    /\ pc[p] \in {"begin", "lock", "check", "insert"} => req[p].op = "create"
    /\ req[p].op = "create" =>
         \E s \in Starts, d \in Durations : req[p].span = [start |-> s, end |-> s + d]

\* Only what was made is moved or brought back.
DisplacedMade == \A b \in displaced : status[b] # "NONE"

CInv == IInv /\ AskedFor /\ DisplacedMade

LEMMA AskedForStep ==
  ASSUME TypeOK, StepsBelong, AskedFor, [Next]_vars
  PROVE  AskedFor'
<1>. SUFFICES ASSUME NEW q \in Requests
              PROVE  /\ pc'[q] \in {"begin", "lock", "check", "insert"} => req'[q].op = "create"
                     /\ req'[q].op = "create" =>
                          \E s \in Starts, d \in Durations :
                            req'[q].span = [start |-> s, end |-> s + d]
  BY DEF AskedFor
<1>1. CASE pc'[q] = pc[q] /\ req'[q] = req[q]
  BY <1>1 DEF AskedFor
<1>2. CASE \E s \in Starts, d \in Durations, t \in Offers : CreateRequest(q, s, d, t)
  <2>1. PICK s \in Starts, d \in Durations, t \in Offers : CreateRequest(q, s, d, t)
    BY <1>2
  <2>2. req'[q].op = "create" /\ req'[q].span = [start |-> s, end |-> s + d]
    BY <2>1 DEF CreateRequest, NoLocals, TypeOK
  <2>. QED
    BY <2>2
<1>3. CASE \/ \E b \in BookingIds, s \in Starts : RescheduleRequest(q, b, s)
           \/ \E op \in AllOps, b \in BookingIds : ReadBooking(q, op, b)
           \/ \E b \in BookingIds : ExpireStalePending(q, b)
  <2>1. CASE \E b \in BookingIds, s \in Starts : RescheduleRequest(q, b, s)
    BY <2>1 DEF RescheduleRequest, Goto, NoLocals, TypeOK
  <2>2. CASE \E op \in AllOps, b \in BookingIds : ReadBooking(q, op, b)
    BY <2>2 DEF ReadBooking, Goto, NoLocals, TypeOK
  <2>3. CASE \E b \in BookingIds : ExpireStalePending(q, b)
    BY <2>3 DEF ExpireStalePending, ReadBooking, Goto, NoLocals, TypeOK
  <2>. QED
    BY <1>3, <2>1, <2>2, <2>3
<1>4. CASE ClaimSlot(q)
  <2>1. CASE req[q].span.start \in slotLocks
    BY <1>4, <2>1, NoneAssumption DEF ClaimSlot, Finish, Goto, NoLocals, TypeOK, AllOps
  <2>2. CASE req[q].span.start \notin slotLocks
    BY <1>4, <2>2 DEF ClaimSlot, Goto, TypeOK, AskedFor
  <2>. QED
    BY <2>1, <2>2
<1>5. CASE BeginTx(q)
  <2>1. req'[q].op = req[q].op /\ req'[q].span = req[q].span
    BY <1>5 DEF BeginTx, TypeOK, Locals
  <2>. QED
    BY <1>5, <2>1 DEF BeginTx, AskedFor
<1>6. CASE LockProfessional(q) \/ CheckOverlap(q)
  <2>1. pc[q] \in {"lock", "check"} /\ UNCHANGED req
    BY <1>6 DEF LockProfessional, CheckOverlap
  <2>. QED
    BY <2>1 DEF AskedFor
<1>7. CASE InsertFails(q) \/ MoveBooking(q) \/ \E b \in BookingIds : InsertBooking(q, b)
  <2>1. pc'[q] \in {"event", "release"} /\ UNCHANGED req
    BY <1>7 DEF InsertFails, MoveBooking, InsertBooking, Goto, TypeOK
  <2>. QED
    BY <2>1 DEF AskedFor
<1>8. CASE \/ ReleaseSlot(q) \/ UpdateStatus(q) \/ CompleteStatus(q) \/ AddStatusEvent(q)
           \/ Abandon(q)
  <2>1. /\ pc'[q] \in {"idle", "event", "release"}
        /\ req'[q] = req[q] \/ req'[q].op = None
    BY <1>8
       DEF ReleaseSlot, UpdateStatus, CompleteStatus, AddStatusEvent, Abandon, Finish, Goto,
           NoLocals, TypeOK
  <2>. QED
    BY <2>1, NoneAssumption DEF AskedFor, AllOps
<1>. QED
  BY <1>1, <1>2, <1>3, <1>4, <1>5, <1>6, <1>7, <1>8, WhoseStep, OthersKeepLocals
     DEF Request, Continue

LEMMA DisplacedMadeStep ==
  ASSUME TypeOK, BookingNamed, StepsBelong, DisplacedMade, [Next]_vars
  PROVE  DisplacedMade'
<1>1. ASSUME NEW b \in displaced', b \notin displaced PROVE status[b] # "NONE"
  <2>1. ASSUME NEW p \in Requests, UpdateStatus(p) PROVE status[b] # "NONE"
    BY <1>1, <2>1 DEF UpdateStatus, BookingNamed
  <2>2. ASSUME NEW p \in Requests, MoveBooking(p) PROVE status[b] # "NONE"
    BY <1>1, <2>2 DEF MoveBooking, BookingNamed, StepsBelong
  <2>3. ASSUME NEW p \in Requests,
               \/ Request(p) \/ ClaimSlot(p) \/ ReleaseSlot(p) \/ BeginTx(p)
               \/ LockProfessional(p) \/ CheckOverlap(p) \/ InsertFails(p)
               \/ (\E c \in BookingIds : InsertBooking(p, c))
               \/ CompleteStatus(p) \/ AddStatusEvent(p) \/ Abandon(p)
        PROVE  UNCHANGED displaced
    BY <2>3
       DEF Request, CreateRequest, RescheduleRequest, ReadBooking, ExpireStalePending, ClaimSlot,
           ReleaseSlot, BeginTx, LockProfessional, CheckOverlap, InsertFails, InsertBooking,
           CompleteStatus, AddStatusEvent, Abandon
  <2>4. CASE \/ \E s \in Starts : SlotLockExpires(s)
             \/ \E c \in BookingIds : DepositSucceeds(c)
             \/ UNCHANGED vars
    BY <1>1, <2>4 DEF SlotLockExpires, DepositSucceeds, vars
  <2>. QED
    BY <1>1, <2>1, <2>2, <2>3, <2>4 DEF Next, Continue
<1>2. displaced' \subseteq BookingIds
  <2>1. TypeOK'
    BY TypeStep
  <2>. QED
    BY <2>1 DEF TypeOK
<1>. QED
  BY <1>1, <1>2, RowsStay DEF DisplacedMade

LEMMA CInvariance == Spec => []CInv
<1>1. Init => CInv
  <2>. SUFFICES ASSUME Init PROVE CInv
    OBVIOUS
  <2>1. AskedFor /\ DisplacedMade
    BY NoneAssumption DEF Init, AskedFor, DisplacedMade, NoLocals, AllOps
  <2>. QED
    BY <2>1, InitIInv DEF CInv
<1>2. CInv /\ [Next]_vars => CInv'
  BY StepIInv, AskedForStep, DisplacedMadeStep DEF CInv, IInv
<1>. QED
  BY <1>1, <1>2, PTL DEF Spec

\* The INSERT is the step of Calendar that makes a booking.
LEMMA InsertBooks ==
  ASSUME CInv, NEW p \in Requests, NEW b \in BookingIds,
         InsertBooking(p, b)
  PROVE  Promise!Next
<1>0. TypeOK
  BY DEF CInv, IInv
<1>1. PICK s \in Starts, d \in Durations : req[p].span = [start |-> s, end |-> s + d]
  BY DEF CInv, AskedFor, InsertBooking
<1>. DEFINE home == req[p].terms.home
            e == Promise!Entry(b, s, d, home)
<1>2. home \in BOOLEAN /\ req[p].terms \in Terms
  BY <1>0 DEF TypeOK, Locals, Terms
<1>3. /\ b \notin displaced /\ status[b] = "NONE" /\ displaced' = displaced
      /\ status'[b] = "PENDING" /\ span'[b] = req[p].span /\ terms'[b] = req[p].terms
      /\ \A c \in BookingIds \ {b} :
           status'[c] = status[c] /\ span'[c] = span[c] /\ terms'[c] = terms[c]
  BY <1>0 DEF InsertBooking, TypeOK, CInv, DisplacedMade
<1>4. madeBar' = madeBar \cup {b} /\ b \notin madeBar
  BY <1>3 DEF madeBar
<1>5. Shown(b)' = e
  BY <1>1, <1>3 DEF Shown, Promise!Entry
<1>6. heldBar' = heldBar \cup {e}
  <2>1. Held' = Held \cup {b}
    BY <1>3 DEF Held, Active
  <2>2. \A c \in Held : Shown(c)' = Shown(c) /\ c # b
    BY <1>3 DEF Held, Shown, Active
  <2>. QED
    BY <1>5, <2>1, <2>2 DEF heldBar
<1>7. ASSUME NEW f \in heldBar, f.booking \notin missed[p] PROVE Promise!KeepsClear(e, f)
  <2>1. PICK c \in Held : f = Shown(c)
    BY <1>7 DEF heldBar
  <2>6. c \notin missed[p]
    BY <1>7, <2>1 DEF Shown
  <2>2. ~Overlaps(c, CheckBounds(req[p].span, req[p].terms)) /\ status[c] \in Active
    BY <2>1, <2>6 DEF Held, CInv, IInv, InsertClear, InsertBooking
  <2>3. /\ s \in Int /\ d \in Int /\ Buffer \in Nat /\ Travel \in Nat
        /\ span[c].start \in Int /\ span[c].end \in Int
    BY <1>0, <2>1, ConstantsAssumption DEF TypeOK, Spans, Held
  <2>4. /\ f.start = span[c].start /\ f.end = span[c].end
        /\ e.start = s /\ e.end = s + d /\ e.home = home
    BY <2>1 DEF Shown, Promise!Entry
  <2>5. ~(span[c].start < s + d + Buffer /\ span[c].end > (IF home THEN s - Travel ELSE s))
    BY <1>1, <2>2 DEF Overlaps, CheckBounds
  <2>. QED
    BY <2>3, <2>4, <2>5 DEF Promise!KeepsClear, Promise!Lead
<1>8. \E m \in [Requests -> {{}, {b}}] :
        missed' = [q \in Requests |-> IF q = p THEN {} ELSE missed[q] \cup m[q]]
  <2>. DEFINE m == [q \in Requests |-> {c \in {b} : InTransaction(q)}]
  <2>1. m \in [Requests -> {{}, {b}}]
    <3>1. \A q \in Requests : {c \in {b} : InTransaction(q)} \in {{}, {b}}
      OBVIOUS
    <3>. QED
      BY <3>1
  <2>2. missed' = [q \in Requests |-> IF q = p THEN {} ELSE missed[q] \cup m[q]]
    BY DEF InsertBooking
  <2>. QED
    BY <2>1, <2>2
<1>9. crossed' = crossed \cup ({b} \X missed[p])
  BY DEF InsertBooking
<1>. HIDE DEF e
<1>10. \E t \in Starts, u \in Durations, h \in BOOLEAN :
         LET x == Promise!Entry(b, t, u, h) IN
         /\ \A f \in heldBar : f.booking \in missed[p] \/ Promise!KeepsClear(x, f)
         /\ heldBar' = heldBar \cup {x}
  BY <1>2, <1>6, <1>7 DEF e
<1>11. Promise!Book(p, b)
  BY <1>4, <1>8, <1>9, <1>10 DEF Promise!Book, heldBar, madeBar
<1>. QED
  BY <1>11 DEF Promise!Next

\* Every other statement writes the row of one booking at most.
LEMMA OneRow ==
  ASSUME IInv, [Next]_vars, \A p \in Requests, b \in BookingIds : ~InsertBooking(p, b)
  PROVE  \E c : \A b \in BookingIds \ {c} :
           /\ status'[b] = status[b]
           /\ b \in displaced' <=> b \in displaced
<1>0. TypeOK
  BY DEF IInv
<1>1. ASSUME NEW p \in Requests,
             \/ Request(p) \/ ClaimSlot(p) \/ ReleaseSlot(p) \/ BeginTx(p)
             \/ LockProfessional(p) \/ CheckOverlap(p) \/ InsertFails(p)
             \/ AddStatusEvent(p) \/ Abandon(p)
      PROVE  UNCHANGED <<status, displaced>>
  BY <1>1
     DEF Request, CreateRequest, RescheduleRequest, ReadBooking, ExpireStalePending, ClaimSlot,
         ReleaseSlot, BeginTx, LockProfessional, CheckOverlap, InsertFails, AddStatusEvent, Abandon,
         table
<1>2. CASE \/ \E s \in Starts : SlotLockExpires(s)
           \/ \E b \in BookingIds : DepositSucceeds(b)
           \/ UNCHANGED vars
  BY <1>2 DEF SlotLockExpires, DepositSucceeds, vars, table
<1>3. ASSUME NEW p \in Requests, UpdateStatus(p) \/ CompleteStatus(p) \/ MoveBooking(p)
      PROVE  \A b \in BookingIds \ {req[p].booking} :
               status'[b] = status[b] /\ (b \in displaced' <=> b \in displaced)
  BY <1>0, <1>3 DEF UpdateStatus, CompleteStatus, MoveBooking, TypeOK
<1>. QED
  BY <1>1, <1>2, <1>3 DEF Next, Continue

\* Other statements than the INSERT make no row.
LEMMA RowMade ==
  ASSUME TypeOK, BookingNamed, [Next]_vars, NEW b \in BookingIds, status[b] = "NONE",
         \A p \in Requests, c \in BookingIds : ~InsertBooking(p, c)
  PROVE  status'[b] = "NONE"
<1>1. ASSUME NEW p \in Requests,
             \/ Request(p) \/ ClaimSlot(p) \/ ReleaseSlot(p) \/ BeginTx(p)
             \/ LockProfessional(p) \/ CheckOverlap(p) \/ InsertFails(p)
             \/ MoveBooking(p) \/ AddStatusEvent(p) \/ Abandon(p)
      PROVE  UNCHANGED status
  BY <1>1
     DEF Request, CreateRequest, RescheduleRequest, ReadBooking, ExpireStalePending, ClaimSlot,
         ReleaseSlot, BeginTx, LockProfessional, CheckOverlap, InsertFails, MoveBooking,
         AddStatusEvent, Abandon, table
<1>2. CASE \/ \E s \in Starts : SlotLockExpires(s)
           \/ \E c \in BookingIds : DepositSucceeds(c)
           \/ UNCHANGED vars
  BY <1>2 DEF SlotLockExpires, DepositSucceeds, vars, table
<1>3. ASSUME NEW p \in Requests, UpdateStatus(p) \/ CompleteStatus(p)
      PROVE  status'[b] = status[b]
  BY <1>3 DEF UpdateStatus, CompleteStatus, BookingNamed, TypeOK
<1>. QED
  BY <1>1, <1>2, <1>3 DEF Next, Continue

\* What a request misses changes with its looks at the calendar only.
LEMMA LookSteps ==
  ASSUME TypeOK, [Next]_vars, \A p \in Requests, b \in BookingIds : ~InsertBooking(p, b)
  PROVE  \/ UNCHANGED missed
         \/ \E p \in Requests : Promise!Look(p) /\ UNCHANGED <<table, displaced>>
<1>1. ASSUME NEW p \in Requests,
             \/ Request(p) \/ ClaimSlot(p) \/ ReleaseSlot(p) \/ LockProfessional(p)
             \/ InsertFails(p) \/ UpdateStatus(p) \/ CompleteStatus(p) \/ MoveBooking(p)
             \/ AddStatusEvent(p) \/ Abandon(p)
      PROVE  UNCHANGED missed
  BY <1>1
     DEF Request, CreateRequest, RescheduleRequest, ReadBooking, ExpireStalePending, ClaimSlot,
         ReleaseSlot, LockProfessional, InsertFails, UpdateStatus, CompleteStatus, MoveBooking,
         AddStatusEvent, Abandon
<1>2. ASSUME NEW p \in Requests, BeginTx(p) \/ CheckOverlap(p)
      PROVE  UNCHANGED missed \/ (Promise!Look(p) /\ UNCHANGED <<table, displaced>>)
  <2>1. UNCHANGED <<table, displaced, crossed>> /\ (UNCHANGED missed \/ Look(p))
    BY <1>2 DEF BeginTx, CheckOverlap
  <2>2. UNCHANGED <<heldBar, madeBar>>
    BY <2>1 DEF heldBar, madeBar, Held, Shown, table
  <2>. QED
    BY <2>1, <2>2 DEF Look, Promise!Look, heldBar, madeBar
<1>3. CASE \/ \E s \in Starts : SlotLockExpires(s)
           \/ \E c \in BookingIds : DepositSucceeds(c)
           \/ UNCHANGED vars
  BY <1>3 DEF SlotLockExpires, DepositSucceeds, vars
<1>. QED
  BY <1>1, <1>2, <1>3 DEF Next, Continue

LEMMA StepCalendar ==
  ASSUME CInv, [Next]_vars
  PROVE  [Promise!Next]_<<heldBar, madeBar, missed, crossed>>
<1>1. CASE \E p \in Requests, b \in BookingIds : InsertBooking(p, b)
  BY <1>1, InsertBooks
<1>2. CASE \E p \in Requests : Promise!Look(p)
  BY <1>2 DEF Promise!Next
<1>3. CASE UNCHANGED missed /\ \A p \in Requests, b \in BookingIds : ~InsertBooking(p, b)
  <2>0. IInv /\ TypeOK /\ BookingNamed
    BY DEF CInv, IInv
  <2>1. PICK c : \A b \in BookingIds \ {c} :
                   /\ status'[b] = status[b]
                   /\ b \in displaced' <=> b \in displaced
    BY <1>3, <2>0, OneRow
  <2>6. UNCHANGED <<missed, crossed>>
    BY <1>3, CrossedGrows
  <2>2. madeBar' = madeBar
    <3>1. ASSUME NEW b \in BookingIds, status[b] = "NONE" PROVE status'[b] = "NONE"
      BY <1>3, <2>0, <3>1, RowMade
    <3>. QED
      BY <2>0, <3>1, RowsStay DEF madeBar
  <2>3. ASSUME NEW b \in Held' PROVE b \in Held /\ Shown(b)' = Shown(b)
    <3>1. b \notin displaced /\ status[b] \in Active /\ span'[b] = span[b]
      BY <1>3, <2>0, <2>3, ActiveFrame DEF Held
    <3>2. terms'[b] = terms[b]
      BY <2>0, <2>3, <3>1, RowsStay DEF Held, Active
    <3>. QED
      BY <2>3, <3>1, <3>2 DEF Held, Shown
  <2>4. CASE c \in Held /\ c \notin Held'
    <3>1. Held' = Held \ {c}
      BY <2>1, <2>3, <2>4 DEF Held
    <3>2. \A b \in Held : Shown(b) = Shown(c) => b = c
      BY DEF Shown
    <3>3. heldBar' = heldBar \ {Shown(c)}
      BY <2>3, <3>1, <3>2 DEF heldBar
    <3>4. Shown(c) \in heldBar
      BY <2>4 DEF heldBar
    <3>5. Promise!LetGo(Shown(c))
      BY <2>2, <2>6, <3>3 DEF Promise!LetGo, heldBar, madeBar
    <3>. QED
      BY <3>4, <3>5 DEF Promise!Next, heldBar
  <2>5. CASE ~(c \in Held /\ c \notin Held')
    <3>1. Held' = Held
      BY <2>1, <2>3, <2>5 DEF Held
    <3>2. heldBar' = heldBar
      BY <2>3, <3>1 DEF heldBar
    <3>. QED
      BY <2>2, <2>6, <3>2
  <2>. QED
    BY <2>4, <2>5
<1>. QED
  BY <1>1, <1>2, <1>3, LookSteps DEF CInv, IInv

\* However the statements of requests interleave, fail and break off, and whatever
\* keys expire, Create looks like a look at the calendar and one later step that puts
\* a booking where it and its margins meet nothing that was there at the look, and
\* other statements only let go of one (store.go:130, service.go:618-626): for any
\* number of bookings, whichever read point the database has.
THEOREM CreatesKeepTheCalendar == Spec => ImplementsCalendar
<1>1. Init => Promise!Init
  BY DEF Init, Promise!Init, Held, Active
<1>2. CInv /\ [Next]_vars => [Promise!Next]_<<heldBar, madeBar, missed, crossed>>
  BY StepCalendar
<1>3. Promise!Init /\ [][Promise!Next]_<<heldBar, madeBar, missed, crossed>> => Promise!Spec
  BY DEF Promise!Spec, Promise!calendar, heldBar, madeBar
<1>. QED
  BY <1>1, <1>2, <1>3, CInvariance, PTL DEF Spec, ImplementsCalendar

\* A step of Calendar keeps the margins.
LEMMA CalendarKeepsClear ==
  Promise!OneKeepsClear /\ [Promise!Next]_<<heldBar, madeBar, missed, crossed>>
    => Promise!OneKeepsClear'
<1>. DEFINE Apart(e, f) == \/ Promise!KeepsClear(e, f) \/ Promise!KeepsClear(f, e)
                           \/ <<e.booking, f.booking>> \in crossed
                           \/ <<f.booking, e.booking>> \in crossed
<1>. SUFFICES ASSUME Promise!OneKeepsClear,
                     [Promise!Next]_<<heldBar, madeBar, missed, crossed>>
              PROVE  Promise!OneKeepsClear'
  OBVIOUS
<1>1. \A e, f \in heldBar : e = f \/ Apart(e, f)
  BY DEF Promise!OneKeepsClear, heldBar
<1>2. \/ heldBar' \subseteq heldBar /\ crossed' = crossed
      \/ \E p \in Requests, b \in BookingIds, s \in Starts, d \in Durations, home \in BOOLEAN :
           LET e == Promise!Entry(b, s, d, home) IN
           /\ heldBar' = heldBar \cup {e}
           /\ crossed' = crossed \cup ({b} \X missed[p])
           /\ \A f \in heldBar : f.booking \in missed[p] \/ Promise!KeepsClear(e, f)
  BY DEF Promise!Next, Promise!Look, Promise!Book, Promise!LetGo, heldBar, madeBar
<1>3. \A e, f \in heldBar' : e = f \/ Apart(e, f)'
  <2>1. CASE heldBar' \subseteq heldBar /\ crossed' = crossed
    BY <1>1, <2>1 DEF Promise!KeepsClear, Promise!Lead
  <2>2. ASSUME NEW p \in Requests, NEW b \in BookingIds, NEW e,
               e.booking = b,
               heldBar' = heldBar \cup {e},
               crossed' = crossed \cup ({b} \X missed[p]),
               \A f \in heldBar : f.booking \in missed[p] \/ Promise!KeepsClear(e, f)
        PROVE  \A g, f \in heldBar' : g = f \/ Apart(g, f)'
    <3>1. \A f \in heldBar : Apart(e, f)' /\ Apart(f, e)'
      BY <2>2 DEF Promise!KeepsClear, Promise!Lead
    <3>2. \A g, f \in heldBar : g = f \/ Apart(g, f)'
      BY <1>1, <2>2 DEF Promise!KeepsClear, Promise!Lead
    <3>. QED
      BY <2>2, <3>1, <3>2
  <2>3. CASE ~(heldBar' \subseteq heldBar /\ crossed' = crossed)
    <3>1. PICK p \in Requests, b \in BookingIds, s \in Starts, d \in Durations,
               home \in BOOLEAN :
            LET e == Promise!Entry(b, s, d, home) IN
            /\ heldBar' = heldBar \cup {e}
            /\ crossed' = crossed \cup ({b} \X missed[p])
            /\ \A f \in heldBar : f.booking \in missed[p] \/ Promise!KeepsClear(e, f)
      BY <1>2, <2>3
    <3>. DEFINE e == Promise!Entry(b, s, d, home)
    <3>2. e.booking = b
      BY DEF Promise!Entry
    <3>3. /\ heldBar' = heldBar \cup {e}
          /\ \A f \in heldBar : f.booking \in missed[p] \/ Promise!KeepsClear(e, f)
      BY <3>1
    <3>4. crossed' = crossed \cup ({b} \X missed[p])
      BY <3>1
    <3>. HIDE DEF e
    <3>. QED
      BY <2>2, <3>2, <3>3, <3>4
  <2>. QED
    BY <2>1, <2>3
<1>. QED
  BY <1>3 DEF Promise!OneKeepsClear, Promise!KeepsClear, Promise!Lead, heldBar

\* Of two bookings that are active where Create put them, and of which neither was
\* inserted while the transaction of the other was open, one keeps its margins from
\* the other: behind the one booked later its buffer is free, and before it, at the
\* customer's home, the travel time (service.go:618-626).
THEOREM LaterKeepsMargins == Spec => []Promise!OneKeepsClear
<1>1. Init => Promise!OneKeepsClear
  BY DEF Init, Promise!OneKeepsClear, Held, Active
<1>2. CInv /\ [Next]_vars => [Promise!Next]_<<heldBar, madeBar, missed, crossed>>
  BY StepCalendar
<1>. QED
  BY <1>1, <1>2, CalendarKeepsClear, CInvariance, PTL DEF Spec

-----------------------------------------------------------------------------
(* Slot keys *)

\* The Creates that set their slot key and still have it.
Keyed(p) == pc[p] \in {"begin", "lock", "check", "insert"} /\ p \notin unkeyed

\* Their keys are set, and no two of them are the same.
KeysHeld == \A p \in Requests : Keyed(p) => req[p].span.start \in slotLocks
KeysDiffer ==
  \A p, q \in Requests :
    p # q /\ Keyed(p) /\ Keyed(q) => req[p].span.start # req[q].span.start

\* What a Create with its key does not see starts at another time.
MissedApart ==
  \A q \in Requests : InTransaction(q) /\ q \notin unkeyed =>
    \A b \in missed[q] \ (displaced \cup unguarded) : span[b].start # req[q].span.start

\* What was missed or crossed is there.
MeetingsMade ==
  /\ \A q \in Requests : \A b \in missed[q] : status[b] # "NONE"
  /\ \A b, c \in BookingIds : <<b, c>> \in crossed => status[b] # "NONE" /\ status[c] # "NONE"

KInv == IInv /\ KeysHeld /\ KeysDiffer /\ MissedApart /\ MeetingsMade /\ KeysKeepStartsApart

\* The keys change with a claim, or they are lost to all who count on one.
LEMMA SlotStep ==
  ASSUME TypeOK, [Next]_vars
  PROVE  \/ UNCHANGED <<slotLocks, unkeyed>>
         \/ \E p \in Requests :
              /\ ClaimSlot(p) /\ pc[p] = "claim"
              /\ req[p].span.start \notin slotLocks
              /\ slotLocks' = slotLocks \cup {req[p].span.start}
              /\ unkeyed' = unkeyed \ {p}
         \/ \E s : DropKey(s)
<1>1. ASSUME NEW p \in Requests,
             \/ Request(p) \/ BeginTx(p) \/ LockProfessional(p) \/ CheckOverlap(p)
             \/ InsertFails(p) \/ UpdateStatus(p) \/ CompleteStatus(p) \/ MoveBooking(p)
             \/ AddStatusEvent(p) \/ Abandon(p) \/ \E b \in BookingIds : InsertBooking(p, b)
      PROVE  UNCHANGED <<slotLocks, unkeyed>>
  BY <1>1
     DEF Request, CreateRequest, RescheduleRequest, ReadBooking, ExpireStalePending, BeginTx,
         LockProfessional, CheckOverlap, InsertFails, UpdateStatus, CompleteStatus, MoveBooking,
         AddStatusEvent, Abandon, InsertBooking, locks
<1>2. ASSUME NEW p \in Requests, ClaimSlot(p)
      PROVE  \/ UNCHANGED <<slotLocks, unkeyed>>
             \/ /\ pc[p] = "claim"
                /\ req[p].span.start \notin slotLocks
                /\ slotLocks' = slotLocks \cup {req[p].span.start}
                /\ unkeyed' = unkeyed \ {p}
  BY <1>2 DEF ClaimSlot
<1>3. ASSUME NEW p \in Requests, ReleaseSlot(p) PROVE \E s : DropKey(s)
  BY <1>3 DEF ReleaseSlot
<1>4. ASSUME NEW s \in Starts, SlotLockExpires(s) PROVE DropKey(s)
  BY <1>4 DEF SlotLockExpires
<1>5. CASE UNCHANGED vars \/ \E b \in BookingIds : DepositSucceeds(b)
  BY <1>5 DEF vars, DepositSucceeds, locks
<1>. QED
  BY <1>1, <1>2, <1>3, <1>4, <1>5 DEF Next, Continue

\* Between its claim and its INSERT a Create keeps what it asked for.
LEMMA AskedStays ==
  ASSUME TypeOK, StepsBelong, [Next]_vars, NEW q \in Requests,
         pc'[q] \in {"begin", "lock", "check", "insert"}
  PROVE  /\ req'[q].span = req[q].span
         /\ pc[q] \in {"begin", "lock", "check", "insert"} \/ ClaimSlot(q)
<1>1. CASE Request(q) \/ Continue(q) \/ Abandon(q)
  <2>1. CASE pc'[q] = "begin"
    <3>. USE <2>1 DEF Goto, Finish, TypeOK
    <3>1. ~Request(q) /\ ~Abandon(q)
      BY DEF Request, CreateRequest, RescheduleRequest, ReadBooking, ExpireStalePending, Abandon
    <3>2. /\ ~BeginTx(q) /\ ~LockProfessional(q) /\ ~CheckOverlap(q) /\ ~InsertFails(q)
          /\ ~ReleaseSlot(q) /\ \A b \in BookingIds : ~InsertBooking(q, b)
      BY DEF BeginTx, LockProfessional, CheckOverlap, InsertFails, ReleaseSlot, InsertBooking
    <3>3. ~UpdateStatus(q) /\ ~CompleteStatus(q) /\ ~MoveBooking(q) /\ ~AddStatusEvent(q)
      BY DEF UpdateStatus, CompleteStatus, MoveBooking, AddStatusEvent
    <3>4. ClaimSlot(q)
      BY <1>1, <3>1, <3>2, <3>3 DEF Continue
    <3>. QED
      BY <3>4 DEF ClaimSlot
  <2>2. CASE pc'[q] # "begin"
    <3>1. BeginTx(q) \/ LockProfessional(q) \/ CheckOverlap(q)
      BY <1>1, <2>2, TransactionStep
    <3>. QED
      BY <3>1 DEF BeginTx, LockProfessional, CheckOverlap, TypeOK, Locals
  <2>. QED
    BY <2>1, <2>2
<1>2. CASE ~(Request(q) \/ Continue(q) \/ Abandon(q))
  <2>1. pc'[q] = pc[q] /\ req'[q] = req[q]
    BY <1>2, WhoseStep, OthersKeepLocals
  <2>. QED
    BY <2>1
<1>. QED
  BY <1>1, <1>2

\* A Create has its key because it just claimed it or because nobody took it away.
LEMMA KeyedStep ==
  ASSUME TypeOK, StepsBelong, [Next]_vars, NEW q \in Requests, Keyed(q)'
  PROVE  /\ req'[q].span = req[q].span
         /\ \/ /\ Keyed(q)
               /\ req[q].span.start \in slotLocks => req[q].span.start \in slotLocks'
            \/ /\ req[q].span.start \notin slotLocks
               /\ slotLocks' = slotLocks \cup {req[q].span.start}
               /\ \A r \in Requests \ {q} : Keyed(r)' => Keyed(r)
<1>1. pc'[q] \in {"begin", "lock", "check", "insert"} /\ q \notin unkeyed'
  BY DEF Keyed
<1>2. /\ req'[q].span = req[q].span
      /\ pc[q] \in {"begin", "lock", "check", "insert"} \/ ClaimSlot(q)
  BY <1>1, AskedStays
<1>3. ASSUME NEW s, DropKey(s)
      PROVE  /\ Keyed(q)
             /\ req[q].span.start \in slotLocks => req[q].span.start \in slotLocks'
  <2>1. ~ClaimSlot(q)
    <3>1. SUFFICES ASSUME ClaimSlot(q) PROVE FALSE
      OBVIOUS
    <3>2. pc[q] = "claim" /\ slotLocks' = slotLocks \cup {req[q].span.start}
          /\ req[q].span.start \notin slotLocks
      BY <1>1, <3>1 DEF ClaimSlot, Finish, Goto, TypeOK
    <3>3. slotLocks' \subseteq slotLocks
      BY <1>3 DEF DropKey
    <3>. QED
      BY <3>2, <3>3
  <2>2. pc[q] \in {"begin", "lock", "check", "insert"} /\ q \notin unkeyed
    BY <1>1, <1>2, <1>3, <2>1 DEF DropKey
  <2>3. req[q].span.start # s
    BY <1>1, <1>3, <2>2 DEF DropKey, Claimants
  <2>. QED
    BY <1>3, <2>2, <2>3 DEF DropKey, Keyed
<1>4. ASSUME UNCHANGED <<slotLocks, unkeyed>>
      PROVE  /\ Keyed(q)
             /\ req[q].span.start \in slotLocks => req[q].span.start \in slotLocks'
  <2>1. ~ClaimSlot(q)
    BY <1>1, <1>4 DEF ClaimSlot, Finish, Goto, TypeOK
  <2>. QED
    BY <1>1, <1>2, <1>4, <2>1 DEF Keyed
<1>5. ASSUME NEW p \in Requests, ClaimSlot(p), pc[p] = "claim",
             req[p].span.start \notin slotLocks,
             slotLocks' = slotLocks \cup {req[p].span.start},
             unkeyed' = unkeyed \ {p}
      PROVE  \/ /\ Keyed(q)
                /\ req[q].span.start \in slotLocks => req[q].span.start \in slotLocks'
             \/ /\ req[q].span.start \notin slotLocks
                /\ slotLocks' = slotLocks \cup {req[q].span.start}
                /\ \A r \in Requests \ {q} : Keyed(r)' => Keyed(r)
  <2>1. \A r \in Requests \ {p} : pc'[r] = pc[r]
    BY <1>5 DEF ClaimSlot, Finish, Goto, TypeOK
  <2>2. \A r \in Requests \ {p} : Keyed(r)' => Keyed(r)
    BY <1>5, <2>1 DEF Keyed
  <2>3. CASE p = q
    BY <1>5, <2>2, <2>3
  <2>4. CASE p # q
    BY <1>5, <2>2, <2>4
  <2>. QED
    BY <2>3, <2>4
<1>. QED
  BY <1>2, <1>3, <1>4, <1>5, SlotStep

LEMMA KeysStep ==
  ASSUME TypeOK, StepsBelong, KeysHeld, KeysDiffer, [Next]_vars
  PROVE  KeysHeld' /\ KeysDiffer'
<1>1. ASSUME NEW q \in Requests, Keyed(q)' PROVE req'[q].span.start \in slotLocks'
  BY <1>1, KeyedStep DEF KeysHeld
<1>2. ASSUME NEW p \in Requests, NEW q \in Requests, p # q, Keyed(p)', Keyed(q)'
      PROVE  req'[p].span.start # req'[q].span.start
  <2>1. req'[p].span = req[p].span /\ req'[q].span = req[q].span
    BY <1>2, KeyedStep
  <2>2. CASE Keyed(p) /\ Keyed(q)
    BY <1>2, <2>1, <2>2 DEF KeysDiffer
  <2>3. CASE ~Keyed(p)
    <3>1. req[p].span.start \notin slotLocks /\ Keyed(q)
      BY <1>2, <2>3, KeyedStep
    <3>. QED
      BY <2>1, <3>1 DEF KeysHeld
  <2>4. CASE ~Keyed(q)
    <3>1. req[q].span.start \notin slotLocks /\ Keyed(p)
      BY <1>2, <2>4, KeyedStep
    <3>. QED
      BY <2>1, <3>1 DEF KeysHeld
  <2>. QED
    BY <2>2, <2>3, <2>4
<1>. QED
  BY <1>1, <1>2 DEF KeysHeld, KeysDiffer

\* A row keeps its times unless it is displaced, and what is marked stays marked.
LEMMA SpanFrame ==
  ASSUME TypeOK, [Next]_vars, NEW b \in BookingIds, status[b] # "NONE"
  PROVE  /\ b \in displaced => b \in displaced'
         /\ unguarded \subseteq unguarded'
         /\ b \notin displaced' => span'[b] = span[b]
<1>. USE DEF table, locks
<1>1. ASSUME NEW p \in Requests,
             \/ Request(p) \/ ClaimSlot(p) \/ ReleaseSlot(p) \/ BeginTx(p)
             \/ LockProfessional(p) \/ CheckOverlap(p) \/ InsertFails(p)
             \/ CompleteStatus(p) \/ AddStatusEvent(p) \/ Abandon(p)
      PROVE  UNCHANGED <<span, displaced, unguarded>>
  BY <1>1 DEF Request, CreateRequest, RescheduleRequest, ReadBooking, ExpireStalePending,
              ClaimSlot, ReleaseSlot, BeginTx, LockProfessional, CheckOverlap, InsertFails,
              CompleteStatus, AddStatusEvent, Abandon
<1>2. CASE \/ \E s \in Starts : SlotLockExpires(s)
           \/ \E c \in BookingIds : DepositSucceeds(c)
           \/ UNCHANGED vars
  BY <1>2 DEF SlotLockExpires, DepositSucceeds, vars
<1>3. ASSUME NEW p \in Requests, NEW c \in BookingIds, InsertBooking(p, c)
      PROVE  span'[b] = span[b] /\ UNCHANGED displaced /\ unguarded \subseteq unguarded'
  BY <1>3 DEF InsertBooking, TypeOK
<1>4. ASSUME NEW p \in Requests, UpdateStatus(p)
      PROVE  UNCHANGED <<span, unguarded>> /\ displaced \subseteq displaced'
  BY <1>4 DEF UpdateStatus
<1>5. ASSUME NEW p \in Requests, MoveBooking(p)
      PROVE  /\ b \notin displaced' => span'[b] = span[b]
             /\ displaced \subseteq displaced' /\ UNCHANGED unguarded
  BY <1>5 DEF MoveBooking, TypeOK
<1>. QED
  BY <1>1, <1>2, <1>3, <1>4, <1>5 DEF Next, Continue

\* A request comes to miss a booking only when another inserts it while its
\* transaction is open.
LEMMA MissedStep ==
  ASSUME TypeOK, [Next]_vars, NEW q \in Requests, NEW b \in missed'[q]
  PROVE  \/ b \in missed[q] /\ ~BeginTx(q)
         \/ b \in BookingIds /\ \E p \in Requests \ {q} : InsertBooking(p, b) /\ InTransaction(q)
<1>1. CASE UNCHANGED missed /\ ~BeginTx(q)
  BY <1>1
<1>2. ASSUME NEW p \in Requests, BeginTx(p) \/ CheckOverlap(p)
      PROVE  b \in missed[q] /\ ~BeginTx(q)
  <2>1. missed' = missed \/ missed' = [missed EXCEPT ![p] = {}]
    BY <1>2 DEF BeginTx, CheckOverlap, Look
  <2>2. b \in missed[q]
    BY <2>1 DEF TypeOK
  <2>3. ~BeginTx(q)
    <3>1. BeginTx(q) => missed'[q] = {}
      BY DEF BeginTx, Look, TypeOK
    <3>. QED
      BY <3>1
  <2>. QED
    BY <2>2, <2>3
<1>3. ASSUME NEW p \in Requests, NEW c \in BookingIds, InsertBooking(p, c)
      PROVE  \/ b \in missed[q] /\ ~BeginTx(q)
             \/ b = c /\ p # q /\ InTransaction(q)
  <2>1. missed'[q] = IF q = p THEN {} ELSE missed[q] \cup {d \in {c} : InTransaction(q)}
    BY <1>3 DEF InsertBooking
  <2>2. ~BeginTx(q)
    <3>1. BeginTx(q) => status' = status
      BY DEF BeginTx, table
    <3>2. status' # status
      BY <1>3 DEF InsertBooking, TypeOK
    <3>. QED
      BY <3>1, <3>2
  <2>. QED
    BY <2>1, <2>2
<1>4. ASSUME NEW p \in Requests,
             \/ Request(p) \/ ClaimSlot(p) \/ ReleaseSlot(p) \/ LockProfessional(p)
             \/ InsertFails(p) \/ UpdateStatus(p) \/ CompleteStatus(p) \/ MoveBooking(p)
             \/ AddStatusEvent(p) \/ Abandon(p)
      PROVE  missed' = missed
  BY <1>4
     DEF Request, CreateRequest, RescheduleRequest, ReadBooking, ExpireStalePending, ClaimSlot,
         ReleaseSlot, LockProfessional, InsertFails, UpdateStatus, CompleteStatus, MoveBooking,
         AddStatusEvent, Abandon
<1>5. ASSUME \/ \E s \in Starts : SlotLockExpires(s)
             \/ \E c \in BookingIds : DepositSucceeds(c)
             \/ UNCHANGED vars
      PROVE  missed' = missed
  BY <1>5 DEF SlotLockExpires, DepositSucceeds, vars
<1>6. CASE BeginTx(q)
  BY <1>2, <1>6
<1>. QED
  BY <1>1, <1>2, <1>3, <1>4, <1>5, <1>6 DEF Next, Continue

LEMMA MeetingsMadeStep ==
  ASSUME TypeOK, MeetingsMade, [Next]_vars
  PROVE  MeetingsMade'
<1>1. \A b \in BookingIds : status[b] # "NONE" => status'[b] # "NONE"
  BY RowsStay
<1>2. ASSUME NEW p \in Requests, NEW b \in BookingIds, InsertBooking(p, b)
      PROVE  status'[b] # "NONE" /\ crossed' = crossed \cup ({b} \X missed[p])
  BY <1>2 DEF InsertBooking, TypeOK
<1>3. \A q \in Requests : missed[q] \subseteq BookingIds
  BY DEF TypeOK
<1>4. ASSUME NEW q \in Requests, NEW b \in missed'[q] PROVE status'[b] # "NONE"
  BY <1>1, <1>2, <1>3, <1>4, MissedStep DEF MeetingsMade
<1>5. ASSUME NEW b \in BookingIds, NEW c \in BookingIds, <<b, c>> \in crossed'
      PROVE  status'[b] # "NONE" /\ status'[c] # "NONE"
  <2>1. CASE <<b, c>> \in crossed
    BY <1>1, <2>1 DEF MeetingsMade
  <2>2. CASE <<b, c>> \notin crossed
    <3>1. PICK p \in Requests, d \in BookingIds : InsertBooking(p, d)
      BY <1>5, <2>2, CrossedGrows
    <3>2. b = d /\ c \in missed[p]
      BY <1>2, <1>5, <2>2, <3>1
    <3>. QED
      BY <1>1, <1>2, <1>3, <3>1, <3>2 DEF MeetingsMade
  <2>. QED
    BY <2>1, <2>2
<1>. QED
  BY <1>4, <1>5 DEF MeetingsMade

\* An INSERT under its key starts at another time than every keyed Create.
LEMMA InsertApart ==
  ASSUME TypeOK, KeysDiffer, NEW p \in Requests, NEW b \in BookingIds, InsertBooking(p, b),
         b \notin unguarded', NEW q \in Requests, p # q, Keyed(q)
  PROVE  span'[b].start # req[q].span.start
<1>1. Keyed(p) /\ span'[b] = req[p].span
  BY DEF InsertBooking, Keyed, TypeOK
<1>. QED
  BY <1>1 DEF KeysDiffer

LEMMA MissedApartStep ==
  ASSUME KInv, [Next]_vars
  PROVE  MissedApart'
<1>0. TypeOK /\ StepsBelong /\ KeysDiffer /\ MissedApart /\ MeetingsMade
  BY DEF KInv, IInv
<1>. SUFFICES ASSUME NEW q \in Requests, InTransaction(q)', q \notin unkeyed', NEW b \in missed'[q],
                     b \notin displaced', b \notin unguarded'
              PROVE  span'[b].start # req'[q].span.start
  BY DEF MissedApart
<1>1. Keyed(q)' /\ pc'[q] \in {"lock", "check", "insert"}
  BY DEF InTransaction, Keyed
<1>2. req'[q].span = req[q].span
  BY <1>0, <1>1, KeyedStep
<1>3. Keyed(q)
  <2>1. ~ClaimSlot(q)
    BY <1>0, <1>1 DEF ClaimSlot, Finish, Goto, TypeOK
  <2>2. pc[q] \in {"begin", "lock", "check", "insert"}
    BY <1>0, <1>1, <2>1, AskedStays
  <2>3. q \notin unkeyed
    <3>1. ASSUME NEW p \in Requests, ClaimSlot(p), unkeyed' = unkeyed \ {p} PROVE q \notin unkeyed
      BY <2>1, <3>1
    <3>2. ASSUME NEW s, DropKey(s) PROVE q \notin unkeyed
      BY <3>2 DEF DropKey
    <3>. QED
      BY <1>0, <3>1, <3>2, SlotStep
  <2>. QED
    BY <2>2, <2>3 DEF Keyed
<1>4. CASE b \in missed[q] /\ ~BeginTx(q)
  <2>1. InTransaction(q)
    <3>1. CASE Request(q) \/ Continue(q) \/ Abandon(q)
      BY <1>0, <1>1, <1>4, <3>1, TransactionStep DEF InTransaction
    <3>2. CASE ~(Request(q) \/ Continue(q) \/ Abandon(q))
      BY <1>0, <1>1, <3>2, WhoseStep, OthersKeepLocals DEF InTransaction
    <3>. QED
      BY <3>1, <3>2
  <2>2. b \in BookingIds /\ status[b] # "NONE"
    BY <1>0, <1>4 DEF TypeOK, MeetingsMade
  <2>3. b \notin displaced /\ b \notin unguarded /\ span'[b] = span[b]
    BY <1>0, <2>2, SpanFrame
  <2>. QED
    BY <1>0, <1>2, <1>3, <1>4, <2>1, <2>3 DEF MissedApart, Keyed
<1>5. ASSUME b \in BookingIds, NEW p \in Requests \ {q}, InsertBooking(p, b)
      PROVE  span'[b].start # req'[q].span.start
  BY <1>0, <1>2, <1>3, <1>5, InsertApart
<1>6. \/ b \in missed[q] /\ ~BeginTx(q)
      \/ b \in BookingIds /\ \E p \in Requests \ {q} : InsertBooking(p, b)
  BY <1>0, MissedStep
<1>. QED
  BY <1>4, <1>5, <1>6

LEMMA KeysKeepStartsApartStep ==
  ASSUME KInv, [Next]_vars
  PROVE  KeysKeepStartsApart'
<1>. USE DEF KInv, IInv
<1>. SUFFICES ASSUME NEW b \in BookingIds, NEW c \in BookingIds,
                     b \notin displaced', c \notin displaced',
                     b \notin unguarded', c \notin unguarded', <<b, c>> \in crossed'
              PROVE  span'[b].start # span'[c].start
  BY DEF KeysKeepStartsApart
<1>1. ASSUME NEW d \in BookingIds, status[d] # "NONE", d \notin displaced', d \notin unguarded'
      PROVE  d \notin displaced /\ d \notin unguarded /\ span'[d] = span[d]
  BY <1>1, SpanFrame
<1>2. CASE <<b, c>> \in crossed
  <2>1. status[b] # "NONE" /\ status[c] # "NONE"
    BY <1>2 DEF MeetingsMade
  <2>. QED
    BY <1>1, <1>2, <2>1 DEF KeysKeepStartsApart
<1>3. CASE <<b, c>> \notin crossed
  <2>1. PICK p \in Requests, d \in BookingIds : InsertBooking(p, d)
    BY <1>3, CrossedGrows
  <2>2. b = d /\ c \in missed[p]
    BY <1>3, <2>1 DEF InsertBooking
  <2>3. status[c] # "NONE"
    BY <2>2 DEF MeetingsMade
  <2>4. InTransaction(p) /\ p \notin unkeyed /\ span'[b] = req[p].span
    BY <2>1, <2>2 DEF InsertBooking, InTransaction, TypeOK
  <2>5. span[c].start # req[p].span.start
    BY <1>1, <2>2, <2>3, <2>4 DEF MissedApart
  <2>. QED
    BY <1>1, <2>3, <2>4, <2>5
<1>. QED
  BY <1>2, <1>3

\* Two Creates of which one did not see the booking of the other start at different
\* times, unless one of them had lost its slot key: SET NX does what the lock on the
\* professionals row does not (service.go:85-86), for any number of requests.
THEOREM KeysApart == Spec => []KeysKeepStartsApart
<1>1. Init => KInv
  <2>. SUFFICES ASSUME Init PROVE KInv
    OBVIOUS
  <2>1. KeysHeld /\ KeysDiffer /\ MissedApart /\ MeetingsMade /\ KeysKeepStartsApart
    BY DEF Init, Keyed, InTransaction, KeysHeld, KeysDiffer, MissedApart, MeetingsMade,
           KeysKeepStartsApart
  <2>. QED
    BY <2>1, InitIInv DEF KInv
<1>2. KInv /\ [Next]_vars => KInv'
  BY StepIInv, KeysStep, MissedApartStep, MeetingsMadeStep, KeysKeepStartsApartStep DEF KInv, IInv
<1>. QED
  BY <1>1, <1>2, PTL DEF Spec, KInv
=============================================================================
