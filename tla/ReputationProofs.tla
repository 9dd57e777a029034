-------------------------- MODULE ReputationProofs --------------------------
(***************************************************************************)
(* Proofs about what a professional is known by: Reputation, for any       *)
(* number of requests, bookings, documents and disputes, and after it      *)
(* Storefront, for any number of requests, rows and images.                *)
(*                                                                         *)
(* A step belongs to one request, or moves a booking.  Moves says what the *)
(* step of a request does to its own progress and leaves to the others';   *)
(* Reviewed, Judged and Accepted tie the rows to the progress of whoever   *)
(* wrote them, and each is kept by the steps that do not touch its rows    *)
(* (a quiet lemma) and by its own steps, one by one.                       *)
(*                                                                         *)
(* Of Storefront, Shape says what a step of any request may do; the        *)
(* invariants follow from Shape alone, and then every action is shown to   *)
(* have it.                                                                *)
(***************************************************************************)
EXTENDS Reputation, Storefront, TLAPS

(***************************************************************************)
(* Types and progress.                                                     *)
(***************************************************************************)

\* What a request under way holds.
Works(r) ==
  /\ op[r] = "review" => /\ pc[r] \in {"write", "read", "store"}
                         /\ work[r].on \in Bookings /\ work[r].seen \subseteq Bookings
  /\ op[r] \in {"respond", "raise"} => pc[r] = "write" /\ work[r].on \in Bookings
  /\ op[r] = "judge" =>
       /\ pc[r] \in {"write", "read", "store", "log"} /\ work[r].on \in Documents
       /\ work[r].verdict \in {"PENDING", "APPROVED", "REJECTED"}
  /\ op[r] = "post" => pc[r] = "write" /\ work[r].on \in Disputes
  /\ op[r] = "resolve" => pc[r] = "log" /\ work[r].on \in Disputes
  /\ op[r] # "submit"

Local(r) ==
  /\ before[r] \subseteq ended
  /\ r \in ended => pc[r] = "done"
  /\ pc[r] = "idle" <=> op[r] = "none"
  /\ pc[r] \notin {"idle", "done"} => Works(r)

ReviewTypes ==
  /\ status \in [Bookings -> {"open", "completed", "cancelled"}]
  /\ review \in [Bookings -> Requests \cup {None}]
  /\ response \in [Bookings -> Requests \cup {None}]
  /\ rated \subseteq Bookings /\ rater \in Requests \cup {None}
VerificationTypes ==
  /\ document \in [Documents -> Verdicts]
  /\ judge \in [Documents -> Requests \cup {None}]
  /\ verification \in {"UNVERIFIED", "PENDING", "VERIFIED", "REJECTED"}
  /\ audited \subseteq Requests /\ verifier \in Requests \cup {None}
DisputeTypes ==
  /\ dispute \in [Disputes -> Bookings \cup {None}]
  /\ resolution \in [Disputes -> Requests \cup {None}]
  /\ posted \subseteq Disputes \X Requests
ProgressTypes ==
  /\ pc \in [Requests -> Steps] /\ op \in [Requests -> Operations]
  /\ work \in [Requests -> Locals]
  /\ ended \subseteq Requests /\ before \in [Requests -> SUBSET Requests]

Typed ==
  /\ ReviewTypes /\ VerificationTypes /\ DisputeTypes /\ ProgressTypes
  /\ \A r \in Requests : Local(r)

LEMMA TypedIsTypeOK == ASSUME Typed PROVE TypeOK
  BY DEF Typed, TypeOK, ReviewTypes, VerificationTypes, DisputeTypes, ProgressTypes

\* What a step of a request does to the progress of all.
Moves(r) ==
  /\ \A q \in Requests \ {r} :
       pc'[q] = pc[q] /\ op'[q] = op[q] /\ work'[q] = work[q] /\ before'[q] = before[q]
  /\ pc[r] # "done"
  /\ ended' \in {ended, ended \cup {r}}
  /\ pc[r] = "idle" \/ (op'[r] = op[r] /\ before'[r] = before[r])
  /\ ProgressTypes' /\ Local(r)'

LEMMA OthersKeep ==
  ASSUME Typed, NEW r \in Requests, Moves(r)
  PROVE  \A q \in Requests : Local(q)'
  <1> SUFFICES ASSUME NEW q \in Requests \ {r} PROVE Local(q)'
    BY DEF Moves
  <1>1. pc'[q] = pc[q] /\ op'[q] = op[q] /\ work'[q] = work[q] /\ before'[q] = before[q]
    BY DEF Moves
  <1>2. ended' \in {ended, ended \cup {r}}
    BY DEF Moves
  <1>3. Local(q)
    BY DEF Typed
  <1> QED
    BY <1>1, <1>2, <1>3 DEF Local, Works

LEMMA NothingIsLocal == NoWork \in Locals
  BY DEF NoWork, Locals, Verdicts

\* A request that begins.
LEMMA BeginMoves ==
  ASSUME Typed, NEW r \in Requests, NEW kind \in Operations \ {"none"},
         NEW step \in Steps \ {"idle", "done"}, NEW w \in Locals, Begin(r, kind, step, w),
         Works(r)'
  PROVE  /\ Moves(r) /\ pc'[r] = step /\ op'[r] = kind /\ work'[r] = w /\ ended' = ended
         /\ UNCHANGED <<status, reviewing, verifying, disputing>>
  <1>1. ProgressTypes /\ Local(r)
    BY DEF Typed
  <1>2. pc' = [pc EXCEPT ![r] = step] /\ op' = [op EXCEPT ![r] = kind]
        /\ work' = [work EXCEPT ![r] = w] /\ before' = [before EXCEPT ![r] = ended]
        /\ ended' = ended /\ pc[r] = "idle"
    BY DEF Begin, Goto
  <1>3. ProgressTypes'
    BY <1>1, <1>2 DEF ProgressTypes
  <1>4. pc'[r] = step /\ op'[r] = kind /\ work'[r] = w /\ before'[r] = ended
    BY <1>1, <1>2 DEF ProgressTypes
  <1>5. Local(r)'
    BY <1>1, <1>2, <1>4 DEF Local
  <1> QED
    BY <1>1, <1>2, <1>3, <1>4, <1>5 DEF Moves, ProgressTypes, Begin

\* A request that is answered, and one that fails.
LEMMA EndMoves ==
  ASSUME Typed, NEW r \in Requests, Succeed(r) \/ Fail(r), pc[r] \notin {"idle", "done"}
  PROVE  Moves(r) /\ pc'[r] = "done" /\ op'[r] = op[r] /\ (Fail(r) => ended' = ended)
  <1>1. ProgressTypes /\ Local(r)
    BY DEF Typed
  <1>2. pc' = [pc EXCEPT ![r] = "done"] /\ work' = [work EXCEPT ![r] = NoWork]
        /\ op' = op /\ before' = before /\ ended' \in {ended, ended \cup {r}}
    BY DEF Succeed, Fail, Goto, Forget
  <1>3. ProgressTypes'
    BY <1>1, <1>2, NothingIsLocal DEF ProgressTypes, Steps
  <1>4. Local(r)'
    BY <1>1, <1>2 DEF Local, ProgressTypes
  <1> QED
    BY <1>1, <1>2, <1>3, <1>4 DEF Moves, ProgressTypes, Fail

\* A request that goes on.
LEMMA StepMoves ==
  ASSUME Typed, NEW r \in Requests, NEW step \in Steps \ {"idle", "done"}, NEW w \in Locals,
         Goto(r, step), UNCHANGED <<op, ended, before>>,
         work' = [work EXCEPT ![r] = w], pc[r] \notin {"idle", "done"}, Works(r)'
  PROVE  Moves(r) /\ pc'[r] = step /\ work'[r] = w /\ op'[r] = op[r] /\ ended' = ended
  <1>1. ProgressTypes /\ Local(r)
    BY DEF Typed
  <1>2. ProgressTypes'
    BY <1>1 DEF ProgressTypes, Goto
  <1>3. pc'[r] = step /\ work'[r] = w
    BY <1>1 DEF ProgressTypes, Goto
  <1>4. Local(r)'
    BY <1>1, <1>3 DEF Local
  <1> QED
    BY <1>1, <1>2, <1>3, <1>4 DEF Moves, ProgressTypes, Goto

LEMMA ProceedMoves ==
  ASSUME Typed, NEW r \in Requests, NEW step \in Steps \ {"idle", "done"},
         Proceed(r, step), pc[r] \notin {"idle", "done"}, Works(r)'
  PROVE  Moves(r) /\ pc'[r] = step /\ work'[r] = work[r] /\ op'[r] = op[r] /\ ended' = ended
  <1>1. work[r] \in Locals /\ work' = [work EXCEPT ![r] = work[r]]
    BY DEF Proceed, Typed, ProgressTypes
  <1>2. Goto(r, step) /\ UNCHANGED <<op, ended, before>>
    BY DEF Proceed
  <1> QED
    BY <1>1, <1>2, StepMoves

(***************************************************************************)
(* The step of a request moves that request, and keeps the types.          *)
(***************************************************************************)
LEMMA CreateReviewMoves ==
  ASSUME Typed, NEW r \in Requests, NEW b \in Bookings, CreateReview(r, b)
  PROVE  /\ Moves(r) /\ op'[r] = "review" /\ pc'[r] = "write" /\ ended' = ended /\ pc[r] = "idle"
         /\ UNCHANGED <<status, reviewing, verifying, disputing>>
  <1> DEFINE w == [NoWork EXCEPT !.on = b]
  <1>1. w \in Locals /\ Begin(r, "review", "write", w)
    BY DEF CreateReview, NoWork, Locals, Things, Verdicts
  <1>2. op'[r] = "review" /\ pc'[r] = "write" /\ work'[r] = w
    BY <1>1 DEF Begin, Goto, Typed, ProgressTypes
  <1>3. Works(r)'
    BY <1>2 DEF Works, NoWork
  <1>4. pc[r] = "idle"
    BY <1>1 DEF Begin
  <1> HIDE DEF w
  <1>5. "review" \in Operations \ {"none"} /\ "write" \in Steps \ {"idle", "done"}
    BY DEF Operations, Steps
  <1> QED
    BY <1>1, <1>2, <1>3, <1>4, <1>5, BeginMoves

LEMMA RespondMoves ==
  ASSUME Typed, NEW r \in Requests, NEW b \in Bookings, Respond(r, b)
  PROVE  /\ Moves(r) /\ op'[r] = "respond" /\ pc'[r] = "write" /\ ended' = ended /\ pc[r] = "idle"
         /\ UNCHANGED <<status, reviewing, verifying, disputing>>
  <1> DEFINE w == [NoWork EXCEPT !.on = b]
  <1>1. w \in Locals /\ Begin(r, "respond", "write", w)
    BY DEF Respond, NoWork, Locals, Things, Verdicts
  <1>2. op'[r] = "respond" /\ pc'[r] = "write" /\ work'[r] = w
    BY <1>1 DEF Begin, Goto, Typed, ProgressTypes
  <1>3. Works(r)'
    BY <1>2 DEF Works, NoWork
  <1>4. pc[r] = "idle"
    BY <1>1 DEF Begin
  <1> HIDE DEF w
  <1>5. "respond" \in Operations \ {"none"} /\ "write" \in Steps \ {"idle", "done"}
    BY DEF Operations, Steps
  <1> QED
    BY <1>1, <1>2, <1>3, <1>4, <1>5, BeginMoves

LEMMA RaiseMoves ==
  ASSUME Typed, NEW r \in Requests, NEW b \in Bookings, Raise(r, b)
  PROVE  /\ Moves(r) /\ op'[r] = "raise" /\ pc'[r] = "write" /\ ended' = ended /\ pc[r] = "idle"
         /\ UNCHANGED <<status, reviewing, verifying, disputing>>
  <1> DEFINE w == [NoWork EXCEPT !.on = b]
  <1>1. w \in Locals /\ Begin(r, "raise", "write", w)
    BY DEF Raise, NoWork, Locals, Things, Verdicts
  <1>2. op'[r] = "raise" /\ pc'[r] = "write" /\ work'[r] = w
    BY <1>1 DEF Begin, Goto, Typed, ProgressTypes
  <1>3. Works(r)'
    BY <1>2 DEF Works, NoWork
  <1>4. pc[r] = "idle"
    BY <1>1 DEF Begin
  <1> HIDE DEF w
  <1>5. "raise" \in Operations \ {"none"} /\ "write" \in Steps \ {"idle", "done"}
    BY DEF Operations, Steps
  <1> QED
    BY <1>1, <1>2, <1>3, <1>4, <1>5, BeginMoves

LEMMA JudgeDocumentMoves ==
  ASSUME Typed, NEW r \in Requests, NEW d \in Documents, NEW v \in {"APPROVED", "REJECTED"}, JudgeDocument(r, d, v)
  PROVE  /\ Moves(r) /\ op'[r] = "judge" /\ pc'[r] = "write" /\ ended' = ended /\ pc[r] = "idle"
         /\ UNCHANGED <<status, reviewing, verifying, disputing>>
  <1> DEFINE w == [NoWork EXCEPT !.on = d, !.verdict = v]
  <1>1. w \in Locals /\ Begin(r, "judge", "write", w)
    BY DEF JudgeDocument, NoWork, Locals, Things, Verdicts
  <1>2. op'[r] = "judge" /\ pc'[r] = "write" /\ work'[r] = w
    BY <1>1 DEF Begin, Goto, Typed, ProgressTypes
  <1>3. Works(r)'
    BY <1>2 DEF Works, NoWork
  <1>4. pc[r] = "idle"
    BY <1>1 DEF Begin
  <1> HIDE DEF w
  <1>5. "judge" \in Operations \ {"none"} /\ "write" \in Steps \ {"idle", "done"}
    BY DEF Operations, Steps
  <1> QED
    BY <1>1, <1>2, <1>3, <1>4, <1>5, BeginMoves

LEMMA AddMessageMoves ==
  ASSUME Typed, NEW r \in Requests, NEW d \in Disputes, AddMessage(r, d)
  PROVE  /\ Moves(r) /\ op'[r] = "post" /\ pc'[r] = "write" /\ ended' = ended /\ pc[r] = "idle"
         /\ UNCHANGED <<status, reviewing, verifying, disputing>>
  <1> DEFINE w == [NoWork EXCEPT !.on = d]
  <1>1. w \in Locals /\ Begin(r, "post", "write", w)
    BY DEF AddMessage, NoWork, Locals, Things, Verdicts
  <1>2. op'[r] = "post" /\ pc'[r] = "write" /\ work'[r] = w
    BY <1>1 DEF Begin, Goto, Typed, ProgressTypes
  <1>3. Works(r)'
    BY <1>2 DEF Works, NoWork
  <1>4. pc[r] = "idle"
    BY <1>1 DEF Begin
  <1> HIDE DEF w
  <1>5. "post" \in Operations \ {"none"} /\ "write" \in Steps \ {"idle", "done"}
    BY DEF Operations, Steps
  <1> QED
    BY <1>1, <1>2, <1>3, <1>4, <1>5, BeginMoves

LEMMA SubmitMoves ==
  ASSUME Typed, NEW r \in Requests, NEW d \in Documents, Submit(r, d)
  PROVE  /\ Moves(r) /\ op'[r] = "submit" /\ pc'[r] = "done" /\ pc[r] = "idle" /\ VerificationTypes'
         /\ UNCHANGED <<status, reviewing, judge, verification, audited, verifier, disputing>>
  <1>1. ProgressTypes /\ Local(r) /\ VerificationTypes
    BY DEF Typed
  <1>2. ProgressTypes' /\ VerificationTypes'
    BY <1>1 DEF Submit, Goto, ProgressTypes, VerificationTypes, Steps, Operations, Verdicts
  <1>3. op'[r] = "submit" /\ pc'[r] = "done" /\ before'[r] = ended /\ ended' = ended \cup {r}
    BY <1>1 DEF Submit, Goto, ProgressTypes
  <1>4. Local(r)'
    BY <1>3 DEF Local
  <1> QED
    BY <1>1, <1>2, <1>3, <1>4 DEF Submit, Goto, Moves, ProgressTypes

LEMMA ResolveMoves ==
  ASSUME Typed, NEW r \in Requests, NEW d \in Disputes, Resolve(r, d)
  PROVE  /\ Moves(r) /\ op'[r] = "resolve" /\ pc[r] = "idle" /\ ended' = ended /\ DisputeTypes'
         /\ pc'[r] = "log" => resolution'[d] = r /\ work'[r].on = d
         /\ \A q \in Disputes : resolution[q] # None => resolution'[q] = resolution[q]
         /\ UNCHANGED <<status, reviewing, verifying, dispute, posted>>
  <1>1. ProgressTypes /\ Local(r) /\ DisputeTypes
    BY DEF Typed
  <1>2. pc[r] = "idle" /\ ended' = ended /\ op'[r] = "resolve" /\ before'[r] = ended
    BY <1>1 DEF Resolve, ProgressTypes
  <1>3. CASE resolution[d] = None
    <2>1. resolution' = [resolution EXCEPT ![d] = r] /\ work' = [work EXCEPT ![r].on = d]
          /\ pc' = [pc EXCEPT ![r] = "log"]
          /\ op' = [op EXCEPT ![r] = "resolve"] /\ before' = [before EXCEPT ![r] = ended]
      BY <1>3 DEF Resolve, Goto
    <2>2. work[r] \in Locals
      BY <1>1 DEF ProgressTypes
    <2>3. work'[r] \in Locals /\ work'[r].on = d /\ work' \in [Requests -> Locals]
      BY <1>1, <2>1, <2>2 DEF ProgressTypes, Locals, Things
    <2>4. ProgressTypes' /\ DisputeTypes' /\ pc'[r] = "log" /\ resolution'[d] = r
      BY <1>1, <1>2, <2>1, <2>3 DEF ProgressTypes, DisputeTypes, Steps, Operations, Resolve
    <2>5. Local(r)'
      BY <1>1, <1>2, <2>3, <2>4 DEF Local, Works
    <2> QED
      BY <1>1, <1>2, <1>3, <2>1, <2>3, <2>4, <2>5 DEF Resolve, Moves, ProgressTypes, DisputeTypes
  <1>4. CASE resolution[d] # None
    <2>1. UNCHANGED <<resolution, work>> /\ pc' = [pc EXCEPT ![r] = "done"]
          /\ op' = [op EXCEPT ![r] = "resolve"] /\ before' = [before EXCEPT ![r] = ended]
      BY <1>4 DEF Resolve, Goto
    <2>2. ProgressTypes' /\ DisputeTypes' /\ pc'[r] = "done"
      BY <1>1, <1>2, <2>1 DEF ProgressTypes, DisputeTypes, Steps, Operations, Resolve
    <2>3. Local(r)'
      BY <1>2, <2>2 DEF Local
    <2> QED
      BY <1>1, <1>2, <2>1, <2>2, <2>3 DEF Resolve, Moves, ProgressTypes
  <1> QED
    BY <1>3, <1>4

\* Where a request under way stands.
LEMMA Standing ==
  ASSUME Typed, NEW r \in Requests, pc[r] \notin {"idle", "done"}
  PROVE  Works(r) /\ r \notin ended /\ work[r] \in Locals /\ before[r] \subseteq ended
  BY DEF Typed, Local, ProgressTypes

LEMMA InsertReviewMoves ==
  ASSUME Typed, NEW r \in Requests, InsertReview(r)
  PROVE  /\ Moves(r) /\ ReviewTypes' /\ ended' = ended /\ op[r] = "review" /\ op'[r] = "review"
         /\ UNCHANGED <<status, response, rated, rater, verifying, disputing>>
         /\ \/ /\ pc'[r] = "read" /\ work'[r] = work[r] /\ review[work[r].on] = None
               /\ review' = [review EXCEPT ![work[r].on] = r]
            \/ pc'[r] = "done" /\ review' = review
  <1>1. pc[r] = "write" /\ op[r] = "review" /\ ProgressTypes /\ ReviewTypes
    BY DEF InsertReview, At, Typed
  <1>2. Works(r) /\ work[r].on \in Bookings
    BY <1>1, Standing DEF Works
  <1>3. CASE review[work[r].on] = None
    <2>1. review' = [review EXCEPT ![work[r].on] = r] /\ Proceed(r, "read")
          /\ UNCHANGED <<status, response, rated, rater, verifying, disputing>>
      BY <1>3 DEF InsertReview
    <2>2. pc'[r] = "read" /\ op'[r] = op[r] /\ work'[r] = work[r]
      BY <1>1, <2>1 DEF Proceed, Goto, ProgressTypes
    <2>3. Works(r)'
      BY <1>1, <1>2, <2>2 DEF Works
    <2>4. "read" \in Steps \ {"idle", "done"}
      BY DEF Steps
    <2>5. Moves(r) /\ ended' = ended
      BY <1>1, <2>1, <2>3, <2>4, ProceedMoves
    <2>6. ReviewTypes'
      BY <1>1, <1>2, <2>1 DEF ReviewTypes
    <2> QED
      BY <1>1, <1>3, <2>1, <2>2, <2>5, <2>6
  <1>4. CASE review[work[r].on] # None
    <2>1. UNCHANGED <<review, status, response, rated, rater, verifying, disputing>> /\ Fail(r)
      BY <1>4 DEF InsertReview
    <2>2. Moves(r) /\ pc'[r] = "done" /\ ended' = ended /\ op'[r] = "review"
      BY <1>1, <2>1, EndMoves
    <2> QED
      BY <1>1, <2>1, <2>2 DEF ReviewTypes
  <1> QED
    BY <1>3, <1>4

LEMMA ReadReviewsMoves ==
  ASSUME Typed, NEW r \in Requests, ReadReviews(r)
  PROVE  /\ Moves(r) /\ ended' = ended /\ op[r] = "review" /\ op'[r] = "review"
         /\ pc[r] = "read" /\ pc'[r] = "store"
         /\ UNCHANGED <<status, reviewing, verifying, disputing>>
         /\ work'[r].on = work[r].on /\ work'[r].seen = {b \in Bookings : review[b] # None}
  <1> DEFINE seen == {b \in Bookings : review[b] # None}
             w == [work[r] EXCEPT !.seen = seen]
  <1>1. pc[r] = "read" /\ op[r] = "review" /\ ProgressTypes
    BY DEF ReadReviews, At, Typed
  <1>2. Works(r) /\ work[r] \in Locals
    BY <1>1, Standing
  <1>3. seen \subseteq Bookings /\ seen \in SUBSET Things
    BY DEF Things
  <1>4. w \in Locals /\ w.on = work[r].on /\ w.seen = seen
    BY <1>2, <1>3 DEF Locals
  <1>5. Goto(r, "store") /\ UNCHANGED <<op, ended, before>> /\ work' = [work EXCEPT ![r].seen = seen]
        /\ UNCHANGED <<status, reviewing, verifying, disputing>>
    BY DEF ReadReviews
  <1>6. work' = [work EXCEPT ![r] = w]
    BY <1>1, <1>5 DEF ProgressTypes
  <1>7. pc'[r] = "store" /\ op'[r] = "review" /\ work'[r] = w
    BY <1>1, <1>5, <1>6 DEF Goto, ProgressTypes
  <1>8. Works(r)'
    BY <1>2, <1>3, <1>4, <1>7, <1>1 DEF Works
  <1>9. "store" \in Steps \ {"idle", "done"}
    BY DEF Steps
  <1> HIDE DEF w, seen
  <1>10. Moves(r) /\ ended' = ended
    BY <1>1, <1>4, <1>5, <1>6, <1>8, <1>9, StepMoves
  <1> QED
    BY <1>1, <1>4, <1>5, <1>7, <1>10 DEF seen

LEMMA StoreRatingMoves ==
  ASSUME Typed, NEW r \in Requests, StoreRating(r)
  PROVE  /\ Moves(r) /\ ReviewTypes' /\ op[r] = "review" /\ pc[r] = "store" /\ pc'[r] = "done"
         /\ op'[r] = "review" /\ rated' = work[r].seen /\ rater' = r /\ ended' = ended \cup {r}
         /\ UNCHANGED <<status, review, response, verifying, disputing>>
  <1>1. pc[r] = "store" /\ op[r] = "review" /\ ReviewTypes
    BY DEF StoreRating, At, Typed
  <1>2. Works(r)
    BY <1>1, Standing
  <1>3. Succeed(r)
    BY DEF StoreRating
  <1>4. Moves(r) /\ pc'[r] = "done" /\ op'[r] = op[r]
    BY <1>1, <1>3, EndMoves
  <1> QED
    BY <1>1, <1>2, <1>3, <1>4 DEF StoreRating, ReviewTypes, Works, Succeed

LEMMA WriteResponseMoves ==
  ASSUME Typed, NEW r \in Requests, WriteResponse(r)
  PROVE  /\ Moves(r) /\ ReviewTypes' /\ op[r] = "respond" /\ op'[r] = "respond" /\ pc[r] = "write"
         /\ pc'[r] = "done" /\ work[r].on \in Bookings
         /\ UNCHANGED <<status, review, rated, rater, verifying, disputing>>
         /\ \/ response[work[r].on] = None /\ response' = [response EXCEPT ![work[r].on] = r]
            \/ response' = response /\ ended' = ended
  <1>1. pc[r] = "write" /\ op[r] = "respond" /\ ReviewTypes
    BY DEF WriteResponse, At, Typed
  <1>2. Works(r)
    BY <1>1, Standing
  <1>3. Succeed(r) \/ Fail(r)
    BY DEF WriteResponse
  <1>4. Moves(r) /\ pc'[r] = "done" /\ op'[r] = op[r]
    BY <1>1, <1>3, EndMoves
  <1> QED
    BY <1>1, <1>2, <1>4 DEF WriteResponse, ReviewTypes, Works, Fail

LEMMA SetDocumentStatusMoves ==
  ASSUME Typed, NEW r \in Requests, SetDocumentStatus(r)
  PROVE  /\ Moves(r) /\ VerificationTypes' /\ ended' = ended /\ op'[r] = "judge" /\ pc'[r] = "read"
         /\ UNCHANGED <<status, reviewing, verification, audited, verifier, disputing>>
         /\ work[r].on \in Documents /\ judge' = [judge EXCEPT ![work[r].on] = r]
         /\ document' = [document EXCEPT ![work[r].on] = work[r].verdict]
  <1>1. pc[r] = "write" /\ op[r] = "judge" /\ ProgressTypes /\ VerificationTypes
    BY DEF SetDocumentStatus, At, Typed
  <1>2. Works(r)
    BY <1>1, Standing
  <1>3. Proceed(r, "read")
    BY DEF SetDocumentStatus
  <1>4. pc'[r] = "read" /\ op'[r] = op[r] /\ work'[r] = work[r]
    BY <1>1, <1>3 DEF Proceed, Goto, ProgressTypes
  <1>5. Works(r)'
    BY <1>1, <1>2, <1>4 DEF Works
  <1>6. "read" \in Steps \ {"idle", "done"}
    BY DEF Steps
  <1>7. Moves(r) /\ ended' = ended
    BY <1>1, <1>3, <1>5, <1>6, ProceedMoves
  <1>8. work[r].on \in Documents /\ work[r].verdict \in Verdicts
    BY <1>1, <1>2 DEF Works, Verdicts
  <1>9. VerificationTypes'
    BY <1>1, <1>8 DEF SetDocumentStatus, VerificationTypes
  <1> QED
    BY <1>1, <1>4, <1>7, <1>8, <1>9 DEF SetDocumentStatus

LEMMA ReadDocumentsMoves ==
  ASSUME Typed, NEW r \in Requests, ReadDocuments(r)
  PROVE  /\ Moves(r) /\ ended' = ended /\ op[r] = "judge" /\ op'[r] = "judge" /\ pc'[r] = "store"
         /\ UNCHANGED <<status, reviewing, verifying, disputing>>
         /\ work'[r].verdict = "APPROVED" => \A d \in Documents : document[d] # "REJECTED"
  <1> DEFINE docs == {d \in Documents : document[d] # "none"}
             verdict == Derive(docs)
             w == [work[r] EXCEPT !.verdict = verdict]
  <1>1. pc[r] = "read" /\ op[r] = "judge" /\ ProgressTypes
    BY DEF ReadDocuments, At, Typed
  <1>2. Works(r) /\ work[r] \in Locals
    BY <1>1, Standing
  <1>3. verdict \in {"PENDING", "APPROVED", "REJECTED"}
    BY DEF Derive
  <1>4. verdict = "APPROVED" => \A d \in Documents : document[d] # "REJECTED"
    BY DEF Derive
  <1>5. Goto(r, "store") /\ UNCHANGED <<op, ended, before>>
        /\ work' = [work EXCEPT ![r].verdict = verdict]
        /\ UNCHANGED <<status, reviewing, verifying, disputing>>
    BY DEF ReadDocuments
  <1> HIDE DEF verdict, docs
  <1>6. w \in Locals /\ w.on = work[r].on /\ w.verdict = verdict
    BY <1>2, <1>3 DEF Locals, Verdicts
  <1>7. work' = [work EXCEPT ![r] = w]
    BY <1>1, <1>5 DEF ProgressTypes
  <1>8. pc'[r] = "store" /\ op'[r] = "judge" /\ work'[r] = w
    BY <1>1, <1>5, <1>7 DEF Goto, ProgressTypes
  <1>9. Works(r)'
    BY <1>1, <1>2, <1>3, <1>6, <1>8 DEF Works
  <1>10. "store" \in Steps \ {"idle", "done"}
    BY DEF Steps
  <1> HIDE DEF w
  <1>11. Moves(r) /\ ended' = ended
    BY <1>1, <1>5, <1>6, <1>7, <1>9, <1>10, StepMoves
  <1> QED
    BY <1>1, <1>4, <1>5, <1>6, <1>8, <1>11

LEMMA SetVerificationStatusMoves ==
  ASSUME Typed, NEW r \in Requests, SetVerificationStatus(r)
  PROVE  /\ Moves(r) /\ VerificationTypes' /\ ended' = ended /\ op[r] = "judge" /\ op'[r] = "judge"
         /\ pc[r] = "store" /\ pc'[r] = "log"
         /\ UNCHANGED <<status, reviewing, document, judge, audited, disputing>>
         /\ verifier' = r /\ (verification' = "VERIFIED" => work[r].verdict = "APPROVED")
  <1>1. pc[r] = "store" /\ op[r] = "judge" /\ ProgressTypes /\ VerificationTypes
    BY DEF SetVerificationStatus, At, Typed
  <1>2. Works(r)
    BY <1>1, Standing
  <1>3. Proceed(r, "log")
    BY DEF SetVerificationStatus
  <1>4. pc'[r] = "log" /\ op'[r] = op[r] /\ work'[r] = work[r]
    BY <1>1, <1>3 DEF Proceed, Goto, ProgressTypes
  <1>5. Works(r)'
    BY <1>1, <1>2, <1>4 DEF Works
  <1>6. "log" \in Steps \ {"idle", "done"}
    BY DEF Steps
  <1>7. Moves(r) /\ ended' = ended
    BY <1>1, <1>3, <1>5, <1>6, ProceedMoves
  <1>8. work[r].verdict \in {"PENDING", "APPROVED", "REJECTED"}
    BY <1>1, <1>2 DEF Works
  <1>9. VerificationTypes' /\ (verification' = "VERIFIED" => work[r].verdict = "APPROVED")
    BY <1>1, <1>8 DEF SetVerificationStatus, VerificationTypes
  <1> QED
    BY <1>1, <1>4, <1>7, <1>9 DEF SetVerificationStatus

LEMMA LogReviewMoves ==
  ASSUME Typed, NEW r \in Requests, LogReview(r)
  PROVE  /\ Moves(r) /\ VerificationTypes' /\ op[r] = "judge" /\ op'[r] = "judge" /\ pc[r] = "log"
         /\ pc'[r] = "done" /\ audited' = audited \cup {r}
         /\ UNCHANGED <<status, reviewing, document, judge, verification, verifier, disputing>>
  <1>1. pc[r] = "log" /\ op[r] = "judge" /\ VerificationTypes
    BY DEF LogReview, At, Typed
  <1>2. Moves(r) /\ pc'[r] = "done" /\ op'[r] = op[r]
    BY <1>1, EndMoves DEF LogReview
  <1> QED
    BY <1>1, <1>2 DEF LogReview, VerificationTypes

LEMMA InsertDisputeMoves ==
  ASSUME Typed, NEW r \in Requests, InsertDispute(r)
  PROVE  /\ Moves(r) /\ DisputeTypes' /\ op[r] = "raise" /\ op'[r] = "raise" /\ pc'[r] = "done"
         /\ UNCHANGED <<status, reviewing, verifying, resolution, posted>>
         /\ \A d \in Disputes : dispute[d] # None => dispute'[d] = dispute[d]
  <1>1. pc[r] = "write" /\ op[r] = "raise" /\ DisputeTypes
    BY DEF InsertDispute, At, Typed
  <1>2. Works(r)
    BY <1>1, Standing
  <1>3. Moves(r) /\ pc'[r] = "done" /\ op'[r] = op[r]
    BY <1>1, EndMoves DEF InsertDispute
  <1>4. work[r].on \in Bookings
    BY <1>1, <1>2 DEF Works
  <1> QED
    BY <1>1, <1>3, <1>4 DEF InsertDispute, DisputeTypes

LEMMA InsertMessageMoves ==
  ASSUME Typed, NEW r \in Requests, InsertMessage(r)
  PROVE  /\ Moves(r) /\ DisputeTypes' /\ op[r] = "post" /\ op'[r] = "post" /\ pc[r] = "write"
         /\ pc'[r] = "done" /\ work[r].on \in Disputes /\ posted' = posted \cup {<<work[r].on, r>>}
         /\ UNCHANGED <<status, reviewing, verifying, dispute, resolution>>
  <1>1. pc[r] = "write" /\ op[r] = "post" /\ DisputeTypes
    BY DEF InsertMessage, At, Typed
  <1>2. Works(r)
    BY <1>1, Standing
  <1>3. Moves(r) /\ pc'[r] = "done" /\ op'[r] = op[r]
    BY <1>1, EndMoves DEF InsertMessage
  <1>4. work[r].on \in Disputes
    BY <1>1, <1>2 DEF Works
  <1> QED
    BY <1>1, <1>3, <1>4 DEF InsertMessage, DisputeTypes

LEMMA AnswerResolveMoves ==
  ASSUME Typed, NEW r \in Requests, AnswerResolve(r)
  PROVE  /\ Moves(r) /\ op[r] = "resolve" /\ op'[r] = "resolve" /\ pc[r] = "log" /\ pc'[r] = "done"
         /\ work[r].on \in Disputes /\ UNCHANGED <<status, reviewing, verifying, disputing>>
  <1>1. pc[r] = "log" /\ op[r] = "resolve"
    BY DEF AnswerResolve, At
  <1>2. Works(r)
    BY <1>1, Standing
  <1>3. Moves(r) /\ pc'[r] = "done" /\ op'[r] = op[r]
    BY <1>1, EndMoves DEF AnswerResolve
  <1> QED
    BY <1>1, <1>2, <1>3 DEF AnswerResolve, Works

LEMMA AbandonMoves ==
  ASSUME Typed, NEW r \in Requests, Abandon(r)
  PROVE  /\ Moves(r) /\ op'[r] = op[r] /\ pc'[r] = "done" /\ ended' = ended
         /\ UNCHANGED <<status, reviewing, verifying, disputing>>
  BY EndMoves DEF Abandon

(***************************************************************************)
(* What a step does to the rows.                                           *)
(***************************************************************************)

\* No row that was written goes away.
Grows ==
  /\ \A b \in Bookings : /\ review[b] # None => review'[b] = review[b]
                         /\ response[b] # None => response'[b] = response[b]
  /\ \A d \in Disputes : /\ dispute[d] # None => dispute'[d] = dispute[d]
                         /\ resolution[d] # None => resolution'[d] = resolution[d]
  /\ posted \subseteq posted' /\ audited \subseteq audited'

\* A step that leaves the reviews and the rating alone.
ReviewQuiet(r) ==
  /\ UNCHANGED <<review, rated, rater>>
  /\ op'[r] = "review" =>
       ended' = ended /\ (pc'[r] = "done" \/ (pc[r] = "idle" /\ pc'[r] = "write"))

\* A step that rejects no document and leaves the verification status alone.
VerifyQuiet(r) ==
  /\ UNCHANGED <<judge, verification, verifier>>
  /\ \A d \in Documents : document'[d] = "REJECTED" => document[d] = "REJECTED"
  /\ op'[r] = "judge" =>
       ended' = ended /\ (pc'[r] = "done" \/ (pc[r] = "idle" /\ pc'[r] = "write"))

Known(r) ==
  /\ Moves(r) /\ ReviewTypes' /\ VerificationTypes' /\ DisputeTypes' /\ Grows
  /\ InsertReview(r) \/ ReadReviews(r) \/ StoreRating(r) \/ ReviewQuiet(r)
  /\ SetDocumentStatus(r) \/ ReadDocuments(r) \/ SetVerificationStatus(r) \/ LogReview(r)
       \/ VerifyQuiet(r)

LEMMA SameTypes ==
  ASSUME Typed
  PROVE  /\ UNCHANGED <<status, reviewing>> => ReviewTypes'
         /\ UNCHANGED verifying => VerificationTypes'
         /\ UNCHANGED disputing => DisputeTypes'
  BY DEF Typed, ReviewTypes, VerificationTypes, DisputeTypes, reviewing, verifying, disputing

LEMMA StartKnown ==
  ASSUME Typed, NEW r \in Requests, Start(r)
  PROVE  Known(r)
  <1> USE DEF Known, Grows, ReviewQuiet, VerifyQuiet
  <1>1. ASSUME NEW b \in Bookings, CreateReview(r, b) \/ Respond(r, b) \/ Raise(r, b)
        PROVE  Known(r)
    <2>1. /\ Moves(r) /\ pc'[r] = "write" /\ ended' = ended /\ pc[r] = "idle"
          /\ UNCHANGED <<status, reviewing, verifying, disputing>>
      BY <1>1, CreateReviewMoves, RespondMoves, RaiseMoves
    <2> QED
      BY <2>1, SameTypes DEF reviewing, verifying, disputing
  <1>2. ASSUME NEW d \in Documents, Submit(r, d)
        PROVE  Known(r)
    <2>1. \A e \in Documents : document'[e] = "REJECTED" => document[e] = "REJECTED"
      BY <1>2 DEF Submit, Typed, VerificationTypes
    <2> QED
      BY <1>2, <2>1, SubmitMoves, SameTypes DEF reviewing, disputing
  <1>3. ASSUME NEW d \in Documents, NEW v \in {"APPROVED", "REJECTED"}, JudgeDocument(r, d, v)
        PROVE  Known(r)
    BY <1>3, JudgeDocumentMoves, SameTypes DEF reviewing, verifying, disputing
  <1>4. ASSUME NEW d \in Disputes, AddMessage(r, d)
        PROVE  Known(r)
    BY <1>4, AddMessageMoves, SameTypes DEF reviewing, verifying, disputing
  <1>5. ASSUME NEW d \in Disputes, Resolve(r, d)
        PROVE  Known(r)
    BY <1>5, ResolveMoves, SameTypes DEF reviewing, verifying
  <1> QED
    BY <1>1, <1>2, <1>3, <1>4, <1>5 DEF Start

LEMMA ContinueKnown ==
  ASSUME Typed, NEW r \in Requests, Continue(r)
  PROVE  Known(r)
  <1> USE DEF Known, Grows, ReviewQuiet, VerifyQuiet
  <1>1. CASE InsertReview(r)
    <2>1. \A b \in Bookings : review[b] # None => review'[b] = review[b]
      BY <1>1, InsertReviewMoves DEF Typed, ReviewTypes
    <2> QED
      BY <1>1, <2>1, InsertReviewMoves, SameTypes DEF verifying, disputing
  <1>2. CASE ReadReviews(r)
    BY <1>2, ReadReviewsMoves, SameTypes DEF reviewing, verifying, disputing
  <1>3. CASE StoreRating(r)
    BY <1>3, StoreRatingMoves, SameTypes DEF verifying, disputing
  <1>4. CASE WriteResponse(r)
    <2>1. \A b \in Bookings : response[b] # None => response'[b] = response[b]
      BY <1>4, WriteResponseMoves DEF Typed, ReviewTypes
    <2> QED
      BY <1>4, <2>1, WriteResponseMoves, SameTypes DEF verifying, disputing
  <1>5. CASE SetDocumentStatus(r)
    BY <1>5, SetDocumentStatusMoves, SameTypes DEF reviewing, disputing
  <1>6. CASE ReadDocuments(r)
    BY <1>6, ReadDocumentsMoves, SameTypes DEF reviewing, verifying, disputing
  <1>7. CASE SetVerificationStatus(r)
    BY <1>7, SetVerificationStatusMoves, SameTypes DEF reviewing, disputing
  <1>8. CASE LogReview(r)
    BY <1>8, LogReviewMoves, SameTypes DEF reviewing, disputing
  <1>9. CASE InsertDispute(r)
    BY <1>9, InsertDisputeMoves, SameTypes DEF reviewing, verifying
  <1>10. CASE InsertMessage(r)
    BY <1>10, InsertMessageMoves, SameTypes DEF reviewing, verifying
  <1>11. CASE AnswerResolve(r)
    BY <1>11, AnswerResolveMoves, SameTypes DEF reviewing, verifying, disputing
  <1>12. CASE Abandon(r)
    BY <1>12, AbandonMoves, SameTypes DEF reviewing, verifying, disputing
  <1> QED
    BY <1>1, <1>2, <1>3, <1>4, <1>5, <1>6, <1>7, <1>8, <1>9, <1>10, <1>11, <1>12 DEF Continue

\* A step that belongs to no request.
Elsewhere == UNCHANGED <<reviewing, verifying, disputing, progress>>

LEMMA WhoseStep ==
  ASSUME Typed, [Next]_vars
  PROVE  (\E r \in Requests : Known(r) /\ (Start(r) \/ Continue(r))) \/ (Elsewhere /\ ReviewTypes')
  <1>1. CASE \E r \in Requests : Start(r) \/ Continue(r)
    BY <1>1, StartKnown, ContinueKnown
  <1>2. ASSUME NEW b \in Bookings, NEW s \in {"open", "completed", "cancelled"}, SetBooking(b, s)
        PROVE  Elsewhere /\ ReviewTypes'
    BY <1>2 DEF SetBooking, Elsewhere, Typed, ReviewTypes, reviewing
  <1>3. CASE UNCHANGED vars
    BY <1>3, SameTypes DEF vars, Elsewhere
  <1> QED
    BY <1>1, <1>2, <1>3 DEF Next

LEMMA TypedStep ==
  ASSUME Typed, [Next]_vars
  PROVE  Typed'
  <1>1. CASE Elsewhere /\ ReviewTypes'
    BY <1>1, SameTypes
       DEF Elsewhere, progress, Typed, ProgressTypes, Local, Works
  <1>2. ASSUME NEW r \in Requests, Known(r)
        PROVE  Typed'
    <2>1. \A q \in Requests : Local(q)'
      BY <1>2, OthersKeep DEF Known
    <2> QED
      BY <1>2, <2>1 DEF Known, Moves, Typed
  <1> QED
    BY <1>1, <1>2, WhoseStep

LEMMA TypedInit == Init => Typed
  BY NothingIsLocal
     DEF Init, Typed, ReviewTypes, VerificationTypes, DisputeTypes, ProgressTypes, Local, Works,
         Steps, Operations, Verdicts

\* Every variable keeps its type, and every request the shape of its step
\* (internal/reviews, internal/verification, internal/disputes).
THEOREM TypeCorrect == Spec => []TypeOK
  <1>1. Typed /\ [Next]_vars => Typed'
    BY TypedStep
  <1> QED
    BY <1>1, TypedInit, TypedIsTypeOK, PTL DEF Spec

(***************************************************************************)
(* What was accepted stays.                                                *)
(***************************************************************************)

Accepted(r) ==
  /\ op[r] = "review" => \E b \in ListForProfessional : review[b] = r
  /\ op[r] = "respond" => \E b \in ListForProfessional : response[b] = r
  /\ op[r] = "post" => \E d \in ListDisputes : r \in ListMessages(d)
  /\ op[r] = "resolve" => \E d \in ListDisputes : resolution[d] = r
  /\ op[r] = "judge" => r \in audited

\* What a request relies on until it is answered.
Kept(r) ==
  /\ op[r] = "review" /\ pc[r] \in {"read", "store"} => review[work[r].on] = r
  /\ op[r] = "respond" /\ pc[r] = "write" => review[work[r].on] # None
  /\ op[r] = "post" /\ pc[r] = "write" => dispute[work[r].on] # None
  /\ op[r] = "resolve" /\ pc[r] = "log" => resolution[work[r].on] = r /\ dispute[work[r].on] # None
  /\ r \in ended => Accepted(r)

AllKept == \A r \in Requests : Kept(r)

LEMMA RequestsAreSome == \A r \in Requests : r # None
  BY ReputationConstants

LEMMA AcceptedGrows ==
  ASSUME Typed, Grows, NEW r \in Requests, Accepted(r), op'[r] = op[r]
  PROVE  Accepted(r)'
  <1>1. CASE op[r] = "review"
    <2>1. PICK b \in ListForProfessional : review[b] = r
      BY <1>1 DEF Accepted
    <2>2. b \in Bookings /\ review[b] # None /\ review'[b] = r
      BY <2>1 DEF ListForProfessional, Grows
    <2> QED
      BY <1>1, <2>2, RequestsAreSome DEF Accepted, ListForProfessional
  <1>2. CASE op[r] = "respond"
    <2>1. PICK b \in ListForProfessional : response[b] = r
      BY <1>2 DEF Accepted
    <2>2. b \in Bookings /\ review'[b] # None /\ response'[b] = r
      BY <2>1, RequestsAreSome DEF ListForProfessional, Grows
    <2> QED
      BY <1>2, <2>2 DEF Accepted, ListForProfessional
  <1>3. CASE op[r] = "post"
    <2>1. PICK d \in ListDisputes : r \in ListMessages(d)
      BY <1>3 DEF Accepted
    <2>2. d \in Disputes /\ dispute'[d] # None /\ <<d, r>> \in posted'
      BY <2>1 DEF ListDisputes, Raised, ListMessages, Grows
    <2> QED
      BY <1>3, <2>2 DEF Accepted, ListDisputes, Raised, ListMessages
  <1>4. CASE op[r] = "resolve"
    <2>1. PICK d \in ListDisputes : resolution[d] = r
      BY <1>4 DEF Accepted
    <2>2. d \in Disputes /\ dispute'[d] # None /\ resolution'[d] = r
      BY <2>1, RequestsAreSome DEF ListDisputes, Raised, Grows
    <2> QED
      BY <1>4, <2>2 DEF Accepted, ListDisputes, Raised
  <1>5. CASE op[r] = "judge"
    BY <1>5 DEF Accepted, Grows
  <1> QED
    BY <1>1, <1>2, <1>3, <1>4, <1>5 DEF Accepted

\* A request that does nothing keeps what it relies on.
LEMMA OthersKept ==
  ASSUME Typed, Grows, NEW q \in Requests, Kept(q), (q \in ended') = (q \in ended),
         pc'[q] = pc[q], op'[q] = op[q], work'[q] = work[q]
  PROVE  Kept(q)'
  <1>1. q \in ended' => Accepted(q)'
    BY AcceptedGrows DEF Kept
  <1>2. pc[q] \notin {"idle", "done"} => Works(q)
    BY Standing
  <1> QED
    BY <1>1, <1>2, RequestsAreSome DEF Kept, Grows, Works

\* A request that begins or breaks off.
LEMMA StartKept ==
  ASSUME Typed, NEW r \in Requests, Start(r)
  PROVE  Kept(r)'
  <1>1. r \notin ended
    BY StartKnown DEF Known, Moves, Typed, Local
  <1>2. ASSUME NEW b \in Bookings, CreateReview(r, b) \/ Raise(r, b)
        PROVE  Kept(r)'
    <2>1. op'[r] \in {"review", "raise"} /\ pc'[r] = "write" /\ ended' = ended
      BY <1>2, CreateReviewMoves, RaiseMoves
    <2> QED
      BY <1>1, <2>1 DEF Kept
  <1>3. ASSUME NEW b \in Bookings, Respond(r, b)
        PROVE  Kept(r)'
    <2>1. op'[r] = "respond" /\ pc'[r] = "write" /\ ended' = ended /\ review' = review
      BY <1>3, RespondMoves DEF reviewing
    <2>2. work'[r].on = b /\ review[b] # None
      BY <1>3 DEF Respond, Begin, NoWork, Typed, ProgressTypes
    <2> QED
      BY <1>1, <2>1, <2>2 DEF Kept
  <1>4. ASSUME NEW d \in Documents, Submit(r, d)
        PROVE  Kept(r)'
    <2>1. op'[r] = "submit"
      BY <1>4, SubmitMoves
    <2> QED
      BY <2>1 DEF Kept, Accepted
  <1>5. ASSUME NEW d \in Documents, NEW v \in {"APPROVED", "REJECTED"}, JudgeDocument(r, d, v)
        PROVE  Kept(r)'
    <2>1. op'[r] = "judge" /\ ended' = ended
      BY <1>5, JudgeDocumentMoves
    <2> QED
      BY <1>1, <2>1 DEF Kept
  <1>6. ASSUME NEW d \in Disputes, AddMessage(r, d)
        PROVE  Kept(r)'
    <2>1. op'[r] = "post" /\ ended' = ended /\ dispute' = dispute
      BY <1>6, AddMessageMoves DEF disputing
    <2>2. work'[r].on = d /\ dispute[d] # None
      BY <1>6 DEF AddMessage, Raised, Begin, NoWork, Typed, ProgressTypes
    <2> QED
      BY <1>1, <2>1, <2>2 DEF Kept
  <1>7. ASSUME NEW d \in Disputes, Resolve(r, d)
        PROVE  Kept(r)'
    <2>1. op'[r] = "resolve" /\ ended' = ended
          /\ (pc'[r] = "log" => resolution'[d] = r /\ work'[r].on = d /\ dispute'[d] # None)
      BY <1>7, ResolveMoves DEF Resolve, Raised
    <2> QED
      BY <1>1, <2>1 DEF Kept
  <1> QED
    BY <1>2, <1>3, <1>4, <1>5, <1>6, <1>7 DEF Start

LEMMA ContinueKept ==
  ASSUME Typed, NEW r \in Requests, Kept(r), Continue(r)
  PROVE  Kept(r)'
  <1>1. r \notin ended /\ ReviewTypes /\ DisputeTypes
    BY ContinueKnown DEF Known, Moves, Typed, Local
  <1>2. CASE InsertReview(r)
    <2>1. work[r].on \in Bookings
      BY <1>2, Standing DEF InsertReview, At, Works
    <2> QED
      BY <1>1, <1>2, <2>1, InsertReviewMoves DEF Kept, ReviewTypes
  <1>3. CASE ReadReviews(r)
    BY <1>1, <1>3, ReadReviewsMoves DEF Kept, reviewing
  <1>4. CASE StoreRating(r)
    <2>1. op[r] = "review" /\ pc[r] = "store" /\ op'[r] = "review" /\ pc'[r] = "done" /\ review' = review
      BY <1>4, StoreRatingMoves
    <2>2. work[r].on \in Bookings /\ review[work[r].on] = r
      BY <2>1, Standing DEF Works, Kept
    <2> QED
      BY <2>1, <2>2, RequestsAreSome DEF Kept, Accepted, ListForProfessional
  <1>5. CASE WriteResponse(r)
    <2>1. op[r] = "respond" /\ pc[r] = "write" /\ op'[r] = "respond" /\ pc'[r] = "done"
          /\ work[r].on \in Bookings /\ review' = review
      BY <1>5, WriteResponseMoves
    <2>2. review[work[r].on] # None
      BY <2>1 DEF Kept
    <2>3. r \in ended' => response' = [response EXCEPT ![work[r].on] = r]
      BY <1>1, <1>5, WriteResponseMoves
    <2> QED
      BY <1>1, <2>1, <2>2, <2>3 DEF Kept, Accepted, ListForProfessional, ReviewTypes
  <1>6. CASE SetDocumentStatus(r) \/ ReadDocuments(r) \/ SetVerificationStatus(r)
    <2>1. op'[r] = "judge" /\ ended' = ended
      BY <1>6, SetDocumentStatusMoves, ReadDocumentsMoves, SetVerificationStatusMoves
    <2> QED
      BY <1>1, <2>1 DEF Kept
  <1>7. CASE LogReview(r)
    BY <1>7, LogReviewMoves DEF Kept, Accepted
  <1>8. CASE InsertDispute(r)
    <2>1. op'[r] = "raise"
      BY <1>8, InsertDisputeMoves
    <2> QED
      BY <2>1 DEF Kept, Accepted
  <1>9. CASE InsertMessage(r)
    <2>1. /\ op[r] = "post" /\ pc[r] = "write" /\ op'[r] = "post" /\ pc'[r] = "done"
          /\ work[r].on \in Disputes /\ <<work[r].on, r>> \in posted' /\ dispute' = dispute
      BY <1>9, InsertMessageMoves
    <2>2. dispute[work[r].on] # None
      BY <2>1 DEF Kept
    <2> QED
      BY <2>1, <2>2 DEF Kept, Accepted, ListDisputes, Raised, ListMessages
  <1>10. CASE AnswerResolve(r)
    <2>1. /\ op[r] = "resolve" /\ pc[r] = "log" /\ op'[r] = "resolve" /\ pc'[r] = "done"
          /\ work[r].on \in Disputes /\ resolution' = resolution /\ dispute' = dispute
      BY <1>10, AnswerResolveMoves DEF disputing
    <2> QED
      BY <2>1 DEF Kept, Accepted, ListDisputes, Raised
  <1>11. CASE Abandon(r)
    BY <1>1, <1>11, AbandonMoves DEF Kept
  <1> QED
    BY <1>2, <1>3, <1>4, <1>5, <1>6, <1>7, <1>8, <1>9, <1>10, <1>11 DEF Continue

LEMMA KeptStep ==
  ASSUME Typed, AllKept, [Next]_vars
  PROVE  AllKept'
  <1>1. CASE Elsewhere
    <2>1. Grows
      BY <1>1 DEF Elsewhere, reviewing, verifying, disputing, Grows
    <2> QED
      BY <1>1, <2>1, OthersKept DEF Elsewhere, progress, AllKept
  <1>2. ASSUME NEW r \in Requests, Known(r), Start(r) \/ Continue(r)
        PROVE  AllKept'
    <2>1. Kept(r)'
      BY <1>2, StartKept, ContinueKept DEF AllKept
    <2>2. ASSUME NEW q \in Requests \ {r} PROVE Kept(q)'
      BY <1>2, OthersKept DEF Known, Moves, AllKept
    <2> QED
      BY <2>1, <2>2 DEF AllKept
  <1> QED
    BY <1>1, <1>2, WhoseStep

\* Whoever was told that a review, a response, a message, a resolution or a
\* judgement was accepted finds it, for good (unique index on reviews.booking_id,
\* "response IS NULL", "status = 'OPEN'").
THEOREM WhatIsAcceptedStays == Spec => []AcceptedStays
  <1>1. Init => AllKept
    BY DEF Init, AllKept, Kept
  <1>2. Typed /\ AllKept /\ [Next]_vars => (Typed /\ AllKept)'
    BY TypedStep, KeptStep
  <1>3. Typed /\ AllKept => AcceptedStays
    BY DEF Typed, ProgressTypes, AllKept, Kept, Accepted, AcceptedStays
  <1> QED
    BY <1>1, <1>2, <1>3, TypedInit, PTL DEF Spec

(***************************************************************************)
(* The rating lacks a review only in a race.                               *)
(***************************************************************************)

\* Reviews and their writers.
Reviewed ==
  /\ \A b \in Bookings : review[b] # None =>
       op[review[b]] = "review" /\ pc[review[b]] \in {"read", "store", "done"}
  /\ rater # None => op[rater] = "review" /\ pc[rater] = "done"

\* A review that is missing in an average was stored after it was read.
Averaged ==
  \A r \in Requests : op[r] = "review" /\ pc[r] = "store" =>
    \A b \in Bookings \ work[r].seen :
      review[b] # None => review[b] # r /\ review[b] \notin before[r]

Shown ==
  \A b \in Bookings \ rated :
    review[b] \in ended =>
      rater # None /\ rater # review[b] /\ Concurrent(rater, review[b])

LEMMA ReviewedStep ==
  ASSUME Typed, Reviewed, [Next]_vars
  PROVE  Reviewed'
  <1>1. CASE Elsewhere
    BY <1>1 DEF Elsewhere, reviewing, progress, Reviewed
  <1>2. ASSUME NEW r \in Requests, Known(r)
        PROVE  Reviewed'
    <2>1. Moves(r) /\ ReviewTypes /\ ReviewTypes'
      BY <1>2 DEF Known, Typed
    <2>2. CASE ReviewQuiet(r)
      <3>1. UNCHANGED <<review, rater>>
        BY <2>2 DEF ReviewQuiet
      <3>2. ASSUME NEW s \in Requests, op[s] = "review", pc[s] \in {"read", "store", "done"}
            PROVE  op'[s] = "review" /\ pc'[s] \in {pc[s], "done"}
        BY <2>1, <2>2, <3>2 DEF ReviewQuiet, Moves
      <3> QED
        BY <2>1, <3>1, <3>2 DEF Reviewed, ReviewTypes
    <2>3. CASE InsertReview(r)
      <3>1. work[r].on \in Bookings /\ pc[r] = "write"
        BY <2>3, Standing DEF InsertReview, At, Works
      <3> QED
        BY <2>1, <2>3, <3>1, InsertReviewMoves DEF Reviewed, Moves, ReviewTypes
    <2>4. CASE ReadReviews(r)
      BY <2>1, <2>4, ReadReviewsMoves DEF Reviewed, Moves, ReviewTypes, reviewing
    <2>5. CASE StoreRating(r)
      BY <2>1, <2>5, StoreRatingMoves DEF Reviewed, Moves, ReviewTypes
    <2> QED
      BY <1>2, <2>2, <2>3, <2>4, <2>5 DEF Known
  <1> QED
    BY <1>1, <1>2, WhoseStep

LEMMA AveragedStep ==
  ASSUME Typed, AllKept, Averaged, [Next]_vars
  PROVE  Averaged'
  <1>1. CASE Elsewhere
    BY <1>1 DEF Elsewhere, reviewing, progress, Averaged
  <1>2. ASSUME NEW r \in Requests, Known(r)
        PROVE  Averaged'
    <2> SUFFICES ASSUME NEW q \in Requests, op'[q] = "review", pc'[q] = "store",
                        NEW b \in Bookings \ work'[q].seen, review'[b] # None
                 PROVE  review'[b] # q /\ review'[b] \notin before'[q]
      BY DEF Averaged
    <2>1. Moves(r) /\ ReviewTypes /\ ReviewTypes' /\ Local(q)
      BY <1>2 DEF Known, Typed
    <2>2. CASE ReviewQuiet(r)
      <3>1. q # r
        BY <2>2 DEF ReviewQuiet
      <3> QED
        BY <2>1, <2>2, <3>1 DEF ReviewQuiet, Moves, Averaged
    <2>3. CASE InsertReview(r)
      <3>1. q # r /\ work[r].on \in Bookings /\ r \notin ended
        BY <2>1, <2>3, InsertReviewMoves, Standing DEF InsertReview, At, Works
      <3>2. op[q] = "review" /\ pc[q] = "store" /\ work'[q] = work[q] /\ before'[q] = before[q]
        BY <2>1, <3>1 DEF Moves
      <3>3. review'[b] \in {review[b], r}
        BY <2>1, <2>3, <3>1, InsertReviewMoves DEF ReviewTypes
      <3> QED
        BY <2>1, <3>1, <3>2, <3>3 DEF Averaged, Local
    <2>4. CASE ReadReviews(r)
      <3>1. CASE q = r
        BY <2>4, <3>1, ReadReviewsMoves DEF reviewing
      <3>2. CASE q # r
        BY <2>1, <2>4, <3>2, ReadReviewsMoves DEF Averaged, Moves, reviewing
      <3> QED
        BY <3>1, <3>2
    <2>5. CASE StoreRating(r)
      <3>1. q # r
        BY <2>5, StoreRatingMoves
      <3> QED
        BY <2>1, <2>5, <3>1, StoreRatingMoves DEF Averaged, Moves
    <2> QED
      BY <1>2, <2>2, <2>3, <2>4, <2>5 DEF Known
  <1> QED
    BY <1>1, <1>2, WhoseStep

\* What is concurrent stays so: neither request begins again.
LEMMA StaysConcurrent ==
  ASSUME NEW r \in Requests, Moves(r), NEW p \in Requests, NEW q \in Requests,
         pc[p] # "idle", pc[q] # "idle", Concurrent(p, q)
  PROVE  Concurrent(p, q)'
  BY DEF Moves, Concurrent

LEMMA ShownStep ==
  ASSUME Typed, AllKept, Reviewed, Averaged, Shown, [Next]_vars
  PROVE  Shown'
  <1>1. CASE Elsewhere
    BY <1>1 DEF Elsewhere, reviewing, progress, Shown, Concurrent
  <1>2. ASSUME NEW r \in Requests, Known(r)
        PROVE  Shown'
    <2> SUFFICES ASSUME NEW b \in Bookings \ rated', review'[b] \in ended'
                 PROVE  /\ rater' # None /\ rater' # review'[b]
                        /\ rater' \notin before'[review'[b]] /\ review'[b] \notin before'[rater']
      BY DEF Shown, Concurrent
    <2>1. Moves(r) /\ ReviewTypes /\ ReviewTypes' /\ ProgressTypes /\ ProgressTypes'
      BY <1>2 DEF Known, Typed, Moves
    <2>2. ASSUME b \notin rated, review'[b] = review[b], review[b] \in ended, rater' = rater
          PROVE  /\ rater' # None /\ rater' # review'[b]
                 /\ rater' \notin before'[review'[b]] /\ review'[b] \notin before'[rater']
      <3>1. rater # None /\ rater # review[b] /\ Concurrent(rater, review[b])
        BY <2>2 DEF Shown
      <3>2. rater \in Requests /\ review[b] \in Requests
        BY <2>1, <2>2, <3>1 DEF ReviewTypes, ProgressTypes
      <3>3. pc[rater] # "idle" /\ pc[review[b]] # "idle"
        BY <2>2, <3>1, <3>2 DEF Reviewed, Typed, Local
      <3>4. PICK p \in Requests, s \in Requests : p = rater /\ s = review[b]
        BY <3>2
      <3>5. Concurrent(p, s)'
        BY <2>1, <3>1, <3>3, <3>4, StaysConcurrent
      <3> QED
        BY <2>2, <3>1, <3>4, <3>5 DEF Concurrent
    <2>3. CASE ReviewQuiet(r)
      <3>1. review[b] \in ended
        <4>1. review[b] # None
          BY <2>1, <2>3, RequestsAreSome DEF ReviewQuiet, ProgressTypes
        <4>2. op[review[b]] = "review" /\ pc[review[b]] # "idle"
          BY <4>1 DEF Reviewed
        <4>3. CASE review[b] = r
          BY <2>1, <2>3, <4>2, <4>3 DEF ReviewQuiet, Moves
        <4>4. CASE review[b] # r
          BY <2>1, <2>3, <4>4 DEF ReviewQuiet, Moves
        <4> QED
          BY <4>3, <4>4
      <3> QED
        BY <2>2, <2>3, <3>1 DEF ReviewQuiet
    <2>4. CASE InsertReview(r)
      <3>1. work[r].on \in Bookings /\ r \notin ended
        BY <2>4, Standing DEF InsertReview, At, Works
      <3>2. ended' = ended /\ rated' = rated /\ rater' = rater /\ review'[b] \in {review[b], r}
        BY <2>1, <2>4, <3>1, InsertReviewMoves DEF ReviewTypes
      <3> QED
        BY <2>2, <3>1, <3>2
    <2>5. CASE ReadReviews(r)
      BY <2>2, <2>5, ReadReviewsMoves DEF reviewing
    <2>6. CASE StoreRating(r)
      <3>1. /\ op[r] = "review" /\ pc[r] = "store" /\ rated' = work[r].seen /\ rater' = r
            /\ review' = review /\ pc'[r] = "done"
        BY <2>6, StoreRatingMoves
      <3>2. review[b] # None /\ review[b] \in Requests
        BY <2>1, <3>1, RequestsAreSome DEF ProgressTypes
      <3>3. review[b] # r /\ review[b] \notin before[r]
        BY <3>1, <3>2 DEF Averaged
      <3>4. r \notin ended
        BY <3>1, Standing
      <3>5. r \notin before[review[b]]
        BY <3>2, <3>4 DEF Typed, Local
      <3>6. before'[r] = before[r] /\ before'[review[b]] = before[review[b]]
        BY <2>1, <3>1, <3>2, <3>3 DEF Moves
      <3> QED
        BY <3>1, <3>3, <3>5, <3>6, RequestsAreSome DEF Concurrent
    <2> QED
      BY <1>2, <2>3, <2>4, <2>5, <2>6 DEF Known
  <1> QED
    BY <1>1, <1>2, WhoseStep

\* The rating lacks the review of a request that was answered only if the request
\* that wrote it ran at the same time (reviews/store.go:165-179).
THEOREM RatingsLagOnlyInRaces == Spec => []MissingOnlyIfConcurrent
  <1>1. Init => AllKept /\ Reviewed /\ Averaged /\ Shown
    BY DEF Init, AllKept, Kept, Reviewed, Averaged, Shown
  <1>2. Typed /\ AllKept /\ Reviewed /\ Averaged /\ Shown /\ [Next]_vars
          => (Typed /\ AllKept /\ Reviewed /\ Averaged /\ Shown)'
    BY TypedStep, KeptStep, ReviewedStep, AveragedStep, ShownStep
  <1>3. Shown => MissingOnlyIfConcurrent
    BY DEF Shown, MissingOnlyIfConcurrent
  <1> QED
    BY <1>1, <1>2, <1>3, TypedInit, PTL DEF Spec

(***************************************************************************)
(* A rejected document next to VERIFIED only in a race.                    *)
(***************************************************************************)

\* Documents and their judges.
Judged ==
  /\ \A d \in Documents : judge[d] # None =>
       op[judge[d]] = "judge" /\ pc[judge[d]] \in {"read", "store", "log", "done"}
  /\ \A d \in Documents : document[d] = "REJECTED" => judge[d] # None
  /\ verifier # None => op[verifier] = "judge" /\ pc[verifier] \in {"log", "done"}

\* A rejection that a request did not see came after it read the documents.
Derived ==
  \A r \in Requests : op[r] = "judge" /\ pc[r] = "store" /\ work[r].verdict = "APPROVED" =>
    \A d \in Documents :
      document[d] = "REJECTED" => judge[d] # r /\ judge[d] \notin before[r]

\* A judge that has written the status of the professional, after the document's.
Through(s) == s \in ended \/ pc[s] = "log"

Certified ==
  verification = "VERIFIED" =>
    \A d \in Documents :
      document[d] = "REJECTED" /\ Through(judge[d]) =>
        verifier # None /\ verifier # judge[d] /\ Concurrent(verifier, judge[d])

LEMMA JudgedStep ==
  ASSUME Typed, Judged, [Next]_vars
  PROVE  Judged'
  <1>1. CASE Elsewhere
    BY <1>1 DEF Elsewhere, verifying, progress, Judged
  <1>2. ASSUME NEW r \in Requests, Known(r)
        PROVE  Judged'
    <2>1. Moves(r) /\ VerificationTypes /\ VerificationTypes'
      BY <1>2 DEF Known, Typed
    <2>2. CASE VerifyQuiet(r)
      <3>1. /\ UNCHANGED <<judge, verifier>>
            /\ \A d \in Documents : document'[d] = "REJECTED" => document[d] = "REJECTED"
        BY <2>2 DEF VerifyQuiet
      <3>2. ASSUME NEW s \in Requests, op[s] = "judge", pc[s] \in {"read", "store", "log", "done"}
            PROVE  op'[s] = "judge" /\ pc'[s] \in {pc[s], "done"}
        BY <2>1, <2>2, <3>2 DEF VerifyQuiet, Moves
      <3> QED
        BY <2>1, <3>1, <3>2 DEF Judged, VerificationTypes
    <2>3. CASE SetDocumentStatus(r)
      <3>1. pc[r] = "write"
        BY <2>3 DEF SetDocumentStatus, At
      <3> QED
        BY <2>1, <2>3, <3>1, SetDocumentStatusMoves, RequestsAreSome DEF Judged, Moves, VerificationTypes
    <2>4. CASE ReadDocuments(r)
      <3>1. pc[r] = "read"
        BY <2>4 DEF ReadDocuments, At
      <3> QED
        BY <2>1, <2>4, <3>1, ReadDocumentsMoves DEF Judged, Moves, VerificationTypes, verifying
    <2>5. CASE SetVerificationStatus(r)
      BY <2>1, <2>5, SetVerificationStatusMoves DEF Judged, Moves, VerificationTypes
    <2>6. CASE LogReview(r)
      BY <2>1, <2>6, LogReviewMoves DEF Judged, Moves, VerificationTypes
    <2> QED
      BY <1>2, <2>2, <2>3, <2>4, <2>5, <2>6 DEF Known
  <1> QED
    BY <1>1, <1>2, WhoseStep

LEMMA DerivedStep ==
  ASSUME Typed, Derived, [Next]_vars
  PROVE  Derived'
  <1>1. CASE Elsewhere
    BY <1>1 DEF Elsewhere, verifying, progress, Derived
  <1>2. ASSUME NEW r \in Requests, Known(r)
        PROVE  Derived'
    <2> SUFFICES ASSUME NEW q \in Requests, op'[q] = "judge", pc'[q] = "store",
                        work'[q].verdict = "APPROVED",
                        NEW d \in Documents, document'[d] = "REJECTED"
                 PROVE  judge'[d] # q /\ judge'[d] \notin before'[q]
      BY DEF Derived
    <2>1. Moves(r) /\ VerificationTypes /\ VerificationTypes' /\ Local(q)
      BY <1>2 DEF Known, Typed
    <2>2. ASSUME q # r, document[d] = "REJECTED", judge'[d] = judge[d]
          PROVE  judge'[d] # q /\ judge'[d] \notin before'[q]
      BY <2>1, <2>2 DEF Moves, Derived
    <2>3. CASE VerifyQuiet(r)
      BY <2>2, <2>3 DEF VerifyQuiet
    <2>4. CASE SetDocumentStatus(r)
      <3>1. q # r /\ work[r].on \in Documents /\ r \notin ended
        BY <2>4, SetDocumentStatusMoves, Standing DEF SetDocumentStatus, At
      <3>2. before'[q] = before[q] /\ r \notin before'[q]
        BY <2>1, <3>1 DEF Moves, Local
      <3>3. judge'[d] = r \/ (judge'[d] = judge[d] /\ document'[d] = document[d])
        BY <2>1, <2>4, SetDocumentStatusMoves DEF VerificationTypes
      <3> QED
        BY <2>2, <3>1, <3>2, <3>3
    <2>5. CASE ReadDocuments(r)
      <3>1. CASE q = r
        BY <2>5, <3>1, ReadDocumentsMoves DEF verifying
      <3>2. CASE q # r
        BY <2>2, <2>5, <3>2, ReadDocumentsMoves DEF verifying
      <3> QED
        BY <3>1, <3>2
    <2>6. CASE SetVerificationStatus(r)
      BY <2>2, <2>6, SetVerificationStatusMoves
    <2>7. CASE LogReview(r)
      BY <2>2, <2>7, LogReviewMoves
    <2> QED
      BY <1>2, <2>3, <2>4, <2>5, <2>6, <2>7 DEF Known
  <1> QED
    BY <1>1, <1>2, WhoseStep

LEMMA CertifiedStep ==
  ASSUME Typed, Judged, Derived, Certified, [Next]_vars
  PROVE  Certified'
  <1>1. CASE Elsewhere
    BY <1>1 DEF Elsewhere, verifying, progress, Certified, Through, Concurrent
  <1>2. ASSUME NEW r \in Requests, Known(r)
        PROVE  Certified'
    <2> SUFFICES ASSUME verification' = "VERIFIED", NEW d \in Documents,
                        document'[d] = "REJECTED",
                        judge'[d] \in ended' \/ pc'[judge'[d]] = "log"
                 PROVE  /\ verifier' # None /\ verifier' # judge'[d]
                        /\ verifier' \notin before'[judge'[d]] /\ judge'[d] \notin before'[verifier']
      BY DEF Certified, Through, Concurrent
    <2>1. Moves(r) /\ VerificationTypes /\ VerificationTypes' /\ ProgressTypes /\ ProgressTypes'
      BY <1>2 DEF Known, Typed, Moves
    <2>2. ASSUME verification = "VERIFIED", document[d] = "REJECTED", judge'[d] = judge[d],
                 verifier' = verifier, Through(judge[d])
          PROVE  /\ verifier' # None /\ verifier' # judge'[d]
                 /\ verifier' \notin before'[judge'[d]] /\ judge'[d] \notin before'[verifier']
      <3>1. verifier # None /\ verifier # judge[d] /\ Concurrent(verifier, judge[d])
        BY <2>2 DEF Certified
      <3>2. verifier \in Requests /\ judge[d] \in Requests
        BY <2>1, <2>2, <3>1 DEF VerificationTypes, Judged
      <3>3. pc[verifier] # "idle" /\ pc[judge[d]] # "idle"
        BY <2>2, <3>1, <3>2 DEF Judged
      <3>4. PICK p \in Requests, s \in Requests : p = verifier /\ s = judge[d]
        BY <3>2
      <3>5. Concurrent(p, s)'
        BY <2>1, <3>1, <3>3, <3>4, StaysConcurrent
      <3> QED
        BY <2>2, <3>1, <3>4, <3>5 DEF Concurrent
    <2>3. ASSUME judge'[d] = judge[d], document[d] = "REJECTED", judge[d] # r
          PROVE  Through(judge[d])
      <3>1. judge[d] \in Requests
        BY <2>1, <2>3 DEF Judged, VerificationTypes
      <3> QED
        BY <2>1, <2>3, <3>1 DEF Moves, Through
    <2>4. CASE VerifyQuiet(r)
      <3>1. judge'[d] = judge[d] /\ document[d] = "REJECTED" /\ verifier' = verifier
            /\ verification = "VERIFIED"
        BY <2>4 DEF VerifyQuiet
      <3>2. Through(judge[d])
        <4>1. CASE judge[d] = r
          <5>1. op[r] = "judge" /\ pc[r] # "idle" /\ op'[r] = "judge"
            BY <2>1, <3>1, <4>1 DEF Judged, Moves
          <5>2. ended' = ended /\ pc'[r] = "done"
            BY <2>4, <5>1 DEF VerifyQuiet
          <5> QED
            BY <3>1, <4>1, <5>2 DEF Through
        <4> QED
          BY <2>3, <3>1, <4>1
      <3> QED
        BY <2>2, <3>1, <3>2
    <2>5. CASE SetDocumentStatus(r)
      <3>1. r \notin ended'  /\ pc'[r] = "read" /\ verifier' = verifier /\ verification' = verification
        BY <2>5, SetDocumentStatusMoves, Standing DEF SetDocumentStatus, At
      <3>2. judge'[d] # r
        BY <3>1
      <3>3. judge'[d] = judge[d] /\ document'[d] = document[d]
        BY <2>1, <2>5, <3>2, SetDocumentStatusMoves DEF VerificationTypes
      <3> QED
        BY <2>2, <2>3, <3>1, <3>2, <3>3
    <2>6. CASE ReadDocuments(r)
      <3>1. r \notin ended' /\ pc'[r] = "store" /\ UNCHANGED <<judge, document, verifier, verification>>
        BY <2>6, ReadDocumentsMoves, Standing DEF ReadDocuments, At, verifying
      <3>2. judge[d] # r
        BY <3>1
      <3> QED
        BY <2>2, <2>3, <3>1, <3>2
    <2>7. CASE SetVerificationStatus(r)
      <3>1. /\ op[r] = "judge" /\ pc[r] = "store" /\ verifier' = r /\ work[r].verdict = "APPROVED"
            /\ document' = document /\ judge' = judge
        BY <2>7, SetVerificationStatusMoves
      <3>2. judge[d] # r /\ judge[d] \notin before[r]
        BY <3>1 DEF Derived
      <3>3. judge[d] \in Requests
        BY <2>1, <3>1 DEF Judged, VerificationTypes
      <3>4. r \notin before[judge[d]]
        BY <3>1, <3>3, Standing DEF Typed, Local
      <3>5. before'[r] = before[r] /\ before'[judge[d]] = before[judge[d]]
        BY <2>1, <3>1, <3>2, <3>3 DEF Moves
      <3> QED
        BY <3>1, <3>2, <3>4, <3>5, RequestsAreSome
    <2>8. CASE LogReview(r)
      <3>1. pc[r] = "log" /\ UNCHANGED <<judge, document, verifier, verification>>
        BY <2>8, LogReviewMoves
      <3>2. judge[d] = r => Through(judge[d])
        BY <3>1 DEF Through
      <3> QED
        BY <2>2, <2>3, <3>1, <3>2
    <2> QED
      BY <1>2, <2>4, <2>5, <2>6, <2>7, <2>8 DEF Known
  <1> QED
    BY <1>1, <1>2, WhoseStep

\* A professional is VERIFIED next to a document whose rejection was answered only
\* if the request that wrote the status ran at the same time as the rejection
\* (verification/service.go:77-140).
THEOREM VerifiedLagsOnlyInRaces == Spec => []VerifiedOnlyIfConcurrent
  <1>1. Init => Judged /\ Derived /\ Certified
    BY DEF Init, Judged, Derived, Certified
  <1>2. Typed /\ Judged /\ Derived /\ Certified /\ [Next]_vars
          => (Typed /\ Judged /\ Derived /\ Certified)'
    BY TypedStep, JudgedStep, DerivedStep, CertifiedStep
  <1>3. Certified => VerifiedOnlyIfConcurrent
    BY DEF Certified, Through, VerifiedOnlyIfConcurrent
  <1> QED
    BY <1>1, <1>2, <1>3, TypedInit, PTL DEF Spec

(***************************************************************************)
(* Storefront.  The invariants.                                            *)
(***************************************************************************)
Columns == {"text", "flag"}
Draft(c, s) == IF c = "text" THEN held[s].text ELSE held[s].flag

\* What a request under way holds.
Underway(r) ==
  /\ pc[r] = "idle" => gives[r] = {} /\ before[r] = {} /\ page[r] = {}
  /\ gives[r] # {} => on[r] \in Rows
  /\ pc[r] = "write" =>
       /\ on[r] \in Rows /\ op[r] \in {"update", "sponsor"}
       /\ \A c \in gives[r] \cap Columns : Draft(c, r) = r
       /\ KindOf[on[r]] \in {"service", "category"} => "flag" \notin gives[r]
       /\ "images" \in gives[r] <=> held[r].left # 0
       /\ held[r].left # 0 => held[r].left = Parts /\ KindOf[on[r]] = "post"
  /\ pc[r] = "insert" => on[r] \in Rows /\ op[r] = "create" /\ "images" \notin gives[r]
                         /\ KindOf[on[r]] = "profile"
  /\ pc[r] \in {"clear", "add"} =>
       /\ "images" \in gives[r] /\ KindOf[on[r]] \in {"post", "service"}
       /\ row[on[r]] # "absent"
       /\ op[r] \in {"create", "update", "sponsor"}
       /\ held[r].left \in 1..Parts /\ (pc[r] = "clear" => held[r].left = Parts)
  /\ pc[r] = "mark" => op[r] = "like" /\ gives[r] = {} /\ on[r] \in Rows
  /\ pc[r] = "media" =>
       op[r] = "page" /\ gives[r] = {} /\ \A p \in page[r] : KindOf[p[1]] = "post" /\ row[p[1]] # "absent"
  /\ pc[r] = "variants" =>
       /\ op[r] = "service" /\ gives[r] = {} /\ on[r] \in Rows
       /\ KindOf[on[r]] = "service" /\ row[on[r]] # "absent"
       /\ page[r] # {} /\ \A p \in page[r] : p[1] = on[r]
  /\ pc[r] \in {"professionals", "services", "deals"} =>
       op[r] \in {"home", "search", "category"} /\ gives[r] = {}

\* The history of the requests.
Histories ==
  \A r \in Requests :
    /\ Underway(r)
    /\ r \in ended => pc[r] = "done"
    /\ before[r] \subseteq ended /\ r \notin before[r]

\* The columns a request gives are in its row by now.
Wrote(r) == r \in ended \/ pc[r] \in {"clear", "add"}

Raced(r) ==
  \E s \in Requests : on[s] = on[r] /\ op[s] \in {"update", "sponsor"} /\ Together(r, s)

\* What a request wrote is undone, or about to be, only by a concurrent update.
ColumnsKept ==
  \A r \in Requests : \A c \in gives[r] \cap Columns :
    Wrote(r) /\ row[on[r]] # "gone" =>
      /\ Column(c, on[r]) \in before[r] => Raced(r)
      /\ \A s \in Requests :
           pc[s] = "write" /\ on[s] = on[r] /\ Draft(c, s) \in before[r] => Raced(r)

\* A request that wrote the images of its row when no other did.
Solo(w) == \A v \in ImageWriters(on[w]) \ {w} : v \in before[w]

\* Whose images a row has.
PartsKept ==
  /\ \A x \in Rows : row[x] = "absent" => parts[x] = {}
  /\ \A x \in Rows :
       row[x] # "absent" /\ KindOf[x] \in {"post", "service"} => ImageWriters(x) # {}
  /\ \A w \in Requests :
       "images" \in gives[w] /\ row[on[w]] # "gone" /\ Solo(w) =>
         /\ pc[w] = "add" => parts[on[w]] = {w} \X (1 .. Parts - held[w].left)
         /\ w \in ended => parts[on[w]] = {w} \X Positions

\* Of writers that came one after the other, one was the last.
LastOne ==
  \A x \in Rows :
    LET writers == ImageWriters(x) IN
    writers # {} /\ writers \subseteq ended /\ (\A v, w \in writers : ~Together(v, w)) =>
      \E last \in writers : \A w \in writers \ {last} : w \in before[last]

\* What is deleted stays so, and is on no page that was asked for later.
DeletedStays == \A s \in ended : \A x \in Rows : Deletes(s, x) => row[x] \in {"hidden", "gone"}
DeletedUnseen ==
  \A r \in Requests : \A p \in page[r] : \A s \in before[r] : ~Deletes(s, p[1])

SfInv ==
  /\ ConstantsFit /\ StorefrontTypeOK /\ Histories
  /\ ColumnsKept /\ PartsKept /\ LastOne /\ DeletedStays /\ DeletedUnseen /\ PagesAreWhole

(***************************************************************************)
(* What the step of a request does to its progress.                        *)
(***************************************************************************)
Stages == {"idle", "insert", "write", "clear", "add", "mark", "media",
           "professionals", "services", "deals", "variants", "done"}
Calls == {"none", "create", "update", "sponsor", "switch", "like", "page", "hours",
               "service", "list", "home", "search", "category"}
Gifts == SUBSET {"text", "flag", "images"}
Holdings == [text : Maybe(Requests), flag : Maybe(Requests), left : 0..Parts]

ProgressTyped ==
  /\ pc \in [Requests -> Stages] /\ op \in [Requests -> Calls]
  /\ on \in [Requests -> Maybe(Rows)] /\ held \in [Requests -> Holdings]
  /\ gives \in [Requests -> Gifts] /\ before \in [Requests -> SUBSET Requests]
  /\ ended \subseteq Requests

Turn(r) ==
  /\ ProgressTyped'
  /\ \A q \in Requests \ {r} :
       /\ pc'[q] = pc[q] /\ op'[q] = op[q] /\ on'[q] = on[q] /\ held'[q] = held[q]
       /\ gives'[q] = gives[q] /\ before'[q] = before[q]
  /\ pc'[r] # "idle"
  /\ \/ ended' = ended
     \/ ended' = ended \cup {r} /\ pc'[r] = "done"

Opens(r) == Turn(r) /\ pc[r] = "idle" /\ before'[r] = ended

Goes(r) ==
  /\ Turn(r) /\ pc[r] \notin {"idle", "done"}
  /\ op'[r] = op[r] /\ on'[r] = on[r] /\ gives'[r] = gives[r] /\ before'[r] = before[r]

LEMMA TypedProgress == StorefrontTypeOK => ProgressTyped
  BY DEF StorefrontTypeOK, ProgressTyped, Stages, Calls, Gifts, Holdings

\* A first step, by what it assigns and that these are values of their types.
Starting(r, kind, x, columns, next, locals) ==
  /\ kind \in Calls /\ x \in Maybe(Rows) /\ columns \in Gifts
  /\ next \in Stages \ {"idle"} /\ locals \in Holdings
  /\ Open(r, kind, x, columns) /\ Goto(r, next) /\ held' = [held EXCEPT ![r] = locals]
  /\ ended' = ended \/ (ended' = ended \cup {r} /\ next = "done")

LEMMA BeginOpens ==
  ASSUME StorefrontTypeOK, NEW r \in Requests, NEW kind, NEW x, NEW columns, NEW next, NEW locals,
         Starting(r, kind, x, columns, next, locals)
  PROVE  /\ Opens(r) /\ op'[r] = kind /\ on'[r] = x /\ gives'[r] = columns
         /\ pc'[r] = next /\ held'[r] = locals
<1>1. ProgressTyped
  BY TypedProgress
<1>. QED
  BY <1>1 DEF ProgressTyped, Opens, Turn, Starting, Open, Goto

LEMMA SameWork ==
  ASSUME StorefrontTypeOK, NEW r \in Requests, UNCHANGED held
  PROVE  held[r] \in Holdings /\ held' = [held EXCEPT ![r] = held[r]]
  BY DEF StorefrontTypeOK, Holdings

LEMMA SingleOpens ==
  ASSUME StorefrontTypeOK, NEW r \in Requests, NEW kind, NEW x, NEW columns,
         kind \in Calls /\ x \in Maybe(Rows) /\ columns \in Gifts, Single(r, kind, x, columns)
  PROVE  /\ Opens(r) /\ op'[r] = kind /\ on'[r] = x /\ gives'[r] = columns
         /\ pc'[r] = "done" /\ ended' = ended \cup {r} /\ UNCHANGED page
<1>1. held[r] \in Holdings /\ held' = [held EXCEPT ![r] = held[r]]
  BY SameWork DEF Single
<1>2. /\ Open(r, kind, x, columns) /\ Goto(r, "done") /\ UNCHANGED page
      /\ ended' = ended \cup {r}
  BY DEF Single
<1>3. "done" \in Stages \ {"idle"}
  BY DEF Stages
<1>4. Starting(r, kind, x, columns, "done", held[r])
  BY <1>1, <1>2, <1>3 DEF Starting
<1>. QED
  BY <1>2, <1>4, BeginOpens

LEMMA FinishGoes ==
  ASSUME StorefrontTypeOK, ConstantsFit, NEW r \in Requests, NEW ok \in BOOLEAN, pc[r] \notin {"idle", "done"},
         Finish(r, ok)
  PROVE  Goes(r) /\ pc'[r] = "done" /\ ended' = IF ok THEN ended \cup {r} ELSE ended
<1>1. ProgressTyped
  BY TypedProgress
<1>2. NothingHeld \in Holdings
  BY DEF ConstantsFit, NothingHeld, Holdings, Maybe
<1>. QED
  BY <1>1, <1>2 DEF ProgressTyped, Goes, Turn, Finish, Goto, Stages

LEMMA ProceedGoes ==
  ASSUME StorefrontTypeOK, NEW r \in Requests, NEW next \in Stages \ {"idle"}, pc[r] \notin {"idle", "done"},
         GoOn(r, next)
  PROVE  /\ Goes(r) /\ pc'[r] = next /\ held'[r] = held[r] /\ ended' = ended
<1>1. ProgressTyped
  BY TypedProgress
<1>2. /\ pc' = [pc EXCEPT ![r] = next]
      /\ op' = op /\ on' = on /\ held' = held /\ gives' = gives /\ ended' = ended
      /\ before' = before
  BY DEF GoOn, Goto
<1>3. ProgressTyped'
  BY <1>1, <1>2 DEF ProgressTyped
<1>4. pc'[r] = next /\ \A q \in Requests \ {r} : pc'[q] = pc[q]
  BY <1>1, <1>2 DEF ProgressTyped
<1>. QED
  BY <1>2, <1>3, <1>4 DEF Goes, Turn

(***************************************************************************)
(* What a step must do to keep the invariants.                             *)
(***************************************************************************)
RestTyped ==
  /\ row \in [Rows -> {"absent", "present", "hidden", "gone"}]
  /\ text \in [Rows -> Maybe(Requests)] /\ flag \in [Rows -> Maybe(Requests)]
  /\ parts \in [Rows -> SUBSET (Requests \X Positions)]
  /\ marks \subseteq {"liked", "saved"} \X Users \X Rows
  /\ active \in BOOLEAN /\ windows \in Plans \cup {{}} /\ exceptions \subseteq Exceptions
  /\ page \in [Requests -> SUBSET (Rows \X SUBSET (Requests \X Positions))]

\* Rows come once, and what is hidden or gone is so for good.
RowsStep(r) ==
  \A x \in Rows :
    /\ row[x] = "gone" => row'[x] = "gone"
    /\ row[x] = "hidden" => row'[x] \in {"hidden", "gone"}
    /\ row'[x] = "absent" => row[x] = "absent"
    /\ row[x] = "absent" /\ row'[x] # "absent" /\ KindOf[x] \in {"post", "service"} =>
         pc[r] = "idle" /\ on'[r] = x /\ "images" \in gives'[r]
    /\ pc[r] = "idle" /\ on'[r] = x /\ op'[r] = "switch" /\ gives'[r] = {} =>
         row'[x] \in {"hidden", "gone"}

\* Columns take a new value from the request, or the one it read.
ColumnsStep(r) ==
  \A x \in Rows : \A c \in Columns :
    /\ \/ Column(c, x)' = Column(c, x)
       \/ Column(c, x)' = r
       \/ pc[r] = "write" /\ on[r] = x /\ Column(c, x)' = Draft(c, r)
    /\ on'[r] = x /\ c \in gives'[r] /\ Wrote(r)' /\ ~Wrote(r) =>
         row'[x] = "gone" \/ Column(c, x)' = r
    /\ on'[r] = x /\ pc'[r] = "write" =>
         pc[r] = "idle" /\ (Draft(c, r)' = r \/ Draft(c, r)' = Column(c, x)')

\* Images are written one by one by whoever is at it.
PartsStep(r) ==
  \A x \in Rows :
    /\ \/ parts'[x] = parts[x]
       \/ parts'[x] = {} /\ row'[x] # "absent" /\ row'[x] = "gone"
       \/ pc[r] \in {"clear", "add"} /\ on[r] = x /\ row[x] # "absent"
    /\ on'[r] = x /\ "images" \in gives'[r] /\ row'[x] # "gone" =>
         /\ pc'[r] = "add" =>
              \/ pc[r] = "idle" /\ row[x] = "absent" /\ parts'[x] = parts[x] /\ held'[r].left = Parts
              \/ pc[r] = "clear" /\ parts'[x] = {} /\ held'[r].left = Parts
              \/ /\ pc[r] = "add" /\ held[r].left \in 2..Parts /\ held'[r].left = held[r].left - 1
                 /\ parts'[x] = parts[x] \cup {<<r, Parts + 1 - held[r].left>>}
         /\ r \in ended' =>
              /\ pc[r] = "add" /\ held[r].left = 1
              /\ parts'[x] = parts[x] \cup {<<r, Parts + 1 - held[r].left>>}

\* A page shows what is there while it is made, with the images it has.
PageStep(r) ==
  /\ \A q \in Requests \ {r} : page'[q] = page[q]
  /\ \A p \in page'[r] : row[p[1]] = "present" \/ \E o \in page[r] : o[1] = p[1]
  /\ r \in ended' /\ op'[r] \in {"page", "service"} =>
       /\ pc[r] # "idle" /\ UNCHANGED <<row, parts>>
       /\ \A p \in page'[r] : /\ p[2] = parts[p[1]] /\ row[p[1]] # "absent"
                              /\ KindOf[p[1]] \in {"post", "service"}

Shape(r) ==
  /\ Opens(r) \/ Goes(r)
  /\ RestTyped' /\ Underway(r)'
  /\ RowsStep(r) /\ ColumnsStep(r) /\ PartsStep(r) /\ PageStep(r)

(***************************************************************************)
(* Such a step keeps the invariants.                                       *)
(***************************************************************************)

\* What a request that has begun stays; nobody has ended who is under way.
LEMMA RequestStays ==
  ASSUME SfInv, NEW r \in Requests, Shape(r), NEW q \in Requests
  PROVE  /\ Begun(q) => /\ Begun(q)' /\ op'[q] = op[q] /\ on'[q] = on[q]
                        /\ gives'[q] = gives[q] /\ before'[q] = before[q]
         /\ Begun(r)' /\ pc[r] # "done" /\ r \notin ended
         /\ before[q] \subseteq ended /\ r \notin before[q] /\ q \notin before[q]
         /\ before'[q] \subseteq ended /\ r \notin before'[q] /\ q \notin before'[q]
         /\ ended \subseteq ended' /\ ended' \subseteq ended \cup {r}
         /\ q \in ended => Begun(q) /\ pc[q] = "done"
         /\ q # r => pc'[q] = pc[q] /\ held'[q] = held[q] /\ gives'[q] = gives[q]
                     /\ on'[q] = on[q] /\ op'[q] = op[q] /\ before'[q] = before[q]
BY DEF SfInv, Histories, Shape, Opens, Goes, Turn, Begun

LEMMA StillConcurrent ==
  ASSUME SfInv, NEW r \in Requests, Shape(r), NEW v \in Requests, NEW w \in Requests,
         Begun(v), Begun(w)
  PROVE  Together(v, w)' <=> Together(v, w)
BY RequestStays DEF Together, Concurrent

LEMMA StillRaced ==
  ASSUME SfInv, NEW r \in Requests, Shape(r), NEW q \in Requests, Raced(q)
  PROVE  Raced(q)'
<1>1. PICK s \in Requests :
        on[s] = on[q] /\ op[s] \in {"update", "sponsor"} /\ Together(q, s)
  BY DEF Raced
<1>2. Begun(s) /\ Begun(q)
  BY <1>1 DEF Together, Concurrent
<1>3. Together(q, s)'
  BY <1>1, <1>2, StillConcurrent
<1>4. on'[s] = on'[q] /\ op'[s] \in {"update", "sponsor"}
  BY <1>1, <1>2, RequestStays
<1>. QED
  BY <1>3, <1>4 DEF Raced

LEMMA KeepsTypes ==
  ASSUME SfInv, NEW r \in Requests, Shape(r)
  PROVE  StorefrontTypeOK'
BY DEF Shape, Opens, Goes, Turn, ProgressTyped, RestTyped, StorefrontTypeOK, Stages, Calls, Gifts, Holdings

LEMMA KeepsHistories ==
  ASSUME SfInv, NEW r \in Requests, Shape(r)
  PROVE  Histories'
<1>. SUFFICES ASSUME NEW q \in Requests
              PROVE  /\ Underway(q)'
                     /\ q \in ended' => pc'[q] = "done"
                     /\ before'[q] \subseteq ended' /\ q \notin before'[q]
  BY DEF Histories
<1>1. before'[q] \subseteq ended' /\ q \notin before'[q]
  BY RequestStays
<1>2. q \in ended' => pc'[q] = "done"
  BY RequestStays DEF Shape, Opens, Goes, Turn
<1>3. CASE q = r
  BY <1>1, <1>2, <1>3 DEF Shape
<1>4. CASE q # r
  <2>1. /\ pc'[q] = pc[q] /\ op'[q] = op[q] /\ on'[q] = on[q] /\ held'[q] = held[q]
        /\ gives'[q] = gives[q] /\ before'[q] = before[q] /\ page'[q] = page[q]
    BY <1>4, RequestStays DEF Shape, PageStep
  <2>2. \A x \in Rows : row[x] # "absent" => row'[x] # "absent"
    BY DEF Shape, RowsStep
  <2>3. Underway(q)
    BY DEF SfInv, Histories
  <2>4. \A p \in page[q] : p[1] \in Rows
    BY DEF SfInv, StorefrontTypeOK
  <2>5. pc[q] \in {"clear", "add"} => on[q] \in Rows
    BY <2>3 DEF Underway
  <2>6. \A c : Draft(c, q)' = Draft(c, q)
    BY <2>1 DEF Draft
  <2>. QED
    BY <1>1, <1>2, <2>1, <2>2, <2>3, <2>4, <2>5, <2>6 DEF Underway
<1>. QED
  BY <1>3, <1>4

LEMMA KeepsColumns ==
  ASSUME SfInv, NEW r \in Requests, Shape(r)
  PROVE  ColumnsKept'
<1>. SUFFICES ASSUME NEW q \in Requests, NEW c \in gives'[q] \cap Columns, Wrote(q)',
                     row'[on'[q]] # "gone"
              PROVE  /\ Column(c, on[q])' \in before'[q] => Raced(q)'
                     /\ \A s \in Requests :
                          pc'[s] = "write" /\ on'[s] = on'[q] /\ Draft(c, s)' \in before'[q]
                            => Raced(q)'
  BY DEF ColumnsKept, Column, Draft, Columns
<1>0. Histories' /\ StorefrontTypeOK
  BY KeepsHistories DEF SfInv
<1>1. PICK x \in Rows : x = on'[q]
  BY <1>0 DEF Histories, Underway
<1>2. Column(c, on[q])' = Column(c, x)'
  BY <1>1 DEF Column
<1>3. c \in Columns
  OBVIOUS
<1>4. CASE Wrote(q)
  <2>1. Begun(q) /\ pc[q] # "write"
    BY <1>4, RequestStays DEF Wrote, Begun
  <2>2. on[q] = x /\ before'[q] = before[q] /\ c \in gives[q] \cap Columns
    BY <2>1, <1>1, RequestStays
  <2>3. row[x] # "gone"
    BY <1>1 DEF Shape, RowsStep
  <2>4. /\ Column(c, x) \in before[q] => Raced(q)
        /\ \A s \in Requests :
             pc[s] = "write" /\ on[s] = x /\ Draft(c, s) \in before[q] => Raced(q)
    BY <1>4, <2>2, <2>3 DEF SfInv, ColumnsKept
  <2>5. r \notin before[q]
    BY RequestStays
  <2>6. Column(c, x)' \in before[q] => Raced(q)
    BY <1>3, <2>4, <2>5 DEF Shape, ColumnsStep
  <2>7. ASSUME NEW s \in Requests, pc'[s] = "write", on'[s] = x, Draft(c, s)' \in before[q]
        PROVE  Raced(q)
    <3>1. CASE s = r
      BY <1>3, <2>5, <2>6, <2>7, <3>1 DEF Shape, ColumnsStep
    <3>2. CASE s # r
      <4>1. Draft(c, s)' = Draft(c, s) /\ pc[s] = "write" /\ on[s] = x
        BY <2>7, <3>2, RequestStays DEF Draft
      <4>. QED
        BY <4>1, <2>4, <2>7
    <3>. QED
      BY <3>1, <3>2
  <2>8. Raced(q) => Raced(q)'
    BY StillRaced
  <2>. QED
    BY <1>1, <1>2, <2>2, <2>6, <2>7, <2>8
<1>5. CASE ~Wrote(q)
  <2>1. q = r
    BY <1>5, RequestStays DEF Wrote
  <2>2. Column(c, x)' = r
    BY <1>1, <1>3, <1>5, <2>1 DEF Shape, ColumnsStep
  <2>3. r \notin before'[q]
    BY RequestStays
  <2>4. ASSUME NEW s \in Requests, pc'[s] = "write", on'[s] = on'[q]
        PROVE  Raced(q)'
    <3>1. pc'[r] # "write"
      BY <1>0, <2>1 DEF Wrote, Histories
    <3>2. s # r
      BY <2>4, <3>1
    <3>3. pc[s] = "write"
      BY <2>4, <3>2, RequestStays
    <3>4. Begun(s)' /\ Begun(r)' /\ op'[s] \in {"update", "sponsor"}
      BY <1>0, <2>4, RequestStays DEF Begun, Histories, Underway
    <3>5. s \notin before'[r] /\ r \notin before'[s]
      BY <3>3, RequestStays
    <3>6. Together(r, s)'
      BY <3>2, <3>4, <3>5 DEF Together, Concurrent
    <3>. QED
      BY <2>1, <2>4, <3>4, <3>6 DEF Raced
  <2>. QED
    BY <1>2, <2>2, <2>3, <2>4
<1>. QED
  BY <1>4, <1>5

\* Those who wrote images stay, and only the request at hand may join them.
LEMMA WritersStay ==
  ASSUME SfInv, NEW r \in Requests, Shape(r), NEW x
  PROVE  /\ \A w \in Requests \ {r} : w \in ImageWriters(x)' <=> w \in ImageWriters(x)
         /\ r \in ImageWriters(x) => r \in ImageWriters(x)'
         /\ r \in ImageWriters(x)' /\ r \notin ImageWriters(x) => pc[r] = "idle"
         /\ ImageWriters(x) \subseteq Requests /\ ImageWriters(x)' \subseteq Requests
<1>1. \A w \in Requests \ {r} : Begun(w)' <=> Begun(w)
  BY RequestStays DEF Begun
<1>2. \A w \in Requests \ {r} : gives'[w] = gives[w] /\ on'[w] = on[w]
  BY RequestStays
<1>3. pc[r] # "idle" => Begun(r) /\ gives'[r] = gives[r] /\ on'[r] = on[r]
  BY RequestStays DEF Begun
<1>. QED
  BY <1>1, <1>2, <1>3, RequestStays DEF ImageWriters, Begun

LEMMA KeepsParts ==
  ASSUME SfInv, NEW r \in Requests, Shape(r)
  PROVE  PartsKept'
<1>0. Histories' /\ StorefrontTypeOK /\ StorefrontTypeOK' /\ PartsKept /\ Histories
  BY KeepsHistories, KeepsTypes DEF SfInv
<1>1. ASSUME NEW x \in Rows, row'[x] = "absent" PROVE parts'[x] = {}
  <2>1. row[x] = "absent"
    BY <1>1 DEF Shape, RowsStep
  <2>2. parts'[x] = parts[x]
    BY <1>1, <2>1 DEF Shape, PartsStep
  <2>. QED
    BY <1>0, <2>1, <2>2 DEF PartsKept
<1>2. ASSUME NEW x \in Rows, row'[x] # "absent", KindOf[x] \in {"post", "service"}
      PROVE  ImageWriters(x)' # {}
  <2>1. CASE row[x] # "absent"
    <3>1. PICK w \in Requests : w \in ImageWriters(x)
      BY <1>0, <1>2, <2>1 DEF PartsKept, ImageWriters
    <3>. QED
      BY <3>1, WritersStay
  <2>2. CASE row[x] = "absent"
    <3>1. on'[r] = x /\ "images" \in gives'[r] /\ Begun(r)'
      BY <1>2, <2>2, RequestStays DEF Shape, RowsStep
    <3>. QED
      BY <3>1 DEF ImageWriters
  <2>. QED
    BY <2>1, <2>2
<1>3. ASSUME NEW w \in Requests, "images" \in gives'[w], row'[on'[w]] # "gone", Solo(w)'
      PROVE  /\ pc'[w] = "add" => parts'[on'[w]] = {w} \X (1 .. Parts - held'[w].left)
             /\ w \in ended' => parts'[on'[w]] = {w} \X Positions
  <2>1. PICK x \in Rows : x = on'[w]
    BY <1>0, <1>3 DEF Histories, Underway
  <2>2. \A v \in ImageWriters(x)' \ {w} : v \in before'[w]
    BY <1>3, <2>1 DEF Solo, ImageWriters, Begun
  <2>3. row[x] # "gone"
    BY <1>3, <2>1 DEF Shape, RowsStep
  <2>4. ASSUME "images" \in gives[w], on[w] = x, before'[w] = before[w]
        PROVE  /\ pc[w] = "add" => parts[x] = {w} \X (1 .. Parts - held[w].left)
               /\ w \in ended => parts[x] = {w} \X Positions
    <3>1. \A v \in ImageWriters(x) : v \in ImageWriters(x)'
      BY WritersStay
    <3>2. Solo(w)
      BY <2>2, <2>4, <3>1 DEF Solo
    <3>. QED
      BY <1>0, <2>3, <2>4, <3>2 DEF PartsKept
  <2>5. CASE w # r
    <3>1. /\ pc'[w] = pc[w] /\ held'[w] = held[w] /\ gives'[w] = gives[w] /\ on'[w] = on[w]
          /\ before'[w] = before[w] /\ (w \in ended' => w \in ended)
      BY <2>5, RequestStays
    <3>2. CASE parts'[x] = parts[x]
      BY <1>3, <2>1, <2>4, <3>1, <3>2
    <3>3. CASE pc[r] \in {"clear", "add"} /\ on[r] = x
      <4>1. r \in ImageWriters(x)
        BY <1>0, <3>3 DEF Histories, Underway, ImageWriters, Begun
      <4>2. r \in before[w]
        BY <2>2, <2>5, <3>1, <4>1, WritersStay
      <4>. QED
        BY <4>2, RequestStays
    <3>. QED
      BY <1>3, <2>1, <3>2, <3>3 DEF Shape, PartsStep
  <2>6. CASE w = r
    <3>1. /\ pc'[r] = "add" =>
               \/ pc[r] = "idle" /\ row[x] = "absent" /\ parts'[x] = parts[x] /\ held'[r].left = Parts
               \/ pc[r] = "clear" /\ parts'[x] = {} /\ held'[r].left = Parts
               \/ /\ pc[r] = "add" /\ held[r].left \in 2..Parts /\ held'[r].left = held[r].left - 1
                  /\ parts'[x] = parts[x] \cup {<<r, Parts + 1 - held[r].left>>}
          /\ r \in ended' =>
               /\ pc[r] = "add" /\ held[r].left = 1
               /\ parts'[x] = parts[x] \cup {<<r, Parts + 1 - held[r].left>>}
      BY <1>3, <2>1, <2>6 DEF Shape, PartsStep
    <3>2. pc[r] = "add" => parts[x] = {r} \X (1 .. Parts - held[r].left)
      <4>1. CASE pc[r] = "add"
        <5>1. Begun(r)
          BY <4>1 DEF Begun
        <5>2. gives'[r] = gives[r] /\ on'[r] = on[r] /\ before'[r] = before[r]
          BY <5>1, RequestStays
        <5>. QED
          BY <1>3, <2>1, <2>4, <2>6, <5>2
      <4>. QED
        BY <4>1
    <3>3. Parts \in Nat
      BY DEF SfInv, ConstantsFit
    <3>4. ASSUME parts'[x] = {}, held'[r].left = Parts
          PROVE  parts'[x] = {r} \X (1 .. Parts - held'[r].left)
      BY <3>3, <3>4
    <3>5. ASSUME pc[r] = "add", parts'[x] = parts[x] \cup {<<r, Parts + 1 - held[r].left>>},
                 NEW l \in 1..Parts, held[r].left = l
          PROVE  parts'[x] = {r} \X (1 .. Parts - (l - 1))
      <4>1. 1 .. Parts - (l - 1) = (1 .. Parts - l) \cup {Parts + 1 - l}
        BY <3>3
      <4>. QED
        BY <3>2, <3>5, <4>1
    <3>6. ASSUME pc'[r] = "add"
          PROVE  parts'[x] = {r} \X (1 .. Parts - held'[r].left)
      <4>1. CASE pc[r] = "idle" /\ row[x] = "absent" /\ parts'[x] = parts[x] /\ held'[r].left = Parts
        BY <1>0, <3>4, <4>1 DEF PartsKept
      <4>2. CASE pc[r] = "clear" /\ parts'[x] = {} /\ held'[r].left = Parts
        BY <3>4, <4>2
      <4>3. CASE /\ pc[r] = "add" /\ held[r].left \in 2..Parts /\ held'[r].left = held[r].left - 1
                 /\ parts'[x] = parts[x] \cup {<<r, Parts + 1 - held[r].left>>}
        <5>1. held[r].left \in 1..Parts
          BY <3>3, <4>3
        <5>. QED
          BY <3>5, <4>3, <5>1
      <4>. QED
        BY <3>1, <3>6, <4>1, <4>2, <4>3
    <3>7. ASSUME r \in ended' PROVE parts'[x] = {r} \X Positions
      <4>1. 1 \in 1..Parts /\ Parts - (1 - 1) = Parts
        BY <3>3 DEF SfInv, ConstantsFit
      <4>2. parts'[x] = {r} \X (1 .. Parts - (1 - 1))
        BY <3>1, <3>5, <3>7, <4>1
      <4>. QED
        BY <4>1, <4>2 DEF Positions
    <3>. QED
      BY <2>1, <2>6, <3>6, <3>7
  <2>. QED
    BY <2>5, <2>6
<1>. QED
  BY <1>1, <1>2, <1>3 DEF PartsKept

LEMMA KeepsLast ==
  ASSUME SfInv, NEW r \in Requests, Shape(r)
  PROVE  LastOne'
<1>. SUFFICES ASSUME NEW x \in Rows, ImageWriters(x)' # {}, ImageWriters(x)' \subseteq ended',
                     \A v, w \in ImageWriters(x)' : ~Together(v, w)'
              PROVE  \E last \in ImageWriters(x)' :
                       \A w \in ImageWriters(x)' \ {last} : w \in before'[last]
  BY DEF LastOne, ImageWriters, Together, Concurrent, Begun
<1>. DEFINE W == ImageWriters(x)
            V == ImageWriters(x)'
<1>0. V \subseteq Requests /\ W \subseteq Requests
  BY WritersStay
<1>1. CASE r \in V
  <2>1. ASSUME NEW w \in V \ {r} PROVE w \in before'[r]
    <3>1. Begun(w)' /\ Begun(r)'
      BY <1>1, <2>1 DEF ImageWriters, Begun
    <3>2. ~Together(r, w)'
      BY <1>1, <2>1
    <3>3. r \notin before'[w]
      BY <1>0, <2>1, RequestStays
    <3>. QED
      BY <2>1, <3>1, <3>2, <3>3 DEF Together, Concurrent
  <2>. QED
    BY <1>1, <2>1
<1>2. CASE r \notin V
  <2>1. V = W
    BY <1>0, <1>2, WritersStay
  <2>2. W \subseteq ended
    BY <1>2, <2>1, RequestStays
  <2>3. \A w \in W : Begun(w) /\ before'[w] = before[w]
    BY RequestStays DEF ImageWriters
  <2>4. \A v, w \in W : ~Together(v, w)
    BY <1>0, <2>1, <2>3, StillConcurrent
  <2>5. PICK last \in W : \A w \in W \ {last} : w \in before[last]
    BY <2>1, <2>2, <2>4 DEF SfInv, LastOne
  <2>. QED
    BY <2>1, <2>3, <2>5
<1>. QED
  BY <1>1, <1>2

LEMMA KeepsDeleted ==
  ASSUME SfInv, NEW r \in Requests, Shape(r)
  PROVE  DeletedStays' /\ DeletedUnseen'
<1>1. ASSUME NEW s \in ended', NEW x \in Rows, Deletes(s, x)'
      PROVE  row'[x] \in {"hidden", "gone"}
  <2>0. s \in Requests
    BY KeepsTypes, <1>1 DEF StorefrontTypeOK
  <2>1. CASE s \in ended
    <3>1. Begun(s)
      BY <2>0, <2>1, RequestStays
    <3>2. Deletes(s, x)
      BY <1>1, <2>0, <3>1, RequestStays DEF Deletes
    <3>3. row[x] \in {"hidden", "gone"}
      BY <2>1, <3>2 DEF SfInv, DeletedStays
    <3>. QED
      BY <3>3 DEF Shape, RowsStep
  <2>2. CASE s \notin ended
    <3>1. s = r
      BY <1>1, <2>2, RequestStays
    <3>2. CASE pc[r] = "idle"
      BY <1>1, <3>1, <3>2 DEF Deletes, Shape, RowsStep
    <3>3. CASE pc[r] # "idle"
      <4>1. op[r] = "switch"
        BY <1>1, <3>1, <3>3, RequestStays DEF Deletes, Begun
      <4>2. Underway(r) /\ pc[r] \in Stages \ {"idle", "done"}
        BY <3>3, RequestStays DEF SfInv, Histories, StorefrontTypeOK, Stages
      <4>. QED
        BY <4>1, <4>2 DEF Underway, Stages
    <3>. QED
      BY <3>2, <3>3
  <2>. QED
    BY <2>1, <2>2
<1>2. ASSUME NEW q \in Requests, NEW p \in page'[q], NEW s \in before'[q], Deletes(s, p[1])'
      PROVE  FALSE
  <2>0. s \in Requests /\ s \in ended /\ p[1] \in Rows
    <3>1. StorefrontTypeOK'
      BY KeepsTypes
    <3>2. before'[q] \subseteq ended
      BY RequestStays
    <3>. QED
      BY <1>2, <3>1, <3>2 DEF SfInv, StorefrontTypeOK
  <2>1. Deletes(s, p[1])
    BY <1>2, <2>0, RequestStays DEF Deletes
  <2>2. row[p[1]] \in {"hidden", "gone"}
    BY <2>0, <2>1 DEF SfInv, DeletedStays
  <2>3. \E o \in page[q] : o[1] = p[1]
    BY <1>2, <2>2 DEF Shape, PageStep
  <2>4. pc[q] # "idle"
    BY <2>3 DEF SfInv, Histories, Underway
  <2>5. before'[q] = before[q]
    BY <2>4, RequestStays DEF Begun
  <2>. QED
    BY <1>2, <2>1, <2>3, <2>5 DEF SfInv, DeletedUnseen
<1>. QED
  BY <1>1, <1>2 DEF DeletedStays, DeletedUnseen, Deletes

\* What a page that shows a row must show of it, with the writers that had not
\* begun when it was read left out.
WritersSeen(r, x) == ImageWriters(x) \ {w \in Requests : r \in before[w]}
Whole(r, p) ==
  /\ row[p[1]] # "gone" /\ WritersSeen(r, p[1]) \subseteq before[r]
  /\ \A v, w \in WritersSeen(r, p[1]) : ~Together(v, w)
  => \E last \in WritersSeen(r, p[1]) :
       /\ \A w \in WritersSeen(r, p[1]) \ {last} : w \in before[last]
       /\ p[2] = {last} \X Positions

LEMMA PagesWhole ==
  PagesAreWhole <=>
    \A r \in ended : \A p \in page[r] :
      /\ \A s \in before[r] : ~Deletes(s, p[1])
      /\ op[r] \in {"page", "service"} => Whole(r, p)
BY DEF PagesAreWhole, Whole, WritersSeen

\* The page that is read now is whole.
LEMMA ReadsWhole ==
  ASSUME SfInv, NEW r \in Requests, Shape(r), r \in ended', op'[r] \in {"page", "service"},
         NEW p \in page'[r]
  PROVE  Whole(r, p)'
<1>. DEFINE x == p[1]
            W == ImageWriters(x)
            V == WritersSeen(r, x)'
<1>1. /\ pc[r] # "idle" /\ UNCHANGED <<row, parts>> /\ p[2] = parts[x] /\ row[x] # "absent"
      /\ KindOf[x] \in {"post", "service"}
  BY DEF Shape, PageStep
<1>2. x \in Rows
  BY KeepsTypes DEF StorefrontTypeOK
<1>3. W \subseteq Requests /\ ImageWriters(x)' = W
  BY <1>1, WritersStay
<1>4. V = W
  <2>1. \A w \in Requests : r \notin before'[w]
    BY RequestStays
  <2>. QED
    BY <1>3, <2>1 DEF WritersSeen
<1>5. SUFFICES ASSUME row'[x] # "gone", V \subseteq before'[r],
                      \A v, w \in V : ~Together(v, w)'
               PROVE  \E last \in V :
                        /\ \A w \in V \ {last} : w \in before'[last]
                        /\ p[2] = {last} \X Positions
  BY DEF Whole, WritersSeen, ImageWriters, Together, Concurrent, Begun
<1>6. W # {}
  BY <1>1, <1>2 DEF SfInv, PartsKept
<1>7. W \subseteq ended /\ \A w \in W : Begun(w) /\ before'[w] = before[w]
  BY <1>3, <1>4, <1>5, RequestStays DEF ImageWriters
<1>8. \A v, w \in W : ~Together(v, w)
  BY <1>3, <1>4, <1>5, <1>7, StillConcurrent
<1>9. PICK last \in W : \A w \in W \ {last} : w \in before[last]
  BY <1>2, <1>6, <1>7, <1>8 DEF SfInv, LastOne
<1>10. on[last] = x /\ "images" \in gives[last]
  BY DEF ImageWriters
<1>11. Solo(last)
  BY <1>9, <1>10 DEF Solo
<1>12. row[on[last]] # "gone"
  BY <1>1, <1>5, <1>10
<1>13. parts[x] = {last} \X Positions
  BY <1>3, <1>7, <1>10, <1>11, <1>12 DEF SfInv, PartsKept
<1>. QED
  BY <1>1, <1>4, <1>7, <1>9, <1>13

LEMMA KeepsPages ==
  ASSUME SfInv, NEW r \in Requests, Shape(r)
  PROVE  PagesAreWhole'
<1>1. ASSUME NEW q \in ended', NEW p \in page'[q]
      PROVE  \A s \in before'[q] : ~Deletes(s, p[1])'
  BY <1>1, KeepsDeleted, KeepsTypes DEF DeletedUnseen, StorefrontTypeOK, Deletes
<1>2. ASSUME NEW q \in ended', NEW p \in page'[q], op'[q] \in {"page", "service"}
      PROVE  Whole(q, p)'
  <2>0. q \in Requests
    BY KeepsTypes DEF StorefrontTypeOK
  <2>1. CASE q \in ended
    <3>. DEFINE x == p[1]
                V == WritersSeen(q, x)
                U == WritersSeen(q, x)'
    <3>1. q # r /\ Begun(q) /\ before'[q] = before[q] /\ op'[q] = op[q]
      BY <2>0, <2>1, RequestStays
    <3>2. page'[q] = page[q]
      BY <2>0, <3>1 DEF Shape, PageStep
    <3>3. x \in Rows
      BY <1>2, KeepsTypes, <2>0 DEF StorefrontTypeOK
    <3>4. V \subseteq Requests /\ \A w \in V : Begun(w) /\ before'[w] = before[w]
      BY RequestStays DEF WritersSeen, ImageWriters
    <3>5. U = V
      <4>1. \A w \in Requests \ {r} : w \in U <=> w \in V
        BY WritersStay, RequestStays DEF WritersSeen
      <4>2. CASE pc[r] = "idle"
        <5>1. q \in before'[r]
          BY <2>1, <4>2 DEF Shape, Opens, Goes
        <5>2. ~Begun(r)
          BY <4>2 DEF Begun
        <5>. QED
          BY <4>1, <5>1, <5>2, WritersStay DEF WritersSeen, ImageWriters
      <4>3. CASE pc[r] # "idle"
        <5>1. before'[r] = before[r]
          BY <4>3, RequestStays DEF Begun
        <5>2. r \in U <=> r \in V
          BY <4>3, <5>1, WritersStay DEF WritersSeen
        <5>. QED
          BY <4>1, <5>2, WritersStay DEF WritersSeen
      <4>. QED
        BY <4>2, <4>3
    <3>6. row'[x] # "gone" => row[x] # "gone"
      BY <3>3 DEF Shape, RowsStep
    <3>7. \A v, w \in V : Together(v, w)' <=> Together(v, w)
      BY <3>4, StillConcurrent
    <3>8. Whole(q, p)
      BY <1>2, <2>1, <3>1, <3>2, PagesWhole DEF SfInv
    <3>9. SUFFICES ASSUME row'[x] # "gone", U \subseteq before'[q],
                          \A v, w \in U : ~Together(v, w)'
                   PROVE  \E last \in U :
                            /\ \A w \in U \ {last} : w \in before'[last]
                            /\ p[2] = {last} \X Positions
      BY DEF Whole, WritersSeen, ImageWriters, Together, Concurrent, Begun
    <3>10. \E last \in V :
             /\ \A w \in V \ {last} : w \in before[last]
             /\ p[2] = {last} \X Positions
      BY <3>1, <3>5, <3>6, <3>7, <3>8, <3>9 DEF Whole
    <3>. QED
      BY <3>4, <3>5, <3>10
  <2>2. CASE q \notin ended
    <3>1. q = r
      BY <2>2, RequestStays
    <3>. QED
      BY <1>2, <3>1, ReadsWhole
  <2>. QED
    BY <2>1, <2>2
<1>. QED
  BY <1>1, <1>2 DEF PagesAreWhole, Whole, WritersSeen, ImageWriters, Deletes, Together, Concurrent, Begun

LEMMA ShapeKeeps ==
  ASSUME SfInv, NEW r \in Requests, Shape(r)
  PROVE  SfInv'
BY KeepsTypes, KeepsHistories, KeepsColumns, KeepsParts, KeepsLast, KeepsDeleted, KeepsPages
   DEF SfInv, ConstantsFit

LEMMA StorefrontStarts == ConstantsFit /\ StorefrontInit => SfInv
<1>. SUFFICES ASSUME ConstantsFit, StorefrontInit PROVE SfInv
  OBVIOUS
<1>1. StorefrontTypeOK
  BY DEF ConstantsFit, StorefrontInit, StorefrontTypeOK, Maybe, NothingHeld, Positions
<1>2. \A r \in Requests : pc[r] = "idle" /\ gives[r] = {} /\ before[r] = {} /\ page[r] = {}
  BY DEF StorefrontInit
<1>3. Histories
  BY <1>2 DEF StorefrontInit, Histories, Underway
<1>4. \A x : ImageWriters(x) = {}
  BY <1>2 DEF ImageWriters
<1>5. ColumnsKept /\ PartsKept /\ LastOne /\ DeletedStays /\ DeletedUnseen /\ PagesAreWhole
  BY <1>2, <1>4
     DEF StorefrontInit, ColumnsKept, PartsKept, LastOne, DeletedStays, DeletedUnseen, PagesAreWhole
<1>. QED
  BY <1>1, <1>3, <1>5 DEF SfInv

(***************************************************************************)
(* Every step is such a step.                                              *)
(***************************************************************************)
LEMMA PageQuiet ==
  ASSUME SfInv, NEW r \in Requests, UNCHANGED page,
         ~(r \in ended' /\ op'[r] \in {"page", "service"})
  PROVE  PageStep(r)
BY DEF PageStep

\* A step that leaves all rows alone.
LEMMA QuietShape ==
  ASSUME SfInv, NEW r \in Requests, Opens(r) \/ Goes(r), RestTyped', Underway(r)', PageStep(r),
         UNCHANGED rows,
         pc[r] = "idle" /\ op'[r] = "switch" => gives'[r] # {} \/ on'[r] = None,
         Wrote(r)' /\ ~Wrote(r) => gives'[r] \cap Columns = {},
         pc'[r] = "write" =>
           pc[r] = "idle" /\ \A x \in Rows : \A c \in Columns :
             on'[r] = x => Draft(c, r)' = r \/ Draft(c, r)' = Column(c, x),
         "images" \in gives'[r] => pc'[r] # "add" /\ r \notin ended'
  PROVE  Shape(r)
<1>1. row' = row /\ text' = text /\ flag' = flag /\ parts' = parts
  BY DEF rows
<1>2. \A c \in Columns : \A x \in Rows : Column(c, x)' = Column(c, x)
  BY <1>1 DEF Column
<1>3. RowsStep(r)
  BY <1>1 DEF RowsStep, SfInv, ConstantsFit
<1>4. ColumnsStep(r)
  BY <1>2 DEF ColumnsStep
<1>5. PartsStep(r)
  BY <1>1 DEF PartsStep
<1>. QED
  BY <1>3, <1>4, <1>5 DEF Shape

LEMMA RestStays ==
  ASSUME SfInv, UNCHANGED <<rows, marks, active, hours, page>>
  PROVE  RestTyped'
BY DEF SfInv, StorefrontTypeOK, RestTyped, rows, hours

\* The first step of an update.
LEMMA UpdateShape ==
  ASSUME SfInv, NEW r \in Requests, NEW kind \in {"update", "sponsor"}, NEW x \in Rows,
         NEW columns \in Gifts, NEW locals \in Holdings, BeginRead(r, kind, x, columns, "write", locals),
         locals.text = r \/ (locals.text = text[x] /\ "text" \notin columns),
         locals.flag = r \/ (locals.flag = flag[x] /\ "flag" \notin columns),
         KindOf[x] \in {"service", "category"} => "flag" \notin columns,
         "images" \in columns <=> locals.left # 0,
         locals.left # 0 => locals.left = Parts /\ KindOf[x] = "post"
  PROVE  Shape(r)
<1>0. StorefrontTypeOK /\ kind \in Calls /\ x \in Maybe(Rows) /\ "write" \in Stages \ {"idle"}
  BY DEF SfInv, Calls, Maybe, Stages
<1>1. /\ Opens(r) /\ op'[r] = kind /\ on'[r] = x /\ gives'[r] = columns
      /\ pc'[r] = "write" /\ held'[r] = locals
  <2>1. Starting(r, kind, x, columns, "write", locals)
    BY <1>0 DEF BeginRead, Starting
  <2>. QED
    BY <1>0, <2>1, BeginOpens
<1>2. UNCHANGED <<rows, marks, active, hours, page, ended>> /\ pc[r] = "idle"
  BY DEF BeginRead, Open
<1>3. RestTyped' /\ r \notin ended'
  BY <1>2, RestStays DEF SfInv, Histories
<1>4. PageStep(r)
  BY <1>2, <1>3, PageQuiet
<1>5. \A c \in Columns : Draft(c, r)' = IF c = "text" THEN locals.text ELSE locals.flag
  BY <1>1 DEF Draft
<1>6. Underway(r)'
  BY <1>1, <1>5 DEF Underway, Columns
<1>7. \A c \in Columns : Draft(c, r)' = r \/ Draft(c, r)' = Column(c, x)
  BY <1>5 DEF Column, Columns
<1>8. ~Wrote(r)'
  BY <1>1, <1>3 DEF Wrote
<1>. QED
  BY <1>1, <1>2, <1>3, <1>4, <1>6, <1>7, <1>8, QuietShape

LEMMA MergeLocals ==
  ASSUME SfInv, NEW r \in Requests, NEW x \in Rows, NEW columns \in Gifts
  PROVE  /\ Merge(r, x, columns) \in Holdings /\ Merge(r, x, columns).left = 0
         /\ Merge(r, x, columns).text = IF "text" \in columns THEN r ELSE text[x]
         /\ Merge(r, x, columns).flag = IF "flag" \in columns THEN r ELSE flag[x]
<1>1. /\ text[x] \in Maybe(Requests) /\ flag[x] \in Maybe(Requests) /\ r \in Maybe(Requests)
      /\ 0 \in 0..Parts
  BY DEF SfInv, StorefrontTypeOK, Maybe, ConstantsFit
<1>2. Merge(r, x, columns) = [text |-> IF "text" \in columns THEN r ELSE text[x],
                              flag |-> IF "flag" \in columns THEN r ELSE flag[x], left |-> 0]
  <2>1. ASSUME NEW t, NEW f
        PROVE  [NothingHeld EXCEPT !.text = t, !.flag = f] = [text |-> t, flag |-> f, left |-> 0]
    <3>1. [[text |-> None, flag |-> None, left |-> 0] EXCEPT !.text = t]
             = [text |-> t, flag |-> None, left |-> 0]
      OBVIOUS
    <3>2. [[text |-> t, flag |-> None, left |-> 0] EXCEPT !.flag = f]
             = [text |-> t, flag |-> f, left |-> 0]
      OBVIOUS
    <3>. QED
      BY <3>1, <3>2 DEF NothingHeld
  <2>. QED
    BY <2>1 DEF Merge
<1>. QED
  BY <1>1, <1>2 DEF Holdings

LEMMA UpdateSteps ==
  ASSUME SfInv, NEW r \in Requests, NEW x \in Rows,
         \/ \E images \in {{}, {"images"}} : UpdatePost(r, x, images)
         \/ \E columns \in SUBSET {"text", "flag"} :
              \/ UpdateDeal(r, x, columns) \/ UpdateService(r, x, columns)
              \/ UpdateItem(r, x, columns) \/ UpdateProfile(r, x, columns)
              \/ UpdateCategory(r, x, columns)
         \/ SetSponsored(r, x)
  PROVE  Shape(r)
<1>0. Parts \in Nat \ {0}
  BY DEF SfInv, ConstantsFit
<1>1. ASSUME NEW images \in {{}, {"images"}}, UpdatePost(r, x, images) PROVE Shape(r)
  <2>. DEFINE l == [text |-> r, flag |-> r, left |-> IF images = {} THEN 0 ELSE Parts]
              g == {"text", "flag"} \cup images
  <2>1. l \in Holdings /\ g \in Gifts
    BY <1>0 DEF Holdings, Maybe, Gifts
  <2>2. /\ BeginRead(r, "update", x, g, "write", l) /\ KindOf[x] = "post"
    BY <1>1 DEF UpdatePost, Present
  <2>3. l.text = r /\ l.flag = r /\ ("images" \in g <=> l.left # 0) /\ (l.left # 0 => l.left = Parts)
    BY <1>0
  <2>. HIDE DEF l, g
  <2>. QED
    BY <2>1, <2>2, <2>3, UpdateShape
<1>2. ASSUME NEW g \in SUBSET {"text", "flag"}, NEW h \in SUBSET {"text", "flag"},
             NEW kind \in {"update", "sponsor"},
             BeginRead(r, kind, x, g, "write", Merge(r, x, h)), g \subseteq h,
             KindOf[x] \in {"service", "category"} => "flag" \notin g
      PROVE  Shape(r)
  <2>1. g \in Gifts /\ h \in Gifts
    BY DEF Gifts
  <2>2. "images" \notin g
    OBVIOUS
  <2>. DEFINE l == Merge(r, x, h)
  <2>3. /\ l \in Holdings /\ l.left = 0
        /\ l.text = r \/ (l.text = text[x] /\ "text" \notin g)
        /\ l.flag = r \/ (l.flag = flag[x] /\ "flag" \notin g)
    BY <1>2, <2>1, MergeLocals
  <2>4. BeginRead(r, kind, x, g, "write", l)
    BY <1>2
  <2>. HIDE DEF l
  <2>. QED
    BY <1>2, <2>1, <2>2, <2>3, <2>4, UpdateShape
<1>3. ASSUME NEW columns \in SUBSET {"text", "flag"}, UpdateDeal(r, x, columns) PROVE Shape(r)
  <2>1. BeginRead(r, "update", x, columns, "write", Merge(r, x, columns)) /\ KindOf[x] = "deal"
    BY <1>3 DEF UpdateDeal, Present
  <2>. QED
    BY <1>2, <2>1
<1>4. ASSUME NEW columns \in SUBSET {"text", "flag"}, UpdateService(r, x, columns) PROVE Shape(r)
  <2>1. BeginRead(r, "update", x, columns \cap {"text"}, "write", Merge(r, x, columns))
    BY <1>4 DEF UpdateService
  <2>2. columns \cap {"text"} \in SUBSET {"text", "flag"} /\ columns \cap {"text"} \subseteq columns
        /\ "flag" \notin columns \cap {"text"}
    OBVIOUS
  <2>. QED
    BY <1>2, <2>1, <2>2
<1>5. ASSUME NEW columns \in SUBSET {"text", "flag"}, UpdateItem(r, x, columns) PROVE Shape(r)
  <2>1. /\ BeginRead(r, "update", x, columns \cup {"flag"}, "write", Merge(r, x, columns \cup {"flag"}))
        /\ KindOf[x] = "item"
    BY <1>5 DEF UpdateItem, Present
  <2>2. columns \cup {"flag"} \in SUBSET {"text", "flag"}
    OBVIOUS
  <2>. QED
    BY <1>2, <2>1, <2>2
<1>6. ASSUME NEW columns \in SUBSET {"text", "flag"}, UpdateProfile(r, x, columns) PROVE Shape(r)
  <2>1. /\ BeginRead(r, "update", x, columns \cup {"flag"}, "write", Merge(r, x, columns \cup {"flag"}))
        /\ KindOf[x] = "profile"
    BY <1>6 DEF UpdateProfile, Present
  <2>2. columns \cup {"flag"} \in SUBSET {"text", "flag"}
    OBVIOUS
  <2>. QED
    BY <1>2, <2>1, <2>2
<1>7. ASSUME NEW columns \in SUBSET {"text", "flag"}, UpdateCategory(r, x, columns) PROVE Shape(r)
  <2>1. BeginRead(r, "update", x, columns \cap {"text"}, "write", Merge(r, x, columns))
    BY <1>7 DEF UpdateCategory
  <2>2. columns \cap {"text"} \in SUBSET {"text", "flag"} /\ columns \cap {"text"} \subseteq columns
        /\ "flag" \notin columns \cap {"text"}
    OBVIOUS
  <2>. QED
    BY <1>2, <2>1, <2>2
<1>8. CASE SetSponsored(r, x)
  <2>1. BeginRead(r, "sponsor", x, {"flag"}, "write", Merge(r, x, {"flag"})) /\ KindOf[x] = "post"
    BY <1>8 DEF SetSponsored, Present
  <2>2. {"flag"} \in SUBSET {"text", "flag"}
    OBVIOUS
  <2>. QED
    BY <1>2, <2>1, <2>2
<1>. QED
  BY <1>1, <1>3, <1>4, <1>5, <1>6, <1>7, <1>8

\* A request that has found what it needs and writes later.
LEMMA FindSteps ==
  ASSUME SfInv, NEW r \in Requests, NEW x \in Rows, CreateProfile(r, x) \/ Like(r, x)
  PROVE  Shape(r)
<1>1. ASSUME NEW kind \in {"create", "like"}, NEW columns \in Gifts,
             NEW next \in {"insert", "mark"}, BeginRead(r, kind, x, columns, next, NothingHeld),
             "images" \notin columns, next = "mark" => columns = {} /\ kind = "like",
             next = "insert" => KindOf[x] = "profile" /\ kind = "create"
      PROVE  Shape(r)
  <2>0. /\ StorefrontTypeOK /\ kind \in Calls /\ x \in Maybe(Rows) /\ next \in Stages \ {"idle"}
        /\ NothingHeld \in Holdings
    BY DEF SfInv, ConstantsFit, Calls, Maybe, Stages, NothingHeld, Holdings
  <2>1. Starting(r, kind, x, columns, next, NothingHeld)
    BY <1>1, <2>0 DEF BeginRead, Starting
  <2>2. /\ Opens(r) /\ op'[r] = kind /\ on'[r] = x /\ gives'[r] = columns /\ pc'[r] = next
    BY <2>0, <2>1, BeginOpens
  <2>3. UNCHANGED <<rows, marks, active, hours, page, ended>> /\ pc[r] = "idle"
    BY <1>1 DEF BeginRead, Open
  <2>4. RestTyped' /\ r \notin ended'
    BY <2>3, RestStays DEF SfInv, Histories
  <2>5. PageStep(r)
    BY <2>3, <2>4, PageQuiet
  <2>6. Underway(r)'
    BY <1>1, <2>2 DEF Underway
  <2>7. ~Wrote(r)'
    BY <2>2, <2>4 DEF Wrote
  <2>. QED
    BY <1>1, <2>2, <2>3, <2>4, <2>5, <2>6, <2>7, QuietShape
<1>2. CASE CreateProfile(r, x)
  <2>1. BeginRead(r, "create", x, {"text", "flag"}, "insert", NothingHeld) /\ KindOf[x] = "profile"
    BY <1>2 DEF CreateProfile, Absent
  <2>2. {"text", "flag"} \in Gifts
    BY DEF Gifts
  <2>. QED
    BY <1>1, <2>1, <2>2
<1>3. CASE Like(r, x)
  <2>1. BeginRead(r, "like", x, {}, "mark", NothingHeld)
    BY <1>3 DEF Like
  <2>2. {} \in Gifts
    BY DEF Gifts
  <2>. QED
    BY <1>1, <2>1, <2>2
<1>. QED
  BY <1>2, <1>3

\* What an INSERT makes.
LEMMA Inserted ==
  ASSUME SfInv, NEW r \in Requests, NEW x \in Rows, Insert(r, x), row[x] = "absent"
  PROVE  /\ row' \in [Rows -> {"absent", "present", "hidden", "gone"}]
         /\ text' \in [Rows -> Maybe(Requests)] /\ flag' \in [Rows -> Maybe(Requests)]
         /\ row'[x] = "present" /\ \A y \in Rows \ {x} : row'[y] = row[y]
         /\ \A c \in Columns : Column(c, x)' = r
         /\ \A c \in Columns : \A y \in Rows \ {x} : Column(c, y)' = Column(c, y)
<1>1. /\ row \in [Rows -> {"absent", "present", "hidden", "gone"}]
      /\ text \in [Rows -> Maybe(Requests)] /\ flag \in [Rows -> Maybe(Requests)]
      /\ r \in Maybe(Requests)
  BY DEF SfInv, StorefrontTypeOK, Maybe
<1>2. /\ text'[x] = r /\ flag'[x] = r
      /\ \A y \in Rows \ {x} : text'[y] = text[y] /\ flag'[y] = flag[y]
      /\ text' \in [Rows -> Maybe(Requests)] /\ flag' \in [Rows -> Maybe(Requests)]
  BY <1>1 DEF Insert
<1>3. /\ row'[x] = "present" /\ \A y \in Rows \ {x} : row'[y] = row[y]
      /\ row' \in [Rows -> {"absent", "present", "hidden", "gone"}]
  BY <1>1 DEF Insert
<1>. QED
  BY <1>2, <1>3 DEF Column

\* A request that inserts a row.
LEMMA InsertShape ==
  ASSUME SfInv, NEW r \in Requests, NEW x \in Rows, Insert(r, x), row[x] = "absent",
         Opens(r) \/ Goes(r), on'[r] = x, op'[r] = "create",
         UNCHANGED <<parts, marks, active, hours, page>>, Underway(r)',
         pc'[r] # "write", pc[r] # "write",
         IF KindOf[x] \in {"post", "service"}
         THEN /\ pc[r] = "idle" /\ "images" \in gives'[r] /\ r \notin ended'
              /\ pc'[r] = "add" => held'[r].left = Parts
         ELSE "images" \notin gives'[r]
  PROVE  Shape(r)
<1>1. RestTyped'
  BY Inserted DEF SfInv, StorefrontTypeOK, RestTyped, hours
<1>2. RowsStep(r)
  BY Inserted DEF RowsStep
<1>3. ColumnsStep(r)
  BY Inserted DEF ColumnsStep
<1>4. PartsStep(r)
  BY DEF PartsStep
<1>5. PageStep(r)
  BY PageQuiet
<1>. QED
  BY <1>1, <1>2, <1>3, <1>4, <1>5 DEF Shape

LEMMA CreateSteps ==
  ASSUME SfInv, NEW r \in Requests, NEW x \in Rows,
         \/ CreatePost(r, x) \/ CreateDeal(r, x) \/ CreateService(r, x)
         \/ CreateItem(r, x) \/ CreateCategory(r, x)
  PROVE  Shape(r)
<1>0. /\ StorefrontTypeOK /\ x \in Maybe(Rows) /\ "create" \in Calls
      /\ Parts \in Nat \ {0}
  BY DEF SfInv, ConstantsFit, Maybe, Calls
<1>1. ASSUME NEW columns \in SUBSET {"text", "flag"}, Single(r, "create", x, columns),
             Insert(r, x), row[x] = "absent", KindOf[x] \notin {"post", "service"},
             UNCHANGED <<parts, marks, active, hours>>
      PROVE  Shape(r)
  <2>1. columns \in Gifts /\ "images" \notin columns
    BY DEF Gifts
  <2>2. /\ Opens(r) /\ op'[r] = "create" /\ on'[r] = x /\ gives'[r] = columns
        /\ pc'[r] = "done" /\ ended' = ended \cup {r} /\ UNCHANGED page
    BY <1>0, <1>1, <2>1, SingleOpens
  <2>3. Underway(r)'
    BY <2>2 DEF Underway
  <2>4. pc[r] = "idle"
    BY <2>2 DEF Opens
  <2>. QED
    BY <1>1, <2>1, <2>2, <2>3, <2>4, InsertShape
<1>2. CASE CreateDeal(r, x)
  <2>1. /\ Single(r, "create", x, {"text", "flag"}) /\ Insert(r, x) /\ row[x] = "absent"
        /\ KindOf[x] \notin {"post", "service"} /\ UNCHANGED <<parts, marks, active, hours>>
    BY <1>2 DEF CreateDeal, Absent
  <2>. QED
    BY <1>1, <2>1
<1>3. CASE CreateItem(r, x)
  <2>1. /\ Single(r, "create", x, {"text", "flag"}) /\ Insert(r, x) /\ row[x] = "absent"
        /\ KindOf[x] \notin {"post", "service"} /\ UNCHANGED <<parts, marks, active, hours>>
    BY <1>3 DEF CreateItem, Absent
  <2>. QED
    BY <1>1, <2>1
<1>4. CASE CreateCategory(r, x)
  <2>1. /\ Single(r, "create", x, {"text"}) /\ Insert(r, x) /\ row[x] = "absent"
        /\ KindOf[x] \notin {"post", "service"} /\ UNCHANGED <<parts, marks, active, hours>>
    BY <1>4 DEF CreateCategory, Absent
  <2>. QED
    BY <1>1, <2>1
<1>5. ASSUME NEW columns \in Gifts, NEW next \in {"clear", "add"}, "images" \in columns,
             Open(r, "create", x, columns), Insert(r, x), row[x] = "absent",
             KindOf[x] \in {"post", "service"}, held' = [held EXCEPT ![r].left = Parts],
             Goto(r, next), UNCHANGED <<parts, marks, active, hours, page, ended>>
      PROVE  Shape(r)
  <2>. DEFINE l == [held[r] EXCEPT !.left = Parts]
  <2>1. held[r] \in Holdings
    BY <1>0 DEF StorefrontTypeOK, Holdings
  <2>2. l \in Holdings /\ l.left = Parts
    BY <1>0, <2>1 DEF Holdings
  <2>3. held' = [held EXCEPT ![r] = l]
    BY <1>5
  <2>4. next \in Stages \ {"idle"} /\ ended' = ended
    BY <1>5 DEF Stages
  <2>. HIDE DEF l
  <2>5. /\ Opens(r) /\ op'[r] = "create" /\ on'[r] = x /\ gives'[r] = columns
        /\ pc'[r] = next /\ held'[r] = l
    <3>1. Starting(r, "create", x, columns, next, l)
      BY <1>0, <1>5, <2>2, <2>3, <2>4 DEF Starting
    <3>. QED
      BY <1>0, <3>1, BeginOpens
  <2>6. row'[x] = "present"
    BY <1>5, Inserted
  <2>7. held'[r].left \in 1..Parts
    BY <1>0, <2>2, <2>5
  <2>8. Underway(r)'
    BY <1>5, <2>2, <2>5, <2>6, <2>7 DEF Underway
  <2>9. pc[r] = "idle" /\ r \notin ended'
    BY <1>5, <2>5 DEF Opens, SfInv, Histories
  <2>. QED
    BY <1>5, <2>2, <2>5, <2>8, <2>9, InsertShape
<1>6. CASE CreatePost(r, x)
  <2>1. {"text", "flag", "images"} \in Gifts
    BY DEF Gifts
  <2>. QED
    BY <1>5, <1>6, <2>1 DEF CreatePost, Absent
<1>7. CASE CreateService(r, x)
  <2>1. {"text", "images"} \in Gifts
    BY DEF Gifts
  <2>. QED
    BY <1>5, <1>7, <2>1 DEF CreateService, Absent
<1>. QED
  BY <1>2, <1>3, <1>4, <1>6, <1>7

\* A row that is switched on or off, hidden or deleted.
LEMMA SwitchSteps ==
  ASSUME SfInv, NEW r \in Requests, NEW x \in Rows,
         SetDealActive(r, x) \/ DeletePost(r, x) \/ DeleteRow(r, x) \/ DeleteCategory(r, x)
  PROVE  Shape(r)
<1>0. /\ StorefrontTypeOK /\ x \in Maybe(Rows) /\ "switch" \in Calls /\ {} \in Gifts /\ {"flag"} \in Gifts
  BY DEF SfInv, Maybe, Calls, Gifts
<1>1. /\ row \in [Rows -> {"absent", "present", "hidden", "gone"}]
      /\ flag \in [Rows -> Maybe(Requests)] /\ r \in Maybe(Requests)
      /\ parts \in [Rows -> SUBSET (Requests \X Positions)]
  BY DEF SfInv, StorefrontTypeOK, Maybe
<1>2. ASSUME NEW columns \in Gifts, Single(r, "switch", x, columns), UNCHANGED <<marks, active, hours>>
      PROVE  /\ Opens(r) /\ op'[r] = "switch" /\ on'[r] = x /\ gives'[r] = columns
             /\ pc'[r] = "done" /\ ended' = ended \cup {r} /\ page' = page /\ Underway(r)' /\ PageStep(r)
             /\ pc[r] = "idle" /\ pc[r] # "write"
  <2>1. /\ Opens(r) /\ op'[r] = "switch" /\ on'[r] = x /\ gives'[r] = columns
        /\ pc'[r] = "done" /\ ended' = ended \cup {r} /\ page' = page
    BY <1>0, <1>2, SingleOpens
  <2>2. Underway(r)'
    BY <2>1 DEF Underway
  <2>3. PageStep(r)
    BY <2>1, PageQuiet
  <2>. QED
    BY <2>1, <2>2, <2>3 DEF Opens
<1>3. CASE SetDealActive(r, x)
  <2>1. /\ Single(r, "switch", x, {"flag"}) /\ flag' = [flag EXCEPT ![x] = r]
        /\ UNCHANGED <<row, text, parts, marks, active, hours>> /\ row[x] = "present"
    BY <1>3 DEF SetDealActive, Present
  <2>2. /\ Opens(r) /\ op'[r] = "switch" /\ on'[r] = x /\ gives'[r] = {"flag"}
        /\ pc'[r] = "done" /\ ended' = ended \cup {r} /\ page' = page /\ Underway(r)' /\ PageStep(r)
        /\ pc[r] = "idle"
    BY <1>0, <1>2, <2>1
  <2>3. /\ flag' \in [Rows -> Maybe(Requests)] /\ flag'[x] = r
        /\ \A y \in Rows \ {x} : flag'[y] = flag[y]
    BY <1>1, <2>1
  <2>4. RestTyped'
    BY <2>1, <2>2, <2>3 DEF SfInv, StorefrontTypeOK, RestTyped, hours
  <2>5. \A y \in Rows : \A c \in Columns :
          /\ Column(c, y)' = Column(c, y) \/ Column(c, y)' = r
          /\ y = x /\ c = "flag" => Column(c, y)' = r
    BY <2>1, <2>3 DEF Column
  <2>6. RowsStep(r) /\ ColumnsStep(r) /\ PartsStep(r)
    BY <2>1, <2>2, <2>5 DEF RowsStep, ColumnsStep, PartsStep
  <2>. QED
    BY <2>2, <2>4, <2>6 DEF Shape
<1>4. ASSUME NEW state \in {"hidden", "gone"}, Single(r, "switch", x, {}),
             row' = [row EXCEPT ![x] = state], row[x] = "present",
             \/ parts' = parts
             \/ parts' = [parts EXCEPT ![x] = {}] /\ state = "gone",
             UNCHANGED <<text, flag, marks, active, hours>>
      PROVE  Shape(r)
  <2>1. /\ Opens(r) /\ op'[r] = "switch" /\ on'[r] = x /\ gives'[r] = {}
        /\ pc'[r] = "done" /\ ended' = ended \cup {r} /\ page' = page /\ Underway(r)' /\ PageStep(r)
        /\ pc[r] = "idle"
    BY <1>0, <1>2, <1>4
  <2>2. /\ row' \in [Rows -> {"absent", "present", "hidden", "gone"}]
        /\ row'[x] = state /\ \A y \in Rows \ {x} : row'[y] = row[y]
    BY <1>1, <1>4
  <2>3. /\ parts' \in [Rows -> SUBSET (Requests \X Positions)]
        /\ \A y \in Rows \ {x} : parts'[y] = parts[y]
        /\ parts'[x] = parts[x] \/ (parts'[x] = {} /\ state = "gone")
    BY <1>1, <1>4
  <2>4. RestTyped'
    BY <1>4, <2>1, <2>2, <2>3 DEF SfInv, StorefrontTypeOK, RestTyped, hours
  <2>5. \A y \in Rows : \A c \in Columns : Column(c, y)' = Column(c, y)
    BY <1>4 DEF Column
  <2>6. RowsStep(r)
    BY <1>4, <2>1, <2>2 DEF RowsStep
  <2>7. ColumnsStep(r)
    BY <2>1, <2>5 DEF ColumnsStep
  <2>8. PartsStep(r)
    BY <2>1, <2>2, <2>3 DEF PartsStep
  <2>. QED
    BY <2>1, <2>4, <2>6, <2>7, <2>8 DEF Shape
<1>5. CASE DeletePost(r, x)
  BY <1>4, <1>5 DEF DeletePost, Present
<1>6. CASE DeleteRow(r, x)
  BY <1>4, <1>6 DEF DeleteRow, Present
<1>7. CASE DeleteCategory(r, x)
  BY <1>4, <1>7 DEF DeleteCategory, Present
<1>. QED
  BY <1>3, <1>5, <1>6, <1>7

\* A single statement that is about no row.
LEMMA SingleShape ==
  ASSUME SfInv, NEW r \in Requests, NEW kind \in {"switch", "like", "hours"}, NEW x \in Maybe(Rows),
         Single(r, kind, x, {}), UNCHANGED rows, kind = "switch" => x = None,
         marks' \subseteq {"liked", "saved"} \X Users \X Rows, active' \in BOOLEAN,
         windows' \in Plans \cup {{}}, exceptions' \subseteq Exceptions
  PROVE  Shape(r)
<1>0. StorefrontTypeOK /\ kind \in Calls /\ {} \in Gifts
  BY DEF SfInv, Calls, Gifts
<1>1. /\ Opens(r) /\ op'[r] = kind /\ on'[r] = x /\ gives'[r] = {}
      /\ pc'[r] = "done" /\ ended' = ended \cup {r} /\ UNCHANGED page
  BY <1>0, SingleOpens
<1>2. Underway(r)'
  BY <1>1 DEF Underway
<1>3. PageStep(r)
  BY <1>1, PageQuiet
<1>4. RestTyped'
  BY <1>0, <1>1 DEF StorefrontTypeOK, RestTyped, rows
<1>. QED
  BY <1>1, <1>2, <1>3, <1>4, QuietShape

LEMMA OtherSingles ==
  ASSUME SfInv, NEW r \in Requests,
         \/ SetProfessionalStatus(r)
         \/ \E m \in {"liked", "saved"}, u \in Users, x \in Rows : Unlike(r, m, u, x)
         \/ \E plan \in Plans : SetWindows(r, plan)
         \/ \E e \in Exceptions : AddException(r, e) \/ DeleteException(r, e)
  PROVE  Shape(r)
<1>0. /\ None \in Maybe(Rows) /\ marks \subseteq {"liked", "saved"} \X Users \X Rows
      /\ active \in BOOLEAN /\ windows \in Plans \cup {{}} /\ exceptions \subseteq Exceptions
  BY DEF SfInv, StorefrontTypeOK, Maybe
<1>1. CASE SetProfessionalStatus(r)
  <2>1. /\ Single(r, "switch", None, {}) /\ UNCHANGED rows /\ "switch" \in {"switch", "like", "hours"}
        /\ marks' \subseteq {"liked", "saved"} \X Users \X Rows /\ active' \in BOOLEAN
        /\ windows' \in Plans \cup {{}} /\ exceptions' \subseteq Exceptions
    BY <1>0, <1>1 DEF SetProfessionalStatus, hours
  <2>. QED
    BY <1>0, <2>1, SingleShape
<1>2. ASSUME NEW m \in {"liked", "saved"}, NEW u \in Users, NEW x \in Rows, Unlike(r, m, u, x)
      PROVE  Shape(r)
  <2>1. /\ Single(r, "like", x, {}) /\ UNCHANGED rows /\ "like" \in {"switch", "like", "hours"}
        /\ marks' \subseteq {"liked", "saved"} \X Users \X Rows /\ active' \in BOOLEAN
        /\ windows' \in Plans \cup {{}} /\ exceptions' \subseteq Exceptions
    BY <1>0, <1>2 DEF Unlike, hours
  <2>2. x \in Maybe(Rows)
    BY DEF Maybe
  <2>. QED
    BY <2>1, <2>2, SingleShape
<1>3. ASSUME Single(r, "hours", None, {}), UNCHANGED rows,
             marks' \subseteq {"liked", "saved"} \X Users \X Rows, active' \in BOOLEAN,
             windows' \in Plans \cup {{}}, exceptions' \subseteq Exceptions
      PROVE  Shape(r)
  <2>1. "hours" \in {"switch", "like", "hours"}
    OBVIOUS
  <2>. QED
    BY <1>0, <1>3, <2>1, SingleShape
<1>4. ASSUME NEW plan \in Plans, SetWindows(r, plan) PROVE Shape(r)
  BY <1>0, <1>3, <1>4 DEF SetWindows
<1>5. ASSUME NEW e \in Exceptions, AddException(r, e) \/ DeleteException(r, e) PROVE Shape(r)
  <2>1. /\ Single(r, "hours", None, {}) /\ UNCHANGED <<rows, marks, active, windows>>
        /\ exceptions' = exceptions \cup {e} \/ exceptions' = exceptions \ {e}
    BY <1>5 DEF AddException, DeleteException
  <2>2. exceptions' \subseteq Exceptions
    BY <1>0, <2>1
  <2>. QED
    BY <1>0, <1>3, <2>1, <2>2
<1>. QED
  BY <1>1, <1>2, <1>4, <1>5

\* The first query of a page.
LEMMA ReaderShape ==
  ASSUME SfInv, NEW r \in Requests, NEW kind \in {"page", "service", "list", "home", "search", "category"},
         NEW x \in Maybe(Rows), NEW shown \in SUBSET Rows,
         NEW next \in {"media", "variants", "professionals", "services", "done"},
         Open(r, kind, x, {}), page' = [page EXCEPT ![r] = {<<y, {}>> : y \in shown}], Goto(r, next),
         UNCHANGED <<rows, marks, active, hours, held>>,
         \A y \in shown : row[y] = "present",
         ended' = ended \/ (ended' = ended \cup {r} /\ next = "done"),
         next = "done" => kind = "list",
         next = "media" => kind = "page" /\ \A y \in shown : KindOf[y] = "post",
         next = "variants" => kind = "service" /\ x \in shown /\ shown = {x} /\ KindOf[x] = "service",
         next \in {"professionals", "services"} => kind \in {"home", "search", "category"}
  PROVE  Shape(r)
<1>0. StorefrontTypeOK /\ kind \in Calls /\ {} \in Gifts /\ next \in Stages \ {"idle"}
  BY DEF SfInv, Calls, Gifts, Stages
<1>2. /\ Opens(r) /\ op'[r] = kind /\ on'[r] = x /\ gives'[r] = {} /\ pc'[r] = next
  <2>1. ProgressTyped /\ held' = held
    BY <1>0, TypedProgress
  <2>. QED
    BY <1>0, <2>1 DEF ProgressTyped, Opens, Turn, Open, Goto
<1>3. page \in [Requests -> SUBSET (Rows \X SUBSET (Requests \X Positions))]
  BY <1>0 DEF StorefrontTypeOK
<1>4. /\ page'[r] = {<<y, {}>> : y \in shown} /\ \A q \in Requests \ {r} : page'[q] = page[q]
      /\ page' \in [Requests -> SUBSET (Rows \X SUBSET (Requests \X Positions))]
  <2>1. {<<y, {}>> : y \in shown} \in SUBSET (Rows \X SUBSET (Requests \X Positions))
    OBVIOUS
  <2>. QED
    BY <1>3, <2>1
<1>5. \A p \in page'[r] : p[1] \in shown
  BY <1>4
<1>6. pc[r] = "idle" /\ r \notin ended
  BY <1>2 DEF Opens, SfInv, Histories
<1>7. PageStep(r)
  BY <1>2, <1>4, <1>5, <1>6 DEF PageStep
<1>8. UNCHANGED <<row, text, flag, parts>>
  BY DEF rows
<1>9. RestTyped'
  BY <1>0, <1>4, <1>8 DEF StorefrontTypeOK, RestTyped, hours
<1>10. Underway(r)'
  <2>1. next # "idle"
    OBVIOUS
  <2>2. ASSUME next = "variants" PROVE page'[r] # {} /\ \A p \in page'[r] : p[1] = x
    <3>1. x \in shown /\ shown = {x}
      BY <2>2
    <3>2. <<x, {}>> \in page'[r]
      BY <1>4, <3>1
    <3>. QED
      BY <1>5, <3>1, <3>2
  <2>. QED
    BY <1>2, <1>5, <1>8, <2>1, <2>2 DEF Underway
<1>11. UNCHANGED rows
  BY DEF rows
<1>. QED
  BY <1>2, <1>6, <1>7, <1>9, <1>10, <1>11, QuietShape

LEMMA ReaderSteps ==
  ASSUME SfInv, NEW r \in Requests,
         \/ \E x \in Rows :
              \/ ReadPage(r, FeedPostByID(x)) \/ GetService(r, x) \/ CategoryBySlug(r, x)
              \/ ReadList(r, GetItem(x)) \/ ReadList(r, PublicProfile(x))
         \/ \E shown \in {ListCategories, ListProfessionals, ListServices, ListDeals, ListItems, ListMine} :
              ReadList(r, shown)
         \/ Home(r) \/ Search(r)
         \/ ReadPage(r, ListFeed)
         \/ \E u \in Users : ReadPage(r, ListLiked(u)) \/ ReadPage(r, ListSaved(u))
  PROVE  Shape(r)
<1>0. None \in Maybe(Rows) /\ \A x \in Rows : x \in Maybe(Rows)
  BY DEF Maybe
<1>1. ASSUME NEW posts \in SUBSET Visible, ReadPage(r, posts) PROVE Shape(r)
  <2>1. posts \in SUBSET Rows /\ \A y \in posts : row[y] = "present" /\ KindOf[y] = "post"
    BY DEF Visible, Present
  <2>2. /\ Open(r, "page", None, {}) /\ page' = [page EXCEPT ![r] = {<<y, {}>> : y \in posts}]
        /\ Goto(r, "media") /\ UNCHANGED <<rows, marks, active, hours, held>> /\ ended' = ended
    BY <1>1 DEF ReadPage
  <2>. QED
    BY <1>0, <2>1, <2>2, ReaderShape
<1>2. ASSUME NEW x \in Rows, GetService(r, x) PROVE Shape(r)
  <2>. DEFINE shown == {x}
  <2>1. /\ Open(r, "service", x, {}) /\ page' = [page EXCEPT ![r] = {<<y, {}>> : y \in shown}]
        /\ Goto(r, "variants") /\ UNCHANGED <<rows, marks, active, hours, held>> /\ ended' = ended
    <3>1. {<<y, {}>> : y \in shown} = {<<x, {}>>}
      OBVIOUS
    <3>. QED
      BY <1>2, <3>1 DEF GetService
  <2>2. /\ shown \in SUBSET Rows /\ x \in shown /\ KindOf[x] = "service"
        /\ \A y \in shown : row[y] = "present"
    BY <1>2 DEF GetService, Present
  <2>. QED
    BY <1>0, <2>1, <2>2, ReaderShape
<1>3. ASSUME NEW shown \in SUBSET Rows, \A y \in shown : row[y] = "present", ReadList(r, shown)
      PROVE  Shape(r)
  <2>1. /\ Open(r, "list", None, {}) /\ page' = [page EXCEPT ![r] = {<<y, {}>> : y \in shown}]
        /\ Goto(r, "done") /\ UNCHANGED <<rows, marks, active, hours, held>>
        /\ ended' = ended \cup {r}
    BY <1>3 DEF ReadList, Bare
  <2>. QED
    BY <1>0, <1>3, <2>1, ReaderShape
<1>4. ASSUME NEW kind \in {"home", "search", "category"}, NEW shown \in SUBSET Rows,
             \A y \in shown : row[y] = "present", NEW next \in {"professionals", "services"},
             OpenPage(r, kind, shown, next)
      PROVE  Shape(r)
  <2>1. /\ Open(r, kind, None, {}) /\ page' = [page EXCEPT ![r] = {<<y, {}>> : y \in shown}]
        /\ Goto(r, next) /\ UNCHANGED <<rows, marks, active, hours, held>> /\ ended' = ended
    BY <1>4 DEF OpenPage, Bare
  <2>. QED
    BY <1>0, <1>4, <2>1, ReaderShape
<1>5. \A kind : Listed(kind) \in SUBSET Rows /\ \A y \in Listed(kind) : row[y] = "present"
  BY DEF Listed, Present
<1>6. ASSUME NEW x \in Rows, ReadPage(r, FeedPostByID(x)) PROVE Shape(r)
  BY <1>1, <1>6 DEF FeedPostByID
<1>7. ASSUME NEW x \in Rows, CategoryBySlug(r, x) PROVE Shape(r)
  <2>1. OpenPage(r, "category", {x}, "professionals") /\ row[x] = "present" /\ {x} \in SUBSET Rows
    BY <1>7 DEF CategoryBySlug, Present
  <2>. QED
    BY <1>4, <2>1
<1>8. ASSUME NEW x \in Rows, ReadList(r, GetItem(x)) \/ ReadList(r, PublicProfile(x)) PROVE Shape(r)
  BY <1>3, <1>5, <1>8 DEF GetItem, PublicProfile, ListItems, ListProfessionals
<1>9. ASSUME NEW shown \in {ListCategories, ListProfessionals, ListServices, ListDeals, ListItems, ListMine},
             ReadList(r, shown)
      PROVE  Shape(r)
  <2>1. shown \in SUBSET Rows /\ \A y \in shown : row[y] = "present"
    BY <1>5 DEF ListCategories, ListProfessionals, ListServices, ListDeals, ListItems, ListMine
  <2>. QED
    BY <1>3, <1>9, <2>1
<1>10. CASE Home(r)
  BY <1>4, <1>5, <1>10 DEF Home, ListCategories
<1>11. CASE Search(r)
  BY <1>4, <1>5, <1>11 DEF Search, ListProfessionals
<1>12. CASE ReadPage(r, ListFeed)
  BY <1>1, <1>12 DEF ListFeed
<1>13. ASSUME NEW u \in Users, ReadPage(r, ListLiked(u)) \/ ReadPage(r, ListSaved(u)) PROVE Shape(r)
  <2>1. ListLiked(u) \in SUBSET Visible /\ ListSaved(u) \in SUBSET Visible
    BY DEF ListLiked, ListSaved
  <2>. QED
    BY <1>1, <1>13, <2>1
<1>. QED
  BY <1>2, <1>6, <1>7, <1>8, <1>9, <1>10, <1>11, <1>12, <1>13

(***************************************************************************)
(* The later steps of a request.                                           *)
(***************************************************************************)
LEMMA DoneUnderway ==
  ASSUME SfInv, NEW r \in Requests, Goes(r), pc'[r] = "done"
  PROVE  Underway(r)'
<1>1. gives'[r] = gives[r] /\ on'[r] = on[r] /\ Underway(r)
  BY DEF Goes, SfInv, Histories
<1>. QED
  BY <1>1 DEF Underway

LEMMA UnderwayNow ==
  ASSUME SfInv, NEW r \in Requests
  PROVE  /\ Underway(r) /\ StorefrontTypeOK /\ ConstantsFit /\ Parts \in Nat \ {0}
         /\ pc[r] # "done" => r \notin ended
  BY DEF SfInv, Histories, ConstantsFit

\* An update of a row.
LEMMA OverwriteShape ==
  ASSUME SfInv, NEW r \in Requests, NEW columns \in {{"text"}, {"text", "flag"}}, pc[r] = "write",
         Overwrite(r, columns), UNCHANGED <<marks, active, hours, page>>, Goes(r),
         gives[r] \cap Columns \subseteq columns,
         \/ /\ pc'[r] = "done"
            /\ ended' = ended \/ ("images" \notin gives[r] \/ row[on[r]] = "gone")
         \/ /\ pc'[r] = "clear" /\ held'[r] = held[r] /\ held[r].left # 0 /\ row[on[r]] = "present"
            /\ ended' = ended
  PROVE  Shape(r)
<1>0. Underway(r) /\ StorefrontTypeOK /\ Parts \in Nat \ {0} /\ r \notin ended
  BY UnderwayNow
<1>. DEFINE x == on[r]
<1>1. /\ x \in Rows /\ op[r] \in {"update", "sponsor"}
      /\ \A c \in gives[r] \cap Columns : Draft(c, r) = r
      /\ "images" \in gives[r] <=> held[r].left # 0
      /\ held[r].left # 0 => held[r].left = Parts /\ KindOf[x] = "post"
  BY <1>0 DEF Underway
<1>2. /\ on'[r] = x /\ op'[r] = op[r] /\ gives'[r] = gives[r]
  BY DEF Goes
<1>3. /\ row' = row /\ parts' = parts /\ marks' = marks /\ active' = active
      /\ windows' = windows /\ exceptions' = exceptions /\ page' = page
  BY DEF Overwrite, hours
<1>4. /\ text \in [Rows -> Maybe(Requests)] /\ flag \in [Rows -> Maybe(Requests)]
      /\ held[r].text \in Maybe(Requests) /\ held[r].flag \in Maybe(Requests)
  BY <1>0 DEF StorefrontTypeOK
<1>5. /\ text' \in [Rows -> Maybe(Requests)]
      /\ \A y \in Rows \ {x} : text'[y] = text[y]
      /\ text'[x] = IF row[x] # "gone" THEN held[r].text ELSE text[x]
  BY <1>1, <1>4 DEF Overwrite
<1>6. /\ flag' \in [Rows -> Maybe(Requests)]
      /\ \A y \in Rows \ {x} : flag'[y] = flag[y]
      /\ flag'[x] = IF "flag" \in columns /\ row[x] # "gone" THEN held[r].flag ELSE flag[x]
  BY <1>1, <1>4 DEF Overwrite
<1>7. \A y \in Rows \ {x}, c \in Columns : Column(c, y)' = Column(c, y)
  BY <1>5, <1>6 DEF Column
<1>8. \A c \in Columns :
        /\ Column(c, x)' = Column(c, x) \/ Column(c, x)' = Draft(c, r)
        /\ c \in gives[r] /\ row[x] # "gone" => Column(c, x)' = r
  <2>1. "flag" \in gives[r] => "flag" \in columns
    BY DEF Columns
  <2>2. Column("text", x)' = text'[x] /\ Column("flag", x)' = flag'[x]
    BY <1>2 DEF Column
  <2>3. /\ Column("text", x) = text[x] /\ Column("flag", x) = flag[x]
        /\ Draft("text", r) = held[r].text /\ Draft("flag", r) = held[r].flag
    BY DEF Column, Draft
  <2>4. /\ "text" \in gives[r] => held[r].text = r
        /\ "flag" \in gives[r] => held[r].flag = r
    BY <1>1, <2>3 DEF Columns
  <2>. QED
    BY <1>5, <1>6, <2>1, <2>2, <2>3, <2>4 DEF Columns
<1>9. RestTyped'
  BY <1>0, <1>3, <1>5, <1>6 DEF StorefrontTypeOK, RestTyped
<1>10. RowsStep(r)
  BY <1>3 DEF RowsStep
<1>11. ColumnsStep(r)
  BY <1>2, <1>3, <1>7, <1>8 DEF ColumnsStep
<1>12. PartsStep(r)
  BY <1>0, <1>1, <1>2, <1>3 DEF PartsStep
<1>13. PageStep(r)
  BY <1>1, <1>2, <1>3, PageQuiet
<1>14. Underway(r)'
  <2>1. CASE pc'[r] = "done"
    BY <2>1, DoneUnderway
  <2>2. CASE pc'[r] = "clear" /\ held'[r] = held[r] /\ held[r].left # 0 /\ row[x] = "present"
    <3>1. held'[r].left = Parts /\ held'[r].left \in 1..Parts
      BY <1>0, <1>1, <2>2
    <3>. QED
      BY <1>1, <1>2, <1>3, <2>2, <3>1 DEF Underway
  <2>. QED
    BY <2>1, <2>2
<1>. QED
  BY <1>9, <1>10, <1>11, <1>12, <1>13, <1>14 DEF Shape

LEMMA WriteSteps ==
  ASSUME SfInv, NEW r \in Requests,
         \/ WritePost(r) \/ WriteDeal(r) \/ WriteService(r) \/ WriteItem(r) \/ WriteProfile(r)
         \/ WriteCategory(r)
  PROVE  Shape(r)
<1>0. Underway(r) /\ StorefrontTypeOK /\ ConstantsFit /\ Parts \in Nat \ {0}
  BY UnderwayNow
<1>1. /\ pc[r] = "write"
      /\ "images" \in gives[r] <=> held[r].left # 0
      /\ held[r].left # 0 => held[r].left = Parts /\ KindOf[on[r]] = "post"
      /\ KindOf[on[r]] \in {"service", "category"} => "flag" \notin gives[r]
  <2>1. pc[r] = "write"
    BY DEF WritePost, WriteDeal, WriteService, WriteItem, WriteProfile, WriteCategory, AtWrite
  <2>. QED
    BY <1>0, <2>1 DEF Underway
<1>2. ASSUME NEW ok \in BOOLEAN, Finish(r, ok), UNCHANGED <<marks, active, hours, page>>,
             NEW columns \in {{"text"}, {"text", "flag"}}, Overwrite(r, columns),
             "flag" \in gives[r] => "flag" \in columns,
             ok => "images" \notin gives[r]
      PROVE  Shape(r)
  <2>1. Goes(r) /\ pc'[r] = "done" /\ ended' = IF ok THEN ended \cup {r} ELSE ended
    BY <1>0, <1>1, <1>2, FinishGoes
  <2>2. gives[r] \cap Columns \subseteq columns
    BY <1>2 DEF Columns
  <2>. QED
    BY <1>1, <1>2, <2>1, <2>2, OverwriteShape
<1>3. CASE WritePost(r)
  <2>1. CASE row[on[r]] = "present" /\ held[r].left > 0
    <3>1. /\ GoOn(r, "clear") /\ Overwrite(r, {"text", "flag"})
          /\ UNCHANGED <<marks, active, hours, page>>
      BY <1>3, <2>1 DEF WritePost
    <3>2. "clear" \in Stages \ {"idle"}
      BY DEF Stages
    <3>3. Goes(r) /\ pc'[r] = "clear" /\ held'[r] = held[r] /\ ended' = ended
      BY <1>0, <1>1, <3>1, <3>2, ProceedGoes
    <3>4. gives[r] \cap Columns \subseteq {"text", "flag"} /\ held[r].left # 0
      BY <2>1 DEF Columns
    <3>. QED
      BY <1>1, <2>1, <3>1, <3>3, <3>4, OverwriteShape
  <2>2. CASE ~(row[on[r]] = "present" /\ held[r].left > 0)
    <3>1. held[r].left > 0 <=> "images" \in gives[r]
      BY <1>0, <1>1
    <3>2. PICK ok \in BOOLEAN : Finish(r, ok) /\ (ok => "images" \notin gives[r])
      BY <1>3, <2>2, <3>1 DEF WritePost
    <3>3. Overwrite(r, {"text", "flag"}) /\ UNCHANGED <<marks, active, hours, page>>
      BY <1>3 DEF WritePost
    <3>. QED
      BY <1>2, <3>2, <3>3
  <2>. QED
    BY <2>1, <2>2
<1>4. CASE WriteDeal(r)
  <2>1. /\ KindOf[on[r]] = "deal" /\ Overwrite(r, {"text", "flag"}) /\ Finish(r, TRUE)
        /\ UNCHANGED <<marks, active, hours, page>>
    BY <1>4 DEF WriteDeal, AtWrite
  <2>2. /\ "images" \notin gives[r]
        /\ {"text", "flag"} \in {{"text"}, {"text", "flag"}}
    BY <1>1, <2>1
  <2>. QED
    BY <1>2, <2>1, <2>2
<1>5. CASE WriteService(r)
  <2>1. /\ KindOf[on[r]] = "service" /\ Overwrite(r, {"text"}) /\ UNCHANGED <<marks, active, hours, page>>
        /\ \E ok \in BOOLEAN : Finish(r, ok)
    BY <1>5 DEF WriteService, AtWrite
  <2>2. /\ "images" \notin gives[r] /\ ("flag" \in gives[r] => "flag" \in {"text"})
        /\ {"text"} \in {{"text"}, {"text", "flag"}}
    BY <1>1, <2>1
  <2>. QED
    BY <1>2, <2>1, <2>2
<1>6. CASE WriteItem(r)
  <2>1. /\ KindOf[on[r]] = "item" /\ Overwrite(r, {"text", "flag"}) /\ UNCHANGED <<marks, active, hours, page>>
        /\ \E ok \in BOOLEAN : Finish(r, ok)
    BY <1>6 DEF WriteItem, AtWrite
  <2>2. /\ "images" \notin gives[r]
        /\ {"text", "flag"} \in {{"text"}, {"text", "flag"}}
    BY <1>1, <2>1
  <2>. QED
    BY <1>2, <2>1, <2>2
<1>7. CASE WriteProfile(r)
  <2>1. /\ KindOf[on[r]] = "profile" /\ Overwrite(r, {"text", "flag"}) /\ Finish(r, TRUE)
        /\ UNCHANGED <<marks, active, hours, page>>
    BY <1>7 DEF WriteProfile, AtWrite
  <2>2. /\ "images" \notin gives[r]
        /\ {"text", "flag"} \in {{"text"}, {"text", "flag"}}
    BY <1>1, <2>1
  <2>. QED
    BY <1>2, <2>1, <2>2
<1>8. CASE WriteCategory(r)
  <2>1. /\ KindOf[on[r]] = "category" /\ Overwrite(r, {"text"}) /\ UNCHANGED <<marks, active, hours, page>>
        /\ \E ok \in BOOLEAN : Finish(r, ok)
    BY <1>8 DEF WriteCategory, AtWrite
  <2>2. /\ "images" \notin gives[r] /\ ("flag" \in gives[r] => "flag" \in {"text"})
        /\ {"text"} \in {{"text"}, {"text", "flag"}}
    BY <1>1, <2>1
  <2>. QED
    BY <1>2, <2>1, <2>2
<1>. QED
  BY <1>3, <1>4, <1>5, <1>6, <1>7, <1>8

\* A step at the images of a row.
LEMMA ImagesShape ==
  ASSUME SfInv, NEW r \in Requests, pc[r] \in {"clear", "add"}, Goes(r), Underway(r)', PartsStep(r),
         UNCHANGED <<row, text, flag, marks, active, hours, page>>,
         parts' \in [Rows -> SUBSET (Requests \X Positions)], pc'[r] # "write"
  PROVE  Shape(r)
<1>0. Underway(r) /\ StorefrontTypeOK /\ Parts \in Nat \ {0} /\ r \notin ended
  BY UnderwayNow
<1>1. op'[r] \in {"create", "update", "sponsor"}
  BY <1>0 DEF Underway, Goes
<1>2. \A y \in Rows, c \in Columns : Column(c, y)' = Column(c, y)
  BY DEF Column
<1>3. RestTyped'
  BY <1>0 DEF StorefrontTypeOK, RestTyped, hours
<1>4. RowsStep(r)
  BY DEF RowsStep
<1>5. ColumnsStep(r)
  BY <1>2 DEF ColumnsStep, Wrote
<1>6. PageStep(r)
  BY <1>1, PageQuiet
<1>. QED
  BY <1>3, <1>4, <1>5, <1>6 DEF Shape

LEMMA ImageSteps ==
  ASSUME SfInv, NEW r \in Requests, ClearImages(r) \/ AddPart(r)
  PROVE  Shape(r)
<1>0. Underway(r) /\ StorefrontTypeOK /\ ConstantsFit /\ Parts \in Nat \ {0} /\ (pc[r] # "done" => r \notin ended)
  BY UnderwayNow
<1>1. pc[r] \in {"clear", "add"}
  BY DEF ClearImages, AddPart
<1>. DEFINE x == on[r]
<1>2. /\ "images" \in gives[r] /\ x \in Rows /\ KindOf[x] \in {"post", "service"} /\ row[x] # "absent"
      /\ op[r] \in {"create", "update", "sponsor"} /\ r \notin ended
      /\ held[r].left \in 1..Parts /\ (pc[r] = "clear" => held[r].left = Parts)
  BY <1>0, <1>1 DEF Underway
<1>3. parts \in [Rows -> SUBSET (Requests \X Positions)] /\ held[r] \in Holdings
  BY <1>0 DEF StorefrontTypeOK, Holdings
<1>4. CASE ClearImages(r)
  <2>1. /\ pc[r] = "clear" /\ parts' = [parts EXCEPT ![x] = {}] /\ GoOn(r, "add")
        /\ UNCHANGED <<row, text, flag, marks, active, hours, page>>
    BY <1>4 DEF ClearImages
  <2>2. "add" \in Stages \ {"idle"}
    BY DEF Stages
  <2>3. Goes(r) /\ pc'[r] = "add" /\ held'[r] = held[r] /\ ended' = ended
    BY <1>0, <2>1, <2>2, ProceedGoes
  <2>4. on'[r] = x /\ gives'[r] = gives[r] /\ op'[r] = op[r]
    BY <2>3 DEF Goes
  <2>5. /\ parts' \in [Rows -> SUBSET (Requests \X Positions)] /\ parts'[x] = {}
        /\ \A y \in Rows \ {x} : parts'[y] = parts[y]
    BY <1>2, <1>3, <2>1
  <2>6. PartsStep(r)
    BY <1>2, <2>1, <2>3, <2>4, <2>5 DEF PartsStep
  <2>7. Underway(r)'
    BY <1>2, <2>1, <2>3, <2>4 DEF Underway
  <2>. QED
    BY <1>1, <2>1, <2>3, <2>5, <2>6, <2>7, ImagesShape
<1>5. CASE AddPart(r) /\ row[x] = "gone"
  <2>1. /\ parts' = parts /\ Finish(r, FALSE)
        /\ UNCHANGED <<row, text, flag, marks, active, hours, page>>
    BY <1>5 DEF AddPart
  <2>2. Goes(r) /\ pc'[r] = "done" /\ ended' = ended
    BY <1>0, <1>1, <2>1, FinishGoes
  <2>3. on'[r] = x /\ row' = row
    BY <2>1, <2>2 DEF Goes
  <2>4. PartsStep(r)
    BY <1>2, <1>5, <2>1, <2>2, <2>3 DEF PartsStep
  <2>5. Underway(r)'
    BY <2>2, DoneUnderway
  <2>. QED
    BY <1>1, <1>3, <2>1, <2>2, <2>4, <2>5, ImagesShape
<1>6. CASE AddPart(r) /\ row[x] # "gone"
  <2>. DEFINE part == <<r, Parts + 1 - held[r].left>>
  <2>1. /\ pc[r] = "add" /\ parts' = [parts EXCEPT ![x] = @ \cup {part}]
        /\ UNCHANGED <<row, text, flag, marks, active, hours, page>>
    BY <1>6 DEF AddPart
  <2>2. part \in Requests \X Positions
    BY <1>0, <1>2 DEF Positions
  <2>3. /\ parts' \in [Rows -> SUBSET (Requests \X Positions)] /\ parts'[x] = parts[x] \cup {part}
        /\ \A y \in Rows \ {x} : parts'[y] = parts[y]
    <3>. HIDE DEF part
    <3>. QED
      BY <1>2, <1>3, <2>1, <2>2
  <2>4. CASE held[r].left = 1
    <3>1. Finish(r, TRUE)
      BY <1>6, <2>4 DEF AddPart
    <3>2. Goes(r) /\ pc'[r] = "done" /\ ended' = ended \cup {r}
      BY <1>0, <1>1, <3>1, FinishGoes
    <3>3. on'[r] = x
      BY <3>2 DEF Goes
    <3>4. PartsStep(r)
      BY <1>2, <2>1, <2>3, <2>4, <3>2, <3>3 DEF PartsStep
    <3>5. Underway(r)'
      BY <3>2, DoneUnderway
    <3>. QED
      BY <1>1, <2>1, <2>3, <3>2, <3>4, <3>5, ImagesShape
  <2>5. CASE held[r].left # 1
    <3>1. /\ held' = [held EXCEPT ![r].left = @ - 1] /\ UNCHANGED <<pc, op, on, gives, ended, before>>
      BY <1>6, <2>5 DEF AddPart
    <3>2. held[r].left \in 2..Parts
      BY <1>0, <1>2, <2>5
    <3>3. held' \in [Requests -> Holdings] /\ held'[r].left = held[r].left - 1
          /\ \A q \in Requests \ {r} : held'[q] = held[q]
      <4>1. held \in [Requests -> Holdings]
        BY <1>0 DEF StorefrontTypeOK, Holdings
      <4>2. [held[r] EXCEPT !.left = @ - 1] \in Holdings
        BY <1>0, <1>3, <3>2 DEF Holdings
      <4>3. held' = [held EXCEPT ![r] = [held[r] EXCEPT !.left = @ - 1]]
        BY <3>1
      <4>4. [held[r] EXCEPT !.left = @ - 1].left = held[r].left - 1
        BY <1>3 DEF Holdings
      <4>. QED
        BY <4>1, <4>2, <4>3, <4>4
    <3>4. Goes(r) /\ pc'[r] = "add" /\ on'[r] = x /\ gives'[r] = gives[r] /\ op'[r] = op[r] /\ ended' = ended
      <4>1. ProgressTyped
        BY <1>0, TypedProgress
      <4>. QED
        BY <2>1, <3>1, <3>3, <4>1 DEF ProgressTyped, Goes, Turn
    <3>5. PartsStep(r)
      BY <1>2, <2>1, <2>3, <3>2, <3>3, <3>4 DEF PartsStep
    <3>6. held'[r].left \in 1..Parts
      BY <1>0, <3>2, <3>3
    <3>7. Underway(r)'
      BY <1>2, <2>1, <3>4, <3>6 DEF Underway
    <3>. QED
      BY <1>1, <2>1, <2>3, <3>4, <3>5, <3>7, ImagesShape
  <2>. QED
    BY <2>4, <2>5
<1>. QED
  BY <1>4, <1>5, <1>6

\* A step that leaves the rows alone, of a request under way.
LEMMA QuietGoes ==
  ASSUME SfInv, NEW r \in Requests, Goes(r), UNCHANGED rows, RestTyped', Underway(r)', PageStep(r),
         pc'[r] \notin {"write", "add"}, gives[r] = {} \/ (pc'[r] = "done" /\ ended' = ended)
  PROVE  Shape(r)
<1>1. gives'[r] = gives[r] /\ pc[r] # "idle"
  BY DEF Goes
<1>2. r \notin ended
  BY UnderwayNow DEF Goes
<1>. QED
  BY <1>1, <1>2, QuietShape DEF Wrote

\* A like.
LEMMA MarkSteps ==
  ASSUME SfInv, NEW r \in Requests, InsertMark(r)
  PROVE  Shape(r)
<1>0. Underway(r) /\ StorefrontTypeOK /\ ConstantsFit
  BY UnderwayNow
<1>1. /\ pc[r] = "mark" /\ Finish(r, TRUE) /\ UNCHANGED <<rows, active, hours, page>>
  BY DEF InsertMark
<1>2. Goes(r) /\ pc'[r] = "done"
  BY <1>0, <1>1, FinishGoes
<1>3. op'[r] = "like" /\ gives[r] = {} /\ on[r] \in Rows
  BY <1>0, <1>1, <1>2 DEF Underway, Goes
<1>4. marks' \subseteq {"liked", "saved"} \X Users \X Rows
  BY <1>0, <1>3 DEF InsertMark, StorefrontTypeOK
<1>5. RestTyped'
  BY <1>0, <1>1, <1>4 DEF StorefrontTypeOK, RestTyped, rows, hours
<1>6. PageStep(r)
  BY <1>1, <1>3, PageQuiet
<1>7. Underway(r)'
  BY <1>2, DoneUnderway
<1>. QED
  BY <1>1, <1>2, <1>3, <1>5, <1>6, <1>7, QuietGoes

\* A query of a page that has been begun.
LEMMA PageShape ==
  ASSUME SfInv, NEW r \in Requests, Goes(r), gives[r] = {},
         UNCHANGED <<rows, marks, active, hours>>,
         NEW shown \in SUBSET (Rows \X SUBSET (Requests \X Positions)),
         page' = [page EXCEPT ![r] = shown], Underway(r)',
         pc'[r] \notin {"write", "add"},
         \A p \in shown : row[p[1]] = "present" \/ \E o \in page[r] : o[1] = p[1],
         op[r] \in {"page", "service"} =>
           \A p \in shown : /\ p[2] = parts[p[1]] /\ row[p[1]] # "absent"
                            /\ KindOf[p[1]] \in {"post", "service"}
  PROVE  Shape(r)
<1>0. StorefrontTypeOK /\ pc[r] # "idle" /\ op'[r] = op[r]
  BY UnderwayNow DEF Goes
<1>1. /\ page' \in [Requests -> SUBSET (Rows \X SUBSET (Requests \X Positions))]
      /\ page'[r] = shown /\ \A q \in Requests \ {r} : page'[q] = page[q]
  BY <1>0 DEF StorefrontTypeOK
<1>2. UNCHANGED <<row, text, flag, parts>>
  BY DEF rows
<1>3. PageStep(r)
  BY <1>0, <1>1, <1>2 DEF PageStep
<1>4. RestTyped'
  BY <1>0, <1>1, <1>2 DEF StorefrontTypeOK, RestTyped, hours
<1>5. UNCHANGED rows
  BY DEF rows
<1>. QED
  BY <1>3, <1>4, <1>5, QuietGoes

LEMMA PageSteps ==
  ASSUME SfInv, NEW r \in Requests,
         \/ MediaForPosts(r) \/ ListVariants(r)
         \/ ReadProfessionals(r) \/ ReadServices(r) \/ ReadDeals(r)
  PROVE  Shape(r)
<1>0. Underway(r) /\ StorefrontTypeOK /\ ConstantsFit
  BY UnderwayNow
<1>1. /\ page[r] \in SUBSET (Rows \X SUBSET (Requests \X Positions))
      /\ parts \in [Rows -> SUBSET (Requests \X Positions)]
  BY <1>0 DEF StorefrontTypeOK
<1>2. CASE MediaForPosts(r)
  <2>. DEFINE shown == {<<p[1], parts[p[1]]>> : p \in page[r]}
  <2>1. /\ pc[r] = "media" /\ page' = [page EXCEPT ![r] = shown] /\ Finish(r, TRUE)
        /\ UNCHANGED <<rows, marks, active, hours>>
    BY <1>2 DEF MediaForPosts
  <2>2. Goes(r) /\ pc'[r] = "done"
    BY <1>0, <2>1, FinishGoes
  <2>3. gives[r] = {} /\ \A p \in page[r] : KindOf[p[1]] = "post" /\ row[p[1]] # "absent"
    BY <1>0, <2>1 DEF Underway
  <2>4. shown \in SUBSET (Rows \X SUBSET (Requests \X Positions))
    BY <1>1
  <2>5. /\ \A p \in shown : \E o \in page[r] : o[1] = p[1]
        /\ \A p \in shown : /\ p[2] = parts[p[1]] /\ row[p[1]] # "absent"
                            /\ KindOf[p[1]] \in {"post", "service"}
    BY <2>3
  <2>6. Underway(r)'
    BY <2>2, DoneUnderway
  <2>. HIDE DEF shown
  <2>. QED
    BY <2>1, <2>2, <2>3, <2>4, <2>5, <2>6, PageShape
<1>3. CASE ListVariants(r)
  <2>. DEFINE x == on[r]
              shown == {<<x, parts[x]>>}
  <2>1. /\ pc[r] = "variants" /\ page' = [page EXCEPT ![r] = shown] /\ Finish(r, TRUE)
        /\ UNCHANGED <<rows, marks, active, hours>>
    BY <1>3 DEF ListVariants
  <2>2. Goes(r) /\ pc'[r] = "done"
    BY <1>0, <2>1, FinishGoes
  <2>3. /\ gives[r] = {} /\ x \in Rows /\ KindOf[x] = "service" /\ row[x] # "absent"
        /\ \E o \in page[r] : o[1] = x
    BY <1>0, <2>1 DEF Underway
  <2>4. shown \in SUBSET (Rows \X SUBSET (Requests \X Positions))
    BY <1>1, <2>3
  <2>5. \A p \in shown : p[1] = x /\ p[2] = parts[p[1]]
    OBVIOUS
  <2>6. Underway(r)'
    BY <2>2, DoneUnderway
  <2>. HIDE DEF shown
  <2>. QED
    BY <2>1, <2>2, <2>3, <2>4, <2>5, <2>6, PageShape
<1>4. ASSUME NEW kind \in {"professionals", "services", "deals"}, NEW listed,
             NEW next \in {"services", "deals", "done"}, op[r] # "home" => next = "done",
             ContinuePage(r, kind, Listed(listed), next)
      PROVE  Shape(r)
  <2>. DEFINE shown == page[r] \cup Bare(Listed(listed))
  <2>1. /\ pc[r] \in {"professionals", "services", "deals"} /\ page' = [page EXCEPT ![r] = shown]
        /\ UNCHANGED <<rows, marks, active, hours>>
        /\ IF next = "done" THEN Finish(r, TRUE) ELSE GoOn(r, next)
    BY <1>4 DEF ContinuePage
  <2>2. op[r] \in {"home", "search", "category"} /\ gives[r] = {}
    BY <1>0, <2>1 DEF Underway
  <2>3. next \in Stages \ {"idle"}
    BY DEF Stages
  <2>4. Goes(r) /\ pc'[r] = next
    BY <1>0, <2>1, <2>3, FinishGoes, ProceedGoes
  <2>5. shown \in SUBSET (Rows \X SUBSET (Requests \X Positions))
    BY <1>1 DEF Bare, Listed
  <2>6. \A p \in shown : row[p[1]] = "present" \/ \E o \in page[r] : o[1] = p[1]
    BY DEF Bare, Listed, Present
  <2>7. Underway(r)'
    BY <2>2, <2>4 DEF Underway, Goes
  <2>. HIDE DEF shown
  <2>. QED
    BY <2>1, <2>2, <2>4, <2>5, <2>6, <2>7, PageShape
<1>5. CASE ReadProfessionals(r)
  BY <1>4, <1>5 DEF ReadProfessionals, ListProfessionals
<1>6. CASE ReadServices(r)
  BY <1>4, <1>6 DEF ReadServices, ListServices
<1>7. CASE ReadDeals(r)
  BY <1>4, <1>7 DEF ReadDeals, ListDeals
<1>. QED
  BY <1>2, <1>3, <1>5, <1>6, <1>7

\* A profile is inserted, or the index refuses it; or a request breaks off.
LEMMA EndSteps ==
  ASSUME SfInv, NEW r \in Requests, InsertProfile(r) \/ BreakOff(r)
  PROVE  Shape(r)
<1>0. Underway(r) /\ StorefrontTypeOK /\ ConstantsFit
  BY UnderwayNow
<1>1. ASSUME Finish(r, FALSE), pc[r] \notin {"idle", "done"},
             UNCHANGED <<rows, marks, active, hours, page>>
      PROVE  Shape(r)
  <2>1. Goes(r) /\ pc'[r] = "done" /\ ended' = ended
    BY <1>0, <1>1, FinishGoes
  <2>2. RestTyped' /\ Underway(r)'
    BY <1>1, <2>1, RestStays, DoneUnderway
  <2>3. r \notin ended'
    BY <1>1, <2>1, UnderwayNow
  <2>4. PageStep(r)
    BY <1>1, <2>3, PageQuiet
  <2>. QED
    BY <1>1, <2>1, <2>2, <2>4, QuietGoes
<1>2. CASE BreakOff(r)
  BY <1>1, <1>2 DEF BreakOff
<1>3. CASE InsertProfile(r) /\ row[on[r]] # "absent"
  BY <1>1, <1>3 DEF InsertProfile, rows
<1>4. CASE InsertProfile(r) /\ row[on[r]] = "absent"
  <2>1. /\ pc[r] = "insert" /\ Insert(r, on[r]) /\ Finish(r, TRUE)
        /\ UNCHANGED <<parts, marks, active, hours, page>>
    BY <1>4 DEF InsertProfile
  <2>2. /\ on[r] \in Rows /\ op[r] = "create" /\ "images" \notin gives[r]
        /\ KindOf[on[r]] = "profile"
    BY <1>0, <2>1 DEF Underway
  <2>3. Goes(r) /\ pc'[r] = "done"
    BY <1>0, <2>1, FinishGoes
  <2>4. Underway(r)' /\ on'[r] = on[r] /\ op'[r] = "create" /\ gives'[r] = gives[r]
    BY <2>2, <2>3, DoneUnderway DEF Goes
  <2>. QED
    BY <1>4, <2>1, <2>2, <2>3, <2>4, InsertShape
<1>. QED
  BY <1>2, <1>3, <1>4

LEMMA NextShape ==
  ASSUME SfInv, NEW r \in Requests, Arrive(r) \/ Advance(r)
  PROVE  Shape(r)
<1>1. CASE Arrive(r)
  BY <1>1, UpdateSteps, FindSteps, CreateSteps, SwitchSteps, OtherSingles, ReaderSteps DEF Arrive
<1>2. CASE Advance(r)
  BY <1>2, WriteSteps, ImageSteps, MarkSteps, PageSteps, EndSteps DEF Advance
<1>. QED
  BY <1>1, <1>2

LEMMA UnchangedKeeps == SfInv /\ UNCHANGED storefront => SfInv'
<1>. SUFFICES ASSUME SfInv, UNCHANGED storefront PROVE SfInv'
  OBVIOUS
<1>1. /\ row' = row /\ text' = text /\ flag' = flag /\ parts' = parts /\ marks' = marks
      /\ active' = active /\ windows' = windows /\ exceptions' = exceptions /\ pc' = pc /\ op' = op
      /\ on' = on /\ held' = held /\ page' = page /\ gives' = gives /\ ended' = ended
      /\ before' = before
  BY DEF storefront, rows, hours, handling
<1>2. StorefrontTypeOK' /\ ConstantsFit'
  BY <1>1 DEF SfInv, StorefrontTypeOK, ConstantsFit
<1>3. Histories'
  BY <1>1 DEF SfInv, Histories, Underway, Draft
<1>4. ColumnsKept'
  BY <1>1 DEF SfInv, ColumnsKept, Wrote, Raced, Column, Draft, Together, Concurrent, Begun
<1>5. PartsKept'
  BY <1>1 DEF SfInv, PartsKept, Solo, ImageWriters, Begun
<1>6. LastOne' /\ DeletedStays' /\ DeletedUnseen'
  BY <1>1 DEF SfInv, LastOne, DeletedStays, DeletedUnseen, ImageWriters, Together, Concurrent, Begun, Deletes
<1>7. PagesAreWhole'
  BY <1>1 DEF SfInv, PagesAreWhole, ImageWriters, Together, Concurrent, Begun, Deletes
<1>. QED
  BY <1>2, <1>3, <1>4, <1>5, <1>6, <1>7 DEF SfInv

LEMMA StorefrontInvariance == StorefrontSpec => []SfInv
<1>1. StorefrontInit => SfInv
  BY StorefrontStarts, StorefrontConstants
<1>2. SfInv /\ [StorefrontNext]_storefront => SfInv'
  BY NextShape, ShapeKeeps, UnchangedKeeps DEF StorefrontNext
<1>. QED
  BY <1>1, <1>2, PTL DEF StorefrontSpec

\* A change that was accepted is undone only by an update that ran at the same time.
LEMMA KeptChanges == SfInv => ChangesKept
<1>. SUFFICES ASSUME SfInv, NEW r \in ended, NEW c \in gives[r] \cap {"text", "flag"},
                     row[on[r]] # "gone", Column(c, on[r]) \in before[r]
              PROVE  Raced(r)
  BY DEF ChangesKept, Raced
<1>1. r \in Requests /\ Wrote(r)
  BY DEF SfInv, StorefrontTypeOK, Wrote
<1>. QED
  BY <1>1 DEF SfInv, ColumnsKept, Columns

\* A slot that is offered is a slot that Create accepts.
LEMMA OfferedSlots == SfInv => OfferedIsAccepted
<1>. SUFFICES ASSUME SfInv, NEW duration \in Durations, NEW busy \in SUBSET Busy,
                     NEW m \in AvailableSlots(duration, busy)
              PROVE  SlotAvailable(m, m + duration + Buffer, busy)
  BY DEF OfferedIsAccepted
<1>1. /\ Day \in Nat \ {0} /\ Buffer \in Nat /\ duration \in Nat \ {0}
      /\ \A plan \in Plans : \A w \in plan : w.start \in 0..Day /\ w.end \in 0..Day /\ w.start < w.end
      /\ windows \in Plans \cup {{}}
  BY DEF SfInv, ConstantsFit, StorefrontTypeOK
<1>2. PICK w \in EffectiveWindows : Fits(w, m, duration)
  BY DEF AvailableSlots
<1>3. m \in 0..Day /\ ~Overlapping(busy, m, m + duration + Buffer)
  BY DEF AvailableSlots
<1>4. w \in windows /\ w.start \in 0..Day /\ w.end \in 0..Day
  BY <1>1 DEF EffectiveWindows, ListWindows
<1>. DEFINE end == m + duration + Buffer
<1>5. m >= w.start /\ end <= w.end /\ end \in 1..Day /\ m < Day /\ m \in Nat
  BY <1>1, <1>2, <1>3, <1>4 DEF Fits
<1>6. MinutesOfDay(m) = m
  BY <1>1, <1>5 DEF MinutesOfDay
<1>7. MinutesOfDay(end) <= end
  <2>1. CASE end = Day
    BY <1>1, <1>5, <2>1 DEF MinutesOfDay
  <2>2. CASE end # Day
    BY <1>1, <1>5, <2>2 DEF MinutesOfDay
  <2>. QED
    BY <2>1, <2>2
<1>8. MinutesOfDay(end) \in Nat
  BY <1>1, <1>5 DEF MinutesOfDay
<1>9. MinutesOfDay(end) <= w.end
  BY <1>4, <1>5, <1>7, <1>8
<1>. QED
  BY <1>3, <1>5, <1>6, <1>9 DEF SlotAvailable

\* Every variable of Storefront keeps its type, for any number of requests, rows
\* and images, and any hours (the handlers of posts, deals, services, portfolio,
\* professionals, categories, discovery and availability).
THEOREM StorefrontTyped == StorefrontSpec => []StorefrontTypeOK
<1>1. SfInv => StorefrontTypeOK
  BY DEF SfInv
<1>. QED
  BY <1>1, StorefrontInvariance, PTL

\* What an accepted request wrote to a row is lost only to an update that ran at
\* the same time and wrote back what it had read (deals/store.go:108-123,
\* posts/service.go:177-188).
THEOREM KeepsChanges == StorefrontSpec => []ChangesKept
BY KeptChanges, StorefrontInvariance, PTL

\* No page shows what had been deleted before it was asked for, and a post or a
\* service comes with all images or variants of its last writer, unless writers
\* raced or one was still at it (post.go:101-112, services/store.go:57-64).
THEOREM WholePages == StorefrontSpec => []PagesAreWhole
<1>1. SfInv => PagesAreWhole
  BY DEF SfInv
<1>. QED
  BY <1>1, StorefrontInvariance, PTL

\* Whatever the hours, the buffer, the duration and the other bookings: a slot
\* that AvailableSlots offers is one that Create accepts (bookings/service.go:507,
\* 611).
THEOREM AcceptsOffers == StorefrontSpec => []OfferedIsAccepted
BY OfferedSlots, StorefrontInvariance, PTL
=============================================================================
