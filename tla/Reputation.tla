----------------------------- MODULE Reputation -----------------------------
(***************************************************************************)
(* What a professional is judged by: reviews and the rating computed from  *)
(* them, documents and the verification status computed from them, and     *)
(* disputes over bookings (internal/reviews, internal/verification,        *)
(* internal/disputes).  All bookings and documents are one professional's. *)
(*                                                                         *)
(* A request is one HTTP call, a step one statement.  Rating and           *)
(* verification status are columns of the professionals row, each read     *)
(* from other rows by one statement and written by the next.               *)
(***************************************************************************)
EXTENDS FiniteSets, Handlers

CONSTANTS Bookings, Documents, Disputes

ASSUME ReputationConstants == None \notin Requests \cup Bookings \cup Documents \cup Disputes

VARIABLES
  status,        \* bookings.status, as far as it matters here
  review,        \* of a booking: the request that inserted its review
  response,      \* of a booking's review: the request that answered it
  rated,         \* bookings whose reviews rating and review_count stand for
  document,      \* verification_documents.status, "none" without a row
  judge,         \* of a document: the request that set its status
  verification,  \* professionals.verification_status
  dispute,       \* the booking a dispute is about, None without a row
  resolution,    \* of a dispute: the request that resolved it
  posted,        \* dispute_messages, as <<dispute, request>>
  audited,       \* audit_logs: the requests with an entry
  work,          \* of a request: its local variables
  \* history:
  rater, verifier \* the requests that wrote rating and verification last

reviewing == <<review, response, rated, rater>>
verifying == <<document, judge, verification, audited, verifier>>
disputing == <<dispute, resolution, posted>>
progress == <<pc, op, work, ended, before>>
vars == <<status, reviewing, verifying, disputing, progress>>

NoWork == [on |-> None, seen |-> {}, verdict |-> "none"]
Things == Bookings \cup Documents \cup Disputes
Verdicts == {"none", "PENDING", "APPROVED", "REJECTED"}
Steps == {"idle", "write", "read", "store", "log", "done"}
Operations == {"none", "review", "respond", "submit", "judge", "raise", "post", "resolve"}
Locals == [on : Things \cup {None}, seen : SUBSET Things, verdict : Verdicts]

TypeOK ==
  /\ status \in [Bookings -> {"open", "completed", "cancelled"}]
  /\ review \in [Bookings -> Requests \cup {None}]
  /\ response \in [Bookings -> Requests \cup {None}]
  /\ rated \subseteq Bookings
  /\ document \in [Documents -> Verdicts]
  /\ judge \in [Documents -> Requests \cup {None}]
  /\ verification \in {"UNVERIFIED", "PENDING", "VERIFIED", "REJECTED"}
  /\ dispute \in [Disputes -> Bookings \cup {None}]
  /\ resolution \in [Disputes -> Requests \cup {None}]
  /\ posted \subseteq Disputes \X Requests
  /\ audited \subseteq Requests
  /\ pc \in [Requests -> Steps] /\ op \in [Requests -> Operations]
  /\ work \in [Requests -> Locals]
  /\ ended \subseteq Requests
  /\ before \in [Requests -> SUBSET Requests]
  /\ rater \in Requests \cup {None} /\ verifier \in Requests \cup {None}

Init ==
  /\ status = [b \in Bookings |-> "open"]
  /\ review = [b \in Bookings |-> None] /\ response = [b \in Bookings |-> None]
  /\ rated = {} /\ rater = None
  /\ document = [d \in Documents |-> "none"] /\ judge = [d \in Documents |-> None]
  /\ verification = "UNVERIFIED" /\ verifier = None /\ audited = {}
  /\ dispute = [d \in Disputes |-> None] /\ resolution = [d \in Disputes |-> None]
  /\ posted = {}
  /\ pc = [r \in Requests |-> "idle"] /\ op = [r \in Requests |-> "none"]
  /\ work = [r \in Requests |-> NoWork]
  /\ ended = {} /\ before = [r \in Requests |-> {}]

\* What a request reads before its first write, it reads in one step; it may be
\* out of date when the write comes.
Begin(r, kind, next, locals) ==
  /\ pc[r] = "idle"
  /\ op' = [op EXCEPT ![r] = kind]
  /\ work' = [work EXCEPT ![r] = locals]
  /\ before' = [before EXCEPT ![r] = ended]
  /\ Goto(r, next)
  /\ UNCHANGED <<status, reviewing, verifying, disputing, ended>>

Forget(r) == work' = [work EXCEPT ![r] = NoWork]

Succeed(r) ==
  /\ Goto(r, "done") /\ Forget(r)
  /\ ended' = ended \cup {r}
  /\ UNCHANGED <<op, before>>

Fail(r) ==
  /\ Goto(r, "done") /\ Forget(r)
  /\ UNCHANGED <<op, before, ended>>

Proceed(r, next) == Goto(r, next) /\ UNCHANGED <<op, work, ended, before>>
At(r, kind, step) == op[r] = kind /\ pc[r] = step

(***************************************************************************)
(* Reviews.                                                                *)
(***************************************************************************)

GetByBookingID(b) == review[b]

\* What anyone can read on the page of the professional.
ListForProfessional == {b \in Bookings : review[b] # None}

\* reviews.Create finds no review of a completed booking.
CreateReview(r, b) ==
  /\ GetByBookingID(b) = None
  /\ status[b] = "completed"
  /\ Begin(r, "review", "write", [NoWork EXCEPT !.on = b])

\* INSERT, behind the unique index on booking_id.
InsertReview(r) ==
  /\ At(r, "review", "write")
  /\ \/ /\ review[work[r].on] = None
        /\ review' = [review EXCEPT ![work[r].on] = r]
        /\ Proceed(r, "read")
     \/ /\ review[work[r].on] # None
        /\ Fail(r)
        /\ UNCHANGED review
  /\ UNCHANGED <<status, response, rated, rater, verifying, disputing>>

\* Variant: the average is taken of the reviews there were before.
ReadOlderReviews(r) ==
  /\ At(r, "review", "read")
  /\ work' = [work EXCEPT ![r].seen = {b \in Bookings : review[b] \notin {None, r}}]
  /\ Goto(r, "store")
  /\ UNCHANGED <<status, reviewing, verifying, disputing, op, ended, before>>

\* RecomputeProfessional: SELECT AVG(rating), COUNT(*).
ReadReviews(r) ==
  /\ At(r, "review", "read")
  /\ work' = [work EXCEPT ![r].seen = {b \in Bookings : review[b] # None}]
  /\ Goto(r, "store")
  /\ UNCHANGED <<status, reviewing, verifying, disputing, op, ended, before>>

\* ... and UPDATE professionals.  The notification may fail unnoticed.
StoreRating(r) ==
  /\ At(r, "review", "store")
  /\ rated' = work[r].seen
  /\ rater' = r
  /\ Succeed(r)
  /\ UNCHANGED <<status, review, response, verifying, disputing>>

Respond(r, b) ==
  /\ review[b] # None
  /\ Begin(r, "respond", "write", [NoWork EXCEPT !.on = b])

\* Variant: UPDATE without "response IS NULL".
WriteAnyResponse(r) ==
  /\ At(r, "respond", "write")
  /\ response' = [response EXCEPT ![work[r].on] = r]
  /\ Succeed(r)
  /\ UNCHANGED <<status, review, rated, rater, verifying, disputing>>

\* UPDATE ... WHERE response IS NULL.
WriteResponse(r) ==
  /\ At(r, "respond", "write")
  /\ \/ /\ response[work[r].on] = None
        /\ response' = [response EXCEPT ![work[r].on] = r]
        /\ Succeed(r)
     \/ /\ response[work[r].on] # None
        /\ Fail(r)
        /\ UNCHANGED response
  /\ UNCHANGED <<status, review, rated, rater, verifying, disputing>>

(***************************************************************************)
(* Verification.                                                           *)
(***************************************************************************)

\* Submit inserts the document and leaves the professional's status alone.
Submit(r, d) ==
  /\ pc[r] = "idle"
  /\ document[d] = "none"
  /\ document' = [document EXCEPT ![d] = "PENDING"]
  /\ op' = [op EXCEPT ![r] = "submit"]
  /\ before' = [before EXCEPT ![r] = ended]
  /\ ended' = ended \cup {r}
  /\ Goto(r, "done")
  /\ UNCHANGED <<status, reviewing, judge, verification, audited, verifier, disputing, work>>

\* Review may judge a document that was judged before.
JudgeDocument(r, d, verdict) ==
  /\ document[d] # "none"
  /\ Begin(r, "judge", "write", [NoWork EXCEPT !.on = d, !.verdict = verdict])

\* SetStatus, whatever the status is by now.
SetDocumentStatus(r) ==
  /\ At(r, "judge", "write")
  /\ document' = [document EXCEPT ![work[r].on] = work[r].verdict]
  /\ judge' = [judge EXCEPT ![work[r].on] = r]
  /\ Proceed(r, "read")
  /\ UNCHANGED <<status, reviewing, verification, audited, verifier, disputing>>

\* Variant: one approved document is enough.
DeriveLeniently(docs) ==
  IF \E d \in docs : document[d] = "APPROVED" THEN "APPROVED"
  ELSE IF \E d \in docs : document[d] = "REJECTED" THEN "REJECTED"
  ELSE "PENDING"

\* recomputeVerificationStatus, from the documents as they are read.
Derive(docs) ==
  IF \E d \in docs : document[d] = "REJECTED" THEN "REJECTED"
  ELSE IF \A d \in docs : document[d] = "APPROVED" THEN "APPROVED"
  ELSE "PENDING"

ReadDocuments(r) ==
  /\ At(r, "judge", "read")
  /\ work' = [work EXCEPT ![r].verdict = Derive({d \in Documents : document[d] # "none"})]
  /\ Goto(r, "store")
  /\ UNCHANGED <<status, reviewing, verifying, disputing, op, ended, before>>

SetVerificationStatus(r) ==
  /\ At(r, "judge", "store")
  /\ verification' = IF work[r].verdict = "APPROVED" THEN "VERIFIED" ELSE work[r].verdict
  /\ verifier' = r
  /\ Proceed(r, "log")
  /\ UNCHANGED <<status, reviewing, document, judge, audited, disputing>>

\* Without its entry in the audit log a review is answered with an error.
LogReview(r) ==
  /\ At(r, "judge", "log")
  /\ audited' = audited \cup {r}
  /\ Succeed(r)
  /\ UNCHANGED <<status, reviewing, document, judge, verification, verifier, disputing>>

(***************************************************************************)
(* Disputes.                                                               *)
(***************************************************************************)

\* Raise: the booking was not cancelled when it was read.
Raise(r, b) ==
  /\ status[b] # "cancelled"
  /\ Begin(r, "raise", "write", [NoWork EXCEPT !.on = b])

InsertDispute(r) ==
  /\ At(r, "raise", "write")
  /\ \E d \in Disputes :
       /\ dispute[d] = None
       /\ dispute' = [dispute EXCEPT ![d] = work[r].on]
  /\ Succeed(r)
  /\ UNCHANGED <<status, reviewing, verifying, resolution, posted>>

Raised(d) == dispute[d] # None

\* What administrators and the parties of a dispute can read.
ListDisputes == {d \in Disputes : Raised(d)}
ListMessages(d) == {r \in Requests : <<d, r>> \in posted}

\* AddMessage reads an OPEN dispute, and inserts later.
AddMessage(r, d) ==
  /\ Raised(d) /\ resolution[d] = None
  /\ Begin(r, "post", "write", [NoWork EXCEPT !.on = d])

InsertMessage(r) ==
  /\ At(r, "post", "write")
  /\ posted' = posted \cup {<<work[r].on, r>>}
  /\ Succeed(r)
  /\ UNCHANGED <<status, reviewing, verifying, dispute, resolution>>

\* Resolve: UPDATE ... WHERE status = 'OPEN'; whoever comes second is refused.
Resolve(r, d) ==
  /\ Raised(d)
  /\ pc[r] = "idle"
  /\ op' = [op EXCEPT ![r] = "resolve"]
  /\ before' = [before EXCEPT ![r] = ended]
  /\ IF resolution[d] = None
     THEN /\ resolution' = [resolution EXCEPT ![d] = r]
          /\ work' = [work EXCEPT ![r].on = d]
          /\ Goto(r, "log")
     ELSE /\ Goto(r, "done")
          /\ UNCHANGED <<resolution, work>>
  /\ UNCHANGED <<status, reviewing, verifying, dispute, posted, ended>>

\* The row and the booking are read back, the other party is notified.
AnswerResolve(r) ==
  /\ At(r, "resolve", "log")
  /\ Succeed(r)
  /\ UNCHANGED <<status, reviewing, verifying, disputing>>

(***************************************************************************)
(* The bookings go their way; a request ends anywhere.                     *)
(***************************************************************************)
SetBooking(b, s) ==
  /\ s # status[b]
  /\ status[b] = "open" \/ s = "open"  \* Confirm brings back any booking
  /\ status' = [status EXCEPT ![b] = s]
  /\ UNCHANGED <<reviewing, verifying, disputing, progress>>

Abandon(r) ==
  /\ pc[r] \notin {"idle", "done"}
  /\ Fail(r)
  /\ UNCHANGED <<status, reviewing, verifying, disputing>>

Start(r) ==
  \/ \E b \in Bookings : CreateReview(r, b) \/ Respond(r, b) \/ Raise(r, b)
  \/ \E d \in Documents : Submit(r, d) \/ \E v \in {"APPROVED", "REJECTED"} : JudgeDocument(r, d, v)
  \/ \E d \in Disputes : AddMessage(r, d) \/ Resolve(r, d)

Continue(r) ==
  \/ InsertReview(r) \/ ReadReviews(r) \/ StoreRating(r) \/ WriteResponse(r)
  \/ SetDocumentStatus(r) \/ ReadDocuments(r) \/ SetVerificationStatus(r) \/ LogReview(r)
  \/ InsertDispute(r) \/ InsertMessage(r) \/ AnswerResolve(r)
  \/ Abandon(r)

Next ==
  \/ \E r \in Requests : Start(r) \/ Continue(r)
  \/ \E b \in Bookings, s \in {"open", "completed", "cancelled"} : SetBooking(b, s)

Spec == Init /\ [][Next]_vars

(***************************************************************************)
(* Properties.                                                             *)
(***************************************************************************)

\* The rating that a professional shows lacks a review only if another review
\* was being created at the same time (store.go:165-179): read and write are two
\* statements, so an older average may win a race, but nothing else.
MissingOnlyIfConcurrent ==
  \A b \in Bookings \ rated :
    review[b] \in ended => rater # review[b] /\ Concurrent(rater, review[b])

\* A professional shows as VERIFIED next to a document that an administrator
\* rejected, and was told so, only if another document was being judged at the
\* same time (service.go:118-140).
VerifiedOnlyIfConcurrent ==
  \A d \in Documents :
    document[d] = "REJECTED" /\ judge[d] \in ended /\ verification = "VERIFIED"
      => verifier # judge[d] /\ Concurrent(verifier, judge[d])

\* Who was told that a review, a response, a message or a resolution was accepted
\* finds it where it is read, for good: of several requests for the same row one
\* succeeds.
AcceptedStays ==
  \A r \in ended :
    /\ op[r] = "review" => \E b \in ListForProfessional : review[b] = r
    /\ op[r] = "respond" => \E b \in ListForProfessional : response[b] = r
    /\ op[r] = "post" => \E d \in ListDisputes : r \in ListMessages(d)
    /\ op[r] = "resolve" => \E d \in ListDisputes : resolution[d] = r
    /\ op[r] = "judge" => r \in audited
=============================================================================
