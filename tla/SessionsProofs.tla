--------------------------- MODULE SessionsProofs ---------------------------
(* What sign-in, sessions and codes guarantee for any number of accounts,    *)
(* addresses, sessions and concurrent requests.                              *)
EXTENDS Sessions, TLAPS

-----------------------------------------------------------------------------
(* The inductive invariant *)

\* What the local variables of a request stand for at its next step.
Local(r) ==
  /\ pc[r] \in {"insert", "store", "fetch", "mail"} =>
       /\ work[r].email \in Emails /\ work[r].session = None
       /\ op[r] # "refresh"
  /\ pc[r] \in {"store", "fetch", "mail"} /\ op[r] = "register" => work[r].user \in Accounts
  /\ pc[r] \in {"find", "mark", "spend"} => work[r].email \in Emails
  /\ pc[r] \in {"mark", "spend", "read"} => work[r].user \in Accounts
  /\ pc[r] = "active" => op[r] = "refresh"
  /\ pc[r] \in {"active", "revoke"} =>
       /\ work[r].session \in SessionIds /\ owner[work[r].session] # None
       /\ op[r] = "refresh" => work[r].user \in Accounts
  /\ pc[r] = "issue" =>
       /\ work[r].user \in Accounts
       /\ op[r] = "refresh" => work[r].session \in revoked
       /\ op[r] # "refresh" => work[r].session = None

Working == \A r \in Requests : Local(r)

\* A revoked session is handed over by one request, and a session without a
\* row has no parent.
OneHandsOver ==
  \A r, q \in Requests :
    /\ pc[r] = "issue" /\ op[r] = "refresh"
    /\ pc[q] = "issue" /\ op[q] = "refresh"
    /\ work[r].session = work[q].session
    => r = q

UnusedIsFresh == \A s \in SessionIds : owner[s] = None => parent[s] = None

\* The code a request is about to read back is there, or it served; and a code
\* is spent for an account that is verified.
CodeFound ==
  \A r \in Requests :
    /\ pc[r] = "fetch" => codes[work[r].email] # None \/ \E a \in used[r] : a \in verified
    /\ pc[r] = "spend" => work[r].user \in verified

Typed == TypeOK /\ Working
IInv == Typed /\ OneHandsOver /\ UnusedIsFresh

-----------------------------------------------------------------------------
(* Steps of a request *)

\* One request moves.
Moves(r) ==
  /\ pc' \in [Requests -> Steps] /\ op' \in [Requests -> Operations]
  /\ work' \in [Requests -> Locals]
  /\ \A q \in Requests \ {r} : pc'[q] = pc[q] /\ op'[q] = op[q] /\ work'[q] = work[q]

\* Rows of sessions stay, and stay revoked.
Grows ==
  /\ \A s \in SessionIds : owner[s] # None => owner'[s] # None
  /\ revoked \subseteq revoked'

LEMMA OthersKeep ==
  ASSUME Typed, NEW r \in Requests, Moves(r), Grows, Local(r)'
  PROVE  Working'
  <1> SUFFICES ASSUME NEW q \in Requests \ {r} PROVE Local(q)'
    BY DEF Working
  <1>1. pc'[q] = pc[q] /\ op'[q] = op[q] /\ work'[q] = work[q]
    BY DEF Moves
  <1>2. Local(q)
    BY DEF Typed, Working
  <1> QED
    BY <1>1, <1>2 DEF Local, Grows

LEMMA NothingIsLocal == NoWork \in Locals
  BY DEF NoWork, Locals, Maybe

LEMMA FinishMoves ==
  ASSUME TypeOK, NEW r \in Requests, Finish(r)
  PROVE  Moves(r) /\ pc'[r] = "done" /\ op'[r] = "none" /\ Local(r)'
  BY NothingIsLocal DEF TypeOK, Finish, Goto, Moves, Local, Steps, Operations

LEMMA GotoMoves ==
  ASSUME TypeOK, NEW r \in Requests, NEW step \in Steps, Goto(r, step), UNCHANGED <<op, work>>
  PROVE  Moves(r) /\ pc'[r] = step
  BY DEF TypeOK, Goto, Moves

LEMMA WorkMoves ==
  ASSUME TypeOK, NEW r \in Requests, NEW step \in Steps, Goto(r, step), UNCHANGED op,
         NEW w \in Locals, work' = [work EXCEPT ![r] = w]
  PROVE  Moves(r) /\ pc'[r] = step /\ work'[r] = w /\ op'[r] = op[r]
  BY DEF TypeOK, Goto, Moves

LEMMA BeginMoves ==
  ASSUME TypeOK, NEW r \in Requests, NEW kind \in Operations, NEW step \in Steps,
         NEW locals \in Locals, Begin(r, kind, step, locals)
  PROVE  /\ Moves(r) /\ pc'[r] = step /\ op'[r] = kind /\ work'[r] = locals
         /\ UNCHANGED <<rows, sessions, mail>>
  BY DEF TypeOK, Goto, Begin, Moves

RowTypes == email \in [Accounts -> Maybe(Emails)] /\ active \subseteq Accounts /\ verified \subseteq Accounts
SessionTypes ==
  /\ owner \in [SessionIds -> Maybe(Accounts)]
  /\ revoked \subseteq {s \in SessionIds : owner[s] # None}
  /\ parent \in [SessionIds -> Maybe(SessionIds)]
MailTypes ==
  /\ codes \in [Emails -> Maybe(Requests)]
  /\ mails \subseteq [to : Emails, code : Maybe(Requests)]
  /\ used \in [Requests -> SUBSET Accounts]

LEMMA TypesNow == ASSUME TypeOK PROVE RowTypes /\ SessionTypes /\ MailTypes
  BY DEF TypeOK, RowTypes, SessionTypes, MailTypes

LEMMA TypesKept ==
  ASSUME Typed, NEW r \in Requests, Moves(r), Grows, Local(r)',
         RowTypes', SessionTypes', MailTypes'
  PROVE  Typed'
  <1>1. Working'
    BY OthersKeep
  <1> QED
    BY <1>1 DEF Typed, TypeOK, Moves, RowTypes, SessionTypes, MailTypes

LEMMA SameRows == ASSUME RowTypes, UNCHANGED rows PROVE RowTypes'
  BY DEF RowTypes, rows
LEMMA SameSessions == ASSUME SessionTypes, UNCHANGED sessions PROVE SessionTypes' /\ Grows
  BY DEF SessionTypes, sessions, Grows
LEMMA SameMail == ASSUME MailTypes, UNCHANGED mail PROVE MailTypes'
  BY DEF MailTypes, mail

\* A step of a request that touches its local variables only.
LEMMA QuietKeepsTypes ==
  ASSUME Typed, NEW r \in Requests, Moves(r), Local(r)', UNCHANGED <<rows, sessions, mail>>
  PROVE  Typed'
  BY TypesNow, SameRows, SameSessions, SameMail, TypesKept DEF Typed

-----------------------------------------------------------------------------
(* Each action keeps the types. *)

LEMMA Fields ==
  ASSUME TypeOK, NEW r \in Requests
  PROVE  /\ work[r] \in Locals /\ work[r].email \in Maybe(Emails)
         /\ work[r].user \in Maybe(Accounts) /\ work[r].session \in Maybe(SessionIds)
         /\ work[r].code \in Maybe(Requests)
         /\ pc[r] \in Steps /\ op[r] \in Operations
  BY DEF TypeOK, Locals

LEMMA WithFields ==
  ASSUME NEW w \in Locals
  PROVE  /\ \A e \in Maybe(Emails) : [w EXCEPT !.email = e] \in Locals
         /\ \A a \in Maybe(Accounts) : [w EXCEPT !.user = a] \in Locals
         /\ \A c \in Maybe(Requests) : [w EXCEPT !.code = c] \in Locals
  BY DEF Locals

LEMMA StartKeepsTypes ==
  ASSUME Typed, NEW r \in Requests, Start(r)
  PROVE  Typed' /\ UNCHANGED <<rows, sessions, mail>> /\ pc'[r] \notin {"fetch", "mail", "spend"}
         /\ (pc'[r] = "issue" => op'[r] # "refresh") /\ Moves(r) /\ pc[r] = "idle"
  <1> DEFINE Goal(kind, step, l) ==
        Begin(r, kind, step, l) => /\ UNCHANGED <<rows, sessions, mail>>
                                   /\ Moves(r) /\ pc[r] = "idle" /\ pc'[r] = step
                                   /\ op'[r] = kind /\ work'[r] = l
  <1>0. \A kind \in Operations, step \in Steps, l \in Locals : Goal(kind, step, l)
    BY BeginMoves DEF Typed, Begin
  <1> HIDE DEF Goal
  <1>1. ASSUME NEW e \in Emails, Register(r, e) PROVE
          /\ UNCHANGED <<rows, sessions, mail>> /\ Moves(r) /\ Local(r)' /\ pc[r] = "idle" /\ pc'[r] = "insert"
    <2> DEFINE l == [NoWork EXCEPT !.email = e]
    <2>1. l \in Locals
      BY DEF NoWork, Locals, Maybe
    <2>2. Begin(r, "register", "insert", l)
      BY <1>1 DEF Register
    <2>3. Goal("register", "insert", l)
      BY <1>0, <2>1 DEF Operations, Steps
    <2> QED
      BY <2>2, <2>3 DEF Goal, Local, NoWork
  <1>2. ASSUME NEW e \in Emails, SocialLogin(r, e) PROVE
          /\ UNCHANGED <<rows, sessions, mail>> /\ Moves(r) /\ Local(r)' /\ pc[r] = "idle"
          /\ pc'[r] \in {"insert", "issue"} /\ op'[r] = "social"
    <2>1. CASE Begin(r, "social", "insert", [NoWork EXCEPT !.email = e])
      <3> DEFINE l == [NoWork EXCEPT !.email = e]
      <3>1. l \in Locals
        BY DEF NoWork, Locals, Maybe
      <3>3. Goal("social", "insert", l)
        BY <1>0, <3>1 DEF Operations, Steps
      <3> QED
        BY <2>1, <3>3 DEF Goal, Local, NoWork
    <2>2. ASSUME NEW a \in Accounts, Begin(r, "social", "issue", [NoWork EXCEPT !.email = e, !.user = a])
          PROVE  /\ UNCHANGED <<rows, sessions, mail>> /\ Moves(r) /\ Local(r)' /\ pc[r] = "idle"
                 /\ pc'[r] \in {"insert", "issue"} /\ op'[r] = "social"
      <3> DEFINE l == [NoWork EXCEPT !.email = e, !.user = a]
      <3>1. l \in Locals
        BY DEF NoWork, Locals, Maybe
      <3>3. Goal("social", "issue", l)
        BY <1>0, <3>1 DEF Operations, Steps
      <3> QED
        BY <2>2, <3>3 DEF Goal, Local, NoWork
    <2> QED
      BY <1>2, <2>1, <2>2 DEF SocialLogin, GetByEmail
  <1>3. ASSUME NEW e \in Emails, RequestEmailVerification(r, e) PROVE
          /\ UNCHANGED <<rows, sessions, mail>> /\ Moves(r) /\ Local(r)' /\ pc[r] = "idle" /\ pc'[r] = "store"
    <2> DEFINE l == [NoWork EXCEPT !.email = e]
    <2>1. l \in Locals
      BY DEF NoWork, Locals, Maybe
    <2>2. Begin(r, "code", "store", l)
      BY <1>3 DEF RequestEmailVerification
    <2>3. Goal("code", "store", l)
      BY <1>0, <2>1 DEF Operations, Steps
    <2> QED
      BY <2>2, <2>3 DEF Goal, Local, NoWork
  <1>4. ASSUME NEW e \in Emails, VerifyEmail(r, e) PROVE
          /\ UNCHANGED <<rows, sessions, mail>> /\ Moves(r) /\ Local(r)' /\ pc[r] = "idle" /\ pc'[r] = "find"
    <2> DEFINE l == [NoWork EXCEPT !.email = e]
    <2>1. l \in Locals
      BY DEF NoWork, Locals, Maybe
    <2>2. Begin(r, "verify", "find", l)
      BY <1>4 DEF VerifyEmail
    <2>3. Goal("verify", "find", l)
      BY <1>0, <2>1 DEF Operations, Steps
    <2> QED
      BY <2>2, <2>3 DEF Goal, Local, NoWork
  <1>5. ASSUME NEW a \in Accounts, Login(r, a) PROVE
          /\ UNCHANGED <<rows, sessions, mail>> /\ Moves(r) /\ Local(r)' /\ pc[r] = "idle" /\ pc'[r] = "issue"
          /\ op'[r] = "login"
    <2> DEFINE l == [NoWork EXCEPT !.user = a]
    <2>1. l \in Locals
      BY DEF NoWork, Locals, Maybe
    <2>2. Begin(r, "login", "issue", l)
      BY <1>5 DEF Login
    <2>3. Goal("login", "issue", l)
      BY <1>0, <2>1 DEF Operations, Steps
    <2> QED
      BY <2>2, <2>3 DEF Goal, Local, NoWork
  <1>6. ASSUME NEW a \in Accounts, NEW e \in Maybe(Emails), UpdateProfile(r, a, e) PROVE
          /\ UNCHANGED <<rows, sessions, mail>> /\ Moves(r) /\ Local(r)' /\ pc[r] = "idle" /\ pc'[r] = "read"
    <2> DEFINE l == [NoWork EXCEPT !.user = a, !.email = e]
    <2>1. l \in Locals
      BY DEF NoWork, Locals, Maybe
    <2>2. Begin(r, "profile", "read", l)
      BY <1>6 DEF UpdateProfile
    <2>3. Goal("profile", "read", l)
      BY <1>0, <2>1 DEF Operations, Steps
    <2> QED
      BY <2>2, <2>3 DEF Goal, Local, NoWork
  <1>7. ASSUME NEW s \in SessionIds, Refresh(r, s) PROVE
          /\ UNCHANGED <<rows, sessions, mail>> /\ Moves(r) /\ Local(r)' /\ pc[r] = "idle" /\ pc'[r] = "active"
    <2> DEFINE l == [NoWork EXCEPT !.session = s, !.user = owner[s]]
    <2>0. owner[s] \in Accounts
      BY <1>7 DEF Refresh, Found, Typed, TypeOK, Maybe
    <2>1. l \in Locals
      BY <2>0 DEF NoWork, Locals, Maybe
    <2>2. Begin(r, "refresh", "active", l) /\ owner[s] # None
      BY <1>7 DEF Refresh, Found
    <2>3. Goal("refresh", "active", l)
      BY <1>0, <2>1 DEF Operations, Steps
    <2>4. owner' = owner
      BY <2>2, <2>3 DEF Goal, sessions
    <2> QED
      BY <2>0, <2>2, <2>3, <2>4 DEF Goal, Local, NoWork
  <1>8. ASSUME NEW s \in SessionIds, Logout(r, s) PROVE
          /\ UNCHANGED <<rows, sessions, mail>> /\ Moves(r) /\ Local(r)' /\ pc[r] = "idle" /\ pc'[r] = "revoke"
    <2> DEFINE l == [NoWork EXCEPT !.session = s]
    <2>1. l \in Locals
      BY DEF NoWork, Locals, Maybe
    <2>2. Begin(r, "logout", "revoke", l) /\ owner[s] # None
      BY <1>8 DEF Logout, Found
    <2>3. Goal("logout", "revoke", l)
      BY <1>0, <2>1 DEF Operations, Steps
    <2>4. owner' = owner
      BY <2>2, <2>3 DEF Goal, sessions
    <2> QED
      BY <2>2, <2>3, <2>4 DEF Goal, Local, NoWork
  <1>9. /\ UNCHANGED <<rows, sessions, mail>> /\ Moves(r) /\ Local(r)' /\ pc[r] = "idle"
        /\ pc'[r] \notin {"fetch", "mail", "spend"} /\ (pc'[r] = "issue" => op'[r] # "refresh")
    BY <1>1, <1>2, <1>3, <1>4, <1>5, <1>6, <1>7, <1>8 DEF Start
  <1> QED
    BY <1>9, QuietKeepsTypes

LEMMA InsertUserKeepsTypes ==
  ASSUME Typed, NEW r \in Requests, InsertUser(r)
  PROVE  Typed' /\ Moves(r)
  <1> USE TypesNow, Fields, NothingIsLocal DEF Typed
  <1>0. Local(r) /\ work[r].email \in Emails /\ work[r].session = None /\ op[r] # "refresh"
    BY DEF Working, Local, InsertUser
  <1>1. UNCHANGED <<sessions, mail>>
    BY DEF InsertUser
  <1>2. SessionTypes' /\ Grows /\ MailTypes' /\ revoked' = revoked
    BY <1>1, SameSessions, SameMail DEF sessions
  <1>3. ASSUME NEW a \in Accounts, work' = [work EXCEPT ![r].user = a],
               email' = email \/ email' = [email EXCEPT ![a] = work[r].email],
               active' = active \/ active' = active \cup {a}, verified' = verified,
               op' = op, Goto(r, "store") \/ Goto(r, "issue")
        PROVE  Typed' /\ Moves(r)
    <2> DEFINE w == [work[r] EXCEPT !.user = a]
    <2>1. w \in Locals
      BY WithFields DEF Maybe
    <2>2. work' = [work EXCEPT ![r] = w]
      BY <1>3 DEF TypeOK
    <2>4. w.email = work[r].email /\ w.session = work[r].session /\ w.user = a
      BY DEF Locals
    <2> HIDE DEF w
    <2>7. PICK step \in Steps : Goto(r, step) /\ step \in {"store", "issue"}
      BY <1>3 DEF Steps
    <2>3. Moves(r) /\ pc'[r] \in {"store", "issue"} /\ work'[r] = w /\ op'[r] = op[r]
      BY <1>3, <2>1, <2>2, <2>7, WorkMoves
    <2>5. Local(r)'
      BY <1>0, <2>3, <2>4 DEF Local
    <2>6. RowTypes'
      BY <1>0, <1>3 DEF RowTypes, Maybe
    <2> QED
      BY <1>2, <2>3, <2>5, <2>6, TypesKept
  <1>4. ASSUME Finish(r), UNCHANGED rows PROVE Typed' /\ Moves(r)
    BY <1>1, <1>4, FinishMoves, QuietKeepsTypes
  <1>5. CASE GetByEmail(work[r].email) = {} /\ ~(UNCHANGED rows)
    BY <1>3, <1>5, <1>4 DEF InsertUser
  <1> QED
    BY <1>3, <1>4 DEF InsertUser, GetByEmail, rows

LEMMA IssueTokensKeepsTypes ==
  ASSUME Typed, NEW r \in Requests, IssueTokens(r)
  PROVE  Typed' /\ Moves(r)
  <1> USE TypesNow, Fields DEF Typed
  <1>1. Moves(r) /\ Local(r)' /\ UNCHANGED <<rows, mail, revoked>>
    BY FinishMoves DEF IssueTokens
  <1>2. PICK s \in SessionIds :
          /\ owner[s] = None
          /\ owner' = [owner EXCEPT ![s] = work[r].user]
          /\ parent' = [parent EXCEPT ![s] = work[r].session]
    BY DEF IssueTokens, CreateSession
  <1>3. SessionTypes' /\ Grows
    BY <1>1, <1>2 DEF SessionTypes, Grows
  <1> QED
    BY <1>1, <1>3, SameRows, SameMail, TypesKept

LEMMA RevokeKeepsTypes ==
  ASSUME Typed, NEW r \in Requests, Revoke(r)
  PROVE  Typed' /\ Moves(r)
  <1> USE TypesNow, Fields DEF Typed
  <1>0. Local(r) /\ pc[r] = "revoke" /\ UNCHANGED <<rows, mail, owner, parent>>
        /\ revoked' = revoked \cup {work[r].session}
    BY DEF Working, Revoke
  <1>1. SessionTypes' /\ Grows
    BY <1>0 DEF Local, SessionTypes, Grows
  <1>2. Moves(r) /\ Local(r)'
    <2>1. CASE op[r] = "refresh" /\ StillActive(work[r].session)
      <3>1. Goto(r, "issue") /\ UNCHANGED <<op, work>>
        BY <2>1 DEF Revoke
      <3>2. Moves(r) /\ pc'[r] = "issue"
        BY <3>1, GotoMoves DEF Steps
      <3> QED
        BY <1>0, <2>1, <3>1, <3>2 DEF Local
    <2>2. CASE Finish(r)
      BY <2>2, FinishMoves
    <2> QED
      BY <2>1, <2>2 DEF Revoke
  <1> QED
    BY <1>0, <1>1, <1>2, SameRows, SameMail, TypesKept

\* AfterMail leads to the tokens of a registration, or to the end.
LEMMA AfterMailMoves ==
  ASSUME Typed, NEW r \in Requests, pc[r] \in {"store", "mail"}, AfterMail(r)
  PROVE  /\ Moves(r) /\ Local(r)' /\ pc'[r] \in {"issue", "done"}
         /\ pc'[r] = "issue" => op'[r] # "refresh"
  <1> USE DEF Typed
  <1>1. Local(r)
    BY DEF Working
  <1>2. CASE op[r] = "register"
    <2>1. Goto(r, "issue") /\ UNCHANGED <<op, work>>
      BY <1>2 DEF AfterMail
    <2>2. Moves(r) /\ pc'[r] = "issue"
      BY <2>1, GotoMoves DEF Steps
    <2> QED
      BY <1>1, <1>2, <2>1, <2>2 DEF Local
  <1>3. CASE op[r] # "register"
    BY <1>3, FinishMoves DEF AfterMail
  <1> QED
    BY <1>2, <1>3

LEMMA StoreCodeKeepsTypes ==
  ASSUME Typed, NEW r \in Requests, StoreCode(r)
  PROVE  Typed' /\ Moves(r)
  <1> USE TypesNow DEF Typed
  <1>1. Local(r) /\ UNCHANGED <<rows, sessions, mails, used, op, work>> /\ pc[r] = "store"
    BY DEF Working, StoreCode
  <1>2. Moves(r) /\ pc'[r] = "fetch"
    BY <1>1, GotoMoves DEF StoreCode, Steps
  <1>3. Local(r)'
    BY <1>1, <1>2 DEF Local
  <1>4. MailTypes'
    BY <1>1 DEF StoreCode, MailTypes, Maybe
  <1> QED
    BY <1>1, <1>2, <1>3, <1>4, SameRows, SameSessions, TypesKept

LEMMA FetchKeepsTypes ==
  ASSUME Typed, NEW r \in Requests, FetchCode(r) \/ FetchFails(r)
  PROVE  Typed' /\ Moves(r)
  <1> USE TypesNow, Fields DEF Typed
  <1>1. Local(r) /\ UNCHANGED <<rows, sessions, codes, mails, op>> /\ pc[r] = "fetch" /\ Goto(r, "mail")
    BY DEF Working, FetchCode, FetchFails, mail
  <1>2. Moves(r) /\ Local(r)'
    <2>1. PICK w \in Locals : /\ work' = [work EXCEPT ![r] = w]
                              /\ w.email = work[r].email /\ w.session = work[r].session
                              /\ w.user = work[r].user
      <3>1. CASE FetchCode(r)
        <4> DEFINE c == codes[work[r].email]  w == [work[r] EXCEPT !.code = c]
        <4>1. c \in Maybe(Requests)
          BY <1>1 DEF Local, TypeOK
        <4>2. w \in Locals
          BY <4>1, WithFields
        <4>3. work' = [work EXCEPT ![r] = w]
          BY <3>1 DEF FetchCode, TypeOK
        <4> QED
          BY <4>2, <4>3 DEF Locals
      <3>2. CASE FetchFails(r)
        <4>1. work' = [work EXCEPT ![r] = work[r]]
          BY <3>2 DEF FetchFails, TypeOK
        <4> QED
          BY <4>1
      <3> QED
        BY <3>1, <3>2
    <2>2. Moves(r) /\ pc'[r] = "mail" /\ work'[r] = w /\ op'[r] = op[r]
      BY <1>1, <2>1, WorkMoves DEF Steps
    <2> QED
      BY <1>1, <2>1, <2>2 DEF Local
  <1>3. MailTypes'
    BY <1>1 DEF FetchCode, FetchFails, MailTypes, mail
  <1> QED
    BY <1>1, <1>2, <1>3, SameRows, SameSessions, TypesKept

LEMMA MailKeepsTypes ==
  ASSUME Typed, NEW r \in Requests, DeliverCode(r) \/ MailFails(r)
  PROVE  Typed' /\ Moves(r) /\ (pc'[r] = "issue" => op'[r] # "refresh") /\ pc'[r] \in {"issue", "done"}
  <1> USE TypesNow, Fields DEF Typed
  <1>1. Local(r) /\ UNCHANGED <<rows, sessions, codes, used>> /\ AfterMail(r) /\ pc[r] \in {"store", "mail"}
    BY DEF Working, DeliverCode, MailFails, mail
  <1>2. /\ Moves(r) /\ Local(r)' /\ pc'[r] \in {"issue", "done"}
        /\ pc'[r] = "issue" => op'[r] # "refresh"
    BY <1>1, AfterMailMoves
  <1>3. MailTypes'
    BY <1>1 DEF DeliverCode, MailFails, MailTypes, mail, Local
  <1> QED
    BY <1>1, <1>2, <1>3, SameRows, SameSessions, TypesKept

LEMMA VerifyKeepsTypes ==
  ASSUME Typed, NEW r \in Requests, FindAccount(r) \/ MarkEmailVerified(r) \/ SpendCode(r)
  PROVE  Typed' /\ Moves(r)
  <1> USE TypesNow, Fields DEF Typed
  <1>0. Local(r)
    BY DEF Working
  <1>1. CASE FindAccount(r)
    <2>1. UNCHANGED <<rows, sessions, mail>>
      BY <1>1 DEF FindAccount
    <2>2. ASSUME NEW a \in Accounts, work' = [work EXCEPT ![r].user = a], Goto(r, "mark"), UNCHANGED op
          PROVE  Moves(r) /\ Local(r)'
      <3> DEFINE w == [work[r] EXCEPT !.user = a]
      <3>1. w \in Locals
        BY WithFields DEF Maybe
      <3>2. work' = [work EXCEPT ![r] = w]
        BY <2>2 DEF TypeOK
      <3>3. Moves(r) /\ pc'[r] = "mark" /\ work'[r] = w /\ op'[r] = op[r]
        BY <2>2, <3>1, <3>2, WorkMoves DEF Steps
      <3>4. w.email = work[r].email /\ w.user = a
        BY DEF Locals
      <3> QED
        BY <1>0, <1>1, <3>3, <3>4 DEF Local, FindAccount
    <2>3. Moves(r) /\ Local(r)'
      BY <1>1, <2>2, FinishMoves DEF FindAccount, GetByEmail
    <2> QED
      BY <2>1, <2>3, QuietKeepsTypes
  <1>2. CASE MarkEmailVerified(r)
    <2>1. UNCHANGED <<email, active, sessions, mail, op, work>> /\ pc[r] = "mark" /\ Goto(r, "spend")
      BY <1>2 DEF MarkEmailVerified
    <2>2. Moves(r) /\ pc'[r] = "spend"
      BY <2>1, GotoMoves DEF Steps
    <2>3. Local(r)'
      BY <1>0, <2>1, <2>2 DEF Local
    <2>4. RowTypes'
      BY <1>0, <1>2, <2>1 DEF MarkEmailVerified, RowTypes, Local
    <2> QED
      BY <2>1, <2>2, <2>3, <2>4, SameSessions, SameMail, TypesKept
  <1>3. CASE SpendCode(r)
    <2>1. Moves(r) /\ Local(r)' /\ UNCHANGED <<rows, sessions, mails>>
      BY <1>3, FinishMoves DEF SpendCode
    <2>2. work[r].email \in Emails /\ work[r].user \in Accounts
      BY <1>0, <1>3 DEF SpendCode, Local
    <2>3. codes' \in [Emails -> Maybe(Requests)]
      BY <1>3, <2>2 DEF SpendCode, MailTypes, Maybe
    <2>4. used' \in [Requests -> SUBSET Accounts]
      BY <1>3, <2>2 DEF SpendCode, MailTypes
    <2>5. MailTypes'
      BY <2>1, <2>3, <2>4 DEF MailTypes
    <2> QED
      BY <2>1, <2>5, SameRows, SameSessions, TypesKept
  <1> QED
    BY <1>1, <1>2, <1>3

LEMMA ProfileKeepsTypes ==
  ASSUME Typed, NEW r \in Requests, ReadUser(r) \/ WriteUser(r)
  PROVE  Typed' /\ Moves(r)
  <1> USE TypesNow, Fields DEF Typed
  <1>1. CASE ReadUser(r)
    <2> DEFINE e == IF work[r].email = None THEN email[work[r].user] ELSE work[r].email
               w == [work[r] EXCEPT !.email = e]
    <2>0. UNCHANGED <<rows, sessions, mail, op>> /\ Goto(r, "write") /\ pc[r] = "read"
      BY <1>1 DEF ReadUser
    <2>1. e \in Maybe(Emails)
      BY <2>0 DEF Working, Local, TypeOK
    <2>2. w \in Locals
      BY <2>1, WithFields
    <2>3. work' = [work EXCEPT ![r] = w]
      BY <1>1 DEF ReadUser, TypeOK
    <2> HIDE DEF w
    <2>4. Moves(r) /\ pc'[r] = "write" /\ work'[r] = w /\ op'[r] = op[r]
      BY <2>0, <2>2, <2>3, WorkMoves DEF Steps
    <2>5. Local(r)'
      BY <2>4 DEF Local
    <2> QED
      BY <2>0, <2>4, <2>5, QuietKeepsTypes
  <1>2. CASE WriteUser(r)
    <2>1. Moves(r) /\ Local(r)' /\ UNCHANGED <<active, verified, sessions, mail>>
      BY <1>2, FinishMoves DEF WriteUser
    <2>2. RowTypes'
      BY <1>2, <2>1 DEF WriteUser, RowTypes
    <2> QED
      BY <2>1, <2>2, SameSessions, SameMail, TypesKept
  <1> QED
    BY <1>1, <1>2

LEMMA EndKeepsTypes ==
  ASSUME Typed, NEW r \in Requests, Abandon(r) \/ CheckActive(r)
  PROVE  Typed' /\ Moves(r) /\ UNCHANGED <<rows, sessions, mail>>
  <1> USE TypesNow, Fields DEF Typed
  <1>1. UNCHANGED <<rows, sessions, mail>>
    BY DEF Abandon, CheckActive
  <1>2. CASE Finish(r)
    BY <1>1, <1>2, FinishMoves, QuietKeepsTypes
  <1>3. CASE CheckActive(r) /\ work[r].user \in active
    <2>1. Goto(r, "revoke") /\ UNCHANGED <<op, work>> /\ pc[r] = "active"
      BY <1>3 DEF CheckActive
    <2>2. Moves(r) /\ pc'[r] = "revoke"
      BY <2>1, GotoMoves DEF Steps
    <2>3. Local(r)'
      BY <1>1, <2>1, <2>2 DEF Working, Local, sessions
    <2> QED
      BY <1>1, <2>2, <2>3, QuietKeepsTypes
  <1> QED
    BY <1>1, <1>2, <1>3 DEF Abandon, CheckActive

LEMMA SurroundingsKeepTypes ==
  ASSUME Typed,
         (\E e \in Emails : CodeExpires(e)) \/ (\E a \in Accounts : SetStatus(a)) \/ UNCHANGED vars
  PROVE  Typed'
  <1> USE TypesNow DEF Typed
  <1>1. UNCHANGED <<sessions, pc, op, work>> /\ SessionTypes'
    BY SameSessions DEF CodeExpires, SetStatus, vars
  <1>2. RowTypes' /\ MailTypes'
    BY DEF CodeExpires, SetStatus, vars, rows, mail, RowTypes, MailTypes, Maybe
  <1>3. Working'
    BY <1>1 DEF Working, Local, sessions
  <1> QED
    BY <1>1, <1>2, <1>3 DEF TypeOK, RowTypes, MailTypes, SessionTypes

LEMMA InitTyped == Init => Typed
  <1> SUFFICES ASSUME Init PROVE Typed
    OBVIOUS
  <1>1. TypeOK
    BY NothingIsLocal DEF Init, TypeOK, Maybe, Steps, Operations
  <1>2. Working
    BY DEF Init, Working, Local
  <1> QED
    BY <1>1, <1>2 DEF Typed

LEMMA NextKeepsTypes == Typed /\ [Next]_vars => Typed'
  <1> SUFFICES ASSUME Typed, [Next]_vars PROVE Typed'
    OBVIOUS
  <1>1. ASSUME NEW r \in Requests, Start(r) PROVE Typed'
    BY <1>1, StartKeepsTypes
  <1>2. ASSUME NEW r \in Requests, Continue(r) PROVE Typed'
    BY <1>2, InsertUserKeepsTypes, IssueTokensKeepsTypes, RevokeKeepsTypes, StoreCodeKeepsTypes,
       FetchKeepsTypes, MailKeepsTypes, VerifyKeepsTypes, ProfileKeepsTypes, EndKeepsTypes
    DEF Continue
  <1> QED
    BY <1>1, <1>2, SurroundingsKeepTypes DEF Next

\* Every variable keeps its type, for any accounts, addresses, sessions and requests.
THEOREM TypeCorrect == Spec => []TypeOK
  <1>1. Typed => TypeOK
    BY DEF Typed
  <1> QED
    BY <1>1, InitTyped, NextKeepsTypes, PTL DEF Spec

-----------------------------------------------------------------------------
(* Addresses *)

LEMMA AddressesStayApart ==
  Typed /\ OneAccountPerEmail /\ [Next]_vars => OneAccountPerEmail'
  <1> SUFFICES ASSUME Typed, OneAccountPerEmail, [Next]_vars PROVE OneAccountPerEmail'
    OBVIOUS
  <1>1. CASE UNCHANGED email
    BY <1>1 DEF OneAccountPerEmail
  <1>2. ASSUME NEW r \in Requests, InsertUser(r), ~UNCHANGED email PROVE OneAccountPerEmail'
    <2>1. PICK a \in Accounts : email' = [email EXCEPT ![a] = work[r].email]
      BY <1>2 DEF InsertUser, rows
    <2>2. GetByEmail(work[r].email) = {}
      BY <1>2 DEF InsertUser, rows
    <2>3. \A b \in Accounts : email'[b] = IF b = a THEN work[r].email ELSE email[b]
      BY <2>1 DEF Typed, TypeOK
    <2> QED
      BY <2>2, <2>3 DEF OneAccountPerEmail, GetByEmail
  <1>3. ASSUME NEW r \in Requests, WriteUser(r), ~UNCHANGED email PROVE OneAccountPerEmail'
    <2> DEFINE a == work[r].user
    <2>1. email' = [email EXCEPT ![a] = work[r].email] /\ GetByEmail(work[r].email) \subseteq {a}
      BY <1>3 DEF WriteUser
    <2>2. \A b \in Accounts : email'[b] = IF b = a THEN work[r].email ELSE email[b]
      BY <2>1 DEF Typed, TypeOK
    <2> QED
      BY <2>1, <2>2 DEF OneAccountPerEmail, GetByEmail
  <1>4. ASSUME NEW r \in Requests, Start(r) PROVE UNCHANGED email
    BY <1>4, StartKeepsTypes DEF rows
  <1>5. ASSUME NEW r \in Requests, Continue(r), ~InsertUser(r), ~WriteUser(r) PROVE UNCHANGED email
    BY <1>5 DEF Continue, IssueTokens, CheckActive, Revoke, StoreCode, FetchCode, FetchFails, DeliverCode,
                MailFails, FindAccount, MarkEmailVerified, SpendCode, ReadUser, Abandon, rows
  <1>6. ASSUME (\E e \in Emails : CodeExpires(e)) \/ (\E a \in Accounts : SetStatus(a)) \/ UNCHANGED vars
        PROVE  UNCHANGED email
    BY <1>6 DEF CodeExpires, SetStatus, vars, rows
  <1> QED
    BY <1>1, <1>2, <1>3, <1>4, <1>5, <1>6 DEF Next

\* No two accounts ever share an address, however many sign-ups, social logins
\* and changes of address race.
THEOREM AddressesUnique == Spec => []OneAccountPerEmail
  <1>1. Init => OneAccountPerEmail
    BY DEF Init, OneAccountPerEmail
  <1> QED
    BY <1>1, InitTyped, NextKeepsTypes, AddressesStayApart, PTL DEF Spec

-----------------------------------------------------------------------------
(* Codes *)

\* A step after which the moved request is at no code, and that takes none.
LEMMA CodesStayFound ==
  ASSUME Typed, CodeFound, NEW r \in Requests, Moves(r), UNCHANGED <<verified, codes, used>>,
         pc'[r] \notin {"fetch", "spend"}
  PROVE  CodeFound'
  <1>1. \A q \in Requests \ {r} : pc'[q] = pc[q] /\ work'[q] = work[q]
    BY DEF Moves
  <1> QED
    BY <1>1 DEF CodeFound

LEMMA CodesKept ==
  Typed /\ CodeFound /\ [Next]_vars => CodeFound'
  <1> SUFFICES ASSUME Typed, CodeFound, [Next]_vars PROVE CodeFound'
    OBVIOUS
  <1>1. ASSUME NEW r \in Requests, Start(r) PROVE CodeFound'
    BY <1>1, StartKeepsTypes, CodesStayFound DEF rows, mail
  <1>2. ASSUME NEW r \in Requests, StoreCode(r) PROVE CodeFound'
    <2>1. /\ pc[r] = "store" /\ UNCHANGED <<verified, used, work>>
          /\ codes' = [codes EXCEPT ![work[r].email] = r] /\ pc' = [pc EXCEPT ![r] = "fetch"]
      BY <1>2 DEF StoreCode, rows, Goto
    <2>2. r # None /\ work[r].email \in Emails
      BY <2>1, SessionsConstants DEF Typed, Working, Local
    <2>3. \A e \in Emails : codes'[e] = IF e = work[r].email THEN r ELSE codes[e]
      BY <2>1, <2>2 DEF Typed, TypeOK
    <2>4. \A q \in Requests : pc'[q] = IF q = r THEN "fetch" ELSE pc[q]
      BY <2>1 DEF Typed, TypeOK
    <2>5. \A q \in Requests : pc[q] = "fetch" => work[q].email \in Emails
      BY DEF Typed, Working, Local
    <2> QED
      BY <2>1, <2>2, <2>3, <2>4, <2>5 DEF CodeFound
  <1>3. ASSUME NEW r \in Requests, FetchCode(r) \/ FetchFails(r) PROVE CodeFound'
    <2>1. UNCHANGED <<verified, codes, used>>
      BY <1>3 DEF FetchCode, FetchFails, rows, mail
    <2>2. Moves(r) /\ pc'[r] = "mail"
      BY <1>3, FetchKeepsTypes DEF FetchCode, FetchFails, Goto, Typed, TypeOK
    <2> QED
      BY <2>1, <2>2, CodesStayFound
  <1>4. ASSUME NEW r \in Requests, DeliverCode(r) \/ MailFails(r) PROVE CodeFound'
    <2>1. UNCHANGED <<verified, codes, used>>
      BY <1>4 DEF DeliverCode, MailFails, rows, mail
    <2>2. Moves(r) /\ pc'[r] \in {"issue", "done"}
      BY <1>4, MailKeepsTypes
    <2> QED
      BY <2>1, <2>2, CodesStayFound
  <1>5. ASSUME NEW r \in Requests, MarkEmailVerified(r) PROVE CodeFound'
    <2>1. /\ pc' = [pc EXCEPT ![r] = "spend"] /\ UNCHANGED <<codes, used, work>>
          /\ verified' = verified \cup {work[r].user}
      BY <1>5 DEF MarkEmailVerified, mail, Goto
    <2>2. \A q \in Requests : pc'[q] = IF q = r THEN "spend" ELSE pc[q]
      BY <2>1 DEF Typed, TypeOK
    <2> QED
      BY <2>1, <2>2 DEF CodeFound
  <1>6. ASSUME NEW r \in Requests, SpendCode(r) PROVE CodeFound'
    <2>1. pc[r] = "spend" /\ verified' = verified /\ Moves(r) /\ pc'[r] = "done"
      BY <1>6, FinishMoves DEF SpendCode, rows, Typed
    <2>2. \A q \in Requests \ {r} : pc'[q] = pc[q] /\ work'[q] = work[q]
      BY <2>1 DEF Moves
    <2>3. work[r].user \in verified
      BY <2>1 DEF CodeFound
    <2>4. ASSUME NEW q \in Requests \ {r}, pc[q] = "fetch"
          PROVE  codes'[work[q].email] # None \/ \E a \in used'[q] : a \in verified
      <3>1. CASE work[q].email = work[r].email
        <4>1. used'[q] = used[q] \cup {work[r].user}
          BY <1>6, <2>4, <3>1 DEF SpendCode
        <4> QED
          BY <2>3, <4>1
      <3>2. CASE work[q].email # work[r].email
        <4>1. used'[q] = used[q]
          BY <1>6, <2>4, <3>2 DEF SpendCode
        <4>2. work[q].email \in Emails
          BY <2>4 DEF Typed, Working, Local
        <4>3. codes'[work[q].email] = codes[work[q].email]
          BY <1>6, <3>2, <4>2 DEF SpendCode, Typed, TypeOK
        <4> QED
          BY <2>4, <4>1, <4>3 DEF CodeFound
      <3> QED
        BY <3>1, <3>2
    <2> QED
      BY <2>1, <2>2, <2>4 DEF CodeFound
  <1>7. ASSUME NEW r \in Requests,
               \/ InsertUser(r) \/ IssueTokens(r) \/ CheckActive(r) \/ Revoke(r)
               \/ FindAccount(r) \/ ReadUser(r) \/ WriteUser(r) \/ Abandon(r)
        PROVE  CodeFound'
    <2>1. Moves(r) /\ UNCHANGED <<verified, codes, used>>
      BY <1>7, InsertUserKeepsTypes, IssueTokensKeepsTypes, RevokeKeepsTypes, VerifyKeepsTypes,
         ProfileKeepsTypes, EndKeepsTypes
      DEF InsertUser, IssueTokens, Revoke, FindAccount, ReadUser, WriteUser, rows, mail
    <2>2. pc'[r] \notin {"fetch", "spend"}
      BY <1>7 DEF InsertUser, IssueTokens, CheckActive, Revoke, FindAccount, ReadUser, WriteUser, Abandon,
                  Finish, Goto, Typed, TypeOK
    <2> QED
      BY <2>1, <2>2, CodesStayFound
  <1>8. ASSUME NEW e \in Emails, CodeExpires(e) PROVE CodeFound'
    <2>1. /\ codes' = [codes EXCEPT ![e] = None] /\ UNCHANGED <<verified, used, pc, work>>
          /\ \A q \in Requests : pc[q] = "fetch" => work[q].email # e
      BY <1>8 DEF CodeExpires, rows
    <2>2. \A q \in Requests : pc[q] = "fetch" => work[q].email \in Emails
      BY DEF Typed, Working, Local
    <2>3. \A d \in Emails \ {e} : codes'[d] = codes[d]
      BY <2>1 DEF Typed, TypeOK
    <2> QED
      BY <2>1, <2>2, <2>3 DEF CodeFound
  <1>9. ASSUME (\E a \in Accounts : SetStatus(a)) \/ UNCHANGED vars PROVE CodeFound'
    BY <1>9 DEF SetStatus, vars, rows, mail, CodeFound
  <1> QED
    BY <1>1, <1>2, <1>3, <1>4, <1>5, <1>6, <1>7, <1>8, <1>9 DEF Next, Continue

\* While Redis answers, a request finds its code gone only after another one used
\* a code of that address, and verified an account with it.
THEOREM CodesServe == Spec => EmptyMailMeansUsed
  <1>1. Init => CodeFound
    BY DEF Init, CodeFound
  <1>2. CodeFound => \A r \in Requests :
          FetchCode(r) /\ codes[work[r].email] = None => \E a \in used[r] : a \in verified
    BY DEF CodeFound, FetchCode
  <1> QED
    BY <1>1, <1>2, InitTyped, NextKeepsTypes, CodesKept, PTL DEF Spec, EmptyMailMeansUsed

-----------------------------------------------------------------------------
(* Rotation *)

Holds(r) == pc[r] = "issue" /\ op[r] = "refresh"

\* A request that does not come to hold a session, nor held one, and leaves the
\* sessions alone is not seen from Rotation.
LEMMA QuietIsStutter ==
  ASSUME IInv, NEW r \in Requests, Moves(r), ~Holds(r), ~Holds(r)', UNCHANGED sessions
  PROVE  UNCHANGED R!vars /\ OneHandsOver' /\ UnusedIsFresh'
  <1>1. \A q \in Requests \ {r} : pc'[q] = pc[q] /\ op'[q] = op[q] /\ work'[q] = work[q]
    BY DEF Moves
  <1>2. \A s \in SessionIds : HandingOver(s)' = HandingOver(s)
    BY <1>1 DEF HandingOver, Holds
  <1>3. \A s \in SessionIds : SessionState(s)' = SessionState(s)
    BY <1>2 DEF SessionState, sessions
  <1>4. UNCHANGED R!vars
    BY <1>3 DEF R!vars, sessions
  <1>5. OneHandsOver'
    BY <1>1 DEF IInv, OneHandsOver, Holds
  <1>6. UnusedIsFresh'
    BY DEF IInv, UnusedIsFresh, sessions
  <1> QED
    BY <1>4, <1>5, <1>6

LEMMA IssueRotates ==
  ASSUME IInv, NEW r \in Requests, IssueTokens(r)
  PROVE  R!Next /\ OneHandsOver' /\ UnusedIsFresh'
  <1>0. PICK old : old = work[r].session
    OBVIOUS
  <1>1. Moves(r) /\ pc'[r] = "done" /\ pc[r] = "issue" /\ revoked' = revoked
    BY FinishMoves DEF IssueTokens, IInv, Typed
  <1>2. PICK t \in SessionIds :
          /\ owner[t] = None
          /\ owner' = [owner EXCEPT ![t] = work[r].user]
          /\ parent' = [parent EXCEPT ![t] = old]
    BY <1>0 DEF IssueTokens, CreateSession
  <1>3. /\ work[r].user \in Accounts
        /\ op[r] = "refresh" => old \in revoked
        /\ op[r] # "refresh" => old = None
    BY <1>0, <1>1 DEF IInv, Typed, Working, Local
  <1>4. /\ \A s \in SessionIds : owner'[s] = IF s = t THEN work[r].user ELSE owner[s]
        /\ \A s \in SessionIds : parent'[s] = IF s = t THEN old ELSE parent[s]
        /\ work[r].user # None /\ t \notin revoked
    BY <1>2, <1>3, SessionsConstants DEF IInv, Typed, TypeOK
  <1>5. \A q \in Requests \ {r} : pc'[q] = pc[q] /\ op'[q] = op[q] /\ work'[q] = work[q]
    BY <1>1 DEF Moves
  <1>6. OneHandsOver' /\ UnusedIsFresh'
    BY <1>1, <1>4, <1>5 DEF IInv, OneHandsOver, UnusedIsFresh
  <1>7. SessionState(t) = "unused" /\ SessionState(t)' = "live"
    BY <1>1, <1>2, <1>4 DEF SessionState
  <1>8. CASE op[r] = "refresh"
    <2>1. old \in SessionIds /\ old # t /\ owner[old] # None /\ old \in revoked
      BY <1>3, <1>4, <1>8 DEF IInv, Typed, TypeOK
    <2>2. HandingOver(old) /\ ~HandingOver(old)'
      BY <1>0, <1>1, <1>5, <1>8 DEF HandingOver, IInv, OneHandsOver
    <2>3. SessionState(old) = "handing over" /\ SessionState(old)' = "ended"
      BY <1>1, <1>4, <2>1, <2>2 DEF SessionState
    <2>4. \A s \in SessionIds \ {old, t} : HandingOver(s)' = HandingOver(s)
      BY <1>0, <1>1, <1>5, <1>8 DEF HandingOver
    <2>5. \A s \in SessionIds \ {old, t} : SessionState(s)' = SessionState(s)
      BY <1>1, <1>4, <2>4, <2>1 DEF SessionState
    <2>6. R!HandOver(old, t)
      <3> DEFINE f == [s \in SessionIds |-> SessionState(s)]
                 g == [s \in SessionIds |-> SessionState(s)']
      <3>1. g = [f EXCEPT ![old] = "ended", ![t] = "live"]
        BY <1>7, <2>1, <2>3, <2>5
      <3> QED
        BY <1>2, <1>7, <2>1, <2>3, <3>1 DEF R!HandOver
    <2> QED
      BY <1>6, <2>1, <2>6 DEF R!Next
  <1>9. CASE op[r] # "refresh"
    <2>1. \A s \in SessionIds : HandingOver(s)' = HandingOver(s)
      BY <1>1, <1>5, <1>9 DEF HandingOver
    <2>2. \A s \in SessionIds \ {t} : SessionState(s)' = SessionState(s)
      BY <1>1, <1>4, <2>1 DEF SessionState
    <2>3. parent' = parent
      BY <1>2, <1>3, <1>9 DEF IInv, UnusedIsFresh, Typed, TypeOK
    <2>4. R!Open(t)
      <3> DEFINE f == [s \in SessionIds |-> SessionState(s)]
                 g == [s \in SessionIds |-> SessionState(s)']
      <3>1. g = [f EXCEPT ![t] = "live"]
        BY <1>7, <2>2
      <3> QED
        BY <1>7, <2>3, <3>1 DEF R!Open
    <2> QED
      BY <1>6, <2>4 DEF R!Next
  <1> QED
    BY <1>8, <1>9

LEMMA RevokeRotates ==
  ASSUME IInv, NEW r \in Requests, Revoke(r)
  PROVE  (R!Next \/ UNCHANGED R!vars) /\ OneHandsOver' /\ UnusedIsFresh'
  <1>0. PICK s0 : s0 = work[r].session
    OBVIOUS
  <1> DEFINE f == [s \in SessionIds |-> SessionState(s)]
             g == [s \in SessionIds |-> SessionState(s)']
  <1>1. /\ Moves(r) /\ pc[r] = "revoke" /\ revoked' = revoked \cup {s0} /\ UNCHANGED <<owner, parent>>
        /\ s0 \in SessionIds /\ owner[s0] # None
    BY <1>0, RevokeKeepsTypes DEF IInv, Typed, Working, Local, Revoke
  <1>2. \A q \in Requests \ {r} : pc'[q] = pc[q] /\ op'[q] = op[q] /\ work'[q] = work[q]
    BY <1>1 DEF Moves
  <1>3. UnusedIsFresh'
    BY <1>1 DEF IInv, UnusedIsFresh
  <1>4. \A q \in Requests : Holds(q) => work[q].session \in revoked
    BY DEF Holds, IInv, Typed, Working, Local
  <1>5. CASE op[r] = "refresh" /\ StillActive(s0)
    <2>1. pc'[r] = "issue" /\ UNCHANGED <<op, work>> /\ s0 \notin revoked
      BY <1>0, <1>5 DEF Revoke, Goto, StillActive, IInv, Typed, TypeOK
    <2>2. HandingOver(s0)' /\ \A s \in SessionIds \ {s0} : HandingOver(s)' = HandingOver(s)
      BY <1>0, <1>1, <1>2, <1>5, <2>1 DEF HandingOver
    <2>3. SessionState(s0) = "live" /\ SessionState(s0)' = "handing over"
      BY <1>1, <2>1, <2>2 DEF SessionState
    <2>4. \A s \in SessionIds \ {s0} : SessionState(s)' = SessionState(s)
      BY <1>1, <2>2 DEF SessionState
    <2>5. R!Take(s0)
      <3>1. g = [f EXCEPT ![s0] = "handing over"]
        BY <2>3, <2>4
      <3> QED
        BY <1>1, <2>3, <3>1 DEF R!Take
    <2>6. OneHandsOver'
      BY <1>0, <1>2, <1>4, <2>1 DEF IInv, OneHandsOver, Holds
    <2> QED
      BY <1>1, <1>3, <2>5, <2>6 DEF R!Next
  <1>6. CASE ~(op[r] = "refresh" /\ StillActive(s0))
    <2>1. pc'[r] = "done"
      BY <1>0, <1>6, FinishMoves DEF Revoke, IInv, Typed
    <2>2. \A s \in SessionIds : HandingOver(s)' = HandingOver(s)
      BY <1>1, <1>2, <2>1 DEF HandingOver
    <2>3. \A s \in SessionIds \ {s0} : SessionState(s)' = SessionState(s)
      BY <1>1, <2>2 DEF SessionState
    <2>4. OneHandsOver'
      BY <1>1, <1>2, <2>1 DEF IInv, OneHandsOver
    <2>5. CASE s0 \in revoked
      <3>1. SessionState(s0)' = SessionState(s0)
        BY <1>1, <2>2, <2>5 DEF SessionState
      <3>2. UNCHANGED R!vars
        BY <1>1, <2>3, <3>1 DEF R!vars
      <3> QED
        BY <1>3, <2>4, <3>2
    <2>6. CASE s0 \notin revoked
      <3>1. ~HandingOver(s0)
        BY <1>4, <2>6 DEF HandingOver, Holds
      <3>2. SessionState(s0) = "live" /\ SessionState(s0)' = "ended"
        BY <1>1, <2>2, <2>6, <3>1 DEF SessionState
      <3>3. g = [f EXCEPT ![s0] = "ended"]
        BY <2>3, <3>2
      <3>4. R!End(s0)
        BY <1>1, <3>2, <3>3 DEF R!End
      <3> QED
        BY <1>1, <1>3, <2>4, <3>4 DEF R!Next
    <2> QED
      BY <2>5, <2>6
  <1> QED
    BY <1>5, <1>6

\* A refresh that is given up after it took the session loses it.
LEMMA AbandonRotates ==
  ASSUME IInv, NEW r \in Requests, Abandon(r)
  PROVE  (R!Next \/ UNCHANGED R!vars) /\ OneHandsOver' /\ UnusedIsFresh'
  <1>0. PICK s0 : s0 = work[r].session
    OBVIOUS
  <1> DEFINE f == [s \in SessionIds |-> SessionState(s)]
             g == [s \in SessionIds |-> SessionState(s)']
  <1>1. Moves(r) /\ pc'[r] = "done" /\ UNCHANGED sessions /\ UNCHANGED <<owner, revoked, parent>>
    BY FinishMoves DEF Abandon, IInv, Typed, sessions
  <1>2. \A q \in Requests \ {r} : pc'[q] = pc[q] /\ op'[q] = op[q] /\ work'[q] = work[q]
    BY <1>1 DEF Moves
  <1>3. CASE ~Holds(r)
    BY <1>1, <1>3, QuietIsStutter DEF Holds
  <1>4. CASE Holds(r)
    <2>1. s0 \in revoked /\ s0 \in SessionIds /\ owner[s0] # None
      BY <1>0, <1>4 DEF Holds, IInv, Typed, Working, Local, TypeOK
    <2>2. HandingOver(s0) /\ ~HandingOver(s0)'
      BY <1>0, <1>1, <1>2, <1>4 DEF HandingOver, Holds, IInv, OneHandsOver
    <2>3. \A s \in SessionIds \ {s0} : HandingOver(s)' = HandingOver(s)
      BY <1>0, <1>1, <1>2 DEF HandingOver
    <2>4. SessionState(s0) = "handing over" /\ SessionState(s0)' = "ended"
      BY <1>1, <2>1, <2>2 DEF SessionState
    <2>5. \A s \in SessionIds \ {s0} : SessionState(s)' = SessionState(s)
      BY <1>1, <2>3 DEF SessionState
    <2>6. g = [f EXCEPT ![s0] = "ended"]
      BY <2>4, <2>5
    <2>7. R!Lose(s0)
      BY <1>1, <2>1, <2>4, <2>6 DEF R!Lose
    <2>8. OneHandsOver' /\ UnusedIsFresh'
      BY <1>1, <1>2 DEF IInv, OneHandsOver, UnusedIsFresh
    <2> QED
      BY <2>1, <2>7, <2>8 DEF R!Next
  <1> QED
    BY <1>3, <1>4

LEMMA StepRotates ==
  IInv /\ [Next]_vars => (R!Next \/ UNCHANGED R!vars) /\ OneHandsOver' /\ UnusedIsFresh'
  <1> SUFFICES ASSUME IInv, [Next]_vars
               PROVE (R!Next \/ UNCHANGED R!vars) /\ OneHandsOver' /\ UnusedIsFresh'
    OBVIOUS
  <1>1. ASSUME NEW r \in Requests, Start(r)
        PROVE  UNCHANGED R!vars /\ OneHandsOver' /\ UnusedIsFresh'
    <2>1. Moves(r) /\ ~Holds(r) /\ ~Holds(r)' /\ UNCHANGED sessions
      BY <1>1, StartKeepsTypes DEF IInv, Holds
    <2> QED
      BY <2>1, QuietIsStutter
  <1>2. ASSUME NEW r \in Requests,
               \/ InsertUser(r) \/ CheckActive(r) \/ StoreCode(r) \/ FetchCode(r) \/ FetchFails(r)
               \/ DeliverCode(r) \/ MailFails(r) \/ FindAccount(r) \/ MarkEmailVerified(r)
               \/ SpendCode(r) \/ ReadUser(r) \/ WriteUser(r)
        PROVE  UNCHANGED R!vars /\ OneHandsOver' /\ UnusedIsFresh'
    <2>1. Moves(r) /\ Local(r)
      BY <1>2, InsertUserKeepsTypes, StoreCodeKeepsTypes, FetchKeepsTypes, MailKeepsTypes,
         VerifyKeepsTypes, ProfileKeepsTypes, EndKeepsTypes DEF IInv, Typed, Working
    <2>2. UNCHANGED sessions
      BY <1>2, EndKeepsTypes DEF IInv, InsertUser, StoreCode, FetchCode, FetchFails, DeliverCode,
         MailFails, FindAccount, MarkEmailVerified, SpendCode, ReadUser, WriteUser
    <2>3. ~Holds(r)
      BY <1>2 DEF Holds, InsertUser, CheckActive, StoreCode, FetchCode, FetchFails, DeliverCode,
         MailFails, FindAccount, MarkEmailVerified, SpendCode, ReadUser, WriteUser
    <2>4. ~Holds(r)'
      <3>1. CASE InsertUser(r)
        BY <2>1, <3>1 DEF Holds, InsertUser, Local, Finish, Goto, IInv, Typed, TypeOK
      <3>2. CASE DeliverCode(r) \/ MailFails(r)
        BY <3>2, MailKeepsTypes DEF Holds, IInv
      <3>3. CASE CheckActive(r) \/ StoreCode(r) \/ FetchCode(r) \/ FetchFails(r) \/ FindAccount(r)
                 \/ MarkEmailVerified(r) \/ SpendCode(r) \/ ReadUser(r) \/ WriteUser(r)
        BY <3>3 DEF Holds, CheckActive, StoreCode, FetchCode, FetchFails, FindAccount,
           MarkEmailVerified, SpendCode, ReadUser, WriteUser, Finish, Goto, IInv, Typed, TypeOK
      <3> QED
        BY <1>2, <3>1, <3>2, <3>3
    <2> QED
      BY <2>1, <2>2, <2>3, <2>4, QuietIsStutter
  <1>3. ASSUME (\E e \in Emails : CodeExpires(e)) \/ (\E a \in Accounts : SetStatus(a)) \/ UNCHANGED vars
        PROVE  UNCHANGED R!vars /\ OneHandsOver' /\ UnusedIsFresh'
    <2>1. UNCHANGED <<sessions, pc, op, work>>
      BY <1>3 DEF CodeExpires, SetStatus, vars
    <2>2. \A s \in SessionIds : HandingOver(s)' = HandingOver(s)
      BY <2>1 DEF HandingOver
    <2>3. \A s \in SessionIds : SessionState(s)' = SessionState(s)
      BY <2>1, <2>2 DEF SessionState, sessions
    <2> QED
      BY <2>1, <2>3 DEF R!vars, sessions, IInv, OneHandsOver, UnusedIsFresh
  <1> QED
    BY <1>1, <1>2, <1>3, IssueRotates, RevokeRotates, AbandonRotates DEF Next, Continue

\* Whatever refreshes and logouts use a token, its session ends once and has at
\* most one successor, none after a logout.
THEOREM SessionsRotate == Spec => ImplementsRotation
  <1>1. Init => R!Init /\ OneHandsOver /\ UnusedIsFresh
    <2> SUFFICES ASSUME Init PROVE R!Init /\ OneHandsOver /\ UnusedIsFresh
      OBVIOUS
    <2>1. \A s \in SessionIds : SessionState(s) = "unused"
      BY DEF Init, SessionState
    <2> QED
      BY <2>1 DEF Init, R!Init, OneHandsOver, UnusedIsFresh
  <1>2. IInv /\ [Next]_vars => [R!Next]_(R!vars) /\ IInv'
    BY StepRotates, NextKeepsTypes DEF IInv
  <1>3. Init => IInv
    BY <1>1, InitTyped DEF IInv
  <1> QED
    BY <1>1, <1>2, <1>3, PTL DEF Spec, R!Spec, ImplementsRotation
=============================================================================
