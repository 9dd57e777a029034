------------------------------ MODULE Sessions ------------------------------
(***************************************************************************)
(* Accounts, refresh-token sessions and e-mailed codes (internal/auth,     *)
(* internal/users).  A request is one HTTP call; each statement to the     *)
(* database or to Redis is a step.  Passwords, JWTs and the identity       *)
(* providers only refuse: a request is in the model when they accepted it. *)
(* The code a request generates is named after the request.  Phone codes,  *)
(* which are stored and compared by the same functions, are left out.      *)
(***************************************************************************)
EXTENDS FiniteSets

CONSTANTS Requests, Accounts, Emails, SessionIds, None

ASSUME SessionsConstants == None \notin Requests \cup Accounts \cup Emails \cup SessionIds

VARIABLES
  email,     \* users.email, None for an account without a row
  active,    \* accounts with status ACTIVE
  verified,  \* accounts with email_verified_at
  owner,     \* auth_sessions.user_id, None for a session without a row
  revoked,   \* sessions with revoked_at
  parent,    \* history: the session a session was issued for
  codes,     \* Redis otp:verify_email:<email>
  mails,     \* delivered codes
  used,      \* history: who used a code of the address since a request stored its own
  pc, op,    \* next step and kind of a request
  work       \* its local variables

rows == <<email, active, verified>>
sessions == <<owner, revoked, parent>>
mail == <<codes, mails, used>>
vars == <<rows, sessions, mail, pc, op, work>>

NoWork == [email |-> None, user |-> None, session |-> None, code |-> None]
Maybe(S) == S \cup {None}
Operations == {"none", "register", "social", "login", "refresh", "logout", "code", "verify", "profile"}
Steps == {"idle", "insert", "issue", "active", "revoke", "store", "fetch", "mail",
          "find", "mark", "spend", "read", "write", "done"}
Locals == [email : Maybe(Emails), user : Maybe(Accounts),
           session : Maybe(SessionIds), code : Maybe(Requests)]

TypeOK ==
  /\ email \in [Accounts -> Maybe(Emails)]
  /\ active \subseteq Accounts /\ verified \subseteq Accounts
  /\ owner \in [SessionIds -> Maybe(Accounts)]
  /\ revoked \subseteq {s \in SessionIds : owner[s] # None}
  /\ parent \in [SessionIds -> Maybe(SessionIds)]
  /\ codes \in [Emails -> Maybe(Requests)]
  /\ mails \subseteq [to : Emails, code : Maybe(Requests)]
  /\ used \in [Requests -> SUBSET Accounts]
  /\ pc \in [Requests -> Steps]
  /\ op \in [Requests -> Operations]
  /\ work \in [Requests -> Locals]

Init ==
  /\ email = [a \in Accounts |-> None] /\ active = {} /\ verified = {}
  /\ owner = [s \in SessionIds |-> None] /\ revoked = {}
  /\ parent = [s \in SessionIds |-> None]
  /\ codes = [e \in Emails |-> None] /\ mails = {}
  /\ used = [r \in Requests |-> {}]
  /\ pc = [r \in Requests |-> "idle"] /\ op = [r \in Requests |-> "none"]
  /\ work = [r \in Requests |-> NoWork]

Goto(r, next) == pc' = [pc EXCEPT ![r] = next]

\* A request ends; nobody looks at its variables again.
Finish(r) ==
  /\ Goto(r, "done")
  /\ op' = [op EXCEPT ![r] = "none"]
  /\ work' = [work EXCEPT ![r] = NoWork]

Begin(r, kind, next, locals) ==
  /\ pc[r] = "idle"
  /\ op' = [op EXCEPT ![r] = kind]
  /\ work' = [work EXCEPT ![r] = locals]
  /\ Goto(r, next)
  /\ UNCHANGED <<rows, sessions, mail>>

GetByEmail(e) == {a \in Accounts : email[a] = e}

(***************************************************************************)
(* Signing up and in.                                                      *)
(***************************************************************************)

\* Register refuses an address it finds taken.
Register(r, e) ==
  /\ GetByEmail(e) = {}
  /\ Begin(r, "register", "insert", [NoWork EXCEPT !.email = e])

\* ClerkSync and SocialLogin sign in the account with the address, or make one.
SocialLogin(r, e) ==
  \/ /\ GetByEmail(e) = {}
     /\ Begin(r, "social", "insert", [NoWork EXCEPT !.email = e])
  \/ \E a \in GetByEmail(e) :
       Begin(r, "social", "issue", [NoWork EXCEPT !.email = e, !.user = a])

\* INSERT into users, behind the unique index on email.  After a duplicate
\* Register refuses and a social login signs in who was faster.
InsertUser(r) ==
  /\ pc[r] = "insert"
  /\ LET e == work[r].email IN
     \/ /\ GetByEmail(e) = {}
        /\ \E a \in Accounts :
             /\ email[a] = None
             /\ email' = [email EXCEPT ![a] = e]
             /\ active' = active \cup {a}
             /\ work' = [work EXCEPT ![r].user = a]
        /\ Goto(r, IF op[r] = "register" THEN "store" ELSE "issue")
        /\ UNCHANGED <<verified, op>>
     \/ /\ op[r] = "register" /\ GetByEmail(e) # {}
        /\ Finish(r)
        /\ UNCHANGED rows
     \/ /\ op[r] = "social"
        /\ \E a \in GetByEmail(e) : work' = [work EXCEPT ![r].user = a]
        /\ Goto(r, "issue")
        /\ UNCHANGED <<rows, op>>
  /\ UNCHANGED <<sessions, mail>>

Login(r, a) ==
  /\ email[a] # None /\ a \in active
  /\ Begin(r, "login", "issue", [NoWork EXCEPT !.user = a])

\* A row with a token nobody has.
CreateSession(s, user) ==
  /\ owner[s] = None
  /\ owner' = [owner EXCEPT ![s] = user]

IssueTokens(r) ==
  /\ pc[r] = "issue"
  /\ \E s \in SessionIds :
       /\ CreateSession(s, work[r].user)
       /\ parent' = [parent EXCEPT ![s] = work[r].session]
  /\ Finish(r)
  /\ UNCHANGED <<rows, revoked, mail>>

(***************************************************************************)
(* Refresh and logout.                                                     *)
(***************************************************************************)

\* GetByHash finds the session of a token.
Found(s) == owner[s] # None

\* Refresh: the session is there, not revoked (and not expired).
Refresh(r, s) ==
  /\ Found(s) /\ s \notin revoked
  /\ Begin(r, "refresh", "active", [NoWork EXCEPT !.session = s, !.user = owner[s]])

\* users.GetByID; an inactive user is refused, the session stays.
CheckActive(r) ==
  /\ pc[r] = "active"
  /\ IF work[r].user \in active
     THEN Goto(r, "revoke") /\ UNCHANGED <<op, work>>
     ELSE Finish(r)
  /\ UNCHANGED <<rows, sessions, mail>>

\* Logout does not ask whether the session is revoked.
Logout(r, s) ==
  /\ Found(s)
  /\ Begin(r, "logout", "revoke", [NoWork EXCEPT !.session = s])

\* Variant: the result of Revoke is not looked at.
RevokeAssumed(s) == s \in SessionIds

\* UPDATE ... WHERE revoked_at IS NULL.
StillActive(s) == s \notin revoked

Revoke(r) ==
  /\ pc[r] = "revoke"
  /\ revoked' = revoked \cup {work[r].session}
  /\ IF op[r] = "refresh" /\ StillActive(work[r].session)
     THEN Goto(r, "issue") /\ UNCHANGED <<op, work>>
     ELSE Finish(r)
  /\ UNCHANGED <<rows, owner, parent, mail>>

(***************************************************************************)
(* Codes.                                                                  *)
(***************************************************************************)

\* A verified account needs no code.
RequestEmailVerification(r, e) ==
  /\ \E a \in GetByEmail(e) : a \notin verified
  /\ Begin(r, "code", "store", [NoWork EXCEPT !.email = e])

\* defaultSendEmailCode: SET with a TTL.
StoreCode(r) ==
  /\ pc[r] = "store"
  /\ codes' = [codes EXCEPT ![work[r].email] = r]
  /\ Goto(r, "fetch")
  /\ UNCHANGED <<rows, sessions, mails, used, op, work>>

\* Variant: the address goes where the code belongs.
FetchAddress(r) ==
  /\ pc[r] = "fetch"
  /\ work' = [work EXCEPT ![r].code = work[r].email]
  /\ Goto(r, "mail")
  /\ UNCHANGED <<rows, sessions, mail, op>>

\* SetEmailDelivery reads the code back to have something to deliver.
FetchCode(r) ==
  /\ pc[r] = "fetch"
  /\ work' = [work EXCEPT ![r].code = codes[work[r].email]]
  /\ Goto(r, "mail")
  /\ UNCHANGED <<rows, sessions, mail, op>>

\* ... and delivers what it has if Redis does not answer.
FetchFails(r) ==
  /\ pc[r] = "fetch"
  /\ Goto(r, "mail")
  /\ UNCHANGED <<rows, sessions, mail, op, work>>

\* Register goes on to its tokens, whatever became of the code.
AfterMail(r) == IF op[r] = "register" THEN Goto(r, "issue") /\ UNCHANGED <<op, work>> ELSE Finish(r)

DeliverCode(r) ==
  /\ pc[r] = "mail"
  /\ mails' = mails \cup {[to |-> work[r].email, code |-> work[r].code]}
  /\ AfterMail(r)
  /\ UNCHANGED <<rows, sessions, codes, used>>

MailFails(r) ==
  /\ pc[r] \in {"store", "mail"}
  /\ AfterMail(r)
  /\ UNCHANGED <<rows, sessions, mail>>

\* Variant: the code is spent by the comparison.
VerifyTakesCode(r, e) ==
  /\ codes[e] # None
  /\ [to |-> e, code |-> codes[e]] \in mails
  /\ pc[r] = "idle"
  /\ op' = [op EXCEPT ![r] = "verify"]
  /\ work' = [work EXCEPT ![r].email = e]
  /\ codes' = [codes EXCEPT ![e] = None]
  /\ Goto(r, "find")
  /\ UNCHANGED <<rows, sessions, mails, used>>

\* VerifyEmail: the code that was entered is the stored one.
VerifyEmail(r, e) ==
  /\ codes[e] # None
  /\ [to |-> e, code |-> codes[e]] \in mails
  /\ Begin(r, "verify", "find", [NoWork EXCEPT !.email = e])

FindAccount(r) ==
  /\ pc[r] = "find"
  /\ \/ \E a \in GetByEmail(work[r].email) :
          /\ work' = [work EXCEPT ![r].user = a]
          /\ Goto(r, "mark")
          /\ UNCHANGED op
     \/ GetByEmail(work[r].email) = {} /\ Finish(r)
  /\ UNCHANGED <<rows, sessions, mail>>

MarkEmailVerified(r) ==
  /\ pc[r] = "mark"
  /\ verified' = verified \cup {work[r].user}
  /\ Goto(r, "spend")
  /\ UNCHANGED <<email, active, sessions, mail, op, work>>

SpendCode(r) ==
  /\ pc[r] = "spend"
  /\ codes' = [codes EXCEPT ![work[r].email] = None]
  /\ used' = [q \in Requests |->
       IF pc[q] = "fetch" /\ work[q].email = work[r].email
       THEN used[q] \cup {work[r].user} ELSE used[q]]
  /\ Finish(r)
  /\ UNCHANGED <<rows, sessions, mails>>

\* The TTL is minutes, the time between SET and GET is not.
CodeExpires(e) ==
  /\ codes[e] # None
  /\ \A r \in Requests : ~(pc[r] = "fetch" /\ work[r].email = e)
  /\ codes' = [codes EXCEPT ![e] = None]
  /\ UNCHANGED <<rows, sessions, mails, used, pc, op, work>>

(***************************************************************************)
(* Profile and status.                                                     *)
(***************************************************************************)

\* AuthMiddleware: the subject of the access token is asked for its status again.
Authenticated(a) == email[a] # None /\ a \in active

\* UpdateProfile to a new address that nobody has, or of the names only.
UpdateProfile(r, a, e) ==
  /\ Authenticated(a)
  /\ e = None \/ GetByEmail(e) \subseteq {a}
  /\ Begin(r, "profile", "read", [NoWork EXCEPT !.user = a, !.email = e])

\* Store.Update reads the row and writes every column of it back.
ReadUser(r) ==
  /\ pc[r] = "read"
  /\ work' = [work EXCEPT ![r].email = IF @ = None THEN email[work[r].user] ELSE @]
  /\ Goto(r, "write")
  /\ UNCHANGED <<rows, sessions, mail, op>>

\* Variant: no unique index on users.email.
WriteUserUnindexed(r) ==
  /\ pc[r] = "write"
  /\ email' = [email EXCEPT ![work[r].user] = work[r].email]
  /\ Finish(r)
  /\ UNCHANGED <<active, verified, sessions, mail>>

WriteUser(r) ==
  /\ pc[r] = "write"
  /\ email' = IF GetByEmail(work[r].email) \subseteq {work[r].user}
              THEN [email EXCEPT ![work[r].user] = work[r].email]
              ELSE email
  /\ Finish(r)
  /\ UNCHANGED <<active, verified, sessions, mail>>

SetStatus(a) ==
  /\ email[a] # None
  /\ active' = IF a \in active THEN active \ {a} ELSE active \cup {a}
  /\ UNCHANGED <<email, verified, sessions, mail, pc, op, work>>

\* A statement fails, the client is gone, the process dies.
Abandon(r) ==
  /\ pc[r] \notin {"idle", "done"}
  /\ Finish(r)
  /\ UNCHANGED <<rows, sessions, mail>>

Start(r) ==
  \/ \E e \in Emails :
       \/ Register(r, e) \/ SocialLogin(r, e) \/ RequestEmailVerification(r, e) \/ VerifyEmail(r, e)
  \/ \E a \in Accounts : Login(r, a) \/ \E e \in Maybe(Emails) : UpdateProfile(r, a, e)
  \/ \E s \in SessionIds : Refresh(r, s) \/ Logout(r, s)

Continue(r) ==
  \/ InsertUser(r) \/ IssueTokens(r) \/ CheckActive(r) \/ Revoke(r)
  \/ StoreCode(r) \/ FetchCode(r) \/ FetchFails(r) \/ DeliverCode(r) \/ MailFails(r)
  \/ FindAccount(r) \/ MarkEmailVerified(r) \/ SpendCode(r)
  \/ ReadUser(r) \/ WriteUser(r)
  \/ Abandon(r)

Next ==
  \/ \E r \in Requests : Start(r) \/ Continue(r)
  \/ \E e \in Emails : CodeExpires(e)
  \/ \E a \in Accounts : SetStatus(a)

Spec == Init /\ [][Next]_vars

(***************************************************************************)
(* Properties.                                                             *)
(***************************************************************************)

\* A refresh that won the session has not issued the next one yet.
HandingOver(s) == \E r \in Requests : op[r] = "refresh" /\ pc[r] = "issue" /\ work[r].session = s

SessionState(s) ==
  IF owner[s] = None THEN "unused"
  ELSE IF s \notin revoked THEN "live"
  ELSE IF HandingOver(s) THEN "handing over" ELSE "ended"

R == INSTANCE Rotation WITH Sessions <- SessionIds, state <- [s \in SessionIds |-> SessionState(s)]

\* "only one caller can transition a given session from active to revoked"
\* (session.go:64): whatever refreshes and logouts use the same token, one of
\* them ends the session, and it has at most one successor, none after a logout.
ImplementsRotation == R!Spec

\* While Redis answers, a request reads back no code (and mails an empty one,
\* service.go:93-97) only if another one used a code of the same address since
\* it stored its own, and the account that request found is verified by now
\* (622-637): a code is not spent before it served, whoever else it serves.
EmptyMailMeansUsed ==
  [][\A r \in Requests :
       FetchCode(r) /\ codes[work[r].email] = None => \E a \in used[r] : a \in verified]_vars

\* Nobody is asked twice for the same thing: no two accounts share an address,
\* whichever of sign-up, social login and change of profile races on it.
OneAccountPerEmail ==
  \A a, b \in Accounts : email[a] # None /\ email[a] = email[b] => a = b
=============================================================================
