------------------------------ MODULE Outreach ------------------------------
(***************************************************************************)
(* The scheduled messages and the way of a push (internal/jobs,            *)
(* internal/notifications, pkg/fcm).                                       *)
(*                                                                         *)
(* A tick is one runAll of one instance of the server; several may run at  *)
(* once.  Bookings, messages and posts belong to other components: a query *)
(* over them returns any of the results it can return.  A notification is  *)
(* pushed to every device of its user by workers, which share one access   *)
(* token of the push service.                                              *)
(***************************************************************************)
EXTENDS Naturals, FiniteSets

CONSTANTS
  Ticks, Workers, Devices, Bookings,
  CustomerOf, ProfessionalOf,  \* the two users of a booking
  Followers,       \* users who liked or saved a post
  Reminders,       \* reminder kinds: once per booking
  Nudges,          \* cap types: once per user and cooldown
  None

ASSUME OutreachConstants ==
  /\ Reminders \subseteq {"pre_start", "review"}
  /\ Nudges \subseteq {"unread", "pending_expiry", "inactive", "digest"}
  /\ Followers \subseteq {CustomerOf[b] : b \in Bookings} \cup {ProfessionalOf[b] : b \in Bookings}
  /\ None \notin Workers \cup Devices \cup Bookings

Users == {CustomerOf[b] : b \in Bookings} \cup {ProfessionalOf[b] : b \in Bookings}
Parties(k, b) == IF k = "pre_start" THEN {CustomerOf[b], ProfessionalOf[b]} ELSE {CustomerOf[b]}

VARIABLES
  reminders,  \* booking_reminders: <<kind, booking>>
  claims,     \* push_caps: rows younger than the cooldown, by cap type and user
  told,       \* history: notifications of a reminder, by kind, booking and user
  overtaken,  \* history: ticks that found a cap free which another has claimed since
  raced,      \* history: rows in claims that an overtaken tick inserted
  pc, job,    \* of a tick: next step, and its job with what is left of the list
  owner,      \* device_tokens.user_id, None without a row
  disabled,   \* device_tokens.disabled
  outbox,     \* devices with a push that no worker has begun
  fresh,      \* fcm.Client: cachedToken is set and not about to expire
  exchanger,  \* the worker that set tokenInFlight
  waiters,    \* tokenWaiters
  at, push    \* of a worker: next step, and the device it pushes to

races == <<overtaken, raced>>
scheduler == <<reminders, claims, told, races, pc, job>>
devices == <<owner, disabled>>
token == <<fresh, exchanger, waiters>>
vars == <<scheduler, devices, outbox, token, at, push>>

NoJob == [kind |-> None, left |-> {}, on |-> None, to |-> {}]
Kinds == Reminders \cup Nudges

TypeOK ==
  /\ reminders \subseteq Reminders \X Bookings
  /\ claims \in [Nudges \X Users -> Nat]
  /\ told \in [Reminders \X Bookings \X Users -> Nat]
  /\ overtaken \subseteq Ticks /\ raced \in [Nudges \X Users -> Nat]
  /\ pc \in [Ticks -> {"idle", "next", "claim", "lookup", "notify"}]
  /\ job \in [Ticks -> [kind : Kinds \cup {None}, left : SUBSET (Bookings \cup Users),
                        on : Bookings \cup Users \cup {None}, to : SUBSET Users]]
  /\ owner \in [Devices -> Users \cup {None}]
  /\ disabled \subseteq Devices
  /\ outbox \subseteq Devices
  /\ fresh \in BOOLEAN
  /\ exchanger \in Workers \cup {None}
  /\ waiters \subseteq Workers
  /\ at \in [Workers -> {"idle", "token", "waiting", "woken", "exchange", "release", "got",
                         "post", "disable"}]
  /\ push \in [Workers -> Devices \cup {None}]

Init ==
  /\ reminders = {} /\ claims = [c \in Nudges \X Users |-> 0]
  /\ told = [x \in Reminders \X Bookings \X Users |-> 0]
  /\ overtaken = {} /\ raced = [c \in Nudges \X Users |-> 0]
  /\ pc = [t \in Ticks |-> "idle"] /\ job = [t \in Ticks |-> NoJob]
  /\ owner = [d \in Devices |-> None] /\ disabled = {} /\ outbox = {}
  /\ fresh = FALSE /\ exchanger = None /\ waiters = {}
  /\ at = [w \in Workers |-> "idle"] /\ push = [w \in Workers |-> None]

(***************************************************************************)
(* Jobs.                                                                   *)
(***************************************************************************)
Goto(t, next) == pc' = [pc EXCEPT ![t] = next]

\* notifications.push: the devices of the user that are not disabled.
ListTokensForUser(u) == {d \in Devices : owner[d] = u /\ d \notin disabled}

\* What the list queries can return.
ListConfirmedUpcoming == SUBSET Bookings
ListCompletedWithoutReview == SUBSET Bookings
ListUnreadConvos == SUBSET Users
ListPendingExpiring == SUBSET {ProfessionalOf[b] : b \in Bookings}
ListInactiveUsers == SUBSET {u \in Users : ListTokensForUser(u) # {}}
ListDigestUsers == SUBSET Followers

Lists(k) ==
  CASE k = "pre_start" -> ListConfirmedUpcoming
    [] k = "review" -> ListCompletedWithoutReview
    [] k = "unread" -> ListUnreadConvos
    [] k = "pending_expiry" -> ListPendingExpiring
    [] k = "inactive" -> ListInactiveUsers
    [] k = "digest" -> ListDigestUsers

\* runAll calls its jobs one after the other; a job starts with its list.
StartJob(t, k) ==
  /\ pc[t] = "idle"
  /\ \E list \in Lists(k) : job' = [job EXCEPT ![t] = [NoJob EXCEPT !.kind = k, !.left = list]]
  /\ Goto(t, "next")
  /\ UNCHANGED <<reminders, claims, told, races, devices, outbox, token, at, push>>

\* The list is done, a query or a statement failed, the job panicked.
EndJob(t) ==
  /\ pc[t] # "idle"
  /\ Goto(t, "idle")
  /\ job' = [job EXCEPT ![t] = NoJob]
  /\ overtaken' = overtaken \ {t}
  /\ UNCHANGED <<reminders, claims, told, raced, devices, outbox, token, at, push>>

Take(t, x, to) == job' = [job EXCEPT ![t].left = @ \ {x}, ![t].on = x, ![t].to = to]
Skip(t, x) == job' = [job EXCEPT ![t].left = @ \ {x}] /\ UNCHANGED pc
Drop(t) == job' = [job EXCEPT ![t].on = None, ![t].to = {}] /\ Goto(t, "next")

\* INSERT IGNORE behind the unique index on booking and kind.
NewReminder(k, b) == <<k, b>> \notin reminders

\* A job goes on with a booking only when its row is new.
InsertReminder(t, b) ==
  LET k == job[t].kind IN
  /\ pc[t] = "next" /\ b \in job[t].left /\ k \in Reminders
  /\ reminders' = reminders \cup {<<k, b>>}
  /\ IF NewReminder(k, b)
     THEN Take(t, b, Parties(k, b)) /\ Goto(t, "notify")
     ELSE Skip(t, b)
  /\ UNCHANGED <<claims, told, races, devices, outbox, token, at, push>>

\* Variant: the rows outside the cooldown are asked for.
ReadOldCap(t, u) ==
  LET k == job[t].kind IN
  /\ pc[t] = "next" /\ u \in job[t].left /\ k \in Nudges
  /\ Take(t, u, {u}) /\ Goto(t, "claim")
  /\ UNCHANGED <<reminders, claims, told, races, devices, outbox, token, at, push>>

\* ClaimSend, the SELECT: no row of the user is younger than the cooldown.  There
\* is no unique key on push_caps, and what the SELECT found free it does not lock.
ReadCap(t, u) ==
  LET k == job[t].kind IN
  /\ pc[t] = "next" /\ u \in job[t].left /\ k \in Nudges
  /\ IF claims[<<k, u>>] = 0 THEN Take(t, u, {u}) /\ Goto(t, "claim") ELSE Skip(t, u)
  /\ UNCHANGED <<reminders, claims, told, races, devices, outbox, token, at, push>>

Claiming(t, k, u) == pc[t] = "claim" /\ job[t].kind = k /\ job[t].on = u

\* ClaimSend, the INSERT.  Two jobs look for something to say afterwards.
InsertClaim(t) ==
  LET k == job[t].kind  c == <<k, job[t].on>> IN
  /\ pc[t] = "claim"
  /\ claims' = [claims EXCEPT ![c] = @ + 1]
  /\ raced' = IF t \in overtaken THEN [raced EXCEPT ![c] = @ + 1] ELSE raced
  /\ overtaken' = (overtaken \cup {s \in Ticks : Claiming(s, k, job[t].on)}) \ {t}
  /\ Goto(t, IF k \in {"inactive", "digest"} THEN "lookup" ELSE "notify")
  /\ UNCHANGED <<reminders, told, job, devices, outbox, token, at, push>>

\* What the queries about one user can find.
ListPendingForUser(u) == {b \in Bookings : CustomerOf[b] = u}
UnreadCountForUser(u) == {0, 1}
NewContentCountForUser(u) == {n \in {0, 1} : n > 0 => u \in Followers}

\* What a job can find to say: the digest new posts, the inactive user a pending
\* booking, unread messages, new posts, or an invitation to look around.
Reasons(k, u) ==
  LET content == {"digest" : n \in NewContentCountForUser(u) \ {0}} IN
  IF k = "digest" THEN content
  ELSE {"booking" : b \in ListPendingForUser(u)} \cup {"message" : n \in UnreadCountForUser(u) \ {0}}
         \cup content \cup {"digest"}

\* There is something to say, or not, or the query failed.  The claim stays.
LookUp(t) ==
  /\ pc[t] = "lookup"
  /\ \/ Reasons(job[t].kind, job[t].on) # {} /\ Goto(t, "notify") /\ UNCHANGED job
     \/ Drop(t)
  /\ UNCHANGED <<reminders, claims, told, races, devices, outbox, token, at, push>>

Told(t, u) ==
  IF job[t].to = {u} THEN Drop(t) ELSE job' = [job EXCEPT ![t].to = @ \ {u}] /\ UNCHANGED pc

\* Notify inserts its row, lists the tokens and leaves the rest to the workers.
Notify(t, u) ==
  LET j == job[t] IN
  /\ pc[t] = "notify" /\ u \in j.to
  /\ told' = IF j.kind \in Reminders THEN [told EXCEPT ![<<j.kind, j.on, u>>] = @ + 1] ELSE told
  /\ outbox' = outbox \cup ListTokensForUser(u)
  /\ Told(t, u)
  /\ UNCHANGED <<reminders, claims, races, devices, token, at, push>>

\* An error of Notify is dropped.
NotifyFails(t, u) ==
  /\ pc[t] = "notify" /\ u \in job[t].to
  /\ Told(t, u)
  /\ UNCHANGED <<reminders, claims, told, races, devices, outbox, token, at, push>>

CooldownEnds(k, u) ==
  /\ claims[<<k, u>>] > 0
  /\ claims' = [claims EXCEPT ![<<k, u>>] = 0] /\ raced' = [raced EXCEPT ![<<k, u>>] = 0]
  /\ overtaken' = {t \in overtaken : ~Claiming(t, k, u)}
  /\ UNCHANGED <<reminders, told, pc, job, devices, outbox, token, at, push>>

(***************************************************************************)
(* Devices.                                                                *)
(***************************************************************************)

\* Upsert: a device that changed hands changes its owner, and works again.
RegisterDevice(u, d) ==
  /\ owner' = [owner EXCEPT ![d] = u]
  /\ disabled' = disabled \ {d}
  /\ UNCHANGED <<scheduler, outbox, token, at, push>>

RemoveDevice(u, d) ==
  /\ owner[d] = u
  /\ owner' = [owner EXCEPT ![d] = None]
  /\ disabled' = disabled \ {d}
  /\ UNCHANGED <<scheduler, outbox, token, at, push>>

(***************************************************************************)
(* Workers.                                                                *)
(***************************************************************************)
Step(w, next) == at' = [at EXCEPT ![w] = next]
Stop(w) == Step(w, "idle") /\ push' = [push EXCEPT ![w] = None]

\* Send begins with accessToken.
BeginSend(w, d) ==
  /\ at[w] = "idle" /\ d \in outbox
  /\ outbox' = outbox \ {d}
  /\ push' = [push EXCEPT ![w] = d]
  /\ Step(w, "token")
  /\ UNCHANGED <<scheduler, devices, token>>

\* Variant: nobody says that an exchange is under way.
AccessTokenAlone(w) ==
  /\ at[w] = "token"
  /\ Step(w, IF fresh THEN "post" ELSE "exchange")
  /\ exchanger' = IF fresh THEN exchanger ELSE w
  /\ UNCHANGED <<scheduler, devices, outbox, fresh, waiters, push>>

\* Under Client.mu: the cached token, or a place among the waiters, or the job
\* of getting a new one.
AccessToken(w) ==
  /\ at[w] = "token"
  /\ \/ fresh /\ Step(w, "post") /\ UNCHANGED token
     \/ /\ ~fresh /\ exchanger # None
        /\ waiters' = waiters \cup {w}
        /\ Step(w, "waiting")
        /\ UNCHANGED <<fresh, exchanger>>
     \/ /\ ~fresh /\ exchanger = None
        /\ exchanger' = w
        /\ Step(w, "exchange")
        /\ UNCHANGED <<fresh, waiters>>
  /\ UNCHANGED <<scheduler, devices, outbox, push>>

\* The token is stored, or the exchange failed or ran into its 10 seconds.
Exchange(w) ==
  /\ at[w] = "exchange"
  /\ \E ok \in BOOLEAN :
       /\ fresh' = (ok \/ fresh)
       /\ Step(w, IF ok THEN "got" ELSE "release")
  /\ UNCHANGED <<scheduler, devices, outbox, exchanger, waiters, push>>

\* Variant: the waiters are woken when the token is stored, not otherwise.
ReleaseOnSuccess(w) ==
  /\ at[w] \in {"got", "release"}
  /\ exchanger' = None
  /\ waiters' = IF at[w] = "got" THEN {} ELSE waiters
  /\ at' = [v \in Workers |-> IF v = w THEN IF at[w] = "got" THEN "post" ELSE "idle"
                              ELSE IF at[w] = "got" /\ at[v] = "waiting" /\ v \in waiters THEN "woken" ELSE at[v]]
  /\ push' = IF at[w] = "got" THEN push ELSE [push EXCEPT ![w] = None]
  /\ UNCHANGED <<scheduler, devices, outbox, fresh>>

\* The deferred function takes the list of waiters, however the exchange ended,
\* and closes their channels: a waiter in "woken" is no longer on the list.
Release(w) ==
  /\ at[w] \in {"got", "release"}
  /\ exchanger' = None
  /\ waiters' = {}
  /\ at' = [v \in Workers |-> IF v = w THEN IF at[w] = "got" THEN "post" ELSE "idle"
                              ELSE IF at[v] = "waiting" /\ v \in waiters THEN "woken" ELSE at[v]]
  /\ push' = IF at[w] = "got" THEN push ELSE [push EXCEPT ![w] = None]
  /\ UNCHANGED <<scheduler, devices, outbox, fresh>>

\* A waiter takes the token it finds, or gives up: it does not try itself.
CheckAgain(w) ==
  /\ at[w] = "woken"
  /\ IF fresh THEN Step(w, "post") /\ UNCHANGED push ELSE Stop(w)
  /\ UNCHANGED <<scheduler, devices, outbox, token>>

\* The context of a waiter ends; its channel stays in tokenWaiters, if it is there.
WaitTimesOut(w) ==
  /\ at[w] \in {"waiting", "woken"}
  /\ Stop(w)
  /\ UNCHANGED <<scheduler, devices, outbox, token>>

\* 404 says that the device is gone, other errors are dropped.
Post(w) ==
  /\ at[w] = "post"
  /\ Stop(w) \/ (Step(w, "disable") /\ UNCHANGED push)
  /\ UNCHANGED <<scheduler, devices, outbox, token>>

\* DisableDevice: by token, whoever owns it by now.
DisableDevice(w) ==
  /\ at[w] = "disable"
  /\ disabled' = IF owner[push[w]] = None THEN disabled ELSE disabled \cup {push[w]}
  /\ Stop(w)
  /\ UNCHANGED <<scheduler, owner, outbox, token>>

TokenExpires ==
  /\ fresh
  /\ fresh' = FALSE
  /\ UNCHANGED <<scheduler, devices, outbox, exchanger, waiters, at, push>>

Tick(t) ==
  \/ \E k \in Kinds : StartJob(t, k)
  \/ \E b \in Bookings : InsertReminder(t, b)
  \/ \E u \in Users : ReadCap(t, u) \/ Notify(t, u) \/ NotifyFails(t, u)
  \/ InsertClaim(t) \/ LookUp(t) \/ EndJob(t)

Work(w) ==
  \/ \E d \in outbox : BeginSend(w, d)
  \/ AccessToken(w) \/ Exchange(w) \/ Release(w) \/ CheckAgain(w) \/ WaitTimesOut(w)
  \/ Post(w) \/ DisableDevice(w)

Next ==
  \/ \E t \in Ticks : Tick(t)
  \/ \E w \in Workers : Work(w)
  \/ \E k \in Nudges, u \in Users : CooldownEnds(k, u)
  \/ \E u \in Users, d \in Devices : RegisterDevice(u, d) \/ RemoveDevice(u, d)
  \/ TokenExpires

Spec == Init /\ [][Next]_vars

\* A worker goes on, without ever counting on the timeout of a waiter.  The
\* exchange ends because its request has a context of 10 seconds.
GoesOn(w) == AccessToken(w) \/ Exchange(w) \/ Release(w) \/ CheckAgain(w) \/ Post(w) \/ DisableDevice(w)
FairSpec == Spec /\ \A w \in Workers : WF_vars(GoesOn(w))

(***************************************************************************)
(* Properties.                                                             *)
(***************************************************************************)

\* "notifies both parties once per booking" (jobs.go:103): whatever ticks run at
\* once and wherever they break off, nobody is told of a reminder twice.  And a
\* nudge is claimed again "within cooldown" (store.go:133-135) only by a tick
\* that found its cap free before the claim it repeats was inserted.
SentOnce ==
  /\ \A x \in DOMAIN told : told[x] <= 1
  /\ \A c \in DOMAIN claims : claims[c] <= 1 + raced[c]

\* "Concurrent callers share a single token exchange" (fcm.go:244), and while
\* there is none nobody waits for one: a waiter that joined too late would sit
\* out its timeout.
OneExchangeForAll ==
  /\ \A w \in Workers : at[w] \in {"exchange", "got", "release"} => exchanger = w
  /\ \A w \in Workers : at[w] = "waiting" => exchanger # None /\ w \in waiters

\* Whoever waits for a token gets on, even if the exchange fails.
WaitersWake == \A w \in Workers : at[w] = "waiting" ~> at[w] # "waiting"
=============================================================================
