--------------------------- MODULE OutreachProofs ---------------------------
(***************************************************************************)
(* Proofs about Outreach, for any number of ticks, workers, devices,       *)
(* bookings and users.                                                     *)
(*                                                                         *)
(* The scheduler, the devices and the push client's token are changed by   *)
(* different actions.  Each has its part of the invariant, which a step of *)
(* the others leaves alone.                                                *)
(***************************************************************************)
EXTENDS Outreach, TLAPS

(***************************************************************************)
(* The invariants.                                                         *)
(***************************************************************************)
JobTypes == [kind : Kinds \cup {None}, left : SUBSET (Bookings \cup Users),
             on : Bookings \cup Users \cup {None}, to : SUBSET Users]

\* What a tick under way holds.
Local(t) ==
  /\ pc[t] # "idle" => job[t].kind \in Kinds
  /\ pc[t] \in {"claim", "lookup"} => job[t].kind \in Nudges /\ job[t].on \in Users
  /\ pc[t] = "notify" /\ job[t].kind \in Reminders => job[t].on \in Bookings

Stages == {"idle", "next", "claim", "lookup", "notify"}
Progress == pc \in [Ticks -> Stages] /\ job \in [Ticks -> JobTypes] /\ \A t \in Ticks : Local(t)

SchedulerTypes ==
  /\ reminders \subseteq Reminders \X Bookings
  /\ claims \in [Nudges \X Users -> Nat]
  /\ told \in [Reminders \X Bookings \X Users -> Nat]
  /\ overtaken \subseteq Ticks
  /\ raced \in [Nudges \X Users -> Nat]
  /\ Progress

DeviceTypes ==
  /\ owner \in [Devices -> Users \cup {None}]
  /\ disabled \subseteq Devices
  /\ outbox \subseteq Devices

WorkerTypes ==
  /\ fresh \in BOOLEAN
  /\ exchanger \in Workers \cup {None}
  /\ waiters \subseteq Workers
  /\ at \in [Workers -> {"idle", "token", "waiting", "woken", "exchange", "release", "got",
                         "post", "disable"}]
  /\ push \in [Workers -> Devices \cup {None}]
  /\ \A w \in Workers : at[w] # "idle" => push[w] \in Devices

Typed == SchedulerTypes /\ DeviceTypes /\ WorkerTypes

Notifying(t, k, b) == pc[t] = "notify" /\ job[t].kind = k /\ job[t].on = b

\* Of a reminder that is not on record nobody was told, and nobody is being told.
Unrecorded ==
  \A k \in Reminders, b \in Bookings : <<k, b>> \notin reminders =>
    /\ \A u \in Users : told[<<k, b, u>>] = 0
    /\ \A t \in Ticks : ~Notifying(t, k, b)

\* One tick tells of a reminder, and has not told those it still has to tell.
OneTells ==
  \A t \in Ticks, k \in Reminders, b \in Bookings : Notifying(t, k, b) =>
    /\ \A u \in job[t].to : told[<<k, b, u>>] = 0
    /\ \A s \in Ticks \ {t} : ~Notifying(s, k, b)

ToldOnce == \A k \in Reminders, b \in Bookings, u \in Users : told[<<k, b, u>>] <= 1

\* Who is about to insert a claim found none, and has been overtaken if there is.
FreeOrOvertaken ==
  \A t \in Ticks, k \in Nudges, u \in Users :
    Claiming(t, k, u) => claims[<<k, u>>] = 0 \/ t \in overtaken

RacedOnly == \A k \in Nudges, u \in Users : claims[<<k, u>>] <= 1 + raced[<<k, u>>]

Reminded == Unrecorded /\ OneTells /\ ToldOnce
Nudged == FreeOrOvertaken /\ RacedOnly

(***************************************************************************)
(* Types.                                                                  *)
(***************************************************************************)
LEMMA KindsApart == Kinds = Reminders \cup Nudges /\ Reminders \cap Nudges = {} /\ None \notin Workers
  BY OutreachConstants DEF Kinds

LEMMA PartiesAreUsers ==
  ASSUME NEW k, NEW b \in Bookings
  PROVE  Parties(k, b) \subseteq Users
  BY DEF Parties, Users

LEMMA ListsAreTyped ==
  ASSUME NEW k \in Kinds, NEW list \in Lists(k)
  PROVE  list \subseteq Bookings \cup Users
  BY OutreachConstants
  DEF Lists, Kinds, Users, ListConfirmedUpcoming, ListCompletedWithoutReview, ListUnreadConvos,
      ListPendingExpiring, ListInactiveUsers, ListDigestUsers

LEMMA TypedInit == Init => Typed
  <1> SUFFICES ASSUME Init PROVE Typed
    OBVIOUS
  <1>1. NoJob \in JobTypes
    BY DEF NoJob, JobTypes
  <1>2. SchedulerTypes
    BY <1>1 DEF Init, SchedulerTypes, Progress, Stages, Local
  <1>3. DeviceTypes
    BY DEF Init, DeviceTypes
  <1>4. WorkerTypes
    BY DEF Init, WorkerTypes
  <1> QED
    BY <1>2, <1>3, <1>4 DEF Typed

\* What the step of a tick leaves alone.
Others(t) == \A s \in Ticks \ {t} : pc'[s] = pc[s] /\ job'[s] = job[s]

LEMMA TickMoves ==
  ASSUME Progress, NEW t \in Ticks, Others(t), Local(t)',
         pc' \in [Ticks -> Stages], job' \in [Ticks -> JobTypes]
  PROVE  Progress'
  <1>1. ASSUME NEW s \in Ticks PROVE Local(s)'
    <2>1. CASE s = t
      BY <2>1
    <2>2. CASE s # t
      BY <2>2 DEF Others, Progress, Local
    <2> QED
      BY <2>1, <2>2
  <1> QED
    BY <1>1 DEF Progress

LEMMA StartJobMoves ==
  ASSUME Progress, NEW t \in Ticks, NEW k \in Kinds, StartJob(t, k)
  PROVE  Progress' /\ Others(t) /\ pc[t] = "idle" /\ pc'[t] = "next"
  <1>1. PICK list \in Lists(k) : job' = [job EXCEPT ![t] = [NoJob EXCEPT !.kind = k, !.left = list]]
    BY DEF StartJob
  <1> DEFINE j == [NoJob EXCEPT !.kind = k, !.left = list]
  <1>2. j \in JobTypes /\ j.kind = k
    BY ListsAreTyped DEF JobTypes, NoJob
  <1> HIDE DEF j
  <1>3. job' \in [Ticks -> JobTypes] /\ job'[t] = j /\ \A s \in Ticks \ {t} : job'[s] = job[s]
    BY <1>1, <1>2 DEF Progress, j
  <1>4. pc' = [pc EXCEPT ![t] = "next"] /\ pc[t] = "idle"
    BY DEF StartJob, Goto
  <1>5. Others(t) /\ pc'[t] = "next" /\ pc' \in [Ticks -> Stages]
    BY <1>3, <1>4 DEF Others, Progress, Stages
  <1>6. Local(t)'
    BY <1>2, <1>3, <1>5 DEF Local
  <1> QED
    BY <1>3, <1>4, <1>5, <1>6, TickMoves

LEMMA EndJobMoves ==
  ASSUME Progress, NEW t \in Ticks, EndJob(t)
  PROVE  Progress' /\ Others(t) /\ pc'[t] = "idle"
  <1>1. pc' = [pc EXCEPT ![t] = "idle"] /\ job' = [job EXCEPT ![t] = NoJob]
    BY DEF EndJob, Goto
  <1>2. NoJob \in JobTypes
    BY DEF JobTypes, NoJob
  <1>3. pc'[t] = "idle" /\ pc' \in [Ticks -> Stages] /\ job' \in [Ticks -> JobTypes] /\ Others(t)
    BY <1>1, <1>2 DEF Progress, Stages, Others
  <1>4. Local(t)'
    BY <1>3 DEF Local
  <1> QED
    BY <1>3, <1>4, TickMoves

\* The ways a tick goes on with its job.
LEMMA TakeMoves ==
  ASSUME Progress, NEW t \in Ticks, pc[t] = "next", NEW x \in Bookings \cup Users, NEW to \in SUBSET Users,
         NEW next \in {"claim", "notify"}, Take(t, x, to), Goto(t, next),
         next = "claim" => job[t].kind \in Nudges /\ x \in Users,
         job[t].kind \in Reminders => x \in Bookings
  PROVE  /\ Progress' /\ Others(t)
         /\ pc'[t] = next /\ job'[t].kind = job[t].kind /\ job'[t].on = x /\ job'[t].to = to
  <1>1. job \in [Ticks -> JobTypes] /\ job[t] \in JobTypes /\ Local(t)
    BY DEF Progress
  <1>2. /\ job'[t].kind = job[t].kind /\ job'[t].on = x /\ job'[t].to = to
        /\ job' \in [Ticks -> JobTypes] /\ \A s \in Ticks \ {t} : job'[s] = job[s]
    BY <1>1 DEF Take, JobTypes
  <1>3. pc'[t] = next /\ pc' \in [Ticks -> Stages] /\ \A s \in Ticks \ {t} : pc'[s] = pc[s]
    BY DEF Progress, Goto, Stages
  <1>4. Local(t)'
    BY <1>1, <1>2, <1>3 DEF Local
  <1> QED
    BY <1>2, <1>3, <1>4, TickMoves DEF Others

LEMMA SkipMoves ==
  ASSUME Progress, NEW t \in Ticks, NEW x, pc[t] = "next", Skip(t, x)
  PROVE  Progress' /\ Others(t) /\ pc'[t] = "next"
  <1>1. job \in [Ticks -> JobTypes] /\ job[t] \in JobTypes /\ Local(t)
    BY DEF Progress
  <1>2. job'[t].kind = job[t].kind /\ job' \in [Ticks -> JobTypes] /\ \A s \in Ticks \ {t} : job'[s] = job[s]
    BY <1>1 DEF Skip, JobTypes
  <1>3. pc' = pc
    BY DEF Skip
  <1>4. Local(t)'
    BY <1>1, <1>2, <1>3 DEF Local
  <1> QED
    BY <1>2, <1>3, <1>4, TickMoves DEF Others, Progress

LEMMA DropMoves ==
  ASSUME Progress, NEW t \in Ticks, pc[t] # "idle", Drop(t)
  PROVE  Progress' /\ Others(t) /\ pc'[t] = "next"
  <1>1. job \in [Ticks -> JobTypes] /\ job[t] \in JobTypes /\ Local(t)
    BY DEF Progress
  <1>2. job'[t].kind = job[t].kind /\ job' \in [Ticks -> JobTypes] /\ \A s \in Ticks \ {t} : job'[s] = job[s]
    BY <1>1 DEF Drop, JobTypes
  <1>3. pc'[t] = "next" /\ pc' \in [Ticks -> Stages] /\ \A s \in Ticks \ {t} : pc'[s] = pc[s]
    BY DEF Progress, Drop, Goto, Stages
  <1>4. Local(t)'
    BY <1>1, <1>2, <1>3 DEF Local
  <1> QED
    BY <1>2, <1>3, <1>4, TickMoves DEF Others

LEMMA ToldMoves ==
  ASSUME Progress, NEW t \in Ticks, NEW u, pc[t] = "notify", Told(t, u)
  PROVE  /\ Progress' /\ Others(t)
         /\ \/ pc'[t] = "next"
            \/ /\ pc'[t] = "notify" /\ job'[t].kind = job[t].kind /\ job'[t].on = job[t].on
               /\ job'[t].to = job[t].to \ {u}
  <1>1. CASE job[t].to = {u}
    BY <1>1, DropMoves DEF Told
  <1>2. CASE job[t].to # {u}
    <2>1. job \in [Ticks -> JobTypes] /\ job[t] \in JobTypes /\ Local(t)
      BY DEF Progress
    <2>2. pc' = pc /\ job' = [job EXCEPT ![t].to = @ \ {u}]
      BY <1>2 DEF Told
    <2>3. /\ job'[t].kind = job[t].kind /\ job'[t].on = job[t].on /\ job'[t].to = job[t].to \ {u}
          /\ job' \in [Ticks -> JobTypes] /\ \A s \in Ticks \ {t} : job'[s] = job[s]
      BY <2>1, <2>2 DEF JobTypes
    <2>4. Local(t)'
      BY <2>1, <2>2, <2>3 DEF Local
    <2> QED
      BY <2>2, <2>3, <2>4, TickMoves DEF Others, Progress
  <1> QED
    BY <1>1, <1>2

(***************************************************************************)
(* The steps of a tick, and what they do to the types, to the reminders    *)
(* and to the claims.                                                      *)
(***************************************************************************)

\* Nobody is told, and no tick comes to tell of a reminder.
TellsNobody(t) ==
  /\ reminders' = reminders /\ told' = told /\ Others(t)
  /\ pc'[t] = "notify" /\ job'[t].kind \in Reminders =>
       /\ pc[t] = "notify" /\ job'[t].kind = job[t].kind /\ job'[t].on = job[t].on
       /\ job'[t].to \subseteq job[t].to

LEMMA TellsNobodyReminded ==
  ASSUME Reminded, NEW t \in Ticks, TellsNobody(t)
  PROVE  Reminded'
  <1>1. ASSUME NEW s \in Ticks, NEW k \in Reminders, NEW b \in Bookings, Notifying(s, k, b)'
        PROVE  Notifying(s, k, b) /\ job'[s].to \subseteq job[s].to
    <2>1. CASE s = t
      BY <1>1, <2>1 DEF Notifying, TellsNobody
    <2>2. CASE s # t
      BY <1>1, <2>2 DEF Notifying, TellsNobody, Others
    <2> QED
      BY <2>1, <2>2
  <1>2. Unrecorded'
    BY <1>1 DEF Reminded, Unrecorded, TellsNobody
  <1>3. OneTells'
    BY <1>1 DEF Reminded, OneTells, TellsNobody
  <1>4. ToldOnce'
    BY DEF Reminded, ToldOnce, TellsNobody
  <1> QED
    BY <1>2, <1>3, <1>4 DEF Reminded

\* Nothing is claimed, and no tick comes to claim.
ClaimsNothing(t) ==
  /\ claims' = claims /\ raced' = raced /\ Others(t)
  /\ overtaken' \in {overtaken, overtaken \ {t}}
  /\ pc'[t] # "claim"

LEMMA ClaimsNothingNudged ==
  ASSUME Nudged, NEW t \in Ticks, ClaimsNothing(t)
  PROVE  Nudged'
  <1>1. ASSUME NEW s \in Ticks, NEW k \in Nudges, NEW u \in Users, Claiming(s, k, u)'
        PROVE  Claiming(s, k, u) /\ s # t
    BY <1>1 DEF Claiming, ClaimsNothing, Others
  <1>2. FreeOrOvertaken'
    BY <1>1 DEF Nudged, FreeOrOvertaken, ClaimsNothing
  <1>3. RacedOnly'
    BY DEF Nudged, RacedOnly, ClaimsNothing
  <1> QED
    BY <1>2, <1>3 DEF Nudged

LEMMA StartJobKeeps ==
  ASSUME SchedulerTypes, NEW t \in Ticks, NEW k \in Kinds, StartJob(t, k)
  PROVE  SchedulerTypes' /\ TellsNobody(t) /\ ClaimsNothing(t)
  <1>1. Progress' /\ Others(t) /\ pc'[t] = "next"
    BY StartJobMoves DEF SchedulerTypes
  <1>2. UNCHANGED <<reminders, claims, told, overtaken, raced>>
    BY DEF StartJob, races
  <1> QED
    BY <1>1, <1>2 DEF SchedulerTypes, TellsNobody, ClaimsNothing

LEMMA EndJobKeeps ==
  ASSUME SchedulerTypes, NEW t \in Ticks, EndJob(t)
  PROVE  SchedulerTypes' /\ TellsNobody(t) /\ ClaimsNothing(t)
  <1>1. Progress' /\ Others(t) /\ pc'[t] = "idle"
    BY EndJobMoves DEF SchedulerTypes
  <1>2. UNCHANGED <<reminders, claims, told, raced>> /\ overtaken' = overtaken \ {t}
    BY DEF EndJob
  <1> QED
    BY <1>1, <1>2 DEF SchedulerTypes, TellsNobody, ClaimsNothing

\* A new row in booking_reminders is one that nobody was told of.
LEMMA InsertReminderKeeps ==
  ASSUME SchedulerTypes, Reminded, NEW t \in Ticks, NEW b \in Bookings, InsertReminder(t, b)
  PROVE  SchedulerTypes' /\ Reminded' /\ ClaimsNothing(t)
  <1> DEFINE k == job[t].kind
  <1>1. /\ pc[t] = "next" /\ k \in Reminders /\ k \notin Nudges
        /\ reminders' = reminders \cup {<<k, b>>} /\ UNCHANGED <<claims, told, overtaken, raced>>
    BY KindsApart DEF InsertReminder, races
  <1>2. Progress /\ reminders' \subseteq Reminders \X Bookings
    BY <1>1 DEF SchedulerTypes
  <1>3. CASE ~NewReminder(k, b)
    <2>1. Skip(t, b) /\ reminders' = reminders
      BY <1>1, <1>3 DEF InsertReminder, NewReminder
    <2>2. Progress' /\ Others(t) /\ pc'[t] = "next"
      BY <1>1, <1>2, <2>1, SkipMoves
    <2>3. TellsNobody(t)
      BY <1>1, <2>1, <2>2 DEF TellsNobody
    <2> QED
      BY <1>1, <2>1, <2>2, <2>3, TellsNobodyReminded DEF SchedulerTypes, ClaimsNothing
  <1>4. CASE NewReminder(k, b)
    <2>1. Take(t, b, Parties(k, b)) /\ Goto(t, "notify")
      BY <1>4 DEF InsertReminder
    <2>2. /\ Progress' /\ Others(t)
          /\ pc'[t] = "notify" /\ job'[t].kind = k /\ job'[t].on = b /\ job'[t].to = Parties(k, b)
      BY <1>1, <1>2, <2>1, PartiesAreUsers, TakeMoves
    <2>3. /\ \A u \in Users : told[<<k, b, u>>] = 0
          /\ \A s \in Ticks : ~Notifying(s, k, b)
      BY <1>1, <1>4 DEF Reminded, Unrecorded, NewReminder
    <2>4. ASSUME NEW s \in Ticks, NEW l \in Reminders, NEW c \in Bookings, Notifying(s, l, c)'
          PROVE  (s = t /\ l = k /\ c = b) \/ (s # t /\ Notifying(s, l, c) /\ job'[s].to = job[s].to)
      BY <2>2, <2>4 DEF Notifying, Others
    <2>5. Unrecorded'
      <3> SUFFICES ASSUME NEW l \in Reminders, NEW c \in Bookings, <<l, c>> \notin reminders'
                   PROVE  (\A u \in Users : told'[<<l, c, u>>] = 0) /\ \A s \in Ticks : ~Notifying(s, l, c)'
        BY DEF Unrecorded
      <3>1. <<l, c>> \notin reminders /\ <<l, c>> # <<k, b>>
        BY <1>1
      <3>2. ~(l = k /\ c = b)
        BY <3>1
      <3> HIDE DEF k
      <3> QED
        BY <1>1, <2>4, <3>1, <3>2 DEF Reminded, Unrecorded
    <2>6. OneTells'
      <3> SUFFICES ASSUME NEW s \in Ticks, NEW l \in Reminders, NEW c \in Bookings, Notifying(s, l, c)'
                   PROVE  /\ \A u \in job'[s].to : told'[<<l, c, u>>] = 0
                          /\ \A q \in Ticks \ {s} : ~Notifying(q, l, c)'
        BY DEF OneTells
      <3> HIDE DEF k
      <3>1. CASE s = t /\ l = k /\ c = b
        BY <1>1, <2>2, <2>3, <2>4, <3>1, PartiesAreUsers
      <3>2. CASE s # t /\ Notifying(s, l, c) /\ job'[s].to = job[s].to
        BY <1>1, <2>3, <2>4, <3>2 DEF Reminded, OneTells
      <3> QED
        BY <2>4, <3>1, <3>2
    <2>7. ToldOnce'
      BY <1>1 DEF Reminded, ToldOnce
    <2> QED
      BY <1>1, <1>2, <2>2, <2>5, <2>6, <2>7 DEF Reminded, SchedulerTypes, ClaimsNothing
  <1> QED
    BY <1>3, <1>4

LEMMA LookUpKeeps ==
  ASSUME SchedulerTypes, NEW t \in Ticks, LookUp(t)
  PROVE  SchedulerTypes' /\ TellsNobody(t) /\ ClaimsNothing(t)
  <1>1. pc[t] = "lookup" /\ job[t].kind \in Nudges /\ job[t].kind \notin Reminders /\ Progress
        /\ UNCHANGED <<reminders, claims, told, overtaken, raced>>
    BY KindsApart DEF LookUp, races, SchedulerTypes, Progress, Local
  <1>2. CASE Goto(t, "notify") /\ UNCHANGED job
    <2>1. Others(t) /\ pc'[t] = "notify" /\ pc' \in [Ticks -> Stages] /\ job' \in [Ticks -> JobTypes]
      BY <1>1, <1>2 DEF Goto, Others, Progress, Stages
    <2>2. Local(t)'
      BY <1>1, <1>2, <2>1, KindsApart DEF Local
    <2> QED
      BY <1>1, <1>2, <2>1, <2>2, TickMoves DEF SchedulerTypes, TellsNobody, ClaimsNothing
  <1>3. CASE Drop(t)
    <2>1. Progress' /\ Others(t) /\ pc'[t] = "next"
      BY <1>1, <1>3, DropMoves
    <2> QED
      BY <1>1, <2>1 DEF SchedulerTypes, TellsNobody, ClaimsNothing
  <1> QED
    BY <1>2, <1>3 DEF LookUp

LEMMA NotifyFailsKeeps ==
  ASSUME SchedulerTypes, NEW t \in Ticks, NEW u \in Users, NotifyFails(t, u)
  PROVE  SchedulerTypes' /\ TellsNobody(t) /\ ClaimsNothing(t)
  <1>1. pc[t] = "notify" /\ Told(t, u) /\ Progress
        /\ UNCHANGED <<reminders, claims, told, overtaken, raced>>
    BY DEF NotifyFails, races, SchedulerTypes
  <1>2. /\ Progress' /\ Others(t)
        /\ \/ pc'[t] = "next"
           \/ /\ pc'[t] = "notify" /\ job'[t].kind = job[t].kind /\ job'[t].on = job[t].on
              /\ job'[t].to = job[t].to \ {u}
    BY <1>1, ToldMoves
  <1> QED
    BY <1>1, <1>2 DEF SchedulerTypes, TellsNobody, ClaimsNothing

\* A user is told, who had not been told, and drops out of those to be told.
LEMMA NotifyKeeps ==
  ASSUME SchedulerTypes, Reminded, NEW t \in Ticks, NEW u \in Users, Notify(t, u)
  PROVE  SchedulerTypes' /\ Reminded' /\ ClaimsNothing(t)
  <1> DEFINE k == job[t].kind
             b == job[t].on
  <1>1. /\ pc[t] = "notify" /\ u \in job[t].to /\ Told(t, u) /\ Progress
        /\ UNCHANGED <<reminders, claims, overtaken, raced>>
        /\ told' = IF k \in Reminders THEN [told EXCEPT ![<<k, b, u>>] = @ + 1] ELSE told
    BY DEF Notify, races, SchedulerTypes
  <1>2. /\ Progress' /\ Others(t)
        /\ \/ pc'[t] = "next"
           \/ /\ pc'[t] = "notify" /\ job'[t].kind = k /\ job'[t].on = b
              /\ job'[t].to = job[t].to \ {u}
    BY <1>1, ToldMoves
  <1>3. ClaimsNothing(t)
    BY <1>1, <1>2 DEF ClaimsNothing
  <1>4. CASE k \notin Reminders
    <2>1. TellsNobody(t)
      BY <1>1, <1>2, <1>4 DEF TellsNobody
    <2> QED
      BY <1>1, <1>2, <1>3, <1>4, <2>1, TellsNobodyReminded DEF SchedulerTypes
  <1>5. CASE k \in Reminders
    <2>1. b \in Bookings
      BY <1>1, <1>5 DEF Progress, Local
    <2>2. Notifying(t, k, b)
      BY <1>1 DEF Notifying
    <2> HIDE DEF k, b
    <2>3. /\ told[<<k, b, u>>] = 0
          /\ \A s \in Ticks \ {t} : ~Notifying(s, k, b)
          /\ <<k, b>> \in reminders
      BY <1>1, <1>5, <2>1, <2>2 DEF Reminded, OneTells, Unrecorded
    <2>4. told \in [Reminders \X Bookings \X Users -> Nat] /\ <<k, b, u>> \in Reminders \X Bookings \X Users
      BY <1>5, <2>1 DEF SchedulerTypes
    <2>5. /\ told' \in [Reminders \X Bookings \X Users -> Nat]
          /\ told'[<<k, b, u>>] = 1
      BY <1>1, <1>5, <2>3, <2>4
    <2>6. ASSUME NEW l \in Reminders, NEW c \in Bookings, NEW v \in Users, ~(l = k /\ c = b /\ v = u)
          PROVE  told'[<<l, c, v>>] = told[<<l, c, v>>]
      <3>1. <<l, c, v>> # <<k, b, u>> /\ <<l, c, v>> \in Reminders \X Bookings \X Users
        BY <2>6
      <3> QED
        BY <1>1, <1>5, <2>4, <3>1
    <2>7. ASSUME NEW s \in Ticks, NEW l \in Reminders, NEW c \in Bookings, Notifying(s, l, c)'
          PROVE  /\ Notifying(s, l, c)
                 /\ s = t => l = k /\ c = b /\ job'[s].to = job[s].to \ {u}
                 /\ s # t => job'[s].to = job[s].to
      BY <1>1, <1>2, <2>7 DEF Notifying, Others, k, b
    <2>8. Unrecorded'
      <3> SUFFICES ASSUME NEW l \in Reminders, NEW c \in Bookings, <<l, c>> \notin reminders
                   PROVE  (\A v \in Users : told'[<<l, c, v>>] = 0) /\ \A s \in Ticks : ~Notifying(s, l, c)'
        BY <1>1 DEF Unrecorded
      <3>1. ~(l = k /\ c = b)
        BY <2>3
      <3> QED
        BY <2>6, <2>7, <3>1 DEF Reminded, Unrecorded
    <2>9. OneTells'
      <3> SUFFICES ASSUME NEW s \in Ticks, NEW l \in Reminders, NEW c \in Bookings, Notifying(s, l, c)'
                   PROVE  /\ \A v \in job'[s].to : told'[<<l, c, v>>] = 0
                          /\ \A q \in Ticks \ {s} : ~Notifying(q, l, c)'
        BY DEF OneTells
      <3>1. /\ \A v \in job[s].to : told[<<l, c, v>>] = 0
            /\ \A q \in Ticks \ {s} : ~Notifying(q, l, c)
        BY <2>7 DEF Reminded, OneTells
      <3>2. job[s].to \subseteq Users
        BY <1>1 DEF Progress, JobTypes
      <3>3. ASSUME NEW v \in job'[s].to PROVE v \in job[s].to /\ ~(l = k /\ c = b /\ v = u)
        BY <2>3, <2>7, <3>3
      <3> QED
        BY <2>6, <2>7, <3>1, <3>2, <3>3
    <2>10. ToldOnce'
      <3> SUFFICES ASSUME NEW l \in Reminders, NEW c \in Bookings, NEW v \in Users
                   PROVE  told'[<<l, c, v>>] <= 1
        BY DEF ToldOnce
      <3>1. CASE l = k /\ c = b /\ v = u
        BY <2>5, <3>1
      <3>2. CASE ~(l = k /\ c = b /\ v = u)
        BY <2>6, <3>2 DEF Reminded, ToldOnce
      <3> QED
        BY <3>1, <3>2
    <2> QED
      BY <1>1, <1>2, <1>3, <2>5, <2>8, <2>9, <2>10 DEF Reminded, SchedulerTypes
  <1> QED
    BY <1>4, <1>5

LEMMA ReadCapKeeps ==
  ASSUME SchedulerTypes, NEW t \in Ticks, NEW u \in Users, ReadCap(t, u)
  PROVE  SchedulerTypes' /\ TellsNobody(t) /\ (Nudged => Nudged')
  <1> DEFINE k == job[t].kind
  <1>1. /\ pc[t] = "next" /\ k \in Nudges /\ k \notin Reminders /\ Progress
        /\ UNCHANGED <<reminders, claims, told, overtaken, raced>>
    BY KindsApart DEF ReadCap, races, SchedulerTypes
  <1>2. CASE claims[<<k, u>>] # 0
    <2>1. Skip(t, u)
      BY <1>2 DEF ReadCap
    <2>2. Progress' /\ Others(t) /\ pc'[t] = "next"
      BY <1>1, <2>1, SkipMoves
    <2> QED
      BY <1>1, <2>2, ClaimsNothingNudged DEF SchedulerTypes, TellsNobody, ClaimsNothing
  <1>3. CASE claims[<<k, u>>] = 0
    <2>1. Take(t, u, {u}) /\ Goto(t, "claim")
      BY <1>3 DEF ReadCap
    <2>2. Progress' /\ Others(t) /\ pc'[t] = "claim" /\ job'[t].kind = k /\ job'[t].on = u
      BY <1>1, <2>1, TakeMoves
    <2>3. SchedulerTypes' /\ TellsNobody(t)
      BY <1>1, <2>2 DEF SchedulerTypes, TellsNobody
    <2> HIDE DEF k
    <2>4. ASSUME NEW s \in Ticks, NEW l \in Nudges, NEW v \in Users, Claiming(s, l, v)'
          PROVE  (s = t /\ l = k /\ v = u) \/ Claiming(s, l, v)
      BY <2>2, <2>4 DEF Claiming, Others
    <2>5. Nudged => FreeOrOvertaken'
      BY <1>1, <1>3, <2>4 DEF Nudged, FreeOrOvertaken
    <2>6. Nudged => RacedOnly'
      BY <1>1 DEF Nudged, RacedOnly
    <2> QED
      BY <2>3, <2>5, <2>6 DEF Nudged
  <1> QED
    BY <1>2, <1>3

\* A second claim is raced, and every tick that is about to insert one now is
\* overtaken.
LEMMA InsertClaimKeeps ==
  ASSUME SchedulerTypes, NEW t \in Ticks, InsertClaim(t)
  PROVE  SchedulerTypes' /\ TellsNobody(t) /\ (Nudged => Nudged')
  <1> DEFINE k == job[t].kind
             u == job[t].on
  <1>1. /\ pc[t] = "claim" /\ k \in Nudges /\ k \notin Reminders /\ u \in Users /\ Progress
        /\ UNCHANGED <<reminders, told, job>>
        /\ claims' = [claims EXCEPT ![<<k, u>>] = @ + 1]
        /\ raced' = IF t \in overtaken THEN [raced EXCEPT ![<<k, u>>] = @ + 1] ELSE raced
        /\ overtaken' = (overtaken \cup {s \in Ticks : Claiming(s, k, u)}) \ {t}
    BY KindsApart DEF InsertClaim, SchedulerTypes, Progress, Local
  <1>2. /\ pc'[t] \in {"lookup", "notify"} /\ pc' \in [Ticks -> Stages]
        /\ \A s \in Ticks \ {t} : pc'[s] = pc[s]
    BY <1>1 DEF InsertClaim, Goto, Progress, Stages
  <1>3. Local(t)'
    BY <1>1, <1>2, KindsApart DEF Local
  <1>4. Progress' /\ Others(t)
    BY <1>1, <1>2, <1>3, TickMoves DEF Progress, Others
  <1>5. /\ claims \in [Nudges \X Users -> Nat] /\ raced \in [Nudges \X Users -> Nat]
        /\ overtaken \subseteq Ticks /\ <<k, u>> \in Nudges \X Users
    BY <1>1 DEF SchedulerTypes
  <1>6. /\ claims' \in [Nudges \X Users -> Nat] /\ raced' \in [Nudges \X Users -> Nat]
        /\ overtaken' \subseteq Ticks
    BY <1>1, <1>5
  <1>7. SchedulerTypes' /\ TellsNobody(t)
    BY <1>1, <1>2, <1>4, <1>6 DEF SchedulerTypes, TellsNobody
  <1>8. ASSUME Nudged PROVE Nudged'
    <2>1. claims[<<k, u>>] = 0 \/ t \in overtaken
      BY <1>1, <1>8 DEF Nudged, FreeOrOvertaken, Claiming
    <2> HIDE DEF k, u
    <2>2. claims[<<k, u>>] <= 1 + raced[<<k, u>>]
      BY <1>1, <1>8 DEF Nudged, RacedOnly
    <2>3. claims[<<k, u>>] \in Nat /\ raced[<<k, u>>] \in Nat
      BY <1>5
    <2>4. claims'[<<k, u>>] = claims[<<k, u>>] + 1
      BY <1>1, <1>5
    <2>5. raced'[<<k, u>>] = IF t \in overtaken THEN raced[<<k, u>>] + 1 ELSE raced[<<k, u>>]
      BY <1>1, <1>5
    <2>6. claims'[<<k, u>>] <= 1 + raced'[<<k, u>>]
      BY <2>1, <2>2, <2>3, <2>4, <2>5
    <2>7. ASSUME NEW l \in Nudges, NEW v \in Users, ~(l = k /\ v = u)
          PROVE  claims'[<<l, v>>] = claims[<<l, v>>] /\ raced'[<<l, v>>] = raced[<<l, v>>]
      <3>1. <<l, v>> # <<k, u>> /\ <<l, v>> \in Nudges \X Users
        BY <2>7
      <3> QED
        BY <1>1, <1>5, <3>1
    <2>8. FreeOrOvertaken'
      <3> SUFFICES ASSUME NEW s \in Ticks, NEW l \in Nudges, NEW v \in Users, Claiming(s, l, v)'
                   PROVE  claims'[<<l, v>>] = 0 \/ s \in overtaken'
        BY DEF FreeOrOvertaken
      <3>1. s # t /\ Claiming(s, l, v)
        BY <1>1, <1>2 DEF Claiming
      <3>2. CASE l = k /\ v = u
        BY <1>1, <3>1, <3>2
      <3>3. CASE ~(l = k /\ v = u)
        <4>1. claims[<<l, v>>] = 0 \/ s \in overtaken
          BY <1>8, <3>1 DEF Nudged, FreeOrOvertaken
        <4> QED
          BY <1>1, <2>7, <3>1, <3>3, <4>1
      <3> QED
        BY <3>2, <3>3
    <2>9. RacedOnly'
      <3> SUFFICES ASSUME NEW l \in Nudges, NEW v \in Users
                   PROVE  claims'[<<l, v>>] <= 1 + raced'[<<l, v>>]
        BY DEF RacedOnly
      <3>1. CASE l = k /\ v = u
        BY <2>6, <3>1
      <3>2. CASE ~(l = k /\ v = u)
        BY <1>8, <2>7, <3>2 DEF Nudged, RacedOnly
      <3> QED
        BY <3>1, <3>2
    <2> QED
      BY <2>8, <2>9 DEF Nudged
  <1> QED
    BY <1>7, <1>8

LEMMA CooldownEndsKeeps ==
  ASSUME SchedulerTypes, NEW k \in Nudges, NEW u \in Users, CooldownEnds(k, u)
  PROVE  /\ SchedulerTypes' /\ UNCHANGED <<reminders, told, pc, job>>
         /\ (Nudged => Nudged')
  <1>1. /\ claims' = [claims EXCEPT ![<<k, u>>] = 0] /\ raced' = [raced EXCEPT ![<<k, u>>] = 0]
        /\ overtaken' = {t \in overtaken : ~Claiming(t, k, u)}
        /\ UNCHANGED <<reminders, told, pc, job>>
    BY DEF CooldownEnds
  <1>2. /\ claims \in [Nudges \X Users -> Nat] /\ raced \in [Nudges \X Users -> Nat]
        /\ overtaken \subseteq Ticks /\ <<k, u>> \in Nudges \X Users
    BY DEF SchedulerTypes
  <1>3. /\ claims' \in [Nudges \X Users -> Nat] /\ raced' \in [Nudges \X Users -> Nat]
        /\ overtaken' \subseteq Ticks
    BY <1>1, <1>2
  <1>4. SchedulerTypes'
    BY <1>1, <1>3 DEF SchedulerTypes, Progress, Local
  <1>5. claims'[<<k, u>>] = 0 /\ raced'[<<k, u>>] = 0
    BY <1>1, <1>2
  <1>6. ASSUME NEW l \in Nudges, NEW v \in Users, ~(l = k /\ v = u)
        PROVE  claims'[<<l, v>>] = claims[<<l, v>>] /\ raced'[<<l, v>>] = raced[<<l, v>>]
    <2>1. <<l, v>> # <<k, u>> /\ <<l, v>> \in Nudges \X Users
      BY <1>6
    <2> QED
      BY <1>1, <1>2, <2>1
  <1>7. ASSUME Nudged PROVE FreeOrOvertaken'
    <2> SUFFICES ASSUME NEW s \in Ticks, NEW l \in Nudges, NEW v \in Users, Claiming(s, l, v)'
                 PROVE  claims'[<<l, v>>] = 0 \/ s \in overtaken'
      BY DEF FreeOrOvertaken
    <2>1. Claiming(s, l, v)
      BY <1>1 DEF Claiming
    <2>2. CASE l = k /\ v = u
      BY <1>5, <2>2
    <2>3. CASE ~(l = k /\ v = u)
      <3>1. ~Claiming(s, k, u)
        BY <2>1, <2>3 DEF Claiming
      <3>2. claims[<<l, v>>] = 0 \/ s \in overtaken
        BY <1>7, <2>1 DEF Nudged, FreeOrOvertaken
      <3> QED
        BY <1>1, <1>6, <2>3, <3>1, <3>2
    <2> QED
      BY <2>2, <2>3
  <1>8. ASSUME Nudged PROVE RacedOnly'
    <2> SUFFICES ASSUME NEW l \in Nudges, NEW v \in Users
                 PROVE  claims'[<<l, v>>] <= 1 + raced'[<<l, v>>]
      BY DEF RacedOnly
    <2>1. CASE l = k /\ v = u
      BY <1>5, <2>1
    <2>2. CASE ~(l = k /\ v = u)
      BY <1>6, <1>8, <2>2 DEF Nudged, RacedOnly
    <2> QED
      BY <2>1, <2>2
  <1> QED
    BY <1>1, <1>4, <1>7, <1>8 DEF Nudged

\* All steps that are not a tick's leave the scheduler alone.
LEMMA Elsewhere ==
  ASSUME SchedulerTypes, UNCHANGED scheduler
  PROVE  SchedulerTypes' /\ (Reminded => Reminded') /\ (Nudged => Nudged')
  <1>1. UNCHANGED <<reminders, claims, told, overtaken, raced, pc, job>>
    BY DEF scheduler, races
  <1>2. SchedulerTypes'
    BY <1>1 DEF SchedulerTypes, Progress, Local
  <1>3. Reminded => Reminded'
    BY <1>1 DEF Reminded, Unrecorded, OneTells, ToldOnce, Notifying
  <1>4. Nudged => Nudged'
    BY <1>1 DEF Nudged, FreeOrOvertaken, RacedOnly, Claiming
  <1> QED
    BY <1>2, <1>3, <1>4

LEMMA SchedulerStep ==
  ASSUME SchedulerTypes, Reminded, [Next]_vars
  PROVE  SchedulerTypes' /\ Reminded' /\ (Nudged => Nudged')
  <1>1. ASSUME NEW t \in Ticks, Tick(t)
        PROVE  SchedulerTypes' /\ Reminded' /\ (Nudged => Nudged')
    <2>1. ASSUME NEW k \in Kinds, StartJob(t, k)
          PROVE  SchedulerTypes' /\ Reminded' /\ (Nudged => Nudged')
      BY <2>1, StartJobKeeps, TellsNobodyReminded, ClaimsNothingNudged
    <2>2. ASSUME NEW b \in Bookings, InsertReminder(t, b)
          PROVE  SchedulerTypes' /\ Reminded' /\ (Nudged => Nudged')
      BY <2>2, InsertReminderKeeps, ClaimsNothingNudged
    <2>3. ASSUME NEW u \in Users, ReadCap(t, u)
          PROVE  SchedulerTypes' /\ Reminded' /\ (Nudged => Nudged')
      BY <2>3, ReadCapKeeps, TellsNobodyReminded
    <2>4. ASSUME NEW u \in Users, Notify(t, u)
          PROVE  SchedulerTypes' /\ Reminded' /\ (Nudged => Nudged')
      BY <2>4, NotifyKeeps, ClaimsNothingNudged
    <2>5. ASSUME NEW u \in Users, NotifyFails(t, u)
          PROVE  SchedulerTypes' /\ Reminded' /\ (Nudged => Nudged')
      BY <2>5, NotifyFailsKeeps, TellsNobodyReminded, ClaimsNothingNudged
    <2>6. CASE InsertClaim(t)
      BY <2>6, InsertClaimKeeps, TellsNobodyReminded
    <2>7. CASE LookUp(t)
      BY <2>7, LookUpKeeps, TellsNobodyReminded, ClaimsNothingNudged
    <2>8. CASE EndJob(t)
      BY <2>8, EndJobKeeps, TellsNobodyReminded, ClaimsNothingNudged
    <2> QED
      BY <1>1, <2>1, <2>2, <2>3, <2>4, <2>5, <2>6, <2>7, <2>8 DEF Tick
  <1>2. ASSUME NEW w \in Workers, Work(w) PROVE UNCHANGED scheduler
    BY <1>2 DEF Work, BeginSend, AccessToken, Exchange, Release, CheckAgain, WaitTimesOut, Post, DisableDevice
  <1>3. ASSUME NEW k \in Nudges, NEW u \in Users, CooldownEnds(k, u)
        PROVE  SchedulerTypes' /\ Reminded' /\ (Nudged => Nudged')
    <2>1. SchedulerTypes' /\ (Nudged => Nudged') /\ UNCHANGED <<reminders, told, pc, job>>
      BY <1>3, CooldownEndsKeeps
    <2>2. Reminded'
      BY <2>1 DEF Reminded, Unrecorded, OneTells, ToldOnce, Notifying
    <2> QED
      BY <2>1, <2>2
  <1>4. ASSUME NEW u \in Users, NEW d \in Devices, RegisterDevice(u, d) \/ RemoveDevice(u, d)
        PROVE  UNCHANGED scheduler
    BY <1>4 DEF RegisterDevice, RemoveDevice
  <1>5. CASE TokenExpires
    BY <1>5, Elsewhere DEF TokenExpires
  <1>6. CASE UNCHANGED vars
    BY <1>6, Elsewhere DEF vars
  <1> QED
    BY <1>1, <1>2, <1>3, <1>4, <1>5, <1>6, Elsewhere DEF Next

(***************************************************************************)
(* The devices and the push client.                                        *)
(***************************************************************************)
LEMMA WorkerStep ==
  ASSUME Typed, NEW w \in Workers, Work(w)
  PROVE  DeviceTypes' /\ WorkerTypes'
  <1> USE DEF Typed, DeviceTypes, WorkerTypes
  <1>1. ASSUME NEW d \in outbox, BeginSend(w, d) PROVE DeviceTypes' /\ WorkerTypes'
    BY <1>1 DEF BeginSend, Step, devices, token
  <1>2. CASE AccessToken(w)
    BY <1>2 DEF AccessToken, Step, devices, token
  <1>3. CASE Exchange(w)
    BY <1>3 DEF Exchange, Step, devices
  <1>4. CASE Release(w)
    BY <1>4 DEF Release, devices
  <1>5. CASE CheckAgain(w)
    BY <1>5 DEF CheckAgain, Step, Stop, devices, token
  <1>6. CASE WaitTimesOut(w)
    BY <1>6 DEF WaitTimesOut, Step, Stop, devices, token
  <1>7. CASE Post(w)
    BY <1>7 DEF Post, Step, Stop, devices, token
  <1>8. CASE DisableDevice(w)
    BY <1>8 DEF DisableDevice, Step, Stop, token
  <1> QED
    BY <1>1, <1>2, <1>3, <1>4, <1>5, <1>6, <1>7, <1>8 DEF Work

LEMMA DevicesStep ==
  ASSUME Typed, [Next]_vars
  PROVE  DeviceTypes' /\ WorkerTypes'
  <1> USE DEF Typed, DeviceTypes, WorkerTypes
  <1>1. ASSUME NEW t \in Ticks, Tick(t)
        PROVE  UNCHANGED <<devices, token, at, push>> /\ outbox' \subseteq outbox \cup Devices
    BY <1>1 DEF Tick, StartJob, InsertReminder, ReadCap, Notify, NotifyFails, InsertClaim, LookUp, EndJob,
                ListTokensForUser
  <1>2. ASSUME NEW t \in Ticks, Tick(t) PROVE DeviceTypes' /\ WorkerTypes'
    BY <1>1, <1>2 DEF devices, token
  <1>3. ASSUME NEW k \in Nudges, NEW u \in Users, CooldownEnds(k, u) PROVE DeviceTypes' /\ WorkerTypes'
    BY <1>3 DEF CooldownEnds, devices, token
  <1>4. ASSUME NEW u \in Users, NEW d \in Devices, RegisterDevice(u, d) \/ RemoveDevice(u, d)
        PROVE  DeviceTypes' /\ WorkerTypes'
    BY <1>4 DEF RegisterDevice, RemoveDevice, token
  <1>5. CASE TokenExpires
    BY <1>5 DEF TokenExpires, devices
  <1>6. CASE UNCHANGED vars
    BY <1>6 DEF vars, devices, token
  <1> QED
    BY <1>2, <1>3, <1>4, <1>5, <1>6, WorkerStep DEF Next

LEMMA ExchangeStep ==
  ASSUME Typed, OneExchangeForAll, [Next]_vars
  PROVE  OneExchangeForAll'
  <1> USE DEF Typed, WorkerTypes, OneExchangeForAll
  <1>1. ASSUME NEW w \in Workers, Work(w) PROVE OneExchangeForAll'
    <2>1. ASSUME NEW d \in outbox, BeginSend(w, d) PROVE OneExchangeForAll'
      BY <2>1 DEF BeginSend, Step, token
    <2>2. CASE AccessToken(w)
      BY <2>2, KindsApart DEF AccessToken, Step, token
    <2>3. CASE Exchange(w)
      BY <2>3 DEF Exchange, Step
    <2>4. CASE Release(w)
      BY <2>4 DEF Release
    <2>5. CASE CheckAgain(w)
      BY <2>5 DEF CheckAgain, Step, Stop, token
    <2>6. CASE WaitTimesOut(w)
      BY <2>6 DEF WaitTimesOut, Step, Stop, token
    <2>7. CASE Post(w)
      BY <2>7 DEF Post, Step, Stop, token
    <2>8. CASE DisableDevice(w)
      BY <2>8 DEF DisableDevice, Step, Stop, token
    <2> QED
      BY <1>1, <2>1, <2>2, <2>3, <2>4, <2>5, <2>6, <2>7, <2>8 DEF Work
  <1>2. ASSUME NEW t \in Ticks, Tick(t) PROVE UNCHANGED <<token, at>>
    BY <1>2 DEF Tick, StartJob, InsertReminder, ReadCap, Notify, NotifyFails, InsertClaim, LookUp, EndJob
  <1>3. ASSUME NEW k \in Nudges, NEW u \in Users, CooldownEnds(k, u) PROVE UNCHANGED <<token, at>>
    BY <1>3 DEF CooldownEnds
  <1>4. ASSUME NEW u \in Users, NEW d \in Devices, RegisterDevice(u, d) \/ RemoveDevice(u, d)
        PROVE  UNCHANGED <<token, at>>
    BY <1>4 DEF RegisterDevice, RemoveDevice
  <1>5. CASE TokenExpires
    BY <1>5 DEF TokenExpires
  <1>6. CASE UNCHANGED vars
    BY <1>6 DEF vars, token
  <1>7. ASSUME UNCHANGED <<token, at>> PROVE OneExchangeForAll'
    BY <1>7 DEF token
  <1> QED
    BY <1>1, <1>2, <1>3, <1>4, <1>5, <1>6, <1>7 DEF Next

(***************************************************************************)
(* The theorems.                                                           *)
(***************************************************************************)
LEMMA RemindedInit == Init => Reminded /\ Nudged /\ OneExchangeForAll
  <1> SUFFICES ASSUME Init PROVE Reminded /\ Nudged /\ OneExchangeForAll
    OBVIOUS
  <1>1. Reminded
    BY DEF Init, Reminded, Unrecorded, OneTells, ToldOnce, Notifying
  <1>2. Nudged
    BY DEF Init, Nudged, FreeOrOvertaken, RacedOnly, Claiming
  <1>3. OneExchangeForAll
    BY DEF Init, OneExchangeForAll
  <1> QED
    BY <1>1, <1>2, <1>3

LEMMA Always == Spec => [](Typed /\ Reminded)
  <1>1. Typed /\ Reminded /\ [Next]_vars => (Typed /\ Reminded)'
    BY SchedulerStep, DevicesStep DEF Typed
  <1> QED
    BY <1>1, TypedInit, RemindedInit, PTL DEF Spec

\* Jobs, devices and the push client keep their types (internal/jobs,
\* internal/notifications, pkg/fcm).
THEOREM TypeCorrect == Spec => []TypeOK
  <1>1. Typed => TypeOK
    BY DEF Typed, TypeOK, SchedulerTypes, DeviceTypes, WorkerTypes, Progress, Stages, JobTypes
  <1> QED
    BY <1>1, Always, PTL

\* Nobody is told of a reminder twice (jobs/store.go:122-131), however many ticks
\* run at once and wherever they break off, and a claim within the cooldown of
\* another is that of a tick which had read before the other was inserted (133-152).
THEOREM RemindedOnceNudgedInRaces == Spec => []SentOnce
  <1>1. Typed /\ Reminded /\ Nudged /\ [Next]_vars => Nudged'
    BY SchedulerStep DEF Typed
  <1>2. Typed /\ Reminded /\ Nudged => SentOnce
    <2> SUFFICES ASSUME Typed, Reminded, Nudged PROVE SentOnce
      OBVIOUS
    <2>1. ASSUME NEW x \in DOMAIN told PROVE told[x] <= 1
      <3>1. x \in Reminders \X Bookings \X Users
        BY <2>1 DEF Typed, SchedulerTypes
      <3>2. PICK k \in Reminders, b \in Bookings, u \in Users : x = <<k, b, u>>
        BY <3>1
      <3> QED
        BY <3>2 DEF Reminded, ToldOnce
    <2>2. ASSUME NEW c \in DOMAIN claims PROVE claims[c] <= 1 + raced[c]
      <3>1. c \in Nudges \X Users
        BY <2>2 DEF Typed, SchedulerTypes
      <3>2. PICK k \in Nudges, u \in Users : c = <<k, u>>
        BY <3>1
      <3> QED
        BY <3>2 DEF Nudged, RacedOnly
    <2> QED
      BY <2>1, <2>2 DEF SentOnce
  <1> QED
    BY <1>1, <1>2, Always, RemindedInit, PTL DEF Spec

\* Any number of concurrent pushes share one exchange of the access token, and
\* nobody waits when there is none (fcm.go:242-325).
THEOREM ExchangesAreShared == Spec => []OneExchangeForAll
  <1>1. Typed /\ OneExchangeForAll /\ [Next]_vars => OneExchangeForAll'
    BY ExchangeStep
  <1> QED
    BY <1>1, Always, RemindedInit, PTL DEF Spec
=============================================================================
