-------------------------- MODULE MessagingProofs --------------------------
(* What the chat and the hub guarantee for any number of messages, users and *)
(* connections.                                                              *)
EXTENDS Messaging, SequenceTheorems, TLAPS

-----------------------------------------------------------------------------
(* The inductive invariant *)

\* What a process that is about to push, or pushes, has to push: its own frame.
TaskOwned ==
  \A p \in Processes :
    pc[p] \in {"online", "lock", "enqueue", "evict"} =>
      p \in Frames /\ task[p].frame = p /\ task[p].to \in Users

\* A connection whose frame is on its way has none left to send.
OneFrameEach ==
  \A p \in toSend : pc[p] \notin {"online", "lock", "enqueue", "evict"}

\* The loop of SendToUser runs under the mutex.
LoopHoldsMutex ==
  \A p \in Processes : pc[p] \in {"enqueue", "evict"} => mu = p

\* A process may still push its frame to the user u, and has not begun to.
Pending(p, u) ==
  \/ p \in toSend
  \/ p \in Messages /\ pc[p] \in {"idle", "insert", "preview", "reload"}
  \/ pc[p] \in {"lock", "online"} /\ (p \in Messages => task[p].to \in {u, SenderOf[p]})
  \/ pc[p] = "enqueue" /\ p \in Messages /\ task[p].to = SenderOf[p] /\ u # SenderOf[p]

PendingIsUnpushed ==
  \A p \in Frames, c \in Connections : Pending(p, UserOf[c]) => ~Holds(p, Pushed(c))

\* While a frame is pushed it is the last one of the connections that have it,
\* and those that are left do not have it.
PushedLast ==
  \A p \in Processes : pc[p] = "enqueue" =>
    \A c \in Connections :
      /\ c \in task[p].left => UserOf[c] = task[p].to /\ ~Holds(p, Pushed(c))
      /\ UserOf[c] = task[p].to => \A g \in Frames : ~Before(p, g, Pushed(c))

\* A connection that was not made yet has no pumps.
Unconnected ==
  \A c \in Connections : conn[c] = "none" => pc[c] = "idle" /\ writer[c] = "none"

\* The loop of SendToUser left no live connection behind.
ReachedSoFar ==
  \A p \in Processes : pc[p] = "enqueue" =>
    \A c \in Registered(task[p].to) \ task[p].left :
      conn[c] # "closed" => Holds(p, Pushed(c))

\* The messages that ended before another was stored will not write a preview.
EarlierAreSent ==
  \A m \in Messages :
    /\ \A n \in earlier[m] : n # m /\ pc[n] = "sent"
    /\ pc[m] \in {"idle", "insert"} => m \notin messages

-----------------------------------------------------------------------------
(* Sequences *)

\* An element that joins comes after all others.
LEMMA BeforeAppend ==
  ASSUME NEW S, NEW s \in Seq(S), NEW x \in S, NEW f, NEW g
  PROVE  /\ Holds(f, Append(s, x)) => Holds(f, s) \/ f = x
         /\ Before(f, g, Append(s, x)) => Before(f, g, s) \/ (g = x /\ Holds(f, s))
<1>1. /\ Append(s, x) \in Seq(S)
      /\ Len(Append(s, x)) = Len(s) + 1
      /\ \A i \in 1..Len(s) : Append(s, x)[i] = s[i]
      /\ Append(s, x)[Len(s) + 1] = x
  OBVIOUS
<1>2. DOMAIN s = 1..Len(s) /\ DOMAIN Append(s, x) = 1..(Len(s) + 1) /\ Len(s) \in Nat
  BY <1>1
<1>3. Holds(f, Append(s, x)) => Holds(f, s) \/ f = x
  BY <1>1, <1>2 DEF Holds
<1>4. ASSUME NEW i \in DOMAIN Append(s, x), NEW j \in DOMAIN Append(s, x),
             i < j, Append(s, x)[i] = f, Append(s, x)[j] = g
      PROVE  Before(f, g, s) \/ (g = x /\ Holds(f, s))
  <2>1. i \in DOMAIN s /\ s[i] = f
    BY <1>1, <1>2, <1>4
  <2>2. CASE j = Len(s) + 1
    BY <1>1, <1>4, <2>1, <2>2 DEF Holds
  <2>3. CASE j \in DOMAIN s
    BY <1>1, <1>2, <1>4, <2>1, <2>3 DEF Before
  <2>. QED
    BY <1>2, <2>2, <2>3
<1>. QED
  BY <1>3, <1>4 DEF Before

\* Taking an element away changes the order of no others.
LEMMA BeforeLoss ==
  ASSUME NEW S, NEW s \in Seq(S), NEW t \in Seq(S), t # <<>>, NEW f, NEW g
  PROVE  /\ Holds(f, s \o Tail(t)) => Holds(f, s \o t)
         /\ Before(f, g, s \o Tail(t)) => Before(f, g, s \o t)
<1>. DEFINE long == s \o t
            short == s \o Tail(t)
            at(i) == IF i <= Len(s) THEN i ELSE i + 1
<1>1. /\ Len(s) \in Nat /\ Len(t) \in Nat /\ Len(t) > 0
      /\ DOMAIN long = 1..(Len(s) + Len(t))
      /\ DOMAIN short = 1..(Len(s) + Len(t) - 1)
  OBVIOUS
<1>2. \A i \in DOMAIN short : at(i) \in DOMAIN long /\ long[at(i)] = short[i]
  OBVIOUS
<1>3. \A i, j \in DOMAIN short : i < j => at(i) < at(j)
  BY <1>1
<1>. HIDE DEF long, short, at
<1>4. Holds(f, short) => Holds(f, long)
  BY <1>2 DEF Holds
<1>5. Before(f, g, short) => Before(f, g, long)
  BY <1>2, <1>3 DEF Before
<1>. QED
  BY <1>4, <1>5 DEF long, short

\* What is left when the end is lost.
LEMMA BeforePrefix ==
  ASSUME NEW S, NEW s \in Seq(S), NEW t \in Seq(S), NEW f, NEW g
  PROVE  /\ Holds(f, s \o <<>>) => Holds(f, s \o t)
         /\ Before(f, g, s \o <<>>) => Before(f, g, s \o t)
<1>1. /\ Len(s) \in Nat /\ Len(t) \in Nat
      /\ DOMAIN (s \o t) = 1..(Len(s) + Len(t))
      /\ s \o <<>> = s /\ DOMAIN s = 1..Len(s)
  OBVIOUS
<1>2. \A i \in DOMAIN s : i \in DOMAIN (s \o t) /\ (s \o t)[i] = s[i]
  OBVIOUS
<1>. QED
  BY <1>1, <1>2 DEF Holds, Before

\* A frame that joins the queue, or leaves it for the network.
LEMMA PushedSequences ==
  ASSUME NEW S, NEW s \in Seq(S), NEW t \in Seq(S), NEW x \in S
  PROVE  /\ s \o Append(t, x) = Append(s \o t, x)
         /\ t # <<>> => Append(s, Head(t)) \o Tail(t) = s \o t
<1>1. s \o Append(t, x) = Append(s \o t, x)
  OBVIOUS
<1>2. t # <<>> => Append(s, Head(t)) \o Tail(t) = s \o t
  OBVIOUS
<1>. QED
  BY <1>1, <1>2

-----------------------------------------------------------------------------
(* Types *)

LEMMA IdleType == Idle \in Tasks
  BY DEF Idle, Tasks

LEMMA GotoType ==
  ASSUME TypeOK, NEW p \in Processes, NEW next \in Steps, Goto(p, next)
  PROVE  pc' \in [Processes -> Steps]
  BY DEF TypeOK, Goto

\* A process changes its task as a whole, its target or what is left of it.
LEMMA TaskType ==
  ASSUME TypeOK, NEW p \in Processes,
         \/ \E t \in Tasks : task' = [task EXCEPT ![p] = t]
         \/ \E u \in Users : task' = [task EXCEPT ![p].to = u]
         \/ \E left \in SUBSET Connections : task' = [task EXCEPT ![p].left = left]
  PROVE  task' \in [Processes -> Tasks]
<1>1. task \in [Processes -> Tasks]
  BY DEF TypeOK
<1>2. ASSUME NEW t \in Tasks, task' = [task EXCEPT ![p] = t]
      PROVE  task' \in [Processes -> Tasks]
  BY <1>1, <1>2
<1>3. ASSUME NEW u \in Users, task' = [task EXCEPT ![p].to = u]
      PROVE  task' \in [Processes -> Tasks]
  BY <1>1, <1>3 DEF Tasks
<1>4. ASSUME NEW left \in SUBSET Connections, task' = [task EXCEPT ![p].left = left]
      PROVE  task' \in [Processes -> Tasks]
  BY <1>1, <1>4 DEF Tasks
<1>. QED
  BY <1>2, <1>3, <1>4

LEMMA InitType == Init => TypeOK
<1>. SUFFICES ASSUME Init PROVE TypeOK
  OBVIOUS
<1>1. pc \in [Processes -> Steps] /\ task \in [Processes -> Tasks]
  BY IdleType DEF Init, Steps
<1>2. /\ queue \in [Connections -> Seq(Frames)] /\ delivered \in [Connections -> Seq(Frames)]
      /\ \A c \in Connections : Len(queue[c]) <= SendBufferSize
  BY MessagingConstants DEF Init
<1>3. /\ earlier \in [Messages -> SUBSET Messages]
      /\ conn \in [Connections -> {"none", "open", "closed"}]
      /\ writer \in [Connections -> {"none", "running", "ended"}]
  BY DEF Init
<1>. QED
  BY <1>1, <1>2, <1>3 DEF Init, TypeOK

\* Storing a message.
LEMMA StatementType ==
  ASSUME TypeOK, NEW m \in Messages, Send(m) \/ Statement(m) \/ SendFails(m)
  PROVE  TypeOK'
<1>. USE DEF TypeOK, rows, network, hub, Goto, Processes, Steps
<1>1. CASE Send(m)
  BY <1>1 DEF Send
<1>2. CASE InsertMessage(m)
  <2>1. earlier' \in [Messages -> SUBSET Messages]
    BY <1>2 DEF InsertMessage
  <2>. QED
    BY <1>2, <2>1 DEF InsertMessage
<1>3. CASE UpdatePreview(m)
  BY <1>3 DEF UpdatePreview
<1>4. CASE Reload(m)
  <2>1. [to |-> SenderOf[m], frame |-> m, left |-> {}] \in Tasks
    BY DEF Tasks, Users, Frames
  <2>. QED
    BY <1>4, <2>1 DEF Reload
<1>5. CASE SendFails(m)
  BY <1>5 DEF SendFails
<1>. QED
  BY <1>1, <1>2, <1>3, <1>4, <1>5 DEF Statement

\* SendToUser.
LEMMA SendToUserType ==
  ASSUME TypeOK, TaskOwned, NEW p \in Processes, SendToUser(p)
  PROVE  TypeOK'
<1>. USE DEF rows, network, hub
<1>1. CASE LockHub(p)
  <2>1. Registered(task[p].to) \subseteq Connections
    BY DEF Registered, TypeOK
  <2>2. task' \in [Processes -> Tasks] /\ pc' \in [Processes -> Steps]
    BY <1>1, <2>1, TaskType, GotoType DEF LockHub, Steps
  <2>. QED
    BY <1>1, <2>2 DEF LockHub, TypeOK
<1>2. ASSUME NEW c \in Connections, Enqueue(p, c) PROVE TypeOK'
  <2>1. CASE HasRoom(c)
    <3>1. task[p].frame \in Frames
      BY <1>2 DEF Enqueue, TaskOwned
    <3>2. queue' = [queue EXCEPT ![c] = Append(@, task[p].frame)]
      BY <1>2, <2>1 DEF Enqueue
    <3>3. queue' \in [Connections -> Seq(Frames)]
      BY <3>1, <3>2 DEF TypeOK
    <3>4. \A d \in Connections : Len(queue'[d]) <= SendBufferSize
      <4>. TAKE d \in Connections
      <4>1. CASE d = c
        <5>1. queue[c] \in Seq(Frames) /\ queue'[c] = Append(queue[c], task[p].frame)
          BY <3>2 DEF TypeOK
        <5>2. Len(queue'[c]) = Len(queue[c]) + 1 /\ Len(queue[c]) \in Nat
          BY <3>1, <5>1
        <5>. QED
          BY <2>1, <4>1, <5>2, MessagingConstants DEF HasRoom
      <4>2. CASE d # c
        BY <3>2, <4>2 DEF TypeOK
      <4>. QED
        BY <4>1, <4>2
    <3>5. task' \in [Processes -> Tasks]
      <4>1. task[p].left \ {c} \in SUBSET Connections
        BY DEF TypeOK, Tasks
      <4>2. task' = [task EXCEPT ![p].left = task[p].left \ {c}]
        BY <1>2, <2>1 DEF Enqueue
      <4>. QED
        BY <4>1, <4>2, TaskType
    <3>. QED
      BY <1>2, <2>1, <3>3, <3>4, <3>5 DEF Enqueue, TypeOK
  <2>2. CASE ~HasRoom(c)
    BY <1>2, <2>2, GotoType DEF Enqueue, TypeOK, Steps
  <2>. QED
    BY <2>1, <2>2
<1>3. CASE UnlockHub(p)
  <2>1. pc' \in [Processes -> Steps]
    BY <1>3, GotoType DEF UnlockHub, AfterSendToUser, Steps
  <2>2. p \in Messages => RecipientOf[p] \in Users
    BY DEF Users
  <2>3. task' \in [Processes -> Tasks]
    BY <1>3, <2>2, TaskType, IdleType DEF UnlockHub, AfterSendToUser
  <2>. QED
    BY <1>3, <2>1, <2>3 DEF UnlockHub, TypeOK
<1>. QED
  BY <1>1, <1>2, <1>3 DEF SendToUser

\* The pumps of a connection and its network.
LEMMA ConnectionType ==
  ASSUME TypeOK, TaskOwned, NEW c \in Connections,
         \/ Connect(c) \/ ReadPump(c) \/ WritePump(c) \/ Disconnect(c)
         \/ \E u \in Users : ReadSignal(c, u) \/ ReadCallRequest(c, u)
  PROVE  TypeOK'
<1>. USE DEF rows, network, hub, Goto, Steps
<1>1. CASE Connect(c)
  BY <1>1 DEF Connect, TypeOK, Processes
<1>2. CASE Register(c)
  BY <1>2 DEF Register, TypeOK, Processes
<1>3. CASE ReadFails(c)
  BY <1>3 DEF ReadFails, TypeOK, Processes
<1>4. CASE AskOnline(c)
  <2>1. c \in Callers
    BY <1>4, MessagingConstants DEF AskOnline, TaskOwned, Frames, Processes
  <2>2. [to |-> UserOf[c], frame |-> c, left |-> {}] \in Tasks
    BY <2>1 DEF Users, Tasks, Frames
  <2>3. task' \in [Processes -> Tasks]
    BY <1>4, <2>2, TaskType DEF AskOnline, TypeOK, Processes
  <2>. QED
    BY <1>4, <2>3 DEF AskOnline, TypeOK, Processes
<1>5. CASE Unregister(c)
  BY <1>5 DEF Unregister, TypeOK, Processes
<1>6. CASE WriteFrame(c)
  <2>1. queue[c] \in Seq(Frames) /\ queue[c] # <<>> /\ delivered[c] \in Seq(Frames)
    BY <1>6 DEF WriteFrame, TypeOK
  <2>2. /\ Tail(queue[c]) \in Seq(Frames) /\ Head(queue[c]) \in Frames
        /\ Len(Tail(queue[c])) <= Len(queue[c])
        /\ Len(queue[c]) \in Nat /\ Len(Tail(queue[c])) \in Nat
        /\ Append(delivered[c], Head(queue[c])) \in Seq(Frames)
    BY <2>1
  <2>3. queue' = [queue EXCEPT ![c] = Tail(queue[c])]
    BY <1>6 DEF WriteFrame
  <2>4. /\ queue' \in [Connections -> Seq(Frames)]
        /\ \A d \in Connections : Len(queue'[d]) <= SendBufferSize
    BY <2>2, <2>3, MessagingConstants DEF TypeOK
  <2>5. delivered' \in [Connections -> Seq(Frames)]
    BY <1>6, <2>2 DEF WriteFrame, TypeOK
  <2>6. writer' \in [Connections -> {"none", "running", "ended"}]
    BY <1>6 DEF WriteFrame, TypeOK
  <2>. QED
    BY <1>6, <2>4, <2>5, <2>6 DEF WriteFrame, TypeOK
<1>7. CASE WriterStops(c)
  BY <1>7 DEF WriterStops, TypeOK
<1>8. CASE Disconnect(c)
  BY <1>8 DEF Disconnect, TypeOK
<1>9. ASSUME NEW u \in Users, ReadSignal(c, u) \/ ReadCallRequest(c, u) PROVE TypeOK'
  <2>1. c \in Callers /\ UserOf[c] \in Users
    BY <1>9 DEF ReadSignal, ReadCallRequest, TypeOK, Users
  <2>2. /\ [to |-> u, frame |-> c, left |-> {}] \in Tasks
        /\ [to |-> UserOf[c], frame |-> c, left |-> {}] \in Tasks
    BY <2>1 DEF Tasks, Frames
  <2>3. task' \in [Processes -> Tasks]
    BY <1>9, <2>2, TaskType DEF ReadSignal, ReadCallRequest, Processes
  <2>4. toSend' \subseteq Callers
    BY <1>9 DEF ReadSignal, ReadCallRequest, TypeOK
  <2>5. pc' \in [Processes -> Steps]
    BY <1>9, GotoType DEF ReadSignal, ReadCallRequest, Processes
  <2>. QED
    BY <1>9, <2>3, <2>4, <2>5 DEF ReadSignal, ReadCallRequest, TypeOK
<1>. QED
  BY <1>1, <1>2, <1>3, <1>4, <1>5, <1>6, <1>7, <1>8, <1>9 DEF ReadPump, WritePump

LEMMA CrashType ==
  ASSUME TypeOK, Crash
  PROVE  TypeOK'
<1>1. task' \in [Processes -> Tasks]
  BY IdleType DEF Crash
<1>2. pc' \in [Processes -> Steps]
  BY DEF Crash, TypeOK, Steps
<1>3. /\ queue' \in [Connections -> Seq(Frames)]
      /\ \A c \in Connections : Len(queue'[c]) <= SendBufferSize
  BY MessagingConstants DEF Crash
<1>4. /\ conn' \in [Connections -> {"none", "open", "closed"}]
      /\ writer' \in [Connections -> {"none", "running", "ended"}]
  BY DEF Crash, TypeOK
<1>. QED
  BY <1>1, <1>2, <1>3, <1>4 DEF Crash, TypeOK, rows

LEMMA TypeStep ==
  ASSUME TypeOK, TaskOwned, [Next]_vars
  PROVE  TypeOK'
<1>1. CASE UNCHANGED vars
  BY <1>1 DEF vars, rows, network, hub, TypeOK
<1>. QED
  BY <1>1, StatementType, SendToUserType, ConnectionType, CrashType DEF Next

-----------------------------------------------------------------------------
(* Who does what *)

LEMMA TaskOwnedStep ==
  ASSUME TypeOK, TaskOwned, [Next]_vars
  PROVE  TaskOwned'
<1>. SUFFICES ASSUME NEW q \in Processes, pc'[q] \in {"online", "lock", "enqueue", "evict"}
              PROVE  q \in Frames /\ task'[q].frame = q /\ task'[q].to \in Users
  BY DEF TaskOwned
<1>. USE DEF Goto, rows, network, hub
<1>1. CASE \/ UNCHANGED vars
           \/ \E c \in Connections : WritePump(c) \/ Disconnect(c)
  BY <1>1 DEF vars, WritePump, WriteFrame, WriterStops, Disconnect, TaskOwned
<1>2. ASSUME NEW m \in Messages, Send(m) \/ Statement(m) \/ SendFails(m)
      PROVE  q \in Frames /\ task'[q].frame = q /\ task'[q].to \in Users
  <2>1. CASE Reload(m) /\ q = m
    BY <2>1 DEF Reload, TypeOK, Processes, Frames, Users
  <2>2. CASE q # m
    BY <1>2, <2>2 DEF Send, Statement, InsertMessage, UpdatePreview, Reload, SendFails, TypeOK,
                      TaskOwned
  <2>3. CASE q = m /\ ~Reload(m)
    BY <1>2, <2>3 DEF Send, Statement, InsertMessage, UpdatePreview, SendFails, TypeOK
  <2>. QED
    BY <2>1, <2>2, <2>3
<1>3. ASSUME NEW p \in Processes, SendToUser(p)
      PROVE  q \in Frames /\ task'[q].frame = q /\ task'[q].to \in Users
  <2>1. CASE q # p
    BY <1>3, <2>1 DEF SendToUser, LockHub, Enqueue, UnlockHub, AfterSendToUser, TypeOK, TaskOwned
  <2>2. CASE q = p
    <3>1. /\ pc[p] \in {"lock", "enqueue"}
          /\ task'[p].frame = task[p].frame
          /\ task'[p].to \in {task[p].to, RecipientOf[p]}
          /\ task'[p].to # task[p].to => p \in Messages
      <4>1. CASE LockHub(p)
        BY <4>1 DEF LockHub, TypeOK, Tasks
      <4>2. CASE \E c \in Connections : Enqueue(p, c)
        BY <4>2 DEF Enqueue, TypeOK, Tasks
      <4>3. CASE UnlockHub(p)
        BY <2>2, <4>3 DEF UnlockHub, AfterSendToUser, TypeOK, Tasks
      <4>. QED
        BY <1>3, <4>1, <4>2, <4>3 DEF SendToUser
    <3>. QED
      BY <2>2, <3>1 DEF TaskOwned, Users
  <2>. QED
    BY <2>1, <2>2
<1>4. ASSUME NEW c \in Connections,
             \/ Connect(c) \/ ReadPump(c)
             \/ \E u \in Users : ReadSignal(c, u) \/ ReadCallRequest(c, u)
      PROVE  q \in Frames /\ task'[q].frame = q /\ task'[q].to \in Users
  <2>1. CASE q # c
    BY <1>4, <2>1 DEF Connect, ReadPump, Register, ReadFails, AskOnline, Unregister,
                      ReadSignal, ReadCallRequest, TypeOK, TaskOwned
  <2>2. CASE q = c /\ (Connect(c) \/ Register(c) \/ ReadFails(c) \/ Unregister(c))
    BY <2>2 DEF Connect, Register, ReadFails, Unregister, TypeOK
  <2>3. CASE q = c /\ AskOnline(c)
    BY <2>3 DEF AskOnline, TypeOK, TaskOwned, Users
  <2>4. CASE q = c /\ \E u \in Users : ReadSignal(c, u) \/ ReadCallRequest(c, u)
    BY <2>4 DEF ReadSignal, ReadCallRequest, TypeOK, Frames, Users
  <2>. QED
    BY <1>4, <2>1, <2>2, <2>3, <2>4 DEF ReadPump
<1>5. CASE Crash
  BY <1>5 DEF Crash, TypeOK
<1>. QED
  BY <1>1, <1>2, <1>3, <1>4, <1>5 DEF Next

LEMMA OneFrameEachStep ==
  ASSUME TypeOK, TaskOwned, OneFrameEach, [Next]_vars
  PROVE  OneFrameEach'
<1>. SUFFICES ASSUME NEW q \in toSend'
              PROVE  pc'[q] \notin {"online", "lock", "enqueue", "evict"}
  BY DEF OneFrameEach
<1>. USE DEF Goto, rows, network, hub
<1>0. q \in Connections /\ q \in Processes /\ q \notin Messages
  <2>1. TypeOK'
    BY TypeStep
  <2>. QED
    BY <2>1, MessagingConstants DEF TypeOK, Processes
<1>1. CASE \/ UNCHANGED vars
           \/ \E c \in Connections : WritePump(c) \/ Disconnect(c)
  BY <1>1 DEF vars, WritePump, WriteFrame, WriterStops, Disconnect, OneFrameEach
<1>2. ASSUME NEW m \in Messages, Send(m) \/ Statement(m) \/ SendFails(m)
      PROVE  pc'[q] \notin {"online", "lock", "enqueue", "evict"}
  BY <1>0, <1>2 DEF Send, Statement, InsertMessage, UpdatePreview, Reload, SendFails,
                    TypeOK, OneFrameEach
<1>3. ASSUME NEW p \in Processes, SendToUser(p)
      PROVE  pc'[q] \notin {"online", "lock", "enqueue", "evict"}
  <2>1. CASE LockHub(p)
    BY <1>0, <2>1 DEF LockHub, TypeOK, OneFrameEach
  <2>2. CASE \E c \in Connections : Enqueue(p, c)
    BY <1>0, <2>2 DEF Enqueue, TypeOK, OneFrameEach
  <2>3. CASE UnlockHub(p)
    BY <1>0, <2>3 DEF UnlockHub, AfterSendToUser, TypeOK, OneFrameEach
  <2>. QED
    BY <1>3, <2>1, <2>2, <2>3 DEF SendToUser
<1>4. ASSUME NEW c \in Connections,
             \/ Connect(c) \/ ReadPump(c)
             \/ \E u \in Users : ReadSignal(c, u) \/ ReadCallRequest(c, u)
      PROVE  pc'[q] \notin {"online", "lock", "enqueue", "evict"}
  <2>1. CASE Connect(c) \/ Register(c) \/ ReadFails(c) \/ Unregister(c)
    BY <1>0, <2>1 DEF Connect, Register, ReadFails, Unregister, TypeOK, OneFrameEach
  <2>2. CASE AskOnline(c)
    BY <1>0, <2>2 DEF AskOnline, TypeOK, OneFrameEach
  <2>3. CASE \E u \in Users : ReadSignal(c, u) \/ ReadCallRequest(c, u)
    BY <1>0, <2>3 DEF ReadSignal, ReadCallRequest, TypeOK, OneFrameEach
  <2>. QED
    BY <1>4, <2>1, <2>2, <2>3 DEF ReadPump
<1>5. CASE Crash
  BY <1>5, MessagingConstants DEF Crash, TypeOK, Processes
<1>. QED
  BY <1>1, <1>2, <1>3, <1>4, <1>5 DEF Next

LEMMA LoopHoldsMutexStep ==
  ASSUME TypeOK, LoopHoldsMutex, [Next]_vars
  PROVE  LoopHoldsMutex'
<1>. SUFFICES ASSUME NEW q \in Processes, pc'[q] \in {"enqueue", "evict"}
              PROVE  mu' = q
  BY DEF LoopHoldsMutex
<1>. USE DEF Goto, rows, network, hub
<1>1. CASE \/ UNCHANGED vars
           \/ \E c \in Connections : WritePump(c) \/ Disconnect(c)
  BY <1>1 DEF vars, WritePump, WriteFrame, WriterStops, Disconnect, LoopHoldsMutex
<1>2. ASSUME NEW m \in Messages, Send(m) \/ Statement(m) \/ SendFails(m)
      PROVE  mu' = q
  BY <1>2 DEF Send, Statement, InsertMessage, UpdatePreview, Reload, SendFails, TypeOK,
              LoopHoldsMutex
<1>3. ASSUME NEW p \in Processes, SendToUser(p)
      PROVE  mu' = q
  <2>. NoOne \notin Processes
    BY MessagingConstants DEF Processes
  <2>1. CASE LockHub(p)
    BY <2>1 DEF LockHub, TypeOK, LoopHoldsMutex
  <2>2. CASE \E c \in Connections : Enqueue(p, c)
    BY <2>2 DEF Enqueue, TypeOK, LoopHoldsMutex
  <2>3. CASE UnlockHub(p)
    BY <2>3 DEF UnlockHub, AfterSendToUser, TypeOK, LoopHoldsMutex
  <2>. QED
    BY <1>3, <2>1, <2>2, <2>3 DEF SendToUser
<1>4. ASSUME NEW c \in Connections,
             \/ Connect(c) \/ ReadPump(c)
             \/ \E u \in Users : ReadSignal(c, u) \/ ReadCallRequest(c, u)
      PROVE  mu' = q
  BY <1>4 DEF Connect, ReadPump, Register, ReadFails, AskOnline, Unregister,
              ReadSignal, ReadCallRequest, TypeOK, LoopHoldsMutex
<1>5. CASE Crash
  BY <1>5 DEF Crash, TypeOK
<1>. QED
  BY <1>1, <1>2, <1>3, <1>4, <1>5 DEF Next

-----------------------------------------------------------------------------
(* What is pushed *)

\* Only a frame that is enqueued makes what was pushed to a connection grow;
\* what a dying connection loses leaves the order of the rest alone.
LEMMA PushedStep ==
  ASSUME TypeOK, TaskOwned, [Next]_vars, NEW c \in Connections
  PROVE  \/ \A f, g \in Frames :
               /\ Holds(f, Pushed(c))' => Holds(f, Pushed(c))
               /\ Before(f, g, Pushed(c))' => Before(f, g, Pushed(c))
         \/ \E p \in Processes :
               Enqueue(p, c) /\ p \in Frames /\ Pushed(c)' = Append(Pushed(c), p)
<1>1. delivered[c] \in Seq(Frames) /\ queue[c] \in Seq(Frames)
  BY DEF TypeOK
<1>. USE DEF network
<1>2. CASE delivered'[c] = delivered[c] /\ queue'[c] = queue[c]
  BY <1>2 DEF Pushed, Holds, Before
<1>3. ASSUME NEW p \in Processes, Enqueue(p, c), HasRoom(c)
      PROVE  Enqueue(p, c) /\ p \in Frames /\ Pushed(c)' = Append(Pushed(c), p)
  <2>1. p \in Frames /\ task[p].frame = p
    BY <1>3 DEF Enqueue, TaskOwned
  <2>2. queue'[c] = Append(queue[c], p) /\ delivered'[c] = delivered[c]
    BY <1>3, <2>1 DEF Enqueue, TypeOK
  <2>3. delivered[c] \o Append(queue[c], p) = Append(delivered[c] \o queue[c], p)
    <3>. DEFINE s == delivered[c]
                t == queue[c]
    <3>1. s \in Seq(Frames) /\ t \in Seq(Frames) /\ p \in Frames
      BY <1>1, <2>1
    <3>. HIDE DEF s, t
    <3>2. s \o Append(t, p) = Append(s \o t, p)
      BY <3>1
    <3>. QED
      BY <3>2 DEF s, t
  <2>. QED
    BY <1>3, <2>1, <2>2, <2>3 DEF Pushed
<1>4. CASE WriteFrame(c)
  <2>1. queue[c] # <<>> /\ queue'[c] = Tail(queue[c])
    BY <1>4 DEF WriteFrame, TypeOK
  <2>2. CASE conn[c] = "open"
    <3>1. delivered'[c] = Append(delivered[c], Head(queue[c]))
      BY <1>4, <2>2 DEF WriteFrame, TypeOK
    <3>2. Head(queue[c]) \in Frames
      BY <1>1, <2>1
    <3>3. Append(delivered[c], Head(queue[c])) \o Tail(queue[c]) = delivered[c] \o queue[c]
      BY <1>1, <2>1, <3>2, PushedSequences, Zenon
    <3>4. Pushed(c)' = Pushed(c)
      BY <2>1, <3>1, <3>3 DEF Pushed
    <3>. QED
      BY <3>4 DEF Holds, Before
  <2>3. CASE conn[c] # "open"
    <3>1. delivered'[c] = delivered[c]
      BY <1>4, <2>3 DEF WriteFrame
    <3>2. Pushed(c)' = delivered[c] \o Tail(queue[c])
      BY <2>1, <3>1 DEF Pushed
    <3>3. ASSUME NEW f \in Frames, NEW g \in Frames
          PROVE  /\ Holds(f, delivered[c] \o Tail(queue[c])) => Holds(f, delivered[c] \o queue[c])
                 /\ Before(f, g, delivered[c] \o Tail(queue[c])) => Before(f, g, delivered[c] \o queue[c])
      BY <1>1, <2>1, BeforeLoss
    <3>4. ASSUME NEW f \in Frames, NEW g \in Frames
          PROVE  /\ Holds(f, Pushed(c))' <=> Holds(f, delivered[c] \o Tail(queue[c]))
                 /\ Before(f, g, Pushed(c))' <=> Before(f, g, delivered[c] \o Tail(queue[c]))
      BY <3>2 DEF Holds, Before
    <3>. QED
      BY <3>3, <3>4 DEF Pushed
  <2>. QED
    BY <2>2, <2>3
<1>5. CASE Crash
  <2>1. delivered'[c] = delivered[c] /\ queue'[c] = <<>>
    BY <1>5 DEF Crash
  <2>2. Pushed(c)' = delivered[c] \o <<>>
    BY <2>1 DEF Pushed
  <2>3. ASSUME NEW f \in Frames, NEW g \in Frames
        PROVE  /\ Holds(f, delivered[c] \o <<>>) => Holds(f, delivered[c] \o queue[c])
               /\ Before(f, g, delivered[c] \o <<>>) => Before(f, g, delivered[c] \o queue[c])
    BY <1>1, BeforePrefix
  <2>4. ASSUME NEW f \in Frames, NEW g \in Frames
        PROVE  /\ Holds(f, Pushed(c))' <=> Holds(f, delivered[c] \o <<>>)
               /\ Before(f, g, Pushed(c))' <=> Before(f, g, delivered[c] \o <<>>)
    BY <2>2 DEF Holds, Before
  <2>. QED
    BY <2>3, <2>4 DEF Pushed
<1>6. ASSUME NEW m \in Messages, Send(m) \/ Statement(m) \/ SendFails(m)
      PROVE  UNCHANGED <<delivered, queue>>
  BY <1>6 DEF Send, Statement, InsertMessage, UpdatePreview, Reload, SendFails
<1>7. ASSUME NEW p \in Processes,
             \/ LockHub(p) \/ UnlockHub(p)
             \/ \E d \in Connections : Enqueue(p, d) /\ (d # c \/ ~HasRoom(d))
      PROVE  delivered'[c] = delivered[c] /\ queue'[c] = queue[c]
  BY <1>7 DEF LockHub, UnlockHub, Enqueue, TypeOK
<1>8. ASSUME NEW d \in Connections,
             \/ Connect(d) \/ ReadPump(d) \/ Disconnect(d) \/ WriterStops(d)
             \/ WriteFrame(d) /\ d # c
             \/ \E u \in Users : ReadSignal(d, u) \/ ReadCallRequest(d, u)
      PROVE  delivered'[c] = delivered[c] /\ queue'[c] = queue[c]
  BY <1>8 DEF Connect, ReadPump, Register, ReadFails, AskOnline, Unregister, Disconnect,
              WriterStops, WriteFrame, ReadSignal, ReadCallRequest, TypeOK
<1>9. CASE UNCHANGED vars
  BY <1>2, <1>9 DEF vars
<1>. QED
  BY <1>2, <1>3, <1>4, <1>5, <1>6, <1>7, <1>8, <1>9 DEF Next, SendToUser, WritePump

\* What precedes something is there.
LEMMA BeforeHolds ==
  ASSUME NEW s, NEW f, NEW g, Before(f, g, s)
  PROVE  Holds(f, s) /\ Holds(g, s)
  BY DEF Before, Holds

\* Nobody gets a frame to push that had none, or gets it pushed again.
LEMMA PendingStep ==
  ASSUME TypeOK, TaskOwned, [Next]_vars, NEW q \in Frames, NEW u \in Users, Pending(q, u)'
  PROVE  Pending(q, u)
<1>0. /\ q \in Processes /\ toSend \subseteq Connections
      /\ \A m \in Messages : m \notin Connections
  BY MessagingConstants DEF TypeOK, Frames, Processes
<1>. USE DEF Goto, rows, network, hub
<1>1. CASE \/ UNCHANGED vars
           \/ \E c \in Connections : WritePump(c) \/ Disconnect(c)
  BY <1>1 DEF vars, WritePump, WriteFrame, WriterStops, Disconnect, Pending
<1>2. ASSUME NEW m \in Messages, Send(m) \/ Statement(m) \/ SendFails(m)
      PROVE  Pending(q, u)
  <2>1. CASE q = m
    <3>1. pc[q] \in {"idle", "insert", "preview", "reload"}
             \/ (pc'[q] = pc[q] /\ task'[q] = task[q] /\ toSend' = toSend)
      BY <1>2, <2>1 DEF Send, Statement, InsertMessage, UpdatePreview, Reload, SendFails
    <3>. QED
      BY <2>1, <3>1 DEF Pending
  <2>2. CASE q # m
    BY <1>0, <1>2, <2>2 DEF Send, Statement, InsertMessage, UpdatePreview, Reload, SendFails,
                            TypeOK, Pending
  <2>. QED
    BY <2>1, <2>2
<1>3. ASSUME NEW p \in Processes, SendToUser(p)
      PROVE  Pending(q, u)
  <2>0. toSend' = toSend
    BY <1>3 DEF SendToUser, LockHub, Enqueue, UnlockHub
  <2>1. CASE q # p
    <3>1. pc'[q] = pc[q] /\ task'[q] = task[q]
      BY <1>0, <1>3, <2>1 DEF SendToUser, LockHub, Enqueue, UnlockHub, AfterSendToUser, TypeOK
    <3>. QED
      BY <2>0, <3>1 DEF Pending
  <2>2. CASE LockHub(p) /\ q = p
    <3>1. pc[q] = "lock" /\ pc'[q] = "enqueue" /\ task'[q].to = task[q].to
      BY <2>2 DEF LockHub, TypeOK, Tasks
    <3>. QED
      BY <2>0, <3>1 DEF Pending
  <2>3. CASE q = p /\ \E c \in Connections : Enqueue(p, c)
    <3>1. pc[q] = "enqueue" /\ pc'[q] \in {"enqueue", "evict"} /\ task'[q].to = task[q].to
      BY <2>3 DEF Enqueue, TypeOK, Tasks
    <3>. QED
      BY <2>0, <3>1 DEF Pending
  <2>4. CASE UnlockHub(p) /\ q = p
    <3>1. \/ pc'[q] \in {"reading", "sent"}
          \/ /\ q \in Messages /\ pc[q] = "enqueue" /\ pc'[q] = "lock"
             /\ task[q].to = SenderOf[q]
             /\ task'[q].to = RecipientOf[q] /\ RecipientOf[q] # SenderOf[q]
      BY <2>4 DEF UnlockHub, AfterSendToUser, TypeOK, Tasks
    <3>. QED
      BY <2>0, <3>1 DEF Pending
  <2>. QED
    BY <1>3, <2>1, <2>2, <2>3, <2>4 DEF SendToUser
<1>4. ASSUME NEW c \in Connections,
             \/ Connect(c) \/ ReadPump(c)
             \/ \E v \in Users : ReadSignal(c, v) \/ ReadCallRequest(c, v)
      PROVE  Pending(q, u)
  <2>1. toSend' \subseteq toSend
    BY <1>4 DEF Connect, ReadPump, Register, ReadFails, AskOnline, Unregister,
                ReadSignal, ReadCallRequest
  <2>2. CASE q # c
    <3>1. pc'[q] = pc[q] /\ task'[q] = task[q]
      BY <1>0, <1>4, <2>2 DEF Connect, ReadPump, Register, ReadFails, AskOnline, Unregister,
                              ReadSignal, ReadCallRequest, TypeOK
    <3>. QED
      BY <2>1, <3>1 DEF Pending
  <2>3. CASE q = c
    <3>1. pc'[q] \in {"lock", "online"} => q \in toSend \/ pc[q] = "online"
      BY <1>0, <1>4, <2>3 DEF Connect, ReadPump, Register, ReadFails, AskOnline, Unregister,
                              ReadSignal, ReadCallRequest, TypeOK
    <3>. QED
      BY <1>0, <2>1, <2>3, <3>1 DEF Pending
  <2>. QED
    BY <2>2, <2>3
<1>5. CASE Crash
  <2>1. /\ toSend' \subseteq toSend
        /\ pc'[q] \in {"idle", "sent", "failed", "gone"}
        /\ q \in Messages /\ pc'[q] = "idle" => pc[q] \in {"idle", "insert"}
    BY <1>0, <1>5 DEF Crash
  <2>. QED
    BY <2>1 DEF Pending
<1>. QED
  BY <1>1, <1>2, <1>3, <1>4, <1>5 DEF Next

\* The connection a frame is enqueued for, as its process sees it.
LEMMA EnqueueFacts ==
  ASSUME TypeOK, TaskOwned, OneFrameEach, PushedLast,
         NEW p \in Processes, NEW c \in Connections, Enqueue(p, c)
  PROVE  /\ p \in Frames /\ p \notin toSend /\ pc[p] = "enqueue"
         /\ UserOf[c] = task[p].to /\ ~Holds(p, Pushed(c))
         /\ pc'[p] \in {"enqueue", "evict"}
         /\ task'[p].to = task[p].to /\ task'[p].left \subseteq task[p].left
         /\ pc'[p] = "enqueue" => c \notin task'[p].left
         /\ toSend' = toSend
<1>1. pc[p] = "enqueue" /\ c \in task[p].left
  BY DEF Enqueue
<1>2. p \in Frames /\ p \notin toSend /\ UserOf[c] = task[p].to /\ ~Holds(p, Pushed(c))
  BY <1>1 DEF TaskOwned, OneFrameEach, PushedLast
<1>3. /\ pc'[p] \in {"enqueue", "evict"}
      /\ task'[p].to = task[p].to /\ task'[p].left \subseteq task[p].left
      /\ pc'[p] = "enqueue" => c \notin task'[p].left
  BY DEF Enqueue, Goto, TypeOK, Tasks
<1>. QED
  BY <1>1, <1>2, <1>3 DEF Enqueue

LEMMA PendingIsUnpushedStep ==
  ASSUME TypeOK, TaskOwned, OneFrameEach, PendingIsUnpushed, PushedLast, [Next]_vars
  PROVE  PendingIsUnpushed'
<1>. SUFFICES ASSUME NEW q \in Frames, NEW c \in Connections, Pending(q, UserOf[c])',
                     Holds(q, Pushed(c))'
              PROVE  FALSE
  BY DEF PendingIsUnpushed
<1>1. UserOf[c] \in Users
  BY DEF Users
<1>2. Pending(q, UserOf[c]) /\ ~Holds(q, Pushed(c))
  BY <1>1, PendingStep DEF PendingIsUnpushed
<1>3. PICK p \in Processes : Enqueue(p, c) /\ p \in Frames /\ Pushed(c)' = Append(Pushed(c), p)
  BY <1>2, PushedStep
<1>4. Pushed(c) \in Seq(Frames)
  BY DEF Pushed, TypeOK
<1>5. Holds(q, Append(Pushed(c), p))
  BY <1>3 DEF Holds
<1>6. q = p
  BY <1>2, <1>3, <1>4, <1>5, BeforeAppend
<1>7. ~Pending(p, UserOf[c])'
  BY <1>3, EnqueueFacts, MessagingConstants DEF Pending
<1>. QED
  BY <1>6, <1>7

\* A process is in the loop of SendToUser since LockHub, and leaves connections
\* behind by enqueueing only.
LEMMA InLoop ==
  ASSUME TypeOK, TaskOwned, [Next]_vars, NEW q \in Processes, pc'[q] = "enqueue"
  PROVE  \/ LockHub(q)
         \/ /\ pc[q] = "enqueue" /\ task'[q].to = task[q].to
            /\ task'[q].left \subseteq task[q].left
<1>. USE DEF Goto, rows, network, hub
<1>1. CASE \/ UNCHANGED vars
           \/ \E c \in Connections : WritePump(c) \/ Disconnect(c)
  BY <1>1 DEF vars, WritePump, WriteFrame, WriterStops, Disconnect
<1>2. ASSUME NEW m \in Messages, Send(m) \/ Statement(m) \/ SendFails(m)
      PROVE  pc'[q] = pc[q] /\ task'[q] = task[q]
  BY <1>2 DEF Send, Statement, InsertMessage, UpdatePreview, Reload, SendFails, TypeOK
<1>3. ASSUME NEW p \in Processes, SendToUser(p), ~LockHub(q)
      PROVE  /\ pc[q] = "enqueue" /\ task'[q].to = task[q].to
             /\ task'[q].left \subseteq task[q].left
  <2>1. CASE q # p
    BY <1>3, <2>1 DEF SendToUser, LockHub, Enqueue, UnlockHub, AfterSendToUser, TypeOK
  <2>2. CASE q = p /\ \E c \in Connections : Enqueue(p, c)
    BY <2>2 DEF Enqueue, TypeOK, Tasks
  <2>3. CASE q = p /\ UnlockHub(p)
    BY <2>3 DEF UnlockHub, AfterSendToUser, TypeOK
  <2>. QED
    BY <1>3, <2>1, <2>2, <2>3 DEF SendToUser
<1>4. ASSUME NEW c \in Connections,
             \/ Connect(c) \/ ReadPump(c)
             \/ \E v \in Users : ReadSignal(c, v) \/ ReadCallRequest(c, v)
      PROVE  pc'[q] = pc[q] /\ task'[q] = task[q]
  BY <1>4 DEF Connect, ReadPump, Register, ReadFails, AskOnline, Unregister,
              ReadSignal, ReadCallRequest, TypeOK
<1>5. CASE Crash
  BY <1>5 DEF Crash, TypeOK
<1>. QED
  BY <1>1, <1>2, <1>3, <1>4, <1>5 DEF Next

LEMMA PushedLastStep ==
  ASSUME TypeOK, TaskOwned, OneFrameEach, LoopHoldsMutex, PendingIsUnpushed, PushedLast,
         [Next]_vars
  PROVE  PushedLast'
<1>. SUFFICES ASSUME NEW q \in Processes, pc'[q] = "enqueue", NEW c \in Connections
              PROVE  /\ c \in task'[q].left => UserOf[c] = task'[q].to /\ ~Holds(q, Pushed(c))'
                     /\ UserOf[c] = task'[q].to => \A g \in Frames : ~Before(q, g, Pushed(c))'
  BY DEF PushedLast
<1>1. CASE LockHub(q)
  <2>1. /\ q \in Frames /\ pc[q] = "lock" /\ task'[q].to = task[q].to
        /\ task'[q].left = Registered(task[q].to)
    BY <1>1 DEF LockHub, TaskOwned, TypeOK, Tasks
  <2>2. UserOf[c] = task[q].to => ~Holds(q, Pushed(c))
    BY <2>1 DEF PendingIsUnpushed, Pending
  <2>3. Pushed(c)' = Pushed(c)
    BY <1>1 DEF LockHub, network, Pushed
  <2>4. /\ Holds(q, Pushed(c))' => Holds(q, Pushed(c))
        /\ \A g \in Frames : Before(q, g, Pushed(c))' => Holds(q, Pushed(c))
    BY <2>3 DEF Holds, Before
  <2>. QED
    BY <2>1, <2>2, <2>4 DEF Registered
<1>2. CASE /\ pc[q] = "enqueue" /\ task'[q].to = task[q].to
           /\ task'[q].left \subseteq task[q].left
  <2>0. q \in Frames
    BY <1>2 DEF TaskOwned
  <2>1. CASE \A f, g \in Frames :
               /\ Holds(f, Pushed(c))' => Holds(f, Pushed(c))
               /\ Before(f, g, Pushed(c))' => Before(f, g, Pushed(c))
    BY <1>2, <2>0, <2>1 DEF PushedLast
  <2>2. ASSUME NEW p \in Processes, Enqueue(p, c), p \in Frames,
               Pushed(c)' = Append(Pushed(c), p)
        PROVE  /\ c \notin task'[q].left
               /\ \A g \in Frames : ~Before(q, g, Pushed(c))'
    <3>1. p = q
      BY <1>2, <2>2 DEF Enqueue, LoopHoldsMutex
    <3>2. Pushed(c) \in Seq(Frames)
      BY DEF Pushed, TypeOK
    <3>3. ~Holds(q, Pushed(c)) /\ c \notin task'[q].left
      BY <2>2, <3>1, EnqueueFacts
    <3>4. ASSUME NEW g \in Frames, Before(q, g, Pushed(c))' PROVE FALSE
      <4>1. Before(q, g, Append(Pushed(c), q))
        BY <2>2, <3>1, <3>4 DEF Before
      <4>2. Before(q, g, Pushed(c)) \/ Holds(q, Pushed(c))
        BY <2>0, <3>2, <4>1, BeforeAppend
      <4>. QED
        BY <3>3, <4>2, BeforeHolds
    <3>. QED
      BY <3>3, <3>4
  <2>. QED
    BY <2>1, <2>2, PushedStep
<1>. QED
  BY <1>1, <1>2, InLoop

-----------------------------------------------------------------------------
(* The order *)

\* SameOrder, as a relation of two frames.
OrderAgrees ==
  \A c, d \in Connections : UserOf[c] = UserOf[d] =>
    \A f, g \in Frames : ~(Before(f, g, Pushed(c)) /\ Before(g, f, Pushed(d)))

LEMMA OrderAgreesIsSameOrder ==
  ASSUME TypeOK, OrderAgrees
  PROVE  SameOrder
<1>. SUFFICES ASSUME NEW c \in Connections, NEW d \in Connections, UserOf[c] = UserOf[d],
                     NEW i \in DOMAIN Pushed(c), NEW j \in DOMAIN Pushed(c), i < j,
                     Before(Pushed(c)[j], Pushed(c)[i], Pushed(d))
              PROVE  FALSE
  BY DEF SameOrder
<1>1. Pushed(c) \in Seq(Frames)
  BY DEF Pushed, TypeOK
<1>2. Pushed(c)[i] \in Frames /\ Pushed(c)[j] \in Frames
  BY <1>1
<1>3. Before(Pushed(c)[i], Pushed(c)[j], Pushed(c))
  BY DEF Before
<1>. QED
  BY <1>2, <1>3 DEF OrderAgrees

\* A frame that gets behind another is just being pushed, to one connection
\* after the other and by the only process that pushes.
LEMMA NewlyBefore ==
  ASSUME TypeOK, TaskOwned, OneFrameEach, PushedLast, [Next]_vars, NEW c \in Connections,
         NEW f \in Frames, NEW g \in Frames, Before(f, g, Pushed(c))', ~Before(f, g, Pushed(c))
  PROVE  g \in Processes /\ Enqueue(g, c) /\ Holds(f, Pushed(c))
<1>1. PICK p \in Processes : Enqueue(p, c) /\ p \in Frames /\ Pushed(c)' = Append(Pushed(c), p)
  BY PushedStep
<1>2. Pushed(c) \in Seq(Frames)
  BY DEF Pushed, TypeOK
<1>3. Before(f, g, Append(Pushed(c), p))
  BY <1>1 DEF Before
<1>4. g = p /\ Holds(f, Pushed(c))
  BY <1>1, <1>2, <1>3, BeforeAppend
<1>. QED
  BY <1>1, <1>4

LEMMA OrderAgreesStep ==
  ASSUME TypeOK, TaskOwned, OneFrameEach, LoopHoldsMutex, PushedLast, OrderAgrees, [Next]_vars
  PROVE  OrderAgrees'
<1>. SUFFICES ASSUME NEW c \in Connections, NEW d \in Connections, UserOf[c] = UserOf[d],
                     NEW f \in Frames, NEW g \in Frames,
                     Before(f, g, Pushed(c))', Before(g, f, Pushed(d))'
              PROVE  FALSE
  BY DEF OrderAgrees
<1>1. CASE Before(f, g, Pushed(c)) /\ Before(g, f, Pushed(d))
  BY <1>1 DEF OrderAgrees
<1>2. CASE ~Before(f, g, Pushed(c))
  <2>1. g \in Processes /\ Enqueue(g, c) /\ Holds(f, Pushed(c))
    BY <1>2, NewlyBefore
  <2>2. pc[g] = "enqueue" /\ UserOf[c] = task[g].to /\ ~Holds(g, Pushed(c))
    BY <2>1, EnqueueFacts
  <2>3. CASE Before(g, f, Pushed(d))
    BY <2>1, <2>2, <2>3 DEF PushedLast
  <2>4. CASE ~Before(g, f, Pushed(d))
    <3>1. f \in Processes /\ Enqueue(f, d)
      BY <2>4, NewlyBefore
    <3>2. f = g
      BY <2>1, <3>1 DEF Enqueue, LoopHoldsMutex
    <3>. QED
      BY <2>1, <2>2, <3>2
  <2>. QED
    BY <2>3, <2>4
<1>3. CASE Before(f, g, Pushed(c)) /\ ~Before(g, f, Pushed(d))
  <2>1. f \in Processes /\ Enqueue(f, d)
    BY <1>3, NewlyBefore
  <2>2. pc[f] = "enqueue" /\ UserOf[d] = task[f].to
    BY <2>1, EnqueueFacts
  <2>. QED
    BY <1>3, <2>1, <2>2 DEF PushedLast
<1>. QED
  BY <1>1, <1>2, <1>3

-----------------------------------------------------------------------------
(* Nobody is left out *)

LEMMA UnconnectedStep ==
  ASSUME TypeOK, TaskOwned, Unconnected, [Next]_vars
  PROVE  Unconnected'
<1>. SUFFICES ASSUME NEW c \in Connections, conn'[c] = "none"
              PROVE  pc'[c] = "idle" /\ writer'[c] = "none"
  BY DEF Unconnected
<1>. USE DEF Goto, rows, network, hub
<1>0. c \in Processes /\ c \notin Messages
  BY MessagingConstants DEF Processes
<1>1. CASE UNCHANGED vars
  BY <1>1 DEF vars, Unconnected
<1>2. ASSUME NEW m \in Messages, Send(m) \/ Statement(m) \/ SendFails(m)
      PROVE  pc'[c] = "idle" /\ writer'[c] = "none"
  <2>1. UNCHANGED <<conn, writer>> /\ pc'[c] = pc[c]
    BY <1>0, <1>2 DEF Send, Statement, InsertMessage, UpdatePreview, Reload, SendFails, TypeOK
  <2>. QED
    BY <2>1 DEF Unconnected
<1>3. ASSUME NEW p \in Processes, SendToUser(p)
      PROVE  pc'[c] = "idle" /\ writer'[c] = "none"
  <2>1. UNCHANGED <<conn, writer>> /\ pc[p] \in {"lock", "enqueue"} /\ (p # c => pc'[c] = pc[c])
    BY <1>0, <1>3 DEF SendToUser, LockHub, Enqueue, UnlockHub, AfterSendToUser, TypeOK
  <2>. QED
    BY <2>1 DEF Unconnected
<1>4. ASSUME NEW d \in Connections,
             \/ Connect(d) \/ ReadPump(d) \/ WritePump(d) \/ Disconnect(d)
             \/ \E u \in Users : ReadSignal(d, u) \/ ReadCallRequest(d, u)
      PROVE  pc'[c] = "idle" /\ writer'[c] = "none"
  <2>1. CASE d # c
    <3>1. conn'[c] = conn[c] /\ writer'[c] = writer[c] /\ pc'[c] = pc[c]
      BY <1>0, <1>4, <2>1
         DEF Connect, ReadPump, Register, ReadFails, AskOnline, Unregister, Disconnect, WritePump,
             WriteFrame, WriterStops, ReadSignal, ReadCallRequest, TypeOK
    <3>. QED
      BY <3>1 DEF Unconnected
  <2>2. CASE d = c
    <3>1. conn[c] = "none" /\ ~Connect(c) /\ ~Disconnect(c)
      BY <1>4, <2>2 DEF Connect, ReadPump, Register, ReadFails, AskOnline, Unregister, Disconnect,
                        WritePump, WriteFrame, WriterStops, ReadSignal, ReadCallRequest, TypeOK
    <3>2. pc[c] = "idle" /\ writer[c] = "none"
      BY <3>1 DEF Unconnected
    <3>. QED
      BY <1>4, <2>2, <3>1, <3>2 DEF ReadPump, Register, ReadFails, AskOnline, Unregister, WritePump,
                                    WriteFrame, WriterStops, ReadSignal, ReadCallRequest
  <2>. QED
    BY <2>1, <2>2
<1>5. CASE Crash
  <2>1. /\ conn'[c] = IF conn[c] = "none" THEN "none" ELSE "closed"
        /\ writer'[c] = IF writer[c] = "none" THEN "none" ELSE "ended"
        /\ pc[c] = "idle" => pc'[c] = "idle"
    BY <1>0, <1>5 DEF Crash
  <2>. QED
    BY <2>1 DEF Unconnected
<1>. QED
  BY <1>1, <1>2, <1>3, <1>4, <1>5 DEF Next

LEMMA HoldsAppend ==
  ASSUME NEW S, NEW s \in Seq(S), NEW x \in S, NEW f, Holds(f, s) \/ f = x
  PROVE  Holds(f, Append(s, x))
<1>1. /\ DOMAIN s = 1..Len(s) /\ Len(s) \in Nat
      /\ DOMAIN Append(s, x) = 1..(Len(s) + 1)
      /\ \A i \in 1..Len(s) : Append(s, x)[i] = s[i]
      /\ Append(s, x)[Len(s) + 1] = x
  OBVIOUS
<1>2. ASSUME NEW i \in DOMAIN s, s[i] = f PROVE Holds(f, Append(s, x))
  BY <1>1, <1>2 DEF Holds
<1>3. CASE f = x
  <2>1. Len(s) + 1 \in DOMAIN Append(s, x)
    BY <1>1
  <2>. QED
    BY <1>1, <1>3, <2>1 DEF Holds
<1>. QED
  BY <1>2, <1>3 DEF Holds

LEMMA EnqueuedIsPushed ==
  ASSUME TypeOK, TaskOwned, NEW p \in Processes, NEW c \in Connections, Enqueue(p, c), HasRoom(c)
  PROVE  \A f \in Frames : Holds(f, Pushed(c)) \/ f = p => Holds(f, Pushed(c))'
<1>1. delivered[c] \in Seq(Frames) /\ queue[c] \in Seq(Frames)
  BY DEF TypeOK
<1>2. p \in Frames /\ task[p].frame = p
  BY DEF Enqueue, TaskOwned
<1>3. queue'[c] = Append(queue[c], p) /\ delivered'[c] = delivered[c]
  BY <1>2 DEF Enqueue, TypeOK
<1>4. delivered[c] \o Append(queue[c], p) = Append(delivered[c] \o queue[c], p)
  BY <1>1, <1>2, PushedSequences, Zenon
<1>5. Pushed(c)' = Append(Pushed(c), p) /\ Pushed(c) \in Seq(Frames)
  BY <1>1, <1>3, <1>4 DEF Pushed
<1>6. ASSUME NEW f \in Frames, Holds(f, Pushed(c)) \/ f = p PROVE Holds(f, Pushed(c))'
  <2>1. Holds(f, Append(Pushed(c), p))
    BY <1>2, <1>5, <1>6, HoldsAppend
  <2>. QED
    BY <1>5, <2>1 DEF Holds
<1>. QED
  BY <1>6

\* What is pushed to a connection stays pushed while the connection lives.
LEMMA PushedStays ==
  ASSUME TypeOK, TaskOwned, Unconnected, [Next]_vars, NEW c \in Connections, NEW f \in Frames,
         conn'[c] # "closed", ~Crash, Holds(f, Pushed(c))
  PROVE  Holds(f, Pushed(c))'
<1>1. delivered[c] \in Seq(Frames) /\ queue[c] \in Seq(Frames)
  BY DEF TypeOK
<1>. USE DEF rows, network, hub
<1>2. CASE delivered'[c] = delivered[c] /\ queue'[c] = queue[c]
  BY <1>2 DEF Pushed, Holds
<1>3. ASSUME NEW p \in Processes, Enqueue(p, c), HasRoom(c)
      PROVE  Holds(f, Pushed(c))'
  BY <1>3, EnqueuedIsPushed
<1>4. CASE WriteFrame(c)
  <2>1. conn[c] = "open" /\ queue[c] # <<>> /\ queue'[c] = Tail(queue[c])
    BY <1>4 DEF WriteFrame, TypeOK, Unconnected
  <2>2. delivered'[c] = Append(delivered[c], Head(queue[c]))
    BY <1>4, <2>1 DEF WriteFrame, TypeOK
  <2>3. Head(queue[c]) \in Frames
    BY <1>1, <2>1
  <2>4. Append(delivered[c], Head(queue[c])) \o Tail(queue[c]) = delivered[c] \o queue[c]
    BY <1>1, <2>1, <2>3, PushedSequences, Zenon
  <2>5. Pushed(c)' = Pushed(c)
    BY <2>1, <2>2, <2>4 DEF Pushed
  <2>. QED
    BY <2>5 DEF Holds
<1>5. ASSUME NEW m \in Messages, Send(m) \/ Statement(m) \/ SendFails(m)
      PROVE  UNCHANGED <<delivered, queue>>
  BY <1>5 DEF Send, Statement, InsertMessage, UpdatePreview, Reload, SendFails
<1>6. ASSUME NEW p \in Processes,
             \/ LockHub(p) \/ UnlockHub(p)
             \/ \E d \in Connections : Enqueue(p, d) /\ (d # c \/ ~HasRoom(d))
      PROVE  delivered'[c] = delivered[c] /\ queue'[c] = queue[c]
  BY <1>6 DEF LockHub, UnlockHub, Enqueue, TypeOK
<1>7. ASSUME NEW d \in Connections,
             \/ Connect(d) \/ ReadPump(d) \/ Disconnect(d) \/ WriterStops(d)
             \/ WriteFrame(d) /\ d # c
             \/ \E u \in Users : ReadSignal(d, u) \/ ReadCallRequest(d, u)
      PROVE  delivered'[c] = delivered[c] /\ queue'[c] = queue[c]
  BY <1>7 DEF Connect, ReadPump, Register, ReadFails, AskOnline, Unregister, Disconnect,
              WriterStops, WriteFrame, ReadSignal, ReadCallRequest, TypeOK
<1>8. CASE UNCHANGED vars
  BY <1>2, <1>8 DEF vars
<1>. QED
  BY <1>2, <1>3, <1>4, <1>5, <1>6, <1>7, <1>8 DEF Next, SendToUser, WritePump

\* Nobody registers during the loop, and nobody comes back.
LEMMA RegistryInLoop ==
  ASSUME TypeOK, LoopHoldsMutex, [Next]_vars, NEW q \in Processes, pc[q] = "enqueue",
         NEW c \in Connections
  PROVE  /\ c \in clients' => c \in clients
         /\ conn'[c] # "closed" => conn[c] # "closed"
<1>. USE DEF rows, network, hub
<1>1. mu = q /\ mu # NoOne
  BY MessagingConstants DEF LoopHoldsMutex, Processes
<1>2. CASE UNCHANGED vars
  BY <1>2 DEF vars
<1>3. ASSUME NEW m \in Messages, Send(m) \/ Statement(m) \/ SendFails(m)
      PROVE  UNCHANGED <<clients, conn>>
  BY <1>3 DEF Send, Statement, InsertMessage, UpdatePreview, Reload, SendFails
<1>4. ASSUME NEW p \in Processes, SendToUser(p)
      PROVE  UNCHANGED <<clients, conn>>
  BY <1>4 DEF SendToUser, LockHub, Enqueue, UnlockHub
<1>5. ASSUME NEW d \in Connections,
             \/ Connect(d) \/ ReadPump(d) \/ WritePump(d) \/ Disconnect(d)
             \/ \E u \in Users : ReadSignal(d, u) \/ ReadCallRequest(d, u)
      PROVE  clients' = clients /\ (conn'[c] # "closed" => conn[c] # "closed")
  BY <1>1, <1>5 DEF Connect, ReadPump, Register, ReadFails, AskOnline, Unregister, Disconnect,
                    WritePump, WriteFrame, WriterStops, ReadSignal, ReadCallRequest, TypeOK
<1>6. CASE Crash
  BY <1>6 DEF Crash, TypeOK
<1>. QED
  BY <1>2, <1>3, <1>4, <1>5, <1>6 DEF Next

\* A connection leaves the loop with its frame.
LEMMA LoopServes ==
  ASSUME TypeOK, TaskOwned, LoopHoldsMutex, [Next]_vars, NEW q \in Processes, pc[q] = "enqueue",
         pc'[q] = "enqueue", NEW c \in Connections, c \in task[q].left, c \notin task'[q].left
  PROVE  Enqueue(q, c) /\ HasRoom(c)
<1>. USE DEF Goto, rows, network, hub
<1>1. q \in Frames /\ mu = q /\ mu # NoOne
  BY MessagingConstants DEF LoopHoldsMutex, TaskOwned, Processes
<1>2. CASE \/ UNCHANGED vars
           \/ \E d \in Connections : WritePump(d) \/ Disconnect(d)
  BY <1>2 DEF vars, WritePump, WriteFrame, WriterStops, Disconnect
<1>3. ASSUME NEW m \in Messages, Send(m) \/ Statement(m) \/ SendFails(m)
      PROVE  FALSE
  BY <1>3 DEF Send, Statement, InsertMessage, UpdatePreview, Reload, SendFails, TypeOK
<1>4. ASSUME NEW p \in Processes, SendToUser(p)
      PROVE  p = q /\ Enqueue(q, c) /\ HasRoom(c)
  <2>1. p = q
    <3>1. CASE LockHub(p)
      BY <1>1, <3>1 DEF LockHub
    <3>2. CASE UnlockHub(p) \/ \E d \in Connections : Enqueue(p, d)
      BY <1>1, <3>2 DEF UnlockHub, Enqueue, LoopHoldsMutex
    <3>. QED
      BY <1>4, <3>1, <3>2 DEF SendToUser
  <2>2. ~UnlockHub(q) /\ ~LockHub(q)
    BY <1>1 DEF UnlockHub, AfterSendToUser, LockHub, TypeOK
  <2>3. PICK d \in Connections : Enqueue(q, d)
    BY <1>4, <2>1, <2>2 DEF SendToUser
  <2>4. HasRoom(d)
    BY <2>3 DEF Enqueue
  <2>5. task'[q].left = task[q].left \ {d}
    BY <2>3, <2>4 DEF Enqueue, TypeOK, Tasks
  <2>. QED
    BY <2>1, <2>3, <2>4, <2>5
<1>5. ASSUME NEW d \in Connections,
             \/ Connect(d) \/ ReadPump(d)
             \/ \E u \in Users : ReadSignal(d, u) \/ ReadCallRequest(d, u)
      PROVE  FALSE
  BY <1>5 DEF Connect, ReadPump, Register, ReadFails, AskOnline, Unregister,
              ReadSignal, ReadCallRequest, TypeOK
<1>6. CASE Crash
  BY <1>6 DEF Crash, TypeOK
<1>. QED
  BY <1>2, <1>3, <1>4, <1>5, <1>6 DEF Next

LEMMA ReachedSoFarStep ==
  ASSUME TypeOK, TaskOwned, LoopHoldsMutex, Unconnected, ReachedSoFar, [Next]_vars
  PROVE  ReachedSoFar'
<1>. SUFFICES ASSUME NEW q \in Processes, pc'[q] = "enqueue", NEW c \in Connections,
                     c \in clients', UserOf[c] = task'[q].to, c \notin task'[q].left,
                     conn'[c] # "closed"
              PROVE  Holds(q, Pushed(c))'
  <2>1. clients' \subseteq Connections
    BY TypeStep DEF TypeOK
  <2>. QED
    BY <2>1 DEF ReachedSoFar, Registered
<1>1. CASE LockHub(q)
  <2>1. clients' = clients /\ task'[q].to = task[q].to /\ task'[q].left = Registered(task[q].to)
    BY <1>1 DEF LockHub, TypeOK, Tasks
  <2>. QED
    BY <2>1 DEF Registered
<1>2. CASE pc[q] = "enqueue" /\ task'[q].to = task[q].to
  <2>1. q \in Frames /\ c \in clients /\ conn[c] # "closed"
    BY <1>2, RegistryInLoop DEF TaskOwned
  <2>2. CASE c \notin task[q].left
    <3>1. Holds(q, Pushed(c)) /\ ~Crash
      BY <1>2, <2>1, <2>2 DEF ReachedSoFar, Registered, Crash
    <3>. QED
      BY <2>1, <3>1, PushedStays
  <2>3. CASE c \in task[q].left
    <3>1. Enqueue(q, c) /\ HasRoom(c)
      BY <1>2, <2>3, LoopServes
    <3>. QED
      BY <2>1, <3>1, EnqueuedIsPushed
  <2>. QED
    BY <2>2, <2>3
<1>. QED
  BY <1>1, <1>2, InLoop

-----------------------------------------------------------------------------
(* The preview *)

LEMMA EarlierAreSentStep ==
  ASSUME TypeOK, TaskOwned, EarlierAreSent, [Next]_vars
  PROVE  EarlierAreSent'
<1>. USE DEF Goto, rows, network, hub
<1>0. \A m \in Messages : m \in Processes /\ m \notin Connections /\ earlier[m] \subseteq Messages
  BY MessagingConstants DEF TypeOK, Processes
<1>1. ASSUME UNCHANGED <<messages, earlier>>,
             \A m \in Messages : pc[m] = "sent" => pc'[m] = "sent",
             \A m \in Messages : pc'[m] \in {"idle", "insert"} => pc[m] \in {"idle", "insert"}
      PROVE  EarlierAreSent'
  BY <1>0, <1>1 DEF EarlierAreSent
<1>2. CASE \/ UNCHANGED vars
           \/ \E c \in Connections : WritePump(c) \/ Disconnect(c)
  BY <1>1, <1>2 DEF vars, WritePump, WriteFrame, WriterStops, Disconnect
<1>3. ASSUME NEW m \in Messages, InsertMessage(m) PROVE EarlierAreSent'
  <2>1. /\ messages' = messages \cup {m}
        /\ earlier'[m] = {n \in messages : pc[n] = "sent"}
        /\ \A k \in Messages : k # m => earlier'[k] = earlier[k] /\ pc'[k] = pc[k]
        /\ pc[m] = "insert" /\ pc'[m] = "preview"
    BY <1>0, <1>3 DEF InsertMessage, TypeOK
  <2>2. ASSUME NEW k \in Messages, k # m
        PROVE  /\ \A n \in earlier'[k] : n # k /\ pc'[n] = "sent"
               /\ pc'[k] \in {"idle", "insert"} => k \notin messages'
    BY <1>0, <2>1, <2>2 DEF EarlierAreSent
  <2>3. \A n \in earlier'[m] : n # m /\ pc'[n] = "sent"
    BY <1>0, <2>1 DEF TypeOK
  <2>. QED
    BY <2>1, <2>2, <2>3 DEF EarlierAreSent
<1>4. ASSUME NEW m \in Messages, Send(m) \/ UpdatePreview(m) \/ Reload(m) \/ SendFails(m)
      PROVE  EarlierAreSent'
  <2>1. /\ UNCHANGED <<messages, earlier>>
        /\ \A k \in Messages : pc[k] = "sent" => pc'[k] = "sent"
        /\ \A k \in Messages : pc'[k] \in {"idle", "insert"} => pc[k] \in {"idle", "insert"}
    BY <1>0, <1>4 DEF Send, UpdatePreview, Reload, SendFails, TypeOK
  <2>. QED
    BY <1>1, <2>1
<1>5. ASSUME NEW p \in Processes, SendToUser(p) PROVE EarlierAreSent'
  <2>1. /\ UNCHANGED <<messages, earlier>>
        /\ \A k \in Messages : pc[k] = "sent" => pc'[k] = "sent"
        /\ \A k \in Messages : pc'[k] \in {"idle", "insert"} => pc[k] \in {"idle", "insert"}
    BY <1>0, <1>5 DEF SendToUser, LockHub, Enqueue, UnlockHub, AfterSendToUser, TypeOK
  <2>. QED
    BY <1>1, <2>1
<1>6. ASSUME NEW c \in Connections,
             \/ Connect(c) \/ ReadPump(c)
             \/ \E u \in Users : ReadSignal(c, u) \/ ReadCallRequest(c, u)
      PROVE  EarlierAreSent'
  <2>1. UNCHANGED <<messages, earlier>> /\ \A k \in Messages : pc'[k] = pc[k]
    BY <1>0, <1>6 DEF Connect, ReadPump, Register, ReadFails, AskOnline, Unregister,
                      ReadSignal, ReadCallRequest, TypeOK
  <2>. QED
    BY <1>1, <2>1
<1>7. CASE Crash
  <2>1. UNCHANGED <<messages, earlier>>
    BY <1>7 DEF Crash
  <2>2. ASSUME NEW m \in Messages
        PROVE  /\ pc[m] = "sent" => pc'[m] = "sent"
               /\ pc'[m] \in {"idle", "insert"} => pc[m] \in {"idle", "insert"}
    <3>1. m \in Processes
      BY <1>0
    <3>2. pc'[m] = IF pc[m] \in {"idle", "sent", "failed"} THEN pc[m]
                   ELSE IF pc[m] = "insert" THEN "idle" ELSE "failed"
      BY <1>7, <3>1 DEF Crash
    <3>. QED
      BY <3>2
  <2>. QED
    BY <1>1, <2>1, <2>2
<1>. QED
  BY <1>2, <1>3, <1>4, <1>5, <1>6, <1>7 DEF Next, Statement

LEMMA PreviewKeepsUpStep ==
  ASSUME TypeOK, TaskOwned, EarlierAreSent, PreviewKeepsUp, [Next]_vars
  PROVE  PreviewKeepsUp'
<1>. SUFFICES ASSUME NEW m \in messages', pc'[m] \notin {"preview", "failed"},
                     lastMessage' \in earlier'[m]
              PROVE  FALSE
  BY DEF PreviewKeepsUp
<1>. USE DEF Goto, rows, network, hub
<1>0. /\ m \in Messages /\ m \in Processes /\ m \notin Connections
      /\ earlier[m] \subseteq Messages
  <2>1. TypeOK'
    BY TypeStep
  <2>. QED
    BY <2>1, MessagingConstants DEF TypeOK, Processes
<1>1. ASSUME UNCHANGED <<messages, lastMessage, earlier>>,
             pc[m] \in {"preview", "failed"} => pc'[m] \in {"preview", "failed"}
      PROVE  FALSE
  BY <1>0, <1>1 DEF PreviewKeepsUp
<1>2. CASE \/ UNCHANGED vars
           \/ \E c \in Connections : WritePump(c) \/ Disconnect(c)
  BY <1>1, <1>2 DEF vars, WritePump, WriteFrame, WriterStops, Disconnect
<1>3. ASSUME NEW k \in Messages, InsertMessage(k) PROVE FALSE
  <2>1. k # m
    BY <1>0, <1>3 DEF InsertMessage, TypeOK
  <2>2. m \in messages /\ earlier'[m] = earlier[m] /\ pc'[m] = pc[m] /\ lastMessage' = lastMessage
    BY <1>0, <1>3, <2>1 DEF InsertMessage, TypeOK
  <2>. QED
    BY <2>2 DEF PreviewKeepsUp
<1>4. ASSUME NEW k \in Messages, UpdatePreview(k) PROVE FALSE
  <2>1. lastMessage' = k /\ pc[k] = "preview" /\ UNCHANGED earlier
    BY <1>4 DEF UpdatePreview
  <2>. QED
    BY <1>0, <2>1 DEF EarlierAreSent
<1>5. ASSUME NEW k \in Messages, Send(k) \/ Reload(k) \/ SendFails(k) PROVE FALSE
  <2>1. UNCHANGED <<messages, lastMessage, earlier>>
    BY <1>5 DEF Send, Reload, SendFails
  <2>2. pc[m] \in {"preview", "failed"} => pc'[m] \in {"preview", "failed"}
    BY <1>0, <1>5 DEF Send, Reload, SendFails, TypeOK
  <2>. QED
    BY <1>1, <2>1, <2>2
<1>6. ASSUME NEW p \in Processes, SendToUser(p) PROVE FALSE
  <2>1. UNCHANGED <<messages, lastMessage, earlier>>
    BY <1>6 DEF SendToUser, LockHub, Enqueue, UnlockHub
  <2>2. pc[m] \in {"preview", "failed"} => pc'[m] \in {"preview", "failed"}
    BY <1>0, <1>6 DEF SendToUser, LockHub, Enqueue, UnlockHub, AfterSendToUser, TypeOK
  <2>. QED
    BY <1>1, <2>1, <2>2
<1>7. ASSUME NEW c \in Connections,
             \/ Connect(c) \/ ReadPump(c)
             \/ \E u \in Users : ReadSignal(c, u) \/ ReadCallRequest(c, u)
      PROVE  FALSE
  <2>1. UNCHANGED <<messages, lastMessage, earlier>> /\ pc'[m] = pc[m]
    BY <1>0, <1>7 DEF Connect, ReadPump, Register, ReadFails, AskOnline, Unregister,
                      ReadSignal, ReadCallRequest, TypeOK
  <2>. QED
    BY <1>1, <2>1
<1>8. CASE Crash
  BY <1>0, <1>1, <1>8 DEF Crash
<1>. QED
  BY <1>2, <1>3, <1>4, <1>5, <1>6, <1>7, <1>8 DEF Next, Statement

-----------------------------------------------------------------------------
(* Theorems *)

HubInv ==
  /\ TypeOK /\ TaskOwned /\ OneFrameEach /\ LoopHoldsMutex
  /\ PendingIsUnpushed /\ PushedLast /\ OrderAgrees

LEMMA InitHubInv == Init => HubInv
<1>. SUFFICES ASSUME Init PROVE HubInv
  OBVIOUS
<1>1. TypeOK
  BY InitType
<1>2. \A p \in Processes : pc[p] = "idle"
  BY DEF Init
<1>3. toSend \subseteq Processes
  BY <1>1, MessagingConstants DEF TypeOK, Processes
<1>4. TaskOwned /\ OneFrameEach /\ LoopHoldsMutex /\ PushedLast
  BY <1>2, <1>3 DEF TaskOwned, OneFrameEach, LoopHoldsMutex, PushedLast
<1>5. ASSUME NEW c \in Connections PROVE Pushed(c) = <<>>
  <2>1. delivered[c] = <<>> /\ queue[c] = <<>>
    BY DEF Init
  <2>. QED
    BY <2>1 DEF Pushed
<1>6. ASSUME NEW c \in Connections PROVE DOMAIN Pushed(c) = {}
  <2>1. DOMAIN <<>> = {}
    OBVIOUS
  <2>. QED
    BY <1>5, <2>1
<1>7. PendingIsUnpushed /\ OrderAgrees
  BY <1>6 DEF PendingIsUnpushed, Holds, OrderAgrees, Before
<1>. QED
  BY <1>1, <1>4, <1>7 DEF HubInv

LEMMA HubInvariance == Spec => []HubInv
<1>1. HubInv /\ [Next]_vars => HubInv'
  BY TypeStep, TaskOwnedStep, OneFrameEachStep, LoopHoldsMutexStep, PendingIsUnpushedStep,
     PushedLastStep, OrderAgreesStep
     DEF HubInv
<1>. QED
  BY <1>1, InitHubInv, PTL DEF Spec

\* Every variable keeps its type, and no queue outgrows its buffer.
THEOREM TypeCorrect == Spec => []TypeOK
<1>1. HubInv => TypeOK
  BY DEF HubInv
<1>. QED
  BY <1>1, HubInvariance, PTL

\* Since SendToUser keeps the mutex for its whole loop, all devices of a user
\* see the frames that several of them get in one order, and none twice, for any
\* number of users, devices, messages, losses and crashes.
THEOREM DevicesAgree == Spec => []SameOrder
<1>1. HubInv => SameOrder
  BY OrderAgreesIsSameOrder DEF HubInv
<1>. QED
  BY <1>1, HubInvariance, PTL

\* However many messages are sent at once, fail or are cut off by a crash, the
\* preview of a conversation does not fall back behind a message that had ended
\* before another was stored.
THEOREM PreviewsKeepUp == Spec => []PreviewKeepsUp
<1>1. Init => EarlierAreSent /\ PreviewKeepsUp
  BY DEF Init, EarlierAreSent, PreviewKeepsUp
<1>2. HubInv /\ EarlierAreSent /\ PreviewKeepsUp /\ [Next]_vars =>
        EarlierAreSent' /\ PreviewKeepsUp'
  BY EarlierAreSentStep, PreviewKeepsUpStep DEF HubInv
<1>. QED
  BY <1>1, <1>2, HubInvariance, PTL DEF Spec

\* Whoever joins, leaves, drains a queue or crashes meanwhile, SendToUser ends
\* with its frame pushed to every live connection of the user (hub.go:149-163).
THEOREM BroadcastsReachAll == Spec => BroadcastReachesAll
<1>1. Init => Unconnected /\ ReachedSoFar
  BY MessagingConstants DEF Init, Unconnected, ReachedSoFar, Processes
<1>2. HubInv /\ Unconnected /\ ReachedSoFar /\ [Next]_vars => Unconnected' /\ ReachedSoFar'
  BY UnconnectedStep, ReachedSoFarStep DEF HubInv
<1>3. ASSUME HubInv, ReachedSoFar, NEW p \in Processes, UnlockHub(p),
             NEW c \in Registered(task[p].to), conn[c] = "open"
      PROVE  Holds(task[p].frame, Pushed(c))
  BY <1>3 DEF HubInv, UnlockHub, ReachedSoFar, TaskOwned
<1>4. HubInv /\ ReachedSoFar =>
        [\A p \in Processes : UnlockHub(p) =>
           \A c \in Registered(task[p].to) :
             conn[c] = "open" => Holds(task[p].frame, Pushed(c))]_vars
  BY <1>3
<1>. QED
  BY <1>1, <1>2, <1>4, HubInvariance, PTL DEF Spec, BroadcastReachesAll
=============================================================================
