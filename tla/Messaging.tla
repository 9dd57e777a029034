------------------------------ MODULE Messaging ------------------------------
(***************************************************************************)
(* The chat of one booking: Service.Send and its statements, and the       *)
(* websocket hub that pushes what was stored to the devices of both        *)
(* parties and relays calls (internal/messaging).                          *)
(*                                                                         *)
(* A process is the handler of one message or the read pump of one         *)
(* connection.  What a process does under Hub.mu is a loop over the        *)
(* connections of a user; each Enqueue is a step of its own, since write   *)
(* pumps drain their queues meanwhile.  A connection is never reused: a    *)
(* device that comes back is another member of Connections.                *)
(***************************************************************************)
EXTENDS Naturals, Sequences

CONSTANTS
  Connections,     \* websocket connections (hub.go:75 Client)
  UserOf,          \* the user a connection authenticates as
  Messages,        \* requests POST /bookings/{id}/messages
  SenderOf, RecipientOf,
  Callers,         \* connections that send one frame besides pings
  SendBufferSize,  \* hub.go:48 sendBufferSize
  NoOne

ASSUME MessagingConstants ==
  /\ SendBufferSize \in Nat \ {0}
  /\ NoOne \notin Connections \cup Messages
  /\ Connections \cap Messages = {}
  /\ Callers \subseteq Connections

Processes == Connections \cup Messages
Users == {UserOf[c] : c \in Connections} \cup {SenderOf[m] : m \in Messages}
           \cup {RecipientOf[m] : m \in Messages}
Frames == Messages \cup Callers  \* a stored message, or what a connection's frame became

VARIABLES
  messages,     \* rows of messages
  lastMessage,  \* conversations.last_message, as the message it previews
  earlier,      \* history: messages whose Send was over when a message was stored
  clients,      \* Hub.clients: the registered connections
  mu,           \* who holds Hub.mu
  done,         \* connections whose done channel is closed
  queue,        \* Client.send
  conn,         \* the network connection
  writer,       \* the write pump
  delivered,    \* frames written to the connection
  pc,           \* next step of a process
  task,         \* the SendToUser a process is in: target, frame, connections left
  toSend        \* callers that may still send their frame

rows == <<messages, lastMessage, earlier>>
network == <<conn, writer, delivered, queue>>
hub == <<clients, mu, done>>
vars == <<rows, network, hub, pc, task, toSend>>

Idle == [to |-> NoOne, frame |-> NoOne, left |-> {}]
Tasks == [to : Users \cup {NoOne}, frame : Frames \cup {NoOne}, left : SUBSET Connections]
Steps == {"idle", "insert", "preview", "reload", "lock", "enqueue", "evict", "sent",
          "failed", "register", "reading", "online", "leave", "gone"}
Registered(u) == {c \in clients : UserOf[c] = u}

TypeOK ==
  /\ messages \subseteq Messages
  /\ lastMessage \in Messages \cup {NoOne}
  /\ earlier \in [Messages -> SUBSET Messages]
  /\ clients \subseteq Connections
  /\ mu \in Processes \cup {NoOne}
  /\ done \subseteq Connections
  /\ queue \in [Connections -> Seq(Frames)]
  /\ \A c \in Connections : Len(queue[c]) <= SendBufferSize
  /\ conn \in [Connections -> {"none", "open", "closed"}]
  /\ writer \in [Connections -> {"none", "running", "ended"}]
  /\ delivered \in [Connections -> Seq(Frames)]
  /\ pc \in [Processes -> Steps]
  /\ task \in [Processes -> Tasks]
  /\ toSend \subseteq Callers

Init ==
  /\ messages = {} /\ lastMessage = NoOne
  /\ earlier = [m \in Messages |-> {}]
  /\ clients = {} /\ mu = NoOne /\ done = {}
  /\ queue = [c \in Connections |-> <<>>]
  /\ conn = [c \in Connections |-> "none"]
  /\ writer = [c \in Connections |-> "none"]
  /\ delivered = [c \in Connections |-> <<>>]
  /\ pc = [p \in Processes |-> "idle"]
  /\ task = [p \in Processes |-> Idle]
  /\ toSend = Callers

Goto(p, next) == pc' = [pc EXCEPT ![p] = next]

(***************************************************************************)
(* Storing a message.                                                      *)
(***************************************************************************)

\* The checks of Send passed: the sender is a party of the booking, whose
\* conversation exists by now (INSERT IGNORE on the unique booking).
Send(m) ==
  /\ pc[m] = "idle"
  /\ Goto(m, "insert")
  /\ UNCHANGED <<rows, network, hub, task, toSend>>

\* AddMessage: INSERT the row, UPDATE the conversation, SELECT the row.
InsertMessage(m) ==
  /\ pc[m] = "insert"
  /\ messages' = messages \cup {m}
  /\ earlier' = [earlier EXCEPT ![m] = {n \in messages : pc[n] = "sent"}]
  /\ Goto(m, "preview")
  /\ UNCHANGED <<lastMessage, network, hub, task, toSend>>

\* Variant: the preview is written for the first message only.
PreviewOnce(m) ==
  /\ pc[m] = "preview"
  /\ lastMessage' = IF lastMessage = NoOne THEN m ELSE lastMessage
  /\ Goto(m, "reload")
  /\ UNCHANGED <<messages, earlier, network, hub, task, toSend>>

UpdatePreview(m) ==
  /\ pc[m] = "preview"
  /\ lastMessage' = m
  /\ Goto(m, "reload")
  /\ UNCHANGED <<messages, earlier, network, hub, task, toSend>>

\* BroadcastMessage begins with the sender.
Reload(m) ==
  /\ pc[m] = "reload"
  /\ task' = [task EXCEPT ![m] = [to |-> SenderOf[m], frame |-> m, left |-> {}]]
  /\ Goto(m, "lock")
  /\ UNCHANGED <<rows, network, hub, toSend>>

\* A statement fails or the client gives up: what was written stays, and a
\* request that wrote nothing may come again.
SendFails(m) ==
  /\ pc[m] \in {"insert", "preview", "reload"}
  /\ Goto(m, IF pc[m] = "insert" THEN "idle" ELSE "failed")
  /\ UNCHANGED <<rows, network, hub, task, toSend>>

(***************************************************************************)
(* The hub.                                                                *)
(***************************************************************************)

\* Variant: the clients of the user are copied and written to without the mutex.
LockSkipped(p) ==
  /\ pc[p] = "lock"
  /\ task' = [task EXCEPT ![p].left = Registered(task[p].to)]
  /\ Goto(p, "enqueue")
  /\ UNCHANGED <<rows, network, hub, toSend>>

\* SendToUser: mu.Lock, then the range over h.clients[userID].
LockHub(p) ==
  /\ pc[p] = "lock"
  /\ mu = NoOne
  /\ mu' = p
  /\ task' = [task EXCEPT ![p].left = Registered(task[p].to)]
  /\ Goto(p, "enqueue")
  /\ UNCHANGED <<rows, network, clients, done, toSend>>

\* Variant: one frame more than the buffer holds.
HasRoomForOneMore(c) == Len(queue[c]) <= SendBufferSize
HasRoom(c) == Len(queue[c]) < SendBufferSize

\* Variant: a frame that finds no room is dropped.
DropsWhenFull(p, c) ==
  /\ pc[p] = "enqueue"
  /\ c \in task[p].left
  /\ queue' = IF HasRoom(c) THEN [queue EXCEPT ![c] = Append(@, task[p].frame)] ELSE queue
  /\ task' = [task EXCEPT ![p].left = @ \ {c}]
  /\ UNCHANGED <<rows, conn, writer, delivered, hub, pc, toSend>>

\* Enqueue succeeds, or it does not and SendToUser calls unregister, which waits
\* for mu like any other caller: mu is not reentrant and its holder is the one
\* that waits, so no step leads on from "evict".
Enqueue(p, c) ==
  /\ pc[p] = "enqueue"
  /\ c \in task[p].left
  /\ IF HasRoom(c)
     THEN /\ queue' = [queue EXCEPT ![c] = Append(@, task[p].frame)]
          /\ task' = [task EXCEPT ![p].left = @ \ {c}]
          /\ UNCHANGED pc
     ELSE /\ Goto(p, "evict")
          /\ UNCHANGED <<queue, task>>
  /\ UNCHANGED <<rows, conn, writer, delivered, hub, toSend>>

\* BroadcastMessage: the sender's connections, then the recipient's.  The
\* notification that Send ends with may fail without a trace.
AfterSendToUser(p) ==
  IF p \notin Messages
  THEN Goto(p, "reading") /\ task' = [task EXCEPT ![p] = Idle]
  ELSE IF task[p].to = SenderOf[p] /\ RecipientOf[p] # SenderOf[p]
  THEN Goto(p, "lock") /\ task' = [task EXCEPT ![p].to = RecipientOf[p]]
  ELSE Goto(p, "sent") /\ task' = [task EXCEPT ![p] = Idle]

UnlockHub(p) ==
  /\ pc[p] = "enqueue"
  /\ task[p].left = {}
  /\ mu' = NoOne
  /\ AfterSendToUser(p)
  /\ UNCHANGED <<rows, network, clients, done, toSend>>

\* ServeWS: token and user are fine, the upgrade is done.
Connect(c) ==
  /\ conn[c] = "none"
  /\ conn' = [conn EXCEPT ![c] = "open"]
  /\ Goto(c, "register")
  /\ UNCHANGED <<rows, writer, delivered, queue, hub, task, toSend>>

Register(c) ==
  /\ pc[c] = "register"
  /\ mu = NoOne
  /\ clients' = clients \cup {c}
  /\ writer' = [writer EXCEPT ![c] = "running"]
  /\ Goto(c, "reading")
  /\ UNCHANGED <<rows, conn, delivered, queue, mu, done, task, toSend>>

\* Variant: the connection is closed and stays in the set of its user.
UnregisterKeeps(c) ==
  /\ pc[c] = "leave"
  /\ mu = NoOne
  /\ done' = done \cup {c}
  /\ conn' = [conn EXCEPT ![c] = "closed"]
  /\ Goto(c, "gone")
  /\ UNCHANGED <<rows, writer, delivered, queue, clients, mu, task, toSend>>

\* The deferred unregister of readPump; it also closes the connection.
Unregister(c) ==
  /\ pc[c] = "leave"
  /\ mu = NoOne
  /\ clients' = clients \ {c}
  /\ done' = done \cup {c}
  /\ conn' = [conn EXCEPT ![c] = "closed"]
  /\ Goto(c, "gone")
  /\ UNCHANGED <<rows, writer, delivered, queue, mu, task, toSend>>

(***************************************************************************)
(* The pumps.                                                              *)
(***************************************************************************)

\* ReadMessage fails: the peer is gone, or a deadline passed.
ReadFails(c) ==
  /\ pc[c] = "reading"
  /\ conn[c] = "closed"
  /\ Goto(c, "leave")
  /\ toSend' = toSend \ {c}
  /\ UNCHANGED <<rows, network, hub, task>>

\* A call signal or a typing notice for another user is relayed as it is.
ReadSignal(c, u) ==
  /\ pc[c] = "reading" /\ conn[c] = "open" /\ c \in toSend
  /\ toSend' = toSend \ {c}
  /\ task' = [task EXCEPT ![c] = [to |-> u, frame |-> c, left |-> {}]]
  /\ Goto(c, "lock")
  /\ UNCHANGED <<rows, network, hub>>

\* handleCallRequest up to h.online; a callee unknown to the user store is
\* unavailable at once.
ReadCallRequest(c, u) ==
  /\ pc[c] = "reading" /\ conn[c] = "open" /\ c \in toSend
  /\ toSend' = toSend \ {c}
  /\ u # UserOf[c]
  /\ \/ /\ task' = [task EXCEPT ![c] = [to |-> u, frame |-> c, left |-> {}]]
        /\ Goto(c, "online")
     \/ /\ task' = [task EXCEPT ![c] =
                      [to |-> UserOf[c], frame |-> c, left |-> {}]]
        /\ Goto(c, "lock")
  /\ UNCHANGED <<rows, network, hub>>

\* h.online, and the answer for a callee without a connection (who also gets
\* a push notification).
AskOnline(c) ==
  /\ pc[c] = "online"
  /\ mu = NoOne
  /\ task' = IF Registered(task[c].to) # {} THEN task
             ELSE [task EXCEPT ![c] =
                     [to |-> UserOf[c], frame |-> c, left |-> {}]]
  /\ Goto(c, "lock")
  /\ UNCHANGED <<rows, network, hub, toSend>>

\* The write pump takes a frame and writes it, or the write fails and the
\* frame is lost with the connection.
WriteFrame(c) ==
  /\ writer[c] = "running"
  /\ queue[c] # <<>>
  /\ queue' = [queue EXCEPT ![c] = Tail(@)]
  /\ IF conn[c] = "open"
     THEN /\ delivered' = [delivered EXCEPT ![c] = Append(@, Head(queue[c]))]
          /\ UNCHANGED writer
     ELSE /\ writer' = [writer EXCEPT ![c] = "ended"]
          /\ UNCHANGED delivered
  /\ UNCHANGED <<rows, conn, hub, pc, task, toSend>>

\* done is closed, or the ping of the ticker fails; either way the write pump
\* closes the connection.
WriterStops(c) ==
  /\ writer[c] = "running"
  /\ c \in done \/ conn[c] = "closed"
  /\ writer' = [writer EXCEPT ![c] = "ended"]
  /\ conn' = [conn EXCEPT ![c] = "closed"]
  /\ UNCHANGED <<rows, delivered, queue, hub, pc, task, toSend>>

\* The peer closes, the network fails, or a read or write deadline passes.
Disconnect(c) ==
  /\ conn[c] = "open"
  /\ conn' = [conn EXCEPT ![c] = "closed"]
  /\ UNCHANGED <<rows, writer, delivered, queue, hub, pc, task, toSend>>

\* The process ends and starts again: the rows stay, the hub is empty.  Killed
\* from outside, ended by main after Hub.Close, or by the panic of the websocket
\* library when readPump answers a ping while writePump is writing.
Crash ==
  /\ \E p \in Processes : pc[p] \notin {"idle", "sent", "failed", "gone"}
  /\ clients' = {} /\ mu' = NoOne /\ done' = {c \in Connections : conn[c] # "none"}
  /\ conn' = [c \in Connections |-> IF conn[c] = "none" THEN "none" ELSE "closed"]
  /\ writer' = [c \in Connections |-> IF writer[c] = "none" THEN "none" ELSE "ended"]
  /\ queue' = [c \in Connections |-> <<>>]
  /\ pc' = [p \in Processes |->
              IF pc[p] \in {"idle", "sent", "failed"} THEN pc[p]
              ELSE IF pc[p] = "insert" THEN "idle"
              ELSE IF p \in Messages THEN "failed" ELSE "gone"]
  /\ task' = [p \in Processes |-> Idle]
  /\ toSend' = {c \in toSend : conn[c] = "none"}
  /\ UNCHANGED <<rows, delivered>>

(***************************************************************************)
(* The specification.  A goroutine goes on while it can.  Weak fairness is *)
(* enough for those that wait for mu, which sync.Mutex hands to every      *)
(* waiter: the tasks are finitely many.  Clients, the network and Crash    *)
(* owe nothing.                                                            *)
(***************************************************************************)
Statement(m) == InsertMessage(m) \/ UpdatePreview(m) \/ Reload(m)
SendToUser(p) == LockHub(p) \/ (\E c \in Connections : Enqueue(p, c)) \/ UnlockHub(p)
ReadPump(c) == Register(c) \/ ReadFails(c) \/ AskOnline(c) \/ Unregister(c)
WritePump(c) == WriteFrame(c) \/ WriterStops(c)

Next ==
  \/ \E m \in Messages : Send(m) \/ Statement(m) \/ SendFails(m)
  \/ \E p \in Processes : SendToUser(p)
  \/ \E c \in Connections :
       \/ Connect(c) \/ ReadPump(c) \/ WritePump(c) \/ Disconnect(c)
       \/ \E u \in Users : ReadSignal(c, u) \/ ReadCallRequest(c, u)
  \/ Crash

Spec == Init /\ [][Next]_vars

Fairness ==
  /\ \A m \in Messages : WF_vars(SendToUser(m))
  /\ \A c \in Connections : WF_vars(ReadPump(c) \/ SendToUser(c))

FairSpec == Spec /\ Fairness

(***************************************************************************)
(* Properties.                                                             *)
(***************************************************************************)
Pushed(c) == delivered[c] \o queue[c]
Holds(f, s) == \E i \in DOMAIN s : s[i] = f
Before(f, g, s) == \E i, j \in DOMAIN s : i < j /\ s[i] = f /\ s[j] = g

\* All devices of a user see what was pushed to several of them in the same
\* order (hub.go:150): a broadcast does not get between the connections of
\* another, whoever drains, joins or leaves.
SameOrder ==
  \A c, d \in Connections : UserOf[c] = UserOf[d] =>
    LET s == Pushed(c) IN
    \A i, j \in DOMAIN s : i < j => ~Before(s[j], s[i], Pushed(d))

\* "SendToUser delivers a JSON payload to every live connection of the user"
\* (hub.go:149): when it gives the mutex back, every one that is registered by
\* then has the frame in its queue or on the network.
BroadcastReachesAll ==
  [][\A p \in Processes : UnlockHub(p) =>
       \A c \in Registered(task[p].to) :
         conn[c] = "open" => Holds(task[p].frame, Pushed(c))]_vars

\* The holder of the mutex waits for it.
HubBlocked == mu # NoOne /\ pc[mu] = "evict"

\* The list of conversations never falls back behind a message that was sent
\* before the newest began (store.go:296): only messages that are being sent
\* at the same time may overwrite each other's preview.
PreviewKeepsUp ==
  \A m \in messages : pc[m] \notin {"preview", "failed"} => lastMessage \notin earlier[m]

\* A dead connection does not stay in the registry, where it would count as
\* online and fill its queue; a blocked hub lets nobody leave.
GhostsLeave ==
  \A c \in Connections :
    (conn[c] = "closed" /\ c \in clients) ~> (c \notin clients \/ HubBlocked)

\* "Enqueue queues an outbound frame without ever blocking the broadcaster"
\* (hub.go:83).
BroadcasterNeverBlocked == ~HubBlocked
=============================================================================
