-------------------------- MODULE GraphQLWebSocket --------------------------
(***************************************************************************)
(* The graphql-ws client of crates/client/src/ws.rs: the table of          *)
(* subscriptions behind a tokio RwLock, one receiver and one sender task   *)
(* per connection, the reconnecter that replaces a connection whose        *)
(* receiver returned true, the `subscribe` call and one task per           *)
(* subscription.  A connection is named by its generation: 0 is the one    *)
(* `connect` opens, g + 1 the one that replaces g.                         *)
(*                                                                         *)
(* A step is the code between two await points of a task.  tokio's RwLock  *)
(* is fair, so its waiters are one queue in order of arrival, and only a   *)
(* sender keeps its guard across steps: every other holder releases it     *)
(* before it awaits again.                                                 *)
(***************************************************************************)
EXTENDS SubscriptionId, SequencesExt

CONSTANTS
    MaxConns,     \* bound: how many connections one socket opens
    FirstId,      \* id_count before the first call modelled
    MaxSubs,      \* bound: calls of subscribe
    LivenessMod,  \* a liveness is a number modulo this (2^8 for the u8)
    MaxChannel    \* bound: the server is silent while a channel holds this many

ASSUME ConnsAssumption == MaxConns \in Nat \ {0}
ASSUME IdsAssumption == FirstId \in Nat /\ MaxSubs \in Nat \ {0}
ASSUME LivenessAssumption == LivenessMod \in Nat \ {0}
ASSUME ChannelAssumption == MaxChannel \in Nat \ {0}

Conn == 0 .. MaxConns - 1
SubId == FirstId + 1 .. FirstId + MaxSubs

(***************************************************************************)
(* Messages.  A payload is the number of the subscription it belongs to:   *)
(* the request in a Start, the result of that request in a Data.           *)
(***************************************************************************)
WireId == {UpperHex(n) : n \in SubId} \cup {Decimal(n) : n \in SubId}

Start(id, payload) == [type |-> "start", id |-> id, payload |-> payload]
Stop(id) == [type |-> "stop", id |-> id]
ConnectionTerminate == [type |-> "connection_terminate"]

ClientMessage == [type : {"start"}, id : WireId, payload : SubId]
                 \cup [type : {"stop"}, id : WireId]
                 \cup [type : {"connection_terminate"}]

\* What arrives on the socket: GraphQL text frames by their "type", the Pong
\* control frame, and any frame that is neither.
DataFrame(o) == [type |-> "data", id |-> o.id, payload |-> o.payload]

ServerMessage == [variant : {"Data"}, id : WireId, payload : SubId]
                 \cup [variant : {"Complete"}, id : WireId]
                 \cup [variant : {"ConnectionError", "ConnectionAck", "ConnectionKeepAlive"}]

NoMessage == [variant |-> "None"]
Undecodable == [variant |-> "Undecodable"]

\* The message a frame decodes to.  Two variants are renamed "error" and serde
\* takes the first, which has no id: no frame decodes to the variant Error.
Decode(f) ==
    CASE f.type = "data" -> [variant |-> "Data", id |-> f.id, payload |-> f.payload]
      [] f.type = "complete" -> [variant |-> "Complete", id |-> f.id]
      [] f.type = "error" -> [variant |-> "ConnectionError"]
      [] f.type = "connection_ack" -> [variant |-> "ConnectionAck"]
      [] f.type \in {"ka", "pong"} -> [variant |-> "ConnectionKeepAlive"]
      [] f.type = "unknown" -> Undecodable

IdOf(m) == IF m.variant \in {"Data", "Error", "Complete"} THEN MessageId(m.id) ELSE NoId

VARIABLES
    \* GraphQLWebSocket.subscriptions and the queue of its RwLock
    subs,         \* the keys of the map
    stamp,        \* the connection whose liveness each handle bears
    queue,        \* the tasks waiting for the lock, first come first served
    \* GraphQLWebSocket.connection and the reconnecter
    current,      \* the connection in the mutex
    spawned,      \* the last connection whose tasks were spawned
    \* the sender tasks
    sender,       \* where each is
    todo,         \* the handles the resend loop has still to visit
    outq,         \* rx_out
    waiting,      \* waiting_for_ka
    answered,     \* history: an answer to the last ping was read in time
    \* the receiver tasks
    receiver,     \* where each is
    message,      \* the message in process_server_message
    die,          \* a signal waits in this iteration's die_rx
    \* the network and the server at its other end
    link,         \* the state of the socket
    handshake,    \* "none", "init" received, or "acked"
    ops,          \* the operations the server runs
    started,      \* history: the requests a Start asked of this connection's server
    pinged,       \* a ping not yet answered
    \* the caller of subscribe and the tasks it leaves behind
    caller,       \* where the call in progress is
    idCount,      \* id_count
    task,         \* where each Subscription is
    txOf,         \* the connection whose tx the Subscription cloned
    channel,      \* the channel from the handle to the Subscription
    completed     \* history: the subscriptions whose Complete was handed on

tableVars == <<subs, stamp, queue>>
connVars == <<current, spawned>>
senderVars == <<sender, todo, outq, waiting, answered>>
receiverVars == <<receiver, message, die>>
netVars == <<link, handshake, ops, started, pinged>>
callerVars == <<caller, idCount>>
taskVars == <<task, txOf, channel, completed>>

vars == <<tableVars, connVars, senderVars, receiverVars, netVars, callerVars, taskVars>>

(***************************************************************************)
(* The waiters of the RwLock.                                              *)
(***************************************************************************)
Sender(g) == <<"sender", g>>
Receiver(g) == <<"receiver", g>>
Caller == <<"caller", 0>>
Waiter == {Sender(g) : g \in Conn} \cup {Receiver(g) : g \in Conn} \cup {Caller}

\* The receiver task of connection g has not returned.
Receiving(g) == receiver[g] \in {"select", "read", "write"}

\* The read guard `subs` of a sender lives until its task ends.
Guards == {g \in Conn : sender[g] \in {"resend", "loop", "timedout"}}

Await(w) == queue' = Append(queue, w)
FirstInLine(w) == queue # <<>> /\ Head(queue) = w
TakesRead(w) == FirstInLine(w) /\ queue' = Tail(queue)
TakesWrite(w) == FirstInLine(w) /\ Guards = {} /\ queue' = Tail(queue)

(***************************************************************************)
(* The server: external, it does what the graphql-ws protocol allows.  It  *)
(* runs at most one operation per id and forgets it when it completes,     *)
(* fails or is stopped.                                                    *)
(***************************************************************************)
Operation == [id : WireId, payload : SubId]
Without(running, id) == {o \in running : o.id # id}

After(running, m) ==
    CASE m.type = "start" -> Without(running, m.id) \cup {[id |-> m.id, payload |-> m.payload]}
      [] m.type = "stop" -> Without(running, m.id)
      [] m.type = "connection_terminate" -> {}

\* tx.send on the sink of connection g: the server gets the message while the
\* socket is up; afterwards the message is lost and the error only logged.
Put(g, m) ==
    LET delivered == link[g] = "up" IN
    /\ ops' = IF delivered THEN [ops EXCEPT ![g] = After(@, m)] ELSE ops
    /\ started' = IF delivered /\ m.type = "start"
                  THEN [started EXCEPT ![g] = @ \cup {m.payload}] ELSE started
    /\ link' = IF delivered /\ m = ConnectionTerminate
               THEN [link EXCEPT ![g] = "closed"] ELSE link

\* What the server may send next on connection g.
Frames(g) ==
    {DataFrame(o) : o \in ops[g]}
    \cup [type : {"error", "complete"}, id : {o.id : o \in ops[g]}]
    \cup [type : IF handshake[g] = "init" THEN {"connection_ack"} ELSE {}]
    \cup [type : IF handshake[g] # "none" THEN {"ka", "unknown"} ELSE {}]
    \cup [type : IF pinged[g] THEN {"pong"} ELSE {}]

\* The server sends f: an operation that ended is forgotten.
Emit(g, f) ==
    /\ link[g] = "up"
    /\ f \in Frames(g)
    /\ handshake' = IF f.type = "connection_ack"
                    THEN [handshake EXCEPT ![g] = "acked"] ELSE handshake
    /\ ops' = IF f.type \in {"error", "complete"}
              THEN [ops EXCEPT ![g] = Without(@, f.id)] ELSE ops
    /\ pinged' = IF f.type = "pong" THEN [pinged EXCEPT ![g] = FALSE] ELSE pinged
    /\ UNCHANGED <<link, started>>

\* The socket of g is no more and the server forgets the connection.
Disconnect(g, how) ==
    /\ link' = [link EXCEPT ![g] = how]
    /\ handshake' = [handshake EXCEPT ![g] = "none"]
    /\ ops' = [ops EXCEPT ![g] = {}]
    /\ started' = [started EXCEPT ![g] = {}]
    /\ pinged' = [pinged EXCEPT ![g] = FALSE]

\* It is reset without a closing handshake, or it ends in any other way: a close
\* frame, an I/O error, the end of the stream.
LinkDown(g) ==
    /\ link[g] = "up" /\ Receiving(g)
    /\ \E how \in {"reset", "closed"} : Disconnect(g, how)
    /\ UNCHANGED <<tableVars, connVars, senderVars, receiverVars, callerVars, taskVars>>

(***************************************************************************)
(* The channel from a handle in the table to its Subscription.             *)
(***************************************************************************)
\* The Subscription, or the `subscribe` call that will make it, still holds rx.
RxAlive(n) == task[n] \in {"pending", "running"}

\* tx.channel.send(m) for every handle of a set; a send to a dropped rx fails.
SendTo(ns, m) ==
    channel' = [n \in SubId |-> IF n \in ns /\ RxAlive(n) THEN Append(channel[n], m)
                                ELSE channel[n]]

(***************************************************************************)
(* The receiver task, one iteration of its loop at a time.                 *)
(***************************************************************************)
\* Mutation: die_rx is subscribed once, before the loop.
BugNextIteration(g) ==
    /\ receiver' = [receiver EXCEPT ![g] = "select"]
    /\ message' = [message EXCEPT ![g] = NoMessage]
    /\ UNCHANGED die

\* An iteration begins by subscribing to die_tx: a signal sent earlier is gone.
NextIteration(g) ==
    /\ receiver' = [receiver EXCEPT ![g] = "select"]
    /\ message' = [message EXCEPT ![g] = NoMessage]
    /\ die' = [die EXCEPT ![g] = FALSE]

\* The receiver returns whether the connection has to be replaced.
Return(g, reconnect) ==
    /\ receiver' = [receiver EXCEPT ![g] = IF reconnect THEN "reconnect" ELSE "stopped"]
    /\ die' = [die EXCEPT ![g] = FALSE]
    /\ UNCHANGED message

\* The sender that signalled is past its loop: with both halves gone the socket
\* is closed.
ReceiverDie(g) ==
    /\ receiver[g] = "select" /\ die[g]
    /\ Return(g, TRUE)
    /\ Disconnect(g, IF link[g] = "up" THEN "closed" ELSE link[g])
    /\ UNCHANGED <<tableVars, connVars, senderVars, callerVars, taskVars>>

\* ResetWithoutClosingHandshake returns true, ConnectionClosed and None false.
ReceiverEnd(g) ==
    /\ receiver[g] = "select" /\ link[g] # "up"
    /\ Return(g, link[g] = "reset")
    /\ UNCHANGED <<tableVars, connVars, senderVars, netVars, callerVars, taskVars>>

\* A timer that has already looked at waiting_for_ka does not look again: an answer
\* read before its signal comes too late.
ReceiverKeepAlive(g) ==
    /\ receiver[g] = "select"
    /\ \E f \in Frames(g) : Decode(f).variant = "ConnectionKeepAlive" /\ Emit(g, f)
    /\ waiting' = [waiting EXCEPT ![g] = FALSE]
    /\ answered' = [answered EXCEPT ![g] = @ \/ sender[g] # "timedout"]
    /\ NextIteration(g)
    /\ UNCHANGED <<tableVars, connVars, sender, todo, outq, callerVars, taskVars>>

\* A frame that does not decode is logged.
ReceiverUndecodable(g) ==
    /\ receiver[g] = "select"
    /\ \E f \in Frames(g) : Decode(f) = Undecodable /\ Emit(g, f)
    /\ NextIteration(g)
    /\ UNCHANGED <<tableVars, connVars, senderVars, callerVars, taskVars>>

\* process_server_message begins: it waits for the table's read lock.
ReceiverMessage(g) ==
    /\ receiver[g] = "select"
    /\ \A n \in SubId : Len(channel[n]) < MaxChannel
    /\ \E f \in Frames(g) :
          /\ Decode(f).variant \notin {"ConnectionKeepAlive", "Undecodable"}
          /\ Emit(g, f)
          /\ message' = [message EXCEPT ![g] = Decode(f)]
    /\ receiver' = [receiver EXCEPT ![g] = "read"]
    /\ Await(Receiver(g))
    /\ UNCHANGED <<subs, stamp, connVars, senderVars, die, callerVars, taskVars>>

\* Mutation: only an error requires the cleanup.
BugEndsSubscription(m) == m.variant \in {"Error"}

\* Mutation: every message requires it.
EagerEndsSubscription(m) == m.variant \in {"Data", "Error", "Complete"}

\* The messages after which the handle has to be removed.
EndsSubscription(m) == m.variant \in {"Error", "Complete"}

\* With the read lock: a message with an id goes to that handle, and a handle
\* whose stream ended or whose rx is gone has to be removed.
ReceiverDispatch(g) ==
    LET n == IdOf(message[g])
        cleanup == n \in subs /\ (~RxAlive(n) \/ EndsSubscription(message[g]))
    IN  /\ receiver[g] = "read"
        /\ n # NoId
        /\ FirstInLine(Receiver(g))
        /\ SendTo({n} \cap subs, message[g])
        /\ completed' = IF n \in subs /\ message[g].variant = "Complete"
                        THEN completed \cup {n} ELSE completed
        /\ \/ /\ cleanup
              /\ queue' = Append(Tail(queue), Receiver(g))
              /\ receiver' = [receiver EXCEPT ![g] = "write"]
              /\ UNCHANGED <<message, die>>
           \/ /\ ~cleanup
              /\ queue' = Tail(queue)
              /\ NextIteration(g)
        /\ UNCHANGED <<subs, stamp, connVars, senderVars, netVars, callerVars, task, txOf>>

\* With the read lock: a message without an id goes to every handle.
ReceiverBroadcast(g) ==
    /\ receiver[g] = "read"
    /\ IdOf(message[g]) = NoId
    /\ TakesRead(Receiver(g))
    /\ SendTo(subs, message[g])
    /\ NextIteration(g)
    /\ UNCHANGED <<subs, stamp, connVars, senderVars, netVars, callerVars,
                   task, txOf, completed>>

\* With the write lock: the handle is removed, and its end of the channel with it.
ReceiverCleanup(g) ==
    /\ receiver[g] = "write"
    /\ TakesWrite(Receiver(g))
    /\ subs' = subs \ {IdOf(message[g])}
    /\ stamp' = [stamp EXCEPT ![IdOf(message[g])] = 0]
    /\ NextIteration(g)
    /\ UNCHANGED <<connVars, senderVars, netVars, callerVars, taskVars>>

(***************************************************************************)
(* The sender task.                                                        *)
(***************************************************************************)
\* Mutation: the reconnecter hands the new connection the old one's liveness.
BugLiveness(g) == 0

\* The liveness of connection g: a u8 that wraps (LivenessMod is 256).
Liveness(g) == g % LivenessMod

\* Some sender's rx_out is there to receive: tx.send succeeds.
RxOutOpen(g) == sender[g] \notin {"none", "ended", "panicked"}

\* ConnectionInit goes out, then the task waits for the table's read lock.
SenderInit(g) ==
    /\ sender[g] = "init"
    /\ handshake' = IF link[g] = "up" THEN [handshake EXCEPT ![g] = "init"] ELSE handshake
    /\ sender' = [sender EXCEPT ![g] = "lock"]
    /\ Await(Sender(g))
    /\ UNCHANGED <<subs, stamp, connVars, todo, outq, waiting, answered, receiverVars,
                   callerVars,
                   taskVars, link, ops, started, pinged>>

\* The unwrap on ConnectionInit: the task ends if the socket is already dead.
SenderPanic(g) ==
    /\ sender[g] = "init" /\ link[g] # "up"
    /\ sender' = [sender EXCEPT ![g] = "panicked"]
    /\ outq' = [outq EXCEPT ![g] = <<>>]
    /\ UNCHANGED <<tableVars, connVars, todo, waiting, answered, receiverVars, netVars,
                   callerVars,
                   taskVars>>

\* Mutation: the handles already in the table are not visited.
BugSenderLock(g) ==
    /\ sender[g] = "lock"
    /\ TakesRead(Sender(g))
    /\ sender' = [sender EXCEPT ![g] = "loop"]
    /\ UNCHANGED <<subs, stamp, connVars, todo, outq, waiting, answered, receiverVars,
                   netVars, callerVars, taskVars>>

\* subs0.read().await returns; the loop below visits what the table holds now.
SenderLock(g) ==
    /\ sender[g] = "lock"
    /\ TakesRead(Sender(g))
    /\ todo' = [todo EXCEPT ![g] = subs]
    /\ sender' = [sender EXCEPT ![g] = IF subs = {} THEN "loop" ELSE "resend"]
    /\ UNCHANGED <<subs, stamp, connVars, outq, waiting, answered, receiverVars, netVars,
                   callerVars,
                   taskVars>>

\* One handle of the resend loop, in the order the HashMap happens to give.
SenderResend(g, n) ==
    /\ sender[g] = "resend" /\ n \in todo[g]
    /\ \/ /\ Liveness(stamp[n]) # Liveness(g)
          /\ stamp' = [stamp EXCEPT ![n] = g]
          /\ Put(g, Start(Decimal(n), n))
       \/ /\ Liveness(stamp[n]) = Liveness(g)
          /\ UNCHANGED <<stamp, link, ops, started>>
    /\ todo' = [todo EXCEPT ![g] = @ \ {n}]
    /\ sender' = [sender EXCEPT ![g] = IF todo[g] = {n} THEN "loop" ELSE "resend"]
    /\ UNCHANGED <<subs, queue, connVars, outq, waiting, answered, receiverVars, handshake,
                   pinged,
                   callerVars, taskVars>>

\* rx_out.recv() yields a message, which goes to the sink.
SenderSend(g) ==
    /\ sender[g] = "loop" /\ outq[g] # <<>>
    /\ Put(g, Head(outq[g]))
    /\ outq' = [outq EXCEPT ![g] = Tail(@)]
    /\ UNCHANGED <<tableVars, connVars, sender, todo, waiting, answered, receiverVars,
                   handshake,
                   pinged, callerVars, taskVars>>

\* rx_out.recv() yields None: neither the mutex, nor the reconnecter that is
\* about to fill it, nor any Subscription holds a tx of this connection.
SenderClosed(g) ==
    /\ sender[g] = "loop" /\ outq[g] = <<>>
    /\ g < current
    /\ \A n \in SubId : ~(task[n] = "running" /\ txOf[n] = g)
    /\ sender' = [sender EXCEPT ![g] = "closing"]
    /\ UNCHANGED <<tableVars, connVars, todo, outq, waiting, answered, receiverVars,
                   netVars, callerVars, taskVars>>

\* Mutation: the ping goes out but waiting_for_ka is not stored.
BugSenderPing(g) ==
    /\ sender[g] = "loop" /\ ~waiting[g]
    /\ pinged' = IF link[g] = "up" THEN [pinged EXCEPT ![g] = TRUE] ELSE pinged
    /\ UNCHANGED <<tableVars, connVars, senderVars, receiverVars, link, handshake, ops,
                   started, callerVars, taskVars>>

\* timeout_secs pass without a message to send, and the last ping was answered.
SenderPing(g) ==
    /\ sender[g] = "loop" /\ ~waiting[g]
    /\ waiting' = [waiting EXCEPT ![g] = TRUE]
    /\ answered' = [answered EXCEPT ![g] = FALSE]
    /\ pinged' = IF link[g] = "up" THEN [pinged EXCEPT ![g] = TRUE] ELSE pinged
    /\ UNCHANGED <<tableVars, connVars, sender, todo, outq, receiverVars, link, handshake,
                   ops, started, callerVars, taskVars>>

\* They pass again, and the load of waiting_for_ka finds that it was not.
SenderTimer(g) ==
    /\ sender[g] = "loop" /\ waiting[g]
    /\ sender' = [sender EXCEPT ![g] = "timedout"]
    /\ UNCHANGED <<tableVars, connVars, todo, outq, waiting, answered, receiverVars,
                   netVars, callerVars, taskVars>>

\* Mutation: the signal is sent but the loop goes on.
BugSenderTimeout(g) ==
    /\ sender[g] = "timedout"
    /\ die' = IF Receiving(g)
              THEN [die EXCEPT ![g] = TRUE] ELSE die
    /\ sender' = [sender EXCEPT ![g] = "loop"]
    /\ UNCHANGED <<tableVars, connVars, todo, outq, waiting, answered, receiver, message,
                   netVars, callerVars, taskVars>>

\* die_tx.send, a step of its own: the receiver may have run since the load.  It is
\* told to die if it is there, and the loop ends.
SenderTimeout(g) ==
    /\ sender[g] = "timedout"
    /\ die' = IF Receiving(g)
              THEN [die EXCEPT ![g] = TRUE] ELSE die
    /\ sender' = [sender EXCEPT ![g] = "closing"]
    /\ UNCHANGED <<tableVars, connVars, todo, outq, waiting, answered, receiver, message,
                   netVars, callerVars, taskVars>>

\* The task is over: the guard went when its block ended, now rx_out goes.
SenderEnd(g) ==
    /\ sender[g] = "closing"
    /\ sender' = [sender EXCEPT ![g] = "ended"]
    /\ outq' = [outq EXCEPT ![g] = <<>>]
    /\ UNCHANGED <<tableVars, connVars, todo, waiting, answered, receiverVars, netVars,
                   callerVars,
                   taskVars>>

(***************************************************************************)
(* The reconnecter.                                                        *)
(***************************************************************************)
\* Mutation: the new connection is opened while the receiver still runs.
BugReconnectNew(g) ==
    /\ receiver[g] \in {"select", "reconnect"}
    /\ spawned = g /\ current = g
    /\ g + 1 \in Conn
    /\ spawned' = g + 1
    /\ sender' = [sender EXCEPT ![g + 1] = "init"]
    /\ receiver' = [receiver EXCEPT ![g + 1] = "select"]
    /\ UNCHANGED <<tableVars, current, todo, outq, waiting, answered, message, die, netVars,
                   callerVars, taskVars>>

\* GraphQLConnection::new succeeds, after as many failures as it takes.
ReconnectNew(g) ==
    /\ receiver[g] = "reconnect"
    /\ spawned = g /\ current = g
    /\ g + 1 \in Conn
    /\ spawned' = g + 1
    /\ sender' = [sender EXCEPT ![g + 1] = "init"]
    /\ receiver' = [receiver EXCEPT ![g + 1] = "select"]
    /\ UNCHANGED <<tableVars, current, todo, outq, waiting, answered, message, die, netVars,
                   callerVars, taskVars>>

\* *guard = new_connection: the connection replaced says ConnectionTerminate.
ReconnectSwap ==
    /\ current < spawned
    /\ current' = spawned
    /\ outq' = IF RxOutOpen(current)
               THEN [outq EXCEPT ![current] = Append(@, ConnectionTerminate)] ELSE outq
    /\ UNCHANGED <<tableVars, spawned, sender, todo, waiting, answered, receiverVars,
                   netVars, callerVars, taskVars>>

(***************************************************************************)
(* subscribe, one call at a time: WsClient keeps the socket in a Mutex.    *)
(***************************************************************************)
SubscribeCall ==
    /\ caller = "idle"
    /\ idCount + 1 \in SubId
    /\ idCount' = idCount + 1
    /\ caller' = "write"
    /\ Await(Caller)
    /\ UNCHANGED <<subs, stamp, connVars, senderVars, receiverVars, netVars, taskVars>>

\* The caller drops the future of subscribe while it waits: it leaves the queue
\* and the number it took is not used again.
SubscribeCancel ==
    /\ caller = "write"
    /\ \E i \in DOMAIN queue : queue[i] = Caller /\ queue' = RemoveAt(queue, i)
    /\ caller' = "idle"
    /\ UNCHANGED <<subs, stamp, connVars, senderVars, receiverVars, netVars, idCount,
                   taskVars>>

\* Mutation: the handle is stored under the number after the one announced.
BugSubscribeInsert ==
    /\ caller = "write"
    /\ TakesWrite(Caller)
    /\ subs' = subs \cup {idCount + 1}
    /\ stamp' = [stamp EXCEPT ![idCount] = current]
    /\ task' = [task EXCEPT ![idCount] = "pending"]
    /\ caller' = "start"
    /\ UNCHANGED <<connVars, senderVars, receiverVars, netVars, idCount, txOf, channel,
                   completed>>

\* With the write lock: the handle is stored, stamped with the liveness of the
\* connection in the mutex.
SubscribeInsert ==
    /\ caller = "write"
    /\ TakesWrite(Caller)
    /\ subs' = subs \cup {idCount}
    /\ stamp' = [stamp EXCEPT ![idCount] = current]
    /\ task' = [task EXCEPT ![idCount] = "pending"]
    /\ caller' = "start"
    /\ UNCHANGED <<connVars, senderVars, receiverVars, netVars, idCount, txOf, channel,
                   completed>>

\* The Start goes to the connection in the mutex now; the Subscription keeps its tx.
SubscribeStart ==
    /\ caller = "start"
    /\ RxOutOpen(current)
    /\ outq' = [outq EXCEPT ![current] = Append(@, Start(UpperHex(idCount), idCount))]
    /\ txOf' = [txOf EXCEPT ![idCount] = current]
    /\ task' = [task EXCEPT ![idCount] = "running"]
    /\ caller' = "idle"
    /\ UNCHANGED <<tableVars, connVars, sender, todo, waiting, answered, receiverVars,
                   netVars, idCount, channel, completed>>

\* The unwrap on tx.send: the caller's task panics and drops rx, the handle stays.
SubscribePanic ==
    /\ caller = "start"
    /\ ~RxOutOpen(current)
    /\ task' = [task EXCEPT ![idCount] = "panicked"]
    /\ channel' = [channel EXCEPT ![idCount] = <<>>]
    /\ caller' = "idle"
    /\ UNCHANGED <<tableVars, connVars, senderVars, receiverVars, netVars, idCount, txOf,
                   completed>>

(***************************************************************************)
(* The task of a Subscription.                                             *)
(***************************************************************************)
\* Return from the task: rx is dropped, and Drop says Stop on the tx it kept.
Drop(n) ==
    /\ task' = [task EXCEPT ![n] = "ended"]
    /\ channel' = [channel EXCEPT ![n] = <<>>]
    /\ outq' = IF RxOutOpen(txOf[n])
               THEN [outq EXCEPT ![txOf[n]] = Append(@, Stop(UpperHex(n)))] ELSE outq
    /\ txOf' = [txOf EXCEPT ![n] = 0]

\* A message the task passes over or hands to the stream.
TaskItem(n) ==
    /\ task[n] = "running" /\ channel[n] # <<>>
    /\ LET m == Head(channel[n]) IN
          \/ m.variant \in {"Data", "Error", "ConnectionAck", "ConnectionKeepAlive"}
          \/ m.variant = "Complete" /\ m.id # UpperHex(n)
    /\ channel' = [channel EXCEPT ![n] = Tail(@)]
    /\ UNCHANGED <<tableVars, connVars, senderVars, receiverVars, netVars, callerVars,
                   task, txOf, completed>>

\* A message that ends the stream, or the end of the channel.
TaskEnd(n) ==
    /\ task[n] = "running"
    /\ \/ /\ channel[n] # <<>>
          /\ LET m == Head(channel[n]) IN
                \/ m.variant = "Complete" /\ m.id = UpperHex(n)
                \/ m.variant = "ConnectionError"
       \/ channel[n] = <<>> /\ n \notin subs
    /\ Drop(n)
    /\ UNCHANGED <<tableVars, connVars, sender, todo, waiting, answered, receiverVars,
                   netVars, callerVars, completed>>

(***************************************************************************)
(* The specification.  `connect` has just returned.                        *)
(***************************************************************************)
Init ==
    /\ subs = {} /\ stamp = [n \in SubId |-> 0] /\ queue = <<>>
    /\ current = 0 /\ spawned = 0
    /\ sender = [g \in Conn |-> IF g = 0 THEN "init" ELSE "none"]
    /\ todo = [g \in Conn |-> {}]
    /\ outq = [g \in Conn |-> <<>>]
    /\ waiting = [g \in Conn |-> FALSE]
    /\ answered = [g \in Conn |-> TRUE]
    /\ receiver = [g \in Conn |-> IF g = 0 THEN "select" ELSE "none"]
    /\ message = [g \in Conn |-> NoMessage]
    /\ die = [g \in Conn |-> FALSE]
    /\ link = [g \in Conn |-> "up"]
    /\ handshake = [g \in Conn |-> "none"]
    /\ ops = [g \in Conn |-> {}]
    /\ started = [g \in Conn |-> {}]
    /\ pinged = [g \in Conn |-> FALSE]
    /\ caller = "idle" /\ idCount = FirstId
    /\ task = [n \in SubId |-> "none"]
    /\ txOf = [n \in SubId |-> 0]
    /\ channel = [n \in SubId |-> <<>>]
    /\ completed = {}

ReceiverStep(g) ==
    \/ ReceiverDie(g) \/ ReceiverEnd(g)
    \/ ReceiverKeepAlive(g) \/ ReceiverUndecodable(g) \/ ReceiverMessage(g)
    \/ ReceiverDispatch(g) \/ ReceiverBroadcast(g) \/ ReceiverCleanup(g)

SenderStep(g) ==
    \/ SenderInit(g) \/ SenderPanic(g) \/ SenderLock(g)
    \/ \E n \in SubId : SenderResend(g, n)
    \/ SenderSend(g) \/ SenderClosed(g) \/ SenderPing(g)
    \/ SenderTimer(g) \/ SenderTimeout(g) \/ SenderEnd(g)

SubscribeStep ==
    SubscribeCall \/ SubscribeCancel \/ SubscribeInsert \/ SubscribeStart \/ SubscribePanic

Next ==
    \/ \E g \in Conn : LinkDown(g) \/ ReceiverStep(g) \/ SenderStep(g) \/ ReconnectNew(g)
    \/ ReconnectSwap
    \/ SubscribeStep
    \/ \E n \in SubId : TaskItem(n) \/ TaskEnd(n)

Spec == Init /\ [][Next]_vars

\* tokio runs every task that can run, the timer fires and connect succeeds in
\* the end; pings do not keep the sender from its queue.  The server, and the
\* callers of subscribe before they call, owe nothing.
Fairness ==
    /\ \A g \in Conn :
          /\ WF_vars(ReceiverDie(g) \/ ReceiverEnd(g) \/ ReceiverDispatch(g)
                     \/ ReceiverBroadcast(g) \/ ReceiverCleanup(g))
          /\ WF_vars(SenderStep(g)) /\ WF_vars(SenderSend(g))
          /\ WF_vars(ReconnectNew(g))
    /\ WF_vars(ReconnectSwap)
    /\ WF_vars(SubscribeInsert \/ SubscribeStart \/ SubscribePanic)
    /\ \A n \in SubId : WF_vars(TaskItem(n) \/ TaskEnd(n))

FairSpec == Spec /\ Fairness

-----------------------------------------------------------------------------
(***************************************************************************)
(* Properties.                                                             *)
(***************************************************************************)
\* Type correctness; and every key of the table is a number `subscribe` has
\* already handed out.
TypeOK ==
    /\ subs \in SUBSET (FirstId + 1 .. idCount)
    /\ stamp \in [SubId -> Conn]
    /\ queue \in Seq(Waiter)
    /\ current \in Conn /\ spawned \in Conn
    /\ sender \in [Conn -> {"none", "init", "lock", "resend", "loop", "timedout",
                            "closing", "ended", "panicked"}]
    /\ todo \in [Conn -> SUBSET SubId]
    /\ outq \in [Conn -> Seq(ClientMessage)]
    /\ waiting \in [Conn -> BOOLEAN]
    /\ answered \in [Conn -> BOOLEAN]
    /\ receiver \in [Conn -> {"none", "select", "read", "write", "reconnect", "stopped"}]
    /\ message \in [Conn -> ServerMessage \cup {NoMessage}]
    /\ die \in [Conn -> BOOLEAN]
    /\ link \in [Conn -> {"up", "reset", "closed"}]
    /\ handshake \in [Conn -> {"none", "init", "acked"}]
    /\ ops \in [Conn -> SUBSET Operation]
    /\ started \in [Conn -> SUBSET SubId]
    /\ pinged \in [Conn -> BOOLEAN]
    /\ caller \in {"idle", "write", "start"}
    /\ idCount \in FirstId .. FirstId + MaxSubs
    /\ task \in [SubId -> {"none", "pending", "running", "ended", "panicked"}]
    /\ txOf \in [SubId -> Conn]
    /\ channel \in [SubId -> Seq(ServerMessage)]
    /\ completed \in SUBSET SubId

\* However the connections fail, two receivers never run at once: the reconnecter
\* opens a connection only after the receiver of the last one has returned.  With
\* two, one server message could reach the table twice.
OneLiveReceiver ==
    \A g, h \in Conn :
        Receiving(g) /\ Receiving(h) => g = h

\* The receiver is told to die only if no answer was read between the last ping and the
\* timer's look at the flag, and none since the signal: an answer read before the look
\* saves the connection, one read after the signal takes the signal away with it.  One
\* read between the look and the signal does neither.
DieOnlyWhenMissed ==
    \A g \in Conn : die[g] => ~answered[g] /\ sender[g] \in {"closing", "ended"}

\* The flag never says that a ping is unanswered when its answer was read in time, and a
\* timer on its way to the signal has seen no answer.
PingInv ==
    \A g \in Conn : waiting[g] \/ sender[g] = "timedout" => ~answered[g]

StartQueued(g, n) == \E i \in DOMAIN outq[g] : outq[g][i] = Start(UpperHex(n), n)

\* A live subscription whose handle bears the liveness of the connection in use, and
\* which the resend loop therefore passes over, was really asked of that connection: its
\* Start arrived or is in the queue of the sender, whatever the order in which subscribe,
\* the resend loop and the reconnecter touched the handle.  The u8 says so only of a
\* handle stored or visited within the last LivenessMod connections: one that bears an
\* older liveness, equal modulo 2^8, is passed over and not asked for.
NoLostStart ==
    \A n \in subs :
        /\ task[n] = "running"
        /\ Liveness(stamp[n]) = Liveness(current) /\ current - stamp[n] < LivenessMod
        /\ spawned = current /\ sender[current] = "loop" /\ link[current] = "up"
        => n \in started[current] \/ StartQueued(current, n)

\* What every step needs to know of the rest, beside the types: the call in
\* progress owns the last number, and numbers not stored yet have no task.
CallerInv ==
    /\ caller # "idle" => idCount \in SubId
    /\ caller = "write" => task[idCount] = "none"
    /\ caller = "start" => task[idCount] = "pending"
    /\ \A n \in SubId : n > idCount => task[n] = "none"
    /\ \A n \in subs : task[n] # "none"

\* Only the last connection opened has a receiver, and no later one has a task.
ConnInv ==
    /\ current <= spawned
    /\ \A g \in Conn : Receiving(g) => g = spawned
    /\ \A g \in Conn : g > spawned => sender[g] = "none" /\ receiver[g] = "none"

\* process_server_message has a message to process; the handle it waits to remove
\* is still in the table, and its Subscription is gone or got its Complete.
CleanupInv ==
    \A g \in Conn :
        /\ receiver[g] \in {"read", "write"} => message[g] \in ServerMessage
        /\ receiver[g] = "write" =>
               LET n == IdOf(message[g]) IN n \in subs /\ (RxAlive(n) => n \in completed)

\* A subscription the server completed is not asked for again by the resend loop
\* of a connection that works: its handle is gone before that loop can see it.  (So
\* long as ids are read back; else the Complete of a resent operation may go to a
\* handle the loop has still to visit.)
CompletedNeverResent ==
    \A g \in Conn : link[g] = "up" => todo[g] \cap completed = {}

\* A handle leaves the table under a Subscription that still listens only after
\* the server's Complete went to it: no stream is cut off silently.
NoSilentRemoval ==
    \A n \in SubId : RxAlive(n) /\ n \notin subs => n \in completed

\* The inductive invariant: the safety of the table, the calls, the receivers and
\* the keepalive signal, each of which the others' steps rely on.
IInv ==
    /\ TypeOK /\ CallerInv /\ ConnInv
    /\ DieOnlyWhenMissed /\ PingInv /\ CleanupInv /\ NoSilentRemoval

\* What NoLostStart needs of every moment before: a handle stamped by the last
\* connection opened was asked of it, or is by the call of subscribe that stored it.
Stamped == \A n \in SubId : stamp[n] <= spawned

StartInv ==
    \A n \in subs :
        /\ RxAlive(n) /\ stamp[n] = spawned
        /\ RxOutOpen(spawned) /\ link[spawned] = "up"
        => \/ n \in started[spawned] \/ StartQueued(spawned, n)
           \/ task[n] = "pending" /\ current = spawned

\* Every Data in a Subscription's channel bears that Subscription's own id string
\* and the result of its own request: what process_server_message routes by number
\* is what the task accepts by string.
EveryDataIsOurs ==
    \A n \in SubId : \A i \in DOMAIN channel[n] :
        LET m == channel[n][i] IN
        m.variant = "Data" => m.id = UpperHex(n) /\ m.payload = n

\* The ids of the calls modelled lead back to them: what `subscribe` writes is read as
\* the number it was, and the resend loop, where there is one, writes no other string.
IdsReadBack ==
    /\ \A n \in SubId : MessageId(UpperHex(n)) = n
    /\ MaxConns = 1 \/ \A n \in SubId : Decimal(n) = UpperHex(n)

\* Under IdsReadBack, a request and the results of it bear one id from the queue of the
\* sender to the server and back to the receiver.
OwnIds ==
    \A g \in Conn :
        /\ \A i \in DOMAIN outq[g] :
              outq[g][i].type = "start" => outq[g][i].id = UpperHex(outq[g][i].payload)
        /\ \A o \in ops[g] : o.id = UpperHex(o.payload)
        /\ message[g].variant = "Data" => message[g].id = UpperHex(message[g].payload)

\* A connection that is being replaced has lost its socket, and one whose resend loop
\* has not begun was asked of nothing, so that no message of it is about a handle.
LinkGone == \A g \in Conn : g < spawned \/ receiver[g] = "reconnect" => link[g] # "up"

InHand(g) == receiver[g] \in {"read", "write"}

NotBegun ==
    \A g \in Conn : sender[g] \in {"none", "init", "lock"} =>
        ops[g] = {} /\ (InHand(g) => IdOf(message[g]) = NoId)

\* The handles the resend loop has still to visit are those the server of that
\* connection has not heard of.
Unvisited ==
    \A g \in Conn :
        /\ sender[g] # "resend" => todo[g] = {}
        /\ \A o \in ops[g] : MessageId(o.id) \notin todo[g]
        /\ InHand(g) => IdOf(message[g]) \notin todo[g]

\* The one completed handle the table may still hold is that which the receiver of the
\* last connection waits to remove.
CompletedLast ==
    \A n \in completed :
        /\ task[n] # "none"
        /\ n \in subs => receiver[spawned] = "write" /\ IdOf(message[spawned]) = n

\* The inductive invariants of the resumption after a reconnect and, where ids are read
\* back, of what the table hands on.
ResumeInv == IInv /\ Stamped /\ StartInv
RouteInv ==
    /\ ResumeInv /\ OwnIds /\ EveryDataIsOurs
    /\ LinkGone /\ NotBegun /\ Unvisited /\ CompletedLast /\ CompletedNeverResent

\* What the unwrap in `subscribe` asserts: the sender of the connection in the mutex
\* is there to take the Start.
SubscribeNeverPanics == \A n \in SubId : task[n] # "panicked"

\* What the comment on the resend loop says it is for: an operation resumed on a new
\* connection bears an id that leads its messages back to the subscription.
ResumedUnderItsId == \A g \in Conn : \A o \in ops[g] : MessageId(o.id) = o.payload

\* What the timeout is for: while the socket stays open, a receiver told that the
\* PONG did not come gives the connection up.
DieReachesReceiver ==
    \A g \in Conn : die[g] /\ link[g] = "up" ~> receiver[g] = "reconnect" \/ link[g] # "up"

\* A sender whose receiver has returned gives the table's read lock back in the end,
\* even while Subscriptions still hold its tx: two timeouts see to it.
AbandonedSenderLetsGo ==
    \A g \in Conn : receiver[g] \in {"reconnect", "stopped"} ~> g \notin Guards

\* Connection g was asked for n, or need not be, or cannot be.
Served(g, n) == n \in started[g] \/ n \notin subs \/ link[g] # "up" \/ ~RxOutOpen(g)

\* A live subscription in the table when a connection is put in use is asked of it,
\* unless that connection fails first or its sender gives up.
ResumedAfterReconnect ==
    \A g \in Conn, n \in SubId :
        task[n] = "running" /\ n \in subs /\ current = g ~> Served(g, n)

\* A call of subscribe waits for the table for ever only behind the sender of a
\* connection that works: of a failed one the lock comes back.
BlockedOnlyByLiveSender ==
    []<>(caller # "write" \/ \E g \in Guards : link[g] = "up")
=============================================================================
