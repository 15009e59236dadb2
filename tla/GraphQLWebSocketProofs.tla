----------------------- MODULE GraphQLWebSocketProofs -----------------------
(***************************************************************************)
(* Proofs about GraphQLWebSocket, for every number of connections and of   *)
(* subscriptions.                                                          *)
(***************************************************************************)
EXTENDS GraphQLWebSocket, SequenceTheorems, TLAPS

USE ConnsAssumption, IdsAssumption, LivenessAssumption DEF Conn, SubId

LEMMA StartType == \A n \in SubId : /\ Start(UpperHex(n), n) \in ClientMessage
                                    /\ Start(Decimal(n), n) \in ClientMessage
                                    /\ Stop(UpperHex(n)) \in ClientMessage
  BY DEF Start, Stop, ClientMessage, WireId

LEMMA TerminateType == ConnectionTerminate \in ClientMessage
  BY DEF ConnectionTerminate, ClientMessage

\* What a server can send on a connection whose operations are well typed, and
\* the receiver hands on, is a ServerMessage.
LEMMA DecodeType ==
    ASSUME NEW g \in Conn, TypeOK, NEW f \in Frames(g),
           Decode(f).variant \notin {"ConnectionKeepAlive", "Undecodable"}
    PROVE  Decode(f) \in ServerMessage
  <1>1. ops[g] \subseteq Operation
    BY DEF TypeOK
  <1>2. CASE \E o \in ops[g] : f = DataFrame(o)
    <2>1. PICK o \in Operation : f = DataFrame(o)
      BY <1>1, <1>2
    <2>2. Decode(f) = [variant |-> "Data", id |-> o.id, payload |-> o.payload]
      BY <2>1 DEF DataFrame, Decode
    <2>3. o.id \in WireId /\ o.payload \in SubId
      BY <2>1 DEF Operation
    <2> QED
      BY <2>2, <2>3 DEF ServerMessage
  <1>3. CASE f \in [type : {"error", "complete"}, id : {o.id : o \in ops[g]}]
    <2>1. f.type \in {"error", "complete"} /\ f.id \in WireId
      BY <1>1, <1>3 DEF Operation
    <2>2. Decode(f) = IF f.type = "complete" THEN [variant |-> "Complete", id |-> f.id]
                      ELSE [variant |-> "ConnectionError"]
      BY <2>1 DEF Decode
    <2> QED
      BY <2>1, <2>2 DEF ServerMessage
  <1>4. CASE \E t \in {"connection_ack", "ka", "unknown", "pong"} : f = [type |-> t]
    BY <1>4 DEF Decode, ServerMessage, Undecodable
  <1>5. ASSUME NEW T, f \in [type : T], T \subseteq {"connection_ack", "ka", "unknown", "pong"}
        PROVE  \E t \in {"connection_ack", "ka", "unknown", "pong"} : f = [type |-> t]
    BY <1>5
  <1> QED
    BY <1>2, <1>3, <1>4, <1>5 DEF Frames

LEMMA TypeInit == Init => TypeOK
  BY DEF Init, TypeOK

LEMMA PutType ==
    ASSUME TypeOK, NEW g \in Conn, NEW m \in ClientMessage, Put(g, m)
    PROVE  /\ ops' \in [Conn -> SUBSET Operation]
           /\ started' \in [Conn -> SUBSET SubId]
           /\ link' \in [Conn -> {"up", "reset", "closed"}]
  <1>0. ops[g] \in SUBSET Operation
    BY DEF TypeOK
  <1>1. After(ops[g], m) \in SUBSET Operation
    <2>1. CASE m \in [type : {"start"}, id : WireId, payload : SubId]
      <3>1. After(ops[g], m) = Without(ops[g], m.id) \cup {[id |-> m.id, payload |-> m.payload]}
        BY <2>1 DEF After
      <3> QED
        BY <1>0, <2>1, <3>1 DEF Without, Operation
    <2>2. CASE m \in [type : {"stop"}, id : WireId]
      <3>1. After(ops[g], m) = Without(ops[g], m.id)
        BY <2>2 DEF After
      <3> QED
        BY <1>0, <3>1 DEF Without
    <2>3. CASE m \in [type : {"connection_terminate"}]
      <3>1. After(ops[g], m) = {}
        BY <2>3 DEF After
      <3> QED
        BY <3>1
    <2> QED
      BY <2>1, <2>2, <2>3 DEF ClientMessage
  <1>2. m.type = "start" => m.payload \in SubId
    BY DEF ClientMessage
  <1> QED
    BY <1>1, <1>2 DEF TypeOK, Put

LEMMA EmitType ==
    ASSUME TypeOK, NEW g \in Conn, NEW f, Emit(g, f)
    PROVE  /\ handshake' \in [Conn -> {"none", "init", "acked"}]
           /\ ops' \in [Conn -> SUBSET Operation]
           /\ pinged' \in [Conn -> BOOLEAN]
           /\ UNCHANGED <<link, started>>
  BY DEF TypeOK, Emit, Without

LEMMA DisconnectType ==
    ASSUME TypeOK, NEW g \in Conn, NEW how \in {"up", "reset", "closed"}, Disconnect(g, how)
    PROVE  /\ link' \in [Conn -> {"up", "reset", "closed"}]
           /\ handshake' \in [Conn -> {"none", "init", "acked"}]
           /\ ops' \in [Conn -> SUBSET Operation]
           /\ started' \in [Conn -> SUBSET SubId]
           /\ pinged' \in [Conn -> BOOLEAN]
  BY DEF TypeOK, Disconnect

LEMMA IterationType ==
    ASSUME TypeOK, NEW g \in Conn, NextIteration(g)
    PROVE  /\ receiver' \in [Conn -> {"none", "select", "read", "write", "reconnect", "stopped"}]
           /\ message' \in [Conn -> ServerMessage \cup {NoMessage}]
           /\ die' \in [Conn -> BOOLEAN]
  BY DEF TypeOK, NextIteration

LEMMA SendToType ==
    ASSUME TypeOK, NEW ns, NEW m \in ServerMessage, SendTo(ns, m)
    PROVE  channel' \in [SubId -> Seq(ServerMessage)]
  BY DEF TypeOK, SendTo

LEMMA EmptyType == <<>> \in Seq(ClientMessage) /\ <<>> \in Seq(ServerMessage)
  OBVIOUS

LEMMA WaiterType == \A g \in Conn : {Sender(g), Receiver(g), Caller} \subseteq Waiter
  BY DEF Waiter

LEMMA AwaitType ==
    ASSUME TypeOK, NEW w \in Waiter, Await(w)
    PROVE  queue' \in Seq(Waiter)
  BY DEF TypeOK, Await

LEMMA TakesType ==
    ASSUME TypeOK, NEW w, TakesRead(w) \/ TakesWrite(w)
    PROVE  queue' \in Seq(Waiter)
  <1>1. queue \in Seq(Waiter) /\ queue # <<>> /\ queue' = Tail(queue)
    BY DEF TypeOK, TakesRead, TakesWrite, FirstInLine
  <1> QED
    BY <1>1, HeadTailProperties

LEMMA RemoveAtType ==
    ASSUME NEW S, NEW s \in Seq(S), NEW i \in DOMAIN s
    PROVE  RemoveAt(s, i) \in Seq(S)
  <1>1. SubSeq(s, 1, i - 1) \in Seq(S)
    BY SubSeqProperties
  <1>2. SubSeq(s, i + 1, Len(s)) \in Seq(S)
    BY SubSeqProperties
  <1> QED
    BY <1>1, <1>2 DEF RemoveAt

LEMMA SubsType == TypeOK => subs \in SUBSET SubId /\ idCount \in Nat
  BY DEF TypeOK

\* A message in the table's hands is a real one.
LEMMA ReceiverType ==
    ASSUME TypeOK, CleanupInv, NEW g \in Conn, ReceiverStep(g)
    PROVE  TypeOK'
  <1>1. CASE ReceiverDie(g)
    <2>1. Disconnect(g, IF link[g] = "up" THEN "closed" ELSE link[g])
      BY <1>1 DEF ReceiverDie
    <2>2. (IF link[g] = "up" THEN "closed" ELSE link[g]) \in {"up", "reset", "closed"}
      BY DEF TypeOK
    <2>3. /\ receiver' \in [Conn -> {"none", "select", "read", "write", "reconnect", "stopped"}]
          /\ die' \in [Conn -> BOOLEAN] /\ message' = message
      BY <1>1 DEF ReceiverDie, Return, TypeOK
    <2>4. /\ link' \in [Conn -> {"up", "reset", "closed"}]
          /\ handshake' \in [Conn -> {"none", "init", "acked"}]
          /\ ops' \in [Conn -> SUBSET Operation]
          /\ started' \in [Conn -> SUBSET SubId]
          /\ pinged' \in [Conn -> BOOLEAN]
      BY <2>1, <2>2, DisconnectType
    <2> QED
      BY <1>1, <2>3, <2>4
      DEF TypeOK, ReceiverDie, tableVars, connVars, senderVars, callerVars, taskVars
  <1>2. CASE ReceiverEnd(g)
    BY <1>2 DEF TypeOK, ReceiverEnd, Return, tableVars, connVars, senderVars, netVars,
                callerVars, taskVars
  <1>3. CASE ReceiverKeepAlive(g)
    <2>1. PICK f \in Frames(g) : Emit(g, f)
      BY <1>3 DEF ReceiverKeepAlive
    <2>2. /\ waiting' \in [Conn -> BOOLEAN] /\ answered' \in [Conn -> BOOLEAN]
          /\ NextIteration(g)
      BY <1>3 DEF ReceiverKeepAlive, TypeOK
    <2> QED
      BY <1>3, <2>1, <2>2, EmitType, IterationType
      DEF TypeOK, ReceiverKeepAlive, tableVars, connVars, callerVars, taskVars
  <1>4. CASE ReceiverUndecodable(g)
    <2>1. PICK f \in Frames(g) : Emit(g, f)
      BY <1>4 DEF ReceiverUndecodable
    <2>2. NextIteration(g)
      BY <1>4 DEF ReceiverUndecodable
    <2> QED
      BY <1>4, <2>1, <2>2, EmitType, IterationType
      DEF TypeOK, ReceiverUndecodable, tableVars, connVars, senderVars, callerVars, taskVars
  <1>5. CASE ReceiverMessage(g)
    <2>1. PICK f \in Frames(g) : /\ Decode(f).variant \notin {"ConnectionKeepAlive", "Undecodable"}
                                 /\ Emit(g, f)
                                 /\ message' = [message EXCEPT ![g] = Decode(f)]
      BY <1>5 DEF ReceiverMessage
    <2>2. message' \in [Conn -> ServerMessage \cup {NoMessage}]
      BY <2>1, DecodeType DEF TypeOK
    <2>3. queue' \in Seq(Waiter)
      BY <1>5, AwaitType, WaiterType DEF ReceiverMessage
    <2>4. receiver' \in [Conn -> {"none", "select", "read", "write", "reconnect", "stopped"}]
      BY <1>5 DEF ReceiverMessage, TypeOK
    <2> QED
      BY <1>5, <2>1, <2>2, <2>3, <2>4, EmitType
      DEF TypeOK, ReceiverMessage, connVars, senderVars, callerVars, taskVars
  <1>6. CASE ReceiverDispatch(g)
    <2> DEFINE n == IdOf(message[g])
    <2>1. message[g] \in ServerMessage
      BY <1>6 DEF ReceiverDispatch, CleanupInv
    <2>2. channel' \in [SubId -> Seq(ServerMessage)]
      BY <1>6, <2>1, SendToType DEF ReceiverDispatch
    <2>3. completed' \in SUBSET SubId
      BY <1>6, SubsType DEF ReceiverDispatch, TypeOK
    <2>4. /\ receiver' \in [Conn -> {"none", "select", "read", "write", "reconnect", "stopped"}]
          /\ message' \in [Conn -> ServerMessage \cup {NoMessage}]
          /\ die' \in [Conn -> BOOLEAN]
      BY <1>6, IterationType DEF ReceiverDispatch, TypeOK
    <2>5. queue' \in Seq(Waiter)
      <3>1. queue \in Seq(Waiter) /\ queue # <<>> /\ Receiver(g) \in Waiter
        BY <1>6, WaiterType DEF ReceiverDispatch, TypeOK, FirstInLine
      <3>2. Tail(queue) \in Seq(Waiter)
        BY <3>1, HeadTailProperties
      <3>3. Append(Tail(queue), Receiver(g)) \in Seq(Waiter)
        BY <3>1, <3>2
      <3> QED
        BY <1>6, <3>2, <3>3 DEF ReceiverDispatch
    <2> QED
      BY <1>6, <2>2, <2>3, <2>4, <2>5
      DEF TypeOK, ReceiverDispatch, connVars, senderVars, netVars, callerVars
  <1>7. CASE ReceiverBroadcast(g)
    <2>1. message[g] \in ServerMessage
      BY <1>7 DEF ReceiverBroadcast, CleanupInv
    <2>2. channel' \in [SubId -> Seq(ServerMessage)]
      BY <1>7, <2>1, SendToType DEF ReceiverBroadcast
    <2>3. queue' \in Seq(Waiter) /\ NextIteration(g)
      BY <1>7, TakesType DEF ReceiverBroadcast
    <2> QED
      BY <1>7, <2>2, <2>3, IterationType
      DEF TypeOK, ReceiverBroadcast, connVars, senderVars, netVars, callerVars
  <1>8. CASE ReceiverCleanup(g)
    <2>1. queue' \in Seq(Waiter) /\ NextIteration(g)
      BY <1>8, TakesType DEF ReceiverCleanup
    <2>2. subs' \in SUBSET (FirstId + 1 .. idCount')
      BY <1>8 DEF ReceiverCleanup, TypeOK, callerVars
    <2>3. stamp' \in [SubId -> Conn]
      <3>1. 0 \in Conn
        OBVIOUS
      <3> QED
        BY <1>8, <3>1 DEF ReceiverCleanup, TypeOK
    <2> QED
      BY <1>8, <2>1, <2>2, <2>3, IterationType
      DEF TypeOK, ReceiverCleanup, connVars, senderVars, netVars, callerVars, taskVars
  <1> QED
    BY <1>1, <1>2, <1>3, <1>4, <1>5, <1>6, <1>7, <1>8 DEF ReceiverStep

LEMMA SenderType ==
    ASSUME TypeOK, ConnInv, NEW g \in Conn, SenderStep(g)
    PROVE  TypeOK'
  <1> USE WaiterType
  <1>1. CASE SenderInit(g)
    <2>1. queue' \in Seq(Waiter)
      BY <1>1, AwaitType DEF SenderInit
    <2> QED
      BY <1>1, <2>1 DEF TypeOK, SenderInit, connVars, receiverVars, callerVars, taskVars
  <1>2. CASE SenderPanic(g)
    <2>1. outq' \in [Conn -> Seq(ClientMessage)]
      BY <1>2, EmptyType DEF TypeOK, SenderPanic
    <2> QED
      BY <1>2, <2>1
      DEF TypeOK, SenderPanic, tableVars, connVars, receiverVars, netVars, callerVars, taskVars
  <1>3. CASE SenderLock(g)
    <2>1. queue' \in Seq(Waiter)
      BY <1>3, TakesType DEF SenderLock
    <2>2. todo' \in [Conn -> SUBSET SubId]
      BY <1>3, SubsType DEF SenderLock, TypeOK
    <2> QED
      BY <1>3, <2>1, <2>2
      DEF TypeOK, SenderLock, connVars, receiverVars, netVars, callerVars, taskVars
  <1>4. ASSUME NEW n \in SubId, SenderResend(g, n)
        PROVE  TypeOK'
    <2>1. Start(Decimal(n), n) \in ClientMessage
      BY StartType
    <2>2. /\ ops' \in [Conn -> SUBSET Operation]
          /\ started' \in [Conn -> SUBSET SubId]
          /\ link' \in [Conn -> {"up", "reset", "closed"}]
      <3>1. CASE Put(g, Start(Decimal(n), n))
        BY <2>1, <3>1, PutType
      <3>2. CASE UNCHANGED <<stamp, link, ops, started>>
        BY <3>2 DEF TypeOK
      <3> QED
        BY <1>4, <3>1, <3>2 DEF SenderResend
    <2>3. stamp' \in [SubId -> Conn]
      BY <1>4 DEF SenderResend, TypeOK
    <2>4. todo' \in [Conn -> SUBSET SubId]
      BY <1>4 DEF SenderResend, TypeOK
    <2> QED
      BY <1>4, <2>2, <2>3, <2>4
      DEF TypeOK, SenderResend, connVars, receiverVars, callerVars, taskVars
  <1>5. CASE SenderSend(g)
    <2>1. outq[g] \in Seq(ClientMessage) /\ outq[g] # <<>>
      BY <1>5 DEF SenderSend, TypeOK
    <2>2. Head(outq[g]) \in ClientMessage /\ Tail(outq[g]) \in Seq(ClientMessage)
      BY <2>1, HeadTailProperties
    <2>3. outq' \in [Conn -> Seq(ClientMessage)]
      BY <1>5, <2>2 DEF SenderSend, TypeOK
    <2>4. /\ ops' \in [Conn -> SUBSET Operation]
          /\ started' \in [Conn -> SUBSET SubId]
          /\ link' \in [Conn -> {"up", "reset", "closed"}]
      BY <1>5, <2>2, PutType DEF SenderSend
    <2> QED
      BY <1>5, <2>3, <2>4
      DEF TypeOK, SenderSend, tableVars, connVars, receiverVars, callerVars, taskVars
  <1>6. CASE SenderClosed(g)
    BY <1>6 DEF TypeOK, SenderClosed, tableVars, connVars, receiverVars, netVars, callerVars,
                taskVars
  <1>7. CASE SenderPing(g)
    BY <1>7 DEF TypeOK, SenderPing, tableVars, connVars, receiverVars, callerVars, taskVars
  <1>8. CASE SenderTimer(g) \/ SenderTimeout(g)
    <2>1. CASE SenderTimer(g)
      BY <2>1 DEF TypeOK, SenderTimer, tableVars, connVars, receiverVars, netVars, callerVars,
                  taskVars
    <2>2. CASE SenderTimeout(g)
      BY <2>2 DEF TypeOK, SenderTimeout, tableVars, connVars, receiverVars, netVars, callerVars,
                  taskVars
    <2> QED
      BY <1>8, <2>1, <2>2
  <1>9. CASE SenderEnd(g)
    <2>1. outq' \in [Conn -> Seq(ClientMessage)]
      BY <1>9, EmptyType DEF TypeOK, SenderEnd
    <2> QED
      BY <1>9, <2>1
      DEF TypeOK, SenderEnd, tableVars, connVars, receiverVars, netVars, callerVars, taskVars
  <1> QED
    BY <1>1, <1>2, <1>3, <1>4, <1>5, <1>6, <1>7, <1>8, <1>9 DEF SenderStep

\* Whatever RxOutOpen says, a well-typed message may join a well-typed rx_out.
LEMMA OutqType ==
    ASSUME TypeOK, NEW g \in Conn, NEW m \in ClientMessage,
           outq' = IF RxOutOpen(g) THEN [outq EXCEPT ![g] = Append(@, m)] ELSE outq
    PROVE  outq' \in [Conn -> Seq(ClientMessage)]
  <1>1. Append(outq[g], m) \in Seq(ClientMessage)
    BY DEF TypeOK
  <1> QED
    BY <1>1 DEF TypeOK

LEMMA ReconnectType ==
    ASSUME TypeOK, \/ ReconnectSwap
                   \/ \E g \in Conn : LinkDown(g) \/ ReconnectNew(g)
    PROVE  TypeOK'
  <1>1. ASSUME NEW g \in Conn, LinkDown(g)
        PROVE  TypeOK'
    <2>1. PICK how \in {"reset", "closed"} : Disconnect(g, how)
      BY <1>1 DEF LinkDown
    <2>2. /\ link' \in [Conn -> {"up", "reset", "closed"}]
          /\ handshake' \in [Conn -> {"none", "init", "acked"}]
          /\ ops' \in [Conn -> SUBSET Operation]
          /\ started' \in [Conn -> SUBSET SubId]
          /\ pinged' \in [Conn -> BOOLEAN]
      BY <2>1, DisconnectType
    <2> QED
      BY <1>1, <2>2
      DEF TypeOK, LinkDown, tableVars, connVars, senderVars, receiverVars, callerVars, taskVars
  <1>2. ASSUME NEW g \in Conn, ReconnectNew(g)
        PROVE  TypeOK'
    BY <1>2 DEF TypeOK, ReconnectNew, tableVars, netVars, callerVars, taskVars
  <1>3. CASE ReconnectSwap
    <2>1. outq' \in [Conn -> Seq(ClientMessage)]
      <3>1. current \in Conn
        BY DEF TypeOK
      <3> QED
        BY <1>3, <3>1, TerminateType, OutqType DEF ReconnectSwap
    <2> QED
      BY <1>3, <2>1
      DEF TypeOK, ReconnectSwap, tableVars, receiverVars, netVars, callerVars, taskVars
  <1> QED
    BY <1>1, <1>2, <1>3

LEMMA SubscribeType ==
    ASSUME TypeOK, CallerInv, SubscribeStep
    PROVE  TypeOK'
  <1>0. current \in Conn /\ subs \subseteq SubId /\ idCount \in Nat
    BY SubsType DEF TypeOK
  <1>1. CASE SubscribeCall
    <2>1. queue' \in Seq(Waiter)
      BY <1>1, AwaitType DEF SubscribeCall, Waiter
    <2>2. /\ subs' \in SUBSET (FirstId + 1 .. idCount')
          /\ idCount' \in FirstId .. FirstId + MaxSubs
      BY <1>1 DEF SubscribeCall, TypeOK
    <2> QED
      BY <1>1, <2>1, <2>2
      DEF TypeOK, SubscribeCall, connVars, senderVars, receiverVars, netVars, taskVars
  <1>2. CASE SubscribeCancel
    <2>1. queue' \in Seq(Waiter)
      BY <1>2, RemoveAtType DEF SubscribeCancel, TypeOK
    <2> QED
      BY <1>2, <2>1
      DEF TypeOK, SubscribeCancel, connVars, senderVars, receiverVars, netVars, taskVars
  <1>3. CASE SubscribeInsert
    <2>1. queue' \in Seq(Waiter)
      BY <1>3, TakesType DEF SubscribeInsert
    <2>2. idCount \in SubId
      BY <1>3 DEF SubscribeInsert, CallerInv
    <2>3. subs' \in SUBSET (FirstId + 1 .. idCount')
      <3>1. idCount \in FirstId + 1 .. idCount
        BY <2>2
      <3>2. subs \subseteq FirstId + 1 .. idCount /\ idCount' = idCount
        BY <1>3 DEF TypeOK, SubscribeInsert
      <3> QED
        BY <1>3, <3>1, <3>2 DEF SubscribeInsert
    <2>4. stamp' \in [SubId -> Conn]
      BY <1>0, <1>3, <2>2 DEF SubscribeInsert, TypeOK
    <2> QED
      BY <1>3, <2>1, <2>3, <2>4
      DEF TypeOK, SubscribeInsert, connVars, senderVars, receiverVars, netVars
  <1>4. CASE SubscribeStart
    <2>1. idCount \in SubId
      BY <1>4 DEF SubscribeStart, CallerInv
    <2>2. outq' \in [Conn -> Seq(ClientMessage)]
      BY <1>0, <1>4, <2>1, StartType, OutqType DEF SubscribeStart
    <2>3. txOf' \in [SubId -> Conn]
      BY <1>0, <1>4 DEF SubscribeStart, TypeOK
    <2> QED
      BY <1>4, <2>2, <2>3
      DEF TypeOK, SubscribeStart, tableVars, connVars, receiverVars, netVars
  <1>5. CASE SubscribePanic
    <2>1. /\ task' \in [SubId -> {"none", "pending", "running", "ended", "panicked"}]
          /\ channel' \in [SubId -> Seq(ServerMessage)]
      BY <1>5, EmptyType DEF TypeOK, SubscribePanic
    <2> QED
      BY <1>5, <2>1
      DEF TypeOK, SubscribePanic, tableVars, connVars, senderVars, receiverVars, netVars
  <1> QED
    BY <1>1, <1>2, <1>3, <1>4, <1>5 DEF SubscribeStep

LEMMA TaskType ==
    ASSUME TypeOK, NEW n \in SubId, TaskItem(n) \/ TaskEnd(n)
    PROVE  TypeOK'
  <1>1. CASE TaskItem(n)
    <2>1. Tail(channel[n]) \in Seq(ServerMessage)
      BY <1>1, HeadTailProperties DEF TaskItem, TypeOK
    <2>2. channel' \in [SubId -> Seq(ServerMessage)]
      BY <1>1, <2>1 DEF TaskItem, TypeOK
    <2> QED
      BY <1>1, <2>2
      DEF TypeOK, TaskItem, tableVars, connVars, senderVars, receiverVars, netVars, callerVars
  <1>2. CASE TaskEnd(n)
    <2>1. txOf[n] \in Conn
      BY DEF TypeOK
    <2>2. outq' \in [Conn -> Seq(ClientMessage)]
      BY <1>2, <2>1, StartType, OutqType DEF TaskEnd, Drop
    <2>3. /\ task' \in [SubId -> {"none", "pending", "running", "ended", "panicked"}]
          /\ channel' \in [SubId -> Seq(ServerMessage)]
          /\ txOf' \in [SubId -> Conn]
      <3>1. 0 \in Conn
        OBVIOUS
      <3> QED
        BY <1>2, <3>1, EmptyType DEF TaskEnd, Drop, TypeOK
    <2> QED
      BY <1>2, <2>2, <2>3
      DEF TypeOK, TaskEnd, tableVars, connVars, receiverVars, netVars, callerVars
  <1> QED
    BY <1>1, <1>2

LEMMA TypeNext ==
    ASSUME TypeOK, CallerInv, ConnInv, CleanupInv, [Next]_vars
    PROVE  TypeOK'
  <1>1. CASE UNCHANGED vars
    BY <1>1 DEF TypeOK, vars, tableVars, connVars, senderVars, receiverVars, netVars,
                callerVars, taskVars
  <1> QED
    BY <1>1, ReceiverType, SenderType, ReconnectType, SubscribeType, TaskType DEF Next

-----------------------------------------------------------------------------
\* What the steps of one kind of task leave alone of the others' state.
LEMMA ReceiverFrame ==
    ASSUME NEW g \in Conn, ReceiverStep(g)
    PROVE  /\ UNCHANGED <<current, spawned, sender, caller, idCount, task, txOf>>
           /\ subs' \subseteq subs
  BY DEF ReceiverStep, ReceiverDie, ReceiverEnd, ReceiverKeepAlive, ReceiverUndecodable,
         ReceiverMessage, ReceiverDispatch, ReceiverBroadcast, ReceiverCleanup, tableVars,
         connVars, senderVars, callerVars, taskVars

LEMMA SenderFrame ==
    ASSUME NEW g \in Conn, SenderStep(g)
    PROVE  UNCHANGED <<subs, current, spawned, receiver, message, caller, idCount, taskVars>>
  BY DEF SenderStep, SenderInit, SenderPanic, SenderLock, SenderResend, SenderSend,
         SenderClosed, SenderPing, SenderTimer, SenderTimeout, SenderEnd, tableVars, connVars,
         receiverVars, callerVars, taskVars

LEMMA ReconnectFrame ==
    ASSUME \/ ReconnectSwap
           \/ \E g \in Conn : LinkDown(g) \/ ReconnectNew(g)
    PROVE  UNCHANGED <<tableVars, message, die, waiting, answered, callerVars, taskVars>>
  BY DEF ReconnectSwap, LinkDown, ReconnectNew, tableVars, senderVars, receiverVars,
         callerVars, taskVars

LEMMA SubscribeFrame ==
    ASSUME SubscribeStep
    PROVE  UNCHANGED <<connVars, sender, waiting, answered, receiverVars, netVars, completed>>
  BY DEF SubscribeStep, SubscribeCall, SubscribeCancel, SubscribeInsert, SubscribeStart,
         SubscribePanic, senderVars, taskVars

LEMMA TaskFrame ==
    ASSUME NEW n \in SubId, TaskItem(n) \/ TaskEnd(n)
    PROVE  /\ UNCHANGED <<tableVars, connVars, sender, waiting, answered, receiverVars, callerVars,
                          completed>>
           /\ \/ task' = task
              \/ task[n] = "running" /\ task' = [task EXCEPT ![n] = "ended"]
  BY DEF TaskItem, TaskEnd, Drop, senderVars, taskVars

-----------------------------------------------------------------------------
\* The call in progress owns the last number handed out.
LEMMA CallerNext ==
    ASSUME TypeOK, CallerInv, [Next]_vars
    PROVE  CallerInv'
  <1>0. /\ task \in [SubId -> {"none", "pending", "running", "ended", "panicked"}]
        /\ idCount \in Nat /\ subs \subseteq SubId
    BY SubsType DEF TypeOK
  <1>1. ASSUME UNCHANGED <<caller, idCount, task>>, subs' \subseteq subs
        PROVE  CallerInv'
    BY <1>1 DEF CallerInv
  <1>2. ASSUME NEW g \in Conn, ReceiverStep(g) \/ SenderStep(g)
        PROVE  CallerInv'
    BY <1>1, <1>2, ReceiverFrame, SenderFrame DEF taskVars
  <1>3. ASSUME \/ ReconnectSwap
               \/ \E g \in Conn : LinkDown(g) \/ ReconnectNew(g)
        PROVE  CallerInv'
    BY <1>1, <1>3, ReconnectFrame DEF tableVars, callerVars, taskVars
  <1>4. CASE SubscribeCall
    BY <1>0, <1>4 DEF CallerInv, SubscribeCall, taskVars
  <1>5. CASE SubscribeCancel
    BY <1>0, <1>5 DEF CallerInv, SubscribeCancel, taskVars
  <1>6. CASE SubscribeInsert
    BY <1>0, <1>6 DEF CallerInv, SubscribeInsert
  <1>7. CASE SubscribeStart
    BY <1>0, <1>7 DEF CallerInv, SubscribeStart, tableVars
  <1>8. CASE SubscribePanic
    BY <1>0, <1>8 DEF CallerInv, SubscribePanic, tableVars
  <1>9. ASSUME NEW n \in SubId, TaskItem(n) \/ TaskEnd(n)
        PROVE  CallerInv'
    <2>1. UNCHANGED <<caller, idCount, subs>>
      BY <1>9, TaskFrame DEF tableVars, callerVars
    <2>2. CASE task' = task
      BY <2>1, <2>2 DEF CallerInv
    <2>3. CASE task[n] = "running" /\ task' = [task EXCEPT ![n] = "ended"]
      BY <1>0, <2>1, <2>3 DEF CallerInv
    <2> QED
      BY <1>9, <2>2, <2>3, TaskFrame
  <1>10. CASE UNCHANGED vars
    BY <1>1, <1>10 DEF vars, tableVars, callerVars, taskVars
  <1> QED
    BY <1>2, <1>3, <1>4, <1>5, <1>6, <1>7, <1>8, <1>9, <1>10 DEF Next, SubscribeStep

\* A receiver comes to life only as that of a new connection.
LEMMA ConnNext ==
    ASSUME TypeOK, ConnInv, [Next]_vars
    PROVE  ConnInv'
  <1>0. /\ current \in Conn /\ spawned \in Conn
        /\ sender \in [Conn -> {"none", "init", "lock", "resend", "loop", "timedout",
                                "closing", "ended", "panicked"}]
        /\ receiver \in [Conn -> {"none", "select", "read", "write", "reconnect", "stopped"}]
    BY DEF TypeOK
  <1>1. ASSUME NEW g \in Conn, ReceiverStep(g)
        PROVE  ConnInv'
    <2>1. Receiving(g) /\ \A h \in Conn : h # g => receiver'[h] = receiver[h]
      BY <1>0, <1>1 DEF Receiving, ReceiverStep, ReceiverDie, ReceiverEnd, ReceiverKeepAlive,
                  ReceiverUndecodable, ReceiverMessage, ReceiverDispatch, ReceiverBroadcast,
                  ReceiverCleanup, Return, NextIteration
    <2>2. UNCHANGED <<current, spawned, sender>>
      BY <1>1, ReceiverFrame
    <2> QED
      BY <1>0, <2>1, <2>2 DEF ConnInv, Receiving
  <1>2. ASSUME NEW g \in Conn, SenderStep(g)
        PROVE  ConnInv'
    <2>1. sender[g] # "none"
      BY <1>2 DEF SenderStep, SenderInit, SenderPanic, SenderLock, SenderResend, SenderSend,
                  SenderClosed, SenderPing, SenderTimer, SenderTimeout, SenderEnd
    <2>2. \A h \in Conn : h # g => sender'[h] = sender[h]
      BY <1>0, <1>2 DEF SenderStep, SenderInit, SenderPanic, SenderLock, SenderResend, SenderSend,
                  SenderClosed, SenderPing, SenderTimer, SenderTimeout, SenderEnd
    <2>3. UNCHANGED <<current, spawned, receiver>>
      BY <1>2, SenderFrame
    <2> QED
      BY <1>0, <2>1, <2>2, <2>3 DEF ConnInv, Receiving
  <1>3. ASSUME NEW g \in Conn, LinkDown(g)
        PROVE  ConnInv'
    BY <1>3 DEF LinkDown, ConnInv, Receiving, connVars, senderVars, receiverVars
  <1>4. ASSUME NEW g \in Conn, ReconnectNew(g)
        PROVE  ConnInv'
    BY <1>0, <1>4 DEF ReconnectNew, ConnInv, Receiving
  <1>5. CASE ReconnectSwap
    BY <1>0, <1>5 DEF ReconnectSwap, ConnInv, Receiving, receiverVars
  <1>6. CASE SubscribeStep
    BY <1>6, SubscribeFrame DEF ConnInv, Receiving, connVars, receiverVars
  <1>7. ASSUME NEW n \in SubId, TaskItem(n) \/ TaskEnd(n)
        PROVE  ConnInv'
    BY <1>7, TaskFrame DEF ConnInv, Receiving, connVars, receiverVars
  <1>8. CASE UNCHANGED vars
    BY <1>8 DEF ConnInv, Receiving, vars, connVars, senderVars, receiverVars
  <1> QED
    BY <1>1, <1>2, <1>3, <1>4, <1>5, <1>6, <1>7, <1>8 DEF Next

-----------------------------------------------------------------------------
\* The flag is only up while no answer was read, and a signal waits only where the timer
\* found none and none came since.
LEMMA DieNext ==
    ASSUME TypeOK, ConnInv, DieOnlyWhenMissed, PingInv, [Next]_vars
    PROVE  DieOnlyWhenMissed' /\ PingInv'
  <1> DEFINE Ok(d, a, w, s) ==
                 /\ d => ~a /\ s \in {"closing", "ended"}
                 /\ w \/ s = "timedout" => ~a
  <1> SUFFICES ASSUME NEW h \in Conn
               PROVE  Ok(die'[h], answered'[h], waiting'[h], sender'[h])
    BY DEF DieOnlyWhenMissed, PingInv
  <1>0. /\ waiting \in [Conn -> BOOLEAN] /\ die \in [Conn -> BOOLEAN]
        /\ answered \in [Conn -> BOOLEAN]
        /\ sender \in [Conn -> {"none", "init", "lock", "resend", "loop", "timedout",
                                "closing", "ended", "panicked"}]
    BY DEF TypeOK
  <1>1. Ok(die[h], answered[h], waiting[h], sender[h])
    BY DEF DieOnlyWhenMissed, PingInv
  <1>2. CASE UNCHANGED <<die[h], answered[h], waiting[h], sender[h]>>
    BY <1>1, <1>2
  <1>3. ASSUME NEW g \in Conn, ReceiverStep(g)
        PROVE  Ok(die'[h], answered'[h], waiting'[h], sender'[h])
    <2>1. sender' = sender
      BY <1>3, ReceiverFrame
    <2>2. CASE ReceiverKeepAlive(g)
      <3>1. /\ die' = [die EXCEPT ![g] = FALSE] /\ waiting' = [waiting EXCEPT ![g] = FALSE]
            /\ answered' = [answered EXCEPT ![g] = @ \/ sender[g] # "timedout"]
        BY <2>2 DEF ReceiverKeepAlive, NextIteration
      <3>2. CASE h # g
        BY <1>0, <1>1, <2>1, <3>1, <3>2
      <3>3. CASE h = g
        <4>1. ~die'[h] /\ ~waiting'[h]
          BY <1>0, <3>1, <3>3
        <4>2. CASE sender[g] = "timedout"
          <5>1. ~answered[h]
            BY <1>1, <3>3, <4>2
          <5>2. answered'[h] = FALSE
            BY <1>0, <3>1, <3>3, <4>2, <5>1
          <5> QED
            BY <4>1, <5>2
        <4>3. CASE sender[g] # "timedout"
          BY <2>1, <3>3, <4>1, <4>3
        <4> QED
          BY <4>2, <4>3
      <3> QED
        BY <3>2, <3>3
    <2>3. CASE ~ReceiverKeepAlive(g)
      <3>1. UNCHANGED <<waiting, answered>> /\ (die' = die \/ die' = [die EXCEPT ![g] = FALSE])
        BY <1>3, <2>3
        DEF ReceiverStep, ReceiverDie, ReceiverEnd, ReceiverUndecodable, ReceiverMessage,
            ReceiverDispatch, ReceiverBroadcast, ReceiverCleanup, Return, NextIteration,
            senderVars
      <3> QED
        BY <1>0, <1>1, <2>1, <3>1
    <2> QED
      BY <2>2, <2>3
  <1>4. ASSUME NEW g \in Conn, SenderStep(g)
        PROVE  Ok(die'[h], answered'[h], waiting'[h], sender'[h])
    <2>1. CASE SenderTimer(g)
      BY <1>0, <1>1, <2>1 DEF SenderTimer, receiverVars
    <2>2. CASE SenderTimeout(g)
      BY <1>0, <1>1, <2>2 DEF SenderTimeout
    <2>3. CASE SenderPing(g)
      BY <1>0, <1>1, <2>3 DEF SenderPing, receiverVars
    <2>4. CASE SenderEnd(g)
      BY <1>0, <1>1, <2>4 DEF SenderEnd, receiverVars
    <2>5. CASE SenderInit(g) \/ SenderPanic(g) \/ SenderLock(g) \/ SenderClosed(g)
      BY <1>0, <1>1, <2>5 DEF SenderInit, SenderPanic, SenderLock, SenderClosed, receiverVars
    <2>6. CASE SenderSend(g) \/ \E n \in SubId : SenderResend(g, n)
      BY <1>0, <1>1, <2>6 DEF SenderSend, SenderResend, receiverVars
    <2> QED
      BY <1>4, <2>1, <2>2, <2>3, <2>4, <2>5, <2>6 DEF SenderStep
  <1>5. ASSUME NEW g \in Conn, ReconnectNew(g)
        PROVE  Ok(die'[h], answered'[h], waiting'[h], sender'[h])
    <2>1. /\ g + 1 \in Conn /\ g + 1 > spawned /\ UNCHANGED <<die, answered, waiting>>
          /\ sender' = [sender EXCEPT ![g + 1] = "init"]
      BY <1>5 DEF ReconnectNew
    <2>2. sender[g + 1] = "none" /\ ~die[g + 1]
      BY <2>1 DEF ConnInv, DieOnlyWhenMissed
    <2> QED
      BY <1>0, <1>1, <2>1, <2>2
  <1>6. ASSUME \/ ReconnectSwap \/ SubscribeStep \/ UNCHANGED vars
               \/ \E g \in Conn : LinkDown(g)
               \/ \E n \in SubId : TaskItem(n) \/ TaskEnd(n)
        PROVE  UNCHANGED <<die, answered, waiting, sender>>
    BY <1>6, SubscribeFrame, TaskFrame
    DEF ReconnectSwap, LinkDown, vars, senderVars, receiverVars
  <1> QED
    BY <1>2, <1>3, <1>4, <1>5, <1>6 DEF Next

-----------------------------------------------------------------------------
\* Which Subscriptions listen, and how a step may change that: only the insert by
\* `subscribe` makes one.
LEMMA AliveNext ==
    ASSUME TypeOK, CallerInv, [Next]_vars, NEW n \in SubId,
           task'[n] \in {"pending", "running"}
    PROVE  \/ RxAlive(n)
           \/ n = idCount /\ task[n] = "none" /\ subs' = subs \cup {n} /\ SubscribeInsert
  <1>0. task \in [SubId -> {"none", "pending", "running", "ended", "panicked"}]
    BY DEF TypeOK
  <1>1. CASE task' = task
    BY <1>1 DEF RxAlive
  <1>2. CASE SubscribeStep
    <2>1. CASE SubscribeInsert
      BY <1>0, <2>1 DEF SubscribeInsert, CallerInv, RxAlive
    <2>2. CASE SubscribeStart \/ SubscribePanic
      BY <1>0, <2>2 DEF SubscribeStart, SubscribePanic, CallerInv, RxAlive
    <2>3. CASE SubscribeCall \/ SubscribeCancel
      BY <1>1, <2>3 DEF SubscribeCall, SubscribeCancel, taskVars
    <2> QED
      BY <1>2, <2>1, <2>2, <2>3 DEF SubscribeStep
  <1>3. ASSUME NEW k \in SubId, TaskItem(k) \/ TaskEnd(k)
        PROVE  RxAlive(n)
    BY <1>0, <1>3, TaskFrame DEF RxAlive
  <1>4. ASSUME NEW g \in Conn, ReceiverStep(g) \/ SenderStep(g)
        PROVE  task' = task
    BY <1>4, ReceiverFrame, SenderFrame DEF taskVars
  <1>5. ASSUME \/ ReconnectSwap
               \/ \E g \in Conn : LinkDown(g) \/ ReconnectNew(g)
        PROVE  task' = task
    BY <1>5, ReconnectFrame DEF taskVars
  <1>6. CASE UNCHANGED vars
    BY <1>1, <1>6 DEF vars, taskVars
  <1> QED
    BY <1>1, <1>2, <1>3, <1>4, <1>5, <1>6 DEF Next

\* Only the cleanup takes a handle out of the table, and no Complete is forgotten.
LEMMA TableNext ==
    ASSUME [Next]_vars
    PROVE  /\ completed \subseteq completed'
           /\ \/ subs \subseteq subs'
              \/ \E g \in Conn : ReceiverCleanup(g) /\ subs' = subs \ {IdOf(message[g])}
  <1>1. ASSUME NEW g \in Conn, ReceiverStep(g)
        PROVE  /\ completed \subseteq completed'
               /\ \/ subs' = subs
                  \/ ReceiverCleanup(g) /\ subs' = subs \ {IdOf(message[g])}
    BY <1>1 DEF ReceiverStep, ReceiverDie, ReceiverEnd, ReceiverKeepAlive,
                ReceiverUndecodable, ReceiverMessage, ReceiverDispatch, ReceiverBroadcast,
                ReceiverCleanup, tableVars, taskVars
  <1>2. ASSUME NEW g \in Conn, SenderStep(g)
        PROVE  UNCHANGED <<subs, completed>>
    BY <1>2, SenderFrame DEF taskVars
  <1>3. ASSUME \/ ReconnectSwap
               \/ \E g \in Conn : LinkDown(g) \/ ReconnectNew(g)
        PROVE  UNCHANGED <<subs, completed>>
    BY <1>3, ReconnectFrame DEF tableVars, taskVars
  <1>4. ASSUME SubscribeStep
        PROVE  completed' = completed /\ subs \subseteq subs'
    BY <1>4, SubscribeFrame DEF SubscribeStep, SubscribeCall, SubscribeCancel,
            SubscribeInsert, SubscribeStart, SubscribePanic, tableVars
  <1>5. ASSUME NEW n \in SubId, TaskItem(n) \/ TaskEnd(n)
        PROVE  UNCHANGED <<subs, completed>>
    BY <1>5, TaskFrame DEF tableVars
  <1>6. CASE UNCHANGED vars
    BY <1>6 DEF vars, tableVars, taskVars
  <1> QED
    BY <1>1, <1>2, <1>3, <1>4, <1>5, <1>6 DEF Next

\* A receiver that waits to remove a handle finds it as it left it: no other receiver
\* runs, no call reuses its number, and its Subscription does not come back to life.
LEMMA CleanupNext ==
    ASSUME TypeOK, CallerInv, ConnInv, CleanupInv, [Next]_vars
    PROVE  CleanupInv'
  <1> SUFFICES ASSUME NEW g \in Conn, receiver'[g] \in {"read", "write"}
               PROVE  /\ message'[g] \in ServerMessage
                      /\ receiver'[g] = "write" =>
                            /\ IdOf(message'[g]) \in subs'
                            /\ task'[IdOf(message'[g])] \in {"pending", "running"}
                                  => IdOf(message'[g]) \in completed'
    BY DEF CleanupInv, RxAlive
  <1>0. /\ receiver \in [Conn -> {"none", "select", "read", "write", "reconnect", "stopped"}]
        /\ message \in [Conn -> ServerMessage \cup {NoMessage}]
        /\ subs \subseteq SubId
    BY SubsType DEF TypeOK
  <1>1. CASE ReceiverStep(g)
    <2>1. CASE ReceiverMessage(g)
      <3>1. PICK f \in Frames(g) : /\ Decode(f).variant \notin {"ConnectionKeepAlive", "Undecodable"}
                                   /\ message' = [message EXCEPT ![g] = Decode(f)]
        BY <2>1 DEF ReceiverMessage
      <3>2. message'[g] \in ServerMessage
        BY <1>0, <3>1, DecodeType
      <3> QED
        BY <1>0, <2>1, <3>2 DEF ReceiverMessage
    <2>2. CASE ReceiverDispatch(g)
      <3> DEFINE n == IdOf(message[g])
      <3>1. receiver'[g] = "write" /\ message' = message
        BY <1>0, <2>2 DEF ReceiverDispatch, NextIteration
      <3>2. message[g] \in ServerMessage
        BY <2>2 DEF ReceiverDispatch, CleanupInv
      <3>3. n \in subs /\ (~RxAlive(n) \/ EndsSubscription(message[g]))
        BY <1>0, <2>2, <3>1 DEF ReceiverDispatch, NextIteration
      <3>4. EndsSubscription(message[g]) => message[g].variant = "Complete"
        BY <3>2 DEF EndsSubscription, ServerMessage
      <3>5. EndsSubscription(message[g]) => n \in completed'
        BY <2>2, <3>3, <3>4 DEF ReceiverDispatch
      <3>6. subs' = subs /\ task' = task
        BY <2>2 DEF ReceiverDispatch
      <3> QED
        BY <3>1, <3>2, <3>3, <3>5, <3>6 DEF RxAlive
    <2>3. CASE \/ ReceiverDie(g) \/ ReceiverEnd(g) \/ ReceiverKeepAlive(g)
               \/ ReceiverUndecodable(g) \/ ReceiverBroadcast(g) \/ ReceiverCleanup(g)
      BY <1>0, <2>3 DEF ReceiverDie, ReceiverEnd, ReceiverKeepAlive, ReceiverUndecodable,
                        ReceiverBroadcast, ReceiverCleanup, Return, NextIteration
    <2> QED
      BY <1>1, <2>1, <2>2, <2>3 DEF ReceiverStep
  <1>2. CASE receiver'[g] = receiver[g] /\ message'[g] = message[g] /\ ~ReceiverStep(g)
    <2>1. Receiving(g) /\ g = spawned
      BY <1>2 DEF Receiving, ConnInv
    <2>2. subs \subseteq subs' /\ completed \subseteq completed'
      <3>1. ASSUME NEW h \in Conn, ReceiverCleanup(h)
            PROVE  FALSE
        BY <1>2, <2>1, <3>1 DEF ReceiverCleanup, ReceiverStep, Receiving, ConnInv
      <3> QED
        BY <3>1, TableNext
    <2> DEFINE n == IdOf(message[g])
    <2>3. receiver[g] = "write" => n \in subs /\ (RxAlive(n) => n \in completed)
      BY DEF CleanupInv
    <2>4. receiver[g] = "write" /\ task'[n] \in {"pending", "running"} => RxAlive(n)
      <3> SUFFICES ASSUME receiver[g] = "write", task'[n] \in {"pending", "running"}
                   PROVE  RxAlive(n)
        OBVIOUS
      <3>1. n \in SubId /\ task[n] # "none"
        BY <1>0, <2>3 DEF CallerInv
      <3> QED
        BY <3>1, AliveNext
    <2>5. message[g] \in ServerMessage
      BY <1>2 DEF CleanupInv
    <2> QED
      BY <1>2, <2>2, <2>3, <2>4, <2>5
  <1>3. \/ ReceiverStep(g)
        \/ receiver'[g] = receiver[g] /\ message'[g] = message[g]
    <2>1. ASSUME NEW h \in Conn, h # g, ReceiverStep(h)
          PROVE  receiver'[g] = receiver[g] /\ message'[g] = message[g]
      BY <1>0, <2>1 DEF ReceiverStep, ReceiverDie, ReceiverEnd, ReceiverKeepAlive,
                  ReceiverUndecodable, ReceiverMessage, ReceiverDispatch, ReceiverBroadcast,
                  ReceiverCleanup, Return, NextIteration
    <2>2. ASSUME NEW h \in Conn, SenderStep(h)
          PROVE  UNCHANGED <<receiver, message>>
      BY <2>2, SenderFrame
    <2>3. ASSUME NEW h \in Conn, LinkDown(h) \/ ReconnectNew(h)
          PROVE  receiver'[g] = receiver[g] /\ message' = message
      BY <1>0, <2>3 DEF LinkDown, ReconnectNew, receiverVars
    <2>4. ASSUME ReconnectSwap \/ SubscribeStep \/ UNCHANGED vars
          PROVE  UNCHANGED <<receiver, message>>
      BY <2>4, SubscribeFrame DEF ReconnectSwap, vars, receiverVars
    <2>5. ASSUME NEW n \in SubId, TaskItem(n) \/ TaskEnd(n)
          PROVE  UNCHANGED <<receiver, message>>
      BY <2>5, TaskFrame DEF receiverVars
    <2> QED
      BY <2>1, <2>2, <2>3, <2>4, <2>5 DEF Next
  <1> QED
    BY <1>1, <1>2, <1>3

\* A handle taken out of the table was the one its receiver waited to remove.
LEMMA RemovalNext ==
    ASSUME TypeOK, CallerInv, CleanupInv, NoSilentRemoval, [Next]_vars
    PROVE  NoSilentRemoval'
  <1> SUFFICES ASSUME NEW n \in SubId, task'[n] \in {"pending", "running"}, n \notin subs'
               PROVE  n \in completed'
    BY DEF NoSilentRemoval, RxAlive
  <1>1. RxAlive(n)
    BY AliveNext
  <1>2. CASE n \notin subs
    BY <1>1, <1>2, TableNext DEF NoSilentRemoval
  <1>3. CASE n \in subs
    <2>1. PICK g \in Conn : ReceiverCleanup(g) /\ n = IdOf(message[g])
      BY <1>3, TableNext
    <2> QED
      BY <1>1, <2>1, TableNext DEF ReceiverCleanup, CleanupInv
  <1> QED
    BY <1>2, <1>3

-----------------------------------------------------------------------------
LEMMA InvInit == Init => IInv
  <1> SUFFICES ASSUME Init PROVE IInv
    OBVIOUS
  <1>1. TypeOK
    BY TypeInit
  <1>2. CallerInv /\ NoSilentRemoval
    BY DEF Init, CallerInv, NoSilentRemoval, RxAlive
  <1>3. ConnInv /\ DieOnlyWhenMissed /\ PingInv /\ CleanupInv
    BY DEF Init, ConnInv, Receiving, DieOnlyWhenMissed, PingInv, CleanupInv
  <1> QED
    BY <1>1, <1>2, <1>3 DEF IInv

LEMMA InvNext == IInv /\ [Next]_vars => IInv'
  BY TypeNext, CallerNext, ConnNext, DieNext, CleanupNext, RemovalNext DEF IInv

LEMMA Invariance == Spec => []IInv
  BY InvInit, InvNext, PTL DEF Spec

\* Type correctness of the socket's state, for every number of connections and calls.
THEOREM TypeCorrect == Spec => []TypeOK
  <1>1. IInv => TypeOK
    BY DEF IInv
  <1> QED
    BY <1>1, Invariance, PTL

\* However the connections fail, the reconnecter never lets two receivers feed the
\* table of subscriptions at once.
THEOREM OneReceiver == Spec => []OneLiveReceiver
  <1>1. IInv => OneLiveReceiver
    BY DEF IInv, ConnInv, OneLiveReceiver
  <1> QED
    BY <1>1, Invariance, PTL

\* A receiver is told to die only where the timer that looked at the flag had been given no
\* answer to the last ping, and none was read since the signal, though the look and the
\* signal are two steps between which the receiver may run; and the sender that gave the
\* connection up is past its loop.
THEOREM DieJustified == Spec => []DieOnlyWhenMissed
  <1>1. IInv => DieOnlyWhenMissed
    BY DEF IInv
  <1> QED
    BY <1>1, Invariance, PTL

\* process_server_message drops the read lock before it takes the write lock to remove
\* a handle, and still never cuts off a stream that was not completed.
THEOREM NoStreamCutOff == Spec => []NoSilentRemoval
  <1>1. IInv => NoSilentRemoval
    BY DEF IInv
  <1> QED
    BY <1>1, Invariance, PTL

-----------------------------------------------------------------------------
(* A subscription the resend loop passes over was asked of the connection   *)
(* in use.                                                                 *)

\* Two numbers less than a turn apart that are equal modulo it are one number.
LEMMA LessThanATurn ==
    ASSUME NEW a \in Nat, NEW b \in Nat, a <= b, b - a < LivenessMod,
           a % LivenessMod = b % LivenessMod
    PROVE  a = b
  <1> DEFINE M == LivenessMod
             k == b \div M - a \div M
  <1>1. /\ a \div M \in Nat /\ b \div M \in Nat
        /\ a = M * (a \div M) + (a % M) /\ b = M * (b \div M) + (b % M)
    OBVIOUS
  <1>2. b - a = M * k /\ k \in Int /\ M \in Nat \ {0} /\ b - a \in 0 .. M - 1
    BY <1>1
  <1> HIDE DEF M, k
  <1>3. ASSUME k >= 1
        PROVE  FALSE
    <2>1. k - 1 \in Nat
      BY <1>2, <1>3
    <2>2. M * (k - 1) \in Nat /\ M * k = M + M * (k - 1)
      BY <1>2, <2>1
    <2> QED
      BY <1>2, <2>2
  <1>4. ASSUME k <= -1
        PROVE  FALSE
    <2>1. -1 - k \in Nat
      BY <1>2, <1>4
    <2>2. M * (-1 - k) \in Nat /\ M * k = -M - M * (-1 - k)
      BY <1>2, <2>1
    <2> QED
      BY <1>2, <2>2
  <1>5. k = 0
    BY <1>2, <1>3, <1>4
  <1> QED
    BY <1>2, <1>5

\* What a sender puts on its sink, of what is already on the way: a socket does not come
\* back, and a Start that was delivered stays delivered.
LEMMA PutNext ==
    ASSUME TypeOK, NEW g \in Conn, NEW m, Put(g, m), NEW h \in Conn, link'[h] = "up"
    PROVE  /\ link[h] = "up" /\ started[h] \subseteq started'[h]
           /\ h = g /\ m.type = "start" => m.payload \in started'[h]
  <1>1. /\ link \in [Conn -> {"up", "reset", "closed"}]
        /\ started \in [Conn -> SUBSET SubId]
    BY DEF TypeOK
  <1>2. link[h] = "up"
    BY <1>1 DEF Put
  <1>3. \/ started' = started
        \/ started' = [started EXCEPT ![g] = @ \cup {m.payload}]
    BY DEF Put
  <1>4. h = g /\ m.type = "start" => started' = [started EXCEPT ![g] = @ \cup {m.payload}]
    BY <1>2 DEF Put
  <1> QED
    BY <1>1, <1>2, <1>3, <1>4

LEMMA EmitNext ==
    ASSUME NEW g \in Conn, NEW f, Emit(g, f)
    PROVE  UNCHANGED <<link, started>>
  BY DEF Emit

\* The same of every step.
LEMMA NetNext ==
    ASSUME TypeOK, [Next]_vars, NEW h \in Conn, link'[h] = "up"
    PROVE  link[h] = "up" /\ started[h] \subseteq started'[h]
  <1>0. /\ link \in [Conn -> {"up", "reset", "closed"}]
        /\ started \in [Conn -> SUBSET SubId]
    BY DEF TypeOK
  <1>1. CASE UNCHANGED <<link, started>>
    BY <1>1
  <1>2. ASSUME NEW g \in Conn, NEW how \in {"reset", "closed"}, Disconnect(g, how)
        PROVE  link[h] = "up" /\ started[h] \subseteq started'[h]
    BY <1>0, <1>2 DEF Disconnect
  <1>3. ASSUME NEW g \in Conn, ReceiverStep(g)
        PROVE  link[h] = "up" /\ started[h] \subseteq started'[h]
    <2>1. CASE ReceiverDie(g)
      <3>1. Disconnect(g, IF link[g] = "up" THEN "closed" ELSE link[g])
        BY <2>1 DEF ReceiverDie
      <3>2. (IF link[g] = "up" THEN "closed" ELSE link[g]) \in {"reset", "closed"}
        BY <1>0
      <3> QED
        BY <1>2, <3>1, <3>2
    <2>2. CASE ReceiverKeepAlive(g) \/ ReceiverUndecodable(g) \/ ReceiverMessage(g)
      BY <1>1, <2>2, EmitNext DEF ReceiverKeepAlive, ReceiverUndecodable, ReceiverMessage
    <2>3. CASE ReceiverEnd(g) \/ ReceiverDispatch(g) \/ ReceiverBroadcast(g) \/ ReceiverCleanup(g)
      BY <1>1, <2>3 DEF ReceiverEnd, ReceiverDispatch, ReceiverBroadcast, ReceiverCleanup, netVars
    <2> QED
      BY <1>3, <2>1, <2>2, <2>3 DEF ReceiverStep
  <1>4. ASSUME NEW g \in Conn, SenderStep(g)
        PROVE  link[h] = "up" /\ started[h] \subseteq started'[h]
    <2>1. ASSUME NEW n \in SubId, SenderResend(g, n)
          PROVE  link[h] = "up" /\ started[h] \subseteq started'[h]
      BY <1>1, <2>1, PutNext DEF SenderResend
    <2>2. CASE SenderSend(g)
      BY <2>2, PutNext DEF SenderSend
    <2>3. CASE \/ SenderInit(g) \/ SenderPanic(g) \/ SenderLock(g) \/ SenderClosed(g)
               \/ SenderPing(g) \/ SenderTimer(g) \/ SenderTimeout(g) \/ SenderEnd(g)
      BY <1>1, <2>3 DEF SenderInit, SenderPanic, SenderLock, SenderClosed, SenderPing, SenderTimer,
                        SenderTimeout, SenderEnd, netVars
    <2> QED
      BY <1>4, <2>1, <2>2, <2>3 DEF SenderStep
  <1>5. ASSUME NEW g \in Conn, LinkDown(g)
        PROVE  link[h] = "up" /\ started[h] \subseteq started'[h]
    BY <1>2, <1>5 DEF LinkDown
  <1>6. ASSUME \/ ReconnectSwap \/ SubscribeStep \/ UNCHANGED vars
               \/ \E g \in Conn : ReconnectNew(g)
               \/ \E n \in SubId : TaskItem(n) \/ TaskEnd(n)
        PROVE  UNCHANGED <<link, started>>
    BY <1>6, SubscribeFrame DEF ReconnectSwap, ReconnectNew, TaskItem, TaskEnd, vars, netVars
  <1> QED
    BY <1>1, <1>3, <1>4, <1>5, <1>6 DEF Next

\* A sender task that can take a message could take one before, unless it is new.
LEMMA OpenNext ==
    ASSUME TypeOK, [Next]_vars, NEW g \in Conn, sender'[g] \notin {"none", "ended", "panicked"}
    PROVE  RxOutOpen(g) \/ \E h \in Conn : ReconnectNew(h) /\ g = h + 1
  <1>0. sender \in [Conn -> {"none", "init", "lock", "resend", "loop", "timedout",
                             "closing", "ended", "panicked"}]
    BY DEF TypeOK
  <1>1. CASE UNCHANGED sender
    BY <1>1 DEF RxOutOpen
  <1>2. ASSUME NEW h \in Conn, SenderStep(h)
        PROVE  RxOutOpen(g)
    BY <1>0, <1>2 DEF RxOutOpen, SenderStep, SenderInit, SenderPanic, SenderLock, SenderResend,
                      SenderSend, SenderClosed, SenderPing, SenderTimer, SenderTimeout, SenderEnd
  <1>3. ASSUME NEW h \in Conn, ReconnectNew(h)
        PROVE  RxOutOpen(g) \/ g = h + 1
    BY <1>0, <1>3 DEF RxOutOpen, ReconnectNew
  <1>4. ASSUME NEW h \in Conn, ReceiverStep(h) \/ LinkDown(h)
        PROVE  UNCHANGED sender
    BY <1>4, ReceiverFrame DEF LinkDown, senderVars
  <1>5. ASSUME \/ ReconnectSwap \/ SubscribeStep \/ UNCHANGED vars
               \/ \E n \in SubId : TaskItem(n) \/ TaskEnd(n)
        PROVE  UNCHANGED sender
    BY <1>5, SubscribeFrame, TaskFrame DEF ReconnectSwap, vars, senderVars
  <1> QED
    BY <1>1, <1>2, <1>3, <1>4, <1>5 DEF Next

-----------------------------------------------------------------------------
\* A stamp is that of a connection opened so far.
LEMMA StampedNext ==
    ASSUME TypeOK, ConnInv, Stamped, [Next]_vars
    PROVE  Stamped'
  <1> SUFFICES ASSUME NEW n \in SubId
               PROVE  stamp'[n] <= spawned'
    BY DEF Stamped
  <1>0. /\ stamp \in [SubId -> Conn]
        /\ current \in Conn /\ spawned \in Conn /\ idCount \in Nat
    BY SubsType DEF TypeOK
  <1>1. stamp[n] <= spawned
    BY DEF Stamped
  <1>2. CASE stamp' = stamp /\ spawned' = spawned
    BY <1>1, <1>2
  <1>3. ASSUME NEW h \in Conn, ReceiverStep(h)
        PROVE  stamp'[n] <= spawned'
    <2>1. CASE ReceiverCleanup(h)
      BY <1>0, <1>1, <2>1 DEF ReceiverCleanup, connVars
    <2>2. CASE ~ReceiverCleanup(h)
      BY <1>2, <1>3, <2>2, ReceiverFrame
      DEF ReceiverStep, ReceiverDie, ReceiverEnd, ReceiverKeepAlive, ReceiverUndecodable,
          ReceiverMessage, ReceiverDispatch, ReceiverBroadcast, tableVars
    <2> QED
      BY <2>1, <2>2
  <1>4. ASSUME NEW h \in Conn, SenderStep(h)
        PROVE  stamp'[n] <= spawned'
    <2>1. CASE \E k \in SubId : SenderResend(h, k)
      <3>1. sender[h] = "resend" /\ stamp'[n] \in {stamp[n], h} /\ spawned' = spawned
        BY <1>0, <2>1 DEF SenderResend, connVars
      <3>2. h <= spawned
        BY <1>0, <3>1 DEF ConnInv
      <3> QED
        BY <1>1, <3>1, <3>2
    <2>2. CASE ~\E k \in SubId : SenderResend(h, k)
      BY <1>2, <1>4, <2>2, SenderFrame
      DEF SenderStep, SenderInit, SenderPanic, SenderLock, SenderSend, SenderClosed,
          SenderPing, SenderTimer, SenderTimeout, SenderEnd, tableVars
    <2> QED
      BY <2>1, <2>2
  <1>5. ASSUME NEW h \in Conn, ReconnectNew(h)
        PROVE  stamp'[n] <= spawned'
    BY <1>0, <1>1, <1>5 DEF ReconnectNew, tableVars
  <1>6. CASE SubscribeStep
    <2>1. stamp'[n] \in {stamp[n], current} /\ spawned' = spawned
      BY <1>0, <1>6, SubscribeFrame DEF SubscribeStep, SubscribeCall, SubscribeCancel,
         SubscribeInsert, SubscribeStart, SubscribePanic, tableVars, connVars
    <2>2. current <= spawned
      BY DEF ConnInv
    <2> QED
      BY <1>0, <1>1, <2>1, <2>2
  <1>7. ASSUME \/ ReconnectSwap \/ UNCHANGED vars
               \/ \E h \in Conn : LinkDown(h)
               \/ \E k \in SubId : TaskItem(k) \/ TaskEnd(k)
        PROVE  stamp' = stamp /\ spawned' = spawned
    BY <1>7, TaskFrame DEF ReconnectSwap, LinkDown, vars, tableVars, connVars
  <1> QED
    BY <1>2, <1>3, <1>4, <1>5, <1>6, <1>7 DEF Next

\* The Starts in a queue are the messages of it that are Starts of subscribe.
Queued(q, n) == \E i \in DOMAIN q : q[i] = Start(UpperHex(n), n)

LEMMA AppendKeeps ==
    ASSUME NEW q \in Seq(ClientMessage), NEW m \in ClientMessage, NEW n, Queued(q, n)
    PROVE  Queued(Append(q, m), n)
  <1>1. PICK i \in DOMAIN q : q[i] = Start(UpperHex(n), n)
    BY DEF Queued
  <1>2. i \in DOMAIN Append(q, m) /\ Append(q, m)[i] = q[i]
    BY <1>1
  <1> QED
    BY <1>1, <1>2 DEF Queued

LEMMA TailKeeps ==
    ASSUME NEW q \in Seq(ClientMessage), q # <<>>, NEW n, Queued(q, n),
           Head(q) # Start(UpperHex(n), n)
    PROVE  Queued(Tail(q), n)
  <1>1. PICK i \in DOMAIN q : q[i] = Start(UpperHex(n), n)
    BY DEF Queued
  <1>2. i \in 2 .. Len(q)
    BY <1>1
  <1>3. i - 1 \in DOMAIN Tail(q) /\ Tail(q)[i - 1] = q[i]
    BY <1>2, HeadTailProperties
  <1> QED
    BY <1>1, <1>3 DEF Queued

\* A Start in the queue of a sender that works stays there until the server has it.
LEMMA QueueNext ==
    ASSUME TypeOK, CallerInv, [Next]_vars, NEW g \in Conn, NEW n \in SubId, Queued(outq[g], n),
           sender'[g] \notin {"none", "ended", "panicked"}, link'[g] = "up"
    PROVE  n \in started'[g] \/ Queued(outq'[g], n)
  <1>0. outq \in [Conn -> Seq(ClientMessage)] /\ outq[g] \in Seq(ClientMessage)
        /\ current \in Conn /\ txOf \in [SubId -> Conn] /\ idCount \in Nat
        /\ sender \in [Conn -> {"none", "init", "lock", "resend", "loop", "timedout",
                                "closing", "ended", "panicked"}]
    BY SubsType DEF TypeOK
  <1>1. CASE outq'[g] = outq[g]
    BY <1>1
  <1>2. ASSUME NEW h \in Conn, NEW m \in ClientMessage,
               outq' = [outq EXCEPT ![h] = Append(@, m)]
        PROVE  Queued(outq'[g], n)
    BY <1>0, <1>2, AppendKeeps
  <1>3. ASSUME NEW h \in Conn, SenderStep(h)
        PROVE  n \in started'[g] \/ Queued(outq'[g], n)
    <2>1. CASE SenderSend(h) /\ h = g
      <3>1. outq[g] # <<>> /\ outq'[g] = Tail(outq[g]) /\ Put(g, Head(outq[g]))
        BY <1>0, <2>1 DEF SenderSend
      <3>2. CASE Head(outq[g]) = Start(UpperHex(n), n)
        BY <3>1, <3>2, PutNext DEF Start
      <3>3. CASE Head(outq[g]) # Start(UpperHex(n), n)
        BY <1>0, <3>1, <3>3, TailKeeps
      <3> QED
        BY <3>2, <3>3
    <2>2. CASE SenderSend(h) /\ h # g
      BY <1>0, <1>1, <2>2 DEF SenderSend
    <2>3. CASE SenderPanic(h) \/ SenderEnd(h)
      BY <1>0, <1>1, <2>3 DEF SenderPanic, SenderEnd
    <2>4. CASE \/ SenderInit(h) \/ SenderLock(h) \/ SenderClosed(h) \/ SenderPing(h)
               \/ SenderTimer(h) \/ SenderTimeout(h) \/ \E k \in SubId : SenderResend(h, k)
      BY <1>1, <2>4 DEF SenderInit, SenderLock, SenderClosed, SenderPing, SenderTimer, SenderTimeout,
                        SenderResend, senderVars
    <2> QED
      BY <1>3, <2>1, <2>2, <2>3, <2>4 DEF SenderStep
  <1>4. CASE ReconnectSwap
    <2>1. \/ outq' = outq
          \/ outq' = [outq EXCEPT ![current] = Append(@, ConnectionTerminate)]
      BY <1>4 DEF ReconnectSwap
    <2> QED
      BY <1>0, <1>1, <1>2, <2>1, TerminateType
  <1>5. CASE SubscribeStep
    <2>1. CASE SubscribeStart
      <3>1. idCount \in SubId
        BY <2>1 DEF SubscribeStart, CallerInv
      <3>2. outq' = [outq EXCEPT ![current] = Append(@, Start(UpperHex(idCount), idCount))]
        BY <2>1 DEF SubscribeStart
      <3> QED
        BY <1>0, <1>2, <3>1, <3>2, StartType
    <2>2. CASE ~SubscribeStart
      BY <1>1, <1>5, <2>2 DEF SubscribeStep, SubscribeCall, SubscribeCancel, SubscribeInsert,
                        SubscribePanic, senderVars
    <2> QED
      BY <2>1, <2>2
  <1>6. ASSUME NEW k \in SubId, TaskItem(k) \/ TaskEnd(k)
        PROVE  Queued(outq'[g], n)
    <2>1. \/ outq' = outq
          \/ outq' = [outq EXCEPT ![txOf[k]] = Append(@, Stop(UpperHex(k)))]
      BY <1>6 DEF TaskItem, TaskEnd, Drop, senderVars
    <2> QED
      BY <1>0, <1>1, <1>2, <2>1, StartType
  <1>7. ASSUME \/ \E h \in Conn : ReceiverStep(h) \/ LinkDown(h) \/ ReconnectNew(h)
               \/ UNCHANGED vars
        PROVE  outq' = outq
    BY <1>7 DEF ReceiverStep, ReceiverDie, ReceiverEnd, ReceiverKeepAlive, ReceiverUndecodable,
                ReceiverMessage, ReceiverDispatch, ReceiverBroadcast, ReceiverCleanup,
                LinkDown, ReconnectNew, senderVars, vars
  <1> QED
    BY <1>1, <1>3, <1>4, <1>5, <1>6, <1>7 DEF Next

-----------------------------------------------------------------------------
\* A handle that has the stamp of the last connection opened, while that one works, was
\* asked of it by the resend loop or by the call that stored it.
LEMMA StartNext ==
    ASSUME TypeOK, CallerInv, ConnInv, CleanupInv, Stamped, StartInv, [Next]_vars
    PROVE  StartInv'
  <1> SUFFICES ASSUME NEW n \in SubId, n \in subs', task'[n] \in {"pending", "running"},
                      stamp'[n] = spawned', link'[spawned'] = "up",
                      sender'[spawned'] \notin {"none", "ended", "panicked"}
               PROVE  \/ n \in started'[spawned'] \/ Queued(outq'[spawned'], n)
                      \/ task'[n] = "pending" /\ current' = spawned'
    <2>0. TypeOK'
      BY TypeNext
    <2>1. subs' \subseteq SubId
      BY <2>0 DEF TypeOK
    <2> QED
      BY <2>1 DEF StartInv, RxAlive, RxOutOpen, StartQueued, Queued
  <1>0. /\ stamp \in [SubId -> Conn]
        /\ task \in [SubId -> {"none", "pending", "running", "ended", "panicked"}]
        /\ outq \in [Conn -> Seq(ClientMessage)]
        /\ current \in Conn /\ spawned \in Conn /\ idCount \in Nat /\ subs \subseteq SubId
    BY SubsType DEF TypeOK
  <1>1. ASSUME NEW g \in Conn, ReconnectNew(g)
        PROVE  FALSE
    <2>1. stamp' = stamp /\ spawned' = g + 1 /\ g + 1 \in Conn /\ g = spawned
      BY <1>1 DEF ReconnectNew, tableVars
    <2>2. stamp[n] = g + 1 /\ stamp[n] <= g
      BY <2>1 DEF Stamped
    <2> QED
      BY <2>2
  <1>2. CASE SubscribeInsert /\ n = idCount
    <2>1. stamp'[n] = current /\ task'[n] = "pending" /\ UNCHANGED connVars
      BY <1>0, <1>2 DEF SubscribeInsert
    <2>2. current = spawned
      BY <1>0, <2>1 DEF connVars
    <2> QED
      BY <2>1, <2>2 DEF connVars
  <1>3. ASSUME NEW g \in Conn, SenderResend(g, n), Liveness(stamp[n]) # Liveness(g)
        PROVE  n \in started'[spawned']
    <2>1. stamp'[n] = g /\ spawned' = spawned
      BY <1>0, <1>3 DEF SenderResend, connVars
    <2>2. g = spawned
      BY <1>0, <2>1
    <2>3. Put(g, Start(Decimal(n), n)) /\ link'[g] = "up"
      BY <1>3, <2>1, <2>2 DEF SenderResend
    <2>4. Start(Decimal(n), n).type = "start" /\ Start(Decimal(n), n).payload = n
      BY DEF Start
    <2>5. n \in started'[g]
      BY <2>3, <2>4, PutNext
    <2> QED
      BY <2>1, <2>2, <2>5
  <1>4. CASE spawned' = spawned /\ stamp'[n] = stamp[n] /\ n \in subs /\ RxAlive(n)
    <2>1. link[spawned] = "up" /\ started[spawned] \subseteq started'[spawned]
      BY <1>0, <1>4, NetNext
    <2>2. RxOutOpen(spawned)
      BY <1>0, <1>1, <1>4, OpenNext
    <2>3. \/ n \in started[spawned] \/ Queued(outq[spawned], n)
          \/ task[n] = "pending" /\ current = spawned
      BY <1>4, <2>1, <2>2 DEF StartInv, StartQueued, Queued
    <2>4. CASE n \in started[spawned]
      BY <1>4, <2>1, <2>4
    <2>5. CASE Queued(outq[spawned], n)
      BY <1>0, <1>4, <2>5, QueueNext
    <2>6. CASE task[n] = "pending" /\ current = spawned
      <3>1. current' = current
        BY <1>1, <2>6, ReceiverFrame, SenderFrame, SubscribeFrame, TaskFrame
        DEF Next, ReconnectSwap, LinkDown, connVars, vars
      <3>2. CASE SubscribeStart /\ n = idCount
        <4>1. outq'[spawned] = Append(outq[spawned], Start(UpperHex(n), n))
          BY <1>0, <2>6, <3>2 DEF SubscribeStart
        <4>2. /\ outq[spawned] \in Seq(ClientMessage)
              /\ Len(outq[spawned]) + 1 \in DOMAIN outq'[spawned]
              /\ outq'[spawned][Len(outq[spawned]) + 1] = Start(UpperHex(n), n)
          BY <1>0, <4>1, StartType
        <4> QED
          BY <1>4, <4>2 DEF Queued
      <3>3. CASE ~(SubscribeStart /\ n = idCount)
        <4>1. task'[n] = task[n]
          <5>1. ASSUME SubscribeStep
                PROVE  task'[n] = task[n]
            BY <1>0, <2>6, <3>3, <5>1 DEF SubscribeStep, SubscribeCall, SubscribeCancel,
               SubscribeInsert, SubscribeStart, SubscribePanic, CallerInv, taskVars
          <5>2. ASSUME NEW k \in SubId, TaskItem(k) \/ TaskEnd(k)
                PROVE  task'[n] = task[n]
            BY <1>0, <2>6, <5>2, TaskFrame
          <5>3. ASSUME NEW g \in Conn, ReceiverStep(g) \/ SenderStep(g)
                PROVE  task' = task
            BY <5>3, ReceiverFrame, SenderFrame DEF taskVars
          <5>4. ASSUME ReconnectSwap \/ UNCHANGED vars \/ \E g \in Conn : LinkDown(g)
                PROVE  task' = task
            BY <5>4 DEF ReconnectSwap, LinkDown, vars, taskVars
          <5> QED
            BY <1>1, <5>1, <5>2, <5>3, <5>4 DEF Next
        <4> QED
          BY <1>4, <2>6, <3>1, <4>1
      <3> QED
        BY <3>2, <3>3
    <2> QED
      BY <2>3, <2>4, <2>5, <2>6
  <1>5. \/ SubscribeInsert /\ n = idCount
        \/ \E g \in Conn : SenderResend(g, n) /\ Liveness(stamp[n]) # Liveness(g)
        \/ spawned' = spawned /\ stamp'[n] = stamp[n] /\ n \in subs /\ RxAlive(n)
    <2>1. RxAlive(n) \/ (SubscribeInsert /\ n = idCount)
      BY AliveNext
    <2>2. ASSUME NEW g \in Conn, ReceiverStep(g)
          PROVE  spawned' = spawned /\ stamp'[n] = stamp[n] /\ n \in subs
      <3>1. CASE ReceiverCleanup(g)
        <4>1. n # IdOf(message[g])
          BY <3>1 DEF ReceiverCleanup
        <4> QED
          BY <1>0, <2>2, <3>1, <4>1, ReceiverFrame DEF ReceiverCleanup
      <3>2. CASE ~ReceiverCleanup(g)
        BY <2>2, <3>2, ReceiverFrame
        DEF ReceiverStep, ReceiverDie, ReceiverEnd, ReceiverKeepAlive, ReceiverUndecodable,
            ReceiverMessage, ReceiverDispatch, ReceiverBroadcast, tableVars
      <3> QED
        BY <3>1, <3>2
    <2>3. ASSUME NEW g \in Conn, SenderStep(g)
          PROVE  /\ spawned' = spawned /\ n \in subs
                 /\ stamp'[n] = stamp[n] \/ (SenderResend(g, n) /\ Liveness(stamp[n]) # Liveness(g))
      <3>0. spawned' = spawned /\ n \in subs
        BY <2>3, SenderFrame
      <3>1. ASSUME NEW k \in SubId, SenderResend(g, k)
            PROVE  stamp'[n] = stamp[n] \/ (SenderResend(g, n) /\ Liveness(stamp[n]) # Liveness(g))
        <4>1. \/ stamp' = stamp
              \/ stamp' = [stamp EXCEPT ![k] = g] /\ Liveness(stamp[k]) # Liveness(g)
          BY <3>1 DEF SenderResend
        <4> QED
          BY <1>0, <3>1, <4>1
      <3>2. ASSUME ~\E k \in SubId : SenderResend(g, k)
            PROVE  stamp' = stamp
        BY <2>3, <3>2
        DEF SenderStep, SenderInit, SenderPanic, SenderLock, SenderSend, SenderClosed,
            SenderPing, SenderTimer, SenderTimeout, SenderEnd, tableVars
      <3>3. CASE \E k \in SubId : SenderResend(g, k)
        BY <3>0, <3>1, <3>3
      <3>4. CASE ~\E k \in SubId : SenderResend(g, k)
        BY <3>0, <3>2, <3>4
      <3> QED
        BY <3>3, <3>4
    <2>4. ASSUME SubscribeStep, ~(SubscribeInsert /\ n = idCount)
          PROVE  spawned' = spawned /\ stamp'[n] = stamp[n] /\ n \in subs
      <3>1. spawned' = spawned
        BY <2>4, SubscribeFrame DEF connVars
      <3>2. CASE SubscribeInsert
        BY <1>0, <2>4, <3>1, <3>2 DEF SubscribeInsert
      <3>3. CASE ~SubscribeInsert
        BY <1>0, <2>4, <3>1, <3>3 DEF SubscribeStep, SubscribeCall, SubscribeCancel,
           SubscribeStart, SubscribePanic, tableVars
      <3> QED
        BY <3>2, <3>3
    <2>5. ASSUME \/ ReconnectSwap \/ UNCHANGED vars
                 \/ \E g \in Conn : LinkDown(g)
                 \/ \E k \in SubId : TaskItem(k) \/ TaskEnd(k)
          PROVE  spawned' = spawned /\ stamp' = stamp /\ subs' = subs
      BY <2>5, TaskFrame DEF ReconnectSwap, LinkDown, vars, tableVars, connVars
    <2> QED
      BY <1>1, <2>1, <2>2, <2>3, <2>4, <2>5 DEF Next
  <1> QED
    BY <1>2, <1>3, <1>4, <1>5

LEMMA ResumeInit == Init => ResumeInv
  <1>1. Init => Stamped
    BY DEF Init, Stamped
  <1>2. Init => StartInv
    BY DEF Init, StartInv
  <1> QED
    BY <1>1, <1>2, InvInit DEF ResumeInv

LEMMA ResumeNext == ResumeInv /\ [Next]_vars => ResumeInv'
  BY InvNext, StampedNext, StartNext DEF ResumeInv, IInv

LEMMA ResumeInvariance == Spec => []ResumeInv
  BY ResumeInit, ResumeNext, PTL DEF Spec

\* subscribe, the resend loops of connections past and present and the reconnecter may
\* touch a handle in any order, over any number of connections: a live one that bears the
\* liveness of the connection in use was asked of that connection, or its Start is on the
\* way, unless the u8 has come round and the liveness is that of LivenessMod connections ago.
THEOREM StartsAreSent == Spec => []NoLostStart
  <1>1. ASSUME ResumeInv
        PROVE  NoLostStart
    <2> SUFFICES ASSUME NEW n \in subs, task[n] = "running",
                        Liveness(stamp[n]) = Liveness(current),
                        current - stamp[n] < LivenessMod,
                        spawned = current, sender[current] = "loop", link[current] = "up"
                 PROVE  n \in started[current] \/ StartQueued(current, n)
      BY DEF NoLostStart
    <2>1. TypeOK /\ Stamped /\ StartInv
      BY <1>1 DEF ResumeInv, IInv
    <2>2. n \in SubId /\ stamp[n] \in Conn /\ current \in Conn
      BY <2>1, SubsType DEF TypeOK
    <2>3. stamp[n] <= current
      BY <2>1, <2>2 DEF Stamped
    <2>4. stamp[n] = current
      BY <2>2, <2>3, LessThanATurn DEF Liveness
    <2> QED
      BY <2>1, <2>4 DEF StartInv, RxAlive, RxOutOpen
  <1> QED
    BY <1>1, ResumeInvariance, PTL
=============================================================================
