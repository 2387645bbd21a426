---------------------------- MODULE SessionProofs ----------------------------
(***************************************************************************)
(* Theorems about the session, for every value of the constants: its       *)
(* types, the room in the dispatch table, and the order on the connection. *)
(***************************************************************************)
EXTENDS SessionInvariant, TLAPS, SequenceTheorems

USE ProtocolAssumption, SubscriptionAssumption, AgentAssumption, SessionAssumption

-----------------------------------------------------------------------------
(* The helpers return values of their types. *)

\* An object id packs any index of any kind into an Oid (object_id).
LEMMA ObjectIdType ==
  ASSUME NEW k \in Kind, NEW i \in Nat
  PROVE  ObjectId(i, k) \in Oid
<1>1. i % IdxSpan \in 0 .. IdxSpan - 1
  OBVIOUS
<1> QED BY <1>1 DEF ObjectId, Oid

\* next_req never hands out 0 and stays within a u16.
LEMMA NextReqIdType ==
  ASSUME NEW r \in ReqId
  PROVE  NextReqId(r) \in ReqId
BY DEF ReqId, NextReqId

\* Taking indices keeps the counters natural numbers.
LEMMA AllocType ==
  ASSUME nextIdx \in [Kind -> Nat], NEW kinds, Alloc(kinds)
  PROVE  nextIdx' \in [Kind -> Nat]
BY DEF Alloc

\* What comes off the head of a channel, and what is left of it.
LEMMA TakeFirst ==
  ASSUME NEW S, NEW q \in Seq(S), q # <<>>
  PROVE  Head(q) \in S /\ Tail(q) \in Seq(S)
BY HeadTailProperties

\* The entities of a node have object ids.
LEMMA NodeOids ==
  ASSUME NEW node \in Node
  PROVE  /\ ParticipantOf(node) \in Oid
         /\ PublisherOf(node) \in Oid
         /\ SubscriberOf(node) \in Oid
BY ObjectIdType DEF Node, Kind, ParticipantOf, PublisherOf, SubscriberOf

\* Every CREATE and READ_DATA the client encodes is a message of its type.
LEMMA RequestType ==
  ASSUME NEW req \in ReqId, NEW oid \in Oid, NEW parent \in Oid,
         NEW topic \in Topic \cup {NoTopic}
  PROVE  /\ CreateMsg(req, oid, parent, topic) \in EntityRequest
         /\ ReadDataMsg(req, oid) \in EntityRequest
BY DEF CreateMsg, ReadDataMsg, EntityRequest

-----------------------------------------------------------------------------
(* The slots. *)

\* Delivering a sample keeps the slots well typed and no inbox beyond Depth.
LEMMA TryDeliverType ==
  ASSUME SubscriptionTypeOK, NEW s \in Slot, NEW data, data.topic \in Topic,
         data.n \in Nat, TryDeliver(s, data)
  PROVE  SubscriptionTypeOK'
<1>1. CASE Accepts(s, data)
  <2> DEFINE sample == [topic |-> data.topic, n |-> data.n]
  <2>1. sample \in Sample
    BY DEF Sample
  <2>2. inbox[s] \in Seq(Sample) /\ Len(inbox[s]) < Depth
    BY <1>1 DEF SubscriptionTypeOK, Accepts
  <2>3. /\ Append(inbox[s], sample) \in Seq(Sample)
        /\ Len(Append(inbox[s], sample)) = Len(inbox[s]) + 1
    BY <2>1, <2>2, AppendProperties
  <2>4. Len(inbox[s]) \in Nat
    BY <2>2, LenProperties
  <2>5. inbox' = [inbox EXCEPT ![s] = Append(inbox[s], sample)]
        /\ last' = [last EXCEPT ![s] = data.n] /\ UNCHANGED <<drId, bound>>
    BY <1>1 DEF TryDeliver
  <2> HIDE DEF sample
  <2> QED BY <2>2, <2>3, <2>4, <2>5 DEF SubscriptionTypeOK
<1>2. CASE ~Accepts(s, data)
  BY <1>2 DEF TryDeliver, SubscriptionTypeOK
<1> QED BY <1>1, <1>2

\* Registering a slot keeps the slots well typed.
LEMMA SetDrIdType ==
  ASSUME SubscriptionTypeOK, NEW s \in Slot, NEW oid \in Oid, NEW topic \in Topic,
         SetDrId(s, oid, topic)
  PROVE  SubscriptionTypeOK'
BY DEF SubscriptionTypeOK, SetDrId

\* Receiving a sample keeps the slots well typed.
LEMMA RecvType ==
  ASSUME SubscriptionTypeOK, NEW s \in Slot, Recv(s)
  PROVE  SubscriptionTypeOK'
<1>1. inbox[s] \in Seq(Sample) /\ inbox[s] # <<>> /\ Len(inbox[s]) <= Depth
  BY DEF SubscriptionTypeOK, Recv
<1>2. Tail(inbox[s]) \in Seq(Sample) /\ Len(Tail(inbox[s])) = Len(inbox[s]) - 1
  BY <1>1, HeadTailProperties
<1>3. Len(inbox[s]) \in Nat
  BY <1>1, LenProperties
<1>4. inbox' = [inbox EXCEPT ![s] = Tail(inbox[s])] /\ UNCHANGED <<drId, bound, last>>
  BY DEF Recv
<1> QED BY <1>1, <1>2, <1>3, <1>4 DEF SubscriptionTypeOK

-----------------------------------------------------------------------------
(* The agent and the connection. *)

\* A frame the client writes, or loses, leaves the channels well typed.
LEMMA WriteType ==
  ASSUME AgentTypeOK, NEW msg \in ClientMsg,
         toAgent' = Append(toAgent, msg) \/ UNCHANGED toAgent,
         UNCHANGED <<toClient, owed, entityVars>>
  PROVE  AgentTypeOK'
<1>1. Append(toAgent, msg) \in Seq(ClientMsg)
  BY AppendProperties DEF AgentTypeOK
<1> QED BY <1>1 DEF AgentTypeOK, entityVars

\* Reading a frame takes it off the connection: it is a message of the agent.
LEMMA ReadType ==
  ASSUME AgentTypeOK, NEW await, Read(await)
  PROVE  AgentTypeOK' /\ Frame \in AgentMsg
<1>1. Frame \in AgentMsg /\ Tail(toClient) \in Seq(AgentMsg)
  BY TakeFirst DEF AgentTypeOK, Read, Frame
<1> QED BY <1>1 DEF AgentTypeOK, Read, entityVars

\* Serving a request.
LEMMA ServeType ==
  ASSUME AgentTypeOK, Serve
  PROVE  AgentTypeOK'
<1> DEFINE m == Head(toAgent)
<1>1. ASSUME toAgent # <<>>, NEW reply \in Reply, Answer(reply)
      PROVE  /\ toAgent' \in Seq(ClientMsg)
             /\ owed' \in Seq(Reply)
             /\ toClient' \in Seq(AgentMsg)
  <2>1. Tail(toAgent) \in Seq(ClientMsg)
    BY <1>1, TakeFirst DEF AgentTypeOK
  <2>2. Append(owed, reply) \in Seq(Reply)
    BY <1>1, AppendProperties DEF AgentTypeOK
  <2> QED BY <1>1, <2>1, <2>2 DEF Answer, AgentTypeOK
<1>2. ASSUME Serving("CREATE") \/ Serving("READ_DATA")
      PROVE  /\ m \in EntityRequest /\ toAgent # <<>>
             /\ Status(m.req, TRUE) \in Reply /\ Status(m.req, FALSE) \in Reply
             /\ m.oid \in Oid
             /\ m.type = "CREATE" => m.topic \in Topic \cup {NoTopic}
  <2>1. m \in ClientMsg /\ toAgent # <<>> /\ m.type \in {"CREATE", "READ_DATA"}
    BY <1>2, TakeFirst DEF Serving, AgentTypeOK
  <2>2. m \in EntityRequest
    BY <2>1 DEF ClientMsg, CreateClient
  <2> QED BY <2>1, <2>2 DEF EntityRequest, Status, Reply
<1>3. CASE ServeClient
  <2>1. StatusAgent(TRUE) \in Reply
    BY DEF StatusAgent, Reply
  <2>2. toAgent # <<>> /\ Answer(StatusAgent(TRUE))
    BY <1>3 DEF ServeClient, Serving
  <2>3. /\ toAgent' \in Seq(ClientMsg)
        /\ owed' \in Seq(Reply)
        /\ toClient' \in Seq(AgentMsg)
    BY <1>1, <2>1, <2>2
  <2>4. CASE UNCHANGED entityVars
    BY <2>3, <2>4 DEF entityVars, AgentTypeOK
  <2>5. CASE NoEntities
    BY <2>3, <2>5 DEF NoEntities, AgentTypeOK
  <2> QED BY <1>3, <2>4, <2>5 DEF ServeClient
<1>4. CASE ServeCreate
  <2>1. Answer(Status(m.req, TRUE)) /\ Serving("CREATE") /\ m.type = "CREATE"
    BY <1>4 DEF ServeCreate, Serving
  <2>2. /\ toAgent' \in Seq(ClientMsg)
        /\ owed' \in Seq(Reply)
        /\ toClient' \in Seq(AgentMsg)
    BY <1>1, <1>2, <2>1
  <2>3. CASE objs[m.oid] = m.topic
    BY <1>4, <2>2, <2>3 DEF ServeCreate, entityVars, AgentTypeOK
  <2>4. CASE objs[m.oid] # m.topic
    <3>1. /\ objs' = [objs EXCEPT ![m.oid] = m.topic]
          /\ reading' = reading \ {m.oid}
          /\ sent' = [sent EXCEPT ![m.oid] = 0]
      BY <1>4, <2>4 DEF ServeCreate
    <3>2. m.oid \in Oid /\ m.topic \in Topic \cup {NoTopic}
      BY <1>2, <2>1
    <3> HIDE DEF m
    <3> QED BY <2>2, <3>1, <3>2 DEF AgentTypeOK
  <2> QED BY <2>3, <2>4
<1>5. CASE ServeReadData
  <2>1. /\ Answer(Status(m.req, TRUE)) /\ Serving("READ_DATA")
        /\ objs[m.oid] \in Topic
        /\ reading' = reading \cup {m.oid} /\ UNCHANGED <<objs, sent>>
    BY <1>5 DEF ServeReadData
  <2>2. /\ toAgent' \in Seq(ClientMsg)
        /\ owed' \in Seq(Reply)
        /\ toClient' \in Seq(AgentMsg)
    BY <1>1, <1>2, <2>1
  <2>3. m.oid \in Oid
    BY <1>2, <2>1
  <2> HIDE DEF m
  <2> QED BY <2>1, <2>2, <2>3 DEF AgentTypeOK
<1>6. CASE ServeWriteData
  <2>1. Tail(toAgent) \in Seq(ClientMsg)
    BY <1>6, TakeFirst DEF ServeWriteData, Serving, AgentTypeOK
  <2> QED BY <1>6, <2>1 DEF ServeWriteData, entityVars, AgentTypeOK
<1>7. CASE Refuse
  <2>1. StatusAgent(FALSE) \in Reply
    BY DEF StatusAgent, Reply
  <2>2. /\ toAgent' \in Seq(ClientMsg)
        /\ owed' \in Seq(Reply)
        /\ toClient' \in Seq(AgentMsg)
    <3>1. CASE Serving("CREATE_CLIENT") /\ Answer(StatusAgent(FALSE))
      BY <1>1, <2>1, <3>1 DEF Serving
    <3>2. CASE (Serving("CREATE") \/ Serving("READ_DATA")) /\ Answer(Status(m.req, FALSE))
      BY <1>1, <1>2, <3>2
    <3> QED BY <1>7, <3>1, <3>2 DEF Refuse
  <2> QED BY <1>7, <2>2 DEF Refuse, entityVars, AgentTypeOK
<1> QED BY <1>3, <1>4, <1>5, <1>6, <1>7 DEF Serve

\* Sending a reply, a sample or anything else to the client.
LEMMA SendType ==
  ASSUME AgentTypeOK, SendReply \/ SendNoise \/ \E oid \in reading : Stream(oid)
  PROVE  AgentTypeOK'
<1>1. ASSUME NEW msg \in AgentMsg
      PROVE  Append(toClient, msg) \in Seq(AgentMsg)
  BY <1>1, AppendProperties DEF AgentTypeOK
<1>2. CASE SendReply
  <2>1. Head(owed) \in Reply /\ Tail(owed) \in Seq(Reply)
    BY <1>2, TakeFirst DEF SendReply, AgentTypeOK
  <2>2. Head(owed) \in AgentMsg
    BY <2>1 DEF AgentMsg
  <2> QED BY <1>1, <1>2, <2>1, <2>2 DEF SendReply, entityVars, AgentTypeOK
<1>3. CASE SendNoise
  <2>1. PICK type \in Noise : toClient' = Append(toClient, [type |-> type])
    BY <1>3 DEF SendNoise
  <2>2. [type |-> type] \in AgentMsg
    BY DEF AgentMsg
  <2> QED BY <1>1, <1>3, <2>1, <2>2 DEF SendNoise, entityVars, AgentTypeOK
<1>4. ASSUME NEW oid \in reading, Stream(oid)
      PROVE  AgentTypeOK'
  <2>1. PICK good \in Goodness :
          toClient' = Append(toClient, Data(oid, objs[oid], sent[oid] + 1, good))
    BY <1>4 DEF Stream
  <2>2. oid \in Oid /\ objs[oid] \in Topic /\ sent[oid] \in Nat /\ good \in BOOLEAN
    BY DEF AgentTypeOK
  <2>3. Data(oid, objs[oid], sent[oid] + 1, good) \in AgentMsg
    BY <2>2 DEF Data, AgentMsg
  <2>4. toClient' \in Seq(AgentMsg)
    BY <1>1, <2>1, <2>3
  <2>5. sent' = [sent EXCEPT ![oid] = sent[oid] + 1] /\ UNCHANGED <<toAgent, owed, objs, reading>>
    BY <1>4 DEF Stream
  <2>6. sent' \in [Oid -> Nat]
    BY <2>2, <2>5 DEF AgentTypeOK
  <2> QED BY <2>4, <2>5, <2>6 DEF AgentTypeOK
<1> QED BY <1>2, <1>3, <1>4

-----------------------------------------------------------------------------
(* The call in progress.  TypeOK alone is not inductive: that the message,  *)
(* the topic and the slot of a call are there when a step needs them        *)
(* follows from which call it is and where it is suspended.                 *)

\* A call that begins is well formed.
LEMMA BeginType ==
  ASSUME NEW op \in {"connect", "publish"} \cup Creates, op # "connect" => op \in Calls,
         NEW msg \in ClientMsg, NEW node \in Node,
         NEW topic \in Topic \cup {NoTopic}, NEW slot \in Slot \cup {NoSlot},
         op = "connect" => msg = CreateClient,
         op = "publish" => msg.type = "WRITE_DATA",
         op \in Creates => msg \in EntityRequest,
         op \in {"publisher", "subscription"} => topic \in Topic,
         op = "subscription" => slot \in Slot,
         Begin(op, msg, node, topic, slot)
  PROVE  CallTypeOK' /\ CallFits'
<1>1. CallTypeOK'
  BY DEF Begin, CallTypeOK, Results
<1>2. CallFits'
  BY DEF Begin, CallFits, Creates
<1> QED BY <1>1, <1>2

\* A call that goes on to its next request stays well formed.
LEMMA ProceedType ==
  ASSUME CallTypeOK, CallFits, call.op \in Creates, call.step \in {1, 2},
         NEW msg \in EntityRequest, Proceed(msg)
  PROVE  CallTypeOK' /\ CallFits'
<1>1. msg \in ClientMsg
  BY DEF ClientMsg
<1>2. /\ call'.op = call.op /\ call'.node = call.node
      /\ call'.topic = call.topic /\ call'.slot = call.slot
      /\ call'.step = call.step + 1 /\ call'.msg = msg
  BY DEF Proceed, CallTypeOK
<1>3. CallTypeOK'
  <2>1. call.step + 1 \in 0 .. 3
    OBVIOUS
  <2>2. call' = [call EXCEPT !.step = call.step + 1, !.msg = msg]
    BY DEF Proceed
  <2>3. call' \in [op: {"none", "connect"} \cup Calls, step: 0 .. 3,
                   msg: ClientMsg \cup {NoMsg}, node: Node,
                   topic: Topic \cup {NoTopic}, slot: Slot \cup {NoSlot}]
    BY <1>1, <2>1, <2>2 DEF CallTypeOK
  <2> QED BY <2>3 DEF Proceed, CallTypeOK
<1>4. CallFits'
  BY <1>2 DEF Proceed, CallFits, Creates
<1> QED BY <1>3, <1>4

\* After a return there is no call.
LEMMA ReturnType ==
  ASSUME NEW res \in Results, Return(res)
  PROVE  CallTypeOK' /\ CallFits'
<1>1. NoCall \in [op: {"none", "connect"} \cup Calls, step: 0 .. 3,
                  msg: ClientMsg \cup {NoMsg}, node: Node,
                  topic: Topic \cup {NoTopic}, slot: Slot \cup {NoSlot}]
  BY DEF NoCall, NoNode, Node
<1>2. CallTypeOK'
  BY <1>1 DEF Return, CallTypeOK
<1>3. CallFits'
  BY DEF Return, CallFits, NoCall, Creates
<1> QED BY <1>2, <1>3

\* dispatch_data_payload keeps the slots well typed.
LEMMA DispatchType ==
  ASSUME TypeOK, NEW data \in AgentMsg, data.type = "DATA", Dispatch(data)
  PROVE  SubscriptionTypeOK'
<1>1. data.topic \in Topic /\ data.n \in Nat
  BY DEF AgentMsg, Reply
<1>2. CASE UNCHANGED slotVars
  BY <1>2 DEF TypeOK, slotVars, SubscriptionTypeOK
<1>3. ASSUME NEW i \in Routes(data.oid), TryDeliver(table[i], data)
      PROVE  SubscriptionTypeOK'
  <2>1. table[i] \in Slot
    BY ElementOfSeq DEF Routes, TypeOK, SessionTypeOK
  <2> QED BY <1>1, <1>3, <2>1, TryDeliverType DEF TypeOK
<1> QED BY <1>2, <1>3 DEF Dispatch

-----------------------------------------------------------------------------
(* Type correctness. *)

LEMMA InitTypeInv == Init => TypeInv
<1> SUFFICES ASSUME Init PROVE TypeInv
  OBVIOUS
<1>1. SessionTypeOK
  BY DEF Init, SessionTypeOK, ReqId
<1>2. CallTypeOK /\ CallFits
  <2>1. NoCall \in [op: {"none", "connect"} \cup Calls, step: 0 .. 3,
                    msg: ClientMsg \cup {NoMsg}, node: Node,
                    topic: Topic \cup {NoTopic}, slot: Slot \cup {NoSlot}]
    BY DEF NoCall, NoNode, Node
  <2>2. CallTypeOK
    BY <2>1 DEF Init, CallTypeOK, Results
  <2>3. CallFits
    BY DEF Init, CallFits, NoCall, Creates
  <2> QED BY <2>2, <2>3
<1>3. AppTypeOK
  <2>1. open \in BOOLEAN
    BY DEF Init
  <2>2. sessions \in 0 .. MaxSessions
    BY DEF Init
  <2> QED BY <2>1, <2>2 DEF Init, AppTypeOK
<1>4. SubscriptionTypeOK
  BY DEF Init, SubscriptionInit, SubscriptionTypeOK
<1>5. AgentTypeOK
  BY DEF Init, AgentInit, AgentTypeOK
<1> QED BY <1>1, <1>2, <1>3, <1>4, <1>5 DEF TypeInv, TypeOK

\* Reading a frame: what every reaction to it starts from.
LEMMA ReadTypeInv ==
  ASSUME TypeInv, NEW await, Read(await)
  PROVE  AgentTypeOK' /\ Frame \in AgentMsg
BY ReadType DEF TypeInv, TypeOK

\* A granted call is a create method at one of its steps before the last.
LEMMA GrantedType ==
  ASSUME TypeInv, NEW op \in Creates, NEW step \in 1 .. 3, Granted(op, step)
  PROVE  /\ AgentTypeOK' /\ SessionTypeOK /\ AppTypeOK /\ SubscriptionTypeOK
         /\ CallTypeOK /\ CallFits /\ call.op = op /\ call.step = step
         /\ call.msg \in EntityRequest /\ call.msg.oid \in Oid
         /\ call.node \in Node /\ call.topic \in Topic \cup {NoTopic}
<1>1. Read("wait") /\ pc = "wait" /\ call.op = op /\ call.step = step
  BY DEF Granted, Read
<1>2. call.msg \in EntityRequest
  BY <1>1 DEF TypeInv, CallFits
<1>3. call.msg.oid \in Oid
  BY <1>2 DEF EntityRequest
<1>4. call.node \in Node /\ call.topic \in Topic \cup {NoTopic}
  BY DEF TypeInv, TypeOK, CallTypeOK
<1> QED BY <1>1, <1>2, <1>3, <1>4, ReadTypeInv DEF TypeInv, TypeOK

\* The id of an entity whose index is being taken.
LEMMA NextOid ==
  ASSUME SessionTypeOK, NEW k \in Kind
  PROVE  ObjectId(nextIdx[k], k) \in Oid
BY ObjectIdType DEF SessionTypeOK

\* Taking a request id, and indices, keeps the counters well typed.
LEMMA CountersType ==
  ASSUME SessionTypeOK, TakeReqId, UNCHANGED table,
         UNCHANGED nextIdx \/ \E kinds \in SUBSET Kind : Alloc(kinds)
  PROVE  SessionTypeOK'
<1>1. reqId' \in ReqId
  BY NextReqIdType DEF SessionTypeOK, TakeReqId
<1>2. nextIdx' \in [Kind -> Nat]
  BY AllocType DEF SessionTypeOK
<1> QED BY <1>1, <1>2 DEF SessionTypeOK

\* The part of the state a step leaves alone stays well typed.
LEMMA UnchangedTypes ==
  ASSUME TypeInv
  PROVE  /\ UNCHANGED sessionVars => SessionTypeOK'
         /\ UNCHANGED <<pc, call, result>> => CallTypeOK' /\ CallFits'
         /\ UNCHANGED appVars => AppTypeOK'
         /\ UNCHANGED slotVars => SubscriptionTypeOK'
         /\ UNCHANGED agentVars => AgentTypeOK'
<1>1. UNCHANGED sessionVars => SessionTypeOK'
  BY DEF TypeInv, TypeOK, sessionVars, SessionTypeOK
<1>2. UNCHANGED <<pc, call, result>> => CallTypeOK' /\ CallFits'
  BY DEF TypeInv, TypeOK, CallTypeOK, CallFits
<1>3. UNCHANGED appVars => AppTypeOK'
  BY Zenon DEF TypeInv, TypeOK, appVars, AppTypeOK
<1>4. UNCHANGED slotVars => SubscriptionTypeOK'
  BY DEF TypeInv, TypeOK, slotVars, SubscriptionTypeOK
<1>5. UNCHANGED agentVars => AgentTypeOK'
  BY DEF TypeInv, TypeOK, agentVars, AgentTypeOK
<1> QED BY <1>1, <1>2, <1>3, <1>4, <1>5

\* The calls that begin.
LEMMA StartTypeInv ==
  ASSUME TypeInv, Start
  PROVE  TypeInv'
<1> USE DEF TypeInv, TypeOK
<1>1. CASE Connect
  <2>1. CallTypeOK' /\ CallFits'
    <3>1. CreateClient \in ClientMsg /\ NoNode \in Node
      BY DEF ClientMsg, NoNode, Node
    <3>2. Begin("connect", CreateClient, NoNode, NoTopic, NoSlot)
      BY <1>1 DEF Connect
    <3> QED BY <3>1, <3>2, BeginType DEF Creates
  <2>2. SessionTypeOK' /\ SubscriptionTypeOK'
    BY <1>1, UnchangedTypes DEF Connect
  <2>3. AppTypeOK'
    <3>1. open' \in BOOLEAN
      BY <1>1 DEF Connect
    <3>2. sessions' \in 0 .. MaxSessions /\ link' \in {"up", "down"}
      BY <1>1 DEF Connect, AppTypeOK
    <3>3. nodes' \subseteq Node /\ pubs' \subseteq Publisher
      BY <1>1 DEF Connect, AppTypeOK
    <3> QED BY <3>1, <3>2, <3>3 DEF AppTypeOK
  <2>4. AgentTypeOK'
    BY <1>1 DEF Connect, entityVars, AgentTypeOK
  <2> QED BY <2>1, <2>2, <2>3, <2>4
<1>2. CASE CreateNode
  <2> DEFINE node == [participant |-> nextIdx["PARTICIPANT"],
                      publisher   |-> nextIdx["PUBLISHER"],
                      subscriber  |-> nextIdx["SUBSCRIBER"]]
             oid  == ParticipantOf(node)
             msg  == CreateMsg(reqId, oid, oid, NoTopic)
  <2>1. /\ Alloc({"PARTICIPANT", "PUBLISHER", "SUBSCRIBER"}) /\ TakeReqId
        /\ Begin("node", msg, node, NoTopic, NoSlot)
        /\ "node" \in Calls
        /\ UNCHANGED <<table, appVars, slotVars, agentVars>>
    BY <1>2 DEF CreateNode, Callable
  <2>2. node \in Node
    BY DEF Node, SessionTypeOK, Kind
  <2>3. msg \in EntityRequest
    BY <2>2, NodeOids, RequestType DEF SessionTypeOK
  <2>4. msg \in ClientMsg
    BY <2>3 DEF ClientMsg
  <2>5. CallTypeOK' /\ CallFits'
    <3> HIDE DEF node, msg
    <3> QED BY <2>1, <2>2, <2>3, <2>4, BeginType DEF Creates
  <2>6. SessionTypeOK'
    BY <2>1, CountersType DEF Kind
  <2> QED BY <2>1, <2>5, <2>6, UnchangedTypes
<1>3. ASSUME NEW op \in {"publisher", "subscription"}, op \in Calls,
             NEW node \in nodes, NEW topic \in Topic, NEW slot \in Slot \cup {NoSlot},
             op = "subscription" => slot \in Slot,
             CreateTopic(op, node, topic, slot)
      PROVE  TypeInv'
  <2> DEFINE msg == CreateMsg(reqId, ObjectId(nextIdx["TOPIC"], "TOPIC"),
                              ParticipantOf(node), topic)
  <2>1. /\ Alloc({"TOPIC"}) /\ TakeReqId
        /\ Begin(op, msg, node, topic, slot)
        /\ UNCHANGED <<table, appVars, slotVars, agentVars>>
    BY <1>3 DEF CreateTopic
  <2>2. node \in Node
    BY DEF AppTypeOK
  <2>3. msg \in EntityRequest
    BY <2>2, NodeOids, NextOid, RequestType DEF SessionTypeOK, Kind
  <2>4. msg \in ClientMsg
    BY <2>3 DEF ClientMsg
  <2>5. CallTypeOK' /\ CallFits'
    <3> HIDE DEF msg
    <3> QED BY <1>3, <2>1, <2>2, <2>3, <2>4, BeginType DEF Creates
  <2>6. SessionTypeOK'
    BY <2>1, CountersType DEF Kind
  <2> QED BY <2>1, <2>5, <2>6, UnchangedTypes
<1>4. ASSUME NEW node \in nodes, NEW topic \in Topic, CreatePublisher(node, topic)
      PROVE  TypeInv'
  BY <1>3, <1>4 DEF CreatePublisher, Callable
<1>5. ASSUME NEW node \in nodes, NEW topic \in Topic, NEW slot \in Slot,
             CreateSubscription(node, topic, slot)
      PROVE  TypeInv'
  BY <1>3, <1>5 DEF CreateSubscription, Callable
<1>6. CASE RefuseSubscription \/ RefuseName
  BY <1>6, ReturnType, UnchangedTypes DEF RefuseSubscription, RefuseName, Results
<1>7. ASSUME NEW pub \in pubs, Publish(pub)
      PROVE  TypeInv'
  <2> DEFINE msg == WriteDataMsg(pub.oid, pub.topic)
  <2>1. /\ "publish" \in Calls
        /\ Begin("publish", msg, NoNode, pub.topic, NoSlot)
        /\ UNCHANGED <<sessionVars, appVars, slotVars, agentVars>>
    BY <1>7 DEF Publish, Callable
  <2>2. pub.oid \in Oid /\ pub.topic \in Topic
    BY DEF AppTypeOK, Publisher
  <2>3. msg \in ClientMsg /\ msg.type = "WRITE_DATA"
    BY <2>2 DEF WriteDataMsg, ClientMsg
  <2>4. NoNode \in Node
    BY DEF NoNode, Node
  <2>5. CallTypeOK' /\ CallFits'
    <3> HIDE DEF msg
    <3> QED BY <2>1, <2>2, <2>3, <2>4, BeginType DEF Creates
  <2> QED BY <2>1, <2>5, UnchangedTypes
<1>8. ASSUME NEW op \in {"spin_once", "spin"}, Spin(op)
      PROVE  TypeInv'
  <2>1. op \in Calls /\ pc' = "spin" /\ call' = [NoCall EXCEPT !.op = op] /\ result' = "none"
    BY <1>8 DEF Spin, Callable
  <2>2. CallTypeOK'
    BY <2>1 DEF CallTypeOK, NoCall, NoNode, Node, Results
  <2>3. CallFits'
    BY <2>1 DEF CallFits, NoCall, Creates
  <2> QED BY <1>8, <2>2, <2>3, UnchangedTypes DEF Spin
<1> QED BY <1>1, <1>2, <1>4, <1>5, <1>6, <1>7, <1>8 DEF Start

\* Writing, failing, and the frames of connect and spin.
LEMMA TransportTypeInv ==
  ASSUME TypeInv,
         WriteFrame \/ TransportFails \/ HandshakeOk \/ HandshakeFails \/ SpinFrame
  PROVE  TypeInv'
<1> USE DEF TypeInv, TypeOK
<1>1. CASE WriteFrame
  <2>1. call.msg \in ClientMsg /\ call.op \in {"connect", "publish"} \cup Creates
    <3>1. pc = "write"
      BY <1>1 DEF WriteFrame
    <3>2. call.op \in {"connect"} \cup Calls /\ call.op \notin {"spin", "spin_once"}
      BY <3>1 DEF CallTypeOK, CallFits
    <3>3. call.op \in {"connect", "publish"} \cup Creates
      BY <3>2 DEF Creates
    <3> QED BY <3>3 DEF CallFits, ClientMsg
  <2>2. AgentTypeOK'
    BY <1>1, <2>1, WriteType DEF WriteFrame
  <2>3. CASE call.op = "publish"
    <3>1. Return("ok")
      BY <1>1, <2>3 DEF WriteFrame, AfterWrite
    <3>2. CallTypeOK' /\ CallFits'
      BY <3>1, ReturnType DEF Results
    <3> QED BY <1>1, <2>2, <3>2, UnchangedTypes DEF WriteFrame
  <2>4. CASE call.op = "connect"
    <3>1. pc' = "handshake" /\ UNCHANGED <<call, result>>
      BY <1>1, <2>4 DEF WriteFrame, AfterWrite
    <3>2. CallTypeOK' /\ CallFits'
      BY <2>4, <3>1 DEF CallTypeOK, CallFits
    <3> QED BY <1>1, <2>2, <3>2, UnchangedTypes DEF WriteFrame
  <2>5. CASE call.op \in Creates
    <3>1. pc' = "wait" /\ UNCHANGED <<call, result>>
      BY <1>1, <2>5 DEF WriteFrame, AfterWrite, Creates
    <3>2. CallTypeOK' /\ CallFits'
      BY <2>5, <3>1 DEF CallTypeOK, CallFits, Creates
    <3> QED BY <1>1, <2>2, <3>2, UnchangedTypes DEF WriteFrame
  <2> QED BY <2>1, <2>3, <2>4, <2>5
<1>2. CASE TransportFails
  BY <1>2, ReturnType, UnchangedTypes DEF TransportFails, GiveUp, Results
<1>3. CASE HandshakeOk
  <2>1. CallTypeOK' /\ CallFits' /\ AgentTypeOK' /\ SubscriptionTypeOK'
    BY <1>3, ReturnType, ReadTypeInv, UnchangedTypes DEF HandshakeOk, Results
  <2>2. SessionTypeOK'
    BY <1>3 DEF HandshakeOk, SessionTypeOK, ReqId
  <2>3. AppTypeOK'
    <3>1. open' \in BOOLEAN
      BY <1>3 DEF HandshakeOk
    <3> QED BY <1>3, <3>1 DEF HandshakeOk, AppTypeOK
  <2> QED BY <2>1, <2>2, <2>3
<1>4. CASE HandshakeFails
  BY <1>4, ReturnType, ReadTypeInv, UnchangedTypes DEF HandshakeFails, HandshakeErrors, Results
<1>5. CASE SpinFrame
  <2>1. AgentTypeOK' /\ Frame \in AgentMsg
    BY <1>5, ReadTypeInv DEF SpinFrame
  <2>2. SubscriptionTypeOK'
    BY <1>5, <2>1, DispatchType, UnchangedTypes DEF SpinFrame
  <2>3. CallTypeOK' /\ CallFits'
    BY <1>5, ReturnType, UnchangedTypes DEF SpinFrame, Results
  <2> QED BY <1>5, <2>1, <2>2, <2>3, UnchangedTypes DEF SpinFrame
<1> QED BY <1>1, <1>2, <1>3, <1>4, <1>5

\* The frames read while a call waits for its STATUS, up to the one it awaits.
LEMMA WaitTypeInv ==
  ASSUME TypeInv,
         WaitData \/ WaitSkips \/ WaitTooShort \/ WaitMismatch \/ WaitRejected
  PROVE  TypeInv'
<1> USE DEF TypeInv, TypeOK
<1>1. CASE WaitData
  <2>1. AgentTypeOK' /\ Frame \in AgentMsg
    BY <1>1, ReadTypeInv DEF WaitData
  <2>2. SubscriptionTypeOK'
    BY <1>1, <2>1, DispatchType DEF WaitData
  <2> QED BY <1>1, <2>1, <2>2, UnchangedTypes DEF WaitData
<1>2. CASE WaitSkips
  BY <1>2, ReadTypeInv, UnchangedTypes DEF WaitSkips
<1>3. CASE WaitTooShort
  BY <1>3, ReturnType, ReadTypeInv, UnchangedTypes DEF WaitTooShort, Results
<1>4. CASE WaitMismatch
  BY <1>4, ReturnType, ReadTypeInv, UnchangedTypes DEF WaitMismatch, Results
<1>5. CASE WaitRejected
  BY <1>5, ReturnType, ReadTypeInv, UnchangedTypes DEF WaitRejected, Results
<1> QED BY <1>1, <1>2, <1>3, <1>4, <1>5

\* The steps of a create method from one granted request to the next.
LEMMA GoesOnTypeInv ==
  ASSUME TypeInv,
         NodeGoesOn \/ PublisherGoesOn \/ SubscriptionGoesOn \/ SubscriptionReads
  PROVE  TypeInv'
<1> USE DEF Creates
<1> DEFINE proceeds(op, step, msg) ==
             /\ Granted(op, step)
             /\ Proceed(msg)
             /\ TakeReqId
             /\ UNCHANGED nextIdx \/ \E kinds \in SUBSET Kind : Alloc(kinds)
             /\ UNCHANGED <<table, appVars, slotVars>>
<1>1. ASSUME NEW op \in Creates, NEW step \in {1, 2}, NEW msg \in EntityRequest,
             proceeds(op, step, msg)
      PROVE  TypeInv'
  <2>1. /\ AgentTypeOK' /\ SessionTypeOK /\ CallTypeOK /\ CallFits
        /\ call.op = op /\ call.step = step
    BY <1>1, GrantedType
  <2>2. CallTypeOK' /\ CallFits'
    BY <1>1, <2>1, ProceedType
  <2>3. SessionTypeOK'
    BY <1>1, <2>1, CountersType
  <2> QED BY <1>1, <2>1, <2>2, <2>3, UnchangedTypes DEF TypeInv, TypeOK
<1>2. /\ reqId \in ReqId
      /\ ObjectId(nextIdx["DATAWRITER"], "DATAWRITER") \in Oid
      /\ ObjectId(nextIdx["DATAREADER"], "DATAREADER") \in Oid
  BY NextOid DEF TypeInv, TypeOK, SessionTypeOK, Kind
<1>3. ASSUME NEW op \in Creates, NEW step \in {1, 2}, Granted(op, step)
      PROVE  /\ ParticipantOf(call.node) \in Oid /\ PublisherOf(call.node) \in Oid
             /\ SubscriberOf(call.node) \in Oid /\ call.msg.oid \in Oid
             /\ call.topic \in Topic \cup {NoTopic}
  BY <1>3, GrantedType, NodeOids
<1>4. CASE NodeGoesOn
  <2>1. ASSUME NEW oid \in {PublisherOf(call.node), SubscriberOf(call.node)},
               NEW step \in {1, 2}, Granted("node", step),
               Proceed(CreateMsg(reqId, oid, ParticipantOf(call.node), NoTopic))
        PROVE  TypeInv'
    <3>1. CreateMsg(reqId, oid, ParticipantOf(call.node), NoTopic) \in EntityRequest
      BY <1>2, <1>3, <2>1, RequestType
    <3> QED BY <1>1, <1>4, <2>1, <3>1 DEF NodeGoesOn
  <2> QED BY <1>4, <2>1 DEF NodeGoesOn
<1>5. CASE PublisherGoesOn
  <2> DEFINE msg == CreateMsg(reqId, ObjectId(nextIdx["DATAWRITER"], "DATAWRITER"),
                              PublisherOf(call.node), call.topic)
  <2>1. proceeds("publisher", 1, msg)
    BY <1>5 DEF PublisherGoesOn, Kind
  <2>2. msg \in EntityRequest
    BY <1>2, <1>3, <2>1, RequestType
  <2> QED BY <1>1, <2>1, <2>2
<1>6. CASE SubscriptionGoesOn
  <2> DEFINE msg == CreateMsg(reqId, ObjectId(nextIdx["DATAREADER"], "DATAREADER"),
                              SubscriberOf(call.node), call.topic)
  <2>1. proceeds("subscription", 1, msg)
    BY <1>6 DEF SubscriptionGoesOn, Kind
  <2>2. msg \in EntityRequest
    BY <1>2, <1>3, <2>1, RequestType
  <2> QED BY <1>1, <2>1, <2>2
<1>7. CASE SubscriptionReads
  <2> DEFINE msg == ReadDataMsg(reqId, call.msg.oid)
  <2>1. proceeds("subscription", 2, msg)
    BY <1>7 DEF SubscriptionReads
  <2>2. msg \in EntityRequest
    BY <1>2, <1>3, <2>1, RequestType
  <2> QED BY <1>1, <2>1, <2>2
<1> QED BY <1>4, <1>5, <1>6, <1>7

\* The last step of a create method.
LEMMA ReadyTypeInv ==
  ASSUME TypeInv, NodeReady \/ PublisherReady \/ SubscriptionReady
  PROVE  TypeInv'
<1> USE DEF TypeInv, TypeOK, Creates
<1>1. ASSUME NEW op \in Creates, NEW step \in 1 .. 3, Granted(op, step), Return("ok")
      PROVE  /\ AgentTypeOK' /\ CallTypeOK' /\ CallFits'
             /\ call.node \in Node /\ call.msg.oid \in Oid /\ call.op = op
  BY <1>1, GrantedType, ReturnType DEF Results
<1>2. CASE NodeReady
  <2>1. Granted("node", 3) /\ Return("ok")
    BY <1>2 DEF NodeReady
  <2>2. nodes' \subseteq Node
    BY <1>1, <1>2, <2>1 DEF NodeReady, AppTypeOK
  <2>3. AppTypeOK'
    BY <1>2, <2>2, Zenon DEF NodeReady, AppTypeOK
  <2> QED BY <1>1, <1>2, <2>1, <2>3, UnchangedTypes DEF NodeReady
<1>3. CASE PublisherReady
  <2>1. Granted("publisher", 2) /\ Return("ok")
    BY <1>3 DEF PublisherReady
  <2>2. [oid |-> call.msg.oid, topic |-> call.topic] \in Publisher
    BY <1>1, <2>1 DEF CallFits, Publisher
  <2>3. AppTypeOK'
    BY <1>3, <2>2, Zenon DEF PublisherReady, AppTypeOK
  <2> QED BY <1>1, <1>3, <2>1, <2>3, UnchangedTypes DEF PublisherReady
<1>4. CASE SubscriptionReady
  <2>1. Granted("subscription", 3) /\ Return("ok")
    BY <1>4 DEF SubscriptionReady
  <2>2. call.slot \in Slot /\ call.topic \in Topic /\ call.msg.oid \in Oid
    BY <1>1, <2>1 DEF CallFits
  <2>3. SubscriptionTypeOK'
    BY <1>4, <2>2, SetDrIdType DEF SubscriptionReady
  <2>4. SessionTypeOK'
    BY <1>4, <2>2, AppendProperties DEF SubscriptionReady, SessionTypeOK
  <2> QED BY <1>1, <1>4, <2>1, <2>3, <2>4, UnchangedTypes DEF SubscriptionReady
<1> QED BY <1>2, <1>3, <1>4

\* What the agent, the receiving tasks and the network do between the steps
\* of the session, and a call that is dropped.
LEMMA OthersTypeInv ==
  ASSUME TypeInv,
         Interrupted \/ LinkFails \/ Receive \/ AgentServes \/ AgentReplies \/ AgentSends
  PROVE  TypeInv'
<1> USE DEF TypeInv, TypeOK
<1>1. CASE Interrupted
  BY <1>1, ReturnType, UnchangedTypes DEF Interrupted, DropCall, TransportErrs, EncodeFails, GiveUp,
                                          Results
<1>2. CASE LinkFails
  <2>1. AppTypeOK'
    BY <1>2, Zenon DEF LinkFails, AppTypeOK
  <2> QED BY <1>2, <2>1, UnchangedTypes DEF LinkFails
<1>3. CASE Receive
  BY <1>3, RecvType, UnchangedTypes DEF Receive
<1>4. CASE AgentServes
  BY <1>4, ServeType, UnchangedTypes DEF AgentServes, clientVars
<1>5. CASE AgentReplies \/ AgentSends
  BY <1>5, SendType, UnchangedTypes DEF AgentReplies, AgentSends, clientVars
<1> QED BY <1>1, <1>2, <1>3, <1>4, <1>5

LEMMA NextTypeInv == TypeInv /\ [Next]_vars => TypeInv'
<1> SUFFICES ASSUME TypeInv, [Next]_vars PROVE TypeInv'
  OBVIOUS
<1>1. CASE Start
  BY <1>1, StartTypeInv
<1>2. CASE Progress
  BY <1>2, TransportTypeInv, WaitTypeInv, GoesOnTypeInv, ReadyTypeInv DEF Progress
<1>3. CASE Interrupted \/ LinkFails \/ Receive \/ AgentServes \/ AgentReplies \/ AgentSends
  BY <1>3, OthersTypeInv
<1>4. CASE UNCHANGED vars
  BY <1>4, UnchangedTypes DEF vars, TypeInv, TypeOK
<1> QED BY <1>1, <1>2, <1>3, <1>4 DEF Next

LEMMA TypeInvariant == Spec => []TypeInv
BY InitTypeInv, NextTypeInv, PTL DEF Spec

\* In every behaviour of the session, with any number of slots, topics,
\* samples and calls, the fields of the session, the call in progress, the
\* slots and the frames of the connection are well typed; in particular no
\* inbox outgrows its depth and no request id is 0 (next_req, try_deliver).
THEOREM TypeCorrect == Spec => []TypeOK
<1>1. TypeInv => TypeOK
  BY DEF TypeInv
<1> QED BY <1>1, TypeInvariant, PTL

-----------------------------------------------------------------------------
(* Room in the dispatch table.                                              *)

\* No step but the last of a subscription call touches the table while one is
\* in progress, so what the check at its start saw still holds at the push.
LEMMA RoomStep ==
  ASSUME TypeInv, RoomInv, [Next]_vars
  PROVE  RoomInv'
<1> USE DEF RoomInv, RoomForPush
<1>1. Len(table) \in Nat
  BY LenProperties DEF TypeInv, TypeOK, SessionTypeOK
<1>2. ASSUME UNCHANGED table, call'.op = call.op \/ call'.op # "subscription"
      PROVE  RoomInv'
  BY <1>2
<1>3. ASSUME NEW res, Return(res)
      PROVE  call'.op # "subscription"
  BY <1>3 DEF Return, NoCall
<1>4. ASSUME NEW msg, Proceed(msg)
      PROVE  call'.op = call.op
  BY <1>4 DEF Proceed, TypeInv, TypeOK, CallTypeOK
<1>5. CASE Start
  <2>1. CASE Connect
    BY <1>2, <2>1 DEF Connect, Begin, sessionVars
  <2>2. CASE CreateNode
    BY <1>2, <2>2 DEF CreateNode, Begin
  <2>3. ASSUME NEW node \in nodes, NEW topic \in Topic, CreatePublisher(node, topic)
        PROVE  RoomInv'
    BY <1>2, <2>3 DEF CreatePublisher, CreateTopic, Begin
  <2>4. ASSUME NEW node \in nodes, NEW topic \in Topic, NEW slot \in Slot,
               CreateSubscription(node, topic, slot)
        PROVE  RoomInv'
    BY <2>4 DEF CreateSubscription, CreateTopic, Begin
  <2>5. CASE RefuseSubscription \/ RefuseName
    BY <1>2, <1>3, <2>5 DEF RefuseSubscription, RefuseName, sessionVars
  <2>6. ASSUME NEW pub \in pubs, Publish(pub)
        PROVE  RoomInv'
    BY <1>2, <2>6 DEF Publish, Begin, sessionVars
  <2>7. ASSUME NEW op \in {"spin_once", "spin"}, Spin(op)
        PROVE  RoomInv'
    BY <1>2, <2>7 DEF Spin, NoCall, sessionVars
  <2> QED BY <1>5, <2>1, <2>2, <2>3, <2>4, <2>5, <2>6, <2>7 DEF Start
<1>6. CASE HandshakeOk
  <2>1. table' = <<>> /\ call'.op # "subscription"
    BY <1>3, <1>6 DEF HandshakeOk
  <2> QED BY <2>1
<1>7. CASE SubscriptionReady
  <2>1. Len(table) < MaxSubscriptions /\ call.slot \in Slot /\ table \in Seq(Slot)
    <3>1. Granted("subscription", 3)
      BY <1>7 DEF SubscriptionReady
    <3> QED BY <3>1 DEF Granted, TypeInv, TypeOK, SessionTypeOK, CallFits
  <2>2. Len(table') = Len(table) + 1 /\ call'.op # "subscription"
    BY <1>3, <1>7, <2>1, AppendProperties DEF SubscriptionReady
  <2> QED BY <1>1, <2>1, <2>2
<1>8. CASE WriteFrame
  BY <1>2, <1>3, <1>8 DEF WriteFrame, AfterWrite, sessionVars
<1>9. CASE TransportFails \/ HandshakeFails \/ SpinFrame \/ Interrupted
  BY <1>2, <1>3, <1>9 DEF TransportFails, GiveUp, HandshakeFails, SpinFrame, Interrupted, DropCall,
                          TransportErrs, EncodeFails, sessionVars
<1>10. CASE WaitData \/ WaitSkips \/ WaitTooShort \/ WaitMismatch \/ WaitRejected
  BY <1>2, <1>3, <1>10
     DEF WaitData, WaitSkips, WaitTooShort, WaitMismatch, WaitRejected, sessionVars
<1>11. CASE NodeGoesOn \/ PublisherGoesOn \/ SubscriptionGoesOn \/ SubscriptionReads
  BY <1>2, <1>4, <1>11
     DEF NodeGoesOn, PublisherGoesOn, SubscriptionGoesOn, SubscriptionReads
<1>12. CASE NodeReady \/ PublisherReady
  BY <1>2, <1>3, <1>12 DEF NodeReady, PublisherReady, sessionVars
<1>13. CASE LinkFails \/ Receive \/ AgentServes \/ AgentReplies \/ AgentSends \/ UNCHANGED vars
  BY <1>2, <1>13 DEF LinkFails, Receive, AgentServes, AgentReplies, AgentSends,
                     clientVars, sessionVars, vars
<1> QED BY <1>5, <1>6, <1>7, <1>8, <1>9, <1>10, <1>11, <1>12, <1>13 DEF Next, Progress

LEMMA RoomInvariant == Spec => []RoomInv
<1>1. Init => RoomInv
  BY EmptySeq DEF Init, RoomInv, RoomForPush, NoCall
<1>2. TypeInv /\ RoomInv /\ [Next]_vars => RoomInv'
  BY RoomStep
<1> QED BY <1>1, <1>2, TypeInvariant, PTL DEF Spec

\* The push that ends create_subscription always finds the room that its check
\* before the first request saw, whatever happens in the three round trips in
\* between: its TooManySubscriptions branch is dead code.
THEOREM PushNeverFails == Spec => []RoomForPush
<1>1. RoomInv => RoomForPush
  BY DEF RoomInv
<1> QED BY <1>1, RoomInvariant, PTL

-----------------------------------------------------------------------------
(* Requests and replies go around the connection in the order of their     *)
(* ids: the proof, for every session that stays within NoAliasing and      *)
(* NoWrap and whose application drops the handles of an earlier one.       *)
(* CountersInv keeps the ids from repeating, PipeInv keeps the order.      *)

-----------------------------------------------------------------------------
(* Queues. *)

\* The elements of a queue after its first is taken.
LEMMA RangeTail ==
  ASSUME NEW S, NEW q \in Seq(S), q # <<>>
  PROVE  /\ Head(q) \in Range(q)
         /\ Range(Tail(q)) \subseteq Range(q)
         /\ \A m \in Range(q) : m = Head(q) \/ m \in Range(Tail(q))
<1>1. /\ Len(q) \in Nat /\ Len(q) >= 1 /\ DOMAIN q = 1 .. Len(q) /\ Head(q) = q[1]
      /\ Tail(q) \in Seq(S) /\ Len(Tail(q)) = Len(q) - 1
      /\ \A i \in 1 .. Len(Tail(q)) : Tail(q)[i] = q[i + 1]
  BY HeadTailProperties, LenProperties, EmptySeq
<1>2. DOMAIN Tail(q) = 1 .. Len(Tail(q))
  BY <1>1, LenProperties
<1>3. Range(Tail(q)) \subseteq Range(q)
  BY <1>1, <1>2 DEF Range
<1>4. ASSUME NEW i \in DOMAIN q, i # 1
      PROVE  q[i] \in Range(Tail(q))
  <2>1. i - 1 \in DOMAIN Tail(q) /\ Tail(q)[i - 1] = q[i]
    BY <1>1, <1>2, <1>4
  <2> QED BY <2>1 DEF Range
<1>5. ASSUME NEW m \in Range(q)
      PROVE  m = Head(q) \/ m \in Range(Tail(q))
  <2>1. PICK i \in DOMAIN q : m = q[i]
    BY DEF Range
  <2> QED BY <1>1, <1>4, <2>1
<1>6. Head(q) \in Range(q)
  BY <1>1 DEF Range
<1> QED BY <1>3, <1>5, <1>6

\* The elements of a queue after one is added.
LEMMA RangeAppend ==
  ASSUME NEW S, NEW q \in Seq(S), NEW m \in S
  PROVE  Range(Append(q, m)) = Range(q) \cup {m}
<1>1. /\ Len(q) \in Nat /\ DOMAIN q = 1 .. Len(q)
      /\ Append(q, m) \in Seq(S) /\ Len(Append(q, m)) = Len(q) + 1
      /\ \A i \in 1 .. Len(q) : Append(q, m)[i] = q[i]
      /\ Append(q, m)[Len(q) + 1] = m
  BY AppendProperties, LenProperties
<1>2. DOMAIN Append(q, m) = 1 .. Len(q) + 1
  BY <1>1, LenProperties
<1>3. ASSUME NEW i \in 1 .. Len(q) + 1
      PROVE  Append(q, m)[i] \in Range(q) \cup {m}
  BY <1>1 DEF Range
<1>4. Range(q) \subseteq Range(Append(q, m)) /\ m \in Range(Append(q, m))
  BY <1>1, <1>2 DEF Range
<1>5. Range(Append(q, m)) \subseteq Range(q) \cup {m}
  BY <1>2, <1>3 DEF Range
<1> QED BY <1>4, <1>5

\* Taking the first keeps a queue in order, and what is left comes after it.
LEMMA IncreasingTail ==
  ASSUME NEW S, NEW q \in Seq(S), q # <<>>, NEW types, Increasing(q, types)
  PROVE  /\ Increasing(Tail(q), types)
         /\ Head(q).type \in types =>
              \A m \in Range(Tail(q)) : m.type \in types => Head(q).req < m.req
<1>1. /\ Len(q) \in Nat /\ Len(q) >= 1 /\ DOMAIN q = 1 .. Len(q) /\ Head(q) = q[1]
      /\ Tail(q) \in Seq(S) /\ Len(Tail(q)) = Len(q) - 1
      /\ \A i \in 1 .. Len(Tail(q)) : Tail(q)[i] = q[i + 1]
  BY HeadTailProperties, LenProperties, EmptySeq
<1>2. DOMAIN Tail(q) = 1 .. Len(Tail(q))
  BY <1>1, LenProperties
<1>3. Increasing(Tail(q), types)
  <2>1. ASSUME NEW i \in DOMAIN Tail(q), NEW j \in DOMAIN Tail(q), i < j
        PROVE  /\ Tail(q)[i] = q[i + 1] /\ Tail(q)[j] = q[j + 1]
               /\ i + 1 \in DOMAIN q /\ j + 1 \in DOMAIN q /\ i + 1 < j + 1
    BY <1>1, <1>2, <2>1
  <2> QED BY <2>1 DEF Increasing
<1>4. ASSUME NEW i \in DOMAIN Tail(q), Head(q).type \in types, Tail(q)[i].type \in types
      PROVE  Head(q).req < Tail(q)[i].req
  <2>1. Tail(q)[i] = q[i + 1] /\ i + 1 \in DOMAIN q /\ 1 \in DOMAIN q /\ 1 < i + 1
    BY <1>1, <1>2
  <2> QED BY <1>1, <1>4, <2>1 DEF Increasing
<1> QED BY <1>3, <1>4 DEF Range

\* Adding a message that comes after all the others keeps a queue in order.
LEMMA IncreasingAppend ==
  ASSUME NEW S, NEW q \in Seq(S), NEW m \in S, NEW types, Increasing(q, types),
         m.type \in types => \A x \in Range(q) : x.type \in types => x.req < m.req
  PROVE  Increasing(Append(q, m), types)
<1>1. /\ Len(q) \in Nat /\ DOMAIN q = 1 .. Len(q)
      /\ Append(q, m) \in Seq(S) /\ Len(Append(q, m)) = Len(q) + 1
      /\ \A i \in 1 .. Len(q) : Append(q, m)[i] = q[i]
      /\ Append(q, m)[Len(q) + 1] = m
  BY AppendProperties, LenProperties
<1>2. DOMAIN Append(q, m) = 1 .. Len(q) + 1
  BY <1>1, LenProperties
<1>3. ASSUME NEW i \in 1 .. Len(q) + 1, NEW j \in 1 .. Len(q) + 1, i < j,
             Append(q, m)[i].type \in types, Append(q, m)[j].type \in types
      PROVE  Append(q, m)[i].req < Append(q, m)[j].req
  <2>1. i \in DOMAIN q /\ Append(q, m)[i] = q[i] /\ q[i] \in Range(q)
    BY <1>1, <1>3 DEF Range
  <2>2. CASE j \in DOMAIN q
    BY <1>1, <1>3, <2>1, <2>2 DEF Increasing
  <2>3. CASE j \notin DOMAIN q
    <3>1. Append(q, m)[j] = m
      BY <1>1, <1>3, <2>3
    <3> QED BY <1>3, <2>1, <3>1
  <2> QED BY <2>2, <2>3
<1> QED BY <1>2, <1>3 DEF Increasing

-----------------------------------------------------------------------------
(* The counters. *)

\* Within OneLife the request id of a session counts up and never wraps, and
\* the counters stay below the ids an ObjectId tells apart.
LEMMA CountersRange ==
  ASSUME TypeInv, CountersInv, OneLife
  PROVE  /\ reqId \in Nat /\ Left \in Nat /\ HalfMade \in Nat
         /\ nextIdx \in [Kind -> Nat]
         /\ reqId + Left < ReqSpan
         /\ reqId + Left + 1 <= ReqSpan
         /\ MaxNodes \in Nat /\ MaxEndpoints \in Nat
<1>1. reqId \in Nat /\ nextIdx \in [Kind -> Nat]
  BY DEF TypeInv, TypeOK, SessionTypeOK, ReqId
<1>2. Left \in Nat /\ HalfMade \in Nat
  BY DEF CountersInv, Left, HalfMade
<1>3. /\ nextIdx["PARTICIPANT"] \in Nat /\ nextIdx["TOPIC"] \in Nat
  BY <1>1 DEF Kind
<1> QED BY <1>1, <1>2, <1>3 DEF CountersInv, OneLife, NoWrap

\* A step that begins no create method and takes no id keeps the bounds.
LEMMA CountersQuiet ==
  ASSUME TypeInv, CountersInv, UNCHANGED <<reqId, nextIdx>>,
         \/ UNCHANGED call
         \/ call'.op \notin Creates
  PROVE  CountersInv'
<1>1. nextIdx \in [Kind -> Nat] /\ reqId \in Nat
  BY DEF TypeInv, TypeOK, SessionTypeOK, ReqId
<1>2. CASE UNCHANGED call
  BY <1>2 DEF CountersInv, Left, HalfMade
<1>3. CASE call'.op \notin Creates
  <2>1. Left' = 0 /\ HalfMade' = 0
    BY <1>3 DEF Left, HalfMade, Creates
  <2>2. Left \in Nat /\ HalfMade \in Nat
    BY DEF CountersInv, Left, HalfMade
  <2>3. /\ nextIdx["PARTICIPANT"] \in Nat /\ nextIdx["TOPIC"] \in Nat
        /\ nextIdx["DATAWRITER"] \in Nat /\ nextIdx["DATAREADER"] \in Nat
    BY <1>1 DEF Kind
  <2> QED BY <1>1, <1>3, <2>1, <2>2, <2>3 DEF CountersInv
<1> QED BY <1>2, <1>3

\* The create methods begin.
LEMMA CountersBegin ==
  ASSUME TypeInv, CountersInv, OneLife,
         \/ CreateNode
         \/ \E node \in nodes, topic \in Topic :
              \/ CreatePublisher(node, topic)
              \/ \E slot \in Slot : CreateSubscription(node, topic, slot)
  PROVE  CountersInv' /\ reqId' = reqId + 1
<1>1. /\ nextIdx \in [Kind -> Nat] /\ reqId \in Nat /\ Left \in Nat /\ HalfMade \in Nat
      /\ reqId + 1 <= ReqSpan
  BY CountersRange
<1>2. /\ nextIdx["PARTICIPANT"] \in Nat /\ nextIdx["TOPIC"] \in Nat
      /\ nextIdx["DATAWRITER"] \in Nat /\ nextIdx["DATAREADER"] \in Nat
  BY <1>1 DEF Kind
<1>3. Left = 0 /\ HalfMade = 0
  <2>1. pc = "idle"
    BY DEF CreateNode, CreatePublisher, CreateSubscription, Callable
  <2> QED BY <2>1 DEF TypeInv, CallFits, Left, HalfMade, Creates
<1>4. CASE CreateNode
  <2>1. /\ nextIdx["PARTICIPANT"] <= MaxNodes
        /\ nextIdx' = [k \in Kind |-> IF k \in {"PARTICIPANT", "PUBLISHER", "SUBSCRIBER"}
                                      THEN nextIdx[k] + 1 ELSE nextIdx[k]]
        /\ reqId' = NextReqId(reqId)
        /\ call'.op = "node" /\ call'.step = 1
    BY <1>4 DEF CreateNode, Alloc, TakeReqId, Begin
  <2>2. /\ nextIdx'["PARTICIPANT"] = nextIdx["PARTICIPANT"] + 1
        /\ nextIdx'["PUBLISHER"] = nextIdx["PUBLISHER"] + 1
        /\ nextIdx'["SUBSCRIBER"] = nextIdx["SUBSCRIBER"] + 1
        /\ nextIdx'["TOPIC"] = nextIdx["TOPIC"]
        /\ nextIdx'["DATAWRITER"] = nextIdx["DATAWRITER"]
        /\ nextIdx'["DATAREADER"] = nextIdx["DATAREADER"]
    BY <2>1 DEF Kind
  <2>3. reqId + 1 < ReqSpan
    BY <1>1, <1>2, <1>3, <2>1 DEF CountersInv, OneLife, NoWrap
  <2>4. reqId' = reqId + 1
    BY <1>1, <2>1, <2>3 DEF NextReqId
  <2>5. Left' = 2 /\ HalfMade' = 0
    BY <2>1 DEF Left, HalfMade, Creates
  <2> QED BY <1>1, <1>2, <1>3, <2>1, <2>2, <2>4, <2>5 DEF CountersInv
<1>5. ASSUME NEW op \in {"publisher", "subscription"}, NEW node, NEW topic, NEW slot,
             CreateTopic(op, node, topic, slot)
      PROVE  CountersInv' /\ reqId' = reqId + 1
  <2>1. /\ nextIdx["TOPIC"] <= MaxEndpoints
        /\ nextIdx' = [k \in Kind |-> IF k \in {"TOPIC"} THEN nextIdx[k] + 1 ELSE nextIdx[k]]
        /\ reqId' = NextReqId(reqId)
        /\ call'.op = op /\ call'.step = 1
    BY <1>5 DEF CreateTopic, Alloc, TakeReqId, Begin
  <2>2. /\ nextIdx'["PARTICIPANT"] = nextIdx["PARTICIPANT"]
        /\ nextIdx'["PUBLISHER"] = nextIdx["PUBLISHER"]
        /\ nextIdx'["SUBSCRIBER"] = nextIdx["SUBSCRIBER"]
        /\ nextIdx'["TOPIC"] = nextIdx["TOPIC"] + 1
        /\ nextIdx'["DATAWRITER"] = nextIdx["DATAWRITER"]
        /\ nextIdx'["DATAREADER"] = nextIdx["DATAREADER"]
    BY <2>1 DEF Kind
  <2>3. reqId + 1 < ReqSpan
    BY <1>1, <1>2, <1>3, <2>1 DEF CountersInv, OneLife, NoWrap
  <2>4. reqId' = reqId + 1
    BY <1>1, <2>1, <2>3 DEF NextReqId
  <2>5. Left' = 2 /\ HalfMade' = 1
    BY <2>1 DEF Left, HalfMade, Creates
  <2> QED BY <1>1, <1>2, <1>3, <2>1, <2>2, <2>4, <2>5 DEF CountersInv
<1> QED BY <1>4, <1>5 DEF CreatePublisher, CreateSubscription

\* A create method goes on to its next request.
LEMMA CountersGoesOn ==
  ASSUME TypeInv, CountersInv, OneLife,
         NodeGoesOn \/ PublisherGoesOn \/ SubscriptionGoesOn \/ SubscriptionReads
  PROVE  CountersInv' /\ reqId' = reqId + 1
<1>1. /\ nextIdx \in [Kind -> Nat] /\ reqId \in Nat /\ Left \in Nat /\ HalfMade \in Nat
      /\ reqId + Left < ReqSpan
  BY CountersRange
<1>2. /\ nextIdx["PARTICIPANT"] \in Nat /\ nextIdx["TOPIC"] \in Nat
      /\ nextIdx["DATAWRITER"] \in Nat /\ nextIdx["DATAREADER"] \in Nat
  BY <1>1 DEF Kind
<1>3. /\ call.op \in Creates /\ call.step \in {1, 2}
      /\ call'.op = call.op /\ call'.step = call.step + 1 /\ reqId' = NextReqId(reqId)
  BY DEF NodeGoesOn, PublisherGoesOn, SubscriptionGoesOn, SubscriptionReads, Granted,
         Proceed, TakeReqId, Creates, TypeInv, TypeOK, CallTypeOK
<1>4. Left = 3 - call.step /\ Left' = Left - 1 /\ Left >= 1
  BY <1>3 DEF Left
<1>5. reqId' = reqId + 1
  <2>1. reqId + 1 # ReqSpan
    BY <1>1, <1>4
  <2> QED BY <1>3, <2>1 DEF NextReqId
<1>6. CASE NodeGoesOn \/ SubscriptionReads
  <2>1. UNCHANGED nextIdx /\ HalfMade' = HalfMade
    BY <1>3, <1>6 DEF NodeGoesOn, SubscriptionReads, Granted, HalfMade
  <2> QED BY <1>1, <1>2, <1>3, <1>4, <1>5, <2>1 DEF CountersInv
<1>7. ASSUME Alloc({"DATAWRITER"}) \/ Alloc({"DATAREADER"}),
             HalfMade = 1, HalfMade' = 0
      PROVE  CountersInv'
  <2>1. /\ nextIdx'["PARTICIPANT"] = nextIdx["PARTICIPANT"]
        /\ nextIdx'["PUBLISHER"] = nextIdx["PUBLISHER"]
        /\ nextIdx'["SUBSCRIBER"] = nextIdx["SUBSCRIBER"]
        /\ nextIdx'["TOPIC"] = nextIdx["TOPIC"]
        /\ nextIdx'["DATAWRITER"] + nextIdx'["DATAREADER"]
             = nextIdx["DATAWRITER"] + nextIdx["DATAREADER"] + 1
        /\ nextIdx'["DATAWRITER"] \in Nat /\ nextIdx'["DATAREADER"] \in Nat
        /\ nextIdx'["DATAWRITER"] >= nextIdx["DATAWRITER"]
        /\ nextIdx'["DATAREADER"] >= nextIdx["DATAREADER"]
    BY <1>2, <1>7 DEF Alloc, Kind
  <2>2. nextIdx'["DATAWRITER"] + nextIdx'["DATAREADER"] + HalfMade' <= nextIdx'["TOPIC"] + 1
    BY <1>2, <1>7, <2>1 DEF CountersInv
  <2>3. reqId' + Left' <= 1 + 3 * (nextIdx'["PARTICIPANT"] - 1) + 3 * (nextIdx'["TOPIC"] - 1)
    BY <1>1, <1>2, <1>4, <1>5, <2>1 DEF CountersInv
  <2>4. call'.op \in Creates => call'.step \in 1 .. 3
    BY <1>3
  <2> QED BY <1>2, <2>1, <2>2, <2>3, <2>4 DEF CountersInv
<1>8. CASE PublisherGoesOn \/ SubscriptionGoesOn
  <2>1. HalfMade = 1 /\ HalfMade' = 0
    BY <1>3, <1>8 DEF PublisherGoesOn, SubscriptionGoesOn, Granted, HalfMade
  <2>2. Alloc({"DATAWRITER"}) \/ Alloc({"DATAREADER"})
    BY <1>8 DEF PublisherGoesOn, SubscriptionGoesOn
  <2> QED BY <1>5, <1>7, <2>1, <2>2
<1> QED BY <1>5, <1>6, <1>8

\* The bounds on the counters hold after every step.
LEMMA CountersStep ==
  ASSUME TypeInv, CountersInv, OneLife, [Next]_vars
  PROVE  CountersInv'
<1>1. ASSUME NEW res, Return(res)
      PROVE  call'.op \notin Creates
  BY <1>1 DEF Return, NoCall, Creates
<1>2. ASSUME NEW op, op \notin Creates, NEW msg, NEW node, NEW topic, NEW slot,
             Begin(op, msg, node, topic, slot)
      PROVE  call'.op \notin Creates
  BY <1>2 DEF Begin
<1>3. CASE Start
  <2>1. CASE Connect
    BY <1>2, <2>1, CountersQuiet DEF Connect, sessionVars, Creates
  <2>2. CASE RefuseSubscription \/ RefuseName
    BY <1>1, <2>2, CountersQuiet DEF RefuseSubscription, RefuseName, sessionVars
  <2>3. ASSUME NEW pub \in pubs, Publish(pub)
        PROVE  CountersInv'
    BY <1>2, <2>3, CountersQuiet DEF Publish, sessionVars, Creates
  <2>4. ASSUME NEW op \in {"spin_once", "spin"}, Spin(op)
        PROVE  CountersInv'
    <3>1. call'.op \notin Creates /\ UNCHANGED sessionVars
      BY <2>4 DEF Spin, NoCall, Creates
    <3> QED BY <3>1, CountersQuiet DEF sessionVars
  <2> QED BY <1>3, <2>1, <2>2, <2>3, <2>4, CountersBegin DEF Start
<1>4. CASE HandshakeOk
  <2>1. /\ reqId' = 1 /\ nextIdx' = [k \in Kind |-> 1] /\ call'.op \notin Creates
    BY <1>1, <1>4 DEF HandshakeOk
  <2>2. Left' = 0 /\ HalfMade' = 0
    BY <2>1 DEF Left, HalfMade, Creates
  <2>3. \A k \in Kind : nextIdx'[k] = 1
    BY <2>1
  <2> QED BY <2>1, <2>2, <2>3 DEF CountersInv, Kind
<1>5. CASE NodeGoesOn \/ PublisherGoesOn \/ SubscriptionGoesOn \/ SubscriptionReads
  BY <1>5, CountersGoesOn
<1>6. CASE WriteFrame
  BY <1>1, <1>6, CountersQuiet DEF WriteFrame, AfterWrite, sessionVars
<1>7. CASE TransportFails \/ HandshakeFails \/ SpinFrame \/ Interrupted
  BY <1>1, <1>7, CountersQuiet
     DEF TransportFails, GiveUp, HandshakeFails, SpinFrame, Interrupted, DropCall, TransportErrs,
         EncodeFails, sessionVars
<1>8. CASE WaitData \/ WaitSkips \/ WaitTooShort \/ WaitMismatch \/ WaitRejected
  BY <1>1, <1>8, CountersQuiet
     DEF WaitData, WaitSkips, WaitTooShort, WaitMismatch, WaitRejected, sessionVars
<1>9. CASE NodeReady \/ PublisherReady \/ SubscriptionReady
  BY <1>1, <1>9, CountersQuiet DEF NodeReady, PublisherReady, SubscriptionReady, sessionVars
<1>10. CASE LinkFails \/ Receive \/ AgentServes \/ AgentReplies \/ AgentSends \/ UNCHANGED vars
  BY <1>10, CountersQuiet DEF LinkFails, Receive, AgentServes, AgentReplies, AgentSends,
                              clientVars, sessionVars, vars
<1> QED BY <1>3, <1>4, <1>5, <1>6, <1>7, <1>8, <1>9, <1>10 DEF Next, Progress

-----------------------------------------------------------------------------
(* The connection: requests and replies in order. *)

\* The request ids on the connection are numbers.
LEMMA PipeTypes ==
  ASSUME TypeInv
  PROVE  /\ toAgent \in Seq(ClientMsg) /\ owed \in Seq(Reply) /\ toClient \in Seq(AgentMsg)
         /\ Requests \subseteq EntityRequest
         /\ \A m \in Requests \cup Statuses : m.req \in Nat
         /\ reqId \in Nat
<1>1. toAgent \in Seq(ClientMsg) /\ owed \in Seq(Reply) /\ toClient \in Seq(AgentMsg)
  BY DEF TypeInv, TypeOK, AgentTypeOK
<1>2. /\ \A m \in Range(toAgent) : m \in ClientMsg
      /\ \A m \in Range(owed) : m \in Reply
      /\ \A m \in Range(toClient) : m \in AgentMsg
  BY <1>1, ElementOfSeq, LenProperties DEF Range
<1>3. Requests \subseteq EntityRequest
  BY <1>2 DEF Requests, ClientMsg, CreateClient
<1>4. \A m \in Requests : m.req \in Nat
  BY <1>3 DEF EntityRequest, ReqId
<1>5. \A m \in Statuses : m.req \in Nat
  BY <1>2 DEF Statuses, Reply, AgentMsg, ReqId
<1>6. reqId \in Nat
  BY DEF TypeInv, TypeOK, SessionTypeOK, ReqId
<1> QED BY <1>1, <1>3, <1>4, <1>5, <1>6

\* What the agent sends unasked is no reply.
LEMMA SendsTyped ==
  ASSUME TypeInv, AgentSends
  PROVE  \E m \in AgentMsg : m.type \notin {"STATUS", "STATUS_AGENT"}
                              /\ toClient' = Append(toClient, m)
<1>1. CASE SendNoise
  <2>1. PICK type \in Noise : toClient' = Append(toClient, [type |-> type])
    BY <1>1 DEF SendNoise
  <2>2. [type |-> type] \in AgentMsg /\ [type |-> type].type \in {"OTHER", "SHORT"}
    BY DEF AgentMsg
  <2> QED BY <2>1, <2>2
<1>2. ASSUME NEW oid \in reading, Stream(oid)
      PROVE  \E m \in AgentMsg : m.type \notin {"STATUS", "STATUS_AGENT"}
                                  /\ toClient' = Append(toClient, m)
  <2>1. PICK good \in Goodness :
          toClient' = Append(toClient, Data(oid, objs[oid], sent[oid] + 1, good))
    BY <1>2 DEF Stream
  <2>2. oid \in Oid /\ objs[oid] \in Topic /\ sent[oid] + 1 \in Nat /\ good \in BOOLEAN
    BY DEF TypeInv, TypeOK, AgentTypeOK
  <2>3. Data(oid, objs[oid], sent[oid] + 1, good) \in AgentMsg
    BY <2>2 DEF Data, AgentMsg
  <2>4. Data(oid, objs[oid], sent[oid] + 1, good).type = "DATA"
    BY DEF Data
  <2> QED BY <2>1, <2>3, <2>4
<1> QED BY <1>1, <1>2 DEF AgentSends

\* What a step of the connection adds to the ids on their way: nothing.
Shrinks ==
  /\ Requests' \subseteq Requests
  /\ \A s \in Statuses' : \E m \in Requests \cup Statuses : m.req = s.req

\* The connection and the counter are left alone, or the counter grows.
LEMMA QueuesSame ==
  ASSUME TypeInv, QueuesInOrder, UNCHANGED channelVars,
         reqId' = reqId \/ reqId' = reqId + 1
  PROVE  QueuesInOrder' /\ Shrinks
<1>1. Requests' = Requests /\ Statuses' = Statuses
  BY DEF Requests, Statuses, channelVars
<1>2. \A m \in Requests \cup Statuses : m.req < reqId'
  BY PipeTypes DEF QueuesInOrder
<1> QED BY <1>1, <1>2 DEF QueuesInOrder, Shrinks, channelVars, Increasing

\* A frame is read from the connection.
LEMMA QueuesRead ==
  ASSUME TypeInv, QueuesInOrder, NEW await, Read(await),
         reqId' = reqId \/ reqId' = reqId + 1
  PROVE  QueuesInOrder' /\ Shrinks
<1>1. /\ toClient \in Seq(AgentMsg) /\ toClient # <<>> /\ toClient' = Tail(toClient)
      /\ UNCHANGED <<toAgent, owed>>
  BY PipeTypes DEF Read
<1>2. Range(toClient') \subseteq Range(toClient) /\ Increasing(toClient', {"STATUS"})
  BY <1>1, RangeTail, IncreasingTail DEF QueuesInOrder
<1>3. Requests' = Requests /\ Statuses' \subseteq Statuses
  BY <1>1, <1>2 DEF Requests, Statuses
<1>4. \A m \in Requests \cup Statuses : m.req < reqId'
  BY PipeTypes DEF QueuesInOrder
<1>5. CreateClient \notin Range(toAgent')
      /\ Increasing(toAgent', {"CREATE", "READ_DATA"}) /\ Increasing(owed', {"STATUS"})
  BY <1>1 DEF QueuesInOrder
<1>6. \A s \in Range(toClient'), t \in Range(owed') :
        s.type = "STATUS" /\ t.type = "STATUS" => s.req < t.req
  BY <1>1, <1>2 DEF QueuesInOrder
<1> QED BY <1>2, <1>3, <1>4, <1>5, <1>6 DEF QueuesInOrder, Shrinks

\* The agent serves the request at the head of the connection and owes its
\* STATUS, which comes after the others owed and before those of the requests
\* behind it.
LEMMA QueuesAnswer ==
  ASSUME TypeInv, QueuesInOrder, UNCHANGED reqId,
         toAgent # <<>>, Head(toAgent) \in Requests, NEW ok \in BOOLEAN,
         Answer(Status(Head(toAgent).req, ok))
  PROVE  QueuesInOrder' /\ Shrinks
<1> DEFINE m == Head(toAgent)
           s == Status(m.req, ok)
<1>1. /\ toAgent \in Seq(ClientMsg) /\ owed \in Seq(Reply)
      /\ toAgent' = Tail(toAgent) /\ owed' = Append(owed, s) /\ UNCHANGED toClient
  BY PipeTypes DEF Answer
<1>2. /\ m \in Requests /\ m.type \in {"CREATE", "READ_DATA"} /\ m.req \in Nat
      /\ m \in EntityRequest
  BY PipeTypes DEF Requests
<1>3. s \in Reply /\ s.type = "STATUS" /\ s.req = m.req
  BY <1>2 DEF Status, Reply, EntityRequest
<1>4. /\ Range(toAgent') \subseteq Range(toAgent)
      /\ Increasing(toAgent', {"CREATE", "READ_DATA"})
      /\ \A x \in Range(toAgent') : x.type \in {"CREATE", "READ_DATA"} => m.req < x.req
  BY <1>1, <1>2, RangeTail, IncreasingTail DEF QueuesInOrder
<1>5. Range(owed') = Range(owed) \cup {s}
  <2> HIDE DEF s
  <2> QED BY <1>1, <1>3, RangeAppend
<1>6. \A x \in Range(owed) \cup Range(toClient) : x.type = "STATUS" => x.req < m.req
  BY <1>2 DEF QueuesInOrder, Statuses
<1>7. Increasing(owed', {"STATUS"})
  <2> HIDE DEF s, m
  <2> QED BY <1>1, <1>3, <1>6, IncreasingAppend DEF QueuesInOrder
<1> HIDE DEF m, s
<1>8. Requests' \subseteq Requests /\ Statuses' = Statuses \cup {s}
  BY <1>1, <1>3, <1>4, <1>5 DEF Requests, Statuses
<1>9. \A x \in Requests' : m.req < x.req
  BY <1>4 DEF Requests
<1>10. \A x \in Statuses', y \in Requests' : x.req < y.req
  BY <1>3, <1>8, <1>9 DEF QueuesInOrder
<1>11. \A x \in Requests' \cup Statuses' : x.req < reqId'
  BY <1>2, <1>3, <1>8 DEF QueuesInOrder
<1>12. \A x \in Range(toClient'), y \in Range(owed') :
         x.type = "STATUS" /\ y.type = "STATUS" => x.req < y.req
  BY <1>1, <1>3, <1>5, <1>6 DEF QueuesInOrder
<1>13. Increasing(toClient', {"STATUS"}) /\ CreateClient \notin Range(toAgent')
  BY <1>1, <1>4 DEF QueuesInOrder
<1>14. Shrinks
  BY <1>2, <1>3, <1>8 DEF Shrinks
<1> QED BY <1>4, <1>7, <1>10, <1>11, <1>12, <1>13, <1>14 DEF QueuesInOrder

\* The agent serves a WRITE_DATA.
LEMMA QueuesWriteData ==
  ASSUME TypeInv, QueuesInOrder, UNCHANGED reqId, ServeWriteData
  PROVE  QueuesInOrder' /\ Shrinks
<1>1. /\ toAgent \in Seq(ClientMsg) /\ toAgent # <<>>
      /\ toAgent' = Tail(toAgent) /\ UNCHANGED <<owed, toClient>>
  BY PipeTypes DEF ServeWriteData, Serving
<1>2. /\ Range(toAgent') \subseteq Range(toAgent)
      /\ Increasing(toAgent', {"CREATE", "READ_DATA"})
  BY <1>1, RangeTail, IncreasingTail DEF QueuesInOrder
<1>3. Requests' \subseteq Requests /\ Statuses' = Statuses
  BY <1>1, <1>2 DEF Requests, Statuses
<1>4. Increasing(owed', {"STATUS"}) /\ Increasing(toClient', {"STATUS"})
      /\ CreateClient \notin Range(toAgent')
  BY <1>1, <1>2 DEF QueuesInOrder
<1> QED BY <1>1, <1>2, <1>3, <1>4 DEF QueuesInOrder, Shrinks

\* A reply the agent owed goes out after the ones it has sent.
LEMMA QueuesSendReply ==
  ASSUME TypeInv, QueuesInOrder, UNCHANGED reqId, SendReply
  PROVE  QueuesInOrder' /\ Shrinks
<1> DEFINE r == Head(owed)
<1>1. /\ owed \in Seq(Reply) /\ owed # <<>> /\ toClient \in Seq(AgentMsg)
      /\ toClient' = Append(toClient, r) /\ owed' = Tail(owed) /\ UNCHANGED toAgent
  BY PipeTypes DEF SendReply
<1>2. /\ r \in Range(owed) /\ Range(owed') \subseteq Range(owed)
      /\ Increasing(owed', {"STATUS"})
      /\ r.type = "STATUS" => \A x \in Range(owed') : x.type = "STATUS" => r.req < x.req
  BY <1>1, RangeTail, IncreasingTail DEF QueuesInOrder
<1>3. r \in AgentMsg
  BY <1>1, TakeFirst DEF AgentMsg
<1> HIDE DEF r
<1>4. Range(toClient') = Range(toClient) \cup {r}
  BY <1>1, <1>3, RangeAppend
<1>5. r.type = "STATUS" => \A x \in Range(toClient) : x.type = "STATUS" => x.req < r.req
  BY <1>2 DEF QueuesInOrder
<1>6. Increasing(toClient', {"STATUS"})
  BY <1>1, <1>3, <1>5, IncreasingAppend DEF QueuesInOrder
<1>7. Requests' = Requests /\ Statuses' \subseteq Statuses
  BY <1>1, <1>2, <1>4 DEF Requests, Statuses
<1>8. \A x \in Range(toClient'), y \in Range(owed') :
         x.type = "STATUS" /\ y.type = "STATUS" => x.req < y.req
  BY <1>2, <1>4 DEF QueuesInOrder
<1>9. CreateClient \notin Range(toAgent') /\ Increasing(toAgent', {"CREATE", "READ_DATA"})
  BY <1>1 DEF QueuesInOrder
<1> QED BY <1>2, <1>6, <1>7, <1>8, <1>9 DEF QueuesInOrder, Shrinks

\* The agent sends something else than a STATUS.
LEMMA QueuesSend ==
  ASSUME TypeInv, QueuesInOrder, UNCHANGED <<reqId, toAgent, owed>>,
         NEW msg \in AgentMsg, msg.type # "STATUS", toClient' = Append(toClient, msg)
  PROVE  QueuesInOrder' /\ Shrinks
<1>1. toClient \in Seq(AgentMsg)
  BY PipeTypes
<1>2. Range(toClient') = Range(toClient) \cup {msg}
  BY <1>1, RangeAppend
<1>3. Increasing(toClient', {"STATUS"})
  BY <1>1, IncreasingAppend DEF QueuesInOrder
<1>4. Requests' = Requests /\ Statuses' = Statuses
  BY <1>2 DEF Requests, Statuses
<1>5. \A x \in Range(toClient'), y \in Range(owed') :
         x.type = "STATUS" /\ y.type = "STATUS" => x.req < y.req
  BY <1>2 DEF QueuesInOrder
<1> QED BY <1>3, <1>4, <1>5 DEF QueuesInOrder, Shrinks, Increasing
\* The client writes the message of its call: the request of a create method
\* goes behind all the others.
LEMMA PipeWrite ==
  ASSUME TypeInv, QueuesInOrder, CallInOrder, WriteFrame
  PROVE  QueuesInOrder' /\ CallInOrder'
<1>1. /\ toAgent \in Seq(ClientMsg)
      /\ reqId \in Nat /\ UNCHANGED <<reqId, owed, toClient>>
  BY PipeTypes DEF WriteFrame, sessionVars
<1>2. /\ \/ toAgent' = Append(toAgent, call.msg)
         \/ UNCHANGED toAgent
      /\ pc = "write"
      /\ call.op \in Creates \cup {"publish"}
  <2>1. call.op \in {"none", "connect"} \cup Calls
    BY DEF TypeInv, TypeOK, CallTypeOK
  <2>2. call.op \in {"none", "connect", "node", "publisher", "subscription", "publish",
                     "spin_once", "spin"}
    BY <2>1
  <2> QED BY <2>2 DEF WriteFrame, CallInOrder, TypeInv, CallFits, Creates
<1>3. CASE UNCHANGED toAgent
  <2>1. QueuesInOrder' /\ Requests' = Requests
    BY <1>1, <1>3, QueuesSame DEF channelVars, Requests
  <2>2. CASE call.op \in Creates
    <3>1. pc' = "wait" /\ UNCHANGED call
      BY <1>2, <2>2 DEF WriteFrame, AfterWrite, Creates
    <3>2. \A m \in Requests : m.req # call.msg.req
      BY <1>2, <2>2, PipeTypes DEF CallInOrder
    <3> QED BY <1>1, <2>1, <3>1, <3>2 DEF CallInOrder
  <2>3. CASE call.op = "publish"
    BY <2>1, <2>3 DEF WriteFrame, AfterWrite, Return, NoCall, CallInOrder, Creates
  <2> QED BY <1>2, <2>1, <2>2, <2>3
<1>4. CASE toAgent' = Append(toAgent, call.msg)
  <2>1. call.msg \in ClientMsg /\ call.msg # CreateClient
    BY <1>2 DEF TypeInv, CallFits, ClientMsg, EntityRequest, CreateClient
  <2>2. Range(toAgent') = Range(toAgent) \cup {call.msg}
    BY <1>1, <1>4, <2>1, RangeAppend
  <2>3. CreateClient \notin Range(toAgent') /\ Statuses' = Statuses
    BY <1>1, <2>1, <2>2 DEF QueuesInOrder, Statuses
  <2>4. Increasing(owed', {"STATUS"}) /\ Increasing(toClient', {"STATUS"})
        /\ \A x \in Range(toClient'), y \in Range(owed') :
             x.type = "STATUS" /\ y.type = "STATUS" => x.req < y.req
    BY <1>1 DEF QueuesInOrder
  <2>5. CASE call.op \in Creates
    <3>1. pc' = "wait" /\ UNCHANGED call
      BY <1>2, <2>5 DEF WriteFrame, AfterWrite, Creates
    <3>2. /\ call.msg.type \in {"CREATE", "READ_DATA"} /\ call.msg.req \in Nat
          /\ call.msg.req + 1 = reqId
      BY <2>5 DEF TypeInv, CallFits, EntityRequest, ReqId, CallInOrder
    <3>3. \A m \in Requests \cup Statuses : m.req < call.msg.req
      BY <1>2, <2>5 DEF CallInOrder
    <3>4. Requests' = Requests \cup {call.msg}
      BY <2>2, <3>2 DEF Requests
    <3>5. Increasing(toAgent', {"CREATE", "READ_DATA"})
      BY <1>1, <1>4, <2>1, <3>3, IncreasingAppend DEF QueuesInOrder, Requests
    <3>6. \A m \in Requests' \cup Statuses' : m.req < reqId'
      BY <1>1, <2>3, <3>2, <3>4 DEF QueuesInOrder
    <3>7. \A s \in Statuses', m \in Requests' : s.req < m.req
      BY <2>3, <3>3, <3>4 DEF QueuesInOrder
    <3>8. QueuesInOrder'
      BY <2>3, <2>4, <3>5, <3>6, <3>7 DEF QueuesInOrder
    <3>9. \A m \in Requests' : m.req = call.msg.req => m = call.msg
      BY <3>3, <3>4, PipeTypes
    <3> QED BY <1>1, <2>5, <3>1, <3>2, <3>8, <3>9 DEF CallInOrder, Creates
  <2>6. CASE call.op = "publish"
    <3>1. call.msg.type = "WRITE_DATA"
      BY <2>6 DEF TypeInv, CallFits
    <3>2. Requests' = Requests
      BY <2>2, <3>1 DEF Requests
    <3>3. Increasing(toAgent', {"CREATE", "READ_DATA"})
      BY <1>1, <1>4, <2>1, <3>1, IncreasingAppend DEF QueuesInOrder
    <3>4. QueuesInOrder'
      BY <1>1, <2>3, <2>4, <3>2, <3>3 DEF QueuesInOrder
    <3> QED BY <2>6, <3>4 DEF WriteFrame, AfterWrite, Return, NoCall, CallInOrder, Creates
  <2> QED BY <1>2, <2>5, <2>6
<1> QED BY <1>2, <1>3, <1>4

\* A call suspended where it was, while the connection only shrinks.
LEMMA CallQuiet ==
  ASSUME CallInOrder, Shrinks, UNCHANGED <<pc, call, reqId>>
  PROVE  CallInOrder'
BY DEF CallInOrder, Shrinks

\* No create method is in progress.
LEMMA CallNone ==
  ASSUME call'.op \notin Creates \cup {"connect"}, pc' # "wait"
  PROVE  CallInOrder'
BY DEF CallInOrder, Creates

\* A create method is about to write its next request.
LEMMA CallNext ==
  ASSUME TypeInv, QueuesInOrder, Shrinks, call'.op \in Creates, pc' = "write",
         call'.msg.req = reqId, reqId' = reqId + 1
  PROVE  CallInOrder'
<1>1. \A m \in Requests' \cup Statuses' : m.req < reqId
  BY DEF QueuesInOrder, Shrinks
<1> QED BY <1>1 DEF CallInOrder, Creates
-----------------------------------------------------------------------------
(* The connection: a session begins. *)

\* connect returns Ok at the reply to its CREATE_CLIENT, the only message there.
LEMMA PipeOpens ==
  ASSUME TypeInv, Connecting, HandshakeOk
  PROVE  QueuesInOrder' /\ CallInOrder'
<1>1. /\ toClient \in Seq(AgentMsg) /\ toClient # <<>> /\ toClient' = Tail(toClient)
      /\ UNCHANGED <<toAgent, owed>> /\ Head(toClient) = StatusAgent(TRUE)
  BY PipeTypes DEF HandshakeOk, Read, Frame
<1>2. Head(toClient) \in Range(toClient) /\ Range(toClient') \subseteq Range(toClient)
  BY <1>1, RangeTail
<1>3. Handshaken
  BY <1>1, <1>2 DEF Handshaken, StatusAgent
<1>4. toAgent' = <<>>
  BY <1>1, <1>3 DEF Connecting
<1>5. Requests' = {} /\ CreateClient \notin Range(toAgent')
      /\ Increasing(toAgent', {"CREATE", "READ_DATA"})
  <2>1. Range(toAgent') = {}
    BY <1>4 DEF Range
  <2> QED BY <1>4, <2>1 DEF Requests, Increasing
<1>6. /\ Statuses' = {}
      /\ \A m \in Range(owed') \cup Range(toClient') : m.type # "STATUS"
  <2>1. \A m \in Range(owed') \cup Range(toClient') : m.type # "STATUS"
    BY <1>1, <1>2 DEF Connecting, Statuses
  <2> QED BY <2>1 DEF Statuses
<1>7. Increasing(owed', {"STATUS"}) /\ Increasing(toClient', {"STATUS"})
  BY <1>6 DEF Increasing, Range
<1>8. QueuesInOrder'
  BY <1>5, <1>6, <1>7 DEF QueuesInOrder
<1>9. CallInOrder'
  <2>1. call'.op \notin Creates \cup {"connect"} /\ pc' # "wait"
    BY DEF HandshakeOk, Return, NoCall, Creates
  <2> QED BY <2>1, CallNone
<1> QED BY <1>8, <1>9

\* A new connection is empty.
LEMMA PipeConnects ==
  ASSUME TypeInv, Connect, ~KeepsHandles
  PROVE  Connecting'
<1>1. /\ toAgent' = <<>> /\ toClient' = <<>> /\ owed' = <<>>
      /\ nodes' = {} /\ pubs' = {} /\ call'.op = "connect"
  BY DEF Connect, Begin
<1>2. Range(toClient') = {} /\ Range(owed') = {}
  BY <1>1 DEF Range
<1>3. Statuses' = {} /\ ~Handshaken'
  BY <1>2 DEF Statuses, Handshaken
<1> QED BY <1>1, <1>3 DEF Connecting

\* The agent answers CREATE_CLIENT, and nothing else comes before connect has
\* returned.
LEMMA PipeConnecting ==
  ASSUME TypeInv, Connecting, ~open, ~KeepsHandles, [Next]_vars, ~HandshakeOk
  PROVE  Connecting' /\ ~open'
<1> USE DEF sessionVars, slotVars, agentVars, entityVars, channelVars, appVars
<1>1. /\ toAgent \in Seq(ClientMsg) /\ owed \in Seq(Reply) /\ toClient \in Seq(AgentMsg)
  BY PipeTypes
<1>2. pc \notin {"wait", "spin"}
  BY DEF Connecting, TypeInv, CallFits, Creates
<1>3. ASSUME ~open', UNCHANGED <<toAgent, owed, nodes, pubs>>,
             \/ UNCHANGED toClient
             \/ toClient # <<>> /\ toClient' = Tail(toClient)
             \/ \E m \in AgentMsg : m.type \notin {"STATUS", "STATUS_AGENT"}
                                      /\ toClient' = Append(toClient, m),
             \/ UNCHANGED <<pc, call>>
             \/ pc' = "idle" /\ call' = NoCall
      PROVE  Connecting' /\ ~open'
  <2>1. \A m \in Range(toClient') : m.type \in {"STATUS", "STATUS_AGENT"} => m \in Range(toClient)
    <3>1. CASE UNCHANGED toClient
      BY <3>1
    <3>2. CASE toClient # <<>> /\ toClient' = Tail(toClient)
      BY <1>1, <3>2, RangeTail
    <3>3. ASSUME NEW m \in AgentMsg, m.type \notin {"STATUS", "STATUS_AGENT"},
                 toClient' = Append(toClient, m)
          PROVE  \A x \in Range(toClient') :
                   x.type \in {"STATUS", "STATUS_AGENT"} => x \in Range(toClient)
      <4>1. Range(toClient') = Range(toClient) \cup {m}
        BY <1>1, <3>3, RangeAppend
      <4> QED BY <3>3, <4>1
    <3> QED BY <1>3, <3>1, <3>2, <3>3
  <2>2. Statuses' = {}
    BY <1>3, <2>1 DEF Connecting, Statuses
  <2>3. Handshaken' => Handshaken
    BY <1>3, <2>1 DEF Handshaken
  <2>4. call'.op \in {"none", "connect"} /\ (pc' = "write" => pc = "write")
    BY <1>3 DEF Connecting, NoCall
  <2>5. nodes' = {} /\ pubs' = {} /\ toAgent' \in {<<>>, <<CreateClient>>}
    BY <1>3 DEF Connecting
  <2>6. Handshaken' => toAgent' = <<>>
    BY <1>3, <2>3 DEF Connecting
  <2>7. pc' = "write" => toAgent' = <<>> /\ ~Handshaken'
    BY <1>3, <2>3, <2>4 DEF Connecting
  <2> QED BY <1>3, <2>2, <2>4, <2>5, <2>6, <2>7 DEF Connecting
<1>4. CASE Start
  <2>1. CASE Connect
    BY <2>1, PipeConnects DEF Connect
  <2>2. Connect
    BY <1>4 DEF Start, CreateNode, CreatePublisher, CreateSubscription, RefuseSubscription,
                RefuseName, Publish, Spin, Callable
  <2> QED BY <2>1, <2>2
<1>5. CASE WriteFrame
  <2>1. /\ call.op = "connect" /\ call.msg = CreateClient /\ toAgent = <<>> /\ ~Handshaken
    BY <1>5 DEF WriteFrame, Connecting, TypeInv, CallFits
  <2>2. /\ toAgent' = <<CreateClient>> \/ toAgent' = <<>>
        /\ pc' = "handshake" /\ UNCHANGED <<call, owed, toClient, nodes, pubs, open>>
    BY <1>5, <2>1 DEF WriteFrame, AfterWrite
  <2>3. Statuses' = {} /\ ~Handshaken'
    BY <2>1, <2>2 DEF Connecting, Statuses, Handshaken
  <2>4. ~open'
    BY <2>2
  <2> QED BY <2>1, <2>2, <2>3, <2>4 DEF Connecting
<1>6. CASE TransportFails \/ Interrupted \/ HandshakeFails
  <2>1. pc' = "idle" /\ call' = NoCall /\ UNCHANGED <<open, toAgent, owed, nodes, pubs>>
    <3>1. CASE TransportFails
      BY <3>1 DEF TransportFails, GiveUp, Return
    <3>2. CASE Interrupted
      BY <3>2 DEF Interrupted, DropCall, TransportErrs, EncodeFails, GiveUp, Return
    <3>3. CASE HandshakeFails
      BY <3>3 DEF HandshakeFails, Read, Return
    <3> QED BY <1>6, <3>1, <3>2, <3>3
  <2>2. UNCHANGED toClient \/ (toClient # <<>> /\ toClient' = Tail(toClient))
    BY <1>6 DEF TransportFails, GiveUp, Interrupted, DropCall, TransportErrs, EncodeFails,
                HandshakeFails, Read
  <2>3. ~open'
    BY <2>1
  <2> QED BY <1>3, <2>1, <2>2, <2>3
<1>7. CASE LinkFails \/ Receive \/ UNCHANGED vars
  <2>1. ~open' /\ UNCHANGED <<pc, call, toAgent, owed, toClient, nodes, pubs>>
    BY <1>7 DEF LinkFails, Receive, vars
  <2> QED BY <1>3, <2>1
<1>8. CASE AgentServes
  <2>1. /\ toAgent = <<CreateClient>> /\ pc # "write"
        /\ UNCHANGED <<pc, call, open, nodes, pubs, toClient>>
        /\ \E ok \in BOOLEAN : Answer(StatusAgent(ok))
    <3>1. Serve /\ UNCHANGED <<pc, call, open, nodes, pubs>>
      BY <1>8 DEF AgentServes, clientVars
    <3>2. toAgent # <<>>
      BY <3>1 DEF Serve, ServeClient, ServeCreate, ServeReadData, ServeWriteData, Refuse, Serving
    <3>3. toAgent = <<CreateClient>> /\ pc # "write" /\ Head(toAgent).type = "CREATE_CLIENT"
      BY <3>2 DEF Connecting, CreateClient
    <3>4. ServeClient \/ Refuse
      BY <3>1, <3>3 DEF Serve, ServeCreate, ServeReadData, ServeWriteData, Serving
    <3>5. Answer(StatusAgent(TRUE)) \/ Answer(StatusAgent(FALSE))
      BY <3>3, <3>4 DEF ServeClient, Refuse, Serving
    <3>6. \E ok \in BOOLEAN : Answer(StatusAgent(ok))
      BY <3>5
    <3>7. UNCHANGED toClient
      BY <3>5 DEF Answer
    <3> QED BY <3>1, <3>3, <3>6, <3>7
  <2>2. PICK ok \in BOOLEAN : Answer(StatusAgent(ok))
    BY <2>1
  <2>3. toAgent' = <<>> /\ owed' = Append(owed, StatusAgent(ok))
    BY <2>1, <2>2 DEF Answer
  <2>4. StatusAgent(ok) \in Reply /\ StatusAgent(ok).type # "STATUS"
    BY DEF StatusAgent, Reply
  <2>5. Range(owed') = Range(owed) \cup {StatusAgent(ok)}
    BY <1>1, <2>3, <2>4, RangeAppend
  <2>6. Statuses' = {}
    BY <2>1, <2>4, <2>5 DEF Connecting, Statuses
  <2>7. ~open'
    BY <2>1
  <2> QED BY <2>1, <2>3, <2>6, <2>7 DEF Connecting
<1>9. CASE AgentReplies
  <2>1. /\ owed # <<>> /\ toClient' = Append(toClient, Head(owed)) /\ owed' = Tail(owed)
        /\ UNCHANGED <<pc, call, open, nodes, pubs, toAgent>>
    BY <1>9 DEF AgentReplies, SendReply, clientVars
  <2>2. /\ Head(owed) \in Range(owed) /\ Range(owed') \subseteq Range(owed)
    BY <1>1, <2>1, RangeTail
  <2>3. Head(owed) \in AgentMsg
    BY <1>1, <2>1, TakeFirst DEF AgentMsg
  <2>4. Range(toClient') = Range(toClient) \cup {Head(owed)}
    BY <1>1, <2>1, <2>3, RangeAppend
  <2>5. Statuses' = {} /\ (Handshaken' => Handshaken)
    BY <2>2, <2>4 DEF Connecting, Statuses, Handshaken
  <2>6. ~open'
    BY <2>1
  <2> QED BY <2>1, <2>5, <2>6 DEF Connecting
<1>10. CASE AgentSends
  <2>1. UNCHANGED <<pc, call, open, nodes, pubs, toAgent, owed>>
    BY <1>10 DEF AgentSends, SendNoise, Stream, clientVars
  <2>2. \E m \in AgentMsg : m.type \notin {"STATUS", "STATUS_AGENT"}
                              /\ toClient' = Append(toClient, m)
    BY <1>10, SendsTyped
  <2>3. ~open'
    BY <2>1
  <2> QED BY <1>3, <2>1, <2>2, <2>3
<1> QED BY <1>2, <1>4, <1>5, <1>6, <1>7, <1>8, <1>9, <1>10
     DEF Next, Progress, WaitData, WaitSkips, WaitTooShort, WaitMismatch, WaitRejected,
         NodeGoesOn, NodeReady, PublisherGoesOn, PublisherReady, SubscriptionGoesOn,
         SubscriptionReads, SubscriptionReady, SpinFrame, Granted, Read
-----------------------------------------------------------------------------
(* The connection: every step keeps requests and replies in order. *)

\* A frame is read: the call goes on waiting, makes its next request or ends.
LEMMA PipeReads ==
  ASSUME TypeInv, CountersInv, OneLife, QueuesInOrder, CallInOrder,
         \/ WaitData \/ WaitSkips \/ WaitTooShort \/ WaitMismatch \/ WaitRejected
         \/ NodeGoesOn \/ NodeReady
         \/ PublisherGoesOn \/ PublisherReady
         \/ SubscriptionGoesOn \/ SubscriptionReads \/ SubscriptionReady
         \/ SpinFrame
  PROVE  QueuesInOrder' /\ CallInOrder' /\ UNCHANGED open
<1>1. CASE WaitData \/ WaitSkips
  <2>1. UNCHANGED <<pc, call, reqId, open>> /\ Read("wait")
    BY <1>1 DEF WaitData, WaitSkips, sessionVars, appVars
  <2> QED BY <2>1, QueuesRead, CallQuiet
<1>2. ASSUME WaitTooShort \/ WaitMismatch \/ WaitRejected
             \/ NodeReady \/ PublisherReady \/ SubscriptionReady
      PROVE  QueuesInOrder' /\ CallInOrder' /\ UNCHANGED open
  <2>1. /\ UNCHANGED <<reqId, open>> /\ Read("wait")
        /\ call' = NoCall /\ pc' = "idle"
    BY <1>2 DEF WaitTooShort, WaitMismatch, WaitRejected, NodeReady, PublisherReady,
                SubscriptionReady, Granted, Return, sessionVars, appVars
  <2>2. call'.op \notin Creates \cup {"connect"} /\ pc' # "wait"
    BY <2>1 DEF NoCall, Creates
  <2> QED BY <2>1, <2>2, QueuesRead, CallNone
<1>3. CASE NodeGoesOn \/ PublisherGoesOn \/ SubscriptionGoesOn \/ SubscriptionReads
  <2>1. reqId' = reqId + 1
    BY <1>3, CountersGoesOn
  <2>2. Read("wait") /\ UNCHANGED open /\ call.op \in Creates
    BY <1>3 DEF NodeGoesOn, PublisherGoesOn, SubscriptionGoesOn, SubscriptionReads,
                Granted, appVars, Creates
  <2>3. call'.op = call.op /\ call'.msg.req = reqId /\ pc' = "write"
    <3>1. PICK m : m.req = reqId /\ Proceed(m)
      BY <1>3 DEF NodeGoesOn, PublisherGoesOn, SubscriptionGoesOn, SubscriptionReads,
                  CreateMsg, ReadDataMsg
    <3>2. call' = [call EXCEPT !.step = call.step + 1, !.msg = m] /\ pc' = "write"
      BY <3>1 DEF Proceed
    <3> QED BY <3>1, <3>2 DEF TypeInv, TypeOK, CallTypeOK
  <2>4. QueuesInOrder' /\ Shrinks
    BY <2>1, <2>2, QueuesRead
  <2>5. call'.op \in Creates
    BY <2>2, <2>3
  <2> QED BY <2>1, <2>2, <2>3, <2>4, <2>5, CallNext
<1>4. CASE SpinFrame
  <2>1. UNCHANGED <<reqId, open>> /\ Read("spin")
    BY <1>4 DEF SpinFrame, sessionVars, appVars
  <2>2. UNCHANGED <<pc, call>> \/ (call' = NoCall /\ pc' = "idle")
    BY <1>4 DEF SpinFrame, Return
  <2>3. QueuesInOrder' /\ Shrinks
    BY <2>1, QueuesRead
  <2>4. CASE UNCHANGED <<pc, call>>
    BY <2>1, <2>3, <2>4, CallQuiet
  <2>5. CASE call' = NoCall /\ pc' = "idle"
    <3>1. call'.op \notin Creates \cup {"connect"} /\ pc' # "wait"
      BY <2>5 DEF NoCall, Creates
    <3> QED BY <2>1, <2>3, <3>1, CallNone
  <2> QED BY <2>2, <2>4, <2>5
<1> QED BY <1>1, <1>2, <1>3, <1>4

\* The agent serves a request of an open session.
LEMMA PipeServes ==
  ASSUME TypeInv, QueuesInOrder, CallInOrder, AgentServes
  PROVE  QueuesInOrder' /\ CallInOrder' /\ UNCHANGED open
<1>1. UNCHANGED <<pc, call, reqId, open>> /\ Serve
  BY DEF AgentServes, clientVars, sessionVars, appVars
<1>2. toAgent \in Seq(ClientMsg) /\ toAgent # <<>>
  BY <1>1, PipeTypes
     DEF Serve, ServeClient, ServeCreate, ServeReadData, ServeWriteData, Refuse, Serving
<1>3. Head(toAgent) \in Range(toAgent) /\ Head(toAgent) \in ClientMsg
  BY <1>2, RangeTail, TakeFirst
<1>4. Head(toAgent).type # "CREATE_CLIENT"
  BY <1>3 DEF QueuesInOrder, ClientMsg, EntityRequest
<1>5. QueuesInOrder' /\ Shrinks
  <2>1. CASE ServeWriteData
    BY <1>1, <2>1, QueuesWriteData
  <2>2. CASE ~ServeWriteData
    <3>1. PICK ok \in BOOLEAN : Answer(Status(Head(toAgent).req, ok))
      BY <1>1, <1>4, <2>2 DEF Serve, ServeClient, ServeCreate, ServeReadData, Refuse, Serving
    <3>2. Head(toAgent) \in Requests
      BY <1>1, <1>3, <1>4, <2>2
         DEF Serve, ServeClient, ServeCreate, ServeReadData, Refuse, Serving, Requests
    <3> QED BY <1>1, <1>2, <3>1, <3>2, QueuesAnswer
  <2> QED BY <2>1, <2>2
<1> QED BY <1>1, <1>5, CallQuiet

\* A call begins in an open session.
LEMMA PipeStarts ==
  ASSUME TypeInv, CountersInv, OneLife, QueuesInOrder, CallInOrder, Start, ~Connect
  PROVE  QueuesInOrder' /\ CallInOrder' /\ UNCHANGED open
<1>1. CASE \/ CreateNode
           \/ \E node \in nodes, topic \in Topic :
                \/ CreatePublisher(node, topic)
                \/ \E slot \in Slot : CreateSubscription(node, topic, slot)
  <2>1. reqId' = reqId + 1
    BY <1>1, CountersBegin
  <2>2. /\ UNCHANGED <<open, channelVars>> /\ pc' = "write"
        /\ call'.op \in Creates /\ call'.msg.req = reqId
    BY <1>1 DEF CreateNode, CreatePublisher, CreateSubscription, CreateTopic, Begin, CreateMsg,
                appVars, agentVars, channelVars, Creates
  <2> QED BY <2>1, <2>2, QueuesSame, CallNext
<1>2. CASE RefuseSubscription \/ RefuseName
  <2>1. UNCHANGED <<open, channelVars, reqId>> /\ pc' = "idle" /\ call' = NoCall
    BY <1>2 DEF RefuseSubscription, RefuseName, Return, appVars, agentVars, channelVars, sessionVars
  <2>2. call'.op \notin Creates \cup {"connect"} /\ pc' # "wait"
    BY <2>1 DEF NoCall, Creates
  <2> QED BY <2>1, <2>2, QueuesSame, CallNone
<1>3. ASSUME NEW pub \in pubs, Publish(pub)
      PROVE  QueuesInOrder' /\ CallInOrder' /\ UNCHANGED open
  <2>1. /\ UNCHANGED <<open, channelVars, reqId>> /\ pc' = "write" /\ call'.op = "publish"
    BY <1>3 DEF Publish, Begin, appVars, agentVars, channelVars, sessionVars
  <2>2. call'.op \notin Creates \cup {"connect"} /\ pc' # "wait"
    BY <2>1 DEF Creates
  <2> QED BY <2>1, <2>2, QueuesSame, CallNone
<1>4. ASSUME NEW op \in {"spin_once", "spin"}, Spin(op)
      PROVE  QueuesInOrder' /\ CallInOrder' /\ UNCHANGED open
  <2>1. /\ UNCHANGED <<open, channelVars, reqId>> /\ pc' = "spin" /\ call'.op = op
    BY <1>4 DEF Spin, NoCall, appVars, agentVars, channelVars, sessionVars
  <2>2. call'.op \notin Creates \cup {"connect"} /\ pc' # "wait"
    BY <2>1 DEF Creates
  <2> QED BY <2>1, <2>2, QueuesSame, CallNone
<1> QED BY <1>1, <1>2, <1>3, <1>4 DEF Start

\* The order of requests and replies holds after every step.
LEMMA PipeStep ==
  ASSUME TypeInv, CountersInv, OneLife, PipeInv, [Next]_vars
  PROVE  PipeInv'
<1>1. CASE ~open
  <2>1. Connecting
    BY <1>1 DEF PipeInv
  <2>2. CASE HandshakeOk
    <3>1. QueuesInOrder' /\ CallInOrder'
      BY <2>1, <2>2, PipeOpens
    <3>2. open' = TRUE
      BY <2>2 DEF HandshakeOk
    <3> QED BY <3>1, <3>2 DEF PipeInv
  <2>3. CASE ~HandshakeOk
    <3>1. Connecting' /\ ~open'
      BY <1>1, <2>1, <2>3, PipeConnecting DEF OneLife
    <3> QED BY <3>1 DEF PipeInv
  <2> QED BY <2>2, <2>3
<1>2. CASE open /\ Connect
  <2>1. Connecting'
    BY <1>2, PipeConnects DEF OneLife
  <2>2. ~open'
    BY <1>2 DEF Connect
  <2> QED BY <2>1, <2>2 DEF PipeInv
<1>3. CASE open /\ ~Connect
  <2>1. QueuesInOrder /\ CallInOrder
    BY <1>3 DEF PipeInv
  <2>2. pc # "handshake"
    BY <2>1 DEF CallInOrder, TypeInv, CallFits
  <2>3. QueuesInOrder' /\ CallInOrder' /\ UNCHANGED open
    <3>1. CASE Start
      BY <1>3, <2>1, <3>1, PipeStarts
    <3>2. CASE WriteFrame
      BY <2>1, <3>2, PipeWrite DEF WriteFrame, appVars
    <3>3. CASE TransportFails \/ Interrupted
      <4>1. UNCHANGED <<open, channelVars, reqId>> /\ pc' = "idle" /\ call' = NoCall
        BY <3>3 DEF TransportFails, GiveUp, Interrupted, DropCall, TransportErrs, EncodeFails,
                    Return, appVars, agentVars, channelVars, sessionVars
      <4>2. call'.op \notin Creates \cup {"connect"} /\ pc' # "wait"
        BY <4>1 DEF NoCall, Creates
      <4> QED BY <2>1, <4>1, <4>2, QueuesSame, CallNone
    <3>4. CASE LinkFails \/ Receive \/ UNCHANGED vars
      <4>1. UNCHANGED <<open, channelVars, reqId, pc, call>>
        BY <3>4 DEF LinkFails, Receive, vars, appVars, agentVars, channelVars, sessionVars
      <4> QED BY <2>1, <4>1, QueuesSame, CallQuiet
    <3>5. CASE AgentServes
      BY <2>1, <3>5, PipeServes
    <3>6. CASE AgentReplies
      <4>1. UNCHANGED <<open, reqId, pc, call>> /\ SendReply
        BY <3>6 DEF AgentReplies, clientVars, appVars, sessionVars
      <4> QED BY <2>1, <4>1, QueuesSendReply, CallQuiet
    <3>7. CASE AgentSends
      <4>1. UNCHANGED <<open, reqId, pc, call, toAgent, owed>>
        BY <3>7 DEF AgentSends, SendNoise, Stream, clientVars, appVars, sessionVars
      <4>2. PICK m \in AgentMsg : /\ m.type \notin {"STATUS", "STATUS_AGENT"}
                                  /\ toClient' = Append(toClient, m)
        BY <3>7, SendsTyped
      <4>3. QueuesInOrder' /\ Shrinks
        BY <2>1, <4>1, <4>2, QueuesSend
      <4> QED BY <2>1, <4>1, <4>3, CallQuiet
    <3> QED BY <2>1, <2>2, <3>1, <3>2, <3>3, <3>4, <3>5, <3>6, <3>7, PipeReads
         DEF Next, Progress, HandshakeOk, HandshakeFails, Read
  <2>4. open'
    BY <1>3, <2>3
  <2> QED BY <2>3, <2>4 DEF PipeInv
<1> QED BY <1>1, <1>2, <1>3
-----------------------------------------------------------------------------
(* The connection: nothing is left on it when a create method goes on. *)

\* The STATUS a create method waits for is the last on the connection, and no
\* request is behind it.
LEMMA LastAnswer ==
  ASSUME TypeInv, QueuesInOrder, CallInOrder, call.op \in Creates,
         Read("wait"), Answers(Frame, call.msg.req)
  PROVE  Requests' = {} /\ Statuses' = {}
<1> DEFINE s == Head(toClient)
<1>1. /\ toClient \in Seq(AgentMsg) /\ toClient # <<>> /\ toClient' = Tail(toClient)
      /\ UNCHANGED <<toAgent, owed>>
  BY PipeTypes DEF Read
<1>2. s \in Range(toClient) /\ s.type = "STATUS" /\ s.req = call.msg.req
  BY <1>1, RangeTail DEF Answers, Frame
<1>3. s \in Statuses /\ s.req \in Nat /\ s.req + 1 = reqId
  <2>1. s \in Statuses
    BY <1>2 DEF Statuses
  <2> QED BY <1>2, <2>1, PipeTypes DEF CallInOrder
<1>4. \A m \in Range(toClient') : m.type = "STATUS" => s.req < m.req
  BY <1>1, <1>2, IncreasingTail DEF QueuesInOrder
<1>5. \A m \in Range(owed') : m.type = "STATUS" => s.req < m.req
  BY <1>1, <1>2 DEF QueuesInOrder
<1> HIDE DEF s
<1>6. Range(toClient') \subseteq Range(toClient)
  BY <1>1, RangeTail
<1>7. Statuses' \subseteq Statuses /\ Requests' = Requests
  BY <1>1, <1>6 DEF Statuses, Requests
<1>8. \A m \in Requests \cup Statuses : m.req \in Nat /\ m.req < reqId
  BY PipeTypes DEF QueuesInOrder
<1>9. Statuses' = {}
  <2>1. \A m \in Statuses' : s.req < m.req
    BY <1>4, <1>5 DEF Statuses
  <2> QED BY <1>3, <1>7, <1>8, <2>1
<1>10. Requests = {}
  <2>1. \A m \in Requests : s.req < m.req
    BY <1>3 DEF QueuesInOrder
  <2> QED BY <1>3, <1>8, <2>1
<1> QED BY <1>7, <1>9, <1>10

\* Counters and connection at the start.
LEMMA InitPipe ==
  ASSUME Init
  PROVE  CountersInv /\ PipeInv
<1>1. CountersInv
  <2>1. reqId = 1 /\ \A k \in Kind : nextIdx[k] = 1
    BY DEF Init
  <2>2. Left = 0 /\ HalfMade = 0 /\ call.op \notin Creates
    BY DEF Init, NoCall, Left, HalfMade, Creates
  <2> QED BY <2>1, <2>2 DEF CountersInv, Kind, SessionAssumption
<1>2. toAgent = <<>> /\ toClient = <<>> /\ owed = <<>> /\ pc = "idle" /\ ~open
      /\ call = NoCall /\ nodes = {} /\ pubs = {}
  BY DEF Init, AgentInit
<1>3. Range(toClient) = {} /\ Range(owed) = {}
  BY <1>2 DEF Range
<1>4. Connecting
  BY <1>2, <1>3 DEF Connecting, Statuses, Handshaken, NoCall
<1> QED BY <1>1, <1>2, <1>4 DEF PipeInv

OrderInv == TypeInv /\ CountersInv /\ PipeInv

\* Types, counters and the order on the connection, in every reachable state.
LEMMA OrderInvariant ==
  ASSUME OneLife
  PROVE  Spec => []OrderInv
<1>1. Init => OrderInv
  BY InitTypeInv, InitPipe DEF OrderInv
<1>2. OrderInv /\ [Next]_vars => OrderInv'
  BY NextTypeInv, CountersStep, PipeStep DEF OrderInv
<1> QED BY <1>1, <1>2, PTL DEF Spec

\* OkLeavesInStep, for every session within OneLife: when a create method
\* returns Ok, whatever calls were dropped before it and whatever STATUS they
\* left behind, no request and no STATUS is left on the connection.
THEOREM InStepAfterOk ==
  ASSUME OneLife
  PROVE  Spec => OkLeavesInStep
<1> DEFINE A == call.op \in Creates /\ pc' = "idle" /\ result' = "ok"
                  => \A req \in ReqId : ~Outstanding(req)'
<1>1. OrderInv /\ [Next]_vars => [A]_vars
  <2> SUFFICES ASSUME OrderInv, Next, call.op \in Creates, pc' = "idle", result' = "ok"
               PROVE  \A req \in ReqId : ~Outstanding(req)'
    OBVIOUS
  <2>1. open /\ QueuesInOrder /\ CallInOrder
    BY DEF OrderInv, PipeInv, Connecting, Creates
  <2>2. pc \notin {"idle", "spin"} /\ call.op \notin {"connect", "publish"}
    BY DEF OrderInv, TypeInv, CallFits, Creates
  <2>3. pc \in {"write", "wait"}
    BY <2>2 DEF OrderInv, TypeInv, TypeOK, CallTypeOK, CallFits
  <2>4. NodeReady \/ PublisherReady \/ SubscriptionReady
    BY <2>2, <2>3 DEF Next, Start, Progress, Connect, CreateNode, CreatePublisher,
                      CreateSubscription, RefuseSubscription, RefuseName, Publish, Spin, Callable,
                      WriteFrame, AfterWrite, TransportFails, GiveUp, HandshakeOk, HandshakeFails, Read,
                      WaitData, WaitSkips, WaitTooShort, WaitMismatch, WaitRejected, NodeGoesOn,
                      PublisherGoesOn, SubscriptionGoesOn, SubscriptionReads, Proceed, SpinFrame,
                      Interrupted, DropCall, TransportErrs, EncodeFails, Return, LinkFails, Receive,
                      AgentServes, AgentReplies, AgentSends, clientVars
  <2>5. Read("wait") /\ Answers(Frame, call.msg.req)
    BY <2>4 DEF NodeReady, PublisherReady, SubscriptionReady, Granted
  <2>6. Requests' = {} /\ Statuses' = {}
    BY <2>1, <2>5, LastAnswer DEF OrderInv
  <2> QED BY <2>6 DEF Outstanding, Requests, Statuses
<1> QED BY <1>1, OrderInvariant, PTL DEF Spec, OkLeavesInStep

=============================================================================
