------------------------------- MODULE Session -------------------------------
(***************************************************************************)
(* The XRCE-DDS session (src/session.rs) between the application that      *)
(* calls it, the subscription slots it dispatches to and the agent.        *)
(*                                                                         *)
(* Every method borrows the session mutably, so one call is in progress at *)
(* a time.  A call runs from one await to the next in one step: pc names   *)
(* the await it is suspended at.  The future of a call may be dropped at   *)
(* any await (a timeout, a select), which is how a task that spins gets to *)
(* publish; dropping leaves behind whatever the call had done so far.      *)
(***************************************************************************)
EXTENDS Subscription, Agent, Functions

CONSTANTS
  Calls,             \* the methods the application uses
  KeepsHandles,      \* handles are plain values, not tied to a session: whether
                     \* the application goes on using those of an earlier one
  MaxSubscriptions,  \* capacity of the dispatch table
  MaxSessions,       \* bound: calls of connect
  MaxNodes,          \* bound: calls of create_node in a session
  MaxEndpoints       \* bound: calls of create_publisher and create_subscription

ASSUME SessionAssumption ==
  /\ Calls \subseteq {"node", "publisher", "subscription", "publish",
                      "spin_once", "spin"}
  /\ KeepsHandles \in BOOLEAN
  /\ MaxSubscriptions \in Nat \ {0}
  /\ MaxSessions \in Nat
  /\ MaxNodes \in Nat
  /\ MaxEndpoints \in Nat

VARIABLES
  \* the fields of Session
  reqId,      \* req_id, the id of the next request
  nextIdx,    \* nextIdx[kind]: next_participant_idx, next_topic_idx...
  table,      \* subscriptions, in order of registration
  \* the call in progress
  pc,         \* the await it is suspended at
  call,       \* its arguments and the message in tx_buf
  result,     \* what the last call returned
  \* the application and the transport
  open,       \* a Session value exists
  link,       \* the state of the TCP connection
  sessions,   \* calls of connect
  nodes,      \* the Node handles held
  pubs        \* the Publisher handles held

sessionVars == <<reqId, nextIdx, table>>
appVars     == <<open, link, sessions, nodes, pubs>>
vars == <<sessionVars, pc, call, result, appVars, slotVars, agentVars>>

Node   == [participant: Nat, publisher: Nat, subscriber: Nat]
NoNode == [participant |-> 0, publisher |-> 0, subscriber |-> 0]

Publisher == [oid: Oid, topic: Topic]

NoCall == [op |-> "none", step |-> 0, msg |-> NoMsg, node |-> NoNode,
           topic |-> NoTopic, slot |-> NoSlot]

Results == {"none", "ok", "Io", "Disconnected", "BufferTooSmall", "AgentRejected",
            "UnexpectedReply", "StatusReqMismatch", "TooManySubscriptions", "dropped"}

SessionTypeOK ==
  /\ reqId \in ReqId
  /\ nextIdx \in [Kind -> Nat]
  /\ table \in Seq(Slot)

CallTypeOK ==
  /\ pc \in {"idle", "write", "handshake", "wait", "spin"}
  /\ call \in [op: {"none", "connect"} \cup Calls, step: 0 .. 3,
               msg: ClientMsg \cup {NoMsg}, node: Node,
               topic: Topic \cup {NoTopic}, slot: Slot \cup {NoSlot}]
  /\ result \in Results

AppTypeOK ==
  /\ open \in BOOLEAN
  /\ link \in {"up", "down"}
  /\ sessions \in 0 .. MaxSessions
  /\ nodes \subseteq Node
  /\ pubs \subseteq Publisher

TypeOK ==
  SessionTypeOK /\ CallTypeOK /\ AppTypeOK /\ SubscriptionTypeOK /\ AgentTypeOK

Init ==
  /\ reqId = 1
  /\ nextIdx = [k \in Kind |-> 1]
  /\ table = <<>>
  /\ pc = "idle"
  /\ call = NoCall
  /\ result = "none"
  /\ open = FALSE
  /\ link = "down"
  /\ sessions = 0
  /\ nodes = {}
  /\ pubs = {}
  /\ SubscriptionInit
  /\ AgentInit

-----------------------------------------------------------------------------
(* How a call begins, goes on and returns. *)

Callable(op) == pc = "idle" /\ open /\ op \in Calls

Begin(op, msg, node, topic, slot) ==
  /\ pc' = "write"
  /\ call' = [op |-> op, step |-> 1, msg |-> msg, node |-> node,
              topic |-> topic, slot |-> slot]
  /\ result' = "none"

\* The next message of the call is encoded in tx_buf and its write begins.
Proceed(msg) ==
  /\ pc' = "write"
  /\ call' = [call EXCEPT !.step = @ + 1, !.msg = msg]
  /\ UNCHANGED result

Return(res) ==
  /\ pc' = "idle"
  /\ call' = NoCall
  /\ result' = res

\* A call ends where it is suspended, and what it has done so far stays.
GiveUp(res) ==
  /\ pc # "idle"
  /\ Return(res)
  /\ UNCHANGED <<sessionVars, appVars, slotVars, agentVars>>

TakeReqId == reqId' = NextReqId(reqId)

\* Mutants: the index of a reader, or of a writer, is not taken.
AllocNoReader(kinds) ==
  nextIdx' = [k \in Kind |-> IF k \in kinds \ {"DATAREADER"} THEN nextIdx[k] + 1 ELSE nextIdx[k]]
AllocNoWriter(kinds) ==
  nextIdx' = [k \in Kind |-> IF k \in kinds \ {"DATAWRITER"} THEN nextIdx[k] + 1 ELSE nextIdx[k]]

Alloc(kinds) ==
  nextIdx' = [k \in Kind |-> IF k \in kinds THEN nextIdx[k] + 1 ELSE nextIdx[k]]

ParticipantOf(node) == ObjectId(node.participant, "PARTICIPANT")
PublisherOf(node)   == ObjectId(node.publisher, "PUBLISHER")
SubscriberOf(node)  == ObjectId(node.subscriber, "SUBSCRIBER")

-----------------------------------------------------------------------------
(* connect: a new connection, CREATE_CLIENT, and one frame read as its      *)
(* reply.  The application drops the session it had.                       *)

Connect ==
  /\ pc = "idle"
  /\ sessions < MaxSessions
  /\ sessions' = sessions + 1
  /\ link' = "up"
  /\ toAgent' = <<>> /\ toClient' = <<>> /\ owed' = <<>>
  /\ open' = FALSE
  /\ IF KeepsHandles THEN UNCHANGED <<nodes, pubs>> ELSE nodes' = {} /\ pubs' = {}
  /\ Begin("connect", CreateClient, NoNode, NoTopic, NoSlot)
  /\ UNCHANGED <<sessionVars, slotVars, entityVars>>

-----------------------------------------------------------------------------
(* The entity-creating methods, up to their first write. *)

\* create_node takes its three indices before the first request is made.
CreateNode ==
  LET node == [participant |-> nextIdx["PARTICIPANT"],
               publisher   |-> nextIdx["PUBLISHER"],
               subscriber  |-> nextIdx["SUBSCRIBER"]]
      oid  == ParticipantOf(node)
  IN  /\ Callable("node")
      /\ nextIdx["PARTICIPANT"] <= MaxNodes
      /\ Alloc({"PARTICIPANT", "PUBLISHER", "SUBSCRIBER"})
      /\ TakeReqId
      /\ Begin("node", CreateMsg(reqId, oid, oid, NoTopic), node, NoTopic, NoSlot)
      /\ UNCHANGED <<table, appVars, slotVars, agentVars>>

\* The first request of create_publisher and of create_subscription.
CreateTopic(op, node, topic, slot) ==
  /\ nextIdx["TOPIC"] <= MaxEndpoints
  /\ Alloc({"TOPIC"})
  /\ TakeReqId
  /\ Begin(op, CreateMsg(reqId, ObjectId(nextIdx["TOPIC"], "TOPIC"),
                         ParticipantOf(node), topic), node, topic, slot)
  /\ UNCHANGED <<table, appVars, slotVars, agentVars>>

CreatePublisher(node, topic) ==
  /\ Callable("publisher")
  /\ CreateTopic("publisher", node, topic, NoSlot)

\* Mutant: no check that the table has room.
CreateSubscriptionUnchecked(node, topic, slot) ==
  /\ Callable("subscription")
  /\ CreateTopic("subscription", node, topic, slot)

CreateSubscription(node, topic, slot) ==
  /\ Callable("subscription")
  /\ Len(table) < MaxSubscriptions
  /\ CreateTopic("subscription", node, topic, slot)

RefuseSubscription ==
  /\ Callable("subscription")
  /\ nodes # {}
  /\ Len(table) = MaxSubscriptions
  /\ Return("TooManySubscriptions")
  /\ UNCHANGED <<sessionVars, appVars, slotVars, agentVars>>

\* ros2_topic_name: a name longer than TOPIC_NAME_MAX, before an index is taken.
RefuseName ==
  /\ nodes # {}
  /\ \/ Callable("publisher")
     \/ Callable("subscription") /\ Len(table) < MaxSubscriptions
  /\ Return("BufferTooSmall")
  /\ UNCHANGED <<sessionVars, appVars, slotVars, agentVars>>

Publish(pub) ==
  /\ Callable("publish")
  /\ Begin("publish", WriteDataMsg(pub.oid, pub.topic), NoNode, pub.topic, NoSlot)
  /\ UNCHANGED <<sessionVars, appVars, slotVars, agentVars>>

\* spin_once and spin write nothing: they await a frame at once.
Spin(op) ==
  /\ Callable(op)
  /\ pc' = "spin"
  /\ call' = [NoCall EXCEPT !.op = op]
  /\ result' = "none"
  /\ UNCHANGED <<sessionVars, appVars, slotVars, agentVars>>

-----------------------------------------------------------------------------
(* write_framed of the message in tx_buf. *)

AfterWrite ==
  CASE call.op = "publish" -> Return("ok")
    [] call.op = "connect" -> pc' = "handshake" /\ UNCHANGED <<call, result>>
    [] OTHER               -> pc' = "wait" /\ UNCHANGED <<call, result>>

WriteFrame ==
  /\ pc = "write"
  /\ Len(toAgent) < MaxFlight    \* the connection takes no more for now
  /\ \/ link = "up" /\ toAgent' = Append(toAgent, call.msg)
     \/ link = "down" /\ UNCHANGED toAgent    \* taken by the socket, and lost
  /\ AfterWrite
  /\ UNCHANGED <<sessionVars, appVars, slotVars, toClient, owed, entityVars>>

\* A read or a write on a broken connection ends the call with an error.
TransportFails ==
  /\ link = "down"
  /\ \E error \in {"Io", "Disconnected"} : GiveUp(error)

-----------------------------------------------------------------------------
(* Reading a frame: read_one_frame, and the reactions to what it holds.  An *)
(* agent that keeps to the MTU of 512 in CREATE_CLIENT sends none that is   *)
(* longer than rx_buf; Framing has what one would do.                       *)

Frame == Head(toClient)

Read(await) ==
  /\ pc = await
  /\ toClient # <<>>
  /\ toClient' = Tail(toClient)
  /\ UNCHANGED <<toAgent, owed, entityVars>>

\* parse_status_agent of the one frame connect reads.
\* Mutant: a new session takes over the dispatch table of the old one.
HandshakeKeepsTable ==
  /\ Read("handshake")
  /\ Frame = StatusAgent(TRUE)
  /\ Return("ok")
  /\ open' = TRUE
  /\ reqId' = 1
  /\ nextIdx' = [k \in Kind |-> 1]
  /\ UNCHANGED <<table, link, sessions, nodes, pubs, slotVars>>

HandshakeOk ==
  /\ Read("handshake")
  /\ Frame = StatusAgent(TRUE)
  /\ Return("ok")
  /\ open' = TRUE
  /\ reqId' = 1
  /\ nextIdx' = [k \in Kind |-> 1]
  /\ table' = <<>>
  /\ UNCHANGED <<link, sessions, nodes, pubs, slotVars>>

\* connect reads into 128 bytes of its own; DATA and unknown frames may be longer.
HandshakeErrors ==
  {IF Frame.type = "STATUS_AGENT" THEN "AgentRejected" ELSE "UnexpectedReply"}
    \cup {error \in {"BufferTooSmall"} : Frame.type \in {"DATA", "OTHER"}}

HandshakeFails ==
  /\ Read("handshake")
  /\ Frame # StatusAgent(TRUE)
  /\ \E error \in HandshakeErrors : Return(error)
  /\ UNCHANGED <<sessionVars, appVars, slotVars>>

\* dispatch_data_payload: the first slot of the table registered under the
\* reader of the sample gets it, and no other.
Routes(oid) == {i \in DOMAIN table : drId[table[i]] = oid}

Dispatch(data) ==
  \/ Routes(data.oid) = {} /\ UNCHANGED slotVars
  \/ \E i \in Routes(data.oid) :
       /\ \A j \in Routes(data.oid) : i <= j
       /\ TryDeliver(table[i], data)

\* wait_status_for: DATA is dispatched on the way, unknown submessages are
\* skipped, and the first STATUS ends the wait whatever request it answers.
\* Mutant: DATA is skipped while a call waits for its STATUS.
WaitDropsData ==
  /\ Read("wait")
  /\ Frame.type = "DATA"
  /\ UNCHANGED <<sessionVars, pc, call, result, appVars, slotVars>>

WaitData ==
  /\ Read("wait")
  /\ Frame.type = "DATA"
  /\ Dispatch(Frame)
  /\ UNCHANGED <<sessionVars, pc, call, result, appVars>>

\* Mutant: an unknown submessage is not consumed.
WaitSkipsLess ==
  /\ Read("wait")
  /\ Frame.type = "STATUS_AGENT"
  /\ UNCHANGED <<sessionVars, pc, call, result, appVars, slotVars>>

WaitSkips ==
  /\ Read("wait")
  /\ Frame.type \in {"STATUS_AGENT", "OTHER"}
  /\ UNCHANGED <<sessionVars, pc, call, result, appVars, slotVars>>

WaitTooShort ==
  /\ Read("wait")
  /\ Frame.type = "SHORT"
  /\ Return("UnexpectedReply")
  /\ UNCHANGED <<sessionVars, appVars, slotVars>>

\* parse_status_payload.
\* Mutants: any STATUS, or one of an earlier request, is taken for the answer.
AnswersAny(status, req) == status.type = "STATUS"
AnswersEarlier(status, req) == status.type = "STATUS" /\ status.req <= req

Answers(status, req) == status.type = "STATUS" /\ status.req = req

WaitMismatch ==
  /\ Read("wait")
  /\ Frame.type = "STATUS"
  /\ ~Answers(Frame, call.msg.req)
  /\ Return("StatusReqMismatch")
  /\ UNCHANGED <<sessionVars, appVars, slotVars>>

WaitRejected ==
  /\ Read("wait")
  /\ Answers(Frame, call.msg.req)
  /\ ~Frame.ok
  /\ Return("AgentRejected")
  /\ UNCHANGED <<sessionVars, appVars, slotVars>>

\* The STATUS that lets the call at this step of this method go on.
Granted(op, step) ==
  /\ Read("wait")
  /\ Answers(Frame, call.msg.req)
  /\ Frame.ok
  /\ call.op = op /\ call.step = step

NodeGoesOn ==
  /\ \/ /\ Granted("node", 1)
        /\ Proceed(CreateMsg(reqId, PublisherOf(call.node), ParticipantOf(call.node), NoTopic))
     \/ /\ Granted("node", 2)
        /\ Proceed(CreateMsg(reqId, SubscriberOf(call.node), ParticipantOf(call.node), NoTopic))
  /\ TakeReqId
  /\ UNCHANGED <<nextIdx, table, appVars, slotVars>>

NodeReady ==
  /\ Granted("node", 3)
  /\ nodes' = nodes \cup {call.node}
  /\ Return("ok")
  /\ UNCHANGED <<sessionVars, open, link, sessions, pubs, slotVars>>

PublisherGoesOn ==
  /\ Granted("publisher", 1)
  /\ Proceed(CreateMsg(reqId, ObjectId(nextIdx["DATAWRITER"], "DATAWRITER"),
                       PublisherOf(call.node), call.topic))
  /\ Alloc({"DATAWRITER"})
  /\ TakeReqId
  /\ UNCHANGED <<table, appVars, slotVars>>

PublisherReady ==
  /\ Granted("publisher", 2)
  /\ pubs' = pubs \cup {[oid |-> call.msg.oid, topic |-> call.topic]}
  /\ Return("ok")
  /\ UNCHANGED <<sessionVars, open, link, sessions, nodes, slotVars>>

\* Mutant: the slot is registered before its reader is created.
SubscriptionGoesOnRegistered ==
  LET reader == ObjectId(nextIdx["DATAREADER"], "DATAREADER")
  IN  /\ Granted("subscription", 1)
      /\ Proceed(CreateMsg(reqId, reader, SubscriberOf(call.node), call.topic))
      /\ Alloc({"DATAREADER"})
      /\ TakeReqId
      /\ SetDrId(call.slot, reader, call.topic)
      /\ table' = Append(table, call.slot)
      /\ UNCHANGED appVars

SubscriptionGoesOn ==
  /\ Granted("subscription", 1)
  /\ Proceed(CreateMsg(reqId, ObjectId(nextIdx["DATAREADER"], "DATAREADER"),
                       SubscriberOf(call.node), call.topic))
  /\ Alloc({"DATAREADER"})
  /\ TakeReqId
  /\ UNCHANGED <<table, appVars, slotVars>>

\* send_read_data for the reader just created.
SubscriptionReads ==
  /\ Granted("subscription", 2)
  /\ Proceed(ReadDataMsg(reqId, call.msg.oid))
  /\ TakeReqId
  /\ UNCHANGED <<nextIdx, table, appVars, slotVars>>

\* The slot is registered once its reader streams.  The push cannot fail:
\* see RoomForPush.
SubscriptionReady ==
  /\ Granted("subscription", 3)
  /\ SetDrId(call.slot, call.msg.oid, call.topic)
  /\ table' = Append(table, call.slot)
  /\ Return("ok")
  /\ UNCHANGED <<reqId, nextIdx, appVars>>

\* Mutant: spin stops at a stray STATUS instead of discarding it.
SpinFrameDataOnly ==
  /\ Read("spin")
  /\ Frame.type # "STATUS"
  /\ IF Frame.type = "DATA" THEN Dispatch(Frame) ELSE UNCHANGED slotVars
  /\ IF call.op = "spin_once" THEN Return("ok") ELSE UNCHANGED <<pc, call, result>>
  /\ UNCHANGED <<sessionVars, appVars>>

\* dispatch_frame: spin_once returns after one frame, spin goes on.
SpinFrame ==
  /\ Read("spin")
  /\ IF Frame.type = "DATA" THEN Dispatch(Frame) ELSE UNCHANGED slotVars
  /\ IF call.op = "spin_once" THEN Return("ok") ELSE UNCHANGED <<pc, call, result>>
  /\ UNCHANGED <<sessionVars, appVars>>

-----------------------------------------------------------------------------
(* What else may happen. *)

\* The future of the call is dropped while it is suspended.
DropCall == GiveUp("dropped")

\* The transport returns an error, and the connection goes on.
TransportErrs == GiveUp("Io")

\* The message of a create method does not fit in tx_buf: its ids are taken,
\* and it is not written.  (With the sizes of the crate it fits: see Encoders.)
EncodeFails ==
  /\ pc = "write"
  /\ call.op \in {"node", "publisher", "subscription"}
  /\ GiveUp("BufferTooSmall")

Interrupted == DropCall \/ TransportErrs \/ EncodeFails

LinkFails ==
  /\ link = "up"
  /\ link' = "down"
  /\ UNCHANGED <<sessionVars, pc, call, result, open, sessions, nodes, pubs,
                 slotVars, agentVars>>

Start ==
  \/ Connect
  \/ CreateNode
  \/ \E node \in nodes, topic \in Topic :
       \/ CreatePublisher(node, topic)
       \/ \E slot \in Slot : CreateSubscription(node, topic, slot)
  \/ RefuseSubscription \/ RefuseName
  \/ \E pub \in pubs : Publish(pub)
  \/ \E op \in {"spin_once", "spin"} : Spin(op)

Progress ==
  \/ WriteFrame \/ TransportFails
  \/ HandshakeOk \/ HandshakeFails
  \/ WaitData \/ WaitSkips \/ WaitTooShort \/ WaitMismatch \/ WaitRejected
  \/ NodeGoesOn \/ NodeReady
  \/ PublisherGoesOn \/ PublisherReady
  \/ SubscriptionGoesOn \/ SubscriptionReads \/ SubscriptionReady
  \/ SpinFrame

Receive ==
  /\ \E s \in Slot : Recv(s)
  /\ UNCHANGED <<sessionVars, pc, call, result, appVars, agentVars>>

clientVars == <<sessionVars, pc, call, result, appVars, slotVars>>

\* Over a broken connection the agent can serve what it has, but send nothing.
AgentServes  == Serve /\ UNCHANGED clientVars
AgentReplies == link = "up" /\ SendReply /\ UNCHANGED clientVars

AgentSends ==
  /\ link = "up"
  /\ SendNoise \/ \E oid \in reading : Stream(oid)
  /\ UNCHANGED clientVars

Next == Start \/ Progress \/ Interrupted \/ LinkFails \/ Receive
          \/ AgentServes \/ AgentReplies \/ AgentSends

Spec == Init /\ [][Next]_vars

\* The executor polls a call whose transport is ready, and the agent goes on
\* serving and answering; nothing makes the application call or receive, and
\* no call relies on being interrupted.
Fairness ==
  /\ WF_vars(Progress)
  /\ WF_vars(AgentServes)
  /\ WF_vars(AgentReplies)

FairSpec == Spec /\ Fairness

=============================================================================
