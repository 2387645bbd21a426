----------------------------- MODULE HandleProofs -----------------------------
(***************************************************************************)
(* What a create method hands out is backed by the agent, and what a task  *)
(* that receives from a subscription slot sees: the proofs, for sessions   *)
(* within OneLife.                                                         *)
(*                                                                         *)
(* EntityInv says that no CREATE on its way names an entity that a handle, *)
(* a slot of the table or the call in progress relies on, so that nothing  *)
(* they rely on is ever replaced.                                          *)
(*                                                                         *)
(* StreamInv says that a slot has still to be given newer samples only, of *)
(* its topic, although the agent may keep readers, and samples of theirs   *)
(* be on their way, from an earlier session in which the same object ids   *)
(* named other entities.                                                   *)
(***************************************************************************)
EXTENDS SessionProofs

USE ProtocolAssumption, SubscriptionAssumption, AgentAssumption, SessionAssumption
-----------------------------------------------------------------------------
(* Object ids. *)

\* Within NoAliasing an index below the counters is an object id's own.
LEMMA ObjectIdExact ==
  ASSUME NEW k \in Kind, NEW idx \in Nat, idx < IdxSpan
  PROVE  ObjectId(idx, k) = <<k, idx>>
<1>1. idx % IdxSpan = idx
  OBVIOUS
<1> QED BY <1>1 DEF ObjectId

\* The counters stay below IdxSpan.
LEMMA CountersFit ==
  ASSUME TypeInv, CountersInv, OneLife
  PROVE  /\ nextIdx["PARTICIPANT"] \in Nat /\ nextIdx["PARTICIPANT"] <= IdxSpan
         /\ nextIdx["PUBLISHER"] = nextIdx["PARTICIPANT"]
         /\ nextIdx["SUBSCRIBER"] = nextIdx["PARTICIPANT"]
         /\ \A k \in Kind : nextIdx[k] \in Nat
         /\ IdxSpan \in Nat
         /\ HalfMade = 1 => nextIdx["DATAWRITER"] < IdxSpan /\ nextIdx["DATAREADER"] < IdxSpan
<1>1. \A k \in Kind : nextIdx[k] \in Nat
  BY DEF TypeInv, TypeOK, SessionTypeOK
<1>2. /\ nextIdx["PARTICIPANT"] \in Nat /\ nextIdx["TOPIC"] \in Nat
      /\ nextIdx["DATAWRITER"] \in Nat /\ nextIdx["DATAREADER"] \in Nat
      /\ MaxNodes \in Nat /\ MaxEndpoints \in Nat /\ IdxSpan \in Nat
  BY <1>1 DEF Kind
<1>3. HalfMade = 1 => nextIdx["DATAWRITER"] < IdxSpan /\ nextIdx["DATAREADER"] < IdxSpan
  <2> SUFFICES ASSUME HalfMade = 1
               PROVE  nextIdx["DATAWRITER"] < IdxSpan /\ nextIdx["DATAREADER"] < IdxSpan
    OBVIOUS
  <2> QED BY <1>2 DEF CountersInv, OneLife, NoAliasing
<1> QED BY <1>1, <1>2, <1>3 DEF CountersInv, OneLife, NoAliasing

\* The three entities of a node whose index has been given out.
LEMMA NodeOidsExact ==
  ASSUME TypeInv, CountersInv, OneLife, NEW node, NodeIndexed(node)
  PROVE  /\ ParticipantOf(node) = <<"PARTICIPANT", node.participant>>
         /\ PublisherOf(node)   = <<"PUBLISHER", node.participant>>
         /\ SubscriberOf(node)  = <<"SUBSCRIBER", node.participant>>
         /\ \A oid \in NodeOidsOf(node) : IssuedOid(oid)
<1>1. /\ node.participant \in Nat /\ node.participant < nextIdx["PARTICIPANT"]
      /\ node.participant < IdxSpan
      /\ node.publisher = node.participant /\ node.subscriber = node.participant
  BY CountersFit DEF NodeIndexed
<1>2. /\ ParticipantOf(node) = <<"PARTICIPANT", node.participant>>
      /\ PublisherOf(node)   = <<"PUBLISHER", node.participant>>
      /\ SubscriberOf(node)  = <<"SUBSCRIBER", node.participant>>
  BY <1>1, ObjectIdExact DEF ParticipantOf, PublisherOf, SubscriberOf, Kind
<1>3. \A oid \in NodeOidsOf(node) : IssuedOid(oid)
  BY <1>1, <1>2, CountersFit DEF NodeOidsOf, IssuedOid
<1> QED BY <1>2, <1>3

\* Entities of different nodes, or of different kinds, have different ids.
LEMMA NodeOidsApart ==
  ASSUME TypeInv, CountersInv, OneLife, NEW n1, NodeIndexed(n1), NEW n2, NodeIndexed(n2),
         n1.participant # n2.participant
  PROVE  NodeOidsOf(n1) \cap NodeOidsOf(n2) = {}
<1>1. /\ NodeOidsOf(n1) = {<<"PARTICIPANT", n1.participant>>, <<"PUBLISHER", n1.participant>>,
                           <<"SUBSCRIBER", n1.participant>>}
      /\ NodeOidsOf(n2) = {<<"PARTICIPANT", n2.participant>>, <<"PUBLISHER", n2.participant>>,
                           <<"SUBSCRIBER", n2.participant>>}
  BY NodeOidsExact DEF NodeOidsOf
<1> QED BY <1>1

-----------------------------------------------------------------------------
(* Entities: the steps that leave them alone. *)

\* What a step leaves alone that touches neither entities nor handles.
Keeps == UNCHANGED <<objs, reading, nodes, pubs, table, drId, bound, nextIdx, open>>

\* The call goes on as it was, or there is none that sends anything.
CallKept ==
  \/ /\ UNCHANGED call
     /\ pc' = "wait" => pc = "wait" \/ Status(call.msg.req, TRUE) \notin Statuses'
  \/ /\ call'.op \in {"none", "spin_once", "spin"} /\ call'.msg = NoMsg
     /\ pc' # "wait"

\* Nothing joins the messages to the agent but the one of the call.
JoinsCall ==
  \A m \in Range(toAgent') :
    m \in Range(toAgent) \/ (m = call.msg /\ call.op \in Creates \cup {"publish"})

\* A step that takes messages off the connection, writes the message of the
\* call, or adds samples, other frames or refusals.
LEMMA EntityQuiet ==
  ASSUME TypeInv, EntityInv, open, Keeps, CallKept, JoinsCall,
         \A s \in Statuses' : s.ok => s \in Statuses
  PROVE  EntityInv'
<1>1. open'
  BY DEF Keeps
<1>2. RoutesDistinct'
  BY DEF EntityInv, RoutesDistinct, Keeps
<1>3. HandlesBacked'
  BY <1>1 DEF EntityInv, HandlesBacked, NodesBacked, PublishersBacked, SubscriptionsBacked, Keeps,
              ParticipantOf, PublisherOf, SubscriberOf
<1>4. (\A node \in nodes : NodeIndexed(node))' /\ OidsFit'
  BY DEF EntityInv, NodeIndexed, OidsFit, Keeps
<1>5. ASSUME NEW m \in Range(toAgent'), m.type = "WRITE_DATA"
      PROVE  [oid |-> m.oid, topic |-> m.topic] \in pubs
  <2>1. CASE m \in Range(toAgent)
    BY <1>5, <2>1 DEF EntityInv, WritesPending
  <2>2. CASE m = call.msg /\ call.op \in Creates \cup {"publish"}
    <3>1. call.op \in Creates => call.msg.type # "WRITE_DATA"
      BY DEF TypeInv, CallFits, EntityRequest
    <3> QED BY <1>5, <2>2, <3>1 DEF EntityInv, MsgFits
  <2> QED BY <2>1, <2>2 DEF JoinsCall
<1>6. WritesPending'
  BY <1>5 DEF WritesPending, Keeps
<1>7. \A oid \in Owned, m \in Range(toAgent') : m.type = "CREATE" => m.oid # oid
  BY DEF EntityInv, Settled, JoinsCall
<1>8. CASE /\ UNCHANGED call
           /\ pc' = "wait" => pc = "wait" \/ Status(call.msg.req, TRUE) \notin Statuses'
  <2>1. Made' = Made
    BY <1>8 DEF Made, ParticipantOf, PublisherOf
  <2>2. Owned' = Owned
    BY <2>1 DEF Owned, NodesOwned, PubsOwned, TableOwned, Keeps, NodeOidsOf, ParticipantOf,
                PublisherOf, SubscriberOf
  <2>3. \A oid \in Owned' : IssuedOid(oid)' /\ Settled(oid)'
    BY <1>8, <1>7, <2>2 DEF EntityInv, IssuedOid, Settled, Keeps
  <2>4. \A oid \in Made' : objs'[oid] # Absent
    BY <2>1 DEF EntityInv, Keeps
  <2>5. MsgFits'
    BY <1>8 DEF EntityInv, MsgFits, NodeIndexed, IssuedOid, Keeps, ParticipantOf,
                PublisherOf, SubscriberOf
  <2>6. (pc = "wait" /\ Status(call.msg.req, TRUE) \in Statuses => Served)'
    <3>1. ASSUME pc' = "wait", Status(call.msg.req, TRUE) \in Statuses'
          PROVE  Served
      BY <1>8, <3>1 DEF EntityInv, Status
    <3> QED BY <1>8, <3>1 DEF Served, Keeps
  <2> QED BY <1>1, <1>2, <1>3, <1>4, <1>6, <2>3, <2>4, <2>5, <2>6 DEF EntityInv
<1>9. CASE call'.op \in {"none", "spin_once", "spin"} /\ call'.msg = NoMsg /\ pc' # "wait"
  <2>1. Made' = {}
    BY <1>9 DEF Made
  <2>2. Owned' \subseteq Owned
    BY <2>1 DEF Owned, NodesOwned, PubsOwned, TableOwned, Keeps, NodeOidsOf, ParticipantOf,
                PublisherOf, SubscriberOf
  <2>3. \A oid \in Owned' : IssuedOid(oid)' /\ Settled(oid)'
    BY <1>9, <1>7, <2>2 DEF EntityInv, IssuedOid, Settled, Keeps, NoMsg
  <2>4. MsgFits'
    BY <1>9 DEF MsgFits, Creates
  <2> QED BY <1>1, <1>2, <1>3, <1>4, <1>9, <1>6, <2>1, <2>3, <2>4 DEF EntityInv
<1> QED BY <1>8, <1>9 DEF CallKept
\* The steps of that kind in an open session.
LEMMA EntityIdleSteps ==
  ASSUME TypeInv, QueuesInOrder, EntityInv, open,
         \/ RefuseSubscription \/ RefuseName \/ \E op \in {"spin_once", "spin"} : Spin(op)
         \/ TransportFails \/ Interrupted \/ LinkFails \/ Receive \/ UNCHANGED vars
         \/ WaitData \/ WaitSkips \/ WaitTooShort \/ WaitMismatch \/ WaitRejected
         \/ SpinFrame
  PROVE  EntityInv'
<1> USE DEF sessionVars, appVars, slotVars, agentVars, entityVars, channelVars
<1>1. ASSUME UNCHANGED <<objs, reading, nodes, pubs, table, drId, bound, nextIdx, open>>,
             UNCHANGED <<toAgent, owed>>, CallKept,
             UNCHANGED toClient \/ (toClient # <<>> /\ toClient' = Tail(toClient))
      PROVE  EntityInv'
  <2>1. Range(toClient') \subseteq Range(toClient)
    BY <1>1, PipeTypes, RangeTail
  <2>2. Statuses' \subseteq Statuses /\ Range(toAgent') \subseteq Range(toAgent)
    BY <1>1, <2>1 DEF Statuses
  <2> QED BY <1>1, <2>2, EntityQuiet DEF Keeps, JoinsCall
<1>2. ASSUME NEW data, Dispatch(data)
      PROVE  UNCHANGED <<drId, bound>>
  BY <1>2 DEF Dispatch, TryDeliver
<1>3. ASSUME NEW res, Return(res)
      PROVE  CallKept
  BY <1>3 DEF Return, CallKept, NoCall
<1>4. CASE RefuseSubscription \/ RefuseName \/ TransportFails \/ Interrupted
  BY <1>1, <1>3, <1>4 DEF RefuseSubscription, RefuseName, TransportFails, GiveUp, Interrupted,
                          DropCall, TransportErrs, EncodeFails
<1>5. ASSUME NEW op \in {"spin_once", "spin"}, Spin(op)
      PROVE  EntityInv'
  <2>1. CallKept
    BY <1>5 DEF Spin, NoCall, CallKept
  <2> QED BY <1>1, <1>5, <2>1 DEF Spin
<1>6. CASE LinkFails \/ UNCHANGED vars
  BY <1>1, <1>6 DEF LinkFails, vars, CallKept
<1>7. CASE Receive
  BY <1>1, <1>7 DEF Receive, Recv, CallKept
<1>8. CASE WaitSkips
  BY <1>1, <1>8 DEF WaitSkips, Read, CallKept
<1>9. CASE WaitData
  BY <1>1, <1>2, <1>9 DEF WaitData, Read, CallKept
<1>10. CASE WaitTooShort \/ WaitMismatch \/ WaitRejected
  BY <1>1, <1>3, <1>10 DEF WaitTooShort, WaitMismatch, WaitRejected, Read
<1>11. CASE SpinFrame
  <2>1. UNCHANGED <<drId, bound>>
    BY <1>2, <1>11 DEF SpinFrame
  <2>2. CallKept
    BY <1>3, <1>11 DEF SpinFrame, CallKept
  <2> QED BY <1>1, <1>11, <2>1, <2>2 DEF SpinFrame, Read
<1> QED BY <1>4, <1>5, <1>6, <1>7, <1>8, <1>9, <1>10, <1>11
-----------------------------------------------------------------------------
(* Entities: a call begins and its message is written. *)
\* Who relies on an entity.
LEMMA OwnedBy ==
  \A oid : oid \in Owned <=>
    \/ \E node \in nodes : oid \in NodeOidsOf(node)
    \/ \E pub \in pubs : oid = pub.oid
    \/ \E s \in Range(table) : oid = drId[s]
    \/ oid \in Made
<1>1. TAKE oid
<1>2. oid \in NodesOwned <=> \E node \in nodes : oid \in NodeOidsOf(node)
  <2>1. ASSUME oid \in NodesOwned
        PROVE  \E node \in nodes : oid \in NodeOidsOf(node)
    <3>1. PICK set \in {NodeOidsOf(node) : node \in nodes} : oid \in set
      BY <2>1 DEF NodesOwned
    <3> QED BY <3>1
  <2>2. ASSUME NEW node \in nodes, oid \in NodeOidsOf(node)
        PROVE  oid \in NodesOwned
    BY <2>2 DEF NodesOwned
  <2> QED BY <2>1, <2>2
<1>3. oid \in PubsOwned <=> \E pub \in pubs : oid = pub.oid
  BY DEF PubsOwned
<1>4. oid \in TableOwned <=> \E s \in Range(table) : oid = drId[s]
  BY DEF TableOwned
<1> QED BY <1>2, <1>3, <1>4 DEF Owned

\* What handles, slots and calls rely on are object ids.
LEMMA OwnedOids ==
  ASSUME TypeInv, OidsFit
  PROVE  /\ Owned \subseteq Oid
         /\ \A oid \in Oid : oid[1] \in Kind /\ oid[2] \in Nat
<1>1. \A node \in nodes : NodeOidsOf(node) \subseteq Oid
  <2>1. \A node \in nodes : node \in Node
    BY DEF TypeInv, TypeOK, AppTypeOK
  <2> QED BY <2>1, NodeOids DEF NodeOidsOf
<1>2. \A pub \in pubs : pub.oid \in Oid
  BY DEF TypeInv, TypeOK, AppTypeOK, Publisher
<1>3. \A s \in Range(table) : drId[s] \in Oid
  <2>1. \A s \in Range(table) : s \in Slot
    BY ElementOfSeq, LenProperties DEF TypeInv, TypeOK, SessionTypeOK, Range
  <2>2. \A s \in Range(table) : drId[s] \in Oid \cup {NoOid}
    BY <2>1 DEF TypeInv, TypeOK, SubscriptionTypeOK
  <2> QED BY <2>2 DEF OidsFit, NoOid
<1>4. Made \subseteq Oid
  <2>1. call.node \in Node
    BY DEF TypeInv, TypeOK, CallTypeOK
  <2>2. call.op = "subscription" => call.msg.oid \in Oid
    BY DEF TypeInv, CallFits, Creates, EntityRequest
  <2> QED BY <2>1, <2>2, NodeOids DEF Made
<1>5. \A oid \in Oid : oid[1] \in Kind /\ oid[2] \in Nat
  BY DEF Oid
<1>6. \A oid \in Owned : oid \in Oid
  BY <1>1, <1>2, <1>3, <1>4, OwnedBy
<1> QED BY <1>5, <1>6

\* A call begins or goes on with a message that creates nothing it relies on.
LEMMA EntityNext ==
  ASSUME TypeInv, EntityInv, open,
         UNCHANGED <<objs, reading, nodes, pubs, table, drId, bound, open>>,
         \A k \in Kind : nextIdx'[k] \in Nat /\ nextIdx[k] \in Nat /\ nextIdx'[k] >= nextIdx[k],
         Range(toAgent') \subseteq Range(toAgent),
         \A oid \in Made' :
           /\ IssuedOid(oid)' /\ objs[oid] # Absent
           /\ \A m \in Range(toAgent') : m.type = "CREATE" => m.oid # oid,
         call'.msg.type = "CREATE" => call'.msg.oid \notin Owned \cup Made',
         MsgFits', pc' = "write"
  PROVE  EntityInv'
<1>1. open'
  OBVIOUS
<1>2. RoutesDistinct' /\ OidsFit' /\ WritesPending'
  BY DEF EntityInv, RoutesDistinct, OidsFit, WritesPending
<1>3. HandlesBacked'
  BY <1>1 DEF EntityInv, HandlesBacked, NodesBacked, PublishersBacked, SubscriptionsBacked,
              ParticipantOf, PublisherOf, SubscriberOf
<1>4. \A node \in nodes : NodeIndexed(node)'
  BY DEF EntityInv, NodeIndexed, Kind
<1>5. \A oid \in Owned' : oid \in Owned \/ oid \in Made'
  <2>1. ASSUME NEW oid \in Owned', oid \notin Made'
        PROVE  oid \in Owned
    <3>1. NodesOwned' = NodesOwned
      BY DEF NodesOwned, NodeOidsOf, ParticipantOf, PublisherOf, SubscriberOf
    <3>2. PubsOwned' = PubsOwned /\ TableOwned' = TableOwned
      BY DEF PubsOwned, TableOwned
    <3> QED BY <2>1, <3>1, <3>2 DEF Owned
  <2> QED BY <2>1
<1>6. \A oid \in Owned' : IssuedOid(oid)' /\ Settled(oid)'
  <2>1. ASSUME NEW oid \in Owned
        PROVE  IssuedOid(oid)' /\ \A m \in Range(toAgent') : m.type = "CREATE" => m.oid # oid
    <3>1. oid[1] \in Kind /\ oid[2] \in Nat
      BY OwnedOids DEF EntityInv
    <3>2. IssuedOid(oid) /\ Settled(oid)
      BY DEF EntityInv
    <3> QED BY <3>1, <3>2 DEF IssuedOid, Settled
  <2> QED BY <1>5, <2>1 DEF Settled
<1>7. \A oid \in Made' : objs'[oid] # Absent
  OBVIOUS
<1> QED BY <1>1, <1>2, <1>3, <1>4, <1>6, <1>7 DEF EntityInv

\* An id not given out yet is nobody's.
LEMMA FreshOid ==
  ASSUME TypeInv, CountersInv, OneLife, EntityInv, open, NEW k \in Kind, nextIdx[k] < IdxSpan
  PROVE  /\ ObjectId(nextIdx[k], k) = <<k, nextIdx[k]>>
         /\ ObjectId(nextIdx[k], k) \notin Owned
<1>1. nextIdx[k] \in Nat
  BY CountersFit
<1>2. ObjectId(nextIdx[k], k) = <<k, nextIdx[k]>>
  BY <1>1, ObjectIdExact
<1>3. \A oid \in Owned : oid[2] < nextIdx[oid[1]]
  BY DEF EntityInv, IssuedOid
<1> QED BY <1>1, <1>2, <1>3

\* create_node begins.
LEMMA EntityCreateNode ==
  ASSUME TypeInv, CountersInv, OneLife, EntityInv, open, CreateNode
  PROVE  EntityInv'
<1> DEFINE node == [participant |-> nextIdx["PARTICIPANT"],
                    publisher   |-> nextIdx["PUBLISHER"],
                    subscriber  |-> nextIdx["SUBSCRIBER"]]
<1>1. /\ call'.op = "node" /\ call'.step = 1 /\ call'.node = node /\ pc' = "write"
      /\ call'.msg = CreateMsg(reqId, ParticipantOf(node), ParticipantOf(node), NoTopic)
      /\ nextIdx["PARTICIPANT"] <= MaxNodes
      /\ nextIdx' = [k \in Kind |-> IF k \in {"PARTICIPANT", "PUBLISHER", "SUBSCRIBER"}
                                    THEN nextIdx[k] + 1 ELSE nextIdx[k]]
  BY DEF CreateNode, Begin, Alloc
<1>2. UNCHANGED <<objs, reading, nodes, pubs, table, drId, bound, open, toAgent>>
  BY DEF CreateNode, appVars, slotVars, agentVars
<1>3. \A k \in Kind : nextIdx[k] \in Nat
  BY CountersFit
<1>4. \A k \in Kind : nextIdx'[k] \in Nat /\ nextIdx'[k] >= nextIdx[k]
  BY <1>1, <1>3
<1>5. /\ nextIdx'["PARTICIPANT"] = nextIdx["PARTICIPANT"] + 1
      /\ nextIdx["PARTICIPANT"] \in Nat /\ nextIdx["PARTICIPANT"] >= 1
      /\ nextIdx["PUBLISHER"] = nextIdx["PARTICIPANT"]
      /\ nextIdx["SUBSCRIBER"] = nextIdx["PARTICIPANT"]
      /\ nextIdx["PARTICIPANT"] < IdxSpan
  BY <1>1, <1>3, CountersFit DEF Kind, CountersInv, OneLife, NoAliasing
<1>6. /\ call'.msg.type = "CREATE" /\ call'.msg.oid = ParticipantOf(node)
      /\ ParticipantOf(node) = ObjectId(nextIdx["PARTICIPANT"], "PARTICIPANT")
  BY <1>1 DEF CreateMsg, ParticipantOf
<1>7. /\ call'.msg.oid \notin Owned
      /\ call'.msg.oid = <<"PARTICIPANT", nextIdx["PARTICIPANT"]>>
  BY <1>5, <1>6, FreshOid DEF Kind
<1>8. Made' = {}
  BY <1>1 DEF Made
<1>9. NodeIndexed(call.node)'
  BY <1>1, <1>5 DEF NodeIndexed
<1>10. \A n \in nodes : n.participant # node.participant
  BY <1>5 DEF EntityInv, NodeIndexed
<1>11. IssuedOid(call.msg.oid)'
  BY <1>5, <1>7 DEF IssuedOid
<1>12. MsgFits'
  <2>1. ParticipantOf(call.node)' = ParticipantOf(node)
    BY <1>1 DEF ParticipantOf
  <2>2. \A n \in nodes' : n.participant # call'.node.participant
    BY <1>1, <1>2, <1>10
  <2> QED BY <1>1, <1>6, <1>9, <1>11, <2>1, <2>2 DEF MsgFits
<1> QED BY <1>1, <1>2, <1>3, <1>4, <1>7, <1>8, <1>12, EntityNext

\* create_publisher and create_subscription begin.
LEMMA EntityCreateTopic ==
  ASSUME TypeInv, CountersInv, OneLife, EntityInv, open,
         NEW op \in {"publisher", "subscription"}, NEW node, NEW topic, NEW slot,
         CreateTopic(op, node, topic, slot)
  PROVE  EntityInv'
<1>1. /\ call'.op = op /\ call'.step = 1 /\ pc' = "write"
      /\ call'.msg = CreateMsg(reqId, ObjectId(nextIdx["TOPIC"], "TOPIC"),
                               ParticipantOf(node), topic)
      /\ nextIdx["TOPIC"] <= MaxEndpoints
      /\ nextIdx' = [k \in Kind |-> IF k \in {"TOPIC"} THEN nextIdx[k] + 1 ELSE nextIdx[k]]
  BY DEF CreateTopic, Begin, Alloc
<1>2. UNCHANGED <<objs, reading, nodes, pubs, table, drId, bound, open, toAgent>>
  BY DEF CreateTopic, appVars, slotVars, agentVars
<1>3. \A k \in Kind : nextIdx[k] \in Nat
  BY CountersFit
<1>4. \A k \in Kind : nextIdx'[k] \in Nat /\ nextIdx'[k] >= nextIdx[k]
  BY <1>1, <1>3
<1>5. nextIdx["TOPIC"] \in Nat /\ nextIdx'["TOPIC"] = nextIdx["TOPIC"] + 1
      /\ nextIdx["TOPIC"] < IdxSpan
  BY <1>1, <1>3 DEF Kind, OneLife, NoAliasing
<1>6. call'.msg.type = "CREATE" /\ call'.msg.oid = ObjectId(nextIdx["TOPIC"], "TOPIC")
  BY <1>1 DEF CreateMsg
<1>7. call'.msg.oid \notin Owned /\ call'.msg.oid = <<"TOPIC", nextIdx["TOPIC"]>>
  BY <1>5, <1>6, FreshOid DEF Kind
<1>8. Made' = {}
  BY <1>1 DEF Made
<1>9. IssuedOid(call.msg.oid)'
  BY <1>5, <1>7 DEF IssuedOid
<1>10. MsgFits'
  BY <1>1, <1>6, <1>7, <1>9 DEF MsgFits
<1> QED BY <1>1, <1>2, <1>3, <1>4, <1>7, <1>8, <1>10, EntityNext

\* publish begins.
LEMMA EntityPublish ==
  ASSUME TypeInv, CountersInv, OneLife, EntityInv, open, NEW pub \in pubs, Publish(pub)
  PROVE  EntityInv'
<1>1. /\ call'.op = "publish" /\ pc' = "write"
      /\ call'.msg = WriteDataMsg(pub.oid, pub.topic)
      /\ UNCHANGED <<nextIdx, objs, reading, nodes, pubs, table, drId, bound, open, toAgent>>
  BY DEF Publish, Begin, sessionVars, appVars, slotVars, agentVars
<1>2. call'.msg.type = "WRITE_DATA" /\ call'.msg.oid = pub.oid /\ call'.msg.topic = pub.topic
  BY <1>1 DEF WriteDataMsg
<1>3. [oid |-> pub.oid, topic |-> pub.topic] = pub
  BY DEF TypeInv, TypeOK, AppTypeOK, Publisher
<1>4. Made' = {}
  BY <1>1 DEF Made
<1>5. MsgFits'
  BY <1>1, <1>2, <1>3 DEF MsgFits, Creates
<1>6. \A k \in Kind : nextIdx[k] \in Nat
  BY CountersFit
<1> QED BY <1>1, <1>2, <1>4, <1>5, <1>6, EntityNext
\* The message of the call is written.
LEMMA EntityWrite ==
  ASSUME TypeInv, QueuesInOrder, CallInOrder, EntityInv, open, WriteFrame
  PROVE  EntityInv'
<1>1. /\ toAgent \in Seq(ClientMsg)
      /\ UNCHANGED <<objs, reading, nodes, pubs, table, drId, bound, nextIdx, open, owed, toClient>>
  BY PipeTypes DEF WriteFrame, sessionVars, appVars, slotVars, entityVars
<1>2. Statuses' = Statuses
  BY <1>1 DEF Statuses
<1>3. pc = "write" /\ call.op \in Creates \cup {"publish"}
  <2>1. call.op \in {"none", "connect", "node", "publisher", "subscription", "publish",
                     "spin_once", "spin"}
    BY DEF TypeInv, TypeOK, CallTypeOK
  <2> QED BY <2>1 DEF WriteFrame, CallInOrder, TypeInv, CallFits, Creates
<1>4. CallKept
  <2>1. CASE call.op = "publish"
    BY <2>1 DEF WriteFrame, AfterWrite, Return, NoCall, CallKept
  <2>2. CASE call.op \in Creates
    <3>1. UNCHANGED call
      BY <2>2 DEF WriteFrame, AfterWrite, Creates
    <3>2. \A s \in Statuses : s.req # call.msg.req
      BY <1>3, <2>2, PipeTypes DEF CallInOrder
    <3>3. Status(call.msg.req, TRUE) \notin Statuses'
      BY <1>2, <3>2 DEF Status
    <3> QED BY <3>1, <3>3 DEF CallKept
  <2> QED BY <1>3, <2>1, <2>2
<1>5. JoinsCall
  <2>1. CASE UNCHANGED toAgent
    BY <2>1 DEF JoinsCall
  <2>2. CASE toAgent' = Append(toAgent, call.msg)
    <3>1. call.msg \in ClientMsg
      BY <1>3 DEF TypeInv, CallFits, ClientMsg
    <3>2. Range(toAgent') = Range(toAgent) \cup {call.msg}
      BY <1>1, <2>2, <3>1, RangeAppend
    <3> QED BY <1>3, <3>2 DEF JoinsCall
  <2> QED BY <2>1, <2>2 DEF WriteFrame
<1> QED BY <1>1, <1>2, <1>4, <1>5, EntityQuiet DEF Keeps
-----------------------------------------------------------------------------
(* Entities: a create method goes on. *)

\* When the call's request has been granted the agent has done what it asked,
\* and nothing else is on the connection that could undo it.
LEMMA EntityGranted ==
  ASSUME TypeInv, QueuesInOrder, CallInOrder, EntityInv, open,
         NEW op, op \in Creates, NEW step, Granted(op, step)
  PROVE  /\ call.op = op /\ call.step = step
         /\ Served
         /\ \A m \in Range(toAgent') : m.type # "CREATE"
         /\ Range(toAgent') = Range(toAgent)
         /\ UNCHANGED <<objs, reading>>
         /\ call.msg \in EntityRequest /\ call.msg.oid \in Oid
         /\ IssuedOid(call.msg.oid) /\ call.node \in Node
<1>1. /\ toClient \in Seq(AgentMsg) /\ toClient # <<>> /\ pc = "wait"
      /\ UNCHANGED <<toAgent, objs, reading>>
      /\ Head(toClient).type = "STATUS" /\ Head(toClient).req = call.msg.req
      /\ Head(toClient).ok /\ call.op = op /\ call.step = step
      /\ Read("wait") /\ Answers(Frame, call.msg.req)
  BY PipeTypes DEF Granted, Read, Answers, Frame, entityVars
<1>2. Head(toClient) \in AgentMsg /\ Head(toClient) \in Range(toClient)
  BY <1>1, TakeFirst, RangeTail
<1>3. Head(toClient) = Status(call.msg.req, TRUE)
  BY <1>1, <1>2 DEF AgentMsg, Reply, Status
<1>4. Status(call.msg.req, TRUE) \in Statuses
  BY <1>1, <1>2, <1>3 DEF Statuses
<1>5. Served
  BY <1>1, <1>4 DEF EntityInv
<1>6. Requests' = {}
  BY <1>1, LastAnswer
<1>7. \A m \in Range(toAgent') : m.type # "CREATE"
  BY <1>6 DEF Requests
<1>8. call.msg \in EntityRequest /\ call.msg.oid \in Oid /\ call.node \in Node
  BY <1>1 DEF TypeInv, CallFits, EntityRequest, TypeOK, CallTypeOK
<1>9. IssuedOid(call.msg.oid)
  BY <1>1 DEF EntityInv, MsgFits
<1> QED BY <1>1, <1>5, <1>7, <1>8, <1>9

\* A granted CREATE leaves an entity behind.
LEMMA ServedExists ==
  ASSUME TypeInv, Served, call.msg \in EntityRequest, call.msg.type = "CREATE"
  PROVE  objs[call.msg.oid] = call.msg.topic /\ objs[call.msg.oid] # Absent
BY DEF Served, EntityRequest

\* create_node goes on to the publisher, then to the subscriber.
LEMMA EntityNodeGoesOn ==
  ASSUME TypeInv, CountersInv, OneLife, QueuesInOrder, CallInOrder, EntityInv, open, NodeGoesOn
  PROVE  EntityInv'
<1>1. UNCHANGED <<nextIdx, table, nodes, pubs, drId, bound, open>>
  BY DEF NodeGoesOn, appVars, slotVars
<1>2. PICK step \in {1, 2} : Granted("node", step)
  BY DEF NodeGoesOn
<1>3. /\ call.op = "node" /\ call.step = step /\ Served
      /\ \A m \in Range(toAgent') : m.type # "CREATE"
      /\ Range(toAgent') = Range(toAgent) /\ UNCHANGED <<objs, reading>>
      /\ call.msg \in EntityRequest
  BY <1>2, EntityGranted DEF Creates
<1>4. /\ call.msg.type = "CREATE"
      /\ call.step = 1 => call.msg.oid = ParticipantOf(call.node)
      /\ call.step = 2 => call.msg.oid = PublisherOf(call.node)
      /\ NodeIndexed(call.node)
      /\ \A node \in nodes : node.participant # call.node.participant
  BY <1>3 DEF EntityInv, MsgFits
<1>5. objs[call.msg.oid] # Absent
  BY <1>3, <1>4, ServedExists
<1>6. /\ pc' = "write" /\ call'.op = "node" /\ call'.step = step + 1 /\ call'.node = call.node
      /\ call'.msg.type = "CREATE"
      /\ step = 1 => call'.msg.oid = PublisherOf(call.node)
      /\ step = 2 => call'.msg.oid = SubscriberOf(call.node)
  <2>1. PICK m : /\ Proceed(m) /\ m.type = "CREATE"
                 /\ step = 1 => m.oid = PublisherOf(call.node)
                 /\ step = 2 => m.oid = SubscriberOf(call.node)
    BY <1>3 DEF NodeGoesOn, Granted, CreateMsg
  <2>2. call' = [call EXCEPT !.step = call.step + 1, !.msg = m] /\ pc' = "write"
    BY <2>1 DEF Proceed
  <2> QED BY <1>3, <2>1, <2>2 DEF TypeInv, TypeOK, CallTypeOK
<1>7. /\ step = 1 => Made' = {ParticipantOf(call.node)}
      /\ step = 2 => Made' = {ParticipantOf(call.node), PublisherOf(call.node)}
  <2>1. ParticipantOf(call.node)' = ParticipantOf(call.node)
        /\ PublisherOf(call.node)' = PublisherOf(call.node)
    BY <1>6 DEF ParticipantOf, PublisherOf
  <2>2. CASE step = 1
    BY <1>6, <2>1, <2>2 DEF Made
  <2>3. CASE step = 2
    BY <1>6, <2>1, <2>3 DEF Made
  <2> QED BY <2>2, <2>3
<1>8. step = 2 => objs[ParticipantOf(call.node)] # Absent
  BY <1>3 DEF EntityInv, Made
<1>9. \A oid \in Made' : objs[oid] # Absent
  BY <1>2, <1>3, <1>4, <1>5, <1>7, <1>8
<1>10. /\ ParticipantOf(call.node) = <<"PARTICIPANT", call.node.participant>>
       /\ PublisherOf(call.node) = <<"PUBLISHER", call.node.participant>>
       /\ SubscriberOf(call.node) = <<"SUBSCRIBER", call.node.participant>>
       /\ \A oid \in NodeOidsOf(call.node) : IssuedOid(oid)
  BY <1>4, NodeOidsExact
<1>11. Made' \subseteq NodeOidsOf(call.node) /\ call'.msg.oid \in NodeOidsOf(call.node)
       /\ call'.msg.oid \notin Made'
  <2>1. CASE step = 1
    BY <1>6, <1>7, <1>10, <2>1 DEF NodeOidsOf
  <2>2. CASE step = 2
    BY <1>6, <1>7, <1>10, <2>2 DEF NodeOidsOf
  <2> QED BY <2>1, <2>2
<1>12. \A oid \in Made' : IssuedOid(oid)'
  BY <1>1, <1>10, <1>11 DEF IssuedOid
<1>13. IssuedOid(call.msg.oid)'
  BY <1>1, <1>10, <1>11 DEF IssuedOid
<1>14. call'.msg.oid \notin Owned
  <2>1. \A node \in nodes : call'.msg.oid \notin NodeOidsOf(node)
    BY <1>4, <1>11, NodeOidsApart DEF EntityInv
  <2>2. call'.msg.oid[1] \notin {"DATAWRITER", "DATAREADER"}
    BY <1>10, <1>11 DEF NodeOidsOf
  <2>3. call'.msg.oid \notin Made
    <3>1. CASE step = 1
      BY <1>3, <3>1 DEF Made
    <3>2. CASE step = 2
      BY <1>3, <1>6, <1>10, <3>2 DEF Made
    <3> QED BY <3>1, <3>2
  <2> QED BY <2>1, <2>2, <2>3, OwnedBy DEF EntityInv, OidsFit
<1>15. MsgFits'
  <2>1. /\ PublisherOf(call.node)' = PublisherOf(call.node)
        /\ SubscriberOf(call.node)' = SubscriberOf(call.node)
    BY <1>6 DEF PublisherOf, SubscriberOf
  <2>2. NodeIndexed(call.node)'
    BY <1>1, <1>4, <1>6 DEF NodeIndexed
  <2>3. \A node \in nodes' : node.participant # call'.node.participant
    BY <1>1, <1>4, <1>6
  <2> QED BY <1>6, <1>13, <2>1, <2>2, <2>3 DEF MsgFits
<1>16. \A k \in Kind : nextIdx'[k] \in Nat /\ nextIdx[k] \in Nat /\ nextIdx'[k] >= nextIdx[k]
  BY <1>1, CountersFit
<1> QED BY <1>1, <1>3, <1>6, <1>9, <1>11, <1>12, <1>14, <1>15, <1>16, EntityNext
\* create_publisher goes on to the writer, create_subscription to the reader.
LEMMA EntityEndpointGoesOn ==
  ASSUME TypeInv, CountersInv, OneLife, QueuesInOrder, CallInOrder, EntityInv, open,
         PublisherGoesOn \/ SubscriptionGoesOn
  PROVE  EntityInv'
<1>1. UNCHANGED <<table, nodes, pubs, drId, bound, open>>
  BY DEF PublisherGoesOn, SubscriptionGoesOn, appVars, slotVars
<1>2. PICK op \in {"publisher", "subscription"}, kind \in {"DATAWRITER", "DATAREADER"},
           parent \in {PublisherOf(call.node), SubscriberOf(call.node)} :
        /\ op = "publisher" => kind = "DATAWRITER"
        /\ op = "subscription" => kind = "DATAREADER"
        /\ Granted(op, 1)
        /\ Proceed(CreateMsg(reqId, ObjectId(nextIdx[kind], kind), parent, call.topic))
        /\ Alloc({kind})
  BY DEF PublisherGoesOn, SubscriptionGoesOn
<1>3. /\ call.op = op /\ call.step = 1
      /\ \A m \in Range(toAgent') : m.type # "CREATE"
      /\ Range(toAgent') = Range(toAgent) /\ UNCHANGED <<objs, reading>>
  BY <1>2, EntityGranted DEF Creates
<1>4. HalfMade = 1
  BY <1>3 DEF HalfMade
<1>5. kind \in Kind /\ nextIdx[kind] \in Nat /\ nextIdx[kind] < IdxSpan
  BY <1>4, CountersFit DEF Kind
<1>6. /\ ObjectId(nextIdx[kind], kind) = <<kind, nextIdx[kind]>>
      /\ ObjectId(nextIdx[kind], kind) \notin Owned
  BY <1>5, FreshOid
<1>7. /\ pc' = "write" /\ call'.op = op /\ call'.step = 2 /\ call'.topic = call.topic
      /\ call'.msg.type = "CREATE" /\ call'.msg.topic = call.topic
      /\ call'.msg.oid = <<kind, nextIdx[kind]>>
  <2>1. PICK m : /\ Proceed(m) /\ m.type = "CREATE" /\ m.topic = call.topic
                 /\ m.oid = <<kind, nextIdx[kind]>>
    BY <1>2, <1>6 DEF CreateMsg
  <2>2. call' = [call EXCEPT !.step = call.step + 1, !.msg = m] /\ pc' = "write"
    BY <2>1 DEF Proceed
  <2> QED BY <1>3, <2>1, <2>2 DEF TypeInv, TypeOK, CallTypeOK
<1>8. Made' = {}
  BY <1>7 DEF Made
<1>9. \A k \in Kind : nextIdx[k] \in Nat
  BY CountersFit
<1>10. nextIdx' = [k \in Kind |-> IF k \in {kind} THEN nextIdx[k] + 1 ELSE nextIdx[k]]
  BY <1>2 DEF Alloc
<1>11. /\ \A k \in Kind : nextIdx'[k] \in Nat /\ nextIdx[k] \in Nat /\ nextIdx'[k] >= nextIdx[k]
       /\ nextIdx'[kind] = nextIdx[kind] + 1
  BY <1>5, <1>9, <1>10
<1>12. IssuedOid(call.msg.oid)'
  BY <1>5, <1>7, <1>11 DEF IssuedOid
<1>13. call'.op = "publisher" => kind = "DATAWRITER"
  BY <1>2, <1>7
<1>14. call'.op = "subscription" => kind = "DATAREADER"
  BY <1>2, <1>7
<1>15. MsgFits'
  BY <1>7, <1>12, <1>13, <1>14 DEF MsgFits
<1> QED BY <1>1, <1>3, <1>6, <1>7, <1>8, <1>11, <1>15, EntityNext

\* create_subscription goes on to READ_DATA.
LEMMA EntitySubscriptionReads ==
  ASSUME TypeInv, CountersInv, OneLife, QueuesInOrder, CallInOrder, EntityInv, open,
         SubscriptionReads
  PROVE  EntityInv'
<1> DEFINE reader == call.msg.oid
<1>1. UNCHANGED <<nextIdx, table, nodes, pubs, drId, bound, open>> /\ Granted("subscription", 2)
  BY DEF SubscriptionReads, appVars, slotVars
<1>2. /\ call.op = "subscription" /\ call.step = 2 /\ Served
      /\ \A m \in Range(toAgent') : m.type # "CREATE"
      /\ Range(toAgent') = Range(toAgent) /\ UNCHANGED <<objs, reading>>
      /\ call.msg \in EntityRequest /\ IssuedOid(call.msg.oid)
  BY <1>1, EntityGranted DEF Creates
<1>3. /\ call.msg.type = "CREATE" /\ call.msg.topic = call.topic
      /\ call.msg.oid[1] = "DATAREADER"
  BY <1>2 DEF EntityInv, MsgFits
<1>4. objs[call.msg.oid] = call.topic /\ objs[call.msg.oid] # Absent
  BY <1>2, <1>3, ServedExists
<1>5. \A s \in Range(table) : drId[s] # call.msg.oid
  <2>1. \A oid \in Owned : oid # call.msg.oid
    BY <1>3 DEF EntityInv, Settled
  <2> QED BY <2>1, OwnedBy
<1>6. /\ pc' = "write" /\ call'.op = "subscription" /\ call'.step = 3 /\ call'.topic = call.topic
      /\ call'.msg.type = "READ_DATA" /\ call'.msg.oid = call.msg.oid
  <2>1. PICK m : Proceed(m) /\ m.type = "READ_DATA" /\ m.oid = call.msg.oid
    BY DEF SubscriptionReads, ReadDataMsg
  <2>2. call' = [call EXCEPT !.step = call.step + 1, !.msg = m] /\ pc' = "write"
    BY <2>1 DEF Proceed
  <2> QED BY <1>2, <2>1, <2>2 DEF TypeInv, TypeOK, CallTypeOK
<1>7. Made' = {call.msg.oid}
  BY <1>6 DEF Made
<1>8. IssuedOid(call.msg.oid)'
  BY <1>1, <1>2, <1>6 DEF IssuedOid
<1>9. \A oid \in Made' : /\ IssuedOid(oid)' /\ objs[oid] # Absent
                         /\ \A m \in Range(toAgent') : m.type = "CREATE" => m.oid # oid
  BY <1>1, <1>2, <1>4, <1>7 DEF IssuedOid
<1>10. MsgFits'
  BY <1>1, <1>2, <1>3, <1>4, <1>5, <1>6, <1>8 DEF MsgFits
<1>11. \A k \in Kind : nextIdx'[k] \in Nat /\ nextIdx[k] \in Nat /\ nextIdx'[k] >= nextIdx[k]
  BY <1>1, CountersFit
<1> QED BY <1>1, <1>2, <1>6, <1>9, <1>10, <1>11, EntityNext

-----------------------------------------------------------------------------
(* Entities: a create method returns Ok. *)

\* The handle or the registration that a method returns is of entities that
\* exist, and that nothing on the connection is for.
LEMMA EntityNodeReady ==
  ASSUME TypeInv, CountersInv, OneLife, QueuesInOrder, CallInOrder, EntityInv, open, NodeReady
  PROVE  EntityInv'
<1>1. /\ UNCHANGED <<nextIdx, table, pubs, drId, bound, open>> /\ Granted("node", 3)
      /\ nodes' = nodes \cup {call.node} /\ call' = NoCall /\ pc' = "idle"
  BY DEF NodeReady, Return, sessionVars, slotVars
<1>2. /\ call.op = "node" /\ call.step = 3 /\ Served
      /\ \A m \in Range(toAgent') : m.type # "CREATE"
      /\ Range(toAgent') = Range(toAgent) /\ UNCHANGED <<objs, reading>>
      /\ call.msg \in EntityRequest
  BY <1>1, EntityGranted DEF Creates
<1>3. /\ call.msg.type = "CREATE" /\ call.msg.oid = SubscriberOf(call.node)
      /\ NodeIndexed(call.node)
  BY <1>2 DEF EntityInv, MsgFits
<1>4. objs[SubscriberOf(call.node)] # Absent
  BY <1>2, <1>3, ServedExists
<1>5. objs[ParticipantOf(call.node)] # Absent /\ objs[PublisherOf(call.node)] # Absent
  BY <1>2 DEF EntityInv, Made
<1>6. open' /\ RoutesDistinct' /\ OidsFit' /\ WritesPending'
  <2>1. open'
    BY <1>1
  <2>2. RoutesDistinct' /\ OidsFit' /\ WritesPending'
    BY <1>1, <1>2 DEF EntityInv, RoutesDistinct, OidsFit, WritesPending
  <2> QED BY <2>1, <2>2
<1>7. HandlesBacked'
  <2>1. NodesBacked'
    BY <1>1, <1>2, <1>4, <1>5
       DEF EntityInv, HandlesBacked, NodesBacked, ParticipantOf, PublisherOf, SubscriberOf
  <2>2. PublishersBacked' /\ SubscriptionsBacked'
    BY <1>1, <1>2 DEF EntityInv, HandlesBacked, PublishersBacked, SubscriptionsBacked
  <2> QED BY <2>1, <2>2 DEF HandlesBacked
<1>8. (\A node \in nodes : NodeIndexed(node))'
  BY <1>1, <1>3 DEF EntityInv, NodeIndexed
<1>9. Made' = {}
  BY <1>1 DEF Made, NoCall
<1>10. \A oid \in Owned' : oid \in Owned \/ oid \in NodeOidsOf(call.node)
  <2>1. \A oid \in NodesOwned' : oid \in NodesOwned \/ oid \in NodeOidsOf(call.node)
    BY <1>1 DEF NodesOwned, NodeOidsOf, ParticipantOf, PublisherOf, SubscriberOf
  <2>2. PubsOwned' = PubsOwned /\ TableOwned' = TableOwned
    BY <1>1 DEF PubsOwned, TableOwned
  <2> QED BY <1>9, <2>1, <2>2 DEF Owned
<1>11. \A oid \in Owned' : IssuedOid(oid)' /\ Settled(oid)'
  <2>1. \A oid \in Owned' : IssuedOid(oid)
    BY <1>3, <1>10, NodeOidsExact DEF EntityInv
  <2> QED BY <1>1, <1>2, <2>1 DEF IssuedOid, Settled, NoCall, NoMsg
<1>12. MsgFits'
  BY <1>1 DEF MsgFits, NoCall, Creates
<1> QED BY <1>1, <1>6, <1>7, <1>8, <1>9, <1>11, <1>12 DEF EntityInv

LEMMA EntityPublisherReady ==
  ASSUME TypeInv, QueuesInOrder, CallInOrder, EntityInv, open, PublisherReady
  PROVE  EntityInv'
<1>1. /\ UNCHANGED <<nextIdx, table, nodes, drId, bound, open>> /\ Granted("publisher", 2)
      /\ pubs' = pubs \cup {[oid |-> call.msg.oid, topic |-> call.topic]}
      /\ call' = NoCall /\ pc' = "idle"
  BY DEF PublisherReady, Return, sessionVars, slotVars
<1>2. /\ call.op = "publisher" /\ call.step = 2 /\ Served
      /\ \A m \in Range(toAgent') : m.type # "CREATE"
      /\ Range(toAgent') = Range(toAgent) /\ UNCHANGED <<objs, reading>>
      /\ call.msg \in EntityRequest /\ IssuedOid(call.msg.oid)
  BY <1>1, EntityGranted DEF Creates
<1>3. /\ call.msg.type = "CREATE" /\ call.msg.topic = call.topic
      /\ call.msg.oid[1] = "DATAWRITER"
  BY <1>2 DEF EntityInv, MsgFits
<1>4. objs[call.msg.oid] = call.topic
  BY <1>2, <1>3, ServedExists
<1>5. open' /\ RoutesDistinct' /\ OidsFit' /\ WritesPending'
  <2>1. open'
    BY <1>1
  <2>2. RoutesDistinct' /\ OidsFit' /\ WritesPending'
    BY <1>1, <1>2, <1>3 DEF EntityInv, RoutesDistinct, OidsFit, WritesPending
  <2> QED BY <2>1, <2>2
<1>6. HandlesBacked'
  <2>1. PublishersBacked'
    BY <1>1, <1>2, <1>4 DEF EntityInv, HandlesBacked, PublishersBacked
  <2>2. NodesBacked' /\ SubscriptionsBacked'
    BY <1>1, <1>2 DEF EntityInv, HandlesBacked, NodesBacked, SubscriptionsBacked,
                      ParticipantOf, PublisherOf, SubscriberOf
  <2> QED BY <2>1, <2>2 DEF HandlesBacked
<1>7. (\A node \in nodes : NodeIndexed(node))'
  BY <1>1 DEF EntityInv, NodeIndexed
<1>8. Made' = {}
  BY <1>1 DEF Made, NoCall
<1>9. \A oid \in Owned' : oid \in Owned \/ oid = call.msg.oid
  <2>1. NodesOwned' = NodesOwned /\ TableOwned' = TableOwned
    BY <1>1 DEF NodesOwned, TableOwned, NodeOidsOf, ParticipantOf, PublisherOf, SubscriberOf
  <2>2. \A oid \in PubsOwned' : oid \in PubsOwned \/ oid = call.msg.oid
    BY <1>1 DEF PubsOwned
  <2> QED BY <1>8, <2>1, <2>2 DEF Owned
<1>10. \A oid \in Owned' : IssuedOid(oid)' /\ Settled(oid)'
  <2>1. \A oid \in Owned' : IssuedOid(oid)
    BY <1>2, <1>9 DEF EntityInv
  <2> QED BY <1>1, <1>2, <2>1 DEF IssuedOid, Settled, NoCall, NoMsg
<1>11. MsgFits'
  BY <1>1 DEF MsgFits, NoCall, Creates
<1> QED BY <1>1, <1>5, <1>6, <1>7, <1>8, <1>10, <1>11 DEF EntityInv

LEMMA EntitySubscriptionReady ==
  ASSUME TypeInv, QueuesInOrder, CallInOrder, EntityInv, open, SubscriptionReady
  PROVE  EntityInv'
<1>1. /\ UNCHANGED <<nextIdx, nodes, pubs, open>> /\ Granted("subscription", 3)
      /\ drId' = [drId EXCEPT ![call.slot] = call.msg.oid]
      /\ bound' = [bound EXCEPT ![call.slot] = call.topic]
      /\ table' = Append(table, call.slot)
      /\ call' = NoCall /\ pc' = "idle"
  BY DEF SubscriptionReady, SetDrId, Return, appVars
<1>2. /\ call.op = "subscription" /\ call.step = 3 /\ Served
      /\ \A m \in Range(toAgent') : m.type # "CREATE"
      /\ Range(toAgent') = Range(toAgent) /\ UNCHANGED <<objs, reading>>
      /\ IssuedOid(call.msg.oid)
  BY <1>1, EntityGranted DEF Creates
<1>3. /\ call.msg.type = "READ_DATA" /\ call.msg.oid[1] = "DATAREADER"
      /\ objs[call.msg.oid] = call.topic
      /\ \A s \in Range(table) : drId[s] # call.msg.oid
  BY <1>2 DEF EntityInv, MsgFits
<1>4. call.msg.oid \in reading
  BY <1>2, <1>3 DEF Served
<1>5. /\ call.slot \in Slot /\ table \in Seq(Slot)
      /\ drId \in [Slot -> Oid \cup {NoOid}] /\ bound \in [Slot -> Topic \cup {NoTopic}]
  BY <1>2 DEF TypeInv, CallFits, TypeOK, SessionTypeOK, SubscriptionTypeOK
<1>6. Range(table') = Range(table) \cup {call.slot}
  BY <1>1, <1>5, RangeAppend
<1>7. \A s \in Range(table) : s \in Slot
  BY <1>5, ElementOfSeq, LenProperties DEF Range
<1>8. /\ drId'[call.slot] = call.msg.oid /\ bound'[call.slot] = call.topic
      /\ \A s \in Range(table) : s # call.slot => drId'[s] = drId[s] /\ bound'[s] = bound[s]
  BY <1>1, <1>5, <1>7
<1>9. RoutesDistinct'
  BY <1>3, <1>6, <1>8 DEF EntityInv, RoutesDistinct
<1>10. OidsFit'
  BY <1>1, <1>3, <1>6, <1>8 DEF EntityInv, OidsFit
<1>11. WritesPending'
  BY <1>1, <1>2 DEF EntityInv, WritesPending
<1>12. HandlesBacked'
  <2>1. SubscriptionsBacked'
    BY <1>2, <1>3, <1>4, <1>6, <1>8 DEF EntityInv, HandlesBacked, SubscriptionsBacked
  <2>2. NodesBacked' /\ PublishersBacked'
    BY <1>1, <1>2 DEF EntityInv, HandlesBacked, NodesBacked, PublishersBacked,
                      ParticipantOf, PublisherOf, SubscriberOf
  <2> QED BY <2>1, <2>2 DEF HandlesBacked
<1>13. (\A node \in nodes : NodeIndexed(node))'
  BY <1>1 DEF EntityInv, NodeIndexed
<1>14. Made' = {}
  BY <1>1 DEF Made, NoCall
<1>15. \A oid \in Owned' : oid \in Owned \/ oid = call.msg.oid
  <2>1. NodesOwned' = NodesOwned /\ PubsOwned' = PubsOwned
    BY <1>1 DEF NodesOwned, PubsOwned, NodeOidsOf, ParticipantOf, PublisherOf, SubscriberOf
  <2>2. \A oid \in TableOwned' : oid \in TableOwned \/ oid = call.msg.oid
    BY <1>6, <1>8 DEF TableOwned
  <2> QED BY <1>14, <2>1, <2>2 DEF Owned
<1>16. \A oid \in Owned' : IssuedOid(oid)' /\ Settled(oid)'
  <2>1. \A oid \in Owned' : IssuedOid(oid)
    BY <1>2, <1>15 DEF EntityInv
  <2> QED BY <1>1, <1>2, <2>1 DEF IssuedOid, Settled, NoCall, NoMsg
<1>17. MsgFits'
  BY <1>1 DEF MsgFits, NoCall, Creates
<1> QED BY <1>1, <1>9, <1>10, <1>11, <1>12, <1>13, <1>14, <1>16, <1>17 DEF EntityInv
-----------------------------------------------------------------------------
(* Entities: the agent serves a request. *)

\* The STATUS that joins those on their way when a request is served.
LEMMA AnswerStatuses ==
  ASSUME TypeInv, toAgent # <<>>, Head(toAgent) \in Requests, NEW ok \in BOOLEAN,
         Answer(Status(Head(toAgent).req, ok))
  PROVE  /\ Statuses' = Statuses \cup {Status(Head(toAgent).req, ok)}
         /\ Range(toAgent') \subseteq Range(toAgent)
<1> DEFINE s == Status(Head(toAgent).req, ok)
<1>1. /\ toAgent \in Seq(ClientMsg) /\ owed \in Seq(Reply)
      /\ toAgent' = Tail(toAgent) /\ owed' = Append(owed, s) /\ UNCHANGED toClient
  BY PipeTypes DEF Answer
<1>2. s \in Reply /\ s.type = "STATUS"
  <2>1. Head(toAgent) \in EntityRequest
    BY PipeTypes
  <2> QED BY <2>1 DEF Status, Reply, EntityRequest
<1> HIDE DEF s
<1>3. Range(owed') = Range(owed) \cup {s}
  BY <1>1, <1>2, RangeAppend
<1>4. Statuses' = Statuses \cup {s}
  BY <1>1, <1>2, <1>3 DEF Statuses
<1>5. Range(toAgent') \subseteq Range(toAgent)
  BY <1>1, RangeTail
<1> QED BY <1>4, <1>5 DEF s

\* A request of the call in progress is granted only once, when it is served:
\* its STATUS is not on its way yet, and no other request has its id.
LEMMA ServedRequest ==
  ASSUME TypeInv, QueuesInOrder, CallInOrder, pc = "wait", NEW m \in Requests,
         Status(call.msg.req, TRUE) \in Statuses \cup {Status(m.req, TRUE)}
  PROVE  m = call.msg
<1>1. call.op \in Creates /\ call.msg.req + 1 = reqId /\ call.msg.req \in Nat
  BY DEF TypeInv, CallFits, CallInOrder, EntityRequest, ReqId
<1>2. m.req \in Nat /\ m.req < reqId
  BY PipeTypes DEF QueuesInOrder
<1>3. CASE Status(call.msg.req, TRUE) \in Statuses
  <2>1. Status(call.msg.req, TRUE).req < m.req
    BY <1>3 DEF QueuesInOrder
  <2> QED BY <1>1, <1>2, <2>1 DEF Status
<1>4. CASE Status(call.msg.req, TRUE) = Status(m.req, TRUE)
  <2>1. m.req = call.msg.req
    BY <1>4 DEF Status
  <2> QED BY <2>1 DEF CallInOrder
<1> QED BY <1>3, <1>4

\* The agent creates, reuses or replaces the entity a CREATE names: none that
\* anybody relies on.
LEMMA EntityServeCreate ==
  ASSUME TypeInv, QueuesInOrder, CallInOrder, EntityInv, open,
         ServeCreate, UNCHANGED clientVars
  PROVE  EntityInv'
<1> DEFINE m == Head(toAgent)
<1>1. UNCHANGED <<nextIdx, table, pc, call, open, nodes, pubs, drId, bound>>
  BY DEF clientVars, sessionVars, appVars, slotVars
<1>2. /\ toAgent \in Seq(ClientMsg) /\ toAgent # <<>> /\ m.type = "CREATE"
      /\ Answer(Status(m.req, TRUE))
  BY PipeTypes DEF ServeCreate, Serving
<1>3. m \in Range(toAgent) /\ m \in Requests /\ m \in EntityRequest
  <2>1. m \in Range(toAgent)
    BY <1>2, RangeTail
  <2> QED BY <1>2, <2>1, PipeTypes DEF Requests
<1>4. /\ Statuses' = Statuses \cup {Status(m.req, TRUE)}
      /\ Range(toAgent') \subseteq Range(toAgent)
  BY <1>2, <1>3, AnswerStatuses
<1>5. /\ \A oid \in Owned : oid # m.oid
      /\ m.oid \in Oid /\ objs \in [Oid -> Topic \cup {NoTopic, Absent}]
  BY <1>2, <1>3 DEF EntityInv, Settled, EntityRequest, TypeInv, TypeOK, AgentTypeOK
<1>6. /\ \A oid \in Owned : objs'[oid] = objs[oid] /\ (oid \in reading => oid \in reading')
      /\ objs'[m.oid] = m.topic
  <2>1. Owned \subseteq Oid
    BY OwnedOids DEF EntityInv
  <2>2. CASE objs[m.oid] = m.topic
    BY <2>2 DEF ServeCreate, entityVars
  <2>3. CASE objs[m.oid] # m.topic
    <3>1. /\ objs' = [objs EXCEPT ![m.oid] = m.topic]
          /\ reading' = reading \ {m.oid}
      BY <2>3 DEF ServeCreate
    <3> QED BY <1>5, <2>1, <3>1
  <2> QED BY <2>2, <2>3
<1> HIDE DEF m
<1>7. /\ \A node \in nodes : \A oid \in NodeOidsOf(node) : objs'[oid] = objs[oid]
      /\ \A pub \in pubs : objs'[pub.oid] = objs[pub.oid]
      /\ \A s \in Range(table) : /\ objs'[drId[s]] = objs[drId[s]]
                                 /\ drId[s] \in reading => drId[s] \in reading'
      /\ \A oid \in Made : objs'[oid] = objs[oid]
  BY <1>6, OwnedBy
<1>8. open' /\ RoutesDistinct' /\ OidsFit' /\ WritesPending'
  <2>1. open'
    BY <1>1
  <2>2. RoutesDistinct' /\ OidsFit' /\ WritesPending'
    BY <1>1, <1>4 DEF EntityInv, RoutesDistinct, OidsFit, WritesPending
  <2> QED BY <2>1, <2>2
<1>9. HandlesBacked'
  <2>1. NodesBacked'
    <3>1. \A node \in nodes : \A oid \in NodeOidsOf(node) : objs[oid] # Absent
      BY DEF EntityInv, HandlesBacked, NodesBacked, NodeOidsOf
    <3>2. \A node \in nodes : \A oid \in NodeOidsOf(node) : objs'[oid] # Absent
      BY <1>7, <3>1
    <3> QED BY <1>1, <3>2 DEF NodesBacked, NodeOidsOf, ParticipantOf, PublisherOf, SubscriberOf
  <2>2. PublishersBacked'
    BY <1>1, <1>7 DEF EntityInv, HandlesBacked, PublishersBacked
  <2>3. SubscriptionsBacked'
    BY <1>1, <1>7 DEF EntityInv, HandlesBacked, SubscriptionsBacked
  <2> QED BY <2>1, <2>2, <2>3 DEF HandlesBacked
<1>10. (\A node \in nodes : NodeIndexed(node))'
  BY <1>1 DEF EntityInv, NodeIndexed
<1>11. Made' = Made
  BY <1>1 DEF Made, ParticipantOf, PublisherOf
<1>12. Owned' = Owned
  BY <1>1, <1>11 DEF Owned, NodesOwned, PubsOwned, TableOwned, NodeOidsOf, ParticipantOf,
                     PublisherOf, SubscriberOf
<1>13. \A oid \in Owned' : IssuedOid(oid)' /\ Settled(oid)'
  BY <1>1, <1>4, <1>12 DEF EntityInv, IssuedOid, Settled
<1>14. \A oid \in Made' : objs'[oid] # Absent
  BY <1>7, <1>11 DEF EntityInv
<1>15. MsgFits'
  <2>1. call.op = "subscription" /\ call.step = 3 => objs'[call.msg.oid] = objs[call.msg.oid]
    BY <1>7 DEF Made
  <2> QED BY <1>1, <2>1 DEF EntityInv, MsgFits, NodeIndexed, IssuedOid, ParticipantOf,
                            PublisherOf, SubscriberOf
<1>16. (pc = "wait" /\ Status(call.msg.req, TRUE) \in Statuses => Served)'
  <2>1. ASSUME pc = "wait", Status(call.msg.req, TRUE) \in Statuses'
        PROVE  Served'
    <3>1. call.msg = m
      BY <1>3, <1>4, <2>1, ServedRequest
    <3> QED BY <1>1, <1>2, <1>6, <3>1 DEF Served, m
  <2> QED BY <1>1, <2>1
<1> QED BY <1>8, <1>9, <1>10, <1>13, <1>14, <1>15, <1>16 DEF EntityInv

\* The agent starts a reader.
LEMMA EntityServeReadData ==
  ASSUME TypeInv, QueuesInOrder, CallInOrder, EntityInv, open,
         ServeReadData, UNCHANGED clientVars
  PROVE  EntityInv'
<1> DEFINE m == Head(toAgent)
<1>1. UNCHANGED <<nextIdx, table, pc, call, open, nodes, pubs, drId, bound, objs>>
  BY DEF clientVars, sessionVars, appVars, slotVars, ServeReadData
<1>2. /\ toAgent \in Seq(ClientMsg) /\ toAgent # <<>> /\ m.type = "READ_DATA"
      /\ Answer(Status(m.req, TRUE)) /\ reading' = reading \cup {m.oid}
  BY PipeTypes DEF ServeReadData, Serving
<1>3. m \in Requests
  <2>1. m \in Range(toAgent)
    BY <1>2, RangeTail
  <2> QED BY <1>2, <2>1 DEF Requests
<1>4. /\ Statuses' = Statuses \cup {Status(m.req, TRUE)}
      /\ Range(toAgent') \subseteq Range(toAgent)
  BY <1>2, <1>3, AnswerStatuses
<1> HIDE DEF m
<1>5. open' /\ RoutesDistinct' /\ OidsFit' /\ WritesPending'
  <2>1. open'
    BY <1>1
  <2>2. RoutesDistinct' /\ OidsFit' /\ WritesPending'
    BY <1>1, <1>4 DEF EntityInv, RoutesDistinct, OidsFit, WritesPending
  <2> QED BY <2>1, <2>2
<1>6. HandlesBacked'
  BY <1>1, <1>2 DEF EntityInv, HandlesBacked, NodesBacked, PublishersBacked,
                    SubscriptionsBacked, ParticipantOf, PublisherOf, SubscriberOf
<1>7. (\A node \in nodes : NodeIndexed(node))'
  BY <1>1 DEF EntityInv, NodeIndexed
<1>8. Made' = Made
  BY <1>1 DEF Made, ParticipantOf, PublisherOf
<1>9. Owned' = Owned
  BY <1>1, <1>8 DEF Owned, NodesOwned, PubsOwned, TableOwned, NodeOidsOf, ParticipantOf,
                    PublisherOf, SubscriberOf
<1>10. \A oid \in Owned' : IssuedOid(oid)' /\ Settled(oid)'
  BY <1>1, <1>4, <1>9 DEF EntityInv, IssuedOid, Settled
<1>11. \A oid \in Made' : objs'[oid] # Absent
  BY <1>1, <1>8 DEF EntityInv
<1>12. MsgFits'
  BY <1>1 DEF EntityInv, MsgFits, NodeIndexed, IssuedOid, ParticipantOf,
              PublisherOf, SubscriberOf
<1>13. (pc = "wait" /\ Status(call.msg.req, TRUE) \in Statuses => Served)'
  <2>1. ASSUME pc = "wait", Status(call.msg.req, TRUE) \in Statuses'
        PROVE  Served'
    <3>1. call.msg = m
      BY <1>3, <1>4, <2>1, ServedRequest
    <3> QED BY <1>1, <1>2, <3>1 DEF Served
  <2> QED BY <1>1, <2>1
<1> QED BY <1>5, <1>6, <1>7, <1>10, <1>11, <1>12, <1>13 DEF EntityInv

\* The other steps of the agent.
LEMMA EntityAgent ==
  ASSUME TypeInv, QueuesInOrder, CallInOrder, EntityInv, open,
         AgentServes \/ AgentReplies \/ AgentSends
  PROVE  EntityInv'
<1>1. UNCHANGED <<nodes, pubs, table, drId, bound, nextIdx, open, call, pc>>
  <2>1. UNCHANGED clientVars
    BY DEF AgentServes, AgentReplies, AgentSends
  <2> QED BY <2>1 DEF clientVars, sessionVars, appVars, slotVars
<1>2. CallKept
  BY <1>1 DEF CallKept
<1>3. ASSUME UNCHANGED <<objs, reading>>, Range(toAgent') \subseteq Range(toAgent),
             \A s \in Statuses' : s.ok => s \in Statuses
      PROVE  EntityInv'
  <2>1. Keeps
    BY <1>1, <1>3 DEF Keeps
  <2>2. JoinsCall
    BY <1>3 DEF JoinsCall
  <2> QED BY <1>2, <1>3, <2>1, <2>2, EntityQuiet
<1>4. toAgent \in Seq(ClientMsg) /\ owed \in Seq(Reply) /\ toClient \in Seq(AgentMsg)
  BY PipeTypes
<1>5. CASE AgentServes
  <2>1. Serve /\ UNCHANGED clientVars
    BY <1>5 DEF AgentServes
  <2>2. toAgent # <<>>
    BY <2>1 DEF Serve, ServeClient, ServeCreate, ServeReadData, ServeWriteData, Refuse, Serving
  <2>3. Head(toAgent) \in Range(toAgent) /\ Head(toAgent).type # "CREATE_CLIENT"
    <3>1. Head(toAgent) \in Range(toAgent) /\ Head(toAgent) \in ClientMsg
      BY <1>4, <2>2, RangeTail, TakeFirst
    <3> QED BY <3>1 DEF QueuesInOrder, ClientMsg, EntityRequest
  <2>4. CASE ServeCreate
    BY <2>1, <2>4, EntityServeCreate
  <2>5. CASE ServeReadData
    BY <2>1, <2>5, EntityServeReadData
  <2>6. CASE ServeWriteData
    <3>1. UNCHANGED <<objs, reading>> /\ toAgent' = Tail(toAgent) /\ UNCHANGED <<owed, toClient>>
      BY <2>6 DEF ServeWriteData, entityVars
    <3>2. Range(toAgent') \subseteq Range(toAgent)
      BY <1>4, <2>2, <3>1, RangeTail
    <3>3. Statuses' = Statuses
      BY <3>1 DEF Statuses
    <3> QED BY <1>3, <3>1, <3>2, <3>3
  <2>7. CASE Refuse
    <3>1. /\ Head(toAgent) \in Requests /\ Answer(Status(Head(toAgent).req, FALSE))
          /\ UNCHANGED <<objs, reading>>
      BY <2>3, <2>7 DEF Refuse, Serving, Requests, entityVars
    <3>2. /\ Statuses' = Statuses \cup {Status(Head(toAgent).req, FALSE)}
          /\ Range(toAgent') \subseteq Range(toAgent)
      BY <2>2, <3>1, AnswerStatuses
    <3>3. ~Status(Head(toAgent).req, FALSE).ok
      BY DEF Status
    <3>4. \A s \in Statuses' : s.ok => s \in Statuses
      BY <3>2, <3>3
    <3> QED BY <1>3, <3>1, <3>2, <3>4
  <2> QED BY <2>1, <2>3, <2>4, <2>5, <2>6, <2>7 DEF Serve, ServeClient, Serving
<1>6. CASE AgentReplies
  <2>1. /\ owed # <<>> /\ toClient' = Append(toClient, Head(owed)) /\ owed' = Tail(owed)
        /\ UNCHANGED <<objs, reading, toAgent>>
    BY <1>6 DEF AgentReplies, SendReply, entityVars
  <2>2. Head(owed) \in Range(owed) /\ Range(owed') \subseteq Range(owed)
    BY <1>4, <2>1, RangeTail
  <2>3. Head(owed) \in AgentMsg
    BY <1>4, <2>1, TakeFirst DEF AgentMsg
  <2>4. Range(toClient') = Range(toClient) \cup {Head(owed)}
    BY <1>4, <2>1, <2>3, RangeAppend
  <2>5. Statuses' \subseteq Statuses
    BY <2>2, <2>4 DEF Statuses
  <2>6. Range(toAgent') \subseteq Range(toAgent)
    BY <2>1
  <2> QED BY <1>3, <2>1, <2>5, <2>6
<1>7. CASE AgentSends
  <2>1. UNCHANGED <<objs, reading, toAgent, owed>>
    BY <1>7 DEF AgentSends, SendNoise, Stream, entityVars
  <2>2. PICK m \in AgentMsg : /\ m.type \notin {"STATUS", "STATUS_AGENT"}
                              /\ toClient' = Append(toClient, m)
    BY <1>7, SendsTyped
  <2>3. Range(toClient') = Range(toClient) \cup {m}
    BY <1>4, <2>2, RangeAppend
  <2>4. Statuses' = Statuses
    BY <2>1, <2>2, <2>3 DEF Statuses
  <2>5. Range(toAgent') \subseteq Range(toAgent)
    BY <2>1
  <2> QED BY <1>3, <2>1, <2>4, <2>5
<1> QED BY <1>5, <1>6, <1>7
-----------------------------------------------------------------------------
(* Entities: every step. *)

\* While no session is open nothing is promised but the slots' distinctness.
LEMMA EntityClosed ==
  ASSUME EntityInv, ~open', UNCHANGED <<table, drId>>
  PROVE  EntityInv'
<1>1. RoutesDistinct'
  BY DEF EntityInv, RoutesDistinct
<1> QED BY <1>1 DEF EntityInv, HandlesBacked

\* A new session has no handles and an empty table.
LEMMA EntityOpens ==
  ASSUME TypeInv, Connecting, HandshakeOk
  PROVE  EntityInv'
<1>1. /\ toClient \in Seq(AgentMsg) /\ toClient # <<>> /\ UNCHANGED <<toAgent, nodes, pubs>>
      /\ Head(toClient) = StatusAgent(TRUE)
      /\ table' = <<>> /\ call' = NoCall /\ pc' = "idle"
  BY PipeTypes DEF HandshakeOk, Read, Frame, Return
<1>2. Handshaken
  <2>1. Head(toClient) \in Range(toClient)
    BY <1>1, RangeTail
  <2> QED BY <1>1, <2>1 DEF Handshaken, StatusAgent
<1>3. toAgent' = <<>> /\ nodes' = {} /\ pubs' = {}
  BY <1>1, <1>2 DEF Connecting
<1>4. Range(toAgent') = {} /\ Range(table') = {}
  BY <1>1, <1>3 DEF Range
<1>5. RoutesDistinct' /\ OidsFit' /\ WritesPending'
  BY <1>3, <1>4 DEF RoutesDistinct, OidsFit, WritesPending
<1>6. HandlesBacked'
  BY <1>3, <1>4 DEF HandlesBacked, NodesBacked, PublishersBacked, SubscriptionsBacked
<1>7. Made' = {}
  BY <1>1 DEF Made, NoCall
<1>8. Owned' = {}
  BY <1>3, <1>4, <1>7 DEF Owned, NodesOwned, PubsOwned, TableOwned
<1>9. MsgFits'
  BY <1>1 DEF MsgFits, NoCall, Creates
<1> QED BY <1>1, <1>3, <1>5, <1>6, <1>7, <1>8, <1>9 DEF EntityInv

\* EntityInv holds after every step.
LEMMA EntityStep ==
  ASSUME OrderInv, OneLife, EntityInv, [Next]_vars
  PROVE  EntityInv'
<1>1. TypeInv /\ CountersInv /\ PipeInv
  BY DEF OrderInv
<1>2. CASE ~open
  <2>1. Connecting
    BY <1>1, <1>2 DEF PipeInv
  <2>2. CASE HandshakeOk
    BY <1>1, <2>1, <2>2, EntityOpens
  <2>3. CASE ~HandshakeOk
    <3>1. ~open'
      BY <1>1, <1>2, <2>1, <2>3, PipeConnecting DEF OneLife
    <3>2. pc \notin {"wait", "spin"}
      BY <1>1, <2>1 DEF Connecting, TypeInv, CallFits, Creates
    <3>3. UNCHANGED <<table, drId>>
      <4>1. CASE Start
        <5>1. Connect
          BY <1>2, <4>1 DEF Start, CreateNode, CreatePublisher, CreateSubscription,
                            RefuseSubscription, RefuseName, Publish, Spin, Callable
        <5> QED BY <5>1 DEF Connect, sessionVars, slotVars
      <4>2. CASE AgentServes \/ AgentReplies \/ AgentSends
        BY <4>2 DEF AgentServes, AgentReplies, AgentSends, clientVars, sessionVars, slotVars
      <4>3. CASE WriteFrame \/ TransportFails \/ HandshakeFails \/ Interrupted \/ LinkFails
        BY <4>3 DEF WriteFrame, TransportFails, GiveUp, HandshakeFails, Interrupted, DropCall,
                    TransportErrs, EncodeFails, LinkFails, sessionVars, slotVars
      <4>4. CASE Receive \/ UNCHANGED vars
        BY <4>4 DEF Receive, Recv, vars, sessionVars, slotVars
      <4> QED BY <2>3, <3>2, <4>1, <4>2, <4>3, <4>4
           DEF Next, Progress, WaitData, WaitSkips, WaitTooShort, WaitMismatch, WaitRejected,
               NodeGoesOn, NodeReady, PublisherGoesOn, PublisherReady, SubscriptionGoesOn,
               SubscriptionReads, SubscriptionReady, SpinFrame, Granted, Read
    <3> QED BY <3>1, <3>3, EntityClosed
  <2> QED BY <2>2, <2>3
<1>3. CASE open
  <2>1. QueuesInOrder /\ CallInOrder
    BY <1>1, <1>3 DEF PipeInv
  <2>2. pc # "handshake"
    BY <1>1, <2>1 DEF CallInOrder, TypeInv, CallFits
  <2>3. CASE Connect
    <3>1. ~open' /\ UNCHANGED <<table, drId>>
      BY <2>3 DEF Connect, sessionVars, slotVars
    <3> QED BY <3>1, EntityClosed
  <2>4. CASE CreateNode
    BY <1>1, <1>3, <2>4, EntityCreateNode
  <2>5. ASSUME NEW node \in nodes, NEW topic \in Topic,
               \/ CreatePublisher(node, topic)
               \/ \E slot \in Slot : CreateSubscription(node, topic, slot)
        PROVE  EntityInv'
    <3>1. PICK op \in {"publisher", "subscription"}, slot \in Slot \cup {NoSlot} :
            CreateTopic(op, node, topic, slot)
      BY <2>5 DEF CreatePublisher, CreateSubscription
    <3> QED BY <1>1, <1>3, <3>1, EntityCreateTopic
  <2>6. ASSUME NEW pub \in pubs, Publish(pub)
        PROVE  EntityInv'
    BY <1>1, <1>3, <2>6, EntityPublish
  <2>7. CASE \/ RefuseSubscription \/ RefuseName \/ \E op \in {"spin_once", "spin"} : Spin(op)
             \/ TransportFails \/ Interrupted \/ LinkFails \/ Receive \/ UNCHANGED vars
             \/ WaitData \/ WaitSkips \/ WaitTooShort \/ WaitMismatch \/ WaitRejected
             \/ SpinFrame
    BY <1>1, <1>3, <2>1, <2>7, EntityIdleSteps
  <2>8. CASE WriteFrame
    BY <1>1, <1>3, <2>1, <2>8, EntityWrite
  <2>9. CASE NodeGoesOn
    BY <1>1, <1>3, <2>1, <2>9, EntityNodeGoesOn
  <2>10. CASE PublisherGoesOn \/ SubscriptionGoesOn
    BY <1>1, <1>3, <2>1, <2>10, EntityEndpointGoesOn
  <2>11. CASE SubscriptionReads
    BY <1>1, <1>3, <2>1, <2>11, EntitySubscriptionReads
  <2>12. CASE NodeReady
    BY <1>1, <1>3, <2>1, <2>12, EntityNodeReady
  <2>13. CASE PublisherReady
    BY <1>1, <1>3, <2>1, <2>13, EntityPublisherReady
  <2>14. CASE SubscriptionReady
    BY <1>1, <1>3, <2>1, <2>14, EntitySubscriptionReady
  <2>15. CASE AgentServes \/ AgentReplies \/ AgentSends
    BY <1>1, <1>3, <2>1, <2>15, EntityAgent
  <2>16. ~HandshakeOk /\ ~HandshakeFails
    BY <2>2 DEF HandshakeOk, HandshakeFails, Read
  <2> QED BY <2>3, <2>4, <2>5, <2>6, <2>7, <2>8, <2>9, <2>10, <2>11, <2>12, <2>13, <2>14,
             <2>15, <2>16 DEF Next, Start, Progress
<1> QED BY <1>2, <1>3

LEMMA InitEntity ==
  ASSUME Init
  PROVE  EntityInv
<1>1. table = <<>> /\ ~open
  BY DEF Init
<1>2. Range(table) = {}
  BY <1>1 DEF Range
<1> QED BY <1>1, <1>2 DEF EntityInv, RoutesDistinct, HandlesBacked

LEMMA EntityInvariant ==
  ASSUME OneLife
  PROVE  Spec => [](OrderInv /\ EntityInv)
<1>1. Init => EntityInv
  BY InitEntity
<1>2. OrderInv /\ EntityInv /\ [Next]_vars => EntityInv'
  BY EntityStep
<1> QED BY <1>1, <1>2, OrderInvariant, PTL DEF Spec

-----------------------------------------------------------------------------
(* What the application is promised. *)

\* HandlesBacked, for every session within OneLife: whatever calls are dropped
\* or refused midway, and whatever STATUS replies they leave behind, what the
\* create methods have returned Ok for exists on the agent and streams.
THEOREM HandlesAreBacked ==
  ASSUME OneLife
  PROVE  Spec => []HandlesBacked
<1>1. EntityInv => HandlesBacked
  BY DEF EntityInv
<1> QED BY <1>1, EntityInvariant, PTL

\* RoutesDistinct, for every session within OneLife: the first slot of the
\* table that dispatch_data_payload finds for a reader is the only one.
THEOREM RoutesAreDistinct ==
  ASSUME OneLife
  PROVE  Spec => []RoutesDistinct
<1>1. EntityInv => RoutesDistinct
  BY DEF EntityInv
<1> QED BY <1>1, EntityInvariant, PTL

\* WritesOnTopic, for every session within OneLife: a sample written with
\* publish is served by the writer of its Publisher's topic.
THEOREM WritesReachTheirTopic ==
  ASSUME OneLife
  PROVE  Spec => []WritesOnTopic
<1>1. OrderInv /\ EntityInv => WritesOnTopic
  <2> SUFFICES ASSUME OrderInv, EntityInv, toAgent # <<>>, Head(toAgent).type = "WRITE_DATA"
               PROVE  objs[Head(toAgent).oid] = Head(toAgent).topic
    BY DEF WritesOnTopic
  <2>1. toAgent \in Seq(ClientMsg)
    BY PipeTypes DEF OrderInv
  <2>2. Head(toAgent) \in Range(toAgent)
    BY <2>1, RangeTail
  <2>3. open
    BY DEF OrderInv, PipeInv, Connecting, CreateClient
  <2>4. [oid |-> Head(toAgent).oid, topic |-> Head(toAgent).topic] \in pubs
    BY <2>2, <2>3 DEF EntityInv, WritesPending
  <2> QED BY <2>3, <2>4 DEF EntityInv, HandlesBacked, PublishersBacked
<1> QED BY <1>1, EntityInvariant, PTL

-----------------------------------------------------------------------------
(* The stream of one reader. *)

\* Frames are taken off the connection at its head.
LEMMA StreamTail ==
  ASSUME NEW S, toClient \in Seq(S), toClient # <<>>, toClient' = Tail(toClient),
         NEW oid, objs'[oid] = objs[oid], sent'[oid] = sent[oid], NEW k \in Nat,
         InStream(oid, k + 1) \/ (k = 0 /\ InStream(oid, k))
  PROVE  InStream(oid, k)'
<1>1. /\ DOMAIN toClient = 1 .. Len(toClient) /\ DOMAIN toClient' = 1 .. Len(toClient')
      /\ Len(toClient') = Len(toClient) - 1 /\ Len(toClient) \in Nat
      /\ \A i \in 1 .. Len(toClient') : toClient'[i] = toClient[i + 1]
  BY HeadTailProperties, LenProperties
<1>2. ASSUME NEW i \in DOMAIN toClient', SampleAt(i, oid)'
      PROVE  i + 1 \in DOMAIN toClient /\ SampleAt(i + 1, oid)
  BY <1>1, <1>2 DEF SampleAt
<1>3. ASSUME NEW i \in DOMAIN toClient', i > k, SampleAt(i, oid)'
      PROVE  /\ toClient'[i].topic = objs'[oid]
             /\ toClient'[i].n \in 1 .. sent'[oid]
             /\ \A j \in DOMAIN toClient' :
                  j > i /\ SampleAt(j, oid)' => toClient'[i].n < toClient'[j].n
  <2>1. /\ toClient[i + 1].topic = objs[oid]
        /\ toClient[i + 1].n \in 1 .. sent[oid]
        /\ \A j \in DOMAIN toClient :
             j > i + 1 /\ SampleAt(j, oid) => toClient[i + 1].n < toClient[j].n
    BY <1>1, <1>2, <1>3 DEF InStream
  <2>2. ASSUME NEW j \in DOMAIN toClient', j > i, SampleAt(j, oid)'
        PROVE  toClient'[i].n < toClient'[j].n
    BY <1>1, <1>2, <2>1, <2>2
  <2> QED BY <1>1, <2>1, <2>2
<1> QED BY <1>3 DEF InStream

\* A frame joins the connection that is no sample of the reader, or the next.
LEMMA StreamAppend ==
  ASSUME toClient \in Seq(AgentMsg), NEW m \in AgentMsg, toClient' = Append(toClient, m),
         NEW oid, objs'[oid] = objs[oid], sent[oid] \in Nat,
         \/ ~(m.type = "DATA" /\ m.oid = oid) /\ sent'[oid] = sent[oid]
         \/ m.topic = objs[oid] /\ m.n = sent[oid] + 1 /\ sent'[oid] = sent[oid] + 1,
         NEW k, InStream(oid, k)
  PROVE  InStream(oid, k)'
<1>1. /\ DOMAIN toClient = 1 .. Len(toClient) /\ DOMAIN toClient' = 1 .. Len(toClient) + 1
      /\ Len(toClient) \in Nat
      /\ \A i \in 1 .. Len(toClient) : toClient'[i] = toClient[i]
      /\ toClient'[Len(toClient) + 1] = m
  BY AppendProperties, LenProperties
<1>2. ASSUME NEW i \in DOMAIN toClient', i > k, SampleAt(i, oid)'
      PROVE  /\ toClient'[i].topic = objs'[oid]
             /\ toClient'[i].n \in 1 .. sent'[oid]
             /\ \A j \in DOMAIN toClient' :
                  j > i /\ SampleAt(j, oid)' => toClient'[i].n < toClient'[j].n
  <2>1. CASE i = Len(toClient) + 1
    BY <1>1, <1>2, <2>1 DEF SampleAt
  <2>2. CASE i \in DOMAIN toClient
    <3>1. /\ toClient[i].topic = objs[oid]
          /\ toClient[i].n \in 1 .. sent[oid]
          /\ \A j \in DOMAIN toClient :
               j > i /\ SampleAt(j, oid) => toClient[i].n < toClient[j].n
      BY <1>1, <1>2, <2>2 DEF InStream, SampleAt
    <3>2. ASSUME NEW j \in DOMAIN toClient', j > i, SampleAt(j, oid)'
          PROVE  toClient'[i].n < toClient'[j].n
      <4>1. CASE j \in DOMAIN toClient
        BY <1>1, <2>2, <3>1, <3>2, <4>1 DEF SampleAt
      <4>2. CASE j = Len(toClient) + 1
        BY <1>1, <2>2, <3>1, <3>2, <4>2 DEF SampleAt
      <4> QED BY <1>1, <4>1, <4>2
    <3> QED BY <1>1, <2>2, <3>1, <3>2
  <2> QED BY <1>1, <2>1, <2>2
<1> QED BY <1>2 DEF InStream

\* Behind the last frame there is no sample.
LEMMA StreamEnd ==
  ASSUME NEW S, toClient' \in Seq(S), NEW oid, NEW k \in Nat, k >= Len(toClient')
  PROVE  InStream(oid, k)'
BY LenProperties DEF InStream

\* Nothing happens to the reader, or to the connection.
LEMMA StreamSame ==
  ASSUME UNCHANGED toClient, NEW oid, objs'[oid] = objs[oid], sent'[oid] = sent[oid],
         NEW k, InStream(oid, k)
  PROVE  InStream(oid, k)'
BY DEF InStream, SampleAt

-----------------------------------------------------------------------------
(* The streams of the slots. *)

\* A frame is read, of which a slot is given nothing, or a sample of its reader.
LEMMA SlotTail ==
  ASSUME TypeInv, toClient # <<>>, toClient' = Tail(toClient), UNCHANGED <<objs, sent>>,
         NEW s \in Slot, SlotInStream(s), drId'[s] = drId[s],
         \/ last'[s] = last[s]
         \/ SampleAt(1, drId[s]) /\ last'[s] = Head(toClient).n
  PROVE  SlotInStream(s)'
<1>1. toClient \in Seq(AgentMsg)
  BY PipeTypes
<1>2. /\ DOMAIN toClient = 1 .. Len(toClient) /\ DOMAIN toClient' = 1 .. Len(toClient')
      /\ Len(toClient') = Len(toClient) - 1 /\ Len(toClient) \in Nat /\ Len(toClient) > 0
      /\ \A i \in 1 .. Len(toClient') : toClient'[i] = toClient[i + 1]
      /\ Head(toClient) = toClient[1]
  BY <1>1, HeadTailProperties, LenProperties, EmptySeq
<1>3. ASSUME NEW oid, oid = drId[s]
      PROVE  InStream(oid, 0)'
  <2>1. InStream(oid, 0)
    BY <1>3 DEF SlotInStream
  <2> QED BY <1>1, <2>1, StreamTail
<1>4. InStream(drId[s], 0)'
  BY <1>3 DEF InStream, SampleAt
<1>5. /\ last'[s] <= sent[drId[s]]
      /\ \A i \in DOMAIN toClient' : SampleAt(i, drId[s])' => last'[s] < toClient'[i].n
  <2>1. ASSUME NEW i \in DOMAIN toClient', SampleAt(i, drId[s])'
        PROVE  i + 1 \in DOMAIN toClient /\ SampleAt(i + 1, drId[s])
    BY <1>2, <2>1 DEF SampleAt
  <2>2. CASE last'[s] = last[s]
    BY <1>2, <2>1, <2>2 DEF SlotInStream
  <2>3. CASE SampleAt(1, drId[s]) /\ last'[s] = Head(toClient).n
    <3>1. /\ toClient[1].n \in 1 .. sent[drId[s]]
          /\ \A j \in DOMAIN toClient :
               j > 1 /\ SampleAt(j, drId[s]) => toClient[1].n < toClient[j].n
      BY <1>2, <2>3 DEF SlotInStream, InStream
    <3>2. sent[drId[s]] \in Nat \/ toClient[1].n <= sent[drId[s]]
      BY <3>1
    <3> QED BY <1>2, <2>1, <2>3, <3>1, <3>2
  <2> QED BY <2>2, <2>3
<1> QED BY <1>4, <1>5 DEF SlotInStream

\* The agent sends something, or serves a request that is not for the reader.
LEMMA SlotSent ==
  ASSUME TypeInv, NEW s \in Slot, SlotInStream(s), drId[s] \in Oid,
         drId'[s] = drId[s], last'[s] = last[s], objs'[drId[s]] = objs[drId[s]],
         \/ UNCHANGED toClient /\ sent'[drId[s]] = sent[drId[s]]
         \/ \E m \in AgentMsg :
              /\ toClient' = Append(toClient, m)
              /\ \/ ~(m.type = "DATA" /\ m.oid = drId[s]) /\ sent'[drId[s]] = sent[drId[s]]
                 \/ /\ m.topic = objs[drId[s]] /\ m.n = sent[drId[s]] + 1
                    /\ sent'[drId[s]] = sent[drId[s]] + 1
  PROVE  SlotInStream(s)'
<1>1. toClient \in Seq(AgentMsg) /\ sent[drId[s]] \in Nat /\ last[s] \in Nat
  BY PipeTypes DEF TypeInv, TypeOK, AgentTypeOK, SubscriptionTypeOK
<1>2. CASE UNCHANGED toClient /\ sent'[drId[s]] = sent[drId[s]]
  BY <1>2 DEF SlotInStream, InStream, SampleAt
<1>3. ASSUME NEW m \in AgentMsg, toClient' = Append(toClient, m),
             \/ ~(m.type = "DATA" /\ m.oid = drId[s]) /\ sent'[drId[s]] = sent[drId[s]]
             \/ /\ m.topic = objs[drId[s]] /\ m.n = sent[drId[s]] + 1
                /\ sent'[drId[s]] = sent[drId[s]] + 1
      PROVE  SlotInStream(s)'
  <2>1. ASSUME NEW oid, oid = drId[s]
        PROVE  InStream(oid, 0)'
    <3>1. InStream(oid, 0)
      BY <2>1 DEF SlotInStream
    <3> QED BY <1>1, <1>3, <2>1, <3>1, StreamAppend
  <2>2. InStream(drId[s], 0)'
    BY <2>1 DEF InStream, SampleAt
  <2>3. /\ DOMAIN toClient = 1 .. Len(toClient) /\ DOMAIN toClient' = 1 .. Len(toClient) + 1
        /\ Len(toClient) \in Nat
        /\ \A i \in 1 .. Len(toClient) : toClient'[i] = toClient[i]
        /\ toClient'[Len(toClient) + 1] = m
    BY <1>1, <1>3, AppendProperties, LenProperties
  <2>4. ASSUME NEW i \in DOMAIN toClient', SampleAt(i, drId[s])'
        PROVE  last[s] < toClient'[i].n
    <3>1. CASE i \in DOMAIN toClient
      BY <2>3, <2>4, <3>1 DEF SlotInStream, SampleAt
    <3>2. CASE i = Len(toClient) + 1
      <4>1. m.n = sent[drId[s]] + 1
        BY <1>3, <2>3, <2>4, <3>2 DEF SampleAt
      <4> QED BY <1>1, <2>3, <3>2, <4>1 DEF SlotInStream
    <3> QED BY <2>3, <3>1, <3>2
  <2>5. last[s] <= sent'[drId[s]]
    BY <1>1, <1>3 DEF SlotInStream
  <2> QED BY <2>2, <2>4, <2>5 DEF SlotInStream
<1> QED BY <1>2, <1>3

-----------------------------------------------------------------------------
(* The stream of the reader a call is starting. *)

\* There is no such call, or its reader is not served yet.
LEMMA CallEarly ==
  ASSUME \/ call'.op # "subscription"
         \/ call'.step \notin {2, 3}
         \/ call'.step = 2 /\ pc' # "wait"
  PROVE  CallInStream'
BY DEF CallInStream, Status

\* The call goes on as it was: nothing happens to the connection, or a frame is
\* read.
LEMMA CallRead ==
  ASSUME TypeInv, CallInStream, UNCHANGED <<objs, sent, call>>,
         UNCHANGED toClient \/ (toClient # <<>> /\ toClient' = Tail(toClient)),
         pc' = "wait" => pc = "wait" \/ Status(call.msg.req, TRUE) \notin Range(toClient')
  PROVE  CallInStream'
<1>1. toClient \in Seq(AgentMsg)
  BY PipeTypes
<1>2. CASE UNCHANGED toClient
  BY <1>2 DEF CallInStream, InStream, SampleAt, Range, Status
<1>3. CASE toClient # <<>> /\ toClient' = Tail(toClient)
  <2>1. /\ DOMAIN toClient = 1 .. Len(toClient) /\ DOMAIN toClient' = 1 .. Len(toClient')
        /\ Len(toClient') = Len(toClient) - 1 /\ Len(toClient) \in Nat
        /\ \A i \in 1 .. Len(toClient') : toClient'[i] = toClient[i + 1]
    BY <1>1, <1>3, HeadTailProperties, LenProperties
  <2>2. ASSUME NEW oid, oid = call.msg.oid, call.op = "subscription", call.step = 3
        PROVE  InStream(oid, 0)'
    <3>1. InStream(oid, 0)
      BY <2>2 DEF CallInStream
    <3> QED BY <1>1, <1>3, <3>1, StreamTail
  <2>3. ASSUME NEW oid, oid = call.msg.oid, call.op = "subscription", call.step = 2,
               pc' = "wait", NEW k \in DOMAIN toClient', toClient'[k] = Status(call.msg.req, TRUE)
        PROVE  InStream(oid, k)'
    <3>1. pc = "wait"
      <4>1. Status(call.msg.req, TRUE) \in Range(toClient')
        BY <2>3 DEF Range
      <4> QED BY <2>3, <4>1
    <3>2. k + 1 \in DOMAIN toClient /\ toClient[k + 1] = Status(call.msg.req, TRUE) /\ k \in Nat
      <4>1. k \in 1 .. Len(toClient') /\ k \in Nat /\ k + 1 \in 1 .. Len(toClient)
        BY <2>1
      <4> QED BY <2>1, <2>3, <4>1
    <3>3. InStream(oid, k + 1)
      BY <2>3, <3>1, <3>2 DEF CallInStream
    <3> QED BY <1>1, <1>3, <3>2, <3>3, StreamTail
  <2>4. call.op = "subscription" /\ call.step = 3 => InStream(call.msg.oid, 0)'
    BY <2>2 DEF InStream, SampleAt
  <2>5. ASSUME call.op = "subscription", call.step = 2, pc' = "wait"
        PROVE  \A k \in DOMAIN toClient' :
                 toClient'[k] = Status(call.msg.req, TRUE) => InStream(call.msg.oid, k)'
    BY <2>3, <2>5 DEF InStream, SampleAt
  <2> QED BY <2>4, <2>5 DEF CallInStream, InStream, SampleAt, Status
<1> QED BY <1>2, <1>3

\* The agent sends something: a reply, a sample of this reader or of another.
LEMMA CallSent ==
  ASSUME TypeInv, CallInStream, UNCHANGED <<objs, call, pc>>,
         NEW m \in AgentMsg, toClient' = Append(toClient, m),
         \A oid \in Oid :
           \/ ~(m.type = "DATA" /\ m.oid = oid) /\ sent'[oid] = sent[oid]
           \/ m.topic = objs[oid] /\ m.n = sent[oid] + 1 /\ sent'[oid] = sent[oid] + 1
  PROVE  CallInStream'
<1>1. toClient \in Seq(AgentMsg) /\ \A oid \in Oid : sent[oid] \in Nat
  BY PipeTypes DEF TypeInv, TypeOK, AgentTypeOK
<1>2. /\ DOMAIN toClient = 1 .. Len(toClient) /\ DOMAIN toClient' = 1 .. Len(toClient) + 1
      /\ Len(toClient) \in Nat /\ Len(toClient') = Len(toClient) + 1
      /\ toClient' \in Seq(AgentMsg)
      /\ \A i \in 1 .. Len(toClient) : toClient'[i] = toClient[i]
  BY <1>1, AppendProperties, LenProperties
<1>3. call.op = "subscription" => call.msg.oid \in Oid
  BY DEF TypeInv, CallFits, EntityRequest, Creates
<1>4. ASSUME NEW oid \in Oid, oid = call.msg.oid, call.op = "subscription", call.step = 3
      PROVE  InStream(oid, 0)'
  <2>1. InStream(oid, 0)
    BY <1>4 DEF CallInStream
  <2> QED BY <1>1, <2>1, StreamAppend
<1>5. ASSUME NEW oid \in Oid, oid = call.msg.oid, call.op = "subscription", call.step = 2,
             pc = "wait", NEW k \in DOMAIN toClient', toClient'[k] = Status(call.msg.req, TRUE)
      PROVE  InStream(oid, k)'
  <2>1. CASE k \in DOMAIN toClient
    <3>1. InStream(oid, k)
      BY <1>2, <1>5, <2>1 DEF CallInStream
    <3> QED BY <1>1, <3>1, StreamAppend
  <2>2. CASE k = Len(toClient')
    BY <1>2, <2>2, StreamEnd
  <2> QED BY <1>2, <2>1, <2>2
<1>6. call.op = "subscription" /\ call.step = 3 => InStream(call.msg.oid, 0)'
  BY <1>3, <1>4 DEF InStream, SampleAt
<1>7. ASSUME call.op = "subscription", call.step = 2, pc = "wait"
      PROVE  \A k \in DOMAIN toClient' :
               toClient'[k] = Status(call.msg.req, TRUE) => InStream(call.msg.oid, k)'
  <2> SUFFICES ASSUME NEW k \in DOMAIN toClient', toClient'[k] = Status(call.msg.req, TRUE)
               PROVE  InStream(call.msg.oid, k)'
    OBVIOUS
  <2>1. ASSUME NEW oid \in Oid, oid = call.msg.oid
        PROVE  InStream(oid, k)'
    BY <1>5, <1>7, <2>1
  <2> QED BY <1>3, <1>7, <2>1 DEF InStream, SampleAt
<1> QED BY <1>6, <1>7, ZenonT(60) DEF CallInStream, InStream, SampleAt, Status

-----------------------------------------------------------------------------
(* The streams of all slots of the table. *)

\* A slot of the table has the id of a reader.
LEMMA TableSlots ==
  ASSUME TypeInv, EntityInv, open
  PROVE  \A s \in Range(table) : s \in Slot /\ drId[s] \in Oid
<1>1. table \in Seq(Slot) /\ drId \in [Slot -> Oid \cup {NoOid}]
  BY DEF TypeInv, TypeOK, SessionTypeOK, SubscriptionTypeOK
<1>2. \A s \in Range(table) : s \in Slot
  BY <1>1, LenProperties, ElementOfSeq DEF Range
<1>3. \A s \in Range(table) : drId[s][1] = "DATAREADER"
  BY DEF EntityInv, OidsFit
<1> QED BY <1>1, <1>2, <1>3 DEF NoOid

\* Nothing is given to the slots: the connection is left alone or read.
LEMMA SlotsRead ==
  ASSUME TypeInv, EntityInv, open, SlotsInStream,
         UNCHANGED <<objs, sent, table, drId, last>>,
         UNCHANGED toClient \/ (toClient # <<>> /\ toClient' = Tail(toClient))
  PROVE  SlotsInStream'
<1> SUFFICES ASSUME NEW s \in Range(table)
             PROVE  SlotInStream(s)'
  BY DEF SlotsInStream
<1>1. s \in Slot /\ drId[s] \in Oid /\ SlotInStream(s)
  BY TableSlots DEF SlotsInStream
<1>2. CASE UNCHANGED toClient
  BY <1>1, <1>2, SlotSent
<1>3. CASE toClient # <<>> /\ toClient' = Tail(toClient)
  BY <1>1, <1>3, SlotTail
<1> QED BY <1>2, <1>3

\* A sample is given to the slot registered under its reader.
LEMMA SlotsDispatch ==
  ASSUME TypeInv, EntityInv, open, SlotsInStream,
         NEW await, Read(await), Frame.type = "DATA", Dispatch(Frame), UNCHANGED table
  PROVE  SlotsInStream'
<1>1. /\ UNCHANGED <<objs, sent, table>> /\ toClient # <<>> /\ toClient' = Tail(toClient)
      /\ toClient \in Seq(AgentMsg)
  BY PipeTypes DEF Read, entityVars
<1>2. CASE UNCHANGED slotVars
  BY <1>1, <1>2, SlotsRead DEF slotVars
<1>3. ASSUME NEW i \in Routes(Frame.oid), TryDeliver(table[i], Frame)
      PROVE  SlotsInStream'
  <2>1. /\ UNCHANGED drId /\ last \in [Slot -> Nat]
        /\ last' = last \/ last' = [last EXCEPT ![table[i]] = Frame.n]
    BY <1>3 DEF TryDeliver, TypeInv, TypeOK, SubscriptionTypeOK
  <2>2. SampleAt(1, drId[table[i]])
    BY <1>1, <1>3 DEF SampleAt, Routes, Frame
  <2> SUFFICES ASSUME NEW s \in Range(table)
               PROVE  SlotInStream(s)'
    BY <1>1 DEF SlotsInStream
  <2>3. s \in Slot /\ SlotInStream(s)
    BY TableSlots DEF SlotsInStream
  <2>4. last'[s] = last[s] \/ (s = table[i] /\ last'[s] = Frame.n)
    BY <2>1, <2>3
  <2>5. \/ last'[s] = last[s]
        \/ SampleAt(1, drId[s]) /\ last'[s] = Head(toClient).n
    BY <2>2, <2>4 DEF Frame
  <2> QED BY <1>1, <2>1, <2>3, <2>5, SlotTail
<1> QED BY <1>2, <1>3 DEF Dispatch

\* The agent sends something.
LEMMA SlotsSent ==
  ASSUME TypeInv, EntityInv, open, SlotsInStream, UNCHANGED <<objs, table, drId, last>>,
         NEW m \in AgentMsg, toClient' = Append(toClient, m),
         \A oid \in Oid :
           \/ ~(m.type = "DATA" /\ m.oid = oid) /\ sent'[oid] = sent[oid]
           \/ m.topic = objs[oid] /\ m.n = sent[oid] + 1 /\ sent'[oid] = sent[oid] + 1
  PROVE  SlotsInStream'
<1> SUFFICES ASSUME NEW s \in Range(table)
             PROVE  SlotInStream(s)'
  BY DEF SlotsInStream
<1>1. s \in Slot /\ drId[s] \in Oid /\ SlotInStream(s)
  BY TableSlots DEF SlotsInStream
<1> QED BY <1>1, SlotSent

-----------------------------------------------------------------------------
(* Streams: every step. *)

\* No sample is streamed beyond the bound.
LEMMA SentBounded ==
  ASSUME TypeInv, \A oid \in Oid : sent[oid] <= MaxSent, [Next]_vars
  PROVE  \A oid \in Oid : sent'[oid] <= MaxSent
<1>1. sent \in [Oid -> Nat] /\ MaxSent \in Nat /\ reading \subseteq Oid
  BY DEF TypeInv, TypeOK, AgentTypeOK
<1>2. CASE AgentServes
  <2>1. CASE ServeClient
    BY <1>1, <2>1 DEF ServeClient, NoEntities, entityVars
  <2>2. CASE ServeCreate
    <3>1. CASE UNCHANGED entityVars
      BY <1>1, <3>1 DEF entityVars
    <3>2. ASSUME NEW oid, sent' = [sent EXCEPT ![oid] = 0]
          PROVE  \A o \in Oid : sent'[o] <= MaxSent
      BY <1>1, <3>2
    <3> QED BY <2>2, <3>1, <3>2 DEF ServeCreate
  <2>3. CASE ServeReadData \/ ServeWriteData \/ Refuse
    BY <2>3 DEF ServeReadData, ServeWriteData, Refuse, entityVars
  <2> QED BY <1>2, <2>1, <2>2, <2>3 DEF AgentServes, Serve
<1>3. CASE AgentSends
  <2>1. CASE SendNoise
    BY <2>1 DEF SendNoise, entityVars
  <2>2. ASSUME NEW oid \in reading, Stream(oid)
        PROVE  \A o \in Oid : sent'[o] <= MaxSent
    <3>1. sent' = [sent EXCEPT ![oid] = sent[oid] + 1] /\ sent[oid] < MaxSent
      BY <2>2 DEF Stream
    <3> QED BY <1>1, <3>1
  <2> QED BY <1>3, <2>1, <2>2 DEF AgentSends
<1>4. CASE ~AgentServes /\ ~AgentSends
  <2>1. UNCHANGED sent
    <3>1. CASE Start
      BY <3>1 DEF Start, Connect, CreateNode, CreatePublisher, CreateSubscription, CreateTopic,
                  RefuseSubscription, RefuseName, Publish, Spin, agentVars, entityVars
    <3>2. CASE Progress
      BY <3>2 DEF Progress, WriteFrame, TransportFails, GiveUp, HandshakeOk, HandshakeFails,
                  WaitData, WaitSkips, WaitTooShort, WaitMismatch, WaitRejected, NodeGoesOn, NodeReady,
                  PublisherGoesOn, PublisherReady, SubscriptionGoesOn, SubscriptionReads,
                  SubscriptionReady, SpinFrame, Granted, Read, agentVars, entityVars
    <3>3. CASE Interrupted \/ LinkFails \/ Receive \/ AgentReplies \/ UNCHANGED vars
      BY <3>3 DEF Interrupted, DropCall, TransportErrs, EncodeFails, GiveUp, LinkFails, Receive,
                  AgentReplies, SendReply, agentVars, entityVars, vars
    <3> QED BY <1>4, <3>1, <3>2, <3>3 DEF Next
  <2> QED BY <2>1
<1> QED BY <1>2, <1>3, <1>4

\* A call begins, reads its next STATUS, returns or is dropped: steps that give
\* the slots nothing.
LEMMA StreamCalls ==
  ASSUME TypeInv, QueuesInOrder, CallInOrder, EntityInv, open, SlotsInStream, CallInStream,
         \/ Start /\ ~Connect
         \/ WriteFrame \/ TransportFails \/ Interrupted \/ LinkFails \/ Receive \/ UNCHANGED vars
         \/ WaitSkips \/ WaitTooShort \/ WaitMismatch \/ WaitRejected
         \/ NodeGoesOn \/ NodeReady \/ PublisherGoesOn \/ PublisherReady
         \/ SubscriptionGoesOn \/ SubscriptionReads
  PROVE  SlotsInStream' /\ CallInStream'
<1> USE DEF sessionVars, appVars, slotVars, agentVars, entityVars, channelVars
<1>1. ASSUME UNCHANGED <<objs, sent, table, drId, last>>,
             UNCHANGED toClient \/ (toClient # <<>> /\ toClient' = Tail(toClient)),
             CallInStream'
      PROVE  SlotsInStream' /\ CallInStream'
  BY <1>1, SlotsRead
<1>2. ASSUME NEW res, Return(res)
      PROVE  CallInStream'
  BY <1>2, CallEarly DEF Return, NoCall
<1>3. CASE Start /\ ~Connect
  <2>1. call'.op \in {"none", "spin_once", "spin"} \/ call'.step = 1
    <3>1. ASSUME NEW op, NEW msg, NEW node, NEW topic, NEW slot, Begin(op, msg, node, topic, slot)
          PROVE  call'.step = 1
      BY <3>1 DEF Begin
    <3>2. ASSUME CreateNode \/ \E pub \in pubs : Publish(pub)
          PROVE  call'.step = 1
      BY <3>1, <3>2 DEF CreateNode, Publish
    <3>3. ASSUME NEW node, NEW topic,
                 CreatePublisher(node, topic) \/ \E slot \in Slot : CreateSubscription(node, topic, slot)
          PROVE  call'.step = 1
      BY <3>1, <3>3 DEF CreatePublisher, CreateSubscription, CreateTopic, Callable
    <3>4. ASSUME NEW op \in {"spin_once", "spin"}, Spin(op)
          PROVE  call'.op \in {"spin_once", "spin"}
      BY <3>4 DEF Spin, NoCall
    <3>5. ASSUME RefuseSubscription \/ RefuseName
          PROVE  call'.op = "none"
      <4>1. call' = NoCall
        BY <3>5 DEF RefuseSubscription, RefuseName, Return
      <4> QED BY <4>1 DEF NoCall
    <3> QED BY <1>3, <3>2, <3>3, <3>4, <3>5 DEF Start
  <2>2. CallInStream'
    BY <2>1, CallEarly
  <2>3. UNCHANGED <<objs, sent, table, drId, last, toClient>>
    BY <1>3 DEF Start, CreateNode, CreatePublisher, CreateSubscription, CreateTopic,
                RefuseSubscription, RefuseName, Publish, Spin
  <2> QED BY <1>1, <2>2, <2>3
<1>4. CASE WriteFrame
  <2>1. UNCHANGED <<objs, sent, table, drId, last, toClient>> /\ pc = "write"
    BY <1>4 DEF WriteFrame
  <2>2. CASE UNCHANGED call /\ call.op = "subscription"
    <3>1. \A m \in Statuses : m.req < call.msg.req
      BY <2>1, <2>2 DEF CallInOrder, Creates
    <3>2. Status(call.msg.req, TRUE) \notin Statuses
      <4>1. call.msg.req \in Nat
        BY <2>2 DEF TypeInv, CallFits, Creates, EntityRequest, ReqId
      <4>2. ASSUME NEW m \in Statuses
            PROVE  m # Status(call.msg.req, TRUE)
        <5>1. m.req < call.msg.req
          BY <3>1
        <5>2. m.req # call.msg.req
          BY <4>1, <5>1
        <5> QED BY <5>2 DEF Status
      <4> QED BY <4>2
    <3>3. Status(call.msg.req, TRUE) \notin Range(toClient')
      BY <2>1, <3>2 DEF Statuses, Status
    <3>4. CallInStream'
      BY <2>1, <2>2, <3>3, CallRead
    <3> QED BY <1>1, <2>1, <3>4
  <2>3. CASE call'.op # "subscription"
    BY <1>1, <2>1, <2>3, CallEarly
  <2>4. UNCHANGED call \/ call' = NoCall
    BY <1>4 DEF WriteFrame, AfterWrite, Return
  <2> QED BY <2>2, <2>3, <2>4 DEF NoCall
<1>5. CASE TransportFails \/ Interrupted
  BY <1>1, <1>2, <1>5 DEF TransportFails, GiveUp, Interrupted, DropCall, TransportErrs, EncodeFails
<1>6. CASE LinkFails \/ Receive \/ UNCHANGED vars
  <2>1. UNCHANGED <<objs, sent, table, drId, last, toClient, pc, call>>
    BY <1>6 DEF LinkFails, Receive, Recv, vars
  <2> QED BY <1>1, <2>1, CallRead
<1>7. CASE WaitSkips
  <2>1. UNCHANGED <<objs, sent, table, drId, last, pc, call>>
        /\ toClient # <<>> /\ toClient' = Tail(toClient)
    BY <1>7 DEF WaitSkips, Read
  <2> QED BY <1>1, <2>1, CallRead
<1>8. CASE WaitTooShort \/ WaitMismatch \/ WaitRejected
  BY <1>1, <1>2, <1>8 DEF WaitTooShort, WaitMismatch, WaitRejected, Read
<1>9. CASE NodeReady \/ PublisherReady
  BY <1>1, <1>2, <1>9 DEF NodeReady, PublisherReady, Granted, Read
<1>10. CASE NodeGoesOn \/ PublisherGoesOn \/ SubscriptionGoesOn
  <2>1. /\ UNCHANGED <<objs, sent, table, drId, last>>
        /\ toClient # <<>> /\ toClient' = Tail(toClient)
    BY <1>10 DEF NodeGoesOn, PublisherGoesOn, SubscriptionGoesOn, Granted, Read
  <2>2. PICK m : /\ Proceed(m)
                 /\ \/ call.op \in {"node", "publisher"}
                    \/ call.op = "subscription" /\ call.step = 1
    BY <1>10 DEF NodeGoesOn, PublisherGoesOn, SubscriptionGoesOn, Granted
  <2>3. call'.op = call.op /\ call'.step = call.step + 1 /\ pc' = "write"
    <3>1. call' = [call EXCEPT !.step = call.step + 1, !.msg = m] /\ pc' = "write"
      BY <2>2 DEF Proceed
    <3> QED BY <3>1 DEF TypeInv, TypeOK, CallTypeOK
  <2>4. CallInStream'
    BY <2>2, <2>3, CallEarly
  <2> QED BY <1>1, <2>1, <2>4
<1>11. CASE SubscriptionReads
  <2>1. /\ UNCHANGED <<objs, sent, table, drId, last>> /\ pc = "wait"
        /\ toClient # <<>> /\ toClient' = Tail(toClient) /\ toClient \in Seq(AgentMsg)
        /\ call.op = "subscription" /\ call.step = 2
        /\ Head(toClient).type = "STATUS" /\ Head(toClient).req = call.msg.req
        /\ Head(toClient).ok /\ Proceed(ReadDataMsg(reqId, call.msg.oid))
    BY <1>11, PipeTypes DEF SubscriptionReads, Granted, Read, Answers, Frame
  <2>2. Head(toClient) \in AgentMsg /\ 1 \in DOMAIN toClient /\ toClient[1] = Head(toClient)
    BY <2>1, HeadTailProperties, LenProperties, EmptySeq
  <2>3. toClient[1] = Status(call.msg.req, TRUE)
    BY <2>1, <2>2 DEF AgentMsg, Reply, Status
  <2>4. call'.msg.oid = call.msg.oid /\ call'.step = 3
    <3>1. call' = [call EXCEPT !.step = call.step + 1, !.msg = ReadDataMsg(reqId, call.msg.oid)]
      BY <2>1 DEF Proceed
    <3>2. call'.msg = ReadDataMsg(reqId, call.msg.oid) /\ call'.step = call.step + 1
      BY <3>1 DEF TypeInv, TypeOK, CallTypeOK
    <3> QED BY <2>1, <3>2 DEF ReadDataMsg
  <2>5. ASSUME NEW oid, oid = call.msg.oid
        PROVE  InStream(oid, 0)'
    <3>1. InStream(oid, 1)
      BY <2>1, <2>2, <2>3, <2>5 DEF CallInStream
    <3> QED BY <2>1, <3>1, StreamTail
  <2>6. InStream(call.msg.oid, 0)'
    BY <2>4, <2>5 DEF InStream, SampleAt
  <2>7. CallInStream'
    BY <2>4, <2>6 DEF CallInStream, Status
  <2> QED BY <1>1, <2>1, <2>7
<1> QED BY <1>3, <1>4, <1>5, <1>6, <1>7, <1>8, <1>9, <1>10, <1>11

\* create_subscription registers its slot: the reader's stream starts anew for
\* it, also where the slot is in the table under another reader already.
LEMMA StreamReady ==
  ASSUME TypeInv, EntityInv, open, SlotsInStream, CallInStream, SubscriptionReady
  PROVE  SlotsInStream' /\ CallInStream'
<1>1. /\ UNCHANGED <<objs, sent>> /\ toClient # <<>> /\ toClient' = Tail(toClient)
      /\ call.op = "subscription" /\ call.step = 3 /\ call' = NoCall
      /\ SetDrId(call.slot, call.msg.oid, call.topic) /\ table' = Append(table, call.slot)
  BY DEF SubscriptionReady, Granted, Read, Return, entityVars
<1>2. toClient \in Seq(AgentMsg) /\ table \in Seq(Slot) /\ call.slot \in Slot
      /\ call.msg.oid \in Oid
  BY <1>1, PipeTypes DEF TypeInv, TypeOK, SessionTypeOK, CallFits, EntityRequest, Creates
<1>3. /\ \A s \in Slot \ {call.slot} : drId'[s] = drId[s] /\ last'[s] = last[s]
      /\ drId'[call.slot] = call.msg.oid /\ last'[call.slot] = 0
  BY <1>1, <1>2 DEF SetDrId, TypeInv, TypeOK, SubscriptionTypeOK
<1>4. Range(table') = Range(table) \cup {call.slot}
  BY <1>1, <1>2, RangeAppend
<1>5. ASSUME NEW s, s = call.slot
      PROVE  SlotInStream(s)'
  <2>1. drId'[s] = call.msg.oid /\ last'[s] = 0
    BY <1>3, <1>5
  <2>2. ASSUME NEW oid, oid = call.msg.oid
        PROVE  InStream(oid, 0)'
    <3>1. InStream(oid, 0)
      BY <1>1, <2>2 DEF CallInStream
    <3> QED BY <1>1, <1>2, <3>1, StreamTail
  <2>3. InStream(drId[s], 0)'
    BY <2>1, <2>2 DEF InStream, SampleAt
  <2>4. sent'[drId'[s]] \in Nat
    BY <1>1, <1>2, <2>1 DEF TypeInv, TypeOK, AgentTypeOK
  <2>5. ASSUME NEW i \in DOMAIN toClient', SampleAt(i, drId[s])'
        PROVE  0 < toClient'[i].n
    <3>1. DOMAIN toClient' = 1 .. Len(toClient')
      BY <1>1, <1>2, HeadTailProperties, LenProperties
    <3>2. toClient'[i].n \in 1 .. sent'[drId'[s]]
      BY <2>3, <2>5, <3>1 DEF InStream
    <3> QED BY <2>4, <3>2
  <2> QED BY <2>1, <2>3, <2>4, <2>5 DEF SlotInStream
<1>6. ASSUME NEW s \in Range(table), s # call.slot
      PROVE  SlotInStream(s)'
  <2>1. s \in Slot /\ SlotInStream(s)
    BY TableSlots DEF SlotsInStream
  <2> QED BY <1>1, <1>3, <1>6, <2>1, SlotTail
<1>7. SlotsInStream'
  BY <1>4, <1>5, <1>6 DEF SlotsInStream
<1>8. CallInStream'
  BY <1>1, CallEarly DEF NoCall
<1> QED BY <1>7, <1>8

\* The agent serves a request: it is for none of the readers in question.
LEMMA StreamServes ==
  ASSUME TypeInv, QueuesInOrder, CallInOrder, EntityInv, open, SlotsInStream, CallInStream,
         AgentServes
  PROVE  SlotsInStream' /\ CallInStream'
<1>1. UNCHANGED <<pc, call, table, drId, last, toClient>>
  BY DEF AgentServes, clientVars, sessionVars, slotVars, Serve, ServeClient, ServeCreate,
         ServeReadData, ServeWriteData, Refuse, Answer
<1>2. toAgent \in Seq(ClientMsg) /\ toAgent # <<>>
  BY PipeTypes DEF AgentServes, Serve, ServeClient, ServeCreate, ServeReadData,
                   ServeWriteData, Refuse, Serving
<1>3. Head(toAgent) \in Range(toAgent) /\ Head(toAgent) \in ClientMsg
  BY <1>2, RangeTail, TakeFirst
<1>4. CASE UNCHANGED <<objs, sent>>
  BY <1>1, <1>4, SlotsRead, CallRead
<1>5. CASE ServeClient
  <2>1. Head(toAgent) = CreateClient
    BY <1>3, <1>5 DEF ServeClient, Serving, ClientMsg, EntityRequest
  <2> QED BY <1>3, <2>1 DEF QueuesInOrder
<1>6. CASE ServeCreate
  <2> DEFINE m == Head(toAgent)
  <2>1. m.type = "CREATE" /\ m \in Requests /\ m \in EntityRequest
    BY <1>3, <1>6, PipeTypes DEF ServeCreate, Serving, Requests
  <2>2. /\ objs \in [Oid -> Topic \cup {NoTopic, Absent}] /\ sent \in [Oid -> Nat]
        /\ m.oid \in Oid
    BY <2>1 DEF TypeInv, TypeOK, AgentTypeOK, EntityRequest
  <2>3. /\ objs' = objs \/ objs' = [objs EXCEPT ![m.oid] = m.topic]
        /\ sent' = sent \/ sent' = [sent EXCEPT ![m.oid] = 0]
    BY <1>6 DEF ServeCreate, entityVars
  <2>4. \A oid \in Oid : oid # m.oid => objs'[oid] = objs[oid] /\ sent'[oid] = sent[oid]
    <3> HIDE DEF m
    <3> QED BY <2>2, <2>3
  <2>5. \A oid \in Owned : oid # m.oid
    BY <1>3, <2>1 DEF EntityInv, Settled
  <2> HIDE DEF m
  <2>6. ASSUME NEW s \in Range(table)
        PROVE  SlotInStream(s)'
    <3>1. s \in Slot /\ drId[s] \in Oid /\ SlotInStream(s) /\ drId[s] \in Owned
      BY TableSlots DEF SlotsInStream, Owned, TableOwned
    <3> QED BY <1>1, <2>4, <2>5, <3>1, SlotSent
  <2>7. SlotsInStream'
    BY <1>1, <2>6 DEF SlotsInStream
  <2>8. ASSUME NEW oid, oid = call.msg.oid, call.op = "subscription", call.step = 3
        PROVE  InStream(oid, 0)'
    <3>1. oid \in Oid /\ oid \in Owned /\ InStream(oid, 0)
      BY <2>8 DEF CallInStream, Owned, Made, TypeInv, CallFits, EntityRequest, Creates
    <3> QED BY <1>1, <2>4, <2>5, <3>1, StreamSame
  <2>9. ASSUME call.op = "subscription", call.step = 2, pc = "wait",
               NEW k \in DOMAIN toClient
        PROVE  toClient[k] # Status(call.msg.req, TRUE)
    <3>1. \A s \in Statuses : s.req < m.req
      BY <2>1 DEF QueuesInOrder
    <3>2. m.req \in Nat /\ m.req < reqId /\ reqId = call.msg.req + 1 /\ call.msg.req \in Nat
      BY <2>1, <2>9, PipeTypes DEF QueuesInOrder, CallInOrder, Creates, TypeInv, CallFits,
                                   EntityRequest, ReqId
    <3>3. ASSUME toClient[k] = Status(call.msg.req, TRUE)
          PROVE  FALSE
      <4>1. toClient[k] \in Range(toClient) /\ toClient[k].type = "STATUS"
            /\ toClient[k].req = call.msg.req
        BY <3>3 DEF Range, Status
      <4>2. toClient[k] \in Statuses
        BY <4>1 DEF Statuses
      <4>3. call.msg.req < m.req
        BY <3>1, <4>1, <4>2
      <4> QED BY <3>2, <4>3
    <3> QED BY <3>3
  <2>10. call.op = "subscription" /\ call.step = 3 => InStream(call.msg.oid, 0)'
    BY <1>1, <2>8 DEF InStream, SampleAt
  <2>11. CallInStream'
    BY <1>1, <2>9, <2>10 DEF CallInStream, Status
  <2> QED BY <2>7, <2>11
<1>7. CASE ServeReadData \/ ServeWriteData \/ Refuse
  BY <1>4, <1>7 DEF ServeReadData, ServeWriteData, Refuse, entityVars
<1> QED BY <1>5, <1>6, <1>7 DEF AgentServes, Serve

\* The agent sends a reply, a sample or something else.
LEMMA StreamSends ==
  ASSUME TypeInv, EntityInv, open, SlotsInStream, CallInStream, AgentReplies \/ AgentSends
  PROVE  SlotsInStream' /\ CallInStream'
<1>1. UNCHANGED <<pc, call, table, drId, last, objs>>
  BY DEF AgentReplies, AgentSends, SendReply, SendNoise, Stream, clientVars, sessionVars,
         slotVars, entityVars
<1>2. sent \in [Oid -> Nat] /\ owed \in Seq(Reply) /\ reading \subseteq Oid
  BY PipeTypes DEF TypeInv, TypeOK, AgentTypeOK
<1>3. ASSUME NEW m \in AgentMsg, m.type # "DATA", toClient' = Append(toClient, m), UNCHANGED sent
      PROVE  SlotsInStream' /\ CallInStream'
  BY <1>1, <1>3, SlotsSent, CallSent
<1>4. CASE AgentReplies
  <2>1. owed # <<>> /\ toClient' = Append(toClient, Head(owed)) /\ UNCHANGED sent
    BY <1>4 DEF AgentReplies, SendReply, entityVars
  <2>2. Head(owed) \in Reply
    BY <1>2, <2>1, TakeFirst
  <2>3. Head(owed) \in AgentMsg /\ Head(owed).type # "DATA"
    BY <2>2 DEF Reply, AgentMsg
  <2> QED BY <1>3, <2>1, <2>3
<1>5. CASE SendNoise
  <2>1. PICK type \in Noise : toClient' = Append(toClient, [type |-> type])
    BY <1>5 DEF SendNoise
  <2>2. [type |-> type] \in AgentMsg /\ [type |-> type].type # "DATA"
    BY DEF AgentMsg
  <2> QED BY <1>3, <1>5, <2>1, <2>2 DEF SendNoise, entityVars
<1>6. ASSUME NEW oid \in reading, Stream(oid)
      PROVE  SlotsInStream' /\ CallInStream'
  <2>1. PICK good \in Goodness :
          toClient' = Append(toClient, Data(oid, objs[oid], sent[oid] + 1, good))
    BY <1>6 DEF Stream
  <2> DEFINE m == Data(oid, objs[oid], sent[oid] + 1, good)
  <2>2. oid \in Oid /\ objs[oid] \in Topic /\ sent[oid] + 1 \in Nat /\ good \in BOOLEAN
    BY <1>2 DEF TypeInv, TypeOK, AgentTypeOK
  <2>3. m \in AgentMsg /\ m.oid = oid /\ m.topic = objs[oid] /\ m.n = sent[oid] + 1
    BY <2>2 DEF Data, AgentMsg
  <2>4. sent' = [sent EXCEPT ![oid] = sent[oid] + 1] /\ toClient' = Append(toClient, m)
    BY <1>6, <2>1 DEF Stream
  <2> HIDE DEF m
  <2>5. ASSUME NEW o \in Oid
        PROVE  \/ ~(m.type = "DATA" /\ m.oid = o) /\ sent'[o] = sent[o]
               \/ m.topic = objs[o] /\ m.n = sent[o] + 1 /\ sent'[o] = sent[o] + 1
    BY <1>2, <2>2, <2>3, <2>4
  <2> QED BY <1>1, <2>3, <2>4, <2>5, SlotsSent, CallSent
<1> QED BY <1>4, <1>5, <1>6 DEF AgentSends

\* A sample is read, or another frame by spin, and dispatched.
LEMMA StreamDispatches ==
  ASSUME TypeInv, EntityInv, open, SlotsInStream, CallInStream, WaitData \/ SpinFrame
  PROVE  SlotsInStream' /\ CallInStream'
<1>1. /\ UNCHANGED <<objs, sent, table>> /\ toClient # <<>> /\ toClient' = Tail(toClient)
      /\ UNCHANGED <<pc, call>> \/ \E res : Return(res)
  BY DEF WaitData, SpinFrame, Read, entityVars, sessionVars
<1>2. CallInStream'
  <2>1. CASE UNCHANGED <<pc, call>>
    BY <1>1, <2>1, CallRead
  <2>2. CASE \E res : Return(res)
    BY <2>2, CallEarly DEF Return, NoCall
  <2> QED BY <1>1, <2>1, <2>2
<1>3. SlotsInStream'
  <2>1. PICK await : Read(await)
    BY DEF WaitData, SpinFrame
  <2>2. CASE Frame.type = "DATA"
    <3>1. Dispatch(Frame)
      BY <2>2 DEF WaitData, SpinFrame
    <3> QED BY <1>1, <2>1, <2>2, <3>1, SlotsDispatch
  <2>3. CASE Frame.type # "DATA"
    <3>1. UNCHANGED slotVars
      BY <2>3 DEF WaitData, SpinFrame
    <3> QED BY <1>1, <3>1, SlotsRead DEF slotVars
  <2> QED BY <2>2, <2>3
<1> QED BY <1>2, <1>3

\* StreamInv holds after every step.
LEMMA StreamStep ==
  ASSUME OrderInv, OneLife, EntityInv, StreamInv, [Next]_vars
  PROVE  StreamInv'
<1>1. TypeInv /\ CountersInv /\ PipeInv
  BY DEF OrderInv
<1>2. \A oid \in Oid : sent'[oid] <= MaxSent
  BY <1>1, SentBounded DEF StreamInv
<1>3. CASE ~open
  <2>1. Connecting
    BY <1>1, <1>3 DEF PipeInv
  <2>2. CASE HandshakeOk
    <3>1. table' = <<>> /\ call' = NoCall
      BY <2>2 DEF HandshakeOk, Return
    <3>2. SlotsInStream'
      BY <3>1 DEF SlotsInStream, Range
    <3>3. CallInStream'
      BY <3>1, CallEarly DEF NoCall
    <3> QED BY <1>2, <3>2, <3>3 DEF StreamInv
  <2>3. CASE ~HandshakeOk
    <3>1. ~open'
      BY <1>1, <1>3, <2>1, <2>3, PipeConnecting DEF OneLife
    <3> QED BY <1>2, <3>1 DEF StreamInv
  <2> QED BY <2>2, <2>3
<1>4. CASE open
  <2>1. QueuesInOrder /\ CallInOrder /\ SlotsInStream /\ CallInStream
    BY <1>1, <1>4 DEF PipeInv, StreamInv
  <2>2. ~HandshakeOk /\ ~HandshakeFails
    BY <1>1, <2>1 DEF CallInOrder, TypeInv, CallFits, HandshakeOk, HandshakeFails, Read
  <2>3. CASE Connect
    <3>1. ~open'
      BY <2>3 DEF Connect
    <3> QED BY <1>2, <3>1 DEF StreamInv
  <2>4. CASE ~Connect
    <3>1. SlotsInStream' /\ CallInStream'
      <4>1. CASE \/ Start
                 \/ WriteFrame \/ TransportFails \/ Interrupted \/ LinkFails \/ Receive
                 \/ UNCHANGED vars
                 \/ WaitSkips \/ WaitTooShort \/ WaitMismatch \/ WaitRejected
                 \/ NodeGoesOn \/ NodeReady \/ PublisherGoesOn \/ PublisherReady
                 \/ SubscriptionGoesOn \/ SubscriptionReads
        BY <1>1, <1>4, <2>1, <2>4, <4>1, StreamCalls
      <4>2. CASE WaitData \/ SpinFrame
        BY <1>1, <1>4, <2>1, <4>2, StreamDispatches
      <4>3. CASE SubscriptionReady
        BY <1>1, <1>4, <2>1, <4>3, StreamReady
      <4>4. CASE AgentServes
        BY <1>1, <1>4, <2>1, <4>4, StreamServes
      <4>5. CASE AgentReplies \/ AgentSends
        BY <1>1, <1>4, <2>1, <4>5, StreamSends
      <4> QED BY <2>2, <4>1, <4>2, <4>3, <4>4, <4>5 DEF Next, Progress
    <3> QED BY <1>2, <3>1 DEF StreamInv
  <2> QED BY <2>3, <2>4
<1> QED BY <1>3, <1>4

LEMMA StreamInvariant ==
  ASSUME OneLife
  PROVE  Spec => [](OrderInv /\ EntityInv /\ StreamInv)
<1>1. Init => StreamInv
  BY DEF Init, AgentInit, StreamInv
<1>2. OrderInv /\ EntityInv /\ StreamInv /\ [Next]_vars => StreamInv'
  BY StreamStep
<1> QED BY <1>1, <1>2, EntityInvariant, PTL DEF Spec

\* SessionInv, for every session within OneLife: the inductive invariant that
\* the reconnect run checks, its parts being what the other theorems rest on.
\* The counters stay in their bounds, the frames on the connection belong to
\* the calls in progress in the order they were sent, every entity a handle or
\* a pending request names exists, and the samples on their way to a slot are
\* of its topic and newer than those it has been given.
THEOREM SessionInvariantHolds ==
  ASSUME OneLife
  PROVE  Spec => []SessionInv
<1>1. RoomInv /\ OrderInv /\ EntityInv /\ StreamInv => SessionInv
  BY DEF OrderInv, SessionInv
<1> QED BY <1>1, RoomInvariant, StreamInvariant, PTL

-----------------------------------------------------------------------------
(* Dispatch: what one sample does to the slots. *)

\* dispatch_data_payload gives a good sample to the slot registered under its
\* reader if that has room, and gives no other slot anything.
LEMMA DispatchRoutes ==
  ASSUME TypeInv, RoutesDistinct, NEW data, Dispatch(data), data.good, NEW s \in Slot
  PROVE  (inbox'[s] # inbox[s])
            <=> (s \in Range(table) /\ drId[s] = data.oid /\ Len(inbox[s]) < Depth)
<1>1. /\ table \in Seq(Slot) /\ inbox \in [Slot -> Seq(Sample)]
      /\ \A i \in DOMAIN table : table[i] \in Slot /\ table[i] \in Range(table)
  BY ElementOfSeq, LenProperties DEF TypeInv, TypeOK, SessionTypeOK, SubscriptionTypeOK, Range
<1>2. CASE Routes(data.oid) = {} /\ UNCHANGED slotVars
  BY <1>2 DEF Routes, Range, slotVars
<1>3. ASSUME NEW i \in Routes(data.oid), TryDeliver(table[i], data)
      PROVE  (inbox'[s] # inbox[s])
               <=> (s \in Range(table) /\ drId[s] = data.oid /\ Len(inbox[s]) < Depth)
  <2>1. table[i] \in Slot /\ table[i] \in Range(table) /\ drId[table[i]] = data.oid
    BY <1>1, <1>3 DEF Routes
  <2>2. s \in Range(table) /\ drId[s] = data.oid => s = table[i]
    BY <2>1 DEF RoutesDistinct
  <2>3. CASE Len(inbox[table[i]]) < Depth
    <3> DEFINE sample == [topic |-> data.topic, n |-> data.n]
    <3>1. inbox' = [inbox EXCEPT ![table[i]] = Append(inbox[table[i]], sample)]
      BY <1>3, <2>3 DEF TryDeliver, Accepts
    <3>2. Append(inbox[table[i]], sample) # inbox[table[i]]
      <4> HIDE DEF sample
      <4>1. Len(Append(inbox[table[i]], sample)) = Len(inbox[table[i]]) + 1
            /\ Len(inbox[table[i]]) \in Nat
        BY <1>1, <2>1
      <4> QED BY <4>1
    <3> HIDE DEF sample
    <3> QED BY <1>1, <2>1, <2>2, <2>3, <3>1, <3>2
  <2>4. CASE ~(Len(inbox[table[i]]) < Depth)
    BY <1>3, <2>2, <2>4 DEF TryDeliver, Accepts
  <2> QED BY <2>3, <2>4
<1> QED BY <1>2, <1>3 DEF Dispatch

\* The steps that take a frame off the connection to a call that waits or spins.
LEMMA ConsumingSteps ==
  ASSUME TypeInv, Next, NEW data, Consumes(data)
  PROVE  Dispatch(data)
<1>1. /\ pc \in {"wait", "spin"} /\ toClient # <<>> /\ toClient' = Tail(toClient)
      /\ data = Frame /\ Frame.type = "DATA"
      /\ toClient \in Seq(AgentMsg)
  BY PipeTypes DEF Consumes
<1>2. Len(toClient') = Len(toClient) - 1 /\ Len(toClient) \in Nat
  BY <1>1, HeadTailProperties
<1>3. toClient' # toClient /\ \A m \in AgentMsg : toClient' # Append(toClient, m)
  <2>1. ASSUME NEW m \in AgentMsg
        PROVE  Len(Append(toClient, m)) = Len(toClient) + 1
    BY <1>1, AppendProperties
  <2>2. ASSUME NEW m \in AgentMsg, toClient' = Append(toClient, m)
        PROVE  FALSE
    BY <1>2, <2>1, <2>2
  <2> QED BY <1>2, <2>2
<1>4. ~Start
  BY <1>1 DEF Start, Connect, CreateNode, CreatePublisher, CreateSubscription, RefuseSubscription,
              RefuseName, Publish, Spin, Callable
<1>5. ~AgentReplies /\ ~AgentSends
  <2>1. ~AgentSends
    BY <1>3, SendsTyped
  <2>2. ASSUME AgentReplies
        PROVE  FALSE
    <3>1. owed # <<>> /\ toClient' = Append(toClient, Head(owed)) /\ owed \in Seq(Reply)
      BY <2>2, PipeTypes DEF AgentReplies, SendReply
    <3>2. Head(owed) \in AgentMsg
      BY <3>1, TakeFirst DEF AgentMsg
    <3> QED BY <1>3, <3>1, <3>2
  <2> QED BY <2>1, <2>2
<1>6. ~Interrupted /\ ~LinkFails /\ ~Receive /\ ~AgentServes /\ ~WriteFrame /\ ~TransportFails
  BY <1>3 DEF Interrupted, DropCall, TransportErrs, EncodeFails, GiveUp, LinkFails, Receive,
              AgentServes, Serve, ServeClient, ServeCreate, ServeReadData, ServeWriteData, Refuse,
              Answer, WriteFrame, TransportFails, agentVars
<1>7. WaitData \/ SpinFrame
  BY <1>1, <1>4, <1>5, <1>6
     DEF Next, Progress, HandshakeOk, HandshakeFails, Read, WaitSkips, WaitTooShort, WaitMismatch,
         WaitRejected, Answers, NodeGoesOn, NodeReady, PublisherGoesOn, PublisherReady,
         SubscriptionGoesOn, SubscriptionReads, SubscriptionReady, Granted
<1> QED BY <1>1, <1>7 DEF WaitData, SpinFrame

\* SamplesRouted, for every session within OneLife: a sample that any call
\* reads reaches the slot registered under its reader, and no other.
THEOREM SamplesAreRouted ==
  ASSUME OneLife
  PROVE  Spec => SamplesRouted
<1> DEFINE A == \A data \in Range(toClient) : Consumes(data) =>
                  \A s \in Slot :
                    (inbox'[s] # inbox[s])
                      <=> (s \in Range(table) /\ drId[s] = data.oid /\ Len(inbox[s]) < Depth)
<1>1. OrderInv /\ EntityInv /\ [Next]_vars => [A]_vars
  <2> SUFFICES ASSUME OrderInv, EntityInv, Next
               PROVE  A
    OBVIOUS
  <2>1. TypeInv /\ RoutesDistinct
    BY DEF OrderInv, EntityInv
  <2>2. ASSUME NEW data \in Range(toClient), Consumes(data), NEW s \in Slot
        PROVE  (inbox'[s] # inbox[s])
                 <=> (s \in Range(table) /\ drId[s] = data.oid /\ Len(inbox[s]) < Depth)
    <3>1. Dispatch(data) /\ data.good
      BY <2>1, <2>2, ConsumingSteps DEF Consumes
    <3> QED BY <2>1, <3>1, DispatchRoutes
  <2> QED BY <2>2
<1> QED BY <1>1, EntityInvariant, PTL DEF Spec, SamplesRouted

-----------------------------------------------------------------------------
(* Session implements Feed, for each slot. *)

\* A sample that is dispatched is delivered by Feed, or by nobody.
LEMMA DispatchFeeds ==
  ASSUME TypeInv, EntityInv, StreamInv, open,
         toClient # <<>>, Frame.type = "DATA", Dispatch(Frame)
  PROVE  [F!Next]_(F!vars)
<1>1. CASE UNCHANGED slotVars
  BY <1>1 DEF F!vars, slotVars
<1>2. ASSUME NEW i \in Routes(Frame.oid), TryDeliver(table[i], Frame)
      PROVE  [F!Next]_(F!vars)
  <2> DEFINE s == table[i]
  <2>1. s \in Range(table) /\ drId[s] = Frame.oid
    BY <1>2 DEF Routes, Range
  <2>2. s \in Slot /\ drId[s] \in Oid
    BY <2>1, TableSlots
  <2>3. objs[drId[s]] = bound[s] /\ bound[s] \in Topic
    <3>1. objs[drId[s]] = bound[s] /\ drId[s] \in reading
      BY <2>1 DEF EntityInv, HandlesBacked, SubscriptionsBacked
    <3> QED BY <3>1 DEF TypeInv, TypeOK, AgentTypeOK
  <2>4. 1 \in DOMAIN toClient /\ Frame = toClient[1] /\ SampleAt(1, drId[s])
    <3>1. toClient \in Seq(AgentMsg)
      BY PipeTypes
    <3>2. 1 \in DOMAIN toClient /\ Frame = toClient[1]
      BY <3>1, EmptySeq, LenProperties, HeadTailProperties DEF Frame
    <3> QED BY <2>1, <3>2 DEF SampleAt
  <2>5. SlotInStream(s)
    BY <2>1 DEF StreamInv, SlotsInStream
  <2>6. Frame.topic = bound[s] /\ Frame.n \in 1 .. sent[drId[s]] /\ last[s] < Frame.n
    BY <2>3, <2>4, <2>5 DEF SlotInStream, InStream
  <2>7. Frame.n \in 1 .. MaxSent
    <3>1. sent[drId[s]] \in Nat /\ sent[drId[s]] <= MaxSent
      BY <2>2 DEF StreamInv, TypeInv, TypeOK, AgentTypeOK
    <3> QED BY <2>6, <3>1
  <2>8. CASE Accepts(s, Frame)
    <3>1. /\ inbox' = [inbox EXCEPT ![s] = Append(inbox[s], [topic |-> bound[s], n |-> Frame.n])]
          /\ last' = [last EXCEPT ![s] = Frame.n] /\ UNCHANGED bound
          /\ Len(inbox[s]) < Depth
      BY <1>2, <2>6, <2>8 DEF TryDeliver, Accepts
    <3>2. last[s] \in Nat
      BY <2>2 DEF TypeInv, TypeOK, SubscriptionTypeOK
    <3>3. Frame.n > last[s]
      BY <2>6, <2>7, <3>2
    <3> HIDE DEF s
    <3>4. F!Deliver(s)
      BY <2>3, <2>7, <3>1, <3>3 DEF F!Deliver
    <3> QED BY <2>2, <3>4 DEF F!Next
  <2>9. CASE ~Accepts(s, Frame)
    BY <1>2, <2>9 DEF TryDeliver, F!vars
  <2> QED BY <2>8, <2>9
<1> QED BY <1>1, <1>2 DEF Dispatch

\* Every step is a step of Feed or none.
LEMMA FeedStep ==
  ASSUME OrderInv, EntityInv, StreamInv, [Next]_vars
  PROVE  [F!Next]_(F!vars)
<1>1. TypeInv /\ PipeInv
  BY DEF OrderInv
<1>2. CASE WaitData \/ SpinFrame
  <2>1. pc \in {"wait", "spin"} /\ toClient # <<>>
    BY <1>2 DEF WaitData, SpinFrame, Read
  <2>2. open
    BY <1>1, <2>1 DEF PipeInv, Connecting, TypeInv, CallFits, Creates
  <2>3. CASE Frame.type = "DATA"
    <3>1. Dispatch(Frame)
      BY <1>2, <2>3 DEF WaitData, SpinFrame
    <3> QED BY <1>1, <2>1, <2>2, <2>3, <3>1, DispatchFeeds
  <2>4. CASE Frame.type # "DATA"
    BY <1>2, <2>4 DEF WaitData, SpinFrame, slotVars, F!vars
  <2> QED BY <2>3, <2>4
<1>3. CASE SubscriptionReady
  <2>1. SetDrId(call.slot, call.msg.oid, call.topic) /\ call.op = "subscription"
    BY <1>3 DEF SubscriptionReady, Granted
  <2>2. call.slot \in Slot /\ call.topic \in Topic
    BY <1>1, <2>1 DEF TypeInv, CallFits
  <2>3. F!Register(call.slot)
    BY <2>1, <2>2 DEF SetDrId, F!Register
  <2> QED BY <2>2, <2>3 DEF F!Next
<1>4. CASE Receive
  <2>1. PICK s \in Slot : Recv(s)
    BY <1>4 DEF Receive
  <2>2. F!Take(s)
    BY <2>1 DEF Recv, F!Take
  <2> QED BY <2>2 DEF F!Next
<1>5. CASE Start
  BY <1>5 DEF Start, Connect, CreateNode, CreatePublisher, CreateSubscription, CreateTopic,
              RefuseSubscription, RefuseName, Publish, Spin, slotVars, F!vars
<1>6. CASE \/ WriteFrame \/ TransportFails \/ HandshakeOk \/ HandshakeFails
           \/ WaitSkips \/ WaitTooShort \/ WaitMismatch \/ WaitRejected
           \/ NodeGoesOn \/ NodeReady \/ PublisherGoesOn \/ PublisherReady
           \/ SubscriptionGoesOn \/ SubscriptionReads
  BY <1>6 DEF WriteFrame, TransportFails, GiveUp, HandshakeOk, HandshakeFails, WaitSkips,
              WaitTooShort, WaitMismatch, WaitRejected, NodeGoesOn, NodeReady, PublisherGoesOn,
              PublisherReady, SubscriptionGoesOn, SubscriptionReads, slotVars, F!vars
<1>7. CASE Interrupted \/ LinkFails \/ AgentServes \/ AgentReplies \/ AgentSends \/ UNCHANGED vars
  BY <1>7 DEF Interrupted, DropCall, TransportErrs, EncodeFails, GiveUp, LinkFails, AgentServes,
              AgentReplies, AgentSends, clientVars, vars, slotVars, F!vars
<1> QED BY <1>2, <1>3, <1>4, <1>5, <1>6, <1>7 DEF Next, Progress

\* FeedSpec, for every session within OneLife: whatever a task receives from a
\* slot is a sample of the topic it was last registered for, newer than the one
\* before, over reconnections and with readers the agent has kept.
THEOREM SessionFeedsSlots ==
  ASSUME OneLife
  PROVE  Spec => FeedSpec
<1>1. Init => F!Init
  BY DEF Init, SubscriptionInit, F!Init
<1>2. OrderInv /\ EntityInv /\ StreamInv /\ [Next]_vars => [F!Next]_(F!vars)
  BY FeedStep
<1> QED BY <1>1, <1>2, StreamInvariant, PTL DEF Spec, FeedSpec, F!Spec

=============================================================================
