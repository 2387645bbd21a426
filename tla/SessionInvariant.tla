-------------------------- MODULE SessionInvariant --------------------------
(***************************************************************************)
(* The inductive invariants from which the session's properties follow.    *)
(*                                                                         *)
(* TypeInv says what call is suspended where.  CountersInv bounds the      *)
(* counters by the calls made, so that under NoAliasing and NoWrap no      *)
(* object id and no request id is ever given twice in a session.  PipeInv  *)
(* says that requests and replies stay in the order of their request ids   *)
(* on their way around the connection; EntityInv that no CREATE on its way *)
(* names an entity some handle, or the call in progress, relies on;        *)
(* StreamInv that what a slot is still to be given is of its topic and     *)
(* newer than what it has been given.                                      *)
(***************************************************************************)
EXTENDS SessionProperties

-----------------------------------------------------------------------------
(* What the proofs assume of a session's life. *)

\* The indices of one kind stay below the 12 bits an ObjectId has for them.
NoAliasing == MaxNodes < IdxSpan /\ MaxEndpoints < IdxSpan

\* Fewer requests are made than there are request ids: three for a node or a
\* subscription, two for a publisher.
NoWrap == 3 * (MaxNodes + MaxEndpoints) + 1 < ReqSpan

OneLife == NoAliasing /\ NoWrap /\ ~KeepsHandles

-----------------------------------------------------------------------------
(* The call in progress. *)

CallFits ==
  /\ pc = "idle" <=> call.op = "none"
  /\ pc = "spin" <=> call.op \in {"spin_once", "spin"}
  /\ pc = "handshake" => call.op = "connect"
  /\ pc = "wait" => call.op \in Creates
  /\ call.op = "connect" => call.msg = CreateClient
  /\ call.op = "publish" => call.msg.type = "WRITE_DATA" /\ call.msg \in ClientMsg
  /\ call.op \in Creates => call.msg \in EntityRequest
  /\ call.op \in {"publisher", "subscription"} => call.topic \in Topic
  /\ call.op = "subscription" => call.slot \in Slot

TypeInv == TypeOK /\ CallFits

\* Room in the dispatch table: see RoomForPush.
RoomInv ==
  /\ Len(table) <= MaxSubscriptions
  /\ RoomForPush

-----------------------------------------------------------------------------
(* The counters. *)

\* Requests the call in progress may still make.
Left == IF call.op \in Creates THEN 3 - call.step ELSE 0

\* An endpoint whose topic is created, but whose writer or reader is not.
HalfMade == IF call.op \in {"publisher", "subscription"} /\ call.step = 1 THEN 1 ELSE 0

CountersInv ==
  /\ nextIdx["PARTICIPANT"] \in 1 .. MaxNodes + 1
  /\ nextIdx["PUBLISHER"] = nextIdx["PARTICIPANT"]
  /\ nextIdx["SUBSCRIBER"] = nextIdx["PARTICIPANT"]
  /\ nextIdx["TOPIC"] \in 1 .. MaxEndpoints + 1
  /\ nextIdx["DATAWRITER"] >= 1 /\ nextIdx["DATAREADER"] >= 1
  /\ nextIdx["DATAWRITER"] + nextIdx["DATAREADER"] + HalfMade <= nextIdx["TOPIC"] + 1
  /\ reqId + Left <= 1 + 3 * (nextIdx["PARTICIPANT"] - 1) + 3 * (nextIdx["TOPIC"] - 1)
  /\ call.op \in Creates => call.step \in 1 .. 3

-----------------------------------------------------------------------------
(* The connection. *)

Requests == {m \in Range(toAgent) : m.type \in {"CREATE", "READ_DATA"}}
Statuses == {m \in Range(owed) \cup Range(toClient) : m.type = "STATUS"}

\* The messages of these types in a queue carry increasing request ids.
Increasing(q, types) ==
  \A i, j \in DOMAIN q :
    i < j /\ q[i].type \in types /\ q[j].type \in types => q[i].req < q[j].req

Handshaken ==
  \E m \in Range(owed) \cup Range(toClient) : m.type = "STATUS_AGENT"

\* Until connect returns Ok there is nothing of a session on the connection
\* but its CREATE_CLIENT or, after that, the reply.
Connecting ==
  /\ call.op \in {"none", "connect"}
  /\ nodes = {} /\ pubs = {}
  /\ toAgent \in {<<>>, <<CreateClient>>}
  /\ Statuses = {}
  /\ Handshaken => toAgent = <<>>
  /\ pc = "write" => toAgent = <<>> /\ ~Handshaken

\* Requests and replies go around in the order of their ids.
QueuesInOrder ==
  /\ CreateClient \notin Range(toAgent)
  /\ Increasing(toAgent, {"CREATE", "READ_DATA"})
  /\ Increasing(owed, {"STATUS"})
  /\ Increasing(toClient, {"STATUS"})
  /\ \A m \in Requests \cup Statuses : m.req < reqId
  /\ \A s \in Statuses, m \in Requests : s.req < m.req
  /\ \A s \in Range(toClient), t \in Range(owed) :
       s.type = "STATUS" /\ t.type = "STATUS" => s.req < t.req

\* The request of the call in progress is the last: when its STATUS has been
\* read there is no other on the connection.
CallInOrder ==
  /\ call.op # "connect"
  /\ call.op \in Creates => call.msg.req + 1 = reqId
  /\ pc = "write" /\ call.op \in Creates =>
       \A m \in Requests \cup Statuses : m.req < call.msg.req
  /\ pc = "wait" => \A m \in Requests : m.req = call.msg.req => m = call.msg

PipeInv == IF open THEN QueuesInOrder /\ CallInOrder ELSE Connecting

-----------------------------------------------------------------------------
(* The entities. *)

NodeOidsOf(node) == {ParticipantOf(node), PublisherOf(node), SubscriberOf(node)}

\* A node's three entities have one index, given to no other node.
NodeIndexed(node) ==
  /\ node.participant \in 1 .. nextIdx["PARTICIPANT"] - 1
  /\ node.publisher = node.participant /\ node.subscriber = node.participant

\* What the steps so far of the call in progress have created.
Made ==
  CASE call.op = "node" /\ call.step = 2 -> {ParticipantOf(call.node)}
    [] call.op = "node" /\ call.step = 3 -> {ParticipantOf(call.node), PublisherOf(call.node)}
    [] call.op = "subscription" /\ call.step = 3 -> {call.msg.oid}
    [] OTHER -> {}

NodesOwned == UNION {NodeOidsOf(node) : node \in nodes}
PubsOwned  == {pub.oid : pub \in pubs}
TableOwned == {drId[s] : s \in Range(table)}

Owned == NodesOwned \cup PubsOwned \cup TableOwned \cup Made

IssuedOid(oid) == oid[2] < nextIdx[oid[1]]

\* No CREATE on its way, nor the one the call is about to write, is for it.
Settled(oid) ==
  /\ \A m \in Range(toAgent) : m.type = "CREATE" => m.oid # oid
  /\ call.msg.type = "CREATE" => call.msg.oid # oid

\* What the agent has done when it has answered the call's request with OK.
Served ==
  IF call.msg.type = "CREATE"
  THEN objs[call.msg.oid] = call.msg.topic
  ELSE call.msg.oid \in reading

\* The message of a call and the call's arguments.
MsgFits ==
  /\ call.op = "node" =>
       /\ NodeIndexed(call.node)
       /\ \A node \in nodes : node.participant # call.node.participant
       /\ call.msg.type = "CREATE"
       /\ call.step = 1 => call.msg.oid = ParticipantOf(call.node)
       /\ call.step = 2 => call.msg.oid = PublisherOf(call.node)
       /\ call.step = 3 => call.msg.oid = SubscriberOf(call.node)
  /\ call.op = "publisher" /\ call.step = 2 =>
       call.msg.type = "CREATE" /\ call.msg.topic = call.topic
         /\ call.msg.oid[1] = "DATAWRITER"
  /\ call.op \in {"publisher", "subscription"} /\ call.step = 1 =>
       call.msg.type = "CREATE" /\ call.msg.oid[1] = "TOPIC"
  /\ call.op = "subscription" /\ call.step = 2 =>
       call.msg.type = "CREATE" /\ call.msg.topic = call.topic
         /\ call.msg.oid[1] = "DATAREADER"
  /\ call.op = "subscription" /\ call.step = 3 =>
       /\ call.msg.type = "READ_DATA" /\ call.msg.oid[1] = "DATAREADER"
       /\ objs[call.msg.oid] = call.topic
       /\ \A s \in Range(table) : drId[s] # call.msg.oid
  /\ call.op = "publish" => [oid |-> call.msg.oid, topic |-> call.msg.topic] \in pubs
  /\ call.op \in Creates => IssuedOid(call.msg.oid)

\* Publishers name writers, and slots of the table readers.
OidsFit ==
  /\ \A pub \in pubs : pub.oid[1] = "DATAWRITER"
  /\ \A s \in Range(table) : drId[s][1] = "DATAREADER"

\* A sample on its way is for the writer of a Publisher handle.
WritesPending ==
  \A m \in Range(toAgent) :
    m.type = "WRITE_DATA" => [oid |-> m.oid, topic |-> m.topic] \in pubs

EntityInv ==
  /\ RoutesDistinct
  /\ HandlesBacked
  /\ open =>
       /\ \A node \in nodes : NodeIndexed(node)
       /\ OidsFit
       /\ \A oid \in Owned : IssuedOid(oid) /\ Settled(oid)
       /\ \A oid \in Made : objs[oid] # Absent
       /\ MsgFits
       /\ pc = "wait" /\ Status(call.msg.req, TRUE) \in Statuses => Served
       /\ WritesPending

-----------------------------------------------------------------------------
(* The samples. *)

SampleAt(i, oid) == toClient[i].type = "DATA" /\ toClient[i].oid = oid

\* The samples of a reader that are on their way, after the first k frames, are
\* of its topic and in the order in which it has streamed them.
InStream(oid, k) ==
  \A i \in DOMAIN toClient : i > k /\ SampleAt(i, oid) =>
    /\ toClient[i].topic = objs[oid]
    /\ toClient[i].n \in 1 .. sent[oid]
    /\ \A j \in DOMAIN toClient : j > i /\ SampleAt(j, oid) => toClient[i].n < toClient[j].n

\* A slot has been given what its reader streamed up to last.
SlotInStream(s) ==
  /\ InStream(drId[s], 0)
  /\ last[s] <= sent[drId[s]]
  /\ \A i \in DOMAIN toClient : SampleAt(i, drId[s]) => last[s] < toClient[i].n

\* The reader a subscription call has had created; samples of an entity that
\* had its id before, kept by the agent from an earlier session, come out
\* before the STATUS of its CREATE.
CallInStream ==
  call.op = "subscription" =>
    /\ call.step = 3 => InStream(call.msg.oid, 0)
    /\ call.step = 2 /\ pc = "wait" =>
         \A k \in DOMAIN toClient :
           toClient[k] = Status(call.msg.req, TRUE) => InStream(call.msg.oid, k)

SlotsInStream == \A s \in Range(table) : SlotInStream(s)

StreamInv ==
  /\ \A oid \in Oid : sent[oid] <= MaxSent
  /\ open => SlotsInStream /\ CallInStream

SessionInv == RoomInv /\ CountersInv /\ PipeInv /\ EntityInv /\ StreamInv

=============================================================================
