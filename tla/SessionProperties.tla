------------------------- MODULE SessionProperties -------------------------
(***************************************************************************)
(* What the session, the slots and the agent together must keep true.      *)
(***************************************************************************)
EXTENDS Session, FiniteSets

Creates == {"node", "publisher", "subscription"}

\* The request req is on its way to the agent, or its STATUS to the client.
Outstanding(req) ==
  \/ \E m \in Range(toAgent) : m.type \in {"CREATE", "READ_DATA"} /\ m.req = req
  \/ \E m \in Range(owed) \cup Range(toClient) : m.type = "STATUS" /\ m.req = req

-----------------------------------------------------------------------------
(* Handles and entities. *)

NodesBacked ==
  \A node \in nodes :
    \A oid \in {ParticipantOf(node), PublisherOf(node), SubscriberOf(node)} :
      objs[oid] # Absent

PublishersBacked == \A pub \in pubs : objs[pub.oid] = pub.topic

SubscriptionsBacked ==
  \A s \in Range(table) : drId[s] \in reading /\ objs[drId[s]] = bound[s]

\* Whatever a create method has returned Ok for exists on the agent, for the
\* topic it was asked for, and a registered subscription's reader streams:
\* although calls are dropped and refused midway, and the STATUS of an
\* abandoned request arrives in a later call (session.rs create_node,
\* create_publisher, create_subscription, parse_status_payload).
HandlesBacked ==
  open => NodesBacked /\ PublishersBacked /\ SubscriptionsBacked

\* A sample is served by a DataWriter of the type it was serialized as: the
\* object id in a Publisher (publish, publisher.rs) never comes to name the
\* writer of another topic between the write and the agent's serving it.
WritesOnTopic ==
  toAgent # <<>> /\ Head(toAgent).type = "WRITE_DATA" =>
    objs[Head(toAgent).oid] = Head(toAgent).topic

\* Two slots of the dispatch table are never registered under one reader, so
\* the first match that dispatch_data_payload returns at is the only one.
RoutesDistinct ==
  \A s, t \in Range(table) : drId[s] = drId[t] => s = t

\* create_subscription checks the table before its first request and pushes
\* after its last reply, three awaits later: the room it saw is still there.
RoomForPush ==
  call.op = "subscription" => Len(table) < MaxSubscriptions

-----------------------------------------------------------------------------
(* Requests and their STATUS replies. *)

\* A create method that returns Ok leaves the connection in step: no request
\* of this call or of a call dropped before it is still to be answered, so the
\* next call starts with a clean pipeline (wait_status_for).
OkLeavesInStep ==
  [][call.op \in Creates /\ pc' = "idle" /\ result' = "ok"
       => \A req \in ReqId : ~Outstanding(req)']_vars

\* wait_status_for does not give up while the STATUS it waits for is still on
\* its way, unless the call is dropped or the transport fails.
WaitsForItsStatus ==
  [][pc = "wait" /\ pc' = "idle" /\ result' \notin {"dropped", "Io", "Disconnected"}
       => \A req \in ReqId : req = call.msg.req => ~Outstanding(req)']_vars

-----------------------------------------------------------------------------
(* Samples. *)

\* What a task that receives from a slot sees is what Feed promises, over
\* every order of registrations, deliveries, receives and reconnections.
F == INSTANCE Feed WITH Position <- 1 .. MaxSent
FeedSpec == F!Spec

Consumes(data) ==
  /\ pc \in {"wait", "spin"}
  /\ toClient # <<>> /\ toClient' = Tail(toClient)
  /\ data = Frame /\ data.type = "DATA" /\ data.good

\* A sample read in any call, spin or wait for a STATUS, reaches the slot
\* registered under its reader if that has room, and no other slot.
SamplesRouted ==
  [][\A data \in Range(toClient) : Consumes(data) =>
       \A s \in Slot :
         (inbox'[s] # inbox[s])
            <=> (s \in Range(table) /\ drId[s] = data.oid /\ Len(inbox[s]) < Depth)]_vars

\* A sample of the reader a subscription call is starting, read while the call
\* waits for the STATUS of READ_DATA, is delivered to the call's slot.
EarlySampleDelivered ==
  [][\A data \in Range(toClient) :
       /\ Consumes(data)
       /\ call.msg.type = "READ_DATA" /\ data.oid = call.msg.oid
       /\ Len(inbox[call.slot]) < Depth
       => inbox'[call.slot] # inbox[call.slot]]_vars

-----------------------------------------------------------------------------
(* Progress. *)

\* A call that writes a request returns: the executor polls it, the agent
\* serves and answers, and no frame is waited for that nobody owes.
CallReturns == pc \in {"write", "handshake", "wait"} ~> pc = "idle"

\* spin alone puts a connection that is out of step back in step: the STATUS
\* replies that dropped calls left behind are read and discarded.
SpinDrains ==
  call.op = "spin" ~> (call.op # "spin" \/ \A req \in ReqId : ~Outstanding(req))

=============================================================================
