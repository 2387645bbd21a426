------------------------------- MODULE Agent -------------------------------
(***************************************************************************)
(* The micro-ROS agent and the TCP connection to it: external, modelled by *)
(* what src/session.rs and src/protocol.rs expect of it.  The two          *)
(* directions of the connection are FIFO.  The agent serves requests in    *)
(* order and answers each CREATE and READ_DATA with one STATUS; between    *)
(* serving a request and sending its STATUS it may send DATA.              *)
(***************************************************************************)
EXTENDS XrceProtocol

CONSTANTS
  Absent,      \* the state of an object id that names no entity
  MaxSent,     \* bound: samples a reader streams
  MaxFlight,   \* bound: frames on their way to the agent, and to the client
               \* when the agent sends one nobody asked for
  Goodness,    \* whether samples may fail to deserialize: {TRUE} or BOOLEAN
  Noise        \* the unsolicited frames the agent may send

ASSUME AgentAssumption ==
  /\ Absent \notin Topic \cup {NoTopic}
  /\ MaxSent \in Nat
  /\ MaxFlight \in Nat \ {0}
  /\ Goodness \subseteq BOOLEAN
  /\ Noise \subseteq {"OTHER", "SHORT"}

VARIABLES
  toAgent,     \* frames written by the client and not yet served
  toClient,    \* frames sent by the agent and not yet read
  owed,        \* replies the agent has still to send
  objs,        \* objs[oid]: the topic of entity oid, NoTopic, or Absent
  reading,     \* the DataReaders that stream
  sent         \* sent[oid]: samples DataReader oid has streamed

channelVars == <<toAgent, toClient, owed>>
entityVars  == <<objs, reading, sent>>
agentVars   == <<toAgent, toClient, owed, objs, reading, sent>>

AgentTypeOK ==
  /\ toAgent \in Seq(ClientMsg)
  /\ toClient \in Seq(AgentMsg)
  /\ owed \in Seq(Reply)
  /\ objs \in [Oid -> Topic \cup {NoTopic, Absent}]
  /\ reading \subseteq {oid \in Oid : objs[oid] \in Topic}
  /\ sent \in [Oid -> Nat]

NoEntities ==
  /\ objs' = [oid \in Oid |-> Absent]
  /\ reading' = {}
  /\ sent' = [oid \in Oid |-> 0]

AgentInit ==
  /\ toAgent = <<>>
  /\ toClient = <<>>
  /\ owed = <<>>
  /\ objs = [oid \in Oid |-> Absent]
  /\ reading = {}
  /\ sent = [oid \in Oid |-> 0]

-----------------------------------------------------------------------------
(* Serving the request at the head of the connection. *)

Serving(type) == toAgent # <<>> /\ Head(toAgent).type = type

Answer(reply) ==
  /\ toAgent' = Tail(toAgent)
  /\ owed' = Append(owed, reply)
  /\ UNCHANGED toClient

\* A client that is already known may find its entities kept, or forgotten.
ServeClient ==
  /\ Serving("CREATE_CLIENT")
  /\ Answer(StatusAgent(TRUE))
  /\ UNCHANGED entityVars \/ NoEntities

\* FLAGS_CREATE asks to reuse an entity that exists and to replace one that
\* does not match; a replaced reader no longer streams.
ServeCreate ==
  LET m == Head(toAgent)
  IN  /\ Serving("CREATE")
      /\ m.oid[1] = "PARTICIPANT" \/ objs[m.parent] # Absent
      /\ Answer(Status(m.req, TRUE))
      /\ IF objs[m.oid] = m.topic
         THEN UNCHANGED entityVars
         ELSE /\ objs' = [objs EXCEPT ![m.oid] = m.topic]
              /\ reading' = reading \ {m.oid}
              /\ sent' = [sent EXCEPT ![m.oid] = 0]

ServeReadData ==
  LET m == Head(toAgent)
  IN  /\ Serving("READ_DATA")
      /\ objs[m.oid] \in Topic
      /\ Answer(Status(m.req, TRUE))
      /\ reading' = reading \cup {m.oid}
      /\ UNCHANGED <<objs, sent>>

\* WRITE_DATA is best effort: it gets no reply.
ServeWriteData ==
  /\ Serving("WRITE_DATA")
  /\ toAgent' = Tail(toAgent)
  /\ UNCHANGED <<toClient, owed, entityVars>>

\* The agent may turn down any request, with a status other than OK.
Refuse ==
  /\ \/ Serving("CREATE_CLIENT") /\ Answer(StatusAgent(FALSE))
     \/ /\ Serving("CREATE") \/ Serving("READ_DATA")
        /\ Answer(Status(Head(toAgent).req, FALSE))
  /\ UNCHANGED entityVars

Serve == ServeClient \/ ServeCreate \/ ServeReadData \/ ServeWriteData \/ Refuse

-----------------------------------------------------------------------------
(* Sending to the client. *)

SendReply ==
  /\ owed # <<>>
  /\ toClient' = Append(toClient, Head(owed))
  /\ owed' = Tail(owed)
  /\ UNCHANGED <<toAgent, entityVars>>

Stream(oid) ==
  /\ oid \in reading
  /\ sent[oid] < MaxSent
  /\ Len(toClient) < MaxFlight
  /\ sent' = [sent EXCEPT ![oid] = @ + 1]
  /\ \E good \in Goodness :
       toClient' = Append(toClient, Data(oid, objs[oid], sent[oid] + 1, good))
  /\ UNCHANGED <<toAgent, owed, objs, reading>>

SendNoise ==
  /\ Len(toClient) < MaxFlight
  /\ \E type \in Noise : toClient' = Append(toClient, [type |-> type])
  /\ UNCHANGED <<toAgent, owed, entityVars>>

=============================================================================
