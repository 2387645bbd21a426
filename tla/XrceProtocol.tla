---------------------------- MODULE XrceProtocol ----------------------------
(***************************************************************************)
(* The vocabulary of the XRCE-DDS wire protocol as this client speaks it:  *)
(* object kinds, object and request identifiers, and the submessages the   *)
(* client and the agent exchange.  A frame carries one submessage; the     *)
(* representation of its bytes (header, endianness, XML text) is left out. *)
(***************************************************************************)
EXTENDS Naturals, Sequences

CONSTANTS
  Topic,     \* DDS topics; a topic also stands for the message type on it
  NoTopic,   \* what an entity without a topic of its own carries
  IdxSpan,   \* object indices that an ObjectId can tell apart (4096: 12 bits)
  ReqSpan    \* values of a u16 request id (65536)

ASSUME ProtocolAssumption ==
  /\ NoTopic \notin Topic
  /\ IdxSpan \in Nat \ {0}
  /\ ReqSpan \in Nat \ {0, 1}

-----------------------------------------------------------------------------
(* Identifiers. *)

Kind == {"PARTICIPANT", "TOPIC", "PUBLISHER", "SUBSCRIBER",
         "DATAWRITER", "DATAREADER"}

Oid == Kind \X (0 .. IdxSpan - 1)

\* dr_id = 0 of a slot never registered: no object kind is 0.
NoOid == <<"INVALID", 0>>

\* object_id: (idx << 4) | kind in 16 bits keeps the low 12 bits of the index.
ObjectId(idx, kind) == <<kind, idx % IdxSpan>>

ReqId == 1 .. ReqSpan - 1

\* Mutant: a request id wraps to 0.
NextReqIdZero(r) == (r + 1) % ReqSpan

\* next_req: wrapping_add(1).max(1), so that 0 is never a request id.
NextReqId(r) == IF r + 1 = ReqSpan THEN 1 ELSE r + 1

-----------------------------------------------------------------------------
(* Submessages.  The topic of a CREATE stands for its XML; the topic of a  *)
(* WRITE_DATA and of a DATA is the message type its payload was made for.  *)

CreateClient == [type |-> "CREATE_CLIENT"]
NoMsg        == [type |-> "NONE"]

CreateMsg(req, oid, parent, topic) ==
  [type |-> "CREATE", req |-> req, oid |-> oid, parent |-> parent, topic |-> topic]

ReadDataMsg(req, oid) == [type |-> "READ_DATA", req |-> req, oid |-> oid]

WriteDataMsg(oid, topic) == [type |-> "WRITE_DATA", oid |-> oid, topic |-> topic]

EntityRequest ==
  [type: {"CREATE"}, req: ReqId, oid: Oid, parent: Oid, topic: Topic \cup {NoTopic}]
    \cup [type: {"READ_DATA"}, req: ReqId, oid: Oid]

ClientMsg ==
  {CreateClient} \cup EntityRequest \cup [type: {"WRITE_DATA"}, oid: Oid, topic: Topic]

StatusAgent(ok) == [type |-> "STATUS_AGENT", ok |-> ok]
Status(req, ok) == [type |-> "STATUS", req |-> req, ok |-> ok]

\* n numbers the samples one reader has streamed; a sample that is not good
\* does not deserialize as the message type of its topic.
Data(oid, topic, n, good) ==
  [type |-> "DATA", oid |-> oid, topic |-> topic, n |-> n, good |-> good]

Reply == [type: {"STATUS_AGENT"}, ok: BOOLEAN]
           \cup [type: {"STATUS"}, req: ReqId, ok: BOOLEAN]

\* OTHER: a submessage the client does not know (HEARTBEAT, INFO...);
\* SHORT: a frame too short for the headers, or a STATUS too short for a status.
AgentMsg == Reply \cup [type: {"OTHER", "SHORT"}]
              \cup [type: {"DATA"}, oid: Oid, topic: Topic, n: Nat, good: BOOLEAN]

=============================================================================
