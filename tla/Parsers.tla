------------------------------- MODULE Parsers -------------------------------
(***************************************************************************)
(* The frames a session receives, byte by byte (src/session.rs): how       *)
(* connect, wait_status_for and spin_once read a frame that is in a        *)
(* receive buffer.  The buffer is longer than the frame, and that of a     *)
(* session keeps what earlier frames left in it.                           *)
(*                                                                         *)
(* A frame is made by an agent (external): a header, submessages, and      *)
(* possibly less of them than their lengths say.                           *)
(***************************************************************************)
EXTENDS Bytes

CONSTANTS
  SessionId,   \* session ids
  Frame,       \* frames an agent may send: see Submessage, and cut
  Readers,     \* the dr_id of the slots in the dispatch table
  Expected,    \* request ids a call waits for
  RxLen,       \* RX_BUF_SIZE
  ConnectLen,  \* the length of the buffer connect reads into
  MaxFrames    \* bound: frames received

\* What an agent may put into a submessage: its ids are two bytes each, and so
\* is the length of its payload.
Sub ==
  [id: {4, 5, 9, 11}, req: Short, oid: Short, status: Byte,
   user: {user \in Seq(Byte) : 4 + Len(user) \in Short}]

ASSUME ParsersAssumption ==
  /\ \A f \in Frame : f.subs \in Seq(Sub) /\ f.subs # <<>> /\ f.cut \in Nat
  /\ SessionId \subseteq Byte
  /\ Readers \subseteq Short
  /\ Expected \subseteq Short
  /\ RxLen \in Nat
  /\ ConnectLen \in Nat
  /\ MaxFrames \in Nat

VARIABLES
  sid,         \* session_id
  rx, len,     \* the buffer and the length of the frame in it
  mode,        \* the caller: "connect", "wait" or "spin"
  expected,    \* expected_req
  outcome,     \* how the caller took the frame, "none" while it has not
  frame,       \* history: the frame as the agent meant it
  frames       \* history: how many frames have been received

vars == <<sid, rx, len, mode, expected, outcome, frame, frames>>

SubmsgStatusAgent == 4
SubmsgStatus == 5
SubmsgData == 9
SubmsgHeartbeat == 11

StatusOk == 0
StatusOkMatched == 1

-----------------------------------------------------------------------------
(* The agent's side. *)

\* A submessage; req, oid and status where its kind has them.
Submessage(id, req, oid, status, user) ==
  [id |-> id, req |-> req, oid |-> oid, status |-> status, user |-> user]

PayloadOf(sub) ==
  CASE sub.id = SubmsgStatusAgent -> <<sub.status, 0, 0, 0>>
    [] sub.id = SubmsgStatus      -> Be16(sub.req) \o Be16(sub.oid) \o <<sub.status, 0>>
    [] sub.id = SubmsgData        -> Be16(sub.req) \o Be16(sub.oid) \o sub.user
    [] sub.id = SubmsgHeartbeat   -> <<0, 0, 0, 0, 128>>

\* Every submessage but the last is padded to four bytes.
BytesOf(subs) ==
  LET bytes[n \in 0 .. Len(subs)] ==
        IF n = 0 THEN <<>>
        ELSE LET before == bytes[n - 1]
                 p      == PayloadOf(subs[n])
             IN  before \o [i \in 1 .. Padding(Len(before), 4) |-> 0]
                   \o <<subs[n].id, 1>> \o Le16(Len(p)) \o p
  IN  bytes[Len(subs)]

FrameHeader == IF sid < 128 THEN <<sid, 1, 0, 0, 9, 9, 9, 9>> ELSE <<sid, 1, 0, 0>>

\* The bytes of f, the last f.cut of them missing.
Sent(f) ==
  LET whole == FrameHeader \o BytesOf(f.subs)
  IN  SubSeq(whole, 1, Len(whole) - f.cut)

-----------------------------------------------------------------------------
(* Outcomes. *)

Outcome(res, arg, user) == [res |-> res, arg |-> arg, user |-> user]

None               == Outcome("none", 0, <<>>)
Ok                 == Outcome("Ok", 0, <<>>)
UnexpectedReply    == Outcome("UnexpectedReply", 0, <<>>)
StatusReqMismatch  == Outcome("StatusReqMismatch", 0, <<>>)
AgentRejected(s)   == Outcome("AgentRejected", s, <<>>)
Delivered(oid, user) == Outcome("delivered", oid, user)
Dropped            == Outcome("dropped", 0, <<>>)

\* connect has a buffer of its own, and the session it makes an empty rx_buf.
BufLen(caller) == IF caller = "connect" THEN ConnectLen ELSE RxLen

Fresh(caller) == [i \in 1 .. BufLen(caller) |-> 0]

ParserTypeOK ==
  /\ sid \in SessionId
  /\ rx \in [1 .. BufLen(mode) -> Byte] /\ len \in 0 .. BufLen(mode)
  /\ mode \in {"connect", "wait", "spin"}
  /\ expected \in Expected
  /\ outcome.user \in Seq(Byte)
  /\ frames \in 0 .. MaxFrames

Init ==
  /\ sid \in SessionId
  /\ rx = Fresh("connect") /\ len = 0
  /\ mode = "connect" /\ expected \in Expected
  /\ outcome = Ok
  /\ frame = [subs |-> <<>>, cut |-> 0]
  /\ frames = 0

-----------------------------------------------------------------------------
\* What is in the buffer before the frame.
Before(caller) == IF "connect" \in {mode, caller} THEN Fresh(caller) ELSE rx

\* Mutant: a frame longer than the buffer is not refused.
ReceiveUnchecked(f, caller) ==
  /\ outcome # None
  /\ frames < MaxFrames
  /\ LET bytes == Sent(f)
     IN  /\ rx' = bytes \o SubSeq(Before(caller), Len(bytes) + 1, BufLen(caller))
         /\ len' = Len(bytes)
  /\ mode' = caller
  /\ frame' = f
  /\ outcome' = None
  /\ frames' = frames + 1
  /\ UNCHANGED <<sid, expected>>

\* A frame is read into the buffer for some caller (read_one_frame; Framing has
\* its bytes one by one, and what becomes of one that does not fit).
Receive(f, caller) ==
  /\ outcome # None
  /\ frames < MaxFrames
  /\ LET bytes == Sent(f)
     IN  /\ Len(bytes) <= BufLen(caller)
         /\ rx' = bytes \o SubSeq(Before(caller), Len(bytes) + 1, BufLen(caller))
         /\ len' = Len(bytes)
  /\ mode' = caller
  /\ frame' = f
  /\ outcome' = None
  /\ frames' = frames + 1
  /\ UNCHANGED <<sid, expected>>

Reading(callers) == outcome = None /\ mode \in callers

Take(o) == outcome' = o /\ UNCHANGED <<sid, rx, len, mode, expected, frame, frames>>

\* msg_header_len.
HdrLen == IF sid < 128 THEN 8 ELSE 4

SubmsgId == rx[HdrLen + 1]

SubmsgLen == FromLe16(<<rx[HdrLen + 3], rx[HdrLen + 4]>>)

\* Mutant: the length of the submessage is not looked at.
PayloadToTheEnd == SubSeq(rx, HdrLen + 5, len)

\* Mutant: the length of the submessage is trusted.
PayloadUncapped == SubSeq(rx, HdrLen + 5, HdrLen + 4 + SubmsgLen)

\* msg[hdr_len + 4..payload_end].
Payload == SubSeq(rx, HdrLen + 5, HdrLen + 4 + Least(SubmsgLen, len - HdrLen - 4))

\* Room for the headers, and in connect for a status.
Long == len >= HdrLen + 4

-----------------------------------------------------------------------------
(* connect: parse_status_agent, which takes all of the frame for the       *)
(* payload.                                                                *)

ConnectLong == len >= HdrLen + 4 + 2

HandshakeFails ==
  /\ Reading({"connect"})
  /\ ~ConnectLong \/ SubmsgId # SubmsgStatusAgent
  /\ Take(UnexpectedReply)

Handshake ==
  /\ Reading({"connect"})
  /\ ConnectLong
  /\ SubmsgId = SubmsgStatusAgent
  /\ LET status == rx[HdrLen + 5]
     IN  Take(IF status = StatusOk THEN Ok ELSE AgentRejected(status))

-----------------------------------------------------------------------------
(* wait_status_for, and dispatch_frame for spin_once. *)

TooShort ==
  /\ ~Long
  /\ \/ Reading({"wait"}) /\ Take(UnexpectedReply)
     \/ Reading({"spin"}) /\ Take(Dropped)

GotReq == FromBe16(SubSeq(Payload, 1, 2))

StatusLong == Len(Payload) >= 6

\* parse_status_payload.
StatusFor ==
  IF ~StatusLong THEN UnexpectedReply
  ELSE IF GotReq # expected THEN StatusReqMismatch
  ELSE IF Payload[5] \notin {StatusOk, StatusOkMatched} THEN AgentRejected(Payload[5])
  ELSE Ok

TakeStatus ==
  /\ Reading({"wait"})
  /\ Long
  /\ SubmsgId = SubmsgStatus
  /\ Take(StatusFor)

DrOid == FromBe16(SubSeq(Payload, 3, 4))

UserData == SubSeq(Payload, 5, Len(Payload))

\* dispatch_data_payload.
Dispatch ==
  /\ Reading({"wait", "spin"})
  /\ Long
  /\ SubmsgId = SubmsgData
  /\ IF Len(Payload) >= 4 /\ DrOid \in Readers
     THEN Take(Delivered(DrOid, UserData))
     ELSE Take(Dropped)

\* Everything else is dropped: by spin a STATUS too.
Ignore ==
  /\ Long
  /\ SubmsgId # SubmsgData
  /\ Reading({"spin"}) \/ (Reading({"wait"}) /\ SubmsgId # SubmsgStatus)
  /\ Take(Dropped)

Next ==
  \/ \E f \in Frame, caller \in {"connect", "wait", "spin"} : Receive(f, caller)
  \/ HandshakeFails \/ Handshake \/ TooShort \/ TakeStatus \/ Dispatch \/ Ignore

Spec == Init /\ [][Next]_vars

=============================================================================
