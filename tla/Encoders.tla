------------------------------ MODULE Encoders ------------------------------
(***************************************************************************)
(* The messages a session sends, byte by byte (src/session.rs): the XML    *)
(* text of the create methods, the encoders, each as the calls it makes of *)
(* MsgWriter, and MsgWriter itself, one call a step.                       *)
(*                                                                         *)
(* Text is bytes that no property looks into: the literal parts of an XML  *)
(* document are so many bytes each.                                        *)
(***************************************************************************)
EXTENDS Bytes

CONSTANTS
  Build,       \* sizes to build with, and what to send, records of
               \*   tx        TX_BUF_SIZE
               \*   literals  for each operation the parts of its format string
               \*   xml       for each text that is formatted its String's capacity
               \*   topic     TOPIC_NAME_MAX
               \*   requests  what to send: see Request
  ClientKey    \* four bytes

\* The creates that format their text, and those whose text is a literal.
FormattedOps == {"participant", "topic", "writer", "reader"}
XmlOps == FormattedOps \cup {"publisher", "subscriber"}

\* op is the method, or the entity it creates.
Request ==
  [op : XmlOps \cup {"client", "read", "write"}, sid : Byte,
   seq : Short, req : Short, oid : Short, parent : Short,
   name : Seq(Byte), type : Seq(Byte), body : Seq(Byte)]

\* A format string with n arguments has n + 1 literal parts.
LiteralParts ==
  [participant |-> 2, publisher |-> 1, subscriber |-> 1, topic |-> 3, writer |-> 3, reader |-> 3]

ASSUME EncodersAssumption ==
  /\ ClientKey \in Seq(Byte) /\ Len(ClientKey) = 4
  /\ \A b \in Build :
       \* Room for a CREATE_CLIENT; a u16 holds the length of a payload; and
       \* an even size: what aligns to two bytes does not pass the end.
       /\ b.tx \in Nat /\ 28 <= b.tx /\ b.tx <= 65535 /\ b.tx % 2 = 0
       /\ b.topic \in Nat
       /\ \A op \in FormattedOps : b.xml[op] \in Nat
       /\ \A op \in XmlOps :
            b.literals[op] \in Seq(Seq(Byte)) /\ Len(b.literals[op]) = LiteralParts[op]
       /\ \A r \in b.requests : r \in Request

VARIABLES
  build,       \* the build
  request,
  xml,         \* the XML text
  calls,       \* calls of MsgWriter still to be made
  buf, pos, overflow,
  hdr,         \* hdr_off
  wstate,      \* "start", "encoding", "sent" or "too_small"
  frame        \* the bytes handed to write_framed

vars == <<build, request, xml, calls, buf, pos, overflow, hdr, wstate, frame>>

WriterTypeOK ==
  /\ build \in Build /\ request \in build.requests
  /\ xml \in Seq(Byte)
  /\ buf \in [DOMAIN buf -> Byte \cup {Stale}]
  /\ pos \in Nat /\ hdr \in Nat
  /\ overflow \in BOOLEAN
  /\ wstate \in {"start", "encoding", "sent", "too_small"}
  /\ frame \in Seq(Byte)

-----------------------------------------------------------------------------
(* Protocol constants. *)

SessionIdWithoutClientKey == 128
StreamNone == 0
StreamBestEffort == 1
FlagLe == 1
FlagsCreate == 7         \* FLAG_LE | FLAG_REUSE | FLAG_REPLACE
FormatData == 0
ReprAsXml == 2
Mtu == 512

SubmsgCreateClient == 0
SubmsgCreate == 1
SubmsgWriteData == 7
SubmsgReadData == 8

EntityKind == [participant |-> 1, topic |-> 2, publisher |-> 3, subscriber |-> 4,
               writer |-> 5, reader |-> 6]

Cookie == <<88, 82, 67, 69>>
Version == <<1, 0>>
Vendor == <<1, 15>>

\* msg_header_len.
MsgHeaderLen(sid) == IF sid < SessionIdWithoutClientKey THEN 8 ELSE 4

\* session_id & SESSION_ID_WITHOUT_CLIENT_KEY.
Masked(sid) == IF sid < SessionIdWithoutClientKey THEN 0 ELSE SessionIdWithoutClientKey

-----------------------------------------------------------------------------
(* The text of a create method. *)

Slash == 47

\* ros2_topic_name, when it fits.
DdsTopic(name) ==
  <<114, 116, Slash>> \o (IF name # <<>> /\ name[1] = Slash THEN Tail(name) ELSE name)

NamesTopic(r) == r.op \in {"topic", "writer", "reader"}

TopicTooLong(r) == NamesTopic(r) /\ Len(DdsTopic(r.name)) > build.topic

\* The parts of the text: what write! writes one after another, or a literal.
Parts(r) ==
  LET l == build.literals[r.op]
  IN  CASE r.op = "participant"               -> <<l[1], r.name, l[2]>>
        [] NamesTopic(r)                      -> <<l[1], DdsTopic(r.name), l[2], r.type, l[3]>>
        [] r.op \in {"publisher", "subscriber"} -> l

\* The first n parts in one.
Joined(parts) ==
  LET joined[n \in 0 .. Len(parts)] ==
        IF n = 0 THEN <<>> ELSE joined[n - 1] \o parts[n]
  IN  joined

\* write! gives up at the first part that does not fit, and keeps the ones
\* before it; its result is ignored.
Formatted(parts, max) ==
  LET joined == Joined(parts)
      fit    == {n \in 0 .. Len(parts) : Len(joined[n]) <= max}
  IN  joined[CHOOSE n \in fit : \A m \in fit : m <= n]

Whole(parts) == Joined(parts)[Len(parts)]

Text(r) ==
  CASE r.op \in FormattedOps          -> Formatted(Parts(r), build.xml[r.op])
    [] r.op \in XmlOps \ FormattedOps -> Whole(Parts(r))
    [] OTHER                          -> <<>>

-----------------------------------------------------------------------------
(* The encoders. *)

U8(v)       == [call |-> "u8", n |-> v, data |-> <<>>]
Put(data)   == [call |-> "bytes", n |-> 0, data |-> data]
AlignBuf(n) == [call |-> "align_buf", n |-> n, data |-> <<>>]
CdrAlign(n) == [call |-> "cdr_align", n |-> n, data |-> <<>>]
HdrOff      == [call |-> "hdr_off", n |-> 0, data |-> <<>>]
Check       == [call |-> "check", n |-> 0, data |-> <<>>]
RestLen     == [call |-> "rest_len", n |-> 0, data |-> <<>>]
Patch       == [call |-> "patch", n |-> 0, data |-> <<>>]

KeyIf(sid) == IF sid < SessionIdWithoutClientKey THEN <<Put(ClientKey)>> ELSE <<>>

\* write_session_header.
SessionHeader(sid, stream, seq) ==
  <<U8(sid), U8(stream), Put(Le16(seq))>> \o KeyIf(sid)

SubHeader(id, flags) == <<AlignBuf(4), HdrOff, U8(id), U8(flags), Put(Le16(0))>>

\* request_id_be_bytes and object_id_be_bytes.
ObjectRef(req, oid) == <<Put(Be16(req)), Put(Be16(oid))>>

\* Mutant: overflow is not checked.
CdrStringUnchecked(text) ==
  <<CdrAlign(4), Put(Le32(Len(text) + 1)), Put(text), U8(0)>>

CdrString(text) ==
  <<CdrAlign(4), Put(Le32(Len(text) + 1)), Put(text), U8(0), Check>>

CreateClient(r) ==
  SessionHeader(Masked(r.sid), StreamNone, 0)
    \o SubHeader(SubmsgCreateClient, FlagLe)
    \o <<Put(Cookie), Put(Version), Put(Vendor), Put(ClientKey), U8(r.sid), U8(0),
         CdrAlign(2), Put(Le16(Mtu)), Patch>>

\* encode_create_participant, whose tail is the domain, and
\* encode_create_with_parent, whose tail is the parent.
CreateTail(r) ==
  IF r.op = "participant" THEN <<CdrAlign(2), Put(Le16(0))>> ELSE <<Put(Be16(r.parent))>>

Create(r) ==
  SessionHeader(r.sid, StreamBestEffort, r.seq)
    \o SubHeader(SubmsgCreate, FlagsCreate)
    \o ObjectRef(r.req, r.oid)
    \o <<U8(EntityKind[r.op]), U8(ReprAsXml)>>
    \o CdrString(Text(r))
    \o CreateTail(r)
    \o <<Patch, Check>>

ReadData(r) ==
  SessionHeader(r.sid, StreamBestEffort, r.seq)
    \o SubHeader(SubmsgReadData, FlagLe)
    \o ObjectRef(r.req, r.oid)
    \o <<U8(StreamBestEffort), U8(FormatData), U8(0), U8(0), Patch, Check>>

\* finalize_write_data_headers.
WriteHeaders(r) ==
  SessionHeader(r.sid, StreamBestEffort, r.seq)
    \o <<HdrOff, U8(SubmsgWriteData), U8(FlagLe + FormatData), RestLen>>
    \o ObjectRef(0, r.oid)

Encode(r) ==
  CASE r.op = "client" -> CreateClient(r)
    [] r.op \in XmlOps -> Create(r)
    [] r.op = "read"   -> ReadData(r)
    [] r.op = "write"  -> WriteHeaders(r)

\* Mutant: room for the client key, whether it is sent or not.
PrefixWithKey(sid) == 8 + 4 + 4

\* publish: the body comes first, behind the room for the headers, and the
\* writer of the headers gets the part of tx_buf that ends with it.
Prefix(sid) == MsgHeaderLen(sid) + 4 + 4

\* serialize gets the rest of tx_buf and lays out no more than that.
ASSUME BodiesFit ==
  \A b \in Build : \A r \in b.requests :
    r.op = "write" => Prefix(r.sid) + Len(r.body) <= b.tx

\* connect encodes into a buffer of its own, the others into tx_buf.
TxLen(r) == IF r.op = "client" THEN 64 ELSE build.tx

Buffer(r) ==
  IF r.op = "write"
  THEN [i \in 1 .. Prefix(r.sid) + Len(r.body) |->
          IF i <= Prefix(r.sid) THEN Stale ELSE r.body[i - Prefix(r.sid)]]
  ELSE [i \in 1 .. TxLen(r) |-> Stale]

-----------------------------------------------------------------------------
(* MsgWriter. *)

Init ==
  /\ build \in Build
  /\ request \in build.requests
  /\ xml = <<>> /\ calls = <<>>
  /\ buf = <<>> /\ pos = 0 /\ overflow = FALSE /\ hdr = 0
  /\ wstate = "start"
  /\ frame = <<>>

\* BufferTooSmall, of ros2_topic_name.
RefuseTopic ==
  /\ wstate = "start"
  /\ TopicTooLong(request)
  /\ wstate' = "too_small"
  /\ UNCHANGED <<build, request, xml, calls, buf, pos, overflow, hdr, frame>>

Start ==
  /\ wstate = "start"
  /\ ~TopicTooLong(request)
  /\ wstate' = "encoding"
  /\ xml' = Text(request)
  /\ calls' = Encode(request)
  /\ buf' = Buffer(request)
  /\ UNCHANGED <<build, request, pos, overflow, hdr, frame>>

Calling(names) ==
  /\ wstate = "encoding"
  /\ calls # <<>>
  /\ Head(calls).call \in names

BufLen == Len(buf)

\* data goes where it fits; pos goes on past the end.
Write(data) ==
  /\ buf' = [i \in 1 .. BufLen |->
               IF i \in pos + 1 .. pos + Len(data) THEN data[i - pos] ELSE buf[i]]
  /\ pos' = pos + Len(data)
  /\ overflow' = (overflow \/ pos + Len(data) > BufLen)
  /\ calls' = Tail(calls)
  /\ UNCHANGED <<build, request, xml, hdr, wstate, frame>>

CallU8 == Calling({"u8"}) /\ Write(<<Head(calls).n>>)

\* bytes, and the length that finalize_write_data_headers knows at once.
CallBytes == Calling({"bytes"}) /\ Write(Head(calls).data)

CallRestLen == Calling({"rest_len"}) /\ Write(Le16(BufLen - hdr - 4))

Zeros(n) == [i \in 1 .. n |-> 0]

\* The payload begins four bytes behind hdr_off.
PayloadOrigin == hdr + 4

CallAlignBuf == Calling({"align_buf"}) /\ Write(Zeros(Padding(pos, Head(calls).n)))

\* Mutant: padding is skipped and not written.
CallCdrAlignSkips ==
  /\ Calling({"cdr_align"})
  /\ pos' = pos + Padding(pos - PayloadOrigin, Head(calls).n)
  /\ calls' = Tail(calls)
  /\ UNCHANGED <<build, request, xml, buf, overflow, hdr, wstate, frame>>

CallCdrAlign ==
  /\ Calling({"cdr_align"})
  /\ Write(Zeros(Padding(pos - PayloadOrigin, Head(calls).n)))

NoteHdrOff ==
  /\ Calling({"hdr_off"})
  /\ hdr' = pos
  /\ calls' = Tail(calls)
  /\ UNCHANGED <<build, request, xml, buf, pos, overflow, wstate, frame>>

\* patch_u16_at(hdr_off + 2, payload_len).
PatchLength ==
  /\ Calling({"patch"})
  /\ LET bytes == Le16(pos - PayloadOrigin)
     IN  \/ /\ hdr + 4 <= BufLen
            /\ buf' = [buf EXCEPT ![hdr + 3] = bytes[1], ![hdr + 4] = bytes[2]]
            /\ UNCHANGED overflow
         \/ hdr + 4 > BufLen /\ overflow' = TRUE /\ UNCHANGED buf
  /\ calls' = Tail(calls)
  /\ UNCHANGED <<build, request, xml, pos, hdr, wstate, frame>>

\* Mutant: a full buffer counts as one too small.
OverflowedFull == overflow \/ pos >= BufLen

Overflowed == overflow \/ pos > BufLen

CheckPasses ==
  /\ Calling({"check"})
  /\ ~Overflowed
  /\ calls' = Tail(calls)
  /\ UNCHANGED <<build, request, xml, buf, pos, overflow, hdr, wstate, frame>>

\* BufferTooSmall.
CheckFails ==
  /\ Calling({"check"})
  /\ Overflowed
  /\ wstate' = "too_small"
  /\ UNCHANGED <<build, request, xml, calls, buf, pos, overflow, hdr, frame>>

\* What is handed to write_framed: up to pos, for a publish all of its part.
Send ==
  /\ wstate = "encoding"
  /\ calls = <<>>
  /\ wstate' = "sent"
  /\ frame' = SubSeq(buf, 1, IF request.op = "write" THEN BufLen ELSE pos)
  /\ UNCHANGED <<build, request, xml, calls, buf, pos, overflow, hdr>>

Next ==
  \/ Start \/ RefuseTopic
  \/ CallU8 \/ CallBytes \/ CallRestLen \/ CallAlignBuf \/ CallCdrAlign
  \/ NoteHdrOff \/ PatchLength \/ CheckPasses \/ CheckFails
  \/ Send

Spec == Init /\ [][Next]_vars

=============================================================================
