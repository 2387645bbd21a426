------------------------- MODULE EncodersProperties -------------------------
(***************************************************************************)
(* What must be true of the bytes a session sends.  The reference is an    *)
(* agent that reads them (external): eProsima's layout, in which the ids   *)
(* are bytes, high one first, the other numbers little-endian, and CDR     *)
(* aligns from the first byte of the submessage's payload.                 *)
(***************************************************************************)
EXTENDS Encoders

HeaderHas(b) == IF b[1] < SessionIdWithoutClientKey THEN 8 ELSE 4

Payload(b) == SubSeq(b, HeaderHas(b) + 5, Len(b))

\* The string whose length is at offset at of the payload.
StringAt(p, at) == SubSeq(p, at + 5, at + 3 + FromLe32(SubSeq(p, at + 1, at + 4)))

\* What comes behind it.
AfterString(p, at) == SubSeq(p, at + 6 + Len(StringAt(p, at)), Len(p))

Id(p, at) == FromBe16(SubSeq(p, at + 1, at + 2))

ClientHeard(p) ==
  [magic |-> SubSeq(p, 1, 8), key |-> SubSeq(p, 9, 12), sid |-> p[13],
   properties |-> p[14], mtu |-> FromLe16(SubSeq(p, 15, 16))]

CreateHeard(p) ==
  [req |-> Id(p, 0), oid |-> Id(p, 2), kind |-> p[5], repr |-> p[6], xml |-> StringAt(p, 8),
   tail |-> IF p[5] = EntityKind.participant
            THEN FromLe16(SubSeq(p, Len(p) - 1, Len(p)))
            ELSE Id(AfterString(p, 8), 0)]

ReadHeard(p) == [req |-> Id(p, 0), oid |-> Id(p, 2), spec |-> SubSeq(p, 5, 8)]

WriteHeard(p) == [req |-> Id(p, 0), oid |-> Id(p, 2), body |-> SubSeq(p, 5, Len(p))]

Heard(b) ==
  LET h  == HeaderHas(b)
      id == b[h + 1]
  IN  [sid |-> b[1], stream |-> b[2], seq |-> FromLe16(<<b[3], b[4]>>),
       key |-> SubSeq(b, 5, h),
       id |-> id, flags |-> b[h + 2],
       rest |-> Len(b) - h - 4 - FromLe16(<<b[h + 3], b[h + 4]>>),
       body |-> CASE id = 0 -> ClientHeard(Payload(b))
                  [] id = 1 -> CreateHeard(Payload(b))
                  [] id = 8 -> ReadHeard(Payload(b))
                  [] id = 7 -> WriteHeard(Payload(b))]

-----------------------------------------------------------------------------
(* What the session means to say. *)

BodyMeant(r) ==
  CASE r.op = "client" ->
         [magic |-> Cookie \o Version \o Vendor, key |-> ClientKey, sid |-> r.sid,
          properties |-> 0, mtu |-> Mtu]
    [] r.op \in XmlOps ->
         [req |-> r.req, oid |-> r.oid, kind |-> EntityKind[r.op], repr |-> ReprAsXml,
          xml |-> xml, tail |-> IF r.op = "participant" THEN 0 ELSE r.parent]
    [] r.op = "read" ->
         [req |-> r.req, oid |-> r.oid, spec |-> <<StreamBestEffort, FormatData, 0, 0>>]
    [] r.op = "write" -> [req |-> 0, oid |-> r.oid, body |-> r.body]

Meant(r) ==
  LET client == r.op = "client"
  IN  [sid |-> IF client THEN Masked(r.sid) ELSE r.sid,
       stream |-> IF client THEN StreamNone ELSE StreamBestEffort,
       seq |-> IF client THEN 0 ELSE r.seq,
       key |-> IF r.sid < SessionIdWithoutClientKey THEN ClientKey ELSE <<>>,
       id |-> CASE client -> 0 [] r.op \in XmlOps -> 1 [] r.op = "read" -> 8 [] r.op = "write" -> 7,
       flags |-> IF r.op \in XmlOps THEN FlagsCreate ELSE FlagLe,
       rest |-> 0,
       body |-> BodyMeant(r)]

\* The agent reads every message of the session as it was meant: the header
\* that the session id calls for, the length of what follows, each number at
\* its place and in its byte order, whatever the length of the text before it;
\* for a publish, the body that was laid out before the headers were known.
HeardAsMeant == wstate = "sent" => Heard(frame) = Meant(request)

-----------------------------------------------------------------------------
\* The length of a message.
SizeOf(r) ==
  LET text == 8 + 4 + Len(xml) + 1
  IN  MsgHeaderLen(r.sid) + 4 +
        CASE r.op = "client"      -> 16
          [] r.op = "participant" -> text + Padding(text, 2) + 2
          [] r.op \in XmlOps \ {"participant"} -> text + 2
          [] r.op = "read"        -> 8
          [] r.op = "write"       -> 4 + Len(r.body)

\* An encoder returns BufferTooSmall for the messages that do not fit in its
\* buffer, and for no other: the last byte of tx_buf can be used.
RefusedIfTooLong ==
  /\ wstate = "too_small" => TopicTooLong(request) \/ SizeOf(request) > TxLen(request)
  /\ wstate = "sent" => Len(frame) = SizeOf(request) /\ SizeOf(request) <= TxLen(request)

\* bytes slices buf[pos..], which panics past the end of buf: cdr_string
\* returns before the next call can.
SlicesInRange == Calling({"bytes", "rest_len"}) => pos <= BufLen

=============================================================================
