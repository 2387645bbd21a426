------------------------------- MODULE Framing -------------------------------
(***************************************************************************)
(* One direction of the connection, byte by byte (src/framing.rs, and      *)
(* read_one_frame and read_exact of src/session.rs, which do the same): a  *)
(* writer that calls write_framed and a reader that calls read_framed,     *)
(* each an async function over a transport that takes and gives any part   *)
(* of what it is asked to.                                                 *)
(*                                                                         *)
(* A session is the writer of one direction and the reader of the other,   *)
(* the agent the other way round.  A future may end in the middle of a     *)
(* frame: it is dropped at any await, or the transport returns an error    *)
(* and the connection goes on.                                             *)
(***************************************************************************)
EXTENDS Naturals, Sequences

CONSTANTS
  Base,        \* values of a byte (256)
  Payload,     \* the payloads the writer has to send
  BufLen,      \* length of the reader's buffer
  Interruptible,   \* whose futures may end while the connection goes on
  MaxBytes     \* bound: bytes written

Byte == 0 .. Base - 1

ASSUME FramingAssumption ==
  /\ Base \in Nat \ {0, 1}
  /\ Payload \subseteq Seq(Byte)
  /\ \A payload \in Payload : Len(payload) < Base * Base
  /\ BufLen \in Nat
  /\ Interruptible \subseteq {"writer", "reader"}
  /\ MaxBytes \in Nat

VARIABLES
  \* the connection: all bytes the transport has taken from the writer, how
  \* many of them it has sent, and how many the reader has read
  log, out, taken,
  link,                \* "up", "closed" in order, or "reset"
  \* write_framed
  wpc,                 \* the await it is suspended at
  frame,               \* its payload
  rest,                \* buf in write_all: what is still to be written
  \* read_framed
  rpc,                 \* the await it is suspended at
  need,                \* bytes read_exact is to read
  got,                 \* bytes it has read
  \* history
  sent, ends,          \* frames taken whole, and where in log each ends
  received,            \* frames read_framed has returned
  torn,                \* where a frame was given up in the middle
  flushed              \* frames whose write_framed has returned Ok

streamVars  == <<log, out, taken>>
writerVars  == <<wpc, frame, rest>>
readerVars  == <<rpc, need, got>>
vars == <<streamVars, link, writerVars, readerVars, sent, ends, received, torn, flushed>>

FramingTypeOK ==
  /\ log \in Seq(Byte)
  /\ out \in 0 .. Len(log) /\ taken \in 0 .. out
  /\ link \in {"up", "closed", "reset"}
  /\ wpc \in {"idle", "length", "payload", "flush"}
  /\ frame \in Seq(Byte) /\ rest \in Seq(Byte)
  /\ rpc \in {"idle", "length", "payload"}
  /\ need \in {0, 2} \cup 1 .. BufLen
  /\ got \in Seq(Byte) /\ Len(got) <= need
  /\ sent \in Seq(Payload) /\ ends \in Seq(Nat) /\ Len(ends) = Len(sent)
  /\ received \in Seq(Seq(Byte))
  /\ torn \subseteq Nat
  /\ flushed \in 0 .. Len(sent)

Init ==
  /\ log = <<>> /\ out = 0 /\ taken = 0
  /\ link = "up"
  /\ wpc = "idle" /\ frame = <<>> /\ rest = <<>>
  /\ rpc = "idle" /\ need = 0 /\ got = <<>>
  /\ sent = <<>> /\ ends = <<>> /\ received = <<>>
  /\ torn = {} /\ flushed = 0

\* Mutant: the length counts its own two bytes.
LengthBytesOwn(n) == <<(n + 2) % Base, ((n + 2) \div Base) % Base>>

\* (payload.len() as u16).to_le_bytes(), and u16::from_le_bytes.
LengthBytes(n) == <<n % Base, (n \div Base) % Base>>

\* Mutant: the two bytes are read in the wrong order.
LengthOfBigEndian(bytes) == bytes[2] + Base * bytes[1]

LengthOf(bytes) == bytes[1] + Base * bytes[2]

EndOf(n) == IF n = 0 THEN 0 ELSE ends[n]

-----------------------------------------------------------------------------
(* write_framed: the length, the payload, flush. *)

WriteFramed(payload) ==
  /\ wpc = "idle"
  /\ Len(log) + 2 + Len(payload) <= MaxBytes
  /\ wpc' = "length"
  /\ frame' = payload
  /\ rest' = LengthBytes(Len(payload))
  /\ UNCHANGED <<streamVars, link, readerVars, sent, ends, received, torn, flushed>>

\* The transport takes the first k bytes of buf.
Takes(k) ==
  /\ link = "up"
  /\ log' = log \o SubSeq(rest, 1, k)
  /\ UNCHANGED <<out, taken, link, readerVars, frame, received, torn, flushed>>

\* Mutant: the loop of write_all begins again at the start of buf.
WritePartRestarts ==
  /\ wpc \in {"length", "payload"}
  /\ \E k \in 1 .. Len(rest) - 1 : Takes(k) /\ UNCHANGED rest
  /\ UNCHANGED <<wpc, sent, ends>>

WritePart ==
  /\ wpc \in {"length", "payload"}
  /\ \E k \in 1 .. Len(rest) - 1 :
       Takes(k) /\ rest' = SubSeq(rest, k + 1, Len(rest))
  /\ UNCHANGED <<wpc, sent, ends>>

\* The last byte of the frame is taken: what is left to await is flush.
TakesLast ==
  /\ Takes(Len(rest))
  /\ wpc' = "flush"
  /\ rest' = <<>>
  /\ sent' = Append(sent, frame)
  /\ ends' = Append(ends, Len(log) + Len(rest))

\* An empty payload needs no write.
WriteLength ==
  /\ wpc = "length"
  /\ IF frame = <<>>
     THEN TakesLast
     ELSE /\ Takes(Len(rest))
          /\ wpc' = "payload"
          /\ rest' = frame
          /\ UNCHANGED <<sent, ends>>

WritePayload == wpc = "payload" /\ TakesLast

WriteReturns ==
  /\ wpc' = "idle"
  /\ frame' = <<>> /\ rest' = <<>>
  /\ UNCHANGED <<streamVars, link, readerVars, sent, ends, received>>

\* Mutant: write_framed returns without awaiting flush.
FlushUnawaited ==
  /\ wpc = "flush"
  /\ WriteReturns
  /\ flushed' = Len(sent)
  /\ UNCHANGED torn

Flush ==
  /\ wpc = "flush"
  /\ link = "up"
  /\ out = Len(log)
  /\ WriteReturns
  /\ flushed' = Len(sent)
  /\ UNCHANGED torn

\* Io, or Disconnected for a write that takes nothing, at the end of the
\* connection.
WriteFails ==
  /\ wpc # "idle"
  /\ link # "up"
  /\ WriteReturns
  /\ UNCHANGED <<torn, flushed>>

\* The future is dropped, or gets an error from a transport that goes on: a
\* frame some bytes of which are taken, but not all, is torn.
GiveUpWrite ==
  /\ "writer" \in Interruptible
  /\ wpc # "idle"
  /\ WriteReturns
  /\ torn' = IF Len(log) = EndOf(Len(sent)) THEN torn ELSE torn \cup {Len(sent)}
  /\ UNCHANGED flushed

-----------------------------------------------------------------------------
(* read_framed: the length, then as many bytes. *)

ReadFramed ==
  /\ rpc = "idle"
  /\ rpc' = "length"
  /\ need' = 2
  /\ got' = <<>>
  /\ UNCHANGED <<streamVars, link, writerVars, sent, ends, received, torn, flushed>>

\* The transport gives k of the bytes that have arrived.
Arrived(k) == SubSeq(log, taken + 1, taken + k)

Gives(k) ==
  /\ link # "reset"
  /\ taken + k <= out
  /\ taken' = taken + k
  /\ UNCHANGED <<log, out, link, writerVars, sent, ends, flushed>>

ReadPart ==
  /\ rpc # "idle"
  /\ \E k \in 1 .. need - Len(got) - 1 : Gives(k) /\ got' = got \o Arrived(k)
  /\ UNCHANGED <<rpc, need, received, torn>>

\* The rest of what is needed arrives.
GivesLast == Gives(need - Len(got))
Whole     == got \o Arrived(need - Len(got))

ReadReturns ==
  /\ rpc' = "idle"
  /\ need' = 0 /\ got' = <<>>

\* Mutant: the length is not checked against the buffer.
ReadLengthUnchecked ==
  /\ rpc = "length"
  /\ GivesLast
  /\ LengthOf(Whole) # 0
  /\ rpc' = "payload"
  /\ need' = LengthOf(Whole)
  /\ got' = <<>>
  /\ UNCHANGED <<received, torn>>

ReadLength ==
  /\ rpc = "length"
  /\ GivesLast
  /\ LengthOf(Whole) \in 1 .. BufLen
  /\ rpc' = "payload"
  /\ need' = LengthOf(Whole)
  /\ got' = <<>>
  /\ UNCHANGED <<received, torn>>

\* An empty payload needs no read.
ReadEmpty ==
  /\ rpc = "length"
  /\ GivesLast
  /\ LengthOf(Whole) = 0
  /\ ReadReturns
  /\ received' = Append(received, <<>>)
  /\ UNCHANGED torn

\* A frame that does not fit is refused, BufferTooSmall, with its payload unread.
ReadTooLong ==
  /\ rpc = "length"
  /\ GivesLast
  /\ LengthOf(Whole) > BufLen
  /\ ReadReturns
  /\ torn' = torn \cup {Len(received)}
  /\ UNCHANGED received

\* Mutant: one read instead of read_exact.
ReadPayloadOnce ==
  /\ rpc = "payload"
  /\ \E k \in 1 .. need - Len(got) :
       Gives(k) /\ received' = Append(received, got \o Arrived(k))
  /\ ReadReturns
  /\ UNCHANGED torn

ReadPayload ==
  /\ rpc = "payload"
  /\ GivesLast
  /\ ReadReturns
  /\ received' = Append(received, Whole)
  /\ UNCHANGED torn

\* Io, or Disconnected once the bytes of a closed connection are read.
ReadFails ==
  /\ rpc # "idle"
  /\ link = "reset" \/ (link = "closed" /\ taken = out)
  /\ ReadReturns
  /\ UNCHANGED <<streamVars, link, writerVars, sent, ends, received, torn, flushed>>

\* The future is dropped, or gets an error from a transport that goes on: the
\* rest of a frame that has been read in part is left in the stream.
GiveUpRead ==
  /\ "reader" \in Interruptible
  /\ rpc # "idle"
  /\ ReadReturns
  /\ torn' = IF rpc = "length" /\ got = <<>> THEN torn ELSE torn \cup {Len(received)}
  /\ UNCHANGED <<streamVars, link, writerVars, sent, ends, received, flushed>>

-----------------------------------------------------------------------------
(* The transport. *)

Transmit ==
  /\ link = "up"
  /\ out < Len(log)
  /\ out' = Len(log)
  /\ UNCHANGED <<log, taken, link, writerVars, readerVars, sent, ends, received, torn, flushed>>

\* What has been sent can still be read when the connection is closed in
\* order, and is lost when it is reset.
LinkEnds ==
  /\ link = "up"
  /\ link' \in {"closed", "reset"}
  /\ UNCHANGED <<streamVars, writerVars, readerVars, sent, ends, received, torn, flushed>>

-----------------------------------------------------------------------------
Writes == WritePart \/ WriteLength \/ WritePayload \/ Flush \/ WriteFails

Reads == ReadPart \/ ReadLength \/ ReadEmpty \/ ReadTooLong \/ ReadPayload \/ ReadFails

Next ==
  \/ \E payload \in Payload : WriteFramed(payload)
  \/ Writes \/ GiveUpWrite
  \/ ReadFramed \/ Reads \/ GiveUpRead
  \/ Transmit \/ LinkEnds

Spec == Init /\ [][Next]_vars

\* The executor polls a future whose transport is ready, and the transport
\* sends what it has taken.  The reader is spin, which reads again after
\* every frame.
FairSpec ==
  /\ Spec
  /\ WF_vars(Writes) /\ WF_vars(Reads) /\ WF_vars(Transmit)
  /\ WF_vars(ReadFramed)

=============================================================================
