-------------------------------- MODULE Codec --------------------------------
(***************************************************************************)
(* The body of a message from publish to the subscriber that reads it:     *)
(* serialize lays the fields out in the part of tx_buf behind the headers  *)
(* (src/cdr.rs, src/session.rs publish), the agent passes what it is sent  *)
(* on with its encapsulation header, or less of it, and deserialize reads  *)
(* the fields back (src/cdr_reader.rs).  One step is one use of a private  *)
(* helper of the writer or the reader.                                     *)
(***************************************************************************)
EXTENDS Cdr

CONSTANTS
  Message,     \* the messages to send: fields, and the types they are read as
  Slots,       \* lengths of the slot for the body
  Missing      \* numbers of bytes that may be missing from the end on receipt

Call == [op: {"align"}, n: {4, 8}, bytes: {<<>>}]
          \cup [op: {"raw"}, n: Nat, bytes: Seq(Byte)]

\* The fields of the messages.
Field == UNION {{m.fields[i] : i \in DOMAIN m.fields} : m \in Message}

ASSUME CodecAssumption ==
  /\ Slots \subseteq Nat
  /\ Missing \subseteq Nat
  /\ \A m \in Message : m.fields \in Seq(Field) /\ m.types \in Seq(Type)
  /\ \A field \in Field : Writes(field) \in Seq(Call)

VARIABLES
  message,     \* the message
  slot,        \* body_slot.len()
  \* CdrWriter
  fields,      \* fields still to be written
  calls,       \* helper calls still to be made for the current one
  buf, pos,
  wstate,      \* "writing", "panicked" or "published"
  \* CdrReader
  types,       \* fields still to be read
  takes,       \* helper calls still to be made for the current one
  body, rpos,
  length,      \* len_with_null of the string being read
  rstate,      \* "none", "reading", "ok", "err"
  \* history
  laid,        \* the layout the slot would have if it had no end
  written,     \* the values written
  values,      \* the values read
  sent         \* the body publish sent

writerVars == <<fields, calls, buf, pos, wstate, laid, written, sent>>
readerVars == <<types, takes, body, rpos, length, rstate, values>>
vars == <<message, slot, writerVars, readerVars>>

CodecTypeOK ==
  /\ message \in Message /\ slot \in Slots
  /\ buf \in [1 .. slot -> Byte \cup {Stale}]
  /\ pos \in Nat
  /\ wstate \in {"writing", "panicked", "published"}
  /\ laid \in Seq(Byte)
  /\ sent \in Seq(Byte)
  /\ body \in Seq(Byte)
  /\ rpos \in Nat /\ length \in Nat
  /\ rstate \in {"none", "reading", "ok", "err"}
  /\ rstate # "none" => wstate = "published"

\* Which message, slot and buffer.
Init ==
  /\ message \in Message
  /\ slot \in Slots
  /\ fields = message.fields /\ calls = <<>>
  /\ buf = [i \in 1 .. slot |-> Stale] /\ pos = 0
  /\ wstate = "writing"
  /\ types = <<>> /\ takes = <<>> /\ body = <<>> /\ rpos = 0 /\ length = 0
  /\ rstate = "none"
  /\ laid = <<>> /\ written = <<>> /\ values = <<>> /\ sent = <<>>

-----------------------------------------------------------------------------
(* CdrWriter. *)

WriteField ==
  /\ wstate = "writing"
  /\ calls = <<>>
  /\ fields # <<>>
  /\ calls' = Writes(Head(fields))
  /\ fields' = Tail(fields)
  /\ written' = written \o Head(fields).pieces
  /\ UNCHANGED <<message, slot, buf, pos, wstate, laid, sent, readerVars>>

Calling(op) ==
  /\ wstate = "writing"
  /\ calls # <<>>
  /\ Head(calls).op = op

\* bytes go where they fit; pos goes on past the end.
Put(bytes) ==
  /\ buf' = [i \in 1 .. slot |->
               IF i \in pos + 1 .. pos + Len(bytes) THEN bytes[i - pos] ELSE buf[i]]
  /\ pos' = pos + Len(bytes)
  /\ laid' = laid \o bytes
  /\ calls' = Tail(calls)
  /\ UNCHANGED <<message, slot, fields, wstate, written, sent, readerVars>>

Zeros(n) == [i \in 1 .. n |-> 0]

\* Mutant: padding is skipped and not written.
WriteAlignSkips ==
  /\ Calling("align")
  /\ pos' = pos + Padding(pos, Head(calls).n)
  /\ laid' = laid \o Zeros(Padding(pos, Head(calls).n))
  /\ calls' = Tail(calls)
  /\ UNCHANGED <<message, slot, fields, buf, wstate, written, sent, readerVars>>

\* Mutant: padding even where pos is aligned.
WriteAlignAlways ==
  /\ Calling("align")
  /\ Put(Zeros(Head(calls).n - (pos % Head(calls).n)))

WriteAlign ==
  /\ Calling("align")
  /\ Put(Zeros(Padding(pos, Head(calls).n)))

\* Mutant: bytes that do not all fit are not written, but counted.
WriteRawWhole ==
  /\ Calling("raw")
  /\ pos <= slot
  /\ IF pos + Head(calls).n <= slot
     THEN Put(Head(calls).bytes)
     ELSE /\ pos' = pos + Head(calls).n
          /\ laid' = laid \o Head(calls).bytes
          /\ calls' = Tail(calls)
          /\ UNCHANGED <<message, slot, fields, buf, wstate, written, sent, readerVars>>

WriteRaw ==
  /\ Calling("raw")
  /\ pos <= slot
  /\ Put(Head(calls).bytes)

\* Mutant: the end of the buffer counts as beyond it.
WritePanicsFull ==
  /\ Calling("raw")
  /\ pos >= slot
  /\ wstate' = "panicked"
  /\ UNCHANGED <<message, slot, fields, calls, buf, pos, laid, written, sent, readerVars>>

\* The slice buf[pos..] of a pos beyond the end panics, also for no bytes.
WritePanics ==
  /\ Calling("raw")
  /\ pos > slot
  /\ wstate' = "panicked"
  /\ UNCHANGED <<message, slot, fields, calls, buf, pos, laid, written, sent, readerVars>>

BytesWritten == Least(pos, slot)

\* publish sends bytes_written bytes.  BufferTooSmall is returned when they are
\* more than the slot has: never.
Publish ==
  /\ wstate = "writing"
  /\ calls = <<>> /\ fields = <<>>
  /\ wstate' = "published"
  /\ sent' = SubSeq(buf, 1, BytesWritten)
  /\ UNCHANGED <<message, slot, fields, calls, buf, pos, laid, written, readerVars>>

-----------------------------------------------------------------------------
(* The agent (external), and CdrReader. *)

Encapsulated(bytes) == <<0, 1, 0, 0>> \o bytes

\* Mutant: alignment is counted from the encapsulation header.
NewUnskipped(payload) == payload

\* CdrReader::new: a payload shorter than the header has no body.
New(payload) == SubSeq(payload, 5, Len(payload))

\* try_deliver of the payload the agent sends, whole or not.
Deliver(missing) ==
  /\ wstate = "published"
  /\ rstate = "none"
  /\ missing <= Len(Encapsulated(sent))
  /\ LET payload == Encapsulated(sent)
     IN  body' = New(SubSeq(payload, 1, Len(payload) - missing))
  /\ types' = message.types
  /\ rstate' = "reading"
  /\ UNCHANGED <<message, slot, writerVars, takes, rpos, length, values>>

ReadField ==
  /\ rstate = "reading"
  /\ takes = <<>>
  /\ types # <<>>
  /\ takes' = Reads(Head(types))
  /\ types' = Tail(types)
  /\ UNCHANGED <<message, slot, writerVars, body, rpos, length, rstate, values>>

Taking(ops) ==
  /\ rstate = "reading"
  /\ takes # <<>>
  /\ Head(takes).op \in ops

\* align leaves pos beyond the end without an error.
ReadAlign ==
  /\ Taking({"align"})
  /\ rpos' = rpos + Padding(rpos, Head(takes).n)
  /\ takes' = Tail(takes)
  /\ UNCHANGED <<message, slot, writerVars, types, body, length, rstate, values>>

\* The argument of take.
Count == IF Head(takes).op = "bytes" THEN length - 1 ELSE Head(takes).n

\* Mutant: take refuses the last byte.
LeftLess(n) == rpos + n < Len(body)

Left(n) == rpos + n <= Len(body)

Taken == SubSeq(body, rpos + 1, rpos + Count)

Got(more) ==
  /\ Left(Count)
  /\ rpos' = rpos + Count
  /\ values' = values \o more
  /\ UNCHANGED <<message, slot, writerVars, types, body, rstate>>

ReadTake ==
  /\ Taking({"take", "bytes"})
  /\ Got(<<Taken>>)
  /\ takes' = Tail(takes)
  /\ UNCHANGED length

ReadLength ==
  /\ Taking({"length"})
  /\ Got(<<>>)
  /\ FromLe32(Taken) # 0
  /\ length' = FromLe32(Taken)
  /\ takes' = Tail(takes)

\* A string of length 0 has no null.
ReadLengthZero ==
  /\ Taking({"length"})
  /\ Got(<<<<>>>>)
  /\ FromLe32(Taken) = 0
  /\ takes' = SubSeq(takes, 4, Len(takes))
  /\ UNCHANGED length

ReadNull ==
  /\ Taking({"null"})
  /\ Got(<<>>)
  /\ takes' = Tail(takes)
  /\ UNCHANGED length

\* deserialize of StringOwned: push_str, which fails when it does not fit.
ReadPush ==
  /\ Taking({"push"})
  /\ Len(values[Len(values)]) <= Head(takes).n
  /\ takes' = Tail(takes)
  /\ UNCHANGED <<message, slot, writerVars, types, body, rpos, length, rstate, values>>

\* Deserialization.
ReadFails ==
  /\ \/ Taking({"take", "bytes", "length", "null"}) /\ ~Left(Count)
     \/ Taking({"push"}) /\ Len(values[Len(values)]) > Head(takes).n
  /\ rstate' = "err"
  /\ UNCHANGED <<message, slot, writerVars, types, takes, body, rpos, length, values>>

ReadDone ==
  /\ rstate = "reading"
  /\ takes = <<>> /\ types = <<>>
  /\ rstate' = "ok"
  /\ UNCHANGED <<message, slot, writerVars, types, takes, body, rpos, length, values>>

-----------------------------------------------------------------------------
Serialize   == WriteField \/ WriteAlign \/ WriteRaw \/ WritePanics \/ Publish

Deserialize ==
  ReadField \/ ReadAlign \/ ReadTake \/ ReadLength \/ ReadLengthZero \/ ReadNull
  \/ ReadPush \/ ReadFails \/ ReadDone

Next == Serialize \/ (\E missing \in Missing : Deliver(missing)) \/ Deserialize

Spec == Init /\ [][Next]_vars

=============================================================================
