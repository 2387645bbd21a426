--------------------------- MODULE CodecProperties ---------------------------
(***************************************************************************)
(* What must be true of a body on its way from publish to deserialize.     *)
(***************************************************************************)
EXTENDS Codec

\* publish sends the layout of the message, or as much of it as the slot has
\* room for: every byte is one the writer laid out, padding included, and none
\* is what an earlier message left in tx_buf.
BodyIsPrefix ==
  wstate = "published" => sent = SubSeq(laid, 1, Least(Len(laid), slot))

\* What makes BodyIsPrefix inductive: at every call of a helper the buffer
\* holds the front of the layout, as far as both go, and pos is its length.
Laid(i) == buf[i] = laid[i]
LayoutInv ==
  /\ pos = Len(laid)
  /\ \A i \in 1 .. Least(pos, slot) : Laid(i)
  /\ BodyIsPrefix

\* serialize and deserialize list the same fields: every one is read as what it
\* is, an array with as many elements, and a string in either way.  The length
\* of a string is a u32.
Agree(field, type) ==
  /\ field.pieces \in Seq(Seq(Byte))
  /\ \/ /\ type.kind = "scalar" /\ field = Scalar(type.n, field.pieces[1])
        /\ Len(field.pieces[1]) = type.n
     \/ /\ type = F64sType(Len(field.pieces)) /\ field = F64s(field.pieces)
        /\ \A i \in DOMAIN field.pieces : Len(field.pieces[i]) = 8
     \/ /\ type.kind \in {"string", "owned"}
        /\ \/ field = Str(field.pieces[1]) /\ Fits32(Len(field.pieces[1]) + 1)
           \/ field = StrZero
FieldsAgree ==
  /\ Len(message.fields) = Len(message.types)
  /\ \A i \in DOMAIN message.fields : Agree(message.fields[i], message.types[i])

\* deserialize returns the values that were written or Deserialization, and
\* never Ok with others, wherever the body was cut: by the end of the slot or
\* on its way.
RoundTrip == rstate = "ok" => values = written

\* The message arrives as it was laid out.
ArrivedWhole == body = laid

\* deserialize refuses a message only if bytes of it are missing or a string
\* is longer than the heapless::String it is read into.
RefusedForCause ==
  rstate = "err" =>
    ~ArrivedWhole \/ (takes # <<>> /\ Head(takes).op = "push")

\* A message that arrives whole is read to its end: no byte is left over and
\* none read twice.
ReadToTheEnd == rstate = "ok" /\ ArrivedWhole => rpos = Len(body)

\* MAX_SERIALIZED_SIZE bounds what serialize lays out, padding included, if
\* no string is longer than StringOwned holds (message.rs: "Worst-case
\* CDR-serialized body size in bytes").
InlineStrings == \A i \in DOMAIN message.types :
  message.types[i].kind = "owned" => Len(message.fields[i].pieces[1]) <= message.types[i].n
WithinMaxSize == InlineStrings => pos <= message.max

\* serialize panics only for a message that the slot has no room for: one that
\* fills it to the last byte is written and sent, fields without bytes behind it
\* included.
PanicsOnlyBeyond == wstate = "panicked" => Len(laid) > slot

-----------------------------------------------------------------------------
\* A message that publish returns Ok for was sent whole (error.rs: "A
\* serialized message did not fit in the SDK-internal buffer").
OkMeansWhole == wstate = "published" => Len(laid) <= slot

=============================================================================
