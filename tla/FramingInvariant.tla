-------------------------- MODULE FramingInvariant --------------------------
(***************************************************************************)
(* Why framing keeps in step: the inductive invariant of Framing.  As far  *)
(* as no frame was given up in the middle, the bytes of the connection are *)
(* the frames sent, one behind the other, and the front of the one being   *)
(* written; and what the reader has taken is the frames received and the   *)
(* front of the next.                                                      *)
(***************************************************************************)
EXTENDS FramingProperties

\* Byte i of a frame on the connection.
Wire(payload, i) == IF i <= 2 THEN LengthBytes(Len(payload))[i] ELSE payload[i - 2]

\* No tear is in front of the n-th frame or inside it.
Clean(n) == \A m \in torn : n <= m

Begun == wpc \in {"length", "payload"}

\* What a suspended future has in its hands.
FuturesFit ==
  /\ Begun => frame \in Payload /\ rest # <<>>
  /\ wpc = "payload" => frame # <<>>
  /\ IF rpc = "idle" THEN got = <<>> ELSE Len(got) < need
  /\ rpc = "length" => need = 2

\* More frames come out than went in only where one was torn.
OverTorn == Len(received) <= Len(sent) \/ \E m \in torn : m <= Len(sent)

\* The n-th frame is in the log, from where the one before it ends to where
\* it ends itself.
FrameAt(n) ==
  /\ ends[n] = EndOf(n - 1) + 2 + Len(sent[n])
  /\ ends[n] <= Len(log)
  /\ \A i \in 1 .. 2 + Len(sent[n]) : log[EndOf(n - 1) + i] = Wire(sent[n], i)

LogHolds == \A n \in 1 .. Len(sent) : Clean(n) => FrameAt(n)

\* Behind the last of them is the front of the frame being written, and rest
\* is what follows in it up to the end of the length or of the payload.
Behind == Len(log) - EndOf(Len(sent))

WriterInStep ==
  link = "up" /\ Clean(Len(sent) + 1) =>
    IF Begun
    THEN /\ Behind >= 0
         /\ Behind + Len(rest) = 2 + (IF wpc = "length" THEN 0 ELSE Len(frame))
         /\ \A i \in 1 .. Behind : log[EndOf(Len(sent)) + i] = Wire(frame, i)
         /\ \A i \in 1 .. Len(rest) : rest[i] = Wire(frame, Behind + i)
    ELSE Behind = 0

\* ... and never all of it, so that no length is followed by as many bytes,
\* even if the connection has ended in the middle.
LengthBehind(n) == LengthOf(<<log[EndOf(n) + 1], log[EndOf(n) + 2]>>)

FrontOnly ==
  Clean(Len(sent) + 1) =>
    /\ Behind >= 0
    /\ Behind >= 2 => LengthBehind(Len(sent)) > Behind - 2

\* What read_exact has read is the front of the next frame's length or payload.
Readable == link # "reset" /\ ~(link = "closed" /\ taken = out)

Skipped == EndOf(Len(received)) + (IF rpc = "payload" THEN 2 ELSE 0)

ReadsInStep ==
  Readable /\ Clean(Len(received) + 1) =>
    /\ taken = Skipped + Len(got)
    /\ \A i \in 1 .. Len(got) : got[i] = log[Skipped + i]
    /\ rpc = "payload" => need = LengthBehind(Len(received))

FramingInv ==
  FramingTypeOK /\ FuturesFit /\ OverTorn /\ LogHolds /\ WriterInStep /\ FrontOnly /\ ReadsInStep

=============================================================================
