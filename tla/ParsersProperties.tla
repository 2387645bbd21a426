-------------------------- MODULE ParsersProperties --------------------------
(***************************************************************************)
(* What must be true of the way a session reads the frames of an agent.    *)
(* The reference is the first submessage as the agent meant it.            *)
(***************************************************************************)
EXTENDS Parsers

StatusMeans(status, good) == IF status \in good THEN Ok ELSE AgentRejected(status)

\* What a whole frame with the submessage sub means to its reader.
Means(sub) ==
  CASE mode = "connect" ->
         IF sub.id = SubmsgStatusAgent THEN StatusMeans(sub.status, {StatusOk})
                                       ELSE UnexpectedReply
    [] mode = "wait" /\ sub.id = SubmsgStatus ->
         IF sub.req = expected THEN StatusMeans(sub.status, {StatusOk, StatusOkMatched})
                               ELSE StatusReqMismatch
    [] mode # "connect" /\ sub.id = SubmsgData ->
         IF sub.oid \in Readers THEN Delivered(sub.oid, sub.user) ELSE Dropped
    [] OTHER -> Dropped

Meaning == Means(frame.subs[1])

Taken == frames > 0 /\ outcome # None

\* A whole frame is taken for what the agent meant by its first submessage: a
\* STATUS for its own request and result, a DATA for its own reader, with the
\* bytes of the sample and no other, neither of the next submessage nor of a
\* frame that was in the buffer before.
ReadAsMeant == Taken /\ frame.cut = 0 => outcome = Meaning

\* A frame cut short says no more than the whole one: it gives the same error,
\* the front of the same sample, or nothing, and never Ok, an error code or a
\* reader made of bytes that an earlier frame left in the buffer.
CutSaysNoMore ==
  Taken /\ frame.cut > 0 =>
    \/ outcome \in {Dropped, UnexpectedReply, Meaning}
    \/ /\ outcome.res = "delivered"
       /\ Meaning.res = "delivered" /\ outcome.arg = Meaning.arg
       /\ outcome.user = SubSeq(Meaning.user, 1, Len(outcome.user))

=============================================================================
