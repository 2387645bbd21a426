---------------------------- MODULE FrameChannel ----------------------------
(***************************************************************************)
(* What framing promises: a channel of whole frames.  Frames come out as   *)
(* they went in, in order, none lost in between and none twice, until the  *)
(* channel is torn: a frame given up in the middle, by the writer or the   *)
(* reader, leaves the two out of step.  A tear at n leaves the first n     *)
(* frames as they were sent and says nothing of the later ones.            *)
(***************************************************************************)
EXTENDS Naturals, Sequences

CONSTANT Frame

VARIABLES sent, received, torn

vars == <<sent, received, torn>>

Init == sent = <<>> /\ received = <<>> /\ torn = {}

Send(frame) == sent' = Append(sent, frame) /\ UNCHANGED <<received, torn>>

Deliver ==
  /\ \A n \in torn : Len(received) < n
  /\ Len(received) < Len(sent)
  /\ received' = Append(received, sent[Len(received) + 1])
  /\ UNCHANGED <<sent, torn>>

Tear ==
  /\ torn \subseteq torn'
  /\ \A n \in torn' \ torn : n >= Len(received) \/ \E m \in torn : m <= n
  /\ UNCHANGED <<sent, received>>

\* Past a tear, a frame made of whatever bytes are there.
Scramble ==
  /\ \E n \in torn : n <= Len(received)
  /\ Len(received') = Len(received) + 1
  /\ SubSeq(received', 1, Len(received)) = received
  /\ UNCHANGED <<sent, torn>>

Next == (\E frame \in Frame : Send(frame)) \/ Deliver \/ Tear \/ Scramble

Spec == Init /\ [][Next]_vars

=============================================================================
