------------------------- MODULE FramingProperties -------------------------
(***************************************************************************)
(* What framing must keep true of one direction of the connection.         *)
(***************************************************************************)
EXTENDS Framing

\* write_framed and read_framed together are a channel of whole frames: a
\* frame may be cut by partial writes and reads at any byte, its writer may be
\* dropped or get an error before the first byte or while it awaits flush, its
\* reader before the first byte, and the frames still come out as they went in;
\* only a future that ends inside a frame, or a frame longer than the buffer,
\* tears it.
C == INSTANCE FrameChannel WITH Frame <- Payload
ChannelSpec == C!Spec

\* Every frame that read_framed returns is the next that write_framed wrote
\* (framing.rs: "Read one length-prefixed XRCE-DDS frame").
ReadsWhatWasWritten ==
  [][received' # received =>
       /\ Len(received') <= Len(sent')
       /\ received'[Len(received')] = sent'[Len(received')]]_vars

\* The bytes between writer and reader that belong to no frame already read
\* start with the next frame: after calls given up between frames, as after Ok,
\* the reader that is idle is at the first byte of a frame, and has returned no
\* frame that was not sent.
ReaderInStep ==
  torn = {} /\ rpc = "idle" /\ link = "up" =>
    Len(received) <= Len(sent) /\ taken = EndOf(Len(received))

-----------------------------------------------------------------------------
\* Reads are not given up for ever: spin is called again, and left alone until
\* it returns.  (At the end of the connection the two look alike.)
ReaderStays == <>[][GiveUpRead => ReadFails]_vars

\* Every frame the transport has taken is read in the end, while the
\* connection lasts and nothing tears it.
FramesArrive ==
  ReaderStays =>
    \A n \in 1 .. MaxBytes \div 2 :
      Len(sent) >= n ~> Len(received) >= n \/ torn # {} \/ link # "up"

\* A frame for which write_framed returned Ok is read even if the connection
\* is closed, in order, right after.
FlushedArrive ==
  ReaderStays =>
    \A n \in 1 .. MaxBytes \div 2 :
      flushed >= n ~> Len(received) >= n \/ torn # {} \/ link = "reset"

=============================================================================
