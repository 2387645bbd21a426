----------------------------- MODULE MCFraming -----------------------------
(***************************************************************************)
(* Values for model checking Framing: with bytes of three values a length  *)
(* goes up to 8, and a payload byte may be taken for a length of any kind. *)
(***************************************************************************)
EXTENDS FramingInvariant

\* No byte, a full buffer of two, and one byte too many.
Payloads == {<<>>, <<1, 0>>, <<2, 1, 0>>}

\* Frames that fit.
ShortPayloads == {<<2>>, <<1, 0>>}

=============================================================================
