----------------------------- MODULE MCEncoders -----------------------------
(***************************************************************************)
(* Values for model checking Encoders.                                     *)
(***************************************************************************)
EXTENDS EncodersProperties

Key == <<186, 206, 161, 5>>

Letters(n) == [i \in 1 .. n |-> 97 + (i % 26)]
Markup(n)  == [i \in 1 .. n |-> 60 + (i % 3)]
Payloads(n) == [i \in 1 .. n |-> (7 * i) % 256]

\* With and without the client key in the headers, at both ends.
SessionId == {0, 1, 127, 128, 129, 254}

\* Numbers whose bytes differ, and the ends of their range.
Number == {0, 1, 255, 256, 4660, 65535}

Make(op, sid, n, name, type, body) ==
  [op |-> op, sid |-> sid, seq |-> n, req |-> (n + 513) % 65536,
   oid |-> (n + 1027) % 65536, parent |-> (n + 2055) % 65536,
   name |-> name, type |-> type, body |-> body]

-----------------------------------------------------------------------------
(* A small tx_buf, every length of text up to and past it. *)

SmallLiterals ==
  [participant |-> <<Markup(2), Markup(1)>>, publisher |-> <<Markup(5)>>,
   subscriber |-> <<Markup(30)>>, topic |-> <<Markup(2), Markup(1), Markup(2)>>,
   writer |-> <<Markup(3), Markup(1), Markup(2)>>, reader |-> <<Markup(4), Markup(1), Markup(2)>>]

SmallXmlMax == [op \in FormattedOps |-> 100]

SmallRequests ==
  UNION {
    {Make(op, sid, n, <<>>, <<>>, <<>>) :
       op \in {"client", "read", "publisher", "subscriber"}, sid \in SessionId, n \in Number},
    {Make("participant", sid, n, Letters(k), <<>>, <<>>) :
       sid \in {1, 129}, n \in {0, 4660}, k \in 0 .. 24},
    {Make(op, sid, n, Letters(k), Letters(j), <<>>) :
       op \in {"topic", "writer", "reader"}, sid \in {1, 129}, n \in {4660},
       k \in 0 .. 10, j \in {1, 2, 4, 9, 12}},
    {Make("topic", sid, 1, <<Slash>> \o Letters(k), Letters(2), <<>>) :
       sid \in {1, 129}, k \in 0 .. 10},
    {Make("write", sid, n, <<>>, <<>>, Payloads(k)) :
       sid \in SessionId, n \in Number, k \in {0, 1, 4, 7}}}

-----------------------------------------------------------------------------
(* The literals, the capacities and the buffer of the crate; names up to   *)
(* the longest that fits and beyond, type names up to those of the crate.  *)

CrateLiterals ==
  [participant |-> <<Markup(30), Markup(34)>>, publisher |-> <<Markup(58)>>,
   subscriber |-> <<Markup(61)>>, topic |-> <<Markup(18), Markup(17), Markup(25)>>,
   writer |-> <<Markup(50), Markup(17), Markup(39)>>,
   reader |-> <<Markup(50), Markup(17), Markup(39)>>]

CrateXmlMax ==
  [participant |-> 128, topic |-> 256, writer |-> 320, reader |-> 320]

CrateRequests ==
  {Make("participant", sid, 256, Letters(k), <<>>, <<>>) : sid \in {1, 129}, k \in {0, 1, 63, 64, 65, 99}}
    \cup {Make(op, 129, 4660, <<Slash>> \o Letters(k), Letters(j), <<>>) :
            op \in {"topic", "writer", "reader"}, k \in {1, 92, 93, 94}, j \in {27, 32}}
    \cup {Make("write", sid, 4660, <<>>, <<>>, Payloads(k)) : sid \in {1, 129}, k \in {4, 752}}

-----------------------------------------------------------------------------
SmallBuild ==
  [tx |-> 44, literals |-> SmallLiterals, xml |-> SmallXmlMax, topic |-> 9,
   requests |-> SmallRequests]

CrateBuild ==
  [tx |-> 768, literals |-> CrateLiterals, xml |-> CrateXmlMax, topic |-> 96,
   requests |-> CrateRequests]

Builds == {SmallBuild, CrateBuild}

=============================================================================
