----------------------------- MODULE MCParsers -----------------------------
(***************************************************************************)
(* Values for model checking Parsers: ids whose two bytes differ, and ids  *)
(* that are each other's bytes the wrong way round.                        *)
(***************************************************************************)
EXTENDS ParsersProperties

\* 0x0116 and 0x1601: two readers; 0x0126 is not in the table.
TwoReaders == {278, 5633}
Oid == TwoReaders \cup {294}

Requests == {1, 256}

Statuses == {0, 1, 129}

Sample == <<0, 1, 0, 0, 22, 5>>

Status(req, status) == Submessage(SubmsgStatus, req, 278, status, <<>>)
StatusAgent(status) == Submessage(SubmsgStatusAgent, 0, 0, status, <<>>)
Data(oid, user)     == Submessage(SubmsgData, 0, oid, 0, user)
Heartbeat           == Submessage(SubmsgHeartbeat, 0, 0, 0, <<>>)

Subs == {Status(1, status) : status \in Statuses}
          \cup {Status(256, 0), StatusAgent(0), StatusAgent(129)}
          \cup {Data(oid, Sample) : oid \in Oid}
          \cup {Data(278, <<>>), Heartbeat}

\* One submessage, whole or cut at any byte, or two.
Frames ==
  {[subs |-> <<sub>>, cut |-> cut] : sub \in Subs, cut \in 0 .. 11}
    \cup {[subs |-> <<sub, next>>, cut |-> 0] :
            sub \in Subs, next \in {Status(1, 0), Data(278, Sample)}}

=============================================================================
