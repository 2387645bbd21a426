------------------------------ MODULE Counters ------------------------------
(***************************************************************************)
(* The counters of a session at the width they have (src/session.rs):      *)
(* request ids, sequence numbers and the indices of the entities of every  *)
(* kind.  Session bounds its indices below the first id that returns; here *)
(* they go on until they wrap, in a release build, or panic, in a debug    *)
(* build.                                                                  *)
(***************************************************************************)
EXTENDS Naturals, Sequences, SequencesExt

CONSTANTS
  Kind,        \* entity kinds
  Span,        \* values of a u16 (65536)
  IdxSpan,     \* indices that an ObjectId tells apart (4096)
  Checked      \* whether arithmetic is checked for overflow: debug builds

ASSUME CountersAssumption ==
  /\ Span \in Nat \ {0, 1} /\ IdxSpan \in Nat \ {0, 1}
  /\ Span % IdxSpan = 0    \* 16 bits and 12 bits
  /\ Checked \subseteq BOOLEAN
  /\ Kind \cap {"req", "seq"} = {}

VARIABLES
  build,       \* whether this build checks
  reqId,       \* req_id
  seq,
  idx,         \* next_participant_idx ... next_dr_idx
  panicked,
  given        \* history: the latest numbers from each counter, oldest first

vars == <<build, reqId, seq, idx, panicked, given>>

Counter == Kind \cup {"req", "seq"}

\* The most numbers in a row that can all be different.
Window(c) == CASE c = "req" -> Span - 1 [] c = "seq" -> Span [] OTHER -> IdxSpan

CountersTypeOK ==
  /\ reqId \in 1 .. Span - 1
  /\ seq \in 0 .. Span - 1
  /\ idx \in [Kind -> 0 .. Span - 1]
  /\ \A kind \in Kind : build => idx[kind] # 0

Init ==
  /\ build \in Checked
  /\ reqId = 1 /\ seq = 0
  /\ idx = [kind \in Kind |-> 1]
  /\ panicked = FALSE
  /\ given = [c \in Counter |-> <<>>]

\* The number n is handed out.
Give(c, n) ==
  LET all == Append(given[c], n)
  IN  given' = [given EXCEPT ![c] =
                  IF Len(all) > Window(c) THEN Tail(all) ELSE all]

\* Mutant: 0 is handed out after the wrap.
NextReqZero ==
  /\ ~panicked
  /\ Give("req", reqId)
  /\ reqId' = (reqId + 1) % Span
  /\ UNCHANGED <<build, seq, idx, panicked>>

\* wrapping_add(1).max(1)
NextReq ==
  /\ ~panicked
  /\ Give("req", reqId)
  /\ reqId' = IF reqId + 1 = Span THEN 1 ELSE reqId + 1
  /\ UNCHANGED <<build, seq, idx, panicked>>

\* wrapping_add(1)
NextSeq ==
  /\ ~panicked
  /\ Give("seq", seq)
  /\ seq' = (seq + 1) % Span
  /\ UNCHANGED <<build, reqId, idx, panicked>>

\* The index in the object id: idx << 4 in 16 bits.
IdOf(n) == n % IdxSpan

\* Mutant: the wrap skips 0, as that of a request id does.
AllocSkipsZero(kind) ==
  /\ ~panicked
  /\ Give(kind, IdOf(idx[kind]))
  /\ idx' = [idx EXCEPT ![kind] = IF @ + 1 = Span THEN 1 ELSE @ + 1]
  /\ UNCHANGED <<build, reqId, seq, panicked>>

\* alloc_participant and the like: n += 1.
Alloc(kind) ==
  /\ ~panicked
  /\ build => idx[kind] + 1 < Span
  /\ Give(kind, IdOf(idx[kind]))
  /\ idx' = [idx EXCEPT ![kind] = (@ + 1) % Span]
  /\ UNCHANGED <<build, reqId, seq, panicked>>

\* The addition behind the last index overflows before that index is returned.
AllocPanics(kind) ==
  /\ ~panicked
  /\ build
  /\ idx[kind] + 1 = Span
  /\ panicked' = TRUE
  /\ UNCHANGED <<build, reqId, seq, idx, given>>

Next == NextReq \/ NextSeq \/ (\E kind \in Kind : Alloc(kind) \/ AllocPanics(kind))

Spec == Init /\ [][Next]_vars

-----------------------------------------------------------------------------
\* An object id returns only after all the others of its kind, and a request
\* id only after all the others, also where the counter wraps: 0 is an index
\* like any other, and no request id.
LateReuse ==
  \A c \in Counter : Len(given[c]) = Cardinality(ToSet(given[c]))

=============================================================================
