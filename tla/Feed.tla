-------------------------------- MODULE Feed --------------------------------
(***************************************************************************)
(* What a subscription promises to the task that receives from it: once    *)
(* its slot is registered for a topic, the inbox receives samples of that  *)
(* topic only, in the order of the reader that streams them, none twice;   *)
(* a full inbox keeps what it has and misses the newer sample.             *)
(***************************************************************************)
EXTENDS Naturals, Sequences

CONSTANTS Slot, Topic, NoTopic, Depth, Position

VARIABLES
  bound,   \* bound[s]: the topic s is registered for
  inbox,   \* inbox[s]: the samples waiting to be received
  last     \* last[s]: position in the reader's stream of the newest delivered

vars == <<bound, inbox, last>>

Init ==
  /\ bound = [s \in Slot |-> NoTopic]
  /\ inbox = [s \in Slot |-> <<>>]
  /\ last = [s \in Slot |-> 0]

Register(s) ==
  /\ \E t \in Topic : bound' = [bound EXCEPT ![s] = t]
  /\ last' = [last EXCEPT ![s] = 0]
  /\ UNCHANGED inbox

Deliver(s) ==
  /\ bound[s] \in Topic
  /\ Len(inbox[s]) < Depth
  /\ \E n \in Position :
       /\ n > last[s]
       /\ last' = [last EXCEPT ![s] = n]
       /\ inbox' = [inbox EXCEPT ![s] = Append(@, [topic |-> bound[s], n |-> n])]
  /\ UNCHANGED bound

Take(s) ==
  /\ inbox[s] # <<>>
  /\ inbox' = [inbox EXCEPT ![s] = Tail(@)]
  /\ UNCHANGED <<bound, last>>

Next == \E s \in Slot : Register(s) \/ Deliver(s) \/ Take(s)

Spec == Init /\ [][Next]_vars

=============================================================================
