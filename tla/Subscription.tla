---------------------------- MODULE Subscription ----------------------------
(***************************************************************************)
(* The static subscription slots (src/subscription.rs): the DataReader id  *)
(* a slot is registered under and its bounded inbox.  The session's task   *)
(* calls SetDrId and TryDeliver, the user's tasks call Recv; each is one   *)
(* critical section of the slot, so each is one step.  Slots are static:   *)
(* they outlive the session that registered them.                          *)
(***************************************************************************)
EXTENDS XrceProtocol

CONSTANTS
  Slot,     \* the program's static slots
  NoSlot,
  Depth     \* N, the capacity of an inbox

ASSUME SubscriptionAssumption ==
  /\ NoSlot \notin Slot
  /\ Depth \in Nat \ {0}

VARIABLES
  drId,     \* drId[s]: the DataReader s is registered under
  inbox,    \* inbox[s]: the samples delivered to s and not yet received
  bound,    \* history: the topic s was last registered for
  last      \* history: the number of the last sample delivered since

slotVars == <<drId, inbox, bound, last>>

Sample == [topic: Topic, n: Nat]

SubscriptionTypeOK ==
  /\ drId \in [Slot -> Oid \cup {NoOid}]
  /\ inbox \in [Slot -> Seq(Sample)]
  /\ \A s \in Slot : Len(inbox[s]) <= Depth
  /\ bound \in [Slot -> Topic \cup {NoTopic}]
  /\ last \in [Slot -> Nat]

SubscriptionInit ==
  /\ drId = [s \in Slot |-> NoOid]
  /\ inbox = [s \in Slot |-> <<>>]
  /\ bound = [s \in Slot |-> NoTopic]
  /\ last = [s \in Slot |-> 0]

-----------------------------------------------------------------------------
SetDrId(s, oid, topic) ==
  /\ drId' = [drId EXCEPT ![s] = oid]
  /\ bound' = [bound EXCEPT ![s] = topic]
  /\ last' = [last EXCEPT ![s] = 0]
  /\ UNCHANGED inbox

\* try_deliver: a sample that does not deserialize, or that finds the inbox
\* full, is dropped; the samples already in the inbox are kept.
Accepts(s, data) == data.good /\ Len(inbox[s]) < Depth

\* Mutant: a full inbox gives up its oldest sample.
TryDeliverNewest(s, data) ==
  /\ IF data.good
     THEN /\ inbox' = [inbox EXCEPT ![s] =
                         Append(IF Len(@) < Depth THEN @ ELSE Tail(@),
                                [topic |-> data.topic, n |-> data.n])]
          /\ last' = [last EXCEPT ![s] = data.n]
     ELSE UNCHANGED <<inbox, last>>
  /\ UNCHANGED <<drId, bound>>

TryDeliver(s, data) ==
  /\ IF Accepts(s, data)
     THEN /\ inbox' = [inbox EXCEPT ![s] = Append(@, [topic |-> data.topic, n |-> data.n])]
          /\ last' = [last EXCEPT ![s] = data.n]
     ELSE UNCHANGED <<inbox, last>>
  /\ UNCHANGED <<drId, bound>>

\* recv and try_recv take the oldest sample; recv waits while there is none.
Recv(s) ==
  /\ inbox[s] # <<>>
  /\ inbox' = [inbox EXCEPT ![s] = Tail(@)]
  /\ UNCHANGED <<drId, bound, last>>

=============================================================================
