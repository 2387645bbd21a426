# micro-xrce-dds-rs: a TLA+ model, its checks and its proofs

This project models the `no_std` micro-ROS client of this repository: the
XRCE-DDS session (`src/session.rs`), the static subscription slots it delivers
to (`src/subscription.rs`), the handles it hands out (`src/publisher.rs`,
`src/node.rs`) and the identifiers it speaks with (`src/protocol.rs`), together
with the agent and the TCP connection it talks to; and, byte by byte, the framing
(`src/framing.rs`), the encoders and parsers of the messages (`src/session.rs`),
the CDR bodies (`src/cdr.rs`, `src/cdr_reader.rs`) and the message types
(`src/ros2/msg`). TLC checks small instances; TLAPS proves the main safety
properties for every value of the constants.

## The system

| Part | State it keeps | Operations | Talks to |
|---|---|---|---|
| `Session` (session.rs) | `req_id`, `seq`, six index counters, the dispatch table of at most 8 slots, one transmit and one receive buffer, the transport | `connect`, `create_node`, `create_publisher`, `create_subscription`, `publish`, `spin_once`, `spin` | the transport; `set_dr_id` and `try_deliver` of the slots |
| `Subscription` slots (subscription.rs) | `dr_id`, a bounded inbox (embassy `Channel`) | `set_dr_id`, `dr_id`, `try_deliver`; `recv`, `try_recv` for user tasks | called by the session's task and by user tasks |
| `Publisher`, `Node` handles | an object id, three indices; plain copies, no lifetime | none | passed back into `Session` |
| Identifiers (protocol.rs) | none | `object_id`, submessage and status codes | used by the encoders |
| Framing (framing.rs, `read_one_frame`) | what a dropped future leaves in the byte stream | `write_framed`, `read_framed` | the transport |
| Wire encoders, parsers (session.rs) | `MsgWriter`: position, overflow flag | `encode_*`, `parse_*` | the buffers of `Session` |
| CDR (cdr.rs, cdr_reader.rs, message.rs) | a position in a buffer | typed reads and writes with alignment | `publish`, `try_deliver` |
| Message types (ros2/msg) | none | `serialize`, `deserialize` | CDR |
| Agent and TCP (external) | entities, readers that stream, replies owed, bytes in flight | serve, answer, stream | both ends of the connection |

Who runs at the same time. A `Session` is borrowed mutably by every method, so
one call is in progress at a time; but each call awaits the transport, its
future may be dropped at any await (a timeout, a `select`), and that is how a
task that spins gets to publish at all. User tasks receive from the slots while
the session's task delivers and registers. The agent serves, answers and
streams at its own pace; the connection is FIFO each way and may break.

What is hard here, and what makes the parts correct:

- A create method is two or three round trips. A call that is dropped or refused
  midway leaves entities on the agent, indices taken, and a STATUS that arrives
  in some *later* call. No handle, and no slot of the dispatch table, may ever
  stand for an entity that is not there or is another's
  (`HandlesBacked`, `WritesOnTopic`, `OkLeavesInStep`).
- Object ids have 12 bits of index and request ids 16 bits, and 0 is no request
  id (`LateReuse`, `TypeOK`).
- Slots are static: they outlive the session that registered them, while the
  next session hands out the same object ids to other readers, and the agent may
  have kept the old ones (`FeedSpec`).
- Samples come at any time, also while a call waits for its STATUS; each must
  reach the one slot of its reader, in order, and never another
  (`SamplesRouted`, `RoutesDistinct`, `FeedSpec`).
- The capacity check of the table is made three awaits before the push
  (`RoomForPush`).
- A call waits for a STATUS with no timeout of its own (`CallReturns`), and a
  connection that is one reply behind must have a way back (`SpinDrains`).
- The transport takes and gives any part of what it is asked to, a future may be
  dropped with a frame half written or half read, a frame may not fit the buffer,
  and nobody resynchronises (`ChannelSpec`, `ReaderInStep`, `FramesArrive`,
  `FlushedArrive`).
- `CdrWriter` lets its position run past the end of the slot and nobody looks
  afterwards; buffers are reused and hold the previous message (`BodyIsPrefix`,
  `OkMeansWhole`, `PanicsOnlyBeyond`). `MsgWriter` does look, and the crate's
  messages are far from the end of `tx_buf` (`RefusedIfTooLong`, `SlicesInRange`);
  the texts it is given have been cut silently where they did not fit.
- A body is laid out before the headers in front of it, aligned from its own first
  byte, cut by the slot or on its way, and read back by a list of fields that is
  written down a second time (`RoundTrip`, `RefusedForCause`, `ReadToTheEnd`,
  `HeardAsMeant`, `WithinMaxSize`).
- A received length may disagree with the frame it is in, in a buffer whose rest
  is an older frame (`ReadAsMeant`, `CutSaysNoMore`).

The full list, with the line each hazard bites at, is `hazards` in PROJECT.json.

## The modules

| Module | What it is | Code |
|---|---|---|
| `XrceProtocol` | kinds, `ObjectId`, `NextReqId`, the submessages as records | protocol.rs; `next_req`, `encode_*`, `parse_*` of session.rs |
| `Subscription` | the slots: `SetDrId`, `TryDeliver`, `Recv` | subscription.rs |
| `Agent` | external: the agent and both directions of the connection | what session.rs and protocol.rs expect of it |
| `Session` | the session between application, slots and agent; `Spec`, `FairSpec` | session.rs, framing.rs as whole frames |
| `Feed` | abstract: what a task that receives from a slot is promised | the docs of `Subscription` |
| `SessionProperties` | what is checked | |
| `SessionInvariant` | the inductive invariants, and what the proofs assume | |
| `MCSession` | what TLC runs | |
| `SessionProofs`, `HandleProofs` | the proofs: calls and connection; entities, handles, samples and `Feed` | |
| `Counters`, `CountersProofs` | request ids, sequence numbers and indices over their whole range | `next_req`, `next_seq`, `alloc_*` of session.rs, `object_id` |
| `FrameChannel` | abstract: a channel of whole frames, until it is torn | the docs of framing.rs |
| `Framing`, `FramingProperties`, `FramingInvariant`, `MCFraming` | one direction of the connection, byte by byte | framing.rs; `read_one_frame`, `read_exact` of session.rs |
| `Bytes` | numbers as bytes | `to_le_bytes`, `object_id_be_bytes` and the like |
| `Encoders`, `EncodersProperties`, `MCEncoders` | what the session sends: `MsgWriter`, the encoders, the XML texts; an agent that reads it | session.rs, protocol.rs |
| `Parsers`, `ParsersProperties`, `MCParsers` | what the session receives, in a buffer with an older frame behind it | session.rs, protocol.rs |
| `Cdr` | the typed methods of `CdrWriter` and `CdrReader` as uses of their helpers | cdr.rs, cdr_reader.rs |
| `Codec`, `CodecProperties` | a body from `publish` to `deserialize`, one helper call a step | cdr.rs, cdr_reader.rs, `publish` of session.rs |
| `Messages`, `MCCodec` | the message types: what each writes and what it reads | ros2/msg, message.rs |
| `FramingProofs`, `CodecProofs`, `EncodersProofs`, `ParsersProofs` | the proofs about framing, the CDR bodies, the encoders and the parsers | |
| `BytesProofs` | lemmas about numbers as bytes and parts of sequences, for the last three | |

How they fit together. `Session` treats a frame as a record that is there or not.
`Framing` is what makes that right as long as no frame is given up inside, and what
breaks it when one is; that is not followed into `Session`.
`Encoders` shows that the records of `XrceProtocol` are what an agent
reads in the bytes, `Parsers` that a session takes the agent's bytes for what
`Session` calls `Status` and `Data`, and `Codec` what the `good` flag of a sample
stands for. `Parsers` ends where a slot gets the bytes (`Delivered`); that the slot
may refuse them is in `Subscription`. `Counters` lifts the bounds that `OneLife` puts on `Session`.

How state and actions correspond to the code:

- `pc` is the await the call in progress is suspended at: `write` (in
  `write_framed`), `handshake` (in `read_framed` of `connect`), `wait` (in
  `wait_status_for`), `spin` (in `spin_once`), or `idle`. A step of the model is
  the code from one await to the next: the future of `create_subscription` that
  reads the STATUS of READ_DATA sets the slot's `dr_id`, pushes it and returns in
  one step, because no await is between.
- `call` holds what lives in the future and in `tx_buf`: the method, how many of
  its requests have been encoded, the message, the node, the topic and the slot.
- A request takes its id and its index when it is encoded, before the write, as
  in the code; `create_node` takes its three indices before its first request.
- A call that ends where it is suspended (`GiveUp`) leaves indices and request ids
  taken, messages on the connection and the slot unregistered. `DropCall` is a
  dropped future, `TransportErrs` an error of a transport that goes on,
  `EncodeFails` an encoder's `BufferTooSmall` (which the sizes of the crate exclude:
  `Encoders`). `RefuseName` is the topic name that is too long, refused before an
  index is taken.
- `TransportFails` ends a call on a broken connection with either of the two
  transport errors; `LinkFails` breaks it. What is written after that is lost;
  the agent still serves what it had, and sends nothing.
- `WaitData` and `SpinFrame` dispatch to the *first* slot of the table whose
  `drId` matches, as the loop of `dispatch_data_payload` does. `WaitMismatch`
  is the code's reaction to a STATUS of another request: the call ends.
- A `Topic` is a topic with its message type: distinct topics have distinct
  types wherever a property speaks of types. The `good` flag of a sample stands
  for whether `deserialize` succeeds.
- `bound` and `last` in `Subscription` are history variables: the topic a slot
  was last registered for and the position of the newest sample delivered.
  Nothing in the model reads them.
- The agent answers CREATE and READ_DATA with one STATUS each, in order; it may
  refuse any request; a CREATE of an id that exists reuses the entity or, if it
  is for another topic, replaces it, as FLAG_REUSE and FLAG_REPLACE in the
  encoder ask; at a new CREATE_CLIENT it may keep the entities of the old
  session, readers that stream included, or forget them.

In the byte-level modules:

- `Framing`: `wpc` and `rpc` are the awaits `write_framed` and `read_framed` are
  suspended at. `rest` is what `write_all` has still to write, `got` and `need`
  what `read_exact` has read and was asked for. Every completion of a `write` or
  a `read` is a step, with any number of bytes the transport may take or give;
  the step that completes a buffer also starts the next await, as the code does.
  `WriteFails` and `ReadFails` are both errors (`Io`, and `Disconnected` for 0
  bytes) at the end of the connection. `GiveUpWrite` and `GiveUpRead` are a dropped
  future, and an error of a transport that goes on: both leave the rest of a frame
  behind. `Interruptible` says on which side they happen.
  `sent`, `ends`, `received`, `torn` and `flushed` are history.
  `read_one_frame` of session.rs repeats `read_framed` word for word and shares
  its actions.
- `Codec`: `calls` are the uses of `align` and `raw` that the typed method in
  progress has still to make, `takes` those of `align` and `take`. `buf` begins
  with `Stale` in every byte, which no write puts there. `laid` is the layout
  without an end; only properties read it. `WritePanics` is the slice
  `buf[pos..]` with `pos` beyond the end.
- `Encoders`: an encoder is the list of the calls it makes of `MsgWriter`, each
  executed in a step of its own with the position and the overflow flag as the
  code has them. `?` and the check at the end of an encoder are the calls
  `check`. For `publish` the buffer begins with the body in place, behind
  `Prefix`. A text is a list of bytes nobody looks into, with the lengths of the
  literals in the code; the two that are not formatted are never cut. `connect`
  encodes into 64 bytes of its own (`TxLen`).
- `Parsers`: `Receive` puts a frame in front of what is left of the last one, for
  one of the three readers of frames; `connect` has a buffer of its own, and
  a new session an empty one (`BufLen`, `Before`); the next step is what that reader does with
  it. `frame` keeps what the agent meant, for the properties.
- `Counters`: `build` says whether arithmetic is checked. `given` keeps the latest
  numbers, as many as may differ.

## What is checked

Every run explores all its states. `CHECK_DEADLOCK FALSE` everywhere: an
application that has used up its calls, whose connection is down with no session
left to open, whose message has been read or whose counter has panicked, really
stops.

| Run | Instance | Shows |
|---|---|---|
| `subscribe` | 1 node, 2 publishers, 2 subscriptions, 2 slots, 2 topics, 3 samples a reader, inbox of 2, short frames, request ids wrap at 8, calls dropped or failed anywhere, agent may refuse | what was returned Ok for exists, for its topic; no two slots have one reader; a sample sent is served by a writer of its publisher's topic; every sample received that has room reaches the slot of its reader and no other; each slot implements `Feed`; a create call that returns Ok leaves nothing on the connection |
| `reconnect` | 2 sessions with 1 node and 2 subscriptions each, spin, a dispatch table of 1, an inbox of 1, 2 topics (interchangeable: symmetry), 2 samples a reader, agent that keeps or forgets, one slot re-registered under an inherited id | `SessionInv`, the inductive invariant of the proofs; samples are delivered in both sessions, and the slot implements `Feed` over both: none of the old reader's gets in after the registration; the push finds room |
| `returns` | 2 nodes, 2 subscriptions, unknown frames, `FairSpec` | every call that has begun to send returns; spin drains the STATUS replies that dropped calls left |
| `frames` | payloads of 0, 2 and 3 bytes into a buffer of 2, all that fit in 7 bytes, partial reads and writes, both futures dropped or failed anywhere, the connection closed or reset, `FairSpec` | `Framing` implements `FrameChannel`: whole frames in order until one is given up inside; between frames the reader is at the first byte of one (with `FramingInv`, the inductive invariant of the proofs); every frame taken is read, and one whose `write_framed` returned Ok even if the connection is closed right after |
| `codec` | every message of up to 3 fields of 8 kinds and the crate's types with strings of 0 to 751 bytes; 12 lengths of the slot, 752 and 756 among them; 0, 1, 3 or 5 bytes missing on receipt | each type reads the fields it writes; a prefix of the layout is sent, no stale byte; what is read is what was written or an error, and an error has a cause; `MAX_SERIALIZED_SIZE` bounds each type; nothing that fits panics |
| `encode` | two builds: every operation with numbers at the ends of their ranges and texts of every length around a `tx_buf` of 44 bytes; the lengths of literals, capacities and buffers of the crate, with names up to the longest that fit and beyond | an agent reads what was meant; exactly the messages that do not fit are refused; no slice starts beyond the end |
| `parse` | two frames in a row in buffers of 40 bytes, 30 for `connect`, of one or two submessages, whole or cut at any byte, with and without a client key | a whole frame means its first submessage; one cut short says no more than that |
| `counters` | `Span = 12`, `IdxSpan = 4`, checked and unchecked builds | an id returns only after all the others; no request id 0 |

Four runs end in a violation of something the repository says; `findings` in
PROJECT.json quotes it:

| Run | What the code does |
|---|---|
| `mismatch` | After one dropped create call, the next one reads its stale STATUS and fails with `StatusReqMismatch` although its own STATUS is on its way; the one after that reads that one. "Read frames until we see the STATUS for `expected_req`" is not what happens. Only `spin` gets back in step (`SpinDrains`). |
| `early_sample` | A sample that overtakes the STATUS of READ_DATA finds the slot not registered yet and is dropped, which the comment in `send_read_data` means to handle. Setting `dr_id` and pushing right after the DataReader's CREATE is granted would keep it. Doing so *before* that CREATE would be wrong: the reader the agent kept from an earlier session may stream another topic under the same id. The mutant `SubscriptionGoesOnRegistered` does that, and `FeedSpec` fails. |
| `dropped_read` | A read dropped or failed inside a frame has taken bytes the next call does not know of; that call reads from the middle of the frame, and all later ones too. A write given up inside a frame, and a frame longer than the buffer, whose payload stays unread, do the same to the connection (the other ways to `torn` in `Framing`; this run has only the read). |
| `oversize` | A message longer than the slot is sent without its end, and `publish` returns Ok: the check compares a length that is capped at the slot with the slot. |

`mismatch` needs a dropped call, `early_sample` a fast sample, both ordinary;
`dropped_read` needs a `select` or a timeout around a call, which is how a task that
spins gets to publish; `oversize` a long message.

What the models show the code to do besides, without a run of its own:

- Two indices of one kind 4096 apart give one object id: `LateReuse` says that no
  fewer will do, and `NoAliasing` keeps the proofs below it.
- A `Publisher<A>` kept over a reconnect writes through the writer of a
  `Publisher<B>` of the new session; no lifetime prevents it. `WritesOnTopic` holds
  for `KeepsHandles = FALSE`, and fails for `TRUE` with two sessions.
- Writing on behind a field that went past the end panics, even to write nothing: a
  string of 752 bytes in a slot of 752, whose null byte comes next (`WritePanics`;
  `PanicsOnlyBeyond`).
- A node name of more than 64 bytes, or a type name too long for its `String`, is
  left out with the rest of its XML document, and the CREATE is sent: the result of
  `write!` is ignored (`Formatted`). The names of `encode` go beyond that length; no
  property asks for the whole document, because the code does not send it.
- A second submessage in a frame is not looked at; `ReadAsMeant` speaks of the first.

Each property of a passing run has a mutant of the code, kept beside the
definition it changes, that makes it fail: dropped checks, stale registrations,
an id that wraps to 0, an index not taken, a STATUS taken for another, a length
that counts itself, a flush not awaited, padding not written, a byte order, a
field not read.

### Bounds

`MaxSessions`, `MaxNodes`, `MaxEndpoints` bound the calls of the application;
`MaxSent` the samples of a reader (two in `reconnect`: one before and one after the
reader of that id is registered); `MaxFlight` the messages towards the agent
and the unsolicited frames towards the client, replies excepted. Everything
else is the code's own limit at a smaller value: `IdxSpan` for 4096, `ReqSpan`
for 65536, `MaxSubscriptions` for 8, `Depth` for `N`. Two endpoints are enough
for a stale STATUS to reach a later call, for that call's own STATUS to become
stale in turn, and for two slots to compete for a sample; two topics tell right
from wrong entities; two sessions give every inherited id its second owner. Topics are
interchangeable in `reconnect`, and every property of it is symmetric in them. With
`ReqSpan = 8` the request ids of `subscribe` wrap within the run. That wrap is
harmless in this instance because fewer requests are ever
outstanding at once than there are ids: a stale STATUS that has the id of the request
being waited for does not occur. That this is so for 65536 ids in a
session that wraps is not proved (see below).

In the byte-level modules the bounds are these.

- `Framing`: bytes of `Base = 3` values, so that a length takes two bytes, goes up
  to 8, and payload bytes taken for a length give one that is 0, fits, or does not
  fit. `MaxBytes` of 7 holds a frame of every length with another behind it, or
  three empty ones; the second is the one that a tear reaches. The writer of the
  crate has no empty payload to send; it is there because both functions take one.
- `Codec`: three fields show every alignment against every other with one field
  behind; the small slots end inside a scalar, a string, its null, an array, padding
  and between fields, 752 and 756 are `TX_BUF_SIZE` less the headers with and
  without the client key.
- `Encoders`: a `tx_buf` of 44 is passed by texts of every operation at every
  remainder modulo 4; 768 is the real size. `EncodersAssumption` asks for even
  sizes: with an odd one the alignment behind the text of a participant could go
  past the end after `cdr_string` has checked, and `bytes` would slice there.
- `Parsers`: `RxLen` holds the longest frame of the instance, two samples behind a
  header with a client key (38 bytes); `ConnectLen` is passed by the longer frames, as
  the 128 bytes of `connect` are passed by those for 512. Two frames are one and what
  it leaves behind. The ids include 0x0116 and 0x1601, each the other
  with its bytes exchanged.
- `Counters`: `Span` is a multiple of `IdxSpan`, as 2^16 is of 2^12.

### Fairness

`FairSpec` assumes weak fairness of `Progress`, that is of the executor polling
the one call whose transport is ready; and of the agent serving (`AgentServes`)
and sending what it owes (`AgentReplies`). It assumes nothing of the application:
it may never call, drop every call, or never receive; nor that the link breaks
or holds. That the agent answers every request is assumed: a STATUS that never comes
keeps a call waiting, and the code has no timeout of its own.
`SpinDrains` needs no more because `spin` reads frames as they come.

`FairSpec` of `Framing` assumes weak fairness of the writer's and the reader's
steps (`Writes`, `Reads`: the executor polls a future whose transport is ready),
of `Transmit` (TCP sends what it has taken) and of `ReadFramed` (`spin` reads
again after each frame). That both futures may be given up stays; `FramesArrive` and
`FlushedArrive` have the premise `ReaderStays`, that reads are given up finitely often,
because a reader dropped for ever before its first byte reads nothing and nothing in
the code prevents that.

## What is proved

The proofs hold for every set of topics and slots, every depth, capacity and
bound, from the named ASSUMEs of the modules (`ProtocolAssumption`,
`SubscriptionAssumption`, `AgentAssumption`, `SessionAssumption`).

`SessionProofs`, with no further assumption:

- `TypeCorrect`: `Spec => []TypeOK`. `TypeOK` alone is not inductive: that the
  message, topic and slot of a call are there when a step uses them depends on
  which call is suspended where. `CallFits` says that, and `TypeInv` is both.
- `PushNeverFails`: `Spec => []RoomForPush`. Inductive together with the bound on
  the table (`RoomInv`): only `SubscriptionReady` adds to the table, it ends the
  call that held the room, and calls do not overlap.

The theorems about the connection, the entities and the samples hold within
`OneLife`: the indices of a session
stay below the 12 bits of an object id (`NoAliasing`), the requests of a session
below the number of request ids (`NoWrap`), and the application drops its handles
with the session (`~KeepsHandles`). The first and the last are needed, as said
above;
`NoWrap` is what makes "the STATUS with my request id" mean "my STATUS" by
counting alone.

- `InStepAfterOk` (`SessionProofs`): `OkLeavesInStep`.
- `HandlesAreBacked`, `RoutesAreDistinct`, `WritesReachTheirTopic`
  (`HandleProofs`): `HandlesBacked`, `RoutesDistinct`, `WritesOnTopic`.
- `SamplesAreRouted`, `SessionFeedsSlots` (`HandleProofs`): `SamplesRouted`, and
  `FeedSpec`, the refinement of `Feed` by every slot.

The argument has four layers, each an invariant on top of the ones before.

1. `CountersInv` ties the request id and the six counters to the calls made,
   counting the requests a call may still make (`Left`) and a topic whose writer
   or reader is not yet created (`HalfMade`). Under `OneLife` no id is then ever
   given twice (`CountersStep`).
2. `PipeInv`: before `connect` returns Ok there is only CREATE_CLIENT or its reply
   on the connection (`Connecting`). After that requests, the replies owed and the
   replies sent carry increasing ids, and every reply comes before every request
   (`QueuesInOrder`); the request of the call in progress is the last
   (`CallInOrder`). So when a call reads the STATUS it waits for, there is
   nothing else left on the connection (`LastAnswer`): `InStepAfterOk`.
3. `EntityInv`: what handles, registered slots and the half-done call rely on
   (`Owned`) has ids already given out, and no CREATE on its way, nor the one
   about to be written, is for any of them (`Settled`). So the agent, which may
   replace entities at any CREATE, never replaces one of these
   (`EntityServeCreate`); and a call that is granted its request knows that the
   agent has just done it (`Served`). A request that a dropped call left behind
   may still create things, but nothing that anybody relies on.

4. `StreamInv`: the samples of a registered slot's reader that are on their way are
   of that reader's topic, in the order it streamed them (`InStream`), and newer than
   the slot's `last` (`SlotInStream`). The hard moment is `SubscriptionReady`: there
   must be nothing left on the connection of an older reader of the same id. There is
   not, because what the agent kept came out before the STATUS of the CREATE that
   replaced it (`CallInStream`), and layer 3 keeps the id out of later CREATEs.

A slot then implements `Feed` step by step: a step that dispatches a sample is
`Deliver` or leaves the slot alone, `SubscriptionReady` is `Register`, a receive is
`Take`, and every other step leaves `bound`, `inbox` and `last` as they are.

`SessionInv` collects the invariants; TLC checks it in `reconnect`, and
`SessionInvariantHolds` proves it.

`CodecProofs`, from `CodecAssumption` (fields turn into calls of `align` and `raw`,
and the types read are types of the reader) and nothing else, so for any messages,
any length of the slot and any number of bytes lost:

- `PublishSendsTheLayout`: `Spec => []BodyIsPrefix`. `BodyIsPrefix` speaks of the
  moment of sending only; `LayoutInv` says of every moment that `pos` is the
  length of the layout and that the buffer holds the layout's front up to the end
  of whichever is shorter (`BufferHoldsLayout`). A call of a helper adds the same
  bytes to both (`PutKeepsLayout`), what a panic leaves is not sent, and the
  reader touches neither.
- `PanicsBeyondTheSlot`: `PanicsOnlyBeyond`.
- `CodecTypeCorrect`: `CodecTypeOK`. What has content is the reader's side: that
  `length - 1` does not go below 0. `TypesInv` says that the calls left are the end
  of those of some type, so that the bytes of a string are asked for only right
  after its length (`ReadsType`, `TailTakes`), and a length of 0 skips them
  (`SkippedTakes`).
- `OkReturnsTheWritten`, `RefusesForCause`, `ReadsToTheEnd`: `RoundTrip`,
  `RefusedForCause` and `ReadToTheEnd`, of every message with `FieldsAgree`: its list
  of fields written and its list of types read agree one by one, and the length of a
  string fits the u32 before it. That is what the authors of a message type have to
  see to; the run `codec` checks it of every type of the crate, and that a type whose
  lists differ fails (the mutant `RangeMsgShort`).

The last three share the invariant `TripInv`. `MessageAt` says where in the layout
each field begins and ends, `FieldAt` and `CallsAt` where each call for a field does;
the writer is between two fields or inside one (`Between`, `Inside`). A call writes at
an offset of the whole body, so where a field ends depends on all before it: the ends
are a function that grows with the layout, and what is laid out stays (`Begins`).
The reader is at the same place of the same field: `Reading` says how many of its
calls are done, and `Stage` what they have taken, for each kind of field. It gets the
same bytes, because it pads by the same rule from the same position (`ReadOnScalar`,
`ReadOnF64s`, `ReadOnString`, `ReadOnZero`), or runs out, and then the body was
cut. With the last call of a field its end is the reader's position and its values are
read (`FieldRead`), so after the last field everything is.

`ParsersProofs`, from `ParsersAssumption`, for frames of any number of
submessages, cut anywhere, in front of any leftover in the buffer, and with
payloads of any length that the length field of a submessage can hold:

- `ParsersTypeCorrect`: `ParserTypeOK`.
- `FramesAreReadAsMeant`: `ReadAsMeant`.
- `CutFramesSayNoMore`: `CutSaysNoMore`.

The bytes of a frame are its header, the first submessage and the rest
(`FirstInFront`), so what a parser sees of a frame in the buffer is the header and
a front of the first payload (`FirstSeen`), whole if the frame is. The rest is what
the fields of a payload are at its bytes (`PayloadHas`), and that two bytes give
back the number they were made of (`TwoBytes`, from the uniqueness of quotient and
remainder). `BytesOf` gathers the submessages one by one, so that its first is in front
is shown by induction (`GatheredBegins`), and that a recursive function has values at
all too (`GatheredExists`). The library's induction rule takes an operator; `Induct` of
`BytesProofs` takes a set instead, and follows from < being well-founded.

`EncodersProofs`, from two assumptions, for any requests: any session id, numbers,
client key, names, types, literals and bodies. `EncodersAssumption`: `tx_buf` is even, has
room for a CREATE_CLIENT and not more than a u16 can count (768 is all three), and a
format string has the parts its arguments leave. `BodiesFit`: `serialize` lays out no
more than the slot it is given, which is what `CodecProofs` shows of it.

- `WriterTypeCorrect`: `WriterTypeOK`. What has content is `frame`: it is made of
  bytes, and a byte of `tx_buf` that was not written is none.
- `MessagesAreHeard`: `HeardAsMeant`.
- `RefusesOnlyTheTooLong`, `SlicesStayInRange`: `RefusedIfTooLong`, `SlicesInRange`.

The calls of an encoder are a list that is fixed at the start, and so are the position
and `hdr_off` behind each of them: `Lay` is that pair of functions (`LayExists`), which
grows with the calls (`LayGrows`). What it comes to is worked out once for each of the
four encoders (`ClientLays`, `CreateLays`, `ReadLays`, `WriteLays`). `Shape` is what the
steps need of it: the patch has only checks behind it (`Patches`), no slice begins
beyond the end unless a check before it fails (`Slices`), and the last position is the
length of the message. Here even sizes come in (`Odd`, `CreateShape`).

`EncInv` says of every moment that the calls made so far have left their bytes where
`Lay` puts them and nothing came later but the patched length (`Stage`); that holds
through a call that writes (`WriteStep`), one that only notes (`SilentStep`) and the
patch (`PatchStep`). It quantifies over the two functions of `Lay`, so TLC cannot
evaluate it; the run `encode` checks what follows from it. When a message is sent, its bytes are those of all its calls
(`HoldsSent`). `ReadSaid`, `WriteSaid`, `ClientSaid` and `CreateSaid` then read it as the
agent does, field by field: behind a string the agent is where the writer was, because
the length in front of it says so (`StringIs`), and the length of the payload that was
patched in, or computed first, is that of what follows (`LengthSaid`).

`CountersProofs`, from `CountersAssumption`, so at 2^16 and 2^12 as at any other
width, in both builds:

- `CountersTypeCorrect`: `CountersTypeOK`.
- `NumbersReturnLate`: `LateReuse`. A counter goes round a cycle, and what it gave
  out last are the numbers before the next one in that cycle (`Trail`), which are
  distinct as long as they go round no more than once (`TrailDistinct`). The id made
  of an index goes round the shorter cycle; where the index wraps the id goes on,
  because the one span is a multiple of the other.

`FramingProofs`, from `FramingAssumption`: for any set of payloads whose lengths fit
two bytes (`tx_buf` has 768), any buffer, any bound on the bytes and whoever's
futures are given up.

- `FramingTypeCorrect`: `FramingTypeOK`, with `FuturesFit` for what a suspended
  future has in its hands.
- `FramingInvariantHolds`, `ReaderStaysInStep`: `FramingInv`, `ReaderInStep`. The
  invariant speaks of the frames in front of the first tear (`Clean`): they are in
  the log where `ends` says (`LogHolds`), behind them is the front of the frame
  being written (`WriterInStep`) and never all of it (`FrontOnly`), and the reader
  has taken the frames received and the front of the next (`ReadsInStep`). While the
  connection lasts, only a future given up inside a frame and a frame longer than the
  buffer end one side's part of this, and both tear.
- `FramingIsAChannel`: `Spec => ChannelSpec`, step by step (`ChannelStep`). The case
  with content is a frame that is returned: a length that is followed by as many
  bytes cannot be that of a frame still being written, so it is the next one sent
  (`NextFrame`, `Delivered`).

Only model-checked:

- `FieldsAgree` and `WithinMaxSize`: whether the two lists of a message type agree and
  whether its bound is large enough are facts about data. The crate's message types
  are all run.
- Everything of `Session` with request ids that wrap.
- Liveness: `CallReturns`, `SpinDrains`, `FramesArrive`, `FlushedArrive`. Fairness is
  beyond the prover.

## What is not modelled

- The names of fields: a message is a list of values, so two fields of one type
  that `deserialize` exchanges would not be seen. The UTF-8 check of `StringOwned`
  always passes.
- The letters of the XML texts and of names; only their lengths and places.
- `usize` is unbounded. On a 32-bit target a string length near 2^32 makes
  `pos + n` in `take` (cdr_reader.rs:97) overflow.
- `CdrWriter::header` and `finish`, `CdrReader::from_body` and `remaining`: public,
  without a caller in the crate.
- `connect` of `Session` empties the connection and forgets what the old one
  carried: requests written to an old connection and not served are lost with it.
- `Framing` and `Session` are not one model: in `Session` a frame is read and written
  whole and calls end at frame boundaries; a torn frame is not followed into the calls
  that misread it.
- A frame longer than `rx_buf` in `Session`: CREATE_CLIENT asks for an MTU of 512.
  `Framing` has what one would do.
- Formatting of errors and logging; `build.rs` and `lib.rs` keep no state.

## Plan

Done: the protocol vocabulary, the slots, the agent, the session with all its
methods, `Feed`; framing with `FrameChannel`; encoders, parsers and CDR byte by
byte; the message types; the counters. Proved: type correctness, the four layers
of invariants of the session and that its slots implement `Feed`; framing as a
channel of frames; what `publish` sends, when it panics and that `deserialize`
returns it; what an agent reads in every message, and that the encoders refuse and
slice as they should; the parsers; the counters.

What could come next:

1. `InStepAfterOk` and `HandlesAreBacked` without `NoWrap`, from a bound on the requests
   that are outstanding at once.
2. A theorem that ties `Encoders` and `Codec`: `BodiesFit` from `LayoutInv` in one
   module.
