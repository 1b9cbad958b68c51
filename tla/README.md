# Verification of curlws

curlws (`src/`) puts the WebSocket protocol (RFC 6455) on top of libcurl. The
library has no thread: an application calls it (`cws_ping`, `cws_send_blk_text`,
...), and curl calls it back with received bytes (`_receive_cb`), with room for
bytes to send (`_send_cb`) and with response headers (`_header_cb`); from these
callbacks the library calls the application back, which may call the library
again. What makes it hard is therefore not parallelism but order: bytes arrive cut
at any place, curl takes bytes in portions of any size and has to be put to sleep
and woken, calls arrive at every point in between, and any allocation may fail.

This directory holds TLA+ modules translated from the source, the configurations
with which TLC checks them, and theorems that TLAPS proves.

## The system

| component | source | state | operations | what makes it correct |
|---|---|---|---|---|
| Frame codec | `frame.c`, `ws.c` | none | `frame_encode`, `frame_decode`, `frame_validate` | never asks for more bytes than the header has; accepts only canonical headers; encodes exactly what fits |
| UTF-8 | `utf8.c` | none | `utf8_validate`, `utf8_maybe_valid`, `utf8_get_size` | agrees with the Unicode standard, whole and cut characters |
| Send queue, read callback | `send.c` | `priv->send`, `pause_flags`, `close_state` | `send_frame`, `_send_cb`, `_fill_outgoing_buffer` | frames leave whole and in order; nothing follows a close; curl never sleeps over work; the transfer ends exactly after the closing handshake |
| Frame senders | `frame_senders.c`, `data_block_sender.c` | `last_sent_data_frame_info` | `frame_sender_control`, `frame_sender_data`, `data_block_sender` | data frames form messages, which `last_sent_data_frame_info` alone decides |
| Sending API | `curlws.c` | `close_state` | `cws_ping`, `cws_pong`, `cws_close`, `cws_send_blk_*`, `cws_send_strm_*` | one close frame, owed until it is sent (broken for an urgent close and without memory, see Runs) |
| Receiver | `receive.c` | `priv->recv`, `close_state` | `_receive_cb` and what it calls | callbacks are a function of the bytes and not of their cutting; fixed buffers are never overrun |
| Memory pool | `memory.c` | two lists of blocks per pool | `mem_alloc_*`, `mem_free`, `mem_cleanup_pool` | the lists partition the blocks; nothing is freed twice or leaks |
| Response headers | `header.c` | `header_state` | `_header_cb` | `on_connect` only after a valid upgrade; redirections are told from answers |
| Default handlers | `handlers.c` | `stream_buffer`, `stream_type` | default `on_fragment`, `on_ping` | `on_text`/`on_binary` get each message once, whole |
| Callbacks, object life | `cb.c`, `curlws.c` | `dispatching` | `cb_on_*`, `__process_rv`, `cws_create`, `cws_destroy` | no use of the handle after it is destroyed; nothing leaks whichever step of `cws_create` fails; `dispatching` is balanced |
| Configuration | `curlws.c` (`_config_*`) | constants after `cws_create` | one function per group of options | a handle that is returned has the request of an upgrade and blocks that hold every frame |
| String helpers | `utils.c` | none | `cws_trim`, `cws_has_prefix`, `cws_strncasecmp`, `cws_rewrite_url` | a header line is found whatever its case and spacing, and its value is what the server sent |
| Randomness, SHA-1, logging | `random.c`, `sha1*`, `verbose.c` | none | | not modelled |

How they interact: an API call checks its arguments, asks a frame sender, which asks
the codec for the bytes and the pool for a buffer, queues it and, if curl was put to
sleep, wakes it (`curl_easy_pause`). A close with a negative code is meant to be urgent
(`curlws.h:455-461`); `frame_sender_control` refuses the option that says so
(`frame_senders.c:48`), so the queue is first-in first-out and the insertion of urgent
frames in `send_frame` (`send.c:115-126`) is never reached. `_send_cb` empties the queue into curl's
buffer. `_receive_cb` decodes and calls the application; on a close frame or an
error it calls `_error_close`, which sets `CLOSE_RECEIVED`, queues the answer with
`cws_close` and wakes curl. When `CLOSE_SENT` and `CLOSE_RECEIVED` are both set
`_send_cb` returns 0 and curl ends the transfer.

The hard behaviours, each listed with its line under `hazards` in `PROJECT.json`:
byte counts carried across frame boundaries; frames queued from callbacks while one is half
sent; lost wake-ups; a close that is marked as queued although its frame was refused or
found no memory; messages left open by
a failure; headers, control payloads and characters cut by chunks and by frames;
lengths at 125, 126, 65535 and 65536; blocks unlinked anywhere in a list; a step of
`cws_create` that fails in the middle; `cws_destroy` called in a callback; header lines
in any order, of several responses; the application called in the middle of
`_receive_cb`, where it calls the library and changes what the loop goes on with; frames
queued while a redirection is followed.

## Modules

**FrameCodec** has the codec as operators on sequences of bytes, with RFC names as in
`ws.h`. `frame_decode` returns a record whose `delta` is the number of bytes consumed
or, negative, the number still needed. Lengths of 64 bits are represented by what the
code distinguishes (the code accepts 63 bits). Left out: the masking key and the
payload transformation (their bytes carry no control), `frame_opcode_to_string`.

**Utf8** is `utf8.c` operator by operator; **Unicode** states table 3-7 of the
Unicode standard as a reference.

**SendQueue** is the whole outgoing half. Its variables are the fields of `struct
CURLWS` that this half owns (`send`, `close_state`, `pause_flags`,
`last_sent_data_frame_info`, `redirection`), the locals of its two loops (`fill`,
`blk`, and `pc` for the loop that runs), curl's view (`curl`), and two history
variables (`wire`, the frames handed to curl; `nframes`). A buffer keeps its lengths,
not its bytes. There is one action per API call, per outcome of `_send_cb`, and per
iteration of `_fill_outgoing_buffer` and `data_block_sender`. An API call that is
refused before it changes anything is not a step; a call that fails later (no memory,
closed, urgent) is, because `cws_close` sets `CLOSE_QUEUED` whatever became of its frame.
`enqueue` is an append for the reason given above. `_error_close` stands for all ways the receive side ends the connection, and
`cws_pong` with a length of `PingLens` for the default `on_ping`. `process_rv` is
the close that a callback's result asks for.

**Outbound** is what an application may rely on: frames are submitted and emitted, in
order, each once and none dropped; nothing is submitted behind a close. `SendQueue!Out` is the refinement mapping: a frame of which no byte was
handed over is pending, one that has a segment on the wire is emitted.

**Receive** is `receive.c`: one step per call of `_process_frame_header`,
`_process_control_frame`, `_process_data_frame`, in the loop of `_receive_cb`. Header,
control and character buffers are kept byte for byte. **ByteReceiver** is its abstract
specification: what an application is told, as a function of the bytes, defined byte by
byte and with the Unicode table instead of `utf8.c`.

**Handlers** is the default `on_fragment` and `on_ping` of `handlers.c`, as operators on its
own variables. **Delivery** composes Receive with it: a step of the receiver that calls
`on_fragment` or `on_ping` is also the step of the handler. Its specification is what
`MCReceive` checks, so every property of Receive is checked with the handlers in place.

**Header** is `_header_cb`: one action per kind of header line, with the response that curl
is reading (`response`) and the last accept and protocol lines of it (`seen`, a history
variable). A line is its name and the outcome of the comparison of its value; how
`_header_cb` finds both in the bytes is in **Strings**, the string helpers of `utils.c`
byte by byte. **Session**
extends Header to the life of a handle: the steps of `cws_create`, each with what it may have
allocated when it fails (**CreateSteps**); entering and leaving the application's callbacks, with
`dispatching`; and `cws_destroy`, one free per step. Memory is the set of things that are
allocated (`owned`); all queued frames are one of them. The application may call
`cws_destroy` in any callback; one that is called without `dispatching` raised (`on_close`
for a close frame) and destroys the handle ends the model in the state `freed`, for what
the library then does is undefined.

**MemPool** is `memory.c` with the links as functions and one action per path through
each operation; the clean-up takes one step per block. The control and the data pool
run the same code on separate lists, so one is modelled.

**Request** is what the steps of `cws_create` do rather than what they own: each is an
operator from a configuration and a handle to the handles that may come of it, with the
request headers, the options given to curl and the sizes of the blocks. Options that are
the same for every configuration are left out.

**Connection** composes Header, Delivery and SendQueue around one handle. They share
`close_state` and the redirection flag: `INSTANCE ... WITH` puts the real ones in place of
Receive's `close_received` and SendQueue's `redirection`. What SendQueue
draws from sets (close codes, ping lengths, when the receiver breaks off) here comes from
the receiver: `_handle_close` chooses the answer, the default `on_ping` calls `cws_pong`,
a breach calls `_error_close`. `callback` is the callback of the application that runs;
while it does, the application may call the library any number of times, and its result
goes through `__process_rv`. A close takes two steps, because `on_close` runs before
`CLOSE_RECEIVED` is set. Only one callback of curl runs at a time.

**Conversation** is the abstract specification of the callbacks: `on_connect` first and once,
messages and pongs only in an open connection, `on_close` last. The refinement mapping
(`Connection!stage`) tells connecting, open and closed apart by the state of the
response, of `close_state` and of the running callback.

`MCCodecs`, `MCSendQueue`, `MCReceive` and `MCConnection` hold the inputs for TLC; Session and MemPool need
only constants.
Definitions whose comment begins with "Mutant:" are plausible bugs against which the
properties are tested; no other definition uses them.

## Runs

| run | what is asked | bounds |
|---|---|---|
| `codecs` | headers fed byte by byte: how many bytes are asked for, what is accepted, and that `frame_encode` writes what `frame_decode` reads; `utf8_validate` and `utf8_maybe_valid` against the standard; header lines against what the server wrote; every handle that `cws_create` may return, for every configuration and every failure | every opcode with and without FIN, reserved bits, every boundary of the length encodings, header bytes beyond those from the boundary values only; all texts of up to 4 bytes (the longest character) over the bounds of every range in the table; lines of up to 5 bytes over a space, a colon, letters of both cases; every combination of configuration values on both sides of each condition |
| `send_oom` | framing, memory safety of the copy loop, wake-ups and end of transfer when any allocation may fail and redirections come and go, with an urgent close that is refused | buffers of 4 and 40 bytes (smaller and larger than a frame, so frames are split and several share a buffer); blocks of 0, 1 and 3 frames; calls until 2 frames are queued |
| `send_reliable` | handshake, messages, refinement of `Outbound`, and that every close ends the transfer | the same, 3 frames, closes with and without a code; no allocation failure, no urgent close, no redirection |
| `receive_all` | callbacks equal those of `ByteReceiver`; buffers; `on_text` and `on_binary` get whole messages; text pieces are whole characters; `_receive_cb` returns | binary and control traffic with each ending and each breach, and texts whose characters end with their frames, some of them cut by frames, in chunks of 1..7 and 16 bytes (longer than a character plus a header); the other texts byte by byte |
| `mem_pool` | the lists under every order of calls | 4 blocks: a head, a tail and two inner blocks |
| `session` | what a handle owns after every failure of `cws_create` and every `cws_destroy`; that no callback but `on_close` loses the handle; `dispatching`; what `on_connect` proves; the redirection flag | two protocols (a right and a wrong one), one redirection (an earlier and a current response), header lines in any order and number |
| `connection` | the sending side meets its assumptions; callbacks in the order of `Conversation`; pings answered once, in order and at last; nothing sent to a server that redirects; a close or breach ends the transfer, and only when both directions are closed | one redirection; one frame of the application besides pongs, from any callback or none, closed early or late; two pings (of 1 and 2 bytes) within a message, a close with and without a code, frames after a close, and each kind of breach; chunks that hold several frames and chunks that cut one |

`send_oom` stops new calls once two frames are queued, but a call that is running may
queue more (a block of three frames), so a close, a pong or a refused urgent close meets
a partly sent data frame, a frame behind it, and every failure in between. Three frames
suffice for the ordering properties, since each of them is broken by at most three (the
one partly sent, the one behind it, the close). In `connection` the application's calls are few because
what they do to the queue is the subject of the first two runs, and
`ImplementsSendQueue` carries the results over; the run is about who calls whom. Its
bound on frames (`MaxFrames`) is never reached.

These runs are expected to find a violation; each shows a difference between the code
and what its own comments say (`findings`):

| run | what it shows |
|---|---|
| `receive_text_lost` | the bytes behind a character that is completed from a chunk are dropped (`receive.c:297`) |
| `receive_text_cut_end` | a text may end within a character, which then leaks into the next message (`receive.c:319`) |
| `send_oversized` | a stream piece that does not fit a buffer is accepted and ends the transfer (`send.c:102`) |
| `send_urgent_close` | an urgent close is refused and yet marked as queued: no close frame is ever sent, and not even a close of the peer ends the transfer (`curlws.c:248`, `frame_senders.c:48`) |
| `session_destroy_in_close` | `cws_destroy` in the `on_close` for a close frame frees the handle that the library goes on to use (`receive.c:135`) |

Because of them `receive_all` delivers byte by byte the texts with more text behind a
character that a chunk may cut, and leaves out the texts that end within a character;
`send_oom` and `send_reliable` use stream pieces that fit. `CLOSE_QUEUED` is also set when
the close frame finds no memory, and the transfer then stays open in the same way. So
`CloseFrameOwed`, `ReceivedCloseEnds`, `QueuedCloseIsSent` and `EndIsShutDown`
are claims about applications that ask for no urgent close
(`NoUrgentClose`), without allocation failures, and their runs have neither; the two
conditions are hypotheses of the theorem `CloseIsOwed`.

Further differences seen while modelling, for which no run is kept:
valid text is refused when a chunk ends after the first byte of a character that begins
with 0xE0 or 0xF0, since `utf8_maybe_valid` says no to that byte alone, where
`utf8.h:34-35` says that it tells whether more bytes could help (`receive.c:277`;
`MaybeValidExact` in `codecs` states for which bytes the function is exact);
a close reason may have 122 bytes, where `curlws.h:448-468` says 123;
`cws_send_blk_*` may return `CWSE_STREAM_CONTINUITY_ISSUE`, which `curlws.h:494-497`
does not list; `cws_send_strm_*` refuses an info with type bits, which
`curlws.h:533-534` calls ignored; `cws_send_strm_text` silently drops the bytes of a
cut last character (`curlws.h:555-557`); `last_sent_data_frame_info` is set before the
allocation that may fail (`frame_senders.c:136`); during a redirection `_send_cb`
reports bytes that it did not write (`send.c:230-233`); `cws_destroy` in a callback does
nothing, where `curlws.h:386` says that it frees the handle and all resources; `on_text` is called for text that is checked to be UTF-8 and has no
terminating zero, where `curlws.h:188` says the opposite of both; `curlws.h` lists
`Sec-WebSocket-Extensions` among the headers not to be given, and `_config_http_headers`
accepts it; a header line that begins with a space is found, and its value is then cut
at the wrong place (`header.c:134-138`); when a frame of a message finds no memory the
next one is queued as if it had been sent, so that `DataFramesFormMessages` holds only
without such failures (`frame_senders.c:136`).

## Fairness

The safety properties are checked under `Spec`, or under `FairSpec` when the same run
checks liveness. `FairSpec` of SendQueue assumes weak fairness of each loop's steps (a
C loop that runs goes on) and of `_send_cb` (curl, driven by the application's event
loop, asks for data whenever sending is neither paused nor ended). Nothing is assumed of
the application or the peer: no one has to call, answer or close. `DeliverySpec`
assumes only that a loop that runs goes on. `FairSpec` of Connection adds that a callback of
the application returns (the library cannot go on before) and that curl asks for
data again and again; not that the server sends anything, nor that curl reads it, nor that the
application calls. Session states no liveness.

## Proofs

`SendQueueProofs` proves, for all sizes, arguments, failures and redirections:

* `TypeCorrect`: the type invariant, hence that no unsigned subtraction underflows
  (`len - max_payload_size`, `written - sent`, `data_to_send - k`);
* `FillIsExact`: `data_to_send` is what is left of the head frame at every iteration;
* `WakeupIsNotLost`: curl never sleeps over a queued frame or a due shutdown.

None of the three is inductive alone. `IInv` adds the shape of the queue (each buffer
holds no more than was written into it, and only the head is partly sent)
and that curl is awake while `_fill_outgoing_buffer` runs. The lemmas follow the code:
what `enqueue` and `after_sending` do to the shape, then one lemma per action.

The same module proves, under the named assumption `PiecesFit` (every stream piece
fits a data buffer; `send_oversized` shows that it is needed), `EofIsTheClose`: `_send_cb` returns 0 only after the closing handshake.
`FitInv` adds to the first invariant that every queued frame has an unsent byte and that
a running `_fill_outgoing_buffer` has sent or can send one.

`SendQueueWireProofs` proves, again for all sizes, failures and redirections:

* `FramesAreWhole`: however curl's buffers cut the frames, each is resumed where the call
  before stopped, to its last byte, and none is repeated;
* `NothingFollowsClose`: a close is the last frame in the queue and the last on the wire,
  whoever closes and however often;
* `CloseIsOwed`, if no allocation fails and no close is urgent: a queued close is in the queue
  exactly once until it is sent (`send_urgent_close` shows that the second hypothesis is needed,
  and the same lines of code that the first is);
* `QueueIsOutbound`: `Spec => ImplementsOutbound`, which the runs check without
  allocation failures only;
* `FramesFormMessages`, if no allocation fails: the data frames form messages, whatever
  control frames come between them (an allocation failure breaks this, see above);
* `CloseWasSent`: once `close_state` has `CLOSE_SENT`, a whole close is the last that left.

The invariant, `WireInv`, relates the queue to the wire: frames have distinct numbers, only
the head of the queue is on the wire as well, at its end and with as many bytes as the head
counts, all other segments are whole, a close is the last of the queue and on the wire, and
`CLOSE_QUEUED` is set as soon as there is one. `KindsOfStep`
sorts the steps into those that queue nothing, those that queue one frame and the
iterations of the copy loop; each part of the proof then has three cases.
`MessagesInv` is about the frames on the wire followed by those not yet started (`Line`):
they form messages, and while frames are accepted `last_sent_data_frame_info` says
whether the last message is open. The copy loop moves a frame from one part to the other
and leaves `Line` as it is; `send_frame` appends to it, and the last frame of `Line` decides
whether what is appended continues a message.

`SessionProofs` proves, for every set of protocols and number of redirections, `TypeCorrect`,
`DispatchingBalanced`, `UpgradeIsProven`, `RedirectionCurrent`, `NothingIsLost`,
`HandleComplete`, and `HandleOutlivesOtherCallbacks`: the `on_close` for a close frame of the
peer is the only callback in which the handle can go (that it can is what
`session_destroy_in_close` shows). The applications may call `cws_destroy` in every
callback. The invariant has four
parts: the types; `Balanced`, that `dispatching` is 1 exactly in a guarded callback;
`MemoryInv`, what is owned at each step of building and freeing; and `HeaderInv`, that the
flags agree with the lines of the current response.

`MemPoolProofs` proves, for every set of blocks:

* `PoolIsLinkedBothWays` and `PoolFreesOnce`. `PoolInv` keeps, through the clean-up as
  well, the weaker `Singly`: no two blocks have the same successor and no head has a
  predecessor, which is what makes each step of the walk meet a block that is still
  allocated;
* `PoolListsPartitionBlocks` and `PoolLeaksNothing`: every block is on exactly one list, and
  the clean-up gives all of them back. The links of each block alone do not say this, for
  blocks could form a ring that no head leads to; `AllOnLists` says that the blocks of a list
  are those that the links reach from its head, and the lemmas say what pushing and
  unlinking a block do to what is reached.

`Utf8Proofs` proves `ValidateIsExact` and `MaybeValidIsExact`: for texts of every length
`utf8_validate` accepts exactly what can still become well-formed UTF-8 by the Unicode
table, counts whole characters of it and leaves less than a character over. Both sides are
recursive functions, and the induction theorems of the library are out of the prover's
reach; that such a function exists and what holds of all its values is proved instead by
taking the least (or greatest) argument at which it fails, which `LeastNumber` derives from
the well-foundedness of inclusion.

`CodecProofs` proves of the specification that `codecs` runs, now for all bytes and all
texts:

* `ValidationIsUnicode` and `StartsAreUnicode`, from `Utf8Proofs`;
* `HeadersAreCanonical`: `frame_decode` asks for bytes of the header only, uses what it
  accepts to the last byte, and accepts a masked header only in the form that
  `frame_encode` gives to it; and `EncodingFits`: `frame_encode` writes a frame exactly when
  it fits. `CodecInv` adds that the header only grew while the decoder asked for more.
  `NextBytes` draws length bytes from the boundary values, and those of a length of
  2^32 or more only so far as the code distinguishes them (`LongLength`), in the theorem
  as in the run; first and second bytes are any;
* `LinesAreSplit`: for lines of any length over any bytes, `cws_has_prefix` finds a name in
  any case behind any space and nothing else, and what `header.c` takes for the value is the
  rest of the line without the space around it. A `Name` is what begins and ends without
  space, as all names do that the code asks for; `TrimStops` says where the two loops of
  `cws_trim` stop, by the least and the greatest number;
* `CreatedHandlesAreUsable`: whatever steps of `cws_create` fail, a handle that it returns
  sends one upgrade request, follows redirections together with curl and has blocks for its
  largest frames. `Built(h, c, k)` is what is known of a handle after the k-th step if none
  has failed: there is a lemma for each step that changes something that counts, and
  `AllAreBuilt` puts them together along the recursive function of `after`. The lemmas
  hold for any configuration; the theorem is of those that `codecs` enumerates (`Configs`).

`ReceiveProofs` proves, for every stream and every cutting:

* `ReceiverTypeCorrect` and `HeaderAndControlFit`: `header.buf` never holds more than 14 bytes
  nor `control.buf` more than 125, and the loop of `_receive_cb` does not run after a close.
  The invariant, `RecvInv`, carries between two callbacks what the decoder promised in the
  first: how many header bytes it asked for, and that a control frame being
  collected is one that `frame_validate` accepted (`Decoded` is the lemma about the
  decoder; `HeaderFits` and `ControlFits` are the parts that use it);
* `BuffersNeverOverrun`: `BuffersBounded`, which adds the character buffer. `CharacterFits`
  is the part of the invariant; it rests on `ValidateIsExact`, by which what
  `utf8_validate` leaves over is less than a character;
* `TextComesInCharacters`: every piece of text that the application is given is whole,
  well-formed characters, also where a chunk or a frame cuts one. (That pieces may be lost,
  or carried into the next message, is what the two `receive_text_*` findings show: the
  theorem says what arrives, not that all of it does);
* `EndIsTheLast`: the end of the connection is told once, and nothing after it (`ToldInv`);
* `BinaryByteByByte`, if the server sends no text: what the application was told between two
  callbacks of curl is what `ByteReceiver` makes of the bytes one by one, whatever the
  bytes and the chunks: nothing lost, doubled, early or late, and every error found;
* `ToldByteByByte`, the same with text, as long as no step is one of `TextStrays`. These are
  the steps in which `_process_text_stream` departs from reading byte by byte, all of them
  of the findings below or of `utf8_maybe_valid` (`receive.c:277`): text is refused
  when several bytes were taken at once, or before its start was told; the beginning of a
  character is refused that more bytes could complete, or kept although none can; bytes
  behind a character that was completed are lost; a message ends within a character. That
  no step is one of them is sufficient, and cannot be left out (`receive_text_lost`,
  `receive_text_cut_end`);
* `HandlersInvariant`: whatever the receiver tells, at every step the default handlers
  have told and buffered exactly what they owe for it (`Owed`);
* `MessagesComeWhole` and `BufferHoldsOpenMessage` (if no text strays) and `BinaryComesWhole`
  (if the server sends no text): `on_text` and `on_binary` get each message whole, once and in
  order, and the buffer holds the open one.

The invariant behind these, `ByteInv`, says where the receiver stands among the states of
`ByteReceiver`, the function `After(stream)` that folds the bytes one by one (`Together`):
with the same header bytes while a header is collected, and within a frame with as many
bytes of the payload `Missing`, the same cut character, and told the same (`Heard`). To keep
this it knows what the header buffer waits for (`HeaderWaits`), that the loop stops for want
of bytes only (`LoopProceeds`), that the kept bytes belong to the open text
(`CharacterWaits`), and what `fragment_info` and `stream_type` say about the message
(`FlagsMatch`). One step of the receiver is a
run of steps of `ByteReceiver`, as many as it takes bytes, so there is a lemma for a
run of each kind (header bytes, control bytes, data, text) and then one for each action.
`After` and the other recursive functions are reasoned about with `LeastNumber`, as in
`Utf8Proofs`. TLC found no step that leaves `ByteInv`, for all texts and binary streams
of `receive_all` in chunks of 1 to 8 bytes, before it was proved. `HandlersInv` needs none of
this: it follows the items that a step appends to `out` (`OwedAppend`) and compares them with
what the handler does in the same step.

`SessionProofs` and `ConnectionProofs` begin with the same few lemmas about header lines
and responses. `ConnectionProofs` proves of the composition, for every
stream of bytes, every way of cutting it and every application:

* `RedirectorGetsNothing`: no byte of a frame is handed to curl while the current response
  is a redirection. The invariant, `MutedByRedirection`, says that the flag that
  `_send_cb` reads is that of the response and that no copy loop runs under it;
* `CallbacksInOrder`: `Spec => ImplementsConversation`, initial states to initial states
  and every step to a step or a stutter. `ConversationInv` is what the mapping needs: a
  callback runs only in an upgraded response, the receiver never runs with
  `CLOSE_RECEIVED` set, and `closing` only follows a complete close frame;
* `ReceiverStaysInBounds`: none of the receiver's buffers is overrun in a connection either,
  where the application is called in the middle of the loop. The module takes
  `ReceiveProofs` as an instance (`RP`) with the connection's variables and shows that every
  step of a connection is a step of Receive or leaves its variables alone. An
  instance under another name has its own copy of every operator, so a few lemmas
  (`Same...`) say that both copies are the same function;
* `SenderIsSendQueue`: what a connection does to the sending side is a step of SendQueue,
  case by case of who calls (the answer to a ping, `_error_close`, the application in a
  callback, its result, curl). SendQueue draws the peer's inputs from sets, so it has two
  hypotheses: `PeerCodes` has every code that `is_close_code_valid` accepts (`AnyCode`) and
  `PingLens` every length of a control payload (`AnyPing`). That the pings of a
  connection have no other length follows from `ControlFits` of the receiver;
* `FramesOfConnectionAreWhole`, `CloseOfConnectionIsLast` and `ConnectionIsWoken`: the
  theorems of `SendQueueProofs` and `SendQueueWireProofs` (the instance `WP`, with `AnyCode`
  and `AnyPing`, so without those hypotheses) hold of a connection: curl gets whole frames, a
  close last, and never sleeps over work;
* `EofIsAfterBothCloses`, if every stream piece fits: `_send_cb` ends the transfer only when
  a whole close has left and the peer has closed or broken the protocol. It follows from
  the sender's `EofIsTheClose` and `CloseWasSent`, and from the composition, in which
  `CLOSE_RECEIVED` is set only after the application was told of the end;
* `EachPingIsAnswered`, if no allocation fails and the application's own pings and pongs
  have no payload: `PongsAnswerPings`. Pongs are told apart by their length only, so one
  of the application's with a payload would count as an answer; and a pong that finds no
  memory is not queued, which `_default_on_ping` does not notice. The invariant,
  `PongsInv`, is about the frames in `Line` (see `SendQueueWireProofs`), which the
  copy loop leaves alone: the pongs in `Line` are those that the pings told so far are owed,
  and a prefix of them once a close is queued or refused, since that refuses later pongs
  (`AnswerExtendsLine`). It
  takes a lemma of each side: `LineSteps` says that no other step puts a pong with a
  payload into the line, and `PingsTold` of `ReceiveProofs` that only a complete ping
  frame tells of a ping. Both sequences are joined from parts, one for each frame and one
  for each call (`Joined`), and the proof needs two facts about that, which follow
  from its step by the least number that breaks them: a last part is appended
  (`JoinedOneMore`), and fewer parts make a prefix (`JoinedMore`).

The assumptions on constants (`SizesAssumption`, `InputsAssumption`,
`NullAssumption`, `ReceiveAssumption`, `HeaderAssumption`,
`RequestAssumption`, `ConnectionAssumption`, `SenderAssumption`, `ReceiverAssumption`,
`BytesAssumption`) say that sizes are positive and arguments have
their C types; TLC evaluates them in the runs. (`SenderAssumption` and
`ReceiverAssumption` are those of SendQueue and Receive, whose constants Connection
declares anew.)

Model-checked only, and why:

* liveness (every close ends the transfer, every callback of curl returns, every ping is
  answered at last), which is outside the prover. Every invariant and every action property
  of the runs is stated by a theorem.

## Not modelled

The options of curl that are the same for every configuration and the bytes of the key; the
copying functions of `utils.c` (`cws_strdup`, `cws_strndup`, `cws_strnlen`, `cws_strmerge`),
which are taken as done or out of memory; `random.c`, the vendored SHA-1 code and its
wrappers, `verbose.c` and the example client, none of which has behaviour over time that
the rest depends on. Three allocations that the code does not
check (the pool, the expected key, `realloc` in `handlers.c`) are taken to succeed. The
contents of sent frames, the masking, and the bytes of blocks are abstracted to lengths.
The callbacks an application installs instead of the default ones are modelled by what they
may call (the API, in any order), not by what they compute.

## Plan

What is left: a byte-level model of `struct control`, for the terminating zero that a close
frame of 125 bytes puts behind `control.buf` (`receive.c:124`), and a claim about what is owed
to the application after a block has failed half way (`data_block_sender.c:65`).
