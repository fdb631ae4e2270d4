# A verification of embedded-websocket

TLA+ modules, TLC model checks and TLAPS proofs for the crate
`embedded-websocket` (the repository's `src/src/`): a WebSocket codec without
allocation, and two framers that drive it over a byte stream.

1. The system
2. The modules, and how they correspond to the code
3. What is checked
4. What is proved
5. What the models say of the code
6. What is not modelled
7. The plan

Line numbers are those of `src/src/lib.rs` unless a file is named.

## 1. The system

| Component | State it keeps | Operations |
|---|---|---|
| **WebSocket codec** (`lib.rs`) | `state`; `continuation_read` (the frame whose payload is being read: opcode, count of bytes to come, final bit, mask key as turned so far); `continuation_frame_op_code` (the type of the fragmented message being read); `is_write_continuation` (is a fragmented message being written?) | `read`, `write`, `close`, `server_accept`, `client_connect`, `client_accept` |
| **Blocking framer** (`framer.rs`) | `read_buf`, `read_cursor`, `read_len` (undecoded bytes), `frame_cursor` (bytes of the message collected in the application's `frame_buf`), `write_buf`, a `&mut WebSocket` | `connect`, `accept`, `read`, `write`, `close`, `send_back` |
| **Async framer** (`framer_async.rs`) | its own `WebSocket`, `frame_cursor`, `rx_remainder_len` (how many undecoded bytes lie at the end of the caller's buffer) | `connect`, `accept`, `read`, `write`, `close`, `encode`, on an async `Stream` and `Sink` |
| **HTTP handshake** (`http.rs`) | none | read and build the upgrade request and response |
| **Random** (`random.rs`) | none | `EmptyRng`, the generator of a server, which masks nothing |
| **Examples** (`examples/`) | sockets; `read_buf` and `read_cursor`, which the servers fill before the framer takes them over | how an application calls the library; `read_header`, the server's half of the opening handshake |

**Interaction.** Everything is a call: the application calls a framer (or the
codec), a framer calls the codec and the stream. Nothing in the library runs
concurrently with itself, a framer borrows the websocket for one call after
another. What interleaves is the rest of the world: the peer sends while the
application writes, both sides close, the stream cuts bytes into chunks of its
choice, ends or fails. The codec is handed a slice of what has arrived and a
slice to write to, both of any length, and must put a frame together over
several calls; it remembers what it needs in the four fields above.

**Hard behaviours.** Frames cut across calls at every byte; control frames
between the fragments of a message; a close handshake begun by both sides at
once; a call that fails after it has changed the state; two cursors over two
buffers across several calls of a framer, or one buffer with three uses in the
async one; the moment the handshake ends and the frames begin, in one buffer;
a second attempt to connect with the websocket of the first.

**What makes each component correct**

- *Codec, reading*: what is remembered of a frame agrees with what the stream
  still holds of it; each read reports the message the peer meant, its end
  exactly once, and gets on.
- *Codec, writing and closing*: the frames written keep the framing rules of
  RFC 6455, and the state says which close frames went each way.
- *Two codecs*: the closing handshake completes on both sides, whoever begins,
  and nothing is left unread.
- *Framers*: the messages of the peer come out whole, once, in order and
  eventually; `Closed` is reported only when it is true; a Ping is answered
  once, with its payload.
- *HTTP*: a response is accepted only with the accept string for the key of the
  request of this attempt; both sides end with the same sub-protocol; the cursors
  count exactly the bytes behind the messages.

`PROJECT.json` lists the hazards, each at its line with the properties that
would catch it.

## 2. The modules, and how they correspond to the code

| Module | What it is |
|---|---|
| `WebSocketCodec` | the codec as operators on a record with the fields of `struct WebSocket`; no variables |
| `FramingRules` | RFC 6455's framing rules as a small automaton (external: not code of the repository) |
| `Endpoint` | one websocket, its application and an arbitrary rule-abiding peer |
| `CloseHandshake` | abstract: what the closing handshake promises (`Safety`, and that it completes) |
| `Connection` | two `Endpoint`s, each the other's peer; implements `CloseHandshake` |
| `MessageChannel` | abstract: what a framer promises its application |
| `ByteStream` | the stream a framer reads and the peer that fills it (mostly external) |
| `Framer` | the blocking framer over a `ByteStream`; implements `MessageChannel` |
| `FramerAsync` | the async framer over a `ByteStream`; implements the safety part of `MessageChannel` |
| `Handshake` | the opening handshake: `http.rs`, `connect`, the servers' `read_header`, `accept` |
| `Codec_proofs` | lemmas: what every operator of `WebSocketCodec` returns, types, and the writing side against the framing rules |
| `Reading_proofs` | lemmas: the reading side of the codec against a stream of frames, in bytes and in messages |
| `ByteStream_proofs` | lemmas: lengths and cuts of a stream, the messages that its frames carry, induction on numbers |
| `Endpoint_proofs`, `Connection_proofs`, `Handshake_proofs`, `Framer_proofs`, `FramerAsync_proofs` | the theorems about the module of that name |

**`WebSocketCodec`.** One operator per method: `read` goes through
`read_continuation` or `read_payload` (the two halves of `read_frame`), then
`continue_frame` or `start_frame` (the bookkeeping of lines 724-762),
`override_op_code` and `dispatch_frame` (the `match` of lines 607-632). An
operator returns a record with the new websocket (`ws`), the result (`ret`)
and the frames put into the buffer (`sent`). Data is abstracted: a payload byte
is its position in the stream, so the data of a read are right exactly when
the position and the mask key are; a mask key is the number of places it was
turned; a header is its length; a frame also carries `msg`, a ghost that says
which message its sender meant. `option`s are a field with the value "None".
The state changes before a failure (`after_write`, `close`) are kept where the
code makes them. `encode_header` and `decode_header` are the first two bytes of
a frame and its length field, as `write_frame` makes them and `read_frame` with
`read_length` and `get_op_code` takes them apart.

**`Endpoint`.** `ws` is the websocket; `inbox` and `off` are the stream it
reads: the frames not wholly consumed and the bytes consumed of the first.
`Read` calls `read` with any number `from` of bytes available, which may end in
the middle of a frame and may include the beginning of the next one, with any `to`
buffer, and consumes what the call reports. `Write` and `Close` append to
`outbox`. The peer sends what the framing rules allow and, with `PeerOpCodes`
including `"Reserved"`, also invalid opcodes. An application that gets
`InvalidOpCode` or `UnexpectedContinuationFrame` gives up (`failed`), as the
`?` of the examples does. `Cuts` says which frames a call may get in parts:
none, those outside a fragmented message, or all. `MCRead` and the proofs about
messages take the second; what the third brings about is in section 5, A.

**`Connection`.** Instantiates `Endpoint` twice with the streams crossed, so
that the peer is no longer an arbitrary one but the code. `http` stands for the
handshake messages. Client and server actions are those of `Endpoint` under
the conditions the examples write and close under.

**`Framer`.** It takes the peer and the stream from `ByteStream`. A call of the
framer is several actions, split where it blocks and at every round of its
loops: `Read` enters `read`; `Refill`, `RefillFails` and `Resume` are a round of
the outer loop (lines 200-208 of `framer.rs`), `Decode` and `DecodeRefuses` a
round of the inner one (210-273), with the whole of what follows the codec's
answer: `Collects` a fragment, `AnswersPing` and `RepliesToClose` (through
`send_back`), `HandsOver` the rest. `Connect` and `ConnectReads` are `connect`.
The variable `pc` says where the framer is.
`Write` and `Close` share `WritesFrame`: the codec's error and a failing `write_all`
end the application's use of the framer as they do in `read`, the second with
the websocket's state changed all the same. `sent` and `got` are ghosts: the
messages the peer has completed and those that have come out.

**`FramerAsync`.** The same peer and stream, another framer: one buffer, the
caller's, holds the message that is being collected at its start and the bytes
that are not decoded yet at its end; an answer to a Ping is encoded in between.
The model keeps the two lengths, computes where each write goes, and has two
ghosts for an overlap: `garbled` (bytes of the message) and `lost` (bytes kept
for later). What runs between two awaits is one action: `Receive` is the wait
for a chunk at the head of `read`, `Decode` the one call of the codec and the
`match` that follows, with `Collects`, `TakesPong` and `Answers` for its arms. A
`read` that waits and one that has not been called are the same state `idle`,
since a future dropped there has changed nothing. Subtractions on `usize` that
underflow, and slices out of range, lead to the result `Panic`. `Write` and
`Close` use the same buffer if `AppSharesBuffer`, as `examples/client_async.rs`
does (`examples/server_async.rs` has two).

**`Handshake`.** A client that runs `connect` of `framer.rs` and a server that
runs `read_header` of `examples/server.rs` (`examples/server_async.rs` has the
same loop) and then `accept`. The two HTTP messages are the records that
`build_connect_handshake_request` and `build_connect_handshake_response` make and
`read_http_header` and `read_server_connect_handshake_response` read: per header
name the values in their order, since the code lets the last `Upgrade`, key or
protocol count, adds up the lists of names, and checks each accept string. The
order between headers of different names is left out: where it decides between
a wrong accept string and a panic, both are possible (`Outcomes`). An
accept string is represented by the key it is made from. `ClientReads` and
`ServerReads` are one round of their loops with any number of the bytes that
have arrived; `advance` is the `+= received_size - len` on a `usize` of
`UsizeRange` values. A failed client may `Connect` again with its websocket, the
server has a new one for each connection. Either side may be another program
(`ForeignConnects`, `ForeignAnswers`), and the stream may end and lose what is
under way (`StreamEnds`).

## 3. What is checked

Each run has a `.cfg` of its name. All passing runs disable TLC's deadlock
check: an application may be done, or wait for a peer that sends no more.

| Run | Module | Shows | Bounds |
|---|---|---|---|
| `MCRead` | Endpoint | A message in one frame or several, control frames in between, single frames cut into calls at every byte: `ReadReportsTheStream` (type, end of message, number of bytes; of a close frame read whole its end, status and bytes), `ReadMakesProgress`, `ContinuationsExpected` (no `UnexpectedContinuationFrame` to a peer that keeps the rules), `FramingInStep` | 2 frames under way, payloads 0, 1, 6, `to` 0, 2, 20 |
| `MCEndpoint` | Endpoint | Every frame cut at every byte, in the header too, while the application writes messages in fragments and either side closes: `FramingInStep`, what is remembered agrees with the stream, mask key included; `WireWellFormed`, `CloseAgrees`; `HeadersDecode`, the reader gets from a header what the writer put in | 2 frames under way, payloads 0 and 5 read, 126 and 65535 written, extended headers, `to` 3 and more than any payload |
| `MCConnection` | Connection | Both sides talk and close: `ImplementsCloseHandshake` with its liveness, `NothingLeftUnread`, `NeitherFails`, `ReadsReportWhatWasWritten` | 2 frames each way |
| `MCFramer` | Framer | A server's framer, single frames cut anywhere in their payload: `ImplementsMessageChannel` with its liveness, `NeverFails`, `WireWellFormed` (its Pongs and replies fit between the application's frames), `NothingLeftBehind` (`frame_cursor` counts the bytes of the message under way and no others) | 2 frames under way, 2 messages of up to 4 bytes |
| `MCFramerStream` | Framer | A client's framer when the stream ends or fails at any point, in `write` and `close` too, the handshake is refused, the application closes, `write_buf` has no room for the longest answer and a message fills the frame buffer: `ComesOutInOrder`, `ClosedMeansClosed` | 2 frames under way, 3 messages, `frame_buf` of 8 bytes, a full message has 8, `write_buf` of 9: a Pong with 4 bytes has 10 |
| `MCFramerAsync` | FramerAsync | The async framer in both roles, reading, writing and closing with one buffer, whole frames in chunks of any number, also right behind the response: `ImplementsMessageChannel` (its safety part: nothing garbled or lost), `EveryMessageComesOut`, `EndsWithTheStream`, `RemainderKept`, `NoneMeansClosed`, `FailsForAReason` (no panic), `WireWellFormed` | 2 frames under way, 3 messages, payloads 0 and 3, a buffer of 38 bytes |
| `MCHandshake` | Handshake | Two attempts of a client, each at a server of the library or another program, messages cut anywhere: `OpensOnItsOwnKey`, `SidesAgree`, `CursorPastHeader`, `AcceptedIsNotAborted`, `HandshakeConcludes` | messages of 3 bytes, up to 2 bytes behind, offers of up to 3 names and one more in a header of the application, 2 keys |

The other runs are violations: each checks one property, written from one statement of
the repository's documentation or comments that the code does not keep
(section 5; quoted in `PROJECT.json`).

| Run | Module | Property | The step that breaks it |
|---|---|---|---|
| `FragmentCut` | Endpoint | `ReadMakesProgress` | a fragment, not the last, read in two calls |
| `CloseFrameCut` | Endpoint | `EndOnLastByte` | a close frame read in parts |
| `FrameBehindResponse` | Framer | `ClosedMeansClosed` | a frame behind the handshake response |
| `AsyncFragments` | FramerAsync | `NoneMeansClosed` | the first frame of a message of two |
| `NoAcceptString` | Handshake | `OpensOnItsOwnKey` | a response without an accept string |

**Why the bounds are enough.** The codec compares lengths with each other and
with 2 (a close status) and turns the key modulo 4: payloads of 0, 1 and 6
bytes (0 and 5 in `MCEndpoint`), cut everywhere, meet an empty frame, a close frame
with half a status, and a key turned once round and more. Two frames under way let a call see the
end of one frame and the start of the next, and since the peer goes on sending
as frames are consumed, the sequence of frames itself is not bounded on
`Endpoint` (`MaxInbox`, `MaxOutbox` bound what is under way at a time). 126 is
the first payload length with an extended header, 65535 the first that `write`
gives the longest one; `MCRead` reads headers without an extended length,
`MCEndpoint` those with one. The framer's bounds make a chunk hold two frames, a chunk
end in a frame, a message span chunks, and a frame buffer fill up; `write_buf` of
`MCFramerStream` takes an empty Pong, a message and a close frame and refuses a
Pong with a payload, so that both ways out of `send_back` are met. The async
framer's buffer is as small as it may be: two frames of one chunk, two payloads
and the 14 bytes for a header; with one byte less a Ping with a payload panics
(37 in place of 38). In `MCHandshake` a message of three bytes is cut into one,
two or three reads, a read may end in the message or behind it, and `UsizeRange`
makes the subtraction wrap; another program gets only one form of request,
because its answer does not depend on it. Every invariant and action property
of the passing runs, and the safety part of the three refinements, is also
proved for all bounds (section 4), under conditions that the instances meet but
for the few named there.

**Assumptions that the runs make and the code does not enforce.** They are
constants, so a reader can lift them: `Cuts` (section 5, A), `SmallWriteBuffers`
(B), `ControlInMessage` and `AppFragments` (C), `ReuseWebSocket` (D), `HttpAlone`
(E), in `MCFramer` that the application does not close first (F), in
`MCFramerAsync` `Cuts`, `FragmentMessages`, `BufLen` and `AppReadsOn` (I), and in
`MCHandshake` `AcceptGiven` (J).

**Fairness.** *Connection*: an application that has bytes and has not given up
reads the frame to its end (`ClientReadsOn`, `ServerReadsOn`), answers a close
message, and a response becomes complete: the loops of the examples
(`examples/client.rs:56-66`, `examples/server.rs:101-112`) and TCP. Fairness of
reading asks that the frame be consumed, not that `read` be called, because a call
with an empty buffer is a legal call that achieves nothing. It is written out
with the guards in place of `ENABLED`, since TLC evaluates it faster. *Framer*:
weak fairness of the steps of `connect`, `accept` and `read`, because the
caller's thread runs them and the stream delivers what was sent. Nowhere is it
assumed that a peer sends, or that an application writes or closes.
*FramerAsync*: weak fairness of `Connect`, `ConnectReceives`, `Accept`, `Receive`
and `Decode`: an executor polls a task until it is through, and the loops of the
examples call `read` again. *Handshake*: weak fairness of the two read loops and of
`accept`; not of another program's answer. A read of no bytes, when the stream
has ended, leaves the loop of `connect` where it is and is a stutter; so
`HandshakeConcludes` has its exception for connections that are lost.

## 4. What is proved

For all values of the constants that satisfy the assumption each module states
of them (`EndpointAssumption` and so on: the constants have their types, and a
`usize` can count a message and what follows it): any set of payload lengths and
buffer sizes, any number of frames under way, streams of any length; any keys,
names, message lengths and number of attempts.

| Theorem | Property | Condition |
|---|---|---|
| **`Endpoint_proofs`** | | |
| `TypeCorrect` | `TypeOK`; with `continuation_read.count \in Nat` it says that no count underflows | none |
| `FramingCorrect` | `FramingInStep` | `ReuseWebSocket = FALSE` |
| `ContinuationsCorrect` | `ContinuationsExpected` | `FragmentsWhole` |
| `ReportsCorrect` | `ReadReportsTheStream` | `FragmentsWhole` |
| `ProgressCorrect` | `ReadMakesProgress` | `FragmentsWhole` |
| `WireCorrect` | `WireWellFormed` | `Disciplined` |
| `CloseCorrect` | `CloseAgrees` | `Disciplined` |
| `HeadersCorrect` | `HeadersDecode` | none |
| **`Connection_proofs`** | | |
| `TypeCorrect` | `TypeOK` | none |
| `ClosingImplemented` | `CloseHandshake`'s `Safety` | none |
| `NeverFails` | `NeitherFails` | `Disciplined` |
| `ReportsCorrect` | `ReadsReportWhatWasWritten` | `Disciplined` |
| `AllIsRead` | `NothingLeftUnread` | `Disciplined`, `Cuts = "frames"` |
| **`Framer_proofs`** | | |
| `TypeCorrect` | `TypeOK`; each cursor lies between 0 and the length of its buffer | none |
| `WireCorrect` | `WireWellFormed` | `AppFragments = FALSE` |
| `ClosedCorrect` | `ClosedMeansClosed` | a client's response comes by itself |
| `OrderCorrect` | `ComesOutInOrder` | `GoodChunks` |
| `CollectingCorrect` | `NothingLeftBehind` | `GoodChunks` |
| `ChannelImplemented` | `MessageChannel`'s `Safety` | `GoodChunks` |
| `FramerNeverFails` | `NeverFails` | `AllIsWell` |
| **`FramerAsync_proofs`** | | |
| `TypeCorrect` | `TypeOK`; what is left never underflows | none |
| `WireCorrect` | `WireWellFormed` | `AppFragments = FALSE` |
| `RemainderCorrect` | `RemainderKept` | the application writes with another buffer, or `HasRoom` |
| `ClosedCorrect` | `NoneMeansClosed` | `WholeStream` |
| `FailuresCorrect` | `FailsForAReason` | `WholeStream` |
| `ChannelImplemented` | `ImplementsMessageChannel` (`MessageChannel`'s `Safety`) | `WholeStream` |
| **`Handshake_proofs`** | | |
| `TypeCorrect` | `TypeOK` | none |
| `CursorsCorrect` | `CursorPastHeader` | none |
| `KeysCorrect` | `OpensOnItsOwnKey` | `AcceptGiven` |
| `AgreementCorrect` | `SidesAgree` | none |
| `AcceptanceCorrect` | `AcceptedIsNotAborted` | none |

**The conditions** are what the code leaves to its user, and section 5 tells what
happens without each.

- `FragmentsWhole`: one opening per websocket (D), and `Cuts # "anywhere"` (A; run
  `FragmentCut` violates `ReadMakesProgress` without it).
- `Disciplined`: `SmallWriteBuffers = FALSE` (B) and `ControlInMessage = FALSE` (C); for
  `Endpoint` also one opening per websocket, for `Connection` also
  `Cuts # "anywhere"`.
- `GoodChunks`: `Cuts # "anywhere"` (A, G), and `frame_buf` has room for the longest message and
  one frame more: where it has not, the buffer cuts a fragment as a chunk does.
  `MCFramerStream`, where a message fills the buffer, is outside of this
  condition: there `ComesOutInOrder` is model-checked only.
- That the response comes by itself is E (run `FrameBehindResponse`).
- `AllIsWell` adds to these that the stream does not fail, that the application does
  not close first (F), room for the longest message in `frame_buf` and a byte
  more, and in `write_buf` for the largest answer and the application's message of one
  byte (7). `Write`, `Close` and `send_back` fail without the last.
- `HasRoom`: what the peer can have under way (`MaxInbox` frames) leaves room in
  the one buffer for the request, and for a message, its answer and the 14 bytes
  the code adds for a header. This is the condition of `framer_async.rs:266` and
  302 (I). The instance of `MCFramerAsync` meets it with equality.
- `WholeStream`: `HasRoom`, chunks that end between frames, and messages in one
  frame each (I; run `AsyncFragments` violates `NoneMeansClosed` without the last).

**Argument: the codec.** `Codec_proofs` has a lemma for each operator on what it
returns: types (`ReadContinuationType` is where the count stays natural: it goes down
by the least of three lengths, of which it is one), what it leaves alone, and
with `WriterInv` what the writing side does: `is_write_continuation` is set
exactly while the frames written are inside a message, and the states `CloseSent` and `Closed`
are those with a close frame on the wire. `Reading_proofs` relates a websocket
to the stream it reads. `ReaderInv` says of bytes that `continuation_read` agrees
with the first frame and the offset in it. `MessageInv` says of messages that
`continuation_frame_op_code` is the type of the message the next frame is in, if it is in
one; `Within` computes this from the frames that are to come and, behind them,
the peer. The lemmas take the websocket, the frames, the offset and the peer's state as
parameters, so that every module with a websocket uses the same ones.

**`Endpoint`.** `FramingInStep` is not inductive alone. A step that opens the
websocket clears the stream, so nothing may be remembered before it
(`NotYetOpen => NothingRemembered`), and a close frame read in part leaves a
continuation behind that must never be used, so the state must have left those that read
(`CloseFrameRead`). Together they are `FramingInv`; the proof of its step follows
the three ways through a read (refused, start of a frame, continuation) with
`RotateProps` for the mask key. `MessagesInv` joins it with `MessageInv`; the action
properties follow from it step by step. `WriteInv` and `CloseInv` add the
writing side, and that a close frame in the inbox was the peer's last.
`HeadersDecode` needs `TypeOK` alone: the case split is on the limits 126 and
65535 of `length_bytes`.

**`Connection`.** The peer of each codec is the other codec, so the two invariants
meet: `ReaderSide` of one end and `WriterInv` of the other share the ghost of what
was written. `ClosingInv`, for the refinement, needs less and holds
without any condition: whoever has a close frame to read, or has read one, knows
that the other end's state says that it was sent (`Knows`).

**`Framer`.** `StepInv` carries `ReaderInv` until a call fails. `ClosedInv` finds
what `Closed` rests on: a cursor that is not 0 belongs to a chunk that is not
empty, which the end of the handshake must not break. `OrderInv` has the stream: the
frames that are not taken yet carry exactly the messages that have not come
out (`CarriesRest`, two functions along the frames that count the messages
completed and the bytes collected), the first of them with what the frame buffer
holds of it. `NothingLeftBehind` is the second of these functions at the last frame:
`Collected`, which starts from `frame_cursor` and ends with what the peer has sent of
its message. A message that comes out is then the next one sent, which is the
step of `MessageChannel`. Sums and counts along a stream are recursive functions; what
they are for every stream is proved by induction over sets of numbers
(`LeastElement`, `Induction`), since the induction theorems of the library are not
usable here.

**`FramerAsync`.** `BufferInv` says how much the bytes kept in the buffer can be:
no more than what waits in the stream, and that no more than `MaxInbox` frames of the
peer. Each place the code writes to is then below the bytes kept by arithmetic:
decoded payload, because `read` gets a slice that ends where they begin, an answer because it
is no longer than its payload and 14 bytes more. This needs no condition but
for what the application writes, which goes to the start of the buffer with no
regard for what is kept at its end. `WholeInv` adds that each call of the codec
begins and ends at the start of a frame, with nothing collected; one call takes one
frame (`WholeRead`), and what comes out is the next message.

**`Handshake`.** `ResponseInv` and `RequestInv` add what `CursorPastHeader` says
nothing of, the time before: while the message is being read, the cursor is the
number of bytes taken out of the stream. The step in which the message becomes
complete then is arithmetic modulo `UsizeRange` (`Wraps`, `AdvanceProps`): `n - len` may
wrap, and adding the cursor wraps back, because their sum lies between 0 and
`UsizeRange`. `KeyInv` adds to `OpensOnItsOwnKey` that an answer with code 101 has an
accept string, and rests on `ResponseInv`, by which a response does not change
while it is read. `AgreeInv` relates the two programs: the request on its way is that of the
present attempt, what the server has read comes from it, and its answer is
the one to that key with a name of that list; `SidesAgree` follows, and that the
client never aborts on it.

**Model-checked only.** Liveness, which is out of this prover's reach: `Completes`
in `ImplementsCloseHandshake`, `AllReceived` in the `ImplementsMessageChannel` of
`Framer`, `EveryMessageComesOut`, `EndsWithTheStream`, `HandshakeConcludes`. All
other properties of the passing runs are theorems. What the proofs do not say
beyond the runs: nothing is proved of streams cut anywhere but framing, types,
what is written, `ClosedMeansClosed` and `RemainderKept`, because the rest does
not hold of them (section 5), and nothing of the async framer's messages when
they are fragmented or cut, for the same reason.

## 5. What the models say of the code

Each of these came out of a property written from a document, a comment or the
RFC's rules that the code does not satisfy without a restriction. Those with
a run are listed as findings in `PROJECT.json`; the others are seen by lifting the
constant named and checking the same property.

A. *Frames cut inside a fragmented message.* `read_frame` clears
`continuation_read` only at the end of a **final** frame (728), and then also
clears the message's opcode whatever the frame was (730). Hence, with
`Cuts = "anywhere"`:
 - a fragment that is not the last and is read in two calls leaves a count of 0
   behind, and `read` takes no byte ever after (run `FragmentCut`); the framer's
   inner loop (`framer.rs:210`) then spins, as `read_cursor` never moves;
 - a Ping between fragments, read in two calls, makes `read` forget the message
   so that its next fragment is refused (`ContinuationsExpected` fails);
 - the last fragment, read in two calls, is refused in its second call with
   `UnexpectedContinuationFrame` (`ContinuationsExpected` again).

 Also, a last fragment that is read whole does *not* clear the opcode: a peer
 that breaks the rules may continue a finished message.

B. *State changed before a failure.* `close` sets `CloseSent` (700) and `write`
sets `is_write_continuation` or `Closed` (674-679) before `write_frame` refuses
a buffer that is too small. The close frame can then not be sent any more
(`CloseAgrees` fails with `SmallWriteBuffers = TRUE`), against lines 687-688; what
is written after a first fragment that was refused goes out as a continuation of
nothing (`WireWellFormed` fails), though the documentation of the error (661-663)
advises to try smaller fragments.

C. *Control frames inside one's own fragmented message.* `write` (675) gives any
frame but a close frame the continuation opcode while a fragmented message is
being written, a Pong too (`WireWellFormed` fails with `ControlInMessage = TRUE`).
The framer does this by itself when a Ping arrives between two fragments of its
application (`WireWellFormed` of `Framer` fails with
`AppFragments = TRUE`).

D. *Opening again.* `server_accept` (445) refuses only `Open`: a closed websocket
opens again, with what it remembered of its old stream, and so `FramingInStep`
fails with `ReuseWebSocket = TRUE`.

E. *The end of the handshake.* `connect` (`framer.rs:94`) sets `read_cursor` to
the number of bytes behind the response while `read_len` stays 0: the first
`read` returns `Closed` on an open connection (run `FrameBehindResponse`). When
the response took more than one read, the subtraction underflows: a panic in a
build with overflow checks, and the right cursor in one without, as
`CursorsCorrect` proves. The servers' `read_header` has the same line. When the
stream ends or the buffer fills before the response is complete, the loop does
not end.

F. *A Ping after `close`.* The framer answers a Ping with `write`, which refuses
in `CloseSent`: `read` fails with `WebSocketNotOpen` and the peer's close frame is
not read. With `AppCloses = TRUE` in `MCFramer`, `NeverFails` is violated.

G. *Chunks in the framer.* A chunk that ends inside a frame header makes `read`
fail with `ReadFrameIncomplete` (`NeverFails` fails with `Cuts = "anywhere"`),
though its comment (`framer.rs:193`) says that it blocks until it has a full
frame. A Ping that arrives in two chunks is answered with two Pongs, one per
piece (`ComesOutInOrder` fails). A message that fills `frame_buf` exactly and is
followed by one more frame fails with `FrameTooLarge`.

H. *Pieces of a close frame.* Any piece of a close frame is reported with
`end_of_message` true (1052) and changes the state, so that the rest is not read;
a first piece shorter than the status reports `InternalServerError`. The documentation
(568-573) says that `end_of_message` is false for it (run `CloseFrameCut`).

I. *The async framer.*
 - It returns `None`, which ends the loops of the examples, for each piece of a
   message that is not its last (`framer_async.rs:322`; run `AsyncFragments`).
 - It hands the codec the buffer from its start whatever `frame_cursor` is (234), so
   that the second piece of a message overwrites the first, and a Pong, a Ping
   or a close message between two pieces is taken from the wrong place. With
   `FragmentMessages` and `AppReadsOn` both `TRUE`, `ImplementsMessageChannel` fails.
 - `connect` panics when the response takes more than one chunk (120), and so
   does an answer when the buffer has no room for it (266, 302): `FailsForAReason`
   fails with `Cuts = "anywhere"`, or with a smaller `BufLen`.
 - A Ping after `close` is as in F.

J. *The opening handshake.*
 - A response without an accept header opens the websocket (`http.rs:95`; run
   `NoAcceptString`), against line 535.
 - A sub-protocol of more than 24 characters panics: at the client when it is in a
   response (`http.rs:107`), at the server when it is in a request (58).
 - An empty list of sub-protocols is sent as a header without names, and read as
   a list of one empty name.
 - A request without a key gives a context with an empty key, which the server
   accepts (`http.rs:66`).

## 6. What is not modelled

- Payload bytes and UTF-8 validity: data that the properties do not tell apart.
  The framers' `Utf8` errors, which leave the state as a message that came out does.
- The cast of a 64-bit length to `usize` (1035) on narrower targets: lengths are
  natural numbers here, and a frame of 2^32 bytes is in no bounded run.
- The text of the HTTP messages; the limits of 16 and 64 headers of the parsers;
  header values that are not UTF-8; that SHA-1 tells keys apart is assumed.
- Futures of the async framer that are dropped while they *send*. One that is
  dropped while it waits for bytes is modelled. `encode`, which is `write` without
  the stream.
- The codec of `examples/common/mod.rs`, which passes chunks on as they come.
- `random.rs`: nothing to model. Logging and formatting.
- A caller that passes a framer a different buffer in the middle of a message, or goes
  on with an open framer after an error.

## 7. The plan

Done: all modules, and every invariant and action property of the passing runs
as a theorem, with the safety part of the three refinements. The header
encodings are a part of `WebSocketCodec` and not a module of their own.

Left, in this order:

1. Conditions that could be weaker. `Endpoint`: after a fragment is cut, what does
   still hold of the frames behind it? `Framer`: `ComesOutInOrder` when a message
   fills `frame_buf`, which `MCFramerStream` checks. `FramerAsync`: `FailsForAReason`
   for chunks that end in the payload of a frame, and `ImplementsMessageChannel`
   for what comes out before the first `None`.
2. `FramerAsync` with fragments against `MessageChannel`, once the code keeps the
   pieces apart.
3. A read of the async framer that is dropped while it sends (section 6).
