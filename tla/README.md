# mongowire in TLA+

mongowire lets a program serve the MongoDB wire protocol: it frames and parses
messages, runs the handshake and SCRAM authentication, and hands every other
command to the program's handler. This directory holds TLA+ specifications of its
state machines, parsers and library functions, TLC configurations that check them on
small instances, and TLAPS proofs for every instance of the parts that matter most.

## The system

| part | source | module | status |
|---|---|---|---|
| server loop, two reply paths | `mongowire/src/api/mod.rs` | Connection, RequestReply | modelled, proved |
| built-in commands, negotiation | `api/mod.rs`, `api/response.rs` | Connection | modelled, proved |
| connection state | `api/client_info.rs` | Connection | modelled, ids proved |
| handler interface, errors | `api/handler.rs`, `error.rs` | Connection, SaslBridge | modelled |
| accept loop, example server, test client | `api/mod.rs`, `examples/`, `test_client.rs` | Server | modelled |
| SASL bridge | `api/auth.rs` | SaslBridge, SaslText, Escaping | modelled, proved |
| SCRAM client and server | `mongo_common/src/auth/scram.rs` | Scram, ScramExchange, SaslText | modelled, proved |
| SASL PLAIN | `mongo_common/src/auth/plain.rs` | SaslText | modelled |
| framing, codec, header | `framing.rs`, `codec.rs`, `messages/header.rs` | Framing | modelled, safety proved |
| OP_MSG | `messages/op_msg.rs` | OpMsgParser | modelled, proved |
| OP_QUERY, OP_REPLY | `messages/op_query.rs`, `op_reply.rs` | MessageBodies | modelled, proved |
| OP_COMPRESSED, compression | `messages/op_compressed.rs`, `compression/` | MessageBodies, Framing | all but the algorithms |
| BSON decoder and encoder | `wirebson/src/{decode,encode}.rs` | BsonDecoder | modelled, bounds proved |
| documents, arrays, macros, raw accessors, JSON, rendering | `wirebson/src/` | Documents, TextForms | modelled |
| scalars and their bytes | `mongo_common/src/bson/scalar.rs`, `io.rs` | ScalarCodec, TextForms | modelled |
| conversions to Rust types | `bson/convert.rs`, `wirebson/src/convert.rs` | Conversions | modelled, integers and times proved |

On a connection the parts meet like this. `serve` (Server) accepts sockets and
spawns a task for each. tokio's `Framed` reads bytes and calls
`MongoCodec::decode`, that is `parse_message` (Framing), which calls the body
parsers (OpMsgParser, MessageBodies). `process_socket` (Connection) takes one message
at a time, unwraps OP_COMPRESSED, and runs the handler chain: `ScramBridge`
(SaslBridge, which drives the ScramServer of Scram), then the built-in commands, then
the program's own handler. `send_reply` writes the outcome. All state of a connection
is in `ConnectionInfo` and `Framed`; connections share the handler, the configuration
and the process-wide ObjectId counter.

## Modules

**Escaping** has the text functions of the bridge and the SCRAM client on
sequences of characters: `Replace` is `str::replace`, `EscapeUsername` and
`UnescapeUsername` are its uses in their order. **SaslText** adds what reads a
client-first message, character by character: the bridge's
`parse_client_first_username` and `ScramServer`'s attribute parser, which have to agree
on it, and the PLAIN payload.

**Scram** has one operator per method of `ScramClient` and `ScramServer`; an
operator takes the machine and a message and returns the machine, a success flag and
a message. Cryptography is symbolic: a digest is a term that holds its inputs, so
guessing and collisions are left out, and the XOR of key and signature is a pair.

**SaslBridge** has `SaslStart` and `SaslContinue`, with the outcomes a command can
have (reply, command error, protocol error) and what each path does to `SaslAuth`.

**ScramExchange** composes both: several clients and one bridge on one connection.
`toServer` and `toClients` keep every payload ever produced, so delivery in any
order, twice, late or to another exchange is a step like any other. `tried` and
`verified` are history variables.

**Connection** is `process_socket`. `pc` says where it is suspended: in
`framed.next()` ("read"), before the write in `send_reply` ("send"), or between
encoding into `Framed`'s buffer and its flush ("flush"). `CloseOnBadFrame`,
`IgnoreReply`, `AnswerQuery` and `RunCommand` are everything between taking a frame
and the next await on the socket, the handler included: nobody else can see
or change the `ConnectionInfo` meanwhile. `WriteDirect` is the path past the
buffer, `EncodeFramed` and `FlushFramed` the path through it. The program's handler
is the constant `InnerOutcomes`: it may return any of them for any command. The trait
hands it the `ConnectionInfo` mutably (`handler.rs:47`), so it could also rewrite the
negotiated compressors, the checksum setting or the SASL state, or take request ids;
"any handler" below means any that does not.
Requests are numbered in the order sent, and `log` records each frame dispatched
with its outcome.

**RequestReply** is what the loop promises, with no mention of buffers, checksums or
handlers. Connection implements it under the mapping `Promise` (a request is
taken when dispatched, owed a reply while one is pending, answered when it is on
the wire).

**Server** is the example program around it: start and `bind`, either of which may end
the program, the accept loop with failing accepts, a task per connection with the demo handler, and the test
clients with their receive loop over partial frames. The command line is abstracted to
whether it can be read: where to listen is nothing a connection sees, and both
checksum settings are Connection's. What matters here is what
connections share. `ReadClock` and `TakeCounter` are the two steps of `ObjectId::new`
between which other tasks run.

**Framing** is `parse_message` inside `Framed`. A stream is a sequence of frames
(declared length, opcode, checksum flag, whether the CRC is right, whether the body
is well formed, and what is compressed in it); the state is how many bytes were
read and consumed. `Fill(n)` reads any number of bytes. `Framed` itself is
tokio-util's and is marked external in the map.

**OpMsgParser** is `OpMsg::parse_body` one loop turn per step. Bytes that do not
steer the parser do not exist. Those that do are chosen when the cursor gets to
them, which is the same as an arbitrary body because the cursor only moves forward;
for an encoded message they are what `encode_body` wrote. An index or a slice out
of bounds and a subtraction below zero lead to `pc = "panicked"`. **MessageBodies**
treats OP_QUERY, OP_REPLY and OP_COMPRESSED the same way; `unwrap_body` starts the
parser again on the decompressed bytes. **WireFields** has what Framing, MessageBodies
and Connection compute on sequences: sums of widths, the fields that begin at a
position, and `Keep`, the filter of an iterator.

**BsonDecoder** treats `decode_fields`, `decode_array` and `Scanner::next` the
same way, with one stack frame per level of recursion. A frame is a Scanner: where its
buffer starts in the input, how long it is, and the offset of the next field in its own
body, so that the code's rebasing (`4 + voff` in the parent, 0 in the child) is in the
model, and so are the slices of composites and of the scope of JavaScript code, with
the check that precedes each. What was decoded is encoded and decoded a second time
(`round`).

**ScalarCodec** has the bytes of one value: `parse_scalar`, `parse_value` and
`encode_scalar` with the readers of `io.rs`, in widths scaled down. **Conversions** has
the tables of `From` and `TryFrom` between BSON values and Rust types; an integer type
is a range of numbers, a Double is given by twice its value, and `AsF64` and `AsF32` are
the rounding of `as f64` and `as f32`; a time or a Duration counts ticks, several to the
millisecond. **TextForms** has hex, base64 and the calendar, each with a
reference definition that undoes it. **Documents** has the operations of `Document`,
the accessors of `RawDocument`, `doc!` and `arr!`, rendering and JSON, on values
abstracted to their kind and nesting. **MCLibrary** picks an input of one of these
functions in a single step and states their laws as invariants.

**ConnectionProofs**, **ReplyContentProofs**, **ScramExchangeProofs**,
**FramingProofs**, **OpMsgProofs**, **MessageBodiesProofs** and **WirebsonProofs** hold
the theorems, **WireLemmas** the lemmas on sums, filters and remainders that several of
them use. The MC modules hold the sets the configurations use.

Operators named in a comment "Mutant of" are variants of the definition below them
with a plausible bug; replacing the definition by the variant makes TLC violate the
property that PROJECT.json pairs it with. No specification uses them otherwise.

## Runs

`tlc -config X.cfg M` for each row; counts are distinct states.

| run | configuration | states | what it shows |
|---|---|---|---|
| library | MCLibrary | 376,703 | the laws of the library functions below |
| scram_exchange | MCScramExchange | 12,528 | the properties of authentication below |
| connection | MCConnection | 327,415 | the properties of the loop below, and Implements |
| connection_live | MCConnectionLive | 15,087 | every request is settled |
| server | MCServer | 125,971 | several connections and the accept loop |
| framing | MCFraming | 49,357 | chunking, waiting, end of stream, trailers |
| opmsg_parser | MCOpMsgParser | 315,528 | bounds, exactness, round trip, termination |
| message_bodies | MCMessageBodies | 60,643 | bounds, exactness, round trip |
| bson_decoder | MCBsonDecoder | 267,220 | bounds, depth, round trip, stable lengths |
| narrowing, oneway_error, framing_compressed | | | a comment the code does not keep, see Findings |

*The loop.* `RepliesInOrder` and `RepliesExact`: replies leave in request order, at
most one each, none missing when the loop reads again. `RequestIdsDistinct`: the
replies of any `IdSpace` consecutive writes have different ids, also where the counter
wraps. `NegotiationAgrees`: a client that holds the reply to the latest handshake and
the server agree on the compressors, in the server's order of preference.
`ContinueMatchesStart`: a successful saslContinue is the first since the latest
successful saslStart to present a client-final message; one whose payload cannot be read
presents nothing and leaves the exchange in flight. `Implements`: the loop is a RequestReply.

*Authentication.* `VerifiedByPasswordHolder`: an accepted proof was made by a
client that holds the password of the user it is accepted for. `DoneMeansVerified`:
a client is done only when the server verified that client.
`OneAttemptPerExchange`, `LastIdentity`, `ExchangeNotReplaced`: what duplicated and
reordered commands cannot do.

*The server.* `RepliesFit`: a client takes replies whole, of the right kind and to its
present request, and sees its connection closed only for a request that cannot be
parsed. `ObjectIdsDistinct`: tasks that race on the counter make
different ids with a clock that stands still. `Served`: every request is answered or
its connection closed, whatever the other clients do and although accepts fail.

*Framing.* `ChunkingInvisible`: what is dispatched depends on the stream and not on how
it was cut. `SettledOnArrival`: a complete or already refused frame never waits for
more bytes. `CleanEndAtBoundary`, `DirectTrailersVerified`.

*Parsers.* `NeverPanics`, `AcceptedIsExact` (the debug_assert of OP_MSG's `parse_body`;
for the other bodies, `body_len` of the result is the length parsed),
`EncodedRoundTrips` (what the code can encode it parses to the same value; the
exceptions the code has are part of the statement: an empty sequence with an
identifier under four bytes, an empty collection name, a body compressed twice or with
a compressor the build lacks, nesting deeper than the limit), `Returns` and
`ReencodingIsStable`.

*The library.* `ClientFirstReadBack`: the user looked up is the user the client named,
and the two parsers of a client-first message agree. `PlainReadBack`: a NUL never cuts
a PLAIN field short. `DecodersAgree`: the two separately written scalar decoders do the
same on all bytes. `ScalarRoundTrips`, but for a `UserDefined` subtype below 0x80.
`IntegersExact`: a conversion gives the number or an error, but for the Double 2^63; an
integer a Double or an f32 holds becomes that one although the code rounds twice; and a
Duration is as long as the u64 of the same value says.
`TimesKept`: dates come back, but for the least one in a build with overflow checks;
a time comes back if and only if it is a whole number of milliseconds that an i64 holds
(finding 4), and otherwise loses less than a millisecond as long as it fits.
`TextExact`: hex, base64 and the calendar are undone by their references.
`DocumentLaws`: documents that repeat names. `RawAccessAgrees`: what the server reads
of a raw command is what decoding gives. `RendersInFull`: the rendering's depth limit
elides nothing the decoder can return (code with scope is rendered as its code and the
scope's byte count, by design). `JsonAllOrNothing`: one field JSON cannot express fails
the whole; null stands for Null, Undefined, NaN and the infinities only.

### Bounds

* Connection: `MaxRequests = 3` puts a request behind any two others, which is what
  order, buffer, negotiation and a start-continue-replay sequence need.
  `IdSpace = 2` wraps the counter within the run (2^32 in the code); the proof covers
  every size. There is one frame for every branch of the loop and the handlers.
* ScramExchange: `MaxExchanges = 3` server nonces, so a message can meet an older
  and a newer exchange; three clients, with two users, one name being the
  unescaped form of the other, two mechanisms and one wrong password.
* Server: two clients of two requests each, so that a reply can meet another client and
  another request of the same one; `CounterSpace = 3` (2^24 in the code) repeats within
  the run; one failing accept; a clock before the epoch and at it. The requests stand for
  the ways one can go: answered, answered with an ObjectId, and closed upon, as OP_MSG
  and as OP_QUERY.
* Framing: lengths on both sides of every comparison, with `max_msg_len = 30`;
  two frames, because the third sees no more of the first than the second does.
* OpMsgParser: `MaxLen = 34` holds a body document, a sequence with two documents and
  the beginning of another section. MessageBodies: `MaxLen = 38` holds three documents
  of an OP_REPLY. The proofs need no bound.
* BsonDecoder: `MAX_NESTING_DEPTH = 2` (20 in the code) with documents one level
  deeper; arbitrary documents of 22 bytes hold three levels; `MaxPart` bounds the code
  and the scope of arbitrary code with scope by half of that each, above which they do
  not fit together anyway; the long array has
  twelve elements so that index names of one and two digits occur.
* MCLibrary: an int32 or a length takes one byte, an 8-byte value two, an ObjectId
  three; all sequences of five of six bytes, which holds every header and boundary of
  every type. Integer types have 2 to 11 bits, Doubles 4 significant ones and f32 three, so
  that, as in the code, i64 does not fit a Double and a Double does not fit an f32. The calendar is checked for every day of a
  400-year cycle and around the year 0. `UuidLen = 3` and `IdLen = 2` stand for 16 and
  12, `MaxDepth = 2` for 20, with trees two levels deeper.

Deadlock checking is off where the system really stops: a closed connection, a
parser that returned, an input that was picked. ScramExchange can always go on.

### Fairness

`FairSpec` of Connection and `Spec` of Framing assume weak fairness of the server's
own steps: a tokio task whose future is ready is polled again, and sockets that are
written to accept bytes or fail. Nothing is assumed of the client, which may
send nothing, stop, or close. `Spec` of OpMsgParser assumes that a function call in
progress goes on. `Spec` of Server assumes the same of the start, the accept loop and
each task, and of a test client that waits for a reply, that it goes on reading; failing
accepts are finitely many, because an accept that failed for ever would serve nobody.

## Proofs

`tlapm M.tla` checks every theorem; none rests on anything but the named
assumptions on constants, which TLC evaluates in every run.

* **ConnectionProofs**: `TypeCorrect`, `InOrder`, `OneWay_Unanswered` (a moreToCome
  request is never answered), `Exact`, `BufferEmpty` and `ErrorsClose`, for any number of
  requests, any frames and any handler. Order alone is not inductive: a reply is added
  to the wire long after its request was taken. `ReplyInv` adds that
  the inbox continues the numbering of the log, that a pending reply belongs to the
  last request logged and that this one is due, that `Framed`'s buffer is empty
  except during a flush, when it holds just that reply, that replies on the wire answer
  due requests and, while one is pending, only earlier ones, and that
  every due request but that last one has been answered while the connection is open.
  There is one lemma per action. `BufferEmpty` is why the direct write of checksummed
  replies cannot overtake one in the buffer. `ErrorsClose`: nothing is dispatched behind a protocol
  error of a request that expects a reply.
  The same module has two more results from `ReplyInv`. `ExchangesMatch` is
  `ContinueMatchesStart` for any requests and credentials. `SaslInv` carries it: while the
  connection is open, an exchange in flight was begun by a successful start in the log
  behind which there is neither another one nor a client-final message presented. `Tells` says what each handler does to the
  exchange and what it logs, one lemma per command. `LoopImplementsRequestReply` is
  `Spec => Promise!Spec`: each action maps to a step of RequestReply or a stutter;
  encoding into the buffer is a stutter, flushing it is the answer.
* **ReplyContentProofs**: what the replies carry. `IdsDistinct`, for every `IdSpace`:
  `IdInv` says that the j-th reply has the id (j - 1) % IdSpace and where the counter
  stands, one ahead while a reply is in the buffer; the rest is arithmetic (`Apart`).
  `Negotiated`, for any two configured lists: `NegotiationInv` says that the reply to the
  latest handshake, wherever it is (pending, in the buffer or on the wire), carries the
  negotiated list, and that this list is one of the configured ones filtered. That it
  keeps the order of preference is `KeepAgain`: filtering by what a filter kept changes
  nothing.
* **FramingProofs**: `Chunking`, `CleanEnd`, `DirectTrailers` and `FailsWithCause` (a
  connection fails over the next frame itself or because the stream ended inside it), for
  streams of any number of frames of any lengths. `FrameInv` says that the buffer begins
  where the frame after the last one dispatched begins, and that a frame between
  `parse_message` and the loop has passed its checks. `DirectTrailers` closes the gap
  between the checks by arithmetic: a flagged message too short to be compared with its
  trailer is too short for the OP_MSG body parser.
* **OpMsgProofs**: `ParserTypes`, `ParserNeverPanics` and `ParserIsExact`, for bodies
  of any length. `CursorInv` says that the cursor stays inside the sections and
  equals 4 plus what `Sections::size` has counted, that a section's end lies within the
  sections, and that the trailer follows them. It also makes the two
  overrun errors of `parse_body` dead code.
* **MessageBodiesProofs**, for bodies of any length: `BodiesNeverPanic`;
  `BodiesAllRead` (an accepted body was read to its last byte, an OP_REPLY with every
  document it counted, an OP_QUERY with one or two); `BodiesExact` (its `body_len` is the
  length parsed); `BodiesRoundTrip` (what `encode_body` and `wrap` write is parsed and
  unwrapped to the same value, for any name and any number and size of documents).
  `BodyInv` bounds the cursor at each `pc` and equates it with the head plus the documents
  taken. `RoundInv` adds, for encoded bytes, that the documents taken are a beginning of
  those encoded and that what is left to take is the rest, so that the cursor stands at
  the next one.
* **ScramExchangeProofs**: `Authentic`, `Mutual`, `OneAttempt`,
  `Identity` and `NotReplaced`, for any clients, accounts and number of exchanges.
  `AuthInv` adds to the properties what each client's transcript is in each of its
  states, that every message on its way to the bridge was made by a client, and that
  every server-final message signs the transcript of an accepted proof. The lemmas take
  one method each.
* **WirebsonProofs**: `DecoderNeverPanics`, for bytes of any length and any nesting
  limit: `StackInv` adds to the property (each level of the recursion lies among the
  fields of the one that encloses it, and there are no more levels than the limit) that
  the starts, lengths and offsets of all levels are natural numbers whatever was read and
  that there is a level to go on with. That a length checked against the rest of the body
  fits the parent's buffer at the rebased offset is the step for composites
  (`CompositeInv`) and the one for scopes (`ScopeInv`).
  `IntegerConversions`, `DatesReturn` and `TimesTruncate`, for
  integer types of any width, any clock resolution and any rounding that takes i64's
  bounds to a Double at or beyond them.

Sums and filters are recursive functions of an index. What the proofs need of them
(WireLemmas) is proved by induction over that index, stated for a set of natural numbers
(`Induction`), since the provers cannot instantiate the library's induction theorems.

What the constants are assumed to be: bounds are natural numbers; `Streams`
are sequences of frames whose lengths are integers (`StreamsAssumption`); `Messages` are
bodies the API can build (`MessagesAssumption`); the configured compressors are lists of
names (`OfferedAssumption`); the tags of `Tags` are scalar ones (`TagsAssumption`); `None`
differs from the values it stands in for; and the clients' names survive escaping, which
`ClientFirstReadBack` checks.

Only model-checked:

* liveness (`EverySettled`, `SettledOnArrival`, `Returns`, `Served`), since TLAPS does not
  handle fairness;
* `EncodedRoundTrips` of OpMsgParser and of BsonDecoder and `ReencodingIsStable`, whose
  encodings flatten sequences of sequences or recurse on nested documents; the lemmas on
  flat sums do not reach them;
* the laws of MCLibrary but for the three on conversions (floats, durations and which times
  come back exactly are not among those), and the escaping of names: most of their
  functions are recursive over text, bytes or trees;
* Server: `RepliesFit` and `ObjectIdsDistinct` rest on the interleaving of tasks that the
  run explores.

## Findings

Four comments say something the code does not do; nothing was changed here.

1. *oneway_error*: a protocol error returned for a moreToCome request does not close
   the connection (`api/mod.rs:189` against `error.rs:3`).
2. *framing_compressed*: the checksum of a compressed OP_MSG is not verified
   (`op_compressed.rs:92` against `op_msg.rs:182`).
3. *narrowing*: the Double 2^63 converts to the integer 2^63 - 1 without an error
   (`bson/convert.rs:93` against `bson/convert.rs:4-5`).
4. `From<SystemTime>` is called "lossless, infallible" (`wirebson/src/convert.rs:3`, and
   lossless at `bson/convert.rs:4`). It drops what is below a millisecond, wraps beyond
   an i64 of milliseconds and, in a build with overflow checks, panics at the least one
   (`wirebson/src/convert.rs:126`, `bson/convert.rs:170`). No run of its own violates the
   comment; `TimesKept` in *library* says exactly which times come back.

Met while modelling, without a run of their own: with checksums off, a reply value
parsed from another frame is sent with that frame's checksum (`codec.rs:66`, `lib.rs:16`);
`shallow()` decodes nested composites (`decode.rs:99`, `raw.rs:89`); the branch of
`Scanner::next` without a tag byte, "unreachable", is reachable and returns an error, as
it should (`decode.rs:151`); `encode_scalar` is documented as infallible and has an
error path (`scalar.rs:454`); negotiation does not ask whether a compressor is
compiled in (`api/mod.rs:349`), so that agreeing on one the build lacks ends in a closed
connection.

## Not modelled

* Compression algorithms, CRC-32C, hashing, randomness: libraries.
* The fields of reply documents that no state depends on, among them the advertised
  message limit; wording and layout of errors and logs.
* The contents of Decimal128 and the text of rendered Doubles.
* The words of the example's command line, beyond whether they can be read.
* A program's handler that writes the public fields of `ConnectionInfo`.
