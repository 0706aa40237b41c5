------------------------------- MODULE Framing -------------------------------
(***************************************************************************)
(* How a connection's bytes become messages: parse_message of                *)
(* mongowire/src/framing.rs, called by tokio_util's Framed through            *)
(* MongoCodec, and the first half of process_socket's loop, which unwraps     *)
(* OP_COMPRESSED.  The stream is cut into chunks arbitrarily, and may end      *)
(* anywhere.                                                                  *)
(*                                                                           *)
(* A frame on the wire is a record:                                           *)
(*   length    the declared messageLength                                     *)
(*   op        the opcode; "legacy" is known and has no body type, "unknown"   *)
(*             is neither                                                     *)
(*   flagged   checksumPresent is set       (OP_MSG)                          *)
(*   crc       the last four bytes are the CRC-32C of the others   (OP_MSG)   *)
(*   wellformed  the opcode's body parser accepts the rest                    *)
(*   inner     for OP_COMPRESSED, the wrapped message: op, size               *)
(*             (uncompressedSize), actual (the length decompression yields,    *)
(*             -1 if it fails), flagged, crc, wellformed                      *)
(***************************************************************************)
EXTENDS Integers, Sequences, FiniteSets, WireFields

CONSTANTS
  Streams,     \* the sequences of frames a client may send
  max_msg_len  \* ServerConfig::max_msg_len, CodecConfig::max_msg_len

ASSUME LimitAssumption == max_msg_len \in Nat

\* Streams are sequences of frames; messageLength is an i32, whatever its value.
ASSUME StreamsAssumption ==
  \A s \in Streams :
    /\ Len(s) \in Nat /\ DOMAIN s = 1..Len(s)
    /\ \A k \in 1..Len(s) : s[k].length \in Int

MSG_HEADER_LEN == 16
MAX_MSG_LEN    == 48000000

VARIABLES
  stream,      \* what the client sends
  read,        \* bytes of it that Framed has read into its buffer so far
  consumed,    \* bytes of it that parse_message has split off
  eof,         \* the socket has reported its end
  pc,          \* "decode", "fill", "item", "failed" or "ended"
  item,        \* the message framed.next() yielded last
  dispatched   \* history: the message bodies handed to the loop's match

vars == <<stream, read, consumed, eof, pc, item, dispatched>>

-----------------------------------------------------------------------------
(* Header::parse and the checks of parse_message                              *)

\* Opcode::from_i32; the legacy opcodes are known.
Opcodes == {"Msg", "Query", "Reply", "Compressed", "legacy"}

HeaderOk(frame) ==
  /\ frame.length >= MSG_HEADER_LEN
  /\ frame.length <= max_msg_len
  /\ frame.length <= MAX_MSG_LEN
  /\ frame.op \in Opcodes

TooShortForTrailer(frame) ==
  /\ frame.op = "Msg" /\ frame.flagged
  /\ frame.length \in (MSG_HEADER_LEN + 4)..(MSG_HEADER_LEN + 9)

\* Mutant of ChecksumMismatch: the trailer is never compared.
ChecksumIgnored(frame) == FALSE

ChecksumMismatch(frame) ==
  /\ frame.op = "Msg" /\ frame.flagged
  /\ frame.length >= MSG_HEADER_LEN + 8
  /\ ~frame.crc

\* OpCompressed::parse_body reads an opcode, a size and a compressor id.
CompressedFits(len) == len >= 4 + 4 + 1

\* MessageBody::parse_body on len bytes.
BodyParses(op, len, flagged, wellformed) ==
  /\ op \in Opcodes \ {"legacy"}
  /\ op = "Msg" => len >= 6 + (IF flagged THEN 4 ELSE 0)
  /\ op = "Compressed" => CompressedFits(len)
  /\ wellformed

ParsedBody(frame) ==
  BodyParses(frame.op, frame.length - MSG_HEADER_LEN, frame.flagged, frame.wellformed)

-----------------------------------------------------------------------------
(* The bytes of the stream.  A frame whose header is refused occupies just its *)
(* header: nothing behind it is ever looked at.                               *)

Occupies(frame) == IF HeaderOk(frame) THEN frame.length ELSE MSG_HEADER_LEN

Start(k)  == TotalOf([i \in DOMAIN stream |-> Occupies(stream[i])], k - 1)
End(k)    == Start(k) + Occupies(stream[k])
StreamLen == Start(Len(stream) + 1)

\* What the buffer begins with: the frame that starts there, or arbitrary bytes.
Garbage == [length |-> 0, op |-> "unknown", flagged |-> FALSE, crc |-> FALSE, wellformed |-> FALSE]

Current ==
  LET here == {k \in DOMAIN stream : Start(k) = consumed}
  IN  IF here = {} THEN Garbage ELSE stream[CHOOSE k \in here : TRUE]

Buffered == read - consumed

Init ==
  /\ stream \in Streams
  /\ read = 0
  /\ consumed = 0
  /\ eof = FALSE
  /\ pc = "decode"
  /\ item = Garbage
  /\ dispatched = << >>

-----------------------------------------------------------------------------
(* Framed::poll_next.  parse_message wants more bytes, fails, or splits one    *)
(* frame off the buffer.                                                      *)

Incomplete ==
  \/ Buffered < MSG_HEADER_LEN
  \/ HeaderOk(Current) /\ Buffered < Current.length

\* Mutant of Consume: the whole buffer is split off, pipelined frames included.
ConsumeBuffer == consumed' = read

\* Mutant of Consume: the frame is copied and stays in the buffer.
ConsumeNothing == UNCHANGED consumed

Consume == consumed' = consumed + Current.length

ParseFails ==
  /\ pc = "decode" /\ ~Incomplete
  /\ ~HeaderOk(Current) \/ TooShortForTrailer(Current) \/ ChecksumMismatch(Current)
  /\ pc' = "failed"
  /\ UNCHANGED <<stream, read, consumed, eof, item, dispatched>>

ParseMessage ==
  /\ pc = "decode" /\ ~Incomplete
  /\ HeaderOk(Current) /\ ~TooShortForTrailer(Current) /\ ~ChecksumMismatch(Current)
  /\ Consume
  /\ pc' = IF ParsedBody(Current) THEN "item" ELSE "failed"
  /\ item' = IF ParsedBody(Current) THEN Current ELSE item
  /\ UNCHANGED <<stream, read, eof, dispatched>>

\* Mutant of NeedMore: what is left in the buffer at the end is dropped.
NeedMoreDropsTail ==
  /\ pc = "decode" /\ Incomplete
  /\ pc' = IF ~eof THEN "fill" ELSE "ended"
  /\ UNCHANGED <<stream, read, consumed, eof, item, dispatched>>

\* decode returned Ok(None): read on; at the end of the socket decode_eof ends
\* the stream if the buffer is empty and fails otherwise (tokio_util).
NeedMore ==
  /\ pc = "decode" /\ Incomplete
  /\ pc' = IF ~eof THEN "fill" ELSE IF Buffered = 0 THEN "ended" ELSE "failed"
  /\ UNCHANGED <<stream, read, consumed, eof, item, dispatched>>

\* The socket yields n more bytes, or its end.
Fill(n) ==
  /\ pc = "fill"
  /\ n <= StreamLen - read
  /\ read' = read + n
  /\ pc' = "decode"
  /\ UNCHANGED <<stream, consumed, eof, item, dispatched>>

PeerCloses ==
  /\ pc = "fill"
  /\ eof' = TRUE
  /\ pc' = "decode"
  /\ UNCHANGED <<stream, read, consumed, item, dispatched>>

-----------------------------------------------------------------------------
(* The loop: unwrap_body, then the match on the body.                         *)

\* decompress: the codec fails, or yields another length than was declared.
DecompressFails(inner) == inner.actual # inner.size

\* Mutant of UnwrapFails: wrapped OP_COMPRESSED is not refused.
UnwrapNested(inner) ==
  \/ inner.size < 0
  \/ inner.size > max_msg_len
  \/ DecompressFails(inner)
  \/ ~BodyParses(inner.op, inner.size, inner.flagged, inner.wellformed)

UnwrapFails(inner) ==
  \/ inner.size < 0
  \/ inner.op = "Compressed"
  \/ inner.size > max_msg_len
  \/ DecompressFails(inner)
  \/ ~BodyParses(inner.op, inner.size, inner.flagged, inner.wellformed)

\* What the match sees of a message.
Body(frame) ==
  LET m == IF frame.op = "Compressed" THEN frame.inner ELSE frame
  IN  [op |-> m.op, trailer |-> m.op = "Msg" /\ m.flagged, crc |-> m.crc,
       direct |-> frame.op # "Compressed"]

Dispatch ==
  /\ pc = "item"
  /\ ~(item.op = "Compressed" /\ UnwrapFails(item.inner))
  /\ dispatched' = Append(dispatched, Body(item))
  /\ pc' = "decode"
  /\ UNCHANGED <<stream, read, consumed, eof, item>>

RejectCompressed ==
  /\ pc = "item"
  /\ item.op = "Compressed" /\ UnwrapFails(item.inner)
  /\ pc' = "failed"
  /\ UNCHANGED <<stream, read, consumed, eof, item, dispatched>>

Server == ParseFails \/ ParseMessage \/ NeedMore \/ Dispatch \/ RejectCompressed

Next == Server \/ (\E n \in 1..StreamLen : Fill(n)) \/ PeerCloses

\* The task runs whenever it need not wait for the socket; the socket may never
\* deliver another byte.
Spec == Init /\ [][Next]_vars /\ WF_vars(Server)

-----------------------------------------------------------------------------
(* Properties *)

\* A frame that a server handed the whole message at once would accept.
Acceptable(frame) ==
  /\ HeaderOk(frame) /\ ~TooShortForTrailer(frame) /\ ~ChecksumMismatch(frame)
  /\ ParsedBody(frame)
  /\ frame.op = "Compressed" => ~UnwrapFails(frame.inner)

\* However the bytes are cut into chunks, the bodies dispatched are those of the
\* first frames of the stream, each once and in order, all of them acceptable and none
\* still compressed: that arm of the match is unreachable (mod.rs:216-218).
ChunkingInvisible ==
  /\ Len(dispatched) <= Len(stream)
  /\ \A k \in DOMAIN dispatched :
       /\ Acceptable(stream[k]) /\ dispatched[k] = Body(stream[k])
       /\ dispatched[k].op # "Compressed"

\* The stream ends cleanly only between two frames: a message cut off by the end
\* of the connection is an error, never dropped in silence.
CleanEndAtBoundary ==
  pc = "ended" => Len(dispatched) = Cardinality({k \in DOMAIN stream : Start(k) < read})

\* No OP_MSG that arrived outside OP_COMPRESSED reaches a handler with a trailer
\* that was not verified (parse_message checks before parse_body).
DirectTrailersVerified ==
  \A k \in DOMAIN dispatched :
    dispatched[k].direct /\ dispatched[k].trailer => dispatched[k].crc

\* "checksums are validated on read" (lib.rs:16-17), for every message.
EveryTrailerVerified ==
  \A k \in DOMAIN dispatched : dispatched[k].trailer => dispatched[k].crc

\* Once the bytes that settle a frame have been read it is dispatched or the
\* connection ends, without waiting for the bytes of the next frame.
SettledOnArrival ==
  \A k \in 1..2 :
    (k <= Len(stream) /\ read >= End(k)) ~> (Len(dispatched) >= k \/ pc = "failed")
=============================================================================
