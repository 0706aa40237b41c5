---------------------------- MODULE MessageBodies ----------------------------
(***************************************************************************)
(* The bodies of OP_QUERY, OP_REPLY and OP_COMPRESSED: encode_body,           *)
(* body_len, parse_body, OpCompressed::wrap and unwrap_body, as a machine     *)
(* over the cursor of parse_body.  unwrap_body starts the parser again on the *)
(* decompressed bytes; an OP_MSG in there is OpMsgParser's.                   *)
(*                                                                           *)
(* As in OpMsgParser the bytes that steer the parser are chosen when they are *)
(* read, or are those of an encoded message; a slice outside the body is a    *)
(* step to pc = "panicked".                                                   *)
(***************************************************************************)
EXTENDS Integers, Sequences, WireFields

CONSTANTS
  MaxLen,      \* bound on the length of arbitrary bodies
  MaxMsgLen,   \* max_msg_len of the server
  Enabled,     \* the compressors of this build
  Messages,    \* bodies to encode: see Query, ReplyTo and Wrap
  Arbitrary    \* not a message: the input may hold any bytes

ASSUME BoundsAssumption == MaxLen \in Nat /\ MaxMsgLen \in Nat

MIN_DOC_LEN == 5

\* CompressorId::is_enabled
IsEnabled(id) == id = "noop" \/ id \in Enabled

CompressorIds == {"noop", "snappy", "zlib", "zstd"}

\* Opcode: the four with a body type and the others.
Opcodes == {"Msg", "Query", "Reply", "Compressed", "Other"}

VARIABLES
  input,    \* the message that was encoded, or Arbitrary
  opcode,   \* of the body being parsed
  len,      \* body.len()
  offset,   \* body.len() - r.remaining()
  todo,     \* documents of an OP_REPLY still to be read
  parsed,   \* the fields read so far
  pc        \* "head", "documents", "unwrap", or how it ended

vars == <<input, opcode, len, offset, todo, parsed, pc>>

Ended == {"accepted", "rejected", "panicked", "opmsg"}

-----------------------------------------------------------------------------
(* Messages and their encoding.  A document is its length.                    *)

Query(name, query, selector) ==       \* selector: << >> or <<a document>>
  [opcode |-> "Query", name |-> name, documents |-> <<query>> \o selector]

\* OpQuery::handshake, on `admin.$cmd`
Handshake(request) == Query(10, request, << >>)

ReplyTo(documents) == [opcode |-> "Reply", name |-> 0, documents |-> documents]

QueryLen(m) == 12 + m.name + 1 + Total(m.documents)

ReplyLen(m) == 20 + Total(m.documents)

CompressedLen(m) == 4 + 4 + 1 + m.payload

\* MessageBody::body_len
BodyLen(m) ==
  CASE m.opcode = "Query"      -> QueryLen(m)
    [] m.opcode = "Reply"      -> ReplyLen(m)
    [] m.opcode = "Compressed" -> CompressedLen(m)

\* compress, at a peer that has every compressor: noop copies, the others yield one of
\* some lengths.
Compress(id, size, lengths) == IF id = "noop" THEN {size} ELSE lengths

\* OpCompressed::wrap: the messages it may make.
Wrap(m, compressor, lengths) ==
  {[opcode |-> "Compressed", original |-> m.opcode, size |-> BodyLen(m),
    compressor |-> compressor, payload |-> payload, inside |-> m] :
     payload \in Compress(compressor, BodyLen(m), lengths)}

DocumentFields(documents) == [i \in DOMAIN documents |-> Field(documents[i], documents[i])]

\* encode_body: the fields in wire order, each with the value parse_body finds there
\* and its width.  A NUL-terminated name has the value of its length.
EncodeQuery(m) ==
  <<Field("flags", 4), Field(m.name, m.name + 1), Field("skip", 4), Field("return", 4)>>
  \o DocumentFields(m.documents)

EncodeReply(m) ==
  <<Field("flags", 4), Field("cursor", 8), Field("from", 4), Field(Len(m.documents), 4)>>
  \o DocumentFields(m.documents)

EncodeCompressed(m) ==
  <<Field(m.original, 4), Field(m.size, 4), Field(m.compressor, 1), Field("payload", m.payload)>>

\* MessageBody::encode_body
EncodeBody(m) ==
  CASE m.opcode = "Query"      -> EncodeQuery(m)
    [] m.opcode = "Reply"      -> EncodeReply(m)
    [] m.opcode = "Compressed" -> EncodeCompressed(m)

Written(m) == Total(Widths(EncodeBody(m)))

\* A body as the API builds it: a query with its selector or without, any number of reply
\* documents, or the wrapped form of another body.
WellFormed(m) ==
  \/ /\ m \in [opcode : {"Query"}, name : Nat, documents : Seq(Nat)]
     /\ Len(m.documents) \in {1, 2}
     /\ \A i \in DOMAIN m.documents : m.documents[i] >= MIN_DOC_LEN
  \/ /\ m \in [opcode : {"Reply"}, name : {0}, documents : Seq(Nat)]
     /\ \A i \in DOMAIN m.documents : m.documents[i] >= MIN_DOC_LEN
  \/ /\ m.opcode = "Compressed" /\ m.inside \in Messages /\ m.compressor \in CompressorIds
     /\ m.payload \in Nat /\ m \in Wrap(m.inside, m.compressor, {m.payload})

ASSUME MessagesAssumption == Arbitrary \notin Messages /\ \A m \in Messages : WellFormed(m)

\* What the input holds at a position: one of the values in any, or what was
\* written there.
At(position, any) == IF input = Arbitrary THEN any ELSE ValuesAt(EncodeBody(input), position)

IntAt(position, any) == At(position, any) \cap Int

Init ==
  /\ input \in Messages \cup {Arbitrary}
  /\ opcode \in IF input = Arbitrary THEN {"Query", "Reply", "Compressed"} ELSE {input.opcode}
  /\ len \in IF input = Arbitrary THEN 0..MaxLen ELSE {Written(input)}
  /\ offset = 0 /\ todo = 0 /\ parsed = << >>
  /\ pc = "head"

-----------------------------------------------------------------------------
(* Parsing.  Every error ends it.                                             *)

Goto(label) == pc' = label /\ UNCHANGED <<input, opcode, len, offset, todo, parsed>>

Remaining == len - offset

\* What arbitrary bytes are refused for besides lengths: no NUL, text that is not
\* UTF-8, a document whose own length or last byte is wrong, an unknown opcode or
\* compressor id.
RefuseBytes == input = Arbitrary /\ Goto("rejected")

\* OpQuery::parse_body up to the documents: flags, name, two integers.
QueryHead ==
  /\ pc = "head" /\ opcode = "Query"
  /\ \/ RefuseBytes
     \/ Remaining < 4 /\ Goto("rejected")
     \/ /\ Remaining >= 4
        /\ \E name \in IntAt(4, 0..(len - 5)) \cap 0..(len - 5) :
             IF name = 0 \/ len - (4 + name + 1) < 8 THEN Goto("rejected")
             ELSE /\ offset' = 4 + name + 1 + 8
                  /\ parsed' = [opcode |-> "Query", name |-> name, documents |-> << >>]
                  /\ pc' = "documents"
                  /\ UNCHANGED <<input, opcode, len, todo>>

\* Every document has MIN_DOC_LEN bytes at least.
TooMany(count, rest) == count > rest \div MIN_DOC_LEN

\* OpReply::parse_body up to the documents.
ReplyHead ==
  /\ pc = "head" /\ opcode = "Reply"
  /\ IF Remaining < 20 THEN Goto("rejected")
     ELSE \E count \in IntAt(16, (-1)..MaxLen) :
            IF count < 0 \/ TooMany(count, len - 20) THEN Goto("rejected")
            ELSE /\ offset' = 20
                 /\ todo' = count
                 /\ parsed' = [opcode |-> "Reply", name |-> 0, documents |-> << >>]
                 /\ pc' = "documents"
                 /\ UNCHANGED <<input, opcode, len>>

\* Mutant of BadLength: the length is not compared with the bytes that are left.
BadLengthUnbounded(doc) == doc < MIN_DOC_LEN

BadLength(doc) == doc < MIN_DOC_LEN \/ doc > Remaining

\* take_document at the cursor.
TakeDocument ==
  \/ RefuseBytes
  \/ Remaining < 4 /\ Goto("rejected")
  \/ /\ Remaining >= 4
     /\ \E doc \in IntAt(offset, (-1)..(MaxLen + 1)) :
          IF BadLength(doc) THEN Goto("rejected")
          ELSE IF offset + doc > len THEN Goto("panicked")
          ELSE /\ offset' = offset + doc
               /\ parsed' = [parsed EXCEPT !.documents = Append(@, doc)]
               /\ todo' = IF todo > 0 THEN todo - 1 ELSE todo
               /\ UNCHANGED <<input, opcode, len, pc>>

\* Mutant of QueryWantsMore: whatever follows the query is not looked at.
QueryWantsOne == parsed.documents = << >>

\* A query, and a selector if bytes are left behind it.
QueryWantsMore ==
  \/ parsed.documents = << >>
  \/ Len(parsed.documents) = 1 /\ Remaining # 0

WantsMore == IF opcode = "Query" THEN QueryWantsMore ELSE todo > 0

\* Mutant of Trailing: the check that was once a debug_assert.
NoTrailing == FALSE

\* Bytes behind the last document.
Trailing == Remaining # 0

Documents ==
  /\ pc = "documents"
  /\ IF WantsMore THEN TakeDocument
     ELSE IF Trailing THEN Goto("rejected")
     ELSE Goto("accepted")

\* OpCompressed::parse_body: whatever follows the compressor id is the payload.
ParseCompressed ==
  /\ pc = "head" /\ opcode = "Compressed"
  /\ \/ RefuseBytes
     \/ Remaining < 9 /\ Goto("rejected")
     \/ /\ Remaining >= 9
        /\ \E original \in At(0, Opcodes), size \in IntAt(4, (-1)..(MaxLen + 1)),
              id \in At(8, CompressorIds) :
             IF size < 0 THEN Goto("rejected")
             ELSE /\ offset' = len
                  /\ parsed' = [opcode |-> "Compressed", original |-> original, size |-> size,
                                compressor |-> id, payload |-> len - 9]
                  /\ pc' = "unwrap"
                  /\ UNCHANGED <<input, opcode, len, todo>>

\* decompress: the possible lengths of the output.  noop copies; a disabled compressor
\* has none; the others may fail and stop one byte past what is expected.
Decompress(id, payload, expected) ==
  IF id = "noop" THEN {payload}
  ELSE IF id \notin Enabled THEN {}
  ELSE IF input # Arbitrary THEN {BodyLen(input.inside)}
  ELSE 0..(expected + 1)

\* Single-level compression within the server's limit.
MayUnwrap == parsed.original # "Compressed" /\ parsed.size <= MaxMsgLen

\* unwrap_body up to MessageBody::parse_body on the decompressed bytes.
Unwrap ==
  /\ pc = "unwrap"
  /\ \/ ~MayUnwrap /\ Goto("rejected")
     \/ MayUnwrap /\ ~IsEnabled(parsed.compressor) /\ Goto("rejected")
     \/ MayUnwrap /\ parsed.compressor \in Enabled /\ RefuseBytes
     \/ /\ MayUnwrap
        /\ \E out \in Decompress(parsed.compressor, parsed.payload, parsed.size) :
             IF out # parsed.size \/ parsed.original = "Other" THEN Goto("rejected")
             ELSE IF parsed.original = "Msg" THEN Goto("opmsg")
             ELSE /\ input' = IF input = Arbitrary THEN Arbitrary ELSE input.inside
                  /\ opcode' = parsed.original
                  /\ len' = out
                  /\ offset' = 0 /\ todo' = 0 /\ parsed' = << >>
                  /\ pc' = "head"

Next == QueryHead \/ ReplyHead \/ Documents \/ ParseCompressed \/ Unwrap

Spec == Init /\ [][Next]_vars

-----------------------------------------------------------------------------
(* Properties *)

\* No input makes take_document slice outside the body: "The document length is
\* validated against the cursor before slicing, so Bytes::slice never panics"
\* (op_query.rs:55-56).
NeverPanics == pc # "panicked"

\* An accepted body is used up to the last byte, and body_len() of the result is the
\* length that was parsed: a frame that is encoded again announces the length it has.
\* An OP_REPLY holds as many documents as it counted ("airtight", op_reply.rs:118-119).
AcceptedIsExact ==
  pc = "accepted" => offset = len /\ BodyLen(parsed) = len /\ todo = 0

\* What encode_body writes, parse_body reads back as it was, through wrap() and
\* unwrap_body() too.  Refused are only a query without a name, a compressor this build
\* lacks, and a body that is compressed twice or larger than the server's limit.
EncodedRoundTrips ==
  input # Arbitrary =>
    /\ pc = "accepted" => parsed = input
    /\ pc = "rejected" =>
         \/ input.opcode = "Query" /\ input.name = 0
         \/ /\ input.opcode = "Compressed"
            /\ \/ ~IsEnabled(input.compressor)
               \/ input.inside.opcode = "Compressed"
               \/ BodyLen(input.inside) > MaxMsgLen
=============================================================================
