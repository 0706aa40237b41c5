----------------------------- MODULE OpMsgParser -----------------------------
(***************************************************************************)
(* OpMsg::parse_body of mongowire/src/messages/op_msg.rs as a machine over   *)
(* its cursor, together with OpMsg::encode_body.  Only the bytes that steer   *)
(* the parser matter: flag bits, section kinds, sizes, document lengths and   *)
(* the position of the NUL that ends an identifier.  The cursor only moves    *)
(* forward, so for arbitrary input each of them is chosen when it is read;    *)
(* for an encoded message they are what encode_body wrote.                    *)
(*                                                                           *)
(* An index or a slice outside the body and a subtraction below zero are      *)
(* steps to pc = "panicked".                                                  *)
(***************************************************************************)
EXTENDS Integers, Sequences, SequencesExt

CONSTANTS
  MaxLen,     \* bound on the length of arbitrary bodies
  Messages,   \* OpMsg values: checksum present or not, length of the body document,
              \* sequences with the lengths of identifier and documents
  Arbitrary   \* not an OpMsg: the input may hold any bytes

ASSUME MaxLenAssumption == MaxLen \in Nat

MIN_DOC_LEN == 5

VARIABLES
  input,        \* the OpMsg that was encoded, or Arbitrary
  len,          \* body.len()
  checksummed,  \* flags.contains(CHECKSUM_PRESENT)
  end,          \* where the sections end
  offset,       \* the cursor
  sec_end,      \* end of the kind-1 section being read
  body_doc,     \* length of the kind-0 document, or 0
  sequences,    \* the kind-1 sections read so far
  valid,        \* no identifier seen so far is empty or names a body field
  size,         \* what Sections::size() counts for the sections read so far
  pc            \* "flags", "section", "documents", "boundary", or how it ended

vars == <<input, len, checksummed, end, offset, sec_end, body_doc, sequences, valid, size, pc>>

Ended == {"accepted", "rejected", "overran", "panicked"}

-----------------------------------------------------------------------------
(* encode_body: the fields of a message in wire order, each with the value     *)
(* parse_body will find there and the number of bytes it takes.               *)

Field(value, width) == [value |-> value, width |-> width]

Sum(lengths) == FoldLeft(LAMBDA a, b : a + b, 0, lengths)

\* Mutant of SequenceFields: the section size does not count the size field.
SequenceFieldsShort(seq) ==
  <<Field(1, 1), Field(seq.identifier + 1 + Sum(seq.documents), 4),
    Field(seq.identifier, seq.identifier + 1)>>
  \o [i \in DOMAIN seq.documents |-> Field(seq.documents[i], seq.documents[i])]

SequenceFields(seq) ==
  <<Field(1, 1), Field(4 + seq.identifier + 1 + Sum(seq.documents), 4),
    Field(seq.identifier, seq.identifier + 1)>>
  \o [i \in DOMAIN seq.documents |-> Field(seq.documents[i], seq.documents[i])]

EncodeBody(m) ==
  <<Field(m.checksum, 4), Field(0, 1), Field(m.body, m.body)>>
  \o FlattenSeq([i \in DOMAIN m.sequences |-> SequenceFields(m.sequences[i])])
  \o (IF m.checksum THEN <<Field(0, 4)>> ELSE << >>)

BodyLen(m) == Sum([i \in DOMAIN EncodeBody(m) |-> EncodeBody(m)[i].width])

\* body_len() is a usize.
ASSUME MessagesAssumption == \A m \in Messages : BodyLen(m) \in Nat

\* What the input holds at a position: one of the values in any, or what was
\* written there.
At(position, any) ==
  IF input = Arbitrary THEN any
  ELSE LET fields == EncodeBody(input)
           start(i) == Sum([j \in 1..(i - 1) |-> fields[j].width])
       IN  {fields[i].value : i \in {k \in DOMAIN fields : start(k) = position}}

\* An integer field.
IntAt(position, any) == At(position, any) \cap Int

Lengths == (-1)..(MaxLen + 5)

Init ==
  /\ input \in Messages \cup {Arbitrary}
  /\ len \in IF input = Arbitrary THEN 0..MaxLen ELSE {BodyLen(input)}
  /\ checksummed = FALSE
  /\ end = 0 /\ offset = 0 /\ sec_end = 0
  /\ body_doc = 0 /\ sequences = << >> /\ valid = TRUE /\ size = 0
  /\ pc = "flags"

-----------------------------------------------------------------------------
\* Go on there, or end that way, without touching anything else.
Goto(label) ==
  /\ pc' = label
  /\ UNCHANGED <<input, len, checksummed, end, offset, sec_end, body_doc, sequences, valid, size>>

TooShort(flagged) == len < 6 + (IF flagged THEN 4 ELSE 0)

\* The length checks and MsgFlags::parse, which may refuse arbitrary bits.
ParseFlags ==
  /\ pc = "flags"
  /\ \/ Goto("rejected") /\ (len < 5 \/ input = Arbitrary)
     \/ /\ len >= 5
        /\ \E flagged \in At(0, BOOLEAN) \cap BOOLEAN :
             IF TooShort(flagged) THEN Goto("rejected")
             ELSE /\ checksummed' = flagged
                  /\ end' = len - (IF flagged THEN 4 ELSE 0)
                  /\ offset' = 4
                  /\ pc' = "section"
                  /\ UNCHANGED <<input, len, sec_end, body_doc, sequences, valid, size>>

\* take_document between from and limit: the outcome and the document's length.
TakeDocument(from, limit) ==
  IF limit < from THEN {[ok |-> FALSE, why |-> "overran"]}
  ELSE IF limit - from < 4 THEN {[ok |-> FALSE, why |-> "rejected"]}
  ELSE IF from + 4 > len THEN {[ok |-> FALSE, why |-> "panicked"]}
  ELSE {IF doc < MIN_DOC_LEN \/ doc > limit - from THEN [ok |-> FALSE, why |-> "rejected"]
        ELSE IF from + doc > len THEN [ok |-> FALSE, why |-> "panicked"]
        ELSE [ok |-> TRUE, doc |-> doc] : doc \in IntAt(from, Lengths)}
       \* RawDocument::from_bytes refuses the bytes themselves
       \cup (IF input = Arbitrary THEN {[ok |-> FALSE, why |-> "rejected"]} ELSE {})

\* Kind 0: the body document, once and before everything else.
BodySection ==
  IF body_doc # 0 \/ sequences # << >> THEN Goto("rejected")
  ELSE \E taken \in TakeDocument(offset + 1, end) :
         IF ~taken.ok THEN Goto(taken.why)
         ELSE /\ body_doc' = taken.doc
              /\ offset' = offset + 1 + taken.doc
              /\ size' = size + 1 + taken.doc
              /\ pc' = "boundary"
              /\ UNCHANGED <<input, len, checksummed, end, sec_end, sequences, valid>>

\* Sections::new: an identifier is not empty (without NULs it is by construction)
\* and names no field of a well-formed body document.
IdentifierAllowed(length, fresh) == length > 0 /\ fresh

\* The identifier of a kind-1 section whose payload is from..to - 1.
Identifier(from, to) ==
  \/ Goto("rejected") /\ input = Arbitrary       \* no NUL, or not UTF-8
  \/ \E length \in IntAt(from, 0..(to - from - 1)) \cap 0..(to - from - 1),
        fresh \in IF input = Arbitrary THEN BOOLEAN ELSE {TRUE} :
       /\ offset' = from + length + 1
       /\ sec_end' = to
       /\ sequences' = Append(sequences, [identifier |-> length, documents |-> << >>])
       /\ valid' = (valid /\ IdentifierAllowed(length, fresh))
       /\ size' = size + 1 + 4 + length + 1
       /\ pc' = "documents"
       /\ UNCHANGED <<input, len, checksummed, end, body_doc>>

\* Mutant of SequenceTooLong: the size field itself is forgotten.
SequenceMayOverlap(from, sec_size) == sec_size > end - from

SequenceTooLong(from, sec_size) == sec_size > end - from - 4

\* Kind 1: the size, then the identifier.
SequenceSection ==
  LET from == offset + 1
  IN  IF end < from THEN Goto("overran")
      ELSE IF end - from < 4 THEN Goto("rejected")
      ELSE IF from + 4 > len THEN Goto("panicked")
      ELSE \E raw \in IntAt(from, 0..(MaxLen + 5)) :
             IF raw - 4 < 5 \/ SequenceTooLong(from, raw - 4) THEN Goto("rejected")
             ELSE IF from + raw > len THEN Goto("panicked")
             ELSE Identifier(from + 4, from + raw)

ParseSection ==
  /\ pc = "section"
  /\ IF offset >= len THEN Goto("rejected")
     ELSE \E kind \in IntAt(offset, 0..2) :
            \/ kind = 0 /\ BodySection
            \/ kind = 1 /\ SequenceSection
            \/ kind = 2 /\ Goto("rejected")

\* Mutant of ParseDocuments: a document that cannot be taken is tried again.
ParseDocumentsRetries ==
  /\ pc = "documents"
  /\ IF sec_end = offset THEN Goto("boundary")
     ELSE \E taken \in TakeDocument(offset, sec_end) :
            IF ~taken.ok THEN UNCHANGED vars
            ELSE /\ offset' = offset + taken.doc
                 /\ sequences' = [sequences EXCEPT ![Len(sequences)].documents =
                                    Append(@, taken.doc)]
                 /\ size' = size + taken.doc
                 /\ UNCHANGED <<input, len, checksummed, end, sec_end, body_doc, valid, pc>>

\* The while loop over the documents of a section; sec_rest = sec_end - offset.
ParseDocuments ==
  /\ pc = "documents"
  /\ IF sec_end < offset THEN Goto("panicked")
     ELSE IF sec_end = offset THEN Goto("boundary")
     ELSE \E taken \in TakeDocument(offset, sec_end) :
            IF ~taken.ok THEN Goto(taken.why)
            ELSE /\ offset' = offset + taken.doc
                 /\ sequences' = [sequences EXCEPT ![Len(sequences)].documents =
                                    Append(@, taken.doc)]
                 /\ size' = size + taken.doc
                 /\ UNCHANGED <<input, len, checksummed, end, sec_end, body_doc, valid, pc>>

\* Mutant of NextSection: a rest too short for a section is ignored.
NextSectionFits == end - offset > 4

NextSection == offset # end

\* After a section: the next one, or the trailer and Sections::new.  What the
\* debug_assert on the size demands is a conjunct of AcceptedIsExact.
Boundary ==
  /\ pc = "boundary"
  /\ IF NextSection THEN Goto("section")
     ELSE IF checksummed /\ end + 4 > len THEN Goto("panicked")
     ELSE IF body_doc = 0 \/ ~valid THEN Goto("rejected")
     ELSE Goto("accepted")

Next == ParseFlags \/ ParseSection \/ ParseDocuments \/ Boundary

\* parse_body is a loop without a wait: it runs until it returns.
Spec == Init /\ [][Next]_vars /\ WF_vars(Next)

-----------------------------------------------------------------------------
(* Properties *)

Parsed == [checksum |-> checksummed, body |-> body_doc, sequences |-> sequences]

\* The cursor, the section ends and the lengths parse_body computes stay usize
\* values: no document has a negative length.
TypeOK ==
  /\ len \in Nat /\ end \in Nat /\ offset \in Nat /\ sec_end \in Nat
  /\ body_doc \in Nat /\ size \in Nat
  /\ checksummed \in BOOLEAN /\ valid \in BOOLEAN
  /\ pc \in {"flags", "section", "documents", "boundary"} \cup Ended

\* No input, however malformed, makes parse_body index or slice outside the body,
\* or subtract below zero; and the cursor never passes the end of the sections, so
\* both "section cursor overran its end" errors are dead.
NeverPanics == pc \notin {"panicked", "overran"}

\* An accepted message is used up to the last byte: Sections::size() is what the
\* debug_assert says (op_msg.rs:385-389), so encoding it again gives a frame of the
\* same length ("the size accounting between parse and encode", op_msg.rs:340-341).
AcceptedIsExact ==
  pc = "accepted" =>
    /\ offset = end
    /\ len = 4 + size + (IF checksummed THEN 4 ELSE 0)
    /\ body_doc >= MIN_DOC_LEN

\* A sequence without documents whose identifier is shorter than 4 bytes: encode_body
\* writes it and parse_body finds its section size too small.
Unparseable(seq) == seq.documents = << >> /\ seq.identifier < 4

\* What OpMsg::new accepts and encode_body writes, parse_body reads back as it was,
\* except for messages with an Unparseable sequence, which are always refused.
EncodedRoundTrips ==
  input # Arbitrary =>
    /\ pc = "accepted" => Parsed = input
    /\ pc = "rejected" => \E i \in DOMAIN input.sequences : Unparseable(input.sequences[i])

\* parse_body returns on every input.
Returns == <>(pc \in Ended)
=============================================================================
