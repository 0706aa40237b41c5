----------------------------- MODULE BsonDecoder -----------------------------
(***************************************************************************)
(* RawDocument::shallow and deep of wirebson: decode_fields, decode_array,    *)
(* materialize and Scanner::next of wirebson/src/decode.rs as a machine with  *)
(* one stack frame per composite being decoded, together with                 *)
(* encode_document and encode_array of wirebson/src/encode.rs.  The two modes  *)
(* are one machine: materialize recurses into composites in both and the      *)
(* scalars decode alike.                                                      *)
(*                                                                           *)
(* A decoded document is the sequence of its items in wire order, without the *)
(* outermost braces:                                                          *)
(*   [tag |-> a scalar's tag, name, size]        a value of size bytes        *)
(*   [tag |-> "JavaScriptScope", name, size, code]  code bytes of them a string *)
(*   [tag |-> "Document" or "Array", name]       the fields that follow ...   *)
(*   [tag |-> "End"]                             ... up to here belong to it  *)
(* A name is its length, or Index for the elements of an array, whose names   *)
(* decode_array drops and encode_array numbers.                               *)
(*                                                                           *)
(* Bytes are chosen when they are read, or are those of an encoded document;  *)
(* an index or a slice outside a buffer is a step to pc = "panicked".  A      *)
(* composite is decoded from a slice of the buffer of the one around it: the  *)
(* offsets of a frame count from its own fields on.                           *)
(***************************************************************************)
EXTENDS Integers, Sequences, FiniteSets, SequencesExt

CONSTANTS
  MAX_NESTING_DEPTH,
  MaxLen,       \* bound on the length of arbitrary documents
  Tags,         \* the scalar tags that arbitrary documents hold
  NameLengths,  \* the name lengths that arbitrary documents hold
  Documents,    \* documents to encode and decode again
  Arbitrary,    \* not a document: the input may hold any bytes
  Index         \* the name of an array element

ASSUME DepthAssumption == MAX_NESTING_DEPTH \in Nat \ {0} /\ MaxLen \in Nat

MIN_DOC_LEN == 5

VARIABLES
  input,   \* the document that was encoded, or Arbitrary
  bytes,   \* its fields on the wire, or Arbitrary
  round,   \* 1, or 2 when a decoded document was encoded and is decoded again
  stack,   \* the composites being decoded, a Scanner each: its tag, where its buffer
           \* starts in the input, how long it is, and the offset of the next field
  doc,     \* the items decoded so far
  pc       \* "validate", "field", or how it ended

vars == <<input, bytes, round, stack, doc, pc>>

Errors == {"rejected", "short", "too_deep"}

-----------------------------------------------------------------------------
(* The bytes of a value behind its name                                       *)

Fixed ==
  [Undefined |-> 0, Null |-> 0, MinKey |-> 0, MaxKey |-> 0, Bool |-> 1, Int32 |-> 4,
   Double |-> 8, DateTime |-> 8, Timestamp |-> 8, Int64 |-> 8, ObjectId |-> 12,
   Decimal128 |-> 16]

\* The least size of the others: a string has a length and a NUL; a binary a length
\* and a subtype, and a second length if it is old; a regex two NULs; a pointer a
\* string and an id; code with scope a length, a string and a document.
Least ==
  [String |-> 5, JavaScript |-> 5, Symbol |-> 5, Binary |-> 5, BinaryOld |-> 9, Regex |-> 2,
   DbPointer |-> 17, JavaScriptScope |-> 4 + 5 + MIN_DOC_LEN]

ASSUME TagsAssumption ==
  NameLengths \subseteq Nat /\ Tags \subseteq DOMAIN Fixed \cup DOMAIN Least

Sizes(tag) == IF tag \in DOMAIN Fixed THEN {Fixed[tag]} ELSE Least[tag]..(MaxLen + 1)

IsComposite(tag) == tag \in {"Document", "Array"}

-----------------------------------------------------------------------------
(* encode_document                                                            *)

\* How many composites are open at item i; an "End" belongs to what it closes.
Level(items, i) ==
  Cardinality({j \in 1..(i - 1) : IsComposite(items[j].tag)})
    - Cardinality({j \in 1..(i - 1) : items[j].tag = "End"})

\* The composite that holds item i, or 0 for the outermost document.
Enclosing(items, i) ==
  Max({0} \cup {j \in 1..(i - 1) : IsComposite(items[j].tag) /\ Level(items, j) = Level(items, i) - 1})

Digits(n) == IF n < 10 THEN 1 ELSE IF n < 100 THEN 2 ELSE 3

\* The position of item i among the elements of its array.
Position(items, i) ==
  Cardinality({j \in (Enclosing(items, i) + 1)..(i - 1) :
    items[j].tag # "End" /\ Enclosing(items, j) = Enclosing(items, i)})

NameWidth(items, i) == IF items[i].name = Index THEN Digits(Position(items, i)) ELSE items[i].name

\* encode_field: tag, name, NUL and value; the value of a composite begins with its
\* length; the NUL that ends it is the width of "End".
Width(items, i) ==
  IF items[i].tag = "End" THEN 1
  ELSE 1 + NameWidth(items, i) + 1 + (IF IsComposite(items[i].tag) THEN 4 ELSE items[i].size)

WidthOf(items, from, to) == MapThenSumSet(LAMBDA i : Width(items, i), from..to)

EncodedLen(items) == 4 + WidthOf(items, 1, Len(items)) + 1

\* Mutant of PatchedLen: the NUL that ends the composite is not counted.
PatchedLenShort(items, i) ==
  LET close == CHOOSE j \in i..Len(items) : items[j].tag = "End" /\ Enclosing(items, j) = i
  IN  4 + WidthOf(items, i + 1, close - 1)

\* patch_len: the length of the composite that item i opens.
PatchedLen(items, i) ==
  LET close == CHOOSE j \in i..Len(items) : items[j].tag = "End" /\ Enclosing(items, j) = i
  IN  4 + WidthOf(items, i + 1, close)

\* The fields as Scanner::next finds them, each with its offset.
Fields(items) ==
  {[at    |-> 4 + WidthOf(items, 1, i - 1),
    field |-> IF items[i].tag = "End" THEN [tag |-> "End"]
              ELSE IF items[i].tag = "JavaScriptScope"
              THEN [tag |-> items[i].tag, name |-> NameWidth(items, i), size |-> items[i].size,
                    code |-> items[i].code, scope |-> items[i].size - 4 - items[i].code]
              ELSE [tag |-> items[i].tag, name |-> NameWidth(items, i),
                    size |-> IF IsComposite(items[i].tag) THEN PatchedLen(items, i)
                             ELSE items[i].size]] :
     i \in 1..Len(items)}
  \cup {[at |-> EncodedLen(items) - 1, field |-> [tag |-> "End"]]}

Encoded(items) == IF items = Arbitrary THEN Arbitrary ELSE Fields(items)

Init ==
  /\ input \in Documents \cup {Arbitrary}
  /\ bytes = Encoded(input)
  /\ round = 1
  /\ stack = << >> /\ doc = << >>
  /\ pc = "validate"

-----------------------------------------------------------------------------
(* Decoding.  Every error ends it.                                            *)

Goto(label) == pc' = label /\ UNCHANGED <<input, bytes, round, stack, doc>>

\* What arbitrary bytes can be refused for besides lengths: text that is not UTF-8,
\* a missing NUL, a byte that is no bool, subtype or tag.
RefuseBytes == bytes = Arbitrary /\ Goto("rejected")

\* Scanner::new on a buffer of len bytes.
Scanner(tag, start, len) == [tag |-> tag, start |-> start, len |-> len, offset |-> 0]

\* RawDocument::from_bytes on the whole input, then decode_document at depth 1.
Validate ==
  /\ pc = "validate"
  /\ \/ RefuseBytes
     \/ \E len \in IF input = Arbitrary THEN 0..MaxLen ELSE {EncodedLen(input)} \cap Nat :
          IF len < MIN_DOC_LEN THEN Goto("rejected")
          ELSE /\ stack' = <<Scanner("Document", 0, len)>>
               /\ pc' = "field"
               /\ UNCHANGED <<input, bytes, round, doc>>

\* How many bytes of the body there are from voff on.
Rest(top, voff) == top.len - 4 - voff

\* Mutant of InParent: the length prefix is forgotten.
InParentOfBody(voff) == voff

\* abs: where in the buffer the byte is that the body has at voff.
InParent(voff) == 4 + voff

\* What an encoded document holds at the offset: a name is some bytes, and a length
\* is read without a sign, whatever was written there.
EncodedHere(top) ==
  {f \in {b.field : b \in {c \in bytes : c.at = top.start + 4 + top.offset}} :
     \/ f.tag = "End"
     \/ /\ f.name \in Nat /\ f.size \in Nat
        /\ f.tag = "JavaScriptScope" => f.code \in Nat /\ f.scope \in Nat}

\* The fields of arbitrary bytes: a tag, a name and a length read from them.
ScalarFields ==
  UNION {[tag : {tag}, name : NameLengths, size : Sizes(tag)] : tag \in Tags \ {"JavaScriptScope"}}

CompositeFields ==
  [tag : {"Document", "Array"}, name : NameLengths, size : 0..(MaxLen + 1)]

\* Code with scope has a length for the whole, right or wrong, one for the code and one
\* for the scope; two parts that take half of MaxLen each do not fit.
MaxPart == MaxLen \div 2

ScopeFields ==
  {[tag |-> tag, name |-> name, size |-> 4 + code + scope + excess, code |-> code, scope |-> scope] :
     tag \in Tags \cap {"JavaScriptScope"}, name \in NameLengths,
     code \in Least.String..MaxPart, scope \in (MIN_DOC_LEN - 1)..MaxPart, excess \in {0, 1}}

\* The fields that may start at the offset.  The last byte of a validated composite
\* is NUL.  Where an encoded document has no field, what is read there is not one.
Here(top) ==
  IF bytes # Arbitrary THEN IF EncodedHere(top) = {} THEN {[tag |-> "Misread"]} ELSE EncodedHere(top)
  ELSE IF Rest(top, top.offset) = 1 THEN {[tag |-> "End"]}
  ELSE {[tag |-> "End"]} \cup ScalarFields \cup CompositeFields \cup ScopeFields

\* The item a field becomes in the composite that holds it.
Item(top, field) ==
  LET name == IF top.tag = "Array" THEN Index ELSE field.name
  IN  IF IsComposite(field.tag) THEN [tag |-> field.tag, name |-> name]
      ELSE IF field.tag = "JavaScriptScope"
      THEN [tag |-> field.tag, name |-> name, size |-> field.size, code |-> field.code]
      ELSE [tag |-> field.tag, name |-> name, size |-> field.size]

\* The stack when the scanner on top has consumed the field whose value is at voff.
Consumed(field, voff) == [stack EXCEPT ![Len(stack)].offset = voff + field.size]

\* Tag 0: the composite ends here, and nowhere else.
EndOfDocument(top) ==
  IF Rest(top, top.offset) # 1 THEN Goto("rejected")
  ELSE IF Len(stack) = 1 THEN Goto("accepted")
  ELSE /\ stack' = Front(stack)
       /\ doc' = Append(doc, [tag |-> "End"])
       /\ UNCHANGED <<input, bytes, round, pc>>

\* parse_value on a scalar whose value is at voff.
TakeScalar(top, field, voff) ==
  IF field.size > Rest(top, voff) THEN Goto("rejected")
  ELSE /\ stack' = Consumed(field, voff)
       /\ doc' = Append(doc, Item(top, field))
       /\ UNCHANGED <<input, bytes, round, pc>>

\* Mutant of ScopeFits: the scope is compared with the whole rest.
ScopeFitsAlone(rest, scope_off, len) == len <= rest

ScopeFits(rest, scope_off, len) == scope_off + len <= rest

\* parse_value on code with scope: a length, the code, and a document that is sliced off
\* and stays raw.
TakeScope(top, field, voff) ==
  LET rest      == Rest(top, voff)
      scope_off == 4 + field.code
  IN  IF rest < 4 \/ field.code > rest - 4 THEN Goto("rejected")
      ELSE IF rest < scope_off + 4 \/ field.scope < MIN_DOC_LEN THEN Goto("rejected")
      ELSE IF ~ScopeFits(rest, scope_off, field.scope) THEN Goto("rejected")
      ELSE IF InParent(voff) + scope_off + field.scope > top.len THEN Goto("panicked")
      ELSE IF field.size # scope_off + field.scope THEN Goto("rejected")
      ELSE /\ stack' = Consumed(field, voff)
           /\ doc' = Append(doc, Item(top, field))
           /\ UNCHANGED <<input, bytes, round, pc>>

\* Mutant of BadLength: the length is not compared with the bytes that are left.
BadLengthUnbounded(size, rest) == size < MIN_DOC_LEN

\* doc_len
BadLength(size, rest) == size < MIN_DOC_LEN \/ size > rest

\* Mutant of TooDeep: one level more.
TooDeepLate(depth) == depth > MAX_NESTING_DEPTH + 1

TooDeep(depth) == depth > MAX_NESTING_DEPTH

\* parse_value slices the composite off its parent, materialize decodes it one level
\* deeper.
TakeComposite(top, field, voff) ==
  IF BadLength(field.size, Rest(top, voff)) THEN Goto("rejected")
  ELSE IF InParent(voff) + field.size > top.len THEN Goto("panicked")
  ELSE IF TooDeep(Len(stack) + 1) THEN Goto("too_deep")
  ELSE /\ stack' = Append(Consumed(field, voff),
                         Scanner(field.tag, top.start + InParent(voff), field.size))
       /\ doc' = Append(doc, Item(top, field))
       /\ UNCHANGED <<input, bytes, round, pc>>

\* Scanner::next on the composite on top of the stack.
NextField ==
  LET top == Last(stack)
  IN  /\ pc = "field"
      /\ \/ Rest(top, top.offset) > 1 /\ RefuseBytes
         \/ Rest(top, top.offset) <= 0 /\ Goto("short")
         \/ /\ Rest(top, top.offset) > 0
            /\ \E field \in Here(top) :
                 IF field.tag = "End" THEN EndOfDocument(top)
                 ELSE IF field.tag = "Misread" THEN Goto("rejected")
                 ELSE LET voff == top.offset + 1 + field.name + 1
                      IN  IF Rest(top, voff) < 0 THEN Goto("rejected")
                          ELSE IF IsComposite(field.tag) THEN TakeComposite(top, field, voff)
                          ELSE IF field.tag = "JavaScriptScope" THEN TakeScope(top, field, voff)
                          ELSE TakeScalar(top, field, voff)

\* The decoded document is encoded and what results is decoded.
Reencode ==
  /\ pc = "accepted" /\ input = Arbitrary
  /\ input' = doc
  /\ bytes' = Encoded(doc)
  /\ round' = 2
  /\ stack' = << >> /\ doc' = << >>
  /\ pc' = "validate"

Next == Validate \/ NextField \/ Reencode

Spec == Init /\ [][Next]_vars

-----------------------------------------------------------------------------
(* Properties *)

Depth(items) == 1 + Max({0} \cup {Level(items, i) : i \in 1..Len(items)})

\* No input makes the decoder slice outside the buffer of the enclosing composite: the
\* lengths of composites and of scopes were checked against the rest of the body, whose
\* offsets are not those of the buffer ("always succeeds", decode.rs:207 and 255); a
\* composite lies among the fields of the one that holds it, and the recursion never
\* goes deeper than MAX_NESTING_DEPTH (decode.rs:77-79).
NeverPanics ==
  /\ pc # "panicked"
  /\ Len(stack) <= MAX_NESTING_DEPTH
  /\ \A d \in 2..Len(stack) :
       /\ stack[d].start >= stack[d - 1].start + 4
       /\ stack[d].start + stack[d].len <= stack[d - 1].start + stack[d - 1].len

\* What encode() writes, shallow() and deep() read back as it was, unless it is
\* nested deeper than MAX_NESTING_DEPTH: then, and only then, it is refused.
EncodedRoundTrips ==
  input # Arbitrary /\ round = 1 =>
    /\ pc = "accepted" => doc = input /\ Depth(input) <= MAX_NESTING_DEPTH
    /\ pc \in Errors => pc = "too_deep" /\ Depth(input) > MAX_NESTING_DEPTH

\* "our own encoding must decode again" and the canonical form is a fixpoint
\* (fuzz_document.rs:6-10): whatever bytes were decoded, encoding the result and
\* decoding that never fails and yields the same document.
ReencodingIsStable ==
  round = 2 => pc \notin Errors /\ (pc = "accepted" => doc = input)

=============================================================================
