------------------------------ MODULE Documents ------------------------------
(***************************************************************************)
(* Documents as values: the eager Document of wirebson/src/document.rs (an    *)
(* ordered list of fields that may repeat a name), the accessors of           *)
(* RawDocument in raw.rs that read fields without decoding the document, the  *)
(* rendering of encode.rs and the JSON conversion of convert.rs.              *)
(*                                                                           *)
(* A value is [tag |-> "Document", fields |-> a sequence of [name, value]],    *)
(* [tag |-> "Array", values |-> a sequence of values], or a scalar [tag], where *)
(* "NotFinite" is the tag of a Double that is NaN or infinite.                 *)
(***************************************************************************)
EXTENDS Integers, Sequences, FiniteSets, SequencesExt

CONSTANT MaxDepth   \* MAX_NESTING_DEPTH

None    == [some |-> FALSE]
Some(v) == [some |-> TRUE, value |-> v]

Field(name, value) == [name |-> name, value |-> value]

Add(fields, name, value) == Append(fields, Field(name, value))

\* The position of the first field with this name, or 0.
Find(fields, name) == SelectInSeq(fields, LAMBDA f : f.name = name)

Get(fields, name) ==
  LET i == Find(fields, name) IN IF i = 0 THEN None ELSE Some(fields[i].value)

\* Assigning through get_mut.
GetMut(fields, name, value) ==
  LET i == Find(fields, name) IN IF i = 0 THEN fields ELSE [fields EXCEPT ![i].value = value]

\* Mutant of RemoveFrom: the loop moves on although the next field took the place of
\* the removed one.
RECURSIVE RemoveSkipping(_, _, _, _)
RemoveSkipping(fields, name, i, first) ==
  IF i > Len(fields) THEN [fields |-> fields, first |-> first]
  ELSE IF fields[i].name = name
       THEN RemoveSkipping(RemoveAt(fields, i), name, i + 1,
                           IF first = None THEN Some(fields[i].value) ELSE first)
       ELSE RemoveSkipping(fields, name, i + 1, first)

\* The loop of remove from position i on.
RECURSIVE RemoveFrom(_, _, _, _)
RemoveFrom(fields, name, i, first) ==
  IF i > Len(fields) THEN [fields |-> fields, first |-> first]
  ELSE IF fields[i].name = name
       THEN RemoveFrom(RemoveAt(fields, i), name, i,
                   IF first = None THEN Some(fields[i].value) ELSE first)
       ELSE RemoveFrom(fields, name, i + 1, first)

ReplaceValue(fields, name, value) ==
  IF Find(fields, name) = 0 THEN Add(fields, name, value) ELSE GetMut(fields, name, value)

FieldNames(fields) == [i \in DOMAIN fields |-> fields[i].name]

\* Document::command, None when empty.
Command(fields) == IF fields = << >> THEN None ELSE Some(fields[1].name)

\* The words that doc! and arr! match before they try an expression.
Word == [null |-> "Null", MIN_KEY |-> "MinKey", MAX_KEY |-> "MaxKey"]

\* doc!: one add per pair, in order.
DocMacro(pairs) ==
  FoldLeft(LAMBDA fields, p : Add(fields, p.name, IF p.value \in DOMAIN Word THEN Word[p.value]
                                                  ELSE p.value),
           << >>, pairs)

\* arr!: one push per item.
ArrMacro(items) ==
  FoldLeft(LAMBDA values, v : Append(values, IF v \in DOMAIN Word THEN Word[v] ELSE v),
           << >>, items)

\* What the mutating operations leave of a document and of the other names in it.
Laws(fields, name, value) ==
  LET removed  == RemoveFrom(fields, name, 1, None)
      replaced == ReplaceValue(fields, name, value)
      others(f) == f.name # name
  IN  /\ removed.first = Get(fields, name)
      /\ removed.fields = SelectSeq(fields, others)
      /\ Get(replaced, name) = Some(value)
      /\ SelectSeq(replaced, others) = SelectSeq(fields, others)
      /\ IsPrefix(FieldNames(fields), FieldNames(replaced))
      /\ Len(replaced) = Len(fields) + (IF Get(fields, name) = None THEN 1 ELSE 0)
      /\ Get(Add(fields, name, value), name)
           = IF Get(fields, name) = None THEN Some(value) ELSE Get(fields, name)
      /\ ReplaceValue(removed.fields, name, value) = Add(removed.fields, name, value)

\* doc! keeps the names and their order, and reads values the way arr! does.
MacrosAgree(pairs) ==
  /\ FieldNames(DocMacro(pairs)) = FieldNames(pairs)
  /\ ArrMacro([i \in DOMAIN pairs |-> pairs[i].value])
       = [i \in DOMAIN pairs |-> DocMacro(pairs)[i].value]

-----------------------------------------------------------------------------
(* Raw documents.  The bytes of a field may be malformed: its name, its value, or  *)
(* something nested inside its value, which only decoding finds.  `tail` tells     *)
(* whether bytes follow the end-of-document marker.  A value is [v, levels, inside]: *)
(* how many composites are nested in it, itself included, and whether it is        *)
(* malformed inside.                                                             *)

\* Mutant of FieldsIter: goes on behind a malformed field.
FieldsIterOn(raw) ==
  LET ok == SelectSeq(raw.fields, LAMBDA f : f.defect = "none")
  IN  [i \in DOMAIN ok |-> [ok |-> TRUE, name |-> ok[i].name, value |-> ok[i].value]]

\* The items the iterator yields: fields up to the first it cannot read, then the
\* error, and nothing behind it.
FieldsIter(raw) ==
  LET bad   == SelectInSeq(raw.fields, LAMBDA f : f.defect \in {"name", "value"})
      good  == IF bad = 0 THEN Len(raw.fields) ELSE bad - 1
      items == [i \in 1..good |-> [ok |-> TRUE, name |-> raw.fields[i].name,
                                   value |-> raw.fields[i].value]]
  IN  IF bad # 0 \/ raw.tail THEN Append(items, [ok |-> FALSE]) ELSE items

\* The first item that decides: the error or the match.
RawGet(raw, key) ==
  LET items == FieldsIter(raw)
      i     == SelectInSeq(items, LAMBDA item : IF item.ok THEN item.name = key ELSE TRUE)
  IN  IF i = 0 THEN [ok |-> TRUE, found |-> None]
      ELSE IF items[i].ok THEN [ok |-> TRUE, found |-> Some(items[i].value)] ELSE [ok |-> FALSE]

\* RawDocument::command reads a name and nothing else: not the value, not the rest.
RawCommand(raw) ==
  IF raw.fields = << >> THEN [ok |-> TRUE, name |-> ""]
  ELSE IF raw.fields[1].defect = "name" THEN [ok |-> FALSE]
  ELSE [ok |-> TRUE, name |-> raw.fields[1].name]

\* RawBsonRef::to_bson and deep: a composite is decoded as a document of its own, from
\* depth 1 on.
ToBson(value) == IF value.inside \/ value.levels > MaxDepth THEN [ok |-> FALSE]
                 ELSE [ok |-> TRUE, value |-> value]

\* RawDocument::shallow and deep
Decode(raw) ==
  IF \/ raw.tail
     \/ \E i \in DOMAIN raw.fields : LET f == raw.fields[i]
                                     IN  f.defect # "none" \/ f.value.inside \/ 1 + f.value.levels > MaxDepth
  THEN [ok |-> FALSE]
  ELSE [ok |-> TRUE, fields |-> [i \in DOMAIN raw.fields |->
                                   Field(raw.fields[i].name, raw.fields[i].value)]]

\* Where decoding succeeds the raw accessors say the same and a value they return can be
\* decoded; where it does not, a value that get returns is still that of the first
\* field with the name, and every field before it was readable.  What get and to_bson
\* return together decoding refuses only for another field or for the depth.
RawAgrees(raw, key) ==
  /\ Decode(raw).ok =>
       /\ RawGet(raw, key) = [ok |-> TRUE, found |-> Get(Decode(raw).fields, key)]
       /\ RawGet(raw, key).found # None =>
            ToBson(RawGet(raw, key).found.value) = [ok |-> TRUE, value |-> Get(Decode(raw).fields, key).value]
       /\ RawCommand(raw).ok
       /\ RawCommand(raw).name = IF raw.fields = << >> THEN "" ELSE Command(Decode(raw).fields).value
  /\ RawGet(raw, key).ok /\ RawGet(raw, key).found # None =>
       \E i \in DOMAIN raw.fields :
         /\ RawGet(raw, key).found = Some(raw.fields[i].value) /\ raw.fields[i].name = key
         /\ \A j \in 1..(i - 1) : /\ raw.fields[j].name # key
                                  /\ raw.fields[j].defect = "none"
         /\ ToBson(raw.fields[i].value).ok /\ ~Decode(raw).ok =>
              \/ raw.tail \/ raw.fields[i].value.levels = MaxDepth
              \/ \E j \in DOMAIN raw.fields \ {i} : ~Decode([raw EXCEPT !.fields = <<raw.fields[j]>>]).ok
  /\ RawGet(raw, key).ok /\ raw.fields # << >> => RawCommand(raw).ok

-----------------------------------------------------------------------------
(* Rendering, as a sequence of pieces.  Layout is the newlines, indentation and    *)
(* separators; "scalar" stands for the text of a scalar.                          *)

Layout == {",", ",\n", "\n", "  "}

Indentation(level) == [i \in 1..level |-> "  "]

RECURSIVE WriteDocument(_, _, _)
RECURSIVE WriteArray(_, _, _)

WriteValue(value, indent, depth) ==
  IF value.tag = "Document" THEN WriteDocument(value.fields, indent, depth)
  ELSE IF value.tag = "Array" THEN WriteArray(value.values, indent, depth)
  ELSE <<"scalar">>

\* The entries of a composite between its brackets: compact (indent = -1) with a
\* separator between two entries, indented with one line to each.
Entries(entries, indent) ==
  FlattenSeq([i \in DOMAIN entries |->
    IF indent < 0 THEN entries[i] \o (IF i # Len(entries) THEN <<",">> ELSE << >>)
    ELSE Indentation(indent + 1) \o entries[i] \o <<",\n">>])

Bracketed(open, entries, close, indent) ==
  IF indent < 0 THEN <<open>> \o entries \o <<close>>
  ELSE <<open, "\n">> \o entries \o Indentation(indent) \o <<close>>

Deeper(indent) == IF indent < 0 THEN indent ELSE indent + 1

\* Mutant of Elided: the cut comes one level late.
ElidedLate(depth) == depth > MaxDepth + 1

Elided(depth) == depth > MaxDepth

WriteDocument(fields, indent, depth) ==
  LET entries == [i \in DOMAIN fields |->
                    <<fields[i].name, ":">>
                      \o WriteValue(fields[i].value, Deeper(indent), depth + 1)]
  IN  IF fields = << >> THEN <<"{}">>
      ELSE IF Elided(depth) THEN <<"{...}">>
      ELSE Bracketed("{", Entries(entries, indent), "}", indent)

WriteArray(values, indent, depth) ==
  LET entries == [i \in DOMAIN values |-> WriteValue(values[i], Deeper(indent), depth + 1)]
  IN  IF values = << >> THEN <<"[]">>
      ELSE IF Elided(depth) THEN <<"[...]">>
      ELSE Bracketed("[", Entries(entries, indent), "]", indent)

LogDocument(fields, indent) == WriteDocument(fields, IF indent THEN 0 ELSE -1, 1)

\* How deep composites that are not empty are nested in a value at depth d.
RECURSIVE DeepestFrom(_, _)
DeepestFrom(value, d) ==
  LET inside == IF value.tag = "Document" THEN {value.fields[i].value : i \in DOMAIN value.fields}
                ELSE IF value.tag = "Array" THEN ToSet(value.values) ELSE {}
  IN  IF inside = {} THEN d - 1 ELSE Max({DeepestFrom(v, d + 1) : v \in inside})

Count(pieces, set) == Len(SelectSeq(pieces, LAMBDA p : p \in set))

\* Both renderings say the same apart from layout, are balanced, and leave something
\* out only of a document nested deeper than any the decoder returns.
RendersWhole(fields) ==
  LET compact  == LogDocument(fields, FALSE)
      indented == LogDocument(fields, TRUE)
      content(pieces) == SelectSeq(pieces, LAMBDA p : p \notin Layout)
  IN  /\ content(compact) = content(indented)
      /\ Count(compact, {"\n", "  ", ",\n"}) = 0
      /\ Count(compact, {"{", "["}) = Count(compact, {"}", "]"})
      /\ Count(compact, {"{...}", "[...]"}) = 0
           <=> DeepestFrom([tag |-> "Document", fields |-> fields], 1) <= MaxDepth

-----------------------------------------------------------------------------
(* JSON *)

Unsupported == {"Timestamp", "Regex", "DbPointer", "JavaScriptScope", "MinKey", "MaxKey"}

JsonNull == [json |-> "null"]

\* JSON has no number for NaN and the infinities: serde_json makes null of them.
WithoutValue == {"Null", "Undefined", "NotFinite"}

\* A map keeps the last value that was inserted under a name.
RECURSIVE TryJson(_)
TryJson(value) ==
  LET all(results) == \A i \in DOMAIN results : results[i].some
      fields == [i \in DOMAIN value.fields |-> TryJson(value.fields[i].value)]
      values == [i \in DOMAIN value.values |-> TryJson(value.values[i])]
      last(name) == Max({i \in DOMAIN fields : value.fields[i].name = name})
  IN  CASE value.tag = "Document" ->
             IF all(fields)
             THEN Some([json |-> "object", map |-> [name \in ToSet(FieldNames(value.fields)) |->
                                                      fields[last(name)].value]])
             ELSE None
        [] value.tag = "Array" ->
             IF all(values) THEN Some([json |-> "array", list |-> [i \in DOMAIN values |-> values[i].value]])
             ELSE None
        [] value.tag \in Unsupported -> None
        [] value.tag \in WithoutValue -> Some(JsonNull)
        [] OTHER -> Some([json |-> value.tag])

\* Mutant of JsonOf: the fields that have no JSON form are left out.
JsonOfSupported(fields) ==
  TryJson([tag |-> "Document",
           fields |-> SelectSeq(fields, LAMBDA f : f.value.tag \notin Unsupported)]).value

\* From<&Document>: null stands for the whole document when any part has no JSON form.
JsonOf(fields) ==
  LET r == TryJson([tag |-> "Document", fields |-> fields]) IN IF r.some THEN r.value ELSE JsonNull

RECURSIVE Leaves(_)
Leaves(value) ==
  IF value.tag = "Document" THEN UNION {Leaves(value.fields[i].value) : i \in DOMAIN value.fields}
  ELSE IF value.tag = "Array" THEN UNION {Leaves(v) : v \in ToSet(value.values)}
  ELSE {value.tag}

\* The JSON form is all or nothing.  It has one member for each name, and get returns
\* the value of that member unless the document repeats the name; null is what became of
\* a null, an undefined value or a Double without a JSON form, and of nothing else.
JsonAgrees(fields) ==
  LET json == JsonOf(fields)
  IN  IF Leaves([tag |-> "Document", fields |-> fields]) \cap Unsupported # {} THEN json = JsonNull
      ELSE /\ DOMAIN json.map = ToSet(FieldNames(fields))
           /\ \A name \in DOMAIN json.map :
                Count(FieldNames(fields), {name}) = 1 =>
                  /\ Some(json.map[name]) = TryJson(Get(fields, name).value)
                  /\ json.map[name] = JsonNull <=> Get(fields, name).value.tag \in WithoutValue
=============================================================================
