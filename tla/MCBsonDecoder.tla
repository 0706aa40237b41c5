---------------------------- MODULE MCBsonDecoder ----------------------------
(***************************************************************************)
(* Arbitrary documents long enough to hold one composite too many, and       *)
(* documents with up to MAX_NESTING_DEPTH + 1 levels.                         *)
(***************************************************************************)
EXTENDS BsonDecoder

Scalar(tag, name, size) == [tag |-> tag, name |-> name, size |-> size]
Scope(name, code, scope) ==
  [tag |-> "JavaScriptScope", name |-> name, size |-> 4 + code + scope, code |-> code]
Open(tag, name)         == [tag |-> tag, name |-> name]
Close                   == [tag |-> "End"]

MCTags == {"Null", "Bool", "String", "Regex", "JavaScriptScope"}

Leaves(name) ==
  {Scalar("Null", name, 0), Scalar("String", name, 6), Scope(name, 6, 5),
   Scalar("BinaryOld", name, 9), Scalar("Decimal128", name, 16)}

\* Bodies of composites, elements named by name.
Flat(name)      == {<< >>} \cup {<<a>> : a \in Leaves(name)}
                     \cup {<<a, b>> : a \in Leaves(name), b \in Leaves(name)}
Wrap(tag, name, body) == <<Open(tag, name)>> \o body \o <<Close>>
Nested(name)    == {Wrap("Document", name, b) : b \in Flat(1)}
                     \cup {Wrap("Array", name, b) : b \in Flat(Index)}
Long            == [i \in 1..12 |-> Scalar("Bool", Index, 1)]
Deep            == {Wrap(tag, 1, b) \o tail : tag \in {"Document"}, b \in Nested(1),
                      tail \in {<< >>, <<Scalar("Null", 1, 0)>>}}
                     \cup {Wrap("Array", 1, b \o c) : b \in Nested(Index),
                             c \in {<< >>, <<Scalar("Null", Index, 0)>>}}

MCDocuments ==
  Flat(2) \cup Nested(1) \cup {a \o b : a \in Nested(1), b \in Flat(1)}
  \cup {Wrap("Array", 1, Long)} \cup Deep
=============================================================================
