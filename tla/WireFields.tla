----------------------------- MODULE WireFields -----------------------------
(***************************************************************************)
(* Bytes written field by field: how long they are and where each field       *)
(* begins.  A field is the value a parser finds and the bytes it takes.       *)
(* Keep is what iter().filter() does to the lists the fields carry.           *)
(***************************************************************************)
EXTENDS Integers, Sequences

Field(value, width) == [value |-> value, width |-> width]

\* The sum of the first n elements.
TotalOf(s, n) ==
  LET sum[i \in 0..n] == IF i = 0 THEN 0 ELSE sum[i - 1] + s[i]
  IN  sum[n]

Total(s) == TotalOf(s, Len(s))

Widths(fields) == [i \in DOMAIN fields |-> fields[i].width]

\* The values of the fields that begin at a position.
ValuesAt(fields, position) ==
  {fields[i].value : i \in {k \in DOMAIN fields : TotalOf(Widths(fields), k - 1) = position}}

\* The elements of a sequence that a set holds, in the order of the sequence.
Keep(s, S) ==
  LET kept[i \in 0..Len(s)] == IF i = 0 THEN << >>
                               ELSE IF s[i] \in S THEN Append(kept[i - 1], s[i])
                               ELSE kept[i - 1]
  IN  kept[Len(s)]
=============================================================================
