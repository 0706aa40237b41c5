--------------------------- MODULE WirebsonProofs ---------------------------
(***************************************************************************)
(* wirebson: the decoder on documents of any length and depth, and the        *)
(* conversions of convert.rs for integer types of any width, any rounding to  *)
(* Double and any resolution of the clock.                                    *)
(***************************************************************************)
EXTENDS BsonDecoder, Conversions, TLAPS

-----------------------------------------------------------------------------
(* The decoder *)

\* The scanner of a composite being decoded.
Open == [tag : {"Document", "Array"}, start : Int, len : Int, offset : Nat]

\* The inductive invariant of the decoder: there is a composite to decode, offsets are
\* numbers, and the stack is as NeverPanics says.
StackInv ==
  /\ stack \in Seq(Open)
  /\ pc = "field" => Len(stack) > 0
  /\ NeverPanics

\* The sizes that values have.
LEMMA SizesType == \A tag \in Tags : Sizes(tag) \subseteq Nat
<1> SUFFICES ASSUME NEW tag \in Tags PROVE Sizes(tag) \subseteq Nat
  OBVIOUS
<1>1. CASE tag \in DOMAIN Fixed
  <2>1. Fixed[tag] \in Nat
    BY <1>1 DEF Fixed
  <2> QED
    BY <1>1, <2>1 DEF Sizes
<1>2. CASE tag \notin DOMAIN Fixed
  <2>1. Least[tag] \in Nat
    BY <1>2, TagsAssumption DEF Least, MIN_DOC_LEN
  <2>2. MaxLen \in Nat
    BY DepthAssumption
  <2>3. \A a, b \in Nat : a..b \subseteq Nat
    OBVIOUS
  <2> QED
    BY <1>2, <2>1, <2>2, <2>3 DEF Sizes
<1> QED
  BY <1>1, <1>2

\* A tag that a value follows.
HasLengths(field) ==
  /\ field.name \in Nat /\ field.size \in Nat
  /\ field.tag = "JavaScriptScope" => field.code \in Nat /\ field.scope \in Nat

\* Scanner::next finds the end of the composite, or a name and lengths.
LEMMA FieldHere ==
  ASSUME NEW top, NEW field \in Here(top)
  PROVE  field.tag \in {"End", "Misread"} \/ HasLengths(field)
<1>1. CASE field \in EncodedHere(top)
  BY <1>1 DEF EncodedHere, HasLengths
<1>2. CASE field = [tag |-> "End"] \/ field = [tag |-> "Misread"]
  BY <1>2
<1>3. CASE field \in ScalarFields
  <2>1. PICK tag \in Tags \ {"JavaScriptScope"} :
          field \in [tag : {tag}, name : NameLengths, size : Sizes(tag)]
    BY <1>3, Zenon DEF ScalarFields
  <2>2. field.tag = tag /\ field.name \in NameLengths /\ field.size \in Sizes(tag)
    BY <2>1
  <2>3. field.name \in Nat /\ field.size \in Nat
    BY <2>1, <2>2, SizesType, TagsAssumption, Zenon
  <2> QED
    BY <2>1, <2>2, <2>3 DEF HasLengths
<1>4. CASE field \in CompositeFields
  <2>1. /\ field.name \in NameLengths /\ field.size \in 0..(MaxLen + 1)
        /\ field.tag \in {"Document", "Array"}
    BY <1>4 DEF CompositeFields
  <2>2. field.name \in Nat
    BY <2>1, TagsAssumption, Zenon
  <2>3. field.size \in Nat
    BY <2>1
  <2> QED
    BY <2>1, <2>2, <2>3 DEF HasLengths
<1>5. CASE field \in ScopeFields
  <2>1. PICK name \in NameLengths, code \in Least.String..MaxPart,
             scope \in (MIN_DOC_LEN - 1)..MaxPart, excess \in {0, 1} :
          /\ field.name = name /\ field.code = code /\ field.scope = scope
          /\ field.size = 4 + code + scope + excess
    BY <1>5 DEF ScopeFields
  <2>2. name \in Nat
    BY <2>1, TagsAssumption, Zenon
  <2>3. code \in Nat /\ scope \in Nat /\ excess \in Nat
    BY <2>1 DEF Least, MIN_DOC_LEN, MaxPart
  <2> QED
    BY <2>1, <2>2, <2>3 DEF HasLengths
<1>6. \/ field \in EncodedHere(top) \/ field = [tag |-> "End"] \/ field = [tag |-> "Misread"]
      \/ field \in ScalarFields \/ field \in CompositeFields \/ field \in ScopeFields
  BY Zenon DEF Here
<1> QED
  BY <1>1, <1>2, <1>3, <1>4, <1>5, <1>6

\* A step that ends the decoding, other than by a slice outside the buffer.
LEMMA GotoInv ==
  ASSUME StackInv, NEW label, label \notin {"panicked", "field"}, Goto(label)
  PROVE  StackInv'
  BY DEF StackInv, NeverPanics, Goto

\* The composite on top of the stack.
LEMMA TopType ==
  ASSUME StackInv, pc = "field"
  PROVE  /\ Last(stack) = stack[Len(stack)] /\ Len(stack) \in Nat /\ Len(stack) > 0
         /\ Last(stack) \in Open
         /\ Last(stack).start \in Int /\ Last(stack).len \in Int /\ Last(stack).offset \in Nat
<1>1. Len(stack) \in Nat /\ Len(stack) > 0 /\ stack \in Seq(Open)
  BY DEF StackInv
<1>2. Last(stack) = stack[Len(stack)]
  BY DEF Last
<1>3. stack[Len(stack)] \in Open
  BY <1>1
<1> QED
  BY <1>1, <1>2, <1>3 DEF Open

\* Leaving a composite.
LEMMA EndInv ==
  ASSUME StackInv, pc = "field", EndOfDocument(Last(stack))
  PROVE  StackInv'
<1>0. Len(stack) \in Nat /\ Len(stack) > 0 /\ stack \in Seq(Open)
  BY DEF StackInv
<1>1. CASE Goto("rejected") \/ Goto("accepted")
  BY <1>1, GotoInv
<1>2. CASE /\ Len(stack) # 1 /\ stack' = Front(stack) /\ UNCHANGED pc
  <2>1. /\ stack' \in Seq(Open) /\ Len(stack') = Len(stack) - 1
        /\ \A d \in 1..(Len(stack) - 1) : stack'[d] = stack[d]
    <3>1. PICK n \in Nat : n = Len(stack) - 1
      BY <1>0
    <3>2. stack' = SubSeq(stack, 1, n)
      BY <1>2, <3>1 DEF Front
    <3>3. n <= Len(stack)
      BY <1>0, <3>1
    <3>4. /\ SubSeq(stack, 1, n) \in Seq(Open) /\ Len(SubSeq(stack, 1, n)) = n
          /\ \A d \in 1..n : SubSeq(stack, 1, n)[d] = stack[d]
      BY <1>0, <3>3
    <3> QED
      BY <3>1, <3>2, <3>4
  <2>2. NeverPanics'
    <3>1. \A d \in 2..Len(stack') : /\ d \in 2..Len(stack)
                                    /\ stack'[d] = stack[d] /\ stack'[d - 1] = stack[d - 1]
      BY <1>0, <2>1
    <3>2. Len(stack') <= MAX_NESTING_DEPTH /\ pc' # "panicked"
      BY <1>0, <1>2, <2>1, DepthAssumption DEF StackInv, NeverPanics
    <3> QED
      BY <3>1, <3>2 DEF StackInv, NeverPanics
  <2> QED
    BY <1>0, <1>2, <2>1, <2>2 DEF StackInv
<1> QED
  BY <1>1, <1>2 DEF EndOfDocument

\* Having consumed a field, a scanner has the same buffer as before.
LEMMA ConsumedStack ==
  ASSUME StackInv, pc = "field", NEW field, field.size \in Nat, NEW voff \in Nat
  PROVE  LET after == Consumed(field, voff)
         IN  /\ after \in Seq(Open) /\ Len(after) = Len(stack)
             /\ \A d \in 1..Len(stack) : /\ after[d].start = stack[d].start
                                          /\ after[d].len = stack[d].len
<1> DEFINE n == Len(stack)
           after == Consumed(field, voff)
           top == [stack[n] EXCEPT !.offset = voff + field.size]
<1>1. n \in Nat /\ n > 0 /\ stack \in Seq(Open) /\ stack[n] \in Open
  BY TopType DEF StackInv
<1>2. after = [stack EXCEPT ![n] = top]
  BY DEF Consumed
<1>3. top \in Open /\ top.start = stack[n].start /\ top.len = stack[n].len
  <2>1. \A r \in Open, v \in Nat :
          /\ [r EXCEPT !.offset = v] \in Open
          /\ [r EXCEPT !.offset = v].start = r.start /\ [r EXCEPT !.offset = v].len = r.len
    BY DEF Open
  <2>2. voff + field.size \in Nat
    OBVIOUS
  <2> QED
    BY <1>1, <2>1, <2>2, Zenon
<1> HIDE DEF top, n, after
<1>4. after \in Seq(Open) /\ Len(after) = Len(stack)
  BY <1>1, <1>2, <1>3 DEF n
<1>5. \A d \in 1..Len(stack) : after[d] = IF d = n THEN top ELSE stack[d]
  BY <1>1, <1>2 DEF n
<1> QED
  BY <1>3, <1>4, <1>5 DEF after

\* Entering a composite.
LEMMA CompositeInv ==
  ASSUME StackInv, pc = "field", NEW field, field.tag \in {"Document", "Array"},
         field.size \in Nat, NEW voff \in Nat, TakeComposite(Last(stack), field, voff)
  PROVE  StackInv'
<1> DEFINE top == Last(stack)
           n   == Len(stack)
           new == Scanner(field.tag, top.start + InParent(voff), field.size)
           after == Consumed(field, voff)
<1>0. /\ n \in Nat /\ n > 0
      /\ top = stack[n] /\ top.start \in Int /\ top.len \in Int /\ top.offset \in Nat
  BY TopType
<1>1. CASE Goto("rejected") \/ Goto("too_deep")
  BY <1>1, GotoInv
<1>2. CASE ~BadLength(field.size, Rest(top, voff)) /\ ~TooDeep(n + 1) /\ UNCHANGED pc
           /\ stack' = Append(after, new)
  <2>1. /\ new \in Open /\ new.start >= top.start + 4
        /\ new.start + new.len <= top.start + top.len
    <3>1. \A start, len \in Int : Scanner(field.tag, start, len) \in Open
      BY DEF Open, Scanner
    <3>2. new.start = top.start + InParent(voff) /\ new.len = field.size
      BY DEF Scanner
    <3>3. top.start + InParent(voff) \in Int
      BY <1>0 DEF InParent
    <3>4. new \in Open
      BY <3>1, <3>3
    <3>5. ~(field.size > top.len - 4 - voff)
      BY <1>2 DEF BadLength, Rest
    <3> HIDE DEF new, top
    <3> QED
      BY <1>0, <3>2, <3>4, <3>5 DEF InParent
  <2>2. /\ after \in Seq(Open) /\ Len(after) = n
        /\ \A d \in 1..n : after[d].start = stack[d].start /\ after[d].len = stack[d].len
    BY ConsumedStack
  <2>3. ~(n + 1 > MAX_NESTING_DEPTH)
    BY <1>2 DEF TooDeep
  <2> HIDE DEF new, after, top
  <2>4. /\ stack' \in Seq(Open) /\ Len(stack') = n + 1
        /\ \A d \in 1..n : stack'[d] = after[d]
        /\ stack'[n + 1] = new
    BY <1>0, <1>2, <2>1, <2>2
  <2>5. ASSUME NEW d \in 2..Len(stack')
        PROVE  /\ stack'[d].start >= stack'[d - 1].start + 4
               /\ stack'[d].start + stack'[d].len <= stack'[d - 1].start + stack'[d - 1].len
    <3>1. CASE d = n + 1
      <4>1. stack'[d] = new /\ stack'[d - 1].start = top.start /\ stack'[d - 1].len = top.len
        BY <1>0, <2>2, <2>4, <3>1
      <4> QED
        BY <2>1, <4>1
    <3>2. CASE d \in 2..n
      <4>1. /\ stack[d].start >= stack[d - 1].start + 4
            /\ stack[d].start + stack[d].len <= stack[d - 1].start + stack[d - 1].len
        BY <3>2 DEF StackInv, NeverPanics
      <4>0. d \in 1..n /\ d - 1 \in 1..n
        BY <1>0, <3>2
      <4>2. /\ stack'[d].start = stack[d].start /\ stack'[d].len = stack[d].len
            /\ stack'[d - 1].start = stack[d - 1].start /\ stack'[d - 1].len = stack[d - 1].len
        BY <2>2, <2>4, <4>0, Zenon
      <4> QED
        BY <4>1, <4>2
    <3> QED
      BY <1>0, <2>4, <3>1, <3>2
  <2>6. pc' # "panicked" /\ Len(stack') > 0 /\ Len(stack') <= MAX_NESTING_DEPTH
    BY <1>0, <1>2, <2>3, <2>4, DepthAssumption
  <2> QED
    BY <2>4, <2>5, <2>6 DEF StackInv, NeverPanics
<1>3. BadLength(field.size, Rest(top, voff)) \/ ~(InParent(voff) + field.size > top.len)
  BY <1>0 DEF BadLength, Rest, InParent
<1> QED
  BY <1>1, <1>2, <1>3 DEF TakeComposite

\* Consuming a value and nothing else.
LEMMA ConsumeInv ==
  ASSUME StackInv, pc = "field", NEW field, field.size \in Nat, NEW voff \in Nat,
         stack' = Consumed(field, voff), UNCHANGED pc
  PROVE  StackInv'
<1>1. /\ stack' \in Seq(Open) /\ Len(stack') = Len(stack)
      /\ \A d \in 1..Len(stack) : /\ stack'[d].start = stack[d].start
                                   /\ stack'[d].len = stack[d].len
  BY ConsumedStack
<1>2. Len(stack) \in Nat /\ Len(stack) > 0
  BY TopType
<1>3. \A d \in 2..Len(stack) : d \in 1..Len(stack) /\ d - 1 \in 1..Len(stack)
  BY <1>2
<1>4. NeverPanics'
  BY <1>1, <1>3 DEF StackInv, NeverPanics
<1> QED
  BY <1>1, <1>2, <1>4 DEF StackInv

\* Reading a scalar.
LEMMA ScalarInv ==
  ASSUME StackInv, pc = "field", NEW field, field.size \in Nat, NEW voff \in Nat,
         TakeScalar(Last(stack), field, voff)
  PROVE  StackInv'
<1>1. CASE Goto("rejected")
  BY <1>1, GotoInv
<1>2. CASE stack' = Consumed(field, voff) /\ UNCHANGED pc
  BY <1>2, ConsumeInv
<1> QED
  BY <1>1, <1>2 DEF TakeScalar

\* Reading code with scope: the scope that fits the rest of the body lies inside the
\* buffer, four bytes further on in both.
LEMMA ScopeInv ==
  ASSUME StackInv, pc = "field", NEW field, field.size \in Nat, field.code \in Nat,
         field.scope \in Nat, NEW voff \in Nat, TakeScope(Last(stack), field, voff)
  PROVE  StackInv'
<1> DEFINE top == Last(stack)
           scope_off == 4 + field.code
<1>0. top.len \in Int
  BY TopType
<1>1. CASE Goto("rejected")
  BY <1>1, GotoInv
<1>2. CASE stack' = Consumed(field, voff) /\ UNCHANGED pc
  BY <1>2, ConsumeInv
<1>3. ~ScopeFits(Rest(top, voff), scope_off, field.scope)
        \/ ~(InParent(voff) + scope_off + field.scope > top.len)
  BY <1>0 DEF ScopeFits, Rest, InParent
<1> QED
  BY <1>1, <1>2, <1>3 DEF TakeScope

\* One field is read.
LEMMA NextFieldInv == StackInv /\ NextField => StackInv'
<1> SUFFICES ASSUME StackInv, NextField PROVE StackInv'
  OBVIOUS
<1> DEFINE top == Last(stack)
           at(field) == top.offset + 1 + field.name + 1
           takes(field, voff) == \/ IsComposite(field.tag) /\ TakeComposite(top, field, voff)
                                 \/ field.tag = "JavaScriptScope" /\ TakeScope(top, field, voff)
                                 \/ TakeScalar(top, field, voff)
<1>0. pc = "field"
  BY DEF NextField
<1>1. CASE RefuseBytes
  BY <1>1, GotoInv DEF RefuseBytes
<1>2. CASE Goto("short") \/ Goto("rejected")
  BY <1>2, GotoInv
<1>3. CASE EndOfDocument(top)
  BY <1>0, <1>3, EndInv
<1>4. CASE \E field \in Here(top) : field.tag \notin {"End", "Misread"} /\ takes(field, at(field))
  <2>1. PICK field \in Here(top) : field.tag \notin {"End", "Misread"} /\ takes(field, at(field))
    BY <1>4
  <2>2. HasLengths(field)
    BY <2>1, FieldHere
  <2>3. top.offset \in Nat
    BY <1>0, TopType
  <2>4. PICK voff \in Nat : voff = at(field)
    BY <2>2, <2>3 DEF HasLengths
  <2>5. takes(field, voff)
    BY <2>1, <2>4
  <2> HIDE DEF top
  <2>6. CASE IsComposite(field.tag) /\ TakeComposite(top, field, voff)
    BY <1>0, <2>2, <2>6, CompositeInv DEF HasLengths, IsComposite, top
  <2>7. CASE field.tag = "JavaScriptScope" /\ TakeScope(top, field, voff)
    BY <1>0, <2>2, <2>7, ScopeInv DEF HasLengths, top
  <2>8. CASE TakeScalar(top, field, voff)
    BY <1>0, <2>2, <2>8, ScalarInv DEF HasLengths, top
  <2> QED
    BY <2>5, <2>6, <2>7, <2>8
<1> QED
  BY <1>1, <1>2, <1>3, <1>4 DEF NextField

\* Whatever bytes it is given, decode_fields never slices outside the buffer of the
\* composite that encloses a value, and never recurses deeper than MAX_NESTING_DEPTH.
THEOREM DecoderNeverPanics == Spec => []NeverPanics
<1>1. Init => StackInv
  BY DepthAssumption DEF Init, StackInv, NeverPanics
<1>2. StackInv /\ [Next]_vars => StackInv'
  <2> SUFFICES ASSUME StackInv, [Next]_vars PROVE StackInv'
    OBVIOUS
  <2>1. CASE Validate
    <3>1. CASE Goto("rejected") \/ RefuseBytes
      BY <3>1, GotoInv DEF RefuseBytes
    <3>2. CASE \E len \in Nat : stack' = <<Scanner("Document", 0, len)>> /\ pc' = "field"
      <4>1. PICK len \in Nat : stack' = <<Scanner("Document", 0, len)>> /\ pc' = "field"
        BY <3>2, Zenon
      <4>2. Scanner("Document", 0, len) \in Open
        BY DEF Open, Scanner
      <4>3. stack' \in Seq(Open) /\ Len(stack') = 1
        BY <4>1, <4>2
      <4> QED
        BY <4>1, <4>3, DepthAssumption DEF StackInv, NeverPanics
    <3>3. \A len \in 0..MaxLen : len \in Nat
      BY DepthAssumption
    <3> QED
      BY <2>1, <3>1, <3>2, <3>3 DEF Validate
  <2>2. CASE NextField
    BY <2>2, NextFieldInv
  <2>3. CASE Reencode
    BY <2>3, DepthAssumption DEF Reencode, StackInv, NeverPanics
  <2>4. CASE UNCHANGED vars
    BY <2>4 DEF vars, StackInv, NeverPanics
  <2> QED
    BY <2>1, <2>2, <2>3, <2>4 DEF Next
<1>3. StackInv => NeverPanics
  BY DEF StackInv
<1> QED
  BY <1>1, <1>2, <1>3, PTL DEF Spec

-----------------------------------------------------------------------------
(* Conversions *)

\* A number as a BSON value holds it: an i64 (a Bool is 0 or 1), or a Double.
IsNumber(s) ==
  /\ s.tag \in {"Int32", "Int64", "Bool"} => s.v \in Native.i64
  /\ s.tag = "Double" => s.v \in Int

\* The bounds of i64 as the guard of convert.rs:93 sees them.
LEMMA Bounds ==
  /\ MaxI64 \in Nat /\ MinI64 \in Int /\ MinI64 <= MaxI64
  /\ Native.i64 = MinI64..MaxI64
  /\ AsF64(MinI64) = 2 * MinI64 /\ AsF64(MaxI64) \in Int /\ AsF64(MaxI64) >= 2 * MaxI64
  BY RangeAssumption, RoundingAssumption DEF MinI64

\* A Double without a fraction is twice its half.
LEMMA Even ==
  ASSUME NEW f \in Int
  PROVE  /\ f \div 2 \in Int
         /\ f % 2 = 0 => 2 * (f \div 2) = f
         /\ \A n \in Int : f = 2 * n => f % 2 = 0 /\ f \div 2 = n
  OBVIOUS

\* The guard lets a Double through if and only if it is a whole number of at least
\* i64::MIN and at most i64::MAX rounded up; `as i64` then yields it, or i64::MAX.
LEMMA WideDouble ==
  ASSUME NEW f \in Int
  PROVE  /\ HoldsI64(f) => /\ Saturate(f \div 2) \in Native.i64
                           /\ 2 * Saturate(f \div 2) = f \/ f > 2 * MaxI64
         /\ \A n \in Native.i64 : f = 2 * n => HoldsI64(f) /\ Saturate(f \div 2) = n
<1>1. ASSUME HoldsI64(f)
      PROVE  /\ Saturate(f \div 2) \in Native.i64
             /\ 2 * Saturate(f \div 2) = f \/ f > 2 * MaxI64
  <2>1. f \div 2 \in Int /\ 2 * (f \div 2) = f /\ f >= 2 * MinI64
    BY <1>1, Even, Bounds DEF HoldsI64
  <2> QED
    BY <2>1, Bounds DEF Saturate
<1>2. ASSUME NEW n \in Native.i64, f = 2 * n
      PROVE  HoldsI64(f) /\ Saturate(f \div 2) = n
  <2>1. n \in Int /\ MinI64 <= n /\ n <= MaxI64
    BY Bounds
  <2>2. f % 2 = 0 /\ f \div 2 = n
    BY <1>2, <2>1, Even
  <2> QED
    BY <1>2, <2>1, <2>2, Bounds DEF HoldsI64, Saturate
<1> QED
  BY <1>1, <1>2

\* TryFrom of a BSON value to an integer type, of whatever range: it succeeds for every
\* number the type holds, yields that very number (but for the Double 2^63), and
\* refuses other integers as OutOfRange (convert.rs:4-6).
THEOREM IntegerConversions ==
  ASSUME NEW type \in DOMAIN Native \ {"f64", "f32", "bool", "String", "Uuid", "Duration"}, NEW s, IsNumber(s)
  PROVE  ExactTo(type, s)
<1> DEFINE wide == Wide(s)
           r == TryFromBson(type, s)
<1>1. CASE ~Numeric(s)
  <2>1. wide = NotConvertible
    BY <1>1, Zenon DEF Wide, Numeric
  <2>2. TryFromNumeric(type, s) = NotConvertible
    BY <2>1 DEF TryFromNumeric, NotConvertible
  <2>3. r = NotConvertible
    BY <2>2 DEF TryFromBson, TryFromScalar
  <2> QED
    BY <1>1, <2>3 DEF ExactTo, NotConvertible
<1>2. CASE Numeric(s)
  <2>1. r = TryFromNumeric(type, s)
    BY <1>2 DEF Numeric, TryFromBson, Composite, TryFromScalar
  <2>2. /\ wide.ok => /\ wide.v \in Native.i64
                      /\ 2 * wide.v = Twice(s) \/ PastMaxI64(s)
        /\ \A n \in Native.i64 : 2 * n = Twice(s) => wide.ok /\ wide.v = n
        /\ s.tag # "Double" => wide.ok
    <3>1. CASE s.tag = "Double"
      <4>1. s.v \in Int /\ Twice(s) = s.v /\ (PastMaxI64(s) <=> s.v > 2 * MaxI64)
        BY <3>1 DEF IsNumber, Twice, PastMaxI64
      <4>2. wide = IF HoldsI64(s.v) THEN Ok(Saturate(s.v \div 2)) ELSE NotConvertible
        BY <3>1 DEF Wide
      <4>3. /\ HoldsI64(s.v) => wide.ok /\ wide.v = Saturate(s.v \div 2)
            /\ ~HoldsI64(s.v) => ~wide.ok
        BY <4>2 DEF Ok, NotConvertible
      <4> HIDE DEF wide
      <4> QED
        BY <3>1, <4>1, <4>3, WideDouble
    <3>2. CASE s.tag # "Double"
      <4>1. s.v \in Native.i64 /\ Twice(s) = 2 * s.v
        BY <1>2, <3>2 DEF IsNumber, Numeric, Twice
      <4>2. wide = Ok(s.v)
        BY <1>2, <3>2 DEF Wide, Numeric
      <4>3. wide.ok /\ wide.v = s.v
        BY <4>2 DEF Ok
      <4> HIDE DEF wide
      <4> QED
        BY <3>2, <4>1, <4>3, Bounds
    <3> QED
      BY <3>1, <3>2
  <2> HIDE DEF wide
  <2>3. r = IF ~wide.ok THEN NotConvertible
            ELSE IF wide.v \in Native[type] THEN wide ELSE OutOfRange
    BY <2>1 DEF TryFromNumeric, wide
  <2> HIDE DEF r
  <2>4. ExactTo(type, s) <=>
          /\ r.ok => /\ r.v \in Native[type]
                     /\ 2 * r.v = Twice(s) \/ PastMaxI64(s)
          /\ Numeric(s) /\ (\E n \in Native[type] \cap Native.i64 : 2 * n = Twice(s)) => r.ok
          /\ ~r.ok /\ Numeric(s) /\ s.tag # "Double" => r = OutOfRange
    BY DEF ExactTo, r
  <2>5. ~NotConvertible.ok /\ ~OutOfRange.ok
    BY DEF NotConvertible, OutOfRange
  <2> QED
    BY <2>2, <2>3, <2>4, <2>5
<1> QED
  BY <1>1, <1>2

-----------------------------------------------------------------------------
(* Time *)

\* Whole milliseconds, counted in ticks.
LEMMA WholeMs ==
  ASSUME NEW ms \in Nat
  PROVE  ms * TicksPerMs \in Nat /\ (ms * TicksPerMs) \div TicksPerMs = ms
  BY RangeAssumption

\* The whole milliseconds of a number of ticks.
LEMMA Millis ==
  ASSUME NEW n \in Nat
  PROVE  /\ n \div TicksPerMs \in Nat
         /\ (n \div TicksPerMs) * TicksPerMs <= n
         /\ n - (n \div TicksPerMs) * TicksPerMs < TicksPerMs
  BY RangeAssumption

\* `as i64` leaves the numbers of i64 alone, and takes its successor to the least.
LEMMA Wraps ==
  /\ \A n \in MinI64..MaxI64 : WrapI64(n) = n
  /\ WrapI64(MaxI64 + 1) = MinI64
  BY Bounds DEF WrapI64, MinI64

\* What From<SystemTime> makes of a time, by the side of the epoch it is on.
LEMMA FromTime ==
  ASSUME NEW t \in Int, NEW checks \in BOOLEAN, NEW q \in Nat, q = Abs(t) \div TicksPerMs
  PROVE  /\ t >= 0 /\ q <= MaxI64 =>
              FromSystemTime(t, checks) = [tag |-> "DateTime", v |-> q]
         /\ t < 0 /\ q <= MaxI64 =>
              FromSystemTime(t, checks) = [tag |-> "DateTime", v |-> -q]
         /\ t < 0 /\ q = MaxI64 + 1 =>
              FromSystemTime(t, checks)
                = IF checks THEN Panic ELSE [tag |-> "DateTime", v |-> MinI64]
<1> DEFINE ms == WrapI64(Abs(t) \div TicksPerMs)
<1>1. FromSystemTime(t, checks)
        = IF t >= 0 THEN [tag |-> "DateTime", v |-> ms]
          ELSE IF ms # MinI64 THEN [tag |-> "DateTime", v |-> -ms]
          ELSE IF checks THEN Panic
          ELSE [tag |-> "DateTime", v |-> MinI64]
  BY DEF FromSystemTime
<1>2. q <= MaxI64 => ms = q /\ ms # MinI64
  BY Wraps, Bounds DEF MinI64
<1>3. q = MaxI64 + 1 => ms = MinI64
  BY Wraps, Bounds
<1> HIDE DEF ms
<1> QED
  BY <1>1, <1>2, <1>3

\* Every date of an i64 comes back from SystemTime as it was; the least one makes a build
\* with overflow checks panic (convert.rs, From<SystemTime>).
THEOREM DatesReturn ==
  ASSUME NEW ms \in Native.i64, NEW checks \in BOOLEAN
  PROVE  DateReturns(ms, checks)
<1> DEFINE t == ms * TicksPerMs
           back == FromSystemTime(t, checks)
<1>0. ms \in Int /\ MinI64 <= ms /\ ms <= MaxI64 /\ TicksPerMs \in Nat \ {0} /\ t \in Int
  BY Bounds, RangeAssumption
<1>1. TrySystemTime([tag |-> "DateTime", v |-> ms]).v = t
  BY DEF TrySystemTime, Ok
<1>2. SUFFICES IF ms = MinI64 /\ checks THEN back = Panic
               ELSE back = [tag |-> "DateTime", v |-> ms]
  BY <1>1 DEF DateReturns
<1>3. CASE ms >= 0
  <2>1. t >= 0 /\ Abs(t) = ms * TicksPerMs
    BY <1>0, <1>3 DEF Abs
  <2>2. Abs(t) \div TicksPerMs = ms
    BY <1>0, <1>3, <2>1, WholeMs
  <2> HIDE DEF t
  <2>3. back = [tag |-> "DateTime", v |-> ms]
    BY <1>0, <1>3, <2>1, <2>2, FromTime
  <2> QED
    BY <1>3, <2>3, Bounds DEF MinI64
<1>4. CASE ms < 0
  <2>1. t < 0 /\ Abs(t) = (-ms) * TicksPerMs /\ -ms \in Nat
    BY <1>0, <1>4 DEF Abs
  <2>2. Abs(t) \div TicksPerMs = -ms
    BY <2>1, WholeMs
  <2> HIDE DEF t
  <2>3. CASE ms = MinI64
    <3>1. -ms = MaxI64 + 1
      BY <2>3, Bounds DEF MinI64
    <3> QED
      BY <1>0, <2>1, <2>2, <2>3, <3>1, FromTime
  <2>4. CASE ms # MinI64
    <3>1. -ms <= MaxI64 /\ -(-ms) = ms
      BY <1>0, <2>4, Bounds DEF MinI64
    <3> QED
      BY <1>0, <2>1, <2>2, <2>4, <3>1, FromTime
  <2> QED
    BY <2>3, <2>4
<1> QED
  BY <1>0, <1>3, <1>4

\* A time whose milliseconds fit an i64 loses less than one of them, towards the epoch,
\* and stays on its side of it (convert.rs, From<SystemTime>).
THEOREM TimesTruncate ==
  ASSUME NEW t \in Int, NEW checks \in BOOLEAN
  PROVE  TimeTruncated(t, checks)
<1> DEFINE q == Abs(t) \div TicksPerMs
           back == TrySystemTime(FromSystemTime(t, checks)).v
<1>1. SUFFICES ASSUME q <= MaxI64
               PROVE  /\ Abs(back) <= Abs(t) /\ Abs(t) - Abs(back) < TicksPerMs
                      /\ back # 0 => (back < 0 <=> t < 0)
  BY DEF TimeTruncated
<1>2. Abs(t) \in Nat /\ TicksPerMs \in Nat \ {0}
  BY RangeAssumption DEF Abs
<1>3. q \in Nat /\ q * TicksPerMs \in Nat /\ q * TicksPerMs <= Abs(t) /\ Abs(t) - q * TicksPerMs < TicksPerMs
  BY <1>2, Millis
<1>4. back = (IF t >= 0 THEN q ELSE -q) * TicksPerMs
  <2> DEFINE v == IF t >= 0 THEN q ELSE -q
  <2>1. FromSystemTime(t, checks) = [tag |-> "DateTime", v |-> v]
    BY <1>1, <1>3, FromTime
  <2> HIDE DEF v
  <2> QED
    BY <2>1 DEF TrySystemTime, Ok, v
<1> HIDE DEF back, q
<1>5. CASE t >= 0
  <2>1. back = q * TicksPerMs /\ back >= 0 /\ Abs(back) = q * TicksPerMs
    BY <1>3, <1>4, <1>5 DEF Abs
  <2> QED
    BY <1>3, <1>5, <2>1
<1>6. CASE t < 0
  <2>1. back = -(q * TicksPerMs)
    BY <1>2, <1>3, <1>4, <1>6
  <2>2. back <= 0 /\ Abs(back) = q * TicksPerMs
    BY <1>3, <2>1 DEF Abs
  <2> QED
    BY <1>3, <1>6, <2>1, <2>2
<1> QED
  BY <1>5, <1>6
=============================================================================
