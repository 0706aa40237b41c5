----------------------------- MODULE OpMsgProofs -----------------------------
(***************************************************************************)
(* parse_body never leaves its buffer, for bodies of any length.             *)
(***************************************************************************)
EXTENDS OpMsgParser, TLAPS

\* The strengthening.  While sections are being read the cursor is inside the
\* sections, and it has advanced by exactly what Sections::size() will count.
CursorInv ==
  /\ TypeOK
  /\ NeverPanics
  /\ pc \in {"section", "documents", "boundary", "accepted"} =>
       /\ len = end + (IF checksummed THEN 4 ELSE 0)
       /\ offset = 4 + size /\ offset <= end
  /\ pc = "flags" => size = 0
  /\ pc = "section" => offset < end
  /\ pc = "documents" => offset <= sec_end /\ sec_end <= end
  /\ pc = "accepted" => offset = end /\ body_doc # 0
  /\ body_doc # 0 => body_doc >= MIN_DOC_LEN

\* take_document succeeds only with a document between from and limit, and fails
\* only with an error, as long as the limit is not behind from or past the body.
LEMMA TakeDocumentFacts ==
  ASSUME TypeOK, NEW from \in Nat, NEW limit \in Nat, from <= limit, limit <= len,
         NEW taken \in TakeDocument(from, limit)
  PROVE  /\ taken.ok => taken.doc \in Nat /\ taken.doc >= MIN_DOC_LEN /\ from + taken.doc <= limit
         /\ ~taken.ok => taken.why = "rejected"
<1>1. len \in Nat
  BY DEF TypeOK
<1>2. CASE limit - from < 4
  <2>1. taken = [ok |-> FALSE, why |-> "rejected"]
    BY <1>2 DEF TakeDocument
  <2> QED
    BY <2>1
<1>3. CASE limit - from >= 4
  <2>1. ~(limit < from) /\ ~(limit - from < 4) /\ ~(from + 4 > len)
    BY <1>1, <1>3
  <2>2. \/ taken = [ok |-> FALSE, why |-> "rejected"]
        \/ \E doc \in IntAt(from, Lengths) :
             taken = IF doc < MIN_DOC_LEN \/ doc > limit - from
                     THEN [ok |-> FALSE, why |-> "rejected"]
                     ELSE IF from + doc > len THEN [ok |-> FALSE, why |-> "panicked"]
                     ELSE [ok |-> TRUE, doc |-> doc]
    BY <2>1 DEF TakeDocument
  <2>3. CASE taken = [ok |-> FALSE, why |-> "rejected"]
    BY <2>3
  <2>4. ASSUME NEW doc \in IntAt(from, Lengths),
               taken = IF doc < MIN_DOC_LEN \/ doc > limit - from
                       THEN [ok |-> FALSE, why |-> "rejected"]
                       ELSE IF from + doc > len THEN [ok |-> FALSE, why |-> "panicked"]
                       ELSE [ok |-> TRUE, doc |-> doc]
        PROVE  \/ taken = [ok |-> FALSE, why |-> "rejected"]
               \/ /\ taken = [ok |-> TRUE, doc |-> doc]
                  /\ doc \in Nat /\ doc >= MIN_DOC_LEN /\ from + doc <= limit
    <3>1. doc \in Int
      BY DEF IntAt
    <3>2. CASE doc < MIN_DOC_LEN \/ doc > limit - from
      BY <2>4, <3>2
    <3>3. CASE ~(doc < MIN_DOC_LEN \/ doc > limit - from)
      <4>1. doc \in Nat /\ doc >= MIN_DOC_LEN /\ from + doc <= limit /\ ~(from + doc > len)
        BY <1>1, <3>1, <3>3 DEF MIN_DOC_LEN
      <4> QED
        BY <2>4, <3>3, <4>1
    <3> QED
      BY <3>2, <3>3
  <2>5. ASSUME NEW doc, taken = [ok |-> TRUE, doc |-> doc],
               doc \in Nat /\ doc >= MIN_DOC_LEN /\ from + doc <= limit
        PROVE  taken.ok /\ taken.doc = doc
    BY <2>5
  <2> QED
    BY <2>2, <2>3, <2>4, <2>5
<1> QED
  BY <1>1, <1>2, <1>3

\* An error return keeps the invariant.
LEMMA RejectInv == CursorInv /\ Goto("rejected") => CursorInv'
  BY DEF CursorInv, TypeOK, NeverPanics, Goto, Ended

\* Before the flags are read nothing has been counted.
LEMMA InitCursor == Init => CursorInv
<1> SUFFICES ASSUME Init PROVE CursorInv
  OBVIOUS
<1>1. len \in Nat
  BY MaxLenAssumption, MessagesAssumption DEF Init
<1> QED
  BY <1>1, Zenon DEF Init, CursorInv, TypeOK, NeverPanics, Ended

\* The length checks leave room for one section kind byte at least.
LEMMA FlagsInv == CursorInv /\ ParseFlags => CursorInv'
<1> SUFFICES ASSUME CursorInv, ParseFlags PROVE CursorInv'
  OBVIOUS
<1>1. CASE Goto("rejected")
  BY <1>1, RejectInv
<1>2. ASSUME NEW flagged \in BOOLEAN, ~TooShort(flagged),
             checksummed' = flagged, end' = len - (IF flagged THEN 4 ELSE 0), offset' = 4,
             pc' = "section",
             UNCHANGED <<input, len, sec_end, body_doc, sequences, valid, size>>
      PROVE  CursorInv'
  <2>1. len \in Nat /\ len >= 6 + (IF flagged THEN 4 ELSE 0)
    BY <1>2 DEF CursorInv, TypeOK, TooShort
  <2>2. /\ end' \in Nat /\ len = end' + (IF flagged THEN 4 ELSE 0)
        /\ end' >= 6 /\ offset' \in Nat /\ offset' < end'
    BY <1>2, <2>1
  <2>3. size = 0
    BY DEF ParseFlags, CursorInv
  <2> QED
    BY <1>2, <2>1, <2>2, <2>3 DEF CursorInv, TypeOK, NeverPanics, Ended
<1> QED
  BY <1>1, <1>2 DEF ParseFlags

\* Reading the kind-0 document moves the cursor by what size() counts for it.
LEMMA BodySectionInv == CursorInv /\ pc = "section" /\ BodySection => CursorInv'
<1> SUFFICES ASSUME CursorInv, pc = "section", BodySection PROVE CursorInv'
  OBVIOUS
<1>1. CASE Goto("rejected")
  BY <1>1, RejectInv
<1>2. ASSUME ~(body_doc # 0 \/ sequences # << >>) PROVE CursorInv'
  <2>1. PICK taken \in TakeDocument(offset + 1, end) :
          IF ~taken.ok THEN Goto(taken.why)
          ELSE /\ body_doc' = taken.doc
               /\ offset' = offset + 1 + taken.doc
               /\ size' = size + 1 + taken.doc
               /\ pc' = "boundary"
               /\ UNCHANGED <<input, len, checksummed, end, sec_end, sequences, valid>>
    BY <1>2 DEF BodySection
  <2>2. /\ TypeOK /\ offset + 1 \in Nat /\ end \in Nat /\ offset + 1 <= end /\ end <= len
    BY DEF CursorInv, TypeOK
  <2>3. /\ taken.ok => taken.doc \in Nat /\ taken.doc >= MIN_DOC_LEN
                       /\ offset + 1 + taken.doc <= end
        /\ ~taken.ok => taken.why = "rejected"
    BY <2>2, TakeDocumentFacts
  <2>4. CASE taken.ok
    BY <2>1, <2>3, <2>4 DEF CursorInv, TypeOK, NeverPanics, Ended, MIN_DOC_LEN
  <2>5. CASE ~taken.ok
    BY <2>1, <2>3, <2>5, RejectInv
  <2> QED
    BY <2>4, <2>5
<1> QED
  BY <1>1, <1>2 DEF BodySection

\* A kind-1 header is accepted only if the whole section fits before the end.
LEMMA SequenceSectionInv == CursorInv /\ pc = "section" /\ SequenceSection => CursorInv'
<1> SUFFICES ASSUME CursorInv, pc = "section", SequenceSection PROVE CursorInv'
  OBVIOUS
<1>0. /\ offset \in Nat /\ end \in Nat /\ len \in Nat /\ size \in Nat
      /\ offset < end /\ end <= len /\ offset = 4 + size
  BY DEF CursorInv, TypeOK
<1>1. CASE end - (offset + 1) < 4
  <2>1. Goto("rejected")
    BY <1>0, <1>1 DEF SequenceSection
  <2> QED
    BY <2>1, RejectInv
<1>2. CASE end - (offset + 1) >= 4
  <2>0. ~(end < offset + 1) /\ ~(end - (offset + 1) < 4) /\ ~(offset + 1 + 4 > len)
    BY <1>0, <1>2
  <2>1. PICK raw \in IntAt(offset + 1, 0..(MaxLen + 5)) :
          IF raw - 4 < 5 \/ SequenceTooLong(offset + 1, raw - 4) THEN Goto("rejected")
          ELSE IF offset + 1 + raw > len THEN Goto("panicked")
          ELSE Identifier(offset + 1 + 4, offset + 1 + raw)
    BY <2>0 DEF SequenceSection
  <2>2. raw \in Int
    BY DEF IntAt
  <2>3. CASE raw - 4 < 5 \/ SequenceTooLong(offset + 1, raw - 4)
    BY <2>1, <2>3, RejectInv
  <2>4. CASE ~(raw - 4 < 5 \/ SequenceTooLong(offset + 1, raw - 4))
    <3>1. raw >= 9 /\ offset + 1 + raw <= end /\ ~(offset + 1 + raw > len)
      BY <1>0, <2>2, <2>4 DEF SequenceTooLong
    <3>2. Identifier(offset + 1 + 4, offset + 1 + raw)
      BY <2>1, <2>4, <3>1
    <3>3. CASE Goto("rejected")
      BY <3>3, RejectInv
    <3>4. ASSUME NEW length \in 0..((offset + 1 + raw) - (offset + 1 + 4) - 1),
                 NEW fresh \in BOOLEAN,
                 offset' = offset + 1 + 4 + length + 1, sec_end' = offset + 1 + raw,
                 valid' = (valid /\ length > 0 /\ fresh),
                 size' = size + 1 + 4 + length + 1, pc' = "documents",
                 UNCHANGED <<input, len, checksummed, end, body_doc>>
          PROVE  CursorInv'
      <4>1. /\ offset' \in Nat /\ size' \in Nat /\ sec_end' \in Nat
            /\ offset' = 4 + size' /\ offset' <= sec_end' /\ sec_end' <= end /\ offset' <= end
        BY <1>0, <2>2, <3>1, <3>4
      <4>2. valid' \in BOOLEAN
        BY <3>4
      <4> QED
        BY <3>4, <4>1, <4>2 DEF CursorInv, TypeOK, NeverPanics, Ended
    <3> QED
      BY <3>2, <3>3, <3>4, Zenon DEF Identifier, IdentifierAllowed
  <2> QED
    BY <2>3, <2>4
<1> QED
  BY <1>0, <1>1, <1>2

\* One turn of the section loop, up to the documents of a kind-1 section.
LEMMA SectionInv == CursorInv /\ ParseSection => CursorInv'
<1> SUFFICES ASSUME CursorInv, ParseSection PROVE CursorInv'
  OBVIOUS
<1>1. pc = "section"
  BY DEF ParseSection
<1>2. Goto("rejected") \/ BodySection \/ SequenceSection
  <2>1. CASE offset >= len
    BY <2>1 DEF ParseSection
  <2>2. CASE ~(offset >= len)
    BY <2>2 DEF ParseSection
  <2> QED
    BY <2>1, <2>2
<1> QED
  BY <1>1, <1>2, RejectInv, BodySectionInv, SequenceSectionInv

\* The document loop stays inside the section.
LEMMA DocumentsInv == CursorInv /\ ParseDocuments => CursorInv'
<1> SUFFICES ASSUME CursorInv, ParseDocuments PROVE CursorInv'
  OBVIOUS
<1>1. /\ pc = "documents" /\ offset <= sec_end /\ sec_end <= end /\ end <= len
      /\ offset \in Nat /\ sec_end \in Nat /\ end \in Nat /\ len \in Nat /\ TypeOK
  BY DEF CursorInv, TypeOK, ParseDocuments
<1>2. CASE sec_end = offset
  <2>1. Goto("boundary")
    BY <1>1, <1>2 DEF ParseDocuments
  <2> QED
    BY <1>1, <2>1 DEF CursorInv, TypeOK, NeverPanics, Goto, Ended
<1>3. CASE sec_end # offset
  <2>1. PICK taken \in TakeDocument(offset, sec_end) :
          IF ~taken.ok THEN Goto(taken.why)
          ELSE /\ offset' = offset + taken.doc
               /\ size' = size + taken.doc
               /\ UNCHANGED <<input, len, checksummed, end, sec_end, body_doc, valid, pc>>
    BY <1>1, <1>3 DEF ParseDocuments
  <2>2. sec_end <= len
    BY <1>1
  <2>3. /\ taken.ok => taken.doc \in Nat /\ taken.doc >= MIN_DOC_LEN
                       /\ offset + taken.doc <= sec_end
        /\ ~taken.ok => taken.why = "rejected"
    BY <1>1, <2>2, TakeDocumentFacts
  <2>4. CASE taken.ok
    BY <1>1, <2>1, <2>3, <2>4 DEF CursorInv, TypeOK, NeverPanics, Ended
  <2>5. CASE ~taken.ok
    BY <2>1, <2>3, <2>5, RejectInv
  <2> QED
    BY <2>4, <2>5
<1> QED
  BY <1>2, <1>3

\* A section ends at or before the end, so the loop goes on or is done exactly there.
LEMMA BoundaryInv == CursorInv /\ Boundary => CursorInv'
<1> SUFFICES ASSUME CursorInv, Boundary PROVE CursorInv'
  OBVIOUS
<1>1. /\ pc = "boundary" /\ offset = 4 + size /\ offset <= end
      /\ len = end + (IF checksummed THEN 4 ELSE 0)
      /\ offset \in Nat /\ size \in Nat /\ end \in Nat /\ len \in Nat
  BY DEF CursorInv, TypeOK, Boundary
<1>2. CASE offset # end
  <2>1. Goto("section") /\ offset < end
    BY <1>1, <1>2 DEF Boundary, NextSection
  <2> QED
    BY <1>1, <2>1 DEF CursorInv, TypeOK, NeverPanics, Goto, Ended
<1>3. CASE offset = end
  <2>1. ~(checksummed /\ end + 4 > len) /\ size = end - 4
    BY <1>1, <1>3 DEF CursorInv, TypeOK
  <2>2. CASE body_doc = 0 \/ ~valid
    BY <1>3, <2>1, <2>2, RejectInv DEF Boundary, NextSection
  <2>3. CASE ~(body_doc = 0 \/ ~valid)
    <3>1. Goto("accepted")
      BY <1>3, <2>1, <2>3 DEF Boundary, NextSection
    <3> QED
      BY <1>1, <1>3, <2>3, <3>1 DEF CursorInv, TypeOK, NeverPanics, Goto, Ended
  <2> QED
    BY <2>2, <2>3
<1> QED
  BY <1>2, <1>3

-----------------------------------------------------------------------------
(* The theorems *)

\* CursorInv holds in every reachable state.
LEMMA CursorInvariance == Spec => []CursorInv
<1>1. CursorInv /\ [Next]_vars => CursorInv'
  <2> SUFFICES ASSUME CursorInv, [Next]_vars PROVE CursorInv'
    OBVIOUS
  <2>1. CASE UNCHANGED vars
    BY <2>1 DEF vars, CursorInv, TypeOK, NeverPanics
  <2> QED
    BY <2>1, FlagsInv, SectionInv, DocumentsInv, BoundaryInv DEF Next
<1> QED
  BY <1>1, InitCursor, PTL DEF Spec

\* The cursor and every length parse_body computes stay natural numbers.
THEOREM ParserTypes == Spec => []TypeOK
<1>1. CursorInv => TypeOK
  BY DEF CursorInv
<1> QED
  BY <1>1, CursorInvariance, PTL

\* parse_body never indexes or slices outside the body and never subtracts below
\* zero, whatever the bytes and however many.
THEOREM ParserNeverPanics == Spec => []NeverPanics
<1>1. CursorInv => NeverPanics
  BY DEF CursorInv
<1> QED
  BY <1>1, CursorInvariance, PTL

\* Every message parse_body accepts accounts for each of its bytes: its debug_assert
\* never fails, and body_len() of the result is the length that was parsed.
THEOREM ParserIsExact == Spec => []AcceptedIsExact
<1>1. CursorInv => AcceptedIsExact
  BY DEF CursorInv, TypeOK, AcceptedIsExact
<1> QED
  BY <1>1, CursorInvariance, PTL
=============================================================================
