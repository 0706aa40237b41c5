------------------------- MODULE MessageBodiesProofs -------------------------
(***************************************************************************)
(* parse_body of OP_QUERY, OP_REPLY and OP_COMPRESSED on bodies of any length, *)
(* however often unwrap_body starts it again; and encode_body undone by it for *)
(* messages of any size, wrapped any number of times.                         *)
(***************************************************************************)
EXTENDS MessageBodies, WireLemmas

\* Where the cursor of an accepted body is, and what has been read with it: a query and
\* at most a selector, or the documents an OP_REPLY counted.
AllRead ==
  pc = "accepted" =>
    /\ offset = len /\ todo = 0
    /\ opcode = "Query" => Len(parsed.documents) \in {1, 2}

\* The strengthening.  A query counts no documents, and one that has been taken in full
\* has room for no third.
BodyInv ==
  /\ NeverPanics /\ AllRead /\ AcceptedIsExact
  /\ len \in Nat /\ offset \in Nat /\ offset <= len /\ todo \in Nat
  /\ pc = "head" => offset = 0 /\ todo = 0
  /\ opcode = "Query" => todo = 0
  /\ pc = "documents" => /\ parsed.documents \in Seq(Nat)
                         /\ DOMAIN parsed = {"opcode", "name", "documents"}
                         /\ parsed.opcode = opcode /\ parsed.name \in Nat
                         /\ opcode = "Query" => Len(parsed.documents) <= 2
                         /\ opcode \in {"Query", "Reply"}
                         /\ offset = BodyLen(parsed)
  /\ pc = "unwrap" => parsed.size \in Nat /\ todo = 0
  /\ pc \in {"head", "documents", "unwrap", "accepted", "rejected", "opmsg"}

\* What an encoded message may be refused for: EncodedRoundTrips' exceptions.
Refusable(m) ==
  \/ m.opcode = "Query" /\ m.name = 0
  \/ /\ m.opcode = "Compressed"
     /\ \/ ~IsEnabled(m.compressor)
        \/ m.inside.opcode = "Compressed"
        \/ BodyLen(m.inside) > MaxMsgLen

\* The record of a query or a reply.
Fields(m) == m = [opcode |-> m.opcode, name |-> m.name, documents |-> m.documents]

\* What has been read of an encoded message is a beginning of it, and the rest is counted.
RoundInv ==
  input # Arbitrary =>
    /\ input \in Messages /\ opcode = input.opcode /\ len = BodyLen(input)
    /\ pc \in {"documents", "accepted"} =>
         /\ opcode \in {"Query", "Reply"}
         /\ DOMAIN parsed = {"opcode", "name", "documents"}
         /\ parsed.opcode = opcode /\ parsed.name = input.name /\ Fields(parsed)
         /\ parsed.documents \in Seq(Nat) /\ Len(parsed.documents) <= Len(input.documents)
         /\ \A i \in 1..Len(parsed.documents) : parsed.documents[i] = input.documents[i]
         /\ opcode = "Reply" => todo = Len(input.documents) - Len(parsed.documents)
    /\ pc = "accepted" => Len(parsed.documents) = Len(input.documents)
    /\ pc = "unwrap" =>
         /\ opcode = "Compressed"
         /\ parsed.original = input.original /\ parsed.size = input.size
         /\ parsed.compressor = input.compressor /\ parsed.payload = input.payload
    /\ pc = "rejected" => Refusable(input)
    /\ pc # "opmsg"

-----------------------------------------------------------------------------
(* What encode_body writes *)

\* The three kinds of messages.
LEMMA MessageKinds ==
  ASSUME NEW m \in Messages
  PROVE  /\ m # Arbitrary
         /\ m.opcode \in {"Query", "Reply", "Compressed"}
         /\ m.opcode \in {"Query", "Reply"} =>
              /\ DOMAIN m = {"opcode", "name", "documents"} /\ Fields(m)
              /\ m.name \in Nat /\ m.documents \in Seq(Nat)
              /\ \A i \in 1..Len(m.documents) : m.documents[i] \in Nat /\ m.documents[i] >= 5
         /\ m.opcode = "Query" => Len(m.documents) \in {1, 2}
         /\ m.opcode = "Reply" => m.name = 0
         /\ m.opcode = "Compressed" =>
              /\ m.inside \in Messages /\ m.original = m.inside.opcode
              /\ m.size = BodyLen(m.inside) /\ m.payload \in Nat
              /\ m.compressor = "noop" => m.payload = m.size
<1>1. WellFormed(m) /\ m # Arbitrary
  BY MessagesAssumption
<1>2. CASE m \in [opcode : {"Query"}, name : Nat, documents : Seq(Nat)]
           /\ Len(m.documents) \in {1, 2} /\ \A i \in DOMAIN m.documents : m.documents[i] >= MIN_DOC_LEN
  BY <1>1, <1>2 DEF MIN_DOC_LEN, Fields
<1>3. CASE m \in [opcode : {"Reply"}, name : {0}, documents : Seq(Nat)]
           /\ \A i \in DOMAIN m.documents : m.documents[i] >= MIN_DOC_LEN
  BY <1>1, <1>3 DEF MIN_DOC_LEN, Fields
<1>4. CASE /\ m.opcode = "Compressed" /\ m.inside \in Messages
           /\ m.payload \in Nat /\ m \in Wrap(m.inside, m.compressor, {m.payload})
  <2>1. PICK payload \in Compress(m.compressor, BodyLen(m.inside), {m.payload}) :
          m = [opcode |-> "Compressed", original |-> m.inside.opcode, size |-> BodyLen(m.inside),
               compressor |-> m.compressor, payload |-> payload, inside |-> m.inside]
    BY <1>4 DEF Wrap
  <2>2. m.original = m.inside.opcode /\ m.size = BodyLen(m.inside) /\ m.payload = payload
    <3> DEFINE inner == m.inside
               original == m.inside.opcode
               size == BodyLen(m.inside)
               id == m.compressor
    <3>1. m = [opcode |-> "Compressed", original |-> original, size |-> size,
               compressor |-> id, payload |-> payload, inside |-> inner]
      BY <2>1
    <3> HIDE DEF inner, original, size, id
    <3>2. m.original = original /\ m.size = size /\ m.payload = payload
      BY <3>1
    <3> QED BY <3>2 DEF original, size
  <2>3. m.compressor = "noop" => payload = BodyLen(m.inside)
    BY <2>1 DEF Compress
  <2> QED BY <1>1, <1>4, <2>2, <2>3
<1> QED BY <1>1, <1>2, <1>3, <1>4 DEF WellFormed

\* Four fields and the documents behind them, one by one ...
Behind(fields, head, d) ==
  /\ DOMAIN fields = 1..(4 + Len(d)) /\ Len(fields) = 4 + Len(d)
  /\ \A i \in 1..4 : fields[i] = head[i]
  /\ \A i \in 1..Len(d) : fields[4 + i] = Field(d[i], d[i])

LEMMA HeadAndDocuments ==
  ASSUME NEW d \in Seq(Nat), NEW F, NEW head \in Seq(F), Len(head) = 4
  PROVE  Behind(head \o DocumentFields(d), head, d)
<1> DEFINE n == Len(d)
           docs == DocumentFields(d)
<1>1. n \in Nat /\ DOMAIN d = 1..n
  OBVIOUS
<1> DEFINE U == F \cup {Field(d[i], d[i]) : i \in 1..n}
<1>2. /\ docs \in Seq(U) /\ Len(docs) = n /\ DOMAIN docs = 1..n
      /\ \A i \in 1..n : docs[i] = Field(d[i], d[i])
  BY <1>1 DEF DocumentFields
<1>a. head \in Seq(U)
  OBVIOUS
<1> HIDE DEF n, docs, U
<1>b. /\ head \o docs \in Seq(U) /\ Len(head \o docs) = Len(head) + Len(docs)
      /\ \A i \in 1..(Len(head) + Len(docs)) :
           (head \o docs)[i] = IF i <= Len(head) THEN head[i] ELSE docs[i - Len(head)]
  BY <1>2, <1>a, Concatenation, Zenon
<1> DEFINE c == head \o docs
<1>c. /\ c \in Seq(U) /\ Len(c) = 4 + n
      /\ \A i \in 1..(4 + n) : c[i] = IF i <= 4 THEN head[i] ELSE docs[i - 4]
  BY <1>2, <1>b
<1> HIDE DEF c
<1>3. /\ Len(c) = 4 + n /\ DOMAIN c = 1..(4 + n)
      /\ \A i \in 1..4 : c[i] = head[i]
      /\ \A i \in 1..n : c[4 + i] = docs[i]
  <2>1. DOMAIN c = 1..(4 + n)
    BY <1>c
  <2>2. \A i \in 1..4 : c[i] = head[i]
    BY <1>c, <1>1
  <2>3. ASSUME NEW i \in 1..n PROVE c[4 + i] = docs[i]
    <3>1. 4 + i \in 1..(4 + n) /\ ~(4 + i <= 4) /\ (4 + i) - 4 = i
      BY <1>1
    <3> QED BY <1>c, <3>1
  <2> QED BY <1>c, <2>1, <2>2, <2>3
<1> QED BY <1>2, <1>3, Zenon DEF Behind, n, docs, c

LEMMA TotalBehind ==
  ASSUME NEW s, NEW t, NEW k \in Nat, TotalOf(t, 4) \in Int,
         \A i \in 1..k : t[4 + i] = s[i] /\ s[i] \in Int
  PROVE  TotalOf(t, 4 + k) = TotalOf(t, 4) + TotalOf(s, k)
  BY TotalOfShift

\* ... and where they begin.
BegunAt(fields, head, d, wa, wb, wc, we) ==
  /\ Total(Widths(fields)) = wa + wb + wc + we + Total(d)
  /\ ValuesAt(fields, wa) = {head[2].value}
  /\ ValuesAt(fields, wa + wb + wc) = {head[4].value}
  /\ \A k \in 1..Len(d) : ValuesAt(fields, wa + wb + wc + we + TotalOf(d, k - 1)) = {d[k]}

LEMMA WidthsBehind ==
  ASSUME NEW d, NEW n \in Nat, n = Len(d), NEW fields, NEW head, Behind(fields, head, d),
         NEW wa \in Nat, NEW wb \in Nat, NEW wc \in Nat, NEW we \in Nat,
         wa > 0, wb > 0, wc > 0, we > 0,
         head[1].width = wa, head[2].width = wb, head[3].width = wc, head[4].width = we,
         \A i \in 1..n : d[i] \in Nat /\ d[i] >= 5
  PROVE  BegunAt(fields, head, d, wa, wb, wc, we)
<1> DEFINE w == Widths(fields)
<1>1. /\ DOMAIN fields = 1..(4 + n) /\ Len(fields) = 4 + n
      /\ fields[1] = head[1] /\ fields[2] = head[2] /\ fields[3] = head[3] /\ fields[4] = head[4]
      /\ \A i \in 1..n : fields[4 + i] = Field(d[i], d[i])
  BY DEF Behind
<1>2. \A v, x : Field(v, x).width = x /\ Field(v, x).value = v
  BY DEF Field
<1>3. \A i \in 1..(4 + n) : w[i] = fields[i].width
  BY <1>1 DEF Widths
<1>4. Len(w) = 4 + n
  BY <1>1 DEF Widths
<1> HIDE DEF w
<1>5. /\ w[1] = wa /\ w[2] = wb /\ w[3] = wc /\ w[4] = we
      /\ \A i \in 1..n : w[4 + i] = d[i]
  <2>1. w[1] = wa /\ w[2] = wb /\ w[3] = wc /\ w[4] = we
    <3>1. 1 \in 1..(4 + n) /\ 2 \in 1..(4 + n) /\ 3 \in 1..(4 + n) /\ 4 \in 1..(4 + n)
      OBVIOUS
    <3>2. w[1] = fields[1].width /\ w[2] = fields[2].width /\ w[3] = fields[3].width
          /\ w[4] = fields[4].width
      BY <1>3, <3>1
    <3> QED BY <1>1, <3>2
  <2>2. ASSUME NEW i \in 1..n PROVE w[4 + i] = d[i]
    <3>1. 4 + i \in 1..(4 + n)
      OBVIOUS
    <3>2. w[4 + i] = fields[4 + i].width /\ fields[4 + i] = Field(d[i], d[i])
      BY <1>1, <1>3, <3>1
    <3> QED BY <1>2, <3>2
  <2> QED BY <2>1, <2>2
<1>6. \A i \in 1..(4 + n) : fields[i].width \in Nat /\ fields[i].width > 0
  <2> TAKE i \in 1..(4 + n)
  <2>1. CASE i \in {1, 2, 3, 4}
    BY <1>1, <2>1
  <2>2. CASE i \notin {1, 2, 3, 4}
    <3> DEFINE j == i - 4
    <3>1. j \in 1..n /\ i = 4 + j
      BY <2>2
    <3> HIDE DEF j
    <3>2. w[4 + j] = d[j] /\ d[j] \in Nat /\ d[j] >= 5
      BY <1>5, <3>1
    <3>3. fields[i].width = d[j]
      BY <1>3, <3>1, <3>2
    <3> QED BY <3>2, <3>3
  <2> QED BY <2>1, <2>2
<1>7. /\ TotalOf(w, 1) = wa /\ TotalOf(w, 2) = wa + wb /\ TotalOf(w, 3) = wa + wb + wc
      /\ TotalOf(w, 4) = wa + wb + wc + we
  <2>1. TotalOf(w, 0) = 0
    BY TotalOfStep
  <2>2. TotalOf(w, 0 + 1) = TotalOf(w, 0) + w[0 + 1] /\ TotalOf(w, 1 + 1) = TotalOf(w, 1) + w[1 + 1]
    BY TotalOfStep, Zenon
  <2>3. TotalOf(w, 2 + 1) = TotalOf(w, 2) + w[2 + 1] /\ TotalOf(w, 3 + 1) = TotalOf(w, 3) + w[3 + 1]
    BY TotalOfStep, Zenon
  <2>4. 0 + 1 = 1 /\ 1 + 1 = 2 /\ 2 + 1 = 3 /\ 3 + 1 = 4
    OBVIOUS
  <2>5. TotalOf(w, 1) = wa
    BY <2>1, <2>2, <2>4, <1>5
  <2>6. TotalOf(w, 2) = wa + wb
    BY <2>5, <2>2, <2>4, <1>5
  <2>7. TotalOf(w, 3) = wa + wb + wc
    BY <2>6, <2>3, <2>4, <1>5
  <2>8. TotalOf(w, 4) = wa + wb + wc + we
    BY <2>7, <2>3, <2>4, <1>5
  <2> QED BY <2>5, <2>6, <2>7, <2>8
<1>8. \A k \in 0..n : TotalOf(w, 4 + k) = wa + wb + wc + we + TotalOf(d, k)
  <2> TAKE k \in 0..n
  <2>a. k \in Nat /\ \A i \in 1..k : i \in 1..n
    BY <1>5
  <2>b. \A i \in 1..n : w[4 + i] = d[i] /\ d[i] \in Int
    BY <1>5
  <2>c. TotalOf(w, 4) \in Int
    BY <1>7
  <2>1. k \in Nat /\ TotalOf(w, 4) \in Int /\ \A i \in 1..k : w[4 + i] = d[i] /\ d[i] \in Int
    BY <2>a, <2>b, <2>c, Zenon
  <2>2. TotalOf(w, 4 + k) = TotalOf(w, 4) + TotalOf(d, k)
    BY <2>1, TotalBehind, Zenon
  <2> QED BY <1>7, <2>2
<1>9. Total(w) = wa + wb + wc + we + Total(d)
  BY <1>4, <1>8 DEF Total
<1>10. \A k \in 1..(4 + n) : ValuesAt(fields, TotalOf(w, k - 1)) = {fields[k].value}
  <2> DEFINE N == 4 + n
  <2>1. N \in Nat /\ DOMAIN fields = 1..N /\ (\A i \in 1..N : fields[i].width \in Nat)
        /\ \A i \in 1..(N - 1) : fields[i].width > 0
    BY <1>1, <1>6
  <2> HIDE DEF N
  <2>2. \A k \in 1..N : ValuesAt(fields, TotalOf(w, k - 1)) = {fields[k].value}
    BY <2>1, ValuesAtStart, Zenon DEF w
  <2> QED BY <2>2 DEF N
<1>11. ValuesAt(fields, wa) = {head[2].value} /\ ValuesAt(fields, wa + wb + wc) = {head[4].value}
  <2>0. 2 \in 1..(4 + n) /\ 4 \in 1..(4 + n)
    BY <1>5
  <2>1. ValuesAt(fields, TotalOf(w, 2 - 1)) = {fields[2].value}
    BY <1>10, <2>0, Zenon
  <2>2. ValuesAt(fields, TotalOf(w, 4 - 1)) = {fields[4].value}
    BY <1>10, <2>0, Zenon
  <2>3. 2 - 1 = 1 /\ 4 - 1 = 3
    OBVIOUS
  <2> QED BY <1>1, <1>7, <2>1, <2>2, <2>3
<1>12. ASSUME NEW k \in 1..n
       PROVE  ValuesAt(fields, wa + wb + wc + we + TotalOf(d, k - 1)) = {d[k]}
  <2>1. 4 + k \in 1..(4 + n) /\ (4 + k) - 1 = 4 + (k - 1) /\ k - 1 \in 0..n
    OBVIOUS
  <2>2. ValuesAt(fields, TotalOf(w, 4 + (k - 1))) = {fields[4 + k].value}
    BY <1>10, <2>1, Zenon
  <2>3. fields[4 + k].value = d[k]
    BY <1>1, <1>2
  <2> QED BY <1>8, <2>1, <2>2, <2>3, Zenon
<1> QED BY <1>9, <1>11, <1>12 DEF w, BegunAt

LEMMA DocumentsBehind ==
  ASSUME NEW d \in Seq(Nat), NEW fields, NEW head, Behind(fields, head, d),
         \A i \in 1..4 : head[i].width \in Nat /\ head[i].width > 0,
         \A i \in 1..Len(d) : d[i] \in Nat /\ d[i] >= 5
  PROVE  BegunAt(fields, head, d, head[1].width, head[2].width, head[3].width, head[4].width)
<1> DEFINE n == Len(d)
           wa == head[1].width
           wb == head[2].width
           wc == head[3].width
           we == head[4].width
<1>1. n \in Nat /\ n = Len(d) /\ \A i \in 1..n : d[i] \in Nat /\ d[i] >= 5
  OBVIOUS
<1>2. /\ head[1].width = wa /\ head[2].width = wb /\ head[3].width = wc /\ head[4].width = we
      /\ wa \in Nat /\ wb \in Nat /\ wc \in Nat /\ we \in Nat
      /\ wa > 0 /\ wb > 0 /\ wc > 0 /\ we > 0
  OBVIOUS
<1> HIDE DEF n, wa, wb, wc, we
<1>3. BegunAt(fields, head, d, wa, wb, wc, we)
  BY <1>1, <1>2, WidthsBehind, Zenon
<1> QED BY <1>3 DEF wa, wb, wc, we

\* An encoded OP_QUERY is body_len() bytes, and what parse_body looks for is where it looks.
LEMMA EncodedQuery ==
  ASSUME NEW m \in Messages, m.opcode = "Query"
  PROVE  /\ Written(m) = BodyLen(m) /\ BodyLen(m) = 13 + m.name + Total(m.documents)
         /\ ValuesAt(EncodeBody(m), 4) = {m.name}
         /\ \A k \in 1..Len(m.documents) :
              ValuesAt(EncodeBody(m), 13 + m.name + TotalOf(m.documents, k - 1)) = {m.documents[k]}
<1> DEFINE d == m.documents
           name == m.name
           n == Len(m.documents)
           head == <<Field("flags", 4), Field(name, name + 1), Field("skip", 4), Field("return", 4)>>
           F == {Field("flags", 4), Field(name, name + 1), Field("skip", 4), Field("return", 4)}
           fields == EncodeBody(m)
<1>1. /\ d \in Seq(Nat) /\ name \in Nat /\ n \in Nat /\ n = Len(d)
      /\ \A i \in 1..n : d[i] \in Nat /\ d[i] >= 5
  BY MessageKinds
<1>2. fields = head \o DocumentFields(d)
  BY DEF EncodeBody, EncodeQuery
<1>3. head \in Seq(F) /\ Len(head) = 4
  OBVIOUS
<1>4. /\ head[1] = Field("flags", 4) /\ head[2] = Field(name, name + 1)
      /\ head[3] = Field("skip", 4) /\ head[4] = Field("return", 4)
  OBVIOUS
<1>5. BodyLen(m) = 12 + name + 1 + Total(d)
  BY DEF BodyLen, QueryLen
<1> HIDE DEF d, name, n, head, F, fields
<1>6. Behind(fields, head, d)
  BY <1>1, <1>2, <1>3, HeadAndDocuments
<1> DEFINE wb == name + 1
<1>7. /\ head[1].width = 4 /\ head[2].width = wb /\ head[3].width = 4 /\ head[4].width = 4
      /\ head[2].value = name
  BY <1>4 DEF Field
<1>8. wb \in Nat /\ wb > 0 /\ wb = name + 1 /\ 4 \in Nat /\ 4 > 0
  BY <1>1
<1> HIDE DEF wb
<1>9. /\ Total(Widths(fields)) = 4 + wb + 4 + 4 + Total(d)
      /\ ValuesAt(fields, 4) = {head[2].value}
      /\ \A k \in 1..n : ValuesAt(fields, 4 + wb + 4 + 4 + TotalOf(d, k - 1)) = {d[k]}
  <2>1. \A i \in 1..4 : head[i].width \in Nat /\ head[i].width > 0
    <3>1. \A i \in 1..4 : i = 1 \/ i = 2 \/ i = 3 \/ i = 4
      OBVIOUS
    <3> QED BY <1>7, <1>8, <3>1
  <2>2. BegunAt(fields, head, d, head[1].width, head[2].width, head[3].width, head[4].width)
    BY <1>1, <1>6, <2>1, DocumentsBehind
  <2> QED BY <1>1, <1>7, <2>2 DEF BegunAt
<1>10. Total(d) \in Nat /\ 4 + wb + 4 + 4 = 13 + name
  BY <1>1, <1>8, TotalType
<1>11. Written(m) = Total(Widths(fields))
  BY DEF Written, fields
<1>12. /\ Written(m) = 13 + name + Total(d) /\ BodyLen(m) = 13 + name + Total(d)
       /\ ValuesAt(fields, 4) = {name}
       /\ \A k \in 1..n : ValuesAt(fields, 13 + name + TotalOf(d, k - 1)) = {d[k]}
  <2>1. Written(m) = 13 + name + Total(d) /\ BodyLen(m) = 13 + name + Total(d)
    BY <1>1, <1>5, <1>9, <1>10, <1>11
  <2>2. ValuesAt(fields, 4) = {name}
    BY <1>7, <1>9
  <2>3. ASSUME NEW k \in 1..n
        PROVE  ValuesAt(fields, 13 + name + TotalOf(d, k - 1)) = {d[k]}
    BY <1>9, <1>10
  <2> QED BY <2>1, <2>2, <2>3
<1> QED BY <1>12 DEF d, name, n, fields

\* The same of OP_REPLY ...
LEMMA EncodedReply ==
  ASSUME NEW m \in Messages, m.opcode = "Reply"
  PROVE  /\ Written(m) = BodyLen(m) /\ BodyLen(m) = 20 + Total(m.documents)
         /\ ValuesAt(EncodeBody(m), 16) = {Len(m.documents)}
         /\ \A k \in 1..Len(m.documents) :
              ValuesAt(EncodeBody(m), 20 + TotalOf(m.documents, k - 1)) = {m.documents[k]}
<1> DEFINE d == m.documents
           n == Len(m.documents)
           head == <<Field("flags", 4), Field("cursor", 8), Field("from", 4), Field(n, 4)>>
           F == {Field("flags", 4), Field("cursor", 8), Field("from", 4), Field(n, 4)}
           fields == EncodeBody(m)
<1>1. /\ d \in Seq(Nat) /\ n \in Nat /\ n = Len(d)
      /\ \A i \in 1..n : d[i] \in Nat /\ d[i] >= 5
  BY MessageKinds
<1>2. fields = head \o DocumentFields(d)
  BY DEF EncodeBody, EncodeReply
<1>3. head \in Seq(F) /\ Len(head) = 4
  OBVIOUS
<1>4. /\ head[1] = Field("flags", 4) /\ head[2] = Field("cursor", 8)
      /\ head[3] = Field("from", 4) /\ head[4] = Field(n, 4)
  OBVIOUS
<1>5. BodyLen(m) = 20 + Total(d)
  BY DEF BodyLen, ReplyLen
<1> HIDE DEF d, n, head, F, fields
<1>6. Behind(fields, head, d)
  BY <1>1, <1>2, <1>3, HeadAndDocuments
<1>7. /\ head[1].width = 4 /\ head[2].width = 8 /\ head[3].width = 4 /\ head[4].width = 4
      /\ head[4].value = n
  BY <1>4 DEF Field
<1>8. /\ Total(Widths(fields)) = 4 + 8 + 4 + 4 + Total(d)
      /\ ValuesAt(fields, 4 + 8 + 4) = {head[4].value}
      /\ \A k \in 1..n : ValuesAt(fields, 4 + 8 + 4 + 4 + TotalOf(d, k - 1)) = {d[k]}
  <2>1. \A i \in 1..4 : head[i].width \in Nat /\ head[i].width > 0
    <3>1. \A i \in 1..4 : i = 1 \/ i = 2 \/ i = 3 \/ i = 4
      OBVIOUS
    <3> QED BY <1>7, <3>1
  <2>2. BegunAt(fields, head, d, head[1].width, head[2].width, head[3].width, head[4].width)
    BY <1>1, <1>6, <2>1, DocumentsBehind
  <2> QED BY <1>1, <1>7, <2>2 DEF BegunAt
<1>9. Total(d) \in Nat /\ 4 + 8 + 4 + 4 = 20 /\ 4 + 8 + 4 = 16
  BY <1>1, TotalType
<1>10. Written(m) = Total(Widths(fields))
  BY DEF Written, fields
<1>11. /\ Written(m) = 20 + Total(d) /\ BodyLen(m) = 20 + Total(d)
       /\ ValuesAt(fields, 16) = {n}
       /\ \A k \in 1..n : ValuesAt(fields, 20 + TotalOf(d, k - 1)) = {d[k]}
  BY <1>5, <1>7, <1>8, <1>9, <1>10
<1> QED BY <1>11 DEF d, n, fields

\* ... and of OP_COMPRESSED, whose payload may be empty.
LEMMA EncodedCompressed ==
  ASSUME NEW m \in Messages, m.opcode = "Compressed"
  PROVE  /\ Written(m) = BodyLen(m) /\ BodyLen(m) = 9 + m.payload
         /\ ValuesAt(EncodeBody(m), 0) = {m.original}
         /\ ValuesAt(EncodeBody(m), 4) = {m.size}
         /\ ValuesAt(EncodeBody(m), 8) = {m.compressor}
<1> DEFINE original == m.original
           size == m.size
           id == m.compressor
           payload == m.payload
           fields == EncodeBody(m)
           w == Widths(fields)
<1>1. payload \in Nat
  BY MessageKinds
<1>2. fields = <<Field(original, 4), Field(size, 4), Field(id, 1), Field("payload", payload)>>
  BY DEF EncodeBody, EncodeCompressed
<1>3. BodyLen(m) = 4 + 4 + 1 + payload
  BY DEF BodyLen, CompressedLen
<1>4. Written(m) = Total(w)
  BY DEF Written
<1> HIDE DEF original, size, id, payload, fields, w
<1>5. /\ DOMAIN fields = 1..4 /\ Len(fields) = 4
      /\ fields[1] = Field(original, 4) /\ fields[2] = Field(size, 4) /\ fields[3] = Field(id, 1)
      /\ fields[4] = Field("payload", payload)
  BY <1>2
<1>6. /\ fields[1].width = 4 /\ fields[2].width = 4 /\ fields[3].width = 1
      /\ fields[4].width = payload
      /\ fields[1].value = original /\ fields[2].value = size /\ fields[3].value = id
  BY <1>5 DEF Field
<1>7. Len(w) = 4 /\ w[1] = 4 /\ w[2] = 4 /\ w[3] = 1 /\ w[4] = payload
  BY <1>5, <1>6 DEF w, Widths
<1>8. /\ TotalOf(w, 0) = 0 /\ TotalOf(w, 1) = 4 /\ TotalOf(w, 2) = 8 /\ TotalOf(w, 3) = 9
      /\ TotalOf(w, 4) = 9 + payload
  <2>1. TotalOf(w, 0) = 0
    BY TotalOfStep
  <2>2. TotalOf(w, 0 + 1) = TotalOf(w, 0) + w[0 + 1] /\ TotalOf(w, 1 + 1) = TotalOf(w, 1) + w[1 + 1]
    BY TotalOfStep
  <2>3. TotalOf(w, 2 + 1) = TotalOf(w, 2) + w[2 + 1] /\ TotalOf(w, 3 + 1) = TotalOf(w, 3) + w[3 + 1]
    BY TotalOfStep
  <2> QED BY <2>1, <2>2, <2>3, <1>1, <1>7
<1>9. \A k \in 1..4 : ValuesAt(fields, TotalOf(w, k - 1)) = {fields[k].value}
  <2> DEFINE N == 4
  <2>1. N \in Nat /\ DOMAIN fields = 1..N /\ (\A i \in 1..N : fields[i].width \in Nat)
        /\ \A i \in 1..(N - 1) : fields[i].width > 0
    <3>1. \A i \in 1..4 : i = 1 \/ i = 2 \/ i = 3 \/ i = 4
      OBVIOUS
    <3> QED BY <1>1, <1>5, <1>6, <3>1
  <2> HIDE DEF N
  <2>2. \A k \in 1..N : ValuesAt(fields, TotalOf(w, k - 1)) = {fields[k].value}
    BY <2>1, ValuesAtStart DEF w
  <2> QED BY <2>2 DEF N
<1>10. /\ ValuesAt(fields, 0) = {original} /\ ValuesAt(fields, 4) = {size}
       /\ ValuesAt(fields, 8) = {id}
  <2>1. /\ ValuesAt(fields, TotalOf(w, 1 - 1)) = {fields[1].value}
        /\ ValuesAt(fields, TotalOf(w, 2 - 1)) = {fields[2].value}
        /\ ValuesAt(fields, TotalOf(w, 3 - 1)) = {fields[3].value}
    BY <1>9
  <2>2. 1 - 1 = 0 /\ 2 - 1 = 1 /\ 3 - 1 = 2
    OBVIOUS
  <2> QED BY <1>6, <1>8, <2>1, <2>2
<1>11. Written(m) = 9 + payload /\ BodyLen(m) = 9 + payload
  BY <1>1, <1>3, <1>4, <1>7, <1>8 DEF Total
<1> QED BY <1>10, <1>11 DEF original, size, id, payload, fields

\* encode_body writes as many bytes as body_len() announces.
LEMMA WrittenLen ==
  ASSUME NEW m \in Messages
  PROVE  Written(m) = BodyLen(m) /\ BodyLen(m) \in Nat
<1>1. m.opcode \in {"Query", "Reply", "Compressed"}
  BY MessageKinds
<1>2. CASE m.opcode = "Query"
  <2>1. m.name \in Nat /\ Total(m.documents) \in Nat
    BY <1>2, MessageKinds, TotalType
  <2> QED BY <1>2, <2>1, EncodedQuery
<1>3. CASE m.opcode = "Reply"
  <2>1. Total(m.documents) \in Nat
    BY <1>3, MessageKinds, TotalType
  <2> QED BY <1>3, <2>1, EncodedReply
<1>4. CASE m.opcode = "Compressed"
  <2>1. m.payload \in Nat
    BY <1>4, MessageKinds
  <2> QED BY <1>4, <2>1, EncodedCompressed
<1> QED BY <1>1, <1>2, <1>3, <1>4

-----------------------------------------------------------------------------
(* Arbitrary bodies *)

\* A body is parsed from its first byte.
LEMMA InitBody == Init => BodyInv
<1> SUFFICES ASSUME Init PROVE BodyInv
  OBVIOUS
<1>1. len \in Nat
  BY BoundsAssumption, WrittenLen DEF Init
<1> QED
  BY <1>1 DEF Init, BodyInv, NeverPanics, AllRead, AcceptedIsExact

\* An error return keeps the invariant.
LEMMA RejectBody == BodyInv /\ Goto("rejected") => BodyInv'
  BY DEF BodyInv, Goto, NeverPanics, AllRead, AcceptedIsExact

\* The head of an OP_QUERY ends within the body.
LEMMA QueryHeadBody == BodyInv /\ QueryHead => BodyInv'
<1> SUFFICES ASSUME BodyInv, QueryHead PROVE BodyInv'
  OBVIOUS
<1>1. CASE Goto("rejected")
  BY <1>1, RejectBody
<1>2. ASSUME NEW name \in 0..(len - 5), ~(len - (4 + name + 1) < 8),
             offset' = 4 + name + 1 + 8,
             parsed' = [opcode |-> "Query", name |-> name, documents |-> << >>],
             pc' = "documents", UNCHANGED <<input, opcode, len, todo>>
      PROVE  BodyInv'
  <2>1. offset' \in Nat /\ offset' <= len
    BY <1>2 DEF BodyInv
  <2>2. /\ parsed'.documents = << >> /\ DOMAIN parsed' = {"opcode", "name", "documents"}
        /\ parsed'.documents \in Seq(Nat) /\ Len(parsed'.documents) = 0
    BY <1>2
  <2>3. parsed'.opcode = "Query" /\ parsed'.name = name /\ name \in Nat
    BY <1>2
  <2>4. BodyLen(parsed') = 12 + name + 1 + Total(<< >>)
    BY <2>2, <2>3, Zenon DEF BodyLen, QueryLen
  <2>5. offset' = BodyLen(parsed')
    BY <1>2, <2>3, <2>4, TotalType
  <2> QED
    BY <1>2, <2>1, <2>2, <2>3, <2>5 DEF BodyInv, NeverPanics, AllRead, AcceptedIsExact, QueryHead
<1> QED
  BY <1>1, <1>2 DEF QueryHead, RefuseBytes

\* The head of an OP_REPLY is 20 bytes; the count is not negative.
LEMMA ReplyHeadBody == BodyInv /\ ReplyHead => BodyInv'
<1> SUFFICES ASSUME BodyInv, ReplyHead PROVE BodyInv'
  OBVIOUS
<1>1. CASE Goto("rejected")
  BY <1>1, RejectBody
<1>2. ASSUME NEW count \in Int, ~(Remaining < 20), ~(count < 0), offset' = 20, todo' = count,
             parsed' = [opcode |-> "Reply", name |-> 0, documents |-> << >>],
             pc' = "documents", UNCHANGED <<input, opcode, len>>
      PROVE  BodyInv'
  <2>1. offset' \in Nat /\ offset' <= len /\ todo' \in Nat
    BY <1>2 DEF BodyInv, Remaining
  <2>2. /\ parsed'.documents = << >> /\ DOMAIN parsed' = {"opcode", "name", "documents"}
        /\ parsed'.documents \in Seq(Nat) /\ Len(parsed'.documents) = 0
    BY <1>2
  <2>3. parsed'.opcode = "Reply" /\ parsed'.name = 0
    BY <1>2
  <2>4. BodyLen(parsed') = 20 + Total(<< >>)
    BY <2>2, <2>3, Zenon DEF BodyLen, ReplyLen
  <2>5. offset' = BodyLen(parsed')
    BY <1>2, <2>4, TotalType
  <2> QED
    BY <1>2, <2>1, <2>2, <2>3, <2>5 DEF BodyInv, NeverPanics, AllRead, AcceptedIsExact, ReplyHead
<1> QED
  BY <1>1, <1>2 DEF ReplyHead, IntAt

\* take_document slices only what is left of the body.
LEMMA DocumentBody == BodyInv /\ pc = "documents" /\ WantsMore /\ TakeDocument => BodyInv'
<1> SUFFICES ASSUME BodyInv, pc = "documents", WantsMore, TakeDocument PROVE BodyInv'
  OBVIOUS
<1>1. CASE Goto("rejected")
  BY <1>1, RejectBody
<1>2. ASSUME NEW doc \in Int, ~BadLength(doc),
             IF offset + doc > len THEN Goto("panicked")
             ELSE /\ offset' = offset + doc
                  /\ parsed' = [parsed EXCEPT !.documents = Append(@, doc)]
                  /\ todo' = IF todo > 0 THEN todo - 1 ELSE todo
                  /\ UNCHANGED <<input, opcode, len, pc>>
      PROVE  BodyInv'
  <2>1. doc \in Nat /\ offset + doc <= len /\ ~(offset + doc > len)
    BY <1>2 DEF BodyInv, BadLength, MIN_DOC_LEN, Remaining
  <2>2. /\ offset' = offset + doc
        /\ parsed' = [parsed EXCEPT !.documents = Append(@, doc)]
        /\ todo' = IF todo > 0 THEN todo - 1 ELSE todo
        /\ UNCHANGED <<input, opcode, len, pc>>
    BY <1>2, <2>1
  <2>3. /\ DOMAIN parsed' = {"opcode", "name", "documents"}
        /\ parsed'.documents = Append(parsed.documents, doc)
    BY <2>2 DEF BodyInv
  <2>4. parsed'.documents \in Seq(Nat) /\ Len(parsed'.documents) = Len(parsed.documents) + 1
    BY <2>1, <2>3 DEF BodyInv
  <2>5. opcode = "Query" => Len(parsed.documents) <= 1
    <3>1. opcode = "Query" => parsed.documents = << >> \/ Len(parsed.documents) = 1
      BY Zenon DEF WantsMore, QueryWantsMore
    <3> DEFINE d == parsed.documents
    <3>2. d \in Seq(Nat) /\ (opcode = "Query" => d = << >> \/ Len(d) = 1)
      BY <3>1 DEF BodyInv
    <3> HIDE DEF d
    <3>3. opcode = "Query" => Len(d) <= 1
      BY <3>2
    <3> QED
      BY <3>3 DEF d
  <2>6. parsed'.opcode = opcode /\ parsed.opcode = opcode /\ parsed'.name = parsed.name
        /\ parsed.name \in Nat /\ opcode \in {"Query", "Reply"}
    BY <2>2 DEF BodyInv
  <2>7. BodyLen(parsed') = BodyLen(parsed) + doc
    <3>1. parsed.documents \in Seq(Int) /\ parsed.documents \in Seq(Nat)
      BY DEF BodyInv
    <3>2. Total(parsed'.documents) = Total(parsed.documents) + doc
      BY <2>1, <2>3, <3>1, TotalAppend
    <3>3. Total(parsed.documents) \in Nat
      BY <3>1, TotalType
    <3> QED
      BY <2>1, <2>6, <3>2, <3>3 DEF BodyLen, QueryLen, ReplyLen
  <2>8. offset' = BodyLen(parsed')
    BY <2>2, <2>7 DEF BodyInv
  <2> QED
    BY <2>1, <2>2, <2>3, <2>4, <2>5, <2>6, <2>8 DEF BodyInv, NeverPanics, AllRead, AcceptedIsExact
<1> QED
  BY <1>1, <1>2 DEF TakeDocument, RefuseBytes, IntAt

\* The end of the documents.
LEMMA DocumentsBody == BodyInv /\ Documents => BodyInv'
<1> SUFFICES ASSUME BodyInv, Documents PROVE BodyInv'
  OBVIOUS
<1>1. CASE WantsMore
  BY <1>1, DocumentBody DEF Documents
<1>2. CASE ~WantsMore /\ Trailing
  BY <1>2, RejectBody DEF Documents
<1>3. CASE ~WantsMore /\ ~Trailing
  <2>1. Goto("accepted")
    BY <1>3 DEF Documents
  <2>2. offset = len
    BY <1>3 DEF Trailing, Remaining, BodyInv
  <2>3. todo = 0
    BY <1>3 DEF WantsMore, BodyInv, Documents
  <2>4. opcode = "Query" => Len(parsed.documents) \in {1, 2}
    <3>1. parsed.documents \in Seq(Nat) /\ (opcode = "Query" => Len(parsed.documents) <= 2)
      BY DEF BodyInv, Documents
    <3>2. opcode = "Query" => parsed.documents # << >>
      BY <1>3, Zenon DEF WantsMore, QueryWantsMore
    <3> DEFINE d == parsed.documents
    <3>3. d \in Seq(Nat) /\ (opcode = "Query" => d # << >> /\ Len(d) <= 2)
      BY <3>1, <3>2
    <3> HIDE DEF d
    <3>4. opcode = "Query" => Len(d) \in Nat /\ Len(d) # 0
      BY <3>3
    <3>5. \A n \in Nat : n # 0 /\ n <= 2 => n \in {1, 2}
      OBVIOUS
    <3>6. opcode = "Query" => Len(d) \in {1, 2}
      BY <3>3, <3>4, <3>5, Zenon
    <3> QED
      BY <3>6, Zenon DEF d
  <2>5. BodyLen(parsed) = len /\ parsed' = parsed /\ len' = len
    BY <2>1, <2>2 DEF BodyInv, Documents, Goto
  <2>6. BodyLen(parsed') = len'
    BY <2>5
  <2> QED
    BY <2>1, <2>2, <2>3, <2>4, <2>6 DEF Goto, BodyInv, NeverPanics, AllRead, AcceptedIsExact
<1> QED
  BY <1>1, <1>2, <1>3

\* The payload of OP_COMPRESSED is the rest of the body.
LEMMA CompressedBody == BodyInv /\ ParseCompressed => BodyInv'
<1> SUFFICES ASSUME BodyInv, ParseCompressed PROVE BodyInv'
  OBVIOUS
<1>1. CASE Goto("rejected")
  BY <1>1, RejectBody
<1>2. ASSUME NEW original, NEW size \in Int, NEW id, ~(size < 0), offset' = len,
             parsed' = [opcode |-> "Compressed", original |-> original, size |-> size,
                        compressor |-> id, payload |-> len - 9],
             pc' = "unwrap", UNCHANGED <<input, opcode, len, todo>>
      PROVE  BodyInv'
  <2>1. parsed'.size \in Nat
    BY <1>2
  <2> QED
    BY <1>2, <2>1 DEF BodyInv, NeverPanics, AllRead, AcceptedIsExact, ParseCompressed
<1> QED
  BY <1>1, <1>2 DEF ParseCompressed, RefuseBytes, IntAt

\* unwrap_body starts again with a body of the announced length.
LEMMA UnwrapBody == BodyInv /\ Unwrap => BodyInv'
<1> SUFFICES ASSUME BodyInv, Unwrap PROVE BodyInv'
  OBVIOUS
<1>1. CASE Goto("rejected")
  BY <1>1, RejectBody
<1>2. CASE Goto("opmsg")
  BY <1>2 DEF BodyInv, Goto, NeverPanics, AllRead, AcceptedIsExact
<1>3. ASSUME NEW out, out = parsed.size, len' = out, offset' = 0, todo' = 0, parsed' = << >>,
             pc' = "head"
      PROVE  BodyInv'
  <2>1. len' \in Nat
    BY <1>3 DEF BodyInv, Unwrap
  <2> QED
    BY <1>3, <2>1 DEF BodyInv, NeverPanics, AllRead, AcceptedIsExact
<1> QED
  BY <1>1, <1>2, <1>3 DEF Unwrap, RefuseBytes

\* The invariant of all three parsers.
LEMMA BodyInvariant == Spec => []BodyInv
<1>1. BodyInv /\ [Next]_vars => BodyInv'
  <2> SUFFICES ASSUME BodyInv, [Next]_vars PROVE BodyInv'
    OBVIOUS
  <2>1. CASE UNCHANGED vars
    BY <2>1 DEF vars, BodyInv, NeverPanics, AllRead, AcceptedIsExact
  <2>2. CASE Next
    BY <2>2, QueryHeadBody, ReplyHeadBody, DocumentsBody, CompressedBody, UnwrapBody DEF Next
  <2> QED
    BY <2>1, <2>2
<1> QED
  BY <1>1, InitBody, PTL DEF Spec

\* take_document never slices outside a body of any length, also in what
\* OP_COMPRESSED unwraps to (op_query.rs:55-56).
THEOREM BodiesNeverPanic == Spec => []NeverPanics
<1>1. BodyInv => NeverPanics
  BY DEF BodyInv
<1> QED
  BY <1>1, BodyInvariant, PTL

\* parse_body accepts a body of any length only with its last byte read, an OP_REPLY only
\* with all the documents it counted and an OP_QUERY with one or two.
THEOREM BodiesAllRead == Spec => []AllRead
<1>1. BodyInv => AllRead
  BY DEF BodyInv
<1> QED
  BY <1>1, BodyInvariant, PTL

\* The body that parse_body accepts has body_len() bytes when it is encoded again, whatever
\* its length and however often it was wrapped; an OP_REPLY holds what it counted.
THEOREM BodiesExact == Spec => []AcceptedIsExact
<1>1. BodyInv => AcceptedIsExact
  BY DEF BodyInv
<1> QED
  BY <1>1, BodyInvariant, PTL
-----------------------------------------------------------------------------
(* Encoded messages *)

\* The cursor behind k of the n documents d.
AtDocument(d, k, n) ==
  /\ n \in Nat /\ k \in 0..n
  /\ k = n => offset = len
  /\ k < n => /\ offset < len
              /\ d[k + 1] \in Nat /\ d[k + 1] >= 5 /\ offset + d[k + 1] <= len
              /\ \A any : IntAt(offset, any) = {d[k + 1]}

\* A sum of the first documents of a message, and where the one behind them lies.
LEMMA DocumentAt ==
  ASSUME NEW d \in Seq(Nat), NEW e \in Seq(Nat), NEW base \in Nat, input # Arbitrary,
         \A i \in 1..Len(d) : d[i] \in Nat /\ d[i] >= 5,
         Len(e) <= Len(d), \A i \in 1..Len(e) : e[i] = d[i],
         offset = base + Total(e), len = base + Total(d),
         \A i \in 1..Len(d) : ValuesAt(EncodeBody(input), base + TotalOf(d, i - 1)) = {d[i]}
  PROVE  AtDocument(d, Len(e), Len(d))
<1> DEFINE n == Len(d)
           k == Len(e)
<1>1. n \in Nat /\ k \in Nat /\ k \in 0..n /\ \A i \in 1..n : d[i] \in Nat /\ d[i] > 0
  OBVIOUS
<1>2. /\ \A i \in 1..k : e[i] = d[i]
      /\ offset = base + TotalOf(e, k) /\ len = base + TotalOf(d, n)
  BY DEF Total
<1> HIDE DEF n, k
<1>3. TotalOf(e, k) = TotalOf(d, k)
  BY <1>1, <1>2, TotalOfSame
<1>4. k = n => offset = len
  BY <1>2, <1>3
<1>5. ASSUME k < n
      PROVE  /\ offset < len
             /\ d[k + 1] \in Nat /\ d[k + 1] >= 5 /\ offset + d[k + 1] <= len
             /\ \A any : IntAt(offset, any) = {d[k + 1]}
  <2>1. k + 1 \in 1..n /\ k + 1 \in 0..n /\ (k + 1) - 1 = k
    BY <1>1, <1>5
  <2>2. d[k + 1] \in Nat /\ d[k + 1] >= 5
    BY <2>1 DEF n
  <2>3. /\ TotalOf(d, k) \in Nat /\ TotalOf(d, k + 1) \in Nat /\ TotalOf(d, n) \in Nat
        /\ TotalOf(d, k + 1) <= TotalOf(d, n)
    BY <1>1, <2>1, TotalOfNat, Zenon
  <2>4. TotalOf(d, k + 1) = TotalOf(d, k) + d[k + 1]
    BY <1>1, TotalOfStep, Zenon
  <2>5. offset + d[k + 1] <= len /\ offset < len
    <3>1. \A x, y, z, doc \in Nat : y <= z /\ y = x + doc /\ doc >= 5 =>
            (base + x) + doc <= base + z /\ base + x < base + z
      OBVIOUS
    <3>2. offset = base + TotalOf(d, k) /\ len = base + TotalOf(d, n)
      BY <1>2, <1>3
    <3>3. /\ (base + TotalOf(d, k)) + d[k + 1] <= base + TotalOf(d, n)
          /\ base + TotalOf(d, k) < base + TotalOf(d, n)
      BY <2>2, <2>3, <2>4, <3>1, Zenon
    <3> QED BY <3>2, <3>3, Zenon
  <2>6. ValuesAt(EncodeBody(input), base + TotalOf(d, (k + 1) - 1)) = {d[k + 1]}
    BY <2>1 DEF n
  <2>7. ValuesAt(EncodeBody(input), offset) = {d[k + 1]}
    BY <1>2, <1>3, <2>1, <2>6
  <2>8. ASSUME NEW any
        PROVE  IntAt(offset, any) = {d[k + 1]}
    BY <2>2, <2>7 DEF IntAt, At
  <2> QED BY <2>2, <2>5, <2>8
<1>6. AtDocument(d, k, n)
  BY <1>1, <1>4, <1>5 DEF AtDocument
<1> QED BY <1>6 DEF n, k

\* The documents of a query begin behind its name, those of a reply at 20.
LEMMA CursorAt ==
  ASSUME BodyInv, RoundInv, input # Arbitrary, pc = "documents"
  PROVE  AtDocument(input.documents, Len(parsed.documents), Len(input.documents))
<1> DEFINE d == input.documents
           e == parsed.documents
<1>1. /\ input \in Messages /\ opcode = input.opcode /\ len = BodyLen(input)
      /\ opcode \in {"Query", "Reply"} /\ parsed.name = input.name /\ parsed.opcode = opcode
      /\ e \in Seq(Nat) /\ Len(e) <= Len(d) /\ \A i \in 1..Len(e) : e[i] = d[i]
  BY DEF RoundInv
<1>2. /\ input.name \in Nat /\ d \in Seq(Nat)
      /\ \A i \in 1..Len(d) : d[i] \in Nat /\ d[i] >= 5
  BY <1>1, MessageKinds
<1>3. offset = BodyLen(parsed)
  BY DEF BodyInv
<1>4. Total(d) \in Nat /\ Total(e) \in Nat
  BY <1>1, <1>2, TotalType
<1>5. CASE opcode = "Query"
  <2> DEFINE base == 13 + input.name
  <2>1. base \in Nat
    BY <1>2
  <2>2. offset = 12 + input.name + 1 + Total(e)
    BY <1>1, <1>3, <1>5 DEF BodyLen, QueryLen
  <2>3. /\ len = 13 + input.name + Total(d)
        /\ \A i \in 1..Len(d) : ValuesAt(EncodeBody(input), 13 + input.name + TotalOf(d, i - 1)) = {d[i]}
    BY <1>1, <1>5, EncodedQuery, Zenon
  <2>4. offset = base + Total(e)
    BY <1>2, <1>4, <2>2
  <2> HIDE DEF d, e
  <2>5. /\ len = base + Total(d)
        /\ \A i \in 1..Len(d) : ValuesAt(EncodeBody(input), base + TotalOf(d, i - 1)) = {d[i]}
    BY <2>3
  <2> HIDE DEF base
  <2>6. AtDocument(d, Len(e), Len(d))
    BY <1>1, <1>2, <2>1, <2>4, <2>5, DocumentAt, Zenon
  <2> QED BY <2>6 DEF d, e
<1>6. CASE opcode = "Reply"
  <2> DEFINE base == 20
  <2>1. base \in Nat
    OBVIOUS
  <2>2. offset = 20 + Total(e)
    BY <1>1, <1>3, <1>6 DEF BodyLen, ReplyLen
  <2>3. /\ len = 20 + Total(d)
        /\ \A i \in 1..Len(d) : ValuesAt(EncodeBody(input), 20 + TotalOf(d, i - 1)) = {d[i]}
    BY <1>1, <1>6, EncodedReply, Zenon
  <2> HIDE DEF d, e
  <2>5. /\ len = base + Total(d) /\ offset = base + Total(e)
        /\ \A i \in 1..Len(d) : ValuesAt(EncodeBody(input), base + TotalOf(d, i - 1)) = {d[i]}
    BY <2>2, <2>3
  <2> HIDE DEF base
  <2>6. AtDocument(d, Len(e), Len(d))
    BY <1>1, <1>2, <2>1, <2>5, DocumentAt, Zenon
  <2> QED BY <2>6 DEF d, e
<1> QED BY <1>1, <1>5, <1>6

\* A message is parsed from its first byte, all of its bytes.
LEMMA InitRound == Init => RoundInv
  BY WrittenLen DEF Init, RoundInv

\* An error return where an encoded message may be refused.
LEMMA RejectRound == RoundInv /\ Goto("rejected") /\ (input = Arbitrary \/ Refusable(input)) => RoundInv'
  BY DEF RoundInv, Goto, Refusable

\* The head of an encoded query: only an empty name is refused.
LEMMA QueryHeadRound == BodyInv /\ RoundInv /\ QueryHead => RoundInv'
<1> SUFFICES ASSUME BodyInv, RoundInv, QueryHead PROVE RoundInv'
  OBVIOUS
<1>1. input' = input
  BY DEF QueryHead, RefuseBytes, Goto
<1>2. CASE input = Arbitrary
  BY <1>1, <1>2 DEF RoundInv
<1>3. CASE input # Arbitrary
  <2>1. /\ input \in Messages /\ opcode = "Query" /\ input.opcode = "Query" /\ len = BodyLen(input)
        /\ offset = 0
    BY <1>3 DEF RoundInv, QueryHead, BodyInv
  <2>2. /\ input.name \in Nat /\ input.documents \in Seq(Nat) /\ Total(input.documents) \in Nat
    BY <2>1, MessageKinds, TotalType
  <2>3. len = 13 + input.name + Total(input.documents) /\ ValuesAt(EncodeBody(input), 4) = {input.name}
    BY <2>1, EncodedQuery
  <2>4. ~(Remaining < 4) /\ ~(len - (4 + input.name + 1) < 8)
    BY <2>1, <2>2, <2>3 DEF Remaining
  <2>5. \A any : \A name \in IntAt(4, any) : name = input.name
    BY <1>3, <2>3 DEF IntAt, At
  <2>6. CASE input.name = 0 /\ Goto("rejected")
    BY <2>1, <2>6, RejectRound DEF Refusable
  <2>7. CASE /\ parsed' = [opcode |-> "Query", name |-> input.name, documents |-> << >>]
             /\ pc' = "documents" /\ UNCHANGED <<input, opcode, len, todo>>
    <3>1. /\ DOMAIN parsed' = {"opcode", "name", "documents"} /\ parsed'.opcode = "Query"
          /\ parsed'.name = input.name /\ parsed'.documents = << >> /\ Fields(parsed)'
      BY <2>7 DEF Fields
    <3>2. << >> \in Seq(Nat) /\ Len(<< >>) = 0 /\ Len(input.documents) \in Nat
      BY <2>2
    <3>3. /\ parsed'.documents \in Seq(Nat) /\ Len(parsed'.documents) <= Len(input.documents)
          /\ \A i \in 1..Len(parsed'.documents) : parsed'.documents[i] = input.documents[i]
      BY <3>1, <3>2
    <3> QED BY <2>1, <2>7, <3>1, <3>3 DEF RoundInv
  <2>8. \/ input.name = 0 /\ Goto("rejected")
        \/ /\ parsed' = [opcode |-> "Query", name |-> input.name, documents |-> << >>]
           /\ pc' = "documents" /\ UNCHANGED <<input, opcode, len, todo>>
    BY <1>3, <2>4, <2>5 DEF QueryHead, RefuseBytes
  <2> QED BY <2>6, <2>7, <2>8
<1> QED BY <1>2, <1>3

\* The count of an encoded reply is that of its documents, and its bytes suffice for them.
LEMMA ReplyHeadRound == BodyInv /\ RoundInv /\ ReplyHead => RoundInv'
<1> SUFFICES ASSUME BodyInv, RoundInv, ReplyHead PROVE RoundInv'
  OBVIOUS
<1>1. input' = input
  BY DEF ReplyHead, Goto
<1>2. CASE input = Arbitrary
  BY <1>1, <1>2 DEF RoundInv
<1>3. CASE input # Arbitrary
  <2> DEFINE n == Len(input.documents)
             total == Total(input.documents)
  <2>1. /\ input \in Messages /\ opcode = "Reply" /\ input.opcode = "Reply" /\ len = BodyLen(input)
        /\ offset = 0
    BY <1>3 DEF RoundInv, ReplyHead, BodyInv
  <2>2. /\ input.documents \in Seq(Nat) /\ n \in Nat /\ total \in Nat /\ input.name = 0
        /\ \A i \in 1..n : input.documents[i] \in Nat /\ input.documents[i] >= 5
    BY <2>1, MessageKinds, TotalType
  <2>3. len = 20 + total /\ ValuesAt(EncodeBody(input), 16) = {n}
    BY <2>1, EncodedReply
  <2>4. total >= 5 * n
    BY <2>2, TotalOfLeast, Zenon DEF Total
  <2> HIDE DEF n, total
  <2>5. ~(Remaining < 20) /\ ~(n < 0) /\ ~TooMany(n, len - 20)
    <3>1. ~(Remaining < 20) /\ len - 20 = total
      BY <2>1, <2>2, <2>3 DEF Remaining
    <3>2. ~(n > total \div 5)
      BY <2>2, <2>4
    <3> QED BY <2>2, <3>1, <3>2 DEF TooMany, MIN_DOC_LEN
  <2>6. \A any : \A count \in IntAt(16, any) : count = n
    BY <1>3, <2>3 DEF IntAt, At
  <2>7. /\ parsed' = [opcode |-> "Reply", name |-> 0, documents |-> << >>]
        /\ todo' = n /\ pc' = "documents" /\ UNCHANGED <<input, opcode, len>>
    BY <2>5, <2>6 DEF ReplyHead
  <2>8. /\ DOMAIN parsed' = {"opcode", "name", "documents"} /\ parsed'.opcode = "Reply"
        /\ parsed'.name = 0 /\ parsed'.documents = << >> /\ Fields(parsed)'
    BY <2>7 DEF Fields
  <2>9. << >> \in Seq(Nat) /\ Len(<< >>) = 0
    OBVIOUS
  <2>10. /\ parsed'.documents \in Seq(Nat) /\ Len(parsed'.documents) <= n
         /\ \A i \in 1..Len(parsed'.documents) : parsed'.documents[i] = input.documents[i]
         /\ todo' = n - Len(parsed'.documents)
    BY <2>2, <2>7, <2>8, <2>9
  <2> QED BY <2>1, <2>2, <2>7, <2>8, <2>10 DEF RoundInv, n
<1> QED BY <1>2, <1>3

\* Every document of an encoded message is taken.
LEMMA TakeRound ==
  ASSUME BodyInv, RoundInv, input # Arbitrary, pc = "documents", WantsMore, TakeDocument
  PROVE  RoundInv'
<1> DEFINE d == input.documents
           e == parsed.documents
           k == Len(parsed.documents)
           n == Len(input.documents)
<1>1. AtDocument(d, k, n)
  BY CursorAt
<1>2. /\ input \in Messages /\ opcode = input.opcode /\ len = BodyLen(input)
      /\ opcode \in {"Query", "Reply"} /\ parsed.opcode = opcode /\ parsed.name = input.name
      /\ DOMAIN parsed = {"opcode", "name", "documents"} /\ Fields(parsed)
      /\ e \in Seq(Nat) /\ k <= n /\ \A i \in 1..k : e[i] = d[i]
      /\ opcode = "Reply" => todo = n - k
  BY DEF RoundInv
<1>3. opcode = "Query" => e = << >> \/ (k = 1 /\ Remaining # 0)
  BY DEF WantsMore, QueryWantsMore
<1>4. opcode # "Query" => todo > 0
  BY DEF WantsMore
<1>5. /\ offset \in Nat /\ len \in Nat /\ todo \in Nat /\ d \in Seq(Nat)
      /\ opcode = "Query" => n \in {1, 2}
  BY <1>2, MessageKinds DEF BodyInv
<1>6. k = Len(e)
  OBVIOUS
<1> HIDE DEF d, e, k, n
<1>7. k \in Nat /\ n \in Nat /\ k < n
  <2>1. k \in Nat /\ n \in Nat /\ k \in 0..n /\ (k = n => offset = len)
    BY <1>1 DEF AtDocument
  <2>2. CASE opcode = "Query"
    <3>1. e = << >> => k = 0
      BY <1>6
    <3>2. k = 1 /\ Remaining # 0 => k # n
      BY <1>5, <2>1 DEF Remaining
    <3> QED BY <1>3, <1>5, <2>1, <2>2, <3>1, <3>2
  <2>3. CASE opcode = "Reply"
    BY <1>2, <1>4, <1>5, <2>1, <2>3
  <2> QED BY <1>2, <2>2, <2>3
<1> DEFINE doc == d[k + 1]
<1>8. /\ offset < len /\ doc \in Nat /\ doc >= 5 /\ offset + doc <= len
      /\ \A any : IntAt(offset, any) = {doc}
  BY <1>1, <1>7 DEF AtDocument
<1> HIDE DEF doc
<1>9. ~(Remaining < 4) /\ ~BadLength(doc) /\ ~(offset + doc > len)
  BY <1>5, <1>8 DEF Remaining, BadLength, MIN_DOC_LEN
<1>10. /\ parsed' = [parsed EXCEPT !.documents = Append(@, doc)]
       /\ todo' = IF todo > 0 THEN todo - 1 ELSE todo
       /\ UNCHANGED <<input, opcode, len, pc>>
  BY <1>8, <1>9 DEF TakeDocument, RefuseBytes
<1>11. /\ DOMAIN parsed' = {"opcode", "name", "documents"} /\ parsed'.opcode = opcode
       /\ parsed'.name = input.name /\ parsed'.documents = Append(e, doc) /\ Fields(parsed)'
  BY <1>2, <1>10, Zenon DEF e, Fields
<1>12. /\ Append(e, doc) \in Seq(Nat) /\ Len(Append(e, doc)) = k + 1
       /\ \A i \in 1..(k + 1) : Append(e, doc)[i] = d[i]
  <2>1. Append(e, doc) \in Seq(Nat) /\ Len(Append(e, doc)) = k + 1
    BY <1>2, <1>6, <1>8
  <2>2. ASSUME NEW i \in 1..(k + 1) PROVE Append(e, doc)[i] = d[i]
    <3>1. CASE i = k + 1
      BY <1>2, <1>6, <1>8, <3>1 DEF doc
    <3>2. CASE i # k + 1
      <4>1. i \in 1..k
        BY <1>7, <3>2
      <4> QED BY <1>2, <1>6, <4>1
    <3> QED BY <3>1, <3>2, Zenon
  <2> QED BY <2>1, <2>2
<1>13. opcode = "Reply" => todo' = n - (k + 1)
  BY <1>2, <1>5, <1>7, <1>10
<1>14. /\ parsed'.documents \in Seq(Nat) /\ Len(parsed'.documents) = k + 1 /\ k + 1 <= n
       /\ \A i \in 1..(k + 1) : parsed'.documents[i] = d[i]
  BY <1>7, <1>11, <1>12
<1> QED BY <1>2, <1>10, <1>11, <1>13, <1>14 DEF RoundInv, d, n

\* No byte of an encoded message is left behind its last document.
LEMMA DocumentsRound == BodyInv /\ RoundInv /\ Documents => RoundInv'
<1> SUFFICES ASSUME BodyInv, RoundInv, Documents PROVE RoundInv'
  OBVIOUS
<1>1. input' = input /\ pc = "documents"
  BY DEF Documents, TakeDocument, RefuseBytes, Goto
<1>2. CASE input = Arbitrary
  BY <1>1, <1>2 DEF RoundInv
<1>3. CASE input # Arbitrary /\ WantsMore
  BY <1>1, <1>3, TakeRound DEF Documents
<1>4. CASE input # Arbitrary /\ ~WantsMore
  <2> DEFINE k == Len(parsed.documents)
             n == Len(input.documents)
  <2>1. n \in Nat /\ k \in 0..n /\ (k = n => offset = len) /\ (k < n => offset < len)
    BY <1>1, <1>4, CursorAt DEF AtDocument
  <2>2. /\ opcode \in {"Query", "Reply"} /\ (opcode = "Reply" => todo = n - k)
        /\ input \in Messages /\ opcode = input.opcode
    BY <1>1, <1>4 DEF RoundInv
  <2>3. /\ offset \in Nat /\ len \in Nat /\ todo \in Nat /\ parsed.documents \in Seq(Nat)
    BY <1>1 DEF BodyInv
  <2>4. k = n
    <3>1. CASE opcode = "Reply"
      BY <1>4, <2>1, <2>2, <2>3, <3>1 DEF WantsMore
    <3>2. CASE opcode = "Query"
      <4>1. parsed.documents # << >> /\ (k = 1 => Remaining = 0)
        BY <1>4, <3>2 DEF WantsMore, QueryWantsMore
      <4>2. k # 0
        <5> DEFINE e == parsed.documents
        <5>1. e \in Seq(Nat) /\ e # << >>
          BY <2>3, <4>1
        <5> HIDE DEF e
        <5>2. Len(e) # 0
          BY <5>1
        <5> QED BY <5>2 DEF e
      <4>3. n \in {1, 2}
        BY <2>2, <3>2, MessageKinds, Zenon
      <4> HIDE DEF k, n
      <4>4. k = 1 => k = n
        <5>1. k = 1 => offset = len
          BY <2>3, <4>1 DEF Remaining
        <5> QED BY <2>1, <2>3, <5>1
      <4> QED BY <2>1, <4>2, <4>3, <4>4
    <3> QED BY <2>2, <3>1, <3>2
  <2>5. ~Trailing
    BY <2>1, <2>3, <2>4 DEF Trailing, Remaining
  <2>6. Goto("accepted")
    BY <1>4, <2>5 DEF Documents
  <2> QED BY <1>1, <1>4, <2>4, <2>6 DEF Goto, RoundInv
<1> QED BY <1>2, <1>3, <1>4

\* The head of an encoded OP_COMPRESSED is read as it was written.
LEMMA CompressedRound == BodyInv /\ RoundInv /\ ParseCompressed => RoundInv'
<1> SUFFICES ASSUME BodyInv, RoundInv, ParseCompressed PROVE RoundInv'
  OBVIOUS
<1>1. input' = input
  BY DEF ParseCompressed, RefuseBytes, Goto
<1>2. CASE input = Arbitrary
  BY <1>1, <1>2 DEF RoundInv
<1>3. CASE input # Arbitrary
  <2>1. /\ input \in Messages /\ opcode = "Compressed" /\ input.opcode = "Compressed"
        /\ len = BodyLen(input) /\ offset = 0
    BY <1>3 DEF RoundInv, ParseCompressed, BodyInv
  <2>2. input.payload \in Nat /\ input.inside \in Messages /\ input.size = BodyLen(input.inside)
    BY <2>1, MessageKinds
  <2>3. /\ len = 9 + input.payload /\ ValuesAt(EncodeBody(input), 0) = {input.original}
        /\ ValuesAt(EncodeBody(input), 4) = {input.size}
        /\ ValuesAt(EncodeBody(input), 8) = {input.compressor}
    BY <2>1, EncodedCompressed
  <2>4. input.size \in Nat
    BY <2>2, WrittenLen
  <2>5. ~(Remaining < 9) /\ ~(input.size < 0) /\ len - 9 = input.payload
    BY <2>1, <2>2, <2>3, <2>4 DEF Remaining
  <2>6. /\ \A any : \A original \in At(0, any) : original = input.original
        /\ \A any : \A size \in IntAt(4, any) : size = input.size
        /\ \A any : \A id \in At(8, any) : id = input.compressor
    BY <1>3, <2>3 DEF IntAt, At
  <2>7. /\ parsed' = [opcode |-> "Compressed", original |-> input.original, size |-> input.size,
                      compressor |-> input.compressor, payload |-> len - 9]
        /\ pc' = "unwrap" /\ UNCHANGED <<input, opcode, len, todo>>
    BY <1>3, <2>5, <2>6 DEF ParseCompressed, RefuseBytes
  <2>8. /\ parsed'.original = input.original /\ parsed'.size = input.size
        /\ parsed'.compressor = input.compressor /\ parsed'.payload = input.payload
    BY <2>5, <2>7
  <2> QED BY <2>1, <2>7, <2>8 DEF RoundInv
<1> QED BY <1>2, <1>3

\* unwrap_body gets at the body that was wrapped, or refuses the wrapping.
LEMMA UnwrapRound == BodyInv /\ RoundInv /\ Unwrap => RoundInv'
<1> SUFFICES ASSUME BodyInv, RoundInv, Unwrap PROVE RoundInv'
  OBVIOUS
<1>1. CASE input = Arbitrary
  <2>1. input' = Arbitrary
    BY <1>1 DEF Unwrap, RefuseBytes, Goto
  <2> QED BY <2>1 DEF RoundInv
<1>2. CASE input # Arbitrary
  <2>1. /\ input \in Messages /\ input.opcode = "Compressed"
        /\ parsed.original = input.original /\ parsed.size = input.size
        /\ parsed.compressor = input.compressor /\ parsed.payload = input.payload
    BY <1>2 DEF RoundInv, Unwrap
  <2>2. /\ input.inside \in Messages /\ input.original = input.inside.opcode
        /\ input.size = BodyLen(input.inside) /\ input.payload \in Nat
        /\ input.compressor = "noop" => input.payload = input.size
    BY <2>1, MessageKinds
  <2>3. /\ input.inside.opcode \in {"Query", "Reply", "Compressed"} /\ BodyLen(input.inside) \in Nat
    BY <2>2, MessageKinds, WrittenLen
  <2>4. ~MayUnwrap => Refusable(input)
    BY <2>1, <2>2, <2>3, BoundsAssumption DEF MayUnwrap, Refusable
  <2>5. ~IsEnabled(parsed.compressor) => Refusable(input)
    BY <2>1 DEF Refusable
  <2>6. \A out \in Decompress(parsed.compressor, parsed.payload, parsed.size) :
          out = parsed.size
    BY <1>2, <2>1, <2>2 DEF Decompress
  <2>7. parsed.original \notin {"Other", "Msg"}
    BY <2>1, <2>2, <2>3
  <2>8. CASE Goto("rejected") /\ Refusable(input)
    BY <2>8, RejectRound
  <2>9. CASE /\ input' = input.inside /\ opcode' = parsed.original /\ len' = parsed.size
             /\ pc' = "head"
    BY <2>1, <2>2, <2>9 DEF RoundInv
  <2>10. \/ Goto("rejected") /\ Refusable(input)
         \/ /\ input' = input.inside /\ opcode' = parsed.original /\ len' = parsed.size
            /\ pc' = "head"
    BY <1>2, <2>4, <2>5, <2>6, <2>7 DEF Unwrap, RefuseBytes
  <2> QED BY <2>8, <2>9, <2>10
<1> QED BY <1>1, <1>2

\* Encoded messages are followed from the first step to the last.
LEMMA RoundInvariant == Spec => []RoundInv
<1>1. BodyInv /\ RoundInv /\ [Next]_vars => RoundInv'
  <2> SUFFICES ASSUME BodyInv, RoundInv, [Next]_vars PROVE RoundInv'
    OBVIOUS
  <2>1. CASE UNCHANGED vars
    BY <2>1, Zenon DEF vars, RoundInv, Refusable
  <2>2. CASE Next
    BY <2>2, QueryHeadRound, ReplyHeadRound, DocumentsRound, CompressedRound, UnwrapRound DEF Next
  <2> QED BY <2>1, <2>2
<1> QED
  BY <1>1, InitRound, BodyInvariant, PTL DEF Spec

\* Whatever query or reply encode_body writes, and whatever wrap() makes of it, parse_body
\* and unwrap_body() give back as it was: any name, any number and size of documents.
THEOREM BodiesRoundTrip == Spec => []EncodedRoundTrips
<1>1. RoundInv => EncodedRoundTrips
  <2> SUFFICES ASSUME RoundInv, input # Arbitrary PROVE EncodedRoundTrips
    BY DEF EncodedRoundTrips
  <2>1. ASSUME pc = "accepted" PROVE parsed = input
    <3> DEFINE d == input.documents
               e == parsed.documents
    <3>1. /\ input \in Messages /\ opcode = input.opcode /\ opcode \in {"Query", "Reply"}
          /\ parsed.opcode = opcode /\ parsed.name = input.name /\ Fields(parsed)
          /\ e \in Seq(Nat) /\ Len(e) = Len(d) /\ \A i \in 1..Len(e) : e[i] = d[i]
      BY <2>1 DEF RoundInv
    <3>2. Fields(input) /\ d \in Seq(Nat)
      BY <3>1, MessageKinds
    <3> HIDE DEF d, e
    <3>3. d = e
      BY <3>1, <3>2, SameSequence
    <3> QED BY <3>1, <3>2, <3>3, Zenon DEF d, e, Fields
  <2>2. pc = "rejected" => Refusable(input)
    BY DEF RoundInv
  <2> QED BY <2>1, <2>2 DEF EncodedRoundTrips, Refusable
<1> QED
  BY <1>1, RoundInvariant, PTL

=============================================================================
