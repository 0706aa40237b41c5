------------------------ MODULE ReplyContentProofs ------------------------
(***************************************************************************)
(* What the replies of Connection say: their requestIDs, for an id counter of *)
(* any width, and the compressors a handshake reply announces.                *)
(***************************************************************************)
EXTENDS ConnectionProofs, WireLemmas

-----------------------------------------------------------------------------
(* The counter *)

\* Every reply on the socket took the next id, and the counter stands at the id of the
\* next one; while a reply waits in Framed's buffer the counter is one ahead.
IdInv ==
  /\ \A j \in DOMAIN wire : wire[j].request_id = (j - 1) % IdSpace
  /\ pc \in {"read", "send"} => ctx.next_id = Len(wire) % IdSpace
  /\ pc = "flush" => /\ wbuf[1].request_id = Len(wire) % IdSpace
                     /\ ctx.next_id = (Len(wire) + 1) % IdSpace

\* next_request_id counts on.
LEMMA CountsOn ==
  ASSUME ReplyInv, ctx.next_id = Len(wire) % IdSpace
  PROVE  NextRequestId.next_id = (Len(wire) + 1) % IdSpace
<1>1. Len(wire) \in Nat /\ DOMAIN ctx = {"negotiated", "auth", "next_id", "checksum"}
  BY SeqFacts DEF ReplyInv, TypeOK
<1>2. NextRequestId.next_id = (ctx.next_id + 1) % IdSpace
  BY <1>1 DEF NextRequestId
<1>3. ((Len(wire) % IdSpace) + 1) % IdSpace = (Len(wire) + 1) % IdSpace
  BY <1>1, BoundsAssumption, Successor, Zenon
<1> QED
  BY <1>2, <1>3

\* A reply with the next id reaches the socket.
LEMMA IdWritten ==
  ASSUME ReplyInv, IdInv, NEW reply \in Written, reply.request_id = Len(wire) % IdSpace,
         wire' = Append(wire, reply), pc' = "read", ctx'.next_id = (Len(wire) + 1) % IdSpace
  PROVE  IdInv'
<1>1. wire \in Seq(Written)
  BY DEF ReplyInv, TypeOK
<1>2. /\ Len(wire') = Len(wire) + 1 /\ DOMAIN wire' = 1..(Len(wire) + 1)
      /\ \A j \in 1..Len(wire) : wire'[j] = wire[j]
      /\ wire'[Len(wire) + 1] = reply
      /\ DOMAIN wire = 1..Len(wire) /\ Len(wire) \in Nat
  BY <1>1, AppendFacts
<1>3. ASSUME NEW j \in DOMAIN wire' PROVE wire'[j].request_id = (j - 1) % IdSpace
  <2>1. CASE j \in 1..Len(wire)
    BY <1>2, <2>1 DEF IdInv
  <2>2. CASE j = Len(wire) + 1
    <3>1. j - 1 = Len(wire)
      BY <1>2, <2>2
    <3> QED
      BY <1>2, <2>2, <3>1
  <2> QED
    BY <1>2, <2>1, <2>2
<1> QED
  BY <1>2, <1>3 DEF IdInv

\* A step that writes nothing and leaves the counter alone.
LEMMA IdKept ==
  ASSUME IdInv, UNCHANGED wire, pc = "read", pc' \in {"read", "send", "closed"},
         ctx'.next_id = ctx.next_id
  PROVE  IdInv'
  BY DEF IdInv

\* Taking a frame and dispatching it gives out no id.
LEMMA DispatchKeepsIds ==
  ASSUME ReplyInv, IdInv,
         CloseOnBadFrame \/ IgnoreReply \/ AnswerQuery \/ RunCommand \/ EndOfStream
  PROVE  IdInv'
<1>0. DOMAIN ctx = {"negotiated", "auth", "next_id", "checksum"}
  BY DEF ReplyInv, TypeOK
<1>1. CASE CloseOnBadFrame
  BY <1>1, IdKept DEF CloseOnBadFrame, Take
<1>2. CASE IgnoreReply
  BY <1>2, IdKept DEF IgnoreReply, Take
<1>3. CASE AnswerQuery
  <2>1. ctx'.next_id = ctx.next_id
    BY <1>0, <1>3 DEF AnswerQuery
  <2> QED
    BY <1>3, <2>1, IdKept DEF AnswerQuery, Take
<1>4. CASE RunCommand
  <2> DEFINE frame == Head(inbox)
  <2>1. Take /\ frame.body.op = "msg"
    BY <1>4 DEF RunCommand
  <2>2. PICK result \in HandleCommand(ctx, frame.body) :
          ctx' = result.ctx /\ Respond(frame, result.outcome)
    BY <1>4 DEF RunCommand
  <2>3. PICK f \in Frames : frame.body = f.body
    BY <2>1, HeadFrame
  <2>4. ctx'.next_id = ctx.next_id
    BY <1>0, <2>1, <2>2, <2>3, HandlerResult
  <2>5. pc' \in {pc, "send", "closed"}
    BY <2>2 DEF Respond, SendBack
  <2> QED
    BY <2>1, <2>4, <2>5, IdKept DEF Take
<1>5. CASE EndOfStream
  BY <1>5, IdKept DEF EndOfStream
<1> QED
  BY <1>1, <1>2, <1>3, <1>4, <1>5

\* send_reply takes one id for each reply, on either path.
LEMMA SendTakesIds ==
  ASSUME ReplyInv, IdInv, WriteDirect \/ EncodeFramed \/ FlushFramed \/ SendFails
  PROVE  IdInv'
<1>1. CASE WriteDirect
  <2>1. pc = "send" /\ pending \in Unsent /\ TypeOK
    BY <1>1 DEF WriteDirect, ReplyInv, TypeOK
  <2>2. WithHeader(pending) \in Written /\ WithHeader(pending).request_id = ctx.next_id
    BY <2>1, WithHeaderType DEF WithHeader
  <2>3. ctx.next_id = Len(wire) % IdSpace
    BY <2>1 DEF IdInv
  <2>4. ctx'.next_id = (Len(wire) + 1) % IdSpace
    BY <1>1, <2>3, CountsOn DEF WriteDirect
  <2> QED
    BY <1>1, <2>2, <2>3, <2>4, IdWritten DEF WriteDirect
<1>2. CASE EncodeFramed
  <2>1. pc = "send" /\ pending \in Unsent /\ TypeOK /\ wbuf = << >>
    BY <1>2 DEF EncodeFramed, ReplyInv, TypeOK
  <2>2. WithHeader(pending) \in Written /\ WithHeader(pending).request_id = ctx.next_id
    BY <2>1, WithHeaderType DEF WithHeader
  <2>3. ctx.next_id = Len(wire) % IdSpace
    BY <2>1 DEF IdInv
  <2>4. ctx'.next_id = (Len(wire) + 1) % IdSpace
    BY <1>2, <2>3, CountsOn DEF EncodeFramed
  <2>5. wbuf'[1] = WithHeader(pending)
    BY <1>2, <2>1, <2>2, EmptyFacts, AppendFacts DEF EncodeFramed
  <2> QED
    BY <1>2, <2>2, <2>3, <2>4, <2>5 DEF EncodeFramed, IdInv
<1>3. CASE FlushFramed
  <2>1. /\ wire \in Seq(Written) /\ wbuf \in Seq(Written) /\ Len(wbuf) = 1
        /\ pc = "flush" /\ wire' = wire \o wbuf /\ pc' = "read" /\ ctx' = ctx
    BY <1>3 DEF ReplyInv, TypeOK, FlushFramed
  <2>2. wbuf[1] \in Written /\ wire' = Append(wire, wbuf[1])
    BY <2>1, ConcatOne
  <2>3. /\ wbuf[1].request_id = Len(wire) % IdSpace
        /\ ctx'.next_id = (Len(wire) + 1) % IdSpace
    BY <2>1 DEF IdInv
  <2> QED
    BY <2>1, <2>2, <2>3, IdWritten
<1>4. CASE SendFails
  BY <1>4 DEF SendFails, IdInv
<1> QED
  BY <1>1, <1>2, <1>3, <1>4

\* The ids of a connection count up from 0.
LEMMA IdsCount == Spec => [](ReplyInv /\ IdInv)
<1>1. Init => IdInv
  BY BoundsAssumption DEF Init, IdInv
<1>2. ReplyInv /\ IdInv /\ [Next]_vars => IdInv'
  <2> SUFFICES ASSUME ReplyInv, IdInv, [Next]_vars PROVE IdInv'
    OBVIOUS
  <2>1. CASE Server
    BY <2>1, DispatchKeepsIds, SendTakesIds DEF Server
  <2>2. CASE Client \/ UNCHANGED vars
    BY <2>2, Zenon DEF Client, Submit, ClientCloses, vars, IdInv
  <2> QED
    BY <2>1, <2>2 DEF Next
<1> QED
  BY <1>1, <1>2, InitInv, NextInv, PTL DEF Spec

\* Whatever the width of the counter, and wherever it stands when it wraps, the requestIDs
\* of any IdSpace consecutive replies differ (client_info.rs:36-38).
THEOREM IdsDistinct == Spec => []RequestIdsDistinct
<1>1. ReplyInv /\ IdInv => RequestIdsDistinct
  <2> SUFFICES ASSUME ReplyInv, IdInv, NEW i \in DOMAIN wire, NEW j \in DOMAIN wire,
                      i < j, j - i < IdSpace
               PROVE  wire[i].request_id # wire[j].request_id
    BY DEF RequestIdsDistinct
  <2>1. DOMAIN wire = 1..Len(wire) /\ Len(wire) \in Nat
    BY SeqFacts DEF ReplyInv, TypeOK
  <2>2. i - 1 \in Nat /\ j - 1 \in Nat /\ i - 1 < j - 1 /\ (j - 1) - (i - 1) < IdSpace
    BY <2>1, BoundsAssumption
  <2>3. (i - 1) % IdSpace # (j - 1) % IdSpace
    BY <2>2, BoundsAssumption, Apart
  <2> QED
    BY <2>3 DEF IdInv
<1> QED
  BY <1>1, IdsCount, PTL

-----------------------------------------------------------------------------
(* Compressor negotiation *)

\* A list of compressors in the order of one of the configured lists.
Preferred(list) == \E offered \in {Offered, BuiltinOffered} : list = Keep(offered, Range(list))

\* What a handshake negotiates is in the server's order, as is the list a
\* connection starts with.
LEMMA NegotiatePreferred ==
  /\ Preferred(<< >>)
  /\ \A offered \in {Offered, BuiltinOffered} : \A requested :
       Preferred(Negotiate(offered, requested))
<1>1. ASSUME NEW offered \in {Offered, BuiltinOffered} PROVE offered \in Seq(STRING)
  BY OfferedAssumption
<1>2. Preferred(<< >>)
  <2>1. Range(<< >>) = {}
    BY DEF Range
  <2>2. Keep(Offered, {}) = << >>
    BY <1>1, KeepNone
  <2> QED BY <2>1, <2>2 DEF Preferred
<1>3. ASSUME NEW offered \in {Offered, BuiltinOffered}, NEW requested, requested # None
      PROVE  Preferred(Negotiate(offered, requested))
  <2>1. PICK x : x = Keep(offered, Range(requested))
    OBVIOUS
  <2>a. offered \in Seq(STRING)
    BY <1>1
  <2>b. x = Keep(offered, {x[k] : k \in DOMAIN x})
    BY <2>a, <2>1, KeepAgain
  <2>2. x = Keep(offered, Range(x))
    BY <2>b DEF Range
  <2>3. Negotiate(offered, requested) = x
    BY <1>3, <2>1 DEF Negotiate
  <2> QED BY <2>2, <2>3 DEF Preferred
<1>4. \A offered : Negotiate(offered, None) = << >>
  BY DEF Negotiate
<1> QED BY <1>2, <1>3, <1>4

\* The latest handshake that was answered or should have been.
Latest(i) == HandshakeAt(i) /\ \A k \in DOMAIN log : HandshakeAt(k) => k <= i

\* The strengthening of NegotiationAgrees: the reply to the latest handshake says
\* what the connection has recorded, wherever that reply is on its way.
NegotiationInv ==
  /\ Preferred(ctx.negotiated)
  /\ \A i \in DOMAIN log : Latest(i) =>
       /\ \A j \in DOMAIN wire :
            wire[j].response_to = i => wire[j].compressors = ctx.negotiated
       /\ i = Len(log) /\ pc \in {"send", "flush"} => pending.compressors = ctx.negotiated
       /\ i = Len(log) /\ pc = "flush" => wbuf[1].compressors = ctx.negotiated

\* An entry of a handshake.
Greets(entry) == IsHandshake(entry.command) /\ entry.kind = "msg"

\* A frame is logged; a handshake records the list that its reply carries, and no
\* other frame changes it.
LEMMA NegotiationLogged ==
  ASSUME ReplyInv, NegotiationInv, Take, NEW entry \in Logged, log' = Append(log, entry),
         pc' # "flush", Preferred(ctx'.negotiated),
         Greets(entry) => (pc' = "send" => pending'.compressors = ctx'.negotiated),
         ~Greets(entry) => ctx'.negotiated = ctx.negotiated
  PROVE  NegotiationInv'
<1>1. /\ Len(log) \in Nat /\ Len(log') = Len(log) + 1 /\ DOMAIN log' = 1..(Len(log) + 1)
      /\ DOMAIN log = 1..Len(log)
      /\ \A i \in 1..Len(log) : log'[i] = log[i]
      /\ log'[Len(log) + 1] = entry
  BY Dispatched
<1>2. wire' = wire /\ \A j \in DOMAIN wire : wire[j].response_to \in 1..Len(log)
  BY <1>1 DEF ReplyInv, Take
<1>3. PICK n \in DOMAIN log' : n = Len(log) + 1
  BY <1>1
<1>4. HandshakeAt(n)' <=> Greets(entry)
  BY <1>1, <1>3 DEF HandshakeAt, Greets
<1>5. ASSUME NEW i \in DOMAIN log', Latest(i)'
      PROVE  /\ \A j \in DOMAIN wire' :
                  wire'[j].response_to = i => wire'[j].compressors = ctx'.negotiated
             /\ i = Len(log') /\ pc' \in {"send", "flush"} =>
                  pending'.compressors = ctx'.negotiated
  <2>1. CASE Greets(entry)
    <3>1. n <= i
      BY <1>3, <1>4, <1>5, <2>1 DEF Latest
    <3>2. i = Len(log) + 1
      BY <1>1, <1>3, <3>1
    <3> QED BY <1>1, <1>2, <2>1, <3>2
  <2>2. CASE ~Greets(entry)
    <3>1. i # n
      BY <1>4, <1>5, <2>2 DEF Latest
    <3>2. i \in DOMAIN log /\ i # Len(log')
      BY <1>1, <1>3, <3>1
    <3>3. Latest(i)
      BY <1>1, <1>5, <3>2 DEF Latest, HandshakeAt
    <3> QED BY <1>2, <2>2, <3>2, <3>3 DEF NegotiationInv
  <2> QED BY <2>1, <2>2
<1> QED BY <1>5 DEF NegotiationInv

\* A reply to the frame taken last reaches the socket.
LEMMA NegotiationWritten ==
  ASSUME ReplyInv, NegotiationInv, pc \in {"send", "flush"}, log' = log, pc' = "read",
         ctx'.negotiated = ctx.negotiated,
         NEW reply \in Written, reply.response_to = Len(log), wire' = Append(wire, reply),
         Latest(Len(log)) => reply.compressors = ctx.negotiated
  PROVE  NegotiationInv'
<1>1. /\ Len(wire) \in Nat /\ DOMAIN wire = 1..Len(wire) /\ DOMAIN wire' = 1..(Len(wire) + 1)
      /\ \A j \in 1..Len(wire) : wire'[j] = wire[j]
      /\ wire'[Len(wire) + 1] = reply
  BY AppendFacts DEF ReplyInv, TypeOK
<1>2. ASSUME NEW i \in DOMAIN log, Latest(i), NEW j \in DOMAIN wire', wire'[j].response_to = i
      PROVE  wire'[j].compressors = ctx.negotiated
  <2>1. CASE j = Len(wire) + 1
    BY <1>1, <1>2, <2>1
  <2>2. CASE j \in DOMAIN wire
    BY <1>1, <1>2, <2>2 DEF NegotiationInv
  <2> QED BY <1>1, <2>1, <2>2
<1> QED BY <1>2 DEF NegotiationInv, Latest, HandshakeAt

\* A handler that answers a handshake records what it answers; no other handler
\* touches the negotiated list.
LEMMA HandlerNegotiates ==
  ASSUME NEW c, DOMAIN c = {"negotiated", "auth", "next_id", "checksum"},
         NEW body, NEW result \in HandleCommand(c, body)
  PROVE  \/ /\ IsHandshake(body.command) /\ result.outcome.kind = "msg"
            /\ result.outcome.compressors = result.ctx.negotiated
            /\ Preferred(result.ctx.negotiated)
         \/ ~IsHandshake(body.command) /\ result.ctx.negotiated = c.negotiated
<1>1. CASE body.command \in {"saslStart", "saslContinue"}
  BY <1>1 DEF HandleCommand, IsHandshake
<1>2. CASE body.command \notin {"saslStart", "saslContinue"} /\ IsHandshake(body.command)
  <2>1. PICK list : list = Negotiate(BuiltinOffered, body.args.compression)
    OBVIOUS
  <2>2. result \in Builtin(c, body)
    BY <1>2 DEF HandleCommand
  <2>3. result = [ctx |-> [c EXCEPT !.negotiated = list], outcome |-> Msg("fresh", list)]
    BY <1>2, <2>1, <2>2 DEF Builtin
  <2>4. Preferred(list)
    BY <2>1, NegotiatePreferred
  <2> QED BY <1>2, <2>3, <2>4 DEF Msg
<1>3. CASE body.command \notin {"saslStart", "saslContinue"} /\ ~IsHandshake(body.command)
  <2>1. result \in Builtin(c, body)
    BY <1>3 DEF HandleCommand
  <2>2. result.ctx = c
    BY <1>3, <2>1 DEF Builtin
  <2> QED BY <1>3, <2>2
<1> QED BY <1>1, <1>2, <1>3

\* The client that has the reply to the latest handshake, OP_QUERY or OP_MSG, and the
\* connection agree on the compressors, in the server's order of preference.
THEOREM Negotiated == Spec => []NegotiationAgrees
<1>1. Init => NegotiationInv
  BY NegotiatePreferred DEF Init, NegotiationInv
<1>2. ReplyInv /\ NegotiationInv /\ [Next]_vars => NegotiationInv'
  <2> SUFFICES ASSUME ReplyInv, NegotiationInv, [Next]_vars PROVE NegotiationInv'
    OBVIOUS
  <2>a. DOMAIN ctx = {"negotiated", "auth", "next_id", "checksum"} /\ Preferred(ctx.negotiated)
    BY DEF ReplyInv, TypeOK, NegotiationInv
  <2>1. CASE CloseOnBadFrame \/ IgnoreReply
    <3>1. PICK kind \in {"closed", "ignored"} :
            /\ Take /\ log' = Append(log, Entry(Head(inbox), kind))
            /\ pc' # "flush" /\ ctx' = ctx
      BY <2>1 DEF CloseOnBadFrame, IgnoreReply, Take
    <3>2. Entry(Head(inbox), kind) \in Logged /\ ~Greets(Entry(Head(inbox), kind))
      BY <3>1, HeadFrame DEF Kinds, Greets, Entry
    <3> QED BY <2>a, <3>1, <3>2, NegotiationLogged
  <2>2. CASE AnswerQuery
    <3> DEFINE frame      == Head(inbox)
               handshake  == IsHandshake(frame.body.command)
               negotiated == Negotiate(Offered, frame.body.args.compression)
               kind       == IF handshake THEN "msg" ELSE "command_error"
               entry      == Entry(frame, kind)
    <3>1. /\ Take /\ frame.body.op = "query" /\ log' = Append(log, entry)
          /\ ctx' = (IF handshake THEN [ctx EXCEPT !.negotiated = negotiated] ELSE ctx)
          /\ pending' = ReplyTo(frame, "reply", "fresh", IF handshake THEN negotiated ELSE None)
          /\ pc' = "send"
      BY <2>2 DEF AnswerQuery
    <3>2. entry \in Logged
      BY <3>1, HeadFrame DEF Kinds, HandlerOutcome
    <3>3. Greets(entry) <=> handshake
      BY <3>1 DEF Greets, Entry, HasCommand
    <3>4. Preferred(negotiated)
      BY NegotiatePreferred
    <3> HIDE DEF frame, handshake, negotiated, entry
    <3>5. handshake => ctx'.negotiated = negotiated /\ pending'.compressors = negotiated
      BY <2>a, <3>1 DEF ReplyTo
    <3>6. ~handshake => ctx' = ctx
      BY <3>1
    <3> QED BY <2>a, <3>1, <3>2, <3>3, <3>4, <3>5, <3>6, NegotiationLogged
  <2>3. CASE RunCommand
    <3> DEFINE frame == Head(inbox)
    <3>1. Take /\ frame.body.op = "msg"
      BY <2>3 DEF RunCommand
    <3>2. PICK result \in HandleCommand(ctx, frame.body) :
            /\ ctx' = result.ctx
            /\ Respond(frame, result.outcome)
            /\ log' = Append(log, Entry(frame, result.outcome.kind))
      BY <2>3 DEF RunCommand
    <3>3. PICK f \in Frames : frame.body = f.body
      BY <3>1, HeadFrame
    <3>4. result.outcome.kind \in HandlerOutcome
      BY <2>a, <3>1, <3>2, <3>3, HandlerResult
    <3> DEFINE entry == Entry(frame, result.outcome.kind)
    <3>5. entry \in Logged
      BY <3>1, <3>4, HeadFrame DEF Kinds
    <3>6. \/ /\ IsHandshake(frame.body.command) /\ result.outcome.kind = "msg"
             /\ result.outcome.compressors = ctx'.negotiated
             /\ Preferred(ctx'.negotiated)
          \/ ~IsHandshake(frame.body.command) /\ ctx'.negotiated = ctx.negotiated
      BY <2>a, <3>2, HandlerNegotiates
    <3>7. Greets(entry) <=> IsHandshake(frame.body.command) /\ result.outcome.kind = "msg"
      BY <3>1 DEF Greets, Entry, HasCommand
    <3>8. pc = "read"
      BY <3>1 DEF Take
    <3> HIDE DEF entry, frame
    <3>9. pc' # "flush" /\ (pc' = "send" /\ result.outcome.kind = "msg" =>
                              pending'.compressors = result.outcome.compressors)
      BY <3>2, <3>8 DEF Respond, SendBack, ReplyBody, ReplyTo
    <3> QED
      BY <2>a, <3>1, <3>2, <3>5, <3>6, <3>7, <3>9, NegotiationLogged DEF entry
  <2>4. CASE WriteDirect
    <3>1. WithHeader(pending) \in Written /\ WithHeader(pending).response_to = Len(log)
      BY <2>4, WithHeaderType DEF ReplyInv, TypeOK, WriteDirect
    <3>2. /\ ctx'.negotiated = ctx.negotiated /\ log' = log /\ pc = "send" /\ pc' = "read"
          /\ wire' = Append(wire, WithHeader(pending))
      BY <2>4, <2>a DEF WriteDirect, NextRequestId
    <3>3. Len(log) \in DOMAIN log
      BY <3>2 DEF ReplyInv, TypeOK
    <3>4. Latest(Len(log)) => WithHeader(pending).compressors = ctx.negotiated
      BY <3>2, <3>3 DEF NegotiationInv, WithHeader
    <3> QED BY <3>1, <3>2, <3>4, NegotiationWritten
  <2>5. CASE EncodeFramed
    <3>1. /\ ctx'.negotiated = ctx.negotiated /\ log' = log /\ wire' = wire
          /\ pending' = pending /\ pc = "send" /\ pc' = "flush"
          /\ wbuf' = Append(wbuf, WithHeader(pending))
      BY <2>5, <2>a DEF EncodeFramed, NextRequestId
    <3>2. wbuf' = <<WithHeader(pending)>>
      BY <3>1 DEF ReplyInv
    <3>3. wbuf'[1].compressors = pending.compressors
      BY <3>2 DEF WithHeader
    <3> QED BY <3>1, <3>3 DEF NegotiationInv, Latest, HandshakeAt
  <2>6. CASE FlushFramed
    <3>1. /\ wire \in Seq(Written) /\ wbuf \in Seq(Written) /\ Len(wbuf) = 1
          /\ wbuf[1].response_to = Len(log) /\ wire' = wire \o wbuf
          /\ ctx' = ctx /\ log' = log /\ pc = "flush" /\ pc' = "read"
      BY <2>6 DEF ReplyInv, TypeOK, FlushFramed
    <3>2. wbuf[1] \in Written /\ wire' = Append(wire, wbuf[1])
      BY <3>1, ConcatOne
    <3>3. Len(log) \in DOMAIN log
      BY <3>1 DEF ReplyInv, TypeOK
    <3>4. Latest(Len(log)) => wbuf[1].compressors = ctx.negotiated
      BY <3>1, <3>3 DEF NegotiationInv
    <3> QED BY <3>1, <3>2, <3>4, NegotiationWritten
  <2>7. CASE SendFails \/ EndOfStream
    <3>1. /\ ctx'.negotiated = ctx.negotiated /\ log' = log /\ wire' = wire /\ pc' = "closed"
      BY <2>7, <2>a DEF SendFails, EndOfStream, NextRequestId
    <3> QED BY <3>1 DEF NegotiationInv, Latest, HandshakeAt
  <2>8. CASE Client \/ UNCHANGED vars
    <3>1. UNCHANGED <<pc, ctx, pending, wbuf, wire, log>>
      BY <2>8, Zenon DEF Client, Submit, ClientCloses, vars
    <3> QED BY <3>1 DEF NegotiationInv, Latest, HandshakeAt
  <2> QED
    BY <2>1, <2>2, <2>3, <2>4, <2>5, <2>6, <2>7, <2>8 DEF Next, Server
<1>3. ReplyInv /\ NegotiationInv => NegotiationAgrees
  BY DEF ReplyInv, NegotiationInv, NegotiationAgrees, Latest, Preferred
<1> QED
  BY <1>1, <1>2, <1>3, InitInv, NextInv, PTL DEF Spec
=============================================================================
