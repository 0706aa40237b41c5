-------------------------- MODULE ConnectionProofs --------------------------
(***************************************************************************)
(* The reply discipline of Connection, for any number of requests, any       *)
(* frames and any behaviour of the inner handler: which requests are          *)
(* answered and when, what ends the connection, what a saslContinue may       *)
(* finish, and that the loop implements RequestReply.                         *)
(***************************************************************************)
EXTENDS Connection, TLAPS

\* The strengthening that makes the properties inductive.  Frames are numbered
\* in the order they are taken; the reply being written answers the frame taken
\* last; the buffer holds that reply or nothing; every reply on the socket is
\* due, and every reply that is due is on the socket or being written.
ReplyInv ==
  /\ TypeOK
  /\ \A i \in DOMAIN inbox : inbox[i].id = Len(log) + i
  /\ pc \in {"send", "flush"} =>
       Len(log) > 0 /\ pending.response_to = Len(log) /\ Due(log[Len(log)])
  /\ pc = "flush" => Len(wbuf) = 1 /\ wbuf[1].response_to = Len(log)
  /\ pc # "flush" => wbuf = << >>
  /\ \A j \in DOMAIN wire :
       /\ wire[j].response_to \in DOMAIN log
       /\ Due(log[wire[j].response_to])
       /\ pc \in {"send", "flush"} => wire[j].response_to < Len(log)
  /\ pc # "closed" =>
       \A i \in DOMAIN log : Due(log[i]) =>
         Answered(i) \/ (i = Len(log) /\ pc \in {"send", "flush"})
  /\ RepliesInOrder

-----------------------------------------------------------------------------
(* Sequences *)

\* The empty sequence.
LEMMA EmptyFacts ==
  ASSUME NEW S
  PROVE  << >> \in Seq(S) /\ Len(<< >>) = 0 /\ DOMAIN << >> = {}
  OBVIOUS

\* Append: length, elements and domain.
LEMMA AppendFacts ==
  ASSUME NEW S, NEW s \in Seq(S), NEW x \in S
  PROVE  /\ Append(s, x) \in Seq(S)
         /\ Len(s) \in Nat /\ DOMAIN s = 1..Len(s)
         /\ Len(Append(s, x)) = Len(s) + 1
         /\ DOMAIN Append(s, x) = 1..(Len(s) + 1)
         /\ \A i \in 1..Len(s) : Append(s, x)[i] = s[i]
         /\ Append(s, x)[Len(s) + 1] = x
  OBVIOUS

\* Tail: length and elements.
LEMMA TailFacts ==
  ASSUME NEW S, NEW s \in Seq(S), s # << >>
  PROVE  /\ Head(s) \in S /\ Head(s) = s[1]
         /\ Tail(s) \in Seq(S)
         /\ Len(s) \in Nat /\ Len(s) > 0 /\ DOMAIN s = 1..Len(s)
         /\ Len(Tail(s)) = Len(s) - 1
         /\ DOMAIN Tail(s) = 1..(Len(s) - 1)
         /\ \A i \in 1..(Len(s) - 1) : Tail(s)[i] = s[i + 1]
  OBVIOUS

\* The elements of a sequence.
LEMMA SeqFacts ==
  ASSUME NEW S, NEW s \in Seq(S)
  PROVE  Len(s) \in Nat /\ DOMAIN s = 1..Len(s) /\ \A i \in 1..Len(s) : s[i] \in S
  OBVIOUS

\* Sequences with the same elements.
LEMMA SameElements ==
  ASSUME NEW S, NEW s \in Seq(S), NEW t \in Seq(S), Len(s) = Len(t),
         \A i \in 1..Len(s) : s[i] = t[i]
  PROVE  s = t
<1>1. /\ DOMAIN s = 1..Len(s) /\ DOMAIN t = 1..Len(t)
      /\ s = [i \in DOMAIN s |-> s[i]] /\ t = [i \in DOMAIN t |-> t[i]]
  OBVIOUS
<1> QED
  BY <1>1, Zenon

\* Flushing a buffer of one frame appends that frame.
LEMMA ConcatOne ==
  ASSUME NEW S, NEW s \in Seq(S), NEW t \in Seq(S), Len(t) = 1
  PROVE  t[1] \in S /\ s \o t = Append(s, t[1])
<1>1. t[1] \in S
  <2>1. 1 \in 1..Len(t)
    OBVIOUS
  <2> QED
    BY <2>1, SeqFacts
<1>2. t = <<t[1]>>
  BY <1>1
<1>3. s \o <<t[1]>> = Append(s, t[1])
  BY <1>1
<1> QED
  BY <1>1, <1>2, <1>3, Zenon

-----------------------------------------------------------------------------
(* The handlers *)

\* The kinds of outcome a handler can end with.
HandlerOutcome ==
  {"msg", "no_reply", "command_error", "protocol_error"}

\* The bridge answers, or fails with one of the two kinds of error.
LEMMA SaslOutcome ==
  ASSUME NEW auth, NEW body, NEW nonce
  PROVE  /\ SaslStart(auth, body, nonce).outcome.kind
              \in {"msg", "command_error", "protocol_error"}
         /\ SaslContinue(auth, body).outcome.kind
              \in {"msg", "command_error", "protocol_error"}
  BY DEF SaslStart, SaslContinue, Handled, Reply, CommandError, ProtocolError, Unreadable

\* What HandleCommand can do to the context and hand back to the loop.
LEMMA HandlerResult ==
  ASSUME NEW c, DOMAIN c = {"negotiated", "auth", "next_id", "checksum"},
         NEW f \in Frames, f.body.op = "msg",
         NEW result \in HandleCommand(c, f.body)
  PROVE  /\ DOMAIN result.ctx = DOMAIN c
         /\ result.ctx.next_id = c.next_id
         /\ result.ctx.checksum = c.checksum
         /\ result.outcome.kind \in HandlerOutcome
         /\ result.outcome.kind = "msg" =>
              /\ result.outcome.form \in {"fresh", "carried", "huge"}
              /\ result.outcome.compressors \in Advertised
<1>1. CASE f.body.command \in {"saslStart", "saslContinue"}
  <2> DEFINE sasl == IF f.body.command = "saslStart"
                     THEN SaslStart(c.auth, f.body.args, nonces + 1)
                     ELSE SaslContinue(c.auth, f.body.args)
  <2>1. sasl.outcome.kind \in {"msg", "command_error", "protocol_error"}
    BY SaslOutcome
  <2>2. result = [ctx |-> [c EXCEPT !.auth = sasl.auth], outcome |-> AsOutcome(sasl.outcome)]
    BY <1>1 DEF HandleCommand
  <2>3. AsOutcome(sasl.outcome).kind \in HandlerOutcome
    BY <2>1 DEF AsOutcome, Msg, HandlerOutcome
  <2>4. AsOutcome(sasl.outcome).kind = "msg" => AsOutcome(sasl.outcome) = Msg("fresh", None)
    BY DEF AsOutcome
  <2> HIDE DEF sasl
  <2> QED
    BY <2>2, <2>3, <2>4 DEF Msg, Advertised
<1>2. CASE f.body.command \notin {"saslStart", "saslContinue"}
  <2>0. result \in Builtin(c, f.body)
    BY <1>2 DEF HandleCommand
  <2> DEFINE negotiated == Negotiate(BuiltinOffered, f.body.args.compression)
  <2>1. CASE IsHandshake(f.body.command)
    <3>1. negotiated \in Advertised
      BY <2>1 DEF Advertised, HasCommand
    <3>2. result = [ctx |-> [c EXCEPT !.negotiated = negotiated],
                    outcome |-> Msg("fresh", negotiated)]
      BY <2>0, <2>1 DEF Builtin
    <3> HIDE DEF negotiated
    <3> QED
      BY <3>1, <3>2 DEF Msg, HandlerOutcome
  <2>2. CASE f.body.command = "ping"
    <3>1. result = [ctx |-> c, outcome |-> Msg("fresh", None)]
      BY <2>0, <2>2 DEF Builtin, IsHandshake
    <3> QED
      BY <3>1 DEF Msg, HandlerOutcome, Advertised
  <2>3. CASE ~IsHandshake(f.body.command) /\ f.body.command # "ping"
    <3>1. PICK o \in InnerOutcomes : result = [ctx |-> c, outcome |-> o]
      BY <2>0, <2>3 DEF Builtin
    <3> QED
      BY <3>1, InnerAssumption DEF HandlerOutcome, Advertised
  <2> QED
    BY <2>1, <2>2, <2>3
<1> QED
  BY <1>1, <1>2

\* A new connection satisfies the invariant.
LEMMA InitInv == Init => ReplyInv
<1> SUFFICES ASSUME Init PROVE ReplyInv
  OBVIOUS
<1>1. PICK checksum \in Checksums :
        ctx = [negotiated |-> << >>, auth |-> NoAuth, next_id |-> 0, checksum |-> checksum]
  BY DEF Init
<1>2. /\ DOMAIN ctx = {"negotiated", "auth", "next_id", "checksum"}
      /\ ctx.next_id \in 0..(IdSpace - 1)
      /\ ctx.checksum \in BOOLEAN
  BY <1>1, BoundsAssumption, ChecksumsAssumption
<1>3. /\ inbox \in Seq(Received) /\ wbuf \in Seq(Written) /\ wire \in Seq(Written)
      /\ log \in Seq(Logged) /\ Len(log) = 0 /\ Len(inbox) = 0
      /\ DOMAIN inbox = {} /\ DOMAIN wire = {} /\ DOMAIN log = {}
  BY EmptyFacts DEF Init
<1>4. pc = "read" /\ sent = 0 /\ nonces = 0 /\ eof = FALSE /\ wbuf = << >>
  BY DEF Init
<1>5. TypeOK
  <2>1. sent \in 0..MaxRequests /\ Len(log) + Len(inbox) = sent /\ nonces \in 0..Len(log)
    BY <1>3, <1>4, BoundsAssumption
  <2>2. /\ pc \in {"read", "send", "flush", "closed"} /\ eof \in BOOLEAN
        /\ pc \in {"send", "flush"} => pending \in Unsent
    BY <1>4, Zenon
  <2> QED
    BY <1>2, <1>3, <2>1, <2>2 DEF TypeOK
<1> QED
  BY <1>3, <1>4, <1>5 DEF ReplyInv, RepliesInOrder

-----------------------------------------------------------------------------
(* One lemma per kind of step.  The client's steps come first. *)

\* A request the client sends waits behind the others.
LEMMA SubmitInv ==
  ASSUME ReplyInv, NEW f \in Frames, Submit(f)
  PROVE  ReplyInv'
<1> DEFINE frame == [id |-> sent + 1, wrap |-> f.wrap, body |-> f.body]
<1>0. inbox \in Seq(Received) /\ log \in Seq(Logged) /\ sent \in 0..MaxRequests
  BY DEF ReplyInv, TypeOK
<1>1. frame \in Received
  BY <1>0, BoundsAssumption, FramesAssumption DEF Received
<1>2. /\ inbox' = Append(inbox, frame) /\ frame.id = Len(log) + Len(inbox) + 1
      /\ UNCHANGED log /\ sent' = sent + 1 /\ sent < MaxRequests
      /\ sent = Len(log) + Len(inbox)
      /\ \A i \in DOMAIN inbox : inbox[i].id = Len(log) + i
  BY DEF ReplyInv, TypeOK, Submit
<1> HIDE DEF frame
<1>a. /\ inbox' \in Seq(Received)
      /\ Len(inbox) \in Nat /\ DOMAIN inbox = 1..Len(inbox)
      /\ Len(inbox') = Len(inbox) + 1
      /\ DOMAIN inbox' = 1..(Len(inbox) + 1)
      /\ \A i \in 1..Len(inbox) : inbox'[i] = inbox[i]
      /\ inbox'[Len(inbox) + 1] = frame
  BY <1>0, <1>1, <1>2, AppendFacts
<1>3. /\ inbox' \in Seq(Received)
      /\ Len(inbox') = Len(inbox) + 1
      /\ \A i \in DOMAIN inbox' : inbox'[i].id = Len(log) + i
  BY <1>0, <1>2, <1>a
<1>4. sent' \in 0..MaxRequests /\ Len(log') + Len(inbox') = sent'
  BY <1>0, <1>2, <1>3, BoundsAssumption
<1> QED
  BY <1>2, <1>3, <1>4 DEF ReplyInv, TypeOK, Submit, RepliesInOrder, Answered, Due

\* Closing its side does not disturb what the client has sent or received.
LEMMA ClientClosesInv == ReplyInv /\ ClientCloses => ReplyInv'
  BY DEF ReplyInv, TypeOK, ClientCloses, RepliesInOrder, Answered, Due

\* The loop ends between two frames.
LEMMA EndOfStreamInv == ReplyInv /\ EndOfStream => ReplyInv'
  BY DEF ReplyInv, TypeOK, EndOfStream, RepliesInOrder, Answered, Due

-----------------------------------------------------------------------------
(* send_reply *)

\* Taking a requestID keeps the context well formed.
LEMMA NextRequestIdType ==
  ASSUME TypeOK
  PROVE  /\ DOMAIN NextRequestId = {"negotiated", "auth", "next_id", "checksum"}
         /\ NextRequestId.next_id \in 0..(IdSpace - 1)
         /\ NextRequestId.checksum \in BOOLEAN
  BY BoundsAssumption DEF TypeOK, NextRequestId

\* The header send_reply builds makes a well-formed frame.
LEMMA WithHeaderType ==
  ASSUME TypeOK, pending \in Unsent
  PROVE  WithHeader(pending) \in Written /\ WithHeader(pending).response_to = pending.response_to
  BY DEF TypeOK, WithHeader, Unsent, Written

\* A reply that cannot be sent closes the connection.
LEMMA SendFailsInv == ReplyInv /\ SendFails => ReplyInv'
<1> SUFFICES ASSUME ReplyInv, SendFails PROVE ReplyInv'
  OBVIOUS
<1>1. /\ DOMAIN ctx' = {"negotiated", "auth", "next_id", "checksum"}
      /\ ctx'.next_id \in 0..(IdSpace - 1)
      /\ ctx'.checksum \in BOOLEAN
  BY NextRequestIdType DEF ReplyInv, TypeOK, SendFails
<1> QED
  BY <1>1 DEF ReplyInv, TypeOK, SendFails, RepliesInOrder, Answered, Due

\* The common part of the two ways a reply reaches the socket.
LEMMA ReplyWritten ==
  ASSUME ReplyInv, pc \in {"send", "flush"}, UNCHANGED log,
         NEW reply \in Written, reply.response_to = Len(log), wire' = Append(wire, reply)
  PROVE  /\ wire' \in Seq(Written)
         /\ \A j \in DOMAIN wire' :
              wire'[j].response_to \in DOMAIN log /\ Due(log[wire'[j].response_to])
         /\ \A i \in DOMAIN log : Due(log[i]) => \E j \in DOMAIN wire' : wire'[j].response_to = i
         /\ RepliesInOrder'
<1>0. wire \in Seq(Written) /\ log \in Seq(Logged) /\ Len(log) > 0 /\ Due(log[Len(log)])
  BY DEF ReplyInv, TypeOK
<1>1. /\ wire' \in Seq(Written)
      /\ DOMAIN wire' = 1..(Len(wire) + 1)
      /\ \A j \in 1..Len(wire) : wire'[j] = wire[j]
      /\ wire'[Len(wire) + 1] = reply
      /\ DOMAIN wire = 1..Len(wire) /\ Len(wire) \in Nat
  BY <1>0, AppendFacts
<1>2. /\ \A j \in DOMAIN wire :
           /\ wire[j].response_to \in DOMAIN log
           /\ Due(log[wire[j].response_to])
           /\ wire[j].response_to < Len(log)
      /\ Len(log) \in DOMAIN log
  BY <1>0 DEF ReplyInv
<1>3. \A j \in DOMAIN wire' :
        wire'[j].response_to \in DOMAIN log /\ Due(log[wire'[j].response_to])
  BY <1>0, <1>1, <1>2
<1>4. ASSUME NEW i \in DOMAIN log, Due(log[i])
      PROVE  \E j \in DOMAIN wire' : wire'[j].response_to = i
  <2>1. CASE Answered(i)
    BY <1>1, <2>1 DEF Answered
  <2>2. CASE i = Len(log)
    <3> WITNESS Len(wire) + 1 \in DOMAIN wire'
    <3> QED
      BY <1>1, <2>2
  <2> QED
    BY <1>4, <2>1, <2>2 DEF ReplyInv
<1>5. RepliesInOrder'
  <2>1. RepliesInOrder
    BY DEF ReplyInv
  <2> QED
    BY <1>1, <1>2, <2>1 DEF RepliesInOrder
<1> QED
  BY <1>1, <1>3, <1>4, <1>5

\* The path that bypasses Framed writes the reply that is due.
LEMMA WriteDirectInv == ReplyInv /\ WriteDirect => ReplyInv'
<1> SUFFICES ASSUME ReplyInv, WriteDirect PROVE ReplyInv'
  OBVIOUS
<1>1. WithHeader(pending) \in Written /\ WithHeader(pending).response_to = Len(log)
  BY WithHeaderType DEF ReplyInv, TypeOK, WriteDirect
<1>2. /\ wire' \in Seq(Written)
      /\ \A j \in DOMAIN wire' :
           wire'[j].response_to \in DOMAIN log /\ Due(log[wire'[j].response_to])
      /\ \A i \in DOMAIN log : Due(log[i]) => \E j \in DOMAIN wire' : wire'[j].response_to = i
      /\ RepliesInOrder'
  BY <1>1, ReplyWritten DEF WriteDirect
<1> QED
  BY <1>2, NextRequestIdType, Zenon DEF ReplyInv, TypeOK, WriteDirect, Answered, Due

\* The path through Framed leaves exactly one frame in its buffer.
LEMMA EncodeFramedInv == ReplyInv /\ EncodeFramed => ReplyInv'
<1> SUFFICES ASSUME ReplyInv, EncodeFramed PROVE ReplyInv'
  OBVIOUS
<1>1. WithHeader(pending) \in Written /\ WithHeader(pending).response_to = Len(log)
  BY WithHeaderType DEF ReplyInv, TypeOK, EncodeFramed
<1>2. wbuf' \in Seq(Written) /\ Len(wbuf') = 1 /\ wbuf'[1].response_to = Len(log)
  BY <1>1 DEF ReplyInv, TypeOK, EncodeFramed
<1> QED
  BY <1>2, NextRequestIdType DEF ReplyInv, TypeOK, EncodeFramed, RepliesInOrder, Answered, Due

\* Flushing writes the reply that is due and empties the buffer.
LEMMA FlushFramedInv == ReplyInv /\ FlushFramed => ReplyInv'
<1> SUFFICES ASSUME ReplyInv, FlushFramed PROVE ReplyInv'
  OBVIOUS
<1>0. /\ wire \in Seq(Written) /\ wbuf \in Seq(Written) /\ Len(wbuf) = 1
      /\ wbuf[1].response_to = Len(log) /\ wire' = wire \o wbuf
  BY DEF ReplyInv, TypeOK, FlushFramed
<1>1. wbuf[1] \in Written /\ wbuf[1].response_to = Len(log)
  BY <1>0, ConcatOne
<1>2. wire' = Append(wire, wbuf[1])
  BY <1>0, ConcatOne
<1>3. /\ wire' \in Seq(Written)
      /\ \A j \in DOMAIN wire' :
           wire'[j].response_to \in DOMAIN log /\ Due(log[wire'[j].response_to])
      /\ \A i \in DOMAIN log : Due(log[i]) => \E j \in DOMAIN wire' : wire'[j].response_to = i
      /\ RepliesInOrder'
  BY <1>1, <1>2, ReplyWritten DEF FlushFramed
<1>4. wbuf' \in Seq(Written)
  BY EmptyFacts DEF FlushFramed
<1> QED
  BY <1>3, <1>4, Zenon DEF ReplyInv, TypeOK, FlushFramed, Answered, Due

-----------------------------------------------------------------------------
(* Taking a frame *)

\* The kinds of entry the loop logs.
Kinds == HandlerOutcome \cup {"closed", "ignored"}

\* What a frame at the head of the queue is known to be.
LEMMA HeadFrame ==
  ASSUME ReplyInv, Take
  PROVE  \E f \in Frames :
           /\ Head(inbox).body = f.body
           /\ Head(inbox).id = Len(log) + 1
           /\ \A kind \in Kinds : Entry(Head(inbox), kind) \in Logged
<1>1. inbox \in Seq(Received) /\ inbox # << >> /\ log \in Seq(Logged)
      /\ \A i \in DOMAIN inbox : inbox[i].id = Len(log) + i
  BY DEF ReplyInv, TypeOK, Take
<1>2. /\ Head(inbox) \in Received /\ Head(inbox) = inbox[1]
      /\ DOMAIN inbox = 1..Len(inbox) /\ Len(inbox) \in Nat /\ Len(inbox) > 0
  BY <1>1, TailFacts
<1>3. Head(inbox).id = Len(log) + 1 /\ Head(inbox).id \in Nat
  BY <1>1, <1>2 DEF Received
<1>4. PICK f \in Frames : Head(inbox).body = f.body
  BY <1>2 DEF Received
<1>5. ASSUME NEW kind \in Kinds PROVE Entry(Head(inbox), kind) \in Logged
  <2> DEFINE command == IF HasCommand(Head(inbox)) THEN Head(inbox).body.command ELSE "none"
  <2>1. command \in Commands
    BY <1>4 DEF HasCommand, Commands
  <2>2. OneWay(Head(inbox)) \in BOOLEAN
    BY <1>4, FramesAssumption DEF OneWay
  <2>3. Entry(Head(inbox), kind) =
          [id |-> Head(inbox).id, kind |-> kind, more |-> OneWay(Head(inbox)),
           presents |-> Presents(Head(inbox)), command |-> command]
    BY DEF Entry
  <2>4. Presents(Head(inbox)) \in BOOLEAN
    BY DEF Presents
  <2> HIDE DEF command
  <2> QED
    BY <1>3, <2>1, <2>2, <2>3, <2>4 DEF Logged, Kinds, HandlerOutcome
<1> QED
  BY <1>3, <1>4, <1>5

\* The common part of every step that takes a frame and logs it.
LEMMA Dispatched ==
  ASSUME ReplyInv, Take, NEW entry \in Logged, log' = Append(log, entry)
  PROVE  /\ inbox' \in Seq(Received)
         /\ log' \in Seq(Logged)
         /\ Len(log) \in Nat /\ Len(log') = Len(log) + 1 /\ DOMAIN log' = 1..(Len(log) + 1)
         /\ DOMAIN log = 1..Len(log)
         /\ \A i \in 1..Len(log) : log'[i] = log[i]
         /\ log'[Len(log) + 1] = entry
         /\ Len(log') + Len(inbox') = sent'
         /\ \A i \in DOMAIN inbox' : inbox'[i].id = Len(log') + i
<1>1. /\ inbox \in Seq(Received) /\ inbox # << >> /\ log \in Seq(Logged)
      /\ \A i \in DOMAIN inbox : inbox[i].id = Len(log) + i
      /\ Len(log) + Len(inbox) = sent /\ inbox' = Tail(inbox) /\ sent' = sent
  BY DEF ReplyInv, TypeOK, Take
<1>2. /\ log' \in Seq(Logged)
      /\ Len(log) \in Nat /\ Len(log') = Len(log) + 1 /\ DOMAIN log' = 1..(Len(log) + 1)
      /\ DOMAIN log = 1..Len(log)
      /\ \A i \in 1..Len(log) : log'[i] = log[i]
      /\ log'[Len(log) + 1] = entry
  BY <1>1, AppendFacts
<1>3. /\ inbox' \in Seq(Received)
      /\ Len(inbox) \in Nat /\ Len(inbox) > 0 /\ DOMAIN inbox = 1..Len(inbox)
      /\ Len(inbox') = Len(inbox) - 1
      /\ DOMAIN inbox' = 1..(Len(inbox) - 1)
      /\ \A i \in 1..(Len(inbox) - 1) : inbox'[i] = inbox[i + 1]
  BY <1>1, TailFacts
<1>4. Len(log') + Len(inbox') = sent'
  BY <1>1, <1>2, <1>3
<1>5. ASSUME NEW i \in DOMAIN inbox' PROVE inbox'[i].id = Len(log') + i
  <2>1. i \in 1..(Len(inbox) - 1) /\ i + 1 \in DOMAIN inbox
    BY <1>3
  <2>2. inbox'[i].id = Len(log) + (i + 1)
    BY <1>1, <1>3, <2>1
  <2> QED
    BY <1>2, <2>1, <2>2
<1> QED
  BY <1>2, <1>3, <1>4, <1>5

\* A frame has been dispatched, and the loop either goes on without owing a
\* reply, or closes, or starts to write the reply the frame is due.
LEMMA DispatchInv ==
  ASSUME ReplyInv, Take, NEW entry \in Logged, log' = Append(log, entry),
         DOMAIN ctx' = {"negotiated", "auth", "next_id", "checksum"},
         ctx'.next_id = ctx.next_id, ctx'.checksum = ctx.checksum,
         nonces' \in {nonces, nonces + 1},
         \/ pc' = "closed"
         \/ pc' = "read" /\ ~Due(entry)
         \/ pc' = "send" /\ Due(entry) /\ pending' \in Unsent
            /\ pending'.response_to = Len(log) + 1
  PROVE  ReplyInv'
<1>1. /\ inbox' \in Seq(Received)
      /\ log' \in Seq(Logged)
      /\ Len(log) \in Nat /\ Len(log') = Len(log) + 1 /\ DOMAIN log' = 1..(Len(log) + 1)
      /\ DOMAIN log = 1..Len(log)
      /\ \A i \in 1..Len(log) : log'[i] = log[i]
      /\ log'[Len(log) + 1] = entry
      /\ Len(log') + Len(inbox') = sent'
      /\ \A i \in DOMAIN inbox' : inbox'[i].id = Len(log') + i
  BY Dispatched
<1>2. pc = "read" /\ wbuf = << >> /\ UNCHANGED <<sent, eof, wbuf, wire>>
  BY DEF ReplyInv, Take
<1>3. TypeOK'
  <2>1. nonces' \in 0..Len(log')
    <3>1. nonces \in 0..Len(log)
      BY DEF ReplyInv, TypeOK
    <3> QED
      BY <1>1, <3>1
  <2>2. /\ wbuf' \in Seq(Written) /\ wire' \in Seq(Written)
        /\ sent' \in 0..MaxRequests /\ eof' \in BOOLEAN
        /\ ctx'.next_id \in 0..(IdSpace - 1) /\ ctx'.checksum \in BOOLEAN
    BY <1>2 DEF ReplyInv, TypeOK
  <2>3. /\ pc' \in {"read", "send", "flush", "closed"}
        /\ pc' \in {"send", "flush"} => pending' \in Unsent
    OBVIOUS
  <2> QED
    BY <1>1, <2>1, <2>2, <2>3 DEF TypeOK
<1>4. \A j \in DOMAIN wire' :
        /\ wire'[j].response_to \in DOMAIN log'
        /\ Due(log'[wire'[j].response_to])
        /\ pc' \in {"send", "flush"} => wire'[j].response_to < Len(log')
  BY <1>1, <1>2 DEF ReplyInv
<1>5. \A i \in 1..Len(log) : Due(log[i]) => Answered(i)
  BY <1>1, <1>2 DEF ReplyInv
<1>6. \A i \in 1..Len(log) : Due(log'[i]) => Answered(i)'
  BY <1>1, <1>2, <1>5 DEF Answered
<1>7. pc' # "closed" =>
        \A i \in DOMAIN log' : Due(log'[i]) =>
          Answered(i)' \/ (i = Len(log') /\ pc' \in {"send", "flush"})
  BY <1>1, <1>6
<1>8. RepliesInOrder'
  BY <1>2 DEF ReplyInv, RepliesInOrder
<1>9. pc' \in {"send", "flush"} =>
        Len(log') > 0 /\ pending'.response_to = Len(log') /\ Due(log'[Len(log')])
  BY <1>1
<1>10. pc' # "flush" /\ wbuf' = << >>
  BY <1>2
<1> QED
  BY <1>1, <1>3, <1>4, <1>7, <1>8, <1>9, <1>10 DEF ReplyInv, Due, Answered

\* A frame that cannot be used closes the connection and is due no reply.
LEMMA CloseOnBadFrameInv == ReplyInv /\ CloseOnBadFrame => ReplyInv'
<1> SUFFICES ASSUME ReplyInv, CloseOnBadFrame PROVE ReplyInv'
  OBVIOUS
<1>1. /\ Take /\ log' = Append(log, Entry(Head(inbox), "closed")) /\ pc' = "closed"
      /\ UNCHANGED <<ctx, nonces>>
  BY DEF CloseOnBadFrame
<1>2. Entry(Head(inbox), "closed") \in Logged
  BY <1>1, HeadFrame DEF Kinds
<1> QED
  BY <1>1, <1>2, DispatchInv, Zenon DEF ReplyInv, TypeOK

\* An OP_REPLY is due no reply.
LEMMA IgnoreReplyInv == ReplyInv /\ IgnoreReply => ReplyInv'
<1> SUFFICES ASSUME ReplyInv, IgnoreReply PROVE ReplyInv'
  OBVIOUS
<1>1. /\ Take /\ log' = Append(log, Entry(Head(inbox), "ignored")) /\ pc' = "read"
      /\ UNCHANGED <<ctx, nonces>>
  BY DEF IgnoreReply, Take
<1>2. Entry(Head(inbox), "ignored") \in Logged
  BY <1>1, HeadFrame DEF Kinds
<1>3. ~Due(Entry(Head(inbox), "ignored"))
  BY DEF Due, Entry
<1> QED
  BY <1>1, <1>2, <1>3, DispatchInv, Zenon DEF ReplyInv, TypeOK

\* An OP_QUERY is due the reply that is being written.
LEMMA AnswerQueryInv == ReplyInv /\ AnswerQuery => ReplyInv'
<1> SUFFICES ASSUME ReplyInv, AnswerQuery PROVE ReplyInv'
  OBVIOUS
<1> DEFINE frame      == Head(inbox)
           handshake  == IsHandshake(frame.body.command)
           negotiated == Negotiate(Offered, frame.body.args.compression)
           kind       == IF handshake THEN "msg" ELSE "command_error"
           advertised == IF handshake THEN negotiated ELSE None
<1>1. /\ Take /\ frame.body.op = "query" /\ log' = Append(log, Entry(frame, kind))
      /\ ctx' = (IF handshake THEN [ctx EXCEPT !.negotiated = negotiated] ELSE ctx)
      /\ pending' = ReplyTo(frame, "reply", "fresh", advertised)
      /\ pc' = "send" /\ UNCHANGED nonces
  BY DEF AnswerQuery
<1>2. PICK f \in Frames : frame.body = f.body
  BY <1>1, HeadFrame
<1>3. frame.id = Len(log) + 1 /\ Entry(frame, kind) \in Logged
  BY <1>1, HeadFrame DEF Kinds, HandlerOutcome
<1>4. Due(Entry(frame, kind))
  BY <1>1, Zenon DEF Due, Entry, OneWay
<1>5. advertised \in Advertised
  BY <1>1, <1>2 DEF Advertised, HasCommand
<1>6. /\ DOMAIN ctx' = {"negotiated", "auth", "next_id", "checksum"}
      /\ ctx'.next_id = ctx.next_id /\ ctx'.checksum = ctx.checksum
  BY <1>1 DEF ReplyInv, TypeOK
<1>7. Len(log) \in Nat
  BY SeqFacts DEF ReplyInv, TypeOK
<1> HIDE DEF frame, kind, advertised
<1>8. pending' \in Unsent /\ pending'.response_to = Len(log) + 1
  BY <1>1, <1>3, <1>5, <1>7 DEF ReplyTo, Unsent
<1> QED
  BY <1>1, <1>3, <1>4, <1>6, <1>8, DispatchInv

\* An OP_MSG is due what its flags and the outcome of the handler say.
LEMMA RunCommandInv == ReplyInv /\ RunCommand => ReplyInv'
<1> SUFFICES ASSUME ReplyInv, RunCommand PROVE ReplyInv'
  OBVIOUS
<1> DEFINE frame == Head(inbox)
<1>1. Take /\ frame.body.op = "msg"
  BY DEF RunCommand
<1>2. PICK result \in HandleCommand(ctx, frame.body) :
        /\ ctx' = result.ctx
        /\ nonces' \in {nonces, nonces + 1}
        /\ Respond(frame, result.outcome)
        /\ log' = Append(log, Entry(frame, result.outcome.kind))
  BY DEF RunCommand
<1>3. PICK f \in Frames : frame.body = f.body
  BY <1>1, HeadFrame
<1>4. DOMAIN ctx = {"negotiated", "auth", "next_id", "checksum"} /\ Len(log) \in Nat
  BY SeqFacts DEF ReplyInv, TypeOK
<1>5. /\ DOMAIN ctx' = {"negotiated", "auth", "next_id", "checksum"}
      /\ ctx'.next_id = ctx.next_id /\ ctx'.checksum = ctx.checksum
      /\ result.outcome.kind \in HandlerOutcome
      /\ result.outcome.kind = "msg" =>
           /\ result.outcome.form \in {"fresh", "carried", "huge"}
           /\ result.outcome.compressors \in Advertised
  BY <1>1, <1>2, <1>3, <1>4, HandlerResult
<1>6. frame.id = Len(log) + 1 /\ Entry(frame, result.outcome.kind) \in Logged
  BY <1>1, <1>5, HeadFrame DEF Kinds
<1>7. frame.body.more \in BOOLEAN
  BY <1>1, <1>3, FramesAssumption
<1>8. Due(Entry(frame, result.outcome.kind)) <=>
        ~frame.body.more /\ result.outcome.kind \in {"msg", "command_error"}
  BY <1>1, <1>7 DEF Due, Entry, OneWay
<1>9. pc = "read"
  BY <1>1 DEF Take
<1> HIDE DEF frame
<1>10. CASE frame.body.more \/ result.outcome.kind = "no_reply"
  <2>1. pc' = "read" /\ ~Due(Entry(frame, result.outcome.kind))
    BY <1>2, <1>8, <1>9, <1>10 DEF Respond
  <2> QED
    BY <1>1, <1>2, <1>5, <1>6, <2>1, DispatchInv DEF frame
<1>11. CASE ~frame.body.more /\ result.outcome.kind = "protocol_error"
  <2>1. pc' = "closed"
    BY <1>2, <1>11 DEF Respond
  <2> QED
    BY <1>1, <1>2, <1>5, <1>6, <2>1, DispatchInv DEF frame
<1>12. CASE ~frame.body.more /\ result.outcome.kind \in {"msg", "command_error"}
  <2>1. SendBack(frame, result.outcome) /\ Due(Entry(frame, result.outcome.kind))
    BY <1>2, <1>8, <1>12 DEF Respond
  <2>2. /\ ReplyBody(result.outcome).form \in {"fresh", "carried", "huge"}
        /\ ReplyBody(result.outcome).compressors \in Advertised
    BY <1>5, <1>12 DEF ReplyBody, Msg, Advertised
  <2>3. pc' = "send" /\ pending' \in Unsent /\ pending'.response_to = Len(log) + 1
    BY <1>4, <1>6, <2>1, <2>2 DEF SendBack, ReplyTo, Unsent
  <2> QED
    BY <1>1, <1>2, <1>5, <1>6, <2>1, <2>3, DispatchInv DEF frame
<1> QED
  BY <1>5, <1>7, <1>10, <1>11, <1>12 DEF HandlerOutcome

-----------------------------------------------------------------------------
(* The theorems *)

\* Every step preserves the invariant.
LEMMA NextInv == ReplyInv /\ [Next]_vars => ReplyInv'
<1> SUFFICES ASSUME ReplyInv, [Next]_vars PROVE ReplyInv'
  OBVIOUS
<1>1. CASE Server
  BY <1>1, CloseOnBadFrameInv, IgnoreReplyInv, AnswerQueryInv, RunCommandInv, EndOfStreamInv,
     WriteDirectInv, EncodeFramedInv, FlushFramedInv, SendFailsInv DEF Server
<1>2. CASE Client
  BY <1>2, SubmitInv, ClientClosesInv DEF Client
<1>3. CASE UNCHANGED vars
  BY <1>3 DEF vars, ReplyInv, TypeOK, RepliesInOrder, Answered, Due
<1> QED
  BY <1>1, <1>2, <1>3 DEF Next

\* ReplyInv holds in every reachable state.
LEMMA Invariance == Spec => []ReplyInv
  BY InitInv, NextInv, PTL DEF Spec

\* The state of process_socket keeps its shape, and each frame the client sent is
\* either waiting or has been dispatched.
THEOREM TypeCorrect == Spec => []TypeOK
<1>1. ReplyInv => TypeOK
  BY DEF ReplyInv
<1> QED
  BY <1>1, Invariance, PTL

\* Replies go out in request order, at most one per request, whichever of the two
\* write paths of send_reply each of them takes.
THEOREM InOrder == Spec => []RepliesInOrder
<1>1. ReplyInv => RepliesInOrder
  BY DEF ReplyInv
<1> QED
  BY <1>1, Invariance, PTL

\* process_socket never replies to a moreToCome request.
THEOREM OneWay_Unanswered == Spec => []OneWayUnanswered
<1>1. ReplyInv => OneWayUnanswered
  BY DEF ReplyInv, OneWayUnanswered, Due
<1> QED
  BY <1>1, Invariance, PTL

\* Whenever the loop reads the next frame, the requests that were due a reply, and
\* no others, have been answered on the socket.
THEOREM Exact == Spec => []RepliesExact
<1>1. ReplyInv => RepliesExact
  BY DEF ReplyInv, RepliesExact, Answered
<1> QED
  BY <1>1, Invariance, PTL

\* send_reply always finds Framed's write buffer empty, so that writing past it
\* cannot overtake an earlier reply.
THEOREM BufferEmpty == Spec => []BufferEmptyOnSend
<1>1. ReplyInv => BufferEmptyOnSend
  BY DEF ReplyInv, BufferEmptyOnSend
<1> QED
  BY <1>1, Invariance, PTL
-----------------------------------------------------------------------------
(* Protocol errors *)

\* A protocol error of a request that expects a reply.
Fatal(entry) == entry.kind = "protocol_error" /\ ~entry.more

\* A frame is logged, and the loop ends if the entry is fatal.
LEMMA ErrorLogged ==
  ASSUME ReplyInv, TwoWayProtocolErrorCloses, Take, NEW entry \in Logged,
         log' = Append(log, entry), Fatal(entry) => pc' = "closed"
  PROVE  TwoWayProtocolErrorCloses'
<1>1. \A i \in DOMAIN log : ~Fatal(log[i])
  BY DEF TwoWayProtocolErrorCloses, Fatal, Take
<1>2. /\ Len(log) \in Nat /\ Len(log') = Len(log) + 1 /\ DOMAIN log' = 1..(Len(log) + 1)
      /\ DOMAIN log = 1..Len(log)
      /\ \A i \in 1..Len(log) : log'[i] = log[i]
      /\ log'[Len(log) + 1] = entry
  BY Dispatched
<1>3. ASSUME NEW i \in DOMAIN log', Fatal(log'[i]) PROVE pc' = "closed" /\ i = Len(log')
  BY <1>1, <1>2, <1>3
<1> QED
  BY <1>3 DEF TwoWayProtocolErrorCloses, Fatal

\* A protocol error that a handler returns for a request that expects a reply ends the
\* connection: nothing is served after it (mod.rs:207-209).
THEOREM ErrorsClose == Spec => []TwoWayProtocolErrorCloses
<1>1. Init => TwoWayProtocolErrorCloses
  BY DEF Init, TwoWayProtocolErrorCloses
<1>2. ReplyInv /\ TwoWayProtocolErrorCloses /\ [Next]_vars => TwoWayProtocolErrorCloses'
  <2> SUFFICES ASSUME ReplyInv, TwoWayProtocolErrorCloses, [Next]_vars
               PROVE  TwoWayProtocolErrorCloses'
    OBVIOUS
  <2>1. CASE CloseOnBadFrame
    <3>1. Take /\ log' = Append(log, Entry(Head(inbox), "closed"))
      BY <2>1 DEF CloseOnBadFrame
    <3>2. Entry(Head(inbox), "closed") \in Logged /\ ~Fatal(Entry(Head(inbox), "closed"))
      BY <3>1, HeadFrame DEF Kinds, Fatal, Entry
    <3> QED
      BY <3>1, <3>2, ErrorLogged
  <2>2. CASE IgnoreReply
    <3>1. Take /\ log' = Append(log, Entry(Head(inbox), "ignored"))
      BY <2>2 DEF IgnoreReply
    <3>2. Entry(Head(inbox), "ignored") \in Logged /\ ~Fatal(Entry(Head(inbox), "ignored"))
      BY <3>1, HeadFrame DEF Kinds, Fatal, Entry
    <3> QED
      BY <3>1, <3>2, ErrorLogged
  <2>3. CASE AnswerQuery
    <3>1. PICK kind \in {"msg", "command_error"} :
            Take /\ log' = Append(log, Entry(Head(inbox), kind))
      BY <2>3 DEF AnswerQuery
    <3>2. Entry(Head(inbox), kind) \in Logged /\ ~Fatal(Entry(Head(inbox), kind))
      BY <3>1, HeadFrame DEF Kinds, HandlerOutcome, Fatal, Entry
    <3> QED
      BY <3>1, <3>2, ErrorLogged
  <2>4. CASE RunCommand
    <3> DEFINE frame == Head(inbox)
    <3>1. Take /\ frame.body.op = "msg"
      BY <2>4 DEF RunCommand
    <3>2. PICK result \in HandleCommand(ctx, frame.body) :
            /\ Respond(frame, result.outcome)
            /\ log' = Append(log, Entry(frame, result.outcome.kind))
      BY <2>4 DEF RunCommand
    <3>3. PICK f \in Frames : frame.body = f.body
      BY <3>1, HeadFrame
    <3>4. result.outcome.kind \in HandlerOutcome
      BY <3>1, <3>2, <3>3, HandlerResult DEF ReplyInv, TypeOK
    <3>5. Entry(frame, result.outcome.kind) \in Logged
      BY <3>1, <3>4, HeadFrame DEF Kinds
    <3>6. Fatal(Entry(frame, result.outcome.kind)) => pc' = "closed"
      BY <3>1, <3>2, Zenon DEF Fatal, Entry, OneWay, Respond
    <3> HIDE DEF frame
    <3> QED
      BY <3>1, <3>2, <3>5, <3>6, ErrorLogged
  <2>5. CASE EndOfStream \/ WriteDirect \/ EncodeFramed \/ FlushFramed \/ SendFails
    BY <2>5 DEF EndOfStream, WriteDirect, EncodeFramed, FlushFramed, SendFails,
                TwoWayProtocolErrorCloses
  <2>6. CASE Client \/ UNCHANGED vars
    BY <2>6, Zenon DEF Client, Submit, ClientCloses, vars, TwoWayProtocolErrorCloses
  <2> QED
    BY <2>1, <2>2, <2>3, <2>4, <2>5, <2>6 DEF Next, Server
<1> QED
  BY <1>1, <1>2, InitInv, NextInv, PTL DEF Spec

-----------------------------------------------------------------------------
(* Authentication *)

\* The start an exchange in flight came from, with nothing presented to it since.
InFlightFrom(i) ==
  StartedAt(i) /\ \A k \in (i + 1)..Len(log) : ~StartedAt(k) /\ ~log[k].presents

\* The strengthening of ContinueMatchesStart: while the connection is open, an
\* exchange in flight is the one the latest successful saslStart began.
SaslInv ==
  /\ ctx.auth = AuthState(ctx.auth.scram, ctx.auth.authenticated)
  /\ pc # "closed" /\ ctx.auth.scram # None => \E i \in DOMAIN log : InFlightFrom(i)
  /\ ContinueMatchesStart

\* What an entry may say of a step that leads from one exchange to another.
Tells(entry, before, after) ==
  /\ entry.command = "saslContinue" /\ entry.kind = "msg" => before # None
  /\ after # None =>
       \/ entry.command = "saslStart" /\ entry.kind = "msg"
       \/ /\ before # None /\ ~entry.presents
          /\ ~(entry.command = "saslStart" /\ entry.kind = "msg")

\* The outcomes of the bridge that are no reply, and what a handler returns.
LEMMA SaslReturns ==
  /\ CommandError.kind # "msg"
  /\ \A field : Unreadable(field).kind # "msg"
  /\ \A done, payload : Reply(done, payload).kind = "msg"
  /\ \A auth, outcome : Handled(auth, outcome).auth = auth
                       /\ Handled(auth, outcome).outcome = outcome
  /\ \A scram, name : AuthState(scram, name).scram = scram
                     /\ AuthState(scram, name).authenticated = name
  BY DEF CommandError, ProtocolError, Unreadable, Reply, Handled, AuthState

\* sasl_start begins an exchange where there is none, or leaves the state as it was.
LEMMA StartEffect ==
  ASSUME NEW auth, auth = AuthState(auth.scram, auth.authenticated), NEW body, NEW nonce,
         NEW r, r = SaslStart(auth, body, nonce)
  PROVE  \/ r.auth = auth /\ r.outcome.kind # "msg"
         \/ /\ auth.scram = None /\ r.outcome.kind = "msg"
            /\ r.auth = AuthState(r.auth.scram, auth.authenticated)
<1>1. \/ r = Handled(auth, CommandError)
      \/ r = Handled(auth, Unreadable(body.mechanism))
      \/ r = Handled(auth, Unreadable(body.payload.type))
      \/ auth.scram = None /\ \E machine, msg :
           r = Handled([auth EXCEPT !.scram = machine], Reply(FALSE, msg))
  BY Zenon DEF SaslStart
<1>2. CASE auth.scram = None /\ \E machine, msg :
             r = Handled([auth EXCEPT !.scram = machine], Reply(FALSE, msg))
  <2>1. PICK machine, msg : r = Handled([auth EXCEPT !.scram = machine], Reply(FALSE, msg))
    BY <1>2, Zenon
  <2>2. [auth EXCEPT !.scram = machine] = AuthState(machine, auth.authenticated)
    BY DEF AuthState
  <2>3. r.auth = AuthState(machine, auth.authenticated)
    BY <2>1, <2>2 DEF Handled
  <2>4. r.auth = AuthState(r.auth.scram, auth.authenticated)
    BY <2>3, SaslReturns
  <2>5. r.outcome.kind = "msg"
    BY <2>1 DEF Handled, Reply
  <2> QED
    BY <1>2, <2>4, <2>5, Zenon
<1>3. CASE \/ r = Handled(auth, CommandError)
           \/ r = Handled(auth, Unreadable(body.mechanism))
           \/ r = Handled(auth, Unreadable(body.payload.type))
  BY <1>3, SaslReturns
<1> QED
  BY <1>1, <1>2, <1>3, Zenon

\* What sasl_continue can do to the state of the exchange.
Finishes(auth, body, r) ==
  /\ r.auth = AuthState(r.auth.scram, r.auth.authenticated)
  /\ \/ r.auth.scram = None
     \/ r.auth = auth /\ body.payload.type \in {"unusable", "malformed"}
  /\ r.outcome.kind = "msg" => auth.scram # None

\* sasl_continue takes the exchange out unless it cannot read the payload, and
\* succeeds only if there was one.
LEMMA ContinueEffect ==
  ASSUME NEW auth, auth = AuthState(auth.scram, auth.authenticated), NEW body,
         NEW r, r = SaslContinue(auth, body)
  PROVE  Finishes(auth, body, r)
<1>1. \/ /\ r = Handled(auth, Unreadable(body.payload.type))
         /\ body.payload.type \in {"unusable", "malformed"}
      \/ r = Handled(auth, CommandError) /\ auth.scram = None
      \/ auth.scram # None /\ \E name, msg : r = Handled(AuthState(None, name), Reply(TRUE, msg))
      \/ r = Handled([auth EXCEPT !.scram = None], CommandError)
  BY Zenon DEF SaslContinue
<1>2. [auth EXCEPT !.scram = None] = AuthState(None, auth.authenticated)
  BY DEF AuthState
<1>3. CASE r = Handled(auth, Unreadable(body.payload.type))
             /\ body.payload.type \in {"unusable", "malformed"}
  BY <1>3, SaslReturns DEF Finishes
<1>4. CASE r = Handled(auth, CommandError) /\ auth.scram = None
  BY <1>4, SaslReturns DEF Finishes
<1>5. CASE auth.scram # None /\ \E name, msg :
             r = Handled(AuthState(None, name), Reply(TRUE, msg))
  <2>1. PICK name, msg : r = Handled(AuthState(None, name), Reply(TRUE, msg))
    BY <1>5, Zenon
  <2>2. r.auth = AuthState(None, name)
    BY <2>1 DEF Handled
  <2>3. r.auth.scram = None /\ r.auth.authenticated = name
    BY <2>2, SaslReturns
  <2> QED
    BY <1>5, <2>2, <2>3, Zenon DEF Finishes
<1>6. CASE r = Handled([auth EXCEPT !.scram = None], CommandError)
  BY <1>2, <1>6, SaslReturns DEF Finishes
<1> QED
  BY <1>1, <1>3, <1>4, <1>5, <1>6, Zenon

\* A frame is logged with an entry that tells what became of the exchange.
LEMMA ExchangeLogged ==
  ASSUME ReplyInv, SaslInv, Take, NEW entry \in Logged, log' = Append(log, entry),
         ctx'.auth = AuthState(ctx'.auth.scram, ctx'.auth.authenticated),
         entry.command = "saslContinue" /\ entry.kind = "msg" => ctx.auth.scram # None,
         pc' = "closed" \/ Tells(entry, ctx.auth.scram, ctx'.auth.scram)
  PROVE  SaslInv'
<1>1. /\ Len(log) \in Nat /\ Len(log') = Len(log) + 1 /\ DOMAIN log' = 1..(Len(log) + 1)
      /\ DOMAIN log = 1..Len(log)
      /\ \A i \in 1..Len(log) : log'[i] = log[i]
      /\ log'[Len(log) + 1] = entry
  BY Dispatched
<1>2. ctx.auth.scram # None => \E i \in DOMAIN log : InFlightFrom(i)
  BY DEF SaslInv, Take
<1>3. ASSUME pc' # "closed", ctx'.auth.scram # None
      PROVE  \E i \in DOMAIN log' : InFlightFrom(i)'
  <2>1. CASE entry.command = "saslStart" /\ entry.kind = "msg"
    <3>1. PICK n \in DOMAIN log' : n = Len(log) + 1
      BY <1>1
    <3>2. InFlightFrom(n)'
      BY <1>1, <2>1, <3>1 DEF InFlightFrom, StartedAt
    <3> QED
      BY <3>2
  <2>2. CASE /\ ctx.auth.scram # None /\ ~entry.presents
             /\ ~(entry.command = "saslStart" /\ entry.kind = "msg")
    <3>1. PICK i \in DOMAIN log : InFlightFrom(i)
      BY <1>2, <2>2
    <3>2. InFlightFrom(i)'
      BY <1>1, <2>2, <3>1 DEF InFlightFrom, StartedAt
    <3> QED
      BY <1>1, <3>2
  <2> QED
    BY <1>3, <2>1, <2>2 DEF Tells
<1>4. ContinueMatchesStart'
  <2> SUFFICES ASSUME NEW j \in DOMAIN log',
                      log'[j].command = "saslContinue", log'[j].kind = "msg"
               PROVE  \E i \in 1..(j - 1) :
                        /\ StartedAt(i)'
                        /\ \A k \in (i + 1)..(j - 1) : ~StartedAt(k)' /\ ~log'[k].presents
    BY DEF ContinueMatchesStart
  <2>1. CASE j = Len(log) + 1
    <3>1. PICK i \in DOMAIN log : InFlightFrom(i)
      BY <1>1, <1>2, <2>1
    <3> QED
      BY <1>1, <2>1, <3>1 DEF InFlightFrom, StartedAt
  <2>2. CASE j \in DOMAIN log
    <3>1. PICK i \in 1..(j - 1) :
            /\ StartedAt(i)
            /\ \A k \in (i + 1)..(j - 1) : ~StartedAt(k) /\ ~log[k].presents
      BY <1>1, <2>2 DEF SaslInv, ContinueMatchesStart
    <3> QED
      BY <1>1, <2>2, <3>1 DEF StartedAt
  <2> QED
    BY <1>1, <2>1, <2>2
<1> QED
  BY <1>3, <1>4 DEF SaslInv

\* The entry of a dispatched OP_MSG tells what its handler did to the exchange.
LEMMA HandlerTells ==
  ASSUME NEW c, DOMAIN c = {"negotiated", "auth", "next_id", "checksum"},
         c.auth = AuthState(c.auth.scram, c.auth.authenticated),
         NEW frame, frame.body.op = "msg", NEW result \in HandleCommand(c, frame.body)
  PROVE  /\ result.ctx.auth
              = AuthState(result.ctx.auth.scram, result.ctx.auth.authenticated)
         /\ Tells(Entry(frame, result.outcome.kind), c.auth.scram, result.ctx.auth.scram)
<1> DEFINE auth  == c.auth
           body  == frame.body.args
           entry == Entry(frame, result.outcome.kind)
           start == SaslStart(auth, body, nonces + 1)
           cont  == SaslContinue(auth, body)
<1>a. auth = AuthState(auth.scram, auth.authenticated)
  OBVIOUS
<1>b. entry.command = frame.body.command /\ entry.kind = result.outcome.kind
  BY DEF Entry, HasCommand
<1>c. entry.presents =>
        /\ frame.body.command = "saslContinue"
        /\ body.payload.type \notin {"unusable", "malformed"}
  BY DEF Entry, Presents
<1> HIDE DEF entry, body
<1>1. CASE frame.body.command = "saslStart"
  <2>1. result = [ctx |-> [c EXCEPT !.auth = start.auth], outcome |-> AsOutcome(start.outcome)]
    BY <1>1 DEF HandleCommand, body
  <2>2. result.ctx.auth = start.auth /\ result.outcome.kind = start.outcome.kind
    BY <2>1 DEF AsOutcome, Msg
  <2> HIDE DEF auth
  <2>3. \/ start.auth = auth /\ start.outcome.kind # "msg"
        \/ /\ auth.scram = None /\ start.outcome.kind = "msg"
           /\ start.auth = AuthState(start.auth.scram, auth.authenticated)
    BY <1>a, StartEffect
  <2> HIDE DEF start
  <2>4. start.auth = AuthState(start.auth.scram, start.auth.authenticated)
    BY <1>a, <2>3, SaslReturns
  <2>5. Tells(entry, auth.scram, start.auth.scram)
    BY <1>1, <1>b, <1>c, <2>2, <2>3 DEF Tells
  <2> QED
    BY <2>2, <2>4, <2>5 DEF auth, entry
<1>2. CASE frame.body.command = "saslContinue"
  <2>1. result = [ctx |-> [c EXCEPT !.auth = cont.auth], outcome |-> AsOutcome(cont.outcome)]
    BY <1>2 DEF HandleCommand, body
  <2>2. result.ctx.auth = cont.auth /\ result.outcome.kind = cont.outcome.kind
    BY <2>1 DEF AsOutcome, Msg
  <2> HIDE DEF auth
  <2>3. /\ cont.auth = AuthState(cont.auth.scram, cont.auth.authenticated)
        /\ \/ cont.auth.scram = None
           \/ cont.auth = auth /\ body.payload.type \in {"unusable", "malformed"}
        /\ cont.outcome.kind = "msg" => auth.scram # None
    <3>1. PICK r : r = SaslContinue(auth, body)
      OBVIOUS
    <3>2. Finishes(auth, body, r)
      BY <1>a, <3>1, ContinueEffect
    <3> QED
      BY <3>1, <3>2 DEF Finishes
  <2> HIDE DEF cont
  <2>4. Tells(entry, auth.scram, cont.auth.scram)
    BY <1>2, <1>b, <1>c, <2>2, <2>3 DEF Tells
  <2> QED
    BY <2>2, <2>3, <2>4 DEF auth, entry
<1>3. CASE frame.body.command \notin {"saslStart", "saslContinue"}
  <2>1. result \in Builtin(c, frame.body)
    BY <1>3 DEF HandleCommand
  <2>2. result.ctx.auth = c.auth
    BY <2>1 DEF Builtin
  <2>3. Tells(entry, c.auth.scram, result.ctx.auth.scram)
    BY <1>3, <1>b, <1>c, <2>2 DEF Tells
  <2> QED
    BY <2>2, <2>3 DEF entry
<1> QED
  BY <1>1, <1>2, <1>3

\* ScramBridge spends an exchange on the first client-final message it can read: each
\* saslContinue that succeeds finishes the latest saslStart, and nothing was presented
\* to it in between.
THEOREM ExchangesMatch == Spec => []ContinueMatchesStart
<1>1. Init => SaslInv
  BY DEF Init, SaslInv, NoAuth, AuthState, ContinueMatchesStart
<1>2. ReplyInv /\ SaslInv /\ [Next]_vars => SaslInv'
  <2> SUFFICES ASSUME ReplyInv, SaslInv, [Next]_vars PROVE SaslInv'
    OBVIOUS
  <2>a. /\ DOMAIN ctx = {"negotiated", "auth", "next_id", "checksum"}
        /\ ctx.auth = AuthState(ctx.auth.scram, ctx.auth.authenticated)
    BY DEF ReplyInv, TypeOK, SaslInv
  <2>1. CASE CloseOnBadFrame
    <3>1. /\ Take /\ log' = Append(log, Entry(Head(inbox), "closed"))
          /\ pc' = "closed" /\ ctx' = ctx
      BY <2>1 DEF CloseOnBadFrame
    <3>2. Entry(Head(inbox), "closed") \in Logged /\ Entry(Head(inbox), "closed").kind # "msg"
      BY <3>1, HeadFrame DEF Kinds, Entry
    <3> QED
      BY <2>a, <3>1, <3>2, ExchangeLogged
  <2>2. CASE IgnoreReply
    <3> DEFINE entry == Entry(Head(inbox), "ignored")
    <3>1. /\ Take /\ log' = Append(log, entry) /\ ctx' = ctx /\ Head(inbox).body.op = "reply"
      BY <2>2 DEF IgnoreReply
    <3>2. entry \in Logged
      BY <3>1, HeadFrame DEF Kinds
    <3>3. entry.kind # "msg" /\ ~entry.presents
      BY <3>1 DEF Entry, Presents
    <3> HIDE DEF entry
    <3>4. Tells(entry, ctx.auth.scram, ctx'.auth.scram)
      BY <3>1, <3>3 DEF Tells
    <3> QED
      BY <2>a, <3>1, <3>2, <3>3, <3>4, ExchangeLogged
  <2>3. CASE AnswerQuery
    <3> DEFINE frame == Head(inbox)
               kind  == IF IsHandshake(frame.body.command) THEN "msg" ELSE "command_error"
               entry == Entry(frame, kind)
    <3>1. Take /\ log' = Append(log, entry) /\ frame.body.op = "query"
      BY <2>3 DEF AnswerQuery
    <3>2. ctx'.auth = ctx.auth
      BY <2>3, <2>a DEF AnswerQuery
    <3>3. entry \in Logged
      BY <3>1, HeadFrame DEF Kinds, HandlerOutcome
    <3>4. /\ entry.kind = "msg" => entry.command \notin {"saslStart", "saslContinue"}
          /\ ~entry.presents
      BY <3>1 DEF Entry, Presents, HasCommand, IsHandshake
    <3> HIDE DEF entry
    <3>5. Tells(entry, ctx.auth.scram, ctx'.auth.scram)
      BY <3>2, <3>4 DEF Tells
    <3> QED
      BY <2>a, <3>1, <3>2, <3>3, <3>4, <3>5, ExchangeLogged
  <2>4. CASE RunCommand
    <3> DEFINE frame == Head(inbox)
    <3>1. Take /\ frame.body.op = "msg"
      BY <2>4 DEF RunCommand
    <3>2. PICK result \in HandleCommand(ctx, frame.body) :
            ctx' = result.ctx /\ log' = Append(log, Entry(frame, result.outcome.kind))
      BY <2>4 DEF RunCommand
    <3>3. PICK f \in Frames : frame.body = f.body
      BY <3>1, HeadFrame
    <3>4. result.outcome.kind \in HandlerOutcome
      BY <2>a, <3>1, <3>2, <3>3, HandlerResult
    <3>5. Entry(frame, result.outcome.kind) \in Logged
      BY <3>1, <3>4, HeadFrame DEF Kinds
    <3>6. /\ ctx'.auth = AuthState(ctx'.auth.scram, ctx'.auth.authenticated)
          /\ Tells(Entry(frame, result.outcome.kind), ctx.auth.scram, ctx'.auth.scram)
      BY <2>a, <3>1, <3>2, HandlerTells
    <3> DEFINE entry == Entry(frame, result.outcome.kind)
    <3> HIDE DEF frame, entry
    <3>7. entry.command = "saslContinue" /\ entry.kind = "msg" => ctx.auth.scram # None
      BY <3>6 DEF Tells, entry
    <3> QED
      BY <3>1, <3>2, <3>5, <3>6, <3>7, ExchangeLogged DEF entry
  <2>5. CASE WriteDirect \/ EncodeFramed \/ SendFails
    <3>1. ctx'.auth = ctx.auth /\ log' = log /\ pc # "closed"
      BY <2>5, <2>a DEF WriteDirect, EncodeFramed, SendFails, NextRequestId
    <3> QED
      BY <3>1 DEF SaslInv, ContinueMatchesStart, InFlightFrom, StartedAt
  <2>6. CASE EndOfStream \/ FlushFramed \/ Client \/ UNCHANGED vars
    <3>1. ctx' = ctx /\ log' = log /\ (pc' # "closed" => pc # "closed")
      BY <2>6, Zenon DEF EndOfStream, FlushFramed, Client, Submit, ClientCloses, vars
    <3> QED
      BY <3>1 DEF SaslInv, ContinueMatchesStart, InFlightFrom, StartedAt
  <2> QED
    BY <2>1, <2>2, <2>3, <2>4, <2>5, <2>6 DEF Next, Server
<1>3. SaslInv => ContinueMatchesStart
  BY DEF SaslInv
<1> QED
  BY <1>1, <1>2, <1>3, InitInv, NextInv, PTL DEF Spec

-----------------------------------------------------------------------------
(* process_socket implements RequestReply: each step of Connection is a step *)
(* of the abstract specification under Promise's mapping, or a stutter.       *)

\* The two mapped sequences.
QueueOf(frames) == [i \in DOMAIN frames |-> OneWay(frames[i])]
RepliesOf(written) == [j \in DOMAIN written |-> written[j].response_to]

-----------------------------------------------------------------------------
(* The mapping and the sequence operators *)

\* A function on 1..n with values in S is a sequence of length n.
LEMMA FunctionIsSeq ==
  ASSUME NEW S, NEW n \in Nat, NEW g \in [1..n -> S]
  PROVE  g \in Seq(S) /\ Len(g) = n
  OBVIOUS

\* The mapped queue is a sequence as long as the inbox.
LEMMA QueueIsSeq ==
  ASSUME NEW frames \in Seq(Received)
  PROVE  QueueOf(frames) \in Seq(BOOLEAN) /\ Len(QueueOf(frames)) = Len(frames)
<1>1. Len(frames) \in Nat /\ DOMAIN frames = 1..Len(frames)
  BY SeqFacts
<1>2. \A i \in 1..Len(frames) : OneWay(frames[i]) \in BOOLEAN
  <2> SUFFICES ASSUME NEW i \in 1..Len(frames) PROVE OneWay(frames[i]) \in BOOLEAN
    OBVIOUS
  <2>1. frames[i] \in Received
    BY SeqFacts
  <2> QED
    BY <2>1, FramesAssumption DEF OneWay, Received
<1>3. QueueOf(frames) \in [1..Len(frames) -> BOOLEAN]
  BY <1>1, <1>2 DEF QueueOf
<1> QED
  BY <1>1, <1>3, FunctionIsSeq

\* Sending a frame appends its one-way flag to the mapped queue.
LEMMA QueueAppend ==
  ASSUME NEW frames \in Seq(Received), NEW frame \in Received
  PROVE  QueueOf(Append(frames, frame)) = Append(QueueOf(frames), OneWay(frame))
<1> DEFINE after == Append(frames, frame)
           image == Append(QueueOf(frames), OneWay(frame))
<1>1. /\ after \in Seq(Received) /\ Len(frames) \in Nat
      /\ DOMAIN frames = 1..Len(frames) /\ DOMAIN after = 1..(Len(frames) + 1)
      /\ \A i \in 1..Len(frames) : after[i] = frames[i]
      /\ after[Len(frames) + 1] = frame
      /\ Len(after) = Len(frames) + 1
  BY AppendFacts
<1>2. /\ QueueOf(after) \in Seq(BOOLEAN) /\ Len(QueueOf(after)) = Len(frames) + 1
      /\ QueueOf(frames) \in Seq(BOOLEAN) /\ Len(QueueOf(frames)) = Len(frames)
  BY <1>1, QueueIsSeq, Zenon
<1>3. OneWay(frame) \in BOOLEAN
  BY FramesAssumption DEF OneWay, Received
<1> HIDE DEF after
<1>4. /\ image \in Seq(BOOLEAN) /\ Len(image) = Len(frames) + 1
      /\ \A i \in 1..Len(frames) : image[i] = QueueOf(frames)[i]
      /\ image[Len(frames) + 1] = OneWay(frame)
  <2> DEFINE queue == QueueOf(frames)
             flag  == OneWay(frame)
  <2>1. queue \in Seq(BOOLEAN) /\ flag \in BOOLEAN /\ Len(queue) = Len(frames)
    BY <1>2, <1>3
  <2> HIDE DEF queue, flag
  <2>2. /\ Append(queue, flag) \in Seq(BOOLEAN) /\ Len(Append(queue, flag)) = Len(queue) + 1
        /\ \A i \in 1..Len(queue) : Append(queue, flag)[i] = queue[i]
        /\ Append(queue, flag)[Len(queue) + 1] = flag
    BY <2>1, AppendFacts
  <2> QED BY <2>1, <2>2 DEF queue, flag
<1> HIDE DEF image
<1>5. \A i \in 1..(Len(frames) + 1) : QueueOf(after)[i] = image[i]
  BY <1>1, <1>4 DEF QueueOf
<1>6. QueueOf(after) = image
  BY <1>2, <1>4, <1>5, SameElements
<1> QED
  BY <1>6 DEF after, image

\* Taking a frame removes the first one-way flag of the mapped queue.
LEMMA QueueTail ==
  ASSUME NEW frames \in Seq(Received), frames # << >>
  PROVE  /\ QueueOf(frames) # << >>
         /\ QueueOf(Tail(frames)) = Tail(QueueOf(frames))
         /\ Head(QueueOf(frames)) = OneWay(Head(frames))
<1> DEFINE rest  == Tail(frames)
           queue == QueueOf(frames)
<1>1. /\ rest \in Seq(Received) /\ Head(frames) = frames[1]
      /\ Len(frames) \in Nat /\ Len(frames) > 0 /\ DOMAIN frames = 1..Len(frames)
      /\ Len(rest) = Len(frames) - 1 /\ DOMAIN rest = 1..(Len(frames) - 1)
      /\ \A i \in 1..(Len(frames) - 1) : rest[i] = frames[i + 1]
  BY TailFacts
<1>2. /\ queue \in Seq(BOOLEAN) /\ Len(queue) = Len(frames)
      /\ QueueOf(rest) \in Seq(BOOLEAN) /\ Len(QueueOf(rest)) = Len(frames) - 1
  BY <1>1, QueueIsSeq, Zenon
<1>3. queue # << >>
  BY <1>1, <1>2, EmptyFacts
<1>4. \A i \in 1..Len(frames) : queue[i] = OneWay(frames[i])
  BY <1>1 DEF QueueOf
<1> HIDE DEF rest, queue
<1>5. /\ Tail(queue) \in Seq(BOOLEAN) /\ Len(Tail(queue)) = Len(frames) - 1
      /\ Head(queue) = queue[1]
      /\ \A i \in 1..(Len(frames) - 1) : Tail(queue)[i] = queue[i + 1]
  BY <1>2, <1>3, TailFacts
<1>6. ASSUME NEW i \in 1..(Len(frames) - 1) PROVE QueueOf(rest)[i] = Tail(queue)[i]
  <2>1. QueueOf(rest)[i] = OneWay(rest[i])
    BY <1>1 DEF QueueOf
  <2>2. i + 1 \in 1..Len(frames)
    BY <1>1
  <2> QED
    BY <1>1, <1>4, <1>5, <2>1, <2>2
<1>7. QueueOf(rest) = Tail(queue)
  BY <1>2, <1>5, <1>6, SameElements, Zenon
<1>8. Head(queue) = OneWay(Head(frames))
  BY <1>1, <1>4, <1>5
<1> QED
  BY <1>3, <1>7, <1>8 DEF rest, queue

\* Writing a frame appends its responseTo to the mapped replies.
LEMMA RepliesAppend ==
  ASSUME NEW written \in Seq(Written), NEW reply \in Written
  PROVE  RepliesOf(Append(written, reply)) = Append(RepliesOf(written), reply.response_to)
<1> DEFINE after == Append(written, reply)
           image == Append(RepliesOf(written), reply.response_to)
<1>1. /\ after \in Seq(Written) /\ Len(written) \in Nat
      /\ DOMAIN written = 1..Len(written) /\ DOMAIN after = 1..(Len(written) + 1)
      /\ \A j \in 1..Len(written) : after[j] = written[j]
      /\ after[Len(written) + 1] = reply
      /\ Len(after) = Len(written) + 1
  BY AppendFacts
<1>2. /\ \A j \in 1..Len(written) : written[j].response_to \in Nat
      /\ reply.response_to \in Nat
  <2>1. \A j \in 1..Len(written) : written[j] \in Written
    BY SeqFacts
  <2> QED
    BY <2>1 DEF Written
<1>3. RepliesOf(written) \in Seq(Nat) /\ Len(RepliesOf(written)) = Len(written)
  <2>1. RepliesOf(written) \in [1..Len(written) -> Nat]
    BY <1>1, <1>2 DEF RepliesOf
  <2>2. Len(written) \in Nat
    BY <1>1
  <2> QED
    BY <2>1, <2>2, FunctionIsSeq
<1> HIDE DEF after
<1>4. RepliesOf(after) \in Seq(Nat) /\ Len(RepliesOf(after)) = Len(written) + 1
  <2>1. \A j \in 1..(Len(written) + 1) : after[j].response_to \in Nat
    BY <1>1, <1>2
  <2>2. RepliesOf(after) \in [1..(Len(written) + 1) -> Nat]
    BY <1>1, <2>1 DEF RepliesOf
  <2>3. Len(written) + 1 \in Nat
    BY <1>1
  <2> QED
    BY <2>2, <2>3, FunctionIsSeq
<1>5. /\ image \in Seq(Nat) /\ Len(image) = Len(written) + 1
      /\ \A j \in 1..Len(written) : image[j] = RepliesOf(written)[j]
      /\ image[Len(written) + 1] = reply.response_to
  BY <1>2, <1>3, AppendFacts
<1> HIDE DEF image
<1>6. \A j \in 1..(Len(written) + 1) : RepliesOf(after)[j] = image[j]
  <2>1. \A j \in 1..(Len(written) + 1) : j \in 1..Len(written) \/ j = Len(written) + 1
    BY <1>1
  <2>2. \A j \in 1..(Len(written) + 1) : RepliesOf(after)[j] = after[j].response_to
    BY <1>1 DEF RepliesOf
  <2>3. \A j \in 1..Len(written) : RepliesOf(written)[j] = written[j].response_to
    BY <1>1 DEF RepliesOf
  <2>4. /\ \A j \in 1..Len(written) : after[j] = written[j]
        /\ after[Len(written) + 1] = reply
    BY <1>1
  <2>5. /\ \A j \in 1..Len(written) : image[j] = RepliesOf(written)[j]
        /\ image[Len(written) + 1] = reply.response_to
    BY <1>5
  <2>6. ASSUME NEW j \in 1..(Len(written) + 1)
        PROVE  RepliesOf(after)[j] = image[j]
    <3>1. CASE j \in 1..Len(written)
      BY <3>1, <2>2, <2>3, <2>4, <2>5, Zenon
    <3>2. CASE j = Len(written) + 1
      BY <3>2, <2>2, <2>4, <2>5, Zenon
    <3> QED
      BY <2>1, <3>1, <3>2, Zenon
  <2> QED
    BY <2>6, Zenon
<1>7. RepliesOf(after) = image
  BY <1>4, <1>5, <1>6, SameElements, Zenon
<1> QED
  BY <1>7 DEF after, image

-----------------------------------------------------------------------------
(* The abstract variables, before and after a step *)

Owed == pc \in {"send", "flush"}
Open == pc # "closed"

\* Each abstract action in terms of the mapped state.
LEMMA AbstractSteps ==
  /\ Promise!TakeNext <=>
       /\ Open /\ ~Owed /\ QueueOf(inbox) # << >>
       /\ QueueOf(inbox') = Tail(QueueOf(inbox))
       /\ Len(log') = Len(log) + 1
       /\ Owed' \in BOOLEAN /\ Open' \in BOOLEAN
       /\ Owed' => ~Head(QueueOf(inbox)) /\ Open'
       /\ RepliesOf(wire') = RepliesOf(wire)
  /\ Promise!Answer <=>
       /\ Open /\ Owed
       /\ RepliesOf(wire') = Append(RepliesOf(wire), Len(log))
       /\ Owed' = FALSE
       /\ QueueOf(inbox') = QueueOf(inbox) /\ Len(log') = Len(log) /\ Open' = Open
  /\ Promise!Close <=>
       /\ Open
       /\ Open' = FALSE
       /\ Owed' = FALSE
       /\ QueueOf(inbox') = QueueOf(inbox) /\ Len(log') = Len(log)
       /\ RepliesOf(wire') = RepliesOf(wire)
  /\ \A oneway : Promise!Ask(oneway) <=>
       /\ QueueOf(inbox') = Append(QueueOf(inbox), oneway)
       /\ Len(log') = Len(log) /\ Owed' = Owed /\ Open' = Open
       /\ RepliesOf(wire') = RepliesOf(wire)
  /\ UNCHANGED Promise!vars <=>
       /\ QueueOf(inbox') = QueueOf(inbox)
       /\ Len(log') = Len(log) /\ Owed' = Owed /\ Open' = Open
       /\ RepliesOf(wire') = RepliesOf(wire)
  BY Zenon DEF Promise!TakeNext, Promise!Answer, Promise!Close, Promise!Ask, Promise!vars,
         QueueOf, RepliesOf, Owed, Open, OneWay

-----------------------------------------------------------------------------
(* Each step, seen through the mapping *)

\* Submit implements Ask.
LEMMA SubmitAsks ==
  ASSUME ReplyInv, NEW f \in Frames, Submit(f)
  PROVE  \E oneway \in BOOLEAN : Promise!Ask(oneway)
<1> DEFINE frame == [id |-> sent + 1, wrap |-> f.wrap, body |-> f.body]
<1>1. /\ inbox \in Seq(Received) /\ inbox' = Append(inbox, frame)
      /\ UNCHANGED <<pc, wire, log>> /\ sent \in 0..MaxRequests
  BY DEF ReplyInv, TypeOK, Submit
<1>2. frame \in Received
  BY <1>1, BoundsAssumption, FramesAssumption DEF Received
<1>3. OneWay(frame) \in BOOLEAN
  BY FramesAssumption DEF OneWay
<1> HIDE DEF frame
<1>4. QueueOf(inbox') = Append(QueueOf(inbox), OneWay(frame))
  BY <1>1, <1>2, QueueAppend
<1>5. /\ Len(log') = Len(log) /\ Owed' = Owed /\ Open' = Open
      /\ RepliesOf(wire') = RepliesOf(wire)
  BY <1>1 DEF Owed, Open
<1> QED
  BY <1>3, <1>4, <1>5, AbstractSteps, Zenon

\* A step that takes a frame and owes a reply only to a two-way one implements TakeNext.
LEMMA TakeTakes ==
  ASSUME ReplyInv, Take, NEW kind \in Kinds, log' = Append(log, Entry(Head(inbox), kind)),
         \/ pc' \in {"read", "closed"}
         \/ pc' = "send" /\ ~OneWay(Head(inbox))
  PROVE  Promise!TakeNext
<1>1. inbox \in Seq(Received) /\ inbox # << >> /\ inbox' = Tail(inbox) /\ pc = "read"
      /\ wire' = wire
  BY DEF ReplyInv, TypeOK, Take
<1>2. Len(log') = Len(log) + 1
  BY HeadFrame, Dispatched
<1>3. /\ QueueOf(inbox) # << >> /\ QueueOf(inbox') = Tail(QueueOf(inbox))
      /\ Head(QueueOf(inbox)) = OneWay(Head(inbox))
  BY <1>1, QueueTail
<1>4. /\ Open /\ ~Owed /\ Owed' \in BOOLEAN /\ Open' \in BOOLEAN
      /\ Owed' => ~OneWay(Head(inbox)) /\ Open'
  BY <1>1 DEF Owed, Open
<1>5. RepliesOf(wire') = RepliesOf(wire)
  BY <1>1
<1> QED
  BY <1>2, <1>3, <1>4, <1>5, AbstractSteps, Zenon

\* Each of the four steps that take a frame implements TakeNext.
LEMMA DispatchTakes ==
  ASSUME ReplyInv, CloseOnBadFrame \/ IgnoreReply \/ AnswerQuery \/ RunCommand
  PROVE  Promise!TakeNext
<1>1. CASE CloseOnBadFrame
  BY <1>1, TakeTakes DEF CloseOnBadFrame, Kinds
<1>2. CASE IgnoreReply
  <2>1. pc' = "read"
    BY <1>2 DEF IgnoreReply, Take
  <2> QED
    BY <1>2, <2>1, TakeTakes DEF IgnoreReply, Kinds
<1>3. CASE AnswerQuery
  <2> DEFINE kind == IF IsHandshake(Head(inbox).body.command) THEN "msg" ELSE "command_error"
  <2>1. /\ Take /\ pc' = "send" /\ Head(inbox).body.op = "query"
        /\ log' = Append(log, Entry(Head(inbox), kind))
    BY <1>3 DEF AnswerQuery
  <2>2. ~OneWay(Head(inbox))
    BY <2>1 DEF OneWay
  <2>3. kind \in Kinds
    BY DEF Kinds, HandlerOutcome
  <2> HIDE DEF kind
  <2> QED
    BY <2>1, <2>2, <2>3, TakeTakes
<1>4. CASE RunCommand
  <2>1. Take /\ Head(inbox).body.op = "msg"
    BY <1>4 DEF RunCommand
  <2>2. PICK result \in HandleCommand(ctx, Head(inbox).body) :
          /\ Respond(Head(inbox), result.outcome)
          /\ log' = Append(log, Entry(Head(inbox), result.outcome.kind))
    BY <1>4 DEF RunCommand
  <2>3. PICK f \in Frames : Head(inbox).body = f.body
    BY <2>1, HeadFrame
  <2>4. result.outcome.kind \in Kinds
    <3>1. DOMAIN ctx = {"negotiated", "auth", "next_id", "checksum"}
      BY DEF ReplyInv, TypeOK
    <3> QED
      BY <2>1, <2>2, <2>3, <3>1, HandlerResult DEF Kinds
  <2>5. \/ pc' \in {"read", "closed"}
        \/ pc' = "send" /\ ~OneWay(Head(inbox))
    <3>1. pc = "read" /\ Respond(Head(inbox), result.outcome)
      BY <2>1, <2>2 DEF Take
    <3>2. CASE Head(inbox).body.more
      <4>1. Head(inbox).body.more \in BOOLEAN
        BY <2>1, <2>3, FramesAssumption
      <4>2. UNCHANGED <<pc, pending>>
        BY <3>1, <3>2, <4>1 DEF Respond
      <4> QED
        BY <3>1, <4>2
    <3>3. CASE ~Head(inbox).body.more
      <4>1. ~OneWay(Head(inbox))
        BY <3>3 DEF OneWay
      <4> QED
        BY <3>1, <4>1 DEF Respond, SendBack
    <3> QED
      BY <3>2, <3>3
  <2> QED
    BY <2>1, <2>2, <2>4, <2>5, TakeTakes
<1> QED
  BY <1>1, <1>2, <1>3, <1>4

\* The end of the stream and a failed send implement Close.
LEMMA EndCloses ==
  ASSUME ReplyInv, EndOfStream \/ SendFails
  PROVE  Promise!Close
<1>1. pc # "closed" /\ pc' = "closed" /\ UNCHANGED <<inbox, wire, log>>
  BY DEF EndOfStream, SendFails
<1>2. Open /\ Open' = FALSE /\ Owed' = FALSE
  BY <1>1 DEF Open, Owed
<1> QED
  BY <1>1, <1>2, AbstractSteps, Zenon

\* Either write path adds the reply to the frame taken last.
LEMMA WriteAnswers ==
  ASSUME ReplyInv, WriteDirect \/ FlushFramed
  PROVE  Promise!Answer
<1>1. \E reply \in Written : reply.response_to = Len(log) /\ wire' = Append(wire, reply)
  <2>1. CASE WriteDirect
    BY <2>1, WithHeaderType DEF ReplyInv, TypeOK, WriteDirect
  <2>2. CASE FlushFramed
    <3>1. /\ wire \in Seq(Written) /\ wbuf \in Seq(Written) /\ Len(wbuf) = 1
          /\ wbuf[1].response_to = Len(log) /\ wire' = wire \o wbuf
      BY <2>2 DEF ReplyInv, TypeOK, FlushFramed
    <3> QED
      BY <3>1, ConcatOne
  <2> QED
    BY <2>1, <2>2
<1>2. PICK reply \in Written : reply.response_to = Len(log) /\ wire' = Append(wire, reply)
  BY <1>1
<1>3. wire \in Seq(Written)
  BY DEF ReplyInv, TypeOK
<1>4. RepliesOf(wire') = Append(RepliesOf(wire), Len(log))
  BY <1>2, <1>3, RepliesAppend
<1>5. pc \in {"send", "flush"} /\ pc' = "read" /\ UNCHANGED <<inbox, log>>
  BY DEF WriteDirect, FlushFramed
<1>6. Open /\ Owed /\ Owed' = FALSE /\ Open' = Open
  BY <1>5 DEF Open, Owed
<1> QED
  BY <1>4, <1>5, <1>6, AbstractSteps, Zenon

\* Steps the client of the abstract specification cannot see.
LEMMA Stutters ==
  ASSUME EncodeFramed \/ ClientCloses \/ UNCHANGED vars
  PROVE  UNCHANGED Promise!vars
<1>1. UNCHANGED <<inbox, wire, log>> /\ (pc' = pc \/ (pc = "send" /\ pc' = "flush"))
  BY DEF EncodeFramed, ClientCloses, vars
<1>2. Open' = Open /\ Owed' = Owed
  BY <1>1 DEF Open, Owed
<1> QED
  BY <1>1, <1>2, AbstractSteps, Zenon

\* Every step of the loop is a step of RequestReply or a stutter.
LEMMA StepRefines == ReplyInv /\ [Next]_vars => [Promise!Next]_(Promise!vars)
<1> SUFFICES ASSUME ReplyInv, [Next]_vars PROVE Promise!Next \/ UNCHANGED Promise!vars
  OBVIOUS
<1>1. CASE CloseOnBadFrame \/ IgnoreReply \/ AnswerQuery \/ RunCommand
  BY <1>1, DispatchTakes DEF Promise!Next
<1>2. CASE EndOfStream \/ SendFails
  BY <1>2, EndCloses DEF Promise!Next
<1>3. CASE WriteDirect \/ FlushFramed
  BY <1>3, WriteAnswers DEF Promise!Next
<1>4. CASE EncodeFramed \/ ClientCloses \/ UNCHANGED vars
  BY <1>4, Stutters
<1>5. CASE \E f \in Frames : Submit(f)
  BY <1>5, SubmitAsks DEF Promise!Next
<1> QED
  BY <1>1, <1>2, <1>3, <1>4, <1>5 DEF Next, Server, Client

\* A new connection is an initial state of RequestReply.
LEMMA InitRefines == Init => Promise!Init
<1> SUFFICES ASSUME Init PROVE Promise!Init
  OBVIOUS
<1>1. inbox = << >> /\ wire = << >> /\ log = << >> /\ pc = "read"
  BY DEF Init
<1>2. [i \in DOMAIN inbox |-> OneWay(inbox[i])] = << >>
  BY <1>1
<1>3. [j \in DOMAIN wire |-> wire[j].response_to] = << >>
  BY <1>1
<1>4. Len(log) = 0
  BY <1>1
<1> QED
  BY <1>1, <1>2, <1>3, <1>4 DEF Promise!Init

\* The loop of process_socket with both write paths of send_reply implements the
\* request/reply discipline: requests are taken in order, each owed reply is
\* written before the next request is taken, one-way requests are owed none, and
\* nothing is taken or answered after the connection has closed.
THEOREM LoopImplementsRequestReply == Spec => Implements
  BY InitRefines, StepRefines, Invariance, PTL DEF Spec, Implements, Promise!Spec
=============================================================================
