----------------------------- MODULE Connection -----------------------------
(***************************************************************************)
(* One connection of the embeddable server: process_socket and send_reply of *)
(* mongowire/src/api/mod.rs, with the handler chain                          *)
(* ScramBridge(BuiltinHandler(inner)).  The client pipelines requests, may    *)
(* mark them moreToCome, and may close at any time; the server takes one      *)
(* frame at a time, runs the handlers and writes at most one reply.           *)
(*                                                                           *)
(* A frame is what Framed yields: its requestID, whether it arrived inside    *)
(* OP_COMPRESSED and whether that unwraps, and the body:                      *)
(*   op "msg"    command, more (moreToCome) and args (what handlers read)     *)
(*   op "query"  command, args                                                *)
(*   op "reply"  an OP_REPLY, which servers ignore                            *)
(*   op "bad"    the codec fails on this frame                                *)
(* and wrap is "none" (not compressed), "ok" or "fails".                      *)
(***************************************************************************)
EXTENDS SaslBridge, WireFields, Functions

CONSTANTS
  Frames,        \* what the client may send: records with wrap and body
  MaxRequests,   \* bound on the number of requests
  Checksums,     \* the values of ServerConfig::checksum considered
  Offered,       \* ServerConfig::compressors, in preference order
  BuiltinOffered,\* BuiltinHandler::compressors
  InnerOutcomes, \* what the embedder's handler may return (external)
  IdSpace        \* number of request ids before the i32 counter wraps

ASSUME BoundsAssumption == MaxRequests \in Nat /\ IdSpace \in Nat \ {0}

ASSUME ChecksumsAssumption == Checksums \subseteq BOOLEAN

ASSUME FramesAssumption ==
  \A frame \in Frames :
    /\ frame.wrap \in {"none", "ok", "fails"}
    /\ frame.body.op \in {"msg", "query", "reply", "bad"}
    /\ frame.body.op = "msg" => frame.body.more \in BOOLEAN

ASSUME OfferedAssumption == Offered \in Seq(STRING) /\ BuiltinOffered \in Seq(STRING)

\* The embedder's handler gets the ConnectionInfo mutably and could write its public
\* fields or take request ids.  It is taken to do neither.
ASSUME InnerAssumption ==
  \A o \in InnerOutcomes :
    \/ o.kind \in {"no_reply", "command_error", "protocol_error"}
    \/ o.kind = "msg" /\ o.form \in {"fresh", "carried", "huge"} /\ o.compressors = None

VARIABLES
  inbox,    \* frames the client has sent and the server has not taken yet
  sent,     \* number of requests sent; requestIDs are 1, 2, ...
  eof,      \* the client has closed its side
  pc,       \* where process_socket is: "read", "send", "flush" or "closed"
  ctx,      \* ConnectionInfo: negotiated, auth, next_id, checksum
  nonces,   \* server nonces drawn so far
  pending,  \* the reply send_reply is writing, or None
  wbuf,     \* Framed's write buffer
  wire,     \* reply frames written to the socket
  log       \* history: the frames dispatched, each with its outcome

vars == <<inbox, sent, eof, pc, ctx, nonces, pending, wbuf, wire, log>>

Init ==
  /\ inbox = << >>
  /\ sent = 0
  /\ eof = FALSE
  /\ pc = "read"
  /\ \E checksum \in Checksums :
       ctx = [negotiated |-> << >>, auth |-> NoAuth, next_id |-> 0, checksum |-> checksum]
  /\ nonces = 0
  /\ pending = None
  /\ wbuf = << >>
  /\ wire = << >>
  /\ log = << >>

-----------------------------------------------------------------------------
(* The handler chain.  A handler maps the context to the contexts and         *)
(* outcomes it may end with.                                                  *)

IsHandshake(command) == command \in {"hello", "isMaster", "ismaster"}

\* Mutant of Negotiate: the client's preference order wins.
NegotiateClientOrder(configured, requested) ==
  IF requested = None THEN << >> ELSE Keep(requested, Range(configured))

Negotiate(configured, requested) ==
  IF requested = None THEN << >> ELSE Keep(configured, Range(requested))

Msg(form, compressors) == [kind |-> "msg", form |-> form, compressors |-> compressors]

Builtin(c, msg) ==
  LET negotiated == Negotiate(BuiltinOffered, msg.args.compression)
  IN  IF IsHandshake(msg.command)
      THEN {[ctx |-> [c EXCEPT !.negotiated = negotiated], outcome |-> Msg("fresh", negotiated)]}
      ELSE {[ctx |-> c, outcome |-> o] :
              o \in IF msg.command = "ping" THEN {Msg("fresh", None)} ELSE InnerOutcomes}

\* The reply documents of the bridge are fresh messages too.
AsOutcome(o) == IF o.kind = "msg" THEN Msg("fresh", None) ELSE o

HandleCommand(c, msg) ==
  LET sasl == IF msg.command = "saslStart" THEN SaslStart(c.auth, msg.args, nonces + 1)
              ELSE SaslContinue(c.auth, msg.args)
  IN  IF msg.command \in {"saslStart", "saslContinue"}
      THEN {[ctx |-> [c EXCEPT !.auth = sasl.auth], outcome |-> AsOutcome(sasl.outcome)]}
      ELSE Builtin(c, msg)

-----------------------------------------------------------------------------
(* The client.                                                                *)

Submit(frame) ==
  /\ ~eof /\ sent < MaxRequests
  /\ sent' = sent + 1
  /\ inbox' = Append(inbox, [id |-> sent + 1, wrap |-> frame.wrap, body |-> frame.body])
  /\ UNCHANGED <<eof, pc, ctx, nonces, pending, wbuf, wire, log>>

ClientCloses ==
  /\ ~eof
  /\ eof' = TRUE
  /\ UNCHANGED <<inbox, sent, pc, ctx, nonces, pending, wbuf, wire, log>>

-----------------------------------------------------------------------------
(* process_socket: one frame per turn of the loop.                            *)

HasCommand(frame) == frame.body.op \in {"msg", "query"}

OneWay(frame) == frame.body.op = "msg" /\ frame.body.more

\* A saslContinue whose payload the bridge can read, which takes the exchange out.
Presents(frame) ==
  /\ frame.body.op = "msg" /\ frame.body.command = "saslContinue"
  /\ frame.body.args.payload.type \notin {"unusable", "malformed"}

Entry(frame, kind) ==
  [id |-> frame.id, kind |-> kind, more |-> OneWay(frame), presents |-> Presents(frame),
   command |-> IF HasCommand(frame) THEN frame.body.command ELSE "none"]

\* A reply before send_reply has given it a requestID.
ReplyTo(frame, op, form, compressors) ==
  [response_to |-> frame.id, op |-> op, form |-> form, compressors |-> compressors]

\* framed.next() yields a frame, whose effect on the loop is the rest of the step.
Take ==
  /\ pc = "read" /\ inbox # << >>
  /\ inbox' = Tail(inbox)
  /\ UNCHANGED <<sent, eof, wbuf, wire>>

Unusable(frame) ==
  \/ frame.body.op = "bad"
  \/ frame.wrap = "fails"
  \/ HasCommand(frame) /\ frame.body.command = "malformed"

\* A decode, unwrap or command() error: the connection closes unanswered.
CloseOnBadFrame ==
  LET frame == Head(inbox)
  IN  /\ Take
      /\ Unusable(frame)
      /\ pc' = "closed"
      /\ log' = Append(log, Entry(frame, "closed"))
      /\ UNCHANGED <<ctx, nonces, pending>>

IgnoreReply ==
  LET frame == Head(inbox)
  IN  /\ Take
      /\ ~Unusable(frame) /\ frame.body.op = "reply"
      /\ log' = Append(log, Entry(frame, "ignored"))
      /\ UNCHANGED <<pc, ctx, nonces, pending>>

AnswerQuery ==
  LET frame      == Head(inbox)
      handshake  == IsHandshake(frame.body.command)
      negotiated == Negotiate(Offered, frame.body.args.compression)
  IN  /\ Take
      /\ ~Unusable(frame) /\ frame.body.op = "query"
      /\ ctx' = IF handshake THEN [ctx EXCEPT !.negotiated = negotiated] ELSE ctx
      /\ pending' = ReplyTo(frame, "reply", "fresh", IF handshake THEN negotiated ELSE None)
      /\ pc' = "send"
      /\ log' = Append(log, Entry(frame, IF handshake THEN "msg" ELSE "command_error"))
      /\ UNCHANGED nonces

\* error_reply: a command error becomes a fresh OP_MSG.
ReplyBody(outcome) == IF outcome.kind = "msg" THEN outcome ELSE Msg("fresh", None)

SendBack(frame, outcome) ==
  /\ pc' = "send"
  /\ pending' = ReplyTo(frame, "msg", ReplyBody(outcome).form, ReplyBody(outcome).compressors)

\* Mutant of Respond: a reply to a moreToCome request is sent.
RespondToAll(frame, outcome) ==
  IF outcome.kind = "no_reply" THEN UNCHANGED <<pc, pending>>
  ELSE IF outcome.kind = "protocol_error" THEN pc' = "closed" /\ UNCHANGED pending
  ELSE SendBack(frame, outcome)

\* What the loop does with a handler's outcome.
Respond(frame, outcome) ==
  IF frame.body.more \/ outcome.kind = "no_reply" THEN UNCHANGED <<pc, pending>>
  ELSE IF outcome.kind = "protocol_error" THEN pc' = "closed" /\ UNCHANGED pending
  ELSE SendBack(frame, outcome)

RunCommand ==
  LET frame == Head(inbox)
  IN  /\ Take
      /\ ~Unusable(frame) /\ frame.body.op = "msg"
      /\ \E result \in HandleCommand(ctx, frame.body) :
           /\ ctx' = result.ctx
           /\ nonces' = IF ctx.auth.scram = None /\ result.ctx.auth.scram # None
                        THEN nonces + 1 ELSE nonces
           /\ Respond(frame, result.outcome)
           /\ log' = Append(log, Entry(frame, result.outcome.kind))

EndOfStream ==
  /\ pc = "read" /\ inbox = << >> /\ eof
  /\ pc' = "closed"
  /\ UNCHANGED <<inbox, sent, eof, ctx, nonces, pending, wbuf, wire, log>>

-----------------------------------------------------------------------------
(* send_reply.  An OP_MSG goes straight to the socket with a trailer when      *)
(* checksums are on; everything else goes through Framed's buffer, which       *)
(* SinkExt::send flushes.  form: "fresh" (OpMsg::new), "carried" (an OpMsg the *)
(* inner handler parsed elsewhere, with the trailer it arrived with) or "huge" *)
(* (longer than MAX_MSG_LEN).                                                  *)

Direct == ctx.checksum /\ pending.op = "msg"

\* The header takes the next id; the trailer is the one encode_message appends,
\* the one the body carries, or none.
WithHeader(reply) ==
  [response_to |-> reply.response_to, request_id |-> ctx.next_id, op |-> reply.op,
   compressors |-> reply.compressors,
   trailer |-> IF Direct THEN "computed"
               ELSE IF reply.form = "carried" THEN "carried" ELSE "none"]

\* Mutant of NextRequestId: the counter is read and not advanced.
SameRequestId == ctx

NextRequestId == [ctx EXCEPT !.next_id = (@ + 1) % IdSpace]

Encodes(reply) == IF Direct THEN reply.form = "fresh" ELSE reply.form # "huge"

WriteDirect ==
  /\ pc = "send" /\ Direct /\ Encodes(pending)
  /\ ctx' = NextRequestId
  /\ wire' = Append(wire, WithHeader(pending))
  /\ pc' = "read"
  /\ pending' = None
  /\ UNCHANGED <<inbox, sent, eof, nonces, wbuf, log>>

\* Mutant of EncodeFramed: feed instead of send, which flushes only what an
\* earlier reply has left in the buffer.
EncodeFramedFeeds ==
  /\ pc = "send" /\ ~Direct /\ Encodes(pending)
  /\ ctx' = NextRequestId
  /\ wbuf' = Append(wbuf, WithHeader(pending))
  /\ pc' = IF wbuf = << >> THEN "read" ELSE "flush"
  /\ UNCHANGED <<inbox, sent, eof, nonces, pending, wire, log>>

EncodeFramed ==
  /\ pc = "send" /\ ~Direct /\ Encodes(pending)
  /\ ctx' = NextRequestId
  /\ wbuf' = Append(wbuf, WithHeader(pending))
  /\ pc' = "flush"
  /\ UNCHANGED <<inbox, sent, eof, nonces, pending, wire, log>>

FlushFramed ==
  /\ pc = "flush"
  /\ wire' = wire \o wbuf
  /\ wbuf' = << >>
  /\ pc' = "read"
  /\ pending' = None
  /\ UNCHANGED <<inbox, sent, eof, ctx, nonces, log>>

\* The reply cannot be encoded, or the client is gone: `?` leaves the loop.
SendFails ==
  /\ \/ pc = "send" /\ ~Encodes(pending)
     \/ pc = "send" /\ Direct /\ eof
     \/ pc = "flush" /\ eof
  /\ pc' = "closed"
  /\ ctx' = IF pc = "send" THEN NextRequestId ELSE ctx
  /\ pending' = None
  /\ wbuf' = << >>
  /\ UNCHANGED <<inbox, sent, eof, nonces, wire, log>>

-----------------------------------------------------------------------------
Server ==
  \/ CloseOnBadFrame \/ IgnoreReply \/ AnswerQuery \/ RunCommand \/ EndOfStream
  \/ WriteDirect \/ EncodeFramed \/ FlushFramed \/ SendFails

Client == (\E frame \in Frames : Submit(frame)) \/ ClientCloses

Next == Server \/ Client

Spec == Init /\ [][Next]_vars

\* The server task is polled as long as it can make a step, and the handler
\* returns; nothing is assumed of the client.
FairSpec == Spec /\ WF_vars(Server)

-----------------------------------------------------------------------------
(* Properties *)

\* The reply a dispatched frame is due.
Due(entry) == ~entry.more /\ entry.kind \in {"msg", "command_error"}

Answered(r) == \E j \in DOMAIN wire : wire[j].response_to = r

Received == [id : Nat, wrap : {"none", "ok", "fails"}, body : {f.body : f \in Frames}]

Commands == {"none"} \cup {f.body.command : f \in {g \in Frames : HasCommand(g)}}

Logged == [id : Nat, more : BOOLEAN, presents : BOOLEAN, command : Commands,
           kind : {"closed", "ignored", "msg", "no_reply", "command_error", "protocol_error"}]

\* The compressor lists a reply may carry: None in all but handshake replies.
Advertised ==
  {None} \cup {Negotiate(offered, f.body.args.compression) :
     offered \in {Offered, BuiltinOffered},
     f \in {g \in Frames : HasCommand(g) /\ IsHandshake(g.body.command)}}

Unsent == [response_to : Nat, op : {"msg", "reply"}, form : {"fresh", "carried", "huge"},
           compressors : Advertised]

Written == [response_to : Nat, request_id : 0..(IdSpace - 1), op : {"msg", "reply"},
            compressors : Advertised, trailer : {"computed", "carried", "none"}]

TypeOK ==
  /\ inbox \in Seq(Received)
  /\ sent \in 0..MaxRequests
  /\ eof \in BOOLEAN
  /\ pc \in {"read", "send", "flush", "closed"}
  /\ DOMAIN ctx = {"negotiated", "auth", "next_id", "checksum"}
  /\ ctx.next_id \in 0..(IdSpace - 1)
  /\ ctx.checksum \in BOOLEAN
  /\ pc \in {"send", "flush"} => pending \in Unsent
  /\ wbuf \in Seq(Written)
  /\ wire \in Seq(Written)
  /\ log \in Seq(Logged)
  /\ Len(log) + Len(inbox) = sent
  /\ nonces \in 0..Len(log)

\* Replies reach the client in the order of the requests, at most one for each:
\* the checksummed path that bypasses Framed never overtakes the other one.
RepliesInOrder ==
  \A i, j \in DOMAIN wire : i < j => wire[i].response_to < wire[j].response_to

\* "Requests with moreToCome MUST NOT be replied to" (mod.rs:185), also when the
\* handler produced a reply or failed.
OneWayUnanswered == \A j \in DOMAIN wire : ~log[wire[j].response_to].more

\* Whenever the loop waits for the next frame, exactly the requests that are due
\* a reply have one on the socket: none is lost in a buffer, none is invented.
RepliesExact ==
  pc = "read" => {wire[j].response_to : j \in DOMAIN wire} = {i \in DOMAIN log : Due(log[i])}

\* "`Framed`'s write buffer is empty here" (mod.rs:247-249): when send_reply
\* starts, no earlier reply waits in the buffer it is about to bypass.
BufferEmptyOnSend == pc = "send" => wbuf = << >>

\* The replies of any IdSpace consecutive writes have different requestIDs, also
\* where the counter wraps (client_info.rs:36-38).
RequestIdsDistinct ==
  \A i, j \in DOMAIN wire :
    i < j /\ j - i < IdSpace => wire[i].request_id # wire[j].request_id

\* A handshake that reached the negotiation.
HandshakeAt(i) == IsHandshake(log[i].command) /\ log[i].kind = "msg"

\* The client that got the reply to the latest handshake and the server agree on
\* the negotiated compressors, in the server's order of preference.
NegotiationAgrees ==
  \A j \in DOMAIN wire :
    /\ HandshakeAt(wire[j].response_to)
    /\ \A i \in DOMAIN log : HandshakeAt(i) => i <= wire[j].response_to
    => /\ wire[j].compressors = ctx.negotiated
       /\ \E offered \in {Offered, BuiltinOffered} :
            ctx.negotiated = Keep(offered, Range(ctx.negotiated))

\* A saslStart that succeeded.
StartedAt(i) == log[i].command = "saslStart" /\ log[i].kind = "msg"

\* Each saslContinue that succeeds finishes the latest saslStart that succeeded,
\* and is the first to present a client-final message to it: any attempt takes the
\* exchange out (auth.rs:101-102), so it cannot be tried twice.  Only a payload
\* that could not be read leaves it in flight.
ContinueMatchesStart ==
  \A j \in DOMAIN log :
    log[j].command = "saslContinue" /\ log[j].kind = "msg" =>
      \E i \in 1..(j - 1) :
        /\ StartedAt(i)
        /\ \A k \in (i + 1)..(j - 1) : ~StartedAt(k) /\ ~log[k].presents

\* A protocol error a handler returns for a request that expects a reply is the
\* last thing that happens: "close either way" (mod.rs:207-209).
TwoWayProtocolErrorCloses ==
  \A i \in DOMAIN log :
    log[i].kind = "protocol_error" /\ ~log[i].more => pc = "closed" /\ i = Len(log)

\* The same for every request: "The connection cannot be recovered safely and
\* MUST be closed" (error.rs:3-4).
ProtocolErrorCloses ==
  \A i \in DOMAIN log : log[i].kind = "protocol_error" => pc = "closed" /\ i = Len(log)

\* Every request is dispatched and answered as it is due, or the connection ends.
EverySettled ==
  \A r \in 1..MaxRequests :
    sent >= r ~> \/ pc = "closed"
                 \/ Len(log) >= r /\ (Due(log[r]) => Answered(r))

\* The loop keeps the promise of RequestReply.
Promise == INSTANCE RequestReply WITH
  queue   <- [i \in DOMAIN inbox |-> OneWay(inbox[i])],
  taken   <- Len(log),
  owed    <- pc \in {"send", "flush"},
  replies <- [j \in DOMAIN wire |-> wire[j].response_to],
  open    <- pc # "closed"

\* Process_socket implements the request/reply discipline of RequestReply.
Implements == Promise!Spec
=============================================================================
