------------------------------- MODULE Server -------------------------------
(***************************************************************************)
(* The example server (examples/mongowire-server/src/main.rs) with its        *)
(* accept loop (serve, mongowire/src/api/mod.rs), one task per connection and *)
(* the clients of mongowire/src/test_client.rs.  Connection models a single   *)
(* process_socket in detail; here it is one request, one reply, and the       *)
(* matter is what connections share: the accept loop, the process-wide        *)
(* counters of request ids and of ObjectIds.  The command line is abstracted  *)
(* to whether it can be read; the checksum setting it holds is Connection's.  *)
(*                                                                           *)
(* A request is [op |-> "msg" or "query", name, arg]; arg is what `find` reads *)
(* as its collection: "demo", "other", "number", or "malformed" when the      *)
(* field's value cannot be parsed.  The name "malformed" is one that cannot   *)
(* be read.  A frame crosses the socket in two halves.                        *)
(***************************************************************************)
EXTENDS Integers, Sequences, FiniteSets, SequencesExt

CONSTANTS
  Clients,
  Requests,
  Seconds,      \* what the clock may read, in any order: it can be set
  CounterSpace, \* ObjectId counters before the three bytes repeat
  MaxRequests,  \* bound on the requests of one client
  MaxFailures   \* bound on the number of failing accepts

ASSUME BoundsAssumption ==
  CounterSpace \in Nat \ {0} /\ MaxRequests \in Nat /\ MaxFailures \in Nat

VARIABLES
  server,   \* "start", "bind", "listening" or "exited"
  failures, \* accepts that failed
  backlog,  \* connections that wait to be accepted
  task,     \* [c -> the task that serves c: pc, request, reply, seconds]
  client,   \* [c -> pc, id, request, sent, and buf: halves received]
  up,       \* [c -> requests on the way to the server]
  down,     \* [c -> halves of replies on the way to the client]
  next_id,  \* NEXT of test_client.rs
  counter,  \* OBJECT_ID_COUNTER
  ids       \* history: the ObjectIds made, in the order of their counters

vars == <<server, failures, backlog, task, client, up, down, next_id, counter, ids>>

-----------------------------------------------------------------------------
(* Start *)

Init ==
  /\ server = "start"
  /\ failures = 0 /\ backlog = << >>
  /\ task = [c \in Clients |-> [pc |-> "none"]]
  /\ client = [c \in Clients |-> [pc |-> "new", sent |-> 0, buf |-> << >>]]
  /\ up = [c \in Clients |-> << >>] /\ down = [c \in Clients |-> << >>]
  /\ next_id = 1 /\ counter = 0 /\ ids = << >>

\* parse_args: a word that is no option, or --bind without a value, ends the program.
Start ==
  /\ server = "start"
  /\ server' \in {"bind", "exited"}
  /\ UNCHANGED <<failures, backlog, task, client, up, down, next_id, counter, ids>>

Bind ==
  /\ server = "bind"
  /\ server' \in {"listening", "exited"}
  /\ UNCHANGED <<failures, backlog, task, client, up, down, next_id, counter, ids>>

-----------------------------------------------------------------------------
(* serve *)

Accept ==
  /\ server = "listening" /\ backlog # << >>
  /\ task' = [task EXCEPT ![Head(backlog)] = [pc |-> "read"]]
  /\ backlog' = Tail(backlog)
  /\ UNCHANGED <<server, failures, client, up, down, next_id, counter, ids>>

\* Mutant of AcceptFails: the loop ends.
AcceptFailsReturns ==
  /\ server = "listening" /\ failures < MaxFailures
  /\ failures' = failures + 1
  /\ server' = "returned"
  /\ UNCHANGED <<backlog, task, client, up, down, next_id, counter, ids>>

\* Err(_) => continue
AcceptFails ==
  /\ server = "listening" /\ failures < MaxFailures
  /\ failures' = failures + 1
  /\ UNCHANGED <<server, backlog, task, client, up, down, next_id, counter, ids>>

-----------------------------------------------------------------------------
(* DemoHandler and process_socket *)

Answer(code) == [kind |-> "answer", code |-> code]
ErrorReply(code) == [kind |-> "answer", code |-> code]
Protocol == [kind |-> "protocol"]   \* no reply, the connection closes

\* The first field is named `find`, so the body has one: the code's error for a missing
\* collection name (40414) is out of reach.
Find(arg) ==
  CASE arg = "malformed" -> Protocol
    [] arg = "number" -> ErrorReply("TypeMismatch")
    [] arg = "other" -> ErrorReply("NamespaceNotFound")
    [] arg = "demo" -> [kind |-> "object_id"]

Handle(request) ==
  CASE request.name = "malformed" -> Protocol
    [] request.name \in {"hello", "ping", "buildInfo"} -> Answer("ok")
    [] request.name \in {"isMaster", "ismaster"} -> Answer("ok")
    [] request.name = "find" -> Find(request.arg)
    [] OTHER -> ErrorReply("CommandNotFound")

\* OP_QUERY is answered without the handler.
HandleQuery(request) ==
  CASE request.name = "malformed" -> Protocol
    [] request.name \in {"hello", "isMaster", "ismaster"} -> Answer("ok")
    [] OTHER -> ErrorReply("CommandNotFound")

\* Mutant of ResponseTo: the header is built before the request's id is known.
ResponseToNothing(request) == 0

ResponseTo(request) == request.id

Reply(request, answer) ==
  [op |-> IF request.op = "query" THEN "reply" ELSE "msg", response_to |-> ResponseTo(request),
   code |-> answer.code]

\* The loop takes the next frame, or ends with the stream.
ReadFrame(c) ==
  /\ task[c].pc = "read"
  /\ IF up[c] = << >>
     THEN /\ client[c].pc = "left"
          /\ task' = [task EXCEPT ![c] = [pc |-> "closed"]]
          /\ UNCHANGED up
     ELSE LET request == Head(up[c])
              outcome == IF request.op = "query" THEN HandleQuery(request) ELSE Handle(request)
          IN  /\ up' = [up EXCEPT ![c] = Tail(@)]
              /\ task' = [task EXCEPT ![c] =
                   CASE outcome.kind = "answer" -> [pc |-> "write", reply |-> Reply(request, outcome)]
                     [] outcome.kind = "object_id" -> [pc |-> "clock", request |-> request]
                     [] outcome.kind = "protocol" -> [pc |-> "closed"]]
  /\ UNCHANGED <<server, failures, backlog, client, down, next_id, counter, ids>>

\* ObjectId::new reads the clock (0 before the epoch) ...
ReadClock(c) ==
  /\ task[c].pc = "clock"
  /\ \E s \in Seconds :
       task' = [task EXCEPT ![c] = [pc |-> "count", request |-> task[c].request,
                                    seconds |-> IF s < 0 THEN 0 ELSE s]]
  /\ UNCHANGED <<server, failures, backlog, client, up, down, next_id, counter, ids>>

\* Mutant of NextCounter: read without incrementing.
CounterLoaded(n) == n

NextCounter(n) == n + 1

\* ... and then takes a number of the counter all tasks share, of which three bytes
\* are kept.  The random bytes in between are left out: no id is to rely on them.
TakeCounter(c) ==
  /\ task[c].pc = "count"
  /\ counter' = NextCounter(counter)
  /\ ids' = Append(ids, [seconds |-> task[c].seconds, count |-> counter % CounterSpace])
  /\ task' = [task EXCEPT ![c] = [pc |-> "write", reply |-> Reply(task[c].request, Answer("ok"))]]
  /\ UNCHANGED <<server, failures, backlog, client, up, down, next_id>>

\* send_reply; writing to a client that is gone may fail, and ends the task.
WriteReply(c) ==
  /\ task[c].pc = "write"
  /\ \/ /\ down' = [down EXCEPT ![c] = @ \o <<[half |-> 1, reply |-> task[c].reply],
                                               [half |-> 2, reply |-> task[c].reply]>>]
        /\ task' = [task EXCEPT ![c] = [pc |-> "read"]]
     \/ /\ client[c].pc = "left"
        /\ task' = [task EXCEPT ![c] = [pc |-> "closed"]]
        /\ UNCHANGED down
  /\ UNCHANGED <<server, failures, backlog, client, up, next_id, counter, ids>>

-----------------------------------------------------------------------------
(* TestClient *)

Connect(c) ==
  /\ client[c].pc = "new" /\ server = "listening"
  /\ client' = [client EXCEPT ![c].pc = "connected"]
  /\ backlog' = Append(backlog, c)
  /\ UNCHANGED <<server, failures, task, up, down, next_id, counter, ids>>

\* next_id, whose counter every client of the process shares.
NextId == next_id' = next_id + 1

\* request, and send_op_query_handshake
Send(c, request) ==
  /\ client[c].pc = "connected" /\ client[c].sent < MaxRequests
  /\ NextId
  /\ client' = [client EXCEPT ![c] = [pc |-> "waiting", sent |-> @.sent + 1, buf |-> @.buf,
                                      id |-> next_id, request |-> request]]
  /\ up' = [up EXCEPT ![c] = Append(@, [op |-> request.op, name |-> request.name,
                                        arg |-> request.arg, id |-> next_id])]
  /\ UNCHANGED <<server, failures, backlog, task, down, counter, ids>>

\* How request and recv_op_reply end on a whole frame.
Check(me, reply) ==
  IF me.request.op = "query" /\ reply.op # "reply" THEN "wrong_op"
  ELSE IF reply.response_to # me.id THEN "mismatched"
  ELSE "connected"

\* recv: parse what is buffered, else read more; at the end of the stream what is left
\* in the buffer is an error.
Recv(c) ==
  /\ client[c].pc = "waiting"
  /\ IF Len(client[c].buf) >= 2
     THEN /\ client' = [client EXCEPT ![c].pc = Check(client[c], client[c].buf[1].reply),
                                      ![c].buf = SubSeq(@, 3, Len(@))]
          /\ UNCHANGED down
     ELSE IF down[c] # << >>
     THEN \E k \in 1..Len(down[c]) :
            /\ client' = [client EXCEPT ![c].buf = @ \o SubSeq(down[c], 1, k)]
            /\ down' = [down EXCEPT ![c] = SubSeq(@, k + 1, Len(@))]
     ELSE /\ task[c].pc = "closed"
          /\ client' = [client EXCEPT ![c].pc = IF client[c].buf = << >> THEN "server_closed"
                                                ELSE "truncated"]
          /\ UNCHANGED down
  /\ UNCHANGED <<server, failures, backlog, task, up, next_id, counter, ids>>

Leave(c) ==
  /\ client[c].pc \in {"connected", "waiting"}
  /\ client' = [client EXCEPT ![c].pc = "left"]
  /\ UNCHANGED <<server, failures, backlog, task, up, down, next_id, counter, ids>>

-----------------------------------------------------------------------------

ServerStep(c) == ReadFrame(c) \/ ReadClock(c) \/ TakeCounter(c) \/ WriteReply(c)

Next ==
  \/ Start \/ Bind \/ Accept \/ AcceptFails
  \/ \E c \in Clients :
       \/ ServerStep(c) \/ Connect(c) \/ Recv(c) \/ Leave(c)
       \/ \E request \in Requests : Send(c, request)

\* The runtime polls the accept loop and every task again and again; a client that
\* waits for a reply goes on reading.  Nobody has to connect, to send or to leave.
Spec ==
  /\ Init /\ [][Next]_vars
  /\ WF_vars(Start) /\ WF_vars(Bind) /\ WF_vars(Accept)
  /\ \A c \in Clients : WF_vars(ServerStep(c)) /\ WF_vars(Recv(c))

-----------------------------------------------------------------------------
(* Properties *)

\* However a reply is cut up on its way and whatever requests came before, a client takes
\* it whole, it is of the right kind and it answers the present request (assert_eq! on
\* responseTo, test_client.rs:153); and the server closes on a client only when its
\* request could not be parsed.
RepliesFit ==
  \A c \in Clients :
    /\ client[c].pc \notin {"mismatched", "wrong_op", "truncated"}
    /\ client[c].pc = "server_closed" =>
         "malformed" \in {client[c].request.name, client[c].request.arg}

\* ObjectIds made by concurrent tasks differ although the clock may stand still or go
\* back: two are equal only if the counter went round between them (scalar.rs:66-81).
ObjectIdsDistinct ==
  \A i, j \in 1..Len(ids) : i < j /\ j - i < CounterSpace => ids[i] # ids[j]

\* Whatever other clients do, and although accepting fails now and then ("Err(_) =>
\* continue", api/mod.rs:103), every request is answered or its connection closed, and a
\* connection whose client left is given up.
Served ==
  \A c \in Clients :
    /\ client[c].pc = "waiting" ~> client[c].pc # "waiting"
    /\ client[c].pc = "left" ~> task[c].pc = "closed"
=============================================================================
