---------------------------- MODULE RequestReply ----------------------------
(***************************************************************************)
(* What the server loop promises the client of one connection.  Requests are *)
(* taken in the order they were sent; before the next one is taken, the one  *)
(* taken last gets its reply if it is owed one; a one-way request is never    *)
(* owed a reply; once the connection is closed nothing is taken or answered.  *)
(* A request is its position in the stream, and queue holds, for each request *)
(* not taken yet, whether it is one-way.                                      *)
(***************************************************************************)
EXTENDS Naturals, Sequences

VARIABLES queue, taken, owed, replies, open

vars == <<queue, taken, owed, replies, open>>

Init ==
  /\ queue = << >>
  /\ taken = 0
  /\ owed = FALSE
  /\ replies = << >>
  /\ open = TRUE

Ask(oneway) ==
  /\ queue' = Append(queue, oneway)
  /\ UNCHANGED <<taken, owed, replies, open>>

\* Taking a request may end the connection instead of earning it a reply.
TakeNext ==
  /\ open /\ ~owed /\ queue # << >>
  /\ queue' = Tail(queue)
  /\ taken' = taken + 1
  /\ owed' \in BOOLEAN /\ open' \in BOOLEAN
  /\ owed' => ~Head(queue) /\ open'
  /\ UNCHANGED replies

Answer ==
  /\ open /\ owed
  /\ replies' = Append(replies, taken)
  /\ owed' = FALSE
  /\ UNCHANGED <<queue, taken, open>>

Close ==
  /\ open
  /\ open' = FALSE
  /\ owed' = FALSE
  /\ UNCHANGED <<queue, taken, replies>>

Next == (\E oneway \in BOOLEAN : Ask(oneway)) \/ TakeNext \/ Answer \/ Close

Spec == Init /\ [][Next]_vars
=============================================================================
