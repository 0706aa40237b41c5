--------------------------- MODULE MCMessageBodies ---------------------------
(***************************************************************************)
(* Arbitrary bodies long enough for three documents of an OP_REPLY, and       *)
(* queries, replies and their wrapped forms on both sides of max_msg_len.     *)
(***************************************************************************)
EXTENDS MessageBodies

Plain ==
  {Query(name, query, selector) : name \in 0..2, query \in {5, 7}, selector \in {<< >>, <<5>>, <<6>>}}
  \cup {Handshake(5)}
  \cup {ReplyTo(d) : d \in {<< >>, <<5>>, <<6, 5>>, <<5, 5, 7>>}}

Wrapped(m) == UNION {Wrap(m, id, {1, 40}) : id \in {"noop", "snappy", "zlib"}}

Nested == UNION {Wrapped(w) : w \in Wrapped(ReplyTo(<<5>>))}

MCMessages == Plain \cup UNION {Wrapped(m) : m \in Plain} \cup Nested
=============================================================================
