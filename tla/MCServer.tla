------------------------------- MODULE MCServer -------------------------------
(***************************************************************************)
(* Two clients with two requests each, one failing accept, and a counter of   *)
(* ObjectIds that repeats after three.                                       *)
(***************************************************************************)
EXTENDS Server

MCRequests ==
  {[op |-> "msg", name |-> "find", arg |-> "demo"], [op |-> "msg", name |-> "find", arg |-> "malformed"],
   [op |-> "query", name |-> "find", arg |-> "other"],
   [op |-> "query", name |-> "malformed", arg |-> "other"]}

\* A clock before the epoch and one that stands still: no id differs by its seconds.
MCSeconds == {-1, 0}
==============================================================================
