--------------------------- MODULE MCScramExchange ---------------------------
(***************************************************************************)
(* Three clients on one connection: one with the right password, one that    *)
(* retries with the other mechanism, one with the wrong password.  Both       *)
(* usernames need escaping and one is the unescaped form of the other.        *)
(***************************************************************************)
EXTENDS ScramExchange

Comma  == <<"a", ",">>
Equals == <<"a", "=", "2", "C">>

MCAccounts ==
  {[mechanism |-> "SHA-1",   username |-> Comma,  password |-> "pw1"],
   [mechanism |-> "SHA-256", username |-> Comma,  password |-> "pw1"],
   [mechanism |-> "SHA-256", username |-> Equals, password |-> "pw2"]}

MCSetup ==
  <<[mechanism |-> "SHA-256", username |-> Comma,  password |-> "pw1"],
    [mechanism |-> "SHA-1",   username |-> Comma,  password |-> "pw1"],
    [mechanism |-> "SHA-256", username |-> Equals, password |-> "pw1"]>>
=============================================================================
