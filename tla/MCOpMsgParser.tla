---------------------------- MODULE MCOpMsgParser ----------------------------
(***************************************************************************)
(* Arbitrary bodies long enough for a body document and two sequences, and   *)
(* every message with at most two short sequences.                           *)
(***************************************************************************)
EXTENDS OpMsgParser

Documents == {<< >>, <<5>>, <<6, 5>>}

MCSequences == [identifier : 1..4, documents : Documents]
Followers   == [identifier : {3, 4}, documents : {<< >>, <<5>>}]

MCMessages ==
  [checksum : BOOLEAN, body : {5, 7},
   sequences : {<< >>} \cup {<<s>> : s \in MCSequences}
               \cup {<<s, t>> : s \in MCSequences, t \in Followers}]
=============================================================================
