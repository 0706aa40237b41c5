------------------------------ MODULE Escaping ------------------------------
(***************************************************************************)
(* How a username travels inside a SCRAM client-first message.  The client  *)
(* escapes it (escape_username, mongo_common/src/auth/scram.rs), the SASL    *)
(* bridge unescapes it (mongowire/src/api/auth.rs).  A name is a sequence of *)
(* one-character strings.  SaslText builds and takes apart whole messages.   *)
(***************************************************************************)
EXTENDS Naturals, Sequences

\* str::replace: leftmost first, occurrences do not overlap, the text already
\* written is not searched again.
Replace(s, pat, new) ==
  LET n == Len(s)
      k == Len(pat)
      from[i \in 1..(n + 1)] ==
        IF i > n THEN << >>
        ELSE IF i + k - 1 <= n /\ SubSeq(s, i, i + k - 1) = pat
             THEN new \o from[i + k]
             ELSE <<s[i]>> \o from[i + 1]
  IN  from[1]

EscapeUsername(username) ==
  Replace(Replace(username, <<"=">>, <<"=", "3", "D">>), <<",">>, <<"=", "2", "C">>)

\* Mutant of UnescapeUsername: the two replacements in the order of escaping.
UnescapeEqualsFirst(escaped) ==
  Replace(Replace(escaped, <<"=", "3", "D">>, <<"=">>), <<"=", "2", "C">>, <<",">>)

UnescapeUsername(escaped) ==
  Replace(Replace(escaped, <<"=", "2", "C">>, <<",">>), <<"=", "3", "D">>, <<"=">>)
=============================================================================
