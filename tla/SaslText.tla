------------------------------ MODULE SaslText ------------------------------
(***************************************************************************)
(* The text of SASL messages, character by character, where two pieces of   *)
(* code read the same message: the SASL bridge cuts the username out of the  *)
(* client-first message (parse_client_first_username, api/auth.rs) before    *)
(* ScramServer splits it into attributes (auth/scram.rs).  And the PLAIN     *)
(* payload of auth/plain.rs, three texts joined by NUL.                      *)
(***************************************************************************)
EXTENDS Escaping, SequencesExt

CONSTANTS NUL,      \* the zero byte
          NotUtf8   \* bytes that occur in no UTF-8 text

Refused == [ok |-> FALSE]

\* str::split and slice::split: one part more than there are separators.
Split(s, separator) ==
  FoldLeft(LAMBDA parts, c : IF c = separator THEN Append(parts, << >>)
                             ELSE [parts EXCEPT ![Len(parts)] = Append(@, c)],
           << << >> >>, s)

HasPrefix(s, prefix) == Len(prefix) <= Len(s) /\ SubSeq(s, 1, Len(prefix)) = prefix

After(s, n) == SubSeq(s, n + 1, Len(s))

GS2_NO_BINDING_HEADER == <<"n", ",", ",">>

ClientFirstMessage(username, client_nonce) ==
  GS2_NO_BINDING_HEADER \o <<"n", "=">> \o EscapeUsername(username)
                        \o <<",", "r", "=">> \o client_nonce

\* The first character of a part is its key, the second must be '='.
ParseAttributes(msg) ==
  LET parts == Split(msg, ",")
  IN  IF \A i \in DOMAIN parts : Len(parts[i]) >= 2 /\ parts[i][2] = "="
      THEN [ok |-> TRUE, attrs |-> [i \in DOMAIN parts |->
                                      [key |-> parts[i][1], value |-> After(parts[i], 2)]]]
      ELSE Refused

\* What handle_client_first takes from the message.  The username attribute is
\* required first and then ignored: `claimed` is kept here for the properties.
HandleClientFirst(msg) ==
  IF ~HasPrefix(msg, GS2_NO_BINDING_HEADER) THEN Refused
  ELSE LET parsed == ParseAttributes(After(msg, 3))
       IN  IF /\ parsed.ok
              /\ \A i \in DOMAIN parsed.attrs : parsed.attrs[i].key # "m"
              /\ parsed.attrs[1].key = "n"
              /\ Len(parsed.attrs) >= 2
              /\ parsed.attrs[2].key = "r"
              /\ parsed.attrs[2].value # << >>
           THEN [ok |-> TRUE, claimed |-> parsed.attrs[1].value,
                 client_nonce |-> parsed.attrs[2].value]
           ELSE Refused

\* strip_prefix("n,,").unwrap_or(client_first)
BareOf(msg) == IF HasPrefix(msg, GS2_NO_BINDING_HEADER) THEN After(msg, 3) ELSE msg

ParseClientFirstUsername(msg) ==
  LET attr == Split(BareOf(msg), ",")[1]
  IN  IF HasPrefix(attr, <<"n", "=">>)
      THEN [ok |-> TRUE, username |-> UnescapeUsername(After(attr, 2))]
      ELSE Refused

BuildClientPayload(authz_id, authc_id, password) ==
  authz_id \o <<NUL>> \o authc_id \o <<NUL>> \o password

\* Mutant of ParseClientPayload: a password keeps the NULs that follow.
PayloadSplitTwice(payload) ==
  LET fields == Split(payload, NUL)
  IN  IF Len(fields) < 3 \/ \E i \in DOMAIN payload : payload[i] \in NotUtf8 THEN Refused
      ELSE [ok |-> TRUE, authz_id |-> fields[1], authc_id |-> fields[2],
            password |-> After(payload, Len(fields[1]) + Len(fields[2]) + 2)]

ParseClientPayload(payload) ==
  LET fields == Split(payload, NUL)
  IN  IF Len(fields) # 3 \/ \E i \in DOMAIN payload : payload[i] \in NotUtf8 THEN Refused
      ELSE [ok |-> TRUE, authz_id |-> fields[1], authc_id |-> fields[2],
            password |-> fields[3]]
=============================================================================
