----------------------------- MODULE SaslBridge -----------------------------
(***************************************************************************)
(* ScramBridge of mongowire/src/api/auth.rs: the saslStart and saslContinue  *)
(* commands over the AuthState of one connection.  Each handler is an        *)
(* operator that returns the state after the call and the outcome the server *)
(* loop sees: a reply, an Error::Command or an Error::Protocol.              *)
(*                                                                           *)
(* The body of a SASL command is what the field accessors find in it:        *)
(*   mechanism  "SHA-1", "SHA-256", "unsupported" (absent, not a string or an *)
(*              unknown name) or "malformed" (RawDocument::get fails);        *)
(*   payload    a SCRAM message; or a record whose type is "text" (readable,  *)
(*              and not a SCRAM message), "unusable" (absent, of another BSON *)
(*              type or not UTF-8) or "malformed" (RawDocument::get fails).   *)
(***************************************************************************)
EXTENDS Scram

CONSTANT Accounts    \* the users of the CredentialSource: records with the
                     \* fields mechanism, username and password

AuthState(scram, authenticated) == [scram |-> scram, authenticated |-> authenticated]
NoAuth == AuthState(None, None)

Junk == [type : {"text", "unusable", "malformed"}]

Reply(done, payload) == [kind |-> "msg", done |-> done, payload |-> payload]
CommandError  == [kind |-> "command_error"]
ProtocolError == [kind |-> "protocol_error"]

Handled(auth, outcome) == [auth |-> auth, outcome |-> outcome]

-----------------------------------------------------------------------------
\* MemoryCredentialSource: the salt is the same for every user.
Credentials(account) ==
  Derive(account.mechanism,
         EffectivePassword(account.mechanism, account.username, account.password),
         "salt", DefaultIterations(account.mechanism))

Lookup(mechanism, username) ==
  LET found == {a \in Accounts : a.mechanism = mechanism /\ a.username = username}
  IN  IF found = {} THEN None ELSE Credentials(CHOOSE a \in found : TRUE)

\* The error of an accessor: bson_error makes a protocol error of a document
\* that cannot be walked, everything else is AuthenticationFailed.
Unreadable(field) == IF field = "malformed" THEN ProtocolError ELSE CommandError

\* Mutant of SaslStart: a second saslStart replaces the exchange in flight.
SaslStartReplaces(auth, body, nonce) ==
  LET username == UnescapeUsername(body.payload.bare.user)
      server   == HandleClientFirst(NewServer(body.mechanism, nonce), body.payload, username,
                                    Lookup(body.mechanism, username))
  IN  IF /\ body.mechanism \in {"SHA-1", "SHA-256"}
         /\ body.payload.type = "client-first" /\ body.payload.form = "ok"
         /\ Lookup(body.mechanism, username) # None
      THEN Handled([auth EXCEPT !.scram = server.machine], Reply(FALSE, server.msg))
      ELSE Handled(auth, CommandError)

\* Mutant of SaslStart: the name is looked up as it was escaped on the wire.
SaslStartEscapedName(auth, body, nonce) ==
  LET username == body.payload.bare.user
      server   == HandleClientFirst(NewServer(body.mechanism, nonce), body.payload, username,
                                    Lookup(body.mechanism, username))
  IN  IF /\ auth.scram = None
         /\ body.mechanism \in {"SHA-1", "SHA-256"}
         /\ body.payload.type = "client-first" /\ body.payload.form = "ok"
         /\ Lookup(body.mechanism, username) # None
      THEN Handled([auth EXCEPT !.scram = server.machine], Reply(FALSE, server.msg))
      ELSE Handled(auth, CommandError)

SaslStart(auth, body, nonce) ==
  LET username    == UnescapeUsername(body.payload.bare.user)
      credentials == Lookup(body.mechanism, username)
      server      == HandleClientFirst(NewServer(body.mechanism, nonce), body.payload,
                                       username, credentials)
  IN  IF auth.scram # None THEN Handled(auth, CommandError)
      ELSE IF body.mechanism \notin {"SHA-1", "SHA-256"}
      THEN Handled(auth, Unreadable(body.mechanism))
      ELSE IF body.payload.type \in {"unusable", "malformed"}
      THEN Handled(auth, Unreadable(body.payload.type))
      ELSE IF /\ body.payload.type = "client-first"
              /\ body.payload.form # "no_username"
              /\ credentials # None
              /\ server.ok
      THEN Handled([auth EXCEPT !.scram = server.machine], Reply(FALSE, server.msg))
      ELSE Handled(auth, CommandError)

\* Mutant of SaslContinue: a failed proof leaves the exchange in flight.
SaslContinueKeeps(auth, body) ==
  LET server == HandleClientFinal(auth.scram, body.payload)
  IN  IF body.payload.type \in {"unusable", "malformed"}
      THEN Handled(auth, Unreadable(body.payload.type))
      ELSE IF auth.scram = None THEN Handled(auth, CommandError)
      ELSE IF server.ok
           THEN Handled(AuthState(None, server.machine.username), Reply(TRUE, server.msg))
           ELSE Handled(auth, CommandError)

\* Mutant of SaslContinue: the exchange is not taken out on success, so the
\* same client-final message can be presented again.
SaslContinueNotTaken(auth, body) ==
  LET server == HandleClientFinal(auth.scram, body.payload)
  IN  IF body.payload.type \in {"unusable", "malformed"}
      THEN Handled(auth, Unreadable(body.payload.type))
      ELSE IF auth.scram # None /\ server.ok
           THEN Handled([auth EXCEPT !.authenticated = server.machine.username],
                        Reply(TRUE, server.msg))
           ELSE Handled([auth EXCEPT !.scram = None], CommandError)

\* Mutant of SaslContinue: a failed exchange also forgets who authenticated before.
SaslContinueForgets(auth, body) ==
  LET server == HandleClientFinal(auth.scram, body.payload)
  IN  IF body.payload.type \in {"unusable", "malformed"}
      THEN Handled(auth, Unreadable(body.payload.type))
      ELSE IF auth.scram # None /\ server.ok
           THEN Handled(AuthState(None, server.machine.username), Reply(TRUE, server.msg))
           ELSE Handled(NoAuth, CommandError)

SaslContinue(auth, body) ==
  LET server == HandleClientFinal(auth.scram, body.payload)
  IN  IF body.payload.type \in {"unusable", "malformed"}
      THEN Handled(auth, Unreadable(body.payload.type))
      ELSE IF auth.scram = None THEN Handled(auth, CommandError)
      ELSE IF server.ok
           THEN Handled(AuthState(None, server.machine.username), Reply(TRUE, server.msg))
           ELSE Handled([auth EXCEPT !.scram = None], CommandError)
=============================================================================
