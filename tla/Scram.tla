-------------------------------- MODULE Scram --------------------------------
(***************************************************************************)
(* The SCRAM state machines of mongo_common/src/auth/scram.rs: ScramClient   *)
(* and ScramServer, one operator per method.  A method takes the machine and *)
(* a message and returns the machine after the call, whether the call        *)
(* succeeded, and the message it produced; a failing call leaves the machine *)
(* as it was.                                                                *)
(*                                                                           *)
(* Cryptography is symbolic: a hash, an HMAC and a PBKDF2 output are terms   *)
(* holding their inputs, so two of them are equal exactly when their inputs  *)
(* are.  A message is a record; the text that a parser refuses is a message  *)
(* of another type.                                                          *)
(***************************************************************************)
EXTENDS Escaping

CONSTANT None      \* Option::None

MAX_SCRAM_ITERATIONS == 1000000

DefaultIterations(mechanism) == IF mechanism = "SHA-1" THEN 10000 ELSE 15000

Hash(x)      == [preimage |-> x]
Hmac(key, x) == [key |-> key, text |-> x]

\* For SHA-1 MongoDB digests the username into the password.
EffectivePassword(mechanism, username, password) ==
  IF mechanism = "SHA-1" THEN <<username, password>> ELSE <<password>>

SaltedPassword(mechanism, password, salt, iterations) ==
  [mechanism |-> mechanism, password |-> password, salt |-> salt, iterations |-> iterations]

ClientKey(salted) == Hmac(salted, "Client Key")
StoredKey(salted) == Hash(ClientKey(salted))
ServerKey(salted) == Hmac(salted, "Server Key")

\* ClientProof = ClientKey XOR ClientSignature, and the XOR that undoes it.
Proof(client_key, signature)  == [client_key |-> client_key, signature |-> signature]
RecoverKey(proof, signature) == IF proof.signature = signature THEN proof.client_key ELSE None

\* StoredCredentials::derive
Derive(mechanism, password, salt, iterations) ==
  LET salted == SaltedPassword(mechanism, password, salt, iterations)
  IN  [salt |-> salt, iterations |-> iterations,
       stored_key |-> StoredKey(salted), server_key |-> ServerKey(salted)]

-----------------------------------------------------------------------------
(* Messages.  The nonce of an exchange is the client's followed by the        *)
(* server's, so "starts with the client nonce" compares the first of a pair.  *)

Bare(user, nonce) == [user |-> user, nonce |-> nonce]

\* form: "ok", "no_username" (does not begin with n=), or "refused" (it names a
\* user and handle_client_first rejects it: GS2 header, m= extension, nonce).
ClientFirst(form, bare) == [type |-> "client-first", form |-> form, bare |-> bare]

ServerFirst(nonce, salt, iterations) ==
  [type |-> "server-first", nonce |-> nonce, salt |-> salt, iterations |-> iterations]

WithoutProof(nonce) == [channel_binding |-> "biws", nonce |-> nonce]

ClientFinal(without_proof, proof) ==
  [type |-> "client-final", without_proof |-> without_proof, proof |-> proof]

ServerFinal(verifier) == [type |-> "server-final", verifier |-> verifier]

Failed(machine)  == [ok |-> FALSE, machine |-> machine, msg |-> None]
Ok(machine, msg) == [ok |-> TRUE, machine |-> machine, msg |-> msg]

-----------------------------------------------------------------------------
(* ScramClient *)

NewClient(mechanism, username, password, nonce) ==
  [mechanism |-> mechanism, username |-> username,
   password |-> EffectivePassword(mechanism, username, password),
   client_nonce |-> nonce, server_first |-> None, salted_password |-> None,
   auth_message |-> << >>, state |-> "Init"]

ClientFirstMessage(c) ==
  LET bare == Bare(EscapeUsername(c.username), c.client_nonce)
  IN  IF c.state = "Init"
      THEN Ok([c EXCEPT !.auth_message = <<bare>>, !.state = "FirstSent"],
              ClientFirst("ok", bare))
      ELSE Failed(c)

ParsesAsServerFirst(msg) ==
  /\ msg.type = "server-first"
  /\ msg.iterations \in 1..MAX_SCRAM_ITERATIONS

ReceiveServerFirst(c, msg) ==
  IF /\ c.state = "FirstSent"
     /\ c.server_first = None
     /\ ParsesAsServerFirst(msg)
     /\ msg.nonce[1] = c.client_nonce
  THEN Ok([c EXCEPT !.auth_message = Append(@, msg),
             !.salted_password = SaltedPassword(c.mechanism, c.password, msg.salt, msg.iterations),
             !.server_first = msg], None)
  ELSE Failed(c)

ClientFinalMessage(c) ==
  LET without_proof == WithoutProof(c.server_first.nonce)
      auth_message  == Append(c.auth_message, without_proof)
      signature     == Hmac(StoredKey(c.salted_password), auth_message)
  IN  IF c.state = "FirstSent" /\ c.server_first # None
      THEN Ok([c EXCEPT !.auth_message = auth_message, !.state = "FinalSent"],
              ClientFinal(without_proof, Proof(ClientKey(c.salted_password), signature)))
      ELSE Failed(c)

\* Mutant of ReceiveServerFinal: any server-final message is believed.
ReceiveServerFinalUnverified(c, msg) ==
  IF c.state = "FinalSent" /\ msg.type = "server-final"
  THEN Ok([c EXCEPT !.state = "Done"], None)
  ELSE Failed(c)

ReceiveServerFinal(c, msg) ==
  IF /\ c.state = "FinalSent"
     /\ msg.type = "server-final"
     /\ msg.verifier = Hmac(ServerKey(c.salted_password), c.auth_message)
  THEN Ok([c EXCEPT !.state = "Done"], None)
  ELSE Failed(c)

-----------------------------------------------------------------------------
(* ScramServer *)

NewServer(mechanism, nonce) ==
  [mechanism |-> mechanism, server_nonce |-> nonce, client_first_bare |-> None,
   server_first_message |-> None, state |-> "ExpectClientFirst", username |-> None,
   client_nonce |-> None, credentials |-> None]

HandleClientFirst(s, msg, username, credentials) ==
  LET first == ServerFirst(<<msg.bare.nonce, s.server_nonce>>,
                           credentials.salt, credentials.iterations)
  IN  IF s.state = "ExpectClientFirst" /\ msg.type = "client-first" /\ msg.form = "ok"
      THEN Ok([s EXCEPT !.client_first_bare = msg.bare, !.client_nonce = msg.bare.nonce,
                 !.username = username, !.credentials = credentials,
                 !.server_first_message = first, !.state = "ExpectClientFinal"], first)
      ELSE Failed(s)

ServerAuthMessage(s, without_proof) ==
  <<s.client_first_bare, s.server_first_message, without_proof>>

\* Mutant of HandleClientFinal: the proof is not compared with the stored key.
HandleClientFinalUnproven(s, msg) ==
  IF /\ s.state = "ExpectClientFinal"
     /\ msg.type = "client-final"
     /\ msg.without_proof = WithoutProof(<<s.client_nonce, s.server_nonce>>)
  THEN Ok([s EXCEPT !.state = "Done"],
          ServerFinal(Hmac(s.credentials.server_key, ServerAuthMessage(s, msg.without_proof))))
  ELSE Failed(s)

HandleClientFinal(s, msg) ==
  LET without_proof == WithoutProof(<<s.client_nonce, s.server_nonce>>)
      auth_message  == ServerAuthMessage(s, without_proof)
      signature     == Hmac(s.credentials.stored_key, auth_message)
  IN  IF /\ s.state = "ExpectClientFinal"
         /\ msg.type = "client-final"
         /\ msg.without_proof = without_proof
         /\ Hash(RecoverKey(msg.proof, signature)) = s.credentials.stored_key
      THEN Ok([s EXCEPT !.state = "Done"],
              ServerFinal(Hmac(s.credentials.server_key, auth_message)))
      ELSE Failed(s)
=============================================================================
