---------------------------- MODULE ScramExchange ----------------------------
(***************************************************************************)
(* Several ScramClients authenticating over one connection whose SASL        *)
(* commands are answered by ScramBridge.  A pool or a retrying driver may     *)
(* hand any message it has seen to either side, in any order and more than    *)
(* once: a reply to a request sent with moreToCome is never delivered, a      *)
(* repeated request is delivered twice, a client that gave up leaves its      *)
(* exchange behind on the connection.                                         *)
(***************************************************************************)
EXTENDS SaslBridge, FiniteSets

CONSTANTS Clients,        \* the ScramClient values
          Setup,          \* Setup[c]: mechanism, username and password of client c
          MaxExchanges    \* bound on the ScramServer values the bridge creates

\* The server-first messages the bridge can send.
ServerFirsts ==
  {ServerFirst(<<c, n>>, "salt", DefaultIterations(m)) :
     c \in Clients, n \in 1..MaxExchanges, m \in {"SHA-1", "SHA-256"}}

ASSUME BoundsAssumption == MaxExchanges \in Nat

\* None is told apart from the values it stands in for.
ASSUME NoneAssumption ==
  /\ None \notin ServerFirsts
  /\ \A a \in Accounts :
       /\ None # Credentials(a)
       /\ None # ClientKey(SaltedPassword(a.mechanism,
                             EffectivePassword(a.mechanism, a.username, a.password),
                             "salt", DefaultIterations(a.mechanism)))

\* The names of the clients survive escaping: ClientFirstReadBack of MCLibrary.
ASSUME EscapeAssumption ==
  \A c \in Clients : UnescapeUsername(EscapeUsername(Setup[c].username)) = Setup[c].username

VARIABLES
  client,      \* client[c]: the ScramClient
  auth,        \* ConnectionInfo::auth
  toServer,    \* SASL payloads the clients have produced
  toClients,   \* SASL payloads the bridge has replied with
  started,     \* number of server nonces drawn so far (generate_nonce: all differ)
  tried,       \* history: the server nonces a readable saslContinue has answered
  verified     \* history: the proofs accepted, in order

vars == <<client, auth, toServer, toClients, started, tried, verified>>

InitialClient(c) ==
  NewClient(Setup[c].mechanism, Setup[c].username, Setup[c].password, c)

Init ==
  /\ client = [c \in Clients |-> InitialClient(c)]
  /\ auth = NoAuth
  /\ toServer = {}
  /\ toClients = {}
  /\ started = 0
  /\ tried = {}
  /\ verified = << >>

-----------------------------------------------------------------------------
(* The client's methods; a call that fails changes nothing.                   *)

Sent(msg) == IF msg = None THEN {} ELSE {msg}

Produce(c, result) ==
  /\ client' = [client EXCEPT ![c] = result.machine]
  /\ toServer' = toServer \cup Sent(result.msg)
  /\ UNCHANGED <<auth, toClients, started, tried, verified>>

SendClientFirst(c) == Produce(c, ClientFirstMessage(client[c]))

GetServerFirst(c, msg) == Produce(c, ReceiveServerFirst(client[c], msg))

SendClientFinal(c) == Produce(c, ClientFinalMessage(client[c]))

GetServerFinal(c, msg) == Produce(c, ReceiveServerFinal(client[c], msg))

-----------------------------------------------------------------------------
(* The bridge's handlers.                                                     *)

Payloads(outcome) == IF outcome.kind = "msg" THEN {outcome.payload} ELSE {}

\* A nonce is drawn only when ScramServer::new is reached and, since a value
\* that is dropped again has sent it to nobody, counted only when it is used.
HandleSaslStart(body) ==
  LET result == SaslStart(auth, body, started + 1)
  IN  /\ started < MaxExchanges
      /\ auth' = result.auth
      /\ toClients' = toClients \cup Payloads(result.outcome)
      /\ started' = IF result.outcome.kind = "msg" THEN started + 1 ELSE started
      /\ UNCHANGED <<client, toServer, tried, verified>>

HandleSaslContinue(body) ==
  LET result == SaslContinue(auth, body)
      proof  == [username |-> auth.scram.username, nonce |-> auth.scram.server_nonce,
                 auth_message |-> ServerAuthMessage(auth.scram, body.payload.without_proof)]
  IN  /\ auth' = result.auth
      /\ toClients' = toClients \cup Payloads(result.outcome)
      /\ tried' = IF auth.scram # None /\ body.payload.type \notin {"unusable", "malformed"}
                  THEN tried \cup {auth.scram.server_nonce} ELSE tried
      /\ verified' = IF result.outcome.kind = "msg" THEN Append(verified, proof) ELSE verified
      /\ UNCHANGED <<client, toServer, started>>

Refused == {ClientFirst(form, Bare(Setup[c].username, c)) :
              form \in {"no_username", "refused"}, c \in Clients}

Next ==
  \/ \E c \in Clients :
       \/ SendClientFirst(c)
       \/ SendClientFinal(c)
       \/ \E msg \in toClients : GetServerFirst(c, msg) \/ GetServerFinal(c, msg)
  \/ \E payload \in toServer \cup Junk \cup Refused :
       \/ \E mechanism \in {"SHA-1", "SHA-256", "unsupported", "malformed"} :
            HandleSaslStart([mechanism |-> mechanism, payload |-> payload])
       \/ HandleSaslContinue([payload |-> payload])

Spec == Init /\ [][Next]_vars

-----------------------------------------------------------------------------
(* Properties *)

HoldsPassword(c, username) ==
  \E a \in Accounts :
    /\ a.username = username
    /\ a.mechanism = client[c].mechanism
    /\ client[c].password = EffectivePassword(a.mechanism, a.username, a.password)

\* Every proof handle_client_final accepts was made by a client of that very
\* username that holds the account's password and computed it for this exchange,
\* whatever stale or repeated messages the handlers were given.
VerifiedByPasswordHolder ==
  \A i \in DOMAIN verified : \E c \in Clients :
    /\ client[c].state \in {"FinalSent", "Done"}
    /\ client[c].username = verified[i].username
    /\ client[c].auth_message = verified[i].auth_message
    /\ HoldsPassword(c, verified[i].username)

\* Mutual authentication: a client that reaches Done knows that the server has
\* verified its own exchange, for its own username (receive_server_final).
DoneMeansVerified ==
  \A c \in Clients : client[c].state = "Done" =>
    \E i \in DOMAIN verified :
      /\ verified[i].auth_message = client[c].auth_message
      /\ verified[i].username = client[c].username

\* "any error below aborts the exchange (the next attempt must start with a
\* fresh saslStart)" (auth.rs:101-102): the exchange in flight has not been answered
\* yet, rightly or wrongly, and holds the credentials of the user that its
\* client-first message names (auth.rs:83-96).
OneAttemptPerExchange ==
  auth.scram # None =>
    /\ auth.scram.state = "ExpectClientFinal"
    /\ auth.scram.server_nonce \in (1..started) \ tried
    /\ auth.scram.username = UnescapeUsername(auth.scram.client_first_bare.user)
    /\ auth.scram.credentials = Lookup(auth.scram.mechanism, auth.scram.username)

\* ctx.auth.authenticated is the identity that authenticated last on this
\* connection (auth.rs:39); failed and abandoned exchanges do not change it.
LastIdentity ==
  auth.authenticated =
    IF verified = << >> THEN None ELSE verified[Len(verified)].username

\* An exchange in flight is finished or aborted, never replaced: a saslStart
\* that arrives meanwhile changes nothing (auth.rs:76-80).
ExchangeNotReplaced ==
  [][auth.scram # None /\ auth'.scram # None => auth'.scram = auth.scram]_vars
=============================================================================
