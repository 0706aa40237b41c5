------------------------- MODULE ScramExchangeProofs -------------------------
(***************************************************************************)
(* Authentication in ScramExchange for any number of clients, accounts and    *)
(* exchanges, and any delivery of the messages.                               *)
(***************************************************************************)
EXTENDS ScramExchange, TLAPS, SequenceTheorems

-----------------------------------------------------------------------------
(* What the methods of ScramClient, ScramServer and the SASL bridge do to the     *)
(* invariant, method by method.                                               *)

Final == {"FinalSent", "Done"}

MyBare(c) == Bare(EscapeUsername(Setup[c].username), c)

\* A client holds what it was set up with, and its transcript is that of its state.
Machine(c, me) ==
  /\ DOMAIN me = {"mechanism", "username", "password", "client_nonce", "server_first",
                  "salted_password", "auth_message", "state"}
  /\ me.username = Setup[c].username /\ me.client_nonce = c
  /\ me.state \in {"Init", "FirstSent", "FinalSent", "Done"}
  /\ me.state = "Init" => me.server_first = None
  /\ me.server_first # None =>
       me.salted_password = SaltedPassword(me.mechanism, me.password, me.server_first.salt,
                                           me.server_first.iterations)
  /\ me.state = "FirstSent" =>
       me.auth_message = IF me.server_first = None THEN <<MyBare(c)>>
                         ELSE <<MyBare(c), me.server_first>>
  /\ me.state \in Final =>
       /\ me.server_first # None
       /\ me.auth_message = <<MyBare(c), me.server_first, WithoutProof(me.server_first.nonce)>>

\* The client-final message a client has made.
FinalOf(me) ==
  ClientFinal(WithoutProof(me.server_first.nonce),
              Proof(ClientKey(me.salted_password), Hmac(StoredKey(me.salted_password), me.auth_message)))

ClientsInv ==
  /\ client = [c \in Clients |-> client[c]]
  /\ \A c \in Clients : Machine(c, client[c])

\* Everything on its way to the bridge was made by a client.
ToServerInv ==
  \A m \in toServer : \E c \in Clients :
    \/ m = ClientFirst("ok", MyBare(c))
    \/ client[c].state \in Final /\ m = FinalOf(client[c])

\* A server-final message signs the transcript of an accepted proof.
ToClientsInv ==
  \A m \in toClients :
    \/ m \in ServerFirsts
    \/ \E i \in DOMAIN verified, a \in Accounts :
         m = ServerFinal(Hmac(Credentials(a).server_key, verified[i].auth_message))

\* The exchange in flight, besides OneAttemptPerExchange.
ExchangeInv ==
  /\ DOMAIN auth = {"scram", "authenticated"}
  /\ auth.scram # None =>
       /\ DOMAIN auth.scram = {"mechanism", "server_nonce", "client_first_bare",
                               "server_first_message", "state", "username", "client_nonce",
                               "credentials"}
       /\ auth.scram.credentials # None

\* A sequence, of whatever elements.
IsSequence(s) == s \in Seq({s[i] : i \in DOMAIN s})

HistoryInv ==
  /\ started \in 0..MaxExchanges
  /\ tried \subseteq 1..started
  /\ IsSequence(verified)

AuthInv ==
  /\ ClientsInv /\ ToServerInv /\ ToClientsInv /\ ExchangeInv /\ HistoryInv
  /\ VerifiedByPasswordHolder /\ DoneMeansVerified
  /\ OneAttemptPerExchange /\ LastIdentity

-----------------------------------------------------------------------------
(* The methods of the client *)

\* A client that has sent its proof keeps everything the proof was made from.
Keeps(me, new) ==
  me.state \in Final =>
    /\ new.state \in Final
    /\ new.mechanism = me.mechanism /\ new.password = me.password
    /\ new.username = me.username /\ new.server_first = me.server_first
    /\ new.salted_password = me.salted_password /\ new.auth_message = me.auth_message

\* Appending to a sequence of known elements.
LEMMA AppendEquals ==
  ASSUME NEW S, NEW s \in Seq(S), NEW t \in Seq(S), NEW e \in S,
         Len(t) = Len(s) + 1, \A i \in 1..Len(s) : t[i] = s[i], t[Len(s) + 1] = e
  PROVE  Append(s, e) = t
<1>1. /\ Append(s, e) \in Seq(S) /\ Len(Append(s, e)) = Len(t) /\ Len(s) \in Nat
      /\ \A i \in 1..Len(s) : Append(s, e)[i] = s[i]
      /\ Append(s, e)[Len(s) + 1] = e
  BY AppendProperties
<1>2. \A i \in 1..Len(Append(s, e)) : i \in 1..Len(s) \/ i = Len(s) + 1
  BY <1>1
<1>3. \A i \in 1..Len(Append(s, e)) : Append(s, e)[i] = t[i]
  BY <1>1, <1>2
<1> QED
  BY <1>1, <1>3, SeqEqual

\* Append on transcripts of one and of two messages.
LEMMA AppendTuples ==
  ASSUME NEW x, NEW y, NEW z
  PROVE  Append(<<x>>, y) = <<x, y>> /\ Append(<<x, y>>, z) = <<x, y, z>>
<1> DEFINE S == {x, y, z}
           one == <<x>>
           two == <<x, y>>
           three == <<x, y, z>>
<1>1. one \in Seq(S) /\ Len(one) = 1 /\ one[1] = x
  OBVIOUS
<1>2. two \in Seq(S) /\ Len(two) = 2 /\ two[1] = x /\ two[2] = y
  OBVIOUS
<1>3. three \in Seq(S) /\ Len(three) = 3 /\ three[1] = x /\ three[2] = y /\ three[3] = z
  OBVIOUS
<1>4. y \in S /\ z \in S
  OBVIOUS
<1> HIDE DEF S, one, two, three
<1>5. Append(one, y) = two
  <2>1. /\ \A i \in 1..Len(one) : two[i] = one[i]
        /\ Len(two) = Len(one) + 1 /\ two[Len(one) + 1] = y
    BY <1>1, <1>2
  <2>2. one \in Seq(S) /\ two \in Seq(S) /\ y \in S
    BY <1>1, <1>2, <1>4
  <2> QED
    BY <2>1, <2>2, AppendEquals
<1>6. Append(two, z) = three
  <2>1. /\ \A i \in 1..Len(two) : three[i] = two[i]
        /\ Len(three) = Len(two) + 1 /\ three[Len(two) + 1] = z
    BY <1>2, <1>3
  <2>2. two \in Seq(S) /\ three \in Seq(S) /\ z \in S
    BY <1>2, <1>3, <1>4
  <2> QED
    BY <2>1, <2>2, AppendEquals
<1> QED
  BY <1>5, <1>6 DEF one, two, three

\* t is s with x at its end.
Extended(s, x, t) ==
  /\ IsSequence(t)
  /\ DOMAIN s \subseteq DOMAIN t /\ \A i \in DOMAIN s : t[i] = s[i]
  /\ Len(t) \in DOMAIN t /\ t[Len(t)] = x /\ t # << >>
  /\ \A i \in DOMAIN t : i \in DOMAIN s \/ i = Len(t)

\* A proof is added to the history.
LEMMA AppendHistory ==
  ASSUME NEW s, NEW x, IsSequence(s)
  PROVE  Extended(s, x, Append(s, x))
<1> DEFINE t == Append(s, x)
<1> DEFINE R == {s[i] : i \in DOMAIN s}
           S == R \cup {x}
<1>1. s \in Seq(S) /\ x \in S
  <2>1. R \subseteq S /\ x \in S /\ s \in Seq(R)
    BY DEF IsSequence
  <2> HIDE DEF R, S
  <2> QED
    BY <2>1, SeqMonotonic
<1> HIDE DEF R, S
<1>2. /\ t \in Seq(S) /\ t # << >> /\ Len(t) = Len(s) + 1 /\ Len(s) \in Nat
      /\ \A i \in 1..Len(s) : t[i] = s[i]
      /\ t[Len(s) + 1] = x
  BY <1>1, AppendProperties
<1> HIDE DEF t
<1>3. DOMAIN s = 1..Len(s) /\ DOMAIN t = 1..Len(t)
  BY <1>1, <1>2
<1>4. IsSequence(t)
  <2> DEFINE T == {t[i] : i \in DOMAIN t}
  <2>1. t \in [1..Len(t) -> S] /\ Len(t) \in Nat
    BY <1>2, LenProperties
  <2>2. \A i \in 1..Len(t) : t[i] \in T
    BY <1>3
  <2> HIDE DEF T
  <2>3. t \in [1..Len(t) -> T]
    BY <2>1, <2>2
  <2>4. t \in Seq(T)
    BY <2>1, <2>3, SeqDef
  <2> QED
    BY <2>4 DEF T, IsSequence
<1>5. Extended(s, x, t)
  BY <1>2, <1>3, <1>4 DEF Extended
<1> QED
  BY <1>5 DEF t

\* client_first_message
LEMMA FirstMessage ==
  ASSUME NEW c, NEW me, Machine(c, me), NEW r, r = ClientFirstMessage(me)
  PROVE  /\ Machine(c, r.machine) /\ Keeps(me, r.machine)
         /\ r.machine.state = "Done" => me.state = "Done"
         /\ r.msg # None => r.msg = ClientFirst("ok", MyBare(c))
<1>1. CASE me.state = "Init"
  <2> DEFINE bare == Bare(EscapeUsername(me.username), me.client_nonce)
  <2>1. bare = MyBare(c)
    BY DEF Machine, MyBare
  <2>2. r.machine = [me EXCEPT !.auth_message = <<bare>>, !.state = "FirstSent"]
        /\ r.msg = ClientFirst("ok", bare)
    BY <1>1 DEF ClientFirstMessage, Ok
  <2> HIDE DEF bare
  <2> QED
    BY <1>1, <2>1, <2>2 DEF Machine, Keeps, Final
<1>2. CASE me.state # "Init"
  BY <1>2 DEF ClientFirstMessage, Failed, Keeps
<1> QED
  BY <1>1, <1>2

\* receive_server_first
LEMMA GotServerFirst ==
  ASSUME NEW c, NEW me, Machine(c, me), NEW msg, NEW r, r = ReceiveServerFirst(me, msg),
         msg.type = "server-first" => msg # None
  PROVE  /\ Machine(c, r.machine) /\ Keeps(me, r.machine)
         /\ r.machine.state = "Done" => me.state = "Done"
         /\ r.msg = None
<1>1. CASE r.ok
  <2> DEFINE salted == SaltedPassword(me.mechanism, me.password, msg.salt, msg.iterations)
  <2>1. /\ me.state = "FirstSent" /\ me.server_first = None /\ msg.type = "server-first"
        /\ r.machine = [me EXCEPT !.auth_message = Append(@, msg), !.salted_password = salted,
                                  !.server_first = msg]
        /\ r.msg = None
    BY <1>1 DEF ReceiveServerFirst, ParsesAsServerFirst, Ok, Failed
  <2>2. Append(me.auth_message, msg) = <<MyBare(c), msg>>
    <3>1. me.auth_message = <<MyBare(c)>>
      BY <2>1 DEF Machine
    <3> QED
      BY <3>1, AppendTuples, Zenon
  <2> HIDE DEF salted
  <2>3. /\ DOMAIN r.machine = DOMAIN me
        /\ r.machine.state = "FirstSent" /\ r.machine.server_first = msg
        /\ r.machine.auth_message = <<MyBare(c), msg>> /\ r.machine.salted_password = salted
        /\ r.machine.username = me.username /\ r.machine.client_nonce = me.client_nonce
        /\ r.machine.mechanism = me.mechanism /\ r.machine.password = me.password
    BY <2>1, <2>2 DEF Machine
  <2> QED
    BY <2>1, <2>3 DEF Machine, Keeps, Final, salted
<1>2. CASE ~r.ok
  <2>1. r.machine = me /\ r.msg = None
    BY <1>2 DEF ReceiveServerFirst, Failed, Ok
  <2> QED
    BY <2>1 DEF Keeps
<1> QED
  BY <1>1, <1>2

\* client_final_message
LEMMA FinalMessage ==
  ASSUME NEW c, NEW me, Machine(c, me), NEW r, r = ClientFinalMessage(me)
  PROVE  /\ Machine(c, r.machine) /\ Keeps(me, r.machine)
         /\ r.machine.state = "Done" => me.state = "Done"
         /\ r.msg # None => r.machine.state \in Final /\ r.msg = FinalOf(r.machine)
<1> DEFINE wp == WithoutProof(me.server_first.nonce)
           am == Append(me.auth_message, wp)
<1>1. CASE me.state = "FirstSent" /\ me.server_first # None
  <2>1. /\ r.machine = [me EXCEPT !.auth_message = am, !.state = "FinalSent"]
        /\ r.msg = ClientFinal(wp, Proof(ClientKey(me.salted_password),
                                         Hmac(StoredKey(me.salted_password), am)))
    BY <1>1 DEF ClientFinalMessage, Ok
  <2>2. am = <<MyBare(c), me.server_first, wp>>
    <3>1. me.auth_message = <<MyBare(c), me.server_first>>
      BY <1>1 DEF Machine
    <3> QED
      BY <3>1, AppendTuples, Zenon
  <2> HIDE DEF am
  <2>3. /\ DOMAIN r.machine = DOMAIN me
        /\ r.machine.state = "FinalSent" /\ r.machine.server_first = me.server_first
        /\ r.machine.auth_message = am /\ r.machine.salted_password = me.salted_password
        /\ r.machine.username = me.username /\ r.machine.client_nonce = me.client_nonce
        /\ r.machine.mechanism = me.mechanism /\ r.machine.password = me.password
    BY <2>1 DEF Machine
  <2>4. r.msg = FinalOf(r.machine)
    BY <2>1, <2>3 DEF FinalOf
  <2> QED
    BY <1>1, <2>2, <2>3, <2>4 DEF Machine, Keeps, Final
<1>2. CASE ~(me.state = "FirstSent" /\ me.server_first # None)
  <2>1. r.machine = me /\ r.msg = None
    BY <1>2 DEF ClientFinalMessage, Failed
  <2> QED
    BY <2>1 DEF Keeps
<1> QED
  BY <1>1, <1>2

\* receive_server_final: a client is done only on a signature of its own transcript.
LEMMA GotServerFinal ==
  ASSUME NEW c, NEW me, NEW msg, NEW r, Machine(c, me), r = ReceiveServerFinal(me, msg)
  PROVE  /\ Machine(c, r.machine) /\ Keeps(me, r.machine) /\ r.msg = None
         /\ \/ me.state = "Done" \/ r.machine.state # "Done"
            \/ /\ msg.type = "server-final"
               /\ msg.verifier = Hmac(ServerKey(me.salted_password), me.auth_message)
               /\ r.machine.auth_message = me.auth_message
<1>1. CASE r.ok
  <2>1. /\ me.state = "FinalSent" /\ msg.type = "server-final"
        /\ msg.verifier = Hmac(ServerKey(me.salted_password), me.auth_message)
        /\ r.machine = [me EXCEPT !.state = "Done"] /\ r.msg = None
    BY <1>1 DEF ReceiveServerFinal, Ok, Failed
  <2>2. /\ DOMAIN r.machine = DOMAIN me
        /\ r.machine.state = "Done" /\ r.machine.server_first = me.server_first
        /\ r.machine.auth_message = me.auth_message
        /\ r.machine.salted_password = me.salted_password
        /\ r.machine.username = me.username /\ r.machine.client_nonce = me.client_nonce
        /\ r.machine.mechanism = me.mechanism /\ r.machine.password = me.password
    BY <2>1 DEF Machine
  <2> QED
    BY <2>1, <2>2 DEF Machine, Keeps, Final
<1>2. CASE ~r.ok
  <2>1. r.machine = me /\ r.msg = None
    BY <1>2 DEF ReceiveServerFinal, Failed, Ok
  <2> QED
    BY <2>1 DEF Keeps
<1> QED
  BY <1>1, <1>2

-----------------------------------------------------------------------------
(* The handlers of the bridge *)

\* What lookup finds is the credentials of an account.
LEMMA Found ==
  ASSUME NEW mechanism, NEW username, Lookup(mechanism, username) # None
  PROVE  \E a \in Accounts : /\ a.mechanism = mechanism /\ a.username = username
                            /\ Lookup(mechanism, username) = Credentials(a)
<1> DEFINE found == {a \in Accounts : a.mechanism = mechanism /\ a.username = username}
<1>1. found # {} /\ Lookup(mechanism, username) = Credentials(CHOOSE a \in found : TRUE)
  BY DEF Lookup
<1>2. (CHOOSE a \in found : TRUE) \in found
  BY <1>1, Zenon
<1> QED
  BY Zenon, <1>1, <1>2

\* A client-first message that is accepted is one a client has sent.
LEMMA AcceptedFirst ==
  ASSUME ToServerInv, NEW m \in toServer \cup Junk \cup Refused,
         m.type = "client-first", m.form = "ok"
  PROVE  \E c \in Clients : m.bare = MyBare(c)
<1>1. m \notin Junk
  BY DEF Junk
<1>2. m \notin Refused
  BY DEF Refused, ClientFirst
<1>3. PICK c \in Clients : \/ m = ClientFirst("ok", MyBare(c))
                           \/ m = FinalOf(client[c])
  BY <1>1, <1>2, Zenon DEF ToServerInv
<1>4. m # FinalOf(client[c])
  BY DEF FinalOf, ClientFinal
<1> QED
  BY <1>3, <1>4 DEF ClientFirst

\* A client-final message is one a client has sent.
LEMMA AcceptedFinal ==
  ASSUME ToServerInv, NEW m \in toServer \cup Junk \cup Refused, m.type = "client-final"
  PROVE  \E c \in Clients : client[c].state \in Final /\ m = FinalOf(client[c])
<1>1. m \notin Junk
  BY DEF Junk
<1>2. m \notin Refused
  BY DEF Refused, ClientFirst
<1>3. PICK c \in Clients : \/ m = ClientFirst("ok", MyBare(c))
                           \/ client[c].state \in Final /\ m = FinalOf(client[c])
  BY <1>1, <1>2 DEF ToServerInv
<1>4. m # ClientFirst("ok", MyBare(c))
  BY DEF ClientFirst
<1> QED
  BY <1>3, <1>4

\* saslStart changes nothing, or begins an exchange for the user that a client named.
LEMMA StartResult ==
  ASSUME ToServerInv, HistoryInv, ExchangeInv, started < MaxExchanges,
         NEW mechanism, NEW payload \in toServer \cup Junk \cup Refused, NEW result,
         result = SaslStart(auth, [mechanism |-> mechanism, payload |-> payload], started + 1)
  PROVE  \/ result.auth = auth /\ result.outcome.kind # "msg"
         \/ /\ auth.scram = None /\ result.outcome.kind = "msg"
            /\ result.outcome.payload \in ServerFirsts
            /\ DOMAIN result.auth = {"scram", "authenticated"}
            /\ result.auth.authenticated = auth.authenticated
            /\ DOMAIN result.auth.scram =
                 {"mechanism", "server_nonce", "client_first_bare", "server_first_message",
                  "state", "username", "client_nonce", "credentials"}
            /\ result.auth.scram.credentials # None
            /\ result.auth.scram.state = "ExpectClientFinal"
            /\ result.auth.scram.server_nonce = started + 1
            /\ result.auth.scram.username
                 = UnescapeUsername(result.auth.scram.client_first_bare.user)
            /\ result.auth.scram.credentials
                 = Lookup(result.auth.scram.mechanism, result.auth.scram.username)
<1> DEFINE username == UnescapeUsername(payload.bare.user)
           credentials == Lookup(mechanism, username)
           new == NewServer(mechanism, started + 1)
           server == HandleClientFirst(new, payload, username, credentials)
           first == ServerFirst(<<payload.bare.nonce, new.server_nonce>>, credentials.salt,
                                credentials.iterations)
<1>1. \/ result.auth = auth /\ result.outcome.kind # "msg"
      \/ /\ auth.scram = None
         /\ mechanism \in {"SHA-1", "SHA-256"}
         /\ payload.type = "client-first" /\ credentials # None /\ server.ok
         /\ result = Handled([auth EXCEPT !.scram = server.machine], Reply(FALSE, server.msg))
  BY Zenon DEF SaslStart, Handled, Unreadable, CommandError, ProtocolError
<1>2. SUFFICES ASSUME auth.scram = None, mechanism \in {"SHA-1", "SHA-256"},
                      payload.type = "client-first", credentials # None, server.ok,
                      result = Handled([auth EXCEPT !.scram = server.machine],
                                       Reply(FALSE, server.msg))
               PROVE  /\ result.outcome.kind = "msg"
                      /\ result.outcome.payload \in ServerFirsts
                      /\ DOMAIN result.auth = {"scram", "authenticated"}
                      /\ result.auth.authenticated = auth.authenticated
                      /\ DOMAIN result.auth.scram =
                           {"mechanism", "server_nonce", "client_first_bare",
                            "server_first_message", "state", "username", "client_nonce",
                            "credentials"}
                      /\ result.auth.scram.credentials # None
                      /\ result.auth.scram.state = "ExpectClientFinal"
                      /\ result.auth.scram.server_nonce = started + 1
                      /\ result.auth.scram.username
                           = UnescapeUsername(result.auth.scram.client_first_bare.user)
                      /\ result.auth.scram.credentials
                           = Lookup(result.auth.scram.mechanism, result.auth.scram.username)
  BY <1>1, Zenon
<1> DEFINE machine == [new EXCEPT !.client_first_bare = payload.bare,
                         !.client_nonce = payload.bare.nonce, !.username = username,
                         !.credentials = credentials, !.server_first_message = first,
                         !.state = "ExpectClientFinal"]
<1>3. payload.form = "ok" /\ server.msg = first /\ server.machine = machine
  <2>1. \/ payload.form = "ok" /\ server = Ok(machine, first)
        \/ server = Failed(new)
    BY Zenon DEF HandleClientFirst
  <2> HIDE DEF server, machine, first, new
  <2>2. server # Failed(new)
    BY <1>2 DEF Failed
  <2> QED
    BY <2>1, <2>2 DEF Ok
<1>4. PICK c \in Clients : payload.bare = MyBare(c)
  BY <1>2, <1>3, AcceptedFirst
<1>5. credentials.salt = "salt" /\ credentials.iterations = DefaultIterations(mechanism)
  BY <1>2, Found DEF Credentials, Derive
<1>6. first \in ServerFirsts
  <2>1. payload.bare.nonce = c
    BY <1>4 DEF MyBare, Bare
  <2>2. started + 1 \in 1..MaxExchanges
    BY BoundsAssumption DEF HistoryInv
  <2>3. first = ServerFirst(<<c, started + 1>>, "salt", DefaultIterations(mechanism))
    BY <2>1, <1>5 DEF NewServer
  <2> HIDE DEF first
  <2> QED
    BY <1>2, <2>2, <2>3 DEF ServerFirsts
<1> HIDE DEF first, credentials, username
<1>7. /\ DOMAIN server.machine =
           {"mechanism", "server_nonce", "client_first_bare", "server_first_message",
            "state", "username", "client_nonce", "credentials"}
      /\ server.machine.credentials = credentials
      /\ server.machine.state = "ExpectClientFinal"
      /\ server.machine.server_nonce = started + 1
      /\ server.machine.mechanism = mechanism
      /\ server.machine.username = username
      /\ server.machine.client_first_bare = payload.bare
  BY ZenonT(30), <1>3 DEF NewServer
<1> HIDE DEF server
<1>8. /\ result.auth = [auth EXCEPT !.scram = server.machine]
      /\ result.outcome = Reply(FALSE, server.msg)
  <2> DEFINE after == [auth EXCEPT !.scram = server.machine]
             out == Reply(FALSE, server.msg)
  <2>1. result = Handled(after, out)
    BY Zenon, <1>2
  <2> HIDE DEF after, out
  <2>2. result.auth = after /\ result.outcome = out
    BY <2>1 DEF Handled
  <2> QED
    BY Zenon, <2>2 DEF after, out
<1>9. /\ DOMAIN result.auth = {"scram", "authenticated"}
      /\ result.auth.scram = server.machine /\ result.auth.authenticated = auth.authenticated
  BY <1>8 DEF ExchangeInv
<1>10. result.outcome.kind = "msg" /\ result.outcome.payload \in ServerFirsts
  BY <1>3, <1>6, <1>8 DEF Reply
<1>11. /\ username = UnescapeUsername(payload.bare.user)
       /\ credentials = Lookup(mechanism, username)
  BY DEF username, credentials
<1> QED
  BY <1>2, <1>7, <1>9, <1>10, <1>11

\* The transcript of the exchange in flight as the server closes it.
Transcript == ServerAuthMessage(auth.scram, WithoutProof(<<auth.scram.client_nonce,
                                                          auth.scram.server_nonce>>))

\* An accepted proof comes from a client that holds the password of the account and has
\* the transcript of the exchange in flight.
LEMMA ProofAccepted ==
  ASSUME ClientsInv, ToServerInv, ExchangeInv, OneAttemptPerExchange, auth.scram # None,
         NEW payload \in toServer \cup Junk \cup Refused,
         HandleClientFinal(auth.scram, payload).ok
  PROVE  /\ payload.without_proof = WithoutProof(<<auth.scram.client_nonce, auth.scram.server_nonce>>)
         /\ \E c \in Clients :
              /\ client[c].state \in Final
              /\ client[c].username = auth.scram.username
              /\ client[c].auth_message = Transcript
              /\ HoldsPassword(c, auth.scram.username)
<1> DEFINE creds == auth.scram.credentials
           signature == Hmac(creds.stored_key, Transcript)
<1>1. /\ payload.type = "client-final"
      /\ payload.without_proof = WithoutProof(<<auth.scram.client_nonce, auth.scram.server_nonce>>)
      /\ Hash(RecoverKey(payload.proof, signature)) = creds.stored_key
  BY DEF HandleClientFinal, Failed, Transcript
<1>2. PICK a \in Accounts : /\ a.mechanism = auth.scram.mechanism
                           /\ a.username = auth.scram.username
                           /\ creds = Credentials(a)
  BY Found DEF ExchangeInv, OneAttemptPerExchange
<1> DEFINE password == EffectivePassword(a.mechanism, a.username, a.password)
           salted == SaltedPassword(a.mechanism, password, "salt", DefaultIterations(a.mechanism))
<1>3. creds.stored_key = Hash(ClientKey(salted))
  BY <1>2 DEF Credentials, Derive, StoredKey
<1>4. PICK c \in Clients : client[c].state \in Final /\ payload = FinalOf(client[c])
  BY <1>1, AcceptedFinal
<1> DEFINE me == client[c]
           mine == Hmac(StoredKey(me.salted_password), me.auth_message)
<1>5. payload.proof = Proof(ClientKey(me.salted_password), mine)
  BY <1>4 DEF FinalOf, ClientFinal
<1>6. RecoverKey(payload.proof, signature) = ClientKey(salted)
  <2> DEFINE key == RecoverKey(payload.proof, signature)
  <2>1. Hash(key) = Hash(ClientKey(salted))
    BY <1>1, <1>3
  <2> HIDE DEF key, salted
  <2> QED
    BY <2>1 DEF Hash, key
<1>7. ClientKey(salted) # None
  BY NoneAssumption
<1>8. mine = signature /\ ClientKey(me.salted_password) = ClientKey(salted)
  <2> HIDE DEF mine, signature, salted
  <2>1. payload.proof.signature = mine /\ payload.proof.client_key = ClientKey(me.salted_password)
    BY <1>5 DEF Proof
  <2> QED
    BY <1>6, <1>7, <2>1 DEF RecoverKey
<1>9. me.auth_message = Transcript
  <2>1. mine.text = me.auth_message /\ signature.text = Transcript
    BY DEF Hmac
  <2> HIDE DEF mine, signature
  <2> QED
    BY <1>8, <2>1
<1>10. me.salted_password = salted
  <2> HIDE DEF salted
  <2> QED
    BY Zenon, <1>8 DEF ClientKey, Hmac
<1>11. Machine(c, me)
  BY DEF ClientsInv
<1>12. me.mechanism = a.mechanism /\ me.password = password
  <2>1. me.salted_password = SaltedPassword(me.mechanism, me.password, me.server_first.salt,
                                            me.server_first.iterations)
    BY <1>4, <1>11 DEF Machine
  <2> HIDE DEF password
  <2> QED
    BY <1>10, <2>1 DEF SaltedPassword
<1>13. HoldsPassword(c, auth.scram.username)
  BY <1>2, <1>12 DEF HoldsPassword
<1>14. me.username = auth.scram.username
  <2>1. me.auth_message[1] = MyBare(c)
    BY <1>4, <1>11 DEF Machine
  <2>2. Transcript[1] = auth.scram.client_first_bare
    BY DEF Transcript, ServerAuthMessage
  <2>3. auth.scram.client_first_bare.user = EscapeUsername(Setup[c].username)
    BY <1>9, <2>1, <2>2 DEF MyBare, Bare
  <2> QED
    BY <1>11, <2>3, EscapeAssumption DEF OneAttemptPerExchange, Machine
<1> QED
  BY <1>1, <1>4, <1>9, <1>13, <1>14

\* saslContinue keeps the exchange, drops it, or ends it with an accepted proof.
LEMMA ContinueResult ==
  ASSUME ExchangeInv, NEW payload, NEW result, result = SaslContinue(auth, [payload |-> payload])
  PROVE  \/ /\ result.auth = auth /\ result.outcome.kind # "msg"
            /\ payload.type \in {"unusable", "malformed"} \/ auth.scram = None
         \/ /\ auth.scram # None /\ payload.type \notin {"unusable", "malformed"}
            /\ result.outcome.kind # "msg"
            /\ DOMAIN result.auth = {"scram", "authenticated"}
            /\ result.auth.scram = None /\ result.auth.authenticated = auth.authenticated
         \/ /\ auth.scram # None /\ payload.type \notin {"unusable", "malformed"}
            /\ HandleClientFinal(auth.scram, payload).ok
            /\ result.outcome.kind = "msg"
            /\ result.outcome.payload = ServerFinal(Hmac(auth.scram.credentials.server_key, Transcript))
            /\ DOMAIN result.auth = {"scram", "authenticated"}
            /\ result.auth.scram = None /\ result.auth.authenticated = auth.scram.username
<1> DEFINE server == HandleClientFinal(auth.scram, payload)
           machine == [auth.scram EXCEPT !.state = "Done"]
           out == ServerFinal(Hmac(auth.scram.credentials.server_key, Transcript))
<1>1. CASE payload.type \in {"unusable", "malformed"} \/ auth.scram = None
  BY Zenon, <1>1 DEF SaslContinue, Handled, Unreadable, CommandError, ProtocolError
<1>2. CASE auth.scram # None /\ payload.type \notin {"unusable", "malformed"} /\ ~server.ok
  <2> DEFINE after == [auth EXCEPT !.scram = None]
  <2>1. result = Handled(after, CommandError)
    BY Zenon, <1>2 DEF SaslContinue
  <2> HIDE DEF after
  <2>2. result.auth = after /\ result.outcome.kind = "command_error"
    BY <2>1 DEF Handled, CommandError
  <2>3. /\ DOMAIN after = {"scram", "authenticated"}
        /\ after.scram = None /\ after.authenticated = auth.authenticated
    BY DEF after, ExchangeInv
  <2> QED
    BY <1>2, <2>2, <2>3
<1>3. CASE auth.scram # None /\ payload.type \notin {"unusable", "malformed"} /\ server.ok
  <2>1. server = Ok(machine, out) \/ server = Failed(auth.scram)
    BY Zenon DEF HandleClientFinal, Transcript
  <2>2. result = Handled(AuthState(None, server.machine.username), Reply(TRUE, server.msg))
    BY Zenon, <1>3 DEF SaslContinue
  <2> HIDE DEF server, out, machine
  <2>3. server.machine = machine /\ server.msg = out
    BY <1>3, <2>1 DEF Ok, Failed
  <2>4. machine.username = auth.scram.username
    BY <1>3 DEF machine, ExchangeInv
  <2>5. result = Handled(AuthState(None, auth.scram.username), Reply(TRUE, out))
    BY <2>2, <2>3, <2>4, Zenon
  <2>6. /\ result.outcome.kind = "msg" /\ result.outcome.payload = out
        /\ DOMAIN result.auth = {"scram", "authenticated"}
        /\ result.auth.scram = None /\ result.auth.authenticated = auth.scram.username
    BY <2>5 DEF Handled, AuthState, Reply
  <2> QED
    BY <1>3, <2>6 DEF out, server
<1> QED
  BY <1>1, <1>2, <1>3

-----------------------------------------------------------------------------
(* The invariant *)

\* The initial states.
LEMMA InitAuth == Init => AuthInv
<1> SUFFICES ASSUME Init PROVE AuthInv
  OBVIOUS
<1>1. ASSUME NEW c \in Clients PROVE Machine(c, client[c]) /\ client[c].state = "Init"
  BY DEF Init, InitialClient, NewClient, Machine, Final
<1>2. ClientsInv
  BY <1>1 DEF Init, ClientsInv
<1>3. verified = << >> /\ DOMAIN verified = {} /\ IsSequence(verified)
  BY EmptySeq DEF Init, IsSequence
<1>4. ToServerInv /\ ToClientsInv
  BY DEF Init, ToServerInv, ToClientsInv
<1>5. ExchangeInv /\ OneAttemptPerExchange /\ LastIdentity
  BY DEF Init, NoAuth, AuthState, ExchangeInv, OneAttemptPerExchange, LastIdentity
<1>6. HistoryInv
  BY <1>3, BoundsAssumption DEF Init, HistoryInv
<1>7. VerifiedByPasswordHolder
  BY <1>3 DEF VerifiedByPasswordHolder
<1>8. DoneMeansVerified
  BY <1>1 DEF DoneMeansVerified
<1> QED
  BY <1>2, <1>4, <1>5, <1>6, <1>7, <1>8 DEF AuthInv

\* Steps that leave the clients and what they have sent alone.
LEMMA ClientsFrame ==
  ASSUME ClientsInv, ToServerInv, UNCHANGED <<client, toServer>>
  PROVE  (ClientsInv /\ ToServerInv)'
<1>1. client' = client /\ toServer' = toServer
  OBVIOUS
<1>2. ASSUME NEW c, Machine(c, client[c]) PROVE Machine(c, client[c])'
  <2>1. Machine(c, client'[c])
    BY <1>1, <1>2, Zenon
  <2> QED
    BY <2>1 DEF Machine, MyBare
<1>3. ClientsInv'
  BY <1>1, <1>2 DEF ClientsInv
<1>4. \A m \in toServer' : \E c \in Clients :
        \/ m = ClientFirst("ok", MyBare(c))
        \/ client'[c].state \in Final /\ m = FinalOf(client'[c])
  BY <1>1, Zenon DEF ToServerInv
<1>5. ToServerInv'
  BY <1>4 DEF ToServerInv, FinalOf, MyBare
<1> QED
  BY <1>3, <1>5

\* Steps that leave the clients and the accepted proofs alone.
LEMMA VerdictsFrame ==
  ASSUME VerifiedByPasswordHolder, DoneMeansVerified, UNCHANGED <<client, verified>>
  PROVE  (VerifiedByPasswordHolder /\ DoneMeansVerified)'
<1>1. client' = client /\ verified' = verified
  OBVIOUS
<1>2. ASSUME NEW c, NEW u, HoldsPassword(c, u) PROVE HoldsPassword(c, u)'
  BY <1>1, <1>2 DEF HoldsPassword
<1>3. VerifiedByPasswordHolder'
  BY <1>1, <1>2 DEF VerifiedByPasswordHolder
<1>4. DoneMeansVerified'
  BY <1>1 DEF DoneMeansVerified
<1> QED
  BY <1>3, <1>4

\* A call of a client's method.
LEMMA ClientStep ==
  ASSUME AuthInv, NEW c \in Clients, NEW r, Produce(c, r),
         Machine(c, r.machine), Keeps(client[c], r.machine),
         r.msg # None => \/ r.msg = ClientFirst("ok", MyBare(c))
                         \/ r.machine.state \in Final /\ r.msg = FinalOf(r.machine),
         r.machine.state = "Done" =>
           \E i \in DOMAIN verified : /\ verified[i].auth_message = r.machine.auth_message
                                     /\ verified[i].username = r.machine.username
  PROVE  AuthInv'
<1>0. ClientsInv /\ ToServerInv /\ VerifiedByPasswordHolder /\ DoneMeansVerified
  BY DEF AuthInv
<1>1. /\ client' = [d \in Clients |-> client'[d]]
      /\ client'[c] = r.machine
      /\ \A d \in Clients : d # c => client'[d] = client[d]
  BY <1>0 DEF Produce, ClientsInv
<1>2. ClientsInv'
  <2>1. \A d \in Clients : Machine(d, client'[d])
    BY <1>0, <1>1 DEF ClientsInv
  <2>2. ASSUME NEW d, Machine(d, client'[d]) PROVE Machine(d, client[d])'
    BY <2>2 DEF Machine, MyBare
  <2> QED
    BY <1>1, <2>1, <2>2 DEF ClientsInv
<1>3. \A d \in Clients : Keeps(client[d], client'[d])
  BY <1>1 DEF Keeps
<1>4. \A d \in Clients : client[d].state \in Final => FinalOf(client'[d]) = FinalOf(client[d])
  BY <1>3 DEF Keeps, FinalOf
<1>5. ToServerInv'
  <2>1. \A m \in toServer' : m \in toServer \/ (m = r.msg /\ r.msg # None)
    BY DEF Produce, Sent
  <2>2. ASSUME NEW m \in toServer
        PROVE  \E d \in Clients : \/ m = ClientFirst("ok", MyBare(d))
                                  \/ client'[d].state \in Final /\ m = FinalOf(client'[d])
    <3>1. PICK d \in Clients : \/ m = ClientFirst("ok", MyBare(d))
                               \/ client[d].state \in Final /\ m = FinalOf(client[d])
      BY <1>0, Zenon DEF ToServerInv
    <3> QED
      BY <1>3, <1>4, <3>1 DEF Keeps
  <2>3. \A m \in toServer' : \E d \in Clients :
          \/ m = ClientFirst("ok", MyBare(d))
          \/ client'[d].state \in Final /\ m = FinalOf(client'[d])
    BY <1>1, <2>1, <2>2
  <2> QED
    BY <2>3 DEF ToServerInv, FinalOf, MyBare
<1>6. UNCHANGED <<auth, toClients, started, tried, verified>>
  BY DEF Produce
<1>7. VerifiedByPasswordHolder'
  <2>1. ASSUME NEW d \in Clients, NEW u, client[d].state \in Final, HoldsPassword(d, u)
        PROVE  /\ HoldsPassword(d, u)' /\ client'[d].state \in Final
               /\ client'[d].username = client[d].username
               /\ client'[d].auth_message = client[d].auth_message
    BY <1>3, <2>1 DEF HoldsPassword, Keeps
  <2> QED
    BY <1>0, <1>6, <2>1 DEF VerifiedByPasswordHolder, Final
<1>8. DoneMeansVerified'
  BY <1>0, <1>1, <1>6 DEF DoneMeansVerified
<1>9. (ToClientsInv /\ ExchangeInv /\ HistoryInv /\ OneAttemptPerExchange /\ LastIdentity)'
  BY <1>6 DEF AuthInv, ToClientsInv, ExchangeInv, HistoryInv, OneAttemptPerExchange, LastIdentity
<1> QED
  BY <1>2, <1>5, <1>7, <1>8, <1>9 DEF AuthInv

\* What the four methods may do to the invariant.
LEMMA ClientActions ==
  ASSUME AuthInv, NEW c \in Clients,
         \/ SendClientFirst(c) \/ SendClientFinal(c)
         \/ \E msg \in toClients : GetServerFirst(c, msg) \/ GetServerFinal(c, msg)
  PROVE  AuthInv'
<1> DEFINE me == client[c]
<1>1. Machine(c, me) /\ ToClientsInv /\ DoneMeansVerified /\ VerifiedByPasswordHolder /\ ClientsInv
  BY DEF AuthInv, ClientsInv
<1>2. ASSUME NEW r, Keeps(me, r.machine), me.state = "Done"
      PROVE  \E i \in DOMAIN verified : /\ verified[i].auth_message = r.machine.auth_message
                                       /\ verified[i].username = r.machine.username
  BY <1>1, <1>2 DEF DoneMeansVerified, Keeps, Final
<1>3. CASE SendClientFirst(c)
  <2> DEFINE r == ClientFirstMessage(me)
  <2>1. Produce(c, r)
    BY <1>3 DEF SendClientFirst
  <2>2. /\ Machine(c, r.machine) /\ Keeps(me, r.machine)
        /\ r.machine.state = "Done" => me.state = "Done"
        /\ r.msg # None => r.msg = ClientFirst("ok", MyBare(c))
    BY <1>1, FirstMessage
  <2> HIDE DEF r
  <2> QED
    BY <1>2, <2>1, <2>2, ClientStep
<1>4. CASE SendClientFinal(c)
  <2> DEFINE r == ClientFinalMessage(me)
  <2>1. Produce(c, r)
    BY <1>4 DEF SendClientFinal
  <2>2. /\ Machine(c, r.machine) /\ Keeps(me, r.machine)
        /\ r.machine.state = "Done" => me.state = "Done"
        /\ r.msg # None => r.machine.state \in Final /\ r.msg = FinalOf(r.machine)
    BY <1>1, FinalMessage
  <2> HIDE DEF r
  <2> QED
    BY <1>2, <2>1, <2>2, ClientStep
<1>5. ASSUME NEW msg \in toClients, GetServerFirst(c, msg) PROVE AuthInv'
  <2> DEFINE r == ReceiveServerFirst(me, msg)
  <2>1. Produce(c, r)
    BY <1>5 DEF GetServerFirst
  <2>2. msg.type = "server-first" => msg # None
    <3>1. \A i, a : ServerFinal(Hmac(Credentials(a).server_key, verified[i].auth_message)).type
                      = "server-final"
      BY DEF ServerFinal
    <3> QED
      BY <1>1, <3>1, NoneAssumption DEF ToClientsInv
  <2>3. /\ Machine(c, r.machine) /\ Keeps(me, r.machine)
        /\ r.machine.state = "Done" => me.state = "Done"
        /\ r.msg = None
    BY <1>1, <2>2, GotServerFirst
  <2> HIDE DEF r
  <2> QED
    BY <1>2, <2>1, <2>3, ClientStep
<1>6. ASSUME NEW msg \in toClients, GetServerFinal(c, msg) PROVE AuthInv'
  <2> DEFINE r == ReceiveServerFinal(me, msg)
  <2>1. Produce(c, r)
    BY <1>6 DEF GetServerFinal
  <2>2. /\ Machine(c, r.machine) /\ Keeps(me, r.machine) /\ r.msg = None
        /\ r.machine.state = "Done" /\ me.state # "Done" =>
             /\ msg.type = "server-final"
             /\ msg.verifier = Hmac(ServerKey(me.salted_password), me.auth_message)
             /\ r.machine.auth_message = me.auth_message
    BY <1>1, GotServerFinal, SMTT(20)
  <2> HIDE DEF r
  <2>3. ASSUME r.machine.state = "Done", me.state # "Done"
        PROVE  \E i \in DOMAIN verified : /\ verified[i].auth_message = r.machine.auth_message
                                         /\ verified[i].username = r.machine.username
    <3>1. msg \notin ServerFirsts
      BY <2>2, <2>3 DEF ServerFirsts, ServerFirst
    <3>2. PICK i \in DOMAIN verified, a \in Accounts :
            msg = ServerFinal(Hmac(Credentials(a).server_key, verified[i].auth_message))
      BY <1>1, <3>1 DEF ToClientsInv
    <3>3. verified[i].auth_message = r.machine.auth_message
      BY <2>2, <2>3, <3>2 DEF ServerFinal, Hmac
    <3>4. PICK d \in Clients : /\ client[d].state \in {"FinalSent", "Done"}
                              /\ client[d].username = verified[i].username
                              /\ client[d].auth_message = verified[i].auth_message
      BY <1>1 DEF VerifiedByPasswordHolder
    <3>5. client[d].auth_message[1] = MyBare(d) /\ client[d].username = Setup[d].username
      <4>1. Machine(d, client[d])
        BY <1>1 DEF ClientsInv
      <4> QED
        BY <3>4, <4>1 DEF Machine, Final
    <3>6. r.machine.auth_message[1] = MyBare(c) /\ r.machine.username = Setup[c].username
      BY <2>2, <2>3 DEF Machine, Final
    <3>7. c = d
      BY <3>3, <3>4, <3>5, <3>6 DEF MyBare, Bare
    <3> QED
      BY Zenon, <3>3, <3>4, <3>5, <3>6, <3>7
  <2> QED
    BY <1>2, <2>1, <2>2, <2>3, ClientStep
<1> QED
  BY <1>3, <1>4, <1>5, <1>6

\* saslStart
LEMMA StartStep ==
  ASSUME AuthInv, NEW mechanism, NEW payload \in toServer \cup Junk \cup Refused,
         HandleSaslStart([mechanism |-> mechanism, payload |-> payload])
  PROVE  AuthInv'
<1> DEFINE result == SaslStart(auth, [mechanism |-> mechanism, payload |-> payload], started + 1)
<1>1. /\ started < MaxExchanges
      /\ auth' = result.auth
      /\ toClients' = toClients \cup Payloads(result.outcome)
      /\ started' = IF result.outcome.kind = "msg" THEN started + 1 ELSE started
      /\ UNCHANGED <<client, toServer, tried, verified>>
  BY SMTT(20) DEF HandleSaslStart
<1>2. ToServerInv /\ HistoryInv /\ ExchangeInv /\ ToClientsInv /\ OneAttemptPerExchange /\ LastIdentity
  BY DEF AuthInv
<1>3. \/ result.auth = auth /\ result.outcome.kind # "msg"
      \/ /\ auth.scram = None /\ result.outcome.kind = "msg"
         /\ result.outcome.payload \in ServerFirsts
         /\ DOMAIN result.auth = {"scram", "authenticated"}
         /\ result.auth.authenticated = auth.authenticated
         /\ DOMAIN result.auth.scram =
              {"mechanism", "server_nonce", "client_first_bare", "server_first_message",
               "state", "username", "client_nonce", "credentials"}
         /\ result.auth.scram.credentials # None
         /\ result.auth.scram.state = "ExpectClientFinal"
         /\ result.auth.scram.server_nonce = started + 1
         /\ result.auth.scram.username
              = UnescapeUsername(result.auth.scram.client_first_bare.user)
         /\ result.auth.scram.credentials
              = Lookup(result.auth.scram.mechanism, result.auth.scram.username)
  BY <1>1, <1>2, StartResult, SMTT(20)
<1> HIDE DEF result
<1>4. (ClientsInv /\ ToServerInv /\ VerifiedByPasswordHolder /\ DoneMeansVerified)'
  BY <1>1, ClientsFrame, VerdictsFrame DEF AuthInv
<1>5. ToClientsInv'
  BY <1>1, <1>2, <1>3 DEF ToClientsInv, Payloads
<1>6. HistoryInv'
  BY <1>1, <1>2, BoundsAssumption DEF HistoryInv
<1>7. ExchangeInv'
  BY <1>1, <1>2, <1>3 DEF ExchangeInv
<1>8. LastIdentity'
  BY <1>1, <1>2, <1>3 DEF LastIdentity
<1>9. OneAttemptPerExchange'
  <2>1. CASE result.outcome.kind # "msg"
    BY <1>1, <1>2, <1>3, <2>1 DEF OneAttemptPerExchange
  <2>2. CASE result.outcome.kind = "msg"
    <3>1. started + 1 \in (1..started') \ tried'
      BY <1>1, <1>2, <2>2 DEF HistoryInv
    <3> QED
      BY <1>1, <1>3, <2>2, <3>1 DEF OneAttemptPerExchange
  <2> QED
    BY <2>1, <2>2
<1> QED
  BY <1>4, <1>5, <1>6, <1>7, <1>8, <1>9 DEF AuthInv

\* saslContinue
LEMMA ContinueStep ==
  ASSUME AuthInv, NEW payload \in toServer \cup Junk \cup Refused,
         HandleSaslContinue([payload |-> payload])
  PROVE  AuthInv'
<1> DEFINE result == SaslContinue(auth, [payload |-> payload])
           proof == [username |-> auth.scram.username, nonce |-> auth.scram.server_nonce,
                     auth_message |-> ServerAuthMessage(auth.scram, payload.without_proof)]
<1>1. /\ auth' = result.auth
      /\ toClients' = toClients \cup Payloads(result.outcome)
      /\ tried' = IF auth.scram # None /\ payload.type \notin {"unusable", "malformed"}
                  THEN tried \cup {auth.scram.server_nonce} ELSE tried
      /\ verified' = IF result.outcome.kind = "msg" THEN Append(verified, proof) ELSE verified
      /\ UNCHANGED <<client, toServer, started>>
  BY DEF HandleSaslContinue
<1>2. ClientsInv /\ ToServerInv /\ HistoryInv /\ ExchangeInv /\ ToClientsInv
      /\ OneAttemptPerExchange /\ LastIdentity /\ VerifiedByPasswordHolder /\ DoneMeansVerified
  BY DEF AuthInv
<1>3. (ClientsInv /\ ToServerInv)'
  BY <1>1, <1>2, ClientsFrame
<1>4. ASSUME NEW c, NEW u, HoldsPassword(c, u) PROVE HoldsPassword(c, u)'
  BY <1>1, <1>4 DEF HoldsPassword
<1>5. tried' \subseteq 1..started'
  BY Zenon, <1>1, <1>2 DEF HistoryInv, OneAttemptPerExchange
<1>6. CASE result.outcome.kind # "msg"
  <2>1. UNCHANGED <<client, toServer, started, toClients, verified>>
    BY <1>1, <1>6 DEF Payloads
  <2>2. (ToClientsInv /\ HistoryInv /\ DoneMeansVerified)'
    BY <1>2, <1>5, <2>1 DEF ToClientsInv, HistoryInv, DoneMeansVerified
  <2>3. VerifiedByPasswordHolder'
    BY <1>2, <1>4, <2>1 DEF VerifiedByPasswordHolder
  <2>4. \/ /\ auth' = auth /\ tried' = tried
        \/ /\ DOMAIN auth' = {"scram", "authenticated"}
           /\ auth'.scram = None /\ auth'.authenticated = auth.authenticated
    <3> HIDE DEF result, proof
    <3>1. result = SaslContinue(auth, [payload |-> payload])
      BY DEF result
    <3> QED
      BY <1>1, <1>2, <1>6, <3>1, ContinueResult
  <2>5. (ExchangeInv /\ OneAttemptPerExchange /\ LastIdentity)'
    BY <1>2, <2>1, <2>4 DEF ExchangeInv, OneAttemptPerExchange, LastIdentity
  <2> QED
    BY <1>3, <2>2, <2>3, <2>5 DEF AuthInv
<1>7. CASE result.outcome.kind = "msg"
  <2>1. /\ auth.scram # None
        /\ HandleClientFinal(auth.scram, payload).ok
        /\ result.outcome.payload = ServerFinal(Hmac(auth.scram.credentials.server_key, Transcript))
        /\ DOMAIN auth' = {"scram", "authenticated"}
        /\ auth'.scram = None /\ auth'.authenticated = auth.scram.username
    <3> HIDE DEF result, proof
    <3>1. result = SaslContinue(auth, [payload |-> payload])
      BY DEF result
    <3> QED
      BY <1>1, <1>2, <1>7, <3>1, ContinueResult
  <2>2. /\ payload.without_proof = WithoutProof(<<auth.scram.client_nonce, auth.scram.server_nonce>>)
        /\ \E c \in Clients :
             /\ client[c].state \in Final
             /\ client[c].username = auth.scram.username
             /\ client[c].auth_message = Transcript
             /\ HoldsPassword(c, auth.scram.username)
    BY <1>2, <2>1, ProofAccepted
  <2>3. proof.username = auth.scram.username /\ proof.auth_message = Transcript
    BY <2>2 DEF Transcript
  <2>4. PICK a \in Accounts : auth.scram.credentials = Credentials(a)
    <3>1. /\ auth.scram.credentials # None
          /\ auth.scram.credentials = Lookup(auth.scram.mechanism, auth.scram.username)
      BY <1>2, <2>1 DEF ExchangeInv, OneAttemptPerExchange
    <3> QED
      BY <3>1, Found
  <2> HIDE DEF result, proof
  <2>5. /\ IsSequence(verified')
        /\ DOMAIN verified \subseteq DOMAIN verified'
        /\ \A i \in DOMAIN verified : verified'[i] = verified[i]
        /\ Len(verified') \in DOMAIN verified' /\ verified'[Len(verified')] = proof
        /\ verified' # << >>
        /\ \A i \in DOMAIN verified' : i \in DOMAIN verified \/ i = Len(verified')
    <3>1. IsSequence(verified)
      BY <1>2 DEF HistoryInv
    <3>2. verified' = Append(verified, proof)
      BY <1>1, <1>7
    <3>3. Extended(verified, proof, verified')
      BY <3>1, <3>2, AppendHistory
    <3> QED
      BY <3>3, Zenon DEF Extended
  <2>6. HistoryInv'
    BY <1>1, <1>2, <1>5, <2>5 DEF HistoryInv
  <2>7. (ExchangeInv /\ OneAttemptPerExchange)'
    BY <2>1 DEF ExchangeInv, OneAttemptPerExchange
  <2>8. LastIdentity'
    BY <2>1, <2>3, <2>5 DEF LastIdentity
  <2>9. DoneMeansVerified'
    <3>1. \A c \in Clients : client[c].state = "Done" => \E i \in DOMAIN verified' :
            /\ verified'[i].auth_message = client[c].auth_message
            /\ verified'[i].username = client[c].username
      BY <1>2, <2>5 DEF DoneMeansVerified
    <3> QED
      BY <1>1, <3>1, Zenon DEF DoneMeansVerified
  <2>10. VerifiedByPasswordHolder'
    <3>1. \A i \in DOMAIN verified' : \E c \in Clients :
            /\ client[c].state \in {"FinalSent", "Done"}
            /\ client[c].username = verified'[i].username
            /\ client[c].auth_message = verified'[i].auth_message
            /\ HoldsPassword(c, verified'[i].username)
      BY <1>2, <2>2, <2>3, <2>5 DEF VerifiedByPasswordHolder, Final
    <3> QED
      BY <1>1, <1>4, <3>1 DEF VerifiedByPasswordHolder
  <2>11. ToClientsInv'
    <3>1. \A m \in toClients' : m \in toClients \/ m = result.outcome.payload
      BY <1>1, <1>7 DEF Payloads
    <3>2. result.outcome.payload
            = ServerFinal(Hmac(Credentials(a).server_key, verified'[Len(verified')].auth_message))
      BY <2>1, <2>3, <2>4, <2>5
    <3> QED
      BY <1>2, <2>5, <3>1, <3>2 DEF ToClientsInv
  <2> QED
    BY <1>3, <2>6, <2>7, <2>8, <2>9, <2>10, <2>11 DEF AuthInv
<1> QED
  BY <1>6, <1>7

\* Every step.
LEMMA StepAuth == AuthInv /\ [Next]_vars => AuthInv'
<1> SUFFICES ASSUME AuthInv, [Next]_vars PROVE AuthInv'
  OBVIOUS
<1>1. CASE UNCHANGED vars
  <2>1. (ClientsInv /\ ToServerInv /\ VerifiedByPasswordHolder /\ DoneMeansVerified)'
    BY <1>1, ClientsFrame, VerdictsFrame DEF vars, AuthInv
  <2>2. (ToClientsInv /\ ExchangeInv /\ HistoryInv /\ OneAttemptPerExchange /\ LastIdentity)'
    BY <1>1 DEF vars, AuthInv, ToClientsInv, ExchangeInv, HistoryInv, OneAttemptPerExchange,
                LastIdentity
  <2> QED
    BY <2>1, <2>2 DEF AuthInv
<1>2. ASSUME NEW c \in Clients,
             \/ SendClientFirst(c) \/ SendClientFinal(c)
             \/ \E msg \in toClients : GetServerFirst(c, msg) \/ GetServerFinal(c, msg)
      PROVE  AuthInv'
  BY <1>2, ClientActions
<1>3. ASSUME NEW payload \in toServer \cup Junk \cup Refused, NEW mechanism,
             HandleSaslStart([mechanism |-> mechanism, payload |-> payload])
      PROVE  AuthInv'
  BY Zenon, <1>3, StartStep
<1>4. ASSUME NEW payload \in toServer \cup Junk \cup Refused,
             HandleSaslContinue([payload |-> payload])
      PROVE  AuthInv'
  BY <1>4, ContinueStep
<1> QED
  BY <1>1, <1>2, <1>3, <1>4, Zenon DEF Next

\* The inductive invariant holds of the exchanges on a connection.
LEMMA AuthInvariant == Spec => []AuthInv
<1>1. Init => AuthInv
  BY InitAuth
<1>2. AuthInv /\ [Next]_vars => AuthInv'
  BY StepAuth
<1> QED
  BY <1>1, <1>2, PTL DEF Spec

\* Whatever messages are repeated, delayed or mixed up, handle_client_final accepts only
\* proofs of clients that hold the password of the user they are accepted for.
THEOREM Authentic == Spec => []VerifiedByPasswordHolder
<1>1. AuthInv => VerifiedByPasswordHolder
  BY DEF AuthInv
<1> QED
  BY <1>1, AuthInvariant, PTL

\* A client that receive_server_final takes to Done was verified by the server, as itself.
THEOREM Mutual == Spec => []DoneMeansVerified
<1>1. AuthInv => DoneMeansVerified
  BY DEF AuthInv
<1> QED
  BY <1>1, AuthInvariant, PTL

\* saslContinue answers an exchange at most once, for the user named at its start.
THEOREM OneAttempt == Spec => []OneAttemptPerExchange
<1>1. AuthInv => OneAttemptPerExchange
  BY DEF AuthInv
<1> QED
  BY <1>1, AuthInvariant, PTL

\* ctx.auth.authenticated names the user that authenticated last.
THEOREM Identity == Spec => []LastIdentity
<1>1. AuthInv => LastIdentity
  BY DEF AuthInv
<1> QED
  BY <1>1, AuthInvariant, PTL

\* No saslStart replaces an exchange in flight.
THEOREM NotReplaced == Spec => ExchangeNotReplaced
<1> DEFINE A == auth.scram # None /\ auth'.scram # None => auth'.scram = auth.scram
<1>1. AuthInv /\ [Next]_vars => [A]_vars
  <2> SUFFICES ASSUME AuthInv, Next PROVE A
    OBVIOUS
  <2>1. ASSUME NEW c \in Clients, NEW r, Produce(c, r) PROVE A
    BY <2>1 DEF Produce
  <2>2. ASSUME NEW payload \in toServer \cup Junk \cup Refused, NEW mechanism,
               HandleSaslStart([mechanism |-> mechanism, payload |-> payload])
        PROVE  A
    <3>1. /\ auth' = SaslStart(auth, [mechanism |-> mechanism, payload |-> payload], started + 1).auth
          /\ started < MaxExchanges
      BY <2>2 DEF HandleSaslStart
    <3>2. auth' = auth \/ auth.scram = None
      BY <3>1, StartResult DEF AuthInv
    <3> QED
      BY <3>2
  <2>3. ASSUME NEW payload, HandleSaslContinue([payload |-> payload]) PROVE A
    <3>1. auth' = SaslContinue(auth, [payload |-> payload]).auth
      BY <2>3 DEF HandleSaslContinue
    <3>2. auth' = auth \/ auth'.scram = None
      BY <3>1, ContinueResult DEF AuthInv
    <3> QED
      BY <3>2
  <2> QED
    BY Zenon, <2>1, <2>2, <2>3 DEF Next, SendClientFirst, SendClientFinal, GetServerFirst, GetServerFinal
<1> QED
  BY <1>1, AuthInvariant, PTL DEF Spec, ExchangeNotReplaced
=============================================================================
