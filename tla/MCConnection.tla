---------------------------- MODULE MCConnection ----------------------------
(***************************************************************************)
(* Small instances of Connection: one message body for every branch the loop *)
(* and the handlers take.                                                     *)
(***************************************************************************)
EXTENDS Connection

User == [mechanism |-> "SHA-256", username |-> <<"u">>, password |-> "pw"]
MCAccounts == {User}

\* What the client u would send, and its answer to the first exchange.
Started == ClientFirstMessage(NewClient("SHA-256", <<"u">>, "pw", "nonce"))
Creds   == Credentials(User)
Ready   == ReceiveServerFirst(Started.machine,
             ServerFirst(<<"nonce", 1>>, Creds.salt, Creds.iterations))
Final   == ClientFinalMessage(Ready.machine)

Request(command, more, args) ==
  [op |-> "msg", command |-> command, more |-> more, args |-> args]
Query(command, args) == [op |-> "query", command |-> command, args |-> args]

Handshake(requested) == [compression |-> requested]
Start == [mechanism |-> "SHA-256", payload |-> Started.msg]
Continue(payload) == [payload |-> payload]

Plain(body)      == [wrap |-> "none", body |-> body]
Compressed(body) == [wrap |-> "ok", body |-> body]

\* One frame for every branch of process_socket and BuiltinHandler.
LoopFrames ==
  {Plain(Request("hello", FALSE, Handshake(<<"zstd", "zlib">>))),
   Compressed(Request("hello", TRUE, Handshake(<<"zlib">>))),
   Plain(Query("isMaster", Handshake(<<"snappy", "zstd", "zlib">>))),
   Plain(Query("hello", Handshake(None))),
   Compressed(Query("find", << >>)),
   Plain(Query("malformed", << >>)),
   Plain(Request("ping", FALSE, << >>)),
   Plain(Request("find", FALSE, << >>)),
   Compressed(Request("find", TRUE, << >>)),
   Plain([op |-> "reply"]),
   Plain([op |-> "bad"]),
   [wrap |-> "fails", body |-> Request("ping", FALSE, << >>)]}

\* One frame for every branch of ScramBridge, with and without moreToCome.
SaslFrames ==
  {Plain(Request("saslStart", more, Start)) : more \in BOOLEAN}
  \cup {Plain(Request("saslContinue", more, Continue(p))) :
          more \in BOOLEAN, p \in {Final.msg, [type |-> "malformed"]}}
  \cup {Plain(Request("saslContinue", TRUE, Continue([type |-> "unusable"]))),
        Plain(Query("saslContinue", Continue(Final.msg)))}

AllFrames == LoopFrames \cup SaslFrames

\* Enough to make a request wait behind every kind of outcome.
FewFrames ==
  {Plain(Request("find", more, << >>)) : more \in BOOLEAN}
  \cup {Plain(Query("hello", Handshake(None))), Plain([op |-> "reply"])}

MCInnerOutcomes ==
  {Msg("fresh", None), Msg("carried", None), Msg("huge", None),
   [kind |-> "no_reply"], CommandError, ProtocolError}

MCOffered == <<"zlib", "zstd">>
MCBuiltinOffered == <<"zstd", "snappy">>
=============================================================================
