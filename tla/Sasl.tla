-------------------------------- MODULE Sasl --------------------------------
(***************************************************************************)
(* SASL authentication of a broker connection (rdkafka_sasl.c with the     *)
(* providers of rdkafka_sasl_plain.c, rdkafka_sasl_scram.c and             *)
(* rdkafka_sasl_cyrus.c), frame by frame, against a server.                *)
(*                                                                         *)
(* Hashes are terms: HMAC(k, s) is the tuple <<"HMAC", k, s>>, so two of    *)
(* them are equal only when all that went into them is.  A salt is its     *)
(* length.  An int has IntBits bits.                                       *)
(***************************************************************************)
EXTENDS Integers, Sequences, FiniteSets, SequencesExt, FiniteSetsExt, TLC

CONSTANTS
  Confs,      \* the configurations: mechanism, username and password
  Built,      \* the providers compiled in, of "cyrus" and "scram"
  Features,   \* the sets of features brokers have
  ServerPws,  \* the passwords the server may hold for the user
  Counts,     \* iteration counts of the server
  Salts,      \* lengths of salts of the server
  Firsts,     \* kinds of server-first-message
  Finals,     \* kinds of server-final-message
  Steps,      \* results of sasl_client_start and sasl_client_step
  IntBits,    \* width of an int
  MaxIter,    \* the largest iteration count taken (1000000)
  MaxSteps    \* bound: calls of libsasl in one exchange

VARIABLES
  conf,     \* the configuration of the client
  provider, \* rk_conf.sasl.provider, "none" or "refused"
  conn,     \* the connection: none, auth, up or failed, then closed
  st,       \* the state of the SCRAM exchange
  sasl,     \* libsasl: the result of the last call, the number of calls, and
            \* whether client_new makes them
  toserver, \* the frame on its way to the server, a sequence of at most one
  toclient, \* the frame on its way to the client, a sequence of at most one
  server,   \* what the server holds
  heap,     \* the allocations that are not freed
  seen,     \* the size of the last frame given to a provider, and of its payload
  fault     \* a NULL string was read or an assertion failed

vars == <<conf, provider, conn, st, sasl, toserver, toclient, server, heap, seen, fault>>

None == <<"none">>
Scram == {"SCRAM-SHA-1", "SCRAM-SHA-256", "SCRAM-SHA-512"}

\* The nonces, as sequences of parts: every client nonce is the same (the letter
\* a, 32 times), and a server appends a part of its own to it.
CNonce == <<"c">>
SNonce == <<"s">>

NoState == [state |-> "none", bare |-> None, sig |-> None, count |-> 0, nonce |-> None]

Init ==
  /\ conf \in Confs /\ provider = "none" /\ conn = "none"
  /\ st = NoState /\ sasl = [r |-> "none", n |-> 0, new |-> FALSE]
  /\ toserver = <<>> /\ toclient = <<>>
  /\ server \in [pw : ServerPws, count : Counts, salt : Salts, first : {None},
                 auth : {None}]
  /\ heap = {} /\ seen = <<0, 0>> /\ fault = FALSE

----------------------------------------------------------------------------
(* Configuration *)

\* rd_kafka_sasl_select_provider: the provider of the mechanism, if there is one.
SelectProvider ==
  CASE conf.mech = "GSSAPI" -> IF "cyrus" \in Built THEN "cyrus" ELSE "refused"
    [] conf.mech = "PLAIN" -> "plain"
    [] conf.mech \in Scram \union {"SCRAM-SHA-0"} ->
         IF "scram" \in Built THEN "scram" ELSE "refused"
    [] OTHER -> "refused"

\* rd_kafka_sasl_plain_conf_validate
PlainValid == conf.user # None /\ conf.pw # None

\* rd_kafka_sasl_scram_conf_validate
ScramValid == conf.user # None /\ conf.pw # None /\ conf.mech \in Scram

\* rd_kafka_sasl_cyrus_conf_validate: the template of the kinit command is right.
CyrusValid == conf.kinit # "bad"

\* rd_kafka_sasl_select_provider, in rd_kafka_new
Configure ==
  /\ provider = "none"
  /\ provider' = IF \/ SelectProvider = "plain" /\ PlainValid
                    \/ SelectProvider = "scram" /\ ScramValid
                    \/ SelectProvider = "cyrus" /\ CyrusValid
                 THEN SelectProvider ELSE "refused"
  /\ UNCHANGED <<conf, conn, st, sasl, toserver, toclient, server, heap, seen, fault>>

----------------------------------------------------------------------------
(* Hashes and conversions *)

HMAC(k, s) == <<"HMAC", k, s>>
H(s) == <<"H", s>>
\* rd_kafka_sasl_scram_Hi: the first round is always done.
Hi(pw, salt, n) == <<"Hi", pw, salt, Max({1, n})>>
Xor(a, b) == <<"XOR", a, b>>

\* rd_base64_encode of n bytes: the number of characters and how many are "=".
Base64Encode(n) == [size |-> ((n + 2) \div 3) * 4, pad |-> (3 - (n % 3)) % 3, blanks |-> 0]

\* rd_base64_decode: the number of bytes, or -1.  EVP_DecodeBlock counts the
\* padding, so it is taken off.
Base64Decode(t) ==
  IF (t.size + t.blanks) % 4 # 0 THEN -1
  ELSE ((t.size + t.blanks) \div 4) * 3 - t.pad

\* The int a number becomes: (int)strtoul.
ToInt(n) ==
  LET m == n % (2 ^ IntBits)
  IN  IF m >= 2 ^ (IntBits - 1) THEN m - 2 ^ IntBits ELSE m

\* rd_kafka_sasl_safe_string: what it writes, and what it allocates.
Escaped(c) == CASE c = "," -> <<"=", "2", "C">> [] c = "=" -> <<"=", "3", "D">>
                [] OTHER -> <<c>>
SafeString(u) == FlattenSeq([i \in DOMAIN u |-> Escaped(u[i])])
SafeLen(u) == FoldLeft(LAMBDA a, c : a + 1 + IF c \in {",", "="} THEN 1 ELSE 0, 0, u)

\* rd_kafka_sasl_scram_get_attr: the value of the first attribute k, or None.
GetAttr(in, k) ==
  LET at == {i \in DOMAIN in : in[i].k = k}
  IN  IF at = {} THEN None ELSE in[Min(at)].v

----------------------------------------------------------------------------
(* The client: start *)

\* rd_kafka_sasl_client_new: does the broker support the mechanism?
Supports(f) == IF conf.mech = "GSSAPI" THEN "GSSAPI" \in f ELSE "HANDSHAKE" \in f

Failed == /\ conn' = "failed"
          /\ UNCHANGED <<st, toserver>>

\* rd_kafka_sasl_scram_build_client_first_message.  The assertion of
\* rd_kafka_sasl_safe_string compares what is written with what is allocated.
ClientFirst ==
  LET bare == <<"bare", SafeString(conf.user), CNonce>>
  IN  /\ toserver' = <<[t |-> "first", body |-> bare]>>
      /\ st' = [NoState EXCEPT !.state = "server-first", !.bare = bare]
      /\ heap' = {"state", "cnonce", "first_msg_bare"}
      /\ fault' = (fault \/ SafeLen(conf.user) # Len(SafeString(conf.user)))
      /\ conn' = "auth" /\ UNCHANGED sasl

\* rd_kafka_sasl_plain_client_new
PlainNew ==
  /\ toserver' = <<[t |-> "plain", body |-> <<"plain", conf.user, conf.pw>>]>>
  /\ conn' = "auth" /\ UNCHANGED <<st, heap, sasl, fault>>

\* The loop of rd_kafka_sasl_cyrus_client_new and rd_kafka_sasl_cyrus_recv: a
\* call of libsasl, whose output is sent when it did not fail; it is called
\* again on SASL_INTERACT.
CyrusCall(r, new) ==
  /\ sasl.n < MaxSteps /\ (sasl.n = MaxSteps - 1 => r # "INTERACT")
  /\ sasl' = [r |-> r, n |-> sasl.n + 1, new |-> new]
  /\ toserver' = IF r # "FAIL" THEN <<[t |-> "token", body |-> None]>> ELSE <<>>

\* rd_kafka_sasl_cyrus_client_new.  After SASL_OK a response is still awaited.  The
\* result of rd_kafka_sasl_cyrus_kinit_refresh is not looked at.
CyrusNew(r) ==
  /\ CyrusCall(r, TRUE)
  /\ heap' = {"state", "conn"}
  /\ conn' = IF r = "FAIL" THEN "failed" ELSE "auth"
  /\ UNCHANGED <<st, fault>>

\* rd_kafka_sasl_client_new, when the broker connection enters state AUTH.
ClientNew(f) ==
  /\ provider \notin {"none", "refused"} /\ conn = "none"
  /\ IF ~Supports(f) THEN Failed /\ UNCHANGED <<heap, sasl, fault>>
     ELSE \/ provider = "scram" /\ ClientFirst
          \/ provider = "plain" /\ PlainNew
          \/ provider = "cyrus" /\ \E r \in Steps : CyrusNew(r)
  /\ UNCHANGED <<conf, provider, toclient, server, seen>>

----------------------------------------------------------------------------
(* The client: frames from the server *)

\* The server nonce starts with the client's and is longer.
NonceFits(r) == Len(r) > Len(CNonce) /\ SubSeq(r, 1, Len(CNonce)) = CNonce

\* The iteration count is a number and not too large.
CountFits(n) == n # <<-1>> /\ ToInt(n[1]) <= MaxIter

\* The checks of rd_kafka_sasl_scram_handle_server_first_message, in their order.
FirstFits(in) ==
  /\ GetAttr(in, "m") = None
  /\ GetAttr(in, "r") # None
  /\ NonceFits(GetAttr(in, "r"))
  /\ GetAttr(in, "s") # None
  /\ Base64Decode(GetAttr(in, "s")[2]) # -1
  /\ GetAttr(in, "i") # None
  /\ CountFits(GetAttr(in, "i")[2])

\* rd_kafka_sasl_scram_build_client_final_message_wo_proof: the client nonce and
\* then all of the server nonce.
WithoutProof(snonce) == <<"c=biws", CNonce \o snonce>>

AuthMessage(bare, first, wo) == <<"auth", bare, first, wo>>
ClientKey(salted) == HMAC(salted, <<"Client Key">>)
ServerKey(salted) == HMAC(salted, <<"Server Key">>)
ClientProof(salted, auth) == Xor(ClientKey(salted), HMAC(H(ClientKey(salted)), auth))
ServerSignature(salted, auth) == HMAC(ServerKey(salted), auth)

\* rd_kafka_sasl_scram_build_client_final_message
ClientFinal(in) ==
  LET n == ToInt(GetAttr(in, "i")[2][1])
      salted == Hi(conf.pw, Base64Decode(GetAttr(in, "s")[2]), n)
      wo == WithoutProof(GetAttr(in, "r"))
      auth == AuthMessage(st.bare, in, wo)
  IN  /\ toserver' = <<[t |-> "final",
                        body |-> <<wo, ClientProof(salted, auth)>>]>>
      /\ st' = [st EXCEPT !.state = "client-final", !.count = n,
                          !.nonce = wo[2], !.sig = ServerSignature(salted, auth)]
      /\ heap' = heap \union {"ServerSignatureB64"}
      /\ fault' = (fault \/ conf.pw = None)
      /\ UNCHANGED conn

\* Mutation: any verifier will do.
Verified_any(in) == GetAttr(in, "v") # None
\* rd_kafka_sasl_scram_handle_server_final_message: no error, and the signature
\* the client computed.
Verified(in) == GetAttr(in, "e") = None /\ GetAttr(in, "v") = st.sig

\* rd_kafka_sasl_scram_fsm on a frame.
ScramRecv(in) ==
  CASE st.state = "server-first" ->
         IF FirstFits(in) THEN ClientFinal(in) ELSE Failed /\ UNCHANGED <<heap, fault>>
    [] st.state = "client-final" ->
         /\ conn' = IF Verified(in) THEN "up" ELSE "failed"
         /\ UNCHANGED <<st, toserver, heap, fault>>

\* rd_kafka_sasl_plain_recv: any frame is a success.
PlainRecv == conn' = "up" /\ UNCHANGED <<st, toserver, heap, fault>>

\* SASL_OK ends the exchange.
CyrusDone(r) == r = "OK"

\* rd_kafka_sasl_cyrus_recv
CyrusRecv(r) ==
  /\ CyrusCall(r, FALSE)
  /\ conn' = IF CyrusDone(r) THEN "up" ELSE IF r = "FAIL" THEN "failed" ELSE conn
  /\ UNCHANGED <<st, heap, fault>>

\* rd_slice_seek past the length of a frame fails at the end of an empty one, so
\* the provider is given the length itself.
FrameSize(payload) == IF payload = 0 THEN 4 ELSE payload

\* rd_kafka_sasl_io_event: a frame is there.
IoEvent ==
  /\ conn = "auth" /\ toclient # <<>> /\ toserver = <<>> /\ sasl.r # "INTERACT"
  /\ toclient' = <<>>
  /\ LET in == Head(toclient) IN
       /\ seen' = <<Len(in), FrameSize(Len(in))>>
       /\ \/ provider = "scram" /\ ScramRecv(in) /\ UNCHANGED sasl
          \/ provider = "plain" /\ PlainRecv /\ UNCHANGED sasl
          \/ provider = "cyrus" /\ \E r \in Steps : CyrusRecv(r)
  /\ UNCHANGED <<conf, provider, server>>

\* The loop goes round after SASL_INTERACT.
Interact ==
  /\ conn = "auth" /\ provider = "cyrus" /\ sasl.r = "INTERACT" /\ toserver = <<>>
  /\ \E r \in Steps : IF sasl.new THEN CyrusNew(r) ELSE CyrusRecv(r)
  /\ UNCHANGED <<conf, provider, toclient, server, seen>>

\* What rd_kafka_sasl_scram_close and rd_kafka_sasl_cyrus_close free.
Freed == {"state", "cnonce", "first_msg_bare", "ServerSignatureB64", "conn"}

\* rd_kafka_sasl_close, from rd_kafka_transport_close when the connection ends.
Close ==
  /\ conn \in {"failed", "up"}
  /\ conn' = "closed" /\ heap' = heap \ Freed
  /\ toserver' = <<>> /\ toclient' = <<>>
  /\ UNCHANGED <<conf, provider, st, sasl, server, seen, fault>>

\* rd_kafka_sasl_io_event: the server has closed the connection.
Disconnected ==
  /\ conn = "auth" /\ toclient = <<>> /\ server.auth = <<"closed">>
  /\ conn' = "failed"
  /\ UNCHANGED <<conf, provider, st, sasl, toserver, toclient, server, heap, seen, fault>>

----------------------------------------------------------------------------
(* The server *)

\* What the server holds for the user: its salted password.
Salted == Hi(server.pw, server.salt, server.count)

Attr(k, v) == [k |-> k, v |-> v]
SaltText == Base64Encode(server.salt)

\* A server-first-message: a right one, or one of the kinds that are refused.
ServerFirst(kind) ==
  LET r == Attr("r", IF kind = "nonce" THEN <<"x", "s">>
                     ELSE IF kind = "same" THEN CNonce ELSE CNonce \o SNonce)
      s == Attr("s", <<"b64", [SaltText EXCEPT
                       !.size = IF kind = "salt" THEN @ + 1 ELSE @,
                       !.blanks = IF kind = "blank" THEN 1 ELSE 0]>>)
      i == Attr("i", <<"num", IF kind = "number" THEN <<-1>> ELSE <<server.count>>>>)
      all == <<r, s, i>>
  IN  CASE kind = "no-r" -> <<s, i>> [] kind = "no-s" -> <<r, i>>
        [] kind = "no-i" -> <<r, s>> [] kind = "ext" -> <<Attr("m", <<"m">>)>> \o all
        [] OTHER -> all

ScramFirst(m, kind) ==
  /\ m.t = "first"
  /\ toclient' = <<ServerFirst(kind)>>
  /\ server' = [server EXCEPT !.first = <<"sf", m.body, ServerFirst(kind)>>]

\* The server checks the nonce and the proof, and answers with its signature.
ScramFinal(m, kind) ==
  LET wo == m.body[1]
      auth == AuthMessage(server.first[2], server.first[3], wo)
      ok == /\ m.body[2] = ClientProof(Salted, auth)
            /\ Last(wo[2]) = "s"
      v == Attr("v", ServerSignature(Salted, auth))
  IN  /\ m.t = "final"
      /\ toclient' = <<CASE kind = "bad" -> <<Attr("v", <<"bad">>)>>
                         [] kind = "both" -> <<Attr("e", <<"error">>), v>>
                         [] kind = "none" -> <<>>
                         [] OTHER -> IF ok THEN <<v>> ELSE <<Attr("e", <<"error">>)>> >>
      /\ server' = [server EXCEPT !.auth = IF ok THEN auth ELSE None]

\* SASL PLAIN: an empty answer, or the end of the connection.
ServerPlain(m) ==
  /\ m.t = "plain"
  /\ IF m.body[3] = server.pw
     THEN toclient' = <<<<>>>> /\ UNCHANGED server
     ELSE UNCHANGED toclient /\ server' = [server EXCEPT !.auth = <<"closed">>]

\* The server of the GSSAPI exchange answers a token with a token.
ServerToken(m) ==
  /\ m.t = "token"
  /\ toclient' = <<<<Attr("token", None)>>>> /\ UNCHANGED server

ServerStep ==
  /\ toserver # <<>> /\ toserver' = <<>>
  /\ LET m == Head(toserver)
     IN  \/ \E k \in Firsts : ScramFirst(m, k)
         \/ \E k \in Finals : ScramFinal(m, k)
         \/ ServerPlain(m)
         \/ ServerToken(m)
  /\ UNCHANGED <<conf, provider, conn, st, sasl, heap, seen, fault>>

----------------------------------------------------------------------------
(* The specification *)

Next == \/ Configure \/ IoEvent \/ Interact \/ Close \/ Disconnected \/ ServerStep
        \/ \E f \in Features : ClientNew(f)

Spec == Init /\ [][Next]_vars

----------------------------------------------------------------------------
(* Properties *)

\* A connection that came up by SCRAM did so with a server that holds the
\* client's password, the two agree on every message of the exchange, and the
\* nonce of the server is one that extends the client's.
BothProven ==
  conn = "up" /\ provider = "scram" =>
    /\ server.pw = conf.pw
    /\ st.sig = ServerSignature(Salted, server.auth)
    /\ GetAttr(server.first[3], "r") = CNonce \o SNonce

\* A connection that came up by PLAIN or GSSAPI was accepted by the server or by
\* libsasl.
Accepted ==
  conn = "up" => CASE provider = "plain" -> server.pw = conf.pw
                   [] provider = "cyrus" -> sasl.r = "OK"
                   [] OTHER -> TRUE

\* No mechanism reads a username or password that is not configured, and no
\* assertion fails.
NoFault == ~fault

\* Whatever way the exchange ends, all that it allocated is freed once the
\* transport is closed.
NothingLeft == conn = "closed" => heap = {}

=============================================================================
