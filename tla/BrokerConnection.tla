-------------------------- MODULE BrokerConnection --------------------------
(***************************************************************************)
(* The connection of a librdkafka broker thread: how it is set up           *)
(* (connect, SSL, ApiVersion query, SASL handshake and authentication), how *)
(* requests are sent, answered, timed out and retried on it, and how it is  *)
(* torn down.                                                               *)
(*                                                                          *)
(* A broker is one thread, so each of its steps is atomic.  Other threads   *)
(* only append to its op queue (rkb_ops) and handle the replies it posts.   *)
(* A request is a queue entry that carries the fields of rd_kafka_buf_t     *)
(* that matter: the correlation id, whether it belongs to the present       *)
(* connection (rkbuf_connid = rkb_connid), whether part of it has been      *)
(* written and whether its timeout has passed is a choice of the scan.      *)
(* The operators take and return the whole state as a record s, so that     *)
(* calls nest as they do in the code.                                       *)
(***************************************************************************)
EXTENDS Integers, Sequences, FiniteSets, SequencesExt, FiniteSetsExt

CONSTANTS Brokers,      \* the brokers of the client
          Reqs,         \* the requests other threads hand to the brokers
          Target,       \* [Reqs -> Brokers]: rkbuf_rkb
          Direct,       \* the requests whose callback runs in the broker thread
          Blocking,     \* the requests flagged RD_KAFKA_OP_F_BLOCKING
          NeedsNew,     \* the requests only a new broker supports
          Ssl,          \* security.protocol has SSL
          Sasl,         \* security.protocol has SASL
          ApiRequest,   \* api.version.request
          Learned,      \* the node id is known from the start (not a bootstrap broker)
          Queryable,    \* broker.version.fallback is >= 0.10
          FirstServer,  \* the server versions the brokers may start with
          MaxInflight,  \* max.in.flight
          MaxRetries,   \* rk_conf.max_retries
          MaxFails,     \* socket.max.fails
          MaxCorr,      \* bound: correlation ids are counted modulo MaxCorr
          MaxDrops      \* bound on the adverse events

\* The two requests of the connection setup.
Setup == {"ApiVersion", "SaslHandshake"}

\* The states the code treats as usable: "state >= UP" includes the two setup states that query.
UpStates == {"UP", "UPDATE", "APIVERSION_QUERY", "AUTH_HANDSHAKE"}

VARIABLES k,      \* per broker: the fields of rd_kafka_broker_t
          rq,     \* per request: where the client is with it
          ops,    \* per broker: rkb_ops
          net,    \* per broker: the requests the server has not answered yet
          srv,    \* per broker: what runs at the other end
          g,      \* the client: rk_broker_down_cnt and the events
          drops   \* the adverse events so far

vars == <<k, rq, ops, net, srv, g, drops>>

\* The state the operators work on.
S0 == [k |-> k, rq |-> rq, ops |-> ops, net |-> net,
       g |-> [g EXCEPT !.woke = FALSE]]

\* Take the operator's result as the next state.
Becomes(s) ==
  /\ k' = s.k /\ rq' = s.rq /\ ops' = s.ops /\ net' = s.net /\ g' = s.g

Entry(r) == [r |-> r, corrid |-> 0, conn |-> FALSE, part |-> FALSE]
IsApp(e) == e.r \notin Setup
Without(q, e) == SelectSeq(q, LAMBDA x : x # e)
IsBlocking(e) == e.r \in Blocking

-----------------------------------------------------------------------------
(* Broker state *)

Broadcast(s) == [s EXCEPT !.g.woke = TRUE]

\* A usable broker is no longer counted as down.
NoLongerDown(s, b) ==
  [s EXCEPT !.k[b].downrep = FALSE, !.g.down = @ - 1, !.g.told = FALSE]

\* rd_kafka_broker_set_state: count the broker as down, and as no longer down;
\* the last one down reports ALL_BROKERS_DOWN (told).
SetState(s, b, st) ==
  IF s.k[b].state = st THEN s
  ELSE LET t == [s EXCEPT !.k[b].state = st]
       IN  Broadcast(
             IF /\ st = "DOWN" /\ ~s.k[b].downrep
                /\ s.k[b].state # "APIVERSION_QUERY"
             THEN [t EXCEPT !.k[b].downrep = TRUE, !.g.down = @ + 1,
                            !.g.told = @ \/ (s.g.down + 1 = Cardinality(Brokers))]
             ELSE IF st \in UpStates /\ s.k[b].downrep THEN NoLongerDown(t, b)
             ELSE t)

-----------------------------------------------------------------------------
(* Callbacks of requests *)

\* rd_kafka_broker_buf_retry in the broker thread: queue for a later attempt,
\* without a correlation id and from the first byte.
BufRetry(s, b, e) ==
  [s EXCEPT !.k[b].retry = Append(@, [e EXCEPT !.part = FALSE, !.corrid = 0])]

\* The errors rd_kafka_err_action maps to RETRY.
Retriable == {"TRANSPORT", "TIMED_OUT"}

\* The limit check of rd_kafka_buf_retry.
MayRetry(q) == q.tries + (IF q.sent THEN 1 ELSE 0) <= MaxRetries

\* A response callback: done, or rd_kafka_buf_retry, which from another thread
\* goes through the broker's op queue.
Handler(s, b, e, err, inThread) ==
  LET q == s.rq[e.r]
      t == [s EXCEPT !.rq[e.r].at = "queued",
                     !.rq[e.r].tries = @ + IF q.sent THEN 1 ELSE 0]
  IN  IF err \in Retriable /\ MayRetry(q)
      THEN IF inThread THEN BufRetry(t, b, e)
           ELSE [t EXCEPT !.ops[b] = Append(@, [op |-> "XMIT_RETRY", e |-> e])]
      ELSE [s EXCEPT !.rq[e.r].at = "done", !.rq[e.r].err = err]

\* rd_kafka_buf_callback for a request of the client: call the handler, or post
\* the reply to the thread that waits for it.
Callback(s, b, e, err) ==
  IF e.r \in Direct THEN Handler(s, b, e, err, TRUE)
  ELSE [s EXCEPT !.rq[e.r].at = "reply", !.rq[e.r].err = err, !.rq[e.r].e = e]

-----------------------------------------------------------------------------
(* Teardown *)

\* rd_kafka_bufq_purge.  The callbacks of ApiVersion and SaslHandshake fail the
\* broker again, which finds it down with empty queues and changes nothing.
Purge(s, b, q, err) ==
  FoldLeft(LAMBDA t, e : Callback(t, b, e, err), s, SelectSeq(q, IsApp))

\* Mutation: the requests in flight are forgotten, not failed.
PurgeOrder_OutOnly(n) == n.out

\* The requests a teardown calls back: those in flight, then those not sent.
PurgeOrder(n) == n.wait \o n.out

\* The connection went down during the ApiVersion query: do not query again.
FailFeatures(n) ==
  IF n.state = "APIVERSION_QUERY" THEN n.features \ {"ApiVersion"} ELSE n.features

\* No blocking request is in flight after a teardown.
ResetBlocking(n) == 0

\* rd_kafka_broker_fail: close the connection, go down, and call back the
\* requests in flight and then the ones not sent.  quiet records that the state
\* change was not one the down count sees.
Fail(s, b, err) ==
  LET n == s.k[b]
      t == SetState([s EXCEPT !.k[b].features = FailFeatures(n),
                              !.k[b].quiet = IF n.state = "DOWN" THEN @
                                             ELSE n.state = "APIVERSION_QUERY",
                              !.k[b].timeouts = 0, !.k[b].transport = "none",
                              !.k[b].half = FALSE,
                              !.net[b] = <<>>], b, "DOWN")
  IN  Purge([t EXCEPT !.k[b].wait = <<>>, !.k[b].out = <<>>,
                    !.k[b].blocking = ResetBlocking(n)], b, PurgeOrder(n), err)

-----------------------------------------------------------------------------
(* Enqueueing *)

\* rd_kafka_broker_buf_enq0: a flash request goes behind the flash and the
\* partly written requests, any other to the tail.
Enq(s, b, e, head) ==
  LET q == s.k[b].out
      first == {i \in DOMAIN q : IsApp(q[i]) /\ q[i].corrid = 0}
      at == IF first = {} THEN Len(q) + 1 ELSE Min(first)
      t == IF IsApp(e) THEN [s EXCEPT !.rq[e.r].sent = FALSE] ELSE s
  IN  [t EXCEPT !.k[b].out = IF head THEN InsertAt(q, at, e) ELSE Append(q, e)]

-----------------------------------------------------------------------------
(* Connection setup *)

\* rd_kafka_feature_map: the APIs each feature depends on.
FeatureMap == [f \in {"ApiVersion", "SaslHandshake", "New"} |-> {f}]

\* rd_kafka_features_check: the features a list of supported APIs provides.
FeaturesCheck(apis) == {f \in DOMAIN FeatureMap : FeatureMap[f] \subseteq apis}

\* The APIs a server of a version reports.
ApisOf(version) ==
  IF version = "new" THEN {"ApiVersion", "SaslHandshake", "New"} ELSE {}

\* rd_kafka_get_legacy_ApiVersions for broker.version.fallback.
LegacyApis == IF Queryable THEN ApisOf("new") ELSE ApisOf("old")

\* rd_kafka_broker_set_api_versions: what the broker reported, or the fallback.
SetApiVersions(s, b, apis) == [s EXCEPT !.k[b].features = FeaturesCheck(apis)]

\* rd_kafka_broker_connect_up
ConnectUp(s, b) == SetState([s EXCEPT !.k[b].maxin = MaxInflight], b, "UP")

\* rd_kafka_broker_connect_auth: handshake, authenticate, or go up.
ConnectAuth(s, b) ==
  IF ~Sasl THEN ConnectUp(s, b)
  ELSE IF s.k[b].state # "AUTH_HANDSHAKE" /\ "SaslHandshake" \in s.k[b].features
  THEN Enq(SetState(s, b, "AUTH_HANDSHAKE"), b, Entry("SaslHandshake"), TRUE)
  ELSE SetState(s, b, "AUTH")

\* The features to begin a connection with: ask, or take the fallback's.
ConnFeatures(n, query) ==
  IF query THEN n.features \union {"ApiVersion"}
  ELSE IF "ApiVersion" \in n.features THEN n.features
  ELSE FeaturesCheck(LegacyApis)

\* Mutation: other requests are not held back while the connection is set up.
SetupInflight_Max == MaxInflight

\* The requests in flight while the connection is set up.
SetupInflight == 1

\* rd_kafka_broker_connect_done: a new connection id (no buffer belongs to it
\* yet), one request in flight until the setup is done, and the ApiVersion
\* query when its last failure is long ago or the fallback version supports it.
ConnectDone(s, b) ==
  LET n == s.k[b]
      query == ApiRequest /\ n.failintvl # "running"
      f == ConnFeatures(n, query)
      t == [s EXCEPT !.k[b].maxin = SetupInflight, !.k[b].transport = "open",
                     !.k[b].failintvl = IF query THEN "running" ELSE @,
                     !.k[b].features = f,
                     !.k[b].nego = "ApiVersion" \notin f, !.k[b].authd = FALSE,
                     !.k[b].out = [i \in DOMAIN @ |-> [@[i] EXCEPT !.conn = FALSE]]]
  IN  IF "ApiVersion" \in f
      THEN Enq(SetState(t, b, "APIVERSION_QUERY"), b, Entry("ApiVersion"), TRUE)
      ELSE ConnectAuth(t, b)

\* rd_kafka_broker_handle_ApiVersion: an error fails the broker.
HandleApiVersion(s, b, ok) ==
  IF ok THEN ConnectAuth(SetApiVersions([s EXCEPT !.k[b].nego = TRUE], b,
                                        ApisOf(srv[b])), b)
  ELSE Fail(s, b, "NOT_IMPLEMENTED")

\* rd_kafka_broker_handle_SaslHandshake: circle back to the authentication.
HandleSaslHandshake(s, b, ok) ==
  IF ok THEN ConnectAuth(s, b) ELSE Fail(s, b, "AUTHENTICATION")

SetupResponse(s, b, r, ok) ==
  IF r = "ApiVersion" THEN HandleApiVersion(s, b, ok)
  ELSE HandleSaslHandshake(s, b, ok)

-----------------------------------------------------------------------------
(* The steps of the broker thread *)

\* An adverse event, of which there are at most MaxDrops.
Adverse == drops < MaxDrops /\ drops' = drops + 1
Benign == drops' = drops
Running == g.aborted = "no"
Same == srv' = srv

\* rd_kafka_transport_connect: a socket that begins to connect.
TransportConnect(s, b) == [s EXCEPT !.k[b].transport = "connecting"]

\* rd_kafka_broker_connect: choose an address and begin to connect to it.
Connect(b) ==
  /\ Running /\ k[b].state \in {"INIT", "DOWN"}
  /\ Becomes(SetState(TransportConnect(S0, b), b, "CONNECT"))
  /\ Benign /\ Same

\* rd_kafka_broker_resolve fails: the host has no address.
ResolveFails(b) ==
  /\ Running /\ k[b].state \in {"INIT", "DOWN"}
  /\ Becomes(Fail(S0, b, "TRANSPORT")) /\ Adverse /\ Same

\* rd_kafka_transport_ssl_connect: the handshake does not end at once.
SslConnect(s, b) == [s EXCEPT !.k[b].transport = "ssl"]

\* rd_kafka_transport_connected: the socket is connected.
Connected(b) ==
  /\ Running /\ k[b].state = "CONNECT" /\ k[b].transport = "connecting"
  /\ Becomes(IF Ssl THEN SslConnect(S0, b) ELSE ConnectDone(S0, b))
  /\ Benign /\ Same

\* rd_kafka_transport_io_event in state CONNECT: the socket has an error.
Refused(b) ==
  /\ Running /\ k[b].state = "CONNECT" /\ k[b].transport = "connecting"
  /\ Becomes(Fail(S0, b, "TRANSPORT")) /\ Adverse /\ Same

\* rd_kafka_transport_ssl_handshake: done, and the peer is verified, or failed.
SslDone(b) ==
  /\ Running /\ k[b].state = "CONNECT" /\ k[b].transport = "ssl"
  /\ Becomes(ConnectDone(S0, b)) /\ Benign /\ Same
SslFails(b) ==
  /\ Running /\ k[b].state = "CONNECT" /\ k[b].transport = "ssl"
  /\ Becomes(Fail(S0, b, "SSL")) /\ Adverse /\ Same

\* rd_kafka_sasl_auth_done after the last frame of the exchange.
SaslDone(b) ==
  /\ Running /\ k[b].state = "AUTH"
  /\ Becomes(ConnectUp([S0 EXCEPT !.k[b].authd = TRUE], b)) /\ Benign /\ Same

\* rd_kafka_sasl_io_event: a frame is refused or the connection is closed.
SaslFails(b) ==
  /\ Running /\ k[b].state = "AUTH"
  /\ Becomes(Fail(S0, b, "AUTHENTICATION")) /\ Adverse /\ Same

\* rd_kafka_broker_conn_closed: the server closes the connection.
Closed(b) ==
  /\ Running /\ k[b].state \in UpStates
  /\ Becomes(Fail(S0, b, "TRANSPORT")) /\ Adverse /\ Same

\* rd_kafka_broker_request_supported
Supported(n, e) == e.r \in NeedsNew => "New" \in n.features

\* The correlation id that follows c.
NextCorr(c) == (c % MaxCorr) + 1

\* One turn of the loop of rd_kafka_send: drop an unsupported request, or write
\* the first request of the queue, whole or in part.
Send(b, whole) ==
  LET n == k[b]
      e == Head(n.out)
      new == e.corrid = 0 \/ ~e.conn
      f == IF new THEN [e EXCEPT !.corrid = NextCorr(n.corrid), !.conn = TRUE] ELSE e
      s == IF new THEN [S0 EXCEPT !.k[b].corrid = f.corrid,
                                  !.g.aborted = IF e.part THEN "send" ELSE @] ELSE S0
      t == [s EXCEPT !.k[b].out = Tail(@), !.k[b].half = FALSE,
                     !.k[b].wait = Append(@, [f EXCEPT !.part = FALSE]),
                     !.net[b] = Append(@, [r |-> e.r, corrid |-> f.corrid,
                                           att |-> IF IsApp(e) THEN rq[e.r].att + 1
                                                   ELSE 0])]
      u == IF IsApp(e) THEN [t EXCEPT !.rq[e.r].sent = TRUE, !.rq[e.r].att = @ + 1]
           ELSE t
      v == IF IsBlocking(e) THEN [u EXCEPT !.k[b].blocking = @ + 1] ELSE u
  IN  /\ Running /\ n.state \in UpStates
      /\ Len(n.wait) < n.maxin /\ n.out # <<>>
      /\ Becomes(IF ~Supported(n, e)
                 THEN Callback([S0 EXCEPT !.k[b].out = Tail(@)], b, e,
                               "UNSUPPORTED_FEATURE")
                 ELSE IF whole
                 THEN IF v.k[b].blocking = 1 /\ IsBlocking(e) THEN Broadcast(v) ELSE v
                 ELSE [s EXCEPT !.k[b].out[1] = [f EXCEPT !.part = TRUE],
                                !.k[b].half = TRUE])
      /\ Benign /\ Same

\* The requests in flight with this correlation id.
WaitingFor(n, corrid) == {i \in DOMAIN n.wait : n.wait[i].corrid = corrid}

\* The broadcast of rd_kafka_waitresp_find: when one blocking request is left.
AnswerBroadcast(s, b, e) ==
  IF IsBlocking(e) /\ s.k[b].blocking = 1 THEN Broadcast(s) ELSE s

\* rd_kafka_req_response: give the answer to the request in flight.
Respond(s, b, e, ok) ==
  IF IsApp(e) THEN Callback(AnswerBroadcast(s, b, e), b, e, "NONE")
  ELSE SetupResponse(s, b, e.r, ok)

\* rd_kafka_recv: the answer to the oldest request the server holds.  It is for
\* the request in flight with its correlation id, if there is one.
Recv(b, ok) ==
  LET n == k[b]
      a == Head(net[b])
      at == WaitingFor(n, a.corrid)
      e == n.wait[Min(at)]
      s == [S0 EXCEPT !.net[b] = Tail(@)]
      t == [s EXCEPT !.k[b].wait = RemoveAt(@, Min(at)),
                     !.k[b].blocking = @ - IF IsBlocking(e) THEN 1 ELSE 0]
      u == IF IsApp(e)
           THEN [t EXCEPT !.rq[e.r].stale = @ \/ a.r # e.r \/ a.att # rq[e.r].att]
           ELSE t
  IN  /\ Running /\ n.state \in UpStates /\ net[b] # <<>>
      /\ a.r \in Setup => srv[b] = "new"
      /\ Becomes(IF at = {} THEN s
                 ELSE Respond(u, b, e, ok))
      /\ IF ok THEN Benign ELSE a.r \in Setup /\ Adverse
      /\ Same

\* An old server closes the connection on a request it does not know.
OldCloses(b) ==
  /\ Running /\ k[b].state \in UpStates /\ net[b] # <<>>
  /\ Head(net[b]).r \in Setup /\ srv[b] = "old"
  /\ Becomes(Fail(S0, b, "TRANSPORT")) /\ Benign /\ Same

\* One buffer of a timeout scan.  The scan follows the links of the queue as
\* they were; a buffer that has left the queue trips the assertion of
\* rd_kafka_bufq_deq that the queue is not empty.
ScanBuf(s, b, e, q, inflight) ==
  IF e \notin Range(s.k[b][q])
  THEN [s EXCEPT !.g.aborted = IF s.k[b][q] = <<>> THEN "scan" ELSE @]
  ELSE LET t == [s EXCEPT !.k[b][q] = Without(@, e)]
           u == IF inflight /\ IsBlocking(e)
                THEN [t EXCEPT !.k[b].blocking = @ - 1] ELSE t
           v == IF inflight /\ IsBlocking(e) /\ u.k[b].blocking = 0
                THEN Broadcast(u) ELSE u
       IN  IF IsApp(e) THEN Callback(v, b, e, "TIMED_OUT")
           ELSE SetupResponse(v, b, e.r, FALSE)

\* rd_kafka_broker_bufq_timeout_scan on queue q, for the timed out requests T; a
\* request the same scan put there has a new timeout.
ScanQueue(s, b, q, T) ==
  FoldLeft(LAMBDA t, e : ScanBuf(t, b, e, q, q = "wait"), s,
           SelectSeq(s.k[b][q], LAMBDA e : e.r \in T /\ e \in Range(k[b][q])))

\* The requests in the queues of a broker.
Held(n) == {e.r : e \in Range(n.wait) \union Range(n.retry) \union Range(n.out)}

\* A timed out request was partly written.
PartialTimeout(q, T) == \E e \in Range(q) : e.r \in T /\ e.part

\* rd_kafka_broker_timeout_scan: the in-flight, the retry and the output queue,
\* then the connection when a request was partly sent or too many timed out.
TimeoutScan(b, T) ==
  LET s1 == ScanQueue(S0, b, "wait", T)
      s2 == ScanQueue(s1, b, "retry", T)
      s3 == ScanQueue(s2, b, "out", T)
      cnt == Cardinality({e \in Range(k[b].wait) \union Range(s2.k[b].out) : e.r \in T})
      s4 == [s3 EXCEPT !.k[b].timeouts = @ + cnt]
  IN  /\ Running /\ T \subseteq Held(k[b]) /\ T # {}
      /\ Becomes(IF s4.g.aborted = "no" /\
                    (PartialTimeout(s2.k[b].out, T) \/
                     (MaxFails # 0 /\ s4.k[b].timeouts >= MaxFails
                                   /\ s4.k[b].state \in UpStates))
                 THEN Fail(s4, b, "TIMED_OUT") ELSE s4)
      /\ Same

\* rd_kafka_broker_retry_bufs_move, called by the serve loops of a broker whose
\* node id is known: the first m requests have waited long enough.
RetryMove(b, m) ==
  /\ Running /\ k[b].state \in {"UP", "UPDATE"} /\ k[b].known
  /\ m \in 1..Len(k[b].retry)
  /\ Becomes(FoldLeft(LAMBDA t, e : Enq(t, b, e, FALSE),
                      [S0 EXCEPT !.k[b].retry = SubSeq(@, m + 1, Len(@))],
                      SubSeq(k[b].retry, 1, m)))
  /\ Benign /\ Same

\* The end of a turn of rd_kafka_broker_thread_main in state UPDATE.
Updated(b) ==
  /\ Running /\ k[b].state = "UPDATE"
  /\ Becomes(SetState(S0, b, "UP")) /\ Benign /\ Same

\* The NODE_UPDATE op: a node id for a broker that had none makes it go through
\* state UPDATE.
NodeUpdate(s, b) ==
  LET t == [s EXCEPT !.k[b].known = TRUE]
  IN  IF s.k[b].state = "UP" /\ ~s.k[b].known THEN SetState(t, b, "UPDATE") ELSE t

\* rd_kafka_broker_op_serve: the first op of the queue.  RENAME is a NODE_UPDATE
\* with another host name, which ends the connection.
OpServe(b) ==
  LET o == Head(ops[b])
      s == [S0 EXCEPT !.ops[b] = Tail(@)]
  IN  /\ Running /\ ops[b] # <<>>
      /\ Becomes(CASE o.op = "XMIT_BUF" -> Enq(s, b, o.e, FALSE)
                   [] o.op = "XMIT_RETRY" -> BufRetry(s, b, o.e)
                   [] o.op = "NODE_UPDATE" -> NodeUpdate(s, b)
                   [] o.op = "RENAME" -> Fail(s, b, "NODE_UPDATE"))
      /\ Benign /\ Same

-----------------------------------------------------------------------------
(* The other threads, the server and the clock *)

\* rd_kafka_broker_buf_enq_replyq from another thread.
Request(r) ==
  /\ Running /\ rq[r].at = "app"
  /\ rq' = [rq EXCEPT ![r].at = "queued"]
  /\ ops' = [ops EXCEPT ![Target[r]] =
               Append(@, [op |-> "XMIT_BUF", e |-> Entry(r)])]
  /\ g' = [g EXCEPT !.woke = FALSE]
  /\ UNCHANGED <<k, net, srv, drops>>

\* rd_kafka_buf_handle_op: the thread that waits handles the reply.
HandleReply(r) ==
  /\ Running /\ rq[r].at = "reply"
  /\ Becomes(Handler(S0, Target[r], rq[r].e, rq[r].err, FALSE))
  /\ Benign /\ Same

\* rd_kafka_broker_update: metadata tells the node id of a bootstrap broker, or
\* a new address of a known one.
Learn(b, op) ==
  /\ Running /\ \A i \in DOMAIN ops[b] : ops[b][i].op # op
  /\ op = "NODE_UPDATE" => ~k[b].known
  /\ IF op = "RENAME" THEN k[b].known /\ Adverse ELSE Benign
  /\ ops' = [ops EXCEPT ![b] = Append(@, [op |-> op, e |-> Entry("ApiVersion")])]
  /\ g' = [g EXCEPT !.woke = FALSE]
  /\ UNCHANGED <<k, rq, net, srv>>

\* broker.version.fallback's interval since the last query has passed.
Elapse(b) ==
  /\ Running /\ k[b].failintvl = "running"
  /\ Becomes([S0 EXCEPT !.k[b].failintvl = "elapsed"]) /\ Adverse /\ Same

\* The server is restarted as another version; its connections are gone.
Reinstall(b) ==
  /\ Running /\ k[b].state = "DOWN"
  /\ srv' = [srv EXCEPT ![b] = IF @ = "new" THEN "old" ELSE "new"]
  /\ Becomes(S0) /\ Adverse

-----------------------------------------------------------------------------
\* rd_kafka_broker_add: a broker as its thread finds it.
NewBroker ==
  [state |-> "INIT", transport |-> "none", features |-> {}, failintvl |-> "never",
   maxin |-> 1, known |-> Learned, downrep |-> FALSE, quiet |-> FALSE,
   nego |-> FALSE, authd |-> FALSE, out |-> <<>>, wait |-> <<>>, retry |-> <<>>,
   corrid |-> 0, blocking |-> 0, timeouts |-> 0, half |-> FALSE]

Init ==
  /\ k = [b \in Brokers |-> NewBroker]
  /\ rq = [r \in Reqs |->
            [at |-> "app", err |-> "NONE", tries |-> 0, sent |-> FALSE, att |-> 0,
             stale |-> FALSE, e |-> Entry(r)]]
  /\ ops = [b \in Brokers |-> <<>>]
  /\ net = [b \in Brokers |-> <<>>]
  /\ srv \in [Brokers -> FirstServer]
  /\ g = [down |-> 0, told |-> FALSE, woke |-> FALSE, aborted |-> "no"]
  /\ drops = 0

\* The precaution of rd_kafka_broker_buf_retry: a request that was not moved from
\* the retry queue in time is timed out.
RetryExpire(b) ==
  /\ ~(k[b].known /\ k[b].state \in {"UP", "UPDATE"}) /\ k[b].retry # <<>>
  /\ TimeoutScan(b, {Head(k[b].retry).r}) /\ Benign

Timeout(b) ==
  \E T \in SUBSET (Held(k[b])) : TimeoutScan(b, T) /\ Adverse

\* The steps that take a connection forward.
Advance(b) ==
  Connect(b) \/ Connected(b) \/ SslDone(b) \/ SaslDone(b) \/ Updated(b)

Move(b) == \E m \in 1..Len(k[b].retry) : RetryMove(b, m)

Next ==
  \/ \E b \in Brokers :
       \/ Advance(b) \/ Send(b, TRUE) \/ Send(b, FALSE)
       \/ Recv(b, TRUE) \/ Recv(b, FALSE) \/ OldCloses(b)
       \/ OpServe(b) \/ Move(b) \/ RetryExpire(b)
       \/ ResolveFails(b) \/ Refused(b) \/ SslFails(b) \/ SaslFails(b) \/ Closed(b)
       \/ Timeout(b)
       \/ Learn(b, "NODE_UPDATE") \/ Learn(b, "RENAME")
       \/ Elapse(b) \/ Reinstall(b)
  \/ \E r \in Reqs : Request(r) \/ HandleReply(r)

Spec == Init /\ [][Next]_vars

-----------------------------------------------------------------------------
(* Properties *)

\* How often request r is in the queues of the client.
Places(r) ==
  LET In(q) == Cardinality({i \in DOMAIN q : q[i].r = r})
      b == Target[r]
  IN  In(k[b].out) + In(k[b].wait) + In(k[b].retry)
        + Cardinality({i \in DOMAIN ops[b] : ops[b][i].e.r = r})

\* A request is in exactly one queue from the moment it is handed over until its
\* callback is due, and in none after that: teardown, timeout, retry and answer
\* neither lose a request nor call it back twice.
OnePlace ==
  \A r \in Reqs : Places(r) = IF rq[r].at = "queued" THEN 1 ELSE 0

\* An answer reaches the request it answers, and the attempt it answers: never
\* another request's, and never a retry of the one that timed out.
FreshAnswer == \A r \in Reqs : ~rq[r].stale

\* No request of the client reaches the server on a connection before its API
\* versions are settled and, with SASL, before it is authenticated.
HeldBack ==
  \A b \in Brokers :
    (\E i \in DOMAIN net[b] : net[b][i].r \notin Setup) =>
      k[b].nego /\ (Sasl => k[b].authd)

\* While a request is partly written on a connection, it stays the next one to
\* be written: nothing is ever sent into the middle of it.
WholeWrites ==
  \A b \in Brokers :
    /\ k[b].half => k[b].out # <<>> /\ Head(k[b].out).part
    /\ \A i \in DOMAIN k[b].out : k[b].out[i].part =>
         i = 1 /\ k[b].out[i].conn /\ k[b].out[i].corrid # 0

\* rkb_blocking_request_cnt is the number of blocking requests in flight, also
\* after teardowns and timeouts.
BlockingCounted ==
  \A b \in Brokers :
    k[b].blocking = Cardinality({i \in DOMAIN k[b].wait : IsBlocking(k[b].wait[i])})

\* No request is taken for a new one while it is partly written: the assertion of
\* rd_kafka_send never fails.  That of rd_kafka_bufq_deq does, when the timeout of
\* a request of the connection setup takes the connection down in the middle of the
\* scan; a client that sends no such request is safe from it.
AbortsOnlyInScan ==
  /\ g.aborted # "send"
  /\ g.aborted = "scan" => ApiRequest \/ Sasl

\* When every broker is down, and none of them because of an ApiVersion query,
\* the application has been told so since the last one was up.
DownReported ==
  (\A b \in Brokers : k[b].state = "DOWN" /\ ~k[b].quiet) => g.told

=============================================================================
