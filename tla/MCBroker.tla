------------------------------ MODULE MCBroker -------------------------------
(***************************************************************************)
(* The producer side and the brokers of the client for TLC: messages on    *)
(* their way and the account of them, a topic's partitions, the cached     *)
(* metadata, the connection to a broker, its socket and authentication.  A *)
(* behaviour is of one component in one configuration, which scenario      *)
(* names; the variables of the others are Absent.                            *)
(***************************************************************************)
EXTENDS Integers, Sequences, FiniteSets, TLC

CONSTANTS Scenarios,    \* the scenarios of this run
          Absent          \* no value

VARIABLE scenario   \* the component and the configuration this behaviour is of

\* Produce
VARIABLES q_prod, late, produced, paused, leader, next, up, out_prod, pipe, truth, log, fails,
          moves_prod
\* MessageQuota
VARIABLES curr, th, lock, writer, known, st_quota, freed, failed, rep, op, called, reported,
          flush
\* TopicPartitions
VARIABLES s_topic, view, made, sent, moves_topic
\* MetadataCache
VARIABLES cache, tmr, now, reqs, fulls, leaderless, query, app
\* BrokerConnection
VARIABLES k_broker, rq, ops, net, srv_broker, g_broker, drops
\* Transport
VARIABLES pc, pollout, outev, out_sock, req, kout, sslw, badretry, srv_sock, todo, kin, ssl,
          rbuf, frames, down
\* Sasl
VARIABLES conf, provider, conn, st_auth, sasl, toserver, toclient, server, heap, seen, fault

prod == <<q_prod, late, produced, paused, leader, next, up, out_prod, pipe, truth, log, fails,
          moves_prod>>
quota == <<curr, th, lock, writer, known, st_quota, freed, failed, rep, op, called, reported,
           flush>>
topic == <<s_topic, view, made, sent, moves_topic>>
meta == <<cache, tmr, now, reqs, fulls, leaderless, query, app>>
broker == <<k_broker, rq, ops, net, srv_broker, g_broker, drops>>
sock == <<pc, pollout, outev, out_sock, req, kout, sslw, badretry, srv_sock, todo, kin, ssl,
          rbuf, frames, down>>
auth == <<conf, provider, conn, st_auth, sasl, toserver, toclient, server, heap, seen, fault>>
vars == <<scenario, prod, quota, topic, meta, broker, sock, auth>>

-----------------------------------------------------------------------------
(* Three messages of one partition: retries and failing requests, a leader *)
(* that moves, no acknowledgements, and for liveness one retry and a move, *)
(* and a partition that is paused.                                         *)
ProdOf == [Brokers |-> {"b1"}, N |-> 3, MaxRetries |-> 1, BatchMax |-> 2, MaxInflight |-> 2,
           Backpressure |-> 1, SocketMaxFails |-> 1, Acks |-> TRUE, Lifo |-> FALSE,
           MayPause |-> FALSE, Expiring |-> FALSE,
           Errors |-> {"not_enough_replicas", "not_enough_after_append", "too_large"},
           Closes |-> {"transport", "node_update"}, MaxFails |-> 2, MaxMoves |-> 0]

ProdConf == [deliver |-> ProdOf,
             moves |-> [ProdOf EXCEPT !.Brokers = {"b1", "b2"}, !.N = 2, !.MaxRetries = 0,
                                      !.SocketMaxFails = 0, !.Expiring = TRUE,
                                      !.Errors = {"unknown_part"}, !.Closes = {"transport"},
                                      !.MaxFails = 1, !.MaxMoves = 1],
             noacks |-> [ProdOf EXCEPT !.BatchMax = 1, !.MaxInflight = 1, !.Backpressure = 2,
                                       !.Acks = FALSE, !.Lifo = TRUE, !.Errors = {},
                                       !.Closes = {"transport"}],
             report |-> [ProdOf EXCEPT !.Brokers = {"b1", "b2"}, !.N = 2, !.MaxInflight = 1,
                                       !.Errors = {"not_enough_after_append"},
                                       !.Closes = {"transport"}, !.MaxFails = 1,
                                       !.MaxMoves = 1],
             expire |-> [ProdOf EXCEPT !.N = 2, !.MaxRetries = 0, !.MayPause = TRUE,
                                       !.Expiring = TRUE, !.Errors = {},
                                       !.Closes = {"transport"}, !.MaxFails = 1]]

Delivery(s) == INSTANCE Produce WITH
    None <- Absent, Brokers <- ProdConf[s].Brokers, N <- ProdConf[s].N, MaxRetries <- ProdConf[s].MaxRetries,
    BatchMax <- ProdConf[s].BatchMax, MaxInflight <- ProdConf[s].MaxInflight,
    Backpressure <- ProdConf[s].Backpressure, SocketMaxFails <- ProdConf[s].SocketMaxFails,
    Acks <- ProdConf[s].Acks, Lifo <- ProdConf[s].Lifo, MayPause <- ProdConf[s].MayPause,
    Expiring <- ProdConf[s].Expiring, Errors <- ProdConf[s].Errors,
    Closes <- ProdConf[s].Closes, Reconnects <- TRUE, MaxFails <- ProdConf[s].MaxFails,
    MaxMoves <- ProdConf[s].MaxMoves, q <- q_prod, out <- out_prod, moves <- moves_prod

DeliveryIdle ==
    /\ q_prod = Absent /\ late = Absent /\ produced = Absent /\ paused = Absent /\ leader = Absent
    /\ next = Absent /\ up = Absent /\ out_prod = Absent /\ pipe = Absent /\ truth = Absent /\ log = Absent
    /\ fails = Absent /\ moves_prod = Absent

-----------------------------------------------------------------------------
(* Two threads that produce and one or two that poll: a batch that may     *)
(* block, one that fails when the queue is full, no delivery reports; for  *)
(* liveness a queue whose count or whose size is filled to its limit, and  *)
(* one whose size is near its limit.                                       *)
One(m, block) == [batch |-> FALSE, block |-> block, msgs |-> <<m>>]
Batch(ms, block) == [batch |-> TRUE, block |-> block, msgs |-> ms]
Blocking == [t1 |-> <<Batch(<<1, 2>>, TRUE)>>, t2 |-> <<One(3, FALSE), One(4, TRUE)>>]
Failing == [t1 |-> <<Batch(<<1, 2>>, FALSE)>>, t2 |-> <<One(3, TRUE), One(4, FALSE)>>]
QuotaOf == [Pollers |-> {"p1"}, Calls |-> Blocking, Size |-> <<1, 2, 1, 2>>, MaxCnt |-> 3,
            MaxSize |-> 6, Bad |-> {3}, Reports |-> TRUE, ErrOnly |-> FALSE, MayYield |-> TRUE,
            MaxFlush |-> 1]

QuotaConf == [quota |-> QuotaOf,
              pollers |-> [QuotaOf EXCEPT !.Pollers = {"p1", "p2"}, !.Calls = Failing,
                                          !.MaxCnt = 2, !.MaxSize = 4, !.Bad = {4},
                                          !.ErrOnly = TRUE, !.MayYield = FALSE],
              silent |-> [QuotaOf EXCEPT !.Calls = Failing, !.Size = <<1, 1, 1, 1>>,
                                         !.MaxCnt = 2, !.MaxSize = 9, !.Bad = {3, 4},
                                         !.Reports = FALSE, !.MayYield = FALSE],
              full |-> [QuotaOf EXCEPT !.Size = <<1, 1, 1, 1>>, !.MaxCnt = 2, !.MaxSize = 9,
                                       !.MayYield = FALSE, !.MaxFlush = 0],
              brim |-> [QuotaOf EXCEPT !.Size = <<1, 1, 1, 1>>, !.MaxCnt = 9, !.MaxSize = 2,
                                       !.MayYield = FALSE, !.MaxFlush = 0],
              near |-> [QuotaOf EXCEPT !.Size = <<2, 2, 2, 2>>, !.MaxCnt = 9, !.MaxSize = 3,
                                       !.MayYield = FALSE, !.MaxFlush = 0]]

Quota(s) == INSTANCE MessageQuota WITH
    None <- Absent, Threads <- {"t1", "t2"}, Pollers <- QuotaConf[s].Pollers, Calls <- QuotaConf[s].Calls,
    Size <- QuotaConf[s].Size, MaxCnt <- QuotaConf[s].MaxCnt, MaxSize <- QuotaConf[s].MaxSize,
    Bad <- QuotaConf[s].Bad, Reports <- QuotaConf[s].Reports, ErrOnly <- QuotaConf[s].ErrOnly,
    MayYield <- QuotaConf[s].MayYield, MaxFlush <- QuotaConf[s].MaxFlush, st <- st_quota

ASSUME QuotaCalls == \A s \in DOMAIN QuotaConf : Quota(s)!CallsAssumption

QuotaIdle ==
    /\ curr = Absent /\ th = Absent /\ lock = Absent /\ writer = Absent /\ known = Absent
    /\ st_quota = Absent /\ freed = Absent /\ failed = Absent /\ rep = Absent /\ op = Absent
    /\ called = Absent /\ reported = Absent /\ flush = Absent

-----------------------------------------------------------------------------
(* A topic of at most two partitions and two brokers: a consumer's, and  *)
(* a producer's.                                                          *)
Placed == [m1 |-> 2, m2 |-> 0]
Hashed == [m1 |-> 1, m2 |-> 1]
TopicOf == [Msgs |-> {}, Errs |-> {"leader", "absent"}, Reassigns |-> TRUE, MaxMoves |-> 2]

TopicConf == [desired |-> TopicOf,
              unassigned |-> [TopicOf EXCEPT !.Msgs = {"m1", "m2"},
                                             !.Errs = {"leader", "unknown_topic"},
                                             !.Reassigns = FALSE, !.MaxMoves = 0]]

Topic(s) == INSTANCE TopicPartitions WITH
    None <- Absent, Brokers <- {"b1", "b2"}, Internal <- "int", N <- 2, Objs <- 1 .. 6,
    Msgs <- TopicConf[s].Msgs, Forced <- Placed, Hash <- Hashed, Errs <- TopicConf[s].Errs,
    Reassigns <- TopicConf[s].Reassigns, MaxChanges <- 2, MaxMoves <- TopicConf[s].MaxMoves,
    s <- s_topic, moves <- moves_topic

TopicIdle ==
    /\ s_topic = Absent /\ view = Absent /\ made = Absent /\ sent = Absent /\ moves_topic = Absent

-----------------------------------------------------------------------------
(* Two topics whose metadata is refreshed, requests that fail, and an      *)
(* application that asks for a leader.                                     *)
MetaOf == [Topics |-> {"t1", "t2"}, Slots |-> {1, 2}, Fails |-> FALSE,
           Errors |-> {"error", "leader"}, Asked |-> {}, Losing |-> {}, MaxNow |-> 4]

MetaConf == [cache |-> MetaOf,
             fails |-> [MetaOf EXCEPT !.Fails = TRUE, !.Errors = {"error"}, !.MaxNow = 2],
             ask |-> [MetaOf EXCEPT !.Topics = {"t1"}, !.Slots = {1}, !.Fails = TRUE,
                                    !.Errors = {"error"}, !.Asked = {"t1"}, !.Losing = {"t1"},
                                    !.MaxNow = 2]]

Cache(s) == INSTANCE MetadataCache WITH
    Topics <- MetaConf[s].Topics, Slots <- MetaConf[s].Slots, MaxAgeMs <- 2, Word <- 64,
    TimeoutMs <- 1, Retries <- 1, Fails <- MetaConf[s].Fails, Errors <- MetaConf[s].Errors,
    ExactClock <- FALSE, Intervals <- <<1, 2>>, Asked <- MetaConf[s].Asked,
    Losing <- MetaConf[s].Losing, MaxRounds <- 2, MaxNow <- MetaConf[s].MaxNow

CacheIdle ==
    /\ cache = Absent /\ tmr = Absent /\ now = Absent /\ reqs = Absent /\ fulls = Absent
    /\ leaderless = Absent /\ query = Absent /\ app = Absent

-----------------------------------------------------------------------------
(* Two requests to a new and to an old server, two brokers that go down,   *)
(* and for liveness one request to a server of either kind, and to a       *)
(* bootstrap broker whose node id may never be learned.                    *)
ToFirst == [r1 |-> "b1", r2 |-> "b1"]
BrokerOf == [Brokers |-> {"b1"}, Reqs |-> {"r1", "r2"}, Direct |-> {"r2"}, Blocking |-> {},
             NeedsNew |-> {"r2"}, Ssl |-> TRUE, Sasl |-> TRUE, ApiRequest |-> TRUE,
             Learned |-> TRUE, FirstServer |-> {"new"}, MaxInflight |-> 2, MaxFails |-> 2,
             MaxCorr |-> 8, MaxDrops |-> 1]

BrokerConf == [new |-> BrokerOf,
               old |-> [BrokerOf EXCEPT !.Direct = {}, !.Blocking = {"r1", "r2"},
                                        !.NeedsNew = {}, !.Ssl = FALSE, !.Sasl = FALSE,
                                        !.ApiRequest = FALSE, !.FirstServer = {"old"},
                                        !.MaxFails = 3, !.MaxDrops = 2],
               down |-> [BrokerOf EXCEPT !.Brokers = {"b1", "b2"}, !.Reqs = {}, !.Direct = {},
                                         !.NeedsNew = {}, !.Ssl = FALSE, !.Sasl = FALSE,
                                         !.Learned = FALSE, !.MaxInflight = 1, !.MaxFails = 1,
                                         !.MaxCorr = 2, !.MaxDrops = 2],
               complete |-> [BrokerOf EXCEPT !.Reqs = {"r1"}, !.Direct = {},
                                             !.NeedsNew = {"r1"}, !.Ssl = FALSE,
                                             !.Sasl = FALSE, !.FirstServer = {"new", "old"},
                                             !.MaxInflight = 1, !.MaxFails = 1, !.MaxCorr = 6,
                                             !.MaxDrops = 2],
               bootstrap |-> [BrokerOf EXCEPT !.Reqs = {"r1"}, !.Direct = {}, !.Ssl = FALSE,
                                              !.Sasl = FALSE, !.Learned = FALSE,
                                              !.MaxInflight = 1, !.MaxFails = 1,
                                              !.MaxCorr = 6, !.MaxDrops = 2]]

Connection(s) == INSTANCE BrokerConnection WITH
    Brokers <- BrokerConf[s].Brokers, Reqs <- BrokerConf[s].Reqs, Target <- ToFirst,
    Direct <- BrokerConf[s].Direct, Blocking <- BrokerConf[s].Blocking,
    NeedsNew <- BrokerConf[s].NeedsNew, Ssl <- BrokerConf[s].Ssl, Sasl <- BrokerConf[s].Sasl,
    ApiRequest <- BrokerConf[s].ApiRequest, Learned <- BrokerConf[s].Learned,
    Queryable <- FALSE, FirstServer <- BrokerConf[s].FirstServer,
    MaxInflight <- BrokerConf[s].MaxInflight, MaxRetries <- 1,
    MaxFails <- BrokerConf[s].MaxFails, MaxCorr <- BrokerConf[s].MaxCorr,
    MaxDrops <- BrokerConf[s].MaxDrops, k <- k_broker, srv <- srv_broker, g <- g_broker

ConnectionIdle ==
    /\ k_broker = Absent /\ rq = Absent /\ ops = Absent /\ net = Absent /\ srv_broker = Absent
    /\ g_broker = Absent /\ drops = Absent

-----------------------------------------------------------------------------
(* Three requests over a plain socket, over TLS, with timeouts, and framed *)
(* for authentication.                                                     *)
SockOf == [Tls |-> FALSE, Framed |-> FALSE, MaxPayload |-> 3, Flash |-> {3}, MaxRecord |-> 2,
           Timeouts |-> FALSE]

SockConf == [plain |-> SockOf,
             tls |-> [SockOf EXCEPT !.Tls = TRUE, !.MaxRecord = 4],
             timeouts |-> [SockOf EXCEPT !.Tls = TRUE, !.MaxPayload = 2, !.MaxRecord = 3,
                                         !.Timeouts = TRUE],
             frames |-> [SockOf EXCEPT !.Tls = TRUE, !.Framed = TRUE, !.Flash = {},
                                       !.MaxRecord = 5],
             answer |-> [SockOf EXCEPT !.Tls = TRUE, !.Flash = {}, !.MaxRecord = 5]]

Socket(s) == INSTANCE Transport WITH
    Tls <- SockConf[s].Tls, Framed <- SockConf[s].Framed, ReqLen <- <<3, 2, 3>>,
    Payload <- <<2, 0, 3>>, Hdr <- 2, MaxPayload <- SockConf[s].MaxPayload,
    Flash <- SockConf[s].Flash, SockBuf <- 2, MaxRecord <- SockConf[s].MaxRecord,
    MaxInflight <- 2, Timeouts <- SockConf[s].Timeouts, out <- out_sock, srv <- srv_sock

SocketIdle ==
    /\ pc = Absent /\ pollout = Absent /\ outev = Absent /\ out_sock = Absent /\ req = Absent
    /\ kout = Absent /\ sslw = Absent /\ badretry = Absent /\ srv_sock = Absent /\ todo = Absent
    /\ kin = Absent /\ ssl = Absent /\ rbuf = Absent /\ frames = Absent /\ down = Absent

-----------------------------------------------------------------------------
(* Every mechanism with and without user and password, against servers     *)
(* that answer well and badly.                                             *)
Missing == <<"none">>
Mechanisms == {"GSSAPI", "PLAIN", "SCRAM-SHA-256", "SCRAM-SHA-0", "OTHER"}
Auth == INSTANCE Sasl WITH
    Confs <- [mech : Mechanisms, user : {<<"u", "s">>, Missing}, pw : {<<"pw1">>, Missing}, kinit : {"none", "bad"}],
    Built <- {"cyrus", "scram"}, Features <- {{}, {"GSSAPI", "HANDSHAKE"}},
    ServerPws <- {<<"pw1">>, <<"pw2">>}, Counts <- {2, 7}, Salts <- {0, 4, 6},
    Firsts <- {"good", "nonce", "same", "salt", "blank", "number", "no-r", "no-s", "no-i", "ext"},
    Finals <- {"good", "bad", "both", "none"}, Steps <- {"OK", "CONTINUE", "INTERACT", "FAIL"},
    IntBits <- 4, MaxIter <- 5, MaxSteps <- 4, st <- st_auth

AuthIdle ==
    /\ conf = Absent /\ provider = Absent /\ conn = Absent /\ st_auth = Absent /\ sasl = Absent
    /\ toserver = Absent /\ toclient = Absent /\ server = Absent /\ heap = Absent /\ seen = Absent
    /\ fault = Absent

-----------------------------------------------------------------------------
DeliveryInit == \E s \in DOMAIN ProdConf \cap Scenarios : scenario = s /\ Delivery(s)!Init
DeliveryNext == \E s \in DOMAIN ProdConf : scenario = s /\ Delivery(s)!Next

QuotaInit == \E s \in DOMAIN QuotaConf \cap Scenarios : scenario = s /\ Quota(s)!Init
QuotaNext == \E s \in DOMAIN QuotaConf : scenario = s /\ Quota(s)!Next

TopicInit == \E s \in DOMAIN TopicConf \cap Scenarios : scenario = s /\ Topic(s)!Init
TopicNext == \E s \in DOMAIN TopicConf : scenario = s /\ Topic(s)!Next

CacheInit == \E s \in DOMAIN MetaConf \cap Scenarios : scenario = s /\ Cache(s)!Init
CacheNext == \E s \in DOMAIN MetaConf : scenario = s /\ Cache(s)!Next

ConnectionInit == \E s \in DOMAIN BrokerConf \cap Scenarios : scenario = s /\ Connection(s)!Init
ConnectionNext == \E s \in DOMAIN BrokerConf : scenario = s /\ Connection(s)!Next

SocketInit == \E s \in DOMAIN SockConf \cap Scenarios : scenario = s /\ Socket(s)!Init
SocketNext == \E s \in DOMAIN SockConf : scenario = s /\ Socket(s)!Next

AuthInit == "sasl" \in Scenarios /\ scenario = "sasl" /\ Auth!Init
AuthNext == scenario = "sasl" /\ Auth!Next

\* One component starts, the others are not there.
Init ==
    \/ DeliveryInit /\ QuotaIdle /\ TopicIdle /\ CacheIdle /\ ConnectionIdle /\ SocketIdle /\
       AuthIdle
    \/ QuotaInit /\ DeliveryIdle /\ TopicIdle /\ CacheIdle /\ ConnectionIdle /\ SocketIdle /\
       AuthIdle
    \/ TopicInit /\ DeliveryIdle /\ QuotaIdle /\ CacheIdle /\ ConnectionIdle /\ SocketIdle /\
       AuthIdle
    \/ CacheInit /\ DeliveryIdle /\ QuotaIdle /\ TopicIdle /\ ConnectionIdle /\ SocketIdle /\
       AuthIdle
    \/ ConnectionInit /\ DeliveryIdle /\ QuotaIdle /\ TopicIdle /\ CacheIdle /\ SocketIdle /\
       AuthIdle
    \/ SocketInit /\ DeliveryIdle /\ QuotaIdle /\ TopicIdle /\ CacheIdle /\ ConnectionIdle /\
       AuthIdle
    \/ AuthInit /\ DeliveryIdle /\ QuotaIdle /\ TopicIdle /\ CacheIdle /\ ConnectionIdle /\
       SocketIdle

Next ==
    /\ UNCHANGED scenario
    /\ \/ DeliveryNext /\ UNCHANGED <<quota, topic, meta, broker, sock, auth>>
       \/ QuotaNext /\ UNCHANGED <<prod, topic, meta, broker, sock, auth>>
       \/ TopicNext /\ UNCHANGED <<prod, quota, meta, broker, sock, auth>>
       \/ CacheNext /\ UNCHANGED <<prod, quota, topic, broker, sock, auth>>
       \/ ConnectionNext /\ UNCHANGED <<prod, quota, topic, meta, sock, auth>>
       \/ SocketNext /\ UNCHANGED <<prod, quota, topic, meta, broker, auth>>
       \/ AuthNext /\ UNCHANGED <<prod, quota, topic, meta, broker, sock>>

Spec == Init /\ [][Next]_vars

-----------------------------------------------------------------------------
(* Fairness, of the scenarios that are checked for liveness.               *)

\* Every thread of the library and of the cluster goes on, and what the partition waits for
\* passes: a batch is not held for more messages, nor a message in backoff, for ever.
DeliveryFairness ==
    /\ WF_prod(scenario = "report" /\ Delivery("report")!BackoffEnds)
    /\ WF_prod(scenario = "report" /\ Delivery("report")!TopicScan)
    /\ WF_prod(scenario = "report" /\ Delivery("report")!Learn)
    /\ WF_prod(scenario = "report" /\ Delivery("report")!Leave)
    /\ WF_prod(scenario = "report" /\ Delivery("report")!Join)
    /\ \A b \in {"b1", "b2"} :
        /\ WF_prod(scenario = "report" /\ Delivery("report")!Send(b))
        /\ WF_prod(scenario = "report" /\ Delivery("report")!Reply(b))
        /\ WF_prod(scenario = "report" /\ Delivery("report")!Connect(b))
        /\ WF_prod(scenario = "report" /\ \E err \in {"none", "not_leader"} : Delivery("report")!Process(b, err))
        /\ WF_prod(scenario = "report" /\ Delivery("report")!ServeAll(b))

\* Every thread goes on: producers, the application's polling, brokers and the main thread.
QuotaFairness ==
    \A s \in {"full", "brim", "near"} :
        /\ \A t \in {"t1", "t2"} : WF_quota(scenario = s /\ Quota(s)!Produce(t))
        /\ WF_quota(scenario = s /\ Quota(s)!Broker)
        /\ WF_quota(scenario = s /\ Quota(s)!Metadata)
        /\ WF_quota(scenario = s /\ Quota(s)!Purge)
        /\ WF_quota(scenario = s /\ Quota(s)!Serve("p1"))

\* Every turn of a broker thread serves its ops, its socket, its retry queue and its timeouts;
\* the server accepts connections and answers what it is asked (what goes wrong is bounded by
\* MaxDrops); the thread that waits for a reply serves its queue.
ConnectionFairness ==
    \A s \in {"complete", "bootstrap"} :
        /\ WF_broker(scenario = s /\ Connection(s)!Advance("b1"))
        /\ WF_broker(scenario = s /\ Connection(s)!Send("b1", TRUE))
        /\ WF_broker(scenario = s /\ Connection(s)!Recv("b1", TRUE))
        /\ WF_broker(scenario = s /\ Connection(s)!OldCloses("b1"))
        /\ WF_broker(scenario = s /\ Connection(s)!OpServe("b1"))
        /\ WF_broker(scenario = s /\ Connection(s)!Move("b1"))
        /\ WF_broker(scenario = s /\ Connection(s)!RetryExpire("b1"))
        /\ WF_broker(scenario = s /\ Connection(s)!HandleReply("r1"))

\* The broker thread runs on, the server reads and writes on, and every request is queued some
\* time.
SocketFairness ==
    /\ WF_sock(scenario = "answer" /\ Socket("answer")!Thread)
    /\ WF_sock(scenario = "answer" /\ Socket("answer")!ServerReads)
    /\ WF_sock(scenario = "answer" /\ Socket("answer")!ServerWrites)
    /\ \A r \in 1 .. 3 : WF_sock(scenario = "answer" /\ Socket("answer")!BufEnq(r))

LiveSpec == Spec /\ DeliveryFairness /\ QuotaFairness /\ ConnectionFairness /\ SocketFairness

-----------------------------------------------------------------------------
(* Properties.                                                             *)

\* Every produced message is in one queue or one request, or has been reported to the
\* application, and never two of these: no failure of requests, connections or leaders loses a
\* message or reports one twice, nor sends one more often than its retries allow; and when
\* acknowledgements are asked for, one reported as delivered is in the log at the offset its report
\* gives (rd_kafka_handle_Produce, rd_kafka_toppar_retry_msgq).
OneReport ==
    \A s \in DOMAIN ProdConf : scenario = s =>
        /\ Delivery(s)!OneReport
        /\ ProdConf[s].Acks => Delivery(s)!AckedAtOffset /\ Delivery(s)!CopiesBounded

\* The account is exact, the messages accepted and not yet destroyed with their sizes, and within
\* its limits, whatever calls fail half way (rd_kafka_curr_msgs_add, rd_kafka_curr_msgs_sub); and
\* when rd_kafka_flush returns success all messages accepted before it have had their report, one polling
\* thread in the order they were made.
AccountExact ==
    \A s \in DOMAIN QuotaConf : scenario = s =>
        Quota(s)!AccountExact /\ Quota(s)!FlushComplete /\ Quota(s)!ReportOrder

\* A partition is in the list of at most one broker thread, the one it calls its leader, and every
\* produced message in exactly one place, waiting, with the leader, or reported as failed, until
\* the topic goes with its handle and purges what waits: leaders that move, and joins and leaves
\* that cross, never let two threads serve a partition, lose its messages or leave a migration
\* with nobody to go on with it.
OneServer ==
    \A s \in DOMAIN TopicConf : scenario = s =>
        Topic(s)!OnOneList /\ Topic(s)!OneFate /\ Topic(s)!JoinHasNext /\ Topic(s)!MigrationUnderWay

\* A topic has one cache entry, and a full request is counted exactly while it is under way: the
\* periodic refresh of all topics is never suppressed by a request that is gone.
FullCounted == \A s \in DOMAIN MetaConf : scenario = s => Cache(s)!OneEntry /\ Cache(s)!FullCounted

\* A request is in exactly one queue from the moment it is handed over until its callback is due,
\* and in none after that, and its answer is the one to its last attempt: teardown, timeout, retry
\* and answer neither lose a request nor call it back twice nor with another's answer, and the
\* count of blocking requests that holds up the others is that of those in flight.  No assertion on a
\* request's state fails but the one a setup request that times out runs into.
OneAnswer ==
    \A s \in DOMAIN BrokerConf : scenario = s =>
        /\ Connection(s)!OnePlace /\ Connection(s)!FreshAnswer /\ Connection(s)!BlockingCounted
        /\ Connection(s)!AbortsOnlyInScan
        /\ s = "down" => Connection(s)!DownReported

\* No request of the client reaches the server on a connection before its API versions are
\* settled and, with SASL, before it is authenticated, and none into the middle of another.
HeldBack == \A s \in DOMAIN BrokerConf : scenario = s => Connection(s)!HeldBack /\ Connection(s)!WholeWrites

\* What the server reads is whole requests, one after the other, however the writes are cut, and
\* every answer is received as the server wrote it, in the order of the requests on the wire,
\* however the reads are cut.
StreamsWhole == \A s \in DOMAIN SockConf : scenario = s => Socket(s)!WritesWhole /\ Socket(s)!ReadsWhole

\* A connection that came up did so with a server that holds the client's password, and with
\* SCRAM the two agree on every message of the exchange and the nonce of the server is one that
\* extends the client's; whatever way an exchange ends, all that it allocated is freed.  The user
\* name has no comma and no equals sign: with one the client fails an assertion while it escapes it.
BothProven == scenario = "sasl" => Auth!BothProven /\ Auth!Accepted /\ Auth!NoFault /\ Auth!NothingLeft

\* Waiting for room in rd_kafka_curr_msgs_add.
Waiting(t) == th[t].pc \in {"wait", "woken", "rdlock"}

\* Every produced message is in the end reported, delivered or failed, whatever fails on the way:
\* no request, connection or leader that is gone leaves one behind.  And every producer that waits
\* because the count of messages, or their size, is exactly at its limit goes on when reports make
\* room: rd_kafka_curr_msgs_sub wakes it whichever thread destroys the message.  (Of a size that is
\* near its limit this is false, see EnoughSpaceWakes.)
Reported ==
    <>[](/\ scenario = "report" => \A m \in 1 .. produced : q_prod.report[m] # {}
         /\ scenario \in {"full", "brim"} => \A t \in {"t1", "t2"} : ~Waiting(t))

\* A producer that waits for room is woken when there is enough, as rd_kafka_curr_msgs_add
\* ("blocks until enough space is available") and rd_kafka_curr_msgs_sub ("broadcast a wakeup on
\* the condvar for any waiting & blocking threads") say.
EnoughSpaceWakes == <>[](scenario = "near" => \A t \in {"t1", "t2"} : ~Waiting(t))

\* Every request to a broker whose node id is known or is learned gets its final callback, unless
\* the process ends on the way: the timeout of a setup request in the middle of
\* rd_kafka_broker_bufq_timeout_scan fails an assertion.  (On a bootstrap broker that stays unknown
\* the retry queue is not served, and a request in it may go round between timeout and retry for
\* ever.)  And every request on a connection is written and its answer received: no byte waits
\* for ever in the socket, in the SSL object or in a queue while the thread polls.
Answered ==
    <>[](/\ scenario \in {"complete", "bootstrap"} =>
                \/ rq["r1"].at \in {"app", "done"}
                \/ g_broker.aborted = "scan"
                \/ ~k_broker["b1"].known
         /\ scenario = "answer" => Len(frames) = 3)
=============================================================================
