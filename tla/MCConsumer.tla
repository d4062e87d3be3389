----------------------------- MODULE MCConsumer ------------------------------
(***************************************************************************)
(* The consumer side of the client for TLC: the group and its coordinator, *)
(* the assignment strategies, the partition, the offset store, the message *)
(* sets and the calls that serve the application.  A behaviour is of one   *)
(* component in one configuration, which scenario names; the variables of  *)
(* the others are Absent.                                                    *)
(***************************************************************************)
EXTENDS Integers, Sequences, FiniteSets, SequencesExt, Bags, TLC

CONSTANTS Scenarios,    \* the scenarios of this run
          Absent          \* no value

VARIABLE scenario   \* the component and the configuration this behaviour is of

\* Toppar
VARIABLES p_toppar, version, snd, ops, b_toppar, fetchq, hand, ctl, log_toppar, used_toppar,
          pos
\* OffsetStore
VARIABLES m_store, file, group_store, reqs, replies, answer, done, used_store
\* ConsumerGroup
VARIABLES g_cgrp, tp, app_cgrp, budget, failed
\* Coordinator
VARIABLES c_coord, queries, up, known, real, faults, stale
\* Assignor
VARIABLES phase, text, rest, assignors, protocol, group_assign, members, metadata, ti,
          eligible, at, part, next, states, got_assign, fault
\* MessageSet
VARIABLES xmit, made_msgset, log_msgset, end, truth, gone, fetch_msgset, start, got_msgset,
          errs, batch, aborted, sparse
\* Dispatch
VARIABLES q_disp, made_disp, ver, fetch_disp, call, yield, held, freed, drs, app_disp,
          throttle, told, expect, given, late, overrun, lost, abort

toppar == <<p_toppar, version, snd, ops, b_toppar, fetchq, hand, ctl, log_toppar, used_toppar,
            pos>>
store == <<m_store, file, group_store, reqs, replies, answer, done, used_store>>
cgrp == <<g_cgrp, tp, app_cgrp, budget, failed>>
coord == <<c_coord, queries, up, known, real, faults, stale>>
assign == <<phase, text, rest, assignors, protocol, group_assign, members, metadata, ti,
            eligible, at, part, next, states, got_assign, fault>>
msgset == <<xmit, made_msgset, log_msgset, end, truth, gone, fetch_msgset, start, got_msgset,
            errs, batch, aborted, sparse>>
disp == <<q_disp, made_disp, ver, fetch_disp, call, yield, held, freed, drs, app_disp,
          throttle, told, expect, given, late, overrun, lost, abort>>
vars == <<scenario, toppar, store, cgrp, coord, assign, msgset, disp>>

-----------------------------------------------------------------------------
(* One partition: two seeks and a restart, pauses, every start offset, and *)
(* a log whose oldest messages are removed.                                *)
Anywhere(hi) == {-2, -1, -2001, -1001, 0, hi + 1}
TopparOf == [Hi |-> 2, Starts |-> {0, 1}, Seeks |-> {0, 1}, Stops |-> TRUE, Pauses |-> "no",
             Loses |-> {}, MaxVersion |-> 5, MaxStarts |-> 2, MaxFails |-> 1, MaxMoves |-> 1]

TopparConf == [seek |-> TopparOf,
               pause |-> [TopparOf EXCEPT !.Seeks = {}, !.Stops = FALSE, !.Pauses = "paired",
                                          !.MaxVersion = 4, !.MaxStarts = 1],
               overtake |-> [TopparOf EXCEPT !.Starts = {-2}, !.Seeks = {-2, 1}, !.Pauses = "any",
                                             !.MaxVersion = 4, !.MaxStarts = 1, !.MaxFails = 0],
               lookup |-> [TopparOf EXCEPT !.Hi = 3, !.Starts = Anywhere(3), !.Seeks = {},
                                           !.Stops = FALSE, !.MaxVersion = 2, !.MaxStarts = 1,
                                           !.MaxFails = 2, !.MaxMoves = 0],
               retention |-> [TopparOf EXCEPT !.Starts = Anywhere(2), !.Seeks = {},
                                              !.Stops = FALSE, !.Loses = {"old"},
                                              !.MaxVersion = 2, !.MaxStarts = 1,
                                              !.MaxFails = 2, !.MaxMoves = 0],
               consume |-> [TopparOf EXCEPT !.Starts = {-2}, !.Seeks = {}, !.Stops = FALSE,
                                            !.Pauses = "paired", !.MaxVersion = 4,
                                            !.MaxStarts = 1]]

Partition(s) == INSTANCE Toppar WITH
    None <- Absent, Hi <- TopparConf[s].Hi, AutoReset <- -2, Starts <- TopparConf[s].Starts,
    Seeks <- TopparConf[s].Seeks, Stops <- TopparConf[s].Stops, Pauses <- TopparConf[s].Pauses,
    Prompt <- TRUE, Loses <- TopparConf[s].Loses, QueuedMin <- 2,
    MaxVersion <- TopparConf[s].MaxVersion, MaxStarts <- TopparConf[s].MaxStarts,
    MaxFails <- TopparConf[s].MaxFails, MaxMoves <- TopparConf[s].MaxMoves, p <- p_toppar,
    b <- b_toppar, log <- log_toppar, used <- used_toppar

PartitionIdle ==
    /\ p_toppar = Absent /\ version = Absent /\ snd = Absent /\ ops = Absent /\ b_toppar = Absent
    /\ fetchq = Absent /\ hand = Absent /\ ctl = Absent /\ log_toppar = Absent /\ used_toppar = Absent
    /\ pos = Absent

-----------------------------------------------------------------------------
(* Offsets kept in a file, synced by a timer, and offsets kept by the      *)
(* broker.                                                                 *)
StoreOf == [Method |-> "file", SyncInterval |-> "timed", Hi |-> 4, MaxFails |-> 3,
            MaxStarts |-> 4, MaxCrashes |-> 3]

StoreConf == [file |-> StoreOf,
              broker |-> [StoreOf EXCEPT !.Method = "broker", !.SyncInterval = "never",
                                         !.Hi = 2, !.MaxFails = 2, !.MaxStarts = 3,
                                         !.MaxCrashes = 1]]

Store(s) == INSTANCE OffsetStore WITH
    Method <- StoreConf[s].Method, SyncInterval <- StoreConf[s].SyncInterval,
    Hi <- StoreConf[s].Hi, AutoStore <- FALSE, OpenFails <- FALSE,
    MaxFails <- StoreConf[s].MaxFails, MaxStarts <- StoreConf[s].MaxStarts,
    MaxCrashes <- StoreConf[s].MaxCrashes, m <- m_store, group <- group_store,
    used <- used_store

StoreIdle ==
    /\ m_store = Absent /\ file = Absent /\ group_store = Absent /\ reqs = Absent /\ replies = Absent
    /\ answer = Absent /\ done = Absent /\ used_store = Absent

-----------------------------------------------------------------------------
(* The group member: a rebalance callback and a commit, two rebalances,    *)
(* two partitions without a callback, a close.                             *)
Events(joins, commits, losses, changes, errors, timers) ==
    [join |-> joins, commit |-> commits, coord |-> losses, change |-> changes,
     consume |-> 1, error |-> errors, timer |-> timers]
CgrpOf == [Part |-> {1}, Assignments |-> {{1}}, Delegate |-> TRUE,
           Budget |-> Events(1, 1, 1, 1, 1, 0)]

CgrpConf == [member |-> CgrpOf,
             rebalance |-> [CgrpOf EXCEPT !.Budget = Events(2, 0, 0, 2, 1, 0)],
             auto |-> [CgrpOf EXCEPT !.Part = {1, 2}, !.Assignments = {{1}, {1, 2}},
                                     !.Delegate = FALSE, !.Budget = Events(1, 0, 1, 1, 0, 1)],
             close |-> [CgrpOf EXCEPT !.Budget = Events(1, 1, 1, 1, 0, 0)]]

Group(s) == INSTANCE ConsumerGroup WITH
    Part <- CgrpConf[s].Part, Assignments <- CgrpConf[s].Assignments, NoAsg <- Absent,
    AutoCommit <- TRUE, Delegate <- CgrpConf[s].Delegate, Budget <- CgrpConf[s].Budget,
    g <- g_cgrp, app <- app_cgrp

GroupIdle ==
    /\ g_cgrp = Absent /\ tp = Absent /\ app_cgrp = Absent /\ budget = Absent /\ failed = Absent

-----------------------------------------------------------------------------
(* The group coordinator: two brokers, two queries, three faults.          *)
Link == INSTANCE Coordinator WITH
    None <- Absent, Broker <- {"b1", "b2"}, Internal <- "internal", MaxQuery <- 2, MaxFault <- 2, c <- c_coord

LinkIdle ==
    /\ c_coord = Absent /\ queries = Absent /\ up = Absent /\ known = Absent /\ real = Absent
    /\ faults = Absent /\ stale = Absent

-----------------------------------------------------------------------------
(* The group leader: every subscription of three members to two topics by  *)
(* range, also with one of them in the blacklist, equal and different      *)
(* subscriptions by roundrobin, and lists of strategy names.               *)
\* Subscriptions by name, in the order of the topics.
Lists == {<<>>, <<1>>, <<2>>, <<1, 2>>}
ByName == {[i \in DOMAIN l |-> [regex |-> FALSE, match |-> {l[i]}]] : l \in Lists}
Alike == {[m \in 1 .. 3 |-> l] : l \in ByName}

\* One to three names, commas and blanks between them.
Word == {"range", "roundrobin", "other"}
Comma == {<<",">>, <<",", " ">>, <<",", " ", " ">>}
Short == {<<w>> : w \in Word} \cup {<<v>> \o c \o <<w>> : v \in Word, c \in Comma, w \in Word}
Texts == Short \cup {l \o c \o <<w>> : l \in Short, c \in Comma, w \in Word} \cup {<<" ">> \o l : l \in Short}
AssignOf == [Members |-> {1, 2, 3}, Groups |-> [1 .. 3 -> ByName], Counts |-> {0, 1, 4, 5},
             Blacklist |-> {}, Texts |-> {<<"range">>}]

AssignConf == [range |-> AssignOf,
               robin |-> [AssignOf EXCEPT !.Groups = Alike, !.Counts = {0, 1, 2, 3, 4},
                                          !.Texts = {<<"roundrobin">>}],
               mixed |-> [AssignOf EXCEPT !.Counts = {1, 2, 3}, !.Texts = {<<"roundrobin">>}],
               blacklist |-> [AssignOf EXCEPT !.Counts = {1, 4}, !.Blacklist = {2}],
               strategies |-> [AssignOf EXCEPT !.Members = {1},
                                               !.Groups = {<<l>> : l \in {<<>>, <<[regex |-> FALSE, match |-> {1}]>>}},
                                               !.Counts = {1}, !.Texts = Texts]]

Leader(s) == INSTANCE Assignor WITH
    Members <- AssignConf[s].Members, Groups <- AssignConf[s].Groups,
    Counts <- AssignConf[s].Counts, Texts <- AssignConf[s].Texts, Blacklist <- AssignConf[s].Blacklist,
    group <- group_assign, got <- got_assign

LeaderIdle ==
    /\ phase = Absent /\ text = Absent /\ rest = Absent /\ assignors = Absent /\ protocol = Absent
    /\ group_assign = Absent /\ members = Absent /\ metadata = Absent /\ ti = Absent /\ eligible = Absent
    /\ at = Absent /\ part = Absent /\ next = Absent /\ states = Absent /\ got_assign = Absent
    /\ fault = Absent

-----------------------------------------------------------------------------
(* The three message formats, with and without compression.                *)
MsgsetOf == [Features |-> {"MSGVER1", "MSGVER2"}, MaxMsgSize |-> 191, BatchMax |-> 2,
             Times |-> {1, 3}, Starts |-> {0, 1}, FetchMin |-> 80, FetchMax |-> 160,
             LogAppend |-> FALSE, MayControl |-> TRUE, MayCompact |-> TRUE, MaySpoil |-> FALSE]

MsgsetConf == [v2 |-> MsgsetOf,
               v1 |-> [MsgsetOf EXCEPT !.Features = {"MSGVER1"}, !.MaxMsgSize = 1000,
                                       !.BatchMax = 3, !.Times = {1, 2}, !.Starts = {0, 2},
                                       !.FetchMin = 40, !.FetchMax = 400, !.LogAppend = TRUE,
                                       !.MayControl = FALSE],
               v0 |-> [MsgsetOf EXCEPT !.Features = {}, !.MaxMsgSize = 1000, !.BatchMax = 3,
                                       !.Times = {1}, !.Starts = {0, 2}, !.FetchMin = 60,
                                       !.FetchMax = 400, !.MayControl = FALSE,
                                       !.MaySpoil = TRUE]]

Sets(s) == INSTANCE MessageSet WITH
    Features <- MsgsetConf[s].Features, Compression <- TRUE,
    MaxMsgSize <- MsgsetConf[s].MaxMsgSize, Header <- 50, BatchMax <- MsgsetConf[s].BatchMax,
    Sizes <- {10, 60}, Times <- MsgsetConf[s].Times, NMsgs <- 3, Squeeze <- {-1, 30},
    Starts <- MsgsetConf[s].Starts, FetchMin <- MsgsetConf[s].FetchMin,
    FetchMax <- MsgsetConf[s].FetchMax, LogAppend <- MsgsetConf[s].LogAppend,
    MayControl <- MsgsetConf[s].MayControl, MayCompact <- MsgsetConf[s].MayCompact,
    MaySpoil <- MsgsetConf[s].MaySpoil, CheckCrcs <- TRUE, made <- made_msgset,
    log <- log_msgset, fetch <- fetch_msgset, got <- got_msgset

SetsIdle ==
    /\ xmit = Absent /\ made_msgset = Absent /\ log_msgset = Absent /\ end = Absent /\ truth = Absent
    /\ gone = Absent /\ fetch_msgset = Absent /\ start = Absent /\ got_msgset = Absent /\ errs = Absent
    /\ batch = Absent /\ aborted = Absent /\ sparse = Absent

-----------------------------------------------------------------------------
(* The calls that serve the application's queue.                           *)
DispOf == [Kinds |-> {"FETCH", "CERR", "NOCB", "STATS"}, Apis |-> {"consume", "batch"},
           MaxOps |-> 4, MaxSeeks |-> 1, CallbackMax |-> 0, ConsumeCb |-> FALSE,
           MayYield |-> FALSE, Brokers |-> {}]

DispConf == [consumecalls |-> DispOf,
             yield |-> [DispOf EXCEPT !.Kinds = {"FETCH", "STATS"},
                                      !.Apis = {"consume", "callback", "poll"}, !.MaxOps = 3,
                                      !.MayYield = TRUE],
             batchyield |-> [DispOf EXCEPT !.Kinds = {"FETCH", "STATS"}, !.Apis = {"batch"},
                                           !.MayYield = TRUE],
             poll |-> [DispOf EXCEPT !.Kinds = {"DR", "FETCH", "TERM", "ADMIN"},
                                     !.Apis = {"poll"}, !.MaxSeeks = 0, !.ConsumeCb = TRUE,
                                     !.MayYield = TRUE],
             event |-> [DispOf EXCEPT !.Kinds = {"DR", "FETCH", "THROTTLE"},
                                      !.Apis = {"event", "background"}, !.MaxSeeks = 0,
                                      !.ConsumeCb = TRUE, !.Brokers = {"b1"}],
             throttle |-> [DispOf EXCEPT !.Kinds = {"THROTTLE", "ERR"}, !.Apis = {"poll"},
                                         !.MaxOps = 5, !.MaxSeeks = 0, !.MayYield = TRUE,
                                         !.Brokers = {"b1"}],
             callback |-> [DispOf EXCEPT !.Kinds = {"FETCH", "CERR"}, !.Apis = {"callback"},
                                         !.MaxOps = 3, !.CallbackMax = 1, !.MayYield = TRUE]]

Calls(s) == INSTANCE Dispatch WITH
    Kinds <- DispConf[s].Kinds, Apis <- DispConf[s].Apis, MaxOps <- DispConf[s].MaxOps,
    MaxSeeks <- DispConf[s].MaxSeeks, Offsets <- {0, 2}, BatchSize <- 2,
    CallbackMax <- DispConf[s].CallbackMax, ArraySize <- 2, ConsumeCb <- DispConf[s].ConsumeCb,
    Grouped <- TRUE, MayYield <- DispConf[s].MayYield, Brokers <- DispConf[s].Brokers,
    q <- q_disp, made <- made_disp, fetch <- fetch_disp, app <- app_disp

CallsIdle ==
    /\ q_disp = Absent /\ made_disp = Absent /\ ver = Absent /\ fetch_disp = Absent /\ call = Absent
    /\ yield = Absent /\ held = Absent /\ freed = Absent /\ drs = Absent /\ app_disp = Absent
    /\ throttle = Absent /\ told = Absent /\ expect = Absent /\ given = Absent /\ late = Absent
    /\ overrun = Absent /\ lost = Absent /\ abort = Absent

-----------------------------------------------------------------------------
PartitionInit == \E s \in DOMAIN TopparConf \cap Scenarios : scenario = s /\ Partition(s)!Init
PartitionNext == \E s \in DOMAIN TopparConf : scenario = s /\ Partition(s)!Next

StoreInit == \E s \in DOMAIN StoreConf \cap Scenarios : scenario = s /\ Store(s)!Init
StoreNext == \E s \in DOMAIN StoreConf : scenario = s /\ Store(s)!Next

GroupInit == \E s \in DOMAIN CgrpConf \cap Scenarios : scenario = s /\ Group(s)!Init
GroupNext == \E s \in DOMAIN CgrpConf : scenario = s /\ Group(s)!Next

LinkInit == "coordinator" \in Scenarios /\ scenario = "coordinator" /\ Link!Init
LinkNext == scenario = "coordinator" /\ Link!Next

LeaderInit == \E s \in DOMAIN AssignConf \cap Scenarios : scenario = s /\ Leader(s)!Init
LeaderNext == \E s \in DOMAIN AssignConf : scenario = s /\ Leader(s)!Next

SetsInit == \E s \in DOMAIN MsgsetConf \cap Scenarios : scenario = s /\ Sets(s)!Init
SetsNext == \E s \in DOMAIN MsgsetConf : scenario = s /\ Sets(s)!Next

CallsInit == \E s \in DOMAIN DispConf \cap Scenarios : scenario = s /\ Calls(s)!Init
CallsNext == \E s \in DOMAIN DispConf : scenario = s /\ Calls(s)!Next

\* One component starts, the others are not there.
Init ==
    \/ PartitionInit /\ StoreIdle /\ GroupIdle /\ LinkIdle /\ LeaderIdle /\ SetsIdle /\
       CallsIdle
    \/ StoreInit /\ PartitionIdle /\ GroupIdle /\ LinkIdle /\ LeaderIdle /\ SetsIdle /\
       CallsIdle
    \/ GroupInit /\ PartitionIdle /\ StoreIdle /\ LinkIdle /\ LeaderIdle /\ SetsIdle /\
       CallsIdle
    \/ LinkInit /\ PartitionIdle /\ StoreIdle /\ GroupIdle /\ LeaderIdle /\ SetsIdle /\
       CallsIdle
    \/ LeaderInit /\ PartitionIdle /\ StoreIdle /\ GroupIdle /\ LinkIdle /\ SetsIdle /\
       CallsIdle
    \/ SetsInit /\ PartitionIdle /\ StoreIdle /\ GroupIdle /\ LinkIdle /\ LeaderIdle /\
       CallsIdle
    \/ CallsInit /\ PartitionIdle /\ StoreIdle /\ GroupIdle /\ LinkIdle /\ LeaderIdle /\
       SetsIdle

Next ==
    /\ UNCHANGED scenario
    /\ \/ PartitionNext /\ UNCHANGED <<store, cgrp, coord, assign, msgset, disp>>
       \/ StoreNext /\ UNCHANGED <<toppar, cgrp, coord, assign, msgset, disp>>
       \/ GroupNext /\ UNCHANGED <<toppar, store, coord, assign, msgset, disp>>
       \/ LinkNext /\ UNCHANGED <<toppar, store, cgrp, assign, msgset, disp>>
       \/ LeaderNext /\ UNCHANGED <<toppar, store, cgrp, coord, msgset, disp>>
       \/ SetsNext /\ UNCHANGED <<toppar, store, cgrp, coord, assign, disp>>
       \/ CallsNext /\ UNCHANGED <<toppar, store, cgrp, coord, assign, msgset>>

Spec == Init /\ [][Next]_vars

-----------------------------------------------------------------------------
(* Fairness, of the scenarios that are checked for liveness.               *)

\* Threads keep running, requests are answered and leaders elected.
Serving == {"consume", "retention"}
PartitionFairness ==
    /\ \A s \in Serving, x \in {"ctl", "app"} :
            WF_toppar(scenario = s /\ Partition(s)!Enqueue(x))
    /\ \A s \in Serving :
        /\ WF_toppar(scenario = s /\ Partition(s)!Serve)
        /\ WF_toppar(scenario = s /\ Partition(s)!QueryTimer)
        /\ WF_toppar(scenario = s /\ Partition(s)!Broker)
        /\ WF_toppar(scenario = s /\ Partition(s)!ConsumerServe)
        /\ WF_toppar(scenario = s /\ Partition(s)!BackoffOver)
        /\ WF_toppar(scenario = s /\ Partition(s)!Leave)
        /\ WF_toppar(scenario = s /\ Partition(s)!Join)
        /\ WF_toppar(scenario = s /\ \E err \in BOOLEAN : Partition(s)!Answer(err))
        /\ WF_toppar(scenario = s /\ Partition(s)!AppPop)
        /\ WF_toppar(scenario = s /\ Partition(s)!AppStore)

\* The main thread keeps serving its queue and its group; every request is answered or times
\* out; an application that closes polls the rebalance ops until the group has terminated; the
\* session timeout passes.
GroupFairness ==
    /\ WF_cgrp(scenario = "close" /\ Group("close")!ServeOp)
    /\ WF_cgrp(scenario = "close" /\ Group("close")!Terminated)
    /\ WF_cgrp(scenario = "close" /\ Group("close")!ServeUp(FALSE, FALSE))
    /\ WF_cgrp(scenario = "close" /\ Group("close")!ServeDown(TRUE))
    /\ WF_cgrp(scenario = "close" /\ \E r \in BagToSet(g_cgrp.reqs) :
                   \E o \in Group("close")!Outcomes(r.type) : Group("close")!Respond(r, o))
    /\ WF_cgrp(scenario = "close" /\ Group("close")!AppRebalance)
    /\ WF_cgrp(scenario = "close" /\ Group("close")!SessionTimeout)

\* The main thread runs, intervals pass, requests are answered, brokers reconnect and handle
\* their ops, and an election ends.
LinkFairness ==
    /\ WF_coord(scenario = "coordinator" /\ Link!Start)
    /\ WF_coord(scenario = "coordinator" /\ Link!CgrpServe(FALSE))
    /\ SF_coord(scenario = "coordinator" /\ Link!CgrpServe(TRUE))
    /\ WF_coord(scenario = "coordinator" /\ \E i \in DOMAIN queries : Link!HandleGroupCoordinator(i))
    /\ WF_coord(scenario = "coordinator" /\ \E i \in DOMAIN queries : Link!Answer(i) /\ UNCHANGED faults)
    /\ \A b \in {"b1", "b2"} :
        /\ WF_coord(scenario = "coordinator" /\ Link!Connect(b))
        /\ WF_coord(scenario = "coordinator" /\ Link!NodeUpdate(b))

\* The application keeps serving the queue.
CallsFairness ==
    /\ WF_disp(scenario = "callback" /\ Calls("callback")!Serve)
    /\ WF_disp(scenario = "callback" /\ Calls("callback")!Begin("callback"))

LiveSpec == Spec /\ PartitionFairness /\ GroupFairness /\ LinkFairness /\ CallsFairness

-----------------------------------------------------------------------------
(* Properties.                                                             *)

\* The application gets the partition's messages in order, none twice and none left out, from
\* the offset its last start or seek asked for, and the end of the partition is reported only
\* when it got them all: whatever a fetch in flight returns, the barrier it is older than hides it,
\* and so do the calls that serve the queue, in which older messages may still wait.  This is so of
\* seeks, stops and restarts without lookups, of paired pauses and of lookups alone; where all of
\* them meet (`overtake`) it is so until the position is displaced: by a lookup answered after a
\* seek, which rd_kafka_toppar_handle_Offset calls outdated and repeats all the same, by the query
\* timer of a lookup that is over, by a resume without a pause, by a pause after a seek, and by
\* a command that overtakes another between its barrier and its enqueue.
DeliversInOrder ==
    [][/\ \A s \in DOMAIN TopparConf : scenario = s =>
              Partition(s)!PopsOwed \/ (s = "overtake" /\ used_toppar.displaced)
       /\ \A s \in {"consumecalls", "yield"} : scenario = s => Calls(s)!GivesExpected]_vars

\* Across stops, starts, crashes and failures no message is skipped: consumption never goes on
\* beyond an offset that was not consumed, because no offset is committed ahead of consumption.
\* Nor does the fetch offset pass a message of the log that the application was not given, however
\* the log is cut into sets, compacted or compressed, until a compressed set of version 1 that was
\* compacted is read: rd_kafka_msgset_reader_postproc counts the messages left in it to find its
\* base, so the offsets it gives, and with them the fetch offset, are too large.
NothingSkipped ==
    /\ \A s \in DOMAIN StoreConf : scenario = s => Store(s)!NothingSkipped
    /\ \A s \in DOMAIN MsgsetConf : scenario = s => Sets(s)!NothingSkipped

\* rkcg_wait_commit_cnt counts every commit that is on its way, whether sent, answered, deferred
\* for want of a coordinator or requeued, once: a member neither waits for a commit that is not
\* there nor goes on while one is.  The same holds of rkcg_wait_unassign_cnt and the fetchers that
\* were told to stop, and of the heartbeat in transit.
CommitsAccounted ==
    \A s \in DOMAIN CgrpConf : scenario = s =>
        Group(s)!CommitsAccounted /\ Group(s)!UnassignsAccounted /\ Group(s)!OneHeartbeat

\* Once the group's queue is empty the partitions that are fetched are those attached to it,
\* and those counted as assigned (a partition that joins a closing group is stopped at once and
\* counted until the revoke), and a started group fetches only what it is assigned.  Of the
\* assertions of rdkafka_cgrp.c only those of lines 2822 and 1393 can fail: when a rebalance and the
\* application both unassign a partition, and when a commit is asked for after the group decided
\* to terminate.
FetchersMatch ==
    \A s \in DOMAIN CgrpConf : scenario = s =>
        Group(s)!FetchersMatch /\ Group(s)!FetchesItsAssignment /\ Group(s)!AssertionsHold

\* When the assignment is made, every partition of a subscribed topic outside the blacklist reaches
\* exactly one member, once, and a member that subscribes to the topic; range hands out runs, and
\* roundrobin, when all subscribe alike, shares that differ by one at most; and the strategies are
\* those the configured list names.  The leader reads beyond its array of members only in
\* rd_kafka_roundrobin_assignor_assign_cb, and only when subscriptions differ.
AssignedOnce ==
    \A s \in DOMAIN AssignConf : scenario = s =>
        /\ Leader(s)!AssignedOnce /\ Leader(s)!RangesEven /\ Leader(s)!Uniform /\ Leader(s)!NoFault
        /\ s = "strategies" => Leader(s)!StrategyRead

\* What the application is given for an offset is the message that was produced there, with its
\* time, none is older than asked for, and offsets only grow: the writer's relative offsets and
\* time differences and the reader's reconstruction of both agree, in every format, whatever the
\* sets' boundaries, and in the newest one the writer keeps to message.max.bytes.  The offset alone
\* is not claimed once a compressed set of version 1 that was compacted has been read.
Faithful ==
    \A s \in DOMAIN MsgsetConf : scenario = s => Sets(s)!Faithful /\ (s = "v2" => Sets(s)!NoAbort)

\* Every op the library enqueued is in exactly one place: on the queue, on the local or the
\* discard queue of a call, with the application, or destroyed once.  No path of the serving
\* calls destroys an op twice, and only rd_kafka_consume_batch_queue loses one, the message after a
\* callback that yielded (rd_kafka_q_serve_rkmessages); the messages of a delivery report are
\* destroyed once, however it is read; and in rd_kafka_consume0, rd_kafka_consume_callback0 and
\* rd_kafka_poll no callback runs after rd_kafka_yield().
OpsAccounted ==
    \A s \in DOMAIN DispConf : scenario = s =>
        /\ Calls(s)!Accounted
        /\ lost # {} => s = "batchyield"
        /\ s \in {"poll", "event"} => Calls(s)!ReportsReleased
        /\ s = "poll" => Calls(s)!NoAbort
        /\ s = "yield" => Calls(s)!YieldReturns
        /\ s = "consumecalls" => Calls(s)!AutoStored
        /\ s = "throttle" => Calls(s)!ThrottleKnown

\* Consumption that was started and is not paused delivers the last message of the log, though
\* requests fail, the leader moves and pauses come and go; and wherever consumption starts, and
\* whatever retention removes under it, the fetcher's position is reset by the policy and reaches
\* the end of the log; and an application that keeps calling is given every op.
ConsumesAll ==
    <>[](/\ scenario = "consume" => p_toppar.paused \/ ctl # "started" \/ p_toppar.app = 2
         /\ scenario = "retention" => ctl # "started" \/ b_toppar.off = log_toppar.hi
         /\ scenario = "callback" => q_disp = <<>> /\ call.local = <<>>)

\* A close of the consumer comes to an end: whatever the group waits for when it is asked to
\* terminate, a rebalance callback, commits, an unassign or its coordinator, ends.  And once
\* nothing changes any more the group reaches its coordinator, unless it is terminated.
GroupSettles ==
    /\ (scenario = "close" /\ app_cgrp.phase = "close") ~> (scenario = "close" /\ app_cgrp.phase = "closed")
    /\ (scenario = "coordinator" /\ <>[](up = {"b1", "b2"}) /\ <>[](real \in {"b1", "b2"})) =>
           <>[](scenario = "coordinator" /\ (c_coord.st = "term" \/ (c_coord.st = "up" /\ c_coord.rkb = real)))
=============================================================================
