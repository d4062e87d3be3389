------------------------------ MODULE Produce -------------------------------
(***************************************************************************)
(* The way of a produced message through a partition of librdkafka: the    *)
(* partition's queue, which any thread fills, the transmit queue of the    *)
(* broker thread that leads it, the requests it builds, sends and waits    *)
(* for, and the delivery report (rdkafka_msg.c, rdkafka_partition.c,       *)
(* rdkafka_broker.c, rdkafka_request.c, rdkafka_msgset_writer.c).          *)
(*                                                                         *)
(* A message is its msgseq.  Time is abstract: "late" is the last message  *)
(* whose message.timeout.ms has passed, "backoff" the messages whose retry *)
(* backoff is in the future; batches wait for more messages, and requests  *)
(* time out, at any time.  A connection is a pipe: the requests sent, with *)
(* the broker's answer once it has one, in order; "live" is set while the  *)
(* request is in rkb_waitresps.                                            *)
(***************************************************************************)
EXTENDS Integers, Sequences, FiniteSets, SequencesExt, FiniteSetsExt

CONSTANTS Brokers, None,
          N,               \* messages to produce
          MaxRetries,      \* message.send.max.retries
          BatchMax,        \* batch.num.messages
          MaxInflight,     \* max.in.flight.requests.per.connection
          Backpressure,    \* queue.buffering.backpressure.threshold
          SocketMaxFails,  \* socket.max.fails: 0 (never) or 1
          Acks,            \* whether request.required.acks is not 0
          Lifo,            \* queuing.strategy=lifo
          MayPause,        \* whether the application pauses the partition
          Expiring,        \* whether message.timeout.ms may pass
          Errors,          \* errors a broker may answer with
          Closes,          \* errors a connection may end with
          Reconnects,      \* whether a broker can be reached again
          MaxFails,        \* bound: errors, timeouts and lost connections
          MaxMoves         \* bound: changes of the partition's leader

VARIABLES q,         \* the partition: queues, retry counts, backoffs and reports
          late,      \* messages up to this one have timed out
          produced,  \* messages produced so far
          paused,    \* RD_KAFKA_TOPPAR_F_APP_PAUSE
          leader, next,  \* rktp_leader, rktp_next_leader
          up,        \* broker threads in state UP
          out,       \* rkb_outbufs: messages of each request
          pipe,      \* the connections
          truth,     \* the cluster's leader of the partition
          log,       \* the cluster's log of the partition
          fails, moves

vars == <<q, late, produced, paused, leader, next, up, out, pipe, truth, log, fails, moves>>

Msgs == 1..N
Refreshes == {"transport", "not_leader", "unknown_part"}
Retries == {"not_enough_replicas", "not_enough_after_append", "timed_out", "timed_out_queue"}

----------------------------------------------------------------------------
(* Message queues.                                                         *)

\* msg_order_cmp: rd_kafka_msg_cmp_msgseq or its lifo form.
Precedes(a, b) == IF Lifo THEN a > b ELSE a < b

\* TAILQ_INSERT_SORTED: before the first message that comes later.
EnqSorted(s, m) ==
    LET later == {i \in DOMAIN s : Precedes(m, s[i])}
    IN  IF later = {} THEN Append(s, m) ELSE InsertAt(s, Min(later), m)

\* rd_kafka_msgq_insert_msgq: the whole of src at the place of its first message.
InsertMsgq(dest, src) ==
    IF src = <<>> THEN dest
    ELSE IF dest = <<>> THEN src
    ELSE IF Precedes(src[1], dest[1]) THEN src \o dest
    ELSE IF Precedes(Last(dest), src[1]) THEN dest \o src
    ELSE LET at == Min({i \in DOMAIN dest : Precedes(src[1], dest[i])})
         IN  SubSeq(dest, 1, at - 1) \o src \o SubSeq(dest, at, Len(dest))

\* rd_kafka_msgq_age_scan: up to the first message that has not timed out.
AgeScan(s) ==
    LET kept == {i \in DOMAIN s : s[i] > late}
    IN  IF kept = {} THEN Len(s) ELSE Min(kept) - 1

\* rd_kafka_dr_msgq.  With an error the offset is left at INVALID (0 here).
Report(p, msgs, err, offset) ==
    [p EXCEPT !.report = [m \in Msgs |-> IF m \in Range(msgs) THEN @[m] \cup {err} ELSE @[m]],
              !.offset = [m \in Msgs |-> IF m \in DOMAIN offset THEN offset[m] ELSE @[m]]]

----------------------------------------------------------------------------
(* The answer to a request, or its failure.                                *)

\* An attempt counts unless the request was rejected for stale metadata or never sent.
IncrRetry(err, sent) == IF err \in Refreshes \ {"transport"} \/ ~sent THEN 0 ELSE 1

\* Mutation: the messages that are retried stay in the request.
RetryMsgqKeep(p, msgs, incr) ==
    LET ok == SelectSeq(msgs, LAMBDA m : p.retries[m] + incr <= MaxRetries)
    IN  [p |-> [p EXCEPT !.msgq = InsertMsgq(@, ok),
                         !.backoff = @ \cup Range(ok),
                         !.retries = [m \in Msgs |-> IF m \in Range(ok) THEN @[m] + incr ELSE @[m]]],
         left |-> msgs]

\* rd_kafka_toppar_retry_msgq: retried messages go back, the others stay in the request.
RetryMsgq(p, msgs, incr) ==
    LET ok == SelectSeq(msgs, LAMBDA m : p.retries[m] + incr <= MaxRetries)
    IN  [p |-> [p EXCEPT !.msgq = InsertMsgq(@, ok),
                         !.backoff = @ \cup Range(ok),
                         !.retries = [m \in Msgs |-> IF m \in Range(ok) THEN @[m] + incr ELSE @[m]]],
         left |-> SelectSeq(msgs, LAMBDA m : p.retries[m] + incr > MaxRetries)]

\* produce.offset.report: the answer's base offset and the place in the request.
Offsets(msgs, base) == [m \in Range(msgs) |-> base + (CHOOSE i \in DOMAIN msgs : msgs[i] = m) - 1]

\* The request failed: what may be retried is, any other error is permanent.
RetryOrFail(p, r) ==
    LET t == IF r.err \in Refreshes \cup Retries
             THEN RetryMsgq(p, r.msgs, IncrRetry(r.err, r.sent))
             ELSE [p |-> p, left |-> r.msgs]
    IN  Report(t.p, t.left, "failed", <<>>)

\* rd_kafka_handle_Produce
HandleProduce(p, r) ==
    IF r.err = "none" THEN Report(p, r.msgs, "ok", Offsets(r.msgs, r.base)) ELSE RetryOrFail(p, r)

\* Callbacks of several requests, in order.
HandleAll(p, rs) == FoldLeft(HandleProduce, p, rs)
Failing(reqs, err, sent) ==
    [i \in DOMAIN reqs |-> [msgs |-> reqs[i], err |-> err, sent |-> sent, base |-> 0]]

----------------------------------------------------------------------------
(* The application.                                                        *)

\* rd_kafka_toppar_enq_msg.
Enqueue ==
    /\ produced < N
    /\ produced' = produced + 1
    /\ q' = [q EXCEPT !.msgq = IF Lifo THEN EnqSorted(@, produced + 1) ELSE Append(@, produced + 1)]
    /\ UNCHANGED <<late, paused, leader, next, up, out, pipe, truth, log, fails, moves>>

\* rd_kafka_pause_partitions, rd_kafka_resume_partitions.
Pause ==
    /\ MayPause /\ paused' = ~paused
    /\ UNCHANGED <<q, late, produced, leader, next, up, out, pipe, truth, log, fails, moves>>

\* message.timeout.ms passes for the oldest message.
Expire ==
    /\ Expiring /\ late < produced
    /\ late' = late + 1
    /\ UNCHANGED <<q, produced, paused, leader, next, up, out, pipe, truth, log, fails, moves>>

\* retry.backoff.ms passes for the messages that failed together.
BackoffEnds ==
    /\ q.backoff # {}
    /\ \E B \in SUBSET q.backoff : B # {} /\ q' = [q EXCEPT !.backoff = @ \ B]
    /\ UNCHANGED <<late, produced, paused, leader, next, up, out, pipe, truth, log, fails, moves>>

\* rd_kafka_topic_scan_all, of the main thread: the partition's queue only.
TopicScan ==
    LET n == AgeScan(q.msgq)
    IN  /\ n > 0
        /\ q' = Report([q EXCEPT !.msgq = SubSeq(@, n + 1, Len(@))], SubSeq(q.msgq, 1, n), "failed", <<>>)
        /\ UNCHANGED <<late, produced, paused, leader, next, up, out, pipe, truth, log, fails, moves>>

----------------------------------------------------------------------------
(* The broker thread: building requests.                                   *)

\* rd_kafka_msgset_writer_write_msgq, once per request: up to BatchMax messages, none past one
\* that is in backoff.
Batches(s) ==
    LET held == {i \in DOMAIN s : s[i] \in q.backoff}
        n == IF held = {} THEN Len(s) ELSE Min(held) - 1
    IN  [i \in 1 .. (n + BatchMax - 1) \div BatchMax |->
            SubSeq(s, (i - 1) * BatchMax + 1, Min({i * BatchMax, n}))]

\* rd_kafka_broker_toppar_msgq_scan: the messages that have timed out at the head of the
\* transmit queue.
ScanXmit(p, scan) ==
    LET n == IF scan THEN AgeScan(p.xmit) ELSE 0
    IN  Report([p EXCEPT !.xmit = SubSeq(@, n + 1, Len(@))], SubSeq(p.xmit, 1, n), "failed", <<>>)

\* rd_kafka_toppar_producer_serve: scan, take over the partition's queue, and unless the batch
\* waits for more messages or the first is in backoff, build all requests.
Serve(b, scan) ==
    LET p == ScanXmit(q, scan)
        x == InsertMsgq(p.xmit, p.msgq)
        Build(reqs) ==
            LET n == FoldLeft(LAMBDA a, r : a + Len(r), 0, reqs)
            IN  /\ q' = [p EXCEPT !.msgq = <<>>, !.xmit = SubSeq(x, n + 1, Len(x))]
                /\ out' = [out EXCEPT ![b] = @ \o reqs]
    IN  /\ b \in up /\ leader = b
        /\ scan \/ Len(out[b]) < Backpressure
        /\ \/ paused /\ q' = p /\ UNCHANGED out
           \/ ~paused /\ Len(x) < BatchMax /\ Build(<<>>)
           \/ ~paused /\ Build(Batches(x))
        /\ UNCHANGED <<late, produced, paused, leader, next, up, pipe, truth, log, fails, moves>>

Waitresps(b) == SelectSeq(pipe[b], LAMBDA r : r.live)

\* rd_kafka_send.  Without acks the messages are reported at once and no answer is awaited.
Send(b) ==
    /\ b \in up /\ out[b] # <<>>
    /\ Len(Waitresps(b)) < MaxInflight
    /\ out' = [out EXCEPT ![b] = Tail(@)]
    /\ pipe' = [pipe EXCEPT ![b] = Append(@, [msgs |-> out[b][1], live |-> Acks, done |-> FALSE,
                                              err |-> "none", base |-> 0])]
    /\ q' = IF Acks THEN q ELSE Report(q, out[b][1], "ok", <<>>)
    /\ UNCHANGED <<late, produced, paused, leader, next, up, truth, log, fails, moves>>

----------------------------------------------------------------------------
(* Answers, timeouts, lost connections.                                    *)

\* A broker of the cluster takes up the next request of a connection (external).
Answered(r, err, base) == [r EXCEPT !.done = TRUE, !.err = err, !.base = base]
Undone(b) == {i \in DOMAIN pipe[b] : ~pipe[b][i].done}
Process(b, err) ==
    /\ Undone(b) # {}
    /\ LET i == Min(Undone(b))
           r == pipe[b][i]
       IN  /\ pipe' = [pipe EXCEPT ![b] = IF Acks THEN [@ EXCEPT ![i] = Answered(r, err, Len(log))]
                                          ELSE RemoveAt(@, i)]
           /\ log' = IF err \in {"none", "not_enough_after_append"} THEN log \o r.msgs ELSE log
    /\ IF b # truth THEN err = "not_leader" /\ UNCHANGED fails
       ELSE \/ err = "none" /\ UNCHANGED fails
            \/ err \in Errors /\ fails < MaxFails /\ fails' = fails + 1
    /\ UNCHANGED <<q, late, produced, paused, leader, next, up, out, truth, moves>>

\* rd_kafka_req_response: the answer to a request that timed out is dropped.
Reply(b) ==
    /\ b \in up /\ pipe[b] # <<>> /\ Head(pipe[b]).done
    /\ LET r == Head(pipe[b])
       IN  q' = IF r.live THEN HandleProduce(q, [msgs |-> r.msgs, err |-> r.err, sent |-> TRUE, base |-> r.base])
                ELSE q
    /\ pipe' = [pipe EXCEPT ![b] = Tail(@)]
    /\ UNCHANGED <<late, produced, paused, leader, next, up, out, truth, log, fails, moves>>

\* rd_kafka_broker_fail: requests that wait for an answer before those that were not sent.
Purged(p, waiting, unsent, err) ==
    HandleAll(p, Failing(waiting, err, TRUE) \o Failing(unsent, err, FALSE))

MsgsOf(rs) == [i \in DOMAIN rs |-> rs[i].msgs]

\* Of the requests the broker has not taken up, some still reach it: n of them.
Drop(b, n) ==
    LET open == SelectSeq(pipe[b], LAMBDA r : ~r.done)
    IN  /\ pipe' = [pipe EXCEPT ![b] = <<>>]
        /\ log' = IF b = truth THEN log \o FlattenSeq(MsgsOf(SubSeq(open, 1, n))) ELSE log

Close(b, err, n) ==
    /\ b \in up /\ fails < MaxFails /\ fails' = fails + 1
    /\ n \in 0 .. Cardinality(Undone(b))
    /\ q' = Purged(q, MsgsOf(Waitresps(b)), out[b], err)
    /\ out' = [out EXCEPT ![b] = <<>>]
    /\ up' = up \ {b}
    /\ Drop(b, n)
    /\ UNCHANGED <<late, produced, paused, leader, next, truth, moves>>

\* rd_kafka_broker_timeout_scan: the requests W of the waitresps and O of the outbufs have timed
\* out; a request that was sent in part, or socket.max.fails, ends the connection.
Sub(s, I) == LET keep == SetToSortSeq(I, <) IN [i \in DOMAIN keep |-> s[keep[i]]]
TimeoutScan(b, W, O, partial, n) ==
    LET w == {i \in DOMAIN pipe[b] : pipe[b][i].live}
        p == HandleAll(q, Failing(MsgsOf(Sub(pipe[b], W)), "timed_out", TRUE)
                          \o Failing(Sub(out[b], O), "timed_out_queue", FALSE))
        waiting == MsgsOf(Sub(pipe[b], w \ W))
        unsent == Sub(out[b], DOMAIN out[b] \ O)
    IN  /\ b \in up /\ fails < MaxFails /\ fails' = fails + 1
        /\ W \subseteq w /\ W \cup O # {}
        /\ partial => 1 \in O /\ Len(Waitresps(b)) < MaxInflight
        /\ IF partial \/ SocketMaxFails = 1
           THEN /\ n \in 0 .. Cardinality(Undone(b))
                /\ q' = Purged(p, waiting, unsent, "timed_out")
                /\ out' = [out EXCEPT ![b] = <<>>]
                /\ up' = up \ {b}
                /\ Drop(b, n)
           ELSE /\ n = 0
                /\ q' = p
                /\ out' = [out EXCEPT ![b] = unsent]
                /\ pipe' = [pipe EXCEPT ![b] = [i \in DOMAIN @ |-> [@[i] EXCEPT !.live = @ /\ i \notin W]]]
                /\ UNCHANGED <<up, log>>
        /\ UNCHANGED <<late, produced, paused, leader, next, truth, moves>>

\* rd_kafka_broker_connect_up.
Connect(b) ==
    /\ Reconnects /\ b \notin up
    /\ up' = up \cup {b}
    /\ UNCHANGED <<q, late, produced, paused, leader, next, out, pipe, truth, log, fails, moves>>

----------------------------------------------------------------------------
(* The leader of the partition.                                            *)

\* The cluster moves the partition (external).
Elect(b) ==
    /\ b # truth /\ moves < MaxMoves
    /\ truth' = b /\ moves' = moves + 1
    /\ UNCHANGED <<q, late, produced, paused, leader, next, up, out, pipe, log, fails>>

\* rd_kafka_toppar_leader_update, from metadata.
Learn ==
    /\ truth # IF next # None THEN next ELSE leader
    /\ next' = truth
    /\ UNCHANGED <<q, late, produced, paused, leader, up, out, pipe, truth, log, fails, moves>>

\* Mutation: the transmit queue is dropped with the leader.
LeaveForgets ==
    /\ leader # None /\ next # None
    /\ q' = [q EXCEPT !.xmit = <<>>]
    /\ leader' = None
    /\ UNCHANGED <<late, produced, paused, next, up, out, pipe, truth, log, fails, moves>>

\* RD_KAFKA_OP_PARTITION_LEAVE on the old leader's thread.
Leave ==
    /\ leader # None /\ next # None
    /\ q' = [q EXCEPT !.msgq = InsertMsgq(@, q.xmit), !.xmit = <<>>]
    /\ leader' = None
    /\ UNCHANGED <<late, produced, paused, next, up, out, pipe, truth, log, fails, moves>>

\* RD_KAFKA_OP_PARTITION_JOIN on the new leader's thread.
Join ==
    /\ leader = None /\ next # None
    /\ leader' = next /\ next' = None
    /\ UNCHANGED <<q, late, produced, paused, up, out, pipe, truth, log, fails, moves>>

----------------------------------------------------------------------------
Init ==
    /\ q = [msgq |-> <<>>, xmit |-> <<>>, retries |-> [m \in Msgs |-> 0], backoff |-> {},
            report |-> [m \in Msgs |-> {}], offset |-> [m \in Msgs |-> 0]]
    /\ paused = FALSE /\ late = 0 /\ produced = 0 /\ log = <<>> /\ fails = 0 /\ moves = 0
    /\ truth \in Brokers /\ leader = truth /\ next = None
    /\ up = Brokers
    /\ out = [b \in Brokers |-> <<>>] /\ pipe = [b \in Brokers |-> <<>>]

BrokerThread(b) ==
    \/ \E scan \in BOOLEAN : Serve(b, scan)
    \/ Send(b) \/ Reply(b) \/ Connect(b)
    \/ \E err \in Closes, n \in 0..2 : Close(b, err, n)
    \/ \E W \in SUBSET DOMAIN pipe[b], O \in SUBSET DOMAIN out[b], partial \in BOOLEAN, n \in 0..2 :
          TimeoutScan(b, W, O, partial, n)

Next ==
    \/ Enqueue \/ Pause \/ Expire \/ BackoffEnds \/ TopicScan
    \/ \E b \in Brokers : BrokerThread(b) \/ Elect(b)
    \/ \E b \in Brokers, err \in {"none", "not_leader"} \cup Errors : Process(b, err)
    \/ Learn \/ Leave \/ Join

Spec == Init /\ [][Next]_vars

\* The broker thread serves the partition and sends all there is.
ServeAll(b) == Serve(b, TRUE) /\ (paused \/ Batches(q'.xmit) = <<>>)

----------------------------------------------------------------------------
(* Properties.                                                             *)

Count(s, m) == Cardinality({i \in DOMAIN s : s[i] = m})
Requests(b) == out[b] \o MsgsOf(Waitresps(b))
Copies(m) ==
    Count(q.msgq, m) + Count(q.xmit, m)
    + MapThenSumSet(LAMBDA b : Count(FlattenSeq(Requests(b)), m), Brokers)

\* Every produced message is in one queue or one request, or has been reported to the
\* application, and never two of these: no failure of requests, connections or leaders loses a
\* message or reports one twice (rd_kafka_handle_Produce, rd_kafka_toppar_retry_msgq).
OneReport == \A m \in 1..produced : Copies(m) + Cardinality(q.report[m]) = 1

\* A message reported as delivered is in the partition's log, at the offset its delivery report
\* gives (rd_kafka_handle_Produce).
AckedAtOffset ==
    \A m \in Msgs : "ok" \in q.report[m] => q.offset[m] < Len(log) /\ log[q.offset[m] + 1] = m

\* A message is in the log once for its first attempt and once for each retry at most: attempts
\* that are not counted never put it there (incr_retry of rd_kafka_handle_Produce).
CopiesBounded == \A m \in Msgs : Count(log, m) <= MaxRetries + 1

=============================================================================
