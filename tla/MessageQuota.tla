---------------------------- MODULE MessageQuota ----------------------------
(***************************************************************************)
(* The account librdkafka keeps of a producer's messages, from the call    *)
(* that produces them to the end of their delivery report: rk_curr_msgs    *)
(* with its limits, producers that block on it, the partitioner and the    *)
(* queue of messages without a partition, delivery report operations, the  *)
(* threads that poll for them, and rd_kafka_flush (rdkafka_int.h,          *)
(* rdkafka_msg.c, rdkafka_topic.c, rdkafka.c).                             *)
(*                                                                         *)
(* Locks are modelled where one is held while another is awaited: the      *)
(* topic's lock, and curr_msgs.lock in a producer that wakes up.           *)
(***************************************************************************)
EXTENDS Integers, Sequences, FiniteSets, Functions

CONSTANTS Threads,    \* application threads that produce
          Pollers,    \* application threads that poll and flush
          None,
          Calls,      \* Calls[t]: the calls of a thread: [batch, block, msgs]
          Size,       \* Size[m]: rkm_len
          MaxCnt, MaxSize,  \* queue.buffering.max.messages, .kbytes
          Bad,        \* messages to a partition the topic does not have
          Reports,    \* whether delivery reports are wanted
          ErrOnly,    \* delivery.report.only.error
          MayYield,   \* whether callbacks may call rd_kafka_yield
          MaxFlush    \* bound: calls of rd_kafka_flush

VARIABLES curr,       \* rk_curr_msgs: cnt, size
          th,         \* each producing thread: pc, n calls done, i messages of the call done
          lock,       \* the producer that holds curr_msgs.lock, or None
          writer,     \* whether the main thread holds the topic's lock, and what it still purges
          known,      \* whether metadata of the topic has arrived
          st,         \* st[m]: where the message is
          freed,      \* messages whose payload the library freed
          failed,     \* messages whose call failed
          rep,        \* rk_rep: delivery report operations
          op,         \* op[p]: the operation a poller serves
          called,     \* messages in the order of their callbacks
          reported,   \* messages in the order of their operations
          flush       \* flush[p]: None, or the messages accepted before the flush

vars == <<curr, th, lock, writer, known, st, freed, failed, rep, op, called, reported, flush>>

Msgs == DOMAIN Size
Topic == <<writer, known>>
Poll == <<rep, op, called, reported, flush>>

\* What the application passes: calls of at least one message, and each message (a payload with
\* its opaque) in one call only.
CallsAssumption ==
    /\ Size \in Seq(Nat) /\ MaxCnt \in Nat /\ MaxSize \in Nat
    /\ Reports \in BOOLEAN /\ ErrOnly \in BOOLEAN
    /\ Calls \in [Threads -> Seq([batch : BOOLEAN, block : BOOLEAN, msgs : Seq(Msgs) \ {<<>>}])]
    /\ \A t, u \in Threads : \A a \in DOMAIN Calls[t], b \in DOMAIN Calls[u] :
          \A i \in DOMAIN Calls[t][a].msgs, j \in DOMAIN Calls[u][b].msgs :
             Calls[t][a].msgs[i] = Calls[u][b].msgs[j] => t = u /\ a = b /\ i = j

----------------------------------------------------------------------------
(* rk_curr_msgs.                                                           *)

Fits(c, m) == c.cnt + 1 <= MaxCnt /\ c.size + Size[m] <= MaxSize

\* Mutation: waiting threads are woken when the limit was exceeded, which it never is.
CrossesNever(c, m) == c.cnt > MaxCnt

\* The condition of the broadcast in rd_kafka_curr_msgs_sub.
Crosses(c, m) ==
    \/ c.cnt >= MaxCnt
    \/ c.size >= MaxSize /\ c.size - Size[m] < MaxSize

Waiting(t) == th[t].pc = "wait"
Wake(c, m) == IF Crosses(c, m) THEN [t \in Threads |-> IF Waiting(t) THEN [th[t] EXCEPT !.pc = "woken"] ELSE th[t]] ELSE th

\* Mutation: the size of a message is not given back.
MinusCnt(c, m) == [c EXCEPT !.cnt = @ - 1]

Minus(c, m) == [cnt |-> c.cnt - 1, size |-> c.size - Size[m]]

\* rd_kafka_msg_destroy.
Destroy(m, free) ==
    /\ lock = None
    /\ curr' = Minus(curr, m)
    /\ th' = Wake(curr, m)
    /\ st' = [st EXCEPT ![m] = "gone"]
    /\ freed' = IF free THEN freed \cup {m} ELSE freed

----------------------------------------------------------------------------
(* Producing: rd_kafka_produce, rd_kafka_producev, rd_kafka_produce_batch. *)

Call(t) == Calls[t][th[t].n + 1]
Msg(t) == Call(t).msgs[th[t].i + 1]
Step(t, pc) == th' = [th EXCEPT ![t].pc = pc]

\* The next message of the call, or the next call.
After(t) ==
    LET last == th[t].i + 1 = Len(Call(t).msgs)
    IN  [th[t] EXCEPT !.pc = IF last THEN "idle" ELSE "add", !.i = IF last THEN 0 ELSE @ + 1,
                      !.n = IF last THEN @ + 1 ELSE @, !.full = IF last THEN FALSE ELSE @]

\* A batch takes the topic's lock for all of its run.
Start(t) ==
    /\ th[t].pc = "idle" /\ th[t].n < Len(Calls[t])
    /\ Call(t).batch => writer = None
    /\ Step(t, "add")
    /\ UNCHANGED <<curr, lock, Topic, st, freed, failed, Poll>>

\* rd_kafka_msg_new0 and rd_kafka_curr_msgs_add.  Once the queue was full the rest of a batch fails.
Add(t) ==
    /\ th[t].pc = "add" /\ lock \in {None, t}
    /\ lock' = None
    /\ \/ /\ Fits(curr, Msg(t)) /\ ~th[t].full
          /\ curr' = [cnt |-> curr.cnt + 1, size |-> curr.size + Size[Msg(t)]]
          /\ st' = [st EXCEPT ![Msg(t)] = "held"]
          /\ Step(t, "place") /\ UNCHANGED failed
       \/ /\ ~Fits(curr, Msg(t)) /\ Call(t).block
          /\ Step(t, "wait") /\ UNCHANGED <<curr, st, failed>>
       \/ /\ ~Call(t).block /\ (th[t].full \/ ~Fits(curr, Msg(t)))
          /\ th' = [th EXCEPT ![t] = [After(t) EXCEPT !.full = @ \/ (Call(t).batch /\ After(t).i > 0)]]
          /\ failed' = failed \cup {Msg(t)} /\ UNCHANGED <<curr, st>>
    /\ UNCHANGED <<Topic, freed, Poll>>

\* cnd_wait returns with curr_msgs.lock held; a batch then takes the topic's lock again.
Woken(t) ==
    /\ th[t].pc = "woken" /\ lock = None
    /\ lock' = t
    /\ Step(t, IF Call(t).batch THEN "rdlock" ELSE "add")
    /\ UNCHANGED <<curr, Topic, st, freed, failed, Poll>>
Rdlock(t) ==
    /\ th[t].pc = "rdlock" /\ writer = None
    /\ Step(t, "add")
    /\ UNCHANGED <<curr, lock, Topic, st, freed, failed, Poll>>

\* rd_kafka_msg_partitioner: the partition's queue, or that of unassigned messages.
Place(t) ==
    /\ th[t].pc = "place" /\ writer = None
    /\ ~(known /\ Msg(t) \in Bad)
    /\ st' = [st EXCEPT ![Msg(t)] = IF known THEN "queued" ELSE "ua"]
    /\ th' = [th EXCEPT ![t] = After(t)]
    /\ UNCHANGED <<curr, lock, Topic, freed, failed, Poll>>

\* rd_kafka_msg_new and rd_kafka_producev clear RD_KAFKA_MSG_F_FREE; rd_kafka_produce_batch does not.
FreesOnFailure(call) == call.batch

\* The partitioner fails: the message is destroyed.
Refuse(t) ==
    /\ th[t].pc = "place" /\ writer = None
    /\ known /\ Msg(t) \in Bad
    /\ lock = None
    /\ curr' = Minus(curr, Msg(t))
    /\ st' = [st EXCEPT ![Msg(t)] = "gone"]
    /\ freed' = IF FreesOnFailure(Call(t)) THEN freed \cup {Msg(t)} ELSE freed
    /\ failed' = failed \cup {Msg(t)}
    /\ th' = [Wake(curr, Msg(t)) EXCEPT ![t] = After(t)]
    /\ UNCHANGED <<lock, Topic, Poll>>

----------------------------------------------------------------------------
(* Delivery reports.                                                       *)

\* rd_kafka_dr_msgq, with reports on: one operation for all messages.
Wanted(err) == Reports /\ (~ErrOnly \/ err)
Op(msgs) ==
    /\ st' = [m \in Msgs |-> IF m \in Range(msgs) THEN "dr" ELSE st[m]]
    /\ rep' = Append(rep, msgs)
    /\ reported' = reported \o msgs

\* The messages of S in the order of a queue.
Ordered(S) == {q \in [1 .. Cardinality(S) -> S] : \A i, j \in DOMAIN q : i < j => q[i] < q[j]}

\* A broker thread is done with messages of a partition.
Answer(msgs, err) ==
    /\ msgs # <<>>
    /\ IF Wanted(err) THEN Op(msgs) /\ UNCHANGED <<curr, th, freed>>
       ELSE Len(msgs) = 1 /\ Destroy(msgs[1], TRUE) /\ UNCHANGED <<rep, reported>>
    /\ UNCHANGED <<lock, Topic, failed, op, called, flush>>

\* rd_kafka_topic_metadata_update: the messages without a partition are given one, those that
\* cannot be are failed, with the topic's lock held.
Placed == [m \in Msgs |-> IF st[m] = "ua" /\ m \notin Bad THEN "queued" ELSE st[m]]

FailBad(bad) ==
    IF bad # <<>> /\ Wanted(TRUE)
    THEN /\ st' = [m \in Msgs |-> IF m \in Range(bad) THEN "dr" ELSE Placed[m]]
         /\ rep' = Append(rep, bad) /\ reported' = reported \o bad
         /\ UNCHANGED writer
    ELSE /\ st' = Placed
         /\ writer' = IF bad = <<>> THEN None ELSE bad
         /\ UNCHANGED <<rep, reported>>

Metadata ==
    /\ ~known /\ writer = None
    /\ \A t \in Threads : th[t].pc \in {"add", "place"} => ~Call(t).batch
    /\ known' = TRUE
    /\ \E bad \in Ordered({m \in Msgs : st[m] = "ua" /\ m \in Bad}) : FailBad(bad)
    /\ UNCHANGED <<curr, th, lock, freed, failed, op, called, flush>>

\* rd_kafka_msgq_purge, message by message, with the topic's lock still held.
Purge ==
    /\ writer # None
    /\ Destroy(Head(writer), TRUE)
    /\ writer' = IF Len(writer) = 1 THEN None ELSE Tail(writer)
    /\ UNCHANGED <<lock, known, failed, Poll>>

\* rd_kafka_poll takes the first operation.
Take(p) ==
    /\ op[p] = <<>> /\ rep # <<>>
    /\ op' = [op EXCEPT ![p] = Head(rep)]
    /\ rep' = Tail(rep)
    /\ UNCHANGED <<curr, th, lock, Topic, st, freed, failed, called, reported, flush>>

\* rd_kafka_q_reenq: at the head.
Reenq(rest) == IF rest = <<>> THEN rep ELSE <<rest>> \o rep

\* rd_kafka_poll_cb: the callback of one message, which is then destroyed.
Callback(p, yield) ==
    /\ op[p] # <<>>
    /\ yield => MayYield
    /\ called' = Append(called, Head(op[p]))
    /\ Destroy(Head(op[p]), TRUE)
    /\ op' = [op EXCEPT ![p] = IF yield THEN <<>> ELSE Tail(@)]
    /\ rep' = IF yield THEN Reenq(Tail(op[p])) ELSE rep
    /\ UNCHANGED <<lock, Topic, failed, reported, flush>>

\* rd_kafka_flush.
Accepted == {m \in Msgs : st[m] \in {"ua", "queued", "dr", "gone"} /\ m \notin failed}
Flush(p) ==
    /\ op[p] = <<>> /\ flush[p].n < MaxFlush /\ ~flush[p].in
    /\ flush' = [flush EXCEPT ![p] = [n |-> @.n + 1, in |-> TRUE, owed |-> Accepted, ok |-> FALSE]]
    /\ UNCHANGED <<curr, th, lock, Topic, st, freed, failed, rep, op, called, reported>>

\* The loop's condition: no operation queued and no message held.
Flushed == rep = <<>> /\ curr.cnt = 0

FlushReturn(p) ==
    /\ op[p] = <<>> /\ flush[p].in
    /\ Flushed
    /\ flush' = [flush EXCEPT ![p].in = FALSE, ![p].ok = TRUE]
    /\ UNCHANGED <<curr, th, lock, Topic, st, freed, failed, rep, op, called, reported>>

----------------------------------------------------------------------------
Init ==
    /\ curr = [cnt |-> 0, size |-> 0]
    /\ th = [t \in Threads |-> [pc |-> "idle", n |-> 0, i |-> 0, full |-> FALSE]]
    /\ lock = None /\ writer = None /\ known = FALSE
    /\ st = [m \in Msgs |-> "app"] /\ freed = {} /\ failed = {}
    /\ rep = <<>> /\ op = [p \in Pollers |-> <<>>]
    /\ called = <<>> /\ reported = <<>>
    /\ flush = [p \in Pollers |-> [n |-> 0, in |-> FALSE, owed |-> {}, ok |-> FALSE]]

Produce(t) == Start(t) \/ Add(t) \/ Woken(t) \/ Rdlock(t) \/ Place(t) \/ Refuse(t)
Queued == {m \in Msgs : st[m] = "queued"}
Broker == \E S \in SUBSET Queued, err \in BOOLEAN : \E msgs \in Ordered(S) : Answer(msgs, err)
Serve(p) == Take(p) \/ (\E yield \in BOOLEAN : Callback(p, yield)) \/ FlushReturn(p)

Next ==
    \/ \E t \in Threads : Produce(t)
    \/ Broker \/ Metadata \/ Purge
    \/ \E p \in Pollers : Serve(p) \/ Flush(p)

Spec == Init /\ [][Next]_vars

----------------------------------------------------------------------------
InLibrary == {m \in Msgs : st[m] \in {"held", "ua", "queued", "dr"}}

\* rk_curr_msgs counts the messages accepted and not yet destroyed, and neither the count nor the
\* size exceeds its limit, whatever calls fail half way (rd_kafka_curr_msgs_add,
\* rd_kafka_curr_msgs_sub).
CountExact == curr.cnt = Cardinality(InLibrary) /\ curr.cnt <= MaxCnt /\ curr.size <= MaxSize

\* The account is exact: the count, and the sizes of the messages that are counted.
AccountExact == CountExact /\ curr.size = SumFunctionOnSet(Size, InLibrary)

\* When rd_kafka_flush returns success, all messages accepted before it was called have had their
\* delivery report, also those another thread is serving.
FlushComplete ==
    \A p \in Pollers : flush[p].ok =>
        \A m \in flush[p].owed : st[m] = "gone" /\ (Reports /\ ~ErrOnly => m \in Range(called))

\* With one polling thread the callbacks come in the order the reports were made, also when a
\* callback yields in the middle of an operation (rd_kafka_poll_cb, rd_kafka_q_reenq).
ReportOrder ==
    Cardinality(Pollers) = 1 => Len(called) <= Len(reported) /\ called = SubSeq(reported, 1, Len(called))

=============================================================================
