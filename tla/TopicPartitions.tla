-------------------------- MODULE TopicPartitions ---------------------------
(***************************************************************************)
(* A local topic of librdkafka and its partitions (rdkafka_topic.c,        *)
(* rdkafka_partition.c): how metadata creates and removes partitions, how  *)
(* a partition moves from one broker thread to another, how partitions the *)
(* application asked for are kept while the cluster does not know them, and *)
(* where produced messages wait for a partition.                           *)
(*                                                                         *)
(* s is the topic with its partition objects and the broker threads' op    *)
(* queues.  Functions of the code are operators from a state to a state,   *)
(* as they call each other under the topic's lock.  An object that nothing *)
(* refers to any more is destroyed at the end of the step.                 *)
(***************************************************************************)
EXTENDS Integers, Sequences, FiniteSets, SequencesExt, FiniteSetsExt

CONSTANTS Brokers, Internal, None,
          N,            \* the largest number of partitions
          Objs,         \* bound: partition objects, a set of numbers
          Msgs,         \* messages to produce; none for a consumer
          Forced,       \* the partition a message is for, 0: the partitioner's choice
          Hash,         \* the partitioner's hash of a message's key
          Errs,         \* topic errors the metadata may carry
          Reassigns,    \* whether the group may assign a partition it has
          MaxChanges,   \* bound: changes of the cluster's metadata
          MaxMoves      \* bound: starts, stops and expirations

VARIABLES s,            \* the topic
          view,         \* the cluster's metadata of the topic
          made,         \* messages produced
          sent,         \* history: messages handed to a leader
          moves         \* starts, stops and expirations so far

vars == <<s, view, made, sent, moves>>

Threads == Brokers \cup {Internal}
Free == [part |-> 0, leader |-> None, next |-> None, desired |-> FALSE, unknown |-> FALSE,
         remove |-> FALSE, q |-> <<>>]

Tp(st, o) == st.tp[o]
Enq(st, b, op, o) == [st EXCEPT !.ops[b] = Append(@, [op |-> op, o |-> o])]
Fail(st, msgs) == [st EXCEPT !.failed = @ \cup msgs]

----------------------------------------------------------------------------
(* The leader of a partition.                                              *)

\* rd_kafka_toppar_broker_migrate.  With a next leader set an op is already on its way.
Migrate(st, o, new) ==
    LET old == Tp(st, o).leader
        u == [st EXCEPT !.tp[o].next = new]
    IN  IF Tp(st, o).next # None THEN u
        ELSE IF old # None THEN Enq(u, old, "leave", o) ELSE Enq(u, new, "join", o)

LeaveForRemove(st, o) ==
    LET dest == IF Tp(st, o).next # None THEN Tp(st, o).next ELSE Tp(st, o).leader
        u == [st EXCEPT !.tp[o].remove = TRUE]
    IN  IF dest = None THEN u ELSE Enq(u, dest, "leave", o)

\* A partition without a leader goes to the internal broker.
Delegate(st, o, b) ==
    LET to == IF b = None /\ ~st.term THEN Internal ELSE b
    IN  IF (Tp(st, o).leader = to /\ Tp(st, o).next = None) \/ (Tp(st, o).leader = None /\ to = None)
        THEN st
        ELSE Migrate(st, o, to)

\* rd_kafka_toppar_leader_update: the state and whether the leader changed.
LeaderUpdate(st, o, b) ==
    CASE b = None                               -> <<Delegate(st, o, None), Tp(st, o).leader # None>>
      [] b # None /\ Tp(st, o).leader = b       -> <<st, FALSE>>
      [] OTHER                                  -> <<Delegate(st, o, b), TRUE>>

----------------------------------------------------------------------------
(* Partition objects.                                                      *)

Used(st) == ToSet(st.p) \cup st.desp \cup UNION {st.on[b] : b \in Threads}
            \cup {op.o : op \in UNION {ToSet(st.ops[b]) : b \in Threads}}

\* rd_kafka_toppar_destroy_final: what was still in the queue is reported.
Reap(st) ==
    LET gone == Objs \ Used(st)
    IN  [Fail(st, UNION {ToSet(st.tp[o].q) : o \in gone}) EXCEPT
            !.tp = [o \in Objs |-> IF o \in gone THEN Free ELSE st.tp[o]]]

NewObj(st) == Min({o \in Objs : st.tp[o].part = 0})

New(st, part) == [st EXCEPT !.tp[NewObj(st)] = [Free EXCEPT !.part = part, !.unknown = TRUE]]

DesiredGet(st, part) == {o \in st.desp : Tp(st, o).part = part}

DesiredLink(st, o)   == [st EXCEPT !.desp = @ \cup {o}]
DesiredUnlink(st, o) == [st EXCEPT !.desp = @ \ {o}]

DesiredAdd0(st, o) ==
    IF Tp(st, o).desired THEN st ELSE DesiredLink([st EXCEPT !.tp[o].desired = TRUE], o)

\* rd_kafka_toppar_desired_add.
DesiredAdd(st, part) ==
    IF part <= Len(st.p)
    THEN [st EXCEPT !.tp[st.p[part]].desired = TRUE, !.tp[st.p[part]].remove = FALSE]
    ELSE IF DesiredGet(st, part) # {} THEN st
    ELSE DesiredAdd0(New(st, part), NewObj(st))

DesiredDel(st, o) ==
    IF ~Tp(st, o).desired THEN st
    ELSE LET u == DesiredUnlink([st EXCEPT !.tp[o].desired = FALSE], o)
         IN  IF Tp(u, o).unknown THEN LeaveForRemove(u, o) ELSE u

\* rd_kafka_topic_partition_cnt_update, one new partition.
AddPart(st, part) ==
    LET known(u, o) == [u EXCEPT !.tp[o].unknown = FALSE, !.tp[o].remove = FALSE, !.p = Append(@, o)]
        d == DesiredGet(st, part)
    IN  IF d # {} THEN known(DesiredUnlink(st, Min(d)), Min(d)) ELSE known(New(st, part), NewObj(st))

\* One partition that is no longer there.
RemovePart(st, o) ==
    LET u == [st EXCEPT !.tp[o].unknown = TRUE]
    IN  IF Tp(st, o).desired THEN Delegate(DesiredLink(u, o), o, None) ELSE LeaveForRemove(u, o)

CntUpdate(st, n) ==
    LET grown == FoldLeftDomain(LAMBDA u, i : IF i <= Len(st.p) THEN u ELSE AddPart(u, i),
                                st, [i \in 1 .. n |-> i])
        kept == SubSeq(st.p, 1, n)
        lost == SubSeq(st.p, n + 1, Len(st.p))
    IN  IF n >= Len(st.p) THEN grown
        ELSE [FoldLeft(RemovePart, st, lost) EXCEPT !.p = kept]

----------------------------------------------------------------------------
(* Produced messages.                                                      *)

PartOf(st, m) == IF Forced[m] # 0 THEN Forced[m] ELSE (Hash[m] % Len(st.p)) + 1

\* rd_kafka_msg_partitioner.
Partition(st, m) ==
    IF st.state = "unknown" \/ (st.state = "exists" /\ st.p = <<>>)
    THEN [st EXCEPT !.ua = Append(@, m)]
    ELSE IF st.state = "notexists" \/ PartOf(st, m) > Len(st.p)
    THEN Fail(st, {m})
    ELSE [st EXCEPT !.tp[st.p[PartOf(st, m)]].q = Append(@, m)]

\* rd_kafka_topic_assign_uas; a message for a partition past the count fails before the partitioner.
AssignUas(st) ==
    LET one(u, m) == IF Forced[m] > Len(u.p) /\ u.state # "unknown"
                     THEN Fail(u, {m}) ELSE Partition(u, m)
    IN  FoldLeft(one, [st EXCEPT !.ua = <<>>], st.ua)

----------------------------------------------------------------------------
(* Metadata.                                                               *)

StateOf(st, err, n) ==
    IF err \in {"unknown_topic"} THEN "notexists" ELSE IF n > 0 THEN "exists" ELSE st.state

\* Unassigned messages are tried again when anything changed or the topic's state had timed out.
NeedsAssign(st, err, changed) == changed \/ (err = "none" /\ st.state = "unknown")

Leaders(st, lead) ==
    FoldLeftDomain(LAMBDA acc, i : IF i > Len(acc[1].p) THEN <<acc[1], TRUE>>
                                   ELSE LET r == LeaderUpdate(acc[1], acc[1].p[i], lead[i])
                                        IN  <<r[1], acc[2] \/ r[2]>>,
                   <<st, FALSE>>, lead)

\* rd_kafka_topic_metadata_update.
MetadataUpdate(st, md) ==
    LET n == Len(md.lead)
        u == IF md.err = "none" THEN CntUpdate(st, n) ELSE st
        l == Leaders([u EXCEPT !.state = StateOf(st, md.err, n)], md.lead)
        changed == (md.err = "none" /\ n # Len(st.p)) \/ l[2]
        v == IF md.err = "none" THEN l[1]
             ELSE FoldLeft(LAMBDA w, o : Delegate(w, o, None), l[1], l[1].p)
    IN  IF NeedsAssign(st, md.err, changed) \/ v.state = "notexists" THEN AssignUas(v) ELSE v

\* rd_kafka_topic_metadata_none.
MetadataNone(st) == AssignUas(CntUpdate([st EXCEPT !.state = "notexists"], 0))

----------------------------------------------------------------------------
(* Steps.                                                                  *)

Step(st) == s' = Reap(st)

Heard(md) == Reap(IF md.err = "absent" THEN MetadataNone(s) ELSE MetadataUpdate(s, md))

\* The cluster changes and the client hears of it.
Change ==
    /\ ~s.term /\ view.changes < MaxChanges
    /\ \E err \in Errs \cup {"none"} :
          \E lead \in UNION {[1 .. n -> Brokers \cup {None}] : n \in 0 .. N} :
             /\ err \in {"unknown_topic", "absent"} => lead = <<>>
             /\ view' = [err |-> err, lead |-> lead, changes |-> view.changes + 1]
             /\ s' = Heard(view')
    /\ UNCHANGED <<made, sent, moves>>

\* The same metadata again: rd_kafka_topic_scan_all's query and the periodic refresh.
Refresh ==
    /\ ~s.term
    /\ s' = Heard(view)
    /\ s' # s
    /\ UNCHANGED <<view, made, sent, moves>>

\* The cached metadata expires.
Expire ==
    /\ ~s.term /\ s.state # "unknown" /\ moves < MaxMoves
    /\ s' = [s EXCEPT !.state = "unknown"]
    /\ moves' = moves + 1
    /\ UNCHANGED <<view, made, sent>>

Produce(m) ==
    /\ ~s.term /\ m \notin made
    /\ Step(Partition(s, m))
    /\ made' = made \cup {m}
    /\ UNCHANGED <<view, sent, moves>>

\* A message times out where it waits.
Timeout ==
    /\ ~s.term
    /\ \/ s.ua # <<>> /\ s' = [Fail(s, {Head(s.ua)}) EXCEPT !.ua = Tail(@)]
       \/ \E o \in Objs :
             /\ s.tp[o].q # <<>>
             /\ s' = [Fail(s, {Head(s.tp[o].q)}) EXCEPT !.tp[o].q = Tail(@)]
    /\ UNCHANGED <<view, made, sent, moves>>

\* rd_kafka_consume_start0 and rd_kafka_consume_stop0.
Desire(part) ==
    /\ Msgs = {} /\ ~s.term /\ moves < MaxMoves
    /\ Step(DesiredAdd(s, part))
    /\ moves' = moves + 1
    /\ UNCHANGED <<view, made, sent>>

Known(part) == (IF part <= Len(s.p) THEN {s.p[part]} ELSE {}) \cup DesiredGet(s, part)

Undesire(part) ==
    /\ Msgs = {} /\ ~s.term /\ moves < MaxMoves
    /\ \E o \in Known(part) : s.tp[o].desired /\ Step(DesiredDel(s, o))
    /\ moves' = moves + 1
    /\ UNCHANGED <<view, made, sent>>

\* rd_kafka_cgrp_assign of a partition that is already assigned.
Reassign(part) ==
    /\ Reassigns /\ ~s.term /\ moves < MaxMoves
    /\ \E o \in Known(part) : s.tp[o].desired /\ Step(DesiredAdd0(DesiredDel(s, o), o))
    /\ moves' = moves + 1
    /\ UNCHANGED <<view, made, sent>>

\* Mutation: the broker that serves the join does not record itself as the leader.
JoinRejoins(st, b, o) ==
    IF st.term \/ Tp(st, o).remove THEN [st EXCEPT !.tp[o].next = None]
    ELSE IF Tp(st, o).next # b THEN Enq(st, Tp(st, o).next, "join", o)
    ELSE [st EXCEPT !.on[b] = @ \cup {o}, !.tp[o].next = None]

\* RD_KAFKA_OP_PARTITION_JOIN.
Join(st, b, o) ==
    IF st.term \/ Tp(st, o).remove THEN [st EXCEPT !.tp[o].next = None]
    ELSE IF Tp(st, o).next # b THEN Enq(st, Tp(st, o).next, "join", o)
    ELSE [st EXCEPT !.on[b] = @ \cup {o}, !.tp[o].leader = b, !.tp[o].next = None]

\* RD_KAFKA_OP_PARTITION_LEAVE: with no next leader what is queued fails.
Leave(st, b, o) ==
    LET u == [st EXCEPT !.on[b] = @ \ {o}, !.tp[o].leader = None]
    IN  IF Tp(st, o).leader # b THEN st
        ELSE IF Tp(st, o).next # None THEN Enq(u, Tp(st, o).next, "join", o)
        ELSE [Fail(u, ToSet(Tp(st, o).q)) EXCEPT !.tp[o].q = <<>>]

\* rd_kafka_broker_op_serve.
Serve(b) ==
    /\ s.ops[b] # <<>>
    /\ LET op == Head(s.ops[b])
           st == [s EXCEPT !.ops[b] = Tail(@)]
       IN  Step(IF op.op = "join" THEN Join(st, b, op.o) ELSE Leave(st, b, op.o))
    /\ UNCHANGED <<view, made, sent, moves>>

\* The leader's thread takes a message to send.
Send(b) ==
    /\ \E o \in s.on[b] :
          /\ s.tp[o].q # <<>>
          /\ sent' = sent \cup {Head(s.tp[o].q)}
          /\ s' = [s EXCEPT !.tp[o].q = Tail(@)]
    /\ UNCHANGED <<view, made, moves>>

\* rd_kafka_topic_partitions_remove: the messages are purged without a report.
PartitionsRemove(st) ==
    LET all == ToSet(st.p) \cup st.desp
        purged == [st EXCEPT !.ua = <<>>,
                     !.purged = ToSet(st.ua) \cup UNION {ToSet(st.tp[o].q) : o \in all},
                     !.tp = [o \in Objs |-> IF o \in all THEN [st.tp[o] EXCEPT !.q = <<>>] ELSE st.tp[o]]]
        u == CntUpdate(purged, 0)
    IN  FoldSet(LAMBDA o, w : DesiredDel(w, o), u, u.desp)

Terminate ==
    /\ ~s.term
    /\ Step(PartitionsRemove([s EXCEPT !.term = TRUE]))
    /\ UNCHANGED <<view, made, sent, moves>>

Init ==
    /\ s = [state |-> "unknown", p |-> <<>>, desp |-> {}, ua |-> <<>>, term |-> FALSE,
            failed |-> {}, purged |-> {}, tp |-> [o \in Objs |-> Free], ops |-> [b \in Threads |-> <<>>],
            on |-> [b \in Threads |-> {}]]
    /\ view = [err |-> "none", lead |-> <<>>, changes |-> 0]
    /\ made = {} /\ sent = {} /\ moves = 0

Next ==
    \/ Change \/ Refresh \/ Expire \/ Timeout \/ Terminate
    \/ \E m \in Msgs : Produce(m)
    \/ \E part \in 1 .. N : Desire(part) \/ Undesire(part) \/ Reassign(part)
    \/ \E b \in Threads : Serve(b)
    \/ \E b \in Brokers : Send(b)

Spec == Init /\ [][Next]_vars

----------------------------------------------------------------------------
Ops == UNION {{[b |-> b, op |-> s.ops[b][i].op, o |-> s.ops[b][i].o] : i \in DOMAIN s.ops[b]} : b \in Threads}

\* A partition is in the list of at most one broker thread, the one it calls its leader: two
\* threads never serve it at the same time (the assertion rktp_s_for_rkb == NULL in the join).
OnOneList == \A b \in Threads : \A o \in Objs : o \in s.on[b] <=> s.tp[o].leader = b

\* A join on its way has a next leader to compare with or to go to: the broker thread dereferences
\* it; and while it is on its way the partition has no leader.
JoinHasNext == \A op \in Ops : op.op = "join" => s.tp[op.o].next # None /\ s.tp[op.o].leader = None

\* A migration goes on: a next leader is set only while an op that will deal with it is queued.
MigrationUnderWay ==
    \A o \in Objs : s.tp[o].next # None =>
        \E op \in Ops : op.o = o /\ (op.op = "join" \/ op.b = s.tp[o].leader)

Fates == [failed |-> s.failed, sent |-> sent, ua |-> ToSet(s.ua), purged |-> s.purged]

\* Every produced message is in exactly one place: waiting, with the leader, or reported as failed.
\* Only the removal of the topic with its handle purges messages without a report
\* (rd_kafka_topic_partitions_remove).
OneFate ==
    /\ \A m \in made : Cardinality({o \in Objs : m \in ToSet(s.tp[o].q)})
                       + Cardinality({x \in {"failed", "sent", "ua", "purged"} : m \in Fates[x]}) = 1
    /\ s.purged # {} => s.term

=============================================================================
