--------------------------- MODULE ConsumerGroup ---------------------------
(***************************************************************************)
(* librdkafka's consumer group member (rdkafka_cgrp.c): the join state     *)
(* machine, the assignment and its fetchers, the offset commits, and the   *)
(* close.                                                                  *)
(*                                                                         *)
(* Everything here runs in the main thread, which serves one queue: the    *)
(* group's ops, its partitions' ops and the responses of the brokers are   *)
(* all forwarded to it.  g is the state that thread owns, so that a        *)
(* function of the code is an operator on g and its calls nest as in the   *)
(* code.  The application is a second process: it polls rkcg_q for         *)
(* rebalance ops and answers each one with assign().                       *)
(*                                                                         *)
(* The coordinator's own states (module Coordinator) are "down", "up" and  *)
(* "term" here.  Version barriers only ever tell the current requests from *)
(* outdated ones, so a request carries that bit and no number.             *)
(***************************************************************************)
EXTENDS Integers, Sequences, FiniteSets, Bags, SequencesExt

CONSTANTS
    Part,           \* the partitions of the subscribed topics
    Assignments,    \* the assignments a SyncGroup response may carry
    NoAsg,          \* a NULL assignment
    AutoCommit,     \* enable.auto.commit
    Delegate,       \* a rebalance_cb is registered
    Budget          \* how often each kind of environment step may happen

VARIABLES
    g,          \* the rd_kafka_cgrp_t, its queues and its requests
    tp,         \* the partitions' fetchers
    app,        \* the application thread
    budget,     \* what is left of Budget
    failed      \* history: the assertions that have failed

vars == <<g, tp, app, budget, failed>>

Spend(e) == /\ budget[e] > 0
            /\ budget' = [budget EXCEPT ![e] = @ - 1]

----------------------------------------------------------------------------
(* The control block.  dirty: some stored offset is not committed.  late:  *)
(* the session timeout has passed since the close began.                   *)

Init ==
    /\ g = [coord |-> "down", join |-> "init", flags |-> {}, sub |-> FALSE,
            leader |-> FALSE, asg |-> NoAsg, assigned |-> {}, waitUnassign |-> 0,
            waitCommit |-> 0, toppars |-> {}, waitCoord |-> <<>>,
            waitCoordReady |-> TRUE, dirty |-> FALSE, late |-> FALSE,
            ops |-> <<>>, batch |-> 0, reqs |-> EmptyBag, q |-> <<>>,
            errors |-> FALSE, closed |-> FALSE]
    /\ tp = [p \in Part |-> [fetch |-> "none", cgrp |-> FALSE, paused |-> FALSE]]
    /\ app = [phase |-> "poll", waits |-> FALSE]
    /\ budget = Budget
    /\ failed = {}

SetJoin(s, j) == [s EXCEPT !.join = j]
SetFlag(s, f) == [s EXCEPT !.flags = @ \cup {f}]
ClearFlag(s, f) == [s EXCEPT !.flags = @ \ {f}]
Enq(s, ops) == [s EXCEPT !.ops = @ \o ops]
Send(s, r) == [s EXCEPT !.reqs = @ (+) SetToBag({r})]
WaitRebalanceCb(s) == s.join \in {"wait_assign_cb", "wait_revoke_cb"}
CanFetchStart(s) == s.join = "assigned"
List(s) == IF s = NoAsg THEN <<>> ELSE SetToSeq(s)

Req(type) == [type |-> type, parts |-> {}, re |-> FALSE, versioned |-> FALSE,
              silent |-> FALSE, valid |-> TRUE, stale |-> FALSE]
Op(type, p, on) == [type |-> type, p |-> p, on |-> on]
Response(r, o) == [type |-> "response", req |-> r, outcome |-> o]

Outdate(r) == [r EXCEPT !.stale = r.versioned]
NewBarrier(s) ==
    [s EXCEPT !.reqs = BagOfAll(Outdate, @),
              !.ops = [i \in DOMAIN @ |->
                         IF @[i].type = "response"
                         THEN [@[i] EXCEPT !.req = Outdate(@)] ELSE @[i]]]

PauseResume(s, A, on) ==
    Enq(s, [i \in DOMAIN List(A) |-> Op("pause", List(A)[i], on)])

----------------------------------------------------------------------------
(* Termination. *)

TermReady(s) ==
    /\ ~WaitRebalanceCb(s)
    /\ s.toppars = {}
    /\ s.waitUnassign = 0
    /\ s.waitCommit = 0
    /\ "wait_unassign" \notin s.flags

(* Deferred commits go back to the queue for a last try once they have     *)
(* waited for the coordinator for a session timeout.                       *)
TimeOutWaitCoord(s) ==
    IF s.waitCoord # <<>> /\ s.late
    THEN [Enq(s, s.waitCoord) EXCEPT !.waitCoord = <<>>, !.waitCoordReady = FALSE]
    ELSE s

TryTerminate(s) ==
    IF s.coord = "term" \/ "terminate" \notin s.flags THEN s
    ELSE LET t == TimeOutWaitCoord(s)
         IN  IF TermReady(t) THEN [t EXCEPT !.coord = "term"] ELSE t

----------------------------------------------------------------------------
(* Fetchers. *)

OffsetsFetch(s, A) ==
    IF s.coord # "up" THEN s
    ELSE Send(s, [Req("offset_fetch") EXCEPT !.parts = A, !.versioned = TRUE])

StartFetchers(s, A) ==
    LET op(p) == Op(IF p \in s.assigned THEN "seek" ELSE "fetch_start", p, FALSE)
        t == [SetJoin(s, "started") EXCEPT !.assigned = @ \cup A]
    IN  Enq(t, [i \in DOMAIN List(A) |-> op(List(A)[i])])

PartitionsFetchStart(s, A, usable) ==
    IF s.waitCommit > 0 THEN s
    ELSE LET t == NewBarrier(s)
         IN  IF A = {} THEN t
             ELSE IF usable THEN StartFetchers(t, A) ELSE OffsetsFetch(t, A)

UnassignDone(s) ==
    LET t == ClearFlag(s, "leave")
    IN  TryTerminate(
            IF t.join # "wait_unassign" THEN t
            ELSE IF t.asg = NoAsg THEN SetJoin(t, "init")
            ELSE PartitionsFetchStart(SetJoin(t, "assigned"), t.asg, FALSE))

UnassignPending(s) ==
    \/ s.waitUnassign > 0
    \/ s.assigned # {}
    \/ s.waitCommit > 0
    \/ "wait_unassign" \in s.flags

CheckUnassignDone(s) == IF UnassignPending(s) THEN s ELSE UnassignDone(s)

----------------------------------------------------------------------------
(* Offset commits. *)

CanDefer(s, c) == ~c.re /\ s.waitCoordReady
Defer(s, c) == [s EXCEPT !.waitCoord =
                   Append(@, [c EXCEPT !.re = TRUE, !.versioned = FALSE, !.stale = FALSE])]

OffsetCommitDone(s, c, err) ==
    LET t == [s EXCEPT !.waitCommit = @ - 1,
                       !.dirty = IF err = "ok" THEN FALSE ELSE @]
        u == IF err = "ok" /\ t.waitCommit = 0 /\ t.asg # NoAsg /\ CanFetchStart(t)
             THEN PartitionsFetchStart(t, t.asg, FALSE) ELSE t
    IN  IF err = "destroy" \/ (err = "no_offset" /\ c.silent)
        THEN CheckUnassignDone(u)
        ELSE TryTerminate(IF u.join = "wait_unassign" THEN CheckUnassignDone(u) ELSE u)

HandleOffsetCommit(s, c, err) ==
    IF err \in {"not_coord", "coord_dead"} /\ CanDefer(s, c)
    THEN Defer(s, c) ELSE OffsetCommitDone(s, c, err)

(* Mutation: a deferred commit is counted again when it is retried. *)
OffsetsCommitAgain(s, c) ==
    LET t == [s EXCEPT !.waitCommit = @ + 1]
    IN  IF ~c.valid THEN HandleOffsetCommit(t, c, "no_offset")
        ELSE IF t.coord = "up" THEN Send(t, c)
        ELSE IF CanDefer(t, c) THEN Defer(t, c)
        ELSE HandleOffsetCommit(t, c, "wait_coord")

OffsetsCommit(s, c) ==
    LET t == IF c.re THEN s ELSE [s EXCEPT !.waitCommit = @ + 1]
    IN  IF ~c.valid THEN HandleOffsetCommit(t, c, "no_offset")
        ELSE IF t.coord = "up" THEN Send(t, c)
        ELSE IF CanDefer(t, c) THEN Defer(t, c)
        ELSE HandleOffsetCommit(t, c, "wait_coord")

AssignedOffsetsCommit(s, A) ==
    OffsetsCommit(s, [Req("commit") EXCEPT !.versioned = TRUE, !.silent = TRUE,
                                              !.valid = s.dirty /\ A \notin {NoAsg, {}}])

----------------------------------------------------------------------------
(* Assignments. *)

StopFetchers(s, A) ==
    LET stop == List(A \cap s.assigned)
    IN  [Enq(s, [i \in DOMAIN stop |-> Op("fetch_stop", stop[i], TRUE)])
            EXCEPT !.waitUnassign = @ + Len(stop)]

Unassign(s) ==
    LET t == ClearFlag(SetJoin(s, "wait_unassign"), "wait_unassign")
        u == NewBarrier([t EXCEPT !.asg = NoAsg])
        v == IF AutoCommit THEN AssignedOffsetsCommit(u, t.asg) ELSE u
    IN  IF t.asg = NoAsg THEN CheckUnassignDone(t)
        ELSE CheckUnassignDone(PauseResume(StopFetchers(v, t.asg), t.asg, FALSE))

Assign(s, A) ==
    LET t == NewBarrier(s)
        u == IF t.asg # NoAsg THEN Unassign(t) ELSE t
        v == [u EXCEPT !.asg = IF A = NoAsg THEN @ ELSE A]
        w == SetJoin(v, "assigned")
    IN  IF v.join = "wait_unassign" THEN v
        ELSE IF w.asg # NoAsg THEN PartitionsFetchStart(w, w.asg, FALSE) ELSE w

RebalanceOp(s, kind, A) ==
    LET t == PauseResume(s, s.asg, TRUE)
    IN  IF ~Delegate \/ A = NoAsg
        THEN IF kind = "assign" THEN Assign(t, A) ELSE Unassign(t)
        ELSE [SetJoin(t, IF kind = "assign" THEN "wait_assign_cb" ELSE "wait_revoke_cb")
                 EXCEPT !.q = Append(@, [kind |-> kind, parts |-> A])]

Revoke(s) ==
    IF "wait_unassign" \in s.flags THEN s
    ELSE RebalanceOp(SetFlag(s, "wait_unassign"), "revoke", s.asg)

HeartbeatError(s) ==
    IF s.join \notin {"wait_assign_cb", "assigned", "started"} THEN s
    ELSE Revoke(SetJoin(s, "init"))

----------------------------------------------------------------------------
(* Joining.  found: the metadata cache has the subscribed topics. *)

JoinGroup(s, found) ==
    IF s.coord = "up" /\ s.join = "init" /\ found
    THEN Send(SetJoin(s, "wait_join"), Req("join"))
    ELSE s

Rejoin(s, found) ==
    LET t == [s EXCEPT !.leader = FALSE]
    IN  IF t.asg = NoAsg THEN JoinGroup(SetJoin(t, "init"), found) ELSE Revoke(t)

Unsubscribe(s, leave) ==
    LET t == [s EXCEPT !.sub = FALSE, !.leader = FALSE,
                       !.flags = IF leave THEN @ \cup {"leave"} ELSE @]
    IN  ClearFlag(IF WaitRebalanceCb(t) THEN t ELSE Revoke(t), "subscription")

Subscribe(s, topics, found) ==
    LET t == Unsubscribe(s, FALSE)
    IN  IF ~topics THEN t
        ELSE JoinGroup([SetFlag(t, "subscription") EXCEPT !.sub = TRUE], found)

Terminate0(s) ==
    LET t == SetFlag(s, "terminate")
        u == IF "subscription" \in t.flags THEN Unsubscribe(t, TRUE) ELSE t
        v == IF WaitRebalanceCb(u) \/ "wait_unassign" \in u.flags THEN u ELSE Unassign(u)
    IN  TryTerminate(v)

AssignOp(s, A) == IF "terminate" \in s.flags THEN Unassign(s) ELSE Assign(s, A)

----------------------------------------------------------------------------
(* Responses. *)

\* The join failed: it is tried again, at the interval the join keeps.
JoinGroupError(s) == SetJoin(s, "init")

HandleJoinGroup(s, outcome) ==
    IF s.join # "wait_join" THEN s
    ELSE CASE outcome = "leader" ->
                Send([SetJoin(s, "wait_metadata") EXCEPT !.leader = TRUE], Req("metadata"))
           [] outcome = "follower" ->
                Send(SetJoin(s, "wait_sync"), Req("sync"))
           [] OTHER -> JoinGroupError(s)

HandleAssignorMetadata(s, outcome) ==
    IF s.join # "wait_metadata" \/ ~s.leader THEN s
    ELSE IF outcome = "ok" THEN Send(SetJoin(s, "wait_sync"), Req("sync"))
    ELSE SetJoin(s, "init")

HandleSyncGroup(s, outcome) ==
    IF s.join # "wait_sync" THEN s
    ELSE IF outcome = NoAsg \/ "terminate" \in s.flags THEN SetJoin(s, "init")
    ELSE RebalanceOp(s, "assign", outcome)

HandleHeartbeat(s, outcome) ==
    LET t == ClearFlag(s, "heartbeat")
    IN  IF outcome = "error" THEN HeartbeatError(t) ELSE t

OffsetsFetchResponse(s, r, outcome) ==
    IF r.stale THEN s
    ELSE IF outcome = "error" THEN [s EXCEPT !.errors = TRUE]
    ELSE IF CanFetchStart(s) THEN PartitionsFetchStart(s, r.parts, TRUE) ELSE s

HandleCommitResponse(s, c, outcome) ==
    LET err == IF c.stale THEN "destroy" ELSE outcome
        t == IF err = "coord_dead" /\ s.coord = "up" THEN [s EXCEPT !.coord = "down"] ELSE s
    IN  HandleOffsetCommit(t, c, err)

HandleResponse(s, r, outcome) ==
    CASE r.type = "join" -> HandleJoinGroup(s, outcome)
      [] r.type = "metadata" -> HandleAssignorMetadata(s, outcome)
      [] r.type = "sync" -> HandleSyncGroup(s, outcome)
      [] r.type = "heartbeat" -> HandleHeartbeat(s, outcome)
      [] r.type = "offset_fetch" -> OffsetsFetchResponse(s, r, outcome)
      [] r.type = "commit" -> HandleCommitResponse(s, r, outcome)

Outcomes(type) ==
    CASE type = "join" -> {"leader", "follower"}
      [] type = "sync" -> Assignments
      [] OTHER -> {"ok"}

Failures(type) ==
    CASE type = "commit" -> {"error", "not_coord", "coord_dead"}
      [] type = "sync" -> {NoAsg}
      [] OTHER -> {"error"}

----------------------------------------------------------------------------
(* The main thread serves its queue: rd_kafka_cgrp_op_serve and            *)
(* rd_kafka_toppar_op_serve.                                               *)

(* The loop of the main thread: take what is queued and serve it, then     *)
(* serve the group and run the timers.  batch: how many of the ops are     *)
(* taken.  What the others append meanwhile is not served before the next  *)
(* batch, so they are given their turn between two batches.                *)
TakeBatch ==
    /\ ~g.closed /\ g.batch = 0 /\ g.ops # <<>>
    /\ TryTerminate(g) = g
    /\ g.coord # "term"
    /\ g' = [g EXCEPT !.batch = Len(g.ops)]
    /\ UNCHANGED <<tp, app, budget, failed>>

Next1 == [g EXCEPT !.ops = Tail(@), !.batch = @ - 1]
Serves(type) == g.batch > 0 /\ Head(g.ops).type = type
Check(conditions) == failed' = failed \cup {a \in DOMAIN conditions : ~conditions[a]}

ServeFetchStart ==
    /\ Serves("fetch_start")
    /\ LET p == Head(g.ops).p
       IN  /\ Check([not_attached |-> ~tp[p].cgrp])
           /\ tp' = [tp EXCEPT ![p].fetch = "active", ![p].cgrp = TRUE]
           /\ g' = Enq(Next1, <<Op("partition_join", p, FALSE)>>)
    /\ UNCHANGED <<app, budget>>

ServeFetchStop ==
    /\ Serves("fetch_stop")
    /\ LET p == Head(g.ops).p
           leave == IF tp[p].cgrp THEN <<Op("partition_leave", p, FALSE)>> ELSE <<>>
           reply == IF Head(g.ops).on THEN <<Op("fetch_stopped", p, FALSE)>> ELSE <<>>
       IN  /\ tp' = [tp EXCEPT ![p].fetch = "stopped", ![p].cgrp = FALSE]
           /\ g' = Enq(Next1, leave \o reply)
    /\ UNCHANGED <<app, budget, failed>>

(* A seek of a partition that is fetched does not change its state. *)
ServePauseOrSeek ==
    /\ Serves("pause") \/ Serves("seek")
    /\ tp' = IF Head(g.ops).type = "seek" THEN tp
             ELSE [tp EXCEPT ![Head(g.ops).p].paused = Head(g.ops).on]
    /\ g' = Next1
    /\ UNCHANGED <<app, budget, failed>>

PartitionAdd ==
    /\ Serves("partition_join")
    /\ LET p == Head(g.ops).p
           t == [Next1 EXCEPT !.toppars = @ \cup {p}]
       IN  /\ Check([not_member |-> p \notin g.toppars])
           /\ g' = IF "terminate" \in g.flags
                   THEN Enq(t, <<Op("fetch_stop", p, FALSE)>>) ELSE t
    /\ UNCHANGED <<tp, app, budget>>

PartitionDel ==
    /\ Serves("partition_leave")
    /\ LET p == Head(g.ops).p
       IN  /\ Check([member |-> p \in g.toppars])
           /\ g' = TryTerminate([Next1 EXCEPT !.toppars = @ \ {p}])
    /\ UNCHANGED <<tp, app, budget>>

(* Mutation: a stopped partition stays assigned. *)
FetchStoppedKeeps ==
    /\ Serves("fetch_stopped")
    /\ g' = [Next1 EXCEPT !.waitUnassign = @ - 1]
    /\ UNCHANGED <<tp, app, budget, failed>>

ServeFetchStopped ==
    /\ Serves("fetch_stopped")
    /\ LET p == Head(g.ops).p
           t == [Next1 EXCEPT !.waitUnassign = @ - 1, !.assigned = @ \ {p}]
       IN  /\ Check([unassigning |-> g.waitUnassign > 0, assigned |-> p \in g.assigned])
           /\ g' = IF t.join = "wait_unassign" THEN CheckUnassignDone(t) ELSE t
    /\ UNCHANGED <<tp, app, budget>>

ServeCommit ==
    /\ Serves("commit")
    /\ g' = OffsetsCommit(Next1, Head(g.ops))
    /\ UNCHANGED <<tp, app, budget, failed>>

ServeAssign ==
    /\ Serves("assign")
    /\ g' = AssignOp(Next1, Head(g.ops).parts)
    /\ app' = [app EXCEPT !.waits = FALSE]
    /\ UNCHANGED <<tp, budget, failed>>

ServeSubscribe(found) ==
    /\ Serves("subscribe")
    /\ g' = Subscribe(Next1, Head(g.ops).on, found)
    /\ app' = [app EXCEPT !.waits = FALSE]
    /\ IF BagCardinality(g'.reqs) > BagCardinality(g.reqs)
       THEN Spend("join") ELSE UNCHANGED budget
    /\ UNCHANGED <<tp, failed>>

ServeTerminate ==
    /\ Serves("terminate")
    /\ g' = Terminate0(Next1)
    /\ UNCHANGED <<tp, app, budget, failed>>

ServeResponse ==
    /\ Serves("response")
    /\ LET r == Head(g.ops).req
       IN  /\ Check([commits |-> r.type = "commit" => g.waitCommit > 0,
                     in_transit |-> r.type = "heartbeat" => "heartbeat" \in g.flags])
           /\ g' = HandleResponse(Next1, r, Head(g.ops).outcome)
    /\ UNCHANGED <<tp, app, budget>>

(* A new topic list for the subscription: rejoin. *)
MetadataUpdate(found) ==
    /\ ~g.closed /\ g.batch = 0 /\ g.sub /\ g.coord # "term"
    /\ g' = Rejoin(g, found)
    /\ budget["change"] > 0
    /\ LET joined == BagCardinality(g'.reqs) > BagCardinality(g.reqs)
       IN  /\ joined => budget["join"] > 0
           /\ budget' = [budget EXCEPT !["change"] = @ - 1,
                                       !["join"] = IF joined THEN @ - 1 ELSE @]
    /\ UNCHANGED <<tp, app, failed>>

(* The auto commit timer. *)
OffsetCommitTimer ==
    /\ AutoCommit /\ ~g.closed /\ g.batch = 0
    /\ Spend("timer")
    /\ g' = AssignedOffsetsCommit(g, g.asg)
    /\ UNCHANGED <<tp, app, failed>>

----------------------------------------------------------------------------
(* Between two batches of ops: rd_kafka_cgrp_serve. *)

Heartbeat(s) ==
    IF "heartbeat" \in s.flags THEN s ELSE Send(SetFlag(s, "heartbeat"), Req("heartbeat"))

JoinStateServe(s, found, due) ==
    IF s.join = "init"
    THEN IF s.sub THEN JoinGroup(s, found) ELSE s
    ELSE IF /\ s.join \in {"wait_assign_cb", "assigned", "started"}
            /\ "subscription" \in s.flags
            /\ due
    THEN Heartbeat(s) ELSE s

Joins(s) == s.join = "wait_join" /\ g.join # "wait_join"
SpendJoin(s) == IF Joins(s) THEN Spend("join") ELSE UNCHANGED budget

(* The group is terminated: the reply ends the application's close. *)
Terminated ==
    /\ ~g.closed /\ g.batch = 0
    /\ LET t == TryTerminate(g)
       IN  /\ t.coord = "term"
           /\ Check([no_unassign |-> t.waitUnassign = 0, no_commit |-> t.waitCommit = 0,
                     not_unassigning |-> "wait_unassign" \notin t.flags])
           /\ g' = [t EXCEPT !.closed = TRUE, !.waitCoord = <<>>, !.ops = <<>>,
                             !.reqs = EmptyBag]
    /\ app' = [app EXCEPT !.phase = "closed"]
    /\ UNCHANGED <<tp, budget>>

Serving(s) == /\ ~g.closed
              /\ g.batch = 0
              /\ s = TryTerminate(g)
              /\ s.coord # "term"

(* The coordinator's connection has come up. *)
CoordUp(found, due) ==
    \E s \in {TryTerminate(g)} :
        /\ Serving(s)
        /\ s.coord = "down"
        /\ LET t == JoinStateServe([s EXCEPT !.coord = "up"], found, due)
           IN  /\ g' = IF t.asg # NoAsg /\ CanFetchStart(t)
                       THEN PartitionsFetchStart(t, t.asg, FALSE) ELSE t
               /\ SpendJoin(t)
        /\ UNCHANGED <<tp, app, failed>>

CoordLost ==
    /\ Serving(TryTerminate(g))
    /\ g.coord = "up"
    /\ Spend("coord")
    /\ g' = TryTerminate([g EXCEPT !.coord = "down"])
    /\ UNCHANGED <<tp, app, failed>>

ServeUp(found, due) ==
    \E s \in {TryTerminate(g)} :
        /\ Serving(s)
        /\ s.coord = "up"
        /\ LET t == JoinStateServe(Enq([s EXCEPT !.waitCoord = <<>>], s.waitCoord), found, due)
           IN  /\ g' = t
               /\ t # g
               /\ SpendJoin(t)
        /\ UNCHANGED <<tp, app, failed>>

(* Without a coordinator; the oldest deferred commit may have waited long  *)
(* enough.                                                                 *)
ServeDown(expired) ==
    \E s \in {TryTerminate(g)} :
        /\ Serving(s)
        /\ s.coord = "down"
        /\ IF expired /\ s.waitCoord # <<>>
           THEN g' = HandleOffsetCommit([s EXCEPT !.waitCoord = Tail(@)],
                                        Head(s.waitCoord), "wait_coord")
           ELSE g' = s /\ s # g
        /\ UNCHANGED <<tp, app, budget, failed>>

----------------------------------------------------------------------------
(* The brokers and the clock. *)

Respond(r, outcome) ==
    /\ ~g.closed /\ g.batch = 0
    /\ \/ outcome \in Outcomes(r.type) /\ UNCHANGED budget
       \/ outcome \in Failures(r.type) /\ Spend("error")
    /\ g' = Enq([g EXCEPT !.reqs = @ (-) SetToBag({r})], <<Response(r, outcome)>>)
    /\ UNCHANGED <<tp, app, failed>>

SessionTimeout ==
    /\ "terminate" \in g.flags /\ ~g.late /\ ~g.closed /\ g.batch = 0
    /\ g' = [g EXCEPT !.late = TRUE]
    /\ UNCHANGED <<tp, app, budget, failed>>

(* A message of a started partition reaches the application, which stores  *)
(* its offset.                                                             *)
Consume ==
    /\ g.join = "started" /\ ~g.dirty /\ g.batch = 0
    /\ \E p \in Part : tp[p].fetch = "active"
    /\ Spend("consume")
    /\ g' = [g EXCEPT !.dirty = TRUE]
    /\ UNCHANGED <<tp, app, failed>>

----------------------------------------------------------------------------
(* The application. *)

AppOp(op) == g' = Enq(g, <<op>>)
Calls(phases) == ~app.waits /\ app.phase \in phases /\ g.batch = 0

AppSubscribe(topics) ==
    /\ Calls({"poll"})
    /\ Spend("change")
    /\ AppOp(Op("subscribe", NoAsg, topics))
    /\ app' = [app EXCEPT !.waits = TRUE]
    /\ UNCHANGED <<tp, failed>>

(* rebalance_cb: assign() what was given, or NULL on a revoke. *)
AppRebalance ==
    /\ Calls({"poll", "close"})
    /\ g.q # <<>>
    /\ LET e == Head(g.q)
           A == IF e.kind = "assign" THEN e.parts ELSE NoAsg
       IN  g' = Enq([g EXCEPT !.q = Tail(@)], <<[type |-> "assign", parts |-> A]>>)
    /\ app' = [app EXCEPT !.waits = TRUE]
    /\ UNCHANGED <<tp, budget, failed>>

(* A commit, while polling or from a rebalance_cb. *)
AppCommit ==
    /\ app.phase = "poll" \/ (app.phase = "close" /\ g.q # <<>>)
    /\ g.batch = 0
    /\ Spend("commit")
    /\ AppOp(Req("commit"))
    /\ UNCHANGED <<tp, app, failed>>

AppClose ==
    /\ Calls({"poll"})
    /\ AppOp([type |-> "terminate"])
    /\ app' = [app EXCEPT !.phase = "close"]
    /\ UNCHANGED <<tp, budget, failed>>

Done == g.closed /\ UNCHANGED vars

ServeOp ==
    \/ TakeBatch \/ ServeFetchStart \/ ServeFetchStop \/ ServePauseOrSeek
    \/ PartitionAdd \/ PartitionDel \/ ServeFetchStopped
    \/ ServeCommit \/ ServeAssign \/ ServeTerminate \/ ServeResponse
    \/ \E found \in BOOLEAN : ServeSubscribe(found)

Next ==
    \/ ServeOp
    \/ \E found \in BOOLEAN : MetadataUpdate(found)
    \/ OffsetCommitTimer
    \/ \E found, due \in BOOLEAN : CoordUp(found, due) \/ ServeUp(found, due)
    \/ CoordLost \/ Terminated
    \/ \E expired \in BOOLEAN : ServeDown(expired)
    \/ \E r \in BagToSet(g.reqs) :
          \E o \in Outcomes(r.type) \cup Failures(r.type) : Respond(r, o)
    \/ SessionTimeout \/ Consume
    \/ \E topics \in BOOLEAN : AppSubscribe(topics)
    \/ AppRebalance \/ AppCommit \/ AppClose
    \/ Done

Spec == Init /\ [][Next]_vars

----------------------------------------------------------------------------
(* Properties. *)

InFlight(type) ==
    MapThenSumSet(LAMBDA r : CopiesIn(r, g.reqs),
                  {r \in BagToSet(g.reqs) : r.type = type})
Queued(P(_)) == Cardinality({i \in DOMAIN g.ops : P(g.ops[i])})
Answered(type) == Queued(LAMBDA o : o.type = "response" /\ o.req.type = type)

(* rkcg_wait_commit_cnt counts every commit that is on its way, whether    *)
(* sent, answered, deferred for want of a coordinator or requeued, once.   *)
CommitsAccounted ==
    ~g.closed =>
        g.waitCommit = InFlight("commit") + Answered("commit") + Len(g.waitCoord)
                       + Queued(LAMBDA o : o.type = "commit" /\ o.re)

(* rkcg_wait_unassign_cnt counts the fetchers that were told to stop and   *)
(* have not been seen to: it drops to 0 neither early nor never.           *)
UnassignsAccounted ==
    ~g.closed =>
        g.waitUnassign = Queued(LAMBDA o : o.type = "fetch_stopped")
                         + Queued(LAMBDA o : o.type = "fetch_stop" /\ o.on)

(* At most one heartbeat is in transit, and the flag says so. *)
OneHeartbeat ==
    ~g.closed =>
        InFlight("heartbeat") + Answered("heartbeat")
            = IF "heartbeat" \in g.flags THEN 1 ELSE 0

(* Once the queue is empty the partitions that are fetched are those       *)
(* attached to the group, and those counted as assigned (a partition that  *)
(* joins a closing group is stopped at once and counted until the revoke). *)
FetchersMatch ==
    g.ops = <<>> /\ ~g.closed =>
        LET active == {p \in Part : tp[p].fetch = "active"}
        IN  /\ active = {p \in Part : tp[p].cgrp}
            /\ active = g.toppars
            /\ IF "terminate" \in g.flags THEN active \subseteq g.assigned
               ELSE active = g.assigned

(* The assertions of the group's handlers hold, but for two: a partition   *)
(* unassigned twice is no longer assigned when it has stopped for the      *)
(* second time, and a commit asked for once the group has decided to       *)
(* terminate is still counted when it does.                                *)
AssertionsHold == failed \subseteq {"assigned", "no_commit"}

(* A fetcher is only left running for a partition of the assignment, or    *)
(* one that is about to be stopped.                                        *)
FetchesItsAssignment ==
    g.ops = <<>> /\ g.join = "started" =>
        /\ g.asg # NoAsg
        /\ g.assigned \subseteq g.asg

=============================================================================
