---------------------------- MODULE ClientCalls ----------------------------
(***************************************************************************)
(* The calls of librdkafka that block an application thread until brokers  *)
(* have answered (rdkafka.c): rd_kafka_query_watermark_offsets,            *)
(* rd_kafka_offsets_for_times, rd_kafka_list_groups, rd_kafka_committed    *)
(* and rd_kafka_controllerid.  A call sends its requests, serves a         *)
(* temporary queue whose callbacks fill a state on its stack, and returns  *)
(* when that state says so or its time is up; replies that come later find *)
(* the queue destroyed.  Brokers answer in any order, fail, or are slow.   *)
(***************************************************************************)
EXTENDS Integers, Sequences, FiniteSets, SequencesExt, TLC

CONSTANTS
    Calls,          \* the calls that are made
    Brokers,        \* leaders of the partitions, members of the cluster
    Groups,         \* Groups[b]: the groups broker b coordinates
    Low, High,      \* the true watermarks of the partition
    Errs,           \* what answers may be besides "ok"
    MaxRetry,       \* how often a request is retried
    MaxVersion,     \* how often brokers change state
    Timed           \* whether the caller gave a finite timeout_ms

VARIABLES
    c,              \* the call: its pc and the state on its stack
    net,            \* requests under way
    q,              \* replies on the call's queue
    version,        \* rk_broker_state_change_version
    up,             \* metadata was received, the coordinator is up
    expired,        \* the call's time is up
    touched         \* a callback used the state of a call that had returned

vars == <<c, net, q, version, up, expired, touched>>

BEGINNING == -2
END == -1

Init ==
    /\ \E k \in Calls : c = [kind |-> k, pc |-> "call"]
    /\ net = {}
    /\ q = <<>>
    /\ version = 1
    /\ up = FALSE
    /\ expired = FALSE
    /\ touched = FALSE

Return(e) == [c EXCEPT !.pc = "returned", !.err = e]

-----------------------------------------------------------------------------
(* rd_kafka_query_watermark_offsets *)

Request(b, w) == [b |-> b, what |-> w, n |-> 0]

QueryWatermarks ==
    /\ c.kind = "wmark" /\ c.pc = "call"
    /\ \E b \in Brokers : net' = {Request(b, "low"), Request(b, "high")}
    /\ c' = [kind |-> "wmark", pc |-> "loop", err |-> "in_progress", offidx |-> 0,
             offsets |-> <<BEGINNING, END>>, sv |-> version, low |-> 0, high |-> 0]
    /\ UNCHANGED <<q, version, up, expired, touched>>

\* rd_kafka_query_wmark_offsets_resp_cb, for a reply that is not retried
WatermarkReply(s, r) ==
    LET i == s.offidx
        t == [s EXCEPT !.offidx = i + 1,
                       !.offsets = IF r.err = "ok" THEN [@ EXCEPT ![i + 1] = r.val] ELSE @]
    IN IF r.err = "destroy" THEN s
       ELSE IF r.err /= "ok" \/ t.offidx = 2 THEN [t EXCEPT !.err = r.err] ELSE t

\* We are not certain about the returned order.
Ordered(o) == IF o[1] < o[2] THEN o ELSE <<o[2], o[1]>>

WatermarkResult(s) ==
    LET o == Ordered(s.offsets)
        low == IF o[1] < 0 /\ o[2] >= 0 THEN o[2] ELSE o[1]
    IN IF s.err /= "ok" THEN [s EXCEPT !.pc = "returned"]
       ELSE IF s.offidx /= 2 THEN [s EXCEPT !.pc = "returned", !.err = "fail"]
       ELSE [s EXCEPT !.pc = "returned", !.low = low, !.high = o[2]]

WatermarkWaits(s) == s.err = "in_progress"

-----------------------------------------------------------------------------
(* rd_kafka_offsets_for_times: one request for each leader *)

OffsetsForTimes ==
    /\ c.kind = "times" /\ c.pc = "call"
    /\ net' = {Request(b, "times") : b \in Brokers}
    /\ c' = [kind |-> "times", pc |-> "loop", err |-> "ok", wait |-> Cardinality(Brokers),
             results |-> {}, sv |-> 0, updated |-> {}]
    /\ UNCHANGED <<q, version, up, expired, touched>>

\* rd_kafka_get_offsets_for_times_resp_cb
TimesReply(s, r) ==
    IF r.err = "destroy" THEN s
    ELSE [s EXCEPT !.results = IF r.err = "ok" THEN @ \cup {r.b} ELSE @,
                   !.err = IF r.err /= "ok" /\ @ = "ok" THEN r.err ELSE @,
                   !.wait = @ - 1]

\* Mutation: a call whose time is up returns what it has.
TimesErr_partial(s) == s.err

TimesErr(s) == IF s.wait > 0 /\ s.err = "ok" THEN "timed_out" ELSE s.err

TimesResult(s) ==
    [s EXCEPT !.pc = "returned", !.err = TimesErr(s),
              !.updated = IF TimesErr(s) = "ok" THEN s.results ELSE {}]

-----------------------------------------------------------------------------
(* rd_kafka_list_groups *)

ListGroups ==
    /\ c.kind = "groups" /\ c.pc = "call"
    /\ c' = [kind |-> "groups", pc |-> "metadata", err |-> "ok", wait |-> 0, sv |-> version,
             list |-> {}]
    /\ UNCHANGED <<net, q, version, up, expired, touched>>

\* Until metadata has been received, wait for a change since sv.
GroupsMetadata ==
    /\ c.kind = "groups" /\ c.pc = "metadata"
    /\ \/ /\ up
          /\ net' = {Request(b, "list") : b \in Brokers}
          /\ c' = [c EXCEPT !.pc = "loop", !.wait = Cardinality(Brokers)]
       \/ /\ ~up /\ version /= c.sv
          /\ UNCHANGED <<c, net>>
       \/ /\ ~up /\ version = c.sv /\ expired
          /\ c' = Return("timed_out")
          /\ UNCHANGED net
    /\ UNCHANGED <<q, version, up, expired, touched>>

\* rd_kafka_ListGroups_resp_cb and rd_kafka_DescribeGroups_resp_cb; a broker with
\* no groups ends its part of the call without touching the error.
GroupsReply(s, r) ==
    LET t == [s EXCEPT !.wait = @ - 1]
    IN CASE r.err = "destroy" -> s
         [] r.err \notin {"ok", "destroy"} -> [t EXCEPT !.err = r.err]
         [] r.err = "ok" /\ r.what = "list" /\ Groups[r.b] = {} -> t
         [] r.err = "ok" /\ r.what = "list" /\ Groups[r.b] /= {} ->
               [t EXCEPT !.wait = @ + 1, !.err = "ok"]
         [] r.err = "ok" /\ r.what = "describe" ->
               [t EXCEPT !.list = @ \cup Groups[r.b], !.err = "ok"]

Describe(r) == IF r.what = "list" /\ r.err = "ok" /\ Groups[r.b] /= {}
               THEN {Request(r.b, "describe")} ELSE {}

GroupsErr(s) ==
    IF s.wait > 0 /\ s.err = "ok" THEN IF s.list = {} THEN "timed_out" ELSE "partial"
    ELSE s.err

GroupsResult(s) == [s EXCEPT !.pc = "returned", !.err = GroupsErr(s)]

-----------------------------------------------------------------------------
(* Serving the call's queue *)

\* rd_kafka_q_serve takes all replies at once; the loop's condition is looked at
\* again when they have been served.
Waits(s) == IF s.kind = "wmark" THEN WatermarkWaits(s) ELSE s.wait > 0 /\ ~expired

Serve ==
    /\ c.pc = "loop" /\ Waits(c) /\ q /= <<>>
    /\ c' = [pc |-> "serve", batch |-> q] @@ c
    /\ q' = <<>>
    /\ UNCHANGED <<net, version, up, expired, touched>>

Apply(s, r) ==
    CASE s.kind = "wmark"  -> WatermarkReply(s, r)
      [] s.kind = "times"  -> TimesReply(s, r)
      [] s.kind = "groups" -> GroupsReply(s, r)
      [] OTHER -> s

\* The callback of the first reply of the batch.
Done(rest) == IF rest = <<>> THEN "loop" ELSE "serve"

Callback ==
    /\ c.pc = "serve"
    /\ LET r == Head(c.batch)
       IN /\ c' = [Apply(c, r) EXCEPT !.batch = Tail(c.batch), !.pc = Done(Tail(c.batch))]
          /\ net' = net \cup (IF c.kind = "groups" THEN Describe(r) ELSE {})
    /\ UNCHANGED <<q, version, up, expired, touched>>

\* The callback sends the request again: by rd_kafka_handle_Offset, or because a
\* broker has changed state since the call looked (it waits for that while the
\* call has time).
Retry ==
    /\ c.pc = "serve" /\ c.kind \in {"wmark", "times"}
    /\ LET r == Head(c.batch)
       IN /\ r.err = "transport" /\ r.n < MaxRetry
          /\ version /= c.sv
          /\ net' = net \cup {[b |-> r.b, what |-> r.what, n |-> r.n + 1]}
          /\ c' = [c EXCEPT !.batch = Tail(@), !.pc = Done(Tail(c.batch)), !.sv = version]
    /\ UNCHANGED <<q, version, up, expired, touched>>

\* The loop ends: the queue is destroyed, and what is on it answered with DESTROY.
Leave ==
    /\ c.pc = "loop" /\ ~Waits(c)
    /\ c' = CASE c.kind = "wmark"  -> WatermarkResult(c)
              [] c.kind = "times"  -> TimesResult(c)
              [] c.kind = "groups" -> GroupsResult(c)
    /\ q' = <<>>
    /\ UNCHANGED <<net, version, up, expired, touched>>

-----------------------------------------------------------------------------
(* rd_kafka_committed: ask the group, and again after a change *)

\* The version a wait compares with: the one read before the request.
StateVersion(old, new) == old

Committed ==
    /\ c.kind = "committed" /\ c.pc \in {"call", "again"}
    /\ net' = {Request(CHOOSE b \in Brokers : TRUE, "fetch")}
    /\ c' = [kind |-> "committed", pc |-> "pop", err |-> "ok", sv |-> version]
    /\ UNCHANGED <<q, version, up, expired, touched>>

CommittedReply ==
    /\ c.kind = "committed" /\ c.pc = "pop" /\ q /= <<>>
    /\ LET r == Head(q)
       IN c' = IF r.err = "wait_coord"
               THEN [c EXCEPT !.pc = "wait", !.sv = StateVersion(@, version)]
               ELSE Return(r.err)
    /\ q' = Tail(q)
    /\ UNCHANGED <<net, version, up, expired, touched>>

CommittedWaited ==
    /\ c.kind = "committed"
    /\ \/ c.pc = "wait" /\ version /= c.sv /\ c' = [c EXCEPT !.pc = "again"]
       \/ c.pc = "wait" /\ version = c.sv /\ expired /\ c' = Return("timed_out")
       \/ c.pc = "pop" /\ q = <<>> /\ expired /\ c' = Return("timed_out")
    /\ UNCHANGED <<net, q, version, up, expired, touched>>

-----------------------------------------------------------------------------
(* rd_kafka_controllerid: take the version, then look *)

ControllerVersion ==
    /\ c.kind = "controller" /\ c.pc = "call"
    /\ c' = [kind |-> "controller", pc |-> "look", err |-> "none", sv |-> version]
    /\ UNCHANGED <<net, q, version, up, expired, touched>>

ControllerLook ==
    /\ c.kind = "controller" /\ c.pc = "look"
    /\ c' = IF up THEN Return("ok") ELSE IF expired THEN Return("none")
            ELSE [c EXCEPT !.pc = "wait", !.sv = StateVersion(@, version)]
    /\ UNCHANGED <<net, q, version, up, expired, touched>>

ControllerWaited ==
    /\ c.kind = "controller" /\ c.pc = "wait"
    /\ version /= c.sv \/ expired
    /\ c' = [c EXCEPT !.pc = "call"]
    /\ UNCHANGED <<net, q, version, up, expired, touched>>

-----------------------------------------------------------------------------
(* Brokers, replies and time *)

Value(w) == CASE w = "low" -> Low [] w = "high" -> High [] OTHER -> 0

\* A broker, or the request layer on its behalf, answers.  The group answers an
\* OffsetFetch with WAIT_COORD as long as its coordinator is not up.
Reply(r) ==
    {[b |-> r.b, what |-> r.what, n |-> r.n, err |-> e, val |-> Value(r.what)] :
        e \in IF r.what = "fetch" THEN {IF up THEN "ok" ELSE "wait_coord"} ELSE {"ok"} \cup Errs}

Answer(r) ==
    /\ r \in net /\ c.pc /= "returned"
    /\ \E a \in Reply(r) : q' = Append(q, a)
    /\ net' = net \ {r}
    /\ UNCHANGED <<c, version, up, expired, touched>>

\* What becomes of an answer to a queue that was destroyed: its op is refused and
\* destroyed, which calls the callback with DESTROY whatever the broker said.
Refused(a) == [a EXCEPT !.err = "destroy"]

\* The callback is called at once, with a pointer to the stack of a call that has
\* returned; one that uses it changes what is there.
LateAnswer(r) ==
    /\ r \in net /\ c.pc = "returned"
    /\ \E a \in Reply(r) : touched' = (touched \/ Apply(c, Refused(a)) /= c)
    /\ net' = net \ {r}
    /\ UNCHANGED <<c, q, version, up, expired>>

StateChange ==
    /\ version < MaxVersion
    /\ version' = version + 1
    /\ UNCHANGED <<c, net, q, up, expired, touched>>

\* Metadata arrives, the coordinator comes up: rd_kafka_brokers_broadcast_state_change
ComesUp ==
    /\ ~up
    /\ up' = TRUE
    /\ version' = version + 1
    /\ UNCHANGED <<c, net, q, expired, touched>>

Expire ==
    /\ Timed /\ ~expired
    /\ expired' = TRUE
    /\ UNCHANGED <<c, net, q, version, up, touched>>

-----------------------------------------------------------------------------
Call == QueryWatermarks \/ OffsetsForTimes \/ ListGroups \/ Committed \/ ControllerVersion

Step ==
    \/ GroupsMetadata \/ Serve \/ Callback \/ Retry \/ Leave
    \/ CommittedReply \/ CommittedWaited \/ ControllerLook \/ ControllerWaited

Next ==
    \/ Call
    \/ Step
    \/ \E r \in net : Answer(r) \/ LateAnswer(r)
    \/ StateChange \/ ComesUp \/ Expire

Spec == Init /\ [][Next]_vars

-----------------------------------------------------------------------------
(* Properties *)

Returned(k) == c.kind = k /\ c.pc = "returned"

\* rd_kafka_query_watermark_offsets that returns NO_ERROR returns the low and
\* the high watermark, whichever of the two requests is answered first.
WatermarksTrue == (Returned("wmark") /\ c.err = "ok") => c.low = Low /\ c.high = High

\* rd_kafka_offsets_for_times updates the application's list for all leaders or,
\* when one of them failed or was late, not at all.
AllOrNothing ==
    Returned("times") => c.updated = IF c.err = "ok" THEN Brokers ELSE {}

AllGroups == UNION {Groups[b] : b \in Brokers}

\* rd_kafka_list_groups that returns NO_ERROR returns every group of the cluster.
ListComplete == (Returned("groups") /\ c.err = "ok") => c.list = AllGroups

\* The callback of a reply that comes after the call has returned leaves the
\* stack, which is no longer the call's, as it is.
StateInScope == ~touched

=============================================================================
