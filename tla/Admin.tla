-------------------------------- MODULE Admin --------------------------------
(***************************************************************************)
(* librdkafka's Admin API (rdkafka_admin.c).  Its data: the objects an     *)
(* application builds (NewTopic, NewPartitions, ConfigResource,            *)
(* AdminOptions), the five protocol requests made from them and the five   *)
(* response parsers; what a request carries is kept, how it is laid out is *)
(* not.  Its asynchronous side: one                                        *)
(* op (rko) per request, whose worker is a state machine run by the main   *)
(* thread, and an enqueue-once object (eonce) through which a timer, a     *)
(* broker state change or a broker's answer may wake it, once.  The owner, *)
(* the timer, the waiter list and the request under way each hold a        *)
(* reference to the eonce.  Application, main thread, broker threads and   *)
(* instance termination interleave.                                        *)
(***************************************************************************)
EXTENDS Integers, Sequences, FiniteSets, SequencesExt, FiniteSetsExt

CONSTANTS
    PartitionsMax,      \* RD_KAFKAP_PARTITIONS_MAX
    BrokersMax,         \* RD_KAFKAP_BROKERS_MAX
    Reqs,           \* Admin requests of the application
    Brokers,        \* broker ids
    Drafts,         \* what the application starts from: [for, api, args, opts]
    Topics,         \* topics the application adds to a draft
    PartCounts, Factors,        \* numbers it asks for
    MaxArgs,        \* bound: objects per request
    MaxAssign,      \* bound: replica assignments tried per request
    Versions,       \* highest request versions a broker may support (-1: none)
    Codes,          \* per-topic codes a broker answers
    Faulty,         \* TRUE: a broker may answer what was not asked
    MaxChanges,     \* bound: broker state changes
    Terminating     \* TRUE: the application may destroy the instance

VARIABLES
    draft,          \* the application's objects, per request
    accepted,       \* replica assignments the setters accepted, per request
    s,              \* the library: ops, eonces, timers, queues (a record)
    up, controller, \* which brokers are up; rk_controllerid
    version,        \* the request version supported by the brokers
    changes         \* broker state changes so far

vars == <<draft, accepted, s, up, controller, version, changes>>

TopicApis == {"create", "delete", "parts"}
ConfigApis == {"alter", "describe"}
\* A list position that holds no element (a NULL pointer in an rd_list_t).
Hole == [hole |-> TRUE]

----------------------------------------------------------------------------
(* AdminOptions: which option a for_api value enables, and its setters.    *)

\* AdminOptions_init: the options a purpose leaves enabled ("any" is the
\* purpose of the options made for a NULL pointer).
AdminOptions_init(for) ==
    {"request_timeout", "broker"}
      \cup (IF for \in {"any", "create", "delete", "parts"}
            THEN {"operation_timeout"} ELSE {})
      \cup (IF for \in {"any", "create", "parts", "alter"}
            THEN {"validate_only"} ELSE {})
      \cup (IF for \in {"any", "alter"} THEN {"incremental"} ELSE {})

\* The ranges given to rd_kafka_confval_init_int.
OptionInRange(name, v) ==
    CASE name = "operation_timeout" -> v >= -1
      [] name = "validate_only" -> v \in {0, 1}
      [] name = "broker" -> v >= 0
      [] OTHER -> FALSE

\* The setters: refused when disabled for this purpose or out of range;
\* set_incremental is refused always (not implemented).
AdminOptions_set(opts, for, name, v) ==
    IF name \in AdminOptions_init(for) /\ OptionInRange(name, v)
    THEN [opts EXCEPT ![name] = v]
    ELSE opts

----------------------------------------------------------------------------
(* NewTopic and NewPartitions, and their replica assignments.              *)

NewTopic_ok(parts, factor) ==
    parts \in 1..PartitionsMax /\ factor \in -1..BrokersMax

NewTopic_new(topic, parts, factor) ==
    [topic |-> topic, parts |-> parts, factor |-> factor, replicas |-> <<>>]

NewPartitions_ok(total) == total \in 1..PartitionsMax

NewPartitions_new(topic, total) ==
    [topic |-> topic, parts |-> total, factor |-> -1, replicas |-> <<>>]

\* rd_list_add on the fixed-size replica list: rd_list_grow asserts that the
\* list is not of fixed size, so one element too many ends the process.
list_add_aborts(t) == Len(t.replicas) = t.parts

\* The checks of NewTopic_set_replica_assignment and, for a NewPartitions
\* (whose factor is always -1), NewPartitions_set_replica_assignment.
assignment_err(t, partition, brokers) ==
    \/ t.factor # -1
    \/ partition # Len(t.replicas)
    \/ Len(brokers) > BrokersMax

set_replica_assignment(t, partition, brokers) ==
    IF assignment_err(t, partition, brokers) \/ list_add_aborts(t)
    THEN t
    ELSE [t EXCEPT !.replicas = Append(@, [partition |-> partition, brokers |-> brokers])]

----------------------------------------------------------------------------
(* ConfigResource: a type, a name and entries to set, add or delete.       *)

ConfigResource_new(type, name) == [topic |-> <<type, name>>, ops |-> {}]

ConfigResource_config(c, op) == [c EXCEPT !.ops = @ \cup {op}]

\* get_single_broker_id: at most one resource of type BROKER; its name is the
\* id of the broker to talk to.
BrokerResources(args) == SelectSeq(args, LAMBDA c : c.topic[1] = "broker")

get_single_broker_id(args) ==
    LET b == BrokerResources(args)
    IN  IF Len(b) > 1 THEN [err |-> TRUE, id |-> -1]
        ELSE IF b = <<>> THEN [err |-> FALSE, id |-> -1]
        ELSE [err |-> b[1].topic[2] < 0, id |-> b[1].topic[2]]

----------------------------------------------------------------------------
(* The requests.  ver is the highest version of the request the broker     *)
(* supports (-1: none), capped at what the client knows.                   *)

\* ApiVersion_supported: the highest version both sides support.
ApiVersion_supported(ver, max) == IF ver > max THEN max ELSE ver

CreateTopicsRequest(args, opts, ver) ==
    LET v == ApiVersion_supported(ver, 2)
    IN  IF args = <<>> THEN "_INVALID_ARG"
        ELSE IF v = -1 THEN "_UNSUPPORTED_FEATURE"
        ELSE IF opts.validate_only = 1 /\ v < 1 THEN "_UNSUPPORTED_FEATURE"
        ELSE "none"

DeleteTopicsRequest(args, opts, ver) ==
    IF args = <<>> THEN "_INVALID_ARG"
    ELSE IF ApiVersion_supported(ver, 1) = -1 THEN "_UNSUPPORTED_FEATURE"
    ELSE "none"

CreatePartitionsRequest(args, opts, ver) ==
    IF args = <<>> THEN "_INVALID_ARG"
    ELSE IF ApiVersion_supported(ver, 0) = -1 THEN "_UNSUPPORTED_FEATURE"
    ELSE "none"

\* Version 0 is the highest the client asks for, so incremental updates and
\* entries other than SET are always refused.
AlterConfigsRequest(args, opts, ver) ==
    IF args = <<>> THEN "_INVALID_ARG"
    ELSE IF ApiVersion_supported(ver, 0) = -1 THEN "_UNSUPPORTED_FEATURE"
    ELSE IF opts.incremental = 1 THEN "_UNSUPPORTED_FEATURE"
    ELSE IF \E i \in DOMAIN args : args[i].ops \ {"set"} # {} THEN "_UNSUPPORTED_FEATURE"
    ELSE "none"

DescribeConfigsRequest(args, opts, ver) ==
    IF args = <<>> THEN "_INVALID_ARG"
    ELSE IF ApiVersion_supported(ver, 1) = -1 THEN "_UNSUPPORTED_FEATURE"
    ELSE "none"

RequestErr(api, args, opts, ver) ==
    CASE api = "create" -> CreateTopicsRequest(args, opts, ver)
      [] api = "delete" -> DeleteTopicsRequest(args, opts, ver)
      [] api = "parts" -> CreatePartitionsRequest(args, opts, ver)
      [] api = "alter" -> AlterConfigsRequest(args, opts, ver)
      [] api = "describe" -> DescribeConfigsRequest(args, opts, ver)

\* What CreateTopics writes for one topic: counts or an assignment, not both.
\* The number of partitions is written before the assignment.
CreateTopicsBody(t) ==
    IF t.replicas # <<>>
    THEN [topic |-> t.topic, parts |-> -1, factor |-> -1,
          assignment |-> [i \in DOMAIN t.replicas |-> <<i - 1, t.replicas[i].brokers>>]]
    ELSE [topic |-> t.topic, parts |-> t.parts, factor |-> t.factor, assignment |-> <<>>]

\* What CreatePartitions writes: the assignment has no partition numbers.
CreatePartitionsBody(t) ==
    [topic |-> t.topic, parts |-> t.parts, factor |-> -1,
     assignment |-> [i \in DOMAIN t.replicas |-> <<i - 1, t.replicas[i].brokers>>]]

RequestBody(api, args) ==
    [i \in DOMAIN args |->
       CASE api = "create" -> CreateTopicsBody(args[i])
         [] api = "parts" -> CreatePartitionsBody(args[i])
         [] OTHER -> [topic |-> args[i].topic]]

----------------------------------------------------------------------------
(* The responses.  A response is [entries, short]: entries are records     *)
(* [topic, code]; short says the buffer ends before its last entry.        *)

\* rd_list_index: the first element of the request with this name, 0 if none.
list_index(args, topic) ==
    LET m == {i \in DOMAIN args : args[i].topic = topic}
    IN  IF m = {} THEN 0 ELSE Min(m)

list_elem(rl, i) == IF i <= Len(rl) THEN rl[i] ELSE Hole

\* rd_list_set: fills the positions it jumps over with NULL.
list_set(rl, i, e) ==
    [j \in 1..Max({i, Len(rl)}) |-> IF j = i THEN e ELSE list_elem(rl, j)]

\* For a request that does not wait (operation_timeout <= 0) the broker's
\* REQUEST_TIMED_OUT means "in progress" and is hidden.
HideTimeout(code, opts) ==
    IF code = "REQUEST_TIMED_OUT" /\ opts.operation_timeout <= 0 THEN "none" ELSE code

\* One entry of a response: it goes to the position of the request it answers.
place(args, acc, e) ==
    LET pos == list_index(args, e.topic)
    IN  IF pos = 0 THEN [acc EXCEPT !.fail = TRUE]
        ELSE IF list_elem(acc.results, pos) # Hole THEN [acc EXCEPT !.fail = TRUE]
        ELSE [acc EXCEPT !.results = list_set(@, pos, e)]

place_all(args, entries) ==
    FoldLeft(LAMBDA acc, e : IF acc.fail THEN acc ELSE place(args, acc, e),
             [fail |-> FALSE, results |-> <<>>], entries)

\* The outcome of a parser.  At err_parse the parsers return the local err,
\* which is still NO_ERROR, and leave the caller's result pointer unset:
\* "garbage".  AlterConfigs reports a wrong count itself.
Garbage == [out |-> "garbage", results |-> <<>>]

CreateTopicsResponse_parse(args, opts, resp) ==
    LET shown == [i \in DOMAIN resp.entries |->
                    [resp.entries[i] EXCEPT !.code = HideTimeout(@, opts)]]
        p == place_all(args, shown)
    IN  IF Len(resp.entries) > Len(args) \/ resp.short \/ p.fail THEN Garbage
        ELSE [out |-> "ok", results |-> p.results]

\* The same steps in the code of the two other topic requests.
DeleteTopicsResponse_parse(args, opts, resp) == CreateTopicsResponse_parse(args, opts, resp)

CreatePartitionsResponse_parse(args, opts, resp) == CreateTopicsResponse_parse(args, opts, resp)

AlterConfigsResponse_parse(args, resp) ==
    LET p == place_all(args, resp.entries)
    IN  IF Len(resp.entries) > Len(args) THEN [out |-> "_BAD_MSG", results |-> <<>>]
        ELSE IF resp.short \/ p.fail THEN Garbage
        ELSE [out |-> "ok", results |-> p.results]

DescribeConfigsResponse_parse(args, resp) ==
    LET p == place_all(args, resp.entries)
    IN  IF Len(resp.entries) > Len(args) \/ resp.short \/ p.fail THEN Garbage
        ELSE [out |-> "ok", results |-> p.results]

parse(api, args, opts, resp) ==
    CASE api = "create" -> CreateTopicsResponse_parse(args, opts, resp)
      [] api = "delete" -> DeleteTopicsResponse_parse(args, opts, resp)
      [] api = "parts" -> CreatePartitionsResponse_parse(args, opts, resp)
      [] api = "alter" -> AlterConfigsResponse_parse(args, resp)
      [] api = "describe" -> DescribeConfigsResponse_parse(args, resp)

----------------------------------------------------------------------------
(* The library. *)

NoReply == [entries |-> <<>>, short |-> FALSE, none |-> TRUE]
NoLook == [on |-> FALSE]
NoRko == [life |-> "none"]

Abort(x, why) == [x EXCEPT !.aborted = @ \cup {why}]
terminating(x) == x.term # "run"

----------------------------------------------------------------------------
(* The enqueue-once object.                                                *)

enq_once_new == [rko |-> TRUE, refcnt |-> 1, live |-> TRUE]

enq_once_add_source(x, r) == [x EXCEPT !.eonce[r].refcnt = @ + 1]

\* enq_once_destroy0 asserts that the op was taken out.
enq_once_destroy0(x, r) ==
    IF x.eonce[r].rko THEN Abort(x, "eonce freed with its op")
    ELSE [x EXCEPT !.eonce[r].live = FALSE]

\* Dropping a reference (asserted to exist); the last one frees the eonce.
enq_once_unref(x, r) ==
    LET y == [x EXCEPT !.eonce[r].refcnt = @ - 1]
    IN  IF x.eonce[r].refcnt = 0 THEN Abort(x, "eonce reference count")
        ELSE IF y.eonce[r].refcnt = 0 THEN enq_once_destroy0(y, r) ELSE y

\* del_source is called by the owner, who still holds a reference.
enq_once_del_source(x, r) ==
    IF x.eonce[r].refcnt <= 1 THEN Abort(x, "eonce source count")
    ELSE enq_once_unref(x, r)

enq_once_reenable(x, r) == [x EXCEPT !.eonce[r].rko = TRUE]

enq_once_destroy(x, r) == enq_once_unref([x EXCEPT !.eonce[r].rko = FALSE], r)

\* enq_once_disable: the same, for a source; the caller looks at the op first.
enq_once_disable(x, r) == enq_once_destroy(x, r)

----------------------------------------------------------------------------
(* The end of a worker, and results.                                       *)

result_enq(x, r, res) == [x EXCEPT !.results[r] = Append(@, res)]

result_fail(x, r, err) == result_enq(x, r, [out |-> err, results |-> <<>>])

\* common_worker_destroy: stop the timer, drop its reference if it had not
\* fired, drop the owner's.
common_worker_destroy(x, r) ==
    LET y == [x EXCEPT !.timer[r] = FALSE]
        z == IF x.timer[r] THEN enq_once_del_source(y, r) ELSE y
    IN  IF x.rko[r].eonce
        THEN [enq_once_destroy(z, r) EXCEPT !.rko[r].eonce = FALSE]
        ELSE y

\* op_destroy calls the worker once more, with _DESTROY, before it frees.
op_destroy(x, r) ==
    IF x.rko[r].life # "live" THEN Abort(x, "op freed twice")
    ELSE [common_worker_destroy(x, r) EXCEPT !.rko[r].life = "freed"]

\* The worker's destroy label, then op_destroy by the caller (RES_HANDLED).
handled(x, r) == op_destroy(common_worker_destroy(x, r), r)

\* An answer while the instance is terminating: the op, if the eonce still has
\* it, goes silently.
drop_response(x, r) ==
    IF x.eonce[r].rko THEN handled(enq_once_disable(x, r), r)
    ELSE enq_once_disable(x, r)

\* Enqueue on rk_ops; a disabled queue destroys the op at once.
ops_enq(x, op) ==
    IF x.opsEnabled THEN [x EXCEPT !.ops = Append(@, op)]
    ELSE IF op.type = "rko" THEN op_destroy(x, op.r)
    ELSE drop_response(x, op.r)

RkoOp(r) == [type |-> "rko", r |-> r, err |-> "none", reply |-> NoReply]

\* enq_once_trigger drops the source's reference and enqueues the op unless
\* somebody else did.  Its error argument is not used.
enq_once_trigger(x, r) ==
    LET y == enq_once_unref([x EXCEPT !.eonce[r].rko = FALSE], r)
    IN  IF x.eonce[r].rko THEN ops_enq(y, RkoOp(r)) ELSE y

----------------------------------------------------------------------------
(* Broker lookups.                                                         *)

\* brokers_broadcast_state_change: bump the version (what a lookup under way
\* read becomes outdated) and trigger all waiters, once.
broadcast_state_change(x) ==
    FoldLeft(LAMBDA y, r : enq_once_trigger(y, r),
             [x EXCEPT !.waiters = <<>>,
                       !.look = IF @.on THEN [@ EXCEPT !.outdated = TRUE] ELSE @],
             x.waiters)

\* common_get_broker and common_get_controller up to reading the version.
start_lookup(x, r) ==
    [enq_once_reenable(x, r) EXCEPT
       !.look = [on |-> TRUE, r |-> r, found |-> TRUE, outdated |-> FALSE]]

\* broker_get_async / controller_async: the broker, if it is known and up.
broker_found(x, r) ==
    LET b == IF x.rko[r].state = "WAIT_CONTROLLER" THEN controller ELSE x.rko[r].broker
    IN  IF b \in Brokers /\ up[b] THEN b ELSE -1

\* Mutation: the worker goes on after a request error.
construct_request_keep(x, r, b) ==
    LET a == enq_once_add_source(x, r)
        k == x.rko[r]
        err == RequestErr(k.api, k.args, k.opts, version)
    IN  IF err # "none" THEN result_fail(enq_once_del_source(a, r), r, err)
        ELSE [a EXCEPT !.rko[r].state = "WAIT_RESPONSE",
                       !.sent = @ \cup {[r |-> r, broker |-> b]},
                       !.body[r] = RequestBody(k.api, k.args)]

\* CONSTRUCT_REQUEST: hold a reference for the answer, make the request and
\* enqueue it; an error is the result.
construct_request(x, r, b) ==
    LET a == enq_once_add_source(x, r)
        k == x.rko[r]
        err == RequestErr(k.api, k.args, k.opts, version)
    IN  IF err # "none"
        THEN handled(result_fail(enq_once_del_source(a, r), r, err), r)
        ELSE [a EXCEPT !.rko[r].state = "WAIT_RESPONSE",
                       !.sent = @ \cup {[r |-> r, broker |-> b]},
                       !.body[r] = RequestBody(k.api, k.args)]

----------------------------------------------------------------------------
(* The worker.                                                             *)

\* INIT: start the timer, choose what to wait for.  A broker given in the
\* options is preferred to the BROKER resource's.
worker_init(x, r) ==
    LET k == x.rko[r]
        b == IF k.opts.broker # -1 THEN k.opts.broker ELSE k.broker
        y == [enq_once_add_source(x, r) EXCEPT
                !.timer[r] = TRUE,
                !.rko[r].broker = b,
                !.rko[r].state = IF b # -1 THEN "WAIT_BROKER" ELSE "WAIT_CONTROLLER"]
    IN  start_lookup(y, r)

\* WAIT_RESPONSE: parse the reply, which must be there.
worker_response(x, r, reply) ==
    LET k == x.rko[r]
        p == parse(k.api, k.args, k.opts, reply)
    IN  IF "none" \in DOMAIN reply THEN Abort(x, "no reply to parse")
        ELSE IF p.out = "garbage" THEN Abort(x, "unset result enqueued")
        ELSE handled(result_enq(x, r, p), r)

\* rd_kafka_admin_worker.
worker(x, r, err, reply) ==
    IF x.rko[r].life # "live" THEN Abort(x, "worker on a freed op")
    ELSE IF terminating(x) \/ err = "_DESTROY" THEN handled(x, r)
    ELSE IF err # "none" THEN handled(result_fail(x, r, err), r)
    ELSE IF x.expired[r] THEN handled(result_fail(x, r, "_TIMED_OUT"), r)
    ELSE CASE x.rko[r].state = "INIT" -> worker_init(x, r)
           [] x.rko[r].state \in {"WAIT_BROKER", "WAIT_CONTROLLER"} -> start_lookup(x, r)
           [] x.rko[r].state = "WAIT_RESPONSE" -> worker_response(x, r, reply)

\* rd_kafka_admin_handle_response: nothing to do when the op timed out.
handle_response(x, op) ==
    IF x.eonce[op.r].rko
    THEN worker(enq_once_disable(x, op.r), op.r, op.err, op.reply)
    ELSE enq_once_disable(x, op.r)

----------------------------------------------------------------------------
(* The application.                                                        *)

Init ==
    /\ draft \in [Reqs -> Drafts]
    /\ accepted = [r \in Reqs |-> {}]
    /\ s = [rko |-> [r \in Reqs |-> NoRko], eonce |-> [r \in Reqs |-> [live |-> FALSE]],
            timer |-> [r \in Reqs |-> FALSE], expired |-> [r \in Reqs |-> FALSE],
            ops |-> <<>>, opsEnabled |-> TRUE, waiters |-> <<>>, look |-> NoLook,
            sent |-> {}, body |-> [r \in Reqs |-> <<>>],
            results |-> [r \in Reqs |-> <<>>], term |-> "run", aborted |-> {}]
    /\ up = [b \in Brokers |-> FALSE]
    /\ controller = -1
    /\ version \in Versions
    /\ changes = 0

Drafting(r) == s.rko[r].life = "none" /\ s.term = "run" /\ s.aborted = {}

AppNewTopic(r) ==
    /\ Drafting(r) /\ draft[r].api \in {"create", "parts"} /\ Len(draft[r].args) < MaxArgs
    /\ \E t \in Topics, n \in PartCounts, f \in Factors :
         /\ IF draft[r].api = "create" THEN NewTopic_ok(n, f) ELSE NewPartitions_ok(n)
         /\ draft' = [draft EXCEPT ![r].args = Append(@,
              IF draft[r].api = "create" THEN NewTopic_new(t, n, f)
              ELSE NewPartitions_new(t, n))]
    /\ UNCHANGED <<accepted, s, up, controller, version, changes>>

\* The setter on the last object of the draft; the broker list says which call
\* it was.
AppAssign(r) ==
    /\ Drafting(r) /\ draft[r].api \in {"create", "parts"} /\ draft[r].args # <<>>
    /\ draft[r].tried < MaxAssign
    /\ \E p \in 0..1 :
         LET n == Len(draft[r].args)
             t == draft[r].args[n]
             bs == <<draft[r].tried>>
         IN  /\ draft' = [draft EXCEPT ![r].tried = @ + 1,
                            ![r].args[n] = set_replica_assignment(t, p, bs)]
             /\ IF assignment_err(t, p, bs) THEN UNCHANGED <<accepted, s>>
                ELSE IF list_add_aborts(t)
                THEN s' = Abort(s, "fixed size list grown") /\ UNCHANGED accepted
                ELSE accepted' = [accepted EXCEPT ![r] = @ \cup {<<n, p, bs>>}] /\ UNCHANGED s
    /\ UNCHANGED <<up, controller, version, changes>>

AppNewResource(r) ==
    /\ Drafting(r) /\ draft[r].api \in ConfigApis /\ Len(draft[r].args) < MaxArgs
    /\ \E c \in {ConfigResource_new("topic", t) : t \in Topics}
                  \cup {ConfigResource_new("broker", b) : b \in Brokers} :
         \E op \in {"set", "add", "delete"} :
           draft' = [draft EXCEPT ![r].args = Append(@, ConfigResource_config(c, op))]
    /\ UNCHANGED <<accepted, s, up, controller, version, changes>>

AppOption(r) ==
    /\ Drafting(r) /\ draft[r].tried < MaxAssign
    /\ \E o \in {"operation_timeout", "validate_only", "incremental", "broker"}, v \in {0, 1} :
         draft' = [draft EXCEPT ![r].tried = @ + 1,
                     ![r].opts = AdminOptions_set(@, draft[r].for, o, v)]
    /\ UNCHANGED <<accepted, s, up, controller, version, changes>>

\* admin_request_op_new.
request_op_new(d) ==
    [life |-> "live", api |-> d.api, args |-> d.args, opts |-> d.opts,
     broker |-> -1, state |-> "INIT", eonce |-> TRUE]

\* CreateTopics, DeleteTopics, CreatePartitions: copy the arguments and enqueue.
SubmitTopics(r) ==
    /\ Drafting(r) /\ draft[r].api \in TopicApis
    /\ s' = ops_enq([s EXCEPT !.rko[r] = request_op_new(draft[r]),
                              !.eonce[r] = enq_once_new], RkoOp(r))
    /\ UNCHANGED <<draft, accepted, up, controller, version, changes>>

\* AlterConfigs and DescribeConfigs: the one BROKER resource names the broker;
\* more than one is an error result, and the op is not freed.
SubmitConfigs(r) ==
    /\ Drafting(r) /\ draft[r].api \in ConfigApis
    /\ LET one == get_single_broker_id(draft[r].args)
           x == [s EXCEPT !.rko[r] = request_op_new(draft[r]), !.eonce[r] = enq_once_new]
       IN  s' = IF one.err
                THEN [common_worker_destroy(result_fail(x, r, "_CONFLICT"), r)
                        EXCEPT !.rko[r].life = "refused"]
                ELSE ops_enq([x EXCEPT !.rko[r].broker = one.id], RkoOp(r))
    /\ UNCHANGED <<draft, accepted, up, controller, version, changes>>

----------------------------------------------------------------------------
(* The main thread.  s.look is a broker lookup it is in the middle of.     *)

MainThread == s.aborted = {} /\ ~s.look.on

CanServe == MainThread /\ s.opsEnabled /\ s.ops # <<>> /\ s.term \in {"run", "flag"}

MainServe ==
    /\ CanServe
    /\ LET op == Head(s.ops)
           x == [s EXCEPT !.ops = Tail(@)]
       IN  s' = IF op.type = "rko" THEN worker(x, op.r, op.err, op.reply)
                ELSE handle_response(x, op)
    /\ UNCHANGED <<draft, accepted, up, controller, version, changes>>

CanLook == s.aborted = {} /\ s.look.on

\* The lookup: find the broker, or ...
LookFind ==
    /\ CanLook /\ s.look.found
    /\ LET r == s.look.r
           b == broker_found(s, r)
       IN  s' = IF b # -1 THEN construct_request([s EXCEPT !.look = NoLook], r, b)
                ELSE [s EXCEPT !.look.found = FALSE]
    /\ UNCHANGED <<draft, accepted, up, controller, version, changes>>

\* ... wait_state_change_async: look again if the version is outdated, else
\* join the waiters.
LookWait ==
    /\ CanLook /\ ~s.look.found
    /\ LET r == s.look.r
       IN  s' = IF s.look.outdated
                THEN [s EXCEPT !.look.found = TRUE, !.look.outdated = FALSE]
                ELSE [enq_once_add_source(s, r) EXCEPT !.waiters = Append(@, r),
                                                       !.look = NoLook]
    /\ UNCHANGED <<draft, accepted, up, controller, version, changes>>

CanTimeout(r) == MainThread /\ s.timer[r] /\ s.expired[r] /\ s.term \in {"run", "flag"}

\* timers_run: the one-shot timer's callback.
TimerFires(r) ==
    /\ CanTimeout(r)
    /\ s' = enq_once_trigger([s EXCEPT !.timer[r] = FALSE], r)
    /\ UNCHANGED <<draft, accepted, up, controller, version, changes>>

----------------------------------------------------------------------------
(* Time, brokers and metadata.                                             *)

CanExpire(r) == s.aborted = {} /\ s.rko[r].life = "live" /\ ~s.expired[r]

\* request_timeout passes: the timer becomes due and abs_timeout lies behind.
Expire(r) ==
    /\ CanExpire(r)
    /\ s' = [s EXCEPT !.expired[r] = TRUE]
    /\ UNCHANGED <<draft, accepted, up, controller, version, changes>>

BrokerChange(b) ==
    /\ s.aborted = {} /\ changes < MaxChanges /\ s.term \in {"run", "flag"}
    /\ up' = [up EXCEPT ![b] = ~@]
    /\ changes' = changes + 1
    /\ s' = broadcast_state_change(s)
    /\ UNCHANGED <<draft, accepted, controller, version>>

\* parse_Metadata: a new controller id is broadcast too.
ControllerChange(b) ==
    /\ s.aborted = {} /\ changes < MaxChanges /\ controller # b /\ s.term = "run"
    /\ controller' = b
    /\ changes' = changes + 1
    /\ s' = broadcast_state_change(s)
    /\ UNCHANGED <<draft, accepted, up, version>>

\* What a broker may answer: each name asked for once, in any order.
Replies(args) ==
    LET names == {args[i].topic : i \in DOMAIN args}
        orders == {q \in [1..Cardinality(names) -> names] :
                     \A i, j \in DOMAIN q : q[i] = q[j] => i = j}
        proper == {[entries |-> [i \in DOMAIN q |-> [topic |-> q[i], code |-> c[i]]],
                    short |-> FALSE] : q \in orders, c \in [1..Cardinality(names) -> Codes]}
        bad == {[entries |-> <<[topic |-> "other", code |-> "none"]>>, short |-> FALSE],
                [entries |-> <<>>, short |-> TRUE],
                [entries |-> [i \in 1..(Len(args) + 1) |->
                                [topic |-> args[1].topic, code |-> "none"]], short |-> FALSE]}
    IN  IF Faulty THEN proper \cup bad ELSE proper

Reply(r, err, reply) == [type |-> "resp", r |-> r, err |-> err, reply |-> reply]

BrokerAnswers(q) ==
    /\ s.aborted = {} /\ up[q.broker]
    /\ \E reply \in Replies(s.rko[q.r].args) :
         s' = ops_enq([s EXCEPT !.sent = @ \ {q}], Reply(q.r, "none", reply))
    /\ UNCHANGED <<draft, accepted, up, controller, version, changes>>

\* The request times out at the broker, or its connection goes down.
BrokerFails(q) ==
    /\ s.aborted = {}
    /\ \E err \in {"_TIMED_OUT", "_TRANSPORT"} :
         s' = ops_enq([s EXCEPT !.sent = @ \ {q}], Reply(q.r, err, NoReply))
    /\ UNCHANGED <<draft, accepted, up, controller, version, changes>>

----------------------------------------------------------------------------
(* Termination: the flag; the main loop ends when its queue is empty; the  *)
(* queue is disabled and purged; waiters are woken; brokers fail what they *)
(* hold; threads are joined.                                               *)

Destroy ==
    /\ Terminating /\ s.term = "run" /\ s.aborted = {}
    /\ s' = [s EXCEPT !.term = "flag"]
    /\ UNCHANGED <<draft, accepted, up, controller, version, changes>>

CanLeave == MainThread /\ s.term = "flag" /\ s.ops = <<>>

MainLeaves ==
    /\ CanLeave
    /\ s' = [s EXCEPT !.term = "left"]
    /\ UNCHANGED <<draft, accepted, up, controller, version, changes>>

\* q_disable and q_purge: what was enqueued meanwhile is destroyed.
CanPurge == MainThread /\ s.term = "left"

PurgeOps ==
    /\ CanPurge
    /\ s' = FoldLeft(LAMBDA x, op : ops_enq(x, op),
                     [s EXCEPT !.opsEnabled = FALSE, !.ops = <<>>, !.term = "purged"], s.ops)
    /\ UNCHANGED <<draft, accepted, up, controller, version, changes>>

\* destroy_internal: broadcast, decommission the brokers, destroy the waiter
\* list (whose free callback triggers too).
CanDecommission == MainThread /\ s.term = "purged"

Decommission ==
    /\ CanDecommission
    /\ s' = [broadcast_state_change(s) EXCEPT !.term = "brokers"]
    /\ UNCHANGED <<draft, accepted, up, controller, version, changes>>

CanJoin == MainThread /\ s.term = "brokers" /\ s.sent = {}

Join ==
    /\ CanJoin
    /\ s' = [s EXCEPT !.term = "joined"]
    /\ UNCHANGED <<draft, accepted, up, controller, version, changes>>

Next ==
    \/ \E r \in Reqs :
         AppNewTopic(r) \/ AppAssign(r) \/ AppNewResource(r) \/ AppOption(r)
           \/ SubmitTopics(r) \/ SubmitConfigs(r) \/ TimerFires(r) \/ Expire(r)
    \/ MainServe \/ LookFind \/ LookWait
    \/ \E b \in Brokers : BrokerChange(b) \/ ControllerChange(b)
    \/ \E q \in s.sent : BrokerAnswers(q) \/ BrokerFails(q)
    \/ Destroy \/ MainLeaves \/ PurgeOps \/ Decommission \/ Join

Spec == Init /\ [][Next]_vars

----------------------------------------------------------------------------
(* Properties.                                                             *)

\* However its timer, broker state changes and the broker's answer are
\* ordered, a request gives the application at most one result
\* (rd_kafka_admin_worker and the eonce it is woken through).
AtMostOneResult == \A r \in Reqs : Len(s.results[r]) <= 1

\* None of the assertions on the way fails: reference counts of the eonce,
\* an eonce freed with its op, an op freed twice or run after it was freed,
\* WAIT_RESPONSE entered without a reply, an unset result enqueued.
NoAbort == s.aborted = {}

\* No request sits among the waiters while the broker it waits for is up: the
\* broker may come up between the lookup and the wait, in another thread, and
\* is then found by looking again (wait_state_change_async's version).
NoMissedWakeup == \A r \in ToSet(s.waiters) : broker_found(s, r) = -1

\* When the instance is gone, every op and every eonce is freed, whichever of
\* the queue, the waiter list, the timer or a broker held it.  (An op refused
\* for naming two brokers is never freed, rdkafka_admin.c:2413.)
NoLeak ==
    s.term = "joined" =>
      \A r \in Reqs : s.rko[r].life \in {"none", "freed", "refused"} /\ ~s.eonce[r].live

\* Result i is about argument i of the request, though brokers answer in any
\* order, and a REQUEST_TIMED_OUT is shown only to a request that waited
\* (the *Response_parse functions).
ResultsMatchRequest ==
    \A r \in Reqs : \A n \in DOMAIN s.results[r] :
      LET res == s.results[r][n].results
      IN  \A i \in DOMAIN res : res[i] # Hole =>
            /\ res[i].topic = s.rko[r].args[i].topic
            /\ (res[i].code = "REQUEST_TIMED_OUT" /\ s.rko[r].api \in TopicApis)
                 => s.rko[r].opts.operation_timeout > 0

\* The assignment on the wire gives every partition the brokers the
\* application named for it, and no request has both counts and an assignment.
SentAsAsked ==
    \A r \in Reqs :
      s.rko[r].life # "none" /\ s.rko[r].api \in {"create", "parts"} =>
        \A i \in DOMAIN s.body[r] :
          LET b == s.body[r][i]
          IN  /\ {<<i, a[1], a[2]>> : a \in ToSet(b.assignment)}
                   = {a \in accepted[r] : a[1] = i}
              /\ (b.assignment # <<>> /\ s.rko[r].api = "create") => (b.parts = -1 /\ b.factor = -1)

=============================================================================
