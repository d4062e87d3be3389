------------------------------ MODULE Dispatch ------------------------------
(***************************************************************************)
(* How the ops of an application queue reach the application: the op       *)
(* handler rd_kafka_poll_cb, the calls that serve a queue                  *)
(* (rd_kafka_consumer_poll, rd_kafka_consume_batch, rd_kafka_poll,         *)
(* rd_kafka_consume_callback, rd_kafka_queue_poll), the background thread  *)
(* and the events the application reads and destroys.                      *)
(*                                                                         *)
(* One queue of one client with one partition is modelled.  Callbacks may  *)
(* call rd_kafka_yield() or rd_kafka_seek().  Priorities and forwarding    *)
(* are the subject of OpQueue.                                             *)
(***************************************************************************)
EXTENDS Integers, Sequences, FiniteSets

CONSTANTS
    Kinds,        \* kinds of ops the library enqueues
    Apis,         \* the calls the application makes on this queue
    MaxOps,       \* bound: ops enqueued
    MaxSeeks,     \* bound: calls of rd_kafka_seek()
    Offsets,      \* offsets the application seeks to
    BatchSize,    \* rkmessages_size of rd_kafka_consume_batch()
    CallbackMax,  \* consume.callback.max.messages, 0 = no limit
    ArraySize,    \* size passed to rd_kafka_event_message_array()
    ConsumeCb,    \* conf.consume_cb is set
    Grouped,      \* the partition belongs to a consumer group (rktp_cgrp)
    MayYield,     \* callbacks may call rd_kafka_yield()
    Brokers       \* brokers that answer with throttle times

VARIABLES
    q,            \* the queue
    made,         \* kinds of the ops enqueued so far
    ver,          \* rktp_version, raised by every seek
    fetch,        \* [ver, next, sought]: what the fetcher works from
    call,         \* the serving call in progress
    yield,        \* rd_kafka_yield_thread of the calling thread
    held,         \* ops handed to the application, by id
    freed,        \* how often each op was destroyed
    drs,          \* delivery report messages destroyed, by op
    app,          \* [offset, stored]: rktp_app_offset, rktp_stored_offset
    throttle,     \* [last, said]: rk_last_throttle, last answer by broker
    told,         \* history: throttle time last told, by broker
    expect,       \* history: offset the application expects next
    given,        \* history: the last message handed over
    late,         \* history: a callback ran after a yield in one call
    overrun,      \* history: an event wrote past the given array
    lost,         \* history: ops a batch that was yielded let go of
    abort         \* an assertion of the library failed

vars == <<q, made, ver, fetch, call, yield, held, freed, drs, app, throttle,
          told, expect, given, late, overrun, lost, abort>>

Ids == 1..MaxOps
Callbacks == {"callback", "callback_queue"}
Serving == {"poll", "background"} \union Callbacks
NoCall == [api |-> "none", cnt |-> 0, local |-> <<>>, discard |-> {},
           yielded |-> FALSE]
NoOp == [id |-> 0, kind |-> "none", off |-> 0, ver |-> 0, n |-> 0, br |-> "-"]

Init ==
    /\ q = <<>>
    /\ made = <<>>
    /\ ver = 1
    /\ fetch = [ver |-> 1, next |-> 0, sought |-> 0]
    /\ call = NoCall
    /\ yield = FALSE
    /\ held = {}
    /\ freed = [i \in Ids |-> 0]
    /\ drs = [i \in Ids |-> 0]
    /\ app = [offset |-> 0, stored |-> 0]
    /\ throttle = [last |-> 0, said |-> [b \in Brokers |-> 0]]
    /\ told = [b \in Brokers |-> 0]
    /\ expect = 0
    /\ given = NoOp
    /\ late = FALSE
    /\ overrun = FALSE
    /\ lost = {}
    /\ abort = FALSE

----------------------------------------------------------------------------
(* The library's threads enqueue ops.                                      *)

Enq(op) ==
    /\ Len(made) < MaxOps
    /\ made' = Append(made, op.kind)
    /\ q' = Append(q, [op EXCEPT !.id = Len(made) + 1])

\* A fetched message, or an error of the partition, of the fetcher's version.
NewFetchMsg ==
    /\ "FETCH" \in Kinds
    /\ Enq([NoOp EXCEPT !.kind = "FETCH", !.off = fetch.next, !.ver = fetch.ver])
    /\ fetch' = [fetch EXCEPT !.next = @ + 1]
    /\ UNCHANGED <<ver, call, yield, held, freed, drs, app, throttle, told,
                   expect, given, late, overrun, lost, abort>>

OpErr(kind) ==
    /\ kind \in Kinds \intersect {"CERR", "ERR"}
    /\ Enq([NoOp EXCEPT !.kind = kind,
                        !.ver = IF kind = "CERR" THEN fetch.ver ELSE 0])
    /\ UNCHANGED <<ver, fetch, call, yield, held, freed, drs, app, throttle,
                   told, expect, given, late, overrun, lost, abort>>

\* Statistics, rebalances, commit replies with and without a callback, admin
\* results, wake-ups, and delivery reports of two messages.
OpOther(kind) ==
    /\ kind \in Kinds \ {"FETCH", "CERR", "ERR", "THROTTLE"}
    /\ Enq([NoOp EXCEPT !.kind = kind, !.n = IF kind = "DR" THEN 2 ELSE 0])
    /\ UNCHANGED <<ver, fetch, call, yield, held, freed, drs, app, throttle,
                   told, expect, given, late, overrun, lost, abort>>

ThrottleTold(t) == t > 0 \/ throttle.last > 0

\* A response of broker b carries throttle time t.
ThrottleTime(b, t) ==
    /\ "THROTTLE" \in Kinds
    /\ throttle.said[b] # t
    /\ Len(made) < MaxOps
    /\ throttle' = [last |-> IF ThrottleTold(t) THEN t ELSE throttle.last,
                    said |-> [throttle.said EXCEPT ![b] = t]]
    /\ IF ThrottleTold(t)
       THEN Enq([NoOp EXCEPT !.kind = "THROTTLE", !.off = t, !.br = b])
       ELSE UNCHANGED <<q, made>>
    /\ UNCHANGED <<ver, fetch, call, yield, held, freed, drs, app, told,
                   expect, given, late, overrun, lost, abort>>

\* The fetcher takes up the last seek.
FetcherSeeks ==
    /\ fetch.ver < ver
    /\ fetch' = [fetch EXCEPT !.ver = ver, !.next = fetch.sought]
    /\ UNCHANGED <<q, made, ver, call, yield, held, freed, drs, app, throttle,
                   told, expect, given, late, overrun, lost, abort>>

----------------------------------------------------------------------------
(* What happens to one op.                                                 *)

Outdated(op) == op.ver > 0 /\ op.ver < ver

Eventable(op) == op.kind \notin {"FETCH", "THROTTLE", "TERM"}

\* rd_kafka_poll_cb: hand the op back, run a callback for it, or drop it.
Outcome(op, type) ==
    CASE type = "EVENT" /\ Eventable(op) -> "pass"
      [] op.kind = "FETCH" -> IF ~ConsumeCb \/ type = "RETURN" THEN "pass" ELSE "consume_cb"
      [] op.kind = "CERR" /\ type = "RETURN" -> "pass"
      [] op.kind = "NOCB" -> "pass"
      [] op.kind = "ADMIN" /\ type = "RETURN" -> "pass"
      [] op.kind \in {"ADMIN", "TERM"} -> "drop"
      [] op.kind = "DR" -> "dr"
      [] OTHER -> "callback"

\* rd_kafka_op_destroy: the messages of a delivery report go with it.
Destroy(op) ==
    /\ freed' = [freed EXCEPT ![op.id] = @ + 1]
    /\ drs' = IF op.kind = "DR" THEN [drs EXCEPT ![op.id] = @ + op.n] ELSE drs

Keep == UNCHANGED <<freed, drs>>

\* rd_kafka_op_offset_store
Store(op) ==
    [offset |-> op.off + 1, stored |-> op.off + 1]

\* The auto-store of rd_kafka_q_serve_rkmessages asks for a group as well.
StoreBatch(op) ==
    [offset |-> op.off + 1, stored |-> IF Grouped THEN op.off + 1 ELSE app.stored]

\* The message of op is passed on and, for a fetched one, its offset stored.
Hand(op, store) ==
    IF op.kind = "FETCH"
    THEN /\ app' = store
         /\ given' = op
         /\ expect' = op.off + 1
    ELSE UNCHANGED <<app, given, expect>>

\* rd_kafka_seek(): a new version, which the fetcher takes up later.
SeekTo(o) ==
    /\ ver <= MaxSeeks
    /\ ver' = ver + 1
    /\ fetch' = [fetch EXCEPT !.sought = o]

\* The callback for outcome out runs, if it has one; it may yield.
RunCallback(y, out) ==
    /\ y => (MayYield /\ out \notin {"drop", "pass"})
    /\ yield' = (yield \/ y)
    /\ late' = (late \/ (call.yielded /\ out \notin {"drop", "pass"}))

NoCallback == UNCHANGED <<yield, late>>

Return == call' = NoCall

Stop == UNCHANGED <<q, made, ver, fetch, call, yield, held, freed, drs, app,
                    throttle, told, expect, given, late, overrun, lost>> /\ abort' = TRUE

Told(op) ==
    told' = IF op.kind = "THROTTLE" THEN [told EXCEPT ![op.br] = op.off] ELSE told

----------------------------------------------------------------------------
(* The application's thread.                                               *)

Begin(api) ==
    /\ api \in Apis
    /\ call.api = "none" /\ ~abort
    /\ call' = [NoCall EXCEPT !.api = api]
    /\ yield' = FALSE
    /\ UNCHANGED <<q, made, ver, fetch, held, freed, drs, app, throttle, told,
                   expect, given, late, overrun, lost, abort>>

Seek(o) ==
    /\ call.api = "none" /\ ~abort
    /\ SeekTo(o)
    /\ expect' = o
    /\ UNCHANGED <<q, made, call, yield, held, freed, drs, app, throttle, told,
                   given, late, overrun, lost, abort>>

\* Mutation: the discard queue is forgotten when the array is full.
Discarded_kept(c) == freed
Discarded(c) ==
    [i \in Ids |-> IF \E op \in c.discard : op.id = i THEN freed[i] + 1 ELSE freed[i]]

\* An empty queue: the wait of the call times out.
TimedOut ==
    /\ call.api \in {"consume", "batch", "event"} /\ ~abort
    /\ q = <<>>
    /\ Return
    /\ freed' = Discarded(call)
    /\ UNCHANGED <<q, made, ver, fetch, yield, held, drs, app, throttle, told,
                   expect, given, late, overrun, lost, abort>>

\* rd_kafka_q_pop filters outdated ops from the head of the queue.
PopOutdated ==
    /\ call.api \in {"consume", "event"} /\ ~abort
    /\ q # <<>> /\ Outdated(Head(q))
    /\ Destroy(Head(q))
    /\ q' = Tail(q)
    /\ UNCHANGED <<made, ver, fetch, call, yield, held, app, throttle, told,
                   expect, given, late, overrun, lost, abort>>

At(api) ==
    /\ call.api = api /\ call.local # <<>> /\ ~abort

Ready(api) ==
    /\ call.api = api /\ ~abort
    /\ q # <<>> /\ ~Outdated(Head(q))

\* A callback of consume0 or a batch is done with the op.
Served(op, out, y, next) ==
    /\ out \in {"callback", "drop"}
    /\ RunCallback(y, out)
    /\ Told(op)
    /\ Destroy(op)
    /\ call' = next
    /\ UNCHANGED <<held, app, given, expect>>

AfterCallback(y) == IF y THEN NoCall ELSE call

\* rd_kafka_consume0: the next op; only messages and errors may be returned.
ConsumeStep(y) ==
    /\ Ready("consume")
    /\ LET op == Head(q)
           out == Outcome(op, "RETURN")
       IN  \/ /\ out = "pass" /\ ~y
              /\ op.kind \in {"FETCH", "CERR"}
              /\ q' = Tail(q)
              /\ Hand(op, Store(op))
              /\ held' = held \union {[op |-> op, as |-> "message", seen |-> 0]}
              /\ Return
              /\ NoCallback /\ Keep
              /\ UNCHANGED <<told, abort>>
           \/ /\ q' = Tail(q)
              /\ Served(op, out, y, AfterCallback(y))
              /\ UNCHANGED abort
    /\ UNCHANGED <<made, ver, fetch, throttle, overrun, lost>>

\* The assertion of consume0 on the op that is returned.
ConsumeAsserts ==
    /\ Ready("consume")
    /\ Outcome(Head(q), "RETURN") = "pass"
    /\ Head(q).kind \notin {"FETCH", "CERR"}
    /\ Stop

\* rd_kafka_q_serve_rkmessages puts outdated ops on a discard queue.
BatchOutdated ==
    /\ call.api = "batch" /\ ~abort /\ q # <<>> /\ Outdated(Head(q))
    /\ call' = [call EXCEPT !.discard = @ \union {Head(q)}]
    /\ q' = Tail(q)
    /\ UNCHANGED <<made, ver, fetch, yield, held, freed, drs, app, throttle,
                   told, expect, given, late, overrun, lost, abort>>

\* rd_kafka_q_serve_rkmessages: a callback is served and the loop goes on.
BatchServe(y) ==
    /\ Ready("batch")
    /\ q' = Tail(q)
    /\ Served(Head(q), Outcome(Head(q), "RETURN"), y, [call EXCEPT !.yielded = @ \/ y])
    /\ UNCHANGED <<made, ver, fetch, throttle, overrun, lost, abort>>

\* ... a message is appended, unless an earlier callback yielded: the op is then
\* neither returned nor destroyed nor put back.
BatchAppend ==
    /\ Ready("batch")
    /\ LET op == Head(q)
           full == call.cnt + 1 = BatchSize
       IN  /\ Outcome(op, "RETURN") = "pass"
           /\ yield \/ op.kind \in {"FETCH", "CERR"}
           /\ q' = Tail(q)
           /\ IF yield
              THEN /\ Return
                   /\ freed' = Discarded(call)
                   /\ lost' = lost \union {op.id}
                   /\ UNCHANGED <<held, app, given, expect>>
              ELSE /\ UNCHANGED lost
                   /\ Hand(op, StoreBatch(op))
                   /\ held' = held \union {[op |-> op, as |-> "message", seen |-> 0]}
                   /\ call' = IF full THEN NoCall ELSE [call EXCEPT !.cnt = @ + 1]
                   /\ freed' = IF full THEN Discarded(call) ELSE freed
    /\ UNCHANGED <<made, ver, fetch, yield, drs, throttle, told, late, overrun, abort>>

\* rd_kafka_message_get knows no other kind of op.
MessageAsserts ==
    /\ \/ /\ Ready("batch") /\ ~yield
          /\ Outcome(Head(q), "RETURN") = "pass"
          /\ Head(q).kind \notin {"FETCH", "CERR"}
       \/ /\ \E api \in Callbacks : At(api)
          /\ ~Outdated(Head(call.local))
          /\ Head(call.local).kind \notin {"FETCH", "CERR", "ERR"}
    /\ Stop

----------------------------------------------------------------------------
(* rd_kafka_q_serve: rd_kafka_poll, rd_kafka_consume_callback and the      *)
(* background thread move ops to a local queue and serve those.            *)

TakeCount ==
    IF call.api = "callback" /\ CallbackMax > 0 /\ CallbackMax < Len(q)
    THEN CallbackMax ELSE Len(q)

ServeTake ==
    /\ call.api \in Serving /\ call.local = <<>> /\ ~abort
    /\ q' = SubSeq(q, TakeCount + 1, Len(q))
    /\ call' = IF q = <<>> THEN NoCall
               ELSE [call EXCEPT !.local = SubSeq(q, 1, TakeCount)]
    /\ UNCHANGED <<made, ver, fetch, yield, held, freed, drs, app, throttle,
                   told, expect, given, late, overrun, lost, abort>>

PutBack(rest) == rest \o q

\* After an op of the local queue: put the rest back, go on, or return.
ServeNext(rest, y) ==
    IF y
    THEN q' = PutBack(rest) /\ Return
    ELSE /\ q' = q
         /\ IF rest = <<>> THEN Return
            ELSE call' = [call EXCEPT !.local = rest, !.cnt = @ + 1]

\* rd_kafka_poll: callbacks only.
PollStep(y) ==
    /\ At("poll")
    /\ LET op == Head(call.local)
           out == Outcome(op, "CALLBACK")
       IN  /\ out \in {"callback", "drop", "consume_cb"}
           /\ ServeNext(Tail(call.local), y)
           /\ RunCallback(y, IF Outdated(op) /\ out = "consume_cb" THEN "drop" ELSE out)
           /\ Told(op)
           /\ Destroy(op)
           /\ IF out = "consume_cb" /\ ~Outdated(op)
              THEN Hand(op, Store(op))
              ELSE UNCHANGED <<app, given, expect>>
    /\ UNCHANGED <<made, ver, fetch, held, throttle, overrun, lost, abort>>

ReportRest(op, k, rest) ==
    IF k < op.n THEN Append(rest, [op EXCEPT !.n = op.n - k]) ELSE rest

\* A delivery report: one callback per message; k of them ran before a yield.
PollReport(y, k) ==
    /\ At("poll")
    /\ LET op == Head(call.local)
       IN  /\ Outcome(op, "CALLBACK") = "dr"
           /\ k \in IF y THEN 1..op.n ELSE {op.n}
           /\ ServeNext(ReportRest(op, k, Tail(call.local)), y)
           /\ RunCallback(y, "dr")
           /\ drs' = [drs EXCEPT ![op.id] = @ + k]
           /\ freed' = IF k = op.n THEN [freed EXCEPT ![op.id] = @ + 1] ELSE freed
    /\ UNCHANGED <<made, ver, fetch, held, app, throttle, told, expect, given,
                   overrun, lost, abort>>

\* rd_kafka_q_serve asserts that no op is passed.
PollAsserts ==
    /\ At("poll")
    /\ Outcome(Head(call.local), "CALLBACK") = "pass"
    /\ Stop

\* rd_kafka_consume_cb: outdated ops are dropped; the callback may seek.
CallbackStep(y, o) ==
    /\ \E api \in Callbacks : At(api)
    /\ LET op == Head(call.local)
       IN  /\ ServeNext(Tail(call.local), y)
           /\ Destroy(op)
           /\ IF Outdated(op)
              THEN /\ ~y /\ o = -1
                   /\ NoCallback
                   /\ UNCHANGED <<ver, fetch, app, given, expect>>
              ELSE /\ op.kind \in {"FETCH", "CERR", "ERR"}
                   /\ RunCallback(y, "consume_cb")
                   /\ IF o = -1
                      THEN Hand(op, Store(op)) /\ UNCHANGED <<ver, fetch>>
                      ELSE /\ op.kind = "FETCH"
                           /\ app' = Store(op) /\ given' = op
                           /\ SeekTo(o) /\ expect' = o
    /\ UNCHANGED <<made, held, throttle, told, overrun, lost, abort>>

\* The event callback has to destroy what it is given; the rest is destroyed.
Dispose(op) ==
    IF Eventable(op)
    THEN held' = held \union {[op |-> op, as |-> "event", seen |-> 0]} /\ Keep
    ELSE Destroy(op) /\ UNCHANGED held

\* rd_kafka_background_queue_serve: event:able ops go to the event callback,
\* the others to poll_cb, which may find a callback for them or not.
BackgroundStep(y) ==
    /\ At("background")
    /\ LET op == Head(call.local)
           out == IF Eventable(op) THEN "callback" ELSE Outcome(op, "CALLBACK")
           runs == ~(out = "consume_cb" /\ Outdated(op))
       IN  /\ ServeNext(Tail(call.local), y)
           /\ RunCallback(y, IF runs THEN out ELSE "drop")
           /\ Told(op)
           /\ Dispose(op)
           /\ IF out = "consume_cb" /\ runs THEN Hand(op, Store(op))
              ELSE UNCHANGED <<app, given, expect>>
    /\ UNCHANGED <<made, ver, fetch, throttle, overrun, lost, abort>>

----------------------------------------------------------------------------
(* The event interface.                                                    *)

\* rd_kafka_queue_poll: the next event, callbacks for what is not one.
EventStep(y) ==
    /\ Ready("event")
    /\ LET op == Head(q)
           out == Outcome(op, "EVENT")
       IN  /\ q' = Tail(q)
           /\ IF out = "pass"
              THEN /\ ~y
                   /\ held' = held \union {[op |-> op, as |-> "event", seen |-> 0]}
                   /\ Return
                   /\ NoCallback /\ Keep
                   /\ UNCHANGED <<told, app, given, expect>>
              ELSE /\ RunCallback(y, out)
                   /\ Told(op)
                   /\ Destroy(op)
                   /\ call' = [call EXCEPT !.yielded = @ \/ y]
                   /\ IF out = "consume_cb" THEN Hand(op, Store(op))
                      ELSE UNCHANGED <<app, given, expect>>
                   /\ UNCHANGED held
    /\ UNCHANGED <<made, ver, fetch, throttle, overrun, lost, abort>>

\* Messages rd_kafka_event_message_next has still to return.
Unread(h) ==
    CASE h.op.kind = "DR" -> h.op.n - h.seen
      [] h.op.kind = "FETCH" -> 1 - h.seen
      [] OTHER -> 0

\* rd_kafka_event_message_next: the first message moves to the second queue.
MessageNext(h) ==
    /\ call.api = "none" /\ h \in held /\ h.as = "event" /\ Unread(h) > 0
    /\ held' = (held \ {h}) \union {[h EXCEPT !.seen = @ + 1]}
    /\ Hand(h.op, Store(h.op))
    /\ UNCHANGED <<q, made, ver, fetch, call, yield, freed, drs, throttle,
                   told, late, overrun, lost, abort>>

\* rd_kafka_event_message_array: reads the event to its end.
MessageArray(h) ==
    /\ call.api = "none" /\ h \in held /\ h.as = "event" /\ Unread(h) > 0
    /\ held' = (held \ {h}) \union {[h EXCEPT !.seen = @ + Unread(h)]}
    /\ overrun' = (overrun \/ Unread(h) > ArraySize)
    /\ Hand(h.op, Store(h.op))
    /\ UNCHANGED <<q, made, ver, fetch, call, yield, freed, drs, throttle,
                   told, late, lost, abort>>

\* rd_kafka_message_destroy, rd_kafka_event_destroy
AppDestroy(h) ==
    /\ call.api = "none" /\ h \in held /\ ~abort
    /\ held' = held \ {h}
    /\ Destroy(h.op)
    /\ UNCHANGED <<q, made, ver, fetch, call, yield, app, throttle, told,
                   expect, given, late, overrun, lost, abort>>

----------------------------------------------------------------------------
Library ==
    \/ NewFetchMsg
    \/ \E k \in Kinds : OpErr(k)
    \/ \E k \in Kinds : OpOther(k)
    \/ \E b \in Brokers : \E t \in 0..1 : ThrottleTime(b, t)
    \/ FetcherSeeks

Serve ==
    \/ TimedOut
    \/ PopOutdated
    \/ \E y \in BOOLEAN : ConsumeStep(y)
    \/ ConsumeAsserts
    \/ BatchOutdated
    \/ \E y \in BOOLEAN : BatchServe(y)
    \/ BatchAppend
    \/ MessageAsserts
    \/ ServeTake
    \/ \E y \in BOOLEAN : PollStep(y)
    \/ \E y \in BOOLEAN : \E k \in 1..2 : PollReport(y, k)
    \/ PollAsserts
    \/ \E y \in BOOLEAN : \E o \in Offsets \union {-1} : CallbackStep(y, o)
    \/ \E y \in BOOLEAN : BackgroundStep(y)
    \/ \E y \in BOOLEAN : EventStep(y)

Application ==
    \/ \E api \in Apis : Begin(api)
    \/ \E o \in Offsets : Seek(o)
    \/ \E h \in held : MessageNext(h)
    \/ \E h \in held : MessageArray(h)
    \/ \E h \in held : AppDestroy(h)

Next == Library \/ Serve \/ Application

Spec == Init /\ [][Next]_vars

----------------------------------------------------------------------------
(* Properties                                                              *)

\* Every op the library enqueued is in exactly one place: on the queue, on
\* the local or the discard queue of a call, with the application, or
\* destroyed once.  No path of the serving calls destroys an op twice, and
\* the only one that loses an op is a batch whose callback has yielded: it drops
\* the message that comes next.
Accounted ==
    \A i \in 1..Len(made) :
        freed[i] + Cardinality({k \in 1..Len(q) : q[k].id = i})
                 + Cardinality({k \in 1..Len(call.local) : call.local[k].id = i})
                 + Cardinality({op \in call.discard : op.id = i})
                 + Cardinality({h \in held : h.op.id = i})
            = IF i \in lost THEN 0 ELSE 1

\* The application receives the messages of a partition in offset order
\* without a gap, and after a seek the first message it receives is the one
\* it sought, although messages of before the seek are still queued, on a
\* local queue, or being fetched.
GivesExpected == given' = given \/ given'.off = expect

\* "Automatically store offset of last message provided to application"
\* (CONFIGURATION.md:85): the stored offset is the position.
AutoStored == app.stored = app.offset

\* rd_kafka_yield() ends the serving call: no further callback runs in it.
YieldReturns == ~late

\* No assertion of the serving calls fails.
NoAbort == ~abort

\* The messages of a delivery report are destroyed exactly once, whether
\* they are reported by callback, in parts between yields, or as an event
\* that the application reads or leaves unread.
ReportsReleased ==
    \A i \in 1..Len(made) :
        /\ made[i] = "DR" => drs[i] <= 2
        /\ (made[i] = "DR" /\ freed[i] = 1) => drs[i] = 2

\* Once the queue is served, the application has been told the throttle time
\* each broker last returned.
ThrottleKnown ==
    (\A k \in 1..Len(q) : q[k].kind # "THROTTLE") /\ call.local = <<>>
        => told = throttle.said

=============================================================================
