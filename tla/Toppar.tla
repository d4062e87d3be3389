------------------------------- MODULE Toppar -------------------------------
(***************************************************************************)
(* The consumer side of one topic partition of librdkafka (rktp, toppar):  *)
(* the commands an application or the group manager sends it (start, stop, *)
(* seek, pause, resume), the main thread that serves them and looks up     *)
(* offsets, the leader's broker thread that fetches, and the application   *)
(* that polls what was fetched.                                            *)
(*                                                                         *)
(* The threads are kept apart by version barriers.  Sending a command is   *)
(* two steps of any thread: bump rktp_version, then enqueue the op with    *)
(* that version.  p is the state the main thread owns, b the broker        *)
(* thread's; fetchq is the queue the application polls.  pos is a history  *)
(* variable: the offset the application is owed next, in barrier order.    *)
(***************************************************************************)
EXTENDS Integers, Sequences, SequencesExt, FiniteSets, FiniteSetsExt

CONSTANTS Hi,           \* the log's first end offset
          AutoReset,    \* auto.offset.reset: Beginning, End or Invalid
          Starts,       \* offsets consumption is started at
          Seeks,        \* offsets the application seeks to
          Stops,        \* whether consumption is stopped again
          Pauses,       \* the application pauses and resumes: "no", "paired", "any"
          Prompt,       \* whether an offset is reset within fetch.error.backoff.ms
          Loses,        \* what the log may lose: "old" messages, "new" ones
          QueuedMin,    \* queued.min.messages
          MaxVersion,   \* bound: rktp_version
          MaxStarts,    \* bound: starts
          MaxFails,     \* bound: failed requests
          MaxMoves,     \* bound: leader changes
          None          \* no op, no message, no request

VARIABLES p,        \* the partition, as the main thread keeps it
          version,  \* rktp_version: the last barrier
          snd,      \* sender -> op between its barrier and its enqueue
          ops,      \* rktp_ops
          b,        \* the broker thread's view of the partition
          fetchq,   \* rktp_fetchq
          hand,     \* the op the application popped and has not accounted for
          ctl,      \* what the controlling thread last asked for
          log,      \* the log's first offset and its end
          used,     \* starts, failures and leader changes so far, whether held paused;
                    \* history: whether the position was displaced
          pos       \* history: the offset owed to the application

vars == <<p, version, snd, ops, b, fetchq, hand, ctl, log, used, pos>>

Beginning == -2
End       == -1
Stored    == -1000
Invalid   == -1001
TailBase  == -2000
Logical(off) == off < 0

Started(st) == st \in {"query", "wait", "active"}
Senders     == {"ctl", "app"}
NoVersion   == 0
Nowhere     == -1
Err(v)      == [type |-> "err", off |-> Invalid, ver |-> v]

----------------------------------------------------------------------------
(* The main thread.  s is the partition together with the ops it enqueues  *)
(* for the application: [p, err].                                          *)

OffsetRetry(s) == [s EXCEPT !.state = "query", !.qtmr = TRUE]

\* A query for the tail asks for the end.
OffsetRequest(s, query) ==
    IF s.leader = "none"
    THEN OffsetRetry(s)
    ELSE [s EXCEPT !.qtmr = FALSE, !.state = "wait",
                   !.asked = Append(@, [ver |-> s.opver, old |-> FALSE,
                                        query |-> IF query <= TailBase THEN End ELSE query])]

OffsetReset(s, errOffset, err) ==
    LET offset == IF errOffset = Invalid \/ err THEN AutoReset ELSE errOffset
    IN  IF offset = Invalid
        THEN [s EXCEPT !.state = "none", !.errs = Append(@, Err(NoVersion))]
        ELSE OffsetRequest([s EXCEPT !.query = offset, !.state = "query"], offset)

\* "Adjust by TAIL count if, if wanted".
FromTail(s, offset) ==
    IF s.query <= TailBase THEN Max({0, offset - (TailBase - s.query)}) ELSE offset

NextOffsetHandle(s, offset) ==
    IF Logical(offset)
    THEN OffsetReset(s, offset, FALSE)
    ELSE [s EXCEPT !.next = FromTail(s, offset), !.state = "active"]

FetchFrom(s, offset) ==
    IF Logical(offset)
    THEN NextOffsetHandle(s, offset)
    ELSE [s EXCEPT !.next = offset, !.state = "active"]

FetchStart(s, op) ==
    LET at == [s EXCEPT !.opver = op.ver, !.cgrp = TRUE]
    IN  IF op.off = Invalid THEN OffsetReset(at, op.off, TRUE) ELSE FetchFrom(at, op.off)

FetchStopped(s) == [s EXCEPT !.state = "stopped", !.app = Invalid, !.cgrp = FALSE]

AbortLookup(s) == [s EXCEPT !.qtmr = @ /\ s.state # "query"]

\* The offset store of a group-managed partition stops at once.
FetchStop(s, op) == FetchStopped([AbortLookup(s) EXCEPT !.opver = op.ver])

SeekError(s, op) == ~Started(s.state) \/ op.off = Stored

Seek(s, op) ==
    IF SeekError(s, op)
    THEN s
    ELSE FetchFrom([AbortLookup(s) EXCEPT !.opver = op.ver], op.off)

Pause(s, op) ==
    [s EXCEPT !.opver = op.ver, !.paused = TRUE,
              !.next = IF s.app # Invalid THEN s.app ELSE @]

\* Mutation: a resume leaves the version of the fetches it makes stale.
ResumeUnversioned(s, op) == [s EXCEPT !.paused = FALSE]

Resume(s, op) ==
    LET at == [s EXCEPT !.opver = op.ver, !.paused = FALSE]
    IN  IF s.state \in {"active", "wait"} /\ s.next = Invalid
        THEN NextOffsetHandle(at, s.next)
        ELSE at

\* The answer to an offset lookup.  One for an older version, or from a broker
\* that is no longer the leader, is retried.
Overtaken(s, op) == op.ver < s.opver \/ op.old \/ s.leader = "none"

HandleOffset(s, op) ==
    CASE Overtaken(s, op) -> OffsetRetry(s)
      [] op.err -> [OffsetReset(s, s.query, TRUE) EXCEPT !.errs = Append(@, Err(NoVersion))]
      [] OTHER  -> NextOffsetHandle(s, op.off)

Outdated(op, ver) == op.ver # NoVersion /\ op.ver < ver

OpServe(s, op) ==
    CASE op.type = "offset"   -> HandleOffset(s, op)
      [] Outdated(op, s.opver) -> s
      [] op.type = "start"    -> FetchStart(s, op)
      [] op.type = "stop"     -> FetchStop(s, op)
      [] op.type = "seek"     -> Seek(s, op)
      [] op.type = "pause"    -> Pause(s, op)
      [] op.type = "resume"   -> Resume(s, op)
      [] op.type = "reset"    -> OffsetReset(s, op.off, TRUE)

\* rd_kafka_q_purge_toppar_version: drops outdated ops from the queue's head.
Purge(q, ver) ==
    LET kept == {i \in DOMAIN q : q[i].ver >= ver}
    IN  IF kept = {} THEN <<>> ELSE SubSeq(q, Min(kept), Len(q))

\* The errors the main thread posted join the application's queue.
Post(s, q) == p' = [s EXCEPT !.errs = <<>>] /\ fetchq' = q \o s.errs

\* The offset a start or a seek to offset asks for; Invalid is the policy's.
Wanted(offset) ==
    LET off == IF offset = Invalid THEN AutoReset ELSE offset
    IN  CASE off >= 0        -> off
          [] off = Beginning -> log.lo
          [] off = End       -> log.hi
          [] off = Stored    -> pos
          [] off = Invalid   -> Nowhere
          [] off <= TailBase -> Max({0, log.hi - (TailBase - off)})

\* A start, a stop or a seek is on its way.
Commanded ==
    \E op \in ToSet(ops) \union {snd[x] : x \in Senders} :
        op # None /\ op.type \in {"start", "stop", "seek"}

\* The offset was out of range, or its lookup failed: auto.offset.reset decides,
\* until the command on its way is served.
ResetByPolicy(op) ==
    /\ \/ op.type = "reset"
       \/ op.type = "offset" /\ op.err /\ ~Overtaken(p, op)
    /\ ~Commanded

\* The position goes where neither the application nor the policy asked for: an answer to
\* a lookup of before a seek, a stop or a leader change is handled when no lookup goes on; a
\* partition that is not paused is resumed from where its fetching began; a pause after a seek
\* goes back to the message last consumed.
Displaces(op) ==
    \/ op.type = "offset" /\ p.state \notin {"query", "wait"}
    \/ op.type = "resume" /\ ~Outdated(op, p.opver) /\ ~p.paused
    \/ op.type = "pause" /\ ~Outdated(op, p.opver) /\ p.app # Invalid /\ p.app # pos

Serve ==
    /\ ops # <<>>
    /\ LET op == Head(ops)
           s  == OpServe(p, op)
           live == ~Outdated(op, p.opver)
       IN  /\ Post(s, IF live /\ op.type = "pause" THEN Purge(fetchq, op.ver) ELSE fetchq)
           /\ ctl' = IF live /\ op.type = "stop" THEN "idle" ELSE ctl
           /\ pos' = IF ResetByPolicy(op) THEN Wanted(Invalid) ELSE pos
           /\ used' = [used EXCEPT !.displaced = @ \/ Displaces(op)]
    /\ ops' = SubSeq(ops, 2, Len(ops))
    /\ UNCHANGED <<version, snd, b, hand, log>>

\* rd_kafka_offset_query_tmr_cb.  The lookup it is to repeat may be over by now.
QueryTimer ==
    /\ p.qtmr
    /\ Post(OffsetRequest(p, p.query), fetchq)
    /\ used' = [used EXCEPT !.displaced = @ \/ p.state # "query"]
    /\ UNCHANGED <<version, snd, ops, b, hand, ctl, log, pos>>

----------------------------------------------------------------------------
(* The senders of commands.                                                *)

\* rd_kafka_toppar_version_new_barrier and the op that is to carry the version.
Barrier(x, type, off) ==
    /\ snd[x] = None
    /\ version < MaxVersion
    /\ version' = version + 1
    /\ snd' = [snd EXCEPT ![x] = [type |-> type, off |-> off, ver |-> version + 1,
                                   err |-> FALSE, old |-> FALSE]]
    /\ UNCHANGED <<p, ops, b, fetchq, hand, log>>

StartBarrier ==
    /\ ctl = "idle" /\ used.starts < MaxStarts
    /\ \E off \in Starts : Barrier("ctl", "start", off) /\ pos' = Wanted(off)
    /\ ctl' = "started"
    /\ used' = [used EXCEPT !.starts = @ + 1]

\* consume_stop0 waits for the reply.
StopBarrier ==
    /\ Stops /\ ctl = "started"
    /\ Barrier("ctl", "stop", 0)
    /\ ctl' = "stopping" /\ pos' = Nowhere
    /\ UNCHANGED used

\* The application seeks in a partition it consumes.
SeekBarrier ==
    /\ Started(p.state) /\ hand = None
    /\ \E off \in Seeks : Barrier("app", "seek", off) /\ pos' = Wanted(off)
    /\ UNCHANGED <<ctl, used>>

\* Paired: the application resumes what it paused, and pauses what it started.
PauseBarrier ==
    /\ Pauses # "no" /\ hand = None
    /\ \E type \in {"pause", "resume"} :
          /\ Pauses = "paired" => /\ (type = "resume") = used.held
                                 /\ ctl = "started" /\ snd["ctl"] = None
          /\ Barrier("app", type, 0)
          /\ used' = [used EXCEPT !.held = type = "pause"]
    /\ UNCHANGED <<ctl, pos>>

\* An older command that is enqueued later will be dropped.
Overtakes(x) == \E y \in Senders : snd[y] # None /\ snd[y].ver < snd[x].ver

Enqueue(x) ==
    /\ snd[x] # None
    /\ ops' = Append(ops, snd[x])
    /\ snd' = [snd EXCEPT ![x] = None]
    /\ used' = [used EXCEPT !.displaced = @ \/ Overtakes(x)]
    /\ UNCHANGED <<p, version, b, fetchq, hand, ctl, log, pos>>

----------------------------------------------------------------------------
(* The leader's broker thread.                                             *)

Moved == p.opver > b.ver \/ p.next # b.last

Decide ==
    IF Moved
    THEN [b EXCEPT !.off = p.next, !.last = p.next, !.ver = p.opver, !.eof = Invalid]
    ELSE b

ShouldFetch(q) ==
    ~p.paused /\ ~Logical(p.next) /\ Len(q) < QueuedMin /\ ~b.backoff

\* rd_kafka_toppar_fetch_decide, then a Fetch request if none is in flight.
ConsumerServe ==
    LET active == p.state = "active"
        d == IF active THEN Decide ELSE b
        q == IF active /\ Moved THEN Purge(fetchq, p.opver) ELSE fetchq
        on == active /\ ShouldFetch(q)
    IN  /\ p.leader # "none"
        /\ fetchq' = q
        /\ b' = [d EXCEPT !.flight = IF on /\ @ = None THEN [ver |-> d.ver, off |-> d.off] ELSE @]
        /\ UNCHANGED <<p, version, snd, ops, hand, ctl, log, used, pos>>

Landed == [b EXCEPT !.flight = None]

\* A reply from a former leader, or to a request of an older version.
FetchIgnored ==
    /\ b.flight # None
    /\ p.leader = "none" \/ b.flight.ver < b.ver
    /\ b' = Landed
    /\ UNCHANGED <<p, version, snd, ops, fetchq, hand, ctl, log, used, pos>>

FetchHandled == b.flight # None /\ p.leader # "none" /\ b.flight.ver >= b.ver

AtEof == b.off = log.hi /\ b.eof # b.off

FetchEof ==
    /\ FetchHandled /\ AtEof
    /\ b' = [Landed EXCEPT !.eof = b.off]
    /\ fetchq' = Append(fetchq, [type |-> "eof", off |-> b.off, ver |-> b.flight.ver])
    /\ UNCHANGED <<p, version, snd, ops, hand, ctl, log, used, pos>>

FetchOutOfRange ==
    /\ FetchHandled
    /\ b.flight.off \notin log.lo .. log.hi
    /\ b' = [Landed EXCEPT !.off = Invalid, !.backoff = TRUE]
    /\ ops' = Append(ops, [type |-> "reset", off |-> b.off, ver |-> NoVersion,
                           err |-> TRUE, old |-> FALSE])
    /\ UNCHANGED <<p, version, snd, fetchq, hand, ctl, log, used, pos>>

\* The messages from fetch_offset on are enqueued.
FetchMessages ==
    /\ FetchHandled /\ ~AtEof
    /\ b.flight.off \in log.lo .. log.hi - 1
    /\ \E last \in b.flight.off .. log.hi - 1 :
          LET first == Max({b.flight.off, b.off})
          IN  /\ fetchq' = fetchq \o [i \in 1 .. last - first + 1 |->
                                [type |-> "msg", off |-> first + i - 1, ver |-> b.flight.ver]]
              /\ b' = [Landed EXCEPT !.off = IF first <= last THEN last + 1 ELSE @]
    /\ UNCHANGED <<p, version, snd, ops, hand, ctl, log, used, pos>>

\* The request fails, or the partition has an error (which the application may see).
FetchFails ==
    /\ FetchHandled /\ used.fails < MaxFails
    /\ b' = [Landed EXCEPT !.backoff = TRUE]
    /\ \E told \in BOOLEAN :
          fetchq' = IF told THEN Append(fetchq, Err(b.flight.ver)) ELSE fetchq
    /\ used' = [used EXCEPT !.fails = @ + 1]
    /\ UNCHANGED <<p, version, snd, ops, hand, ctl, log, pos>>

\* An empty reply at the end of the log, which was reported or is not the fetch position.
FetchEmpty ==
    /\ FetchHandled
    /\ b.flight.off = log.hi /\ ~AtEof
    /\ b' = Landed
    /\ UNCHANGED <<p, version, snd, ops, fetchq, hand, ctl, log, used, pos>>

BackoffOver ==
    /\ b.backoff
    /\ Prompt => \A i \in DOMAIN ops : ops[i].type # "reset"
    /\ b' = [b EXCEPT !.backoff = FALSE]
    /\ UNCHANGED <<p, version, snd, ops, fetchq, hand, ctl, log, used, pos>>

----------------------------------------------------------------------------
(* The cluster: leadership, answers to offset lookups, retention.          *)

Aged(q) == [i \in DOMAIN q |-> [q[i] EXCEPT !.old = TRUE]]

\* rd_kafka_toppar_broker_migrate: a lookup in progress is started over.
Migrate ==
    /\ p.leader = "on" /\ used.moves < MaxMoves
    /\ p' = [(IF p.state = "wait" THEN OffsetRetry(p) ELSE p) EXCEPT !.leader = "leaving"]
    /\ used' = [used EXCEPT !.moves = @ + 1]
    /\ UNCHANGED <<version, snd, ops, b, fetchq, hand, ctl, log, pos>>

\* The old leader's broker thread lets the partition go.
Leave ==
    /\ p.leader = "leaving"
    /\ p' = [p EXCEPT !.leader = "none"]
    /\ UNCHANGED <<version, snd, ops, b, fetchq, hand, ctl, log, used, pos>>

\* Another broker's thread takes it up.  What the old one still answers is ignored: a Fetch
\* at once, an Offset with a retry.
Join ==
    /\ p.leader = "none"
    /\ p' = [p EXCEPT !.leader = "on", !.asked = Aged(@)]
    /\ b' = [b EXCEPT !.flight = None]
    /\ ops' = Aged(ops)
    /\ UNCHANGED <<version, snd, fetchq, hand, ctl, log, used, pos>>

\* A broker answers its requests in order.
Answer(err) ==
    /\ err => used.fails < MaxFails
    /\ p.asked # <<>>
    /\ p' = [p EXCEPT !.asked = SubSeq(@, 2, Len(@))]
    /\ ops' = Append(ops, [type |-> "offset", ver |-> Head(p.asked).ver, err |-> err,
                           old |-> Head(p.asked).old,
                           off |-> IF Head(p.asked).query = Beginning THEN log.lo ELSE log.hi])
    /\ used' = [used EXCEPT !.fails = IF err THEN @ + 1 ELSE @]
    /\ UNCHANGED <<version, snd, b, fetchq, hand, ctl, log, pos>>

\* Retention removes old messages; a new leader that lags, or a topic made anew, lacks new ones.
Lose(side) ==
    /\ side \in Loses
    /\ log = [lo |-> 0, hi |-> Hi]
    /\ log' = IF side = "old" THEN [log EXCEPT !.lo = Hi] ELSE [log EXCEPT !.hi = 1]
    /\ UNCHANGED <<p, version, snd, ops, b, fetchq, hand, ctl, used, pos>>

----------------------------------------------------------------------------
(* The application.                                                        *)

\* Mutation: the application is handed outdated ops.
FilterNone(q) == q

\* rd_kafka_op_filter as rd_kafka_q_pop applies it.
Filter(q) ==
    LET kept == {i \in DOMAIN q : ~Outdated(q[i], version)}
    IN  IF kept = {} THEN <<>> ELSE SubSeq(q, Min(kept), Len(q))

\* rd_kafka_consume0 up to the op it returns.
AppPop ==
    /\ hand = None /\ snd["app"] = None /\ fetchq # <<>>
    /\ LET q == Filter(fetchq)
       IN  IF q = <<>>
           THEN fetchq' = q /\ UNCHANGED <<hand, pos>>
           ELSE /\ fetchq' = SubSeq(q, 2, Len(q))
                /\ hand' = Head(q)
                /\ pos' = IF Head(q).type = "msg" THEN Head(q).off + 1 ELSE pos
    /\ UNCHANGED <<p, version, snd, ops, b, ctl, log, used>>

\* rd_kafka_op_offset_store.
AppStore ==
    /\ hand # None
    /\ p' = IF hand.type = "msg" THEN [p EXCEPT !.app = hand.off + 1] ELSE p
    /\ hand' = None
    /\ UNCHANGED <<version, snd, ops, b, fetchq, ctl, log, used, pos>>

----------------------------------------------------------------------------
Init ==
    /\ p = [opver |-> 1, state |-> "none", next |-> Invalid, query |-> Invalid, app |-> Invalid,
            cgrp |-> FALSE, paused |-> FALSE, qtmr |-> FALSE, leader |-> "on",
            asked |-> <<>>, errs |-> <<>>]
    /\ version = 1
    /\ snd = [x \in Senders |-> None]
    /\ ops = <<>>
    /\ b = [ver |-> 0, off |-> 0, last |-> Invalid, eof |-> Invalid, backoff |-> FALSE, flight |-> None]
    /\ fetchq = <<>> /\ hand = None /\ ctl = "idle" /\ log = [lo |-> 0, hi |-> Hi] /\ pos = Nowhere
    /\ used = [starts |-> 0, fails |-> 0, moves |-> 0, held |-> FALSE,
               displaced |-> FALSE]

Command == StartBarrier \/ StopBarrier \/ SeekBarrier \/ PauseBarrier
Broker  == \/ ConsumerServe \/ FetchIgnored \/ FetchEof \/ FetchOutOfRange
           \/ FetchMessages \/ FetchFails \/ FetchEmpty \/ BackoffOver
Cluster == \/ Migrate \/ Leave \/ Join
           \/ \E side \in {"old", "new"} : Lose(side)
           \/ \E err \in BOOLEAN : Answer(err)

Next == \/ Command \/ (\E x \in Senders : Enqueue(x))
        \/ Serve \/ QueryTimer \/ Broker \/ Cluster \/ AppPop \/ AppStore

Spec == Init /\ [][Next]_vars

----------------------------------------------------------------------------
\* A message or the end of the partition the application pops is the one it is owed.
PopsOwed == hand = None /\ hand' # None /\ hand'.type # "err" => hand'.off = pos

=============================================================================
