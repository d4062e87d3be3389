------------------------------ MODULE OpQueue ------------------------------
(***************************************************************************)
(* librdkafka's op queues (rdkafka_queue.c, rdkafka_queue.h): the queues   *)
(* between the application, the main thread and the broker threads.        *)
(*                                                                         *)
(* Each queue has a lock, a reference count, an owner that polls it, and   *)
(* may be forwarded to another queue.  An enqueue follows the forwarding   *)
(* one lock at a time and keeps a reference on each queue it walks         *)
(* through.  An op sent to a queue that its owner has disabled goes back   *)
(* to the op's reply queue, or is destroyed.                               *)
(*                                                                         *)
(* A step is what one thread does while it holds one queue's lock.         *)
(* References are given back one at a time (Drop) before anything else     *)
(* happens: keeping one longer only keeps the queue.  One thread polls.    *)
(***************************************************************************)
EXTENDS Integers, Sequences, FiniteSets, SequencesExt

CONSTANTS
    Queue, Op,
    NoQ,            \* a NULL queue
    Forwardable,    \* pairs <<src, dest>> that rd_kafka_q_fwd_set is called with
    Prio,           \* rko_prio of each op
    Target,         \* the queue each op is sent to
    ReplyTo,        \* the reply queue of each op, NoQ when it wants no reply
    Earlier,        \* the ops that are sent before each op
    Partial,        \* delivery-report ops with more than one message
    MaxVersion      \* bound on the toppar's version

VARIABLES
    q,          \* rkq_q: the ops of each queue
    qlen,       \* rkq_qlen
    ready,      \* RD_KAFKA_Q_F_READY
    fwd,        \* rkq_fwdq
    refcnt,     \* rkq_refcnt
    freed,      \* queues that rd_kafka_q_destroy_final has freed
    event,      \* an IO event has been written and not read yet
    owner,      \* the queue's owner: "owner", "disabled" (on its way) or "gone"
    drops,      \* references about to be given back, per queue
    op,         \* the ops
    poller,     \* the polling thread
    localq,     \* the ops rd_kafka_q_serve took off its queue
    active,     \* queues the application polls until they are empty
    version,    \* the version of the toppar the ops belong to
    cleared     \* history: a forwarding has been taken back

queueVars == <<q, qlen, ready, fwd, refcnt, freed, event>>
vars == <<queueVars, owner, drops, op, poller, localq, active, version, cleared>>

Idle == [pc |-> "idle", at |-> NoQ, held |-> <<>>]

Init ==
    /\ q = [k \in Queue |-> <<>>]
    /\ qlen = [k \in Queue |-> 0]
    /\ ready = [k \in Queue |-> TRUE]
    /\ fwd = [k \in Queue |-> NoQ]
    /\ refcnt = [k \in Queue |-> 1]
    /\ freed = {}
    /\ event = {}
    /\ owner = [k \in Queue |-> "owner"]
    /\ drops = [k \in Queue |-> 0]
    /\ op = [o \in Op |-> [st |-> "new", at |-> NoQ, orig |-> NoQ, held |-> <<>>,
                           replyq |-> NoQ, ver |-> 0, before |-> {}, reenq |-> FALSE]]
    /\ poller = Idle
    /\ localq = <<>>
    /\ active = {}
    /\ version = 1
    /\ cleared = FALSE

-----------------------------------------------------------------------------
(* Helpers.                                                                *)

Keep(r, k) == IF k = NoQ THEN r ELSE [r EXCEPT ![k] = @ + 1]

Occurrences(s, k) == Cardinality({i \in DOMAIN s : s[i] = k})

\* The references in the sequence s are given back later.
Release(d, s) == [k \in Queue |-> d[k] + Occurrences(s, k)]

\* What is left of an op that was handled or destroyed.
Ended(st) == [st |-> st, at |-> NoQ, orig |-> NoQ, held |-> <<>>, replyq |-> NoQ, ver |-> 0,
              before |-> {}, reenq |-> FALSE]

\* rd_kafka_op_destroy gives up the op's reply queue.
ReplyRefs(S, k) == Cardinality({o \in S : op[o].replyq = k})
DestroyedOps(S) ==
    [o \in Op |-> IF o \in S THEN Ended("destroyed") ELSE op[o]]

\* TAILQ_INSERT_SORTED with rd_kafka_op_cmp_prio: higher priorities first.
InsertPrio(s, o) ==
    LET lower == {i \in DOMAIN s : Prio[s[i]] < Prio[o]}
    IN  IF lower = {} THEN Append(s, o)
        ELSE InsertAt(s, CHOOSE i \in lower : \A j \in lower : i <= j, o)

\* rd_kafka_q_enq0.  An op without a priority goes to the tail even when it is
\* to go to the head.
Enq0(s, o, at_head) ==
    IF Prio[o] = 0 THEN Append(s, o)
    ELSE IF at_head THEN <<o>> \o s ELSE InsertPrio(s, o)

\* rd_kafka_q_concat0: the prioritised ops at the head of src are sorted in,
\* the rest follows as it is.
Concat(dst, src) ==
    LET n == CHOOSE n \in 0..Len(src) :
                /\ \A i \in 1..n : Prio[src[i]] > 0
                /\ n < Len(src) => Prio[src[n + 1]] = 0
    IN  FoldLeft(InsertPrio, dst, SubSeq(src, 1, n)) \o SubSeq(src, n + 1, Len(src))

\* rd_kafka_q_move_cnt into an empty queue: n ops, one at a time unless it is
\* all of them.
MoveCnt(src, n) ==
    IF n = Len(src) THEN Concat(<<>>, src)
    ELSE FoldLeft(LAMBDA s, o : Enq0(s, o, FALSE), <<>>, SubSeq(src, 1, n))

\* Where the forwarding of k ends.
Resolve(k) == IF fwd[k] = NoQ THEN k ELSE fwd[k]

\* rkq_cond is signalled, and the IO event written, when the queue was empty.
WasEmpty(k) == qlen[k] = 0

\* No reference is waiting to be given back.
Quiet == \A k \in Queue : drops[k] = 0

SetQ(k, s) == q' = [q EXCEPT ![k] = s]

-----------------------------------------------------------------------------
(* Enqueueing, from any thread: rd_kafka_q_enq and rd_kafka_replyq_enq.    *)

\* A thread that has a reference on k enqueues a new op.
Call(o) == LET k == Target[o] IN
    /\ Quiet
    /\ op[o].st = "new"
    /\ \A p \in Earlier[o] : op[p].st # "new"
    /\ owner[k] = "owner"
    /\ ReplyTo[o] # NoQ => owner[ReplyTo[o]] = "owner"
    /\ refcnt' = Keep(Keep(refcnt, k), ReplyTo[o])
    /\ op' = [op EXCEPT ![o] = [@ EXCEPT !.st = "moving", !.at = k, !.orig = k,
                  !.held = <<k>>, !.replyq = ReplyTo[o], !.ver = version,
                  !.before = {p \in Op : op[p].st \notin {"new", "moving"}}]]
    /\ UNCHANGED <<q, qlen, ready, fwd, freed, event, owner, drops, poller, localq,
                   active, version, cleared>>

\* rd_kafka_op_reply: the op turns round to its reply queue, whose reference
\* goes with it.
Replied(o) == [op[o] EXCEPT !.st = "moving", !.at = op[o].replyq,
                            !.held = Append(op[o].held, op[o].replyq), !.replyq = NoQ]

\* The owner has disabled the queue.
Disabled(k) == ~ready[k]

EnqDisabled(o) ==
    /\ Quiet
    /\ op[o].st = "moving"
    /\ Disabled(op[o].at)
    /\ \/ /\ op[o].replyq = NoQ
          /\ op' = [op EXCEPT ![o] = Ended("destroyed")]
          /\ drops' = Release(drops, op[o].held)
       \/ /\ op[o].replyq # NoQ
          /\ op' = [op EXCEPT ![o] = Replied(o)]
          /\ UNCHANGED drops
    /\ UNCHANGED <<queueVars, owner, poller, localq, active, version, cleared>>

\* rd_kafka_q_fwd_get takes a reference.
FwdGet(r, k) == Keep(r, k)

EnqForward(o) ==
    /\ Quiet
    /\ op[o].st = "moving"
    /\ ~Disabled(op[o].at)
    /\ fwd[op[o].at] # NoQ
    /\ LET f == fwd[op[o].at]
       IN  /\ refcnt' = FwdGet(refcnt, f)
           /\ op' = [op EXCEPT ![o] = [@ EXCEPT !.at = f, !.held = Append(@, f)]]
    /\ UNCHANGED <<q, qlen, ready, fwd, freed, event, owner, drops, poller, localq,
                   active, version, cleared>>

EnqLand(o) ==
    /\ Quiet
    /\ op[o].st = "moving"
    /\ ~Disabled(op[o].at)
    /\ fwd[op[o].at] = NoQ
    /\ LET k == op[o].at
       IN  /\ SetQ(k, Enq0(q[k], o, FALSE))
           /\ qlen' = [qlen EXCEPT ![k] = @ + 1]
           /\ event' = IF WasEmpty(k) THEN event \cup {k} ELSE event
    /\ op' = [op EXCEPT ![o] = [@ EXCEPT !.st = "queued", !.at = NoQ, !.held = <<>>]]
    /\ drops' = Release(drops, op[o].held)
    /\ UNCHANGED <<ready, fwd, refcnt, freed, owner, poller, localq, active, version,
                   cleared>>

-----------------------------------------------------------------------------
(* References, forwarding and purging.                                     *)

LastRef(k) == refcnt[k] = 1

\* rd_kafka_q_destroy0, and rd_kafka_q_destroy_final on the last reference:
\* the forwarding ends and what is left in the queue is destroyed.
Drop(k) ==
    /\ drops[k] > 0
    /\ refcnt' = [refcnt EXCEPT ![k] = @ - 1]
    /\ IF ~LastRef(k)
       THEN /\ drops' = [drops EXCEPT ![k] = @ - 1]
            /\ UNCHANGED <<q, qlen, ready, fwd, freed, op>>
       ELSE /\ freed' = freed \cup {k}
            /\ ready' = [ready EXCEPT ![k] = FALSE]
            /\ fwd' = [fwd EXCEPT ![k] = NoQ]
            /\ SetQ(k, <<>>)
            /\ qlen' = [qlen EXCEPT ![k] = 0]
            /\ op' = DestroyedOps(ToSet(q[k]))
            /\ drops' = [j \in Queue |-> drops[j] - (IF j = k THEN 1 ELSE 0)
                            + (IF fwd[k] = j THEN 1 ELSE 0) + ReplyRefs(ToSet(q[k]), j)]
    /\ UNCHANGED <<event, owner, poller, localq, active, version, cleared>>

\* rd_kafka_q_fwd_set(src, dest).  What src holds is appended to dest, unless
\* dest is disabled.
FwdSet(src, dest) ==
    /\ Quiet
    /\ <<src, dest>> \in Forwardable
    /\ owner[src] = "owner" /\ owner[dest] = "owner"
    /\ refcnt' = Keep(refcnt, dest)
    /\ drops' = IF fwd[src] = NoQ THEN drops ELSE Release(drops, <<fwd[src]>>)
    /\ fwd' = [fwd EXCEPT ![src] = dest]
    /\ LET d == Resolve(dest)
       IN  IF qlen[src] > 0 /\ ready[d]
           THEN /\ q' = [q EXCEPT ![d] = Concat(q[d], q[src]), ![src] = <<>>]
                /\ qlen' = [qlen EXCEPT ![d] = @ + qlen[src], ![src] = 0]
                /\ event' = IF WasEmpty(d) THEN event \cup {d} ELSE event
           ELSE UNCHANGED <<q, qlen, event>>
    /\ UNCHANGED <<ready, freed, owner, op, poller, localq, active, version, cleared>>

FwdClear(src) ==
    /\ Quiet
    /\ owner[src] = "owner"
    /\ fwd[src] # NoQ
    /\ fwd' = [fwd EXCEPT ![src] = NoQ]
    /\ drops' = Release(drops, <<fwd[src]>>)
    /\ cleared' = TRUE
    /\ UNCHANGED <<q, qlen, ready, refcnt, freed, event, owner, op, poller, localq, active,
                   version>>

\* rd_kafka_q_destroy_owner: disable, purge, give the reference back.  The
\* owner is the thread that polls.
DisableOwner(k) ==
    /\ Quiet
    /\ owner[k] = "owner"
    /\ poller = Idle
    /\ owner' = [owner EXCEPT ![k] = "disabled"]
    /\ ready' = [ready EXCEPT ![k] = FALSE]
    /\ UNCHANGED <<q, qlen, fwd, refcnt, freed, event, drops, op, poller, localq, active,
                   version, cleared>>

\* rd_kafka_q_purge0 follows the forwarding: it empties the queue at its end.
PurgeOwner(k) ==
    /\ Quiet
    /\ owner[k] = "disabled"
    /\ owner' = [owner EXCEPT ![k] = "gone"]
    /\ LET d == Resolve(k)
       IN  /\ SetQ(d, <<>>)
           /\ qlen' = [qlen EXCEPT ![d] = 0]
           /\ op' = DestroyedOps(ToSet(q[d]))
           /\ drops' = [j \in Queue |-> drops[j] + (IF j = k THEN 1 ELSE 0)
                                        + ReplyRefs(ToSet(q[d]), j)]
    /\ UNCHANGED <<ready, fwd, refcnt, freed, event, poller, localq, active, version, cleared>>

\* How many ops at the head of s are older than version v.
StalePrefix(s, v) == CHOOSE n \in 0..Len(s) :
    /\ \A i \in 1..n : op[s[i]].ver < v
    /\ n < Len(s) => op[s[n + 1]].ver >= v

\* A version barrier: the version goes up and rd_kafka_q_purge_toppar_version
\* shaves the older ops off the head of the queue.
VersionBarrier(k) ==
    /\ Quiet
    /\ version < MaxVersion
    /\ k \notin freed
    /\ version' = version + 1
    /\ LET d == Resolve(k)
           n == StalePrefix(q[d], version')
           S == ToSet(SubSeq(q[d], 1, n))
       IN  /\ SetQ(d, SubSeq(q[d], n + 1, Len(q[d])))
           /\ qlen' = [qlen EXCEPT ![d] = @ - n]
           /\ op' = DestroyedOps(S)
           /\ drops' = [j \in Queue |-> drops[j] + ReplyRefs(S, j)]
    /\ UNCHANGED <<ready, fwd, refcnt, freed, event, owner, poller, localq, active, cleared>>

-----------------------------------------------------------------------------
(* Polling: rd_kafka_q_serve and rd_kafka_q_pop_serve.                     *)

\* The application reads the IO event and polls its queue.
PollBegin(k) ==
    /\ Quiet
    /\ poller = Idle
    /\ owner[k] = "owner"
    /\ poller' = [pc |-> "poll", at |-> k, held |-> <<>>]
    /\ event' = event \ {k}
    /\ active' = active \cup {k}
    /\ UNCHANGED <<q, qlen, ready, fwd, refcnt, freed, owner, drops, op, localq, version,
                   cleared>>

PollForward ==
    /\ Quiet
    /\ poller.pc = "poll"
    /\ fwd[poller.at] # NoQ
    /\ LET f == fwd[poller.at]
       IN  /\ refcnt' = FwdGet(refcnt, f)
           /\ poller' = [poller EXCEPT !.at = f, !.held = Append(@, f)]
    /\ UNCHANGED <<q, qlen, ready, fwd, freed, event, owner, drops, op, localq, active,
                   version, cleared>>

PollReturn == poller' = Idle /\ drops' = Release(drops, poller.held)

\* Nothing came before the timeout.
PollTimeout ==
    /\ Quiet
    /\ poller.pc = "poll"
    /\ fwd[poller.at] = NoQ
    /\ q[poller.at] = <<>>
    /\ PollReturn
    /\ active' = active \ {poller.at}
    /\ UNCHANGED <<queueVars, owner, op, localq, version, cleared>>

\* rd_kafka_q_serve moves up to max_cnt ops to its local queue.
ServeTake(n) ==
    /\ Quiet
    /\ poller.pc = "poll"
    /\ fwd[poller.at] = NoQ
    /\ LET k == poller.at
       IN  /\ n \in 1..Len(q[k])
           /\ localq' = MoveCnt(q[k], n)
           /\ SetQ(k, SubSeq(q[k], n + 1, Len(q[k])))
           /\ qlen' = [qlen EXCEPT ![k] = @ - n]
    /\ poller' = [poller EXCEPT !.pc = "serve"]
    /\ UNCHANGED <<ready, fwd, refcnt, freed, event, owner, drops, op, active, version,
                   cleared>>

\* The callback has dealt with the op: a request is answered.
Handled(o) == IF op[o].replyq = NoQ THEN Ended("handled") ELSE Replied(o)

ServeHandle ==
    /\ Quiet
    /\ poller.pc = "serve"
    /\ localq # <<>>
    /\ op' = [op EXCEPT ![Head(localq)] = Handled(Head(localq))]
    /\ localq' = Tail(localq)
    /\ IF Len(localq) = 1 THEN PollReturn ELSE UNCHANGED <<poller, drops>>
    /\ UNCHANGED <<queueVars, owner, active, version, cleared>>

\* The callback called rd_kafka_yield: what is left goes back to the head of
\* the queue, wherever that is forwarded now (rd_kafka_q_prepend0).  A
\* delivery report with messages left goes back too, by rd_kafka_q_reenq.
\* Mutation: it goes behind what came in meanwhile.
PrependBehind(k, s) == [q EXCEPT ![k] = @ \o s]
Prepend(k, s) == [q EXCEPT ![k] = s \o @]

ServeYield ==
    /\ Quiet
    /\ poller.pc = "serve"
    /\ localq # <<>>
    /\ LET o    == Head(localq)
           more == o \in Partial /\ ~op[o].reenq
           left == IF more THEN Enq0(Tail(localq), o, TRUE) ELSE Tail(localq)
           d    == Resolve(poller.at)
       IN  /\ op' = [op EXCEPT ![o] = IF more THEN [@ EXCEPT !.reenq = TRUE] ELSE Handled(o)]
           /\ q' = Prepend(d, left)
           /\ qlen' = [qlen EXCEPT ![d] = @ + Len(left)]
           /\ event' = IF WasEmpty(d) /\ left # <<>> THEN event \cup {d} ELSE event
    /\ localq' = <<>>
    /\ PollReturn
    /\ UNCHANGED <<ready, fwd, refcnt, freed, owner, active, version, cleared>>

\* rd_kafka_q_pop_serve: outdated ops at the head are destroyed, the next one,
\* if any, is handled or returned while the lock is held.
PopServe ==
    /\ Quiet
    /\ poller.pc = "poll"
    /\ fwd[poller.at] = NoQ
    /\ LET k == poller.at
           n == StalePrefix(q[k], version)
           S == ToSet(SubSeq(q[k], 1, n))
           D == DestroyedOps(S)
           found == n < Len(q[k])
       IN  /\ q[k] # <<>>
           /\ SetQ(k, SubSeq(q[k], n + 2, Len(q[k])))
           /\ qlen' = [qlen EXCEPT ![k] = @ - n - (IF found THEN 1 ELSE 0)]
           /\ op' = IF found THEN [D EXCEPT ![q[k][n + 1]] = Handled(q[k][n + 1])] ELSE D
           /\ poller' = IF found THEN Idle ELSE poller
           /\ drops' = [j \in Queue |-> ReplyRefs(S, j)
                            + (IF found THEN Release(drops, poller.held)[j] ELSE 0)]
    /\ UNCHANGED <<ready, fwd, refcnt, freed, event, owner, localq, active, version, cleared>>

Next ==
    \/ \E k \in Queue : Drop(k)
    \/ \E o \in Op : Call(o) \/ EnqDisabled(o) \/ EnqForward(o) \/ EnqLand(o)
    \/ \E k \in Queue : FwdClear(k) \/ DisableOwner(k) \/ PurgeOwner(k)
                        \/ VersionBarrier(k) \/ PollBegin(k)
    \/ \E p \in Forwardable : FwdSet(p[1], p[2])
    \/ PollForward \/ PollTimeout \/ ServeHandle \/ ServeYield \/ PopServe
    \/ \E n \in 1..Cardinality(Op) : ServeTake(n)

Spec == Init /\ [][Next]_vars

-----------------------------------------------------------------------------
(* Properties.                                                             *)

\* The references on k that the threads that enqueue hold.
Holders(k) == UNION {{<<o, i>> : i \in {j \in DOMAIN op[o].held : op[o].held[j] = k}} : o \in Op}

\* rkq_refcnt counts exactly the owner, the queues forwarded to it, the
\* threads walking through it and the ops that will be answered on it.  So a
\* queue is freed when nobody can reach it any more, and not before.
RefcntExact ==
    \A k \in Queue :
        refcnt[k] = Cardinality({x \in {k} : owner[x] # "gone"})
                    + Cardinality({s \in Queue : fwd[s] = k})
                    + Cardinality(Holders(k)) + Occurrences(poller.held, k)
                    + drops[k] + ReplyRefs(Op, k)

\* No thread walks into a queue that has been freed, no queue is forwarded to
\* one and no op waits for its answer on one.
NoUseAfterFree ==
    \A k \in freed :
        /\ \A o \in Op : op[o].replyq # k /\ (op[o].st = "moving" => op[o].at # k)
        /\ \A s \in Queue : fwd[s] # k
        /\ poller.at # k

Places(o) == {k \in Queue : o \in ToSet(q[k])} \cup {x \in {NoQ} : o \in ToSet(localq)}

\* Whatever is forwarded, purged, yielded or moved meanwhile, an op that has
\* been enqueued and neither handled nor destroyed is in exactly one place, at
\* one position, and rkq_qlen counts what the queue holds.
NothingLost ==
    /\ \A o \in Op : Cardinality(Places(o)) = IF op[o].st = "queued" THEN 1 ELSE 0
    /\ \A k \in Queue : IsInjective(q[k]) /\ qlen[k] = Len(q[k])
    /\ IsInjective(localq)

\* b was enqueued by someone who knew that a was in the queue already.
Precedes(a, b) ==
    /\ a \in op[b].before
    /\ op[a].orig = op[b].orig
    /\ Prio[a] = 0 /\ Prio[b] = 0
    /\ op[a].replyq = ReplyTo[a] /\ op[b].replyq = ReplyTo[b]

Ordered(s, exempt) ==
    \A i, j \in DOMAIN s :
        i < j /\ {s[i], s[j]} \cap exempt = {} => ~Precedes(s[j], s[i])

Reenqueued == {o \in Op : op[o].reenq}

\* Two ops without priority sent one after the other to the same queue stay
\* in that order, across forwarding, purging, partial serving and yielding, as
\* long as no forwarding is taken back (that strands ops in the other queue);
\* delivery reports that were put back are not counted.
InOrder == ~cleared =>
    /\ \A k \in Queue : Ordered(q[k], Reenqueued)
    /\ Ordered(IF poller.pc = "serve" THEN localq \o q[Resolve(poller.at)] ELSE <<>>,
               Reenqueued)

\* Somebody will look: while a queue holds ops its application is polling it
\* or has an IO event to read.
NoLostEvent ==
    \A k \in Queue : q[k] # <<>> /\ owner[k] = "owner" => k \in event \cup active

=============================================================================
