------------------------------ MODULE Instance ------------------------------
(***************************************************************************)
(* The life of a librdkafka instance (rdkafka.c, rdkafka_background.c):    *)
(* rd_kafka_new with every step of it that can fail and the clean-up that  *)
(* follows, the main, background and broker threads it starts, and the     *)
(* destruction that stops them, joins them and frees what they use.  The   *)
(* application thread that creates and destroys an instance, the threads   *)
(* of the instance and an application thread in rd_kafka_wait_destroyed    *)
(* interleave; a region under rd_kafka_wrlock(rk) is one step.             *)
(*                                                                         *)
(* Memory is a resource with a state, a NULL pointer is the state "none".  *)
(* Using or freeing what is already freed, joining a thread twice and      *)
(* freeing an instance under a running thread are recorded in `faults'.    *)
(***************************************************************************)
EXTENDS Integers, Sequences, FiniteSets, SequencesExt

CONSTANTS
    Insts,      \* the instances the application creates
    Scenarios   \* what an application asks for, and what fails:
                \* app_conf: a conf is passed to rd_kafka_new; cgrp: a consumer with group.id;
                \* bg: background_event_cb is set; ssl: an SSL context is created;
                \* ic: interceptors were added to the conf;
                \* fails: the steps of rd_kafka_new that fail;
                \* flags: the flags of rd_kafka_destroy_flags

VARIABLES
    k,          \* the instances
    gcnt,       \* rd_kafka_global_cnt
    sasl,       \* whether the global SASL/SSL state is initialised
    wait        \* the thread in rd_kafka_wait_destroyed: pc, and what it found

vars == <<k, gcnt, sasl, wait>>

Brokers == {"internal", "boot", "learned"}
Resources == {"conf", "fields", "icepts", "rk", "rep", "ops", "bgq", "assignors", "ctx", "cgrp"}
Threads == {"main", "bg"} \cup Brokers

Initial(c) == [
    cfg |-> c,
    pc |-> [app |-> "verify", main |-> "none", bg |-> "none"],
    th |-> [b \in Brokers |-> "none"],      \* broker threads
    ref |-> [b \in Brokers |-> 0],          \* rkb_refcnt
    list |-> <<>>,                          \* rk_brokers
    term |-> {},                            \* rk_terminate
    pending |-> <<>>,                       \* ops for the main thread
    replied |-> FALSE,                      \* the group's reply to consumer_close
    mem |-> [r \in Resources |->
                IF c.app_conf /\ (r \in {"conf", "fields"} \/ (r = "icepts" /\ c.ic))
                THEN "live" ELSE "none"],
    zeroed |-> FALSE,                       \* rk_conf has been cleared
    wait_thrds |-> {},                      \* threads destroy_internal will join
    joined |-> {},
    destroyed |-> 0,                        \* calls of the on_destroy interceptors
    faults |-> {}]

Init ==
    /\ k \in [Insts -> {Initial(c) : c \in Scenarios}]
    /\ gcnt = 0
    /\ sasl = FALSE
    /\ wait = [pc |-> "idle", freed |-> TRUE]

-----------------------------------------------------------------------------
(* Memory and threads *)

Fault(s, what) == [s EXCEPT !.faults = @ \cup {what}]

Alloc(s, r) == [s EXCEPT !.mem[r] = "live"]

Use(s, r) == IF s.mem[r] = "freed" THEN Fault(s, <<"use", r>>) ELSE s

\* A NULL pointer is not freed.
Free(s, r) ==
    CASE s.mem[r] = "none"  -> s
      [] s.mem[r] = "live"  -> [s EXCEPT !.mem[r] = "freed"]
      [] s.mem[r] = "freed" -> Fault(s, <<"free", r>>)

Ended(s, t) == IF t \in Brokers THEN s.th[t] = "done" ELSE s.pc[t] = "done"

Running(s, t) == IF t \in Brokers THEN s.th[t] \in {"start", "run"}
                                  ELSE s.pc[t] \notin {"none", "done"}

Join(s, t) == IF t \in s.joined THEN Fault(s, <<"join", t>>)
                                ELSE [s EXCEPT !.joined = @ \cup {t}]

At(s, t, l) == [s EXCEPT !.pc[t] = l]

\* rd_kafka_terminating(rk)
Terminating(s) == "terminate" \in s.term

\* The threads a started thread has counted in rd_kafka_thread_cnt_curr.
Counted(s) == {t \in Threads : Running(s, t) /\
                    (IF t \in Brokers THEN s.th[t] ELSE s.pc[t]) /= "start"}

\* rd_kafka_thread_cnt()
ThreadCnt == LET n[S \in SUBSET Insts] ==
                     IF S = {} THEN 0
                     ELSE LET i == CHOOSE x \in S : TRUE
                          IN Cardinality(Counted(k[i])) + n[S \ {i}]
             IN n[Insts]

-----------------------------------------------------------------------------
(* rd_kafka_new *)

Verify(s) ==
    IF "verify" \in s.cfg.fails THEN At(s, "app", "failed")
    ELSE At(IF s.cfg.app_conf THEN s ELSE Alloc(Alloc(s, "conf"), "fields"), "app", "incr")

\* The handle: rk_conf is a struct copy of the conf; on_new, queues, timers.
Setup(s) ==
    LET a == Alloc(Alloc(Alloc(s, "rk"), "rep"), "ops")
    IN At(IF s.cfg.app_conf THEN a ELSE Free(a, "conf"), "app", "assignors")

\* A step of rd_kafka_new that jumps to `fail' when it cannot be done.
Try(s, step, then, next) ==
    IF step \in s.cfg.fails THEN At(s, "app", "f_term") ELSE At(then, "app", next)

AssignorsInit(s) == Try(s, "assignors", Alloc(s, "assignors"), "sasl")

SaslProvider(s) == Try(s, "sasl", s, "ssl")

SslCtxInit(s) == Try(s, "ssl", IF s.cfg.ssl THEN Alloc(s, "ctx") ELSE s, "cgrp")

CgrpNew(s) == At(IF s.cfg.cgrp THEN Alloc(s, "cgrp") ELSE s, "app", "bgthread")

BgCreate(s) ==
    IF ~s.cfg.bg THEN At(s, "app", "mainthread")
    ELSE LET q == Alloc(s, "bgq")
         IN Try(q, "bgthread", At(q, "bg", "start"), "mainthread")

MainCreate(s) == Try(s, "mainthread", At(s, "main", "start"), "internal")

\* rd_kafka_broker_add; the broker starts with the references of rk and of its thread.
BrokerAdd(s, b) ==
    IF b \in s.cfg.fails THEN s
    ELSE [s EXCEPT !.th[b] = "start", !.ref[b] = 2,
                   !.list = IF b = "internal" THEN @ ELSE Append(@, b)]

InternalAdd(s) == At(BrokerAdd(s, "internal"), "app", "brokers")

\* The conf's base pointer is freed on success: its fields are rk_conf's now.
BrokersAdd(s) ==
    LET b == BrokerAdd(s, "boot")
    IN At(IF s.cfg.app_conf THEN Free(b, "conf") ELSE b, "app", "ready")

\* The fail label: terminate, stop the background thread, run on_destroy, and
\* leave the fields of the application's conf alone.
FailTerm(s) == At([s EXCEPT !.term = {"terminate"}], "app", "f_bg")

CanFailBg(s) == s.pc["bg"] \in {"none", "done"}

FailBg(s) ==
    At(IF s.pc["bg"] = "none" THEN s ELSE Free(Join(s, "bg"), "bgq"), "app", "f_conf")

OnDestroy(s) == IF s.cfg.ic /\ ~s.zeroed THEN [s EXCEPT !.destroyed = @ + 1] ELSE s

\* Mutation: rk_conf is not cleared, so that it is freed with the handle.
FailConf_kept(s) ==
    LET d == OnDestroy(s)
    IN At(IF s.cfg.app_conf THEN Free(Free(d, "assignors"), "icepts") ELSE d, "app", "di_bg")

FailConf(s) ==
    LET d == OnDestroy(s)
    IN At(IF s.cfg.app_conf
          THEN [Free(Free(d, "assignors"), "icepts") EXCEPT !.zeroed = TRUE]
          ELSE d, "app", "di_bg")

-----------------------------------------------------------------------------
(* rd_kafka_destroy_internal, by the main thread or by rd_kafka_new: t *)

\* Wake the background thread, join it, free its queue.
StopBg(s, t) ==
    IF s.pc["bg"] = "none" THEN At(s, t, "di_ic") ELSE At(Use(s, "bgq"), t, "di_bgjoin")

JoinBg(s, t) == At(Free(Join(s, "bg"), "bgq"), t, "di_ic")

Intercept(s, t) == At(OnDestroy(s), t, "di_brokers")

\* Send a TERMINATE op, remember the thread and drop rk's reference.
Decommission(s, b) ==
    [s EXCEPT !.wait_thrds = @ \cup {b}, !.ref[b] = @ - 1]

\* One turn of the loop over rk_brokers; the lock is released between turns.
NextBroker(s) == SelectSeq(s.list, LAMBDA b : b \notin s.wait_thrds)

DecommissionNext(s, t) ==
    IF NextBroker(s) = <<>> THEN At(Use(s, "rep"), t, "di_internal")
    ELSE Decommission(s, Head(NextBroker(s)))

DropInternal(s, t) ==
    At(IF s.th["internal"] = "none" THEN s ELSE Decommission(s, "internal"), t, "di_join")

CanJoinBrokers(s) == \A b \in s.wait_thrds : Ended(s, b)

JoinBrokers(s, t) ==
    At([s EXCEPT !.joined = @ \cup s.wait_thrds,
                 !.faults = @ \cup {<<"join", b>> : b \in s.wait_thrds \cap s.joined}],
       t, IF t = "main" THEN "done" ELSE "final")

DestroyInternal(s, t) ==
    CASE s.pc[t] = "di_bg"       -> StopBg(s, t)
      [] s.pc[t] = "di_bgjoin"   -> JoinBg(s, t)
      [] s.pc[t] = "di_ic"       -> Intercept(s, t)
      [] s.pc[t] = "di_brokers"  -> DecommissionNext(s, t)
      [] s.pc[t] = "di_internal" -> DropInternal(s, t)
      [] s.pc[t] = "di_join"     -> JoinBrokers(s, t)

CanDestroyInternal(s, t) ==
    /\ s.pc[t] \in {"di_bg", "di_bgjoin", "di_ic", "di_brokers", "di_internal", "di_join"}
    /\ s.pc[t] = "di_bgjoin" => Ended(s, "bg")
    /\ s.pc[t] = "di_join" => CanJoinBrokers(s)

-----------------------------------------------------------------------------
(* rd_kafka_destroy_app and rd_kafka_destroy_final *)

DestroyFlags(s) == IF "immediate" \in s.cfg.flags THEN s.cfg.flags \cup {"no_consumer_close"}
                                                  ELSE s.cfg.flags

\* Set the flags, then rd_kafka_consumer_close: ask the group to terminate.
DestroyCall(s) ==
    LET f == [s EXCEPT !.term = DestroyFlags(s) \cup {"called"}]
    IN IF s.cfg.cgrp THEN At([f EXCEPT !.pending = Append(@, "close")], "app", "d_close")
       ELSE At(f, "app", "d_term")

\* Wait for the group, unless the close queue was disabled.
CanClose(s) == s.replied \/ "no_consumer_close" \in s.term

DestroyTerm(s) == At([s EXCEPT !.term = DestroyFlags(s) \cup {"terminate"}], "app", "d_enq")

DestroyEnq(s) ==
    At([Use(s, "ops") EXCEPT !.pending = Append(@, "terminate")],
       "app", IF "immediate" \in s.term THEN "gone" ELSE "d_join")

Final(s) ==
    LET a == IF \E t \in Threads : Running(s, t) THEN Fault(s, <<"free", "rk", "running">>) ELSE s
        b == IF s.zeroed THEN a ELSE Free(a, "assignors")
        c == Free(Free(Free(b, "cgrp"), "rep"), "ops")
        d == IF s.zeroed THEN c ELSE Free(Free(Free(c, "ctx"), "fields"), "icepts")
    IN At(Free(d, "rk"), "app", "decr")

\* rd_kafka_new returned NULL: the application destroys the conf it still owns.
ConfDestroy(s) ==
    At(IF s.cfg.app_conf THEN Free(Free(Free(s, "fields"), "icepts"), "conf") ELSE s,
       "app", "gone")

AppLocal(s) ==
    CASE s.pc["app"] = "verify"     -> Verify(s)
      [] s.pc["app"] = "setup"      -> Setup(s)
      [] s.pc["app"] = "assignors"  -> AssignorsInit(s)
      [] s.pc["app"] = "sasl"       -> SaslProvider(s)
      [] s.pc["app"] = "ssl"        -> SslCtxInit(s)
      [] s.pc["app"] = "cgrp"       -> CgrpNew(s)
      [] s.pc["app"] = "bgthread"   -> BgCreate(s)
      [] s.pc["app"] = "mainthread" -> MainCreate(s)
      [] s.pc["app"] = "internal"   -> InternalAdd(s)
      [] s.pc["app"] = "brokers"    -> BrokersAdd(s)
      [] s.pc["app"] = "ready"      -> DestroyCall(s)
      [] s.pc["app"] = "d_close"    -> At(s, "app", "d_term")
      [] s.pc["app"] = "d_term"     -> DestroyTerm(s)
      [] s.pc["app"] = "d_enq"      -> DestroyEnq(s)
      [] s.pc["app"] = "d_join"     -> At(Join(s, "main"), "app", "final")
      [] s.pc["app"] = "f_term"     -> FailTerm(s)
      [] s.pc["app"] = "f_bg"       -> FailBg(s)
      [] s.pc["app"] = "f_conf"     -> FailConf(s)
      [] s.pc["app"] = "final"      -> Final(s)
      [] s.pc["app"] = "failed"     -> ConfDestroy(s)

AppSteps == {"verify", "setup", "assignors", "sasl", "ssl", "cgrp", "bgthread", "mainthread",
             "internal", "brokers", "ready", "d_close", "d_term", "d_enq", "d_join", "f_term",
             "f_bg", "f_conf", "final", "failed"}

CanApp(s) ==
    /\ s.pc["app"] \in AppSteps
    /\ s.pc["app"] = "d_close" => CanClose(s)
    /\ s.pc["app"] = "d_join" => Ended(s, "main")
    /\ s.pc["app"] = "f_bg" => CanFailBg(s)

App(i) ==
    /\ CanApp(k[i])
    /\ k' = [k EXCEPT ![i] = AppLocal(k[i])]
    /\ UNCHANGED <<gcnt, sasl, wait>>

AppDestroyInternal(i) ==
    /\ CanDestroyInternal(k[i], "app")
    /\ k' = [k EXCEPT ![i] = DestroyInternal(k[i], "app")]
    /\ UNCHANGED <<gcnt, sasl, wait>>

\* rd_kafka_global_cnt_incr: the first instance initialises the global state.
Incr(i) ==
    /\ k[i].pc["app"] = "incr"
    /\ gcnt' = gcnt + 1
    /\ sasl' = (sasl \/ gcnt' = 1)
    /\ k' = [k EXCEPT ![i] = At(@, "app", "setup")]
    /\ UNCHANGED wait

\* rd_kafka_global_cnt_decr: the last instance releases it.
Released(n) == n = 0

Decr(i) ==
    /\ k[i].pc["app"] = "decr"
    /\ gcnt > 0
    /\ gcnt' = gcnt - 1
    /\ sasl' = (sasl /\ ~Released(gcnt'))
    /\ k' = [k EXCEPT ![i] = At(@, "app", IF @.pc["main"] = "none" THEN "failed" ELSE "gone")]
    /\ UNCHANGED wait

-----------------------------------------------------------------------------
(* The threads of an instance *)

\* rd_kafka_thread_main: start, serve rk_ops, and leave when it is terminating
\* and rk_ops is empty.  The consumer group's close op is answered from here.
MainStart(s) == At(Use(s, "ops"), "main", "loop")

MainServe(s) ==
    [Use(s, "ops") EXCEPT !.pending = Tail(@), !.replied = @ \/ Head(s.pending) = "close"]

MainLeave(s) == At(Use(s, "ops"), "main", "di_bg")

Main(i) ==
    LET s == k[i]
    IN /\ \/ /\ s.pc["main"] = "start"
             /\ k' = [k EXCEPT ![i] = MainStart(s)]
          \/ /\ s.pc["main"] = "loop" /\ s.pending /= <<>>
             /\ k' = [k EXCEPT ![i] = MainServe(s)]
          \/ /\ s.pc["main"] = "loop" /\ s.pending = <<>> /\ Terminating(s)
             /\ k' = [k EXCEPT ![i] = MainLeave(s)]
       /\ UNCHANGED <<gcnt, sasl, wait>>

MainDestroyInternal(i) ==
    /\ CanDestroyInternal(k[i], "main")
    /\ k' = [k EXCEPT ![i] = DestroyInternal(k[i], "main")]
    /\ UNCHANGED <<gcnt, sasl, wait>>

\* rd_kafka_background_thread_main
BgStart(s) == At(Use(s, "bgq"), "bg", "loop")

BgLeave(s) == At(Use(s, "bgq"), "bg", "done")

Background(i) ==
    LET s == k[i]
    IN /\ \/ /\ s.pc["bg"] = "start"
             /\ k' = [k EXCEPT ![i] = BgStart(s)]
          \/ /\ s.pc["bg"] = "loop" /\ Terminating(s)
             /\ k' = [k EXCEPT ![i] = BgLeave(s)]
       /\ UNCHANGED <<gcnt, sasl, wait>>

\* rd_kafka_broker_thread_main: runs while someone else holds a reference, then
\* leaves rk_brokers and drops its own.
BrokerStart(s, b) == [Use(s, "rk") EXCEPT !.th[b] = "run"]

BrokerLeave(s, b) ==
    [Use(s, "rk") EXCEPT !.th[b] = "done", !.ref[b] = 0,
                         !.list = SelectSeq(@, LAMBDA x : x /= b)]

Broker(i, b) ==
    LET s == k[i]
    IN /\ \/ /\ s.th[b] = "start"
             /\ k' = [k EXCEPT ![i] = BrokerStart(s, b)]
          \/ /\ s.th[b] = "run" /\ s.ref[b] <= 1
             /\ k' = [k EXCEPT ![i] = BrokerLeave(s, b)]
       /\ UNCHANGED <<gcnt, sasl, wait>>

\* rd_kafka_broker_update: the lock is taken, then rk_terminate is looked at.
MayLearn(s) == s.th["learned"] = "none" /\ ~Terminating(s)

\* A broker thread handles a Metadata response that names another broker.
Learn(i) ==
    LET s == k[i]
    IN /\ s.th["boot"] = "run"
       /\ MayLearn(s)
       /\ k' = [k EXCEPT ![i] = BrokerAdd(Use(s, "rk"), "learned")]
       /\ UNCHANGED <<gcnt, sasl, wait>>

-----------------------------------------------------------------------------
(* rd_kafka_wait_destroyed: two reads, the count of threads first *)

AllFreed == \A i \in Insts : k[i].mem["rk"] /= "live"

WaitThreads ==
    /\ wait.pc = "idle"
    /\ ThreadCnt = 0
    /\ wait' = [wait EXCEPT !.pc = "threads"]
    /\ UNCHANGED <<k, gcnt, sasl>>

WaitInstances ==
    /\ wait.pc = "threads"
    /\ wait' = IF gcnt = 0 THEN [pc |-> "returned", freed |-> AllFreed]
                           ELSE [wait EXCEPT !.pc = "idle"]
    /\ UNCHANGED <<k, gcnt, sasl>>

-----------------------------------------------------------------------------
Next ==
    \/ \E i \in Insts :
          \/ App(i) \/ AppDestroyInternal(i) \/ Incr(i) \/ Decr(i)
          \/ Main(i) \/ MainDestroyInternal(i) \/ Background(i) \/ Learn(i)
          \/ \E b \in Brokers : Broker(i, b)
    \/ WaitThreads
    \/ WaitInstances

Spec == Init /\ [][Next]_vars

-----------------------------------------------------------------------------
(* Properties *)

Gone(s) == s.pc["app"] = "gone" /\ "immediate" \notin s.term

\* rd_kafka_new fails with this configuration, at one of these steps.
FailsAt(c, steps) == c.fails \cap steps # {}

\* What the clean-up of a failed rd_kafka_new does wrong: the background thread
\* is stopped by the fail label and again by rd_kafka_destroy_internal, and the
\* interceptors of the application's conf are freed though it keeps the conf.
Botched(c) ==
    {f \in {<<"use", "bgq">>, <<"join", "bg">>, <<"free", "bgq">>} :
        c.bg /\ FailsAt(c, {"mainthread"})}
    \cup {f \in {<<"free", "icepts">>} :
        c.ic /\ FailsAt(c, {"assignors", "sasl", "ssl", "bgthread", "mainthread"})}

\* What it leaves behind: the queue of a background thread that could not be
\* started, and the SSL context when rk_conf is cleared.
Leaked(c) ==
    {r \in {"bgq"} : c.bg /\ FailsAt(c, {"bgthread"})}
    \cup {r \in {"ctx"} : c.app_conf /\ c.ssl /\ FailsAt(c, {"bgthread", "mainthread"})}

\* No thread touches a queue or the handle after it was freed, nothing is freed
\* or joined twice, and rd_kafka_destroy_final never frees a handle under a
\* thread that still runs, but for what a failed rd_kafka_new botches: the order
\* of joins in rd_kafka_destroy_internal and rd_kafka_destroy_app.
NoFault ==
    \A i \in Insts :
        /\ k[i].faults \subseteq Botched(k[i].cfg)
        /\ Gone(k[i]) => k[i].faults = Botched(k[i].cfg)

\* Once rd_kafka_destroy has returned, or the application has destroyed the
\* conf of a failed rd_kafka_new, every thread has ended and was joined and
\* all that was allocated is freed, but for what a failed rd_kafka_new leaks.
AllReleased ==
    \A i \in Insts : Gone(k[i]) =>
        /\ {r \in Resources : k[i].mem[r] = "live"} = Leaked(k[i].cfg)
        /\ \A t \in Threads : ~Running(k[i], t)
        /\ {t \in Threads : Ended(k[i], t)} = k[i].joined

\* An interceptor's on_destroy runs at most once per instance although both the
\* fail path of rd_kafka_new and rd_kafka_destroy_internal call it.
OnDestroyOnce == \A i \in Insts : k[i].destroyed <= 1

\* The global SASL and SSL state is up whenever an instance may use it.
InUse(s) == s.mem["rk"] = "live"
GlobalsUp == (\E i \in Insts : InUse(k[i])) => sasl

\* rd_kafka_wait_destroyed returns 0 only when every handle has been freed.
WaitTruthful == wait.pc = "returned" => wait.freed

=============================================================================
