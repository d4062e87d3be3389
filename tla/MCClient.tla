------------------------------ MODULE MCClient -------------------------------
(***************************************************************************)
(* The client instance for TLC: its queues and timers, its configuration   *)
(* and plugins, its creation and destruction, the calls that wait for an   *)
(* answer and the Admin API.  A behaviour is of one component in one       *)
(* configuration, which scenario names; the variables of the others are    *)
(* Absent.  MCApplication adds the components around it and is what runs.  *)
(***************************************************************************)
EXTENDS ConfTable, FiniteSets

CONSTANTS Scenarios,    \* the scenarios of this run
          Absent          \* no value

VARIABLE scenario   \* the component and the configuration this behaviour is of

\* OpQueue
VARIABLES q_opq, qlen, ready, fwd, refcnt, freed, event, owner, drops, op, poller, localq,
          active, version_opq, cleared
\* Timers
VARIABLES clock, next, interval, oneshot, timers, enabled, pc, now, firing, terminating, armed
\* Instance
VARIABLES k_inst, gcnt, sasl, wait
\* Admin
VARIABLES draft, accepted, s_admin, up_admin, controller, version_admin, changes
\* ClientCalls
VARIABLES c_calls, net, q_calls, version_calls, up_calls, expired, touched
\* Conf
VARIABLES conf_conf, topic, fault, last
\* ConfPlugins
VARIABLES conf_plug, libs, faults, replaced, dup

opq == <<q_opq, qlen, ready, fwd, refcnt, freed, event, owner, drops, op, poller, localq,
         active, version_opq, cleared>>
tmr == <<clock, next, interval, oneshot, timers, enabled, pc, now, firing, terminating, armed>>
inst == <<k_inst, gcnt, sasl, wait>>
admin == <<draft, accepted, s_admin, up_admin, controller, version_admin, changes>>
calls == <<c_calls, net, q_calls, version_calls, up_calls, expired, touched>>
conf == <<conf_conf, topic, fault, last>>
plug == <<conf_plug, libs, faults, replaced, dup>>
client == <<opq, tmr, inst, admin, calls, conf, plug>>

-----------------------------------------------------------------------------
(* Queue A may be forwarded to B: an operation of a higher priority that   *)
(* is replied to and one that the application may yield after; two and     *)
(* three operations without priority sent to A in turn, the two with a     *)
(* version barrier.                                                        *)
ToB == [dr |-> "A", req |-> "B", m1 |-> "A", m2 |-> "A", m3 |-> "A"]
Urgent == [dr |-> 0, req |-> 1, m1 |-> 0, m2 |-> 0, m3 |-> 0]
Replied == [dr |-> Absent, req |-> "A", m1 |-> Absent, m2 |-> Absent, m3 |-> Absent]
InTurn == [dr |-> {}, req |-> {}, m1 |-> {}, m2 |-> {"m1"}, m3 |-> {"m2"}]
QueueConf == [queues |-> [Op |-> {"dr", "req"}, MaxVersion |-> 1],
              barrier |-> [Op |-> {"m1", "m2"}, MaxVersion |-> 2],
              order |-> [Op |-> {"m1", "m2", "m3"}, MaxVersion |-> 1]]

Queues(s) == INSTANCE OpQueue WITH
    Queue <- {"A", "B"}, Op <- QueueConf[s].Op, NoQ <- Absent, Forwardable <- {<<"A", "B">>},
    Prio <- Urgent, Target <- ToB, ReplyTo <- Replied, Earlier <- InTurn, Partial <- {"dr"},
    MaxVersion <- QueueConf[s].MaxVersion, q <- q_opq, version <- version_opq

QueuesIdle ==
    /\ q_opq = Absent /\ qlen = Absent /\ ready = Absent /\ fwd = Absent /\ refcnt = Absent
    /\ freed = Absent /\ event = Absent /\ owner = Absent /\ drops = Absent /\ op = Absent
    /\ poller = Absent /\ localq = Absent /\ active = Absent /\ version_opq = Absent /\ cleared = Absent

-----------------------------------------------------------------------------
(* Two timers, a short and a long interval: an int holds the difference of *)
(* any two times, or not that between a short and a long interval.         *)
WheelConf == [timers |-> [IntHalf |-> 16, MaxClock |-> 5], wrap |-> [IntHalf |-> 3, MaxClock |-> 4]]

Wheel(s) == INSTANCE Timers WITH
    None <- Absent, Timer <- {"t1", "t2"}, Interval <- {1, 4}, Backoff <- {1}, MaxSleep <- 2,
    IntHalf <- WheelConf[s].IntHalf, MaxClock <- WheelConf[s].MaxClock

WheelIdle ==
    /\ clock = Absent /\ next = Absent /\ interval = Absent /\ oneshot = Absent /\ timers = Absent
    /\ enabled = Absent /\ pc = Absent /\ now = Absent /\ firing = Absent /\ terminating = Absent
    /\ armed = Absent

-----------------------------------------------------------------------------
(* Instances whose creation succeeds or fails at one step, alone and two   *)
(* at a time.                                                              *)
Setting(a, g, b, t, x, f, l) ==
    [app_conf |-> a, cgrp |-> g, bg |-> b, ssl |-> t, ic |-> x, fails |-> f, flags |-> l]
\* Every combination that creates the handle, every flag.
Created ==
    {Setting(a, g, b, TRUE, FALSE, f, l) :
        a \in BOOLEAN, g \in BOOLEAN, b \in BOOLEAN,
        f \in {{}, {"internal"}, {"boot"}, {"learned"}},
        l \in {{}, {"no_consumer_close"}, {"immediate"}}}
\* Every step of rd_kafka_new that can fail.
Failing ==
    {Setting(a, g, b, t, FALSE, {f}, {}) :
        a \in BOOLEAN, g \in BOOLEAN, b \in BOOLEAN, t \in BOOLEAN,
        f \in {"verify", "assignors", "sasl", "ssl", "mainthread"}}
    \cup {Setting(a, g, TRUE, t, FALSE, {"bgthread"}, {}) :
            a \in BOOLEAN, g \in BOOLEAN, t \in BOOLEAN}
\* Two instances that come and go independently.
Both == {Setting(TRUE, FALSE, FALSE, FALSE, FALSE, {f}, {}) : f \in {"boot", "ssl"}}
\* Interceptors on a conf, with and without failure.
Intercepted ==
    {Setting(TRUE, FALSE, b, TRUE, TRUE, f, {}) :
        b \in BOOLEAN, f \in {{}, {"verify"}, {"mainthread"}, {"ssl"}}}
InstOf == [Insts |-> {"i1"}, Scenarios |-> Created \cup Failing]

InstConf == [instance |-> InstOf,
             instances |-> [InstOf EXCEPT !.Insts = {"i1", "i2"}, !.Scenarios = Both],
             intercept |-> [InstOf EXCEPT !.Scenarios = Intercepted]]

Life(s) == INSTANCE Instance WITH
    Insts <- InstConf[s].Insts, Scenarios <- InstConf[s].Scenarios, k <- k_inst

LifeIdle ==
    /\ k_inst = Absent /\ gcnt = Absent /\ sasl = Absent /\ wait = Absent

-----------------------------------------------------------------------------
(* Admin requests made at once, the answers to one of several names and    *)
(* codes, and objects that are built call by call.                         *)
NewT(t) == [topic |-> t, parts |-> 1, factor |-> 1, replicas |-> <<>>]
Res(type, n) == [topic |-> <<type, n>>, ops |-> {"set"}]
Opts(b, t) == [operation_timeout |-> t, validate_only |-> 0, incremental |-> 0, broker |-> b]
Draft(for, api, args, opts) == [for |-> for, api |-> api, args |-> args, opts |-> opts, tried |-> 0]
AtOnce == {Draft("any", "delete", <<NewT("a")>>, Opts(-1, 0)),
           Draft("any", "describe", <<Res("broker", 1)>>, Opts(-1, 0))}
Several ==
    {Draft("any", api, <<NewT("a"), NewT("b"), NewT("c")>>, Opts(-1, t)) :
        api \in {"create", "delete", "parts"}, t \in {0, 1}}
    \cup {Draft("any", api, <<Res("topic", "a"), Res("topic", "b")>>, Opts(-1, 0)) : api \in {"alter", "describe"}}
Built == {Draft(for, api, <<>>, Opts(-1, 0)) : for \in {"any", "delete"}, api \in {"create", "parts", "alter"}}
AdminOf == [Reqs |-> {"r1", "r2"}, Drafts |-> AtOnce, Topics |-> {}, PartCounts |-> {},
            Factors |-> {}, MaxArgs |-> 0, MaxAssign |-> 0, Versions |-> {-1, 0, 1},
            Codes |-> {"none"}, Terminating |-> TRUE]

AdminConf == [async |-> AdminOf,
              replies |-> [AdminOf EXCEPT !.Reqs = {"r1"}, !.Drafts = Several,
                                          !.Versions = {2},
                                          !.Codes = {"none", "REQUEST_TIMED_OUT", "TOPIC_ERR"},
                                          !.Terminating = FALSE],
              build |-> [AdminOf EXCEPT !.Reqs = {"r1"}, !.Drafts = Built, !.Topics = {"a"},
                                        !.PartCounts = {2}, !.Factors = {-2, -1, 1},
                                        !.MaxArgs = 2, !.MaxAssign = 1, !.Terminating = FALSE]]

Requests(s) == INSTANCE Admin WITH
    PartitionsMax <- 2, BrokersMax <- 2, Reqs <- AdminConf[s].Reqs, Brokers <- {1},
    Drafts <- AdminConf[s].Drafts, Topics <- AdminConf[s].Topics,
    PartCounts <- AdminConf[s].PartCounts, Factors <- AdminConf[s].Factors,
    MaxArgs <- AdminConf[s].MaxArgs, MaxAssign <- AdminConf[s].MaxAssign,
    Versions <- AdminConf[s].Versions, Codes <- AdminConf[s].Codes, Faulty <- FALSE,
    MaxChanges <- 2, Terminating <- AdminConf[s].Terminating, s <- s_admin, up <- up_admin,
    version <- version_admin

RequestsIdle ==
    /\ draft = Absent /\ accepted = Absent /\ s_admin = Absent /\ up_admin = Absent
    /\ controller = Absent /\ version_admin = Absent /\ changes = Absent

-----------------------------------------------------------------------------
(* Calls that wait for three brokers, one of which has no groups.          *)
GroupsAt == [b1 |-> {"b1"}, b2 |-> {"b2"}, b3 |-> {}]
CallsOf == [Calls |-> {"wmark", "times", "groups"}, Brokers |-> {"b1", "b2", "b3"},
            Errs |-> {"transport"}, MaxVersion |-> 3, Timed |-> TRUE]

CallsConf == [calls |-> CallsOf,
              slow |-> [CallsOf EXCEPT !.Calls = {"wmark", "groups"}, !.Errs = {},
                                       !.MaxVersion = 2],
              more |-> [CallsOf EXCEPT !.Calls = {"wmark", "times", "groups", "committed", "controller"},
                                       !.Brokers = {"b1", "b2"},
                                       !.Errs = {"transport", "perm"}, !.Timed = FALSE]]

Waits(s) == INSTANCE ClientCalls WITH
    Calls <- CallsConf[s].Calls, Brokers <- CallsConf[s].Brokers, Groups <- GroupsAt, Low <- 3,
    High <- 7, Errs <- CallsConf[s].Errs, MaxRetry <- 1, MaxVersion <- CallsConf[s].MaxVersion,
    Timed <- CallsConf[s].Timed, c <- c_calls, q <- q_calls, version <- version_calls,
    up <- up_calls

WaitsIdle ==
    /\ c_calls = Absent /\ net = Absent /\ q_calls = Absent /\ version_calls = Absent
    /\ up_calls = Absent /\ expired = Absent /\ touched = Absent

-----------------------------------------------------------------------------
(* Two configurations, two topic configurations and properties of every    *)
(* kind.                                                                   *)
Item(w) == [lead |-> FALSE, sign |-> "", word |-> w, trail |-> FALSE]
Text(t) == [txt |-> t, isnum |-> FALSE, hi |-> 0, lo |-> 0, items |-> <<Item(t)>>]
Number(t, l) == [Text(t) EXCEPT !.isnum = TRUE, !.lo = l]
Without == [Text("-gzip") EXCEPT !.items = <<[Item("gzip") EXCEPT !.sign = "-"]>>]
Kinds == {Number("2000", 2000), Number("1", 1), Text("all"), Without}
Settings == INSTANCE Conf WITH
    Confs <- {"c1", "c2"}, Topics <- {"t1", "t2"},
    Names <- {"message.max.bytes", "builtin.features", "acks", "error_cb"}, Texts <- Kinds,
    Rooms <- {99}, conf <- conf_conf

SettingsIdle ==
    /\ conf_conf = Absent /\ topic = Absent /\ fault = Absent /\ last = Absent

-----------------------------------------------------------------------------
(* Plugins that are loaded once and in either order, that are loaded again *)
(* and one that cannot be loaded; interceptors that handle properties      *)
(* copied before and after them.                                           *)
PlugOf == [Confs |-> {"c1", "c2", "c3"}, Names |-> {"own"}, Handled |-> {"own"},
           PathLists |-> {<<"A">>, <<"A", "B">>, <<"B", "A", "A">>}, MaxSets |-> 1]
HeldOf == [PlugOf EXCEPT !.Confs = {"c1", "c2"}, !.Names = {"own", "early", "late"}]

PlugConf == [plugins |-> PlugOf,
             held |-> [HeldOf EXCEPT !.Handled = {"own", "early", "late"}],
             reload |-> [HeldOf EXCEPT !.PathLists = {<<"A">>, <<"X">>, <<"A", "X">>, <<"B">>},
                                       !.Names = {"own"}, !.MaxSets = 2]]

Plugins(s) == INSTANCE ConfPlugins WITH
    Confs <- PlugConf[s].Confs, Good <- {"A", "B"}, PathLists <- PlugConf[s].PathLists,
    Names <- PlugConf[s].Names, Handled <- PlugConf[s].Handled, Values <- {1},
    MaxSets <- PlugConf[s].MaxSets, MaxConfig <- 2, conf <- conf_plug

PluginsIdle ==
    /\ conf_plug = Absent /\ libs = Absent /\ faults = Absent /\ replaced = Absent
    /\ dup = Absent

-----------------------------------------------------------------------------
QueuesInit == \E s \in DOMAIN QueueConf \cap Scenarios : scenario = s /\ Queues(s)!Init
QueuesNext == \E s \in DOMAIN QueueConf : scenario = s /\ Queues(s)!Next

WheelInit == \E s \in DOMAIN WheelConf \cap Scenarios : scenario = s /\ Wheel(s)!Init
WheelNext == \E s \in DOMAIN WheelConf : scenario = s /\ Wheel(s)!Next

LifeInit == \E s \in DOMAIN InstConf \cap Scenarios : scenario = s /\ Life(s)!Init
LifeNext == \E s \in DOMAIN InstConf : scenario = s /\ Life(s)!Next

RequestsInit == \E s \in DOMAIN AdminConf \cap Scenarios : scenario = s /\ Requests(s)!Init
RequestsNext == \E s \in DOMAIN AdminConf : scenario = s /\ Requests(s)!Next

WaitsInit == \E s \in DOMAIN CallsConf \cap Scenarios : scenario = s /\ Waits(s)!Init
WaitsNext == \E s \in DOMAIN CallsConf : scenario = s /\ Waits(s)!Next

SettingsInit == "kinds" \in Scenarios /\ scenario = "kinds" /\ Settings!Init
SettingsNext == scenario = "kinds" /\ Settings!Next

PluginsInit == \E s \in DOMAIN PlugConf \cap Scenarios : scenario = s /\ Plugins(s)!Init
PluginsNext == \E s \in DOMAIN PlugConf : scenario = s /\ Plugins(s)!Next

\* One component starts, the others are not there.
ClientInit ==
    \/ QueuesInit /\ WheelIdle /\ LifeIdle /\ RequestsIdle /\ WaitsIdle /\ SettingsIdle /\
       PluginsIdle
    \/ WheelInit /\ QueuesIdle /\ LifeIdle /\ RequestsIdle /\ WaitsIdle /\ SettingsIdle /\
       PluginsIdle
    \/ LifeInit /\ QueuesIdle /\ WheelIdle /\ RequestsIdle /\ WaitsIdle /\ SettingsIdle /\
       PluginsIdle
    \/ RequestsInit /\ QueuesIdle /\ WheelIdle /\ LifeIdle /\ WaitsIdle /\ SettingsIdle /\
       PluginsIdle
    \/ WaitsInit /\ QueuesIdle /\ WheelIdle /\ LifeIdle /\ RequestsIdle /\ SettingsIdle /\
       PluginsIdle
    \/ SettingsInit /\ QueuesIdle /\ WheelIdle /\ LifeIdle /\ RequestsIdle /\ WaitsIdle /\
       PluginsIdle
    \/ PluginsInit /\ QueuesIdle /\ WheelIdle /\ LifeIdle /\ RequestsIdle /\ WaitsIdle /\
       SettingsIdle

ClientNext ==
    /\ UNCHANGED scenario
    /\ \/ QueuesNext /\ UNCHANGED <<tmr, inst, admin, calls, conf, plug>>
       \/ WheelNext /\ UNCHANGED <<opq, inst, admin, calls, conf, plug>>
       \/ LifeNext /\ UNCHANGED <<opq, tmr, admin, calls, conf, plug>>
       \/ RequestsNext /\ UNCHANGED <<opq, tmr, inst, calls, conf, plug>>
       \/ WaitsNext /\ UNCHANGED <<opq, tmr, inst, admin, conf, plug>>
       \/ SettingsNext /\ UNCHANGED <<opq, tmr, inst, admin, calls, plug>>
       \/ PluginsNext /\ UNCHANGED <<opq, tmr, inst, admin, calls, conf>>

ClientIdle ==
    /\ QueuesIdle /\ WheelIdle /\ LifeIdle /\ RequestsIdle /\ WaitsIdle /\ SettingsIdle /\ PluginsIdle

-----------------------------------------------------------------------------
(* Properties.                                                             *)

\* Whatever is forwarded, purged, yielded or moved meanwhile, an op that was enqueued and neither
\* handled nor destroyed is in exactly one place; two ops without priority sent to a queue one after
\* the other stay in that order, across forwarding, partial serving and yielding, as long as no
\* forwarding is taken back; rkq_refcnt counts exactly those who can reach a queue, so that it is freed when nobody
\* can and not before; and while a queue holds ops its application polls it or has an event.  The
\* list of timers holds each scheduled one once and nothing else.
QueuesExact ==
    /\ \A s \in DOMAIN QueueConf : scenario = s =>
        /\ Queues(s)!NothingLost /\ Queues(s)!InOrder
        /\ Queues(s)!RefcntExact /\ Queues(s)!NoUseAfterFree /\ Queues(s)!NoLostEvent
    /\ \A s \in DOMAIN WheelConf : scenario = s => Wheel(s)!QueueExact

\* A callback is called only for a timer that was started and not stopped since, and for a
\* one-shot timer once per start; and when rd_kafka_timers_run returns, no timer that had expired
\* when it began is still waiting, unless the two timers are due 2^31 us or more apart: their times
\* are compared as an int, which then puts the later one first.
FiresOnlyArmed ==
    [][\A s \in DOMAIN WheelConf : scenario = s => Wheel(s)!FiresArmed /\ Wheel(s)!LeavesNoneDue]_client

\* No thread touches a queue or the handle after it was freed, nothing is freed or joined twice,
\* and the global state is up whenever an instance may use it; once rd_kafka_destroy has returned,
\* or rd_kafka_new has failed, every thread has ended and was joined and all that was allocated
\* is freed.  The clean-up of rd_kafka_new is right but for four cases, which are exactly these:
\* when the main thread cannot be started after the background thread was, that is joined and its
\* queue freed twice; when the background thread cannot be started its queue leaks; after either the
\* SSL context leaks when a conf was passed in; and a conf passed in with interceptors is left with
\* interceptors that are freed.
NoFault ==
    \A s \in DOMAIN InstConf : scenario = s =>
        /\ Life(s)!GlobalsUp /\ Life(s)!NoFault /\ Life(s)!AllReleased
        /\ Life(s)!OnDestroyOnce /\ Life(s)!WaitTruthful

\* However its timer, broker state changes and the broker's answer are ordered, an Admin request
\* gives the application at most one result, no assertion of the worker or of the eonce fails and
\* no broker's coming up is missed; what is sent is what the objects say, and result i is about
\* argument i though brokers answer in any order.
AtMostOneResult ==
    \A s \in DOMAIN AdminConf : scenario = s =>
        /\ Requests(s)!AtMostOneResult /\ Requests(s)!NoMissedWakeup
        /\ Requests(s)!ResultsMatchRequest /\ Requests(s)!SentAsAsked
        /\ s = "async" => Requests(s)!NoAbort /\ Requests(s)!NoLeak

\* A call that asks several brokers updates the application's list for all of them or, when one
\* failed or was late, not at all; when no answer is an error the watermarks and groups it returns are
\* the cluster's; and the callback of a reply that comes after the call has returned, whose queue is
\* destroyed, leaves alone the stack its state was on.
AllOrNothing ==
    \A s \in DOMAIN CallsConf : scenario = s =>
        /\ Waits(s)!AllOrNothing /\ Waits(s)!StateInScope
        /\ s = "slow" => Waits(s)!WatermarksTrue /\ Waits(s)!ListComplete

\* A duplicate of a configuration has every value of its original, those of the default topic
\* configuration and those its interceptors hold included, except that of a property listed after
\* the interceptors, which the interceptors of the copy get with the value stored, not with the one
\* they hold; the text a dump gives for a value sets that value again; a topic configuration has
\* one owner; and no interceptor is called after its plugin was unloaded nor a plugin closed twice, in
\* whatever order the configurations are destroyed, as long as plugin.library.paths is not set for a
\* configuration that has loaded a plugin and no library fails to load behind one that was loaded.
DuplicateEqual ==
    /\ scenario = "kinds" => Settings!DuplicateEqual /\ Settings!OwnTopicConf /\ Settings!DumpSets
    /\ \A s \in DOMAIN PlugConf : scenario = s => Plugins(s)!HeldCopied /\ Plugins(s)!LoadedWhenCalled
=============================================================================
