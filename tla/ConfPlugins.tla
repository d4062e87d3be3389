---------------------------- MODULE ConfPlugins ----------------------------
(***************************************************************************)
(* Plugins and interceptors of a configuration object (rdkafka_plugin.c,   *)
(* rdkafka_interceptor.c and the parts of rdkafka_conf.c that call them).  *)
(* Setting plugin.library.paths loads libraries whose conf_init() adds     *)
(* interceptor methods to the configuration.  These see every property     *)
(* that is set, are told when the configuration is duplicated, and are     *)
(* called for the last time when it is destroyed - code of a library that  *)
(* must still be loaded then.                                              *)
(***************************************************************************)
EXTENDS Integers, Sequences, FiniteSets, SequencesExt

CONSTANTS
    Confs,          \* handles of configurations
    Good,           \* paths of plugins that load
    PathLists,      \* the values of plugin.library.paths: sequences of paths
    Names,          \* the other properties the application sets
    Handled,        \* the properties the plugins' interceptors handle themselves
    Values,         \* values of properties
    MaxSets,        \* how often a configuration's plugin.library.paths is set
    MaxConfig       \* entries of interceptors' configuration; a duplicate gets
                    \* one more for each property of the table they handle

VARIABLES
    conf,           \* conf[c]: a configuration
    libs,           \* libs[p]: how often the library of p is loaded
    faults,         \* what went wrong
    replaced,       \* history: a configuration lost plugins it had loaded
    dup             \* the last duplication: <<from, to>>

vars == <<conf, libs, faults, replaced, dup>>

\* The properties, in the order of rd_kafka_properties[]: one before the
\* plugins, the plugins, the interceptors, one after them.  "own" is known to
\* interceptors only.
Props == <<"early", "plugin.library.paths", "interceptors", "late">>

Unset == 0
Held == [n \in {"early", "late", "own"} |-> Unset]
NewConf == [live |-> TRUE, vals |-> [n \in {"early", "late"} |-> Unset], paths |-> <<>>,
            plugins |-> <<>>, freed |-> FALSE, chain |-> <<>>, held |-> [p \in Good |-> Held],
            config |-> <<>>, sets |-> 0]

Init ==
    /\ conf = [c \in Confs |-> [NewConf EXCEPT !.live = FALSE]]
    /\ libs = [p \in Good |-> 0]
    /\ faults = {}
    /\ replaced = FALSE
    /\ dup = <<>>

\* The calls below work on a configuration, the libraries and the faults.
Fault(s, f) == [s EXCEPT !.faults = @ \cup {f}]

-----------------------------------------------------------------------------
(* rdkafka_interceptor.c *)

\* Only on_conf_destroy may be there more than once.
Conflict(chain, m) == m.on /= "destroy" /\ Contains(chain, m)

MethodAdd(chain, m) == IF Conflict(chain, m) THEN chain ELSE Append(chain, m)

\* The plugin's conf_init(), which is also what its on_conf_dup() does: a new
\* instance of its configuration, methods for it.
ConfInit(cf, p) ==
    LET fresh == ~Contains(cf.chain, [on |-> "set", ic |-> p])
    IN [cf EXCEPT !.chain = MethodAdd(MethodAdd(MethodAdd(@, [on |-> "set", ic |-> p]),
                                                [on |-> "dup", ic |-> p]),
                                      [on |-> "destroy", ic |-> p]),
                  !.held[p] = IF fresh THEN Held ELSE @]

\* Code of a library is called.
Called(s, p) == IF s.libs[p] = 0 THEN Fault(s, "unloaded") ELSE s

Methods(cf, on) == SelectSeq(cf.chain, LAMBDA m : m.on = on)

\* rd_kafka_interceptors_on_conf_set: the first method that handles the property
OnConfSet(s, n, v) ==
    LET ms == Methods(s.cf, "set")
        t == FoldLeft(LAMBDA x, m : Called(x, m.ic), s,
                      IF n \in Handled THEN SubSeq(ms, 1, IF ms = <<>> THEN 0 ELSE 1) ELSE ms)
    IN IF n \in Handled /\ ms /= <<>>
       THEN [t EXCEPT !.res = "ok", !.cf.held[ms[1].ic][n] = v, !.cf.config = Append(@, <<n, v>>)]
       ELSE [t EXCEPT !.res = "unknown"]

\* rd_kafka_interceptors_on_conf_dup: the methods of the old set up the new
OnConfDup(s, old) ==
    FoldLeft(LAMBDA x, m : [Called(x, m.ic) EXCEPT !.cf = ConfInit(@, m.ic)], s, Methods(old, "dup"))

\* rd_kafka_interceptors_on_conf_destroy
OnConfDestroy(s) == FoldLeft(LAMBDA x, m : Called(x, m.ic), s, Methods(s.cf, "destroy"))

-----------------------------------------------------------------------------
(* rdkafka_plugin.c *)

\* rd_list_destroy of the plugins: their libraries are closed.  The list keeps its
\* elements; destroying it again frees them again.  cleaned: on_conf_destroy
\* methods have been called.
DestroyPlugins(s, cleaned) ==
    LET t == IF s.cf.plugins = <<>> THEN s
             ELSE IF s.cf.freed THEN Fault(s, "freed_twice")
             ELSE IF ~cleaned THEN Fault(s, "not_cleaned") ELSE s
    IN [t EXCEPT !.libs = [p \in Good |-> IF Contains(s.cf.plugins, p) /\ @[p] > 0
                                          THEN @[p] - 1 ELSE @[p]],
                 !.cf.freed = TRUE]

ListInit(s) == [s EXCEPT !.cf.plugins = <<>>, !.cf.freed = FALSE]

\* rd_kafka_plugin_new
PluginNew(s, p) ==
    IF s.res /= "ok" \/ Contains(s.cf.plugins, p) THEN s
    ELSE IF p \notin Good THEN [DestroyPlugins(s, FALSE) EXCEPT !.res = "invalid"]
    ELSE [s EXCEPT !.libs[p] = @ + 1, !.cf = [ConfInit(@, p) EXCEPT !.plugins = Append(@, p)]]

\* rd_kafka_plugins_conf_set0
PluginsSet(s, paths, cleaned) ==
    FoldLeft(PluginNew, [ListInit(DestroyPlugins(s, cleaned)) EXCEPT !.res = "ok"], paths)

-----------------------------------------------------------------------------
(* rdkafka_conf.c *)

\* rd_kafka_anyconf_set_prop0 for a property with a plain value
SetPlain(s, n, v) ==
    LET t == OnConfSet(s, n, v)
    IN IF t.res /= "unknown" THEN t ELSE [t EXCEPT !.res = "ok", !.cf.vals[n] = v]

\* rd_kafka_anyconf_set_prop0 for plugin.library.paths: its setter, then its value
SetPaths(s, paths) ==
    LET t == PluginsSet(OnConfSet(s, "plugin.library.paths", Unset), paths, FALSE)
    IN IF t.res /= "ok" THEN t ELSE [t EXCEPT !.cf.paths = paths]

\* rd_kafka_conf_set: interceptors first
SetAny(s, n, v) ==
    LET t == OnConfSet(s, n, v)
    IN IF t.res /= "unknown" THEN t
       ELSE IF n = "own" THEN [t EXCEPT !.res = "unknown"] ELSE SetPlain(t, n, v)

\* rd_kafka_conf_interceptor_copy
CopyConfig(s, old) == FoldLeft(LAMBDA x, e : SetAny(x, e[1], e[2]), s, old.config)

CopyPaths(s, old) == SetPaths(s, old.paths)

\* rd_kafka_anyconf_copy, one property
CopyProp(s, old, n) ==
    CASE n \in {"early", "late"}       -> SetPlain(s, n, old.vals[n])
      [] n = "plugin.library.paths"    -> CopyPaths(s, old)
      [] n = "interceptors"            -> CopyConfig(s, old)

\* rd_kafka_conf_dup
DupOf(s, old) == FoldLeft(LAMBDA x, n : CopyProp(x, old, n), OnConfDup(s, old), Props)

\* rd_kafka_anyconf_destroy: the methods, then the properties
Destroyed(s) ==
    LET t == OnConfDestroy(s)
    IN IF t.cf.paths = <<>> THEN t ELSE ListInit(DestroyPlugins(t, TRUE))

State(c) == [cf |-> conf[c], libs |-> libs, faults |-> faults, res |-> "ok"]

Result(c, s) ==
    /\ conf' = [conf EXCEPT ![c] = s.cf]
    /\ libs' = s.libs
    /\ faults' = s.faults

-----------------------------------------------------------------------------
New(c) ==
    /\ ~conf[c].live
    /\ conf' = [conf EXCEPT ![c] = NewConf]
    /\ dup' = <<>>
    /\ UNCHANGED <<libs, faults, replaced>>

Set(c, n, v) ==
    /\ conf[c].live /\ Len(conf[c].config) < MaxConfig
    /\ Result(c, SetAny(State(c), n, v))
    /\ dup' = <<>>
    /\ UNCHANGED replaced

\* Setting these paths takes plugins from a configuration that has loaded them:
\* it had some before, or a library that does not load comes behind one that does.
Replaces(cf, paths) ==
    \/ cf.plugins /= <<>>
    \/ \E i \in DOMAIN paths : paths[i] \notin Good /\ \E j \in 1..(i - 1) : paths[j] \in Good

SetPlugins(c, paths) ==
    /\ conf[c].live /\ conf[c].sets < MaxSets
    /\ LET s == SetPaths(State(c), paths)
       IN Result(c, [s EXCEPT !.cf.sets = @ + 1])
    /\ replaced' = (replaced \/ Replaces(conf[c], paths))
    /\ dup' = <<>>

Duplicate(c, d) ==
    /\ conf[c].live /\ ~conf[d].live /\ Len(conf[c].config) < MaxConfig
    /\ LET s == DupOf([State(d) EXCEPT !.cf = NewConf], conf[c])
       IN Result(d, [s EXCEPT !.cf.sets = conf[c].sets])
    /\ dup' = <<c, d>>
    /\ UNCHANGED replaced

Destroy(c) ==
    /\ conf[c].live
    /\ LET s == Destroyed(State(c))
       IN Result(c, [s EXCEPT !.cf = [NewConf EXCEPT !.live = FALSE]])
    /\ dup' = <<>>
    /\ UNCHANGED replaced

Next ==
    /\ faults \cap {"unloaded", "freed_twice"} = {}
    /\ \/ \E c \in Confs : New(c) \/ Destroy(c)
       \/ \E c \in Confs, n \in Names, v \in Values : Set(c, n, v)
       \/ \E c \in Confs, ps \in PathLists : SetPlugins(c, ps)
       \/ \E c, d \in Confs : Duplicate(c, d)

Spec == Init /\ [][Next]_vars

-----------------------------------------------------------------------------
(* Properties *)

\* No method of an interceptor is called after its library was unloaded, however
\* configurations are duplicated and in which order they are destroyed; and when
\* no configuration is left, no library is; unless a configuration lost plugins
\* whose methods it keeps.
LoadedWhenCalled ==
    replaced \/ /\ faults = {}
                /\ (\A c \in Confs : ~conf[c].live) => \A p \in Good : libs[p] = 0

\* Interceptors of a duplicate hold the values that interceptors of the original
\* were given; but of a property that is copied after the interceptors, the value
\* stored with the original.
Copied(n, cf, p) == IF n = "late" THEN cf.vals[n] ELSE cf.held[p][n]

HeldCopied ==
    (dup /= <<>> /\ ~replaced) =>
        \A p \in Good, n \in Handled : conf[dup[1]].held[p][n] /= Unset =>
            conf[dup[2]].held[p][n] = Copied(n, conf[dup[1]], p)

=============================================================================
