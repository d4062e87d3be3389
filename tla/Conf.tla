-------------------------------- MODULE Conf --------------------------------
(***************************************************************************)
(* Configuration objects of librdkafka (rdkafka_conf.c): an application    *)
(* creates them, sets and reads properties by name, duplicates them, hands *)
(* topic configurations to them and destroys them.  Values are set from    *)
(* text and turned back into text; the texts an application passes are     *)
(* records of what the setters look at.  Interceptors and plugins are      *)
(* modelled by ConfPlugins.                                                *)
(***************************************************************************)
EXTENDS Integers, Sequences, FiniteSets, SequencesExt, Functions, TLC

CONSTANTS
    GlobalProps, TopicProps,    \* the two halves of rd_kafka_properties (see ConfTable)
    Confs,          \* handles of global configurations
    Topics,         \* handles of topic configurations
    Names,          \* the names an application uses
    Texts,          \* the texts it passes (see Text)
    Rooms           \* the sizes of the buffers it reads into

VARIABLES
    conf,           \* conf[c]: the values of a configuration, and its topic_conf
    topic,          \* topic[t]: the values of a topic configuration
    fault,          \* an object was used or freed after it had been freed
    last            \* what the last call returned

vars == <<conf, topic, fault, last>>

NoTopic == "none"

\* A text: what it reads, the number strtol finds at its start in units of 2^32
\* and the rest, and its parts between commas.
Item(w) == [lead |-> FALSE, sign |-> "", word |-> w, trail |-> FALSE]
Text(t) == [txt |-> t, isnum |-> FALSE, hi |-> 0, lo |-> 0, items |-> <<Item(t)>>]
Number(t, h, l) == [Text(t) EXCEPT !.isnum = TRUE, !.hi = h, !.lo = l]
Csv(t, s) == [Text(t) EXCEPT !.items = s]
\* A value: a number, a string ("" is NULL) or a set of flags.
Value(i, s, f) == [i |-> i, s |-> s, f |-> f]

-----------------------------------------------------------------------------
(* rd_kafka_anyconf_set_prop0: store a value *)

Store(p, v, s, i, f, mode) ==
    CASE p.type \in {"str", "kstr"} -> [v EXCEPT !.s = IF s /= "" THEN s ELSE p.sdef]
      [] p.type = "ptr"             -> [v EXCEPT !.i = i]
      [] p.type \in {"bool", "int", "s2i"} -> [v EXCEPT !.i = i]
      [] p.type = "s2f" -> [v EXCEPT !.f = CASE mode = "replace" -> f
                                             [] mode = "add"     -> @ \cup f
                                             [] mode = "del"     -> @ \ f]
      [] p.type = "patlist"  -> [v EXCEPT !.s = s]
      [] p.type = "internal" -> v

\* rd_kafka_defaultconf_set
Default(p) == Store(p, Value(0, "", {}), p.sdef, p.vdef, p.fdef, "replace")

Stored(props) == {n \in DOMAIN props : props[n].type \notin {"alias", "invalid"}}

New(props) == [n \in Stored(props) \cap Names |-> Default(props[n])]

\* rd_kafka_conf_s2i_find
Find(p, word) == SelectInSeq(p.s2i, LAMBDA e : e[2] = word)

\* The validators of properties; broker versions and partitioners are known words.
Validates(p, txt) ==
    CASE p.validate = "any" -> TRUE
      [] p.validate = "single" -> txt /= "" /\ txt \notin {"a b", "a,b"}
      [] p.validate = "partitioner" ->
            txt \in {"random", "consistent", "consistent_random", "murmur2", "murmur2_random"}
      [] p.validate = "broker_version" -> txt \in {"0.9.0", "0.8.2", "0.8.1", "0.8.0"}

Set(res, v) == [res |-> res, v |-> v]

\* _RK_C_STR, _RK_C_KSTR, _RK_C_PATLIST.  A list that does not parse has already
\* taken the place of the one before.
BadPattern == "["
SetString(p, v, in) ==
    IF ~Validates(p, in.txt) THEN Set("invalid", v)
    ELSE IF p.type = "patlist" /\ in.txt = BadPattern THEN Set("invalid", [v EXCEPT !.s = ""])
    ELSE Set("ok", Store(p, v, in.txt, 0, {}, "replace"))

SetBool(p, v, in) ==
    CASE in.txt \in {"true", "t", "1"}  -> Set("ok", Store(p, v, in.txt, 1, {}, "replace"))
      [] in.txt \in {"false", "f", "0"} -> Set("ok", Store(p, v, in.txt, 0, {}, "replace"))
      [] OTHER -> Set("invalid", v)

InRange(p, i) == i >= p.vmin /\ i <= p.vmax

\* _RK_C_INT: the long that strtol returns is cast to an int.
SetInt(p, v, in) ==
    LET j == Find(p, in.txt)
        i == IF in.isnum THEN in.lo ELSE p.s2i[j][1]
    IN IF in.txt = "" \/ (~in.isnum /\ j = 0) THEN Set("invalid", v)
       ELSE IF InRange(p, i) THEN Set("ok", Store(p, v, in.txt, i, {}, "replace"))
       ELSE Set("invalid", v)

\* _RK_C_S2I
SetWord(p, v, in) ==
    LET j == Find(p, in.txt)
    IN IF in.txt = "" \/ j = 0 THEN Set("invalid", v)
       ELSE Set("ok", Store(p, v, in.txt, p.s2i[j][1], {}, "replace"))

\* _RK_C_S2F: blanks before a word are skipped; the loop that should skip those
\* after it looks at the comma.
FlagWord(item) == IF item.trail THEN item.word \o " " ELSE item.word

Mode(item) == IF item.sign = "-" THEN "del" ELSE "add"

SetFlag(p, s, item) ==
    LET j == Find(p, FlagWord(item))
    IN IF s.res /= "ok" \/ FlagWord(item) = "" THEN s
       ELSE IF j = 0 THEN Set("invalid", s.v)
       ELSE Set("ok", Store(p, s.v, "", 0, p.s2i[j][1], Mode(item)))

SetFlags(p, v, in) ==
    IF in.txt = "" THEN Set("invalid", v)
    ELSE FoldLeft(LAMBDA s, item : SetFlag(p, s, item), Set("ok", v), in.items)

\* rd_kafka_anyconf_set_prop
SetProp(p, v, in) ==
    CASE p.type \in {"str", "kstr", "patlist"}     -> SetString(p, v, in)
      [] p.type \in {"ptr", "internal", "invalid"} -> Set("invalid", v)
      [] p.type = "bool" -> SetBool(p, v, in)
      [] p.type = "int"  -> SetInt(p, v, in)
      [] p.type = "s2i"  -> SetWord(p, v, in)
      [] p.type = "s2f"  -> SetFlags(p, v, in)

\* The property a name stands for.
Target(props, n) == IF props[n].type = "alias" THEN props[n].sdef ELSE n

\* rd_kafka_anyconf_set
AnySet(props, vals, n, in) ==
    IF n \notin DOMAIN props THEN [res |-> "unknown", vals |-> vals]
    ELSE LET t == Target(props, n)
             s == SetProp(props[t], IF t \in DOMAIN vals THEN vals[t] ELSE Value(0, "", {}), in)
         IN [res |-> s.res, vals |-> IF t \in DOMAIN vals THEN [vals EXCEPT ![t] = s.v] ELSE vals]

-----------------------------------------------------------------------------
(* rd_kafka_anyconf_get0: a value as text, and how much room it takes *)

\* rd_kafka_conf_flags2str
FlagWords(p, f) == SelectSeq(p.s2i, LAMBDA e : e[1] \subseteq f)
Joined(ws) == FoldLeft(LAMBDA s, e : IF s = "" THEN e[2] ELSE s \o "," \o e[2], "", ws)

Got(res, txt, size) == [res |-> res, txt |-> txt, size |-> size]

Cut(s, n) == IF Len(s) < n THEN s ELSE SubSeq(s, 1, n - 1)

\* The first word for a number
WordOf(p, i) == LET j == SelectInSeq(p.s2i, LAMBDA e : e[1] = i)
                IN IF j = 0 THEN "" ELSE p.s2i[j][2]

GetText(p, v) ==
    CASE p.type \in {"str", "kstr", "patlist"} -> v.s
      [] p.type = "ptr"  -> IF v.i = 0 THEN "" ELSE "0x1"
      [] p.type = "bool" -> IF v.i = 0 THEN "false" ELSE "true"
      [] p.type = "int"  -> ToString(v.i)
      [] p.type = "s2i"  -> WordOf(p, v.i)
      [] p.type = "s2f"  -> Joined(FlagWords(p, v.f))
      [] OTHER -> ""

\* A string is cut to the room there is, and its full size returned.  Flags are
\* written into the room first; what is measured is what was written.
Get0(p, v, room) ==
    LET t == GetText(p, v)
    IN IF p.type = "s2f" THEN Got("ok", Cut(t, room), Len(Cut(t, room)) + 1)
       ELSE IF t = "" THEN Got("invalid", "", room)
       ELSE Got("ok", Cut(t, room), Len(t) + 1)

\* rd_kafka_anyconf_get
AnyGet(props, vals, n, room) ==
    IF n \notin DOMAIN props \/ Target(props, n) \notin DOMAIN vals THEN Got("unknown", "", room)
    ELSE LET g == Get0(props[Target(props, n)], vals[Target(props, n)], room)
         IN IF g.res = "ok" THEN g ELSE Got("unknown", "", room)

\* rd_kafka_conf_get
ConfGet(c, n, room) ==
    LET g == AnyGet(GlobalProps, conf[c].vals, n, room)
    IN IF g.res /= "unknown" \/ conf[c].topic = NoTopic THEN g
       ELSE AnyGet(TopicProps, topic[conf[c].topic].vals, n, room)

\* rd_kafka_anyconf_dump
AnyDump(props, vals) ==
    {<<n, GetText(props[n], vals[n])>> : n \in {m \in DOMAIN vals : Get0(props[m], vals[m], 99).res = "ok"}}

-----------------------------------------------------------------------------
(* rd_kafka_anyconf_copy, without a filter: every property from its value *)

\* Mutation: flags are copied on top of the defaults.
CopyMode_add(p) == IF p.type = "s2f" THEN "add" ELSE "replace"

CopyMode(p) == "replace"

Copied(props, new, old) ==
    [n \in DOMAIN new |-> Store(props[n], new[n], old[n].s, old[n].i, old[n].f, CopyMode(props[n]))]

Dup(props, old) == Copied(props, New(props), old)

-----------------------------------------------------------------------------
None == [live |-> FALSE, vals |-> <<>>, topic |-> NoTopic]
NoneT == [live |-> FALSE, vals |-> <<>>]
LiveT(v) == [live |-> TRUE, vals |-> v]

Nothing == [op |-> "none", conf |-> "none", res |-> "ok", txt |-> "", size |-> 0, from |-> "none"]

Init ==
    /\ conf = [c \in Confs |-> None]
    /\ topic = [t \in Topics |-> NoneT]
    /\ fault = FALSE
    /\ last = Nothing

Free(t) == ~topic[t].live
FreeTopic == CHOOSE t \in Topics : Free(t)
HasFree == \E t \in Topics : Free(t)

\* rd_kafka_conf_new
ConfNew(c) ==
    /\ ~conf[c].live
    /\ conf' = [conf EXCEPT ![c] = [live |-> TRUE, vals |-> New(GlobalProps), topic |-> NoTopic]]
    /\ last' = [Nothing EXCEPT !.op = "new", !.conf = c]
    /\ UNCHANGED <<topic, fault>>

\* rd_kafka_topic_conf_new, by the application
TopicNew ==
    /\ HasFree
    /\ topic' = [topic EXCEPT ![FreeTopic] = LiveT(New(TopicProps))]
    /\ last' = Nothing
    /\ UNCHANGED <<conf, fault>>

\* rd_kafka_conf_set: what is not a global property is set on the default topic
\* configuration, which is created for it.
ConfSet(c, n, in) ==
    LET g == AnySet(GlobalProps, conf[c].vals, n, in)
        t == IF conf[c].topic = NoTopic THEN FreeTopic ELSE conf[c].topic
        old == IF conf[c].topic = NoTopic THEN New(TopicProps) ELSE topic[t].vals
        s == AnySet(TopicProps, old, n, in)
    IN /\ conf[c].live
       /\ IF g.res /= "unknown"
          THEN /\ conf' = [conf EXCEPT ![c].vals = g.vals]
               /\ UNCHANGED topic
          ELSE /\ conf[c].topic /= NoTopic \/ HasFree
               /\ conf' = [conf EXCEPT ![c].topic = t]
               /\ topic' = [topic EXCEPT ![t] = LiveT(s.vals)]
       /\ last' = [Nothing EXCEPT !.op = "set", !.res = IF g.res /= "unknown" THEN g.res ELSE s.res]
       /\ UNCHANGED fault

\* The callbacks and opaques that have a function of their own
SetPointer(c, n) ==
    /\ conf[c].live /\ n \in DOMAIN conf[c].vals /\ GlobalProps[n].type = "ptr"
    /\ n /= "default_topic_conf"
    /\ conf' = [conf EXCEPT ![c].vals[n].i = 1]
    /\ last' = Nothing
    /\ UNCHANGED <<topic, fault>>

\* rd_kafka_conf_set_default_topic_conf: the one before is destroyed
SetTopicConf(c, t) ==
    /\ conf[c].live /\ topic[t].live
    /\ \A d \in Confs : conf[d].topic /= t
    /\ LET old == conf[c].topic
       IN topic' = [u \in Topics |-> IF u = old THEN NoneT ELSE topic[u]]
    /\ conf' = [conf EXCEPT ![c].topic = t]
    /\ last' = Nothing
    /\ UNCHANGED fault

ConfRead(c, n, room) ==
    /\ conf[c].live
    /\ LET g == ConfGet(c, n, room)
       IN last' = [Nothing EXCEPT !.op = "get", !.res = g.res, !.txt = g.txt, !.size = g.size]
    /\ UNCHANGED <<conf, topic, fault>>

\* The duplicate's topic configuration is a duplicate, too.
TopicOf(d, t) == t

\* rd_kafka_conf_dup
ConfDup(c, d) ==
    LET t == conf[c].topic
    IN /\ conf[c].live /\ ~conf[d].live
       /\ t = NoTopic \/ HasFree
       /\ LET u == IF t = NoTopic THEN NoTopic ELSE TopicOf(c, FreeTopic)
          IN /\ conf' = [conf EXCEPT ![d] = [live |-> TRUE, vals |-> Dup(GlobalProps, conf[c].vals),
                                             topic |-> u]]
             /\ topic' = IF t = NoTopic THEN topic
                         ELSE [topic EXCEPT ![u] = LiveT(Dup(TopicProps, topic[t].vals))]
       /\ last' = [Nothing EXCEPT !.op = "dup", !.conf = d, !.from = c]
       /\ UNCHANGED fault

\* rd_kafka_conf_destroy
ConfDestroy(c) ==
    LET t == conf[c].topic
    IN /\ conf[c].live
       /\ conf' = [conf EXCEPT ![c] = None]
       /\ topic' = IF t = NoTopic THEN topic ELSE [topic EXCEPT ![t] = NoneT]
       /\ fault' = (fault \/ (t /= NoTopic /\ ~topic[t].live))
       /\ last' = Nothing

Next ==
    \/ \E c \in Confs : ConfNew(c) \/ ConfDestroy(c)
    \/ TopicNew
    \/ \E c \in Confs, n \in Names, in \in Texts : ConfSet(c, n, in)
    \/ \E c \in Confs, n \in Names : SetPointer(c, n)
    \/ \E c \in Confs, t \in Topics : SetTopicConf(c, t)
    \/ \E c \in Confs, n \in Names, r \in Rooms : ConfRead(c, n, r)
    \/ \E c, d \in Confs : ConfDup(c, d)

Spec == Init /\ [][Next]_vars

-----------------------------------------------------------------------------
(* Properties *)

TopicVals(c) == IF conf[c].topic = NoTopic THEN <<>> ELSE topic[conf[c].topic].vals

\* A duplicate has every value of its original, those of the default topic
\* configuration included, flags that were taken away from a default as well.
DuplicateEqual ==
    last.op = "dup" =>
        /\ conf[last.conf].vals = conf[last.from].vals
        /\ TopicVals(last.conf) = TopicVals(last.from)

\* A configuration's topic configuration is alive, no other configuration has it,
\* and nothing is freed twice.
OwnTopicConf ==
    /\ ~fault
    /\ \A c \in Confs : conf[c].topic /= NoTopic =>
           topic[conf[c].topic].live /\ \A d \in Confs \ {c} : conf[d].topic /= conf[c].topic

Dumpable == {n \in Names \cap DOMAIN GlobalProps :
                GlobalProps[n].type \in {"str", "kstr", "bool", "int", "s2i", "s2f", "patlist"}}

\* Set a value from the text t a dump gives for it.
Again(p, v, t) ==
    SetProp(p, v, CASE p.type = "int" -> Number(t, 0, v.i)
                    [] p.type = "s2f" ->
                          Csv(t, [k \in DOMAIN FlagWords(p, v.f) |-> Item(FlagWords(p, v.f)[k][2])])
                    [] OTHER -> Text(t))

\* The text that is read or dumped for a value sets that value again.
DumpSets ==
    \A c \in Confs : conf[c].live => \A e \in AnyDump(GlobalProps, conf[c].vals) :
        (e[1] \in Dumpable /\ e[2] /= "") =>
            Again(GlobalProps[e[1]], conf[c].vals[e[1]], e[2]) = Set("ok", conf[c].vals[e[1]])

=============================================================================
