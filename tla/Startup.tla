------------------------------ MODULE Startup ------------------------------
(***************************************************************************)
(* The monitor's start: main.cpp loads the configuration with ConfLoader,  *)
(* which goes over the elements of the XML file by position, and gives one *)
(* consumer's and two producers' configurations to the event loop and to   *)
(* the backup thread (EventLoop::setMyConsumer, setMyProducer and          *)
(* Backuper::setProducer, with the constructors of MyConsumer and          *)
(* MyProducer).                                                            *)
(*                                                                         *)
(* A node of the file is [name, text, kids]; a comment has the name "--",  *)
(* an element without text the text "".                                    *)
(***************************************************************************)
EXTENDS Integers, Sequences, FiniteSets, SequencesExt

CONSTANTS
    Files,          \* the files: root elements
    KnownKeys       \* the keys Conf::set accepts

VARIABLES
    file,           \* the root element of the file, or <<>> when LoadFile fails
    next,           \* consumer or producer: the element to be loaded next, a list of nodes
    confs,          \* handlerConfs: consumers and producers
    freed,          \* the handlers whose Conf objects have been deleted
    pc              \* the next step

vars == <<file, next, confs, freed, pc>>

-----------------------------------------------------------------------------
(* Elements: what the XML library returns, as lists that begin with it *)

\* FirstChildElement and NextSiblingElement skip comments; <<>> stands for NULL.
FromElement(nodes) ==
    LET i == SelectInSeq(nodes, LAMBDA n : n.name /= "--")
    IN IF i = 0 THEN <<>> ELSE SubSeq(nodes, i, Len(nodes))

FirstChildElement(n) == FromElement(n.kids)
NextSiblingElement(nodes) == IF nodes = <<>> THEN <<>> ELSE FromElement(Tail(nodes))

\* The loop for (e = FirstChildElement(); e; e = NextSiblingElement())
ElementsOf(n) == SelectSeq(n.kids, LAMBDA k : k \in ToSet(FromElement(<<k>>)))

-----------------------------------------------------------------------------
(* ConfLoader *)

\* GetText() of an element without text is NULL, which is no std::string.
loadTopicList(list) ==
    IF list = <<>> THEN <<>>
    ELSE [i \in DOMAIN ElementsOf(list[1]) |-> ElementsOf(list[1])[i].text]

\* One <confEntry>: its first element is the key, the next one the value.
Entry(e) ==
    LET key == FirstChildElement(e)
        value == NextSiblingElement(key)
    IN IF key = <<>> \/ value = <<>> THEN <<"", "">> ELSE <<key[1].text, value[1].text>>

\* Conf::set, whose result is not looked at
Set(conf, entry) == [k \in KnownKeys |-> IF k = entry[1] THEN entry[2] ELSE conf[k]]

loadConf(list) ==
    FoldLeft(LAMBDA c, e : Set(c, Entry(e)), [k \in KnownKeys |-> "default"],
             IF list = <<>> THEN <<>> ELSE ElementsOf(list[1]))

loadGlobalConf(list) == loadConf(list)
loadTopicConf(list) == loadConf(list)

\* The loader dereferences a key or value that is not there, or makes a string of NULL.
Faulty(topics, lists) ==
    \/ "" \in ToSet(topics)
    \/ \E l \in lists : l /= <<>> /\ \E e \in ToSet(ElementsOf(l[1])) : "" \in ToSet(Entry(e))

loadHandlerConf(handler) ==
    LET topicList == FirstChildElement(handler)
        globalConfList == NextSiblingElement(topicList)
        topicConfList == NextSiblingElement(globalConfList)
        topics == loadTopicList(topicList)
    IN [topics |-> topics, global |-> loadGlobalConf(globalConfList), topic |-> loadTopicConf(topicConfList),
        fault |-> Faulty(topics, {globalConfList, topicConfList})]

NoConfs == [consumers |-> <<>>, producers |-> <<>>]

Init ==
    /\ file \in Files \cup {<<>>}
    /\ next = <<>>
    /\ confs = NoConfs
    /\ freed = {}
    /\ pc = "load"

\* LoadFile and the elements below the root
load ==
    /\ pc = "load"
    /\ IF file = <<>> THEN pc' = "check" /\ UNCHANGED next
       ELSE LET consumers == FirstChildElement(file)
            IN IF consumers = <<>> THEN pc' = "check" /\ UNCHANGED next
               ELSE pc' = "consumers" /\ next' = ElementsOf(consumers[1])
    /\ UNCHANGED <<file, confs, freed>>

\* The fault of a handler ends the program.
LoadNext(kind) ==
    /\ pc = kind /\ next /= <<>>
    /\ LET conf == loadHandlerConf(Head(next))
       IN /\ confs' = [confs EXCEPT ![kind] = Append(@, conf)]
          /\ pc' = IF conf.fault THEN "fault" ELSE pc
    /\ next' = Tail(next)
    /\ UNCHANGED <<file, freed>>

ConsumersLoaded ==
    /\ pc = "consumers" /\ next = <<>>
    /\ LET producers == NextSiblingElement(FirstChildElement(file))
       IN next' = IF producers = <<>> THEN <<>> ELSE ElementsOf(producers[1])
    /\ pc' = "producers"
    /\ UNCHANGED <<file, confs, freed>>

ProducersLoaded ==
    /\ pc = "producers" /\ next = <<>>
    /\ pc' = "check"
    /\ UNCHANGED <<file, next, confs, freed>>

-----------------------------------------------------------------------------
(* main *)

Loaded(c) == Len(c.consumers) /= 0 /\ Len(c.producers) /= 0

Check ==
    /\ pc = "check"
    /\ pc' = IF Loaded(confs) THEN "consumer" ELSE "exit"
    /\ UNCHANGED <<file, next, confs, freed>>

\* A handler's conf is used: its index must be there, its Conf objects not deleted.
Usable(kind, i) == i <= Len(confs[kind]) /\ <<kind, i>> \notin freed

\* MyConsumer: the consumer is created and subscribes, or the program ends.
setMyConsumer ==
    /\ pc = "consumer"
    /\ IF ~Usable("consumers", 1) THEN pc' = "fault" /\ UNCHANGED freed
       ELSE /\ freed' = freed \cup {<<"consumers", 1>>}
            /\ \E created, subscribed \in BOOLEAN : pc' = IF created /\ subscribed THEN "producer" ELSE "exit"
    /\ UNCHANGED <<file, next, confs>>

\* MyProducer: the topic is the first of the list.
MakeProducer(i, then) ==
    /\ IF ~Usable("producers", i) \/ confs.producers[i].topics = <<>> THEN pc' = "fault" /\ UNCHANGED freed
       ELSE /\ freed' = freed \cup {<<"producers", i>>}
            /\ \E created \in BOOLEAN : pc' = IF created THEN then ELSE "exit"
    /\ UNCHANGED <<file, next, confs>>

setMyProducer == pc = "producer" /\ MakeProducer(1, "backup")

BackupIndex == 2

setProducer == pc = "backup" /\ MakeProducer(BackupIndex, "run")

Ended == pc \in {"run", "exit", "fault"} /\ UNCHANGED vars

Next ==
    \/ load \/ LoadNext("consumers") \/ ConsumersLoaded \/ LoadNext("producers") \/ ProducersLoaded
    \/ Check \/ setMyConsumer \/ setMyProducer \/ setProducer \/ Ended

Spec == Init /\ [][Next]_vars

-----------------------------------------------------------------------------
(* Properties *)

\* What the schema's names say: the handlers of the file, with their topics and the
\* last known value of every key.
Named(n, name) == SelectSeq(n.kids, LAMBDA k : k.name = name)
Child(n, name) == Named(n, name)[1]
WrittenConf(list) ==
    [k \in KnownKeys |->
        LET es == SelectSeq(Named(list, "confEntry"), LAMBDA e : Child(e, "entryKey").text = k)
        IN IF es = <<>> THEN "default" ELSE Child(Last(es), "entryValue").text]
Written(h) == <<[i \in DOMAIN Named(Child(h, "topic_list"), "topic") |-> Named(Child(h, "topic_list"), "topic")[i].text],
                WrittenConf(Child(h, "global_conf")), WrittenConf(Child(h, "topic_conf"))>>
WrittenAll(list, name) == [i \in DOMAIN Named(list, name) |-> Written(Named(list, name)[i])]

\* The handlers loaded by position are the ones the file names, wherever comments
\* stand: a file that follows the schema is loaded as it was written.
LoadedAsWritten ==
    (pc \notin {"load", "consumers", "producers", "fault"} /\ file /= <<>>) =>
        /\ [i \in DOMAIN confs.consumers |-> <<confs.consumers[i].topics, confs.consumers[i].global, confs.consumers[i].topic>>]
              = WrittenAll(Child(file, "consumers"), "consumer")
        /\ [i \in DOMAIN confs.producers |-> <<confs.producers[i].topics, confs.producers[i].global, confs.producers[i].topic>>]
              = WrittenAll(Child(file, "producers"), "producer")

\* The program comes up or ends with a message; it uses a configuration that is not
\* there or was deleted only when the file has one producer, and then it does not
\* come up.
NoFault ==
    /\ pc = "fault" => Len(confs.producers) = 1
    /\ pc = "run" => Len(confs.producers) > 1
=============================================================================
