---------------------------- MODULE MCApplication ----------------------------
(***************************************************************************)
(* The client of MCClient and what is around it: the C++ interface the     *)
(* monitor is written to, the XML parser and tree that its configuration   *)
(* is read with, its start, the generator of the feeds it is tested with   *)
(* and the buffers of the protocol.  A behaviour is of one component in    *)
(* one configuration, which scenario names; the variables of the others    *)
(* are Absent.                                                             *)
(***************************************************************************)
EXTENDS MCClient

\* CppClient
VARIABLES conf_cpp, handle, topic_cpp, rkt, message, cmsgs, extra, cextras, flowing, vector, ret,
          reached, stale, crashed
\* XmlParser
VARIABLES in, eof, pos, stack, pc_xml, err, attr, first
\* XmlTree
VARIABLES heap, kids, copied
\* Startup
VARIABLES file_start, next_start, confs, freed_start, pc_start
\* FeedGenerator
VARIABLES conf_feeds, now_feeds, end, s_feeds, delayQueue, file_feeds, errorFile, begin
\* RdBuf
VARIABLES b_buf, data, n_buf, slice, save, at, res

cpp == <<conf_cpp, handle, topic_cpp, rkt, message, cmsgs, extra, cextras, flowing, vector, ret,
         reached, stale, crashed>>
xml == <<in, eof, pos, stack, pc_xml, err, attr, first>>
tree == <<heap, kids, copied>>
start == <<file_start, next_start, confs, freed_start, pc_start>>
feeds == <<conf_feeds, now_feeds, end, s_feeds, delayQueue, file_feeds, errorFile, begin>>
buf == <<b_buf, data, n_buf, slice, save, at, res>>
application == <<cpp, xml, tree, start, feeds, buf>>
vars == <<scenario, client, application>>

-----------------------------------------------------------------------------
(* A Producer and a Consumer that share a Conf; the objects of a Consumer; *)
(* a KafkaConsumer and its vectors; and an application that is not careful.*)
KindOf == [p |-> "producer", c |-> "consumer", g |-> "group"]
CppOf == [Handles |-> {"p", "c"}, Topics |-> {}, Messages |-> {}, Extras |-> {},
          Cbs |-> {"a", "b"}, Vector |-> <<>>, Offsets |-> {}, Errs |-> {},
          Refusals |-> {"producer", "consumer"}, Careful |-> TRUE]

CppConf == [handles |-> CppOf,
            objects |-> [CppOf EXCEPT !.Handles = {"c", "p"}, !.Topics = {"t1", "t2"},
                                      !.Messages = {"m1", "m2"}, !.Extras = {"x"}, !.Cbs = {},
                                      !.Errs = {"refused"}, !.Refusals = {"topic"}],
            group |-> [CppOf EXCEPT !.Handles = {"g"}, !.Messages = {"m1"}, !.Extras = {"x"},
                                    !.Cbs = {"a"}, !.Vector = <<"p0", "p1", "p0">>,
                                    !.Offsets = {1}, !.Errs = {"refused"},
                                    !.Refusals = {"group"}],
            careless |-> [CppOf EXCEPT !.Handles = {"g", "c"}, !.Topics = {"t1"}, !.Cbs = {"a"},
                                       !.Refusals = {"producer", "consumer", "group", "topic"},
                                       !.Careful = FALSE]]

Cpp(s) == INSTANCE CppClient WITH
    Handles <- CppConf[s].Handles, Kind <- KindOf, Topics <- CppConf[s].Topics,
    Messages <- CppConf[s].Messages, Extras <- CppConf[s].Extras, Slots <- {"event", "dr"},
    Cbs <- CppConf[s].Cbs, Vector <- CppConf[s].Vector, Offsets <- CppConf[s].Offsets,
    Errs <- CppConf[s].Errs, Refusals <- CppConf[s].Refusals, Careful <- CppConf[s].Careful,
    NULL <- Absent, conf <- conf_cpp, topic <- topic_cpp

CppIdle ==
    /\ conf_cpp = Absent /\ handle = Absent /\ topic_cpp = Absent /\ rkt = Absent /\ message = Absent
    /\ cmsgs = Absent /\ extra = Absent /\ cextras = Absent /\ flowing = Absent /\ vector = Absent
    /\ ret = Absent /\ reached = Absent /\ stale = Absent /\ crashed = Absent

-----------------------------------------------------------------------------
(* Documents of these lexemes, after a beginning.                          *)
XmlOf == [Lexemes |-> {"<", "</", ">", "/", " ", "a", "b"}, Prefix |-> <<"<", "a", ">">>,
          MaxLen |-> 8]

XmlConf == [elements |-> XmlOf,
            attributes |-> [XmlOf EXCEPT !.Lexemes = {"<", ">", "=", "'", " ", "a", "&lt;"},
                                         !.Prefix = <<"<", "a">>],
            twice |-> [XmlOf EXCEPT !.Lexemes = {">", "/", "=", "'", " ", "a"},
                                    !.Prefix = <<"<", "a", " ", "a", "=", "'", "'">>,
                                    !.MaxLen = 13],
            text |-> [XmlOf EXCEPT !.Lexemes = {"<", "</", "<!--", "-->", "<![CDATA[", "]]>", ">", " ", "a", "&lt;", "&amp;"},
                                   !.MaxLen = 7],
            header |-> [XmlOf EXCEPT !.Lexemes = {"<!", "<?xml", ">", "=", "'", " ", "encoding", "?"},
                                     !.Prefix = <<"<?xml">>, !.MaxLen = 6],
            encoding |-> [XmlOf EXCEPT !.Lexemes = {"<!", ">", "=", "'", " ", "&lt;", "a", "?"},
                                       !.Prefix = <<"<?xml", "encoding", "=">>, !.MaxLen = 7]]

Parse(s) == INSTANCE XmlParser WITH
    Lexemes <- XmlConf[s].Lexemes, Prefix <- XmlConf[s].Prefix, MaxLen <- XmlConf[s].MaxLen,
    pc <- pc_xml

ParseIdle ==
    /\ in = Absent /\ eof = Absent /\ pos = Absent /\ stack = Absent /\ pc_xml = Absent /\ err = Absent
    /\ attr = Absent /\ first = Absent

-----------------------------------------------------------------------------
(* Trees of elements, and of elements with an attribute and of texts.      *)
TreeOf == [MaxNodes |-> 4, Values |-> {"a"}, Keys |-> {}]

TreeConf == [links |-> TreeOf,
             clones |-> [TreeOf EXCEPT !.Values = {"a", "t"}, !.Keys = {"k"}]]

Tree(s) == INSTANCE XmlTree WITH
    MaxNodes <- TreeConf[s].MaxNodes, Values <- TreeConf[s].Values, Keys <- TreeConf[s].Keys,
    Elements <- {"a"}

TreeIdle ==
    /\ heap = Absent /\ kids = Absent /\ copied = Absent

-----------------------------------------------------------------------------
(* Files that follow conf/cppStream.xsd, with and without comments.        *)
E(name, es) == [name |-> name, text |-> "", kids |-> es]
T(name, text) == [name |-> name, text |-> text, kids |-> <<>>]
Comment == T("--", "")

Entries == {<<>>, <<<<"k", "1">>>>, <<<<"k", "1">>, <<"k", "2">>>>, <<<<"u", "1">>>>}
ConfElement(name, es, cs) ==
    E(name, cs \o [i \in DOMAIN es |->
                      E("confEntry", cs \o <<T("entryKey", es[i][1]), T("entryValue", es[i][2])>>)])
Handler(name, t, es, cs) ==
    E(name, cs \o <<E("topic_list", cs \o <<T("topic", t)>>)>> \o cs
               \o <<ConfElement("global_conf", es, cs), ConfElement("topic_conf", es, <<>>)>>)
Root(hs, ps, cs) == E("cppStream", cs \o <<E("consumers", hs), E("producers", cs \o ps)>>)
Comments == {<<>>, <<Comment>>}
Handlers(name, t, entries) == {Handler(name, t, es, cs) : es \in entries, cs \in Comments}
GoodFiles ==
    {Root(hs, ps, cs) :
        hs \in {<<>>} \cup {<<h>> : h \in Handlers("consumer", "feeds", Entries)},
        ps \in {<<>>}
              \cup {<<p>> : p \in Handlers("producer", "errors", Entries)}
              \cup {<<p, q>> : p \in Handlers("producer", "errors", Entries), q \in Handlers("producer", "backup", {<<>>})}
              \cup {<<p, p, p>> : p \in Handlers("producer", "errors", {<<>>})},
        cs \in Comments}
Start == INSTANCE Startup WITH
    Files <- GoodFiles, KnownKeys <- {"k"}, file <- file_start, next <- next_start,
    freed <- freed_start, pc <- pc_start

StartIdle ==
    /\ file_start = Absent /\ next_start = Absent /\ confs = Absent /\ freed_start = Absent /\ pc_start = Absent

-----------------------------------------------------------------------------
(* Intervals of one or two half seconds, up to three delayed feeds, held   *)
(* back for up to four half seconds.                                       *)
Schedule == [every : {5, 10}, times : {0, 2}]
Confs ==
    {[drop |-> d, delay |-> [every |-> y, times |-> n], errorTurnover |-> [every |-> 10, times |-> 1],
      errorBidAsk |-> [every |-> 5, times |-> 1], errorPrice |-> e, errorVolume |-> e, len |-> l] :
        d \in Schedule, y \in {5, 10}, n \in {0, 3}, e \in Schedule, l \in {5, 20}}
Generator == INSTANCE FeedGenerator WITH
    TimeLength <- 35, Jumps <- {1, 7}, conf <- conf_feeds, now <- now_feeds, s <- s_feeds, file <- file_feeds

GeneratorIdle ==
    /\ conf_feeds = Absent /\ now_feeds = Absent /\ end = Absent /\ s_feeds = Absent /\ delayQueue = Absent
    /\ file_feeds = Absent /\ errorFile = Absent /\ begin = Absent

-----------------------------------------------------------------------------
(* Buffers that are written, received into and read back.                  *)
BufOf == [Ops |-> {"write", "push", "update", "seek"}, Extras |-> {0, 9}, Sizes |-> {1, 3},
          MaxReads |-> 0]

BufConf == [write |-> BufOf,
            receive |-> [BufOf EXCEPT !.Ops = {"ensure", "write", "contig", "seek"},
                                      !.Extras = {0, 5}, !.Sizes = {1, 3, 6}],
            read |-> [BufOf EXCEPT !.Ops = {"write", "push", "read", "all", "peek", "sseek", "narrow", "sure", "wslice"},
                                   !.MaxReads = 2]]

Buffer(s) == INSTANCE RdBuf WITH
    Ops <- BufConf[s].Ops, Careful <- TRUE, Extras <- BufConf[s].Extras, Hdr <- 1,
    Sizes <- BufConf[s].Sizes, MaxOps <- 3, MaxReads <- BufConf[s].MaxReads, b <- b_buf,
    n <- n_buf

BufferIdle ==
    /\ b_buf = Absent /\ data = Absent /\ n_buf = Absent /\ slice = Absent /\ save = Absent /\ at = Absent
    /\ res = Absent

-----------------------------------------------------------------------------
CppInit == \E s \in DOMAIN CppConf \cap Scenarios : scenario = s /\ Cpp(s)!Init
CppNext == \E s \in DOMAIN CppConf : scenario = s /\ Cpp(s)!Next

ParseInit == \E s \in DOMAIN XmlConf \cap Scenarios : scenario = s /\ Parse(s)!Init
ParseNext == \E s \in DOMAIN XmlConf : scenario = s /\ Parse(s)!Next

TreeInit == \E s \in DOMAIN TreeConf \cap Scenarios : scenario = s /\ Tree(s)!Init
TreeNext == \E s \in DOMAIN TreeConf : scenario = s /\ Tree(s)!Next

StartInit == "startup" \in Scenarios /\ scenario = "startup" /\ Start!Init
StartNext == scenario = "startup" /\ Start!Next

GeneratorInit == "generate" \in Scenarios /\ scenario = "generate" /\ Generator!Init
GeneratorNext == scenario = "generate" /\ Generator!Next

BufferInit == \E s \in DOMAIN BufConf \cap Scenarios : scenario = s /\ Buffer(s)!Init
BufferNext == \E s \in DOMAIN BufConf : scenario = s /\ Buffer(s)!Next

\* One component starts, the others are not there.
ApplicationInit ==
    \/ CppInit /\ ParseIdle /\ TreeIdle /\ StartIdle /\ GeneratorIdle /\ BufferIdle
    \/ ParseInit /\ CppIdle /\ TreeIdle /\ StartIdle /\ GeneratorIdle /\ BufferIdle
    \/ TreeInit /\ CppIdle /\ ParseIdle /\ StartIdle /\ GeneratorIdle /\ BufferIdle
    \/ StartInit /\ CppIdle /\ ParseIdle /\ TreeIdle /\ GeneratorIdle /\ BufferIdle
    \/ GeneratorInit /\ CppIdle /\ ParseIdle /\ TreeIdle /\ StartIdle /\ BufferIdle
    \/ BufferInit /\ CppIdle /\ ParseIdle /\ TreeIdle /\ StartIdle /\ GeneratorIdle

ApplicationNext ==
    /\ UNCHANGED scenario
    /\ \/ CppNext /\ UNCHANGED <<xml, tree, start, feeds, buf>>
       \/ ParseNext /\ UNCHANGED <<cpp, tree, start, feeds, buf>>
       \/ TreeNext /\ UNCHANGED <<cpp, xml, start, feeds, buf>>
       \/ StartNext /\ UNCHANGED <<cpp, xml, tree, feeds, buf>>
       \/ GeneratorNext /\ UNCHANGED <<cpp, xml, tree, start, buf>>
       \/ BufferNext /\ UNCHANGED <<cpp, xml, tree, start, feeds>>

ApplicationIdle ==
    /\ CppIdle /\ ParseIdle /\ TreeIdle /\ StartIdle /\ GeneratorIdle /\ BufferIdle

Init == (ClientInit /\ ApplicationIdle) \/ (ApplicationInit /\ ClientIdle)

Next ==
    \/ ClientNext /\ UNCHANGED application
    \/ ApplicationNext /\ UNCHANGED client

Spec == Init /\ [][Next]_vars

-----------------------------------------------------------------------------
(* Properties.                                                             *)

\* Whatever handles share a Conf, a trampoline calls the object its handle was created with;
\* every C object is destroyed with the one wrapper that owns it; what the C library refused
\* is reported by every call but Consumer::seek(), which never reports an error, and a vector is
\* updated element by element; and with a careful application no deleted object is reached but by
\* ~ConsumerImpl and ~TopicImpl of an object whose creation was refused, which use the NULL they
\* were left with (set_common_config, the destructors of rdkafkacpp_int.h).
WrappersSound ==
    \A s \in DOMAIN CppConf : scenario = s =>
        /\ Cpp(s)!RightObject /\ Cpp(s)!ErrorsReported
        /\ CppConf[s].Careful => Cpp(s)!Owned /\ Cpp(s)!NothingDangles

\* A document that was accepted, printed and parsed again is the same document, its declaration
\* included when the encoding it names holds no quotation mark and no ampersand, which
\* TiXmlDeclaration::Print does not encode; and the links of a tree agree with each other after any
\* calls, a clone is a copy and the searches find what the lists hold.
XmlSound ==
    /\ \A s \in DOMAIN XmlConf : scenario = s => Parse(s)!Reparsed
    /\ scenario = "links" => Tree("links")!Linked
    /\ scenario = "clones" => Tree("clones")!CloneAlike /\ Tree("clones")!SearchesAgree

\* What a configuration file says is what the handlers are made with, and of the files that follow
\* the schema those with exactly one producer, and no others, make main() read past the end of the
\* list (with a consumer, unless the program ends before); and what was written to a buffer is what
\* it holds and what a slice of it reads, across segments, seeks and pushed memory.  A write comes to
\* an end in the order the library's callers use; after rd_buf_write_ensure_contig, which only
\* `receive` calls, it may loop, and nothing is claimed from then on.
ReadAsWritten ==
    /\ scenario = "startup" => Start!LoadedAsWritten /\ Start!NoFault
    /\ \A s \in DOMAIN BufConf : scenario = s =>
         /\ s \in {"write", "receive"} => Buffer(s)!Faithful
         /\ s = "write" => Buffer(s)!NeverHangs /\ Buffer(s)!FreedRight
         /\ s = "receive" => Buffer(s)!RoomOffered
         /\ s = "read" => Buffer(s)!ReadsRight

\* The statistics and the price feed of every half second are written, dropped or delayed and then
\* written once by generateData.py, and no others; a feed is logged as an error exactly when it was
\* made wrong, and a right one never.
GeneratorExact ==
    scenario = "generate" => Generator!Accounted /\ Generator!ErrorsTagged /\ Generator!DelayedAreResent
=============================================================================
