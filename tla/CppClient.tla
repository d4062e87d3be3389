------------------------------ MODULE CppClient ------------------------------
(***************************************************************************)
(* The C++ interface of librdkafka (src-cpp): objects that wrap the C       *)
(* library's instances, topics, queues, metadata and messages.  A Conf may  *)
(* be used for several handles; the C library calls back through           *)
(* trampolines that find the C++ object by an opaque pointer; every C       *)
(* object is destroyed by the destructor of its wrapper, except that a      *)
(* KafkaConsumer destroys its instance in close().                          *)
(*                                                                         *)
(* The threads of an instance call back from rd_kafka_new() until           *)
(* rd_kafka_destroy() returns, so creating and deleting a handle are two    *)
(* steps each.  Careful is TRUE for an application that closes a           *)
(* KafkaConsumer before it deletes it, deletes what it got from a handle    *)
(* before the handle, stops consuming and gives its messages back before    *)
(* it deletes a Topic, makes one Topic per name at a time, and sets no       *)
(* callback to NULL.                                                       *)
(***************************************************************************)
EXTENDS Integers, Sequences, FiniteSets

CONSTANTS Handles,     \* the handles the application may create
          Kind,        \* of each: "producer", "consumer" or "group" (KafkaConsumer)
          Topics,      \* Topic objects
          Messages,    \* Message objects
          Extras,      \* Queue and Metadata objects
          Slots,       \* the callbacks of a Conf: "event", "rebalance", "dr", ...
          Cbs,         \* callback objects
          Vector,      \* the topic+partitions of the application's vector
          Offsets,     \* offsets the C library may answer
          Errs,        \* errors a C call may return
          Refusals,    \* what the C library may refuse to create: kinds and "topic"
          Careful,     \* the application keeps to the rules above
          NULL

VARIABLES conf,      \* the application's ConfImpl and its rk_conf_
          handle,    \* HandleImpl: state, callbacks, its instance and that one's conf
          topic,     \* TopicImpl
          rkt,       \* of each instance, the C topic: references and opaque
          message,   \* MessageImpl
          cmsgs,     \* of each instance, C messages not destroyed
          extra,     \* QueueImpl and MetadataImpl
          cextras,   \* of each instance, C queues and metadata not destroyed
          flowing,   \* handles whose partition is being consumed
          vector,    \* the application's vector of TopicPartition
          ret,       \* the last call that returned an ErrorCode
          reached,   \* the last callback object a trampoline called
          stale,     \* a message was handed over with a deleted Topic
          crashed    \* where a NULL or freed object was used

vars == <<conf, handle, topic, rkt, message, cmsgs, extra, cextras, flowing, vector, ret,
          reached, stale, crashed>>

NoCbs == [s \in Slots |-> NULL]
NO_ERROR == "no error"

NoCall == [call |-> NULL, c |-> NO_ERROR, cpp |-> NO_ERROR, before |-> <<>>, answer |-> <<>>]
Returned(call, c, cpp) == [NoCall EXCEPT !.call = call, !.c = c, !.cpp = cpp]

Init ==
    /\ conf = [cb |-> NoCbs, tramp |-> {}, opaque |-> NULL]
    /\ handle = [h \in Handles |-> [st |-> "none", rk |-> FALSE, cb |-> NoCbs, wanted |-> NoCbs,
                                    tramp |-> {}, opaque |-> NULL]]
    /\ topic = [t \in Topics |-> [st |-> "none", of |-> NULL]]
    /\ rkt = [h \in Handles |-> [refs |-> 0, opaque |-> NULL]]
    /\ message = [m \in Messages |-> [st |-> "none", of |-> NULL, owns |-> FALSE, topic |-> NULL]]
    /\ cmsgs = [h \in Handles |-> 0]
    /\ extra = [x \in Extras |-> [st |-> "none", of |-> NULL]]
    /\ cextras = [h \in Handles |-> 0]
    /\ flowing = {}
    /\ vector = [i \in DOMAIN Vector |-> [tp |-> Vector[i], offset |-> NULL, err |-> NO_ERROR]]
    /\ ret = NoCall
    /\ reached = NULL
    /\ stale = FALSE
    /\ crashed = NULL

-----------------------------------------------------------------------------
(* Conf: set() keeps the callback object; the trampolines are installed    *)
(* when a handle is created.                                               *)

\* A partitioner belongs to a CONF_TOPIC object and is refused here.
ConfSet(s, cb) ==
    /\ Careful => cb # NULL
    /\ conf' = [conf EXCEPT !.cb[s] = cb]
    /\ UNCHANGED <<handle, topic, rkt, message, cmsgs, extra, cextras, flowing, vector, ret,
                   reached, stale, crashed>>

\* Mutation: the opaque of an earlier handle is kept.
set_common_config_once(h) ==
    [conf EXCEPT !.opaque = IF @ = NULL THEN h ELSE @,
                 !.tramp = @ \cup {s \in Slots \ {"dr"} : conf.cb[s] # NULL}]

\* set_common_config works on the application's own rk_conf_: a trampoline
\* once installed stays for the next handle.
set_common_config(h) ==
    [conf EXCEPT !.opaque = h, !.tramp = @ \cup {s \in Slots \ {"dr"} : conf.cb[s] # NULL}]

\* The delivery report callback is a Producer's, and goes into the copy.
OwnCbs(h) == [s \in Slots |-> IF s = "dr" /\ Kind[h] # "producer" THEN NULL ELSE conf.cb[s]]
OwnTramps(h, c) ==
    c.tramp \cup (IF Kind[h] = "producer" /\ conf.cb["dr"] # NULL THEN {"dr"} ELSE {})

\* A KafkaConsumer without group.id is refused before the Conf is touched.
NoGroup(h) ==
    /\ handle[h].st = "none" /\ Kind[h] = "group"
    /\ handle' = [handle EXCEPT ![h].st = "gone"]
    /\ UNCHANGED <<conf, topic, rkt, message, cmsgs, extra, cextras, flowing, vector, ret,
                   reached, stale, crashed>>

\* Producer::create, Consumer::create, KafkaConsumer::create up to
\* rd_kafka_new(), which works on a copy of the Conf.
Create(h) ==
    /\ handle[h].st = "none"
    /\ LET c == set_common_config(h) IN
         /\ conf' = c
         /\ handle' = [handle EXCEPT ![h] =
                [st |-> "new", rk |-> TRUE, cb |-> OwnCbs(h), wanted |-> OwnCbs(h),
                 tramp |-> OwnTramps(h, c), opaque |-> c.opaque]]
    /\ UNCHANGED <<topic, rkt, message, cmsgs, extra, cextras, flowing, vector, ret,
                   reached, stale, crashed>>

\* rd_kafka_new() fails: the object is deleted.  ~ConsumerImpl destroys its
\* instance without looking whether it has one, ~ProducerImpl looks.
CreateFails(h) ==
    /\ handle[h].st = "none" /\ Kind[h] \in Refusals
    /\ conf' = set_common_config(h)
    /\ handle' = [handle EXCEPT ![h].st = "gone"]
    /\ crashed' = IF Kind[h] = "consumer" THEN "~ConsumerImpl" ELSE crashed
    /\ UNCHANGED <<topic, rkt, message, cmsgs, extra, cextras, flowing, vector, ret,
                   reached, stale>>

\* rk_ is stored and the object returned.
Created(h) ==
    /\ handle[h].st = "new"
    /\ handle' = [handle EXCEPT ![h].st = "live"]
    /\ UNCHANGED <<conf, topic, rkt, message, cmsgs, extra, cextras, flowing, vector, ret,
                   reached, stale, crashed>>

-----------------------------------------------------------------------------
(* Trampolines: the handle is found by the instance's opaque, the callback *)
(* object in the handle.                                                   *)
Trampoline(h, s) ==
    /\ handle[h].rk /\ s \in handle[h].tramp
    /\ LET o == handle[h].opaque
           cb == handle[o].cb[s]
       IN IF handle[o].st = "gone" \/ cb = NULL
          THEN crashed' = "trampoline" /\ UNCHANGED reached
          ELSE reached' = [h |-> h, slot |-> s, cb |-> cb] /\ UNCHANGED crashed
    /\ UNCHANGED <<conf, handle, topic, rkt, message, cmsgs, extra, cextras, flowing, vector,
                   ret, stale>>

-----------------------------------------------------------------------------
(* Topic objects.                                                          *)
Dangling(t) == t # NULL /\ topic[t].st = "gone"
TopicsOf(h) == {t \in Topics : topic[t].st = "live" /\ topic[t].of = h}

\* rd_kafka_topic_new() returns the C topic that is there, with the opaque of
\* the Topic it was made for.  It outlives its Topic objects: the library
\* holds references of its own.
TopicCreate(t, h) ==
    /\ topic[t].st = "none" /\ handle[h].st = "live" /\ Kind[h] # "group"
    /\ Careful => ~Dangling(rkt[h].opaque)
    /\ topic' = [topic EXCEPT ![t] = [st |-> "live", of |-> h]]
    /\ rkt' = [rkt EXCEPT ![h] = [refs |-> @.refs + 1, opaque |-> IF @.opaque = NULL THEN t ELSE @.opaque]]
    /\ UNCHANGED <<conf, handle, message, cmsgs, extra, cextras, flowing, vector, ret,
                   reached, stale, crashed>>

\* The C library refuses the name: ~TopicImpl destroys a C topic that is NULL,
\* and the copied conf, which rd_kafka_topic_new() has destroyed already.
TopicCreateFails(t, h) ==
    /\ topic[t].st = "none" /\ handle[h].st = "live" /\ Kind[h] # "group" /\ "topic" \in Refusals
    /\ crashed' = "~TopicImpl"
    /\ UNCHANGED <<conf, handle, topic, rkt, message, cmsgs, extra, cextras, flowing, vector,
                   ret, reached, stale>>

TopicDelete(t) ==
    LET h == topic[t].of IN
    /\ topic[t].st = "live"
    /\ Careful => /\ rkt[h].opaque = t => rkt[h].refs = 1 /\ h \notin flowing
                  /\ \A m \in Messages : message[m].st = "live" => message[m].topic # t
    /\ topic' = [topic EXCEPT ![t].st = "gone"]
    /\ rkt' = [rkt EXCEPT ![h].refs = @ - 1]
    /\ UNCHANGED <<conf, handle, message, cmsgs, extra, cextras, flowing, vector, ret,
                   reached, stale, crashed>>

-----------------------------------------------------------------------------
(* Calls that return an ErrorCode.  Those of the C library that return -1  *)
(* leave the error in rd_kafka_last_error().                               *)
C_result(err) == IF err = NO_ERROR THEN 0 ELSE -1
FromLastError(rc, err) == IF rc = -1 THEN err ELSE NO_ERROR

\* start(), also with a Queue, and stop().
StartStop(h, t, call, err) ==
    /\ handle[h].st = "live" /\ Kind[h] = "consumer" /\ t \in TopicsOf(h)
    /\ flowing' = IF err # NO_ERROR THEN flowing
                  ELSE IF call = "start" THEN flowing \cup {h} ELSE flowing \ {h}
    /\ ret' = Returned(call, err, FromLastError(C_result(err), err))
    /\ UNCHANGED <<conf, handle, topic, rkt, message, cmsgs, extra, cextras, vector, reached,
                   stale, crashed>>

\* rd_kafka_seek() returns the error itself, which is never -1.
Seek(h, t, err) ==
    /\ h \in flowing /\ handle[h].st = "live" /\ t \in TopicsOf(h)
    /\ ret' = Returned("Consumer::seek", err, FromLastError(0, err))
    /\ UNCHANGED <<conf, handle, topic, rkt, message, cmsgs, extra, cextras, flowing, vector,
                   reached, stale, crashed>>

\* The four forms of produce().
Produce(h, t, err) ==
    /\ handle[h].st = "live" /\ Kind[h] = "producer" /\ t \in TopicsOf(h)
    /\ ret' = Returned("produce", err, FromLastError(C_result(err), err))
    /\ UNCHANGED <<conf, handle, topic, rkt, message, cmsgs, extra, cextras, flowing, vector,
                   reached, stale, crashed>>

\* subscribe(), unsubscribe(), seek() and the commits of a KafkaConsumer: the
\* error is returned as it is.
GroupCall(h, call, err) ==
    /\ handle[h].st = "live" /\ Kind[h] = "group"
    /\ flowing' = IF err # NO_ERROR THEN flowing
                  ELSE IF call = "subscribe" THEN flowing \cup {h}
                  ELSE IF call = "unsubscribe" THEN flowing \ {h} ELSE flowing
    /\ ret' = Returned(call, err, err)
    /\ UNCHANGED <<conf, handle, topic, rkt, message, cmsgs, extra, cextras, vector, reached,
                   stale, crashed>>

-----------------------------------------------------------------------------
(* Vectors of TopicPartition: copied into a C list, and updated from it.   *)
partitions_to_c_parts(v) == [i \in DOMAIN v |-> [tp |-> v[i].tp, offset |-> v[i].offset, err |-> NO_ERROR]]

\* Every object with the topic and the partition of a C element, in the order
\* of the C list.
update_partitions_from_c_parts(v, c) ==
    [j \in DOMAIN v |->
        LET same == {i \in DOMAIN c : c[i].tp = v[j].tp}
        IN IF same = {} THEN v[j]
           ELSE c[CHOOSE i \in same : \A k \in same : k <= i]]

\* committed(), position(), commitSync(), pause() and resume() update the vector
\* unless the call failed, offsets_store() and offsetsForTimes() always,
\* assign() and commitAsync() never.
Updates(call, err) == call = "store" \/ (call = "committed" /\ err = NO_ERROR)

ListCall(h, call, offset, err) ==
    /\ handle[h].st = "live" /\ Kind[h] = "group"
    /\ LET sent == partitions_to_c_parts(vector)
           got == [i \in DOMAIN sent |-> [sent[i] EXCEPT !.offset = offset[sent[i].tp], !.err = err]]
       IN /\ vector' = IF Updates(call, err) THEN update_partitions_from_c_parts(vector, got) ELSE vector
          /\ ret' = [Returned(call, err, err) EXCEPT !.before = vector, !.answer = got]
    /\ UNCHANGED <<conf, handle, topic, rkt, message, cmsgs, extra, cextras, flowing, reached,
                   stale, crashed>>

-----------------------------------------------------------------------------
(* Messages.                                                               *)
\* consume(): a Consumer's from a Topic, which the Message then names (via = t),
\* or from a queue or a KafkaConsumer, where the opaque of the C topic names it.
\* Without a C message, the Message only carries an error.
Consume(h, m, via, got) ==
    /\ message[m].st = "none" /\ handle[h].st = "live" /\ Kind[h] # "producer"
    /\ via = NULL \/ (via \in TopicsOf(h) /\ Kind[h] = "consumer")
    /\ got => h \in flowing
    /\ LET t == IF via # NULL \/ ~got THEN via ELSE rkt[h].opaque
       IN /\ message' = [message EXCEPT ![m] = [st |-> "live", of |-> h, owns |-> got, topic |-> t]]
          /\ stale' = (stale \/ Dangling(t))
    /\ cmsgs' = [cmsgs EXCEPT ![h] = IF got THEN @ + 1 ELSE @]
    /\ UNCHANGED <<conf, handle, topic, rkt, extra, cextras, flowing, vector, ret, reached,
                   crashed>>

\* consume_callback() and the delivery report: the Message is on the stack and
\* does not free the C message, which the library destroys afterwards.
ConsumeCallback(h) ==
    /\ h \in flowing /\ handle[h].st = "live" /\ Kind[h] = "consumer"
    /\ stale' = (stale \/ Dangling(rkt[h].opaque))
    /\ UNCHANGED <<conf, handle, topic, rkt, message, cmsgs, extra, cextras, flowing, vector,
                   ret, reached, crashed>>

\* ~MessageImpl.
MessageDelete(m) ==
    /\ message[m].st = "live"
    /\ message' = [message EXCEPT ![m] = [st |-> "none", of |-> NULL, owns |-> FALSE, topic |-> NULL]]
    /\ cmsgs' = [cmsgs EXCEPT ![message[m].of] = IF message[m].owns THEN @ - 1 ELSE @]
    /\ UNCHANGED <<conf, handle, topic, rkt, extra, cextras, flowing, vector, ret, reached,
                   stale, crashed>>

-----------------------------------------------------------------------------
(* Queues and metadata: a call that fails returns NULL and makes nothing.  *)
ExtraCreate(x, h) ==
    /\ extra[x].st = "none" /\ handle[h].st = "live"
    /\ extra' = [extra EXCEPT ![x] = [st |-> "live", of |-> h]]
    /\ cextras' = [cextras EXCEPT ![h] = @ + 1]
    /\ UNCHANGED <<conf, handle, topic, rkt, message, cmsgs, flowing, vector, ret, reached,
                   stale, crashed>>

ExtraDelete(x) ==
    /\ extra[x].st = "live"
    /\ extra' = [extra EXCEPT ![x] = [st |-> "none", of |-> NULL]]
    /\ cextras' = [cextras EXCEPT ![extra[x].of] = @ - 1]
    /\ UNCHANGED <<conf, handle, topic, rkt, message, cmsgs, flowing, vector, ret, reached,
                   stale, crashed>>

-----------------------------------------------------------------------------
(* The end of a handle.                                                    *)
GivenBack(h) ==
    /\ TopicsOf(h) = {}
    /\ \A m \in Messages : message[m].of # h
    /\ \A x \in Extras : extra[x].of # h

\* close() of a KafkaConsumer destroys the instance, unless it fails.
Close(h, err) ==
    /\ handle[h].st = "live" /\ Kind[h] = "group"
    /\ Careful => GivenBack(h)
    /\ handle' = IF err # NO_ERROR THEN handle
                 ELSE [handle EXCEPT ![h].st = "closed", ![h].rk = FALSE]
    /\ flowing' = IF err # NO_ERROR THEN flowing ELSE flowing \ {h}
    /\ ret' = Returned("close", err, err)
    /\ UNCHANGED <<conf, topic, rkt, message, cmsgs, extra, cextras, vector, reached, stale,
                   crashed>>

\* ~ProducerImpl and ~ConsumerImpl: the instance is destroyed first.
Destroy(h) ==
    /\ handle[h].st = "live" /\ Kind[h] # "group"
    /\ Careful => GivenBack(h)
    /\ handle' = [handle EXCEPT ![h].st = "closed", ![h].rk = FALSE]
    /\ flowing' = flowing \ {h}
    /\ UNCHANGED <<conf, topic, rkt, message, cmsgs, extra, cextras, vector, ret, reached,
                   stale, crashed>>

\* The object is freed.  ~KafkaConsumerImpl destroys nothing.
Free(h) ==
    /\ handle[h].st = "closed" \/ (handle[h].st = "live" /\ Kind[h] = "group" /\ ~Careful)
    /\ handle' = [handle EXCEPT ![h].st = "gone"]
    /\ UNCHANGED <<conf, topic, rkt, message, cmsgs, extra, cextras, flowing, vector, ret,
                   reached, stale, crashed>>

HandleStep(h) ==
    \/ NoGroup(h)
    \/ Create(h)
    \/ CreateFails(h)
    \/ Created(h)
    \/ \E s \in Slots : Trampoline(h, s)
    \/ \E call \in {"subscribe", "unsubscribe", "seek", "commit"}, err \in Errs \cup {NO_ERROR} :
         GroupCall(h, call, err)
    \/ \E call \in {"committed", "store", "assign"}, err \in Errs \cup {NO_ERROR} :
         \E offset \in [{Vector[i] : i \in DOMAIN Vector} -> Offsets] : ListCall(h, call, offset, err)
    \/ ConsumeCallback(h)
    \/ \E err \in Errs \cup {NO_ERROR} : Close(h, err)
    \/ Destroy(h)
    \/ Free(h)

TopicStep(t) ==
    \/ \E h \in Handles : TopicCreate(t, h) \/ TopicCreateFails(t, h)
    \/ TopicDelete(t)
    \/ \E h \in Handles, err \in Errs \cup {NO_ERROR} :
         \/ \E call \in {"start", "stop"} : StartStop(h, t, call, err)
         \/ Seek(h, t, err)
         \/ Produce(h, t, err)

Next ==
    /\ crashed = NULL
    /\ \/ \E s \in Slots, cb \in Cbs \cup {NULL} : ConfSet(s, cb)
       \/ \E h \in Handles : HandleStep(h)
       \/ \E t \in Topics : TopicStep(t)
       \/ \E m \in Messages :
            \/ \E h \in Handles, via \in Topics \cup {NULL}, got \in BOOLEAN : Consume(h, m, via, got)
            \/ MessageDelete(m)
       \/ \E x \in Extras : (\E h \in Handles : ExtraCreate(x, h)) \/ ExtraDelete(x)

Spec == Init /\ [][Next]_vars

-----------------------------------------------------------------------------
\* A callback reaches the object that the Conf held when the handle whose
\* instance calls was created, however many handles share the Conf and
\* whatever was set in it since (set_common_config, the trampolines).
RightObject ==
    reached # NULL => reached.cb = handle[reached.h].wanted[reached.slot]

\* Every C object is owned by one wrapper and destroyed with it: C messages,
\* references to C topics, queues and metadata are as many as the wrappers that
\* own one, and an instance lives as long as its handle is open.
Owned ==
    \A h \in Handles :
        /\ cmsgs[h] = Cardinality({m \in Messages : message[m].of = h /\ message[m].owns})
        /\ rkt[h].refs = Cardinality(TopicsOf(h))
        /\ cextras[h] = Cardinality({x \in Extras : extra[x].of = h})
        /\ handle[h].rk <=> handle[h].st \in {"new", "live"}

\* What the C library refused is reported to the application, but by the
\* Consumer's seek(), which reports no error ever; and a vector holds the answer
\* for its own topics and partitions, or what it held before if the call was
\* refused.
ErrorsReported ==
    /\ ret.cpp = IF ret.call = "Consumer::seek" THEN NO_ERROR ELSE ret.c
    /\ ret.call = "committed" /\ ret.c = NO_ERROR =>
           \A i \in DOMAIN vector : vector[i] = ret.answer[i]
    /\ ret.call = "committed" /\ ret.c # NO_ERROR => vector = ret.before

\* With a careful application, neither a callback nor a Message leads to an
\* object that has been deleted; the destructors of a Consumer and of a Topic
\* whose creation was refused use NULL whatever the application does.
NothingDangles ==
    /\ crashed \in {NULL, "~ConsumerImpl", "~TopicImpl"} /\ ~stale
    /\ \A m \in Messages : ~Dangling(message[m].topic)
=============================================================================
