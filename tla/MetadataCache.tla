---------------------------- MODULE MetadataCache ----------------------------
(***************************************************************************)
(* librdkafka's metadata requests and metadata cache (rdkafka_metadata.c,  *)
(* rdkafka_metadata_cache.c, rdkafka_request.c).  The cache is the expiry  *)
(* list: an entry is valid, in error, or a hint that a request for the     *)
(* topic is under way.  Requests for given topics put hints in the cache   *)
(* and leave out topics that have an entry, unless they are forced; of the *)
(* requests for everything only one is under way at a time.                *)
(*                                                                         *)
(* The application's thread looks for the leader of a topic, asks for it   *)
(* and waits for the cache to change.                                      *)
(***************************************************************************)
EXTENDS Integers, Sequences, FiniteSets, SequencesExt

CONSTANTS Topics,
          Slots,        \* bound: requests under way, a set
          MaxAgeMs,     \* metadata.max.age.ms
          Word,         \* values of an int; the product with 1000 is an int
          TimeoutMs,    \* socket.timeout.ms, the life of a hint
          Retries,      \* message.send.max.retries
          Fails,        \* whether requests may be lost
          Errors,       \* topic errors in responses
          ExactClock,   \* whether a response may be handled at the very time an entry expires
          Intervals,    \* the fast leader query's intervals, a sequence
          Asked,        \* topics the application looks for the leader of
          Losing,       \* topics that may lose their leader
          MaxRounds,    \* rounds of looking for a leader before its time-out
          MaxNow        \* bound: time

VARIABLES cache,        \* the expiry list of entries [topic, kind, exp, since]
          tmr,          \* when the expiry timer fires, 0 when it is not started
          now,
          reqs,         \* the requests under way
          fulls,        \* requests for all topics and for brokers counted as sent
          leaderless,   \* topics with a partition that has no leader
          query,        \* the position of the leader query timer in Intervals, 0 when stopped
          app           \* the application's thread [pc, topic, asked, round]

vars == <<cache, tmr, now, reqs, fulls, leaderless, query, app>>

Idle == [kind |-> "idle", topics |-> {}, counted |-> "no", tries |-> 0, due |-> 0]

----------------------------------------------------------------------------
(* The cache.                                                              *)

\* The product of milliseconds and 1000 as an int; time is counted in milliseconds.
AsInt(n) == ((n + Word \div 2) % Word) - Word \div 2

Lifetime == AsInt(MaxAgeMs)

\* rd_kafka_metadata_cache_find.
Find(c, t, kinds) == {i \in DOMAIN c : c[i].topic = t /\ c[i].kind \in kinds}
Kinds == {"valid", "error", "hint"}
Valid == {"valid", "error"}

Delete(c, gone) == SelectSeq(c, LAMBDA e : e.topic \notin gone)

\* rd_kafka_metadata_cache_insert: at the end of the list, the old entry is removed.
Insert(c, t, kind, exp) == Append(Delete(c, {t}), [topic |-> t, kind |-> kind, exp |-> exp, since |-> now])

InsertAll(c, ts, kind, exp) ==
    FoldLeft(LAMBDA d, t : Insert(d, t, kind, exp), c, SetToSeq(ts))

\* rd_kafka_metadata_cache_hint: the topics that get a hint.  With a list for the result
\* a topic that has any entry is left out, without one only a valid entry is.
Hinted(ts, dst) == {t \in ts : Find(cache, t, IF dst THEN Kinds ELSE Valid) = {}}

Hint(ts, dst) == InsertAll(cache, Hinted(ts, dst), "hint", now + TimeoutMs)

\* rd_kafka_metadata_cache_purge_hints.
PurgeHints(c, ts) == Delete(c, {t \in ts : Find(c, t, {"hint"}) # {}})

\* A timer that is started with an interval of zero is a stopped timer.
StartAt(exp) == IF exp = now THEN 0 ELSE exp

ExpiryStart(c) == IF c = <<>> THEN tmr ELSE StartAt(Head(c).exp)

\* The entries at the front of the list that have expired.
Expired == LongestCommonPrefix({cache, SelectSeq(cache, LAMBDA e : e.exp <= now)})

\* rd_kafka_metadata_cache_propagate_changes: a thread that waits looks again.
Broadcast(changed) == app' = IF changed /\ app.pc = "wait" THEN [app EXCEPT !.pc = "look", !.round = @ + 1] ELSE app

\* rd_kafka_metadata_cache_evict, from its timer.
Evict ==
    /\ tmr # 0 /\ tmr <= now
    /\ cache' = SubSeq(cache, Len(Expired) + 1, Len(cache))
    /\ tmr' = IF cache' = <<>> THEN 0 ELSE Head(cache').exp
    /\ Broadcast(Expired # <<>>)
    /\ UNCHANGED <<now, reqs, fulls, leaderless, query>>

----------------------------------------------------------------------------
(* Requests.                                                               *)

Free == {s \in Slots : reqs[s].kind = "idle"}

Sent(kind, ts, counted) ==
    reqs' = [reqs EXCEPT ![CHOOSE s \in Free : TRUE] =
                [kind |-> kind, topics |-> ts, counted |-> counted, tries |-> 0, due |-> now + TimeoutMs]]

\* rd_kafka_metadata_refresh_topics, for the topics ts.
Refresh(ts, force) ==
    LET q == IF force THEN ts ELSE Hinted(ts, TRUE)
    IN  /\ cache' = IF force THEN cache ELSE Hint(ts, TRUE)
        /\ IF q = {} THEN UNCHANGED reqs ELSE Free # {} /\ Sent("topics", q, "no")
        /\ UNCHANGED fulls

RefreshTopics ==
    /\ \E ts \in SUBSET Topics \ {{}}, force \in BOOLEAN : Refresh(ts, force)
    /\ UNCHANGED <<tmr, now, leaderless, query, app>>

\* rd_kafka_MetadataRequest for all topics, or for the brokers only: skipped while one is under
\* way; one with a reply to the application is not counted and always sent.
RequestFull(which, forced) ==
    /\ Free # {}
    /\ IF forced
       THEN Sent("all", {}, "no") /\ UNCHANGED fulls
       ELSE /\ fulls[which] = 0
            /\ Sent(IF which = "topics" THEN "all" ELSE "brokers", {}, which)
            /\ fulls' = [fulls EXCEPT ![which] = @ + 1]

RefreshAll ==
    /\ \E which \in {"topics", "brokers"}, forced \in BOOLEAN : RequestFull(which, forced)
    /\ UNCHANGED <<cache, tmr, now, leaderless, query, app>>

\* rd_kafka_cgrp_metadata_refresh: hints for the subscription ts, and a request unless all of
\* it is valid; with no broker to ask the hints stay.
CgrpRefresh ==
    /\ \E ts \in SUBSET Topics \ {{}} :
          /\ cache' = Hint(ts, FALSE)
          /\ IF \A t \in ts : Find(cache', t, Valid) # {} THEN UNCHANGED reqs
             ELSE \/ Free # {} /\ Sent("topics", ts, "no")
                  \/ Fails /\ UNCHANGED reqs
    /\ UNCHANGED <<tmr, now, fulls, leaderless, query, app>>

\* Mutation: the count is not taken down.
DoneUncounted(s) == reqs' = [reqs EXCEPT ![s] = Idle] /\ UNCHANGED fulls

\* The buffer is destroyed: the count of full requests goes down.
Done(s) ==
    /\ reqs' = [reqs EXCEPT ![s] = Idle]
    /\ fulls' = IF reqs[s].counted = "no" THEN fulls ELSE [fulls EXCEPT ![reqs[s].counted] = @ - 1]

\* rd_kafka_metadata_cache_topic_update for the topics of a response.
TopicUpdate(c, status) ==
    LET ok == {t \in DOMAIN status : status[t] = "ok"}
        bad == {t \in DOMAIN status : status[t] = "error" /\ Find(c, t, Valid) # {}}
    IN  InsertAll(Delete(c, bad), ok, "valid", now + Lifetime)

\* rd_kafka_metadata_cache_update with abs_update: errors and all.
AbsUpdate(status) ==
    LET ok == {t \in DOMAIN status : status[t] = "ok"}
        bad == {t \in DOMAIN status : status[t] = "error"}
    IN  InsertAll(InsertAll(<<>>, ok, "valid", now + Lifetime), bad, "error", now + Lifetime)

\* rd_kafka_parse_Metadata.  A topic is there, in error, without a leader for a while, which
\* leaves the cache as it is, or not in the response.
Reply(s) ==
    /\ reqs[s].kind \in {"topics", "all"}
    /\ ~ExactClock /\ cache # <<>> => Head(cache).exp # now
    /\ \E status \in [IF reqs[s].kind = "all" THEN Topics ELSE reqs[s].topics ->
                      {"ok", "absent"} \cup Errors] :
          LET upd == IF reqs[s].kind = "all" THEN AbsUpdate(status) ELSE TopicUpdate(cache, status)
          IN  /\ tmr' = IF reqs[s].kind = "all" THEN IF upd = <<>> THEN 0 ELSE Head(upd).exp
                        ELSE ExpiryStart(upd)
              /\ cache' = PurgeHints(upd, reqs[s].topics)
              /\ leaderless' = (leaderless \ {t \in DOMAIN status : status[t] = "ok"})
              /\ Broadcast(cache' # cache)
    /\ Done(s)
    /\ UNCHANGED <<now, query>>

\* A response that has only brokers.
ReplyBrokers(s) ==
    /\ reqs[s].kind = "brokers"
    /\ ~ExactClock /\ cache # <<>> => Head(cache).exp # now
    /\ tmr' = ExpiryStart(cache)
    /\ Done(s)
    /\ UNCHANGED <<cache, now, leaderless, query, app>>

\* A response that does not parse: the hints of the request are purged.
ReplyBroken(s) ==
    /\ Fails /\ reqs[s].kind # "idle"
    /\ cache' = PurgeHints(cache, reqs[s].topics)
    /\ Broadcast(cache' # cache)
    /\ Done(s)
    /\ UNCHANGED <<tmr, now, leaderless, query>>

\* rd_kafka_handle_Metadata with a transport error or a time-out: the request is sent again,
\* or given up with its hints left in the cache.
Fail(s) ==
    /\ Fails /\ reqs[s].kind # "idle"
    /\ IF reqs[s].tries < Retries
       THEN /\ reqs' = [reqs EXCEPT ![s].tries = @ + 1, ![s].due = now + TimeoutMs]
            /\ UNCHANGED fulls
       ELSE Done(s)
    /\ UNCHANGED <<cache, tmr, now, leaderless, query, app>>

----------------------------------------------------------------------------
(* The fast leader query.                                                  *)

LoseLeader ==
    /\ \E t \in Losing \ leaderless : leaderless' = leaderless \cup {t}
    /\ query' = 1
    /\ UNCHANGED <<cache, tmr, now, reqs, fulls, app>>

\* rd_kafka_metadata_leader_query_tmr_cb: at growing intervals, then the periodic refresh does it.
LeaderQuery ==
    /\ query # 0
    /\ IF leaderless = {} THEN query' = 0 /\ UNCHANGED <<cache, reqs, fulls>>
       ELSE /\ Refresh(leaderless, TRUE)
            /\ query' = IF query = Len(Intervals) THEN 0 ELSE query + 1
    /\ UNCHANGED <<tmr, now, leaderless, app>>

----------------------------------------------------------------------------
(* rd_kafka_topic_partition_list_query_leaders in the application's thread. *)

Ask ==
    /\ app.pc = "idle"
    /\ \E t \in Asked : app' = [pc |-> "look", topic |-> t, asked |-> FALSE, round |-> 0]
    /\ UNCHANGED <<cache, tmr, now, reqs, fulls, leaderless, query>>

\* get_leaders: a valid entry with a leader ends it, one in error too, and the time-out.
Look ==
    /\ app.pc = "look"
    /\ LET e == Find(cache, app.topic, Valid)
           found == e # {} /\ (app.topic \notin leaderless \/ \E i \in e : cache[i].kind = "error")
       IN  app' = [app EXCEPT !.pc = IF found \/ app.round = MaxRounds THEN "done"
                                     ELSE IF app.asked THEN "towait" ELSE "query"]
    /\ UNCHANGED <<cache, tmr, now, reqs, fulls, leaderless, query>>

QueryLeader ==
    /\ app.pc = "query"
    /\ Refresh({app.topic}, TRUE)
    /\ app' = [app EXCEPT !.pc = "look", !.asked = TRUE]
    /\ UNCHANGED <<tmr, now, leaderless, query>>

\* rd_kafka_metadata_cache_wait_change: a change between the look and the wait is not seen,
\* the wait ends after a while and the next round may ask again.
WaitChange ==
    /\ app.pc \in {"towait", "wait"}
    /\ app' = IF app.pc = "towait" THEN [app EXCEPT !.pc = "wait"]
              ELSE [app EXCEPT !.pc = "look", !.asked = FALSE, !.round = @ + 1]
    /\ UNCHANGED <<cache, tmr, now, reqs, fulls, leaderless, query>>

----------------------------------------------------------------------------
\* Time passes once the expiry timer has been served; a request that is due has failed.
Tick ==
    /\ now < MaxNow
    /\ tmr = 0 \/ tmr > now
    /\ \A s \in Slots : reqs[s].kind # "idle" => reqs[s].due > now
    /\ now' = now + 1
    /\ UNCHANGED <<cache, tmr, reqs, fulls, leaderless, query, app>>

Init ==
    /\ cache = <<>> /\ tmr = 0 /\ now = 1
    /\ reqs = [s \in Slots |-> Idle]
    /\ fulls = [topics |-> 0, brokers |-> 0]
    /\ leaderless = {} /\ query = 0
    /\ app = [pc |-> "idle", topic |-> CHOOSE t \in Topics : TRUE, asked |-> FALSE, round |-> 0]

Next ==
    \/ Evict \/ RefreshTopics \/ RefreshAll \/ CgrpRefresh \/ LoseLeader \/ LeaderQuery
    \/ Ask \/ Look \/ QueryLeader \/ WaitChange \/ Tick
    \/ \E s \in Slots : Reply(s) \/ ReplyBrokers(s) \/ ReplyBroken(s) \/ Fail(s)

Spec == Init /\ [][Next]_vars

----------------------------------------------------------------------------
\* A topic has one entry: the list the timer evicts from and the tree lookups use agree
\* (rd_kafka_metadata_cache_insert puts the new entry into both and takes the old one out).
OneEntry == \A i, j \in DOMAIN cache : cache[i].topic = cache[j].topic => i = j

\* A full request is counted exactly while it is under way: the periodic refresh of all topics is
\* never suppressed by a request that is gone.
FullCounted ==
    \A which \in DOMAIN fulls :
        fulls[which] = Cardinality({s \in Slots : reqs[s].counted = which}) /\ fulls[which] <= 1

=============================================================================
