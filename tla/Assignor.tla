------------------------------ MODULE Assignor ------------------------------
(***************************************************************************)
(* How a consumer group divides partitions (rdkafka_assignor.c, the range  *)
(* and the roundrobin assignor, JoinGroup and SyncGroup): the configured   *)
(* strategies, the subscriptions the members send, what the leader reads   *)
(* of them, the topics it maps to members, the assignment it makes and the *)
(* member states it writes, and what each member reads of its own.         *)
(***************************************************************************)
EXTENDS Integers, Sequences, FiniteSets, SequencesExt, FiniteSetsExt

CONSTANTS
    Members,        \* member ids, ordered as their names are
    Groups,         \* the subscriptions a group may have: [Members -> sequences of entries]
    Counts,         \* how many partitions a topic may have
    Blacklist,      \* the topics that topic.blacklist matches
    Texts           \* partition.assignment.strategy: sequences of "range", "roundrobin", "other", " " and ","

VARIABLES
    phase,          \* "conf", "join", "meta", "map", "assign", "sync", "done" or "failed"
    text,           \* the strategies as they are configured
    rest,           \* what is left to read of it
    assignors,      \* rk_conf.partition_assignors, all of them enabled
    protocol,       \* the strategy that the coordinator chose
    group,          \* each member's subscription
    members,        \* the leader's array: [id, subscription, eligible, assignment]
    metadata,       \* <<topic, partitions>> in the order of the reply
    ti,             \* the next of them
    eligible,       \* eligible_topics: [topic, cnt, members: ids]
    at,             \* the next of them
    part,           \* roundrobin's partition and next
    next,
    states,         \* the member states the coordinator holds
    got,            \* the assignment each member read
    fault           \* what the code must not do

vars == <<phase, text, rest, assignors, protocol, group, members, metadata, ti, eligible, at, part, next, states, got, fault>>

\* rd_kafka_new and the join: the configured strategies, no member assigned yet.
Init ==
    /\ phase = "conf" /\ text \in Texts /\ rest = text /\ assignors = <<>>
    /\ protocol = "" /\ group \in Groups /\ members = <<>> /\ metadata = <<>> /\ ti = 1
    /\ eligible = <<>> /\ at = 1 /\ part = 0 /\ next = 1
    /\ states = [m \in Members |-> <<>>] /\ got = [m \in Members |-> <<>>] /\ fault = FALSE

-----------------------------------------------------------------------------
(* rd_kafka_assignors_init *)

LeftTrim(s) ==
    LET i == SelectInSeq(s, LAMBDA c : c \notin {" ", ","})
    IN IF i = 0 THEN <<>> ELSE SubSeq(s, i, Len(s))

\* rtrim starts at the terminator, which is no blank: nothing is trimmed.
rtrim(s) == s

\* rd_kafka_assignor_add: not twice
rd_kafka_assignor_add(name) == IF name \in ToSet(assignors) THEN assignors ELSE Append(assignors, name)

rd_kafka_assignors_init ==
    /\ phase = "conf"
    /\ LET s == LeftTrim(rest)
           i == SelectInSeq(s, LAMBDA c : c = ",")
           name == rtrim(IF i = 0 THEN s ELSE SubSeq(s, 1, i - 1))
       IN IF rest = <<>> THEN phase' = "join" /\ UNCHANGED <<rest, assignors>>
          ELSE IF name \in {<<"range">>, <<"roundrobin">>}
          THEN /\ rest' = IF i = 0 THEN <<>> ELSE SubSeq(s, i + 1, Len(s))
               /\ assignors' = rd_kafka_assignor_add(name[1])
               /\ UNCHANGED phase
          ELSE phase' = "failed" /\ UNCHANGED <<rest, assignors>>
    /\ UNCHANGED <<text, protocol, group, members, metadata, ti, eligible, at, part, next, states, got, fault>>

-----------------------------------------------------------------------------
(* JoinGroup *)

\* rd_kafka_consumer_protocol_member_metadata_new: the topics and no user data
MemberMetadata(m) == [topics |-> group[m], userdata |-> <<>>]

\* One entry per enabled strategy
rd_kafka_JoinGroupRequest(m) == [i \in DOMAIN assignors |-> [protocol |-> assignors[i], metadata |-> MemberMetadata(m)]]

\* rd_kafka_group_MemberMetadata_consumer_read fails without a topic.
ReadsMetadata(md) == Len(md.topics) > 0

\* The coordinator chooses a strategy of the members and a leader, and sends the leader
\* what every member sent, in any order; members that cannot be read are skipped.
rd_kafka_cgrp_handle_JoinGroup ==
    /\ phase = "join" /\ assignors /= <<>>
    /\ \E order \in SetToSeqs(Members), a \in DOMAIN assignors :
        LET Sent(m) == rd_kafka_JoinGroupRequest(m)[a].metadata
            read == SelectSeq(order, LAMBDA m : ReadsMetadata(Sent(m)))
        IN /\ protocol' = assignors[a]
           /\ members' = [i \in DOMAIN read |-> [id |-> read[i], subscription |-> Sent(read[i]).topics,
                                                 eligible |-> 0, assignment |-> <<>>]]
    /\ phase' = "meta"
    /\ UNCHANGED <<text, rest, assignors, group, metadata, ti, eligible, at, part, next, states, got, fault>>

\* rd_kafka_topic_partition_list_get_topic_names: the names, not the regexes
Requested == UNION {e.match : e \in {x \in UNION {ToSet(members[i].subscription) : i \in DOMAIN members} : ~x.regex}}

\* The reply has them in any order.
Metadata_reply ==
    /\ phase = "meta"
    /\ \E order \in SetToSeqs(Requested), cnt \in [Requested -> Counts] :
        metadata' = [i \in DOMAIN order |-> <<order[i], cnt[order[i]]>>]
    /\ phase' = "map"
    /\ UNCHANGED <<text, rest, assignors, protocol, group, members, ti, eligible, at, part, next, states, got, fault>>

-----------------------------------------------------------------------------
(* rd_kafka_member_subscriptions_map *)

rd_kafka_topic_partition_match(e, t) == t \in e.match

\* How many of the member's entries match, and whether a regex does
Matches(m, t) == SelectSeq(m.subscription, LAMBDA e : rd_kafka_topic_partition_match(e, t))

\* Mutation: the count is at least one.
Complete_any(m, t) == m.eligible > 0

\* rd_kafka_member_subscription_match returns 1 (m after the topic was counted)
Complete(m, t) ==
    /\ \A i \in DOMAIN Matches(m, t) : ~Matches(m, t)[i].regex
    /\ m.eligible = Len(m.subscription)

\* One topic; those in the blacklist are ignored.
rd_kafka_member_subscriptions_map ==
    /\ phase = "map"
    /\ IF ti > Len(metadata)
       THEN phase' = "assign" /\ UNCHANGED <<members, ti, eligible>>
       ELSE IF metadata[ti][1] \in Blacklist
       THEN ti' = ti + 1 /\ UNCHANGED <<phase, members, eligible>>
       ELSE LET t == metadata[ti][1]
                counted == [i \in DOMAIN members |-> [members[i] EXCEPT !.eligible = @ + Len(Matches(members[i], t))]]
                matched == SelectSeq([i \in DOMAIN members |-> i], LAMBDA i : Matches(members[i], t) /= <<>>)
            IN /\ members' = counted
               /\ ti' = ti + 1
               /\ eligible' = IF matched = <<>> THEN eligible
                              ELSE Append(eligible, [topic |-> t, cnt |-> metadata[ti][2],
                                                     members |-> [j \in DOMAIN matched |-> members[matched[j]].id]])
               /\ phase' = IF matched /= <<>> /\ \A i \in DOMAIN members : Complete(counted[i], t)
                           THEN "assign" ELSE phase
    /\ UNCHANGED <<text, rest, assignors, protocol, group, metadata, at, part, next, states, got, fault>>

-----------------------------------------------------------------------------
(* The strategies: one topic, or one partition, at a time *)

\* rd_kafka_assignor_run calls the strategy that the coordinator chose, if it is one of ours.
rd_kafka_assignor_run(name) ==
    /\ phase = "assign" /\ at <= Len(eligible)
    /\ protocol = name /\ name \in ToSet(assignors)

SortedIds(ids) == SetToSortSeq(ToSet(ids), <)

RangeStart(per, extra, i) == per * i + Min({i, extra})
RangeLength(per, extra, i) == per + (IF i + 1 > extra THEN 0 ELSE 1)

\* rd_kafka_topic_partition_list_add_range
AddRange(t, start, stop) == [i \in 1 .. stop - start + 1 |-> <<t, start + i - 1>>]

rd_kafka_range_assignor_assign_cb ==
    /\ rd_kafka_assignor_run("range")
    /\ LET e == eligible[at]
           sorted == SortedIds(e.members)
           per == e.cnt \div Len(sorted)
           extra == e.cnt % Len(sorted)
           Own(id) == LET i == SelectInSeq(sorted, LAMBDA x : x = id) - 1
                          start == RangeStart(per, extra, i)
                      IN IF i < 0 THEN <<>> ELSE AddRange(e.topic, start, start + RangeLength(per, extra, i) - 1)
       IN members' = [i \in DOMAIN members |-> [members[i] EXCEPT !.assignment = @ \o Own(members[i].id)]]
    /\ at' = at + 1
    /\ UNCHANGED <<phase, text, rest, assignors, protocol, group, metadata, ti, eligible, part, next, states, got, fault>>

\* The members are sorted by name; the topics are not, as the comparator only tells
\* whether they are equal.
SortedMembers == SortSeq(members, LAMBDA a, b : a.id < b.id)

\* rd_kafka_group_member_find_subscription, from next on; past the end the array is
\* read out of bounds
Scan(ms, t) == {i \in next .. Len(ms) : Matches(ms[i], t) /= <<>>}

\* next = (next + 1) % the number of the topic's members; next counts from 1 here
Cyclic(i, n) == (i % n) + 1

rd_kafka_roundrobin_assignor_assign_cb ==
    /\ rd_kafka_assignor_run("roundrobin") /\ ~fault
    /\ LET e == eligible[at]
           ms == SortedMembers
       IN IF part >= e.cnt
          THEN at' = at + 1 /\ part' = 0 /\ UNCHANGED <<members, next, fault>>
          ELSE IF Scan(ms, e.topic) = {} THEN fault' = TRUE /\ UNCHANGED <<members, at, part, next>>
          ELSE LET i == Min(Scan(ms, e.topic))
               IN /\ members' = [ms EXCEPT ![i].assignment = Append(@, <<e.topic, part>>)]
                  /\ next' = Cyclic(i, Len(e.members))
                  /\ part' = part + 1
                  /\ UNCHANGED <<at, fault>>
    /\ UNCHANGED <<phase, text, rest, assignors, protocol, group, metadata, ti, eligible, states, got>>

-----------------------------------------------------------------------------
(* SyncGroup *)

\* The previous topic's count is filled in, and the next topic's is left open.
NewTopic(w, t) ==
    [w EXCEPT !.buf = (IF w.last /= 0 THEN [@ EXCEPT ![w.of] = w.parts] ELSE @) \o <<t, 0>>,
              !.of = Len(w.buf) + 2, !.parts = 0, !.last = t, !.topics = @ + 1]

rd_kafka_group_MemberState_consumer_write(assignment) ==
    LET Put(w, tp) ==
            LET v == IF w.last /= tp[1] THEN NewTopic(w, tp[1]) ELSE w
            IN [v EXCEPT !.buf = Append(@, tp[2]), !.parts = @ + 1]
        w == FoldLeft(Put, [buf |-> <<0>>, of |-> 0, parts |-> 0, last |-> 0, topics |-> 0], assignment)
        closed == IF w.of /= 0 THEN [w.buf EXCEPT ![w.of] = w.parts] ELSE w.buf
    IN [closed EXCEPT ![1] = w.topics]

\* The leader sends a state for each member of its array.
rd_kafka_SyncGroupRequest ==
    /\ phase = "assign" /\ at > Len(eligible)
    /\ states' = [m \in Members |->
                    LET i == SelectInSeq(members, LAMBDA x : x.id = m)
                    IN IF i = 0 THEN <<>> ELSE rd_kafka_group_MemberState_consumer_write(members[i].assignment)]
    /\ phase' = "sync"
    /\ UNCHANGED <<text, rest, assignors, protocol, group, members, metadata, ti, eligible, at, part, next, got, fault>>

\* What is read of a state: topics left, the topic, its partitions left, and what was
\* read so far; nothing if the state ends too early
RECURSIVE ReadState(_, _, _, _, _)
ReadState(buf, topics, t, parts, read) ==
    IF parts > 0
    THEN IF buf = <<>> THEN <<>> ELSE ReadState(Tail(buf), topics, t, parts - 1, Append(read, <<t, Head(buf)>>))
    ELSE IF topics = 0 THEN read
    ELSE IF Len(buf) < 2 THEN <<>>
    ELSE ReadState(SubSeq(buf, 3, Len(buf)), topics - 1, buf[1], buf[2], read)

rd_kafka_cgrp_handle_SyncGroup ==
    /\ phase = "sync"
    /\ got' = [m \in Members |->
                 IF states[m] = <<>> THEN <<>> ELSE ReadState(Tail(states[m]), Head(states[m]), 0, 0, <<>>)]
    /\ phase' = "done"
    /\ UNCHANGED <<text, rest, assignors, protocol, group, members, metadata, ti, eligible, at, part, next, states, fault>>

Next ==
    \/ rd_kafka_assignors_init \/ rd_kafka_cgrp_handle_JoinGroup \/ Metadata_reply
    \/ rd_kafka_member_subscriptions_map
    \/ rd_kafka_range_assignor_assign_cb \/ rd_kafka_roundrobin_assignor_assign_cb
    \/ rd_kafka_SyncGroupRequest \/ rd_kafka_cgrp_handle_SyncGroup

Spec == Init /\ [][Next]_vars

-----------------------------------------------------------------------------
(* Properties *)

Subscribed(m, t) == \E i \in DOMAIN group[m] : t \in group[m][i].match
Listed == {i \in DOMAIN metadata : metadata[i][1] \notin Blacklist}
Partitions == UNION {{<<metadata[i][1], p>> : p \in 0 .. metadata[i][2] - 1} : i \in Listed}
Owned(m, t) == {tp \in ToSet(got[m]) : tp[1] = t}

\* Every partition of a subscribed topic that is not in the blacklist reaches exactly one
\* member, once, and a member that subscribes to the topic; and no member reads a
\* partition that is not there.
AssignedOnce ==
    phase = "done" =>
        /\ \A tp \in Partitions : Cardinality({m \in Members : tp \in ToSet(got[m])}) = 1
        /\ \A m \in Members :
            /\ IsInjective(got[m])
            /\ \A i \in DOMAIN got[m] : got[m][i] \in Partitions /\ Subscribed(m, got[m][i][1])

\* The range strategy: the members of a topic have runs of its partitions, in the order
\* of their names, the first of them one more than the others.
RangesEven ==
    phase = "done" /\ protocol = "range" =>
        \A i \in Listed :
            LET t == metadata[i][1]
            IN \A m, n \in {x \in Members : Subscribed(x, t)} :
                m < n => /\ Cardinality(Owned(m, t)) - Cardinality(Owned(n, t)) \in {0, 1}
                         /\ \A p \in Owned(m, t), q \in Owned(n, t) : p[2] < q[2]

\* The roundrobin strategy: with the same subscriptions the members' shares differ by at
\* most one partition.
Uniform ==
    phase = "done" /\ protocol = "roundrobin" /\ (\A m, n \in Members : group[m] = group[n]) =>
        \A m, n \in Members : Len(got[m]) - Len(got[n]) \in {-1, 0, 1}

\* While it looks for a member that subscribes to a topic the leader stays within the
\* array of members, unless it uses roundrobin and the members' subscriptions differ:
\* next is then a position among the members of one topic, and the scan from there may
\* run past the last member of another.
NoFault ==
    fault => /\ protocol = "roundrobin"
             /\ \E i, j \in DOMAIN members : members[i].subscription /= members[j].subscription

\* The strategies between the commas, with blanks around them, and an error exactly for
\* a name that is not known.
Names(s) == SelectSeq(s, LAMBDA c : c \notin {" ", ","})
StrategyRead ==
    /\ phase = "failed" => "other" \in ToSet(text)
    /\ phase = "join" => /\ "other" \notin ToSet(text)
                         /\ ToSet(assignors) = ToSet(Names(text)) /\ IsInjective(assignors)
=============================================================================
