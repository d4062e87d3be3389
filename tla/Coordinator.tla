---------------------------- MODULE Coordinator ----------------------------
(***************************************************************************)
(* How the consumer group finds its coordinator (rdkafka_cgrp.c): queries  *)
(* of the coordinator's id, the choice of the broker that manages the      *)
(* group, and rd_kafka_cgrp_serve's state machine over both.               *)
(*                                                                         *)
(* c is the main thread's state.  A broker that was given as a bootstrap   *)
(* server is known by address only until its own thread has handled the    *)
(* NODE_UPDATE op that a coordinator response sends it (known).            *)
(***************************************************************************)
EXTENDS Integers, Sequences, FiniteSets, SequencesExt

CONSTANTS
    Broker,     \* the brokers of the cluster
    None,       \* coordinator id -1, or no managing broker
    Internal,   \* the internal broker handle, which never connects
    MaxQuery,   \* bound: queries in flight
    MaxFault    \* bound: moves of the coordinator, disconnects, errors

VARIABLES
    c,          \* rkcg_state, rkcg_coord_id, rkcg_rkb
    queries,    \* the queries in flight: not yet answered, or the answer
    up,         \* the brokers that are connected
    known,      \* the brokers whose node id is known
    real,       \* the cluster's coordinator, None during an election
    faults,
    stale       \* history: UP was entered on the state of the previous broker

vars == <<c, queries, up, known, real, faults, stale>>

Asked == [answered |-> FALSE, coord |-> None, err |-> "none"]
Answers == {[answered |-> TRUE, coord |-> real,
             err |-> IF real = None THEN "not_available" ELSE "none"]}
Failure == [answered |-> TRUE, coord |-> None, err |-> "error"]

Init ==
    /\ c = [st |-> "init", coord |-> None, rkb |-> None]
    /\ queries = <<>>
    /\ up = {}
    /\ known = {}
    /\ real \in Broker
    /\ faults = 0
    /\ stale = FALSE

----------------------------------------------------------------------------
(* The managing broker.  Each operator takes a state s of c; select_broker *)
(* samples at random, so it is the set of brokers it may choose.           *)

SetState(s, st) == [s EXCEPT !.st = st]
IsCoord(s, b) == s.coord # None /\ s.coord = b /\ b \in known

Prefer(s) ==
    IF s.coord \in known THEN {s.coord}
    ELSE IF up # {} THEN up ELSE {Internal}

SelectBroker(s) ==
    IF s.st = "term" THEN {None}
    ELSE {IF /\ s.rkb \notin {None, Internal}
             /\ ~IsCoord(s, s.rkb)
             /\ ~IsCoord(s, b)
          THEN s.rkb ELSE b : b \in Prefer(s)}

AssignBroker(s, b) ==
    LET t == [s EXCEPT !.rkb = b]
    IN  IF IsCoord(t, b) THEN SetState(t, "wait_broker_transport") ELSE t

ReassignBroker(s, b) ==
    IF b = s.rkb
    THEN SetState(s, IF IsCoord(s, b) THEN "wait_broker_transport" ELSE "wait_broker")
    ELSE IF b = None THEN [SetState(s, "wait_broker") EXCEPT !.rkb = None]
    ELSE AssignBroker([SetState(s, "wait_broker") EXCEPT !.rkb = None], b)

CoordUpdate(s, id) ==
    IF s.coord = id
    THEN {IF s.st = "wait_coord" THEN SetState(s, "wait_broker") ELSE s}
    ELSE LET t == [SetState(s, "wait_broker") EXCEPT !.coord = id]
         IN  {ReassignBroker(t, b) : b \in SelectBroker(t)}

(* Ask any connected broker: asks says whether there was one. *)
CoordQuery(s) ==
    IF up = {} THEN [s |-> s, asks |-> FALSE]
    ELSE [s |-> IF s.st = "query_coord" THEN SetState(s, "wait_coord") ELSE s,
          asks |-> TRUE]

CoordDead(s) == {CoordQuery(SetState(t, "query_coord")) : t \in CoordUpdate(s, None)}

----------------------------------------------------------------------------
(* rd_kafka_cgrp_serve, after the check for termination.  due: the query   *)
(* interval has passed; on: the managing broker was connected when the     *)
(* function was entered, which is what it goes by until it returns.        *)

Quiet(s) == [s |-> s, asks |-> FALSE]
MayAsk(s, due) == IF due THEN CoordQuery(s) ELSE Quiet(s)

ServeTransport(s, on, due) == IF on THEN Quiet(SetState(s, "up")) ELSE MayAsk(s, due)

(* Mutation: no queries while waiting for a broker. *)
ServeWaitBrokerMute(s, on, due) == {Quiet(ReassignBroker(s, b)) : b \in SelectBroker(s)}

ServeWaitBroker(s, on, due) ==
    LET step(b) == LET t == ReassignBroker(s, b)
                   IN  IF b # s.rkb /\ t.st = "wait_broker_transport"
                       THEN ServeTransport(t, on, due)
                       ELSE MayAsk(t, due)
    IN  {step(b) : b \in SelectBroker(s)}

LostConnection(s) == IF s.st = "up" /\ s.rkb \notin up THEN SetState(s, "query_coord") ELSE s

Serve(s0, due) ==
    LET on == s0.rkb \in up
        s == LostConnection(s0)
    IN  CASE s.st \in {"init", "query_coord"} -> {MayAsk(SetState(s, "query_coord"), due)}
          [] s.st = "wait_coord" -> {Quiet(s)}
          [] s.st = "wait_broker" -> ServeWaitBroker(s, on, due)
          [] s.st = "wait_broker_transport" -> {ServeTransport(s, on, due)}
          [] s.st = "up" -> {MayAsk(s, due)}
          [] s.st = "term" -> {Quiet(s)}

Becomes(rest, r) ==
    /\ c' = r.s
    /\ queries' = IF r.asks THEN Append(rest, Asked) ELSE rest
    /\ Len(queries') <= MaxQuery
    /\ stale' = (stale \/ (r.s.st = "up" /\ c.st # "up" /\ r.s.rkb \notin up))

----------------------------------------------------------------------------
(* Actions. *)

(* The main thread's turn; the first one assigns a broker. *)
Start ==
    /\ c.rkb = None /\ c.st = "init"
    /\ \E b \in SelectBroker(c) : c' = ReassignBroker(c, b)
    /\ UNCHANGED <<queries, up, known, real, faults, stale>>

CgrpServe(due) ==
    /\ c.st # "term" /\ c.rkb # None
    /\ \E r \in Serve(c, due) : Becomes(queries, r) /\ (r.s # c \/ r.asks)
    /\ UNCHANGED <<up, known, real, faults>>

HandleGroupCoordinator(i) ==
    /\ c.st # "term"
    /\ queries[i].answered
    /\ LET q == queries[i]
           updated == CASE q.err = "none" -> CoordUpdate(c, q.coord)
                        [] q.err = "not_available" -> CoordUpdate(c, None)
                        [] q.err = "error" -> {SetState(c, "query_coord")}
       IN  \E s \in updated : \E due \in BOOLEAN : \E r \in Serve(s, due) :
              Becomes(RemoveAt(queries, i), r)
    /\ UNCHANGED <<up, known, real, faults>>

(* A commit was refused by a broker that is not the coordinator. *)
MarkCoordDead ==
    /\ c.st = "up"
    /\ faults < MaxFault /\ faults' = faults + 1
    /\ \E r \in CoordDead(c) : Becomes(queries, r)
    /\ UNCHANGED <<up, known, real>>

(* rd_kafka_cgrp_terminated: responses are dropped from here on. *)
Terminate ==
    /\ c.st # "term"
    /\ c' = [c EXCEPT !.st = "term", !.rkb = None]
    /\ UNCHANGED <<queries, up, known, real, faults, stale>>

(* The broker threads and the cluster. *)
Answer(i) ==
    /\ ~queries[i].answered
    /\ \/ \E a \in Answers : queries' = [queries EXCEPT ![i] = a] /\ UNCHANGED faults
       \/ /\ faults < MaxFault /\ faults' = faults + 1
          /\ queries' = [queries EXCEPT ![i] = Failure]
    /\ UNCHANGED <<c, up, known, real, stale>>

Connect(b) ==
    /\ b \notin up
    /\ up' = up \cup {b}
    /\ UNCHANGED <<c, queries, known, real, faults, stale>>

Disconnect(b) ==
    /\ b \in up
    /\ faults < MaxFault /\ faults' = faults + 1
    /\ up' = up \ {b}
    /\ UNCHANGED <<c, queries, known, real, stale>>

(* The op that a coordinator response sent to the broker's thread. *)
NodeUpdate(b) ==
    /\ b = c.coord /\ b \notin known
    /\ known' = known \cup {b}
    /\ UNCHANGED <<c, queries, up, real, faults, stale>>

Elect(b) ==
    /\ b # real
    /\ faults < MaxFault /\ faults' = faults + 1
    /\ real' = b
    /\ UNCHANGED <<c, queries, up, known, stale>>

Next ==
    \/ Start \/ MarkCoordDead \/ Terminate
    \/ \E due \in BOOLEAN : CgrpServe(due)
    \/ \E i \in DOMAIN queries : HandleGroupCoordinator(i) \/ Answer(i)
    \/ \E b \in Broker : Connect(b) \/ Disconnect(b) \/ NodeUpdate(b)
    \/ \E b \in Broker \cup {None} : Elect(b)
    \/ c.st = "term" /\ UNCHANGED vars

Spec == Init /\ [][Next]_vars
=============================================================================
