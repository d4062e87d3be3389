----------------------------- MODULE EventLoop -----------------------------
(***************************************************************************)
(* EventLoop::run with the consumer it reads from, the two processors it   *)
(* calls and the producer it writes to.  The topic is the log of each      *)
(* partition; a message is published, at the latest, when it is consumed.  *)
(***************************************************************************)
EXTENDS DeficiencyProcessor

CONSTANTS
    Partition,      \* the partitions of the topic
    PartitionOf,    \* [Message -> Partition]
    LIMIT           \* 1e15 in the code: prices stay below it, volumes may reach it

ASSUME PartitionAssumption == PartitionOf \in [Message -> Partition]
ASSUME LimitAssumption == LIMIT \in Nat \ {0}

VARIABLES
    stage,      \* where EventLoop::run is
    message,    \* the MyMessage of this round
    out,        \* the lines of getResult() still to be produced
    offset,     \* EventLoop::offset: consumed messages, per partition
    runTag,     \* the global runTag
    log,        \* the topic (external)
    position,   \* the consumer's next offset, per partition (external)
    alerts,     \* lines the producer accepted, and how often (external)
    lost        \* history: lines the producer refused, and how often

loop   == <<stage, message, out>>
broker == <<log, position>>
sink   == <<alerts, lost>>
elVars == <<dpVars, loop, offset, runTag, broker, sink>>

\* The lines the producer was given, each with how often it was.
NoLines == <<>>
Copies(a, lines) == IF a \in DOMAIN lines THEN lines[a] ELSE 0
OneMore(lines, a) == [b \in DOMAIN lines \cup {a} |-> Copies(b, lines) + (IF b = a THEN 1 ELSE 0)]

ELInit ==
    /\ DPInit
    /\ stage = "consume"
    /\ message = NULL
    /\ out = <<>>
    /\ offset = [p \in Partition |-> <<>>]
    /\ runTag = TRUE
    /\ log = [p \in Partition |-> <<>>]
    /\ position = [p \in Partition |-> 0]
    /\ alerts = NoLines
    /\ lost = NoLines

-----------------------------------------------------------------------------

(* ValidityProcessor::exec, the check of a single price feed.  It keeps no *)
(* state between messages (res is rebuilt by every call), so it is an      *)
(* operator: what it leaves for run() to produce.                          *)

InvalidPrice(p) ==
    \/ p.BID_PRICE >= p.ASK_PRICE
    \/ p.BID_PRICE <= 0 \/ p.BID_PRICE >= LIMIT
    \/ p.ASK_PRICE <= 0 \/ p.ASK_PRICE >= LIMIT

InvalidVolume(p) ==
    \/ p.BID_VOLUME < 0 \/ p.BID_VOLUME > LIMIT
    \/ p.ASK_VOLUME < 0 \/ p.ASK_VOLUME > LIMIT

\* res.code and res.json after exec: a price feed always leaves one line, and
\* the code says whether it is a warning.
ValidityExec(m) ==
    IF Feed[m].type = "Price"
    THEN [code |-> IF InvalidPrice(Feed[m]) \/ InvalidVolume(Feed[m]) THEN "WARN" ELSE "OK",
          json |-> <<[LOG |-> "price", FEEDCODE |-> Feed[m].FEEDCODE,
                      TIMESTAMP |-> Feed[m].EXCHANGE_TIMESTAMP]>>]
    ELSE [code |-> "OK", json |-> <<>>]

-----------------------------------------------------------------------------

Published == UNION {{log[p][i] : i \in DOMAIN log[p]} : p \in Partition}

\* What consume() may return next from partition p, and the log it leaves.
Fetch(p, m) ==
    \/ /\ position[p] < Len(log[p])
       /\ m = log[p][position[p] + 1]
       /\ UNCHANGED log
    \/ /\ position[p] = Len(log[p])
       /\ m \in {n \in Message \ Published : PartitionOf[n] = p}
       /\ log' = [log EXCEPT ![p] = Append(@, m)]

\* consume() returns a message: new MyMessage, offset[partition].push.
Consume(p, m) ==
    /\ stage = "consume"
    /\ runTag
    /\ Fetch(p, m)
    /\ position' = [position EXCEPT ![p] = @ + 1]
    /\ offset' = [offset EXCEPT ![p] = Append(@, m)]
    /\ message' = m
    /\ stage' = "deficiency"
    /\ UNCHANGED <<dpVars, out, runTag, sink>>

\* consume() returns an error other than a time-out or the end of the
\* partition: msg_consume clears runTag and answers NULL.
ConsumeError ==
    /\ stage = "consume"
    /\ runTag
    /\ runTag' = FALSE
    /\ UNCHANGED <<dpVars, loop, offset, broker, sink>>

\* SIGINT, SIGTERM, or the event callback told that all brokers are down.
Sigterm ==
    /\ runTag
    /\ runTag' = FALSE
    /\ UNCHANGED <<dpVars, loop, offset, broker, sink>>

\* while(runTag) ends.
Stop ==
    /\ stage = "consume"
    /\ ~runTag
    /\ stage' = "stopped"
    /\ UNCHANGED <<dpVars, message, out, offset, runTag, broker, sink>>

\* processors[0]->exec(myMessage): its entry and its further steps.
DeficiencyEnter ==
    /\ stage = "deficiency"
    /\ Exec(message)
    /\ stage' = "exec"
    /\ UNCHANGED <<message, out, offset, runTag, broker, sink>>

DeficiencyStep ==
    /\ stage = "exec"
    /\ ExecStep
    /\ UNCHANGED <<loop, offset, runTag, broker, sink>>

\* The lines run() produces for a result; mutation: res.code is not looked at.
AllLines(r) == r.json
Lines(r) == IF r.code # "OK" THEN r.json ELSE <<>>

\* getResult() of the first processor.
DeficiencyResult ==
    /\ stage = "exec"
    /\ pc = "idle"
    /\ out' = Lines(res)
    /\ stage' = "produce"
    /\ UNCHANGED <<dpVars, message, offset, runTag, broker, sink>>

\* processors[1]->exec(myMessage) and its getResult().
ValidityStep ==
    /\ stage = "produce"
    /\ out = <<>>
    /\ out' = Lines(ValidityExec(message))
    /\ stage' = "report"
    /\ UNCHANGED <<dpVars, message, offset, runTag, broker, sink>>

\* MyProducer::produce: the line is queued, or refused because the client's
\* queue is full; the answer is not looked at.
Produce ==
    /\ stage \in {"produce", "report"}
    /\ out # <<>>
    /\ out' = Tail(out)
    /\ \/ alerts' = OneMore(alerts, Head(out)) /\ UNCHANGED lost
       \/ lost' = OneMore(lost, Head(out)) /\ UNCHANGED alerts
    /\ UNCHANGED <<dpVars, stage, message, offset, runTag, broker>>

\* All processors done: poll(0) and round again.
EndRound ==
    /\ stage = "report"
    /\ out = <<>>
    /\ stage' = "consume"
    /\ message' = NULL
    /\ UNCHANGED <<dpVars, out, offset, runTag, broker, sink>>

\* One step of the event-loop thread.
LoopStep ==
    \/ \E p \in Partition, m \in Message : Consume(p, m)
    \/ ConsumeError
    \/ Stop
    \/ DeficiencyEnter
    \/ DeficiencyStep
    \/ DeficiencyResult
    \/ ValidityStep
    \/ Produce
    \/ EndRound

ELNext == LoopStep \/ Sigterm

ELSpec == ELInit /\ [][ELNext]_elVars

-----------------------------------------------------------------------------
(* Properties.                                                             *)

\* Every variable of the loop and of the consumer has its type.
LoopTypeOK ==
    /\ stage \in {"consume", "deficiency", "exec", "produce", "report", "stopped"}
    /\ message \in Message \cup {NULL}
    /\ out \in Seq(Alert)
    /\ offset \in [Partition -> Seq(Message)]
    /\ runTag \in BOOLEAN
    /\ log \in [Partition -> Seq(Message)]
    /\ position \in [Partition -> Nat]

\* A round takes one message through both processors, and exec runs in no
\* other stage of it and on no other message.
OneMessage ==
    /\ stage \in {"deficiency", "exec", "produce", "report"} => message \in Message
    /\ pc # "idle" => stage = "exec" /\ sf = message

\* m was read from its partition by this process or before it was started.
Consumed(m) == \E i \in 1 .. position[PartitionOf[m]] : log[PartitionOf[m]][i] = m

\* The topic holds a message once, in its partition, and the consumer has not
\* read past its end; what exec is given was read, and no message of this
\* process is given to it twice.
ReadOnce ==
    /\ \A p \in Partition :
          /\ position[p] <= Len(log[p])
          /\ \A i \in 1 .. Len(log[p]) :
                /\ PartitionOf[log[p][i]] = p
                /\ \A j \in 1 .. Len(log[p]) : log[p][i] = log[p][j] => i = j
    /\ \A m \in received : Consumed(m)
    /\ stage = "deficiency" => Consumed(message) /\ message \notin received

\* What the loop relies on between its steps.
LoopInv == DetectorInv /\ LoopTypeOK /\ OneMessage /\ ReadOnce

\* The consumer reads m as the next message of p, perhaps just published.
Reads(p, m) ==
    /\ PartitionOf[m] = p
    /\ log' \in [Partition -> Seq(Message)]
    /\ position' \in [Partition -> Nat]
    /\ position'[p] = position[p] + 1
    /\ \A q \in Partition : q # p => position'[q] = position[q] /\ log'[q] = log[q]
    /\ \A q \in Partition : Len(log[q]) <= Len(log'[q])
    /\ \A q \in Partition : \A i \in 1 .. Len(log[q]) : log'[q][i] = log[q][i]
    /\ \A i \in Len(log[p]) + 1 .. Len(log'[p]) : i = position[p] + 1
    /\ position[p] + 1 <= Len(log'[p])
    /\ log'[p][position[p] + 1] = m
    /\ \A i \in 1 .. Len(log[p]) : log[p][i] = m => i = position[p] + 1

Settled == {"consume", "deficiency", "report", "stopped"}

\* The copies of a line the producer was handed.
Handed(a) == Copies(a, alerts) + Copies(a, lost)

\* Outside exec and produce, every timestamp given up has led to exactly one
\* "miss" line handed to the producer, and no other timestamp has one:
\* res.json is emptied by every call although res.code is not, so no line is
\* produced again with a later message.
MissReportedOnce ==
    stage \in Settled =>
        \A f \in Feedcode :
            \A t \in missed[f] \cup {a.TIMESTAMP : a \in DOMAIN alerts \cup DOMAIN lost} :
                Handed(AlertOf("miss", f, t)) = IF t \in missed[f] THEN 1 ELSE 0

\* Outside exec and produce, every message left held outside the queues, and
\* no other, has led to one "delay" line: what exec never releases it has at
\* least reported, once.
LateReportedOnce ==
    stage \in Settled =>
        \A n \in received \cap Statistics :
            Handed(AlertOf("delay", FC(n), TS(n))) =
                Cardinality({m \in sf_to_m : HeldLate(m) /\ FC(m) = FC(n) /\ TS(m) = TS(n)})

\* Between two rounds, every price feed that fails the validity check has led
\* to one line, and one that passes to none, although exec leaves a line in
\* res.json for both.
InvalidPriceReportedOnce ==
    stage \in {"consume", "stopped"} =>
        \A n \in {m \in received : Feed[m].type = "Price"} :
            Handed(AlertOf("price", Feed[n].FEEDCODE, Feed[n].EXCHANGE_TIMESTAMP)) =
                Cardinality({m \in received :
                    /\ Feed[m].type = "Price"
                    /\ Feed[m].FEEDCODE = Feed[n].FEEDCODE
                    /\ Feed[m].EXCHANGE_TIMESTAMP = Feed[n].EXCHANGE_TIMESTAMP
                    /\ InvalidPrice(Feed[m]) \/ InvalidVolume(Feed[m])})

\* What the processors find is handed to the producer exactly once: missed
\* timestamps, late feeds and invalid prices, and nothing else as such.
ReportedOnce == MissReportedOnce /\ LateReportedOnce /\ InvalidPriceReportedOnce
=============================================================================
