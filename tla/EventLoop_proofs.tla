------------------------- MODULE EventLoop_proofs --------------------------
(***************************************************************************)
(* Proofs about the event loop, for any set of messages, partitions and    *)
(* instruments: what it hands to the gap detector, how what it finds is    *)
(* counted until the producer has it, and what follows when a round ends.  *)
(***************************************************************************)
EXTENDS EventLoop, TLAPS

\* The fields of a statistics feed.
LEMMA FeedFields ==
    ASSUME NEW m \in Statistics
    PROVE  m \in Message /\ FC(m) \in Feedcode /\ TS(m) \in Int
<1>1. m \in Message /\ Feed[m].type = "Statistics"
  BY Zenon DEF Statistics
<1>2. Feed[m] \in StatisticsFeed
  BY <1>1, FeedAssumption, Zenon DEF PriceFeed, NoFeed, StatisticsFeed
<1> QED
  BY <1>1, <1>2, Zenon DEF StatisticsFeed, FC, TS

\* A line is told by what it says, its instrument and its time.
LEMMA AlertOfEq ==
    \A l, f, t, k, g, u : AlertOf(l, f, t) = AlertOf(k, g, u) <=> l = k /\ f = g /\ t = u
BY Zenon DEF AlertOf

LEMMA AlertOfLog == \A l, f, t : AlertOf(l, f, t).LOG = l
BY Zenon DEF AlertOf

\* What the price check leaves for a message, and what the loop produces of it.
LEMMA LinesType ==
    ASSUME NEW m \in Message
    PROVE  /\ Lines(ValidityExec(m)) \in Seq(Alert)
           /\ Feed[m].type = "Price" => Feed[m].FEEDCODE \in Feedcode /\ Feed[m].EXCHANGE_TIMESTAMP \in Int
<1>1. CASE Feed[m].type = "Price"
  <2>1. Feed[m] \in PriceFeed
    BY <1>1, FeedAssumption, Zenon DEF StatisticsFeed, PriceFeed, NoFeed
  <2>2. Feed[m].FEEDCODE \in Feedcode /\ Feed[m].EXCHANGE_TIMESTAMP \in Int
    BY <2>1, Zenon DEF PriceFeed
  <2>3. [LOG |-> "price", FEEDCODE |-> Feed[m].FEEDCODE, TIMESTAMP |-> Feed[m].EXCHANGE_TIMESTAMP] \in Alert
    BY <2>2, Zenon DEF Alert
  <2>4. ValidityExec(m).json \in Seq(Alert)
    BY <1>1, <2>3 DEF ValidityExec
  <2> QED
    BY <2>2, <2>4 DEF Lines
<1>2. CASE Feed[m].type # "Price"
  BY <1>2 DEF ValidityExec, Lines
<1> QED
  BY <1>1, <1>2, Zenon

\* What consume() returns is next in its partition's log.
LEMMA ConsumeReads ==
    ASSUME LoopInv, NEW p \in Partition, NEW m \in Message, Consume(p, m)
    PROVE  Reads(p, m)
<1>0. /\ log \in [Partition -> Seq(Message)] /\ position \in [Partition -> Nat]
      /\ position[p] <= Len(log[p]) /\ Len(log[p]) \in Nat
      /\ \A i \in 1 .. Len(log[p]) : /\ PartitionOf[log[p][i]] = p
                                     /\ \A j \in 1 .. Len(log[p]) : log[p][i] = log[p][j] => i = j
  BY DEF LoopInv, LoopTypeOK, ReadOnce
<1>1. /\ position' = [position EXCEPT ![p] = @ + 1]
      /\ position' \in [Partition -> Nat]
      /\ position'[p] = position[p] + 1
      /\ \A q \in Partition : q # p => position'[q] = position[q]
  BY <1>0 DEF Consume
<1>2. CASE /\ position[p] < Len(log[p])
           /\ m = log[p][position[p] + 1]
           /\ UNCHANGED log
  <2>1. position[p] + 1 \in 1 .. Len(log[p])
    BY <1>0, <1>2
  <2>2. /\ PartitionOf[m] = p
        /\ \A i \in 1 .. Len(log[p]) : log[p][i] = m => i = position[p] + 1
    BY <1>0, <1>2, <2>1, Zenon
  <2>3. /\ log' \in [Partition -> Seq(Message)] /\ position[p] + 1 <= Len(log'[p])
        /\ log'[p][position[p] + 1] = m
        /\ \A q \in Partition : Len(log[q]) <= Len(log'[q])
        /\ \A i \in Len(log[p]) + 1 .. Len(log'[p]) : i = position[p] + 1
    BY <1>0, <1>2
  <2> QED
    BY <1>1, <1>2, <2>2, <2>3, Zenon DEF Reads
<1>3. CASE /\ position[p] = Len(log[p])
           /\ m \in {n \in Message \ Published : PartitionOf[n] = p}
           /\ log' = [log EXCEPT ![p] = Append(@, m)]
  <2>1. /\ log'[p] = Append(log[p], m)
        /\ \A q \in Partition : q # p => log'[q] = log[q]
    BY <1>0, <1>3, Zenon
  <2>2. /\ log'[p] \in Seq(Message)
        /\ Len(log'[p]) = Len(log[p]) + 1
        /\ \A i \in 1 .. Len(log[p]) : log'[p][i] = log[p][i]
        /\ log'[p][Len(log[p]) + 1] = m
    BY <1>0, <2>1
  <2>3. log' \in [Partition -> Seq(Message)]
    BY <1>0, <1>3, <2>1, <2>2, Zenon
  <2>4. \A i \in 1 .. Len(log[p]) : log[p][i] # m
    <3> SUFFICES ASSUME NEW i \in 1 .. Len(log[p]) PROVE log[p][i] \in Published
      BY <1>3, Zenon
    <3>1. i \in DOMAIN log[p]
      BY <1>0
    <3> QED
      BY <3>1 DEF Published
  <2>5. \A q \in Partition : Len(log[q]) \in Nat /\ Len(log[q]) <= Len(log'[q])
    BY <1>0, <2>1, <2>2
  <2>6. \A q \in Partition : \A i \in 1 .. Len(log[q]) : log'[q][i] = log[q][i]
    BY <2>1, <2>2, Zenon
  <2>7. /\ position[p] + 1 <= Len(log'[p])
        /\ log'[p][position[p] + 1] = m
        /\ \A i \in Len(log[p]) + 1 .. Len(log'[p]) : i = position[p] + 1
    BY <1>0, <1>3, <2>2
  <2> QED
    BY <1>1, <1>3, <2>1, <2>3, <2>4, <2>5, <2>6, <2>7, Zenon DEF Reads
<1> QED
  BY <1>2, <1>3, Zenon DEF Consume, Fetch

\* The loop calls exec as the detector expects: once per message, and to the
\* end before it calls it again.
LEMMA LoopRefines ==
    ASSUME LoopInv, [ELNext]_elVars
    PROVE  [DPNext]_dpVars
<1>1. CASE DeficiencyEnter
  BY <1>1, Zenon DEF LoopInv, OneMessage, DeficiencyEnter, DPNext
<1>2. CASE DeficiencyStep
  BY <1>2, Zenon DEF DeficiencyStep, DPNext
<1>3. CASE ~DeficiencyEnter /\ ~DeficiencyStep
  <2>1. UNCHANGED dpVars
    BY <1>3, Zenon DEF ELNext, LoopStep, elVars, Consume, ConsumeError, Sigterm, Stop, DeficiencyResult, ValidityStep,
                Produce, EndRound
  <2> QED
    BY <2>1, Zenon
<1> QED
  BY <1>1, <1>2, <1>3, Zenon

\* The loop starts with nothing read.
LEMMA LoopInit ==
    ASSUME ELInit, DetectorInv
    PROVE  LoopInv
<1>2. LoopTypeOK
  BY DEF ELInit, LoopTypeOK
<1>3. OneMessage /\ ReadOnce
  BY DEF ELInit, DPInit, OneMessage, ReadOnce
<1> QED
  BY <1>2, <1>3, Zenon DEF LoopInv

\* consume() gives the loop a message of its own.
LEMMA LoopConsume ==
    ASSUME LoopInv, NEW p \in Partition, NEW m \in Message, Consume(p, m)
    PROVE  (LoopTypeOK /\ OneMessage /\ ReadOnce)'
<1>0. /\ stage = "consume" /\ stage' = "deficiency" /\ message' = m
      /\ UNCHANGED <<dpVars, out, runTag>>
      /\ offset' = [offset EXCEPT ![p] = Append(@, m)]
  BY Zenon DEF Consume
<1>r. Reads(p, m)
  BY ConsumeReads, Zenon
<1>1. LoopTypeOK'
  <2>1. offset' \in [Partition -> Seq(Message)]
    BY <1>0 DEF LoopInv, LoopTypeOK
  <2>2. log' \in [Partition -> Seq(Message)] /\ position' \in [Partition -> Nat]
    BY <1>r, Zenon DEF Reads
  <2> QED
    BY <1>0, <2>1, <2>2, Zenon DEF LoopInv, LoopTypeOK
<1>2. OneMessage'
  <2>1. pc = "idle"
    BY <1>0, Zenon DEF LoopInv, OneMessage
  <2> QED
    BY <1>0, <2>1, Zenon DEF OneMessage, dpVars, exec
<1>3. ReadOnce'
  <2>0. /\ \A q \in Partition : /\ Len(log[q]) \in Nat /\ Len(log'[q]) \in Nat
                                /\ position[q] \in Nat /\ position[q] <= Len(log[q])
        /\ received \subseteq Message /\ UNCHANGED received
        /\ PartitionOf \in [Message -> Partition]
    <3>1. received \subseteq Message /\ UNCHANGED received
      BY <1>0, Zenon DEF LoopInv, DetectorInv, TypeOK, dpVars, hist
    <3>2. log' \in [Partition -> Seq(Message)]
      BY <1>r, Zenon DEF Reads
    <3>3. log \in [Partition -> Seq(Message)] /\ position \in [Partition -> Nat]
      BY Zenon DEF LoopInv, LoopTypeOK
    <3>4. \A q \in Partition : position[q] <= Len(log[q])
      BY Zenon DEF LoopInv, ReadOnce
    <3>5. \A q \in Partition : Len(log[q]) \in Nat /\ Len(log'[q]) \in Nat /\ position[q] \in Nat
      BY <3>2, <3>3
    <3> QED
      BY <3>1, <3>4, <3>5, PartitionAssumption, Zenon
  <2>1. ASSUME NEW q \in Partition
        PROVE  /\ position'[q] <= Len(log'[q])
               /\ \A i \in 1 .. Len(log'[q]) :
                     /\ PartitionOf[log'[q][i]] = q
                     /\ \A j \in 1 .. Len(log'[q]) : log'[q][i] = log'[q][j] => i = j
    <3>0. /\ position[q] <= Len(log[q])
          /\ \A i \in 1 .. Len(log[q]) :
                /\ PartitionOf[log[q][i]] = q
                /\ \A j \in 1 .. Len(log[q]) : log[q][i] = log[q][j] => i = j
      BY Zenon DEF LoopInv, ReadOnce
    <3>1. CASE q # p
      <4>1. position'[q] = position[q] /\ log'[q] = log[q]
        BY <3>1, <1>r, Zenon DEF Reads
      <4> QED
        BY <3>0, <4>1, Zenon
    <3>2. CASE q = p
      <4>1. /\ PartitionOf[m] = q /\ position'[q] = position[q] + 1
            /\ \A i \in 1 .. Len(log[q]) : log'[q][i] = log[q][i]
            /\ \A i \in Len(log[q]) + 1 .. Len(log'[q]) : i = position[q] + 1
            /\ position[q] + 1 <= Len(log'[q])
            /\ log'[q][position[q] + 1] = m
            /\ \A i \in 1 .. Len(log[q]) : log[q][i] = m => i = position[q] + 1
        BY <3>2, <1>r, Zenon DEF Reads
      <4>2. Len(log[q]) \in Nat /\ Len(log'[q]) \in Nat /\ position[q] \in Nat
        BY <2>0, Zenon
      <4>3. ASSUME NEW i \in 1 .. Len(log'[q])
            PROVE  \/ i \in 1 .. Len(log[q]) /\ log'[q][i] = log[q][i]
                   \/ i = position[q] + 1 /\ log'[q][i] = m
        <5>1. i \in 1 .. Len(log[q]) \/ i \in Len(log[q]) + 1 .. Len(log'[q])
          BY <4>2
        <5> QED
          BY <4>1, <5>1, Zenon
      <4>4. ASSUME NEW i \in 1 .. Len(log'[q])
            PROVE  PartitionOf[log'[q][i]] = q
        BY <3>0, <4>1, <4>3
      <4>5. ASSUME NEW i \in 1 .. Len(log'[q]), NEW j \in 1 .. Len(log'[q]), log'[q][i] = log'[q][j]
            PROVE  i = j
        <5>1. \/ i \in 1 .. Len(log[q]) /\ log'[q][i] = log[q][i]
              \/ i = position[q] + 1 /\ log'[q][i] = m
          BY <4>3, Zenon
        <5>2. \/ j \in 1 .. Len(log[q]) /\ log'[q][j] = log[q][j]
              \/ j = position[q] + 1 /\ log'[q][j] = m
          BY <4>3, Zenon
        <5>3. CASE i \in 1 .. Len(log[q]) /\ j \in 1 .. Len(log[q]) /\ log[q][i] = log[q][j]
          BY <3>0, <5>3
        <5>4. CASE i \in 1 .. Len(log[q]) /\ log[q][i] = m /\ j = position[q] + 1
          BY <4>1, <5>4, Zenon
        <5>5. CASE j \in 1 .. Len(log[q]) /\ log[q][j] = m /\ i = position[q] + 1
          BY <4>1, <5>5, Zenon
        <5> QED
          BY <4>5, <5>1, <5>2, <5>3, <5>4, <5>5, Zenon
      <4> QED
        BY <3>0, <4>1, <4>2, <4>4, <4>5, Zenon
    <3> QED
      BY <3>1, <3>2, Zenon
  <2>2. ASSUME NEW n \in received
        PROVE  Consumed(n)'
    <3>1. PICK i \in 1 .. position[PartitionOf[n]] : log[PartitionOf[n]][i] = n
      BY Zenon DEF LoopInv, ReadOnce, Consumed
    <3>2. PartitionOf[n] \in Partition
      BY <2>0, Zenon
    <3>3. position[PartitionOf[n]] <= position'[PartitionOf[n]] /\ position'[PartitionOf[n]] \in Nat
      <4>1. ASSUME NEW r \in Partition
            PROVE  position[r] <= position'[r] /\ position'[r] \in Nat
        <5>1. position[r] \in Nat
          BY <2>0, Zenon
        <5>2. CASE r = p
          BY <5>1, <5>2, <1>r DEF Reads
        <5>3. CASE r # p
          BY <5>1, <5>3, <1>r DEF Reads
        <5> QED
          BY <5>2, <5>3, Zenon
      <4> QED
        BY <3>2, <4>1, Zenon
    <3>4. i \in 1 .. Len(log[PartitionOf[n]])
      BY <2>0, <3>2
    <3> QED
      <4>1. log'[PartitionOf[n]][i] = n
        BY <3>1, <3>2, <3>4, <1>r, Zenon DEF Reads
      <4>2. i \in 1 .. position'[PartitionOf[n]]
        BY <2>0, <3>2, <3>3
      <4> QED
        BY <4>1, <4>2, Zenon DEF Consumed
  <2>3. m \notin received
    <3> SUFFICES ASSUME m \in received PROVE FALSE
      BY Zenon
    <3>1. PICK i \in 1 .. position[p] : log[p][i] = m
      BY <1>r DEF Reads, LoopInv, ReadOnce, Consumed
    <3>2. i \in 1 .. Len(log[p])
      BY <2>0
    <3> QED
      BY <2>0, <3>1, <3>2, <1>r DEF Reads
  <2>4. Consumed(m)'
    <3>1. PartitionOf[m] = p /\ position'[p] = position[p] + 1 /\ log'[p][position[p] + 1] = m
      BY <1>r, Zenon DEF Reads
    <3>2. position[p] \in Nat
      BY <2>0, Zenon
    <3>3. position[p] + 1 \in 1 .. position'[p]
      BY <3>1, <3>2
    <3> QED
      BY <3>1, <3>3, Zenon DEF Consumed
  <2> QED
    BY <1>0, <2>0, <2>1, <2>2, <2>3, <2>4, Zenon DEF ReadOnce
<1> QED
  BY <1>1, <1>2, <1>3, Zenon

\* Every step of the loop keeps what it relies on.
LEMMA LoopNext ==
    ASSUME LoopInv, [ELNext]_elVars, DetectorInv'
    PROVE  LoopInv'
<1>0. DetectorInv'
  BY Zenon
<1>1. ASSUME NEW p \in Partition, NEW m \in Message, Consume(p, m)
      PROVE  LoopInv'
  BY <1>0, <1>1, LoopConsume, Zenon DEF LoopInv
<1>2. CASE ConsumeError \/ Sigterm \/ Stop \/ UNCHANGED elVars
  <2>1. /\ UNCHANGED <<message, out, offset, log, position, received, pc, sf>>
        /\ UNCHANGED stage \/ stage' = "stopped"
        /\ runTag' \in {runTag, FALSE}
    BY <1>2, Zenon DEF ConsumeError, Sigterm, Stop, elVars, loop, broker, dpVars, exec, hist
  <2>2. \A m : Consumed(m)' <=> Consumed(m)
    BY <2>1, Zenon DEF Consumed
  <2>3. LoopTypeOK'
    BY <2>1, Zenon DEF LoopInv, LoopTypeOK
  <2>4. pc # "idle" => stage = "exec"
    BY Zenon DEF LoopInv, OneMessage
  <2>5. OneMessage'
    BY <1>2, <2>1, <2>4, Zenon DEF LoopInv, OneMessage, ConsumeError, Sigterm, Stop, elVars, loop
  <2> QED
    BY <1>0, <2>1, <2>2, <2>3, <2>5 DEF LoopInv, ReadOnce
<1>3. CASE DeficiencyEnter
  <2>1. /\ stage = "deficiency" /\ stage' = "exec" /\ message' = message /\ message \in Message
        /\ UNCHANGED <<out, offset, runTag, log, position>>
        /\ pc' # "idle" => sf' = message
        /\ received' = received \cup {message}
    BY <1>3, Zenon DEF LoopInv, OneMessage, DeficiencyEnter, Exec, broker
  <2>2. LoopTypeOK' /\ OneMessage'
    BY <2>1, Zenon DEF LoopInv, LoopTypeOK, OneMessage
  <2>3. \A m : Consumed(m)' <=> Consumed(m)
    BY <2>1, Zenon DEF Consumed
  <2> QED
    BY <1>0, <2>1, <2>2, <2>3, Zenon DEF LoopInv, ReadOnce
<1>4. CASE DeficiencyStep
  <2>1. /\ stage = "exec" /\ UNCHANGED <<stage, message, out, offset, runTag, log, position>>
    BY <1>4, Zenon DEF DeficiencyStep, loop, broker
  <2>2. received' = received /\ (pc' # "idle" => sf' = sf) /\ pc # "idle"
    BY <1>4, Zenon DEF DeficiencyStep, ExecStep, Hold, Lookup, GetContext, InitContext, OnTime, Delay, Enqueue, DrainDue,
                DrainOld, DrainEnd, Return, hist
  <2>3. \A m : Consumed(m)' <=> Consumed(m)
    BY <2>1, Zenon DEF Consumed
  <2> QED
    BY <1>0, <2>1, <2>2, <2>3, Zenon DEF LoopInv, LoopTypeOK, OneMessage, ReadOnce
<1>5. CASE DeficiencyResult \/ ValidityStep \/ Produce \/ EndRound
  <2>1. /\ UNCHANGED <<dpVars, offset, runTag, log, position>>
        /\ stage \in {"exec", "produce", "report"} /\ pc = "idle"
        /\ message' = IF stage' = "consume" THEN NULL ELSE message
        /\ stage' \in {"produce", "report", "consume"}
    BY <1>5, Zenon DEF LoopInv, OneMessage, DeficiencyResult, ValidityStep, Produce, EndRound, broker
  <2>2. out' \in Seq(Alert)
    <3>1. Lines(res) \in Seq(Alert)
      BY DEF LoopInv, DetectorInv, TypeOK, Lines
    <3>2. message \in Message
      BY <2>1, Zenon DEF LoopInv, OneMessage
    <3>3. out # <<>> => Tail(out) \in Seq(Alert)
      BY DEF LoopInv, LoopTypeOK
    <3> QED
      BY <1>5, <3>1, <3>2, <3>3, LinesType, Zenon
      DEF LoopInv, LoopTypeOK, DeficiencyResult, ValidityStep, Produce, EndRound
  <2>3. \A m : Consumed(m)' <=> Consumed(m)
    BY <2>1, Zenon DEF Consumed
  <2>4. UNCHANGED <<received, pc, sf>>
    BY <2>1, Zenon DEF dpVars, hist, exec
  <2>5. LoopTypeOK'
    BY <2>1, <2>2, Zenon DEF LoopInv, LoopTypeOK
  <2>6. OneMessage'
    BY <2>1, <2>4, Zenon DEF LoopInv, OneMessage
  <2> QED
    BY <1>0, <2>1, <2>3, <2>4, <2>5, <2>6, Zenon DEF LoopInv, ReadOnce
<1> QED
  BY <1>0, <1>1, <1>2, <1>3, <1>4, <1>5, Zenon DEF ELNext, LoopStep

-----------------------------------------------------------------------------
(* What is handed to the producer.  A call of exec ends with its "miss" or *)
(* "delay" line, so of the lines still to be produced only the last can be *)
(* one of those, or the line of a price.                                   *)

\* Every line is counted.
Counts(lines) == \A a \in DOMAIN lines : lines[a] \in Nat

LEMMA CopiesNat ==
    ASSUME NEW B, Counts(B), NEW a
    PROVE  Copies(a, B) \in Nat
BY Zenon DEF Counts, Copies

LEMMA CopiesAdd ==
    ASSUME NEW B, Counts(B), NEW x
    PROVE  /\ Counts(OneMore(B, x))
           /\ DOMAIN OneMore(B, x) = DOMAIN B \cup {x}
           /\ \A a : Copies(a, OneMore(B, x)) = Copies(a, B) + (IF a = x THEN 1 ELSE 0)
<1>1. \A a : Copies(a, B) \in Nat
  BY CopiesNat, Zenon
<1>2. /\ DOMAIN OneMore(B, x) = DOMAIN B \cup {x}
      /\ \A a \in DOMAIN B \cup {x} : OneMore(B, x)[a] = Copies(a, B) + (IF a = x THEN 1 ELSE 0)
  BY Zenon DEF OneMore
<1>3. Counts(OneMore(B, x))
  BY <1>1, <1>2 DEF Counts
<1>4. ASSUME NEW a PROVE Copies(a, OneMore(B, x)) = Copies(a, B) + (IF a = x THEN 1 ELSE 0)
  <2>1. CASE a \in DOMAIN B \cup {x}
    BY <1>2, <2>1, Zenon DEF Copies
  <2>2. CASE a \notin DOMAIN B \cup {x}
    <3>1. Copies(a, OneMore(B, x)) = 0 /\ Copies(a, B) = 0 /\ a # x
      BY <1>2, <2>2, Zenon DEF Copies
    <3> QED
      BY <3>1
  <2> QED
    BY <2>1, <2>2, Zenon
<1> QED
  BY <1>2, <1>3, <1>4, Zenon

\* What is used about finite sets.
FiniteFacts ==
    /\ IsFiniteSet({}) /\ Cardinality({}) = 0
    /\ \A S : \A T \in SUBSET S : IsFiniteSet(S) => IsFiniteSet(T)
    /\ \A S, x : IsFiniteSet(S) => IsFiniteSet(S \cup {x}) /\ Cardinality(S) \in Nat
    /\ \A S, x : IsFiniteSet(S) /\ x \notin S => Cardinality(S \cup {x}) = Cardinality(S) + 1

\* Whether a is the last of the lines s.
LastIs(s, a) == IF s # <<>> /\ s[Len(s)] = a THEN 1 ELSE 0

Minor == {"turnover", "continuity"}

LEMMA LastAppend ==
    ASSUME NEW s \in Seq(Alert), NEW a \in Alert
    PROVE  \A b : LastIs(Append(s, a), b) = IF a = b THEN 1 ELSE 0
<1>1. /\ Append(s, a) \in Seq(Alert) /\ Len(Append(s, a)) = Len(s) + 1 /\ Len(s) \in Nat
      /\ Append(s, a)[Len(s) + 1] = a
  OBVIOUS
<1>2. Append(s, a) # <<>>
  BY <1>1
<1> QED
  BY <1>1, <1>2, Zenon DEF LastIs

LEMMA LastMinor ==
    ASSUME NEW s \in Seq(Alert), \A i \in 1 .. Len(s) : s[i].LOG \in Minor,
           NEW a, a.LOG \notin Minor
    PROVE  LastIs(s, a) = 0
<1> SUFFICES ASSUME s # <<>> PROVE s[Len(s)] # a
  BY Zenon DEF LastIs
<1>1. Len(s) \in 1 .. Len(s)
  OBVIOUS
<1> QED
  BY <1>1, Zenon

LEMMA LastTail ==
    ASSUME NEW s \in Seq(Alert), s # <<>>
    PROVE  \A a : LastIs(s, a) = IF Len(s) = 1 THEN IF Head(s) = a THEN 1 ELSE 0 ELSE LastIs(Tail(s), a)
<1>1. /\ Tail(s) \in Seq(Alert) /\ Len(Tail(s)) = Len(s) - 1 /\ Head(s) = s[1]
      /\ \A i \in 1 .. Len(s) - 1 : Tail(s)[i] = s[i + 1]
      /\ Len(s) \in Nat /\ Len(s) > 0
  OBVIOUS
<1>2. CASE Len(s) = 1
  BY <1>1, <1>2, Zenon DEF LastIs
<1>3. CASE Len(s) # 1
  <2>1. Tail(s) # <<>> /\ Len(s) - 1 \in 1 .. Len(s) - 1
    <3>1. Len(Tail(s)) # 0 /\ Len(s) - 1 \in 1 .. Len(s) - 1
      BY <1>1, <1>3
    <3>2. Len(<<>>) = 0
      BY Zenon
    <3> QED
      BY <3>1, <3>2, Zenon
  <2>2. Tail(s)[Len(Tail(s))] = s[Len(s)]
    BY <1>1, <2>1
  <2> QED
    BY <1>3, <2>1, <2>2, Zenon DEF LastIs
<1> QED
  BY <1>2, <1>3, Zenon

-----------------------------------------------------------------------------
(* The feeds held as late.                                                 *)

LEMMA LateFacts ==
    ASSUME DetectorInv, NEW m \in Message
    PROVE  /\ m \in sf_to_m => FC(m) \in Feedcode
           /\ pc # "idle" => sf \in Message /\ FC(sf) \in Feedcode
           /\ pc = "live" => sf \notin sf_to_m
           /\ pc \in Undecided => sf \in sf_to_m /\ sf \notin queue[FC(sf)]
           /\ queue \in [Feedcode -> SUBSET Statistics]
           /\ \A f \in Feedcode : context[f] = "none" => queue[f] = {}
           /\ \A f \in Feedcode : \A n \in queue[f] : FC(n) = f
           /\ m # NULL
           /\ pc = "idle" => sf = NULL
BY FeedFields, FeedAssumption, Zenon DEF DetectorInv, TypeOK, Bookkeeping, Statistics

\* Only the late branch of exec makes a feed a late one.
LEMMA LateSame ==
    ASSUME DetectorInv, NEW m \in Message,
           \/ \E n \in Message : Exec(n)
           \/ Hold \/ Lookup \/ GetContext \/ InitContext \/ OnTime \/ Enqueue \/ DrainEnd
           \/ pc = "drain" /\ \E top \in Tops(queue[FC(sf)]) : DrainDue(top) \/ DrainOld(top)
           \/ UNCHANGED dpVars
    PROVE  HeldLate(m)' <=> HeldLate(m)
<1>0. /\ m \in sf_to_m => FC(m) \in Feedcode
      /\ pc # "idle" => sf \in Message /\ FC(sf) \in Feedcode
      /\ pc = "live" => sf \notin sf_to_m
      /\ pc \in Undecided => sf \in sf_to_m /\ sf \notin queue[FC(sf)]
      /\ queue \in [Feedcode -> SUBSET Statistics]
      /\ \A f \in Feedcode : context[f] = "none" => queue[f] = {}
      /\ \A f \in Feedcode : \A n \in queue[f] : FC(n) = f
      /\ m # NULL
      /\ pc = "idle" => sf = NULL
  BY LateFacts, Zenon
<1>1. CASE (\E n \in Message : Exec(n)) \/ UNCHANGED dpVars
  BY <1>0, <1>1, Zenon DEF Exec, ctxs, marks, dpVars, exec, HeldLate, Undecided
<1>2. CASE Hold
  BY <1>0, <1>2, Zenon DEF Hold, ctxs, HeldLate, Undecided
<1>3. CASE GetContext \/ InitContext
  BY <1>0, <1>3, Zenon DEF GetContext, InitContext, ctxs, marks, HeldLate, Undecided
<1>4. CASE Lookup
  BY <1>0, <1>4, Zenon DEF Lookup, Has, Create, marks, HeldLate, Undecided
<1>5. CASE OnTime
  BY <1>0, <1>5, Zenon DEF OnTime, Return, Erase, HeldLate, Undecided
<1>6. CASE Enqueue
  BY <1>0, <1>6, Zenon DEF Enqueue, marks, HeldLate, Undecided
<1>7. ASSUME pc = "drain", NEW top \in Tops(queue[FC(sf)]), DrainDue(top) \/ DrainOld(top)
      PROVE  HeldLate(m)' <=> HeldLate(m)
  <2>1. /\ top \in queue[FC(sf)] /\ FC(top) = FC(sf) /\ FC(sf) \in Feedcode
        /\ sf_to_m' = sf_to_m \ {top} /\ queue' = [queue EXCEPT ![FC(sf)] = @ \ {top}]
        /\ pc' = "drain"
    BY <1>0, <1>7, Zenon DEF DrainDue, DrainOld, Erase, Tops
  <2> QED
    BY <1>0, <1>7, <2>1, SMTT(30) DEF HeldLate, Undecided
<1>8. CASE DrainEnd
  BY <1>0, <1>8, Zenon DEF DrainEnd, Return, marks, HeldLate, Undecided
<1> QED
  BY <1>1, <1>2, <1>3, <1>4, <1>5, <1>6, <1>7, <1>8, Zenon

LEMMA LateDelay ==
    ASSUME DetectorInv, NEW m \in Message, Delay
    PROVE  HeldLate(m)' <=> HeldLate(m) \/ m = sf
<1>0. /\ m # NULL
      /\ pc \in Undecided => sf \in sf_to_m /\ sf \notin queue[FC(sf)]
  BY LateFacts, Zenon
<1> QED
  BY <1>0, Zenon DEF Delay, Return, ctxs, marks, HeldLate, Undecided

\* exec never lets go of a feed it reported as late.
LEMMA LateStays ==
    ASSUME DetectorInv, (\E m \in Message : Exec(m)) \/ ExecStep \/ UNCHANGED dpVars,
           NEW m \in Message, HeldLate(m)
    PROVE  HeldLate(m)'
BY LateSame, LateDelay, Zenon DEF ExecStep

-----------------------------------------------------------------------------
(* The accounts.                                                           *)

\* The copies of a among the lines that will be produced in this round.
Pending(a) == LastIs(out, a) + (IF stage = "exec" THEN LastIs(res.json, a) ELSE 0)

LateAt(f, t) == {m \in Message : HeldLate(m) /\ FC(m) = f /\ TS(m) = t}

InvalidAt(f, t) ==
    {m \in received \ (IF stage \in {"exec", "produce"} THEN {message} ELSE {}) :
        /\ Feed[m].type = "Price" /\ FC(m) = f /\ TS(m) = t
        /\ InvalidPrice(Feed[m]) \/ InvalidVolume(Feed[m])}

\* What the lines of the processors look like at each stage of the round.
Shape ==
    /\ stage \notin {"produce", "report"} => out = <<>>
    /\ \A i \in 1 .. Len(out) : /\ i < Len(out) => out[i].LOG \in Minor
                                /\ stage = "produce" => out[i].LOG # "price"
                                /\ stage = "report" => out[i].LOG = "price"
    /\ stage = "exec" =>
          \A i \in 1 .. Len(res.json) :
             /\ res.json[i].LOG # "price"
             /\ (i < Len(res.json) \/ pc # "idle" \/ res.code = "OK") => res.json[i].LOG \in Minor

\* What was found is what was handed to the producer and what is pending.
Accounts ==
    \A f \in Feedcode : \A t \in Int :
        /\ Handed(AlertOf("miss", f, t)) + Pending(AlertOf("miss", f, t)) = IF t \in missed[f] THEN 1 ELSE 0
        /\ Handed(AlertOf("delay", f, t)) + Pending(AlertOf("delay", f, t)) = Cardinality(LateAt(f, t))
        /\ Handed(AlertOf("price", f, t)) + Pending(AlertOf("price", f, t)) = Cardinality(InvalidAt(f, t))

Sinks ==
    /\ Counts(alerts) /\ Counts(lost)
    /\ DOMAIN alerts \subseteq Alert /\ DOMAIN lost \subseteq Alert
    /\ IsFiniteSet(sf_to_m) /\ IsFiniteSet(received)
    /\ stage \in {"exec", "produce", "report"} => message \in received

\* The inductive invariant behind ReportedOnce.
ReportInv == LoopInv /\ QInv /\ Shape /\ Sinks /\ Accounts

Major == {"miss", "delay", "price"}

LEMMA HandedSum ==
    ASSUME Sinks, NEW a
    PROVE  Handed(a) = Copies(a, alerts) + Copies(a, lost) /\ Handed(a) \in Nat
<1>1. Copies(a, alerts) \in Nat /\ Copies(a, lost) \in Nat
  BY CopiesNat, Zenon DEF Sinks
<1> QED
  BY <1>1 DEF Handed

\* A step that finds nothing, and produces no line it does not take off.
LEMMA AccountsKept ==
    ASSUME Accounts, missed' = missed,
           \A f \in Feedcode, t \in Int : LateAt(f, t)' = LateAt(f, t) /\ InvalidAt(f, t)' = InvalidAt(f, t),
           \A a : a.LOG \in Major => Handed(a)' + Pending(a)' = Handed(a) + Pending(a)
    PROVE  Accounts'
<1> SUFFICES ASSUME NEW f \in Feedcode, NEW t \in Int
             PROVE  /\ Handed(AlertOf("miss", f, t))' + Pending(AlertOf("miss", f, t))' = IF t \in missed'[f] THEN 1 ELSE 0
                    /\ Handed(AlertOf("delay", f, t))' + Pending(AlertOf("delay", f, t))' = Cardinality(LateAt(f, t))'
                    /\ Handed(AlertOf("price", f, t))' + Pending(AlertOf("price", f, t))' = Cardinality(InvalidAt(f, t))'
  BY Zenon DEF Accounts
<1>1. /\ AlertOf("miss", f, t).LOG \in Major /\ AlertOf("delay", f, t).LOG \in Major
      /\ AlertOf("price", f, t).LOG \in Major
  BY AlertOfLog, Zenon DEF Major
<1>2. /\ Handed(AlertOf("miss", f, t)) + Pending(AlertOf("miss", f, t)) = IF t \in missed[f] THEN 1 ELSE 0
      /\ Handed(AlertOf("delay", f, t)) + Pending(AlertOf("delay", f, t)) = Cardinality(LateAt(f, t))
      /\ Handed(AlertOf("price", f, t)) + Pending(AlertOf("price", f, t)) = Cardinality(InvalidAt(f, t))
  BY Zenon DEF Accounts
<1>3. Cardinality(LateAt(f, t))' = Cardinality(LateAt(f, t)) /\ Cardinality(InvalidAt(f, t))' = Cardinality(InvalidAt(f, t))
  BY Zenon
<1> QED
  BY <1>1, <1>2, <1>3, Zenon

\* The steps that leave the processor and the lines alone.
LEMMA ReportQuiet ==
    ASSUME ReportInv, LoopInv', QInv',
           \/ \E p \in Partition, m \in Message : Consume(p, m)
           \/ ConsumeError \/ Sigterm \/ Stop \/ EndRound \/ UNCHANGED elVars
    PROVE  ReportInv'
<1>0. LoopInv' /\ QInv' /\ DetectorInv
  BY Zenon DEF ReportInv, LoopInv
<1>1. /\ UNCHANGED <<dpVars, out, alerts, lost>>
      /\ \/ stage' = stage /\ message' = message
         \/ /\ stage \notin {"exec", "produce"} /\ stage' \notin {"exec", "produce", "report"}
            /\ out = <<>>
  BY Zenon DEF Consume, ConsumeError, Sigterm, Stop, EndRound, elVars, loop, sink, ReportInv, Shape
<1>2. UNCHANGED <<sf_to_m, received, missed, res, pc>>
  BY <1>1, Zenon DEF dpVars, exec, marks, hist
<1>3. Shape'
  BY <1>1, <1>2, Zenon DEF ReportInv, Shape
<1>4. Sinks'
  BY <1>1, <1>2, Zenon DEF ReportInv, Sinks
<1>5. \A a : Handed(a)' = Handed(a) /\ Pending(a)' = Pending(a)
  BY <1>1, <1>2, Zenon DEF Handed, Copies, Pending
<1>6. \A f \in Feedcode, t \in Int : LateAt(f, t)' = LateAt(f, t) /\ InvalidAt(f, t)' = InvalidAt(f, t)
  <2>1. \A m \in Message : HeldLate(m)' <=> HeldLate(m)
    BY <1>0, <1>1, LateSame, Zenon
  <2> QED
    BY <1>1, <1>2, <2>1, Zenon DEF LateAt, InvalidAt
<1>7. Accounts'
  BY <1>2, <1>5, <1>6, AccountsKept, Zenon DEF ReportInv
<1> QED
  BY <1>0, <1>3, <1>4, <1>7, Zenon DEF ReportInv

\* exec is called: its lines of the last call are gone.
LEMMA ReportEnter ==
    ASSUME ReportInv, FiniteFacts, LoopInv', QInv', DeficiencyEnter
    PROVE  ReportInv'
<1>0. LoopInv' /\ QInv' /\ DetectorInv /\ LoopInv
  BY Zenon DEF ReportInv, LoopInv
<1>1. /\ stage = "deficiency" /\ stage' = "exec" /\ message' = message /\ message \in Message
      /\ UNCHANGED <<out, alerts, lost, sf_to_m, missed>>
      /\ received' = received \cup {message} /\ message \notin received
      /\ res'.json = <<>> /\ out = <<>>
      /\ Exec(message)
  BY <1>0, Zenon DEF DeficiencyEnter, Exec, Cleared, sink, marks, LoopInv, OneMessage, ReportInv, Shape, DetectorInv, TypeOK
<1>2. Shape'
  BY <1>1 DEF Shape
<1>3. Sinks'
  BY <1>1, Zenon DEF FiniteFacts, ReportInv, Sinks
<1>4. \A a : Handed(a)' = Handed(a) /\ Pending(a)' = Pending(a)
  BY <1>1, Zenon DEF Handed, Copies, Pending, LastIs
<1>5. \A f \in Feedcode, t \in Int : LateAt(f, t)' = LateAt(f, t) /\ InvalidAt(f, t)' = InvalidAt(f, t)
  <2>1. \A m \in Message : HeldLate(m)' <=> HeldLate(m)
    BY <1>0, <1>1, LateSame, Zenon
  <2> QED
    BY <1>1, <2>1, Zenon DEF LateAt, InvalidAt
<1>6. Accounts'
  BY <1>1, <1>4, <1>5, AccountsKept, Zenon DEF ReportInv
<1> QED
  BY <1>0, <1>2, <1>3, <1>6, Zenon DEF ReportInv

\* The lines of exec are taken over, or dropped because res.code is OK.
LEMMA ReportResult ==
    ASSUME ReportInv, LoopInv', QInv', DeficiencyResult
    PROVE  ReportInv'
<1>0. LoopInv' /\ QInv' /\ DetectorInv /\ LoopInv
  BY Zenon DEF ReportInv, LoopInv
<1>1. /\ stage = "exec" /\ stage' = "produce" /\ message' = message /\ pc = "idle"
      /\ UNCHANGED <<dpVars, alerts, lost, sf_to_m, missed, received, res>>
      /\ out = <<>> /\ out' = IF res.code # "OK" THEN res.json ELSE <<>>
      /\ res.json \in Seq(Alert)
  BY <1>0, Zenon DEF DeficiencyResult, Lines, sink, dpVars, exec, marks, hist, ReportInv, Shape, DetectorInv, TypeOK
<1>2. Shape'
  BY <1>1 DEF ReportInv, Shape
<1>3. Sinks'
  BY <1>1, Zenon DEF ReportInv, Sinks
<1>4. ASSUME NEW a, a.LOG \in Major
      PROVE  Handed(a)' = Handed(a) /\ Pending(a)' = Pending(a)
  <2>1. Handed(a)' = Handed(a) /\ Pending(a) = LastIs(res.json, a) /\ Pending(a)' = LastIs(out', a)
    BY <1>1 DEF Handed, Copies, Pending, LastIs
  <2>2. CASE res.code # "OK"
    BY <1>1, <2>1, <2>2, Zenon
  <2>3. CASE res.code = "OK"
    <3>1. \A i \in 1 .. Len(res.json) : res.json[i].LOG \in Minor
      BY <1>1, <2>3, Zenon DEF ReportInv, Shape
    <3>2. a.LOG \notin Minor
      BY <1>4, Zenon DEF Major, Minor
    <3>3. LastIs(res.json, a) = 0
      BY <1>1, <3>1, <3>2, LastMinor, Zenon
    <3>4. LastIs(out', a) = 0
      BY <1>1, <2>3, Zenon DEF LastIs
    <3> QED
      BY <2>1, <3>3, <3>4, Zenon
  <2> QED
    BY <2>2, <2>3, Zenon
<1>5. \A f \in Feedcode, t \in Int : LateAt(f, t)' = LateAt(f, t) /\ InvalidAt(f, t)' = InvalidAt(f, t)
  <2>1. \A m \in Message : HeldLate(m)' <=> HeldLate(m)
    BY <1>0, <1>1, LateSame, Zenon
  <2> QED
    BY <1>1, <2>1, Zenon DEF LateAt, InvalidAt
<1>6. Accounts'
  BY <1>1, <1>4, <1>5, AccountsKept, Zenon DEF ReportInv
<1> QED
  BY <1>0, <1>2, <1>3, <1>6, Zenon DEF ReportInv


\* The price check: one line for an invalid feed and none for another.
LEMMA ReportValidity ==
    ASSUME ReportInv, FiniteFacts, LoopInv', QInv', ValidityStep
    PROVE  ReportInv'
<1> DEFINE bad == Feed[message].type = "Price" /\ (InvalidPrice(Feed[message]) \/ InvalidVolume(Feed[message]))
           line == AlertOf("price", FC(message), TS(message))
<1>0. LoopInv' /\ QInv' /\ DetectorInv /\ LoopInv
  BY Zenon DEF ReportInv, LoopInv
<1>1. /\ stage = "produce" /\ stage' = "report" /\ message' = message /\ message \in received
      /\ UNCHANGED <<dpVars, alerts, lost, sf_to_m, missed, received, res>>
      /\ out = <<>> /\ out' = Lines(ValidityExec(message))
  BY <1>0, Zenon DEF ValidityStep, sink, dpVars, exec, marks, hist, ReportInv, Sinks
<1>2. out' = IF bad THEN <<line>> ELSE <<>>
  BY <1>1, Zenon DEF Lines, ValidityExec, AlertOf, FC, TS
<1>3. line.LOG = "price"
  BY AlertOfLog, Zenon
<1>4. Shape'
  <2> HIDE DEF bad, line
  <2>1. \A i \in 1 .. Len(out') : i = 1 /\ Len(out') = 1 /\ out'[i] = line
    BY <1>2
  <2> QED
    BY <1>1, <1>3, <2>1 DEF Shape
<1>5. Sinks'
  BY <1>1, Zenon DEF ReportInv, Sinks
<1>6. \A a : /\ Handed(a)' = Handed(a) /\ Handed(a) \in Nat
            /\ Pending(a) = 0 /\ Pending(a)' = IF bad /\ a = line THEN 1 ELSE 0
  <2>1. \A a : Handed(a)' = Handed(a) /\ Handed(a) \in Nat
    BY <1>1, HandedSum, Zenon DEF Handed, Copies, ReportInv
  <2>2. \A a : Pending(a) = 0
    BY <1>1 DEF Pending, LastIs
  <2>3. \A a : LastIs(out', a) = IF bad /\ a = line THEN 1 ELSE 0
    <3> HIDE DEF bad, line
    <3> QED
      BY <1>2, Zenon DEF LastIs
  <2>4. \A a : Pending(a)' = LastIs(out', a)
    BY <1>1, <2>3, SMTT(30) DEF Pending
  <2> QED
    BY <2>1, <2>2, <2>3, <2>4, Zenon
<1>7. Accounts'
  <2> SUFFICES ASSUME NEW f \in Feedcode, NEW t \in Int
               PROVE  /\ Handed(AlertOf("miss", f, t))' + Pending(AlertOf("miss", f, t))' = IF t \in missed'[f] THEN 1 ELSE 0
                      /\ Handed(AlertOf("delay", f, t))' + Pending(AlertOf("delay", f, t))' = Cardinality(LateAt(f, t))'
                      /\ Handed(AlertOf("price", f, t))' + Pending(AlertOf("price", f, t))' = Cardinality(InvalidAt(f, t))'
    BY Zenon DEF Accounts
  <2>1. /\ Handed(AlertOf("miss", f, t)) + Pending(AlertOf("miss", f, t)) = IF t \in missed[f] THEN 1 ELSE 0
        /\ Handed(AlertOf("delay", f, t)) + Pending(AlertOf("delay", f, t)) = Cardinality(LateAt(f, t))
        /\ Handed(AlertOf("price", f, t)) + Pending(AlertOf("price", f, t)) = Cardinality(InvalidAt(f, t))
    BY Zenon DEF ReportInv, Accounts
  <2>2. LateAt(f, t)' = LateAt(f, t)
    <3>1. \A m \in Message : HeldLate(m)' <=> HeldLate(m)
      BY <1>0, <1>1, LateSame, Zenon
    <3> QED
      BY <3>1, Zenon DEF LateAt
  <2>3. AlertOf("miss", f, t) # line /\ AlertOf("delay", f, t) # line
    BY AlertOfEq
  <2>4. AlertOf("price", f, t) = line <=> f = FC(message) /\ t = TS(message)
    BY AlertOfEq
  <2>5. CASE bad /\ f = FC(message) /\ t = TS(message)
    <3>1. InvalidAt(f, t)' = InvalidAt(f, t) \cup {message} /\ message \notin InvalidAt(f, t)
      BY <1>1, <2>5, Zenon DEF InvalidAt
    <3>2. IsFiniteSet(InvalidAt(f, t))
      <4>1. InvalidAt(f, t) \subseteq received
        BY Zenon DEF InvalidAt
      <4> QED
        BY <4>1, Zenon DEF FiniteFacts, ReportInv, Sinks
    <3>3. Cardinality(InvalidAt(f, t))' = Cardinality(InvalidAt(f, t)) + 1
      BY <3>1, <3>2, Zenon DEF FiniteFacts
    <3> HIDE DEF bad, line
    <3> QED
      BY <1>1, <1>6, <2>1, <2>2, <2>3, <2>4, <2>5, <3>3, SMTT(30)
  <2>6. CASE ~(bad /\ f = FC(message) /\ t = TS(message))
    <3>1. InvalidAt(f, t)' = InvalidAt(f, t)
      BY <1>1, <2>6, Zenon DEF InvalidAt
    <3> HIDE DEF bad, line
    <3> QED
      BY <1>1, <1>6, <2>1, <2>2, <2>3, <2>4, <2>6, <3>1, Zenon
  <2> QED
    BY <2>5, <2>6, Zenon
<1> QED
  BY <1>0, <1>4, <1>5, <1>7, Zenon DEF ReportInv

\* A line is handed to the producer, accepted or refused.
LEMMA ReportProduce ==
    ASSUME ReportInv, LoopInv', QInv', Produce
    PROVE  ReportInv'
<1> DEFINE line == Head(out)
<1>0. LoopInv' /\ QInv' /\ DetectorInv /\ LoopInv
  BY Zenon DEF ReportInv, LoopInv
<1>1. /\ stage \in {"produce", "report"} /\ stage' = stage /\ message' = message
      /\ UNCHANGED <<dpVars, sf_to_m, missed, received, res, pc>>
      /\ out # <<>> /\ out' = Tail(out) /\ out \in Seq(Alert)
      /\ \/ alerts' = OneMore(alerts, line) /\ lost' = lost
         \/ lost' = OneMore(lost, line) /\ alerts' = alerts
  BY <1>0, Zenon DEF Produce, dpVars, exec, marks, hist, LoopInv, LoopTypeOK
<1>2. /\ out' \in Seq(Alert) /\ Len(out') = Len(out) - 1 /\ line = out[1] /\ line \in Alert
      /\ \A i \in 1 .. Len(out) - 1 : out'[i] = out[i + 1]
      /\ Len(out) \in Nat /\ Len(out) > 0
  BY <1>1
<1>3. Shape'
  <2>1. ASSUME NEW i \in 1 .. Len(out')
        PROVE  /\ i + 1 \in 1 .. Len(out) /\ out'[i] = out[i + 1]
               /\ i < Len(out') => i + 1 < Len(out)
    BY <1>2
  <2> QED
    BY <1>1, <2>1, Zenon DEF ReportInv, Shape
<1>4. /\ Counts(alerts) /\ Counts(lost) /\ DOMAIN alerts \subseteq Alert /\ DOMAIN lost \subseteq Alert
      /\ \A a : Copies(a, alerts) \in Nat /\ Copies(a, lost) \in Nat
  <2>1. Counts(alerts) /\ Counts(lost) /\ DOMAIN alerts \subseteq Alert /\ DOMAIN lost \subseteq Alert
    BY Zenon DEF ReportInv, Sinks
  <2> QED
    BY <2>1, CopiesNat, Zenon
<1>5. /\ Counts(alerts') /\ Counts(lost') /\ DOMAIN alerts' \subseteq Alert /\ DOMAIN lost' \subseteq Alert
      /\ \A a : Copies(a, alerts') + Copies(a, lost') = Copies(a, alerts) + Copies(a, lost) + (IF a = line THEN 1 ELSE 0)
  <2>1. PICK x : x = line
    BY Zenon
  <2> HIDE DEF line
  <2>2. CASE alerts' = OneMore(alerts, x) /\ lost' = lost
    <3>1. /\ Counts(OneMore(alerts, x)) /\ DOMAIN OneMore(alerts, x) = DOMAIN alerts \cup {x}
          /\ \A a : Copies(a, OneMore(alerts, x)) = Copies(a, alerts) + (IF a = x THEN 1 ELSE 0)
      BY <1>4, CopiesAdd, Zenon
    <3>2. /\ Counts(alerts') /\ DOMAIN alerts' = DOMAIN alerts \cup {x}
          /\ \A a : Copies(a, alerts') = Copies(a, alerts) + (IF a = x THEN 1 ELSE 0)
      BY <2>2, <3>1, Zenon
    <3> QED
      <4>1. ASSUME NEW a
            PROVE  Copies(a, alerts') + Copies(a, lost') = Copies(a, alerts) + Copies(a, lost) + (IF a = line THEN 1 ELSE 0)
        <5>1. /\ Copies(a, alerts') = Copies(a, alerts) + (IF a = line THEN 1 ELSE 0)
              /\ Copies(a, lost') = Copies(a, lost)
          BY <2>1, <2>2, <3>2, Zenon
        <5>2. Copies(a, alerts) \in Nat /\ Copies(a, lost) \in Nat
          BY <1>4, Zenon
        <5> QED
          BY <5>1, <5>2
      <4>2. x \in Alert
        BY <1>2, <2>1, Zenon
      <4>3. Counts(alerts') /\ Counts(lost') /\ DOMAIN alerts' \subseteq Alert /\ DOMAIN lost' \subseteq Alert
        BY <1>4, <2>2, <3>2, <4>2, Zenon
      <4> QED
        BY <4>1, <4>3, Zenon
  <2>3. CASE lost' = OneMore(lost, x) /\ alerts' = alerts
    <3>1. /\ Counts(OneMore(lost, x)) /\ DOMAIN OneMore(lost, x) = DOMAIN lost \cup {x}
          /\ \A a : Copies(a, OneMore(lost, x)) = Copies(a, lost) + (IF a = x THEN 1 ELSE 0)
      BY <1>4, CopiesAdd, Zenon
    <3>2. /\ Counts(lost') /\ DOMAIN lost' = DOMAIN lost \cup {x}
          /\ \A a : Copies(a, lost') = Copies(a, lost) + (IF a = x THEN 1 ELSE 0)
      BY <2>3, <3>1
    <3> QED
      <4>1. ASSUME NEW a
            PROVE  Copies(a, alerts') + Copies(a, lost') = Copies(a, alerts) + Copies(a, lost) + (IF a = line THEN 1 ELSE 0)
        <5>1. /\ Copies(a, lost') = Copies(a, lost) + (IF a = line THEN 1 ELSE 0)
              /\ Copies(a, alerts') = Copies(a, alerts)
          BY <2>1, <2>3, <3>2
        <5>2. Copies(a, alerts) \in Nat /\ Copies(a, lost) \in Nat
          BY <1>4
        <5> QED
          BY <5>1, <5>2
      <4>2. x \in Alert
        BY <1>2, <2>1
      <4>3. Counts(alerts') /\ Counts(lost') /\ DOMAIN alerts' \subseteq Alert /\ DOMAIN lost' \subseteq Alert
        BY <1>4, <2>3, <3>2, <4>2, Zenon
      <4> QED
        BY <4>1, <4>3
  <2> QED
    BY <1>1, <2>1, <2>2, <2>3, Zenon
<1>6. Sinks'
  BY <1>1, <1>5, Zenon DEF ReportInv, Sinks
<1>7. ASSUME NEW a, a.LOG \in Major
      PROVE  Handed(a)' + Pending(a)' = Handed(a) + Pending(a)
  <2>1. Handed(a) = Copies(a, alerts) + Copies(a, lost)
    BY HandedSum, Zenon DEF ReportInv
  <2>2. Handed(a)' = Copies(a, alerts') + Copies(a, lost')
    BY Zenon DEF Handed, Copies
  <2>3. Pending(a) = LastIs(out, a) /\ Pending(a)' = LastIs(out', a)
    BY <1>1, SMTT(30) DEF Pending, LastIs
  <2>4. LastIs(out, a) = (IF a = line THEN 1 ELSE 0) + LastIs(out', a)
    <3>1. CASE Len(out) = 1
      <4>1. out' = <<>>
        BY <1>2, <3>1
      <4> QED
        BY <1>1, <3>1, <4>1, LastTail DEF LastIs
    <3>2. CASE Len(out) # 1
      <4>1. 1 \in 1 .. Len(out) /\ 1 < Len(out)
        BY <1>2, <3>2
      <4>2. line.LOG \in Minor
        BY <1>2, <4>1, Zenon DEF ReportInv, Shape
      <4>3. a # line
        BY <1>7, <4>2, Zenon DEF Major, Minor
      <4>4. LastIs(out, a) = LastIs(out', a) /\ LastIs(out', a) \in Nat
        BY <1>1, <3>2, LastTail, Zenon DEF LastIs
      <4> QED
        BY <4>3, <4>4
    <3> QED
      BY <3>1, <3>2, Zenon
  <2>5. LastIs(out', a) \in Nat
    BY Zenon DEF LastIs
  <2> HIDE DEF line
  <2> QED
    BY <1>4, <1>5, <2>1, <2>2, <2>3, <2>4, <2>5
<1>8. \A f \in Feedcode, t \in Int : LateAt(f, t)' = LateAt(f, t) /\ InvalidAt(f, t)' = InvalidAt(f, t)
  <2>1. \A m \in Message : HeldLate(m)' <=> HeldLate(m)
    BY <1>0, <1>1, LateSame, Zenon
  <2> QED
    BY <1>1, <2>1, Zenon DEF LateAt, InvalidAt
<1>9. Accounts'
  BY <1>1, <1>7, <1>8, AccountsKept, Zenon DEF ReportInv
<1> QED
  BY <1>0, <1>3, <1>6, <1>9, Zenon DEF ReportInv

-----------------------------------------------------------------------------
(* The steps of exec.                                                      *)

LEMMA AppendLine ==
    ASSUME NEW s \in Seq(Alert), NEW a \in Alert, \A i \in 1 .. Len(s) : s[i].LOG \in Minor
    PROVE  \A i \in 1 .. Len(Append(s, a)) :
              \/ i < Len(Append(s, a)) /\ Append(s, a)[i].LOG \in Minor
              \/ i = Len(Append(s, a)) /\ Append(s, a)[i] = a
<1>1. /\ Len(Append(s, a)) = Len(s) + 1 /\ Len(s) \in Nat
      /\ Append(s, a)[Len(s) + 1] = a
      /\ \A i \in 1 .. Len(s) : Append(s, a)[i] = s[i]
  OBVIOUS
<1> QED
  BY <1>1

\* What every step of exec has in common.
LEMMA StepFacts ==
    ASSUME ReportInv, FiniteFacts, LoopInv', QInv', DeficiencyStep
    PROVE  /\ LoopInv' /\ QInv' /\ DetectorInv /\ QInv /\ ExecStep
           /\ stage = "exec" /\ stage' = "exec" /\ out = <<>> /\ out' = <<>>
           /\ sf \in Message /\ FC(sf) \in Feedcode /\ TS(sf) \in Int /\ et \in Int
           /\ res.json \in Seq(Alert) /\ \A i \in 1 .. Len(res.json) : res.json[i].LOG \in Minor
           /\ \A a : Handed(a)' = Handed(a) /\ Handed(a) \in Nat /\ Pending(a)' = LastIs(res'.json, a)
           /\ \A a : a.LOG \in Major => Pending(a) = 0
           /\ \A f \in Feedcode, t \in Int : InvalidAt(f, t)' = InvalidAt(f, t)
           /\ Sinks'
<1>0. LoopInv' /\ QInv' /\ DetectorInv /\ LoopInv /\ QInv
  BY Zenon DEF ReportInv, LoopInv
<1>1. /\ stage = "exec" /\ stage' = "exec" /\ message' = message /\ out = <<>> /\ out' = <<>>
      /\ UNCHANGED <<alerts, lost>> /\ ExecStep
  <2>1. stage = "exec" /\ UNCHANGED <<loop, sink>> /\ ExecStep
    BY Zenon DEF DeficiencyStep
  <2>2. stage' = stage /\ message' = message /\ out' = out /\ UNCHANGED <<alerts, lost>>
    BY <2>1, Zenon DEF loop, sink
  <2>3. out = <<>>
    BY <2>1, Zenon DEF ReportInv, Shape
  <2> QED
    BY <2>1, <2>2, <2>3, Zenon
<1>2. pc # "idle" /\ received' = received /\ sf_to_m' \subseteq sf_to_m \cup {sf}
  BY <1>1, Zenon DEF ExecStep, Hold, Lookup, GetContext, InitContext, OnTime, Delay, Enqueue, DrainDue, DrainOld, DrainEnd, Erase, marks, hist
<1>3. /\ sf \in Statistics /\ sf \in Message /\ FC(sf) \in Feedcode /\ TS(sf) \in Int /\ et \in Int
      /\ res.json \in Seq(Alert)
  <2>1. sf \in Statistics /\ et \in Int /\ res \in [code : {"OK", "WARN"}, json : Seq(Alert)]
    BY <1>0, <1>2, Zenon DEF DetectorInv, TypeOK
  <2> QED
    BY <2>1, FeedFields, Zenon
<1>4. \A i \in 1 .. Len(res.json) : res.json[i].LOG \in Minor
  BY <1>1, <1>2, Zenon DEF ReportInv, Shape
<1>5. \A a : Handed(a)' = Handed(a) /\ Handed(a) \in Nat
  BY <1>1, HandedSum, Zenon DEF Handed, Copies, ReportInv
<1>6. \A a : Pending(a)' = LastIs(res'.json, a) /\ Pending(a) = LastIs(res.json, a)
  BY <1>1 DEF Pending, LastIs
<1>7. \A a : a.LOG \in Major => Pending(a) = 0
  BY <1>3, <1>4, <1>6, LastMinor, Zenon DEF Major, Minor
<1>8. \A f \in Feedcode, t \in Int : InvalidAt(f, t)' = InvalidAt(f, t)
  BY <1>1, <1>2, Zenon DEF InvalidAt
<1>9. Sinks'
  <2>1. IsFiniteSet(sf_to_m \cup {sf})
    BY Zenon DEF FiniteFacts, ReportInv, Sinks
  <2>2. IsFiniteSet(sf_to_m')
    BY <1>2, <2>1, Zenon DEF FiniteFacts
  <2> QED
    BY <1>1, <1>2, <2>2, Zenon DEF ReportInv, Sinks
<1> QED
  BY <1>0, <1>1, <1>3, <1>4, <1>5, <1>6, <1>7, <1>8, <1>9, Zenon

\* A step that finds neither a late feed nor a missed timestamp adds at most
\* a line on the turnover.
LEMMA ReportStepQuiet ==
    ASSUME ReportInv, FiniteFacts, LoopInv', QInv', DeficiencyStep,
           \/ Hold \/ Lookup \/ GetContext \/ InitContext \/ OnTime \/ Enqueue
           \/ pc = "drain" /\ \E top \in Tops(queue[FC(sf)]) : DrainDue(top) \/ DrainOld(top)
           \/ DrainEnd /\ ~Overfull
    PROVE  ReportInv'
<1>0. /\ LoopInv' /\ QInv' /\ DetectorInv /\ Sinks'
      /\ stage = "exec" /\ stage' = "exec" /\ out' = <<>>
      /\ FC(sf) \in Feedcode
      /\ res.json \in Seq(Alert) /\ \A i \in 1 .. Len(res.json) : res.json[i].LOG \in Minor
      /\ \A a : Handed(a)' = Handed(a) /\ Handed(a) \in Nat /\ Pending(a)' = LastIs(res'.json, a)
      /\ \A a : a.LOG \in Major => Pending(a) = 0
      /\ \A f \in Feedcode, t \in Int : InvalidAt(f, t)' = InvalidAt(f, t)
  BY StepFacts, Zenon
<1>1. /\ missed' = missed
      /\ \/ res' = res
         \/ res'.json = Append(res.json, AlertOf("turnover", FC(sf), 0))
         \/ res'.json = Append(res.json, AlertOf("continuity", FC(sf), 0))
  <2>0. res \in [code : {"OK", "WARN"}, json : Seq(Alert)]
    BY <1>0, Zenon DEF DetectorInv, TypeOK
  <2>1. CASE Hold
    BY <2>1, Zenon DEF Hold, Warn, hist
  <2>2. CASE Lookup \/ GetContext \/ InitContext \/ OnTime \/ Enqueue \/ (DrainEnd /\ ~Overfull)
    BY <2>2, Zenon DEF Lookup, GetContext, InitContext, OnTime, Enqueue, DrainEnd, hist
  <2>3. CASE pc = "drain" /\ \E top \in Tops(queue[FC(sf)]) : DrainDue(top) \/ DrainOld(top)
    BY <2>0, <2>3, Zenon DEF DrainDue, DrainOld, Note, hist
  <2> QED
    BY <2>1, <2>2, <2>3, Zenon
<1>2. res'.json \in Seq(Alert) /\ \A i \in 1 .. Len(res'.json) : res'.json[i].LOG \in Minor
  <2>1. ASSUME NEW l \in Minor, res'.json = Append(res.json, AlertOf(l, FC(sf), 0))
        PROVE  res'.json \in Seq(Alert) /\ \A i \in 1 .. Len(res'.json) : res'.json[i].LOG \in Minor
    <3>1. AlertOf(l, FC(sf), 0) \in Alert /\ AlertOf(l, FC(sf), 0).LOG \in Minor
      BY <1>0, SMTT(30) DEF AlertOf, Alert, Minor
    <3>2. Append(res.json, AlertOf(l, FC(sf), 0)) \in Seq(Alert)
      BY <1>0, <3>1
    <3> QED
      BY <1>0, <2>1, <3>1, <3>2, AppendLine, Zenon
  <2>2. "turnover" \in Minor /\ "continuity" \in Minor
    BY Zenon DEF Minor
  <2>3. CASE res' = res
    BY <1>0, <2>3, Zenon
  <2> QED
    BY <1>1, <2>1, <2>2, <2>3, Zenon
<1>3. Shape'
  BY <1>0, <1>2, SMTT(30) DEF Shape, Minor
<1>4. \A a : a.LOG \in Major => Handed(a)' + Pending(a)' = Handed(a) + Pending(a)
  <2>1. \A a : a.LOG \in Major => LastIs(res'.json, a) = 0
    BY <1>2, LastMinor, Zenon DEF Major, Minor
  <2> QED
    BY <1>0, <2>1, Zenon
<1>5. \A f \in Feedcode, t \in Int : LateAt(f, t)' = LateAt(f, t)
  <2>1. \A m \in Message : HeldLate(m)' <=> HeldLate(m)
    BY <1>0, LateSame, Zenon
  <2> QED
    BY <2>1, Zenon DEF LateAt
<1>6. Accounts'
  BY <1>0, <1>1, <1>4, <1>5, AccountsKept, Zenon DEF ReportInv
<1> QED
  BY <1>0, <1>3, <1>6, Zenon DEF ReportInv

\* The lines after a step that ends exec with a line on a feed or a timestamp.
LEMMA FinalLine ==
    ASSUME ReportInv, FiniteFacts, LoopInv', QInv', DeficiencyStep, pc' = "idle",
           NEW l \in {"miss", "delay"}, NEW u \in Int,
           res' = Warn(res, AlertOf(l, FC(sf), u))
    PROVE  /\ Shape'
           /\ \A a : Pending(a)' = IF a = AlertOf(l, FC(sf), u) THEN 1 ELSE 0
<1> DEFINE line == AlertOf(l, FC(sf), u)
<1>0. /\ stage' = "exec" /\ out' = <<>> /\ FC(sf) \in Feedcode
      /\ res.json \in Seq(Alert) /\ \A i \in 1 .. Len(res.json) : res.json[i].LOG \in Minor
      /\ \A a : Pending(a)' = LastIs(res'.json, a)
  BY StepFacts, Zenon
<1>1. res'.json = Append(res.json, line) /\ res'.code = "WARN"
  BY Zenon DEF Warn
<1>2. line \in Alert /\ line.LOG = l
  BY <1>0, Zenon DEF AlertOf, Alert
<1> HIDE DEF line
<1>3. \A i \in 1 .. Len(res'.json) :
         \/ i < Len(res'.json) /\ res'.json[i].LOG \in Minor
         \/ i = Len(res'.json) /\ res'.json[i] = line
  BY <1>0, <1>1, <1>2, AppendLine, SMTT(30)
<1>4. \A i \in 1 .. Len(res'.json) :
         /\ res'.json[i].LOG # "price"
         /\ (i < Len(res'.json) \/ pc' # "idle" \/ res'.code = "OK") => res'.json[i].LOG \in Minor
  <2>1. ASSUME NEW i \in 1 .. Len(res'.json)
        PROVE  /\ res'.json[i].LOG # "price"
               /\ (i < Len(res'.json) \/ pc' # "idle" \/ res'.code = "OK") => res'.json[i].LOG \in Minor
    <3>1. Len(res'.json) \in Nat
      BY <1>0, <1>1, <1>2
    <3> QED
      BY <1>1, <1>2, <1>3, <3>1, SMTT(30) DEF Minor
  <2> QED
    BY <2>1, Zenon
<1>5. Shape'
  BY <1>0, <1>4, SMTT(30) DEF Shape
<1>6. \A a : Pending(a)' = IF a = line THEN 1 ELSE 0
  BY <1>0, <1>1, <1>2, LastAppend, SMTT(30)
<1> QED
  BY <1>5, <1>6, Zenon DEF line

\* A late feed.
LEMMA ReportDelay ==
    ASSUME ReportInv, FiniteFacts, LoopInv', QInv', DeficiencyStep, Delay
    PROVE  ReportInv'
<1> DEFINE line == AlertOf("delay", FC(sf), TS(sf))
<1>0. /\ LoopInv' /\ QInv' /\ DetectorInv /\ Sinks'
      /\ sf \in Message /\ FC(sf) \in Feedcode /\ TS(sf) \in Int
      /\ \A a : Handed(a)' = Handed(a) /\ Handed(a) \in Nat
      /\ \A a : a.LOG \in Major => Pending(a) = 0
      /\ \A f \in Feedcode, t \in Int : InvalidAt(f, t)' = InvalidAt(f, t)
  BY StepFacts, Zenon
<1>1. missed' = missed /\ pc' = "idle" /\ pc = "compare" /\ res' = Warn(res, line)
  BY Zenon DEF Delay, Return, hist
<1>2. Shape' /\ \A a : Pending(a)' = IF a = line THEN 1 ELSE 0
  <2>1. "delay" \in {"miss", "delay"}
    BY Zenon
  <2> QED
    BY <1>0, <1>1, <2>1, FinalLine, Zenon
<1>3. Accounts'
  <2> SUFFICES ASSUME NEW f \in Feedcode, NEW t \in Int
               PROVE  /\ Handed(AlertOf("miss", f, t))' + Pending(AlertOf("miss", f, t))' = IF t \in missed'[f] THEN 1 ELSE 0
                      /\ Handed(AlertOf("delay", f, t))' + Pending(AlertOf("delay", f, t))' = Cardinality(LateAt(f, t))'
                      /\ Handed(AlertOf("price", f, t))' + Pending(AlertOf("price", f, t))' = Cardinality(InvalidAt(f, t))'
    BY Zenon DEF Accounts
  <2>1. /\ Handed(AlertOf("miss", f, t)) + Pending(AlertOf("miss", f, t)) = IF t \in missed[f] THEN 1 ELSE 0
        /\ Handed(AlertOf("delay", f, t)) + Pending(AlertOf("delay", f, t)) = Cardinality(LateAt(f, t))
        /\ Handed(AlertOf("price", f, t)) + Pending(AlertOf("price", f, t)) = Cardinality(InvalidAt(f, t))
    BY Zenon DEF ReportInv, Accounts
  <2>2. /\ Pending(AlertOf("miss", f, t)) = 0 /\ Pending(AlertOf("delay", f, t)) = 0
        /\ Pending(AlertOf("price", f, t)) = 0
    BY <1>0, AlertOfLog DEF Major
  <2>3. AlertOf("miss", f, t) # line /\ AlertOf("price", f, t) # line
    BY AlertOfEq
  <2>4. AlertOf("delay", f, t) = line <=> f = FC(sf) /\ t = TS(sf)
    BY AlertOfEq
  <2>5. Pending(AlertOf("miss", f, t))' = 0 /\ Pending(AlertOf("price", f, t))' = 0
    BY <1>2, <2>3, Zenon
  <2>6. Cardinality(InvalidAt(f, t))' = Cardinality(InvalidAt(f, t))
    BY <1>0, Zenon
  <2>7. \A m \in Message : HeldLate(m)' <=> HeldLate(m) \/ m = sf
    BY <1>0, LateDelay, Zenon
  <2>8. Handed(AlertOf("delay", f, t))' + Pending(AlertOf("delay", f, t))' = Cardinality(LateAt(f, t))'
    <3>1. CASE f = FC(sf) /\ t = TS(sf)
      <4>1. LateAt(f, t)' = LateAt(f, t) \cup {sf}
        BY <1>0, <2>7, <3>1, Zenon DEF LateAt
      <4>2. sf \notin LateAt(f, t)
        BY <1>1, Zenon DEF LateAt, HeldLate, Undecided
      <4>3. IsFiniteSet(LateAt(f, t))
        <5>1. LateAt(f, t) \subseteq sf_to_m
          BY Zenon DEF LateAt, HeldLate
        <5> QED
          BY <5>1, Zenon DEF FiniteFacts, ReportInv, Sinks
      <4>4. Cardinality(LateAt(f, t))' = Cardinality(LateAt(f, t)) + 1
        BY <4>1, <4>2, <4>3, Zenon DEF FiniteFacts
      <4>5. Pending(AlertOf("delay", f, t))' = 1
        BY <1>2, <2>4, <3>1, Zenon
      <4> QED
        BY <1>0, <2>1, <2>2, <4>4, <4>5, SMTT(30)
    <3>2. CASE ~(f = FC(sf) /\ t = TS(sf))
      <4>1. LateAt(f, t)' = LateAt(f, t)
        BY <1>0, <2>7, <3>2, Zenon DEF LateAt
      <4>2. Pending(AlertOf("delay", f, t))' = 0
        BY <1>2, <2>4, <3>2, Zenon
      <4> QED
        BY <1>0, <2>1, <2>2, <4>1, <4>2, Zenon
    <3> QED
      BY <3>1, <3>2, Zenon
  <2> HIDE DEF line
  <2> QED
    BY <1>0, <1>1, <2>1, <2>2, <2>5, <2>6, <2>8, Zenon
<1> QED
  BY <1>0, <1>2, <1>3, Zenon DEF ReportInv

\* A timestamp given up: it is behind no other that was.
LEMMA ReportMiss ==
    ASSUME ReportInv, FiniteFacts, LoopInv', QInv', DeficiencyStep, DrainEnd, Overfull
    PROVE  ReportInv'
<1> DEFINE line == AlertOf("miss", FC(sf), et)
<1>0. /\ LoopInv' /\ QInv' /\ DetectorInv /\ QInv /\ Sinks'
      /\ FC(sf) \in Feedcode /\ et \in Int
      /\ \A a : Handed(a)' = Handed(a) /\ Handed(a) \in Nat
      /\ \A a : a.LOG \in Major => Pending(a) = 0
      /\ \A f \in Feedcode, t \in Int : InvalidAt(f, t)' = InvalidAt(f, t)
  BY StepFacts, Zenon
<1>1. /\ missed' = [missed EXCEPT ![FC(sf)] = @ \cup {et}] /\ pc' = "idle" /\ pc = "drain"
      /\ res' = Warn(res, line)
  BY Zenon DEF DrainEnd, Return
<1>2. Shape' /\ \A a : Pending(a)' = IF a = line THEN 1 ELSE 0
  <2>1. "miss" \in {"miss", "delay"}
    BY Zenon
  <2> QED
    BY <1>0, <1>1, <2>1, FinalLine, Zenon
<1>3. et \notin missed[FC(sf)]
  BY <1>0, <1>1, SMTT(30) DEF QInv, MissedIsPast, Awaited
<1>4. \A f \in Feedcode : missed'[f] = IF f = FC(sf) THEN missed[f] \cup {et} ELSE missed[f]
  BY <1>0, <1>1, Zenon DEF DetectorInv, TypeOK
<1>5. \A f \in Feedcode, t \in Int : LateAt(f, t)' = LateAt(f, t)
  <2>1. \A m \in Message : HeldLate(m)' <=> HeldLate(m)
    BY <1>0, LateSame, Zenon
  <2> QED
    BY <2>1, Zenon DEF LateAt
<1>6. Accounts'
  <2> SUFFICES ASSUME NEW f \in Feedcode, NEW t \in Int
               PROVE  /\ Handed(AlertOf("miss", f, t))' + Pending(AlertOf("miss", f, t))' = IF t \in missed'[f] THEN 1 ELSE 0
                      /\ Handed(AlertOf("delay", f, t))' + Pending(AlertOf("delay", f, t))' = Cardinality(LateAt(f, t))'
                      /\ Handed(AlertOf("price", f, t))' + Pending(AlertOf("price", f, t))' = Cardinality(InvalidAt(f, t))'
    BY Zenon DEF Accounts
  <2>1. /\ Handed(AlertOf("miss", f, t)) + Pending(AlertOf("miss", f, t)) = IF t \in missed[f] THEN 1 ELSE 0
        /\ Handed(AlertOf("delay", f, t)) + Pending(AlertOf("delay", f, t)) = Cardinality(LateAt(f, t))
        /\ Handed(AlertOf("price", f, t)) + Pending(AlertOf("price", f, t)) = Cardinality(InvalidAt(f, t))
    BY Zenon DEF ReportInv, Accounts
  <2>2. /\ Pending(AlertOf("miss", f, t)) = 0 /\ Pending(AlertOf("delay", f, t)) = 0
        /\ Pending(AlertOf("price", f, t)) = 0
    BY <1>0, AlertOfLog DEF Major
  <2>3. AlertOf("delay", f, t) # line /\ AlertOf("price", f, t) # line
    BY AlertOfEq
  <2>4. AlertOf("miss", f, t) = line <=> f = FC(sf) /\ t = et
    BY AlertOfEq
  <2>5. Pending(AlertOf("delay", f, t))' = 0 /\ Pending(AlertOf("price", f, t))' = 0
    BY <1>2, <2>3, Zenon
  <2>6. Pending(AlertOf("miss", f, t))' = IF f = FC(sf) /\ t = et THEN 1 ELSE 0
    BY <1>2, <2>4, Zenon
  <2>7. Cardinality(InvalidAt(f, t))' = Cardinality(InvalidAt(f, t)) /\ Cardinality(LateAt(f, t))' = Cardinality(LateAt(f, t))
    BY <1>0, <1>5, Zenon
  <2> HIDE DEF line
  <2>8. Handed(AlertOf("miss", f, t))' + Pending(AlertOf("miss", f, t))' = IF t \in missed'[f] THEN 1 ELSE 0
    <3>1. t \in missed'[f] <=> t \in missed[f] \/ (f = FC(sf) /\ t = et)
      BY <1>4, Zenon
    <3>2. f = FC(sf) /\ t = et => t \notin missed[f]
      BY <1>3, Zenon
    <3>3. Handed(AlertOf("miss", f, t)) \in Nat /\ Handed(AlertOf("miss", f, t))' = Handed(AlertOf("miss", f, t))
      BY <1>0, Zenon
    <3> QED
      BY <2>1, <2>2, <2>6, <3>1, <3>2, <3>3, SMTT(30)
  <2> QED
    BY <1>0, <2>1, <2>2, <2>5, <2>7, <2>8, Zenon
<1> QED
  BY <1>0, <1>2, <1>6, Zenon DEF ReportInv

LEMMA ReportInit ==
    ASSUME ELInit, LoopInv, QInv, FiniteFacts
    PROVE  ReportInv
<1>1. LoopInv /\ QInv
  BY Zenon
<1>2. /\ stage = "consume" /\ out = <<>> /\ alerts = NoLines /\ lost = NoLines
      /\ sf_to_m = {} /\ received = {} /\ missed = [f \in Feedcode |-> {}]
  BY Zenon DEF ELInit, DPInit
<1>3. Counts(NoLines) /\ DOMAIN NoLines = {}
  BY DEF Counts, NoLines
<1>4. Shape
  BY <1>2 DEF Shape
<1>5. Sinks
  BY <1>2, <1>3, Zenon DEF FiniteFacts, Sinks
<1>6. \A a : Handed(a) = 0 /\ Pending(a) = 0
  <2>1. \A a : Handed(a) = Copies(a, alerts) + Copies(a, lost)
    BY <1>5, HandedSum, Zenon
  <2>2. \A a : Copies(a, alerts) = 0 /\ Copies(a, lost) = 0
    BY <1>2, <1>3, Zenon DEF Copies
  <2> QED
    BY <1>2, <2>1, <2>2, SMTT(30) DEF Pending, LastIs
<1>7. \A f \in Feedcode, t \in Int : LateAt(f, t) = {} /\ InvalidAt(f, t) = {}
  BY <1>2, Zenon DEF LateAt, InvalidAt, HeldLate
<1>8. Accounts
  <2>1. Cardinality({}) = 0
    BY Zenon DEF FiniteFacts
  <2>2. ASSUME NEW f \in Feedcode, NEW t \in Int
        PROVE  /\ t \notin missed[f]
               /\ Cardinality(LateAt(f, t)) = 0 /\ Cardinality(InvalidAt(f, t)) = 0
    BY <1>2, <1>7, <2>1, Zenon
  <2> QED
    BY <1>6, <2>2, SMTT(30) DEF Accounts
<1> QED
  BY <1>1, <1>4, <1>5, <1>8, Zenon DEF ReportInv

LEMMA ReportNext ==
    ASSUME ReportInv, FiniteFacts, LoopInv', QInv', [ELNext]_elVars
    PROVE  ReportInv'
<1>1. CASE DeficiencyStep
  <2>1. ExecStep
    BY <1>1, Zenon DEF DeficiencyStep
  <2> QED
    BY <1>1, <2>1, ReportStepQuiet, ReportDelay, ReportMiss, Zenon DEF ExecStep
<1> QED
  BY <1>1, ReportQuiet, ReportEnter, ReportResult, ReportValidity, ReportProduce, Zenon DEF ELNext, LoopStep

\* Between rounds nothing is pending, so what was handed over is what was found.
LEMMA ReportSettled == ReportInv => ReportedOnce
<1> SUFFICES ASSUME ReportInv PROVE ReportedOnce
  BY Zenon
<1>0. DetectorInv /\ LoopInv
  BY Zenon DEF ReportInv, LoopInv
<1>1. ASSUME stage \in Settled, NEW a, a.LOG \in {"miss", "delay"}
      PROVE  Pending(a) = 0
  <2>1. stage # "exec" /\ stage # "produce"
    BY <1>1, Zenon DEF Settled
  <2>2. LastIs(out, a) = 0
    <3>1. CASE out = <<>>
      BY <3>1, Zenon DEF LastIs
    <3>2. CASE out # <<>>
      <4>1. stage = "report" /\ out \in Seq(Alert)
        BY <1>0, <2>1, <3>2, Zenon DEF ReportInv, Shape, LoopInv, LoopTypeOK
      <4>2. Len(out) \in 1 .. Len(out)
        BY <3>2, <4>1
      <4>3. out[Len(out)].LOG = "price"
        BY <4>1, <4>2, Zenon DEF ReportInv, Shape
      <4> QED
        BY <1>1, <4>3, Zenon DEF LastIs
    <3> QED
      BY <3>1, <3>2, Zenon
  <2> QED
    BY <2>1, <2>2 DEF Pending
<1>2. \A a : Handed(a) \in Nat
  BY HandedSum, Zenon DEF ReportInv
<1>3. MissReportedOnce
  <2> SUFFICES ASSUME stage \in Settled, NEW f \in Feedcode,
                      NEW t \in missed[f] \cup {a.TIMESTAMP : a \in (DOMAIN alerts \cup DOMAIN lost)}
               PROVE  Handed(AlertOf("miss", f, t)) = IF t \in missed[f] THEN 1 ELSE 0
    BY Zenon DEF MissReportedOnce
  <2>1. (DOMAIN alerts \cup DOMAIN lost) \subseteq Alert
    BY Zenon DEF ReportInv, Sinks
  <2>2. \A a \in Alert : a.TIMESTAMP \in Int
    BY Zenon DEF Alert
  <2>3. t \in Int
    BY <1>0, <2>1, <2>2, Zenon DEF DetectorInv, TypeOK
  <2>4. Handed(AlertOf("miss", f, t)) + Pending(AlertOf("miss", f, t)) = IF t \in missed[f] THEN 1 ELSE 0
    BY <2>3, Zenon DEF ReportInv, Accounts
  <2>5. AlertOf("miss", f, t).LOG = "miss"
    BY AlertOfLog, Zenon
  <2> QED
    BY <1>1, <1>2, <2>4, <2>5, SMTT(30)
<1>4. LateReportedOnce
  <2> SUFFICES ASSUME stage \in Settled, NEW n \in received \cap Statistics
               PROVE  Handed(AlertOf("delay", FC(n), TS(n))) =
                        Cardinality({m \in sf_to_m : HeldLate(m) /\ FC(m) = FC(n) /\ TS(m) = TS(n)})
    BY Zenon DEF LateReportedOnce
  <2>1. FC(n) \in Feedcode /\ TS(n) \in Int
    BY FeedFields, Zenon
  <2>2. Handed(AlertOf("delay", FC(n), TS(n))) + Pending(AlertOf("delay", FC(n), TS(n))) = Cardinality(LateAt(FC(n), TS(n)))
    BY <2>1, Zenon DEF ReportInv, Accounts
  <2>3. LateAt(FC(n), TS(n)) = {m \in sf_to_m : HeldLate(m) /\ FC(m) = FC(n) /\ TS(m) = TS(n)}
    <3>1. sf_to_m \subseteq Message
      BY <1>0, Zenon DEF DetectorInv, TypeOK, Statistics
    <3> QED
      BY <3>1, Zenon DEF LateAt, HeldLate
  <2>4. AlertOf("delay", FC(n), TS(n)).LOG = "delay"
    BY AlertOfLog, Zenon
  <2> QED
    BY <1>1, <1>2, <2>2, <2>3, <2>4, SMTT(30)
<1>5. InvalidPriceReportedOnce
  <2> DEFINE Same(n) == {m \in received :
                            /\ Feed[m].type = "Price"
                            /\ Feed[m].FEEDCODE = Feed[n].FEEDCODE
                            /\ Feed[m].EXCHANGE_TIMESTAMP = Feed[n].EXCHANGE_TIMESTAMP
                            /\ InvalidPrice(Feed[m]) \/ InvalidVolume(Feed[m])}
  <2> SUFFICES ASSUME stage \in {"consume", "stopped"}, NEW n \in received, Feed[n].type = "Price"
               PROVE  Handed(AlertOf("price", FC(n), TS(n))) = Cardinality(Same(n))
    BY Zenon DEF InvalidPriceReportedOnce, FC, TS
  <2>1. FC(n) \in Feedcode /\ TS(n) \in Int
    <3>1. n \in Message
      BY <1>0, Zenon DEF DetectorInv, TypeOK
    <3>2. Feed[n] \in StatisticsFeed \cup PriceFeed \cup NoFeed
      BY <3>1, FeedAssumption, Zenon
    <3>3. Feed[n] \in PriceFeed
      BY <3>2, Zenon DEF StatisticsFeed, NoFeed
    <3> QED
      BY <3>3, Zenon DEF PriceFeed, FC, TS
  <2>2. Handed(AlertOf("price", FC(n), TS(n))) + Pending(AlertOf("price", FC(n), TS(n))) = Cardinality(InvalidAt(FC(n), TS(n)))
    BY <2>1, Zenon DEF ReportInv, Accounts
  <2>3. InvalidAt(FC(n), TS(n)) = Same(n)
    BY Zenon DEF InvalidAt, FC, TS
  <2>4. Pending(AlertOf("price", FC(n), TS(n))) = 0
    BY SMTT(30) DEF Pending, LastIs, ReportInv, Shape
  <2> QED
    BY <1>2, <2>2, <2>3, <2>4, SMTT(30)
<1> QED
  BY <1>3, <1>4, <1>5, Zenon DEF ReportedOnce
=============================================================================
