--------------------------- MODULE Monitor_proofs ---------------------------
(***************************************************************************)
(* Lemmas about the monitor, for any set of messages, partitions and       *)
(* instruments and any number of crashes: what the two threads do to each  *)
(* other.  A step of the loop is taken to keep LoopInv, and any other step *)
(* to keep DetectorInv: System_proofs shows that they do.                  *)
(***************************************************************************)
EXTENDS Monitor, TLAPS

-----------------------------------------------------------------------------
(* Sequences and the positions in them.                                    *)

\* A queue is the part of a log after its first a entries exactly when it
\* agrees with it entry by entry.
LEMMA TailOfLog ==
    ASSUME NEW s \in Seq(Message), NEW q \in Seq(Message), NEW a \in Nat, a + Len(q) <= Len(s)
    PROVE  q = SubSeq(s, a + 1, a + Len(q)) <=> \A i \in 1 .. Len(q) : q[i] = s[a + i]
<1>1. Len(q) \in Nat /\ Len(s) \in Nat /\ a + 1 \in 1 .. Len(s) + 1 /\ a + Len(q) \in 0 .. Len(s)
  OBVIOUS
<1>2. /\ SubSeq(s, a + 1, a + Len(q)) \in Seq(Message)
      /\ Len(SubSeq(s, a + 1, a + Len(q))) = Len(q)
      /\ \A i \in 1 .. Len(q) : SubSeq(s, a + 1, a + Len(q))[i] = s[a + i]
  BY <1>1
<1> QED
  BY <1>2

\* The same, read backwards from the position after the queue's last entry.
LEMMA EndOfLog ==
    ASSUME NEW s \in Seq(Message), NEW q \in Seq(Message), NEW n \in Nat, n <= Len(s), Len(q) <= n,
           \A i \in 1 .. Len(q) : q[i] = s[n - Len(q) + i]
    PROVE  q = SubSeq(s, n - Len(q) + 1, n)
<1> DEFINE a == n - Len(q)
<1>1. Len(q) \in Nat /\ a \in Nat /\ a + Len(q) = n
  OBVIOUS
<1>2. \A i \in 1 .. Len(q) : q[i] = s[a + i]
  BY Zenon
<1> HIDE DEF a
<1>3. q = SubSeq(s, a + 1, a + Len(q))
  BY <1>1, <1>2, TailOfLog, Zenon
<1>4. q = SubSeq(s, a + 1, n)
  BY <1>1, <1>3, Zenon
<1> QED
  BY <1>4, Zenon DEF a

\* A message that a log holds once is at the offset OffsetAfter finds.
LEMMA OneIndex ==
    ASSUME NEW s \in Seq(Message), NEW m, NEW i \in 1 .. Len(s), s[i] = m,
           \A j \in 1 .. Len(s) : s[j] = m => j = i
    PROVE  (CHOOSE j \in DOMAIN s : s[j] = m) = i
<1>1. DOMAIN s = 1 .. Len(s)
  OBVIOUS
<1>2. i \in DOMAIN s /\ \A j \in DOMAIN s : s[j] = m => j = i
  BY <1>1, Zenon
<1> QED
  BY <1>2, Zenon

-----------------------------------------------------------------------------
(* What the inductive invariant says of a partition.                       *)

\* The numbers and sequences it speaks of.
LEMMA Numbers ==
    ASSUME MonitorInv, NEW p \in Partition
    PROVE  /\ log[p] \in Seq(Message) /\ offset[p] \in Seq(Message)
           /\ Len(log[p]) \in Nat /\ Len(offset[p]) \in Nat
           /\ position[p] \in Nat /\ position[p] <= Len(log[p])
           /\ committed[p] \in Nat /\ committed[p] <= Popped(p)
           /\ Popped(p) \in Nat /\ position[p] = Popped(p) + Len(offset[p])
           /\ (cur = NULL \/ PartitionOf[cur] # p) => committed[p] = Popped(p)
BY DEF MonitorInv, MonitorTypeOK, LoopTypeOK, ReadOnce, CommitFollowsQueue, Popped

\* The queue is what was consumed and not taken, in the order of the log.
LEMMA Queue ==
    ASSUME MonitorInv, NEW p \in Partition
    PROVE  \A i \in 1 .. Len(offset[p]) : offset[p][i] = log[p][Popped(p) + i]
<1>1. offset[p] = SubSeq(log[p], Popped(p) + 1, Popped(p) + Len(offset[p]))
  <2>1. offset[p] = SubSeq(log[p], Popped(p) + 1, position[p])
    BY Zenon DEF MonitorInv, CommitFollowsQueue, Popped
  <2>2. position[p] = Popped(p) + Len(offset[p])
    BY Numbers, Zenon
  <2> QED
    BY <2>1, <2>2, Zenon
<1> DEFINE a == Popped(p)
<1>2. /\ log[p] \in Seq(Message) /\ offset[p] \in Seq(Message) /\ a \in Nat
      /\ a + Len(offset[p]) <= Len(log[p])
  BY Numbers, Zenon
<1>3. offset[p] = SubSeq(log[p], a + 1, a + Len(offset[p]))
  BY <1>1, Zenon
<1> HIDE DEF a
<1>4. \A i \in 1 .. Len(offset[p]) : offset[p][i] = log[p][a + i]
  BY <1>2, <1>3, TailOfLog, Zenon
<1> QED
  BY <1>4, Zenon DEF a

\* A message of the log is in its partition and nowhere else in it.
LEMMA Placed ==
    ASSUME MonitorInv, NEW p \in Partition, NEW i \in 1 .. Len(log[p])
    PROVE  /\ log[p][i] \in Message /\ log[p][i] # NULL
           /\ PartitionOf[log[p][i]] = p
           /\ \A j \in 1 .. Len(log[p]) : log[p][i] = log[p][j] => i = j
BY Numbers, FeedAssumption DEF MonitorInv, ReadOnce

\* What is queued is what waits.
LEMMA InQueueWaits ==
    ASSUME MonitorInv, NEW p \in Partition, NEW m
    PROVE  m \in InQueue(p) <=> \E i \in Popped(p) + 1 .. position[p] : log[p][i] = m
<1>0. /\ DOMAIN offset[p] = 1 .. Len(offset[p])
      /\ Len(offset[p]) \in Nat /\ Popped(p) \in Nat /\ position[p] = Popped(p) + Len(offset[p])
      /\ \A i \in 1 .. Len(offset[p]) : offset[p][i] = log[p][Popped(p) + i]
  BY Numbers, Queue
<1>1. ASSUME NEW i \in Popped(p) + 1 .. position[p], log[p][i] = m
      PROVE  m \in InQueue(p)
  <2>1. i - Popped(p) \in 1 .. Len(offset[p]) /\ offset[p][i - Popped(p)] = m
    BY <1>0, <1>1
  <2> QED
    BY <1>0, <2>1, Zenon DEF InQueue
<1>2. ASSUME m \in InQueue(p)
      PROVE  \E i \in Popped(p) + 1 .. position[p] : log[p][i] = m
  <2>1. PICK i \in 1 .. Len(offset[p]) : offset[p][i] = m
    BY <1>0, <1>2, Zenon DEF InQueue
  <2>2. Popped(p) + i \in Popped(p) + 1 .. position[p] /\ log[p][Popped(p) + i] = m
    BY <1>0, <2>1
  <2> QED
    BY <2>2, Zenon
<1> QED
  BY <1>1, <1>2, Zenon

\* The offset of a message is its place in the log.
LEMMA Offset ==
    ASSUME MonitorInv, NEW p \in Partition, NEW i \in 1 .. Len(log[p])
    PROVE  OffsetAfter(log[p][i]) = i
<1> DEFINE m == log[p][i]
<1>1. PartitionOf[m] = p /\ log[p] \in Seq(Message) /\ \A j \in 1 .. Len(log[p]) : log[p][j] = m => j = i
  BY Placed, Numbers, Zenon
<1>2. (CHOOSE j \in DOMAIN log[p] : log[p][j] = m) = i
  <2> HIDE DEF m
  <2>1. log[p][i] = m
    BY Zenon DEF m
  <2> QED
    BY <1>1, <2>1, OneIndex
<1> QED
  BY <1>1, <1>2, Zenon DEF OffsetAfter

\* A message that waits is not committed.
LEMMA WaitsUncommitted ==
    ASSUME MonitorInv, NEW m \in Message, Waits(m)
    PROVE  m \in InQueue(PartitionOf[m]) /\ committed[PartitionOf[m]] < OffsetAfter(m)
<1> DEFINE p == PartitionOf[m]
<1>0. p \in Partition
  BY PartitionAssumption, Zenon
<1>1. PICK i \in Popped(p) + 1 .. position[p] : log[p][i] = m
  BY Zenon DEF Waits
<1>2. i \in 1 .. Len(log[p]) /\ i \in Nat /\ committed[p] \in Nat /\ committed[p] < i
  BY <1>0, Numbers
<1>3. OffsetAfter(m) = i
  BY <1>0, <1>1, <1>2, Offset, Zenon
<1> QED
  BY <1>0, <1>1, <1>2, <1>3, InQueueWaits, Zenon

\* The offset of a message the processor holds is not committed.
LEMMA InvHeld == MonitorInv => HeldIsUncommitted
<1> SUFFICES ASSUME MonitorInv, NEW m \in sf_to_m \ unguarded
             PROVE  m \in InQueue(PartitionOf[m]) /\ committed[PartitionOf[m]] < OffsetAfter(m)
  BY Zenon DEF HeldIsUncommitted
<1>1. m \in Message /\ Waits(m)
  BY Zenon DEF MonitorInv, DetectorInv, TypeOK, Statistics, HeldWaits
<1> QED
  BY <1>1, WaitsUncommitted, Zenon

\* What store_offset still owns has not been deleted.
LEMMA InvDelete == MonitorInv => NoDoubleDelete
<1> SUFFICES ASSUME MonitorInv PROVE NoDoubleDelete
  BY Zenon
<1>1. cur \notin deleted
  BY Zenon DEF MonitorInv, StoreOwns
<1>2. ASSUME NEW p \in Partition, NEW m \in InQueue(p), m \in deleted \cup {cur} PROVE FALSE
  <2>1. PICK i \in Popped(p) + 1 .. position[p] : log[p][i] = m
    BY <1>2, InQueueWaits, Zenon
  <2>2. i \in 1 .. Len(log[p]) /\ i > Popped(p)
    BY Numbers
  <2>3. PartitionOf[m] = p /\ m # NULL /\ \A j \in 1 .. Len(log[p]) : log[p][j] = m => i = j
    BY <2>1, <2>2, Placed, Zenon
  <2>4. \E j \in 1 .. Popped(p) : log[p][j] = m
    <3>1. CASE m \in deleted
      BY <2>3, <3>1, Zenon DEF MonitorInv, StoreOwns, Taken
    <3>2. CASE m = cur
      <4>1. Popped(p) > 0 /\ log[p][Popped(p)] = m
        BY <2>3, <3>2, Zenon DEF MonitorInv, StoreOwns
      <4> QED
        BY <4>1, Numbers
    <3> QED
      BY <1>2, <3>1, <3>2, Zenon
  <2> QED
    BY <2>2, <2>3, <2>4, Numbers
<1> QED
  BY <1>1, <1>2, Zenon DEF NoDoubleDelete

-----------------------------------------------------------------------------
(* The event-loop thread.                                                  *)

\* The fields of the feed exec works on.
LEMMA SfFields ==
    ASSUME DetectorInv
    PROVE  pc # "idle" => FC(sf) \in Feedcode /\ TS(sf) \in Int
<1> SUFFICES ASSUME pc # "idle" PROVE FC(sf) \in Feedcode /\ TS(sf) \in Int
  BY Zenon
<1>1. sf \in Message /\ Feed[sf].type = "Statistics"
  BY Zenon DEF DetectorInv, TypeOK, Statistics
<1>2. Feed[sf] \in StatisticsFeed
  BY <1>1, FeedAssumption, Zenon DEF PriceFeed, NoFeed, StatisticsFeed
<1> QED
  BY <1>2, Zenon DEF StatisticsFeed, FC, TS

\* exec only moves a context's expected timestamp forward, and never past
\* the one it waits for.
LEMMA ExpectNext ==
    ASSUME DetectorInv, ExpectReached,
           (\E m \in Message : Exec(m)) \/ ExecStep \/ UNCHANGED dpVars
    PROVE  /\ ExpectReached'
           /\ \A f \in Feedcode :
                 context[f] = "ready" => /\ context'[f] = "ready" /\ base'[f] = base[f]
                                         /\ Awaited(f) <= Awaited(f)'
<1> DEFINE Goal(f) ==
             /\ context'[f] = "ready" => base'[f] <= expectTimestamp'[f] /\ expectTimestamp'[f] <= Awaited(f)'
             /\ context[f] = "ready" => /\ context'[f] = "ready" /\ base'[f] = base[f]
                                         /\ Awaited(f) <= Awaited(f)'
<1> SUFFICES ASSUME NEW f \in Feedcode PROVE Goal(f)
  BY Zenon DEF ExpectReached
<1>0. /\ expectTimestamp \in [Feedcode -> Int] /\ base \in [Feedcode -> Int] /\ et \in Int
      /\ context \in [Feedcode -> {"none", "new", "ready"}]
      /\ INTERVAL \in Nat
      /\ pc # "idle" => FC(sf) \in Feedcode /\ TS(sf) \in Int
      /\ context[f] = "ready" => base[f] <= expectTimestamp[f] /\ expectTimestamp[f] <= Awaited(f)
      /\ pc = "init" => context[FC(sf)] = "new"
  BY SfFields, IntervalAssumption, Zenon DEF DetectorInv, TypeOK, Bookkeeping, ExpectReached
<1>1. CASE (\E m \in Message : Exec(m)) \/ Hold \/ GetContext \/ Delay \/ UNCHANGED dpVars
  <2>1. /\ UNCHANGED <<context, base, expectTimestamp>>
        /\ UNCHANGED Awaited(f)
    BY <1>1, Zenon DEF Exec, Hold, GetContext, Delay, Return, ctxs, hist, dpVars, exec, Awaited
  <2> QED
    BY <1>0, <2>1 DEF Awaited
<1>2. CASE Lookup
  BY <1>0, <1>2, Zenon DEF Lookup, Has, Create, hist, Awaited
<1>3. CASE InitContext
  BY <1>0, <1>3 DEF InitContext, SetExpectTimestamp, Awaited
<1>4. CASE OnTime
  BY <1>0, <1>4 DEF OnTime, SetExpectTimestamp, Return, hist, Awaited
<1>5. CASE Enqueue
  BY <1>0, <1>5, Zenon DEF Enqueue, hist, Awaited
<1>6. ASSUME NEW top \in Tops(queue[FC(sf)]), DrainDue(top) \/ DrainOld(top)
      PROVE  Goal(f)
  BY <1>0, <1>6, SMTT(30) DEF DrainDue, DrainOld, hist, Awaited
<1>7. CASE DrainEnd
  BY <1>0, <1>7 DEF DrainEnd, SetExpectTimestamp, Return, Awaited
<1> QED
  BY <1>1, <1>2, <1>3, <1>4, <1>5, <1>6, <1>7, Zenon DEF ExecStep

\* What of the invariant a step keeps that touches neither the topic nor the
\* offset queues.
LEMMA SameQueues ==
    ASSUME UNCHANGED <<offset, log, position>>
    PROVE  /\ \A p : UNCHANGED Popped(p)
           /\ \A m : (Waits(m)' <=> Waits(m)) /\ (Taken(m)' <=> Taken(m))
BY Zenon DEF Popped, Waits, Taken

\* A step of the loop is a step of exec, or leaves the processor alone.
LEMMA LoopIsExec ==
    ASSUME LoopInv, LoopStep \/ UNCHANGED elVars
    PROVE  (\E m \in Message : Exec(m)) \/ ExecStep \/ UNCHANGED dpVars
<1>1. CASE DeficiencyEnter
  BY <1>1, Zenon DEF LoopInv, OneMessage, DeficiencyEnter
<1>2. CASE DeficiencyStep
  BY <1>2, Zenon DEF DeficiencyStep
<1>3. CASE ~DeficiencyEnter /\ ~DeficiencyStep
  BY <1>3, Zenon DEF LoopStep, elVars, Consume, ConsumeError, Stop, DeficiencyResult, ValidityStep, Produce, EndRound
<1> QED
  BY <1>1, <1>2, <1>3, Zenon

\* The loop's part of the invariant.
LEMMA InvLoop == MonitorInv => LoopInv
BY Zenon DEF MonitorInv, MonitorTypeOK, LoopInv

\* The backup is not ahead after a step of the loop either.
LEMMA LoopBackup ==
    ASSUME MonitorInv, LoopInv', LoopStep \/ UNCHANGED elVars, UNCHANGED bkVars
    PROVE  ExpectReached' /\ BackupNotAhead'
<1>1. (\E m \in Message : Exec(m)) \/ ExecStep \/ UNCHANGED dpVars
  BY InvLoop, LoopIsExec, Zenon
<1>2. DetectorInv /\ DetectorInv' /\ ExpectReached
  BY Zenon DEF MonitorInv, LoopInv
<1>3. /\ ExpectReached'
      /\ \A f \in Feedcode :
            context[f] = "ready" => /\ context'[f] = "ready" /\ base'[f] = base[f]
                                    /\ Awaited(f) <= Awaited(f)'
  BY <1>1, <1>2, ExpectNext, Zenon
<1>4. \A f \in Feedcode : Awaited(f) \in Int /\ Awaited(f)' \in Int /\ metaData[f] \in Int \cup {NULL}
  BY <1>2, Zenon DEF DetectorInv, TypeOK, Awaited, MonitorInv, MonitorTypeOK
<1>5. metaData' = metaData
  BY Zenon DEF bkVars, backuper
<1> QED
  BY <1>3, <1>4, <1>5 DEF MonitorInv, BackupNotAhead

\* A step of the loop other than consume().
LEMMA StepLoopOther ==
    ASSUME MonitorInv, LoopInv', LoopStep \/ Sigterm \/ UNCHANGED elVars, UNCHANGED bkVars,
           \A p \in Partition, m \in Message : ~Consume(p, m)
    PROVE  MonitorInv'
<1>1. LoopInv /\ LoopInv'
  BY InvLoop, Zenon
<1>2. UNCHANGED <<offset, log, position>>
  BY Zenon DEF LoopStep, ConsumeError, Sigterm, Stop, DeficiencyEnter, DeficiencyStep, DeficiencyResult, ValidityStep,
         Produce, EndRound, broker, elVars
<1>3. UNCHANGED <<bpc, toRead, metaData, toStore, cur, backup, deleted, committed, crashes, unguarded>>
  BY Zenon DEF bkVars, backuper, ghosts
<1>4. MonitorTypeOK' /\ CommitFollowsQueue'
  BY <1>1, <1>2, <1>3, Zenon DEF MonitorInv, LoopInv, MonitorTypeOK, CommitFollowsQueue
<1>5. StoreOwns'
  BY <1>2, <1>3, SameQueues, Zenon DEF MonitorInv, StoreOwns, Storing
<1>6. HeldWaits'
  <2>1. (stage' = "deficiency" \/ pc' = "live") =>
           message' = message /\ (stage = "deficiency" \/ pc = "live")
    <3>1. CASE DeficiencyEnter
      BY <3>1, Zenon DEF DeficiencyEnter
    <3>2. CASE DeficiencyStep
      BY <3>2, Zenon DEF DeficiencyStep, ExecStep, Hold, Lookup, GetContext, InitContext, OnTime, Delay, Enqueue, DrainDue,
                  DrainOld, DrainEnd, Return, loop
    <3>3. CASE ~DeficiencyEnter /\ ~DeficiencyStep
      BY <1>1, <3>3, Zenon DEF LoopInv, OneMessage, LoopStep, ConsumeError, Sigterm, Stop, DeficiencyResult, ValidityStep,
                        Produce, EndRound, elVars, loop, dpVars, exec
    <3> QED
      BY <3>1, <3>2, <3>3, Zenon
  <2>2. \A m \in sf_to_m' : m \in sf_to_m \/ (pc = "live" /\ m = message)
    <3>1. CASE DeficiencyEnter
      BY <3>1, Zenon DEF DeficiencyEnter, Exec, marks
    <3>2. CASE DeficiencyStep
      <4>1. CASE Hold
        BY <1>1, <4>1, Zenon DEF LoopInv, OneMessage, Hold
      <4>2. CASE ~Hold
        BY <3>2, <4>2, Zenon DEF DeficiencyStep, ExecStep, Lookup, GetContext, InitContext, OnTime, Delay, Enqueue, DrainDue,
                          DrainOld, DrainEnd, Erase, marks
      <4> QED
        BY <4>1, <4>2, Zenon
    <3>3. CASE ~DeficiencyEnter /\ ~DeficiencyStep
      BY <3>3, Zenon DEF LoopStep, ConsumeError, Sigterm, Stop, DeficiencyResult, ValidityStep, Produce, EndRound,
                  elVars, dpVars, marks
    <3> QED
      BY <3>1, <3>2, <3>3, Zenon
  <2> QED
    BY <1>2, <1>3, <2>1, <2>2, SameQueues, Zenon DEF MonitorInv, HeldWaits
<1>7. ExpectReached' /\ BackupNotAhead'
  <2>1. CASE LoopStep \/ UNCHANGED elVars
    BY <2>1, LoopBackup, Zenon
  <2>2. CASE Sigterm
    BY <1>3, <2>2, Zenon DEF MonitorInv, Sigterm, dpVars, exec, ctxs, hist, ExpectReached, BackupNotAhead, Awaited
  <2> QED
    BY <2>1, <2>2, Zenon
<1> QED
  BY <1>1, <1>4, <1>5, <1>6, <1>7, Zenon DEF LoopInv, MonitorInv

\* consume() adds a message to the end of its partition's queue.
LEMMA StepConsume ==
    ASSUME MonitorInv, LoopInv', NEW p \in Partition, NEW m \in Message, Consume(p, m), Reads(p, m),
           UNCHANGED bkVars
    PROVE  MonitorInv' /\ \A n \in sf_to_m : Waits(n) => Waits(n)'
<1>0. LoopInv /\ LoopInv' /\ LoopStep
  <2>1. LoopStep
    BY Zenon DEF LoopStep
  <2> QED
    BY <2>1, InvLoop, Zenon
<1>r. Reads(p, m)
  BY Zenon
<1>1. UNCHANGED <<bpc, toRead, metaData, toStore, cur, backup, deleted, committed, crashes, unguarded>>
  BY Zenon DEF bkVars, backuper, ghosts
<1>2. UNCHANGED dpVars /\ message' = m /\ offset' = [offset EXCEPT ![p] = Append(@, m)]
  BY Zenon DEF Consume
<1>3. ASSUME NEW q \in Partition
      PROVE  /\ Popped(q)' = Popped(q) /\ Popped(q)' \in Nat
             /\ position[q] <= position'[q] /\ position'[q] \in Nat
             /\ Len(offset'[q]) <= position'[q]
             /\ offset'[q] = SubSeq(log'[q], position'[q] - Len(offset'[q]) + 1, position'[q])
  <2>0. /\ log[q] \in Seq(Message) /\ offset[q] \in Seq(Message) /\ log'[q] \in Seq(Message)
        /\ Len(offset[q]) \in Nat /\ Len(log'[q]) \in Nat
        /\ position[q] \in Nat /\ position'[q] \in Nat /\ position'[q] <= Len(log'[q])
        /\ Popped(q) \in Nat /\ position[q] = Popped(q) + Len(offset[q])
        /\ position[q] <= Len(log[q]) /\ Len(log[q]) \in Nat
    BY <1>0, Numbers, SMTT(30) DEF LoopInv, LoopTypeOK, ReadOnce
  <2>1. CASE q # p
    <3>1. UNCHANGED <<offset[q], log[q], position[q]>>
      BY <1>2, <1>r, <2>1, Zenon DEF Reads, MonitorInv, MonitorTypeOK, LoopTypeOK
    <3>2. /\ Len(offset[q]) <= position[q]
          /\ offset[q] = SubSeq(log[q], position[q] - Len(offset[q]) + 1, position[q])
      BY Zenon DEF MonitorInv, CommitFollowsQueue
    <3> QED
      BY <2>0, <3>1, <3>2, SMTT(30) DEF Popped
  <2>2. CASE q = p
    <3>1. /\ offset'[q] = Append(offset[q], m) /\ position'[q] = position[q] + 1
          /\ log'[q][position[q] + 1] = m
          /\ \A i \in 1 .. Len(log[q]) : log'[q][i] = log[q][i]
      BY <1>2, <1>r, <2>2, Zenon DEF Reads, MonitorInv, MonitorTypeOK, LoopTypeOK
    <3>2. /\ offset'[q] \in Seq(Message) /\ Len(offset'[q]) = Len(offset[q]) + 1
          /\ \A i \in 1 .. Len(offset[q]) : offset'[q][i] = offset[q][i]
          /\ offset'[q][Len(offset[q]) + 1] = m
      BY <2>0, <3>1, SMTT(30)
    <3>n. /\ Len(offset'[q]) = Len(offset[q]) + 1 /\ position'[q] = position[q] + 1
          /\ Len(offset[q]) \in Nat /\ position[q] \in Nat /\ Popped(q) \in Nat
          /\ position[q] = Popped(q) + Len(offset[q])
      BY <2>0, <3>1, <3>2, Zenon
    <3>3. Popped(q)' = Popped(q)
      <4>1. Popped(q)' = position'[q] - Len(offset'[q])
        BY Zenon DEF Popped
      <4> QED
        BY <3>n, <4>1, SMTT(30)
    <3>4. ASSUME NEW i \in 1 .. Len(offset'[q])
          PROVE  offset'[q][i] = log'[q][Popped(q) + i]
      <4>1. CASE i \in 1 .. Len(offset[q])
        <5>1. offset'[q][i] = log[q][Popped(q) + i]
          BY <3>2, <4>1, Queue, Zenon
        <5>2. Popped(q) + i \in 1 .. Len(log[q])
          BY <2>0, <4>1
        <5> QED
          BY <3>1, <5>1, <5>2, Zenon
      <4>2. CASE i = Len(offset[q]) + 1
        <5>1. Popped(q) + i = position[q] + 1
          BY <2>0, <4>2
        <5> QED
          BY <3>1, <3>2, <4>2, <5>1, Zenon
      <4> QED
        BY <3>n, <4>1, <4>2, SMTT(30)
    <3>5. position'[q] - Len(offset'[q]) = Popped(q) /\ Len(offset'[q]) <= position'[q]
      BY <3>n
    <3>6. offset'[q] = SubSeq(log'[q], position'[q] - Len(offset'[q]) + 1, position'[q])
      <4>1. /\ offset'[q] \in Seq(Message) /\ log'[q] \in Seq(Message)
            /\ position'[q] \in Nat /\ position'[q] <= Len(log'[q])
        BY <2>0, <3>2, Zenon
      <4>2. \A i \in 1 .. Len(offset'[q]) : offset'[q][i] = log'[q][position'[q] - Len(offset'[q]) + i]
        BY <3>4, <3>5, Zenon
      <4> QED
        BY <3>5, <4>1, <4>2, EndOfLog, Zenon
    <3>7. /\ Popped(q)' = Popped(q) /\ Popped(q)' \in Nat
          /\ position[q] <= position'[q] /\ position'[q] \in Nat
          /\ Len(offset'[q]) <= position'[q]
      <4>1. position[q] <= position'[q] /\ position'[q] \in Nat
        BY <3>n
      <4>2. Popped(q)' = Popped(q) /\ Popped(q)' \in Nat
        BY <3>n, <3>3, Zenon
      <4> QED
        BY <3>5, <4>1, <4>2, Zenon
    <3> QED
      BY <3>6, <3>7, Zenon
  <2> QED
    BY <2>1, <2>2, Zenon
<1>n. ASSUME NEW q \in Partition
      PROVE  /\ Popped(q)' = Popped(q) /\ Popped(q) \in Nat /\ Popped(q) <= position[q] /\ position[q] \in Nat
             /\ position[q] <= position'[q] /\ position'[q] \in Nat
  <2>1. /\ Popped(q) \in Nat /\ position[q] \in Nat /\ Len(offset[q]) \in Nat
        /\ position[q] = Popped(q) + Len(offset[q])
    BY Numbers, Zenon
  <2> QED
    BY <1>3, <2>1
<1>4. MonitorTypeOK'
  BY <1>0, <1>1, Zenon DEF MonitorInv, LoopInv, MonitorTypeOK
<1>5. CommitFollowsQueue'
  <2>1. \A q \in Partition : position'[q] - Len(offset'[q]) = position[q] - Len(offset[q])
    BY <1>3, Zenon DEF Popped
  <2> QED
    BY <1>1, <1>3, <2>1, Zenon DEF MonitorInv, CommitFollowsQueue
<1>6. ASSUME NEW q \in Partition, NEW i \in 1 .. position[q]
      PROVE  log'[q][i] = log[q][i]
  <2>1. i \in 1 .. Len(log[q])
    BY Numbers
  <2> QED
    BY <1>r, <2>1, Zenon DEF Reads
<1>7. ASSUME NEW n \in Message
      PROVE  (Taken(n) => Taken(n)') /\ (Waits(n) => Waits(n)')
  <2> DEFINE q == PartitionOf[n]
  <2>1. q \in Partition
    BY PartitionAssumption, Zenon
  <2>2. /\ Popped(q)' = Popped(q) /\ Popped(q) \in Nat /\ Popped(q) <= position[q] /\ position[q] \in Nat
        /\ position[q] <= position'[q] /\ position'[q] \in Nat
    BY <1>n, <2>1, Zenon
  <2>3. ASSUME NEW i \in 1 .. Popped(q), log[q][i] = n PROVE Taken(n)'
    <3>1. i \in 1 .. position[q]
      BY <2>2, SMTT(30)
    <3> QED
      BY <1>6, <2>1, <2>2, <2>3, <3>1, Zenon DEF Taken
  <2>4. ASSUME NEW i \in Popped(q) + 1 .. position[q], log[q][i] = n PROVE Waits(n)'
    <3>1. i \in 1 .. position[q] /\ i \in Popped(q) + 1 .. position'[q]
      BY <2>2, SMTT(30)
    <3>2. log'[q][i] = n
      BY <1>6, <2>1, <2>4, <3>1, Zenon
    <3> QED
      BY <2>2, <3>1, <3>2, Zenon DEF Waits
  <2> QED
    BY <2>3, <2>4, Zenon DEF Taken, Waits
<1>8. StoreOwns'
  <2>1. ASSUME cur # NULL
        PROVE  /\ Storing(PartitionOf[cur])' /\ Popped(PartitionOf[cur])' > 0
               /\ log'[PartitionOf[cur]][Popped(PartitionOf[cur])'] = cur
    <3>0. cur \in Message
      BY <2>1, Zenon DEF MonitorInv, MonitorTypeOK
    <3>q. PICK q \in Partition : q = PartitionOf[cur]
      BY <3>0, PartitionAssumption, Zenon
    <3>1. Storing(q) /\ Popped(q) > 0 /\ log[q][Popped(q)] = cur
      BY <2>1, <3>q, Zenon DEF MonitorInv, StoreOwns
    <3>2. Popped(q) \in 1 .. position[q] /\ Popped(q)' = Popped(q)
      BY <1>n, <3>1, SMTT(30)
    <3>3. log'[q][Popped(q)] = log[q][Popped(q)]
      BY <1>6, <3>1, <3>2, Zenon
    <3>4. Storing(q)'
      BY <1>1, <3>1, Zenon DEF Storing
    <3> QED
      BY <1>1, <3>q, <3>1, <3>2, <3>3, <3>4, Zenon
  <2>2. deleted \subseteq Message
    BY Zenon DEF MonitorInv, MonitorTypeOK
  <2> QED
    BY <1>1, <1>7, <2>1, <2>2, Zenon DEF MonitorInv, StoreOwns
<1>9. HeldWaits'
  <2>1. Waits(m)'
    <3> DEFINE i == position[p] + 1
    <3>1. PartitionOf[m] = p /\ position'[p] = position[p] + 1 /\ log'[p][i] = m
      BY <1>r, Zenon DEF Reads
    <3>2. Popped(p)' = Popped(p) /\ Popped(p) \in Nat /\ Popped(p) <= position[p] /\ position[p] \in Nat
      BY <1>n, Zenon
    <3>3. i \in Popped(p)' + 1 .. position'[p]
      BY <3>1, <3>2, SMTT(30)
    <3> QED
      BY <3>1, <3>3, Zenon DEF Waits
  <2>2. sf_to_m' = sf_to_m /\ sf_to_m \subseteq Message
    BY <1>2, Zenon DEF dpVars, marks, MonitorInv, DetectorInv, TypeOK, Statistics
  <2> QED
    BY <1>1, <1>2, <1>7, <2>1, <2>2, Zenon DEF MonitorInv, HeldWaits
<1>10. ExpectReached' /\ BackupNotAhead'
  BY <1>0, LoopBackup, Zenon
<1>11. \A n \in sf_to_m : Waits(n) => Waits(n)'
  BY <1>7, Zenon DEF MonitorInv, DetectorInv, TypeOK, Statistics
<1> QED
  BY <1>0, <1>4, <1>5, <1>8, <1>9, <1>10, <1>11, Zenon DEF LoopInv, MonitorInv

-----------------------------------------------------------------------------
(* The backup thread.                                                      *)

\* store_offset finds at the front of the queue the message after the last one
\* it took.
LEMMA Front ==
    ASSUME MonitorInv, NEW p \in Partition, offset[p] # <<>>
    PROVE  /\ Head(offset[p]) \in Message /\ Head(offset[p]) # NULL
           /\ PartitionOf[Head(offset[p])] = p
           /\ Popped(p) + 1 \in 1 .. Len(log[p])
           /\ log[p][Popped(p) + 1] = Head(offset[p])
           /\ Len(offset[p]) > 0
<1>1. /\ Len(offset[p]) \in Nat /\ Len(log[p]) \in Nat /\ position[p] \in Nat /\ Popped(p) \in Nat
      /\ position[p] <= Len(log[p]) /\ position[p] = Popped(p) + Len(offset[p])
      /\ offset[p] \in Seq(Message)
  BY Numbers, Zenon
<1>2. Len(offset[p]) > 0 /\ Head(offset[p]) = offset[p][1]
  BY <1>1
<1>3. 1 \in 1 .. Len(offset[p]) /\ Popped(p) + 1 \in 1 .. Len(log[p])
  BY <1>1, <1>2
<1>4. log[p][Popped(p) + 1] = Head(offset[p])
  BY <1>2, <1>3, Queue, Zenon
<1> QED
  BY <1>2, <1>3, <1>4, Placed

\* A message taken before is not the next one.
LEMMA TakenIsNotNext ==
    ASSUME MonitorInv, NEW p \in Partition, Popped(p) + 1 \in 1 .. Len(log[p]),
           NEW m \in Message, Taken(m)
    PROVE  m # log[p][Popped(p) + 1]
<1> SUFFICES ASSUME m = log[p][Popped(p) + 1] PROVE FALSE
  BY Zenon
<1>1. PartitionOf[m] = p /\ \A j \in 1 .. Len(log[p]) : m = log[p][j] => Popped(p) + 1 = j
  BY Placed, Zenon
<1>2. PICK j \in 1 .. Popped(p) : log[p][j] = m
  BY <1>1, Zenon DEF Taken
<1>3. Popped(p) \in Nat /\ Len(log[p]) \in Nat
  BY Numbers, Zenon
<1>4. j \in 1 .. Len(log[p])
  BY <1>3
<1>5. j = Popped(p) + 1
  BY <1>1, <1>2, <1>4, Zenon
<1> QED
  BY <1>3, <1>5

\* cur has been taken.
LEMMA CurTaken ==
    ASSUME MonitorInv, cur # NULL
    PROVE  cur \in Message /\ Taken(cur)
<1>1. cur \in Message
  BY Zenon DEF MonitorInv, MonitorTypeOK
<1>2. PICK q \in Partition : q = PartitionOf[cur]
  BY <1>1, PartitionAssumption, Zenon
<1>3. Popped(q) > 0 /\ log[q][Popped(q)] = cur /\ Popped(q) \in Nat
  BY <1>2, Numbers, Zenon DEF MonitorInv, StoreOwns
<1>4. Popped(q) \in 1 .. Popped(q)
  BY <1>3
<1> QED
  BY <1>1, <1>2, <1>3, <1>4, Zenon DEF Taken

\* The loop's part after a step that leaves all but its queues alone.
LEMMA LoopAlone ==
    ASSUME MonitorInv, DetectorInv', offset' \in [Partition -> Seq(Message)],
           UNCHANGED <<dpVars, stage, message, out, runTag, log, position>>
    PROVE  LoopInv'
<1>2. LoopTypeOK' /\ OneMessage'
  BY Zenon DEF MonitorInv, MonitorTypeOK, LoopTypeOK, OneMessage, dpVars, exec
<1>3. \A m : Consumed(m)' <=> Consumed(m)
  BY Zenon DEF Consumed
<1>4. ReadOnce'
  BY <1>3, Zenon DEF MonitorInv, ReadOnce, dpVars, hist
<1> QED
  BY <1>2, <1>4, Zenon DEF LoopInv

\* store_offset takes the front message, which nobody holds.
LEMMA StepStorePop ==
    ASSUME MonitorInv, DetectorInv', NEW p \in Partition, StorePop(p)
    PROVE  MonitorInv' /\ \A m \in sf_to_m : Waits(m) => Waits(m)'
<1> DEFINE h == Head(offset[p])
           Gone == deleted \cup ({cur} \ {NULL})
<1>0. /\ bpc = "store" /\ p \in toStore /\ (cur # NULL => PartitionOf[cur] = p)
      /\ offset[p] # <<>> /\ live[h] = 0 /\ deleted' = Gone /\ cur' = h
      /\ offset' = [offset EXCEPT ![p] = Tail(@)]
      /\ unguarded' = IF h = message /\ (stage = "deficiency" \/ pc = "live")
                      THEN unguarded \cup {message} ELSE unguarded
      /\ UNCHANGED <<dpVars, stage, message, out, runTag, log, position>>
      /\ UNCHANGED <<bpc, toRead, metaData, toStore, backup, committed, crashes>>
  BY Zenon DEF StorePop, Storing, Free, Delete, loop, broker
<1>h. PICK n \in Message : n = h
  BY <1>0, Front, Zenon
<1>1. /\ n # NULL /\ PartitionOf[n] = p /\ Popped(p) + 1 \in 1 .. Len(log[p]) /\ log[p][Popped(p) + 1] = n
      /\ Len(offset[p]) > 0
  BY <1>0, <1>h, Front, Zenon
<1>2. ASSUME NEW q \in Partition
      PROVE  /\ offset'[q] \in Seq(Message)
             /\ Popped(q)' = IF q = p THEN Popped(q) + 1 ELSE Popped(q)
             /\ Popped(q) \in Nat /\ committed[q] <= Popped(q) /\ committed[q] \in Nat
             /\ Len(offset'[q]) <= position[q]
             /\ offset'[q] = SubSeq(log[q], position[q] - Len(offset'[q]) + 1, position[q])
  <2>0. /\ log[q] \in Seq(Message) /\ offset[q] \in Seq(Message)
        /\ Len(offset[q]) \in Nat /\ Len(log[q]) \in Nat
        /\ position[q] \in Nat /\ position[q] <= Len(log[q])
        /\ Popped(q) \in Nat /\ position[q] = Popped(q) + Len(offset[q])
        /\ committed[q] \in Nat /\ committed[q] <= Popped(q)
    BY Numbers, Zenon
  <2>1. CASE q # p
    <3>1. offset'[q] = offset[q]
      BY <1>0, <2>1, Zenon DEF MonitorInv, MonitorTypeOK, LoopTypeOK
    <3>2. Popped(q)' = Popped(q)
      BY <1>0, <3>1, Zenon DEF Popped
    <3>3. /\ Len(offset[q]) <= position[q]
          /\ offset[q] = SubSeq(log[q], position[q] - Len(offset[q]) + 1, position[q])
      BY Zenon DEF MonitorInv, CommitFollowsQueue
    <3> QED
      BY <2>0, <2>1, <3>1, <3>2, <3>3, Zenon
  <2>2. CASE q = p
    <3>1. offset'[q] = Tail(offset[q]) /\ offset[q] # <<>>
      BY <1>0, <2>2, Zenon DEF MonitorInv, MonitorTypeOK, LoopTypeOK
    <3>2. /\ offset'[q] \in Seq(Message) /\ Len(offset'[q]) = Len(offset[q]) - 1
          /\ \A i \in 1 .. Len(offset[q]) - 1 : offset'[q][i] = offset[q][i + 1]
      BY <2>0, <3>1, SMTT(30)
    <3>n. /\ Len(offset'[q]) = Len(offset[q]) - 1 /\ Len(offset[q]) \in Nat /\ Len(offset[q]) > 0
          /\ position[q] \in Nat /\ Popped(q) \in Nat /\ position[q] = Popped(q) + Len(offset[q])
      BY <1>1, <2>0, <2>2, <3>2, Zenon
    <3>3. Popped(q)' = Popped(q) + 1
      <4>1. Popped(q)' = position[q] - Len(offset'[q])
        BY <1>0, Zenon DEF Popped
      <4> QED
        BY <3>n, <4>1
    <3>4. position[q] - Len(offset'[q]) = Popped(q) + 1 /\ Len(offset'[q]) <= position[q]
      BY <3>n
    <3>5. ASSUME NEW i \in 1 .. Len(offset'[q])
          PROVE  offset'[q][i] = log[q][position[q] - Len(offset'[q]) + i]
      <4>1. i \in 1 .. Len(offset[q]) - 1 /\ i + 1 \in 1 .. Len(offset[q]) /\ Popped(q) + 1 + i = Popped(q) + (i + 1)
        BY <3>n
      <4>2. offset'[q][i] = offset[q][i + 1] /\ offset[q][i + 1] = log[q][Popped(q) + (i + 1)]
        BY <3>2, <4>1, Queue, Zenon
      <4> QED
        BY <3>4, <4>1, <4>2, Zenon
    <3>6. offset'[q] = SubSeq(log[q], position[q] - Len(offset'[q]) + 1, position[q])
      <4>1. /\ offset'[q] \in Seq(Message) /\ log[q] \in Seq(Message)
            /\ position[q] \in Nat /\ position[q] <= Len(log[q])
        BY <2>0, <3>2, Zenon
      <4> QED
        BY <3>4, <3>5, <4>1, EndOfLog, Zenon
    <3>7. committed[q] <= Popped(q) /\ committed[q] \in Nat /\ Popped(q) \in Nat /\ offset'[q] \in Seq(Message)
      BY <2>0, <3>2, Zenon
    <3> QED
      BY <2>2, <3>3, <3>4, <3>6, <3>7, Zenon
  <2> QED
    BY <2>1, <2>2, Zenon
<1>3. LoopInv'
  <2>1. offset' \in [Partition -> Seq(Message)]
    BY <1>0, <1>2, Zenon DEF MonitorInv, MonitorTypeOK, LoopTypeOK
  <2> QED
    BY <1>0, <2>1, LoopAlone, Zenon
<1>4. MonitorTypeOK'
  <2>1. LoopTypeOK' /\ cur' \in Message \cup {NULL}
    BY <1>0, <1>3, <1>h, Zenon DEF LoopInv
  <2>2. deleted' \subseteq Message /\ unguarded' \subseteq Message
    BY <1>0, <1>h, Zenon DEF MonitorInv, MonitorTypeOK
  <2> QED
    BY <1>0, <2>1, <2>2, Zenon DEF MonitorInv, MonitorTypeOK
<1>5. CommitFollowsQueue'
  <2> SUFFICES ASSUME NEW q \in Partition
               PROVE  /\ committed[q] <= position[q] - Len(offset'[q])
                      /\ (cur' = NULL \/ PartitionOf[cur'] # q) => committed[q] = position[q] - Len(offset'[q])
    BY <1>0, <1>2, Zenon DEF CommitFollowsQueue
  <2>1. position[q] - Len(offset'[q]) = IF q = p THEN Popped(q) + 1 ELSE Popped(q)
    BY <1>0, <1>2, Zenon DEF Popped
  <2>2. CASE q = p
    BY <1>0, <1>h, <1>1, <1>2, <2>1, <2>2, SMTT(30)
  <2>3. CASE q # p
    <3>1. committed[q] = Popped(q)
      BY <1>0, <2>3, Numbers, Zenon
    <3> QED
      BY <1>2, <2>1, <2>3, <3>1, Zenon
  <2> QED
    BY <2>2, <2>3, Zenon
<1>6. ASSUME NEW m \in Message
      PROVE  (Taken(m) => m # n /\ Taken(m)') /\ (Waits(m) /\ m # n => Waits(m)')
  <2> DEFINE q == PartitionOf[m]
  <2>1. /\ q \in Partition /\ Popped(q) \in Nat /\ position[q] \in Nat
        /\ Popped(q)' = IF q = p THEN Popped(q) + 1 ELSE Popped(q)
    BY <1>2, PartitionAssumption, Numbers, Zenon
  <2>2. ASSUME Taken(m) PROVE m # n /\ Taken(m)'
    <3>1. PICK i \in 1 .. Popped(q) : log[q][i] = m
      BY <2>2, Zenon DEF Taken
    <3>2. i \in 1 .. Popped(q)'
      BY <2>1
    <3>3. Taken(m)'
      BY <1>0, <3>1, <3>2, Zenon DEF Taken
    <3> QED
      BY <1>1, <2>2, <3>3, TakenIsNotNext, Zenon
  <2>3. ASSUME Waits(m), m # n PROVE Waits(m)'
    <3>1. PICK i \in Popped(q) + 1 .. position[q] : log[q][i] = m
      BY <2>3, Zenon DEF Waits
    <3>2. ~(q = p /\ i = Popped(q) + 1)
      BY <1>1, <2>3, <3>1, Zenon
    <3>3. i \in Popped(q)' + 1 .. position[q]
      BY <2>1, <3>2
    <3> QED
      BY <1>0, <3>1, <3>3, Zenon DEF Waits
  <2> QED
    BY <2>2, <2>3, Zenon
<1>7. StoreOwns'
  <2>1. \A m \in Gone : m \in Message /\ Taken(m)
    BY CurTaken, Zenon DEF MonitorInv, MonitorTypeOK, StoreOwns
  <2>2. \A m \in deleted' : m # cur' /\ Taken(m)'
    BY <1>0, <1>h, <1>6, <2>1, Zenon
  <2>3. /\ cur' = n /\ PartitionOf[cur'] = p
        /\ Popped(p)' > 0 /\ log'[p][Popped(p)'] = n
    BY <1>0, <1>h, <1>1, <1>2, SMTT(30)
  <2>4. Storing(p)'
    BY <1>0, <2>3, Zenon DEF Storing
  <2> QED
    BY <2>2, <2>3, <2>4, Zenon DEF StoreOwns
<1>n. ASSUME NEW m \in sf_to_m PROVE m \in Message /\ m # n
  <2>1. m \in Message
    BY Zenon DEF MonitorInv, DetectorInv, TypeOK, Statistics
  <2>2. live[m] = 1
    BY <2>1, Zenon DEF MonitorInv, DetectorInv, LiveIffHeld
  <2> QED
    BY <1>0, <1>h, <2>1, <2>2
<1>8. HeldWaits'
  <2>2. UNCHANGED <<stage, pc, message, sf_to_m>> /\ unguarded \subseteq unguarded'
    BY <1>0, Zenon DEF dpVars, exec, marks
  <2>3. \A m \in sf_to_m' : m \in unguarded' \/ Waits(m)'
    BY <1>6, <1>n, <2>2, Zenon DEF MonitorInv, HeldWaits
  <2>4. ASSUME stage = "deficiency" \/ pc = "live"
        PROVE  message \in unguarded' \/ Waits(message)'
    <3>1. message \in Message
      BY <2>4, Zenon DEF MonitorInv, OneMessage
    <3>2. CASE message = n
      BY <1>0, <1>h, <2>4, <3>2, Zenon
    <3>3. CASE message # n
      <4>1. message \in unguarded \/ Waits(message)
        BY <2>4, Zenon DEF MonitorInv, HeldWaits
      <4>2. PICK m \in Message : m = message
        BY <3>1, Zenon
      <4>3. Waits(message) => Waits(m)'
        BY <1>6, <3>3, <4>2, Zenon
      <4>4. Waits(m)' => Waits(message)'
        BY <2>2, <4>2, Zenon
      <4> QED
        BY <2>2, <4>1, <4>3, <4>4, Zenon
    <3> QED
      BY <3>2, <3>3, Zenon
  <2> QED
    BY <2>2, <2>3, <2>4, Zenon DEF HeldWaits
<1>9. ExpectReached' /\ BackupNotAhead'
  BY <1>0, Zenon DEF MonitorInv, dpVars, exec, ctxs, hist, ExpectReached, BackupNotAhead, Awaited
<1>10. \A m \in sf_to_m : Waits(m) => Waits(m)'
  BY <1>6, <1>n, Zenon
<1> QED
  BY <1>3, <1>4, <1>5, <1>7, <1>8, <1>9, <1>10, Zenon DEF LoopInv, MonitorInv

\* store_offset is through with a partition: it commits what it took.
LEMMA StepStoreCommit ==
    ASSUME MonitorInv, DetectorInv', NEW p \in Partition, StoreCommit(p)
    PROVE  MonitorInv'
<1>0. /\ bpc = "store" /\ p \in toStore /\ (cur # NULL => PartitionOf[cur] = p)
      /\ IF cur # NULL THEN committed' = [committed EXCEPT ![PartitionOf[cur]] = OffsetAfter(cur)]
                       ELSE UNCHANGED committed
      /\ deleted' = deleted \cup ({cur} \ {NULL}) /\ cur' = NULL /\ toStore' = toStore \ {p}
      /\ UNCHANGED <<bpc, toRead, metaData, backup, crashes, unguarded>>
      /\ UNCHANGED <<dpVars, stage, message, out, runTag, log, position, offset>>
  BY Zenon DEF StoreCommit, Storing, Commit, Delete, DropCur, elVars, loop, broker, ghosts
<1>1. LoopInv'
  BY <1>0, LoopAlone, Zenon DEF MonitorInv, MonitorTypeOK, LoopTypeOK
<1>2. ASSUME NEW q \in Partition
      PROVE  committed'[q] = Popped(q) \/ (q # p /\ committed'[q] = committed[q])
  <2>1. Popped(q) \in Nat /\ committed \in [Partition -> Nat]
    BY Numbers, Zenon DEF MonitorInv, MonitorTypeOK
  <2>2. CASE cur = NULL
    BY <1>0, <2>1, <2>2, Numbers, Zenon
  <2>3. CASE cur # NULL
    <3>1. Popped(p) > 0 /\ log[p][Popped(p)] = cur
      BY <1>0, <2>3, Zenon DEF MonitorInv, StoreOwns
    <3>2. Popped(p) \in 1 .. Len(log[p])
      <4>1. /\ Popped(p) \in Nat /\ Len(log[p]) \in Nat /\ Len(offset[p]) \in Nat
            /\ position[p] <= Len(log[p]) /\ position[p] = Popped(p) + Len(offset[p])
        BY Numbers, Zenon
      <4> QED
        BY <3>1, <4>1
    <3>3. OffsetAfter(cur) = Popped(p)
      BY <3>1, <3>2, Offset, Zenon
    <3> QED
      BY <1>0, <2>1, <2>3, <3>3, Zenon
  <2> QED
    BY <2>2, <2>3, Zenon
<1>3. committed' \in [Partition -> Nat]
  <2>1. committed \in [Partition -> Nat] /\ DOMAIN committed' = Partition
    BY <1>0, Zenon DEF MonitorInv, MonitorTypeOK
  <2>2. \A q \in Partition : committed'[q] \in Nat
    BY <1>2, <2>1, Numbers, Zenon
  <2>3. committed' = [q \in Partition |-> committed'[q]]
    BY <1>0, <2>1, Zenon
  <2> QED
    BY <2>2, <2>3, Zenon
<1>4. MonitorTypeOK'
  BY <1>0, <1>1, <1>3, Zenon DEF MonitorInv, MonitorTypeOK, LoopInv
<1>5. CommitFollowsQueue'
  <2> SUFFICES ASSUME NEW q \in Partition
               PROVE  committed'[q] = position[q] - Len(offset[q]) /\ position[q] - Len(offset[q]) \in Nat
    BY <1>0, SMTT(30) DEF MonitorInv, CommitFollowsQueue
  <2>1. Popped(q) \in Nat /\ (q # p => committed[q] = Popped(q))
    BY <1>0, Numbers, Zenon
  <2>2. committed'[q] = Popped(q)
    BY <1>2, <2>1, Zenon
  <2> QED
    BY <2>1, <2>2, Zenon DEF Popped
<1>6. StoreOwns'
  <2>1. \A m \in deleted' : m \in Message /\ Taken(m)
    BY <1>0, CurTaken, Zenon DEF MonitorInv, MonitorTypeOK, StoreOwns
  <2>2. \A m : Taken(m)' <=> Taken(m)
    BY <1>0, SameQueues, Zenon
  <2> QED
    BY <1>0, <2>1, <2>2, FeedAssumption, Zenon DEF StoreOwns
<1>7. HeldWaits'
  BY <1>0, SameQueues, Zenon DEF MonitorInv, HeldWaits, dpVars, exec, marks
<1>8. ExpectReached' /\ BackupNotAhead'
  BY <1>0, Zenon DEF MonitorInv, dpVars, exec, ctxs, hist, ExpectReached, BackupNotAhead, Awaited
<1> QED
  BY <1>1, <1>4, <1>5, <1>6, <1>7, <1>8, Zenon DEF LoopInv, MonitorInv

\* The steps of a pass before and after store_offset.
LEMMA StepPass ==
    ASSUME MonitorInv, DetectorInv',
           BackupLock \/ (\E f \in Feedcode : BackupRead(f)) \/ BackupProduce \/ BackupUnlock
    PROVE  MonitorInv'
<1>0. /\ UNCHANGED <<cur, deleted, committed, crashes, unguarded>>
      /\ UNCHANGED <<dpVars, stage, message, out, runTag, log, position, offset>>
  BY Zenon DEF BackupLock, BackupRead, BackupProduce, BackupUnlock, elVars, loop, broker, ghosts
<1>1. LoopInv'
  BY <1>0, LoopAlone, Zenon DEF MonitorInv, MonitorTypeOK, LoopTypeOK
<1>2. cur = NULL
  BY Zenon DEF MonitorInv, StoreOwns, Storing, BackupLock, BackupRead, BackupProduce, BackupUnlock
<1>3. expectTimestamp \in [Feedcode -> Int]
  BY Zenon DEF MonitorInv, DetectorInv, TypeOK
<1>4. MonitorTypeOK'
  <2>1. /\ bpc' \in {"sleep", "read", "store"} /\ toRead' \subseteq Feedcode /\ toStore' \subseteq Partition
        /\ backup' \in [Feedcode -> Int \cup {NULL}]
    BY Zenon DEF MonitorInv, MonitorTypeOK, BackupLock, BackupRead, BackupProduce, BackupUnlock, AllPartitions, Unlock
  <2>2. metaData' \in [Feedcode -> Int \cup {NULL}]
    BY <1>3, Zenon DEF MonitorInv, MonitorTypeOK, BackupLock, BackupRead, BackupProduce, BackupUnlock, ReadExpect
  <2> QED
    BY <1>0, <1>1, <2>1, <2>2, Zenon DEF MonitorInv, MonitorTypeOK, LoopInv
<1>5. CommitFollowsQueue' /\ ExpectReached'
  BY <1>0, Zenon DEF MonitorInv, CommitFollowsQueue, ExpectReached, Awaited, dpVars, exec, ctxs, hist
<1>6. StoreOwns'
  BY <1>0, <1>2, SameQueues, Zenon DEF MonitorInv, StoreOwns
<1>7. HeldWaits'
  BY <1>0, SameQueues, Zenon DEF MonitorInv, HeldWaits, dpVars, exec, marks
<1>8. BackupNotAhead'
  <2>1. UNCHANGED <<context, base>> /\ \A f : UNCHANGED Awaited(f)
    BY <1>0, Zenon DEF dpVars, exec, ctxs, hist, Awaited
  <2>2. ASSUME NEW f \in Feedcode, metaData'[f] # NULL
        PROVE  metaData'[f] = metaData[f] \/ (context[f] = "ready" /\ metaData'[f] = expectTimestamp[f])
    BY <2>2, Zenon DEF MonitorInv, MonitorTypeOK, BackupLock, BackupRead, BackupProduce, BackupUnlock, ReadExpect
  <2> QED
    BY <2>1, <2>2, Zenon DEF MonitorInv, BackupNotAhead, ExpectReached
<1> QED
  BY <1>1, <1>4, <1>5, <1>6, <1>7, <1>8, Zenon DEF LoopInv, MonitorInv

-----------------------------------------------------------------------------
(* The process dies and is started again.                                  *)

\* The new process resumes where the last commit left off, with empty queues.
LEMMA StepCrash ==
    ASSUME MonitorInv, DetectorInv', Crash
    PROVE  MonitorInv'
<1>0. DetectorInv'
  BY Zenon
<1>1. \A p \in Partition :
         /\ committed[p] \in Nat /\ committed[p] <= Len(log[p])
         /\ log[p] \in Seq(Message)
  <2> SUFFICES ASSUME NEW p \in Partition
               PROVE  committed[p] \in Nat /\ committed[p] <= Len(log[p]) /\ log[p] \in Seq(Message)
    BY Zenon
  <2>1. /\ Popped(p) \in Nat /\ Len(log[p]) \in Nat /\ Len(offset[p]) \in Nat /\ committed[p] \in Nat
        /\ committed[p] <= Popped(p) /\ log[p] \in Seq(Message)
        /\ position[p] <= Len(log[p]) /\ position[p] = Popped(p) + Len(offset[p])
    BY Numbers, Zenon
  <2> QED
    BY <2>1
<1>2. /\ pc' = "idle" /\ sf_to_m' = {} /\ received' = {} /\ context' = [f \in Feedcode |-> "none"]
      /\ stage' = "consume" /\ message' = NULL /\ out' = <<>> /\ runTag' = TRUE
      /\ offset' = [p \in Partition |-> <<>>] /\ position' = committed /\ log' = log
      /\ bpc' = "sleep" /\ toRead' = {} /\ toStore' = {} /\ cur' = NULL /\ deleted' = {} /\ unguarded' = {}
      /\ metaData' = [f \in Feedcode |-> NULL] /\ UNCHANGED <<backup, committed>>
      /\ crashes < MaxCrash /\ crashes' = crashes + 1
  BY Zenon DEF Crash, Restart
<1>3. MonitorTypeOK' /\ OneMessage'
  <2>1. LoopTypeOK'
    BY <1>2, SMTT(30) DEF MonitorInv, MonitorTypeOK, LoopTypeOK
  <2>2. crashes' \in 0 .. MaxCrash
    BY <1>2, MaxCrashAssumption DEF MonitorInv, MonitorTypeOK
  <2> QED
    BY <1>2, <2>1, <2>2, Zenon DEF MonitorInv, MonitorTypeOK, OneMessage
<1>4. ReadOnce'
  BY <1>1, <1>2 DEF MonitorInv, ReadOnce
<1>5. CommitFollowsQueue'
  <2> SUFFICES ASSUME NEW p \in Partition
               PROVE  /\ Len(offset'[p]) = 0 /\ committed[p] \in Nat
                      /\ offset'[p] = SubSeq(log[p], committed[p] - Len(offset'[p]) + 1, committed[p])
    BY <1>2, SMTT(30) DEF CommitFollowsQueue
  <2>1. offset'[p] = <<>> /\ offset'[p] \in Seq(Message) /\ Len(offset'[p]) = 0
    BY <1>2
  <2>2. committed[p] \in Nat /\ committed[p] <= Len(log[p]) /\ log[p] \in Seq(Message)
    BY <1>1, Zenon
  <2>3. Len(offset'[p]) <= committed[p]
    BY <2>1, <2>2
  <2>4. \A i \in 1 .. Len(offset'[p]) : offset'[p][i] = log[p][committed[p] - Len(offset'[p]) + i]
    BY <2>1
  <2>5. offset'[p] = SubSeq(log[p], committed[p] - Len(offset'[p]) + 1, committed[p])
    BY <2>1, <2>2, <2>3, <2>4, EndOfLog, Zenon
  <2> QED
    BY <2>1, <2>2, <2>5, Zenon
<1>6. StoreOwns' /\ HeldWaits'
  BY <1>2, Zenon DEF StoreOwns, HeldWaits
<1>7. ExpectReached' /\ BackupNotAhead'
  BY <1>2, Zenon DEF ExpectReached, BackupNotAhead
<1> QED
  BY <1>0, <1>3, <1>4, <1>5, <1>6, <1>7, Zenon DEF MonitorInv

-----------------------------------------------------------------------------
(* The theorems.                                                           *)

\* The monitor starts with nothing read, queued or committed.
LEMMA MonitorInit ==
    ASSUME Init, LoopInv
    PROVE  MonitorInv
<1>1. LoopInv
  BY Zenon
<1>2. /\ pc = "idle" /\ sf_to_m = {} /\ context = [f \in Feedcode |-> "none"]
      /\ stage = "consume" /\ log = [p \in Partition |-> <<>>] /\ position = [p \in Partition |-> 0]
      /\ offset = [p \in Partition |-> <<>>]
  BY Zenon DEF Init, ELInit, DPInit
<1>3. MonitorTypeOK
  BY <1>1, MaxCrashAssumption DEF Init, MonitorTypeOK, LoopInv
<1>4. CommitFollowsQueue
  <2> SUFFICES ASSUME NEW p \in Partition
               PROVE  <<>> = SubSeq(<<>>, 1, 0)
    BY <1>2 DEF Init, CommitFollowsQueue
  <2> QED
    OBVIOUS
<1>5. StoreOwns /\ HeldWaits /\ ExpectReached /\ BackupNotAhead
  BY <1>2, Zenon DEF Init, StoreOwns, HeldWaits, ExpectReached, BackupNotAhead
<1> QED
  BY <1>1, <1>3, <1>4, <1>5, Zenon DEF LoopInv, MonitorInv

\* What a step does to the processor and the loop.
LoopKept ==
    /\ DetectorInv'
    /\ [ELNext]_elVars => LoopInv'
    /\ \A p \in Partition, m \in Message : Consume(p, m) => Reads(p, m)

\* Every step of either thread, and dying, keeps the invariant.
LEMMA MonitorNext ==
    ASSUME MonitorInv, [Next]_vars, LoopKept
    PROVE  MonitorInv'
<1>0. DetectorInv'
  BY Zenon DEF LoopKept
<1>1. CASE Loop
  <2>1. LoopInv' /\ LoopStep /\ UNCHANGED bkVars
    BY <1>1, Zenon DEF Loop, LoopKept, ELNext
  <2>2. ASSUME NEW p \in Partition, NEW m \in Message, Consume(p, m)
        PROVE  MonitorInv'
    <3>1. Reads(p, m)
      BY <2>2, Zenon DEF LoopKept
    <3> QED
      BY <2>1, <2>2, <3>1, StepConsume, Zenon
  <2>3. CASE \A p \in Partition, m \in Message : ~Consume(p, m)
    BY <2>1, <2>3, StepLoopOther, Zenon
  <2> QED
    BY <2>2, <2>3, Zenon
<1>2. CASE Signal
  <2>1. \A p \in Partition, m \in Message : ~Consume(p, m)
    BY <1>2, Zenon DEF Signal, Sigterm, Consume
  <2>2. LoopInv' /\ Sigterm /\ UNCHANGED bkVars
    BY <1>2, Zenon DEF Signal, LoopKept, ELNext
  <2> QED
    BY <2>1, <2>2, StepLoopOther, Zenon
<1>3. CASE BackupStep
  BY <1>0, <1>3, StepPass, StepStorePop, StepStoreCommit, Zenon DEF BackupStep
<1>4. CASE Crash
  BY <1>0, <1>4, StepCrash, Zenon
<1>5. CASE UNCHANGED vars
  <2>1. \A p \in Partition, m \in Message : ~Consume(p, m)
    BY <1>5, Zenon DEF vars, elVars, loop, Consume
  <2>2. LoopInv' /\ UNCHANGED elVars /\ UNCHANGED bkVars
    BY <1>5, Zenon DEF vars, LoopKept
  <2> QED
    BY <2>1, <2>2, StepLoopOther, Zenon
<1> QED
  BY <1>1, <1>2, <1>3, <1>4, <1>5, Zenon DEF Next

\* While the process lives, store_offset takes no message that exec holds.
LEMMA WaitsStays ==
    ASSUME MonitorInv, [Next]_vars, LoopKept, ~Crash
    PROVE  \A m \in sf_to_m : Waits(m) => Waits(m)'
<1>0. DetectorInv'
  BY Zenon DEF LoopKept
<1>1. ASSUME NEW p \in Partition, NEW m \in Message, Consume(p, m), UNCHANGED bkVars
      PROVE  \A n \in sf_to_m : Waits(n) => Waits(n)'
  <2>1. LoopStep /\ Reads(p, m)
    BY <1>1, Zenon DEF LoopStep, LoopKept
  <2>2. LoopInv'
    BY <2>1, Zenon DEF LoopKept, ELNext
  <2> QED
    BY <1>1, <2>1, <2>2, StepConsume, Zenon
<1>2. ASSUME NEW p \in Partition, StorePop(p)
      PROVE  \A n \in sf_to_m : Waits(n) => Waits(n)'
  BY <1>0, <1>2, StepStorePop, Zenon
<1>3. CASE UNCHANGED <<offset, log, position>>
  BY <1>3, SameQueues, Zenon
<1>4. CASE Loop
  BY <1>1, <1>3, <1>4, Zenon
  DEF Loop, LoopStep, ConsumeError, Stop, DeficiencyEnter, DeficiencyStep, DeficiencyResult, ValidityStep, Produce,
      EndRound, broker
<1>5. CASE Signal \/ UNCHANGED vars
  BY <1>3, <1>5, Zenon DEF Signal, Sigterm, broker, vars, elVars
<1>6. CASE BackupStep
  BY <1>2, <1>3, <1>6, Zenon
  DEF BackupStep, BackupLock, BackupRead, BackupProduce, BackupUnlock, StoreCommit, elVars, broker
<1> QED
  BY <1>4, <1>5, <1>6, Zenon DEF Next

\* A message that waits is queued, and what is committed ends before it.
WaitsSafely ==
    \A m \in Message : Waits(m) => m \in InQueue(PartitionOf[m]) /\ committed[PartitionOf[m]] < OffsetAfter(m)

LEMMA InvWaits == MonitorInv => WaitsSafely
BY WaitsUncommitted, Zenon DEF WaitsSafely
=============================================================================
