--------------------- MODULE DeficiencyProcessor_proofs ---------------------
(***************************************************************************)
(* Proofs about the gap detector, for any set of messages, any instruments *)
(* and any INTERVAL and MAXQUEUE.                                          *)
(***************************************************************************)
EXTENDS DeficiencyProcessor, FiniteSetTheorems, TLAPS

\* A message of type Statistics has the fields exec reads.
LEMMA StatisticsFields ==
    ASSUME NEW m \in Statistics
    PROVE  /\ m \in Message /\ m # NULL
           /\ FC(m) \in Feedcode
           /\ TS(m) \in Int
           /\ Feed[m].TURNOVER_VALUE \in Int
           /\ Feed[m].TURNOVER_VOLUME \in Int
<1>1. m \in Message /\ Feed[m].type = "Statistics"
  BY Zenon DEF Statistics
<1>2. Feed[m] \in StatisticsFeed \cup PriceFeed \cup NoFeed /\ m # NULL
  BY <1>1, FeedAssumption, Zenon
<1>3. Feed[m] \notin PriceFeed /\ Feed[m] \notin NoFeed
  BY <1>1, Zenon DEF PriceFeed, NoFeed
<1>4. Feed[m] \in StatisticsFeed
  BY <1>2, <1>3, Zenon
<1> QED
  BY <1>1, <1>2, <1>4, Zenon DEF StatisticsFeed, FC, TS

\* The lines exec writes are Alerts.
LEMMA AlertType ==
    ASSUME NEW f \in Feedcode, NEW t \in Int,
           NEW k \in {"turnover", "delay", "continuity", "miss", "price"}
    PROVE  AlertOf(k, f, t) \in Alert
BY Zenon DEF AlertOf, Alert

\* Adding a line keeps res well typed.
LEMMA ResType ==
    ASSUME NEW r \in [code : {"OK", "WARN"}, json : Seq(Alert)], NEW a \in Alert
    PROVE  /\ Note(r, a) \in [code : {"OK", "WARN"}, json : Seq(Alert)]
           /\ Warn(r, a) \in [code : {"OK", "WARN"}, json : Seq(Alert)]
<1>1. Append(r.json, a) \in Seq(Alert)
  OBVIOUS
<1> QED
  BY <1>1, Zenon DEF Note, Warn

\* Emptying res.json keeps res well typed.
LEMMA ClearedType ==
    ASSUME NEW r \in [code : {"OK", "WARN"}, json : Seq(Alert)]
    PROVE  [r EXCEPT !.json = <<>>] \in [code : {"OK", "WARN"}, json : Seq(Alert)]
<1>1. <<>> \in Seq(Alert)
  OBVIOUS
<1> QED
  BY <1>1, Zenon

-----------------------------------------------------------------------------

\* The initial state is well typed.
LEMMA TypeInit == DPInit => TypeOK
BY DEF DPInit, TypeOK, Here

\* Every step of exec keeps every variable well typed.
LEMMA TypeNext ==
    ASSUME TypeOK, [DPNext]_dpVars
    PROVE  TypeOK'
<1> USE DEF TypeOK, Here, exec, ctxs, marks, hist
<1>1. ASSUME NEW m \in Message, Exec(m) PROVE TypeOK'
  <2>1. Accepts(m) => m \in Statistics
    BY Zenon DEF Accepts, Statistics
  <2>2. Cleared(m) \in [code : {"OK", "WARN"}, json : Seq(Alert)]
    BY ClearedType, Zenon DEF Cleared
  <2> QED
    BY <1>1, <2>1, <2>2, Zenon DEF Exec
<1>2. CASE Hold
  <2>1. sf \in Statistics /\ sf \in Message /\ FC(sf) \in Feedcode
    BY <1>2, StatisticsFields, Zenon DEF Hold
  <2>2. res' \in [code : {"OK", "WARN"}, json : Seq(Alert)]
    <3>1. AlertOf("turnover", FC(sf), 0) \in Alert
      BY <2>1, AlertType
    <3>2. Warn(res, AlertOf("turnover", FC(sf), 0)) \in [code : {"OK", "WARN"}, json : Seq(Alert)]
      BY <3>1, ResType, Zenon
    <3> QED
      BY <1>2, <3>2, Zenon DEF Hold
  <2> QED
    BY <1>2, <2>1, <2>2 DEF Hold, Live
<1>3. CASE Lookup
  <2>1. sf \in Statistics /\ FC(sf) \in Feedcode
    BY <1>3, StatisticsFields, Zenon DEF Lookup
  <2> QED
    BY <1>3, <2>1, Zenon DEF Lookup, Has, Create
<1>4. CASE GetContext
  BY <1>4, Zenon DEF GetContext
<1>5. CASE InitContext
  <2>1. sf \in Statistics /\ FC(sf) \in Feedcode
    BY <1>5, StatisticsFields, Zenon DEF InitContext
  <2>2. /\ TS(sf) \in Int
        /\ NonNegative(Feed[sf].TURNOVER_VALUE) \in Int
        /\ NonNegative(Feed[sf].TURNOVER_VOLUME) \in Int
    BY <2>1, StatisticsFields DEF NonNegative
  <2> QED
    BY <1>5, <2>1, <2>2, Zenon DEF InitContext, SetExpectTimestamp, SetPre
<1>6. CASE OnTime
  <2>1. sf \in Statistics /\ sf \in Message /\ FC(sf) \in Feedcode
    BY <1>6, StatisticsFields, Zenon DEF OnTime
  <2>2. expectTimestamp' \in [Feedcode -> Int]
    BY <1>6, <2>1, IntervalAssumption DEF OnTime, SetExpectTimestamp
  <2>3. live' \in [Message -> Int] /\ sf_to_m' \subseteq Statistics
    BY <1>6, <2>1 DEF OnTime, Kill, Erase
  <2> QED
    BY <1>6, <2>2, <2>3 DEF OnTime, Return
<1>7. CASE Delay
  <2>1. sf \in Statistics /\ FC(sf) \in Feedcode /\ TS(sf) \in Int
    BY <1>7, StatisticsFields, Zenon DEF Delay
  <2>2. res' \in [code : {"OK", "WARN"}, json : Seq(Alert)]
    BY <1>7, <2>1, AlertType, ResType, Zenon DEF Delay
  <2> QED
    BY <1>7, <2>1, <2>2 DEF Delay, Return
<1>8. CASE Enqueue
  <2>1. sf \in Statistics /\ FC(sf) \in Feedcode
    BY <1>8, StatisticsFields, Zenon DEF Enqueue
  <2> QED
    BY <1>8, <2>1, Zenon DEF Enqueue
<1>9. ASSUME NEW top \in Tops(queue[FC(sf)]), DrainDue(top) PROVE TypeOK'
  <2>1. sf \in Statistics /\ FC(sf) \in Feedcode
    BY <1>9, StatisticsFields, Zenon DEF DrainDue
  <2>2. top \in Statistics /\ top \in Message
    BY <2>1, StatisticsFields, Zenon DEF Tops
  <2>3. res' \in [code : {"OK", "WARN"}, json : Seq(Alert)]
    <3>1. AlertOf("continuity", FC(sf), 0) \in Alert
      BY <2>1, AlertType
    <3>2. res' = res \/ res' = Note(res, AlertOf("continuity", FC(sf), 0))
      BY <1>9, Zenon DEF DrainDue
    <3> QED
      BY <3>1, <3>2, ResType
  <2>4. preValue' \in [Feedcode -> Int] /\ preVolume' \in [Feedcode -> Int]
    BY <1>9, <2>1, StatisticsFields, Zenon DEF DrainDue, SetPre
  <2>5. live' \in [Message -> Int] /\ sf_to_m' \subseteq Statistics
    BY <1>9, <2>2 DEF DrainDue, Kill, Erase
  <2>6. queue' \in [Feedcode -> SUBSET Statistics]
    BY <1>9, <2>1, Zenon DEF DrainDue
  <2>7. et' \in Int
    BY <1>9, IntervalAssumption DEF DrainDue
  <2> QED
    BY <1>9, <2>3, <2>4, <2>5, <2>6, <2>7, Zenon DEF DrainDue
<1>10. ASSUME NEW top \in Tops(queue[FC(sf)]), DrainOld(top) PROVE TypeOK'
  <2>1. sf \in Statistics /\ FC(sf) \in Feedcode
    BY <1>10, StatisticsFields, Zenon DEF DrainOld
  <2>2. top \in Message
    BY <2>1, StatisticsFields, Zenon DEF Tops
  <2>3. live' \in [Message -> Int] /\ sf_to_m' \subseteq Statistics
    BY <1>10, <2>2 DEF DrainOld, Kill, Erase
  <2>4. queue' \in [Feedcode -> SUBSET Statistics]
    BY <1>10, <2>1, Zenon DEF DrainOld
  <2> QED
    BY <1>10, <2>3, <2>4, Zenon DEF DrainOld
<1>11. CASE DrainEnd
  <2>1. sf \in Statistics /\ FC(sf) \in Feedcode
    BY <1>11, StatisticsFields, Zenon DEF DrainEnd
  <2>2. res' \in [code : {"OK", "WARN"}, json : Seq(Alert)]
    <3>1. AlertOf("miss", FC(sf), et) \in Alert
      BY <2>1, AlertType
    <3>2. Warn(res, AlertOf("miss", FC(sf), et)) \in [code : {"OK", "WARN"}, json : Seq(Alert)]
      BY <3>1, ResType, Zenon
    <3> QED
      BY <1>11, <3>2, Zenon DEF DrainEnd
  <2>3. expectTimestamp' \in [Feedcode -> Int]
    BY <1>11, <2>1, IntervalAssumption DEF DrainEnd, SetExpectTimestamp
  <2>4. missed' \in [Feedcode -> SUBSET Int]
    <3>1. missed' = missed \/ missed' = [missed EXCEPT ![FC(sf)] = @ \cup {et}]
      BY <1>11, Zenon DEF DrainEnd
    <3>2. missed[FC(sf)] \cup {et} \in SUBSET Int
      BY <2>1, Zenon
    <3> QED
      BY <3>1, <3>2, Zenon
  <2> QED
    BY <1>11, <2>2, <2>3, <2>4 DEF DrainEnd, Return
<1>12. CASE Restart
  BY <1>12 DEF Restart
<1>13. CASE UNCHANGED dpVars
  BY <1>13, Zenon DEF dpVars
<1> QED
  BY <1>1, <1>2, <1>3, <1>4, <1>5, <1>6, <1>7, <1>8, <1>9, <1>10, <1>11, <1>12, <1>13, Zenon
  DEF DPNext, ExecStep

\* Every variable of the detector always has its type.
THEOREM TypeCorrect == DPSpec => []TypeOK
<1>1. DPInit => TypeOK
  BY TypeInit, Zenon
<1>2. TypeOK /\ [DPNext]_dpVars => TypeOK'
  BY TypeNext, Zenon
<1> QED
  BY <1>1, <1>2, PTL DEF DPSpec

-----------------------------------------------------------------------------
(* The inductive invariant: no feed that is still to come due is forgotten *)
(* (NotDueIsQueued) needs the bookkeeping of queues and contexts; that     *)
(* kill() meets a live message (LiveIffHeld) needs to know who is held.    *)

\* The initial state satisfies the inductive invariant.
LEMMA InvInit == DPInit => DetectorInv
<1> SUFFICES ASSUME DPInit PROVE DetectorInv
  BY Zenon
<1>1. TypeOK
  BY TypeInit, Zenon
<1>2. LiveIffHeld /\ Bookkeeping /\ NotDueIsQueued /\ HeldIsQueuedOrLate
  BY Zenon DEF DPInit, LiveIffHeld, Bookkeeping, NotDueIsQueued, HeldIsQueuedOrLate, Undecided
<1> QED
  BY <1>1, <1>2, Zenon DEF DetectorInv

\* A restart satisfies it again.
LEMMA InvRestart == Restart => (LiveIffHeld /\ Bookkeeping /\ NotDueIsQueued /\ HeldIsQueuedOrLate)'
BY Zenon DEF Restart, LiveIffHeld, Bookkeeping, NotDueIsQueued, HeldIsQueuedOrLate, Undecided

\* Calling exec preserves the invariant: sf is the only new feed.
LEMMA InvExec ==
    ASSUME DetectorInv, NEW m0 \in Message, Exec(m0)
    PROVE  (LiveIffHeld /\ Bookkeeping /\ NotDueIsQueued /\ HeldIsQueuedOrLate)'
<1> USE DEF DetectorInv, ctxs, marks, Exec
<1>0. /\ \A m \in Statistics : m \in Message /\ FC(m) \in Feedcode /\ TS(m) \in Int
      /\ Accepts(m0) <=> m0 \in Statistics
  BY StatisticsFields, Zenon DEF Accepts, Statistics
<1>1. LiveIffHeld'
  BY Zenon DEF LiveIffHeld
<1>2. Bookkeeping'
  BY <1>0, Zenon DEF TypeOK, Bookkeeping, Undecided
<1>3. NotDueIsQueued'
  BY <1>0 DEF TypeOK, Bookkeeping, NotDueIsQueued, Awaited, Undecided
<1>4. HeldIsQueuedOrLate'
  BY <1>0, Zenon DEF TypeOK, Bookkeeping, HeldIsQueuedOrLate, Awaited, Undecided
<1> QED
  BY <1>1, <1>2, <1>3, <1>4, Zenon

\* live() preserves the invariant: sf becomes held.
LEMMA InvHold ==
    ASSUME DetectorInv, Hold
    PROVE  (LiveIffHeld /\ Bookkeeping /\ NotDueIsQueued /\ HeldIsQueuedOrLate)'
<1> USE DEF DetectorInv, ctxs, marks, hist, Hold, Live
<1>0. /\ \A m \in Statistics : m \in Message /\ FC(m) \in Feedcode /\ TS(m) \in Int
      /\ sf \in Statistics /\ FC(sf) \in Feedcode /\ INTERVAL \in Nat /\ INTERVAL > 0
  BY StatisticsFields, IntervalAssumption DEF TypeOK
<1>1. LiveIffHeld'
  BY <1>0 DEF TypeOK, LiveIffHeld, Bookkeeping, Undecided
<1>2. Bookkeeping'
  BY <1>0, Zenon DEF TypeOK, Bookkeeping, Undecided
<1>3. NotDueIsQueued'
  BY <1>0, Zenon DEF TypeOK, Bookkeeping, NotDueIsQueued, Awaited, Undecided
<1>4. HeldIsQueuedOrLate'
  BY <1>0, Zenon DEF TypeOK, Bookkeeping, HeldIsQueuedOrLate, Awaited, Undecided
<1> QED
  BY <1>1, <1>2, <1>3, <1>4, Zenon

\* Looking up and creating a context preserves the invariant: a new context
\* has no feeds.
LEMMA InvLookup ==
    ASSUME DetectorInv, Lookup
    PROVE  (LiveIffHeld /\ Bookkeeping /\ NotDueIsQueued /\ HeldIsQueuedOrLate)'
<1> USE DEF DetectorInv, ctxs, marks, hist, Lookup, Has, Create
<1>0. /\ \A m \in Statistics : m \in Message /\ FC(m) \in Feedcode /\ TS(m) \in Int
      /\ sf \in Statistics /\ FC(sf) \in Feedcode /\ INTERVAL \in Nat /\ INTERVAL > 0
  BY StatisticsFields, IntervalAssumption DEF TypeOK
<1>1. LiveIffHeld'
  BY <1>0, Zenon DEF TypeOK, LiveIffHeld, Bookkeeping, Undecided
<1>2. Bookkeeping'
  BY <1>0 DEF TypeOK, Bookkeeping, Undecided
<1>3. NotDueIsQueued'
  BY <1>0, Zenon DEF TypeOK, Bookkeeping, NotDueIsQueued, Awaited, Undecided
<1>4. HeldIsQueuedOrLate'
  BY <1>0 DEF TypeOK, Bookkeeping, HeldIsQueuedOrLate, Awaited, Undecided
<1> QED
  BY <1>1, <1>2, <1>3, <1>4, Zenon

\* getContext preserves the invariant.
LEMMA InvGetContext ==
    ASSUME DetectorInv, GetContext
    PROVE  (LiveIffHeld /\ Bookkeeping /\ NotDueIsQueued /\ HeldIsQueuedOrLate)'
<1> USE DEF DetectorInv, ctxs, marks, hist, GetContext
<1>0. /\ \A m \in Statistics : m \in Message /\ FC(m) \in Feedcode /\ TS(m) \in Int
      /\ sf \in Statistics /\ FC(sf) \in Feedcode /\ INTERVAL \in Nat /\ INTERVAL > 0
  BY StatisticsFields, IntervalAssumption DEF TypeOK
<1>1. LiveIffHeld'
  BY <1>0, Zenon DEF TypeOK, LiveIffHeld, Bookkeeping, Undecided
<1>2. Bookkeeping'
  BY <1>0, Zenon DEF TypeOK, Bookkeeping, Undecided
<1>3. NotDueIsQueued'
  BY <1>0, Zenon DEF TypeOK, Bookkeeping, NotDueIsQueued, Awaited, Undecided
<1>4. HeldIsQueuedOrLate'
  BY <1>0, Zenon DEF TypeOK, Bookkeeping, HeldIsQueuedOrLate, Awaited, Undecided
<1> QED
  BY <1>1, <1>2, <1>3, <1>4, Zenon

\* Setting a new context's fields preserves the invariant: sf is the only feed
\* of its instrument and is the expected one.
LEMMA InvInitContext ==
    ASSUME DetectorInv, InitContext
    PROVE  (LiveIffHeld /\ Bookkeeping /\ NotDueIsQueued /\ HeldIsQueuedOrLate)'
<1> USE DEF DetectorInv, ctxs, marks, hist, InitContext, SetExpectTimestamp, SetPre
<1>0. /\ \A m \in Statistics : m \in Message /\ FC(m) \in Feedcode /\ TS(m) \in Int
      /\ sf \in Statistics /\ FC(sf) \in Feedcode /\ INTERVAL \in Nat /\ INTERVAL > 0
  BY StatisticsFields, IntervalAssumption DEF TypeOK
<1>1. LiveIffHeld'
  BY <1>0, Zenon DEF TypeOK, LiveIffHeld, Bookkeeping, Undecided
<1>2. Bookkeeping'
  BY <1>0, Zenon DEF TypeOK, Bookkeeping, Undecided
<1>3. NotDueIsQueued'
  BY <1>0, Zenon DEF TypeOK, Bookkeeping, NotDueIsQueued, Awaited, Undecided
<1>4. HeldIsQueuedOrLate'
  BY <1>0 DEF TypeOK, Bookkeeping, HeldIsQueuedOrLate, Awaited, Undecided
<1> QED
  BY <1>1, <1>2, <1>3, <1>4, Zenon

\* The expected feed is released and the expected timestamp moves past it.
LEMMA InvOnTime ==
    ASSUME DetectorInv, OnTime
    PROVE  (LiveIffHeld /\ Bookkeeping /\ NotDueIsQueued /\ HeldIsQueuedOrLate)'
<1> USE DEF DetectorInv, ctxs, marks, hist, OnTime, Expected, SetExpectTimestamp, Kill, Erase, Return
<1>0. /\ \A m \in Statistics : m \in Message /\ FC(m) \in Feedcode /\ TS(m) \in Int
      /\ sf \in Statistics /\ FC(sf) \in Feedcode /\ INTERVAL \in Nat /\ INTERVAL > 0
  BY StatisticsFields, IntervalAssumption DEF TypeOK
<1>1. LiveIffHeld'
  BY <1>0 DEF TypeOK, LiveIffHeld, Bookkeeping, Undecided
<1>2. Bookkeeping'
  BY <1>0 DEF TypeOK, Bookkeeping, Undecided
<1>3. NotDueIsQueued'
  BY <1>0 DEF TypeOK, Bookkeeping, NotDueIsQueued, Awaited, Undecided
<1>4. HeldIsQueuedOrLate'
  BY <1>0 DEF TypeOK, Bookkeeping, HeldIsQueuedOrLate, Awaited, Undecided
<1> QED
  BY <1>1, <1>2, <1>3, <1>4, Zenon

\* A late feed stays held behind the expected timestamp.
LEMMA InvDelay ==
    ASSUME DetectorInv, Delay
    PROVE  (LiveIffHeld /\ Bookkeeping /\ NotDueIsQueued /\ HeldIsQueuedOrLate)'
<1> USE DEF DetectorInv, ctxs, marks, hist, Delay, Late, Return
<1>0. /\ \A m \in Statistics : m \in Message /\ FC(m) \in Feedcode /\ TS(m) \in Int
      /\ sf \in Statistics /\ FC(sf) \in Feedcode /\ INTERVAL \in Nat /\ INTERVAL > 0
  BY StatisticsFields, IntervalAssumption DEF TypeOK
<1>1. LiveIffHeld'
  BY <1>0, Zenon DEF TypeOK, LiveIffHeld, Bookkeeping, Undecided
<1>2. Bookkeeping'
  BY <1>0, Zenon DEF TypeOK, Bookkeeping, Undecided
<1>3. NotDueIsQueued'
  BY <1>0 DEF TypeOK, Bookkeeping, NotDueIsQueued, Awaited, Undecided
<1>4. HeldIsQueuedOrLate'
  BY <1>0, Zenon DEF TypeOK, Bookkeeping, HeldIsQueuedOrLate, Awaited, Undecided
<1> QED
  BY <1>1, <1>2, <1>3, <1>4, Zenon

\* An early feed goes from sf to the queue.
LEMMA InvEnqueue ==
    ASSUME DetectorInv, Enqueue
    PROVE  (LiveIffHeld /\ Bookkeeping /\ NotDueIsQueued /\ HeldIsQueuedOrLate)'
<1> USE DEF DetectorInv, ctxs, marks, hist, Enqueue, Expected, Late
<1>0. /\ \A m \in Statistics : m \in Message /\ FC(m) \in Feedcode /\ TS(m) \in Int
      /\ sf \in Statistics /\ FC(sf) \in Feedcode /\ INTERVAL \in Nat /\ INTERVAL > 0
  BY StatisticsFields, IntervalAssumption DEF TypeOK
<1>1. LiveIffHeld'
  BY <1>0, Zenon DEF TypeOK, LiveIffHeld, Bookkeeping, Undecided
<1>2. Bookkeeping'
  BY <1>0, Zenon DEF TypeOK, Bookkeeping, Undecided
<1>3. NotDueIsQueued'
  BY <1>0, Zenon DEF TypeOK, Bookkeeping, NotDueIsQueued, Awaited, Undecided
<1>4. HeldIsQueuedOrLate'
  BY <1>0, Zenon DEF TypeOK, Bookkeeping, HeldIsQueuedOrLate, Awaited, Undecided
<1> QED
  BY <1>1, <1>2, <1>3, <1>4, Zenon

\* The due feed leaves the queue and is released, and et moves past it.
LEMMA InvDrainDue ==
    ASSUME DetectorInv, pc = "drain", NEW top \in Tops(queue[FC(sf)]), DrainDue(top)
    PROVE  (LiveIffHeld /\ Bookkeeping /\ NotDueIsQueued /\ HeldIsQueuedOrLate)'
<1> USE DEF DetectorInv, hist, DrainDue, SetPre, Kill, Erase
<1>0. /\ \A m \in Statistics : m \in Message /\ FC(m) \in Feedcode /\ TS(m) \in Int
      /\ sf \in Statistics /\ FC(sf) \in Feedcode /\ INTERVAL \in Nat /\ INTERVAL > 0
  BY StatisticsFields, IntervalAssumption DEF TypeOK
<1>1. /\ top \in queue[FC(sf)] /\ top \in Statistics /\ FC(top) = FC(sf) /\ top \in sf_to_m
      /\ \A m \in queue[FC(sf)] : TS(top) <= TS(m)
  BY <1>0, Zenon DEF Tops, TypeOK, Bookkeeping
<1>2. LiveIffHeld'
  BY <1>0, <1>1 DEF TypeOK, LiveIffHeld
<1>3. Bookkeeping'
  BY <1>0, <1>1, SMTT(30) DEF TypeOK, Bookkeeping, Undecided
<1>4. NotDueIsQueued'
  BY <1>0, <1>1, SMTT(30) DEF TypeOK, Bookkeeping, NotDueIsQueued, Awaited, Undecided
<1>5. HeldIsQueuedOrLate'
  BY <1>0, <1>1, SMTT(30) DEF TypeOK, Bookkeeping, HeldIsQueuedOrLate, Awaited, Undecided
<1> QED
  BY <1>2, <1>3, <1>4, <1>5, Zenon

\* A feed older than et leaves the queue and is released.
LEMMA InvDrainOld ==
    ASSUME DetectorInv, pc = "drain", NEW top \in Tops(queue[FC(sf)]), DrainOld(top)
    PROVE  (LiveIffHeld /\ Bookkeeping /\ NotDueIsQueued /\ HeldIsQueuedOrLate)'
<1> USE DEF DetectorInv, hist, DrainOld, Old, Kill, Erase
<1>0. /\ \A m \in Statistics : m \in Message /\ FC(m) \in Feedcode /\ TS(m) \in Int
      /\ sf \in Statistics /\ FC(sf) \in Feedcode /\ INTERVAL \in Nat /\ INTERVAL > 0
  BY StatisticsFields, IntervalAssumption DEF TypeOK
<1>1. /\ top \in queue[FC(sf)] /\ top \in Statistics /\ FC(top) = FC(sf) /\ top \in sf_to_m
      /\ \A m \in queue[FC(sf)] : TS(top) <= TS(m)
  BY <1>0, Zenon DEF Tops, TypeOK, Bookkeeping
<1>2. LiveIffHeld'
  BY <1>0, <1>1 DEF TypeOK, LiveIffHeld
<1>3. Bookkeeping'
  BY <1>0, <1>1 DEF TypeOK, Bookkeeping, Undecided
<1>4. NotDueIsQueued'
  BY <1>0, <1>1, SMTT(30) DEF TypeOK, Bookkeeping, NotDueIsQueued, Awaited, Undecided
<1>5. HeldIsQueuedOrLate'
  BY <1>0, <1>1, Zenon DEF TypeOK, Bookkeeping, HeldIsQueuedOrLate, Awaited, Undecided
<1> QED
  BY <1>2, <1>3, <1>4, <1>5, Zenon

\* Leaving the drain loop stores et, or the timestamp after it.
LEMMA InvDrainEnd ==
    ASSUME DetectorInv, DrainEnd
    PROVE  (LiveIffHeld /\ Bookkeeping /\ NotDueIsQueued /\ HeldIsQueuedOrLate)'
<1> USE DEF DetectorInv, marks, DrainEnd, SetExpectTimestamp, Return
<1>0. /\ \A m \in Statistics : m \in Message /\ FC(m) \in Feedcode /\ TS(m) \in Int
      /\ sf \in Statistics /\ FC(sf) \in Feedcode /\ INTERVAL \in Nat /\ INTERVAL > 0
  BY StatisticsFields, IntervalAssumption DEF TypeOK
<1>1. LiveIffHeld'
  BY Zenon DEF LiveIffHeld
<1>2. Bookkeeping'
  BY <1>0, Zenon DEF TypeOK, Bookkeeping, Undecided
<1>3. /\ pc = "drain" /\ pc' = "idle"
      /\ UNCHANGED <<context, queue, received, sf_to_m>>
      /\ \A f \in Feedcode : Awaited(f) <= Awaited(f)'
      /\ \A f \in Feedcode : Awaited(f) \in Int /\ Awaited(f)' \in Int
  <2>1. /\ pc = "drain" /\ pc' = "idle" /\ UNCHANGED <<context, queue, received, sf_to_m>>
        /\ et \in Int /\ expectTimestamp \in [Feedcode -> Int]
        /\ \E t \in {et, et + INTERVAL} : expectTimestamp' = [expectTimestamp EXCEPT ![FC(sf)] = t]
    BY Zenon DEF TypeOK
  <2> HIDE DEF DetectorInv, marks, DrainEnd, SetExpectTimestamp, Return
  <2>2. PICK t \in {et, et + INTERVAL} : expectTimestamp' = [expectTimestamp EXCEPT ![FC(sf)] = t]
    BY <2>1, Zenon
  <2>3. et \in Int /\ t \in Int /\ et <= t
    BY <1>0, <2>1, <2>2
  <2>4. ASSUME NEW f \in Feedcode
        PROVE  Awaited(f) <= Awaited(f)' /\ Awaited(f) \in Int /\ Awaited(f)' \in Int
    <3>1. Awaited(f) = IF FC(sf) = f THEN et ELSE expectTimestamp[f]
      BY <2>1, Zenon DEF Awaited
    <3>2. Awaited(f)' = expectTimestamp'[f]
      BY <2>1 DEF Awaited
    <3>3. expectTimestamp[f] \in Int /\ expectTimestamp'[f] = IF f = FC(sf) THEN t ELSE expectTimestamp[f]
      BY <2>1, <2>2
    <3> QED
      BY <2>3, <3>1, <3>2, <3>3
  <2> QED
    BY <2>1, <2>4, Zenon
<1>4. NotDueIsQueued'
  BY <1>0, <1>3, SMTT(30) DEF NotDueIsQueued, Undecided
<1>5. HeldIsQueuedOrLate'
  BY <1>0, <1>3 DEF TypeOK, HeldIsQueuedOrLate, Undecided
<1> QED
  BY <1>1, <1>2, <1>4, <1>5, Zenon

\* Every step preserves the inductive invariant.
LEMMA InvNext ==
    ASSUME DetectorInv, [DPNext]_dpVars
    PROVE  DetectorInv'
<1>1. TypeOK'
  BY TypeNext, Zenon DEF DetectorInv
<1>2. (LiveIffHeld /\ Bookkeeping /\ NotDueIsQueued /\ HeldIsQueuedOrLate)'
  <2>1. CASE \E m \in Message : Exec(m)
    BY <2>1, InvExec, Zenon
  <2>2. CASE Hold
    BY <2>2, InvHold, Zenon
  <2>3. CASE Lookup
    BY <2>3, InvLookup
  <2>4. CASE GetContext
    BY <2>4, InvGetContext
  <2>5. CASE InitContext
    BY <2>5, InvInitContext
  <2>6. CASE OnTime
    BY <2>6, InvOnTime
  <2>7. CASE Delay
    BY <2>7, InvDelay
  <2>8. CASE Enqueue
    BY <2>8, InvEnqueue
  <2>9. CASE pc = "drain" /\ \E top \in Tops(queue[FC(sf)]) : DrainDue(top) \/ DrainOld(top)
    BY <2>9, InvDrainDue, InvDrainOld, Zenon
  <2>10. CASE DrainEnd
    BY <2>10, InvDrainEnd
  <2>11. CASE Restart
    BY <2>11, InvRestart, Zenon
  <2>12. CASE UNCHANGED dpVars
    BY <2>12, Zenon DEF DetectorInv, dpVars, exec, ctxs, marks, hist, LiveIffHeld, Bookkeeping, NotDueIsQueued,
                 HeldIsQueuedOrLate, Awaited
  <2> QED
    BY <2>1, <2>2, <2>3, <2>4, <2>5, <2>6, <2>7, <2>8, <2>9, <2>10, <2>11, <2>12, Zenon
    DEF DPNext, ExecStep
<1> QED
  BY <1>1, <1>2, Zenon DEF DetectorInv

\* The inductive invariant always holds.
THEOREM Invariance == DPSpec => []DetectorInv
<1>1. DPInit => DetectorInv
  BY InvInit
<1>2. DetectorInv /\ [DPNext]_dpVars => DetectorInv'
  BY InvNext
<1> QED
  BY <1>1, <1>2, PTL DEF DPSpec

\* kill() never fails its assertion: a held message has _live = 1 and any other
\* 0, in whatever order feeds arrive.
THEOREM LiveCountCorrect == DPSpec => []LiveIffHeld
<1>1. DetectorInv => LiveIffHeld
  BY Zenon DEF DetectorInv
<1> QED
  BY <1>1, Invariance, PTL

\* exec finds its own records as it left them: a queued feed is held and of
\* its instrument, and a context is used only once its fields are set.
THEOREM BookkeepingCorrect == DPSpec => []Bookkeeping
<1>1. DetectorInv => Bookkeeping
  BY Zenon DEF DetectorInv
<1> QED
  BY <1>1, Invariance, PTL

\* No feed that is still to come due is ever dropped from the queue.
THEOREM NoFeedForgotten == DPSpec => []NotDueIsQueued
<1>1. DetectorInv => NotDueIsQueued
  BY Zenon DEF DetectorInv
<1> QED
  BY <1>1, Invariance, PTL

\* What exec holds is queued, in work, or was late.
THEOREM HeldAccounted == DPSpec => []HeldIsQueuedOrLate
<1>1. DetectorInv => HeldIsQueuedOrLate
  BY Zenon DEF DetectorInv
<1> QED
  BY <1>1, Invariance, PTL

-----------------------------------------------------------------------------
(* How far an instrument's queue outgrows its limit.  A feed is queued     *)
(* once per call of exec, and a call that leaves more than MAXQUEUE feeds  *)
(* behind gives up one more timestamp.  The argument needs that this       *)
(* timestamp was not given up before: what was given up is behind the      *)
(* awaited timestamp.                                                      *)

\* The step exec is in adds at most one feed to the queue of its instrument.
Slack(f) == IF pc = "drain" /\ FC(sf) = f THEN 1 ELSE 0

\* Steps that leave the queues and the missed timestamps alone, do not enter
\* or leave the drain loop and move no awaited timestamp back.
LEMMA QUnchanged ==
    ASSUME QInv, UNCHANGED <<queue, missed>>,
           \A f \in Feedcode : Slack(f)' = Slack(f),
           \A f \in Feedcode : missed[f] # {} => Awaited(f) <= Awaited(f)',
           \A f \in Feedcode : Awaited(f) \in Int /\ Awaited(f)' \in Int /\ missed[f] \subseteq Int
    PROVE  QInv'
BY DEF QInv, MissedIsPast, Finite, QueueBound, Slack

\* The cardinalities QueueBound compares are natural numbers.
LEMMA Sizes ==
    ASSUME Finite, NEW f \in Feedcode
    PROVE  Cardinality(queue[f]) \in Nat /\ Cardinality(missed[f]) \in Nat
BY FS_CardinalityType, Zenon DEF Finite

\* Waiting in the queue.
LEMMA QEnqueue ==
    ASSUME DetectorInv, QInv, Enqueue
    PROVE  QInv'
<1>0. /\ sf \in Statistics /\ FC(sf) \in Feedcode /\ pc = "compare" /\ pc' = "drain" /\ sf' = sf
      /\ UNCHANGED missed /\ sf \notin queue[FC(sf)]
      /\ queue' = [queue EXCEPT ![FC(sf)] = @ \cup {sf}]
  BY StatisticsFields, Zenon DEF DetectorInv, TypeOK, Bookkeeping, Undecided, Enqueue, hist
<1>1. \A f \in Feedcode : Awaited(f)' = Awaited(f)
  BY <1>0, Zenon DEF Enqueue, Awaited
<1>2. MissedIsPast'
  BY <1>0, <1>1, Zenon DEF QInv, MissedIsPast
<1>3. /\ queue'[FC(sf)] = queue[FC(sf)] \cup {sf}
      /\ \A f \in Feedcode : f # FC(sf) => queue'[f] = queue[f]
  BY <1>0, Zenon DEF DetectorInv, TypeOK
<1>4. /\ IsFiniteSet(queue'[FC(sf)])
      /\ Cardinality(queue'[FC(sf)]) = Cardinality(queue[FC(sf)]) + 1
  BY <1>0, <1>3, FS_AddElement DEF QInv, Finite
<1>5. Finite'
  BY <1>0, <1>3, <1>4, Zenon DEF QInv, Finite
<1>6. QueueBound'
  <2>1. \A f \in Feedcode : Cardinality(queue[f]) \in Nat /\ Cardinality(missed[f]) \in Nat
    BY Sizes, Zenon DEF QInv
  <2>2. \A f \in Feedcode : f # FC(sf) => Cardinality(queue'[f]) <= MAXQUEUE + Cardinality(missed[f])
    BY <1>0, <1>3, <2>1, MaxQueueAssumption DEF QInv, QueueBound
  <2>3. Cardinality(queue'[FC(sf)]) <= MAXQUEUE + Cardinality(missed[FC(sf)]) + 1
    BY <1>0, <1>4, <2>1, MaxQueueAssumption DEF QInv, QueueBound
  <2>4. ASSUME NEW f \in Feedcode
        PROVE  Cardinality(queue'[f]) <=
                   MAXQUEUE + Cardinality(missed[f]) + (IF FC(sf) = f THEN 1 ELSE 0)
    BY <2>1, <2>2, <2>3, MaxQueueAssumption
  <2> QED
    BY <1>0, <2>4, Zenon DEF QueueBound
<1> QED
  BY <1>2, <1>5, <1>6, Zenon DEF QInv

\* Leaving the queue.
LEMMA QDrain ==
    ASSUME DetectorInv, QInv, pc = "drain", NEW top \in Tops(queue[FC(sf)]),
           DrainDue(top) \/ DrainOld(top)
    PROVE  QInv'
<1>0. /\ sf \in Statistics /\ FC(sf) \in Feedcode /\ pc' = "drain" /\ sf' = sf
      /\ UNCHANGED missed /\ top \in queue[FC(sf)]
      /\ queue' = [queue EXCEPT ![FC(sf)] = @ \ {top}]
  BY StatisticsFields, Zenon DEF DetectorInv, TypeOK, DrainDue, DrainOld, hist, Tops
<1>1. \A f \in Feedcode : Awaited(f) \in Int /\ Awaited(f)' \in Int /\ Awaited(f) <= Awaited(f)'
  BY <1>0, IntervalAssumption, SMTT(30) DEF DetectorInv, TypeOK, DrainDue, DrainOld, Awaited
<1>2. MissedIsPast'
  BY <1>0, <1>1 DEF DetectorInv, TypeOK, QInv, MissedIsPast
<1>3. /\ queue'[FC(sf)] = queue[FC(sf)] \ {top}
      /\ \A f \in Feedcode : f # FC(sf) => queue'[f] = queue[f]
  BY <1>0, Zenon DEF DetectorInv, TypeOK
<1>4. /\ IsFiniteSet(queue'[FC(sf)])
      /\ Cardinality(queue'[FC(sf)]) = Cardinality(queue[FC(sf)]) - 1
  BY <1>0, <1>3, FS_RemoveElement, Zenon DEF QInv, Finite
<1>5. Finite'
  BY <1>0, <1>3, <1>4, Zenon DEF QInv, Finite
<1>6. QueueBound'
  <2>1. \A f \in Feedcode : Cardinality(queue[f]) \in Nat /\ Cardinality(missed[f]) \in Nat
    BY Sizes, Zenon DEF QInv
  <2>2. \A f \in Feedcode : f # FC(sf) => Cardinality(queue'[f]) <= MAXQUEUE + Cardinality(missed[f])
    BY <1>0, <1>3, <2>1, MaxQueueAssumption, SMTT(30) DEF QInv, QueueBound
  <2>3. Cardinality(queue'[FC(sf)]) <= MAXQUEUE + Cardinality(missed[FC(sf)]) + 1
    BY <1>0, <1>4, <2>1, MaxQueueAssumption, SMTT(30) DEF QInv, QueueBound
  <2> QED
    BY <1>0, <2>1, <2>2, <2>3, MaxQueueAssumption DEF QueueBound
<1> QED
  BY <1>2, <1>5, <1>6, Zenon DEF QInv

\* The end of the drain loop: the queue is within the limit, or one more
\* timestamp is given up.
LEMMA QDrainEnd ==
    ASSUME DetectorInv, QInv, DrainEnd
    PROVE  QInv'
<1>0. /\ sf \in Statistics /\ FC(sf) \in Feedcode /\ pc = "drain" /\ pc' = "idle"
      /\ UNCHANGED queue /\ et \in Int /\ Awaited(FC(sf)) = et
      /\ INTERVAL \in Nat /\ INTERVAL > 0
  BY StatisticsFields, IntervalAssumption, SMTT(30) DEF DetectorInv, TypeOK, DrainEnd, Return, Awaited
<1>1. CASE ~Overfull
  <2>1. UNCHANGED missed /\ \A f \in Feedcode : Awaited(f)' = Awaited(f)
    BY <1>0, <1>1, Zenon DEF DetectorInv, TypeOK, DrainEnd, SetExpectTimestamp, Return, Awaited
  <2>2. QueueBound'
    BY <1>0, <1>1, <2>1, Sizes, MaxQueueAssumption DEF QInv, QueueBound, Overfull
  <2> QED
    BY <1>0, <2>1, <2>2, Zenon DEF QInv, MissedIsPast, Finite
<1>2. CASE Overfull
  <2>1. /\ missed' = [missed EXCEPT ![FC(sf)] = @ \cup {et}]
        /\ expectTimestamp' = [expectTimestamp EXCEPT ![FC(sf)] = et + INTERVAL]
    BY <1>2, Zenon DEF DrainEnd, SetExpectTimestamp
  <2>2. /\ missed'[FC(sf)] = missed[FC(sf)] \cup {et}
        /\ \A f \in Feedcode : f # FC(sf) => missed'[f] = missed[f]
    BY <1>0, <2>1, Zenon DEF DetectorInv, TypeOK
  <2>3. \A f \in Feedcode : Awaited(f)' = IF f = FC(sf) THEN et + INTERVAL ELSE Awaited(f)
    BY <1>0, <2>1, Zenon DEF DetectorInv, TypeOK, Awaited
  <2>4. et \notin missed[FC(sf)]
    BY <1>0 DEF QInv, MissedIsPast
  <2>5. MissedIsPast'
    <3>1. \A f \in Feedcode : f # FC(sf) => \A t \in missed'[f] : t < Awaited(f)'
      BY <2>2, <2>3, Zenon DEF QInv, MissedIsPast
    <3>2. \A t \in missed[FC(sf)] : t \in Int /\ t < et
      BY <1>0, Zenon DEF DetectorInv, TypeOK, QInv, MissedIsPast
    <3>3. \A f \in Feedcode : f = FC(sf) => \A t \in missed'[f] : t < Awaited(f)'
      BY <1>0, <2>2, <2>3, <3>2
    <3> QED
      BY <3>1, <3>3, Zenon DEF MissedIsPast
  <2>6. /\ IsFiniteSet(missed'[FC(sf)])
        /\ Cardinality(missed'[FC(sf)]) = Cardinality(missed[FC(sf)]) + 1
    <3>1. IsFiniteSet(missed[FC(sf)])
      BY <1>0, Zenon DEF QInv, Finite
    <3> QED
      BY <2>2, <2>4, <3>1, FS_AddElement, Zenon
  <2>7. Finite'
    BY <1>0, <2>2, <2>6, Zenon DEF QInv, Finite
  <2>8. QueueBound'
    <3>1. \A f \in Feedcode : Cardinality(queue[f]) \in Nat /\ Cardinality(missed[f]) \in Nat
      BY Sizes DEF QInv
    <3>2. \A f \in Feedcode : f # FC(sf) => Cardinality(queue[f]) <= MAXQUEUE + Cardinality(missed'[f])
      BY <1>0, <2>2, <3>1, MaxQueueAssumption DEF QInv, QueueBound
    <3>3. Cardinality(queue[FC(sf)]) <= MAXQUEUE + Cardinality(missed'[FC(sf)])
      BY <1>0, <2>6, <3>1, MaxQueueAssumption DEF QInv, QueueBound
    <3>4. \A f \in Feedcode : Cardinality(missed'[f]) \in Nat
      BY <2>7, FS_CardinalityType, Zenon DEF Finite
    <3>5. \A f \in Feedcode : Cardinality(queue'[f]) <= MAXQUEUE + Cardinality(missed'[f])
      BY <1>0, <3>2, <3>3, Zenon
    <3> QED
      BY <1>0, <3>4, <3>5, MaxQueueAssumption DEF QueueBound
  <2> QED
    BY <2>5, <2>7, <2>8 DEF QInv
<1> QED
  BY <1>1, <1>2, Zenon

\* The other steps.
LEMMA QOthers ==
    ASSUME DetectorInv, QInv,
           \/ \E m \in Message : Exec(m)
           \/ Hold \/ Lookup \/ GetContext \/ InitContext \/ OnTime \/ Delay
           \/ UNCHANGED dpVars
    PROVE  QInv'
<1> USE DEF ctxs, hist, Return
<1>0. /\ pc # "idle" => sf \in Statistics /\ FC(sf) \in Feedcode /\ TS(sf) \in Int
      /\ \A f \in Feedcode : /\ expectTimestamp[f] \in Int /\ missed[f] \subseteq Int
                             /\ context[f] # "ready" => missed[f] = {} /\ queue[f] = {}
                             /\ Awaited(f) \in Int
      /\ expectTimestamp \in [Feedcode -> Int] /\ queue \in [Feedcode -> SUBSET Statistics]
      /\ INTERVAL \in Nat
  BY StatisticsFields, IntervalAssumption, Zenon DEF DetectorInv, TypeOK, Bookkeeping, Awaited
<1>1. CASE \/ \E m \in Message : Exec(m)
           \/ Hold \/ GetContext \/ Delay \/ UNCHANGED dpVars
  <2>1. /\ UNCHANGED <<queue, missed, expectTimestamp>>
        /\ pc = "drain" <=> pc' = "drain"
        /\ pc = "drain" => sf' = sf /\ et' = et
    BY <1>1, Zenon DEF Exec, Hold, GetContext, Delay, dpVars, exec
  <2>2. \A f \in Feedcode : Slack(f)' = Slack(f) /\ Awaited(f)' = Awaited(f)
    BY <2>1, Zenon DEF Slack, Awaited
  <2> QED
    BY <1>0, <2>1, <2>2, QUnchanged, SMTT(30)
<1>2. CASE Lookup
  <2>1. /\ UNCHANGED <<missed, expectTimestamp>> /\ pc = "lookup" /\ pc' # "drain"
        /\ queue' = queue \/ (context[FC(sf)] = "none" /\ queue' = [queue EXCEPT ![FC(sf)] = {}])
    BY <1>2, Zenon DEF Lookup, Has, Create
  <2>2. queue' = queue
    <3>1. context[FC(sf)] = "none" => queue[FC(sf)] = {}
      BY <1>0, <2>1, Zenon
    <3>2. queue[FC(sf)] = {} => [queue EXCEPT ![FC(sf)] = {}] = queue
      BY <1>0, <2>1, Zenon
    <3> QED
      BY <2>1, <3>1, <3>2, Zenon
  <2>3. \A f \in Feedcode : Slack(f)' = Slack(f) /\ Awaited(f)' = Awaited(f)
    BY <2>1, Zenon DEF Slack, Awaited
  <2> QED
    BY <1>0, <2>1, <2>2, <2>3, QUnchanged
<1>3. CASE InitContext
  <2>1. /\ UNCHANGED <<missed, queue>> /\ pc = "init" /\ pc' = "found" /\ context[FC(sf)] = "new"
        /\ expectTimestamp' = [expectTimestamp EXCEPT ![FC(sf)] = TS(sf)]
    BY <1>3, Zenon DEF InitContext, SetExpectTimestamp, DetectorInv, Bookkeeping
  <2>2. \A f \in Feedcode : /\ Slack(f)' = Slack(f) /\ Awaited(f)' \in Int
                            /\ f # FC(sf) => Awaited(f)' = Awaited(f)
    BY <1>0, <2>1, Zenon DEF Slack, Awaited
  <2>3. missed[FC(sf)] = {}
    BY <1>0, <2>1, Zenon
  <2>4. \A f \in Feedcode : missed[f] # {} => Awaited(f) <= Awaited(f)'
    BY <1>0, <2>2, <2>3, SMTT(30)
  <2> QED
    BY <1>0, <2>1, <2>2, <2>4, QUnchanged, Zenon
<1>4. CASE OnTime
  <2>1. /\ UNCHANGED <<missed, queue>> /\ pc = "compare" /\ pc' = "idle"
        /\ expectTimestamp' = [expectTimestamp EXCEPT ![FC(sf)] = expectTimestamp[FC(sf)] + INTERVAL]
    BY <1>4, Zenon DEF OnTime, SetExpectTimestamp
  <2>2. \A f \in Feedcode : /\ Slack(f)' = Slack(f) /\ Awaited(f)' \in Int
                            /\ Awaited(f) <= Awaited(f)'
    BY <1>0, <2>1 DEF Slack, Awaited
  <2> QED
    BY <1>0, <2>1, <2>2, QUnchanged, Zenon
<1> QED
  BY <1>1, <1>2, <1>3, <1>4, Zenon

LEMMA QInit == DPInit => QInv
BY FS_EmptySet, MaxQueueAssumption DEF DPInit, QInv, MissedIsPast, Finite, QueueBound

LEMMA QNext ==
    ASSUME DetectorInv, QInv, [DPNext]_dpVars
    PROVE  QInv'
<1>1. CASE Restart
  BY <1>1, FS_EmptySet, MaxQueueAssumption, SMTT(30) DEF Restart, QInv, MissedIsPast, Finite, QueueBound
<1> QED
  BY <1>1, QEnqueue, QDrain, QDrainEnd, QOthers, Zenon DEF DPNext, ExecStep

\* However many feeds run ahead of a lost one, the queue of an instrument
\* exceeds MAXQUEUE by no more than the number of timestamps given up.
THEOREM ExecQueueBound == DPSpec => []QueueBound
<1>1. DetectorInv /\ QInv /\ [DPNext]_dpVars => QInv'
  BY QNext, Zenon
<1>2. QInv => QueueBound
  BY Zenon DEF QInv
<1> QED
  BY <1>1, <1>2, QInit, Invariance, PTL DEF DPSpec

-----------------------------------------------------------------------------
(* exec implements the ledger of settled timestamps, and so leaves no gap  *)
(* unnoticed.  Every step of exec is a step of the ledger or leaves it     *)
(* alone:                                                                  *)
(*                                                                         *)
(*   Exec         Arrive (statistics)                                      *)
(*   InitContext  Start                                                    *)
(*   OnTime       Settle                                                   *)
(*   DrainDue     Settle                                                   *)
(*   DrainEnd     Report (overfull)                                        *)
(*   Restart      Reset                                                    *)

\* The instruments whose context is set up.
Ready == {f \in Feedcode : context[f] = "ready"}

\* A step that changes none of the mapped values does not change the ledger.
LEMMA Stutter ==
    ASSUME UNCHANGED <<base, missed, Ready>>,
           \A f \in Feedcode : UNCHANGED Arrived(f) /\ UNCHANGED Awaited(f)
    PROVE  UNCHANGED Ledger!slVars
BY Zenon DEF Ledger!slVars, Ready

\* A received statistics feed has arrived.
LEMMA ReceivedArrived ==
    ASSUME TypeOK, NEW m \in received, m \in Statistics
    PROVE  TS(m) \in Arrived(FC(m))
BY Zenon DEF Arrived

\* exec's entry.
LEMMA StepExec ==
    ASSUME DetectorInv, NEW m \in Message, Exec(m)
    PROVE  [Ledger!SLNext]_(Ledger!slVars)
<1>0. /\ \A f \in Feedcode : UNCHANGED Awaited(f)
      /\ UNCHANGED <<base, missed, Ready>>
  BY Zenon DEF DetectorInv, TypeOK, Exec, Awaited, ctxs, Ready
<1>1. CASE ~Accepts(m)
  <2>1. m \notin Statistics
    BY <1>1, Zenon DEF Accepts, Statistics
  <2>2. \A f \in Feedcode : UNCHANGED Arrived(f)
    BY <2>1, Zenon DEF Exec, Arrived
  <2> QED
    BY <1>0, <2>2, Stutter, Zenon
<1>2. CASE Accepts(m)
  <2>1. m \in Statistics /\ FC(m) \in Feedcode /\ received' = received \cup {m}
    BY <1>2, StatisticsFields, Zenon DEF Accepts, Statistics, Exec
  <2>2. \A f \in Feedcode :
           Arrived(f)' = IF f = FC(m) THEN Arrived(f) \cup {TS(m)} ELSE Arrived(f)
    BY <2>1, Zenon DEF Arrived
  <2>3. Ledger!Arrive(FC(m), TS(m))
    BY <1>0, <2>1, <2>2, Zenon DEF Ledger!Arrive, Ready
  <2>4. TS(m) \in {TS(n) : n \in Statistics}
    BY <2>1, Zenon
  <2> QED
    BY <2>1, <2>3, <2>4, Zenon DEF Ledger!SLNext
<1> QED
  BY <1>1, <1>2, Zenon

\* The first feed of an instrument opens its ledger.
LEMMA StepInitContext ==
    ASSUME DetectorInv, InitContext
    PROVE  Ledger!SLNext
<1>0. /\ sf \in Statistics /\ sf \in received /\ FC(sf) \in Feedcode /\ TS(sf) \in Int
      /\ pc = "init" /\ context[FC(sf)] = "new"
  BY StatisticsFields, Zenon DEF DetectorInv, TypeOK, Bookkeeping, InitContext
<1>1. \A f \in Feedcode : UNCHANGED Arrived(f)
  BY Zenon DEF InitContext, Arrived
<1>2. TS(sf) \in Arrived(FC(sf))
  BY <1>0, ReceivedArrived, Zenon DEF DetectorInv
<1>3. \A f \in Feedcode : Awaited(f)' = IF f = FC(sf) THEN TS(sf) ELSE Awaited(f)
  BY <1>0, Zenon DEF DetectorInv, TypeOK, InitContext, SetExpectTimestamp, Awaited
<1>4. Ready' = Ready \cup {FC(sf)} /\ FC(sf) \notin Ready
  BY <1>0, Zenon DEF DetectorInv, TypeOK, InitContext, Ready
<1>5. Ledger!Start(FC(sf), TS(sf))
  BY <1>0, <1>1, <1>2, <1>3, <1>4, Zenon DEF InitContext, Ledger!Start, Ready
<1> DEFINE S == [f \in Feedcode |-> Arrived(f)][FC(sf)]
<1>6. TS(sf) \in S
  BY <1>0, <1>2, Zenon
<1>7. \E t \in S : Ledger!Start(FC(sf), t)
  <2> HIDE DEF S
  <2> DEFINE P(t) == Ledger!Start(FC(sf), t)
  <2>1. P(TS(sf))
    BY <1>5, Zenon
  <2> HIDE DEF P
  <2>2. \E t \in S : P(t)
    BY <1>6, <2>1, Zenon
  <2> QED
    BY <2>2, Zenon DEF P
<1> QED
  BY <1>0, <1>7, Zenon DEF Ledger!SLNext

\* The expected feed settles its timestamp.
LEMMA StepOnTime ==
    ASSUME DetectorInv, OnTime
    PROVE  Ledger!SLNext
<1>0. /\ sf \in Statistics /\ sf \in received /\ FC(sf) \in Feedcode /\ TS(sf) \in Int
      /\ pc = "compare" /\ FC(sf) \in Ready
  BY StatisticsFields, Zenon DEF DetectorInv, TypeOK, Bookkeeping, OnTime, Ready
<1>1. \A f \in Feedcode : UNCHANGED Arrived(f)
  BY Zenon DEF OnTime, hist, Arrived
<1>2. Awaited(FC(sf)) \in Arrived(FC(sf))
  BY <1>0, ReceivedArrived, Zenon DEF DetectorInv, OnTime, Expected, Awaited
<1>3. \A f \in Feedcode : Awaited(f)' = IF f = FC(sf) THEN Awaited(f) + INTERVAL ELSE Awaited(f)
  BY <1>0, Zenon DEF DetectorInv, TypeOK, OnTime, SetExpectTimestamp, Return, Awaited
<1>4. UNCHANGED <<base, missed, Ready>>
  BY Zenon DEF OnTime, hist, Ready
<1>5. Ledger!Settle(FC(sf))
  BY <1>0, <1>1, <1>2, <1>3, <1>4, Zenon DEF Ledger!Settle, Ready
<1> QED
  BY <1>0, <1>5, Zenon DEF Ledger!SLNext

\* A due feed taken off the queue settles its timestamp.
LEMMA StepDrainDue ==
    ASSUME DetectorInv, pc = "drain", NEW top \in Tops(queue[FC(sf)]), DrainDue(top)
    PROVE  Ledger!SLNext
<1>0. sf \in Statistics /\ FC(sf) \in Feedcode /\ FC(sf) \in Ready
  BY StatisticsFields, Zenon DEF DetectorInv, TypeOK, Bookkeeping, Ready
<1>1. top \in Statistics /\ top \in received /\ FC(top) = FC(sf)
  BY <1>0, Zenon DEF DetectorInv, TypeOK, Bookkeeping, Tops
<1>2. Awaited(FC(sf)) \in Arrived(FC(sf))
  BY <1>1, ReceivedArrived, Zenon DEF DetectorInv, DrainDue, Awaited
<1>3. \A f \in Feedcode : UNCHANGED Arrived(f)
  BY Zenon DEF DrainDue, hist, Arrived
<1>4. \A f \in Feedcode : Awaited(f)' = IF f = FC(sf) THEN Awaited(f) + INTERVAL ELSE Awaited(f)
  BY <1>0, Zenon DEF DetectorInv, TypeOK, DrainDue, Awaited
<1>5. UNCHANGED <<base, missed, Ready>>
  BY Zenon DEF DrainDue, hist, Ready
<1>6. Ledger!Settle(FC(sf))
  BY <1>0, <1>2, <1>3, <1>4, <1>5, Zenon DEF Ledger!Settle, Ready
<1> QED
  BY <1>0, <1>6, Zenon DEF Ledger!SLNext

\* The end of the drain loop reports the awaited timestamp, which has not
\* arrived, or settles nothing.
LEMMA StepDrainEnd ==
    ASSUME DetectorInv, DrainEnd
    PROVE  [Ledger!SLNext]_(Ledger!slVars)
<1>0. /\ sf \in Statistics /\ FC(sf) \in Feedcode /\ FC(sf) \in Ready /\ pc = "drain"
      /\ Awaited(FC(sf)) = et /\ et \in Int
  BY StatisticsFields, Zenon DEF DetectorInv, TypeOK, Bookkeeping, DrainEnd, Ready, Awaited
<1>1. \A f \in Feedcode : UNCHANGED Arrived(f)
  BY Zenon DEF DrainEnd, Arrived
<1>2. UNCHANGED <<base, Ready>>
  BY Zenon DEF DrainEnd, Ready
<1>3. CASE Overfull
  <2>1. et \notin Arrived(FC(sf))
    <3> SUFFICES ASSUME NEW m \in received \cap Statistics, FC(m) = FC(sf), TS(m) = et
                 PROVE  FALSE
      BY Zenon DEF Arrived
    <3>1. m \in queue[FC(sf)]
      BY <1>0 DEF DetectorInv, NotDueIsQueued, Undecided, Ready
    <3> QED
      BY <1>0, <3>1 DEF DrainEnd, NothingDue
  <2>2. \A f \in Feedcode : Awaited(f)' = IF f = FC(sf) THEN Awaited(f) + INTERVAL ELSE Awaited(f)
    BY <1>0, <1>3, Zenon DEF DetectorInv, TypeOK, DrainEnd, SetExpectTimestamp, Return, Awaited
  <2>3. missed' = [missed EXCEPT ![FC(sf)] = @ \cup {et}]
    BY <1>3, Zenon DEF DrainEnd
  <2>4. Ledger!Report(FC(sf))
    BY <1>0, <1>1, <1>2, <2>1, <2>2, <2>3, Zenon DEF Ledger!Report, Ready
  <2> QED
    BY <1>0, <2>4, Zenon DEF Ledger!SLNext
<1>4. CASE ~Overfull
  <2>1. \A f \in Feedcode : UNCHANGED Awaited(f)
    BY <1>0, <1>4, Zenon DEF DetectorInv, TypeOK, DrainEnd, SetExpectTimestamp, Return, Awaited
  <2> QED
    BY <1>1, <1>2, <1>4, <2>1, Stutter, Zenon DEF DrainEnd
<1> QED
  BY <1>3, <1>4, Zenon

\* The other steps of exec leave the ledger alone.
LEMMA StepOthers ==
    ASSUME DetectorInv,
           \/ Hold \/ Lookup \/ GetContext \/ Delay \/ Enqueue
           \/ pc = "drain" /\ \E top \in Tops(queue[FC(sf)]) : DrainOld(top)
           \/ UNCHANGED dpVars
    PROVE  UNCHANGED Ledger!slVars
<1> DEFINE Top == \E top \in Tops(queue[FC(sf)]) : DrainOld(top)
<1>1. UNCHANGED <<received, base, missed, expectTimestamp>>
  <2>1. CASE Hold
    BY <2>1, Zenon DEF Hold, ctxs, hist
  <2>2. CASE Lookup
    BY <2>2, Zenon DEF Lookup, hist
  <2>3. CASE GetContext
    BY <2>3, Zenon DEF GetContext, ctxs, hist
  <2>4. CASE Delay
    BY <2>4, Zenon DEF Delay, ctxs, hist
  <2>5. CASE Enqueue
    BY <2>5, Zenon DEF Enqueue, hist
  <2>6. CASE Top
    BY <2>6, Zenon DEF DrainOld, hist
  <2>7. CASE UNCHANGED dpVars
    BY <2>7, Zenon DEF dpVars, ctxs, hist
  <2> QED
    BY <2>1, <2>2, <2>3, <2>4, <2>5, <2>6, <2>7, Zenon
<1>2. UNCHANGED Ready
  <2>1. CASE Lookup
    <3>1. context \in [Feedcode -> {"none", "new", "ready"}]
      BY Zenon DEF DetectorInv, TypeOK
    <3> QED
      BY <2>1, <3>1, Zenon DEF Lookup, Has, Create, Ready
  <2>2. CASE ~Lookup
    <3>1. context' = context
      BY <2>2, Zenon DEF Hold, GetContext, Delay, Enqueue, DrainOld, dpVars, ctxs
    <3> QED
      BY <3>1, Zenon DEF Ready
  <2> QED
    BY <2>1, <2>2, Zenon
<1>3. \/ pc # "drain" /\ pc' # "drain"
      \/ pc # "drain" /\ sf' = sf /\ et' = expectTimestamp[FC(sf)]
      \/ pc' = pc /\ sf' = sf /\ et' = et
  <2>1. CASE Hold \/ Lookup \/ GetContext \/ Delay
    BY <2>1, Zenon DEF Hold, Lookup, GetContext, Delay, Return
  <2>2. CASE Enqueue
    BY <2>2, Zenon DEF Enqueue
  <2>3. CASE Top
    BY <2>3, Zenon DEF DrainOld
  <2>4. CASE UNCHANGED dpVars
    BY <2>4, Zenon DEF dpVars, exec
  <2> QED
    BY <2>1, <2>2, <2>3, <2>4, Zenon
<1>4. \A f \in Feedcode : UNCHANGED Arrived(f)
  BY <1>1, Zenon DEF Arrived
<1>5. \A f \in Feedcode : UNCHANGED Awaited(f)
  BY <1>1, <1>3, Zenon DEF Awaited
<1> QED
  BY <1>1, <1>2, <1>4, <1>5, Stutter, Zenon

\* Every step of exec is a step of the ledger or leaves it alone.
LEMMA StepNext ==
    ASSUME DetectorInv, [DPNext]_dpVars
    PROVE  [Ledger!SLNext]_(Ledger!slVars)
<1>1. CASE Restart
  <2>1. /\ \A f \in Feedcode : Arrived(f)' = {} /\ Awaited(f)' = 0
        /\ {f \in Feedcode : context[f] = "ready"}' = {}
    BY <1>1, Zenon DEF Restart, Arrived, Awaited
  <2>2. Ledger!Reset
    BY <1>1, <2>1, Zenon DEF Restart, Ledger!Reset
  <2> QED
    BY <2>2, Zenon DEF Ledger!SLNext
<1> QED
  BY <1>1, StepExec, StepInitContext, StepOnTime, StepDrainDue, StepDrainEnd, StepOthers, Zenon
  DEF DPNext, ExecStep

\* exec settles the timestamps of each instrument in order, each once, as
\* arrived or as missed, and never reports one whose feed it has been given.
THEOREM ExecImplementsLedger == DPSpec => ImplementsLedger
<1>1. DPInit => Ledger!SLInit
  <2> SUFFICES ASSUME DPInit PROVE Ledger!SLInit
    OBVIOUS
  <2>1. \A f \in Feedcode : Arrived(f) = {} /\ Awaited(f) = 0
    BY Zenon DEF DPInit, Arrived, Awaited
  <2> QED
    BY <2>1, Zenon DEF DPInit, Ledger!SLInit
<1>2. DetectorInv /\ [DPNext]_dpVars => [Ledger!SLNext]_(Ledger!slVars)
  BY StepNext, Zenon
<1> QED
  BY <1>1, <1>2, Invariance, PTL DEF DPSpec, ImplementsLedger, Ledger!SLSpec

\* Advancing expectTimestamp never hides a gap: every timestamp of the grid
\* exec has moved past has been received or reported as missed.
THEOREM ExecNoSilentGap == DPSpec => []NoSilentGap
<1>1. INTERVAL \in Nat \ {0} /\ {TS(m) : m \in Statistics} \subseteq Int
  BY IntervalAssumption, StatisticsFields, Zenon
<1>2. Ledger!SLSpec => []Ledger!NoSilentGap
  BY <1>1, Ledger!LedgerNoSilentGap, Zenon
<1> QED
  BY <1>2, ExecImplementsLedger, PTL DEF ImplementsLedger, NoSilentGap
=============================================================================
