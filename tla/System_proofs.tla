--------------------------- MODULE System_proofs ----------------------------
(***************************************************************************)
(* The theorems about the event loop and about the monitor, for any set of *)
(* messages, partitions and instruments and any number of crashes.  They   *)
(* put together what is proved of exec (DeficiencyProcessor_proofs), of    *)
(* the loop that calls it (EventLoop_proofs) and of the two threads        *)
(* (Monitor_proofs).                                                       *)
(***************************************************************************)
EXTENDS DeficiencyProcessor_proofs, EventLoop_proofs, Monitor_proofs

-----------------------------------------------------------------------------
(* The event loop.                                                         *)

LEMMA LoopStart == ELInit => LoopInv /\ QInv
<1>1. ELInit => DPInit
  BY Zenon DEF ELInit
<1> QED
  BY <1>1, InvInit, QInit, LoopInit

\* A step of the loop is a step of exec or leaves exec alone, so it keeps what
\* exec relies on, and then what the loop relies on.
LEMMA LoopKeeps ==
    ASSUME LoopInv, [ELNext]_elVars
    PROVE  LoopInv' /\ (QInv => QInv')
<1>1. DetectorInv
  BY Zenon DEF LoopInv
<1>2. [DPNext]_dpVars
  BY LoopRefines
<1>3. DetectorInv' /\ (QInv => QInv')
  BY <1>1, <1>2, InvNext, QNext
<1> QED
  BY <1>3, LoopNext

LEMMA Finiteness == FiniteFacts
BY FS_EmptySet, FS_Subset, FS_AddElement, FS_CardinalityType DEF FiniteFacts

\* However run() is interleaved with signals and broker errors and whatever
\* lines the producer refuses, it hands over each timestamp given up, each
\* feed held as late and each invalid price exactly once.
THEOREM ProblemsReportedOnce == ELSpec => []ReportedOnce
<1>1. ReportInv /\ [ELNext]_elVars => ReportInv'
  <2> SUFFICES ASSUME ReportInv, [ELNext]_elVars PROVE ReportInv'
    BY Zenon
  <2>1. LoopInv /\ QInv
    BY DEF ReportInv
  <2>2. LoopInv' /\ QInv'
    BY <2>1, LoopKeeps
  <2> QED
    BY <2>2, Finiteness, ReportNext
<1>2. ELInit => ReportInv
  BY LoopStart, Finiteness, ReportInit
<1> QED
  BY <1>1, <1>2, ReportSettled, PTL DEF ELSpec

-----------------------------------------------------------------------------
(* The monitor.                                                            *)

\* Whatever the two threads do, the processor takes a step of its own or none.
LEMMA StepRefines ==
    ASSUME MonitorInv, [Next]_vars
    PROVE  [DPNext]_dpVars
<1>1. CASE Loop
  <2>1. [ELNext]_elVars
    BY <1>1, Zenon DEF Loop, ELNext
  <2> QED
    BY <2>1, InvLoop, LoopRefines
<1>2. CASE Crash
  BY <1>2, Zenon DEF Crash, DPNext
<1>3. CASE Signal \/ UNCHANGED vars
  BY <1>3, Zenon DEF vars, elVars, Signal, Sigterm
<1>4. CASE BackupStep
  BY <1>4, Zenon DEF BackupStep, BackupLock, BackupRead, BackupProduce, BackupUnlock, StoreCommit, StorePop, elVars
<1> QED
  BY <1>1, <1>2, <1>3, <1>4 DEF Next

\* What Monitor_proofs takes from the loop.
LEMMA StepKeepsLoop ==
    ASSUME MonitorInv, [Next]_vars
    PROVE  LoopKept
<1>1. LoopInv /\ DetectorInv
  BY InvLoop DEF LoopInv
<1>2. DetectorInv'
  BY <1>1, StepRefines, InvNext
<1>3. [ELNext]_elVars => LoopInv'
  BY <1>1, LoopKeeps
<1>4. \A p \in Partition, m \in Message : Consume(p, m) => Reads(p, m)
  BY <1>1, ConsumeReads
<1> QED
  BY <1>2, <1>3, <1>4 DEF LoopKept

\* The invariant of the monitor: wherever the two threads are in each other's
\* steps, and however often the process has died, the offset queues, the
\* committed offsets, the live counts and the deleted messages agree.
THEOREM MonitorInvariance == Spec => []MonitorInv
<1>1. MonitorInv /\ [Next]_vars => MonitorInv'
  BY StepKeepsLoop, MonitorNext
<1>2. Init => MonitorInv
  <2>1. Init => ELInit
    BY Zenon DEF Init
  <2> QED
    BY <2>1, LoopStart, MonitorInit
<1> QED
  BY <1>1, <1>2, PTL DEF Spec

\* store_offset commits every partition in the order of its log and skips
\* nothing.
THEOREM CommitsInOrder == Spec => []CommitFollowsQueue
<1>1. MonitorInv => CommitFollowsQueue
  BY Zenon DEF MonitorInv
<1> QED
  BY <1>1, MonitorInvariance, PTL

\* No message the processor holds is committed, but for those store_offset met
\* before exec could mark them.
THEOREM HeldStaysUncommitted == Spec => []HeldIsUncommitted
BY InvHeld, MonitorInvariance, PTL

\* store_offset deletes no MyMessage twice.
THEOREM DeletedOnce == Spec => []NoDoubleDelete
BY InvDelete, MonitorInvariance, PTL

\* A feed reported as late is held, queued and uncommitted until the process
\* dies.
THEOREM LateBlocks == Spec => LateBlocksPartition
<1> DEFINE Blocks ==
             \A m \in sf_to_m :
                (HeldLate(m) /\ m \in InQueue(PartitionOf[m])) =>
                    \/ crashes' # crashes
                    \/ /\ HeldLate(m)' /\ m \in InQueue(PartitionOf[m])'
                       /\ (committed[PartitionOf[m]] < OffsetAfter(m))'
<1>1. MonitorInv /\ WaitsSafely' /\ [Next]_vars => [Blocks]_vars
  <2> SUFFICES ASSUME MonitorInv, WaitsSafely', [Next]_vars
               PROVE  Blocks
    BY Zenon
  <2> SUFFICES ASSUME NEW m \in sf_to_m, HeldLate(m), m \in InQueue(PartitionOf[m]), crashes' = crashes
               PROVE  /\ HeldLate(m)' /\ m \in InQueue(PartitionOf[m])'
                      /\ (committed[PartitionOf[m]] < OffsetAfter(m))'
    OBVIOUS
  <2>0. ~Crash
    BY SMTT(30) DEF Crash, MonitorInv, MonitorTypeOK
  <2>1. m \in Message /\ PartitionOf[m] \in Partition
    BY PartitionAssumption DEF MonitorInv, DetectorInv, TypeOK, Statistics
  <2>2. Waits(m)
    BY <2>1, InQueueWaits, Zenon DEF Waits
  <2>3. Waits(m)'
    BY <2>0, <2>2, StepKeepsLoop, WaitsStays
  <2>4. (\E n \in Message : Exec(n)) \/ ExecStep \/ UNCHANGED dpVars
    <3>1. CASE Loop
      BY <3>1, InvLoop, LoopIsExec DEF Loop
    <3>2. CASE ~Loop
      <4>1. CASE BackupStep
        BY <4>1, Zenon DEF BackupStep, BackupLock, BackupRead, BackupProduce, BackupUnlock, StoreCommit, StorePop, elVars
      <4> QED
        BY <2>0, <3>2, <4>1 DEF Next, vars, elVars, Signal, Sigterm
    <3> QED
      BY <3>1, <3>2, Zenon
  <2>5. HeldLate(m)'
    BY <2>1, <2>4, LateStays, Zenon DEF MonitorInv
  <2> QED
    BY <2>1, <2>3, <2>5 DEF WaitsSafely
<1>2. Spec => []WaitsSafely
  BY InvWaits, MonitorInvariance, PTL
<1> QED
  BY <1>1, <1>2, MonitorInvariance, PTL DEF Spec, LateBlocksPartition

-----------------------------------------------------------------------------
(* The processor inside the monitor.                                       *)

\* Whatever the two threads do, the processor takes steps of its own
\* specification only: each message once, one call of exec after the other,
\* and a new start after a crash.
THEOREM MonitorRunsDetector == Spec => DPSpec
<1>1. Init => DPInit
  BY Zenon DEF Init, ELInit
<1>2. MonitorInv /\ [Next]_vars => [DPNext]_dpVars
  BY StepRefines, Zenon
<1> QED
  BY <1>1, <1>2, MonitorInvariance, PTL DEF Spec, DPSpec

\* No gap goes unnoticed in the whole monitor: after any number of crashes,
\* every timestamp of the grid that exec has moved past since the process was
\* started was received or reported as missed.
THEOREM MonitorNoSilentGap == Spec => []NoSilentGap
BY MonitorRunsDetector, ExecNoSilentGap, PTL

\* The monitor implements the ledger of settled timestamps.
THEOREM MonitorImplementsLedger == Spec => ImplementsLedger
BY MonitorRunsDetector, ExecImplementsLedger, PTL
=============================================================================
