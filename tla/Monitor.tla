------------------------------ MODULE Monitor ------------------------------
(***************************************************************************)
(* The monitor process: the event loop and the backup thread side by side, *)
(* and the process dying and being started again.                          *)
(*                                                                         *)
(* The backup thread runs ContextMap::backupMetaData: it holds the map's   *)
(* mutex_ throughout, reads every context without the context's own lock,  *)
(* produces what it read, and then lets EventLoop::store_offset delete and *)
(* commit the messages nobody holds.  offset and _live are shared with the *)
(* event loop and guarded by nothing.                                      *)
(*                                                                         *)
(* An access to a deleted object has no defined outcome.  The model lets   *)
(* it read what was there before, and Crash covers the outcomes in which   *)
(* the process dies.                                                       *)
(***************************************************************************)
EXTENDS EventLoop

CONSTANT MaxCrash       \* how often the process may die

ASSUME MaxCrashAssumption == MaxCrash \in Nat

VARIABLES
    bpc,        \* where the backup thread is: "sleep", "read" or "store"
    toRead,     \* contexts backupMetaData has still to read
    metaData,   \* expectTimestamp of the contexts read in this pass
    backup,     \* the last metaData produced (external)
    toStore,    \* partitions store_offset has still to finish
    cur,        \* store_offset's cur: popped, not yet deleted
    deleted,    \* MyMessage objects that have been deleted
    committed,  \* offset committed per partition (external)
    crashes,    \* number of times the process has died
    unguarded   \* history: messages popped before the processor held them

backuper == <<bpc, toRead, metaData, toStore, cur>>
ghosts   == <<crashes, unguarded>>
bkVars   == <<backuper, backup, deleted, committed, ghosts>>
vars     == <<elVars, bkVars>>

Init ==
    /\ ELInit
    /\ bpc = "sleep"
    /\ toRead = {}
    /\ metaData = [f \in Feedcode |-> NULL]
    /\ backup = [f \in Feedcode |-> NULL]
    /\ toStore = {}
    /\ cur = NULL
    /\ deleted = {}
    /\ committed = [p \in Partition |-> 0]
    /\ crashes = 0
    /\ unguarded = {}

-----------------------------------------------------------------------------
(* The event-loop thread.                                                  *)

\* The steps of exec that take the ContextMap's mutex_.
NeedsMap == stage = "exec" /\ pc \in {"lookup", "created", "found"}

\* mutex_ is held by the backup thread.
MapLocked == bpc # "sleep"

Loop ==
    /\ LoopStep
    /\ NeedsMap => ~MapLocked
    /\ UNCHANGED bkVars

Signal == Sigterm /\ UNCHANGED bkVars

-----------------------------------------------------------------------------
(* The backup thread.                                                      *)

\* sleep is over: mutex_.lock().
BackupLock ==
    /\ bpc = "sleep"
    /\ bpc' = "read"
    /\ toRead' = {f \in Feedcode : context[f] # "none"}
    /\ UNCHANGED <<elVars, metaData, toStore, cur, backup, deleted, committed, ghosts>>

\* getExpectTimestamp() of an entry.  A context whose fields are not set yet
\* reads as whatever was in memory: NULL here.  Mutation: the timestamp after
\* the expected one is saved.
ReadAhead(f) == IF context[f] = "ready" THEN expectTimestamp[f] + INTERVAL ELSE NULL
ReadExpect(f) == IF context[f] = "ready" THEN expectTimestamp[f] ELSE NULL

\* One entry of myMap is read.
BackupRead(f) ==
    /\ bpc = "read"
    /\ f \in toRead
    /\ metaData' = [metaData EXCEPT ![f] = ReadExpect(f)]
    /\ toRead' = toRead \ {f}
    /\ UNCHANGED <<elVars, bpc, toStore, cur, backup, deleted, committed, ghosts>>

\* The entries of offset; mutation: the iteration starts at the second.
AllButOne == Partition \ {CHOOSE p \in Partition : TRUE}
AllPartitions == Partition

\* backuper->produce(metaData), then store_offset over all partitions.
BackupProduce ==
    /\ bpc = "read"
    /\ toRead = {}
    /\ backup' = metaData \/ UNCHANGED backup
    /\ metaData' = [f \in Feedcode |-> NULL]
    /\ bpc' = "store"
    /\ toStore' = AllPartitions
    /\ UNCHANGED <<elVars, toRead, cur, deleted, committed, ghosts>>

\* store_offset works on p: it stays with a partition until it is finished.
Storing(p) == bpc = "store" /\ p \in toStore /\ (cur # NULL => PartitionOf[cur] = p)

\* MyMessage::free(); mutation: it is not asked.
AlwaysFree(m) == TRUE
Free(m) == live[m] = 0

\* delete, unless the pointer is NULL; mutation: the test is missing.
DeleteUnseen(m) == deleted' = deleted \cup {m}
Delete(m) == deleted' = deleted \cup ({m} \ {NULL})

\* The front of the queue is free(): delete the previous one, pop this one.
StorePop(p) ==
    /\ Storing(p)
    /\ offset[p] # <<>>
    /\ Free(Head(offset[p]))
    /\ Delete(cur)
    /\ cur' = Head(offset[p])
    /\ offset' = [offset EXCEPT ![p] = Tail(@)]
    /\ unguarded' = IF Head(offset[p]) = message /\ (stage = "deficiency" \/ pc = "live")
                    THEN unguarded \cup {message} ELSE unguarded
    /\ UNCHANGED <<dpVars, loop, runTag, broker, sink>>
    /\ UNCHANGED <<bpc, toRead, metaData, toStore, backup, committed, crashes>>

\* The offset after message m, which commitAsync(m) commits.
OffsetAfter(m) == CHOOSE i \in DOMAIN log[PartitionOf[m]] : log[PartitionOf[m]][i] = m

\* commitAsync; mutation: the offset after the next message.
CommitNext(m) == committed' = [committed EXCEPT ![PartitionOf[m]] = OffsetAfter(m) + 1]
Commit(m) == committed' = [committed EXCEPT ![PartitionOf[m]] = OffsetAfter(m)]

\* cur goes out of scope; mutation: it outlives its partition.
KeepCur == UNCHANGED cur
DropCur == cur' = NULL

\* The queue is empty or its front is held: commit and delete cur.
StoreCommit(p) ==
    /\ Storing(p)
    /\ offset[p] # <<>> => ~Free(Head(offset[p]))
    /\ IF cur # NULL THEN Commit(cur) ELSE UNCHANGED committed
    /\ Delete(cur)
    /\ DropCur
    /\ toStore' = toStore \ {p}
    /\ UNCHANGED <<elVars, bpc, toRead, metaData, backup, ghosts>>

\* mutex_.unlock(); mutation: the call is missing.
NoUnlock == bpc' = "read"
Unlock == bpc' = "sleep"

\* The pass is over: back to sleep.
BackupUnlock ==
    /\ bpc = "store"
    /\ toStore = {}
    /\ Unlock
    /\ UNCHANGED <<elVars, toRead, metaData, toStore, cur, backup, deleted, committed, ghosts>>

BackupStep ==
    \/ BackupLock
    \/ \E f \in Feedcode : BackupRead(f)
    \/ BackupProduce
    \/ \E p \in Partition : StorePop(p) \/ StoreCommit(p)
    \/ BackupUnlock

-----------------------------------------------------------------------------

\* The process dies and is started again.  It resumes at the committed
\* offsets; nothing reads the backup topic.
Crash ==
    /\ crashes < MaxCrash
    /\ crashes' = crashes + 1
    /\ Restart
    /\ stage' = "consume" /\ message' = NULL /\ out' = <<>>
    /\ offset' = [p \in Partition |-> <<>>]
    /\ runTag' = TRUE
    /\ position' = committed
    /\ bpc' = "sleep" /\ toRead' = {} /\ toStore' = {} /\ cur' = NULL
    /\ metaData' = [f \in Feedcode |-> NULL]
    /\ deleted' = {}
    /\ unguarded' = {}
    /\ UNCHANGED <<log, sink, backup, committed>>

Next ==
    \/ Loop
    \/ Signal
    \/ BackupStep
    \/ Crash

Spec == Init /\ [][Next]_vars

\* The scheduler runs both threads.  The backup thread sleeps between two
\* passes, so mutex_ is free again and again and a loop step waiting for it
\* is not passed over for ever; the start of a round needs a message.
FairSpec ==
    /\ Spec
    /\ WF_vars(BackupStep)
    /\ SF_vars(Loop /\ stage # "consume")
    /\ WF_vars(Loop /\ stage = "consume" /\ ~runTag)

-----------------------------------------------------------------------------
(* Properties.                                                             *)

InQueue(p) == {offset[p][i] : i \in DOMAIN offset[p]}

\* Every variable of the two threads has its type.
MonitorTypeOK ==
    /\ LoopTypeOK
    /\ bpc \in {"sleep", "read", "store"}
    /\ toRead \subseteq Feedcode
    /\ metaData \in [Feedcode -> Int \cup {NULL}]
    /\ backup \in [Feedcode -> Int \cup {NULL}]
    /\ toStore \subseteq Partition
    /\ cur \in Message \cup {NULL}
    /\ deleted \subseteq Message
    /\ committed \in [Partition -> Nat]
    /\ crashes \in 0 .. MaxCrash
    /\ unguarded \subseteq Message

\* store_offset commits a partition in log order and skips nothing: what is
\* still queued is the end of what was consumed, and what is committed is
\* everything before it (less the messages popped in the pass under way).
CommitFollowsQueue ==
    \A p \in Partition :
        /\ Len(offset[p]) <= position[p]
        /\ offset[p] = SubSeq(log[p], position[p] - Len(offset[p]) + 1, position[p])
        /\ committed[p] <= position[p] - Len(offset[p])
        /\ (cur = NULL \/ PartitionOf[cur] # p) =>
               committed[p] = position[p] - Len(offset[p])

\* No MyMessage is deleted twice: what store_offset still owns, queued or in
\* cur, has not been deleted.
NoDoubleDelete ==
    /\ cur \notin deleted
    /\ \A p \in Partition : InQueue(p) \cap (deleted \cup {cur}) = {}

\* The count in MyMessage does its work: the offset of a message the processor
\* holds is not committed, so that it is delivered again after a crash.  The
\* one exception is a message that store_offset met between
\* offset[..].push and message->live(), while its count was still 0.
HeldIsUncommitted ==
    \A m \in sf_to_m \ unguarded :
        /\ m \in InQueue(PartitionOf[m])
        /\ committed[PartitionOf[m]] < OffsetAfter(m)

\* A context read without its lock may be old but is never ahead: the
\* expectTimestamp a pass reads is one the detector has reached.
BackupNotAhead ==
    \A f \in Feedcode :
        metaData[f] # NULL => context[f] = "ready" /\ base[f] <= metaData[f] /\ metaData[f] <= Awaited(f)

\* The messages of p that store_offset has taken off the queue.
Popped(p) == position[p] - Len(offset[p])

\* m was consumed, and store_offset has taken it off the queue, or not yet.
Taken(m) == \E i \in 1 .. Popped(PartitionOf[m]) : log[PartitionOf[m]][i] = m
Waits(m) == \E i \in Popped(PartitionOf[m]) + 1 .. position[PartitionOf[m]] : log[PartitionOf[m]][i] = m

\* cur is the last message taken off its partition's queue, and what was
\* deleted was taken off before.
StoreOwns ==
    /\ cur # NULL => /\ Storing(PartitionOf[cur])
                     /\ Popped(PartitionOf[cur]) > 0
                     /\ log[PartitionOf[cur]][Popped(PartitionOf[cur])] = cur
    /\ \A m \in deleted : m # cur /\ Taken(m)

\* A message exec has not marked yet waits, and so does one it holds, unless
\* store_offset met it before it was marked.
HeldWaits ==
    /\ (stage = "deficiency" \/ pc = "live") => message \in unguarded \/ Waits(message)
    /\ \A m \in sf_to_m : m \in unguarded \/ Waits(m)

\* The expected timestamp of a context starts at its first feed and is not
\* ahead of the one exec waits for.
ExpectReached ==
    \A f \in Feedcode :
        context[f] = "ready" => base[f] <= expectTimestamp[f] /\ expectTimestamp[f] <= Awaited(f)

\* The inductive invariant of the monitor: the detector's, together with what
\* the two threads, the topic and the committed offsets know of each other,
\* wherever store_offset and exec are in each other's steps.  No message is
\* deleted twice follows from it.
MonitorInv ==
    /\ DetectorInv /\ MonitorTypeOK
    /\ OneMessage /\ ReadOnce
    /\ CommitFollowsQueue /\ StoreOwns /\ HeldWaits
    /\ ExpectReached /\ BackupNotAhead

\* A feed reported as late is never let go, and keeps its place in the offset
\* queue for as long as the process lives: no offset of its partition from
\* there on is committed, whatever exec and store_offset do meanwhile.
LateBlocksPartition ==
    [][\A m \in sf_to_m :
          (HeldLate(m) /\ m \in InQueue(PartitionOf[m])) =>
              \/ crashes' # crashes
              \/ /\ HeldLate(m)' /\ m \in InQueue(PartitionOf[m])'
                 /\ (committed[PartitionOf[m]] < OffsetAfter(m))']_vars

\* The backup thread always gets as far as it can: again and again every
\* queue is empty or starts with a message the processor holds.
CommitProgress ==
    \A p \in Partition : []<>(offset[p] # <<>> => live[Head(offset[p])] > 0)

\* Every message consumed is taken through both processors; waiting for the
\* map's mutex_ does not stop the loop.
RoundCompletes == (stage = "deficiency") ~> (stage \in {"consume", "stopped"})

\* Both threads get on with their work although they share the map's mutex_.
ThreadsProgress == CommitProgress /\ RoundCompletes

\* The objects the next step of the event loop dereferences.
Touched ==
    CASE stage = "deficiency" -> {message}
      [] stage = "exec" /\ pc \in {"live", "lookup", "init", "compare"} -> {sf}
      [] stage = "exec" /\ pc = "drain" ->
            Tops(queue[FC(sf)]) \cup
            (IF \E top \in Tops(queue[FC(sf)]) : TS(top) = et THEN {sf} ELSE {})
      [] stage = "produce" /\ out = <<>> -> {message}
      [] OTHER -> {}

\* exec never reads a feed whose message has been deleted
\* (DeficiencyProcessor.cpp:26: "avoid the case: sf has been deleted").
SfNotDeleted == stage = "exec" => Touched \cap deleted = {}
=============================================================================
