------------------------- MODULE OffsetStore_proofs -------------------------
(***************************************************************************)
(* No offset that is kept anywhere, in memory, in the file, on its disk,   *)
(* with the group or in a request on its way, is ahead of consumption, for *)
(* every log, both methods, every way to sync, and any number of starts,   *)
(* failures and crashes.                                                   *)
(***************************************************************************)
EXTENDS OffsetStore, SequenceTheorems, TLAPS

\* The offsets that consumption has reached.
Reached == {o \in Int : o <= done}

FetchState == {"none", "wait", "active", "stopping", "stopped"}

Memory ==
    [stored : Reached, committed : Int, committing : Int, store : BOOLEAN, stopping : BOOLEAN,
     tmr : BOOLEAN, sync : BOOLEAN, fp : BOOLEAN, fetch : FetchState, pos : Reached, eof : Int,
     replyq : BOOLEAN, version : Int]

File == [os : Reached, disk : Reached]
Req  == [type : {"commit", "fetch"}, off : Reached, version : Int]
Rep  == [type : {"commit", "fetch"}, off : Reached, version : Int, err : BOOLEAN]

StoreInv ==
    /\ done \in Nat
    /\ m \in Memory /\ file \in File /\ group \in Reached
    /\ reqs \in Seq(Req) /\ replies \in Seq(Rep)

-----------------------------------------------------------------------------
(* Commits and the end of a stop.                                          *)

LEMMA CommitKeeps ==
    ASSUME file \in File, NEW s \in Memory, NEW o \in Commit(s)
    PROVE  o.m \in Memory /\ o.file \in File /\ o.asked \in BOOLEAN
<1>1. CASE o = Outcome(s, file, "none", FALSE, 0)
  BY <1>1 DEF Outcome
<1>2. CASE o = Outcome(s, file, "prev_in_progress", FALSE, 0)
  BY <1>2 DEF Outcome
<1>3. CASE o \in BrokerCommit(s)
  <2>1. [s EXCEPT !.committing = s.stored] \in Memory
    BY DEF Memory, Reached
  <2>2. o = Outcome([s EXCEPT !.committing = s.stored], file, "in_progress", TRUE, 0)
    BY <1>3 DEF BrokerCommit
  <2> QED
    BY <2>1, <2>2 DEF Outcome
<1>4. CASE o \in FileCommit(s)
  <2> DEFINE w == [file EXCEPT !.os = s.stored]
             sm == [s EXCEPT !.committed = s.stored, !.fp = TRUE]
             bm == [s EXCEPT !.fp = FALSE]
  <2>1. w \in File /\ Synced(w) \in File
    BY Zenon DEF File, Memory, Synced
  <2>2. sm \in Memory /\ bm \in Memory
    BY Zenon DEF Memory, Reached
  <2>3. \/ o = Outcome(sm, IF SyncInterval = "immediate" THEN Synced(w) ELSE w, "none", FALSE, 0)
        \/ o = Outcome(bm, file, "fs", FALSE, 1)
        \/ o = Outcome(bm, file, "none", FALSE, 1)
    BY <1>4, Zenon DEF FileCommit
  <2> HIDE DEF w, sm, bm
  <2>4. CASE o = Outcome(sm, IF SyncInterval = "immediate" THEN Synced(w) ELSE w, "none", FALSE, 0)
    BY <2>1, <2>2, <2>4 DEF Outcome
  <2>5. CASE o = Outcome(bm, file, "fs", FALSE, 1)
    BY <2>2, <2>5 DEF Outcome
  <2>6. CASE o = Outcome(bm, file, "none", FALSE, 1)
    BY <2>2, <2>6 DEF Outcome
  <2> QED
    BY <2>3, <2>4, <2>5, <2>6, Zenon
<1>5. \/ o = Outcome(s, file, "none", FALSE, 0)
      \/ o = Outcome(s, file, "prev_in_progress", FALSE, 0)
      \/ o \in BrokerCommit(s) \/ o \in FileCommit(s)
  <2>1. s.stored \in Int /\ s.committed \in Int /\ s.committing \in Int
    BY DEF Memory, Reached
  <2>2. CASE s.stored <= s.committed
    BY <2>1, <2>2, Zenon DEF Commit
  <2>3. CASE s.stored > s.committed /\ s.stored <= s.committing
    BY <2>1, <2>3, Zenon DEF Commit
  <2>4. CASE ~(s.stored <= s.committed) /\ ~(s.stored > s.committed /\ s.stored <= s.committing)
    BY <2>4, Zenon DEF Commit
  <2> QED
    BY <2>1, <2>2, <2>3, <2>4, Zenon
<1> QED
  BY <1>1, <1>2, <1>3, <1>4, <1>5, Zenon

LEMMA TermKeeps ==
    ASSUME NEW s \in Memory
    PROVE  StoreTerm(s) \in Memory /\ FetchStopped(s) \in Memory
<1>1. \A u \in Memory : FetchStopped(u) \in Memory
  BY Zenon DEF FetchStopped, Memory, FetchState
<1>2. [s EXCEPT !.stopping = FALSE, !.tmr = FALSE, !.sync = FALSE, !.fp = FALSE] \in Memory
  BY Zenon DEF Memory
<1> QED
  BY <1>1, <1>2 DEF StoreTerm

\* A request that is asked carries an offset that consumption has reached.
LEMMA AskKeeps ==
    ASSUME reqs \in Seq(Req), NEW s \in Memory, NEW off \in Reached, NEW type \in {"commit", "fetch"}
    PROVE  Ask(Request(type, off, s)) \in Seq(Req)
<1>1. Request(type, off, s) \in Req
  BY DEF Request, Req, Memory
<1> QED
  BY <1>1, AppendProperties DEF Ask

-----------------------------------------------------------------------------
(* One lemma per action.                                                   *)

LEMMA StoreInit == Init => StoreInv
<1> SUFFICES ASSUME Init PROVE StoreInv
  OBVIOUS
<1>1. done = 0 /\ -1001 \in Reached
  BY DEF Init, Reached
<1>2. Fresh \in Memory
  BY <1>1 DEF Fresh, Memory, Invalid, FetchState
<1>3. file \in File /\ group \in Reached /\ reqs \in Seq(Req) /\ replies \in Seq(Rep)
  BY <1>1 DEF Init, File, Invalid
<1> QED
  BY <1>1, <1>2, <1>3 DEF Init, StoreInv

LEMMA StepStart ==
    ASSUME StoreInv, Start, Hi \in Nat
    PROVE  StoreInv'
<1>0. PICK s : s = [m EXCEPT !.committed = Invalid, !.tmr = TRUE, !.store = TRUE,
                             !.sync = Method = "file" /\ SyncInterval = "timed",
                             !.version = @ + 1, !.eof = Invalid]
  OBVIOUS
<1>1. PICK opens \in BOOLEAN :
         IF Method = "file"
         THEN m' = FileInit(s, opens) /\ UNCHANGED reqs
         ELSE m' = [s EXCEPT !.fetch = "wait"] /\ reqs' = Ask(Request("fetch", 0, s))
  BY <1>0 DEF Start
<1>2. UNCHANGED <<file, group, replies, done>>
  BY DEF Start
<1>3. s \in Memory
  <2>1. PICK b \in BOOLEAN : b = (Method = "file" /\ SyncInterval = "timed")
    BY Zenon
  <2>2. s = [m EXCEPT !.committed = Invalid, !.tmr = TRUE, !.store = TRUE, !.sync = b,
                      !.version = @ + 1, !.eof = Invalid]
    BY <1>0, <2>1
  <2>3. m \in Memory
    BY DEF StoreInv
  <2>4. m.version + 1 \in Int /\ Invalid \in Int
    BY <2>3 DEF Memory, Invalid
  <2>5. PICK u : u = [m EXCEPT !.committed = Invalid, !.tmr = TRUE, !.store = TRUE]
    OBVIOUS
  <2>6. u \in Memory /\ u.version = m.version
    BY <2>3, <2>4, <2>5, Zenon DEF Memory
  <2>7. s = [u EXCEPT !.sync = b, !.version = m.version + 1, !.eof = Invalid]
    BY <2>2, <2>3, <2>5 DEF Memory
  <2> QED
    BY <2>4, <2>6, <2>7, Zenon DEF Memory
<1>4. 0 \in Reached /\ file \in File /\ reqs \in Seq(Req)
  BY DEF StoreInv, Reached
<1>5. FileInit(s, opens) \in Memory
  <2>1. Reset([s EXCEPT !.fp = opens, !.committed = Invalid]) \in Memory
    <3>1. [s EXCEPT !.fp = opens, !.committed = Invalid] \in Memory
      <4>1. Invalid \in Int
        BY DEF Invalid
      <4> QED
        BY <1>3, <4>1, Zenon DEF Memory
    <3>2. \A u \in Memory : Reset(u) \in Memory
      BY <1>4, Zenon DEF Reset, Memory, FetchState
    <3> QED
      BY <3>1, <3>2
  <2>2. [s EXCEPT !.fp = TRUE, !.stored = file.os, !.committed = file.os,
                  !.pos = file.os, !.fetch = "active"] \in Memory
    BY <1>3, <1>4, Zenon DEF Memory, File, Reached, FetchState
  <2> QED
    BY <2>1, <2>2 DEF FileInit
<1>6. [s EXCEPT !.fetch = "wait"] \in Memory
  BY <1>3 DEF Memory, FetchState
<1>7. Ask(Request("fetch", 0, s)) \in Seq(Req)
  BY <1>3, <1>4, AskKeeps
<1>8. m' \in Memory /\ reqs' \in Seq(Req)
  BY <1>1, <1>4, <1>5, <1>6, <1>7
<1> QED
  BY <1>2, <1>8 DEF StoreInv, Memory, Reached, Req, Rep, File

\* What was reached stays reached.
LEMMA ReachedGrows ==
    ASSUME done \in Nat, done' \in Nat, done <= done'
    PROVE  /\ Reached \subseteq Reached' /\ File \subseteq File'
           /\ Memory \subseteq Memory' /\ Seq(Req) \subseteq Seq(Req') /\ Seq(Rep) \subseteq Seq(Rep')
<1>1. Reached \subseteq Reached'
  BY DEF Reached
<1>2. File \subseteq File' /\ Req \subseteq Req' /\ Rep \subseteq Rep'
  BY <1>1 DEF File, Req, Rep
<1>3. Memory \subseteq Memory'
  BY <1>1 DEF Memory
<1>4. ASSUME NEW S, NEW T, S \subseteq T PROVE Seq(S) \subseteq Seq(T)
  BY <1>4
<1>5. Seq(Req) \subseteq Seq(Req') /\ Seq(Rep) \subseteq Seq(Rep')
  BY <1>2, <1>4
<1> QED
  BY <1>1, <1>2, <1>3, <1>5

LEMMA StepConsume ==
    ASSUME StoreInv, Consume, ~AutoStore
    PROVE  StoreInv'
<1>1. /\ m' = [m EXCEPT !.pos = @ + 1, !.stored = @]
      /\ done' = Max({done, m.pos + 1})
      /\ UNCHANGED <<file, group, reqs, replies>>
  BY DEF Consume
<1>2. done \in Nat /\ m.pos \in Int /\ m.stored \in Int /\ m.pos <= done
  BY DEF StoreInv, Memory, Reached
<1>3. \E x \in {done, m.pos + 1} : \A y \in {done, m.pos + 1} : x >= y
  BY <1>2
<1>4. done' \in {done, m.pos + 1} /\ \A y \in {done, m.pos + 1} : done' >= y
  BY <1>1, <1>3 DEF Max
<1>5. done' \in Nat /\ done <= done' /\ m.pos + 1 <= done'
  BY <1>2, <1>4
<1>6. m.pos + 1 \in Reached' /\ m \in Memory'
  BY <1>2, <1>5, ReachedGrows DEF Reached, StoreInv
<1>7. m' \in Memory'
  BY <1>1, <1>6, Zenon DEF Memory
<1> QED
  BY <1>1, <1>2, <1>5, <1>7, ReachedGrows DEF StoreInv

LEMMA StepStore ==
    ASSUME StoreInv, Store
    PROVE  StoreInv'
<1>1. PICK off \in 0 .. m.pos - 1 : m' = [m EXCEPT !.stored = off + 1]
  BY DEF Store
<1>2. UNCHANGED <<file, group, reqs, replies, done>>
  BY DEF Store
<1>3. m.pos \in Int /\ m.pos <= done /\ done \in Nat
  BY DEF StoreInv, Memory, Reached
<1>4. off + 1 \in Reached
  BY <1>1, <1>3 DEF Reached
<1>5. m' \in Memory
  BY <1>1, <1>4, Zenon DEF StoreInv, Memory
<1> QED
  BY <1>2, <1>5 DEF StoreInv, Memory, Reached, Req, Rep, File

LEMMA StepEof ==
    ASSUME StoreInv, Eof, Hi \in Nat
    PROVE  StoreInv'
<1>1. m' \in Memory
  <2>1. m \in Memory /\ m' = [m EXCEPT !.eof = Hi]
    BY DEF StoreInv, Eof
  <2> QED
    BY <2>1 DEF Memory
<1>2. UNCHANGED <<file, group, reqs, replies, done>>
  BY DEF Eof
<1> QED
  BY <1>1, <1>2 DEF StoreInv, Memory, Reached, Req, Rep, File

LEMMA StepStop ==
    ASSUME StoreInv, Stop, ~AutoStore
    PROVE  StoreInv'
<1>1. PICK s : s = [m EXCEPT !.fetch = "stopping", !.replyq = TRUE, !.stopping = m.store,
                             !.version = @ + 1]
  OBVIOUS
<1>2. PICK o \in (IF s.store THEN StoreStop(s) ELSE {Outcome(s, file, "none", FALSE, 0)}) :
         /\ reqs' = IF o.asked THEN Ask(Request("commit", o.m.stored, m)) ELSE reqs
         /\ \/ m' = o.m /\ file' = o.file
            \/ m' = StoreTerm(o.m) /\ file' = TermFile(o.m, o.file)
  BY <1>1, Zenon DEF Stop
<1>3. UNCHANGED <<group, replies, done>>
  BY DEF Stop
<1>4. m \in Memory /\ file \in File /\ reqs \in Seq(Req)
  BY DEF StoreInv
<1>5. s \in Memory
  <2>1. m.version + 1 \in Int /\ m.store \in BOOLEAN
    BY <1>4 DEF Memory
  <2>2. PICK u : u = [m EXCEPT !.fetch = "stopping", !.replyq = TRUE]
    OBVIOUS
  <2>3. u \in Memory /\ u.version = m.version
    BY <1>4, <2>2, Zenon DEF Memory, FetchState
  <2>4. s = [u EXCEPT !.stopping = m.store, !.version = m.version + 1]
    BY <1>1, <1>4, <2>2 DEF Memory
  <2> QED
    BY <2>1, <2>3, <2>4, Zenon DEF Memory
<1>6. o = Outcome(s, file, "none", FALSE, 0) \/ o \in Commit(s)
  BY <1>2, Zenon DEF StoreStop
<1>7. o.m \in Memory /\ o.file \in File /\ o.asked \in BOOLEAN
  <2>1. CASE o = Outcome(s, file, "none", FALSE, 0)
    BY <1>4, <1>5, <2>1 DEF Outcome
  <2>2. CASE o \in Commit(s)
    BY <1>4, <1>5, <2>2, CommitKeeps
  <2> QED
    BY <1>6, <2>1, <2>2, Zenon
<1>8. TermFile(o.m, o.file) \in File
  BY <1>7 DEF TermFile, Synced, File
<1>9. o.m.stored \in Reached
  BY <1>7 DEF Memory
<1>10. reqs' \in Seq(Req)
  BY <1>2, <1>4, <1>9, AskKeeps
<1>11. m' \in Memory /\ file' \in File
  BY <1>2, <1>7, <1>8, TermKeeps
<1> QED
  BY <1>3, <1>10, <1>11 DEF StoreInv, Memory, Reached, Req, Rep, File

LEMMA StepCommitTimer ==
    ASSUME StoreInv, CommitTimer
    PROVE  StoreInv'
<1>1. PICK o \in Commit(m) :
         /\ m' = o.m /\ file' = o.file
         /\ reqs' = IF o.asked THEN Ask(Request("commit", o.m.stored, m)) ELSE reqs
  BY DEF CommitTimer
<1>2. UNCHANGED <<group, replies, done>>
  BY DEF CommitTimer
<1>3. m \in Memory /\ file \in File /\ reqs \in Seq(Req)
  BY DEF StoreInv
<1>4. o.m \in Memory /\ o.file \in File
  BY <1>1, <1>3, CommitKeeps
<1>5. o.m.stored \in Reached
  BY <1>4 DEF Memory
<1>6. reqs' \in Seq(Req)
  BY <1>1, <1>3, <1>5, AskKeeps
<1> QED
  BY <1>1, <1>2, <1>4, <1>6 DEF StoreInv, Memory, Reached, Req, Rep, File

LEMMA StepSyncTimer ==
    ASSUME StoreInv, SyncTimer
    PROVE  StoreInv'
<1>1. file' \in File
  BY DEF StoreInv, SyncTimer, Synced, File
<1>2. UNCHANGED <<m, group, reqs, replies, done>>
  BY DEF SyncTimer
<1> QED
  BY <1>1, <1>2 DEF StoreInv, Memory, Reached, Req, Rep, File

LEMMA StepCoordinate ==
    ASSUME StoreInv, Coordinate
    PROVE  StoreInv'
<1>0. PICK r : r = Head(reqs)
  OBVIOUS
<1>o. PICK off : off = IF r.type = "fetch" THEN group ELSE r.off
  OBVIOUS
<1>1. PICK err \in BOOLEAN, applied \in BOOLEAN, retry \in BOOLEAN :
         /\ group' = IF r.type = "commit" /\ applied THEN r.off ELSE group
         /\ replies' = IF retry THEN replies
                       ELSE Append(replies, [type |-> r.type, off |-> off,
                                             version |-> r.version, err |-> err])
         /\ reqs' = Tail(reqs) \o (IF retry THEN <<r>> ELSE <<>>)
  BY <1>0, <1>o DEF Coordinate
<1>2. reqs # <<>> /\ UNCHANGED <<m, file, done>>
  BY DEF Coordinate
<1>3. reqs \in Seq(Req) /\ replies \in Seq(Rep) /\ group \in Reached
  BY DEF StoreInv
<1>4. r \in Req /\ Tail(reqs) \in Seq(Req)
  BY <1>0, <1>2, <1>3, HeadTailProperties
<1>5. r.off \in Reached /\ off \in Reached /\ r.type \in {"commit", "fetch"} /\ r.version \in Int
  BY <1>o, <1>3, <1>4 DEF Req
<1>6. [type |-> r.type, off |-> off, version |-> r.version, err |-> err] \in Rep
  BY <1>5 DEF Rep
<1>7. replies' \in Seq(Rep)
  BY <1>1, <1>3, <1>6, AppendProperties
<1>8. (IF retry THEN <<r>> ELSE <<>>) \in Seq(Req)
  BY <1>4
<1>9. reqs' \in Seq(Req)
  BY <1>1, <1>4, <1>8, ConcatProperties
<1>10. group' \in Reached
  BY <1>1, <1>3, <1>5
<1> QED
  BY <1>2, <1>7, <1>9, <1>10 DEF StoreInv, Memory, Reached, Req, Rep, File

LEMMA StepReply ==
    ASSUME StoreInv, Reply
    PROVE  StoreInv'
<1>1. PICK r : /\ r = Head(replies)
               /\ CommitReply(r) \/ FetchReply(r) \/ UNCHANGED <<m, reqs>>
  BY DEF Reply
<1>2. replies # <<>> /\ replies' = Tail(replies) /\ UNCHANGED <<file, group, done>>
  BY DEF Reply
<1>3. m \in Memory /\ reqs \in Seq(Req) /\ replies \in Seq(Rep) /\ 0 \in Reached
  BY DEF StoreInv, Reached
<1>4. r \in Rep /\ replies' \in Seq(Rep)
  BY <1>1, <1>2, <1>3, HeadTailProperties
<1>5. r.off \in Reached /\ r.off \in Int /\ r.err \in BOOLEAN
  BY <1>4 DEF Rep, Reached
<1>6. CASE CommitReply(r)
  <2>1. PICK s : s = IF r.err THEN m ELSE [m EXCEPT !.committed = r.off]
    BY Zenon
  <2>2. s \in Memory
    BY <1>3, <1>5, <2>1, Zenon DEF Memory
  <2>3. PICK u : u = IF ~r.err /\ m.fetch = "stopping" THEN FetchStopped(s) ELSE s
    OBVIOUS
  <2>4. u \in Memory
    BY <2>2, <2>3, TermKeeps
  <2>5. PICK t : t = [u EXCEPT !.committing = 0]
    BY Zenon
  <2>6. t \in Memory
    BY <2>4, <2>5 DEF Memory
  <2>7. m' = (IF t.stopping THEN StoreTerm(t) ELSE t) /\ reqs' = reqs
    BY <1>6, <2>1, <2>3, <2>5 DEF CommitReply
  <2> QED
    BY <1>2, <1>3, <1>4, <2>6, <2>7, TermKeeps DEF StoreInv, Memory, Reached, Req, Rep, File
<1>7. CASE FetchReply(r)
  <2>1. Ask(Request("fetch", 0, m)) \in Seq(Req)
    BY <1>3, AskKeeps
  <2>2. Reset(m) \in Memory
    BY <1>3, Zenon DEF Reset, Memory, FetchState
  <2>3. [m EXCEPT !.committed = IF r.off > 0 THEN r.off ELSE @,
                  !.pos = r.off, !.fetch = "active"] \in Memory
    BY <1>3, <1>5, Zenon DEF Memory, FetchState
  <2>4. m' \in Memory /\ reqs' \in Seq(Req)
    BY <1>3, <1>7, <2>1, <2>2, <2>3 DEF FetchReply
  <2> QED
    BY <1>2, <1>4, <2>4 DEF StoreInv, Memory, Reached, Req, Rep, File
<1>8. CASE UNCHANGED <<m, reqs>>
  BY <1>2, <1>4, <1>8 DEF StoreInv, Memory, Reached, Req, Rep, File
<1> QED
  BY <1>1, <1>6, <1>7, <1>8

LEMMA StepCrash ==
    ASSUME StoreInv, NEW power \in BOOLEAN, Crash(power)
    PROVE  StoreInv'
<1>1. done \in Nat /\ file \in File /\ group \in Reached /\ reqs \in Seq(Req)
  BY DEF StoreInv
<1>2. -1001 \in Reached
  BY <1>1 DEF Reached
<1>3. m' \in Memory
  BY <1>2 DEF Crash, Fresh, Memory, Invalid, FetchState
<1>4. file' \in File
  BY <1>1 DEF Crash, File
<1>5. \A i \in DOMAIN reqs : reqs[i].off \in Reached
  <2> SUFFICES ASSUME NEW i \in DOMAIN reqs PROVE reqs[i].off \in Reached
    OBVIOUS
  <2>1. i \in 1 .. Len(reqs)
    BY <1>1, LenProperties
  <2>2. reqs[i] \in Req
    BY <1>1, <2>1, ElementOfSeq
  <2> QED
    BY <2>2 DEF Req
<1>6. group' \in Reached
  BY <1>1, <1>5 DEF Crash
<1>7. reqs' = <<>> /\ replies' = <<>> /\ done' = done
  BY DEF Crash
<1>8. reqs' \in Seq(Req) /\ replies' \in Seq(Rep)
  BY <1>7
<1> QED
  BY <1>1, <1>3, <1>4, <1>6, <1>7, <1>8 DEF StoreInv, Memory, Reached, Req, Rep, File

-----------------------------------------------------------------------------
\* Without enable.auto.offset.store no message is skipped across stops, starts,
\* crashes and failures: consumption never goes on beyond an offset that was not
\* consumed, because no offset is committed ahead of consumption.  With the
\* option the stop stores the end of the partition for an application that was
\* given no message (rd_kafka_offset_store_stop), which may be ahead of it.
THEOREM StoreNothingSkipped ==
    ASSUME ~AutoStore, Hi \in Nat
    PROVE  Spec => []NothingSkipped
<1>1. Init => StoreInv
  BY StoreInit
<1>2. StoreInv /\ [Next]_vars => StoreInv'
  <2> SUFFICES ASSUME StoreInv, [Next]_vars PROVE StoreInv'
    OBVIOUS
  <2>1. CASE UNCHANGED vars
    BY <2>1 DEF vars, StoreInv, Memory, Reached, Req, Rep, File
  <2>2. CASE Next
    BY <2>2, StepStart, StepConsume, StepStore, StepEof, StepStop, StepCommitTimer,
       StepSyncTimer, StepCoordinate, StepReply, StepCrash DEF Next
  <2> QED
    BY <2>1, <2>2
<1>3. StoreInv => NothingSkipped
  BY DEF StoreInv, NothingSkipped, Saved, Memory, File, Reached
<1> QED
  BY <1>1, <1>2, <1>3, PTL DEF Spec
=============================================================================
