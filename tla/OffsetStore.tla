---------------------------- MODULE OffsetStore -----------------------------
(***************************************************************************)
(* The offset store of a simple consumer's partition (rdkafka_offset.c):   *)
(* offsets are stored in memory as messages are consumed, committed to a   *)
(* file or to the group's broker on a timer and at the stop, and read back *)
(* by the next start.  The process may crash, the machine may lose power,  *)
(* file operations and requests may fail.                                  *)
(*                                                                         *)
(* m is what the process keeps of the partition.  file is the file as the  *)
(* operating system has it and as it is on the disk.  done is a history    *)
(* variable: the offsets below it were consumed.                           *)
(***************************************************************************)
EXTENDS Integers, Sequences, FiniteSetsExt

CONSTANTS Method,       \* offset.store.method: "file" or "broker"
          SyncInterval, \* offset.store.sync.interval.ms is "timed", "immediate" or "never"
          Hi,           \* the log's end offset
          AutoStore,    \* enable.auto.offset.store
          OpenFails,    \* whether the offset file may fail to open
          MaxFails,     \* bound: failed file operations and requests
          MaxStarts,    \* bound: starts
          MaxCrashes    \* bound: crashes of the process or the machine

VARIABLES m,            \* the partition in memory
          file,         \* the offset file
          group,        \* the group's committed offset
          reqs,         \* requests to the group's coordinator, in order
          replies,      \* their replies, as ops for the partition
          answer,       \* what the last stop returned: "none", "ok" or "error"
          done,         \* history: the offsets below it were consumed
          used          \* failures, starts and crashes so far

vars == <<m, file, group, reqs, replies, answer, done, used>>

Invalid == -1001

Fresh == [stored |-> Invalid, committed |-> Invalid, committing |-> Invalid, store |-> FALSE,
          stopping |-> FALSE, tmr |-> FALSE, sync |-> FALSE, fp |-> FALSE,
          fetch |-> "none", pos |-> Invalid, eof |-> Invalid, replyq |-> FALSE, version |-> 0]

MayFail == used.fails < MaxFails
Failed  == [used EXCEPT !.fails = @ + 1]

----------------------------------------------------------------------------
(* The end of a stop.                                                      *)

\* rd_kafka_toppar_fetch_stopped; the answer goes to the stop that waits for one.
FetchStopped(s) == [s EXCEPT !.fetch = "stopped", !.replyq = FALSE]

Answered(s, err) == IF s.replyq THEN (IF err THEN "error" ELSE "ok") ELSE answer

\* An interval sync happens at once: rd_kafka_offset_file_term.
StoreTerm(s) ==
    FetchStopped([s EXCEPT !.stopping = FALSE, !.tmr = FALSE, !.sync = FALSE, !.fp = FALSE])

Synced(f) == [f EXCEPT !.disk = f.os]

TermFile(s, f) == IF Method = "file" /\ SyncInterval = "timed" /\ s.fp THEN Synced(f) ELSE f

----------------------------------------------------------------------------
(* Commits.  A commit has a set of outcomes [m, file, err, asked, fails].  *)

Outcome(s, f, err, asked, fails) ==
    [m |-> s, file |-> f, err |-> err, asked |-> asked, fails |-> fails]

\* Two attempts; an attempt whose open fails sets no error.
FileCommit(s) ==
    LET written == [file EXCEPT !.os = s.stored]
        ok == Outcome([s EXCEPT !.committed = s.stored, !.fp = TRUE],
                      IF SyncInterval = "immediate" THEN Synced(written) ELSE written,
                      "none", FALSE, 0)
        bad(err) == Outcome([s EXCEPT !.fp = FALSE], file, err, FALSE, 1)
    IN  {ok} \cup (IF MayFail THEN {bad("fs")} ELSE {})
             \cup (IF MayFail /\ OpenFails /\ ~s.fp THEN {bad("none")} ELSE {})

BrokerCommit(s) ==
    {Outcome([s EXCEPT !.committing = s.stored], file, "in_progress", TRUE, 0)}

\* rd_kafka_offset_commit.
Commit(s) ==
    CASE s.stored <= s.committed  -> {Outcome(s, file, "none", FALSE, 0)}
      [] s.stored > s.committed /\ s.stored <= s.committing ->
             {Outcome(s, file, "prev_in_progress", FALSE, 0)}
      [] OTHER -> IF Method = "file" THEN FileCommit(s) ELSE BrokerCommit(s)

Ask(req) == Append(reqs, req)

Request(type, off, s) == [type |-> type, off |-> off, version |-> s.version]

\* rd_kafka_offset_auto_commit_tmr_cb.
CommitTimer ==
    /\ m.tmr
    /\ \E o \in Commit(m) :
          /\ o.m # m \/ o.file # file
          /\ m' = o.m /\ file' = o.file
          /\ reqs' = IF o.asked THEN Ask(Request("commit", o.m.stored, m)) ELSE reqs
          /\ used' = [used EXCEPT !.fails = @ + o.fails]
    /\ UNCHANGED <<group, replies, answer, done>>

\* rd_kafka_offset_sync_tmr_cb.
SyncTimer ==
    /\ m.sync /\ m.fp /\ file.os # file.disk
    /\ file' = Synced(file)
    /\ UNCHANGED <<m, group, reqs, replies, answer, done, used>>

----------------------------------------------------------------------------
(* Start, consumption and stop.                                            *)

\* auto.offset.reset is "smallest": the position is the log's beginning.
Reset(s) == [s EXCEPT !.pos = 0, !.fetch = "active"]

\* rd_kafka_offset_file_init.
FileInit(s, opens) ==
    IF opens /\ file.os # Invalid
    THEN [s EXCEPT !.fp = TRUE, !.stored = file.os, !.committed = file.os,
                   !.pos = file.os, !.fetch = "active"]
    ELSE Reset([s EXCEPT !.fp = opens, !.committed = Invalid])

\* rd_kafka_toppar_fetch_start at the stored offset: rd_kafka_offset_store_init.
Start ==
    /\ m.fetch \in {"none", "stopped"} /\ used.starts < MaxStarts
    /\ \E opens \in BOOLEAN :
          LET s == [m EXCEPT !.committed = Invalid, !.tmr = TRUE, !.store = TRUE,
                             !.sync = Method = "file" /\ SyncInterval = "timed",
                             !.version = @ + 1, !.eof = Invalid]
          IN  /\ ~opens => MayFail /\ OpenFails /\ Method = "file"
              /\ IF Method = "file"
                 THEN m' = FileInit(s, opens) /\ UNCHANGED reqs
                 ELSE m' = [s EXCEPT !.fetch = "wait"] /\ reqs' = Ask(Request("fetch", 0, s))
              /\ used' = [used EXCEPT !.starts = @ + 1, !.fails = IF opens THEN @ ELSE @ + 1]
    /\ answer' = "none"
    /\ UNCHANGED <<file, group, replies, done>>

\* The application gets a message; enable.auto.offset.store stores the offset after it.
Consume ==
    /\ m.fetch = "active" /\ m.pos < Hi
    /\ m' = [m EXCEPT !.pos = @ + 1, !.stored = IF AutoStore THEN m.pos + 1 ELSE @]
    /\ done' = Max({done, m.pos + 1})
    /\ UNCHANGED <<file, group, reqs, replies, answer, used>>

\* Mutation: the offset of the message after the next one is stored.
StoreBeyond ==
    /\ ~AutoStore /\ m.fetch = "active"
    /\ \E off \in 0 .. m.pos - 1 : m' = [m EXCEPT !.stored = Min({off + 2, Hi})]
    /\ m' # m
    /\ UNCHANGED <<file, group, reqs, replies, answer, done, used>>

\* rd_kafka_offset_store of a message that was consumed, in any order.
Store ==
    /\ ~AutoStore /\ m.fetch = "active"
    /\ \E off \in 0 .. m.pos - 1 : m' = [m EXCEPT !.stored = off + 1]
    /\ m' # m
    /\ UNCHANGED <<file, group, reqs, replies, answer, done, used>>

\* The fetcher, which runs ahead of the application, reaches the end of the log.
Eof ==
    /\ m.fetch = "active" /\ m.eof # Hi
    /\ m' = [m EXCEPT !.eof = Hi]
    /\ UNCHANGED <<file, group, reqs, replies, answer, done, used>>

\* rd_kafka_offset_store_stop up to the end of the commit.
StoreStop(s) ==
    LET t == IF AutoStore /\ s.stored = Invalid /\ s.eof > 0 THEN [s EXCEPT !.stored = s.eof] ELSE s
    IN  IF t.stored > t.committed THEN Commit(t) ELSE {Outcome(t, file, "none", FALSE, 0)}

\* rd_kafka_toppar_fetch_stop.
Stop ==
    /\ m.fetch \in {"active", "wait"}
    /\ LET s == [m EXCEPT !.fetch = "stopping", !.replyq = TRUE, !.stopping = m.store,
                          !.version = @ + 1]
       IN  \E o \in (IF s.store THEN StoreStop(s) ELSE {Outcome(s, file, "none", FALSE, 0)}) :
              /\ reqs' = IF o.asked THEN Ask(Request("commit", o.m.stored, m)) ELSE reqs
              /\ used' = [used EXCEPT !.fails = @ + o.fails]
              /\ IF o.err = "in_progress"
                 THEN m' = o.m /\ file' = o.file /\ answer' = "none"
                 ELSE /\ m' = StoreTerm(o.m)
                      /\ file' = TermFile(o.m, o.file)
                      /\ answer' = Answered(s, o.err # "none")
    /\ UNCHANGED <<group, replies, done>>

----------------------------------------------------------------------------
(* The group's coordinator and its replies.                                *)

\* A request that fails may have been carried out; a commit may be retried behind later ones.
Coordinate ==
    /\ reqs # <<>>
    /\ LET r == Head(reqs)
           off == IF r.type = "fetch" THEN group ELSE r.off
       IN  \E err, applied, retry \in BOOLEAN :
              /\ err => MayFail
              /\ ~applied => err
              /\ retry => err /\ r.type = "commit"
              /\ group' = IF r.type = "commit" /\ applied THEN r.off ELSE group
              /\ replies' = IF retry THEN replies
                            ELSE Append(replies, [type |-> r.type, off |-> off,
                                                  version |-> r.version, err |-> err])
              /\ reqs' = Tail(reqs) \o (IF retry THEN <<r>> ELSE <<>>)
              /\ used' = IF err THEN Failed ELSE used
    /\ UNCHANGED <<m, file, answer, done>>

\* rd_kafka_offset_broker_commit_cb.  A success while stopping ends the stop first.
CommitReply(r) ==
    LET ended == ~r.err /\ m.fetch = "stopping"
        s == IF r.err THEN m ELSE [m EXCEPT !.committed = r.off]
        t == [(IF ended THEN FetchStopped(s) ELSE s) EXCEPT !.committing = 0]
    IN  /\ m' = IF t.stopping THEN StoreTerm(t) ELSE t
        /\ answer' = IF ended THEN Answered(m, FALSE)
                     ELSE IF t.stopping THEN Answered(m, r.err) ELSE answer
        /\ UNCHANGED reqs

\* RD_KAFKA_OP_OFFSET_FETCH|REPLY; a failure is retried by the query timer.
FetchReply(r) ==
    /\ IF r.err
       THEN m' = m /\ reqs' = Ask(Request("fetch", 0, m))
       ELSE /\ m' = IF r.off >= 0
                    THEN [m EXCEPT !.committed = IF r.off > 0 THEN r.off ELSE @,
                                   !.pos = r.off, !.fetch = "active"]
                    ELSE Reset(m)
            /\ UNCHANGED reqs
    /\ UNCHANGED answer

\* The replies of an earlier start carry its version and are dropped.
Reply ==
    /\ replies # <<>>
    /\ LET r == Head(replies)
       IN  CASE r.type = "commit"                            -> CommitReply(r)
             [] r.type = "fetch" /\ r.version = m.version -> FetchReply(r)
             [] OTHER                                        -> UNCHANGED <<m, reqs, answer>>
    /\ replies' = Tail(replies)
    /\ UNCHANGED <<file, group, done, used>>

\* The process crashes or the machine loses power; a commit on its way may still be made.
Crash(power) ==
    /\ used.crashes < MaxCrashes
    /\ m' = Fresh
    /\ \E keep \in {file.os, file.disk} :
          file' = IF power THEN [os |-> keep, disk |-> keep] ELSE file
    /\ group' \in {group} \cup {reqs[i].off : i \in {j \in DOMAIN reqs : reqs[j].type = "commit"}}
    /\ reqs' = <<>> /\ replies' = <<>> /\ answer' = "none"
    /\ used' = [used EXCEPT !.crashes = @ + 1]
    /\ UNCHANGED done

Init ==
    /\ m = Fresh
    /\ file = [os |-> Invalid, disk |-> Invalid] /\ group = Invalid
    /\ reqs = <<>> /\ replies = <<>> /\ answer = "none" /\ done = 0
    /\ used = [fails |-> 0, starts |-> 0, crashes |-> 0]

Next == \/ Start \/ Consume \/ Store \/ Eof \/ Stop \/ CommitTimer \/ SyncTimer \/ Coordinate \/ Reply
        \/ \E power \in BOOLEAN : Crash(power)

Spec == Init /\ [][Next]_vars

----------------------------------------------------------------------------
Saved == IF Method = "file" THEN file.os ELSE group

\* Across stops, starts, crashes and failures no message is skipped: consumption never goes on
\* beyond an offset that was not consumed, because no offset is committed ahead of consumption.
NothingSkipped == m.pos <= done /\ Saved <= done

=============================================================================
