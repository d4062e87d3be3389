----------------------------- MODULE MessageSet -----------------------------
(***************************************************************************)
(* How librdkafka packs the messages of one partition into a ProduceRequest *)
(* and how it unpacks what a fetch of that partition returns:               *)
(* rdkafka_msgset_writer.c and rdkafka_msgset_reader.c, in the three        *)
(* message formats (MsgVersion 0, 1 and 2), compressed or not.              *)
(*                                                                         *)
(* A message is a number (its identity), a size and a timestamp.  Sizes     *)
(* are bytes and are the code's own, because two assertions are about them. *)
(* Between writer and reader stands the broker's log (external): it assigns *)
(* offsets, may add a control set, may compact, may hold a set whose bytes  *)
(* went bad, and answers a fetch with as many bytes as were asked for, the  *)
(* last set cut short.                                                      *)
(***************************************************************************)
EXTENDS Integers, Sequences, FiniteSets, SequencesExt, FiniteSetsExt

CONSTANTS
  Features,        \* what the broker supports: MSGVER1, MSGVER2
  Compression,     \* compression.codec is set
  MaxMsgSize,      \* message.max.bytes
  Header,          \* bytes of the request before its first message
  BatchMax,        \* batch.num.messages
  Sizes,           \* payload sizes of messages
  Times,           \* their timestamps
  NMsgs,           \* messages the application produces
  Squeeze,         \* bytes that compressing a set may save
  Starts,          \* where the consumer may start
  FetchMin,        \* fetch.message.max.bytes
  FetchMax,        \* where growing it stops (1 << 30)
  LogAppend,       \* the topic stamps messages on arrival
  MayControl, MayCompact, MaySpoil, \* what the log may go through
  CheckCrcs        \* check.crcs

VARIABLES
  xmit,      \* rktp_xmit_msgq
  made,      \* messages the application has produced
  log,       \* the partition's log at the broker
  end,       \* the next offset it assigns
  truth,     \* history: offset |-> the message appended there
  gone,      \* history: offsets that hold no message any more (or never did)
  fetch,     \* [offset, bytes]: rktp_offsets.fetch_offset, rktp_fetch_msg_max_bytes
  start,     \* the offset the consumer started at
  got,       \* the messages the application has been given
  errs,      \* offsets it has been given an error for
  batch,     \* the last request written: [n, bytes]
  aborted,   \* an assertion of the writer failed
  sparse     \* history: a wrapped set of version 1 was read that had been compacted

Sum(s) == FoldSeq(LAMBDA x, y : x + y, 0, s)

vars == <<xmit, made, log, end, truth, gone, fetch, start, got, errs, batch, aborted, sparse>>

----------------------------------------------------------------------------
(* The writer *)

\* select_MsgVersion: the newest message format the broker knows.
MsgVersion == IF "MSGVER2" \in Features THEN 2 ELSE IF "MSGVER1" \in Features THEN 1 ELSE 0

\* RD_KAFKAP_MESSAGE_V*_OVERHEAD; the one of version 2 is what the varints may
\* take at most.
Overhead == CASE MsgVersion = 0 -> 26 [] MsgVersion = 1 -> 34 [] OTHER -> 36
rd_kafka_msg_wire_size(m) == Overhead + m.size

\* Bytes of a zig-zag varint.
Varint(n) == IF n \in -64..63 THEN 1 ELSE IF n \in -8192..8191 THEN 2 ELSE 3

\* A message of version 0 or 1 costs its overhead, one of version 2 its varints.
write_msg_v0_1(m) == Overhead + m.size
write_msg_v2(m, rel, bts) ==
  LET body == 1 + Varint(m.ts - bts) + Varint(rel) + Varint(-1)
                + Varint(m.size) + m.size + Varint(0)
  IN Varint(body) + body
write_msg(m, rel, bts) ==
  IF MsgVersion = 2 THEN write_msg_v2(m, rel, bts) ELSE write_msg_v0_1(m)

\* The bytes before the first message: the version 2 set has a header.
Produce_header == Header + (IF MsgVersion = 2 THEN 61 ELSE 0)

\* Bytes of the first n messages of a queue.
Written(q, n) == Sum([i \in 1..n |-> write_msg(q[i], i - 1, q[1].ts)])

\* How many messages go into the request: up to the batch size, and while the
\* next one, at its worst case size, still fits.
Fits(q, n) == Produce_header + Written(q, n - 1) + rd_kafka_msg_wire_size(q[n]) <= MaxMsgSize
BatchLimit(q) == Min({Len(q), BatchMax})
write_msgq(q) ==
  LET ok == {n \in 0..BatchLimit(q) : \A i \in 1..n : Fits(q, i)}
  IN Max(ok)

MaxTime(q, n) == Max({q[i].ts : i \in 1..n} \cup {0})

\* The record of each message: its relative offset (always written, the broker
\* replaces it where offsets are absolute), and its time, which version 2
\* stores as a difference to the first message's.
\* Mutation: the difference is taken to the newest message.
StampMax(q, n, i) == q[i].ts - MaxTime(q, n)
Stamp(q, n, i) == IF MsgVersion = 2 THEN q[i].ts - q[1].ts ELSE q[i].ts
Records(q, n) == [i \in 1..n |-> [rel |-> i - 1, t |-> Stamp(q, n, i), id |-> q[i].id]]

\* What a codec makes of len bytes: fewer, or (saved < 0) more or a failure.
compress_codec(len, save) == len - save
\* compress: a result that did not shrink is thrown away.  Up to version 1 the
\* result is wrapped in an outer message.
Envelope(c) == IF MsgVersion = 2 THEN c ELSE Overhead + c
compress(len, c) ==
  IF ~Compression \/ c > len THEN [comp |-> FALSE, len |-> len]
  ELSE [comp |-> TRUE, len |-> Envelope(c)]

\* finalize and finalize_MessageSet_v2_header: the set as it is sent.
finalize(q, n, z) ==
  [recs |-> Records(q, n), lod |-> n - 1, bts |-> q[1].ts, mts |-> MaxTime(q, n),
   comp |-> z.comp, bytes |-> z.len + (Produce_header - Header)]

----------------------------------------------------------------------------
(* The broker's log (external).  An entry covers the offsets base..last.     *)
(* Without compression a set of version 0 or 1 is stored message by message. *)

Entry(s, base, ctrl) ==
  [base |-> base, last |-> base + s.lod, bts |-> s.bts, mts |-> s.mts, comp |-> s.comp,
   ctrl |-> ctrl, bad |-> "no", bytes |-> s.bytes, recs |-> s.recs]

\* The broker stamps on arrival by marking the set and overwriting its time.
AppendTime == 99
Stamped(e) == IF LogAppend /\ MsgVersion > 0 THEN [e EXCEPT !.mts = AppendTime] ELSE e

Appended(s, base) ==
  IF MsgVersion = 2 \/ s.comp
  THEN <<Stamped(Entry(s, base, FALSE))>>
  ELSE [i \in 1..Len(s.recs) |->
          Stamped(Entry([s EXCEPT !.recs = <<[s.recs[i] EXCEPT !.rel = 0]>>, !.lod = 0,
                                  !.bytes = s.bytes \div Len(s.recs)], base + i - 1, FALSE))]

\* Compaction takes one record out of an entry.  A version 2 set keeps the
\* offsets of its header; the wrapper of an older one has the last offset left.
Without(e, i) ==
  LET r == RemoveAt(e.recs, i)
  IN [e EXCEPT !.recs = r,
               !.last = IF MsgVersion = 2 \/ r = <<>> THEN @ ELSE e.base + Last(r).rel]
Compacted(k, i) ==
  LET e == Without(log[k], i)
  IN IF e.recs = <<>> /\ MsgVersion < 2 THEN RemoveAt(log, k) ELSE ReplaceAt(log, k, e)

\* What a fetch returns: entries from the one that covers the offset on, as far
\* as the bytes reach, and whether the next one was cut.  A broker that knows
\* version 2 always sends the first entry whole.
Answer(f) ==
  LET from == SelectSeq(log, LAMBDA e : e.last >= f.offset)
      size(n) == Sum([i \in 1..n |-> from[i].bytes])
      n == Max({k \in 0..Len(from) : size(k) <= f.bytes}
               \cup (IF MsgVersion = 2 /\ from # <<>> THEN {1} ELSE {0}))
  IN [sets |-> SubSeq(from, 1, n), cut |-> n < Len(from) /\ size(n) < f.bytes]

----------------------------------------------------------------------------
(* The reader.  Its state: the partition's fetch offset and fetch size, the  *)
(* ops of this response, how many messages and control sets it held, the     *)
(* offset a set's header points past, and the error that ended it.           *)

Reader(f) == [fo |-> f.offset, bytes |-> f.bytes, q |-> <<>>, bad |-> {}, cnt |-> 0,
              ctrl |-> 0, next |-> 0, err |-> "none"]

Enq(r, off, id, ts) == [r EXCEPT !.q = Append(@, [off |-> off, id |-> id, ts |-> ts]),
                                 !.cnt = @ + 1]
BadMsg(r, off) == [r EXCEPT !.bad = @ \cup {off}]
Empty(r) == r.q = <<>> /\ r.bad = {}

\* Time of a message: none in version 0, the wrapper's or set's when the broker
\* stamped it, its own otherwise.
TimeOf(e, rec) ==
  CASE MsgVersion = 0 -> 0
    [] MsgVersion = 1 -> IF LogAppend THEN e.mts ELSE rec.t
    [] OTHER -> IF LogAppend THEN e.mts ELSE e.bts + rec.t

Outdated(r, off) == off < r.fo
msg_v0_1(r, e, rec, relative) ==
  LET off == IF relative THEN rec.rel ELSE e.base + rec.rel
  IN IF ~relative /\ Outdated(r, off) THEN r ELSE Enq(r, off, rec.id, TimeOf(e, rec))

\* postproc: a wrapped set of version 1 holds relative offsets, made absolute
\* from the wrapper's offset (the last message's) and the number of messages.
BaseOf(outer, cnt) == outer - cnt + 1
fix_offsets(r, outer) ==
  LET q == [i \in 1..Len(r.q) |-> [r.q[i] EXCEPT !.off = @ + BaseOf(outer, r.cnt)]]
  IN [r EXCEPT !.q = SelectSeq(q, LAMBDA m : ~Outdated(r, m.off))]

Grow(r) ==
  IF r.ctrl > 0 THEN r
  ELSE IF r.bytes < FetchMax THEN [r EXCEPT !.bytes = 2 * @]
  ELSE IF r.err = "none" THEN BadMsg(r, r.fo) ELSE r

\* The fetch offset moves past the last message, and further if a set's header
\* says so.
Advance(r) ==
  LET fo == IF r.q # <<>> THEN Last(r.q).off + 1 ELSE r.fo
  IN [r EXCEPT !.fo = IF r.next > fo THEN r.next ELSE fo]

\* rd_kafka_msgset_reader_run, after the sets have been read.
Finish(r, relative, outer) ==
  LET p == IF Empty(r) THEN Grow(r)
           ELSE LET x == IF relative THEN fix_offsets(r, outer) ELSE r
                IN IF x.err = "underflow" /\ x.cnt > 0 THEN [x EXCEPT !.err = "none"] ELSE x
  IN Advance(p)

\* A wrapped set of version 0 or 1 is read by a reader of its own, whose
\* messages are appended to the outer one's.
inner_set(r, e) ==
  LET relative == MsgVersion = 1
      inner == FoldLeft(LAMBDA x, rec : msg_v0_1(x, e, rec, relative),
                        Reader([offset |-> r.fo, bytes |-> r.bytes]), e.recs)
      done == Finish(inner, relative, e.last)
  IN [r EXCEPT !.fo = done.fo, !.bytes = done.bytes, !.q = @ \o done.q,
               !.bad = @ \cup done.bad, !.cnt = @ + done.cnt, !.err = done.err]

\* The messages of a version 2 set follow each other.
msg_v2(r, e, rec) ==
  IF Outdated(r, e.base + rec.rel) THEN r
  ELSE Enq(r, e.base + rec.rel, rec.id, TimeOf(e, rec))
msgs_v2(r, e) == FoldLeft(LAMBDA x, rec : msg_v2(x, e, rec), r, e.recs)

\* A payload that cannot be decompressed is reported and ends the reading.
decompress(r, e, offset) ==
  IF e.bad = "codec" THEN [BadMsg(r, offset) EXCEPT !.err = "codec"]
  ELSE IF MsgVersion < 2 THEN inner_set(r, e) ELSE msgs_v2(r, e)

\* rd_kafka_msgset_reader_msg_v0_1 on what the response holds: a message that
\* fails its checksum is reported and passed over.
set_v0_1(r, e) ==
  IF e.bad = "crc" /\ CheckCrcs THEN BadMsg(r, e.last)
  ELSE IF ~e.comp THEN msg_v0_1(r, e, e.recs[1], FALSE)
  ELSE IF Outdated(r, e.last) THEN r
  ELSE decompress(r, e, e.last)

\* The offset after a version 2 set.
HeaderEnd(e) == e.last + 1

\* rd_kafka_msgset_reader_v2.  A set that fails its checksum is reported; the
\* skip that follows takes a length for a position, so what comes next is not
\* at the start of a set and the parser gives up.
set_v2(r, e) ==
  IF e.bad = "crc" /\ CheckCrcs THEN [BadMsg(r, e.base) EXCEPT !.err = "underflow"]
  ELSE LET x == CASE e.last < r.fo -> r
                  [] e.last >= r.fo /\ e.ctrl -> [r EXCEPT !.ctrl = @ + 1]
                  [] OTHER -> IF e.comp THEN decompress(r, e, e.base) ELSE msgs_v2(r, e)
       IN IF x.err # "none" THEN x ELSE [x EXCEPT !.next = HeaderEnd(e)]

ReadSet(r, e) ==
  IF r.err # "none" THEN r ELSE IF MsgVersion = 2 THEN set_v2(r, e) ELSE set_v0_1(r, e)

\* rd_kafka_msgset_parse: the sets of a response until one is cut short.
ReadAll(f, a) ==
  LET r == FoldLeft(LAMBDA x, e : ReadSet(x, e), Reader(f), a.sets)
  IN IF a.cut /\ r.err = "none" THEN [r EXCEPT !.err = "underflow"] ELSE r
rd_kafka_msgset_parse(f, a) == Finish(ReadAll(f, a), FALSE, 0)

----------------------------------------------------------------------------
Init ==
  /\ xmit = <<>> /\ made = 0 /\ log = <<>> /\ end = 0
  /\ truth = <<>> /\ gone = {}
  /\ start \in Starts /\ fetch = [offset |-> start, bytes |-> FetchMin]
  /\ got = <<>> /\ errs = {} /\ batch = [n |-> 0, bytes |-> 0] /\ aborted = FALSE
  /\ sparse = FALSE

\* rd_kafka_msg_new0 accepts a message up to message.max.bytes.
NewMsg(size, ts) ==
  /\ made < NMsgs /\ ~aborted
  /\ size <= MaxMsgSize
  /\ made' = made + 1
  /\ xmit' = Append(xmit, [id |-> made + 1, size |-> size, ts |-> ts])
  /\ UNCHANGED <<log, end, truth, gone, fetch, start, got, errs, batch, aborted, sparse>>

\* rd_kafka_msgset_create_ProduceRequest and rd_kafka_buf_finalize.  The request
\* reaches the broker, which appends its set.
WithinLimit(len, total) == len <= MaxMsgSize /\ total - 4 <= MaxMsgSize
create_ProduceRequest(save) ==
  /\ ~aborted /\ xmit # <<>>
  /\ LET n == write_msgq(xmit)
         len == Written(xmit, n)
         z == compress(len, compress_codec(len, save))
         s == finalize(xmit, n, z)
     IN /\ n > 0
        /\ Compression \/ save = 0
        /\ batch' = [n |-> n, bytes |-> Produce_header + z.len]
        /\ aborted' = ~WithinLimit(len, Produce_header + z.len)
        /\ IF aborted' THEN UNCHANGED <<xmit, log, end, truth>>
           ELSE /\ xmit' = SubSeq(xmit, n + 1, Len(xmit))
                /\ log' = log \o Appended(s, end)
                /\ end' = end + n
                /\ truth' = truth \o [i \in 1..n |-> [id |-> xmit[i].id, ts |-> xmit[i].ts]]
  /\ UNCHANGED <<made, gone, fetch, start, got, errs, sparse>>

\* A transaction marker takes an offset (external).
AppendControl ==
  /\ MayControl /\ MsgVersion = 2 /\ ~aborted
  /\ ~\E k \in 1..Len(log) : log[k].ctrl
  /\ LET s == [recs |-> <<[rel |-> 0, t |-> 0, id |-> 0]>>, lod |-> 0, bts |-> 0, mts |-> 0,
               comp |-> FALSE, bytes |-> 78]
     IN log' = Append(log, Entry(s, end, TRUE))
  /\ end' = end + 1
  /\ truth' = Append(truth, [id |-> 0, ts |-> 0])
  /\ gone' = gone \cup {end}
  /\ UNCHANGED <<xmit, made, fetch, start, got, errs, batch, aborted, sparse>>

\* The log cleaner removes a superseded message (external).
Compact(k, i) ==
  /\ MayCompact /\ ~aborted
  /\ ~log[k].ctrl
  /\ log' = Compacted(k, i)
  /\ gone' = gone \cup {log[k].base + log[k].recs[i].rel}
  /\ UNCHANGED <<xmit, made, end, truth, fetch, start, got, errs, batch, aborted, sparse>>

\* Bytes of one set go bad on the broker's disk (external).
Spoil(k, how) ==
  /\ MaySpoil /\ ~aborted
  /\ \A j \in 1..Len(log) : log[j].bad = "no"
  /\ ~log[k].ctrl
  /\ how = "codec" => log[k].comp
  /\ log' = [log EXCEPT ![k].bad = how]
  /\ UNCHANGED <<xmit, made, end, truth, gone, fetch, start, got, errs, batch, aborted, sparse>>

\* A wrapped set of version 1 from which messages have been removed: BaseOf
\* counts the ones that are left.
Sparse(e) == MsgVersion = 1 /\ e.comp /\ Len(e.recs) # e.last - e.base + 1

\* One FetchRequest and the handling of its response.
Fetch ==
  /\ ~aborted
  /\ LET a == Answer(fetch)
         r == rd_kafka_msgset_parse(fetch, a)
     IN /\ a.sets # <<>> \/ a.cut
        /\ fetch' = [offset |-> r.fo, bytes |-> r.bytes]
        /\ got' = got \o r.q
        /\ errs' = errs \cup r.bad
        /\ sparse' = (sparse \/ \E i \in 1..Len(a.sets) : Sparse(a.sets[i]))
  /\ UNCHANGED <<xmit, made, log, end, truth, gone, start, batch, aborted>>

Next ==
  \/ \E s \in Sizes, t \in Times : NewMsg(s, t)
  \/ \E d \in Squeeze : create_ProduceRequest(d)
  \/ AppendControl
  \/ \E k \in 1..Len(log) : \E i \in 1..Len(log[k].recs) : Compact(k, i)
  \/ \E k \in 1..Len(log), how \in {"crc", "codec"} : Spoil(k, how)
  \/ Fetch

Spec == Init /\ [][Next]_vars

----------------------------------------------------------------------------
(* Properties *)

Offset(i) == i - 1
Held == {Offset(i) : i \in 1..Len(truth)} \ gone
Delivered == {got[i].off : i \in 1..Len(got)}
\* The time a message should show.
TimeAt(o) == IF MsgVersion = 0 THEN 0 ELSE IF LogAppend THEN AppendTime ELSE truth[o + 1].ts

\* The time of message id, whatever its offset.
TimeOfId(id) == CHOOSE x \in {TimeAt(Offset(i)) : i \in {k \in 1..Len(truth) : truth[k].id = id}} : TRUE

\* The application is given the messages that were produced, in that order, none
\* twice, each with its time.  What it is given for an offset is the message
\* that was produced there, none is older than asked for, and offsets only grow:
\* the writer's relative offsets and time differences and the reader's
\* reconstruction of both agree, in every format, whatever the sets' boundaries.
\* The offsets are right unless a compacted set of version 1 was read, whose base
\* the reader takes from the number of messages that are left in it.
Faithful ==
  /\ \A i \in 1..Len(got) : got[i].id \in 1..made /\ got[i].ts = TimeOfId(got[i].id)
  /\ \A i, j \in 1..Len(got) : i < j => got[i].id < got[j].id
  /\ ~sparse =>
       /\ \A i \in 1..Len(got) :
            got[i].off \in start..(end - 1) /\ got[i].id = truth[got[i].off + 1].id
       /\ \A i, j \in 1..Len(got) : i < j => got[i].off < got[j].off

\* The fetch offset never passes a message that is still in the log and was
\* not handed to the application (or reported as unreadable), unless a compacted
\* set of version 1 was read.
NothingSkipped == ~sparse =>
  \A o \in Held : o < fetch.offset =>
     o \in Delivered \/ o < start \/ \E k \in 1..Len(log) :
        log[k].bad # "no" /\ o \in log[k].base..log[k].last

\* The request the writer builds fits message.max.bytes, as its assertions and
\* the one of rd_kafka_buf_finalize demand.
NoAbort == ~aborted

=============================================================================
