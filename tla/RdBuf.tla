------------------------------- MODULE RdBuf -------------------------------
(***************************************************************************)
(* librdkafka's segmented buffer (rdbuf.c, rdbuf.h): every request and     *)
(* response is built and read with it.  A buffer is a list of segments;    *)
(* writes fill the segment at the write position and allocate new ones,    *)
(* other memory is pushed in between, and slices read a range of it.       *)
(*                                                                         *)
(* data is what the buffer is to hold: the bytes in the order of the       *)
(* calls.  A byte is 10 * (number of the call) + (its place in the call).  *)
(* Reading begins when writing is over.                                    *)
(***************************************************************************)
EXTENDS Integers, Sequences, FiniteSets, SequencesExt, FiniteSetsExt

CONSTANTS
    Ops,            \* the calls that are made
    Careful,        \* they are made as the rest of the library makes them: contiguous room
                    \* is asked for in a full buffer, and seeks go to what was written
    Extras,         \* sizes of the memory allocated with the buffer
    Hdr,            \* sizeof(rd_segment_t)
    Sizes,          \* lengths of the calls
    MaxOps,         \* calls that write
    MaxReads        \* calls that read

VARIABLES
    b,              \* the buffer
    data,           \* its contents
    n,              \* calls made so far
    slice,          \* the slice, [seg, rof, start, end]; seg = 0 before it is made
    save,           \* slices saved by rd_slice_narrow, innermost first
    at,             \* where the slice is to be in data
    res             \* the last read: what was returned and what it should be

vars == <<b, data, n, slice, save, at, res>>

Align == 2
RoundUp(x) == ((x + Align - 1) \div Align) * Align

NoSlice == [seg |-> 0, rof |-> 0, start |-> 0, end |-> 0]
NoResult == [got |-> <<>>, want |-> <<>>, ret |-> 0, len |-> 0]

\* rd_buf_init
Init ==
    /\ b \in {[segs |-> <<>>, wpos |-> 0, len |-> 0, size |-> 0, used |-> 0, extra |-> e, hung |-> FALSE] : e \in Extras}
    /\ data = <<>> /\ n = 0
    /\ slice = NoSlice /\ save = <<>> /\ at = 0 /\ res = NoResult

-----------------------------------------------------------------------------
(* Segments.  mem holds the bytes written, Len(mem) is seg_of.             *)

Of(s) == Len(s.mem)
Remains(s) == IF s.ro THEN 0 ELSE s.size - Of(s)

\* rd_segment_init; the header lies in the extra memory or was allocated
Seg(size, alloc) == [mem |-> <<>>, size |-> size, absof |-> 0, ro |-> FALSE, free |-> alloc, alloc |-> alloc]

\* extra_alloc: the memory used afterwards, or 0
extra_alloc(used, extra, size) ==
    LET of == RoundUp(used) IN IF of + size > extra THEN 0 ELSE of + size

\* rd_buf_alloc_segment0: header and payload, or the header alone, in the extra memory
rd_buf_alloc_segment0(buf, size) ==
    LET both == extra_alloc(buf.used, buf.extra, Hdr + size)
        head == extra_alloc(buf.used, buf.extra, Hdr)
    IN IF both /= 0 THEN [buf |-> [buf EXCEPT !.used = both], seg |-> Seg(size, FALSE)]
       ELSE IF head /= 0 THEN [buf |-> [buf EXCEPT !.used = head], seg |-> Seg(size, FALSE)]
       ELSE [buf |-> buf, seg |-> Seg(size, TRUE)]

\* rd_buf_get_writable0: the write position moves to the first segment with room, or to
\* the last one; a segment that was allocated early gets its offset.
Writable(buf) == {i \in DOMAIN buf.segs : i >= buf.wpos /\ Remains(buf.segs[i]) > 0}

Reached(s, len) == IF Of(s) = 0 /\ s.absof < len THEN [s EXCEPT !.absof = len] ELSE s

rd_buf_get_writable0(buf) ==
    IF buf.wpos = 0 THEN buf
    ELSE IF Writable(buf) = {} THEN [buf EXCEPT !.wpos = Len(buf.segs)]
    ELSE LET i == Min(Writable(buf))
         IN [buf EXCEPT !.wpos = i, !.segs[i] = Reached(@, buf.len)]

rd_buf_append_segment(buf, seg) ==
    LET a == [buf EXCEPT !.segs = Append(@, [seg EXCEPT !.absof = buf.len]),
                         !.len = @ + Of(seg), !.size = @ + seg.size]
    IN IF buf.wpos = 0 THEN [a EXCEPT !.wpos = Len(a.segs)] ELSE rd_buf_get_writable0(a)

\* rd_buf_alloc_segment
AllocSize(buf, min, max) == IF min /= max \/ max = 0 THEN Max({Hdr * 4, min * 2, buf.size \div 2}) ELSE max

rd_buf_alloc_segment(buf, min, max) ==
    LET a == rd_buf_alloc_segment0(buf, AllocSize(buf, min, max)) IN rd_buf_append_segment(a.buf, a.seg)

rd_buf_write_ensure_contig(buf, size) ==
    IF buf.wpos /= 0 /\ Remains(buf.segs[buf.wpos]) >= size THEN buf
    ELSE LET a == rd_buf_alloc_segment(buf, size, size) IN [a EXCEPT !.wpos = Len(a.segs)]

WriteRemains(buf) == buf.size - buf.len

rd_buf_write_ensure(buf, min, max) ==
    LET remains == WriteRemains(buf)
    IN IF remains >= min THEN buf
       ELSE rd_buf_alloc_segment(buf, min - remains, IF max /= 0 THEN max - remains ELSE 0)

\* The loop of rd_buf_write; without a writable segment it goes on for ever.
RECURSIVE WriteLoop(_, _)
WriteLoop(buf, bytes) ==
    IF bytes = <<>> THEN buf
    ELSE LET a == rd_buf_get_writable0(buf)
             room == IF a.wpos = 0 THEN 0 ELSE Remains(a.segs[a.wpos])
             wlen == Min({Len(bytes), room})
         IN IF wlen = 0 THEN [a EXCEPT !.hung = TRUE]
            ELSE WriteLoop([a EXCEPT !.segs[a.wpos].mem = @ \o SubSeq(bytes, 1, wlen), !.len = @ + wlen],
                           SubSeq(bytes, wlen + 1, Len(bytes)))

rd_buf_write(buf, bytes) == WriteLoop(rd_buf_write_ensure(buf, Len(bytes), 0), bytes)

\* rd_buf_get_segment_at_offset: 0 is NULL
rd_buf_get_segment_at_offset(buf, hint, absof) ==
    LET from == IF hint = 0 \/ absof < buf.segs[hint].absof THEN 1 ELSE hint
        hits == {i \in from .. Len(buf.segs) : absof >= buf.segs[i].absof /\ absof < buf.segs[i].absof + Of(buf.segs[i])}
    IN IF absof > buf.len \/ hits = {} THEN 0 ELSE Min(hits)

SplitFlags(new, old) == new \/ old

\* rd_segment_split at the end of what is written; the new segment is not appended
rd_segment_split(buf, i) ==
    LET a == rd_buf_alloc_segment0(buf, 0)
        old == buf.segs[i]
        rest == old.size - Of(old)
    IN [buf |-> [a.buf EXCEPT !.segs[i].size = Of(old), !.size = @ - rest],
        seg |-> [a.seg EXCEPT !.size = rest, !.free = SplitFlags(@, old.free), !.ro = old.ro]]

rd_buf_push(buf, bytes) ==
    LET splits == buf.wpos /= 0 /\ Remains(buf.segs[buf.wpos]) > 0
        s == rd_segment_split(buf, buf.wpos)
        a == rd_buf_alloc_segment0(IF splits THEN s.buf ELSE buf, 0)
        pushed == rd_buf_append_segment(a.buf, [a.seg EXCEPT !.mem = bytes, !.size = Len(bytes), !.ro = TRUE])
    IN IF splits THEN rd_buf_append_segment(pushed, s.seg) ELSE pushed

\* Mutation: the segments after the position stay.
CutAfter_no(segs, i) == segs

\* The segments after the position are destroyed, from the last one on.
CutAfter(segs, i) == SubSeq(segs, 1, i)

SumSizes(segs) == FoldLeft(LAMBDA s, x : s + x.size, 0, segs)

rd_buf_write_seek(buf, absof) ==
    LET i == rd_buf_get_segment_at_offset(buf, buf.wpos, absof)
        relof == absof - buf.segs[i].absof
        segs == CutAfter(buf.segs, i)
    IN IF i = 0 THEN buf
       ELSE [buf EXCEPT !.segs = [segs EXCEPT ![i].mem = SubSeq(@, 1, relof)],
                        !.wpos = i, !.size = SumSizes(segs), !.len = buf.segs[i].absof + relof]

\* rd_segment_write_update and the loop of rd_buf_write_update
RECURSIVE UpdateLoop(_, _, _, _)
UpdateLoop(buf, i, absof, bytes) ==
    IF bytes = <<>> THEN buf
    ELSE LET s == buf.segs[i]
             relof == absof - s.absof
             wlen == Min({Len(bytes), Of(s) - relof})
         IN UpdateLoop([buf EXCEPT !.segs[i].mem = [j \in DOMAIN @ |-> IF j - relof \in 1 .. wlen THEN bytes[j - relof] ELSE @[j]]],
                       i + 1, absof + wlen, SubSeq(bytes, wlen + 1, Len(bytes)))

rd_buf_write_update(buf, absof, bytes) ==
    UpdateLoop(buf, rd_buf_get_segment_at_offset(buf, buf.wpos, absof), absof, bytes)

\* rd_buf_get_write_iov: the bytes made available
rd_buf_get_write_iov(buf, max) ==
    FoldLeft(LAMBDA sum, i : IF i >= buf.wpos /\ sum < max THEN sum + Remains(buf.segs[i]) ELSE sum, 0,
             [i \in DOMAIN buf.segs |-> i])

-----------------------------------------------------------------------------
(* Calls that write *)

Bytes(len) == [i \in 1 .. len |-> 10 * (n + 1) + i]
Writing(op) == op \in Ops /\ n < MaxOps /\ slice.seg = 0 /\ ~b.hung
Wrote(buf, d) == b' = buf /\ data' = d /\ n' = n + 1 /\ UNCHANGED <<slice, save, at, res>>

Write(len) == Writing("write") /\ Wrote(rd_buf_write(b, Bytes(len)), data \o Bytes(len))
Push(len) == Writing("push") /\ Wrote(rd_buf_push(b, Bytes(len)), data \o Bytes(len))
EnsureContig(len) ==
    /\ Writing("contig")
    /\ Careful => WriteRemains(b) = 0
    /\ Wrote(rd_buf_write_ensure_contig(b, len), data)
Ensure(len) == Writing("ensure") /\ Wrote(rd_buf_write_ensure(b, len, len), data)
Seek(absof) ==
    /\ absof < Len(data)
    /\ Writing("seek")
    /\ Careful => ~b.segs[rd_buf_get_segment_at_offset(b, b.wpos, absof)].ro
    /\ Wrote(rd_buf_write_seek(b, absof), SubSeq(data, 1, absof))
Update(absof, len) ==
    /\ Writing("update") /\ absof + len <= Len(data)
    /\ Wrote(rd_buf_write_update(b, absof, Bytes(len)),
             [i \in DOMAIN data |-> IF i - absof \in 1 .. len THEN Bytes(len)[i - absof] ELSE data[i]])

-----------------------------------------------------------------------------
(* Slices *)

AbsOffset(s) == b.segs[s.seg].absof + s.rof
SliceRemains(s) == s.end - AbsOffset(s)

\* rd_slice_init and rd_slice_init_seg; NoSlice when it fails
rd_slice_init(absof, size) ==
    LET i == rd_buf_get_segment_at_offset(b, 0, absof)
    IN IF i = 0 \/ b.len < absof + size THEN NoSlice
       ELSE [seg |-> i, rof |-> absof - b.segs[i].absof, start |-> absof, end |-> absof + size]

\* The loop of rd_slice_reader0 to a segment with something to read, then its bytes
RECURSIVE SkipEmpty(_, _, _)
SkipEmpty(i, rof, end) ==
    IF i <= Len(b.segs) /\ b.segs[i].absof + rof < end /\ Of(b.segs[i]) = rof THEN SkipEmpty(i + 1, 0, end) ELSE <<i, rof>>

Advance(s, i, rlen) == IF s.seg /= i THEN [s EXCEPT !.seg = i, !.rof = rlen] ELSE [s EXCEPT !.rof = @ + rlen]

rd_slice_reader0(s) ==
    LET p == SkipEmpty(s.seg, s.rof, s.end)
        i == p[1]
        rof == p[2]
        rlen == Min({Of(b.segs[i]) - rof, SliceRemains(s)})
    IN IF i > Len(b.segs) THEN [s |-> s, bytes |-> <<>>]
       ELSE IF b.segs[i].absof + rof >= s.end THEN [s |-> s, bytes |-> <<>>]
       ELSE [s |-> Advance(s, i, rlen), bytes |-> SubSeq(b.segs[i].mem, rof + 1, rof + rlen)]

RECURSIVE ReadLoop(_, _)
ReadLoop(s, bytes) ==
    LET r == rd_slice_reader0(s) IN IF r.bytes = <<>> THEN [s |-> s, bytes |-> bytes] ELSE ReadLoop(r.s, bytes \o r.bytes)

\* rd_slice_read: all or nothing; the slice is shortened for the loop
rd_slice_read(s, size) ==
    IF SliceRemains(s) < size THEN [s |-> s, bytes |-> <<>>]
    ELSE LET r == ReadLoop([s EXCEPT !.end = AbsOffset(s) + size], <<>>)
         IN [s |-> [r.s EXCEPT !.end = s.end], bytes |-> r.bytes]

rd_slice_seek(s, offset) ==
    LET absof == s.start + offset
        i == rd_buf_get_segment_at_offset(b, s.seg, absof)
    IN IF absof >= s.end THEN s ELSE [s EXCEPT !.seg = i, !.rof = absof - b.segs[i].absof]

rd_slice_peek(s, offset, size) == IF s.start + offset >= s.end THEN <<>> ELSE rd_slice_read(rd_slice_seek(s, offset), size).bytes

\* rd_slice_ensure_contig
rd_slice_ensure_contig(s, size) ==
    IF SliceRemains(s) < size \/ s.rof + size > Of(b.segs[s.seg]) THEN [s |-> s, bytes |-> <<>>]
    ELSE rd_slice_read(s, size)

-----------------------------------------------------------------------------
(* Calls that read *)

SliceInit(absof, size) ==
    /\ slice.seg = 0 /\ ~b.hung /\ b.segs /= <<>> /\ absof + size <= Len(data)
    /\ slice' = rd_slice_init(absof, size) /\ slice'.seg /= 0
    /\ at' = absof /\ n' = 0
    /\ UNCHANGED <<b, data, save, res>>

Reading(op) == op \in Ops /\ slice.seg /= 0 /\ n < MaxReads
Want(from, size) == IF from + size <= slice.end THEN SubSeq(data, from + 1, from + size) ELSE <<>>

Read(size) ==
    /\ Reading("read")
    /\ LET r == rd_slice_read(slice, size)
       IN slice' = r.s /\ res' = [NoResult EXCEPT !.got = r.bytes, !.want = Want(at, size)]
    /\ at' = IF at + size <= slice.end THEN at + size ELSE at
    /\ n' = n + 1
    /\ UNCHANGED <<b, data, save>>

\* The pieces a loop over rd_slice_reader returns: rd_slice_get_iov, which leaves the
\* slice, and the checksums, which go to its end.
ReadAll(update) ==
    /\ Reading("all")
    /\ LET r == ReadLoop(slice, <<>>)
       IN /\ slice' = IF update THEN r.s ELSE slice
          /\ res' = [NoResult EXCEPT !.got = r.bytes, !.want = SubSeq(data, at + 1, slice.end)]
    /\ at' = IF update THEN slice.end ELSE at
    /\ n' = n + 1
    /\ UNCHANGED <<b, data, save>>

Peek(offset, size) ==
    /\ Reading("peek")
    /\ res' = [NoResult EXCEPT !.got = rd_slice_peek(slice, offset, size), !.want = Want(slice.start + offset, size)]
    /\ n' = n + 1
    /\ UNCHANGED <<b, data, slice, save, at>>

SeekSlice(offset) ==
    /\ Reading("sseek")
    /\ slice' = rd_slice_seek(slice, offset)
    /\ at' = IF slice.start + offset < slice.end THEN slice.start + offset ELSE at
    /\ res' = NoResult /\ n' = n + 1
    /\ UNCHANGED <<b, data, save>>

Contig(size) ==
    /\ Reading("sure")
    /\ LET r == rd_slice_ensure_contig(slice, size)
       IN /\ slice' = r.s
          /\ at' = IF r.bytes /= <<>> THEN at + size ELSE at
          /\ res' = [got |-> r.bytes, want |-> IF r.bytes = <<>> THEN <<>> ELSE Want(at, size),
                     ret |-> Len(r.bytes),
                     len |-> IF \E i \in DOMAIN b.segs : /\ at >= b.segs[i].absof
                                                         /\ at + size <= Min({b.segs[i].absof + Of(b.segs[i]), slice.end})
                             THEN size ELSE 0]
    /\ n' = n + 1
    /\ UNCHANGED <<b, data, save>>

\* rd_slice_narrow_relative, whose assertion holds as the size is not negative
Narrow(size) ==
    /\ Reading("narrow") /\ AbsOffset(slice) + size <= slice.end
    /\ save' = <<slice>> \o save
    /\ slice' = [slice EXCEPT !.end = AbsOffset(slice) + size]
    /\ res' = NoResult /\ n' = n + 1
    /\ UNCHANGED <<b, data, at>>

Widened(s, saved) == [s EXCEPT !.end = saved.end]

rd_slice_widen ==
    /\ Reading("narrow") /\ save /= <<>>
    /\ slice' = Widened(slice, Head(save)) /\ save' = Tail(save)
    /\ res' = NoResult /\ n' = n + 1
    /\ UNCHANGED <<b, data, at>>

\* rd_buf_write_slice into an empty buffer: what it returns is the sum of the positions
WriteSlice ==
    /\ Reading("wslice")
    /\ LET r == ReadLoop(slice, <<>>)
           RECURSIVE Positions(_, _)
           Positions(s, pos) == LET p == rd_slice_reader0(s)
                                IN IF p.bytes = <<>> THEN 0 ELSE pos + Positions(p.s, pos + Len(p.bytes))
       IN /\ slice' = r.s
          /\ res' = [got |-> r.bytes, want |-> SubSeq(data, at + 1, slice.end),
                     ret |-> Positions(slice, 0), len |-> SliceRemains(slice)]
    /\ at' = slice.end /\ n' = n + 1
    /\ UNCHANGED <<b, data, save>>

Offsets == 0 .. Len(data)

Next ==
    \/ \E len \in Sizes : Write(len) \/ Push(len) \/ EnsureContig(len) \/ Ensure(len)
    \/ \E o \in Offsets : Seek(o) \/ SeekSlice(o)
    \/ \E o \in Offsets, len \in Sizes : Update(o, len) \/ SliceInit(o, len) \/ Peek(o, len)
    \/ SliceInit(0, Len(data))
    \/ \E len \in Sizes : Read(len) \/ Contig(len) \/ Narrow(len)
    \/ \E u \in BOOLEAN : ReadAll(u)
    \/ rd_slice_widen \/ WriteSlice

Spec == Init /\ [][Next]_vars

-----------------------------------------------------------------------------
(* Properties *)

Contents == FlattenSeq([i \in DOMAIN b.segs |-> b.segs[i].mem])

\* The segments hold the bytes in the order of the calls, and offsets, length and size
\* agree with them, so that lookups by offset find the right byte.
Faithful ==
    ~b.hung =>
        /\ Contents = data /\ b.len = Len(data) /\ b.size = SumSizes(b.segs)
        /\ \A i \in DOMAIN b.segs : Of(b.segs[i]) > 0 =>
              b.segs[i].absof = Len(FlattenSeq([j \in 1 .. i - 1 |-> b.segs[j].mem]))
        /\ b.wpos /= 0 => b.segs[b.wpos].absof + Of(b.segs[b.wpos]) = b.len

\* A write comes to an end: the room it counts on is there.
NeverHangs == ~b.hung

\* All the room that is counted can be received into: the transport asks for it, fills
\* it from the socket and then advances the write position.
RoomOffered == \A max \in Sizes : rd_buf_get_write_iov(b, max) >= Min({max, WriteRemains(b)})

\* A segment's header is freed exactly when it was allocated.
FreedRight == \A i \in DOMAIN b.segs : b.segs[i].free <=> b.segs[i].alloc

\* A read returns the bytes at the slice's position, or nothing when there are not
\* enough, and the position is where the reads and seeks so far have left it.
ReadsRight == slice.seg /= 0 => (res.got = res.want /\ AbsOffset(slice) = at /\ at <= slice.end)

=============================================================================
