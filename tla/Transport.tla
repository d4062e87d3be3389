------------------------------ MODULE Transport ------------------------------
(***************************************************************************)
(* The byte stream under a broker connection (rdkafka_transport.c, with    *)
(* rd_kafka_send and rd_kafka_recv of rdkafka_broker.c and the framing of  *)
(* rdkafka_sasl.c): poll, partial writes of requests, partial reads of     *)
(* answers, over a plain socket or over SSL.  The server answers each      *)
(* request it has read whole.                                              *)
(*                                                                         *)
(* A byte is <<message, place>>.  The reader knows where a message starts  *)
(* only by counting, as the code does: a length read from a byte that is   *)
(* not the end of a header is nonsense and ends the connection.            *)
(***************************************************************************)
EXTENDS Integers, Sequences, FiniteSets, SequencesExt, FiniteSetsExt

CONSTANTS
  Tls,        \* BOOLEAN: the connection is encrypted
  Framed,     \* BOOLEAN: an exchange of SASL frames, else requests and answers
  ReqLen,     \* the requests, as the sequence of their lengths
  Payload,    \* for each, the length of the payload of its answer
  Hdr,        \* length of the header of an answer (4 or 8 in the code)
  MaxPayload, \* receive.message.max.bytes
  Flash,      \* the requests queued at the head (RD_KAFKA_OP_F_FLASH)
  SockBuf,    \* room in the send buffer of the socket
  MaxRecord,  \* largest SSL record
  MaxInflight,\* max.in.flight.requests.per.connection
  Timeouts    \* BOOLEAN: requests may time out in the queue

VARIABLES
  pc,       \* where the broker thread is: poll, recv, send or saslsend
  pollout,  \* POLLOUT is in the events polled for
  outev,    \* the last poll returned POLLOUT
  out,      \* rkb_outbufs: the queue of requests to write
  req,      \* per request: its state, bytes written, and whether it has a corrid
  kout,     \* the bytes in the send buffer of the socket
  sslw,     \* the write SSL_write has to be called with again, or NoWrite
  badretry, \* SSL_write was called with another write than that
  srv,      \* all the bytes the server has read
  todo,     \* the bytes the server has still to write
  kin,      \* the pieces that wait in the receive buffer of the socket
  ssl,      \* the bytes decrypted and not read
  rbuf,     \* the buffer being received: its bytes and the length it waits for
  frames,   \* the answers received, each the sequence of its bytes
  down      \* the connection is closed

vars == <<pc, pollout, outev, out, req, kout, sslw, badretry, srv, todo, kin, ssl,
          rbuf, frames, down>>

Reqs == DOMAIN ReqLen
NoWrite == <<0, 0>>
NoBuf == [got |-> <<>>, tot |-> 0]

\* The bytes of a request, and of the answer to it: a header and a payload.
Bytes(r, n) == [i \in 1 .. n |-> <<r, i>>]
Request(r) == Bytes(r, ReqLen[r])
Answer(r) == Bytes(r, Hdr + Payload[r])

Inflight == Cardinality({r \in Reqs : req[r].st = "sent"})
               - Len(frames)
Room == SockBuf - Len(kout)

Init ==
  /\ pc = IF Framed THEN "saslsend" ELSE "poll"
  /\ pollout = FALSE /\ outev = FALSE
  /\ out = IF Framed THEN <<1>> ELSE <<>>
  /\ req = [r \in Reqs |-> [st |-> IF Framed /\ r = 1 THEN "queued" ELSE "new",
                            of |-> 0, corrid |-> FALSE]]
  /\ kout = <<>> /\ sslw = NoWrite /\ badretry = FALSE
  /\ srv = <<>> /\ todo = <<>> /\ kin = <<>> /\ ssl = <<>>
  /\ rbuf = NoBuf /\ frames = <<>> /\ down = FALSE

Network == <<srv, todo, kin>>
Reading == <<ssl, rbuf, frames>>
Writing == <<req, kout, sslw, badretry>>

----------------------------------------------------------------------------
(* Writing *)

\* The test of rd_kafka_broker_buf_enq0 that a buffer has been tried already.
Started(r) == req[r].corrid

\* The place at the head of the queue: behind the flash messages and the
\* buffers that have been tried.
AtHead ==
  LET stop == {i \in DOMAIN out : out[i] \notin Flash /\ ~Started(out[i])}
  IN  IF stop = {} THEN Len(out) + 1 ELSE Min(stop)

\* rd_kafka_broker_buf_enq0
BufEnq(r) ==
  /\ ~down /\ ~Framed /\ pc = "poll" /\ req[r].st = "new"
  /\ \A q \in Reqs : q < r /\ q \notin Flash => req[q].st # "new"
  /\ out' = InsertAt(out, IF r \in Flash THEN AtHead ELSE Len(out) + 1, r)
  /\ req' = [req EXCEPT ![r].st = "queued"]
  /\ UNCHANGED <<pc, pollout, outev, kout, sslw, badretry, Network, Reading, down>>

\* Mutation: the read position of the slice does not move after a part is sent.
Advance_not(of, n) == of
\* rd_slice_read with no destination: what was written is not written again.
Advance(of, n) == of + n

\* rd_kafka_transport_socket_sendmsg: as many bytes as there is room for, none
\* when there is none (EAGAIN).
SocketSend(r) == Min({Room, ReqLen[r] - req[r].of})

\* rd_kafka_transport_ssl_send: at most one record.  Without room SSL_write keeps
\* the write, and has to be called with it again.
SslSend(r) == Min({SocketSend(r), MaxRecord})

Taken(r) == IF Tls THEN SslSend(r) ELSE SocketSend(r)

\* The call of SSL_write fails: it waits for another write.
BadRetry(r) == Tls /\ sslw # NoWrite /\ sslw # <<r, req[r].of>>

\* rd_kafka_transport_ssl_io_update: SSL_ERROR_WANT_WRITE polls for POLLOUT.
WantWrite(r) == Tls /\ Taken(r) = 0

\* rd_kafka_transport_send of request r, in rd_kafka_broker_send or
\* rd_kafka_sasl_send.
Write(r) ==
  LET n == Taken(r)
  IN  /\ ~BadRetry(r)
      /\ kout' = kout \o SubSeq(Request(r), req[r].of + 1, req[r].of + n)
      /\ sslw' = IF WantWrite(r) THEN <<r, req[r].of>> ELSE NoWrite
      /\ pollout' = (pollout \/ WantWrite(r))
      /\ req' = [req EXCEPT ![r].of = Advance(@, n), ![r].corrid = TRUE,
                            ![r].st = IF Advance(req[r].of, n) >= ReqLen[r]
                                      THEN "sent" ELSE @]
      /\ UNCHANGED badretry

\* The write is whole: rd_slice_remains is 0.
Whole(r) == Advance(req[r].of, Taken(r)) >= ReqLen[r]

\* One turn of the loop of rd_kafka_send, called again by
\* rd_kafka_transport_io_event while it sends: after a part the thread polls.
Send ==
  /\ ~down /\ pc = "send" /\ out # <<>> /\ Inflight < MaxInflight
  /\ LET r == Head(out)
     IN  /\ Write(r)
         /\ out' = IF Whole(r) THEN Tail(out) ELSE out
         /\ pc' = IF Whole(r) THEN "send" ELSE "poll"
  /\ UNCHANGED <<outev, Network, Reading, down>>

\* The loop of rd_kafka_send ends.
SendEnds ==
  /\ ~down /\ pc = "send" /\ (out = <<>> \/ Inflight >= MaxInflight)
  /\ pc' = "poll"
  /\ UNCHANGED <<pollout, outev, out, Writing, Network, Reading, down>>

\* SSL_write refuses the write: rd_kafka_broker_send fails the broker.
SendFails ==
  /\ ~down /\ pc = "send" /\ out # <<>> /\ Inflight < MaxInflight
  /\ BadRetry(Head(out))
  /\ badretry' = TRUE /\ down' = TRUE
  /\ UNCHANGED <<pc, pollout, outev, out, req, kout, sslw, Network, Reading>>

\* One turn of the loop of rd_kafka_sasl_send, which blocks until the frame is
\* written.
SaslSend ==
  /\ ~down /\ pc = "saslsend"
  /\ LET r == Head(out)
     IN  /\ Write(r)
         /\ out' = IF Whole(r) THEN Tail(out) ELSE out
         /\ pc' = IF Whole(r) THEN "poll" ELSE "saslsend"
  /\ UNCHANGED <<outev, Network, Reading, down>>

\* The test of rd_kafka_broker_bufq_timeout_scan that a request is partly written.
Partial(r) == req[r].of > 0

\* rd_kafka_broker_bufq_timeout_scan: request r times out in the queue.  A buffer
\* that is partly written ends the connection.
TimeOut(r) ==
  /\ Timeouts /\ ~down /\ ~Framed /\ pc = "poll" /\ r \in Range(out)
  /\ out' = SelectSeq(out, LAMBDA q : q # r)
  /\ req' = [req EXCEPT ![r].st = "timedout"]
  /\ down' = Partial(r)
  /\ UNCHANGED <<pc, pollout, outev, kout, sslw, badretry, Network, Reading>>

----------------------------------------------------------------------------
(* Polling *)

\* Mutation: POLLOUT is not asked for.
AskOut_not == FALSE
\* rd_kafka_transport_io_serve asks for POLLOUT when there is something to write.
AskOut == ~Framed /\ out # <<>> /\ Inflight < MaxInflight

\* rd_kafka_transport_poll: the socket has bytes, or has room that was asked for.
Readable == kin # <<>>
Writable == (pollout \/ AskOut) /\ Room > 0

\* rd_kafka_transport_io_serve: poll, clear POLLOUT, and handle what is read
\* first.  In the exchange of frames nothing is written on POLLOUT.
IoServe ==
  /\ ~down /\ pc = "poll" /\ (Readable \/ Writable)
  /\ pollout' = FALSE /\ outev' = Writable
  /\ pc' = CASE Readable -> "recv" [] Framed -> "poll" [] OTHER -> "send"
  /\ UNCHANGED <<out, Writing, Network, Reading, down>>

----------------------------------------------------------------------------
(* Reading *)

\* The bytes that the reader has asked for and not got.
Wanted == (IF rbuf.tot = 0 THEN Hdr ELSE rbuf.tot) - Len(rbuf.got)

\* The bytes SSL_read can give: what is left of a record, or the next record.
Decrypted == IF ssl = <<>> /\ kin # <<>> THEN Head(kin) ELSE ssl

\* rd_kafka_transport_socket_recvmsg and rd_kafka_transport_ssl_recv: up to n bytes.
Available == IF Tls THEN Decrypted ELSE FlattenSeq(kin)
Got(n) == SubSeq(Available, 1, Min({n, Len(Available)}))
Left(n) == SubSeq(Available, Min({n, Len(Available)}) + 1, Len(Available))

\* Take n bytes from the socket, or from SSL.
Take(n) ==
  IF Tls THEN /\ ssl' = Left(n)
              /\ kin' = IF ssl = <<>> /\ kin # <<>> THEN Tail(kin) ELSE kin
         ELSE /\ kin' = IF Left(n) = <<>> THEN <<>> ELSE <<Left(n)>>
              /\ UNCHANGED ssl

\* What follows the last byte of a header: its length field.  A byte that is not
\* at the end of a header, or a payload too large, gives a length out of range.
LengthAt(b) ==
  IF b[2] = Hdr /\ Payload[b[1]] <= MaxPayload THEN Hdr + Payload[b[1]] ELSE -1

\* rd_kafka_transport_io_event calls rd_kafka_recv while it returns 1.
Again(n) == n > 0

\* The buffer holds the whole answer.
Complete(got, tot) == tot # 0 /\ Len(got) = tot

\* The state after a read ends: POLLOUT of the same poll is handled next.
AfterRecv == IF outev /\ ~Framed THEN "send" ELSE "poll"

\* rd_kafka_recv, and rd_kafka_transport_framed_recv: one read into the buffer.
\* The length is known when the header is whole.  rd_kafka_recv is called again
\* until a read gives nothing or half a header; rd_kafka_transport_framed_recv
\* reads on after a header and stops after one frame.
Recv ==
  /\ ~down /\ pc = "recv"
  /\ LET n == Len(Got(Wanted))
         got == rbuf.got \o Got(Wanted)
         header == rbuf.tot = 0 /\ n > 0 /\ Len(got) >= Hdr
         tot == IF header THEN LengthAt(got[Hdr]) ELSE rbuf.tot
         half == rbuf.tot = 0 /\ Len(got) < Hdr
         done == Complete(got, tot)
     IN  /\ Take(Wanted)
         /\ tot >= 0 /\ UNCHANGED down
         /\ rbuf' = IF done THEN NoBuf ELSE [got |-> got, tot |-> tot]
         /\ frames' = IF done THEN Append(frames, got) ELSE frames
         /\ IF Framed /\ done /\ Len(frames) + 1 < Len(ReqLen)
            THEN /\ pc' = "saslsend" /\ out' = <<Len(frames) + 2>>
                 /\ req' = [req EXCEPT ![Len(frames) + 2].st = "queued"]
            ELSE /\ pc' = IF Again(n) /\ ~half /\ (Framed => header /\ ~done)
                          THEN "recv" ELSE AfterRecv
                 /\ UNCHANGED <<out, req>>
  /\ UNCHANGED <<pollout, outev, kout, sslw, badretry, srv, todo>>

\* The length is out of range: the connection ends.
RecvFails ==
  /\ ~down /\ pc = "recv"
  /\ LET got == rbuf.got \o Got(Wanted)
     IN  /\ rbuf.tot = 0 /\ Len(got) >= Hdr /\ LengthAt(got[Hdr]) < 0
  /\ down' = TRUE
  /\ UNCHANGED <<pc, pollout, outev, out, Writing, Network, Reading>>

----------------------------------------------------------------------------
(* The server *)

\* The requests that are whole in what the server has read.
RECURSIVE WholeIn(_)
WholeIn(bytes) ==
  IF bytes = <<>> THEN <<>>
  ELSE LET r == bytes[1][1]
       IN  IF Len(bytes) < ReqLen[r] THEN <<>>
           ELSE <<r>> \o WholeIn(SubSeq(bytes, ReqLen[r] + 1, Len(bytes)))

\* The server reads from the socket, and answers what it has read whole.
ServerReads ==
  /\ kout # <<>>
  /\ \E n \in 1 .. Len(kout) :
       /\ srv' = srv \o SubSeq(kout, 1, n)
       /\ kout' = SubSeq(kout, n + 1, Len(kout))
  /\ LET new == SubSeq(WholeIn(srv'), Len(WholeIn(srv)) + 1, Len(WholeIn(srv')))
     IN  todo' = todo \o FlattenSeq([i \in DOMAIN new |-> Answer(new[i])])
  /\ UNCHANGED <<pc, pollout, outev, out, req, sslw, badretry, kin, Reading, down>>

\* The server writes a piece: a record, or bytes that join those that wait.
ServerWrites ==
  /\ todo # <<>>
  /\ \E n \in 1 .. Min({MaxRecord, Len(todo)}) :
       /\ kin' = IF Tls THEN Append(kin, SubSeq(todo, 1, n))
                 ELSE <<FlattenSeq(kin) \o SubSeq(todo, 1, n)>>
       /\ todo' = SubSeq(todo, n + 1, Len(todo))
  /\ UNCHANGED <<pc, pollout, outev, out, Writing, srv, Reading, down>>

----------------------------------------------------------------------------
(* The specification *)

Thread == IoServe \/ Recv \/ RecvFails \/ Send \/ SendEnds \/ SendFails \/ SaslSend
Server == ServerReads \/ ServerWrites
Next == Thread \/ Server \/ \E r \in Reqs : BufEnq(r) \/ TimeOut(r)

Spec == Init /\ [][Next]_vars

----------------------------------------------------------------------------
(* Properties *)

\* What the server reads is whole requests, one after the other, however the
\* writes are cut: a partial write goes on where it stopped and no other request
\* comes between.
WritesWhole ==
  LET all == srv \o kout
  IN  \A i \in 1 .. Len(all) - 1 :
        \/ all[i + 1] = <<all[i][1], all[i][2] + 1>>
        \/ all[i][2] = ReqLen[all[i][1]] /\ all[i + 1][2] = 1

\* Every answer is received as the server wrote it, in the order of the requests
\* on the wire, however the reads are cut.
ReadsWhole == \A i \in DOMAIN frames :
  /\ i <= Len(WholeIn(srv)) /\ frames[i] = Answer(WholeIn(srv)[i])

=============================================================================
