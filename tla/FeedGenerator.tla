--------------------------- MODULE FeedGenerator ----------------------------
(***************************************************************************)
(* generateData of PythonScript/generateData.py, for one instrument: the   *)
(* simulator that writes a statistics and a price feed for every half      *)
(* second of exchange time, leaving some out, writing some late and some   *)
(* with wrong values, and keeps a second file of what it did.              *)
(*                                                                         *)
(* Time counts tenths of a second, as sendTime does; exchange timestamps   *)
(* and the schedule are multiples of 5.  A line of the log is the type of  *)
(* its feed, its timestamp and what is wrong with it.                      *)
(***************************************************************************)
EXTENDS Integers, Sequences, FiniteSets, SequencesExt, FiniteSetsExt

CONSTANTS Confs,      \* conf.json: every and times of each kind, and len, the delay's length;
                      \* times is 0 for an instrument that is not inRange
          TimeLength, \* base.timeLength, in tenths of a second
          Jumps       \* the time an iteration may take, in tenths of a second

VARIABLES conf, now, end,
          s,          \* the Feed object: ts, next and done of each schedule, resend
          delayQueue, file, errorFile,
          begin       \* history: the timestamp of the initial feed

vars == <<conf, now, end, s, delayQueue, file, errorFile, begin>>

Wrong == {"errorTurnover", "errorBidAsk", "errorPrice", "errorVolume"}
Kinds == {"drop", "delay"} \cup Wrong

\* The condition every schedule tests: occasions left, and this timestamp.
Due(f, k) == f.done[k] < conf[k].times /\ f.ts = f.next[k]

\* nextErrorBidAskTimestamp is first set from the interval of errorTurnover.
FirstNext(c, k) == c[IF k = "errorBidAsk" THEN "errorTurnover" ELSE k].every

PriceError(f) ==
    IF Due(f, "errorBidAsk") THEN "errorBidAsk"
    ELSE IF Due(f, "errorPrice") THEN "errorPrice"
    ELSE IF Due(f, "errorVolume") THEN "errorVolume" ELSE "none"

StatisticsError(f) == IF Due(f, "errorTurnover") THEN "errorTurnover" ELSE "none"

\* The branch that decides which file a line goes to: the same tests, after drop and delay.
Outcome(f, wrong) ==
    IF Due(f, "drop") THEN "drop" ELSE IF Due(f, "delay") THEN "delay" ELSE wrong
LoggedStatisticsError(f) == IF Due(f, "errorTurnover") THEN "errorTurnover" ELSE "none"
LoggedPriceError(f) ==
    IF Due(f, "errorBidAsk") THEN "errorBidAsk"
    ELSE IF Due(f, "errorPrice") THEN "errorPrice"
    ELSE IF Due(f, "errorVolume") THEN "errorVolume" ELSE "none"

\* writeStatisticsFeed and writePriceFeed.
Line(f, type, wrong) == [type |-> type, ts |-> f.ts, wrong |-> wrong]
Write(f, files) ==
    LET stat == Line(f, "statistics", StatisticsError(f))
        price == Line(f, "price", PriceError(f))
        so == Outcome(f, LoggedStatisticsError(f))
        po == Outcome(f, LoggedPriceError(f))
        Put(o, l) == IF o \in {"drop", "delay"} THEN <<>> ELSE <<l>>
        Note(o, l) == IF o = "none" THEN <<>> ELSE <<[tag |-> o, line |-> l]>>
    IN  [file |-> files.file \o Put(so, stat) \o Put(po, price),
         errorFile |-> files.errorFile \o Note(so, stat) \o Note(po, price)]

\* The schedule of one kind after a timestamp at which it was due.
Advance(f, k) ==
    IF Due(f, k) THEN [f EXCEPT !.next[k] = @ + conf[k].every, !.done[k] = @ + 1] ELSE f

NextResend(f, queue) == IF queue # <<>> THEN f.resend + conf["delay"].every ELSE f.resend

\* Mutation: the feed is copied before its schedule advances.
HeldFeedEarly(before, after) == before

\* The copy put into delayQueue: its own delay is done.
HeldFeed(before, after) == after

\* One iteration of the loop: a feed when the clock is more than half a second past the last.
Iterate ==
    LET f == [s EXCEPT !.ts = @ + 5]
        w == Write(f, [file |-> file, errorFile |-> errorFile])
        d == Advance(f, "drop")
        e == Advance(d, "delay")
        held == IF Due(d, "delay") THEN Append(delayQueue, HeldFeed(d, e)) ELSE delayQueue
        resends == conf["delay"].times > 0 /\ e.ts = e.resend /\ held # <<>>
        queue == IF resends THEN Tail(held) ELSE held
        g == IF resends THEN [e EXCEPT !.resend = NextResend(e, queue)] ELSE e
        late == [file |-> w.file,
                 errorFile |-> Append(w.errorFile, [tag |-> "resend", line |-> Line(Head(held), "both", "none")])]
        files == IF resends THEN Write(Head(held), late) ELSE w
        wrongs == <<"errorTurnover", "errorBidAsk", "errorPrice", "errorVolume">>
    IN  /\ now < end /\ now > s.ts + 5
        /\ s' = FoldLeft(Advance, g, wrongs)
        /\ delayQueue' = queue
        /\ file' = files.file /\ errorFile' = files.errorFile
        /\ UNCHANGED <<conf, now, end, begin>>

\* time.sleep, and the clock read again.
Sleep ==
    /\ now < end /\ now <= s.ts + 5
    /\ \E j \in Jumps : now' = now + j
    /\ UNCHANGED <<conf, end, s, delayQueue, file, errorFile, begin>>

\* The loop ends with feeds of the last half second, and delayed ones, unwritten.
Done == now >= end /\ UNCHANGED vars

\* generateInitFeeds and the start of the thread, up to a half second later.
Init ==
    /\ conf \in Confs
    /\ now \in 10..15 /\ end = now + TimeLength
    /\ begin \in {5, 10}
    /\ LET at(k) == (now \div 5) * 5 + FirstNext(conf, k)
       IN s = [ts |-> begin, next |-> [k \in Kinds |-> at(k)], done |-> [k \in Kinds |-> 0],
               resend |-> at("delay") + conf.len]
    /\ delayQueue = <<>> /\ file = <<>> /\ errorFile = <<>>

Next == Iterate \/ Sleep \/ Done
Spec == Init /\ [][Next]_vars

----------------------------------------------------------------------------
Written(type, ts) == Cardinality({i \in DOMAIN file : file[i].type = type /\ file[i].ts = ts})
Tagged(tag, ts) == \E i \in DOMAIN errorFile : errorFile[i].tag = tag /\ errorFile[i].line.ts = ts
Queued(ts) == \E i \in DOMAIN delayQueue : delayQueue[i].ts = ts
\* Every half second since the initial feed.
Generated == {t \in begin + 5 .. s.ts : t % 5 = 0}

\* The feeds of each half second are written once, unless the error file says they were left out or
\* are still to come: the error file accounts for every line that is missing, and no feed of another
\* time is written (writeStatisticsFeed, writePriceFeed).
Accounted ==
    /\ \A i \in DOMAIN file : file[i].ts \in Generated
    /\ \A t \in Generated, type \in {"statistics", "price"} :
        Written(type, t) = IF Queued(t) \/ ((Tagged("drop", t) \/ Tagged("delay", t)) /\ ~Tagged("resend", t))
                           THEN 0 ELSE 1

\* A line with wrong values is tagged in the error file with what is wrong each time it is written,
\* and neither a right line nor one that was not written is tagged as wrong.
ErrorsTagged ==
    \A l \in ToSet(file) \cup {errorFile[j].line : j \in DOMAIN errorFile}, w \in Wrong :
        Cardinality({j \in DOMAIN errorFile : errorFile[j] = [tag |-> w, line |-> l]}) =
            IF l.wrong = w THEN Cardinality({i \in DOMAIN file : file[i] = l}) ELSE 0

\* When feeds are held back at least as long as the interval between them, as in conf.json, every
\* one is written again when its time has come.
DelayedAreResent ==
    conf.len >= conf["delay"].every =>
        \A i \in DOMAIN delayQueue : s.ts < delayQueue[i].ts + conf.len
=============================================================================
