------------------------ MODULE DeficiencyProcessor ------------------------
(***************************************************************************)
(* The gap detector of the monitor: DeficiencyProcessor::exec, the         *)
(* per-instrument Context it works on and the ContextMap that holds them.  *)
(*                                                                         *)
(* exec runs on one event-loop thread but not atomically: the backup       *)
(* thread reads contexts and live counts in between.  One action stands    *)
(* for the stretch between two accesses another thread can observe; pc     *)
(* says where exec is.  INTERVAL is 500000000 ns and MAXQUEUE is 120 in    *)
(* the code.                                                               *)
(*                                                                         *)
(* A message of the topic is a value of Message; Feed[m] is the feed       *)
(* MyMessage parses out of it (rdkafka/utils.h, utils.cpp, myMessage.cpp). *)
(* Feeds keep the fields the processors compare; a double keeps only its   *)
(* order, so it is an integer here.                                        *)
(***************************************************************************)
EXTENDS Integers, FiniteSets, Sequences

CONSTANTS
    Message,    \* messages, each delivered as one MyMessage object
    Feedcode,   \* the instruments
    Feed,       \* [Message -> feeds]: the parsed payload
    NULL,       \* the null pointer
    INTERVAL,   \* distance of two consecutive feeds of an instrument
    MAXQUEUE    \* queue size above which the expected feed is given up

StatisticsFeed == [type : {"Statistics"}, FEEDCODE : Feedcode,
                   EXCHANGE_TIMESTAMP : Int,
                   TURNOVER_VALUE : Int, TURNOVER_VOLUME : Int]

PriceFeed == [type : {"Price"}, FEEDCODE : Feedcode,
              EXCHANGE_TIMESTAMP : Int,
              BID_PRICE : Int, ASK_PRICE : Int,
              BID_VOLUME : Int, ASK_VOLUME : Int]

\* A payload the constructor does not recognise: no feed is built.  _type and
\* _feed are then never assigned; NONE is one thing the memory may hold, and a
\* universe in which Feed[m] is some other feed is what a stale object leaves.
NoFeed == [type : {"NONE"}]

ASSUME FeedAssumption ==
    /\ Feed \in [Message -> StatisticsFeed \cup PriceFeed \cup NoFeed]
    /\ NULL \notin Message

\* The messages message->type() answers Statistics for.
Statistics == {m \in Message : Feed[m].type = "Statistics"}

FC(m) == Feed[m].FEEDCODE
TS(m) == Feed[m].EXCHANGE_TIMESTAMP

ASSUME IntervalAssumption == INTERVAL \in Nat \ {0}
ASSUME MaxQueueAssumption == MAXQUEUE \in Nat

VARIABLES
    pc,               \* where exec is; "idle" when it is not running
    sf,               \* the statistics exec works on; NULL when it is not running
    et,               \* exec's local copy of the expected timestamp
    context,          \* ContextMap::myMap: "none", "new" (fields not set), "ready"
    expectTimestamp,  \* Context::expectTimestamp
    preValue,         \* Context::preValue
    preVolume,        \* Context::preVolume
    queue,            \* Context::queue, ordered by EXCHANGE_TIMESTAMP
    live,             \* MyMessage::_live
    sf_to_m,          \* DeficiencyProcessor::sf_to_m: the messages it holds
    res,              \* DeficiencyProcessor::res: code and json
    received,         \* history: messages exec was called with
    base,             \* history: first timestamp of each instrument
    missed            \* history: timestamps reported as missed

exec  == <<pc, sf, et, res>>
ctxs  == <<context, expectTimestamp, preValue, preVolume, queue>>
marks == <<live, sf_to_m>>
hist  == <<received, base, missed>>
dpVars == <<exec, ctxs, marks, hist>>

\* A log line: what it says, the instrument and the time it names.
Alert == [LOG : {"turnover", "delay", "continuity", "miss", "price"},
          FEEDCODE : Feedcode, TIMESTAMP : Int]

AlertOf(log, f, t) == [LOG |-> log, FEEDCODE |-> f, TIMESTAMP |-> t]

\* One more line in res.json.
Note(r, a) == [r EXCEPT !.json = Append(@, a)]

\* The same with res.code = WARN.  (Mutation of Warn: Note.)
Warn(r, a) == [code |-> "WARN", json |-> Append(r.json, a)]

NonNegative(n) == IF n > 0 THEN n ELSE 0

\* message->live(); mutation: the call is missing.
NoLive(m) == UNCHANGED live
Live(m) == live' = [live EXCEPT ![m] = @ + 1]

\* message->kill()
Kill(m) == live' = [live EXCEPT ![m] = @ - 1]

\* sf_to_m.erase(sf)
Erase(m) == sf_to_m' = sf_to_m \ {m}

-----------------------------------------------------------------------------
(* main() constructs the processor and an empty map.                       *)

DPInit ==
    /\ pc = "idle"
    /\ sf = NULL
    /\ et = 0
    /\ res = [code |-> "OK", json |-> <<>>]
    /\ context = [f \in Feedcode |-> "none"]
    /\ expectTimestamp = [f \in Feedcode |-> 0]
    /\ preValue = [f \in Feedcode |-> 0]
    /\ preVolume = [f \in Feedcode |-> 0]
    /\ queue = [f \in Feedcode |-> {}]
    /\ live = [m \in Message |-> 0]
    /\ sf_to_m = {}
    /\ received = {}
    /\ base = [f \in Feedcode |-> 0]
    /\ missed = [f \in Feedcode |-> {}]

-----------------------------------------------------------------------------
(* The steps of exec.                                                      *)

\* The switch on message->type().
Accepts(m) == Feed[m].type = "Statistics"

\* res.json.clear(); mutation: it is done for statistics only.
ClearedIfAccepted(m) == IF Accepts(m) THEN [res EXCEPT !.json = <<>>] ELSE res
Cleared(m) == [res EXCEPT !.json = <<>>]

\* exec is called with a new MyMessage: res.json is cleared (res.code is not),
\* then the switch on message->type(): only a StatisticsFeed goes on.
Exec(m) ==
    /\ pc = "idle"
    /\ m \notin received
    /\ sf' = IF Accepts(m) THEN m ELSE NULL
    /\ received' = received \cup {m}
    /\ res' = Cleared(m)
    /\ pc' = IF Accepts(m) THEN "live" ELSE "idle"
    /\ UNCHANGED <<et, ctxs, marks, base, missed>>

InvalidTurnover(m) ==
    \/ Feed[m].TURNOVER_VALUE <= 0
    \/ Feed[m].TURNOVER_VOLUME <= 0

\* message->live(), sf_to_m[sf] = message and the turnover check.  The line
\* names sf->TIMESTAMP, which no code ever fills in: zero.
Hold ==
    /\ pc = "live"
    /\ Live(sf)
    /\ sf_to_m' = sf_to_m \cup {sf}
    /\ res' = IF InvalidTurnover(sf)
              THEN Warn(res, AlertOf("turnover", FC(sf), 0)) ELSE res
    /\ pc' = "lookup"
    /\ UNCHANGED <<sf, et, ctxs, hist>>

\* ContextMap::has
Has(f) == context[f] # "none"

\* ContextMap::create: the new Context has no queue yet and its other fields
\* are not initialised.
Create(f) ==
    /\ context' = [context EXCEPT ![f] = "new"]
    /\ queue' = [queue EXCEPT ![f] = {}]

\* Context::setExpectTimestamp
SetExpectTimestamp(f, t) == expectTimestamp' = [expectTimestamp EXCEPT ![f] = t]

\* Context::setPreValue and setPreVolume
SetPre(f, value, volume) ==
    /\ preValue' = [preValue EXCEPT ![f] = value]
    /\ preVolume' = [preVolume EXCEPT ![f] = volume]

\* The context is looked for and created if it is not there; getContext comes
\* next in both cases.
Lookup ==
    /\ pc = "lookup"
    /\ \/ ~Has(FC(sf)) /\ Create(FC(sf)) /\ pc' = "created"
       \/ Has(FC(sf)) /\ pc' = "found" /\ UNCHANGED <<context, queue>>
    /\ UNCHANGED <<sf, et, res, expectTimestamp, preValue, preVolume, marks, hist>>

\* contextMap->getContext(feedcode).
GetContext ==
    /\ \/ pc = "created" /\ pc' = "init"
       \/ pc = "found" /\ pc' = "compare"
    /\ UNCHANGED <<sf, et, res, ctxs, marks, hist>>

\* The first feed of an instrument sets its expected timestamp and turnover.
InitContext ==
    /\ pc = "init"
    /\ context' = [context EXCEPT ![FC(sf)] = "ready"]
    /\ SetExpectTimestamp(FC(sf), TS(sf))
    /\ SetPre(FC(sf), NonNegative(Feed[sf].TURNOVER_VALUE), NonNegative(Feed[sf].TURNOVER_VOLUME))
    /\ base' = [base EXCEPT ![FC(sf)] = TS(sf)]
    /\ pc' = "found"
    /\ UNCHANGED <<sf, et, res, queue, marks, received, missed>>

\* exec returns: its local variables are gone.
Return == pc' = "idle" /\ sf' = NULL /\ et' = 0

\* et == sf->EXCHANGE_TIMESTAMP; mutation: <=.
ExpectedOrEarly == expectTimestamp[FC(sf)] <= TS(sf)
Expected == expectTimestamp[FC(sf)] = TS(sf)

\* et > sf->EXCHANGE_TIMESTAMP
Late == expectTimestamp[FC(sf)] > TS(sf)

\* The feed is the expected one.  The queue is not looked at.
OnTime ==
    /\ pc = "compare"
    /\ Expected
    /\ SetExpectTimestamp(FC(sf), expectTimestamp[FC(sf)] + INTERVAL)
    /\ Kill(sf) /\ Erase(sf)
    /\ Return
    /\ UNCHANGED <<res, context, preValue, preVolume, queue, hist>>

\* The feed is late: it is reported, and stays held.
Delay ==
    /\ pc = "compare"
    /\ Late
    /\ res' = Warn(res, AlertOf("delay", FC(sf), TS(sf)))
    /\ Return
    /\ UNCHANGED <<ctxs, marks, hist>>

\* The feed is early and waits in the queue.
Enqueue ==
    /\ pc = "compare"
    /\ ~Expected /\ ~Late
    /\ et' = expectTimestamp[FC(sf)]
    /\ queue' = [queue EXCEPT ![FC(sf)] = @ \cup {sf}]
    /\ pc' = "drain"
    /\ UNCHANGED <<sf, res, context, expectTimestamp, preValue, preVolume, marks, hist>>

\* What sf_pq->top() may be: a heap leaves the order of equal timestamps open.
Tops(q) == {m \in q : \A n \in q : TS(m) <= TS(n)}

Decreased(m) ==
    \/ Feed[m].TURNOVER_VALUE < preValue[FC(m)]
    \/ Feed[m].TURNOVER_VOLUME < preVolume[FC(m)]

\* sf_pq->top() is the expected feed.  The continuity check compares and
\* stores the turnover of sf, and its line leaves res.code alone.
DrainDue(top) ==
    /\ pc = "drain"
    /\ TS(top) = et
    /\ IF Decreased(sf)
       THEN /\ res' = Note(res, AlertOf("continuity", FC(sf), 0))
            /\ UNCHANGED <<preValue, preVolume>>
       ELSE /\ SetPre(FC(sf), Feed[sf].TURNOVER_VALUE, Feed[sf].TURNOVER_VOLUME)
            /\ UNCHANGED res
    /\ Kill(top) /\ Erase(top)
    /\ queue' = [queue EXCEPT ![FC(sf)] = @ \ {top}]
    /\ et' = et + INTERVAL
    /\ UNCHANGED <<pc, sf, context, expectTimestamp, hist>>

\* t < et; mutation: # (the last two branches become one).
NotDue(top) == TS(top) # et
Old(top) == TS(top) < et

\* sf_pq->top() is older than the expected feed: it is dropped.
DrainOld(top) ==
    /\ pc = "drain"
    /\ Old(top)
    /\ Kill(top) /\ Erase(top)
    /\ queue' = [queue EXCEPT ![FC(sf)] = @ \ {top}]
    /\ UNCHANGED <<pc, sf, et, res, context, expectTimestamp, preValue, preVolume, hist>>

\* The loop has come to its end, top() is not due; mutation: it is left early.
AnyTime == TRUE
NothingDue == \A m \in queue[FC(sf)] : TS(m) > et

\* sf_pq->size() > 120; mutation: off by one.
NearlyOverfull == Cardinality(queue[FC(sf)]) > MAXQUEUE + 1
Overfull == Cardinality(queue[FC(sf)]) > MAXQUEUE

\* Nothing is due: setExpectTimestamp(et), and if more than MAXQUEUE feeds
\* wait for the expected one it is reported as missed and skipped.
DrainEnd ==
    /\ pc = "drain"
    /\ NothingDue
    /\ IF Overfull
       THEN /\ res' = Warn(res, AlertOf("miss", FC(sf), et))
            /\ SetExpectTimestamp(FC(sf), et + INTERVAL)
            /\ missed' = [missed EXCEPT ![FC(sf)] = @ \cup {et}]
       ELSE /\ SetExpectTimestamp(FC(sf), et)
            /\ UNCHANGED <<res, missed>>
    /\ Return
    /\ UNCHANGED <<context, preValue, preVolume, queue, marks, received, base>>

\* The steps of exec after its entry.
ExecStep ==
    \/ Hold
    \/ Lookup
    \/ GetContext
    \/ InitContext
    \/ OnTime
    \/ Delay
    \/ Enqueue
    \/ /\ pc = "drain"
       /\ \E top \in Tops(queue[FC(sf)]) : DrainDue(top) \/ DrainOld(top)
    \/ DrainEnd

\* The process dies and is started again: nothing is read back.
Restart ==
    /\ pc' = "idle"
    /\ sf' = NULL
    /\ et' = 0
    /\ res' = [code |-> "OK", json |-> <<>>]
    /\ context' = [f \in Feedcode |-> "none"]
    /\ expectTimestamp' = [f \in Feedcode |-> 0]
    /\ preValue' = [f \in Feedcode |-> 0]
    /\ preVolume' = [f \in Feedcode |-> 0]
    /\ queue' = [f \in Feedcode |-> {}]
    /\ live' = [m \in Message |-> 0]
    /\ sf_to_m' = {}
    /\ received' = {}
    /\ base' = [f \in Feedcode |-> 0]
    /\ missed' = [f \in Feedcode |-> {}]

DPNext ==
    \/ \E m \in Message : Exec(m)
    \/ ExecStep
    \/ Restart

DPSpec == DPInit /\ [][DPNext]_dpVars

-----------------------------------------------------------------------------
(* Properties.                                                             *)

Here == {"idle", "live", "lookup", "created", "init", "found", "compare", "drain"}

\* exec holds sf but has not yet decided where it goes.
Undecided == {"lookup", "created", "init", "found", "compare"}

\* Every variable has the type of the field or local variable it models.
TypeOK ==
    /\ pc \in Here
    /\ IF pc = "idle" THEN sf = NULL ELSE sf \in Statistics
    /\ et \in Int
    /\ res \in [code : {"OK", "WARN"}, json : Seq(Alert)]
    /\ context \in [Feedcode -> {"none", "new", "ready"}]
    /\ expectTimestamp \in [Feedcode -> Int]
    /\ preValue \in [Feedcode -> Int]
    /\ preVolume \in [Feedcode -> Int]
    /\ queue \in [Feedcode -> SUBSET Statistics]
    /\ live \in [Message -> Int]
    /\ sf_to_m \subseteq Statistics
    /\ received \subseteq Message
    /\ base \in [Feedcode -> Int]
    /\ missed \in [Feedcode -> SUBSET Int]

\* The timestamp exec waits for: the local et while the queue is drained,
\* the context's expectTimestamp otherwise.
Awaited(f) ==
    IF pc = "drain" /\ FC(sf) = f THEN et ELSE expectTimestamp[f]

Arrived(f) == {TS(m) : m \in {n \in received \cap Statistics : FC(n) = f}}

\* exec's bookkeeping implements the ledger of settled timestamps.
Ledger == INSTANCE SlotLedger WITH
    Timestamp <- {TS(m) : m \in Statistics},
    arrived <- [f \in Feedcode |-> Arrived(f)],
    first   <- base,
    open    <- {f \in Feedcode : context[f] = "ready"},
    next    <- [f \in Feedcode |-> Awaited(f)],
    missing <- missed

\* exec implements the ledger: timestamps are settled in order, each once, as
\* arrived or as missed, and a "miss" line is never written for a timestamp
\* whose feed exec has already been given.
ImplementsLedger == Ledger!SLSpec

\* Every timestamp of the grid that exec has moved past has been received or
\* reported: advancing expectTimestamp never hides a gap.
NoSilentGap == Ledger!NoSilentGap

\* MyMessage::kill's assert(_live > 0): exec marks a message live exactly
\* once and never kills one it does not hold; a held message has _live = 1
\* and any other 0.
LiveIffHeld ==
    \A m \in Message : live[m] = IF m \in sf_to_m THEN 1 ELSE 0

\* What exec knows of the messages it holds: they were received, those in a
\* queue belong to its instrument, and sf is held from live() on until it is
\* queued or released.  A context exists, and its fields are set, exactly when
\* exec relies on it, and only an instrument with such a context has feeds.
Bookkeeping ==
    /\ sf_to_m \subseteq received
    /\ pc # "idle" => sf \in received
    /\ pc = "live" => sf \notin sf_to_m
    /\ pc \in Undecided => sf \in sf_to_m /\ sf \notin queue[FC(sf)]
    /\ pc \in {"created", "init"} => context[FC(sf)] = "new"
    /\ pc \in {"found", "compare", "drain"} => context[FC(sf)] = "ready"
    /\ \A f \in Feedcode :
          /\ \A m \in queue[f] : FC(m) = f /\ m \in sf_to_m
          /\ context[f] = "new" => pc \in {"created", "init"} /\ FC(sf) = f
          /\ context[f] # "ready" =>
                /\ queue[f] = {}
                /\ missed[f] = {}
                /\ \A m \in received \cap Statistics : FC(m) = f => pc # "idle" /\ m = sf

\* m was reported as late and is held for good.
HeldLate(m) == m \in sf_to_m /\ m \notin queue[FC(m)] /\ ~(m = sf /\ pc \in Undecided)

\* Every message the processor holds can still be reached by it: it waits in
\* its instrument's queue, is being worked on, or was reported late.  A held
\* message that waits in no queue is behind the awaited timestamp.
HeldIsQueuedOrLate ==
    \A m \in sf_to_m :
        \/ m \in queue[FC(m)]
        \/ m = sf /\ pc \in Undecided
        \/ context[FC(m)] = "ready" /\ TS(m) < Awaited(FC(m))

\* A received feed that is not yet due is waiting in the queue, so it cannot
\* be forgotten before its turn.
NotDueIsQueued ==
    \A m \in received \cap Statistics :
        (context[FC(m)] = "ready" /\ TS(m) >= Awaited(FC(m))) =>
            \/ m \in queue[FC(m)]
            \/ m = sf /\ pc \in Undecided \cup {"live"}

\* The inductive invariant of exec: its variables keep their types, the live
\* counts match what it holds, its bookkeeping is consistent, and no feed is
\* forgotten before its turn or held where nothing reaches it.
DetectorInv == TypeOK /\ LiveIffHeld /\ Bookkeeping /\ NotDueIsQueued /\ HeldIsQueuedOrLate

\* The queue of an instrument outgrows MAXQUEUE only by feeds whose arrival
\* was answered by a "miss": exec skips one timestamp per call, so the excess
\* never exceeds the number of timestamps given up.
QueueBound ==
    \A f \in Feedcode :
        Cardinality(queue[f]) <=
            MAXQUEUE + Cardinality(missed[f]) + (IF pc = "drain" /\ FC(sf) = f THEN 1 ELSE 0)

\* The inductive form of it: what was given up is behind the awaited
\* timestamp, so that no timestamp is given up twice.
MissedIsPast == \A f \in Feedcode : \A t \in missed[f] : t < Awaited(f)

Finite == \A f \in Feedcode : IsFiniteSet(queue[f]) /\ IsFiniteSet(missed[f])

QInv == MissedIsPast /\ Finite /\ QueueBound

\* Every line exec writes is produced: EventLoop::run produces res.json only
\* if res.code is not OK (DeficiencyProcessor.cpp:79: "detect continuity").
ContinuityReported == pc = "idle" /\ res.json # <<>> => res.code # "OK"
=============================================================================
