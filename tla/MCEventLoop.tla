---------------------------- MODULE MCEventLoop ----------------------------
(***************************************************************************)
(* The event loop alone: one instrument, four partitions, late, duplicate  *)
(* and early statistics, a good and a bad price.                           *)
(***************************************************************************)
EXTENDS EventLoop, TLC

Stat(f, t, v) == [type |-> "Statistics", FEEDCODE |-> f, EXCHANGE_TIMESTAMP |-> t,
                  TURNOVER_VALUE |-> v, TURNOVER_VOLUME |-> 1]

Price(bid, ask) == [type |-> "Price", FEEDCODE |-> "a", EXCHANGE_TIMESTAMP |-> 0,
                    BID_PRICE |-> bid, ASK_PRICE |-> ask, BID_VOLUME |-> 0, ASK_VOLUME |-> 0]

MCFeed == <<Stat("a", 0, 1), Stat("a", 1, 0), Stat("a", 1, 1), Stat("a", 2, 1),
            Stat("a", 3, 2), Price(1, 2), Price(2, 2), [type |-> "NONE"]>>

MCMessage == DOMAIN MCFeed

MCPartitionOf == [m \in MCMessage |-> 1 + (m % 4)]
=============================================================================
