----------------------------- MODULE MCMonitor -----------------------------
(***************************************************************************)
(* The monitor with two partitions.  Statistics of one instrument come     *)
(* early, on time and late; the second universe has a price as well.       *)
(***************************************************************************)
EXTENDS Monitor, TLC

Stat(t) == [type |-> "Statistics", FEEDCODE |-> "a", EXCHANGE_TIMESTAMP |-> t,
            TURNOVER_VALUE |-> 1, TURNOVER_VOLUME |-> 1]

Price == [type |-> "Price", FEEDCODE |-> "a", EXCHANGE_TIMESTAMP |-> 0,
          BID_PRICE |-> 1, ASK_PRICE |-> 1, BID_VOLUME |-> 0, ASK_VOLUME |-> 0]

MCFeed == <<Stat(0), Stat(1), Stat(2)>>
MCPartitionOf == <<1, 2, 1>>
MCMessage == DOMAIN MCFeed

PriceFeeds == <<Stat(0), Stat(2), Price>>
PricePartitionOf == <<1, 2, 1>>
=============================================================================
