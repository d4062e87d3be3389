----------------------- MODULE MCDeficiencyProcessor -----------------------
(***************************************************************************)
(* Small universes of messages; exec is given any of them in any order, so *)
(* every loss, delay, duplicate and reordering of them is explored.        *)
(***************************************************************************)
EXTENDS DeficiencyProcessor, TLC

Stat(f, t, v) == [type |-> "Statistics", FEEDCODE |-> f, EXCHANGE_TIMESTAMP |-> t,
                  TURNOVER_VALUE |-> v, TURNOVER_VOLUME |-> 1]

\* Instrument a on a grid of 2: a timestamp off the grid, a duplicate with a
\* smaller turnover, an invalid turnover.  Instrument b, and a price.
MCFeed ==
    <<Stat("a", 0, 1), Stat("a", 1, 1), Stat("a", 2, 2), Stat("a", 4, 3),
      Stat("a", 4, 1), Stat("a", 6, 0), Stat("b", 0, 1), Stat("b", 4, 1),
      [type |-> "Price", FEEDCODE |-> "a", EXCHANGE_TIMESTAMP |-> 0,
       BID_PRICE |-> 1, ASK_PRICE |-> 2, BID_VOLUME |-> 0, ASK_VOLUME |-> 0]>>
MCMessage == DOMAIN MCFeed

\* One instrument whose turnover drops at the end.
DroppingFeed == [m \in 1..4 |-> Stat("a", m, IF m = 4 THEN 1 ELSE 2)]
DroppingMessage == DOMAIN DroppingFeed
=============================================================================
