----------------------------- MODULE SlotLedger -----------------------------
(***************************************************************************)
(* What the gap detector promises, whatever the order feeds arrive in: for *)
(* each instrument the timestamps first, first + INTERVAL, ... are settled *)
(* one after the other, each exactly once, either because its feed has     *)
(* arrived or because it is reported missing, and a timestamp is reported  *)
(* only while no feed with it has arrived.                                 *)
(***************************************************************************)
EXTENDS Integers, TLAPS

CONSTANTS
    Feedcode,   \* the instruments
    Timestamp,  \* the timestamps feeds may carry
    INTERVAL    \* distance of two timestamps of the grid

VARIABLES
    arrived,    \* timestamps of the feeds that have arrived
    first,      \* the timestamp the instrument's ledger starts at
    open,       \* instruments whose ledger has started
    next,       \* the timestamp to settle next
    missing     \* timestamps reported missing

slVars == <<arrived, first, open, next, missing>>

SLInit ==
    /\ arrived = [f \in Feedcode |-> {}]
    /\ first = [f \in Feedcode |-> 0]
    /\ open = {}
    /\ next = [f \in Feedcode |-> 0]
    /\ missing = [f \in Feedcode |-> {}]

Arrive(f, t) ==
    /\ arrived' = [arrived EXCEPT ![f] = @ \cup {t}]
    /\ UNCHANGED <<first, open, next, missing>>

Start(f, t) ==
    /\ f \notin open
    /\ t \in arrived[f]
    /\ open' = open \cup {f}
    /\ first' = [first EXCEPT ![f] = t]
    /\ next' = [next EXCEPT ![f] = t]
    /\ UNCHANGED <<arrived, missing>>

Settle(f) ==
    /\ f \in open
    /\ next[f] \in arrived[f]
    /\ next' = [next EXCEPT ![f] = @ + INTERVAL]
    /\ UNCHANGED <<arrived, first, open, missing>>

Report(f) ==
    /\ f \in open
    /\ next[f] \notin arrived[f]
    /\ missing' = [missing EXCEPT ![f] = @ \cup {next[f]}]
    /\ next' = [next EXCEPT ![f] = @ + INTERVAL]
    /\ UNCHANGED <<arrived, first, open>>

\* A new process starts with an empty ledger.
Reset ==
    /\ arrived' = [f \in Feedcode |-> {}]
    /\ first' = [f \in Feedcode |-> 0]
    /\ open' = {}
    /\ next' = [f \in Feedcode |-> 0]
    /\ missing' = [f \in Feedcode |-> {}]

SLNext ==
    \/ \E f \in Feedcode :
          \/ \E t \in Timestamp : Arrive(f, t)
          \/ \E t \in arrived[f] : Start(f, t)
          \/ Settle(f)
          \/ Report(f)
    \/ Reset

SLSpec == SLInit /\ [][SLNext]_slVars

-----------------------------------------------------------------------------

SLTypeOK ==
    /\ arrived \in [Feedcode -> SUBSET Int]
    /\ first \in [Feedcode -> Int]
    /\ open \subseteq Feedcode
    /\ next \in [Feedcode -> Int]
    /\ missing \in [Feedcode -> SUBSET Int]

\* Every timestamp of an instrument's grid before the next one to settle has
\* either arrived or been reported missing: no gap goes unnoticed.
NoSilentGap ==
    \A f \in open : \A k \in 0 .. (next[f] - first[f]) :
        first[f] + k * INTERVAL < next[f] =>
            first[f] + k * INTERVAL \in arrived[f] \cup missing[f]

\* A timestamp reported missing lies behind the next one to settle.
MissingIsPast ==
    \A f \in Feedcode : \A t \in missing[f] : f \in open /\ first[f] <= t /\ t < next[f]

-----------------------------------------------------------------------------
(* The ledger leaves no gap unnoticed.  NoSilentGap is not inductive by    *)
(* itself: that next[f] stays on the grid of first[f] has to be carried    *)
(* along.                                                                  *)

\* The k-th timestamp of instrument f's grid.
Slot(f, k) == first[f] + k * INTERVAL

SLInv ==
    /\ open \subseteq Feedcode
    /\ first \in [Feedcode -> Int]
    /\ next \in [Feedcode -> Int]
    /\ arrived \in [Feedcode -> SUBSET Int]
    /\ missing \in [Feedcode -> SUBSET Int]
    /\ \A f \in open : \E n \in Nat :
          /\ next[f] = Slot(f, n)
          /\ \A k \in Nat : k < n => Slot(f, k) \in arrived[f] \cup missing[f]

\* Grid points are ordered as their numbers.
LEMMA GridOrder ==
    ASSUME NEW I \in Nat \ {0}, NEW k \in Nat, NEW n \in Nat, k * I < n * I
    PROVE  k < n
<1> SUFFICES ASSUME k >= n PROVE FALSE
  OBVIOUS
<1> DEFINE d == k - n
<1>1. d \in Nat /\ k = n + d
  OBVIOUS
<1> HIDE DEF d
<1>2. (n + d) * I = n * I + d * I
  BY <1>1
<1>3. d * I >= 0
  BY <1>1
<1>4. n * I \in Int /\ d * I \in Int
  BY <1>1
<1> QED
  BY <1>1, <1>2, <1>3, <1>4

\* The strengthened invariant implies that no gap is silent.
LEMMA InvNoSilentGap ==
    ASSUME INTERVAL \in Nat \ {0}, SLInv
    PROVE  NoSilentGap
<1> SUFFICES ASSUME NEW f \in open, NEW k \in 0 .. (next[f] - first[f]),
                    first[f] + k * INTERVAL < next[f]
             PROVE  first[f] + k * INTERVAL \in arrived[f] \cup missing[f]
  BY DEF NoSilentGap
<1>1. PICK n \in Nat :
         /\ next[f] = Slot(f, n)
         /\ \A j \in Nat : j < n => Slot(f, j) \in arrived[f] \cup missing[f]
  BY DEF SLInv
<1>2. f \in Feedcode /\ first[f] \in Int /\ next[f] \in Int /\ k \in Nat
  BY DEF SLInv
<1>3. k * INTERVAL \in Int /\ n * INTERVAL \in Int
  BY <1>2
<1>4. k * INTERVAL < n * INTERVAL
  BY <1>1, <1>2, <1>3 DEF Slot
<1>5. k < n
  BY <1>2, <1>4, GridOrder
<1> QED
  BY <1>1, <1>2, <1>5 DEF Slot

\* Advancing next by one interval keeps the invariant when the timestamp it
\* leaves behind is accounted for.
LEMMA Advance ==
    ASSUME INTERVAL \in Nat \ {0}, SLInv, NEW f \in open,
           next' = [next EXCEPT ![f] = @ + INTERVAL],
           UNCHANGED <<first, open>>,
           arrived' \in [Feedcode -> SUBSET Int], missing' \in [Feedcode -> SUBSET Int],
           \A g \in Feedcode : arrived[g] \subseteq arrived'[g] /\ missing[g] \subseteq missing'[g],
           next[f] \in arrived'[f] \cup missing'[f]
    PROVE  SLInv'
<1>1. /\ open' \subseteq Feedcode /\ first' \in [Feedcode -> Int] /\ next' \in [Feedcode -> Int]
      /\ f \in Feedcode
  BY DEF SLInv
<1>2. ASSUME NEW g \in open'
      PROVE  \E n \in Nat :
                /\ next'[g] = Slot(g, n)'
                /\ \A k \in Nat : k < n => Slot(g, k)' \in arrived'[g] \cup missing'[g]
  <2>0. g \in open /\ g \in Feedcode
    BY <1>2, <1>1
  <2>1. PICK n \in Nat :
           /\ next[g] = Slot(g, n)
           /\ \A k \in Nat : k < n => Slot(g, k) \in arrived[g] \cup missing[g]
    BY <2>0 DEF SLInv
  <2>2. \A k \in Nat : Slot(g, k)' = Slot(g, k)
    BY DEF Slot
  <2>3. CASE g # f
    <3>1. next'[g] = next[g]
      BY <2>0, <2>3 DEF SLInv
    <3> QED
      BY <2>0, <2>1, <2>2, <3>1
  <2>4. CASE g = f
    <3>1. (n + 1) * INTERVAL = n * INTERVAL + INTERVAL
      OBVIOUS
    <3>2. n * INTERVAL \in Int /\ first[f] \in Int /\ next'[f] = next[f] + INTERVAL
      BY <1>1 DEF SLInv
    <3>3. next'[g] = Slot(g, n + 1)
      BY <2>1, <2>4, <3>1, <3>2 DEF Slot
    <3>4. \A k \in Nat : k < n + 1 => k < n \/ k = n
      OBVIOUS
    <3>5. ASSUME NEW k \in Nat, k < n + 1
          PROVE  Slot(g, k) \in arrived'[g] \cup missing'[g]
      BY <3>4, <3>5, <2>0, <2>1, <2>4
    <3>6. n + 1 \in Nat
      OBVIOUS
    <3> QED
      BY <2>2, <3>3, <3>5, <3>6
  <2> QED
    BY <2>3, <2>4
<1> QED
  BY <1>1, <1>2 DEF SLInv

\* Every step of the ledger preserves the strengthened invariant.
LEMMA SLInvNext ==
    ASSUME INTERVAL \in Nat \ {0}, Timestamp \subseteq Int, SLInv, [SLNext]_slVars
    PROVE  SLInv'
<1>1. ASSUME NEW f \in Feedcode, NEW t \in Timestamp, Arrive(f, t)
      PROVE  SLInv'
  <2>1. /\ arrived' \in [Feedcode -> SUBSET Int]
        /\ \A g \in Feedcode : arrived[g] \subseteq arrived'[g]
    BY <1>1 DEF SLInv, Arrive
  <2> QED
    BY <1>1, <2>1 DEF SLInv, Arrive, Slot
<1>2. ASSUME NEW f \in Feedcode, NEW t \in arrived[f], Start(f, t)
      PROVE  SLInv'
  <2>1. Slot(f, 0)' = t /\ next'[f] = t /\ 0 \in Nat /\ \A k \in Nat : ~(k < 0)
    BY <1>2 DEF SLInv, Start, Slot
  <2>2. ASSUME NEW g \in open, g # f
        PROVE  next'[g] = next[g] /\ \A k \in Nat : Slot(g, k)' = Slot(g, k)
    BY <1>2, <2>2 DEF SLInv, Start, Slot
  <2>3. /\ open' \subseteq Feedcode /\ first' \in [Feedcode -> Int] /\ next' \in [Feedcode -> Int]
        /\ open' = open \cup {f} /\ f \notin open /\ UNCHANGED <<arrived, missing>>
    BY <1>2 DEF SLInv, Start
  <2> QED
    BY <2>1, <2>2, <2>3 DEF SLInv
<1>3. ASSUME NEW f \in Feedcode, Settle(f)
      PROVE  SLInv'
  BY <1>3, Advance DEF Settle, SLInv
<1>4. ASSUME NEW f \in Feedcode, Report(f)
      PROVE  SLInv'
  <2>1. /\ missing' \in [Feedcode -> SUBSET Int]
        /\ \A g \in Feedcode : missing[g] \subseteq missing'[g]
        /\ next[f] \in missing'[f]
    BY <1>4 DEF Report, SLInv
  <2> QED
    BY <1>4, <2>1, Advance DEF Report, SLInv
<1>5. CASE Reset
  BY <1>5 DEF Reset, SLInv
<1>6. CASE UNCHANGED slVars
  BY <1>6 DEF slVars, SLInv, Slot
<1> QED
  BY <1>1, <1>2, <1>3, <1>4, <1>5, <1>6 DEF SLNext

\* Whatever arrives, and in whatever order, each timestamp of the grid that
\* the ledger has left behind has arrived or been reported.
THEOREM LedgerNoSilentGap ==
    ASSUME INTERVAL \in Nat \ {0}, Timestamp \subseteq Int
    PROVE  SLSpec => []NoSilentGap
<1>1. SLInit => SLInv
  BY DEF SLInit, SLInv
<1>2. SLInv /\ [SLNext]_slVars => SLInv'
  BY SLInvNext
<1>3. SLInv => NoSilentGap
  BY InvNoSilentGap
<1> QED
  BY <1>1, <1>2, <1>3, PTL DEF SLSpec
=============================================================================
