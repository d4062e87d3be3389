------------------------ MODULE MessageQuota_proofs -------------------------
(***************************************************************************)
(* The account of a producer's messages for any number of threads that     *)
(* produce and poll, any calls, limits and sizes: the count is exact, and  *)
(* a flush that succeeds leaves no message it waited for without a report. *)
(***************************************************************************)
EXTENDS MessageQuota, FiniteSetTheorems, TLAPS

Elems(q) == {q[i] : i \in DOMAIN q}
Distinct(q) == \A i, j \in DOMAIN q : q[i] = q[j] => i = j

Types ==
    /\ curr \in [cnt : Int, size : Int]
    /\ th \in [Threads -> [pc : {"idle", "add", "wait", "woken", "rdlock", "place"},
                           n : Nat, i : Nat, full : BOOLEAN]]
    /\ st \in [Msgs -> {"app", "held", "ua", "queued", "dr", "gone"}] /\ failed \in SUBSET Msgs
    /\ rep \in Seq(Seq(Msgs)) /\ op \in [Pollers -> Seq(Msgs)] /\ called \in Seq(Msgs)
    /\ flush \in [Pollers -> [n : Nat, in : BOOLEAN, owed : SUBSET Msgs, ok : BOOLEAN]]

\* A thread in a call is at one of the call's messages.
InCall(t) ==
    IF th[t].pc = "idle" THEN th[t].i = 0
    ELSE th[t].n + 1 \in DOMAIN Calls[t] /\ th[t].i + 1 \in DOMAIN Call(t).msgs

\* Whether message j of call a is one that thread t has not handed over yet.
Todo(t, a, j) ==
    \/ a > th[t].n + 1
    \/ a = th[t].n + 1 /\ (j > th[t].i + 1 \/ (j = th[t].i + 1 /\ th[t].pc # "place"))

Fresh(t) ==
    \A a \in DOMAIN Calls[t] : \A j \in DOMAIN Calls[t][a].msgs :
        Todo(t, a, j) => st[Calls[t][a].msgs[j]] = "app" /\ Calls[t][a].msgs[j] \notin failed

\* The message a thread is about to place is the library's and nobody else's.
Holding(t) == th[t].pc = "place" => st[Msg(t)] = "held" /\ Msg(t) \notin failed

ThreadInv == \A t \in Threads : InCall(t) /\ Fresh(t) /\ Holding(t)

\* What an operation of rk_rep or a poller holds waits for its report, once.
Waits(q, state) == Distinct(q) /\ \A m \in Elems(q) : m \in Msgs /\ state[m] = "dr"
Apart(q, r) == Elems(q) \cap Elems(r) = {}
Separate(ops, held, state) ==
    /\ \A i \in DOMAIN ops : Waits(ops[i], state)
    /\ \A p \in Pollers : Waits(held[p], state)
    /\ \A i, j \in DOMAIN ops : i # j => Apart(ops[i], ops[j])
    /\ \A p, r \in Pollers : p # r => Apart(held[p], held[r])
    /\ \A i \in DOMAIN ops, p \in Pollers : Apart(ops[i], held[p])

ReportsApart == Separate(rep, op, st)

\* What the main thread still purges is unassigned, and there is none when
\* every message is to have a report.
Purging ==
    writer # None =>
        /\ writer \in Seq(Msgs) /\ writer # <<>> /\ Distinct(writer)
        /\ \A m \in Elems(writer) : m \in Msgs /\ st[m] = "ua"
        /\ ~(Reports /\ ~ErrOnly)

AllCalled ==
    Reports /\ ~ErrOnly => \A m \in Msgs : st[m] = "gone" /\ m \notin failed => m \in Elems(called)

\* What a flush waits for was accepted, and when it succeeded it is done.
Owes ==
    \A p \in Pollers : \A m \in flush[p].owed :
        /\ st[m] \in {"ua", "queued", "dr", "gone"} /\ m \notin failed
        /\ flush[p].ok => st[m] = "gone"

QuotaInv == Types /\ ThreadInv /\ ReportsApart /\ Purging /\ AllCalled /\ Owes /\ CountExact

-----------------------------------------------------------------------------
(* Sequences and counts.                                                   *)

LEMMA TailFacts ==
    ASSUME NEW S, NEW q \in Seq(S), q # <<>>
    PROVE  /\ Head(q) \in S /\ Head(q) \in Elems(q) /\ Tail(q) \in Seq(S)
           /\ Elems(Tail(q)) \subseteq Elems(q)
           /\ Distinct(q) => Distinct(Tail(q)) /\ Head(q) \notin Elems(Tail(q))
<1>1. /\ Len(q) \in Nat \ {0} /\ DOMAIN q = 1 .. Len(q) /\ Head(q) = q[1]
      /\ Tail(q) \in Seq(S) /\ Len(Tail(q)) = Len(q) - 1
      /\ DOMAIN Tail(q) = 1 .. Len(q) - 1
  OBVIOUS
<1>2. \A i \in 1 .. Len(q) - 1 : Tail(q)[i] = q[i + 1] /\ i + 1 \in 1 .. Len(q)
  BY <1>1
<1>3. 1 \in DOMAIN q /\ q[1] \in S
  BY <1>1
<1>4. Elems(Tail(q)) \subseteq Elems(q)
  BY <1>1, <1>2 DEF Elems
<1>5. ASSUME Distinct(q) PROVE Distinct(Tail(q)) /\ Head(q) \notin Elems(Tail(q))
  <2>1. \A i, j \in 1 .. Len(q) : q[i] = q[j] => i = j
    BY <1>1, <1>5, Zenon DEF Distinct
  <2>2. ASSUME NEW i \in 1 .. Len(q) - 1, NEW j \in 1 .. Len(q) - 1, Tail(q)[i] = Tail(q)[j]
        PROVE  i = j
    <3>1. q[i + 1] = q[j + 1] /\ i + 1 \in 1 .. Len(q) /\ j + 1 \in 1 .. Len(q)
      BY <1>2, <2>2, Zenon
    <3>2. i + 1 = j + 1
      BY <2>1, <3>1, Zenon
    <3> QED
      BY <1>1, <3>2
  <2>3. ASSUME NEW i \in 1 .. Len(q) - 1, Tail(q)[i] = Head(q) PROVE FALSE
    <3>1. q[i + 1] = q[1] /\ i + 1 \in 1 .. Len(q) /\ 1 \in 1 .. Len(q)
      BY <1>1, <1>2, <2>3
    <3>2. i + 1 = 1
      BY <2>1, <3>1, Zenon
    <3> QED
      BY <1>1, <3>2
  <2> QED
    BY <1>1, <2>2, <2>3, Zenon DEF Distinct, Elems
<1> QED
  BY <1>1, <1>3, <1>4, <1>5, Zenon DEF Elems

LEMMA AppendFacts ==
    ASSUME NEW S, NEW q \in Seq(S), NEW x \in S
    PROVE  /\ Append(q, x) \in Seq(S) /\ x \in Elems(Append(q, x))
           /\ Elems(q) \subseteq Elems(Append(q, x))
           /\ \A i \in DOMAIN Append(q, x) :
                 (i \in DOMAIN q /\ Append(q, x)[i] = q[i]) \/ (i = Len(q) + 1 /\ Append(q, x)[i] = x)
<1>1. /\ Len(q) \in Nat /\ DOMAIN q = 1 .. Len(q) /\ Append(q, x) \in Seq(S)
      /\ DOMAIN Append(q, x) = 1 .. Len(q) + 1 /\ Append(q, x)[Len(q) + 1] = x
      /\ \A i \in 1 .. Len(q) : Append(q, x)[i] = q[i]
  OBVIOUS
<1>2. Len(q) + 1 \in 1 .. Len(q) + 1 /\ (\A i \in 1 .. Len(q) : i \in 1 .. Len(q) + 1)
      /\ \A i \in 1 .. Len(q) + 1 : i \in 1 .. Len(q) \/ i = Len(q) + 1
  BY <1>1
<1>3. x \in Elems(Append(q, x))
  BY <1>1, <1>2 DEF Elems
<1>4. Elems(q) \subseteq Elems(Append(q, x))
  BY <1>1, <1>2 DEF Elems
<1>5. ASSUME NEW i \in 1 .. Len(q) + 1
      PROVE  (i \in DOMAIN q /\ Append(q, x)[i] = q[i]) \/ (i = Len(q) + 1 /\ Append(q, x)[i] = x)
  <2>1. CASE i \in 1 .. Len(q)
    <3>1. Append(q, x)[i] = q[i]
      BY <2>1
    <3>2. i \in DOMAIN q
      BY <1>1, <2>1, Zenon
    <3> QED
      BY <3>1, <3>2, Zenon
  <2>2. CASE i = Len(q) + 1
    BY <1>1, <2>2, Zenon
  <2> QED
    BY <1>2, <2>1, <2>2, Zenon
<1> QED
  BY <1>1, <1>3, <1>4, <1>5, Zenon

\* An operation put back at the head.
LEMMA ConsFacts ==
    ASSUME NEW S, NEW q \in Seq(S), NEW x \in S
    PROVE  /\ <<x>> \o q \in Seq(S)
           /\ \A i \in DOMAIN (<<x>> \o q) :
                 \/ i = 1 /\ (<<x>> \o q)[i] = x
                 \/ i - 1 \in DOMAIN q /\ (<<x>> \o q)[i] = q[i - 1] /\ i \in Int
<1>1. /\ Len(q) \in Nat /\ DOMAIN q = 1 .. Len(q) /\ <<x>> \o q \in Seq(S)
      /\ DOMAIN (<<x>> \o q) = 1 .. Len(q) + 1 /\ (<<x>> \o q)[1] = x
  OBVIOUS
<1>2. ASSUME NEW i \in 2 .. Len(q) + 1 PROVE (<<x>> \o q)[i] = q[i - 1] /\ i - 1 \in 1 .. Len(q)
  BY <1>1
<1>3. \A i \in 1 .. Len(q) + 1 : i \in Int /\ (i = 1 \/ i \in 2 .. Len(q) + 1)
  BY <1>1
<1> QED
  BY <1>1, <1>2, <1>3, Zenon

LEMMA OrderedFacts ==
    ASSUME CallsAssumption, NEW S \in SUBSET Msgs, NEW q \in Ordered(S)
    PROVE  q \in Seq(Msgs) /\ Distinct(q) /\ Elems(q) \subseteq S
<1>1. Msgs = 1 .. Len(Size) /\ Len(Size) \in Nat
  BY DEF CallsAssumption, Msgs
<1>2. IsFiniteSet(S)
  <2>1. IsFiniteSet(1 .. Len(Size))
    BY <1>1, FS_Interval
  <2> QED
    BY <1>1, <2>1, FS_Subset, Zenon
<1>3. Cardinality(S) \in Nat
  BY <1>2, FS_CardinalityType
<1>4. q \in [1 .. Cardinality(S) -> S] /\ \A i, j \in DOMAIN q : i < j => q[i] < q[j]
  BY Zenon DEF Ordered
<1>5. q \in Seq(Msgs)
  BY <1>3, <1>4
<1>6. Elems(q) \subseteq S
  BY <1>4 DEF Elems
<1>7. Distinct(q)
  <2> SUFFICES ASSUME NEW i \in 1 .. Cardinality(S), NEW j \in 1 .. Cardinality(S), q[i] = q[j]
               PROVE  i = j
    BY <1>4, Zenon DEF Distinct
  <2>1. q[i] \in Int
    <3>1. q[i] \in Msgs
      BY <1>4, Zenon
    <3> QED
      BY <1>1, <3>1
  <2>2. ~(q[i] < q[j]) /\ ~(q[j] < q[i])
    BY <2>1
  <2>3. ~(i < j) /\ ~(j < i)
    BY <1>4, <2>2, Zenon
  <2> QED
    BY <1>3, <2>3
<1> QED
  BY <1>5, <1>6, <1>7

LEMMA CountFacts ==
    ASSUME CallsAssumption
    PROVE  /\ IsFiniteSet(InLibrary)
           /\ Cardinality(InLibrary) \in Nat
           /\ \A m \in InLibrary : Cardinality(InLibrary \ {m}) = Cardinality(InLibrary) - 1
           /\ \A m : m \notin InLibrary => Cardinality(InLibrary \cup {m}) = Cardinality(InLibrary) + 1
<1>1. Msgs = 1 .. Len(Size) /\ Len(Size) \in Nat
  BY DEF CallsAssumption, Msgs
<1>2. IsFiniteSet(Msgs)
  BY <1>1, FS_Interval
<1>3. IsFiniteSet(InLibrary)
  BY <1>2, FS_Subset DEF InLibrary
<1> QED
  BY <1>3, FS_CardinalityType, FS_AddElement, FS_RemoveElement

-----------------------------------------------------------------------------
(* The producing threads.                                                  *)

LEMMA CallFacts ==
    ASSUME CallsAssumption, NEW t \in Threads
    PROVE  /\ Len(Calls[t]) \in Nat /\ DOMAIN Calls[t] = 1 .. Len(Calls[t])
           /\ \A a \in DOMAIN Calls[t] :
                 /\ Len(Calls[t][a].msgs) \in Nat \ {0}
                 /\ DOMAIN Calls[t][a].msgs = 1 .. Len(Calls[t][a].msgs)
                 /\ Calls[t][a].batch \in BOOLEAN /\ Calls[t][a].block \in BOOLEAN
                 /\ \A j \in DOMAIN Calls[t][a].msgs : Calls[t][a].msgs[j] \in Msgs
<1> DEFINE C == [batch : BOOLEAN, block : BOOLEAN, msgs : Seq(Msgs) \ {<<>>}]
<1>1. Calls[t] \in Seq(C)
  BY Zenon DEF CallsAssumption
<1>2. \A c \in C : c.msgs \in Seq(Msgs) /\ c.msgs # <<>> /\ c.batch \in BOOLEAN /\ c.block \in BOOLEAN
  BY Zenon
<1> HIDE DEF C
<1>3. /\ Len(Calls[t]) \in Nat /\ DOMAIN Calls[t] = 1 .. Len(Calls[t])
      /\ \A a \in DOMAIN Calls[t] : Calls[t][a] \in C
  BY <1>1
<1>4. \A q \in Seq(Msgs) : /\ q # <<>> => Len(q) \in Nat \ {0}
                           /\ DOMAIN q = 1 .. Len(q) /\ \A j \in DOMAIN q : q[j] \in Msgs
  OBVIOUS
<1> QED
  BY <1>2, <1>3, <1>4, Zenon

\* The message a thread is at belongs to its call and to no other place.
LEMMA MsgFacts ==
    ASSUME CallsAssumption, Types, NEW t \in Threads, InCall(t), th[t].pc # "idle"
    PROVE  /\ th[t].n + 1 \in DOMAIN Calls[t] /\ th[t].i + 1 \in DOMAIN Calls[t][th[t].n + 1].msgs
           /\ Msg(t) = Calls[t][th[t].n + 1].msgs[th[t].i + 1] /\ Msg(t) \in Msgs
           /\ \A u \in Threads : \A a \in DOMAIN Calls[u] : \A j \in DOMAIN Calls[u][a].msgs :
                 Calls[u][a].msgs[j] = Msg(t) => u = t /\ a = th[t].n + 1 /\ j = th[t].i + 1
<1>1. /\ th[t].n + 1 \in DOMAIN Calls[t] /\ th[t].i + 1 \in DOMAIN Calls[t][th[t].n + 1].msgs
      /\ Msg(t) = Calls[t][th[t].n + 1].msgs[th[t].i + 1]
  BY Zenon DEF InCall, Call, Msg
<1>2. Msg(t) \in Msgs
  BY <1>1, CallFacts, Zenon
<1>3. ASSUME NEW u \in Threads, NEW a \in DOMAIN Calls[u], NEW j \in DOMAIN Calls[u][a].msgs,
             Calls[u][a].msgs[j] = Msg(t)
      PROVE  u = t /\ a = th[t].n + 1 /\ j = th[t].i + 1
  <2>1. Calls[u][a].msgs[j] = Calls[t][th[t].n + 1].msgs[th[t].i + 1]
    BY <1>1, <1>3, Zenon
  <2>2. \A v, w \in Threads : \A b \in DOMAIN Calls[v], c \in DOMAIN Calls[w] :
           \A i \in DOMAIN Calls[v][b].msgs, l \in DOMAIN Calls[w][c].msgs :
              Calls[v][b].msgs[i] = Calls[w][c].msgs[l] => v = w /\ b = c /\ i = l
    BY Zenon DEF CallsAssumption
  <2> QED
    BY <1>1, <2>1, <2>2
<1> QED
  BY <1>1, <1>2, <1>3, Zenon

\* Thread u stays where it is, though it may be woken.
SameAt(u) ==
    /\ th'[u].n = th[u].n /\ th'[u].i = th[u].i
    /\ th'[u].pc = "place" <=> th[u].pc = "place"
    /\ th'[u].pc = "idle" <=> th[u].pc = "idle"

Untouched(m) == st[m] \in {"app", "held"} => st'[m] = st[m] /\ (m \in failed' => m \in failed)

LEMMA ThreadKept ==
    ASSUME CallsAssumption, Types, NEW u \in Threads, InCall(u), Fresh(u), Holding(u), SameAt(u),
           \A a \in DOMAIN Calls[u] : \A j \in DOMAIN Calls[u][a].msgs : Untouched(Calls[u][a].msgs[j])
    PROVE  InCall(u)' /\ Fresh(u)' /\ Holding(u)'
<1>1. /\ Call(u)' = Call(u) /\ Msg(u)' = Msg(u)
      /\ \A a, j : Todo(u, a, j)' <=> Todo(u, a, j)
  BY Zenon DEF SameAt, Call, Msg, Todo
<1>2. InCall(u)'
  BY <1>1, Zenon DEF InCall, SameAt
<1>3. Fresh(u)'
  BY <1>1, Zenon DEF Fresh, Untouched
<1>4. Holding(u)'
  <2> SUFFICES ASSUME th'[u].pc = "place" PROVE st'[Msg(u)] = "held" /\ Msg(u) \notin failed'
    BY <1>1, Zenon DEF Holding
  <2>1. th[u].pc = "place"
    BY Zenon DEF SameAt
  <2>2. Untouched(Msg(u))
    <3>1. /\ th[u].n + 1 \in DOMAIN Calls[u] /\ th[u].i + 1 \in DOMAIN Calls[u][th[u].n + 1].msgs
          /\ Msg(u) = Calls[u][th[u].n + 1].msgs[th[u].i + 1]
      BY <2>1, MsgFacts
    <3>2. Untouched(Calls[u][th[u].n + 1].msgs[th[u].i + 1])
      BY <3>1, Zenon
    <3> QED
      BY <3>1, <3>2, Zenon DEF Untouched
  <2> QED
    BY <2>1, <2>2, Zenon DEF Holding, Untouched
<1> QED
  BY <1>2, <1>3, <1>4

\* The others, when thread t handles its message.
LEMMA OthersKept ==
    ASSUME CallsAssumption, Types, ThreadInv, NEW t \in Threads, th[t].pc # "idle",
           \A u \in Threads \ {t} : SameAt(u),
           \A m \in Msgs \ {Msg(t)} : st'[m] = st[m] /\ (m \in failed' => m \in failed),
           InCall(t)' /\ Fresh(t)' /\ Holding(t)'
    PROVE  ThreadInv'
<1>1. ASSUME NEW u \in Threads \ {t}
      PROVE  InCall(u)' /\ Fresh(u)' /\ Holding(u)'
  <2>0. InCall(t) /\ InCall(u) /\ Fresh(u) /\ Holding(u)
    BY Zenon DEF ThreadInv
  <2>1. ASSUME NEW a \in DOMAIN Calls[u], NEW j \in DOMAIN Calls[u][a].msgs
        PROVE  Untouched(Calls[u][a].msgs[j])
    <3>1. Calls[u][a].msgs[j] \in Msgs
      BY CallFacts, Zenon
    <3>2. Calls[u][a].msgs[j] # Msg(t)
      BY <2>0, MsgFacts, Zenon
    <3> QED
      BY <3>1, <3>2, Zenon DEF Untouched
  <2> QED
    BY <2>0, <2>1, ThreadKept, Zenon
<1> QED
  BY <1>1, Zenon DEF ThreadInv

\* All threads, when no message of a producing thread changes.
LEMMA AllKept ==
    ASSUME CallsAssumption, Types, ThreadInv, \A u \in Threads : SameAt(u),
           \A m \in Msgs : Untouched(m)
    PROVE  ThreadInv'
<1> SUFFICES ASSUME NEW u \in Threads PROVE InCall(u)' /\ Fresh(u)' /\ Holding(u)'
  BY Zenon DEF ThreadInv
<1>1. InCall(u) /\ Fresh(u) /\ Holding(u)
  BY Zenon DEF ThreadInv
<1>2. \A a \in DOMAIN Calls[u] : \A j \in DOMAIN Calls[u][a].msgs : Untouched(Calls[u][a].msgs[j])
  BY CallFacts, Zenon
<1> QED
  BY <1>1, <1>2, ThreadKept, Zenon

\* Thread t goes on to its next message or call.
LEMMA ThreadAfter ==
    ASSUME CallsAssumption, Types, NEW t \in Threads, InCall(t), Fresh(t), th[t].pc # "idle",
           th'[t].n = After(t).n, th'[t].i = After(t).i, th'[t].pc = After(t).pc,
           \A m \in Msgs \ {Msg(t)} : st'[m] = st[m] /\ (m \in failed' => m \in failed)
    PROVE  InCall(t)' /\ Fresh(t)' /\ Holding(t)'
<1> DEFINE n == th[t].n
           k == th[t].i
           L == Len(Calls[t][n + 1].msgs)
<1>1. /\ n \in Nat /\ k \in Nat /\ n + 1 \in DOMAIN Calls[t] /\ k + 1 \in DOMAIN Calls[t][n + 1].msgs
      /\ Call(t) = Calls[t][n + 1]
  <2>1. n \in Nat /\ k \in Nat
    BY DEF Types
  <2> QED
    BY <2>1, MsgFacts, Zenon DEF Call
<1>2. /\ L \in Nat \ {0} /\ DOMAIN Calls[t][n + 1].msgs = 1 .. L
  BY <1>1, CallFacts, Zenon
<1>m. \A a \in DOMAIN Calls[t] : \A j \in DOMAIN Calls[t][a].msgs :
         Calls[t][a].msgs[j] = Msg(t) => a = n + 1 /\ j = k + 1
  BY MsgFacts
<1>3. /\ th'[t].pc = IF k + 1 = L THEN "idle" ELSE "add"
      /\ th'[t].i = IF k + 1 = L THEN 0 ELSE k + 1
      /\ th'[t].n = IF k + 1 = L THEN n + 1 ELSE n
  <2>1. th[t] \in [pc : {"idle", "add", "wait", "woken", "rdlock", "place"}, n : Nat, i : Nat, full : BOOLEAN]
    BY Zenon DEF Types
  <2> QED
    BY <1>1, <2>1 DEF After
<1> HIDE DEF n, k, L
<1>4. InCall(t)'
  <2>1. CASE k + 1 = L
    BY <1>3, <2>1, Zenon DEF InCall
  <2>2. CASE k + 1 # L
    <3>1. th'[t].n = n /\ th'[t].i = k + 1 /\ th'[t].pc = "add"
      BY <1>3, <2>2, Zenon
    <3>2. k + 1 + 1 \in 1 .. L
      BY <1>1, <1>2, <2>2
    <3> QED
      BY <1>1, <1>2, <3>1, <3>2, Zenon DEF InCall, Call
  <2> QED
    BY <2>1, <2>2
<1>5. ASSUME NEW a \in DOMAIN Calls[t], NEW j \in DOMAIN Calls[t][a].msgs, Todo(t, a, j)'
      PROVE  Todo(t, a, j) /\ ~(a = n + 1 /\ j = k + 1)
  <2>1. a \in Nat \ {0} /\ j \in Nat \ {0}
    <3>1. DOMAIN Calls[t] = 1 .. Len(Calls[t]) /\ DOMAIN Calls[t][a].msgs = 1 .. Len(Calls[t][a].msgs)
          /\ Len(Calls[t]) \in Nat /\ Len(Calls[t][a].msgs) \in Nat
      BY CallFacts, Zenon
    <3> QED
      BY <3>1
  <2>2. \/ a > th'[t].n + 1
        \/ a = th'[t].n + 1 /\ j >= th'[t].i + 1
    <3>1. th'[t].i \in Nat
      BY <1>1, <1>3
    <3> QED
      BY <1>5, <2>1, <3>1 DEF Todo
  <2>3. a > n + 1 \/ (a = n + 1 /\ j > k + 1)
    <3>1. CASE k + 1 = L
      BY <1>1, <1>3, <2>1, <2>2, <3>1
    <3>2. CASE k + 1 # L
      BY <1>1, <1>3, <2>1, <2>2, <3>2
    <3> QED
      BY <3>1, <3>2
  <2> QED
    BY <1>1, <2>1, <2>3 DEF Todo, n, k
<1>6. Fresh(t)'
  <2> SUFFICES ASSUME NEW a \in DOMAIN Calls[t], NEW j \in DOMAIN Calls[t][a].msgs, Todo(t, a, j)'
               PROVE  st'[Calls[t][a].msgs[j]] = "app" /\ Calls[t][a].msgs[j] \notin failed'
    BY Zenon DEF Fresh
  <2>1. Todo(t, a, j) /\ ~(a = n + 1 /\ j = k + 1)
    BY <1>5
  <2>2. Calls[t][a].msgs[j] # Msg(t)
    BY <1>m, <2>1, Zenon
  <2>3. Calls[t][a].msgs[j] \in Msgs
    BY CallFacts, Zenon
  <2> QED
    BY <2>1, <2>2, <2>3, Zenon DEF Fresh
<1>7. Holding(t)'
  BY <1>3 DEF Holding
<1> QED
  BY <1>4, <1>6, <1>7

-----------------------------------------------------------------------------
(* What a step that moves messages on leaves as it is.                     *)

Library == {"held", "ua", "queued", "dr"}

LEMMA MoveFacts ==
    ASSUME NEW S, NEW T, NEW f \in [S -> T], NEW m \in S, NEW v \in T, NEW g, g = [f EXCEPT ![m] = v]
    PROVE  g \in [S -> T] /\ g[m] = v /\ \A x \in S : x # m => g[x] = f[x]
OBVIOUS

\* An accepted message stays accepted.
Onward ==
    \A m \in Msgs : st[m] \in {"ua", "queued", "dr", "gone"} =>
        /\ st'[m] \in {"ua", "queued", "dr", "gone"} /\ (m \in failed' => m \in failed)
        /\ st[m] = "gone" => st'[m] = "gone"

LEMMA OwesKept ==
    ASSUME Types, Owes, flush' = flush, Onward
    PROVE  Owes'
<1> SUFFICES ASSUME NEW p \in Pollers, NEW m \in flush[p].owed
             PROVE  /\ st'[m] \in {"ua", "queued", "dr", "gone"} /\ m \notin failed'
                    /\ flush[p].ok => st'[m] = "gone"
  BY Zenon DEF Owes
<1>1. m \in Msgs
  BY DEF Types
<1>2. /\ st[m] \in {"ua", "queued", "dr", "gone"} /\ m \notin failed
      /\ flush[p].ok => st[m] = "gone"
  BY Zenon DEF Owes
<1> QED
  BY <1>1, <1>2, Zenon DEF Onward

LEMMA ReportsKept ==
    ASSUME NEW ops, NEW held, NEW old, NEW new, Separate(ops, held, old),
           \A m \in Msgs : old[m] = "dr" => new[m] = "dr"
    PROVE  Separate(ops, held, new)
BY Zenon DEF Separate, Waits

\* rd_kafka_dr_msgq adds an operation of messages that had no report.
LEMMA ReportsAppend ==
    ASSUME NEW ops \in Seq(Seq(Msgs)), NEW held, NEW old, NEW new, Separate(ops, held, old),
           \A m \in Msgs : old[m] = "dr" => new[m] = "dr",
           NEW q \in Seq(Msgs), Distinct(q),
           \A m \in Elems(q) : m \in Msgs /\ old[m] # "dr" /\ new[m] = "dr"
    PROVE  Separate(Append(ops, q), held, new)
<1>1. Separate(ops, held, new)
  BY ReportsKept, Zenon
<1>2. Waits(q, new)
  BY Zenon DEF Waits
<1>3. ASSUME NEW r, Waits(r, old) PROVE Apart(q, r) /\ Apart(r, q)
  BY <1>3, Zenon DEF Waits, Apart
<1>4. (\A i \in DOMAIN ops : Waits(ops[i], old)) /\ \A p \in Pollers : Waits(held[p], old)
  BY Zenon DEF Separate
<1>5. \A i \in DOMAIN Append(ops, q) :
         (i \in DOMAIN ops /\ Append(ops, q)[i] = ops[i]) \/ (i = Len(ops) + 1 /\ Append(ops, q)[i] = q)
  BY AppendFacts, Zenon
<1> DEFINE a == Append(ops, q)
<1> HIDE DEF a
<1>6. \A i \in DOMAIN a : (i \in DOMAIN ops /\ a[i] = ops[i]) \/ (i = Len(ops) + 1 /\ a[i] = q)
  BY <1>5, Zenon DEF a
<1>7. \A i \in DOMAIN a : Waits(a[i], new)
  BY <1>1, <1>2, <1>6, Zenon DEF Separate
<1>8. ASSUME NEW i \in DOMAIN a, NEW j \in DOMAIN a, i # j PROVE Apart(a[i], a[j])
  BY <1>1, <1>3, <1>4, <1>6, <1>8, Zenon DEF Separate
<1>9. \A i \in DOMAIN a, p \in Pollers : Apart(a[i], held[p])
  BY <1>1, <1>3, <1>4, <1>6, Zenon DEF Separate
<1>10. Separate(a, held, new)
  BY <1>1, <1>7, <1>8, <1>9, Zenon DEF Separate
<1> QED
  BY <1>10 DEF a

\* A poller without an operation takes the first one.
LEMMA ReportsTake ==
    ASSUME NEW ops \in Seq(Seq(Msgs)), NEW held \in [Pollers -> Seq(Msgs)], NEW state,
           Separate(ops, held, state), ops # <<>>, NEW p \in Pollers
    PROVE  Separate(Tail(ops), [held EXCEPT ![p] = Head(ops)], state)
<1> DEFINE t == Tail(ops)
           h == [held EXCEPT ![p] = Head(ops)]
<1>1. /\ \A i \in DOMAIN t : i + 1 \in DOMAIN ops /\ t[i] = ops[i + 1] /\ i + 1 # 1 /\ i \in Int
      /\ 1 \in DOMAIN ops
  OBVIOUS
<1>2. h[p] = ops[1] /\ \A r \in Pollers : r # p => h[r] = held[r]
  OBVIOUS
<1>3. \A i, j \in DOMAIN t : i # j => i + 1 # j + 1
  BY <1>1
<1> HIDE DEF t, h
<1>4. \A i \in DOMAIN t : Waits(t[i], state)
  BY <1>1, Zenon DEF Separate
<1>5. \A r \in Pollers : Waits(h[r], state)
  BY <1>1, <1>2, Zenon DEF Separate
<1>6. ASSUME NEW i \in DOMAIN t, NEW j \in DOMAIN t, i # j PROVE Apart(t[i], t[j])
  <2>1. Apart(ops[i + 1], ops[j + 1])
    BY <1>1, <1>3, <1>6, Zenon DEF Separate
  <2> QED
    BY <1>1, <2>1, Zenon
<1>7. ASSUME NEW r \in Pollers, NEW w \in Pollers, r # w PROVE Apart(h[r], h[w])
  <2>1. \A v \in Pollers : Apart(ops[1], held[v]) /\ Apart(held[v], ops[1])
    BY <1>1, Zenon DEF Separate, Apart
  <2>2. Apart(held[r], held[w])
    BY <1>7, Zenon DEF Separate
  <2> QED
    BY <1>2, <1>7, <2>1, <2>2, Zenon
<1>8. ASSUME NEW i \in DOMAIN t, NEW r \in Pollers PROVE Apart(t[i], h[r])
  <2>1. Apart(ops[i + 1], held[r]) /\ Apart(ops[i + 1], ops[1])
    BY <1>1, Zenon DEF Separate
  <2> QED
    BY <1>1, <1>2, <2>1, Zenon
<1>9. Separate(t, h, state)
  BY <1>4, <1>5, <1>6, <1>7, <1>8, Zenon DEF Separate
<1> QED
  BY <1>9 DEF t, h

\* A poller is done with the first message of its operation.
LEMMA ReportsDone ==
    ASSUME NEW ops \in Seq(Seq(Msgs)), NEW held \in [Pollers -> Seq(Msgs)], NEW old, NEW new,
           Separate(ops, held, old), NEW p \in Pollers, held[p] # <<>>,
           \A m \in Msgs : m # Head(held[p]) => new[m] = old[m]
    PROVE  Separate(ops, [held EXCEPT ![p] = Tail(@)], new)
<1> DEFINE h == [held EXCEPT ![p] = Tail(@)]
           x == Head(held[p])
<1>1. h[p] = Tail(held[p]) /\ \A r \in Pollers : r # p => h[r] = held[r]
  OBVIOUS
<1>2. /\ x \in Elems(held[p]) /\ Elems(Tail(held[p])) \subseteq Elems(held[p])
      /\ Distinct(held[p]) => Distinct(Tail(held[p])) /\ x \notin Elems(Tail(held[p]))
  <2>1. held[p] \in Seq(Msgs)
    OBVIOUS
  <2> QED
    BY <2>1, TailFacts, Zenon
<1> HIDE DEF h, x
<1>3. Waits(held[p], old)
  BY Zenon DEF Separate
<1>4. \A m \in Msgs : m # x => new[m] = old[m]
  BY Zenon DEF x
<1>5. Waits(h[p], new)
  BY <1>1, <1>2, <1>3, <1>4, Zenon DEF Waits
<1>6. ASSUME NEW q, Waits(q, old), Apart(q, held[p]) \/ Apart(held[p], q)
      PROVE  Waits(q, new) /\ Apart(q, h[p]) /\ Apart(h[p], q)
  <2>1. x \notin Elems(q) /\ \A m \in Elems(held[p]) : m \notin Elems(q)
    BY <1>2, <1>6, Zenon DEF Apart
  <2>2. Waits(q, new)
    BY <1>4, <1>6, <2>1, Zenon DEF Waits
  <2>3. Apart(q, h[p]) /\ Apart(h[p], q)
    BY <1>1, <1>2, <2>1, Zenon DEF Apart
  <2> QED
    BY <2>2, <2>3
<1>7. \A i \in DOMAIN ops : Waits(ops[i], new) /\ Apart(ops[i], h[p])
  BY <1>6, Zenon DEF Separate
<1>8. \A r \in Pollers : r # p => Waits(h[r], new) /\ Apart(h[r], h[p]) /\ Apart(h[p], h[r])
  BY <1>1, <1>6, Zenon DEF Separate
<1>9. Separate(ops, h, new)
  BY <1>1, <1>5, <1>7, <1>8, Zenon DEF Separate
<1> QED
  BY <1>9 DEF h

\* A poller puts its operation back at the head (rd_kafka_q_reenq), or drops
\* it.
LEMMA ReportsReenq ==
    ASSUME NEW ops \in Seq(Seq(Msgs)), NEW held \in [Pollers -> Seq(Msgs)], NEW state,
           Separate(ops, held, state), NEW p \in Pollers
    PROVE  /\ Separate(ops, [held EXCEPT ![p] = <<>>], state)
           /\ Separate(<<held[p]>> \o ops, [held EXCEPT ![p] = <<>>], state)
<1> DEFINE h == [held EXCEPT ![p] = <<>>]
           q == held[p]
           a == <<q>> \o ops
<1>1. h[p] = <<>> /\ \A r \in Pollers : r # p => h[r] = held[r]
  OBVIOUS
<1>2. \A i \in DOMAIN a : \/ i = 1 /\ a[i] = q
                          \/ i - 1 \in DOMAIN ops /\ a[i] = ops[i - 1] /\ i \in Int
  <2>1. q \in Seq(Msgs)
    OBVIOUS
  <2> QED
    BY <2>1, ConsFacts, Zenon
<1>3. \A i, j \in DOMAIN a : i # j /\ i \in Int /\ j \in Int => i - 1 # j - 1
  OBVIOUS
<1>4. Waits(<<>>, state) /\ \A r : Apart(r, <<>>) /\ Apart(<<>>, r)
  BY DEF Waits, Apart, Elems, Distinct
<1> HIDE DEF h, a, q
<1>5. \A r \in Pollers : Waits(h[r], state)
  BY <1>1, <1>4, Zenon DEF Separate
<1>6. \A r, w \in Pollers : r # w => Apart(h[r], h[w])
  BY <1>1, <1>4, Zenon DEF Separate
<1>7. \A i \in DOMAIN ops, r \in Pollers : Apart(ops[i], h[r])
  BY <1>1, <1>4, Zenon DEF Separate
<1>8. Separate(ops, h, state)
  BY <1>5, <1>6, <1>7, Zenon DEF Separate
<1>9. Waits(q, state) /\ (\A i \in DOMAIN ops : Apart(q, ops[i]) /\ Apart(ops[i], q))
      /\ \A r \in Pollers : Apart(q, h[r])
  BY <1>1, <1>4, Zenon DEF Separate, Apart, q
<1>10. \A i \in DOMAIN a : Waits(a[i], state)
  BY <1>2, <1>9, Zenon DEF Separate
<1>11. ASSUME NEW i \in DOMAIN a, NEW j \in DOMAIN a, i # j PROVE Apart(a[i], a[j])
  BY <1>2, <1>3, <1>9, <1>11, Zenon DEF Separate
<1>12. \A i \in DOMAIN a, r \in Pollers : Apart(a[i], h[r])
  BY <1>2, <1>7, <1>9, Zenon
<1>13. Separate(a, h, state)
  BY <1>5, <1>6, <1>10, <1>11, <1>12, Zenon DEF Separate
<1> QED
  BY <1>8, <1>13 DEF h, a, q

LEMMA PurgingKept ==
    ASSUME Purging, writer' = writer, \A m \in Msgs : st[m] = "ua" => st'[m] = "ua"
    PROVE  Purging'
BY Zenon DEF Purging

LEMMA CalledKept ==
    ASSUME AllCalled, called' = called,
           \A m \in Msgs : st'[m] = "gone" /\ m \notin failed' => st[m] = "gone" /\ m \notin failed
    PROVE  AllCalled'
BY Zenon DEF AllCalled

LEMMA CountSame ==
    ASSUME CountExact, curr' = curr, \A m \in Msgs : st'[m] \in Library <=> st[m] \in Library
    PROVE  CountExact'
<1>1. InLibrary' = InLibrary
  BY Zenon DEF InLibrary, Library
<1> QED
  BY <1>1, Zenon DEF CountExact

LEMMA CountLess ==
    ASSUME CallsAssumption, Types, CountExact, NEW m \in Msgs, st[m] \in Library,
           st' = [st EXCEPT ![m] = "gone"], curr' = Minus(curr, m)
    PROVE  CountExact' /\ curr' \in [cnt : Int, size : Int]
<1>1. InLibrary' = InLibrary \ {m} /\ m \in InLibrary
  <2>1. st'[m] = "gone" /\ \A x \in Msgs \ {m} : st'[x] = st[x]
    BY DEF Types
  <2> QED
    BY <2>1 DEF InLibrary, Library
<1>2. Cardinality(InLibrary') = Cardinality(InLibrary) - 1
  BY <1>1, CountFacts
<1>3. curr.cnt \in Int /\ curr.size \in Int
  BY Zenon DEF Types
<1>4. Size[m] \in Nat
  BY DEF CallsAssumption, Msgs
<1>5. curr'.cnt = curr.cnt - 1 /\ curr'.size = curr.size - Size[m]
      /\ curr' \in [cnt : Int, size : Int]
  BY <1>3, <1>4 DEF Minus
<1>6. curr.cnt = Cardinality(InLibrary) /\ curr.cnt <= MaxCnt /\ curr.size <= MaxSize
      /\ MaxCnt \in Nat /\ MaxSize \in Nat
  BY Zenon DEF CountExact, CallsAssumption
<1>7. curr'.cnt = Cardinality(InLibrary') /\ curr'.cnt <= MaxCnt /\ curr'.size <= MaxSize
  BY <1>2, <1>3, <1>4, <1>5, <1>6
<1> QED
  BY <1>5, <1>7, Zenon DEF CountExact

\* rd_kafka_curr_msgs_sub wakes threads that wait, and no other.
LEMMA WakeSame ==
    ASSUME Types, NEW m
    PROVE  /\ Wake(curr, m) \in [Threads -> [pc : {"idle", "add", "wait", "woken", "rdlock", "place"},
                                             n : Nat, i : Nat, full : BOOLEAN]]
           /\ \A u \in Threads :
                 \/ Wake(curr, m)[u] = th[u]
                 \/ th[u].pc = "wait" /\ Wake(curr, m)[u] = [th[u] EXCEPT !.pc = "woken"]
<1> DEFINE R == [pc : {"idle", "add", "wait", "woken", "rdlock", "place"}, n : Nat, i : Nat, full : BOOLEAN]
           W == [t \in Threads |-> IF th[t].pc = "wait" THEN [th[t] EXCEPT !.pc = "woken"] ELSE th[t]]
<1>1. th \in [Threads -> R]
  BY Zenon DEF Types
<1>2. \A r \in R : [r EXCEPT !.pc = "woken"] \in R
  OBVIOUS
<1>3. Wake(curr, m) = W \/ Wake(curr, m) = th
  BY Zenon DEF Wake, Waiting
<1> HIDE DEF R
<1>4. /\ W \in [Threads -> R]
      /\ \A u \in Threads : W[u] = IF th[u].pc = "wait" THEN [th[u] EXCEPT !.pc = "woken"] ELSE th[u]
  BY <1>1, <1>2
<1> HIDE DEF W
<1>5. Wake(curr, m) \in [Threads -> R]
  BY <1>1, <1>3, <1>4, Zenon
<1>6. ASSUME NEW u \in Threads
      PROVE  \/ Wake(curr, m)[u] = th[u]
             \/ th[u].pc = "wait" /\ Wake(curr, m)[u] = [th[u] EXCEPT !.pc = "woken"]
  BY <1>3, <1>4, Zenon
<1> QED
  BY <1>5, <1>6, Zenon DEF R

LEMMA WakeSameAt ==
    ASSUME Types, NEW m, NEW u \in Threads, th'[u] = Wake(curr, m)[u]
    PROVE  SameAt(u)
<1>1. CASE th'[u] = th[u]
  BY <1>1, Zenon DEF SameAt
<1>2. CASE th[u].pc = "wait" /\ th'[u] = [th[u] EXCEPT !.pc = "woken"]
  <2>1. th[u] \in [pc : {"idle", "add", "wait", "woken", "rdlock", "place"}, n : Nat, i : Nat, full : BOOLEAN]
    BY Zenon DEF Types
  <2>2. th'[u].pc = "woken" /\ th'[u].n = th[u].n /\ th'[u].i = th[u].i
    BY <1>2, <2>1
  <2> QED
    BY <1>2, <2>2 DEF SameAt
<1> QED
  BY <1>1, <1>2, WakeSame, Zenon

\* The destruction of a message that is in the library's hands and in no call.
LEMMA DestroyKeeps ==
    ASSUME CallsAssumption, Types, ThreadInv, CountExact, Owes, NEW m \in Msgs,
           st[m] \in {"ua", "queued", "dr"}, Destroy(m, TRUE), failed' = failed, flush' = flush
    PROVE  /\ ThreadInv' /\ CountExact' /\ Owes'
           /\ curr' \in [cnt : Int, size : Int]
           /\ th' \in [Threads -> [pc : {"idle", "add", "wait", "woken", "rdlock", "place"},
                                   n : Nat, i : Nat, full : BOOLEAN]]
           /\ st' \in [Msgs -> {"app", "held", "ua", "queued", "dr", "gone"}]
           /\ st'[m] = "gone" /\ \A x \in Msgs : x # m => st'[x] = st[x]
<1>1. curr' = Minus(curr, m) /\ th' = Wake(curr, m) /\ st' = [st EXCEPT ![m] = "gone"]
  BY Zenon DEF Destroy
<1>2. st \in [Msgs -> {"app", "held", "ua", "queued", "dr", "gone"}]
  BY Zenon DEF Types
<1>3. /\ st' \in [Msgs -> {"app", "held", "ua", "queued", "dr", "gone"}]
      /\ st'[m] = "gone" /\ \A x \in Msgs : x # m => st'[x] = st[x]
  BY <1>1, <1>2, MoveFacts, Zenon
<1>4. CountExact' /\ curr' \in [cnt : Int, size : Int]
  BY <1>1, CountLess, Zenon DEF Library
<1>5. ThreadInv'
  <2>1. \A u \in Threads : SameAt(u)
    BY <1>1, WakeSameAt, Zenon
  <2>2. \A x \in Msgs : Untouched(x)
    BY <1>3 DEF Untouched
  <2> QED
    BY <2>1, <2>2, AllKept, Zenon
<1>6. Owes'
  <2>1. Onward
    BY <1>3 DEF Onward
  <2> QED
    BY <2>1, OwesKept, Zenon
<1> QED
  BY <1>1, <1>3, <1>4, <1>5, <1>6, WakeSame

-----------------------------------------------------------------------------
(* The steps of the producing threads.                                     *)

ThreadType == [pc : {"idle", "add", "wait", "woken", "rdlock", "place"}, n : Nat, i : Nat, full : BOOLEAN]

LEMMA StepType ==
    ASSUME Types, NEW t \in Threads, NEW pc \in {"add", "wait", "woken", "rdlock", "place"}, Step(t, pc)
    PROVE  /\ th' \in [Threads -> ThreadType]
           /\ th'[t].pc = pc /\ th'[t].n = th[t].n /\ th'[t].i = th[t].i
           /\ \A u \in Threads \ {t} : th'[u] = th[u]
<1>1. th \in [Threads -> ThreadType]
  BY Zenon DEF Types, ThreadType
<1>2. th' = [th EXCEPT ![t] = [th[t] EXCEPT !.pc = pc]]
  BY <1>1 DEF Step
<1>3. /\ [th[t] EXCEPT !.pc = pc] \in ThreadType /\ [th[t] EXCEPT !.pc = pc].pc = pc
      /\ [th[t] EXCEPT !.pc = pc].n = th[t].n /\ [th[t] EXCEPT !.pc = pc].i = th[t].i
  BY <1>1 DEF ThreadType
<1> DEFINE r == [th[t] EXCEPT !.pc = pc]
<1> HIDE DEF r
<1>4. th' = [th EXCEPT ![t] = r] /\ r \in ThreadType /\ r.pc = pc /\ r.n = th[t].n /\ r.i = th[t].i
  BY <1>2, <1>3 DEF r
<1>5. th'[t] = r /\ th' \in [Threads -> ThreadType] /\ \A u \in Threads \ {t} : th'[u] = th[u]
  BY <1>1, <1>4, Zenon
<1> QED
  BY <1>4, <1>5, Zenon

\* A thread that is not placing a message starts a call, waits or wakes up.
LEMMA PcStep ==
    ASSUME CallsAssumption, QuotaInv, NEW t \in Threads, NEW pc \in {"add", "wait", "rdlock"},
           th[t].pc # "place", th[t].n + 1 \in DOMAIN Calls[t],
           th[t].i + 1 \in DOMAIN Calls[t][th[t].n + 1].msgs, Step(t, pc),
           UNCHANGED <<curr, st, failed, writer, rep, op, called, flush>>
    PROVE  QuotaInv'
<1>1. /\ th' \in [Threads -> ThreadType] /\ th'[t].pc = pc /\ th'[t].n = th[t].n /\ th'[t].i = th[t].i
      /\ \A u \in Threads \ {t} : th'[u] = th[u]
  BY StepType, Zenon DEF QuotaInv
<1>2. ASSUME NEW u \in Threads \ {t} PROVE InCall(u)' /\ Fresh(u)' /\ Holding(u)'
  <2>1. SameAt(u)
    BY <1>1, Zenon DEF SameAt
  <2>2. InCall(u) /\ Fresh(u) /\ Holding(u) /\ Types
    BY Zenon DEF QuotaInv, ThreadInv
  <2>3. \A m : Untouched(m)
    BY Zenon DEF Untouched
  <2> QED
    BY <2>1, <2>2, <2>3, ThreadKept, Zenon
<1>3. pc # "place" /\ pc # "idle"
  OBVIOUS
<1>4. InCall(t)'
  BY <1>1, <1>3, Zenon DEF InCall, Call
<1>5. Fresh(t)'
  <2>1. \A a, j : Todo(t, a, j)' <=> Todo(t, a, j)
    BY <1>1, <1>3, Zenon DEF Todo
  <2> QED
    BY <2>1, Zenon DEF Fresh, QuotaInv, ThreadInv
<1>6. Holding(t)'
  BY <1>1, <1>3, Zenon DEF Holding
<1>7. ThreadInv'
  BY <1>2, <1>4, <1>5, <1>6, Zenon DEF ThreadInv
<1>8. Types'
  BY <1>1, Zenon DEF QuotaInv, Types, ThreadType
<1>9. ReportsApart' /\ Purging' /\ AllCalled' /\ Owes'
  BY Zenon DEF QuotaInv, ReportsApart, Purging, AllCalled, Owes
<1>10. CountExact'
  BY CountSame, Zenon DEF QuotaInv
<1> QED
  BY <1>7, <1>8, <1>9, <1>10, Zenon DEF QuotaInv

LEMMA QuotaStart ==
    ASSUME CallsAssumption, QuotaInv, NEW t \in Threads, Start(t)
    PROVE  QuotaInv'
<1>1. th[t].pc = "idle" /\ th[t].n < Len(Calls[t]) /\ Step(t, "add")
      /\ UNCHANGED <<curr, st, failed, writer, rep, op, called, flush>>
  BY Zenon DEF Start, Topic, Poll
<1>2. th[t].i = 0 /\ th[t].n \in Nat
  <2>1. InCall(t) /\ Types
    BY Zenon DEF QuotaInv, ThreadInv
  <2>2. th[t].n \in Nat
    BY <2>1 DEF Types
  <2> QED
    BY <1>1, <2>1, <2>2, Zenon DEF InCall
<1>3. Len(Calls[t]) \in Nat /\ DOMAIN Calls[t] = 1 .. Len(Calls[t])
  BY CallFacts, Zenon
<1>4. th[t].n + 1 \in DOMAIN Calls[t]
  BY <1>1, <1>2, <1>3
<1>5. Len(Calls[t][th[t].n + 1].msgs) \in Nat \ {0}
      /\ DOMAIN Calls[t][th[t].n + 1].msgs = 1 .. Len(Calls[t][th[t].n + 1].msgs)
  BY <1>4, CallFacts, Zenon
<1>6. th[t].i + 1 \in DOMAIN Calls[t][th[t].n + 1].msgs
  BY <1>2, <1>5
<1> QED
  BY <1>1, <1>4, <1>6, PcStep

LEMMA QuotaWoken ==
    ASSUME CallsAssumption, QuotaInv, NEW t \in Threads, Woken(t) \/ Rdlock(t)
    PROVE  QuotaInv'
<1>1. PICK pc \in {"add", "rdlock"} :
         /\ th[t].pc \in {"woken", "rdlock"} /\ Step(t, pc)
         /\ UNCHANGED <<curr, st, failed, writer, rep, op, called, flush>>
  BY DEF Woken, Rdlock, Topic, Poll
<1>2. InCall(t) /\ Types
  BY Zenon DEF QuotaInv, ThreadInv
<1>3. th[t].n + 1 \in DOMAIN Calls[t] /\ th[t].i + 1 \in DOMAIN Calls[t][th[t].n + 1].msgs
  BY <1>1, <1>2, MsgFacts
<1> QED
  BY <1>1, <1>3, PcStep

\* A thread that adds is at a message of its own that nobody else has.
LEMMA AddFacts ==
    ASSUME CallsAssumption, QuotaInv, NEW t \in Threads, th[t].pc = "add"
    PROVE  /\ InCall(t) /\ Fresh(t) /\ th[t].pc # "idle" /\ th[t].pc # "place"
           /\ Msg(t) \in Msgs /\ st[Msg(t)] = "app" /\ Msg(t) \notin failed
<1>1. InCall(t) /\ Fresh(t) /\ Types /\ th[t].pc # "idle" /\ th[t].pc # "place"
  BY DEF QuotaInv, ThreadInv
<1>2. /\ th[t].n + 1 \in DOMAIN Calls[t] /\ th[t].i + 1 \in DOMAIN Calls[t][th[t].n + 1].msgs
      /\ Msg(t) = Calls[t][th[t].n + 1].msgs[th[t].i + 1] /\ Msg(t) \in Msgs
  BY <1>1, MsgFacts
<1>3. Todo(t, th[t].n + 1, th[t].i + 1)
  BY <1>1, Zenon DEF Todo
<1> QED
  BY <1>1, <1>2, <1>3, Zenon DEF Fresh

LEMMA CountMore ==
    ASSUME CallsAssumption, Types, CountExact, NEW m \in Msgs, st[m] = "app", Fits(curr, m),
           st' = [st EXCEPT ![m] = "held"],
           curr' = [cnt |-> curr.cnt + 1, size |-> curr.size + Size[m]]
    PROVE  CountExact' /\ curr' \in [cnt : Int, size : Int]
<1>1. InLibrary' = InLibrary \cup {m} /\ m \notin InLibrary
  <2>1. st \in [Msgs -> {"app", "held", "ua", "queued", "dr", "gone"}]
    BY DEF Types
  <2> QED
    BY <2>1 DEF InLibrary
<1>2. Cardinality(InLibrary') = Cardinality(InLibrary) + 1
  <2>1. IsFiniteSet(InLibrary)
    BY CountFacts
  <2> QED
    BY <1>1, <2>1, FS_AddElement, Zenon
<1>3. curr.cnt \in Int /\ curr.size \in Int
  BY Zenon DEF Types
<1>4. Size[m] \in Nat
  BY DEF CallsAssumption, Msgs
<1>5. curr.cnt = Cardinality(InLibrary) /\ curr.cnt + 1 <= MaxCnt /\ curr.size + Size[m] <= MaxSize
  BY Zenon DEF CountExact, Fits
<1>6. curr'.cnt = curr.cnt + 1 /\ curr'.size = curr.size + Size[m]
  BY Zenon
<1>7. curr' \in [cnt : Int, size : Int]
  BY <1>3, <1>4
<1> QED
  BY <1>2, <1>5, <1>6, <1>7, Zenon DEF CountExact

\* Only a message that has not been accepted changes.
LEMMA RestKept ==
    ASSUME Types, ReportsApart, Purging, AllCalled, Owes, NEW m \in Msgs, st[m] \in {"app", "held"},
           \A x \in Msgs : x # m => st'[x] = st[x] /\ (x \in failed' <=> x \in failed),
           st'[m] # "gone" \/ m \in failed', UNCHANGED <<writer, rep, op, called, flush>>
    PROVE  ReportsApart' /\ Purging' /\ AllCalled' /\ Owes'
<1>1. ReportsApart'
  <2>1. \A x \in Msgs : st[x] = "dr" => st'[x] = "dr"
    OBVIOUS
  <2> QED
    BY <2>1, ReportsKept, Zenon DEF ReportsApart
<1>2. Purging'
  <2>1. \A x \in Msgs : st[x] = "ua" => st'[x] = "ua"
    OBVIOUS
  <2> QED
    BY <2>1, PurgingKept, Zenon
<1>3. AllCalled'
  <2>1. \A x \in Msgs : st'[x] = "gone" /\ x \notin failed' => st[x] = "gone" /\ x \notin failed
    BY Zenon
  <2> QED
    BY <2>1, CalledKept, Zenon
<1>4. Owes'
  <2>1. Onward
    BY DEF Onward
  <2> QED
    BY <2>1, OwesKept, Zenon
<1> QED
  BY <1>1, <1>2, <1>3, <1>4

\* Thread t goes on, the others stay where they are.
LEMMA GoesOn ==
    ASSUME CallsAssumption, Types, ThreadInv, NEW t \in Threads, th[t].pc # "idle",
           th'[t].n = After(t).n, th'[t].i = After(t).i, th'[t].pc = After(t).pc,
           \A u \in Threads \ {t} : SameAt(u),
           \A m \in Msgs \ {Msg(t)} : st'[m] = st[m] /\ (m \in failed' => m \in failed)
    PROVE  ThreadInv'
<1>1. InCall(t) /\ Fresh(t)
  BY Zenon DEF ThreadInv
<1>2. InCall(t)' /\ Fresh(t)' /\ Holding(t)'
  BY <1>1, ThreadAfter, Zenon
<1> QED
  BY <1>2, OthersKept, Zenon

LEMMA AfterType ==
    ASSUME Types, NEW t \in Threads, NEW b \in BOOLEAN
    PROVE  /\ After(t) \in ThreadType /\ [After(t) EXCEPT !.full = b] \in ThreadType
           /\ [After(t) EXCEPT !.full = b].n = After(t).n
           /\ [After(t) EXCEPT !.full = b].i = After(t).i
           /\ [After(t) EXCEPT !.full = b].pc = After(t).pc
<1>1. th[t] \in ThreadType
  BY Zenon DEF Types, ThreadType
<1>2. \A r \in ThreadType :
         /\ [r EXCEPT !.pc = "idle", !.i = 0, !.n = @ + 1, !.full = FALSE] \in ThreadType
         /\ [r EXCEPT !.pc = "add", !.i = @ + 1, !.n = @, !.full = @] \in ThreadType
  <2> SUFFICES ASSUME NEW r \in ThreadType
               PROVE  /\ [r EXCEPT !.pc = "idle", !.i = 0, !.n = @ + 1, !.full = FALSE] \in ThreadType
                      /\ [r EXCEPT !.pc = "add", !.i = @ + 1, !.n = @, !.full = @] \in ThreadType
    BY Zenon
  <2>1. r.n \in Nat /\ r.i \in Nat /\ r.full \in BOOLEAN
    BY DEF ThreadType
  <2>2. r.n + 1 \in Nat /\ r.i + 1 \in Nat
    BY <2>1
  <2>3. [r EXCEPT !.pc = "idle", !.i = 0, !.n = @ + 1, !.full = FALSE] \in ThreadType
    BY <2>2, Zenon DEF ThreadType
  <2>4. [r EXCEPT !.pc = "add", !.i = @ + 1, !.n = @, !.full = @] \in ThreadType
    BY <2>1, <2>2, Zenon DEF ThreadType
  <2> QED
    BY <2>3, <2>4, Zenon
<1>3. After(t) \in ThreadType
  <2>1. CASE th[t].i + 1 = Len(Call(t).msgs)
    <3>1. After(t) = [th[t] EXCEPT !.pc = "idle", !.i = 0, !.n = @ + 1, !.full = FALSE]
      BY <2>1 DEF After
    <3> QED
      BY <1>1, <1>2, <3>1, Zenon
  <2>2. CASE th[t].i + 1 # Len(Call(t).msgs)
    <3>1. After(t) = [th[t] EXCEPT !.pc = "add", !.i = @ + 1, !.n = @, !.full = @]
      BY <2>2 DEF After
    <3> QED
      BY <1>1, <1>2, <3>1, Zenon
  <2> QED
    BY <2>1, <2>2
<1>4. \A r \in ThreadType :
         /\ [r EXCEPT !.full = b] \in ThreadType /\ [r EXCEPT !.full = b].n = r.n
         /\ [r EXCEPT !.full = b].i = r.i /\ [r EXCEPT !.full = b].pc = r.pc
  BY DEF ThreadType
<1> QED
  BY <1>3, <1>4, Zenon

\* The message is counted and becomes the library's.
LEMMA QuotaAddFits ==
    ASSUME CallsAssumption, QuotaInv, NEW t \in Threads, th[t].pc = "add", Fits(curr, Msg(t)),
           curr' = [cnt |-> curr.cnt + 1, size |-> curr.size + Size[Msg(t)]],
           st' = [st EXCEPT ![Msg(t)] = "held"], Step(t, "place"),
           UNCHANGED <<failed, writer, rep, op, called, flush>>
    PROVE  QuotaInv'
<1> DEFINE m == Msg(t)
<1>1. /\ InCall(t) /\ Fresh(t) /\ th[t].pc # "idle" /\ th[t].pc # "place"
      /\ m \in Msgs /\ st[m] = "app" /\ m \notin failed /\ Types
  BY AddFacts, Zenon DEF QuotaInv
<1>2. /\ th' \in [Threads -> ThreadType] /\ th'[t].pc = "place" /\ th'[t].n = th[t].n /\ th'[t].i = th[t].i
      /\ \A u \in Threads \ {t} : th'[u] = th[u]
  BY <1>1, StepType
<1>3. CountExact' /\ curr' \in [cnt : Int, size : Int]
  BY <1>1, CountMore, Zenon DEF QuotaInv
<1>4. /\ st' \in [Msgs -> {"app", "held", "ua", "queued", "dr", "gone"}]
      /\ st'[m] = "held" /\ \A x \in Msgs : x # m => st'[x] = st[x]
  <2>1. st \in [Msgs -> {"app", "held", "ua", "queued", "dr", "gone"}]
    BY <1>1, Zenon DEF Types
  <2> QED
    BY <1>1, <2>1, MoveFacts, Zenon
<1>5. /\ th[t].n + 1 \in DOMAIN Calls[t] /\ th[t].i + 1 \in DOMAIN Calls[t][th[t].n + 1].msgs
      /\ m = Calls[t][th[t].n + 1].msgs[th[t].i + 1]
  BY <1>1, MsgFacts
<1>6. Msg(t)' = m /\ InCall(t)' /\ Holding(t)'
  <2>1. Call(t)' = Call(t) /\ Msg(t)' = m
    BY <1>2, Zenon DEF Call, Msg
  <2>2. InCall(t)'
    BY <1>1, <1>2, <2>1, Zenon DEF InCall
  <2> QED
    BY <1>1, <1>4, <2>1, <2>2, Zenon DEF Holding
<1>7. Fresh(t)'
  <2> SUFFICES ASSUME NEW a \in DOMAIN Calls[t], NEW j \in DOMAIN Calls[t][a].msgs, Todo(t, a, j)'
               PROVE  st'[Calls[t][a].msgs[j]] = "app" /\ Calls[t][a].msgs[j] \notin failed
    BY Zenon DEF Fresh
  <2>1. Todo(t, a, j) /\ ~(a = th[t].n + 1 /\ j = th[t].i + 1)
    <3>1. th[t].n \in Nat /\ th[t].i \in Nat
      BY <1>1 DEF Types
    <3>2. a > th[t].n + 1 \/ (a = th[t].n + 1 /\ j > th[t].i + 1)
      BY <1>2, Zenon DEF Todo
    <3> QED
      BY <3>1, <3>2 DEF Todo
  <2>2. Calls[t][a].msgs[j] # m /\ Calls[t][a].msgs[j] \in Msgs
    <3>1. \A b \in DOMAIN Calls[t] : \A l \in DOMAIN Calls[t][b].msgs :
             /\ Calls[t][b].msgs[l] \in Msgs
             /\ Calls[t][b].msgs[l] = m => b = th[t].n + 1 /\ l = th[t].i + 1
      BY <1>1, MsgFacts, CallFacts
    <3>2. Calls[t][a].msgs[j] \in Msgs
      BY <3>1, Zenon
    <3>3. Calls[t][a].msgs[j] = m => a = th[t].n + 1 /\ j = th[t].i + 1
      BY <3>1, Zenon
    <3> QED
      BY <2>1, <3>2, <3>3, Zenon
  <2>3. st[Calls[t][a].msgs[j]] = "app" /\ Calls[t][a].msgs[j] \notin failed
    BY <1>1, <2>1, Zenon DEF Fresh
  <2> QED
    BY <1>4, <2>2, <2>3, Zenon
<1> HIDE DEF m
<1>8. ThreadInv'
  <2>1. \A u \in Threads \ {t} : SameAt(u)
    BY <1>2, Zenon DEF SameAt
  <2>2. \A x \in Msgs \ {Msg(t)} : st'[x] = st[x] /\ (x \in failed' => x \in failed)
    BY <1>4, Zenon DEF m
  <2> QED
    BY <1>1, <1>6, <1>7, <2>1, <2>2, OthersKept, Zenon DEF QuotaInv
<1>9. Types'
  BY <1>1, <1>2, <1>3, <1>4, Zenon DEF Types, ThreadType
<1>10. ReportsApart' /\ Purging' /\ AllCalled' /\ Owes'
  <2>1. st'[m] # "gone"
    BY <1>4
  <2> QED
    BY <1>1, <1>4, <2>1, RestKept, Zenon DEF QuotaInv
<1> QED
  BY <1>3, <1>8, <1>9, <1>10, Zenon DEF QuotaInv

\* The queue is full and the call does not block: the message fails.
LEMMA QuotaAddFails ==
    ASSUME CallsAssumption, QuotaInv, NEW t \in Threads, th[t].pc = "add", NEW b \in BOOLEAN,
           th' = [th EXCEPT ![t] = [After(t) EXCEPT !.full = b]], failed' = failed \cup {Msg(t)},
           UNCHANGED <<curr, st, writer, rep, op, called, flush>>
    PROVE  QuotaInv'
<1> DEFINE r == [After(t) EXCEPT !.full = b]
<1>1. /\ th[t].pc # "idle" /\ Msg(t) \in Msgs /\ st[Msg(t)] = "app"
      /\ Types /\ ThreadInv /\ th \in [Threads -> ThreadType]
  BY AddFacts, Zenon DEF QuotaInv, Types, ThreadType
<1>2. r \in ThreadType /\ r.n = After(t).n /\ r.i = After(t).i /\ r.pc = After(t).pc
  BY <1>1, AfterType, Zenon
<1> HIDE DEF r
<1>3. /\ th' \in [Threads -> ThreadType] /\ th'[t] = r
      /\ \A u \in Threads : u # t => th'[u] = th[u]
  BY <1>1, <1>2, MoveFacts, Zenon DEF r
<1>4. ThreadInv'
  <2>1. \A u \in Threads \ {t} : SameAt(u)
    BY <1>3, Zenon DEF SameAt
  <2>2. \A m \in Msgs \ {Msg(t)} : st'[m] = st[m] /\ (m \in failed' => m \in failed)
    OBVIOUS
  <2>3. th'[t].n = After(t).n /\ th'[t].i = After(t).i /\ th'[t].pc = After(t).pc
    BY <1>2, <1>3, Zenon
  <2> QED
    BY <1>1, <2>1, <2>2, <2>3, GoesOn, Zenon
<1>5. ReportsApart' /\ Purging' /\ AllCalled' /\ Owes'
  <2>1. \A x \in Msgs : x # Msg(t) => st'[x] = st[x] /\ (x \in failed' <=> x \in failed)
    OBVIOUS
  <2>2. Msg(t) \in failed'
    OBVIOUS
  <2> QED
    BY <1>1, <2>1, <2>2, RestKept, Zenon DEF QuotaInv
<1>6. Types'
  <2>1. failed' \in SUBSET Msgs
    BY <1>1 DEF Types
  <2> QED
    BY <1>1, <1>3, <2>1, Zenon DEF Types, ThreadType
<1>7. CountExact'
  BY CountSame, Zenon DEF QuotaInv
<1> QED
  BY <1>4, <1>5, <1>6, <1>7, Zenon DEF QuotaInv

LEMMA QuotaAdd ==
    ASSUME CallsAssumption, QuotaInv, NEW t \in Threads, Add(t)
    PROVE  QuotaInv'
<1>1. th[t].pc = "add" /\ UNCHANGED <<writer, rep, op, called, flush>>
  BY Zenon DEF Add, Topic, Poll
<1>2. CASE /\ Fits(curr, Msg(t))
           /\ curr' = [cnt |-> curr.cnt + 1, size |-> curr.size + Size[Msg(t)]]
           /\ st' = [st EXCEPT ![Msg(t)] = "held"] /\ Step(t, "place") /\ failed' = failed
  BY <1>1, <1>2, QuotaAddFits, Zenon
<1>3. CASE Step(t, "wait") /\ UNCHANGED <<curr, st, failed>>
  <2>1. InCall(t) /\ Types /\ th[t].pc # "idle" /\ th[t].pc # "place"
    BY <1>1, AddFacts, Zenon DEF QuotaInv
  <2>2. th[t].n + 1 \in DOMAIN Calls[t] /\ th[t].i + 1 \in DOMAIN Calls[t][th[t].n + 1].msgs
    BY <2>1, MsgFacts
  <2> QED
    BY <1>1, <1>3, <2>1, <2>2, PcStep
<1>4. CASE /\ th' = [th EXCEPT ![t] = [After(t) EXCEPT !.full = @ \/ (Call(t).batch /\ After(t).i > 0)]]
           /\ failed' = failed \cup {Msg(t)} /\ UNCHANGED <<curr, st>>
  <2> DEFINE b == After(t).full \/ (Call(t).batch /\ After(t).i > 0)
  <2>1. th' = [th EXCEPT ![t] = [After(t) EXCEPT !.full = b]]
    BY <1>4
  <2>2. b \in BOOLEAN
    OBVIOUS
  <2> HIDE DEF b
  <2> QED
    BY <1>1, <1>4, <2>1, <2>2, QuotaAddFails, Zenon
<1> QED
  BY <1>2, <1>3, <1>4, Zenon DEF Add

\* A thread that places holds a message that is the library's.
LEMMA PlaceFacts ==
    ASSUME CallsAssumption, QuotaInv, NEW t \in Threads, th[t].pc = "place"
    PROVE  /\ th[t].pc # "idle" /\ Msg(t) \in Msgs /\ st[Msg(t)] = "held" /\ Msg(t) \notin failed
           /\ Types /\ ThreadInv /\ th \in [Threads -> ThreadType]
           /\ st \in [Msgs -> {"app", "held", "ua", "queued", "dr", "gone"}]
<1>1. InCall(t) /\ Holding(t) /\ Types /\ ThreadInv /\ th[t].pc # "idle"
  BY DEF QuotaInv, ThreadInv
<1>2. Msg(t) \in Msgs
  BY <1>1, MsgFacts
<1> QED
  BY <1>1, <1>2, Zenon DEF Holding, Types, ThreadType

LEMMA QuotaPlace ==
    ASSUME CallsAssumption, QuotaInv, NEW t \in Threads, Place(t)
    PROVE  QuotaInv'
<1> DEFINE v == IF known THEN "queued" ELSE "ua"
<1>1. /\ th[t].pc = "place" /\ st' = [st EXCEPT ![Msg(t)] = v] /\ th' = [th EXCEPT ![t] = After(t)]
      /\ UNCHANGED <<curr, failed, writer, rep, op, called, flush>>
  BY Zenon DEF Place, Topic, Poll
<1>2. /\ th[t].pc # "idle" /\ Msg(t) \in Msgs /\ st[Msg(t)] = "held"
      /\ Types /\ ThreadInv /\ th \in [Threads -> ThreadType]
      /\ st \in [Msgs -> {"app", "held", "ua", "queued", "dr", "gone"}]
  BY <1>1, PlaceFacts, Zenon
<1>3. v \in {"queued", "ua"}
  OBVIOUS
<1> HIDE DEF v
<1>4. /\ st' \in [Msgs -> {"app", "held", "ua", "queued", "dr", "gone"}] /\ st'[Msg(t)] = v
      /\ \A x \in Msgs : x # Msg(t) => st'[x] = st[x]
  <2>1. v \in {"app", "held", "ua", "queued", "dr", "gone"}
    BY <1>3
  <2> QED
    BY <1>1, <1>2, <2>1, MoveFacts, Zenon
<1>5. After(t) \in ThreadType
  BY <1>2, AfterType, Zenon
<1>6. /\ th' \in [Threads -> ThreadType] /\ th'[t] = After(t)
      /\ \A u \in Threads : u # t => th'[u] = th[u]
  BY <1>1, <1>2, <1>5, MoveFacts, Zenon
<1>7. ThreadInv'
  <2>1. \A u \in Threads \ {t} : SameAt(u)
    BY <1>6, Zenon DEF SameAt
  <2>2. \A m \in Msgs \ {Msg(t)} : st'[m] = st[m] /\ (m \in failed' => m \in failed)
    BY <1>1, <1>4, Zenon
  <2> QED
    BY <1>2, <1>6, <2>1, <2>2, GoesOn, Zenon
<1>8. ReportsApart' /\ Purging' /\ AllCalled' /\ Owes'
  <2>1. st'[Msg(t)] # "gone"
    BY <1>3, <1>4
  <2> QED
    BY <1>1, <1>2, <1>4, <2>1, RestKept, Zenon DEF QuotaInv
<1>9. Types'
  BY <1>1, <1>2, <1>4, <1>6, Zenon DEF Types, ThreadType
<1>10. CountExact'
  <2>1. \A m \in Msgs : st'[m] \in Library <=> st[m] \in Library
    BY <1>2, <1>3, <1>4 DEF Library
  <2> QED
    BY <1>1, <2>1, CountSame, Zenon DEF QuotaInv
<1> QED
  BY <1>7, <1>8, <1>9, <1>10, Zenon DEF QuotaInv

LEMMA QuotaRefuse ==
    ASSUME CallsAssumption, QuotaInv, NEW t \in Threads, Refuse(t)
    PROVE  QuotaInv'
<1> DEFINE W == Wake(curr, Msg(t))
<1>1. /\ th[t].pc = "place" /\ curr' = Minus(curr, Msg(t)) /\ st' = [st EXCEPT ![Msg(t)] = "gone"]
      /\ failed' = failed \cup {Msg(t)} /\ th' = [W EXCEPT ![t] = After(t)]
      /\ UNCHANGED <<writer, rep, op, called, flush>>
  BY Zenon DEF Refuse, Topic, Poll
<1>2. /\ th[t].pc # "idle" /\ Msg(t) \in Msgs /\ st[Msg(t)] = "held"
      /\ Types /\ ThreadInv
      /\ st \in [Msgs -> {"app", "held", "ua", "queued", "dr", "gone"}]
  BY <1>1, PlaceFacts, Zenon
<1>3. /\ st' \in [Msgs -> {"app", "held", "ua", "queued", "dr", "gone"}]
      /\ \A x \in Msgs : x # Msg(t) => st'[x] = st[x]
  <2>1. "gone" \in {"app", "held", "ua", "queued", "dr", "gone"}
    OBVIOUS
  <2> QED
    BY <1>1, <1>2, <2>1, MoveFacts, Zenon
<1>4. After(t) \in ThreadType
  BY <1>2, AfterType, Zenon
<1>5. W \in [Threads -> ThreadType]
  BY <1>2, WakeSame, Zenon DEF ThreadType
<1> HIDE DEF W
<1>6. /\ th' \in [Threads -> ThreadType] /\ th'[t] = After(t)
      /\ \A u \in Threads : u # t => th'[u] = W[u]
  BY <1>1, <1>4, <1>5, MoveFacts, Zenon
<1>7. ThreadInv'
  <2>1. \A u \in Threads \ {t} : SameAt(u)
    BY <1>2, <1>6, WakeSameAt, Zenon DEF W
  <2>2. \A m \in Msgs \ {Msg(t)} : st'[m] = st[m] /\ (m \in failed' => m \in failed)
    BY <1>1, <1>3
  <2> QED
    BY <1>2, <1>6, <2>1, <2>2, GoesOn, Zenon
<1>8. ReportsApart' /\ Purging' /\ AllCalled' /\ Owes'
  <2>1. \A x \in Msgs : x # Msg(t) => st'[x] = st[x] /\ (x \in failed' <=> x \in failed)
    BY <1>1, <1>3
  <2>2. Msg(t) \in failed'
    BY <1>1
  <2>3. st[Msg(t)] \in {"app", "held"}
    BY <1>2
  <2> QED
    BY <1>1, <1>2, <2>1, <2>2, <2>3, RestKept, Zenon DEF QuotaInv
<1>9. CountExact' /\ curr' \in [cnt : Int, size : Int]
  <2>1. st[Msg(t)] \in Library
    BY <1>2 DEF Library
  <2> QED
    BY <1>1, <1>2, <2>1, CountLess, Zenon DEF QuotaInv
<1>10. Types'
  <2>1. failed' \in SUBSET Msgs
    BY <1>1, <1>2 DEF Types
  <2> QED
    BY <1>1, <1>2, <1>3, <1>6, <1>9, <2>1, Zenon DEF Types, ThreadType
<1> QED
  BY <1>7, <1>8, <1>9, <1>10, Zenon DEF QuotaInv

-----------------------------------------------------------------------------
(* Delivery reports, purges and flushes.                                   *)

\* Accepted messages move on inside the library.
LEMMA InsideKept ==
    ASSUME CallsAssumption, QuotaInv, st' \in [Msgs -> {"app", "held", "ua", "queued", "dr", "gone"}],
           \A m \in Msgs : st'[m] = st[m] \/ (st[m] \in {"ua", "queued"} /\ st'[m] \in {"queued", "dr"}),
           UNCHANGED <<curr, th, failed, called, flush>>
    PROVE  ThreadInv' /\ AllCalled' /\ Owes' /\ CountExact'
<1>1. ThreadInv'
  <2>1. \A u \in Threads : SameAt(u)
    BY Zenon DEF SameAt
  <2>2. \A m \in Msgs : Untouched(m)
    BY DEF Untouched
  <2> QED
    BY <2>1, <2>2, AllKept, Zenon DEF QuotaInv
<1>2. AllCalled'
  <2>1. \A x \in Msgs : st'[x] = "gone" /\ x \notin failed' => st[x] = "gone" /\ x \notin failed
    OBVIOUS
  <2> QED
    BY <2>1, CalledKept, Zenon DEF QuotaInv
<1>3. Owes'
  <2>1. Onward
    BY DEF Onward
  <2> QED
    BY <2>1, OwesKept, Zenon DEF QuotaInv
<1>4. CountExact'
  <2>1. \A m \in Msgs : st'[m] \in Library <=> st[m] \in Library
    BY DEF Library
  <2> QED
    BY <2>1, CountSame, Zenon DEF QuotaInv
<1> QED
  BY <1>1, <1>2, <1>3, <1>4

\* An operation is made of accepted messages that had none.
LEMMA OpKeeps ==
    ASSUME CallsAssumption, QuotaInv, NEW q \in Seq(Msgs), Distinct(q),
           \A m \in Elems(q) : m \in Msgs /\ st[m] \in {"ua", "queued"} /\ st'[m] = "dr",
           \A m \in Msgs : m \notin Elems(q) => st'[m] = st[m] \/ (st[m] = "ua" /\ st'[m] = "queued"),
           writer # None => \A m \in Msgs : st[m] = "ua" => st'[m] = "ua",
           st' = [m \in Msgs |-> st'[m]],
           rep' = Append(rep, q), UNCHANGED <<curr, th, failed, writer, op, called, flush>>
    PROVE  QuotaInv'
<1>1. /\ Types /\ rep \in Seq(Seq(Msgs))
      /\ st \in [Msgs -> {"app", "held", "ua", "queued", "dr", "gone"}]
  BY Zenon DEF QuotaInv, Types
<1>2. st' \in [Msgs -> {"app", "held", "ua", "queued", "dr", "gone"}]
  <2>1. \A m \in Msgs : st'[m] \in {"app", "held", "ua", "queued", "dr", "gone"}
    BY <1>1
  <2> QED
    BY <2>1
<1>3. \A m \in Msgs : st'[m] = st[m] \/ (st[m] \in {"ua", "queued"} /\ st'[m] \in {"queued", "dr"})
  OBVIOUS
<1>4. ThreadInv' /\ AllCalled' /\ Owes' /\ CountExact'
  BY <1>2, <1>3, InsideKept, Zenon
<1>5. ReportsApart'
  <2>1. \A m \in Msgs : st[m] = "dr" => st'[m] = "dr"
    BY <1>3
  <2>2. \A m \in Elems(q) : m \in Msgs /\ st[m] # "dr" /\ st'[m] = "dr"
    OBVIOUS
  <2>3. Separate(rep, op, st)
    BY Zenon DEF QuotaInv, ReportsApart
  <2>4. Separate(Append(rep, q), op, st')
    BY <1>1, <2>1, <2>2, <2>3, ReportsAppend
  <2> QED
    BY <2>4, Zenon DEF ReportsApart
<1>6. Purging'
  BY Zenon DEF QuotaInv, Purging
<1>7. Types'
  <2>1. rep' \in Seq(Seq(Msgs))
    BY <1>1, AppendFacts, Zenon
  <2> QED
    BY <1>1, <1>2, <2>1, Zenon DEF Types
<1> QED
  BY <1>4, <1>5, <1>6, <1>7, Zenon DEF QuotaInv

\* A message whose report is not wanted, or was made, is destroyed.
LEMMA QuotaAnswer ==
    ASSUME CallsAssumption, QuotaInv, NEW S \in SUBSET Queued, NEW err \in BOOLEAN,
           NEW msgs \in Ordered(S), Answer(msgs, err)
    PROVE  QuotaInv'
<1>1. /\ Types /\ st \in [Msgs -> {"app", "held", "ua", "queued", "dr", "gone"}]
      /\ ThreadInv /\ CountExact /\ Owes
  BY Zenon DEF QuotaInv, Types
<1>2. S \in SUBSET Msgs /\ \A m \in S : st[m] = "queued"
  BY DEF Queued
<1>3. msgs \in Seq(Msgs) /\ Distinct(msgs) /\ Elems(msgs) \subseteq S
  BY <1>2, OrderedFacts
<1>4. \A m \in Elems(msgs) : m \in Msgs /\ st[m] = "queued"
  BY <1>2, <1>3
<1>5. UNCHANGED <<writer, failed, op, called, flush>> /\ msgs # <<>>
  BY Zenon DEF Answer, Topic
<1>6. CASE Wanted(err)
  <2>1. /\ st' = [m \in Msgs |-> IF m \in Elems(msgs) THEN "dr" ELSE st[m]]
        /\ rep' = Append(rep, msgs) /\ UNCHANGED <<curr, th>>
    BY <1>6, Zenon DEF Answer, Op, Range, Elems
  <2>2. /\ \A m \in Elems(msgs) : m \in Msgs /\ st[m] \in {"ua", "queued"} /\ st'[m] = "dr"
        /\ \A m \in Msgs : m \notin Elems(msgs) => st'[m] = st[m]
    BY <1>4, <2>1
  <2>3. \A m \in Msgs : st[m] = "ua" => st'[m] = "ua"
    BY <1>4, <2>1
  <2>4. st' = [m \in Msgs |-> st'[m]]
    BY <2>1
  <2> QED
    BY <1>3, <1>5, <2>1, <2>2, <2>3, <2>4, OpKeeps, Zenon
<1>7. CASE ~Wanted(err)
  <2> DEFINE m == msgs[1]
  <2>1. Destroy(m, TRUE) /\ rep' = rep
    BY <1>7, Zenon DEF Answer
  <2>2. m \in Msgs /\ st[m] = "queued"
    <3>1. msgs[1] \in Elems(msgs)
      BY <1>3, <1>5 DEF Elems
    <3> QED
      BY <1>4, <3>1
  <2> HIDE DEF m
  <2>3. st[m] \in {"ua", "queued", "dr"}
    BY <2>2
  <2>4. /\ ThreadInv' /\ CountExact' /\ Owes' /\ curr' \in [cnt : Int, size : Int]
        /\ th' \in [Threads -> ThreadType]
        /\ st' \in [Msgs -> {"app", "held", "ua", "queued", "dr", "gone"}]
        /\ st'[m] = "gone" /\ \A x \in Msgs : x # m => st'[x] = st[x]
    BY <1>1, <1>5, <2>1, <2>2, <2>3, DestroyKeeps, Zenon DEF ThreadType
  <2>5. ReportsApart'
    <3>1. \A x \in Msgs : st[x] = "dr" => st'[x] = "dr"
      BY <2>2, <2>4
    <3> QED
      BY <1>5, <2>1, <3>1, ReportsKept, Zenon DEF QuotaInv, ReportsApart
  <2>6. Purging'
    <3>1. \A x \in Msgs : st[x] = "ua" => st'[x] = "ua"
      BY <2>2, <2>4
    <3> QED
      BY <1>5, <3>1, PurgingKept, Zenon DEF QuotaInv
  <2>7. AllCalled'
    <3>1. ~(Reports /\ ~ErrOnly)
      BY <1>7, Zenon DEF Wanted
    <3> QED
      BY <3>1, Zenon DEF AllCalled
  <2>8. Types'
    BY <1>1, <1>5, <2>1, <2>4, Zenon DEF Types, ThreadType
  <2> QED
    BY <2>4, <2>5, <2>6, <2>7, <2>8, Zenon DEF QuotaInv
<1> QED
  BY <1>6, <1>7

LEMMA QuotaMetadata ==
    ASSUME CallsAssumption, QuotaInv, Metadata
    PROVE  QuotaInv'
<1> DEFINE S == {m \in Msgs : st[m] = "ua" /\ m \in Bad}
<1>1. PICK bad \in Ordered(S) : FailBad(bad)
  BY Zenon DEF Metadata
<1>2. writer = None /\ UNCHANGED <<curr, th, failed, op, called, flush>>
  BY Zenon DEF Metadata
<1>3. S \in SUBSET Msgs
  OBVIOUS
<1>4. bad \in Seq(Msgs) /\ Distinct(bad) /\ Elems(bad) \subseteq S
  BY <1>3, OrderedFacts
<1>5. \A m \in Elems(bad) : m \in Msgs /\ st[m] = "ua" /\ m \in Bad
  BY <1>4
<1> HIDE DEF S
<1>6. Types /\ st \in [Msgs -> {"app", "held", "ua", "queued", "dr", "gone"}]
  BY Zenon DEF QuotaInv, Types
<1>7. CASE bad # <<>> /\ Wanted(TRUE)
  <2>1. /\ st' = [m \in Msgs |-> IF m \in Elems(bad) THEN "dr" ELSE Placed[m]]
        /\ rep' = Append(rep, bad) /\ writer' = writer
    BY <1>1, <1>7, Zenon DEF FailBad, Range, Elems
  <2>2. \A m \in Msgs : Placed[m] = st[m] \/ (st[m] = "ua" /\ Placed[m] = "queued")
    BY DEF Placed
  <2>3. /\ \A m \in Elems(bad) : m \in Msgs /\ st[m] \in {"ua", "queued"} /\ st'[m] = "dr"
        /\ \A m \in Msgs : m \notin Elems(bad) => st'[m] = st[m] \/ (st[m] = "ua" /\ st'[m] = "queued")
    BY <1>5, <2>1, <2>2
  <2>4. st' = [m \in Msgs |-> st'[m]]
    BY <2>1
  <2> QED
    BY <1>2, <1>4, <2>1, <2>3, <2>4, OpKeeps, Zenon
<1>8. CASE ~(bad # <<>> /\ Wanted(TRUE))
  <2>1. st' = Placed /\ writer' = (IF bad = <<>> THEN None ELSE bad) /\ rep' = rep
    BY <1>1, <1>8, Zenon DEF FailBad
  <2>2. st' \in [Msgs -> {"app", "held", "ua", "queued", "dr", "gone"}]
    BY <1>6, <2>1 DEF Placed
  <2>3. /\ \A m \in Msgs : st'[m] = st[m] \/ (st[m] = "ua" /\ st'[m] = "queued")
        /\ \A m \in Msgs : m \in Bad => st'[m] = st[m]
    BY <2>1 DEF Placed
  <2>4. \A m \in Msgs : st'[m] = st[m] \/ (st[m] \in {"ua", "queued"} /\ st'[m] \in {"queued", "dr"})
    BY <2>3
  <2>5. ThreadInv' /\ AllCalled' /\ Owes' /\ CountExact'
    BY <1>2, <2>2, <2>4, InsideKept, Zenon
  <2>6. ReportsApart'
    <3>1. \A x \in Msgs : st[x] = "dr" => st'[x] = "dr"
      BY <2>3
    <3> QED
      BY <1>2, <2>1, <3>1, ReportsKept, Zenon DEF QuotaInv, ReportsApart
  <2>7. Purging'
    <3> SUFFICES ASSUME writer' # None
                 PROVE  /\ writer' \in Seq(Msgs) /\ writer' # <<>> /\ Distinct(writer')
                        /\ \A m \in Elems(writer') : m \in Msgs /\ st'[m] = "ua"
                        /\ ~(Reports /\ ~ErrOnly)
      BY Zenon DEF Purging, Distinct, Elems
    <3>1. bad # <<>> /\ writer' = bad
      BY <2>1, Zenon
    <3>2. \A m \in Elems(bad) : m \in Msgs /\ st'[m] = "ua"
      BY <1>5, <2>3, Zenon
    <3>3. ~Reports
      BY <1>8, <3>1, Zenon DEF Wanted
    <3> QED
      BY <1>4, <3>1, <3>2, <3>3, Zenon
  <2>8. Types'
    BY <1>2, <1>6, <2>1, <2>2, Zenon DEF Types
  <2> QED
    BY <2>5, <2>6, <2>7, <2>8, Zenon DEF QuotaInv
<1> QED
  BY <1>7, <1>8, Zenon

LEMMA QuotaPurge ==
    ASSUME CallsAssumption, QuotaInv, Purge
    PROVE  QuotaInv'
<1> DEFINE m == Head(writer)
<1>1. /\ writer # None /\ Destroy(m, TRUE) /\ writer' = (IF Len(writer) = 1 THEN None ELSE Tail(writer))
      /\ UNCHANGED <<failed, rep, op, called, flush>>
  BY Zenon DEF Purge, Poll
<1>2. /\ writer \in Seq(Msgs) /\ writer # <<>> /\ Distinct(writer)
      /\ \A x \in Elems(writer) : x \in Msgs /\ st[x] = "ua"
      /\ ~(Reports /\ ~ErrOnly)
  BY <1>1, Zenon DEF QuotaInv, Purging
<1>3. /\ m \in Elems(writer) /\ Tail(writer) \in Seq(Msgs) /\ Elems(Tail(writer)) \subseteq Elems(writer)
      /\ Distinct(Tail(writer)) /\ m \notin Elems(Tail(writer))
  BY <1>2, TailFacts, Zenon
<1> HIDE DEF m
<1>4. m \in Msgs /\ st[m] = "ua" /\ st[m] \in {"ua", "queued", "dr"}
  BY <1>2, <1>3
<1>5. Types /\ ThreadInv /\ CountExact /\ Owes
  BY Zenon DEF QuotaInv
<1>6. /\ ThreadInv' /\ CountExact' /\ Owes' /\ curr' \in [cnt : Int, size : Int]
      /\ th' \in [Threads -> ThreadType]
      /\ st' \in [Msgs -> {"app", "held", "ua", "queued", "dr", "gone"}]
      /\ st'[m] = "gone" /\ \A x \in Msgs : x # m => st'[x] = st[x]
  BY <1>1, <1>4, <1>5, DestroyKeeps, Zenon DEF ThreadType
<1>7. ReportsApart'
  <2>1. \A x \in Msgs : st[x] = "dr" => st'[x] = "dr"
    BY <1>4, <1>6
  <2> QED
    BY <1>1, <2>1, ReportsKept, Zenon DEF QuotaInv, ReportsApart
<1>8. Purging'
  <2> SUFFICES ASSUME writer' # None
               PROVE  /\ writer' \in Seq(Msgs) /\ writer' # <<>> /\ Distinct(writer')
                      /\ \A x \in Elems(writer') : x \in Msgs /\ st'[x] = "ua"
                      /\ ~(Reports /\ ~ErrOnly)
    BY Zenon DEF Purging, Distinct, Elems
  <2>1. writer' = Tail(writer) /\ Len(writer) # 1
    BY <1>1, Zenon
  <2>2. Tail(writer) # <<>>
    <3>1. Len(writer) \in Nat \ {0} /\ Len(Tail(writer)) = Len(writer) - 1
      BY <1>2
    <3>2. Len(Tail(writer)) # 0
      BY <2>1, <3>1
    <3>3. Len(<<>>) = 0
      OBVIOUS
    <3> QED
      BY <3>2, <3>3, Zenon
  <2>3. \A x \in Elems(Tail(writer)) : x \in Msgs /\ st'[x] = "ua"
    <3> SUFFICES ASSUME NEW x \in Elems(Tail(writer)) PROVE x \in Msgs /\ st'[x] = "ua"
      BY Zenon
    <3>1. x \in Elems(writer) /\ x # m
      BY <1>3
    <3> QED
      BY <1>2, <1>6, <3>1, Zenon
  <2> QED
    BY <1>2, <1>3, <2>1, <2>2, <2>3, Zenon
<1>9. AllCalled'
  BY <1>2, Zenon DEF AllCalled
<1>10. Types'
  BY <1>1, <1>5, <1>6, Zenon DEF Types, ThreadType
<1> QED
  BY <1>6, <1>7, <1>8, <1>9, <1>10, Zenon DEF QuotaInv

LEMMA QuotaTake ==
    ASSUME CallsAssumption, QuotaInv, NEW p \in Pollers, Take(p)
    PROVE  QuotaInv'
<1>1. /\ rep # <<>> /\ op' = [op EXCEPT ![p] = Head(rep)] /\ rep' = Tail(rep)
      /\ UNCHANGED <<curr, th, writer, st, failed, called, flush>>
  BY Zenon DEF Take, Topic
<1>2. Types /\ rep \in Seq(Seq(Msgs)) /\ op \in [Pollers -> Seq(Msgs)] /\ Separate(rep, op, st)
  BY Zenon DEF QuotaInv, Types, ReportsApart
<1>3. Separate(Tail(rep), [op EXCEPT ![p] = Head(rep)], st)
  BY <1>1, <1>2, ReportsTake, Zenon
<1>4. ReportsApart'
  BY <1>1, <1>3, Zenon DEF ReportsApart
<1>5. Head(rep) \in Seq(Msgs) /\ Tail(rep) \in Seq(Seq(Msgs))
  BY <1>1, <1>2, TailFacts, Zenon
<1>6. op' \in [Pollers -> Seq(Msgs)]
  BY <1>1, <1>2, <1>5, MoveFacts, Zenon
<1>7. Types'
  BY <1>1, <1>2, <1>5, <1>6, Zenon DEF Types
<1>8. ThreadInv'
  <2>1. (\A u \in Threads : SameAt(u)) /\ \A m \in Msgs : Untouched(m)
    BY <1>1, Zenon DEF SameAt, Untouched
  <2> QED
    BY <2>1, AllKept, Zenon DEF QuotaInv
<1>9. Purging' /\ AllCalled' /\ Owes'
  BY <1>1, Zenon DEF QuotaInv, Purging, AllCalled, Owes
<1>10. CountExact'
  BY <1>1, CountSame, Zenon DEF QuotaInv
<1> QED
  BY <1>4, <1>7, <1>8, <1>9, <1>10, Zenon DEF QuotaInv

LEMMA QuotaCallback ==
    ASSUME CallsAssumption, QuotaInv, NEW p \in Pollers, NEW yield \in BOOLEAN, Callback(p, yield)
    PROVE  QuotaInv'
<1> DEFINE m == Head(op[p])
           h == [op EXCEPT ![p] = Tail(@)]
<1>1. /\ op[p] # <<>> /\ called' = Append(called, m) /\ Destroy(m, TRUE)
      /\ op' = [op EXCEPT ![p] = IF yield THEN <<>> ELSE Tail(@)]
      /\ rep' = (IF yield THEN Reenq(Tail(op[p])) ELSE rep)
      /\ UNCHANGED <<failed, writer, flush>>
  BY Zenon DEF Callback, Topic
<1>2. /\ Types /\ ThreadInv /\ CountExact /\ Owes
      /\ rep \in Seq(Seq(Msgs)) /\ op \in [Pollers -> Seq(Msgs)] /\ called \in Seq(Msgs)
      /\ Separate(rep, op, st)
  BY Zenon DEF QuotaInv, Types, ReportsApart
<1>3. op[p] \in Seq(Msgs) /\ m \in Elems(op[p]) /\ Tail(op[p]) \in Seq(Msgs)
  <2>1. op[p] \in Seq(Msgs)
    BY <1>2
  <2> QED
    BY <1>1, <2>1, TailFacts, Zenon
<1>4. m \in Msgs /\ st[m] = "dr" /\ st[m] \in {"ua", "queued", "dr"}
  <2>1. Waits(op[p], st)
    BY <1>2, Zenon DEF Separate
  <2>2. m \in Msgs /\ st[m] = "dr"
    BY <1>3, <2>1, Zenon DEF Waits
  <2> QED
    BY <2>2
<1>5. /\ ThreadInv' /\ CountExact' /\ Owes' /\ curr' \in [cnt : Int, size : Int]
      /\ th' \in [Threads -> ThreadType]
      /\ st' \in [Msgs -> {"app", "held", "ua", "queued", "dr", "gone"}]
      /\ st'[m] = "gone" /\ \A x \in Msgs : x # m => st'[x] = st[x]
  BY <1>1, <1>2, <1>4, DestroyKeeps, Zenon DEF ThreadType
<1>6. Separate(rep, h, st')
  BY <1>1, <1>2, <1>5, ReportsDone, Zenon
<1>7. h \in [Pollers -> Seq(Msgs)] /\ h[p] = Tail(op[p])
  BY <1>2, <1>3
<1>8. ReportsApart' /\ op' \in [Pollers -> Seq(Msgs)] /\ rep' \in Seq(Seq(Msgs))
  <2>1. CASE ~yield
    <3>1. op' = h /\ rep' = rep
      BY <1>1, <2>1
    <3> QED
      BY <1>2, <1>6, <1>7, <3>1, Zenon DEF ReportsApart
  <2>2. CASE yield
    <3> HIDE DEF m
    <3>1. op' = [h EXCEPT ![p] = <<>>]
      BY <1>1, <1>2, <2>2, Zenon
    <3> HIDE DEF h
    <3>2. /\ Separate(rep, [h EXCEPT ![p] = <<>>], st')
          /\ Separate(<<h[p]>> \o rep, [h EXCEPT ![p] = <<>>], st')
      BY <1>2, <1>6, <1>7, ReportsReenq, Zenon
    <3>3. rep' = rep \/ rep' = <<h[p]>> \o rep
      BY <1>1, <1>7, <2>2, Zenon DEF Reenq
    <3>4. op' \in [Pollers -> Seq(Msgs)]
      BY <1>7, <3>1
    <3>5. rep' \in Seq(Seq(Msgs))
      <4>1. h[p] \in Seq(Msgs)
        BY <1>3, <1>7, Zenon
      <4>2. <<h[p]>> \o rep \in Seq(Seq(Msgs))
        BY <1>2, <4>1, ConsFacts, Zenon
      <4> QED
        BY <1>2, <3>3, <4>2, Zenon
    <3> QED
      BY <3>1, <3>2, <3>3, <3>4, <3>5, Zenon DEF ReportsApart
  <2> QED
    BY <2>1, <2>2
<1> HIDE DEF m, h
<1>9. Purging'
  <2>1. \A x \in Msgs : st[x] = "ua" => st'[x] = "ua"
    BY <1>4, <1>5
  <2> QED
    BY <1>1, <2>1, PurgingKept, Zenon DEF QuotaInv
<1>10. called' \in Seq(Msgs) /\ m \in Elems(called') /\ Elems(called) \subseteq Elems(called')
  BY <1>1, <1>2, <1>4, AppendFacts, Zenon
<1>11. AllCalled'
  <2> SUFFICES ASSUME Reports /\ ~ErrOnly, NEW x \in Msgs, st'[x] = "gone", x \notin failed'
               PROVE  x \in Elems(called')
    BY Zenon DEF AllCalled, Elems
  <2>1. CASE x = m
    BY <1>10, <2>1
  <2>2. CASE x # m
    <3>1. st[x] = "gone" /\ x \notin failed
      BY <1>1, <1>5, <2>2, Zenon
    <3>2. x \in Elems(called)
      BY <3>1, Zenon DEF QuotaInv, AllCalled
    <3> QED
      BY <1>10, <3>2
  <2> QED
    BY <2>1, <2>2
<1>12. Types'
  BY <1>1, <1>2, <1>5, <1>8, <1>10, Zenon DEF Types, ThreadType
<1> QED
  BY <1>5, <1>8, <1>9, <1>11, <1>12, Zenon DEF QuotaInv

\* Only the flushes change.
LEMMA QuotaFlushes ==
    ASSUME CallsAssumption, QuotaInv, NEW p \in Pollers,
           NEW f \in [n : Nat, in : BOOLEAN, owed : SUBSET Msgs, ok : BOOLEAN],
           flush' = [flush EXCEPT ![p] = f],
           \A m \in f.owed : /\ st[m] \in {"ua", "queued", "dr", "gone"} /\ m \notin failed
                             /\ f.ok => st[m] = "gone",
           UNCHANGED <<curr, th, writer, st, failed, rep, op, called>>
    PROVE  QuotaInv'
<1> DEFINE R == [n : Nat, in : BOOLEAN, owed : SUBSET Msgs, ok : BOOLEAN]
<1>1. Types /\ flush \in [Pollers -> R]
  BY Zenon DEF QuotaInv, Types
<1> HIDE DEF R
<1>2. f \in R
  BY DEF R
<1>3. flush' \in [Pollers -> R] /\ flush'[p] = f /\ \A r \in Pollers : r # p => flush'[r] = flush[r]
  BY <1>1, <1>2, MoveFacts, Zenon
<1>4. Owes'
  <2> SUFFICES ASSUME NEW r \in Pollers, NEW m \in flush'[r].owed
               PROVE  /\ st[m] \in {"ua", "queued", "dr", "gone"} /\ m \notin failed
                      /\ flush'[r].ok => st[m] = "gone"
    BY Zenon DEF Owes
  <2>1. CASE r = p
    BY <1>3, <2>1, Zenon
  <2>2. CASE r # p
    BY <1>3, <2>2, Zenon DEF QuotaInv, Owes
  <2> QED
    BY <2>1, <2>2
<1>5. Types'
  BY <1>1, <1>3, Zenon DEF Types, R
<1>6. ThreadInv'
  <2>1. (\A u \in Threads : SameAt(u)) /\ \A m \in Msgs : Untouched(m)
    BY Zenon DEF SameAt, Untouched
  <2> QED
    BY <1>1, <2>1, AllKept, Zenon DEF QuotaInv
<1>7. ReportsApart' /\ Purging' /\ AllCalled'
  BY Zenon DEF QuotaInv, ReportsApart, Purging, AllCalled
<1>8. CountExact'
  BY CountSame, Zenon DEF QuotaInv
<1> QED
  BY <1>4, <1>5, <1>6, <1>7, <1>8, Zenon DEF QuotaInv

LEMMA QuotaFlush ==
    ASSUME CallsAssumption, QuotaInv, NEW p \in Pollers, Flush(p)
    PROVE  QuotaInv'
<1> DEFINE f == [n |-> flush[p].n + 1, in |-> TRUE, owed |-> Accepted, ok |-> FALSE]
<1>1. flush[p].n \in Nat /\ p \in DOMAIN flush
  BY DEF QuotaInv, Types
<1>2. flush' = [flush EXCEPT ![p] = f] /\ UNCHANGED <<curr, th, writer, st, failed, rep, op, called>>
  BY <1>1 DEF Flush, Topic
<1>3. Accepted \in SUBSET Msgs
  BY DEF Accepted
<1>4. f \in [n : Nat, in : BOOLEAN, owed : SUBSET Msgs, ok : BOOLEAN] /\ f.owed = Accepted /\ f.ok = FALSE
  BY <1>1, <1>3
<1> HIDE DEF f
<1>5. \A m \in f.owed : /\ st[m] \in {"ua", "queued", "dr", "gone"} /\ m \notin failed
                        /\ f.ok => st[m] = "gone"
  BY <1>4, Zenon DEF Accepted
<1> QED
  BY <1>2, <1>4, <1>5, QuotaFlushes, Zenon

\* The count is exact: at zero nothing accepted is left in the library.
LEMMA QuotaFlushReturn ==
    ASSUME CallsAssumption, QuotaInv, NEW p \in Pollers, FlushReturn(p)
    PROVE  QuotaInv'
<1> DEFINE R == [n : Nat, in : BOOLEAN, owed : SUBSET Msgs, ok : BOOLEAN]
           f == [flush[p] EXCEPT !.in = FALSE, !.ok = TRUE]
<1>1. flush \in [Pollers -> R] /\ flush[p] \in R
  BY DEF QuotaInv, Types
<1>2. curr.cnt = 0 /\ UNCHANGED <<curr, th, writer, st, failed, rep, op, called>>
  BY Zenon DEF FlushReturn, Flushed, Topic
<1>3. flush' = [flush EXCEPT ![p] = f]
  BY <1>1, Zenon DEF FlushReturn
<1>4. f \in R /\ f.owed = flush[p].owed /\ f.owed \in SUBSET Msgs
  BY <1>1, Zenon
<1> HIDE DEF f
<1>5. InLibrary = {}
  <2>1. IsFiniteSet(InLibrary) /\ Cardinality(InLibrary) = 0
    BY <1>2, CountFacts, Zenon DEF QuotaInv, CountExact
  <2> QED
    BY <2>1, FS_EmptySet, Zenon
<1>6. \A m \in f.owed : /\ st[m] \in {"ua", "queued", "dr", "gone"} /\ m \notin failed
                        /\ f.ok => st[m] = "gone"
  <2> SUFFICES ASSUME NEW m \in f.owed
               PROVE  st[m] \in {"ua", "queued", "dr", "gone"} /\ m \notin failed /\ st[m] = "gone"
    BY Zenon
  <2>1. st[m] \in {"ua", "queued", "dr", "gone"} /\ m \notin failed
    BY <1>4, Zenon DEF QuotaInv, Owes
  <2>2. m \in Msgs /\ m \notin InLibrary
    BY <1>4, <1>5
  <2> QED
    BY <2>1, <2>2 DEF InLibrary
<1> QED
  BY <1>2, <1>3, <1>4, <1>6, QuotaFlushes, Zenon

-----------------------------------------------------------------------------
LEMMA QuotaInit ==
    ASSUME CallsAssumption, Init
    PROVE  QuotaInv
<1>1. Types
  BY DEF Init, Types
<1>2. ThreadInv
  <2> SUFFICES ASSUME NEW t \in Threads PROVE InCall(t) /\ Fresh(t) /\ Holding(t)
    BY Zenon DEF ThreadInv
  <2>1. th[t].pc = "idle" /\ th[t].i = 0
    BY DEF Init
  <2>2. \A m \in Msgs : st[m] = "app" /\ m \notin failed
    BY DEF Init
  <2>3. Fresh(t)
    BY <2>2, CallFacts, Zenon DEF Fresh
  <2> QED
    BY <2>1, <2>3 DEF InCall, Holding
<1>3. ReportsApart
  <2>1. rep = <<>> /\ \A p \in Pollers : op[p] = <<>>
    BY DEF Init
  <2>2. DOMAIN rep = {} /\ Elems(<<>>) = {} /\ Distinct(<<>>)
    BY <2>1 DEF Elems, Distinct
  <2> QED
    BY <2>1, <2>2, Zenon DEF ReportsApart, Separate, Waits, Apart
<1>4. Purging
  BY Zenon DEF Init, Purging
<1>5. AllCalled
  BY DEF Init, AllCalled
<1>6. Owes
  BY DEF Init, Owes
<1>7. CountExact
  <2>1. InLibrary = {}
    BY DEF Init, InLibrary
  <2>2. Cardinality({}) = 0
    BY FS_EmptySet
  <2>3. curr.cnt = 0 /\ curr.size = 0
    BY DEF Init
  <2>4. 0 <= MaxCnt /\ 0 <= MaxSize
    BY DEF CallsAssumption
  <2> QED
    BY <2>1, <2>2, <2>3, <2>4, Zenon DEF CountExact
<1> QED
  BY <1>1, <1>2, <1>3, <1>4, <1>5, <1>6, <1>7, Zenon DEF QuotaInv

LEMMA QuotaStutter ==
    ASSUME CallsAssumption, QuotaInv, UNCHANGED vars
    PROVE  QuotaInv'
<1>1. UNCHANGED <<curr, th, writer, st, failed, rep, op, called, flush>>
  BY Zenon DEF vars
<1>2. Types' /\ Purging' /\ AllCalled' /\ Owes'
  BY <1>1, Zenon DEF QuotaInv, Types, Purging, AllCalled, Owes
<1>3. ThreadInv'
  <2>1. (\A u \in Threads : SameAt(u)) /\ \A m \in Msgs : Untouched(m)
    BY <1>1, Zenon DEF SameAt, Untouched
  <2> QED
    BY <2>1, AllKept, Zenon DEF QuotaInv
<1>4. ReportsApart' /\ CountExact'
  BY <1>1, CountSame, Zenon DEF QuotaInv, ReportsApart
<1> QED
  BY <1>2, <1>3, <1>4, Zenon DEF QuotaInv

LEMMA QuotaNext ==
    ASSUME CallsAssumption, QuotaInv, [Next]_vars
    PROVE  QuotaInv'
<1>1. CASE \E t \in Threads : Produce(t)
  <2>1. PICK t \in Threads : Produce(t)
    BY <1>1, Zenon
  <2>2. CASE Start(t)
    BY <2>2, QuotaStart, Zenon
  <2>3. CASE Add(t)
    BY <2>3, QuotaAdd, Zenon
  <2>4. CASE Woken(t) \/ Rdlock(t)
    BY <2>4, QuotaWoken, Zenon
  <2>5. CASE Place(t)
    BY <2>5, QuotaPlace, Zenon
  <2>6. CASE Refuse(t)
    BY <2>6, QuotaRefuse, Zenon
  <2> QED
    BY <2>1, <2>2, <2>3, <2>4, <2>5, <2>6, Zenon DEF Produce
<1>2. CASE Broker
  BY <1>2, QuotaAnswer, Zenon DEF Broker
<1>3. CASE Metadata
  BY <1>3, QuotaMetadata, Zenon
<1>4. CASE Purge
  BY <1>4, QuotaPurge, Zenon
<1>5. CASE \E p \in Pollers : Serve(p) \/ Flush(p)
  BY <1>5, QuotaTake, QuotaCallback, QuotaFlush, QuotaFlushReturn, Zenon DEF Serve
<1>6. CASE UNCHANGED vars
  BY <1>6, QuotaStutter, Zenon
<1> QED
  BY <1>1, <1>2, <1>3, <1>4, <1>5, <1>6, Zenon DEF Next

LEMMA QuotaInvariant ==
    ASSUME CallsAssumption
    PROVE  Spec => []QuotaInv
<1>1. Init => QuotaInv
  BY QuotaInit
<1>2. QuotaInv /\ [Next]_vars => QuotaInv'
  BY QuotaNext
<1> QED
  BY <1>1, <1>2, PTL DEF Spec

\* rk_curr_msgs counts exactly the messages accepted and not yet destroyed,
\* and neither limit is exceeded, with any number of producing and polling
\* threads, batches that fail half way, purges, and callbacks that yield
\* (rd_kafka_curr_msgs_add, rd_kafka_curr_msgs_sub, rd_kafka_msg_destroy).
THEOREM QuotaCountExact ==
    ASSUME CallsAssumption
    PROVE  Spec => []CountExact
<1>1. QuotaInv => CountExact
  BY Zenon DEF QuotaInv
<1> QED
  BY <1>1, QuotaInvariant, PTL

\* When rd_kafka_flush succeeds every message accepted before the call has
\* left the library, and has had its callback where every message gets one,
\* although other threads serve, yield and produce meanwhile.
THEOREM QuotaFlushComplete ==
    ASSUME CallsAssumption
    PROVE  Spec => []FlushComplete
<1>1. QuotaInv => FlushComplete
  <2> SUFFICES ASSUME QuotaInv, NEW p \in Pollers, flush[p].ok, NEW m \in flush[p].owed
               PROVE  st[m] = "gone" /\ (Reports /\ ~ErrOnly => m \in Range(called))
    BY Zenon DEF FlushComplete
  <2>1. st[m] = "gone" /\ m \notin failed
    BY Zenon DEF QuotaInv, Owes
  <2>2. m \in Msgs
    BY DEF QuotaInv, Types
  <2>3. Reports /\ ~ErrOnly => m \in Elems(called)
    BY <2>1, <2>2, Zenon DEF QuotaInv, AllCalled
  <2>4. Elems(called) = Range(called)
    BY Zenon DEF Elems, Range
  <2> QED
    BY <2>1, <2>3, <2>4, Zenon
<1> QED
  BY <1>1, QuotaInvariant, PTL

=============================================================================
