-------------------------- MODULE TimerQueueProofs --------------------------
(* What TLAPS proves of TimerQueue, for any connections, any timeout, any  *)
(* size of a batch and any number of timers.                               *)
EXTENDS TimerQueue, FiniteSetTheorems, TLAPS

TimerRec == [left : -1..Timeout, conn : Conns]
TimersType == UNION {[ids -> TimerRec] : ids \in SUBSET Id}

(* The timers of a queue are a function on some of the ids.                *)
LEMMA TimersAre ==
  \A f : f \in TimersType <=> (DOMAIN f \subseteq Id /\ f \in [DOMAIN f -> TimerRec])
<1> SUFFICES ASSUME NEW f
             PROVE  f \in TimersType <=> (DOMAIN f \subseteq Id /\ f \in [DOMAIN f -> TimerRec])
  OBVIOUS
<1>1. ASSUME f \in TimersType PROVE DOMAIN f \subseteq Id /\ f \in [DOMAIN f -> TimerRec]
  BY <1>1 DEF TimersType
<1>2. ASSUME DOMAIN f \subseteq Id, f \in [DOMAIN f -> TimerRec] PROVE f \in TimersType
  BY <1>2 DEF TimersType
<1> QED
  BY <1>1, <1>2

(* The type of a queue, with the bounds of its fields spelled out.         *)
LEMMA QueueTypeIs ==
  QueueType = [timers : TimersType, timerId : 0..MaxId, alarm : 0..Timeout,
               ticks : BOOLEAN, edge : BOOLEAN]
  BY DEF QueueType, TimersType, TimerRec

(* A set of ids has a least one.                                           *)
LEMMA LeastId ==
  ASSUME NEW S \in SUBSET Id, S # {}
  PROVE  \E i \in S : \A j \in S : i <= j
<1> DEFINE R == {p \in Nat \X Nat : p[1] < p[2]}
<1>1. IsWellFoundedOn(R, Nat)
  BY NatLessThanWellFounded DEF OpToRel
<1>2. S \subseteq Nat
  BY TimerQueueAssumption DEF Id
<1> HIDE DEF R
<1>3. PICK i \in S : \A j \in S : ~(<<j, i>> \in R)
  BY <1>1, <1>2, WFMin
<1>4. \A j \in S : ~(j < i)
  BY <1>2, <1>3 DEF R
<1> QED
  BY <1>2, <1>4

-----------------------------------------------------------------------------
(* The clock is set to the first timer, or has already fired for it.       *)
ClockOK(t) ==
  \A i \in DOMAIN t.timers :
    (\A j \in DOMAIN t.timers : i <= j)
      => IF t.timers[i].left > 0 THEN t.alarm = t.timers[i].left ELSE t.ticks

(* refreshClock sets it, and a clock that fires puts the channel on the    *)
(* ready list.                                                             *)
LEMMA RefreshClock ==
  ASSUME NEW t \in QueueType
  PROVE  LET r == refreshClock(t)
         IN  /\ r \in QueueType /\ r.timers = t.timers /\ r.timerId = t.timerId
             /\ ClockOK(r) /\ (r.ticks => r.edge)
<1> DEFINE r == refreshClock(t)
<1>1. /\ t \in [timers : TimersType, timerId : 0..MaxId, alarm : 0..Timeout,
               ticks : BOOLEAN, edge : BOOLEAN]
      /\ DOMAIN t.timers \subseteq Id /\ t.timers \in [DOMAIN t.timers -> TimerRec]
  BY QueueTypeIs, TimersAre
<1>2. 0 \in 0..Timeout
  BY TimerQueueAssumption
<1>3. CASE DOMAIN t.timers = {}
  <2>1. r = [t EXCEPT !.alarm = 0, !.ticks = FALSE]
    BY <1>3 DEF refreshClock
  <2> HIDE DEF r
  <2>2. /\ r \in [timers : TimersType, timerId : 0..MaxId, alarm : 0..Timeout,
                  ticks : BOOLEAN, edge : BOOLEAN]
        /\ r.timers = t.timers /\ r.timerId = t.timerId /\ r.ticks = FALSE
    BY <1>1, <1>2, <2>1
  <2> QED BY <1>3, <2>2, QueueTypeIs DEF ClockOK, r
<1>4. CASE DOMAIN t.timers # {}
  <2> DEFINE f == First(t.timers)  left == t.timers[f].left
  <2>1. f \in DOMAIN t.timers /\ \A j \in DOMAIN t.timers : f <= j
    BY <1>1, <1>4, LeastId DEF First
  <2>2. left \in -1..Timeout
    BY <1>1, <2>1 DEF TimerRec
  <2>3. ASSUME NEW i \in DOMAIN t.timers, \A j \in DOMAIN t.timers : i <= j PROVE i = f
    <3>1. i <= f /\ f <= i /\ i \in Int /\ f \in Int
      BY <1>1, <2>1, <2>3, TimerQueueAssumption DEF Id
    <3> QED BY <3>1
  <2>4. r = IF left > 0 THEN [t EXCEPT !.alarm = left, !.ticks = FALSE]
            ELSE [t EXCEPT !.alarm = 0, !.ticks = TRUE, !.edge = TRUE]
    BY <1>4 DEF refreshClock
  <2> HIDE DEF f, r
  <2>5. CASE left > 0
    <3>1. r = [t EXCEPT !.alarm = left, !.ticks = FALSE] /\ left \in 0..Timeout
      BY <2>2, <2>4, <2>5, TimerQueueAssumption
    <3> HIDE DEF left
    <3>2. /\ r \in QueueType /\ r.timers = t.timers /\ r.timerId = t.timerId /\ ~r.ticks
          /\ r.alarm = left
      BY <1>1, <3>1, QueueTypeIs
    <3> QED BY <2>3, <2>5, <3>2 DEF ClockOK, left, r
  <2>6. CASE ~(left > 0)
    <3>1. r = [t EXCEPT !.alarm = 0, !.ticks = TRUE, !.edge = TRUE]
      BY <2>4, <2>6
    <3>2. /\ r \in [timers : TimersType, timerId : 0..MaxId, alarm : 0..Timeout,
                    ticks : BOOLEAN, edge : BOOLEAN]
          /\ r.timers = t.timers /\ r.timerId = t.timerId /\ r.ticks = TRUE /\ r.edge = TRUE
      BY <1>1, <1>2, <3>1
    <3> QED BY <2>3, <2>6, <3>2, QueueTypeIs DEF ClockOK, r
  <2> QED BY <2>5, <2>6
<1> QED
  BY <1>3, <1>4

(* addTimer adds the timer with the next id and sets the clock.            *)
LEMMA AddTimer ==
  ASSUME NEW t \in QueueType, DOMAIN t.timers \subseteq 1..t.timerId, t.timerId + 1 <= MaxId,
         NEW c \in Conns
  PROVE  LET r == addTimer(t, c)
         IN  /\ r \in QueueType /\ r.timerId = t.timerId + 1
             /\ DOMAIN r.timers = DOMAIN t.timers \cup {t.timerId + 1}
             /\ t.timerId + 1 \notin DOMAIN t.timers
             /\ r.timers[t.timerId + 1] = [left |-> Timeout, conn |-> c]
             /\ \A i \in DOMAIN t.timers : r.timers[i] = t.timers[i]
             /\ ClockOK(r) /\ (r.ticks => r.edge)
<1> DEFINE id == t.timerId + 1
           f == [i \in DOMAIN t.timers \cup {id} |->
                   IF i = id THEN [left |-> Timeout, conn |-> c] ELSE t.timers[i]]
           w == [t EXCEPT !.timers = f, !.timerId = id]
<1>1. /\ t \in [timers : TimersType, timerId : 0..MaxId, alarm : 0..Timeout,
                ticks : BOOLEAN, edge : BOOLEAN]
      /\ DOMAIN t.timers \subseteq Id /\ t.timers \in [DOMAIN t.timers -> TimerRec]
  BY QueueTypeIs, TimersAre
<1>2. id \in Id /\ id \in 0..MaxId /\ id \notin DOMAIN t.timers
  BY <1>1, TimerQueueAssumption DEF Id
<1>3. [left |-> Timeout, conn |-> c] \in TimerRec
  BY TimerQueueAssumption DEF TimerRec
<1>4. f \in TimersType
  <2>1. DOMAIN f \subseteq Id
    BY <1>1, <1>2
  <2>2. \A i \in DOMAIN f : f[i] \in TimerRec
    BY <1>1, <1>3
  <2>3. f \in [DOMAIN f -> TimerRec]
    BY <2>2
  <2> QED BY <2>1, <2>3, TimersAre
<1>5. addTimer(t, c) = refreshClock(w)
  <2>1. [WithTimer(t, id, c) EXCEPT !.timerId = @ + 1] = w
    BY <1>1 DEF WithTimer
  <2> QED BY <2>1 DEF addTimer
<1>6. /\ DOMAIN f = DOMAIN t.timers \cup {id} /\ f[id] = [left |-> Timeout, conn |-> c]
      /\ \A i \in DOMAIN t.timers : f[i] = t.timers[i]
  BY <1>2
<1> HIDE DEF f, id
<1>7. w \in QueueType /\ w.timers = f /\ w.timerId = id
  <2>1. /\ w \in [timers : TimersType, timerId : 0..MaxId, alarm : 0..Timeout,
                  ticks : BOOLEAN, edge : BOOLEAN]
        /\ w.timers = f /\ w.timerId = id
    BY <1>1, <1>2, <1>4
  <2> QED BY <2>1, QueueTypeIs
<1> HIDE DEF w
<1> QED
  BY <1>2, <1>5, <1>6, <1>7, RefreshClock DEF id

(* timers.erase(id).                                                       *)
LEMMA WithoutTimer ==
  ASSUME NEW t \in QueueType, NEW id
  PROVE  LET r == Without(t, id)
         IN  /\ r \in QueueType /\ r.timerId = t.timerId
             /\ r.alarm = t.alarm /\ r.ticks = t.ticks /\ r.edge = t.edge
             /\ DOMAIN r.timers = DOMAIN t.timers \ {id}
             /\ \A i \in DOMAIN r.timers : r.timers[i] = t.timers[i]
<1> DEFINE f == Restrict(t.timers, DOMAIN t.timers \ {id})
           r == Without(t, id)
<1>1. /\ t \in [timers : TimersType, timerId : 0..MaxId, alarm : 0..Timeout,
                ticks : BOOLEAN, edge : BOOLEAN]
      /\ DOMAIN t.timers \subseteq Id /\ t.timers \in [DOMAIN t.timers -> TimerRec]
  BY QueueTypeIs, TimersAre
<1>2. DOMAIN f = DOMAIN t.timers \ {id} /\ \A i \in DOMAIN f : f[i] = t.timers[i]
  BY DEF Restrict
<1>3. f \in [DOMAIN f -> TimerRec]
  BY <1>1 DEF Restrict
<1>4. f \in TimersType
  BY <1>1, <1>2, <1>3, TimersAre
<1>5. r = [t EXCEPT !.timers = f]
  BY DEF Without
<1> HIDE DEF f, r
<1>6. /\ r \in [timers : TimersType, timerId : 0..MaxId, alarm : 0..Timeout,
                ticks : BOOLEAN, edge : BOOLEAN]
      /\ r.timers = f /\ r.timerId = t.timerId
      /\ r.alarm = t.alarm /\ r.ticks = t.ticks /\ r.edge = t.edge
  BY <1>1, <1>4, <1>5
<1> QED
  BY <1>2, <1>6, QueueTypeIs DEF r

(* deleteTimer removes the timer, if it is there, and sets the clock; it   *)
(* takes no tick away without the ready list knowing.                      *)
LEMMA DeleteTimer ==
  ASSUME NEW t \in QueueType, NEW id
  PROVE  LET r == deleteTimer(t, id)
         IN  /\ r \in QueueType /\ r.timerId = t.timerId
             /\ DOMAIN r.timers = DOMAIN t.timers \ {id}
             /\ \A i \in DOMAIN r.timers : r.timers[i] = t.timers[i]
             /\ id \in DOMAIN t.timers => ClockOK(r) /\ (r.ticks => r.edge)
             /\ id \notin DOMAIN t.timers => r = t
<1> DEFINE w == Without(t, id)
<1>1. /\ w \in QueueType /\ w.timerId = t.timerId
      /\ DOMAIN w.timers = DOMAIN t.timers \ {id}
      /\ \A i \in DOMAIN w.timers : w.timers[i] = t.timers[i]
  BY WithoutTimer
<1>2. CASE id \in DOMAIN t.timers
  <2>1. deleteTimer(t, id) = refreshClock(w)
    BY <1>2 DEF deleteTimer
  <2> HIDE DEF w
  <2> QED BY <1>1, <1>2, <2>1, RefreshClock
<1>3. CASE id \notin DOMAIN t.timers
  BY <1>3 DEF deleteTimer
<1> QED
  BY <1>2, <1>3

-----------------------------------------------------------------------------
(* The invariant behind the theorems.  The phases of an iteration, and the *)
(* ids a batch may still need.                                             *)
Phases ==
  /\ pc # "batch" => todo = {}
  /\ pc # "callbacks" => dying = {}
  /\ \A c \in todo : conn[c] = "live"
BatchFits == pc = "batch" => q.timerId + Cardinality(todo) <= MaxId

(* The timers whose callbacks are still to run are overdue.                *)
DyingDue == \A i \in dying : q.timers[i].left < 0

(* Outside of the callbacks the clock is right, and a tick nobody has been *)
(* told of is on the ready list.                                           *)
ClockSet == pc # "callbacks" => ClockOK(q)
EdgeKept == q.ticks => q.edge \/ (pc = "batch" /\ hastime)

(* What is left of the timer of a live connection is what is missing of    *)
(* its silence.                                                            *)
IdleCounts ==
  \A c \in Conns : conn[c] = "live" =>
    timerId[c] \in DOMAIN q.timers /\ q.timers[timerId[c]].left + idle[c] = Timeout

Inv ==
  /\ TypeOK /\ Phases /\ BatchFits /\ OneTimerEach /\ LargerIdLater
  /\ DyingDue /\ ClockSet /\ EdgeKept /\ IdleCounts

-----------------------------------------------------------------------------
(* The part of Inv about the queue and its connections, as a predicate on  *)
(* values, so that it can be followed through the steps of an action.      *)
Owned(t, cn, tid) ==
  /\ \A i \in DOMAIN t.timers : cn[t.timers[i].conn] = "live" /\ tid[t.timers[i].conn] = i
  /\ \A c \in Conns : cn[c] = "live" =>
       tid[c] \in DOMAIN t.timers /\ t.timers[tid[c]].conn = c
Ordered(t) ==
  \A i, j \in DOMAIN t.timers : i < j => t.timers[i].left <= t.timers[j].left
Counts(t, cn, tid, idl) ==
  \A c \in Conns : cn[c] = "live" => t.timers[tid[c]].left + idl[c] = Timeout
QInv(t, cn, tid, idl) ==
  /\ t \in QueueType /\ DOMAIN t.timers \subseteq 1..t.timerId
  /\ cn \in [Conns -> {"none", "live", "dead"}]
  /\ tid \in [Conns -> 0..MaxId] /\ idl \in [Conns -> 0..Timeout + 1]
  /\ Owned(t, cn, tid) /\ Ordered(t) /\ Counts(t, cn, tid, idl)

(* The fields of a queue.                                                  *)
LEMMA QueueFields ==
  ASSUME NEW t \in QueueType
  PROVE  /\ DOMAIN t.timers \subseteq Id
         /\ t.timerId \in 0..MaxId /\ t.alarm \in 0..Timeout
         /\ t.ticks \in BOOLEAN /\ t.edge \in BOOLEAN
         /\ \A i \in DOMAIN t.timers : t.timers[i].left \in -1..Timeout /\ t.timers[i].conn \in Conns
<1>1. /\ t \in [timers : TimersType, timerId : 0..MaxId, alarm : 0..Timeout,
                ticks : BOOLEAN, edge : BOOLEAN]
      /\ DOMAIN t.timers \subseteq Id /\ t.timers \in [DOMAIN t.timers -> TimerRec]
  BY QueueTypeIs, TimersAre
<1> QED
  BY <1>1 DEF TimerRec

(* Owned says what the first half of OneTimerEach says.                    *)
LEMMA OwnedIs ==
  ASSUME NEW t \in QueueType, NEW cn, NEW tid
  PROVE  Owned(t, cn, tid) <=>
           \A c \in Conns :
             {i \in DOMAIN t.timers : t.timers[i].conn = c}
               = IF cn[c] = "live" THEN {tid[c]} ELSE {}
<1> DEFINE Of(c) == {i \in DOMAIN t.timers : t.timers[i].conn = c}
<1>1. \A i \in DOMAIN t.timers : t.timers[i].conn \in Conns
  BY QueueFields
<1>2. ASSUME Owned(t, cn, tid), NEW c \in Conns
      PROVE  Of(c) = IF cn[c] = "live" THEN {tid[c]} ELSE {}
  <2>1. CASE cn[c] = "live"
    <3>1. tid[c] \in Of(c)
      BY <1>2, <2>1 DEF Owned
    <3>2. \A i \in Of(c) : i = tid[c]
      BY <1>2 DEF Owned
    <3> QED BY <2>1, <3>1, <3>2
  <2>2. CASE cn[c] # "live"
    BY <1>2, <2>2 DEF Owned
  <2> QED BY <2>1, <2>2
<1>3. ASSUME \A c \in Conns : Of(c) = IF cn[c] = "live" THEN {tid[c]} ELSE {}
      PROVE  Owned(t, cn, tid)
  <2>1. ASSUME NEW i \in DOMAIN t.timers
        PROVE  cn[t.timers[i].conn] = "live" /\ tid[t.timers[i].conn] = i
    <3>1. t.timers[i].conn \in Conns /\ i \in Of(t.timers[i].conn)
      BY <1>1, <2>1
    <3> HIDE DEF Of
    <3> QED BY <1>3, <3>1
  <2>2. ASSUME NEW c \in Conns, cn[c] = "live"
        PROVE  tid[c] \in DOMAIN t.timers /\ t.timers[tid[c]].conn = c
    <3>1. tid[c] \in Of(c)
      <4> HIDE DEF Of
      <4> QED BY <1>3, <2>2
    <3> QED BY <3>1
  <2> QED BY <2>1, <2>2 DEF Owned
<1> QED
  BY <1>2, <1>3

(* Inv has QInv.                                                           *)
LEMMA InvHas ==
  ASSUME Inv
  PROVE  QInv(q, conn, timerId, idle) /\ dying \subseteq DOMAIN q.timers
<1>1. q \in QueueType
  BY DEF Inv, TypeOK
<1>2. Owned(q, conn, timerId) /\ dying \subseteq DOMAIN q.timers
  BY <1>1, OwnedIs DEF Inv, OneTimerEach
<1> QED
  BY <1>2 DEF Inv, TypeOK, QInv, LargerIdLater, Ordered, IdleCounts, Counts

(* Inv follows, after a step, from QInv and the rest.                      *)
LEMMA InvFrom ==
  ASSUME QInv(q', conn', timerId', idle'),
         pc' \in {"poll", "batch", "callbacks", "tasks", "done"},
         todo' \in SUBSET Conns, hastime' \in BOOLEAN, dying' \subseteq DOMAIN q'.timers,
         Phases', BatchFits', DyingDue', ClockSet', EdgeKept'
  PROVE  Inv'
<1>1. q' \in QueueType /\ Owned(q', conn', timerId')
  BY DEF QInv
<1>2. OneTimerEach'
  BY <1>1, OwnedIs DEF OneTimerEach
<1>3. LargerIdLater' /\ IdleCounts'
  BY DEF QInv, LargerIdLater, Ordered, IdleCounts, Counts, Owned
<1>4. dying' \in SUBSET Id
  BY <1>1, QueueFields
<1>5. TypeOK'
  BY <1>4 DEF TypeOK, QInv
<1> QED
  BY <1>2, <1>3, <1>5 DEF Inv

(* A connection without a timer gets one.                                  *)
LEMMA AddKeeps ==
  ASSUME NEW t, NEW cn, NEW tid, NEW idl, QInv(t, cn, tid, idl),
         NEW c \in Conns, cn[c] # "live", t.timerId + 1 <= MaxId
  PROVE  /\ QInv(addTimer(t, c), [cn EXCEPT ![c] = "live"],
                 [tid EXCEPT ![c] = addTimer(t, c).timerId], [idl EXCEPT ![c] = 0])
         /\ addTimer(t, c).timerId = t.timerId + 1
         /\ ClockOK(addTimer(t, c)) /\ (addTimer(t, c).ticks => addTimer(t, c).edge)
<1> DEFINE r == addTimer(t, c)  id == t.timerId + 1
           cn1 == [cn EXCEPT ![c] = "live"]
           tid1 == [tid EXCEPT ![c] = id]
           idl1 == [idl EXCEPT ![c] = 0]
<1>1. /\ t \in QueueType /\ DOMAIN t.timers \subseteq 1..t.timerId /\ t.timerId \in Nat
      /\ cn \in [Conns -> {"none", "live", "dead"}]
      /\ tid \in [Conns -> 0..MaxId] /\ idl \in [Conns -> 0..Timeout + 1]
      /\ Owned(t, cn, tid) /\ Ordered(t) /\ Counts(t, cn, tid, idl)
      /\ MaxId \in Nat /\ Timeout \in Nat
  BY QueueFields, TimerQueueAssumption DEF QInv
<1>2. \A i \in DOMAIN t.timers : t.timers[i].left \in -1..Timeout /\ t.timers[i].conn \in Conns
  BY <1>1, QueueFields
<1>3. /\ r \in QueueType /\ r.timerId = id /\ DOMAIN r.timers = DOMAIN t.timers \cup {id}
      /\ id \notin DOMAIN t.timers
      /\ r.timers[id] = [left |-> Timeout, conn |-> c]
      /\ \A i \in DOMAIN t.timers : r.timers[i] = t.timers[i]
      /\ ClockOK(r) /\ (r.ticks => r.edge)
  BY <1>1, AddTimer
<1> HIDE DEF r
<1>4. \A i \in DOMAIN t.timers : t.timers[i].conn # c
  BY <1>1 DEF Owned
<1>5. Owned(r, cn1, tid1)
  <2>1. ASSUME NEW i \in DOMAIN r.timers
        PROVE  cn1[r.timers[i].conn] = "live" /\ tid1[r.timers[i].conn] = i
    <3>1. CASE i = id
      BY <1>1, <1>3, <3>1
    <3>2. CASE i # id
      <4>1. i \in DOMAIN t.timers /\ r.timers[i] = t.timers[i]
        BY <1>3, <3>2
      <4> HIDE DEF id
      <4> QED BY <1>1, <1>2, <1>4, <4>1 DEF Owned
    <3> QED BY <3>1, <3>2
  <2>2. ASSUME NEW d \in Conns, cn1[d] = "live"
        PROVE  tid1[d] \in DOMAIN r.timers /\ r.timers[tid1[d]].conn = d
    <3> HIDE DEF id
    <3>1. CASE d = c
      BY <1>1, <1>3, <3>1
    <3>2. CASE d # c
      BY <1>1, <1>3, <2>2, <3>2 DEF Owned
    <3> QED BY <3>1, <3>2
  <2> QED BY <2>1, <2>2 DEF Owned
<1>6. Ordered(r)
  <2> SUFFICES ASSUME NEW i \in DOMAIN r.timers, NEW j \in DOMAIN r.timers, i < j
               PROVE  r.timers[i].left <= r.timers[j].left
    BY DEF Ordered
  <2>1. CASE j = id
    <3>1. i \in DOMAIN t.timers
      BY <1>1, <1>3, <2>1
    <3> QED BY <1>1, <1>2, <1>3, <2>1, <3>1
  <2>2. CASE j # id
    <3>1. i # id
      BY <1>1, <1>3, <2>2
    <3> QED BY <1>1, <1>3, <2>2, <3>1 DEF Ordered
  <2> QED BY <2>1, <2>2
<1>7. Counts(r, cn1, tid1, idl1)
  <2> SUFFICES ASSUME NEW d \in Conns, cn1[d] = "live"
               PROVE  r.timers[tid1[d]].left + idl1[d] = Timeout
    BY DEF Counts
  <2>1. CASE d = c
    BY <1>1, <1>3, <2>1
  <2>2. CASE d # c
    BY <1>1, <1>3, <2>2 DEF Owned, Counts
  <2> QED BY <2>1, <2>2
<1>8. DOMAIN r.timers \subseteq 1..r.timerId
  BY <1>1, <1>3
<1>9. /\ cn1 \in [Conns -> {"none", "live", "dead"}] /\ tid1 \in [Conns -> 0..MaxId]
      /\ idl1 \in [Conns -> 0..Timeout + 1]
  BY <1>1
<1>10. QInv(r, cn1, tid1, idl1)
  BY <1>3, <1>5, <1>6, <1>7, <1>8, <1>9 DEF QInv
<1> QED
  BY <1>3, <1>10 DEF r

(* A live connection dies and its timer is deleted.                        *)
LEMMA DeleteKeeps ==
  ASSUME NEW t, NEW cn, NEW tid, NEW idl, QInv(t, cn, tid, idl),
         NEW c \in Conns, cn[c] = "live"
  PROVE  LET r == deleteTimer(t, tid[c])
         IN  /\ QInv(r, [cn EXCEPT ![c] = "dead"], tid, idl)
             /\ r.timerId = t.timerId
             /\ DOMAIN r.timers = DOMAIN t.timers \ {tid[c]}
             /\ \A i \in DOMAIN r.timers : r.timers[i] = t.timers[i]
             /\ ClockOK(r) /\ (r.ticks => r.edge)
<1> DEFINE r == deleteTimer(t, tid[c])
           cn1 == [cn EXCEPT ![c] = "dead"]
<1>1. /\ t \in QueueType /\ DOMAIN t.timers \subseteq 1..t.timerId
      /\ cn \in [Conns -> {"none", "live", "dead"}]
      /\ tid \in [Conns -> 0..MaxId] /\ idl \in [Conns -> 0..Timeout + 1]
      /\ Owned(t, cn, tid) /\ Ordered(t) /\ Counts(t, cn, tid, idl)
  BY DEF QInv
<1>2. \A i \in DOMAIN t.timers : t.timers[i].conn \in Conns
  BY <1>1, QueueFields
<1>3. tid[c] \in DOMAIN t.timers /\ t.timers[tid[c]].conn = c
  BY <1>1 DEF Owned
<1>4. /\ r \in QueueType /\ r.timerId = t.timerId /\ DOMAIN r.timers = DOMAIN t.timers \ {tid[c]}
      /\ \A i \in DOMAIN r.timers : r.timers[i] = t.timers[i]
      /\ ClockOK(r) /\ (r.ticks => r.edge)
  BY <1>1, <1>3, DeleteTimer
<1> HIDE DEF r
<1>5. Owned(r, cn1, tid)
  <2>1. ASSUME NEW i \in DOMAIN r.timers
        PROVE  cn1[r.timers[i].conn] = "live" /\ tid[r.timers[i].conn] = i
    BY <1>1, <1>2, <1>4 DEF Owned
  <2>2. ASSUME NEW d \in Conns, cn1[d] = "live"
        PROVE  tid[d] \in DOMAIN r.timers /\ r.timers[tid[d]].conn = d
    <3>1. d # c /\ cn[d] = "live"
      BY <1>1, <2>2
    <3>2. tid[d] \in DOMAIN t.timers /\ t.timers[tid[d]].conn = d
      BY <1>1, <3>1 DEF Owned
    <3>3. tid[d] # tid[c]
      BY <1>3, <3>1, <3>2
    <3> QED BY <1>4, <3>2, <3>3
  <2> QED BY <2>1, <2>2 DEF Owned
<1>6. Ordered(r)
  BY <1>1, <1>4 DEF Ordered
<1>7. Counts(r, cn1, tid, idl)
  BY <1>1, <1>4, <1>5 DEF Counts, Owned
<1>8. cn1 \in [Conns -> {"none", "live", "dead"}] /\ DOMAIN r.timers \subseteq 1..r.timerId
  BY <1>1, <1>4
<1>9. QInv(r, cn1, tid, idl)
  BY <1>1, <1>4, <1>5, <1>6, <1>7, <1>8 DEF QInv
<1> QED
  BY <1>4, <1>9 DEF r

-----------------------------------------------------------------------------
(* What NotTooEarly says of one step.                                      *)
Early ==
  \A c \in Conns : pc = "callbacks" /\ conn[c] = "live" /\ conn'[c] = "dead" => idle[c] >= Timeout

(* startConnect: the timer of a new connection.                            *)
LEMMA StepStartConnect ==
  ASSUME Inv, NEW c \in Conns, startConnect(c)
  PROVE  Inv' /\ Early
<1>1. /\ pc = "tasks" /\ conn[c] = "none" /\ q.timerId + 1 <= MaxId
      /\ conn' = [conn EXCEPT ![c] = "live"] /\ q' = addTimer(q, c)
      /\ timerId' = [timerId EXCEPT ![c] = addTimer(q, c).timerId]
      /\ idle' = [idle EXCEPT ![c] = 0] /\ UNCHANGED <<pc, todo, hastime, dying>>
  BY DEF startConnect, HasIds
<1>2. QInv(q, conn, timerId, idle)
  BY InvHas
<1>3. QInv(q', conn', timerId', idle') /\ ClockOK(q') /\ (q'.ticks => q'.edge)
  BY <1>1, <1>2, AddKeeps
<1>4. /\ dying = {} /\ todo = {} /\ hastime \in BOOLEAN
  BY <1>1 DEF Inv, Phases, TypeOK
<1> QED
  BY <1>1, <1>3, <1>4, InvFrom DEF Phases, BatchFits, DyingDue, ClockSet, EdgeKept, Early

(* refreshTimer, and a death right after it.                               *)
LEMMA RefreshKeeps ==
  ASSUME Inv, NEW c \in Conns, conn[c] = "live", q.timerId + 1 <= MaxId
  PROVE  LET r   == refreshTimer(q, c)
             tid == [timerId EXCEPT ![c] = r.timerId]
             idl == [idle EXCEPT ![c] = 0]
             d   == handleDead(r, c, r.timerId)
         IN  /\ QInv(r, conn, tid, idl) /\ ClockOK(r) /\ (r.ticks => r.edge)
             /\ r.timerId = q.timerId + 1
             /\ QInv(d, [conn EXCEPT ![c] = "dead"], tid, idl) /\ ClockOK(d) /\ (d.ticks => d.edge)
             /\ d.timerId = q.timerId + 1
<1> DEFINE t   == deleteTimer(q, timerId[c])
           cn  == [conn EXCEPT ![c] = "dead"]
           r   == addTimer(t, c)
           tid == [timerId EXCEPT ![c] = r.timerId]
           idl == [idle EXCEPT ![c] = 0]
           d   == deleteTimer(r, tid[c])
<1>1. conn \in [Conns -> {"none", "live", "dead"}] /\ timerId \in [Conns -> 0..MaxId]
  BY DEF Inv, TypeOK
<1>2. QInv(t, cn, timerId, idle) /\ t.timerId = q.timerId
  <2>1. QInv(q, conn, timerId, idle)
    BY InvHas
  <2> QED BY <2>1, DeleteKeeps
<1>3. cn[c] # "live" /\ [cn EXCEPT ![c] = "live"] = conn
  BY <1>1
<1> HIDE DEF t, cn
<1>4. /\ QInv(r, [cn EXCEPT ![c] = "live"], tid, idl) /\ r.timerId = t.timerId + 1
      /\ ClockOK(r) /\ (r.ticks => r.edge)
  BY <1>2, <1>3, AddKeeps
<1>5. QInv(r, conn, tid, idl) /\ r.timerId = q.timerId + 1 /\ tid[c] = r.timerId
  BY <1>1, <1>2, <1>3, <1>4
<1> HIDE DEF r, idl, tid
<1>6. /\ QInv(d, [conn EXCEPT ![c] = "dead"], tid, idl) /\ d.timerId = r.timerId
      /\ ClockOK(d) /\ (d.ticks => d.edge)
  BY <1>5, DeleteKeeps
<1>7. refreshTimer(q, c) = r /\ handleDead(r, c, r.timerId) = d
  BY <1>5 DEF refreshTimer, handleDead, r, t
<1> QED
  BY <1>4, <1>5, <1>6, <1>7 DEF tid, idl

(* A connection of the batch is active.                                    *)
LEMMA StepActivity ==
  ASSUME Inv, NEW c \in Conns, activity(c)
  PROVE  Inv' /\ Early
<1> DEFINE r == refreshTimer(q, c)
<1>1. /\ pc = "batch" /\ c \in todo /\ todo' = todo \ {c}
      /\ timerId' = [timerId EXCEPT ![c] = r.timerId] /\ idle' = [idle EXCEPT ![c] = 0]
      /\ \/ q' = r /\ conn' = conn
         \/ q' = handleDead(r, c, r.timerId) /\ conn' = [conn EXCEPT ![c] = "dead"]
      /\ UNCHANGED <<pc, hastime, dying>>
  BY DEF activity
<1>2. /\ todo \in SUBSET Conns /\ IsFiniteSet(todo) /\ Cardinality(todo) \in Nat
      /\ IsFiniteSet(todo \ {c}) /\ Cardinality(todo \ {c}) = Cardinality(todo) - 1
  <2>1. todo \in SUBSET Conns
    BY DEF Inv, TypeOK
  <2>2. IsFiniteSet(todo)
    BY <2>1, FS_Subset, TimerQueueAssumption
  <2> QED BY <1>1, <2>1, <2>2, FS_CardinalityType, FS_RemoveElement
<1>3. q.timerId \in Nat /\ q.timerId + Cardinality(todo) <= MaxId /\ MaxId \in Nat
  BY <1>1, TimerQueueAssumption, QueueFields DEF Inv, BatchFits, TypeOK
<1>4. Cardinality(todo \ {c}) \in Nat
  BY <1>2, FS_CardinalityType
<1>5. q.timerId + 1 <= MaxId /\ q.timerId + 1 + Cardinality(todo \ {c}) <= MaxId
  BY <1>2, <1>3, <1>4
<1>6. conn[c] = "live" /\ dying = {} /\ hastime \in BOOLEAN
      /\ conn \in [Conns -> {"none", "live", "dead"}] /\ \A d \in todo : conn[d] = "live"
  BY <1>1 DEF Inv, Phases, TypeOK
<1> HIDE DEF r
<1>7. /\ QInv(q', conn', timerId', idle') /\ ClockOK(q') /\ (q'.ticks => q'.edge)
      /\ q'.timerId = q.timerId + 1
  BY <1>1, <1>5, <1>6, RefreshKeeps DEF r
<1>8. \A d \in todo' : conn'[d] = "live"
  BY <1>1, <1>2, <1>6
<1>9. Phases' /\ BatchFits' /\ DyingDue' /\ ClockSet' /\ EdgeKept'
  BY <1>1, <1>5, <1>6, <1>7, <1>8 DEF Phases, BatchFits, DyingDue, ClockSet, EdgeKept
<1> QED
  BY <1>1, <1>2, <1>6, <1>7, <1>9, InvFrom DEF Early

(* A worker's answer ends a connection.                                    *)
LEMMA StepLastAnswer ==
  ASSUME Inv, NEW c \in Conns, lastAnswer(c)
  PROVE  Inv' /\ Early
<1>1. /\ pc = "tasks" /\ conn[c] = "live" /\ conn' = [conn EXCEPT ![c] = "dead"]
      /\ q' = deleteTimer(q, timerId[c]) /\ UNCHANGED <<timerId, pc, todo, hastime, dying, idle>>
  BY DEF lastAnswer, handleDead
<1>2. QInv(q, conn, timerId, idle)
  BY InvHas
<1>3. QInv(q', conn', timerId', idle') /\ ClockOK(q') /\ (q'.ticks => q'.edge)
  BY <1>1, <1>2, DeleteKeeps
<1>4. /\ dying = {} /\ todo = {} /\ hastime \in BOOLEAN
  BY <1>1 DEF Inv, Phases, TypeOK
<1> QED
  BY <1>1, <1>3, <1>4, InvFrom DEF Phases, BatchFits, DyingDue, ClockSet, EdgeKept, Early

(* A step that only touches the clock or the ready list.                   *)
LEMMA SameTimers ==
  ASSUME NEW t, NEW r, NEW cn, NEW tid, NEW idl, QInv(t, cn, tid, idl),
         r \in QueueType, r.timers = t.timers, r.timerId = t.timerId
  PROVE  QInv(r, cn, tid, idl)
  BY DEF QInv, Owned, Ordered, Counts

(* epoll_wait: the batch takes the timer channel with it or leaves it on   *)
(* the ready list.                                                         *)
LEMMA StepPoll ==
  ASSUME Inv, poll
  PROVE  Inv' /\ Early
<1>1. /\ pc = "poll" /\ pc' = "batch"
      /\ todo' \in SUBSET {c \in Conns : conn[c] = "live"} /\ q.timerId + Cardinality(todo') <= MaxId
      /\ hastime' = Ready \/ hastime' = FALSE
      /\ q' = [q EXCEPT !.edge = Ready /\ ~hastime'] /\ UNCHANGED <<conn, timerId, dying, idle>>
  BY DEF poll, HasIds
<1>2. /\ q \in [timers : TimersType, timerId : 0..MaxId, alarm : 0..Timeout,
                ticks : BOOLEAN, edge : BOOLEAN]
  BY QueueTypeIs DEF Inv, TypeOK
<1>3. Ready \in BOOLEAN /\ hastime' \in BOOLEAN
  BY <1>1 DEF Ready
<1>4. /\ q' \in QueueType /\ q'.timers = q.timers /\ q'.timerId = q.timerId
      /\ q'.alarm = q.alarm /\ q'.ticks = q.ticks /\ q'.edge = (Ready /\ ~hastime')
  BY <1>1, <1>2, <1>3, QueueTypeIs
<1>5. QInv(q', conn', timerId', idle')
  BY <1>1, <1>4, InvHas, SameTimers
<1>6. q.ticks => q.edge
  BY <1>1 DEF Inv, EdgeKept
<1>7. EdgeKept'
  BY <1>1, <1>3, <1>4, <1>6 DEF EdgeKept, Ready
<1>8. ClockSet'
  BY <1>1, <1>4 DEF Inv, ClockSet, ClockOK
<1>9. dying' = {}
  BY <1>1 DEF Inv, Phases
<1>10. Phases' /\ BatchFits' /\ DyingDue'
  BY <1>1, <1>4, <1>9 DEF Phases, BatchFits, DyingDue
<1> QED
  BY <1>1, <1>3, <1>5, <1>7, <1>8, <1>9, <1>10, InvFrom DEF Early

(* handleRead: the due timers are collected, the tick is consumed.         *)
LEMMA StepHandleRead ==
  ASSUME Inv, handleRead
  PROVE  Inv' /\ Early
<1>1. /\ pc = "batch" /\ todo = {} /\ UNCHANGED <<conn, timerId, todo, hastime, idle>>
  BY DEF handleRead
<1>2. /\ q \in [timers : TimersType, timerId : 0..MaxId, alarm : 0..Timeout,
                ticks : BOOLEAN, edge : BOOLEAN]
      /\ hastime \in BOOLEAN /\ dying = {}
  BY <1>1, QueueTypeIs DEF Inv, TypeOK, Phases
<1>3. CASE hastime /\ q.ticks
  <2>1. pc' = "callbacks" /\ dying' = Due(q) /\ q' = [q EXCEPT !.ticks = FALSE]
    BY <1>3 DEF handleRead
  <2>2. q' \in QueueType /\ q'.timers = q.timers /\ q'.timerId = q.timerId /\ q'.ticks = FALSE
    BY <1>2, <2>1, QueueTypeIs
  <2>3. QInv(q', conn', timerId', idle')
    BY <1>1, <2>2, InvHas, SameTimers
  <2>4. \A i \in Due(q) : i \in DOMAIN q.timers /\ q.timers[i].left < 0
    <3> SUFFICES ASSUME NEW i \in Due(q) PROVE i \in DOMAIN q.timers /\ q.timers[i].left < 0
      OBVIOUS
    <3>1. i \in DOMAIN q.timers /\ \A j \in DOMAIN q.timers : j <= i => q.timers[j].left < 0
      BY DEF Due
    <3>2. i \in Int
      BY <3>1, QueueFields, TimerQueueAssumption DEF Inv, TypeOK, Id
    <3> QED BY <3>1, <3>2
  <2>5. Phases' /\ BatchFits' /\ DyingDue' /\ ClockSet' /\ EdgeKept' /\ dying' \subseteq DOMAIN q'.timers
    BY <1>1, <2>1, <2>2, <2>4 DEF Phases, BatchFits, DyingDue, ClockSet, EdgeKept
  <2> QED BY <1>1, <1>2, <2>1, <2>3, <2>5, InvFrom DEF Early
<1>4. CASE ~(hastime /\ q.ticks)
  <2>1. pc' = "tasks" /\ dying' = dying /\ q' = q
    BY <1>4 DEF handleRead
  <2>2. q.ticks => q.edge
    BY <1>2, <1>4 DEF Inv, EdgeKept
  <2>3. Phases' /\ BatchFits' /\ DyingDue' /\ ClockSet' /\ EdgeKept'
    BY <1>1, <1>2, <2>1, <2>2 DEF Inv, Phases, BatchFits, DyingDue, ClockSet, EdgeKept
  <2> QED BY <1>1, <1>2, <2>1, <2>3, InvHas, InvFrom DEF Early
<1> QED
  BY <1>3, <1>4

(* runCallBack: the connection of an overdue timer is live, and dies.      *)
LEMMA StepRunCallBack ==
  ASSUME Inv, NEW id \in Id, runCallBack(id)
  PROVE  Inv' /\ Early
<1> DEFINE c == q.timers[id].conn  r == deleteTimer(q, timerId[c])
<1>1. /\ pc = "callbacks" /\ id \in dying /\ dying' = dying \ {id}
      /\ UNCHANGED <<timerId, pc, todo, hastime, idle>>
  BY DEF runCallBack
<1>2. QInv(q, conn, timerId, idle) /\ dying \subseteq DOMAIN q.timers
  BY InvHas
<1>3. c \in Conns /\ conn[c] = "live" /\ timerId[c] = id
  BY <1>1, <1>2, QueueFields DEF QInv, Owned
<1>4. conn' = [conn EXCEPT ![c] = "dead"] /\ q' = Without(r, id)
  BY <1>3 DEF runCallBack, handleDead
<1>5. /\ QInv(r, [conn EXCEPT ![c] = "dead"], timerId, idle)
      /\ DOMAIN r.timers = DOMAIN q.timers \ {id}
      /\ \A i \in DOMAIN r.timers : r.timers[i] = q.timers[i]
      /\ r.ticks => r.edge
  <2>1. QInv(q, conn, timerId, idle)
    BY <1>2
  <2> HIDE DEF c
  <2>2. /\ QInv(r, [conn EXCEPT ![c] = "dead"], timerId, idle)
        /\ DOMAIN r.timers = DOMAIN q.timers \ {timerId[c]}
        /\ \A i \in DOMAIN r.timers : r.timers[i] = q.timers[i]
        /\ r.ticks => r.edge
    BY <1>3, <2>1, DeleteKeeps
  <2> QED BY <1>3, <2>2
<1> HIDE DEF c, r
<1>6. /\ q' \in QueueType /\ q'.timerId = r.timerId /\ q'.ticks = r.ticks /\ q'.edge = r.edge
      /\ DOMAIN q'.timers = DOMAIN q.timers \ {id}
      /\ \A i \in DOMAIN q'.timers : q'.timers[i] = q.timers[i]
  <2>1. r \in QueueType
    BY <1>5 DEF QInv
  <2> QED BY <1>4, <1>5, <2>1, WithoutTimer
<1>7. QInv(q', conn', timerId', idle')
  <2>1. DOMAIN q'.timers = DOMAIN r.timers /\ \A i \in DOMAIN r.timers : q'.timers[i] = r.timers[i]
    BY <1>5, <1>6
  <2> QED BY <1>1, <1>4, <1>5, <1>6, <2>1 DEF QInv, Owned, Ordered, Counts
<1>8. dying' \subseteq DOMAIN q'.timers
  BY <1>1, <1>2, <1>6
<1>9. Phases' /\ BatchFits' /\ DyingDue' /\ ClockSet' /\ EdgeKept'
  <2>1. todo = {} /\ DyingDue
    BY <1>1 DEF Inv, Phases
  <2>2. DyingDue'
    BY <1>1, <1>6, <1>8, <2>1 DEF DyingDue
  <2> QED BY <1>1, <1>5, <1>6, <2>1, <2>2 DEF Phases, BatchFits, ClockSet, EdgeKept
<1>10. Early
  <2>1. q.timers[id].left < 0 /\ q.timers[id].left + idle[c] = Timeout
    BY <1>1, <1>2, <1>3 DEF Inv, DyingDue, QInv, Counts
  <2>2. q.timers[id].left \in Int /\ idle[c] \in Int /\ Timeout \in Int
    BY <1>1, <1>2, <1>3, QueueFields, TimerQueueAssumption DEF QInv
  <2>3. idle[c] >= Timeout
    BY <2>1, <2>2
  <2>4. conn \in [Conns -> {"none", "live", "dead"}]
    BY DEF Inv, TypeOK
  <2> QED BY <1>3, <1>4, <2>3, <2>4 DEF Early
<1>11. todo' \in SUBSET Conns /\ hastime' \in BOOLEAN
  BY <1>1 DEF Inv, TypeOK
<1> QED
  BY <1>1, <1>7, <1>8, <1>9, <1>10, <1>11, InvFrom

(* The end of the callbacks sets the clock; the end of the tasks.          *)
LEMMA StepEndCallBacks ==
  ASSUME Inv, endCallBacks
  PROVE  Inv' /\ Early
<1>1. /\ pc = "callbacks" /\ dying = {} /\ pc' = "tasks" /\ q' = refreshClock(q)
      /\ UNCHANGED <<conn, timerId, todo, hastime, dying, idle>>
  BY DEF endCallBacks
<1>2. /\ q \in QueueType /\ todo = {} /\ hastime \in BOOLEAN
      /\ conn \in [Conns -> {"none", "live", "dead"}]
  BY <1>1 DEF Inv, TypeOK, Phases
<1>3. /\ q' \in QueueType /\ q'.timers = q.timers /\ q'.timerId = q.timerId
      /\ ClockOK(q') /\ (q'.ticks => q'.edge)
  BY <1>1, <1>2, RefreshClock
<1>4. QInv(q', conn', timerId', idle')
  BY <1>1, <1>3, InvHas, SameTimers
<1>5. Phases' /\ BatchFits' /\ DyingDue' /\ ClockSet' /\ EdgeKept'
  BY <1>1, <1>2, <1>3 DEF Phases, BatchFits, DyingDue, ClockSet, EdgeKept
<1> QED
  BY <1>1, <1>2, <1>4, <1>5, InvFrom DEF Early

(* The loop goes back to epoll_wait.                                       *)
LEMMA StepAgain ==
  ASSUME Inv, again
  PROVE  Inv' /\ Early
<1>1. /\ pc = "tasks" /\ pc' = "poll"
      /\ UNCHANGED <<q, conn, timerId, todo, hastime, dying, idle>>
  BY DEF again
<1>2. Phases' /\ BatchFits' /\ DyingDue' /\ ClockSet' /\ EdgeKept'
  BY <1>1 DEF Inv, Phases, BatchFits, DyingDue, ClockSet, ClockOK, EdgeKept
<1>3. todo' \in SUBSET Conns /\ hastime' \in BOOLEAN
  BY <1>1 DEF Inv, TypeOK
<1> QED
  BY <1>1, <1>2, <1>3, InvHas, InvFrom DEF Early

(* The stop deletes every timer, for every timer belongs to a live         *)
(* connection.                                                             *)
LEMMA StepStopTask ==
  ASSUME Inv, stopTask
  PROVE  Inv' /\ Early
<1> DEFINE kept == {i \in DOMAIN q.timers : \A c \in Conns : conn[c] = "live" => i # timerId[c]}
           f == Restrict(q.timers, kept)
           w == [q EXCEPT !.timers = f]
           r == refreshClock(w)
<1>1. /\ pc = "tasks" /\ pc' = "done"
      /\ conn' = [c \in Conns |-> IF conn[c] = "live" THEN "dead" ELSE conn[c]]
      /\ q' = [r EXCEPT !.edge = FALSE]
      /\ UNCHANGED <<timerId, todo, hastime, dying, idle>>
  BY DEF stopTask
<1>2. /\ q \in QueueType /\ Owned(q, conn, timerId) /\ todo = {} /\ dying = {}
      /\ hastime \in BOOLEAN /\ conn \in [Conns -> {"none", "live", "dead"}]
      /\ timerId \in [Conns -> 0..MaxId] /\ idle \in [Conns -> 0..Timeout + 1]
  BY <1>1, InvHas DEF QInv, Inv, Phases, TypeOK
<1>3. kept = {}
  BY <1>2, QueueFields DEF Owned
<1>4. DOMAIN f = {} /\ f \in TimersType
  <2>1. DOMAIN f = {}
    BY <1>3 DEF Restrict
  <2>2. f \in [DOMAIN f -> TimerRec]
    BY <1>3 DEF Restrict
  <2> QED BY <2>1, <2>2, TimersAre
<1> HIDE DEF f
<1>5. w \in QueueType /\ w.timers = f
  BY <1>2, <1>4, QueueTypeIs
<1> HIDE DEF w
<1>6. r \in QueueType /\ r.timers = f /\ r.ticks = FALSE
  <2>1. r \in QueueType /\ r.timers = f
    BY <1>5, RefreshClock
  <2>2. r = [w EXCEPT !.alarm = 0, !.ticks = FALSE]
    BY <1>4, <1>5 DEF refreshClock
  <2>3. r.ticks = FALSE
    BY <1>5, <2>2, QueueTypeIs
  <2> QED BY <2>1, <2>3
<1> HIDE DEF r
<1>7. q' \in QueueType /\ q'.timers = f /\ q'.ticks = FALSE
  BY <1>1, <1>6, QueueTypeIs
<1>8. QInv(q', conn', timerId', idle')
  BY <1>1, <1>2, <1>4, <1>7 DEF QInv, Owned, Ordered, Counts
<1>9. Phases' /\ BatchFits' /\ DyingDue' /\ ClockSet' /\ EdgeKept'
  BY <1>1, <1>2, <1>4, <1>7 DEF Phases, BatchFits, DyingDue, ClockSet, ClockOK, EdgeKept
<1> QED
  BY <1>1, <1>2, <1>8, <1>9, InvFrom DEF Early

(* A tick of the clock: every timer and the alarm come closer alike.       *)
LEMMA StepTick ==
  ASSUME Inv, Tick
  PROVE  Inv' /\ Early
<1> DEFINE older(x) == [x EXCEPT !.left = IF @ < 0 THEN @ ELSE @ - 1]
           f == [i \in DOMAIN q.timers |-> older(q.timers[i])]
           fires == q.alarm = 1
           a == IF q.alarm = 0 THEN 0 ELSE q.alarm - 1
<1>1. /\ q' = [q EXCEPT !.timers = f, !.alarm = a, !.ticks = @ \/ fires, !.edge = @ \/ fires]
      /\ idle' = [c \in Conns |-> IF idle[c] > Timeout THEN idle[c] ELSE idle[c] + 1]
      /\ UNCHANGED <<conn, timerId, pc, todo, hastime, dying>>
  BY DEF Tick
<1>2. /\ q \in [timers : TimersType, timerId : 0..MaxId, alarm : 0..Timeout,
                ticks : BOOLEAN, edge : BOOLEAN]
      /\ DOMAIN q.timers \subseteq Id /\ q.timers \in [DOMAIN q.timers -> TimerRec]
      /\ Timeout \in Nat /\ MaxId \in Nat
  BY QueueTypeIs, TimersAre, TimerQueueAssumption DEF Inv, TypeOK
<1>3. /\ DOMAIN f = DOMAIN q.timers
      /\ \A i \in DOMAIN q.timers :
           /\ q.timers[i].left \in -1..Timeout /\ q.timers[i].conn \in Conns
           /\ f[i] \in TimerRec /\ f[i].conn = q.timers[i].conn
           /\ f[i].left = IF q.timers[i].left < 0 THEN q.timers[i].left ELSE q.timers[i].left - 1
  BY <1>2 DEF TimerRec
<1>4. f \in TimersType
  <2>1. f \in [DOMAIN f -> TimerRec]
    BY <1>3
  <2> QED BY <1>2, <1>3, <2>1, TimersAre
<1> HIDE DEF f
<1>5. a \in 0..Timeout
  BY <1>2
<1>6. /\ q' \in QueueType /\ q'.timers = f /\ q'.timerId = q.timerId /\ q'.alarm = a
      /\ q'.ticks = (q.ticks \/ fires) /\ q'.edge = (q.edge \/ fires)
  <2> HIDE DEF a, fires
  <2>1. q.ticks \in BOOLEAN /\ q.edge \in BOOLEAN /\ (q.ticks \/ fires) \in BOOLEAN
        /\ (q.edge \/ fires) \in BOOLEAN
    BY <1>2
  <2> QED BY <1>1, <1>2, <1>4, <1>5, <2>1, QueueTypeIs
<1>7. QInv(q, conn, timerId, idle) /\ dying \subseteq DOMAIN q.timers
  BY InvHas
<1>8. QInv(q', conn', timerId', idle')
  <2>1. Owned(q', conn', timerId') /\ DOMAIN q'.timers \subseteq 1..q'.timerId
    BY <1>1, <1>3, <1>6, <1>7 DEF QInv, Owned
  <2>2. Ordered(q')
    <3> SUFFICES ASSUME NEW i \in DOMAIN q.timers, NEW j \in DOMAIN q.timers, i < j
                 PROVE  f[i].left <= f[j].left
      BY <1>3, <1>6 DEF Ordered
    <3>1. q.timers[i].left <= q.timers[j].left
      BY <1>7 DEF QInv, Ordered
    <3> QED BY <1>2, <1>3, <3>1
  <2>3. Counts(q', conn', timerId', idle') /\ idle' \in [Conns -> 0..Timeout + 1]
    <3>1. ASSUME NEW c \in Conns, conn[c] = "live"
          PROVE  f[timerId[c]].left + idle'[c] = Timeout
      <4> DEFINE i == timerId[c]
      <4>1. i \in DOMAIN q.timers /\ q.timers[i].left + idle[c] = Timeout /\ idle[c] \in 0..Timeout + 1
        BY <1>7, <3>1 DEF QInv, Owned, Counts
      <4>2. idle'[c] = IF idle[c] > Timeout THEN idle[c] ELSE idle[c] + 1
        BY <1>1
      <4> HIDE DEF i
      <4>3. f[i].left + idle'[c] = Timeout
        BY <1>2, <1>3, <4>1, <4>2
      <4> QED BY <4>3 DEF i
    <3>2. idle' \in [Conns -> 0..Timeout + 1]
      <4>1. idle \in [Conns -> 0..Timeout + 1]
        BY DEF Inv, TypeOK
      <4> QED BY <1>1, <1>2, <4>1
    <3> QED BY <1>1, <1>6, <3>1, <3>2 DEF Counts
  <2> QED BY <1>1, <1>6, <1>7, <2>1, <2>2, <2>3 DEF QInv
<1>9. DyingDue'
  BY <1>1, <1>3, <1>6, <1>7 DEF Inv, DyingDue
<1>10. ClockSet'
  <2> SUFFICES ASSUME pc # "callbacks", NEW i \in DOMAIN q.timers, \A j \in DOMAIN q.timers : i <= j
               PROVE  IF f[i].left > 0 THEN q'.alarm = f[i].left ELSE q'.ticks
    BY <1>1, <1>3, <1>6 DEF ClockSet, ClockOK
  <2>1. IF q.timers[i].left > 0 THEN q.alarm = q.timers[i].left ELSE q.ticks
    BY DEF Inv, ClockSet, ClockOK
  <2>2. CASE q.timers[i].left > 0
    <3>1. /\ q.alarm = q.timers[i].left /\ q.alarm \in Int /\ q.alarm > 0
          /\ f[i].left = q.alarm - 1 /\ q'.alarm = q.alarm - 1
      BY <1>2, <1>3, <1>6, <2>1, <2>2
    <3>2. CASE q.alarm = 1
      BY <1>6, <3>1, <3>2
    <3>3. CASE q.alarm # 1
      BY <3>1, <3>3
    <3> QED BY <3>2, <3>3
  <2>3. CASE ~(q.timers[i].left > 0)
    BY <1>2, <1>3, <1>6, <2>1, <2>3
  <2> QED BY <2>2, <2>3
<1>11. EdgeKept' /\ Phases' /\ BatchFits'
  BY <1>1, <1>6 DEF Inv, EdgeKept, Phases, BatchFits
<1>12. /\ pc' \in {"poll", "batch", "callbacks", "tasks", "done"} /\ todo' \in SUBSET Conns
       /\ hastime' \in BOOLEAN /\ dying' \subseteq DOMAIN q'.timers
  BY <1>1, <1>3, <1>6, <1>7 DEF Inv, TypeOK
<1> QED
  BY <1>1, <1>8, <1>9, <1>10, <1>11, <1>12, InvFrom DEF Early

-----------------------------------------------------------------------------
(* The initial state.                                                      *)
LEMMA InvInit == Init => Inv
<1> SUFFICES ASSUME Init PROVE Inv
  OBVIOUS
<1> DEFINE e == <<>>
<1>1. DOMAIN e = {} /\ e \in [{} -> TimerRec] /\ 0 \in 0..MaxId /\ 0 \in 0..Timeout
  BY TimerQueueAssumption
<1>2. q \in QueueType /\ DOMAIN q.timers = {} /\ ~q.ticks
  <2>1. q = [timers |-> e, timerId |-> 0, alarm |-> 0, ticks |-> FALSE, edge |-> FALSE]
    BY DEF Init
  <2> HIDE DEF e
  <2>2. e \in TimersType
    BY <1>1, TimersAre
  <2> QED BY <1>1, <2>1, <2>2, QueueTypeIs
<1>3. TypeOK
  <2>1. conn \in [Conns -> {"none", "live", "dead"}] /\ timerId \in [Conns -> 0..MaxId]
    BY <1>1 DEF Init
  <2>2. 0 \in 0..Timeout + 1
    BY TimerQueueAssumption
  <2>3. idle \in [Conns -> 0..Timeout + 1]
    BY <2>2 DEF Init
  <2> QED BY <1>2, <2>1, <2>3 DEF Init, TypeOK
<1> QED
  BY <1>2, <1>3 DEF Init, Inv, Phases, BatchFits, OneTimerEach, LargerIdLater, DyingDue,
                    ClockSet, ClockOK, EdgeKept, IdleCounts

(* Every step keeps the invariant, and no callback comes too early.        *)
LEMMA InvStep == Inv /\ [Next]_vars => Inv' /\ [Early]_vars
<1> SUFFICES ASSUME Inv, [Next]_vars PROVE Inv' /\ [Early]_vars
  OBVIOUS
<1>1. CASE Next
  BY <1>1, StepStartConnect, StepActivity, StepLastAnswer, StepPoll, StepHandleRead,
     StepRunCallBack, StepEndCallBacks, StepAgain, StepStopTask, StepTick DEF Next, Loop
<1>2. CASE UNCHANGED vars
  BY <1>2 DEF vars, Inv, TypeOK, Phases, BatchFits, OneTimerEach, LargerIdLater, DyingDue,
              ClockSet, ClockOK, EdgeKept, IdleCounts
<1> QED
  BY <1>1, <1>2

(* The types of TimerQueue's variables: ids never run out within a batch,  *)
(* and no timer counts below -1.                                           *)
THEOREM TypeCorrect == Spec => []TypeOK
<1>1. Inv => TypeOK
  BY DEF Inv
<1> QED
  BY <1>1, InvInit, InvStep, PTL DEF Spec

(* OneTimerEach: no refresh, death, callback or stop leaves a connection   *)
(* with two timers, a dead one with any, or a callback without its timer.  *)
THEOREM EachHasOneTimer == Spec => []OneTimerEach
<1>1. Inv => OneTimerEach
  BY DEF Inv
<1> QED
  BY <1>1, InvInit, InvStep, PTL DEF Spec

(* LargerIdLater, on which the scan of handleRead and the choice of the    *)
(* first timer for the clock rest.                                         *)
THEOREM IdsAreInTimeOrder == Spec => []LargerIdLater
<1>1. Inv => LargerIdLater
  BY DEF Inv
<1> QED
  BY <1>1, InvInit, InvStep, PTL DEF Spec

(* DueIsReported: the first timer is due when any is, its tick has come,   *)
(* and a tick not yet read keeps the channel on the ready list.            *)
THEOREM NoTimerIsSleptOver == Spec => []DueIsReported
<1>1. Inv => DueIsReported
  <2> SUFFICES ASSUME Inv, pc = "poll", NEW i \in DOMAIN q.timers, q.timers[i].left <= 0
               PROVE  Ready
    BY DEF DueIsReported
  <2>1. /\ q \in QueueType /\ DOMAIN q.timers \in SUBSET Id /\ DOMAIN q.timers # {}
    BY QueueFields DEF Inv, TypeOK
  <2>2. PICK f \in DOMAIN q.timers : \A j \in DOMAIN q.timers : f <= j
    BY <2>1, LeastId
  <2>3. q.timers[f].left \in Int /\ q.timers[i].left \in Int /\ f \in Int /\ i \in Int
    BY <2>1, QueueFields, TimerQueueAssumption DEF Id
  <2>4. q.timers[f].left <= q.timers[i].left
    BY <2>2, <2>3 DEF Inv, LargerIdLater
  <2>5. ~(q.timers[f].left > 0)
    BY <2>3, <2>4
  <2>6. q.ticks
    BY <2>2, <2>5 DEF Inv, ClockSet, ClockOK
  <2> QED BY <2>6 DEF Inv, EdgeKept, Ready
<1> QED
  BY <1>1, InvInit, InvStep, PTL DEF Spec

(* NotTooEarly: what is left of a timer and the silence of its connection  *)
(* always add up to the timeout.                                           *)
THEOREM NoneClosedTooEarly == Spec => NotTooEarly
  BY InvInit, InvStep, PTL DEF Spec, NotTooEarly, Early
=============================================================================
