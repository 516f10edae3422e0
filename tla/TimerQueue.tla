----------------------------- MODULE TimerQueue -----------------------------
(***************************************************************************)
(* TimerQueue.cpp: the idle timers of the connections of one loop, the     *)
(* timerfd set to the first of them, and the edge-triggered channel that   *)
(* reports it.  Around it the steps of EventLoop::loop that use it: the    *)
(* channels of a batch, the timer channel after them, then the tasks.      *)
(*                                                                         *)
(* Times are relative: what is left of a timer, what is left until the     *)
(* alarm.  Time may pass before every step.                                *)
(***************************************************************************)
EXTENDS Integers, FiniteSets, Functions

CONSTANTS Conns,      \* the connections of the loop
          Timeout,    \* 60 s, in ticks
          MaxEvents,  \* MAX_EVENTS: how many descriptors one epoll_wait reports
          MaxId       \* bound: how many timers are ever added

ASSUME TimerQueueAssumption ==
  IsFiniteSet(Conns) /\ Timeout \in Nat \ {0} /\ MaxEvents \in Nat \ {0} /\ MaxId \in Nat

VARIABLES
  q,        \* the TimerQueue and its timerfd
  conn,     \* per connection: whether it is alive
  timerId,  \* per connection: Connection::timerId
  pc,       \* where the loop is
  todo,     \* the connections of the batch not yet handled
  hastime,  \* the batch contains the timer channel
  dying,    \* dyingTimers, those whose callback is still to run
  idle      \* history, per connection: time since its timer was last set

vars == <<q, conn, timerId, pc, todo, hastime, dying, idle>>

Id == 1..MaxId
QueueType ==
  [timers  : UNION {[ids -> [left : -1..Timeout, conn : Conns]] : ids \in SUBSET Id},
   timerId : 0..MaxId,
   alarm   : 0..Timeout,   \* what the timerfd is set to, 0: off
   ticks   : BOOLEAN,      \* the timerfd is readable
   edge    : BOOLEAN]      \* on the ready list of the epoll instance

TypeOK ==
  /\ q \in QueueType
  /\ DOMAIN q.timers \subseteq 1..q.timerId
  /\ conn \in [Conns -> {"none", "live", "dead"}]
  /\ timerId \in [Conns -> 0..MaxId]
  /\ pc \in {"poll", "batch", "callbacks", "tasks", "done"}
  /\ todo \in SUBSET Conns
  /\ hastime \in BOOLEAN
  /\ dying \in SUBSET Id
  /\ idle \in [Conns -> 0..Timeout + 1]

Init ==
  /\ q = [timers |-> <<>>, timerId |-> 0, alarm |-> 0, ticks |-> FALSE, edge |-> FALSE]
  /\ conn = [c \in Conns |-> "none"] /\ timerId = [c \in Conns |-> 0]
  /\ pc = "poll" /\ todo = {} /\ hastime = FALSE /\ dying = {}
  /\ idle = [c \in Conns |-> 0]

-----------------------------------------------------------------------------
(* TimerQueue.  f_X is f with the mistake X; no action uses it.            *)

First(t) == CHOOSE i \in DOMAIN t : \A j \in DOMAIN t : i <= j

(* timerfd_settime clears the ticks; a time that has come fires at once.   *)
refreshClock(t) ==
  IF DOMAIN t.timers = {} THEN [t EXCEPT !.alarm = 0, !.ticks = FALSE]
  ELSE LET left == t.timers[First(t.timers)].left
       IN  IF left > 0 THEN [t EXCEPT !.alarm = left, !.ticks = FALSE]
           ELSE [t EXCEPT !.alarm = 0, !.ticks = TRUE, !.edge = TRUE]

WithTimer(t, id, c) ==
  [t EXCEPT !.timers = [i \in DOMAIN @ \cup {id} |->
                          IF i = id THEN [left |-> Timeout, conn |-> c] ELSE @[i]]]

addTimer_CountsAfter(t, c) ==
  refreshClock([WithTimer(t, t.timerId, c) EXCEPT !.timerId = @ + 1])
addTimer_ReusesIds(t, c) ==
  LET free == {i \in 1..t.timerId + 1 : i \notin DOMAIN t.timers}
  IN  refreshClock([WithTimer(t, CHOOSE i \in free : \A j \in free : i <= j, c)
                      EXCEPT !.timerId = @ + 1])
addTimer(t, c) ==
  refreshClock([WithTimer(t, t.timerId + 1, c) EXCEPT !.timerId = @ + 1])

Without(t, id) == [t EXCEPT !.timers = Restrict(@, DOMAIN @ \ {id})]

deleteTimer_SetsNoClock(t, id) ==
  IF id \notin DOMAIN t.timers THEN t
  ELSE [Without(t, id) EXCEPT !.alarm = 0, !.ticks = FALSE]
deleteTimer(t, id) ==
  IF id \notin DOMAIN t.timers THEN t ELSE refreshClock(Without(t, id))

(* The scan of handleRead: from the smallest id on, while the timer is due.*)
Due(t) ==
  {i \in DOMAIN t.timers : \A j \in DOMAIN t.timers : j <= i => t.timers[j].left < 0}

-----------------------------------------------------------------------------
(* Connection: what it does to its timer.                                  *)

refreshTimer_KeepsOld(t, c) == addTimer(t, c)
refreshTimer(t, c) == addTimer(deleteTimer(t, timerId[c]), c)

handleDead_KeepsTimer(t, c, id) == t
handleDead(t, c, id) == deleteTimer(t, id)

HasIds(n) == q.timerId + n <= MaxId

(* startConnect of a new connection.                                       *)
startConnect(c) ==
  /\ pc = "tasks" /\ conn[c] = "none" /\ HasIds(1)
  /\ conn' = [conn EXCEPT ![c] = "live"]
  /\ q' = addTimer(q, c)
  /\ timerId' = [timerId EXCEPT ![c] = q'.timerId]
  /\ idle' = [idle EXCEPT ![c] = 0]
  /\ UNCHANGED <<pc, todo, hastime, dying>>

(* A read or write callback refreshes the timer, and may end in an error.  *)
activity(c) ==
  /\ pc = "batch" /\ c \in todo
  /\ todo' = todo \ {c}
  /\ LET r == refreshTimer(q, c)
     IN  /\ timerId' = [timerId EXCEPT ![c] = r.timerId]
         /\ \/ q' = r /\ UNCHANGED conn
            \/ q' = handleDead(r, c, r.timerId) /\ conn' = [conn EXCEPT ![c] = "dead"]
  /\ idle' = [idle EXCEPT ![c] = 0]
  /\ UNCHANGED <<pc, hastime, dying>>

(* A connection that dies of a worker's answer.                            *)
lastAnswer(c) ==
  /\ pc = "tasks" /\ conn[c] = "live"
  /\ conn' = [conn EXCEPT ![c] = "dead"]
  /\ q' = handleDead(q, c, timerId[c])
  /\ UNCHANGED <<timerId, pc, todo, hastime, dying, idle>>

-----------------------------------------------------------------------------
(* EventLoop::loop.                                                        *)

(* A batch holds at most MaxEvents descriptors, the eventfd among them;    *)
(* the timer channel stays on the ready list when it finds no place.       *)
Ready == q.edge /\ q.ticks
FitsTimer(batch) == Cardinality(batch) < MaxEvents
LeavesTimer(batch) == Cardinality(batch) + 1 >= MaxEvents
poll ==
  /\ pc = "poll" /\ pc' = "batch"
  /\ todo' \in {batch \in SUBSET {c \in Conns : conn[c] = "live"} :
                 Cardinality(batch) <= MaxEvents /\ HasIds(Cardinality(batch))}
  /\ \/ FitsTimer(todo') /\ hastime' = Ready
     \/ LeavesTimer(todo') /\ hastime' = FALSE
  /\ q' = [q EXCEPT !.edge = Ready /\ ~hastime']
  /\ UNCHANGED <<conn, timerId, dying, idle>>

(* The timer channel comes last; it reads nothing if the clock has been    *)
(* set again since it was reported.                                        *)
handleRead ==
  /\ pc = "batch" /\ todo = {}
  /\ IF hastime /\ q.ticks
     THEN pc' = "callbacks" /\ dying' = Due(q) /\ q' = [q EXCEPT !.ticks = FALSE]
     ELSE pc' = "tasks" /\ UNCHANGED <<dying, q>>
  /\ UNCHANGED <<conn, timerId, todo, hastime, idle>>

(* timers[id]->runCallBack() is handleDead, then timers.erase(id).         *)
runCallBack(id) ==
  /\ pc = "callbacks" /\ id \in dying /\ \A i \in dying : id <= i
  /\ dying' = dying \ {id}
  /\ LET c == q.timers[id].conn
     IN  IF conn[c] = "live"
         THEN /\ conn' = [conn EXCEPT ![c] = "dead"]
              /\ q' = Without(handleDead(q, c, timerId[c]), id)
         ELSE q' = Without(q, id) /\ UNCHANGED conn
  /\ UNCHANGED <<timerId, pc, todo, hastime, idle>>

endCallBacks_SetsNoClock ==
  /\ pc = "callbacks" /\ dying = {} /\ pc' = "tasks"
  /\ UNCHANGED <<q, conn, timerId, todo, hastime, dying, idle>>
endCallBacks ==
  /\ pc = "callbacks" /\ dying = {} /\ pc' = "tasks"
  /\ q' = refreshClock(q)
  /\ UNCHANGED <<conn, timerId, todo, hastime, dying, idle>>

again ==
  /\ pc = "tasks" /\ pc' = "poll"
  /\ UNCHANGED <<q, conn, timerId, todo, hastime, dying, idle>>

(* SubReactor::stop's task: every connection deletes its timer, then       *)
(* TimerQueue::stop disables the channel and the loop ends.                *)
stopTask ==
  /\ pc = "tasks" /\ pc' = "done"
  /\ conn' = [c \in Conns |-> IF conn[c] = "live" THEN "dead" ELSE conn[c]]
  /\ LET kept == {i \in DOMAIN q.timers : \A c \in Conns : conn[c] = "live" => i # timerId[c]}
     IN  q' = [refreshClock([q EXCEPT !.timers = Restrict(@, kept)]) EXCEPT !.edge = FALSE]
  /\ UNCHANGED <<timerId, todo, hastime, dying, idle>>

(* One tick of CLOCK_MONOTONIC.                                            *)
Tick ==
  LET older(r) == [r EXCEPT !.left = IF @ < 0 THEN @ ELSE @ - 1]
      fires == q.alarm = 1
  IN  /\ q' = [q EXCEPT !.timers = [i \in DOMAIN @ |-> older(@[i])],
                        !.alarm = IF @ = 0 THEN 0 ELSE @ - 1,
                        !.ticks = @ \/ fires, !.edge = @ \/ fires]
      /\ idle' = [c \in Conns |-> IF idle[c] > Timeout THEN idle[c] ELSE idle[c] + 1]
      /\ UNCHANGED <<conn, timerId, pc, todo, hastime, dying>>

-----------------------------------------------------------------------------
(* The steps of an iteration, and those taken when there is something to   *)
(* report; a loop with nothing to do stays in epoll_wait.                  *)
Loop ==
  \/ (\E c \in Conns : activity(c)) \/ handleRead \/ (\E id \in Id : runCallBack(id))
  \/ endCallBacks \/ again

Next ==
  \/ Loop \/ poll \/ stopTask \/ Tick
  \/ \E c \in Conns : startConnect(c) \/ lastAnswer(c)

Spec == Init /\ [][Next]_vars

(* The thread runs, epoll_wait returns when the timer channel is ready,    *)
(* and time passes; connections owe no activity.                           *)
FairSpec ==
  /\ Spec
  /\ WF_vars(Loop)
  /\ WF_vars(Ready /\ poll)
  /\ WF_vars(Tick)

-----------------------------------------------------------------------------
(* A live connection has one timer, the one whose id it remembers; a dead  *)
(* one has none; and a callback still to run has not been erased, so       *)
(* timers[id] finds it and does not insert an empty one.                   *)
OneTimerEach ==
  /\ \A c \in Conns :
       {i \in DOMAIN q.timers : q.timers[i].conn = c} = IF conn[c] = "live" THEN {timerId[c]} ELSE {}
  /\ dying \subseteq DOMAIN q.timers

(* The loop never sleeps over a timer: when one is due, the timer channel  *)
(* is ready, whatever the refreshes before it did to the clock.            *)
DueIsReported ==
  pc = "poll" => \A i \in DOMAIN q.timers : q.timers[i].left <= 0 => Ready

(* A timer closes only a connection silent for the whole timeout: a        *)
(* refresh in the batch, or just before the scan, is always in time.       *)
NotTooEarly ==
  [][\A c \in Conns :
       pc = "callbacks" /\ conn[c] = "live" /\ conn'[c] = "dead" => idle[c] >= Timeout]_vars

(* Timers are ordered by id: the larger the id, the later it fires         *)
(* (TimerQueue.h), which is why the scan may stop at the first not due.    *)
LargerIdLater ==
  \A i, j \in DOMAIN q.timers : i < j => q.timers[i].left <= q.timers[j].left

(* A connection that stays silent is closed in the end.                    *)
IdleIsClosed == \A c \in Conns : conn[c] = "live" ~> conn[c] = "dead"
=============================================================================
