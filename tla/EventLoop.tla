----------------------------- MODULE EventLoop ------------------------------
(***************************************************************************)
(* How tasks reach the thread of an EventLoop: enqueueTask and the eventfd *)
(* on one side, loop, readCallback and stopLoop on the other, step by step *)
(* between the calling threads and the loop thread.  The other channels of *)
(* the loop appear through what they do to this protocol: they wake the    *)
(* loop, and their handlers (like the tasks) call enqueueTask from within. *)
(***************************************************************************)
EXTENDS Naturals, Sequences

CONSTANTS Others,     \* threads that call enqueueTask: reactors, workers, main
          Main,       \* the one of them that posts the stop task
          LoopThread, \* the thread that runs loop()
          MaxPosts    \* bound: calls of enqueueTask by each thread

ASSUME EventLoopAssumption ==
  Main \in Others /\ LoopThread \notin Others /\ MaxPosts \in Nat

Threads == Others \cup {LoopThread}
Task == [by : Threads, nr : 1..MaxPosts, kind : {"work", "stop"}]

VARIABLES tasks,   \* EventLoop::tasks, guarded by queue_mtx
          funcs,   \* the local copy that loop() runs
          ran,     \* tasks run so far, in order
          stop,    \* EventLoop::stop
          efd,     \* the counter of eloopFd
          armed,   \* eloopFd is on the ready list of the epoll instance
          batch,   \* eloopChannel is in the batch being handled
          lpc,     \* where loop() is
          calls,   \* calls of enqueueTask made, per thread
          at,      \* where each thread is in enqueueTask
          arg      \* the task it is about to push

vars == <<tasks, funcs, ran, stop, efd, armed, batch, lpc, calls, at, arg>>

NoTask == <<>>

TypeOK ==
  /\ tasks \in Seq(Task) /\ funcs \in Seq(Task) /\ ran \in Seq(Task)
  /\ stop \in BOOLEAN /\ efd \in Nat /\ armed \in BOOLEAN /\ batch \in BOOLEAN
  /\ lpc \in {"poll", "handle", "run", "done"}
  /\ calls \in [Threads -> 0..MaxPosts]
  /\ at \in [Threads -> {"idle", "push", "wake"}]
  /\ arg \in [Threads -> Task \cup {NoTask}]
  /\ \A t \in Threads : at[t] = "push" => arg[t] \in Task
  /\ batch => lpc = "handle"

Init ==
  /\ tasks = <<>> /\ funcs = <<>> /\ ran = <<>>
  /\ stop = FALSE /\ efd = 0 /\ armed = FALSE /\ batch = FALSE /\ lpc = "poll"
  /\ calls = [t \in Threads |-> 0]
  /\ at = [t \in Threads |-> "idle"]
  /\ arg = [t \in Threads |-> NoTask]

-----------------------------------------------------------------------------
(* enqueueTask: read stop, push under the lock, write the eventfd.  On the *)
(* loop thread it is called from handlers and from tasks.                  *)

MayCall(t) == t = LoopThread => lpc \in {"handle", "run"}
StopPosted == \E i \in DOMAIN (ran \o funcs \o tasks) : (ran \o funcs \o tasks)[i].kind = "stop"
Kinds(t) == IF t = Main THEN {"work", "stop"} ELSE {"work"}

enqueueTask(t) ==
  /\ at[t] = "idle" /\ MayCall(t)
  /\ calls[t] < MaxPosts
  /\ calls' = [calls EXCEPT ![t] = @ + 1]
  /\ IF stop THEN UNCHANGED <<at, arg>>
     ELSE /\ \E k \in Kinds(t) :
               /\ k = "stop" => ~StopPosted
               /\ arg' = [arg EXCEPT ![t] = [by |-> t, nr |-> calls[t] + 1, kind |-> k]]
          /\ at' = [at EXCEPT ![t] = "push"]
  /\ UNCHANGED <<tasks, funcs, ran, stop, efd, armed, batch, lpc>>

(* Mistake: no wakeup for a task posted by the loop thread itself.         *)
push_WakesOnlyForOthers(t) ==
  /\ at[t] = "push"
  /\ tasks' = Append(tasks, arg[t])
  /\ at' = [at EXCEPT ![t] = IF t = LoopThread THEN "idle" ELSE "wake"]
  /\ arg' = [arg EXCEPT ![t] = NoTask]
  /\ UNCHANGED <<funcs, ran, stop, efd, armed, batch, lpc, calls>>

push(t) ==
  /\ at[t] = "push"
  /\ tasks' = Append(tasks, arg[t])
  /\ at' = [at EXCEPT ![t] = "wake"]
  /\ arg' = [arg EXCEPT ![t] = NoTask]
  /\ UNCHANGED <<funcs, ran, stop, efd, armed, batch, lpc, calls>>

(* Mistake: a loop that is not waiting needs no wakeup.                    *)
wake_OnlyAsleep(t) ==
  /\ at[t] = "wake"
  /\ at' = [at EXCEPT ![t] = "idle"]
  /\ IF lpc = "poll" THEN efd' = efd + 1 /\ armed' = TRUE ELSE UNCHANGED <<efd, armed>>
  /\ UNCHANGED <<tasks, funcs, ran, stop, batch, lpc, calls, arg>>

wake(t) ==
  /\ at[t] = "wake"
  /\ efd' = efd + 1 /\ armed' = TRUE
  /\ at' = [at EXCEPT ![t] = "idle"]
  /\ UNCHANGED <<tasks, funcs, ran, stop, batch, lpc, calls, arg>>

-----------------------------------------------------------------------------
(* loop: while (!stop) { poll; handle; drain; run }.                       *)

LoopIsFree == at[LoopThread] = "idle"

(* epoll_wait returns for the eventfd or for any other descriptor; either  *)
(* way it reports the eventfd if that is on the ready list and readable.   *)
Return ==
  /\ lpc = "poll" /\ lpc' = "handle"
  /\ batch' = (armed /\ efd > 0)
  /\ armed' = FALSE
  /\ UNCHANGED <<tasks, funcs, ran, stop, efd, calls, at, arg>>
poll == armed /\ efd > 0 /\ Return
pollOther == Return

readCallback ==
  /\ lpc = "handle" /\ batch /\ LoopIsFree
  /\ efd' = 0 /\ batch' = FALSE
  /\ UNCHANGED <<tasks, funcs, ran, stop, armed, lpc, calls, at, arg>>

(* Mistakes: the queue is copied but not emptied; it is drained before the *)
(* eventfd's channel has been handled.                                     *)
drain_Copies ==
  /\ lpc = "handle" /\ ~batch /\ LoopIsFree
  /\ funcs' = tasks
  /\ lpc' = "run"
  /\ UNCHANGED <<tasks, ran, stop, efd, armed, batch, calls, at, arg>>
drain_TooEarly ==
  /\ lpc = "handle" /\ LoopIsFree
  /\ funcs' = tasks /\ tasks' = <<>>
  /\ lpc' = "run"
  /\ UNCHANGED <<ran, stop, efd, armed, batch, calls, at, arg>>

drain ==
  /\ lpc = "handle" /\ ~batch /\ LoopIsFree
  /\ funcs' = tasks /\ tasks' = <<>>
  /\ lpc' = "run"
  /\ UNCHANGED <<ran, stop, efd, armed, batch, calls, at, arg>>

(* The stop task calls stopLoop; the rest of funcs still runs.             *)
runTask ==
  /\ lpc = "run" /\ funcs # <<>> /\ LoopIsFree
  /\ ran' = Append(ran, Head(funcs))
  /\ funcs' = Tail(funcs)
  /\ stop' = (stop \/ Head(funcs).kind = "stop")
  /\ UNCHANGED <<tasks, efd, armed, batch, lpc, calls, at, arg>>

again ==
  /\ lpc = "run" /\ funcs = <<>> /\ LoopIsFree
  /\ lpc' = IF stop THEN "done" ELSE "poll"
  /\ UNCHANGED <<tasks, funcs, ran, stop, efd, armed, batch, calls, at, arg>>

-----------------------------------------------------------------------------
Loop == poll \/ readCallback \/ drain \/ runTask \/ again

Next ==
  \/ Loop \/ pollOther
  \/ \E t \in Threads : enqueueTask(t) \/ push(t) \/ wake(t)

Spec == Init /\ [][Next]_vars

(* The loop thread runs, and a thread inside enqueueTask gets to its end.  *)
(* Nobody has to call it, and no other descriptor has to become ready.     *)
Fairness ==
  /\ WF_vars(Loop)
  /\ \A t \in Threads : WF_vars(push(t) \/ wake(t))

FairSpec == Spec /\ Fairness

-----------------------------------------------------------------------------
(* The loop never sleeps on a queued task.  A task that the drain of the   *)
(* current iteration missed has its wakeup still to come: the eventfd is   *)
(* readable and on its way to be reported, or the thread that queued the   *)
(* task has still to write it.                                             *)
NoLostWakeup ==
  lpc \in {"poll", "run"} /\ tasks # <<>> =>
    (armed /\ efd > 0) \/ \E t \in Threads : at[t] = "wake"

(* enqueueTask implements the queue of module TaskQueue: the pending tasks *)
(* are those of funcs, then those of tasks.                                *)
TQ == INSTANCE TaskQueue WITH queue <- funcs \o tasks, closed <- (lpc = "done")
ImplementsTaskQueue == TQ!Spec

(* A queued task runs, whichever thread queued it and whatever the loop    *)
(* was doing, unless the loop ends first.                                  *)
QueuedIsRun ==
  \A t \in Task :
    (\E i \in DOMAIN tasks : tasks[i] = t)
      ~> (\E i \in DOMAIN ran : ran[i] = t) \/ lpc = "done"

(* Once the stop task is queued the loop ends, however busy it is kept:    *)
(* SubReactor::stop and MainReactor::stop, which join the thread, return.  *)
StopEnds == StopPosted ~> lpc = "done"
=============================================================================
