----------------------------- MODULE ThreadPool -----------------------------
(***************************************************************************)
(* ThreadPool.cpp: worker threads waiting on a condition variable, threads *)
(* that enqueue, and the thread that stops and joins.  What happens under  *)
(* queue_mtx is one step; a notification is a step of its own, after the   *)
(* lock has been released, and a waiting worker may wake up for no reason. *)
(***************************************************************************)
EXTENDS Naturals, Sequences, FiniteSets

CONSTANTS Workers,    \* the threads of the pool
          Producers,  \* the threads that call enqueue
          MaxTasks    \* bound: calls of enqueue by each producer

ASSUME ThreadPoolAssumption ==
  IsFiniteSet(Workers) /\ Workers # {} /\ IsFiniteSet(Producers) /\ MaxTasks \in Nat

Task == Producers \X (1..MaxTasks)

VARIABLES tasks,     \* the queue
          stop_,     \* the flag of stop()
          worker,    \* per worker: where it is
          task,      \* per worker: the task it runs
          calls,     \* per producer: calls of enqueue made
          notifying, \* producers between the push and notify_one
          stopper,   \* where stop() is
          accepted,  \* history: tasks enqueued
          finished   \* history: tasks run to their end

vars == <<tasks, stop_, worker, task, calls, notifying, stopper, accepted, finished>>

NoTask == <<>>
WorkersIn(at) == {w \in Workers : worker[w] = at}
Queued == {tasks[i] : i \in DOMAIN tasks}
InHand == {task[w] : w \in WorkersIn("running")}

TypeOK ==
  /\ tasks \in Seq(Task)
  /\ stop_ \in BOOLEAN
  /\ worker \in [Workers -> {"ready", "waiting", "running", "exited"}]
  /\ task \in [Workers -> Task \cup {NoTask}]
  /\ calls \in [Producers -> 0..MaxTasks]
  /\ notifying \in SUBSET Producers
  /\ stopper \in {"idle", "notify", "join", "joined"}
  /\ \A w \in Workers : IF worker[w] = "running" THEN task[w] \in Task ELSE task[w] = NoTask
  /\ accepted \in SUBSET Task
  /\ finished \in SUBSET Task

Init ==
  /\ tasks = <<>> /\ stop_ = FALSE
  /\ worker = [w \in Workers |-> "ready"]
  /\ task = [w \in Workers |-> NoTask]
  /\ calls = [p \in Producers |-> 0]
  /\ notifying = {} /\ stopper = "idle"
  /\ accepted = {} /\ finished = {}

-----------------------------------------------------------------------------
(* A worker's loop.                                                        *)

(* cv.wait releases the lock while stop_ || !tasks.empty() is false.       *)
wait(w) ==
  /\ worker[w] = "ready" /\ ~stop_ /\ tasks = <<>>
  /\ worker' = [worker EXCEPT ![w] = "waiting"]
  /\ UNCHANGED <<tasks, stop_, task, calls, notifying, stopper, accepted, finished>>

wakeSpuriously(w) ==
  /\ worker[w] = "waiting"
  /\ worker' = [worker EXCEPT ![w] = "ready"]
  /\ UNCHANGED <<tasks, stop_, task, calls, notifying, stopper, accepted, finished>>

(* Mistake: stop_ alone ends the worker.                                   *)
exit_LeavesTasks(w) ==
  /\ worker[w] = "ready" /\ stop_
  /\ worker' = [worker EXCEPT ![w] = "exited"]
  /\ UNCHANGED <<tasks, stop_, task, calls, notifying, stopper, accepted, finished>>

exit(w) ==
  /\ worker[w] = "ready" /\ stop_ /\ tasks = <<>>
  /\ worker' = [worker EXCEPT ![w] = "exited"]
  /\ UNCHANGED <<tasks, stop_, task, calls, notifying, stopper, accepted, finished>>

(* Mistake: the front of the queue is read but not popped.                 *)
take_NoPop(w) ==
  /\ worker[w] = "ready" /\ tasks # <<>>
  /\ task' = [task EXCEPT ![w] = Head(tasks)]
  /\ worker' = [worker EXCEPT ![w] = "running"]
  /\ UNCHANGED <<tasks, stop_, calls, notifying, stopper, accepted, finished>>

take(w) ==
  /\ worker[w] = "ready" /\ tasks # <<>>
  /\ task' = [task EXCEPT ![w] = Head(tasks)]
  /\ tasks' = Tail(tasks)
  /\ worker' = [worker EXCEPT ![w] = "running"]
  /\ UNCHANGED <<stop_, calls, notifying, stopper, accepted, finished>>

(* Mistake: the finished task stays with the worker.                       *)
finish_KeepsTask(w) ==
  /\ worker[w] = "running"
  /\ finished' = finished \cup {task[w]}
  /\ worker' = [worker EXCEPT ![w] = "ready"]
  /\ UNCHANGED <<tasks, stop_, task, calls, notifying, stopper, accepted>>

finish(w) ==
  /\ worker[w] = "running"
  /\ finished' = finished \cup {task[w]}
  /\ task' = [task EXCEPT ![w] = NoTask]
  /\ worker' = [worker EXCEPT ![w] = "ready"]
  /\ UNCHANGED <<tasks, stop_, calls, notifying, stopper, accepted>>

-----------------------------------------------------------------------------
(* enqueue: throw if stopped, push, then notify_one outside the lock.      *)

Call(p) ==
  /\ p \notin notifying /\ calls[p] < MaxTasks
  /\ calls' = [calls EXCEPT ![p] = @ + 1]
Push(p) ==
  /\ tasks' = Append(tasks, <<p, calls[p] + 1>>)
  /\ accepted' = accepted \cup {<<p, calls[p] + 1>>}

(* Mistake: the flag is not looked at under the lock.                      *)
enqueue_EvenStopped(p) ==
  /\ Call(p) /\ Push(p)
  /\ notifying' = notifying \cup {p}
  /\ UNCHANGED <<stop_, worker, task, stopper, finished>>
(* Mistake: only the first task of a non-empty queue is announced.         *)
enqueue_NotifiesFirst(p) ==
  /\ Call(p)
  /\ IF stop_ THEN UNCHANGED <<tasks, accepted, notifying>>
     ELSE Push(p) /\ notifying' = IF tasks = <<>> THEN notifying \cup {p} ELSE notifying
  /\ UNCHANGED <<stop_, worker, task, stopper, finished>>

enqueue(p) ==
  /\ Call(p)
  /\ IF stop_ THEN UNCHANGED <<tasks, accepted, notifying>>
     ELSE Push(p) /\ notifying' = notifying \cup {p}
  /\ UNCHANGED <<stop_, worker, task, stopper, finished>>

notify_one(p) ==
  /\ p \in notifying
  /\ notifying' = notifying \ {p}
  /\ IF WorkersIn("waiting") = {} THEN UNCHANGED worker
     ELSE \E w \in WorkersIn("waiting") : worker' = [worker EXCEPT ![w] = "ready"]
  /\ UNCHANGED <<tasks, stop_, task, calls, stopper, accepted, finished>>

-----------------------------------------------------------------------------
(* stop: set the flag under the lock, notify_all, join every worker.       *)

stopFlag ==
  /\ stopper = "idle" /\ stopper' = "notify"
  /\ stop_' = TRUE
  /\ UNCHANGED <<tasks, worker, task, calls, notifying, accepted, finished>>

(* Mistake: one waiting worker is told, not all of them.                   *)
notify_all_One ==
  /\ stopper = "notify" /\ stopper' = "join"
  /\ IF WorkersIn("waiting") = {} THEN UNCHANGED worker
     ELSE \E w \in WorkersIn("waiting") : worker' = [worker EXCEPT ![w] = "ready"]
  /\ UNCHANGED <<tasks, stop_, task, calls, notifying, accepted, finished>>

notify_all ==
  /\ stopper = "notify" /\ stopper' = "join"
  /\ worker' = [w \in Workers |-> IF worker[w] = "waiting" THEN "ready" ELSE worker[w]]
  /\ UNCHANGED <<tasks, stop_, task, calls, notifying, accepted, finished>>

join ==
  /\ stopper = "join" /\ WorkersIn("exited") = Workers
  /\ stopper' = "joined"
  /\ UNCHANGED <<tasks, stop_, worker, task, calls, notifying, accepted, finished>>

-----------------------------------------------------------------------------
Worker(w) == wait(w) \/ exit(w) \/ take(w) \/ finish(w)
Stop == stopFlag \/ notify_all \/ join

Next ==
  \/ \E w \in Workers : Worker(w) \/ wakeSpuriously(w)
  \/ \E p \in Producers : enqueue(p) \/ notify_one(p)
  \/ Stop

Spec == Init /\ [][Next]_vars

(* Threads that can run do.  Nobody has to call enqueue or stop, a waiting *)
(* worker is owed no wakeup, and tasks come to their end.                  *)
Fairness ==
  /\ \A w \in Workers : WF_vars(Worker(w))
  /\ \A p \in Producers : WF_vars(notify_one(p))
  /\ WF_vars(notify_all \/ join)

FairSpec == Spec /\ Fairness

-----------------------------------------------------------------------------
(* As long as a worker sleeps, every queued task has a worker on its way   *)
(* to it, or a notification still to be sent: no task waits for a thread   *)
(* while a thread waits for a task.                                        *)
WorkConserving ==
  WorkersIn("waiting") # {} =>
    Len(tasks) <= Cardinality(WorkersIn("ready")) + Cardinality(notifying)

(* A task that enqueue accepted is in exactly one place: the queue, in the *)
(* hands of one worker, or finished.                                       *)
EachTaskOnce ==
  /\ accepted = Queued \cup InHand \cup finished
  /\ Queued \cap InHand = {} /\ Queued \cap finished = {} /\ InHand \cap finished = {}
  /\ \A i, j \in DOMAIN tasks : tasks[i] = tasks[j] => i = j
  /\ \A v, w \in WorkersIn("running") : task[v] = task[w] => v = w

(* A worker exits only when the pool is stopped and its queue empty, and   *)
(* nothing is queued after that.                                           *)
ExitedIsDrained ==
  WorkersIn("exited") # {} => stop_ /\ tasks = <<>>

(* When stop() returns, every task that enqueue accepted has been run.     *)
StopRunsAll == stopper = "joined" => finished = accepted

(* An accepted task is run, before or after the pool is stopped.           *)
AcceptedIsRun == \A t \in Task : t \in accepted ~> t \in finished

(* stop() returns.                                                         *)
StopReturns == stop_ ~> stopper = "joined"
=============================================================================
