-------------------------- MODULE EventLoopProofs ---------------------------
(* What TLAPS proves of EventLoop, for any number of threads and calls.    *)
EXTENDS EventLoop, SequenceTheorems, TLAPS

(* The types of EventLoop::loop's and enqueueTask's variables; a batch     *)
(* with the eventfd in it is always handled before the drain.              *)
THEOREM TypeCorrect == Spec => []TypeOK
<1>1. Init => TypeOK
  <2> SUFFICES ASSUME Init PROVE TypeOK
    OBVIOUS
  <2>1. tasks \in Seq(Task) /\ funcs \in Seq(Task) /\ ran \in Seq(Task)
    BY DEF Init
  <2>2. calls \in [Threads -> 0..MaxPosts]
    BY EventLoopAssumption DEF Init
  <2>3. /\ at \in [Threads -> {"idle", "push", "wake"}]
        /\ arg \in [Threads -> Task \cup {NoTask}]
        /\ \A t \in Threads : at[t] # "push"
    BY DEF Init
  <2> QED
    BY <2>1, <2>2, <2>3 DEF Init, TypeOK
<1>2. TypeOK /\ [Next]_vars => TypeOK'
  <2> SUFFICES ASSUME TypeOK, [Next]_vars PROVE TypeOK'
    OBVIOUS
  <2> USE DEF TypeOK
  <2>1. ASSUME NEW t \in Threads, enqueueTask(t) PROVE TypeOK'
    <3>1. calls' \in [Threads -> 0..MaxPosts] /\ calls[t] + 1 \in 1..MaxPosts
      BY <2>1, EventLoopAssumption DEF enqueueTask
    <3>2. CASE stop
      BY <2>1, <3>1, <3>2 DEF enqueueTask
    <3>3. CASE ~stop
      <4>1. PICK k \in Kinds(t) :
              arg' = [arg EXCEPT ![t] = [by |-> t, nr |-> calls[t] + 1, kind |-> k]]
        BY <2>1, <3>3 DEF enqueueTask
      <4>2. [by |-> t, nr |-> calls[t] + 1, kind |-> k] \in Task
        BY <3>1, <4>1 DEF Kinds, Task
      <4>3. arg' \in [Threads -> Task \cup {NoTask}] /\ arg'[t] \in Task
              /\ \A u \in Threads \ {t} : arg'[u] = arg[u]
        BY <4>1, <4>2
      <4> QED BY <2>1, <3>1, <3>3, <4>3 DEF enqueueTask
    <3> QED BY <3>2, <3>3
  <2>2. ASSUME NEW t \in Threads, push(t) PROVE TypeOK'
    <3>1. Append(tasks, arg[t]) \in Seq(Task)
      BY <2>2 DEF push
    <3> QED BY <2>2, <3>1 DEF push
  <2>3. ASSUME NEW t \in Threads, wake(t) PROVE TypeOK'
    BY <2>3 DEF wake
  <2>4. CASE Return
    BY <2>4 DEF Return
  <2>5. CASE readCallback
    BY <2>5 DEF readCallback
  <2>6. CASE drain
    BY <2>6 DEF drain
  <2>7. CASE runTask
    <3>1. Head(funcs) \in Task /\ Tail(funcs) \in Seq(Task)
      BY <2>7 DEF runTask
    <3>2. Append(ran, Head(funcs)) \in Seq(Task)
      BY <3>1
    <3>3. stop' \in BOOLEAN
      BY <2>7 DEF runTask
    <3> QED BY <2>7, <3>1, <3>2, <3>3 DEF runTask
  <2>8. CASE again
    BY <2>8 DEF again
  <2>9. CASE UNCHANGED vars
    BY <2>9 DEF vars
  <2> QED
    BY <2>1, <2>2, <2>3, <2>4, <2>5, <2>6, <2>7, <2>8, <2>9 DEF Next, Loop, poll, pollOther
<1> QED
  BY <1>1, <1>2, PTL DEF Spec

(* NoLostWakeup is not inductive: it needs that a readable eventfd is      *)
(* always on the ready list or in the batch being handled.                 *)
ReadableIsSeen == efd > 0 => armed \/ batch
WakeupInv == ReadableIsSeen /\ NoLostWakeup

(* The loop never goes to sleep on a queued task, and a task queued while  *)
(* it runs others wakes it for the next iteration (enqueueTask's write of  *)
(* the eventfd against readCallback and the drain).                        *)
THEOREM WakeupIsNeverLost == Spec => []NoLostWakeup
<1>1. Init => WakeupInv
  BY DEF Init, WakeupInv, ReadableIsSeen, NoLostWakeup
<1>2. TypeOK /\ TypeOK' /\ WakeupInv /\ [Next]_vars => WakeupInv'
  <2> SUFFICES ASSUME TypeOK, TypeOK', WakeupInv, [Next]_vars PROVE WakeupInv'
    OBVIOUS
  <2> USE DEF TypeOK, WakeupInv, ReadableIsSeen, NoLostWakeup
  <2>1. ASSUME NEW t \in Threads, enqueueTask(t) PROVE WakeupInv'
    <3>1. \A u \in Threads : at[u] = "wake" => at'[u] = "wake"
      BY <2>1 DEF enqueueTask
    <3> QED BY <2>1, <3>1 DEF enqueueTask
  <2>2. ASSUME NEW t \in Threads, push(t) PROVE WakeupInv'
    BY <2>2 DEF push
  <2>3. ASSUME NEW t \in Threads, wake(t) PROVE WakeupInv'
    BY <2>3 DEF wake
  <2>4. CASE Return
    BY <2>4 DEF Return
  <2>5. CASE readCallback
    BY <2>5 DEF readCallback
  <2>6. CASE drain
    BY <2>6 DEF drain
  <2>7. CASE runTask
    BY <2>7 DEF runTask
  <2>8. CASE again
    BY <2>8 DEF again
  <2>9. CASE UNCHANGED vars
    BY <2>9 DEF vars
  <2> QED
    BY <2>1, <2>2, <2>3, <2>4, <2>5, <2>6, <2>7, <2>8, <2>9 DEF Next, Loop, poll, pollOther
<1>3. WakeupInv => NoLostWakeup
  BY DEF WakeupInv
<1> QED
  BY <1>1, <1>2, <1>3, TypeCorrect, PTL DEF Spec

(* The local copy of the tasks is empty outside the loop that runs it, so  *)
(* the drain moves the queue without changing what is pending.             *)
CopyIsEmpty == lpc # "run" => funcs = <<>>

LEMMA CopyStaysEmpty == Spec => []CopyIsEmpty
<1>1. Init => CopyIsEmpty
  BY DEF Init, CopyIsEmpty
<1>2. CopyIsEmpty /\ [Next]_vars => CopyIsEmpty'
  BY DEF CopyIsEmpty, Next, vars, Loop, poll, pollOther, Return, readCallback, drain,
         runTask, again, enqueueTask, push, wake
<1> QED
  BY <1>1, <1>2, PTL DEF Spec

(* Every step of the detailed loop is a step of the queue it promises, or  *)
(* changes nothing the queue shows: tasks accepted by enqueueTask run once *)
(* and in the order of their push, whatever the threads do in between.     *)
THEOREM LoopImplementsTaskQueue == Spec => ImplementsTaskQueue
<1> DEFINE queue == funcs \o tasks
           closed == lpc = "done"
<1>1. Init => TQ!Init
  BY DEF Init, TQ!Init
<1>2. TypeOK /\ CopyIsEmpty /\ [Next]_vars => [TQ!Next]_<<queue, ran, closed>>
  <2> SUFFICES ASSUME TypeOK, CopyIsEmpty, [Next]_vars
               PROVE  TQ!Next \/ UNCHANGED <<queue, ran, closed>>
    OBVIOUS
  <2>0. tasks \in Seq(Task) /\ funcs \in Seq(Task)
    BY DEF TypeOK
  <2>1. ASSUME NEW t \in Threads, enqueueTask(t) PROVE UNCHANGED <<queue, ran, closed>>
    BY <2>1 DEF enqueueTask
  <2>2. ASSUME NEW t \in Threads, push(t) PROVE TQ!Next
    <3>1. arg[t] \in Task
      BY <2>2 DEF push, TypeOK
    <3>2. funcs \o Append(tasks, arg[t]) = Append(funcs \o tasks, arg[t])
      BY <2>0, <3>1
    <3>3. TQ!Accept
      BY <2>2, <3>1, <3>2 DEF push, TQ!Accept
    <3> QED BY <3>3 DEF TQ!Next
  <2>3. ASSUME NEW t \in Threads, wake(t) PROVE UNCHANGED <<queue, ran, closed>>
    BY <2>3 DEF wake
  <2>4. CASE Return
    BY <2>4 DEF Return
  <2>5. CASE readCallback
    BY <2>5 DEF readCallback
  <2>6. CASE drain
    <3>1. funcs = <<>>
      BY <2>6 DEF drain, CopyIsEmpty
    <3>2. <<>> \o tasks = tasks \o <<>>
      BY <2>0
    <3> QED BY <2>6, <3>1, <3>2 DEF drain
  <2>7. CASE runTask
    <3>1. funcs # <<>>
      BY <2>7 DEF runTask
    <3>2. /\ funcs \o tasks # <<>>
          /\ Head(funcs \o tasks) = Head(funcs)
          /\ Tail(funcs \o tasks) = Tail(funcs) \o tasks
      BY <2>0, <3>1
    <3>3. TQ!Run
      BY <2>7, <3>2 DEF runTask, TQ!Run
    <3> QED BY <3>3 DEF TQ!Next
  <2>8. CASE again
    <3>1. CASE stop
      <4>1. TQ!Close
        BY <2>8, <3>1 DEF again, TQ!Close
      <4> QED BY <4>1 DEF TQ!Next
    <3>2. CASE ~stop
      BY <2>8, <3>2 DEF again
    <3> QED BY <3>1, <3>2
  <2>9. CASE UNCHANGED vars
    BY <2>9 DEF vars
  <2> QED
    BY <2>1, <2>2, <2>3, <2>4, <2>5, <2>6, <2>7, <2>8, <2>9 DEF Next, Loop, poll, pollOther
<1> QED
  BY <1>1, <1>2, TypeCorrect, CopyStaysEmpty, PTL DEF Spec, ImplementsTaskQueue, TQ!Spec
=============================================================================
