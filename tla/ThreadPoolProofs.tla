-------------------------- MODULE ThreadPoolProofs --------------------------
(* What TLAPS proves of ThreadPool, for any number of workers, producers   *)
(* and tasks.                                                              *)
EXTENDS ThreadPool, FiniteSetTheorems, TLAPS

(* The initial state has the declared types, and every step keeps them.    *)
LEMMA TypeInductive == (Init => TypeOK) /\ (TypeOK /\ [Next]_vars => TypeOK')
<1>1. Init => TypeOK
  <2> SUFFICES ASSUME Init PROVE TypeOK
    OBVIOUS
  <2>1. tasks \in Seq(Task) /\ calls \in [Producers -> 0..MaxTasks]
    BY ThreadPoolAssumption DEF Init
  <2>2. \A w \in Workers : worker[w] = "ready" /\ task[w] = NoTask
    BY DEF Init
  <2> QED BY <2>1, <2>2 DEF Init, TypeOK
<1>2. TypeOK /\ [Next]_vars => TypeOK'
  <2> SUFFICES ASSUME TypeOK, [Next]_vars PROVE TypeOK'
    OBVIOUS
  <2> USE DEF TypeOK
  <2>1. ASSUME NEW w \in Workers, wait(w) PROVE TypeOK'
    BY <2>1 DEF wait
  <2>2. ASSUME NEW w \in Workers, wakeSpuriously(w) PROVE TypeOK'
    BY <2>2 DEF wakeSpuriously
  <2>3. ASSUME NEW w \in Workers, exit(w) PROVE TypeOK'
    BY <2>3 DEF exit
  <2>4. ASSUME NEW w \in Workers, take(w) PROVE TypeOK'
    <3>1. Head(tasks) \in Task /\ Tail(tasks) \in Seq(Task)
      BY <2>4 DEF take
    <3> QED BY <2>4, <3>1 DEF take
  <2>5. ASSUME NEW w \in Workers, finish(w) PROVE TypeOK'
    <3>1. task[w] \in Task
      BY <2>5 DEF finish
    <3> QED BY <2>5, <3>1 DEF finish
  <2>6. ASSUME NEW p \in Producers, enqueue(p) PROVE TypeOK'
    <3>1. calls[p] + 1 \in 1..MaxTasks
      BY <2>6, ThreadPoolAssumption DEF enqueue, Call
    <3>2. <<p, calls[p] + 1>> \in Task
      BY <3>1 DEF Task
    <3>3. Append(tasks, <<p, calls[p] + 1>>) \in Seq(Task)
      BY <3>2
    <3>4. calls' \in [Producers -> 0..MaxTasks]
      BY <2>6, <3>1 DEF enqueue, Call
    <3>5. tasks' \in Seq(Task) /\ accepted' \in SUBSET Task /\ notifying' \in SUBSET Producers
      BY <2>6, <3>2, <3>3 DEF enqueue, Push
    <3> QED BY <2>6, <3>4, <3>5 DEF enqueue
  <2>7. ASSUME NEW p \in Producers, notify_one(p) PROVE TypeOK'
    <3>1. CASE WorkersIn("waiting") = {}
      BY <2>7, <3>1 DEF notify_one
    <3>2. CASE WorkersIn("waiting") # {}
      <4>1. PICK w \in WorkersIn("waiting") : worker' = [worker EXCEPT ![w] = "ready"]
        BY <2>7, <3>2 DEF notify_one
      <4> QED BY <2>7, <4>1 DEF notify_one, WorkersIn
    <3> QED BY <3>1, <3>2
  <2>8. CASE stopFlag
    BY <2>8 DEF stopFlag
  <2>9. CASE notify_all
    BY <2>9 DEF notify_all
  <2>10. CASE join
    BY <2>10 DEF join
  <2>11. CASE UNCHANGED vars
    BY <2>11 DEF vars
  <2> QED
    BY <2>1, <2>2, <2>3, <2>4, <2>5, <2>6, <2>7, <2>8, <2>9, <2>10, <2>11
       DEF Next, Worker, Stop
<1> QED
  BY <1>1, <1>2

(* The types of ThreadPool's variables; a worker holds a task exactly      *)
(* while it runs it.                                                       *)
THEOREM TypeCorrect == Spec => []TypeOK
  BY TypeInductive, PTL DEF Spec

-----------------------------------------------------------------------------
(* No action of the pool takes a worker out of "exited".                   *)
LEMMA ExitedStays ==
  ASSUME TypeOK, [Next]_vars
  PROVE  WorkersIn("exited") \subseteq WorkersIn("exited")'
<1> USE DEF TypeOK, WorkersIn
<1>1. ASSUME NEW w \in Workers, Worker(w) \/ wakeSpuriously(w)
      PROVE  WorkersIn("exited") \subseteq WorkersIn("exited")'
  BY <1>1 DEF Worker, wait, exit, take, finish, wakeSpuriously
<1>2. ASSUME NEW p \in Producers, enqueue(p) \/ notify_one(p)
      PROVE  WorkersIn("exited") \subseteq WorkersIn("exited")'
  BY <1>2 DEF enqueue, notify_one
<1>3. CASE Stop
  BY <1>3 DEF Stop, stopFlag, notify_all, join
<1>4. CASE UNCHANGED vars
  BY <1>4 DEF vars
<1> QED
  BY <1>1, <1>2, <1>3, <1>4 DEF Next

(* A worker leaves its loop only when the pool is stopped and its queue    *)
(* drained, and enqueue adds nothing afterwards.                           *)
LEMMA DrainedInductive ==
  ASSUME TypeOK, ExitedIsDrained, [Next]_vars
  PROVE  ExitedIsDrained'
<1> USE DEF TypeOK, WorkersIn, ExitedIsDrained
<1>1. ASSUME NEW w \in Workers, wait(w) \/ finish(w) \/ wakeSpuriously(w)
      PROVE  ExitedIsDrained'
  BY <1>1 DEF wait, finish, wakeSpuriously
<1>2. ASSUME NEW w \in Workers, exit(w) PROVE ExitedIsDrained'
  BY <1>2 DEF exit
<1>3. ASSUME NEW w \in Workers, take(w) PROVE ExitedIsDrained'
  BY <1>3 DEF take
<1>4. ASSUME NEW p \in Producers, enqueue(p) PROVE ExitedIsDrained'
  BY <1>4 DEF enqueue, Push
<1>5. ASSUME NEW p \in Producers, notify_one(p) PROVE ExitedIsDrained'
  BY <1>5 DEF notify_one
<1>6. CASE Stop
  BY <1>6 DEF Stop, stopFlag, notify_all, join
<1>7. CASE UNCHANGED vars
  BY <1>7 DEF vars
<1> QED
  BY <1>1, <1>2, <1>3, <1>4, <1>5, <1>6, <1>7 DEF Next, Worker

(* ExitedIsDrained, for any number of workers and producers.               *)
THEOREM ExitLeavesNothing == Spec => []ExitedIsDrained
<1>1. Init => ExitedIsDrained
  BY DEF Init, ExitedIsDrained, WorkersIn
<1> QED
  BY <1>1, TypeCorrect, DrainedInductive, PTL DEF Spec

-----------------------------------------------------------------------------
(* The members of a queue, and a queue without repetitions.                *)
Members(s) == {s[i] : i \in DOMAIN s}
Distinct(s) == \A i, j \in DOMAIN s : s[i] = s[j] => i = j

(* A task pushed at the back is a new member.                              *)
LEMMA MembersOfAppend ==
  ASSUME NEW T, NEW s \in Seq(T), NEW t \in T, t \notin Members(s), Distinct(s)
  PROVE  Members(Append(s, t)) = Members(s) \cup {t} /\ Distinct(Append(s, t))
<1>1. Len(Append(s, t)) = Len(s) + 1 /\ DOMAIN Append(s, t) = 1..(Len(s) + 1)
  OBVIOUS
<1>2. \A i \in 1..Len(s) : Append(s, t)[i] = s[i]
  OBVIOUS
<1>3. Append(s, t)[Len(s) + 1] = t
  OBVIOUS
<1>4. DOMAIN s = 1..Len(s) /\ Len(s) \in Nat
  OBVIOUS
<1>5. \A i \in 1..(Len(s) + 1) : i \in 1..Len(s) \/ i = Len(s) + 1
  BY <1>4
<1>6. 1..Len(s) \subseteq 1..(Len(s) + 1) /\ Len(s) + 1 \in 1..(Len(s) + 1)
  BY <1>4
<1>7. Members(Append(s, t)) = Members(s) \cup {t}
  BY <1>1, <1>2, <1>3, <1>4, <1>5, <1>6 DEF Members
<1>8. Distinct(Append(s, t))
  BY <1>1, <1>2, <1>3, <1>4, <1>5 DEF Members, Distinct
<1> QED
  BY <1>7, <1>8

(* Taking the front of a queue without repetitions removes that member.    *)
LEMMA MembersOfTail ==
  ASSUME NEW T, NEW s \in Seq(T), s # <<>>, Distinct(s)
  PROVE  /\ Members(Tail(s)) = Members(s) \ {Head(s)}
         /\ Head(s) \in Members(s)
         /\ Distinct(Tail(s))
<1>1. DOMAIN s = 1..Len(s) /\ Len(s) \in Nat /\ Len(s) # 0 /\ Head(s) = s[1]
  OBVIOUS
<1>2. DOMAIN Tail(s) = 1..(Len(s) - 1)
  BY <1>1
<1>3. \A i \in 1..(Len(s) - 1) : Tail(s)[i] = s[i + 1]
  BY <1>1
<1>4. \A i \in 1..(Len(s) - 1) : i + 1 \in DOMAIN s /\ i + 1 # 1
  BY <1>1
<1>5. \A i \in DOMAIN s : i # 1 => i - 1 \in 1..(Len(s) - 1) /\ (i - 1) + 1 = i
  BY <1>1
<1>6. 1 \in DOMAIN s
  BY <1>1
<1>7. Members(Tail(s)) \subseteq Members(s) \ {Head(s)}
  BY <1>1, <1>2, <1>3, <1>4, <1>6 DEF Members, Distinct
<1>8. ASSUME NEW x \in Members(s) \ {Head(s)} PROVE x \in Members(Tail(s))
  <2>1. PICK i \in DOMAIN s : x = s[i] /\ i # 1
    BY <1>1, <1>8 DEF Members
  <2>2. Tail(s)[i - 1] = x
    BY <2>1, <1>3, <1>5
  <2> QED BY <2>1, <2>2, <1>2, <1>5 DEF Members
<1>9. Distinct(Tail(s))
  <2> SUFFICES ASSUME NEW i \in DOMAIN Tail(s), NEW j \in DOMAIN Tail(s),
                      Tail(s)[i] = Tail(s)[j]
               PROVE  i = j
    BY DEF Distinct
  <2>1. s[i + 1] = s[j + 1]
    BY <1>2, <1>3
  <2>2. i + 1 = j + 1
    BY <2>1, <1>2, <1>4 DEF Distinct
  <2> QED BY <2>2, <1>2
<1> QED
  BY <1>1, <1>6, <1>7, <1>8, <1>9 DEF Members

-----------------------------------------------------------------------------
(* The ids given out by a producer are the numbers of its calls, so a new  *)
(* task is none of the accepted ones.                                      *)
FreshIds == \A p \in Producers, i \in Nat : <<p, i>> \in accepted => i <= calls[p]

OnceInv == TypeOK /\ FreshIds /\ EachTaskOnce

LEMMA FreshInductive ==
  ASSUME TypeOK, FreshIds, [Next]_vars
  PROVE  FreshIds'
<1> USE DEF TypeOK, FreshIds
<1>1. ASSUME NEW w \in Workers, Worker(w) \/ wakeSpuriously(w) PROVE FreshIds'
  BY <1>1 DEF Worker, wait, exit, take, finish, wakeSpuriously
<1>2. ASSUME NEW p \in Producers, enqueue(p) PROVE FreshIds'
  <2>1. calls' = [calls EXCEPT ![p] = @ + 1] /\ calls[p] \in Nat
    BY <1>2, ThreadPoolAssumption DEF enqueue, Call
  <2>2. accepted' \subseteq accepted \cup {<<p, calls[p] + 1>>}
    BY <1>2 DEF enqueue, Push
  <2> SUFFICES ASSUME NEW q \in Producers, NEW i \in Nat, <<q, i>> \in accepted'
               PROVE  i <= calls'[q]
    OBVIOUS
  <2>3. CASE <<q, i>> \in accepted
    <3>1. i <= calls[q] /\ calls[q] \in Nat
      BY <2>3, ThreadPoolAssumption
    <3> QED BY <3>1, <2>1
  <2>4. CASE <<q, i>> \notin accepted
    <3>1. q = p /\ i = calls[p] + 1
      BY <2>2, <2>4
    <3> QED BY <3>1, <2>1
  <2> QED BY <2>3, <2>4
<1>3. ASSUME NEW p \in Producers, notify_one(p) PROVE FreshIds'
  BY <1>3 DEF notify_one
<1>4. CASE Stop
  BY <1>4 DEF Stop, stopFlag, notify_all, join
<1>5. CASE UNCHANGED vars
  BY <1>5 DEF vars
<1> QED
  BY <1>1, <1>2, <1>3, <1>4, <1>5 DEF Next

(* What EachTaskOnce looks at does not change in a step that moves neither *)
(* the queue nor the tasks in hand.                                        *)
LEMMA OnceUnmoved ==
  ASSUME EachTaskOnce, UNCHANGED <<tasks, accepted, finished, task>>,
         WorkersIn("running")' = WorkersIn("running")
  PROVE  EachTaskOnce'
<1>1. Queued' = Queued /\ InHand' = InHand
  BY DEF Queued, InHand
<1> QED
  BY <1>1 DEF EachTaskOnce

LEMMA OnceInductive ==
  ASSUME OnceInv, [Next]_vars
  PROVE  EachTaskOnce'
<1> USE DEF OnceInv
<1>q. Queued = Members(tasks) /\ Queued' = Members(tasks')
  BY DEF Queued, Members
<1>d. Distinct(tasks)
  BY DEF EachTaskOnce, Distinct
<1>1. ASSUME NEW w \in Workers, wait(w) \/ exit(w) \/ wakeSpuriously(w)
      PROVE  EachTaskOnce'
  <2>1. WorkersIn("running")' = WorkersIn("running")
    BY <1>1 DEF wait, exit, wakeSpuriously, WorkersIn, TypeOK
  <2> QED BY <1>1, <2>1, OnceUnmoved DEF wait, exit, wakeSpuriously
<1>2. ASSUME NEW w \in Workers, take(w) PROVE EachTaskOnce'
  <2>1. /\ Members(tasks') = Members(tasks) \ {Head(tasks)}
        /\ Head(tasks) \in Members(tasks)
        /\ Distinct(tasks')
    BY <1>2, <1>d, MembersOfTail DEF take, TypeOK
  <2>2. WorkersIn("running")' = WorkersIn("running") \cup {w} /\ w \notin WorkersIn("running")
    BY <1>2 DEF take, WorkersIn, TypeOK
  <2>3. task'[w] = Head(tasks) /\ \A v \in Workers : v # w => task'[v] = task[v]
    BY <1>2 DEF take, TypeOK
  <2>4. InHand' = InHand \cup {Head(tasks)}
    BY <2>2, <2>3 DEF InHand, WorkersIn
  <2>5. \A v \in WorkersIn("running") : task[v] \in InHand
    BY DEF InHand
  <2>6. \A v \in WorkersIn("running") : task'[v] = task[v] /\ task'[v] # Head(tasks)
    BY <2>1, <2>2, <2>3, <2>5, <1>q DEF WorkersIn, EachTaskOnce
  <2>7. \A u, v \in WorkersIn("running")' : task'[u] = task'[v] => u = v
    BY <2>2, <2>3, <2>6 DEF EachTaskOnce
  <2>8. accepted' = accepted /\ finished' = finished
    BY <1>2 DEF take
  <2>9. /\ accepted' = Queued' \cup InHand' \cup finished'
        /\ Queued' \cap InHand' = {} /\ Queued' \cap finished' = {}
        /\ InHand' \cap finished' = {}
    BY <2>1, <2>4, <2>8, <1>q DEF EachTaskOnce
  <2> QED BY <2>1, <2>7, <2>9 DEF EachTaskOnce, Distinct
<1>3. ASSUME NEW w \in Workers, finish(w) PROVE EachTaskOnce'
  <2>1. WorkersIn("running")' = WorkersIn("running") \ {w} /\ w \in WorkersIn("running")
    BY <1>3 DEF finish, WorkersIn, TypeOK
  <2>2. \A v \in Workers : v # w => task'[v] = task[v]
    BY <1>3 DEF finish, TypeOK
  <2>3. InHand' = InHand \ {task[w]} /\ task[w] \in InHand
    BY <2>1, <2>2 DEF InHand, WorkersIn, EachTaskOnce
  <2>4. finished' = finished \cup {task[w]} /\ tasks' = tasks /\ accepted' = accepted
    BY <1>3 DEF finish
  <2>5. \A u, v \in WorkersIn("running")' : task'[u] = task'[v] => u = v
    BY <2>1, <2>2 DEF EachTaskOnce, WorkersIn
  <2>6. /\ accepted' = Queued' \cup InHand' \cup finished'
        /\ Queued' \cap InHand' = {} /\ Queued' \cap finished' = {}
        /\ InHand' \cap finished' = {}
    BY <2>3, <2>4, <1>q DEF EachTaskOnce
  <2> QED BY <1>d, <2>4, <2>5, <2>6 DEF EachTaskOnce, Distinct
<1>4. ASSUME NEW p \in Producers, enqueue(p) PROVE EachTaskOnce'
  <2>1. task' = task /\ worker' = worker /\ finished' = finished
    BY <1>4 DEF enqueue
  <2>2. InHand' = InHand /\ WorkersIn("running")' = WorkersIn("running")
    BY <2>1 DEF InHand, WorkersIn
  <2>3. CASE stop_
    <3>1. tasks' = tasks /\ accepted' = accepted
      BY <1>4, <2>3 DEF enqueue
    <3> QED BY <2>1, <2>2, <3>1, OnceUnmoved
  <2>4. CASE ~stop_
    <3> DEFINE t == <<p, calls[p] + 1>>
    <3>1. tasks' = Append(tasks, t) /\ accepted' = accepted \cup {t}
      BY <1>4, <2>4 DEF enqueue, Push
    <3>2. calls[p] \in Nat /\ calls[p] + 1 \in 1..MaxTasks
      BY <1>4, ThreadPoolAssumption DEF enqueue, Call, TypeOK
    <3>3. t \in Task /\ t \notin accepted
      BY <3>2 DEF Task, FreshIds
    <3>4. t \notin Members(tasks) /\ t \notin InHand /\ t \notin finished
      BY <3>3, <1>q DEF EachTaskOnce
    <3>5. Members(tasks') = Members(tasks) \cup {t} /\ Distinct(tasks')
      BY <3>1, <3>3, <3>4, <1>d, MembersOfAppend DEF TypeOK
    <3>6. /\ accepted' = Queued' \cup InHand' \cup finished'
          /\ Queued' \cap InHand' = {} /\ Queued' \cap finished' = {}
          /\ InHand' \cap finished' = {}
      BY <3>1, <3>4, <3>5, <2>1, <2>2, <1>q DEF EachTaskOnce
    <3> QED BY <2>1, <2>2, <3>5, <3>6 DEF EachTaskOnce, Distinct
  <2> QED BY <2>3, <2>4
<1>5. ASSUME NEW p \in Producers, notify_one(p) PROVE EachTaskOnce'
  <2>1. WorkersIn("running")' = WorkersIn("running")
    BY <1>5 DEF notify_one, WorkersIn, TypeOK
  <2> QED BY <1>5, <2>1, OnceUnmoved DEF notify_one
<1>6. CASE Stop
  <2>1. WorkersIn("running")' = WorkersIn("running")
    BY <1>6 DEF Stop, stopFlag, notify_all, join, WorkersIn, TypeOK
  <2> QED BY <1>6, <2>1, OnceUnmoved DEF Stop, stopFlag, notify_all, join
<1>7. CASE UNCHANGED vars
  <2>1. WorkersIn("running")' = WorkersIn("running")
    BY <1>7 DEF vars, WorkersIn
  <2> QED BY <1>7, <2>1, OnceUnmoved DEF vars
<1> QED
  BY <1>1, <1>2, <1>3, <1>4, <1>5, <1>6, <1>7 DEF Next, Worker

(* EachTaskOnce: no interleaving of producers, workers and the stopping    *)
(* thread loses a task, runs it twice or gives it to two workers.          *)
THEOREM TasksAreNeitherLostNorDoubled == Spec => []EachTaskOnce
<1>1. Init => OnceInv
  <2> SUFFICES ASSUME Init PROVE OnceInv
    OBVIOUS
  <2>1. TypeOK /\ FreshIds
    BY TypeInductive DEF Init, FreshIds
  <2>2. Queued = {} /\ InHand = {} /\ WorkersIn("running") = {}
    BY DEF Init, Queued, InHand, WorkersIn
  <2> QED BY <2>1, <2>2 DEF Init, OnceInv, EachTaskOnce
<1>2. OnceInv /\ [Next]_vars => OnceInv'
  BY TypeInductive, FreshInductive, OnceInductive DEF OnceInv
<1> QED
  BY <1>1, <1>2, PTL DEF Spec, OnceInv

-----------------------------------------------------------------------------
(* stop() returns only after every worker has been joined.                 *)
JoinedAll == stopper = "joined" => WorkersIn("exited") = Workers

LEMMA JoinedInductive ==
  ASSUME TypeOK, JoinedAll, [Next]_vars
  PROVE  JoinedAll'
<1>1. WorkersIn("exited") \subseteq WorkersIn("exited")' /\ WorkersIn("exited")' \subseteq Workers
  BY ExitedStays DEF WorkersIn
<1>2. stopper' = stopper \/ (stopper' = "joined" => WorkersIn("exited") = Workers)
  BY DEF Next, Worker, wait, exit, take, finish, wakeSpuriously, enqueue, notify_one,
         Stop, stopFlag, notify_all, join, vars
<1> QED
  BY <1>1, <1>2 DEF JoinedAll

(* StopRunsAll: with all workers out of their loops the queue is empty and *)
(* nothing is in hand, so whatever was accepted has been run.              *)
THEOREM StopReturnsAfterAll == Spec => []StopRunsAll
<1>1. Init => JoinedAll
  BY DEF Init, JoinedAll
<1>2. TypeOK /\ JoinedAll /\ ExitedIsDrained /\ EachTaskOnce => StopRunsAll
  <2> SUFFICES ASSUME JoinedAll, ExitedIsDrained, EachTaskOnce, stopper = "joined"
               PROVE  finished = accepted
    BY DEF StopRunsAll
  <2>1. WorkersIn("exited") = Workers /\ Workers # {}
    BY ThreadPoolAssumption DEF JoinedAll
  <2>2. tasks = <<>>
    BY <2>1 DEF ExitedIsDrained
  <2>3. WorkersIn("running") = {}
    BY <2>1 DEF WorkersIn
  <2>4. Queued = {} /\ InHand = {}
    BY <2>2, <2>3 DEF Queued, InHand
  <2> QED BY <2>4 DEF EachTaskOnce
<1> QED
  BY <1>1, <1>2, JoinedInductive, TypeCorrect, ExitLeavesNothing,
     TasksAreNeitherLostNorDoubled, PTL DEF Spec

-----------------------------------------------------------------------------
(* Cardinalities of the sets of workers and producers that steps change.   *)
LEMMA FinitePool ==
  ASSUME TypeOK, NEW at
  PROVE  /\ IsFiniteSet(WorkersIn(at)) /\ Cardinality(WorkersIn(at)) \in Nat
         /\ IsFiniteSet(notifying) /\ Cardinality(notifying) \in Nat
<1>1. WorkersIn(at) \subseteq Workers /\ notifying \subseteq Producers
  BY DEF WorkersIn, TypeOK
<1> QED
  BY <1>1, ThreadPoolAssumption, FS_Subset, FS_CardinalityType

LEMMA ConservingInductive ==
  ASSUME TypeOK, WorkConserving, [Next]_vars
  PROVE  WorkConserving'
<1> DEFINE R == WorkersIn("ready")
           W == WorkersIn("waiting")
<1> SUFFICES ASSUME W' # {}
             PROVE  Len(tasks') <= Cardinality(R') + Cardinality(notifying')
  BY DEF WorkConserving
<1>f. IsFiniteSet(R) /\ Cardinality(R) \in Nat /\ IsFiniteSet(notifying)
      /\ Cardinality(notifying) \in Nat /\ Len(tasks) \in Nat
  BY FinitePool DEF TypeOK
<1>g. IsFiniteSet(R') /\ Cardinality(R') \in Nat /\ IsFiniteSet(notifying')
      /\ Cardinality(notifying') \in Nat /\ Len(tasks') \in Nat
  <2>1. TypeOK'
    BY TypeInductive
  <2>2. R' \subseteq Workers /\ notifying' \subseteq Producers
    BY <2>1 DEF TypeOK, WorkersIn
  <2>3. Len(tasks') \in Nat
    BY <2>1 DEF TypeOK
  <2> QED BY <2>2, <2>3, ThreadPoolAssumption, FS_Subset, FS_CardinalityType
<1>1. ASSUME NEW w \in Workers, wait(w)
      PROVE  Len(tasks') <= Cardinality(R') + Cardinality(notifying')
  BY <1>1, <1>g DEF wait
<1>2. ASSUME NEW w \in Workers, exit(w)
      PROVE  Len(tasks') <= Cardinality(R') + Cardinality(notifying')
  BY <1>2, <1>g DEF exit
<1>3. ASSUME NEW w \in Workers, take(w)
      PROVE  Len(tasks') <= Cardinality(R') + Cardinality(notifying')
  <2>1. R' = R \ {w} /\ w \in R /\ W' = W
    BY <1>3 DEF take, WorkersIn, TypeOK
  <2>2. Cardinality(R') = Cardinality(R) - 1
    BY <2>1, <1>f, FS_RemoveElement
  <2>3. Len(tasks') = Len(tasks) - 1 /\ notifying' = notifying
    BY <1>3 DEF take, TypeOK
  <2> QED BY <2>1, <2>2, <2>3, <1>f DEF WorkConserving
<1>4. ASSUME NEW w \in Workers, finish(w) \/ wakeSpuriously(w)
      PROVE  Len(tasks') <= Cardinality(R') + Cardinality(notifying')
  <2>1. R \subseteq R' /\ W' \subseteq W
    BY <1>4 DEF finish, wakeSpuriously, WorkersIn, TypeOK
  <2>2. Cardinality(R) <= Cardinality(R')
    BY <2>1, <1>g, FS_Subset
  <2>3. tasks' = tasks /\ notifying' = notifying
    BY <1>4 DEF finish, wakeSpuriously
  <2> QED BY <2>1, <2>2, <2>3, <1>f, <1>g DEF WorkConserving
<1>5. ASSUME NEW p \in Producers, enqueue(p)
      PROVE  Len(tasks') <= Cardinality(R') + Cardinality(notifying')
  <2>1. R' = R /\ W' = W
    BY <1>5 DEF enqueue, WorkersIn
  <2>2. CASE stop_
    BY <1>5, <2>1, <2>2, <1>f DEF enqueue, WorkConserving
  <2>3. CASE ~stop_
    <3>1. notifying' = notifying \cup {p} /\ p \notin notifying
      BY <1>5, <2>3 DEF enqueue, Call
    <3>2. Cardinality(notifying') = Cardinality(notifying) + 1
      BY <3>1, <1>f, FS_AddElement
    <3>3. Len(tasks') = Len(tasks) + 1
      BY <1>5, <2>3 DEF enqueue, Push, TypeOK
    <3> QED BY <2>1, <3>2, <3>3, <1>f DEF WorkConserving
  <2> QED BY <2>2, <2>3
<1>6. ASSUME NEW p \in Producers, notify_one(p)
      PROVE  Len(tasks') <= Cardinality(R') + Cardinality(notifying')
  <2>1. PICK w \in W : worker' = [worker EXCEPT ![w] = "ready"]
    <3>1. W # {}
      BY <1>6 DEF notify_one, WorkersIn
    <3> QED BY <1>6, <3>1 DEF notify_one
  <2>2. R' = R \cup {w} /\ w \notin R
    BY <2>1 DEF WorkersIn, TypeOK
  <2>3. Cardinality(R') = Cardinality(R) + 1
    BY <2>2, <1>f, FS_AddElement
  <2>4. Cardinality(notifying') = Cardinality(notifying) - 1 /\ tasks' = tasks
    BY <1>6, <1>f, FS_RemoveElement DEF notify_one
  <2> QED BY <2>1, <2>3, <2>4, <1>f DEF WorkConserving
<1>7. CASE stopFlag \/ join
  BY <1>7, <1>f DEF stopFlag, join, WorkConserving, WorkersIn
<1>8. CASE notify_all
  <2>1. W' = {}
    BY <1>8 DEF notify_all, WorkersIn, TypeOK
  <2> QED BY <2>1
<1>9. CASE UNCHANGED vars
  BY <1>9, <1>f DEF vars, WorkConserving, WorkersIn
<1> QED
  BY <1>1, <1>2, <1>3, <1>4, <1>5, <1>6, <1>7, <1>8, <1>9 DEF Next, Worker, Stop

(* WorkConserving: sending the notification after the lock is released, to *)
(* one worker only, leaves no task behind while a worker sleeps.           *)
THEOREM NoWorkerSleepsOverATask == Spec => []WorkConserving
<1>1. Init => WorkConserving
  BY DEF Init, WorkConserving, WorkersIn
<1> QED
  BY <1>1, TypeCorrect, ConservingInductive, PTL DEF Spec
=============================================================================
