---------------------------- MODULE ServerProofs ----------------------------
(* What TLAPS proves of Server, for any number of sub reactors, workers,   *)
(* clients and requests, with and without the pool.                        *)
EXTENDS Server, SequenceTheorems, TLAPS

-----------------------------------------------------------------------------
(* The invariant behind the theorems.  Where the control thread is tells   *)
(* which loops are still to start and which have been joined.              *)
Stopping == {"stop", "join", "returned"}
Control ==
  /\ main = "listen" => \A r \in Reactors : loops[r].at = "new"
  /\ main = "start" => /\ loops[MainReactor].at = "new"
                       /\ \A r \in Subs : turn <= r => loops[r].at = "new"
  /\ main = "wait" => turn = 1
  /\ main = "join" => turn <= Len(StopOrder)
  /\ main \in {"stop", "join"} =>
       /\ \A r \in Reactors : r + 1 < turn => loops[r].at = "done"
       /\ turn > NSubs + 2 => \A w \in Workers : worker[w] = "exited"
  /\ main = "returned" =>
       /\ \A r \in Reactors : loops[r].at = "done"
       /\ useThreadPool => \A w \in Workers : worker[w] = "exited"

(* The pool is stopped after every loop, and workers leave it empty.       *)
PoolLast ==
  /\ poolStop => main \in Stopping /\ \A r \in Reactors : loops[r].at = "done"
  /\ \A w \in Workers : worker[w] = "exited" => poolStop /\ poolTasks = <<>>
  /\ \A w \in Workers : worker[w] = "posting" => hand[w] \in Clients
  /\ ~useThreadPool => poolTasks = <<>>

(* What a loop has still to run, in order.                                 *)
Queue(l) == l.funcs \o l.tasks
Has(l, t) == \E i \in DOMAIN Queue(l) : Queue(l)[i] = t
Asked(l) == l.stop \/ Has(l, [kind |-> "stop"])
AddOf(c) == [kind |-> "add", client |-> c]

(* Nothing that opens a socket comes after the stop: not in the queue of a *)
(* loop, and not in a loop that has run it.                                *)
Opens(t) == t.kind \in {"add", "listen"}
StopIsLast(l) ==
  /\ \A i, j \in DOMAIN Queue(l) : i < j /\ Queue(l)[i].kind = "stop" => ~Opens(Queue(l)[j])
  /\ l.stop => \A i \in DOMAIN Queue(l) : ~Opens(Queue(l)[i])

(* The one task that adds a client is at home, and its socket is waiting   *)
(* for it; the task that removes a connection is about a dead one.         *)
TasksMatch(r, l, cn) ==
  \A i \in DOMAIN Queue(l) :
    LET t == Queue(l)[i]
    IN  /\ t.kind = "add" => /\ r \in Subs /\ cn[t.client].at = "socket" /\ cn[t.client].home = r
                             /\ \A j \in DOMAIN Queue(l) : Queue(l)[j] = t => i = j
        /\ t.kind = "remove" => cn[t.client].at = "dead"

LoopOK(r, l, cn) ==
  /\ l.at # "run" => l.funcs = <<>>
  /\ l.at = "done" => l.stop
  /\ StopIsLast(l) /\ TasksMatch(r, l, cn)
LoopsOK == \A r \in Reactors : LoopOK(r, loops[r], conn)

(* A sub reactor is asked to stop after the main reactor has ended, and    *)
(* that one only by Server::stop.                                          *)
AskedInOrder ==
  /\ Asked(loops[MainReactor]) => main \in Stopping
  /\ \A r \in Subs : Asked(loops[r]) => loops[MainReactor].at = "done"

(* A socket on its way has a task that will bring it home, and its loop    *)
(* does not stop before it has run it.                                     *)
ConnStates ==
  /\ \A c \in Clients :
       /\ conn[c].at = "socket" => Has(loops[conn[c].home], AddOf(c))
       /\ conn[c].at = "connected" => conn[c].inMap
       /\ conn[c].inMap => conn[c].at \in {"connected", "dead"}
       /\ conn[c].at = "backlog" => listening
       /\ conn[c].at \in {"socket", "connected"} => conn[c].home \in Subs /\ ~loops[conn[c].home].stop
  /\ loops[MainReactor].stop => ~listening

Inv ==
  /\ TypeOK /\ NeverTerminated /\ Control /\ PoolLast
  /\ LoopsOK /\ AskedInOrder /\ ConnStates

-----------------------------------------------------------------------------
(* A task that is about a client names one.                                *)
LEMMA TaskIs ==
  ASSUME NEW t \in Task
  PROVE  /\ t.kind \in {"listen", "stop", "add", "remove", "resp"}
         /\ t.kind \in {"add", "remove", "resp"} => t.client \in Clients
         /\ t.kind = "add" => t = AddOf(t.client)
         /\ t.kind = "stop" => t = [kind |-> "stop"]
  BY DEF Task, AddOf

(* The tasks that the code makes.                                          *)
LEMMA TasksMade ==
  /\ [kind |-> "listen"] \in Task /\ [kind |-> "stop"] \in Task
  /\ \A c \in Clients : /\ AddOf(c) \in Task /\ AddOf(c).kind = "add" /\ AddOf(c).client = c
                        /\ [kind |-> "remove", client |-> c] \in Task
                        /\ [kind |-> "resp", client |-> c] \in Task
  BY DEF Task, AddOf

(* The queue of a loop is a sequence of tasks.                             *)
LEMMA QueueIs ==
  ASSUME NEW l \in LoopType
  PROVE  /\ Queue(l) \in Seq(Task) /\ l.funcs \in Seq(Task) /\ l.tasks \in Seq(Task)
         /\ l.stop \in BOOLEAN /\ l.at \in {"new", "poll", "run", "done"}
         /\ DOMAIN Queue(l) = 1..Len(Queue(l)) /\ Len(Queue(l)) \in Nat
         /\ \A i \in DOMAIN Queue(l) : Queue(l)[i] \in Task
<1>1. /\ l.funcs \in Seq(Task) /\ l.tasks \in Seq(Task)
      /\ l.stop \in BOOLEAN /\ l.at \in {"new", "poll", "run", "done"}
  BY DEF LoopType
<1>2. Queue(l) \in Seq(Task)
  BY <1>1 DEF Queue
<1> QED BY <1>1, <1>2

(* The items of a queue: those of the copy, then those of the tasks.       *)
IsJoin(q, a, b) ==
  /\ Len(a) \in Nat /\ Len(b) \in Nat /\ Len(q) = Len(a) + Len(b)
  /\ DOMAIN q = 1..Len(a) + Len(b)
  /\ \A i \in 1..Len(a) : q[i] = a[i]
  /\ \A i \in 1..Len(b) : q[i + Len(a)] = b[i]
(* That is what concatenation gives.                                       *)
LEMMA Joined ==
  ASSUME NEW S, NEW a \in Seq(S), NEW b \in Seq(S)
  PROVE  IsJoin(a \o b, a, b)
  BY DEF IsJoin

(* A task that is posted comes last.                                       *)
LEMMA PostQueue ==
  ASSUME NEW l \in LoopType, NEW t \in Task
  PROVE  LET n == [l EXCEPT !.tasks = Append(@, t)]
         IN  /\ n \in LoopType /\ n.at = l.at /\ n.stop = l.stop /\ n.funcs = l.funcs
             /\ Len(Queue(n)) = Len(Queue(l)) + 1
             /\ \A i \in DOMAIN Queue(l) : Queue(n)[i] = Queue(l)[i]
             /\ Queue(n)[Len(Queue(l)) + 1] = t
<1> DEFINE n == [l EXCEPT !.tasks = Append(@, t)]
<1>1. l.funcs \in Seq(Task) /\ l.tasks \in Seq(Task) /\ Append(l.tasks, t) \in Seq(Task)
  BY QueueIs
<1>2. n \in LoopType /\ n.at = l.at /\ n.stop = l.stop /\ n.funcs = l.funcs /\ n.tasks = Append(l.tasks, t)
  BY <1>1 DEF LoopType
<1> HIDE DEF n
<1>3. Queue(n) = l.funcs \o Append(l.tasks, t)
  BY <1>2 DEF Queue
<1>4. /\ Len(Append(l.tasks, t)) = Len(l.tasks) + 1 /\ Append(l.tasks, t)[Len(l.tasks) + 1] = t
      /\ \A i \in 1..Len(l.tasks) : Append(l.tasks, t)[i] = l.tasks[i]
  BY <1>1
<1> DEFINE f == l.funcs  k == l.tasks  m == Append(l.tasks, t)
<1>5. IsJoin(Queue(l), f, k)
  BY <1>1, Joined, Zenon DEF Queue
<1>6. IsJoin(Queue(n), f, m)
  BY <1>1, <1>3, Joined, Zenon
<1> USE DEF IsJoin
<1>7. ASSUME NEW i \in DOMAIN Queue(l) PROVE Queue(n)[i] = Queue(l)[i]
  <2> HIDE DEF f, k, m
  <2>1. CASE i <= Len(f)
    BY <1>5, <1>6, <2>1
  <2>2. CASE i > Len(f)
    <3> DEFINE j == i - Len(f)
    <3>1. j \in 1..Len(k) /\ i = j + Len(f)
      BY <1>5, <2>2
    <3>2. j \in 1..Len(m) /\ m[j] = k[j]
      BY <1>4, <1>5, <3>1 DEF k, m
    <3> HIDE DEF j
    <3> QED BY <1>5, <1>6, <3>1, <3>2
  <2> QED BY <1>5, <2>1, <2>2
<1>8. Len(Queue(n)) = Len(Queue(l)) + 1 /\ Queue(n)[Len(Queue(l)) + 1] = t
  <2>1. Len(k) + 1 \in 1..Len(m) /\ m[Len(k) + 1] = t /\ Len(m) = Len(k) + 1
    BY <1>4, <1>5
  <2> HIDE DEF f, k, m
  <2>2. Queue(n)[(Len(k) + 1) + Len(f)] = t
    BY <1>6, <2>1
  <2>3. (Len(k) + 1) + Len(f) = Len(Queue(l)) + 1
    BY <1>5
  <2> QED BY <1>5, <1>6, <2>1, <2>2, <2>3
<1> QED BY <1>2, <1>7, <1>8 DEF n

(* A copy of the tasks is the same queue.                                  *)
LEMMA DrainQueue ==
  ASSUME NEW l \in LoopType, l.funcs = <<>>
  PROVE  LET n == [l EXCEPT !.funcs = l.tasks, !.tasks = <<>>, !.at = "run"]
         IN  /\ n \in LoopType /\ n.at = "run" /\ n.stop = l.stop
             /\ Queue(n) = Queue(l)
<1> DEFINE n == [l EXCEPT !.funcs = l.tasks, !.tasks = <<>>, !.at = "run"]
<1>1. l.tasks \in Seq(Task)
  BY QueueIs
<1>2. n \in LoopType /\ n.at = "run" /\ n.stop = l.stop /\ n.funcs = l.tasks /\ n.tasks = <<>>
  BY <1>1 DEF LoopType
<1> HIDE DEF n
<1>3. Queue(n) = l.tasks
  BY <1>1, <1>2, ConcatEmptySeq DEF Queue
<1>4. Queue(l) = l.tasks
  BY <1>1, ConcatEmptySeq DEF Queue
<1> QED BY <1>2, <1>3, <1>4 DEF n

(* A task that has been run was the first.                                 *)
LEMMA RanQueue ==
  ASSUME NEW l \in LoopType, l.funcs # <<>>
  PROVE  LET n == [l EXCEPT !.funcs = Tail(@)]
         IN  /\ n \in LoopType /\ n.at = l.at /\ n.stop = l.stop
             /\ Len(Queue(l)) = Len(Queue(n)) + 1
             /\ \A i \in DOMAIN Queue(n) : Queue(n)[i] = Queue(l)[i + 1]
             /\ Queue(l)[1] = Head(l.funcs) /\ 1 \in DOMAIN Queue(l) /\ Head(l.funcs) \in Task
<1> DEFINE n == [l EXCEPT !.funcs = Tail(@)]
<1>1. l.funcs \in Seq(Task) /\ l.tasks \in Seq(Task) /\ Tail(l.funcs) \in Seq(Task)
  BY QueueIs
<1>2. n \in LoopType /\ n.at = l.at /\ n.stop = l.stop /\ n.funcs = Tail(l.funcs) /\ n.tasks = l.tasks
  BY <1>1 DEF LoopType
<1> HIDE DEF n
<1>3. Queue(n) = Tail(l.funcs) \o l.tasks
  BY <1>2 DEF Queue
<1>4. Len(l.funcs) \in Nat /\ Len(l.funcs) > 0 /\ Len(l.tasks) \in Nat /\ Head(l.funcs) = l.funcs[1] /\ l.funcs[1] \in Task
  BY <1>1
<1>5. Len(Tail(l.funcs)) = Len(l.funcs) - 1 /\ \A i \in 1..Len(l.funcs) - 1 : Tail(l.funcs)[i] = l.funcs[i + 1]
  BY <1>1, <1>4
<1> DEFINE f == l.funcs  k == l.tasks  g == Tail(l.funcs)
<1>6. IsJoin(Queue(l), f, k)
  BY <1>1, Joined, Zenon DEF Queue
<1>7. IsJoin(Queue(n), g, k)
  BY <1>1, <1>3, Joined, Zenon
<1> USE DEF IsJoin
<1>8. ASSUME NEW i \in DOMAIN Queue(n) PROVE Queue(n)[i] = Queue(l)[i + 1]
  <2>1. CASE i <= Len(g)
    <3>1. i \in 1..Len(g) /\ i + 1 \in 1..Len(f) /\ g[i] = f[i + 1]
      BY <1>4, <1>5, <1>7, <2>1
    <3> HIDE DEF f, k, g
    <3> QED BY <1>6, <1>7, <3>1
  <2>2. CASE i > Len(g)
    <3> DEFINE j == i - Len(g)
    <3>0. Len(g) = Len(f) - 1
      BY <1>5
    <3>1. j \in 1..Len(k) /\ i = j + Len(g) /\ i + 1 = j + Len(f)
      <4> HIDE DEF f, k, g
      <4> QED BY <1>6, <1>7, <2>2, <3>0
    <3> HIDE DEF f, k, g, j
    <3>2. Queue(n)[j + Len(g)] = k[j] /\ Queue(l)[j + Len(f)] = k[j]
      BY <1>6, <1>7, <3>1
    <3> QED BY <3>1, <3>2
  <2> QED BY <1>4, <1>5, <1>7, <2>1, <2>2
<1>9. Queue(l)[1] = Head(l.funcs) /\ 1 \in DOMAIN Queue(l) /\ Len(Queue(l)) = Len(Queue(n)) + 1
  <2>1. Len(g) = Len(f) - 1 /\ Len(f) > 0 /\ Head(l.funcs) = f[1]
    BY <1>4, <1>5
  <2> HIDE DEF f, k, g
  <2>2. 1 \in 1..Len(f) /\ 1 \in 1..Len(f) + Len(k)
    BY <1>6, <2>1
  <2> QED BY <1>6, <1>7, <2>1, <2>2
<1> QED BY <1>2, <1>4, <1>8, <1>9 DEF n

-----------------------------------------------------------------------------
(* What a connection may turn into without disturbing the tasks about it.  *)
SameForTasks(cn, cm) ==
  \A c \in Clients : /\ cn[c].at \in {"socket", "dead"} => cm[c].at = cn[c].at
                     /\ cn[c].at = "socket" => cm[c].home = cn[c].home

(* A loop does not see changes to connections its tasks are not about.     *)
LEMMA OtherConns ==
  ASSUME NEW r, NEW l \in LoopType, NEW cn, NEW cm, LoopOK(r, l, cn), SameForTasks(cn, cm)
  PROVE  LoopOK(r, l, cm)
<1>1. ASSUME NEW i \in DOMAIN Queue(l) PROVE Queue(l)[i] \in Task
  BY QueueIs, <1>1
<1>2. TasksMatch(r, l, cm)
  BY <1>1, TaskIs DEF LoopOK, TasksMatch, SameForTasks
<1> QED BY <1>2 DEF LoopOK

(* A task may be posted on a loop that is not asked to stop, or if it does *)
(* not open a socket.                                                      *)
LEMMA PostOK ==
  ASSUME NEW r, NEW l \in LoopType, NEW cn, NEW t \in Task, LoopOK(r, l, cn),
         Opens(t) => ~Asked(l),
         t.kind = "add" => /\ r \in Subs /\ cn[t.client].at = "socket" /\ cn[t.client].home = r
                           /\ ~Has(l, t),
         t.kind = "remove" => cn[t.client].at = "dead"
  PROVE  LET n == [l EXCEPT !.tasks = Append(@, t)]
         IN  /\ n \in LoopType /\ n.at = l.at /\ n.stop = l.stop
             /\ LoopOK(r, n, cn)
             /\ \A u : Has(n, u) <=> Has(l, u) \/ u = t
<1> DEFINE n == [l EXCEPT !.tasks = Append(@, t)]  q == Queue(l)  p == Queue(n)  k == Len(Queue(l))
<1>1. /\ n \in LoopType /\ n.at = l.at /\ n.stop = l.stop /\ n.funcs = l.funcs
      /\ Len(p) = k + 1 /\ p[k + 1] = t
      /\ \A i \in DOMAIN q : p[i] = q[i]
  BY PostQueue
<1> HIDE DEF n
<1>2. /\ k \in Nat /\ DOMAIN q = 1..k /\ DOMAIN p = 1..k + 1
      /\ \A i \in 1..k : q[i] \in Task
  BY <1>1, QueueIs
<1> HIDE DEF q, p, k
<1>3. \A u : Has(n, u) <=> Has(l, u) \/ u = t
  <2>1. ASSUME NEW u, Has(n, u) PROVE Has(l, u) \/ u = t
    BY <1>1, <1>2, <2>1 DEF Has, q, p
  <2>2. ASSUME NEW u, Has(l, u) \/ u = t PROVE Has(n, u)
    <3>1. CASE u = t
      <4>1. k + 1 \in DOMAIN p
        BY <1>2
      <4> QED BY <1>1, <3>1, <4>1 DEF Has, p
    <3>2. CASE Has(l, u)
      <4>1. PICK i \in 1..k : q[i] = u
        BY <1>2, <3>2 DEF Has, q
      <4>2. i \in DOMAIN p /\ p[i] = u
        BY <1>1, <1>2, <4>1
      <4> QED BY <4>2 DEF p, Has
    <3> QED BY <2>2, <3>1, <3>2
  <2> QED BY <2>1, <2>2
<1>4. ~Asked(l) => \A i \in 1..k : q[i].kind # "stop"
  BY <1>2, TaskIs DEF Asked, Has, q
<1>5. StopIsLast(n)
  <2>1. /\ \A i, j \in 1..k : i < j /\ q[i].kind = "stop" => ~Opens(q[j])
        /\ l.stop => \A i \in 1..k : ~Opens(q[i])
    BY <1>2 DEF LoopOK, StopIsLast, q
  <2>2. ASSUME NEW i \in 1..k + 1, NEW j \in 1..k + 1, i < j, p[i].kind = "stop"
        PROVE  ~Opens(p[j])
    <3>1. i \in 1..k /\ p[i] = q[i] /\ (j \in 1..k \/ j = k + 1)
      BY <1>1, <1>2, <2>2
    <3>2. CASE j \in 1..k
      BY <1>1, <1>2, <2>1, <2>2, <3>1, <3>2
    <3>3. CASE j = k + 1
      BY <1>1, <1>4, <2>2, <3>1, <3>3
    <3> QED BY <3>1, <3>2, <3>3
  <2>3. ASSUME l.stop, NEW i \in 1..k + 1 PROVE ~Opens(p[i])
    <3>1. CASE i \in 1..k
      BY <1>1, <1>2, <2>1, <2>3, <3>1
    <3>2. CASE i = k + 1
      BY <1>1, <2>3, <3>2 DEF Asked
    <3> QED BY <1>2, <3>1, <3>2
  <2> QED BY <1>1, <1>2, <2>2, <2>3 DEF StopIsLast, p
<1>6. TasksMatch(r, n, cn)
  <2>0. /\ \A i \in 1..k : q[i].kind = "add" =>
              /\ r \in Subs /\ cn[q[i].client].at = "socket" /\ cn[q[i].client].home = r
              /\ \A j \in 1..k : q[j] = q[i] => i = j
        /\ \A i \in 1..k : q[i].kind = "remove" => cn[q[i].client].at = "dead"
    BY <1>2 DEF LoopOK, TasksMatch, q
  <2>1. ASSUME NEW i \in 1..k + 1, p[i].kind = "add"
        PROVE  r \in Subs /\ cn[p[i].client].at = "socket" /\ cn[p[i].client].home = r
    BY <1>1, <1>2, <2>0, <2>1
  <2>2. ASSUME NEW i \in 1..k + 1, NEW j \in 1..k + 1, p[i].kind = "add", p[j] = p[i]
        PROVE  i = j
    <3>1. t.kind = "add" => \A h \in 1..k : q[h] # t
      BY <1>2 DEF Has, q
    <3>2. CASE i \in 1..k /\ j \in 1..k
      BY <1>1, <1>2, <2>0, <2>2, <3>2
    <3>3. CASE i = k + 1 /\ j \in 1..k
      BY <1>1, <1>2, <2>2, <3>1, <3>3
    <3>4. CASE j = k + 1 /\ i \in 1..k
      BY <1>1, <1>2, <2>2, <3>1, <3>4
    <3> QED BY <1>2, <3>2, <3>3, <3>4
  <2>3. ASSUME NEW i \in 1..k + 1, p[i].kind = "remove" PROVE cn[p[i].client].at = "dead"
    BY <1>1, <1>2, <2>0, <2>3
  <2> QED BY <1>2, <2>1, <2>2, <2>3 DEF TasksMatch, p
<1> QED BY <1>1, <1>3, <1>5, <1>6 DEF LoopOK, n

(* Taking the copy disturbs nothing.                                       *)
LEMMA DrainOK ==
  ASSUME NEW r, NEW l \in LoopType, NEW cn, LoopOK(r, l, cn), l.at = "poll"
  PROVE  LET n == [l EXCEPT !.funcs = l.tasks, !.tasks = <<>>, !.at = "run"]
         IN  /\ n \in LoopType /\ n.at = "run" /\ n.stop = l.stop
             /\ LoopOK(r, n, cn)
             /\ \A u : Has(n, u) <=> Has(l, u)
<1> DEFINE n == [l EXCEPT !.funcs = l.tasks, !.tasks = <<>>, !.at = "run"]
<1>1. l.funcs = <<>>
  BY DEF LoopOK
<1>2. n \in LoopType /\ n.at = "run" /\ n.stop = l.stop /\ Queue(n) = Queue(l)
  BY <1>1, DrainQueue
<1> HIDE DEF n
<1>3. \A u : Has(n, u) <=> Has(l, u)
  BY <1>2 DEF Has
<1>4. StopIsLast(n) /\ TasksMatch(r, n, cn)
  BY <1>2 DEF LoopOK, StopIsLast, TasksMatch
<1> QED BY <1>2, <1>3, <1>4 DEF LoopOK, n

(* Nor does running the first task, but for what that task does: then its  *)
(* client has no other task that adds it.                                  *)
LEMMA RanOK ==
  ASSUME NEW r, NEW l \in LoopType, NEW cn, LoopOK(r, l, cn), l.at = "run", l.funcs # <<>>
  PROVE  LET n == [l EXCEPT !.funcs = Tail(@)]
             h == Head(l.funcs)
         IN  /\ n \in LoopType /\ n.at = "run" /\ n.stop = l.stop /\ h \in Task /\ Has(l, h)
             /\ LoopOK(r, n, cn)
             /\ \A u : Has(n, u) => Has(l, u)
             /\ \A u : Has(l, u) /\ u # h => Has(n, u)
             /\ h.kind = "add" => /\ r \in Subs /\ cn[h.client].at = "socket" /\ cn[h.client].home = r
                                  /\ ~Has(n, h)
             /\ h.kind = "remove" => cn[h.client].at = "dead"
             /\ h.kind = "stop" => \A i \in DOMAIN Queue(n) : ~Opens(Queue(n)[i])
             /\ Opens(h) => ~l.stop
<1> DEFINE n == [l EXCEPT !.funcs = Tail(@)]  h == Head(l.funcs)
           q == Queue(l)  p == Queue(n)  k == Len(Queue(n))
<1>1. /\ n \in LoopType /\ n.at = "run" /\ n.stop = l.stop
      /\ Len(q) = k + 1 /\ q[1] = h /\ 1 \in DOMAIN q /\ h \in Task
      /\ \A i \in DOMAIN p : p[i] = q[i + 1]
  BY RanQueue
<1> HIDE DEF n, h
<1>2. k \in Nat /\ DOMAIN p = 1..k /\ DOMAIN q = 1..k + 1
  BY <1>1, QueueIs
<1> HIDE DEF q, p, k
<1>3. \A u : Has(n, u) => Has(l, u)
  <2> SUFFICES ASSUME NEW u, Has(n, u) PROVE Has(l, u)
    OBVIOUS
  <2>1. PICK i \in 1..k : p[i] = u
    BY <1>2 DEF Has, p
  <2>2. i + 1 \in 1..k + 1 /\ q[i + 1] = u
    BY <1>1, <1>2, <2>1
  <2> QED BY <1>2, <2>2 DEF Has, q
<1>4. \A u : Has(l, u) /\ u # h => Has(n, u)
  <2> SUFFICES ASSUME NEW u, Has(l, u), u # h PROVE Has(n, u)
    OBVIOUS
  <2>1. PICK i \in 1..k + 1 : q[i] = u
    BY <1>2 DEF Has, q
  <2>2. i - 1 \in 1..k /\ (i - 1) + 1 = i
    BY <1>1, <1>2, <2>1
  <2>3. p[i - 1] = u
    BY <1>1, <1>2, <2>1, <2>2
  <2> QED BY <1>2, <2>2, <2>3 DEF Has, p
<1>5. Has(l, h)
  BY <1>1 DEF Has, q
<1>6. /\ \A i, j \in 1..k + 1 : i < j /\ q[i].kind = "stop" => ~Opens(q[j])
      /\ l.stop => \A i \in 1..k + 1 : ~Opens(q[i])
  BY <1>2 DEF LoopOK, StopIsLast, q
<1>7. /\ \A i \in 1..k + 1 : q[i].kind = "add" =>
            /\ r \in Subs /\ cn[q[i].client].at = "socket" /\ cn[q[i].client].home = r
            /\ \A j \in 1..k + 1 : q[j] = q[i] => i = j
      /\ \A i \in 1..k + 1 : q[i].kind = "remove" => cn[q[i].client].at = "dead"
  BY <1>2 DEF LoopOK, TasksMatch, q
<1>8. \A i \in 1..k : p[i] = q[i + 1] /\ i + 1 \in 1..k + 1 /\ 1 < i + 1
  BY <1>1, <1>2
<1>9. 1 \in 1..k + 1
  BY <1>2
<1>10. StopIsLast(n)
  <2>1. ASSUME NEW i \in 1..k, NEW j \in 1..k, i < j, p[i].kind = "stop" PROVE ~Opens(p[j])
    <3>1. i + 1 < j + 1
      BY <1>2, <2>1
    <3> QED BY <1>6, <1>8, <2>1, <3>1
  <2>2. ASSUME l.stop, NEW i \in 1..k PROVE ~Opens(p[i])
    BY <1>6, <1>8, <2>2
  <2> QED BY <1>1, <1>2, <2>1, <2>2 DEF StopIsLast, p
<1>11. TasksMatch(r, n, cn)
  <2>1. ASSUME NEW i \in 1..k, NEW j \in 1..k, p[i].kind = "add", p[j] = p[i] PROVE i = j
    <3>1. i + 1 = j + 1
      BY <1>7, <1>8, <2>1
    <3> QED BY <1>2, <3>1
  <2>2. ASSUME NEW i \in 1..k
        PROVE  /\ p[i].kind = "add" =>
                    r \in Subs /\ cn[p[i].client].at = "socket" /\ cn[p[i].client].home = r
               /\ p[i].kind = "remove" => cn[p[i].client].at = "dead"
    BY <1>7, <1>8
  <2> QED BY <1>2, <2>1, <2>2 DEF TasksMatch, p
<1>12. h.kind = "add" => /\ r \in Subs /\ cn[h.client].at = "socket" /\ cn[h.client].home = r
                         /\ \A i \in 1..k : p[i] # h
  <2>1. ASSUME h.kind = "add", NEW i \in 1..k, p[i] = h PROVE FALSE
    <3>1. 1 = i + 1
      BY <1>1, <1>7, <1>8, <1>9, <2>1
    <3> QED BY <1>8, <3>1
  <2> QED BY <1>1, <1>7, <1>9, <2>1
<1>13. h.kind = "add" => ~Has(n, h)
  BY <1>2, <1>12 DEF Has, p
<1>14. h.kind = "remove" => cn[h.client].at = "dead"
  BY <1>1, <1>7, <1>9
<1>15. h.kind = "stop" => \A i \in DOMAIN p : ~Opens(p[i])
  BY <1>1, <1>2, <1>6, <1>8, <1>9
<1>16. Opens(h) => ~l.stop
  BY <1>1, <1>6, <1>9
<1>17. LoopOK(r, n, cn)
  BY <1>1, <1>10, <1>11 DEF LoopOK
<1> QED BY <1>1, <1>3, <1>4, <1>5, <1>12, <1>13, <1>14, <1>15, <1>16, <1>17 DEF n, h, p

-----------------------------------------------------------------------------
(* The reactors are numbered from the main reactor, 0; the pool comes last *)
(* in the order of the stop.                                               *)
LEMMA ReactorsAre ==
  /\ NSubs \in Nat /\ NSubs > 0 /\ Subs = 1..NSubs /\ MainReactor = 0
  /\ Reactors = 0..NSubs /\ MainReactor \in Reactors /\ MainReactor \notin Subs
  /\ Subs \subseteq Reactors /\ Pool = NSubs + 1 /\ Pool \notin Reactors
  BY ServerAssumption DEF Subs, MainReactor, Reactors, Pool

(* Server::stop: the main reactor, the sub reactors in order, the pool.    *)
LEMMA StopOrderIs ==
  ASSUME useThreadPool \in BOOLEAN
  PROVE  /\ Len(StopOrder) = IF useThreadPool THEN NSubs + 2 ELSE NSubs + 1
         /\ \A r \in Reactors : StopOrder[r + 1] = r
         /\ useThreadPool => StopOrder[NSubs + 2] = Pool
<1> DEFINE M == <<MainReactor>>  A == AllSubs  P == IfPool  B == M \o A
<1>1. M \in Seq(Int) /\ Len(M) = 1 /\ M[1] = 0
  BY ReactorsAre
<1>2. A \in Seq(Int) /\ Len(A) = NSubs /\ \A i \in 1..NSubs : A[i] = i
  BY ReactorsAre DEF AllSubs
<1>3. P \in Seq(Int) /\ Len(P) = IF useThreadPool THEN 1 ELSE 0
  BY ReactorsAre DEF IfPool
<1>4. useThreadPool => P[1] = Pool
  BY DEF IfPool
<1>5. StopOrder = B \o P
  BY DEF StopOrder
<1> HIDE DEF M, A, P
<1>6. B \in Seq(Int) /\ IsJoin(B, M, A)
  BY <1>1, <1>2, Joined
<1> HIDE DEF B
<1>7. IsJoin(StopOrder, B, P)
  BY <1>3, <1>5, <1>6, Joined
<1>8. Len(B) = NSubs + 1 /\ Len(StopOrder) = Len(B) + Len(P)
  BY <1>1, <1>2, <1>6, <1>7 DEF IsJoin
<1>9. ASSUME NEW r \in Reactors PROVE StopOrder[r + 1] = r
  <2>1. r + 1 \in 1..Len(B)
    BY <1>8, ReactorsAre
  <2>2. StopOrder[r + 1] = B[r + 1]
    BY <1>7, <2>1 DEF IsJoin
  <2>3. CASE r = 0
    <3>1. 1 \in 1..Len(M)
      BY <1>1
    <3>2. B[1] = M[1]
      BY <1>6, <3>1 DEF IsJoin
    <3> QED BY <1>1, <2>2, <2>3, <3>2
  <2>4. CASE r # 0
    <3>1. r \in 1..Len(A) /\ r \in 1..NSubs
      BY <1>2, <2>4, ReactorsAre
    <3>2. B[r + Len(M)] = A[r]
      BY <1>6, <3>1 DEF IsJoin
    <3> QED BY <1>1, <1>2, <2>2, <3>1, <3>2
  <2> QED BY <2>3, <2>4
<1>10. ASSUME useThreadPool PROVE StopOrder[NSubs + 2] = Pool
  <2>1. 1 \in 1..Len(P) /\ 1 + Len(B) = NSubs + 2
    BY <1>3, <1>8, <1>10, ReactorsAre
  <2>2. StopOrder[1 + Len(B)] = P[1]
    BY <1>7, <2>1 DEF IsJoin
  <2> QED BY <1>4, <1>10, <2>1, <2>2
<1>11. Len(StopOrder) = IF useThreadPool THEN NSubs + 2 ELSE NSubs + 1
  BY <1>3, <1>8, ReactorsAre
<1> QED BY <1>9, <1>10, <1>11

(* The fields of a connection, and what its updates leave typed.           *)
LEMMA ConnIs ==
  ASSUME NEW k \in ConnType
  PROVE  /\ k.at \in {"none", "backlog", "socket", "connected", "dead", "refused"}
         /\ k.home \in Reactors /\ k.working \in Int /\ k.requests \in 0..MaxRequests
         /\ k.inMap \in BOOLEAN
         /\ \A a \in {"none", "backlog", "socket", "connected", "dead", "refused"} :
              [k EXCEPT !.at = a] \in ConnType
  BY DEF ConnType

-----------------------------------------------------------------------------
(* One loop changes.                                                       *)
LEMMA LoopSet ==
  ASSUME loops \in [Reactors -> LoopType], NEW r \in Reactors, NEW n \in LoopType,
         loops' = [loops EXCEPT ![r] = n]
  PROVE  /\ loops' \in [Reactors -> LoopType] /\ loops'[r] = n
         /\ \A q \in Reactors : q # r => loops'[q] = loops[q]
  OBVIOUS

(* The rest of a step in which one loop changes and the connections change *)
(* in a way that no task notices.                                          *)
LEMMA OneLoop ==
  ASSUME loops \in [Reactors -> LoopType], LoopsOK, NEW r \in Reactors, NEW n \in LoopType,
         loops' = [loops EXCEPT ![r] = n], LoopOK(r, n, conn'), SameForTasks(conn, conn')
  PROVE  LoopsOK'
<1>1. ASSUME NEW q \in Reactors PROVE LoopOK(q, loops'[q], conn')
  <2>1. CASE q = r
    BY <2>1, LoopSet
  <2>2. CASE q # r
    <3>1. loops'[q] = loops[q] /\ loops[q] \in LoopType /\ LoopOK(q, loops[q], conn)
      BY <2>2, LoopSet DEF LoopsOK
    <3>2. LoopOK(q, loops[q], conn')
      BY <3>1, OtherConns
    <3> QED BY <3>1, <3>2
  <2> QED BY <2>1, <2>2
<1> QED BY <1>1 DEF LoopsOK

(* No loop changes.                                                        *)
LEMMA NoLoop ==
  ASSUME loops \in [Reactors -> LoopType], LoopsOK, loops' = loops, SameForTasks(conn, conn')
  PROVE  LoopsOK'
<1>1. ASSUME NEW q \in Reactors PROVE LoopOK(q, loops'[q], conn')
  <2>1. loops'[q] = loops[q] /\ loops[q] \in LoopType /\ LoopOK(q, loops[q], conn)
    BY DEF LoopsOK
  <2>2. LoopOK(q, loops[q], conn')
    BY <2>1, OtherConns
  <2> QED BY <2>1, <2>2
<1> QED BY <1>1 DEF LoopsOK

(* What enqueueTask does to the queues.                                    *)
Enqueued(r, t) ==
  /\ loops' \in [Reactors -> LoopType] /\ LoopsOK'
  /\ \A q \in Reactors : loops'[q].at = loops[q].at /\ loops'[q].stop = loops[q].stop
  /\ \A q \in Reactors : \A u : Has(loops[q], u) => Has(loops'[q], u)
  /\ \A q \in Reactors : Asked(loops'[q]) => Asked(loops[q]) \/ (q = r /\ t.kind = "stop")
  /\ ~loops[r].stop => Has(loops'[r], t)

(* A task is put at the end of a queue, if it is one that may be there.    *)
LEMMA AppendStep ==
  ASSUME loops \in [Reactors -> LoopType], LoopsOK, NEW r \in Reactors, NEW t \in Task,
         SameForTasks(conn, conn'),
         Opens(t) => ~Asked(loops[r]),
         t.kind = "add" => /\ r \in Subs /\ conn'[t.client].at = "socket" /\ conn'[t.client].home = r
                           /\ ~Has(loops[r], t),
         t.kind = "remove" => conn'[t.client].at = "dead",
         loops' = [loops EXCEPT ![r] = [loops[r] EXCEPT !.tasks = Append(@, t)]]
  PROVE  Enqueued(r, t)
<1> DEFINE l == loops[r]  n == [l EXCEPT !.tasks = Append(@, t)]
<1>1. l \in LoopType /\ LoopOK(r, l, conn')
  BY OtherConns DEF LoopsOK
<1>2. /\ n \in LoopType /\ n.at = l.at /\ n.stop = l.stop
      /\ LoopOK(r, n, conn')
      /\ \A u : Has(n, u) <=> Has(l, u) \/ u = t
  <2> HIDE DEF l
  <2>1. Opens(t) => ~Asked(l)
    BY DEF l
  <2>2. t.kind = "add" => /\ r \in Subs /\ conn'[t.client].at = "socket" /\ conn'[t.client].home = r
                          /\ ~Has(l, t)
    BY DEF l
  <2> QED BY <1>1, <2>1, <2>2, PostOK
<1>3. loops' = [loops EXCEPT ![r] = n]
  OBVIOUS
<1> HIDE DEF n
<1>4. /\ loops' \in [Reactors -> LoopType] /\ loops'[r] = n
      /\ \A q \in Reactors : q # r => loops'[q] = loops[q]
  BY <1>2, <1>3, LoopSet
<1>5. LoopsOK'
  BY <1>2, <1>3, OneLoop
<1>6. \A q \in Reactors : \A u : Has(loops[q], u) => Has(loops'[q], u)
  BY <1>2, <1>4
<1>7. Asked(n) => Asked(l) \/ t.kind = "stop"
  BY <1>2 DEF Asked
<1> QED BY <1>2, <1>4, <1>5, <1>6, <1>7 DEF Enqueued

(* The same for enqueueTask, which drops the task when the loop has        *)
(* stopped.                                                                *)
LEMMA EnqueueStep ==
  ASSUME loops \in [Reactors -> LoopType], LoopsOK, NEW r \in Reactors, NEW t \in Task,
         SameForTasks(conn, conn'),
         Opens(t) => ~Asked(loops[r]),
         t.kind = "add" => /\ r \in Subs /\ conn'[t.client].at = "socket" /\ conn'[t.client].home = r
                           /\ ~Has(loops[r], t),
         t.kind = "remove" => conn'[t.client].at = "dead",
         enqueueTask(r, t)
  PROVE  Enqueued(r, t)
<1>1. CASE loops[r].stop
  <2>1. loops' = loops
    BY <1>1 DEF enqueueTask, Posted
  <2>2. LoopsOK'
    BY <2>1, NoLoop
  <2> QED BY <1>1, <2>1, <2>2 DEF Enqueued
<1>2. CASE ~loops[r].stop
  <2>1. loops' = [loops EXCEPT ![r] = [loops[r] EXCEPT !.tasks = Append(@, t)]]
    BY <1>2 DEF enqueueTask, Posted
  <2> QED BY <2>1, AppendStep
<1> QED BY <1>1, <1>2

-----------------------------------------------------------------------------
(* The invariant holds at the start.                                       *)
LEMMA InvInit == Init => Inv
<1> SUFFICES ASSUME Init PROVE Inv
  OBVIOUS
<1> DEFINE e == [tasks |-> <<>>, funcs |-> <<>>, stop |-> FALSE, at |-> "new"]
<1>1. e \in LoopType /\ Queue(e) = <<>>
  BY DEF LoopType, Queue
<1>2. \A r \in Reactors : loops[r] = e
  BY DEF Init
<1>3. TypeOK
  <2>1. loops \in [Reactors -> LoopType]
    BY <1>1 DEF Init
  <2>2. conn \in [Clients -> ConnType]
    BY ReactorsAre, ServerAssumption DEF Init, ConnType
  <2>3. useThreadPool \in BOOLEAN /\ turn \in 1..NSubs + 3 /\ subIdx \in 0..NSubs - 1
    BY ReactorsAre, ServerAssumption DEF Init
  <2>4. poolTasks \in Seq(Clients) /\ hand \in [Workers -> Clients \cup {NoClient}]
    BY DEF Init
  <2>5. worker \in [Workers -> {"ready", "posting", "exited"}] /\ poolStop \in BOOLEAN
    BY DEF Init
  <2> QED BY <2>1, <2>2, <2>3, <2>4, <2>5 DEF Init, TypeOK
<1>4. NeverTerminated /\ Control /\ PoolLast
  BY <1>2 DEF Init, NeverTerminated, Control, PoolLast
<1>5. LoopsOK
  BY <1>1, <1>2 DEF LoopsOK, LoopOK, StopIsLast, TasksMatch
<1>6. AskedInOrder
  BY <1>1, <1>2, ReactorsAre DEF AskedInOrder, Asked, Has
<1>7. ConnStates
  BY <1>1, <1>2, ReactorsAre DEF Init, ConnStates
<1> QED BY <1>3, <1>4, <1>5, <1>6, <1>7 DEF Inv

-----------------------------------------------------------------------------
(* A step that leaves the loops and the connections alone.                 *)
LEMMA SameLoops ==
  ASSUME Inv, UNCHANGED <<loops, conn, listening>>, main \in Stopping => main' \in Stopping
  PROVE  LoopsOK' /\ AskedInOrder' /\ ConnStates'
  BY DEF Inv, LoopsOK, AskedInOrder, ConnStates

(* The connections after a task has been posted that changes none of them. *)
LEMMA AfterEnqueue ==
  ASSUME Inv, NEW r, NEW t, Enqueued(r, t), conn' = conn, listening' = listening
  PROVE  ConnStates'
<1>1. conn \in [Clients -> ConnType]
  BY DEF Inv, TypeOK
<1>2. ASSUME NEW c \in Clients
      PROVE  /\ conn'[c].at = "socket" => Has(loops'[conn'[c].home], AddOf(c))
             /\ conn'[c].at \in {"socket", "connected"} =>
                  conn'[c].home \in Subs /\ ~loops'[conn'[c].home].stop
  <2>1. conn[c].home \in Reactors
    BY <1>1, ConnIs
  <2> QED BY <2>1 DEF Inv, ConnStates, Enqueued
<1>3. loops'[MainReactor].stop = loops[MainReactor].stop
  BY ReactorsAre DEF Enqueued
<1> QED BY <1>2, <1>3 DEF Inv, ConnStates

(* A loop starts, or goes on after a round.                                *)
LEMMA AtStep ==
  ASSUME Inv, NEW r \in Reactors, NEW a \in {"poll", "done"},
         loops' = [loops EXCEPT ![r].at = a], loops[r].funcs = <<>>, a = "done" => loops[r].stop,
         conn' = conn, listening' = listening
  PROVE  /\ loops' \in [Reactors -> LoopType] /\ LoopsOK' /\ ConnStates'
         /\ \A q \in Reactors : Asked(loops'[q]) <=> Asked(loops[q])
         /\ \A q \in Reactors : loops'[q].at = IF q = r THEN a ELSE loops[q].at
<1> DEFINE l == loops[r]  n == [l EXCEPT !.at = a]
<1>1. loops \in [Reactors -> LoopType] /\ l \in LoopType /\ LoopOK(r, l, conn') /\ LoopsOK
  BY DEF Inv, TypeOK, LoopsOK
<1>2. n \in LoopType /\ n.at = a /\ n.stop = l.stop /\ n.funcs = l.funcs /\ n.tasks = l.tasks
  BY <1>1 DEF LoopType
<1>3. loops' = [loops EXCEPT ![r] = n]
  BY <1>1
<1> HIDE DEF n
<1>4. Queue(n) = Queue(l)
  BY <1>2 DEF Queue
<1>5. LoopOK(r, n, conn')
  BY <1>1, <1>2, <1>4 DEF LoopOK, StopIsLast, TasksMatch
<1>6. /\ loops' \in [Reactors -> LoopType] /\ loops'[r] = n
      /\ \A q \in Reactors : q # r => loops'[q] = loops[q]
  BY <1>1, <1>2, <1>3, LoopSet
<1>7. SameForTasks(conn, conn')
  BY DEF SameForTasks
<1>8. LoopsOK'
  BY <1>1, <1>2, <1>3, <1>5, <1>7, OneLoop
<1>9. \A q \in Reactors : /\ loops'[q].stop = loops[q].stop
                          /\ \A u : Has(loops'[q], u) <=> Has(loops[q], u)
  BY <1>2, <1>4, <1>6 DEF Has
<1>10. ConnStates'
  <2>1. ASSUME NEW c \in Clients
        PROVE  /\ conn'[c].at = "socket" => Has(loops'[conn'[c].home], AddOf(c))
               /\ conn'[c].at \in {"socket", "connected"} =>
                    conn'[c].home \in Subs /\ ~loops'[conn'[c].home].stop
    <3>1. conn[c].home \in Reactors
      BY ConnIs DEF Inv, TypeOK
    <3> QED BY <1>9, <3>1 DEF Inv, ConnStates
  <2> QED BY <1>9, <2>1, ReactorsAre DEF Inv, ConnStates
<1> QED BY <1>2, <1>6, <1>8, <1>9, <1>10 DEF Asked

(* Server::listenPort posts the listen task.                               *)
LEMMA listenPortStep == ASSUME Inv, listenPort PROVE Inv'
<1> DEFINE t == [kind |-> "listen"]
<1>1. t \in Task /\ t.kind = "listen" /\ MainReactor \in Reactors
  BY TasksMade, ReactorsAre
<1>2. ~Asked(loops[MainReactor])
  BY DEF Inv, AskedInOrder, listenPort, Stopping
<1>3. SameForTasks(conn, conn')
  BY DEF listenPort, SameForTasks
<1>4. loops \in [Reactors -> LoopType] /\ LoopsOK /\ enqueueTask(MainReactor, t)
  BY DEF Inv, TypeOK, listenPort
<1> HIDE DEF t
<1>5. Enqueued(MainReactor, t)
  BY <1>1, <1>2, <1>3, <1>4, EnqueueStep
<1>6. ConnStates'
  BY <1>5, AfterEnqueue DEF listenPort
<1>7. AskedInOrder'
  BY <1>1, <1>2, <1>5, ReactorsAre DEF Inv, AskedInOrder, Enqueued
<1>8. TypeOK' /\ NeverTerminated'
  BY <1>5 DEF Inv, TypeOK, NeverTerminated, listenPort, poolVars, Enqueued
<1>9. Control' /\ PoolLast'
  BY <1>5, ReactorsAre DEF Inv, Control, PoolLast, listenPort, poolVars, Enqueued, Stopping
<1> QED BY <1>5, <1>6, <1>7, <1>8, <1>9 DEF Inv, Enqueued

(* Server::start starts the loops one after the other.                     *)
LEMMA startStep == ASSUME Inv, start PROVE Inv'
<1> DEFINE x == IF turn \in Subs THEN turn ELSE MainReactor
<1>1. x \in Reactors /\ loops[x].at = "new" /\ main = "start" /\ turn \in Nat /\ turn >= 1
  BY ReactorsAre DEF Inv, TypeOK, Control, start
<1>2. loops[x].funcs = <<>> /\ loops' = [loops EXCEPT ![x].at = "poll"]
  BY <1>1 DEF Inv, LoopsOK, LoopOK, start
<1> HIDE DEF x
<1>3. conn' = conn /\ listening' = listening
  BY DEF start
<1>4. /\ loops' \in [Reactors -> LoopType] /\ LoopsOK' /\ ConnStates'
      /\ \A q \in Reactors : Asked(loops'[q]) <=> Asked(loops[q])
      /\ \A q \in Reactors : loops'[q].at = IF q = x THEN "poll" ELSE loops[q].at
  BY <1>1, <1>2, <1>3, AtStep
<1>5. AskedInOrder'
  BY <1>1, <1>4, ReactorsAre DEF Inv, AskedInOrder, Stopping, Control
<1>6. ~poolStop
  BY <1>1 DEF Inv, PoolLast, Stopping
<1>7. PoolLast'
  BY <1>6 DEF Inv, PoolLast, start, poolVars
<1>8. Control'
  <2>1. CASE turn \in Subs
    BY <1>1, <1>4, <2>1, ReactorsAre DEF Inv, Control, start, x
  <2>2. CASE turn \notin Subs
    BY <1>1, <2>2 DEF Inv, Control, start
  <2> QED BY <2>1, <2>2
<1>9. TypeOK' /\ NeverTerminated'
  <2>1. turn' \in 1..NSubs + 3 /\ main' \in {"listen", "start", "wait", "stop", "join", "returned"}
    BY <1>1, ReactorsAre DEF start
  <2> QED BY <1>4, <2>1 DEF Inv, TypeOK, NeverTerminated, start, poolVars
<1> QED BY <1>4, <1>5, <1>7, <1>8, <1>9 DEF Inv

(* The signal handler only sets a flag.                                    *)
LEMMA onStopSignalStep == ASSUME Inv, onStopSignal PROVE Inv'
<1>1. LoopsOK' /\ AskedInOrder' /\ ConnStates'
  BY SameLoops DEF onStopSignal
<1>2. StopOrder' = StopOrder
  BY DEF StopOrder, IfPool, onStopSignal
<1>3. TypeOK' /\ NeverTerminated' /\ Control' /\ PoolLast'
  BY <1>2 DEF Inv, TypeOK, NeverTerminated, Control, PoolLast, onStopSignal, poolVars
<1> QED BY <1>1, <1>3 DEF Inv

(* The control thread sees it and starts to stop.                          *)
LEMMA leaveWaitStep == ASSUME Inv, leaveWait PROVE Inv'
<1>1. LoopsOK' /\ AskedInOrder' /\ ConnStates'
  BY SameLoops DEF leaveWait, Stopping
<1>2. TypeOK' /\ NeverTerminated' /\ PoolLast'
  BY DEF Inv, TypeOK, NeverTerminated, PoolLast, leaveWait, poolVars, Stopping
<1>3. Control'
  BY ReactorsAre DEF Inv, TypeOK, Control, leaveWait
<1> QED BY <1>1, <1>2, <1>3 DEF Inv

(* A thread is joined once it has ended.                                   *)
LEMMA joinStep == ASSUME Inv, join PROVE Inv'
<1>1. LoopsOK' /\ AskedInOrder' /\ ConnStates'
  BY SameLoops DEF join, Stopping
<1>2. turn \in Nat /\ turn >= 1 /\ turn <= Len(StopOrder) /\ useThreadPool \in BOOLEAN
  BY DEF Inv, TypeOK, Control, join
<1>3. turn <= NSubs + 2 /\ (turn > NSubs + 1 => useThreadPool /\ turn = NSubs + 2)
  BY <1>2, StopOrderIs, ReactorsAre
<1>4. TypeOK' /\ NeverTerminated' /\ PoolLast'
  <2>1. turn' \in 1..NSubs + 3
    BY <1>2, <1>3, ReactorsAre DEF join
  <2> QED BY <2>1 DEF Inv, TypeOK, NeverTerminated, PoolLast, join, poolVars, Stopping
<1>5. ASSUME NEW r \in Reactors, r + 1 < turn' PROVE loops'[r].at = "done"
  <2>1. CASE r + 1 < turn
    BY <2>1 DEF Inv, Control, join
  <2>2. CASE r + 1 = turn
    BY <1>2, <2>2, StopOrderIs, ReactorsAre DEF join, Ended
  <2> QED BY <1>2, <1>5, <2>1, <2>2, ReactorsAre DEF join
<1>6. ASSUME turn' > NSubs + 2 PROVE \A w \in Workers : worker'[w] = "exited"
  <2>1. turn = NSubs + 2 /\ useThreadPool
    BY <1>2, <1>3, <1>6, ReactorsAre DEF join
  <2> QED BY <2>1, StopOrderIs DEF join, Ended, poolVars
<1>7. Control'
  BY <1>5, <1>6 DEF Control, join
<1> QED BY <1>1, <1>4, <1>7 DEF Inv

(* Everything is joined: main returns.                                     *)
LEMMA returnStep == ASSUME Inv, return PROVE Inv'
<1>1. LoopsOK' /\ AskedInOrder' /\ ConnStates'
  BY SameLoops DEF return, Stopping
<1>2. turn \in Nat /\ turn > Len(StopOrder) /\ useThreadPool \in BOOLEAN
  BY DEF Inv, TypeOK, return
<1>3. TypeOK' /\ NeverTerminated' /\ PoolLast'
  BY DEF Inv, TypeOK, NeverTerminated, PoolLast, return, poolVars, Stopping
<1>4. turn > NSubs + 1 /\ (useThreadPool => turn > NSubs + 2)
  BY <1>2, StopOrderIs, ReactorsAre
<1>5. \A r \in Reactors : r + 1 < turn
  BY <1>2, <1>4, ReactorsAre
<1>6. Control'
  BY <1>4, <1>5 DEF Inv, Control, return, poolVars
<1> QED BY <1>1, <1>3, <1>6 DEF Inv

(* The next reactor, or the pool, is asked to stop.                        *)
LEMMA stopNextStep == ASSUME Inv, stopNext PROVE Inv'
<1>1. /\ main = "stop" /\ main' = "join" /\ turn' = turn /\ turn \in Nat /\ turn >= 1
      /\ turn <= Len(StopOrder) /\ useThreadPool \in BOOLEAN /\ useThreadPool' = useThreadPool
      /\ conn' = conn /\ listening' = listening /\ worker' = worker
  BY DEF Inv, TypeOK, stopNext
<1>2. turn <= NSubs + 2 /\ (turn > NSubs + 1 => useThreadPool /\ turn = NSubs + 2)
  BY <1>1, StopOrderIs, ReactorsAre
<1>3. StopOrder' = StopOrder
  BY <1>1 DEF StopOrder, IfPool
<1>4. CASE StopOrder[turn] = Pool
  <2>1. poolStop' = TRUE /\ loops' = loops
    BY <1>4 DEF stopNext
  <2>2. turn = NSubs + 2
    <3> SUFFICES ASSUME turn <= NSubs + 1 PROVE FALSE
      BY <1>1, <1>2, ReactorsAre
    <3>1. turn - 1 \in Reactors /\ (turn - 1) + 1 = turn
      BY <1>1, ReactorsAre
    <3> QED BY <1>1, <1>4, <3>1, StopOrderIs, ReactorsAre
  <2>3. \A r \in Reactors : loops[r].at = "done"
    BY <1>1, <2>2, ReactorsAre DEF Inv, Control
  <2>4. LoopsOK' /\ AskedInOrder' /\ ConnStates'
    BY <1>1, <2>1, SameLoops DEF Stopping
  <2>5. TypeOK' /\ NeverTerminated'
    BY <1>1, <2>1 DEF Inv, TypeOK, NeverTerminated, stopNext
  <2>6. Control' /\ PoolLast'
    BY <1>1, <1>3, <2>1, <2>3 DEF Inv, Control, PoolLast, stopNext, Stopping
  <2> QED BY <2>4, <2>5, <2>6 DEF Inv
<1>5. CASE StopOrder[turn] # Pool
  <2> DEFINE r == turn - 1  t == [kind |-> "stop"]
  <2>1. r \in Reactors /\ StopOrder[turn] = r
    <3>1. turn # NSubs + 2
      BY <1>1, <1>2, <1>5, StopOrderIs, ReactorsAre
    <3>2. r \in Reactors /\ r + 1 = turn
      BY <1>1, <1>2, <3>1, ReactorsAre
    <3> QED BY <1>1, <3>2, StopOrderIs
  <2>2. poolStop' = poolStop /\ enqueueTask(r, t)
    BY <1>5, <2>1 DEF stopNext
  <2>3. t \in Task /\ t.kind = "stop"
    BY TasksMade
  <2>4. r \in Subs => loops[MainReactor].at = "done"
    BY <1>1, ReactorsAre DEF Inv, Control
  <2> HIDE DEF r, t
  <2>5. SameForTasks(conn, conn') /\ loops \in [Reactors -> LoopType] /\ LoopsOK /\ ~Opens(t)
    BY <1>1, <2>3 DEF SameForTasks, Inv, TypeOK, Opens
  <2>6. Enqueued(r, t)
    BY <2>1, <2>2, <2>3, <2>5, EnqueueStep
  <2>7. ConnStates'
    BY <1>1, <2>6, AfterEnqueue
  <2>8. AskedInOrder'
    BY <1>1, <2>4, <2>6, ReactorsAre DEF Inv, AskedInOrder, Enqueued, Stopping
  <2>9. TypeOK' /\ NeverTerminated'
    BY <1>1, <2>2, <2>6 DEF Inv, TypeOK, NeverTerminated, stopNext, Enqueued
  <2>10. Control' /\ PoolLast'
    BY <1>1, <1>3, <2>2, <2>6 DEF Inv, Control, PoolLast, stopNext, Enqueued, Stopping
  <2> QED BY <2>6, <2>7, <2>8, <2>9, <2>10 DEF Inv, Enqueued
<1> QED BY <1>4, <1>5

-----------------------------------------------------------------------------
(* While an I/O thread runs, the pool has not been stopped.                *)
LEMMA RunningPool ==
  ASSUME Inv, NEW r \in Reactors, loops[r].at # "done"
  PROVE  ~poolStop /\ main # "returned" /\ \A w \in Workers : worker[w] # "exited"
  BY DEF Inv, PoolLast, Control

(* The main reactor accepts a client and gives it to a sub reactor.        *)
LEMMA handleNewConnectionStep ==
  ASSUME Inv, NEW c \in Clients, handleNewConnection(c) PROVE Inv'
<1> DEFINE r == subIdx + 1  t == AddOf(c)
<1>1. /\ loops[MainReactor].at = "poll" /\ conn[c].at = "backlog"
      /\ conn' = [conn EXCEPT ![c].at = "socket", ![c].home = r]
      /\ enqueueTask(r, t)
      /\ subIdx' = (subIdx + 1) % NSubs
      /\ UNCHANGED <<mainVars, listening, poolVars, terminated>>
  BY DEF handleNewConnection, Deal, Handling, AddOf
<1>2. r \in Subs /\ r \in Reactors /\ subIdx' \in 0..NSubs - 1
  BY <1>1, ReactorsAre DEF Inv, TypeOK
<1>3. t \in Task /\ t.kind = "add" /\ t.client = c
  BY TasksMade
<1>4. conn \in [Clients -> ConnType] /\ loops \in [Reactors -> LoopType] /\ LoopsOK
  BY DEF Inv, TypeOK
<1>5. /\ conn' \in [Clients -> ConnType]
      /\ conn'[c].at = "socket" /\ conn'[c].home = r /\ conn'[c].inMap = conn[c].inMap
      /\ \A d \in Clients : d # c => conn'[d] = conn[d]
  BY <1>1, <1>2, <1>4 DEF ConnType
<1> HIDE DEF r, t
<1>6. SameForTasks(conn, conn')
  BY <1>1, <1>5 DEF SameForTasks
<1>7. ~Asked(loops[r])
  BY <1>1, <1>2 DEF Inv, AskedInOrder
<1>8. ~Has(loops[r], t)
  <2> SUFFICES ASSUME Has(loops[r], t) PROVE FALSE
    OBVIOUS
  <2>1. TasksMatch(r, loops[r], conn)
    BY <1>2, <1>4 DEF LoopsOK, LoopOK
  <2> QED BY <1>1, <1>3, <2>1 DEF Has, TasksMatch
<1>9. Enqueued(r, t)
  BY <1>1, <1>2, <1>3, <1>4, <1>5, <1>6, <1>7, <1>8, EnqueueStep
<1>10. ~loops[r].stop /\ Has(loops'[r], t)
  BY <1>7, <1>9 DEF Asked, Enqueued
<1>11. ConnStates'
  <2>1. \A d \in Clients : conn[d].home \in Reactors
    BY <1>4, ConnIs
  <2>2. ASSUME NEW d \in Clients, d # c
        PROVE  /\ conn'[d].at = "socket" => Has(loops'[conn'[d].home], AddOf(d))
               /\ conn'[d].at = "connected" => conn'[d].inMap
               /\ conn'[d].inMap => conn'[d].at \in {"connected", "dead"}
               /\ conn'[d].at = "backlog" => listening'
               /\ conn'[d].at \in {"socket", "connected"} =>
                    conn'[d].home \in Subs /\ ~loops'[conn'[d].home].stop
    BY <1>1, <1>5, <1>9, <2>1, <2>2 DEF Inv, ConnStates, Enqueued
  <2>3. ~conn[c].inMap
    BY <1>1 DEF Inv, ConnStates
  <2>4. ~loops'[r].stop
    BY <1>2, <1>9, <1>10 DEF Enqueued
  <2>5. loops'[MainReactor].stop => ~listening'
    BY <1>1, <1>9, ReactorsAre DEF Inv, ConnStates, Enqueued
  <2>6. conn'[c].inMap = FALSE
    BY <1>4, <1>5, <2>3, ConnIs
  <2> QED BY <1>2, <1>5, <1>10, <2>2, <2>4, <2>5, <2>6 DEF ConnStates, t
<1>12. AskedInOrder'
  BY <1>1, <1>2, <1>3, <1>9, ReactorsAre DEF Inv, AskedInOrder, Enqueued, mainVars
<1>13. TypeOK' /\ NeverTerminated'
  BY <1>1, <1>2, <1>5, <1>9 DEF Inv, TypeOK, NeverTerminated, Enqueued, mainVars, poolVars
<1>14. StopOrder' = StopOrder
  BY <1>1 DEF StopOrder, IfPool, mainVars
<1>15. Control' /\ PoolLast'
  BY <1>1, <1>9, <1>14, ReactorsAre DEF Inv, Control, PoolLast, Enqueued, mainVars, poolVars
<1> QED BY <1>9, <1>11, <1>12, <1>13, <1>15 DEF Inv, Enqueued

(* A request goes to the pool, which is there.                             *)
LEMMA submitStep ==
  ASSUME Inv, NEW c \in Clients, submit(c) PROVE Inv'
<1>1. conn \in [Clients -> ConnType] /\ conn[c].home \in Reactors /\ loops \in [Reactors -> LoopType]
  BY ConnIs DEF Inv, TypeOK
<1>2. ~poolStop /\ \A w \in Workers : worker[w] # "exited"
  BY <1>1, RunningPool DEF submit, Handling
<1>3. /\ conn' = [conn EXCEPT ![c].requests = @ + 1, ![c].working = @ + 1]
      /\ poolTasks' = Append(poolTasks, c) /\ useThreadPool /\ conn[c].requests < MaxRequests
      /\ UNCHANGED <<mainVars, loops, listening, subIdx, poolStop, worker, hand, terminated>>
  BY <1>2 DEF submit
<1>4. /\ conn' \in [Clients -> ConnType]
      /\ \A d \in Clients : /\ conn'[d].at = conn[d].at /\ conn'[d].home = conn[d].home
                            /\ conn'[d].inMap = conn[d].inMap
  <2>1. conn[c] \in ConnType /\ conn[c].requests + 1 \in 0..MaxRequests /\ conn[c].working + 1 \in Int
    <3>1. conn[c] \in ConnType /\ conn[c].requests \in 0..MaxRequests /\ conn[c].working \in Int
      BY <1>1, ConnIs
    <3> QED BY <1>3, <3>1, ServerAssumption
  <2>2. [conn[c] EXCEPT !.requests = @ + 1, !.working = @ + 1] \in ConnType
    BY <2>1 DEF ConnType
  <2>3. conn' = [conn EXCEPT ![c] = [conn[c] EXCEPT !.requests = @ + 1, !.working = @ + 1]]
    BY <1>1, <1>3
  <2>4. conn' \in [Clients -> ConnType]
    BY <1>1, <2>2, <2>3
  <2> QED BY <1>1, <2>1, <2>3, <2>4 DEF ConnType
<1>5. SameForTasks(conn, conn')
  BY <1>4 DEF SameForTasks
<1>6. LoopsOK'
  BY <1>1, <1>3, <1>5, NoLoop DEF Inv
<1>7. ConnStates' /\ AskedInOrder'
  BY <1>3, <1>4 DEF Inv, ConnStates, AskedInOrder, mainVars
<1>8. StopOrder' = StopOrder
  BY <1>3 DEF StopOrder, IfPool, mainVars
<1>9. Control' /\ PoolLast'
  BY <1>2, <1>3, <1>8 DEF Inv, Control, PoolLast, mainVars
<1>10. TypeOK' /\ NeverTerminated'
  <2>1. poolTasks' \in Seq(Clients)
    BY <1>3 DEF Inv, TypeOK
  <2> QED BY <1>3, <1>4, <2>1 DEF Inv, TypeOK, NeverTerminated, mainVars
<1> QED BY <1>6, <1>7, <1>9, <1>10 DEF Inv

(* A connection dies and asks for its removal.                             *)
LEMMA handleDeadStep ==
  ASSUME Inv, NEW c \in Clients, handleDead(c) PROVE Inv'
<1> DEFINE r == conn[c].home  t == [kind |-> "remove", client |-> c]
<1>1. /\ conn[c].at = "connected" /\ loops[r].at = "poll"
      /\ conn' = [conn EXCEPT ![c].at = "dead"]
      /\ enqueueTask(r, t)
      /\ UNCHANGED <<mainVars, listening, subIdx, poolVars, terminated>>
  BY DEF handleDead, Handling
<1>2. r \in Subs /\ r \in Reactors
  BY <1>1, ReactorsAre DEF Inv, ConnStates
<1>3. t \in Task /\ t.kind = "remove" /\ t.client = c
  BY TasksMade
<1>4. conn \in [Clients -> ConnType] /\ loops \in [Reactors -> LoopType] /\ LoopsOK
  BY DEF Inv, TypeOK
<1>5. /\ conn' \in [Clients -> ConnType]
      /\ conn'[c].at = "dead"
      /\ \A d \in Clients : d # c => conn'[d] = conn[d]
  BY <1>1, <1>4 DEF ConnType
<1> HIDE DEF r, t
<1>6. SameForTasks(conn, conn') /\ ~Opens(t)
  BY <1>1, <1>3, <1>5 DEF SameForTasks, Opens
<1>7. Enqueued(r, t)
  BY <1>1, <1>2, <1>3, <1>4, <1>5, <1>6, EnqueueStep
<1>8. ConnStates'
  <2>1. \A d \in Clients : conn[d].home \in Reactors
    BY <1>4, ConnIs
  <2>2. ASSUME NEW d \in Clients, d # c
        PROVE  /\ conn'[d].at = "socket" => Has(loops'[conn'[d].home], AddOf(d))
               /\ conn'[d].at = "connected" => conn'[d].inMap
               /\ conn'[d].inMap => conn'[d].at \in {"connected", "dead"}
               /\ conn'[d].at = "backlog" => listening'
               /\ conn'[d].at \in {"socket", "connected"} =>
                    conn'[d].home \in Subs /\ ~loops'[conn'[d].home].stop
    BY <1>1, <1>5, <1>7, <2>1, <2>2 DEF Inv, ConnStates, Enqueued
  <2>5. loops'[MainReactor].stop => ~listening'
    BY <1>1, <1>7, ReactorsAre DEF Inv, ConnStates, Enqueued
  <2> QED BY <1>5, <2>2, <2>5 DEF ConnStates
<1>9. AskedInOrder'
  BY <1>1, <1>2, <1>3, <1>7, ReactorsAre DEF Inv, AskedInOrder, Enqueued, mainVars
<1>10. TypeOK' /\ NeverTerminated'
  BY <1>1, <1>2, <1>5, <1>7 DEF Inv, TypeOK, NeverTerminated, Enqueued, mainVars, poolVars
<1>11. StopOrder' = StopOrder
  BY <1>1 DEF StopOrder, IfPool, mainVars
<1>12. Control'
  BY <1>1, <1>7, <1>11, ReactorsAre DEF Inv, Control, Enqueued, mainVars, poolVars
<1>13. PoolLast'
  BY <1>1, <1>7, <1>11, ReactorsAre DEF Inv, PoolLast, Enqueued, mainVars, poolVars
<1> QED BY <1>7, <1>8, <1>9, <1>10, <1>12, <1>13 DEF Inv, Enqueued

(* A client enters the backlog.                                            *)
LEMMA ConnectStep ==
  ASSUME Inv, NEW c \in Clients, Connect(c) PROVE Inv'
<1>1. conn \in [Clients -> ConnType] /\ loops \in [Reactors -> LoopType] /\ LoopsOK
  BY DEF Inv, TypeOK
<1>2. /\ listening /\ conn[c].at = "none" /\ conn' = [conn EXCEPT ![c].at = "backlog"]
      /\ UNCHANGED <<mainVars, loops, listening, subIdx, poolVars, terminated>>
  BY DEF Connect
<1>3. /\ conn' \in [Clients -> ConnType]
      /\ conn'[c].at = "backlog" /\ conn'[c].home = conn[c].home /\ conn'[c].inMap = conn[c].inMap
      /\ \A d \in Clients : d # c => conn'[d] = conn[d]
  BY <1>1, <1>2 DEF ConnType
<1>4. SameForTasks(conn, conn')
  BY <1>2, <1>3 DEF SameForTasks
<1>5. LoopsOK'
  BY <1>1, <1>2, <1>4, NoLoop
<1>6. conn[c].inMap = FALSE
  BY <1>1, <1>2, ConnIs DEF Inv, ConnStates
<1>7. ConnStates' /\ AskedInOrder'
  BY <1>2, <1>3, <1>6 DEF Inv, ConnStates, AskedInOrder, mainVars
<1>8. StopOrder' = StopOrder
  BY <1>2 DEF StopOrder, IfPool, mainVars
<1>9. Control' /\ PoolLast'
  BY <1>2, <1>8 DEF Inv, Control, PoolLast, mainVars, poolVars
<1>10. TypeOK' /\ NeverTerminated'
  BY <1>2, <1>3 DEF Inv, TypeOK, NeverTerminated, mainVars, poolVars
<1> QED BY <1>5, <1>7, <1>9, <1>10 DEF Inv

-----------------------------------------------------------------------------
(* A worker takes a task,                                                  *)
LEMMA takeStep ==
  ASSUME Inv, NEW w \in Workers, take(w) PROVE Inv'
<1>1. LoopsOK' /\ AskedInOrder' /\ ConnStates'
  BY SameLoops DEF take, mainVars
<1>2. poolTasks \in Seq(Clients) /\ poolTasks # <<>> /\ poolTasks' = Tail(poolTasks)
  BY DEF Inv, TypeOK, take
<1>3. Head(poolTasks) \in Clients /\ poolTasks' \in Seq(Clients)
  BY <1>2
<1>4. \A v \in Workers : worker[v] # "exited"
  BY <1>2 DEF Inv, PoolLast
<1>5. /\ worker \in [Workers -> {"ready", "posting", "exited"}]
      /\ hand \in [Workers -> Clients \cup {NoClient}]
  BY DEF Inv, TypeOK
<1>6. /\ worker' \in [Workers -> {"ready", "posting", "exited"}]
      /\ hand' \in [Workers -> Clients \cup {NoClient}]
      /\ \A v \in Workers : worker'[v] # "exited"
      /\ \A v \in Workers : worker'[v] = "posting" => hand'[v] \in Clients
  <2>1. CASE UNCHANGED <<worker, hand>>
    BY <1>4, <1>5, <2>1 DEF Inv, PoolLast
  <2>2. CASE /\ worker' = [worker EXCEPT ![w] = "posting"]
             /\ hand' = [hand EXCEPT ![w] = Head(poolTasks)]
    BY <1>3, <1>4, <1>5, <2>2 DEF Inv, PoolLast
  <2> QED BY <2>1, <2>2 DEF take
<1>7. TypeOK' /\ NeverTerminated'
  BY <1>3, <1>6 DEF Inv, TypeOK, NeverTerminated, take, mainVars
<1>8. StopOrder' = StopOrder
  BY DEF StopOrder, IfPool, take, mainVars
<1>9. PoolLast'
  BY <1>2, <1>6 DEF Inv, PoolLast, take, mainVars
<1>10. Control'
  BY <1>4, <1>6, <1>8 DEF Inv, Control, take, mainVars
<1> QED BY <1>1, <1>7, <1>9, <1>10 DEF Inv

(* posts its answer,                                                       *)
LEMMA postStep ==
  ASSUME Inv, NEW w \in Workers, post(w) PROVE Inv'
<1> DEFINE c == hand[w]  r == conn[c].home  t == [kind |-> "resp", client |-> c]
<1>1. c \in Clients /\ worker[w] = "posting"
  BY DEF Inv, PoolLast, post
<1>2. conn \in [Clients -> ConnType] /\ loops \in [Reactors -> LoopType] /\ LoopsOK
  BY DEF Inv, TypeOK
<1>3. r \in Reactors
  BY <1>1, <1>2, ConnIs
<1>4. t \in Task /\ t.kind = "resp"
  BY <1>1, TasksMade
<1>5. loops' = [loops EXCEPT ![r] = [loops[r] EXCEPT !.tasks = Append(@, t)]]
  BY <1>2, <1>3 DEF post
<1> HIDE DEF c, r, t
<1>6. SameForTasks(conn, conn') /\ ~Opens(t)
  BY <1>4 DEF SameForTasks, Opens, post
<1>7. Enqueued(r, t)
  BY <1>2, <1>3, <1>4, <1>5, <1>6, AppendStep
<1>8. ConnStates'
  BY <1>7, AfterEnqueue DEF post
<1>9. AskedInOrder'
  BY <1>4, <1>7, ReactorsAre DEF Inv, AskedInOrder, Enqueued, post, mainVars
<1>10. /\ worker' \in [Workers -> {"ready", "posting", "exited"}]
       /\ hand' \in [Workers -> Clients \cup {NoClient}]
       /\ worker'[w] = "ready"
       /\ \A v \in Workers : v # w => worker'[v] = worker[v] /\ hand'[v] = hand[v]
  BY DEF Inv, TypeOK, post
<1>11. TypeOK' /\ NeverTerminated'
  BY <1>7, <1>10 DEF Inv, TypeOK, NeverTerminated, Enqueued, post, mainVars
<1>12. StopOrder' = StopOrder
  BY DEF StopOrder, IfPool, post, mainVars
<1>13. PoolLast'
  BY <1>7, <1>10 DEF Inv, PoolLast, Enqueued, post, mainVars
<1>14. Control'
  <2>1. /\ main \in {"stop", "join"} => ~(turn > NSubs + 2)
        /\ main = "returned" => ~useThreadPool
    BY <1>1 DEF Inv, Control
  <2>2. \A q \in Reactors : loops'[q].at = loops[q].at
    BY <1>7 DEF Enqueued
  <2>3. main' = main /\ turn' = turn /\ useThreadPool' = useThreadPool
    BY DEF post, mainVars
  <2> QED BY <1>12, <2>1, <2>2, <2>3, ReactorsAre DEF Inv, Control
<1> QED BY <1>7, <1>8, <1>9, <1>11, <1>13, <1>14 DEF Inv, Enqueued

(* and ends when the pool has stopped and is empty.                        *)
LEMMA exitStep ==
  ASSUME Inv, NEW w \in Workers, exit(w) PROVE Inv'
<1>1. LoopsOK' /\ AskedInOrder' /\ ConnStates'
  BY SameLoops DEF exit, mainVars
<1>2. /\ worker' \in [Workers -> {"ready", "posting", "exited"}]
      /\ worker'[w] = "exited"
      /\ \A v \in Workers : v # w => worker'[v] = worker[v]
  BY DEF Inv, TypeOK, exit
<1>3. TypeOK' /\ NeverTerminated'
  BY <1>2 DEF Inv, TypeOK, NeverTerminated, exit, mainVars
<1>4. StopOrder' = StopOrder
  BY DEF StopOrder, IfPool, exit, mainVars
<1>5. PoolLast'
  BY <1>2 DEF Inv, PoolLast, exit, mainVars
<1>6. Control'
  BY <1>2, <1>4 DEF Inv, Control, exit, mainVars
<1> QED BY <1>1, <1>3, <1>5, <1>6 DEF Inv

-----------------------------------------------------------------------------
(* A loop copies its tasks.                                                *)
LEMMA drainStep ==
  ASSUME Inv, NEW r \in Reactors, drain(r) PROVE Inv'
<1> DEFINE l == loops[r]  n == [l EXCEPT !.funcs = l.tasks, !.tasks = <<>>, !.at = "run"]
<1>1. loops \in [Reactors -> LoopType] /\ l \in LoopType /\ LoopOK(r, l, conn) /\ LoopsOK /\ l.at = "poll"
  BY DEF Inv, TypeOK, LoopsOK, drain, Handling
<1>2. /\ loops' = [loops EXCEPT ![r] = n]
      /\ UNCHANGED <<mainVars, listening, subIdx, conn, poolVars, terminated>>
  BY DEF drain
<1>3. /\ n \in LoopType /\ n.at = "run" /\ n.stop = l.stop
      /\ LoopOK(r, n, conn) /\ \A u : Has(n, u) <=> Has(l, u)
  <2> HIDE DEF l
  <2> QED BY <1>1, DrainOK
<1> HIDE DEF n
<1>4. /\ loops' \in [Reactors -> LoopType] /\ loops'[r] = n
      /\ \A q \in Reactors : q # r => loops'[q] = loops[q]
  BY <1>1, <1>2, <1>3, LoopSet
<1>5. SameForTasks(conn, conn') /\ conn' = conn
  BY <1>2 DEF SameForTasks
<1>6. LoopsOK'
  BY <1>1, <1>2, <1>3, <1>5, OneLoop
<1>7. \A q \in Reactors : /\ loops'[q].stop = loops[q].stop
                          /\ loops[q].at # "poll" => loops'[q].at = loops[q].at
                          /\ \A u : Has(loops'[q], u) <=> Has(loops[q], u)
  BY <1>1, <1>3, <1>4
<1>8. ConnStates'
  <2>1. \A c \in Clients : conn[c].home \in Reactors
    BY ConnIs DEF Inv, TypeOK
  <2> QED BY <1>2, <1>7, <2>1, ReactorsAre DEF Inv, ConnStates
<1>9. AskedInOrder'
  BY <1>2, <1>7, ReactorsAre DEF Inv, AskedInOrder, Asked, mainVars
<1>10. TypeOK' /\ NeverTerminated'
  BY <1>2, <1>4 DEF Inv, TypeOK, NeverTerminated, mainVars, poolVars
<1>11. StopOrder' = StopOrder
  BY <1>2 DEF StopOrder, IfPool, mainVars
<1>12. Control' /\ PoolLast'
  BY <1>2, <1>7, <1>11, ReactorsAre DEF Inv, Control, PoolLast, mainVars, poolVars
<1> QED BY <1>6, <1>8, <1>9, <1>10, <1>12 DEF Inv

(* A loop starts over, or ends.                                            *)
LEMMA againStep ==
  ASSUME Inv, NEW r \in Reactors, again(r) PROVE Inv'
<1> DEFINE a == IF loops[r].stop THEN "done" ELSE "poll"
<1>1. /\ a \in {"poll", "done"} /\ (a = "done" => loops[r].stop)
      /\ loops[r].at = "run" /\ loops[r].funcs = <<>>
      /\ loops' = [loops EXCEPT ![r].at = a]
      /\ UNCHANGED <<mainVars, listening, subIdx, conn, poolVars, terminated>>
  BY DEF again
<1> HIDE DEF a
<1>2. /\ loops' \in [Reactors -> LoopType] /\ LoopsOK' /\ ConnStates'
      /\ \A q \in Reactors : Asked(loops'[q]) <=> Asked(loops[q])
      /\ \A q \in Reactors : loops'[q].at = IF q = r THEN a ELSE loops[q].at
  <2>1. conn' = conn /\ listening' = listening
    BY <1>1
  <2>2. loops' = [loops EXCEPT ![r].at = a]
    BY <1>1
  <2>3. loops[r].funcs = <<>>
    BY <1>1
  <2>4. a \in {"poll", "done"}
    BY <1>1
  <2>5. a = "done" => loops[r].stop
    BY <1>1
  <2> QED BY <2>1, <2>2, <2>3, <2>4, <2>5, AtStep, Zenon
<1>3. \A q \in Reactors : loops[q].at # "run" => loops'[q].at = loops[q].at
  BY <1>1, <1>2
<1>4. AskedInOrder'
  BY <1>1, <1>2, <1>3, ReactorsAre DEF Inv, AskedInOrder, mainVars
<1>5. TypeOK' /\ NeverTerminated'
  BY <1>1, <1>2 DEF Inv, TypeOK, NeverTerminated, mainVars, poolVars
<1>6. StopOrder' = StopOrder
  BY <1>1 DEF StopOrder, IfPool, mainVars
<1>7. Control' /\ PoolLast'
  BY <1>1, <1>3, <1>6, ReactorsAre DEF Inv, Control, PoolLast, mainVars, poolVars
<1> QED BY <1>2, <1>4, <1>5, <1>7 DEF Inv

-----------------------------------------------------------------------------
(* A loop runs the first task of its copy.                                 *)
LEMMA RunStep ==
  ASSUME Inv, NEW r \in Reactors, NEW kind, Run(r, kind)
  PROVE  LET l == loops[r]
             n == Ran(r)
             h == Head(loops[r].funcs)
         IN  /\ l \in LoopType /\ l.at = "run" /\ h \in Task /\ h.kind = kind /\ Has(l, h)
             /\ n \in LoopType /\ n.at = "run" /\ n.stop = l.stop
             /\ LoopOK(r, n, conn)
             /\ \A u : Has(n, u) => Has(l, u)
             /\ \A u : Has(l, u) /\ u # h => Has(n, u)
             /\ kind = "add" => /\ r \in Subs /\ conn[h.client].at = "socket" /\ conn[h.client].home = r
                                /\ ~Has(n, h)
             /\ kind = "remove" => conn[h.client].at = "dead"
             /\ kind = "stop" => \A i \in DOMAIN Queue(n) : ~Opens(Queue(n)[i])
             /\ kind \in {"add", "listen"} => ~l.stop
<1> DEFINE l == loops[r]  n == [l EXCEPT !.funcs = Tail(@)]  h == Head(l.funcs)
<1>1. l \in LoopType /\ LoopOK(r, l, conn) /\ l.at = "run" /\ l.funcs # <<>> /\ h.kind = kind
  BY DEF Inv, TypeOK, LoopsOK, Run
<1>2. Ran(r) = n
  BY DEF Ran
<1> HIDE DEF l
<1>3. /\ n \in LoopType /\ n.at = "run" /\ n.stop = l.stop /\ h \in Task /\ Has(l, h)
      /\ LoopOK(r, n, conn)
      /\ \A u : Has(n, u) => Has(l, u)
      /\ \A u : Has(l, u) /\ u # h => Has(n, u)
      /\ h.kind = "add" => /\ r \in Subs /\ conn[h.client].at = "socket" /\ conn[h.client].home = r
                           /\ ~Has(n, h)
      /\ h.kind = "remove" => conn[h.client].at = "dead"
      /\ h.kind = "stop" => \A i \in DOMAIN Queue(n) : ~Opens(Queue(n)[i])
      /\ Opens(h) => ~l.stop
  BY <1>1, RanOK
<1>4. kind \in {"add", "listen"} => ~l.stop
  BY <1>1, <1>3 DEF Opens
<1> HIDE DEF n, h
<1> QED BY <1>1, <1>2, <1>3, <1>4 DEF l, h

(* What the rest of the state needs from a step of a loop that runs a task:*)
(* the loop goes on running, and is asked to stop only if it was before.   *)
LEMMA AfterTask ==
  ASSUME Inv, NEW r \in Reactors, loops[r].at = "run", NEW n \in LoopType, n.at = "run",
         Asked(n) => Asked(loops[r]), loops' = [loops EXCEPT ![r] = n],
         conn' \in [Clients -> ConnType], listening' \in BOOLEAN,
         UNCHANGED <<mainVars, subIdx, poolVars, terminated>>,
         LoopsOK', ConnStates'
  PROVE  Inv'
<1>1. /\ loops' \in [Reactors -> LoopType] /\ loops'[r] = n
      /\ \A q \in Reactors : q # r => loops'[q] = loops[q]
  BY LoopSet DEF Inv, TypeOK
<1>2. \A q \in Reactors : loops'[q].at = loops[q].at /\ (Asked(loops'[q]) => Asked(loops[q]))
  BY <1>1
<1>3. AskedInOrder'
  BY <1>2, ReactorsAre DEF Inv, AskedInOrder, mainVars
<1>4. TypeOK' /\ NeverTerminated'
  BY <1>1 DEF Inv, TypeOK, NeverTerminated, mainVars, poolVars
<1>5. StopOrder' = StopOrder
  BY DEF StopOrder, IfPool, mainVars
<1>6. Control' /\ PoolLast'
  BY <1>2, <1>5, ReactorsAre DEF Inv, Control, PoolLast, mainVars, poolVars
<1> QED BY <1>3, <1>4, <1>6 DEF Inv

(* The tasks a loop runs: opening the listening socket,                    *)
LEMMA listenTaskStep == ASSUME Inv, listenTask PROVE Inv'
<1> DEFINE r == MainReactor  l == loops[r]  n == Ran(r)  h == Head(loops[r].funcs)
<1>1. r \in Reactors /\ Run(r, "listen")
  BY ReactorsAre DEF listenTask
<1>2. /\ l \in LoopType /\ l.at = "run" /\ h.kind = "listen"
      /\ n \in LoopType /\ n.at = "run" /\ n.stop = l.stop
      /\ LoopOK(r, n, conn)
      /\ \A u : Has(n, u) => Has(l, u)
      /\ ~l.stop
  BY <1>1, RunStep
<1>3. /\ loops' = [loops EXCEPT ![r] = n] /\ listening' = TRUE /\ conn' = conn
      /\ UNCHANGED <<mainVars, subIdx, poolVars, terminated>>
  BY DEF listenTask
<1> HIDE DEF n, h
<1>4. loops \in [Reactors -> LoopType] /\ LoopsOK /\ SameForTasks(conn, conn')
  BY <1>3 DEF Inv, TypeOK, SameForTasks
<1>5. LoopsOK'
  BY <1>1, <1>2, <1>3, <1>4, OneLoop
<1>6. /\ loops'[r] = n /\ \A q \in Reactors : q # r => loops'[q] = loops[q]
  BY <1>1, <1>2, <1>3, <1>4, LoopSet
<1>7. ConnStates'
  <2>1. \A q \in Subs : loops'[q] = loops[q]
    BY <1>6, ReactorsAre
  <2>2. ~loops'[MainReactor].stop
    BY <1>2, <1>6
  <2> QED BY <1>3, <2>1, <2>2 DEF Inv, ConnStates
<1>8. Asked(n) => Asked(l)
  BY <1>2 DEF Asked
<1>9. conn' \in [Clients -> ConnType] /\ listening' \in BOOLEAN
  BY <1>3 DEF Inv, TypeOK
<1> QED BY <1>1, <1>2, <1>3, <1>5, <1>7, <1>8, <1>9, AfterTask

(* Setting the flag changes nothing else of the loop.                      *)
LEMMA StopLoop ==
  ASSUME NEW r, NEW n \in LoopType, NEW cn, LoopOK(r, n, cn), n.at = "run",
         \A i \in DOMAIN Queue(n) : ~Opens(Queue(n)[i])
  PROVE  LET m == [n EXCEPT !.stop = TRUE]
         IN  /\ m \in LoopType /\ m.at = "run" /\ m.stop /\ LoopOK(r, m, cn)
             /\ \A u : Has(m, u) <=> Has(n, u)
<1> DEFINE m == [n EXCEPT !.stop = TRUE]
<1>1. m \in LoopType /\ m.at = "run" /\ m.stop = TRUE /\ m.funcs = n.funcs /\ m.tasks = n.tasks
  BY DEF LoopType
<1> HIDE DEF m
<1>2. Queue(m) = Queue(n)
  BY <1>1 DEF Queue
<1>3. LoopOK(r, m, cn)
  BY <1>1, <1>2 DEF LoopOK, StopIsLast, TasksMatch
<1>4. \A u : Has(m, u) <=> Has(n, u)
  BY <1>2 DEF Has
<1> QED BY <1>1, <1>3, <1>4 DEF m

(* closing it,                                                             *)
LEMMA stopMainTaskStep == ASSUME Inv, stopMainTask PROVE Inv'
<1> DEFINE r == MainReactor  l == loops[r]  n == Ran(r)  h == Head(loops[r].funcs)
           m == [n EXCEPT !.stop = TRUE]
<1>1. r \in Reactors /\ Run(r, "stop")
  BY ReactorsAre DEF stopMainTask
<1>2. /\ l \in LoopType /\ l.at = "run" /\ h \in Task /\ h.kind = "stop" /\ Has(l, h)
      /\ n \in LoopType /\ n.at = "run" /\ LoopOK(r, n, conn)
      /\ \A i \in DOMAIN Queue(n) : ~Opens(Queue(n)[i])
  BY <1>1, RunStep
<1>3. /\ loops' = [loops EXCEPT ![r] = m] /\ listening' = FALSE
      /\ conn' = [c \in Clients |-> IF conn[c].at = "backlog" THEN [conn[c] EXCEPT !.at = "refused"]
                                    ELSE conn[c]]
      /\ UNCHANGED <<mainVars, subIdx, poolVars, terminated>>
  BY DEF stopMainTask
<1> HIDE DEF n, h
<1>4. m \in LoopType /\ m.at = "run" /\ m.stop /\ LoopOK(r, m, conn)
  BY <1>2, StopLoop
<1> HIDE DEF m
<1>5. loops \in [Reactors -> LoopType] /\ LoopsOK /\ conn \in [Clients -> ConnType]
  BY DEF Inv, TypeOK
<1>6. /\ conn' \in [Clients -> ConnType]
      /\ \A c \in Clients : IF conn[c].at = "backlog" THEN conn'[c].at = "refused" /\ conn'[c].inMap = conn[c].inMap
                                                      ELSE conn'[c] = conn[c]
  BY <1>3, <1>5 DEF ConnType
<1>7. SameForTasks(conn, conn')
  BY <1>6 DEF SameForTasks
<1>8. LoopOK(r, m, conn')
  BY <1>4, <1>7, OtherConns
<1>9. LoopsOK'
  BY <1>1, <1>3, <1>4, <1>5, <1>7, <1>8, OneLoop
<1>10. /\ loops'[r] = m /\ \A q \in Reactors : q # r => loops'[q] = loops[q]
  BY <1>1, <1>3, <1>4, <1>5, LoopSet
<1>11. ConnStates'
  <2>1. \A q \in Subs : loops'[q] = loops[q]
    BY <1>10, ReactorsAre
  <2>2. ASSUME NEW c \in Clients, conn[c].at # "backlog"
        PROVE  /\ conn'[c].at = "socket" => Has(loops'[conn'[c].home], AddOf(c))
               /\ conn'[c].at = "connected" => conn'[c].inMap
               /\ conn'[c].inMap => conn'[c].at \in {"connected", "dead"}
               /\ conn'[c].at # "backlog"
               /\ conn'[c].at \in {"socket", "connected"} =>
                    conn'[c].home \in Subs /\ ~loops'[conn'[c].home].stop
    BY <1>6, <2>1, <2>2 DEF Inv, ConnStates
  <2>3. ASSUME NEW c \in Clients, conn[c].at = "backlog"
        PROVE  conn'[c].at = "refused" /\ ~conn'[c].inMap
    BY <1>6, <2>3 DEF Inv, ConnStates
  <2> QED BY <1>3, <2>2, <2>3 DEF ConnStates
<1>12. Asked(l)
  BY <1>2, TaskIs DEF Asked
<1>13. listening' \in BOOLEAN
  BY <1>3
<1> QED BY <1>1, <1>2, <1>3, <1>4, <1>6, <1>9, <1>11, <1>12, <1>13, AfterTask

(* stopping the connections of a sub reactor,                              *)
LEMMA stopSubTaskStep == ASSUME Inv, NEW r \in Subs, stopSubTask(r) PROVE Inv'
<1> DEFINE l == loops[r]  n == Ran(r)  h == Head(loops[r].funcs)  m == [n EXCEPT !.stop = TRUE]
<1>1. r \in Reactors /\ Run(r, "stop")
  BY ReactorsAre DEF stopSubTask
<1>2. /\ l \in LoopType /\ l.at = "run" /\ h \in Task /\ h.kind = "stop" /\ Has(l, h)
      /\ n \in LoopType /\ n.at = "run" /\ LoopOK(r, n, conn)
      /\ \A i \in DOMAIN Queue(n) : ~Opens(Queue(n)[i])
      /\ \A u : Has(l, u) /\ u # h => Has(n, u)
  BY <1>1, RunStep
<1>3. /\ loops' = [loops EXCEPT ![r] = m] /\ listening' = listening
      /\ conn' = [c \in Clients |-> IF conn[c].inMap /\ conn[c].home = r
                                    THEN [conn[c] EXCEPT !.at = "dead"] ELSE conn[c]]
      /\ UNCHANGED <<mainVars, subIdx, poolVars, terminated>>
  BY DEF stopSubTask
<1> HIDE DEF n, h
<1>4. m \in LoopType /\ m.at = "run" /\ m.stop /\ LoopOK(r, m, conn)
  BY <1>2, StopLoop
<1> HIDE DEF m
<1>5. loops \in [Reactors -> LoopType] /\ LoopsOK /\ conn \in [Clients -> ConnType]
  BY DEF Inv, TypeOK
<1>6. /\ conn' \in [Clients -> ConnType]
      /\ \A c \in Clients : IF conn[c].inMap /\ conn[c].home = r
                            THEN conn'[c].at = "dead"
                            ELSE conn'[c] = conn[c]
  BY <1>3, <1>5 DEF ConnType
<1>7. SameForTasks(conn, conn')
  BY <1>6 DEF SameForTasks, Inv, ConnStates
<1>8. LoopOK(r, m, conn')
  BY <1>4, <1>7, OtherConns
<1>9. LoopsOK'
  BY <1>1, <1>3, <1>4, <1>5, <1>7, <1>8, OneLoop
<1>10. /\ loops'[r] = m /\ \A q \in Reactors : q # r => loops'[q] = loops[q]
  BY <1>1, <1>3, <1>4, <1>5, LoopSet
<1>11. ASSUME NEW c \in Clients, conn[c].at \in {"socket", "connected"}, conn[c].home = r
       PROVE  conn'[c].at = "dead"
  <2>1. conn[c].at # "socket"
    <3> SUFFICES ASSUME conn[c].at = "socket" PROVE FALSE
      OBVIOUS
    <3>1. Has(l, AddOf(c)) /\ AddOf(c).kind = "add"
      BY <1>11, TasksMade DEF Inv, ConnStates
    <3>2. Has(n, AddOf(c))
      BY <1>2, <3>1
    <3> QED BY <1>2, <3>1, <3>2 DEF Has, Opens
  <2>2. conn[c].inMap
    BY <1>11, <2>1 DEF Inv, ConnStates
  <2> QED BY <1>6, <1>11, <2>2
<1>12. ConnStates'
  <2>1. \A q \in Reactors : q # r => loops'[q] = loops[q]
    BY <1>10, ReactorsAre
  <2>2. ASSUME NEW c \in Clients, ~(conn[c].inMap /\ conn[c].home = r)
        PROVE  /\ conn'[c].at = "socket" => Has(loops'[conn'[c].home], AddOf(c))
               /\ conn'[c].at = "connected" => conn'[c].inMap
               /\ conn'[c].inMap => conn'[c].at \in {"connected", "dead"}
               /\ conn'[c].at = "backlog" => listening'
               /\ conn'[c].at \in {"socket", "connected"} =>
                    conn'[c].home \in Subs /\ ~loops'[conn'[c].home].stop
    <3>1. conn'[c] = conn[c]
      BY <1>6, <2>2
    <3>2. conn[c].at \in {"socket", "connected"} => conn[c].home # r /\ conn[c].home \in Subs
      BY <1>11, <3>1 DEF Inv, ConnStates
    <3>3. conn[c].at \in {"socket", "connected"} => loops'[conn[c].home] = loops[conn[c].home]
      BY <2>1, <3>2, ReactorsAre
    <3> QED BY <1>3, <3>1, <3>2, <3>3 DEF Inv, ConnStates
  <2>3. loops'[MainReactor] = loops[MainReactor]
    BY <2>1, ReactorsAre
  <2> QED BY <1>3, <1>6, <2>2, <2>3 DEF Inv, ConnStates
<1>13. Asked(l)
  BY <1>2, TaskIs DEF Asked
<1>14. listening' \in BOOLEAN
  BY <1>3 DEF Inv, TypeOK
<1> QED BY <1>1, <1>2, <1>3, <1>4, <1>6, <1>9, <1>12, <1>13, <1>14, AfterTask

(* A loop that has no task to add a client does not mind its being added.  *)
LEMMA AddConns ==
  ASSUME NEW r, NEW l \in LoopType, NEW cn, NEW cm, NEW c \in Clients, LoopOK(r, l, cn),
         cn[c].at = "socket", ~Has(l, AddOf(c)), \A d \in Clients : d # c => cm[d] = cn[d]
  PROVE  LoopOK(r, l, cm)
<1>1. ASSUME NEW i \in DOMAIN Queue(l)
      PROVE  /\ Queue(l)[i].kind \in {"add", "remove"} => Queue(l)[i].client \in Clients
             /\ Queue(l)[i].kind = "add" => Queue(l)[i].client # c
             /\ Queue(l)[i].kind = "remove" => Queue(l)[i].client # c
  <2>1. Queue(l)[i] \in Task
    BY QueueIs, <1>1
  <2>2. Queue(l)[i] # AddOf(c)
    BY <1>1 DEF Has
  <2> QED BY <2>1, <2>2, TaskIs DEF LoopOK, TasksMatch
<1>2. TasksMatch(r, l, cm)
  BY <1>1 DEF LoopOK, TasksMatch
<1> QED BY <1>2 DEF LoopOK

(* constructing a connection,                                              *)
LEMMA addTaskStep == ASSUME Inv, NEW r \in Reactors, addTask(r) PROVE Inv'
<1> DEFINE l == loops[r]  n == Ran(r)  h == Head(loops[r].funcs)  c == h.client
<1>1. Run(r, "add")
  BY DEF addTask, OnConn
<1>2. /\ l \in LoopType /\ l.at = "run" /\ h \in Task /\ h.kind = "add"
      /\ n \in LoopType /\ n.at = "run" /\ n.stop = l.stop /\ LoopOK(r, n, conn)
      /\ \A u : Has(n, u) => Has(l, u)
      /\ \A u : Has(l, u) /\ u # h => Has(n, u)
      /\ r \in Subs /\ conn[c].at = "socket" /\ conn[c].home = r /\ ~Has(n, h)
      /\ ~l.stop
  BY <1>1, RunStep
<1>3. /\ loops' = [loops EXCEPT ![r] = n] /\ listening' = listening
      /\ conn' = [conn EXCEPT ![c] = [@ EXCEPT !.at = "connected", !.inMap = TRUE]]
      /\ UNCHANGED <<mainVars, subIdx, poolVars, terminated>>
  BY DEF addTask, OnConn, Its
<1> HIDE DEF n, h
<1>4. c \in Clients /\ h = AddOf(c)
  BY <1>2, TaskIs
<1>5. loops \in [Reactors -> LoopType] /\ LoopsOK /\ conn \in [Clients -> ConnType]
  BY DEF Inv, TypeOK
<1> HIDE DEF c
<1>6. /\ conn' \in [Clients -> ConnType]
      /\ conn'[c].at = "connected" /\ conn'[c].inMap = TRUE /\ conn'[c].home = conn[c].home
      /\ \A d \in Clients : d # c => conn'[d] = conn[d]
  BY <1>3, <1>4, <1>5 DEF ConnType
<1>7. /\ loops'[r] = n /\ \A q \in Reactors : q # r => loops'[q] = loops[q]
  BY <1>2, <1>3, <1>5, LoopSet
<1>8. LoopsOK'
  <2>1. LoopOK(r, n, conn')
    BY <1>2, <1>4, <1>6, AddConns
  <2>2. ASSUME NEW q \in Reactors, q # r PROVE LoopOK(q, loops[q], conn')
    <3>1. loops[q] \in LoopType /\ LoopOK(q, loops[q], conn)
      BY <1>5 DEF LoopsOK
    <3>2. ~Has(loops[q], AddOf(c))
      <4>1. AddOf(c).kind = "add" /\ AddOf(c).client = c
        BY <1>4, TasksMade
      <4> QED BY <1>2, <2>2, <3>1, <4>1 DEF LoopOK, TasksMatch, Has
    <3> QED BY <1>2, <1>4, <1>6, <3>1, <3>2, AddConns
  <2> QED BY <1>7, <2>1, <2>2 DEF LoopsOK
<1>9. ConnStates'
  <2>1. \A q \in Reactors : loops'[q].stop = loops[q].stop
    BY <1>2, <1>7
  <2>2. ASSUME NEW d \in Clients, d # c, NEW q \in Reactors, Has(loops[q], AddOf(d))
        PROVE  Has(loops'[q], AddOf(d))
    <3>1. AddOf(d) # h
      <4>1. AddOf(d).client = d /\ AddOf(c).client = c
        BY <1>4, TasksMade
      <4> QED BY <1>4, <2>2, <4>1
    <3> QED BY <1>2, <1>7, <2>2, <3>1
  <2>3. \A d \in Clients : conn[d].home \in Reactors
    BY <1>5, ConnIs
  <2> QED BY <1>2, <1>3, <1>4, <1>6, <2>1, <2>2, <2>3, ReactorsAre DEF Inv, ConnStates
<1>10. Asked(n) => Asked(l)
  BY <1>2 DEF Asked
<1>11. listening' \in BOOLEAN
  BY <1>3 DEF Inv, TypeOK
<1> QED BY <1>2, <1>3, <1>6, <1>8, <1>9, <1>10, <1>11, AfterTask

(* The tasks after which the client is where it was.                       *)
LEMMA OnConnStep ==
  ASSUME Inv, NEW r \in Reactors, NEW kind \in {"remove", "resp"}, OnConn(r, kind),
         conn' \in [Clients -> ConnType],
         \A d \in Clients : /\ conn'[d].at = conn[d].at /\ conn'[d].home = conn[d].home
                            /\ conn'[d].inMap => conn[d].inMap
                            /\ conn[d].at = "connected" => conn'[d].inMap = conn[d].inMap
  PROVE  Inv'
<1> DEFINE l == loops[r]  n == Ran(r)  h == Head(loops[r].funcs)
<1>1. Run(r, kind)
  BY DEF OnConn
<1>2. /\ l \in LoopType /\ l.at = "run" /\ h \in Task /\ h.kind = kind
      /\ n \in LoopType /\ n.at = "run" /\ n.stop = l.stop /\ LoopOK(r, n, conn)
      /\ \A u : Has(n, u) => Has(l, u)
      /\ \A u : Has(l, u) /\ u # h => Has(n, u)
  BY <1>1, RunStep
<1>3. /\ loops' = [loops EXCEPT ![r] = n] /\ listening' = listening
      /\ UNCHANGED <<mainVars, subIdx, poolVars, terminated>>
  BY DEF OnConn
<1> HIDE DEF n, h
<1>4. loops \in [Reactors -> LoopType] /\ LoopsOK /\ conn \in [Clients -> ConnType]
  BY DEF Inv, TypeOK
<1>5. SameForTasks(conn, conn')
  BY DEF SameForTasks
<1>6. LoopOK(r, n, conn')
  BY <1>2, <1>5, OtherConns
<1>7. LoopsOK'
  BY <1>2, <1>3, <1>4, <1>5, <1>6, OneLoop
<1>8. /\ loops'[r] = n /\ \A q \in Reactors : q # r => loops'[q] = loops[q]
  BY <1>2, <1>3, <1>4, LoopSet
<1>9. ConnStates'
  <2>1. \A q \in Reactors : loops'[q].stop = loops[q].stop
    BY <1>2, <1>8
  <2>2. ASSUME NEW d \in Clients, NEW q \in Reactors, Has(loops[q], AddOf(d))
        PROVE  Has(loops'[q], AddOf(d))
    <3>1. AddOf(d) # h
      BY <1>2, TasksMade
    <3> QED BY <1>2, <1>8, <2>2, <3>1
  <2>3. \A d \in Clients : conn[d].home \in Reactors
    BY <1>4, ConnIs
  <2> QED BY <1>3, <2>1, <2>2, <2>3, ReactorsAre DEF Inv, ConnStates
<1>10. Asked(n) => Asked(l)
  BY <1>2 DEF Asked
<1>11. listening' \in BOOLEAN
  BY <1>3 DEF Inv, TypeOK
<1> QED BY <1>2, <1>3, <1>7, <1>9, <1>10, <1>11, AfterTask

(* erasing it,                                                             *)
LEMMA removeTaskStep == ASSUME Inv, NEW r \in Reactors, removeTask(r) PROVE Inv'
<1> DEFINE c == Its(r)
<1>1. Run(r, "remove") /\ OnConn(r, "remove")
  BY DEF removeTask, OnConn
<1>2. c \in Clients /\ conn[c].at = "dead"
  <2>1. /\ Head(loops[r].funcs) \in Task /\ Head(loops[r].funcs).kind = "remove"
        /\ conn[Head(loops[r].funcs).client].at = "dead"
    BY <1>1, RunStep
  <2> QED BY <2>1, TaskIs DEF Its
<1>3. conn' = [conn EXCEPT ![c].inMap = FALSE]
  BY DEF removeTask
<1> HIDE DEF c
<1>4. /\ conn' \in [Clients -> ConnType]
      /\ conn'[c].at = conn[c].at /\ conn'[c].home = conn[c].home /\ conn'[c].inMap = FALSE
      /\ \A d \in Clients : d # c => conn'[d] = conn[d]
  BY <1>2, <1>3 DEF Inv, TypeOK, ConnType
<1> QED BY <1>1, <1>2, <1>4, OnConnStep

(* and answering it.                                                       *)
LEMMA respTaskStep == ASSUME Inv, NEW r \in Reactors, respTask(r) PROVE Inv'
<1> DEFINE c == Its(r)
<1>1. Run(r, "resp") /\ OnConn(r, "resp")
  BY DEF respTask, OnConn
<1>2. c \in Clients
  <2>1. Head(loops[r].funcs) \in Task /\ Head(loops[r].funcs).kind = "resp"
    BY <1>1, RunStep
  <2> QED BY <2>1, TaskIs DEF Its
<1>3. conn' = [conn EXCEPT ![c].working = @ - 1]
  BY DEF respTask
<1> HIDE DEF c
<1>4. /\ conn' \in [Clients -> ConnType]
      /\ conn'[c].at = conn[c].at /\ conn'[c].home = conn[c].home /\ conn'[c].inMap = conn[c].inMap
      /\ \A d \in Clients : d # c => conn'[d] = conn[d]
  <2>1. conn \in [Clients -> ConnType] /\ conn[c] \in ConnType /\ conn[c].working - 1 \in Int
    <3>1. conn \in [Clients -> ConnType] /\ conn[c] \in ConnType
      BY <1>2 DEF Inv, TypeOK
    <3>2. conn[c].working \in Int
      BY <3>1, ConnIs
    <3> QED BY <3>1, <3>2
  <2>2. [conn[c] EXCEPT !.working = @ - 1] \in ConnType
    BY <2>1 DEF ConnType
  <2>3. conn' = [conn EXCEPT ![c] = [conn[c] EXCEPT !.working = @ - 1]]
    BY <1>2, <1>3, <2>1
  <2>4. conn' \in [Clients -> ConnType] /\ \A d \in Clients : d # c => conn'[d] = conn[d]
    BY <1>2, <2>1, <2>2, <2>3
  <2> QED BY <1>2, <2>1, <2>3, <2>4 DEF ConnType
<1> QED BY <1>1, <1>2, <1>4, OnConnStep

-----------------------------------------------------------------------------
(* One step per action of Server.                                          *)
LEMMA InvStep == Inv /\ [Next]_vars => Inv'
<1> SUFFICES ASSUME Inv, [Next]_vars PROVE Inv'
  OBVIOUS
<1>1. CASE Main
  BY <1>1, listenPortStep, startStep, leaveWaitStep, stopNextStep, joinStep, returnStep DEF Main
<1>2. CASE onStopSignal
  BY <1>2, onStopSignalStep
<1>3. ASSUME NEW r \in Reactors, Tasks(r) PROVE Inv'
  <2>1. CASE drain(r)
    BY <2>1, drainStep
  <2>2. CASE addTask(r)
    BY <2>2, addTaskStep
  <2>3. CASE removeTask(r)
    BY <2>3, removeTaskStep
  <2>4. CASE respTask(r)
    BY <2>4, respTaskStep
  <2>5. CASE again(r)
    BY <2>5, againStep
  <2>6. CASE listenTask \/ stopMainTask
    BY <2>6, listenTaskStep, stopMainTaskStep
  <2>7. CASE r \in Subs /\ stopSubTask(r)
    BY <2>7, stopSubTaskStep
  <2> QED BY <1>3, <2>1, <2>2, <2>3, <2>4, <2>5, <2>6, <2>7 DEF Tasks
<1>4. ASSUME NEW w \in Workers, Worker(w) PROVE Inv'
  BY <1>4, takeStep, postStep, exitStep DEF Worker
<1>5. ASSUME NEW c \in Clients, Events(c) PROVE Inv'
  BY <1>5, ConnectStep, handleNewConnectionStep, submitStep, handleDeadStep DEF Events
<1>6. CASE UNCHANGED vars
  <2>1. LoopsOK' /\ AskedInOrder' /\ ConnStates'
    BY <1>6, SameLoops DEF vars
  <2>2. StopOrder' = StopOrder
    BY <1>6 DEF StopOrder, IfPool, vars
  <2>3. TypeOK' /\ NeverTerminated' /\ Control' /\ PoolLast'
    BY <1>6, <2>2 DEF Inv, TypeOK, NeverTerminated, Control, PoolLast, vars
  <2> QED BY <2>1, <2>3 DEF Inv
<1> QED BY <1>1, <1>2, <1>3, <1>4, <1>5, <1>6 DEF Next

(* Every variable of Server keeps its type: the queues hold tasks about    *)
(* clients, and subIdx stays a valid index into the sub reactors.          *)
THEOREM TypeCorrect == Spec => []TypeOK
<1>1. Inv => TypeOK
  BY DEF Inv
<1> QED BY <1>1, InvInit, InvStep, PTL DEF Spec

(* ThreadPool::enqueue is never called on a stopped pool by an I/O thread, *)
(* so its exception cannot end the process: Server::stop joins every loop  *)
(* before it stops the pool.                                               *)
THEOREM PoolOutlivesItsUsers == Spec => []NeverTerminated
<1>1. Inv => NeverTerminated
  BY DEF Inv
<1> QED BY <1>1, InvInit, InvStep, PTL DEF Spec

(* When Server::stop has returned every accepted socket has been added to  *)
(* its sub reactor and its connection is dead, no request waits in the     *)
(* pool, and nobody listens.                                               *)
THEOREM StopLeavesNothing == Spec => []NothingLeftBehind
<1>1. Inv => NothingLeftBehind
  <2> SUFFICES ASSUME Inv, main = "returned"
               PROVE  /\ \A c \in Clients : conn[c].at \in {"none", "refused", "dead"}
                      /\ poolTasks = <<>> /\ ~listening
    BY DEF NothingLeftBehind
  <2>1. \A r \in Reactors : loops[r].at = "done" /\ loops[r].stop
    BY DEF Inv, Control, LoopsOK, LoopOK
  <2>2. ~listening
    BY <2>1, ReactorsAre DEF Inv, ConnStates
  <2>3. ASSUME NEW c \in Clients PROVE conn[c].at \in {"none", "refused", "dead"}
    <3>1. conn[c].at \notin {"socket", "connected"}
      BY <2>1, ReactorsAre DEF Inv, ConnStates
    <3>2. conn[c].at # "backlog"
      BY <2>2 DEF Inv, ConnStates
    <3> QED BY <3>1, <3>2, ConnIs DEF Inv, TypeOK
  <2>4. poolTasks = <<>>
    BY ServerAssumption DEF Inv, Control, PoolLast
  <2> QED BY <2>2, <2>3, <2>4
<1> QED BY <1>1, InvInit, InvStep, PTL DEF Spec
=============================================================================
