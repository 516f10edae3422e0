------------------------------- MODULE Server -------------------------------
(***************************************************************************)
(* Server.cpp with main.cpp, MainReactor.cpp, Acceptor.cpp, SubReactor.cpp:*)
(* the control thread that starts and stops everything, the main reactor   *)
(* that accepts and deals out sockets, the sub reactors, and the pool.     *)
(* Each event loop appears as what module EventLoop shows it to be: a FIFO *)
(* queue of tasks, taken in copies and run by one thread, with a stop flag *)
(* that is looked at between copies.  The pool appears as what module      *)
(* ThreadPool shows it to be: a queue that its workers empty before they   *)
(* leave.  Of a connection only its life is kept, and its outstanding work.*)
(***************************************************************************)
EXTENDS Integers, Sequences, FiniteSets

CONSTANTS NSubs,        \* sub reactors, and hardware_concurrency() in the code
          Workers,      \* the threads of the pool
          Clients,      \* the peers that may connect, once each
          NoClient,     \* no client
          Modes,        \* settings of the flag -t: TRUE for on, FALSE for off
          MaxRequests   \* bound: requests of each client

ASSUME ServerAssumption ==
  /\ NSubs \in Nat \ {0} /\ MaxRequests \in Nat
  /\ Modes \subseteq BOOLEAN
  /\ IsFiniteSet(Workers) /\ Workers # {} /\ IsFiniteSet(Clients) /\ NoClient \notin Clients

Subs == 1..NSubs
MainReactor == 0
Reactors == {MainReactor} \cup Subs
Pool == NSubs + 1        \* the thread pool as an item of the stop order

VARIABLES
  useThreadPool,
  main,       \* where the control thread is
  turn,       \* the reactor it starts next, or the item of the stop order
  g_stop_requested,
  loops,      \* per reactor: its EventLoop
  listening,  \* MainReactor::Acceptors holds the acceptor
  subIdx,     \* Server::subIdx, from 0
  conn,       \* per client: its connection
  poolTasks,  \* ThreadPool::tasks: clients whose request waits for a worker
  poolStop,   \* ThreadPool::stop_
  worker,     \* per worker: where it is
  hand,       \* per worker: the client whose answer it posts
  terminated  \* an exception has left an I/O thread

vars == <<useThreadPool, main, turn, g_stop_requested, loops, listening, subIdx,
          conn, poolTasks, poolStop, worker, hand, terminated>>

Task == [kind : {"listen", "stop"}] \cup [kind : {"add", "remove", "resp"}, client : Clients]

LoopType == [tasks : Seq(Task), funcs : Seq(Task), stop : BOOLEAN,
             at : {"new", "poll", "run", "done"}]

(* "socket": accepted, on its way to a sub reactor; "refused": the listen  *)
(* socket was closed before the main reactor came to it.                   *)
ConnType == [at : {"none", "backlog", "socket", "connected", "dead", "refused"},
             home : Reactors, working : Int, requests : 0..MaxRequests, inMap : BOOLEAN]

TypeOK ==
  /\ useThreadPool \in BOOLEAN
  /\ main \in {"listen", "start", "wait", "stop", "join", "returned"}
  /\ turn \in 1..NSubs + 3
  /\ g_stop_requested \in BOOLEAN
  /\ loops \in [Reactors -> LoopType]
  /\ listening \in BOOLEAN
  /\ subIdx \in 0..NSubs - 1
  /\ conn \in [Clients -> ConnType]
  /\ poolTasks \in Seq(Clients)
  /\ poolStop \in BOOLEAN
  /\ worker \in [Workers -> {"ready", "posting", "exited"}]
  /\ hand \in [Workers -> Clients \cup {NoClient}]
  /\ terminated \in BOOLEAN

Init ==
  /\ useThreadPool \in Modes
  /\ main = "listen" /\ turn = 1 /\ g_stop_requested = FALSE
  /\ loops = [r \in Reactors |-> [tasks |-> <<>>, funcs |-> <<>>, stop |-> FALSE, at |-> "new"]]
  /\ listening = FALSE /\ subIdx = 0
  /\ conn = [c \in Clients |-> [at |-> "none", home |-> MainReactor, working |-> 0,
                                requests |-> 0, inMap |-> FALSE]]
  /\ poolTasks = <<>> /\ poolStop = FALSE
  /\ worker = [w \in Workers |-> "ready"] /\ hand = [w \in Workers |-> NoClient]
  /\ terminated = FALSE

-----------------------------------------------------------------------------
(* EventLoop::enqueueTask by a thread that cannot be overtaken by the stop *)
(* of that loop: by the loop itself, or by the threads that stop it later. *)
Posted(l, t) == IF l.stop THEN l ELSE [l EXCEPT !.tasks = Append(@, t)]
enqueueTask(r, t) == loops' = [loops EXCEPT ![r] = Posted(@, t)]

poolVars == <<poolTasks, poolStop, worker, hand>>
mainVars == <<main, turn, g_stop_requested, useThreadPool>>

-----------------------------------------------------------------------------
(* The control thread: main() and Server.                                  *)

listenPort ==
  /\ main = "listen" /\ main' = "start"
  /\ enqueueTask(MainReactor, [kind |-> "listen"])
  /\ UNCHANGED <<turn, g_stop_requested, useThreadPool, listening, subIdx, conn, poolVars, terminated>>

(* Server::start: the sub reactors in order, then the main reactor.        *)
start ==
  /\ main = "start"
  /\ loops' = [loops EXCEPT ![IF turn \in Subs THEN turn ELSE MainReactor].at = "poll"]
  /\ IF turn \in Subs THEN main' = "start" /\ turn' = turn + 1
                      ELSE main' = "wait" /\ turn' = 1
  /\ UNCHANGED <<g_stop_requested, useThreadPool, listening, subIdx, conn, poolVars, terminated>>

onStopSignal ==
  /\ ~g_stop_requested /\ g_stop_requested' = TRUE
  /\ UNCHANGED <<main, turn, useThreadPool, loops, listening, subIdx, conn, poolVars, terminated>>

leaveWait ==
  /\ main = "wait" /\ g_stop_requested
  /\ main' = "stop"
  /\ UNCHANGED <<turn, g_stop_requested, useThreadPool, loops, listening, subIdx, conn, poolVars, terminated>>

(* Server::stop goes through this list, and joins each item before it goes *)
(* on to the next.  In the other two orders the pool, or the sub reactors, *)
(* are stopped while others still count on them.                           *)
IfPool == IF useThreadPool THEN <<Pool>> ELSE <<>>
AllSubs == [i \in 1..NSubs |-> i]
StopOrder_PoolFirst == <<MainReactor>> \o IfPool \o AllSubs
StopOrder_SubsFirst == AllSubs \o <<MainReactor>> \o IfPool
StopOrder == <<MainReactor>> \o AllSubs \o IfPool

(* Mistake: stopLoop is called from outside, which wakes nobody.           *)
stopNext_FlagOnly ==
  /\ main = "stop" /\ turn <= Len(StopOrder)
  /\ main' = "join"
  /\ IF StopOrder[turn] = Pool
     THEN poolStop' = TRUE /\ UNCHANGED loops
     ELSE loops' = [loops EXCEPT ![StopOrder[turn]].stop = TRUE] /\ UNCHANGED poolStop
  /\ UNCHANGED <<turn, g_stop_requested, useThreadPool, listening, subIdx, conn,
                 poolTasks, worker, hand, terminated>>

stopNext ==
  /\ main = "stop" /\ turn <= Len(StopOrder)
  /\ main' = "join"
  /\ IF StopOrder[turn] = Pool
     THEN poolStop' = TRUE /\ UNCHANGED loops
     ELSE enqueueTask(StopOrder[turn], [kind |-> "stop"]) /\ UNCHANGED poolStop
  /\ UNCHANGED <<turn, g_stop_requested, useThreadPool, listening, subIdx, conn,
                 poolTasks, worker, hand, terminated>>

Ended(item) ==
  IF item = Pool THEN \A w \in Workers : worker[w] = "exited" ELSE loops[item].at = "done"

join ==
  /\ main = "join" /\ Ended(StopOrder[turn])
  /\ main' = "stop" /\ turn' = turn + 1
  /\ UNCHANGED <<g_stop_requested, useThreadPool, loops, listening, subIdx, conn, poolVars, terminated>>

return ==
  /\ main = "stop" /\ turn > Len(StopOrder)
  /\ main' = "returned"
  /\ UNCHANGED <<turn, g_stop_requested, useThreadPool, loops, listening, subIdx, conn, poolVars, terminated>>

-----------------------------------------------------------------------------
(* The loops.  Events are handled before the copy of the tasks is taken.   *)

Handling(r) == loops[r].at = "poll" /\ ~terminated

(* Acceptor::handleRead and Server::handleNewConnection: one socket, to    *)
(* the next sub reactor.                                                   *)
Deal(c, next) ==
  /\ Handling(MainReactor) /\ listening /\ conn[c].at = "backlog"
  /\ conn' = [conn EXCEPT ![c].at = "socket", ![c].home = subIdx + 1]
  /\ enqueueTask(subIdx + 1, [kind |-> "add", client |-> c])
  /\ subIdx' = next
  /\ UNCHANGED <<mainVars, listening, poolVars, terminated>>
handleNewConnection_NoWrap(c) == Deal(c, subIdx + 1)
handleNewConnection(c) == Deal(c, (subIdx + 1) % NSubs)

(* onHttp on a complete request: the pool's enqueue throws once stop_ is   *)
(* set, and nothing on the stack of an I/O thread catches it.              *)
submit(c) ==
  /\ conn[c].at = "connected" /\ Handling(conn[c].home)
  /\ useThreadPool /\ conn[c].requests < MaxRequests
  /\ IF poolStop
     THEN terminated' = TRUE /\ UNCHANGED <<conn, poolTasks>>
     ELSE /\ conn' = [conn EXCEPT ![c].requests = @ + 1, ![c].working = @ + 1]
          /\ poolTasks' = Append(poolTasks, c)
          /\ UNCHANGED terminated
  /\ UNCHANGED <<mainVars, loops, listening, subIdx, poolStop, worker, hand>>

(* handleDead, after an error, an EOF or the idle timeout.                 *)
handleDead(c) ==
  /\ conn[c].at = "connected" /\ Handling(conn[c].home)
  /\ conn' = [conn EXCEPT ![c].at = "dead"]
  /\ enqueueTask(conn[c].home, [kind |-> "remove", client |-> c])
  /\ UNCHANGED <<mainVars, listening, subIdx, poolVars, terminated>>

drain(r) ==
  /\ Handling(r) /\ loops[r].tasks # <<>>
  /\ loops' = [loops EXCEPT ![r] = [@ EXCEPT !.funcs = loops[r].tasks, !.tasks = <<>>, !.at = "run"]]
  /\ UNCHANGED <<mainVars, listening, subIdx, conn, poolVars, terminated>>

Run(r, kind) ==
  /\ loops[r].at = "run" /\ loops[r].funcs # <<>> /\ ~terminated
  /\ Head(loops[r].funcs).kind = kind
Ran(r) == [loops[r] EXCEPT !.funcs = Tail(@)]

listenTask ==
  /\ Run(MainReactor, "listen")
  /\ listening' = TRUE
  /\ loops' = [loops EXCEPT ![MainReactor] = Ran(MainReactor)]
  /\ UNCHANGED <<mainVars, subIdx, conn, poolVars, terminated>>

(* The acceptor is destroyed: its backlog is reset by the kernel.          *)
stopMainTask ==
  /\ Run(MainReactor, "stop")
  /\ listening' = FALSE
  /\ conn' = [c \in Clients |-> IF conn[c].at = "backlog" THEN [conn[c] EXCEPT !.at = "refused"]
                                ELSE conn[c]]
  /\ loops' = [loops EXCEPT ![MainReactor] = [Ran(MainReactor) EXCEPT !.stop = TRUE]]
  /\ UNCHANGED <<mainVars, subIdx, poolVars, terminated>>

stopSubTask(r) ==
  /\ Run(r, "stop")
  /\ conn' = [c \in Clients |-> IF conn[c].inMap /\ conn[c].home = r
                                THEN [conn[c] EXCEPT !.at = "dead"] ELSE conn[c]]
  /\ loops' = [loops EXCEPT ![r] = [Ran(r) EXCEPT !.stop = TRUE]]
  /\ UNCHANGED <<mainVars, listening, subIdx, poolVars, terminated>>

OnConn(r, kind) ==
  /\ Run(r, kind)
  /\ loops' = [loops EXCEPT ![r] = Ran(r)]
  /\ UNCHANGED <<mainVars, listening, subIdx, poolVars, terminated>>
Its(r) == Head(loops[r].funcs).client

addTask(r) ==
  OnConn(r, "add") /\ conn' = [conn EXCEPT ![Its(r)] = [@ EXCEPT !.at = "connected", !.inMap = TRUE]]
removeTask(r) ==
  OnConn(r, "remove") /\ conn' = [conn EXCEPT ![Its(r)].inMap = FALSE]
respTask(r) ==
  OnConn(r, "resp") /\ conn' = [conn EXCEPT ![Its(r)].working = @ - 1]

(* while (!stop): the flag is looked at when the copy is used up.          *)
again(r) ==
  /\ loops[r].at = "run" /\ loops[r].funcs = <<>> /\ ~terminated
  /\ loops' = [loops EXCEPT ![r].at = IF loops[r].stop THEN "done" ELSE "poll"]
  /\ UNCHANGED <<mainVars, listening, subIdx, conn, poolVars, terminated>>

-----------------------------------------------------------------------------
(* The pool's workers.  enqueueTask looks at stop before it takes the lock,*)
(* so an answer may be queued on a loop that has ended meanwhile.          *)

take(w) ==
  /\ worker[w] = "ready" /\ poolTasks # <<>> /\ ~terminated
  /\ poolTasks' = Tail(poolTasks)
  /\ IF loops[conn[Head(poolTasks)].home].stop
     THEN UNCHANGED <<worker, hand>>
     ELSE /\ worker' = [worker EXCEPT ![w] = "posting"]
          /\ hand' = [hand EXCEPT ![w] = Head(poolTasks)]
  /\ UNCHANGED <<mainVars, loops, listening, subIdx, conn, poolStop, terminated>>

post(w) ==
  /\ worker[w] = "posting" /\ ~terminated
  /\ loops' = [loops EXCEPT ![conn[hand[w]].home].tasks =
                 Append(@, [kind |-> "resp", client |-> hand[w]])]
  /\ worker' = [worker EXCEPT ![w] = "ready"]
  /\ hand' = [hand EXCEPT ![w] = NoClient]
  /\ UNCHANGED <<mainVars, listening, subIdx, conn, poolTasks, poolStop, terminated>>

exit(w) ==
  /\ worker[w] = "ready" /\ poolStop /\ poolTasks = <<>> /\ ~terminated
  /\ worker' = [worker EXCEPT ![w] = "exited"]
  /\ UNCHANGED <<mainVars, loops, listening, subIdx, conn, poolTasks, poolStop, hand, terminated>>

(* A client connects: the kernel queues it on the listen socket.           *)
Connect(c) ==
  /\ listening /\ conn[c].at = "none"
  /\ conn' = [conn EXCEPT ![c].at = "backlog"]
  /\ UNCHANGED <<mainVars, loops, listening, subIdx, poolVars, terminated>>

-----------------------------------------------------------------------------
Main == listenPort \/ start \/ leaveWait \/ stopNext \/ join \/ return
Tasks(r) ==
  drain(r) \/ addTask(r) \/ removeTask(r) \/ respTask(r) \/ again(r)
    \/ (r = MainReactor /\ (listenTask \/ stopMainTask))
    \/ (r \in Subs /\ stopSubTask(r))
Worker(w) == take(w) \/ post(w) \/ exit(w)
Events(c) == Connect(c) \/ handleNewConnection(c) \/ submit(c) \/ handleDead(c)

Next ==
  \/ Main \/ onStopSignal
  \/ \E r \in Reactors : Tasks(r)
  \/ \E w \in Workers : Worker(w)
  \/ \E c \in Clients : Events(c)

Spec == Init /\ [][Next]_vars

(* Every thread runs, and a waiting socket is accepted: the listen socket  *)
(* is level triggered.  Clients need not do anything, and nobody has to    *)
(* ask for the stop.                                                       *)
Fairness ==
  /\ WF_vars(Main)
  /\ \A r \in Reactors : WF_vars(Tasks(r))
  /\ \A w \in Workers : WF_vars(Worker(w))

FairSpec == Spec /\ Fairness

-----------------------------------------------------------------------------
(* No I/O thread hands a request to a pool that has been stopped: the      *)
(* order of Server::stop keeps ThreadPool::enqueue from throwing, although *)
(* every connection may submit until its own loop has been joined.         *)
NeverTerminated == ~terminated

(* When stop() has returned, every socket that was accepted has reached    *)
(* its sub reactor and its connection is dead, the requests given to the   *)
(* pool have all been run, and no further client is let in.                *)
NothingLeftBehind ==
  main = "returned" =>
    /\ \A c \in Clients : conn[c].at \in {"none", "refused", "dead"}
    /\ poolTasks = <<>> /\ ~listening

(* A signal ends the server: no order of events makes stop() hang on one   *)
(* of its joins.                                                           *)
StopReturns == g_stop_requested ~> main = "returned" \/ terminated
=============================================================================
