----------------------------- MODULE Connection -----------------------------
(***************************************************************************)
(* The connections of one SubReactor and the I/O thread that owns them:    *)
(* Connection.cpp, Channel.cpp, SubReactor.cpp, and the loop of            *)
(* EventLoop.cpp as the connections see it (epoll batch, timer pass, task  *)
(* drain).  Around them: the kernel side of each socket, the peers, the    *)
(* worker threads of the pool, and the main thread that adds connections   *)
(* and asks for the stop.                                                  *)
(*                                                                         *)
(* A handler is one action, except that the parse loop of onHttp takes one *)
(* action per round: bytes and resets may arrive between two rounds.       *)
(***************************************************************************)
EXTENDS Integers, Sequences, FiniteSets

CONSTANTS
  Conns,          \* the connections the main reactor may hand over
  NoConn,         \* no connection is being handled
  Modes,          \* the settings of the flag -t: TRUE for on, FALSE for off
  Loads,          \* who connects in a behaviour, and what each peer sends
  Faults,         \* what may go wrong: a subset of Fault
  MaxEvents,      \* MAX_EVENTS: how many descriptors one epoll_wait reports
  MaxStalls       \* bound: how often the send buffer of a socket fills up

(* What the parser tells apart in the byte stream: a fragment without CRLF *)
(* (completed by the next piece), complete lines of an unfinished request, *)
(* and the four endings: a request kept alive, a request with "Connection: *)
(* close", a malformed one, and an over-long line.                         *)
Terminal == {"get", "close", "bad", "long"}
Piece == {"frag", "line"} \cup Terminal
Fault == {"fin", "rst", "idle", "stop"}

ASSUME ConnectionAssumption ==
  /\ NoConn \notin Conns
  /\ IsFiniteSet(Conns)
  /\ Modes \subseteq BOOLEAN
  /\ \A load \in Loads : DOMAIN load \subseteq Conns /\ load \in [DOMAIN load -> Seq(Piece)]
  /\ Faults \subseteq Fault
  /\ MaxEvents \in Nat \ {0}
  /\ MaxStalls \in Nat

VARIABLES
  conn,      \* per connection: its members, its channel, its socket
  tasks,     \* EventLoop::tasks
  funcs,     \* EventLoop::loop's local copy of the tasks being run
  pool,      \* worker tasks handed to the thread pool and not finished
  pc,        \* where the I/O thread is
  cur,       \* the connection whose handler is on the stack
  todo,      \* the events of the current batch not yet handled
  channels,  \* the connections of the current batch
  stop,      \* EventLoop::stop
  stopping   \* SubReactor::stop has been called

vars == <<conn, tasks, funcs, pool, pc, cur, todo, channels, stop, stopping>>

Event == {"in", "out"}
ConnState == {"none", "connected", "peerClose", "dead"}

ConnType ==
  [useThreadPool : BOOLEAN,
   state   : ConnState,          \* "none": not constructed yet
   working : Int,
   readBuffer : Seq(Piece),
   sent    : Seq(Nat),           \* responses put in writeBuffer, by request
   unsent  : BOOLEAN,            \* writeBuffer->readable() != 0
   nreq    : Nat,                \* requests parsed so far
   inMap   : BOOLEAN,            \* in SubReactor::Connections
   timer   : {"none", "fresh", "stale"},
   events  : SUBSET Event,       \* Channel::events
   inEpoll : BOOLEAN,            \* Channel::inEpoll
   armed   : BOOLEAN,            \* on the ready list of the epoll instance
   peer    : {"absent", "none", "open", "fin", "rst"},
   script  : Seq(Piece),         \* what the peer has not sent yet
   inq     : Seq(Piece),         \* the socket's receive queue
   room    : BOOLEAN,            \* the socket's send buffer accepts bytes
   sockErr : BOOLEAN,            \* a pending ECONNRESET on the socket
   stalls  : 0..MaxStalls]

TaskType ==
       [kind : {"add", "remove"}, conn : Conns]
  \cup [kind : {"resp"}, conn : Conns, id : Nat, keepAlive : BOOLEAN]
  \cup [kind : {"stop"}]
WorkType == [conn : Conns, id : Nat, keepAlive : BOOLEAN]

Typed ==
  /\ conn \in [Conns -> ConnType]
  /\ tasks \in Seq(TaskType)
  /\ funcs \in Seq(TaskType)
  /\ pool \in SUBSET WorkType
  /\ pc \in {"poll", "pass1", "http", "timer", "drain", "funcs", "done", "killed"}
  /\ cur \in Conns \cup {NoConn}
  /\ todo \in [Conns -> SUBSET Event]
  /\ channels \in SUBSET Conns
  /\ stop \in BOOLEAN
  /\ stopping \in BOOLEAN

(* working is an int that counts: while the loop has not been stopped no   *)
(* answer is taken off it that was not added when its request went out.    *)
TypeOK == Typed /\ (~stop => \A c \in Conns : conn[c].working >= 0)

NewConn(flag, load, c) ==
  [useThreadPool |-> flag, state |-> "none", working |-> 0, readBuffer |-> <<>>, sent |-> <<>>,
   unsent |-> FALSE, nreq |-> 0, inMap |-> FALSE, timer |-> "none",
   events |-> {}, inEpoll |-> FALSE, armed |-> FALSE,
   peer |-> IF c \in DOMAIN load THEN "none" ELSE "absent",
   script |-> IF c \in DOMAIN load THEN load[c] ELSE <<>>, inq |-> <<>>,
   room |-> TRUE, sockErr |-> FALSE, stalls |-> 0]

Init ==
  /\ \E flag \in Modes, load \in Loads : conn = [c \in Conns |-> NewConn(flag, load, c)]
  /\ tasks = <<>> /\ funcs = <<>> /\ pool = {}
  /\ pc = "poll" /\ cur = NoConn
  /\ todo = [c \in Conns |-> {}] /\ channels = {}
  /\ stop = FALSE /\ stopping = FALSE

-----------------------------------------------------------------------------
(* The channel of a connection, and epoll.  Channels are edge triggered: a *)
(* registration goes on the ready list when it is added or modified while  *)
(* an event of interest is pending, or when the socket wakes it up.        *)

ReadyEvents(k) ==
  {e \in Event : \/ e = "in" /\ (k.inq # <<>> \/ k.peer \in {"fin", "rst"})
                 \/ e = "out" /\ (k.room \/ k.peer = "rst")}
Reported(k) == ReadyEvents(k) \cap k.events

Wakeup(k, e) == [k EXCEPT !.armed = @ \/ (k.inEpoll /\ e \in k.events)]

updateChannel(k) ==
  [k EXCEPT !.inEpoll = TRUE, !.armed = @ \/ Reported(k) # {}]
removeChannel(k) == [k EXCEPT !.inEpoll = FALSE, !.armed = FALSE]

enableReading(k)  == updateChannel([k EXCEPT !.events = @ \cup {"in"}])
disableReading(k) == updateChannel([k EXCEPT !.events = @ \ {"in"}])
enableWriting(k)  == updateChannel([k EXCEPT !.events = @ \cup {"out"}])
disableWriting(k) == updateChannel([k EXCEPT !.events = @ \ {"out"}])

-----------------------------------------------------------------------------
(* Members of Connection.  They read and write the connection and the task *)
(* queue of its loop: s = [k |-> the connection, q |-> tasks].  An operator*)
(* named f_X is f with the mistake X: no action uses it, and each of them  *)
(* makes a property below fail when it takes the place of f.               *)

enqueueTask(q, t) == IF stop THEN q ELSE Append(q, t)

handleDead_KeepsTimer(c, s) ==
  IF s.k.state = "dead" THEN s
  ELSE [k |-> [removeChannel(s.k) EXCEPT !.state = "dead"],
        q |-> enqueueTask(s.q, [kind |-> "remove", conn |-> c])]
handleDead_ErasesAtOnce(c, s) ==
  IF s.k.state = "dead" THEN s
  ELSE [s EXCEPT !.k = [removeChannel(s.k) EXCEPT !.state = "dead", !.timer = "none",
                                                  !.inMap = FALSE]]
handleDead(c, s) ==
  IF s.k.state = "dead" THEN s
  ELSE [k |-> [removeChannel(s.k) EXCEPT !.state = "dead", !.timer = "none"],
        q |-> enqueueTask(s.q, [kind |-> "remove", conn |-> c])]

checkEmptyReadAfterEof(c, s) ==
  IF s.k.state = "peerClose" /\ s.k.working = 0 /\ ~s.k.unsent
  THEN handleDead(c, s) ELSE s

refreshTimer_OnlyDeletes(k) == [k EXCEPT !.timer = "none"]
refreshTimer(k) == [k EXCEPT !.timer = "fresh"]

readFromSck_DiesOnEof(c, s) ==
  LET k == [s.k EXCEPT !.readBuffer = @ \o s.k.inq, !.inq = <<>>]
  IN  IF k.peer = "open" THEN [s EXCEPT !.k = k]
      ELSE handleDead(c, [s EXCEPT !.k = [k EXCEPT !.sockErr = FALSE]])

(* Read to EAGAIN, EOF or an error.  A peer that resets after its FIN      *)
(* leaves an EOF behind, one that resets an open stream an ECONNRESET.     *)
readFromSck(c, s) ==
  LET k == [s.k EXCEPT !.readBuffer = @ \o s.k.inq, !.inq = <<>>]
  IN  IF k.peer = "open" THEN [s EXCEPT !.k = k]
      ELSE IF k.peer = "rst" /\ k.sockErr
           THEN handleDead(c, [s EXCEPT !.k = [k EXCEPT !.sockErr = FALSE]])
           ELSE [s EXCEPT !.k = [k EXCEPT !.state = "peerClose"]]

(* What a write to the socket can answer.  A socket whose peer is gone     *)
(* reports its pending error once; after that (or after a FIN and a reset) *)
(* the write raises SIGPIPE, which action BrokenPipe takes.                *)
WriteResults(k) ==
  IF k.peer = "rst" THEN IF k.sockErr THEN {"error"} ELSE {}
  ELSE IF ~k.room THEN {"again"}
  ELSE {"all"} \cup (IF k.stalls < MaxStalls THEN {"some"} ELSE {})

Fill(k) == IF k.room THEN [k EXCEPT !.room = FALSE, !.stalls = @ + 1] ELSE k

(* The end of trySendToSck and of handleWriteCallBack once the buffer is   *)
(* written out, and their common treatment of a write error.               *)
Drained_NoCheck(c, s) ==
  [s EXCEPT !.k = disableWriting([s.k EXCEPT !.unsent = FALSE])]
Drained(c, s) ==
  LET k == disableWriting([s.k EXCEPT !.unsent = FALSE])
  IN  IF k.state = "peerClose" /\ k.working = 0
      THEN handleDead(c, [s EXCEPT !.k = k]) ELSE [s EXCEPT !.k = k]
WriteError(c, s) ==
  handleDead(c, [s EXCEPT !.k = [s.k EXCEPT !.sockErr = FALSE]])

trySendToSck_NoWriteEvent(c, s, w) ==
  IF w = "all" THEN Drained(c, s)
  ELSE IF w = "error" THEN WriteError(c, s)
  ELSE [s EXCEPT !.k = Fill(s.k)]
trySendToSck(c, s, w) ==
  IF w = "all" THEN Drained(c, s)
  ELSE IF w = "error" THEN WriteError(c, s)
  ELSE [s EXCEPT !.k = enableWriting(Fill(s.k))]

(* Response id enters writeBuffer (0 is the 400); w is the write's answer. *)
sendHttpOnLoop(c, s, w, id, keepAlive) ==
  LET k == [s.k EXCEPT !.unsent = TRUE, !.sent = Append(@, id)]
      t == trySendToSck(c, [s EXCEPT !.k = k], w)
  IN  IF keepAlive THEN t
      ELSE [t EXCEPT !.k = [disableReading(t.k) EXCEPT !.state = "peerClose"]]

(* The task a worker posts back: t is its request, w the write's answer.   *)
WorkerAnswer_CountsLate(t, s, w) ==
  IF s.k.state = "dead" THEN s
  ELSE LET r == [s EXCEPT !.k.working = @ - 1]
       IN  checkEmptyReadAfterEof(t.conn, sendHttpOnLoop(t.conn, r, w, t.id, t.keepAlive))
WorkerAnswer_OnlyConnected(t, s, w) ==
  LET r == [s EXCEPT !.k.working = @ - 1]
  IN  IF r.k.state # "connected" THEN r
      ELSE checkEmptyReadAfterEof(t.conn, sendHttpOnLoop(t.conn, r, w, t.id, t.keepAlive))
WorkerAnswer(t, s, w) ==
  LET r == [s EXCEPT !.k.working = @ - 1]
  IN  IF r.k.state = "dead" THEN r
      ELSE checkEmptyReadAfterEof(t.conn, sendHttpOnLoop(t.conn, r, w, t.id, t.keepAlive))

(* HttpProcess::parse: lines are consumed as they complete, an over-long   *)
(* line stays where it is, and an incomplete line waits for its rest.      *)
BeforeEnding(b) == Cardinality({i \in DOMAIN b : \A h \in 1..i : b[h] \notin Terminal})
parse(b) ==
  IF \E i \in DOMAIN b : b[i] \in Terminal
  THEN LET i == BeforeEnding(b) + 1
       IN  [result |-> b[i],
            rest |-> SubSeq(b, IF b[i] = "long" THEN i ELSE i + 1, Len(b))]
  ELSE [result |-> "needMore",
        rest |-> IF b # <<>> /\ b[Len(b)] = "frag" THEN <<"frag">> ELSE <<>>]

(* The effect of s on the connection and the loop's queue.                 *)
Update(c, s) ==
  /\ conn' = [conn EXCEPT ![c] = s.k]
  /\ tasks' = s.q
Self(c) == [k |-> conn[c], q |-> tasks]

-----------------------------------------------------------------------------
(* The main thread, the peers and the clock.                               *)

Running == pc \notin {"done", "killed"}

(* SubReactor::addConnection, called by the main reactor for an accepted   *)
(* socket; the main reactor is joined before any SubReactor is stopped.    *)
addConnection(c) ==
  /\ Running /\ ~stopping
  /\ conn[c].peer = "none"
  /\ conn' = [conn EXCEPT ![c].peer = "open"]
  /\ tasks' = enqueueTask(tasks, [kind |-> "add", conn |-> c])
  /\ UNCHANGED <<funcs, pool, pc, cur, todo, channels, stop, stopping>>

requestStop ==
  /\ Running /\ ~stopping /\ "stop" \in Faults
  /\ stopping' = TRUE
  /\ tasks' = enqueueTask(tasks, [kind |-> "stop"])
  /\ UNCHANGED <<conn, funcs, pool, pc, cur, todo, channels, stop>>

Peer(c, k) ==
  /\ Running
  /\ conn' = [conn EXCEPT ![c] = k]
  /\ UNCHANGED <<tasks, funcs, pool, pc, cur, todo, channels, stop, stopping>>

Arrive(c) ==
  /\ conn[c].peer = "open" /\ conn[c].script # <<>>
  /\ Peer(c, Wakeup([conn[c] EXCEPT !.inq = Append(@, Head(conn[c].script)),
                                    !.script = Tail(@)], "in"))

PeerFin(c) ==
  /\ "fin" \in Faults /\ conn[c].peer = "open"
  /\ Peer(c, Wakeup([conn[c] EXCEPT !.peer = "fin"], "in"))

PeerReset(c) ==
  /\ "rst" \in Faults /\ conn[c].peer \in {"open", "fin"}
  /\ LET k == [conn[c] EXCEPT !.peer = "rst", !.sockErr = conn[c].peer = "open"]
     IN  Peer(c, Wakeup(Wakeup(k, "in"), "out"))

PeerReads(c) ==
  /\ conn[c].peer \in {"open", "fin"} /\ ~conn[c].room
  /\ Peer(c, Wakeup([conn[c] EXCEPT !.room = TRUE], "out"))

(* 60 s pass since the timer was set.  The loop is waiting in epoll_wait:  *)
(* one iteration is far shorter than 60 s.                                 *)
Expire(c) ==
  /\ "idle" \in Faults /\ pc = "poll" /\ conn[c].timer = "fresh"
  /\ Peer(c, [conn[c] EXCEPT !.timer = "stale"])

-----------------------------------------------------------------------------
(* EventLoop::loop, Epoll::poll and Channel::handle.                       *)

Pending == {c \in Conns : conn[c].armed /\ Reported(conn[c]) # {}}
Expired == {c \in Conns : conn[c].timer = "stale"}

(* epoll_wait reports at most MaxEvents ready descriptors.  What does not  *)
(* fit stays on the ready list; the timerfd and the eventfd take a place   *)
(* each when they are ready.                                               *)
Batches ==
  LET others == IF Expired = {} THEN 1 ELSE 2
  IN  {batch \in SUBSET Pending :
         /\ Cardinality(batch) <= MaxEvents
         /\ batch # Pending => Cardinality(batch) + others >= MaxEvents}

Poll ==
  /\ pc = "poll"
  /\ Pending # {} \/ Expired # {} \/ tasks # <<>>
  /\ \E batch \in Batches :
       /\ todo' = [c \in Conns |-> IF c \in batch THEN Reported(conn[c]) ELSE {}]
       /\ conn' = [c \in Conns |-> [conn[c] EXCEPT !.armed = c \in Pending \ batch]]
       /\ channels' = batch
  /\ pc' = "pass1" /\ cur' = NoConn
  /\ UNCHANGED <<tasks, funcs, pool, stop, stopping>>

(* Channel::handle calls the read callback, then the write callback.       *)
IsTurn(c, e) ==
  /\ pc = "pass1"
  /\ \A d \in Conns \ {c} : cur = d => todo[d] = {}
  /\ e \in todo[c]
  /\ e = "out" => "in" \notin todo[c]
Turn(c, e) ==
  /\ IsTurn(c, e)
  /\ cur' = c
  /\ todo' = [todo EXCEPT ![c] = @ \ {e}]

handleReadCallBack(c) ==
  /\ Turn(c, "in")
  /\ LET s == readFromSck(c, [Self(c) EXCEPT !.k = refreshTimer(conn[c])])
     IN  IF s.k.readBuffer = <<>>
         THEN Update(c, checkEmptyReadAfterEof(c, s)) /\ pc' = "pass1"
         ELSE Update(c, s) /\ pc' = "http"
  /\ UNCHANGED <<funcs, pool, channels, stop, stopping>>

(* One round of the parse loop of onHttp.                                  *)
onHttpDead(c) ==
  /\ pc = "http" /\ cur = c
  /\ conn[c].state = "dead"
  /\ pc' = "pass1"
  /\ UNCHANGED <<conn, tasks, funcs, pool, cur, todo, channels, stop, stopping>>

Parsed_EvenDead(c, results) ==
  /\ pc = "http" /\ cur = c
  /\ parse(conn[c].readBuffer).result \in results
Parsed(c, results) ==
  /\ pc = "http" /\ cur = c
  /\ conn[c].state # "dead"
  /\ parse(conn[c].readBuffer).result \in results
Consumed(c) == [conn[c] EXCEPT !.readBuffer = parse(@).rest]

onHttpNeedMore(c) ==
  /\ Parsed(c, {"needMore"})
  /\ Update(c, [Self(c) EXCEPT !.k = Consumed(c)])
  /\ pc' = "pass1"
  /\ UNCHANGED <<funcs, pool, cur, todo, channels, stop, stopping>>

onHttpLineTooLong(c) ==
  /\ Parsed(c, {"long"})
  /\ LET k == [disableReading(Consumed(c)) EXCEPT !.state = "peerClose"]
     IN  Update(c, checkEmptyReadAfterEof(c, [Self(c) EXCEPT !.k = k]))
  /\ pc' = "pass1"
  /\ UNCHANGED <<funcs, pool, cur, todo, channels, stop, stopping>>

onHttpError_NoReturn(c) ==
  /\ Parsed(c, {"bad"})
  /\ \E w \in WriteResults(conn[c]) :
       Update(c, sendHttpOnLoop(c, [Self(c) EXCEPT !.k = Consumed(c)], w, 0, FALSE))
  /\ UNCHANGED <<funcs, pool, pc, cur, todo, channels, stop, stopping>>
onHttpError(c) ==
  /\ Parsed(c, {"bad"})
  /\ \E w \in WriteResults(conn[c]) :
       Update(c, checkEmptyReadAfterEof(c,
                   sendHttpOnLoop(c, [Self(c) EXCEPT !.k = Consumed(c)], w, 0, FALSE)))
  /\ pc' = "pass1"
  /\ UNCHANGED <<funcs, pool, cur, todo, channels, stop, stopping>>

(* A complete request goes to the pool, or is answered on the spot.        *)
Request(c) == [conn |-> c, id |-> conn[c].nreq + 1,
               keepAlive |-> parse(conn[c].readBuffer).result = "get"]

onHttpProcess_NotCounted(c) ==
  /\ Parsed(c, {"get", "close"}) /\ conn[c].useThreadPool
  /\ Update(c, [Self(c) EXCEPT !.k = [Consumed(c) EXCEPT !.nreq = @ + 1]])
  /\ pool' = pool \cup {Request(c)}
  /\ UNCHANGED <<funcs, pc, cur, todo, channels, stop, stopping>>
onHttpProcess(c) ==
  /\ Parsed(c, {"get", "close"}) /\ conn[c].useThreadPool
  /\ Update(c, [Self(c) EXCEPT !.k = [Consumed(c) EXCEPT !.nreq = @ + 1,
                                                         !.working = @ + 1]])
  /\ pool' = pool \cup {Request(c)}
  /\ UNCHANGED <<funcs, pc, cur, todo, channels, stop, stopping>>

onHttpInline(c) ==
  /\ Parsed(c, {"get", "close"}) /\ ~conn[c].useThreadPool
  /\ \E w \in WriteResults(conn[c]) :
       LET k == [Consumed(c) EXCEPT !.nreq = @ + 1]
           r == Request(c)
       IN  Update(c, checkEmptyReadAfterEof(c,
                       sendHttpOnLoop(c, [Self(c) EXCEPT !.k = k], w, r.id, r.keepAlive)))
  /\ UNCHANGED <<funcs, pool, pc, cur, todo, channels, stop, stopping>>

(* The write callback retries until the socket is full or the buffer empty.*)
handleWriteCallBack(c) ==
  /\ Turn(c, "out")
  /\ LET k == refreshTimer(conn[c])
         s == [Self(c) EXCEPT !.k = k]
     IN  IF conn[c].state = "dead" THEN UNCHANGED <<conn, tasks>>
         ELSE IF ~k.unsent THEN Update(c, [s EXCEPT !.k = disableWriting(k)])
         ELSE \E w \in WriteResults(k) :
                Update(c, IF w = "all" THEN Drained(c, s)
                          ELSE IF w = "error" THEN WriteError(c, s)
                          ELSE [s EXCEPT !.k = Fill(k)])
  /\ UNCHANGED <<funcs, pool, pc, channels, stop, stopping>>

(* The timer channel comes last, if there was a place for it.              *)
EndOfBatch ==
  /\ pc = "pass1" /\ \A c \in Conns : todo[c] = {}
  /\ \/ Cardinality(channels) < MaxEvents /\ pc' = "timer"
     \/ Cardinality(channels) + 1 >= MaxEvents /\ pc' = "drain"
  /\ cur' = NoConn
  /\ UNCHANGED <<conn, tasks, funcs, pool, todo, channels, stop, stopping>>

(* Every timer that expired and was not refreshed meanwhile calls          *)
(* handleDead.                                                             *)
idleTimeout(c) ==
  /\ pc = "timer" /\ conn[c].timer = "stale"
  /\ Update(c, handleDead(c, [Self(c) EXCEPT !.k.timer = "none"]))
  /\ UNCHANGED <<funcs, pool, pc, cur, todo, channels, stop, stopping>>

Drain ==
  /\ pc = "drain" \/ (pc = "timer" /\ Expired = {})
  /\ funcs' = tasks /\ tasks' = <<>>
  /\ pc' = "funcs" /\ channels' = {}
  /\ UNCHANGED <<conn, pool, cur, todo, stop, stopping>>

RunTask(kind) ==
  /\ pc = "funcs" /\ funcs # <<>>
  /\ Head(funcs).kind = kind
  /\ funcs' = Tail(funcs)

addTask ==
  /\ RunTask("add")
  /\ LET c == Head(funcs).conn
     IN  conn' = [conn EXCEPT ![c] = enableReading(refreshTimer(
                    [@ EXCEPT !.state = "connected", !.inMap = TRUE]))]
  /\ UNCHANGED <<tasks, pool, pc, cur, todo, channels, stop, stopping>>

removeTask ==
  /\ RunTask("remove")
  /\ conn' = [conn EXCEPT ![Head(funcs).conn].inMap = FALSE]
  /\ UNCHANGED <<tasks, pool, pc, cur, todo, channels, stop, stopping>>

(* A worker's answer, back on the loop.                                    *)
respTask ==
  /\ RunTask("resp")
  /\ LET t == Head(funcs)
         k == conn[t.conn]
     IN  \E w \in IF k.state = "dead" THEN {"none"} ELSE WriteResults(k) :
           Update(t.conn, WorkerAnswer(t, Self(t.conn), w))
  /\ UNCHANGED <<pool, pc, cur, todo, channels, stop, stopping>>

(* SubReactor::stop's task: Connection::stop on every entry, then stopLoop.*)
stopConnection_OnlyConnected(k) ==
  IF k.state # "connected" THEN k
  ELSE [removeChannel(k) EXCEPT !.state = "dead", !.timer = "none"]
stopConnection(k) ==
  IF k.state = "dead" THEN k
  ELSE [removeChannel(k) EXCEPT !.state = "dead", !.timer = "none"]

stopTask ==
  /\ RunTask("stop")
  /\ conn' = [c \in Conns |-> IF conn[c].inMap THEN stopConnection(conn[c]) ELSE conn[c]]
  /\ stop' = TRUE
  /\ UNCHANGED <<tasks, pool, pc, cur, todo, channels, stopping>>

EndOfIteration ==
  /\ pc = "funcs" /\ funcs = <<>>
  /\ pc' = IF stop THEN "done" ELSE "poll"
  /\ UNCHANGED <<conn, tasks, funcs, pool, cur, todo, channels, stop, stopping>>

(* A worker has built a response and posts it to the owner loop.           *)
buildResponse(r) ==
  /\ pc # "killed" /\ r \in pool
  /\ pool' = pool \ {r}
  /\ tasks' = enqueueTask(tasks, [kind |-> "resp", conn |-> r.conn, id |-> r.id,
                                  keepAlive |-> r.keepAlive])
  /\ UNCHANGED <<conn, funcs, pc, cur, todo, channels, stop, stopping>>

(* Socket::sckWrite is a plain write() and SIGPIPE has its default action. *)
WritingTo(c) ==
  /\ conn[c].state # "dead"
  /\ \/ Parsed(c, {"bad"})
     \/ Parsed(c, {"get", "close"}) /\ ~conn[c].useThreadPool
     \/ pc = "funcs" /\ funcs # <<>> /\ Head(funcs).kind = "resp" /\ Head(funcs).conn = c
     \/ IsTurn(c, "out") /\ conn[c].unsent

BrokenPipe ==
  /\ \E c \in Conns : WritingTo(c) /\ WriteResults(conn[c]) = {}
  /\ pc' = "killed"
  /\ UNCHANGED <<conn, tasks, funcs, pool, cur, todo, channels, stop, stopping>>

-----------------------------------------------------------------------------
onHttp(c) ==
  onHttpDead(c) \/ onHttpNeedMore(c) \/ onHttpLineTooLong(c) \/ onHttpError(c)
    \/ onHttpProcess(c) \/ onHttpInline(c)

LoopThread ==
  \/ Poll \/ EndOfBatch \/ Drain \/ EndOfIteration
  \/ addTask \/ removeTask \/ respTask \/ stopTask
  \/ \E c \in Conns :
       handleReadCallBack(c) \/ onHttp(c) \/ handleWriteCallBack(c) \/ idleTimeout(c)

Workers == \E r \in pool : buildResponse(r)

Environment ==
  \E c \in Conns : addConnection(c) \/ Arrive(c) \/ PeerFin(c) \/ PeerReset(c) \/ PeerReads(c)

Next ==
  LoopThread \/ Workers \/ BrokenPipe \/ Environment \/ requestStop
    \/ \E c \in Conns : Expire(c)

Spec == Init /\ [][Next]_vars

(* The I/O thread and the workers keep running and the clock advances;     *)
(* nothing is assumed of the peers or of the main thread.                  *)
Fairness ==
  /\ WF_vars(LoopThread \/ BrokenPipe)
  /\ WF_vars(Workers)
  /\ \A c \in Conns : WF_vars(Expire(c))

FairSpec == Spec /\ Fairness

-----------------------------------------------------------------------------
(* Vocabulary of the properties.                                           *)

Queued == tasks \o funcs
Posted(kind, c) ==
  {i \in DOMAIN Queued : Queued[i].kind = kind /\ Queued[i].conn = c}
RemovalPending(c) == Posted("remove", c) # {}
WithWorker(c) == {r \in pool : r.conn = c}
Responses(c) == Posted("resp", c)
InFlight(c) == {r.id : r \in WithWorker(c)} \cup {Queued[i].id : i \in Responses(c)}
Answered(c) == {conn[c].sent[i] : i \in DOMAIN conn[c].sent}

(* The connections the SubReactor still serves.                            *)
Serving(c) == conn[c].inMap /\ conn[c].state # "dead" /\ ~RemovalPending(c)
InHandler(c) == pc = "http" /\ cur = c

-----------------------------------------------------------------------------
(* Safety.                                                                 *)

(* A dead connection is out of epoll and has no timer: whatever order      *)
(* errors, EOF, timeouts and late callbacks come in, nothing re-registers  *)
(* it without bringing it back to life (FIX-029, FIX-035).                 *)
DeadIsDetached ==
  \A c \in Conns : conn[c].state = "dead" => ~conn[c].inEpoll /\ conn[c].timer = "none"

(* Connection::working is the number of requests with a worker or on their *)
(* way back: it reaches 0 exactly when no answer is outstanding, so the    *)
(* EOF checks neither close early nor wait for ever.                       *)
WorkingCounts ==
  ~stop => \A c \in Conns :
             conn[c].working = Cardinality(WithWorker(c)) + Cardinality(Responses(c))

(* While a connection lives, every request parsed from it has exactly one  *)
(* response: written to writeBuffer, or still with the pool or the loop.   *)
(* Without the pool responses leave in request order, a 400 last.          *)
InOrder(id, next) == id # 0 /\ (next = 0 \/ id < next)
EachAnsweredOnce ==
  ~stop => \A c \in Conns : conn[c].state # "dead" =>
    /\ 1..conn[c].nreq = (Answered(c) \cup InFlight(c)) \ {0}
    /\ Answered(c) \cap InFlight(c) = {}
    /\ \A i, j \in DOMAIN conn[c].sent :
         i < j => /\ conn[c].sent[i] # conn[c].sent[j]
                  /\ conn[c].useThreadPool \/ InOrder(conn[c].sent[i], conn[c].sent[j])

(* A half-closed connection stays only while an answer is being built or   *)
(* written (checkEmptyReadAfterEof and the two write paths), if the peers  *)
(* send whole requests: an EOF behind part of one leaves the connection to *)
(* its idle timer.                                                         *)
WholeStreams == \A c \in Conns : conn[c].script \in Seq(Terminal)
HasReason ==
  pc # "killed" => \A c \in Conns :
    Serving(c) /\ conn[c].state = "peerClose" /\ ~InHandler(c)
      => conn[c].working > 0 \/ conn[c].unsent
PeerCloseHasReason == WholeStreams => []HasReason

Unread(k) ==
  k.inq # <<>> \/ (k.peer \in {"fin", "rst"} /\ k.state = "connected")

(* Edge triggering loses nothing: input, an EOF or buffer space that a     *)
(* served connection has not dealt with yet is going to be reported.       *)
NoLostEdge ==
  \A c \in Conns : Serving(c) =>
    LET k == conn[c] IN
    /\ Unread(k) /\ "in" \in k.events => k.armed \/ "in" \in todo[c]
    /\ k.unsent =>
         /\ "out" \in k.events
         /\ "out" \in ReadyEvents(k) => k.armed \/ "out" \in todo[c]

(* Once the loop's stop task has run, no mapped connection is alive, so a  *)
(* worker that comes back finds nothing to write to.                       *)
StoppedIsDead ==
  stop => \A c \in Conns : conn[c].inMap => conn[c].state = "dead"

-----------------------------------------------------------------------------
(* Action properties.                                                      *)

(* A connection reported in the current batch stays in the map until the   *)
(* batch is over, so its Channel is there when its turn comes (FIX-026).   *)
ErasedAfterBatch ==
  [][\A c \in channels : conn[c].inMap => conn'[c].inMap]_vars

(* A dead connection stays dead and nothing more is put in its write       *)
(* buffer: not by late worker answers, by events of the batch in which it  *)
(* died, or after the stop task (FIX-030, FIX-035).                        *)
DeadIsFinal ==
  [][\A c \in Conns : conn[c].state = "dead"
       => conn'[c].state = "dead" /\ conn'[c].sent = conn[c].sent]_vars

-----------------------------------------------------------------------------
(* What the documents say of the end of a connection.                      *)

(* Only a dead connection is on its way out of the map.                    *)
RemovedIsDead ==
  \A c \in Conns : RemovalPending(c) => conn[c].state = "dead"

(* The end of a connection whose peer has closed its side, when neither    *)
(* the idle timer nor the stop nor an answer that closes it comes first:   *)
(* every complete request received before the EOF has been parsed and      *)
(* answered (FIX-020, FIX-023).                                            *)
EofStep(c) ==
  /\ conn[c].state # "dead" /\ conn'[c].state = "dead"
  /\ conn[c].peer = "fin" /\ pc # "timer" /\ ~stop'
  /\ "in" \in conn'[c].events
EofRequestsAnswered(c) ==
  EofStep(c) => /\ parse(conn'[c].readBuffer).result = "needMore"
                /\ 1..conn'[c].nreq \subseteq Answered(c)'
EofAnsweredByPool ==
  [][\A c \in Conns : conn[c].useThreadPool => EofRequestsAnswered(c)]_vars
EofAnsweredInline ==
  [][\A c \in Conns : ~conn[c].useThreadPool => EofRequestsAnswered(c)]_vars

(* A peer that goes away cannot take the server down.                      *)
NotKilled == pc # "killed"

-----------------------------------------------------------------------------
(* Liveness.                                                               *)

(* Every connection is given back in the end: if its peer finishes, fails  *)
(* or falls silent, it leaves the map, or the loop stops.                  *)
EventuallyReleased ==
  \A c \in Conns :
    conn[c].inMap ~> ~conn[c].inMap \/ ~Running
=============================================================================
