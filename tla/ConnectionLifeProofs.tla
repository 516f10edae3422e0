------------------------ MODULE ConnectionLifeProofs ------------------------
(* What TLAPS proves of the life of a connection, its outstanding work,    *)
(* its answers, its edges and its end, on top of the soundness shown in    *)
(* ConnectionProofs.                                                       *)
EXTENDS ConnectionProofs

(* The answers to c among some tasks.                                      *)
RespIn(s, c) == {i \in DOMAIN s : s[i].kind = "resp" /\ s[i].conn = c}

-----------------------------------------------------------------------------
(* The invariant.  A connection that is not constructed yet is known to    *)
(* nobody: not to epoll, the timers, the map or the pool.                  *)
Unborn ==
  /\ \A c \in Conns : conn[c].state = "none" =>
       /\ ~conn[c].inMap /\ ~conn[c].inEpoll /\ conn[c].timer = "none" /\ todo[c] = {}
  /\ \A c \in Conns : conn[c].peer \in {"none", "absent"} => conn[c].state = "none"
  /\ pc = "http" => cur \in Conns /\ conn[cur].state # "none"
  /\ \A r \in pool : conn[r.conn].state # "none"

(* It has at most one task that constructs it.                             *)
TaskLife(cn, t) ==
  /\ t.kind = "add" => cn[t.conn].state = "none" /\ cn[t.conn].peer \notin {"none", "absent"}
  /\ t.kind = "resp" => cn[t.conn].state # "none"
OneAdd(q) == \A i, j \in DOMAIN q : q[i].kind = "add" /\ q[i] = q[j] => i = j
QueueLife ==
  /\ \A i \in DOMAIN tasks : TaskLife(conn, tasks[i])
  /\ \A i \in DOMAIN funcs : TaskLife(conn, funcs[i])
  /\ OneAdd(tasks) /\ OneAdd(funcs)
  /\ \A i \in DOMAIN tasks, j \in DOMAIN funcs : tasks[i].kind = "add" => tasks[i] # funcs[j]

(* Nothing is added behind the stop.                                       *)
Among(kind, q) == \E i \in DOMAIN q : q[i].kind = kind
StopLast(q) == \A i, j \in DOMAIN q : q[i].kind = "stop" /\ i < j => q[j].kind # "add"
StopOrder ==
  /\ StopLast(tasks) /\ StopLast(funcs)
  /\ stop \/ Among("stop", funcs) => ~Among("add", tasks)
  /\ stop => ~Among("add", funcs) /\ pc \in {"funcs", "done", "killed"}
  /\ stop \/ Among("stop", funcs) \/ Among("stop", tasks) => stopping

(* The copy of the tasks is there while it is run, the batch while its     *)
(* events are handled.                                                     *)
Phases ==
  /\ pc \notin {"funcs", "killed"} => funcs = <<>>
  /\ pc = "funcs" => channels = {}

Life == Unborn /\ QueueLife /\ StopOrder /\ Phases /\ StoppedIsDead

(* The work of a connection, counted where it is.                          *)
Counts ==
  /\ IsFiniteSet(pool)
  /\ \A r \in pool : r.id <= conn[r.conn].nreq
  /\ ~stop => \A c \in Conns :
       conn[c].working = Cardinality(WithWorker(c))
                           + Cardinality(RespIn(tasks, c)) + Cardinality(RespIn(funcs, c))

(* The requests in flight are told apart by their numbers: in the pool, in *)
(* either queue, and between them.                                         *)
QueueIds(q, c) == {q[i].id : i \in RespIn(q, c)}
OnceInQueue(q, c) == \A i, j \in RespIn(q, c) : q[i].id = q[j].id => i = j
PoolIds(p, c) == {r.id : r \in {x \in p : x.conn = c}}
OnceInPool(p, c) == \A r, x \in p : r.conn = c /\ x.conn = c /\ r.id = x.id => r = x
Apart(p, a, b, c) ==
  /\ OnceInPool(p, c) /\ OnceInQueue(a, c) /\ OnceInQueue(b, c)
  /\ PoolIds(p, c) \cap QueueIds(a, c) = {}
  /\ PoolIds(p, c) \cap QueueIds(b, c) = {}
  /\ QueueIds(a, c) \cap QueueIds(b, c) = {}
Flight(p, a, b, c) == PoolIds(p, c) \cup QueueIds(a, c) \cup QueueIds(b, c)

(* The answers sent, against the n requests parsed and the set fly of      *)
(* those in flight; with the pool or without it.                           *)
SentIds(sent) == {sent[i] : i \in DOMAIN sent}
Accounted(withPool, n, sent, fly, alive) ==
  /\ fly \subseteq 1..n /\ SentIds(sent) \subseteq 0..n
  /\ ~withPool => fly = {}
  /\ alive => /\ 1..n = (SentIds(sent) \cup fly) \ {0}
              /\ SentIds(sent) \cap fly = {}
              /\ \A i, j \in DOMAIN sent :
                   i < j => /\ sent[i] # sent[j]
                            /\ withPool \/ InOrder(sent[i], sent[j])

(* A connection that was sent a 400 has been read for the last time.       *)
BadIsLast(c) ==
  0 \in SentIds(conn[c].sent) => /\ "in" \notin conn[c].events /\ "in" \notin todo[c]
                                 /\ ~InHandler(c)

Alive(c) == ~stop /\ conn[c].state # "dead"
Fine(c) ==
  /\ Apart(pool, tasks, funcs, c)
  /\ Accounted(conn[c].useThreadPool, conn[c].nreq, conn[c].sent,
               Flight(pool, tasks, funcs, c), Alive(c))
  /\ BadIsLast(c)
  /\ conn[c].state = "none" => conn[c].sent = <<>>
Answers == \A c \in Conns : Fine(c)

-----------------------------------------------------------------------------
(* What the members of Connection leave alone: the life, the work and the  *)
(* answers of a connection.  They never start reading again.               *)
Frame(k, l) ==
  /\ l.useThreadPool = k.useThreadPool /\ l.working = k.working /\ l.nreq = k.nreq
  /\ l.inMap = k.inMap /\ l.sent = k.sent /\ l.peer = k.peer /\ l.script = k.script
  /\ "in" \in l.events => "in" \in k.events
  /\ l.state = "none" => k.state = "none"

(* All they do to the queue is to ask for the removal of c.                *)
RemoveOf(c) == [kind |-> "remove", conn |-> c]
OnlyRemoves(c, q, p) ==
  /\ q \in Seq(TaskType) /\ p \in Seq(TaskType) /\ Len(q) <= Len(p)
  /\ \A i \in 1..Len(q) : p[i] = q[i]
  /\ \A i \in 1..Len(p) : i > Len(q) => p[i] = RemoveOf(c)

Keeps(c, s, t) == Frame(s.k, t.k) /\ OnlyRemoves(c, s.q, t.q)

(* The number of answers a connection waits for.                           *)
LEMMA WorkingIs ==
  ASSUME NEW l \in ConnType PROVE l.working \in Int
  BY DEF ConnType

(* The removal is a task, and about c.                                     *)
LEMMA RemoveOfType ==
  ASSUME NEW c \in Conns
  PROVE  RemoveOf(c) \in TaskType /\ RemoveOf(c).kind = "remove" /\ RemoveOf(c).conn = c
  BY DEF RemoveOf, TaskType

(* One member after another still only asks for removals.                  *)
LEMMA OnlyRemovesTrans ==
  ASSUME NEW c, NEW q, NEW p, NEW r, OnlyRemoves(c, q, p), OnlyRemoves(c, p, r)
  PROVE  OnlyRemoves(c, q, r)
<1>1. Len(q) \in Nat /\ Len(p) \in Nat /\ Len(r) \in Nat /\ Len(q) <= Len(p) /\ Len(p) <= Len(r)
  BY DEF OnlyRemoves
<1>2. \A i \in 1..Len(q) : r[i] = q[i]
  BY <1>1 DEF OnlyRemoves
<1>3. ASSUME NEW i \in 1..Len(r), i > Len(q) PROVE r[i] = RemoveOf(c)
  <2>1. CASE i \in 1..Len(p)
    BY <1>3, <2>1 DEF OnlyRemoves
  <2>2. CASE i > Len(p)
    BY <1>3, <2>2 DEF OnlyRemoves
  <2> QED BY <1>1, <2>1, <2>2
<1> QED BY <1>1, <1>2, <1>3 DEF OnlyRemoves

(* And leaves the same alone.                                              *)
LEMMA FrameTrans ==
  ASSUME NEW k, NEW l, NEW m, Frame(k, l), Frame(l, m)
  PROVE  Frame(k, m)
  BY DEF Frame

(* Both together, for members called in sequence.                          *)
LEMMA KeepsTrans ==
  ASSUME NEW c, NEW s, NEW t, NEW u, Keeps(c, s, t), Keeps(c, t, u)
  PROVE  Keeps(c, s, u)
  BY FrameTrans, OnlyRemovesTrans DEF Keeps

(* A member that leaves the queue alone.                                   *)
LEMMA KeepsQueue ==
  ASSUME NEW c, NEW s \in Situation, NEW k \in ConnType, Frame(s.k, k)
  PROVE  Keeps(c, s, [s EXCEPT !.k = k]) /\ [s EXCEPT !.k = k] \in Situation
<1> DEFINE t == [s EXCEPT !.k = k]
<1>1. t \in Situation /\ t.k = k /\ t.q = s.q /\ s.q \in Seq(TaskType)
  BY Parts
<1>2. OnlyRemoves(c, s.q, s.q)
  BY <1>1 DEF OnlyRemoves
<1> HIDE DEF t
<1>3. Keeps(c, s, t)
  BY <1>1, <1>2 DEF Keeps
<1> QED BY <1>1, <1>3 DEF t

(* A member that returns early keeps everything.                           *)
LEMMA KeepsSame ==
  ASSUME NEW c, NEW s \in Situation
  PROVE  Keeps(c, s, s)
<1>1. s.q \in Seq(TaskType)
  BY Parts
<1> QED BY <1>1 DEF Keeps, Frame, OnlyRemoves

-----------------------------------------------------------------------------
(* Channel.                                                                *)
LEMMA UpdateChannelFrame ==
  ASSUME NEW k \in ConnType
  PROVE  Frame(k, updateChannel(k)) /\ updateChannel(k).events = k.events
<1> DEFINE l == updateChannel(k)
<1>1. /\ l.useThreadPool = k.useThreadPool /\ l.working = k.working /\ l.nreq = k.nreq
      /\ l.inMap = k.inMap /\ l.sent = k.sent /\ l.peer = k.peer /\ l.script = k.script
      /\ l.events = k.events /\ l.state = k.state
  BY DEF updateChannel, ConnType
<1> QED BY <1>1 DEF Frame

(* The members of Channel keep the frame; disableReading ends reading.     *)
LEMMA InterestFrame ==
  ASSUME NEW k \in ConnType
  PROVE  /\ enableWriting(k) \in ConnType /\ Frame(k, enableWriting(k))
         /\ disableWriting(k) \in ConnType /\ Frame(k, disableWriting(k))
         /\ disableReading(k) \in ConnType /\ Frame(k, disableReading(k))
         /\ "in" \notin disableReading(k).events
<1>1. ASSUME NEW E \in SUBSET Event, "in" \in E => "in" \in k.events
      PROVE  /\ updateChannel([k EXCEPT !.events = E]) \in ConnType
             /\ Frame(k, updateChannel([k EXCEPT !.events = E]))
             /\ updateChannel([k EXCEPT !.events = E]).events = E
  <2> DEFINE l == [k EXCEPT !.events = E]
  <2>1. l \in ConnType
    BY <1>1 DEF ConnType
  <2>2. /\ l.useThreadPool = k.useThreadPool /\ l.working = k.working /\ l.nreq = k.nreq
        /\ l.inMap = k.inMap /\ l.sent = k.sent /\ l.peer = k.peer /\ l.script = k.script
        /\ l.events = E /\ l.state = k.state
    BY DEF ConnType
  <2> HIDE DEF l
  <2>3. Frame(k, l)
    BY <1>1, <2>2 DEF Frame
  <2> QED BY <2>1, <2>2, <2>3, ChannelTypes, UpdateChannelFrame, FrameTrans DEF l
<1>2. /\ k.events \cup {"out"} \in SUBSET Event /\ k.events \ {"in"} \in SUBSET Event
      /\ k.events \ {"out"} \in SUBSET Event
  BY DEF ConnType, Event
<1>3. /\ "in" \in k.events \cup {"out"} => "in" \in k.events
      /\ "in" \notin k.events \ {"in"}
      /\ "in" \in k.events \ {"out"} => "in" \in k.events
  OBVIOUS
<1>4. enableWriting(k) \in ConnType /\ Frame(k, enableWriting(k))
  BY <1>1, <1>2, <1>3 DEF enableWriting
<1>5. disableWriting(k) \in ConnType /\ Frame(k, disableWriting(k))
  BY <1>1, <1>2, <1>3 DEF disableWriting
<1>6. /\ disableReading(k) \in ConnType /\ Frame(k, disableReading(k))
      /\ disableReading(k).events = k.events \ {"in"}
  BY <1>1, <1>2, <1>3 DEF disableReading
<1> QED BY <1>3, <1>4, <1>5, <1>6

(* Members of Connection that touch only its own fields.                   *)
LEMMA FieldsFrame ==
  ASSUME NEW k \in ConnType
  PROVE  /\ refreshTimer(k) \in ConnType /\ Frame(k, refreshTimer(k))
         /\ [k EXCEPT !.sockErr = FALSE] \in ConnType /\ Frame(k, [k EXCEPT !.sockErr = FALSE])
         /\ [k EXCEPT !.unsent = FALSE] \in ConnType /\ Frame(k, [k EXCEPT !.unsent = FALSE])
         /\ [k EXCEPT !.timer = "none"] \in ConnType /\ Frame(k, [k EXCEPT !.timer = "none"])
         /\ [k EXCEPT !.state = "peerClose"] \in ConnType
         /\ Frame(k, [k EXCEPT !.state = "peerClose"])
         /\ Killed(k) \in ConnType /\ Frame(k, Killed(k))
<1>1. refreshTimer(k) \in ConnType /\ Frame(k, refreshTimer(k))
  BY DEF refreshTimer, ConnType, Frame
<1>2. [k EXCEPT !.sockErr = FALSE] \in ConnType /\ Frame(k, [k EXCEPT !.sockErr = FALSE])
  BY DEF ConnType, Frame
<1>3. [k EXCEPT !.unsent = FALSE] \in ConnType /\ Frame(k, [k EXCEPT !.unsent = FALSE])
  BY DEF ConnType, Frame
<1>4. [k EXCEPT !.timer = "none"] \in ConnType /\ Frame(k, [k EXCEPT !.timer = "none"])
  BY DEF ConnType, Frame
<1>5. [k EXCEPT !.state = "peerClose"] \in ConnType /\ Frame(k, [k EXCEPT !.state = "peerClose"])
  BY DEF ConnType, ConnState, Frame
<1>6. Killed(k) \in ConnType
  BY KilledSound DEF Sound
<1>7. Frame(k, Killed(k))
  BY DEF ConnType, Frame, Killed, removeChannel
<1> QED BY <1>1, <1>2, <1>3, <1>4, <1>5, <1>6, <1>7

(* So does a write that fills the send buffer.                             *)
LEMMA FillFrame ==
  ASSUME NEW k \in ConnType, CanFill(k)
  PROVE  Fill(k) \in ConnType /\ Frame(k, Fill(k))
<1>1. Fill(k) \in ConnType
  BY FillTypes
<1>2. Frame(k, Fill(k))
  BY DEF Fill, ConnType, Frame
<1> QED BY <1>1, <1>2

(* handleDead asks for the removal of c and for nothing else.              *)
LEMMA HandleDeadKeeps ==
  ASSUME NEW c \in Conns, NEW s \in Situation
  PROVE  handleDead(c, s) \in Situation /\ Keeps(c, s, handleDead(c, s))
<1>1. CASE s.k.state = "dead"
  BY <1>1, KeepsSame DEF handleDead
<1>2. CASE s.k.state # "dead"
  <2> DEFINE p == enqueueTask(s.q, RemoveOf(c))
  <2>1. handleDead(c, s) = [k |-> Killed(s.k), q |-> p]
    BY <1>2 DEF handleDead, Killed, RemoveOf
  <2>2. s.q \in Seq(TaskType) /\ s.k \in ConnType /\ RemoveOf(c) \in TaskType
    BY Parts, RemoveOfType
  <2>3. OnlyRemoves(c, s.q, p)
    BY <2>2 DEF OnlyRemoves, enqueueTask
  <2>4. Killed(s.k) \in ConnType /\ Frame(s.k, Killed(s.k))
    BY <2>2, FieldsFrame
  <2> HIDE DEF p
  <2>5. p \in Seq(TaskType)
    BY <2>3 DEF OnlyRemoves
  <2> QED BY <2>1, <2>3, <2>4, <2>5 DEF Situation, Keeps
<1> QED BY <1>1, <1>2

(* So does the check after an EOF, which may call it.                      *)
LEMMA EofKeeps ==
  ASSUME NEW c \in Conns, NEW s \in Situation
  PROVE  /\ checkEmptyReadAfterEof(c, s) \in Situation
         /\ Keeps(c, s, checkEmptyReadAfterEof(c, s))
  BY HandleDeadKeeps, KeepsSame DEF checkEmptyReadAfterEof

(* readFromSck moves input and may half-close or kill the connection.      *)
LEMMA ReadKeeps ==
  ASSUME NEW c \in Conns, NEW s \in Situation
  PROVE  readFromSck(c, s) \in Situation /\ Keeps(c, s, readFromSck(c, s))
<1> DEFINE k == [s.k EXCEPT !.readBuffer = @ \o s.k.inq, !.inq = <<>>]
           e == [k EXCEPT !.sockErr = FALSE]
           f == [k EXCEPT !.state = "peerClose"]
<1>1. s.k \in ConnType
  BY Parts
<1>2. s.k.readBuffer \o s.k.inq \in Seq(Piece) /\ <<>> \in Seq(Piece)
  <2>1. s.k.readBuffer \in Seq(Piece) /\ s.k.inq \in Seq(Piece)
    BY <1>1 DEF ConnType
  <2> QED BY <2>1
<1>3. k \in ConnType
  BY <1>1, <1>2 DEF ConnType
<1>4. Frame(s.k, k)
  BY <1>1 DEF Frame, ConnType
<1> HIDE DEF k
<1>5. e \in ConnType /\ f \in ConnType /\ Frame(s.k, e) /\ Frame(s.k, f)
  BY <1>3, <1>4, FieldsFrame, FrameTrans
<1> HIDE DEF e, f
<1>6. /\ [s EXCEPT !.k = k] \in Situation /\ Keeps(c, s, [s EXCEPT !.k = k])
      /\ [s EXCEPT !.k = e] \in Situation /\ Keeps(c, s, [s EXCEPT !.k = e])
      /\ [s EXCEPT !.k = f] \in Situation /\ Keeps(c, s, [s EXCEPT !.k = f])
  BY <1>3, <1>4, <1>5, KeepsQueue
<1>7. /\ handleDead(c, [s EXCEPT !.k = e]) \in Situation
      /\ Keeps(c, s, handleDead(c, [s EXCEPT !.k = e]))
  BY <1>6, HandleDeadKeeps, KeepsTrans
<1> QED BY <1>6, <1>7 DEF readFromSck, k, e, f

(* What the write paths do once the buffer is empty.                       *)
LEMMA DrainedKeeps ==
  ASSUME NEW c \in Conns, NEW s \in Situation
  PROVE  Drained(c, s) \in Situation /\ Keeps(c, s, Drained(c, s))
<1> DEFINE u == [s.k EXCEPT !.unsent = FALSE]
           k == disableWriting(u)
<1>1. s.k \in ConnType
  BY Parts
<1>2. u \in ConnType /\ Frame(s.k, u)
  BY <1>1, FieldsFrame
<1>3. k \in ConnType /\ Frame(s.k, k)
  <2> HIDE DEF u
  <2> QED BY <1>2, InterestFrame, FrameTrans
<1>4. [s EXCEPT !.k = k] \in Situation /\ Keeps(c, s, [s EXCEPT !.k = k])
  <2> HIDE DEF k
  <2> QED BY <1>3, KeepsQueue
<1>5. /\ handleDead(c, [s EXCEPT !.k = k]) \in Situation
      /\ Keeps(c, s, handleDead(c, [s EXCEPT !.k = k]))
  <2> HIDE DEF k
  <2> QED BY <1>4, HandleDeadKeeps, KeepsTrans
<1> QED BY <1>4, <1>5 DEF Drained

(* What they do when the write fails.                                      *)
LEMMA WriteErrorKeeps ==
  ASSUME NEW c \in Conns, NEW s \in Situation
  PROVE  WriteError(c, s) \in Situation /\ Keeps(c, s, WriteError(c, s))
<1> DEFINE e == [s.k EXCEPT !.sockErr = FALSE]
<1>1. s.k \in ConnType
  BY Parts
<1>2. e \in ConnType /\ Frame(s.k, e)
  BY <1>1, FieldsFrame
<1> HIDE DEF e
<1>3. [s EXCEPT !.k = e] \in Situation /\ Keeps(c, s, [s EXCEPT !.k = e])
  BY <1>2, KeepsQueue
<1>4. /\ handleDead(c, [s EXCEPT !.k = e]) \in Situation
      /\ Keeps(c, s, handleDead(c, [s EXCEPT !.k = e]))
  BY <1>3, HandleDeadKeeps, KeepsTrans
<1> QED BY <1>4 DEF WriteError, e

(* trySendToSck, whatever the socket answers.                              *)
LEMMA TrySendKeeps ==
  ASSUME NEW c \in Conns, NEW s \in Situation, NEW w, w \in {"all", "error"} \/ CanFill(s.k)
  PROVE  trySendToSck(c, s, w) \in Situation /\ Keeps(c, s, trySendToSck(c, s, w))
<1>1. CASE w = "all"
  BY <1>1, DrainedKeeps DEF trySendToSck
<1>2. CASE w = "error"
  BY <1>2, WriteErrorKeeps DEF trySendToSck
<1>3. CASE w # "all" /\ w # "error"
  <2> DEFINE k == enableWriting(Fill(s.k))
  <2>1. s.k \in ConnType /\ CanFill(s.k)
    BY <1>3, Parts
  <2>2. Fill(s.k) \in ConnType /\ Frame(s.k, Fill(s.k))
    BY <2>1, FillFrame
  <2>3. k \in ConnType /\ Frame(s.k, k)
    BY <2>2, InterestFrame, FrameTrans
  <2>4. trySendToSck(c, s, w) = [s EXCEPT !.k = k]
    BY <1>3 DEF trySendToSck
  <2> HIDE DEF k
  <2> QED BY <2>3, <2>4, KeepsQueue
<1> QED BY <1>1, <1>2, <1>3

(* The response is in writeBuffer once, whatever becomes of its bytes; an  *)
(* answer that closes also ends the reading.                               *)
Sending(k, id) == [k EXCEPT !.unsent = TRUE, !.sent = Append(@, id)]

(* sendHttpOnLoop adds its response to the answers, and nothing else;      *)
(* without keep-alive the connection is not read again.                    *)
LEMMA SendKeeps ==
  ASSUME NEW c \in Conns, NEW s \in Situation, NEW w, w \in {"all", "error"} \/ CanFill(s.k),
         NEW id \in Nat, NEW keepAlive \in BOOLEAN
  PROVE  LET t == sendHttpOnLoop(c, s, w, id, keepAlive)
         IN  /\ t \in Situation
             /\ Keeps(c, [s EXCEPT !.k = Sending(s.k, id)], t)
             /\ [s EXCEPT !.k = Sending(s.k, id)] \in Situation
             /\ ~keepAlive => "in" \notin t.k.events
<1> DEFINE k == Sending(s.k, id)
           b == [s EXCEPT !.k = k]
           t == trySendToSck(c, b, w)
           d == disableReading(t.k)
           h == [d EXCEPT !.state = "peerClose"]
           u == [t EXCEPT !.k = h]
<1>1. s.k \in ConnType
  BY Parts
<1>2. k \in ConnType /\ (CanFill(s.k) => CanFill(k))
  <2>1. Append(s.k.sent, id) \in Seq(Nat)
    BY <1>1 DEF ConnType
  <2>2. k \in ConnType
    BY <1>1, <2>1 DEF ConnType, Sending
  <2>3. k.room = s.k.room /\ k.stalls = s.k.stalls
    BY <1>1 DEF ConnType, Sending
  <2> QED BY <2>2, <2>3 DEF CanFill
<1> HIDE DEF k
<1>3. b \in Situation /\ b.k = k
  BY <1>2, Parts
<1> HIDE DEF b
<1>4. t \in Situation /\ Keeps(c, b, t)
  BY <1>2, <1>3, TrySendKeeps
<1> HIDE DEF t
<1>5. d \in ConnType /\ Frame(t.k, d) /\ "in" \notin d.events
  BY <1>4, Parts, InterestFrame
<1> HIDE DEF d
<1>6. h \in ConnType /\ Frame(t.k, h) /\ h.events = d.events
  <2>1. h \in ConnType /\ Frame(d, h)
    BY <1>5, FieldsFrame
  <2>2. h.events = d.events
    BY <1>5 DEF ConnType
  <2> HIDE DEF h
  <2> QED BY <1>5, <2>1, <2>2, FrameTrans
<1> HIDE DEF h
<1>7. u \in Situation /\ Keeps(c, b, u) /\ u.k = h
  <2>1. u \in Situation /\ Keeps(c, t, u)
    BY <1>4, <1>6, KeepsQueue
  <2>2. u.k = h
    BY <1>4, <1>6, Parts
  <2> HIDE DEF u
  <2> QED BY <1>4, <2>1, <2>2, KeepsTrans
<1>8. sendHttpOnLoop(c, s, w, id, keepAlive) = IF keepAlive THEN t ELSE u
  BY DEF sendHttpOnLoop, t, b, k, u, h, d, Sending
<1> HIDE DEF u
<1> QED BY <1>3, <1>4, <1>5, <1>6, <1>7, <1>8 DEF b, k

(* The same with the EOF check that every caller makes behind it.          *)
LEMMA AnswerKeeps ==
  ASSUME NEW c \in Conns, NEW s \in Situation, NEW w, w \in {"all", "error"} \/ CanFill(s.k),
         NEW id \in Nat, NEW keepAlive \in BOOLEAN
  PROVE  LET t == checkEmptyReadAfterEof(c, sendHttpOnLoop(c, s, w, id, keepAlive))
         IN  /\ t \in Situation
             /\ Frame(Sending(s.k, id), t.k) /\ OnlyRemoves(c, s.q, t.q)
             /\ ~keepAlive => "in" \notin t.k.events
<1> DEFINE b == [s EXCEPT !.k = Sending(s.k, id)]
           a == sendHttpOnLoop(c, s, w, id, keepAlive)
           t == checkEmptyReadAfterEof(c, a)
<1>1. a \in Situation /\ Keeps(c, b, a) /\ b \in Situation /\ (~keepAlive => "in" \notin a.k.events)
  BY SendKeeps
<1>2. b.k = Sending(s.k, id) /\ b.q = s.q
  BY DEF Situation
<1> HIDE DEF a, b
<1>3. t \in Situation /\ Keeps(c, a, t)
  BY <1>1, EofKeeps
<1> HIDE DEF t
<1>4. Keeps(c, b, t) /\ (~keepAlive => "in" \notin t.k.events)
  BY <1>1, <1>3, KeepsTrans DEF Keeps, Frame
<1>5. Frame(Sending(s.k, id), t.k) /\ OnlyRemoves(c, s.q, t.q)
  BY <1>2, <1>4 DEF Keeps
<1> QED BY <1>3, <1>4, <1>5 DEF t, a

(* The connection once the response is in its write buffer.                *)
LEMMA SendingIs ==
  ASSUME NEW k \in ConnType, NEW id \in Nat
  PROVE  LET l == Sending(k, id)
         IN  /\ l \in ConnType /\ l.sent = Append(k.sent, id)
             /\ l.useThreadPool = k.useThreadPool /\ l.working = k.working /\ l.nreq = k.nreq
             /\ l.inMap = k.inMap /\ l.peer = k.peer /\ l.script = k.script
             /\ l.events = k.events /\ l.state = k.state
<1>1. Append(k.sent, id) \in Seq(Nat)
  BY DEF ConnType
<1>2. Sending(k, id) \in ConnType
  BY <1>1 DEF ConnType, Sending
<1>3. LET l == Sending(k, id)
      IN  /\ l.sent = Append(k.sent, id)
          /\ l.useThreadPool = k.useThreadPool /\ l.working = k.working /\ l.nreq = k.nreq
          /\ l.inMap = k.inMap /\ l.peer = k.peer /\ l.script = k.script
          /\ l.events = k.events /\ l.state = k.state
  BY DEF ConnType, Sending
<1> QED BY <1>2, <1>3

-----------------------------------------------------------------------------
(* What a handler of c does, seen from the life of the connections: it     *)
(* leaves c with w as working, n requests parsed and s as the answers, and *)
(* asks at most for the removal of c.                                      *)
Does(c, w, n, s) ==
  /\ \A d \in Conns \ {c} : conn'[d] = conn[d]
  /\ conn'[c].working = w /\ conn'[c].nreq = n /\ conn'[c].sent = s
  /\ conn'[c].useThreadPool = conn[c].useThreadPool
  /\ conn'[c].inMap = conn[c].inMap /\ conn'[c].peer = conn[c].peer
  /\ "in" \in conn'[c].events => "in" \in conn[c].events
  /\ conn[c].state # "none" /\ conn'[c].state # "none"
  /\ conn[c].state = "dead" => conn'[c].state = "dead" /\ s = conn[c].sent
  /\ OnlyRemoves(c, tasks, tasks')
  /\ \A d \in Conns : todo'[d] \subseteq todo[d]
  /\ "in" \notin todo'[c]
  /\ UNCHANGED <<channels, stop, stopping>>

(* A handler that only uses the members above, on a live connection.       *)
LEMMA MembersDo ==
  ASSUME ConnInv, NEW c \in Conns, NEW k \in ConnType, NEW t \in Situation, Update(c, t),
         Frame(k, t.k), OnlyRemoves(c, tasks, t.q),
         conn[c].state \notin {"none", "dead"}, k.state # "none",
         k.useThreadPool = conn[c].useThreadPool, k.inMap = conn[c].inMap, k.peer = conn[c].peer,
         k.events = conn[c].events,
         \A d \in Conns : todo'[d] \subseteq todo[d], "in" \notin todo'[c],
         UNCHANGED <<channels, stop, stopping>>
  PROVE  Does(c, k.working, k.nreq, k.sent)
<1>1. conn \in [Conns -> ConnType]
  BY DEF ConnInv, Typed
<1>2. conn'[c] = t.k /\ tasks' = t.q /\ \A d \in Conns \ {c} : conn'[d] = conn[d]
  BY <1>1 DEF Update
<1> QED BY <1>2 DEF Does, Frame

(* The connection whose event or request is handled exists.                *)
LEMMA TurnIsAlive ==
  ASSUME ConnInv, Unborn, NEW c \in Conns, NEW e, Turn(c, e)
  PROVE  conn[c].state # "none"
  BY DEF Unborn, Turn, IsTurn

(* What a handler starts from.                                             *)
LEMMA SelfIs ==
  ASSUME ConnInv, NEW c \in Conns
  PROVE  /\ conn[c] \in ConnType /\ Self(c) \in Situation /\ Self(c).k = conn[c]
         /\ Self(c).q = tasks
         /\ \A k \in ConnType : /\ [Self(c) EXCEPT !.k = k] \in Situation
                                /\ [Self(c) EXCEPT !.k = k].k = k
                                /\ [Self(c) EXCEPT !.k = k].q = tasks
         /\ tasks \in Seq(TaskType) /\ OnlyRemoves(c, tasks, tasks)
<1>1. conn[c] \in ConnType /\ tasks \in Seq(TaskType)
  BY DEF ConnInv, Typed
<1>2. Self(c) \in Situation /\ Self(c).k = conn[c] /\ Self(c).q = tasks
  BY <1>1 DEF Self, Situation
<1>3. OnlyRemoves(c, tasks, tasks)
  BY <1>1 DEF OnlyRemoves
<1> QED BY <1>1, <1>2, <1>3, Parts

(* The read callback neither counts nor answers.                           *)
LEMMA ReadDoes ==
  ASSUME ConnInv, Unborn, NEW c \in Conns, handleReadCallBack(c)
  PROVE  /\ Does(c, conn[c].working, conn[c].nreq, conn[c].sent)
         /\ conn[c].state # "dead" /\ "in" \in todo[c]
         /\ pc' \in {"pass1", "http"} /\ cur' = c /\ pc = "pass1"
         /\ UNCHANGED <<funcs, pool>>
<1> DEFINE r == [Self(c) EXCEPT !.k = refreshTimer(conn[c])]
           s == readFromSck(c, r)
<1>1. Turn(c, "in") /\ UNCHANGED <<funcs, pool, channels, stop, stopping>>
  BY DEF handleReadCallBack
<1>2. conn[c].state \notin {"none", "dead"} /\ "in" \in todo[c]
  BY <1>1, TurnIsAlive DEF ConnInv, ReadsFindAlive, Turn, IsTurn
<1>3. conn[c] \in ConnType /\ refreshTimer(conn[c]) \in ConnType
      /\ Frame(conn[c], refreshTimer(conn[c]))
  BY SelfIs, FieldsFrame
<1>4. r \in Situation /\ r.k = refreshTimer(conn[c]) /\ r.q = tasks
  BY <1>3, SelfIs
<1> HIDE DEF r
<1>5. s \in Situation /\ Keeps(c, r, s)
  BY <1>4, ReadKeeps
<1> HIDE DEF s
<1>6. checkEmptyReadAfterEof(c, s) \in Situation /\ Keeps(c, r, checkEmptyReadAfterEof(c, s))
  BY <1>5, EofKeeps, KeepsTrans
<1>7. PICK u \in Situation : Keeps(c, r, u) /\ Update(c, u) /\ pc' \in {"pass1", "http"}
  BY <1>5, <1>6 DEF handleReadCallBack, s, r
<1>8. Frame(conn[c], u.k) /\ OnlyRemoves(c, tasks, u.q)
  BY <1>3, <1>4, <1>7, FrameTrans DEF Keeps
<1> QED BY <1>1, <1>2, <1>3, <1>7, <1>8, TurnTakesRead, MembersDo

(* Nor does the write callback,                                            *)
LEMMA WriteDoes ==
  ASSUME ConnInv, Unborn, NEW c \in Conns, handleWriteCallBack(c)
  PROVE  /\ Does(c, conn[c].working, conn[c].nreq, conn[c].sent)
         /\ cur' = c /\ pc = "pass1"
         /\ UNCHANGED <<funcs, pool, pc>>
<1> DEFINE k == refreshTimer(conn[c])
           s == [Self(c) EXCEPT !.k = k]
<1>1. Turn(c, "out") /\ UNCHANGED <<funcs, pool, pc, channels, stop, stopping>>
  BY DEF handleWriteCallBack
<1>2. conn[c].state # "none"
  BY <1>1, TurnIsAlive
<1>3. CASE conn[c].state = "dead"
  <2>1. UNCHANGED <<conn, tasks>>
    BY <1>3 DEF handleWriteCallBack
  <2> QED BY <1>1, <1>2, <1>3, <2>1, SelfIs, TurnTakesRead DEF Does
<1>4. CASE conn[c].state # "dead"
  <2>1. k \in ConnType /\ Frame(conn[c], k)
    BY SelfIs, FieldsFrame
  <2>2. s \in Situation /\ s.k = k /\ s.q = tasks
    BY <2>1, SelfIs
  <2> HIDE DEF k, s
  <2>3. [s EXCEPT !.k = disableWriting(k)] \in Situation
        /\ Keeps(c, s, [s EXCEPT !.k = disableWriting(k)])
    BY <2>1, <2>2, InterestFrame, KeepsQueue
  <2>4. ASSUME NEW w \in WriteResults(k), w # "all", w # "error"
        PROVE  [s EXCEPT !.k = Fill(k)] \in Situation /\ Keeps(c, s, [s EXCEPT !.k = Fill(k)])
    BY <2>1, <2>2, <2>4, WriteAnswers, FillFrame, KeepsQueue
  <2>5. PICK u \in Situation : Keeps(c, s, u) /\ Update(c, u)
    <3>1. CASE ~k.unsent
      BY <1>4, <2>3, <3>1 DEF handleWriteCallBack, k, s
    <3>2. CASE k.unsent
      <4>1. PICK w \in WriteResults(k) :
              Update(c, IF w = "all" THEN Drained(c, s)
                        ELSE IF w = "error" THEN WriteError(c, s)
                        ELSE [s EXCEPT !.k = Fill(k)])
        BY <1>4, <3>2 DEF handleWriteCallBack, k, s
      <4> QED BY <2>2, <2>4, <4>1, DrainedKeeps, WriteErrorKeeps
    <3> QED BY <3>1, <3>2
  <2>6. Frame(conn[c], u.k) /\ OnlyRemoves(c, tasks, u.q)
    BY <2>1, <2>2, <2>5, FrameTrans DEF Keeps
  <2> QED BY <1>1, <1>2, <1>4, <2>5, <2>6, SelfIs, TurnTakesRead, MembersDo
<1> QED BY <1>3, <1>4, <1>1, TurnTakesRead

(* nor the idle timer.                                                     *)
LEMMA TimeoutDoes ==
  ASSUME ConnInv, Unborn, NEW c \in Conns, idleTimeout(c)
  PROVE  /\ Does(c, conn[c].working, conn[c].nreq, conn[c].sent)
         /\ pc = "timer"
         /\ UNCHANGED <<funcs, pool, pc, cur>>
<1> DEFINE k == [conn[c] EXCEPT !.timer = "none"]
           s == [Self(c) EXCEPT !.k = k]
<1>1. /\ UNCHANGED <<funcs, pool, pc, cur, todo, channels, stop, stopping>>
      /\ pc = "timer" /\ conn[c].timer = "stale"
      /\ Update(c, handleDead(c, [Self(c) EXCEPT !.k.timer = "none"]))
  BY DEF idleTimeout
<1>2. conn[c].state \notin {"none", "dead"} /\ "in" \notin todo[c]
  BY <1>1 DEF Unborn, ConnInv, AllSound, Sound, Detached, ReadsFindAlive
<1>3. k \in ConnType /\ Frame(conn[c], k)
  BY SelfIs, FieldsFrame
<1>4. [Self(c) EXCEPT !.k.timer = "none"] = s
  BY DEF Self
<1>5. s \in Situation /\ s.k = k /\ s.q = tasks
  BY <1>3, SelfIs
<1> HIDE DEF k, s
<1>6. handleDead(c, s) \in Situation /\ Keeps(c, s, handleDead(c, s))
  BY <1>5, HandleDeadKeeps
<1>7. Frame(conn[c], handleDead(c, s).k) /\ OnlyRemoves(c, tasks, handleDead(c, s).q)
  BY <1>3, <1>5, <1>6, FrameTrans DEF Keeps
<1> QED BY <1>1, <1>2, <1>4, <1>6, <1>7, SelfIs, MembersDo

(* The rounds of the parse loop.                                           *)
LEMMA ConsumedIs ==
  ASSUME ConnInv, NEW c \in Conns
  PROVE  /\ Consumed(c) \in ConnType /\ Frame(conn[c], Consumed(c))
         /\ Consumed(c).events = conn[c].events /\ Consumed(c).state = conn[c].state
         /\ Consumed(c).room = conn[c].room /\ Consumed(c).stalls = conn[c].stalls
<1>1. conn[c] \in ConnType /\ Consumed(c) \in ConnType
  BY SelfIs, ConsumedSound DEF Sound
<1>2. LET l == Consumed(c) k == conn[c]
      IN  /\ l.useThreadPool = k.useThreadPool /\ l.working = k.working /\ l.nreq = k.nreq
          /\ l.inMap = k.inMap /\ l.sent = k.sent /\ l.peer = k.peer /\ l.script = k.script
          /\ l.events = k.events /\ l.state = k.state
          /\ l.room = k.room /\ l.stalls = k.stalls
  BY <1>1 DEF Consumed, ConnType
<1> QED BY <1>1, <1>2 DEF Frame

(* A round of the parse loop belongs to a constructed connection whose     *)
(* read event has been taken.                                              *)
LEMMA RoundIs ==
  ASSUME ConnInv, Unborn, NEW c \in Conns, pc = "http", cur = c
  PROVE  conn[c].state # "none" /\ "in" \notin todo[c]
  BY DEF Unborn, ConnInv, ReadsFindAlive

(* Rounds that answer nothing.                                             *)
LEMMA PlainRoundDoes ==
  ASSUME ConnInv, Unborn, NEW c \in Conns,
         onHttpDead(c) \/ onHttpNeedMore(c) \/ onHttpLineTooLong(c)
  PROVE  /\ Does(c, conn[c].working, conn[c].nreq, conn[c].sent)
         /\ pc = "http" /\ cur = c /\ pc' = "pass1"
         /\ UNCHANGED <<funcs, pool, cur>>
<1>1. CASE onHttpDead(c)
  <2>1. UNCHANGED <<conn, tasks, funcs, pool, cur, todo, channels, stop, stopping>>
        /\ pc = "http" /\ cur = c /\ pc' = "pass1"
    BY <1>1 DEF onHttpDead
  <2> QED BY <2>1, SelfIs, RoundIs DEF Does
<1>2. CASE onHttpNeedMore(c)
  <2>1. /\ UNCHANGED <<funcs, pool, cur, todo, channels, stop, stopping>>
        /\ pc = "http" /\ cur = c /\ pc' = "pass1" /\ conn[c].state # "dead"
        /\ Update(c, [Self(c) EXCEPT !.k = Consumed(c)])
    BY <1>2 DEF onHttpNeedMore, Parsed
  <2>2. conn[c].state # "none" /\ "in" \notin todo[c]
    BY <2>1, RoundIs
  <2> DEFINE u == [Self(c) EXCEPT !.k = Consumed(c)]
  <2>3. u \in Situation /\ u.k = Consumed(c) /\ u.q = tasks
    BY SelfIs, ConsumedIs
  <2> HIDE DEF u
  <2>4. Frame(conn[c], u.k) /\ OnlyRemoves(c, tasks, u.q) /\ Update(c, u)
    BY <2>1, <2>3, SelfIs, ConsumedIs DEF u
  <2> QED BY <2>1, <2>2, <2>3, <2>4, SelfIs, MembersDo
<1>3. CASE onHttpLineTooLong(c)
  <2> DEFINE d == disableReading(Consumed(c))
             k == [d EXCEPT !.state = "peerClose"]
             s == [Self(c) EXCEPT !.k = k]
             u == checkEmptyReadAfterEof(c, s)
  <2>1. /\ UNCHANGED <<funcs, pool, cur, todo, channels, stop, stopping>>
        /\ pc = "http" /\ cur = c /\ pc' = "pass1" /\ conn[c].state # "dead"
        /\ Update(c, u)
    BY <1>3 DEF onHttpLineTooLong, Parsed
  <2>2. conn[c].state # "none" /\ "in" \notin todo[c]
    BY <2>1, RoundIs
  <2>3. d \in ConnType /\ Frame(conn[c], d)
    BY ConsumedIs, InterestFrame, FrameTrans
  <2> HIDE DEF d
  <2>4. k \in ConnType /\ Frame(conn[c], k)
    BY <2>3, FieldsFrame, FrameTrans
  <2> HIDE DEF k
  <2>5. s \in Situation /\ s.k = k /\ s.q = tasks
    BY <2>4, SelfIs
  <2> HIDE DEF s
  <2>6. u \in Situation /\ Keeps(c, s, u)
    BY <2>5, EofKeeps
  <2> HIDE DEF u
  <2>7. Frame(conn[c], u.k) /\ OnlyRemoves(c, tasks, u.q)
    BY <2>4, <2>5, <2>6, FrameTrans DEF Keeps
  <2> QED BY <2>1, <2>2, <2>6, <2>7, SelfIs, MembersDo
<1> QED BY <1>1, <1>2, <1>3

(* A malformed request is answered by a 400, the last answer.              *)
LEMMA ErrorDoes ==
  ASSUME ConnInv, Unborn, NEW c \in Conns, onHttpError(c)
  PROVE  /\ Does(c, conn[c].working, conn[c].nreq, Append(conn[c].sent, 0))
         /\ "in" \notin conn'[c].events
         /\ pc = "http" /\ cur = c /\ pc' = "pass1" /\ conn[c].state # "dead"
         /\ UNCHANGED <<funcs, pool, cur>>
<1> DEFINE s == [Self(c) EXCEPT !.k = Consumed(c)]
           k == Sending(Consumed(c), 0)
<1>1. /\ UNCHANGED <<funcs, pool, cur, todo, channels, stop, stopping>>
      /\ pc = "http" /\ cur = c /\ pc' = "pass1" /\ conn[c].state # "dead"
  BY DEF onHttpError, Parsed
<1>2. conn[c].state # "none" /\ "in" \notin todo[c]
  BY <1>1, RoundIs
<1>3. PICK w \in WriteResults(conn[c]) :
        Update(c, checkEmptyReadAfterEof(c, sendHttpOnLoop(c, s, w, 0, FALSE)))
  BY DEF onHttpError
<1>4. s \in Situation /\ s.k = Consumed(c) /\ s.q = tasks
  BY SelfIs, ConsumedIs
<1> HIDE DEF s
<1>5. w \in {"all", "error"} \/ CanFill(s.k)
  BY <1>3, <1>4, SelfIs, ConsumedIs, WriteAnswers DEF CanFill
<1> DEFINE u == checkEmptyReadAfterEof(c, sendHttpOnLoop(c, s, w, 0, FALSE))
<1>6. u \in Situation /\ Frame(k, u.k) /\ OnlyRemoves(c, tasks, u.q) /\ "in" \notin u.k.events
  BY <1>4, <1>5, AnswerKeeps
<1>7. Update(c, u)
  BY <1>3
<1> HIDE DEF u
<1>8. /\ k \in ConnType /\ k.sent = Append(conn[c].sent, 0)
      /\ k.useThreadPool = conn[c].useThreadPool /\ k.working = conn[c].working
      /\ k.nreq = conn[c].nreq /\ k.inMap = conn[c].inMap /\ k.peer = conn[c].peer
      /\ k.events = conn[c].events /\ k.state = conn[c].state
  <2> DEFINE l == Consumed(c)
  <2>1. l \in ConnType /\ Frame(conn[c], l) /\ l.events = conn[c].events /\ l.state = conn[c].state
    BY ConsumedIs
  <2> HIDE DEF l
  <2>2. /\ Sending(l, 0) \in ConnType /\ Sending(l, 0).sent = Append(l.sent, 0)
        /\ Sending(l, 0).useThreadPool = l.useThreadPool /\ Sending(l, 0).working = l.working
        /\ Sending(l, 0).nreq = l.nreq /\ Sending(l, 0).inMap = l.inMap
        /\ Sending(l, 0).peer = l.peer /\ Sending(l, 0).events = l.events
        /\ Sending(l, 0).state = l.state
    BY <2>1, SendingIs
  <2>3. k = Sending(l, 0)
    BY DEF l
  <2> HIDE DEF k
  <2> QED BY <2>1, <2>2, <2>3 DEF Frame
<1> HIDE DEF k
<1>9. Does(c, k.working, k.nreq, k.sent)
  BY <1>1, <1>2, <1>6, <1>7, <1>8, MembersDo
<1>10. conn'[c] = u.k
  BY <1>7 DEF Update, ConnInv, Typed
<1> QED BY <1>1, <1>6, <1>8, <1>9, <1>10

(* A request for the pool is counted, and handed over.                     *)
LEMMA ProcessDoes ==
  ASSUME ConnInv, Unborn, NEW c \in Conns, onHttpProcess(c)
  PROVE  /\ Does(c, conn[c].working + 1, conn[c].nreq + 1, conn[c].sent)
         /\ pc = "http" /\ cur = c /\ conn[c].state # "dead" /\ conn[c].useThreadPool
         /\ conn'[c].events = conn[c].events /\ tasks' = tasks
         /\ pool' = pool \cup {Request(c)}
         /\ UNCHANGED <<funcs, pc, cur>>
<1> DEFINE l == Consumed(c)
           k == [l EXCEPT !.nreq = @ + 1, !.working = @ + 1]
           s == [Self(c) EXCEPT !.k = k]
<1>1. /\ UNCHANGED <<funcs, pc, cur, todo, channels, stop, stopping>>
      /\ pc = "http" /\ cur = c /\ conn[c].state # "dead" /\ conn[c].useThreadPool
      /\ pool' = pool \cup {Request(c)} /\ Update(c, s)
  BY DEF onHttpProcess, Parsed
<1>2. conn[c].state # "none" /\ "in" \notin todo[c]
  BY <1>1, RoundIs
<1>3. /\ l \in ConnType /\ Frame(conn[c], l) /\ l.events = conn[c].events
      /\ l.state = conn[c].state /\ l.nreq + 1 \in Nat /\ l.working + 1 \in Int
  BY ConsumedIs, ConsumedSound
<1> HIDE DEF l
<1>4. k \in ConnType
  BY <1>3 DEF ConnType
<1>5. /\ k.sent = l.sent /\ k.useThreadPool = l.useThreadPool /\ k.working = l.working + 1
      /\ k.nreq = l.nreq + 1 /\ k.inMap = l.inMap /\ k.peer = l.peer
      /\ k.events = l.events /\ k.state = l.state
  BY <1>3 DEF ConnType
<1> HIDE DEF k
<1>6. s \in Situation /\ s.k = k /\ s.q = tasks
  BY <1>4, SelfIs
<1> HIDE DEF s
<1>7. Frame(k, s.k) /\ OnlyRemoves(c, tasks, s.q)
  BY <1>6, SelfIs DEF Frame
<1>8. Does(c, k.working, k.nreq, k.sent)
  BY <1>1, <1>2, <1>3, <1>4, <1>5, <1>6, <1>7, MembersDo DEF Frame
<1>9. conn'[c] = k /\ tasks' = tasks
  BY <1>1, <1>6 DEF Update, ConnInv, Typed
<1> QED BY <1>1, <1>3, <1>5, <1>8, <1>9 DEF Frame

(* A request answered on the spot gets the next number.                    *)
LEMMA InlineDoes ==
  ASSUME ConnInv, Unborn, NEW c \in Conns, onHttpInline(c)
  PROVE  /\ Does(c, conn[c].working, conn[c].nreq + 1, Append(conn[c].sent, conn[c].nreq + 1))
         /\ pc = "http" /\ cur = c /\ conn[c].state # "dead" /\ ~conn[c].useThreadPool
         /\ UNCHANGED <<funcs, pool, pc, cur>>
<1> DEFINE l == Consumed(c)
           k == [l EXCEPT !.nreq = @ + 1]
           s == [Self(c) EXCEPT !.k = k]
           r == Request(c)
           a(w) == checkEmptyReadAfterEof(c, sendHttpOnLoop(c, s, w, r.id, r.keepAlive))
<1>1. /\ UNCHANGED <<funcs, pool, pc, cur, todo, channels, stop, stopping>>
      /\ pc = "http" /\ cur = c /\ conn[c].state # "dead" /\ ~conn[c].useThreadPool
  BY DEF onHttpInline, Parsed
<1>2. conn[c].state # "none" /\ "in" \notin todo[c]
  BY <1>1, RoundIs
<1>3. PICK w \in WriteResults(conn[c]) : Update(c, a(w))
  BY DEF onHttpInline
<1>4. /\ l \in ConnType /\ Frame(conn[c], l) /\ l.events = conn[c].events
      /\ l.state = conn[c].state /\ l.nreq + 1 \in Nat
      /\ l.room = conn[c].room /\ l.stalls = conn[c].stalls
  BY ConsumedIs, ConsumedSound
<1> HIDE DEF l
<1>5. k \in ConnType
  BY <1>4 DEF ConnType
<1>6. /\ k.sent = l.sent /\ k.useThreadPool = l.useThreadPool /\ k.working = l.working
      /\ k.nreq = l.nreq + 1 /\ k.inMap = l.inMap /\ k.peer = l.peer
      /\ k.events = l.events /\ k.state = l.state /\ k.room = l.room /\ k.stalls = l.stalls
  BY <1>4 DEF ConnType
<1> HIDE DEF k
<1>7. s \in Situation /\ s.k = k /\ s.q = tasks
  BY <1>5, SelfIs
<1> HIDE DEF s
<1>8. w \in {"all", "error"} \/ CanFill(s.k)
  BY <1>3, <1>4, <1>6, <1>7, SelfIs, WriteAnswers DEF CanFill
<1>9. r.id = conn[c].nreq + 1 /\ r.id \in Nat /\ r.keepAlive \in BOOLEAN
  <2>1. r.id = conn[c].nreq + 1 /\ r.keepAlive \in BOOLEAN
    BY DEF Request
  <2>2. l.nreq = conn[c].nreq
    BY <1>4 DEF Frame
  <2> QED BY <1>4, <2>1, <2>2
<1> HIDE DEF r
<1> DEFINE u == a(w)
           m == Sending(k, r.id)
<1>10. u \in Situation /\ Frame(m, u.k) /\ OnlyRemoves(c, tasks, u.q)
  BY <1>7, <1>8, <1>9, AnswerKeeps
<1>11. Update(c, u)
  BY <1>3
<1> HIDE DEF u, a
<1>12. /\ m \in ConnType /\ m.sent = Append(k.sent, r.id)
       /\ m.useThreadPool = k.useThreadPool /\ m.working = k.working /\ m.nreq = k.nreq
       /\ m.inMap = k.inMap /\ m.peer = k.peer /\ m.events = k.events /\ m.state = k.state
  BY <1>5, <1>9, SendingIs
<1> HIDE DEF m
<1>13. Does(c, m.working, m.nreq, m.sent)
  BY <1>1, <1>2, <1>4, <1>6, <1>10, <1>11, <1>12, MembersDo DEF Frame
<1>14. m.working = conn[c].working /\ m.nreq = conn[c].nreq + 1
       /\ m.sent = Append(conn[c].sent, conn[c].nreq + 1)
  BY <1>4, <1>6, <1>9, <1>12 DEF Frame
<1> QED BY <1>1, <1>13, <1>14

(* A worker's answer is put in the buffer of a live connection, and only   *)
(* counted for a dead one.                                                 *)
LEMMA RespDoes ==
  ASSUME ConnInv, Unborn, respTask, conn[Head(funcs).conn].state # "none"
  PROVE  LET c == Head(funcs).conn  id == Head(funcs).id
         IN  /\ Does(c, conn[c].working - 1, conn[c].nreq,
                     IF conn[c].state = "dead" THEN conn[c].sent ELSE Append(conn[c].sent, id))
             /\ c \in Conns /\ id \in Nat /\ Head(funcs).kind = "resp"
             /\ pc = "funcs" /\ funcs # <<>> /\ funcs' = Tail(funcs)
             /\ UNCHANGED <<pool, pc, cur, todo>>
<1> DEFINE t == Head(funcs)
           c == t.conn
           l == conn[c]
           k == [l EXCEPT !.working = @ - 1]
           r == [Self(c) EXCEPT !.k.working = @ - 1]
<1>1. t \in TaskType /\ t.kind = "resp" /\ c \in Conns /\ pc = "funcs"
      /\ funcs # <<>> /\ funcs' = Tail(funcs)
  BY TaskType1 DEF ConnInv, respTask, RunTask
<1>2. PICK w \in IF l.state = "dead" THEN {"none"} ELSE WriteResults(l) :
        Update(c, WorkerAnswer(t, Self(c), w))
  BY DEF respTask
<1>3. UNCHANGED <<pool, pc, cur, todo, channels, stop, stopping>>
  BY DEF respTask
<1>4. t.id \in Nat /\ t.keepAlive \in BOOLEAN
  BY <1>1 DEF TaskType
<1>5. "in" \notin todo[c]
  BY <1>1 DEF ConnInv, ReadsFindAlive
<1> HIDE DEF t
<1>6. l \in ConnType
  BY <1>1, SelfIs
<1>7. k \in ConnType
  <2>1. l.working \in Int /\ l.working - 1 \in Int
    BY <1>6, WorkingIs
  <2> QED BY <1>6, <2>1 DEF ConnType
<1>8. /\ k.sent = l.sent /\ k.useThreadPool = l.useThreadPool /\ k.working = l.working - 1
      /\ k.nreq = l.nreq /\ k.inMap = l.inMap /\ k.peer = l.peer
      /\ k.events = l.events /\ k.state = l.state /\ k.room = l.room /\ k.stalls = l.stalls
  BY <1>6 DEF ConnType
<1>9. r = [Self(c) EXCEPT !.k = k]
  BY DEF Self
<1> HIDE DEF k
<1>10. r \in Situation /\ r.k = k /\ r.q = tasks
  <2> HIDE DEF r
  <2>1. [Self(c) EXCEPT !.k = k] \in Situation /\ [Self(c) EXCEPT !.k = k].k = k
        /\ [Self(c) EXCEPT !.k = k].q = tasks
    BY <1>1, <1>7, SelfIs
  <2> QED BY <1>9, <2>1
<1>11. WorkerAnswer(t, Self(c), w)
         = IF r.k.state = "dead" THEN r
           ELSE checkEmptyReadAfterEof(c, sendHttpOnLoop(c, r, w, t.id, t.keepAlive))
  BY DEF WorkerAnswer
<1> HIDE DEF r
<1>12. CASE l.state = "dead"
  <2>1. Update(c, r)
    BY <1>2, <1>8, <1>10, <1>11, <1>12
  <2>2. conn'[c] = k /\ tasks' = tasks /\ \A d \in Conns \ {c} : conn'[d] = conn[d]
    BY <1>1, <1>10, <2>1 DEF Update, ConnInv, Typed
  <2>3. Does(c, conn[c].working - 1, conn[c].nreq, conn[c].sent)
    BY <1>1, <1>3, <1>5, <1>8, <1>12, <2>2, SelfIs DEF Does
  <2> QED BY <1>1, <1>3, <1>4, <1>12, <2>3 DEF t
<1>13. CASE l.state # "dead"
  <2> DEFINE u == checkEmptyReadAfterEof(c, sendHttpOnLoop(c, r, w, t.id, t.keepAlive))
             m == Sending(k, t.id)
  <2>1. w \in {"all", "error"} \/ CanFill(r.k)
    BY <1>2, <1>6, <1>8, <1>10, <1>13, WriteAnswers DEF CanFill
  <2>2. u \in Situation /\ Frame(m, u.k) /\ OnlyRemoves(c, tasks, u.q)
    BY <1>1, <1>4, <1>10, <2>1, AnswerKeeps
  <2>3. Update(c, u)
    BY <1>2, <1>8, <1>10, <1>11, <1>13
  <2> HIDE DEF u
  <2>4. /\ m \in ConnType /\ m.sent = Append(k.sent, t.id)
        /\ m.useThreadPool = k.useThreadPool /\ m.working = k.working /\ m.nreq = k.nreq
        /\ m.inMap = k.inMap /\ m.peer = k.peer /\ m.events = k.events /\ m.state = k.state
    BY <1>4, <1>7, SendingIs
  <2> HIDE DEF m
  <2>5. l.state # "none"
    BY DEF t
  <2>6. Does(c, m.working, m.nreq, m.sent)
    BY <1>1, <1>3, <1>5, <1>8, <1>13, <2>2, <2>3, <2>4, <2>5, MembersDo
  <2>7. Does(c, conn[c].working - 1, conn[c].nreq, Append(conn[c].sent, t.id))
    BY <1>8, <2>4, <2>6
  <2> QED BY <1>1, <1>3, <1>4, <1>13, <2>7 DEF t
<1> QED BY <1>12, <1>13

-----------------------------------------------------------------------------
(* Queues.                                                                 *)
LEMMA RemovesKind ==
  ASSUME NEW c \in Conns, NEW q, NEW p, OnlyRemoves(c, q, p)
  PROVE  /\ \A i \in DOMAIN p : p[i].kind # "remove" => i \in DOMAIN q /\ p[i] = q[i]
         /\ \A i \in DOMAIN q : i \in DOMAIN p /\ p[i] = q[i]
<1>1. /\ q \in Seq(TaskType) /\ p \in Seq(TaskType) /\ Len(q) <= Len(p)
      /\ \A i \in 1..Len(q) : p[i] = q[i]
      /\ \A i \in 1..Len(p) : i > Len(q) => p[i] = RemoveOf(c)
  BY DEF OnlyRemoves
<1>2. DOMAIN q = 1..Len(q) /\ DOMAIN p = 1..Len(p) /\ Len(q) \in Nat /\ Len(p) \in Nat
  BY <1>1
<1>3. RemoveOf(c).kind = "remove"
  BY RemoveOfType
<1> QED BY <1>1, <1>2, <1>3

(* The items of a queue without its head.                                  *)
LEMMA TailIs ==
  ASSUME NEW q \in Seq(TaskType), q # <<>>
  PROVE  /\ Tail(q) \in Seq(TaskType) /\ DOMAIN Tail(q) = 1..(Len(q) - 1)
         /\ DOMAIN q = 1..Len(q) /\ Len(q) \in Nat /\ Len(q) >= 1 /\ q[1] = Head(q)
         /\ 1 \in DOMAIN q
         /\ \A i \in DOMAIN Tail(q) : /\ i \in Nat /\ i + 1 \in Nat /\ i + 1 > i /\ i + 1 > 1
                                      /\ i + 1 \in DOMAIN q /\ Tail(q)[i] = q[i + 1]
  OBVIOUS

(* The items of a queue with one more task.                                *)
LEMMA AppendIs ==
  ASSUME NEW q \in Seq(TaskType), NEW t \in TaskType
  PROVE  LET p == Append(q, t)
         IN  /\ p \in Seq(TaskType) /\ Len(q) \in Nat /\ DOMAIN q = 1..Len(q)
             /\ DOMAIN p = 1..(Len(q) + 1) /\ p[Len(q) + 1] = t
             /\ Len(q) + 1 \in DOMAIN p /\ Len(q) + 1 \notin DOMAIN q
             /\ \A i \in DOMAIN q : i \in DOMAIN p /\ p[i] = q[i]
             /\ \A i \in DOMAIN p : i \in DOMAIN q \/ i = Len(q) + 1
  OBVIOUS

(* A task that adds is known by its connection.                            *)
LEMMA AddIs ==
  ASSUME NEW t \in TaskType, t.kind = "add"
  PROVE  t = [kind |-> "add", conn |-> t.conn]
  BY DEF TaskType

(* What becomes of a queue that loses its head or gets removals at its end.*)
Shrinks(q, p) ==
  /\ OneAdd(q) => OneAdd(p)
  /\ StopLast(q) => StopLast(p)
  /\ \A i \in DOMAIN p : p[i].kind # "remove" => \E j \in DOMAIN q : p[i] = q[j]

(* A queue that gets removals gains no construction and no stop,           *)
LEMMA RemovesShrink ==
  ASSUME NEW c \in Conns, NEW q, NEW p, OnlyRemoves(c, q, p)
  PROVE  Shrinks(q, p)
<1>1. /\ \A i \in DOMAIN p : p[i].kind # "remove" => i \in DOMAIN q /\ p[i] = q[i]
      /\ \A i \in DOMAIN q : i \in DOMAIN p /\ p[i] = q[i]
  BY RemovesKind
<1>2. OneAdd(q) => OneAdd(p)
  BY <1>1 DEF OneAdd
<1>3. StopLast(q) => StopLast(p)
  BY <1>1 DEF StopLast
<1> QED BY <1>1, <1>2, <1>3 DEF Shrinks

(* nor one that loses its head,                                            *)
LEMMA TailShrinks ==
  ASSUME NEW q \in Seq(TaskType), q # <<>>
  PROVE  Shrinks(q, Tail(q))
<1> DEFINE p == Tail(q)
<1>1. \A i \in DOMAIN p : i \in Nat /\ i + 1 \in DOMAIN q /\ p[i] = q[i + 1]
  BY TailIs
<1> HIDE DEF p
<1>2. OneAdd(q) => OneAdd(p)
  <2> SUFFICES ASSUME OneAdd(q), NEW i \in DOMAIN p, NEW j \in DOMAIN p,
                      p[i].kind = "add", p[i] = p[j]
               PROVE  i = j
    BY DEF OneAdd
  <2>1. i \in Nat /\ j \in Nat /\ i + 1 = j + 1
    BY <1>1 DEF OneAdd
  <2> QED BY <2>1
<1>3. StopLast(q) => StopLast(p)
  <2> SUFFICES ASSUME StopLast(q), NEW i \in DOMAIN p, NEW j \in DOMAIN p,
                      p[i].kind = "stop", i < j
               PROVE  p[j].kind # "add"
    BY DEF StopLast
  <2>1. i \in Nat /\ j \in Nat /\ i + 1 \in DOMAIN q /\ j + 1 \in DOMAIN q /\ i + 1 < j + 1
        /\ p[i] = q[i + 1] /\ p[j] = q[j + 1]
    BY <1>1
  <2> QED BY <2>1 DEF StopLast
<1> QED BY <1>1, <1>2, <1>3 DEF Shrinks, p

(* nor one that is left alone.                                             *)
LEMMA SameShrinks ==
  ASSUME NEW q
  PROVE  Shrinks(q, q)
  BY DEF Shrinks

-----------------------------------------------------------------------------
(* Nothing but a construction makes a connection known, so a step that     *)
(* constructs none and whose queues only shrink keeps the life as it is.   *)
LEMMA LifeKept ==
  ASSUME ConnInv, Life,
         \A d \in Conns :
           /\ conn'[d].state = "none" <=> conn[d].state = "none"
           /\ conn[d].state = "none" => ~conn'[d].inEpoll /\ conn'[d].timer = "none"
           /\ conn'[d].inMap => conn[d].inMap
           /\ conn[d].peer \notin {"none", "absent"} => conn'[d].peer \notin {"none", "absent"}
           /\ conn'[d].peer \in {"none", "absent"} => conn[d].peer \in {"none", "absent"}
           /\ stop /\ conn[d].state = "dead" => conn'[d].state = "dead"
           /\ conn[d].state = "none" => todo'[d] = {},
         Shrinks(tasks, tasks'), Shrinks(funcs, funcs'),
         \A r \in pool' : conn[r.conn].state # "none" /\ r.conn \in Conns,
         pc' = "http" => cur' \in Conns /\ conn[cur'].state # "none",
         stop => pc' \in {"funcs", "done", "killed"},
         tasks' \in Seq(TaskType), funcs' \in Seq(TaskType),
         Phases', UNCHANGED <<stop, stopping>>
  PROVE  Life'
<1>1. Unborn /\ QueueLife /\ StopOrder /\ StoppedIsDead
  BY DEF Life
<1>2. Unborn'
  BY <1>1 DEF Unborn
<1>3. ASSUME NEW t \in TaskType, TaskLife(conn, t) PROVE TaskLife(conn', t)
  <2>1. t.kind \in {"add", "resp"} => t.conn \in Conns
    BY DEF TaskType
  <2> QED BY <1>3, <2>1 DEF TaskLife
<1>4. QueueLife'
  <2>1. tasks \in Seq(TaskType) /\ funcs \in Seq(TaskType)
    BY DEF ConnInv, Typed
  <2>2. OneAdd(tasks') /\ OneAdd(funcs')
    BY <1>1 DEF QueueLife, Shrinks
  <2>3. ASSUME NEW t \in TaskType, t.kind = "remove" PROVE TaskLife(conn', t)
    BY <2>3 DEF TaskLife
  <2>4. ASSUME NEW i \in DOMAIN tasks' PROVE TaskLife(conn', tasks'[i])
    <3>1. tasks'[i] \in TaskType
      BY <2>4
    <3>2. CASE tasks'[i].kind # "remove"
      <4>1. PICK j \in DOMAIN tasks : tasks'[i] = tasks[j]
        BY <2>4, <3>2 DEF Shrinks
      <4>2. TaskLife(conn, tasks[j])
        BY <1>1 DEF QueueLife
      <4> QED BY <1>3, <3>1, <4>1, <4>2
    <3> QED BY <2>3, <3>1, <3>2
  <2>5. ASSUME NEW i \in DOMAIN funcs' PROVE TaskLife(conn', funcs'[i])
    <3>1. funcs'[i] \in TaskType
      BY <2>5
    <3>2. CASE funcs'[i].kind # "remove"
      <4>1. PICK j \in DOMAIN funcs : funcs'[i] = funcs[j]
        BY <2>5, <3>2 DEF Shrinks
      <4>2. TaskLife(conn, funcs[j])
        BY <1>1 DEF QueueLife
      <4> QED BY <1>3, <3>1, <4>1, <4>2
    <3> QED BY <2>3, <3>1, <3>2
  <2>6. ASSUME NEW i \in DOMAIN tasks', NEW j \in DOMAIN funcs',
               tasks'[i].kind = "add", tasks'[i] = funcs'[j]
        PROVE  FALSE
    <3>1. PICK h \in DOMAIN tasks : tasks'[i] = tasks[h]
      BY <2>6 DEF Shrinks
    <3>0. funcs'[j].kind # "remove"
      BY <2>6
    <3>2. PICK g \in DOMAIN funcs : funcs'[j] = funcs[g]
      BY <3>0 DEF Shrinks
    <3>3. tasks[h].kind = "add" /\ tasks[h] = funcs[g]
      BY <2>6, <3>1, <3>2
    <3>4. tasks[h].kind = "add" => tasks[h] # funcs[g]
      BY <1>1 DEF QueueLife
    <3> QED BY <3>3, <3>4
  <2> QED BY <2>2, <2>4, <2>5, <2>6 DEF QueueLife
<1>5. StopOrder'
  <2>1. StopLast(tasks') /\ StopLast(funcs')
    BY <1>1 DEF StopOrder, Shrinks
  <2>2. ASSUME NEW kind \in {"add", "stop"}
        PROVE  /\ Among(kind, tasks') => Among(kind, tasks)
               /\ Among(kind, funcs') => Among(kind, funcs)
    BY DEF Among, Shrinks
  <2>3. stop' = stop /\ stopping' = stopping
    OBVIOUS
  <2> QED BY <1>1, <2>1, <2>2, <2>3 DEF StopOrder
<1>6. StoppedIsDead'
  BY <1>1 DEF StoppedIsDead
<1> QED BY <1>2, <1>4, <1>5, <1>6 DEF Life

(* The life of the connections after a handler.                            *)
LEMMA DoesLife ==
  ASSUME ConnInv, ConnInv', Life, NEW c \in Conns, NEW w, NEW n, NEW s, Does(c, w, n, s),
         \A r \in pool' : r \in pool \/ r.conn = c,
         funcs' = funcs \/ (pc = "funcs" /\ funcs # <<>> /\ funcs' = Tail(funcs)),
         pc' = "http" => cur' = c,
         pc' = pc \/ (pc \in {"pass1", "http"} /\ pc' \in {"pass1", "http"})
  PROVE  Life'
<1>1. Unborn /\ QueueLife /\ StopOrder /\ StoppedIsDead /\ Phases
  BY DEF Life
<1>2. /\ tasks' \in Seq(TaskType) /\ funcs \in Seq(TaskType) /\ funcs' \in Seq(TaskType)
      /\ \A r \in pool : r.conn \in Conns
  BY DEF ConnInv, Typed, WorkType
<1>3. Shrinks(tasks, tasks') /\ Shrinks(funcs, funcs')
  BY <1>2, RemovesShrink, TailShrinks, SameShrinks DEF Does
<1>4. \A r \in pool' : conn[r.conn].state # "none" /\ r.conn \in Conns
  BY <1>1, <1>2 DEF Unborn, Does
<1>5. /\ conn[c].state # "none" /\ conn'[c].state # "none" /\ conn'[c].inMap = conn[c].inMap
      /\ conn'[c].peer = conn[c].peer /\ (conn[c].state = "dead" => conn'[c].state = "dead")
      /\ \A d \in Conns \ {c} : conn'[d] = conn[d]
      /\ \A d \in Conns : todo'[d] \subseteq todo[d]
      /\ UNCHANGED <<channels, stop, stopping>>
  BY DEF Does
<1>6. \A d \in Conns :
           /\ conn'[d].state = "none" <=> conn[d].state = "none"
           /\ conn[d].state = "none" => ~conn'[d].inEpoll /\ conn'[d].timer = "none"
           /\ conn'[d].inMap => conn[d].inMap
           /\ conn[d].peer \notin {"none", "absent"} => conn'[d].peer \notin {"none", "absent"}
           /\ conn'[d].peer \in {"none", "absent"} => conn[d].peer \in {"none", "absent"}
           /\ stop /\ conn[d].state = "dead" => conn'[d].state = "dead"
           /\ conn[d].state = "none" => todo'[d] = {}
  BY <1>1, <1>5 DEF Unborn
<1>7. stop => pc' \in {"funcs", "done", "killed"}
  BY <1>1 DEF StopOrder
<1>8. Phases'
  BY <1>1, <1>5 DEF Phases
<1> QED BY <1>2, <1>3, <1>4, <1>5, <1>6, <1>7, <1>8, LifeKept

(* The peers and the clock, and the loop between two handlers.             *)
LEMMA WakeupIs ==
  ASSUME NEW k \in ConnType, NEW e
  PROVE  LET l == Wakeup(k, e)
         IN  /\ l \in ConnType
             /\ l.useThreadPool = k.useThreadPool /\ l.working = k.working /\ l.nreq = k.nreq
             /\ l.inMap = k.inMap /\ l.sent = k.sent /\ l.peer = k.peer
             /\ l.events = k.events /\ l.state = k.state
             /\ l.inEpoll = k.inEpoll /\ l.timer = k.timer /\ l.readBuffer = k.readBuffer
<1>1. (k.armed \/ (k.inEpoll /\ e \in k.events)) \in BOOLEAN
  OBVIOUS
<1>2. Wakeup(k, e) \in ConnType
  BY <1>1 DEF Wakeup, ConnType
<1>3. LET l == Wakeup(k, e)
      IN  /\ l.useThreadPool = k.useThreadPool /\ l.working = k.working /\ l.nreq = k.nreq
          /\ l.inMap = k.inMap /\ l.sent = k.sent /\ l.peer = k.peer
          /\ l.events = k.events /\ l.state = k.state
          /\ l.inEpoll = k.inEpoll /\ l.timer = k.timer /\ l.readBuffer = k.readBuffer
  BY DEF Wakeup, ConnType
<1> QED BY <1>2, <1>3

(* All that the peers, the clock and epoll_wait change of a connection is  *)
(* its socket, its place on the ready list and the age of its timer.       *)
Outside(k, l) ==
  /\ l.useThreadPool = k.useThreadPool /\ l.working = k.working /\ l.nreq = k.nreq
  /\ l.inMap = k.inMap /\ l.sent = k.sent /\ l.events = k.events /\ l.state = k.state
  /\ l.inEpoll = k.inEpoll /\ l.readBuffer = k.readBuffer
  /\ l.timer = k.timer \/ (k.timer = "fresh" /\ l.timer = "stale")
  /\ l.peer = k.peer \/ (k.peer \in {"open", "fin"} /\ l.peer \in {"fin", "rst"})

(* The peers and the clock change the socket and the timer only.           *)
LEMMA PeerOutside ==
  ASSUME ConnInv, NEW c \in Conns,
         Arrive(c) \/ PeerFin(c) \/ PeerReset(c) \/ PeerReads(c) \/ Expire(c)
  PROVE  /\ \A d \in Conns : Outside(conn[d], conn'[d])
         /\ UNCHANGED <<tasks, funcs, pool, pc, cur, todo, channels, stop, stopping>>
<1> DEFINE k == conn[c]
<1>1. k \in ConnType /\ conn \in [Conns -> ConnType]
  BY SelfIs DEF ConnInv, Typed
<1>2. ASSUME NEW l \in ConnType, Outside(k, l), Peer(c, l)
      PROVE  /\ \A d \in Conns : Outside(conn[d], conn'[d])
             /\ UNCHANGED <<tasks, funcs, pool, pc, cur, todo, channels, stop, stopping>>
  <2>1. conn'[c] = l /\ \A d \in Conns \ {c} : conn'[d] = conn[d]
    BY <1>1, <1>2 DEF Peer
  <2>2. \A d \in Conns : Outside(conn[d], conn[d])
    BY DEF Outside
  <2> QED BY <1>2, <2>1, <2>2 DEF Peer
<1>3. ASSUME NEW l \in ConnType, Outside(k, l), NEW e
      PROVE  Wakeup(l, e) \in ConnType /\ Outside(k, Wakeup(l, e))
  BY <1>3, WakeupIs DEF Outside
<1>4. CASE Arrive(c)
  <2> DEFINE l == [k EXCEPT !.inq = Append(@, Head(k.script)), !.script = Tail(@)]
  <2>1. k.script \in Seq(Piece) /\ k.script # <<>> /\ k.inq \in Seq(Piece)
    BY <1>1, <1>4 DEF Arrive, ConnType
  <2>2. Append(k.inq, Head(k.script)) \in Seq(Piece) /\ Tail(k.script) \in Seq(Piece)
    BY <2>1
  <2>3. l \in ConnType
    BY <1>1, <2>2 DEF ConnType
  <2>4. Outside(k, l)
    BY <1>1 DEF ConnType, Outside
  <2>5. Peer(c, Wakeup(l, "in"))
    BY <1>4 DEF Arrive
  <2> HIDE DEF l
  <2> QED BY <1>2, <1>3, <2>3, <2>4, <2>5
<1>5. CASE PeerFin(c)
  <2> DEFINE l == [k EXCEPT !.peer = "fin"]
  <2>1. Peer(c, Wakeup(l, "in")) /\ k.peer = "open"
    BY <1>5 DEF PeerFin
  <2>2. l \in ConnType
    BY <1>1 DEF ConnType
  <2>3. Outside(k, l)
    BY <1>1, <2>1 DEF ConnType, Outside
  <2> HIDE DEF l
  <2> QED BY <1>2, <1>3, <2>1, <2>2, <2>3
<1>6. CASE PeerReset(c)
  <2> DEFINE b == (k.peer = "open")
             l == [k EXCEPT !.peer = "rst", !.sockErr = b]
  <2>1. Peer(c, Wakeup(Wakeup(l, "in"), "out")) /\ k.peer \in {"open", "fin"}
    BY <1>6 DEF PeerReset
  <2>2. l \in ConnType
    BY <1>1 DEF ConnType
  <2>3. Outside(k, l)
    BY <1>1, <2>1 DEF ConnType, Outside
  <2> HIDE DEF l
  <2>4. Wakeup(l, "in") \in ConnType /\ Outside(k, Wakeup(l, "in"))
    BY <1>3, <2>2, <2>3
  <2>5. /\ Wakeup(Wakeup(l, "in"), "out") \in ConnType
        /\ Outside(k, Wakeup(Wakeup(l, "in"), "out"))
    BY <1>3, <2>4
  <2> QED BY <1>2, <2>1, <2>5
<1>7. CASE PeerReads(c)
  <2> DEFINE l == [k EXCEPT !.room = TRUE]
  <2>1. Peer(c, Wakeup(l, "out"))
    BY <1>7 DEF PeerReads
  <2>2. l \in ConnType
    BY <1>1 DEF ConnType
  <2>3. Outside(k, l)
    BY <1>1 DEF ConnType, Outside
  <2> HIDE DEF l
  <2> QED BY <1>2, <1>3, <2>1, <2>2, <2>3
<1>8. CASE Expire(c)
  <2> DEFINE l == [k EXCEPT !.timer = "stale"]
  <2>1. Peer(c, l) /\ k.timer = "fresh"
    BY <1>8 DEF Expire
  <2>2. l \in ConnType
    BY <1>1 DEF ConnType
  <2>3. Outside(k, l)
    BY <1>1, <2>1 DEF ConnType, Outside
  <2> HIDE DEF l
  <2> QED BY <1>2, <2>1, <2>2, <2>3
<1> QED BY <1>4, <1>5, <1>6, <1>7, <1>8

(* epoll_wait changes the ready list, and reports registered channels.     *)
LEMMA PollOutside ==
  ASSUME ConnInv, Poll
  PROVE  /\ \A d \in Conns : Outside(conn[d], conn'[d])
         /\ \A d \in Conns : todo'[d] # {} => conn[d].inEpoll
         /\ \A d \in Conns : todo'[d] = {} \/ todo'[d] = Reported(conn[d])
         /\ pc = "poll" /\ pc' = "pass1"
         /\ UNCHANGED <<tasks, funcs, pool, stop, stopping>>
<1>1. PICK batch \in Batches :
      /\ conn' = [c \in Conns |-> [conn[c] EXCEPT !.armed = c \in Pending \ batch]]
      /\ todo' = [c \in Conns |-> IF c \in batch THEN Reported(conn[c]) ELSE {}]
      /\ channels' = batch /\ pc' = "pass1" /\ pc = "poll"
      /\ UNCHANGED <<tasks, funcs, pool, stop, stopping>>
  BY DEF Poll
<1>2. batch \subseteq Pending
  BY DEF Batches
<1>3. ASSUME NEW d \in Conns
      PROVE  /\ Outside(conn[d], conn'[d])
             /\ todo'[d] # {} => conn[d].inEpoll
             /\ todo'[d] = {} \/ todo'[d] = Reported(conn[d])
  <2> DEFINE a == d \in Pending \ batch
  <2>1. conn[d] \in ConnType /\ Sound(conn[d])
    BY DEF ConnInv, AllSound, Sound
  <2>2. conn'[d] = [conn[d] EXCEPT !.armed = a]
    BY <1>1
  <2> HIDE DEF a
  <2>3. Outside(conn[d], conn'[d])
    BY <2>1, <2>2 DEF ConnType, Outside
  <2>4. d \in Pending => conn[d].inEpoll
    BY <2>1 DEF Pending, Sound
  <2> QED BY <1>1, <1>2, <2>3, <2>4
<1> QED BY <1>1, <1>3

(* A step from outside keeps the life.                                     *)
LEMMA OutsideLife ==
  ASSUME ConnInv, Life, \A d \in Conns : Outside(conn[d], conn'[d]),
         \A d \in Conns : conn[d].state = "none" => todo'[d] = {},
         UNCHANGED <<tasks, funcs, pool, stop, stopping>>,
         pc' = "http" => pc = "http" /\ cur' = cur,
         stop => pc' \in {"funcs", "done", "killed"}, Phases'
  PROVE  Life'
<1>1. Unborn
  BY DEF Life
<1>2. tasks' \in Seq(TaskType) /\ funcs' \in Seq(TaskType) /\ \A r \in pool : r.conn \in Conns
  BY DEF ConnInv, Typed, WorkType
<1>3. ASSUME NEW d \in Conns
      PROVE  /\ conn'[d].state = "none" <=> conn[d].state = "none"
             /\ conn[d].state = "none" => ~conn'[d].inEpoll /\ conn'[d].timer = "none"
             /\ conn'[d].inMap => conn[d].inMap
             /\ conn[d].peer \notin {"none", "absent"} => conn'[d].peer \notin {"none", "absent"}
             /\ conn'[d].peer \in {"none", "absent"} => conn[d].peer \in {"none", "absent"}
             /\ stop /\ conn[d].state = "dead" => conn'[d].state = "dead"
             /\ conn[d].state = "none" => todo'[d] = {}
  <2>1. Outside(conn[d], conn'[d])
    OBVIOUS
  <2>2. conn[d].state = "none" => ~conn[d].inEpoll /\ conn[d].timer = "none"
    BY <1>1 DEF Unborn
  <2> QED BY <2>1, <2>2 DEF Outside
<1>4. Shrinks(tasks, tasks') /\ Shrinks(funcs, funcs')
  BY SameShrinks
<1>5. \A r \in pool' : conn[r.conn].state # "none" /\ r.conn \in Conns
  BY <1>1, <1>2 DEF Unborn
<1>6. pc' = "http" => cur' \in Conns /\ conn[cur'].state # "none"
  BY <1>1 DEF Unborn
<1> QED BY <1>2, <1>3, <1>4, <1>5, <1>6, LifeKept

(* Poll, the ends of the batch and of the iteration, the end by SIGPIPE,   *)
(* and stuttering.                                                         *)
LEMMA LoopLife ==
  ASSUME ConnInv, Life, Poll \/ EndOfBatch \/ EndOfIteration \/ BrokenPipe \/ UNCHANGED vars
  PROVE  Life'
<1>1. Unborn /\ Phases /\ StopOrder
  BY DEF Life
<1>2. \A d \in Conns : Outside(conn[d], conn[d])
  BY DEF Outside
<1>3. CASE Poll
  <2>1. /\ \A d \in Conns : Outside(conn[d], conn'[d])
        /\ \A d \in Conns : todo'[d] # {} => conn[d].inEpoll
        /\ pc = "poll" /\ pc' = "pass1"
        /\ UNCHANGED <<tasks, funcs, pool, stop, stopping>>
    BY <1>3, PollOutside
  <2>2. \A d \in Conns : conn[d].state = "none" => todo'[d] = {}
    BY <1>1, <2>1 DEF Unborn
  <2>3. ~stop /\ Phases'
    BY <1>1, <2>1 DEF Phases, StopOrder
  <2> QED BY <2>1, <2>2, <2>3, OutsideLife
<1>4. CASE EndOfBatch
  <2>1. /\ UNCHANGED <<conn, tasks, funcs, pool, todo, channels, stop, stopping>>
        /\ pc = "pass1" /\ pc' \in {"timer", "drain"}
    BY <1>4 DEF EndOfBatch
  <2>2. ~stop /\ Phases'
    BY <1>1, <2>1 DEF Phases, StopOrder
  <2>3. \A d \in Conns : conn[d].state = "none" => todo'[d] = {}
    BY <1>1, <2>1 DEF Unborn
  <2> QED BY <1>2, <2>1, <2>2, <2>3, OutsideLife
<1>5. CASE EndOfIteration
  <2>1. /\ UNCHANGED <<conn, tasks, funcs, pool, cur, todo, channels, stop, stopping>>
        /\ pc = "funcs" /\ funcs = <<>> /\ pc' = IF stop THEN "done" ELSE "poll"
    BY <1>5 DEF EndOfIteration
  <2>2. (stop => pc' \in {"funcs", "done", "killed"}) /\ Phases'
    BY <2>1 DEF Phases
  <2>3. \A d \in Conns : conn[d].state = "none" => todo'[d] = {}
    BY <1>1, <2>1 DEF Unborn
  <2> QED BY <1>2, <2>1, <2>2, <2>3, OutsideLife
<1>6. CASE BrokenPipe \/ UNCHANGED vars
  <2>1. /\ UNCHANGED <<conn, tasks, funcs, pool, cur, todo, channels, stop, stopping>>
        /\ pc' \in {"killed", pc}
    BY <1>6 DEF BrokenPipe, vars
  <2>2. (stop => pc' \in {"funcs", "done", "killed"}) /\ Phases'
    BY <1>1, <2>1 DEF Phases, StopOrder
  <2>3. \A d \in Conns : conn[d].state = "none" => todo'[d] = {}
    BY <1>1, <2>1 DEF Unborn
  <2> QED BY <1>2, <2>1, <2>2, <2>3, OutsideLife
<1> QED BY <1>3, <1>4, <1>5, <1>6

(* None of this disturbs the life of a connection.                         *)
LEMMA PeerLife ==
  ASSUME ConnInv, Life, NEW c \in Conns,
         Arrive(c) \/ PeerFin(c) \/ PeerReset(c) \/ PeerReads(c) \/ Expire(c)
  PROVE  Life'
<1>1. /\ \A d \in Conns : Outside(conn[d], conn'[d])
      /\ UNCHANGED <<tasks, funcs, pool, pc, cur, todo, channels, stop, stopping>>
  BY PeerOutside
<1>2. Unborn /\ Phases /\ StopOrder
  BY DEF Life
<1>3. (stop => pc' \in {"funcs", "done", "killed"}) /\ Phases'
  BY <1>1, <1>2 DEF Phases, StopOrder
<1>4. \A d \in Conns : conn[d].state = "none" => todo'[d] = {}
  BY <1>1, <1>2 DEF Unborn
<1> QED BY <1>1, <1>3, <1>4, OutsideLife

(* The loop's copy of the tasks is empty when it is made.                  *)
LEMMA DrainLife ==
  ASSUME ConnInv, Life, Drain
  PROVE  Life'
<1>1. Unborn /\ QueueLife /\ Phases /\ StopOrder /\ StoppedIsDead
  BY DEF Life
<1>2. /\ funcs' = tasks /\ tasks' = <<>> /\ pc' = "funcs" /\ channels' = {}
      /\ UNCHANGED <<conn, pool, cur, todo, stop, stopping>> /\ pc \in {"drain", "timer"}
  BY DEF Drain
<1>3. ~stop
  BY <1>1, <1>2 DEF StopOrder
<1>4. Unborn' /\ Phases' /\ StoppedIsDead'
  BY <1>1, <1>2, <1>3 DEF Unborn, Phases, StoppedIsDead
<1>5. DOMAIN tasks' = {}
  BY <1>2
<1>6. QueueLife'
  <2>1. OneAdd(tasks') /\ OneAdd(funcs')
    BY <1>1, <1>2, <1>5 DEF QueueLife, OneAdd
  <2> QED BY <1>1, <1>2, <1>5, <2>1 DEF QueueLife
<1>7. StopOrder'
  <2>1. StopLast(tasks') /\ ~Among("add", tasks') /\ ~Among("stop", tasks')
    BY <1>5 DEF StopLast, Among
  <2> QED BY <1>1, <1>2, <1>3, <2>1 DEF StopOrder
<1> QED BY <1>4, <1>6, <1>7 DEF Life

(* A removal takes a connection out of the map and changes nothing else.   *)
LEMMA RemoveLife ==
  ASSUME ConnInv, Life, removeTask
  PROVE  /\ Life'
         /\ \A d \in Conns : /\ conn'[d].state = conn[d].state /\ conn'[d].sent = conn[d].sent
                             /\ conn'[d].working = conn[d].working
                             /\ conn'[d].nreq = conn[d].nreq
                             /\ conn'[d].events = conn[d].events
                             /\ conn'[d].useThreadPool = conn[d].useThreadPool
<1> DEFINE c == Head(funcs).conn
           k == [conn[c] EXCEPT !.inMap = FALSE]
<1>1. c \in Conns /\ pc = "funcs" /\ funcs # <<>> /\ funcs' = Tail(funcs)
      /\ funcs' \in Seq(TaskType) /\ funcs \in Seq(TaskType) /\ tasks \in Seq(TaskType)
  BY TaskType1 DEF ConnInv, Typed, removeTask, RunTask
<1>2. /\ conn' = [conn EXCEPT ![c] = k]
      /\ UNCHANGED <<tasks, pool, pc, cur, todo, channels, stop, stopping>>
  BY DEF removeTask
<1> HIDE DEF c
<1>3. conn[c] \in ConnType /\ conn \in [Conns -> ConnType]
  BY <1>1, SelfIs DEF ConnInv, Typed
<1>4. /\ k.state = conn[c].state /\ k.inEpoll = conn[c].inEpoll /\ k.timer = conn[c].timer
      /\ k.peer = conn[c].peer /\ ~k.inMap /\ k.sent = conn[c].sent
      /\ k.working = conn[c].working /\ k.nreq = conn[c].nreq /\ k.events = conn[c].events
      /\ k.useThreadPool = conn[c].useThreadPool
  BY <1>3 DEF ConnType
<1>5. conn'[c] = k /\ \A d \in Conns \ {c} : conn'[d] = conn[d]
  BY <1>1, <1>2, <1>3
<1> HIDE DEF k
<1>6. \A d \in Conns : /\ conn'[d].state = conn[d].state /\ conn'[d].inEpoll = conn[d].inEpoll
                       /\ conn'[d].timer = conn[d].timer /\ conn'[d].peer = conn[d].peer
                       /\ conn'[d].inMap => conn[d].inMap
                       /\ conn'[d].sent = conn[d].sent
                       /\ conn'[d].working = conn[d].working
                       /\ conn'[d].nreq = conn[d].nreq
                       /\ conn'[d].events = conn[d].events
                       /\ conn'[d].useThreadPool = conn[d].useThreadPool
  BY <1>4, <1>5
<1>7. Unborn /\ Phases /\ StopOrder
  BY DEF Life
<1>8. \A d \in Conns :
           /\ conn'[d].state = "none" <=> conn[d].state = "none"
           /\ conn[d].state = "none" => ~conn'[d].inEpoll /\ conn'[d].timer = "none"
           /\ conn'[d].inMap => conn[d].inMap
           /\ conn[d].peer \notin {"none", "absent"} => conn'[d].peer \notin {"none", "absent"}
           /\ conn'[d].peer \in {"none", "absent"} => conn[d].peer \in {"none", "absent"}
           /\ stop /\ conn[d].state = "dead" => conn'[d].state = "dead"
           /\ conn[d].state = "none" => todo'[d] = {}
  BY <1>2, <1>6, <1>7 DEF Unborn
<1>9. Shrinks(tasks, tasks') /\ Shrinks(funcs, funcs')
  BY <1>1, <1>2, TailShrinks, SameShrinks
<1>10. \A r \in pool' : conn[r.conn].state # "none" /\ r.conn \in Conns
  BY <1>2, <1>7 DEF Unborn, ConnInv, Typed, WorkType
<1>11. Phases' /\ (stop => pc' \in {"funcs", "done", "killed"}) /\ pc' # "http"
  BY <1>1, <1>2, <1>7 DEF Phases
<1>12. Life'
  BY <1>1, <1>2, <1>8, <1>9, <1>10, <1>11, LifeKept
<1> QED BY <1>6, <1>12

(* A connection is constructed once: the task that does it is the only one.*)
LEMMA AddLife ==
  ASSUME ConnInv, Life, addTask
  PROVE  LET c == Head(funcs).conn
         IN  /\ Life' /\ c \in Conns /\ conn[c].state = "none" /\ conn'[c].inMap
             /\ \A d \in Conns \ {c} : conn'[d] = conn[d]
             /\ conn'[c].state = "connected"
             /\ conn'[c].useThreadPool = conn[c].useThreadPool
             /\ conn'[c].working = conn[c].working /\ conn'[c].nreq = conn[c].nreq
             /\ conn'[c].sent = conn[c].sent
<1> DEFINE c == Head(funcs).conn
           n == [conn[c] EXCEPT !.state = "connected", !.inMap = TRUE]
           r == refreshTimer(n)
           e == [r EXCEPT !.events = @ \cup {"in"}]
           k == enableReading(r)
<1>1. /\ c \in Conns /\ pc = "funcs" /\ funcs # <<>> /\ funcs' = Tail(funcs)
      /\ Head(funcs) \in TaskType /\ Head(funcs).kind = "add"
      /\ funcs' \in Seq(TaskType) /\ funcs \in Seq(TaskType) /\ tasks \in Seq(TaskType)
  BY TaskType1 DEF ConnInv, Typed, addTask, RunTask
<1>2. /\ conn' = [conn EXCEPT ![c] = k]
      /\ UNCHANGED <<tasks, pool, pc, cur, todo, channels, stop, stopping>>
  BY DEF addTask
<1>3. Unborn /\ QueueLife /\ Phases /\ StopOrder
  BY DEF Life
<1>4. 1 \in DOMAIN funcs /\ funcs[1] = Head(funcs)
  BY <1>1, TailIs
<1>5. conn[c].state = "none" /\ conn[c].peer \notin {"none", "absent"} /\ ~stop
  <2>1. TaskLife(conn, funcs[1]) /\ Among("add", funcs)
    BY <1>1, <1>3, <1>4 DEF QueueLife, Among
  <2> QED BY <1>1, <1>3, <1>4, <2>1 DEF TaskLife, StopOrder
<1>6. \A t \in TaskType : t.kind = "add" /\ t.conn = c => t = funcs[1]
  BY <1>1, <1>4, AddIs
<1> HIDE DEF c
<1>7. conn[c] \in ConnType /\ conn \in [Conns -> ConnType]
  BY <1>1, SelfIs DEF ConnInv, Typed
<1>8. k.state = "connected" /\ k.inMap /\ k.peer = conn[c].peer
      /\ k.useThreadPool = conn[c].useThreadPool
      /\ k.working = conn[c].working /\ k.nreq = conn[c].nreq /\ k.sent = conn[c].sent
  <2>1. n \in ConnType /\ n.state = "connected" /\ n.inMap /\ n.peer = conn[c].peer
        /\ n.useThreadPool = conn[c].useThreadPool
        /\ n.working = conn[c].working /\ n.nreq = conn[c].nreq /\ n.sent = conn[c].sent
    BY <1>7 DEF ConnType, ConnState
  <2> HIDE DEF n
  <2>2. r \in ConnType /\ Frame(n, r)
    BY <2>1, FieldsFrame
  <2>3. r.state = n.state
    BY <2>1 DEF refreshTimer, ConnType
  <2> HIDE DEF r
  <2>4. e \in ConnType
    BY <2>2 DEF ConnType, Event
  <2>5. e.state = r.state /\ e.inMap = r.inMap /\ e.peer = r.peer
        /\ e.useThreadPool = r.useThreadPool
        /\ e.working = r.working /\ e.nreq = r.nreq /\ e.sent = r.sent
    BY <2>2 DEF ConnType
  <2>6. k = updateChannel(e)
    BY DEF enableReading
  <2> HIDE DEF e, k
  <2>7. Frame(e, k) /\ k.state = e.state
    BY <2>4, <2>6, UpdateChannelFrame, ChannelTypes
  <2> QED BY <2>1, <2>2, <2>3, <2>5, <2>7 DEF Frame
<1> HIDE DEF k
<1>9. conn'[c] = k /\ \A d \in Conns \ {c} : conn'[d] = conn[d]
  BY <1>1, <1>2, <1>7
<1>10. Unborn'
  BY <1>1, <1>2, <1>3, <1>5, <1>8, <1>9 DEF Unborn, ConnInv, Typed, WorkType
<1>11. ASSUME NEW t \in TaskType, TaskLife(conn, t), t.kind = "add" => t # funcs[1]
       PROVE  TaskLife(conn', t)
  <2>1. t.kind \in {"add", "resp"} => t.conn \in Conns
    BY DEF TaskType
  <2>2. t.kind = "add" => t.conn # c
    BY <1>6, <1>11
  <2>3. t.kind = "resp" /\ t.conn = c => conn'[c].state # "none"
    BY <1>8, <1>9
  <2> QED BY <1>9, <1>11, <2>1, <2>2, <2>3 DEF TaskLife
<1>12. ASSUME NEW i \in DOMAIN tasks' PROVE TaskLife(conn', tasks'[i])
  <2>1. tasks'[i] = tasks[i] /\ i \in DOMAIN tasks
    BY <1>2, <1>12
  <2>2. /\ tasks[i] \in TaskType /\ TaskLife(conn, tasks[i])
        /\ tasks[i].kind = "add" => tasks[i] # funcs[1]
    BY <1>1, <1>3, <1>4, <2>1 DEF QueueLife
  <2>3. TaskLife(conn', tasks[i])
    BY <1>11, <2>2
  <2> QED BY <2>1, <2>3
<1>13. ASSUME NEW i \in DOMAIN funcs' PROVE TaskLife(conn', funcs'[i])
  <2>1. i \in Nat /\ i + 1 > 1 /\ i + 1 \in DOMAIN funcs /\ funcs'[i] = funcs[i + 1]
    BY <1>1, <1>13, TailIs
  <2>2. funcs[i + 1] \in TaskType /\ TaskLife(conn, funcs[i + 1])
    BY <1>1, <1>3, <2>1 DEF QueueLife
  <2>3. funcs[i + 1].kind = "add" => funcs[i + 1] # funcs[1]
    <3>1. OneAdd(funcs)
      BY <1>3 DEF QueueLife
    <3>2. funcs[i + 1].kind = "add" /\ funcs[i + 1] = funcs[1] => i + 1 = 1
      BY <1>4, <2>1, <3>1 DEF OneAdd
    <3> QED BY <2>1, <3>2
  <2>4. TaskLife(conn', funcs[i + 1])
    BY <1>11, <2>2, <2>3
  <2> QED BY <2>1, <2>4
<1>14. Shrinks(funcs, funcs') /\ tasks' = tasks
  BY <1>1, <1>2, TailShrinks
<1>15. QueueLife'
  <2>1. OneAdd(tasks') /\ OneAdd(funcs')
    BY <1>3, <1>14 DEF QueueLife, Shrinks
  <2>2. ASSUME NEW i \in DOMAIN tasks', NEW j \in DOMAIN funcs', tasks'[i].kind = "add"
        PROVE  tasks'[i] # funcs'[j]
    <3>1. j + 1 \in DOMAIN funcs /\ funcs'[j] = funcs[j + 1]
      BY <1>1, <2>2, TailIs
    <3>2. tasks[i].kind = "add" => tasks[i] # funcs[j + 1]
      BY <1>3, <1>14, <2>2, <3>1 DEF QueueLife
    <3> QED BY <1>14, <2>2, <3>1, <3>2
  <2> QED BY <1>12, <1>13, <2>1, <2>2 DEF QueueLife
<1>16. StopOrder'
  <2>1. StopLast(funcs') /\ (Among("stop", funcs') => Among("stop", funcs))
    BY <1>3, <1>14 DEF StopOrder, Shrinks, Among
  <2> QED BY <1>2, <1>3, <1>5, <1>14, <2>1 DEF StopOrder
<1>17. Phases' /\ StoppedIsDead'
  BY <1>1, <1>2, <1>3, <1>5 DEF Phases, StoppedIsDead
<1>18. Life'
  BY <1>10, <1>15, <1>16, <1>17 DEF Life
<1> QED BY <1>1, <1>5, <1>8, <1>9, <1>18 DEF c

(* Behind the stop task no construction is left: what the map holds then   *)
(* is all there will ever be.                                              *)
LEMMA StopLife ==
  ASSUME ConnInv, Life, stopTask
  PROVE  /\ Life' /\ stop'
         /\ \A d \in Conns : /\ conn[d].state = "dead" => conn'[d].state = "dead"
                             /\ conn'[d].sent = conn[d].sent
                             /\ conn'[d].inMap = conn[d].inMap
                             /\ Frame(conn[d], conn'[d])
<1>1. /\ pc = "funcs" /\ funcs # <<>> /\ funcs' = Tail(funcs) /\ Head(funcs).kind = "stop"
      /\ funcs' \in Seq(TaskType) /\ funcs \in Seq(TaskType) /\ tasks \in Seq(TaskType)
  BY TaskType1 DEF ConnInv, Typed, stopTask, RunTask
<1>2. /\ conn' = [c \in Conns |-> IF conn[c].inMap THEN stopConnection(conn[c]) ELSE conn[c]]
      /\ stop' /\ UNCHANGED <<tasks, pool, pc, cur, todo, channels, stopping>>
  BY DEF stopTask
<1>3. Unborn /\ QueueLife /\ Phases /\ StopOrder
  BY DEF Life
<1>4. ASSUME NEW d \in Conns
      PROVE  /\ conn[d].state = "none" => conn'[d] = conn[d]
             /\ conn'[d].state = "none" => conn[d].state = "none"
             /\ conn[d].inMap => conn'[d].state = "dead"
             /\ conn'[d].inMap = conn[d].inMap /\ conn'[d].peer = conn[d].peer
             /\ conn'[d].sent = conn[d].sent
             /\ conn[d].state = "dead" => conn'[d].state = "dead"
             /\ Frame(conn[d], conn'[d])
  <2>1. conn[d] \in ConnType
    BY SelfIs
  <2>2. Killed(conn[d]).state = "dead" /\ Frame(conn[d], Killed(conn[d]))
    BY <2>1, KilledSound, FieldsFrame
  <2>3. stopConnection(conn[d]) = IF conn[d].state = "dead" THEN conn[d] ELSE Killed(conn[d])
    BY DEF stopConnection, Killed
  <2>4. conn'[d] = IF conn[d].inMap THEN stopConnection(conn[d]) ELSE conn[d]
    BY <1>2
  <2>5. conn[d].inMap => conn[d].state # "none"
    BY <1>3 DEF Unborn
  <2> QED BY <2>2, <2>3, <2>4, <2>5 DEF Frame
<1>5. Unborn'
  BY <1>2, <1>3, <1>4 DEF Unborn, ConnInv, Typed, WorkType
<1>6. ASSUME NEW t \in TaskType, TaskLife(conn, t)
      PROVE  TaskLife(conn', t)
  <2>1. t.kind \in {"add", "resp"} => t.conn \in Conns
    BY DEF TaskType
  <2> QED BY <1>4, <1>6, <2>1 DEF TaskLife
<1>7. Shrinks(funcs, funcs') /\ tasks' = tasks
  BY <1>1, <1>2, TailShrinks
<1>8. \A i \in DOMAIN funcs' : /\ i + 1 \in DOMAIN funcs /\ funcs'[i] = funcs[i + 1]
                               /\ i \in Nat /\ 1 < i + 1
  BY <1>1, TailIs
<1>9. QueueLife'
  <2>1. OneAdd(tasks') /\ OneAdd(funcs')
    BY <1>3, <1>7 DEF QueueLife, Shrinks
  <2>2. \A i \in DOMAIN tasks' : TaskLife(conn', tasks'[i])
    BY <1>1, <1>3, <1>6, <1>7 DEF QueueLife
  <2>3. ASSUME NEW i \in DOMAIN funcs' PROVE TaskLife(conn', funcs'[i])
    <3>1. TaskLife(conn, funcs[i + 1]) /\ funcs[i + 1] \in TaskType
      BY <1>1, <1>3, <1>8, <2>3 DEF QueueLife
    <3>2. TaskLife(conn', funcs[i + 1])
      BY <1>6, <3>1
    <3> QED BY <1>8, <2>3, <3>2
  <2>4. ASSUME NEW i \in DOMAIN tasks', NEW j \in DOMAIN funcs', tasks'[i].kind = "add"
        PROVE  tasks'[i] # funcs'[j]
    <3>1. j + 1 \in DOMAIN funcs /\ funcs'[j] = funcs[j + 1]
      BY <1>8, <2>4
    <3>2. tasks[i].kind = "add" => tasks[i] # funcs[j + 1]
      BY <1>3, <1>7, <2>4, <3>1 DEF QueueLife
    <3> QED BY <1>7, <2>4, <3>1, <3>2
  <2> QED BY <2>1, <2>2, <2>3, <2>4 DEF QueueLife
<1>10. StopOrder'
  <2>1. 1 \in DOMAIN funcs /\ funcs[1].kind = "stop"
    BY <1>1, TailIs
  <2>2. Among("stop", funcs)
    BY <2>1 DEF Among
  <2>3. ~Among("add", funcs')
    BY <1>3, <1>8, <2>1 DEF StopOrder, StopLast, Among
  <2>4. ~Among("add", tasks') /\ stopping'
    BY <1>2, <1>3, <1>7, <2>2 DEF StopOrder
  <2>5. StopLast(tasks') /\ StopLast(funcs')
    BY <1>3, <1>7 DEF StopOrder, Shrinks
  <2> QED BY <1>1, <1>2, <2>3, <2>4, <2>5 DEF StopOrder
<1>11. Phases' /\ StoppedIsDead'
  BY <1>1, <1>2, <1>3, <1>4 DEF Phases, StoppedIsDead
<1>12. Life'
  BY <1>5, <1>9, <1>10, <1>11 DEF Life
<1> QED BY <1>2, <1>4, <1>12

(* The main thread hands over a socket it has accepted, and asks for the   *)
(* stop after that.                                                        *)
LEMMA AddConnectionLife ==
  ASSUME ConnInv, Life, NEW c \in Conns, addConnection(c)
  PROVE  /\ Life' /\ tasks' = Append(tasks, [kind |-> "add", conn |-> c])
         /\ \A d \in Conns : /\ conn'[d].state = conn[d].state /\ conn'[d].sent = conn[d].sent
                             /\ conn'[d].working = conn[d].working
                             /\ conn'[d].nreq = conn[d].nreq
                             /\ conn'[d].events = conn[d].events
                             /\ conn'[d].inMap = conn[d].inMap
                             /\ conn'[d].useThreadPool = conn[d].useThreadPool
<1> DEFINE t == [kind |-> "add", conn |-> c]
           k == [conn[c] EXCEPT !.peer = "open"]
<1>1. /\ conn[c].peer = "none" /\ ~stopping /\ tasks' = enqueueTask(tasks, t)
      /\ conn' = [conn EXCEPT ![c] = k]
      /\ UNCHANGED <<funcs, pool, pc, cur, todo, channels, stop, stopping>>
  BY DEF addConnection
<1>2. Unborn /\ QueueLife /\ Phases /\ StopOrder /\ StoppedIsDead
  BY DEF Life
<1>3. ~stop /\ ~Among("stop", tasks) /\ ~Among("stop", funcs)
  BY <1>1, <1>2 DEF StopOrder
<1>4. tasks' = Append(tasks, t) /\ t \in TaskType /\ t.kind = "add" /\ t.conn = c
  BY <1>1, <1>3 DEF enqueueTask, TaskType
<1>5. tasks \in Seq(TaskType) /\ funcs \in Seq(TaskType) /\ conn \in [Conns -> ConnType]
      /\ conn[c] \in ConnType
  BY DEF ConnInv, Typed
<1>6. /\ k.state = conn[c].state /\ k.inEpoll = conn[c].inEpoll /\ k.timer = conn[c].timer
      /\ k.peer = "open" /\ k.inMap = conn[c].inMap /\ k.sent = conn[c].sent
      /\ k.working = conn[c].working /\ k.nreq = conn[c].nreq /\ k.events = conn[c].events
      /\ k.useThreadPool = conn[c].useThreadPool
  BY <1>5 DEF ConnType
<1>7. conn'[c] = k /\ \A d \in Conns \ {c} : conn'[d] = conn[d]
  BY <1>1, <1>5
<1> HIDE DEF t, k
<1>8. \A d \in Conns : /\ conn'[d].state = conn[d].state /\ conn'[d].inEpoll = conn[d].inEpoll
                       /\ conn'[d].timer = conn[d].timer /\ conn'[d].inMap = conn[d].inMap
                       /\ conn'[d].sent = conn[d].sent
                       /\ conn'[d].working = conn[d].working
                       /\ conn'[d].nreq = conn[d].nreq
                       /\ conn'[d].events = conn[d].events
                       /\ conn'[d].useThreadPool = conn[d].useThreadPool
                       /\ conn'[d].peer = conn[d].peer \/ (d = c /\ conn'[d].peer = "open")
  BY <1>6, <1>7
<1>9. conn[c].state = "none"
  BY <1>1, <1>2 DEF Unborn
<1>10. Unborn'
  BY <1>1, <1>2, <1>8 DEF Unborn, ConnInv, Typed, WorkType
<1>11. ASSUME NEW u \in TaskType, TaskLife(conn, u)
       PROVE  TaskLife(conn', u) /\ (u.kind = "add" => u # t)
  <2>1. u.kind \in {"add", "resp"} => u.conn \in Conns
    BY DEF TaskType
  <2>2. u.kind = "add" => u.conn # c
    BY <1>1, <1>11 DEF TaskLife
  <2> QED BY <1>4, <1>8, <1>11, <2>1, <2>2 DEF TaskLife
<1>12. TaskLife(conn', t)
  BY <1>4, <1>6, <1>7, <1>9 DEF TaskLife
<1>13. /\ Len(tasks) \in Nat /\ DOMAIN tasks = 1..Len(tasks)
       /\ tasks'[Len(tasks) + 1] = t /\ Len(tasks) + 1 \in DOMAIN tasks'
       /\ \A i \in DOMAIN tasks : i \in DOMAIN tasks' /\ tasks'[i] = tasks[i]
       /\ \A i \in DOMAIN tasks' : i \in DOMAIN tasks \/ i = Len(tasks) + 1
  BY <1>4, <1>5, AppendIs
<1>14. ASSUME NEW i \in DOMAIN tasks
       PROVE  TaskLife(conn', tasks[i]) /\ (tasks[i].kind = "add" => tasks[i] # t)
  <2>1. tasks[i] \in TaskType /\ TaskLife(conn, tasks[i])
    BY <1>2, <1>5, <1>14 DEF QueueLife
  <2> QED BY <1>11, <2>1
<1>15. ASSUME NEW i \in DOMAIN funcs
       PROVE  TaskLife(conn', funcs[i]) /\ (funcs[i].kind = "add" => funcs[i] # t)
  <2>1. funcs[i] \in TaskType /\ TaskLife(conn, funcs[i])
    BY <1>2, <1>5, <1>15 DEF QueueLife
  <2> QED BY <1>11, <2>1
<1>16. QueueLife'
  <2>1. OneAdd(tasks')
    <3> SUFFICES ASSUME NEW i \in DOMAIN tasks', NEW j \in DOMAIN tasks',
                        tasks'[i].kind = "add", tasks'[i] = tasks'[j]
                 PROVE  i = j
      BY DEF OneAdd
    <3>1. OneAdd(tasks)
      BY <1>2 DEF QueueLife
    <3>2. CASE i \in DOMAIN tasks /\ j \in DOMAIN tasks
      <4>1. tasks[i].kind = "add" /\ tasks[i] = tasks[j]
        BY <1>13, <3>2
      <4> QED BY <3>1, <3>2, <4>1 DEF OneAdd
    <3>3. CASE i \in DOMAIN tasks /\ j = Len(tasks) + 1
      BY <1>13, <1>14, <3>3
    <3>4. CASE j \in DOMAIN tasks /\ i = Len(tasks) + 1
      BY <1>13, <1>14, <3>4
    <3> QED BY <1>13, <3>2, <3>3, <3>4
  <2>2. \A i \in DOMAIN tasks' : TaskLife(conn', tasks'[i])
    BY <1>12, <1>13, <1>14
  <2>3. OneAdd(funcs') /\ \A i \in DOMAIN funcs' : TaskLife(conn', funcs'[i])
    BY <1>1, <1>2, <1>15 DEF QueueLife
  <2>4. ASSUME NEW i \in DOMAIN tasks', NEW j \in DOMAIN funcs', tasks'[i].kind = "add"
        PROVE  tasks'[i] # funcs'[j]
    <3>1. j \in DOMAIN funcs /\ funcs'[j] = funcs[j]
      BY <1>1, <2>4
    <3>2. CASE i \in DOMAIN tasks
      <4>1. tasks[i].kind = "add" => tasks[i] # funcs[j]
        BY <1>2, <3>1, <3>2 DEF QueueLife
      <4> QED BY <1>13, <2>4, <3>1, <3>2, <4>1
    <3>3. CASE i = Len(tasks) + 1
      BY <1>4, <1>13, <1>15, <3>1, <3>3
    <3> QED BY <1>13, <3>2, <3>3
  <2> QED BY <2>1, <2>2, <2>3, <2>4 DEF QueueLife
<1>17. StopOrder'
  <2>1. ~Among("stop", tasks')
    BY <1>3, <1>4, <1>13 DEF Among
  <2>2. StopLast(tasks')
    BY <2>1 DEF StopLast, Among
  <2> QED BY <1>1, <1>2, <1>3, <2>1, <2>2 DEF StopOrder
<1>18. Phases' /\ StoppedIsDead'
  BY <1>1, <1>2, <1>3 DEF Phases, StoppedIsDead
<1>19. Life'
  BY <1>10, <1>16, <1>17, <1>18 DEF Life
<1> QED BY <1>4, <1>8, <1>19 DEF t

(* A task that constructs nothing goes to the end of the queue.            *)
LEMMA PostLife ==
  ASSUME ConnInv, Life, NEW t \in TaskType, tasks' = Append(tasks, t),
         t.kind # "add", TaskLife(conn, t), ~stop,
         pool' \subseteq pool, stopping' = (stopping \/ t.kind = "stop"),
         UNCHANGED <<conn, funcs, pc, cur, todo, channels, stop>>
  PROVE  Life'
<1>1. Unborn /\ QueueLife /\ Phases /\ StopOrder /\ StoppedIsDead
  BY DEF Life
<1>2. tasks \in Seq(TaskType)
  BY DEF ConnInv, Typed
<1>3. /\ Len(tasks) \in Nat /\ DOMAIN tasks = 1..Len(tasks)
      /\ tasks'[Len(tasks) + 1] = t /\ Len(tasks) + 1 \in DOMAIN tasks'
      /\ \A i \in DOMAIN tasks : i \in DOMAIN tasks' /\ tasks'[i] = tasks[i]
      /\ \A i \in DOMAIN tasks' : i \in DOMAIN tasks \/ i = Len(tasks) + 1
  BY <1>2, AppendIs
<1>4. \A i \in DOMAIN tasks' : tasks'[i].kind = "add" => i \in DOMAIN tasks /\ tasks'[i] = tasks[i]
  BY <1>3
<1>5. Unborn' /\ Phases' /\ StoppedIsDead'
  BY <1>1 DEF Unborn, Phases, StoppedIsDead
<1>6. QueueLife'
  <2>1. OneAdd(tasks')
    BY <1>1, <1>4 DEF QueueLife, OneAdd
  <2>2. \A i \in DOMAIN tasks' : TaskLife(conn, tasks'[i])
    BY <1>1, <1>3 DEF QueueLife
  <2>3. \A i \in DOMAIN tasks', j \in DOMAIN funcs : tasks'[i].kind = "add" => tasks'[i] # funcs[j]
    BY <1>1, <1>4 DEF QueueLife
  <2> QED BY <1>1, <2>1, <2>2, <2>3 DEF QueueLife
<1>7. StopOrder'
  <2>1. StopLast(tasks')
    <3> SUFFICES ASSUME NEW i \in DOMAIN tasks', NEW j \in DOMAIN tasks',
                        tasks'[i].kind = "stop", i < j, tasks'[j].kind = "add"
                 PROVE  FALSE
      BY DEF StopLast
    <3>1. j \in DOMAIN tasks /\ tasks[j].kind = "add"
      BY <1>4
    <3>2. i \in DOMAIN tasks /\ tasks[i].kind = "stop"
      BY <1>3, <3>1
    <3> QED BY <1>1, <3>1, <3>2 DEF StopOrder, StopLast
  <2>2. Among("add", tasks') => Among("add", tasks)
    BY <1>4 DEF Among
  <2>3. Among("stop", tasks') => Among("stop", tasks) \/ t.kind = "stop"
    BY <1>3 DEF Among
  <2> QED BY <1>1, <2>1, <2>2, <2>3 DEF StopOrder
<1> QED BY <1>5, <1>6, <1>7 DEF Life

(* A worker posts its response, and the main thread the stop.              *)
LEMMA WorkerLife ==
  ASSUME ConnInv, Life, NEW r \in pool, buildResponse(r)
  PROVE  Life'
<1> DEFINE t == [kind |-> "resp", conn |-> r.conn, id |-> r.id, keepAlive |-> r.keepAlive]
<1>1. /\ pool' = pool \ {r} /\ tasks' = enqueueTask(tasks, t)
      /\ UNCHANGED <<conn, funcs, pc, cur, todo, channels, stop, stopping>>
  BY DEF buildResponse
<1>2. r \in WorkType /\ conn[r.conn].state # "none"
  BY DEF ConnInv, Typed, Life, Unborn
<1>3. t \in TaskType /\ t.kind = "resp" /\ t.conn = r.conn
  BY <1>2 DEF WorkType, TaskType
<1> HIDE DEF t
<1>4. CASE ~stop
  <2>1. tasks' = Append(tasks, t) /\ TaskLife(conn, t)
    BY <1>1, <1>2, <1>3, <1>4 DEF enqueueTask, TaskLife
  <2>2. stopping' = (stopping \/ t.kind = "stop")
    BY <1>1, <1>3 DEF ConnInv, Typed
  <2> QED BY <1>1, <1>3, <1>4, <2>1, <2>2, PostLife
<1>5. CASE stop
  <2>1. tasks' = tasks
    BY <1>1, <1>5 DEF enqueueTask
  <2>2. Unborn /\ QueueLife /\ Phases /\ StopOrder /\ StoppedIsDead
    BY DEF Life
  <2>3. Unborn' /\ Phases' /\ StoppedIsDead'
    BY <1>1, <2>1, <2>2 DEF Unborn, Phases, StoppedIsDead
  <2>4. QueueLife'
    BY <1>1, <2>1, <2>2 DEF QueueLife
  <2>5. StopOrder'
    BY <1>1, <2>1, <2>2 DEF StopOrder
  <2> QED BY <2>3, <2>4, <2>5 DEF Life
<1> QED BY <1>4, <1>5

(* The stop goes behind everything the main thread has posted.             *)
LEMMA RequestStopLife ==
  ASSUME ConnInv, Life, requestStop
  PROVE  /\ Life' /\ tasks' = Append(tasks, [kind |-> "stop"])
<1> DEFINE t == [kind |-> "stop"]
<1>1. /\ ~stopping /\ stopping' /\ tasks' = enqueueTask(tasks, t)
      /\ UNCHANGED <<conn, funcs, pool, pc, cur, todo, channels, stop>>
  BY DEF requestStop
<1>2. ~stop
  BY <1>1 DEF Life, StopOrder
<1>3. t \in TaskType /\ t.kind = "stop" /\ tasks' = Append(tasks, t)
  BY <1>1, <1>2 DEF TaskType, enqueueTask
<1>4. TaskLife(conn, t)
  BY <1>3 DEF TaskLife
<1> HIDE DEF t
<1>5. stopping' = (stopping \/ t.kind = "stop")
  BY <1>1, <1>3 DEF requestStop
<1>6. Life'
  BY <1>1, <1>2, <1>3, <1>4, <1>5, PostLife
<1> QED BY <1>3, <1>6 DEF t

-----------------------------------------------------------------------------
(* What a step may never do to a connection that is dead, or whose event   *)
(* is in the batch being handled.                                          *)
DeadStays ==
  \A c \in Conns : conn[c].state = "dead"
    => conn'[c].state = "dead" /\ conn'[c].sent = conn[c].sent
BatchStays == \A c \in channels : conn[c].inMap => conn'[c].inMap

(* A handler of c revives nothing and erases nothing.                      *)
LEMMA DoesStays ==
  ASSUME ConnInv, NEW c \in Conns, NEW w, NEW n, NEW s, Does(c, w, n, s)
  PROVE  DeadStays /\ BatchStays
<1>1. channels \subseteq Conns
  BY DEF ConnInv, Typed
<1> QED BY <1>1 DEF Does, DeadStays, BatchStays

(* The invariant is kept by the handlers,                                  *)
LEMMA HandlerLife ==
  ASSUME ConnInv, ConnInv', Life, NEW c \in Conns,
         handleReadCallBack(c) \/ onHttp(c) \/ handleWriteCallBack(c) \/ idleTimeout(c)
  PROVE  Life' /\ DeadStays /\ BatchStays
<1>1. Unborn
  BY DEF Life
<1>2. CASE handleReadCallBack(c)
  BY <1>1, <1>2, ReadDoes, DoesLife, DoesStays
<1>3. CASE handleWriteCallBack(c)
  <2>1. /\ Does(c, conn[c].working, conn[c].nreq, conn[c].sent)
        /\ pc = "pass1" /\ UNCHANGED <<funcs, pool, pc>>
    BY <1>1, <1>3, WriteDoes
  <2> QED BY <2>1, DoesLife, DoesStays
<1>4. CASE idleTimeout(c)
  <2>1. /\ Does(c, conn[c].working, conn[c].nreq, conn[c].sent)
        /\ pc = "timer" /\ UNCHANGED <<funcs, pool, pc, cur>>
    BY <1>1, <1>4, TimeoutDoes
  <2> QED BY <2>1, DoesLife, DoesStays
<1>5. CASE onHttpDead(c) \/ onHttpNeedMore(c) \/ onHttpLineTooLong(c)
  BY <1>1, <1>5, PlainRoundDoes, DoesLife, DoesStays
<1>6. CASE onHttpError(c)
  BY <1>1, <1>6, ErrorDoes, DoesLife, DoesStays
<1>7. CASE onHttpProcess(c)
  <2>1. /\ Does(c, conn[c].working + 1, conn[c].nreq + 1, conn[c].sent)
        /\ pc = "http" /\ cur = c /\ pool' = pool \cup {Request(c)}
        /\ UNCHANGED <<funcs, pc, cur>>
    BY <1>1, <1>7, ProcessDoes
  <2>2. Request(c).conn = c
    BY DEF Request
  <2>3. \A r \in pool' : r \in pool \/ r.conn = c
    BY <2>1, <2>2
  <2> QED BY <2>1, <2>3, DoesLife, DoesStays
<1>8. CASE onHttpInline(c)
  BY <1>1, <1>8, InlineDoes, DoesLife, DoesStays
<1> QED BY <1>2, <1>3, <1>4, <1>5, <1>6, <1>7, <1>8 DEF onHttp

(* The answer that is run next belongs to a connection that was built.     *)
LEMMA RespIsBorn ==
  ASSUME ConnInv, Life, respTask
  PROVE  conn[Head(funcs).conn].state # "none"
<1>1. funcs \in Seq(TaskType) /\ funcs # <<>> /\ Head(funcs).kind = "resp"
  BY DEF ConnInv, Typed, respTask, RunTask
<1>2. 1 \in DOMAIN funcs /\ funcs[1] = Head(funcs)
  BY <1>1, TailIs
<1>3. TaskLife(conn, funcs[1])
  BY <1>2 DEF Life, QueueLife
<1> QED BY <1>1, <1>2, <1>3 DEF TaskLife

(* by the answers that come back,                                          *)
LEMMA RespLife ==
  ASSUME ConnInv, ConnInv', Life, respTask
  PROVE  Life' /\ DeadStays /\ BatchStays
<1> DEFINE c == Head(funcs).conn
           s == IF conn[c].state = "dead" THEN conn[c].sent
                ELSE Append(conn[c].sent, Head(funcs).id)
<1>1. /\ Does(c, conn[c].working - 1, conn[c].nreq, s)
      /\ c \in Conns /\ pc = "funcs" /\ funcs # <<>> /\ funcs' = Tail(funcs)
      /\ UNCHANGED <<pool, pc, cur>>
  <2>1. Unborn /\ conn[Head(funcs).conn].state # "none"
    BY RespIsBorn DEF Life
  <2> QED BY <2>1, RespDoes
<1> HIDE DEF c, s
<1> QED BY <1>1, DoesLife, DoesStays

(* and by every step.                                                      *)
LEMMA LifeNext ==
  ASSUME ConnInv, ConnInv', Life, [Next]_vars
  PROVE  Life' /\ DeadStays /\ BatchStays
<1>1. channels \subseteq Conns /\ Phases
  BY DEF ConnInv, Typed, Life
<1>2. CASE \E c \in Conns :
             handleReadCallBack(c) \/ onHttp(c) \/ handleWriteCallBack(c) \/ idleTimeout(c)
  BY <1>2, HandlerLife
<1>3. CASE respTask
  BY <1>3, RespLife
<1>4. CASE addTask
  <2>1. PICK c \in Conns :
          /\ Life' /\ conn[c].state = "none" /\ conn'[c].inMap
          /\ \A d \in Conns \ {c} : conn'[d] = conn[d]
    BY <1>4, AddLife
  <2> QED BY <1>1, <2>1 DEF DeadStays, BatchStays
<1>5. CASE removeTask
  <2>1. channels = {}
    BY <1>1, <1>5 DEF removeTask, RunTask, Phases
  <2> QED BY <1>5, <2>1, RemoveLife DEF DeadStays, BatchStays
<1>6. CASE stopTask
  BY <1>1, <1>6, StopLife DEF DeadStays, BatchStays
<1>7. CASE Poll \/ EndOfBatch \/ EndOfIteration \/ BrokenPipe \/ UNCHANGED vars
  <2>1. \A d \in Conns : Outside(conn[d], conn[d])
    BY DEF Outside
  <2>2. \A d \in Conns : Outside(conn[d], conn'[d])
    BY <1>7, <2>1, PollOutside DEF EndOfBatch, EndOfIteration, BrokenPipe, vars
  <2> QED BY <1>1, <1>7, <2>2, LoopLife DEF DeadStays, BatchStays, Outside
<1>8. CASE Drain
  BY <1>8, DrainLife DEF DeadStays, BatchStays, Drain
<1>9. CASE Workers
  BY <1>9, WorkerLife DEF DeadStays, BatchStays, Workers, buildResponse
<1>10. CASE requestStop
  BY <1>10, RequestStopLife DEF DeadStays, BatchStays, requestStop
<1>11. ASSUME NEW c \in Conns, addConnection(c)
       PROVE  Life' /\ DeadStays /\ BatchStays
  BY <1>1, <1>11, AddConnectionLife DEF DeadStays, BatchStays
<1>12. ASSUME NEW c \in Conns,
              Arrive(c) \/ PeerFin(c) \/ PeerReset(c) \/ PeerReads(c) \/ Expire(c)
       PROVE  Life' /\ DeadStays /\ BatchStays
  BY <1>1, <1>12, PeerLife, PeerOutside DEF DeadStays, BatchStays, Outside
<1> QED BY <1>2, <1>3, <1>4, <1>5, <1>6, <1>7, <1>8, <1>9, <1>10, <1>11, <1>12
        DEF Next, LoopThread, Environment

(* It holds at the start.                                                  *)
LEMMA LifeInit == Init => Life
<1> SUFFICES ASSUME Init PROVE Life
  OBVIOUS
<1>1. PICK flag \in Modes, load \in Loads : conn = [c \in Conns |-> NewConn(flag, load, c)]
  BY DEF Init
<1>2. /\ tasks = <<>> /\ funcs = <<>> /\ pool = {} /\ pc = "poll"
      /\ todo = [c \in Conns |-> {}] /\ channels = {} /\ stop = FALSE
  BY DEF Init
<1>3. \A c \in Conns : /\ conn[c].state = "none" /\ ~conn[c].inMap /\ ~conn[c].inEpoll
                       /\ conn[c].timer = "none"
  BY <1>1 DEF NewConn
<1>4. Unborn /\ Phases /\ StoppedIsDead
  BY <1>2, <1>3 DEF Unborn, Phases, StoppedIsDead
<1>5. DOMAIN tasks = {} /\ DOMAIN funcs = {}
  BY <1>2
<1>6. QueueLife /\ StopOrder
  BY <1>2, <1>5 DEF QueueLife, OneAdd, StopOrder, StopLast, Among
<1> QED BY <1>4, <1>6 DEF Life

-----------------------------------------------------------------------------
(* StoppedIsDead: after the stop task no connection of the map is alive,   *)
(* since no task that constructs one can come behind the stop (the main    *)
(* reactor is joined first) or be skipped in front of it.                  *)
THEOREM NothingLivesAfterStop == Spec => []StoppedIsDead
<1>1. ConnInv /\ Life /\ [Next]_vars => ConnInv' /\ Life'
  BY ConnInvNext, LifeNext
<1>2. Life => StoppedIsDead
  BY DEF Life
<1> QED BY <1>1, <1>2, ConnInvInit, LifeInit, PTL DEF Spec

(* DeadIsFinal: no late answer, event or task revives a dead connection or *)
(* adds to its write buffer; it rests on each connection being constructed *)
(* once and on answers and callbacks looking at the state first.           *)
THEOREM NoneComesBackToLife == Spec => DeadIsFinal
<1>1. ConnInv /\ Life /\ [Next]_vars => ConnInv' /\ Life' /\ [DeadStays]_vars
  BY ConnInvNext, LifeNext
<1> QED BY <1>1, ConnInvInit, LifeInit, PTL DEF Spec, DeadIsFinal, DeadStays

(* ErasedAfterBatch: a connection of the current batch is not erased from  *)
(* the map before the batch is over, because handlers post the removal and *)
(* tasks run only between batches.                                         *)
THEOREM ErasedOnlyBetweenBatches == Spec => ErasedAfterBatch
<1>1. ConnInv /\ Life /\ [Next]_vars => ConnInv' /\ Life' /\ [BatchStays]_vars
  BY ConnInvNext, LifeNext
<1> QED BY <1>1, ConnInvInit, LifeInit, PTL DEF Spec, ErasedAfterBatch, BatchStays

-----------------------------------------------------------------------------
(* Counting answers in queues.                                             *)
LEMMA RespFinite ==
  ASSUME NEW q \in Seq(TaskType), NEW c
  PROVE  IsFiniteSet(RespIn(q, c)) /\ Cardinality(RespIn(q, c)) \in Nat
<1>1. RespIn(q, c) \in SUBSET (1..Len(q)) /\ Len(q) \in Int
  BY DEF RespIn
<1>2. IsFiniteSet(1..Len(q))
  BY <1>1, FS_Interval
<1>3. IsFiniteSet(RespIn(q, c))
  BY <1>1, <1>2, FS_Subset
<1> QED BY <1>3, FS_CardinalityType

(* Removals are not answers.                                               *)
LEMMA RespRemoves ==
  ASSUME NEW c \in Conns, NEW q, NEW p, OnlyRemoves(c, q, p), NEW d
  PROVE  RespIn(p, d) = RespIn(q, d)
<1>1. /\ \A i \in DOMAIN p : p[i].kind # "remove" => i \in DOMAIN q /\ p[i] = q[i]
      /\ \A i \in DOMAIN q : i \in DOMAIN p /\ p[i] = q[i]
  BY RemovesKind
<1> QED BY <1>1 DEF RespIn

(* An answer more is counted once.                                         *)
LEMMA RespAppend ==
  ASSUME NEW q \in Seq(TaskType), NEW t \in TaskType, NEW c
  PROVE  Cardinality(RespIn(Append(q, t), c))
           = IF t.kind = "resp" /\ t.conn = c THEN Cardinality(RespIn(q, c)) + 1
             ELSE Cardinality(RespIn(q, c))
<1> DEFINE p == Append(q, t)
           m == Len(q) + 1
<1>1. /\ p[m] = t /\ m \in DOMAIN p /\ m \notin DOMAIN q
      /\ \A i \in DOMAIN q : i \in DOMAIN p /\ p[i] = q[i]
      /\ \A i \in DOMAIN p : i \in DOMAIN q \/ i = m
  BY AppendIs
<1> HIDE DEF p, m
<1>2. CASE t.kind = "resp" /\ t.conn = c
  <2>1. RespIn(p, c) = RespIn(q, c) \cup {m}
    BY <1>1, <1>2 DEF RespIn
  <2>2. m \notin RespIn(q, c)
    BY <1>1 DEF RespIn
  <2>3. IsFiniteSet(RespIn(q, c))
    BY RespFinite
  <2>4. Cardinality(RespIn(p, c)) = Cardinality(RespIn(q, c)) + 1
    BY <2>1, <2>2, <2>3, FS_AddElement
  <2> QED BY <1>2, <2>4 DEF p
<1>3. CASE ~(t.kind = "resp" /\ t.conn = c)
  <2>1. RespIn(p, c) = RespIn(q, c)
    BY <1>1, <1>3 DEF RespIn
  <2> QED BY <1>3, <2>1 DEF p
<1> QED BY <1>2, <1>3

(* The same positions, n places further.                                   *)
Shifted(S, n) == {i + n : i \in S}

(* Positions that are shifted are as many.                                 *)
LEMMA ShiftedCount ==
  ASSUME NEW S \in SUBSET Nat, IsFiniteSet(S), NEW n \in Nat
  PROVE  IsFiniteSet(Shifted(S, n)) /\ Cardinality(Shifted(S, n)) = Cardinality(S)
<1> DEFINE T == Shifted(S, n)
           f == [i \in S |-> i + n]
<1>1. \A i \in S : i \in Nat /\ i + n \in T
  BY DEF Shifted
<1>2. f \in [S -> T]
  BY <1>1
<1>3. \A i, j \in S : i + n = j + n => i = j
  BY <1>1
<1>4. f \in Injection(S, T)
  BY <1>2, <1>3 DEF Injection, IsInjective
<1>5. \A y \in T : \E i \in S : y = i + n
  BY DEF Shifted
<1>6. f \in Surjection(S, T)
  BY <1>2, <1>5 DEF Surjection
<1>7. f \in Bijection(S, T)
  BY <1>4, <1>6 DEF Bijection
<1>8. ExistsBijection(S, T)
  BY <1>7 DEF ExistsBijection
<1> QED BY <1>8, FS_Bijection

(* An answer that is run is counted no more.                               *)
LEMMA RespTail ==
  ASSUME NEW q \in Seq(TaskType), q # <<>>, NEW c
  PROVE  Cardinality(RespIn(Tail(q), c))
           = IF Head(q).kind = "resp" /\ Head(q).conn = c THEN Cardinality(RespIn(q, c)) - 1
             ELSE Cardinality(RespIn(q, c))
<1> DEFINE p == Tail(q)
<1>1. /\ p \in Seq(TaskType) /\ DOMAIN p = 1..(Len(q) - 1) /\ DOMAIN q = 1..Len(q)
      /\ Len(q) \in Nat /\ Len(q) >= 1 /\ q[1] = Head(q) /\ 1 \in DOMAIN q
      /\ \A i \in DOMAIN p : i + 1 \in DOMAIN q /\ p[i] = q[i + 1]
  BY TailIs
<1> HIDE DEF p
<1>2. RespIn(q, c) \ {1} = Shifted(RespIn(p, c), 1)
  <2>1. ASSUME NEW j \in RespIn(q, c), j # 1 PROVE j \in Shifted(RespIn(p, c), 1)
    <3>1. j \in 1..Len(q) /\ q[j].kind = "resp" /\ q[j].conn = c
      BY <1>1, <2>1 DEF RespIn
    <3>2. j - 1 \in DOMAIN p /\ (j - 1) + 1 = j
      BY <1>1, <2>1, <3>1
    <3>3. p[j - 1] = q[j]
      BY <1>1, <3>2
    <3>4. j - 1 \in RespIn(p, c)
      BY <3>1, <3>2, <3>3 DEF RespIn
    <3> QED BY <3>2, <3>4 DEF Shifted
  <2>2. ASSUME NEW i \in RespIn(p, c) PROVE i + 1 \in RespIn(q, c) /\ i + 1 # 1
    <3>1. i \in DOMAIN p /\ p[i].kind = "resp" /\ p[i].conn = c
      BY <2>2 DEF RespIn
    <3>2. i + 1 \in DOMAIN q /\ p[i] = q[i + 1] /\ i + 1 # 1
      BY <1>1, <3>1
    <3> QED BY <3>1, <3>2 DEF RespIn
  <2> QED BY <2>1, <2>2 DEF Shifted
<1>3. RespIn(p, c) \in SUBSET Nat
  BY <1>1 DEF RespIn
<1>4. Cardinality(RespIn(p, c)) = Cardinality(RespIn(q, c) \ {1})
  <2>1. IsFiniteSet(RespIn(p, c)) /\ 1 \in Nat
    BY <1>1, RespFinite
  <2>2. Cardinality(Shifted(RespIn(p, c), 1)) = Cardinality(RespIn(p, c))
    BY <1>3, <2>1, ShiftedCount
  <2> QED BY <1>2, <2>2
<1>5. 1 \in RespIn(q, c) <=> Head(q).kind = "resp" /\ Head(q).conn = c
  BY <1>1 DEF RespIn
<1> QED BY <1>4, <1>5, RespFinite, FS_RemoveElement DEF p

(* The answers in both queues are those in either.                         *)
LEMMA RespConcat ==
  ASSUME NEW p \in Seq(TaskType), NEW q \in Seq(TaskType), NEW c
  PROVE  Cardinality(RespIn(p \o q, c)) = Cardinality(RespIn(p, c)) + Cardinality(RespIn(q, c))
<1> DEFINE r == p \o q
           S == RespIn(p, c)
           T == Shifted(RespIn(q, c), Len(p))
<1>1. /\ r \in Seq(TaskType) /\ DOMAIN r = 1..(Len(p) + Len(q)) /\ Len(p) \in Nat /\ Len(q) \in Nat
      /\ DOMAIN p = 1..Len(p) /\ DOMAIN q = 1..Len(q)
      /\ \A i \in DOMAIN p : r[i] = p[i]
      /\ \A i \in DOMAIN q : r[i + Len(p)] = q[i]
  OBVIOUS
<1> HIDE DEF r
<1>2. RespIn(r, c) = S \cup T
  <2>1. ASSUME NEW i \in RespIn(r, c) PROVE i \in S \cup T
    <3>1. i \in DOMAIN r /\ r[i].kind = "resp" /\ r[i].conn = c
      BY <2>1 DEF RespIn
    <3>2. CASE i \in DOMAIN p
      BY <1>1, <3>1, <3>2 DEF RespIn
    <3>3. CASE i \notin DOMAIN p
      <4>1. i - Len(p) \in DOMAIN q /\ (i - Len(p)) + Len(p) = i
        BY <1>1, <3>1, <3>3
      <4>2. q[i - Len(p)] = r[i]
        BY <1>1, <4>1
      <4>3. i - Len(p) \in RespIn(q, c)
        BY <3>1, <4>1, <4>2 DEF RespIn
      <4> QED BY <4>1, <4>3 DEF Shifted
    <3> QED BY <3>2, <3>3
  <2>2. ASSUME NEW i \in RespIn(p, c) PROVE i \in RespIn(r, c)
    BY <1>1, <2>2 DEF RespIn
  <2>3. ASSUME NEW i \in RespIn(q, c) PROVE i + Len(p) \in RespIn(r, c)
    <3>1. i \in DOMAIN q /\ q[i].kind = "resp" /\ q[i].conn = c
      BY <2>3 DEF RespIn
    <3>2. i + Len(p) \in DOMAIN r /\ r[i + Len(p)] = q[i]
      BY <1>1, <3>1
    <3> QED BY <3>1, <3>2 DEF RespIn
  <2> QED BY <2>1, <2>2, <2>3 DEF Shifted
<1>3. S \cap T = {}
  BY <1>1 DEF RespIn, Shifted
<1>4. RespIn(q, c) \in SUBSET Nat
  BY <1>1 DEF RespIn
<1>5. IsFiniteSet(S) /\ IsFiniteSet(T) /\ Cardinality(T) = Cardinality(RespIn(q, c))
      /\ Cardinality(S) \in Nat /\ Cardinality(RespIn(q, c)) \in Nat
  <2>1. /\ IsFiniteSet(RespIn(q, c)) /\ Cardinality(RespIn(q, c)) \in Nat
        /\ IsFiniteSet(S) /\ Cardinality(S) \in Nat
    BY RespFinite
  <2>2. IsFiniteSet(T) /\ Cardinality(T) = Cardinality(RespIn(q, c))
    BY <1>1, <1>4, <2>1, ShiftedCount
  <2> QED BY <2>1, <2>2
<1> HIDE DEF S, T
<1>6. Cardinality(S \cup T) = Cardinality(S) + Cardinality(T)
  <2>1. Cardinality(S \cup T) = Cardinality(S) + Cardinality(T) - Cardinality(S \cap T)
    BY <1>5, FS_Union
  <2>2. Cardinality(S \cap T) = 0
    BY <1>3, FS_EmptySet
  <2> QED BY <1>5, <2>1, <2>2
<1> QED BY <1>2, <1>5, <1>6 DEF r, S

-----------------------------------------------------------------------------
(* The requests of every connection stay counted.                          *)
LEMMA NreqType ==
  ASSUME ConnInv, NEW c \in Conns
  PROVE  conn[c].nreq \in Nat /\ conn[c].working \in Int
<1>1. conn[c] \in ConnType
  BY SelfIs
<1> QED BY <1>1 DEF ConnType

(* A step that hands over no request and runs no answer.                   *)
LEMMA CountsKept ==
  ASSUME ConnInv, ConnInv', Counts, pool' = pool,
         \A d \in Conns : conn'[d].nreq >= conn[d].nreq,
         stop => stop',
         ~stop' => \A d \in Conns :
           /\ conn'[d].working = conn[d].working
           /\ Cardinality(RespIn(tasks', d)) = Cardinality(RespIn(tasks, d))
           /\ Cardinality(RespIn(funcs', d)) = Cardinality(RespIn(funcs, d))
  PROVE  Counts'
<1>1. \A r \in pool : r.conn \in Conns /\ r.id \in Nat
  BY DEF ConnInv, Typed, WorkType
<1>2. ASSUME NEW r \in pool PROVE r.id <= conn'[r.conn].nreq
  <2>1. r.id <= conn[r.conn].nreq
    BY DEF Counts
  <2>2. conn[r.conn].nreq \in Nat /\ conn'[r.conn].nreq >= conn[r.conn].nreq
    BY <1>1, NreqType
  <2>3. conn'[r.conn].nreq \in Nat
    BY <1>1 DEF ConnInv, Typed, ConnType
  <2> QED BY <1>1, <2>1, <2>2, <2>3
<1>3. \A d \in Conns : WithWorker(d)' = WithWorker(d)
  BY DEF WithWorker
<1>4. ASSUME NEW d \in Conns, ~stop'
      PROVE  conn'[d].working = Cardinality(WithWorker(d)')
               + Cardinality(RespIn(tasks', d)) + Cardinality(RespIn(funcs', d))
  BY <1>3, <1>4 DEF Counts
<1> QED BY <1>2, <1>4 DEF Counts

(* A handler that leaves working alone.                                    *)
LEMMA DoesCounts ==
  ASSUME ConnInv, ConnInv', Counts, NEW c \in Conns, NEW n, NEW s,
         Does(c, conn[c].working, n, s), n \in {conn[c].nreq, conn[c].nreq + 1},
         UNCHANGED <<funcs, pool>>
  PROVE  Counts'
<1>1. /\ \A d \in Conns \ {c} : conn'[d] = conn[d]
      /\ conn'[c].working = conn[c].working /\ conn'[c].nreq = n
      /\ OnlyRemoves(c, tasks, tasks') /\ stop' = stop
  BY DEF Does
<1>2. \A d \in Conns : conn[d].nreq \in Nat
  BY NreqType
<1>3. \A d \in Conns : conn'[d].nreq >= conn[d].nreq
  BY <1>1, <1>2
<1>4. \A d \in Conns : RespIn(tasks', d) = RespIn(tasks, d)
  BY <1>1, RespRemoves
<1>5. \A d \in Conns : conn'[d].working = conn[d].working
  BY <1>1
<1> QED BY <1>1, <1>3, <1>4, <1>5, CountsKept

(* working goes up with the request that is handed over,                   *)
LEMMA ProcessCounts ==
  ASSUME ConnInv, ConnInv', Unborn, Counts, NEW c \in Conns, onHttpProcess(c)
  PROVE  Counts'
<1> DEFINE r == Request(c)
           W == WithWorker(c)
<1>1. /\ Does(c, conn[c].working + 1, conn[c].nreq + 1, conn[c].sent)
      /\ pool' = pool \cup {r} /\ UNCHANGED <<tasks, funcs>>
  BY ProcessDoes
<1>2. /\ \A d \in Conns \ {c} : conn'[d] = conn[d]
      /\ conn'[c].working = conn[c].working + 1 /\ conn'[c].nreq = conn[c].nreq + 1
      /\ stop' = stop
  BY <1>1 DEF Does
<1>3. r.conn = c /\ r.id = conn[c].nreq + 1
  BY DEF Request
<1> HIDE DEF r
<1>4. conn[c].nreq \in Nat /\ \A p \in pool : p.conn \in Conns /\ p.id \in Nat
  BY NreqType DEF ConnInv, Typed, WorkType
<1>5. \A p \in pool : p.id <= conn[p.conn].nreq
  BY DEF Counts
<1>6. r \notin pool
  <2>1. r \in pool => conn[c].nreq + 1 <= conn[c].nreq
    BY <1>3, <1>5
  <2> QED BY <1>4, <2>1
<1>7. IsFiniteSet(pool')
  BY <1>1, FS_AddElement DEF Counts
<1>8. ASSUME NEW p \in pool' PROVE p.id <= conn'[p.conn].nreq
  <2>1. CASE p = r
    BY <1>2, <1>3, <1>4, <2>1
  <2>2. CASE p \in pool /\ p.conn = c
    <3>1. p.id <= conn[c].nreq /\ p.id \in Nat
      BY <1>4, <1>5, <2>2
    <3> QED BY <1>2, <1>4, <2>2, <3>1
  <2>3. CASE p \in pool /\ p.conn # c
    BY <1>2, <1>4, <1>5, <2>3
  <2> QED BY <1>1, <1>8, <2>1, <2>2, <2>3
<1>9. ASSUME NEW d \in Conns, ~stop'
      PROVE  conn'[d].working = Cardinality(WithWorker(d)')
               + Cardinality(RespIn(tasks', d)) + Cardinality(RespIn(funcs', d))
  <2>1. conn[d].working = Cardinality(WithWorker(d))
               + Cardinality(RespIn(tasks, d)) + Cardinality(RespIn(funcs, d))
    BY <1>2, <1>9 DEF Counts
  <2>2. CASE d = c
    <3>1. W \subseteq pool /\ r \notin W /\ IsFiniteSet(pool)
      BY <1>6 DEF WithWorker, Counts
    <3>2. IsFiniteSet(W)
      BY <3>1, FS_Subset
    <3>3. WithWorker(c)' = W \cup {r}
      BY <1>1, <1>3 DEF WithWorker
    <3> HIDE DEF W
    <3>4. Cardinality(W \cup {r}) = Cardinality(W) + 1 /\ Cardinality(W) \in Nat
      BY <3>1, <3>2, FS_AddElement, FS_CardinalityType
    <3>5. Cardinality(RespIn(tasks, c)) \in Nat /\ Cardinality(RespIn(funcs, c)) \in Nat
      BY RespFinite DEF ConnInv, Typed
    <3>6. conn[c].working = Cardinality(W) + Cardinality(RespIn(tasks, c))
                              + Cardinality(RespIn(funcs, c))
      BY <2>1, <2>2 DEF W
    <3> QED BY <1>1, <1>2, <2>2, <3>3, <3>4, <3>5, <3>6
  <2>3. CASE d # c
    <3>1. WithWorker(d)' = WithWorker(d)
      BY <1>1, <1>3, <2>3 DEF WithWorker
    <3> QED BY <1>1, <1>2, <2>1, <2>3, <3>1
  <2> QED BY <2>2, <2>3
<1> QED BY <1>7, <1>8, <1>9 DEF Counts

(* and down with the answer that is run.                                   *)
LEMMA RespCounts ==
  ASSUME ConnInv, ConnInv', Life, Counts, respTask
  PROVE  Counts'
<1> DEFINE c == Head(funcs).conn
           s == IF conn[c].state = "dead" THEN conn[c].sent
                ELSE Append(conn[c].sent, Head(funcs).id)
<1>1. /\ Does(c, conn[c].working - 1, conn[c].nreq, s)
      /\ c \in Conns /\ pc = "funcs" /\ funcs # <<>> /\ funcs' = Tail(funcs)
      /\ Head(funcs).kind = "resp" /\ pool' = pool
  <2>1. Unborn /\ conn[Head(funcs).conn].state # "none"
    BY RespIsBorn DEF Life
  <2> QED BY <2>1, RespDoes
<1> HIDE DEF s
<1>2. /\ \A d \in Conns \ {c} : conn'[d] = conn[d]
      /\ conn'[c].working = conn[c].working - 1 /\ conn'[c].nreq = conn[c].nreq
      /\ OnlyRemoves(c, tasks, tasks') /\ stop' = stop
  BY <1>1 DEF Does
<1>3. \A d \in Conns : RespIn(tasks', d) = RespIn(tasks, d)
  BY <1>1, <1>2, RespRemoves
<1>4. \A d \in Conns : Cardinality(RespIn(funcs', d))
          = IF d = c THEN Cardinality(RespIn(funcs, d)) - 1 ELSE Cardinality(RespIn(funcs, d))
  BY <1>1, RespTail DEF ConnInv, Typed
<1>5. \A d \in Conns : WithWorker(d)' = WithWorker(d)
  BY <1>1 DEF WithWorker
<1>6. \A r \in pool : r.id <= conn'[r.conn].nreq
  <2>1. \A r \in pool : r.conn \in Conns /\ r.id <= conn[r.conn].nreq
    BY DEF Counts, ConnInv, Typed, WorkType
  <2> QED BY <1>2, <2>1
<1> HIDE DEF c
<1>7. ASSUME NEW d \in Conns, ~stop'
      PROVE  conn'[d].working = Cardinality(WithWorker(d)')
               + Cardinality(RespIn(tasks', d)) + Cardinality(RespIn(funcs', d))
  <2>1. conn[d].working = Cardinality(WithWorker(d))
               + Cardinality(RespIn(tasks, d)) + Cardinality(RespIn(funcs, d))
    BY <1>2, <1>7 DEF Counts
  <2>2. CASE d = c
    <3>1. Cardinality(RespIn(tasks, c)) \in Nat /\ Cardinality(RespIn(funcs, c)) \in Nat
      BY RespFinite DEF ConnInv, Typed
    <3>2. Cardinality(WithWorker(c)) \in Nat
      <4>1. WithWorker(c) \in SUBSET pool /\ IsFiniteSet(pool)
        BY DEF WithWorker, Counts
      <4> QED BY <4>1, FS_Subset, FS_CardinalityType
    <3> QED BY <1>2, <1>3, <1>4, <1>5, <2>1, <2>2, <3>1, <3>2
  <2>3. CASE d # c
    BY <1>2, <1>3, <1>4, <1>5, <2>1, <2>3
  <2> QED BY <2>2, <2>3
<1> QED BY <1>1, <1>6, <1>7 DEF Counts

(* A worker moves its request from the pool to the queue.                  *)
LEMMA WorkerCounts ==
  ASSUME ConnInv, ConnInv', Counts, NEW r \in pool, buildResponse(r)
  PROVE  Counts'
<1> DEFINE t == [kind |-> "resp", conn |-> r.conn, id |-> r.id, keepAlive |-> r.keepAlive]
           c == r.conn
           W == WithWorker(c)
<1>1. /\ pool' = pool \ {r} /\ tasks' = enqueueTask(tasks, t)
      /\ UNCHANGED <<conn, funcs, stop>>
  BY DEF buildResponse
<1>2. r \in WorkType /\ tasks \in Seq(TaskType)
  BY DEF ConnInv, Typed
<1>3. t \in TaskType /\ t.kind = "resp" /\ t.conn = c /\ c \in Conns
  BY <1>2 DEF WorkType, TaskType
<1> HIDE DEF t, c
<1>4. IsFiniteSet(pool') /\ \A p \in pool' : p.id <= conn'[p.conn].nreq
  BY <1>1, FS_RemoveElement DEF Counts
<1>5. ASSUME NEW d \in Conns, ~stop'
      PROVE  conn'[d].working = Cardinality(WithWorker(d)')
               + Cardinality(RespIn(tasks', d)) + Cardinality(RespIn(funcs', d))
  <2>1. conn[d].working = Cardinality(WithWorker(d))
               + Cardinality(RespIn(tasks, d)) + Cardinality(RespIn(funcs, d))
    BY <1>1, <1>5 DEF Counts
  <2>2. tasks' = Append(tasks, t)
    BY <1>1, <1>5 DEF enqueueTask
  <2>3. CASE d = c
    <3>1. W \in SUBSET pool /\ r \in W /\ IsFiniteSet(pool)
      BY DEF WithWorker, Counts, c
    <3>2. WithWorker(c)' = W \ {r}
      BY <1>1 DEF WithWorker
    <3>3. IsFiniteSet(W)
      BY <3>1, FS_Subset
    <3>4. conn[c].working = Cardinality(W) + Cardinality(RespIn(tasks, c))
                              + Cardinality(RespIn(funcs, c))
      BY <2>1, <2>3
    <3> HIDE DEF W
    <3>5. Cardinality(W \ {r}) = Cardinality(W) - 1 /\ Cardinality(W) \in Nat
      BY <3>1, <3>3, FS_RemoveElement, FS_CardinalityType
    <3>6. Cardinality(RespIn(tasks, c)) \in Nat /\ Cardinality(RespIn(funcs, c)) \in Nat
      BY RespFinite DEF ConnInv, Typed
    <3>7. Cardinality(RespIn(tasks', c)) = Cardinality(RespIn(tasks, c)) + 1
      BY <1>2, <1>3, <2>2, RespAppend
    <3> QED BY <1>1, <2>3, <3>2, <3>4, <3>5, <3>6, <3>7
  <2>4. CASE d # c
    <3>1. WithWorker(d)' = WithWorker(d)
      BY <1>1, <2>4 DEF WithWorker, c
    <3>2. Cardinality(RespIn(tasks', d)) = Cardinality(RespIn(tasks, d))
      BY <1>2, <1>3, <2>2, <2>4, RespAppend
    <3> QED BY <1>1, <2>1, <3>1, <3>2
  <2> QED BY <2>3, <2>4
<1> QED BY <1>4, <1>5 DEF Counts

(* So the handlers keep the count,                                         *)
LEMMA HandlerCounts ==
  ASSUME ConnInv, ConnInv', Life, Counts, NEW c \in Conns,
         handleReadCallBack(c) \/ onHttp(c) \/ handleWriteCallBack(c) \/ idleTimeout(c)
  PROVE  Counts'
<1>1. Unborn
  BY DEF Life
<1>2. CASE handleReadCallBack(c)
  BY <1>1, <1>2, ReadDoes, DoesCounts
<1>3. CASE handleWriteCallBack(c)
  <2>1. Does(c, conn[c].working, conn[c].nreq, conn[c].sent) /\ UNCHANGED <<funcs, pool>>
    BY <1>1, <1>3, WriteDoes
  <2> QED BY <2>1, DoesCounts
<1>4. CASE idleTimeout(c)
  <2>1. Does(c, conn[c].working, conn[c].nreq, conn[c].sent) /\ UNCHANGED <<funcs, pool>>
    BY <1>1, <1>4, TimeoutDoes
  <2> QED BY <2>1, DoesCounts
<1>5. CASE onHttpDead(c) \/ onHttpNeedMore(c) \/ onHttpLineTooLong(c)
  BY <1>1, <1>5, PlainRoundDoes, DoesCounts
<1>6. CASE onHttpError(c)
  BY <1>1, <1>6, ErrorDoes, DoesCounts
<1>7. CASE onHttpProcess(c)
  BY <1>1, <1>7, ProcessCounts
<1>8. CASE onHttpInline(c)
  BY <1>1, <1>8, InlineDoes, DoesCounts
<1> QED BY <1>2, <1>3, <1>4, <1>5, <1>6, <1>7, <1>8 DEF onHttp

(* and every step does.                                                    *)
LEMMA CountsNext ==
  ASSUME ConnInv, ConnInv', Life, Counts, [Next]_vars
  PROVE  Counts'
<1>0. tasks \in Seq(TaskType) /\ funcs \in Seq(TaskType) /\ \A d \in Conns : conn[d].nreq \in Nat
  BY NreqType DEF ConnInv, Typed
<1>1. ASSUME NEW kind, RunTask(kind), kind # "resp"
      PROVE  \A d \in Conns : Cardinality(RespIn(funcs', d)) = Cardinality(RespIn(funcs, d))
  BY <1>0, <1>1, RespTail DEF RunTask
<1>2. CASE \E c \in Conns :
             handleReadCallBack(c) \/ onHttp(c) \/ handleWriteCallBack(c) \/ idleTimeout(c)
  BY <1>2, HandlerCounts
<1>3. CASE respTask
  BY <1>3, RespCounts
<1>4. CASE addTask
  <2>1. PICK c \in Conns :
          /\ \A d \in Conns \ {c} : conn'[d] = conn[d]
          /\ conn'[c].working = conn[c].working /\ conn'[c].nreq = conn[c].nreq
    BY <1>4, AddLife
  <2>2. \A d \in Conns : conn'[d].working = conn[d].working /\ conn'[d].nreq >= conn[d].nreq
    BY <1>0, <2>1
  <2>3. UNCHANGED <<tasks, pool, stop>> /\ RunTask("add")
    BY <1>4 DEF addTask
  <2> QED BY <1>1, <2>2, <2>3, CountsKept
<1>5. CASE removeTask
  <2>1. \A d \in Conns : conn'[d].working = conn[d].working /\ conn'[d].nreq = conn[d].nreq
    BY <1>5, RemoveLife
  <2>2. \A d \in Conns : conn'[d].nreq >= conn[d].nreq
    BY <1>0, <2>1
  <2>3. UNCHANGED <<tasks, pool, stop>> /\ RunTask("remove")
    BY <1>5 DEF removeTask
  <2> QED BY <1>1, <2>1, <2>2, <2>3, CountsKept
<1>6. CASE stopTask
  <2>1. stop' /\ \A d \in Conns : Frame(conn[d], conn'[d])
    BY <1>6, StopLife
  <2>2. \A d \in Conns : conn'[d].nreq >= conn[d].nreq
    BY <1>0, <2>1 DEF Frame
  <2>3. pool' = pool
    BY <1>6 DEF stopTask
  <2> QED BY <2>1, <2>2, <2>3, CountsKept
<1>7. ASSUME \A d \in Conns : Outside(conn[d], conn'[d]), UNCHANGED <<tasks, funcs, pool, stop>>
      PROVE  Counts'
  <2>1. \A d \in Conns : conn'[d].working = conn[d].working /\ conn'[d].nreq >= conn[d].nreq
    BY <1>0, <1>7 DEF Outside
  <2> QED BY <1>7, <2>1, CountsKept
<1>8. CASE Poll \/ EndOfBatch \/ EndOfIteration \/ BrokenPipe \/ UNCHANGED vars
  <2>1. \A d \in Conns : Outside(conn[d], conn[d])
    BY DEF Outside
  <2>2. \A d \in Conns : Outside(conn[d], conn'[d])
    BY <1>8, <2>1, PollOutside DEF EndOfBatch, EndOfIteration, BrokenPipe, vars
  <2>3. UNCHANGED <<tasks, funcs, pool, stop>>
    BY <1>8 DEF Poll, EndOfBatch, EndOfIteration, BrokenPipe, vars
  <2> QED BY <1>7, <2>2, <2>3
<1>9. CASE Drain
  <2>1. funcs = <<>> /\ funcs' = tasks /\ tasks' = <<>> /\ UNCHANGED <<conn, pool, stop>>
    BY <1>9 DEF Drain, Life, Phases
  <2>2. \A d : RespIn(funcs, d) = {} /\ RespIn(tasks', d) = {}
    BY <2>1 DEF RespIn
  <2>3. \A d \in Conns : Cardinality(RespIn(tasks, d)) \in Nat
    BY <1>0, RespFinite
  <2>4. \A d \in Conns : WithWorker(d)' = WithWorker(d)
    BY <2>1 DEF WithWorker
  <2>5. ASSUME NEW d \in Conns, ~stop'
        PROVE  conn'[d].working = Cardinality(WithWorker(d)')
                 + Cardinality(RespIn(tasks', d)) + Cardinality(RespIn(funcs', d))
    <3>1. conn[d].working = Cardinality(WithWorker(d))
                 + Cardinality(RespIn(tasks, d)) + Cardinality(RespIn(funcs, d))
      BY <2>1, <2>5 DEF Counts
    <3>2. Cardinality(WithWorker(d)) \in Nat
      <4>1. WithWorker(d) \in SUBSET pool /\ IsFiniteSet(pool)
        BY DEF WithWorker, Counts
      <4> QED BY <4>1, FS_Subset, FS_CardinalityType
    <3>3. Cardinality(RespIn(funcs, d)) = 0 /\ Cardinality(RespIn(tasks', d)) = 0
      BY <2>2, FS_EmptySet
    <3> QED BY <2>1, <2>3, <2>4, <3>1, <3>2, <3>3
  <2> QED BY <2>1, <2>5 DEF Counts
<1>10. CASE Workers
  BY <1>10, WorkerCounts DEF Workers
<1>11. CASE requestStop
  <2>1. tasks' = Append(tasks, [kind |-> "stop"]) /\ UNCHANGED <<conn, funcs, pool, stop>>
    BY <1>11, RequestStopLife DEF requestStop
  <2>2. [kind |-> "stop"] \in TaskType /\ [kind |-> "stop"].kind # "resp"
    BY DEF TaskType
  <2>3. \A d \in Conns : Cardinality(RespIn(tasks', d)) = Cardinality(RespIn(tasks, d))
    BY <1>0, <2>1, <2>2, RespAppend
  <2> QED BY <1>0, <2>1, <2>3, CountsKept
<1>12. ASSUME NEW c \in Conns, addConnection(c)
       PROVE  Counts'
  <2> DEFINE t == [kind |-> "add", conn |-> c]
  <2>1. /\ tasks' = Append(tasks, t)
        /\ \A d \in Conns : conn'[d].working = conn[d].working /\ conn'[d].nreq = conn[d].nreq
        /\ UNCHANGED <<funcs, pool, stop>>
    BY <1>12, AddConnectionLife DEF addConnection
  <2>2. t \in TaskType /\ t.kind # "resp"
    BY DEF TaskType
  <2> HIDE DEF t
  <2>3. \A d \in Conns : Cardinality(RespIn(tasks', d)) = Cardinality(RespIn(tasks, d))
    BY <1>0, <2>1, <2>2, RespAppend
  <2>4. \A d \in Conns : conn'[d].nreq >= conn[d].nreq
    BY <1>0, <2>1
  <2> QED BY <2>1, <2>3, <2>4, CountsKept
<1>13. ASSUME NEW c \in Conns,
              Arrive(c) \/ PeerFin(c) \/ PeerReset(c) \/ PeerReads(c) \/ Expire(c)
       PROVE  Counts'
  BY <1>7, <1>13, PeerOutside
<1> QED BY <1>2, <1>3, <1>4, <1>5, <1>6, <1>8, <1>9, <1>10, <1>11, <1>12, <1>13
        DEF Next, LoopThread, Environment

(* At the start there is no work.                                          *)
LEMMA CountsInit == Init => Counts
<1> SUFFICES ASSUME Init PROVE Counts
  OBVIOUS
<1>1. PICK flag \in Modes, load \in Loads : conn = [c \in Conns |-> NewConn(flag, load, c)]
  BY DEF Init
<1>2. tasks = <<>> /\ funcs = <<>> /\ pool = {}
  BY DEF Init
<1>3. \A c \in Conns : conn[c].working = 0
  BY <1>1 DEF NewConn
<1>4. \A c \in Conns : WithWorker(c) = {} /\ RespIn(tasks, c) = {} /\ RespIn(funcs, c) = {}
  BY <1>2 DEF WithWorker, RespIn
<1>5. \A c \in Conns : /\ Cardinality(WithWorker(c)) = 0 /\ Cardinality(RespIn(tasks, c)) = 0
                       /\ Cardinality(RespIn(funcs, c)) = 0
  BY <1>4, FS_EmptySet
<1>6. \A c \in Conns : conn[c].working = Cardinality(WithWorker(c))
          + Cardinality(RespIn(tasks, c)) + Cardinality(RespIn(funcs, c))
  BY <1>3, <1>5
<1> QED BY <1>2, <1>6, FS_EmptySet DEF Counts

(* This is WorkingCounts: its queue is both queues in one.                 *)
LEMMA CountsImply ==
  ASSUME ConnInv, Counts
  PROVE  WorkingCounts
<1> SUFFICES ASSUME ~stop, NEW c \in Conns
             PROVE  conn[c].working = Cardinality(WithWorker(c)) + Cardinality(Responses(c))
  BY DEF WorkingCounts
<1>1. Responses(c) = RespIn(tasks \o funcs, c)
  BY DEF Responses, Posted, Queued, RespIn
<1>2. tasks \in Seq(TaskType) /\ funcs \in Seq(TaskType)
  BY DEF ConnInv, Typed
<1>3. Cardinality(Responses(c)) = Cardinality(RespIn(tasks, c)) + Cardinality(RespIn(funcs, c))
  BY <1>1, <1>2, RespConcat
<1>4. conn[c].working = Cardinality(WithWorker(c))
          + Cardinality(RespIn(tasks, c)) + Cardinality(RespIn(funcs, c))
  BY DEF Counts
<1>5. Cardinality(WithWorker(c)) \in Nat
  <2>1. WithWorker(c) \in SUBSET pool /\ IsFiniteSet(pool)
    BY DEF WithWorker, Counts
  <2> QED BY <2>1, FS_Subset, FS_CardinalityType
<1>6. Cardinality(RespIn(tasks, c)) \in Nat /\ Cardinality(RespIn(funcs, c)) \in Nat
  BY <1>2, RespFinite
<1> QED BY <1>3, <1>4, <1>5, <1>6

(* Work counted is never negative while the loop runs.                     *)
LEMMA WorkingIsNat ==
  ASSUME ConnInv, Counts, ~stop, NEW c \in Conns
  PROVE  conn[c].working \in Nat
<1>1. conn[c].working = Cardinality(WithWorker(c))
          + Cardinality(RespIn(tasks, c)) + Cardinality(RespIn(funcs, c))
  BY DEF Counts
<1>2. Cardinality(WithWorker(c)) \in Nat
  <2>1. WithWorker(c) \in SUBSET pool /\ IsFiniteSet(pool)
    BY DEF WithWorker, Counts
  <2> QED BY <2>1, FS_Subset, FS_CardinalityType
<1>3. Cardinality(RespIn(tasks, c)) \in Nat /\ Cardinality(RespIn(funcs, c)) \in Nat
  <2>1. tasks \in Seq(TaskType) /\ funcs \in Seq(TaskType)
    BY DEF ConnInv, Typed
  <2> QED BY <2>1, RespFinite
<1> QED BY <1>1, <1>2, <1>3

(* The types of Connection's variables; the part that says more than their *)
(* sets is that working, which the EOF and drain checks compare with 0,    *)
(* never falls below it, whatever answers come back in whatever order.     *)
THEOREM TypeCorrect == Spec => []TypeOK
<1>1. ConnInv /\ Life /\ Counts /\ [Next]_vars => ConnInv' /\ Life' /\ Counts'
  BY ConnInvNext, LifeNext, CountsNext
<1>2. ConnInv /\ Counts => TypeOK
  <2> SUFFICES ASSUME ConnInv, Counts PROVE TypeOK
    OBVIOUS
  <2>1. ASSUME ~stop, NEW c \in Conns PROVE conn[c].working >= 0
    <3>1. conn[c].working \in Nat
      BY <2>1, WorkingIsNat
    <3> QED BY <3>1
  <2> QED BY <2>1 DEF ConnInv, TypeOK
<1> QED BY <1>1, <1>2, ConnInvInit, LifeInit, CountsInit, PTL DEF Spec

(* WorkingCounts: for any number of connections and requests, and whatever *)
(* workers, handlers and removals interleave, working is the number of     *)
(* requests with a worker or on their way back.                            *)
THEOREM WorkingIsTheOutstandingWork == Spec => []WorkingCounts
<1>1. ConnInv /\ Life /\ Counts /\ [Next]_vars => ConnInv' /\ Life' /\ Counts'
  BY ConnInvNext, LifeNext, CountsNext
<1>2. ConnInv /\ Counts => WorkingCounts
  BY CountsImply
<1> QED BY <1>1, <1>2, ConnInvInit, LifeInit, CountsInit, PTL DEF Spec

-----------------------------------------------------------------------------
(* The numbers of the answers in a queue.                                  *)
LEMMA IdsRemoves ==
  ASSUME NEW c \in Conns, NEW q, NEW p, OnlyRemoves(c, q, p), NEW d
  PROVE  QueueIds(p, d) = QueueIds(q, d) /\ (OnceInQueue(q, d) => OnceInQueue(p, d))
<1>1. RespIn(p, d) = RespIn(q, d)
  BY RespRemoves
<1>2. \A i \in RespIn(q, d) : p[i] = q[i]
  BY RemovesKind DEF RespIn
<1>3. QueueIds(p, d) = QueueIds(q, d)
  BY <1>1, <1>2 DEF QueueIds
<1> QED BY <1>1, <1>2, <1>3 DEF OnceInQueue

(* A new number in a queue.                                                *)
LEMMA IdsAppend ==
  ASSUME NEW q \in Seq(TaskType), NEW t \in TaskType, t.kind = "resp"
  PROVE  LET c == t.conn  p == Append(q, t)
         IN  /\ QueueIds(p, c) = QueueIds(q, c) \cup {t.id}
             /\ OnceInQueue(q, c) /\ t.id \notin QueueIds(q, c) => OnceInQueue(p, c)
<1> DEFINE p == Append(q, t)
           m == Len(q) + 1
           c == t.conn
<1>1. /\ p[m] = t /\ m \in DOMAIN p /\ m \notin DOMAIN q
      /\ \A i \in DOMAIN q : i \in DOMAIN p /\ p[i] = q[i]
      /\ \A i \in DOMAIN p : i \in DOMAIN q \/ i = m
  BY AppendIs
<1> HIDE DEF p, m
<1>2. RespIn(p, c) = RespIn(q, c) \cup {m}
  BY <1>1 DEF RespIn
<1>3. \A i \in RespIn(q, c) : p[i] = q[i]
  BY <1>1 DEF RespIn
<1>4. QueueIds(p, c) = QueueIds(q, c) \cup {t.id}
  BY <1>1, <1>2, <1>3 DEF QueueIds
<1>5. ASSUME OnceInQueue(q, c), t.id \notin QueueIds(q, c) PROVE OnceInQueue(p, c)
  <2> SUFFICES ASSUME NEW i \in RespIn(p, c), NEW j \in RespIn(p, c), p[i].id = p[j].id
               PROVE  i = j
    BY DEF OnceInQueue
  <2>1. \A h \in RespIn(q, c) : p[h].id \in QueueIds(q, c) /\ p[h].id = q[h].id
    BY <1>3 DEF QueueIds
  <2>2. p[m].id = t.id
    BY <1>1
  <2>3. CASE i \in RespIn(q, c) /\ j \in RespIn(q, c)
    BY <1>5, <2>1, <2>3 DEF OnceInQueue
  <2> QED BY <1>2, <1>5, <2>1, <2>2, <2>3
<1> QED BY <1>4, <1>5 DEF p, c

(* A task that is no answer to c.                                          *)
LEMMA IdsAppendOther ==
  ASSUME NEW q \in Seq(TaskType), NEW t \in TaskType, NEW c, ~(t.kind = "resp" /\ t.conn = c)
  PROVE  /\ QueueIds(Append(q, t), c) = QueueIds(q, c)
         /\ OnceInQueue(q, c) => OnceInQueue(Append(q, t), c)
<1> DEFINE p == Append(q, t)
           m == Len(q) + 1
<1>1. /\ p[m] = t /\ m \in DOMAIN p /\ m \notin DOMAIN q
      /\ \A i \in DOMAIN q : i \in DOMAIN p /\ p[i] = q[i]
      /\ \A i \in DOMAIN p : i \in DOMAIN q \/ i = m
  BY AppendIs
<1> HIDE DEF p, m
<1>2. RespIn(p, c) = RespIn(q, c)
  BY <1>1 DEF RespIn
<1>3. \A i \in RespIn(q, c) : p[i] = q[i]
  BY <1>1 DEF RespIn
<1>4. QueueIds(p, c) = QueueIds(q, c)
  BY <1>2, <1>3 DEF QueueIds
<1>5. OnceInQueue(q, c) => OnceInQueue(p, c)
  BY <1>2, <1>3 DEF OnceInQueue
<1> QED BY <1>4, <1>5 DEF p

(* The number of the answer that is run leaves the queue.                  *)
LEMMA IdsTail ==
  ASSUME NEW q \in Seq(TaskType), q # <<>>, NEW c, OnceInQueue(q, c)
  PROVE  /\ OnceInQueue(Tail(q), c)
         /\ Head(q).kind = "resp" /\ Head(q).conn = c =>
              /\ Head(q).id \in QueueIds(q, c)
              /\ QueueIds(Tail(q), c) = QueueIds(q, c) \ {Head(q).id}
         /\ ~(Head(q).kind = "resp" /\ Head(q).conn = c) =>
              QueueIds(Tail(q), c) = QueueIds(q, c)
<1> DEFINE p == Tail(q)
<1>1. /\ p \in Seq(TaskType) /\ DOMAIN p = 1..(Len(q) - 1) /\ DOMAIN q = 1..Len(q)
      /\ Len(q) \in Nat /\ Len(q) >= 1 /\ q[1] = Head(q) /\ 1 \in DOMAIN q
      /\ \A i \in DOMAIN p : i + 1 \in DOMAIN q /\ p[i] = q[i + 1]
  BY TailIs
<1> HIDE DEF p
<1>2. ASSUME NEW i \in RespIn(p, c)
      PROVE  i \in Nat /\ i + 1 \in RespIn(q, c) /\ i + 1 # 1 /\ p[i] = q[i + 1]
  <2>1. i \in DOMAIN p /\ p[i].kind = "resp" /\ p[i].conn = c
    BY <1>2 DEF RespIn
  <2>2. i + 1 \in DOMAIN q /\ p[i] = q[i + 1] /\ i + 1 # 1 /\ i \in Nat
    BY <1>1, <2>1
  <2> QED BY <2>1, <2>2 DEF RespIn
<1>3. ASSUME NEW j \in RespIn(q, c), j # 1
      PROVE  j - 1 \in RespIn(p, c) /\ p[j - 1] = q[j]
  <2>1. j \in 1..Len(q) /\ q[j].kind = "resp" /\ q[j].conn = c
    BY <1>1, <1>3 DEF RespIn
  <2>2. j - 1 \in DOMAIN p /\ (j - 1) + 1 = j
    BY <1>1, <1>3, <2>1
  <2>3. p[j - 1] = q[j]
    BY <1>1, <2>2
  <2> QED BY <2>1, <2>2, <2>3 DEF RespIn
<1>4. OnceInQueue(p, c)
  <2> SUFFICES ASSUME NEW i \in RespIn(p, c), NEW j \in RespIn(p, c), p[i].id = p[j].id
               PROVE  i = j
    BY DEF OnceInQueue
  <2>1. i + 1 = j + 1 /\ i \in Nat /\ j \in Nat
    BY <1>2 DEF OnceInQueue
  <2> QED BY <2>1
<1>5. 1 \in RespIn(q, c) <=> Head(q).kind = "resp" /\ Head(q).conn = c
  BY <1>1 DEF RespIn
<1>6. \A x \in QueueIds(p, c) : \E j \in RespIn(q, c) : j # 1 /\ q[j].id = x
  BY <1>2 DEF QueueIds
<1>7. \A j \in RespIn(q, c) : j # 1 => q[j].id \in QueueIds(p, c)
  BY <1>3 DEF QueueIds
<1>8. CASE 1 \in RespIn(q, c)
  <2>1. Head(q).id \in QueueIds(q, c)
    BY <1>1, <1>8 DEF QueueIds
  <2>2. \A j \in RespIn(q, c) : q[j].id = Head(q).id <=> j = 1
    BY <1>1, <1>8 DEF OnceInQueue
  <2>3. ASSUME NEW x \in QueueIds(p, c) PROVE x \in QueueIds(q, c) \ {Head(q).id}
    BY <1>6, <2>2, <2>3 DEF QueueIds
  <2>4. ASSUME NEW x \in QueueIds(q, c), x # Head(q).id PROVE x \in QueueIds(p, c)
    <3>1. PICK j \in RespIn(q, c) : x = q[j].id
      BY <2>4 DEF QueueIds
    <3> QED BY <1>7, <2>2, <2>4, <3>1
  <2>5. QueueIds(p, c) = QueueIds(q, c) \ {Head(q).id}
    BY <2>3, <2>4
  <2> QED BY <1>4, <1>5, <1>8, <2>1, <2>5 DEF p
<1>9. CASE 1 \notin RespIn(q, c)
  <2>1. QueueIds(p, c) = QueueIds(q, c)
    BY <1>6, <1>7, <1>9 DEF QueueIds
  <2> QED BY <1>4, <1>5, <1>9, <2>1 DEF p
<1> QED BY <1>8, <1>9

(* The numbers in both queues are those in either.                         *)
LEMMA IdsConcat ==
  ASSUME NEW p \in Seq(TaskType), NEW q \in Seq(TaskType), NEW c
  PROVE  QueueIds(p \o q, c) = QueueIds(p, c) \cup QueueIds(q, c)
<1> DEFINE r == p \o q
<1>1. /\ DOMAIN r = 1..(Len(p) + Len(q)) /\ Len(p) \in Nat /\ Len(q) \in Nat
      /\ DOMAIN p = 1..Len(p) /\ DOMAIN q = 1..Len(q)
      /\ \A i \in DOMAIN p : r[i] = p[i]
      /\ \A i \in DOMAIN q : r[i + Len(p)] = q[i]
  OBVIOUS
<1> HIDE DEF r
<1>2. ASSUME NEW i \in RespIn(r, c) PROVE r[i].id \in QueueIds(p, c) \cup QueueIds(q, c)
  <2>1. i \in DOMAIN r /\ r[i].kind = "resp" /\ r[i].conn = c
    BY <1>2 DEF RespIn
  <2>2. CASE i \in DOMAIN p
    BY <1>1, <2>1, <2>2 DEF RespIn, QueueIds
  <2>3. CASE i \notin DOMAIN p
    <3>1. i - Len(p) \in DOMAIN q /\ (i - Len(p)) + Len(p) = i
      BY <1>1, <2>1, <2>3
    <3>2. q[i - Len(p)] = r[i]
      BY <1>1, <3>1
    <3>3. i - Len(p) \in RespIn(q, c)
      BY <2>1, <3>1, <3>2 DEF RespIn
    <3> QED BY <3>2, <3>3 DEF QueueIds
  <2> QED BY <2>2, <2>3
<1>3. ASSUME NEW i \in RespIn(p, c) PROVE p[i].id \in QueueIds(r, c)
  <2>1. i \in RespIn(r, c) /\ r[i] = p[i]
    BY <1>1, <1>3 DEF RespIn
  <2> QED BY <2>1 DEF QueueIds
<1>4. ASSUME NEW i \in RespIn(q, c) PROVE q[i].id \in QueueIds(r, c)
  <2>1. i \in DOMAIN q /\ q[i].kind = "resp" /\ q[i].conn = c
    BY <1>4 DEF RespIn
  <2>2. i + Len(p) \in DOMAIN r /\ r[i + Len(p)] = q[i]
    BY <1>1, <2>1
  <2>3. i + Len(p) \in RespIn(r, c)
    BY <2>1, <2>2 DEF RespIn
  <2> QED BY <2>2, <2>3 DEF QueueIds
<1>5. \A x \in QueueIds(r, c) : x \in QueueIds(p, c) \cup QueueIds(q, c)
  BY <1>2 DEF QueueIds
<1>6. /\ \A x \in QueueIds(p, c) : x \in QueueIds(r, c)
      /\ \A x \in QueueIds(q, c) : x \in QueueIds(r, c)
  BY <1>3, <1>4 DEF QueueIds
<1> QED BY <1>5, <1>6 DEF r

(* The numbers of the requests with a worker.                              *)
LEMMA PoolAdd ==
  ASSUME NEW p, NEW r, NEW c
  PROVE  /\ r.conn = c => PoolIds(p \cup {r}, c) = PoolIds(p, c) \cup {r.id}
         /\ r.conn = c /\ OnceInPool(p, c) /\ r.id \notin PoolIds(p, c)
              => OnceInPool(p \cup {r}, c)
         /\ r.conn # c => /\ PoolIds(p \cup {r}, c) = PoolIds(p, c)
                          /\ OnceInPool(p, c) => OnceInPool(p \cup {r}, c)
  BY DEF PoolIds, OnceInPool

(* The answers sent, one more each time.                                   *)
LEMMA SentAppend ==
  ASSUME NEW s \in Seq(Nat), NEW x \in Nat
  PROVE  /\ SentIds(Append(s, x)) = SentIds(s) \cup {x}
         /\ \A i, j \in DOMAIN Append(s, x) : i < j =>
              \/ /\ i \in DOMAIN s /\ j \in DOMAIN s
                 /\ Append(s, x)[i] = s[i] /\ Append(s, x)[j] = s[j]
              \/ i \in DOMAIN s /\ Append(s, x)[i] = s[i] /\ Append(s, x)[j] = x
<1> DEFINE p == Append(s, x)
           m == Len(s) + 1
<1>1. /\ DOMAIN p = 1..m /\ DOMAIN s = 1..Len(s) /\ Len(s) \in Nat /\ p[m] = x
      /\ \A i \in DOMAIN s : p[i] = s[i]
  OBVIOUS
<1> HIDE DEF p
<1>2. m \in DOMAIN p /\ \A i \in DOMAIN p : i \in DOMAIN s \/ i = m
  BY <1>1
<1>3. \A i \in DOMAIN s : i \in DOMAIN p
  BY <1>1
<1>4. \A i \in DOMAIN p, j \in DOMAIN p : i < j => i \in DOMAIN s
  BY <1>1
<1> HIDE DEF m
<1>5. SentIds(p) = SentIds(s) \cup {x}
  BY <1>1, <1>2, <1>3 DEF SentIds
<1> QED BY <1>1, <1>2, <1>4, <1>5 DEF p

(* Fewer requests in flight once the connection is dead, the same as long  *)
(* as it is not.                                                           *)
LEMMA AccountedKept ==
  ASSUME NEW w, NEW n, NEW s, NEW f, NEW g, NEW a \in BOOLEAN, NEW b \in BOOLEAN,
         Accounted(w, n, s, f, a), g \subseteq f, b => a /\ g = f
  PROVE  Accounted(w, n, s, g, b)
  BY DEF Accounted

(* A request is parsed and goes to the pool.                               *)
LEMMA AccountedAsk ==
  ASSUME NEW n \in Nat, NEW s, NEW f, NEW a \in BOOLEAN, Accounted(TRUE, n, s, f, a)
  PROVE  Accounted(TRUE, n + 1, s, f \cup {n + 1}, a)
<1>1. 1..(n + 1) = 1..n \cup {n + 1} /\ 0..n \subseteq 0..(n + 1) /\ n + 1 \notin 0..n
      /\ n + 1 # 0
  OBVIOUS
<1> QED BY <1>1 DEF Accounted

(* A worker's answer is sent.                                              *)
LEMMA AccountedSend ==
  ASSUME NEW w \in BOOLEAN, NEW n \in Nat, NEW s \in Seq(Nat), NEW f, NEW id \in f,
         NEW a \in BOOLEAN, NEW b \in BOOLEAN, Accounted(w, n, s, f, a), b => a
  PROVE  Accounted(w, n, Append(s, id), f \ {id}, b) /\ id # 0
<1>1. id \in 1..n /\ id # 0 /\ id \in 0..n /\ id \in Nat /\ w
  BY DEF Accounted
<1>2. /\ SentIds(Append(s, id)) = SentIds(s) \cup {id}
      /\ \A i, j \in DOMAIN Append(s, id) : i < j =>
              \/ /\ i \in DOMAIN s /\ j \in DOMAIN s
                 /\ Append(s, id)[i] = s[i] /\ Append(s, id)[j] = s[j]
              \/ i \in DOMAIN s /\ Append(s, id)[i] = s[i] /\ Append(s, id)[j] = id
  BY <1>1, SentAppend
<1>3. \A i \in DOMAIN s : s[i] \in SentIds(s)
  BY DEF SentIds
<1> DEFINE p == Append(s, id)
<1> HIDE DEF p
<1>4. b => \A i, j \in DOMAIN p : i < j => p[i] # p[j]
  BY <1>2, <1>3 DEF Accounted, p
<1>5. /\ f \ {id} \subseteq 1..n /\ SentIds(p) \subseteq 0..n
      /\ b => /\ 1..n = (SentIds(p) \cup (f \ {id})) \ {0}
              /\ SentIds(p) \cap (f \ {id}) = {}
  BY <1>1, <1>2 DEF Accounted, p
<1> QED BY <1>1, <1>4, <1>5 DEF Accounted, p

(* The 400 is sent, with the pool or without it.                           *)
LEMMA AccountedBad ==
  ASSUME NEW w \in BOOLEAN, NEW n \in Nat, NEW s \in Seq(Nat), NEW f,
         NEW a \in BOOLEAN, NEW b \in BOOLEAN, Accounted(w, n, s, f, a), b => a,
         0 \notin SentIds(s)
  PROVE  Accounted(w, n, Append(s, 0), f, b)
<1> DEFINE p == Append(s, 0)
<1>1. 0 \in 0..n /\ 0 \notin 1..n
  OBVIOUS
<1>2. /\ SentIds(p) = SentIds(s) \cup {0}
      /\ \A i, j \in DOMAIN p : i < j =>
              \/ i \in DOMAIN s /\ j \in DOMAIN s /\ p[i] = s[i] /\ p[j] = s[j]
              \/ i \in DOMAIN s /\ p[i] = s[i] /\ p[j] = 0
  BY SentAppend
<1>3. \A i \in DOMAIN s : s[i] \in SentIds(s) /\ s[i] # 0
  BY DEF SentIds
<1> HIDE DEF p
<1>4. b => \A i, j \in DOMAIN p : i < j => p[i] # p[j] /\ (w \/ InOrder(p[i], p[j]))
  BY <1>2, <1>3 DEF Accounted, InOrder
<1>5. /\ f \subseteq 1..n /\ SentIds(p) \subseteq 0..n /\ (~w => f = {})
      /\ b => 1..n = (SentIds(p) \cup f) \ {0} /\ SentIds(p) \cap f = {}
  BY <1>1, <1>2 DEF Accounted
<1> QED BY <1>4, <1>5 DEF Accounted, p

(* A request is parsed and answered on the spot.                           *)
LEMMA AccountedInline ==
  ASSUME NEW n \in Nat, NEW s \in Seq(Nat), NEW f,
         NEW a \in BOOLEAN, NEW b \in BOOLEAN, Accounted(FALSE, n, s, f, a), b => a,
         0 \notin SentIds(s)
  PROVE  Accounted(FALSE, n + 1, Append(s, n + 1), f, b) /\ 0 \notin SentIds(Append(s, n + 1))
<1> DEFINE m == n + 1
           p == Append(s, m)
<1>1. 1..m = 1..n \cup {m} /\ 0..n \subseteq 0..m /\ m \notin 0..n /\ m # 0 /\ m \in Nat
      /\ \A x \in 0..n : x < m /\ x # m
  OBVIOUS
<1> HIDE DEF m
<1>2. /\ SentIds(p) = SentIds(s) \cup {m}
      /\ \A i, j \in DOMAIN p : i < j =>
              \/ i \in DOMAIN s /\ j \in DOMAIN s /\ p[i] = s[i] /\ p[j] = s[j]
              \/ i \in DOMAIN s /\ p[i] = s[i] /\ p[j] = m
  BY <1>1, SentAppend
<1>3. \A i \in DOMAIN s : s[i] \in 0..n /\ s[i] # 0
  BY DEF SentIds, Accounted
<1> HIDE DEF p
<1>4. b => \A i, j \in DOMAIN p : i < j => p[i] # p[j] /\ InOrder(p[i], p[j])
  BY <1>1, <1>2, <1>3 DEF Accounted, InOrder
<1>5. /\ f = {} /\ SentIds(p) \subseteq 0..m /\ 0 \notin SentIds(p)
      /\ b => 1..m = (SentIds(p) \cup f) \ {0} /\ SentIds(p) \cap f = {}
  <2>1. f = {} /\ SentIds(s) \subseteq 0..n /\ (b => 1..n = SentIds(s) \ {0})
    BY DEF Accounted
  <2>2. m \in 0..m
    BY <1>1
  <2> QED BY <1>1, <1>2, <2>1, <2>2
<1> QED BY <1>4, <1>5 DEF Accounted, p, m

-----------------------------------------------------------------------------
(* The answers of every connection stay accounted for.  First a connection *)
(* none of whose requests moves but those that the stop drops.             *)
LEMMA FineKept ==
  ASSUME NEW d \in Conns, Fine(d), Apart(pool', tasks', funcs', d),
         Flight(pool', tasks', funcs', d) \subseteq Flight(pool, tasks, funcs, d),
         Alive(d)' => Alive(d) /\ Flight(pool', tasks', funcs', d) = Flight(pool, tasks, funcs, d),
         conn'[d].useThreadPool = conn[d].useThreadPool, conn'[d].nreq = conn[d].nreq,
         conn'[d].sent = conn[d].sent, conn'[d].state = "none" => conn[d].state = "none",
         0 \in SentIds(conn[d].sent) =>
           /\ "in" \in conn'[d].events => "in" \in conn[d].events
           /\ "in" \in todo'[d] => "in" \in conn[d].events \cup todo[d]
           /\ InHandler(d)' => InHandler(d) \/ "in" \in todo[d]
  PROVE  Fine(d)'
<1> DEFINE f == Flight(pool, tasks, funcs, d)
           g == Flight(pool', tasks', funcs', d)
           a == Alive(d)
           b == Alive(d)'
<1>1. a \in BOOLEAN /\ b \in BOOLEAN
  BY DEF Alive
<1>2. Accounted(conn[d].useThreadPool, conn[d].nreq, conn[d].sent, f, a)
  BY DEF Fine
<1>3. g \subseteq f /\ (b => a /\ g = f)
  OBVIOUS
<1> HIDE DEF f, g, a, b
<1>4. Accounted(conn[d].useThreadPool, conn[d].nreq, conn[d].sent, g, b)
  BY <1>1, <1>2, <1>3, AccountedKept
<1>5. BadIsLast(d)'
  BY DEF Fine, BadIsLast
<1>6. conn'[d].state = "none" => conn'[d].sent = <<>>
  BY DEF Fine
<1> QED BY <1>4, <1>5, <1>6 DEF Fine, g, b

(* Requests in flight, when the answers queued are the same.               *)
LEMMA FlightSame ==
  ASSUME NEW p, NEW a, NEW b, NEW x, NEW y, NEW d, Apart(p, a, b, d),
         QueueIds(x, d) = QueueIds(a, d), OnceInQueue(a, d) => OnceInQueue(x, d),
         QueueIds(y, d) = QueueIds(b, d), OnceInQueue(b, d) => OnceInQueue(y, d)
  PROVE  Apart(p, x, y, d) /\ Flight(p, x, y, d) = Flight(p, a, b, d)
  BY DEF Apart, Flight

(* The other connections, while a handler of c runs.                       *)
LEMMA OthersFine ==
  ASSUME ConnInv, NEW c \in Conns, NEW w, NEW n, NEW s, Does(c, w, n, s),
         NEW d \in Conns \ {c}, Fine(d), pc' = "http" => cur' = c,
         Apart(pool', tasks', funcs', d),
         Flight(pool', tasks', funcs', d) = Flight(pool, tasks, funcs, d)
  PROVE  Fine(d)'
<1>1. conn'[d] = conn[d] /\ stop' = stop /\ todo'[d] \subseteq todo[d]
  BY DEF Does
<1>2. Alive(d)' => Alive(d)
  BY <1>1 DEF Alive
<1>3. ~InHandler(d)'
  BY DEF InHandler
<1> QED BY <1>1, <1>2, <1>3, FineKept

(* A handler that takes nothing from the pool or the copy of the tasks.    *)
LEMMA DoesFlight ==
  ASSUME NEW c \in Conns, NEW w, NEW n, NEW s, Does(c, w, n, s), UNCHANGED <<funcs, pool>>,
         NEW d \in Conns, Fine(d)
  PROVE  /\ Apart(pool', tasks', funcs', d)
         /\ Flight(pool', tasks', funcs', d) = Flight(pool, tasks, funcs, d)
<1>1. OnlyRemoves(c, tasks, tasks') /\ Apart(pool, tasks, funcs, d)
  BY DEF Does, Fine
<1>2. QueueIds(tasks', d) = QueueIds(tasks, d)
      /\ (OnceInQueue(tasks, d) => OnceInQueue(tasks', d))
  BY <1>1, IdsRemoves
<1>3. /\ Apart(pool, tasks', funcs, d)
      /\ Flight(pool, tasks', funcs, d) = Flight(pool, tasks, funcs, d)
  BY <1>1, <1>2, FlightSame
<1> QED BY <1>3

(* A handler that answers nothing.                                         *)
LEMMA SilentFine ==
  ASSUME ConnInv, Answers, NEW c \in Conns, NEW w, Does(c, w, conn[c].nreq, conn[c].sent),
         UNCHANGED <<funcs, pool>>,
         pc' = "http" => cur' = c /\ "in" \in todo[c]
  PROVE  Answers'
<1> SUFFICES ASSUME NEW d \in Conns PROVE Fine(d)'
  BY DEF Answers
<1>1. Fine(d)
  BY DEF Answers
<1>2. /\ Apart(pool', tasks', funcs', d)
      /\ Flight(pool', tasks', funcs', d) = Flight(pool, tasks, funcs, d)
  BY <1>1, DoesFlight
<1>3. CASE d # c
  BY <1>1, <1>2, <1>3, OthersFine
<1>4. CASE d = c
  <2>1. /\ conn'[d].useThreadPool = conn[d].useThreadPool /\ conn'[d].nreq = conn[d].nreq
        /\ conn'[d].sent = conn[d].sent /\ conn'[d].state # "none"
        /\ "in" \in conn'[d].events => "in" \in conn[d].events
        /\ "in" \notin todo'[d] /\ stop' = stop
        /\ conn[d].state = "dead" => conn'[d].state = "dead"
    BY <1>4 DEF Does
  <2>2. Alive(d)' => Alive(d)
    BY <2>1 DEF Alive
  <2>3. InHandler(d)' => "in" \in todo[d]
    BY <1>4 DEF InHandler
  <2> QED BY <1>1, <1>2, <2>1, <2>2, <2>3, FineKept
<1> QED BY <1>3, <1>4

(* The 400, after which nothing more is read.                              *)
LEMMA ErrorFine ==
  ASSUME ConnInv, Unborn, Answers, NEW c \in Conns, onHttpError(c)
  PROVE  Answers'
<1> DEFINE s == Append(conn[c].sent, 0)
<1>1. /\ Does(c, conn[c].working, conn[c].nreq, s)
      /\ "in" \notin conn'[c].events
      /\ pc = "http" /\ cur = c /\ pc' = "pass1" /\ conn[c].state # "dead"
      /\ UNCHANGED <<funcs, pool, cur>>
  BY ErrorDoes
<1> HIDE DEF s
<1> SUFFICES ASSUME NEW d \in Conns PROVE Fine(d)'
  BY DEF Answers
<1>2. Fine(d)
  BY DEF Answers
<1>3. /\ Apart(pool', tasks', funcs', d)
      /\ Flight(pool', tasks', funcs', d) = Flight(pool, tasks, funcs, d)
  BY <1>1, <1>2, DoesFlight
<1>4. CASE d # c
  BY <1>1, <1>2, <1>3, <1>4, OthersFine
<1>5. CASE d = c
  <2>1. /\ conn'[d].useThreadPool = conn[d].useThreadPool /\ conn'[d].nreq = conn[d].nreq
        /\ conn'[d].sent = s /\ conn'[d].state # "none"
        /\ "in" \notin todo'[d] /\ stop' = stop
    BY <1>1, <1>5 DEF Does
  <2>2. Alive(d)' => Alive(d)
    BY <1>1, <1>5, <2>1 DEF Alive
  <2>3. 0 \notin SentIds(conn[d].sent)
    BY <1>1, <1>2, <1>5 DEF Fine, BadIsLast, InHandler
  <2>4. /\ conn[d].useThreadPool \in BOOLEAN /\ conn[d].nreq \in Nat /\ conn[d].sent \in Seq(Nat)
        /\ Alive(d) \in BOOLEAN /\ Alive(d)' \in BOOLEAN
    <3>1. conn[d] \in ConnType
      BY SelfIs
    <3> QED BY <3>1 DEF ConnType, Alive
  <2>5. Accounted(conn[d].useThreadPool, conn[d].nreq, conn[d].sent,
                  Flight(pool, tasks, funcs, d), Alive(d))
    BY <1>2 DEF Fine
  <2>6. Accounted(conn[d].useThreadPool, conn[d].nreq, Append(conn[d].sent, 0),
                  Flight(pool, tasks, funcs, d), Alive(d)')
    BY <2>2, <2>3, <2>4, <2>5, AccountedBad
  <2>7. BadIsLast(d)'
    BY <1>1, <1>5, <2>1 DEF BadIsLast, InHandler
  <2> QED BY <1>3, <1>5, <2>1, <2>6, <2>7 DEF Fine, s
<1> QED BY <1>4, <1>5

(* An answer on the spot.                                                  *)
LEMMA InlineFine ==
  ASSUME ConnInv, Unborn, Answers, NEW c \in Conns, onHttpInline(c)
  PROVE  Answers'
<1> DEFINE s == Append(conn[c].sent, conn[c].nreq + 1)
<1>1. /\ Does(c, conn[c].working, conn[c].nreq + 1, s)
      /\ pc = "http" /\ cur = c /\ conn[c].state # "dead" /\ ~conn[c].useThreadPool
      /\ UNCHANGED <<funcs, pool, pc, cur>>
  BY InlineDoes
<1> HIDE DEF s
<1> SUFFICES ASSUME NEW d \in Conns PROVE Fine(d)'
  BY DEF Answers
<1>2. Fine(d)
  BY DEF Answers
<1>3. /\ Apart(pool', tasks', funcs', d)
      /\ Flight(pool', tasks', funcs', d) = Flight(pool, tasks, funcs, d)
  BY <1>1, <1>2, DoesFlight
<1>4. CASE d # c
  BY <1>1, <1>2, <1>3, <1>4, OthersFine
<1>5. CASE d = c
  <2>1. /\ conn'[d].useThreadPool = conn[d].useThreadPool /\ conn'[d].nreq = conn[d].nreq + 1
        /\ conn'[d].sent = s /\ conn'[d].state # "none" /\ stop' = stop
    BY <1>1, <1>5 DEF Does
  <2>2. Alive(d)' => Alive(d)
    BY <1>1, <1>5, <2>1 DEF Alive
  <2>3. 0 \notin SentIds(conn[d].sent)
    BY <1>1, <1>2, <1>5 DEF Fine, BadIsLast, InHandler
  <2>4. /\ conn[d].useThreadPool = FALSE /\ conn[d].nreq \in Nat /\ conn[d].sent \in Seq(Nat)
        /\ Alive(d) \in BOOLEAN /\ Alive(d)' \in BOOLEAN
    <3>1. conn[d] \in ConnType
      BY SelfIs
    <3> QED BY <1>1, <1>5, <3>1 DEF ConnType, Alive
  <2>5. Accounted(FALSE, conn[d].nreq, conn[d].sent, Flight(pool, tasks, funcs, d), Alive(d))
    BY <1>2, <2>4 DEF Fine
  <2>6. /\ Accounted(FALSE, conn[d].nreq + 1, Append(conn[d].sent, conn[d].nreq + 1),
                     Flight(pool, tasks, funcs, d), Alive(d)')
        /\ 0 \notin SentIds(Append(conn[d].sent, conn[d].nreq + 1))
    BY <2>2, <2>3, <2>4, <2>5, AccountedInline
  <2>7. BadIsLast(d)'
    BY <1>5, <2>1, <2>6 DEF BadIsLast, s
  <2> QED BY <1>3, <1>5, <2>1, <2>4, <2>6, <2>7 DEF Fine, s
<1> QED BY <1>4, <1>5

(* A request goes to the pool under a new number.                          *)
LEMMA ProcessFine ==
  ASSUME ConnInv, Unborn, Answers, NEW c \in Conns, onHttpProcess(c)
  PROVE  Answers'
<1> DEFINE r == Request(c)
<1>1. /\ Does(c, conn[c].working + 1, conn[c].nreq + 1, conn[c].sent)
      /\ pc = "http" /\ cur = c /\ conn[c].state # "dead" /\ conn[c].useThreadPool
      /\ tasks' = tasks /\ pool' = pool \cup {r} /\ UNCHANGED <<funcs, pc, cur>>
  BY ProcessDoes
<1>2. r.conn = c /\ r.id = conn[c].nreq + 1
  BY DEF Request
<1> HIDE DEF r
<1> SUFFICES ASSUME NEW d \in Conns PROVE Fine(d)'
  BY DEF Answers
<1>3. Fine(d) /\ Apart(pool, tasks, funcs, d)
  BY DEF Answers, Fine
<1>4. CASE d # c
  <2>1. PoolIds(pool', d) = PoolIds(pool, d) /\ OnceInPool(pool', d)
    BY <1>1, <1>2, <1>3, <1>4, PoolAdd DEF Apart
  <2>2. /\ Apart(pool', tasks', funcs', d)
        /\ Flight(pool', tasks', funcs', d) = Flight(pool, tasks, funcs, d)
    BY <1>1, <1>3, <2>1 DEF Apart, Flight
  <2> QED BY <1>1, <1>3, <1>4, <2>2, OthersFine
<1>5. CASE d = c
  <2> DEFINE n == conn[d].nreq
             f == Flight(pool, tasks, funcs, d)
  <2>1. /\ conn'[d].useThreadPool = conn[d].useThreadPool /\ conn'[d].nreq = n + 1
        /\ conn'[d].sent = conn[d].sent /\ conn'[d].state # "none" /\ stop' = stop
    BY <1>1, <1>5 DEF Does
  <2>2. conn[d].useThreadPool = TRUE /\ n \in Nat /\ Alive(d) \in BOOLEAN /\ Alive(d)' \in BOOLEAN
    <3>1. conn[d] \in ConnType
      BY SelfIs
    <3> QED BY <1>1, <1>5, <3>1 DEF ConnType, Alive
  <2>3. Alive(d)' => Alive(d)
    BY <1>1, <1>5, <2>1 DEF Alive
  <2>4. Accounted(TRUE, n, conn[d].sent, f, Alive(d))
    BY <1>3, <2>2 DEF Fine
  <2> HIDE DEF n
  <2>5. n + 1 \notin f
    <3>1. f \subseteq 1..n /\ n + 1 \notin 1..n
      BY <2>2, <2>4 DEF Accounted
    <3> QED BY <3>1
  <2>6. /\ n + 1 \notin PoolIds(pool, d) /\ n + 1 \notin QueueIds(tasks, d)
        /\ n + 1 \notin QueueIds(funcs, d)
    BY <2>5 DEF Flight
  <2>7. PoolIds(pool', d) = PoolIds(pool, d) \cup {n + 1} /\ OnceInPool(pool', d)
    <3>1. r.conn = d /\ r.id = n + 1 /\ pool' = pool \cup {r} /\ OnceInPool(pool, d)
      BY <1>1, <1>2, <1>3, <1>5 DEF Apart, n
    <3>2. /\ r.conn = d => PoolIds(pool \cup {r}, d) = PoolIds(pool, d) \cup {r.id}
          /\ r.conn = d /\ OnceInPool(pool, d) /\ r.id \notin PoolIds(pool, d)
               => OnceInPool(pool \cup {r}, d)
      BY PoolAdd
    <3>3. r.id \notin PoolIds(pool, d)
      BY <2>6, <3>1
    <3>4. PoolIds(pool \cup {r}, d) = PoolIds(pool, d) \cup {r.id} /\ OnceInPool(pool \cup {r}, d)
      BY <3>1, <3>2, <3>3
    <3> QED BY <3>1, <3>4
  <2>8. /\ Apart(pool', tasks', funcs', d)
        /\ Flight(pool', tasks', funcs', d) = f \cup {n + 1}
    BY <1>1, <1>3, <2>6, <2>7 DEF Apart, Flight
  <2> HIDE DEF f
  <2>9. Accounted(TRUE, n, conn[d].sent, f, Alive(d)')
    BY <2>2, <2>3, <2>4, AccountedKept
  <2>10. Accounted(TRUE, n + 1, conn[d].sent, f \cup {n + 1}, Alive(d)')
    BY <2>2, <2>9, AccountedAsk
  <2>11. BadIsLast(d)'
    <3>1. 0 \notin SentIds(conn[d].sent)
      BY <1>1, <1>3, <1>5 DEF Fine, BadIsLast, InHandler
    <3> QED BY <2>1, <3>1 DEF BadIsLast
  <2> QED BY <2>1, <2>2, <2>8, <2>10, <2>11 DEF Fine
<1> QED BY <1>4, <1>5

(* A worker's answer is sent, or dropped with the connection it is for.    *)
LEMMA RespFine ==
  ASSUME ConnInv, Life, Answers, respTask
  PROVE  Answers'
<1> DEFINE c == Head(funcs).conn
           id == Head(funcs).id
           s == IF conn[c].state = "dead" THEN conn[c].sent ELSE Append(conn[c].sent, id)
<1>1. /\ Does(c, conn[c].working - 1, conn[c].nreq, s)
      /\ c \in Conns /\ pc = "funcs" /\ funcs # <<>> /\ funcs' = Tail(funcs)
      /\ Head(funcs).kind = "resp" /\ UNCHANGED <<pool, pc, cur, todo>>
  <2>1. Unborn /\ conn[Head(funcs).conn].state # "none"
    BY RespIsBorn DEF Life
  <2> QED BY <2>1, RespDoes
<1>2. funcs \in Seq(TaskType)
  BY DEF ConnInv, Typed
<1> HIDE DEF s
<1> SUFFICES ASSUME NEW d \in Conns PROVE Fine(d)'
  BY DEF Answers
<1>3. Fine(d) /\ Apart(pool, tasks, funcs, d)
  BY DEF Answers, Fine
<1>4. QueueIds(tasks', d) = QueueIds(tasks, d)
      /\ (OnceInQueue(tasks, d) => OnceInQueue(tasks', d))
  <2>1. OnlyRemoves(c, tasks, tasks')
    BY <1>1 DEF Does
  <2> QED BY <1>1, <2>1, IdsRemoves
<1>5. /\ OnceInQueue(funcs', d)
      /\ d = c => id \in QueueIds(funcs, d) /\ QueueIds(funcs', d) = QueueIds(funcs, d) \ {id}
      /\ d # c => QueueIds(funcs', d) = QueueIds(funcs, d)
  BY <1>1, <1>2, <1>3, IdsTail DEF Apart
<1>6. CASE d # c
  <2>1. /\ Apart(pool, tasks', funcs', d)
        /\ Flight(pool, tasks', funcs', d) = Flight(pool, tasks, funcs, d)
    BY <1>3, <1>4, <1>5, <1>6, FlightSame
  <2>2. pool' = pool /\ d \in Conns \ {c} /\ pc' # "http"
    BY <1>1, <1>6
  <2> QED BY <1>1, <1>3, <2>1, <2>2, OthersFine
<1>7. CASE d = c
  <2> DEFINE f == Flight(pool, tasks, funcs, d)
             g == Flight(pool', tasks', funcs', d)
  <2>1. Apart(pool', tasks', funcs', d)
    BY <1>1, <1>3, <1>4, <1>5, <1>7 DEF Apart
  <2>2. id \in f /\ g = f \ {id}
    BY <1>1, <1>3, <1>4, <1>5, <1>7 DEF Apart, Flight
  <2> HIDE DEF f, g, id
  <2>3. /\ conn'[d].useThreadPool = conn[d].useThreadPool /\ conn'[d].nreq = conn[d].nreq
        /\ conn'[d].sent = s /\ conn'[d].state # "none" /\ stop' = stop
        /\ conn[d].state = "dead" => conn'[d].state = "dead"
        /\ "in" \in conn'[d].events => "in" \in conn[d].events
    BY <1>1, <1>7 DEF Does
  <2>4. ~InHandler(d)' /\ todo' = todo
    BY <1>1 DEF InHandler
  <2>5. Alive(d)' => Alive(d)
    BY <2>3 DEF Alive
  <2>6. CASE conn[d].state = "dead"
    <3>1. s = conn[d].sent /\ ~Alive(d)'
      BY <1>7, <2>3, <2>6 DEF s, Alive
    <3>2. g \subseteq f
      BY <2>2
    <3> QED BY <1>3, <2>1, <2>3, <2>4, <3>1, <3>2, FineKept DEF f, g
  <2>7. CASE conn[d].state # "dead"
    <3>1. s = Append(conn[d].sent, id)
      BY <1>7, <2>7 DEF s, id
    <3>2. /\ conn[d].useThreadPool \in BOOLEAN /\ conn[d].nreq \in Nat
          /\ conn[d].sent \in Seq(Nat) /\ Alive(d) \in BOOLEAN /\ Alive(d)' \in BOOLEAN
      <4>1. conn[d] \in ConnType
        BY SelfIs
      <4> QED BY <4>1 DEF ConnType, Alive
    <3>3. Accounted(conn[d].useThreadPool, conn[d].nreq, conn[d].sent, f, Alive(d))
      BY <1>3 DEF Fine, f
    <3>4. /\ Accounted(conn[d].useThreadPool, conn[d].nreq, Append(conn[d].sent, id), f \ {id},
                       Alive(d)')
          /\ id # 0
      <4> DEFINE w == conn[d].useThreadPool
                 n == conn[d].nreq
                 q == conn[d].sent
                 a == Alive(d)
                 b == Alive(d)'
      <4>1. w \in BOOLEAN /\ n \in Nat /\ q \in Seq(Nat) /\ a \in BOOLEAN /\ b \in BOOLEAN
        BY <3>2
      <4>2. Accounted(w, n, q, f, a) /\ (b => a)
        BY <2>5, <3>3
      <4> HIDE DEF w, n, q, a, b
      <4>3. Accounted(w, n, Append(q, id), f \ {id}, b) /\ id # 0
        BY <2>2, <4>1, <4>2, AccountedSend
      <4> QED BY <4>3 DEF w, n, q, b
    <3>5. f \subseteq 1..conn[d].nreq
      BY <3>3 DEF Accounted
    <3>6. id \in Nat
      BY <2>2, <3>2, <3>5
    <3>7. SentIds(Append(conn[d].sent, id)) = SentIds(conn[d].sent) \cup {id}
      BY <3>2, <3>6, SentAppend
    <3>8. BadIsLast(d)'
      <4>1. 0 \in SentIds(conn'[d].sent) => 0 \in SentIds(conn[d].sent)
        BY <2>3, <3>1, <3>4, <3>7
      <4>2. BadIsLast(d)
        BY <1>3 DEF Fine
      <4> QED BY <2>3, <2>4, <4>1, <4>2 DEF BadIsLast
    <3> QED BY <2>1, <2>2, <2>3, <3>1, <3>4, <3>8 DEF Fine, g
  <2> QED BY <2>6, <2>7
<1> QED BY <1>6, <1>7

(* A worker hands its answer to the loop, or drops it after the stop.      *)
LEMMA WorkerFine ==
  ASSUME ConnInv, Answers, NEW r \in pool, buildResponse(r)
  PROVE  Answers'
<1> DEFINE t == [kind |-> "resp", conn |-> r.conn, id |-> r.id, keepAlive |-> r.keepAlive]
<1>1. /\ pool' = pool \ {r} /\ tasks' = enqueueTask(tasks, t)
      /\ UNCHANGED <<conn, funcs, pc, cur, todo, stop>>
  BY DEF buildResponse
<1>2. r \in WorkType /\ tasks \in Seq(TaskType)
  BY DEF ConnInv, Typed
<1>3. t \in TaskType /\ t.kind = "resp" /\ t.conn = r.conn /\ t.id = r.id
  BY <1>2 DEF WorkType, TaskType
<1> HIDE DEF t
<1> SUFFICES ASSUME NEW d \in Conns PROVE Fine(d)'
  BY DEF Answers
<1>4. Fine(d) /\ Apart(pool, tasks, funcs, d)
  BY DEF Answers, Fine
<1>5. /\ OnceInPool(pool', d)
      /\ r.conn = d => PoolIds(pool', d) = PoolIds(pool, d) \ {r.id} /\ r.id \in PoolIds(pool, d)
      /\ r.conn # d => PoolIds(pool', d) = PoolIds(pool, d)
  <2>1. OnceInPool(pool, d)
    BY <1>4 DEF Apart
  <2>2. /\ OnceInPool(pool \ {r}, d)
        /\ r.conn = d => /\ PoolIds(pool \ {r}, d) = PoolIds(pool, d) \ {r.id}
                         /\ r.id \in PoolIds(pool, d)
        /\ r.conn # d => PoolIds(pool \ {r}, d) = PoolIds(pool, d)
    BY <2>1 DEF PoolIds, OnceInPool
  <2> QED BY <1>1, <2>2
<1>6. ASSUME Apart(pool', tasks', funcs', d),
             Flight(pool', tasks', funcs', d) \subseteq Flight(pool, tasks, funcs, d),
             ~stop => Flight(pool', tasks', funcs', d) = Flight(pool, tasks, funcs, d)
      PROVE  Fine(d)'
  <2>1. (Alive(d)' => Alive(d) /\ ~stop) /\ (InHandler(d)' => InHandler(d))
    BY <1>1 DEF Alive, InHandler
  <2>2. /\ conn'[d] = conn[d] /\ todo'[d] = todo[d]
    BY <1>1
  <2> QED BY <1>4, <1>6, <2>1, <2>2, FineKept
<1>7. CASE stop
  <2>1. tasks' = tasks /\ funcs' = funcs
    BY <1>1, <1>7 DEF enqueueTask
  <2>2. PoolIds(pool', d) \subseteq PoolIds(pool, d)
    BY <1>5
  <2>3. /\ Apart(pool', tasks', funcs', d)
        /\ Flight(pool', tasks', funcs', d) \subseteq Flight(pool, tasks, funcs, d)
    BY <1>4, <1>5, <2>1, <2>2 DEF Apart, Flight
  <2> QED BY <1>6, <1>7, <2>3
<1>8. CASE ~stop
  <2>1. tasks' = Append(tasks, t) /\ funcs' = funcs
    BY <1>1, <1>8 DEF enqueueTask
  <2>2. CASE r.conn = d
    <3>1. /\ PoolIds(pool', d) = PoolIds(pool, d) \ {r.id} /\ r.id \in PoolIds(pool, d)
          /\ r.id \notin QueueIds(tasks, d) /\ r.id \notin QueueIds(funcs, d)
      BY <1>4, <1>5, <2>2 DEF Apart
    <3>2. /\ QueueIds(Append(tasks, t), d) = QueueIds(tasks, d) \cup {r.id}
          /\ OnceInQueue(tasks, d) /\ r.id \notin QueueIds(tasks, d)
               => OnceInQueue(Append(tasks, t), d)
      BY <1>2, <1>3, <2>2, IdsAppend
    <3>3. Apart(pool', tasks', funcs', d)
      BY <1>4, <1>5, <2>1, <3>1, <3>2 DEF Apart
    <3>4. Flight(pool', tasks', funcs', d) = Flight(pool, tasks, funcs, d)
      BY <2>1, <3>1, <3>2 DEF Flight
    <3> QED BY <1>6, <3>3, <3>4
  <2>3. CASE r.conn # d
    <3>1. /\ QueueIds(Append(tasks, t), d) = QueueIds(tasks, d)
          /\ OnceInQueue(tasks, d) => OnceInQueue(Append(tasks, t), d)
      BY <1>2, <1>3, <2>3, IdsAppendOther
    <3>2. /\ Apart(pool', tasks', funcs', d)
          /\ Flight(pool', tasks', funcs', d) = Flight(pool, tasks, funcs, d)
      BY <1>4, <1>5, <2>1, <2>3, <3>1 DEF Apart, Flight
    <3> QED BY <1>6, <3>2
  <2> QED BY <2>2, <2>3
<1> QED BY <1>7, <1>8

(* The handlers keep the answers in order,                                 *)
LEMMA HandlerFine ==
  ASSUME ConnInv, Life, Answers, NEW c \in Conns,
         handleReadCallBack(c) \/ onHttp(c) \/ handleWriteCallBack(c) \/ idleTimeout(c)
  PROVE  Answers'
<1>1. Unborn
  BY DEF Life
<1>2. CASE handleReadCallBack(c)
  BY <1>1, <1>2, ReadDoes, SilentFine
<1>3. CASE handleWriteCallBack(c)
  <2>1. /\ Does(c, conn[c].working, conn[c].nreq, conn[c].sent) /\ UNCHANGED <<funcs, pool>>
        /\ pc' # "http"
    BY <1>1, <1>3, WriteDoes
  <2> QED BY <2>1, SilentFine
<1>4. CASE idleTimeout(c)
  <2>1. /\ Does(c, conn[c].working, conn[c].nreq, conn[c].sent) /\ UNCHANGED <<funcs, pool>>
        /\ pc' # "http"
    BY <1>1, <1>4, TimeoutDoes
  <2> QED BY <2>1, SilentFine
<1>5. CASE onHttpDead(c) \/ onHttpNeedMore(c) \/ onHttpLineTooLong(c)
  BY <1>1, <1>5, PlainRoundDoes, SilentFine
<1>6. CASE onHttpError(c)
  BY <1>1, <1>6, ErrorFine
<1>7. CASE onHttpProcess(c)
  BY <1>1, <1>7, ProcessFine
<1>8. CASE onHttpInline(c)
  BY <1>1, <1>8, InlineFine
<1> QED BY <1>2, <1>3, <1>4, <1>5, <1>6, <1>7, <1>8 DEF onHttp

(* and so does every step.                                                 *)
LEMMA AnswersNext ==
  ASSUME ConnInv, Life, Answers, [Next]_vars
  PROVE  Answers'
<1>0. tasks \in Seq(TaskType) /\ funcs \in Seq(TaskType)
  BY DEF ConnInv, Typed
<1>1. \A d \in Conns : Fine(d) /\ Apart(pool, tasks, funcs, d)
  BY DEF Answers, Fine
<1>2. CASE \E c \in Conns :
             handleReadCallBack(c) \/ onHttp(c) \/ handleWriteCallBack(c) \/ idleTimeout(c)
  BY <1>2, HandlerFine
<1>3. CASE respTask
  BY <1>3, RespFine
<1>4. CASE Workers
  BY <1>4, WorkerFine DEF Workers
\* the answers in flight stay where they are, and the connections are left alone
<1>5. ASSUME \A d \in Conns :
               /\ QueueIds(tasks', d) = QueueIds(tasks, d)
               /\ OnceInQueue(tasks, d) => OnceInQueue(tasks', d)
               /\ QueueIds(funcs', d) = QueueIds(funcs, d)
               /\ OnceInQueue(funcs, d) => OnceInQueue(funcs', d)
               /\ conn'[d].useThreadPool = conn[d].useThreadPool
               /\ conn'[d].nreq = conn[d].nreq /\ conn'[d].sent = conn[d].sent
               /\ conn'[d].state = "none" => conn[d].state = "none"
               /\ conn[d].state = "dead" => conn'[d].state = "dead"
               /\ 0 \in SentIds(conn[d].sent) =>
                    /\ "in" \in conn'[d].events => "in" \in conn[d].events
                    /\ "in" \in todo'[d] => "in" \in conn[d].events \cup todo[d],
             pool' = pool, pc' = "http" => pc = "http" /\ cur' = cur, stop => stop'
      PROVE  Answers'
  <2> SUFFICES ASSUME NEW d \in Conns PROVE Fine(d)'
    BY DEF Answers
  <2>1. Alive(d)' => Alive(d)
    BY <1>5 DEF Alive
  <2>2. InHandler(d)' => InHandler(d)
    BY <1>5 DEF InHandler
  <2>3. /\ Apart(pool', tasks', funcs', d)
        /\ Flight(pool', tasks', funcs', d) = Flight(pool, tasks, funcs, d)
    BY <1>1, <1>5, FlightSame
  <2> QED BY <1>1, <1>5, <2>1, <2>2, <2>3, FineKept
<1>6. ASSUME NEW kind, RunTask(kind), kind # "resp"
      PROVE  /\ \A d \in Conns : /\ QueueIds(funcs', d) = QueueIds(funcs, d)
                                 /\ OnceInQueue(funcs, d) => OnceInQueue(funcs', d)
             /\ pc = "funcs"
  BY <1>0, <1>1, <1>6, IdsTail DEF RunTask, Apart
<1>7. CASE addTask
  <2>1. PICK c \in Conns :
          /\ conn[c].state = "none" /\ conn'[c].state = "connected"
          /\ \A d \in Conns \ {c} : conn'[d] = conn[d]
          /\ conn'[c].useThreadPool = conn[c].useThreadPool /\ conn'[c].nreq = conn[c].nreq
          /\ conn'[c].sent = conn[c].sent
    BY <1>7, AddLife
  <2>2. 0 \notin SentIds(conn[c].sent)
    BY <1>1, <2>1 DEF Fine, SentIds
  <2>3. UNCHANGED <<tasks, pool, pc, cur, todo, stop>> /\ RunTask("add")
    BY <1>7 DEF addTask
  <2> QED BY <1>5, <1>6, <2>1, <2>2, <2>3
<1>8. CASE removeTask
  <2>1. \A d \in Conns : /\ conn'[d].state = conn[d].state /\ conn'[d].sent = conn[d].sent
                         /\ conn'[d].nreq = conn[d].nreq /\ conn'[d].events = conn[d].events
                         /\ conn'[d].useThreadPool = conn[d].useThreadPool
    BY <1>8, RemoveLife
  <2>2. UNCHANGED <<tasks, pool, pc, cur, todo, stop>> /\ RunTask("remove")
    BY <1>8 DEF removeTask
  <2> QED BY <1>5, <1>6, <2>1, <2>2
<1>9. CASE stopTask
  <2>1. stop' /\ \A d \in Conns : /\ Frame(conn[d], conn'[d])
                                  /\ conn[d].state = "dead" => conn'[d].state = "dead"
    BY <1>9, StopLife
  <2>2. \A d \in Conns : /\ conn'[d].useThreadPool = conn[d].useThreadPool
                         /\ conn'[d].nreq = conn[d].nreq /\ conn'[d].sent = conn[d].sent
                         /\ conn'[d].state = "none" => conn[d].state = "none"
                         /\ "in" \in conn'[d].events => "in" \in conn[d].events
    BY <2>1 DEF Frame
  <2>3. UNCHANGED <<tasks, pool, pc, cur, todo>> /\ RunTask("stop")
    BY <1>9 DEF stopTask
  <2> QED BY <1>5, <1>6, <2>1, <2>2, <2>3
<1>10. ASSUME \A d \in Conns : /\ Outside(conn[d], conn'[d])
                               /\ "in" \in todo'[d] => "in" \in conn[d].events \cup todo[d],
              UNCHANGED <<tasks, funcs, pool, stop>>, pc' = "http" => pc = "http" /\ cur' = cur
       PROVE  Answers'
  <2>1. \A d \in Conns : /\ conn'[d].useThreadPool = conn[d].useThreadPool
                         /\ conn'[d].nreq = conn[d].nreq /\ conn'[d].sent = conn[d].sent
                         /\ conn'[d].state = conn[d].state /\ conn'[d].events = conn[d].events
    BY <1>10 DEF Outside
  <2> QED BY <1>5, <1>10, <2>1
<1>11. CASE Poll
  <2>1. \A d \in Conns : "in" \in todo'[d] => "in" \in conn[d].events
    BY <1>11, PollOutside DEF Reported
  <2>2. \A d \in Conns : Outside(conn[d], conn'[d])
    BY <1>11, PollOutside
  <2>3. UNCHANGED <<tasks, funcs, pool, stop>> /\ pc' = "pass1"
    BY <1>11 DEF Poll
  <2> QED BY <1>10, <2>1, <2>2, <2>3
<1>12. CASE EndOfBatch \/ EndOfIteration \/ BrokenPipe \/ UNCHANGED vars
  <2>1. UNCHANGED <<conn, tasks, funcs, pool, todo, stop>>
    BY <1>12 DEF EndOfBatch, EndOfIteration, BrokenPipe, vars
  <2>2. pc' = "http" => pc = "http" /\ cur' = cur
    BY <1>12 DEF EndOfBatch, EndOfIteration, BrokenPipe, vars
  <2>3. \A d \in Conns : Outside(conn[d], conn[d])
    BY DEF Outside
  <2> QED BY <1>10, <2>1, <2>2, <2>3
<1>13. CASE Drain
  <2>1. /\ funcs = <<>> /\ funcs' = tasks /\ tasks' = <<>> /\ pc' = "funcs"
        /\ UNCHANGED <<conn, pool, todo, cur, stop>>
    BY <1>13 DEF Drain, Life, Phases
  <2> SUFFICES ASSUME NEW d \in Conns PROVE Fine(d)'
    BY DEF Answers
  <2>2. RespIn(<<>>, d) = {}
    BY DEF RespIn
  <2>3. QueueIds(<<>>, d) = {} /\ OnceInQueue(<<>>, d)
    BY <2>2 DEF QueueIds, OnceInQueue
  <2>4. Apart(pool, tasks, <<>>, d)
    BY <1>1, <2>1
  <2>5. /\ Apart(pool, <<>>, tasks, d)
        /\ Flight(pool, <<>>, tasks, d) = Flight(pool, tasks, <<>>, d)
    BY <2>3, <2>4 DEF Apart, Flight
  <2>6. /\ Apart(pool', tasks', funcs', d)
        /\ Flight(pool', tasks', funcs', d) = Flight(pool, tasks, funcs, d)
    BY <2>1, <2>5
  <2>7. (Alive(d)' => Alive(d)) /\ ~InHandler(d)'
    BY <2>1 DEF Alive, InHandler
  <2> QED BY <1>1, <2>1, <2>6, <2>7, FineKept
<1>14. ASSUME NEW t \in TaskType, t.kind # "resp", tasks' = Append(tasks, t)
       PROVE  \A d \in Conns : /\ QueueIds(tasks', d) = QueueIds(tasks, d)
                               /\ OnceInQueue(tasks, d) => OnceInQueue(tasks', d)
  BY <1>0, <1>14, IdsAppendOther
<1>15. CASE requestStop
  <2>1. /\ tasks' = Append(tasks, [kind |-> "stop"])
        /\ UNCHANGED <<conn, funcs, pool, pc, cur, todo, stop>>
    BY <1>15, RequestStopLife DEF requestStop
  <2>2. [kind |-> "stop"] \in TaskType /\ [kind |-> "stop"].kind # "resp"
    BY DEF TaskType
  <2>3. \A d \in Conns : /\ QueueIds(tasks', d) = QueueIds(tasks, d)
                         /\ OnceInQueue(tasks, d) => OnceInQueue(tasks', d)
    BY <1>14, <2>1, <2>2
  <2> QED BY <1>5, <2>1, <2>3
<1>16. ASSUME NEW c \in Conns, addConnection(c)
       PROVE  Answers'
  <2> DEFINE t == [kind |-> "add", conn |-> c]
  <2>1. /\ tasks' = Append(tasks, t)
        /\ \A d \in Conns : /\ conn'[d].state = conn[d].state /\ conn'[d].sent = conn[d].sent
                            /\ conn'[d].nreq = conn[d].nreq
                            /\ conn'[d].events = conn[d].events
                            /\ conn'[d].useThreadPool = conn[d].useThreadPool
        /\ UNCHANGED <<funcs, pool, pc, cur, todo, stop>>
    BY <1>16, AddConnectionLife DEF addConnection
  <2>2. t \in TaskType /\ t.kind # "resp"
    BY DEF TaskType
  <2> HIDE DEF t
  <2>3. \A d \in Conns : /\ QueueIds(tasks', d) = QueueIds(tasks, d)
                         /\ OnceInQueue(tasks, d) => OnceInQueue(tasks', d)
    BY <1>14, <2>1, <2>2
  <2> QED BY <1>5, <2>1, <2>3
<1>17. ASSUME NEW c \in Conns,
              Arrive(c) \/ PeerFin(c) \/ PeerReset(c) \/ PeerReads(c) \/ Expire(c)
       PROVE  Answers'
  <2>1. /\ \A d \in Conns : Outside(conn[d], conn'[d])
        /\ UNCHANGED <<tasks, funcs, pool, pc, cur, todo, stop>>
    BY <1>17, PeerOutside
  <2> QED BY <1>10, <2>1
<1> QED BY <1>2, <1>3, <1>4, <1>7, <1>8, <1>9, <1>11, <1>12, <1>13, <1>15, <1>16, <1>17
        DEF Next, LoopThread, Environment

(* At the start nothing is asked and nothing is answered.                  *)
LEMMA AnswersInit == Init => Answers
<1> SUFFICES ASSUME Init, NEW c \in Conns PROVE Fine(c)
  BY DEF Answers
<1>1. PICK flag \in Modes, load \in Loads : conn = [d \in Conns |-> NewConn(flag, load, d)]
  BY DEF Init
<1>2. tasks = <<>> /\ funcs = <<>> /\ pool = {} /\ pc = "poll"
  BY DEF Init
<1>3. conn[c].sent = <<>> /\ conn[c].nreq = 0
  BY <1>1 DEF NewConn
<1>4. QueueIds(tasks, c) = {} /\ QueueIds(funcs, c) = {} /\ PoolIds(pool, c) = {}
      /\ RespIn(tasks, c) = {} /\ RespIn(funcs, c) = {}
  BY <1>2 DEF QueueIds, RespIn, PoolIds
<1>5. Apart(pool, tasks, funcs, c) /\ Flight(pool, tasks, funcs, c) = {}
  BY <1>2, <1>4 DEF Apart, Flight, OnceInPool, OnceInQueue
<1>6. SentIds(<<>>) = {} /\ DOMAIN <<>> = {} /\ 1..0 = {}
  BY DEF SentIds
<1>7. \A w, a : Accounted(w, 0, <<>>, {}, a)
  BY <1>6 DEF Accounted
<1> QED BY <1>3, <1>5, <1>6, <1>7 DEF Fine, BadIsLast

(* This is EachAnsweredOnce.                                               *)
LEMMA AnswersImply ==
  ASSUME ConnInv, Answers
  PROVE  EachAnsweredOnce
<1> SUFFICES ASSUME ~stop, NEW c \in Conns, conn[c].state # "dead"
             PROVE  /\ 1..conn[c].nreq = (Answered(c) \cup InFlight(c)) \ {0}
                    /\ Answered(c) \cap InFlight(c) = {}
                    /\ \A i, j \in DOMAIN conn[c].sent :
                         i < j => /\ conn[c].sent[i] # conn[c].sent[j]
                                  /\ \/ conn[c].useThreadPool
                                     \/ InOrder(conn[c].sent[i], conn[c].sent[j])
  BY DEF EachAnsweredOnce
<1>1. tasks \in Seq(TaskType) /\ funcs \in Seq(TaskType)
  BY DEF ConnInv, Typed
<1>2. {Queued[i].id : i \in Responses(c)} = QueueIds(tasks \o funcs, c)
  BY DEF Responses, Posted, Queued, QueueIds, RespIn
<1>3. InFlight(c) = Flight(pool, tasks, funcs, c)
  <2>1. QueueIds(tasks \o funcs, c) = QueueIds(tasks, c) \cup QueueIds(funcs, c)
    BY <1>1, IdsConcat
  <2>2. {r.id : r \in WithWorker(c)} = PoolIds(pool, c)
    BY DEF WithWorker, PoolIds
  <2> QED BY <1>2, <2>1, <2>2 DEF InFlight, Flight
<1>4. Answered(c) = SentIds(conn[c].sent)
  BY DEF Answered, SentIds
<1>5. Accounted(conn[c].useThreadPool, conn[c].nreq, conn[c].sent,
                Flight(pool, tasks, funcs, c), TRUE)
  BY DEF Answers, Fine, Alive
<1> QED BY <1>3, <1>4, <1>5 DEF Accounted

(* EachAnsweredOnce: for any number of connections and any stream of       *)
(* requests, every request parsed has one response, sent or on its way,    *)
(* through the pool, the two queues, the removal and the stop; without the *)
(* pool they leave in order and a 400 comes last.                          *)
THEOREM EachRequestHasOneAnswer == Spec => []EachAnsweredOnce
<1>1. ConnInv /\ Life /\ Answers /\ [Next]_vars => ConnInv' /\ Life' /\ Answers'
  BY ConnInvNext, LifeNext, AnswersNext
<1>2. ConnInv /\ Answers => EachAnsweredOnce
  BY AnswersImply
<1> QED BY <1>1, <1>2, ConnInvInit, LifeInit, AnswersInit, PTL DEF Spec

-----------------------------------------------------------------------------
(* What is pending for a connection, the events of the batch in T, will be *)
(* reported; and a removal that has been asked for.                        *)
Listens(k, T) == Unread(k) /\ "in" \in k.events => k.armed \/ "in" \in T
Flushes(k, T) ==
  k.unsent => /\ "out" \in k.events
              /\ "out" \in ReadyEvents(k) => k.armed \/ "out" \in T
Edge(k, T) == k.inEpoll /\ Listens(k, T) /\ Flushes(k, T)
RemovalIn(q, c) == \E i \in DOMAIN q : q[i].kind = "remove" /\ q[i].conn = c
Served(c) ==
  /\ conn[c].inMap /\ conn[c].state # "dead"
  /\ ~RemovalIn(tasks, c) /\ ~RemovalIn(funcs, c)
Edges ==
  /\ \A c \in Conns : Served(c) => Edge(conn[c], todo[c])
  /\ \A c \in Conns : conn[c].state = "none" => ~conn[c].unsent

-----------------------------------------------------------------------------
(* Registering or modifying a channel reports what is already pending.     *)
LEMMA ChannelEdge ==
  ASSUME NEW k \in ConnType, NEW E \in SUBSET Event, k.unsent => "out" \in E, NEW T
  PROVE  LET l == updateChannel([k EXCEPT !.events = E])
         IN  Edge(l, T) /\ l.state = k.state /\ l.unsent = k.unsent /\ l.events = E
<1> DEFINE m == [k EXCEPT !.events = E]
           l == updateChannel(m)
<1>1. m \in ConnType
  BY DEF ConnType
<1>2. /\ m.inq = k.inq /\ m.peer = k.peer /\ m.state = k.state /\ m.room = k.room
      /\ m.unsent = k.unsent /\ m.events = E
  BY DEF ConnType
<1> HIDE DEF m
<1>3. /\ l.inq = m.inq /\ l.peer = m.peer /\ l.state = m.state /\ l.room = m.room
      /\ l.unsent = m.unsent /\ l.events = m.events /\ l.inEpoll
      /\ l.armed = (m.armed \/ Reported(m) # {})
  BY <1>1 DEF updateChannel, ConnType
<1> HIDE DEF l
<1>4. Reported(m) # {} => l.armed
  BY <1>3
<1>5. Listens(l, T)
  <2>1. Unread(l) => "in" \in ReadyEvents(m)
    BY <1>3 DEF Unread, ReadyEvents, Event
  <2> QED BY <1>3, <1>4, <2>1 DEF Listens, Reported
<1>6. Flushes(l, T)
  <2>1. "out" \in ReadyEvents(l) => "out" \in ReadyEvents(m)
    BY <1>3 DEF ReadyEvents, Event
  <2> QED BY <1>2, <1>3, <1>4, <2>1 DEF Flushes, Reported
<1> QED BY <1>2, <1>3, <1>5, <1>6 DEF Edge, l, m

(* In particular enabling and disabling reading and writing; writing is    *)
(* only disabled when nothing is unsent.                                   *)
LEMMA InterestEdge ==
  ASSUME NEW k \in ConnType, NEW T
  PROVE  /\ Edge(enableWriting(k), T) /\ enableWriting(k).state = k.state
         /\ ~k.unsent => Edge(disableWriting(k), T) /\ disableWriting(k).state = k.state
         /\ (k.unsent => "out" \in k.events)
              => /\ Edge(disableReading(k), T) /\ disableReading(k).state = k.state
                 /\ Edge(enableReading(k), T) /\ enableReading(k).unsent = k.unsent
<1>1. /\ k.events \cup {"out"} \in SUBSET Event /\ k.events \cup {"in"} \in SUBSET Event
      /\ k.events \ {"in"} \in SUBSET Event /\ k.events \ {"out"} \in SUBSET Event
  BY DEF ConnType, Event
<1>2. Edge(enableWriting(k), T) /\ enableWriting(k).state = k.state
  <2>1. k.unsent => "out" \in k.events \cup {"out"}
    OBVIOUS
  <2> QED BY <1>1, <2>1, ChannelEdge DEF enableWriting
<1>3. ASSUME ~k.unsent PROVE Edge(disableWriting(k), T) /\ disableWriting(k).state = k.state
  BY <1>1, <1>3, ChannelEdge DEF disableWriting
<1>4. ASSUME k.unsent => "out" \in k.events
      PROVE  /\ Edge(disableReading(k), T) /\ disableReading(k).state = k.state
             /\ Edge(enableReading(k), T) /\ enableReading(k).unsent = k.unsent
  <2>1. k.unsent => "out" \in k.events \ {"in"} /\ "out" \in k.events \cup {"in"}
    BY <1>4
  <2>2. Edge(disableReading(k), T) /\ disableReading(k).state = k.state
    BY <1>1, <2>1, ChannelEdge DEF disableReading
  <2>3. Edge(enableReading(k), T) /\ enableReading(k).unsent = k.unsent
    BY <1>1, <2>1, ChannelEdge DEF enableReading
  <2> QED BY <2>2, <2>3
<1> QED BY <1>2, <1>3, <1>4

(* Members that touch none of this, or half-close the connection.          *)
SameSocket(k, l) ==
  /\ l.inEpoll = k.inEpoll /\ l.inq = k.inq /\ l.peer = k.peer /\ l.room = k.room
  /\ l.events = k.events /\ l.armed = k.armed /\ l.unsent = k.unsent
  /\ l.state = k.state \/ l.state = "peerClose"

(* A connection that keeps its socket and its channel keeps its edges.     *)
LEMMA SameEdge ==
  ASSUME NEW k, NEW l, NEW T, Edge(k, T), SameSocket(k, l)
  PROVE  Edge(l, T)
<1>1. Unread(l) => Unread(k)
  BY DEF Unread, SameSocket
<1>2. ReadyEvents(l) = ReadyEvents(k)
  BY DEF ReadyEvents, SameSocket
<1> QED BY <1>1, <1>2 DEF Edge, Listens, Flushes, SameSocket

(* A half-close keeps both.                                                *)
LEMMA HalfClosed ==
  ASSUME NEW k \in ConnType
  PROVE  SameSocket(k, [k EXCEPT !.state = "peerClose"])
  BY DEF ConnType, SameSocket

-----------------------------------------------------------------------------
(* A member leaves the connection with its edges, or on its way out.       *)
Minded(c, t, T) == RemovalIn(t.q, c) \/ Edge(t.k, T)

(* handleDead asks for the removal, unless that was done before.           *)
LEMMA DeadMinded ==
  ASSUME ~stop, NEW c \in Conns, NEW s \in Situation
  PROVE  /\ s.k.state # "dead" => RemovalIn(handleDead(c, s).q, c)
         /\ RemovalIn(s.q, c) => RemovalIn(handleDead(c, s).q, c)
<1> DEFINE t == RemoveOf(c)
           p == Append(s.q, t)
<1>1. s.q \in Seq(TaskType) /\ t \in TaskType /\ t.kind = "remove" /\ t.conn = c
  BY Parts, RemoveOfType
<1>2. s.k.state # "dead" => handleDead(c, s).q = p
  BY DEF handleDead, enqueueTask, RemoveOf
<1>3. s.k.state = "dead" => handleDead(c, s) = s
  BY DEF handleDead
<1>4. p[Len(s.q) + 1] = t /\ Len(s.q) + 1 \in DOMAIN p
  BY <1>1, AppendIs
<1> HIDE DEF p, t
<1>5. RemovalIn(p, c)
  BY <1>1, <1>4 DEF RemovalIn
<1> QED BY <1>2, <1>3, <1>5

(* So does the EOF check, or it leaves the connection as it is.            *)
LEMMA EofMinded ==
  ASSUME ~stop, NEW c \in Conns, NEW s \in Situation, NEW T, Minded(c, s, T)
  PROVE  Minded(c, checkEmptyReadAfterEof(c, s), T)
<1>1. CASE s.k.state = "peerClose" /\ s.k.working = 0 /\ ~s.k.unsent
  <2>1. checkEmptyReadAfterEof(c, s) = handleDead(c, s) /\ s.k.state # "dead"
    BY <1>1 DEF checkEmptyReadAfterEof
  <2> QED BY <2>1, DeadMinded DEF Minded
<1>2. CASE ~(s.k.state = "peerClose" /\ s.k.working = 0 /\ ~s.k.unsent)
  <2>1. checkEmptyReadAfterEof(c, s) = s
    BY <1>2 DEF checkEmptyReadAfterEof
  <2> QED BY <2>1
<1> QED BY <1>1, <1>2

(* An empty write buffer waits for no edge.                                *)
LEMMA DrainedMinded ==
  ASSUME ~stop, NEW c \in Conns, NEW s \in Situation, NEW T
  PROVE  Minded(c, Drained(c, s), T)
<1> DEFINE u == [s.k EXCEPT !.unsent = FALSE]
           k == disableWriting(u)
           r == [s EXCEPT !.k = k]
<1>1. u \in ConnType /\ ~u.unsent
  <2>1. s.k \in ConnType
    BY Parts
  <2>2. u.unsent = FALSE
    BY <2>1 DEF ConnType
  <2>3. u \in ConnType
    BY <2>1, FieldsFrame
  <2> QED BY <2>2, <2>3
<1> HIDE DEF u
<1>2. k \in ConnType /\ Edge(k, T)
  BY <1>1, InterestEdge, InterestFrame
<1> HIDE DEF k
<1>3. r \in Situation /\ r.k = k
  BY <1>2, Parts
<1> HIDE DEF r
<1>4. Drained(c, s) = IF k.state = "peerClose" /\ k.working = 0 THEN handleDead(c, r) ELSE r
  BY DEF Drained, r, k, u
<1>5. CASE k.state = "peerClose" /\ k.working = 0
  <2>1. Drained(c, s) = handleDead(c, r) /\ r.k.state # "dead"
    BY <1>3, <1>4, <1>5
  <2> QED BY <1>3, <2>1, DeadMinded DEF Minded
<1>6. CASE ~(k.state = "peerClose" /\ k.working = 0)
  BY <1>2, <1>3, <1>4, <1>6 DEF Minded
<1> QED BY <1>5, <1>6

(* A failed write removes the connection.                                  *)
LEMMA WriteErrorMinded ==
  ASSUME ~stop, NEW c \in Conns, NEW s \in Situation, s.k.state # "dead"
  PROVE  RemovalIn(WriteError(c, s).q, c)
<1> DEFINE e == [s.k EXCEPT !.sockErr = FALSE]
           r == [s EXCEPT !.k = e]
<1>1. s.k \in ConnType
  BY Parts
<1>2. e \in ConnType /\ e.state = s.k.state
  <2>1. e.state = s.k.state
    BY <1>1 DEF ConnType
  <2>2. e \in ConnType
    BY <1>1, FieldsFrame
  <2> QED BY <2>1, <2>2
<1> HIDE DEF e
<1>3. r \in Situation /\ r.k = e
  BY <1>2, Parts
<1> HIDE DEF r
<1>4. WriteError(c, s) = handleDead(c, r)
  BY DEF WriteError, r, e
<1> QED BY <1>2, <1>3, <1>4, DeadMinded

(* What trySendToSck cannot write waits for an edge it asks for.           *)
LEMMA TrySendMinded ==
  ASSUME ~stop, NEW c \in Conns, NEW s \in Situation, s.k.state # "dead",
         NEW w, w \in {"all", "error"} \/ CanFill(s.k), NEW T
  PROVE  Minded(c, trySendToSck(c, s, w), T)
<1>1. CASE w = "all"
  BY <1>1, DrainedMinded DEF trySendToSck
<1>2. CASE w = "error"
  BY <1>2, WriteErrorMinded DEF trySendToSck, Minded
<1>3. CASE w # "all" /\ w # "error"
  <2> DEFINE k == enableWriting(Fill(s.k))
  <2>1. Fill(s.k) \in ConnType
    BY <1>3, Parts, FillFrame
  <2>2. k \in ConnType /\ Edge(k, T)
    BY <2>1, InterestEdge, InterestFrame
  <2>3. trySendToSck(c, s, w) = [s EXCEPT !.k = k]
    BY <1>3 DEF trySendToSck
  <2> HIDE DEF k
  <2> QED BY <2>2, <2>3, Parts DEF Minded
<1> QED BY <1>1, <1>2, <1>3

(* Hence sending a response with the EOF check behind it.                  *)
LEMMA AnswerMinded ==
  ASSUME ~stop, NEW c \in Conns, NEW s \in Situation, s.k.state # "dead",
         NEW w, w \in {"all", "error"} \/ CanFill(s.k),
         NEW id \in Nat, NEW keepAlive \in BOOLEAN, NEW T
  PROVE  Minded(c, checkEmptyReadAfterEof(c, sendHttpOnLoop(c, s, w, id, keepAlive)), T)
<1> DEFINE k == Sending(s.k, id)
           b == [s EXCEPT !.k = k]
           t == trySendToSck(c, b, w)
           d == disableReading(t.k)
           h == [d EXCEPT !.state = "peerClose"]
           u == [t EXCEPT !.k = h]
           a == sendHttpOnLoop(c, s, w, id, keepAlive)
<1>1. s.k \in ConnType
  BY Parts
<1>2. k \in ConnType /\ (CanFill(s.k) => CanFill(k)) /\ k.state # "dead"
  <2>1. k \in ConnType /\ k.state = s.k.state
    BY <1>1, SendingIs
  <2>2. k.room = s.k.room /\ k.stalls = s.k.stalls
    BY <1>1 DEF ConnType, Sending
  <2> QED BY <2>1, <2>2 DEF CanFill
<1> HIDE DEF k
<1>3. b \in Situation /\ b.k = k
  BY <1>2, Parts
<1> HIDE DEF b
<1>4. t \in Situation /\ Minded(c, t, T)
  BY <1>2, <1>3, TrySendKeeps, TrySendMinded
<1>5. a = IF keepAlive THEN t ELSE u
  BY DEF sendHttpOnLoop, t, b, k, u, h, d, Sending
<1>6. a \in Situation
  BY SendKeeps
<1> HIDE DEF t, a
<1>7. d \in ConnType /\ (Edge(t.k, T) => Edge(d, T))
  <2>1. t.k \in ConnType
    BY <1>4, Parts
  <2>2. Edge(t.k, T) => (t.k.unsent => "out" \in t.k.events)
    BY DEF Edge, Flushes
  <2> QED BY <2>1, <2>2, InterestEdge, InterestFrame
<1> HIDE DEF d
<1>8. h \in ConnType /\ (Edge(d, T) => Edge(h, T))
  <2>1. h \in ConnType /\ SameSocket(d, h)
    BY <1>7, FieldsFrame, HalfClosed
  <2> HIDE DEF h
  <2> QED BY <2>1, SameEdge
<1> HIDE DEF h
<1>9. u.k = h /\ u.q = t.q
  BY <1>4, <1>8, Parts
<1> HIDE DEF u
<1>10. Minded(c, a, T)
  BY <1>4, <1>5, <1>7, <1>8, <1>9 DEF Minded
<1> QED BY <1>6, <1>10, EofMinded DEF a

(* The read callback empties the receive queue or meets the end.           *)
LEMMA ReadMinded ==
  ASSUME ~stop, NEW c \in Conns, NEW s \in Situation, s.k.state # "dead", NEW T, Edge(s.k, T)
  PROVE  Minded(c, readFromSck(c, s), T \ {"in"})
<1> DEFINE k == [s.k EXCEPT !.readBuffer = @ \o s.k.inq, !.inq = <<>>]
           e == [k EXCEPT !.sockErr = FALSE]
           f == [k EXCEPT !.state = "peerClose"]
           r == [s EXCEPT !.k = e]
<1>1. s.k \in ConnType
  BY Parts
<1>2. s.k.readBuffer \o s.k.inq \in Seq(Piece) /\ <<>> \in Seq(Piece)
  <2>1. s.k.readBuffer \in Seq(Piece) /\ s.k.inq \in Seq(Piece)
    BY <1>1 DEF ConnType
  <2> QED BY <2>1
<1>3. k \in ConnType
  BY <1>1, <1>2 DEF ConnType
<1>4. /\ k.inEpoll = s.k.inEpoll /\ k.inq = <<>> /\ k.peer = s.k.peer /\ k.room = s.k.room
      /\ k.events = s.k.events /\ k.armed = s.k.armed /\ k.unsent = s.k.unsent
      /\ k.state = s.k.state /\ k.sockErr = s.k.sockErr
  BY <1>1 DEF ConnType
<1> HIDE DEF k
<1>5. k.inEpoll /\ Flushes(k, T \ {"in"})
  <2>1. ReadyEvents(s.k) \cap {"out"} = ReadyEvents(k) \cap {"out"}
    BY <1>4 DEF ReadyEvents
  <2>2. "out" \in ReadyEvents(k) => "out" \in ReadyEvents(s.k)
    BY <2>1
  <2> QED BY <1>4, <2>2 DEF Edge, Flushes
<1>6. readFromSck(c, s) = IF k.peer = "open" THEN [s EXCEPT !.k = k]
                          ELSE IF k.peer = "rst" /\ k.sockErr THEN handleDead(c, r)
                          ELSE [s EXCEPT !.k = f]
  BY DEF readFromSck, k, e, f, r
<1>7. CASE k.peer = "open"
  <2>1. Edge(k, T \ {"in"})
    BY <1>4, <1>5, <1>7 DEF Edge, Listens, Unread
  <2> QED BY <1>3, <1>6, <1>7, <2>1, Parts DEF Minded
<1>8. CASE k.peer # "open" /\ k.peer = "rst" /\ k.sockErr
  <2>1. e \in ConnType /\ e.state = k.state
    <3>1. e.state = k.state
      BY <1>3 DEF ConnType
    <3> QED BY <1>3, <3>1, FieldsFrame
  <2> HIDE DEF e
  <2>2. r \in Situation /\ r.k.state # "dead"
    BY <1>4, <2>1, Parts
  <2> QED BY <1>6, <1>8, <2>2, DeadMinded DEF Minded
<1>9. CASE k.peer # "open" /\ ~(k.peer = "rst" /\ k.sockErr)
  <2>1. f \in ConnType /\ f.state = "peerClose" /\ SameSocket(k, f)
    <3>1. f.state = "peerClose"
      BY <1>3 DEF ConnType
    <3> QED BY <1>3, <3>1, FieldsFrame, HalfClosed
  <2> HIDE DEF f
  <2>2. f.inEpoll /\ ~Unread(f)
    BY <1>4, <1>5, <2>1 DEF SameSocket, Unread
  <2>3. ReadyEvents(f) = ReadyEvents(k)
    BY <2>1 DEF ReadyEvents, SameSocket
  <2>4. Edge(f, T \ {"in"})
    BY <1>5, <2>1, <2>2, <2>3 DEF Edge, Listens, Flushes, SameSocket
  <2> QED BY <1>6, <1>9, <2>1, <2>4, Parts DEF Minded
<1> QED BY <1>7, <1>8, <1>9

(* The write callback leaves a full socket or an empty buffer.             *)
LEMMA FillEdge ==
  ASSUME NEW k \in ConnType, NEW w \in WriteResults(k), w \notin {"all", "error"}, NEW T,
         Edge(k, T)
  PROVE  Edge(Fill(k), T \ {"out"})
<1> DEFINE l == Fill(k)
<1>1. k.peer # "rst" /\ CanFill(k)
  BY WriteAnswers DEF WriteResults
<1>2. /\ l.inEpoll = k.inEpoll /\ l.inq = k.inq /\ l.peer = k.peer /\ l.state = k.state
      /\ l.events = k.events /\ l.armed = k.armed /\ l.unsent = k.unsent /\ ~l.room
  BY <1>1 DEF Fill, ConnType
<1> HIDE DEF l
<1>3. Unread(l) => Unread(k)
  BY <1>2 DEF Unread
<1>4. "out" \notin ReadyEvents(l)
  BY <1>1, <1>2 DEF ReadyEvents
<1> QED BY <1>2, <1>3, <1>4 DEF Edge, Listens, Flushes, l

-----------------------------------------------------------------------------
(* A removal stays in the queues until it is run.                          *)
LEMMA RemovalStays ==
  ASSUME NEW c \in Conns, NEW q, NEW p, OnlyRemoves(c, q, p), NEW d, RemovalIn(q, d)
  PROVE  RemovalIn(p, d)
  BY RemovesKind DEF RemovalIn

(* Tasks behind it do not remove it.                                       *)
LEMMA RemovalAppend ==
  ASSUME NEW q \in Seq(TaskType), NEW t \in TaskType, NEW d, RemovalIn(q, d)
  PROVE  RemovalIn(Append(q, t), d)
<1> DEFINE p == Append(q, t)
<1>1. \A i \in DOMAIN q : i \in DOMAIN p /\ p[i] = q[i]
  BY AppendIs
<1> HIDE DEF p
<1>2. RemovalIn(p, d)
  BY <1>1 DEF RemovalIn
<1> QED BY <1>2 DEF p

(* It stays until its turn comes.                                          *)
LEMMA RemovalTail ==
  ASSUME NEW q \in Seq(TaskType), q # <<>>, NEW d, RemovalIn(q, d),
         ~(Head(q).kind = "remove" /\ Head(q).conn = d)
  PROVE  RemovalIn(Tail(q), d)
<1> DEFINE p == Tail(q)
<1>1. PICK j \in DOMAIN q : q[j].kind = "remove" /\ q[j].conn = d
  BY DEF RemovalIn
<1>2. /\ DOMAIN p = 1..(Len(q) - 1) /\ DOMAIN q = 1..Len(q) /\ Len(q) \in Nat
      /\ q[1] = Head(q)
      /\ \A i \in DOMAIN p : p[i] = q[i + 1]
  BY TailIs
<1> HIDE DEF p
<1>3. j # 1
  BY <1>1, <1>2
<1>4. j - 1 \in DOMAIN p /\ (j - 1) + 1 = j
  BY <1>1, <1>2, <1>3
<1>5. p[j - 1] = q[j]
  BY <1>2, <1>4
<1>6. RemovalIn(p, d)
  BY <1>1, <1>4, <1>5 DEF RemovalIn
<1> QED BY <1>6 DEF p

(* A handler of c, given what it does to c.                                *)
LEMMA HandlerEdges ==
  ASSUME ConnInv, StoppedIsDead, Edges, NEW c \in Conns, NEW w, NEW n, NEW s, Does(c, w, n, s),
         \A d \in Conns \ {c} : todo'[d] = todo[d],
         funcs' = funcs \/ (funcs # <<>> /\ funcs' = Tail(funcs) /\ Head(funcs).kind # "remove"),
         ~stop /\ conn[c].state # "dead" /\ Edge(conn[c], todo[c])
           => RemovalIn(tasks', c) \/ Edge(conn'[c], todo'[c])
  PROVE  Edges'
<1>1. /\ \A d \in Conns \ {c} : conn'[d] = conn[d]
      /\ conn'[c].inMap = conn[c].inMap /\ conn'[c].state # "none"
      /\ conn[c].state = "dead" => conn'[c].state = "dead"
      /\ OnlyRemoves(c, tasks, tasks')
  BY DEF Does
<1>2. \A d \in Conns : RemovalIn(tasks, d) => RemovalIn(tasks', d)
  BY <1>1, RemovalStays
<1>3. funcs \in Seq(TaskType)
  BY DEF ConnInv, Typed
<1>4. \A d \in Conns : RemovalIn(funcs, d) => RemovalIn(funcs', d)
  BY <1>3, RemovalTail
<1>5. ASSUME NEW d \in Conns, Served(d)'
      PROVE  Edge(conn'[d], todo'[d])
  <2>1. conn'[d].inMap /\ conn'[d].state # "dead" /\ ~RemovalIn(tasks', d) /\ ~RemovalIn(funcs', d)
    BY <1>5 DEF Served
  <2>2. conn[d].inMap /\ conn[d].state # "dead"
    BY <1>1, <2>1
  <2>3. Served(d)
    BY <1>2, <1>4, <2>1, <2>2 DEF Served
  <2>4. Edge(conn[d], todo[d]) /\ ~stop
    BY <2>2, <2>3 DEF Edges, StoppedIsDead
  <2>5. CASE d = c
    BY <2>1, <2>2, <2>4, <2>5
  <2>6. CASE d # c
    BY <1>1, <2>4, <2>6
  <2> QED BY <2>5, <2>6
<1>6. \A d \in Conns : conn'[d].state = "none" => ~conn'[d].unsent
  BY <1>1 DEF Edges
<1> QED BY <1>5, <1>6 DEF Edges

(* An event that is handled leaves the batch.                              *)
LEMMA TurnIs ==
  ASSUME ConnInv, NEW c \in Conns, NEW e, Turn(c, e)
  PROVE  todo'[c] = todo[c] \ {e} /\ \A d \in Conns \ {c} : todo'[d] = todo[d]
  BY DEF Turn, ConnInv, Typed

(* The situation a handler ends in.                                        *)
LEMMA UpdateIs ==
  ASSUME ConnInv, NEW c \in Conns, NEW t, Update(c, t)
  PROVE  conn'[c] = t.k /\ tasks' = t.q
  BY DEF Update, ConnInv, Typed

(* The timer is not part of the socket.                                    *)
LEMMA RefreshSame ==
  ASSUME NEW k \in ConnType
  PROVE  SameSocket(k, refreshTimer(k)) /\ refreshTimer(k).state = k.state
  BY DEF refreshTimer, ConnType, SameSocket

(* The read callback empties the receive queue: the edge it used up has    *)
(* nothing left to report.                                                 *)
LEMMA ReadEdges ==
  ASSUME ConnInv, Life, Edges, NEW c \in Conns, handleReadCallBack(c)
  PROVE  Edges'
<1> DEFINE l == refreshTimer(conn[c])
           r == [Self(c) EXCEPT !.k = l]
           s == readFromSck(c, r)
           T == todo[c] \ {"in"}
<1>1. Unborn /\ StoppedIsDead
  BY DEF Life
<1>2. Does(c, conn[c].working, conn[c].nreq, conn[c].sent) /\ funcs' = funcs
  BY <1>1, ReadDoes
<1>3. todo'[c] = T /\ \A d \in Conns \ {c} : todo'[d] = todo[d]
  BY TurnIs DEF handleReadCallBack
<1>4. ASSUME ~stop, conn[c].state # "dead", Edge(conn[c], todo[c])
      PROVE  RemovalIn(tasks', c) \/ Edge(conn'[c], T)
  <2>1. l \in ConnType /\ Edge(l, todo[c]) /\ l.state # "dead"
    BY <1>4, SelfIs, FieldsFrame, RefreshSame, SameEdge
  <2> HIDE DEF l
  <2>2. r \in Situation /\ r.k = l
    BY <2>1, SelfIs
  <2> HIDE DEF r
  <2>3. s \in Situation /\ Minded(c, s, T)
    BY <1>4, <2>1, <2>2, ReadKeeps, ReadMinded
  <2> HIDE DEF s, T
  <2>4. Minded(c, checkEmptyReadAfterEof(c, s), T)
    BY <1>4, <2>3, EofMinded
  <2>5. Update(c, s) \/ Update(c, checkEmptyReadAfterEof(c, s))
    BY DEF handleReadCallBack, s, r, l
  <2> QED BY <2>3, <2>4, <2>5, UpdateIs DEF Minded
<1> QED BY <1>1, <1>2, <1>3, <1>4, HandlerEdges

(* The write callback goes on to EAGAIN or to an empty buffer.             *)
LEMMA WriteEdges ==
  ASSUME ConnInv, Life, Edges, NEW c \in Conns, handleWriteCallBack(c)
  PROVE  Edges'
<1> DEFINE k == refreshTimer(conn[c])
           s == [Self(c) EXCEPT !.k = k]
           T == todo[c] \ {"out"}
<1>1. Unborn /\ StoppedIsDead
  BY DEF Life
<1>2. Does(c, conn[c].working, conn[c].nreq, conn[c].sent) /\ funcs' = funcs
  BY <1>1, WriteDoes
<1>3. todo'[c] = T /\ \A d \in Conns \ {c} : todo'[d] = todo[d]
  BY TurnIs DEF handleWriteCallBack
<1>4. ASSUME ~stop, conn[c].state # "dead", Edge(conn[c], todo[c])
      PROVE  RemovalIn(tasks', c) \/ Edge(conn'[c], T)
  <2>1. k \in ConnType /\ Edge(k, todo[c]) /\ k.state # "dead"
    BY <1>4, SelfIs, FieldsFrame, RefreshSame, SameEdge
  <2>2. IF ~k.unsent THEN Update(c, [s EXCEPT !.k = disableWriting(k)])
        ELSE \E w \in WriteResults(k) :
               Update(c, IF w = "all" THEN Drained(c, s)
                         ELSE IF w = "error" THEN WriteError(c, s)
                         ELSE [s EXCEPT !.k = Fill(k)])
    BY <1>4 DEF handleWriteCallBack
  <2> HIDE DEF k
  <2>3. s \in Situation /\ s.k = k
    BY <2>1, SelfIs
  <2> HIDE DEF s, T
  <2>4. CASE ~k.unsent
    <3>1. disableWriting(k) \in ConnType /\ Edge(disableWriting(k), T)
      BY <2>1, <2>4, InterestEdge, InterestFrame
    <3>2. [s EXCEPT !.k = disableWriting(k)].k = disableWriting(k)
      BY <2>3, <3>1, Parts
    <3> QED BY <2>2, <2>4, <3>1, <3>2, UpdateIs
  <2>5. CASE k.unsent
    <3>1. PICK w \in WriteResults(k) :
               Update(c, IF w = "all" THEN Drained(c, s)
                         ELSE IF w = "error" THEN WriteError(c, s)
                         ELSE [s EXCEPT !.k = Fill(k)])
      BY <2>2, <2>5
    <3>2. CASE w = "all"
      <4>1. Minded(c, Drained(c, s), T) /\ Update(c, Drained(c, s))
        BY <1>4, <2>3, <3>1, <3>2, DrainedMinded
      <4> QED BY <4>1, UpdateIs DEF Minded
    <3>3. CASE w = "error"
      <4>1. RemovalIn(WriteError(c, s).q, c) /\ Update(c, WriteError(c, s))
        BY <1>4, <2>1, <2>3, <3>1, <3>3, WriteErrorMinded
      <4> QED BY <4>1, UpdateIs
    <3>4. CASE w \notin {"all", "error"}
      <4>1. Edge(Fill(k), T)
        BY <2>1, <3>1, <3>4, FillEdge DEF T
      <4>2. Fill(k) \in ConnType
        BY <2>1, <3>1, <3>4, WriteAnswers, FillFrame
      <4>3. [s EXCEPT !.k = Fill(k)].k = Fill(k) /\ Update(c, [s EXCEPT !.k = Fill(k)])
        BY <2>3, <3>1, <3>4, <4>2, Parts
      <4> QED BY <4>1, <4>3, UpdateIs
    <3> QED BY <3>2, <3>3, <3>4
  <2> QED BY <2>4, <2>5
<1> QED BY <1>1, <1>2, <1>3, <1>4, HandlerEdges

(* The idle timer removes the connection.                                  *)
LEMMA TimeoutEdges ==
  ASSUME ConnInv, Life, Edges, NEW c \in Conns, idleTimeout(c)
  PROVE  Edges'
<1> DEFINE k == [conn[c] EXCEPT !.timer = "none"]
           s == [Self(c) EXCEPT !.k = k]
<1>1. Unborn /\ StoppedIsDead
  BY DEF Life
<1>2. Does(c, conn[c].working, conn[c].nreq, conn[c].sent) /\ funcs' = funcs
  BY <1>1, TimeoutDoes
<1>3. \A d \in Conns : todo'[d] = todo[d]
  BY DEF idleTimeout
<1>4. ASSUME ~stop, conn[c].state # "dead"
      PROVE  RemovalIn(tasks', c)
  <2>1. k.state = conn[c].state /\ k \in ConnType
    <3>1. conn[c] \in ConnType
      BY SelfIs
    <3>2. k.state = conn[c].state
      BY <3>1 DEF ConnType
    <3> QED BY <3>1, <3>2, FieldsFrame
  <2>2. [Self(c) EXCEPT !.k.timer = "none"] = s
    BY DEF Self
  <2> HIDE DEF k
  <2>3. s \in Situation /\ s.k = k
    BY <2>1, SelfIs
  <2>4. Update(c, handleDead(c, s))
    BY <2>2 DEF idleTimeout
  <2> HIDE DEF s
  <2> QED BY <1>4, <2>1, <2>3, <2>4, DeadMinded, UpdateIs
<1> QED BY <1>1, <1>2, <1>3, <1>4, HandlerEdges

(* Parsing does not touch the socket.                                      *)
LEMMA ConsumedSame ==
  ASSUME ConnInv, NEW c \in Conns
  PROVE  SameSocket(conn[c], Consumed(c))
<1>1. conn[c] \in ConnType
  BY SelfIs
<1> QED BY <1>1 DEF Consumed, ConnType, SameSocket

(* The rounds of the parse loop, with whatever they send.                  *)
LEMMA RoundEdges ==
  ASSUME ConnInv, Life, Edges, NEW c \in Conns, onHttp(c)
  PROVE  Edges'
<1> DEFINE l == Consumed(c)
           T == todo[c]
<1>1. Unborn /\ StoppedIsDead
  BY DEF Life
<1>2. /\ l \in ConnType /\ SameSocket(conn[c], l) /\ l.state = conn[c].state
      /\ l.room = conn[c].room /\ l.stalls = conn[c].stalls
      /\ l.nreq + 1 \in Nat /\ l.working + 1 \in Int /\ conn[c].nreq = l.nreq
  BY ConsumedIs, ConsumedSame, ConsumedSound DEF Frame
<1>3. ASSUME NEW w, NEW n, NEW s, Does(c, w, n, s), funcs' = funcs, todo' = todo,
             ~stop /\ conn[c].state # "dead" /\ Edge(conn[c], T)
               => RemovalIn(tasks', c) \/ Edge(conn'[c], T)
      PROVE  Edges'
  BY <1>1, <1>3, HandlerEdges
<1>4. CASE onHttpDead(c)
  <2>1. Does(c, conn[c].working, conn[c].nreq, conn[c].sent) /\ funcs' = funcs /\ todo' = todo
    BY <1>1, <1>4, PlainRoundDoes DEF onHttpDead
  <2>2. conn[c].state = "dead"
    BY <1>4 DEF onHttpDead
  <2> QED BY <1>3, <2>1, <2>2
<1>5. CASE onHttpNeedMore(c)
  <2>1. Does(c, conn[c].working, conn[c].nreq, conn[c].sent) /\ funcs' = funcs /\ todo' = todo
    BY <1>1, <1>5, PlainRoundDoes DEF onHttpNeedMore
  <2>2. conn'[c] = l
    <3> DEFINE u == [Self(c) EXCEPT !.k = l]
    <3>1. Update(c, u)
      BY <1>5 DEF onHttpNeedMore
    <3> HIDE DEF l
    <3>2. u.k = l
      BY <1>2, SelfIs
    <3> HIDE DEF u
    <3> QED BY <3>1, <3>2, UpdateIs
  <2> HIDE DEF l, T
  <2>3. Edge(conn[c], T) => Edge(conn'[c], T)
    BY <1>2, <2>2, SameEdge
  <2> QED BY <1>3, <2>1, <2>3
<1>6. CASE onHttpLineTooLong(c)
  <2> DEFINE d == disableReading(l)
             k == [d EXCEPT !.state = "peerClose"]
             s == [Self(c) EXCEPT !.k = k]
  <2>1. Does(c, conn[c].working, conn[c].nreq, conn[c].sent) /\ funcs' = funcs /\ todo' = todo
    BY <1>1, <1>6, PlainRoundDoes DEF onHttpLineTooLong
  <2>2. Update(c, checkEmptyReadAfterEof(c, s))
    BY <1>6 DEF onHttpLineTooLong
  <2> HIDE DEF l, T
  <2>3. ASSUME ~stop, Edge(conn[c], T)
        PROVE  RemovalIn(tasks', c) \/ Edge(conn'[c], T)
    <3>1. Edge(l, T)
      BY <1>2, <2>3, SameEdge
    <3>2. l.unsent => "out" \in l.events
      BY <3>1 DEF Edge, Flushes
    <3>3. d \in ConnType /\ Edge(d, T)
      BY <1>2, <3>2, InterestEdge, InterestFrame
    <3> HIDE DEF d
    <3>4. k \in ConnType /\ SameSocket(d, k)
      BY <3>3, FieldsFrame, HalfClosed
    <3> HIDE DEF k
    <3>5. Edge(k, T)
      BY <3>3, <3>4, SameEdge
    <3>6. s \in Situation /\ s.k = k
      BY <3>4, SelfIs
    <3> HIDE DEF s
    <3>7. Minded(c, checkEmptyReadAfterEof(c, s), T)
      BY <2>3, <3>5, <3>6, EofMinded DEF Minded
    <3> QED BY <2>2, <3>7, UpdateIs DEF Minded
  <2> QED BY <1>3, <2>1, <2>3
<1>7. CASE onHttpError(c)
  <2> DEFINE s == [Self(c) EXCEPT !.k = l]
             x == Append(conn[c].sent, 0)
  <2>1. Does(c, conn[c].working, conn[c].nreq, x) /\ funcs' = funcs /\ todo' = todo
        /\ conn[c].state # "dead"
    BY <1>1, <1>7, ErrorDoes DEF onHttpError
  <2>2. PICK w \in WriteResults(conn[c]) :
          Update(c, checkEmptyReadAfterEof(c, sendHttpOnLoop(c, s, w, 0, FALSE)))
    BY <1>7 DEF onHttpError
  <2> HIDE DEF l, T
  <2>3. s \in Situation /\ s.k = l
    BY <1>2, SelfIs
  <2> HIDE DEF s, x
  <2>4. w \in {"all", "error"} \/ CanFill(s.k)
    BY <1>2, <2>2, <2>3, SelfIs, WriteAnswers DEF CanFill
  <2>5. ASSUME ~stop PROVE RemovalIn(tasks', c) \/ Edge(conn'[c], T)
    <3>1. Minded(c, checkEmptyReadAfterEof(c, sendHttpOnLoop(c, s, w, 0, FALSE)), T)
      BY <1>2, <2>1, <2>3, <2>4, <2>5, AnswerMinded
    <3> QED BY <2>2, <3>1, UpdateIs DEF Minded
  <2> QED BY <1>3, <2>1, <2>5
<1>8. CASE onHttpProcess(c)
  <2> DEFINE k == [l EXCEPT !.nreq = @ + 1, !.working = @ + 1]
             u == [Self(c) EXCEPT !.k = k]
  <2>1. /\ Does(c, conn[c].working + 1, conn[c].nreq + 1, conn[c].sent) /\ funcs' = funcs
        /\ todo' = todo
    BY <1>1, <1>8, ProcessDoes DEF onHttpProcess
  <2>2. Update(c, u)
    BY <1>8 DEF onHttpProcess
  <2> HIDE DEF l, T
  <2>3. k \in ConnType
    BY <1>2 DEF ConnType
  <2>4. SameSocket(l, k)
    BY <1>2 DEF ConnType, SameSocket
  <2> HIDE DEF k
  <2>5. conn'[c] = k
    <3>1. u.k = k
      BY <2>3, SelfIs
    <3> HIDE DEF u
    <3> QED BY <2>2, <3>1, UpdateIs
  <2>6. Edge(conn[c], T) => Edge(conn'[c], T)
    BY <1>2, <2>4, <2>5, SameEdge
  <2> QED BY <1>3, <2>1, <2>6
<1>9. CASE onHttpInline(c)
  <2> DEFINE k == [l EXCEPT !.nreq = @ + 1]
             s == [Self(c) EXCEPT !.k = k]
             r == Request(c)
             a(w) == checkEmptyReadAfterEof(c, sendHttpOnLoop(c, s, w, r.id, r.keepAlive))
             x == Append(conn[c].sent, conn[c].nreq + 1)
  <2>1. Does(c, conn[c].working, conn[c].nreq + 1, x) /\ funcs' = funcs /\ todo' = todo
        /\ conn[c].state # "dead"
    BY <1>1, <1>9, InlineDoes DEF onHttpInline
  <2>2. PICK w \in WriteResults(conn[c]) : Update(c, a(w))
    BY <1>9 DEF onHttpInline
  <2>3. r.id \in Nat /\ r.keepAlive \in BOOLEAN
    BY <1>2 DEF Request
  <2> HIDE DEF l, T, r, x
  <2>4. k \in ConnType
    BY <1>2 DEF ConnType
  <2>5. k.state = l.state /\ k.room = l.room /\ k.stalls = l.stalls
    BY <1>2 DEF ConnType
  <2> HIDE DEF k
  <2>6. s \in Situation /\ s.k = k
    BY <2>4, SelfIs
  <2> HIDE DEF s
  <2>7. w \in {"all", "error"} \/ CanFill(s.k)
    BY <1>2, <2>2, <2>5, <2>6, SelfIs, WriteAnswers DEF CanFill
  <2>8. ASSUME ~stop PROVE RemovalIn(tasks', c) \/ Edge(conn'[c], T)
    <3>1. Minded(c, a(w), T)
      BY <1>2, <2>1, <2>3, <2>5, <2>6, <2>7, <2>8, AnswerMinded
    <3> HIDE DEF a
    <3> QED BY <2>2, <3>1, UpdateIs DEF Minded
  <2> QED BY <1>3, <2>1, <2>8
<1> QED BY <1>4, <1>5, <1>6, <1>7, <1>8, <1>9 DEF onHttp

(* An answer from the pool.                                                *)
LEMMA RespEdges ==
  ASSUME ConnInv, Life, Edges, respTask
  PROVE  Edges'
<1> DEFINE t == Head(funcs)
           c == t.conn
           l == conn[c]
           k == [l EXCEPT !.working = @ - 1]
           r == [Self(c) EXCEPT !.k.working = @ - 1]
           T == todo[c]
           x == IF conn[c].state = "dead" THEN conn[c].sent ELSE Append(conn[c].sent, t.id)
<1>1. /\ Does(c, conn[c].working - 1, conn[c].nreq, x)
      /\ c \in Conns /\ t.kind = "resp" /\ funcs # <<>> /\ funcs' = Tail(funcs) /\ todo' = todo
  <2>1. Unborn /\ conn[Head(funcs).conn].state # "none"
    BY RespIsBorn DEF Life
  <2> QED BY <2>1, RespDoes
<1>2. t.id \in Nat /\ t.keepAlive \in BOOLEAN
  <2>1. t \in TaskType
    BY TaskType1 DEF ConnInv, respTask, RunTask
  <2> QED BY <1>1, <2>1 DEF TaskType
<1>3. PICK w \in IF l.state = "dead" THEN {"none"} ELSE WriteResults(l) :
        Update(c, WorkerAnswer(t, Self(c), w))
  BY DEF respTask
<1>4. StoppedIsDead
  BY DEF Life
<1> HIDE DEF t, x
<1>5. l \in ConnType
  BY <1>1, SelfIs
<1>6. k \in ConnType
  <2>1. l.working \in Int /\ l.working - 1 \in Int
    BY <1>5, WorkingIs
  <2> QED BY <1>5, <2>1 DEF ConnType
<1>7. k.room = l.room /\ k.stalls = l.stalls /\ k.state = l.state
  BY <1>5 DEF ConnType
<1>8. r = [Self(c) EXCEPT !.k = k]
  BY DEF Self
<1> HIDE DEF k
<1>9. r \in Situation /\ r.k = k
  <2> HIDE DEF r
  <2>1. [Self(c) EXCEPT !.k = k] \in Situation /\ [Self(c) EXCEPT !.k = k].k = k
    BY <1>1, <1>6, SelfIs
  <2> QED BY <1>8, <2>1
<1>10. WorkerAnswer(t, Self(c), w)
         = IF r.k.state = "dead" THEN r
           ELSE checkEmptyReadAfterEof(c, sendHttpOnLoop(c, r, w, t.id, t.keepAlive))
  BY DEF WorkerAnswer
<1> HIDE DEF r, T
<1>11. ASSUME ~stop, l.state # "dead" PROVE RemovalIn(tasks', c) \/ Edge(conn'[c], T)
  <2> DEFINE u == checkEmptyReadAfterEof(c, sendHttpOnLoop(c, r, w, t.id, t.keepAlive))
  <2>1. w \in {"all", "error"} \/ CanFill(r.k)
    BY <1>3, <1>5, <1>7, <1>9, <1>11, WriteAnswers DEF CanFill
  <2>2. Minded(c, u, T)
    BY <1>1, <1>2, <1>7, <1>9, <1>11, <2>1, AnswerMinded
  <2>3. Update(c, u)
    BY <1>3, <1>7, <1>9, <1>10, <1>11
  <2> HIDE DEF u
  <2> QED BY <1>1, <2>2, <2>3, UpdateIs DEF Minded
<1> QED BY <1>1, <1>4, <1>11, HandlerEdges DEF t, T

(* The socket wakes up a channel that is registered for the event.         *)
LEMMA WokenIs ==
  ASSUME NEW k \in ConnType, NEW e
  PROVE  LET l == Wakeup(k, e)
         IN  /\ l \in ConnType
             /\ l.inEpoll = k.inEpoll /\ l.inq = k.inq /\ l.peer = k.peer /\ l.room = k.room
             /\ l.events = k.events /\ l.unsent = k.unsent /\ l.state = k.state
             /\ l.inMap = k.inMap /\ (k.armed => l.armed)
             /\ k.inEpoll /\ e \in k.events => l.armed
<1>1. Wakeup(k, e) \in ConnType
  BY WakeupIs
<1>2. LET l == Wakeup(k, e)
      IN  /\ l.inEpoll = k.inEpoll /\ l.inq = k.inq /\ l.peer = k.peer /\ l.room = k.room
          /\ l.events = k.events /\ l.unsent = k.unsent /\ l.state = k.state
          /\ l.inMap = k.inMap
          /\ l.armed = (k.armed \/ (k.inEpoll /\ e \in k.events))
  BY DEF Wakeup, ConnType
<1> QED BY <1>1, <1>2

(* What the peers and the clock do to a connection.                        *)
Woken(k, l) ==
  /\ l.unsent = k.unsent /\ l.state = k.state /\ l.inMap = k.inMap
  /\ \A T : Edge(k, T) => Edge(l, T)

(* Bytes arrive.                                                           *)
LEMMA ArriveWakes ==
  ASSUME NEW k \in ConnType, k.script # <<>>
  PROVE  Woken(k, Wakeup([k EXCEPT !.inq = Append(@, Head(k.script)), !.script = Tail(@)], "in"))
<1> DEFINE m == [k EXCEPT !.inq = Append(@, Head(k.script)), !.script = Tail(@)]
           l == Wakeup(m, "in")
<1>1. m \in ConnType
  <2>1. k.script \in Seq(Piece) /\ k.inq \in Seq(Piece)
    BY DEF ConnType
  <2>2. Append(k.inq, Head(k.script)) \in Seq(Piece) /\ Tail(k.script) \in Seq(Piece)
    BY <2>1
  <2> QED BY <2>2 DEF ConnType
<1>2. /\ m.inEpoll = k.inEpoll /\ m.peer = k.peer /\ m.room = k.room /\ m.events = k.events
      /\ m.armed = k.armed /\ m.unsent = k.unsent /\ m.state = k.state /\ m.inMap = k.inMap
  BY DEF ConnType
<1> HIDE DEF m
<1>3. /\ l.inEpoll = k.inEpoll /\ l.peer = k.peer /\ l.room = k.room /\ l.events = k.events
      /\ l.unsent = k.unsent /\ l.state = k.state /\ l.inMap = k.inMap
      /\ k.armed => l.armed
      /\ k.inEpoll /\ "in" \in k.events => l.armed
  BY <1>1, <1>2, WokenIs
<1> HIDE DEF l
<1>4. "out" \in ReadyEvents(l) => "out" \in ReadyEvents(k)
  BY <1>3 DEF ReadyEvents
<1>5. \A T : Edge(k, T) => Edge(l, T)
  BY <1>3, <1>4 DEF Edge, Listens, Flushes
<1> QED BY <1>3, <1>5 DEF Woken, l, m

(* The peer closes its side.                                               *)
LEMMA FinWakes ==
  ASSUME NEW k \in ConnType, k.peer = "open"
  PROVE  Woken(k, Wakeup([k EXCEPT !.peer = "fin"], "in"))
<1> DEFINE m == [k EXCEPT !.peer = "fin"]
           l == Wakeup(m, "in")
<1>1. m \in ConnType
  BY DEF ConnType
<1>2. /\ m.inEpoll = k.inEpoll /\ m.peer = "fin" /\ m.room = k.room /\ m.events = k.events
      /\ m.armed = k.armed /\ m.unsent = k.unsent /\ m.state = k.state /\ m.inMap = k.inMap
  BY DEF ConnType
<1> HIDE DEF m
<1>3. /\ l.inEpoll = k.inEpoll /\ l.peer = "fin" /\ l.room = k.room /\ l.events = k.events
      /\ l.unsent = k.unsent /\ l.state = k.state /\ l.inMap = k.inMap
      /\ k.armed => l.armed
      /\ k.inEpoll /\ "in" \in k.events => l.armed
  BY <1>1, <1>2, WokenIs
<1> HIDE DEF l
<1>4. "out" \in ReadyEvents(l) => "out" \in ReadyEvents(k)
  BY <1>3 DEF ReadyEvents
<1>5. \A T : Edge(k, T) => Edge(l, T)
  BY <1>3, <1>4 DEF Edge, Listens, Flushes
<1> QED BY <1>3, <1>5 DEF Woken, l, m

(* The peer resets the connection.                                         *)
LEMMA ResetWakes ==
  ASSUME NEW k \in ConnType, NEW b \in BOOLEAN
  PROVE  LET m == [k EXCEPT !.peer = "rst", !.sockErr = b]
         IN  Woken(k, Wakeup(Wakeup(m, "in"), "out"))
<1> DEFINE m == [k EXCEPT !.peer = "rst", !.sockErr = b]
           h == Wakeup(m, "in")
           l == Wakeup(h, "out")
<1>1. m \in ConnType
  BY DEF ConnType
<1>2. /\ m.inEpoll = k.inEpoll /\ m.events = k.events
      /\ m.unsent = k.unsent /\ m.state = k.state /\ m.inMap = k.inMap
  BY DEF ConnType
<1> HIDE DEF m
<1>3. /\ h \in ConnType /\ h.inEpoll = k.inEpoll /\ h.events = k.events
      /\ h.unsent = k.unsent /\ h.state = k.state /\ h.inMap = k.inMap
      /\ k.inEpoll /\ "in" \in k.events => h.armed
  BY <1>1, <1>2, WokenIs
<1> HIDE DEF h
<1>4. /\ l.inEpoll = k.inEpoll /\ l.events = k.events
      /\ l.unsent = k.unsent /\ l.state = k.state /\ l.inMap = k.inMap
      /\ k.inEpoll /\ "in" \in k.events => l.armed
      /\ k.inEpoll /\ "out" \in k.events => l.armed
  BY <1>3, WokenIs
<1> HIDE DEF l
<1>5. \A T : Edge(k, T) => Edge(l, T)
  BY <1>4 DEF Edge, Listens, Flushes
<1> QED BY <1>4, <1>5 DEF Woken, l, h, m

(* The peer reads, and there is room again.                                *)
LEMMA ReadsWakes ==
  ASSUME NEW k \in ConnType
  PROVE  Woken(k, Wakeup([k EXCEPT !.room = TRUE], "out"))
<1> DEFINE m == [k EXCEPT !.room = TRUE]
           l == Wakeup(m, "out")
<1>1. m \in ConnType
  BY DEF ConnType
<1>2. /\ m.inEpoll = k.inEpoll /\ m.inq = k.inq /\ m.peer = k.peer /\ m.events = k.events
      /\ m.armed = k.armed /\ m.unsent = k.unsent /\ m.state = k.state /\ m.inMap = k.inMap
  BY DEF ConnType
<1> HIDE DEF m
<1>3. /\ l.inEpoll = k.inEpoll /\ l.inq = k.inq /\ l.peer = k.peer /\ l.events = k.events
      /\ l.unsent = k.unsent /\ l.state = k.state /\ l.inMap = k.inMap
      /\ k.armed => l.armed
      /\ k.inEpoll /\ "out" \in k.events => l.armed
  BY <1>1, <1>2, WokenIs
<1> HIDE DEF l
<1>4. Unread(l) => Unread(k)
  BY <1>3 DEF Unread
<1>5. \A T : Edge(k, T) => Edge(l, T)
  BY <1>3, <1>4 DEF Edge, Listens, Flushes
<1> QED BY <1>3, <1>5 DEF Woken, l, m

(* So the socket reports all that the peers do.                            *)
LEMMA PeerWakes ==
  ASSUME ConnInv, NEW c \in Conns,
         Arrive(c) \/ PeerFin(c) \/ PeerReset(c) \/ PeerReads(c) \/ Expire(c)
  PROVE  \A d \in Conns : Woken(conn[d], conn'[d])
<1> DEFINE k == conn[c]
<1>1. k \in ConnType /\ conn \in [Conns -> ConnType]
  BY SelfIs DEF ConnInv, Typed
<1>2. ASSUME NEW l, Woken(k, l), Peer(c, l)
      PROVE  \A d \in Conns : Woken(conn[d], conn'[d])
  <2>1. conn'[c] = l /\ \A d \in Conns \ {c} : conn'[d] = conn[d]
    BY <1>1, <1>2 DEF Peer
  <2>2. \A d \in Conns : Woken(conn[d], conn[d])
    BY DEF Woken
  <2> QED BY <1>2, <2>1, <2>2
<1>3. CASE Arrive(c)
  BY <1>1, <1>2, <1>3, ArriveWakes DEF Arrive
<1>4. CASE PeerFin(c)
  BY <1>1, <1>2, <1>4, FinWakes DEF PeerFin
<1>5. CASE PeerReset(c)
  <2> DEFINE b == (k.peer = "open")
             l == Wakeup(Wakeup([k EXCEPT !.peer = "rst", !.sockErr = b], "in"), "out")
  <2>1. Peer(c, l)
    BY <1>5 DEF PeerReset
  <2>2. b \in BOOLEAN
    OBVIOUS
  <2>3. Woken(k, l)
    <3> HIDE DEF b, k
    <3> QED BY <1>1, <2>2, ResetWakes
  <2> HIDE DEF l
  <2> QED BY <1>2, <2>1, <2>3
<1>6. CASE PeerReads(c)
  BY <1>1, <1>2, <1>6, ReadsWakes DEF PeerReads
<1>7. CASE Expire(c)
  <2> DEFINE l == [k EXCEPT !.timer = "stale"]
  <2>1. Peer(c, l)
    BY <1>7 DEF Expire
  <2>2. SameSocket(k, l) /\ l.inMap = k.inMap /\ l.state = k.state /\ l.unsent = k.unsent
    BY <1>1 DEF ConnType, SameSocket
  <2> HIDE DEF l
  <2>3. Woken(k, l)
    BY <2>2, SameEdge DEF Woken
  <2> QED BY <1>2, <2>1, <2>3
<1> QED BY <1>3, <1>4, <1>5, <1>6, <1>7

(* epoll_wait takes a connection off the ready list only to report it.     *)
LEMMA PollEdges ==
  ASSUME ConnInv, Edges, Poll
  PROVE  Edges'
<1>1. PICK batch \in Batches :
      /\ conn' = [c \in Conns |-> [conn[c] EXCEPT !.armed = c \in Pending \ batch]]
      /\ todo' = [c \in Conns |-> IF c \in batch THEN Reported(conn[c]) ELSE {}]
      /\ UNCHANGED <<tasks, funcs>>
  BY DEF Poll
<1>2. \A d \in Conns : todo[d] = {}
  BY DEF Poll, ConnInv, ReadsFindAlive
<1>3. ASSUME NEW d \in Conns
      PROVE  /\ conn'[d].inMap = conn[d].inMap /\ conn'[d].state = conn[d].state
             /\ conn'[d].unsent = conn[d].unsent
             /\ Edge(conn[d], todo[d]) => Edge(conn'[d], todo'[d])
  <2> DEFINE k == conn[d]
             l == conn'[d]
             a == d \in Pending \ batch
  <2>1. k \in ConnType
    BY SelfIs
  <2>2. l = [k EXCEPT !.armed = a]
    BY <1>1
  <2>3. /\ l.inEpoll = k.inEpoll /\ l.inq = k.inq /\ l.peer = k.peer /\ l.room = k.room
        /\ l.events = k.events /\ l.unsent = k.unsent /\ l.state = k.state
        /\ l.inMap = k.inMap /\ l.armed = a
    BY <2>1, <2>2 DEF ConnType
  <2>4. todo'[d] = IF d \in batch THEN Reported(k) ELSE {}
    BY <1>1
  <2>5. \A e \in Reported(k) : k.armed => l.armed \/ e \in todo'[d]
    <3>1. ASSUME NEW e \in Reported(k), k.armed PROVE d \in Pending
      BY <3>1 DEF Pending
    <3> QED BY <2>3, <2>4, <3>1
  <2>6. todo[d] = {}
    BY <1>2
  <2> HIDE DEF k, l, a
  <2>7. Unread(l) /\ "in" \in l.events => Unread(k) /\ "in" \in Reported(k)
    BY <2>3 DEF Unread, Reported, ReadyEvents, Event
  <2>8. "out" \in ReadyEvents(l) => "out" \in ReadyEvents(k)
    BY <2>3 DEF ReadyEvents
  <2>9. Edge(k, todo[d]) => Listens(l, todo'[d])
    <3>1. ASSUME Edge(k, todo[d]), Unread(l), "in" \in l.events
          PROVE  l.armed \/ "in" \in todo'[d]
      <4>1. k.armed
        BY <2>3, <2>6, <2>7, <3>1 DEF Edge, Listens
      <4> QED BY <2>5, <2>7, <3>1, <4>1
    <3> QED BY <3>1 DEF Listens
  <2>10. Edge(k, todo[d]) => Flushes(l, todo'[d])
    <3>1. ASSUME Edge(k, todo[d]), l.unsent
          PROVE  /\ "out" \in l.events
                 /\ "out" \in ReadyEvents(l) => l.armed \/ "out" \in todo'[d]
      <4>1. "out" \in k.events /\ ("out" \in ReadyEvents(k) => k.armed)
        BY <2>3, <2>6, <3>1 DEF Edge, Flushes
      <4>2. "out" \in ReadyEvents(k) => "out" \in Reported(k)
        BY <4>1 DEF Reported
      <4> QED BY <2>3, <2>5, <2>8, <4>1, <4>2
    <3> QED BY <3>1 DEF Flushes
  <2>11. Edge(k, todo[d]) => Edge(l, todo'[d])
    BY <2>3, <2>9, <2>10 DEF Edge
  <2> QED BY <2>3, <2>11 DEF k, l
<1>4. \A d \in Conns : Served(d)' => Served(d)
  BY <1>1, <1>3 DEF Served
<1> QED BY <1>3, <1>4 DEF Edges

(* A step that loses no removal and no edge.                               *)
LEMMA EdgesKept ==
  ASSUME Edges,
         \A d \in Conns : /\ Woken(conn[d], conn'[d]) /\ todo'[d] = todo[d]
                          /\ RemovalIn(tasks, d) \/ RemovalIn(funcs, d)
                               => RemovalIn(tasks', d) \/ RemovalIn(funcs', d)
  PROVE  Edges'
<1>1. \A d \in Conns : /\ conn'[d].unsent = conn[d].unsent /\ conn'[d].state = conn[d].state
                       /\ conn'[d].inMap = conn[d].inMap
                       /\ Edge(conn[d], todo[d]) => Edge(conn'[d], todo'[d])
  BY DEF Woken
<1>2. \A d \in Conns : Served(d)' => Served(d)
  BY <1>1 DEF Served
<1> QED BY <1>1, <1>2 DEF Edges

(* A connection starts with an empty write buffer, and its first           *)
(* registration reports what its socket already holds.                     *)
LEMMA AddEdges ==
  ASSUME ConnInv, Life, Edges, addTask
  PROVE  Edges'
<1> DEFINE c == Head(funcs).conn
           n == [conn[c] EXCEPT !.state = "connected", !.inMap = TRUE]
           r == refreshTimer(n)
           k == enableReading(r)
<1>1. /\ c \in Conns /\ conn[c].state = "none" /\ conn'[c].state = "connected"
      /\ \A d \in Conns \ {c} : conn'[d] = conn[d]
  BY AddLife
<1>2. /\ conn' = [conn EXCEPT ![c] = k] /\ tasks' = tasks /\ todo' = todo
      /\ funcs # <<>> /\ funcs' = Tail(funcs) /\ Head(funcs).kind = "add"
  BY DEF addTask, RunTask
<1> HIDE DEF c
<1>3. conn[c] \in ConnType /\ conn \in [Conns -> ConnType] /\ funcs \in Seq(TaskType)
  BY <1>1, SelfIs DEF ConnInv, Typed
<1>4. ~conn[c].unsent
  BY <1>1 DEF Edges
<1>5. n \in ConnType /\ ~n.unsent
  BY <1>3, <1>4 DEF ConnType, ConnState
<1> HIDE DEF n
<1>6. r \in ConnType /\ ~r.unsent
  BY <1>5, FieldsFrame, RefreshSame DEF SameSocket
<1> HIDE DEF r
<1>7. Edge(k, todo[c])
  BY <1>6, InterestEdge
<1>8. conn'[c] = k
  BY <1>1, <1>2, <1>3
<1> HIDE DEF k
<1>9. \A d \in Conns : RemovalIn(funcs, d) => RemovalIn(funcs', d)
  BY <1>2, <1>3, RemovalTail
<1>10. \A d \in Conns \ {c} : Served(d)' => Served(d)
  BY <1>1, <1>2, <1>9 DEF Served
<1>11. \A d \in Conns : Served(d)' => Edge(conn'[d], todo'[d])
  BY <1>1, <1>2, <1>7, <1>8, <1>10 DEF Edges
<1>12. \A d \in Conns : conn'[d].state = "none" => ~conn'[d].unsent
  BY <1>1 DEF Edges
<1> QED BY <1>11, <1>12 DEF Edges

(* Its removal takes it out of the map.                                    *)
LEMMA RemoveEdges ==
  ASSUME ConnInv, Life, Edges, removeTask
  PROVE  Edges'
<1> DEFINE c == Head(funcs).conn
           k == [conn[c] EXCEPT !.inMap = FALSE]
<1>1. c \in Conns /\ funcs # <<>> /\ funcs' = Tail(funcs) /\ funcs \in Seq(TaskType)
  BY TaskType1 DEF ConnInv, Typed, removeTask, RunTask
<1>2. conn' = [conn EXCEPT ![c] = k] /\ tasks' = tasks /\ todo' = todo
  BY DEF removeTask
<1>3. \A d \in Conns \ {c} : RemovalIn(funcs, d) => RemovalIn(funcs', d)
  BY <1>1, RemovalTail
<1> HIDE DEF c
<1>4. conn[c] \in ConnType /\ conn \in [Conns -> ConnType]
  BY <1>1, SelfIs DEF ConnInv, Typed
<1>5. ~k.inMap /\ k.state = conn[c].state /\ k.unsent = conn[c].unsent
  BY <1>4 DEF ConnType
<1>6. conn'[c] = k /\ \A d \in Conns \ {c} : conn'[d] = conn[d]
  BY <1>1, <1>2, <1>4
<1> HIDE DEF k
<1>7. \A d \in Conns : Served(d)' => d # c
  BY <1>5, <1>6 DEF Served
<1>8. \A d \in Conns \ {c} : Served(d)' => Served(d)
  BY <1>2, <1>3, <1>6 DEF Served
<1>9. \A d \in Conns : Served(d)' => Edge(conn'[d], todo'[d])
  BY <1>2, <1>6, <1>7, <1>8 DEF Edges
<1>10. \A d \in Conns : conn'[d].state = "none" => ~conn'[d].unsent
  BY <1>5, <1>6 DEF Edges
<1> QED BY <1>9, <1>10 DEF Edges

(* After the stop nothing is served.                                       *)
LEMMA StopEdges ==
  ASSUME ConnInv, Life, Edges, stopTask
  PROVE  Edges'
<1>1. Life' /\ stop' /\ \A d \in Conns : Frame(conn[d], conn'[d])
  BY StopLife
<1>2. \A d \in Conns : ~Served(d)'
  BY <1>1 DEF Life, StoppedIsDead, Served
<1>3. \A d \in Conns : conn[d].state = "none" => conn'[d] = conn[d]
  <2>1. \A d \in Conns : conn[d].state = "none" => ~conn[d].inMap
    BY DEF Life, Unborn
  <2> QED BY <2>1 DEF stopTask
<1>4. \A d \in Conns : conn'[d].state = "none" => ~conn'[d].unsent
  BY <1>1, <1>3 DEF Frame, Edges
<1> QED BY <1>2, <1>4 DEF Edges

(* A socket that is handed over belongs to a connection not served yet.    *)
LEMMA AddConnectionEdges ==
  ASSUME ConnInv, Life, Edges, NEW c \in Conns, addConnection(c)
  PROVE  Edges'
<1> DEFINE t == [kind |-> "add", conn |-> c]
           k == [conn[c] EXCEPT !.peer = "open"]
<1>1. tasks' = Append(tasks, t) /\ funcs' = funcs /\ todo' = todo
      /\ conn' = [conn EXCEPT ![c] = k] /\ conn[c].peer = "none"
  BY AddConnectionLife DEF addConnection
<1>2. t \in TaskType
  BY DEF TaskType
<1> HIDE DEF t
<1>3. tasks \in Seq(TaskType) /\ conn \in [Conns -> ConnType] /\ conn[c] \in ConnType
  BY DEF ConnInv, Typed
<1>4. \A d \in Conns : RemovalIn(tasks, d) => RemovalIn(tasks', d)
  BY <1>1, <1>2, <1>3, RemovalAppend
<1>5. conn[c].state = "none" /\ ~conn[c].inMap
  BY <1>1 DEF Life, Unborn
<1>6. k.inMap = conn[c].inMap /\ k.unsent = conn[c].unsent
  BY <1>3 DEF ConnType
<1>7. conn'[c] = k /\ \A d \in Conns \ {c} : conn'[d] = conn[d]
  BY <1>1, <1>3
<1> HIDE DEF k
<1>8. ~Served(c)' /\ ~conn'[c].unsent
  BY <1>5, <1>6, <1>7 DEF Served, Edges
<1>9. \A d \in Conns \ {c} : Served(d)' => Served(d)
  BY <1>1, <1>4, <1>7 DEF Served
<1>10. \A d \in Conns : Served(d)' => Edge(conn'[d], todo'[d])
  BY <1>1, <1>7, <1>8, <1>9 DEF Edges
<1>11. \A d \in Conns : conn'[d].state = "none" => ~conn'[d].unsent
  BY <1>7, <1>8 DEF Edges
<1> QED BY <1>10, <1>11 DEF Edges

(* The invariant is kept by every step.                                    *)
LEMMA EdgesNext ==
  ASSUME ConnInv, Life, Edges, [Next]_vars
  PROVE  Edges'
<1>1. tasks \in Seq(TaskType) /\ funcs \in Seq(TaskType)
  BY DEF ConnInv, Typed
<1>2. \A d \in Conns : Woken(conn[d], conn[d])
  BY DEF Woken
<1>3. CASE \E c \in Conns :
             handleReadCallBack(c) \/ onHttp(c) \/ handleWriteCallBack(c) \/ idleTimeout(c)
  BY <1>3, ReadEdges, RoundEdges, WriteEdges, TimeoutEdges
<1>4. CASE respTask \/ addTask \/ removeTask \/ stopTask
  BY <1>4, RespEdges, AddEdges, RemoveEdges, StopEdges
<1>5. CASE Poll
  BY <1>5, PollEdges
<1>6. CASE EndOfBatch \/ EndOfIteration \/ BrokenPipe \/ UNCHANGED vars
  <2>1. UNCHANGED <<conn, tasks, funcs, todo>>
    BY <1>6 DEF EndOfBatch, EndOfIteration, BrokenPipe, vars
  <2> QED BY <1>2, <2>1, EdgesKept
<1>7. CASE Drain
  <2>1. funcs = <<>> /\ funcs' = tasks /\ UNCHANGED <<conn, todo>>
    BY <1>7 DEF Drain, Life, Phases
  <2>2. \A d \in Conns : ~RemovalIn(funcs, d)
    BY <2>1 DEF RemovalIn
  <2>3. \A d \in Conns : RemovalIn(tasks, d) \/ RemovalIn(funcs, d) => RemovalIn(funcs', d)
    BY <2>1, <2>2
  <2> QED BY <1>2, <2>1, <2>3, EdgesKept
<1>8. ASSUME NEW t \in TaskType, tasks' = Append(tasks, t) \/ tasks' = tasks,
             UNCHANGED <<conn, funcs, todo>>
      PROVE  Edges'
  <2>1. \A d \in Conns : RemovalIn(tasks, d) => RemovalIn(tasks', d)
    BY <1>1, <1>8, RemovalAppend
  <2> QED BY <1>2, <1>8, <2>1, EdgesKept
<1>9. ASSUME NEW r \in pool, buildResponse(r) PROVE Edges'
  <2> DEFINE t == [kind |-> "resp", conn |-> r.conn, id |-> r.id, keepAlive |-> r.keepAlive]
  <2>1. r \in WorkType
    BY DEF ConnInv, Typed
  <2>2. t \in TaskType
    BY <2>1 DEF WorkType, TaskType
  <2>3. tasks' = enqueueTask(tasks, t) /\ UNCHANGED <<conn, funcs, todo>>
    BY <1>9 DEF buildResponse
  <2> HIDE DEF t
  <2> QED BY <1>8, <2>2, <2>3 DEF enqueueTask
<1>10. CASE requestStop
  <2>1. [kind |-> "stop"] \in TaskType
    BY DEF TaskType
  <2>2. tasks' = Append(tasks, [kind |-> "stop"]) /\ UNCHANGED <<conn, funcs, todo>>
    BY <1>10, RequestStopLife DEF requestStop
  <2> QED BY <1>8, <2>1, <2>2
<1>11. ASSUME NEW c \in Conns,
              Arrive(c) \/ PeerFin(c) \/ PeerReset(c) \/ PeerReads(c) \/ Expire(c)
       PROVE  Edges'
  <2>1. \A d \in Conns : Woken(conn[d], conn'[d])
    BY <1>11, PeerWakes
  <2>2. UNCHANGED <<tasks, funcs, todo>>
    BY <1>11, PeerOutside
  <2> QED BY <2>1, <2>2, EdgesKept
<1> QED BY <1>3, <1>4, <1>5, <1>6, <1>7, <1>9, <1>10, <1>11, AddConnectionEdges
        DEF Next, LoopThread, Environment, Workers

(* At the start nothing is served.                                         *)
LEMMA EdgesInit == Init => Edges
<1> SUFFICES ASSUME Init PROVE Edges
  OBVIOUS
<1>1. PICK flag \in Modes, load \in Loads : conn = [c \in Conns |-> NewConn(flag, load, c)]
  BY DEF Init
<1>2. \A c \in Conns : ~conn[c].inMap /\ ~conn[c].unsent
  BY <1>1 DEF NewConn
<1> QED BY <1>2 DEF Edges, Served

(* This is NoLostEdge: its queue is both queues in one.                    *)
LEMMA EdgesImply ==
  ASSUME ConnInv, Edges
  PROVE  NoLostEdge
<1>1. ASSUME NEW c \in Conns, Serving(c) PROVE Served(c)
  <2> DEFINE r == tasks \o funcs
  <2>1. /\ r \in Seq(TaskType) /\ DOMAIN r = 1..(Len(tasks) + Len(funcs))
        /\ Len(tasks) \in Nat /\ Len(funcs) \in Nat
        /\ DOMAIN tasks = 1..Len(tasks) /\ DOMAIN funcs = 1..Len(funcs)
        /\ \A i \in DOMAIN tasks : r[i] = tasks[i]
        /\ \A i \in DOMAIN funcs : r[i + Len(tasks)] = funcs[i]
    BY DEF ConnInv, Typed
  <2>2. ~RemovalIn(r, c)
    BY <1>1 DEF Serving, RemovalPending, Posted, Queued, RemovalIn
  <2> HIDE DEF r
  <2>3. (\A i \in DOMAIN tasks : i \in DOMAIN r)
        /\ \A i \in DOMAIN funcs : i + Len(tasks) \in DOMAIN r
    BY <2>1
  <2>4. ~RemovalIn(tasks, c)
    BY <2>1, <2>2, <2>3 DEF RemovalIn
  <2>5. ~RemovalIn(funcs, c)
    BY <2>1, <2>2, <2>3 DEF RemovalIn
  <2> QED BY <1>1, <2>4, <2>5 DEF Serving, Served
<1> QED BY <1>1 DEF NoLostEdge, Edges, Edge, Listens, Flushes

(* NoLostEdge: for any number of connections, any input and any faults,    *)
(* input, EOF or buffer space that a served connection has not dealt with  *)
(* is on the ready list or in the batch: every change of the channel's     *)
(* interest re-arms it and every read goes on to EAGAIN.                   *)
THEOREM NoEdgeIsLost == Spec => []NoLostEdge
<1>1. ConnInv /\ Life /\ Edges /\ [Next]_vars => ConnInv' /\ Life' /\ Edges'
  BY ConnInvNext, LifeNext, EdgesNext
<1>2. ConnInv /\ Edges => NoLostEdge
  BY EdgesImply
<1> QED BY <1>1, <1>2, ConnInvInit, LifeInit, EdgesInit, PTL DEF Spec

-----------------------------------------------------------------------------
(* The end of a connection.  Outside of the parse loop the read buffer of  *)
(* a connection that is still read holds no complete request; that of one  *)
(* not constructed yet is empty.                                           *)
NoEnding(b) == \A i \in DOMAIN b : b[i] \notin Terminal
Texts ==
  /\ pc # "killed" => \A c \in Conns :
       conn[c].state # "dead" /\ "in" \in conn[c].events /\ ~InHandler(c)
         => NoEnding(conn[c].readBuffer)
  /\ \A c \in Conns : conn[c].state = "none" => conn[c].readBuffer = <<>>

(* What the members behind the parse loop do to a connection: they leave   *)
(* the input where it is and, unless the write failed, kill the connection *)
(* only when no answer is outstanding.                                     *)
Quits(k, l, w) ==
  /\ l.script = k.script /\ l.inq = k.inq
  /\ l.readBuffer = k.readBuffer /\ l.working = k.working
  /\ l.state = "dead" => k.state = "dead" \/ k.working = 0 \/ w = "error"

(* The members of Channel, and the fields that do not matter here.         *)
LEMMA FieldsQuit ==
  ASSUME NEW k \in ConnType, NEW w
  PROVE  /\ Quits(k, disableWriting(k), w) /\ Quits(k, enableWriting(k), w)
         /\ Quits(k, disableReading(k), w) /\ Quits(k, refreshTimer(k), w)
         /\ Quits(k, [k EXCEPT !.unsent = FALSE], w)
         /\ Quits(k, [k EXCEPT !.sockErr = FALSE], w)
         /\ Quits(k, [k EXCEPT !.state = "peerClose"], w)
<1>1. \A m \in ConnType : Quits(m, updateChannel(m), w)
  BY DEF ConnType, updateChannel, Quits
<1>2. \A E \in SUBSET Event : [k EXCEPT !.events = E] \in ConnType
                              /\ Quits(k, [k EXCEPT !.events = E], w)
  BY DEF ConnType, Quits
<1>3. \A E \in SUBSET Event : Quits(k, updateChannel([k EXCEPT !.events = E]), w)
  <2> TAKE E \in SUBSET Event
  <2> DEFINE m == [k EXCEPT !.events = E]
  <2>1. m \in ConnType /\ Quits(k, m, w)
    BY <1>2
  <2> HIDE DEF m
  <2>2. Quits(m, updateChannel(m), w)
    BY <1>1, <2>1
  <2> QED BY <2>1, <2>2 DEF Quits, m
<1>4. /\ k.events \cup {"out"} \in SUBSET Event
      /\ k.events \ {"in"} \in SUBSET Event /\ k.events \ {"out"} \in SUBSET Event
  BY DEF ConnType, Event
<1>5. /\ Quits(k, disableWriting(k), w) /\ Quits(k, enableWriting(k), w)
      /\ Quits(k, disableReading(k), w)
  BY <1>3, <1>4 DEF disableWriting, enableWriting, disableReading
<1>6. Quits(k, refreshTimer(k), w)
  BY DEF ConnType, refreshTimer, Quits
<1>7. /\ Quits(k, [k EXCEPT !.unsent = FALSE], w)
      /\ Quits(k, [k EXCEPT !.sockErr = FALSE], w)
      /\ Quits(k, [k EXCEPT !.state = "peerClose"], w)
  BY DEF ConnType, Quits
<1> QED BY <1>5, <1>6, <1>7

(* handleDead, with a reason.                                              *)
LEMMA DeadQuits ==
  ASSUME NEW c \in Conns, NEW s \in Situation, NEW w,
         s.k.state = "dead" \/ s.k.working = 0 \/ w = "error"
  PROVE  Quits(s.k, handleDead(c, s).k, w)
<1>1. s.k \in ConnType
  BY Parts
<1>2. CASE s.k.state = "dead"
  BY <1>2 DEF handleDead, Quits
<1>3. CASE s.k.state # "dead"
  <2> DEFINE l == [removeChannel(s.k) EXCEPT !.state = "dead", !.timer = "none"]
  <2>1. handleDead(c, s).k = l
    BY <1>3 DEF handleDead
  <2>2. /\ l.readBuffer = s.k.readBuffer /\ l.working = s.k.working
        /\ l.script = s.k.script /\ l.inq = s.k.inq
    BY <1>1 DEF removeChannel, ConnType
  <2> HIDE DEF l
  <2> QED BY <2>1, <2>2 DEF Quits
<1> QED BY <1>2, <1>3

(* The check after an EOF has one.                                         *)
LEMMA EofQuits ==
  ASSUME NEW c \in Conns, NEW s \in Situation, NEW w
  PROVE  Quits(s.k, checkEmptyReadAfterEof(c, s).k, w)
<1>1. CASE s.k.state = "peerClose" /\ s.k.working = 0 /\ ~s.k.unsent
  BY <1>1, DeadQuits DEF checkEmptyReadAfterEof
<1>2. CASE ~(s.k.state = "peerClose" /\ s.k.working = 0 /\ ~s.k.unsent)
  BY <1>2 DEF checkEmptyReadAfterEof, Quits
<1> QED BY <1>1, <1>2

(* So has an empty write buffer.                                           *)
LEMMA DrainedQuits ==
  ASSUME NEW c \in Conns, NEW s \in Situation, NEW w
  PROVE  Quits(s.k, Drained(c, s).k, w)
<1> DEFINE u == [s.k EXCEPT !.unsent = FALSE]
           k == disableWriting(u)
           r == [s EXCEPT !.k = k]
<1>1. s.k \in ConnType
  BY Parts
<1>2. u \in ConnType /\ Quits(s.k, u, w)
  BY <1>1, FieldsFrame, FieldsQuit
<1> HIDE DEF u
<1>3. k \in ConnType /\ Quits(s.k, k, w)
  BY <1>2, InterestFrame, FieldsQuit DEF Quits
<1> HIDE DEF k
<1>4. r \in Situation /\ r.k = k
  BY <1>3, Parts
<1> HIDE DEF r
<1>5. Drained(c, s) = IF k.state = "peerClose" /\ k.working = 0 THEN handleDead(c, r) ELSE r
  BY DEF Drained, r, k, u
<1>6. CASE k.state = "peerClose" /\ k.working = 0
  BY <1>3, <1>4, <1>5, <1>6, DeadQuits DEF Quits
<1>7. CASE ~(k.state = "peerClose" /\ k.working = 0)
  BY <1>3, <1>4, <1>5, <1>7
<1> QED BY <1>6, <1>7

(* A failed write.                                                         *)
LEMMA WriteErrorQuits ==
  ASSUME NEW c \in Conns, NEW s \in Situation
  PROVE  Quits(s.k, WriteError(c, s).k, "error")
<1> DEFINE e == [s.k EXCEPT !.sockErr = FALSE]
           r == [s EXCEPT !.k = e]
<1>1. s.k \in ConnType
  BY Parts
<1>2. e \in ConnType /\ Quits(s.k, e, "error")
  BY <1>1, FieldsFrame, FieldsQuit
<1> HIDE DEF e
<1>3. r \in Situation /\ r.k = e
  BY <1>2, Parts
<1> HIDE DEF r
<1>4. WriteError(c, s) = handleDead(c, r)
  BY DEF WriteError, r, e
<1> QED BY <1>2, <1>3, <1>4, DeadQuits DEF Quits

(* A write that fills the send buffer kills nothing.                       *)
LEMMA FillQuits ==
  ASSUME NEW k \in ConnType, NEW w
  PROVE  Quits(k, Fill(k), w)
  BY DEF ConnType, Fill, Quits

(* One write attempt, whatever the socket answers.                         *)
LEMMA TrySendQuits ==
  ASSUME NEW c \in Conns, NEW s \in Situation, NEW w, w \in {"all", "error"} \/ CanFill(s.k)
  PROVE  Quits(s.k, trySendToSck(c, s, w).k, w)
<1>1. CASE w = "all"
  BY <1>1, DrainedQuits DEF trySendToSck
<1>2. CASE w = "error"
  BY <1>2, WriteErrorQuits DEF trySendToSck
<1>3. CASE w # "all" /\ w # "error"
  <2> DEFINE f == Fill(s.k)
             k == enableWriting(f)
  <2>1. f \in ConnType /\ Quits(s.k, f, w)
    BY <1>3, Parts, FillFrame, FillQuits
  <2>2. trySendToSck(c, s, w) = [s EXCEPT !.k = k]
    BY <1>3 DEF trySendToSck
  <2> HIDE DEF f
  <2>3. k \in ConnType /\ Quits(s.k, k, w)
    BY <2>1, InterestFrame, FieldsQuit DEF Quits
  <2> HIDE DEF k
  <2> QED BY <2>2, <2>3, Parts
<1> QED BY <1>1, <1>2, <1>3

(* Hence a response that is sent, with the EOF check behind it.            *)
LEMMA AnswerQuits ==
  ASSUME NEW c \in Conns, NEW s \in Situation, NEW w, w \in {"all", "error"} \/ CanFill(s.k),
         NEW id \in Nat, NEW keepAlive \in BOOLEAN
  PROVE  Quits(s.k, checkEmptyReadAfterEof(c, sendHttpOnLoop(c, s, w, id, keepAlive)).k, w)
<1> DEFINE k == Sending(s.k, id)
           b == [s EXCEPT !.k = k]
           t == trySendToSck(c, b, w)
           d == disableReading(t.k)
           h == [d EXCEPT !.state = "peerClose"]
           u == [t EXCEPT !.k = h]
           a == sendHttpOnLoop(c, s, w, id, keepAlive)
<1>1. s.k \in ConnType
  BY Parts
<1>2. k \in ConnType /\ (CanFill(s.k) => CanFill(k)) /\ Quits(s.k, k, w)
  <2>1. k \in ConnType
    BY <1>1, SendingIs
  <2>2. /\ k.room = s.k.room /\ k.stalls = s.k.stalls /\ k.state = s.k.state
        /\ k.readBuffer = s.k.readBuffer /\ k.working = s.k.working
        /\ k.script = s.k.script /\ k.inq = s.k.inq
    BY <1>1 DEF ConnType, Sending
  <2> QED BY <2>1, <2>2 DEF CanFill, Quits
<1> HIDE DEF k
<1>3. b \in Situation /\ b.k = k
  BY <1>2, Parts
<1> HIDE DEF b
<1>4. t \in Situation /\ Quits(k, t.k, w)
  BY <1>2, <1>3, TrySendKeeps, TrySendQuits
<1>5. a = IF keepAlive THEN t ELSE u
  BY DEF sendHttpOnLoop, t, b, k, u, h, d, Sending
<1>6. a \in Situation
  BY SendKeeps
<1> HIDE DEF t, a
<1>7. d \in ConnType /\ Quits(t.k, d, w)
  BY <1>4, Parts, InterestFrame, FieldsQuit
<1> HIDE DEF d
<1>8. h \in ConnType /\ Quits(d, h, w)
  BY <1>7, FieldsFrame, FieldsQuit
<1> HIDE DEF h
<1>9. u.k = h
  BY <1>4, <1>8, Parts
<1> HIDE DEF u
<1>10. Quits(s.k, a.k, w)
  BY <1>2, <1>4, <1>5, <1>7, <1>8, <1>9 DEF Quits
<1>11. Quits(a.k, checkEmptyReadAfterEof(c, a).k, w)
  BY <1>6, EofQuits
<1>12. Quits(s.k, checkEmptyReadAfterEof(c, a).k, w)
  BY <1>10, <1>11 DEF Quits
<1> QED BY <1>12 DEF a

(* A peer that has closed its side ends no connection by itself.           *)
LEMMA ReadHalfCloses ==
  ASSUME NEW c \in Conns, NEW s \in Situation, s.k.peer = "fin"
  PROVE  readFromSck(c, s).k.state = "peerClose"
<1> DEFINE k == [s.k EXCEPT !.readBuffer = @ \o s.k.inq, !.inq = <<>>]
           f == [k EXCEPT !.state = "peerClose"]
<1>1. s.k \in ConnType
  BY Parts
<1>2. s.k.readBuffer \o s.k.inq \in Seq(Piece) /\ <<>> \in Seq(Piece)
  <2>1. s.k.readBuffer \in Seq(Piece) /\ s.k.inq \in Seq(Piece)
    BY <1>1 DEF ConnType
  <2> QED BY <2>1
<1>3. k \in ConnType /\ k.peer = "fin"
  BY <1>1, <1>2 DEF ConnType
<1>4. readFromSck(c, s) = IF k.peer = "open" THEN [s EXCEPT !.k = k]
                          ELSE IF k.peer = "rst" /\ k.sockErr
                               THEN handleDead(c, [s EXCEPT !.k = [k EXCEPT !.sockErr = FALSE]])
                               ELSE [s EXCEPT !.k = f]
  BY DEF readFromSck, k, f
<1> HIDE DEF k
<1>5. f \in ConnType /\ f.state = "peerClose"
  <2>1. f.state = "peerClose"
    BY <1>3 DEF ConnType
  <2> QED BY <1>3, <2>1, FieldsFrame
<1> HIDE DEF f
<1> QED BY <1>3, <1>4, <1>5, Parts

(* A parse that wants more has met no ending, and leaves none.             *)
LEMMA NeedMoreIs ==
  ASSUME NEW b \in Seq(Piece)
  PROVE  /\ NoEnding(b) => parse(b).result = "needMore"
         /\ parse(b).result = "needMore" => NoEnding(b) /\ NoEnding(parse(b).rest)
<1>1. DOMAIN b = 1..Len(b) /\ Len(b) \in Nat /\ \A i \in 1..Len(b) : b[i] \in Piece
  OBVIOUS
<1>2. CASE NoEnding(b)
  <2>1. ~\E i \in DOMAIN b : b[i] \in Terminal
    BY <1>2 DEF NoEnding
  <2>2. parse(b) = [result |-> "needMore",
                    rest |-> IF b # <<>> /\ b[Len(b)] = "frag" THEN <<"frag">> ELSE <<>>]
    BY <2>1 DEF parse
  <2>3. NoEnding(<<"frag">>) /\ NoEnding(<<>>)
    BY DEF NoEnding, Terminal
  <2>4. /\ parse(b).result = "needMore"
        /\ parse(b).rest = <<"frag">> \/ parse(b).rest = <<>>
    BY <2>2
  <2>5. NoEnding(parse(b).rest)
    BY <2>3, <2>4
  <2> QED BY <1>2, <2>4, <2>5
<1>3. CASE ~NoEnding(b)
  <2> DEFINE S == {i \in DOMAIN b : \A h \in 1..i : b[h] \notin Terminal}
             i == BeforeEnding(b) + 1
  <2>1. PICK j \in DOMAIN b : b[j] \in Terminal
    BY <1>3 DEF NoEnding
  <2>2. S \subseteq 1..Len(b) /\ j \in 1..Len(b) /\ j \notin S
    BY <1>1, <2>1
  <2>3. IsFiniteSet(1..Len(b)) /\ Cardinality(1..Len(b)) = Len(b)
    <3> DEFINE n == Len(b)
    <3>1. n \in Nat /\ n \in Int /\ 1 \in Int
      BY <1>1
    <3> HIDE DEF n
    <3>2. IsFiniteSet(1..n) /\ Cardinality(1..n) = IF 1 > n THEN 0 ELSE n - 1 + 1
      BY <3>1, FS_Interval
    <3>3. Cardinality(1..n) = n
      BY <3>1, <3>2
    <3> QED BY <3>2, <3>3 DEF n
  <2> HIDE DEF S
  <2>4. /\ Cardinality(S) \in Nat /\ Cardinality(S) <= Len(b)
        /\ Cardinality(S) # Len(b)
    <3>1. IsFiniteSet(S) /\ Cardinality(S) <= Cardinality(1..Len(b))
          /\ (Cardinality(S) = Cardinality(1..Len(b)) => S = 1..Len(b))
      BY <2>2, <2>3, FS_Subset
    <3>2. Cardinality(S) \in Nat
      BY <3>1, FS_CardinalityType
    <3> QED BY <2>2, <2>3, <3>1, <3>2
  <2>5. BeforeEnding(b) = Cardinality(S)
    BY DEF BeforeEnding, S
  <2>6. i \in 1..Len(b)
    BY <1>1, <2>4, <2>5
  <2>7. b[i] \in Piece
    BY <1>1, <2>6
  <2>8. parse(b).result = b[i]
    <3>1. \E h \in DOMAIN b : b[h] \in Terminal
      BY <2>1
    <3> QED BY <3>1 DEF parse
  <2> HIDE DEF i
  <2>9. parse(b).result # "needMore"
    BY <2>7, <2>8 DEF Piece, Terminal
  <2> QED BY <1>3, <2>9
<1> QED BY <1>2, <1>3

(* Steps that leave the read buffers alone.                                *)
LEMMA TextsKept ==
  ASSUME Texts, pc = "killed" => pc' = "killed",
         \A d \in Conns : /\ conn'[d].readBuffer = conn[d].readBuffer
                          /\ conn[d].state = "dead" => conn'[d].state = "dead"
                          /\ conn'[d].state = "none" => conn[d].state = "none"
                          /\ "in" \in conn'[d].events => "in" \in conn[d].events
                          /\ InHandler(d) => InHandler(d)'
  PROVE  Texts'
  BY DEF Texts

(* A handler of c, which reads or parses the input of c only.              *)
LEMMA HandlerTexts ==
  ASSUME Texts, NEW c \in Conns, NEW w, NEW n, NEW s, Does(c, w, n, s), pc # "killed",
         pc = "http" => cur = c,
         conn'[c].state # "dead" /\ "in" \in conn'[c].events /\ ~InHandler(c)'
           => NoEnding(conn'[c].readBuffer)
  PROVE  Texts'
<1>1. /\ \A d \in Conns \ {c} : conn'[d] = conn[d]
      /\ conn'[c].state # "none"
  BY DEF Does
<1>2. \A d \in Conns \ {c} : ~InHandler(d)
  BY DEF InHandler
<1>3. \A d \in Conns : conn'[d].state # "dead" /\ "in" \in conn'[d].events /\ ~InHandler(d)'
                         => NoEnding(conn'[d].readBuffer)
  BY <1>1, <1>2 DEF Texts
<1>4. \A d \in Conns : conn'[d].state = "none" => conn'[d].readBuffer = <<>>
  BY <1>1 DEF Texts
<1> QED BY <1>3, <1>4 DEF Texts

(* A handler of c that leaves the read buffer alone.                       *)
LEMMA HandlerTextsKept ==
  ASSUME Texts, NEW c \in Conns, NEW w, NEW n, NEW s, Does(c, w, n, s), pc # "killed", pc # "http",
         conn'[c].readBuffer = conn[c].readBuffer
  PROVE  Texts'
<1>1. /\ "in" \in conn'[c].events => "in" \in conn[c].events
      /\ conn[c].state = "dead" => conn'[c].state = "dead"
  BY DEF Does
<1>2. ~InHandler(c)
  BY DEF InHandler
<1>3. conn'[c].state # "dead" /\ "in" \in conn'[c].events => NoEnding(conn'[c].readBuffer)
  BY <1>1, <1>2 DEF Texts
<1> QED BY <1>3, HandlerTexts

(* The read callback goes on to the parse loop if there is anything to     *)
(* parse; if not, an EOF ends the connection once no answer is due.        *)
LEMMA ReadTexts ==
  ASSUME ConnInv, Life, Texts, NEW c \in Conns, handleReadCallBack(c)
  PROVE  /\ Texts'
         /\ conn[c].peer = "fin" /\ conn'[c].state = "dead"
              => conn'[c].working = 0 /\ conn'[c].readBuffer = <<>>
<1> DEFINE l == refreshTimer(conn[c])
           r == [Self(c) EXCEPT !.k = l]
           s == readFromSck(c, r)
           e == checkEmptyReadAfterEof(c, s)
<1>1. /\ Does(c, conn[c].working, conn[c].nreq, conn[c].sent)
      /\ pc = "pass1" /\ cur' = c
  BY ReadDoes DEF Life
<1>2. l \in ConnType /\ l.peer = conn[c].peer
  BY SelfIs, FieldsFrame DEF Frame
<1>3. IF s.k.readBuffer = <<>> THEN Update(c, e) /\ pc' = "pass1" ELSE Update(c, s) /\ pc' = "http"
  BY DEF handleReadCallBack
<1> HIDE DEF l
<1>4. r \in Situation /\ r.k = l
  BY <1>2, SelfIs
<1> HIDE DEF r
<1>5. s \in Situation /\ (conn[c].peer = "fin" => s.k.state = "peerClose")
  BY <1>2, <1>4, ReadKeeps, ReadHalfCloses
<1> HIDE DEF s
<1>6. Quits(s.k, e.k, "all")
  BY <1>5, EofQuits
<1> HIDE DEF e
<1>7. CASE s.k.readBuffer = <<>>
  <2>1. conn'[c] = e.k
    BY <1>3, <1>7, UpdateIs
  <2>2. conn'[c].readBuffer = <<>>
    BY <1>6, <1>7, <2>1 DEF Quits
  <2>3. NoEnding(<<>>)
    BY DEF NoEnding
  <2>4. Texts'
    BY <1>1, <2>2, <2>3, HandlerTexts
  <2>5. conn[c].peer = "fin" /\ conn'[c].state = "dead" => conn'[c].working = 0
    BY <1>5, <1>6, <2>1 DEF Quits
  <2> QED BY <2>2, <2>4, <2>5
<1>8. CASE s.k.readBuffer # <<>>
  <2>1. conn'[c] = s.k /\ pc' = "http"
    BY <1>3, <1>8, UpdateIs
  <2>2. InHandler(c)'
    BY <1>1, <2>1 DEF InHandler
  <2>3. Texts'
    BY <1>1, <2>2, HandlerTexts
  <2> QED BY <1>5, <2>1, <2>3
<1> QED BY <1>7, <1>8

(* A socket whose peer has only closed its side takes what is written.     *)
LEMMA NoWriteError ==
  ASSUME NEW k, k.peer = "fin", NEW w \in WriteResults(k)
  PROVE  w # "error"
  BY DEF WriteResults

(* The write callback ends a connection once no answer is due.             *)
LEMMA WriteEnds ==
  ASSUME ConnInv, Life, NEW c \in Conns, handleWriteCallBack(c)
  PROVE  /\ conn'[c].readBuffer = conn[c].readBuffer
         /\ conn[c].peer = "fin" /\ conn[c].state # "dead" /\ conn'[c].state = "dead"
              => conn'[c].working = 0
<1> DEFINE k == refreshTimer(conn[c])
           s == [Self(c) EXCEPT !.k = k]
<1>1. conn[c] \in ConnType /\ k \in ConnType /\ Quits(conn[c], k, "all") /\ k.peer = conn[c].peer
  BY SelfIs, FieldsFrame, FieldsQuit DEF Frame
<1>2. CASE conn[c].state = "dead"
  <2>1. conn' = conn
    BY <1>2 DEF handleWriteCallBack
  <2> QED BY <1>2, <2>1
<1>3. CASE conn[c].state # "dead"
  <2>2. IF ~k.unsent THEN Update(c, [s EXCEPT !.k = disableWriting(k)])
        ELSE \E w \in WriteResults(k) :
               Update(c, IF w = "all" THEN Drained(c, s)
                         ELSE IF w = "error" THEN WriteError(c, s)
                         ELSE [s EXCEPT !.k = Fill(k)])
    BY <1>3 DEF handleWriteCallBack
  <2> HIDE DEF k
  <2>3. s \in Situation /\ s.k = k
    BY <1>1, SelfIs
  <2> HIDE DEF s
  <2>4. ASSUME NEW w, Quits(k, conn'[c], w), w = "error" => conn[c].peer # "fin"
        PROVE  /\ conn'[c].readBuffer = conn[c].readBuffer
               /\ conn[c].peer = "fin" /\ conn[c].state # "dead" /\ conn'[c].state = "dead"
                    => conn'[c].working = 0
    BY <1>1, <2>4 DEF Quits
  <2>5. CASE ~k.unsent
    <3>1. disableWriting(k) \in ConnType /\ Quits(k, disableWriting(k), "all")
      BY <1>1, InterestFrame, FieldsQuit
    <3>2. [s EXCEPT !.k = disableWriting(k)].k = disableWriting(k)
      BY <2>3, <3>1, Parts
    <3>3. conn'[c] = disableWriting(k)
      BY <2>2, <2>5, <3>2, UpdateIs
    <3> QED BY <2>4, <3>1, <3>3
  <2>6. CASE k.unsent
    <3>1. PICK w \in WriteResults(k) :
               Update(c, IF w = "all" THEN Drained(c, s)
                         ELSE IF w = "error" THEN WriteError(c, s)
                         ELSE [s EXCEPT !.k = Fill(k)])
      BY <2>2, <2>6
    <3>2. w = "error" => conn[c].peer # "fin"
      BY <1>1, <3>1, NoWriteError
    <3>3. CASE w = "all"
      <4>1. conn'[c] = Drained(c, s).k
        BY <3>1, <3>3, UpdateIs
      <4>2. Quits(k, Drained(c, s).k, w)
        BY <2>3, DrainedQuits
      <4> QED BY <2>4, <3>2, <4>1, <4>2
    <3>4. CASE w = "error"
      <4>1. conn'[c] = WriteError(c, s).k
        BY <3>1, <3>4, UpdateIs
      <4>2. Quits(k, WriteError(c, s).k, w)
        BY <2>3, <3>4, WriteErrorQuits
      <4> QED BY <2>4, <3>2, <4>1, <4>2
    <3>5. CASE w \notin {"all", "error"}
      <4>1. Fill(k) \in ConnType /\ Quits(k, Fill(k), w)
        BY <1>1, <3>1, <3>5, WriteAnswers, FillFrame, FillQuits
      <4>2. [s EXCEPT !.k = Fill(k)].k = Fill(k)
        BY <2>3, <4>1, Parts
      <4>3. conn'[c] = Fill(k)
        BY <3>1, <3>5, <4>2, UpdateIs
      <4> QED BY <2>4, <3>2, <4>1, <4>3
    <3> QED BY <3>3, <3>4, <3>5
  <2> QED BY <2>5, <2>6
<1> QED BY <1>2, <1>3

(* So does an answer of a worker, after it has counted itself.             *)
LEMMA RespEnds ==
  ASSUME ConnInv, Life, respTask
  PROVE  LET c == Head(funcs).conn
         IN  /\ conn'[c].readBuffer = conn[c].readBuffer
             /\ conn[c].peer = "fin" /\ conn[c].state # "dead" /\ conn'[c].state = "dead"
                  => conn'[c].working = 0
<1> DEFINE t == Head(funcs)
           c == t.conn
           l == conn[c]
           k == [l EXCEPT !.working = @ - 1]
           r == [Self(c) EXCEPT !.k.working = @ - 1]
<1>1. c \in Conns /\ t.kind = "resp"
  <2>1. Unborn /\ conn[Head(funcs).conn].state # "none"
    BY RespIsBorn DEF Life
  <2> QED BY <2>1, RespDoes
<1>2. t.id \in Nat /\ t.keepAlive \in BOOLEAN
  <2>1. t \in TaskType
    BY TaskType1 DEF ConnInv, respTask, RunTask
  <2> QED BY <1>1, <2>1 DEF TaskType
<1>3. PICK w \in IF l.state = "dead" THEN {"none"} ELSE WriteResults(l) :
        Update(c, WorkerAnswer(t, Self(c), w))
  BY DEF respTask
<1> HIDE DEF t
<1>5. l \in ConnType
  BY <1>1, SelfIs
<1>6. k \in ConnType
  <2>1. l.working \in Int /\ l.working - 1 \in Int
    BY <1>5, WorkingIs
  <2> QED BY <1>5, <2>1 DEF ConnType
<1>7. /\ k.room = l.room /\ k.stalls = l.stalls /\ k.state = l.state
      /\ k.readBuffer = l.readBuffer
  BY <1>5 DEF ConnType
<1>8. r = [Self(c) EXCEPT !.k = k]
  BY DEF Self
<1> HIDE DEF k
<1>9. r \in Situation /\ r.k = k
  <2> HIDE DEF r
  <2>1. [Self(c) EXCEPT !.k = k] \in Situation /\ [Self(c) EXCEPT !.k = k].k = k
    BY <1>1, <1>6, SelfIs
  <2> QED BY <1>8, <2>1
<1>10. WorkerAnswer(t, Self(c), w)
         = IF r.k.state = "dead" THEN r
           ELSE checkEmptyReadAfterEof(c, sendHttpOnLoop(c, r, w, t.id, t.keepAlive))
  BY DEF WorkerAnswer
<1> HIDE DEF r
<1>11. CASE l.state = "dead"
  <2>1. Update(c, r)
    BY <1>3, <1>7, <1>9, <1>10, <1>11
  <2>2. conn'[c] = k
    BY <1>1, <1>9, <2>1, UpdateIs
  <2> QED BY <1>7, <1>11, <2>2 DEF t
<1>12. CASE l.state # "dead"
  <2> DEFINE u == checkEmptyReadAfterEof(c, sendHttpOnLoop(c, r, w, t.id, t.keepAlive))
  <2>1. w \in {"all", "error"} \/ CanFill(r.k)
    BY <1>3, <1>5, <1>7, <1>9, <1>12, WriteAnswers DEF CanFill
  <2>2. Quits(k, u.k, w)
    BY <1>1, <1>2, <1>9, <2>1, AnswerQuits
  <2>3. Update(c, u)
    BY <1>3, <1>7, <1>9, <1>10, <1>12
  <2> HIDE DEF u
  <2>4. conn'[c] = u.k
    BY <1>1, <2>3, UpdateIs
  <2>5. w = "error" => l.peer # "fin"
    BY <1>3, <1>12, NoWriteError
  <2>6. /\ conn'[c].readBuffer = l.readBuffer
        /\ l.peer = "fin" /\ conn'[c].state = "dead" => conn'[c].working = 0
    BY <1>7, <1>12, <2>2, <2>4, <2>5 DEF Quits
  <2> QED BY <1>12, <2>6 DEF t
<1> QED BY <1>11, <1>12

(* The parse loop runs until nothing complete is left, or reading is over. *)
(* With the pool no round of it ends a connection that is still read.      *)
LEMMA RoundTexts ==
  ASSUME ConnInv, Life, Texts, NEW c \in Conns, onHttp(c)
  PROVE  /\ Texts'
         /\ conn[c].useThreadPool /\ conn[c].state # "dead" /\ "in" \in conn'[c].events
              => conn'[c].state # "dead"
<1> DEFINE l == Consumed(c)
<1>1. Unborn
  BY DEF Life
<1>2. l \in ConnType /\ l.state = conn[c].state /\ l.nreq + 1 \in Nat /\ l.working + 1 \in Int
  BY ConsumedIs, ConsumedSound
<1>3. CASE onHttpDead(c)
  <2>1. Does(c, conn[c].working, conn[c].nreq, conn[c].sent) /\ pc = "http" /\ cur = c
    BY <1>1, <1>3, PlainRoundDoes
  <2>2. conn[c].state = "dead" /\ conn' = conn
    BY <1>3 DEF onHttpDead
  <2> QED BY <2>1, <2>2, HandlerTexts
<1>4. CASE onHttpNeedMore(c)
  <2> DEFINE u == [Self(c) EXCEPT !.k = l]
  <2>1. Does(c, conn[c].working, conn[c].nreq, conn[c].sent) /\ pc = "http" /\ cur = c
    BY <1>1, <1>4, PlainRoundDoes
  <2>2. Update(c, u) /\ parse(conn[c].readBuffer).result = "needMore"
    BY <1>4 DEF onHttpNeedMore, Parsed
  <2>3. conn[c] \in ConnType
    BY SelfIs
  <2>4. conn[c].readBuffer \in Seq(Piece)
    BY <2>3 DEF ConnType
  <2>5. l.readBuffer = parse(conn[c].readBuffer).rest
    BY <2>3 DEF Consumed, ConnType
  <2>6. NoEnding(l.readBuffer)
    BY <2>2, <2>4, <2>5, NeedMoreIs
  <2> HIDE DEF l
  <2>7. u.k = l
    BY <1>2, SelfIs
  <2> HIDE DEF u
  <2>8. conn'[c] = l
    BY <2>2, <2>7, UpdateIs
  <2> QED BY <1>2, <2>1, <2>6, <2>8, HandlerTexts
<1>5. CASE onHttpLineTooLong(c)
  <2> DEFINE d == disableReading(l)
             k == [d EXCEPT !.state = "peerClose"]
             s == [Self(c) EXCEPT !.k = k]
             e == checkEmptyReadAfterEof(c, s)
  <2>1. Does(c, conn[c].working, conn[c].nreq, conn[c].sent) /\ pc = "http" /\ cur = c
    BY <1>1, <1>5, PlainRoundDoes
  <2>2. Update(c, e)
    BY <1>5 DEF onHttpLineTooLong
  <2> HIDE DEF l
  <2>3. d \in ConnType /\ "in" \notin d.events
    BY <1>2, InterestFrame
  <2> HIDE DEF d
  <2>4. k \in ConnType /\ "in" \notin k.events
    BY <2>3, FieldsFrame DEF Frame
  <2> HIDE DEF k
  <2>5. s \in Situation /\ s.k = k
    BY <2>4, SelfIs
  <2> HIDE DEF s
  <2>6. "in" \notin e.k.events
    BY <2>4, <2>5, EofKeeps DEF Keeps, Frame
  <2> HIDE DEF e
  <2>7. "in" \notin conn'[c].events
    BY <2>2, <2>6, UpdateIs
  <2> QED BY <2>1, <2>7, HandlerTexts
<1>6. CASE onHttpError(c)
  <2> DEFINE x == Append(conn[c].sent, 0)
  <2>1. /\ Does(c, conn[c].working, conn[c].nreq, x) /\ pc = "http" /\ cur = c
        /\ "in" \notin conn'[c].events
    BY <1>1, <1>6, ErrorDoes
  <2> HIDE DEF x
  <2> QED BY <2>1, HandlerTexts
<1>7. CASE onHttpProcess(c)
  <2> DEFINE k == [l EXCEPT !.nreq = @ + 1, !.working = @ + 1]
             u == [Self(c) EXCEPT !.k = k]
             m == conn[c].working + 1
             n == conn[c].nreq + 1
  <2>1. Does(c, m, n, conn[c].sent) /\ pc = "http" /\ cur = c /\ UNCHANGED <<pc, cur>>
    BY <1>1, <1>7, ProcessDoes
  <2>2. Update(c, u)
    BY <1>7 DEF onHttpProcess
  <2> HIDE DEF l, m, n
  <2>3. k \in ConnType /\ k.state = l.state
    BY <1>2 DEF ConnType
  <2> HIDE DEF k
  <2>4. u.k = k
    BY <2>3, SelfIs
  <2> HIDE DEF u
  <2>5. conn'[c].state = conn[c].state
    BY <1>2, <2>2, <2>3, <2>4, UpdateIs
  <2>6. InHandler(c)'
    BY <2>1 DEF InHandler
  <2> QED BY <2>1, <2>5, <2>6, HandlerTexts
<1>8. CASE onHttpInline(c)
  <2> DEFINE x == Append(conn[c].sent, conn[c].nreq + 1)
             n == conn[c].nreq + 1
  <2>1. /\ Does(c, conn[c].working, n, x) /\ pc = "http" /\ cur = c /\ UNCHANGED <<pc, cur>>
        /\ ~conn[c].useThreadPool
    BY <1>1, <1>8, InlineDoes
  <2> HIDE DEF n, x
  <2>2. InHandler(c)'
    BY <2>1 DEF InHandler
  <2> QED BY <2>1, <2>2, HandlerTexts
<1> QED BY <1>3, <1>4, <1>5, <1>6, <1>7, <1>8 DEF onHttp

(* The idle timer leaves the input where it is.                            *)
LEMMA TimeoutTexts ==
  ASSUME ConnInv, Life, Texts, NEW c \in Conns, idleTimeout(c)
  PROVE  Texts'
<1> DEFINE k == [conn[c] EXCEPT !.timer = "none"]
           s == [Self(c) EXCEPT !.k.timer = "none"]
           t == handleDead(c, s)
<1>1. /\ Does(c, conn[c].working, conn[c].nreq, conn[c].sent) /\ pc = "timer"
      /\ Update(c, t)
  BY TimeoutDoes DEF Life, idleTimeout
<1>2. conn[c] \in ConnType
  BY SelfIs
<1>3. k \in ConnType /\ k.readBuffer = conn[c].readBuffer
  BY <1>2 DEF ConnType
<1>4. s = [Self(c) EXCEPT !.k = k]
  BY DEF Self
<1> HIDE DEF k
<1>5. s \in Situation /\ s.k = k
  <2> HIDE DEF s
  <2>1. [Self(c) EXCEPT !.k = k] \in Situation /\ [Self(c) EXCEPT !.k = k].k = k
    BY <1>3, SelfIs
  <2> QED BY <1>4, <2>1
<1> HIDE DEF s
<1>6. t.k.readBuffer = k.readBuffer
  BY <1>5, DeadQuits DEF Quits
<1> HIDE DEF t
<1>7. conn'[c].readBuffer = conn[c].readBuffer
  BY <1>1, <1>3, <1>6, UpdateIs
<1> QED BY <1>1, <1>7, HandlerTextsKept

(* A connection starts with nothing to parse.                              *)
LEMMA AddTexts ==
  ASSUME ConnInv, Life, Texts, addTask
  PROVE  Texts'
<1> DEFINE c == Head(funcs).conn
           n == [conn[c] EXCEPT !.state = "connected", !.inMap = TRUE]
           r == refreshTimer(n)
           m == [r EXCEPT !.events = @ \cup {"in"}]
           k == updateChannel(m)
<1>1. /\ c \in Conns /\ conn[c].state = "none" /\ conn'[c].state = "connected"
      /\ \A d \in Conns \ {c} : conn'[d] = conn[d]
  BY AddLife
<1>2. conn' = [conn EXCEPT ![c] = k] /\ pc = "funcs" /\ UNCHANGED <<pc, cur>>
  BY DEF addTask, RunTask, enableReading
<1> HIDE DEF c
<1>3. conn[c] \in ConnType /\ conn \in [Conns -> ConnType]
  BY <1>1, SelfIs DEF ConnInv, Typed
<1>4. n \in ConnType /\ n.readBuffer = <<>>
  <2>1. n \in ConnType
    BY <1>3 DEF ConnType, ConnState
  <2>2. conn[c].readBuffer = <<>>
    BY <1>1 DEF Texts
  <2> QED BY <1>3, <2>1, <2>2 DEF ConnType
<1> HIDE DEF n
<1>5. r \in ConnType /\ r.readBuffer = <<>>
  BY <1>4, FieldsFrame, FieldsQuit DEF Quits
<1> HIDE DEF r
<1>6. m \in ConnType /\ m.readBuffer = <<>>
  BY <1>5 DEF ConnType, Event
<1> HIDE DEF m
<1>7. k.readBuffer = <<>>
  BY <1>6 DEF updateChannel, ConnType
<1>8. conn'[c].readBuffer = <<>>
  BY <1>1, <1>2, <1>3, <1>7
<1>9. NoEnding(<<>>)
  BY DEF NoEnding
<1>10. \A d \in Conns : ~InHandler(d)
  BY <1>2 DEF InHandler
<1>11. \A d \in Conns : conn'[d].state # "dead" /\ "in" \in conn'[d].events
                          => NoEnding(conn'[d].readBuffer)
  BY <1>1, <1>2, <1>8, <1>9, <1>10 DEF Texts
<1>12. \A d \in Conns : conn'[d].state = "none" => conn'[d].readBuffer = <<>>
  BY <1>1, <1>8 DEF Texts
<1> QED BY <1>11, <1>12 DEF Texts

(* Tasks and the main thread leave the input where it is.                  *)
LEMMA TaskTexts ==
  ASSUME ConnInv, Life, Texts,
         removeTask \/ stopTask \/ \E c \in Conns : addConnection(c)
  PROVE  Texts'
<1>1. conn \in [Conns -> ConnType]
  BY DEF ConnInv, Typed
<1>2. ASSUME NEW c \in Conns, NEW k \in ConnType, conn' = [conn EXCEPT ![c] = k],
             k.readBuffer = conn[c].readBuffer, k.state = conn[c].state,
             k.events = conn[c].events, UNCHANGED <<pc, cur>>
      PROVE  Texts'
  <2>1. conn'[c] = k /\ \A d \in Conns \ {c} : conn'[d] = conn[d]
    BY <1>1, <1>2
  <2>2. \A d \in Conns : /\ conn'[d].readBuffer = conn[d].readBuffer
                         /\ conn'[d].state = conn[d].state /\ conn'[d].events = conn[d].events
    BY <1>2, <2>1
  <2>3. \A d \in Conns : InHandler(d) => InHandler(d)'
    BY <1>2 DEF InHandler
  <2> QED BY <1>2, <2>2, <2>3, TextsKept
<1>3. CASE removeTask
  <2> DEFINE c == Head(funcs).conn
             k == [conn[c] EXCEPT !.inMap = FALSE]
  <2>1. c \in Conns
    BY <1>3, TaskType1 DEF ConnInv, Typed, removeTask, RunTask
  <2>2. conn' = [conn EXCEPT ![c] = k] /\ UNCHANGED <<pc, cur>>
    BY <1>3 DEF removeTask
  <2> HIDE DEF c
  <2>3. conn[c] \in ConnType
    BY <1>1, <2>1
  <2>4. /\ k \in ConnType /\ k.readBuffer = conn[c].readBuffer /\ k.state = conn[c].state
        /\ k.events = conn[c].events
    BY <2>3 DEF ConnType
  <2> HIDE DEF k
  <2> QED BY <1>2, <2>1, <2>2, <2>4
<1>4. CASE \E c \in Conns : addConnection(c)
  <2>1. PICK c \in Conns : addConnection(c)
    BY <1>4
  <2> DEFINE k == [conn[c] EXCEPT !.peer = "open"]
  <2>2. conn' = [conn EXCEPT ![c] = k] /\ UNCHANGED <<pc, cur>>
    BY <2>1 DEF addConnection
  <2>3. conn[c] \in ConnType
    BY <1>1
  <2>4. /\ k \in ConnType /\ k.readBuffer = conn[c].readBuffer /\ k.state = conn[c].state
        /\ k.events = conn[c].events
    BY <2>3 DEF ConnType
  <2> HIDE DEF k
  <2> QED BY <1>2, <2>2, <2>4
<1>5. CASE stopTask
  <2>1. \A d \in Conns : /\ conn[d].state = "dead" => conn'[d].state = "dead"
                         /\ Frame(conn[d], conn'[d])
    BY <1>5, StopLife
  <2>2. conn' = [c \in Conns |-> IF conn[c].inMap THEN stopConnection(conn[c]) ELSE conn[c]]
        /\ UNCHANGED <<pc, cur>>
    BY <1>5 DEF stopTask
  <2>3. \A k \in ConnType : stopConnection(k).readBuffer = k.readBuffer
    BY DEF stopConnection, removeChannel, ConnType
  <2>4. \A d \in Conns : conn'[d].readBuffer = conn[d].readBuffer
    BY <1>1, <2>2, <2>3
  <2>5. \A d \in Conns : InHandler(d) => InHandler(d)'
    BY <2>2 DEF InHandler
  <2> QED BY <2>1, <2>2, <2>4, <2>5, TextsKept DEF Frame
<1> QED BY <1>3, <1>4, <1>5

(* The invariant is kept by every step.                                    *)
LEMMA TextsNext ==
  ASSUME ConnInv, Life, Texts, [Next]_vars
  PROVE  Texts'
<1>1. CASE \E c \in Conns : handleReadCallBack(c) \/ onHttp(c) \/ idleTimeout(c)
  BY <1>1, ReadTexts, RoundTexts, TimeoutTexts
<1>2. CASE \E c \in Conns : handleWriteCallBack(c)
  <2>1. PICK c \in Conns : handleWriteCallBack(c)
    BY <1>2
  <2>2. Does(c, conn[c].working, conn[c].nreq, conn[c].sent) /\ pc = "pass1"
    BY <2>1, WriteDoes DEF Life
  <2>3. conn'[c].readBuffer = conn[c].readBuffer
    BY <2>1, WriteEnds
  <2> QED BY <2>2, <2>3, HandlerTextsKept
<1>3. CASE respTask
  <2> DEFINE c == Head(funcs).conn
             m == conn[c].working - 1
             s == IF conn[c].state = "dead" THEN conn[c].sent ELSE Append(conn[c].sent, Head(funcs).id)
  <2>1. Does(c, m, conn[c].nreq, s) /\ pc = "funcs" /\ c \in Conns
    <3>1. Unborn /\ conn[Head(funcs).conn].state # "none"
      BY <1>3, RespIsBorn DEF Life
    <3> QED BY <1>3, <3>1, RespDoes
  <2>2. conn'[c].readBuffer = conn[c].readBuffer
    BY <1>3, RespEnds
  <2> HIDE DEF c, m, s
  <2> QED BY <2>1, <2>2, HandlerTextsKept
<1>4. CASE addTask \/ removeTask \/ stopTask \/ \E c \in Conns : addConnection(c)
  BY <1>4, AddTexts, TaskTexts
<1>5. ASSUME \A d \in Conns : Outside(conn[d], conn'[d]), pc = "killed" => pc' = "killed",
             pc # "http" \/ UNCHANGED <<pc, cur>>
      PROVE  Texts'
  <2>1. \A d \in Conns : /\ conn'[d].readBuffer = conn[d].readBuffer
                         /\ conn'[d].state = conn[d].state /\ conn'[d].events = conn[d].events
    BY <1>5 DEF Outside
  <2>2. \A d \in Conns : InHandler(d) => InHandler(d)'
    BY <1>5 DEF InHandler
  <2> QED BY <1>5, <2>1, <2>2, TextsKept
<1>6. CASE Poll
  BY <1>5, <1>6, PollOutside
<1>7. CASE \E c \in Conns :
             Arrive(c) \/ PeerFin(c) \/ PeerReset(c) \/ PeerReads(c) \/ Expire(c)
  BY <1>5, <1>7, PeerOutside
<1>8. \A d \in Conns : Outside(conn[d], conn[d])
  BY DEF Outside
<1>9. CASE EndOfBatch \/ Drain \/ EndOfIteration
  BY <1>5, <1>8, <1>9 DEF EndOfBatch, Drain, EndOfIteration
<1>10. CASE BrokenPipe
  <2>1. pc' = "killed" /\ conn' = conn
    BY <1>10 DEF BrokenPipe
  <2> QED BY <2>1 DEF Texts
<1>11. CASE (\E r \in pool : buildResponse(r)) \/ requestStop \/ UNCHANGED vars
  <2>1. UNCHANGED <<conn, pc, cur>>
    BY <1>11 DEF buildResponse, requestStop, vars
  <2> QED BY <1>5, <1>8, <2>1
<1> QED BY <1>1, <1>2, <1>3, <1>4, <1>6, <1>7, <1>9, <1>10, <1>11
        DEF Next, LoopThread, Environment, Workers

(* At the start there is nothing to parse.                                 *)
LEMMA TextsInit == Init => Texts
<1> SUFFICES ASSUME Init PROVE Texts
  OBVIOUS
<1>1. PICK flag \in Modes, load \in Loads : conn = [c \in Conns |-> NewConn(flag, load, c)]
  BY DEF Init
<1>2. \A c \in Conns : conn[c].readBuffer = <<>>
  BY <1>1 DEF NewConn
<1>3. NoEnding(<<>>)
  BY DEF NoEnding
<1> QED BY <1>2, <1>3 DEF Texts

(* No work counted, nothing in flight.                                     *)
LEMMA EmptyFlight ==
  ASSUME NEW p, IsFiniteSet(p), NEW a \in Seq(TaskType), NEW b \in Seq(TaskType), NEW c,
         Cardinality({r \in p : r.conn = c}) + Cardinality(RespIn(a, c))
           + Cardinality(RespIn(b, c)) = 0
  PROVE  Flight(p, a, b, c) = {}
<1> DEFINE W == {r \in p : r.conn = c}
           A == RespIn(a, c)
           B == RespIn(b, c)
<1>1. IsFiniteSet(W) /\ Cardinality(W) \in Nat
  <2>1. IsFiniteSet(W)
    BY FS_Subset
  <2> QED BY <2>1, FS_CardinalityType
<1>2. /\ IsFiniteSet(A) /\ Cardinality(A) \in Nat
      /\ IsFiniteSet(B) /\ Cardinality(B) \in Nat
  BY RespFinite
<1>3. Cardinality(W) = 0 /\ Cardinality(A) = 0 /\ Cardinality(B) = 0
  <2> HIDE DEF W, A, B
  <2>1. Cardinality(W) + Cardinality(A) + Cardinality(B) = 0
    BY DEF W, A, B
  <2> QED BY <1>1, <1>2, <2>1
<1>4. W = {} /\ A = {} /\ B = {}
  BY <1>1, <1>2, <1>3, FS_EmptySet
<1> QED BY <1>4 DEF Flight, PoolIds, QueueIds

(* A step that ends a connection with no work counted and nothing complete *)
(* to parse, and loses no answer on the way, leaves all of them sent.      *)
LEMMA AllAnswered ==
  ASSUME ConnInv', Counts', Answers, NEW c \in Conns, ~stop, ~stop', conn[c].state # "dead",
         conn'[c].working = 0, NoEnding(conn'[c].readBuffer), conn'[c].nreq = conn[c].nreq,
         SentIds(conn[c].sent) \cup Flight(pool, tasks, funcs, c)
           \subseteq SentIds(conn'[c].sent) \cup Flight(pool', tasks', funcs', c)
  PROVE  EofRequestsAnswered(c)
<1>1. conn'[c] \in ConnType /\ tasks' \in Seq(TaskType) /\ funcs' \in Seq(TaskType)
  BY DEF ConnInv, Typed
<1>2. /\ IsFiniteSet(pool')
      /\ Cardinality({r \in pool' : r.conn = c}) + Cardinality(RespIn(tasks', c))
           + Cardinality(RespIn(funcs', c)) = 0
  BY DEF Counts, WithWorker
<1>3. Flight(pool', tasks', funcs', c) = {}
  BY <1>1, <1>2, EmptyFlight
<1>4. 1..conn[c].nreq \subseteq SentIds(conn[c].sent) \cup Flight(pool, tasks, funcs, c)
  BY DEF Answers, Fine, Accounted, Alive
<1>5. 1..conn'[c].nreq \subseteq Answered(c)'
  BY <1>3, <1>4 DEF Answered, SentIds
<1>6. conn'[c].readBuffer \in Seq(Piece)
  BY <1>1 DEF ConnType
<1>7. parse(conn'[c].readBuffer).result = "needMore"
  BY <1>6, NeedMoreIs
<1> QED BY <1>5, <1>7 DEF EofRequestsAnswered

(* A round of the parse loop of d is about d.                              *)
LEMMA RoundOthers ==
  ASSUME ConnInv, NEW d \in Conns, onHttp(d)
  PROVE  \A c \in Conns \ {d} : conn'[c] = conn[c]
<1>1. \A s : Update(d, s) => \A c \in Conns \ {d} : conn'[c] = conn[c]
  BY DEF Update, ConnInv, Typed
<1>2. conn' = conn \/ \E s : Update(d, s)
  BY Zenon DEF onHttp, onHttpDead, onHttpNeedMore, onHttpLineTooLong, onHttpError, onHttpProcess,
               onHttpInline
<1> QED BY <1>1, <1>2

(* The steps that end a connection of the pool after an EOF.               *)
LEMMA EofNext ==
  ASSUME ConnInv, Life, Answers, Texts, [Next]_vars, ConnInv', Counts', NEW c \in Conns,
         conn[c].useThreadPool, EofStep(c)
  PROVE  EofRequestsAnswered(c)
<1>1. /\ conn[c].state # "dead" /\ conn'[c].state = "dead" /\ conn[c].peer = "fin"
      /\ pc # "timer" /\ ~stop' /\ "in" \in conn'[c].events
  BY DEF EofStep
<1>2. conn'[c] # conn[c]
  BY <1>1
<1>3. Unborn /\ Fine(c)
  BY DEF Life, Answers
<1>4. CASE \E d \in Conns : handleReadCallBack(d)
  <2>1. PICK d \in Conns : handleReadCallBack(d)
    BY <1>4
  <2>2. /\ Does(d, conn[d].working, conn[d].nreq, conn[d].sent)
        /\ UNCHANGED <<funcs, pool>>
    BY <1>3, <2>1, ReadDoes
  <2>3. d = c
    BY <1>2, <2>2 DEF Does
  <2>4. conn'[c].working = 0 /\ conn'[c].readBuffer = <<>>
    BY <1>1, <2>1, <2>3, ReadTexts
  <2>5. NoEnding(<<>>)
    BY DEF NoEnding
  <2>6. Flight(pool', tasks', funcs', c) = Flight(pool, tasks, funcs, c)
    BY <1>3, <2>2, <2>3, DoesFlight
  <2>7. conn'[c].nreq = conn[c].nreq /\ conn'[c].sent = conn[c].sent /\ ~stop
    BY <1>1, <2>2, <2>3 DEF Does
  <2> QED BY <1>1, <2>4, <2>5, <2>6, <2>7, AllAnswered
<1>5. CASE \E d \in Conns : handleWriteCallBack(d)
  <2>1. PICK d \in Conns : handleWriteCallBack(d)
    BY <1>5
  <2>2. /\ Does(d, conn[d].working, conn[d].nreq, conn[d].sent)
        /\ pc = "pass1" /\ UNCHANGED <<funcs, pool>>
    BY <1>3, <2>1, WriteDoes
  <2>3. d = c
    BY <1>2, <2>2 DEF Does
  <2>4. conn'[c].working = 0 /\ conn'[c].readBuffer = conn[c].readBuffer
    BY <1>1, <2>1, <2>3, WriteEnds
  <2>5. NoEnding(conn[c].readBuffer)
    BY <1>1, <2>2, <2>3 DEF Texts, InHandler, Does
  <2>6. Flight(pool', tasks', funcs', c) = Flight(pool, tasks, funcs, c)
    BY <1>3, <2>2, <2>3, DoesFlight
  <2>7. conn'[c].nreq = conn[c].nreq /\ conn'[c].sent = conn[c].sent /\ ~stop
    BY <1>1, <2>2, <2>3 DEF Does
  <2> QED BY <1>1, <2>4, <2>5, <2>6, <2>7, AllAnswered
<1>6. CASE respTask
  <2> DEFINE d == Head(funcs).conn
             id == Head(funcs).id
             m == conn[d].working - 1
             s == IF conn[d].state = "dead" THEN conn[d].sent ELSE Append(conn[d].sent, id)
  <2>1. /\ Does(d, m, conn[d].nreq, s)
        /\ d \in Conns /\ id \in Nat /\ pc = "funcs" /\ funcs # <<>> /\ funcs' = Tail(funcs)
        /\ Head(funcs).kind = "resp" /\ UNCHANGED <<pool, pc>>
    <3>1. conn[Head(funcs).conn].state # "none"
      BY <1>6, RespIsBorn
    <3> QED BY <1>3, <1>6, <3>1, RespDoes
  <2>2. /\ conn'[d].readBuffer = conn[d].readBuffer
        /\ conn[d].peer = "fin" /\ conn[d].state # "dead" /\ conn'[d].state = "dead"
             => conn'[d].working = 0
    BY <1>6, RespEnds
  <2>3. funcs \in Seq(TaskType) /\ conn[c] \in ConnType
    BY DEF ConnInv, Typed
  <2>4. /\ d = c => id \in QueueIds(funcs, c) /\ QueueIds(funcs', c) = QueueIds(funcs, c) \ {id}
    BY <1>3, <2>1, <2>3, IdsTail DEF Fine, Apart
  <2>5. d = c => s = Append(conn[c].sent, id)
    BY <1>1
  <2> HIDE DEF d, id, m, s
  <2>6. d = c
    BY <1>2, <2>1 DEF Does
  <2>7. conn'[c].working = 0 /\ conn'[c].readBuffer = conn[c].readBuffer
    BY <1>1, <2>2, <2>6
  <2>8. NoEnding(conn[c].readBuffer)
    BY <1>1, <2>1, <2>6 DEF Texts, InHandler, Does
  <2>9. QueueIds(tasks', c) = QueueIds(tasks, c)
    <3>1. OnlyRemoves(c, tasks, tasks')
      BY <2>1, <2>6 DEF Does
    <3> QED BY <3>1, IdsRemoves
  <2>10. Flight(pool, tasks, funcs, c) \subseteq Flight(pool', tasks', funcs', c) \cup {id}
    BY <2>1, <2>4, <2>6, <2>9 DEF Flight
  <2>11. /\ conn'[c].nreq = conn[c].nreq /\ ~stop
         /\ conn'[c].sent = Append(conn[c].sent, id)
    BY <1>1, <2>1, <2>5, <2>6 DEF Does
  <2>12. SentIds(conn'[c].sent) = SentIds(conn[c].sent) \cup {id}
    <3>1. conn[c].sent \in Seq(Nat)
      BY <2>3 DEF ConnType
    <3> QED BY <2>1, <2>11, <3>1, SentAppend
  <2>13. SentIds(conn[c].sent) \cup Flight(pool, tasks, funcs, c)
           \subseteq SentIds(conn'[c].sent) \cup Flight(pool', tasks', funcs', c)
    BY <2>10, <2>12
  <2> QED BY <1>1, <2>7, <2>8, <2>11, <2>13, AllAnswered
<1>7. CASE \E d \in Conns : onHttp(d)
  <2>1. PICK d \in Conns : onHttp(d)
    BY <1>7
  <2>2. d = c
    BY <1>2, <2>1, RoundOthers
  <2> QED BY <1>1, <2>1, <2>2, RoundTexts
<1>8. ASSUME conn'[c].state = conn[c].state \/ conn'[c].state = "connected"
      PROVE  FALSE
  BY <1>1, <1>8
<1>9. CASE addTask \/ removeTask \/ \E d \in Conns : addConnection(d)
  BY <1>8, <1>9, AddLife, RemoveLife, AddConnectionLife
<1>10. CASE Poll \/ \E d \in Conns :
              Arrive(d) \/ PeerFin(d) \/ PeerReset(d) \/ PeerReads(d) \/ Expire(d)
  <2>1. Outside(conn[c], conn'[c])
    BY <1>10, PollOutside, PeerOutside
  <2> QED BY <1>8, <2>1 DEF Outside
<1>11. CASE EndOfBatch \/ Drain \/ EndOfIteration \/ BrokenPipe \/ requestStop
             \/ (\E r \in pool : buildResponse(r)) \/ UNCHANGED vars
  <2>1. conn' = conn
    BY <1>11 DEF EndOfBatch, Drain, EndOfIteration, BrokenPipe, requestStop, buildResponse, vars
  <2> QED BY <1>2, <2>1
<1>12. CASE stopTask \/ \E d \in Conns : idleTimeout(d)
  BY <1>1, <1>12 DEF stopTask, idleTimeout
<1> QED BY <1>4, <1>5, <1>6, <1>7, <1>9, <1>10, <1>11, <1>12
        DEF Next, LoopThread, Environment, Workers

(* EofAnsweredByPool: for any number of connections, any input and any     *)
(* faults, a connection of the pool that ends because its peer has closed  *)
(* its side holds no complete request, and all it has parsed are answered: *)
(* the parse loop stops at an incomplete request only, and the EOF checks  *)
(* wait for the counted work (FIX-020, FIX-023).                           *)
THEOREM PoolAnswersBeforeTheEnd == Spec => EofAnsweredByPool
<1> DEFINE I == ConnInv /\ Life /\ Counts /\ Answers /\ Texts
<1>1. I /\ [Next]_vars => I'
  BY ConnInvNext, LifeNext, CountsNext, AnswersNext, TextsNext
<1>2. I /\ I' /\ [Next]_vars
        => [\A c \in Conns : conn[c].useThreadPool => EofRequestsAnswered(c)]_vars
  BY EofNext DEF EofRequestsAnswered
<1>3. Init => I
  BY ConnInvInit, LifeInit, CountsInit, AnswersInit, TextsInit
<1> QED BY <1>1, <1>2, <1>3, PTL DEF Spec, EofAnsweredByPool

-----------------------------------------------------------------------------
(* Why a half-closed connection is still there.  What an incomplete line   *)
(* leaves in the read buffer keeps a connection waiting for nothing, so    *)
(* this is about peers that send whole requests: every piece of their      *)
(* streams ends one.                                                       *)
Whole(k) ==
  k.script \in Seq(Terminal) /\ k.inq \in Seq(Terminal) /\ k.readBuffer \in Seq(Terminal)
Busy(k) == k.state = "peerClose" => k.working # 0 \/ k.unsent
Occupied(c) == Busy(conn[c]) \/ (InHandler(c) /\ conn[c].readBuffer # <<>>)
Reasons ==
  /\ \A c \in Conns : Whole(conn[c])
  /\ pc # "killed" => \A c \in Conns : Occupied(c)

(* The members of Connection leave the input where it is.                  *)
LEMMA QuitsWhole ==
  ASSUME NEW k, NEW l, NEW w, Quits(k, l, w), Whole(k)
  PROVE  Whole(l)
  BY DEF Quits, Whole

(* handleDead leaves no half-closed connection.                            *)
LEMMA DeadIsDead ==
  ASSUME NEW c \in Conns, NEW s \in Situation
  PROVE  handleDead(c, s).k.state = "dead" /\ Busy(handleDead(c, s).k)
<1>1. CASE s.k.state = "dead"
  BY <1>1 DEF handleDead, Busy
<1>2. CASE s.k.state # "dead"
  <2> DEFINE r == removeChannel(s.k)
             l == [r EXCEPT !.state = "dead", !.timer = "none"]
  <2>1. handleDead(c, s).k = l
    BY <1>2 DEF handleDead
  <2>2. s.k \in ConnType
    BY Parts
  <2>3. l.state = "dead"
    BY <2>2 DEF removeChannel, ConnType
  <2> HIDE DEF l
  <2> QED BY <2>1, <2>3 DEF Busy
<1> QED BY <1>1, <1>2

(* The EOF check leaves a half-closed connection only with a reason.       *)
LEMMA EofBusy ==
  ASSUME NEW c \in Conns, NEW s \in Situation
  PROVE  Busy(checkEmptyReadAfterEof(c, s).k)
<1>1. CASE s.k.state = "peerClose" /\ s.k.working = 0 /\ ~s.k.unsent
  BY <1>1, DeadIsDead DEF checkEmptyReadAfterEof
<1>2. CASE ~(s.k.state = "peerClose" /\ s.k.working = 0 /\ ~s.k.unsent)
  BY <1>2 DEF checkEmptyReadAfterEof, Busy
<1> QED BY <1>1, <1>2

(* So do the write paths: when the buffer is empty, ...                    *)
LEMMA DrainedBusy ==
  ASSUME NEW c \in Conns, NEW s \in Situation
  PROVE  Busy(Drained(c, s).k)
<1> DEFINE u == [s.k EXCEPT !.unsent = FALSE]
           k == disableWriting(u)
           r == [s EXCEPT !.k = k]
<1>1. s.k \in ConnType
  BY Parts
<1>2. u \in ConnType
  BY <1>1, FieldsFrame
<1> HIDE DEF u
<1>3. k \in ConnType
  BY <1>2, InterestFrame
<1> HIDE DEF k
<1>4. r \in Situation /\ r.k = k
  BY <1>3, Parts
<1> HIDE DEF r
<1>5. Drained(c, s) = IF k.state = "peerClose" /\ k.working = 0 THEN handleDead(c, r) ELSE r
  BY DEF Drained, r, k, u
<1>6. CASE k.state = "peerClose" /\ k.working = 0
  BY <1>4, <1>5, <1>6, DeadIsDead
<1>7. CASE ~(k.state = "peerClose" /\ k.working = 0)
  BY <1>4, <1>5, <1>7 DEF Busy
<1> QED BY <1>6, <1>7

(* ... when the write fails, ...                                           *)
LEMMA WriteErrorBusy ==
  ASSUME NEW c \in Conns, NEW s \in Situation
  PROVE  Busy(WriteError(c, s).k)
<1> DEFINE e == [s.k EXCEPT !.sockErr = FALSE]
           r == [s EXCEPT !.k = e]
<1>1. e \in ConnType
  BY Parts, FieldsFrame
<1> HIDE DEF e
<1>2. r \in Situation
  BY <1>1, Parts
<1> HIDE DEF r
<1>3. WriteError(c, s) = handleDead(c, r)
  BY DEF WriteError, r, e
<1> QED BY <1>2, <1>3, DeadIsDead

(* ... and when the socket takes no more.                                  *)
LEMMA FillBusy ==
  ASSUME NEW k \in ConnType, Busy(k)
  PROVE  Busy(Fill(k))
  BY DEF ConnType, Fill, Busy

(* A parse of whole requests takes some, or finds nothing at all.          *)
LEMMA RestIsWhole ==
  ASSUME NEW b \in Seq(Terminal)
  PROVE  /\ parse(b).rest \in Seq(Terminal)
         /\ parse(b).result = "needMore" => b = <<>> /\ parse(b).rest = <<>>
<1>1. /\ DOMAIN b = 1..Len(b) /\ Len(b) \in Nat /\ \A i \in 1..Len(b) : b[i] \in Terminal
      /\ b = <<>> <=> Len(b) = 0
  OBVIOUS
<1>2. CASE b = <<>>
  <2>1. ~\E i \in DOMAIN b : b[i] \in Terminal
    BY <1>1, <1>2
  <2>2. parse(b) = [result |-> "needMore", rest |-> <<>>]
    BY <1>2, <2>1 DEF parse
  <2>3. parse(b).rest = <<>>
    BY <2>2
  <2> QED BY <1>2, <2>3
<1>3. CASE b # <<>>
  <2>1. 1 \in DOMAIN b /\ b[1] \in Terminal
    BY <1>1, <1>3
  <2>2. {i \in DOMAIN b : \A h \in 1..i : b[h] \notin Terminal} = {}
    BY <1>1, <2>1
  <2>3. BeforeEnding(b) = 0
    BY <2>2, FS_EmptySet DEF BeforeEnding
  <2>4. parse(b) = [result |-> b[1], rest |-> SubSeq(b, IF b[1] = "long" THEN 1 ELSE 2, Len(b))]
    <3>1. \E i \in DOMAIN b : b[i] \in Terminal
      BY <2>1
    <3>2. BeforeEnding(b) + 1 = 1
      BY <2>3
    <3>3. 1 + 1 = 2
      OBVIOUS
    <3> QED BY <3>1, <3>2, <3>3 DEF parse
  <2>5. SubSeq(b, 1, Len(b)) \in Seq(Terminal) /\ SubSeq(b, 2, Len(b)) \in Seq(Terminal)
    BY <1>1, <1>3
  <2>6. parse(b).rest \in Seq(Terminal)
    BY <2>4, <2>5
  <2>7. parse(b).result # "needMore"
    BY <2>1, <2>4 DEF Terminal
  <2> QED BY <2>6, <2>7
<1> QED BY <1>2, <1>3

(* What is read is whole, too.                                             *)
LEMMA ReadWhole ==
  ASSUME NEW c \in Conns, NEW s \in Situation, Whole(s.k)
  PROVE  Whole(readFromSck(c, s).k)
<1> DEFINE k == [s.k EXCEPT !.readBuffer = @ \o s.k.inq, !.inq = <<>>]
           e == [k EXCEPT !.sockErr = FALSE]
           f == [k EXCEPT !.state = "peerClose"]
           r == [s EXCEPT !.k = e]
<1>1. s.k \in ConnType
  BY Parts
<1>2. /\ s.k.readBuffer \o s.k.inq \in Seq(Terminal) /\ <<>> \in Seq(Terminal)
      /\ s.k.readBuffer \o s.k.inq \in Seq(Piece) /\ <<>> \in Seq(Piece)
  <2>1. s.k.readBuffer \in Seq(Terminal) /\ s.k.inq \in Seq(Terminal)
    BY DEF Whole
  <2>2. s.k.readBuffer \in Seq(Piece) /\ s.k.inq \in Seq(Piece)
    BY <1>1 DEF ConnType
  <2> QED BY <2>1, <2>2
<1>3. k \in ConnType
  BY <1>1, <1>2 DEF ConnType
<1>4. Whole(k)
  <2>1. /\ k.script = s.k.script /\ k.inq = <<>> /\ k.readBuffer = s.k.readBuffer \o s.k.inq
    BY <1>1 DEF ConnType
  <2> HIDE DEF k
  <2> QED BY <1>2, <2>1 DEF Whole
<1>5. readFromSck(c, s) = IF k.peer = "open" THEN [s EXCEPT !.k = k]
                          ELSE IF k.peer = "rst" /\ k.sockErr THEN handleDead(c, r)
                               ELSE [s EXCEPT !.k = f]
  BY DEF readFromSck, k, e, f, r
<1> HIDE DEF k
<1>6. /\ e \in ConnType /\ f \in ConnType
      /\ Quits(k, e, "error") /\ Quits(k, f, "error")
  BY <1>3, FieldsFrame, FieldsQuit
<1> HIDE DEF e, f
<1>7. /\ [s EXCEPT !.k = k].k = k /\ [s EXCEPT !.k = f].k = f
      /\ r \in Situation /\ r.k = e
  BY <1>3, <1>6, Parts
<1> HIDE DEF r
<1>8. Quits(e, handleDead(c, r).k, "error")
  BY <1>7, DeadQuits
<1>9. Whole(f) /\ Whole(e)
  BY <1>4, <1>6, QuitsWhole
<1>10. Whole(handleDead(c, r).k)
  BY <1>8, <1>9, QuitsWhole
<1> QED BY <1>4, <1>5, <1>7, <1>9, <1>10

(* A handler of c is about c, which is in the parse loop or nobody is.     *)
LEMMA HandlerReasons ==
  ASSUME Reasons, NEW c \in Conns, \A d \in Conns \ {c} : conn'[d] = conn[d],
         pc # "killed", pc = "http" => cur = c, Whole(conn'[c]), Occupied(c)'
  PROVE  Reasons'
<1>1. \A d \in Conns \ {c} : Busy(conn[d])
  BY DEF Reasons, Occupied, InHandler
<1>2. \A d \in Conns \ {c} : Busy(conn'[d]) /\ Whole(conn'[d])
  BY <1>1 DEF Reasons
<1>3. \A d \in Conns : Occupied(d)'
  BY <1>2 DEF Occupied
<1> QED BY <1>2, <1>3 DEF Reasons

(* One that has looked for a reason to stay is done.                       *)
LEMMA BusyReasons ==
  ASSUME Reasons, NEW c \in Conns, \A d \in Conns \ {c} : conn'[d] = conn[d],
         pc # "killed", pc = "http" => cur = c, Whole(conn'[c]), Busy(conn'[c])
  PROVE  Reasons'
<1>1. Occupied(c)'
  BY DEF Occupied
<1> QED BY <1>1, HandlerReasons

(* The read callback goes on to the parse loop with something to parse, or *)
(* to the EOF check.                                                       *)
LEMMA ReadReasons ==
  ASSUME ConnInv, Life, Reasons, NEW c \in Conns, handleReadCallBack(c)
  PROVE  Reasons'
<1> DEFINE l == refreshTimer(conn[c])
           r == [Self(c) EXCEPT !.k = l]
           s == readFromSck(c, r)
           e == checkEmptyReadAfterEof(c, s)
<1>1. /\ Does(c, conn[c].working, conn[c].nreq, conn[c].sent)
      /\ pc = "pass1" /\ cur' = c
  BY ReadDoes DEF Life
<1>2. l \in ConnType /\ Quits(conn[c], l, "all")
  BY SelfIs, FieldsFrame, FieldsQuit
<1>3. IF s.k.readBuffer = <<>> THEN Update(c, e) /\ pc' = "pass1" ELSE Update(c, s) /\ pc' = "http"
  BY DEF handleReadCallBack
<1>4. Whole(l)
  <2>1. Whole(conn[c])
    BY DEF Reasons
  <2> HIDE DEF l
  <2> QED BY <1>2, <2>1, QuitsWhole
<1> HIDE DEF l
<1>5. r \in Situation /\ r.k = l
  BY <1>2, SelfIs
<1> HIDE DEF r
<1>6. s \in Situation /\ Whole(s.k)
  BY <1>4, <1>5, ReadKeeps, ReadWhole
<1> HIDE DEF s
<1>7. Whole(e.k) /\ Busy(e.k)
  <2>1. Quits(s.k, e.k, "all") /\ Busy(e.k)
    BY <1>6, EofQuits, EofBusy
  <2> HIDE DEF e
  <2> QED BY <1>6, <2>1, QuitsWhole
<1> HIDE DEF e
<1>8. CASE s.k.readBuffer = <<>>
  <2>1. conn'[c] = e.k
    BY <1>3, <1>8, UpdateIs
  <2> QED BY <1>1, <1>7, <2>1, BusyReasons DEF Does
<1>9. CASE s.k.readBuffer # <<>>
  <2>1. conn'[c] = s.k /\ pc' = "http"
    BY <1>3, <1>9, UpdateIs
  <2>2. Occupied(c)' /\ Whole(conn'[c])
    BY <1>1, <1>6, <1>9, <2>1 DEF Occupied, InHandler
  <2> QED BY <1>1, <2>2, HandlerReasons DEF Does
<1> QED BY <1>8, <1>9

(* The write callback leaves something to write, or has looked for a       *)
(* reason to stay.                                                         *)
LEMMA WriteReasons ==
  ASSUME ConnInv, Life, Reasons, NEW c \in Conns, handleWriteCallBack(c)
  PROVE  Reasons'
<1> DEFINE k == refreshTimer(conn[c])
           s == [Self(c) EXCEPT !.k = k]
<1>1. Does(c, conn[c].working, conn[c].nreq, conn[c].sent) /\ pc = "pass1"
  BY WriteDoes DEF Life
<1>2. conn[c] \in ConnType /\ k \in ConnType /\ Quits(conn[c], k, "all")
  BY SelfIs, FieldsFrame, FieldsQuit
<1>3. Whole(conn[c]) /\ Busy(conn[c])
  BY <1>1 DEF Reasons, Occupied, InHandler
<1>4. Busy(k) /\ Whole(k)
  <2>1. Busy(k)
    BY <1>2, <1>3 DEF refreshTimer, ConnType, Busy
  <2> HIDE DEF k
  <2> QED BY <1>2, <1>3, <2>1, QuitsWhole
<1>5. Busy(conn'[c]) /\ Whole(conn'[c])
  <2>1. CASE conn[c].state = "dead"
    <3>1. conn' = conn
      BY <2>1 DEF handleWriteCallBack
    <3> QED BY <1>3, <3>1
  <2>2. CASE conn[c].state # "dead"
    <3>1. IF ~k.unsent THEN Update(c, [s EXCEPT !.k = disableWriting(k)])
          ELSE \E w \in WriteResults(k) :
                 Update(c, IF w = "all" THEN Drained(c, s)
                           ELSE IF w = "error" THEN WriteError(c, s)
                           ELSE [s EXCEPT !.k = Fill(k)])
      BY <2>2 DEF handleWriteCallBack
    <3> HIDE DEF k
    <3>2. s \in Situation /\ s.k = k
      BY <1>2, SelfIs
    <3> HIDE DEF s
    <3>3. CASE ~k.unsent
      <4> DEFINE l == disableWriting(k)
      <4>1. l \in ConnType /\ Quits(k, l, "all") /\ Frame(k, l)
        BY <1>2, InterestFrame, FieldsQuit
      <4>2. l.state = k.state /\ l.unsent = k.unsent
        BY <1>2 DEF disableWriting, updateChannel, ConnType
      <4>3. Update(c, [s EXCEPT !.k = l])
        BY <3>1, <3>3
      <4> HIDE DEF l
      <4>4. conn'[c] = l
        <5>1. [s EXCEPT !.k = l].k = l
          BY <3>2, <4>1, Parts
        <5> QED BY <4>3, <5>1, UpdateIs
      <4>5. Busy(l)
        BY <1>4, <4>1, <4>2 DEF Busy, Quits
      <4> QED BY <1>4, <4>1, <4>4, <4>5, QuitsWhole
    <3>4. CASE k.unsent
      <4>1. PICK w \in WriteResults(k) :
                 Update(c, IF w = "all" THEN Drained(c, s)
                           ELSE IF w = "error" THEN WriteError(c, s)
                           ELSE [s EXCEPT !.k = Fill(k)])
        BY <3>1, <3>4
      <4>2. CASE w = "all"
        <5>1. conn'[c] = Drained(c, s).k
          BY <4>1, <4>2, UpdateIs
        <5>2. Quits(k, Drained(c, s).k, w) /\ Busy(Drained(c, s).k)
          BY <3>2, DrainedQuits, DrainedBusy
        <5> QED BY <1>4, <5>1, <5>2, QuitsWhole
      <4>3. CASE w = "error"
        <5>1. conn'[c] = WriteError(c, s).k
          BY <4>1, <4>3, UpdateIs
        <5>2. Quits(k, WriteError(c, s).k, "error") /\ Busy(WriteError(c, s).k)
          BY <3>2, WriteErrorQuits, WriteErrorBusy
        <5> QED BY <1>4, <5>1, <5>2, QuitsWhole
      <4>4. CASE w \notin {"all", "error"}
        <5>1. Fill(k) \in ConnType /\ Quits(k, Fill(k), w) /\ Busy(Fill(k))
          BY <1>2, <1>4, <4>1, <4>4, WriteAnswers, FillFrame, FillQuits, FillBusy
        <5>2. [s EXCEPT !.k = Fill(k)].k = Fill(k)
          BY <3>2, <5>1, Parts
        <5>3. conn'[c] = Fill(k)
          BY <4>1, <4>4, <5>2, UpdateIs
        <5> QED BY <1>4, <5>1, <5>3, QuitsWhole
      <4> QED BY <4>2, <4>3, <4>4
    <3> QED BY <3>3, <3>4
  <2> QED BY <2>1, <2>2
<1> QED BY <1>1, <1>5, BusyReasons DEF Does

(* A response that is sent, with the EOF check behind it.                  *)
LEMMA AnswerReasons ==
  ASSUME NEW c \in Conns, NEW s \in Situation, NEW w, w \in {"all", "error"} \/ CanFill(s.k),
         NEW id \in Nat, NEW keepAlive \in BOOLEAN, Whole(s.k)
  PROVE  LET t == checkEmptyReadAfterEof(c, sendHttpOnLoop(c, s, w, id, keepAlive))
         IN  Whole(t.k) /\ Busy(t.k)
<1> DEFINE a == sendHttpOnLoop(c, s, w, id, keepAlive)
           t == checkEmptyReadAfterEof(c, a)
<1>1. a \in Situation
  BY SendKeeps
<1>2. Quits(s.k, t.k, w)
  BY AnswerQuits
<1>3. Busy(t.k)
  <2> HIDE DEF a
  <2> QED BY <1>1, EofBusy
<1> HIDE DEF t
<1>4. Whole(t.k)
  BY <1>2, QuitsWhole
<1> QED BY <1>3, <1>4 DEF t, a

(* So is an answer of a worker.                                            *)
LEMMA RespReasons ==
  ASSUME ConnInv, Life, Reasons, respTask
  PROVE  Reasons'
<1> DEFINE t == Head(funcs)
           c == t.conn
           l == conn[c]
           k == [l EXCEPT !.working = @ - 1]
           r == [Self(c) EXCEPT !.k.working = @ - 1]
           m == l.working - 1
           x == IF l.state = "dead" THEN l.sent ELSE Append(l.sent, t.id)
<1>1. c \in Conns /\ t.kind = "resp" /\ Does(c, m, l.nreq, x) /\ pc = "funcs"
  <2>1. Unborn /\ conn[Head(funcs).conn].state # "none"
    BY RespIsBorn DEF Life
  <2> QED BY <2>1, RespDoes
<1> HIDE DEF m, x
<1>2. t.id \in Nat /\ t.keepAlive \in BOOLEAN
  <2>1. t \in TaskType
    BY TaskType1 DEF ConnInv, respTask, RunTask
  <2> QED BY <1>1, <2>1 DEF TaskType
<1>3. PICK w \in IF l.state = "dead" THEN {"none"} ELSE WriteResults(l) :
        Update(c, WorkerAnswer(t, Self(c), w))
  BY DEF respTask
<1> HIDE DEF t
<1>4. l \in ConnType /\ Whole(l)
  BY <1>1, SelfIs DEF Reasons
<1>5. k \in ConnType
  <2>1. l.working \in Int /\ l.working - 1 \in Int
    BY <1>4, WorkingIs
  <2> QED BY <1>4, <2>1 DEF ConnType
<1>6. /\ k.room = l.room /\ k.stalls = l.stalls /\ k.state = l.state
      /\ k.readBuffer = l.readBuffer /\ k.script = l.script /\ k.inq = l.inq
  BY <1>4 DEF ConnType
<1>7. r = [Self(c) EXCEPT !.k = k]
  BY DEF Self
<1> HIDE DEF k
<1>8. r \in Situation /\ r.k = k /\ Whole(k)
  <2> HIDE DEF r
  <2>1. [Self(c) EXCEPT !.k = k] \in Situation /\ [Self(c) EXCEPT !.k = k].k = k
    BY <1>1, <1>5, SelfIs
  <2>2. Whole(k)
    BY <1>4, <1>6 DEF Whole
  <2> QED BY <1>7, <2>1, <2>2
<1>9. WorkerAnswer(t, Self(c), w)
        = IF r.k.state = "dead" THEN r
          ELSE checkEmptyReadAfterEof(c, sendHttpOnLoop(c, r, w, t.id, t.keepAlive))
  BY DEF WorkerAnswer
<1> HIDE DEF r
<1>10. Whole(conn'[c]) /\ Busy(conn'[c])
  <2>1. CASE l.state = "dead"
    <3>1. Update(c, r)
      BY <1>3, <1>6, <1>8, <1>9, <2>1
    <3>2. conn'[c] = k
      BY <1>1, <1>8, <3>1, UpdateIs
    <3> QED BY <1>6, <1>8, <2>1, <3>2 DEF Busy
  <2>2. CASE l.state # "dead"
    <3> DEFINE u == checkEmptyReadAfterEof(c, sendHttpOnLoop(c, r, w, t.id, t.keepAlive))
    <3>1. w \in {"all", "error"} \/ CanFill(r.k)
      BY <1>3, <1>4, <1>6, <1>8, <2>2, WriteAnswers DEF CanFill
    <3>2. Whole(u.k) /\ Busy(u.k)
      BY <1>1, <1>2, <1>8, <3>1, AnswerReasons
    <3>3. Update(c, u)
      BY <1>3, <1>6, <1>8, <1>9, <2>2
    <3> HIDE DEF u
    <3>4. conn'[c] = u.k
      BY <1>1, <3>3, UpdateIs
    <3> QED BY <3>2, <3>4
  <2> QED BY <2>1, <2>2
<1> HIDE DEF c
<1> QED BY <1>1, <1>10, BusyReasons DEF Does

(* The idle timer ends the connection.                                     *)
LEMMA TimeoutReasons ==
  ASSUME ConnInv, Life, Reasons, NEW c \in Conns, idleTimeout(c)
  PROVE  Reasons'
<1> DEFINE k == [conn[c] EXCEPT !.timer = "none"]
           s == [Self(c) EXCEPT !.k.timer = "none"]
           t == handleDead(c, s)
<1>1. /\ Does(c, conn[c].working, conn[c].nreq, conn[c].sent) /\ pc = "timer"
      /\ Update(c, t)
  BY TimeoutDoes DEF Life, idleTimeout
<1>2. conn[c] \in ConnType /\ Whole(conn[c])
  BY SelfIs DEF Reasons
<1>3. /\ k \in ConnType /\ k.readBuffer = conn[c].readBuffer
      /\ k.script = conn[c].script /\ k.inq = conn[c].inq
  BY <1>2 DEF ConnType
<1>4. s = [Self(c) EXCEPT !.k = k]
  BY DEF Self
<1> HIDE DEF k
<1>5. s \in Situation /\ s.k = k /\ Whole(k)
  <2> HIDE DEF s
  <2>1. [Self(c) EXCEPT !.k = k] \in Situation /\ [Self(c) EXCEPT !.k = k].k = k
    BY <1>3, SelfIs
  <2>2. Whole(k)
    BY <1>2, <1>3 DEF Whole
  <2> QED BY <1>4, <2>1, <2>2
<1> HIDE DEF s
<1>6. Quits(k, t.k, "error") /\ Busy(t.k)
  BY <1>5, DeadQuits, DeadIsDead
<1> HIDE DEF t
<1>7. conn'[c] = t.k
  BY <1>1, UpdateIs
<1>8. Whole(conn'[c]) /\ Busy(conn'[c])
  BY <1>5, <1>6, <1>7, QuitsWhole
<1> QED BY <1>1, <1>8, BusyReasons DEF Does

(* What a round of the parse loop takes leaves whole requests.             *)
LEMMA ConsumedReasons ==
  ASSUME ConnInv, Reasons, NEW c \in Conns
  PROVE  /\ Whole(Consumed(c))
         /\ Consumed(c).unsent = conn[c].unsent
         /\ parse(conn[c].readBuffer).result = "needMore" => conn[c].readBuffer = <<>>
<1>1. conn[c] \in ConnType /\ Whole(conn[c])
  BY SelfIs DEF Reasons
<1>2. /\ parse(conn[c].readBuffer).rest \in Seq(Terminal)
      /\ parse(conn[c].readBuffer).result = "needMore" => conn[c].readBuffer = <<>>
  <2>1. conn[c].readBuffer \in Seq(Terminal)
    BY <1>1 DEF Whole
  <2> QED BY <2>1, RestIsWhole
<1>3. LET l == Consumed(c)
      IN  /\ l.readBuffer = parse(conn[c].readBuffer).rest /\ l.unsent = conn[c].unsent
          /\ l.script = conn[c].script /\ l.inq = conn[c].inq
  BY <1>1 DEF Consumed, ConnType
<1> QED BY <1>1, <1>2, <1>3 DEF Whole

(* A round of the parse loop hands a request over, which counts as work,   *)
(* or ends in the EOF check, or has nothing left to parse.                 *)
LEMMA RoundReasons ==
  ASSUME ConnInv, Life, Counts, Reasons, NEW c \in Conns, onHttp(c)
  PROVE  Reasons'
<1> DEFINE l == Consumed(c)
<1>1. Unborn
  BY DEF Life
<1>2. /\ l \in ConnType /\ Whole(l) /\ l.state = conn[c].state /\ l.unsent = conn[c].unsent
      /\ l.working = conn[c].working /\ l.room = conn[c].room /\ l.stalls = conn[c].stalls
      /\ l.nreq + 1 \in Nat /\ l.working + 1 \in Int
  BY ConsumedIs, ConsumedSound, ConsumedReasons DEF Frame
<1>3. \A d \in Conns \ {c} : conn'[d] = conn[d]
  BY RoundOthers
<1>4. pc = "http" /\ cur = c
  BY DEF onHttp, onHttpDead, onHttpNeedMore, onHttpLineTooLong, onHttpError, onHttpProcess,
         onHttpInline, Parsed
<1>5. Whole(conn'[c]) /\ Busy(conn'[c])
  <2>1. CASE onHttpDead(c)
    BY <2>1 DEF onHttpDead, Reasons, Busy
  <2>2. CASE onHttpNeedMore(c)
    <3> DEFINE u == [Self(c) EXCEPT !.k = l]
    <3>1. Update(c, u) /\ parse(conn[c].readBuffer).result = "needMore"
      BY <2>2 DEF onHttpNeedMore, Parsed
    <3>2. Busy(conn[c])
      BY <1>4, <3>1, ConsumedReasons DEF Reasons, Occupied
    <3> HIDE DEF l
    <3>3. u.k = l
      BY <1>2, SelfIs
    <3> HIDE DEF u
    <3>4. conn'[c] = l
      BY <3>1, <3>3, UpdateIs
    <3> QED BY <1>2, <3>2, <3>4 DEF Busy
  <2>3. CASE onHttpLineTooLong(c)
    <3> DEFINE d == disableReading(l)
               k == [d EXCEPT !.state = "peerClose"]
               s == [Self(c) EXCEPT !.k = k]
               e == checkEmptyReadAfterEof(c, s)
    <3>1. Update(c, e)
      BY <2>3 DEF onHttpLineTooLong
    <3> HIDE DEF l
    <3>2. d \in ConnType /\ Quits(l, d, "error")
      BY <1>2, InterestFrame, FieldsQuit
    <3> HIDE DEF d
    <3>3. k \in ConnType /\ Quits(d, k, "error")
      BY <3>2, FieldsFrame, FieldsQuit
    <3> HIDE DEF k
    <3>4. s \in Situation /\ s.k = k
      BY <3>3, SelfIs
    <3> HIDE DEF s
    <3>5. Quits(k, e.k, "error") /\ Busy(e.k)
      BY <3>4, EofQuits, EofBusy
    <3> HIDE DEF e
    <3>6. Whole(d)
      BY <1>2, <3>2, QuitsWhole
    <3>7. Whole(k)
      BY <3>3, <3>6, QuitsWhole
    <3>8. Whole(e.k)
      BY <3>5, <3>7, QuitsWhole
    <3>9. conn'[c] = e.k
      BY <3>1, UpdateIs
    <3> QED BY <3>5, <3>8, <3>9
  <2>4. CASE onHttpError(c)
    <3> DEFINE s == [Self(c) EXCEPT !.k = l]
    <3>1. PICK w \in WriteResults(conn[c]) :
            Update(c, checkEmptyReadAfterEof(c, sendHttpOnLoop(c, s, w, 0, FALSE)))
      BY <2>4 DEF onHttpError
    <3> HIDE DEF l
    <3>2. s \in Situation /\ s.k = l
      BY <1>2, SelfIs
    <3> HIDE DEF s
    <3>3. w \in {"all", "error"} \/ CanFill(s.k)
      BY <1>2, <3>1, <3>2, SelfIs, WriteAnswers DEF CanFill
    <3> DEFINE u == checkEmptyReadAfterEof(c, sendHttpOnLoop(c, s, w, 0, FALSE))
    <3>4. Whole(u.k) /\ Busy(u.k)
      BY <1>2, <3>2, <3>3, AnswerReasons
    <3>5. Update(c, u)
      BY <3>1
    <3> HIDE DEF u
    <3> QED BY <3>4, <3>5, UpdateIs
  <2>5. CASE onHttpProcess(c)
    <3> DEFINE k == [l EXCEPT !.nreq = @ + 1, !.working = @ + 1]
               u == [Self(c) EXCEPT !.k = k]
    <3>1. Update(c, u)
      BY <2>5 DEF onHttpProcess
    <3>2. conn[c].working \in Nat
      <4>1. ~stop
        BY <1>4 DEF Life, StopOrder
      <4> QED BY <4>1, WorkingIsNat
    <3> HIDE DEF l
    <3>3. /\ k \in ConnType /\ k.working = l.working + 1
          /\ k.script = l.script /\ k.inq = l.inq /\ k.readBuffer = l.readBuffer
      BY <1>2 DEF ConnType
    <3> HIDE DEF k
    <3>4. u.k = k
      BY <3>3, SelfIs
    <3> HIDE DEF u
    <3>5. conn'[c] = k
      BY <3>1, <3>4, UpdateIs
    <3>6. k.working # 0
      BY <1>2, <3>2, <3>3
    <3> QED BY <1>2, <3>3, <3>5, <3>6 DEF Whole, Busy
  <2>6. CASE onHttpInline(c)
    <3> DEFINE k == [l EXCEPT !.nreq = @ + 1]
               s == [Self(c) EXCEPT !.k = k]
               r == Request(c)
    <3>1. PICK w \in WriteResults(conn[c]) :
            Update(c, checkEmptyReadAfterEof(c, sendHttpOnLoop(c, s, w, r.id, r.keepAlive)))
      BY <2>6 DEF onHttpInline
    <3>2. r.id \in Nat /\ r.keepAlive \in BOOLEAN
      <4>1. r.id = conn[c].nreq + 1 /\ r.keepAlive \in BOOLEAN
        BY DEF Request
      <4>2. conn[c].nreq \in Nat
        BY NreqType
      <4> QED BY <4>1, <4>2
    <3> HIDE DEF l, r
    <3>3. /\ k \in ConnType /\ k.room = l.room /\ k.stalls = l.stalls
          /\ k.script = l.script /\ k.inq = l.inq /\ k.readBuffer = l.readBuffer
      BY <1>2 DEF ConnType
    <3> HIDE DEF k
    <3>4. s \in Situation /\ s.k = k /\ Whole(k)
      BY <1>2, <3>3, SelfIs DEF Whole
    <3> HIDE DEF s
    <3>5. w \in {"all", "error"} \/ CanFill(s.k)
      BY <1>2, <3>1, <3>3, <3>4, SelfIs, WriteAnswers DEF CanFill
    <3> DEFINE u == checkEmptyReadAfterEof(c, sendHttpOnLoop(c, s, w, r.id, r.keepAlive))
    <3>6. Whole(u.k) /\ Busy(u.k)
      BY <3>2, <3>4, <3>5, AnswerReasons
    <3>7. Update(c, u)
      BY <3>1
    <3> HIDE DEF u
    <3> QED BY <3>6, <3>7, UpdateIs
  <2> QED BY <2>1, <2>2, <2>3, <2>4, <2>5, <2>6 DEF onHttp
<1> QED BY <1>3, <1>4, <1>5, BusyReasons

(* The constructor, the tasks and the main thread: nothing half-closed     *)
(* comes to be.                                                            *)
LEMMA TaskReasons ==
  ASSUME ConnInv, Life, Reasons,
         addTask \/ removeTask \/ stopTask \/ \E c \in Conns : addConnection(c)
  PROVE  Reasons'
<1>1. conn \in [Conns -> ConnType]
  BY DEF ConnInv, Typed
<1>2. ASSUME NEW c \in Conns, NEW k \in ConnType, conn' = [conn EXCEPT ![c] = k],
             Whole(conn[c]) => Whole(k), Busy(conn[c]) => Busy(k),
             k.readBuffer = conn[c].readBuffer, UNCHANGED <<pc, cur>>
      PROVE  Reasons'
  <2>1. conn'[c] = k /\ \A d \in Conns \ {c} : conn'[d] = conn[d]
    BY <1>1, <1>2
  <2>2. \A d \in Conns : Whole(conn'[d])
    BY <1>2, <2>1 DEF Reasons
  <2>3. \A d \in Conns : Occupied(d) => Occupied(d)'
    BY <1>2, <2>1 DEF Occupied, InHandler
  <2> QED BY <1>2, <2>2, <2>3 DEF Reasons
<1>3. CASE addTask
  <2> DEFINE c == Head(funcs).conn
             n == [conn[c] EXCEPT !.state = "connected", !.inMap = TRUE]
             r == refreshTimer(n)
             m == [r EXCEPT !.events = @ \cup {"in"}]
             k == updateChannel(m)
  <2>1. c \in Conns
    BY <1>3, AddLife
  <2>2. conn' = [conn EXCEPT ![c] = k] /\ UNCHANGED <<pc, cur>>
    BY <1>3 DEF addTask, RunTask, enableReading
  <2> HIDE DEF c
  <2>3. conn[c] \in ConnType
    BY <2>1, SelfIs
  <2>4. /\ n \in ConnType /\ n.state = "connected" /\ n.readBuffer = conn[c].readBuffer
        /\ n.script = conn[c].script /\ n.inq = conn[c].inq
    BY <2>3 DEF ConnType, ConnState
  <2> HIDE DEF n
  <2>5. /\ r \in ConnType /\ r.state = "connected" /\ r.readBuffer = n.readBuffer
        /\ r.script = n.script /\ r.inq = n.inq
    BY <2>4 DEF ConnType, refreshTimer
  <2> HIDE DEF r
  <2>6. /\ m \in ConnType /\ m.state = "connected" /\ m.readBuffer = r.readBuffer
        /\ m.script = r.script /\ m.inq = r.inq
    BY <2>5 DEF ConnType, Event
  <2> HIDE DEF m
  <2>7. /\ k \in ConnType /\ k.state = "connected" /\ k.readBuffer = m.readBuffer
        /\ k.script = m.script /\ k.inq = m.inq
    <3>1. (m.armed \/ Reported(m) # {}) \in BOOLEAN
      BY <2>6 DEF ConnType
    <3> QED BY <2>6, <3>1 DEF updateChannel, ConnType
  <2> HIDE DEF k
  <2>8. k.readBuffer = conn[c].readBuffer /\ (Whole(conn[c]) => Whole(k)) /\ Busy(k)
    BY <2>4, <2>5, <2>6, <2>7 DEF Whole, Busy
  <2> QED BY <1>2, <2>1, <2>2, <2>7, <2>8
<1>4. CASE removeTask
  <2> DEFINE c == Head(funcs).conn
             k == [conn[c] EXCEPT !.inMap = FALSE]
  <2>1. c \in Conns
    BY <1>4, TaskType1 DEF ConnInv, Typed, removeTask, RunTask
  <2>2. conn' = [conn EXCEPT ![c] = k] /\ UNCHANGED <<pc, cur>>
    BY <1>4 DEF removeTask
  <2> HIDE DEF c
  <2>3. conn[c] \in ConnType
    BY <1>1, <2>1
  <2>4. /\ k \in ConnType /\ k.readBuffer = conn[c].readBuffer /\ k.state = conn[c].state
        /\ k.working = conn[c].working /\ k.unsent = conn[c].unsent
        /\ k.script = conn[c].script /\ k.inq = conn[c].inq
    BY <2>3 DEF ConnType
  <2> HIDE DEF k
  <2>5. (Whole(conn[c]) => Whole(k)) /\ (Busy(conn[c]) => Busy(k))
    BY <2>4 DEF Whole, Busy
  <2> QED BY <1>2, <2>1, <2>2, <2>4, <2>5
<1>5. CASE \E c \in Conns : addConnection(c)
  <2>1. PICK c \in Conns : addConnection(c)
    BY <1>5
  <2> DEFINE k == [conn[c] EXCEPT !.peer = "open"]
  <2>2. conn' = [conn EXCEPT ![c] = k] /\ UNCHANGED <<pc, cur>>
    BY <2>1 DEF addConnection
  <2>3. conn[c] \in ConnType
    BY <1>1
  <2>4. /\ k \in ConnType /\ k.readBuffer = conn[c].readBuffer /\ k.state = conn[c].state
        /\ k.working = conn[c].working /\ k.unsent = conn[c].unsent
        /\ k.script = conn[c].script /\ k.inq = conn[c].inq
    BY <2>3 DEF ConnType
  <2> HIDE DEF k
  <2>5. (Whole(conn[c]) => Whole(k)) /\ (Busy(conn[c]) => Busy(k))
    BY <2>4 DEF Whole, Busy
  <2> QED BY <1>2, <2>2, <2>4, <2>5
<1>6. CASE stopTask
  <2>1. conn' = [c \in Conns |-> IF conn[c].inMap THEN stopConnection(conn[c]) ELSE conn[c]]
        /\ UNCHANGED <<pc, cur>>
    BY <1>6 DEF stopTask
  <2>2. ASSUME NEW k \in ConnType
        PROVE  /\ stopConnection(k).readBuffer = k.readBuffer
               /\ stopConnection(k).script = k.script /\ stopConnection(k).inq = k.inq
               /\ stopConnection(k).state = "dead"
    BY DEF stopConnection, removeChannel, ConnType
  <2>3. ASSUME NEW d \in Conns
        PROVE  Whole(conn'[d]) /\ (Occupied(d) => Occupied(d)')
    <3>1. conn'[d] = stopConnection(conn[d]) \/ conn'[d] = conn[d]
      BY <2>1
    <3>2. conn[d] \in ConnType /\ Whole(conn[d])
      BY <1>1 DEF Reasons
    <3>3. CASE conn'[d] = conn[d]
      BY <2>1, <3>2, <3>3 DEF Occupied, InHandler
    <3>4. CASE conn'[d] = stopConnection(conn[d])
      <4>1. Whole(conn'[d]) /\ Busy(conn'[d])
        BY <2>2, <3>2, <3>4 DEF Whole, Busy
      <4> QED BY <4>1 DEF Occupied
    <3> QED BY <3>1, <3>3, <3>4
  <2> QED BY <2>1, <2>3 DEF Reasons
<1> QED BY <1>3, <1>4, <1>5, <1>6

(* The peers and the clock touch neither the reasons nor the pieces.       *)
LEMMA PeerReasons ==
  ASSUME ConnInv, Reasons, NEW c \in Conns,
         Arrive(c) \/ PeerFin(c) \/ PeerReset(c) \/ PeerReads(c) \/ Expire(c)
  PROVE  Reasons'
<1> DEFINE k == conn[c]
           Alike(l) == /\ l \in ConnType /\ Whole(l) /\ l.readBuffer = k.readBuffer
                       /\ l.state = k.state /\ l.working = k.working /\ l.unsent = k.unsent
<1>1. k \in ConnType /\ conn \in [Conns -> ConnType] /\ Whole(k)
  BY SelfIs DEF ConnInv, Typed, Reasons
<1>2. ASSUME NEW l, Alike(l), Peer(c, l)
      PROVE  Reasons'
  <2>1. conn'[c] = l /\ (\A d \in Conns \ {c} : conn'[d] = conn[d]) /\ UNCHANGED <<pc, cur>>
    BY <1>1, <1>2 DEF Peer
  <2>2. \A d \in Conns : Whole(conn'[d])
    BY <1>2, <2>1 DEF Reasons
  <2>3. \A d \in Conns : Occupied(d) => Occupied(d)'
    BY <1>2, <2>1 DEF Occupied, InHandler, Busy
  <2> QED BY <2>1, <2>2, <2>3 DEF Reasons
<1>3. ASSUME NEW l, Alike(l), NEW e
      PROVE  Alike(Wakeup(l, e))
  <2>1. Wakeup(l, e) \in ConnType
    BY <1>3, WakeupIs
  <2>2. LET n == Wakeup(l, e)
        IN  /\ n.readBuffer = l.readBuffer /\ n.script = l.script /\ n.inq = l.inq
            /\ n.state = l.state /\ n.working = l.working /\ n.unsent = l.unsent
    BY <1>3 DEF Wakeup, ConnType
  <2> QED BY <1>3, <2>1, <2>2 DEF Whole
<1>4. CASE Arrive(c)
  <2> DEFINE l == [k EXCEPT !.inq = Append(@, Head(k.script)), !.script = Tail(@)]
  <2>1. k.script # <<>> /\ k.script \in Seq(Terminal) /\ k.inq \in Seq(Terminal)
    BY <1>1, <1>4 DEF Arrive, Whole
  <2>2. Append(k.inq, Head(k.script)) \in Seq(Terminal) /\ Tail(k.script) \in Seq(Terminal)
    BY <2>1
  <2>3. Append(k.inq, Head(k.script)) \in Seq(Piece) /\ Tail(k.script) \in Seq(Piece)
    <3>1. k.script \in Seq(Piece) /\ k.inq \in Seq(Piece)
      BY <1>1 DEF ConnType
    <3> QED BY <2>1, <3>1
  <2>4. l \in ConnType
    BY <1>1, <2>3 DEF ConnType
  <2>5. /\ l.inq = Append(k.inq, Head(k.script)) /\ l.script = Tail(k.script)
        /\ l.readBuffer = k.readBuffer
        /\ l.state = k.state /\ l.working = k.working /\ l.unsent = k.unsent
    BY <1>1 DEF ConnType
  <2>6. Peer(c, Wakeup(l, "in"))
    BY <1>4 DEF Arrive
  <2> HIDE DEF l
  <2>7. Alike(l)
    BY <1>1, <2>2, <2>4, <2>5 DEF Whole
  <2> QED BY <1>2, <1>3, <2>6, <2>7
<1>5. ASSUME NEW l \in ConnType, l.script = k.script, l.inq = k.inq, l.readBuffer = k.readBuffer,
             l.state = k.state, l.working = k.working, l.unsent = k.unsent
      PROVE  Alike(l)
  BY <1>1, <1>5 DEF Whole
<1>6. CASE PeerFin(c)
  <2> DEFINE l == [k EXCEPT !.peer = "fin"]
  <2>1. Peer(c, Wakeup(l, "in"))
    BY <1>6 DEF PeerFin
  <2>2. /\ l \in ConnType /\ l.script = k.script /\ l.inq = k.inq /\ l.readBuffer = k.readBuffer
        /\ l.state = k.state /\ l.working = k.working /\ l.unsent = k.unsent
    BY <1>1 DEF ConnType
  <2> HIDE DEF l, k, Alike
  <2>3. Alike(l)
    BY <1>5, <2>2
  <2> QED BY <1>2, <1>3, <2>1, <2>3
<1>7. CASE PeerReset(c)
  <2> DEFINE b == (k.peer = "open")
             l == [k EXCEPT !.peer = "rst", !.sockErr = b]
  <2>1. Peer(c, Wakeup(Wakeup(l, "in"), "out"))
    BY <1>7 DEF PeerReset
  <2>2. /\ l \in ConnType /\ l.script = k.script /\ l.inq = k.inq /\ l.readBuffer = k.readBuffer
        /\ l.state = k.state /\ l.working = k.working /\ l.unsent = k.unsent
    BY <1>1 DEF ConnType
  <2> HIDE DEF l, k, Alike
  <2>3. Alike(l)
    BY <1>5, <2>2
  <2>4. Alike(Wakeup(Wakeup(l, "in"), "out"))
    BY <1>3, <2>3
  <2> QED BY <1>2, <2>1, <2>4
<1>8. CASE PeerReads(c)
  <2> DEFINE l == [k EXCEPT !.room = TRUE]
  <2>1. Peer(c, Wakeup(l, "out"))
    BY <1>8 DEF PeerReads
  <2>2. /\ l \in ConnType /\ l.script = k.script /\ l.inq = k.inq /\ l.readBuffer = k.readBuffer
        /\ l.state = k.state /\ l.working = k.working /\ l.unsent = k.unsent
    BY <1>1 DEF ConnType
  <2> HIDE DEF l, k, Alike
  <2>3. Alike(l)
    BY <1>5, <2>2
  <2> QED BY <1>2, <1>3, <2>1, <2>3
<1>9. CASE Expire(c)
  <2> DEFINE l == [k EXCEPT !.timer = "stale"]
  <2>1. Peer(c, l)
    BY <1>9 DEF Expire
  <2>2. /\ l \in ConnType /\ l.script = k.script /\ l.inq = k.inq /\ l.readBuffer = k.readBuffer
        /\ l.state = k.state /\ l.working = k.working /\ l.unsent = k.unsent
    BY <1>1 DEF ConnType
  <2> HIDE DEF l, k, Alike
  <2>3. Alike(l)
    BY <1>5, <2>2
  <2> QED BY <1>2, <2>1, <2>3
<1> QED BY <1>4, <1>6, <1>7, <1>8, <1>9

(* epoll_wait changes the ready list only.                                 *)
LEMMA PollReasons ==
  ASSUME ConnInv, Reasons, Poll
  PROVE  Reasons'
<1>1. PICK batch \in Batches :
        conn' = [c \in Conns |-> [conn[c] EXCEPT !.armed = c \in Pending \ batch]]
  BY DEF Poll
<1>2. pc = "poll"
  BY DEF Poll
<1>3. ASSUME NEW d \in Conns
      PROVE  Whole(conn'[d]) /\ Occupied(d)'
  <2> DEFINE a == d \in Pending \ batch
  <2>1. conn[d] \in ConnType /\ Whole(conn[d]) /\ Busy(conn[d])
    BY <1>2, SelfIs DEF Reasons, Occupied, InHandler
  <2>2. conn'[d] = [conn[d] EXCEPT !.armed = a]
    BY <1>1
  <2> HIDE DEF a
  <2>3. /\ conn'[d].readBuffer = conn[d].readBuffer /\ conn'[d].script = conn[d].script
        /\ conn'[d].inq = conn[d].inq /\ conn'[d].state = conn[d].state
        /\ conn'[d].working = conn[d].working /\ conn'[d].unsent = conn[d].unsent
    BY <2>1, <2>2 DEF ConnType
  <2> QED BY <2>1, <2>3 DEF Whole, Busy, Occupied
<1> QED BY <1>3 DEF Reasons

(* The invariant is kept by every step.                                    *)
LEMMA ReasonsNext ==
  ASSUME ConnInv, Life, Counts, Reasons, [Next]_vars
  PROVE  Reasons'
<1>1. CASE \E c \in Conns : handleReadCallBack(c) \/ onHttp(c) \/ handleWriteCallBack(c)
                              \/ idleTimeout(c)
  BY <1>1, ReadReasons, RoundReasons, WriteReasons, TimeoutReasons
<1>2. CASE respTask
  BY <1>2, RespReasons
<1>3. CASE addTask \/ removeTask \/ stopTask \/ \E c \in Conns : addConnection(c)
  BY <1>3, TaskReasons
<1>4. CASE Poll
  BY <1>4, PollReasons
<1>5. CASE \E c \in Conns :
             Arrive(c) \/ PeerFin(c) \/ PeerReset(c) \/ PeerReads(c) \/ Expire(c)
  BY <1>5, PeerReasons
<1>6. CASE EndOfBatch \/ Drain \/ EndOfIteration
  <2>1. conn' = conn /\ pc # "http"
    BY <1>6 DEF EndOfBatch, Drain, EndOfIteration
  <2>2. pc = "killed" => pc' = "killed"
    BY <1>6 DEF EndOfBatch, Drain, EndOfIteration
  <2> QED BY <2>1, <2>2 DEF Reasons, Occupied, InHandler
<1>7. CASE BrokenPipe
  <2>1. pc' = "killed" /\ conn' = conn
    BY <1>7 DEF BrokenPipe
  <2> QED BY <2>1 DEF Reasons
<1>8. CASE (\E r \in pool : buildResponse(r)) \/ requestStop \/ UNCHANGED vars
  <2>1. UNCHANGED <<conn, pc, cur>>
    BY <1>8 DEF buildResponse, requestStop, vars
  <2> QED BY <2>1 DEF Reasons, Occupied, InHandler
<1> QED BY <1>1, <1>2, <1>3, <1>4, <1>5, <1>6, <1>7, <1>8
        DEF Next, LoopThread, Environment, Workers

(* At the start nothing is half-closed, and the streams are whole.         *)
LEMMA ReasonsInit == Init /\ WholeStreams => Reasons
<1> SUFFICES ASSUME Init, WholeStreams PROVE Reasons
  OBVIOUS
<1>1. PICK flag \in Modes, load \in Loads : conn = [c \in Conns |-> NewConn(flag, load, c)]
  BY DEF Init
<1>2. ASSUME NEW c \in Conns
      PROVE  Whole(conn[c]) /\ Busy(conn[c])
  <2>1. conn[c] = NewConn(flag, load, c)
    BY <1>1
  <2>2. /\ conn[c].state = "none" /\ conn[c].inq = <<>> /\ conn[c].readBuffer = <<>>
        /\ conn[c].script = IF c \in DOMAIN load THEN load[c] ELSE <<>>
    BY <2>1 DEF NewConn
  <2>3. conn[c].script \in Seq(Terminal) /\ <<>> \in Seq(Terminal)
    BY DEF WholeStreams
  <2> QED BY <2>2, <2>3 DEF Whole, Busy
<1> QED BY <1>2 DEF Reasons, Occupied

(* This is HasReason: while the loop runs, work counted is work            *)
(* outstanding; once it has stopped, nothing is served.                    *)
LEMMA ReasonsImply ==
  ASSUME ConnInv, Life, Counts, Reasons
  PROVE  HasReason
<1> SUFFICES ASSUME pc # "killed", NEW c \in Conns, Serving(c), conn[c].state = "peerClose",
                    ~InHandler(c)
             PROVE  conn[c].working > 0 \/ conn[c].unsent
  BY DEF HasReason
<1>1. conn[c].working # 0 \/ conn[c].unsent
  BY DEF Reasons, Occupied, Busy
<1>2. ~stop
  BY DEF Life, StoppedIsDead, Serving
<1>3. conn[c].working \in Nat
  BY <1>2, WorkingIsNat
<1> QED BY <1>1, <1>3

(* PeerCloseHasReason: of a peer that sends whole requests, a half-closed  *)
(* connection is kept only while an answer to it is being built or         *)
(* written, however requests, answers, partial writes, an EOF and the      *)
(* closing responses follow one another.                                   *)
THEOREM HalfClosedHasAReason == Spec => PeerCloseHasReason
<1>1. /\ ConnInv /\ Life /\ Counts /\ Reasons /\ [Next]_vars
      => ConnInv' /\ Life' /\ Counts' /\ Reasons'
  BY ConnInvNext, LifeNext, CountsNext, ReasonsNext
<1>2. ConnInv /\ Life /\ Counts /\ Reasons => HasReason
  BY ReasonsImply
<1>3. Init /\ WholeStreams => Reasons
  BY ReasonsInit
<1> QED BY <1>1, <1>2, <1>3, ConnInvInit, LifeInit, CountsInit, PTL
        DEF Spec, PeerCloseHasReason
=============================================================================
