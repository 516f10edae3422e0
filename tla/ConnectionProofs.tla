-------------------------- MODULE ConnectionProofs --------------------------
(* What TLAPS proves of Connection, for any set of connections, any        *)
(* streams, both modes and every fault.                                    *)
EXTENDS Connection, FiniteSetTheorems, SequenceTheorems, TLAPS

(* One connection between two calls: its members have their types, it is   *)
(* on the ready list only while in epoll, and nothing is left registered   *)
(* when it is dead.                                                        *)
Detached(k) == k.state = "dead" => ~k.inEpoll /\ k.timer = "none"
Sound(k) == k \in ConnType /\ (k.armed => k.inEpoll) /\ Detached(k)

(* A connection together with the queue of its loop.                       *)
Situation == [k : ConnType, q : Seq(TaskType)]
SoundBoth(s) == s \in Situation /\ Sound(s.k)

-----------------------------------------------------------------------------
(* The members of Connection and Channel keep a connection sound.          *)

LEMMA ChannelTypes ==
  ASSUME NEW k \in ConnType
  PROVE  /\ updateChannel(k) \in ConnType
         /\ updateChannel(k).state = k.state /\ updateChannel(k).inEpoll
         /\ removeChannel(k) \in ConnType
         /\ removeChannel(k).state = k.state
         /\ ~removeChannel(k).armed /\ ~removeChannel(k).inEpoll
<1>1. updateChannel(k) \in ConnType
  BY DEF ConnType, updateChannel
<1>2. updateChannel(k).state = k.state /\ updateChannel(k).inEpoll
  BY DEF ConnType, updateChannel
<1>3. removeChannel(k) \in ConnType
  BY DEF ConnType, removeChannel
<1>4. /\ removeChannel(k).state = k.state
      /\ ~removeChannel(k).armed /\ ~removeChannel(k).inEpoll
  BY DEF ConnType, removeChannel
<1> QED
  BY <1>1, <1>2, <1>3, <1>4

(* Changing the interest set registers a live connection again.            *)
LEMMA InterestSound ==
  ASSUME NEW k \in ConnType, k.state # "dead"
  PROVE  /\ Sound(enableReading(k)) /\ enableReading(k).state = k.state
         /\ Sound(disableReading(k)) /\ disableReading(k).state = k.state
         /\ Sound(enableWriting(k)) /\ enableWriting(k).state = k.state
         /\ Sound(disableWriting(k)) /\ disableWriting(k).state = k.state
<1>1. ASSUME NEW E \in SUBSET Event
      PROVE  [k EXCEPT !.events = E] \in ConnType /\ [k EXCEPT !.events = E].state = k.state
  BY DEF ConnType
<1>2. k.events \in SUBSET Event
  BY DEF ConnType
<1>3. ASSUME NEW E \in SUBSET Event
      PROVE  /\ Sound(updateChannel([k EXCEPT !.events = E]))
             /\ updateChannel([k EXCEPT !.events = E]).state = k.state
  BY <1>1, ChannelTypes DEF Sound, Detached
<1>4. /\ k.events \cup {"in"} \in SUBSET Event /\ k.events \ {"in"} \in SUBSET Event
      /\ k.events \cup {"out"} \in SUBSET Event /\ k.events \ {"out"} \in SUBSET Event
  BY <1>2 DEF Event
<1> QED
  BY <1>3, <1>4 DEF enableReading, disableReading, enableWriting, disableWriting

LEMMA RefreshSound ==
  ASSUME NEW k, Sound(k), k.state # "dead"
  PROVE  /\ Sound(refreshTimer(k)) /\ refreshTimer(k).state = k.state
         /\ refreshTimer(k).unsent = k.unsent
<1>1. refreshTimer(k) \in ConnType
  BY DEF refreshTimer, Sound, ConnType
<1>2. /\ refreshTimer(k).state = k.state /\ refreshTimer(k).armed = k.armed
      /\ refreshTimer(k).inEpoll = k.inEpoll /\ refreshTimer(k).unsent = k.unsent
  BY DEF refreshTimer, Sound, ConnType
<1> QED
  BY <1>1, <1>2 DEF Sound, Detached

(* What handleDead and stop make of a connection.                          *)
Killed(k) == [removeChannel(k) EXCEPT !.state = "dead", !.timer = "none"]

LEMMA KilledSound ==
  ASSUME NEW k \in ConnType
  PROVE  Sound(Killed(k)) /\ Killed(k).state = "dead"
<1>1. Killed(k) \in ConnType
  BY DEF Killed, ConnType, ConnState, removeChannel
<1>2. /\ Killed(k).state = "dead" /\ Killed(k).timer = "none"
      /\ ~Killed(k).inEpoll /\ ~Killed(k).armed
  BY DEF Killed, ConnType, removeChannel
<1> QED
  BY <1>1, <1>2 DEF Sound, Detached

LEMMA Parts ==
  ASSUME NEW s \in Situation
  PROVE  /\ s.k \in ConnType /\ s.q \in Seq(TaskType)
         /\ \A k \in ConnType : /\ [s EXCEPT !.k = k] \in Situation
                                /\ [s EXCEPT !.k = k].k = k
                                /\ [s EXCEPT !.k = k].q = s.q
         /\ \A k \in ConnType, q \in Seq(TaskType) :
              /\ [k |-> k, q |-> q] \in Situation
              /\ [k |-> k, q |-> q].k = k
  BY DEF Situation

LEMMA HandleDeadSound ==
  ASSUME NEW c \in Conns, NEW s \in Situation, s.k.state = "dead" => Sound(s.k)
  PROVE  SoundBoth(handleDead(c, s)) /\ handleDead(c, s).k.state = "dead"
<1>1. [kind |-> "remove", conn |-> c] \in TaskType
  BY DEF TaskType
<1>2. enqueueTask(s.q, [kind |-> "remove", conn |-> c]) \in Seq(TaskType)
  BY <1>1, Parts DEF enqueueTask
<1>3. CASE s.k.state = "dead"
  BY <1>3 DEF handleDead, SoundBoth
<1>4. CASE s.k.state # "dead"
  <2>1. handleDead(c, s)
          = [k |-> Killed(s.k), q |-> enqueueTask(s.q, [kind |-> "remove", conn |-> c])]
    BY <1>4 DEF handleDead, Killed
  <2>2. Sound(Killed(s.k)) /\ Killed(s.k).state = "dead" /\ Killed(s.k) \in ConnType
    BY KilledSound, Parts DEF Sound
  <2> QED BY <1>2, <2>1, <2>2, Parts DEF SoundBoth
<1> QED
  BY <1>3, <1>4

LEMMA EofCheckSound ==
  ASSUME NEW c \in Conns, NEW s, SoundBoth(s)
  PROVE  SoundBoth(checkEmptyReadAfterEof(c, s))
  BY HandleDeadSound DEF checkEmptyReadAfterEof, SoundBoth

(* readFromSck, once the timer has been refreshed.                         *)
LEMMA ReadSound ==
  ASSUME NEW c \in Conns, NEW s, SoundBoth(s), s.k.state # "dead"
  PROVE  SoundBoth(readFromSck(c, s))
<1> DEFINE k == [s.k EXCEPT !.readBuffer = @ \o s.k.inq, !.inq = <<>>]
           e == [k EXCEPT !.sockErr = FALSE]
           f == [k EXCEPT !.state = "peerClose"]
<1>0. s \in Situation /\ s.k \in ConnType /\ Sound(s.k)
  BY Parts DEF SoundBoth
<1>1. s.k.readBuffer \in Seq(Piece) /\ s.k.inq \in Seq(Piece)
  BY <1>0 DEF ConnType
<1>2. s.k.readBuffer \o s.k.inq \in Seq(Piece) /\ <<>> \in Seq(Piece)
  BY <1>1
<1>3. k \in ConnType
  BY <1>0, <1>2 DEF ConnType
<1>4. k.state = s.k.state /\ k.armed = s.k.armed /\ k.inEpoll = s.k.inEpoll
  BY <1>0 DEF ConnType
<1>5. e \in ConnType /\ e.state = k.state /\ e.armed = k.armed /\ e.inEpoll = k.inEpoll
  BY <1>3 DEF ConnType
<1>6. f \in ConnType
  BY <1>3 DEF ConnType, ConnState
<1>7. f.state = "peerClose" /\ f.armed = k.armed /\ f.inEpoll = k.inEpoll
  BY <1>3 DEF ConnType
<1>8. Sound(k) /\ Sound(e) /\ Sound(f)
  BY <1>0, <1>3, <1>4, <1>5, <1>6, <1>7 DEF Sound, Detached
<1>9. /\ SoundBoth([s EXCEPT !.k = k]) /\ SoundBoth([s EXCEPT !.k = f])
      /\ [s EXCEPT !.k = e] \in Situation /\ [s EXCEPT !.k = e].k.state # "dead"
  BY <1>0, <1>3, <1>4, <1>5, <1>6, <1>8, Parts DEF SoundBoth
<1>10. SoundBoth(handleDead(c, [s EXCEPT !.k = e]))
  BY <1>9, HandleDeadSound
<1> HIDE DEF e, f
<1> QED
  BY <1>9, <1>10 DEF readFromSck, e, f

(* A socket whose send buffer fills up has a stall left.                   *)
CanFill(k) == k.room => k.stalls < MaxStalls

LEMMA FillTypes ==
  ASSUME NEW k \in ConnType, CanFill(k)
  PROVE  /\ Fill(k) \in ConnType
         /\ Fill(k).state = k.state /\ Fill(k).armed = k.armed
         /\ Fill(k).inEpoll = k.inEpoll /\ Fill(k).timer = k.timer
<1>1. CASE ~k.room
  BY <1>1 DEF Fill
<1>2. CASE k.room
  <2>1. k.stalls \in 0..MaxStalls /\ k.stalls < MaxStalls
    BY <1>2 DEF CanFill, ConnType
  <2>2. k.stalls + 1 \in 0..MaxStalls
    BY <2>1, ConnectionAssumption
  <2>3. Fill(k) = [k EXCEPT !.room = FALSE, !.stalls = k.stalls + 1]
    BY <1>2 DEF Fill
  <2>4. Fill(k) \in ConnType
    BY <2>2, <2>3 DEF ConnType
  <2>5. /\ Fill(k).state = k.state /\ Fill(k).armed = k.armed
        /\ Fill(k).inEpoll = k.inEpoll /\ Fill(k).timer = k.timer
    BY <2>3 DEF ConnType
  <2> QED BY <2>4, <2>5
<1> QED
  BY <1>1, <1>2

LEMMA WriteAnswers ==
  ASSUME NEW k \in ConnType, NEW w \in WriteResults(k)
  PROVE  w \in {"all", "error"} \/ CanFill(k)
  BY DEF WriteResults, CanFill

LEMMA DrainedSound ==
  ASSUME NEW c \in Conns, NEW s, SoundBoth(s), s.k.state # "dead"
  PROVE  SoundBoth(Drained(c, s))
<1> DEFINE u == [s.k EXCEPT !.unsent = FALSE]
           k == disableWriting(u)
<1>0. s \in Situation /\ s.k \in ConnType
  BY Parts DEF SoundBoth
<1>1. u \in ConnType /\ u.state = s.k.state
  BY <1>0 DEF ConnType
<1>2. Sound(k) /\ k.state = s.k.state
  BY <1>1, InterestSound
<1>3. SoundBoth([s EXCEPT !.k = k])
  BY <1>0, <1>2, Parts DEF SoundBoth, Sound
<1>4. SoundBoth(handleDead(c, [s EXCEPT !.k = k]))
  BY <1>3, HandleDeadSound DEF SoundBoth
<1> QED
  BY <1>3, <1>4 DEF Drained

LEMMA WriteErrorSound ==
  ASSUME NEW c \in Conns, NEW s, SoundBoth(s), s.k.state # "dead"
  PROVE  SoundBoth(WriteError(c, s))
<1> DEFINE e == [s.k EXCEPT !.sockErr = FALSE]
<1>0. s \in Situation /\ s.k \in ConnType
  BY Parts DEF SoundBoth
<1>1. e \in ConnType /\ e.state = s.k.state
  BY <1>0 DEF ConnType
<1>2. [s EXCEPT !.k = e] \in Situation /\ [s EXCEPT !.k = e].k.state # "dead"
  BY <1>0, <1>1, Parts
<1> QED
  BY <1>2, HandleDeadSound DEF WriteError

LEMMA TrySendSound ==
  ASSUME NEW c \in Conns, NEW s, SoundBoth(s), s.k.state # "dead",
         NEW w, w \in {"all", "error"} \/ CanFill(s.k)
  PROVE  SoundBoth(trySendToSck(c, s, w))
<1>0. s \in Situation /\ s.k \in ConnType
  BY Parts DEF SoundBoth
<1>1. CASE w = "all"
  BY <1>1, DrainedSound DEF trySendToSck
<1>2. CASE w = "error"
  BY <1>2, WriteErrorSound DEF trySendToSck
<1>3. CASE w # "all" /\ w # "error"
  <2>1. Fill(s.k) \in ConnType /\ Fill(s.k).state # "dead"
    BY <1>0, <1>3, FillTypes
  <2>2. Sound(enableWriting(Fill(s.k)))
    BY <2>1, InterestSound
  <2>3. SoundBoth([s EXCEPT !.k = enableWriting(Fill(s.k))])
    BY <1>0, <2>2, Parts DEF SoundBoth, Sound
  <2> QED BY <1>3, <2>3 DEF trySendToSck
<1> QED
  BY <1>1, <1>2, <1>3

(* Closing after a response: whatever trySendToSck has left, what follows  *)
(* is half-closed.                                                         *)
LEMMA HalfCloseSound ==
  ASSUME NEW k \in ConnType
  PROVE  LET h == [disableReading(k) EXCEPT !.state = "peerClose"]
         IN  Sound(h) /\ h.state = "peerClose"
<1> DEFINE e == [k EXCEPT !.events = @ \ {"in"}]
           d == disableReading(k)
           h == [d EXCEPT !.state = "peerClose"]
<1>1. e \in ConnType
  BY DEF ConnType
<1>2. d \in ConnType /\ d.inEpoll
  BY <1>1, ChannelTypes DEF disableReading
<1> HIDE DEF d
<1>3. h \in ConnType
  BY <1>2 DEF ConnType, ConnState
<1>4. h.inEpoll /\ h.state = "peerClose"
  BY <1>2 DEF ConnType
<1>5. Sound(h) /\ h.state = "peerClose"
  BY <1>3, <1>4 DEF Sound, Detached
<1> QED
  BY <1>5 DEF d

LEMMA SendSound ==
  ASSUME NEW c \in Conns, NEW s, SoundBoth(s), s.k.state # "dead",
         NEW w, w \in {"all", "error"} \/ CanFill(s.k),
         NEW id \in Nat, NEW keepAlive \in BOOLEAN
  PROVE  SoundBoth(sendHttpOnLoop(c, s, w, id, keepAlive))
<1> DEFINE k == [s.k EXCEPT !.unsent = TRUE, !.sent = Append(@, id)]
           t == trySendToSck(c, [s EXCEPT !.k = k], w)
           h == [disableReading(t.k) EXCEPT !.state = "peerClose"]
<1>0. s \in Situation /\ s.k \in ConnType /\ Sound(s.k)
  BY Parts DEF SoundBoth
<1>1. Append(s.k.sent, id) \in Seq(Nat)
  BY <1>0 DEF ConnType
<1>2. k \in ConnType
  BY <1>0, <1>1 DEF ConnType
<1>3. /\ k.state = s.k.state /\ k.armed = s.k.armed /\ k.inEpoll = s.k.inEpoll
      /\ k.timer = s.k.timer /\ k.room = s.k.room /\ k.stalls = s.k.stalls
  BY <1>0 DEF ConnType
<1>4. Sound(k) /\ k.state # "dead" /\ (CanFill(s.k) => CanFill(k))
  BY <1>0, <1>2, <1>3 DEF Sound, Detached, CanFill
<1>5. /\ SoundBoth([s EXCEPT !.k = k]) /\ [s EXCEPT !.k = k].k = k
  BY <1>0, <1>2, <1>4, Parts DEF SoundBoth
<1>6. SoundBoth(t)
  <2> HIDE DEF k
  <2> QED BY <1>4, <1>5, TrySendSound
<1> HIDE DEF t
<1>7. t \in Situation /\ t.k \in ConnType
  BY <1>6, Parts DEF SoundBoth
<1>8. Sound(h)
  BY <1>7, HalfCloseSound
<1>9. SoundBoth([t EXCEPT !.k = h])
  BY <1>7, <1>8, Parts DEF SoundBoth, Sound
<1> QED
  BY <1>6, <1>9 DEF sendHttpOnLoop, t

(* A worker's answer finds the connection alive, or leaves it as it is.    *)
LEMMA AnswerSound ==
  ASSUME NEW s, SoundBoth(s), NEW t \in TaskType, t.kind = "resp",
         NEW w, s.k.state = "dead" \/ w \in WriteResults(s.k)
  PROVE  SoundBoth(WorkerAnswer(t, s, w))
<1> DEFINE k == [s.k EXCEPT !.working = @ - 1]
           r == [s EXCEPT !.k.working = @ - 1]
           a == sendHttpOnLoop(t.conn, r, w, t.id, t.keepAlive)
<1>0. s \in Situation /\ s.k \in ConnType /\ Sound(s.k)
  BY Parts DEF SoundBoth
<1>1. t.conn \in Conns /\ t.id \in Nat /\ t.keepAlive \in BOOLEAN
  BY DEF TaskType
<1>2. k \in ConnType
  <2>1. s.k.working \in Int /\ s.k.working - 1 \in Int
    BY <1>0 DEF ConnType
  <2> QED BY <1>0, <2>1 DEF ConnType
<1>3. /\ k.state = s.k.state /\ k.armed = s.k.armed /\ k.inEpoll = s.k.inEpoll
      /\ k.timer = s.k.timer /\ k.room = s.k.room /\ k.stalls = s.k.stalls
  BY <1>0 DEF ConnType
<1>4. Sound(k)
  BY <1>0, <1>2, <1>3 DEF Sound, Detached
<1>5. r = [s EXCEPT !.k = k]
  BY <1>0 DEF Situation
<1>6. SoundBoth(r) /\ r.k = k
  BY <1>0, <1>2, <1>4, <1>5, Parts DEF SoundBoth
<1>7. CASE s.k.state = "dead"
  <2>1. r.k.state = "dead"
    BY <1>3, <1>6, <1>7
  <2> HIDE DEF r
  <2>2. WorkerAnswer(t, s, w) = r
    BY <2>1 DEF WorkerAnswer, r
  <2> QED BY <1>6, <2>2
<1>8. CASE s.k.state # "dead"
  <2>1. r.k.state # "dead" /\ (w \in {"all", "error"} \/ CanFill(r.k))
    BY <1>0, <1>3, <1>6, <1>8, WriteAnswers DEF CanFill
  <2> HIDE DEF r
  <2>2. SoundBoth(a)
    BY <1>1, <1>6, <2>1, SendSound
  <2>3. WorkerAnswer(t, s, w) = checkEmptyReadAfterEof(t.conn, a)
    BY <2>1 DEF WorkerAnswer, r
  <2> HIDE DEF a
  <2> QED BY <1>1, <2>2, <2>3, EofCheckSound
<1> QED
  BY <1>7, <1>8

(* What parse leaves in readBuffer is the end of what it found there.      *)
LEMMA ParseType ==
  ASSUME NEW b \in Seq(Piece)
  PROVE  parse(b).rest \in Seq(Piece)
<1> DEFINE before == {i \in DOMAIN b : \A h \in 1..i : b[h] \notin Terminal}
<1>1. CASE \E i \in DOMAIN b : b[i] \in Terminal
  <2>1. PICK e \in 1..Len(b) : b[e] \in Terminal
    BY <1>1
  <2>2. before \subseteq 1..(e - 1)
    BY <2>1
  <2>3. IsFiniteSet(1..(e - 1)) /\ Cardinality(1..(e - 1)) = e - 1
    <3>1. e - 1 \in Int /\ e >= 1 /\ 1 \in Int
      BY <2>1
    <3>2. /\ IsFiniteSet(1..(e - 1))
          /\ Cardinality(1..(e - 1)) = IF 1 > e - 1 THEN 0 ELSE (e - 1) - 1 + 1
      BY <3>1, FS_Interval
    <3> QED BY <3>1, <3>2
  <2>4. Cardinality(before) \in Nat /\ Cardinality(before) <= e - 1
    BY <2>2, <2>3, FS_Subset, FS_CardinalityType
  <2>5. BeforeEnding(b) \in Nat /\ BeforeEnding(b) <= e - 1
    BY <2>4 DEF BeforeEnding
  <2>6. /\ BeforeEnding(b) + 1 \in 1..(Len(b) + 1)
        /\ (BeforeEnding(b) + 1) + 1 \in 1..(Len(b) + 1)
    BY <2>1, <2>5
  <2>7. ASSUME NEW m \in 1..(Len(b) + 1) PROVE SubSeq(b, m, Len(b)) \in Seq(Piece)
    <3>1. Len(b) \in Nat /\ \A i \in m..Len(b) : b[i] \in Piece
      BY <2>7
    <3> QED BY <2>7, <3>1, SubSeqProperties
  <2> QED BY <1>1, <2>6, <2>7 DEF parse
<1>2. CASE ~ \E i \in DOMAIN b : b[i] \in Terminal
  <2>1. <<>> \in Seq(Piece) /\ <<"frag">> \in Seq(Piece)
    BY DEF Piece
  <2> QED BY <1>2, <2>1 DEF parse
<1> QED
  BY <1>1, <1>2

LEMMA WakeupSound ==
  ASSUME NEW k, Sound(k), NEW e
  PROVE  Sound(Wakeup(k, e)) /\ Wakeup(k, e).state = k.state
<1>1. (k.armed \/ (k.inEpoll /\ e \in k.events)) \in BOOLEAN
  OBVIOUS
<1>2. Wakeup(k, e) \in ConnType
  BY <1>1 DEF Wakeup, Sound, ConnType
<1>3. /\ Wakeup(k, e).armed = (k.armed \/ (k.inEpoll /\ e \in k.events))
      /\ Wakeup(k, e).state = k.state /\ Wakeup(k, e).inEpoll = k.inEpoll
      /\ Wakeup(k, e).timer = k.timer
  BY DEF Wakeup, Sound, ConnType
<1> QED
  BY <1>2, <1>3 DEF Sound, Detached

(* A change of the socket alone.                                           *)
LEMMA SocketSound ==
  ASSUME NEW k, Sound(k), NEW l \in ConnType,
         l.state = k.state, l.armed = k.armed, l.inEpoll = k.inEpoll, l.timer = k.timer
  PROVE  Sound(l)
  BY DEF Sound, Detached

-----------------------------------------------------------------------------
(* The invariant.  Beside the soundness of every connection it says that   *)
(* a read callback still to come in this batch finds its connection alive: *)
(* handlers kill only the connection they belong to, whose read callback   *)
(* is the first, and timers and tasks run after the batch.                 *)
AllSound == \A c \in Conns : Sound(conn[c])
ReadsFindAlive ==
  /\ \A c \in Conns : "in" \in todo[c] => conn[c].state # "dead"
  /\ pc = "http" => "in" \notin todo[cur]
  /\ pc \in {"timer", "drain", "funcs", "poll"} => \A c \in Conns : todo[c] = {}

ConnInv == Typed /\ AllSound /\ ReadsFindAlive

(* Everything a handler of connection c does to connections and queue is   *)
(* Update(c, s) for a sound s.                                             *)
LEMMA UpdateSound ==
  ASSUME Typed, AllSound, NEW c \in Conns, NEW s, SoundBoth(s), Update(c, s)
  PROVE  /\ conn' \in [Conns -> ConnType] /\ tasks' \in Seq(TaskType)
         /\ AllSound'
         /\ \A d \in Conns \ {c} : conn'[d] = conn[d]
         /\ conn'[c] = s.k
<1>1. s.k \in ConnType /\ s.q \in Seq(TaskType) /\ Sound(s.k)
  BY Parts DEF SoundBoth
<1>2. conn' = [conn EXCEPT ![c] = s.k] /\ tasks' = s.q
  BY DEF Update
<1>3. conn \in [Conns -> ConnType]
  BY DEF Typed
<1>4. conn' \in [Conns -> ConnType] /\ conn'[c] = s.k
      /\ \A d \in Conns \ {c} : conn'[d] = conn[d]
  BY <1>1, <1>2, <1>3
<1>5. \A d \in Conns : Sound(conn'[d])
  BY <1>1, <1>4 DEF AllSound
<1> QED
  BY <1>1, <1>2, <1>4, <1>5 DEF AllSound

LEMMA SelfSound ==
  ASSUME Typed, AllSound, NEW c \in Conns
  PROVE  /\ SoundBoth(Self(c)) /\ Self(c).k = conn[c]
         /\ conn[c] \in ConnType /\ Sound(conn[c])
         /\ \A k : Sound(k) => /\ SoundBoth([Self(c) EXCEPT !.k = k])
                                /\ [Self(c) EXCEPT !.k = k].k = k
<1>1. conn[c] \in ConnType /\ tasks \in Seq(TaskType) /\ Sound(conn[c])
  BY DEF Typed, AllSound
<1>2. Self(c) \in Situation /\ Self(c).k = conn[c]
  BY <1>1, Parts DEF Self, Situation
<1>3. \A k : Sound(k) => /\ SoundBoth([Self(c) EXCEPT !.k = k])
                         /\ [Self(c) EXCEPT !.k = k].k = k
  BY <1>2, Parts DEF SoundBoth, Sound
<1> QED
  BY <1>1, <1>2, <1>3 DEF SoundBoth

(* The types of the variables no handler changes through Update.           *)
RestType ==
  /\ funcs \in Seq(TaskType)
  /\ pool \in SUBSET WorkType
  /\ pc \in {"poll", "pass1", "http", "timer", "drain", "funcs", "done", "killed"}
  /\ cur \in Conns \cup {NoConn}
  /\ todo \in [Conns -> SUBSET Event]
  /\ channels \in SUBSET Conns
  /\ stop \in BOOLEAN
  /\ stopping \in BOOLEAN

(* A step of c's handler keeps the invariant if it leaves no read callback *)
(* of c behind.                                                            *)
LEMMA HandlerStep ==
  ASSUME ConnInv, NEW c \in Conns, NEW s, SoundBoth(s), Update(c, s), RestType',
         \A d \in Conns : todo'[d] \subseteq todo[d],
         "in" \notin todo'[c],
         pc' = "http" => cur' = c,
         pc' \in {"timer", "drain", "funcs", "poll"} => pc \in {"timer", "drain", "funcs", "poll"}
  PROVE  ConnInv'
<1>1. /\ conn' \in [Conns -> ConnType] /\ tasks' \in Seq(TaskType)
      /\ AllSound'
      /\ \A d \in Conns \ {c} : conn'[d] = conn[d]
  BY UpdateSound DEF ConnInv
<1>2. Typed'
  BY <1>1 DEF RestType, Typed
<1>3. ReadsFindAlive'
  <2>1. \A d \in Conns : "in" \in todo'[d] => conn'[d].state # "dead"
    BY <1>1 DEF ConnInv, ReadsFindAlive
  <2>2. pc' = "http" => "in" \notin todo'[cur']
    OBVIOUS
  <2>3. pc' \in {"timer", "drain", "funcs", "poll"} => \A d \in Conns : todo'[d] = {}
    BY DEF ConnInv, ReadsFindAlive
  <2> QED BY <2>1, <2>2, <2>3 DEF ReadsFindAlive
<1> QED
  BY <1>1, <1>2, <1>3 DEF ConnInv

-----------------------------------------------------------------------------
(* The handlers of one connection.                                         *)

LEMMA TurnTakesRead ==
  ASSUME ConnInv, NEW c \in Conns, NEW e, Turn(c, e)
  PROVE  /\ \A d \in Conns : todo'[d] \subseteq todo[d]
         /\ "in" \notin todo'[c] /\ cur' = c /\ pc = "pass1"
         /\ todo' \in [Conns -> SUBSET Event] /\ cur' \in Conns \cup {NoConn}
<1>1. todo \in [Conns -> SUBSET Event]
  BY DEF ConnInv, Typed
<1>2. todo' = [todo EXCEPT ![c] = todo[c] \ {e}] /\ cur' = c /\ pc = "pass1"
  BY DEF Turn, IsTurn
<1>3. e = "in" \/ "in" \notin todo[c]
  BY <1>1 DEF Turn, IsTurn, Event
<1> QED
  BY <1>1, <1>2, <1>3

LEMMA ReadStep ==
  ASSUME ConnInv, NEW c \in Conns, handleReadCallBack(c)
  PROVE  ConnInv'
<1> DEFINE r == [Self(c) EXCEPT !.k = refreshTimer(conn[c])]
           s == readFromSck(c, r)
<1>1. Typed /\ AllSound /\ Turn(c, "in")
  BY DEF ConnInv, handleReadCallBack
<1>2. conn[c].state # "dead"
  BY <1>1 DEF ConnInv, ReadsFindAlive, Turn, IsTurn
<1>3. Sound(refreshTimer(conn[c])) /\ refreshTimer(conn[c]).state # "dead"
  BY <1>1, <1>2, SelfSound, RefreshSound
<1>4. SoundBoth(r) /\ r.k.state # "dead"
  BY <1>1, <1>3, SelfSound
<1>5. SoundBoth(s) /\ SoundBoth(checkEmptyReadAfterEof(c, s))
  <2> HIDE DEF r
  <2>1. SoundBoth(s)
    BY <1>4, ReadSound
  <2> HIDE DEF s
  <2> QED BY <2>1, EofCheckSound
<1>6. PICK u : SoundBoth(u) /\ Update(c, u) /\ pc' \in {"pass1", "http"}
  <2> HIDE DEF s
  <2> QED BY <1>5 DEF handleReadCallBack, s
<1>7. RestType'
  BY <1>1, <1>6, TurnTakesRead DEF RestType, Typed, handleReadCallBack, ConnInv
<1> QED
  BY <1>1, <1>6, <1>7, TurnTakesRead, HandlerStep

LEMMA WriteStep ==
  ASSUME ConnInv, NEW c \in Conns, handleWriteCallBack(c)
  PROVE  ConnInv'
<1> DEFINE k == refreshTimer(conn[c])
           s == [Self(c) EXCEPT !.k = k]
<1>1. Typed /\ AllSound /\ Turn(c, "out") /\ pc' = pc
  BY DEF ConnInv, handleWriteCallBack
<1>2. RestType'
  BY <1>1, TurnTakesRead DEF RestType, Typed, handleWriteCallBack, ConnInv
<1>3. CASE conn[c].state = "dead"
  <2>1. UNCHANGED <<conn, tasks>>
    BY <1>3 DEF handleWriteCallBack
  <2>2. Update(c, Self(c)) /\ SoundBoth(Self(c))
    BY <1>1, <2>1, SelfSound DEF Update, Self, Typed
  <2> QED BY <1>1, <1>2, <2>2, TurnTakesRead, HandlerStep
<1>4. CASE conn[c].state # "dead"
  <2>1. Sound(k) /\ k.state # "dead" /\ k \in ConnType
    BY <1>1, <1>4, SelfSound, RefreshSound DEF Sound
  <2>2. SoundBoth(s) /\ s.k = k
    BY <1>1, <2>1, SelfSound
  <2> HIDE DEF k
  <2>3. SoundBoth([s EXCEPT !.k = disableWriting(k)])
    BY <1>1, <2>1, SelfSound, InterestSound DEF k
  <2>4. ASSUME NEW w \in WriteResults(k), w # "all", w # "error"
        PROVE  SoundBoth([s EXCEPT !.k = Fill(k)])
    <3>1. CanFill(k)
      BY <2>1, <2>4, WriteAnswers
    <3>2. Sound(Fill(k))
      BY <2>1, <3>1, FillTypes DEF Sound, Detached
    <3>3. s \in Situation /\ Fill(k) \in ConnType
      BY <2>2, <3>2 DEF SoundBoth, Sound
    <3> HIDE DEF s
    <3> QED BY <3>2, <3>3, Parts DEF SoundBoth
  <2>5. PICK u : SoundBoth(u) /\ Update(c, u)
    <3>1. CASE ~k.unsent
      BY <1>4, <2>3, <3>1 DEF handleWriteCallBack, k
    <3>2. CASE k.unsent
      <4>1. PICK w \in WriteResults(k) :
              Update(c, IF w = "all" THEN Drained(c, s)
                        ELSE IF w = "error" THEN WriteError(c, s)
                        ELSE [s EXCEPT !.k = Fill(k)])
        BY <1>4, <3>2 DEF handleWriteCallBack, k
      <4> HIDE DEF s
      <4>2. SoundBoth(Drained(c, s)) /\ SoundBoth(WriteError(c, s))
        BY <2>1, <2>2, DrainedSound, WriteErrorSound
      <4> QED BY <2>4, <4>1, <4>2
    <3> QED BY <3>1, <3>2
  <2> QED BY <1>1, <1>2, <2>5, TurnTakesRead, HandlerStep
<1> QED
  BY <1>3, <1>4

LEMMA ConsumedSound ==
  ASSUME ConnInv, NEW c \in Conns
  PROVE  /\ Sound(Consumed(c)) /\ Consumed(c).state = conn[c].state
         /\ Consumed(c).room = conn[c].room /\ Consumed(c).stalls = conn[c].stalls
         /\ Consumed(c).nreq \in Nat /\ Consumed(c).working \in Int
<1>1. Sound(conn[c]) /\ conn[c] \in ConnType
  BY DEF ConnInv, AllSound, Sound
<1>2. parse(conn[c].readBuffer).rest \in Seq(Piece)
  BY <1>1, ParseType DEF ConnType
<1>3. Consumed(c) = [conn[c] EXCEPT !.readBuffer = parse(conn[c].readBuffer).rest]
  BY DEF Consumed
<1>4. Consumed(c) \in ConnType
  BY <1>1, <1>2, <1>3 DEF ConnType
<1>5. /\ Consumed(c).state = conn[c].state /\ Consumed(c).armed = conn[c].armed
      /\ Consumed(c).inEpoll = conn[c].inEpoll /\ Consumed(c).timer = conn[c].timer
      /\ Consumed(c).room = conn[c].room /\ Consumed(c).stalls = conn[c].stalls
  BY <1>1, <1>3 DEF ConnType
<1>6. Sound(Consumed(c))
  BY <1>1, <1>4, <1>5, SocketSound
<1> QED
  BY <1>4, <1>5, <1>6 DEF ConnType

(* A round of the parse loop, given what it does to the connection.        *)
LEMMA RoundStep ==
  ASSUME ConnInv, NEW c \in Conns, pc = "http", cur = c,
         NEW s, SoundBoth(s), Update(c, s),
         pc' \in {"pass1", "http"}, pool' \in SUBSET WorkType,
         UNCHANGED <<funcs, cur, todo, channels, stop, stopping>>
  PROVE  ConnInv'
<1>1. RestType'
  BY DEF RestType, ConnInv, Typed
<1>2. "in" \notin todo'[c]
  BY DEF ConnInv, ReadsFindAlive
<1> QED
  BY <1>1, <1>2, HandlerStep

LEMMA HttpStep ==
  ASSUME ConnInv, NEW c \in Conns, onHttp(c)
  PROVE  ConnInv'
<1>1. Typed /\ AllSound /\ pool \in SUBSET WorkType
  BY DEF ConnInv, Typed
<1>2. pc = "http" /\ cur = c
  BY DEF onHttp, onHttpDead, onHttpNeedMore, onHttpLineTooLong, onHttpError, onHttpProcess,
         onHttpInline, Parsed
<1>3. SoundBoth(Self(c)) /\ Sound(Consumed(c)) /\ SoundBoth([Self(c) EXCEPT !.k = Consumed(c)])
      /\ Consumed(c) \in ConnType /\ [Self(c) EXCEPT !.k = Consumed(c)].k = Consumed(c)
  BY <1>1, SelfSound, ConsumedSound DEF Sound
<1>4. Request(c) \in WorkType
  <2>1. conn[c].nreq \in Nat
    BY <1>1 DEF Typed, ConnType
  <2> QED BY <2>1 DEF Request, WorkType
<1>5. CASE onHttpDead(c)
  <2>1. Update(c, Self(c))
    BY <1>1, <1>5 DEF onHttpDead, Update, Self, Typed
  <2> QED BY <1>1, <1>2, <1>3, <1>5, <2>1, RoundStep DEF onHttpDead
<1>6. CASE onHttpNeedMore(c)
  BY <1>1, <1>2, <1>3, <1>6, RoundStep DEF onHttpNeedMore
<1>7. CASE onHttpLineTooLong(c)
  <2> DEFINE k == [disableReading(Consumed(c)) EXCEPT !.state = "peerClose"]
  <2>1. Sound(k)
    BY <1>3, HalfCloseSound
  <2>2. SoundBoth([Self(c) EXCEPT !.k = k])
    BY <1>1, <2>1, SelfSound
  <2> HIDE DEF k
  <2>3. SoundBoth(checkEmptyReadAfterEof(c, [Self(c) EXCEPT !.k = k]))
    BY <2>2, EofCheckSound
  <2>4. Update(c, checkEmptyReadAfterEof(c, [Self(c) EXCEPT !.k = k]))
    BY <1>7 DEF onHttpLineTooLong, k
  <2> QED BY <1>1, <1>2, <1>7, <2>3, <2>4, RoundStep DEF onHttpLineTooLong
<1>8. ASSUME NEW k, Sound(k), k.state # "dead", NEW w, w \in {"all", "error"} \/ CanFill(k),
             NEW id \in Nat, NEW keepAlive \in BOOLEAN
      PROVE  SoundBoth(checkEmptyReadAfterEof(c,
               sendHttpOnLoop(c, [Self(c) EXCEPT !.k = k], w, id, keepAlive)))
  <2> DEFINE s == [Self(c) EXCEPT !.k = k]
  <2>1. SoundBoth(s) /\ s.k = k
    BY <1>1, <1>8, SelfSound
  <2> HIDE DEF s
  <2>2. SoundBoth(sendHttpOnLoop(c, s, w, id, keepAlive))
    BY <1>8, <2>1, SendSound
  <2> QED BY <2>2, EofCheckSound DEF s
<1>9. ASSUME NEW w \in WriteResults(conn[c])
      PROVE  w \in {"all", "error"} \/ CanFill(Consumed(c))
  <2>1. conn[c] \in ConnType
    BY <1>1, SelfSound
  <2> QED BY <2>1, ConsumedSound, WriteAnswers DEF CanFill
<1>10. CASE onHttpError(c)
  <2>1. PICK w \in WriteResults(conn[c]) :
          Update(c, checkEmptyReadAfterEof(c,
            sendHttpOnLoop(c, [Self(c) EXCEPT !.k = Consumed(c)], w, 0, FALSE)))
    BY <1>10 DEF onHttpError
  <2>2. Consumed(c).state # "dead"
    BY <1>10, ConsumedSound DEF onHttpError, Parsed
  <2>3. SoundBoth(checkEmptyReadAfterEof(c,
          sendHttpOnLoop(c, [Self(c) EXCEPT !.k = Consumed(c)], w, 0, FALSE)))
    BY <1>3, <1>8, <1>9, <2>2
  <2> QED BY <1>1, <1>2, <1>10, <2>1, <2>3, RoundStep DEF onHttpError
<1>11. CASE onHttpProcess(c)
  <2> DEFINE k == [Consumed(c) EXCEPT !.nreq = @ + 1, !.working = @ + 1]
  <2>0. Consumed(c).nreq + 1 \in Nat /\ Consumed(c).working + 1 \in Int
    BY ConsumedSound
  <2>1. k \in ConnType
    BY <1>3, <2>0 DEF ConnType
  <2>2. /\ k.state = Consumed(c).state /\ k.armed = Consumed(c).armed
        /\ k.inEpoll = Consumed(c).inEpoll /\ k.timer = Consumed(c).timer
    BY <1>3 DEF ConnType
  <2>3. Sound(k)
    BY <1>3, <2>1, <2>2, SocketSound
  <2>4. SoundBoth([Self(c) EXCEPT !.k = k])
    BY <1>1, <2>3, SelfSound
  <2>5. Update(c, [Self(c) EXCEPT !.k = k]) /\ pool' \in SUBSET WorkType
    BY <1>1, <1>4, <1>11 DEF onHttpProcess
  <2> QED BY <1>1, <1>2, <1>11, <2>4, <2>5, RoundStep DEF onHttpProcess
<1>12. CASE onHttpInline(c)
  <2> DEFINE k == [Consumed(c) EXCEPT !.nreq = @ + 1]
             r == Request(c)
             a(w) == checkEmptyReadAfterEof(c,
                       sendHttpOnLoop(c, [Self(c) EXCEPT !.k = k], w, r.id, r.keepAlive))
  <2>0. Consumed(c).nreq + 1 \in Nat
    BY ConsumedSound
  <2>1. k \in ConnType
    BY <1>3, <2>0 DEF ConnType
  <2>2. /\ k.state = Consumed(c).state /\ k.armed = Consumed(c).armed
        /\ k.inEpoll = Consumed(c).inEpoll /\ k.timer = Consumed(c).timer
        /\ k.room = Consumed(c).room /\ k.stalls = Consumed(c).stalls
    BY <1>3 DEF ConnType
  <2>3. Sound(k) /\ k.state # "dead"
    BY <1>3, <1>12, <2>1, <2>2, ConsumedSound, SocketSound DEF onHttpInline, Parsed
  <2>4. r.id \in Nat /\ r.keepAlive \in BOOLEAN
    BY <1>4 DEF WorkType
  <2>5. PICK w \in WriteResults(conn[c]) : Update(c, a(w))
    BY <1>12 DEF onHttpInline
  <2>6. w \in {"all", "error"} \/ CanFill(k)
    BY <1>9, <2>2 DEF CanFill
  <2> HIDE DEF k, r
  <2>7. SoundBoth(a(w))
    BY <1>8, <2>3, <2>4, <2>6
  <2> QED BY <1>1, <1>2, <1>12, <2>5, <2>7, RoundStep DEF onHttpInline
<1> QED
  BY <1>5, <1>6, <1>7, <1>10, <1>11, <1>12 DEF onHttp

-----------------------------------------------------------------------------
(* The timer pass and the task drain: all callbacks of the batch have been *)
(* handled, so any connection may die.                                     *)

LEMMA TimeoutStep ==
  ASSUME ConnInv, NEW c \in Conns, idleTimeout(c)
  PROVE  ConnInv'
<1> DEFINE k == [conn[c] EXCEPT !.timer = "none"]
<1>1. Typed /\ AllSound /\ conn[c] \in ConnType /\ Sound(conn[c])
  BY SelfSound DEF ConnInv
<1>2. k \in ConnType
  BY <1>1 DEF ConnType
<1>3. /\ k.state = conn[c].state /\ k.armed = conn[c].armed
      /\ k.inEpoll = conn[c].inEpoll /\ k.timer = "none"
  BY <1>1 DEF ConnType
<1>4. Sound(k)
  BY <1>1, <1>2, <1>3 DEF Sound, Detached
<1>5. [Self(c) EXCEPT !.k.timer = "none"] = [Self(c) EXCEPT !.k = k]
  BY DEF Self
<1>6. SoundBoth([Self(c) EXCEPT !.k = k])
  BY <1>1, <1>4, SelfSound
<1> HIDE DEF k
<1>7. SoundBoth(handleDead(c, [Self(c) EXCEPT !.k = k]))
  BY <1>6, HandleDeadSound DEF SoundBoth
<1>8. Update(c, handleDead(c, [Self(c) EXCEPT !.k = k])) /\ pc = "timer" /\ pc' = "timer"
  BY <1>5 DEF idleTimeout
<1>9. RestType' /\ todo' = todo /\ "in" \notin todo[c]
  BY <1>1, <1>8 DEF idleTimeout, RestType, Typed, ConnInv, ReadsFindAlive
<1> QED
  BY <1>7, <1>8, <1>9, HandlerStep

LEMMA TaskType1 ==
  ASSUME Typed, NEW kind, RunTask(kind)
  PROVE  /\ Head(funcs) \in TaskType /\ Head(funcs).kind = kind
         /\ funcs' \in Seq(TaskType) /\ pc = "funcs"
         /\ kind # "stop" => Head(funcs).conn \in Conns
<1>1. funcs \in Seq(TaskType) /\ funcs # <<>> /\ pc = "funcs" /\ Head(funcs).kind = kind
      /\ funcs' = Tail(funcs)
  BY DEF Typed, RunTask
<1>2. Head(funcs) \in TaskType /\ funcs' \in Seq(TaskType)
  BY <1>1
<1>3. \A t \in TaskType : t.kind # "stop" => t.conn \in Conns
  BY DEF TaskType
<1> QED
  BY <1>1, <1>2, <1>3

LEMMA AddStep ==
  ASSUME ConnInv, addTask
  PROVE  ConnInv'
<1> DEFINE c == Head(funcs).conn
           n == [conn[c] EXCEPT !.state = "connected", !.inMap = TRUE]
<1>1. Typed /\ AllSound /\ c \in Conns /\ funcs' \in Seq(TaskType) /\ pc = "funcs"
  BY TaskType1 DEF ConnInv, addTask
<1> HIDE DEF c
<1>2. conn[c] \in ConnType
  BY <1>1, SelfSound
<1>3. n \in ConnType
  BY <1>2 DEF ConnType, ConnState
<1>4. n.state = "connected" /\ n.armed = conn[c].armed /\ n.inEpoll = conn[c].inEpoll
  BY <1>2 DEF ConnType
<1>5. Sound(n)
  BY <1>1, <1>3, <1>4, SelfSound DEF Sound, Detached
<1> HIDE DEF n
<1>6. Sound(refreshTimer(n)) /\ refreshTimer(n).state # "dead"
  BY <1>4, <1>5, RefreshSound
<1>7. Sound(enableReading(refreshTimer(n)))
  BY <1>6, InterestSound DEF Sound
<1>8. /\ conn' = [conn EXCEPT ![c] = enableReading(refreshTimer(n))]
      /\ UNCHANGED <<tasks, pool, pc, cur, todo, channels, stop, stopping>>
  BY DEF addTask, c, n
<1> DEFINE s == [k |-> enableReading(refreshTimer(n)), q |-> tasks]
<1>9. SoundBoth(s) /\ Update(c, s)
  BY <1>1, <1>7, <1>8 DEF SoundBoth, Situation, Update, Sound, Typed
<1>10. RestType' /\ "in" \notin todo[c]
  BY <1>1, <1>8 DEF RestType, Typed, ConnInv, ReadsFindAlive
<1> HIDE DEF s
<1> QED
  BY <1>1, <1>8, <1>9, <1>10, HandlerStep

LEMMA RemoveStep ==
  ASSUME ConnInv, removeTask
  PROVE  ConnInv'
<1> DEFINE c == Head(funcs).conn
           k == [conn[c] EXCEPT !.inMap = FALSE]
           s == [k |-> k, q |-> tasks]
<1>1. Typed /\ AllSound /\ c \in Conns /\ funcs' \in Seq(TaskType) /\ pc = "funcs"
  BY TaskType1 DEF ConnInv, removeTask
<1>2. /\ conn' = [conn EXCEPT ![c] = k]
      /\ UNCHANGED <<tasks, pool, pc, cur, todo, channels, stop, stopping>>
  BY DEF removeTask
<1> HIDE DEF c
<1>3. conn[c] \in ConnType
  BY <1>1, SelfSound
<1>4. k \in ConnType
  BY <1>3 DEF ConnType
<1>5. /\ k.state = conn[c].state /\ k.armed = conn[c].armed
      /\ k.inEpoll = conn[c].inEpoll /\ k.timer = conn[c].timer
  BY <1>3 DEF ConnType
<1>6. Sound(k)
  BY <1>1, <1>4, <1>5, SelfSound, SocketSound
<1> HIDE DEF k
<1>7. SoundBoth(s) /\ Update(c, s)
  BY <1>1, <1>2, <1>6 DEF SoundBoth, Situation, Update, Sound, Typed
<1>8. RestType' /\ "in" \notin todo[c]
  BY <1>1, <1>2 DEF RestType, Typed, ConnInv, ReadsFindAlive
<1> HIDE DEF s
<1> QED
  BY <1>1, <1>2, <1>7, <1>8, HandlerStep

LEMMA RespStep ==
  ASSUME ConnInv, respTask
  PROVE  ConnInv'
<1> DEFINE t == Head(funcs)
           c == t.conn
           k == conn[c]
<1>1. Typed /\ AllSound /\ t \in TaskType /\ t.kind = "resp" /\ c \in Conns
      /\ funcs' \in Seq(TaskType) /\ pc = "funcs"
  BY TaskType1 DEF ConnInv, respTask
<1>2. PICK w \in IF k.state = "dead" THEN {"none"} ELSE WriteResults(k) :
        Update(c, WorkerAnswer(t, Self(c), w))
  BY DEF respTask
<1>3. UNCHANGED <<pool, pc, cur, todo, channels, stop, stopping>>
  BY DEF respTask
<1> HIDE DEF t
<1>4. SoundBoth(Self(c)) /\ Self(c).k = k
  BY <1>1, SelfSound
<1>5. SoundBoth(WorkerAnswer(t, Self(c), w))
  BY <1>1, <1>2, <1>4, AnswerSound
<1>6. RestType' /\ "in" \notin todo[c]
  BY <1>1, <1>3 DEF RestType, Typed, ConnInv, ReadsFindAlive
<1> QED
  BY <1>1, <1>2, <1>3, <1>5, <1>6, HandlerStep

LEMMA StopStep ==
  ASSUME ConnInv, stopTask
  PROVE  ConnInv'
<1>1. Typed /\ AllSound /\ funcs' \in Seq(TaskType) /\ pc = "funcs"
  BY TaskType1 DEF ConnInv, stopTask
<1>2. \A k \in ConnType : stopConnection(k) = IF k.state = "dead" THEN k ELSE Killed(k)
  BY DEF stopConnection, Killed
<1>3. \A c \in Conns : Sound(stopConnection(conn[c]))
  BY <1>1, <1>2, SelfSound, KilledSound
<1>4. conn' = [c \in Conns |-> IF conn[c].inMap THEN stopConnection(conn[c]) ELSE conn[c]]
  BY DEF stopTask
<1>5. \A c \in Conns : conn'[c] \in {stopConnection(conn[c]), conn[c]}
  BY <1>4
<1>6. \A c \in Conns : Sound(conn'[c])
  BY <1>1, <1>3, <1>5 DEF AllSound
<1>7. conn' \in [Conns -> ConnType]
  <2>1. \A c \in Conns : conn'[c] \in ConnType
    BY <1>6 DEF Sound
  <2> QED BY <1>4, <2>1
<1>8. AllSound'
  BY <1>6 DEF AllSound
<1>9. Typed'
  BY <1>1, <1>7 DEF Typed, stopTask
<1>10. ReadsFindAlive'
  BY <1>1 DEF ConnInv, ReadsFindAlive, stopTask
<1> QED
  BY <1>8, <1>9, <1>10 DEF ConnInv

-----------------------------------------------------------------------------
(* Peers, clock and main thread change a socket or the queue, never the    *)
(* state of a connection.                                                  *)

LEMMA SocketStep ==
  ASSUME ConnInv, NEW c \in Conns, NEW k, Sound(k), k.state = conn[c].state,
         conn' = [conn EXCEPT ![c] = k], tasks' \in Seq(TaskType),
         UNCHANGED <<funcs, pool, pc, cur, todo, channels, stop, stopping>>
  PROVE  ConnInv'
<1>1. Typed /\ AllSound /\ conn \in [Conns -> ConnType]
  BY DEF ConnInv, Typed
<1>2. k \in ConnType
  BY DEF Sound
<1>3. conn' \in [Conns -> ConnType] /\ conn'[c] = k
      /\ \A d \in Conns \ {c} : conn'[d] = conn[d]
  BY <1>1, <1>2
<1>4. \A d \in Conns : Sound(conn'[d]) /\ conn'[d].state = conn[d].state
  BY <1>1, <1>3 DEF AllSound
<1>5. Typed'
  BY <1>1, <1>3 DEF Typed
<1>6. AllSound' /\ ReadsFindAlive'
  BY <1>4 DEF AllSound, ConnInv, ReadsFindAlive
<1> QED
  BY <1>5, <1>6 DEF ConnInv

LEMMA EnvironmentStep ==
  ASSUME ConnInv, NEW c \in Conns,
         addConnection(c) \/ Arrive(c) \/ PeerFin(c) \/ PeerReset(c) \/ PeerReads(c) \/ Expire(c)
  PROVE  ConnInv'
<1> DEFINE k == conn[c]
<1>1. Typed /\ AllSound /\ k \in ConnType /\ Sound(k) /\ tasks \in Seq(TaskType)
  BY SelfSound DEF ConnInv, Typed
<1>2. ASSUME NEW p \in {"absent", "none", "open", "fin", "rst"}, NEW b \in BOOLEAN
      PROVE  /\ Sound([k EXCEPT !.peer = p]) /\ [k EXCEPT !.peer = p].state = k.state
             /\ Sound([k EXCEPT !.room = b]) /\ [k EXCEPT !.room = b].state = k.state
             /\ Sound([k EXCEPT !.peer = p, !.sockErr = b])
             /\ [k EXCEPT !.peer = p, !.sockErr = b].state = k.state
  <2>1. /\ [k EXCEPT !.peer = p] \in ConnType /\ [k EXCEPT !.room = b] \in ConnType
        /\ [k EXCEPT !.peer = p, !.sockErr = b] \in ConnType
    BY <1>1, <1>2 DEF ConnType
  <2>2. LET l == [k EXCEPT !.peer = p]
        IN  l.state = k.state /\ l.armed = k.armed /\ l.inEpoll = k.inEpoll /\ l.timer = k.timer
    BY <1>1 DEF ConnType
  <2>3. LET l == [k EXCEPT !.room = b]
        IN  l.state = k.state /\ l.armed = k.armed /\ l.inEpoll = k.inEpoll /\ l.timer = k.timer
    BY <1>1 DEF ConnType
  <2>4. LET l == [k EXCEPT !.peer = p, !.sockErr = b]
        IN  l.state = k.state /\ l.armed = k.armed /\ l.inEpoll = k.inEpoll /\ l.timer = k.timer
    BY <1>1 DEF ConnType
  <2> QED BY <1>1, <2>1, <2>2, <2>3, <2>4, SocketSound
<1>3. CASE addConnection(c)
  <2>1. [kind |-> "add", conn |-> c] \in TaskType
    BY DEF TaskType
  <2>2. tasks' \in Seq(TaskType)
    BY <1>1, <1>3, <2>1 DEF addConnection, enqueueTask
  <2>3. conn' = [conn EXCEPT ![c] = [k EXCEPT !.peer = "open"]]
    BY <1>3 DEF addConnection
  <2> QED BY <1>2, <1>3, <2>2, <2>3, SocketStep DEF addConnection
<1>4. CASE Arrive(c)
  <2> DEFINE l == [k EXCEPT !.inq = Append(@, Head(k.script)), !.script = Tail(@)]
  <2>1. k.script \in Seq(Piece) /\ k.script # <<>> /\ k.inq \in Seq(Piece)
    BY <1>1, <1>4 DEF Arrive, ConnType
  <2>2. Append(k.inq, Head(k.script)) \in Seq(Piece) /\ Tail(k.script) \in Seq(Piece)
    BY <2>1
  <2>3. l \in ConnType
    BY <1>1, <2>2 DEF ConnType
  <2>4. /\ l.state = k.state /\ l.armed = k.armed /\ l.inEpoll = k.inEpoll
        /\ l.timer = k.timer
    BY <1>1 DEF ConnType
  <2>5. Sound(l)
    BY <1>1, <2>3, <2>4, SocketSound
  <2>6. Peer(c, Wakeup(l, "in"))
    BY <1>4 DEF Arrive
  <2> HIDE DEF l
  <2> QED BY <1>1, <2>4, <2>5, <2>6, WakeupSound, SocketStep DEF Peer
<1>5. CASE PeerFin(c)
  <2>1. Peer(c, Wakeup([k EXCEPT !.peer = "fin"], "in"))
    BY <1>5 DEF PeerFin
  <2> DEFINE l == [k EXCEPT !.peer = "fin"]
  <2>2. Sound(l) /\ l.state = k.state
    BY <1>2
  <2> HIDE DEF l
  <2>3. Sound(Wakeup(l, "in")) /\ Wakeup(l, "in").state = k.state
    BY <2>2, WakeupSound
  <2> QED BY <1>1, <2>1, <2>3, SocketStep DEF Peer, l
<1>6. CASE PeerReset(c)
  <2> DEFINE b == (k.peer = "open")
             l == [k EXCEPT !.peer = "rst", !.sockErr = b]
  <2>1. Peer(c, Wakeup(Wakeup(l, "in"), "out"))
    BY <1>6 DEF PeerReset
  <2>2. Sound(l) /\ l.state = k.state
    BY <1>2
  <2> HIDE DEF l
  <2>3. Sound(Wakeup(Wakeup(l, "in"), "out")) /\ Wakeup(Wakeup(l, "in"), "out").state = k.state
    BY <2>2, WakeupSound
  <2> QED BY <1>1, <2>1, <2>3, SocketStep DEF Peer
<1>7. CASE PeerReads(c)
  <2>1. Peer(c, Wakeup([k EXCEPT !.room = TRUE], "out"))
    BY <1>7 DEF PeerReads
  <2> DEFINE l == [k EXCEPT !.room = TRUE]
  <2>2. Sound(l) /\ l.state = k.state
    BY <1>2
  <2> HIDE DEF l
  <2>3. Sound(Wakeup(l, "out")) /\ Wakeup(l, "out").state = k.state
    BY <2>2, WakeupSound
  <2> QED BY <1>1, <2>1, <2>3, SocketStep DEF Peer, l
<1>8. CASE Expire(c)
  <2> DEFINE l == [k EXCEPT !.timer = "stale"]
  <2>1. l \in ConnType
    BY <1>1 DEF ConnType
  <2>2. /\ l.state = k.state /\ l.armed = k.armed /\ l.inEpoll = k.inEpoll
    BY <1>1 DEF ConnType
  <2>3. k.timer = "fresh"
    BY <1>8 DEF Expire
  <2>4. Sound(l)
    BY <1>1, <2>1, <2>2, <2>3 DEF Sound, Detached
  <2>5. Peer(c, l)
    BY <1>8 DEF Expire
  <2> HIDE DEF l
  <2> QED BY <1>1, <2>2, <2>4, <2>5, SocketStep DEF Peer
<1> QED
  BY <1>3, <1>4, <1>5, <1>6, <1>7, <1>8

-----------------------------------------------------------------------------
(* The loop between handlers.                                              *)

LEMMA PollStep ==
  ASSUME ConnInv, Poll
  PROVE  ConnInv'
<1>1. Typed /\ AllSound /\ conn \in [Conns -> ConnType]
  BY DEF ConnInv, Typed
<1>2. PICK batch \in Batches :
      /\ conn' = [c \in Conns |-> [conn[c] EXCEPT !.armed = c \in Pending \ batch]]
      /\ todo' = [c \in Conns |-> IF c \in batch THEN Reported(conn[c]) ELSE {}]
      /\ channels' = batch /\ pc' = "pass1" /\ cur' = NoConn
      /\ UNCHANGED <<tasks, funcs, pool, stop, stopping>>
  BY DEF Poll
<1>3. batch \subseteq Pending
  BY DEF Batches
<1>4. ASSUME NEW c \in Conns
      PROVE  /\ Sound(conn'[c]) /\ conn'[c].state = conn[c].state
             /\ todo'[c] \in SUBSET Event
             /\ todo'[c] # {} => conn[c].state # "dead"
  <2> DEFINE a == c \in Pending \ batch
  <2>1. conn'[c] = [conn[c] EXCEPT !.armed = a]
    BY <1>2
  <2>2. conn[c] \in ConnType /\ Sound(conn[c])
    BY <1>1, SelfSound
  <2>3. a \in BOOLEAN
    OBVIOUS
  <2>4. conn'[c] \in ConnType
    BY <2>1, <2>2, <2>3 DEF ConnType
  <2>5. /\ conn'[c].state = conn[c].state /\ conn'[c].armed = a
        /\ conn'[c].inEpoll = conn[c].inEpoll /\ conn'[c].timer = conn[c].timer
    BY <2>1, <2>2 DEF ConnType
  <2>6. c \in Pending => conn[c].state # "dead" /\ conn[c].armed
    BY <2>2 DEF Pending, Sound, Detached
  <2>7. Sound(conn'[c])
    BY <2>2, <2>4, <2>5, <2>6 DEF Sound, Detached
  <2>8. todo'[c] = IF c \in batch THEN Reported(conn[c]) ELSE {}
    BY <1>2
  <2>9. Reported(conn[c]) \in SUBSET Event
    BY DEF Reported, ReadyEvents
  <2> QED BY <1>3, <2>5, <2>7, <2>8, <2>6, <2>9
<1>5. conn' \in [Conns -> ConnType]
  <2>1. \A c \in Conns : conn'[c] \in ConnType
    BY <1>4 DEF Sound
  <2> QED BY <1>2, <2>1
<1>6. todo' \in [Conns -> SUBSET Event] /\ channels' \in SUBSET Conns
  <2>1. \A c \in Conns : todo'[c] \in SUBSET Event
    BY <1>4
  <2> QED BY <1>2, <1>3, <2>1 DEF Pending
<1>7. Typed'
  BY <1>1, <1>2, <1>5, <1>6 DEF Typed
<1>8. AllSound'
  BY <1>4 DEF AllSound
<1>9. ReadsFindAlive'
  BY <1>4, <1>2 DEF ReadsFindAlive
<1> QED
  BY <1>7, <1>8, <1>9 DEF ConnInv

LEMMA LoopStep ==
  ASSUME ConnInv, EndOfBatch \/ Drain \/ EndOfIteration
  PROVE  ConnInv'
<1>1. Typed'
  <2>1. Typed
    BY DEF ConnInv
  <2>2. CASE EndOfBatch
    BY <2>1, <2>2 DEF Typed, EndOfBatch
  <2>3. CASE Drain
    <3>1. tasks' = <<>> /\ funcs' = tasks /\ <<>> \in Seq(TaskType)
      BY <2>3 DEF Drain
    <3> QED BY <2>1, <2>3, <3>1 DEF Typed, Drain
  <2>4. CASE EndOfIteration
    BY <2>1, <2>4 DEF Typed, EndOfIteration
  <2> QED BY <2>2, <2>3, <2>4
<1>2. AllSound'
  BY DEF ConnInv, AllSound, EndOfBatch, Drain, EndOfIteration
<1>3. ReadsFindAlive'
  <2>1. ReadsFindAlive
    BY DEF ConnInv
  <2>2. CASE EndOfBatch
    BY <2>1, <2>2 DEF EndOfBatch, ReadsFindAlive
  <2>3. CASE Drain
    BY <2>1, <2>3 DEF Drain, ReadsFindAlive
  <2>4. CASE EndOfIteration
    BY <2>1, <2>4 DEF EndOfIteration, ReadsFindAlive
  <2> QED BY <2>2, <2>3, <2>4
<1> QED
  BY <1>1, <1>2, <1>3 DEF ConnInv

LEMMA QueueStep ==
  ASSUME ConnInv, requestStop \/ Workers \/ BrokenPipe \/ UNCHANGED vars
  PROVE  ConnInv'
<1>1. Typed
  BY DEF ConnInv
<1>2. CASE requestStop
  <2>1. [kind |-> "stop"] \in TaskType
    BY DEF TaskType
  <2>2. tasks' \in Seq(TaskType)
    BY <1>1, <1>2, <2>1 DEF Typed, requestStop, enqueueTask
  <2>3. Typed'
    BY <1>1, <1>2, <2>2 DEF Typed, requestStop
  <2> QED BY <1>2, <2>3 DEF ConnInv, AllSound, ReadsFindAlive, requestStop
<1>3. CASE Workers
  <2>1. PICK r \in pool : buildResponse(r)
    BY <1>3 DEF Workers
  <2>2. r \in WorkType
    BY <1>1, <2>1 DEF Typed
  <2>3. [kind |-> "resp", conn |-> r.conn, id |-> r.id, keepAlive |-> r.keepAlive] \in TaskType
    BY <2>2 DEF WorkType, TaskType
  <2>4. tasks' \in Seq(TaskType)
    BY <1>1, <2>1, <2>3 DEF Typed, buildResponse, enqueueTask
  <2>5. Typed'
    BY <1>1, <2>1, <2>4 DEF Typed, buildResponse
  <2> QED BY <2>1, <2>5 DEF ConnInv, AllSound, ReadsFindAlive, buildResponse
<1>4. CASE BrokenPipe
  <2>1. Typed'
    BY <1>1, <1>4 DEF Typed, BrokenPipe
  <2> QED BY <1>4, <2>1 DEF ConnInv, AllSound, ReadsFindAlive, BrokenPipe
<1>5. CASE UNCHANGED vars
  <2>1. Typed'
    BY <1>1, <1>5 DEF Typed, vars
  <2> QED BY <1>5, <2>1 DEF ConnInv, AllSound, ReadsFindAlive, vars
<1> QED
  BY <1>2, <1>3, <1>4, <1>5

-----------------------------------------------------------------------------
LEMMA ConnInvInit == Init => ConnInv
<1> SUFFICES ASSUME Init PROVE ConnInv
  OBVIOUS
<1>1. PICK flag \in Modes, load \in Loads : conn = [c \in Conns |-> NewConn(flag, load, c)]
  BY DEF Init
<1>2. flag \in BOOLEAN /\ load \in [DOMAIN load -> Seq(Piece)]
  BY <1>1, ConnectionAssumption
<1>3. ASSUME NEW c \in Conns
      PROVE  Sound(conn[c])
  <2> DEFINE script == IF c \in DOMAIN load THEN load[c] ELSE <<>>
  <2>1. script \in Seq(Piece)
    BY <1>2
  <2>2. NewConn(flag, load, c) \in ConnType
    BY <1>2, <2>1, ConnectionAssumption DEF NewConn, ConnType, ConnState
  <2>3. NewConn(flag, load, c).state = "none" /\ ~NewConn(flag, load, c).armed
    BY DEF NewConn
  <2> QED BY <1>1, <2>2, <2>3 DEF Sound, Detached
<1>4. conn \in [Conns -> ConnType]
  BY <1>1, <1>3 DEF Sound
<1>5. Typed
  <2>1. /\ tasks = <<>> /\ funcs = <<>> /\ pool = {} /\ pc = "poll" /\ cur = NoConn
        /\ todo = [c \in Conns |-> {}] /\ channels = {} /\ stop = FALSE /\ stopping = FALSE
    BY DEF Init
  <2>2. tasks \in Seq(TaskType) /\ funcs \in Seq(TaskType) /\ todo \in [Conns -> SUBSET Event]
    BY <2>1
  <2> QED BY <1>4, <2>1, <2>2 DEF Typed
<1>6. ReadsFindAlive
  BY DEF Init, ReadsFindAlive
<1> QED
  BY <1>3, <1>5, <1>6 DEF ConnInv, AllSound

LEMMA ConnInvNext == ConnInv /\ [Next]_vars => ConnInv'
<1> SUFFICES ASSUME ConnInv, [Next]_vars PROVE ConnInv'
  OBVIOUS
<1>1. CASE LoopThread
  BY <1>1, PollStep, LoopStep, AddStep, RemoveStep, RespStep, StopStep, ReadStep, HttpStep,
     WriteStep, TimeoutStep DEF LoopThread
<1>2. CASE Environment \/ \E c \in Conns : Expire(c)
  BY <1>2, EnvironmentStep DEF Environment
<1>3. CASE requestStop \/ Workers \/ BrokenPipe \/ UNCHANGED vars
  BY <1>3, QueueStep
<1> QED
  BY <1>1, <1>2, <1>3 DEF Next

(* DeadIsDetached: a dead connection is in no epoll interest list and has  *)
(* no timer, whatever order reads, writes, answers, timeouts and the stop  *)
(* come in.                                                                *)
THEOREM DeadConnectionsAreDetached == Spec => []DeadIsDetached
<1>1. ConnInv => DeadIsDetached
  BY DEF ConnInv, AllSound, Sound, Detached, DeadIsDetached
<1> QED
  BY <1>1, ConnInvInit, ConnInvNext, PTL DEF Spec
=============================================================================
