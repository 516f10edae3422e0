---------------------------- MODULE ClientProofs ----------------------------
(* What TLAPS proves of Client, for any plan of tests, any speed of the    *)
(* server and a server that may exit at any time.                          *)
EXTENDS Client, SequenceTheorems, TLAPS

-----------------------------------------------------------------------------
(* Where a test is.                                                        *)

(* The request under way or to be sent is the first of its connection; the *)
(* second of the keep-alive test.                                          *)
Fresh == plan # <<>> /\ step > 1 /\ Steps[Head(plan)][step - 1] = "connect"
Second == plan # <<>> /\ Head(plan) = "keepAlive" /\ step = 3

(* The request that the current step writes.                               *)
Asked == [kind |-> IF Step \in {"close", "post"} THEN Step ELSE "get", id |-> conn.nreq]

(* What of the responses of this connection the client has yet to see, and *)
(* that with what it has read since its last request.                      *)
Rest == conn.inbox \o conn.sending
Stream == out \o Rest

(* The answer to r is behind left: still to come, lost, or all of it there.*)
Coming(r, left) ==
  \/ conn.requests = <<r>> /\ Stream = left
  \/ conn.requests = <<>> /\ (Stream = left \/ Stream = left \o Response(r))

(* All that a request that has passed can leave behind: the last byte of   *)
(* its body, when the client has stopped waiting for it.                   *)
LastByte(id) == [part |-> "last", id |-> id, code |-> "200", keepAlive |-> TRUE]
Leftovers == {<<>>, <<LastByte(1)>>}

-----------------------------------------------------------------------------
(* The inductive invariant.                                                *)

(* A response is being read at a step that asks for one only.              *)
ReadsAnswer == pc = "read" => plan # <<>> /\ Step \in Requesting

(* The first request of a connection meets a clean one, and what is read   *)
(* after it is its answer.                                                 *)
FirstAnswer ==
  Fresh =>
    /\ pc = "step" => conn.nreq = 0 /\ conn.requests = <<>> /\ Rest = <<>>
    /\ pc = "read" => conn.nreq = 1 /\ Coming(Asked, <<>>)

(* The second request of the keep-alive test, if the first has passed:     *)
(* nothing but the last byte of its answer is in the way.                  *)
FirstPassed == results[Len(results)].passed
SecondAnswer ==
  Second =>
    /\ results # <<>> /\ results[Len(results)].test = "keepAlive"
    /\ FirstPassed /\ pc = "step" =>
         conn.nreq = 1 /\ conn.requests = <<>> /\ Rest \in Leftovers
    /\ FirstPassed /\ pc = "read" =>
         conn.nreq = 2 /\ \E left \in Leftovers : Coming(Asked, left)

(* The extra read comes after an answer to the request of its connection.  *)
EofAfterAnswer ==
  plan # <<>> /\ Step = "eof" /\ pc = "step" => out # <<>> /\ out[1].id = conn.nreq

(* A server that runs has not closed the socket: addTimerCallBack holds    *)
(* the connection.                                                         *)
Held ==
  /\ "addTimerCallBack" \in conn.owners
  /\ up => ~conn.closed /\ ~conn.rst /\ ~conn.err

(* With a server that runs and answers in time nothing is left over when a *)
(* step is over, and what a request waits for is on its way.               *)
Quiet == conn.requests = <<>> /\ Rest = <<>>
AllComing ==
  \/ conn.requests = <<Asked>> /\ Stream = <<>> /\ conn.state = "connected"
  \/ /\ conn.requests = <<>> /\ Stream = Response(Asked)
     /\ Asked.kind = "get" => conn.state = "connected"
Prompt ==
  up /\ ~slow /\ plan # <<>> =>
    /\ pc = "step" =>
         /\ Step # "connect" => Quiet
         /\ Step \in {"get", "close", "post", "again", "sleep"} => conn.state = "connected"
         /\ Step = "expired" => conn.state = "dead"
    /\ pc = "read" =>
         /\ Step # "expired" => AllComing
         /\ Step = "expired" => Stream = <<>> /\ conn.state = "dead"

ClientInv ==
  /\ TypeOK /\ ReadsAnswer /\ FirstAnswer /\ SecondAnswer /\ EofAfterAnswer
  /\ Held /\ Prompt /\ NoFalseAlarm /\ PassMeansAnswered

-----------------------------------------------------------------------------
(* Sequences.                                                              *)

(* A sequence cut in two is the two parts put together.                    *)
LEMMA CutInTwo ==
  ASSUME NEW S, NEW s \in Seq(S), NEW n \in 0..Len(s)
  PROVE  /\ SubSeq(s, 1, n) \in Seq(S) /\ SubSeq(s, n + 1, Len(s)) \in Seq(S)
         /\ SubSeq(s, 1, n) \o SubSeq(s, n + 1, Len(s)) = s
<1>1. SubSeq(s, 1, n) \in Seq(S) /\ SubSeq(s, n + 1, Len(s)) \in Seq(S)
  OBVIOUS
<1>2. 1 \in 1..Len(s) + 1 /\ n \in 1 - 1..Len(s) /\ Len(s) \in n..Len(s)
  OBVIOUS
<1>3. SubSeq(s, 1, n) \o SubSeq(s, n + 1, Len(s)) = SubSeq(s, 1, Len(s))
  BY <1>2, ConcatAdjacentSubSeq, Zenon
<1>4. SubSeq(s, 1, Len(s)) = s
  BY SubSeqFull
<1> QED
  BY <1>1, <1>3, <1>4

(* Runs of pieces join in any order.                                       *)
LEMMA JoinsAssociate ==
  \A u, v, x \in Seq(Piece) : (u \o v) \o x = u \o (v \o x)
  BY ConcatAssociative

(* Runs of pieces are runs of pieces when they are joined.                 *)
LEMMA JoinsType ==
  \A u, v \in Seq(Piece) : u \o v \in Seq(Piece)
  BY ConcatProperties

(* The front of a sequence, element by element.                            *)
LEMMA FrontOf ==
  ASSUME NEW s \in Seq(Piece), NEW t \in Seq(Piece)
  PROVE  /\ s \o t \in Seq(Piece) /\ Len(s \o t) = Len(s) + Len(t) /\ Len(s) <= Len(s \o t)
         /\ \A i \in DOMAIN s : (s \o t)[i] = s[i]
         /\ Len(t) = 0 <=> t = <<>>
         /\ s \o t = <<>> <=> s = <<>> /\ t = <<>>
<1>1. /\ s \o t \in Seq(Piece) /\ Len(s \o t) = Len(s) + Len(t)
      /\ \A i \in 1..Len(s) + Len(t) : (s \o t)[i] = IF i <= Len(s) THEN s[i] ELSE t[i - Len(s)]
  BY ConcatProperties, Zenon
<1>2. Len(s) \in Nat /\ Len(t) \in Nat /\ DOMAIN s = 1..Len(s)
  OBVIOUS
<1>3. \A u \in Seq(Piece) : Len(u) = 0 <=> u = <<>>
  OBVIOUS
<1>4. \A i \in 1..Len(s) : i \in 1..Len(s) + Len(t) /\ i <= Len(s)
  BY <1>2
<1>5. Len(s) + Len(t) = 0 <=> Len(s) = 0 /\ Len(t) = 0
  BY <1>2
<1> QED
  <2>1. \A i \in DOMAIN s : (s \o t)[i] = s[i]
    BY <1>1, <1>2, <1>4, Zenon
  <2>2. s \o t = <<>> <=> s = <<>> /\ t = <<>>
    BY <1>1, <1>3, <1>5
  <2> QED BY <1>1, <1>2, <1>3, <2>1, <2>2

-----------------------------------------------------------------------------
(* The steps of the tests, and the responses.                              *)

(* The five tests, step by step.                                           *)
LEMMA TestsAre ==
  /\ Test = {"single", "keepAlive", "close", "post", "idle"}
  /\ Len(Steps["single"]) = 2 /\ Steps["single"][1] = "connect" /\ Steps["single"][2] = "get"
  /\ Len(Steps["keepAlive"]) = 3 /\ Steps["keepAlive"][1] = "connect"
  /\ Steps["keepAlive"][2] = "get" /\ Steps["keepAlive"][3] = "get"
  /\ Len(Steps["close"]) = 3 /\ Steps["close"][1] = "connect"
  /\ Steps["close"][2] = "close" /\ Steps["close"][3] = "eof"
  /\ Len(Steps["post"]) = 2 /\ Steps["post"][1] = "connect" /\ Steps["post"][2] = "post"
  /\ Len(Steps["idle"]) = 8 /\ Steps["idle"][1] = "connect" /\ Steps["idle"][2] = "get"
  /\ Steps["idle"][3] = "get" /\ Steps["idle"][4] = "get" /\ Steps["idle"][5] = "sleep"
  /\ Steps["idle"][6] = "expired" /\ Steps["idle"][7] = "connect" /\ Steps["idle"][8] = "again"
  BY DEF Test, Steps, testSingleGet, testKeepAliveTwoGets, testConnectionClose, testPost400,
         testIdleTimeout

(* The response to a request: four pieces, or two for a 400.               *)
LEMMA ResponseIs ==
  ASSUME NEW r \in [kind : {"get", "close", "post"}, id : Nat]
  PROVE  /\ Response(r) \in Seq(Piece)
         /\ Len(Response(r)) = IF r.kind = "post" THEN 2 ELSE 4
         /\ \A i \in DOMAIN Response(r) :
              /\ Response(r)[i].id = r.id
              /\ Response(r)[i].code = IF r.kind = "post" THEN "400" ELSE "200"
              /\ Response(r)[i].keepAlive = (r.kind = "get")
         /\ Response(r)[1].part = "status" /\ Response(r)[2].part = "head"
         /\ r.kind # "post" => Response(r)[3].part = "text" /\ Response(r)[4].part = "last"
<1>1. CASE r.kind = "post"
  <2> DEFINE f == [i \in 1..2 |-> [part |-> <<"status", "head">>[i], id |-> r.id, code |-> "400",
                                   keepAlive |-> r.kind = "get"]]
  <2>1. Response(r) = f
    BY <1>1 DEF Response
  <2>2. f \in Seq(Piece) /\ Len(f) = 2 /\ DOMAIN f = 1..2
    BY DEF Piece, Part, Code
  <2>3. f[1].part = "status" /\ f[2].part = "head"
    OBVIOUS
  <2>4. \A i \in 1..2 : f[i].id = r.id /\ f[i].code = "400" /\ f[i].keepAlive = (r.kind = "get")
    OBVIOUS
  <2> HIDE DEF f
  <2> QED BY <1>1, <2>1, <2>2, <2>3, <2>4
<1>2. CASE r.kind # "post"
  <2> DEFINE ps == <<"status", "head", "text", "last">>
             f == [i \in 1..4 |-> [part |-> ps[i], id |-> r.id, code |-> "200",
                                   keepAlive |-> r.kind = "get"]]
  <2>1. Response(r) = f
    BY <1>2 DEF Response
  <2>2. f \in Seq(Piece) /\ Len(f) = 4 /\ DOMAIN f = 1..4
    BY DEF Piece, Part, Code
  <2>3. f[1].part = "status" /\ f[2].part = "head" /\ f[3].part = "text" /\ f[4].part = "last"
    OBVIOUS
  <2>4. \A i \in 1..4 : f[i].id = r.id /\ f[i].code = "200" /\ f[i].keepAlive = (r.kind = "get")
    OBVIOUS
  <2> HIDE DEF f
  <2> QED BY <1>2, <2>1, <2>2, <2>3, <2>4
<1> QED
  BY <1>1, <1>2

(* The step after the current one.                                         *)
Following == Steps[Head(plan)][step + 1]

(* A test is at one of its steps.                                          *)
LEMMA InATest ==
  ASSUME TypeOK, plan # <<>>
  PROVE  /\ Head(plan) \in Test /\ Tail(plan) \in Seq(Test)
         /\ Len(Steps[Head(plan)]) \in Nat
         /\ step \in 1..Len(Steps[Head(plan)])
<1>1. Head(plan) \in Test /\ Tail(plan) \in Seq(Test)
  BY HeadTailProperties DEF TypeOK
<1>2. step \in Nat \ {0} /\ step <= Len(Steps[Head(plan)])
  BY DEF TypeOK
<1>3. Len(Steps[Head(plan)]) \in Nat
  <2>1. \A t \in {"single", "keepAlive", "close", "post", "idle"} : Len(Steps[t]) \in Nat
    BY TestsAre
  <2> QED BY <1>1, <2>1, TestsAre
<1> QED
  BY <1>1, <1>2, <1>3

(* See above, spelt out.                                                   *)
LEMMA Positions ==
  ASSUME TypeOK, plan # <<>>
  PROVE  \/ Head(plan) = "single" /\ (LastStep <=> step = 2)
              /\ \/ step = 1 /\ Step = "connect" /\ Following = "get"
                 \/ step = 2 /\ Step = "get"
         \/ Head(plan) = "keepAlive" /\ (LastStep <=> step = 3)
              /\ \/ step = 1 /\ Step = "connect" /\ Following = "get"
                 \/ step = 2 /\ Step = "get" /\ Following = "get"
                 \/ step = 3 /\ Step = "get"
         \/ Head(plan) = "close" /\ (LastStep <=> step = 3)
              /\ \/ step = 1 /\ Step = "connect" /\ Following = "close"
                 \/ step = 2 /\ Step = "close" /\ Following = "eof"
                 \/ step = 3 /\ Step = "eof"
         \/ Head(plan) = "post" /\ (LastStep <=> step = 2)
              /\ \/ step = 1 /\ Step = "connect" /\ Following = "post"
                 \/ step = 2 /\ Step = "post"
         \/ Head(plan) = "idle" /\ (LastStep <=> step = 8)
              /\ \/ step = 1 /\ Step = "connect" /\ Following = "get"
                 \/ step = 2 /\ Step = "get" /\ Following = "get"
                 \/ step = 3 /\ Step = "get" /\ Following = "get"
                 \/ step = 4 /\ Step = "get" /\ Following = "sleep"
                 \/ step = 5 /\ Step = "sleep" /\ Following = "expired"
                 \/ step = 6 /\ Step = "expired" /\ Following = "connect"
                 \/ step = 7 /\ Step = "connect" /\ Following = "again"
                 \/ step = 8 /\ Step = "again"
<1> DEFINE t == Head(plan)
<1>1. t \in Test /\ Len(Steps[t]) \in Nat /\ step \in 1..Len(Steps[t])
  BY InATest
<1>2. /\ (LastStep <=> step = Len(Steps[t])) /\ Step = Steps[t][step]
      /\ Following = Steps[t][step + 1]
  BY DEF LastStep, Step, Following
<1> HIDE DEF t
<1>3. CASE t = "single"
  <2>1. step = 1 \/ step = 2
    BY <1>1, <1>3, TestsAre
  <2>2. /\ LastStep <=> step = 2
        /\ \/ step = 1 /\ Step = "connect" /\ Following = "get"
           \/ step = 2 /\ Step = "get"
    BY <1>2, <1>3, <2>1, TestsAre
  <2> QED BY <1>3, <2>2 DEF t
<1>4. CASE t = "keepAlive"
  <2>1. step = 1 \/ step = 2 \/ step = 3
    BY <1>1, <1>4, TestsAre
  <2>2. /\ LastStep <=> step = 3
        /\ \/ step = 1 /\ Step = "connect" /\ Following = "get"
           \/ step = 2 /\ Step = "get" /\ Following = "get"
           \/ step = 3 /\ Step = "get"
    BY <1>2, <1>4, <2>1, TestsAre
  <2> QED BY <1>4, <2>2 DEF t
<1>5. CASE t = "close"
  <2>1. step = 1 \/ step = 2 \/ step = 3
    BY <1>1, <1>5, TestsAre
  <2>2. /\ LastStep <=> step = 3
        /\ \/ step = 1 /\ Step = "connect" /\ Following = "close"
           \/ step = 2 /\ Step = "close" /\ Following = "eof"
           \/ step = 3 /\ Step = "eof"
    BY <1>2, <1>5, <2>1, TestsAre
  <2> QED BY <1>5, <2>2 DEF t
<1>6. CASE t = "post"
  <2>1. step = 1 \/ step = 2
    BY <1>1, <1>6, TestsAre
  <2>2. /\ LastStep <=> step = 2
        /\ \/ step = 1 /\ Step = "connect" /\ Following = "post"
           \/ step = 2 /\ Step = "post"
    BY <1>2, <1>6, <2>1, TestsAre
  <2> QED BY <1>6, <2>2 DEF t
<1>7. CASE t = "idle"
  <2>1. \/ step = 1 \/ step = 2 \/ step = 3 \/ step = 4 \/ step = 5 \/ step = 6 \/ step = 7
        \/ step = 8
    BY <1>1, <1>7, TestsAre
  <2>2. /\ LastStep <=> step = 8
        /\ \/ step = 1 /\ Step = "connect" /\ Following = "get"
           \/ step = 2 /\ Step = "get" /\ Following = "get"
           \/ step = 3 /\ Step = "get" /\ Following = "get"
           \/ step = 4 /\ Step = "get" /\ Following = "sleep"
           \/ step = 5 /\ Step = "sleep" /\ Following = "expired"
           \/ step = 6 /\ Step = "expired" /\ Following = "connect"
           \/ step = 7 /\ Step = "connect" /\ Following = "again"
           \/ step = 8 /\ Step = "again"
    BY <1>2, <1>7, <2>1, TestsAre
  <2> QED BY <1>7, <2>2 DEF t
<1> QED
  BY <1>1, <1>3, <1>4, <1>5, <1>6, <1>7, TestsAre DEF t

(* What comes after a connect, a sleep and an extra read.                  *)
LEMMA AfterOthers ==
  ASSUME TypeOK, plan # <<>>
  PROVE  /\ Step \in Requesting \cup {"connect", "eof", "sleep"}
         /\ Step = "connect" =>
              /\ ~LastStep /\ Following \in Requesting /\ Following # "expired"
              /\ ~(Head(plan) = "keepAlive" /\ step + 1 = 3)
         /\ Step = "sleep" => ~LastStep /\ Following = "expired" /\ Head(plan) = "idle"
         /\ Step = "eof" => LastStep /\ Head(plan) = "close"
  BY Positions DEF Requesting

(* A step is the first of its connection, or the one before it is named.   *)
LEMMA FreshIs ==
  ASSUME TypeOK, plan # <<>>
  PROVE  Fresh <=> \/ step = 2
                   \/ step = 8 /\ Head(plan) = "idle"
<1>1. /\ Head(plan) \in {"single", "keepAlive", "close", "post", "idle"}
      /\ step \in 1..Len(Steps[Head(plan)])
  BY InATest, TestsAre
<1>2. \A t \in {"single", "keepAlive", "close", "post", "idle"} : \A k \in 1..Len(Steps[t]) :
        (k > 1 /\ Steps[t][k - 1] = "connect") <=> (k = 2 \/ (k = 8 /\ t = "idle"))
  <2> TAKE t \in {"single", "keepAlive", "close", "post", "idle"}
  <2> TAKE k \in 1..Len(Steps[t])
  <2>1. CASE t = "single"
    BY <2>1, TestsAre
  <2>2. CASE t = "keepAlive"
    BY <2>2, TestsAre
  <2>3. CASE t = "close"
    BY <2>3, TestsAre
  <2>4. CASE t = "post"
    BY <2>4, TestsAre
  <2>5. CASE t = "idle"
    <3>1. k \in 1..8
      BY <2>5, TestsAre
    <3>2. \/ k = 1 \/ k = 2 \/ k = 3 \/ k = 4 \/ k = 5 \/ k = 6 \/ k = 7 \/ k = 8
      BY <3>1
    <3> QED BY <2>5, <3>2, TestsAre
  <2> QED BY <2>1, <2>2, <2>3, <2>4, <2>5
<1> QED
  BY <1>1, <1>2 DEF Fresh

(* What comes before and after a request.                                  *)
LEMMA AfterRequests ==
  ASSUME TypeOK, plan # <<>>, Step \in Requesting
  PROVE  /\ Fresh \/ Second \/ (Head(plan) = "idle" /\ ~LastStep)
         /\ LastStep \/ Head(plan) = "keepAlive" => (Fresh \/ Second) /\ Step # "expired"
         /\ Second => Step = "get" /\ LastStep /\ ~Fresh
         /\ ~LastStep =>
              /\ Following \in {"get", "eof", "sleep", "connect"}
              /\ Following \in {"get", "sleep"} => Step = "get"
              /\ Following = "eof" => Step = "close" /\ Fresh /\ Head(plan) = "close"
              /\ Following = "connect" <=> Step = "expired"
              /\ Head(plan) = "keepAlive" /\ step + 1 = 3 => Step = "get" /\ Fresh
  BY Positions, FreshIs DEF Requesting, Second

(* What is on its way of the responses, and the request, have their types. *)
LEMMA StreamType ==
  ASSUME TypeOK
  PROVE  /\ conn.inbox \in Seq(Piece) /\ conn.sending \in Seq(Piece) /\ out \in Seq(Piece)
         /\ Rest \in Seq(Piece) /\ Stream \in Seq(Piece)
         /\ conn.nreq \in Nat
<1>1. conn.inbox \in Seq(Piece) /\ conn.sending \in Seq(Piece) /\ out \in Seq(Piece) /\ conn.nreq \in Nat
  BY DEF TypeOK, ConnType
<1>2. Rest \in Seq(Piece)
  BY <1>1, ConcatProperties DEF Rest
<1>3. Stream \in Seq(Piece)
  BY <1>1, <1>2, ConcatProperties DEF Stream
<1> QED
  BY <1>1, <1>2, <1>3

(* See above.                                                              *)
LEMMA AskedType ==
  ASSUME TypeOK
  PROVE  Asked \in [kind : {"get", "close", "post"}, id : Nat]
<1>1. conn.nreq \in Nat
  BY StreamType
<1>2. (IF Step \in {"close", "post"} THEN Step ELSE "get") \in {"get", "close", "post"}
  OBVIOUS
<1> HIDE DEF Step
<1> QED
  BY <1>1, <1>2 DEF Asked

(* The leftovers are sequences of pieces.                                  *)
LEMMA LeftoversType ==
  /\ Leftovers \subseteq Seq(Piece) /\ <<>> \in Leftovers
  /\ LastByte(1) \in Piece
<1>1. LastByte(1) \in Piece
  BY DEF LastByte, Piece, Part, Code
<1> QED
  BY <1>1 DEF Leftovers

-----------------------------------------------------------------------------
(* What the client makes of a response.                                    *)

Req == [kind : {"get", "close", "post"}, id : Nat]

(* readHttpResponse stops with the whole response, not before.             *)
LEMMA WholeResponse ==
  ASSUME NEW r \in Req, NEW s \in Seq(Piece), NEW t \in Seq(Piece), s \o t = Response(r)
  PROVE  NeedsMore(s) <=> t # <<>>
<1> DEFINE R == Response(r)
<1>1. /\ R \in Seq(Piece) /\ Len(R) = IF r.kind = "post" THEN 2 ELSE 4
      /\ \A i \in DOMAIN R : R[i].code = IF r.kind = "post" THEN "400" ELSE "200"
      /\ R[1].part = "status" /\ R[2].part = "head"
      /\ r.kind # "post" => R[3].part = "text" /\ R[4].part = "last"
  BY ResponseIs DEF Req
<1>2. /\ Len(R) = Len(s) + Len(t) /\ Len(s) \in Nat /\ Len(t) \in Nat /\ DOMAIN s = 1..Len(s)
      /\ \A i \in DOMAIN s : s[i] = R[i]
      /\ Len(t) = 0 <=> t = <<>>
  <2>1. R = s \o t
    OBVIOUS
  <2> HIDE DEF R
  <2>2. /\ Len(R) = Len(s) + Len(t) /\ \A i \in DOMAIN s : s[i] = R[i]
        /\ Len(t) = 0 <=> t = <<>>
    BY <2>1, FrontOf, Zenon
  <2> QED BY <2>2, LenProperties
<1> HIDE DEF R
<1>3. HeadEnds(s) = IF Len(s) >= 2 THEN {2} ELSE {}
  <2>1. \A i \in DOMAIN s : s[i].part = "head" <=> i = 2
    <3>1. TAKE i \in DOMAIN s
    <3>2. i \in 1..Len(R) /\ s[i] = R[i]
      BY <1>2
    <3>3. CASE r.kind = "post"
      <4>1. i = 1 \/ i = 2
        BY <1>1, <3>2, <3>3
      <4> QED BY <1>1, <3>2, <4>1
    <3>4. CASE r.kind # "post"
      <4>1. i = 1 \/ i = 2 \/ i = 3 \/ i = 4
        BY <1>1, <3>2, <3>4
      <4> QED BY <1>1, <3>2, <3>4, <4>1
    <3> QED BY <3>3, <3>4
  <2>2. HeadEnds(s) = {i \in DOMAIN s : i = 2}
    BY <2>1 DEF HeadEnds
  <2>3. 2 \in DOMAIN s <=> Len(s) >= 2
    BY <1>2
  <2>4. CASE Len(s) >= 2
    <3>1. {i \in DOMAIN s : i = 2} = {2}
      BY <2>3, <2>4
    <3> QED BY <2>2, <2>4, <3>1
  <2>5. CASE ~(Len(s) >= 2)
    <3>1. {i \in DOMAIN s : i = 2} = {}
      BY <2>3, <2>5
    <3> QED BY <2>2, <2>5, <3>1
  <2> QED BY <2>4, <2>5
<1>4. CASE Len(s) < 2
  BY <1>1, <1>2, <1>3, <1>4 DEF NeedsMore
<1>5. CASE Len(s) >= 2
  <2>1. HeadEnds(s) = {2}
    BY <1>3, <1>5
  <2>2. (CHOOSE i \in HeadEnds(s) : \A j \in HeadEnds(s) : i <= j) = 2
    BY <2>1
  <2>3. NeedsMore(s) <=> Len(s) - 2 < IF s[2].code = "200" THEN 2 ELSE 0
    BY <2>1, <2>2 DEF NeedsMore
  <2>4. s[2] = R[2] /\ 2 \in DOMAIN R
    BY <1>1, <1>2, <1>5
  <2>5. s[2].code = IF r.kind = "post" THEN "400" ELSE "200"
    BY <1>1, <2>4
  <2>6. CASE r.kind = "post"
    <3>1. ~NeedsMore(s)
      BY <1>2, <1>5, <2>3, <2>5, <2>6
    <3>2. Len(s) + Len(t) = 2 /\ Len(s) \in Nat /\ Len(t) \in Nat
      BY <1>1, <1>2, <2>6
    <3>3. \A m, n \in Nat : m + n = 2 /\ m >= 2 => n = 0
      OBVIOUS
    <3>4. Len(t) = 0
      BY <1>5, <3>2, <3>3, Zenon
    <3> QED BY <1>2, <3>1, <3>4
  <2>7. CASE r.kind # "post"
    <3>1. NeedsMore(s) <=> Len(s) - 2 < 2
      BY <2>3, <2>5, <2>7
    <3>2. Len(s) + Len(t) = 4
      BY <1>1, <1>2, <2>7
    <3>3. NeedsMore(s) <=> Len(t) # 0
      BY <1>2, <3>1, <3>2
    <3> QED BY <1>2, <3>3
  <2> QED BY <2>6, <2>7
<1> QED
  BY <1>2, <1>4, <1>5

(* Nothing read is never enough.                                           *)
LEMMA NothingIsNotEnough ==
  NeedsMore(<<>>)
  BY DEF NeedsMore, HeadEnds

(* The response to a request passes the checks on it.                      *)
LEMMA WholePasses ==
  ASSUME NEW r \in Req, out = Response(r)
  PROVE  /\ r.kind # "post" => expectStatus("200") /\ expectBody
         /\ r.kind = "close" => expectClose
         /\ r.kind = "post" => expectStatus("400")
         /\ out # <<>> /\ out[1].id = r.id
<1> DEFINE R == Response(r)
<1>1. /\ R \in Seq(Piece) /\ Len(R) = IF r.kind = "post" THEN 2 ELSE 4
      /\ \A i \in DOMAIN R : /\ R[i].id = r.id
                             /\ R[i].code = IF r.kind = "post" THEN "400" ELSE "200"
                             /\ R[i].keepAlive = (r.kind = "get")
      /\ R[1].part = "status" /\ R[2].part = "head"
      /\ r.kind # "post" => R[3].part = "text" /\ R[4].part = "last"
  BY ResponseIs DEF Req
<1>2. out = R
  OBVIOUS
<1> HIDE DEF R
<1>3. 1 \in DOMAIN R /\ 2 \in DOMAIN R /\ (r.kind # "post" => 3 \in DOMAIN R)
  BY <1>1
<1>4. ASSUME NEW code, R[1].code = code PROVE expectStatus(code)
  <2>1. 1 - 1 \notin DOMAIN R
    BY <1>1
  <2> QED BY <1>1, <1>2, <1>3, <1>4, <2>1 DEF expectStatus
<1>5. r.kind # "post" => expectBody
  BY <1>1, <1>2, <1>3 DEF expectBody
<1>6. r.kind = "close" => expectClose
  <2>1. r.kind = "close" => ~R[2].keepAlive
    BY <1>1, <1>3
  <2> QED BY <1>1, <1>2, <1>3, <2>1 DEF expectClose
<1>7. out # <<>> /\ out[1].id = r.id
  BY <1>1, <1>2, <1>3
<1> QED
  BY <1>1, <1>3, <1>4, <1>5, <1>6, <1>7

(* A status line that is accepted is the first piece read, if all there is *)
(* are leftovers and one response.                                         *)
LEMMA StatusIsFirst ==
  ASSUME NEW r \in Req, NEW left \in Leftovers, NEW code, out \in Seq(Piece),
         NEW t \in Seq(Piece), out \o t = left \/ out \o t = left \o Response(r),
         expectStatus(code)
  PROVE  left = <<>> /\ out # <<>> /\ out \o t = Response(r) /\ out[1].id = r.id
<1> DEFINE R == Response(r)  x == out \o t
<1>1. /\ R \in Seq(Piece) /\ Len(R) \in Nat /\ Len(R) >= 2 /\ DOMAIN R = 1..Len(R)
      /\ R[1].id = r.id /\ \A i \in 2..Len(R) : R[i].part # "status"
  <2>1. /\ R \in Seq(Piece) /\ Len(R) = IF r.kind = "post" THEN 2 ELSE 4
        /\ \A i \in DOMAIN R : R[i].id = r.id
        /\ R[2].part = "head"
        /\ r.kind # "post" => R[3].part = "text" /\ R[4].part = "last"
    <3>1. r \in [kind : {"get", "close", "post"}, id : Nat]
      BY DEF Req
    <3> QED BY <3>1, ResponseIs, Zenon
  <2> HIDE DEF R
  <2>2. \A i \in 2..Len(R) : i = 2 \/ (r.kind # "post" /\ (i = 3 \/ i = 4))
    BY <2>1
  <2>3. Len(R) \in Nat /\ Len(R) >= 2 /\ DOMAIN R = 1..Len(R) /\ 1 \in DOMAIN R
    <3>1. Len(R) = 2 \/ Len(R) = 4
      BY <2>1
    <3>2. Len(R) \in Nat /\ Len(R) >= 2
      <4>1. CASE Len(R) = 2
        BY ONLY <4>1
      <4>2. CASE Len(R) = 4
        BY ONLY <4>2
      <4> QED BY <3>1, <4>1, <4>2
    <3>3. DOMAIN R = 1..Len(R)
      BY <2>1, LenProperties, Zenon
    <3>4. 1 \in 1..Len(R)
      BY <3>2
    <3> QED BY <3>2, <3>3, <3>4, Zenon
  <2> QED BY <2>1, <2>2, <2>3
<1>2. /\ x \in Seq(Piece) /\ DOMAIN x = 1..Len(x) /\ DOMAIN out = 1..Len(out)
      /\ Len(out) \in Nat /\ Len(x) \in Nat /\ Len(out) <= Len(x)
      /\ \A i \in DOMAIN out : out[i] = x[i]
  BY FrontOf
<1>3. x = left \/ x = left \o R
  OBVIOUS
<1>4. PICK i \in DOMAIN out : /\ out[i].part = "status"
                              /\ \A h \in DOMAIN out : h = i - 1 => out[h].part = "head"
  BY DEF expectStatus
<1> HIDE DEF R, x
<1>5. left = <<>>
  <2>1. SUFFICES ASSUME left = <<LastByte(1)>> PROVE FALSE
    BY DEF Leftovers
  <2>2. Len(left) = 1 /\ left[1].part = "last" /\ left \in Seq(Piece)
    BY <2>1, LeftoversType DEF LastByte
  <2>3. x[1].part = "last" /\ \A j \in 3..Len(x) : x[j].part # "status"
    <3>1. CASE x = left
      <4>1. Len(x) = 1 /\ x[1].part = "last" /\ 3..1 = {}
        BY <2>2, <3>1
      <4> QED BY <4>1
    <3>2. CASE x = left \o R
      <4>1. /\ Len(x) = 1 + Len(R)
            /\ \A j \in 1..1 + Len(R) : x[j] = IF j <= 1 THEN left[j] ELSE R[j - 1]
        <5>1. /\ Len(left \o R) = Len(left) + Len(R)
              /\ \A j \in 1..Len(left) + Len(R) :
                   (left \o R)[j] = IF j <= Len(left) THEN left[j] ELSE R[j - Len(left)]
          BY <1>1, <2>2, ConcatProperties, Zenon
        <5> QED BY <2>2, <3>2, <5>1
      <4>2. x[1] = left[1]
        BY <1>1, <4>1
      <4>3. ASSUME NEW j \in 3..Len(x) PROVE x[j].part # "status"
        <5>1. j \in 1..1 + Len(R) /\ ~(j <= 1) /\ j - 1 \in 2..Len(R)
          BY <1>1, <4>1
        <5>2. x[j] = R[j - 1]
          BY <4>1, <5>1
        <5> QED BY <1>1, <5>1, <5>2
      <4> QED BY <2>2, <4>2, <4>3
    <3> QED BY <1>3, <3>1, <3>2
  <2>4. i \in 1..Len(out) /\ i \in 1..Len(x) /\ out[i] = x[i]
    BY <1>2
  <2>5. i = 2
    <3>1. i # 1
      BY <1>4, <2>3, <2>4
    <3>2. ~(i \in 3..Len(x))
      BY <1>4, <2>3, <2>4
    <3> QED BY <1>2, <2>4, <3>1, <3>2
  <2>6. 1 \in DOMAIN out /\ 1 = i - 1
    BY <1>2, <2>4, <2>5
  <2> QED BY <1>2, <1>4, <2>3, <2>6
<1>6. x = <<>> \/ x = R
  BY <1>1, <1>3, <1>5, ConcatEmptySeq
<1>7. x = R /\ 1 \in DOMAIN out
  BY <1>2, <1>4, <1>6
<1>8. out # <<>>
  BY <1>7
<1> QED
  BY <1>1, <1>2, <1>5, <1>7, <1>8 DEF R, x

-----------------------------------------------------------------------------
(* The connection.                                                         *)

(* A new connection has its type; what else is known of it.                *)
LEMMA NewConnIs ==
  /\ NewConn \in ConnType
  /\ NewConn.nreq = 0 /\ NewConn.requests = <<>>
  /\ NewConn.inbox = <<>> /\ NewConn.sending = <<>> /\ NewConn.state = "connected"
  /\ "addTimerCallBack" \in NewConn.owners
  /\ ~NewConn.closed /\ ~NewConn.rst /\ ~NewConn.err
<1>1. /\ <<>> \in Seq([kind : {"get", "close", "post"}, id : Nat]) /\ <<>> \in Seq(Piece)
  OBVIOUS
<1> QED
  BY <1>1 DEF NewConn, ConnType, Owner

(* The connection that has died is held by its own callback.               *)
LEMMA HandleDeadIs ==
  ASSUME NEW k \in ConnType
  PROVE  /\ handleDead(k) \in ConnType /\ handleDead(k).state = "dead"
         /\ handleDead(k).requests = k.requests /\ handleDead(k).sending = k.sending
         /\ handleDead(k).inbox = k.inbox /\ handleDead(k).nreq = k.nreq
         /\ handleDead(k).rst = k.rst /\ handleDead(k).err = k.err
         /\ "addTimerCallBack" \in k.owners =>
              "addTimerCallBack" \in handleDead(k).owners /\ ~handleDead(k).closed
<1> DEFINE o == k.owners \ {"timer", "Connections"}  e == o = {}
<1>1. handleDead(k) = [k EXCEPT !.state = "dead", !.owners = o, !.closed = e]
  BY DEF handleDead
<1>2. o \in SUBSET Owner /\ e \in BOOLEAN
  BY DEF ConnType
<1>3. "addTimerCallBack" \in k.owners => "addTimerCallBack" \in o /\ ~e
  OBVIOUS
<1> HIDE DEF o, e
<1> QED
  BY <1>1, <1>2, <1>3 DEF ConnType

(* onHttp: the response to the first request is under way.                 *)
LEMMA OnHttpIs ==
  ASSUME TypeOK, onHttp
  PROVE  /\ UNCHANGED <<plan, step, pc, out, results, slow>> /\ up' = up
         /\ up /\ conn.state = "connected" /\ conn.requests # <<>>
         /\ Head(conn.requests) \in Req
         /\ conn' \in ConnType
         /\ conn'.requests = Tail(conn.requests)
         /\ conn'.sending = conn.sending \o Response(Head(conn.requests))
         /\ conn'.inbox = conn.inbox /\ conn'.nreq = conn.nreq /\ conn'.owners = conn.owners
         /\ conn'.closed = conn.closed /\ conn'.rst = conn.rst /\ conn'.err = conn.err
         /\ conn'.state = IF Head(conn.requests).kind = "get" THEN "connected" ELSE "peerClose"
<1> DEFINE r == Head(conn.requests)
           q == Tail(conn.requests)
           s == conn.sending \o Response(r)
           t == IF r.kind = "get" THEN "connected" ELSE "peerClose"
<1>1. conn \in ConnType /\ conn.requests \in Seq(Req) /\ conn.sending \in Seq(Piece)
  BY DEF TypeOK, ConnType, Req
<1>2. up /\ conn.state = "connected" /\ conn.requests # <<>>
  BY DEF onHttp
<1>3. r \in Req /\ q \in Seq(Req)
  BY <1>1, <1>2, HeadTailProperties
<1>4. s \in Seq(Piece)
  <2>1. Response(r) \in Seq(Piece)
    BY <1>3, ResponseIs DEF Req
  <2> QED BY <1>1, <2>1, ConcatProperties
<1>5. conn' = [conn EXCEPT !.requests = q, !.sending = s, !.state = t]
  BY <1>2 DEF onHttp, OnConn
<1>6. UNCHANGED <<plan, step, pc, out, results, slow>> /\ up' = up
  BY DEF onHttp, OnConn
<1>7. t \in {"connected", "peerClose"}
  OBVIOUS
<1> HIDE DEF r, q, s, t
<1>8. conn' \in ConnType
  BY <1>1, <1>3, <1>4, <1>5, <1>7 DEF ConnType, Req
<1>9. /\ conn'.requests = q /\ conn'.sending = s /\ conn'.inbox = conn.inbox
      /\ conn'.nreq = conn.nreq /\ conn'.owners = conn.owners /\ conn'.closed = conn.closed
      /\ conn'.rst = conn.rst /\ conn'.err = conn.err /\ conn'.state = t
  BY <1>1, <1>5 DEF ConnType
<1> QED
  BY <1>2, <1>3, <1>6, <1>8, <1>9 DEF r, q, s, t

(* checkEmptyReadAfterEof: the connection dies.                            *)
LEMMA CheckIs ==
  ASSUME TypeOK, checkEmptyReadAfterEof
  PROVE  /\ UNCHANGED <<plan, step, pc, out, results, slow>> /\ up' = up
         /\ up /\ conn.state = "peerClose" /\ conn' = handleDead(conn)
         /\ conn' \in ConnType
  BY HandleDeadIs DEF TypeOK, checkEmptyReadAfterEof, OnConn

(* Deliver: what was sent has come closer, in order.                       *)
LEMMA DeliverIs ==
  ASSUME TypeOK, Deliver
  PROVE  /\ UNCHANGED <<plan, step, pc, out, results, slow>> /\ up' = up
         /\ conn' \in ConnType
         /\ Rest' = Rest
         /\ conn'.requests = conn.requests /\ conn'.nreq = conn.nreq
         /\ conn'.owners = conn.owners /\ conn'.state = conn.state
         /\ conn'.closed = conn.closed /\ conn'.rst = conn.rst /\ conn'.err = conn.err
<1>1. conn \in ConnType /\ conn.sending \in Seq(Piece) /\ conn.inbox \in Seq(Piece)
  BY DEF TypeOK, ConnType
<1>2. PICK n \in 1..Len(conn.sending) :
        OnConn([conn EXCEPT !.inbox = @ \o SubSeq(conn.sending, 1, n),
                            !.sending = SubSeq(@, n + 1, Len(@))])
  BY DEF Deliver
<1> DEFINE a == SubSeq(conn.sending, 1, n)
           b == SubSeq(conn.sending, n + 1, Len(conn.sending))
           i == conn.inbox \o a
<1>3. a \in Seq(Piece) /\ b \in Seq(Piece) /\ a \o b = conn.sending
  <2>1. n \in 0..Len(conn.sending)
    BY <1>1
  <2> QED BY <1>1, <2>1, CutInTwo
<1>4. conn' = [conn EXCEPT !.inbox = i, !.sending = b]
  BY <1>2 DEF OnConn
<1>5. UNCHANGED <<plan, step, pc, out, results, slow>> /\ up' = up
  BY <1>2 DEF OnConn
<1> HIDE DEF a, b
<1>6. i \in Seq(Piece) /\ i \o b = conn.inbox \o conn.sending
  <2>1. i \in Seq(Piece)
    BY <1>1, <1>3, JoinsType, Zenon
  <2>2. (conn.inbox \o a) \o b = conn.inbox \o (a \o b)
    BY <1>1, <1>3, JoinsAssociate, Zenon
  <2> QED BY <1>3, <2>1, <2>2
<1> HIDE DEF i
<1>7. /\ conn' \in ConnType /\ conn'.inbox = i /\ conn'.sending = b
      /\ conn'.requests = conn.requests /\ conn'.nreq = conn.nreq
      /\ conn'.owners = conn.owners /\ conn'.state = conn.state
      /\ conn'.closed = conn.closed /\ conn'.rst = conn.rst /\ conn'.err = conn.err
  BY <1>1, <1>3, <1>4, <1>6 DEF ConnType
<1> QED
  BY <1>5, <1>6, <1>7 DEF Rest

(* The server exits: what it has not sent may be lost.                     *)
LEMMA ExitIs ==
  ASSUME TypeOK, ServerExits
  PROVE  /\ UNCHANGED <<plan, step, pc, out, results, slow>> /\ up /\ ~up'
         /\ conn' \in ConnType
         /\ conn'.requests = conn.requests /\ conn'.nreq = conn.nreq
         /\ conn'.owners = conn.owners /\ conn'.inbox = conn.inbox
         /\ conn'.sending = IF conn.requests # <<>> THEN <<>> ELSE conn.sending
<1> DEFINE l == conn.requests # <<>>
           s == IF l THEN <<>> ELSE conn.sending
<1>1. conn \in ConnType /\ conn.sending \in Seq(Piece)
  BY DEF TypeOK, ConnType
<1>2. conn' = [conn EXCEPT !.closed = TRUE, !.rst = l, !.err = l, !.sending = s]
  BY DEF ServerExits
<1>3. s \in Seq(Piece) /\ l \in BOOLEAN
  BY <1>1
<1> HIDE DEF l, s
<1>4. /\ conn' \in ConnType /\ conn'.sending = s /\ conn'.inbox = conn.inbox
      /\ conn'.requests = conn.requests /\ conn'.nreq = conn.nreq /\ conn'.owners = conn.owners
  BY <1>1, <1>2, <1>3 DEF ConnType
<1> QED
  <2>1. UNCHANGED <<plan, step, pc, out, results, slow>> /\ up /\ ~up'
    BY DEF ServerExits
  <2>2. s = IF conn.requests # <<>> THEN <<>> ELSE conn.sending
    BY DEF s, l
  <2> QED BY <1>4, <2>1, <2>2, Zenon

-----------------------------------------------------------------------------
(* The steps of the server and the network.                                *)

(* The parts of the invariant that only the client can disturb.            *)
LEMMA ServerTypes ==
  ASSUME ClientInv, UNCHANGED <<plan, step, pc, out, results, slow>>,
         conn' \in ConnType, conn'.nreq = conn.nreq, up' \in BOOLEAN, up' => up
  PROVE  /\ TypeOK' /\ ReadsAnswer' /\ EofAfterAnswer' /\ NoFalseAlarm' /\ PassMeansAnswered'
         /\ (Fresh <=> Fresh') /\ (Second <=> Second') /\ (FirstPassed <=> FirstPassed')
         /\ Step' = Step /\ Asked' = Asked
<1>1. Step' = Step
  BY DEF Step
<1>2. TypeOK'
  BY DEF ClientInv, TypeOK
<1>3. ReadsAnswer'
  BY <1>1 DEF ClientInv, ReadsAnswer
<1>4. EofAfterAnswer'
  BY <1>1 DEF ClientInv, EofAfterAnswer
<1>5. NoFalseAlarm' /\ PassMeansAnswered'
  BY DEF ClientInv, NoFalseAlarm, PassMeansAnswered
<1>6. (Fresh <=> Fresh') /\ (Second <=> Second') /\ (FirstPassed <=> FirstPassed')
  BY DEF Fresh, Second, FirstPassed
<1>7. Asked' = Asked
  BY <1>1 DEF Asked
<1> QED
  BY <1>1, <1>2, <1>3, <1>4, <1>5, <1>6, <1>7

(* An answer that is coming is still coming when the stream is the same.   *)
LEMMA SameStream ==
  ASSUME ClientInv, UNCHANGED <<plan, step, pc, out, results, slow>>,
         conn' \in ConnType, conn'.nreq = conn.nreq, up' \in BOOLEAN, up' => up,
         conn'.requests = conn.requests, Rest' = Rest
  PROVE  FirstAnswer' /\ SecondAnswer' /\ Stream' = Stream
<1>1. /\ (Fresh <=> Fresh') /\ (Second <=> Second') /\ (FirstPassed <=> FirstPassed')
      /\ Step' = Step /\ Asked' = Asked
  BY ServerTypes
<1>2. Stream' = Stream
  BY DEF Stream
<1>3. ASSUME NEW left PROVE Coming(Asked, left) <=> Coming(Asked, left)'
  BY <1>1, <1>2 DEF Coming
<1>4. FirstAnswer'
  BY <1>1, <1>3 DEF ClientInv, FirstAnswer
<1>5. SecondAnswer'
  BY <1>1, <1>3 DEF ClientInv, SecondAnswer
<1> QED
  BY <1>2, <1>4, <1>5

(* The response to the one request under way follows what is left.         *)
LEMMA OnHttpKeeps ==
  ASSUME ClientInv, onHttp
  PROVE  ClientInv'
<1> DEFINE r == Head(conn.requests)  R == Response(r)
<1>1. TypeOK
  BY DEF ClientInv
<1>2. /\ UNCHANGED <<plan, step, pc, out, results, slow>> /\ up' = up
      /\ up /\ conn.state = "connected" /\ conn.requests # <<>> /\ r \in Req
      /\ conn' \in ConnType /\ conn'.requests = Tail(conn.requests)
      /\ conn'.sending = conn.sending \o R
      /\ conn'.inbox = conn.inbox /\ conn'.nreq = conn.nreq /\ conn'.owners = conn.owners
      /\ conn'.closed = conn.closed /\ conn'.rst = conn.rst /\ conn'.err = conn.err
      /\ conn'.state = IF r.kind = "get" THEN "connected" ELSE "peerClose"
  BY <1>1, OnHttpIs
<1>3. up' \in BOOLEAN /\ (up' => up)
  BY <1>1, <1>2 DEF TypeOK
<1>4. /\ TypeOK' /\ ReadsAnswer' /\ EofAfterAnswer' /\ NoFalseAlarm' /\ PassMeansAnswered'
      /\ (Fresh <=> Fresh') /\ (Second <=> Second') /\ (FirstPassed <=> FirstPassed')
      /\ Step' = Step /\ Asked' = Asked
  BY <1>2, <1>3, ServerTypes, Zenon
<1>5. R \in Seq(Piece) /\ Rest \in Seq(Piece) /\ out \in Seq(Piece)
      /\ conn.inbox \in Seq(Piece) /\ conn.sending \in Seq(Piece)
  BY <1>1, <1>2, ResponseIs, StreamType DEF Req
<1>6. Stream' = Stream \o R
  <2>1. Rest' = conn.inbox \o (conn.sending \o R)
    BY <1>2 DEF Rest
  <2> HIDE DEF R
  <2>2. Rest' = Rest \o R
    BY <1>5, <2>1, JoinsAssociate DEF Rest
  <2>3. Stream' = out \o (Rest \o R)
    BY <1>2, <2>2 DEF Stream
  <2> QED BY <1>5, <2>3, JoinsAssociate DEF Stream
<1>7. ASSUME NEW x, conn.requests = <<x>> PROVE x = r /\ conn'.requests = <<>>
  BY <1>2, <1>7
<1> HIDE DEF R
<1>8. ASSUME NEW left, Coming(Asked, left) PROVE Coming(Asked, left)'
  <2>1. conn.requests = <<Asked>> /\ Stream = left
    BY <1>2, <1>8 DEF Coming
  <2>2. Asked = r /\ conn'.requests = <<>>
    BY <1>7, <2>1
  <2>3. Stream' = left \o Response(Asked)
    BY <1>6, <2>1, <2>2 DEF R
  <2> QED BY <1>4, <2>2, <2>3 DEF Coming
<1>9. FirstAnswer'
  BY <1>2, <1>4, <1>8 DEF ClientInv, FirstAnswer
<1>10. SecondAnswer'
  BY <1>2, <1>4, <1>8 DEF ClientInv, SecondAnswer
<1>11. Held'
  BY <1>2 DEF ClientInv, Held
<1>12. Prompt'
  <2>1. SUFFICES ASSUME up, ~slow, plan # <<>>
                 PROVE  /\ pc = "step" => Step = "connect"
                        /\ pc = "read" => Step # "expired" /\ AllComing'
    BY <1>2, <1>4 DEF Prompt
  <2>2. Prompt
    BY DEF ClientInv
  <2>3. pc = "step" => Step = "connect"
    BY <1>2, <2>1, <2>2 DEF Prompt, Quiet
  <2>4. pc = "read" => Step # "expired" /\ AllComing
    BY <1>2, <2>1, <2>2 DEF Prompt
  <2>5. AllComing => AllComing'
    <3>1. SUFFICES ASSUME AllComing PROVE AllComing'
      OBVIOUS
    <3>2. conn.requests = <<Asked>> /\ Stream = <<>>
      BY <1>2, <3>1 DEF AllComing
    <3>3. Asked = r /\ conn'.requests = <<>>
      BY <1>7, <3>2
    <3>4. Stream' = Response(Asked)
      BY <1>5, <1>6, <3>2, <3>3, ConcatEmptySeq DEF R
    <3> QED BY <1>2, <1>4, <3>3, <3>4 DEF AllComing
  <2> QED BY <2>3, <2>4, <2>5
<1> QED
  BY <1>4, <1>9, <1>10, <1>11, <1>12 DEF ClientInv

(* The connection whose peerClose has been seen to the end dies.           *)
LEMMA CheckKeeps ==
  ASSUME ClientInv, checkEmptyReadAfterEof
  PROVE  ClientInv'
<1>1. TypeOK
  BY DEF ClientInv
<1>2. /\ UNCHANGED <<plan, step, pc, out, results, slow>> /\ up' = up /\ conn.state = "peerClose"
      /\ conn' = handleDead(conn) /\ conn' \in ConnType /\ conn \in ConnType
  BY <1>1, CheckIs DEF TypeOK
<1>3. /\ conn'.state = "dead" /\ conn'.requests = conn.requests /\ conn'.sending = conn.sending
      /\ conn'.inbox = conn.inbox /\ conn'.nreq = conn.nreq
      /\ conn'.rst = conn.rst /\ conn'.err = conn.err
      /\ "addTimerCallBack" \in conn.owners =>
           "addTimerCallBack" \in conn'.owners /\ ~conn'.closed
  BY <1>2, HandleDeadIs
<1>4. Rest' = Rest /\ up' \in BOOLEAN /\ (up' => up)
  BY <1>1, <1>2, <1>3 DEF Rest, TypeOK
<1>5. /\ TypeOK' /\ ReadsAnswer' /\ EofAfterAnswer' /\ NoFalseAlarm' /\ PassMeansAnswered'
      /\ (Fresh <=> Fresh') /\ (Second <=> Second') /\ (FirstPassed <=> FirstPassed')
      /\ Step' = Step /\ Asked' = Asked
  BY <1>2, <1>3, <1>4, ServerTypes, Zenon
<1>6. FirstAnswer' /\ SecondAnswer' /\ Stream' = Stream
  BY <1>2, <1>3, <1>4, SameStream, Zenon
<1>7. Held'
  BY <1>2, <1>3 DEF ClientInv, Held
<1>8. Prompt'
  <2>1. AllComing => AllComing'
    BY <1>2, <1>3, <1>5, <1>6 DEF AllComing
  <2>2. Quiet => Quiet'
    BY <1>3, <1>4 DEF Quiet
  <2>3. Prompt
    BY DEF ClientInv
  <2> QED BY <1>2, <1>3, <1>5, <1>6, <2>1, <2>2, <2>3 DEF Prompt
<1> QED
  BY <1>5, <1>6, <1>7, <1>8 DEF ClientInv

(* What arrives was on its way before.                                     *)
LEMMA DeliverKeeps ==
  ASSUME ClientInv, Deliver
  PROVE  ClientInv'
<1>1. TypeOK
  BY DEF ClientInv
<1>2. /\ UNCHANGED <<plan, step, pc, out, results, slow>> /\ up' = up
      /\ conn' \in ConnType /\ Rest' = Rest
      /\ conn'.requests = conn.requests /\ conn'.nreq = conn.nreq
      /\ conn'.owners = conn.owners /\ conn'.state = conn.state
      /\ conn'.closed = conn.closed /\ conn'.rst = conn.rst /\ conn'.err = conn.err
  BY <1>1, DeliverIs
<1>3. up' \in BOOLEAN /\ (up' => up)
  BY <1>1, <1>2 DEF TypeOK
<1>4. /\ TypeOK' /\ ReadsAnswer' /\ EofAfterAnswer' /\ NoFalseAlarm' /\ PassMeansAnswered'
      /\ (Fresh <=> Fresh') /\ (Second <=> Second') /\ (FirstPassed <=> FirstPassed')
      /\ Step' = Step /\ Asked' = Asked
  BY <1>2, <1>3, ServerTypes, Zenon
<1>5. FirstAnswer' /\ SecondAnswer' /\ Stream' = Stream
  BY <1>2, <1>3, SameStream, Zenon
<1>6. Held'
  BY <1>2 DEF ClientInv, Held
<1>7. Prompt'
  <2>1. AllComing => AllComing'
    BY <1>2, <1>4, <1>5 DEF AllComing
  <2>2. Quiet => Quiet'
    BY <1>2 DEF Quiet
  <2>3. Prompt
    BY DEF ClientInv
  <2> QED BY <1>2, <1>4, <1>5, <2>1, <2>2, <2>3 DEF Prompt
<1> QED
  BY <1>4, <1>5, <1>6, <1>7 DEF ClientInv

(* A server that exits can only cut the stream short while a request has   *)
(* no answer yet.                                                          *)
LEMMA ExitKeeps ==
  ASSUME ClientInv, ServerExits
  PROVE  ClientInv'
<1>1. TypeOK
  BY DEF ClientInv
<1>2. /\ UNCHANGED <<plan, step, pc, out, results, slow>> /\ up /\ ~up'
      /\ conn' \in ConnType
      /\ conn'.requests = conn.requests /\ conn'.nreq = conn.nreq
      /\ conn'.owners = conn.owners /\ conn'.inbox = conn.inbox
      /\ conn'.sending = IF conn.requests # <<>> THEN <<>> ELSE conn.sending
  BY <1>1, ExitIs
<1>3. up' \in BOOLEAN /\ (up' => up)
  BY <1>2 DEF ServerExits
<1>4. /\ TypeOK' /\ ReadsAnswer' /\ EofAfterAnswer' /\ NoFalseAlarm' /\ PassMeansAnswered'
      /\ (Fresh <=> Fresh') /\ (Second <=> Second') /\ (FirstPassed <=> FirstPassed')
      /\ Step' = Step /\ Asked' = Asked
  BY <1>2, <1>3, ServerTypes, Zenon
<1>5. Held' /\ Prompt'
  BY <1>2 DEF ClientInv, Held, Prompt
<1>6. CASE conn.requests = <<>>
  <2>1. Rest' = Rest
    BY <1>2, <1>6 DEF Rest
  <2>2. FirstAnswer' /\ SecondAnswer'
    BY <1>2, <1>3, <2>1, SameStream, Zenon
  <2> QED BY <1>4, <1>5, <2>2 DEF ClientInv
<1>7. CASE conn.requests # <<>>
  <2>1. /\ conn.inbox \in Seq(Piece) /\ conn.sending \in Seq(Piece) /\ out \in Seq(Piece)
        /\ Rest \in Seq(Piece) /\ Stream \in Seq(Piece)
    BY <1>1, StreamType
  <2>2. Rest' = conn.inbox /\ Stream' = out \o conn.inbox
    BY <1>2, <1>7, <2>1, ConcatEmptySeq DEF Rest, Stream
  <2>3. Stream = Stream' \o conn.sending
    <3>0. out \in Seq(Piece) /\ conn.inbox \in Seq(Piece) /\ conn.sending \in Seq(Piece)
      BY <2>1
    <3>1. (out \o conn.inbox) \o conn.sending = out \o (conn.inbox \o conn.sending)
      BY ONLY <3>0, JoinsAssociate, Zenon
    <3> QED BY <2>2, <3>1 DEF Stream, Rest
  <2>4. Stream' \in Seq(Piece)
    BY <2>1, <2>2, JoinsType
  <2>5. ASSUME NEW left \in Leftovers, Stream = left PROVE Stream' \in Leftovers
    <3> DEFINE u == Stream'  v == conn.sending
    <3>1. u \in Seq(Piece) /\ v \in Seq(Piece) /\ u \o v = left
      BY <2>1, <2>3, <2>4, <2>5
    <3> HIDE DEF u, v
    <3>2. u \o v = <<>> \/ u \o v = <<LastByte(1)>>
      BY <3>1 DEF Leftovers
    <3>3. CASE u \o v = <<>>
      <4>1. u = <<>>
        BY <3>1, <3>3, FrontOf
      <4> QED BY <4>1 DEF u, Leftovers
    <3>4. CASE u \o v = <<LastByte(1)>>
      <4>1. Len(u) <= 1 /\ Len(u) \in Nat /\ \A i \in DOMAIN u : u[i] = <<LastByte(1)>>[i]
        <5>1. /\ Len(u \o v) = Len(u) + Len(v) /\ Len(u) <= Len(u \o v)
              /\ \A i \in DOMAIN u : (u \o v)[i] = u[i]
          BY <3>1, FrontOf, Zenon
        <5>2. Len(u \o v) = 1 /\ Len(u) \in Nat
          BY <3>1, <3>4
        <5>3. \A i \in DOMAIN u : u[i] = <<LastByte(1)>>[i]
          BY <3>4, <5>1, Zenon
        <5> QED BY <5>1, <5>2, <5>3
      <4>2. CASE Len(u) = 0
        BY <3>1, <4>2 DEF u, Leftovers
      <4>3. CASE Len(u) = 1
        <5>1. u[1] = LastByte(1)
          BY <3>1, <4>1, <4>3
        <5>2. u = <<LastByte(1)>>
          BY <3>1, <4>3, <5>1
        <5> QED BY <5>2 DEF u, Leftovers
      <4>4. \A n \in Nat : n <= 1 => n = 0 \/ n = 1
        OBVIOUS
      <4> QED BY <4>1, <4>2, <4>3, <4>4, Zenon
    <3> QED BY <3>2, <3>3, <3>4
  <2>6. ASSUME NEW left \in Leftovers, Coming(Asked, left)
        PROVE  /\ Coming(Asked, Stream)' /\ Stream' \in Leftovers
               /\ left = <<>> => Stream' = <<>>
    <3>1. conn.requests = <<Asked>> /\ Stream = left
      BY <1>7, <2>6 DEF Coming
    <3>2. Stream' \in Leftovers
      BY <2>5, <3>1
    <3>3. left = <<>> => Stream' = <<>>
      <4> DEFINE u == Stream'  v == conn.sending
      <4>1. u \in Seq(Piece) /\ v \in Seq(Piece) /\ u \o v = left
        BY <2>1, <2>3, <2>4, <3>1
      <4> HIDE DEF u, v
      <4>2. left = <<>> => u = <<>>
        BY <4>1, FrontOf, Zenon
      <4> QED BY <4>2 DEF u
    <3> QED BY <1>2, <1>4, <3>1, <3>2, <3>3 DEF Coming
  <2>7. FirstAnswer'
    <3>1. ~(pc = "step" /\ Fresh)
      BY <1>7 DEF ClientInv, FirstAnswer
    <3>2. ASSUME Fresh, pc = "read" PROVE Coming(Asked, <<>>)'
      <4>1. Coming(Asked, <<>>)
        BY <3>2 DEF ClientInv, FirstAnswer
      <4>2. Coming(Asked, Stream)' /\ Stream' = <<>>
        BY <2>6, <4>1, LeftoversType
      <4> QED BY <4>2 DEF Coming
    <3> QED BY <1>2, <1>4, <3>1, <3>2 DEF ClientInv, FirstAnswer
  <2>8. SecondAnswer'
    <3>1. Second => results # <<>> /\ results[Len(results)].test = "keepAlive"
      BY DEF ClientInv, SecondAnswer
    <3>2. ~(Second /\ FirstPassed /\ pc = "step")
      BY <1>7 DEF ClientInv, SecondAnswer
    <3>3. ASSUME Second, FirstPassed, pc = "read"
          PROVE  conn.nreq = 2 /\ \E left \in Leftovers : Coming(Asked, left)'
      <4>1. conn.nreq = 2 /\ \E left \in Leftovers : Coming(Asked, left)
        BY <3>3 DEF ClientInv, SecondAnswer
      <4>2. Coming(Asked, Stream)' /\ Stream' \in Leftovers
        BY <2>6, <4>1
      <4>3. PICK left \in Leftovers : left = Stream'
        BY <4>2
      <4>4. Coming(Asked, left)'
        BY <4>2, <4>3 DEF Coming
      <4> QED BY <4>1, <4>4
    <3> QED BY <1>2, <1>4, <3>1, <3>2, <3>3 DEF SecondAnswer
  <2> QED BY <1>4, <1>5, <2>7, <2>8 DEF ClientInv
<1> QED
  BY <1>6, <1>7

-----------------------------------------------------------------------------
(* The end of a step.                                                      *)

Result == [test : Test, passed : BOOLEAN, own : BOOLEAN, eof : BOOLEAN]
Own == out # <<>> /\ out[1].id = conn.nreq

(* What is reported, and what it does to the results.                      *)
LEMMA ReportIs ==
  ASSUME ClientInv, plan # <<>>, NEW p \in BOOLEAN, NEW eof \in BOOLEAN, Report(p, eof),
         up' = up, slow' = slow,
         up /\ ~slow => p,
         p /\ (Second => FirstPassed) => Own
  PROVE  /\ results' \in Seq(Result) /\ results' # <<>>
         /\ results'[Len(results')].test = Head(plan)
         /\ results'[Len(results')].passed <=> p
         /\ NoFalseAlarm' /\ PassMeansAnswered'
<1> DEFINE o == out # <<>> /\ out[1].id = conn.nreq
           r == [test |-> Head(plan), passed |-> p, eof |-> eof, own |-> o]
<1>1. TypeOK /\ results \in Seq(Result)
  BY DEF ClientInv, TypeOK, Result
<1>2. Head(plan) \in Test /\ o \in BOOLEAN
  BY <1>1, InATest
<1>3. results' = Append(results, r)
  BY DEF Report
<1>4. o <=> Own
  BY DEF Own
<1> HIDE DEF o
<1>5. r \in Result /\ r.test = Head(plan) /\ r.passed = p /\ r.own = o
  BY <1>2 DEF Result
<1> HIDE DEF r
<1>6. /\ results' \in Seq(Result) /\ results' # <<>> /\ Len(results') = Len(results) + 1
      /\ \A i \in 1..Len(results) : results'[i] = results[i]
      /\ results'[Len(results) + 1] = r
      /\ DOMAIN results' = 1..Len(results) + 1 /\ DOMAIN results = 1..Len(results)
      /\ Len(results) \in Nat
  BY <1>1, <1>3, <1>5, AppendProperties
<1>7. NoFalseAlarm'
  <2>1. SUFFICES ASSUME up, ~slow, NEW i \in DOMAIN results' PROVE results'[i].passed
    BY DEF NoFalseAlarm
  <2>2. CASE i = Len(results) + 1
    BY <1>5, <1>6, <2>1, <2>2
  <2>3. CASE i \in 1..Len(results)
    BY <1>6, <2>1, <2>3 DEF ClientInv, NoFalseAlarm
  <2> QED BY <1>6, <2>2, <2>3
<1>8. PassMeansAnswered'
  <2>1. SUFFICES ASSUME NEW i \in DOMAIN results', results'[i].passed,
                        /\ i > 1 /\ results'[i].test = "keepAlive"
                        /\ results'[i - 1].test = "keepAlive"
                        => results'[i - 1].passed
                 PROVE  results'[i].own
    BY DEF PassMeansAnswered
  <2>2. CASE i = Len(results) + 1
    <3>1. p /\ results'[i].test = Head(plan)
      BY <1>5, <1>6, <2>1, <2>2
    <3>2. ASSUME Second PROVE FirstPassed
      <4>1. /\ results # <<>> /\ results[Len(results)].test = "keepAlive"
            /\ Head(plan) = "keepAlive"
        BY <3>2 DEF ClientInv, SecondAnswer, Second
      <4>2. Len(results) > 0 /\ i - 1 = Len(results) /\ i - 1 \in 1..Len(results)
        BY <1>1, <1>6, <2>2, <4>1
      <4>3. results'[i - 1] = results[Len(results)]
        BY <1>6, <4>2
      <4>4. i > 1
        BY <1>6, <2>2, <4>2
      <4> QED BY <2>1, <3>1, <4>1, <4>3, <4>4 DEF FirstPassed
    <3> QED BY <1>4, <1>5, <1>6, <2>2, <3>1, <3>2
  <2>3. CASE i \in 1..Len(results)
    <3>1. results'[i] = results[i] /\ i \in DOMAIN results
      BY <1>6, <2>3
    <3>2. i > 1 => i - 1 \in 1..Len(results)
      BY <1>6, <2>3
    <3>3. i > 1 => results'[i - 1] = results[i - 1]
      BY <1>6, <3>2
    <3> QED BY <2>1, <3>1, <3>3 DEF ClientInv, PassMeansAnswered
  <2> QED BY <1>6, <2>2, <2>3
<1> QED
  BY <1>5, <1>6, <1>7, <1>8

(* The end of a test: the next one starts with a connection of its own.    *)
LEMMA EndTestKeeps ==
  ASSUME ClientInv, plan # <<>>, EndTest, out' \in Seq(Piece), up' = up, slow' = slow,
         results' \in Seq(Result), NoFalseAlarm', PassMeansAnswered'
  PROVE  ClientInv'
<1>1. TypeOK /\ plan \in Seq(Test) /\ Tail(plan) \in Seq(Test) /\ Len(plan) \in Nat
  BY InATest DEF ClientInv, TypeOK
<1>2. /\ plan' = Tail(plan) /\ step' = 1 /\ conn' = NewConn /\ pc' \in {"done", "step"}
  BY DEF EndTest
<1>3. plan' # <<>> => Step' = "connect" /\ Len(Steps[Head(plan')]) >= 1
  <2>1. SUFFICES ASSUME plan' # <<>> PROVE Step' = "connect" /\ Len(Steps[Head(plan')]) >= 1
    OBVIOUS
  <2>2. Head(plan') \in Test
    BY <1>1, <1>2, <2>1, HeadTailProperties
  <2>3. \A t \in Test : Steps[t][1] = "connect" /\ Len(Steps[t]) >= 1
    BY TestsAre
  <2> QED BY <1>2, <2>2, <2>3 DEF Step
<1>4. TypeOK'
  BY <1>1, <1>2, <1>3, NewConnIs DEF TypeOK, Result
<1>5. ~Fresh' /\ ~Second'
  BY <1>2 DEF Fresh, Second
<1>6. FirstAnswer' /\ SecondAnswer'
  BY <1>5 DEF FirstAnswer, SecondAnswer
<1>7. ReadsAnswer' /\ EofAfterAnswer'
  BY <1>2, <1>3 DEF ReadsAnswer, EofAfterAnswer
<1>8. Held'
  BY <1>2, NewConnIs DEF Held
<1>9. Prompt'
  BY <1>2, <1>3 DEF Prompt
<1> QED
  BY <1>4, <1>6, <1>7, <1>8, <1>9 DEF ClientInv

(* The next step of a test after a request.                                *)
LEMMA NextStepKeeps ==
  ASSUME ClientInv, plan # <<>>, Step \in Requesting, ~LastStep, NEW p \in BOOLEAN,
         NEW c \in ConnType, NextStep(c), out' \in Seq(Piece), up' = up, slow' = slow,
         results' \in Seq(Result), NoFalseAlarm', PassMeansAnswered',
         Head(plan) = "keepAlive" =>
           /\ results' # <<>> /\ results'[Len(results')].test = "keepAlive"
           /\ results'[Len(results')].passed <=> p,
         Head(plan) # "keepAlive" => p,
         "addTimerCallBack" \in c.owners, up => ~c.closed /\ ~c.rst /\ ~c.err,
         p /\ Fresh /\ Step = "get" =>
           c.nreq = 1 /\ c.requests = <<>> /\ c.inbox \o c.sending \in Leftovers,
         p /\ Step = "close" => out' # <<>> /\ out'[1].id = c.nreq,
         up /\ ~slow /\ Step # "expired" =>
           /\ c.requests = <<>> /\ c.inbox \o c.sending = <<>>
           /\ Step = "get" => c.state = "connected"
  PROVE  ClientInv'
<1>1. TypeOK
  BY DEF ClientInv
<1>2. step' = step + 1 /\ pc' = "step" /\ conn' = c /\ plan' = plan
  BY DEF NextStep
<1>3. /\ Following \in {"get", "eof", "sleep", "connect"}
      /\ Following \in {"get", "sleep"} => Step = "get"
      /\ Following = "eof" => Step = "close" /\ Fresh /\ Head(plan) = "close"
      /\ Following = "connect" <=> Step = "expired"
      /\ Head(plan) = "keepAlive" /\ step + 1 = 3 => Step = "get" /\ Fresh
  BY <1>1, AfterRequests
<1>4. Step' = Following
  BY <1>2 DEF Step, Following
<1>5. TypeOK'
  <2>1. step' \in Nat \ {0} /\ step' <= Len(Steps[Head(plan)])
    BY <1>1, <1>2, InATest DEF LastStep
  <2> QED BY <1>1, <1>2, <2>1 DEF TypeOK, Result
<1>6. ReadsAnswer'
  BY <1>2 DEF ReadsAnswer
<1>7. FirstAnswer'
  <2>1. step \in Nat /\ Step # "connect"
    BY <1>1, InATest DEF Requesting
  <2>2. step' - 1 = step
    BY <1>2, <2>1
  <2>3. ~Fresh'
    BY <1>2, <2>1, <2>2 DEF Fresh, Step
  <2> QED BY <2>3 DEF FirstAnswer
<1>8. SecondAnswer'
  <2>1. SUFFICES ASSUME Second' PROVE
          /\ results' # <<>> /\ results'[Len(results')].test = "keepAlive"
          /\ FirstPassed' => c.nreq = 1 /\ c.requests = <<>> /\ c.inbox \o c.sending \in Leftovers
    BY <1>2 DEF SecondAnswer, Rest
  <2>2. Head(plan) = "keepAlive" /\ step + 1 = 3
    BY <1>2, <2>1 DEF Second
  <2>3. FirstPassed' <=> p
    BY <2>2 DEF FirstPassed
  <2> QED BY <1>3, <2>2, <2>3
<1>9. EofAfterAnswer'
  BY <1>2, <1>3, <1>4 DEF EofAfterAnswer
<1>10. Held'
  BY <1>2 DEF Held
<1>11. Prompt'
  <2>1. SUFFICES ASSUME up, ~slow
                 PROVE  /\ Following # "connect" => Quiet'
                        /\ Following \in {"get", "close", "post", "again", "sleep"} =>
                             c.state = "connected"
                        /\ Following # "expired"
    BY <1>2, <1>4 DEF Prompt
  <2>2. Following # "connect" => c.requests = <<>> /\ c.inbox \o c.sending = <<>>
    BY <1>3, <2>1
  <2>3. Following \in {"get", "sleep"} => c.state = "connected"
    BY <1>3, <2>1
  <2> QED BY <1>2, <1>3, <2>2, <2>3 DEF Quiet, Rest
<1> QED
  BY <1>5, <1>6, <1>7, <1>8, <1>9, <1>10, <1>11 DEF ClientInv

(* The end of a step, whatever it came to.                                 *)
LEMMA EndedKeeps ==
  ASSUME ClientInv, plan # <<>>, Step \in Requesting \cup {"eof"},
         NEW p \in BOOLEAN, NEW eof \in BOOLEAN, NEW c \in ConnType, Ended(p, eof, c),
         out' \in Seq(Piece), up' = up, slow' = slow,
         up /\ ~slow => p,
         (LastStep \/ Head(plan) = "keepAlive") /\ p /\ (Second => FirstPassed) => Own,
         "addTimerCallBack" \in c.owners, up => ~c.closed /\ ~c.rst /\ ~c.err,
         p /\ Fresh /\ Step = "get" =>
           c.nreq = 1 /\ c.requests = <<>> /\ c.inbox \o c.sending \in Leftovers,
         p /\ Step = "close" => out' # <<>> /\ out'[1].id = c.nreq,
         up /\ ~slow /\ Step # "expired" =>
           /\ c.requests = <<>> /\ c.inbox \o c.sending = <<>>
           /\ Step = "get" => c.state = "connected"
  PROVE  ClientInv'
<1>1. TypeOK
  BY DEF ClientInv
<1>2. Step = "eof" => LastStep
  BY <1>1, AfterOthers
<1>3. CASE ~LastStep /\ Head(plan) = "keepAlive" /\ Report(p, eof) /\ NextStep(c)
  <2>1. p /\ (Second => FirstPassed) => Own
    BY <1>3
  <2>2. /\ results' \in Seq(Result) /\ results' # <<>>
        /\ results'[Len(results')].test = Head(plan)
        /\ results'[Len(results')].passed <=> p
        /\ NoFalseAlarm' /\ PassMeansAnswered'
    BY <1>3, <2>1, ReportIs, Zenon
  <2>3. Step \in Requesting
    BY <1>2, <1>3
  <2>4. /\ Head(plan) = "keepAlive" =>
             /\ results' # <<>> /\ results'[Len(results')].test = "keepAlive"
             /\ results'[Len(results')].passed <=> p
        /\ Head(plan) # "keepAlive" => p
    BY <1>3, <2>2, Zenon
  <2> QED BY <1>3, <2>2, <2>3, <2>4, NextStepKeeps, Zenon
<1>4. CASE ~LastStep /\ Head(plan) # "keepAlive" /\ p /\ UNCHANGED results /\ NextStep(c)
  <2>1. results' \in Seq(Result) /\ NoFalseAlarm' /\ PassMeansAnswered'
    BY <1>1, <1>4 DEF ClientInv, TypeOK, Result, NoFalseAlarm, PassMeansAnswered
  <2>2. Step \in Requesting
    BY <1>2, <1>4
  <2>3. /\ Head(plan) = "keepAlive" =>
             /\ results' # <<>> /\ results'[Len(results')].test = "keepAlive"
             /\ results'[Len(results')].passed <=> p
        /\ Head(plan) # "keepAlive" => p
    BY <1>4, Zenon
  <2> QED BY <1>4, <2>1, <2>2, <2>3, NextStepKeeps, Zenon
<1>5. CASE (LastStep \/ (Head(plan) # "keepAlive" /\ ~p)) /\ Report(p, eof) /\ EndTest
  <2>1. p /\ (Second => FirstPassed) => Own
    BY <1>5
  <2>2. /\ results' \in Seq(Result) /\ results' # <<>>
        /\ results'[Len(results')].test = Head(plan)
        /\ results'[Len(results')].passed <=> p
        /\ NoFalseAlarm' /\ PassMeansAnswered'
    BY <1>5, <2>1, ReportIs, Zenon
  <2> QED BY <1>5, <2>2, EndTestKeeps, Zenon
<1> QED
  BY <1>3, <1>4, <1>5 DEF Ended

-----------------------------------------------------------------------------
(* The steps of the client.                                                *)

(* A new connection for the next request.                                  *)
LEMMA ConnectKeeps ==
  ASSUME ClientInv, connectServer
  PROVE  ClientInv'
<1>1. TypeOK /\ pc = "step" /\ plan # <<>> /\ Step = "connect"
  BY DEF ClientInv, connectServer, At
<1>2. /\ ~LastStep /\ Following \in Requesting /\ Following # "expired"
      /\ ~(Head(plan) = "keepAlive" /\ step + 1 = 3)
  BY <1>1, AfterOthers
<1>3. UNCHANGED <<out, results, slow, up>>
  BY DEF connectServer
<1>4. NoFalseAlarm' /\ PassMeansAnswered'
  BY <1>3 DEF ClientInv, NoFalseAlarm, PassMeansAnswered
<1>5. CASE up
  <2>1. step' = step + 1 /\ pc' = "step" /\ conn' = NewConn /\ plan' = plan
    BY <1>5 DEF connectServer, NextStep
  <2>2. Step' = Following
    BY <2>1 DEF Step, Following
  <2>3. TypeOK'
    <3>1. step' \in Nat \ {0} /\ step' <= Len(Steps[Head(plan)])
      BY <1>1, <1>2, <2>1, InATest DEF LastStep
    <3> QED BY <1>1, <1>3, <2>1, <3>1, NewConnIs DEF TypeOK
  <2>4. Rest' = <<>>
    BY <2>1, NewConnIs DEF Rest
  <2>5. FirstAnswer'
    BY <2>1, <2>4, NewConnIs DEF FirstAnswer
  <2>6. SecondAnswer'
    BY <1>2, <2>1 DEF SecondAnswer, Second
  <2>7. ReadsAnswer' /\ EofAfterAnswer'
    BY <1>2, <2>1, <2>2 DEF ReadsAnswer, EofAfterAnswer, Requesting
  <2>8. Held' /\ Prompt'
    BY <1>2, <2>1, <2>2, <2>4, NewConnIs DEF Held, Prompt, Quiet
  <2> QED BY <1>4, <2>3, <2>5, <2>6, <2>7, <2>8 DEF ClientInv
<1>6. CASE ~up
  <2>1. pc' = "exited" /\ UNCHANGED <<plan, step, conn>>
    BY <1>6 DEF connectServer
  <2>2. TypeOK'
    BY <1>1, <1>3, <2>1 DEF TypeOK
  <2>3. FirstAnswer' /\ ReadsAnswer' /\ EofAfterAnswer' /\ Prompt'
    BY <2>1 DEF FirstAnswer, ReadsAnswer, EofAfterAnswer, Prompt
  <2>4. SecondAnswer'
    BY <1>3, <2>1 DEF ClientInv, SecondAnswer, Second
  <2>5. Held'
    BY <1>3, <2>1 DEF ClientInv, Held
  <2> QED BY <1>4, <2>2, <2>3, <2>4, <2>5 DEF ClientInv
<1> QED
  BY <1>5, <1>6

(* What a request does to the connection.                                  *)
LEMMA WrittenIs ==
  ASSUME TypeOK, Step \in Requesting, conn' \in Written(conn), plan' = plan, step' = step
  PROVE  /\ conn' \in ConnType /\ conn'.nreq = conn.nreq + 1
         /\ conn'.inbox = conn.inbox /\ conn'.sending = conn.sending
         /\ conn'.state = conn.state /\ conn'.owners = conn.owners
         /\ conn'.closed = conn.closed /\ conn'.err = conn.err
         /\ ~conn.closed => conn'.rst = conn.rst
         /\ Step' = Step
         /\ conn.requests = <<>> /\ ~conn.closed => conn'.requests = <<Asked'>>
         /\ conn.requests = <<>> /\ conn.closed => conn'.requests = <<>>
<1> DEFINE kind == IF Step \in {"close", "post"} THEN Step ELSE "get"
           r == [kind |-> kind, id |-> conn.nreq + 1]
<1>1. conn \in ConnType /\ conn.nreq \in Nat /\ conn.requests \in Seq(Req)
  BY DEF TypeOK, ConnType, Req
<1>2. Step' = Step
  BY DEF Step
<1>3. kind \in {"get", "close", "post"}
  OBVIOUS
<1>4. CASE conn.closed
  <2>1. PICK b \in BOOLEAN : conn' = [conn EXCEPT !.nreq = conn.nreq + 1, !.rst = b]
    BY <1>4 DEF Written
  <2> DEFINE n == conn.nreq + 1
  <2>2. n \in Nat /\ conn' = [conn EXCEPT !.nreq = n, !.rst = b]
    BY <1>1, <2>1
  <2> HIDE DEF n
  <2>3. /\ conn' \in ConnType /\ conn'.nreq = n /\ conn'.requests = conn.requests
        /\ conn'.inbox = conn.inbox /\ conn'.sending = conn.sending
        /\ conn'.state = conn.state /\ conn'.owners = conn.owners
        /\ conn'.closed = conn.closed /\ conn'.err = conn.err
    BY <1>1, <2>2 DEF ConnType
  <2> QED BY <1>2, <1>4, <2>3 DEF n
<1>5. CASE ~conn.closed
  <2>1. conn' = [conn EXCEPT !.nreq = conn.nreq + 1, !.requests = Append(conn.requests, r)]
    BY <1>5 DEF Written
  <2>2. Asked' = r
    <3>1. conn'.nreq = conn.nreq + 1
      BY <1>1, <2>1 DEF ConnType
    <3> QED BY <1>2, <3>1 DEF Asked
  <2>3. r \in Req
    BY <1>1, <1>3 DEF Req
  <2> HIDE DEF kind, r
  <2>4. Append(conn.requests, r) \in Seq(Req)
    BY <1>1, <2>3, AppendProperties
  <2>5. conn.requests = <<>> => Append(conn.requests, r) = <<r>>
    OBVIOUS
  <2> DEFINE n == conn.nreq + 1  q == Append(conn.requests, r)
  <2>6. n \in Nat /\ q \in Seq(Req) /\ conn' = [conn EXCEPT !.nreq = n, !.requests = q]
    BY <1>1, <2>1, <2>4
  <2> HIDE DEF n, q
  <2>8. /\ conn' \in ConnType /\ conn'.requests = q /\ conn'.nreq = n
        /\ conn'.inbox = conn.inbox /\ conn'.sending = conn.sending
        /\ conn'.state = conn.state /\ conn'.owners = conn.owners
        /\ conn'.closed = conn.closed /\ conn'.err = conn.err /\ conn'.rst = conn.rst
    BY <1>1, <2>6 DEF ConnType, Req
  <2> QED BY <1>2, <1>5, <2>2, <2>5, <2>8 DEF n, q
<1> QED
  BY <1>4, <1>5

(* A request is sent, and the reading of its answer begins.                *)
LEMMA WriteKeeps ==
  ASSUME ClientInv, writeAll
  PROVE  ClientInv'
<1>1. TypeOK /\ pc = "step" /\ plan # <<>> /\ Step \in Requesting
  BY DEF ClientInv, writeAll, At
<1>2. /\ conn' \in Written(conn) /\ pc' = "read" /\ out' = <<>>
      /\ UNCHANGED <<plan, step, results, slow, up>>
  BY DEF writeAll
<1>3. /\ conn' \in ConnType /\ conn'.nreq = conn.nreq + 1
      /\ conn'.inbox = conn.inbox /\ conn'.sending = conn.sending
      /\ conn'.state = conn.state /\ conn'.owners = conn.owners
      /\ conn'.closed = conn.closed /\ conn'.err = conn.err
      /\ ~conn.closed => conn'.rst = conn.rst
      /\ Step' = Step
      /\ conn.requests = <<>> /\ ~conn.closed => conn'.requests = <<Asked'>>
      /\ conn.requests = <<>> /\ conn.closed => conn'.requests = <<>>
  BY <1>1, <1>2, WrittenIs
<1>4. TypeOK'
  BY <1>1, <1>2, <1>3 DEF TypeOK
<1>5. Rest' = Rest /\ Stream' = Rest
  <2>1. Rest' = Rest
    BY <1>3 DEF Rest
  <2>2. Rest \in Seq(Piece)
    BY <1>1, StreamType
  <2> QED BY <1>2, <2>1, <2>2, ConcatEmptySeq DEF Stream
<1>6. NoFalseAlarm' /\ PassMeansAnswered'
  BY <1>2 DEF ClientInv, NoFalseAlarm, PassMeansAnswered
<1>7. (Fresh <=> Fresh') /\ (Second <=> Second') /\ (FirstPassed <=> FirstPassed')
  BY <1>2 DEF Fresh, Second, FirstPassed
<1>8. ASSUME conn.requests = <<>> PROVE Coming(Asked, Rest)'
  BY <1>3, <1>5, <1>8 DEF Coming
<1>9. FirstAnswer'
  <2>1. SUFFICES ASSUME Fresh PROVE conn'.nreq = 1 /\ Coming(Asked, <<>>)'
    BY <1>2, <1>7 DEF FirstAnswer
  <2>2. conn.nreq = 0 /\ conn.requests = <<>> /\ Rest = <<>>
    BY <1>1, <2>1 DEF ClientInv, FirstAnswer
  <2>3. Coming(Asked, Rest)' /\ Rest' = <<>>
    BY <1>5, <1>8, <2>2
  <2> QED BY <1>3, <2>2, <2>3 DEF Coming
<1>10. SecondAnswer'
  <2>1. SUFFICES ASSUME Second
                 PROVE  /\ results # <<>> /\ results[Len(results)].test = "keepAlive"
                        /\ FirstPassed => /\ conn'.nreq = 2
                                          /\ \E left \in Leftovers : Coming(Asked, left)'
    BY <1>2, <1>7 DEF SecondAnswer
  <2>2. /\ results # <<>> /\ results[Len(results)].test = "keepAlive"
        /\ FirstPassed => conn.nreq = 1 /\ conn.requests = <<>> /\ Rest \in Leftovers
    BY <1>1, <2>1 DEF ClientInv, SecondAnswer
  <2>3. ASSUME FirstPassed PROVE \E left \in Leftovers : Coming(Asked, left)'
    <3>1. conn.requests = <<>> /\ Rest \in Leftovers
      BY <2>2, <2>3
    <3>2. PICK left \in Leftovers : left = Rest'
      BY <1>5, <3>1
    <3>3. Coming(Asked, left)'
      BY <1>8, <3>1, <3>2 DEF Coming
    <3> QED BY <3>3
  <2> QED BY <1>3, <2>2, <2>3
<1>11. ReadsAnswer' /\ EofAfterAnswer'
  BY <1>1, <1>2, <1>3 DEF ReadsAnswer, EofAfterAnswer
<1>12. Held'
  BY <1>2, <1>3 DEF ClientInv, Held
<1>13. Prompt'
  <2>1. SUFFICES ASSUME up, ~slow
                 PROVE  /\ Step # "expired" => AllComing'
                        /\ Step = "expired" => Stream' = <<>> /\ conn'.state = "dead"
    BY <1>2, <1>3 DEF Prompt
  <2>2. /\ conn.requests = <<>> /\ Rest = <<>> /\ ~conn.closed
        /\ Step \in {"get", "close", "post", "again"} => conn.state = "connected"
        /\ Step = "expired" => conn.state = "dead"
    BY <1>1, <2>1 DEF ClientInv, Prompt, Quiet, Held, Requesting
  <2>3. conn'.requests = <<Asked'>> /\ Stream' = <<>>
    BY <1>3, <1>5, <2>2
  <2>4. Step # "expired" => conn'.state = "connected"
    BY <1>1, <1>3, <2>2 DEF Requesting
  <2> QED BY <1>3, <2>2, <2>3, <2>4 DEF AllComing
<1> QED
  BY <1>4, <1>6, <1>9, <1>10, <1>11, <1>12, <1>13 DEF ClientInv

(* A killed client asks for nothing more.                                  *)
LEMMA SigpipeKeeps ==
  ASSUME ClientInv, sigpipe
  PROVE  ClientInv'
<1>1. pc' = "killed" /\ UNCHANGED <<plan, step, conn, out, results, slow, up>>
  BY DEF sigpipe
<1>2. TypeOK'
  BY <1>1 DEF ClientInv, TypeOK
<1>3. FirstAnswer' /\ ReadsAnswer' /\ EofAfterAnswer' /\ Prompt'
  BY <1>1 DEF FirstAnswer, ReadsAnswer, EofAfterAnswer, Prompt
<1>4. SecondAnswer'
  BY <1>1 DEF ClientInv, SecondAnswer, Second
<1>5. Held' /\ NoFalseAlarm' /\ PassMeansAnswered'
  BY <1>1 DEF ClientInv, Held, NoFalseAlarm, PassMeansAnswered
<1> QED
  BY <1>2, <1>3, <1>4, <1>5 DEF ClientInv

(* A read moves pieces from the socket to what has been read.              *)
LEMMA ReadSomeKeeps ==
  ASSUME ClientInv, readSome
  PROVE  ClientInv'
<1>1. /\ TypeOK /\ pc = "read" /\ conn \in ConnType
      /\ conn.inbox \in Seq(Piece) /\ conn.sending \in Seq(Piece) /\ out \in Seq(Piece)
  BY StreamType DEF ClientInv, readSome, TypeOK
<1>2. UNCHANGED <<plan, step, pc, results, slow, up>>
  BY DEF readSome
<1>3. PICK n \in 1..Len(conn.inbox) :
        /\ out' = out \o SubSeq(conn.inbox, 1, n)
        /\ conn' = [conn EXCEPT !.inbox = SubSeq(@, n + 1, Len(@))]
  BY DEF readSome
<1> DEFINE a == SubSeq(conn.inbox, 1, n)  b == SubSeq(conn.inbox, n + 1, Len(conn.inbox))
<1>4. a \in Seq(Piece) /\ b \in Seq(Piece) /\ a \o b = conn.inbox
  <2>1. n \in 0..Len(conn.inbox)
    BY <1>1
  <2> QED BY <1>1, <2>1, CutInTwo
<1>5. out' = out \o a /\ conn' = [conn EXCEPT !.inbox = b]
  BY <1>3
<1> HIDE DEF a, b
<1>6. /\ conn' \in ConnType /\ conn'.inbox = b /\ conn'.sending = conn.sending
      /\ conn'.requests = conn.requests /\ conn'.nreq = conn.nreq /\ conn'.state = conn.state
      /\ conn'.owners = conn.owners /\ conn'.closed = conn.closed
      /\ conn'.rst = conn.rst /\ conn'.err = conn.err
  BY <1>1, <1>4, <1>5 DEF ConnType
<1>7. out' \in Seq(Piece)
  BY <1>1, <1>4, <1>5, JoinsType
<1>8. Stream' = Stream
  <2>0. /\ a \in Seq(Piece) /\ b \in Seq(Piece)
        /\ out \in Seq(Piece) /\ conn.sending \in Seq(Piece)
    BY <1>1, <1>4
  <2>1. b \o conn.sending \in Seq(Piece)
    BY ONLY <2>0, JoinsType, Zenon
  <2>2. (out \o a) \o (b \o conn.sending) = out \o (a \o (b \o conn.sending))
    BY ONLY <2>0, <2>1, JoinsAssociate, Zenon
  <2>3. (a \o b) \o conn.sending = a \o (b \o conn.sending)
    BY ONLY <2>0, JoinsAssociate, Zenon
  <2>4. a \o (b \o conn.sending) = conn.inbox \o conn.sending
    BY <1>4, <2>3
  <2> QED BY <1>5, <1>6, <2>2, <2>4 DEF Stream, Rest
<1>9. TypeOK'
  BY <1>1, <1>2, <1>6, <1>7 DEF TypeOK
<1>10. Step' = Step /\ Asked' = Asked
  <2>1. Step' = Step
    BY <1>2 DEF Step
  <2> QED BY <1>6, <2>1 DEF Asked
<1>11. (Fresh <=> Fresh') /\ (Second <=> Second') /\ (FirstPassed <=> FirstPassed')
  BY <1>2 DEF Fresh, Second, FirstPassed
<1>12. ASSUME NEW left PROVE Coming(Asked, left) <=> Coming(Asked, left)'
  BY <1>6, <1>8, <1>10 DEF Coming
<1>13. FirstAnswer' /\ SecondAnswer'
  BY <1>1, <1>2, <1>6, <1>10, <1>11, <1>12 DEF ClientInv, FirstAnswer, SecondAnswer
<1>14. ReadsAnswer' /\ EofAfterAnswer'
  BY <1>1, <1>2, <1>10 DEF ClientInv, ReadsAnswer, EofAfterAnswer
<1>15. Held'
  BY <1>2, <1>6 DEF ClientInv, Held
<1>16. Prompt'
  <2>1. AllComing => AllComing'
    BY <1>6, <1>8, <1>10 DEF AllComing
  <2> QED BY <1>1, <1>2, <1>6, <1>8, <1>10, <2>1 DEF ClientInv, Prompt
<1>17. NoFalseAlarm' /\ PassMeansAnswered'
  BY <1>2 DEF ClientInv, NoFalseAlarm, PassMeansAnswered
<1> QED
  BY <1>9, <1>13, <1>14, <1>15, <1>16, <1>17 DEF ClientInv

(* A write or a read that reports the reset: only after the server is gone.*)
LEMMA FailKeeps ==
  ASSUME ClientInv, writeFails \/ readFails
  PROVE  ClientInv'
<1>1. TypeOK /\ conn \in ConnType /\ plan # <<>> /\ Step \in Requesting /\ conn.err
  BY DEF ClientInv, TypeOK, ReadsAnswer, writeFails, readFails, At, FailedRead
<1>2. /\ out' \in Seq(Piece) /\ up' = up /\ slow' = slow
      /\ Ended(Step = "expired", FALSE, [conn EXCEPT !.err = FALSE])
  <2>1. CASE writeFails
    <3>1. out' = <<>> /\ UNCHANGED <<slow, up>>
      BY <2>1 DEF writeFails
    <3>2. Ended(Step = "expired", FALSE, [conn EXCEPT !.err = FALSE])
      BY <2>1, Zenon DEF writeFails
    <3> QED BY <3>1, <3>2, Zenon, EmptySeq
  <2>2. CASE readFails
    <3>1. UNCHANGED <<out, slow, up>> /\ out \in Seq(Piece)
      BY <1>1, <2>2 DEF readFails, TypeOK
    <3>2. Ended(Step = "expired", FALSE, [conn EXCEPT !.err = FALSE])
      BY <2>2, Zenon DEF readFails
    <3> QED BY <3>1, <3>2, Zenon
  <2> QED BY <2>1, <2>2
<1>3. ~up /\ "addTimerCallBack" \in conn.owners
  BY <1>1 DEF ClientInv, Held
<1> DEFINE c == [conn EXCEPT !.err = FALSE]
           p == Step = "expired"
<1>4. c \in ConnType /\ "addTimerCallBack" \in c.owners
  BY <1>1, <1>3 DEF ConnType
<1>5. p \in BOOLEAN /\ (p <=> Step = "expired")
  OBVIOUS
<1>6. Ended(p, FALSE, c)
  BY <1>2
<1> HIDE DEF c, p
<1>7. (LastStep \/ Head(plan) = "keepAlive") /\ p /\ (Second => FirstPassed) => Own
  BY <1>1, <1>5, AfterRequests
<1>8. /\ up /\ ~slow => p
      /\ up => ~c.closed /\ ~c.rst /\ ~c.err
      /\ up /\ ~slow /\ Step # "expired" =>
           /\ c.requests = <<>> /\ c.inbox \o c.sending = <<>>
           /\ Step = "get" => c.state = "connected"
  BY <1>3, Zenon
<1>9. p /\ Fresh /\ Step = "get" =>
        c.nreq = 1 /\ c.requests = <<>> /\ c.inbox \o c.sending \in Leftovers
  BY <1>5
<1>10. p /\ Step = "close" => out' # <<>> /\ out'[1].id = c.nreq
  BY <1>5
<1>11. Step \in Requesting \cup {"eof"} /\ FALSE \in BOOLEAN
  BY <1>1
<1> QED
  BY <1>1, <1>2, <1>4, <1>5, <1>6, <1>7, <1>8, <1>9, <1>10, <1>11, EndedKeeps, Zenon

(* The extra read: a prompt server has sent nothing more.                  *)
LEMMA ExtraReadKeeps ==
  ASSUME ClientInv, extraRead
  PROVE  ClientInv'
<1>1. TypeOK /\ conn \in ConnType /\ plan # <<>> /\ Step = "eof" /\ pc = "step"
  BY DEF ClientInv, TypeOK, extraRead, At
<1>2. out' \in Seq(Piece) /\ up' = up /\ slow' = slow
  BY <1>1 DEF extraRead, TypeOK
<1>3. PICK p \in BOOLEAN, eof \in BOOLEAN :
        Ended(p, eof, conn) /\ (~p => conn.inbox # <<>> \/ FailedRead)
  <2> DEFINE e == Eof(conn)
  <2>1. e \in BOOLEAN
    BY <1>1 DEF Eof, ConnType
  <2>2. \/ (conn.inbox # <<>> \/ FailedRead) /\ Ended(FALSE, FALSE, conn)
        \/ Ended(TRUE, e, conn)
    BY DEF extraRead
  <2> HIDE DEF e
  <2>3. CASE (conn.inbox # <<>> \/ FailedRead) /\ Ended(FALSE, FALSE, conn)
    BY <2>3, Zenon
  <2>4. CASE Ended(TRUE, e, conn)
    BY <2>1, <2>4, Zenon
  <2> QED BY <2>2, <2>3, <2>4
<1>4. /\ "addTimerCallBack" \in conn.owners /\ (up => ~conn.closed /\ ~conn.rst /\ ~conn.err)
      /\ Own
  BY <1>1 DEF ClientInv, Held, EofAfterAnswer, Own
<1>5. up /\ ~slow => conn.requests = <<>> /\ Rest = <<>>
  BY <1>1 DEF ClientInv, Prompt, Quiet
<1>6. up /\ ~slow => p
  <2>1. SUFFICES ASSUME up, ~slow PROVE conn.inbox = <<>> /\ ~FailedRead
    BY <1>3
  <2>2. conn.inbox = <<>>
    BY <1>1, <1>5, <2>1, StreamType, FrontOf DEF Rest
  <2> QED BY <1>4, <2>1, <2>2 DEF FailedRead
<1>7. up /\ ~slow => conn.requests = <<>> /\ conn.inbox \o conn.sending = <<>>
  BY <1>5 DEF Rest
<1> QED
  BY <1>1, <1>2, <1>3, <1>4, <1>6, <1>7, EndedKeeps

(* After the sleep a prompt server has let the idle connection die.        *)
LEMMA SleepKeeps ==
  ASSUME ClientInv, sleep
  PROVE  ClientInv'
<1>1. TypeOK /\ conn \in ConnType /\ plan # <<>> /\ Step = "sleep" /\ pc = "step"
  BY DEF ClientInv, TypeOK, sleep, At
<1>2. UNCHANGED <<out, results, slow, up>>
  BY DEF sleep
<1>3. ~LastStep /\ Following = "expired" /\ Head(plan) = "idle"
  BY <1>1, AfterOthers
<1>4. PICK c \in {conn, handleDead(conn)} :
        /\ NextStep(c)
        /\ c = conn => slow \/ ~up \/ conn.state # "connected"
  <2>1. CASE up /\ conn.state = "connected" /\ NextStep(handleDead(conn))
    <3>1. handleDead(conn) # conn
      BY <1>1, <2>1, HandleDeadIs
    <3> QED BY <2>1, <3>1
  <2>2. CASE (slow \/ ~up \/ conn.state # "connected") /\ NextStep(conn)
    BY <2>2
  <2> QED BY <2>1, <2>2 DEF sleep
<1>5. /\ c \in ConnType /\ c.requests = conn.requests /\ c.sending = conn.sending
      /\ c.inbox = conn.inbox /\ c.rst = conn.rst /\ c.err = conn.err
      /\ "addTimerCallBack" \in conn.owners => "addTimerCallBack" \in c.owners
      /\ "addTimerCallBack" \in conn.owners /\ c.closed => conn.closed
      /\ c # conn => c.state = "dead"
  BY <1>1, HandleDeadIs
<1>6. step' = step + 1 /\ pc' = "step" /\ conn' = c /\ plan' = plan
  BY <1>4 DEF NextStep
<1>7. Step' = "expired"
  BY <1>3, <1>6 DEF Step, Following
<1>8. TypeOK'
  <2>1. step' \in Nat \ {0} /\ step' <= Len(Steps[Head(plan)])
    BY <1>1, <1>3, <1>6, InATest DEF LastStep
  <2> QED BY <1>1, <1>2, <1>5, <1>6, <2>1 DEF TypeOK
<1>9. ReadsAnswer' /\ EofAfterAnswer'
  BY <1>6, <1>7 DEF ReadsAnswer, EofAfterAnswer
<1>10. FirstAnswer' /\ SecondAnswer'
  <2>1. step' - 1 = step
    BY <1>1, <1>6 DEF TypeOK
  <2>2. ~Fresh' /\ ~Second'
    BY <1>1, <1>3, <1>6, <2>1 DEF Fresh, Second, Step
  <2> QED BY <2>2 DEF FirstAnswer, SecondAnswer
<1>11. Held'
  BY <1>2, <1>5, <1>6 DEF ClientInv, Held
<1>12. Prompt'
  <2>1. SUFFICES ASSUME up, ~slow PROVE Quiet' /\ conn'.state = "dead"
    BY <1>2, <1>6, <1>7 DEF Prompt
  <2>2. Quiet /\ conn.state = "connected"
    BY <1>1, <2>1 DEF ClientInv, Prompt
  <2> QED BY <1>4, <1>5, <1>6, <2>1, <2>2 DEF Quiet, Rest
<1>13. NoFalseAlarm' /\ PassMeansAnswered'
  BY <1>2 DEF ClientInv, NoFalseAlarm, PassMeansAnswered
<1> QED
  BY <1>8, <1>9, <1>10, <1>11, <1>12, <1>13 DEF ClientInv

-----------------------------------------------------------------------------
(* What the client makes of what it has read.                              *)

Verdict(read) ==
  CASE Step = "get"     -> read /\ expectStatus("200") /\ expectBody
    [] Step = "close"   -> read /\ expectStatus("200") /\ expectClose
    [] Step = "post"    -> read /\ expectStatus("400")
    [] Step = "expired" -> ~read
    [] Step = "again"   -> read /\ expectStatus("200")

(* The verdict of Judge, step by step.                                     *)
LEMMA VerdictIs ==
  ASSUME Step \in Requesting, NEW read \in BOOLEAN
  PROVE  /\ Verdict(read) \in BOOLEAN
         /\ Judge(read) <=> Ended(Verdict(read), FALSE, conn)
         /\ Step = "get" => (Verdict(read) <=> read /\ expectStatus("200") /\ expectBody)
         /\ Step = "close" => (Verdict(read) <=> read /\ expectStatus("200") /\ expectClose)
         /\ Step = "post" => (Verdict(read) <=> read /\ expectStatus("400"))
         /\ Step = "expired" => (Verdict(read) <=> ~read)
         /\ Step = "again" => (Verdict(read) <=> read /\ expectStatus("200"))
<1> DEFINE a == read /\ expectStatus("200") /\ expectBody
           b == read /\ expectStatus("200") /\ expectClose
           c == read /\ expectStatus("400")
           d == read /\ expectStatus("200")
<1>1. a \in BOOLEAN /\ b \in BOOLEAN /\ c \in BOOLEAN /\ d \in BOOLEAN
  OBVIOUS
<1>2. Judge(read) <=> Ended(Verdict(read), FALSE, conn)
  BY Zenon DEF Judge, Verdict
<1>3. Verdict(read) = CASE Step = "get" -> a [] Step = "close" -> b [] Step = "post" -> c
                        [] Step = "expired" -> ~read [] Step = "again" -> d
  BY Zenon DEF Verdict
<1> HIDE DEF a, b, c, d
<1>4. /\ Step = "get" => Verdict(read) = a
      /\ Step = "close" => Verdict(read) = b
      /\ Step = "post" => Verdict(read) = c
      /\ Step = "expired" => Verdict(read) = ~read
      /\ Step = "again" => Verdict(read) = d
  BY <1>3
<1>5. \/ Step = "get" \/ Step = "close" \/ Step = "post" \/ Step = "expired" \/ Step = "again"
  BY DEF Requesting
<1>6. Verdict(read) \in BOOLEAN
  BY <1>1, <1>4, <1>5
<1> QED
  BY <1>2, <1>4, <1>6 DEF a, b, c, d

(* A status line that is accepted is that of the answer to the request, if *)
(* the earlier requests of the connection have passed.                     *)
LEMMA AcceptedIsAnswer ==
  ASSUME ClientInv, plan # <<>>, pc = "read", Fresh \/ (Second /\ FirstPassed),
         NEW code, expectStatus(code)
  PROVE  Own /\ Stream = Response(Asked) /\ conn.requests = <<>>
<1>1. TypeOK /\ out \in Seq(Piece) /\ Rest \in Seq(Piece) /\ Asked \in Req /\ Asked.id = conn.nreq
  <2>1. TypeOK
    BY DEF ClientInv
  <2> QED BY <2>1, StreamType, AskedType DEF Req, Asked
<1>2. PICK left \in Leftovers : Coming(Asked, left)
  BY LeftoversType DEF ClientInv, FirstAnswer, SecondAnswer
<1>3. Stream = left \/ Stream = left \o Response(Asked)
  BY <1>2 DEF Coming
<1>4. left = <<>> /\ out # <<>> /\ Stream = Response(Asked) /\ out[1].id = Asked.id
  <2>1. out \o Rest = left \/ out \o Rest = left \o Response(Asked)
    BY <1>3 DEF Stream
  <2>2. left = <<>> /\ out # <<>> /\ out \o Rest = Response(Asked) /\ out[1].id = Asked.id
    BY <1>1, <2>1, StatusIsFirst, Zenon
  <2> QED BY <2>2 DEF Stream
<1>5. conn.requests = <<>>
  <2>1. Stream # <<>>
    BY <1>1, <1>4, FrontOf DEF Stream
  <2> QED BY <1>2, <1>4, <2>1 DEF Coming
<1> QED
  BY <1>1, <1>4, <1>5 DEF Own

(* A body that is accepted lacks its last byte at most.                    *)
LEMMA BodyLeaves ==
  ASSUME NEW r \in Req, r.kind = "get", r.id = 1, out \in Seq(Piece), NEW t \in Seq(Piece),
         out \o t = Response(r), expectBody
  PROVE  t \in Leftovers
<1> DEFINE R == Response(r)
<1>1. /\ R \in Seq(Piece) /\ Len(R) = 4 /\ DOMAIN R = 1..4
      /\ R[1].part = "status" /\ R[2].part = "head" /\ R[3].part = "text" /\ R[4].part = "last"
      /\ R[4].id = 1 /\ R[4].code = "200" /\ R[4].keepAlive = TRUE /\ R[4] \in Piece
  <2>1. /\ R \in Seq(Piece)
        /\ Len(R) = IF r.kind = "post" THEN 2 ELSE 4
        /\ \A i \in DOMAIN R :
             /\ R[i].id = r.id
             /\ R[i].code = IF r.kind = "post" THEN "400" ELSE "200"
             /\ R[i].keepAlive = (r.kind = "get")
        /\ R[1].part = "status" /\ R[2].part = "head"
        /\ r.kind # "post" => R[3].part = "text" /\ R[4].part = "last"
    <3>1. r \in [kind : {"get", "close", "post"}, id : Nat]
      BY DEF Req
    <3> QED BY <3>1, ResponseIs, Zenon
  <2> HIDE DEF R
  <2>2. Len(R) = 4
    BY <2>1
  <2>3. DOMAIN R = 1..4 /\ 4 \in DOMAIN R /\ R[4] \in Piece
    <3>1. DOMAIN R = 1..Len(R) /\ \A i \in 1..Len(R) : R[i] \in Piece
      BY <2>1, LenProperties, ElementOfSeq, Zenon
    <3> QED BY <2>2, <3>1
  <2> QED BY <2>1, <2>2, <2>3
<1> HIDE DEF R
<1>2. R[4] = LastByte(1)
  BY <1>1 DEF LastByte, Piece
<1>3. /\ Len(R) = Len(out) + Len(t) /\ Len(out) \in Nat /\ Len(t) \in Nat
      /\ \A i \in DOMAIN out : out[i] = R[i]
      /\ DOMAIN out = 1..Len(out)
  <2>1. R = out \o t
    BY DEF R
  <2>2. Len(R) = Len(out) + Len(t) /\ \A i \in DOMAIN out : out[i] = R[i]
    BY <2>1, FrontOf, Zenon
  <2> QED BY <2>2, LenProperties
<1>4. Len(out) >= 3
  <2>1. PICK i \in DOMAIN out : out[i].part = "text"
    BY DEF expectBody
  <2>2. i \in 1..4 /\ R[i].part = "text"
    BY <1>1, <1>3, <2>1
  <2>3. i # 1 /\ i # 2
    BY <1>1, <2>2
  <2>4. i \in 1..Len(out)
    BY <1>3, <2>1
  <2>5. i >= 3
    BY <2>2, <2>3
  <2> QED BY <1>3, <2>4, <2>5
<1>5. Len(t) = 0 \/ (Len(t) = 1 /\ Len(out) = 3)
  <2>1. 4 = Len(out) + Len(t)
    BY ONLY <1>1, <1>3
  <2>2. \A a, b \in Nat : 4 = a + b /\ a >= 3 => b = 0 \/ (b = 1 /\ a = 3)
    OBVIOUS
  <2> QED BY <1>3, <1>4, <2>1, <2>2, Zenon
<1>6. CASE Len(t) = 0
  BY <1>6 DEF Leftovers
<1>7. CASE Len(t) = 1 /\ Len(out) = 3
  <2>1. R[4] = t[1]
    <3>1. \A i \in 1..Len(out) + Len(t) :
            (out \o t)[i] = IF i <= Len(out) THEN out[i] ELSE t[i - Len(out)]
      BY ConcatProperties, Zenon
    <3>2. R = out \o t /\ 4 \in 1..Len(out) + Len(t) /\ ~(4 <= Len(out)) /\ 4 - Len(out) = 1
      BY <1>7 DEF R
    <3> QED BY <3>1, <3>2
  <2>2. t = <<t[1]>>
    BY <1>7
  <2> QED BY <1>2, <2>1, <2>2 DEF Leftovers
<1> QED
  BY <1>5, <1>6, <1>7

(* A step is judged by what has been read: a prompt server gives no cause  *)
(* for an alarm, and a pass is about the request.                          *)
LEMMA JudgeKeeps ==
  ASSUME ClientInv, pc = "read", NEW read \in BOOLEAN, Judge(read),
         UNCHANGED <<out, slow, up>>,
         up /\ ~slow /\ Step = "expired" => ~read,
         up /\ ~slow /\ Step # "expired" =>
           /\ read /\ out = Response(Asked) /\ Rest = <<>> /\ conn.requests = <<>>
           /\ Asked.kind = "get" => conn.state = "connected"
  PROVE  ClientInv'
<1>1. /\ TypeOK /\ plan # <<>> /\ Step \in Requesting /\ conn \in ConnType
      /\ out \in Seq(Piece) /\ Rest \in Seq(Piece) /\ Asked \in Req
  <2>1. TypeOK /\ plan # <<>> /\ Step \in Requesting
    BY DEF ClientInv, ReadsAnswer
  <2> QED BY <2>1, StreamType, AskedType DEF TypeOK, Req
<1> DEFINE p == Verdict(read)
<1>2. /\ p \in BOOLEAN
      /\ Judge(read) <=> Ended(p, FALSE, conn)
      /\ Step = "get" => (p <=> read /\ expectStatus("200") /\ expectBody)
      /\ Step = "close" => (p <=> read /\ expectStatus("200") /\ expectClose)
      /\ Step = "post" => (p <=> read /\ expectStatus("400"))
      /\ Step = "expired" => (p <=> ~read)
      /\ Step = "again" => (p <=> read /\ expectStatus("200"))
  BY <1>1, VerdictIs, Zenon
<1> HIDE DEF p
<1>3. Asked.kind = IF Step \in {"close", "post"} THEN Step ELSE "get"
  BY DEF Asked
<1>4. out' \in Seq(Piece) /\ up' = up /\ slow' = slow /\ Ended(p, FALSE, conn)
  BY <1>1, <1>2
<1>5. up /\ ~slow => p
  <2>1. SUFFICES ASSUME up, ~slow PROVE p
    OBVIOUS
  <2>2. CASE Step = "expired"
    BY <1>2, <2>1, <2>2
  <2>3. CASE Step # "expired"
    <3>1. read /\ out = Response(Asked)
      BY <2>1, <2>3
    <3>2. /\ Asked.kind # "post" => expectStatus("200") /\ expectBody
          /\ Asked.kind = "close" => expectClose
          /\ Asked.kind = "post" => expectStatus("400")
      BY <1>1, <3>1, WholePasses, Zenon
    <3> QED BY <1>1, <1>2, <1>3, <2>3, <3>1, <3>2 DEF Requesting
  <2> QED BY <2>2, <2>3
<1>6. p /\ Step # "expired" => \E code : expectStatus(code)
  BY <1>1, <1>2 DEF Requesting
<1>7. (LastStep \/ Head(plan) = "keepAlive") /\ p /\ (Second => FirstPassed) => Own
  <2>1. SUFFICES ASSUME LastStep \/ Head(plan) = "keepAlive", p, Second => FirstPassed
                 PROVE  Own
    OBVIOUS
  <2>2. (Fresh \/ Second) /\ Step # "expired"
    BY <1>1, <2>1, AfterRequests
  <2>3. PICK code : expectStatus(code)
    BY <1>6, <2>1, <2>2
  <2> QED BY <1>1, <2>1, <2>2, <2>3, AcceptedIsAnswer
<1>8. p /\ Fresh /\ Step = "get" =>
        conn.nreq = 1 /\ conn.requests = <<>> /\ conn.inbox \o conn.sending \in Leftovers
  <2>1. SUFFICES ASSUME p, Fresh, Step = "get"
                 PROVE  conn.nreq = 1 /\ conn.requests = <<>> /\ Rest \in Leftovers
    BY DEF Rest
  <2>2. expectStatus("200") /\ expectBody
    BY <1>2, <2>1
  <2>3. Stream = Response(Asked) /\ conn.requests = <<>>
    BY <1>1, <2>1, <2>2, AcceptedIsAnswer
  <2>4. conn.nreq = 1
    BY <2>1 DEF ClientInv, FirstAnswer
  <2>5. Asked.kind = "get" /\ Asked.id = 1
    BY <1>3, <2>1, <2>4 DEF Asked
  <2>6. out \o Rest = Response(Asked)
    BY <2>3 DEF Stream
  <2>7. Rest \in Leftovers
    BY <1>1, <2>2, <2>5, <2>6, BodyLeaves, Zenon
  <2> QED BY <2>3, <2>4, <2>7
<1>9. p /\ Step = "close" => out' # <<>> /\ out'[1].id = conn.nreq
  <2>1. SUFFICES ASSUME p, Step = "close" PROVE Own
    BY DEF Own
  <2>2. Fresh
    BY <1>1, <2>1, Positions, FreshIs
  <2>3. expectStatus("200")
    BY <1>2, <2>1
  <2> QED BY <1>1, <2>2, <2>3, AcceptedIsAnswer
<1>10. up /\ ~slow /\ Step # "expired" =>
         /\ conn.requests = <<>> /\ conn.inbox \o conn.sending = <<>>
         /\ Step = "get" => conn.state = "connected"
  BY <1>3 DEF Rest
<1>11. "addTimerCallBack" \in conn.owners /\ (up => ~conn.closed /\ ~conn.rst /\ ~conn.err)
  BY DEF ClientInv, Held
<1>12. Step \in Requesting \cup {"eof"} /\ FALSE \in BOOLEAN
  BY <1>1
<1> QED
  BY <1>1, <1>2, <1>4, <1>5, <1>7, <1>8, <1>9, <1>10, <1>11, <1>12, EndedKeeps, Zenon

(* readHttpResponse has the whole response.                                *)
LEMMA ReadDoneKeeps ==
  ASSUME ClientInv, readDone
  PROVE  ClientInv'
<1>1. pc = "read" /\ ~NeedsMore(out) /\ Judge(TRUE) /\ UNCHANGED <<out, slow, up>>
  BY Zenon DEF readDone
<1>2. /\ TypeOK /\ plan # <<>> /\ out \in Seq(Piece) /\ Rest \in Seq(Piece) /\ Asked \in Req
      /\ out # <<>>
  <2>1. TypeOK /\ plan # <<>> /\ out # <<>>
    BY <1>1, NothingIsNotEnough DEF ClientInv, ReadsAnswer
  <2> QED BY <2>1, StreamType, AskedType DEF Req
<1>3. Stream # <<>>
  BY <1>2, FrontOf DEF Stream
<1>4. up /\ ~slow /\ Step = "expired" => ~TRUE
  BY <1>1, <1>2, <1>3 DEF ClientInv, Prompt
<1>5. up /\ ~slow /\ Step # "expired" =>
        /\ TRUE /\ out = Response(Asked) /\ Rest = <<>> /\ conn.requests = <<>>
        /\ Asked.kind = "get" => conn.state = "connected"
  <2>1. SUFFICES ASSUME up, ~slow, Step # "expired"
                 PROVE  /\ out = Response(Asked) /\ Rest = <<>> /\ conn.requests = <<>>
                        /\ Asked.kind = "get" => conn.state = "connected"
    OBVIOUS
  <2>2. /\ conn.requests = <<>> /\ Stream = Response(Asked)
        /\ Asked.kind = "get" => conn.state = "connected"
    BY <1>1, <1>2, <1>3, <2>1 DEF ClientInv, Prompt, AllComing
  <2>3. out \o Rest = Response(Asked)
    BY <2>2 DEF Stream
  <2>4. Rest = <<>>
    BY <1>1, <1>2, <2>3, WholeResponse, Zenon
  <2>5. out \o <<>> = out
    BY <1>2, ConcatEmptySeq
  <2> QED BY <2>2, <2>3, <2>4, <2>5
<1>6. TRUE \in BOOLEAN
  OBVIOUS
<1> QED
  BY <1>1, <1>4, <1>5, <1>6, JudgeKeeps, Zenon

(* Nothing more comes: with a prompt server only after the idle timeout.   *)
LEMMA ReadZeroKeeps ==
  ASSUME ClientInv, readZero
  PROVE  ClientInv'
<1> DEFINE read == out # <<>>
<1>1. read \in BOOLEAN
  OBVIOUS
<1>2. /\ pc = "read" /\ NeedsMore(out) /\ ZeroRead /\ Judge(read)
      /\ UNCHANGED <<out, slow, up>>
  BY Zenon DEF readZero
<1>3. /\ TypeOK /\ plan # <<>> /\ out \in Seq(Piece) /\ Rest \in Seq(Piece) /\ Asked \in Req
      /\ conn.sending \in Seq(Piece)
  <2>1. TypeOK /\ plan # <<>>
    BY <1>2 DEF ClientInv, ReadsAnswer
  <2> QED BY <2>1, StreamType, AskedType DEF Req
<1>4. up /\ ~slow /\ Step = "expired" => ~read
  <2>1. SUFFICES ASSUME up, ~slow, Step = "expired" PROVE ~read
    OBVIOUS
  <2>2. out \o Rest = <<>>
    BY <1>2, <1>3, <2>1 DEF ClientInv, Prompt, Stream
  <2> QED BY <1>3, <2>2, FrontOf
<1>5. ~(up /\ ~slow /\ Step # "expired")
  <2>1. SUFFICES ASSUME up, ~slow, Step # "expired" PROVE FALSE
    OBVIOUS
  <2>2. AllComing
    BY <1>2, <1>3, <2>1 DEF ClientInv, Prompt
  <2>3. ~Eof(conn)
    BY <2>1 DEF ClientInv, Held, Eof
  <2>4. /\ conn.inbox = <<>> /\ conn.sending = <<>>
        /\ conn.state = "dead" \/ conn.requests = <<>>
    BY <1>2, <2>1, <2>3 DEF ZeroRead, TimedOut
  <2>5. conn.requests = <<>> /\ Stream = Response(Asked)
    <3>1. ~(conn.requests = <<Asked>> /\ conn.state = "connected")
      BY <2>4
    <3> QED BY <2>2, <3>1 DEF AllComing
  <2>6. Rest = <<>>
    BY <2>4 DEF Rest
  <2>7. out \o Rest = Response(Asked)
    BY <2>5 DEF Stream
  <2>8. NeedsMore(out) <=> Rest # <<>>
    BY <1>3, <2>7, WholeResponse, Zenon
  <2> QED BY <1>2, <2>6, <2>8
<1> HIDE DEF read
<1> QED
  BY <1>1, <1>2, <1>4, <1>5, JudgeKeeps, Zenon

-----------------------------------------------------------------------------
(* The specification.                                                      *)

(* The client begins with the first test of its plan.                      *)
LEMMA ClientInit ==
  ASSUME Init
  PROVE  ClientInv
<1>1. /\ plan \in Seq(Test) /\ step = 1 /\ pc = "step" /\ conn = NewConn /\ out = <<>>
      /\ results = <<>> /\ slow \in BOOLEAN /\ up = TRUE
  BY ClientAssumption DEF Init
<1>2. plan # <<>> => Step = "connect" /\ Len(Steps[Head(plan)]) >= 1
  <2>1. SUFFICES ASSUME plan # <<>> PROVE Step = "connect" /\ Len(Steps[Head(plan)]) >= 1
    OBVIOUS
  <2>2. Head(plan) \in Test
    BY <1>1, <2>1, HeadTailProperties
  <2>3. \A t \in Test : Steps[t][1] = "connect" /\ Len(Steps[t]) >= 1
    BY TestsAre
  <2> QED BY <1>1, <2>2, <2>3 DEF Step
<1>3. TypeOK
  <2>1. <<>> \in Seq(Piece) /\ <<>> \in Seq([test : Test, passed : BOOLEAN, own : BOOLEAN, eof : BOOLEAN])
    BY EmptySeq, Zenon
  <2> QED BY <1>1, <1>2, <2>1, NewConnIs DEF TypeOK
<1>4. ReadsAnswer /\ EofAfterAnswer
  BY <1>1, <1>2 DEF ReadsAnswer, EofAfterAnswer
<1>5. FirstAnswer /\ SecondAnswer
  BY <1>1 DEF FirstAnswer, SecondAnswer, Fresh, Second
<1>6. Held /\ Prompt
  BY <1>1, <1>2, NewConnIs DEF Held, Prompt
<1>7. NoFalseAlarm /\ PassMeansAnswered
  BY <1>1 DEF NoFalseAlarm, PassMeansAnswered
<1> QED
  BY <1>3, <1>4, <1>5, <1>6, <1>7 DEF ClientInv

(* A step that changes nothing keeps everything.                           *)
LEMMA ClientStutters ==
  ASSUME ClientInv, UNCHANGED vars
  PROVE  ClientInv'
<1>1. UNCHANGED <<plan, step, pc, conn, out, results, slow, up>>
  BY DEF vars
<1>2. UNCHANGED <<plan, step, pc, out, results, slow>> /\ conn' = conn /\ up' = up
  BY <1>1
<1>3. TypeOK /\ conn' \in ConnType /\ up' \in BOOLEAN /\ (up' => up)
  BY <1>2 DEF ClientInv, TypeOK
<1>4. Rest' = Rest /\ conn'.nreq = conn.nreq /\ conn'.requests = conn.requests
  BY <1>2 DEF Rest
<1>5. /\ TypeOK' /\ ReadsAnswer' /\ EofAfterAnswer' /\ NoFalseAlarm' /\ PassMeansAnswered'
      /\ (Fresh <=> Fresh') /\ (Second <=> Second') /\ (FirstPassed <=> FirstPassed')
      /\ Step' = Step /\ Asked' = Asked
  BY <1>2, <1>3, <1>4, ServerTypes, Zenon
<1>6. FirstAnswer' /\ SecondAnswer' /\ Stream' = Stream
  BY <1>2, <1>3, <1>4, SameStream, Zenon
<1>7. Held'
  BY <1>2 DEF ClientInv, Held
<1>8. Prompt'
  <2>1. (AllComing <=> AllComing') /\ (Quiet <=> Quiet')
    BY <1>2, <1>4, <1>5, <1>6 DEF AllComing, Quiet
  <2> QED BY <1>2, <1>5, <1>6, <2>1 DEF ClientInv, Prompt
<1> QED
  BY <1>5, <1>6, <1>7, <1>8 DEF ClientInv

(* Every step of the client, the server and the network keeps it.          *)
LEMMA ClientInvNext ==
  ASSUME ClientInv, [Next]_vars
  PROVE  ClientInv'
<1>1. CASE Main
  <2>1. \/ connectServer \/ writeAll \/ writeFails \/ sigpipe \/ readSome \/ readDone
        \/ readZero \/ readFails \/ extraRead \/ sleep
    BY <1>1, Zenon DEF Main, Reading
  <2>2. writeFails \/ readFails => ClientInv'
    BY FailKeeps, Zenon
  <2> QED BY <2>1, <2>2, ConnectKeeps, WriteKeeps, SigpipeKeeps, ReadSomeKeeps,
             ReadDoneKeeps, ReadZeroKeeps, ExtraReadKeeps, SleepKeeps, Zenon
<1>2. CASE Server
  <2>1. onHttp \/ checkEmptyReadAfterEof \/ Deliver
    BY <1>2, Zenon DEF Server
  <2> QED BY <2>1, OnHttpKeeps, CheckKeeps, DeliverKeeps, Zenon
<1>3. CASE ServerExits
  BY <1>3, ExitKeeps, Zenon
<1>4. CASE UNCHANGED vars
  BY <1>4, ClientStutters, Zenon
<1> QED
  BY <1>1, <1>2, <1>3, <1>4, Zenon DEF Next

(* The inductive invariant holds throughout.                               *)
LEMMA ClientInvHolds ==
  Spec => []ClientInv
<1>1. Init => ClientInv
  BY ClientInit
<1>2. ClientInv /\ [Next]_vars => ClientInv'
  BY ClientInvNext
<1> QED
  BY <1>1, <1>2, PTL DEF Spec

(* Every variable of the client, and both ends of its connection, keep     *)
(* their types, whatever is read and whenever the server exits.            *)
THEOREM TypeCorrect ==
  Spec => []TypeOK
<1>1. ClientInv => TypeOK
  BY DEF ClientInv
<1> QED
  BY <1>1, ClientInvHolds, PTL

(* No false alarm, for any plan of tests: against a server that stays up   *)
(* and answers in time, every test reports a pass, however readWithTimeout *)
(* gets the responses in pieces.                                           *)
THEOREM SoundServerPasses ==
  Spec => []NoFalseAlarm
<1>1. ClientInv => NoFalseAlarm
  BY DEF ClientInv
<1> QED
  BY <1>1, ClientInvHolds, PTL

(* A pass is about the request just sent, for any plan of tests, a server  *)
(* that is slow or exits included: what readHttpResponse left of an        *)
(* earlier answer never passes the checks as the next one.                 *)
THEOREM PassIsAboutTheRequest ==
  Spec => []PassMeansAnswered
<1>1. ClientInv => PassMeansAnswered
  BY DEF ClientInv
<1> QED
  BY <1>1, ClientInvHolds, PTL
=============================================================================
