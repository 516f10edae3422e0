------------------------------- MODULE Client -------------------------------
(***************************************************************************)
(* The acceptance client, src/client/main.cpp, in conversation with the    *)
(* server: four tests on connections of their own (runAll), or the idle    *)
(* test (-t).  The client blocks in write and read and waits for input     *)
(* with a timeout; it has one connection at a time.                        *)
(*                                                                         *)
(* Of the server only the connection's end matters here: it answers, half  *)
(* closes after a last answer, is taken out of the map, and its socket is  *)
(* closed when the last shared_ptr to it goes away.                        *)
(***************************************************************************)
EXTENDS Integers, Sequences

CONSTANTS Plans,   \* what main may be asked to run: sequences of tests
          Speeds,  \* whether answers may be slower than the client's timeouts
          Faults   \* what may go wrong: a subset of {"exit"}

(* A test is a sequence of steps on one connection: requests with what is  *)
(* expected of the answer, the extra read after a last answer, the wait    *)
(* for the idle timeout, a request that should fail after it.              *)
testSingleGet        == <<"connect", "get">>
testKeepAliveTwoGets == <<"connect", "get", "get">>
testConnectionClose  == <<"connect", "close", "eof">>
testPost400          == <<"connect", "post">>
testIdleTimeout      ==
  <<"connect", "get", "get", "get", "sleep", "expired", "connect", "again">>

Steps == [single |-> testSingleGet, keepAlive |-> testKeepAliveTwoGets,
          close |-> testConnectionClose, post |-> testPost400, idle |-> testIdleTimeout]
Test == DOMAIN Steps
Requesting == {"get", "close", "post", "expired", "again"}
runAll == <<"single", "keepAlive", "close", "post">>

ASSUME ClientAssumption ==
  Plans \subseteq Seq(Test) /\ Speeds \subseteq BOOLEAN /\ Faults \subseteq {"exit"}

VARIABLES
  plan,     \* the tests still to be run, the current one first
  step,     \* the step of the current test
  pc,       \* where the client is
  conn,     \* its connection, both ends
  out,      \* readHttpResponse: what has been read of a response
  results,  \* the TestCaseResults
  slow,     \* answers may come after the client has stopped waiting
  up        \* the server process is running

vars == <<plan, step, pc, conn, out, results, slow, up>>

(* The pieces of a response that a read can bring by themselves: the       *)
(* status line, the rest of the head up to the empty line, the text of the *)
(* body that the tests look for, and its last byte.                        *)
Part == {"status", "head", "text", "last"}
Code == {"200", "400"}
Piece == [part : Part, id : Nat, code : Code, keepAlive : BOOLEAN]
Owner == {"Connections", "timer", "addTimerCallBack"}

ConnType ==
  [state    : {"connected", "peerClose", "dead"},
   owners   : SUBSET Owner,      \* who holds a shared_ptr to the Connection
   requests : Seq([kind : {"get", "close", "post"}, id : Nat]),
   sending  : Seq(Piece),        \* written by the server, not arrived yet
   inbox    : Seq(Piece),        \* arrived, not read by the client
   nreq     : Nat,
   closed   : BOOLEAN,           \* the server's descriptor is closed
   rst      : BOOLEAN, err : BOOLEAN]   \* reset, and not reported yet

TypeOK ==
  /\ plan \in Seq(Test)
  /\ step \in Nat \ {0} /\ (plan # <<>> => step <= Len(Steps[Head(plan)]))
  /\ pc \in {"step", "read", "done", "exited", "killed"}
  /\ conn \in ConnType
  /\ out \in Seq(Piece)
  /\ results \in Seq([test : Test, passed : BOOLEAN, own : BOOLEAN, eof : BOOLEAN])
  /\ slow \in BOOLEAN /\ up \in BOOLEAN

(* SubReactor::addConnection: the map, the timer and the connection's own  *)
(* addTimerCallBack hold the connection.                                   *)
NewConn ==
  [state |-> "connected", owners |-> Owner, requests |-> <<>>, sending |-> <<>>,
   inbox |-> <<>>, nreq |-> 0, closed |-> FALSE, rst |-> FALSE, err |-> FALSE]

Init ==
  /\ plan \in Plans /\ step = 1 /\ pc = "step"
  /\ conn = NewConn /\ out = <<>> /\ results = <<>>
  /\ slow \in Speeds /\ up = TRUE

-----------------------------------------------------------------------------
(* The server and the network.                                             *)

(* handleDead deletes the timer and its task erases the map entry; the     *)
(* socket is closed by the destructor.                                     *)
handleDead(k) ==
  LET owners == k.owners \ {"timer", "Connections"}
  IN  [k EXCEPT !.state = "dead", !.owners = owners, !.closed = owners = {}]

Response(r) ==
  LET code == IF r.kind = "post" THEN "400" ELSE "200"
      parts == IF code = "200" THEN <<"status", "head", "text", "last">> ELSE <<"status", "head">>
  IN  [i \in DOMAIN parts |-> [part |-> parts[i], id |-> r.id, code |-> code,
                               keepAlive |-> r.kind = "get"]]

OnConn(k) == conn' = k /\ UNCHANGED <<plan, step, pc, out, results, slow, up>>

onHttp ==
  /\ up /\ conn.state = "connected" /\ conn.requests # <<>>
  /\ LET r == Head(conn.requests)
     IN  OnConn([conn EXCEPT !.requests = Tail(@), !.sending = @ \o Response(r),
                             !.state = IF r.kind = "get" THEN @ ELSE "peerClose"])

checkEmptyReadAfterEof ==
  /\ up /\ conn.state = "peerClose"
  /\ OnConn(handleDead(conn))

Deliver ==
  /\ conn.sending # <<>>
  /\ \E n \in 1..Len(conn.sending) :
       OnConn([conn EXCEPT !.inbox = @ \o SubSeq(conn.sending, 1, n),
                           !.sending = SubSeq(@, n + 1, Len(@))])

(* The server process ends; a socket with unread input is reset.           *)
ServerExits ==
  /\ "exit" \in Faults /\ up /\ up' = FALSE
  /\ LET lost == conn.requests # <<>>
     IN  conn' = [conn EXCEPT !.closed = TRUE, !.rst = lost, !.err = lost,
                              !.sending = IF lost THEN <<>> ELSE @]
  /\ UNCHANGED <<plan, step, pc, out, results, slow>>

-----------------------------------------------------------------------------
(* The client.  An operator named f_X is f with the mistake X.             *)

Step == Steps[Head(plan)][step]
At(kinds) == pc = "step" /\ plan # <<>> /\ Step \in kinds
LastStep == step = Len(Steps[Head(plan)])

NextStep(c) == step' = step + 1 /\ pc' = "step" /\ conn' = c /\ UNCHANGED plan

(* The end of a step.  A test reports once, at its first failure or at its *)
(* end, and closes its descriptor; the keep-alive test reports every       *)
(* request and goes on after a failure.                                    *)
Report(passed, eof) ==
  results' = Append(results, [test |-> Head(plan), passed |-> passed, eof |-> eof,
                              own |-> out # <<>> /\ out[1].id = conn.nreq])
EndTest ==
  /\ plan' = Tail(plan) /\ step' = 1 /\ conn' = NewConn
  /\ pc' = IF Len(plan) = 1 THEN "done" ELSE "step"
Ended(passed, eof, c) ==
  \/ ~LastStep /\ Head(plan) = "keepAlive"
       /\ Report(passed, eof) /\ NextStep(c)
  \/ ~LastStep /\ Head(plan) # "keepAlive" /\ passed
       /\ UNCHANGED results /\ NextStep(c)
  \/ (LastStep \/ (Head(plan) # "keepAlive" /\ ~passed))
       /\ Report(passed, eof) /\ EndTest

connectServer ==
  /\ At({"connect"})
  /\ IF up THEN NextStep(NewConn)
     ELSE pc' = "exited" /\ UNCHANGED <<plan, step, conn>>
  /\ UNCHANGED <<out, results, slow, up>>

(* A write to a reset socket fails once with its pending error and then    *)
(* raises SIGPIPE; after an EOF it raises SIGPIPE at once.                 *)
Eof(k) == k.closed /\ k.sending = <<>> /\ ~k.err
BrokenPipe == conn.rst /\ ~conn.err
Written(k) ==
  LET kind == IF Step \in {"close", "post"} THEN Step ELSE "get"
  IN  IF k.closed
      THEN {[k EXCEPT !.nreq = @ + 1, !.rst = r] : r \in BOOLEAN}
      ELSE {[k EXCEPT !.nreq = @ + 1, !.requests = Append(@, [kind |-> kind, id |-> k.nreq + 1])]}

writeAll_KeepsOut ==
  /\ At(Requesting) /\ ~conn.rst
  /\ conn' \in Written(conn) /\ pc' = "read"
  /\ UNCHANGED <<plan, step, out, results, slow, up>>
writeAll ==
  /\ At(Requesting) /\ ~conn.rst
  /\ conn' \in Written(conn) /\ pc' = "read" /\ out' = <<>>
  /\ UNCHANGED <<plan, step, results, slow, up>>

(* writeAll returns false: a failure, which the expired step is after.     *)
writeFails ==
  /\ At(Requesting) /\ conn.rst /\ conn.err
  /\ out' = <<>>
  /\ Ended(Step = "expired", FALSE, [conn EXCEPT !.err = FALSE])
  /\ UNCHANGED <<slow, up>>

sigpipe ==
  /\ At(Requesting) /\ BrokenPipe
  /\ pc' = "killed"
  /\ UNCHANGED <<plan, step, conn, out, results, slow, up>>

(* readWithTimeout: what a read can bring.  A timeout and an EOF are both  *)
(* 0 to its callers.                                                       *)
TimedOut ==
  /\ conn.inbox = <<>> /\ ~conn.err /\ ~Eof(conn)
  /\ \/ slow
     \/ conn.sending = <<>> /\ conn.state # "peerClose"
          /\ (conn.state = "dead" \/ conn.requests = <<>> \/ ~up)
ZeroRead == conn.inbox = <<>> /\ (Eof(conn) \/ TimedOut)
FailedRead == conn.inbox = <<>> /\ conn.err

(* readHttpResponse: the head up to its empty line, then the length it     *)
(* announces; the body of a 200 is two pieces.                             *)
HeadEnds(s) == {i \in DOMAIN s : s[i].part = "head"}
NeedsMore_HeadOnly(s) == HeadEnds(s) = {}
NeedsMore(s) ==
  IF HeadEnds(s) = {} THEN TRUE
  ELSE LET i == CHOOSE i \in HeadEnds(s) : \A j \in HeadEnds(s) : i <= j
       IN  Len(s) - i < (IF s[i].code = "200" THEN 2 ELSE 0)

readSome ==
  /\ pc = "read" /\ NeedsMore(out) /\ conn.inbox # <<>>
  /\ \E n \in 1..Len(conn.inbox) :
       /\ out' = out \o SubSeq(conn.inbox, 1, n)
       /\ conn' = [conn EXCEPT !.inbox = SubSeq(@, n + 1, Len(@))]
  /\ UNCHANGED <<plan, step, pc, results, slow, up>>

(* The status line is looked for at the start and behind a line end, the   *)
(* other texts anywhere.                                                   *)
expectStatus(code) ==
  \E i \in DOMAIN out : /\ out[i].part = "status" /\ out[i].code = code
                        /\ \A h \in DOMAIN out : h = i - 1 => out[h].part = "head"
expectBody == \E i \in DOMAIN out : out[i].part = "text"
expectClose == \E i \in DOMAIN out : out[i].part = "head" /\ ~out[i].keepAlive

Judge(read) ==
  Ended(CASE Step = "get"     -> read /\ expectStatus("200") /\ expectBody
          [] Step = "close"   -> read /\ expectStatus("200") /\ expectClose
          [] Step = "post"    -> read /\ expectStatus("400")
          [] Step = "expired" -> ~read
          [] Step = "again"   -> read /\ expectStatus("200"), FALSE, conn)

readDone ==
  /\ pc = "read" /\ ~NeedsMore(out)
  /\ Judge(TRUE)
  /\ UNCHANGED <<out, slow, up>>

(* Nothing more comes: what there is counts as the response.               *)
readZero_TriesAgain ==
  /\ pc = "read" /\ NeedsMore(out) /\ ZeroRead
  /\ out # <<>> /\ Judge(TRUE)
  /\ UNCHANGED <<out, slow, up>>
readZero ==
  /\ pc = "read" /\ NeedsMore(out) /\ ZeroRead
  /\ Judge(out # <<>>)
  /\ UNCHANGED <<out, slow, up>>

readFails ==
  /\ pc = "read" /\ NeedsMore(out) /\ FailedRead
  /\ Ended(Step = "expired", FALSE, [conn EXCEPT !.err = FALSE])
  /\ UNCHANGED <<out, slow, up>>

(* The extra read after a last answer: 0 passes.                           *)
extraRead ==
  /\ At({"eof"})
  /\ \/ (conn.inbox # <<>> \/ FailedRead) /\ Ended(FALSE, FALSE, conn)
     \/ ZeroRead /\ Ended(TRUE, Eof(conn), conn)
  /\ UNCHANGED <<out, slow, up>>

(* 65 s: the idle timer of a prompt server has fired after 60.             *)
sleep ==
  /\ At({"sleep"})
  /\ \/ up /\ conn.state = "connected" /\ NextStep(handleDead(conn))
     \/ (slow \/ ~up \/ conn.state # "connected") /\ NextStep(conn)
  /\ UNCHANGED <<out, results, slow, up>>

-----------------------------------------------------------------------------
Reading == readSome \/ readDone \/ readZero \/ readFails
Main == connectServer \/ writeAll \/ writeFails \/ sigpipe \/ Reading \/ extraRead \/ sleep
Server == onHttp \/ checkEmptyReadAfterEof \/ Deliver

Next == Main \/ Server \/ ServerExits

Spec == Init /\ [][Next]_vars

(* The client and the server run, and what is sent arrives.                *)
FairSpec == Spec /\ WF_vars(Main) /\ WF_vars(Server)

-----------------------------------------------------------------------------
(* No false alarm: against a server that stays up and answers in time      *)
(* every test passes, however its responses are cut into reads.            *)
NoFalseAlarm == up /\ ~slow => \A i \in DOMAIN results : results[i].passed

(* A pass is about the request just sent: with a slow server, too, the     *)
(* rest of an earlier response is not taken for the answer, as long as no  *)
(* earlier request of the connection has failed.                           *)
PassMeansAnswered ==
  \A i \in DOMAIN results :
    /\ results[i].passed
    /\ i > 1 /\ results[i].test = "keepAlive" /\ results[i - 1].test = "keepAlive"
         => results[i - 1].passed
    => results[i].own

(* The client comes to an end, with its results or without, whatever the   *)
(* server does: every read is bounded by a timeout.                        *)
ClientEnds == <>(pc \in {"done", "exited", "killed"})

(* The test of "Connection: close" passes only if the server has closed    *)
(* the connection and the extra read has met the EOF.                      *)
PassMeansEof ==
  \A i \in DOMAIN results : results[i].test = "close" /\ results[i].passed => results[i].eof
=============================================================================
