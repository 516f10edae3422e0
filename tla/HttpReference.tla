---------------------------- MODULE HttpReference ----------------------------
(* What the parser should answer to a stream seen as a whole, and the      *)
(* comparison with what HttpProcess answers to its pieces.  A line of the  *)
(* stream s is named by the position e of its CR.                          *)
EXTENDS HttpProcess, FiniteSetsExt, SequencesExt

LineEnds(s) == {e \in 1..Len(s) - 1 : s[e] = CR /\ s[e + 1] = LF}
Before(s, e) == {i \in LineEnds(s) : i < e}
Text(s, e) == SubSeq(s, IF Before(s, e) = {} THEN 1 ELSE Max(Before(s, e)) + 2, e - 1)

(* An empty line ends a request, well or not: the lines of the request     *)
(* under way at e are those since the last empty one.                      *)
Earlier(s, e) ==
  {i \in Before(s, e) : \A j \in Before(s, e) : i <= j => Text(s, j) # <<>>}

(* Of the lines of a request the last one that says something of the       *)
(* connection decides, the request line among them; and so does the last   *)
(* Content-Length.                                                         *)
AboutConnection(line) == line \in {<<"G">>, <<"O">>} \/ HeaderKind(line) \in {"k", "c"}
AboutLength(line) == HeaderKind(line) \in {"z", "n", "v"}
KeepsAlive(s, lines) ==
  LET about == {i \in lines : AboutConnection(Text(s, i))}
  IN  Text(s, Max(about)) = <<"G">> \/ HeaderKind(Text(s, Max(about))) = "k"
HasBody(s, lines) ==
  LET about == {i \in lines : AboutLength(Text(s, i))}
  IN  about # {} /\ HeaderKind(Text(s, Max(about))) \in {"n", "v"}

(* The lines behind which nothing is parsed any more.  A Content-Length    *)
(* too large to be represented is above zero like any other.               *)
TooLong(s, e) ==
  \/ Len(Text(s, e)) > MaxLineLen
  \/ Text(s, e) # <<>> /\ Cardinality(Earlier(s, e)) > MaxHeaders
IsHeader(s, e) == Earlier(s, e) # {} /\ Text(s, e) # <<>>
Stops(s, e) ==
  \/ TooLong(s, e)
  \/ Earlier(s, e) = {} /\ Text(s, e) \notin {<<"G">>, <<"O">>}
  \/ IsHeader(s, e) /\ HeaderKind(Text(s, e)) = "bad"
  \/ Text(s, e) = <<>> /\ HasBody(s, Earlier(s, e))

(* The lines that are answered, and how.                                   *)
Answered(s) ==
  {e \in LineEnds(s) :
     /\ Text(s, e) = <<>> \/ Stops(s, e)
     /\ \A i \in Before(s, e) : ~Stops(s, i)}
Outcome(s, e) ==
  IF TooLong(s, e) THEN [kind |-> "kLineTooLong"]
  ELSE IF Stops(s, e) THEN [kind |-> "kError"]
  ELSE [kind |-> "kComplete", keepAlive |-> KeepsAlive(s, Earlier(s, e))]

Nth(s, n) == CHOOSE e \in Answered(s) : Cardinality({i \in Answered(s) : i <= e}) = n
Expected ==
  [s \in Streams |-> [n \in 1..Cardinality(Answered(s)) |-> Outcome(s, Nth(s, n))]]

(* However the stream is cut into reads, parse returns the results of the  *)
(* whole stream in order: nothing is taken twice, nothing is carried over  *)
(* from one request to the next, and once all of it has been read from a   *)
(* connection still open nothing is left to return.  A process that a      *)
(* number too large has ended owes its 400 and returns no more.            *)
SameForAnyCut ==
  /\ IsPrefix(results, Expected[stream])
  /\ pc = "wait" /\ reading /\ nread = Len(stream) => results = Expected[stream]
=============================================================================
