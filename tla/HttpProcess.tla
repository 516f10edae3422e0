----------------------------- MODULE HttpProcess -----------------------------
(***************************************************************************)
(* HttpProcess.cpp between the two buffers of a connection: the bytes a    *)
(* client sends reach readBuffer cut up in any way, parse takes them line  *)
(* by line, and the responses leave through writeBuffer in pieces of any   *)
(* size.  The connection is as in Connection.cpp with the pool off; what   *)
(* else may happen to it is in module Connection.                          *)
(*                                                                         *)
(* A letter stands for the text of a whole line, a longer line being that  *)
(* text and more:                                                          *)
(*   G, O  GET / HTTP/1.1 and GET / HTTP/1.0                               *)
(*   k, c  Connection: keep-alive and Connection: close                    *)
(*   z, n, v  Content-Length: 0, a positive one, one too large for stoul   *)
(*   h  any other header;  x  text without a colon                         *)
(***************************************************************************)
EXTENDS Buffer

CONSTANTS Streams,      \* what the client may send
          MaxLineLen,   \* kMaxLineLen, 8192
          MaxHeaders    \* header lines of a request, 100

Letter == {"G", "O", "k", "c", "z", "n", "v", "h", "x"}
ResponseByte == {"+", "-", "!"}

ASSUME HttpAssumption ==
  /\ Letter \cup ResponseByte \subseteq Byte
  /\ Streams \subseteq Seq(Byte)
  /\ MaxLineLen \in Nat \ {0} /\ MaxHeaders \in Nat

VARIABLES
  stream,       \* all the client sends
  arrived,      \* bytes of it in the socket or taken from there
  nread,        \* bytes of it read into readBuffer
  taken,        \* bytes of it consumed by the parser
  readBuffer, writeBuffer,
  parser,       \* the members of HttpProcess and current_.keepAlive
  reading,      \* the channel is registered for reading
  pc,           \* where the I/O thread is
  results,      \* history: what parse has returned, kNeedMore apart
  put,          \* history: bytes put in writeBuffer
  wire          \* history: bytes written to the socket

vars == <<stream, arrived, nread, taken, readBuffer, writeBuffer, parser, reading,
          pc, results, put, wire>>

Result == [kind : {"kComplete"}, keepAlive : BOOLEAN]
            \cup [kind : {"kError", "kLineTooLong"}]

NewRequest == [state |-> "kExpectRequestLine", keepAlive |-> TRUE, body |-> FALSE,
               headerLineCount |-> 0]

TypeOK ==
  /\ stream \in Seq(Byte)
  /\ arrived \in 0..Len(stream) /\ nread \in 0..arrived /\ taken \in 0..nread
  /\ readBuffer \in BufferType /\ writeBuffer \in BufferType
  /\ parser \in [state : {"kExpectRequestLine", "kExpectHeaders"}, keepAlive : BOOLEAN,
                 body : BOOLEAN,     \* contentLength_ > 0
                 headerLineCount : 0..MaxHeaders + 1]
  /\ reading \in BOOLEAN
  /\ pc \in {"wait", "read", "parse", "closed", "terminated"}
  /\ results \in Seq(Result)
  /\ put \in Seq(Byte) /\ wire \in Seq(Byte)

Init ==
  /\ stream \in Streams
  /\ arrived = 0 /\ nread = 0 /\ taken = 0
  /\ readBuffer = NewBuffer /\ writeBuffer = NewBuffer
  /\ parser = NewRequest
  /\ reading = TRUE /\ pc = "wait"
  /\ results = <<>> /\ put = <<>> /\ wire = <<>>

-----------------------------------------------------------------------------
(* The socket.  Bytes that arrive while the thread parses make no          *)
(* difference until it reads again.                                        *)
Arrive ==
  /\ pc \in {"wait", "read"} /\ arrived < Len(stream)
  /\ \E n \in arrived + 1..Len(stream) : arrived' = n
  /\ UNCHANGED <<stream, nread, taken, readBuffer, writeBuffer, parser, reading, pc, results, put, wire>>

-----------------------------------------------------------------------------
(* Connection::readFromSck: readv until the socket is empty.               *)
handleReadCallBack ==
  /\ pc = "wait" /\ reading /\ nread < arrived
  /\ pc' = "read"
  /\ UNCHANGED <<stream, arrived, nread, taken, readBuffer, writeBuffer, parser, reading, results, put, wire>>

readv ==
  /\ pc = "read" /\ nread < arrived
  /\ LET n == IF arrived - nread <= MaxRead(readBuffer) THEN arrived - nread ELSE MaxRead(readBuffer)
     IN  /\ readBuffer' = sckToBuffer(readBuffer, SubSeq(stream, nread + 1, nread + n))
         /\ nread' = nread + n
  /\ UNCHANGED <<stream, arrived, taken, writeBuffer, parser, reading, pc, results, put, wire>>

readDone ==
  /\ pc = "read" /\ nread = arrived
  /\ pc' = "parse"
  /\ UNCHANGED <<stream, arrived, nread, taken, readBuffer, writeBuffer, parser, reading, results, put, wire>>

-----------------------------------------------------------------------------
(* HttpProcess::parse, one line at a time.                                 *)

crlf == findCRLF(readBuffer)
Line == SubSeq(peek(readBuffer), 1, crlf)

needMore ==
  /\ pc = "parse" /\ crlf = npos
  /\ pc' = "wait"
  /\ UNCHANGED <<stream, arrived, nread, taken, readBuffer, writeBuffer, parser, reading, results, put, wire>>

Return(r) == results' = Append(results, r)

(* kLineTooLong: nothing more is read from this client.                    *)
LineTooLong ==
  /\ Return([kind |-> "kLineTooLong"])
  /\ reading' = FALSE
  /\ pc' = IF readable(writeBuffer) = 0 THEN "closed" ELSE "wait"
  /\ UNCHANGED <<writeBuffer, put, wire>>
lineTooLong ==
  /\ pc = "parse" /\ crlf # npos /\ crlf > MaxLineLen
  /\ LineTooLong
  /\ UNCHANGED <<stream, arrived, nread, taken, readBuffer, parser>>

(* retrieveLine takes the line and its CRLF.                               *)
retrieveLine ==
  /\ pc = "parse" /\ crlf # npos /\ crlf <= MaxLineLen
  /\ readBuffer' = retrieve(readBuffer, crlf + 2)
  /\ taken' = taken + crlf + 2

(* Connection::sendHttpOnLoop: response s enters writeBuffer and the       *)
(* socket takes n bytes of what is there.                                  *)
Send(s, keepAlive, more) ==
  LET b == dataIn(writeBuffer, s)
  IN  /\ put' = put \o s
      /\ \E n \in 0..readable(b) :
           /\ wire' = wire \o SubSeq(peek(b), 1, n)
           /\ writeBuffer' = retrieve(b, n)
           /\ reading' = (reading /\ keepAlive)
           /\ pc' = IF ~reading' /\ n = readable(b) THEN "closed" ELSE more

(* kError: the 400 is the last response.                                   *)
badRequest ==
  /\ Return([kind |-> "kError"])
  /\ parser' = NewRequest
  /\ Send(<<"!">>, FALSE, "wait")

requestLine ==
  /\ parser.state = "kExpectRequestLine"
  /\ retrieveLine
  /\ IF Line \in {<<"G">>, <<"O">>}
     THEN /\ parser' = [parser EXCEPT !.state = "kExpectHeaders", !.body = FALSE,
                          !.headerLineCount = 0, !.keepAlive = @ /\ Line # <<"O">>]
          /\ UNCHANGED <<writeBuffer, reading, pc, results, put, wire>>
     ELSE badRequest
  /\ UNCHANGED <<stream, arrived, nread>>

(* What parseHeaderLine makes of a line: the value of Connection is        *)
(* searched for its word, that of Content-Length must be all digits.  No   *)
(* one catches what stoul throws of a number too large: the process ends.  *)
HeaderKind(line) ==
  IF line[1] \in {"k", "c"} THEN line[1]
  ELSE IF line[1] \in {"z", "n", "v"} THEN IF Len(line) = 1 THEN line[1] ELSE "bad"
  ELSE IF \E i \in DOMAIN line : line[i] \in Letter \ {"G", "O", "x"} THEN "h"
  ELSE "bad"

Counted == [parser EXCEPT !.headerLineCount = @ + 1]

headerLine ==
  /\ parser.state = "kExpectHeaders" /\ crlf > 0
  /\ retrieveLine
  /\ parser.headerLineCount < MaxHeaders
  /\ LET kind == HeaderKind(Line)
     IN  \/ /\ kind \notin {"bad", "v"}
            /\ parser' = [Counted EXCEPT
                 !.keepAlive = IF kind = "c" THEN FALSE ELSE IF kind = "k" THEN TRUE ELSE @,
                 !.body = IF kind = "n" THEN TRUE ELSE IF kind = "z" THEN FALSE ELSE @]
            /\ UNCHANGED <<writeBuffer, reading, pc, results, put, wire>>
         \/ /\ kind = "bad" /\ badRequest
         \/ /\ kind = "v" /\ pc' = "terminated" /\ parser' = Counted
            /\ UNCHANGED <<writeBuffer, reading, results, put, wire>>
  /\ UNCHANGED <<stream, arrived, nread>>

tooManyHeaders ==
  /\ parser.state = "kExpectHeaders" /\ crlf > 0
  /\ retrieveLine
  /\ parser.headerLineCount >= MaxHeaders
  /\ parser' = Counted
  /\ LineTooLong
  /\ UNCHANGED <<stream, arrived, nread>>

(* The empty line: releaseRequest resets current_ for the next request.    *)
(* Mistake: it does not, and keepAlive is carried over.                    *)
Response(keepAlive) == <<IF keepAlive THEN "+" ELSE "-", "+">>

emptyLine_KeepsRequest ==
  /\ parser.state = "kExpectHeaders" /\ crlf = 0
  /\ retrieveLine
  /\ IF parser.body THEN badRequest
     ELSE /\ Return([kind |-> "kComplete", keepAlive |-> parser.keepAlive])
          /\ parser' = [NewRequest EXCEPT !.keepAlive = parser.keepAlive]
          /\ Send(Response(parser.keepAlive), parser.keepAlive, "parse")
  /\ UNCHANGED <<stream, arrived, nread>>
emptyLine ==
  /\ parser.state = "kExpectHeaders" /\ crlf = 0
  /\ retrieveLine
  /\ IF parser.body THEN badRequest
     ELSE /\ Return([kind |-> "kComplete", keepAlive |-> parser.keepAlive])
          /\ parser' = NewRequest
          /\ Send(Response(parser.keepAlive), parser.keepAlive, "parse")
  /\ UNCHANGED <<stream, arrived, nread>>

-----------------------------------------------------------------------------
(* Connection::handleWriteCallBack: the socket takes n more bytes.         *)
handleWriteCallBack ==
  /\ pc = "wait" /\ readable(writeBuffer) > 0
  /\ \E n \in 1..readable(writeBuffer) :
       /\ wire' = wire \o SubSeq(peek(writeBuffer), 1, n)
       /\ writeBuffer' = retrieve(writeBuffer, n)
       /\ pc' = IF ~reading /\ n = readable(writeBuffer) THEN "closed" ELSE "wait"
  /\ UNCHANGED <<stream, arrived, nread, taken, readBuffer, parser, reading, results, put>>

parse ==
  needMore \/ lineTooLong \/ requestLine \/ headerLine \/ tooManyHeaders \/ emptyLine

Next ==
  Arrive \/ handleReadCallBack \/ readv \/ readDone \/ parse \/ handleWriteCallBack

Spec == Init /\ [][Next]_vars

-----------------------------------------------------------------------------
(* Both buffers are first-in first-out, whatever they had to shift or grow:*)
(* what has been read and not parsed yet is the next part of the stream,   *)
(* and what is on the wire, followed by what waits, is what was put in.    *)
InOrder ==
  /\ peek(readBuffer) = SubSeq(stream, taken + 1, nread)
  /\ wire \o peek(writeBuffer) = put

(* A buffer grows only for what waits in it, never for the space already   *)
(* consumed: it stays below twice the backlog that made it grow, so that a *)
(* long series of requests does not add up.                                *)
GrowsForBacklog ==
  [][/\ Len(readBuffer'.buf) > Len(readBuffer.buf)
          => Len(readBuffer'.buf) < 2 * readable(readBuffer')
     /\ Len(writeBuffer'.buf) > Len(writeBuffer.buf)
          => Len(writeBuffer'.buf) < 2 * (readable(writeBuffer) + Len(put') - Len(put))]_vars
=============================================================================
