---------------------------- MODULE MCHttpProcess ----------------------------
(* Streams for TLC: every request of four lines from Texts that starts     *)
(* with a request line, and some that are rarer.                           *)
EXTENDS HttpReference

Bytes == Letter \cup ResponseByte \cup {"NUL", "CR", "LF"}
Texts == {<<>>, <<"G">>, <<"O">>, <<"k">>, <<"c">>, <<"n">>, <<"h">>, <<"h", "h", "h">>}
Joined(ts) == FlattenSeq([i \in DOMAIN ts |-> ts[i] \o <<"CR", "LF">>])
Odd == {<<<<"G">>, <<"v">>, <<>>>>, <<<<"O">>, <<"k">>, <<>>, <<"G">>, <<>>>>, <<<<"G">>, <<"n">>, <<"z">>, <<>>>>,
        <<<<"G">>, <<"x">>, <<>>>>, <<<<"G">>, <<"CR", "h">>, <<>>>>, <<<<"G">>, <<"n", "CR">>, <<>>>>,
        <<<<"G">>, <<>>, <<"G">>, <<>>, <<"O">>, <<>>>>, <<<<"G">>, <<"c">>, <<"k">>, <<>>, <<"O">>, <<>>>>}
SomeStreams ==
  {Joined(ts) : ts \in Odd \cup {t \in [1..4 -> Texts] : t[1] \in {<<"G">>, <<"O">>}}}
=============================================================================
