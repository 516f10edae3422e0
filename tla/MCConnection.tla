---------------------------- MODULE MCConnection ----------------------------
(* Instances of Connection for TLC: up to two connections, and the streams *)
(* their peers may send.                                                   *)
EXTENDS Connection, TLC

CONSTANTS c1, c2

Streams(n, pieces) == UNION {[1..m -> pieces] : m \in 1..n}

(* Every stream of one or two pieces, and longer ones with a request that  *)
(* arrives in two parts and with requests behind an ending.                *)
AnyStream ==
  Streams(2, Piece)
    \cup {<<"frag", "get", "close">>, <<"get", "close", "get">>,
          <<"get", "bad", "get">>, <<"get", "long", "get">>, <<"get", "get", "frag">>}
(* Streams of requests kept alive, and of one request.                     *)
KeptAlive == Streams(3, {"get"})
OneRequest == {<<"get">>, <<"close">>}

(* One connection with any of the streams, or both with one request each.  *)
Single(streams) == UNION {[{c} -> streams] : c \in Conns}
Alone == Single(AnyStream)
AloneKeptAlive == Single(KeptAlive)
AloneOnce == Single(OneRequest)
AloneOrPair == Alone \cup [Conns -> OneRequest]

Symmetry == Permutations(Conns)
=============================================================================
