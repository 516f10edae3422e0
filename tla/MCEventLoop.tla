---------------------------- MODULE MCEventLoop -----------------------------
(* Instances of EventLoop for TLC: the main thread, a worker of the pool,   *)
(* the main reactor, and the loop itself.                                   *)
EXTENDS EventLoop

CONSTANTS main, worker, reactor, loop
=============================================================================
