----------------------------- MODULE TaskQueue ------------------------------
(* What EventLoop::enqueueTask promises to the rest of the server: tasks   *)
(* run on the loop one at a time, in the order they were accepted, each at *)
(* most once, and none after the loop has ended.                           *)
EXTENDS Sequences

CONSTANT Task

VARIABLES queue,   \* accepted and not yet run
          ran,     \* run, in order
          closed   \* the loop has ended

Init == queue = <<>> /\ ran = <<>> /\ closed = FALSE

(* A call of enqueueTask that overlaps the end of the loop may still queue *)
(* its task, which then never runs.                                        *)
Accept == /\ \E t \in Task : queue' = Append(queue, t)
          /\ UNCHANGED <<ran, closed>>

Run == /\ ~closed /\ queue # <<>>
       /\ queue' = Tail(queue)
       /\ ran' = Append(ran, Head(queue))
       /\ UNCHANGED closed

Close == /\ ~closed /\ closed' = TRUE
         /\ UNCHANGED <<queue, ran>>

Next == Accept \/ Run \/ Close

Spec == Init /\ [][Next]_<<queue, ran, closed>>
=============================================================================
