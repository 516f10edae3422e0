------------------------------ MODULE MCClient ------------------------------
(* One round of the four tests, and the idle test.                         *)
EXTENDS Client

AllPlans == {runAll, <<"idle">>}
=============================================================================
