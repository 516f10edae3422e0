------------------------------ MODULE MCServer ------------------------------
EXTENDS Server
CONSTANTS w1, w2, c1, c2
=============================================================================
