-------------------------- MODULE MCReliableQueue --------------------------
(* Constants for the runs of ReliableQueue.                                *)
EXTENDS ReliableQueue, TLC

CONSTANTS w1, w2, m1, m2, k

OneKey == m1 :> k @@ m2 :> k
=============================================================================
