------------------------------ MODULE MCLearning ------------------------------
(* Two machines of a project; the clock of the second one is ahead.         *)
EXTENDS Learning

CONSTANTS ma, mb

MCSkew == [m \in Machines |-> IF m = mb THEN 1 ELSE 0]
=============================================================================
