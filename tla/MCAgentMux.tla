------------------------------ MODULE MCAgentMux ------------------------------
(***************************************************************************)
(* Values for the constants of AgentMux.                                   *)
(***************************************************************************)
EXTENDS AgentMux

CONSTANTS e1, e2, e3, th1, th2

\* The first two events belong to one thread, the third to another.
TwoThreads == [e \in Events |-> IF e = e3 THEN th2 ELSE th1]
RootThreads == [t \in Threads |-> None]
=============================================================================
