----------------------------- MODULE MCAgentRuntime -----------------------------
(* Runtimes with three events, two of them of one thread.                  *)
EXTENDS AgentRuntime

CONSTANTS e1, e2, e3, t1, t2

TwoThreads == [e \in Events |-> IF e = e3 THEN t2 ELSE t1]
=============================================================================
