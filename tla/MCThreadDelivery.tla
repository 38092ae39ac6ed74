------------------------- MODULE MCThreadDelivery -------------------------
(***************************************************************************)
(* Values for the constants of ThreadDelivery.                             *)
(***************************************************************************)
EXTENDS ThreadDelivery

CONSTANTS a1, a2, e1, e2

\* Every event is for a1.
AllForA1 == [e \in Events |-> a1]

\* e1 for a1, every other event for a2.
OneForA1 == [e \in Events |-> IF e = e1 THEN a1 ELSE a2]
=============================================================================
