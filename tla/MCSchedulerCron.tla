---------------------------- MODULE MCSchedulerCron ----------------------------
(* The scheduler service with one built-in cron job and one date job that  *)
(* other programs create and that deletes itself, and another date job of  *)
(* the same name, whose schedule no trigger can be made of.                *)
EXTENDS SchedulerCron

CONSTANTS b1, d1, d2

NameOf == [j \in Jobs |-> IF j \in Builtin THEN "builtin" ELSE "once"]
=============================================================================
