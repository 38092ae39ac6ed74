----------------------------- MODULE AtLeastOnce -----------------------------
(***************************************************************************)
(* What the delivery of events promises (ARCH-DRAFT.md:126, "Delivery is   *)
(* at-least-once"), without rounds, retries, leases or locks: an event of  *)
(* a thread is owed to an agent until the agent has accepted it, or until  *)
(* its thread has ended.  It may be accepted many times, before and after  *)
(* it is settled, and a thread that has ended owes nothing new.            *)
(***************************************************************************)
CONSTANTS
    Events,
    Threads,
    ThreadOf       \* the thread of each event

VARIABLES
    ended,         \* threads that have ended
    owed,          \* events to be delivered
    accepted,      \* events an agent has accepted
    settled,       \* events recorded as delivered
    withdrawn      \* events given up because their thread has ended

promise == <<ended, owed, accepted, settled, withdrawn>>

PromiseInit == ended = {} /\ owed = {} /\ accepted = {} /\ settled = {} /\ withdrawn = {}

Known == owed \cup settled \cup withdrawn

Owe(e) ==
    /\ e \notin Known /\ ThreadOf[e] \notin ended
    /\ owed' = owed \cup {e}
    /\ UNCHANGED <<ended, accepted, settled, withdrawn>>

Accept(e) ==
    /\ e \in Known
    /\ accepted' = accepted \cup {e}
    /\ UNCHANGED <<ended, owed, settled, withdrawn>>

\* A thread may end while its event is being delivered.
Settle(e) ==
    /\ e \in (owed \cup withdrawn) \cap accepted
    /\ owed' = owed \ {e}
    /\ withdrawn' = withdrawn \ {e}
    /\ settled' = settled \cup {e}
    /\ UNCHANGED <<ended, accepted>>

End(t) ==
    /\ t \notin ended
    /\ ended' = ended \cup {t}
    /\ UNCHANGED <<owed, accepted, settled, withdrawn>>

Withdraw(t) ==
    /\ t \in ended
    /\ LET given == {e \in owed : ThreadOf[e] = t} IN
       /\ owed' = owed \ given
       /\ withdrawn' = withdrawn \cup given
    /\ UNCHANGED <<ended, accepted, settled>>

PromiseNext ==
    \/ \E e \in Events : Owe(e) \/ Accept(e) \/ Settle(e)
    \/ \E t \in Threads : End(t) \/ Withdraw(t)

Promise == PromiseInit /\ [][PromiseNext]_promise
=============================================================================
