-------------------------- MODULE MCThreadService --------------------------
(***************************************************************************)
(* Values for the constants of ThreadService.                              *)
(***************************************************************************)
EXTENDS ThreadService, TLC

\* allowed_peer_agent_slugs is empty in every agent's metadata.
EveryPeer == [a \in Agents |-> {}]

\* Only the hub starts conversations; the others are not allowed to contact it.
CONSTANT Hub
HubOnly == [a \in Agents |-> IF a = Hub THEN {} ELSE {a}]

\* A hub that talks to every other agent, and agents that talk only to the hub.
HubPeers == [a \in Agents |-> IF a = Hub THEN Agents \ {Hub} ELSE {Hub}]
HubSymmetric == Permutations(Agents \ {Hub}) \cup Permutations(ThreadIds)

\* Threads and agents are only compared with each other.
Symmetric == Permutations(Agents) \cup Permutations(ThreadIds)
=============================================================================
