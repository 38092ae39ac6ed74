--------------------------- MODULE MCTelegramBridge ---------------------------
(* A bridge with three agents and two accounts, one of which is written to; *)
(* the third agent is no allowed peer.                                      *)
EXTENDS TelegramBridge

CONSTANTS a1, a2, a3, u1, u2, chat1

\* One agent moves between the accounts, the others take the first.
Moving == {<<a1, u1>>, <<a1, u2>>, <<a2, u1>>, <<a3, u1>>}

\* One chat, in the first account.
OneChat == {[account |-> u1, chat |-> chat1, kind |-> kind] : kind \in {"message", "clear"}}
===============================================================================
