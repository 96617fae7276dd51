--------------------------- MODULE MCAgentDispatch ----------------------------
(***************************************************************************)
(* Two chats for checking AgentDispatch.                                   *)
(***************************************************************************)
EXTENDS AgentDispatch

CONSTANTS m1, m2, m3, stop, cron, s1

MCChats == {"chat", "other"}

MCChat == [x \in Msgs \cup Stops \cup Directs |-> IF x = m3 THEN "other" ELSE "chat"]
MCKey == [x \in Msgs \cup Stops |-> MCChat[x]]
===============================================================================
