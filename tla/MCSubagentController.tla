----------------------- MODULE MCSubagentController -----------------------
(* One child of the session that may delegate, one grandchild, and two calls  *)
(* at a time: the agent's tool calls on one side, another tool call of the     *)
(* same turn or the user's commands and the end of the session on the other.   *)
EXTENDS SubagentController

CONSTANTS c1, g1, tool, user

MCOwner == c1 :> Root @@ g1 :> c1

MCOps == tool :> {"spawn", "send", "interrupt", "resume", "wait"}
         @@ user :> {"close", "shutdown", "send"}
=============================================================================
