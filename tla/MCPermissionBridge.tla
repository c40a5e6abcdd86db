------------------------- MODULE MCPermissionBridge -------------------------
(***************************************************************************)
(* Small instances of PermissionBridge.  s1 is a terminal session, s2 one  *)
(* the daemon controls through the SDK.                                    *)
(***************************************************************************)
EXTENDS PermissionBridge, TLC

CONSTANTS t1, t2, c1, s1, s2

TerminalOrSdk == [x \in Calls |-> IF x = c1 THEN s2 ELSE s1]
DistinctInput == [x \in Tools |-> x]

\* Calls of one tool name share a correlation queue.
Permissions == [x \in Calls |-> "permission_request"]
Plans       == [x \in Calls |-> IF x = c1 THEN "user_question" ELSE "plan_review"]
Questions   == [x \in Calls |-> IF x = c1 THEN "plan_review" ELSE "user_question"]
=============================================================================
