---------------------------- MODULE MCOrchestrator ----------------------------
(***************************************************************************)
(* A webhook delivered twice (one key, background), an interactive run     *)
(* without a key, and two workers on the shard.                            *)
(***************************************************************************)
EXTENDS Orchestrator

CONSTANTS hook, again, chat, k

MCKeyOf == [r \in Requests |-> IF r \in {hook, again} THEN k ELSE NoKey]

MCPriorityOf == [r \in Requests |-> IF r = chat THEN "interactive" ELSE "background"]
=============================================================================
