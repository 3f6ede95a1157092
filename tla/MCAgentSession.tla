---------------------------- MODULE MCAgentSession ----------------------------
(***************************************************************************)
(* One session, an operator process, one crash and one lost pod.           *)
(***************************************************************************)
EXTENDS AgentSession
=============================================================================
