----------------------------- MODULE ApprovalGate -----------------------------
(***************************************************************************)
(* What the harness promises about sensitive tools, without its loop, its  *)
(* checkpoints or its crashes: a tool marked requiresApproval runs only by *)
(* spending an approval, an approval is for one request, and it is spent   *)
(* by at most one execution.  Other tools run freely, each call once.      *)
(***************************************************************************)
CONSTANTS Calls,      \* the tool calls that can ever be made
          Sensitive   \* the calls whose tool requires approval

VARIABLES tokens,     \* approvals given and not yet spent
          performed   \* the calls that were executed

vars == <<tokens, performed>>

Init ==
  /\ tokens = {}
  /\ performed = {}

Approve(k) ==
  /\ k \notin performed
  /\ tokens' = tokens \cup {k}
  /\ UNCHANGED performed

PerformApproved(k) ==
  /\ k \in tokens
  /\ tokens' = tokens \ {k}
  /\ performed' = performed \cup {k}

PerformFree(k) ==
  /\ k \notin Sensitive
  /\ k \notin performed
  /\ performed' = performed \cup {k}
  /\ UNCHANGED tokens

(* The holder of an approval died before using it. *)
Lose(k) ==
  /\ k \in tokens
  /\ tokens' = tokens \ {k}
  /\ UNCHANGED performed

Next ==
  \E k \in Calls : Approve(k) \/ PerformApproved(k) \/ PerformFree(k) \/ Lose(k)

Spec == Init /\ [][Next]_vars

=============================================================================
