--------------------------- MODULE SessionLifecycle ---------------------------
(***************************************************************************)
(* What the operator promises about one AgentSession, without controllers, *)
(* caches or conflicts: the recorded phase only moves along                *)
(* "" -> Provisioning -> Running -> Idle -> Committing -> Terminated, and   *)
(* the sandbox pod is deleted only once Committing has been recorded.      *)
(***************************************************************************)
VARIABLES phase,   \* the recorded phase, "" at first, "gone" once the session is deleted
          doomed   \* the operator has deleted the sandbox pod

vars == <<phase, doomed>>

Edge == { <<"", "Provisioning">>, <<"Provisioning", "Running">>,
          <<"Running", "Idle">>, <<"Idle", "Committing">>,
          <<"Committing", "Terminated">> }

Init == phase = "" /\ doomed = FALSE

Move ==
  /\ \E e \in Edge : phase = e[1] /\ phase' = e[2]
  /\ UNCHANGED doomed

DeletePod ==
  /\ phase \in {"Committing", "Terminated", "gone"}
  /\ doomed' = TRUE
  /\ UNCHANGED phase

DeleteSession ==
  /\ phase' = "gone"
  /\ UNCHANGED doomed

Next == Move \/ DeletePod \/ DeleteSession

Spec == Init /\ [][Next]_vars

=============================================================================
