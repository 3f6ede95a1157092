----------------------------- MODULE MCSessions -----------------------------
(***************************************************************************)
(* The end and the resumption of a session, and the MCP proxy.  The two    *)
(* share no state, so it is enough that one moves while the other is where *)
(* it began.  Of the first, either two stop hooks overlap beside one       *)
(* resume, with a DiffFetcher or without; or one hook has pushed all work  *)
(* in time, and two resumes meet two Replenish calls and ScaleDown.  The   *)
(* pool has a cap of one pod, and three pods let it exceed its cap while   *)
(* an Acquire forks a pod of its own.                                      *)
(***************************************************************************)
EXTENDS MCSessionEnd, MCMcpProxy, TLC

CONSTANTS h1, h2

(* Hooks and pods are told apart by the order in which they appear. *)
InTurn ==
  /\ hpc[h1] = "idle" => hpc[h2] = "idle"
  /\ \A p, q \in Pods : p < q /\ pods[p] = "none" => pods[q] = "none"

OneResume ==
  /\ now = 0
  /\ \E c \in Acquirers : rs[c] = "idle"
  /\ \A p \in Pods : pods[p] # "none" => p = 1
  /\ \A r \in Replenishers : rpc[r] = "idle"

OneHook ==
  /\ hpc[h2] = "idle" /\ ~graceOver[h1] /\ ~late[h1]
  /\ \A k \in DOMAIN blobs : blobs[k] = None
  /\ hpc[h1] # "done" => \A p \in Pods : pods[p] = "none"

EndStep ==
  /\ EndNext
  /\ (InTurn /\ (OneResume \/ OneHook))'

VARIABLE moves  \* the component that moves

MCInit == EndInit /\ Init /\ moves \in {"session end", "proxy"}

MCNext ==
  \/ moves = "session end" /\ EndStep /\ UNCHANGED <<vars, moves>>
  \/ moves = "proxy" /\ Next /\ UNCHANGED <<endVars, moves>>

MCSpec == MCInit /\ [][MCNext]_<<endVars, vars, moves>>

Symmetry == Permutations(Calls)
=============================================================================
