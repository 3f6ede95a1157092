------------------------------ MODULE MCStores ------------------------------
(***************************************************************************)
(* The agent registry, with three concurrent requests on one agent of up   *)
(* to four versions, and the environment snapshots, with three callers and *)
(* three requests: the second lists the steps of the first in another      *)
(* order, by builder v11 on patch level 2 instead of builder v1 on patch   *)
(* level 12, and so has its key; the third differs from the first in a     *)
(* pin.  The two share no state, so it is enough that one moves while the  *)
(* other is where it began.                                                *)
(***************************************************************************)
EXTENDS AgentRegistry, Environments, TLC

Asked(setup, pins, builder, patch) ==
  [image |-> "i", setup |-> setup, pins |-> pins, builder |-> builder, patch |-> patch]

MCRequests ==
  {Asked(<<1, 2>>, {"a"}, <<"v", "1">>, <<"1", "2">>),
   Asked(<<2, 1>>, {"a"}, <<"v", "1", "1">>, <<"2">>),
   Asked(<<1, 2>>, {"b"}, <<"v", "1">>, <<"1", "2">>)}

VARIABLE moves  \* the component that moves

MCInit == Init /\ SnapshotInit /\ moves \in {"registry", "environments"}

MCNext ==
  \/ moves = "registry" /\ Next /\ UNCHANGED <<snapshotVars, moves>>
  \/ moves = "environments" /\ SnapshotNext /\ UNCHANGED <<vars, moves>>

MCSpec == MCInit /\ [][MCNext]_<<vars, snapshotVars, moves>>

(* Callers and Clients are the same set of names. *)
Symmetry == Permutations(Clients) \cup Permutations(Specs)
=============================================================================
