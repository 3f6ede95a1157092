------------------------------ MODULE MCGateway ------------------------------
(***************************************************************************)
(* A tool that requires a scope, one that requires none and a name that is *)
(* not registered; a consent request for the scope that two callers decide *)
(* at once; two tool calls; and time enough for a cache entry to be loaded *)
(* late and to expire.  Deciders and calls are interchangeable.            *)
(***************************************************************************)
EXTENDS Gateway, TLC

CONSTANTS fetch, ping, scope

MCScopeOf == (fetch :> scope) @@ (ping :> NoScope)

MCScopeAsked == [q \in Consents |-> scope]

Symmetry == Permutations(Deciders) \cup Permutations(Calls)
=============================================================================
