------------------------------ MODULE MCMcpProxy ------------------------------
(***************************************************************************)
(* Two users, and two servers of which one has a name with "__" in it: its *)
(* tool c and the tool b__c of the other have the same namespaced name.    *)
(***************************************************************************)
EXTENDS McpProxy

CONSTANTS u1, u2

MCUsers == {u1, u2}
MCServers == {<<"a">>, <<"a", "b">>}
MCTools == {<<"c">>, <<"b", "c">>}
MCGrants == [u \in MCUsers |->
               IF u = u1 THEN {<<<<"a">>, <<"b", "c">>>>} ELSE MCServers \X {<<"c">>}]
=============================================================================
