------------------------------ MODULE MCRunToken ------------------------------
(***************************************************************************)
(* Two jtis, two concurrent callers, a TTL of two ticks and a session      *)
(* lifetime of two: enough for a token to be renewed, revoked and to       *)
(* reach both its own expiry and the session's.  The session is put with   *)
(* a deadline at its TTL attribute and with a later one, in any order, and *)
(* written up to MaxVersions - 1 times.                                    *)
(***************************************************************************)
EXTENDS RunToken, TLC

Record(createdAt, expires) ==
  [status |-> "Running", createdAt |-> createdAt, expires |-> expires, indexed |-> TRUE]

Symmetry == Permutations(Jtis) \cup Permutations(Callers)

MCPuts == {Record(0, 2), Record(1, 0)}
=============================================================================
