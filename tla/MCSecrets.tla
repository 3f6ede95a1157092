------------------------------- MODULE MCSecrets ------------------------------
(***************************************************************************)
(* Two concurrent calls on the secrets of one organisation.                *)
(***************************************************************************)
EXTENDS Secrets, TLC

Symmetry == Permutations(Clients) \cup Permutations(Users) \cup Permutations(SecretIds)
=============================================================================
