------------------------------ MODULE MCHarness ------------------------------
(***************************************************************************)
(* The agent loop with one tool that needs approval, one that does not and *)
(* a name the model may invent; one Run and two Resume calls, free to      *)
(* overlap; two steps, so that a run can use both tools in either order.   *)
(***************************************************************************)
EXTENDS Harness
=============================================================================
