----------------------------- MODULE MCChildRun -----------------------------
(***************************************************************************)
(* ChildRun for TLC. Processes are model values of the configurations; the   *)
(* state space is finite because every call is made once and a transcript   *)
(* holds at most one record of each type.                                   *)
(***************************************************************************)
EXTENDS ChildRun
=============================================================================
