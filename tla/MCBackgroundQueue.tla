-------------------------- MODULE MCBackgroundQueue --------------------------
(***************************************************************************)
(* BackgroundQueue for TLC: one Child Run submitted by two calls, and two    *)
(* worker slots. Three lease IDs are enough: each slot carries one copy.    *)
(***************************************************************************)
EXTENDS BackgroundQueue

CONSTANT TheChild

TwoCallsOneChild == [k \in Calls |-> TheChild]
=============================================================================
