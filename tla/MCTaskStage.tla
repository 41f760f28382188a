---------------------------- MODULE MCTaskStage ----------------------------
(* Small instances of TaskStage for TLC. *)
EXTENDS TaskStage, TLC

Symmetric == Permutations(Bridge) \cup Permutations(Child)
=============================================================================
