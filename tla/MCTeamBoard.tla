----------------------------- MODULE MCTeamBoard -----------------------------
(* Small instances of TeamBoard for TLC. *)
EXTENDS TeamBoard
=============================================================================
