---------------------------- MODULE ChildOutcome ----------------------------
(***************************************************************************)
(* What Tasks and Teams take a Child Run to be: something that comes to one *)
(* outcome, once, and to "completed" only after it was prepared. ChildRun   *)
(* implements it; TaskStage and TeamBoard let a Child do nothing else, and   *)
(* let it do all of this.                                                  *)
(***************************************************************************)
VARIABLE outcome  \* "new", "prepared", "completed", or "stopped" for failed,
                  \* cancelled and interrupted

Moves == { <<"new", "prepared">>, <<"new", "stopped">>,
           <<"prepared", "completed">>, <<"prepared", "stopped">> }

Init == outcome = "new"

Next == <<outcome, outcome'>> \in Moves

Spec == Init /\ [][Next]_outcome
=============================================================================
