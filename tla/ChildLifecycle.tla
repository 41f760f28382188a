--------------------------- MODULE ChildLifecycle ---------------------------
(***************************************************************************)
(* What a Child Run promises to those who only look at it: the order its    *)
(* status moves in, the one runner its turn ever has, and which outcome is  *)
(* allowed with and without a committed turn. No locks, records or crashes: *)
(* ChildRun implements this specification.                                  *)
(***************************************************************************)
CONSTANTS Runners, NoRunner

VARIABLES status,  \* as child_run_records.py names it
          runner,  \* who is running the Child's turn
          turn     \* the Child's turn: "none", "visible" or "committed"

vars == <<status, runner, turn>>

Init == status = "queued" /\ runner = NoRunner /\ turn = "none"

Become(from, to) == status \in from /\ status' = to

Admit == Become({"queued"}, "admitted") /\ UNCHANGED <<runner, turn>>

Withdraw == Become({"queued"}, "cancelled") /\ UNCHANGED <<runner, turn>>

MakeReady == Become({"admitted"}, "ready") /\ UNCHANGED <<runner, turn>>

FailPreparation == Become({"admitted"}, "failed") /\ UNCHANGED <<runner, turn>>

\* The start may be recorded and its runner never come to know.
Start == /\ Become({"ready"}, "running")
         /\ runner = NoRunner
         /\ runner' \in Runners \cup {NoRunner}
         /\ UNCHANGED turn

RequestCancel == Become({"ready", "running"}, "cancelling") /\ UNCHANGED <<runner, turn>>

\* A turn that commits keeps its runner; one whose commit stays unconfirmed
\* loses it.
CommitTurn == /\ runner # NoRunner /\ turn = "none"
              /\ \/ turn' = "committed" /\ runner' = runner
                 \/ turn' = "visible" /\ runner' = NoRunner
              /\ UNCHANGED status

Stop == runner # NoRunner /\ runner' = NoRunner /\ UNCHANGED <<status, turn>>

Complete == /\ Become({"running", "cancelling"}, "completed")
            /\ runner # NoRunner /\ runner' = NoRunner
            /\ turn = "committed" /\ UNCHANGED turn

Cancelled == /\ Become({"cancelling"}, "cancelled")
             /\ runner' = NoRunner
             /\ turn = "none" /\ UNCHANGED turn

\* A ready Child is failed by a worker that cannot run it.
Fail == /\ Become({"ready", "running", "cancelling"}, "failed")
        /\ runner = NoRunner
        /\ UNCHANGED <<runner, turn>>

Interrupt == /\ Become({"running", "cancelling"}, "interrupted")
             /\ runner = NoRunner
             /\ UNCHANGED <<runner, turn>>

Next == \/ Admit \/ Withdraw \/ MakeReady \/ FailPreparation \/ Start
        \/ RequestCancel \/ CommitTurn \/ Stop
        \/ Complete \/ Cancelled \/ Fail \/ Interrupt

Spec == Init /\ [][Next]_vars
=============================================================================
