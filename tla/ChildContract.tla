---------------------------- MODULE ChildContract ----------------------------
(***************************************************************************)
(* What a Child Run and those who run it in the background agree on: its    *)
(* status and who holds its execution lease. One owner at a time; a start   *)
(* and the outcome of a started run are recorded by the executor that owns  *)
(* it, an interruption only while none does. ChildRun implements this with  *)
(* its locks and records, BackgroundQueue for each of its Child Runs.       *)
(***************************************************************************)
CONSTANTS Executors,  \* owners that run the Child
          Provers,    \* owners that prove it abandoned
          Nobody

VARIABLES status,  \* as named by the store, and "withdrawing": a request to
                   \* cancel a Child that was not started
          owner    \* the holder of the execution lease

vars == <<status, owner>>

\* A Child is watched from its creation, or from when it is ready.
Init == status \in {"queued", "ready"} /\ owner = Nobody

Become(from, to) == status \in from /\ status' \in to

Prepare == /\ \/ Become({"queued"}, {"admitted", "cancelled"})
              \/ Become({"admitted"}, {"ready", "failed"})
           /\ UNCHANGED owner

\* Before the start, a request ends the Child, in two appends or one.
Withdraw == /\ \/ Become({"ready"}, {"withdrawing", "cancelled"})
               \/ Become({"withdrawing"}, {"cancelled"})
            /\ UNCHANGED owner

\* A worker that cannot run a ready Child fails it.
GiveUp == Become({"ready", "withdrawing"}, {"failed"}) /\ UNCHANGED owner

Acquire == owner = Nobody /\ owner' \in Executors \cup Provers /\ UNCHANGED status

Release == owner' = Nobody /\ UNCHANGED status

\* The owner may let go as it records, or later.
ByOwner == owner \in Executors /\ owner' \in {owner, Nobody}

Start == Become({"ready"}, {"running"}) /\ ByOwner

RequestCancel == Become({"running"}, {"cancelling"}) /\ UNCHANGED owner

Finish == /\ \/ Become({"running", "cancelling"}, {"completed", "failed"})
             \/ Become({"cancelling"}, {"cancelled"})
          /\ ByOwner

Interrupt == /\ Become({"running", "cancelling"}, {"interrupted"})
             /\ owner \in Provers \cup {Nobody} /\ owner' = Nobody

Next == \/ Prepare \/ Withdraw \/ GiveUp \/ Acquire \/ Release
        \/ Start \/ RequestCancel \/ Finish \/ Interrupt

Spec == Init /\ [][Next]_vars
=============================================================================
