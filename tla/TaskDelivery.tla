---------------------------- MODULE TaskDelivery ----------------------------
(***************************************************************************)
(* What a fleet promises for one remote task: it is handed to at most one   *)
(* handler, and only once it was assigned; the outcome recorded for it is   *)
(* what that handler did, or "unknown"; no outcome is recorded twice. No    *)
(* workers, leases, clock or requests: RemoteFleet implements this for each *)
(* of its tasks.                                                           *)
(***************************************************************************)
VARIABLES status,  \* as the ledger has it
          runs,    \* how often a handler was called with the task
          effect,  \* how that call ended
          lost     \* the ledger cannot be read any more

vars == <<status, runs, effect, lost>>

Init == status = "absent" /\ runs = 0 /\ effect = "none" /\ lost = FALSE

\* A record may be the last that a ledger takes.
Record(from, to) == /\ ~lost /\ status = from /\ status' = to
                    /\ lost' \in BOOLEAN /\ UNCHANGED <<runs, effect>>

Submit == Record("absent", "queued")

Assign == Record("queued", "assigned")

Settle == \/ Record("assigned", "completed") /\ effect = "returned"
          \/ Record("assigned", "failed") /\ effect = "raised"
          \/ Record("assigned", "cancelled") /\ effect # "returned"
          \/ Record("assigned", "unknown")

\* Whoever was given a task may work on it after the ledger gave it up, or was
\* lost with the record that assigned it; not after an outcome was recorded.
InHand == /\ status \notin {"completed", "failed", "cancelled"}
          /\ status \in {"assigned", "unknown"} \/ lost

CallHandler == InHand /\ runs = 0 /\ runs' = 1 /\ UNCHANGED <<status, effect, lost>>

HandlerEnds == /\ InHand /\ runs = 1 /\ effect = "none"
               /\ effect' \in {"returned", "raised"}
               /\ UNCHANGED <<status, runs, lost>>

Lose == ~lost /\ lost' = TRUE /\ UNCHANGED <<status, runs, effect>>

Next == Submit \/ Assign \/ Settle \/ CallHandler \/ HandlerEnds \/ Lose

Spec == Init /\ [][Next]_vars
=============================================================================
