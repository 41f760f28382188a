---------------------------- MODULE ActionAudit ----------------------------
(***************************************************************************)
(* What a Session promises of its Host actions to those who only read the   *)
(* action audit: one action is open at a time, an effect happens at most     *)
(* once and only inside its action's execution, and a settled action stays  *)
(* as it was settled, as long as the audit can be read. No transcripts,     *)
(* writers, locks or crashes: SessionLedger implements this specification.  *)
(***************************************************************************)
EXTENDS Naturals

CONSTANT Action

VARIABLES status,   \* the audit state of every action
          effects,  \* how often the executor of an action has run
          lost      \* the audit cannot be read any more

vars == <<status, effects, lost>>

Open == {"requested", "awaiting-approval", "authorized", "approved", "executing"}

Init == /\ status = [a \in Action |-> "unused"] /\ effects = [a \in Action |-> 0]
        /\ lost = FALSE

Move(a, from, to) ==
  /\ status[a] \in from
  /\ \E s \in to : status' = [status EXCEPT ![a] = s]
  /\ UNCHANGED <<effects, lost>>

NoneOpen == \A a \in Action : status[a] \notin Open

Request(a) == NoneOpen /\ Move(a, {"unused"}, {"requested"})

Decide(a) == Move(a, {"requested"}, {"authorized", "awaiting-approval", "denied"})

Resolve(a) == Move(a, {"awaiting-approval"}, {"approved", "rejected", "cancelled"})

Start(a) == Move(a, {"authorized", "approved"}, {"executing"})

Execute(a) == /\ status[a] = "executing" /\ effects[a] = 0
              /\ effects' = [effects EXCEPT ![a] = 1]
              /\ UNCHANGED <<status, lost>>

Finish(a) == effects[a] = 1 /\ Move(a, {"executing"}, {"succeeded", "failed", "partial"})

\* A failed turn or a later resume closes what was left open: an execution
\* that may have had its effect is never called abandoned.
Interrupt(a) == \/ Move(a, {"executing"}, {"outcome-unknown"})
                \/ Move(a, Open \ {"executing"}, {"abandoned"})

\* What an unreadable audit says of its actions is anything; effects are not.
Lose == lost' = TRUE /\ UNCHANGED effects

Next == \/ Lose
        \/ \E a \in Action : \/ Request(a) \/ Decide(a) \/ Resolve(a) \/ Start(a)
                             \/ Execute(a) \/ Finish(a) \/ Interrupt(a)

Spec == Init /\ [][Next]_vars
=============================================================================
