--------------------------- MODULE ChildRunLedger ---------------------------
(***************************************************************************)
(* The transcript of one Child Run: the append-only record sequence that    *)
(* child_run_records.py replays, the status it derives, and the record      *)
(* every ChildRunWriter operation of child_run_store.py appends.            *)
(*                                                                          *)
(* A record keeps what replay tells apart: its type, the execution it       *)
(* belongs to, the sequence of the record it refers to, and the state it    *)
(* quotes (a handoff's outcome, an interruption's last durable state).      *)
(* Identities that one run never varies (parent, Child Session, workspace), *)
(* texts, digests and timestamps are left out.                              *)
(***************************************************************************)
EXTENDS Naturals, Sequences

CONSTANTS Executions,   \* execution IDs: one per call of ChildRunExecutor.run
          NoExecution   \* the execution_id None

ASSUME NoExecutionAssumption == NoExecution \notin Executions

Statuses == {"queued", "admitted", "ready", "running", "cancelling",
             "completed", "failed", "cancelled", "interrupted"}

TerminalStatuses == {"completed", "failed", "cancelled", "interrupted"}

\* Record types after which replay derives a terminal status.
TerminalTypes == {"cancelled", "preparation_failed", "completed", "failed",
                  "cancelled_terminal", "interrupted"}

RecordTypes == TerminalTypes \cup
  {"header", "delegated", "admitted", "session_bound", "started",
   "cancel_requested", "handoff"}

Record == [type: RecordTypes, exec: Executions \cup {NoExecution},
           ref: Nat, state: Statuses \cup {"none"}]

Rec(t, x) == [type |-> t, exec |-> x, ref |-> 0, state |-> "none"]

Has(log, t) == \E i \in DOMAIN log : log[i].type = t

HasExec(log, t, x) == \E i \in DOMAIN log : log[i].type = t /\ log[i].exec = x

\* The position of the record of type t; record.sequence is this minus one.
PositionOf(log, t) == CHOOSE i \in DOMAIN log : log[i].type = t

\* The execution_id of the record of type t, None when there is no such record.
ExecutionOf(log, t) ==
  IF Has(log, t) THEN log[PositionOf(log, t)].exec ELSE NoExecution

-----------------------------------------------------------------------------
(* The status a replayed transcript has. *)

\* Faulty form for a mutation run: an interruption hides a cancellation.
StatusInterruptedFirst(log) ==
  IF      Has(log, "cancelled")                              THEN "cancelled"
  ELSE IF Has(log, "completed")                              THEN "completed"
  ELSE IF Has(log, "failed") \/ Has(log, "preparation_failed") THEN "failed"
  ELSE IF Has(log, "interrupted")                            THEN "interrupted"
  ELSE IF Has(log, "cancelled_terminal")                     THEN "cancelled"
  ELSE IF Has(log, "cancel_requested")                       THEN "cancelling"
  ELSE IF Has(log, "started")                                THEN "running"
  ELSE IF Has(log, "session_bound")                          THEN "ready"
  ELSE IF Has(log, "admitted")                               THEN "admitted"
  ELSE "queued"

Status(log) ==
  IF      Has(log, "cancelled")          THEN "cancelled"
  ELSE IF Has(log, "completed")          THEN "completed"
  ELSE IF Has(log, "failed")             THEN "failed"
  ELSE IF Has(log, "preparation_failed") THEN "failed"
  ELSE IF Has(log, "cancelled_terminal") THEN "cancelled"
  ELSE IF Has(log, "interrupted")        THEN "interrupted"
  ELSE IF Has(log, "cancel_requested")   THEN "cancelling"
  ELSE IF Has(log, "started")            THEN "running"
  ELSE IF Has(log, "session_bound")      THEN "ready"
  ELSE IF Has(log, "admitted")           THEN "admitted"
  ELSE "queued"

-----------------------------------------------------------------------------
(* Replay. LegalNext is the per-record check against the records before it, *)
(* WholeLogLegal the checks replay makes once it has read every record.     *)

NoneOf(log, types) == \A t \in types : ~Has(log, t)

\* The record a handoff must quote, by the order replay looks for it.
TerminalType(log) ==
  IF      Has(log, "completed")          THEN "completed"
  ELSE IF Has(log, "failed")             THEN "failed"
  ELSE IF Has(log, "preparation_failed") THEN "preparation_failed"
  ELSE IF Has(log, "cancelled_terminal") THEN "cancelled_terminal"
  ELSE IF Has(log, "interrupted")        THEN "interrupted"
  ELSE "cancelled"

\* The outcome replay demands of a handoff: interrupted before cancelled,
\* where Status takes a terminal cancellation before an interruption.
HandoffOutcome(log) ==
  IF      Has(log, "completed")             THEN "completed"
  ELSE IF ~NoneOf(log, {"failed", "preparation_failed"}) THEN "failed"
  ELSE IF Has(log, "interrupted")           THEN "interrupted"
  ELSE "cancelled"

LegalHandoff(log, r) ==
  /\ ~Has(log, "handoff")
  /\ ~NoneOf(log, TerminalTypes)
  /\ r.ref = PositionOf(log, TerminalType(log))
  /\ r.state = HandoffOutcome(log)

LegalNext(log, r) ==
  \/ r.type = "cancelled" /\ NoneOf(log, {"cancelled", "admitted"})
  \/ r.type = "delegated" /\ Len(log) = 1
  \/ r.type = "admitted" /\ NoneOf(log, {"admitted", "cancelled"})
  \/ r.type = "session_bound" /\ Has(log, "admitted") /\ ~Has(log, "session_bound")
  \/ /\ r.type = "preparation_failed"
     /\ NoneOf(log, {"preparation_failed", "session_bound", "started"})
  \/ r.type = "started" /\ ~Has(log, "started") /\ Has(log, "session_bound")
  \/ /\ r.type = "completed"
     /\ ~Has(log, "completed")
     /\ HasExec(log, "started", r.exec)
  \/ /\ r.type = "failed"
     /\ NoneOf(log, {"failed", "completed", "preparation_failed"})
     /\ Has(log, "started") => HasExec(log, "started", r.exec)
  \/ /\ r.type = "cancel_requested"
     /\ NoneOf(log, {"cancel_requested", "completed", "failed"})
     /\ Has(log, "session_bound")
     /\ r.exec = ExecutionOf(log, "started")
  \/ /\ r.type = "cancelled_terminal"
     /\ NoneOf(log, {"cancelled_terminal", "completed", "failed"})
     /\ HasExec(log, "cancel_requested", r.exec)
     /\ r.ref = PositionOf(log, "cancel_requested")
  \/ /\ r.type = "interrupted"
     /\ NoneOf(log, {"interrupted", "completed", "failed"})
     /\ HasExec(log, "started", r.exec)
     /\ r.state \in {"running", "cancelling"}
     /\ r.state = "cancelling" => Has(log, "cancel_requested")
  \/ r.type = "handoff" /\ LegalHandoff(log, r)

WholeLogLegal(log) ==
  /\ Has(log, "cancelled") => log[Len(log)].type \in {"cancelled", "handoff"}
  /\ Has(log, "preparation_failed") => Len(log) \in {2, 3}
  /\ Has(log, "completed") => NoneOf(log, {"failed", "cancelled_terminal", "interrupted"})
  /\ Has(log, "failed") => NoneOf(log, {"cancelled_terminal", "interrupted"})
  /\ HasExec(log, "cancelled_terminal", NoExecution) => ~Has(log, "started")

Replayable(log) ==
  /\ Len(log) > 0
  /\ log[1].type = "header"
  /\ \A i \in 2..Len(log) : LegalNext(SubSeq(log, 1, i - 1), log[i])
  /\ WholeLogLegal(log)

\* ChildRunWriter replays the candidate transcript before it appends: the
\* stored part already replayed, so only the new record and the whole remain.
Accepts(log, r) == LegalNext(log, r) /\ WholeLogLegal(Append(log, r))

-----------------------------------------------------------------------------
(* The ChildRunWriter operations: the record each would append, and the     *)
(* writer's own guard, which it tests before the replay of the candidate.   *)

Started(e) == Rec("started", e)

\* Faulty: a requested cancellation does not keep an executor from starting.
CanStartCancelling(log) == Status(log) \in {"ready", "cancelling"}

CanStart(log) == Status(log) = "ready"

Completed(e) == Rec("completed", e)

CanComplete(log) == Status(log) \in {"running", "cancelling"}

Failed(x) == Rec("failed", x)

CanFail(log) == Status(log) \in {"ready", "running", "cancelling"}

\* request_cancel as ChildRunStore calls it: no request yet, not terminal.
CancelRequested(log) == Rec("cancel_requested", ExecutionOf(log, "started"))

CanRequestCancel(log) ==
  ~Has(log, "cancel_requested") /\ Status(log) \notin TerminalStatuses

CancelledTerminal(log) ==
  [Rec("cancelled_terminal", ExecutionOf(log, "cancel_requested"))
     EXCEPT !.ref = PositionOf(log, "cancel_requested")]

CanFinishCancelled(log) ==
  Has(log, "cancel_requested") /\ ~Has(log, "cancelled_terminal")

Interrupted(log) ==
  [Rec("interrupted", ExecutionOf(log, "started"))
     EXCEPT !.state = IF Has(log, "cancel_requested") THEN "cancelling" ELSE "running"]

\* Faulty: a cancelling execution is not taken for an abandoned one.
CanFinishRunningInterrupted(log) == Status(log) = "running"

CanFinishInterrupted(log) == Has(log, "started") /\ ~Has(log, "interrupted")

\* Faulty: the handoff's outcome is the type of the terminal record.
HandoffOfType(log) ==
  [Rec("handoff", NoExecution)
     EXCEPT !.ref = PositionOf(log, TerminalType(log)), !.state = TerminalType(log)]

\* Faulty: the handoff's outcome takes an interruption before a cancellation.
HandoffInReplayOrder(log) ==
  [Rec("handoff", NoExecution)
     EXCEPT !.ref = PositionOf(log, TerminalType(log)), !.state = HandoffOutcome(log)]

\* What build_child_handoff derives from a terminal transcript.
Handoff(log) ==
  [Rec("handoff", NoExecution)
     EXCEPT !.ref = PositionOf(log, TerminalType(log)), !.state = Status(log)]

CanPublish(log) == ~Has(log, "handoff") /\ Status(log) \in TerminalStatuses
=============================================================================
