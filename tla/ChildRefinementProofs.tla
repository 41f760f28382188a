------------------------ MODULE ChildRefinementProofs ------------------------
(***************************************************************************)
(* ChildRun implements ChildLifecycle and keeps ChildContract, for any       *)
(* number of processes of every kind: each step is one step of the           *)
(* lifecycle, and of the contract, or none. And what a Child Run comes to    *)
(* that was left half cancelled, or interrupted after its cancellation.      *)
(***************************************************************************)
EXTENDS ChildRunProofs

LifecycleStep == [Lifecycle!Next]_(Lifecycle!vars)

-----------------------------------------------------------------------------
(* The mapping: who the runner is, and what the status becomes.             *)

\* The runner is the executor in the turn; the lease makes it the only one.
LEMMA RunnerIs ==
  ASSUME LocksHeld
  PROVE  /\ \A e \in Executions : InTurn(e) => Runner = e
         /\ (\A e \in Executions : ~InTurn(e)) => Runner = NoExecution
         /\ Runner \in Executions \cup {NoExecution}
<1>1. \A e, f \in Executions : InTurn(e) /\ InTurn(f) => e = f
  BY ProcessIdentity DEF LocksHeld, LeaseHeld, InTurn, LeaseLabels
<1>2. (\E e \in Executions : InTurn(e)) => Runner \in Executions /\ InTurn(Runner)
  BY DEF Runner
<1>3. QED
  BY <1>1, <1>2 DEF Runner

LEMMA RunnerIsNext ==
  ASSUME LocksHeld'
  PROVE  /\ \A e \in Executions : InTurn(e)' => Runner' = e
         /\ (\A e \in Executions : ~InTurn(e)') => Runner' = NoExecution
         /\ Runner' \in Executions \cup {NoExecution}
<1>1. \A e, f \in Executions : InTurn(e)' /\ InTurn(f)' => e = f
  BY ProcessIdentity DEF LocksHeld, LeaseHeld, InTurn, LeaseLabels
<1>2. \/ \A e \in Executions : ~InTurn(e)'
      \/ Runner' \in Executions /\ (\E e \in Executions : InTurn(e)' /\ Runner' = e)
  BY DEF Runner
<1>3. (\A e \in Executions : ~InTurn(e)') => Runner' = NoExecution
  BY DEF Runner
<1>4. QED
  BY <1>1, <1>2, <1>3

LEMMA RunnerStays ==
  ASSUME LocksHeld, LocksHeld', \A e \in Executions : InTurn(e)' <=> InTurn(e)
  PROVE  Runner' = Runner
<1>1. CASE \E e \in Executions : InTurn(e)
  BY <1>1, RunnerIs, RunnerIsNext
<1>2. CASE \A e \in Executions : ~InTurn(e)
  BY <1>2, RunnerIs, RunnerIsNext
<1>3. QED
  BY <1>1, <1>2

LEMMA RunnerLeaves ==
  ASSUME LocksHeld, LocksHeld', NEW e \in Executions, InTurn(e), ~InTurn(e)',
         \A x \in Executions : x # e /\ InTurn(x)' => InTurn(x)
  PROVE  Runner = e /\ Runner # NoExecution /\ Runner' = NoExecution
<1>1. Runner = e /\ \A x \in Executions : InTurn(x) => x = e
  BY RunnerIs
<1>2. \A x \in Executions : ~InTurn(x)'
  BY <1>1
<1>3. QED
  BY <1>1, <1>2, RunnerIsNext, NoExecutionAssumption

\* What the Child Session says of the turn.
LEMMA TurnIs ==
  /\ Turn = "none" <=> ~TurnVisible
  /\ session = "committed" => Turn = "committed"
  /\ session' = "committed" => Turn' = "committed"
  /\ session' = "unconfirmed" => Turn' = "visible"
  /\ session' = session \/ (session = "absent" /\ session' = "empty") => Turn' = Turn
BY DEF Turn, TurnVisible

\* What a record makes of the status it is appended to.
LEMMA StatusAfter ==
  ASSUME TypeOK, NEW r \in Record, log' = Append(log, r)
  PROVE  /\ Status(log) = "queued" /\ r.type = "admitted" => Status(log') = "admitted"
         /\ Status(log) = "queued" /\ r.type = "cancelled" => Status(log') = "cancelled"
         /\ Status(log) = "admitted" /\ r.type = "session_bound" => Status(log') = "ready"
         /\ Status(log) = "admitted" /\ r.type = "preparation_failed" => Status(log') = "failed"
         /\ Status(log) = "ready" /\ r.type = "started" => Status(log') = "running"
         /\ Status(log) \in {"ready", "running"} /\ r.type = "cancel_requested"
              => Status(log') = "cancelling"
         /\ Status(log) = "cancelling" /\ r.type = "cancelled_terminal"
              => Status(log') = "cancelled"
         /\ Status(log) \in {"ready", "running", "cancelling"} /\ r.type = "failed"
              => Status(log') = "failed"
         /\ Status(log) \in {"running", "cancelling"} =>
              /\ r.type = "completed" => Status(log') = "completed"
              /\ r.type = "interrupted" => Status(log') = "interrupted"
<1>1. \A t : Has(log', t) <=> Has(log, t) \/ r.type = t
  BY HasAppend DEF TypeOK
<1>2. QED
  BY <1>1 DEF Status

\* What a status says of a transcript that is not terminal.
LEMMA StatusOf ==
  ASSUME Status(log) \notin TerminalStatuses
  PROVE  /\ Has(log, "cancel_requested") => Status(log) = "cancelling"
         /\ ~Has(log, "cancel_requested") /\ Has(log, "session_bound") =>
              Status(log) \in {"ready", "running"}
         /\ Has(log, "started") => Status(log) \in {"running", "cancelling"}
BY DEF Status, TerminalStatuses

\* The steps of the lifecycle that leave the runner and the turn alone.
LEMMA StatusMoves ==
  ASSUME Runner' = Runner, Turn' = Turn,
         \/ Status(log') = Status(log)
         \/ Status(log) = "queued" /\ Status(log') \in {"admitted", "cancelled"}
         \/ Status(log) = "admitted" /\ Status(log') \in {"ready", "failed"}
         \/ Status(log) \in {"ready", "running"} /\ Status(log') = "cancelling"
         \/ /\ Status(log) = "cancelling" /\ Status(log') = "cancelled"
            /\ Runner = NoExecution /\ Turn = "none"
         \/ /\ Status(log) \in {"running", "cancelling"}
            /\ Status(log') \in {"failed", "interrupted"}
            /\ Runner = NoExecution
         \/ Status(log) = "ready" /\ Status(log') = "failed" /\ Runner = NoExecution
  PROVE  LifecycleStep
BY DEF LifecycleStep, Lifecycle!Next, Lifecycle!vars, Lifecycle!Become, Lifecycle!Admit,
  Lifecycle!Withdraw, Lifecycle!MakeReady, Lifecycle!FailPreparation, Lifecycle!RequestCancel,
  Lifecycle!Cancelled, Lifecycle!Fail, Lifecycle!Interrupt

LEMMA StopStep ==
  ASSUME Runner # NoExecution, Runner' = NoExecution, Turn' = Turn, Status(log') = Status(log)
  PROVE  LifecycleStep
BY DEF LifecycleStep, Lifecycle!Next, Lifecycle!Stop

-----------------------------------------------------------------------------
(* An executor that is about to record a failure has recorded its start.    *)

FailureLabels == {"errored", "failing", "fail"}

FailsStarted ==
  \A e \in Executions : pc[Executor(e)] \in FailureLabels => HasExec(log, "started", e)

LEMMA FailureEntered ==
  ASSUME TypeOK, NEW e \in Executions, Execute(e), pc'[Executor(e)] \in FailureLabels
  PROVE  pc[Executor(e)] \in FailureLabels \cup TurnLabels
<1>0. Executor(e) \in Processes /\ Executor(e) # Watcher(e)
  BY ProcessIdentity
<1> USE <1>0 DEF FailureLabels, TurnLabels
<1>1. CASE CheckReady(e) \/ CloseAdmission(e) \/ OpenSession(e) \/ RouteChanged(e)
           \/ CommitTurn(e) \/ CancelTurn(e) \/ FailTurn(e) \/ InspectFailure(e)
  BY <1>1, MoveMoves DEF CheckReady, CloseAdmission, OpenSession, RouteChanged,
     CommitTurn, CancelTurn, FailTurn, InspectFailure
<1>2. CASE AcquireExecution(e)
  BY <1>2, MoveMoves DEF AcquireExecution, TakeLease
<1>3. CASE OpenAdmission(e) \/ OpenForStart(e) \/ OpenForComplete(e)
           \/ OpenForCancelled(e) \/ OpenForFailed(e)
  BY <1>3, OpenMoves DEF OpenAdmission, OpenForStart, OpenForComplete,
     OpenForCancelled, OpenForFailed
<1>4. CASE FinishCompleted(e) \/ FinishCancelled(e) \/ FinishFailed(e)
  BY <1>4, CloseMoves DEF FinishCompleted, FinishCancelled, FinishFailed
<1>5. CASE StartExecution(e) \/ CloseExecution(e)
  BY <1>5 DEF StartExecution, CloseExecution, TypeOK
<1>6. QED
  BY <1>1, <1>2, <1>3, <1>4, <1>5 DEF Execute

LEMMA FailsStartedStep ==
  ASSUME TypeOK, IndInv, FailsStarted, [Next]_vars
  PROVE  FailsStarted'
<1>g. \A e : HasExec(log, "started", e) => HasExec(log', "started", e)
  BY LogGrows
<1>1. SUFFICES ASSUME NEW e \in Executions, pc'[Executor(e)] \in FailureLabels
               PROVE  pc[Executor(e)] \in FailureLabels \cup TurnLabels
  <2>1. \A e \in Executions : InTurn(e) => HasExec(log, "started", e)
    BY DEF IndInv, TurnProgress
  <2>2. QED
    BY <1>g, <2>1 DEF FailsStarted, InTurn
<1>2. CASE \E x \in Executions : Execute(x)
  BY <1>1, <1>2, FailureEntered, ExecutorStep
<1>3. CASE Crash \/ UNCHANGED vars
  BY <1>1, <1>3, CrashStep DEF vars, FailureLabels
<1>4. CASE \/ \E q \in Preparations : Prepare(q)
           \/ \E x \in Executions : Watch(x)
           \/ \E c \in Cancels : Cancel(c)
           \/ \E r \in Recoverers : Recover(r)
           \/ \E p \in Publications : Publish(p)
           \/ \E w \in Workers : GiveUp(w)
  BY <1>1, <1>4, OthersStep
<1>5. QED
  BY <1>2, <1>3, <1>4 DEF Next, Work

\* A start names the execution that recorded it, so a failure recorded under
\* no execution is refused for a started Child.
StartsNamed == ~HasExec(log, "started", NoExecution)

LEMMA StartsNamedStep ==
  ASSUME TypeOK, IndInv, StartsNamed, [Next]_vars
  PROVE  StartsNamed'
<1>1. ASSUME NEW r \in Record, log' = Append(log, r), Grounds(r) PROVE StartsNamed'
  <2>1. r.type = "started" => r.exec # NoExecution
    BY <1>1, NoExecutionAssumption DEF Grounds, TerminalStatuses
  <2>2. QED
    BY <1>1, <2>1, HasExecAppend DEF StartsNamed, TypeOK
<1>2. QED
  BY <1>1, LogStep DEF StartsNamed

\* A worker fails a Child that nobody has started.
LEMMA GiveUpStatus ==
  ASSUME TypeOK, StartsNamed, NEW w \in Workers, GiveUp(w)
  PROVE  \/ log' = log
         \/ /\ Status(log) \in {"ready", "cancelling"} /\ Status(log') = "failed"
            /\ ~Has(log, "started") /\ ~Has(log', "started")
<1>1. Failed(NoExecution) \in Record /\ Failed(NoExecution).type = "failed"
        /\ Failed(NoExecution).exec = NoExecution
  BY DEF Failed, Rec, Record, RecordTypes, TerminalTypes
<1>2. CASE ~FailReady(w)
  BY <1>2 DEF GiveUp, InspectReady, OpenForGiveUp
<1>3. CASE FailReady(w) /\ log' # log
  <2>1. /\ CanFail(log) /\ LegalNext(log, Failed(NoExecution))
        /\ log' = Append(log, Failed(NoExecution))
    BY <1>3, WriteAppends DEF FailReady
  <2>2. ~Has(log, "started")
    BY <1>1, <2>1 DEF LegalNext, StartsNamed
  <2>3. Status(log) # "running"
    BY <2>2 DEF Status
  <2>4. Status(log) \in {"ready", "cancelling"}
    BY <2>1, <2>3 DEF CanFail
  <2>5. Status(log') = "failed"
    BY <1>1, <2>1, <2>4, StatusAfter
  <2>6. ~Has(log', "started")
    BY <1>1, <2>1, <2>2, HasAppend DEF TypeOK
  <2>7. QED
    BY <2>2, <2>4, <2>5, <2>6
<1>4. QED
  BY <1>2, <1>3

-----------------------------------------------------------------------------
(* The steps of preparations, watchers, cancellations, recoveries,           *)
(* publications and workers leave the runner and the turn alone.             *)

Others == \/ \E q \in Preparations : Prepare(q)
          \/ \E e \in Executions : Watch(e)
          \/ \E c \in Cancels : Cancel(c)
          \/ \E r \in Recoverers : Recover(r)
          \/ \E p \in Publications : Publish(p)
          \/ \E w \in Workers : GiveUp(w)

LEMMA OthersKeep ==
  ASSUME TypeOK, LocksHeld, LocksHeld', Others
  PROVE  Runner' = Runner /\ Turn' = Turn
BY OthersStep, RunnerStays, TurnIs DEF Others, InTurn

LEMMA PrepareStatus ==
  ASSUME TypeOK, IndInv, NEW q \in Preparations, Prepare(q)
  PROVE  \/ Status(log') = Status(log)
         \/ Status(log) = "queued" /\ Status(log') = "admitted"
         \/ Status(log) = "admitted" /\ Status(log') \in {"ready", "failed"}
<1>r. \A t \in {"admitted", "session_bound", "preparation_failed"} :
        Rec(t, NoExecution) \in Record /\ Rec(t, NoExecution).type = t
  BY DEF Rec, Record, RecordTypes, TerminalTypes
<1>b. pc[Preparer(q)] = "bind" => Status(log) = "admitted"
  BY DEF IndInv, ReadsHold
<1>1. CASE OpenForPrepare(q)
  BY <1>1 DEF OpenForPrepare
<1>2. CASE Admit(q)
  <2>1. \/ log' = log
        \/ Status(log) = "queued" /\ log' = Append(log, Rec("admitted", NoExecution))
    BY <1>2 DEF Admit, AppendTransition
  <2>2. QED
    BY <1>r, <2>1, StatusAfter
<1>3. CASE Bind(q)
  <2>1. Status(log) = "admitted"
    BY <1>3, <1>b DEF Bind, Write, Move
  <2>2. log' = log \/ log' = Append(log, Rec("session_bound", NoExecution))
    BY <1>3, WriteAppends DEF Bind
  <2>3. QED
    BY <1>r, <2>1, <2>2, StatusAfter
<1>4. CASE PreparationFails(q)
  <2>1. Status(log) = "admitted"
    BY <1>4, <1>b DEF PreparationFails, Write, Move
  <2>2. log' = log \/ log' = Append(log, Rec("preparation_failed", NoExecution))
    BY <1>4, WriteAppends DEF PreparationFails
  <2>3. QED
    BY <1>r, <2>1, <2>2, StatusAfter
<1>5. QED
  BY <1>1, <1>2, <1>3, <1>4 DEF Prepare

\* A request is accepted once, for a Child that is bound and not terminal.
LEMMA RequestStatus ==
  ASSUME TypeOK, CanRequestCancel(log), LegalNext(log, CancelRequested(log)),
         log' = Append(log, CancelRequested(log))
  PROVE  Status(log) \in {"ready", "running"} /\ Status(log') = "cancelling"
<1>1. CancelRequested(log) \in Record /\ CancelRequested(log).type = "cancel_requested"
  BY WrittenRecords DEF TypeOK, CancelRequested, Rec
<1>2. Has(log, "session_bound")
  BY <1>1 DEF LegalNext
<1>3. Status(log) \in {"ready", "running"}
  BY <1>2, StatusOf DEF CanRequestCancel
<1>4. QED
  BY <1>1, <1>3, StatusAfter

LEMMA WatchStatus ==
  ASSUME TypeOK, NEW e \in Executions, Watch(e)
  PROVE  \/ Status(log') = Status(log)
         \/ Status(log) \in {"ready", "running"} /\ Status(log') = "cancelling"
<1>1. CASE RequestDeadline(e)
  <2>1. \/ log' = log
        \/ /\ CanRequestCancel(log) /\ LegalNext(log, CancelRequested(log))
           /\ log' = Append(log, CancelRequested(log))
    BY <1>1, WriteAppends DEF RequestDeadline
  <2>2. QED
    BY <2>1, RequestStatus
<1>2. CASE ~RequestDeadline(e)
  BY <1>2 DEF Watch, SeeCancelling, WatchFails, SignalToken, DeadlineReached, OpenForDeadline
<1>3. QED
  BY <1>1, <1>2

\* A terminal cancellation ends a requested run that has not ended otherwise.
LEMMA CancelledStatus ==
  ASSUME TypeOK, CanFinishCancelled(log), ~Has(log, "interrupted"),
         log' = Append(log, CancelledTerminal(log))
  PROVE  \/ Status(log') = Status(log)
         \/ Status(log) = "cancelling" /\ Status(log') = "cancelled"
<1>1. /\ CancelledTerminal(log) \in Record /\ CancelledTerminal(log).type = "cancelled_terminal"
      /\ log \in Seq(Record)
  BY WrittenRecords DEF TypeOK, CanFinishCancelled, CancelledTerminal, Rec
<1>2. CASE Status(log) \in TerminalStatuses
  BY <1>1, <1>2, StatusKeptByCancelled
<1>3. CASE Status(log) \notin TerminalStatuses
  <2>1. Status(log) = "cancelling"
    BY <1>3, StatusOf DEF CanFinishCancelled
  <2>2. QED
    BY <1>1, <2>1, StatusAfter
<1>4. QED
  BY <1>2, <1>3

LEMMA CancelRefines ==
  ASSUME TypeOK, IndInv, LocksHeld', NEW c \in Cancels, Cancel(c)
  PROVE  LifecycleStep
<1>k. Runner' = Runner /\ Turn' = Turn
  BY OthersKeep DEF Others, IndInv
<1>1. CASE OpenForCancel(c)
  BY <1>1, <1>k, StatusMoves DEF OpenForCancel
<1>2. CASE CancelQueued(c)
  <2>1. Rec("cancelled", NoExecution) \in Record /\ Rec("cancelled", NoExecution).type = "cancelled"
    BY DEF Rec, Record, RecordTypes, TerminalTypes
  <2>2. Status(log) = "queued" /\ (log' = log \/ log' = Append(log, Rec("cancelled", NoExecution)))
    BY <1>2, WriteAppends DEF CancelQueued
  <2>3. QED
    BY <1>k, <2>1, <2>2, StatusAfter, StatusMoves
<1>3. CASE RequestCancel(c)
  <2>1. \/ log' = log
        \/ /\ CanRequestCancel(log) /\ LegalNext(log, CancelRequested(log))
           /\ log' = Append(log, CancelRequested(log))
    BY <1>3 DEF RequestCancel, AppendTransition, Accepts
  <2>2. QED
    BY <1>k, <2>1, RequestStatus, StatusMoves
<1>4. CASE CancelBeforeStart(c)
  <2>1. ~Has(log, "started")
    BY <1>4 DEF CancelBeforeStart, Write, Move, IndInv, ReadsHold
  <2>2. Runner = NoExecution /\ Turn = "none" /\ ~Has(log, "interrupted")
    <3>1. \A e \in Executions : ~InTurn(e)
      BY <2>1 DEF IndInv, TurnProgress, HasExec, Has
    <3>2. ~TurnVisible /\ ~Has(log, "interrupted")
      BY <2>1 DEF IndInv, TurnProgress, TerminalRecords
    <3>3. QED
      BY <3>1, <3>2, RunnerIs, TurnIs DEF IndInv
  <2>3. log' = log \/ (CanFinishCancelled(log) /\ log' = Append(log, CancelledTerminal(log)))
    BY <1>4, WriteAppends DEF CancelBeforeStart
  <2>4. QED
    BY <1>k, <2>2, <2>3, CancelledStatus, StatusMoves
<1>5. QED
  BY <1>1, <1>2, <1>3, <1>4 DEF Cancel

LEMMA RecoverRefines ==
  ASSUME TypeOK, IndInv, LocksHeld', NEW r \in Recoverers, Recover(r)
  PROVE  LifecycleStep
<1>k. Runner' = Runner /\ Turn' = Turn
  BY OthersKeep DEF Others, IndInv
<1>1. CASE FinishInterrupted(r)
  <2>1. Runner = NoExecution
    <3>1. pc[Recoverer(r)] = "interrupt"
      BY <1>1 DEF FinishInterrupted, Write, Move
    <3>2. \A e \in Executions : ~InTurn(e)
      BY <3>1, ProcessIdentity DEF IndInv, LocksHeld, LeaseHeld, LeaseLabels, InTurn
    <3>3. QED
      BY <3>2, RunnerIs DEF IndInv
  <2>2. /\ Interrupted(log) \in Record /\ Interrupted(log).type = "interrupted"
        /\ log \in Seq(Record)
    BY WrittenRecords DEF TypeOK, Interrupted, Rec
  <2>3. log' = log \/ (CanFinishInterrupted(log) /\ log' = Append(log, Interrupted(log)))
    BY <1>1, WriteAppends DEF FinishInterrupted
  <2>4. CASE Status(log) \in TerminalStatuses
    BY <1>k, <2>2, <2>3, <2>4, StatusKeptByInterrupted, StatusMoves
  <2>5. CASE Status(log) \notin TerminalStatuses
    <3>1. CanFinishInterrupted(log) => Status(log) \in {"running", "cancelling"}
      BY <2>5, StatusOf DEF CanFinishInterrupted
    <3>2. \/ Status(log') = Status(log)
          \/ Status(log) \in {"running", "cancelling"} /\ Status(log') = "interrupted"
      BY <2>2, <2>3, <3>1, StatusAfter
    <3>3. QED
      BY <1>k, <2>1, <3>2, StatusMoves
  <2>6. QED
    BY <2>4, <2>5
<1>2. CASE ~FinishInterrupted(r)
  <2>1. log' = log
    BY <1>2 DEF Recover, CheckRecoverable, AcquireRecoveryLease, OpenForInterrupted
  <2>2. QED
    BY <1>k, <2>1, StatusMoves
<1>3. QED
  BY <1>1, <1>2

LEMMA PublishStatus ==
  ASSUME TypeOK, IndInv, NEW p \in Publications, Publish(p)
  PROVE  Status(log') = Status(log)
<1>1. CASE PublishHandoff(p)
  <2>1. draft[p] \in Record /\ draft[p].type \in {"header", "handoff"} /\ log \in Seq(Record)
    BY DEF TypeOK, IndInv, ReadsHold
  <2>2. log' = log \/ (CanPublish(log) /\ log' = Append(log, draft[p]))
    BY <1>1, WriteAppends DEF PublishHandoff
  <2>3. QED
    BY <2>1, <2>2, StatusKept DEF CanPublish, TerminalTypes
<1>2. CASE ~PublishHandoff(p)
  BY <1>2 DEF Publish, BuildHandoff, OpenForPublish
<1>3. QED
  BY <1>1, <1>2

LEMMA GiveUpRefines ==
  ASSUME TypeOK, IndInv, StartsNamed, LocksHeld', NEW w \in Workers, GiveUp(w)
  PROVE  LifecycleStep
<1>k. Runner' = Runner /\ Turn' = Turn
  BY OthersKeep DEF Others, IndInv
<1>1. CASE log' = log
  BY <1>1, <1>k, StatusMoves
<1>2. CASE log' # log
  <2>1. /\ Status(log) \in {"ready", "cancelling"} /\ Status(log') = "failed"
        /\ ~Has(log, "started")
    BY <1>2, GiveUpStatus
  <2>2. \A e \in Executions : ~InTurn(e)
    BY <2>1 DEF IndInv, TurnProgress, HasExec, Has
  <2>3. Runner = NoExecution
    BY <2>2, RunnerIs DEF IndInv
  <2>4. QED
    BY <1>k, <2>1, <2>3, StatusMoves
<1>3. QED
  BY <1>1, <1>2

LEMMA OthersRefine ==
  ASSUME TypeOK, IndInv, StartsNamed, LocksHeld', Others
  PROVE  LifecycleStep
<1>k. Runner' = Runner /\ Turn' = Turn
  BY OthersKeep DEF IndInv
<1>1. CASE \E q \in Preparations : Prepare(q)
  BY <1>1, <1>k, PrepareStatus, StatusMoves
<1>2. CASE \E e \in Executions : Watch(e)
  BY <1>2, <1>k, WatchStatus, StatusMoves
<1>3. CASE \E c \in Cancels : Cancel(c)
  BY <1>3, CancelRefines
<1>4. CASE \E r \in Recoverers : Recover(r)
  BY <1>4, RecoverRefines
<1>5. CASE \E p \in Publications : Publish(p)
  BY <1>5, <1>k, PublishStatus, StatusMoves
<1>6. CASE \E w \in Workers : GiveUp(w)
  BY <1>6, GiveUpRefines
<1>7. QED
  BY <1>1, <1>2, <1>3, <1>4, <1>5, <1>6 DEF Others

-----------------------------------------------------------------------------
(* The executor: it enters the turn with the start, and leaves it with an    *)
(* outcome, an error or the crash of its process.                            *)

\* A step of one executor that appends nothing: in the turn before and after,
\* out of it before and after, or leaving it with the Session as it was.
LEMMA ExecutorMoves ==
  ASSUME LocksHeld, LocksHeld', NEW e \in Executions,
         \A x \in Executions : x # e => pc'[Executor(x)] = pc[Executor(x)],
         InTurn(e)' => InTurn(e), UNCHANGED <<log, session>>
  PROVE  LifecycleStep
<1>1. Turn' = Turn
  BY TurnIs
<1>2. CASE InTurn(e)' <=> InTurn(e)
  BY <1>1, <1>2, RunnerStays, StatusMoves DEF InTurn
<1>3. CASE InTurn(e) /\ ~InTurn(e)'
  BY <1>1, <1>3, RunnerLeaves, StopStep DEF InTurn
<1>4. QED
  BY <1>2, <1>3

LEMMA StartRefines ==
  ASSUME TypeOK, IndInv, LocksHeld', NEW e \in Executions, StartExecution(e)
  PROVE  LifecycleStep
<1>0. Executor(e) \in Processes /\ Executor(e) # Watcher(e)
  BY ProcessIdentity
<1>x. \A x \in Executions : x # e => pc'[Executor(x)] = pc[Executor(x)]
  BY ExecutorStep DEF Execute
<1>1. PICK ok \in BOOLEAN :
        /\ pc[Executor(e)] = "start"
        /\ AppendTransition(CanStart(log), Started(e), ok)
        /\ pc' = IF ok THEN [pc EXCEPT ![Executor(e)] = "opening",
                                       ![Watcher(e)] = "watching"]
                       ELSE [pc EXCEPT ![Executor(e)] = "closing"]
  BY DEF StartExecution
<1>2. Turn' = Turn /\ session' = session
  BY TurnIs DEF StartExecution
<1>3. CASE CanStart(log) /\ log' = Append(log, Started(e))
  <2>1. Started(e) \in Record /\ Started(e).type = "started"
    BY DEF Started, Rec, Record, RecordTypes, TerminalTypes
  <2>2. Status(log) = "ready" /\ Status(log') = "running"
    BY <1>3, <2>1, StatusAfter DEF CanStart
  <2>3. Runner = NoExecution
    <3>1. \A x \in Executions : ~InTurn(x)
      BY <2>2, ReadyMeans DEF IndInv, TurnProgress, HasExec, Has
    <3>2. QED
      BY <3>1, RunnerIs DEF IndInv
  <2>4. QED
    BY <1>2, <2>2, <2>3, RunnerIsNext
      DEF LifecycleStep, Lifecycle!Next, Lifecycle!Start, Lifecycle!Become
<1>4. CASE log' = log /\ ok = FALSE
  <2>1. pc[Executor(e)] = "start" /\ pc'[Executor(e)] = "closing"
    BY <1>0, <1>1, <1>4 DEF TypeOK
  <2>2. ~InTurn(e)'
    BY <2>1 DEF InTurn, TurnLabels
  <2>3. QED
    BY <1>2, <1>4, <1>x, <2>2, ExecutorMoves DEF IndInv
<1>5. QED
  BY <1>1, <1>3, <1>4 DEF AppendTransition

LEMMA CommitRefines ==
  ASSUME TypeOK, IndInv, LocksHeld', NEW e \in Executions, CommitTurn(e) \/ FailTurn(e)
  PROVE  LifecycleStep
<1>0. Executor(e) \in Processes
  BY ProcessIdentity
<1>x. \A x \in Executions : x # e => pc'[Executor(x)] = pc[Executor(x)]
  BY ExecutorStep DEF Execute
<1>1. pc[Executor(e)] = "turn" /\ log' = log
  BY DEF CommitTurn, FailTurn, Move
<1>2. InTurn(e) /\ Turn = "none"
  BY <1>1, TurnIs DEF InTurn, TurnLabels, IndInv, TurnProgress
<1>3. Runner = e /\ Runner # NoExecution
  BY <1>2, RunnerIs, NoExecutionAssumption DEF IndInv
<1>4. CASE CommitTurn(e)
  <2>1. pc'[Executor(e)] = "returned" /\ session' = "committed"
    BY <1>0, <1>4, MoveMoves DEF CommitTurn
  <2>2. InTurn(e)' /\ Turn' = "committed"
    BY <2>1, TurnIs DEF InTurn, TurnLabels
  <2>3. Runner' = Runner
    BY <1>2, <1>3, <2>2, RunnerIsNext
  <2>4. QED
    BY <1>1, <1>2, <1>3, <2>2, <2>3 DEF LifecycleStep, Lifecycle!Next, Lifecycle!CommitTurn
<1>5. CASE FailTurn(e)
  <2>1. pc'[Executor(e)] = "errored" /\ session' \in {session, "unconfirmed"}
    BY <1>0, <1>5, MoveMoves DEF FailTurn
  <2>2. ~InTurn(e)'
    BY <2>1 DEF InTurn, TurnLabels
  <2>3. Runner' = NoExecution
    BY <1>2, <1>x, <2>2, RunnerLeaves DEF IndInv, InTurn
  <2>4. CASE session' = session
    BY <1>1, <1>3, <2>3, <2>4, TurnIs, StopStep
  <2>5. CASE session' = "unconfirmed"
    BY <1>1, <1>2, <1>3, <2>3, <2>5, TurnIs
      DEF LifecycleStep, Lifecycle!Next, Lifecycle!CommitTurn
  <2>6. QED
    BY <2>1, <2>4, <2>5
<1>6. QED
  BY <1>4, <1>5

LEMMA OutcomeRefines ==
  ASSUME TypeOK, IndInv, LocksHeld', NEW e \in Executions, FinishCompleted(e) \/ FinishCancelled(e)
  PROVE  LifecycleStep
<1>0. Executor(e) \in Processes
  BY ProcessIdentity
<1>x. \A x \in Executions : x # e => pc'[Executor(x)] = pc[Executor(x)]
  BY ExecutorStep DEF Execute
<1>1. /\ pc[Executor(e)] \in {"complete", "finish"} /\ pc'[Executor(e)] \in {"closing", "errored"}
      /\ session' = session
  BY <1>0, CloseMoves DEF FinishCompleted, FinishCancelled
<1>2. InTurn(e) /\ ~InTurn(e)'
  BY <1>1 DEF InTurn, TurnLabels
<1>3. Runner # NoExecution /\ Runner' = NoExecution /\ Turn' = Turn
  BY <1>1, <1>2, <1>x, RunnerLeaves, TurnIs DEF IndInv, InTurn
<1>4. CASE log' = log
  BY <1>3, <1>4, StopStep
<1>5. CASE FinishCompleted(e) /\ log' # log
  <2>1. Completed(e) \in Record /\ Completed(e).type = "completed"
    BY DEF Completed, Rec, Record, RecordTypes, TerminalTypes
  <2>2. CanComplete(log) /\ log' = Append(log, Completed(e))
    BY <1>5, WriteAppends DEF FinishCompleted
  <2>3. Status(log) \in {"running", "cancelling"} /\ Status(log') = "completed"
    BY <2>1, <2>2, StatusAfter DEF CanComplete
  <2>4. Turn = "committed"
    <3>1. pc[Executor(e)] = "complete"
      BY <1>5 DEF FinishCompleted, Write, Move
    <3>2. QED
      BY <3>1, TurnIs DEF IndInv, TurnProgress
  <2>5. QED
    BY <1>3, <2>3, <2>4 DEF LifecycleStep, Lifecycle!Next, Lifecycle!Complete, Lifecycle!Become
<1>6. CASE FinishCancelled(e) /\ log' # log
  <2>1. CanFinishCancelled(log) /\ log' = Append(log, CancelledTerminal(log))
    BY <1>6, WriteAppends DEF FinishCancelled
  <2>2. Turn = "none" /\ ~Has(log, "interrupted")
    <3>1. pc[Executor(e)] = "finish"
      BY <1>6 DEF FinishCancelled, Write, Move
    <3>2. QED
      BY <1>2, <3>1, TurnIs
        DEF IndInv, TurnProgress, TerminalRecords, InterruptedIsAbandoned
  <2>3. CASE Status(log') = Status(log)
    BY <1>3, <2>3, StopStep
  <2>4. CASE Status(log) = "cancelling" /\ Status(log') = "cancelled"
    BY <1>3, <2>2, <2>4 DEF LifecycleStep, Lifecycle!Next, Lifecycle!Cancelled, Lifecycle!Become
  <2>5. QED
    BY <2>1, <2>2, <2>3, <2>4, CancelledStatus
<1>7. QED
  BY <1>4, <1>5, <1>6

LEMMA FailRefines ==
  ASSUME TypeOK, IndInv, FailsStarted, LocksHeld', NEW e \in Executions, FinishFailed(e)
  PROVE  LifecycleStep
<1>0. Executor(e) \in Processes
  BY ProcessIdentity
<1>x. \A x \in Executions : x # e => pc'[Executor(x)] = pc[Executor(x)]
  BY ExecutorStep DEF Execute
<1>1. pc[Executor(e)] = "fail" /\ pc'[Executor(e)] = "closing" /\ session' = session
  BY <1>0, CloseMoves DEF FinishFailed
<1>2. \A x \in Executions : ~InTurn(x) /\ ~InTurn(x)'
  <2>1. ~InTurn(e) /\ ~InTurn(e)' /\ lease = Executor(e)
    BY <1>1 DEF InTurn, TurnLabels, LeaseLabels, IndInv, LocksHeld, LeaseHeld
  <2>2. \A x \in Executions : x # e => ~InTurn(x)
    BY <2>1, ProcessIdentity DEF InTurn, LeaseLabels, IndInv, LocksHeld, LeaseHeld
  <2>3. QED
    BY <1>x, <2>1, <2>2 DEF InTurn
<1>3. Runner = NoExecution /\ Runner' = Runner /\ Turn' = Turn
  BY <1>1, <1>2, RunnerIs, RunnerIsNext, TurnIs DEF IndInv
<1>4. CASE log' = log
  BY <1>3, <1>4, StatusMoves
<1>5. CASE log' # log
  <2>1. Failed(e) \in Record /\ Failed(e).type = "failed"
    BY DEF Failed, Rec, Record, RecordTypes, TerminalTypes
  <2>2. CanFail(log) /\ log' = Append(log, Failed(e))
    BY <1>5, WriteAppends DEF FinishFailed
  <2>3. Has(log, "started")
    BY <1>1 DEF FailsStarted, FailureLabels, HasExec, Has
  <2>4. Status(log) \in {"running", "cancelling"}
    BY <2>2, <2>3, ReadyMeans DEF CanFail
  <2>5. Status(log') = "failed"
    BY <2>1, <2>2, <2>4, StatusAfter
  <2>6. QED
    BY <1>3, <2>4, <2>5, StatusMoves
<1>6. QED
  BY <1>4, <1>5

LEMMA ExecuteRefines ==
  ASSUME TypeOK, IndInv, FailsStarted, LocksHeld', NEW e \in Executions, Execute(e)
  PROVE  LifecycleStep
<1>0. Executor(e) \in Processes /\ Executor(e) # Watcher(e)
  BY ProcessIdentity
<1>x. \A x \in Executions : x # e => pc'[Executor(x)] = pc[Executor(x)]
  BY ExecutorStep
<1>1. CASE CheckReady(e) \/ CloseAdmission(e) \/ OpenSession(e) \/ RouteChanged(e)
           \/ CancelTurn(e) \/ InspectFailure(e)
  <2>1. (InTurn(e)' => InTurn(e)) /\ UNCHANGED <<log, session>>
    BY <1>0, <1>1, MoveMoves DEF CheckReady, CloseAdmission, OpenSession, RouteChanged,
       CancelTurn, InspectFailure, InTurn, TurnLabels
  <2>2. QED
    BY <1>x, <2>1, ExecutorMoves DEF IndInv
<1>2. CASE AcquireExecution(e) \/ CloseExecution(e)
  <2>1. (InTurn(e)' => InTurn(e)) /\ UNCHANGED <<log, session>>
    BY <1>0, <1>2, MoveMoves DEF AcquireExecution, TakeLease, CloseExecution, InTurn,
       TurnLabels, TypeOK
  <2>2. QED
    BY <1>x, <2>1, ExecutorMoves DEF IndInv
<1>3. CASE OpenAdmission(e) \/ OpenForStart(e) \/ OpenForComplete(e)
           \/ OpenForCancelled(e) \/ OpenForFailed(e)
  <2>1. (InTurn(e)' => InTurn(e)) /\ UNCHANGED <<log, session>>
    BY <1>0, <1>3, OpenMoves DEF OpenAdmission, OpenForStart, OpenForComplete,
       OpenForCancelled, OpenForFailed, InTurn, TurnLabels
  <2>2. QED
    BY <1>x, <2>1, ExecutorMoves DEF IndInv
<1>4. QED
  BY <1>1, <1>2, <1>3, StartRefines, CommitRefines, OutcomeRefines, FailRefines DEF Execute

\* A process that dies in its turn stops it; any other death is not seen.
LEMMA CrashRefines ==
  ASSUME TypeOK, IndInv, LocksHeld', Crash
  PROVE  LifecycleStep
<1>1. /\ \A e \in Executions : InTurn(e)' => InTurn(e)
      /\ UNCHANGED <<log, session>>
  BY CrashStep DEF InTurn, TurnLabels
<1>2. Turn' = Turn
  BY <1>1, TurnIs
<1>3. CASE \E e \in Executions : InTurn(e) /\ ~InTurn(e)'
  BY <1>1, <1>2, <1>3, RunnerLeaves, StopStep DEF IndInv
<1>4. CASE \A e \in Executions : InTurn(e)' <=> InTurn(e)
  BY <1>1, <1>2, <1>4, RunnerStays, StatusMoves DEF IndInv
<1>5. QED
  BY <1>1, <1>3, <1>4

-----------------------------------------------------------------------------
(* The refinement.                                                          *)

LEMMA InitRefines ==
  ASSUME Init
  PROVE  Lifecycle!Init /\ FailsStarted /\ StartsNamed
<1>1. \A e \in Executions : pc[Executor(e)] = "idle"
  BY ProcessIdentity DEF Init
<1>2. Runner = NoExecution /\ FailsStarted
  BY <1>1 DEF Runner, InTurn, TurnLabels, FailsStarted, FailureLabels
<1>3. Turn = "none"
  BY DEF Init, Turn
<1>4. Status(log) = "queued"
  <2>1. \A i \in DOMAIN log : log[i].type \in {"header", "delegated"}
    BY DEF Init, Rec
  <2>2. QED
    BY <2>1 DEF Status, Has
<1>5. StartsNamed
  BY DEF Init, Rec, StartsNamed, HasExec
<1>6. QED
  BY <1>2, <1>3, <1>4, <1>5 DEF Lifecycle!Init

LEMMA StepRefines ==
  ASSUME TypeOK, IndInv, IndInv', FailsStarted, StartsNamed, [Next]_vars
  PROVE  LifecycleStep
<1>1. LocksHeld'
  BY DEF IndInv
<1>2. CASE \E e \in Executions : Execute(e)
  BY <1>1, <1>2, ExecuteRefines
<1>3. CASE Crash
  BY <1>1, <1>3, CrashRefines
<1>4. CASE Others
  BY <1>1, <1>4, OthersRefine
<1>5. CASE UNCHANGED vars
  BY <1>1, <1>5, RunnerStays, TurnIs, StatusMoves DEF vars, IndInv, InTurn
<1>6. QED
  BY <1>2, <1>3, <1>4, <1>5 DEF Next, Work, Others

\* The two facts about failures hold in every state.
LEMMA FailuresStarted == Spec => [](FailsStarted /\ StartsNamed)
<1>1. TypeOK /\ IndInv /\ FailsStarted /\ StartsNamed /\ [Next]_vars
        => (FailsStarted /\ StartsNamed)'
  BY FailsStartedStep, StartsNamedStep
<1>2. Init => FailsStarted /\ StartsNamed
  BY InitRefines
<1>3. QED
  BY <1>1, <1>2, TypeCorrect, Inductive, PTL DEF Spec

\* Whoever prepares, executes, cancels, recovers, publishes or gives up a Child
\* Run, and wherever they die, its observers see the lifecycle: the statuses in
\* their order, one runner at a time, completed only on a committed turn and
\* cancelled only on none (ChildRunReplayState.status, ChildRunExecutor.run).
THEOREM RefinesLifecycle == Spec => ImplementsLifecycle
<1>1. Init => Lifecycle!Init
  BY InitRefines
<1>2. TypeOK /\ IndInv /\ IndInv' /\ FailsStarted /\ StartsNamed /\ [Next]_vars
        => [Lifecycle!Next]_(Lifecycle!vars)
  BY StepRefines DEF LifecycleStep
<1>3. QED
  BY <1>1, <1>2, FailuresStarted, TypeCorrect, Inductive, PTL
    DEF Spec, ImplementsLifecycle, Lifecycle!Spec

\* To its Task or Team the Child Run comes to one outcome, once, and completes
\* only after it was prepared, whoever ends it (task_bridge.py, teams.py).
THEOREM RefinesOutcome == Spec => ImplementsOutcome
<1>1. ASSUME Lifecycle!Init PROVE Outcome!Init
  BY <1>1 DEF Lifecycle!Init, Outcome!Init, Told
<1>2. ASSUME LifecycleStep PROVE [Outcome!Next]_(Told(Status(log)))
  <2>1. \/ Status(log') = Status(log)
        \/ Status(log) = "queued" /\ Status(log') \in {"admitted", "cancelled"}
        \/ Status(log) = "admitted" /\ Status(log') \in {"ready", "failed"}
        \/ /\ Status(log) \in {"ready", "running", "cancelling"}
           /\ Status(log') \in {"running", "cancelling", "completed", "failed",
                                "cancelled", "interrupted"}
    BY <1>2 DEF LifecycleStep, Lifecycle!Next, Lifecycle!vars, Lifecycle!Become,
      Lifecycle!Admit, Lifecycle!Withdraw, Lifecycle!MakeReady, Lifecycle!FailPreparation,
      Lifecycle!Start, Lifecycle!RequestCancel, Lifecycle!CommitTurn, Lifecycle!Stop,
      Lifecycle!Complete, Lifecycle!Cancelled, Lifecycle!Fail, Lifecycle!Interrupt
  <2>2. QED
    BY <2>1 DEF Outcome!Next, Outcome!Moves, Told
<1>3. LifecycleStep => [Outcome!Next]_(Told(Status(log)))
  BY <1>2
<1>4. Lifecycle!Init => Outcome!Init
  BY <1>1
<1>5. ImplementsLifecycle => ImplementsOutcome
  BY <1>3, <1>4, PTL DEF ImplementsLifecycle, Lifecycle!Spec, LifecycleStep,
    ImplementsOutcome, Outcome!Spec
<1>6. QED
  BY <1>5, RefinesLifecycle

-----------------------------------------------------------------------------
(* The contract of the background runners: the status and the lease, without *)
(* the records and locks that keep it.                                       *)

ContractStep == [Contract!Next]_(Contract!vars)

Execs == {Executor(e) : e \in Executions}

Recovs == {Recoverer(r) : r \in Recoverers}

\* The contract's steps, said of the transcript's status and of the lease.
LEMMA ContractMoves ==
  ASSUME \/ OwnedStatus' = OwnedStatus /\ lease' \in {lease, Nobody}
         \/ /\ OwnedStatus' = OwnedStatus
            /\ lease = Nobody /\ lease' \in Execs \cup Recovs
         \/ /\ lease' = lease
            /\ \/ OwnedStatus = "queued" /\ OwnedStatus' \in {"admitted", "cancelled"}
               \/ OwnedStatus = "admitted" /\ OwnedStatus' \in {"ready", "failed"}
               \/ OwnedStatus = "ready" /\ OwnedStatus' \in {"withdrawing", "failed"}
               \/ OwnedStatus = "withdrawing" /\ OwnedStatus' \in {"cancelled", "failed"}
               \/ OwnedStatus = "running" /\ OwnedStatus' = "cancelling"
         \/ /\ lease' = lease /\ lease \in Execs
            /\ \/ OwnedStatus = "ready" /\ OwnedStatus' = "running"
               \/ /\ OwnedStatus \in {"running", "cancelling"}
                  /\ OwnedStatus' \in {"completed", "failed"}
               \/ OwnedStatus = "cancelling" /\ OwnedStatus' = "cancelled"
         \/ /\ lease \in Recovs /\ lease' = Nobody
            /\ OwnedStatus \in {"running", "cancelling"} /\ OwnedStatus' = "interrupted"
  PROVE  ContractStep
BY DEF ContractStep, Contract!Next, Contract!vars, Contract!Become, Contract!Prepare,
  Contract!Withdraw, Contract!GiveUp, Contract!Acquire, Contract!Release, Contract!ByOwner,
  Contract!Start, Contract!RequestCancel, Contract!Finish, Contract!Interrupt, Execs, Recovs

\* The status its owners agree on, where the Child was started and where not.
LEMMA OwnedStatusIs ==
  /\ Has(log, "started") => OwnedStatus = Status(log)
  /\ ~Has(log, "started") /\ Status(log) = "cancelling" => OwnedStatus = "withdrawing"
  /\ Status(log) # "cancelling" => OwnedStatus = Status(log)
BY DEF OwnedStatus

LEMMA OwnedStatusIsNext ==
  /\ Has(log', "started") => OwnedStatus' = Status(log')
  /\ ~Has(log', "started") /\ Status(log') = "cancelling" => OwnedStatus' = "withdrawing"
  /\ Status(log') # "cancelling" => OwnedStatus' = Status(log')
BY DEF OwnedStatus

\* No start is added by a record of another type, and none is lost.
LEMMA StartAppend ==
  ASSUME TypeOK, NEW r \in Record, log' = Append(log, r)
  PROVE  Has(log', "started") <=> Has(log, "started") \/ r.type = "started"
BY HasAppend DEF TypeOK

\* A step that leaves status and starts alone leaves the contract's status.
LEMMA OwnedStatusStays ==
  ASSUME Status(log') = Status(log), Has(log', "started") <=> Has(log, "started")
  PROVE  OwnedStatus' = OwnedStatus
BY DEF OwnedStatus

LEMMA PrepareContract ==
  ASSUME TypeOK, IndInv, NEW q \in Preparations, Prepare(q)
  PROVE  ContractStep
<1>1. lease' = lease
  BY DEF Prepare, OpenForPrepare, Admit, Bind, PreparationFails
<1>2. CASE Status(log') # Status(log)
  <2>1. Status(log) # "cancelling" /\ Status(log') # "cancelling"
    BY <1>2, PrepareStatus
  <2>2. OwnedStatus = Status(log) /\ OwnedStatus' = Status(log')
    BY <2>1, OwnedStatusIs, OwnedStatusIsNext
  <2>3. QED
    BY <1>1, <1>2, <2>2, PrepareStatus, ContractMoves
<1>3. CASE Status(log') = Status(log)
  <2>1. \A t \in {"admitted", "session_bound", "preparation_failed"} :
          Rec(t, NoExecution) \in Record /\ Rec(t, NoExecution).type = t
    BY DEF Rec, Record, RecordTypes, TerminalTypes
  <2>2. \/ log' = log
        \/ \E t \in {"admitted", "session_bound", "preparation_failed"} :
             log' = Append(log, Rec(t, NoExecution))
    BY DEF Prepare, OpenForPrepare, Admit, Bind, PreparationFails, Write, AppendTransition
  <2>3. Has(log', "started") <=> Has(log, "started")
    BY <2>1, <2>2, StartAppend
  <2>4. QED
    BY <1>1, <1>3, <2>3, OwnedStatusStays, ContractMoves
<1>4. QED
  BY <1>2, <1>3

\* A request turns a ready Child into one that is withdrawn, a running one into
\* one that is cancelling.
LEMMA RequestContract ==
  ASSUME TypeOK, lease' = lease,
         \/ log' = log
         \/ /\ CanRequestCancel(log) /\ LegalNext(log, CancelRequested(log))
            /\ log' = Append(log, CancelRequested(log))
  PROVE  ContractStep
<1>1. CASE log' = log
  BY <1>1, OwnedStatusStays, ContractMoves
<1>2. CASE /\ CanRequestCancel(log) /\ LegalNext(log, CancelRequested(log))
           /\ log' = Append(log, CancelRequested(log))
  <2>1. CancelRequested(log) \in Record /\ CancelRequested(log).type = "cancel_requested"
    BY WrittenRecords DEF TypeOK, CancelRequested, Rec
  <2>2. Status(log) \in {"ready", "running"} /\ Status(log') = "cancelling"
    BY <1>2, RequestStatus
  <2>3. Has(log', "started") <=> Has(log, "started")
    BY <1>2, <2>1, StartAppend
  <2>4. Status(log) = "ready" <=> ~Has(log, "started")
    BY <2>2, ReadyMeans DEF Status
  <2>5. QED
    BY <2>2, <2>3, <2>4, OwnedStatusIs, OwnedStatusIsNext, ContractMoves
<1>3. QED
  BY <1>1, <1>2

LEMMA WatchContract ==
  ASSUME TypeOK, NEW e \in Executions, Watch(e)
  PROVE  ContractStep
<1>1. lease' = lease
  BY DEF Watch, SeeCancelling, WatchFails, SignalToken, DeadlineReached, OpenForDeadline,
    RequestDeadline
<1>2. \/ log' = log
      \/ /\ CanRequestCancel(log) /\ LegalNext(log, CancelRequested(log))
         /\ log' = Append(log, CancelRequested(log))
  BY WriteAppends DEF Watch, SeeCancelling, WatchFails, SignalToken, DeadlineReached,
    OpenForDeadline, RequestDeadline
<1>3. QED
  BY <1>1, <1>2, RequestContract

\* A terminal cancellation ends a cancelling run, started or not.
LEMMA CancelledContract ==
  ASSUME TypeOK, CanFinishCancelled(log), ~Has(log, "interrupted"), lease' = lease,
         log' = Append(log, CancelledTerminal(log)),
         Has(log, "started") => lease \in Execs
  PROVE  ContractStep
<1>1. CancelledTerminal(log) \in Record /\ CancelledTerminal(log).type = "cancelled_terminal"
  BY WrittenRecords DEF TypeOK, CanFinishCancelled, CancelledTerminal, Rec
<1>2. Has(log', "started") <=> Has(log, "started")
  BY <1>1, StartAppend
<1>3. CASE Status(log') = Status(log)
  BY <1>2, <1>3, OwnedStatusStays, ContractMoves
<1>4. CASE Status(log) = "cancelling" /\ Status(log') = "cancelled"
  BY <1>4, OwnedStatusIs, OwnedStatusIsNext, ContractMoves
<1>5. QED
  BY <1>3, <1>4, CancelledStatus

LEMMA CancelContract ==
  ASSUME TypeOK, IndInv, NEW c \in Cancels, Cancel(c)
  PROVE  ContractStep
<1>0. lease' = lease
  BY DEF Cancel, OpenForCancel, CancelQueued, RequestCancel, CancelBeforeStart
<1>1. CASE OpenForCancel(c)
  BY <1>0, <1>1, OwnedStatusStays, ContractMoves DEF OpenForCancel
<1>2. CASE CancelQueued(c)
  <2>1. Rec("cancelled", NoExecution) \in Record /\ Rec("cancelled", NoExecution).type = "cancelled"
    BY DEF Rec, Record, RecordTypes, TerminalTypes
  <2>2. Status(log) = "queued" /\ (log' = log \/ log' = Append(log, Rec("cancelled", NoExecution)))
    BY <1>2, WriteAppends DEF CancelQueued
  <2>3. CASE log' = log
    BY <1>0, <2>3, OwnedStatusStays, ContractMoves
  <2>4. CASE log' = Append(log, Rec("cancelled", NoExecution))
    <3>1. Status(log') = "cancelled"
      BY <2>1, <2>2, <2>4, StatusAfter
    <3>2. QED
      BY <1>0, <2>2, <3>1, OwnedStatusIs, OwnedStatusIsNext, ContractMoves
  <2>5. QED
    BY <2>2, <2>3, <2>4
<1>3. CASE RequestCancel(c)
  <2>1. \/ log' = log
        \/ /\ CanRequestCancel(log) /\ LegalNext(log, CancelRequested(log))
           /\ log' = Append(log, CancelRequested(log))
    BY <1>3 DEF RequestCancel, AppendTransition, Accepts
  <2>2. QED
    BY <1>0, <2>1, RequestContract
<1>4. CASE CancelBeforeStart(c)
  <2>1. ~Has(log, "started")
    BY <1>4 DEF CancelBeforeStart, Write, Move, IndInv, ReadsHold
  <2>2. ~Has(log, "interrupted")
    BY <2>1 DEF IndInv, TerminalRecords
  <2>3. log' = log \/ (CanFinishCancelled(log) /\ log' = Append(log, CancelledTerminal(log)))
    BY <1>4, WriteAppends DEF CancelBeforeStart
  <2>4. CASE log' = log
    BY <1>0, <2>4, OwnedStatusStays, ContractMoves
  <2>5. QED
    BY <1>0, <2>1, <2>2, <2>3, <2>4, CancelledContract
<1>5. QED
  BY <1>1, <1>2, <1>3, <1>4 DEF Cancel

LEMMA RecoverContract ==
  ASSUME TypeOK, IndInv, NEW r \in Recoverers, Recover(r)
  PROVE  ContractStep
<1>1. CASE CheckRecoverable(r) \/ AcquireRecoveryLease(r) \/ OpenForInterrupted(r)
  <2>1. log' = log /\ (lease' \in {lease, Nobody} \/ (lease = Nobody /\ lease' \in Recovs))
    BY <1>1 DEF CheckRecoverable, AcquireRecoveryLease, TakeLease, OpenForInterrupted, Recovs
  <2>2. QED
    BY <2>1, OwnedStatusStays, ContractMoves
<1>2. CASE FinishInterrupted(r)
  <2>1. lease \in Recovs /\ lease' = Nobody
    <3>1. pc[Recoverer(r)] = "interrupt"
      BY <1>2 DEF FinishInterrupted, Write, Move
    <3>2. QED
      BY <1>2, <3>1 DEF FinishInterrupted, IndInv, LocksHeld, LeaseHeld, Recovs
  <2>2. /\ Interrupted(log) \in Record /\ Interrupted(log).type = "interrupted"
        /\ log \in Seq(Record)
    BY WrittenRecords DEF TypeOK, Interrupted, Rec
  <2>3. log' = log \/ (CanFinishInterrupted(log) /\ log' = Append(log, Interrupted(log)))
    BY <1>2, WriteAppends DEF FinishInterrupted
  <2>4. Has(log', "started") <=> Has(log, "started")
    BY <2>2, <2>3, StartAppend
  <2>5. CASE Status(log') = Status(log)
    BY <2>1, <2>4, <2>5, OwnedStatusStays, ContractMoves
  <2>6. CASE Status(log') # Status(log)
    <3>1. log' = Append(log, Interrupted(log)) /\ Has(log, "started")
      BY <2>3, <2>6 DEF CanFinishInterrupted
    <3>2. Status(log) \notin TerminalStatuses
      BY <2>2, <2>6, <3>1, StatusKeptByInterrupted
    <3>3. Status(log) \in {"running", "cancelling"}
      BY <3>1, <3>2, StatusOf
    <3>4. Status(log') = "interrupted"
      BY <2>2, <3>1, <3>3, StatusAfter
    <3>5. QED
      BY <2>1, <3>1, <3>3, <3>4, OwnedStatusIs, OwnedStatusIsNext, ContractMoves
  <2>7. QED
    BY <2>5, <2>6
<1>3. QED
  BY <1>1, <1>2 DEF Recover

LEMMA PublishContract ==
  ASSUME TypeOK, IndInv, NEW p \in Publications, Publish(p)
  PROVE  ContractStep
<1>1. lease' = lease
  BY DEF Publish, BuildHandoff, OpenForPublish, PublishHandoff
<1>2. draft[p] \in Record /\ draft[p].type # "started"
  BY DEF TypeOK, IndInv, ReadsHold
<1>3. log' = log \/ log' = Append(log, draft[p])
  BY WriteAppends DEF Publish, BuildHandoff, OpenForPublish, PublishHandoff
<1>4. Has(log', "started") <=> Has(log, "started")
  BY <1>2, <1>3, StartAppend
<1>5. QED
  BY <1>1, <1>4, PublishStatus, OwnedStatusStays, ContractMoves

LEMMA GiveUpContract ==
  ASSUME TypeOK, StartsNamed, NEW w \in Workers, GiveUp(w)
  PROVE  ContractStep
<1>1. lease' = lease
  BY DEF GiveUp, InspectReady, OpenForGiveUp, FailReady
<1>2. CASE log' = log
  BY <1>1, <1>2, OwnedStatusStays, ContractMoves
<1>3. CASE log' # log
  BY <1>1, <1>3, GiveUpStatus, OwnedStatusIs, OwnedStatusIsNext, ContractMoves
<1>4. QED
  BY <1>2, <1>3

-----------------------------------------------------------------------------
(* The executor records its start and its outcome while it owns the Child.   *)

LEMMA StartContract ==
  ASSUME TypeOK, IndInv, NEW e \in Executions, StartExecution(e)
  PROVE  ContractStep
<1>1. lease' = lease /\ lease \in Execs
  <2>1. pc[Executor(e)] = "start"
    BY DEF StartExecution
  <2>2. QED
    BY <2>1 DEF StartExecution, IndInv, LocksHeld, LeaseHeld, LeaseLabels, Execs
<1>2. log' = log \/ (CanStart(log) /\ log' = Append(log, Started(e)))
  BY DEF StartExecution, AppendTransition
<1>3. CASE log' = log
  BY <1>1, <1>3, OwnedStatusStays, ContractMoves
<1>4. CASE CanStart(log) /\ log' = Append(log, Started(e))
  <2>1. Started(e) \in Record /\ Started(e).type = "started"
    BY DEF Started, Rec, Record, RecordTypes, TerminalTypes
  <2>2. Status(log) = "ready" /\ Status(log') = "running"
    BY <1>4, <2>1, StatusAfter DEF CanStart
  <2>3. QED
    BY <1>1, <2>2, OwnedStatusIs, OwnedStatusIsNext, ContractMoves
<1>5. QED
  BY <1>2, <1>3, <1>4

LEMMA OutcomeContract ==
  ASSUME TypeOK, IndInv, FailsStarted, NEW e \in Executions,
         FinishCompleted(e) \/ FinishCancelled(e) \/ FinishFailed(e)
  PROVE  ContractStep
<1>1. /\ pc[Executor(e)] \in {"complete", "finish", "fail"}
      /\ lease' = lease
  BY DEF FinishCompleted, FinishCancelled, FinishFailed, Write, Move
<1>2. lease \in Execs
  BY <1>1 DEF IndInv, LocksHeld, LeaseHeld, LeaseLabels, TurnLabels, Execs
<1>3. Has(log, "started")
  BY <1>1 DEF IndInv, TurnProgress, InTurn, TurnLabels, FailsStarted, FailureLabels, HasExec, Has
<1>4. CASE log' = log
  BY <1>1, <1>4, OwnedStatusStays, ContractMoves
<1>5. CASE (FinishCompleted(e) \/ FinishFailed(e)) /\ log' # log
  <2>1. /\ Completed(e) \in Record /\ Completed(e).type = "completed"
        /\ Failed(e) \in Record /\ Failed(e).type = "failed"
    BY DEF Completed, Failed, Rec, Record, RecordTypes, TerminalTypes
  <2>2. \/ CanComplete(log) /\ log' = Append(log, Completed(e))
        \/ CanFail(log) /\ log' = Append(log, Failed(e))
    BY <1>5, WriteAppends DEF FinishCompleted, FinishFailed
  <2>3. Status(log) \in {"running", "cancelling"}
    BY <1>3, <2>2, ReadyMeans DEF CanComplete, CanFail
  <2>4. Status(log') \in {"completed", "failed"}
    BY <2>1, <2>2, <2>3, StatusAfter
  <2>5. QED
    BY <1>1, <1>2, <1>3, <2>3, <2>4, OwnedStatusIs, OwnedStatusIsNext, ContractMoves
<1>6. CASE FinishCancelled(e) /\ log' # log
  <2>1. CanFinishCancelled(log) /\ log' = Append(log, CancelledTerminal(log))
    BY <1>6, WriteAppends DEF FinishCancelled
  <2>2. ~Has(log, "interrupted")
    <3>1. InTurn(e)
      BY <1>6 DEF FinishCancelled, Write, Move, InTurn, TurnLabels
    <3>2. QED
      BY <3>1 DEF IndInv, TerminalRecords, InterruptedIsAbandoned
  <2>3. QED
    BY <1>1, <1>2, <2>1, <2>2, CancelledContract
<1>7. QED
  BY <1>4, <1>5, <1>6

LEMMA ExecuteContract ==
  ASSUME TypeOK, IndInv, FailsStarted, NEW e \in Executions, Execute(e)
  PROVE  ContractStep
<1>1. CASE StartExecution(e)
  BY <1>1, StartContract
<1>2. CASE FinishCompleted(e) \/ FinishCancelled(e) \/ FinishFailed(e)
  BY <1>2, OutcomeContract
<1>3. CASE ~(StartExecution(e) \/ FinishCompleted(e) \/ FinishCancelled(e) \/ FinishFailed(e))
  <2>1. log' = log /\ (lease' \in {lease, Nobody} \/ (lease = Nobody /\ lease' \in Execs))
    BY <1>3 DEF Execute, CheckReady, AcquireExecution, TakeLease, OpenAdmission,
      CloseAdmission, OpenForStart, OpenSession, RouteChanged, CommitTurn, CancelTurn,
      FailTurn, OpenForComplete, OpenForCancelled, InspectFailure, OpenForFailed,
      CloseExecution, Execs
  <2>2. QED
    BY <2>1, OwnedStatusStays, ContractMoves
<1>4. QED
  BY <1>1, <1>2, <1>3

\* Whatever locks, records and crashes do in between, a Child Run moves as the
\* contract says: one owner at a time, started and finished by the executor that
\* owns it, interrupted only by a recovery that owns it, given up or withdrawn
\* only before it was started (ChildRunExecutor.run, ChildRunRecoveryService.recover,
\* PersistentChildWorker._execute).
THEOREM RefinesContract == Spec => KeepsContract
<1>1. Init => Contract!Init
  <2>1. SUFFICES ASSUME Init PROVE Contract!Init
    OBVIOUS
  <2>2. Status(log) = "queued"
    BY <2>1, InitRefines DEF Lifecycle!Init
  <2>3. QED
    BY <2>1, <2>2, OwnedStatusIs DEF Init, Contract!Init
<1>2. ASSUME TypeOK, IndInv, FailsStarted, StartsNamed, [Next]_vars
      PROVE  [Contract!Next]_(Contract!vars)
  <2>1. CASE Crash
    <3>1. log' = log /\ lease' \in {lease, Nobody}
      BY <2>1 DEF Crash, CrashExecutor, CrashCall, Dead
    <3>2. QED
      BY <3>1, OwnedStatusStays, ContractMoves DEF ContractStep
  <2>2. CASE UNCHANGED vars
    BY <2>2, OwnedStatusStays, ContractMoves DEF vars, ContractStep
  <2>3. CASE Work
    BY <1>2, <2>3, PrepareContract, ExecuteContract, WatchContract, CancelContract,
      RecoverContract, PublishContract, GiveUpContract DEF Work, ContractStep
  <2>4. QED
    BY <1>2, <2>1, <2>2, <2>3 DEF Next
<1>3. QED
  BY <1>1, <1>2, FailuresStarted, TypeCorrect, Inductive, PTL
    DEF Spec, KeepsContract, Contract!Spec

-----------------------------------------------------------------------------
(* What the deviations of the code from its documents come to: two states   *)
(* no process leads out of.                                                  *)

\* The request is recorded, the Child was not started, and whoever would have
\* ended it is gone: the Host between its two appends, the worker that gives up.
HalfCancelled ==
  /\ Status(log) = "cancelling" /\ ~Has(log, "started")
  /\ \A c \in Cancels : pc[Canceller(c)] # "withdraw"
  /\ \A w \in Workers : pc[Worker(w)] \notin {"refused", "give_up"}

LEMMA HalfCancelledMeans ==
  ASSUME IndInv, FailsStarted, HalfCancelled
  PROVE  /\ ~CanStart(log) /\ ~CanRequestCancel(log) /\ ~CanPublish(log)
         /\ ~CanFinishInterrupted(log)
         /\ Status(log) \notin {"queued", "admitted", "ready"}
         /\ Has(log, "cancel_requested")
         /\ \A e \in Executions : pc[Executor(e)] \notin TurnLabels \cup FailureLabels
         /\ \A q \in Preparations : pc[Preparer(q)] # "bind"
<1>1. Status(log) = "cancelling" /\ \A e : ~HasExec(log, "started", e)
  BY DEF HalfCancelled, HasExec, Has
<1>2. Has(log, "cancel_requested")
  BY <1>1 DEF Status
<1>3. /\ \A e \in Executions : pc[Executor(e)] \notin TurnLabels \cup FailureLabels
      /\ \A q \in Preparations : pc[Preparer(q)] # "bind"
  BY <1>1 DEF IndInv, TurnProgress, ReadsHold, InTurn, FailsStarted
<1> QED
  BY <1>1, <1>2, <1>3 DEF CanStart, CanRequestCancel, CanPublish, CanFinishInterrupted,
     TerminalStatuses, HalfCancelled

\* A write whose guard fails appends nothing.
LEMMA WriteRefused ==
  ASSUME NEW p, NEW from, NEW r, NEW done, NEW raised, NEW can, ~can,
         Write(p, from, can, r, done, raised)
  PROVE  log' = log
BY DEF Write, AppendTransition

LEMMA HalfCancelledLog ==
  ASSUME TypeOK, IndInv, FailsStarted, HalfCancelled, [Next]_vars
  PROVE  log' = log
<1> USE HalfCancelledMeans
<1>1. ASSUME NEW q \in Preparations, Prepare(q) PROVE log' = log
  <2>1. ~Bind(q) /\ ~PreparationFails(q)
    BY DEF Bind, PreparationFails, Write, Move
  <2> QED
    BY <1>1, <2>1 DEF Prepare, OpenForPrepare, Admit
<1>2. ASSUME NEW e \in Executions, Execute(e) PROVE log' = log
  <2>1. ~FinishCompleted(e) /\ ~FinishCancelled(e) /\ ~FinishFailed(e)
    BY DEF FinishCompleted, FinishCancelled, FinishFailed, Write, Move, TurnLabels, FailureLabels
  <2>2. CASE StartExecution(e)
    BY <2>2 DEF StartExecution, AppendTransition
  <2>3. CASE ~StartExecution(e)
    BY <1>2, <2>1, <2>3 DEF Execute, CheckReady, AcquireExecution, OpenAdmission, CloseAdmission,
       OpenForStart, OpenSession, RouteChanged, CommitTurn, CancelTurn, FailTurn,
       OpenForComplete, OpenForCancelled, InspectFailure, OpenForFailed, CloseExecution
  <2> QED
    BY <2>2, <2>3
<1>3. ASSUME NEW e \in Executions, Watch(e) PROVE log' = log
  BY <1>3, WriteRefused DEF Watch, SeeCancelling, WatchFails, SignalToken, DeadlineReached,
     OpenForDeadline, RequestDeadline
<1>4. ASSUME NEW c \in Cancels, Cancel(c) PROVE log' = log
  <2>1. ~CancelBeforeStart(c)
    BY DEF CancelBeforeStart, Write, Move, HalfCancelled
  <2> QED
    BY <1>4, <2>1 DEF Cancel, OpenForCancel, CancelQueued, RequestCancel, AppendTransition
<1>5. ASSUME NEW r \in Recoverers, Recover(r) PROVE log' = log
  BY <1>5, WriteRefused DEF Recover, CheckRecoverable, AcquireRecoveryLease, OpenForInterrupted,
     FinishInterrupted
<1>6. ASSUME NEW p \in Publications, Publish(p) PROVE log' = log
  BY <1>6, WriteRefused DEF Publish, BuildHandoff, OpenForPublish, PublishHandoff
<1>7. ASSUME NEW w \in Workers, GiveUp(w) PROVE log' = log
  <2>1. ~FailReady(w)
    BY DEF FailReady, Write, Move, HalfCancelled
  <2> QED
    BY <1>7, <2>1 DEF GiveUp, InspectReady, OpenForGiveUp
<1>8. CASE Crash \/ UNCHANGED vars
  BY <1>8, CrashStep DEF vars
<1> QED
  BY <1>1, <1>2, <1>3, <1>4, <1>5, <1>6, <1>7, <1>8 DEF Next, Work

\* Nobody new sets out to end it either.
LEMMA HalfCancelledActors ==
  ASSUME TypeOK, IndInv, FailsStarted, HalfCancelled, [Next]_vars
  PROVE  /\ \A c \in Cancels : pc'[Canceller(c)] # "withdraw"
         /\ \A w \in Workers : pc'[Worker(w)] \notin {"refused", "give_up"}
<1> DEFINE Goal == /\ \A c \in Cancels : pc'[Canceller(c)] # "withdraw"
                   /\ \A w \in Workers : pc'[Worker(w)] \notin {"refused", "give_up"}
<1> USE HalfCancelledMeans
<1>p. /\ \A c \in Cancels : Canceller(c) \in Processes
      /\ \A w \in Workers : Worker(w) \in Processes
      /\ pc \in [Processes -> Labels]
  BY ProcessIdentity DEF TypeOK
<1>k. ASSUME NEW ps, \A c \in Cancels : Canceller(c) \notin ps,
             \A w \in Workers : Worker(w) \notin ps,
             \A x \in Processes : x \notin ps => pc'[x] = pc[x]
      PROVE  Goal
  BY <1>p, <1>k DEF HalfCancelled
<1>1. ASSUME NEW q \in Preparations, Prepare(q) PROVE Goal
  <2>1. \A x \in Processes : x \notin {Preparer(q)} => pc'[x] = pc[x]
    BY <1>1, PrepareMoves
  <2>2. Preparer(q) \notin {Canceller(c) : c \in Cancels} \cup {Worker(w) : w \in Workers}
    BY DEF Preparer, Canceller, Worker
  <2> QED
    BY <1>k, <2>1, <2>2
<1>2. ASSUME NEW e \in Executions, Execute(e) PROVE Goal
  <2>1. \A x \in Processes : x \notin {Executor(e), Watcher(e)} => pc'[x] = pc[x]
    BY <1>2, ExecuteMoves
  <2>2. /\ Executor(e) \notin {Canceller(c) : c \in Cancels} \cup {Worker(w) : w \in Workers}
        /\ Watcher(e) \notin {Canceller(c) : c \in Cancels} \cup {Worker(w) : w \in Workers}
    BY DEF Executor, Watcher, Canceller, Worker
  <2> QED
    BY <1>k, <2>1, <2>2
<1>3. ASSUME NEW e \in Executions, Watch(e) PROVE Goal
  <2>1. \A x \in Processes : x \notin {Watcher(e)} => pc'[x] = pc[x]
    BY <1>3, WatchMoves
  <2>2. Watcher(e) \notin {Canceller(c) : c \in Cancels} \cup {Worker(w) : w \in Workers}
    BY DEF Watcher, Canceller, Worker
  <2> QED
    BY <1>k, <2>1, <2>2
<1>4. ASSUME NEW c \in Cancels, Cancel(c) PROVE Goal
  <2>1. \A x \in Processes : x # Canceller(c) => pc'[x] = pc[x]
    BY <1>4, CancelMoves
  <2>2. pc'[Canceller(c)] # "withdraw"
    <3>1. CASE OpenForCancel(c)
      BY <1>p, <3>1, OpenMoves DEF OpenForCancel
    <3>2. CASE RequestCancel(c)
      BY <1>p, <3>2 DEF RequestCancel, AppendTransition, Move
    <3>3. CASE CancelBeforeStart(c)
      BY <3>3 DEF CancelBeforeStart, Write, Move, HalfCancelled
    <3> QED
      BY <1>4, <3>1, <3>2, <3>3 DEF Cancel, CancelQueued
  <2>3. \A x \in Cancels : x # c => Canceller(x) # Canceller(c)
    BY DEF Canceller
  <2>4. \A w \in Workers : Worker(w) # Canceller(c)
    BY DEF Canceller, Worker
  <2> QED
    BY <1>p, <2>1, <2>2, <2>3, <2>4 DEF HalfCancelled
<1>5. ASSUME NEW r \in Recoverers, Recover(r) PROVE Goal
  <2>1. \A x \in Processes : x \notin {Recoverer(r)} => pc'[x] = pc[x]
    BY <1>5, RecoverMoves
  <2>2. Recoverer(r) \notin {Canceller(c) : c \in Cancels} \cup {Worker(w) : w \in Workers}
    BY DEF Recoverer, Canceller, Worker
  <2> QED
    BY <1>k, <2>1, <2>2
<1>6. ASSUME NEW p \in Publications, Publish(p) PROVE Goal
  <2>1. \A x \in Processes : x \notin {Publisher(p)} => pc'[x] = pc[x]
    BY <1>6, PublishMoves
  <2>2. Publisher(p) \notin {Canceller(c) : c \in Cancels} \cup {Worker(w) : w \in Workers}
    BY DEF Publisher, Canceller, Worker
  <2> QED
    BY <1>k, <2>1, <2>2
<1>7. ASSUME NEW w \in Workers PROVE ~GiveUp(w)
  BY <1>7 DEF GiveUp, InspectReady, OpenForGiveUp, FailReady, Open, Write, Move, HalfCancelled
<1>8. CASE Crash
  <2>1. \A x \in Processes : pc'[x] \in {pc[x], "done", "idle"}
    BY <1>8, <1>p DEF Crash, CrashExecutor, CrashCall
  <2> QED
    BY <1>p, <2>1 DEF HalfCancelled
<1>9. CASE UNCHANGED vars
  BY <1>9 DEF vars, HalfCancelled
<1> HIDE DEF Goal
<1> QED
  BY <1>1, <1>2, <1>3, <1>4, <1>5, <1>6, <1>7, <1>8, <1>9 DEF Next, Work, Goal

\* The Child a Host left between the two appends of request_cancel stays
\* cancelling for ever: no repeated request, executor, recovery or worker ever
\* appends to its transcript again (what CancellingSettles finds, for any
\* number of processes).
THEOREM HalfCancelledForever ==
  Spec => [][HalfCancelled => HalfCancelled' /\ UNCHANGED log]_vars
<1>1. TypeOK /\ IndInv /\ FailsStarted /\ [Next]_vars
        => [HalfCancelled => HalfCancelled' /\ UNCHANGED log]_vars
  BY HalfCancelledLog, HalfCancelledActors DEF HalfCancelled
<1> QED
  BY <1>1, FailuresStarted, TypeCorrect, Inductive, PTL DEF Spec

\* Interrupted after its cancellation, and not yet handed over.
Disputed == Has(log, "interrupted") /\ Has(log, "cancelled_terminal") /\ ~Has(log, "handoff")

\* The handoff of such a Child is never published: its builder derives
\* cancelled, replay demands interrupted (build_child_handoff and
\* replay_child_run_records rank the two records differently).
THEOREM DisputedForever == Spec => [][Disputed => Disputed']_vars
<1>1. TypeOK /\ TypeOK' /\ IndInv /\ Replayable(log) /\ [Next]_vars
        => [Disputed => Disputed']_vars
  <2> SUFFICES ASSUME TypeOK, TypeOK', IndInv, Replayable(log), [Next]_vars, Disputed
               PROVE  Disputed'
    OBVIOUS
  <2>1. CASE log' = log
    BY <2>1 DEF Disputed
  <2>2. ASSUME NEW r \in Record, log' = Append(log, r), Grounds(r), Accepts(log, r)
        PROVE  Disputed'
    <3>1. Has(log, "started") /\ ~Has(log, "cancelled") /\ ~Has(log, "preparation_failed")
      BY BoundWasAdmitted, BoundIsPrepared DEF IndInv, TerminalRecords, Disputed, TypeOK
    <3>2. ~Has(log, "completed") /\ ~Has(log, "failed")
      BY DEF Replayable, WholeLogLegal, NoneOf, Disputed
    <3>3. Status(log) = "cancelled" /\ HandoffOutcome(log) = "interrupted"
      BY <3>1, <3>2 DEF Status, HandoffOutcome, NoneOf, Disputed
    <3>4. r.type # "handoff"
      BY <2>2, <3>3 DEF Grounds, Accepts, LegalNext, LegalHandoff
    <3>5. \A t : Has(log', t) <=> Has(log, t) \/ r.type = t
      BY <2>2, HasAppend DEF TypeOK
    <3> QED
      BY <3>4, <3>5 DEF Disputed
  <2> QED
    BY <2>1, <2>2, GroundedStep
<1> QED
  BY <1>1, AlwaysReplayable, TypeCorrect, Inductive, PTL DEF Spec
=============================================================================
