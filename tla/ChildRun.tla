------------------------------ MODULE ChildRun ------------------------------
(***************************************************************************)
(* One Child Run and every process that touches its transcript:             *)
(*                                                                          *)
(*  - preparations  ChildRunStore.prepare                                   *)
(*  - executors     ChildRunExecutor.run, one attempt each                  *)
(*  - watchers      the cancellation/deadline thread of a started executor  *)
(*  - cancels       ChildRunStore.request_cancel                            *)
(*  - recoverers    ChildRunRecoveryService.recover, called again and again *)
(*  - publications  publish_child_handoff                                   *)
(*  - workers       PersistentChildWorker._execute, once its executor raised *)
(*                                                                          *)
(* They share the durable transcript (log), the Child Session, the writer   *)
(* lock on the transcript and the execution-v2 lease. Both locks are taken  *)
(* without waiting: a contender raises, and where that error goes is part   *)
(* of the model. Reading a transcript (inspect) takes no lock.              *)
(***************************************************************************)
EXTENDS ChildRunLedger

CONSTANTS Preparations, Cancels, Recoverers, Publications, Workers,
          Nobody,  \* no process holds the lock
          Faults   \* whether an append may end unconfirmed

VARIABLES log,      \* the transcript, a sequence of records
          writer,   \* the process that holds the transcript's writer lock
          lease,    \* the process that holds the execution-v2 lease
          session,  \* the Child Session and its one turn
          token,    \* token[e]: TurnCancellation of e has been requested
          draft,    \* draft[p]: the handoff publication p has built
          pc        \* where each process is

vars == <<log, writer, lease, session, token, draft, pc>>

Executor(e)  == <<"executor", e>>
Watcher(e)   == <<"watcher", e>>
Canceller(c) == <<"cancel", c>>
Recoverer(r) == <<"recover", r>>
Publisher(p) == <<"publish", p>>
Preparer(q)  == <<"prepare", q>>
Worker(w)    == <<"worker", w>>

Processes ==
  ({"executor", "watcher"} \X Executions) \cup ({"cancel"} \X Cancels)
    \cup ({"recover"} \X Recoverers) \cup ({"publish"} \X Publications)
    \cup ({"prepare"} \X Preparations) \cup ({"worker"} \X Workers)

ASSUME NobodyAssumption == Nobody \notin Processes

ASSUME FaultsAssumption == Faults \in BOOLEAN

\* Labels at which a process holds the writer lock.
WriterLabels == {"admission", "start", "complete", "finish", "fail", "request",
                 "decide", "withdraw", "interrupt", "publish", "admit", "bind",
                 "give_up"}

\* "unconfirmed": the turn's commit record is visible and its append failed.
Sessions == {"absent", "empty", "unconfirmed", "committed"}

TurnVisible == session \in {"unconfirmed", "committed"}

\* Labels at which an executor runs the Child's turn or records its outcome.
TurnLabels == {"opening", "turn", "returned", "complete", "cancelled", "finish"}

LeaseLabels == TurnLabels \cup {"leased", "admission", "starting", "start",
                                "errored", "failing", "fail", "closing"}

Labels == WriterLabels \cup LeaseLabels \cup
  {"idle", "checked", "watching", "firing", "owner", "built", "refused", "done"}

NoDraft == Rec("header", NoExecution)

TypeOK ==
  /\ log \in Seq(Record)
  /\ writer \in Processes \cup {Nobody}
  /\ lease \in Processes \cup {Nobody}
  /\ session \in Sessions
  /\ token \in [Executions -> BOOLEAN]
  /\ draft \in [Publications -> Record]
  /\ pc \in [Processes -> Labels]

\* A Child Run created by the Host, or one delegated by a parent or a team.
Init ==
  /\ log \in {<<Rec("header", NoExecution)>>,
              <<Rec("header", NoExecution), Rec("delegated", NoExecution)>>}
  /\ writer = Nobody
  /\ lease = Nobody
  /\ session = "absent"
  /\ token = [e \in Executions |-> FALSE]
  /\ draft = [p \in Publications |-> NoDraft]
  /\ pc = [p \in Processes |-> "idle"]

-----------------------------------------------------------------------------
(* Steps every process is made of. *)

Move(p, from, to) == pc[p] = from /\ pc' = [pc EXCEPT ![p] = to]

\* ChildRunStore.open: the writer lock, or the error of a contended one.
Open(p, from, to, contended) ==
  \/ Move(p, from, to) /\ writer = Nobody /\ writer' = p
  \/ Move(p, from, contended) /\ writer # Nobody /\ UNCHANGED writer

CloseWriter(p) == writer' = IF writer = p THEN Nobody ELSE writer

\* ChildRunWriter._append_transition. ok is FALSE when the writer's guard or
\* replay refuses the record, and when the append cannot be confirmed
\* (ChildRunAppendCommitError): the record may be visible all the same.
AppendTransition(can, r, ok) ==
  \/ can /\ Accepts(log, r) /\ ok /\ log' = Append(log, r)
  \/ can /\ Accepts(log, r) /\ Faults /\ ~ok /\ log' \in {log, Append(log, r)}
  \/ ~(can /\ Accepts(log, r)) /\ ~ok /\ UNCHANGED log

\* One writer call made under the lock, which is released on every path.
Write(p, from, can, r, done, raised) ==
  \E ok \in BOOLEAN :
    /\ AppendTransition(can, r, ok)
    /\ Move(p, from, IF ok THEN done ELSE raised)
    /\ CloseWriter(p)

-----------------------------------------------------------------------------
(* ChildRunStore.prepare: admit, create the Child Session, bind it; the     *)
(* writer is held throughout.                                               *)

OpenForPrepare(q) ==
  /\ Open(Preparer(q), "idle", "admit", "done")
  /\ UNCHANGED <<log, lease, session, token, draft>>

Admit(q) ==
  /\ \/ /\ Status(log) = "queued"
        /\ \E ok \in BOOLEAN :
             /\ AppendTransition(TRUE, Rec("admitted", NoExecution), ok)
             /\ Move(Preparer(q), "admit", IF ok THEN "bind" ELSE "done")
             /\ IF ok THEN UNCHANGED writer ELSE CloseWriter(Preparer(q))
     \/ /\ Status(log) = "admitted"
        /\ Move(Preparer(q), "admit", "bind")
        /\ UNCHANGED <<log, writer>>
     \/ /\ Status(log) \notin {"queued", "admitted"}
        /\ Move(Preparer(q), "admit", "done")
        /\ CloseWriter(Preparer(q))
        /\ UNCHANGED log
  /\ UNCHANGED <<lease, session, token, draft>>

\* The Child Session is found or created before the binding is appended.
Bind(q) ==
  /\ Write(Preparer(q), "bind", TRUE, Rec("session_bound", NoExecution), "done", "done")
  /\ session' = IF session = "absent" THEN "empty" ELSE session
  /\ UNCHANGED <<lease, token, draft>>

\* The Child Session cannot be created or does not match: the failure is
\* recorded, and the error raised, unless replay refuses the record.
PreparationFails(q) ==
  /\ Write(Preparer(q), "bind", TRUE, Rec("preparation_failed", NoExecution),
           "done", "done")
  /\ session' \in {session, IF session = "absent" THEN "empty" ELSE session}
  /\ UNCHANGED <<lease, token, draft>>

Prepare(q) == OpenForPrepare(q) \/ Admit(q) \/ Bind(q) \/ PreparationFails(q)

-----------------------------------------------------------------------------
(* ChildRunExecutor.run.                                                    *)

\* acquire_execution looks at the status first and takes the lease after it.
CheckReady(e) ==
  /\ Status(log) = "ready"
  /\ Move(Executor(e), "idle", "checked")
  /\ UNCHANGED <<log, writer, lease, session, token, draft>>

\* Faulty: an execution lease someone holds is taken over.
TakeOverLease(p, from, taken, owned) == Move(p, from, taken) /\ lease' = p

TakeLease(p, from, taken, owned) ==
  \/ Move(p, from, taken) /\ lease = Nobody /\ lease' = p
  \/ Move(p, from, owned) /\ lease # Nobody /\ UNCHANGED lease

AcquireExecution(e) ==
  /\ TakeLease(Executor(e), "checked", "leased", "done")
  /\ UNCHANGED <<log, writer, session, token, draft>>

\* _admitted opens a writer only to read the admission.
OpenAdmission(e) ==
  /\ Open(Executor(e), "leased", "admission", "closing")
  /\ UNCHANGED <<log, lease, session, token, draft>>

CloseAdmission(e) ==
  /\ Move(Executor(e), "admission", "starting")
  /\ CloseWriter(Executor(e))
  /\ UNCHANGED <<log, lease, session, token, draft>>

OpenForStart(e) ==
  /\ Open(Executor(e), "starting", "start", "closing")
  /\ UNCHANGED <<log, lease, session, token, draft>>

\* start_execution, then the watcher thread is started.
StartExecution(e) ==
  \E ok \in BOOLEAN :
    /\ pc[Executor(e)] = "start"
    /\ AppendTransition(CanStart(log), Started(e), ok)
    /\ pc' = IF ok THEN [pc EXCEPT ![Executor(e)] = "opening",
                                   ![Watcher(e)] = "watching"]
                   ELSE [pc EXCEPT ![Executor(e)] = "closing"]
    /\ CloseWriter(Executor(e))
    /\ UNCHANGED <<lease, session, token, draft>>

\* The Session is opened and the admitted route validated against it.
OpenSession(e) ==
  /\ Move(Executor(e), "opening", "turn")
  /\ UNCHANGED <<log, writer, lease, session, token, draft>>

RouteChanged(e) ==
  /\ Move(Executor(e), "opening", "errored")
  /\ UNCHANGED <<log, writer, lease, session, token, draft>>

\* The Child Session's prompt commits its one turn and returns the text.
CommitTurn(e) ==
  /\ Move(Executor(e), "turn", "returned")
  /\ session' = "committed"
  /\ UNCHANGED <<log, writer, lease, token, draft>>

\* The prompt stops at a requested token, before its turn commits.
CancelTurn(e) ==
  /\ token[e]
  /\ Move(Executor(e), "turn", "cancelled")
  /\ UNCHANGED <<log, writer, lease, session, token, draft>>

\* The prompt raises: with no turn committed, or with one whose commit could
\* not be confirmed.
FailTurn(e) ==
  /\ Move(Executor(e), "turn", "errored")
  /\ session' \in {session} \cup IF Faults THEN {"unconfirmed"} ELSE {}
  /\ UNCHANGED <<log, writer, lease, token, draft>>

\* Faulty: a token requested after the commit still cancels the run.
OpenForCompleteOrCancelled(e) ==
  /\ Open(Executor(e), "returned", IF token[e] THEN "finish" ELSE "complete", "errored")
  /\ UNCHANGED <<log, lease, session, token, draft>>

\* After the prompt returned, a committed turn is never cancelled: the
\* executor finishes completed whatever was requested meanwhile.
OpenForComplete(e) ==
  /\ Open(Executor(e), "returned", "complete", "errored")
  /\ UNCHANGED <<log, lease, session, token, draft>>

FinishCompleted(e) ==
  /\ Write(Executor(e), "complete", CanComplete(log), Completed(e), "closing", "errored")
  /\ UNCHANGED <<lease, session, token, draft>>

OpenForCancelled(e) ==
  /\ Open(Executor(e), "cancelled", "finish", "closing")
  /\ UNCHANGED <<log, lease, session, token, draft>>

\* A terminal cancellation already recorded is returned, not repeated.
FinishCancelled(e) ==
  /\ Write(Executor(e), "finish", CanFinishCancelled(log), CancelledTerminal(log),
           "closing", "closing")
  /\ UNCHANGED <<lease, session, token, draft>>

InspectFailure(e) ==
  /\ Move(Executor(e), "errored",
          IF Status(log) \in {"cancelling", "running"} THEN "failing" ELSE "closing")
  /\ UNCHANGED <<log, writer, lease, session, token, draft>>

OpenForFailed(e) ==
  /\ Open(Executor(e), "failing", "fail", "closing")
  /\ UNCHANGED <<log, lease, session, token, draft>>

FinishFailed(e) ==
  /\ Write(Executor(e), "fail", CanFail(log), Failed(e), "closing", "closing")
  /\ UNCHANGED <<lease, session, token, draft>>

\* The watcher is told to stop and joined for a moment only: one that is
\* already requesting the deadline's cancellation goes on after the lease.
CloseExecution(e) ==
  /\ pc[Executor(e)] = "closing"
  /\ pc' = [pc EXCEPT ![Executor(e)] = "done",
                      ![Watcher(e)] = IF @ = "watching" THEN "done" ELSE @]
  /\ lease' = Nobody
  /\ UNCHANGED <<log, writer, session, token, draft>>

Execute(e) ==
  \/ CheckReady(e) \/ AcquireExecution(e) \/ OpenAdmission(e) \/ CloseAdmission(e)
  \/ OpenForStart(e) \/ StartExecution(e)
  \/ OpenSession(e) \/ RouteChanged(e) \/ CommitTurn(e) \/ CancelTurn(e) \/ FailTurn(e)
  \/ OpenForComplete(e) \/ FinishCompleted(e)
  \/ OpenForCancelled(e) \/ FinishCancelled(e)
  \/ InspectFailure(e) \/ OpenForFailed(e) \/ FinishFailed(e)
  \/ CloseExecution(e)

-----------------------------------------------------------------------------
(* The watcher thread of a started executor.                                *)

\* It sees a durable cancellation, or fails to read the transcript.
SignalToken(e) ==
  /\ Move(Watcher(e), "watching", "done")
  /\ token' = [token EXCEPT ![e] = TRUE]
  /\ UNCHANGED <<log, writer, lease, session, draft>>

SeeCancelling(e) == Status(log) = "cancelling" /\ SignalToken(e)

WatchFails(e) == SignalToken(e)

DeadlineReached(e) ==
  /\ Move(Watcher(e), "watching", "firing")
  /\ UNCHANGED <<log, writer, lease, session, token, draft>>

\* Faulty: the error of a contended writer keeps the token from being requested.
OpenForDeadlineOnly(e) ==
  /\ Open(Watcher(e), "firing", "request", "done")
  /\ UNCHANGED <<log, lease, session, token, draft>>

\* Whatever request_cancel does, the token is requested.
OpenForDeadline(e) ==
  /\ Open(Watcher(e), "firing", "request", "done")
  /\ token' = IF pc'[Watcher(e)] = "done" THEN [token EXCEPT ![e] = TRUE] ELSE token
  /\ UNCHANGED <<log, lease, session, draft>>

RequestDeadline(e) ==
  /\ Write(Watcher(e), "request", CanRequestCancel(log), CancelRequested(log),
           "done", "done")
  /\ token' = [token EXCEPT ![e] = TRUE]
  /\ UNCHANGED <<lease, session, draft>>

Watch(e) == SeeCancelling(e) \/ WatchFails(e) \/ DeadlineReached(e)
              \/ OpenForDeadline(e) \/ RequestDeadline(e)

-----------------------------------------------------------------------------
(* ChildRunStore.request_cancel by the Host.                                *)

OpenForCancel(c) ==
  /\ Open(Canceller(c), "idle", "decide", "done")
  /\ UNCHANGED <<log, lease, session, token, draft>>

\* A queued Child is cancelled outright.
CancelQueued(c) ==
  /\ Status(log) = "queued"
  /\ Write(Canceller(c), "decide", TRUE, Rec("cancelled", NoExecution), "done", "done")
  /\ UNCHANGED <<lease, session, token, draft>>

\* Otherwise the request is recorded, unless there is one or the Child is
\* terminal; a Child that never started is also made terminal, by a second
\* append under the same writer.
RequestCancel(c) ==
  /\ Status(log) # "queued"
  /\ \E ok \in BOOLEAN :
       /\ AppendTransition(CanRequestCancel(log), CancelRequested(log), ok)
       /\ LET more == ok /\ ~Has(log, "started")
          IN  /\ Move(Canceller(c), "decide", IF more THEN "withdraw" ELSE "done")
              /\ IF more THEN UNCHANGED writer ELSE CloseWriter(Canceller(c))
  /\ UNCHANGED <<lease, session, token, draft>>

CancelBeforeStart(c) ==
  /\ Write(Canceller(c), "withdraw", CanFinishCancelled(log), CancelledTerminal(log),
           "done", "done")
  /\ UNCHANGED <<lease, session, token, draft>>

Cancel(c) == OpenForCancel(c) \/ CancelQueued(c) \/ RequestCancel(c)
               \/ CancelBeforeStart(c)

-----------------------------------------------------------------------------
(* ChildRunRecoveryService.recover.                                         *)

CheckRecoverable(r) ==
  /\ Status(log) \in {"running", "cancelling"}
  /\ Move(Recoverer(r), "idle", "checked")
  /\ UNCHANGED <<log, writer, lease, session, token, draft>>

\* Faulty: recovery goes on without proving that the executor is gone.
SkipRecoveryLease(r) ==
  /\ Move(Recoverer(r), "checked", "owner")
  /\ UNCHANGED <<log, writer, lease, session, token, draft>>

AcquireRecoveryLease(r) ==
  /\ TakeLease(Recoverer(r), "checked", "owner", "idle")
  /\ UNCHANGED <<log, writer, session, token, draft>>

OpenForInterrupted(r) ==
  /\ Open(Recoverer(r), "owner", "interrupt", "idle")
  /\ lease' = IF writer = Nobody THEN lease ELSE Nobody
  /\ UNCHANGED <<log, session, token, draft>>

\* finish_interrupted does not look at the status again.
FinishInterrupted(r) ==
  /\ Write(Recoverer(r), "interrupt", CanFinishInterrupted(log), Interrupted(log),
           "idle", "idle")
  /\ lease' = Nobody
  /\ UNCHANGED <<session, token, draft>>

Recover(r) == CheckRecoverable(r) \/ AcquireRecoveryLease(r)
                \/ OpenForInterrupted(r) \/ FinishInterrupted(r)

-----------------------------------------------------------------------------
(* publish_child_handoff: build from a read, then append under the writer.  *)

BuildHandoff(p) ==
  /\ Status(log) \in TerminalStatuses
  /\ Move(Publisher(p), "idle", "built")
  /\ draft' = [draft EXCEPT ![p] = Handoff(log)]
  /\ UNCHANGED <<log, writer, lease, session, token>>

OpenForPublish(p) ==
  /\ Open(Publisher(p), "built", "publish", "done")
  /\ UNCHANGED <<log, lease, session, token, draft>>

PublishHandoff(p) ==
  /\ Write(Publisher(p), "publish", CanPublish(log), draft[p], "done", "done")
  /\ UNCHANGED <<lease, session, token, draft>>

Publish(p) == BuildHandoff(p) \/ OpenForPublish(p) \/ PublishHandoff(p)

-----------------------------------------------------------------------------
(* A background worker whose executor raised fails a Child it found ready,   *)
(* under no execution; by then the Child may have been started or cancelled. *)

InspectReady(w) ==
  /\ Status(log) = "ready"
  /\ Move(Worker(w), "idle", "refused")
  /\ UNCHANGED <<log, writer, lease, session, token, draft>>

OpenForGiveUp(w) ==
  /\ Open(Worker(w), "refused", "give_up", "done")
  /\ UNCHANGED <<log, lease, session, token, draft>>

FailReady(w) ==
  /\ Write(Worker(w), "give_up", CanFail(log), Failed(NoExecution), "done", "done")
  /\ UNCHANGED <<lease, session, token, draft>>

GiveUp(w) == InspectReady(w) \/ OpenForGiveUp(w) \/ FailReady(w)

-----------------------------------------------------------------------------
(* A process dies: the operating system drops its locks. An executor takes  *)
(* its watcher with it; a recovery is tried again later.                    *)

Dead(ps) ==
  /\ writer' = IF writer \in ps THEN Nobody ELSE writer
  /\ lease' = IF lease \in ps THEN Nobody ELSE lease
  /\ UNCHANGED <<log, session, token, draft>>

CrashExecutor(e) ==
  /\ pc[Executor(e)] \notin {"idle", "done"}
  /\ pc' = [pc EXCEPT ![Executor(e)] = "done", ![Watcher(e)] = "done"]
  /\ Dead({Executor(e), Watcher(e)})

CrashCall(p, to) ==
  /\ pc[p] \notin {"idle", "done"}
  /\ pc' = [pc EXCEPT ![p] = to]
  /\ Dead({p})

Crash == \/ \E e \in Executions : CrashExecutor(e)
         \/ \E q \in Preparations : CrashCall(Preparer(q), "done")
         \/ \E c \in Cancels : CrashCall(Canceller(c), "done")
         \/ \E r \in Recoverers : CrashCall(Recoverer(r), "idle")
         \/ \E p \in Publications : CrashCall(Publisher(p), "done")
         \/ \E w \in Workers : CrashCall(Worker(w), "done")

Work == \/ \E q \in Preparations : Prepare(q)
        \/ \E e \in Executions : Execute(e) \/ Watch(e)
        \/ \E c \in Cancels : Cancel(c)
        \/ \E r \in Recoverers : Recover(r)
        \/ \E p \in Publications : Publish(p)
        \/ \E w \in Workers : GiveUp(w)

Next == Work \/ Crash

Spec == Init /\ [][Next]_vars

\* A recovery may be refused, die or fail to append, but not every time it is
\* tried: each Session start tries again.
RecoveryFairness(r) ==
  /\ WF_vars(Recover(r))
  /\ SF_vars(AcquireRecoveryLease(r))
  /\ SF_vars(OpenForInterrupted(r))
  /\ SF_vars(FinishInterrupted(r) /\ log' # log)

\* A turn that is told to stop ends; a Provider may otherwise block for ever.
ExecutorFairness(e) == WF_vars(Execute(e) /\ (pc[Executor(e)] = "turn" => token[e]))

\* Every thread runs, the watcher beside a blocked Provider call included.
FairSpec == /\ Spec
            /\ \A q \in Preparations : WF_vars(Prepare(q))
            /\ \A e \in Executions : ExecutorFairness(e) /\ WF_vars(Watch(e))
            /\ \A c \in Cancels : WF_vars(Cancel(c))
            /\ \A r \in Recoverers : RecoveryFairness(r)
            /\ \A p \in Publications : WF_vars(Publish(p))
            /\ \A w \in Workers : WF_vars(GiveUp(w))

-----------------------------------------------------------------------------
(* What the Child Run promises.                                             *)

InTurn(e) == pc[Executor(e)] \in TurnLabels

\* Only the one executor whose start the transcript records runs the Child's
\* turn, and it holds the execution lease while it does (ADR 0132: duplicate
\* foreground runners are rejected).
OneRunner ==
  \A e \in Executions : InTurn(e) => lease = Executor(e) /\ HasExec(log, "started", e)

\* Recovery interrupts abandoned executions only: once the transcript says
\* interrupted, nobody is still working on the turn (ADR 0134).
InterruptedIsAbandoned ==
  Has(log, "interrupted") => \A e \in Executions : ~InTurn(e)

\* The terminal outcome and the Child Session tell the same story: completed
\* only with a committed turn, cancelled only without one (ADR 0132, 0134).
OutcomeMatchesSession ==
  /\ Status(log) = "completed" => session = "committed"
  /\ Status(log) = "cancelled" => ~TurnVisible

\* The Child Run implements the lifecycle its observers rely on: the runner is
\* the executor inside the turn.
Runner == IF \E e \in Executions : InTurn(e)
            THEN CHOOSE e \in Executions : InTurn(e) ELSE NoExecution

Turn == CASE session = "committed" -> "committed"
          [] session = "unconfirmed" -> "visible"
          [] OTHER -> "none"

Lifecycle == INSTANCE ChildLifecycle
  WITH Runners <- Executions, NoRunner <- NoExecution,
       status <- Status(log), runner <- Runner, turn <- Turn

ImplementsLifecycle == Lifecycle!Spec

\* The Child Run keeps the contract its background runners were written to; a
\* request to cancel a Child that was not started is a status of its own there.
OwnedStatus == IF Status(log) = "cancelling" /\ ~Has(log, "started")
                 THEN "withdrawing" ELSE Status(log)

Contract == INSTANCE ChildContract
  WITH Executors <- {Executor(e) : e \in Executions},
       Provers <- {Recoverer(r) : r \in Recoverers},
       status <- OwnedStatus, owner <- lease

KeepsContract == Contract!Spec

\* To the Task or Team it belongs to, the Child Run is its outcome to come.
Told(status) ==
  CASE status \in {"queued", "admitted"}              -> "new"
    [] status \in {"ready", "running", "cancelling"}  -> "prepared"
    [] status = "completed"                           -> "completed"
    [] status \in {"failed", "cancelled", "interrupted"} -> "stopped"

Outcome == INSTANCE ChildOutcome WITH outcome <- Told(Status(log))

ImplementsOutcome == Outcome!Spec

\* A published handoff states the outcome the transcript has, now and after
\* whatever is still appended behind it (ADR 0135).
HandoffAgrees ==
  \A i \in DOMAIN log : log[i].type = "handoff" => log[i].state = Status(log)

\* A terminal status never changes, whoever still writes.
TerminalIsFinal ==
  [][Status(log) \in TerminalStatuses => Status(log') = Status(log)]_vars

\* Every turn ends or is told to stop, though the Provider never answers: the
\* watcher turns a durable request, its deadline or its own error into the
\* executor's token (ADR 0134).
TurnIsStopped ==
  \A e \in Executions : pc[Executor(e)] = "turn" ~> token[e] \/ pc[Executor(e)] # "turn"

\* A started Child Run settles: its executor records an outcome or, when it
\* could not, recovery does.
StartedRunSettles == Has(log, "started") ~> Status(log) \in TerminalStatuses

-----------------------------------------------------------------------------
(* The inductive invariant behind OneRunner, InterruptedIsAbandoned,        *)
(* OutcomeMatchesSession, HandoffAgrees and TerminalIsFinal.                *)

\* Whoever is inside a writer or acts on a lease holds it.
WriterHeld == \A p \in Processes : pc[p] \in WriterLabels => writer = p

LeaseHeld ==
  /\ \A e \in Executions : pc[Executor(e)] \in LeaseLabels => lease = Executor(e)
  /\ \A r \in Recoverers :
       pc[Recoverer(r)] \in {"owner", "interrupt"} => lease = Recoverer(r)

LocksHeld == WriterHeld /\ LeaseHeld

\* Where the executor is tells whether the turn is already visible.
TurnProgress ==
  /\ \A e \in Executions : InTurn(e) => HasExec(log, "started", e)
  /\ \A e \in Executions :
       pc[Executor(e)] \in {"opening", "turn", "cancelled", "finish"} => ~TurnVisible
  /\ \A e \in Executions :
       pc[Executor(e)] \in {"returned", "complete"} => session = "committed"
  /\ TurnVisible => Has(log, "started")

\* What the terminal records exclude.
TerminalRecords ==
  /\ InterruptedIsAbandoned
  /\ Has(log, "interrupted") => Has(log, "started")
  /\ Has(log, "completed") => session = "committed"
  /\ Has(log, "cancelled") => ~Has(log, "started")
  /\ Has(log, "cancelled_terminal") =>
       ~TurnVisible /\ \A e \in Executions : pc[Executor(e)] \notin {"opening", "turn"}

\* What a process has read stays true while it holds the writer, and a
\* terminal status stays true without it.
ReadsHold ==
  /\ \A c \in Cancels : pc[Canceller(c)] = "withdraw" => ~Has(log, "started")
  /\ \A q \in Preparations : pc[Preparer(q)] = "bind" => Status(log) = "admitted"
  /\ \A p \in Publications :
       /\ draft[p].type \in {"header", "handoff"}
       /\ pc[Publisher(p)] \in {"built", "publish"} =>
            draft[p].state = Status(log) /\ Status(log) \in TerminalStatuses

HandoffIsFinal ==
  \A i \in DOMAIN log : log[i].type = "handoff" =>
    log[i].state = Status(log) /\ Status(log) \in TerminalStatuses

\* Everything the proofs carry from step to step, beside the types.
IndInv == LocksHeld /\ TurnProgress /\ TerminalRecords /\ ReadsHold /\ HandoffIsFinal

-----------------------------------------------------------------------------
(* What the repository says of a Child Run and the code does not keep.      *)

\* ADR 0134: a committed turn wins a late cancellation request. When the
\* request holds the writer lock as the executor comes to record completed,
\* the executor's error handler records failed.
CommittedTurnWins ==
  session = "committed" /\ Has(log, "cancel_requested") => Status(log) # "failed"

\* ADR 0134: recovery appends interrupted to nonterminal runs only. It takes
\* its lease after looking at the status, and does not look again.
OneTerminalRecord ==
  \A i, j \in DOMAIN log :
    log[i].type \in TerminalTypes /\ log[j].type \in TerminalTypes => i = j

\* ADR 0131: a known preparation error is recorded and derives failed. Replay
\* refuses the record for a Child that also has a delegation record.
PreparationErrorRecorded ==
  [][\A q \in Preparations : PreparationFails(q) => Status(log') = "failed"]_vars

\* ADR 0134: cancelling lasts while a Provider call is blocked. A Host that
\* dies between the two appends of a cancellation before start leaves the
\* Child cancelling with nobody to finish it.
CancellingSettles == Status(log) = "cancelling" ~> Status(log) \in TerminalStatuses
=============================================================================
