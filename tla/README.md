# Verification of Coquo

Coquo is a coding agent for one user and one workspace: a model decides, the
Host executes bounded tools, and everything durable is an append-only JSONL
ledger under `.coquo/`, replayed by whoever opens it. There is no daemon and no
database; the processes of a workspace (REPLs, one-shot commands, background
workers) meet only in these files, in advisory `flock` locks beside them, and
in a few in-process threads. That is where the program is hard to test, and
what this directory models: TLA+ modules translated from `src/coquo/`, TLC
configurations that check them on small instances, and TLAPS proofs for every
value of the constants.

All source paths below are relative to `src/coquo/`, all ADRs to
`docs/decisions/`. `PROJECT.json` maps every definition to its source lines.

## 1. The system

### 1.1 Components, their state and their operations

| Component | State | Operations | Correct when |
|---|---|---|---|
| Child Run ledger (`child_run_records.py`, `child_run_store.py`) | one transcript per Child Run, its writer lock, its execution-v2 lease, the Child Session it binds | create, prepare (admit, bind), start, complete, fail, request_cancel, finish_cancelled, finish_interrupted, publish_handoff | one runner; terminal status is final and agrees with the Child Session; a handoff states the outcome |
| Child runtime (`child_runtime.py`, `child_recovery.py`, `child_handoff.py`) | the attempt of one executor, its watcher thread, its cancellation token | run, watch (durable cancel, deadline), recover, publish | a started Child settles; a turn is told to stop; recovery touches abandoned Children only |
| Background runtime (`background_runtime.py`) | the submission queue, a lease per worker slot, the threads of each worker | enqueue, claim, heartbeat, requeue, terminal, run, run_forever, recover_orphans | one pending submission per Child; outcomes agree with the Child ledger and are kept; every submission settles |
| Child supervisor (`child_supervisor.py`) | process-local queue, worker threads, active tokens, notifications | submit, cancel, wait, drain, close | every submission is executed or cancelled at shutdown, one notification each |
| Sessions (`session_records.py`, `session_store.py`, `session.py`) | transcript, pending audits of the running turn, latest pointer, name index | create, resume, append, commit turn, compact, fork, repair tail, diagnose | a turn is committed whole or not at all; a torn tail is dropped, a torn middle refused; a stale resume token is refused |
| Agent loop (`agent/`) | history, effective context, tool budgets, action leases | prepare, model call, tool batch, commit | budgets hold; a result answers the call it belongs to; nothing is executed twice |
| Actions and approvals (`core/`) | a prepared action and its identity, a one-shot grant, its audit records | permission, approve, consume, execute, audit outcome | no mutation without a current grant; every started action has an outcome or is unknown |
| Tasks (`task_*.py`) | the Task ledger: plan, stages, blockers, checks | start, delegate, commit, recover and fail a stage, accept plan, terminate, drive | one active stage; a crashed stage is recovered once |
| Task bridge (`task_bridge.py`) | none of its own: joins a Task stage to a Child or Team | start, run, observe, recover a delegated stage | stage outcome agrees with the Child or Team it was delegated to |
| Teams (`team_*.py`) | the Team ledger: members, work board, assignments, mailbox, schedules; a schedule lease | join, assign, bind, observe, message, schedule, resume, recover, close | dependencies before work; one open assignment per member and item; a schedule's terminal state is final |
| Worktrees (`worktree_*.py`, `git_worktree.py`) | a worktree transcript, its lease, patch artifacts, a Git linked worktree | provision, seal, integrate, recover, retire | a sealed patch is applied once; an interrupted integration is reported unknown, not retried |
| Remote fleet (`remote_fleet*.py`, `tenant.py`) and its predecessor (`remote_workers.py`) | one event ledger: workers, tasks, leases with expiry | register, revoke, submit, dispatch, heartbeat, complete, recover_expired | at most one valid lease per task; a late result changes nothing; concurrency and tenant quotas hold |
| Workflow and recursive orchestration | a stage machine over Tasks, Children, worktrees; a bounded tree of Children | advance, drive, integrate, recover, rework | stages in order; integration after review; recovery is idempotent |
| MCP runtime (`mcp/`) | reusable server processes by generation | execute, synchronize, close | a call runs on the generation it was prepared for |
| Memory (`memory*.py`) | versioned records, installed by rename | create, confirm, update, transition, consolidate, evict | a crash leaves the old or the new version |
| Providers (`providers/`) | current provider, its leases, retry budget | switch, respond, stream, retry | a turn keeps the provider it started with; no retry after visible output |
| Others: evolution, skills and plugins, hooks, observability, file, command, web, browser and read tools, network interfaces, CLI, evals | see `PROJECT.json` | | |

### 1.2 How they interact

- The CLI, the supervisor and the background worker all call
  `ChildRunExecutor.run`; nothing but the execution-v2 lease keeps them apart.
- The executor owns no status: it appends to the Child transcript through
  `ChildRunStore`, which opens an exclusive writer **without waiting**. Whoever
  is second gets an exception, and what its caller does with it is behaviour:
  most of what can go wrong here goes through such a handler.
- The turn commits in another ledger, the Child Session. The two appends are
  not atomic; the Child transcript must tell the Session's story afterwards.
- The queue observes Child Runs and never decides about them, except that a
  worker fails a ready Child it could not execute and interrupts an abandoned
  running one. It keeps copies of items while it does so.
- Tasks and Teams delegate to Children and observe their status and handoff;
  a handoff is delivered to a parent Session with a receipt.
- A process that dies loses its `flock` locks; nothing else is undone.

### 1.3 What is hard to test

`PROJECT.json` lists each hazard at its line. In short: non-blocking locks whose refusal runs an
error handler (`child_runtime.py:761`); a status read before the lock that should protect it
(`child_run_store.py:516`, `background_runtime.py:260`, `:949`, `:978`); two appends where a
crash may come in between (`child_run_store.py:601`); appends that are visible and reported as
failed (`child_run_store.py:1238`); deadline and cancellation against the commit of a turn
(`child_runtime.py:581`); several places deriving an outcome from the same transcript in
different orders of precedence; sagas over two or three ledgers, where any step may be the last
before a crash and any later command or recovery must be able to go on (a Stage of a Task, an
assignment of a Team: `session.py:4245`, `team_service.py:161`); a torn or an uncertain append
behind which a writer must not go on, and does after a `KeyboardInterrupt`
(`session_store.py:2376`, `:2490`); ledgers that heartbeats fill, and whose limits only a reader
enforces (`background_runtime.py:571`, `remote_fleet.py:755`); values read under no lock and
used under one (`task_bridge.py:211`, `team_messaging.py:126`, `team_schedule.py:340`); requests
that arrive after their sender gave up (`remote_fleet.py:568`, `:634`, `:658`); and waits whose
end depends on somebody else (`team_schedule.py:395`, `team_supervisor.py:60`).

## 2. Modules

```
ChildRunLedger            records, status, replay, writer guards
  └─ ChildRun             every process on one transcript
       │                      ──implements──> ChildLifecycle, ChildContract, ChildOutcome
       └─ MCChildRun          (TLC)
ChildRunLedgerProofs      lemmas about replay and status
  └─ ChildRunProofs       types, inductive invariant, safety theorems
       └─ ChildRefinementProofs  ChildRun implements the three; two dead ends
BackgroundQueue           queue, workers, reconciliation ──keeps──> ChildContract, per Child
  ├─ MCBackgroundQueue        (TLC)
  └─ BackgroundQueueProofs
SessionLedger             transcript, writer, resume, turns, Host actions ──implements──> ActionAudit
  ├─ MCSessionLedger          (TLC)
  └─ SessionLedgerProofs
TaskStage                 a Task, the Turns of its Session, its Children (each a ChildOutcome)
  ├─ MCTaskStage              (TLC)
  └─ TaskStageProofs
TeamBoard                 a Team: members, mailbox, work board, assignments (each Child a
  │                       ChildOutcome), schedule waves
  ├─ MCTeamBoard              (TLC)
  └─ TeamBoardProofs
RemoteFleet               coordinator ledger, worker loops, requests under way
  │                       ──implements──> TaskDelivery, per task
  ├─ MCRemoteFleet            (TLC)
  └─ RemoteFleetProofs
```

**ChildRunLedger** has no state. A record is its type, its execution, the
sequence it refers to and the state it quotes; texts, digests, timestamps and
identities that never vary within a run are left out. `Status` is
`ChildRunReplayState.status` with its precedence. `LegalNext` is the loop body
of `replay_child_run_records`, one disjunct per record type, and
`WholeLogLegal` its checks after the loop. `Accepts` is what
`_append_transition` asks before it appends: only the candidate's last record
has to be looked at, since the stored transcript was replayed when the writer
opened it. `CanX` is the writer's own guard of an operation, `X(...)` the
record it appends.

**ChildRun** is one transcript with seven kinds of processes, each with a program
counter in `pc`:

| Process | Code | Labels |
|---|---|---|
| `Executor(e)` | `ChildRunExecutor.run`, one attempt | idle, checked, leased, admission, starting, start, opening, turn, returned, complete, cancelled, finish, errored, failing, fail, closing, done |
| `Watcher(e)` | its `watch` thread | watching, firing, request |
| `Preparer(q)` | `ChildRunStore.prepare` | admit, bind |
| `Canceller(c)` | `ChildRunStore.request_cancel` | decide, withdraw |
| `Recoverer(r)` | `ChildRunRecoveryService.recover`, again and again | checked, owner, interrupt |
| `Publisher(p)` | `publish_child_handoff` | built, publish |
| `Worker(w)` | `PersistentChildWorker._execute`, once its executor raised | refused, give_up |

An action is what happens between two points where another process can get in:
taking or failing to take a lock, one append, one read. `Open` is a
non-blocking writer open with its error branch; `Write` is one guarded append
and the release of the writer on every path; `AppendTransition` covers the
refused append and the unconfirmed one (`ChildRunAppendCommitError`: the
caller sees an error, the record may be there). The Child Session is four
values: absent, empty, unconfirmed (its commit record is visible but the append
raised) and committed. `Crash` is external: it drops the locks of the process
that dies, the watcher included, and nothing else.

**ChildLifecycle** is what observers rely on: the order of statuses, one runner,
and which outcome is allowed with which turn. `ImplementsLifecycle` is the
refinement, with `runner` the executor inside the turn; `ChildRefinementProofs`
proves it.

**ChildContract** is what a Child Run and the background queue agree on: a status and the owner
of the execution lease. Who owns it starts and finishes it, it is interrupted only while no
executor owns it, and a worker may give up one that was not started. `ChildRun` keeps it with
locks and records, `BackgroundQueue` for each of its Children with workers and threads.

**ChildOutcome** is less still, what a Task or a Team asks of a Child: new, prepared, and one
outcome. `ImplementsOutcome` says that `ChildRun` shows no more than that, `TakesOutcomes` of
`TaskStage` and `TeamBoard` that their Children do.

**BackgroundQueue** is one queue under its blocking lock, so every queue
operation is one action. A worker slot is a process (`worker[s]`: reconciling a
snapshot, looping, draining after an error, down) with threads (`task[<<s, t>>]`:
`_execute` around one executor run). What a worker does on an old copy of an
item (`Copy`: the item and the lease it was claimed under) is several actions. `full` says that the
ledger has grown past what its readers accept: any append may be the one that does
it (`Writes`), heartbeats included, and nothing makes it shorter again.
The Child Run is reduced to its status and the owner of its execution lease;
`BeginRun` ... `ReturnFromRun` are the outcomes `ChildRun` allows, including
raising with the Child still running. Lease IDs are recycled: a claim takes one
that nobody carries, which is what a fresh UUID means to those who compare it.

**SessionLedger** is one transcript, the process that holds its writer lock, and what
that process is doing. The lock is exclusive, never waited for, and
nothing of a Session survives it, so processes follow one another and one holder at a
time is all there is to model. A transcript is the state its replay ends in
(`Transcript`); a record type is an operator that gives the states replay may
continue in, none when it refuses the record. `Write` is `SessionWriter._append`:
durable, uncertain (nothing, all, a torn line, or a line that lacks only its newline),
or refused. What is uncertain after an `OSError` poisons the writer; what is
uncertain after a `KeyboardInterrupt` does not (`Interrupt`), so a writer may go on whose own state is
not that of its file (`slipped`), and its next record makes the tail one that replay refuses. An
interruption does not come back where an error does (`Escapes`): it ends a turn, passes hook
handlers, and outside of turns leaves the prompt loop where it was. `PrepareResume` ...
`AppendResumed` are the steps of a resume, `BeginRepair` ... `RepairTranscript` of a
repair, and each may be the last. `RequestAction` ... `FinishAction` are
`ActionCoordinator.run`; a job knows where it returns to (`turn`, `committed`,
`failed`) and whether its caller swallows exceptions, as hook handlers do. Once `tail` is
corrupt, `disk` is what the writer that appended last takes the transcript for.

**ActionAudit** is what a reader of the audit may believe: one action open at a time, an effect
at most once and inside its execution, and what is settled stays settled until the transcript is
lost to its readers. `ImplementsAudit` is the refinement, with the status of each action taken
from the complete lines on disk.

**TaskStage** joins three ledgers: the Stages of a Task, the durable Turns of the owner Session,
and the status of the Child Runs some Stages are delegated to. `host` is the process that holds
the Session (its place, how many Turns it has seen, whether its writer is usable and knows its
file, what usage it captured); `transcript` is the end of the Session's transcript, which
interrupted and failed appends leave as `SessionLedger` says (`Slips`), and behind which Turns
are no longer read (`Readable`) or never again (`Lost`); `bridge[b]` is what one caller of
`TaskOrchestrationService` read and has yet to write. A Turn remembers the Stage whose prompt it
answers, which stands for the digest of its user message. `WriteStages` is an append to the Task
transcript: done, unsure (there, but raised), or lost.

**TeamBoard** is one Team transcript and its sagas. Every append replays the whole transcript
under the lock, so an append is an action whose guard is the replay's; what was decided on an
earlier read is in `cancelling` (callers of `TeamMessagingService.cancel` that found the message
free) and in `coord` (the holder of the schedule lease). Actions that no state belongs to stand
for any caller: the owner's command, a recovery, or the coordinator, which asks for the same
steps. Their appends may raise although the record is there; that is the action followed by
nothing. `coord.pc` walks through `TeamScheduleService.run_started` (`loop`, `dispatch`,
`create`, `admit`, `wait`, `decide`) and `TeamScheduleRun.finish` (`finish`, `retry`), and
through the supervisor before it (`queued`, `stranded`, `shutdown`). A Child is five statuses,
since its life is `ChildRun`'s subject; it may be prepared by the Team (`PrepareChild`) or by
`/child prepare`, which asks for no inbox (`PrepareOutside`, remembered in `outside`). A wave
that runs in the foreground (`coord.fore`) may be interrupted there and leave its lease to a
REPL that goes on (`Interrupt`, `held`). `raced` is a history variable: messages frozen into an
inbox while a cancel of them was under way.

**RemoteFleet** is the coordinator's ledger with its clock, the two threads of each
worker loop (`main` and `beat`) and the requests nobody has handled yet. A request stays
`live` while its sender waits; a sender that gives up leaves it behind, to
be handled later or never, and an answer that gets lost is a sender that gave up
just before. Each coordinator call is one action, because the ledger is read and
appended under one file lock; `Series` is the exception, for `revoke` and
`recover_expired`, which append one event after the other and may stop in between. An append
may return although no later call can read the ledger (`over`, or behind a line without its newline),
so its caller may be told "done" of what nobody will know.
`runs`, `effect`, `report` and `quiet` are history variables.

**TaskDelivery** is the promise to whoever submits a remote task: at most one handler, only
after it was assigned; a recorded outcome that is what this handler did, or "unknown"; no second
outcome. `Delivers` is the refinement, one copy for each task, with nothing of workers, leases,
time or requests.

## 3. Runs

| Run | Instance | Question |
|---|---|---|
| `ChildRunSafety` | 2 executors, 1 preparation, 1 cancellation, 1 recovery service, 1 handoff, 1 background worker, unconfirmed appends, crashes anywhere | `TypeOK`, `OneRunner`, `InterruptedIsAbandoned`, `OutcomeMatchesSession`, `HandoffAgrees`, `TerminalIsFinal`, `ImplementsLifecycle`, `KeepsContract` |
| `ChildRunSettles` | 1 executor, fair threads, a Provider that may block | `TurnIsStopped`, `StartedRunSettles` |
| `BackgroundQueue` | 2 calls on 1 Child, 2 slots with 1 thread, 1 recovery command, 1 fault, a ledger that any append or heartbeat may fill | `TypeOK`, `OnePending`, `TerminalAgrees`, `TerminalIsKept`, `KeepsContract`, `SubmissionsSettle` |
| `SessionLedger` | 2 actions (one that is asked for or allowed by the mode in use, one that is always denied), 1 receipt, 2 interchangeable bindings, 8 records, torn, uncertain and interrupted appends and crashes anywhere | `TypeOK`, `CorruptedBySlip`, `DurableFirst`, `EffectsAuthorized`, `ImplementsAudit` |
| `TaskStage` | 3 Stages, 2 Turns, 2 bridge callers, 2 Children, 1 Host and 1 human criterion, automatic completion, crashes, uncertain and interrupted appends anywhere | `TypeOK`, `TurnBinding`, `Recoverable`, `ExternalEvidence`, `SpendBounded`, `CompletionSound`, `HistoryIsFinal` |
| `TeamBoard` | 2 members, 2 items, 2 assignments, 2 messages, 2 waves, 5 identities or roster changes in all, inboxes of 1, Children prepared by the Team or outside of it, a coordinator that crashes, fails or is interrupted anywhere | `TypeOK`, `OneDelivery`, `WorkEvidence`, `WavesSettled`, `Recoverable`, `CoordinatorEnds` |
| `RemoteFleet` | 1 worker with 2 loops, 1 task, a lease of 2 ticks on a clock of 3, 1 late request, every append outcome | `TypeOK`, `Truthful`, `LeaseCovers`, `RevokedHasNothing`, `OutcomeIsFinal`, `Delivers` |
| `ChildRunLateCancel` | violation | `CommittedTurnWins` (ADR 0134) |
| `ChildRunRecoveryRace` | violation | `OneTerminalRecord` (ADR 0134) |
| `ChildRunPreparation` | violation | `PreparationErrorRecorded` (ADR 0131) |
| `ChildRunStuckCancel` | violation, with fairness | `CancellingSettles` (ADR 0134) |
| `BackgroundQueueUnfinished` | violation | `UnfinishedStaysClaimed` (ADR 0147) |

`CHECK_DEADLOCK FALSE` in the Child runs and in `SessionLedger`, `TaskStage`, `TeamBoard`
and `RemoteFleet`: calls, records, Stages, identities and time are finite
there, so the system stops. The queue's workers are restarted for ever and deadlock is checked.

**Bounds.** In `ChildRun` nothing has to be capped: every call is made once, a
crashed recovery starts again, and replay admits each record type at most once,
so a transcript has at most nine records (`TranscriptIsBounded`). Two executors are the fewest that
can race; a third would be one more loser of the same lease. One recovery
service is enough to race with each of them, because it comes back.
`ChildRunSettles` has one executor, as a second one could only take over a
Child that is not ready any more. In `BackgroundQueue`, `MaxFaults = 1` bounds
crashes, worker loops that raise, and appends that are lost: one fault per
behaviour, at any step. Two slots let a starting worker reconcile beside the
claiming one; three lease IDs serve two slots that carry one copy each. With one Child
the capacity of the queue does not bite (`CanEnqueue` refuses the second
submission first); the proofs hold for every capacity, number of Children,
slots, threads and faults. The size of the ledger needs no bound: `full` may become true with
any append, so also with the first. One limit is enough: a ledger of 8 MiB has fewer
than 20,000 records, as none is as short as 419 bytes, so the limit on their number
(`background_runtime.py:548`) is never met.

`SessionLedger` has eight records: a whole asked action in a turn is six, so it fits with a
resume before or after it, and the limit itself is reached from most states, which is the record
limit hazard. Its two modes are those that decide differently about an overwrite without ending
it at the gate; the second action is denied in both. `TaskStage` has three Stages: two are the
fewest where an old verification or an old observation meets a later Stage, the third lets a
correction follow a reflection. Two durable Turns are one for a Stage and one beside it, before
or after, and those a Session loses do not count. `TurnCost = 2` with `MaxProvider = 2` makes
one Turn overshoot. In `TeamBoard`, `Size` bounds identities and roster changes together and
stands for `MAX_TEAM_RECORDS`, as what does not fit is refused; two of each identity are what
every property that compares two needs, and five of them at a time are a wave with two
assignments of a dependent pair, or two messages for one member with two assignments.
`InboxLimit = 1` makes the second message wait. `RemoteFleet` has two loops that share one
worker identity, the strongest competition for a task; `MaxTime = 3` lets a lease expire with
and without a renewal; one abandoned request can overtake every live one. A second task would
only add the order of the queue and the quota, which the proofs cover for every value.

**Fairness.** Threads that can run do run (`WF` of each process). A Provider call may block for
ever unless its token was requested: `ExecutorFairness` leaves out the turn of an executor
nobody told to stop. Recovery is tried at every Session start and by hand, so it is strongly
fair in its lease, its writer open and its append: it may be refused or crash, but not each
time. The service manager or `run_forever` keeps starting the worker of one slot
(`SF(StartWorker(RecoverySlot))`: also when a recovery command holds it again and again; that
slot is the one recovery uses, the hardest choice, and the other slots may stay down for ever),
and the writer of a Child is not contended every time a worker wants to fail it. That
submissions settle is claimed for a ledger that can still be read, since nothing repairs one
that cannot. Cancellations by the Host, recovery commands and new submissions are never assumed
to happen. In `TeamBoard` the thread of a coordinator goes on (`WF(Coordinate)`): each of its
waits is bounded (`team_schedule.py:395`, thirty seconds), and each call returns or raises. On
the thread of a REPL, Ctrl-C may end it in the middle (`Interrupt`); `CoordinatorEnds` then
stops at `held`, where only the end of the process frees the lease. Nobody else is fair:
members, owners and Children may stop for ever. `SessionLedger`, `TaskStage` and `RemoteFleet`
state safety only: whether a user resumes a Session, recovers a Task or restarts a worker is not
the code's to promise. The clock of `RemoteFleet` never runs backwards, which the code does not
ensure: `_now` reads wall time (`remote_fleet.py:63`). A clock set back would let a loop count
on a lease longer than its seconds, in the ledger as in its copy.

## 4. What the violations show

Each is a statement of the repository that the code does not keep; the
configurations that have `Faults = FALSE` or `MaxFaults = 0` need no failing
append, and the findings in `PROJECT.json` quote the text.

1. `CommittedTurnWins`: `finish_completed` opens the writer without waiting; a
   cancel, deadline or handoff that holds it for a moment turns a committed
   turn into `failed`.
2. `OneTerminalRecord`: recovery checks the status before it holds the lease and
   not again, so `interrupted` may be appended behind `cancelled_terminal`. The
   status stays cancelled (`TerminalIsFinal` holds), but replay then demands
   a handoff that says interrupted while the builder says cancelled, so the
   handoff of such a Child can never be published. `OnlyRecoveryIsSecond` proves
   that this is the only pair of terminal records, `DisputedForever` that its
   handoff never comes, for any number of processes.
3. `PreparationErrorRecorded`: replay allows a preparation failure in a
   transcript of two or three records only; a delegated Child has four.
4. `CancellingSettles`: a Host that dies between the two appends of a
   cancellation before start leaves a Child cancelling for ever: a repeated
   request returns early, and recovery demands a started execution.
   `HalfCancelledForever` proves that then nobody ever appends to it again; the only
   one who still can is a background worker that found it ready before.
5. `UnfinishedStaysClaimed`: every Child status counts as terminal for the
   queue, so the branch that says "queue left claimed" is dead and the submission
   of a running Child is closed; no worker looks at it again.

Met while modelling, and not given a run of their own:

- ADR 0132:24 has the start recorded after route validation; the executor
  appends it before (`child_runtime.py:566`), so a changed route fails the Child
  rather than leaving it ready. `RouteChanged` follows the code.
- ADR 0159:26 wants an orphaned effect recorded as unknown;
  `_reconcile_orphans` records confirmed (`background_runtime.py:998`), and after
  an exception `not-started` is reported whether or not the turn ran
  (`:1036`). `SettleOrphan` and `InspectRaised` follow the code.
- ADR 0147:46 requeues a ready Child after a fresh execution lease proved that
  nobody owns it; the code closes that lease before it requeues
  (`background_runtime.py:976`), so the proof may be stale by then.
  `TerminalIsKept` and `OnePending` hold all the same.
- A worker appends about ten heartbeats a second per claimed item (`background_runtime.py:1099`) to a
  ledger that is never compacted and that every reader refuses beyond 8 MiB (`:571`).
  A heartbeat is some 550 bytes, so about 15,000 of them, 25 minutes of Child
  execution in all, use it up. From then on every operation of the queue raises: no
  outcome is recorded, nothing is claimed or requeued, submissions are refused, and workers end as
  soon as they start. ADR 0147:40 has the heartbeats in the queue and does not
  speak of the limit; `SubmissionsSettle` holds until it is reached, and is false afterwards.
- `run(max_items=...)` never returns while items beyond the limit stay queued.
- **Sessions.** Only an `OSError` poisons a writer (`session_store.py:2376`, `:2514`). A
  `KeyboardInterrupt` inside the write or the fsync leaves the record in the file and a writer
  that does not know of it; `run_turn` then appends `turn_failed` with the same sequence number
  (`agent/runtime.py:336`), the plain REPL goes on with the Session (`cli/repl.py:281`), and
  replay refuses the transcript for ever. `docs/implemented-foundations_en.md:1629` promises for
  fsync that an uncertain one "poisons that writer and requires inspection instead of blind
  retry". `CorruptedBySlip` says that nothing else makes a transcript illegal. The memory
  candidate extraction runs after the commit is durable and is not guarded (`session.py:8131`):
  when it raises, `turn_failed` follows `turn_committed`, its usage is counted twice against
  `docs/implemented-foundations_en.md:787`, and the loop's history lacks a durable turn against
  ADR 0017:34. A tail that lacks only its newline can be neither resumed nor repaired
  (`session_store.py:1444`), and nothing ever gets out of it (`UnrepairableForever`), unless an
  interrupted writer that still holds it tears it. At the record limit `turn_failed` and
  `session_resumed` are refused, so an open action stays open. A failed finish record leaves an
  effect with a known result as outcome-unknown. An admission whose Task was created while the
  record of its acceptance failed can still be rejected (`session.py:3190`), so a rejected
  proposal has a Task, where ADR 0096:30 expects the acceptance to be retried; admission is not
  in the model.
- **Tasks.** A Session that an interruption made unreadable takes the evidence of its open Stage
  with it: `find_turn_evidence` raises, `recover_task` fails, and the Stage can only be given up
  with the Task (`Recoverable` asks for a Session that can be read or resumed). Usage that is
  not of a Turn, such as compaction or memory extraction, is not in `spent` and bounded by
  nothing here. A Turn whose append was uncertain may be durable, yet the live process records
  its Stage failed (ADR 0088 binds that evidence before reporting). A restored plan is
  attributed to the latest `revise` advice even with Stages in between (`session.py:3879`
  against `implemented-foundations_en.md:511`); replay refuses it and the plan can never be
  restored, which takes six Stages (`StaleAdvice` follows the code). A Task with an open
  delegated Stage can be neither cancelled nor recovered, and one that had a delegated Stage can
  start no further Stage, as an external end has no usage (ADR 0146 expects it to go on): proved
  for every budget as `DelegationIsLast`. A crash inside `start_child_stage` leaves a Child no
  Stage names.
- **Teams.** `TeamMessagingService.cancel` looks at live inboxes on one read and appends on
  another (`team_messaging.py:126`, `team_store.py:1093`): a message bound in between is
  cancelled although a Child answers it. Its assignment can then never be observed, its member
  stays busy and the Team cannot close, for good (`StuckForever`). `Recoverable` allows this
  case through `raced`. `/child prepare` prepares the Child of an assignment without a look at
  its inbox (`session.py:2891`, `child_run_store.py:365`): without one it is observed as
  completed with no reply and no delivery (`team_service.py:541`), and an inbox frozen before,
  or afterwards by `prepare_team_assignment`, which takes a ready Child as it is, is one the
  Child was never asked about. Its digest then differs (`team_messaging.py:330`) and the
  assignment is as stuck as the other; `Recoverable` and `OneDelivery` allow this case through
  `outside`. An inbox may also be frozen for a Child that has completed (`late`). Ctrl-C in
  `/team schedule run` passes `run_started`, which handles `Exception` only
  (`team_schedule.py:429`): the wave stays open with its lease held by a REPL that goes on, so
  recovery is refused there and everywhere else until that process ends. A cancel request that
  arrives after the last look, or a pending assignment, makes the replay refuse every `finish`:
  the wave stays open without a lease until somebody recovers it. `submit` of the Team
  supervisor can leave a wave queued with its lease held (`team_supervisor.py:60`, `stranded`).
- **Fleet.** The ledger is never repaired: a torn line, a bare line followed by an
  append, or one event over the limit ends the fleet (`BrokenForever`). The last two are
  reported as done to whoever appended them: a revocation returns, a task is handed out, a
  completion is confirmed, and no later call can read any of it. `heartbeat_lease` and `complete`
  do not ask whether the worker is still active. The reply to a heartbeat carries the task as it was
  before it.
- `worker_missing_terminal_state` is dead: `ChildRunExecutor.run` returns only
  after a terminal append.

## 5. Proofs

The proofs assume what the modules declare: `NoExecutionAssumption`, `NobodyAssumption` (the
absent owner is no process), `FaultsAssumption`, and for the queue `SlotsAssumption` (a slot is
not a thread of a slot, so their leases differ), `TargetAssumption`, `RecoverySlotAssumption`,
`CapacityAssumption`, `MaxFaultsAssumption`; `StageAssumption` for a Task, `Assumptions` for a
Session, `BoardAssumption` for a Team and `FleetAssumption` for the fleet. Sets of processes,
Children, slots and leases are arbitrary, and may be infinite.

**Child Run** (`ChildRunProofs`). `IndInv` has five parts; like the one of the queue it
held on the instance of its run before it was proved, and no run keeps it:

- `LocksHeld`: who is at a label inside a writer or a lease holds it. Everything
  else rests on it: two processes cannot both be between `Open` and `Write`.
- `TurnProgress`: where an executor is says whether its turn is visible.
- `TerminalRecords`: what each terminal record excludes; with `LocksHeld` it
  gives `InterruptedIsAbandoned`, because recovery appends under the lease
  that an executor in its turn would hold.
- `ReadsHold`: what was read before a lock was taken is still true when it is
  used, for instance a publication's draft. This is where stale reads would show.
- `HandoffIsFinal`: a published handoff quotes a status that is terminal and final.

`TerminalIsFinal` is the hard step: the second terminal record of finding 2 is
legal, so finality is a fact about the precedence of `Status`, not about the
guards. `ChildRunLedgerProofs` has the lemmas on what one more record does to
`Has`, `PositionOf` and `Status`; "the first position of a type" needs a least
element, which is taken from well-foundedness of `<` on `Nat`, since
induction over data is out of the provers' reach.

`AlwaysReplayable` and `TranscriptIsBounded` are about the transcript alone. What `Accepts` looks
at is the last record only, so the proof that replay never refuses what was appended
goes through each kind of record: an append leaves the earlier ones
legal (`ChildRunLedgerProofs`) and puts a legal one behind them. A type occurs once, and no
transcript has all of them: the nine come from the pairs of types that replay keeps apart.

`RefinesLifecycle` (`ChildRefinementProofs`) takes the mapping apart: `RunnerIs` says from the
lease who the runner is, `TurnIs` reads the turn off the Child Session, and `StatusAfter`
says what one record makes of the status. Every process that is not an executor leaves
runner and turn alone, so its step is a move of the status (`StatusMoves`). One fact is
needed beyond `IndInv`: `FailsStarted`, an executor on its way to recording a
failure has recorded its start, since the only failure from ready that the lifecycle
has is that of a worker which gives up.

`RefinesOutcome` follows from `RefinesLifecycle`: each of its moves is a move of the outcome or none.
`RefinesContract` maps the holder of the lease to the owner. `HalfCancelledForever` and
`DisputedForever` are action properties of states that are reachable; they show that
findings 4 and 2 are dead ends rather than delays.

**Background queue** (`BackgroundQueueProofs`). `OnePending` is inductive with `CopiesKnown`.
`TerminalAgrees` is not: an outcome is read, and recorded steps later. `ResultsAgree` and
`SettlingAgrees` say that what a thread or a reconciling worker carries is still the outcome of
its Child; they hold because a terminal Child status is never left, and they fail as soon as
somebody reports an append that was refused (the mutant of `FailReady`). `TerminalStays` is the
action property, from the types alone: `requeue` and `terminal` change an item under its claim
only. `ContractKept` adds `Owned` to the invariant: a thread that runs a Child, or a worker that
has proved it abandoned, still holds its lease.

**The seams.** The queue, the Task and the Team each have a Child of their own, smaller than
`ChildRun`. For the queue, both sides are proved to keep one contract (`RefinesContract`,
`ContractKept`), so that nothing the queue takes its Child to do is outside of it, and nothing
the real Child does either. That is agreement on a contract, not a refinement: the queue's Child
need not be able to do all that `ChildRun` can. For Tasks and Teams the seam is closed both
ways. `RefinesOutcome` says that `ChildRun` makes the moves of `ChildOutcome` only;
`OutcomesTaken` that their Children do too; and `AnyOutcomeFits` that any such move, taken at
any moment while nobody else moves, is a step of theirs. So no state of a saga, a wave or a
bridge caller was left out by a Child that could not end just then, or, in a Team, be prepared
from outside. The formulas `ImplementsOutcome` and `TakesOutcomes` held on the instances of the
runs before they were proved, but are in none of their configurations, as the theorems say more.

**Session** (`SessionLedgerProofs`). `IndInv` is `Accounts` (the status of every action fits
what the permission gate and the human said of it, and an effect has been executed), of
the file and of what the writer takes it for, `WriterKnowsFile` (a writer that is neither
poisoned nor interrupted holds exactly what the file holds), `OneExecution` and `KnownFirst`. The
second is why `CorruptedBySlip` holds: the only way to a corrupt line is an append on
top of something else than the writer's own last record, which poisoning excludes for every
append that an error ended, and nothing excludes for one that was interrupted. That
`DurableFirst`, `EffectsAuthorized` and the audit survive such an interruption is the harder part: the
writer then works on its own state, and `Accounts(mem)` says that this is a history as good
as the one on disk. `RefinesAudit` is the refinement theorem: each action maps to one step of
`ActionAudit` or to a stutter, and an interruption to `Interrupt`. `UnrepairableForever`
needs which steps a process takes that found such a tail, and that a usable writer appends behind
one only after an interruption (`slipped`).

**Task Stages** (`TaskStageProofs`). Every safety property of the run is proved. `IndInv` adds
to them what each side may rely on:

- `Locked`: one writer of the transcript at a time; `HostPlace` and `BridgePlace` say
  where the Host and the bridge callers then are. A caller that observed a settled
  Child still finds it delegated in the latest Stage when it gets the lock: such a
  Stage ends without usage, `_budget_exhaustion` refuses every later one, and so a
  stale observation can never settle another Stage (`ExternalEvidence`).
- `OwnTurns`: a Turn that answers the prompt of a Stage is the one right after its baseline. A
  poisoned writer commits no more Turns; one that was interrupted may, but behind a record it
  does not know, where nobody reads them: the Session is then `Lost`. `Recoverable` and
  `TurnBinding` follow.
- `Spending` (for `SpendBounded`): while another Stage may start, what was spent is exactly what is
  recorded; an open Stage adds what its Turn says or what its failure captured. The sum
  over the Stages is a recursive function; that it exists and that two sums of the same
  costs agree is proved from the least index at which they would not
  (`SumExists`, `SumAgrees`), since the induction theorems cannot be cited.

`DelegationIsLast` is the other side of that: a delegated Stage that has ended is a Stage without
usage, and one that is open is the last one anyway.

**Teams** (`TeamBoardProofs`). `WavesSettled` and `Recoverable` are parts of the inductive
invariant; `OneDelivery` and `WorkEvidence` follow from it. What they need besides:

- `Sagas` says how far an assignment and its Child can be from each other at every
  step of the saga. That a Child the Team prepared was given an inbox, that its delivery comes before
  its observation, and that an inbox comes late only for one prepared outside, is here.
- `Mail` says that the inboxes of two attempts that may still deliver are disjoint, which
  only the choice of the inbox (`Bound`) ensures, never the append.
- `Work` ties a pending attempt and its item to each other in both directions, since
  a released or cancelled item may not be one that is still assigned.
- `Round` is about the coordinator. The bound on dispatch after a cancel request is not
  inductive: it holds because what the wave owns outside the round under way was there
  at the request, and a round holds at most `MaxParallel`.
- `Races` says that a message being cancelled while it is in a live inbox was bound
  after the caller looked, which is one of the two exceptions `Recoverable` makes. `StuckForever` is
  what becomes of it, and of the other, an inbox whose Child was prepared outside: no action
  of owner, coordinator, recovery or Child leaves these states. Both are reachable, as TLC shows
  on the instance of the run.

The proofs hold for any numbers of members, items, assignments, messages and waves.

**Remote fleet** (`RemoteFleetProofs`). The invariants are about a task, but the steps are those
of threads and late requests, so `IndInv` says where each of them may be: `LoopShape` and `Sent`
tie a live request to the thread that waits for it, `Untouched` says that a task not handed out
left no trace, `OneHolder` that no two loops act on the same one, `Unsettled` that nobody
reports before its handler has ended, `TrueResults` that what is under way agrees with the
handler, `Copies` bounds each copy of a lease by the ledger's and by the clock, and `Revoked`
that what a returned revocation emptied stays empty in a ledger that can be read, because
`dispatch` asks whether the worker is active. `OutcomesFinal` is the action property.
`DeliveryKept` is the refinement of `TaskDelivery`. It needs one fact more, `Called`: the
handler a loop is in was counted. Most of a fleet's steps are stutters of one task's delivery;
what is left is that a settlement finds the effect its record claims, and that a call finds a
task nobody was ever handed. `HandledAtMostOnce` states that part alone. The proofs hold for any
number of workers, loops, tasks, quotas, profiles and late requests.

**Model-checked only**: liveness (`TurnIsStopped`, `StartedRunSettles`,
`SubmissionsSettle`, `CoordinatorEnds`) and the
violations. Liveness under fairness is beyond the prover.

## 6. What is not modelled

Within the modelled components:

- Child Runs: a transcript torn inside one `os.write` (no operation succeeds on it
  any more, so it is an end state), record and byte bounds, creation and listing, how a
  runtime specification is built.
- Background queue: what a heartbeat says, worker-state files, `max_items`, process launch.
- Sessions: creation and fork, the latest pointer, the name index, diagnosis and
  inspection, what is inside a turn (model calls, tool batches, budgets), compaction beyond its
  record, and admission of Tasks.
- Tasks: plan acceptance and progress, blockers, pause, checkpoints, rename, archive,
  `drive_task`, and Stages delegated to a Team.
- Teams: worktree members and `eligible_members`, roster digests, a torn Team transcript
  (unreadable from then on). Resume of a schedule has no caller outside the tests, but is in the
  model.
- Fleet: drain (`DRAINING` cannot be reached through `register`), listing,
  `last_seen`, HTTP framing and authentication. A `RemoteResult` that cannot be built makes
  `_execute` return without a report, which a lost completion covers.

File locks are taken to work as `flock` does on one machine.

Pure translation (provider wire formats, CLI rendering, argument parsing,
read tools, package validation), operating-system behaviour (sandboxed
commands, sockets, browsers) and offline scoring (`evals/`) stay out: their
difficulty is in the data. They are most of the implementation's lines, and the reason why the
share of lines that definitions map to stays small although the durable ledgers
of Sessions, Children, Tasks, Teams, the queue and the fleet are covered. The
remaining components are in the plan.

## 7. Plan

Done: the Child Run, the background queue, Sessions with their Host actions, Task Stages
with the bridge, Teams, and the remote fleet, with the proofs above. What would come
next, the most consequential first:

1. `ChildSupervisor` (`child_supervisor.py`): between the pop of a submission and the registration of
   its token a cancel finds neither; `close` leaves items in `_submitted`. One
   notification per submission, and shutdown that ends.
2. `Worktree` (`worktree_store.py`, `worktree_integration.py`): the start record, the
   Git command, evidence and outcome, with a crash between any two; applied at most once.
3. The rest of the Task: plans and progress, Team targets of the bridge, and `workflow_orchestration.py`
   on top of Tasks, Children and worktrees.
4. The latest pointer and the name index of Sessions, `MemoryStore`, and the inside of
   a turn (batches and budgets).

Theorems to come: that the queue's Child can do whatever `ChildRun` can at each of its
labels, as `AnyOutcomeFits` says for Tasks and Teams; abstract specifications of a
Task's history and of a Team's work board with their refinements.
