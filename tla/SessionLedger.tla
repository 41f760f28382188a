--------------------------- MODULE SessionLedger ---------------------------
(***************************************************************************)
(* One Session transcript, the process that holds its writer lock to        *)
(* resume, write, repair or close it (session_records.py, session_store.py) *)
(* and the turns and Host actions this process records in it                *)
(* (agent/runtime.py, core/action_coordinator.py, session.py). The lock is  *)
(* exclusive and never waited for, and a process keeps nothing of a         *)
(* Session it let go of, so one holder at a time is all there is.           *)
(*                                                                          *)
(* A transcript is the state its replay ends in. A record type is an        *)
(* operator that gives the states replay may continue in after it: one, or  *)
(* none when replay refuses the record. Identities, texts, usage, hook and  *)
(* naming details that no lifecycle depends on are left out.                *)
(***************************************************************************)
EXTENDS Naturals, FiniteSets

CONSTANTS Action, NoAction,    \* action request IDs
          Receipt,             \* receipts a Session records once
          Binding,             \* runtime bindings
          NoRequest,           \* an action no record has requested
          Modes,               \* the permission and approval modes in use
          ClassOf,             \* the permission class of an action
          MaxRecords           \* MAX_RECORDS

Permissions == {"read-only", "workspace-write", "danger-full-access"}

Classes == {"workspace-read", "workspace-create", "workspace-overwrite",
            "workspace-move", "workspace-delete", "network-read",
            "network-write", "dangerous", "unknown"}

ASSUME Assumptions ==
  /\ NoAction \notin Action
  /\ Modes \subseteq [permission: Permissions, approval: {"ask", "auto"}]
  /\ ClassOf \in [Action -> Classes]
  /\ NoRequest \notin [mode: Modes, lease: Binding]
  /\ MaxRecords \in Nat

-----------------------------------------------------------------------------
(* The permission gate. *)

Denied(class, mode) ==
  \/ class = "unknown"
  \/ class # "workspace-read" /\ mode.permission = "read-only"
  \/ /\ class \in {"network-read", "network-write", "dangerous"}
     /\ mode.permission # "danger-full-access"

Evaluate(class, mode) ==
  IF Denied(class, mode) THEN "deny"
  ELSE IF class # "workspace-read" /\ mode.approval = "ask" THEN "ask" ELSE "allow"

-----------------------------------------------------------------------------
(* Replay. *)

OpenStatus == {"requested", "awaiting-approval", "authorized", "approved", "executing"}
Outcomes == {"succeeded", "failed", "partial"}
Settled == Outcomes \cup {"denied", "rejected", "cancelled", "abandoned", "outcome-unknown"}
Status == {"unused"} \cup OpenStatus \cup Settled

Request == [mode: Modes, lease: Binding]

Transcript == [status: [Action -> Status], request: [Action -> Request \cup {NoRequest}],
               live: Action \cup {NoAction}, binding: Binding, turns: Nat,
               receipts: SUBSET Receipt, closed: BOOLEAN, next: Nat]

Fresh(b) == [status |-> [a \in Action |-> "unused"],
             request |-> [a \in Action |-> NoRequest],
             live |-> NoAction, binding |-> b, turns |-> 0,
             receipts |-> {}, closed |-> FALSE, next |-> 1]

Replayed(legal, t) == IF legal THEN {[t EXCEPT !.next = @ + 1]} ELSE {}

\* Only recovery and session_resumed may follow session_closed.
Room(t) == t.next < MaxRecords /\ ~t.closed
Idle(t) == Room(t) /\ t.live = NoAction

\* Faulty form for a mutation run: a status that is none of the audit's.
InterruptedMisnamed(t) ==
  IF t.live = NoAction THEN t
  ELSE [t EXCEPT !.status[t.live] = "interrupted", !.live = NoAction]

\* Faulty form for a mutation run: an interrupted execution counts as abandoned.
InterruptedAbandoned(t) ==
  IF t.live = NoAction THEN t
  ELSE [t EXCEPT !.status[t.live] = "abandoned", !.live = NoAction]

Interrupted(t) ==
  IF t.live = NoAction THEN t
  ELSE [t EXCEPT !.status[t.live] = IF @ = "executing" THEN "outcome-unknown" ELSE "abandoned",
                 !.live = NoAction]

TurnCommitted(t, b) == Replayed(Idle(t), [t EXCEPT !.turns = @ + 1, !.binding = b])

TurnFailed(t, b) == Replayed(Room(t), [Interrupted(t) EXCEPT !.binding = b])

RuntimeChanged(t, b) == Replayed(Idle(t), [t EXCEPT !.binding = b])

\* session_named, session_archive_changed, session_pin_changed.
Described(t) == Replayed(Idle(t), t)

ContextCompacted(t, b) == Replayed(Idle(t), [t EXCEPT !.binding = b])

CompactionFailed(t, b) == Replayed(Idle(t) /\ b = t.binding, t)

\* task_admission_resolved, child_handoff_delivered, child_delegation_decided,
\* team_control_decided, team_message_delivered_to_parent.
Received(t, c) ==
  Replayed(Idle(t) /\ c \notin t.receipts, [t EXCEPT !.receipts = @ \cup {c}])

SessionClosed(t) == Replayed(Idle(t), [t EXCEPT !.closed = TRUE])

Recovery(t) == Replayed(t.next < MaxRecords, t)

SessionResumed(t, b) ==
  Replayed(t.next < MaxRecords, [Interrupted(t) EXCEPT !.binding = b, !.closed = FALSE])

ActionRequested(t, a, q, b) ==
  Replayed(Idle(t) /\ t.status[a] = "unused" /\ b = t.binding /\ q.lease = b,
           [t EXCEPT !.status[a] = "requested", !.request[a] = q, !.live = a])

PermissionDecided(t, a, d) ==
  Replayed(/\ Room(t) /\ t.status[a] = "requested"
           /\ d = Evaluate(ClassOf[a], t.request[a].mode),
           [t EXCEPT !.status[a] = CASE d = "allow" -> "authorized"
                                     [] d = "ask" -> "awaiting-approval"
                                     [] d = "deny" -> "denied",
                     !.live = IF d = "deny" THEN NoAction ELSE @])

ApprovalResolved(t, a, s) ==
  Replayed(Room(t) /\ t.status[a] = "awaiting-approval",
           [t EXCEPT !.status[a] = s, !.live = IF s = "approved" THEN @ ELSE NoAction])

\* The authorization an execution start must quote.
ActionExecutionStarted(t, a, authorization) ==
  Replayed(/\ Room(t) /\ t.request[a] # NoRequest /\ t.request[a].lease = t.binding
           /\ \/ t.status[a] = "authorized" /\ authorization = "policy_allow"
              \/ t.status[a] = "approved" /\ authorization = "approval_grant",
           [t EXCEPT !.status[a] = "executing"])

ActionExecutionFinished(t, a, s) ==
  Replayed(Room(t) /\ t.status[a] = "executing",
           [t EXCEPT !.status[a] = s, !.live = NoAction])

-----------------------------------------------------------------------------
VARIABLES disk,      \* what the complete lines of the transcript replay to; once
                     \* one is illegal, what the last to append takes them for
          tail,      \* what follows them: nothing, a torn record, a complete
                     \* record without its newline, or an illegal line
          pc,        \* the place of the process that holds the writer lock
          mem,       \* the replay state of its writer
          poisoned,  \* the writer's durability is uncertain
          slipped,   \* an interruption left bytes in the file that this
                     \* writer, still usable, does not know of
          job,       \* the action it coordinates
          rt, mode,  \* its runtime binding and modes
          history,   \* the turns its agent loop remembers
          effects,   \* how often each executor has run
          consent,   \* actions a human has accepted
          told       \* receipts whose content was handed out

file == <<disk, tail>>
durability == <<poisoned, slipped>>
writer == <<mem, durability>>
runtime == <<rt, mode>>
world == <<effects, consent, told>>
vars == <<file, pc, writer, job, runtime, history, world>>

Resuming == {"prepared", "cut", "noted"}
Repairing == {"repair", "repair cut"}
Coordinating == {"requested", "asking", "cleared", "started", "ran"}
Writing == {"ready", "audit", "turn", "committed", "failing", "failed"} \cup Coordinating
Labels == {"free"} \cup Resuming \cup Repairing \cup Writing
Homes == {"turn", "committed", "failed"}

\* The action, where it returns to, and whether its caller swallows exceptions.
Job == [action: Action, home: Homes, guarded: BOOLEAN]
NoJob == [action |-> NoAction, home |-> "turn", guarded |-> FALSE]

Init ==
  /\ rt \in Binding /\ mode \in Modes
  /\ disk = Fresh(rt) /\ tail = "clean"
  /\ pc = "free" /\ mem = disk /\ job = NoJob
  /\ poisoned = FALSE /\ slipped = FALSE
  /\ history = 0
  /\ effects = [a \in Action |-> 0]
  /\ consent = {} /\ told = {}

\* Only the place changes.
Step(l) == pc' = l /\ UNCHANGED <<file, writer, runtime, history, world>>

\* An action is coordinated until the process is elsewhere.
KeepJob == job' = IF pc' \in Coordinating THEN job ELSE NoJob

\* The lock is given up, and all the process had of the Session with it.
Release == /\ pc' = "free"
           /\ mem' = disk' /\ job' = NoJob /\ history' = 0
           /\ poisoned' = FALSE /\ slipped' = FALSE
           /\ UNCHANGED <<runtime, world>>

\* Faulty form for a mutation run: a failed append does not poison the writer.
UncertainStillWritable == UNCHANGED poisoned

Uncertain == poisoned' = TRUE

\* The bytes of one whole record after a writer's last one. A line that does
\* not continue the transcript on disk makes it unreadable.
Put(from, to) ==
  IF tail = "clean" /\ disk = from THEN disk' = to /\ UNCHANGED tail
  ELSE disk' = to /\ tail' = "corrupt"

\* What follows the complete lines when the next record is cut short: behind a
\* line without its end, bytes that are no record.
Cut == CASE tail = "clean"             -> {"torn", "bare"}
         [] tail \in {"torn", "bare"} -> {"torn"}
         [] tail = "corrupt"           -> {"corrupt"}

\* An append that raised: nothing, all or some of the record is in the file.
PutUncertain(from, to) ==
  \/ UNCHANGED file
  \/ Put(from, to)
  \/ tail' \in Cut /\ UNCHANGED disk

\* A KeyboardInterrupt in the write or the fsync is no OSError: the writer stays
\* usable, whatever reached the file.
Interrupt(T) == /\ \E t \in T : PutUncertain(mem, t)
                /\ slipped' = (slipped \/ file' # file)
                /\ UNCHANGED <<mem, poisoned>>

\* SessionWriter._append of a record that replays to an element of T. A record
\* that replay or the size limit refuses leaves the writer usable; an error goes
\* on at err, an interruption at esc.
Write(T, ok, err, esc) ==
  \/ /\ ~poisoned /\ UNCHANGED durability
     /\ \E t \in T : Put(mem, t) /\ mem' = t
     /\ pc' = ok
  \/ /\ ~poisoned /\ Uncertain
     /\ \E t \in T : PutUncertain(mem, t) /\ UNCHANGED <<mem, slipped>>
     /\ pc' = err
  \/ ~poisoned /\ Interrupt(T) /\ pc' = esc
  \/ pc' = err /\ UNCHANGED <<file, writer>>

\* Where an interruption of the process goes on: a turn records its failure, the
\* prompt loop catches it outside of turns.
Escapes(home) == IF home \in {"turn", "committed"} THEN "failing"
                 ELSE IF home = "failed" THEN "ready" ELSE home

-----------------------------------------------------------------------------
(* Resuming, repairing, leaving. *)

\* Replay starts from what the file holds.
Take(l) == /\ pc = "free" /\ pc' = l
           /\ mem' = disk /\ poisoned' = FALSE /\ slipped' = FALSE
           /\ rt' \in Binding /\ mode' \in Modes
           /\ UNCHANGED <<file, job, history, world>>

PrepareResume == Take("prepared") /\ tail \in {"clean", "torn"}

BeginRepair == Take("repair") /\ tail = "torn"

\* A writer for one audit record, without a resume.
OpenForAudit == Take("audit") /\ tail = "clean" /\ ~disk.closed

\* A step of a resume or a repair that raised gives the lock back.
AbortResume == pc \in Resuming \cup Repairing /\ UNCHANGED file /\ Release

\* A resume replays its recovery and resume records before it cuts anything.
CutTail ==
  /\ tail = "torn" /\ tail' = "clean"
  /\ \/ pc = "prepared" /\ mem.next + 1 < MaxRecords /\ pc' = "cut"
     \/ pc = "repair" /\ pc' = "repair cut"
  /\ UNCHANGED <<disk, writer, job, runtime, history, world>>

\* A recovery append that raises gives the lock back too.
Recover(T) == /\ \E t \in T : PutUncertain(mem, t)
              /\ Release

AppendRecovery ==
  /\ pc = "cut"
  /\ \/ /\ \E t \in Recovery(mem) : Put(mem, t) /\ mem' = t
        /\ pc' = "noted"
        /\ UNCHANGED <<durability, job, runtime, history, world>>
     \/ Recover(Recovery(mem))

\* A repair is done with its recovery record.
RepairTranscript ==
  /\ pc = "repair cut"
  /\ \E t \in Recovery(mem) : Put(mem, t) \/ PutUncertain(mem, t)
  /\ Release

AppendResumed ==
  /\ pc = "noted" \/ (pc = "prepared" /\ tail = "clean")
  /\ \/ /\ \E t \in SessionResumed(mem, rt) : Put(mem, t) /\ mem' = t
        /\ pc' = "ready" /\ history' = mem.turns
        /\ UNCHANGED <<durability, job, runtime, world>>
     \/ Recover(SessionResumed(mem, rt))

\* close() appends session_closed unless the writer is poisoned, and gives the
\* lock up whatever happens.
CloseSession ==
  /\ pc = "ready" /\ ~poisoned
  /\ \E t \in SessionClosed(mem) : Put(mem, t) \/ PutUncertain(mem, t)
  /\ Release

\* release(), or a close() that could not record itself.
Leave == pc \in {"ready", "audit"} /\ UNCHANGED file /\ Release

\* The holder dies; the operating system drops its lock.
Crash == pc # "free" /\ UNCHANGED file /\ Release

-----------------------------------------------------------------------------
(* Between and around turns. *)

\* The runtime switches first, its audit follows.
SwitchRuntime ==
  /\ pc = "ready" /\ rt' \in Binding
  /\ Write(RuntimeChanged(mem, rt'), "ready", "ready", "ready")
  /\ UNCHANGED <<job, mode, history, world>>

Describe ==
  /\ pc = "ready"
  /\ \/ Write(Described(mem), "ready", "ready", "ready")
     \/ Write(ContextCompacted(mem, rt), "ready", "ready", "ready")
     \/ Write(CompactionFailed(mem, rt), "ready", "ready", "ready")
  /\ UNCHANGED <<job, runtime, history, world>>

\* Faulty form for a mutation run: what the receipt stands for goes out first.
HandOutFirst(c) == told \cup {c}

HandOut(c) == IF c \in mem'.receipts THEN told \cup {c} ELSE told

\* A receipt is durable before what it stands for is handed out; one that is
\* already there is not appended again.
Deliver(c) ==
  /\ pc \in {"ready", "audit", "turn"}
  /\ IF c \in mem.receipts THEN UNCHANGED <<file, pc, writer>>
     ELSE Write(Received(mem, c), pc, Escapes(pc), Escapes(pc))
  /\ told' = HandOut(c)
  /\ UNCHANGED <<job, runtime, history, effects, consent>>

BeginTurn == pc = "ready" /\ Step("turn") /\ UNCHANGED job

\* The provider, a preflight, a callback after the commit, or an interruption.
TurnRaises == pc \in {"turn", "committed"} /\ Step("failing") /\ UNCHANGED job

CommitTurn ==
  /\ pc = "turn"
  /\ Write(TurnCommitted(mem, rt), "committed", "failing", "failing")
  /\ UNCHANGED <<job, runtime, history, world>>

\* The agent loop takes the turn over once every callback of the commit returned.
Remember ==
  /\ pc = "committed" /\ pc' = "ready"
  /\ history' = history + 1
  /\ UNCHANGED <<file, writer, job, runtime, world>>

RecordFailure ==
  /\ pc = "failing"
  /\ Write(TurnFailed(mem, rt), "failed", "ready", "ready")
  /\ UNCHANGED <<job, runtime, history, world>>

EndFailure == pc = "failed" /\ Step("ready") /\ UNCHANGED job

-----------------------------------------------------------------------------
(* ActionCoordinator.run. *)

\* Where an exception of the action goes on: a hook handler's caller swallows
\* it and carries on, a tool's and the memory extraction's do not.
Raises == IF job.guarded THEN job.home ELSE "failing"

\* A tool call of the turn, the memory extraction after the commit, or a hook
\* handler (guarded) at any of the three places handlers run.
RequestAction ==
  \E j \in Job :
    /\ j.home = pc /\ (pc = "failed" => j.guarded)
    /\ Write(ActionRequested(mem, j.action, [mode |-> mode, lease |-> rt], rt),
             "requested", IF j.guarded THEN pc ELSE "failing", Escapes(pc))
    /\ job' = IF pc' = "requested" THEN j ELSE NoJob
    /\ UNCHANGED <<runtime, history, world>>

DecidePermission ==
  /\ pc = "requested"
  /\ LET d == Evaluate(ClassOf[job.action], mode)
     IN  Write(PermissionDecided(mem, job.action, d),
               CASE d = "allow" -> "cleared" [] d = "ask" -> "asking" [] d = "deny" -> job.home,
               Raises, Escapes(job.home))
  /\ KeepJob /\ UNCHANGED <<runtime, history, world>>

\* The approval handler's answer and its record; only acceptance goes on.
ResolveApproval ==
  /\ pc = "asking"
  /\ \E s \in {"approved", "rejected", "cancelled"} :
       /\ Write(ApprovalResolved(mem, job.action, s),
                IF s = "approved" THEN "cleared" ELSE job.home, Raises, Escapes(job.home))
       /\ consent' = IF s = "approved" THEN consent \cup {job.action} ELSE consent
  /\ KeepJob /\ UNCHANGED <<runtime, history, effects, told>>

\* The handler itself raises.
ApprovalRaises == pc = "asking" /\ Step(Raises) /\ KeepJob

\* An interruption between the steps of an action passes a guarding caller too.
InterruptAction == pc \in Coordinating /\ Step(Escapes(job.home)) /\ KeepJob

Authorization == IF job.action \in consent THEN "approval_grant" ELSE "policy_allow"

\* Faulty form for a mutation run: the effect does not wait for its start record.
StartUnrecorded ==
  /\ pc = "cleared"
  /\ Write(ActionExecutionStarted(mem, job.action, Authorization), "started", "started", Escapes(job.home))
  /\ KeepJob /\ UNCHANGED <<runtime, history, world>>

\* Revalidation found the action unchanged: the durable start barrier.
StartAction ==
  /\ pc = "cleared"
  /\ Write(ActionExecutionStarted(mem, job.action, Authorization), "started", Raises,
           Escapes(job.home))
  /\ KeepJob /\ UNCHANGED <<runtime, history, world>>

\* The action, its lease or its precondition is stale.
RevalidationFails == pc = "cleared" /\ Step(Raises) /\ KeepJob

\* An executor that raises still has an outcome, unless the process is
\* interrupted or its result is not usable.
Execute ==
  /\ pc = "started" /\ pc' \in {"ran", Raises, Escapes(job.home)}
  /\ effects' = [effects EXCEPT ![job.action] = @ + 1]
  /\ KeepJob /\ UNCHANGED <<file, writer, runtime, history, consent, told>>

FinishAction ==
  /\ pc = "ran"
  /\ \E s \in Outcomes :
       Write(ActionExecutionFinished(mem, job.action, s), job.home, Raises,
             Escapes(job.home))
  /\ KeepJob /\ UNCHANGED <<runtime, history, world>>

Resume == \/ PrepareResume \/ CutTail \/ AppendRecovery \/ AppendResumed
          \/ AbortResume \/ BeginRepair \/ RepairTranscript \/ OpenForAudit

Turn == \/ BeginTurn \/ TurnRaises \/ CommitTurn \/ Remember \/ RecordFailure \/ EndFailure

Coordinate == \/ RequestAction \/ DecidePermission \/ ResolveApproval \/ ApprovalRaises
              \/ InterruptAction
              \/ StartAction \/ RevalidationFails \/ Execute \/ FinishAction

Next == \/ Resume \/ CloseSession \/ Leave \/ Crash
        \/ SwitchRuntime \/ Describe \/ (\E c \in Receipt : Deliver(c))
        \/ Turn \/ Coordinate

Spec == Init /\ [][Next]_vars

-----------------------------------------------------------------------------
(* Properties. *)

TypeOK ==
  /\ disk \in Transcript /\ tail \in {"clean", "torn", "bare", "corrupt"}
  /\ pc \in Labels /\ mem \in Transcript
  /\ poisoned \in BOOLEAN /\ slipped \in BOOLEAN /\ job \in Job \cup {NoJob}
  /\ rt \in Binding /\ mode \in Modes
  /\ history \in Nat /\ effects \in [Action -> Nat]
  /\ consent \subseteq Action /\ told \subseteq Receipt

\* Torn appends, crashes in a resume or repair and poisoned writers leave a
\* transcript that replay accepts (SessionWriter._append, _prepare_replay). What
\* makes one that replay refuses is the append of a writer that an interruption
\* had left behind its own file.
CorruptedBySlip == [][tail # "corrupt" /\ tail' = "corrupt" => slipped]_vars

Ran == Outcomes \cup {"executing", "outcome-unknown"}

\* The open action is the live one, and how far an action came tells what the
\* permission gate and the human said of it.
Audited(t, accepted) ==
  /\ \A a \in Action : t.status[a] \in OpenStatus <=> t.live = a
  /\ \A a \in Action : t.request[a] = NoRequest => t.status[a] = "unused"
  /\ \A a \in Action : t.status[a] \in Ran \cup {"authorized", "approved", "awaiting-approval"} =>
       LET d == Evaluate(ClassOf[a], t.request[a].mode)
       IN  \/ d = "allow" /\ t.status[a] \in Ran \cup {"authorized"}
           \/ d = "ask" /\ (t.status[a] = "awaiting-approval" \/ a \in accepted)

\* A writer appends after the last record of the file, or not at all, unless an
\* interruption slipped its record in; it never knows of more than the file has.
WriterKnowsFile ==
  /\ mem.turns <= disk.turns /\ mem.receipts \subseteq disk.receipts
  /\ pc \in Writing /\ ~poisoned /\ ~slipped => mem = disk /\ tail = "clean"
  /\ pc \in Coordinating \cup {"committed"} /\ ~poisoned => mem = disk
  /\ pc \in Coordinating => ~poisoned
  /\ pc \notin Writing => mem = disk /\ ~poisoned /\ ~slipped
  /\ pc \in {"cut", "noted", "repair cut"} => tail = "clean"
  /\ pc \in {"prepared", "repair"} => tail \in {"clean", "torn"}
  /\ tail = "corrupt" => slipped \/ pc = "free"

\* What must hold of the transcript, and of what its writer takes it for.
Accounts(t) ==
  /\ Audited(t, consent)
  /\ \A a \in Action : effects[a] = 1 => t.status[a] \in Ran

\* One execution per action, between its durable start and its durable end.
OneExecution ==
  /\ \A a \in Action : effects[a] <= 1
  /\ pc \in Coordinating => job \in Job
  /\ pc \in {"started", "ran"} => disk.status[job.action] = "executing"
  /\ pc = "started" => effects[job.action] = 0
  /\ pc = "ran" => effects[job.action] = 1

\* The loop and the receipts rest on what the writer knows; between a turn's
\* commit and the loop that takes it over, the loop is behind.
KnownFirst ==
  /\ history <= mem.turns /\ told \subseteq mem.receipts
  /\ pc = "committed" \/ (pc \in Coordinating /\ job.home = "committed")
       => history < mem.turns

\* Nothing is acted on before it is durable: the turns the agent loop shows a
\* model and the receipts whose content was handed out are in the transcript, also
\* in one that interruptions made unreadable.
DurableFirst == history <= disk.turns /\ told \subseteq disk.receipts

\* An effect has its durable start, and where the policy asks it has a human's
\* acceptance; an action recorded as denied, rejected, cancelled or abandoned
\* had none (the start barrier of ActionCoordinator.run, _interrupt_live_action).
EffectsAuthorized ==
  \A a \in Action : effects[a] > 0 =>
    /\ disk.status[a] \in Ran
    /\ LET d == Evaluate(ClassOf[a], disk.request[a].mode)
       IN  d = "allow" \/ (d = "ask" /\ a \in consent)

\* What makes these invariants inductive (a tail stays legal because only a
\* writer that knows the file appends; the rest is one line of replay or of
\* ActionCoordinator.run each).
IndInv == /\ TypeOK /\ WriterKnowsFile /\ Accounts(disk) /\ Accounts(mem)
          /\ OneExecution /\ KnownFirst

Audit == INSTANCE ActionAudit WITH status <- disk.status, lost <- tail = "corrupt"

\* Every step is a step of the action audit or leaves it alone: one open
\* action, one effect per action, settled stays settled while the transcript
\* can be read.
ImplementsAudit == Audit!Spec
=============================================================================
