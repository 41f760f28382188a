--------------------------- MODULE BackgroundQueue ---------------------------
(***************************************************************************)
(* The persistent background runtime of a workspace (background_runtime.py):*)
(* one durable queue of submissions, the worker processes that claim them,  *)
(* and the Child Runs they execute.                                         *)
(*                                                                          *)
(* Every queue operation replays and appends under the blocking queue lock, *)
(* so it is one step; what a worker does between two of them, on the copy   *)
(* of an item it read before, is not. A Child Run is its status and its     *)
(* execution lease: how ChildRunExecutor and recovery move them is ChildRun. *)
(* A heartbeat changes an item's timestamp only, but every record makes the  *)
(* ledger longer, and past its size limit nobody reads it any more.          *)
(***************************************************************************)
EXTENDS Naturals, Sequences, FiniteSets

CONSTANTS Children,      \* Child Runs, ready to be executed
          Calls,         \* calls of enqueue
          Target,        \* Target[k]: the Child Run call k submits
          Slots,         \* worker slots; one process at a time holds one
          RecoverySlot,  \* the slot recover_orphans takes
          Threads,       \* the threads of one worker process
          Leases,        \* lease IDs: a claim takes one that nobody carries
          NoLease,       \* an item that was never claimed has no lease
          Capacity,      \* pending submissions the queue admits
          MaxFaults,     \* bound: crashes, failing worker loops, lost appends and reads
          Nobody         \* nobody holds the execution lease

ASSUME TargetAssumption == Target \in [Calls -> Children]

ASSUME RecoverySlotAssumption == RecoverySlot \in Slots

ASSUME CapacityAssumption == Capacity \in Nat

ASSUME MaxFaultsAssumption == MaxFaults \in Nat

ASSUME NobodyAssumption == Nobody \notin Slots \cup (Slots \X Threads)

\* A worker process is not one of its threads.
ASSUME SlotsAssumption == Slots \cap (Slots \X Threads) = {}

VARIABLES queue,   \* the submissions replay derives, in queueing order
          call,    \* where each call of enqueue is
          worker,  \* the worker process of each slot
          task,    \* the future each worker thread runs
          child,   \* the status of each Child Run
          owner,   \* who holds its execution lease
          full,    \* the ledger is longer than MAX_BACKGROUND_QUEUE_BYTES
          faults   \* faults so far

ledger == <<queue, full>>
vars == <<ledger, call, worker, task, child, owner, faults>>

Handles == Slots \X Threads

ChildStatuses == {"ready", "running", "cancelling",
                  "completed", "failed", "cancelled", "interrupted"}

TerminalStatuses == {"completed", "failed", "cancelled", "interrupted"}

Effects == {"not-started", "in-flight", "confirmed", "unknown"}

Item == [child: Children, state: {"queued", "claimed", "terminal"},
         lease: Leases \cup {NoLease}, status: ChildStatuses \cup {"none"}, effect: Effects]

\* The copy of a claimed item a worker goes on with.
Copy == [item: Nat, lease: Leases \cup {NoLease}]

WorkerLabels == {"down", "reconcile", "prove", "proved", "requeue", "recover",
                 "interrupt", "settle", "loop", "draining"}

Worker == [pc: WorkerLabels, todo: SUBSET Copy,
           then: {"loop", "down"}, status: ChildStatuses]

Task == [pc: {"free", "claimed", "leased", "running", "raised", "returned", "failing", "done"},
         item: Nat, lease: Leases \cup {NoLease}, status: ChildStatuses, effect: Effects]

Down == [pc |-> "down", todo |-> {}, then |-> "down", status |-> "ready"]

Free == [pc |-> "free", item |-> 0, lease |-> NoLease, status |-> "ready", effect |-> "not-started"]

TypeOK ==
  /\ queue \in Seq(Item)
  /\ call \in [Calls -> {"idle", "checked", "done"}]
  /\ worker \in [Slots -> Worker]
  /\ task \in [Handles -> Task]
  /\ child \in [Children -> ChildStatuses]
  /\ owner \in [Children -> Slots \cup Handles \cup {Nobody}]
  /\ full \in BOOLEAN
  /\ faults \in 0..MaxFaults

Init ==
  /\ queue = <<>>
  /\ call = [k \in Calls |-> "idle"]
  /\ worker = [s \in Slots |-> Down]
  /\ task = [h \in Handles |-> Free]
  /\ child = [c \in Children |-> "ready"]
  /\ owner = [c \in Children |-> Nobody]
  /\ full = FALSE
  /\ faults = 0

Fault == faults < MaxFaults /\ faults' = faults + 1

-----------------------------------------------------------------------------
(* The queue operations, each under the queue lock.                         *)

\* Any append may be the one that takes the ledger past its limit: the size is
\* looked at when it is read. (All records are longer than the 419 bytes that
\* the limits leave for each, so that of 20,000 records is never reached.)
Writes(new) == queue' = new /\ full' \in BOOLEAN

Pending(i) == queue[i].state \in {"queued", "claimed"}

\* enqueue looks at the Child before it takes the queue lock.
CheckChildReady(k) ==
  /\ call[k] = "idle"
  /\ child[Target[k]] = "ready"
  /\ call' = [call EXCEPT ![k] = "checked"]
  /\ UNCHANGED <<ledger, worker, task, child, owner, faults>>

\* Faulty: a Child that is queued already is not looked for again.
CanEnqueueAny(c) == Cardinality({i \in DOMAIN queue : Pending(i)}) < Capacity

CanEnqueue(c) ==
  /\ ~\E i \in DOMAIN queue : queue[i].child = c /\ Pending(i)
  /\ Cardinality({i \in DOMAIN queue : Pending(i)}) < Capacity

Enqueue(k) ==
  /\ call[k] = "checked"
  /\ call' = [call EXCEPT ![k] = "done"]
  /\ IF ~full /\ CanEnqueue(Target[k])
       THEN Writes(Append(queue, [child |-> Target[k], state |-> "queued", lease |-> NoLease,
                                  status |-> "none", effect |-> "not-started"]))
       ELSE UNCHANGED ledger
  /\ UNCHANGED <<worker, task, child, owner, faults>>

\* Requeue and terminal change an item only under the claim they were given.
HoldsClaim(m) == queue[m.item].state = "claimed" /\ queue[m.item].lease = m.lease

\* Faulty: the two observations change places.
TerminalSwapped(m, status, effect) ==
  IF ~full /\ HoldsClaim(m)
    THEN Writes([queue EXCEPT ![m.item].state = "terminal",
                              ![m.item].status = effect, ![m.item].effect = status])
    ELSE UNCHANGED ledger

\* terminal(): the status it is given may be any Child Run status. A refused
\* call raises, and its caller keeps a diagnostic only.
Terminal(m, status, effect) ==
  IF ~full /\ HoldsClaim(m)
    THEN Writes([queue EXCEPT ![m.item].state = "terminal",
                              ![m.item].status = status, ![m.item].effect = effect])
    ELSE UNCHANGED ledger

\* The loop of a worker heartbeats every item it has claimed about ten times a
\* second, for as long as its Child runs.
Heartbeat(s) ==
  /\ worker[s].pc = "loop" /\ ~full
  /\ \E t \in Threads : LET h == <<s, t>> IN
       task[h].pc # "free" /\ HoldsClaim([item |-> task[h].item, lease |-> task[h].lease])
  /\ full' = TRUE
  /\ UNCHANGED <<queue, call, worker, task, child, owner, faults>>

-----------------------------------------------------------------------------
(* A worker thread: PersistentChildWorker._execute around one executor run. *)

ChildOf(h) == queue[task[h].item].child

Go(h, to) == task' = [task EXCEPT ![h].pc = to]

Result(h, s, f) ==
  task' = [task EXCEPT ![h].pc = "done", ![h].status = s, ![h].effect = f]

\* run() looks at the status and takes the execution lease, or raises.
BeginRun(h) ==
  /\ task[h].pc = "claimed"
  /\ LET c == ChildOf(h)
         can == child[c] = "ready" /\ owner[c] = Nobody
     IN  /\ Go(h, IF can THEN "leased" ELSE "raised")
         /\ owner' = IF can THEN [owner EXCEPT ![c] = h] ELSE owner
  /\ UNCHANGED <<ledger, call, worker, child, faults>>

StartRun(h) ==
  /\ task[h].pc = "leased"
  /\ child[ChildOf(h)] = "ready"
  /\ child' = [child EXCEPT ![ChildOf(h)] = "running"]
  /\ Go(h, "running")
  /\ UNCHANGED <<ledger, call, worker, owner, faults>>

\* Once it has the lease, run() raises at any time: the writer is contended,
\* the Child was cancelled, the turn fails. Its handler records what it can.
RaiseFromRun(h) ==
  LET c == ChildOf(h) IN
  /\ task[h].pc \in {"leased", "running"}
  /\ \/ UNCHANGED <<child, faults>>
     \/ /\ task[h].pc = "running" /\ child[c] \in {"running", "cancelling"}
        /\ child' = [child EXCEPT ![c] = "failed"]
        /\ UNCHANGED faults
     \/ /\ task[h].pc = "running" /\ child[c] = "cancelling"
        /\ child' = [child EXCEPT ![c] = "cancelled"]
        /\ UNCHANGED faults
     \/ /\ task[h].pc = "leased" /\ child[c] = "ready" /\ Fault
        /\ child' = [child EXCEPT ![c] = "running"]
     \/ /\ task[h].pc = "running" /\ child[c] \in {"running", "cancelling"} /\ Fault
        /\ child' = [child EXCEPT ![c] = "completed"]
  /\ owner' = [owner EXCEPT ![c] = Nobody]
  /\ Go(h, "raised")
  /\ UNCHANGED <<ledger, call, worker>>

\* run() returns with a terminal status only: completed, or cancelled before
\* its turn committed.
ReturnFromRun(h) ==
  LET c == ChildOf(h) IN
  /\ task[h].pc = "running"
  /\ child[c] \in {"running", "cancelling"}
  /\ \E st \in {"completed"} \cup (IF child[c] = "cancelling" THEN {"cancelled"} ELSE {}) :
       child' = [child EXCEPT ![c] = st]
  /\ owner' = [owner EXCEPT ![c] = Nobody]
  /\ Go(h, "returned")
  /\ UNCHANGED <<ledger, call, worker, faults>>

\* After an error, the status is reported whatever it is, unless it is ready;
\* reading it may fail.
InspectRaised(h) ==
  /\ task[h].pc = "raised"
  /\ \/ /\ IF child[ChildOf(h)] = "ready" THEN Go(h, "failing")
                                           ELSE Result(h, child[ChildOf(h)], "not-started")
        /\ UNCHANGED faults
     \/ Result(h, "failed", "unknown") /\ Fault
  /\ UNCHANGED <<ledger, call, worker, child, owner>>

\* Faulty: a failed terminalization is reported as if it had been recorded.
FailReadyConfirmed(h) ==
  /\ task[h].pc = "failing"
  /\ \/ /\ child[ChildOf(h)] = "ready"
        /\ child' = [child EXCEPT ![ChildOf(h)] = "failed"]
     \/ UNCHANGED child
  /\ Result(h, "failed", "not-started")
  /\ UNCHANGED <<ledger, call, worker, owner, faults>>

\* A ready Child is failed with no execution ID, which replay refuses once an
\* executor has started it; the writer may also be contended, or the append
\* end unconfirmed.
FailReady(h) ==
  /\ task[h].pc = "failing"
  /\ \/ /\ child[ChildOf(h)] = "ready"
        /\ child' = [child EXCEPT ![ChildOf(h)] = "failed"]
        /\ \/ Result(h, "failed", "not-started") /\ UNCHANGED faults
           \/ Result(h, "failed", "unknown") /\ Fault
     \/ UNCHANGED <<child, faults>> /\ Result(h, "failed", "unknown")
  /\ UNCHANGED <<ledger, call, worker, owner>>

\* After a return, the status is terminal; reading it may fail.
InspectReturned(h) ==
  /\ task[h].pc = "returned"
  /\ \/ Result(h, child[ChildOf(h)], "confirmed") /\ UNCHANGED faults
     \/ Result(h, "failed", "unknown") /\ Fault
  /\ UNCHANGED <<ledger, call, worker, child, owner>>

Run(h) == \/ BeginRun(h) \/ StartRun(h) \/ RaiseFromRun(h) \/ ReturnFromRun(h)
          \/ InspectRaised(h) \/ FailReady(h) \/ InspectReturned(h)

-----------------------------------------------------------------------------
(* The loop of a worker process: PersistentChildWorker.run.                 *)

TasksOf(s) == {h \in Handles : h[1] = s}

\* A new lease ID differs from that of every copy of the item still around.
Unused(i) == {l \in Leases :
                /\ \A s \in Slots : [item |-> i, lease |-> l] \notin worker[s].todo
                /\ \A h \in Handles : ~(task[h].item = i /\ task[h].lease = l)}

\* The first queued item, for a thread that has no future to run. An append
\* that fails once it is visible raises out of the loop.
Claim(s, t) ==
  /\ worker[s].pc = "loop" /\ ~full
  /\ task[<<s, t>>].pc = "free"
  /\ \E i \in DOMAIN queue :
       /\ queue[i].state = "queued"
       /\ \A j \in DOMAIN queue : queue[j].state = "queued" => i <= j
       /\ Unused(i) # {}
       /\ LET l == CHOOSE l \in Unused(i) : TRUE
          IN  /\ Writes([queue EXCEPT ![i].state = "claimed", ![i].lease = l,
                                      ![i].effect = "in-flight"])
              /\ \/ /\ task' = [task EXCEPT ![<<s, t>>] = [Free EXCEPT !.pc = "claimed",
                                                             !.item = i, !.lease = l]]
                    /\ UNCHANGED <<worker, faults>>
                 \/ /\ Fault
                    /\ worker' = [worker EXCEPT ![s].pc = "draining"]
                    /\ UNCHANGED task
  /\ UNCHANGED <<call, child, owner>>

\* Faulty: a future whose outcome is not certain is left for a later look.
CollectCertain(s, t) ==
  LET h == <<s, t>> IN
  /\ worker[s].pc = "loop"
  /\ task[h].pc = "done" /\ task[h].effect # "unknown"
  /\ Terminal([item |-> task[h].item, lease |-> task[h].lease],
              task[h].status, task[h].effect)
  /\ task' = [task EXCEPT ![h] = Free]
  /\ UNCHANGED <<call, worker, child, owner, faults>>

\* The future is gone, also when its result cannot be appended.
Collect(s, t) ==
  LET h == <<s, t>> IN
  /\ worker[s].pc = "loop"
  /\ task[h].pc = "done"
  /\ \/ /\ Terminal([item |-> task[h].item, lease |-> task[h].lease],
                    task[h].status, task[h].effect)
        /\ UNCHANGED faults
     \/ UNCHANGED ledger /\ Fault
  /\ task' = [task EXCEPT ![h] = Free]
  /\ UNCHANGED <<call, worker, child, owner>>

GoDown(s) ==
  /\ worker' = [worker EXCEPT ![s] = Down]
  /\ task' = [h \in Handles |-> IF h[1] = s THEN Free ELSE task[h]]

\* Idle for long enough, with nothing queued and no active future.
StopWorker(s) ==
  /\ worker[s].pc = "loop" /\ ~full
  /\ \A h \in TasksOf(s) : task[h].pc = "free"
  /\ ~\E i \in DOMAIN queue : queue[i].state = "queued"
  /\ GoDown(s)
  /\ UNCHANGED <<ledger, call, child, owner, faults>>

\* A worker with a thread to spare asks for an item and cannot read the ledger.
ClaimRaises(s) ==
  /\ worker[s].pc = "loop" /\ full
  /\ \E h \in TasksOf(s) : task[h].pc = "free"
  /\ worker' = [worker EXCEPT ![s].pc = "draining"]
  /\ UNCHANGED <<ledger, call, task, child, owner, faults>>

\* A queue operation raises out of the loop: the pool still runs every future
\* to its end, and nobody records the results.
LoopFails(s) ==
  /\ worker[s].pc = "loop"
  /\ Fault
  /\ worker' = [worker EXCEPT ![s].pc = "draining"]
  /\ UNCHANGED <<ledger, call, task, child, owner>>

EndDraining(s) ==
  /\ worker[s].pc = "draining"
  /\ \A h \in TasksOf(s) : task[h].pc \in {"free", "done"}
  /\ GoDown(s)
  /\ UNCHANGED <<ledger, call, child, owner, faults>>

\* The process dies: its threads and every lock they hold are gone.
Crash(s) ==
  /\ worker[s].pc # "down"
  /\ Fault
  /\ GoDown(s)
  /\ owner' = [c \in Children |-> IF owner[c] \in TasksOf(s) \cup {s}
                                    THEN Nobody ELSE owner[c]]
  /\ UNCHANGED <<ledger, call, child>>

-----------------------------------------------------------------------------
(* _reconcile_orphans, which a starting worker runs before it claims and    *)
(* recover_orphans runs alone. It works through a snapshot of the claimed   *)
(* items, none its own because its worker ID is new, or it fails at once     *)
(* because the ledger cannot be read.                                       *)

Claimed == {[item |-> i, lease |-> queue[i].lease] :
              i \in {j \in DOMAIN queue : queue[j].state = "claimed"}}

Begin(s, after) ==
  /\ worker[s].pc = "down"
  /\ worker' = IF full THEN worker
                ELSE [worker EXCEPT ![s] = [pc |-> "reconcile", todo |-> Claimed,
                                            then |-> after, status |-> "ready"]]
  /\ UNCHANGED <<ledger, call, task, child, owner, faults>>

StartWorker(s) == Begin(s, "loop")

RecoverOrphans == Begin(RecoverySlot, "down")

First(s) == CHOOSE m \in worker[s].todo : \A n \in worker[s].todo : m.item <= n.item

Orphan(s) == queue[First(s).item].child

At(s, label) == worker[s].pc = label /\ worker[s].todo # {}

Step(s, to) == worker' = [worker EXCEPT ![s].pc = to]

Skip(s) == worker' = [worker EXCEPT ![s] = [pc |-> "reconcile", todo |-> @.todo \ {First(s)},
                                            then |-> @.then, status |-> "ready"]]

Settle(s, st) == worker' = [worker EXCEPT ![s].pc = "settle", ![s].status = st]

EndReconcile(s) ==
  /\ worker[s].pc = "reconcile" /\ worker[s].todo = {}
  /\ Step(s, worker[s].then)
  /\ UNCHANGED <<ledger, call, task, child, owner, faults>>

InspectOrphan(s) ==
  /\ At(s, "reconcile")
  /\ \/ child[Orphan(s)] \in TerminalStatuses /\ Settle(s, child[Orphan(s)])
     \/ child[Orphan(s)] = "ready" /\ Step(s, "prove")
     \/ child[Orphan(s)] \in {"running", "cancelling"} /\ Step(s, "recover")
  /\ UNCHANGED <<ledger, call, task, child, owner, faults>>

\* The execution lease is taken to prove that no executor owns the Child.
ProveAbandoned(s) ==
  /\ At(s, "prove")
  /\ IF child[Orphan(s)] = "ready" /\ owner[Orphan(s)] = Nobody
       THEN owner' = [owner EXCEPT ![Orphan(s)] = s] /\ Step(s, "proved")
       ELSE UNCHANGED owner /\ Skip(s)
  /\ UNCHANGED <<ledger, call, task, child, faults>>

\* The proof is closed before the item is requeued.
CloseProof(s) ==
  /\ At(s, "proved")
  /\ owner' = [owner EXCEPT ![Orphan(s)] = Nobody]
  /\ Step(s, "requeue")
  /\ UNCHANGED <<ledger, call, task, child, faults>>

\* Faulty: the item is requeued under whatever claim it has by now.
RequeueAny(s) ==
  /\ At(s, "requeue") /\ ~full
  /\ Writes([queue EXCEPT ![First(s).item].state = "queued",
                          ![First(s).item].effect = "not-started"])
  /\ Skip(s)
  /\ UNCHANGED <<call, task, child, owner, faults>>

Requeue(s) ==
  /\ At(s, "requeue")
  /\ IF ~full /\ HoldsClaim(First(s))
       THEN Writes([queue EXCEPT ![First(s).item].state = "queued",
                                 ![First(s).item].effect = "not-started"])
       ELSE UNCHANGED ledger
  /\ Skip(s)
  /\ UNCHANGED <<call, task, child, owner, faults>>

\* acquire_recovery_lease: refused while an executor is alive.
AcquireRecovery(s) ==
  /\ At(s, "recover")
  /\ IF child[Orphan(s)] \in {"running", "cancelling"} /\ owner[Orphan(s)] = Nobody
       THEN owner' = [owner EXCEPT ![Orphan(s)] = s] /\ Step(s, "interrupt")
       ELSE UNCHANGED owner /\ Skip(s)
  /\ UNCHANGED <<ledger, call, task, child, faults>>

FinishInterrupted(s) ==
  /\ At(s, "interrupt")
  /\ \/ /\ child[Orphan(s)] \in {"running", "cancelling"}
        /\ child' = [child EXCEPT ![Orphan(s)] = "interrupted"]
        /\ Settle(s, "interrupted")
        /\ UNCHANGED faults
     \/ UNCHANGED child /\ Skip(s) /\ Fault
  /\ owner' = [owner EXCEPT ![Orphan(s)] = Nobody]
  /\ UNCHANGED <<ledger, call, task>>

SettleOrphan(s) ==
  /\ At(s, "settle")
  /\ Terminal(First(s), worker[s].status, "confirmed")
  /\ Skip(s)
  /\ UNCHANGED <<call, task, child, owner, faults>>

\* An inspection or an append fails: the item stays claimed.
GiveUpOrphan(s) ==
  /\ \E label \in {"reconcile", "requeue", "settle"} : At(s, label)
  /\ Skip(s)
  /\ Fault
  /\ UNCHANGED <<ledger, call, task, child, owner>>

Reconcile(s) ==
  \/ EndReconcile(s) \/ InspectOrphan(s) \/ ProveAbandoned(s) \/ CloseProof(s)
  \/ Requeue(s) \/ AcquireRecovery(s) \/ FinishInterrupted(s) \/ SettleOrphan(s)
  \/ GiveUpOrphan(s)

-----------------------------------------------------------------------------
(* The Host beside the queue: /child cancel and /child recover, each whole: *)
(* a Host that dies inside a cancellation is in ChildRun.                   *)

HostCancels(c) ==
  /\ \/ child[c] = "ready" /\ child' = [child EXCEPT ![c] = "cancelled"]
     \/ child[c] = "running" /\ child' = [child EXCEPT ![c] = "cancelling"]
  /\ UNCHANGED <<ledger, call, worker, task, owner, faults>>

\* Faulty: a recovery that does not ask who executes the Child.
HostRecoversAnyway(c) ==
  /\ child[c] \in {"running", "cancelling"}
  /\ child' = [child EXCEPT ![c] = "interrupted"]
  /\ UNCHANGED <<ledger, call, worker, task, owner, faults>>

HostRecovers(c) ==
  /\ child[c] \in {"running", "cancelling"}
  /\ owner[c] = Nobody
  /\ child' = [child EXCEPT ![c] = "interrupted"]
  /\ UNCHANGED <<ledger, call, worker, task, owner, faults>>

Work(s) == \/ \E t \in Threads : Claim(s, t) \/ Collect(s, t)
           \/ ClaimRaises(s) \/ StopWorker(s) \/ EndDraining(s) \/ Reconcile(s)

Next == \/ \E k \in Calls : CheckChildReady(k) \/ Enqueue(k)
        \/ \E s \in Slots : StartWorker(s) \/ Work(s) \/ Heartbeat(s) \/ LoopFails(s) \/ Crash(s)
        \/ RecoverOrphans
        \/ \E h \in Handles : Run(h)
        \/ \E c \in Children : HostCancels(c) \/ HostRecovers(c)

Spec == Init /\ [][Next]_vars

\* Worker threads run and turns end. A service manager keeps starting the worker
\* of one slot, also when a recovery holds it again and again (run_forever
\* retries); the other slots may stay down. The writer of a Child is not contended
\* every time a worker gives it up.
FairSpec == /\ Spec
            /\ SF_vars(StartWorker(RecoverySlot))
            /\ \A s \in Slots : WF_vars(Work(s))
            /\ \A h \in Handles : WF_vars(Run(h)) /\ SF_vars(FailReady(h) /\ child' # child)

-----------------------------------------------------------------------------
(* What the background runtime promises.                                    *)

\* A Child Run has one pending submission at most, whatever is enqueued,
\* claimed and requeued at the same time (ADR 0147).
OnePending ==
  \A i, j \in DOMAIN queue :
    Pending(i) /\ Pending(j) /\ queue[i].child = queue[j].child => i = j

\* A recorded outcome that is neither unknown nor still open is the outcome the
\* Child Run has: the queue observes the Child ledger and never contradicts it,
\* though workers are restarted and items claimed twice (ADR 0159).
TerminalAgrees ==
  \A i \in DOMAIN queue :
    /\ queue[i].state = "terminal"
    /\ queue[i].effect # "unknown"
    /\ queue[i].status \in TerminalStatuses
    => child[queue[i].child] = queue[i].status

\* A terminal observation is never overwritten or requeued, also by a worker
\* that goes on with an old copy of the item (ADR 0159).
TerminalIsKept ==
  [][\A i \in DOMAIN queue : queue[i].state = "terminal" => queue'[i] = queue[i]]_vars

\* The workers, the reconciliations and the Host treat every Child Run as its
\* contract says: only the owner of its execution lease starts and finishes it,
\* and it is interrupted only while no executor owns it.
Contract(c) == INSTANCE ChildContract
  WITH Executors <- Handles, Provers <- Slots, status <- child[c], owner <- owner[c]

KeepsContract ==
  /\ \A c \in Children : Contract(c)!Init
  /\ [][\A c \in Children : [Contract(c)!Next]_(Contract(c)!vars)]_vars

\* As long as the ledger can be read, every submission is settled, though workers
\* crash, loops fail and results are lost: a later worker reconciles what an
\* earlier one left claimed. (Calls are finite and terminal items are kept, so
\* this covers each submission; the heartbeats of its Child alone fill the ledger
\* in less than half an hour, and then nothing settles it.)
SubmissionsSettle == []<>(full \/ \A i \in DOMAIN queue : queue[i].state = "terminal")

-----------------------------------------------------------------------------
(* The inductive invariant behind OnePending, TerminalAgrees and            *)
(* KeepsContract.                                                           *)

\* Copies are of submissions.
CopiesKnown ==
  /\ \A s \in Slots : \A m \in worker[s].todo : m.item \in DOMAIN queue
  /\ \A h \in Handles : task[h].pc # "free" => task[h].item \in DOMAIN queue

\* What a thread or a reconciling worker is about to record is the outcome the
\* Child Run has, however long ago it was read.
ResultsAgree ==
  \A h \in Handles :
    /\ task[h].pc = "done"
    /\ task[h].effect # "unknown"
    /\ task[h].status \in TerminalStatuses
    => child[ChildOf(h)] = task[h].status

SettlingAgrees ==
  \A s \in Slots :
    worker[s].pc = "settle" =>
      /\ worker[s].todo # {}
      /\ worker[s].status \in TerminalStatuses
      /\ child[Orphan(s)] = worker[s].status

\* Whoever runs a Child or has proved it abandoned owns its execution lease.
Owned ==
  /\ \A h \in Handles : task[h].pc \in {"leased", "running"} => owner[ChildOf(h)] = h
  /\ \A s \in Slots : worker[s].pc \in {"proved", "interrupt"} =>
       worker[s].todo # {} /\ owner[Orphan(s)] = s

IndInv == CopiesKnown /\ ResultsAgree /\ SettlingAgrees /\ TerminalAgrees /\ OnePending /\ Owned

-----------------------------------------------------------------------------
(* What the repository says of the queue and the code does not keep.        *)

\* ADR 0147: an unknown state or a lease conflict keeps the queue claim; run()
\* has a branch for it that says "queue left claimed". But every Child status
\* counts as terminal, so an unfinished Child's submission becomes terminal.
UnfinishedStaysClaimed ==
  \A i \in DOMAIN queue : queue[i].state = "terminal" => queue[i].status \in TerminalStatuses
=============================================================================
