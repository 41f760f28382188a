------------------------ MODULE BackgroundQueueProofs ------------------------
(***************************************************************************)
(* The safety properties of BackgroundQueue for any Child Runs, calls,      *)
(* worker slots and threads, any capacity and any number of faults.         *)
(***************************************************************************)
EXTENDS BackgroundQueue, SequenceTheorems, WellFoundedInduction, TLAPS

-----------------------------------------------------------------------------
(* Type correctness.                                                        *)

\* A set of item positions has a first one.
LEMMA LeastNatural ==
  ASSUME NEW S \in SUBSET Nat, S # {}
  PROVE  \E n \in S : \A m \in S : n <= m
<1>1. PICK n \in S : \A m \in S : <<m, n>> \notin OpToRel(<, Nat)
  BY WFMin, NatLessThanWellFounded
<1>2. \A m \in S : <<m, n>> \notin {ss \in Nat \X Nat : ss[1] < ss[2]}
  BY <1>1, Zenon DEF OpToRel
<1>3. \A m \in S : ~(m < n)
  BY <1>2
<1> QED
  BY <1>3

\* The copy a reconciling worker is at is one of its snapshot.
LEMMA FirstOfTodo ==
  ASSUME NEW s, worker[s].todo \subseteq Copy, worker[s].todo # {}
  PROVE  First(s) \in worker[s].todo
<1> DEFINE Positions == {m.item : m \in worker[s].todo}
<1>1. Positions \in SUBSET Nat /\ Positions # {}
  BY DEF Copy
<1>2. \E n \in Positions : \A m \in Positions : n <= m
  BY <1>1, LeastNatural
<1>3. \E m \in worker[s].todo : \A n \in worker[s].todo : m.item <= n.item
  BY <1>2
<1> QED
  BY <1>3 DEF First

\* An item that changes its state only keeps a queue a queue.
LEMMA QueueTyped ==
  ASSUME queue \in Seq(Item), NEW i, NEW x,
         i \in DOMAIN queue => x \in Item
  PROVE  [queue EXCEPT ![i] = x] \in Seq(Item)
<1>1. CASE i \in DOMAIN queue
  BY <1>1
<1>2. CASE i \notin DOMAIN queue
  <2>1. [queue EXCEPT ![i] = x] = queue
    BY <1>2
  <2> QED
    BY <2>1
<1> QED
  BY <1>1, <1>2

\* terminal() keeps the types, whatever claim it is given.
LEMMA TerminalTyped ==
  ASSUME queue \in Seq(Item), NEW m, NEW status \in ChildStatuses, NEW effect \in Effects,
         Terminal(m, status, effect)
  PROVE  queue' \in Seq(Item)
<1> DEFINE x == [queue[m.item] EXCEPT !.state = "terminal", !.status = status, !.effect = effect]
<1>1. m.item \in DOMAIN queue => x \in Item
  <2>1. m.item \in DOMAIN queue => queue[m.item] \in Item
    OBVIOUS
  <2> QED
    BY <2>1 DEF Item
<1>2. [queue EXCEPT ![m.item] = x] \in Seq(Item)
  BY <1>1, QueueTyped
<1>3. queue' = queue \/ queue' = [queue EXCEPT ![m.item] = x]
  BY DEF Terminal, Writes, ledger
<1> QED
  BY <1>2, <1>3

\* A worker that goes on to a label, or on to its next copy, stays a worker.
LEMMA WorkerTyped ==
  ASSUME worker \in [Slots -> Worker], NEW s \in Slots,
         \/ \E to \in WorkerLabels : Step(s, to)
         \/ \E st \in ChildStatuses : Settle(s, st)
         \/ Skip(s)
  PROVE  worker' \in [Slots -> Worker]
<1>1. worker[s] \in Worker
  OBVIOUS
<1>2. ASSUME NEW to \in WorkerLabels, Step(s, to) PROVE worker' \in [Slots -> Worker]
  BY <1>1, <1>2 DEF Step, Worker
<1>3. ASSUME NEW st \in ChildStatuses, Settle(s, st) PROVE worker' \in [Slots -> Worker]
  BY <1>1, <1>3 DEF Settle, Worker, WorkerLabels
<1>4. CASE Skip(s)
  <2> DEFINE w == [pc |-> "reconcile", todo |-> worker[s].todo \ {First(s)},
                   then |-> worker[s].then, status |-> "ready"]
  <2>1. w \in Worker
    BY <1>1 DEF Worker, WorkerLabels, ChildStatuses
  <2>2. worker' = [worker EXCEPT ![s] = w]
    BY <1>4 DEF Skip
  <2> QED
    BY <2>1, <2>2
<1> QED
  BY <1>2, <1>3, <1>4

\* A task that goes on to a label, or has its result, stays a task.
LEMMA TaskTyped ==
  ASSUME task \in [Handles -> Task], NEW h \in Handles,
         \/ \E to \in {"leased", "running", "raised", "returned", "failing"} : Go(h, to)
         \/ \E st \in ChildStatuses, f \in Effects : Result(h, st, f)
  PROVE  task' \in [Handles -> Task]
<1>1. task[h] \in Task
  OBVIOUS
<1>2. ASSUME NEW to \in {"leased", "running", "raised", "returned", "failing"}, Go(h, to)
      PROVE  task' \in [Handles -> Task]
  BY <1>1, <1>2 DEF Go, Task
<1>3. ASSUME NEW st \in ChildStatuses, NEW f \in Effects, Result(h, st, f)
      PROVE  task' \in [Handles -> Task]
  BY <1>1, <1>3 DEF Result, Task
<1> QED
  BY <1>2, <1>3

\* A process that is gone leaves free threads.
LEMMA DownTyped ==
  ASSUME worker \in [Slots -> Worker], task \in [Handles -> Task], NEW s \in Slots, GoDown(s)
  PROVE  worker' \in [Slots -> Worker] /\ task' \in [Handles -> Task]
<1>1. Down \in Worker
  BY DEF Down, Worker, WorkerLabels, ChildStatuses
<1>2. Free \in Task
  BY DEF Free, Task, ChildStatuses, Effects
<1> QED
  BY <1>1, <1>2 DEF GoDown

\* Nothing is queued, claimed or running at first.
LEMMA InitTyped == Init => TypeOK
<1>1. Down \in Worker
  BY DEF Down, Worker, WorkerLabels, ChildStatuses
<1>2. Free \in Task
  BY DEF Free, Task, ChildStatuses, Effects
<1>3. "ready" \in ChildStatuses
  BY DEF ChildStatuses
<1>4. Init => full \in BOOLEAN
  BY DEF Init
<1> QED
  BY <1>1, <1>2, <1>3, <1>4, MaxFaultsAssumption DEF Init, TypeOK

\* What the calls of enqueue do is well typed.
LEMMA EnqueueTyped ==
  ASSUME TypeOK, NEW k \in Calls, CheckChildReady(k) \/ Enqueue(k)
  PROVE  TypeOK'
<1> USE DEF TypeOK
<1>1. CASE CheckChildReady(k)
  BY <1>1 DEF CheckChildReady, ledger
<1>2. CASE Enqueue(k)
  <2> DEFINE x == [child |-> Target[k], state |-> "queued", lease |-> NoLease,
                   status |-> "none", effect |-> "not-started"]
  <2>1. x \in Item
    BY TargetAssumption DEF Item, Effects
  <2>2. queue' = queue \/ queue' = Append(queue, x)
    BY <1>2 DEF Enqueue, Writes, ledger
  <2>3. queue' \in Seq(Item)
    <3>1. Append(queue, x) \in Seq(Item)
      BY <2>1, AppendProperties
    <3> QED
      BY <2>2, <3>1
  <2> QED
    BY <1>2, <2>3 DEF Enqueue, Writes, ledger
<1> QED
  BY <1>1, <1>2

\* What a worker thread does is well typed.
LEMMA RunTyped ==
  ASSUME TypeOK, NEW h \in Handles, Run(h),
         task[h].pc # "free" => task[h].item \in DOMAIN queue
  PROVE  TypeOK'
<1> USE DEF TypeOK
<1>f. Fault => faults' \in 0..MaxFaults
  BY MaxFaultsAssumption DEF Fault
<1>s. {"ready", "running", "failed", "cancelled", "completed"} \subseteq ChildStatuses
  BY DEF ChildStatuses
<1>e. {"not-started", "confirmed", "unknown"} \subseteq Effects
  BY DEF Effects
<1>c. task[h].pc # "free" => ChildOf(h) \in Children
  <2>1. task[h].item \in DOMAIN queue => queue[task[h].item] \in Item
    OBVIOUS
  <2> QED
    BY <2>1 DEF ChildOf, Item
<1>1. CASE BeginRun(h)
  <2>1. task' \in [Handles -> Task]
    BY <1>1, TaskTyped DEF BeginRun
  <2>2. owner' \in [Children -> Slots \cup Handles \cup {Nobody}]
    BY <1>1, <1>c DEF BeginRun
  <2> QED
    BY <1>1, <2>1, <2>2 DEF BeginRun, ledger
<1>2. CASE StartRun(h)
  BY <1>2, <1>s, TaskTyped DEF StartRun, ledger
<1>3. CASE RaiseFromRun(h)
  <2>1. child' \in [Children -> ChildStatuses]
    BY <1>3, <1>s DEF RaiseFromRun
  <2>2. faults' \in 0..MaxFaults
    BY <1>3, <1>f DEF RaiseFromRun
  <2>3. task' \in [Handles -> Task]
    BY <1>3, TaskTyped DEF RaiseFromRun
  <2> QED
    BY <1>3, <2>1, <2>2, <2>3 DEF RaiseFromRun, ledger
<1>4. CASE ReturnFromRun(h)
  <2>1. child' \in [Children -> ChildStatuses]
    BY <1>4, <1>s DEF ReturnFromRun
  <2>2. task' \in [Handles -> Task]
    BY <1>4, TaskTyped DEF ReturnFromRun
  <2> QED
    BY <1>4, <2>1, <2>2 DEF ReturnFromRun, ledger
<1>5. CASE InspectRaised(h)
  <2>1. child[ChildOf(h)] \in ChildStatuses
    BY <1>5, <1>c DEF InspectRaised
  <2>2. task' \in [Handles -> Task]
    BY <1>5, <1>s, <1>e, <2>1, TaskTyped DEF InspectRaised
  <2> QED
    BY <1>5, <1>f, <2>2 DEF InspectRaised, ledger
<1>6. CASE FailReady(h)
  <2>1. child' \in [Children -> ChildStatuses] /\ faults' \in 0..MaxFaults
    BY <1>6, <1>s, <1>f DEF FailReady
  <2>2. task' \in [Handles -> Task]
    BY <1>6, <1>s, <1>e, TaskTyped DEF FailReady
  <2> QED
    BY <1>6, <2>1, <2>2 DEF FailReady, ledger
<1>7. CASE InspectReturned(h)
  <2>1. child[ChildOf(h)] \in ChildStatuses
    BY <1>7, <1>c DEF InspectReturned
  <2>2. task' \in [Handles -> Task]
    BY <1>7, <1>s, <1>e, <2>1, TaskTyped DEF InspectReturned
  <2> QED
    BY <1>7, <1>f, <2>2 DEF InspectReturned, ledger
<1> QED
  BY <1>1, <1>2, <1>3, <1>4, <1>5, <1>6, <1>7 DEF Run

\* What the loop of a worker process does is well typed.
LEMMA LoopTyped ==
  ASSUME TypeOK, NEW s \in Slots,
         \/ \E t \in Threads : Claim(s, t) \/ Collect(s, t)
         \/ StopWorker(s) \/ EndDraining(s) \/ LoopFails(s) \/ Crash(s)
         \/ Heartbeat(s) \/ ClaimRaises(s)
  PROVE  TypeOK'
<1> USE DEF TypeOK
<1>f. Fault => faults' \in 0..MaxFaults
  BY MaxFaultsAssumption DEF Fault
<1>d. Step(s, "draining") => worker' \in [Slots -> Worker]
  BY WorkerTyped DEF WorkerLabels
<1>1. ASSUME NEW t \in Threads, Claim(s, t) PROVE TypeOK'
  <2>1. PICK i \in DOMAIN queue :
          /\ Unused(i) # {}
          /\ queue' = [queue EXCEPT ![i].state = "claimed",
                                    ![i].lease = CHOOSE l \in Unused(i) : TRUE,
                                    ![i].effect = "in-flight"]
          /\ \/ /\ task' = [task EXCEPT ![<<s, t>>] = [Free EXCEPT !.pc = "claimed", !.item = i,
                                           !.lease = CHOOSE l \in Unused(i) : TRUE]]
                /\ UNCHANGED <<worker, faults>>
             \/ /\ Fault
                /\ worker' = [worker EXCEPT ![s].pc = "draining"]
                /\ UNCHANGED task
    BY <1>1 DEF Claim, Writes
  <2> DEFINE l == CHOOSE l \in Unused(i) : TRUE
             x == [queue[i] EXCEPT !.state = "claimed", !.lease = l, !.effect = "in-flight"]
             y == [Free EXCEPT !.pc = "claimed", !.item = i, !.lease = l]
  <2>2. l \in Leases
    BY <2>1 DEF Unused
  <2>3. queue[i] \in Item /\ i \in Nat
    OBVIOUS
  <2>4. x \in Item /\ y \in Task
    BY <2>2, <2>3 DEF Item, Task, Free, Effects, ChildStatuses
  <2>5. queue' = [queue EXCEPT ![i] = x]
    BY <2>1
  <2>6. queue' \in Seq(Item)
    BY <2>4, <2>5, QueueTyped
  <2>7. worker' \in [Slots -> Worker] /\ faults' \in 0..MaxFaults
    BY <2>1, <1>d, <1>f DEF Step
  <2>8. task' = task \/ task' = [task EXCEPT ![<<s, t>>] = y]
    BY <2>1
  <2>9. task' \in [Handles -> Task]
    BY <2>4, <2>8
  <2> QED
    BY <1>1, <2>6, <2>7, <2>9 DEF Claim, Writes
<1>2. ASSUME NEW t \in Threads, Collect(s, t) PROVE TypeOK'
  <2> DEFINE h == <<s, t>>
             m == [item |-> task[h].item, lease |-> task[h].lease]
  <2>1. task[h] \in Task
    BY DEF Handles
  <2>2. task[h].status \in ChildStatuses /\ task[h].effect \in Effects
    BY <2>1 DEF Task
  <2>3. queue' \in Seq(Item)
    BY <1>2, <2>2, TerminalTyped DEF Collect, ledger
  <2>4. Free \in Task
    BY DEF Free, Task, ChildStatuses, Effects
  <2>5. task' \in [Handles -> Task] /\ faults' \in 0..MaxFaults
    BY <1>2, <1>f, <2>4 DEF Collect
  <2> QED
    BY <1>2, <2>3, <2>5 DEF Collect, Terminal, Writes, ledger
<1>3. CASE StopWorker(s)
  BY <1>3, DownTyped DEF StopWorker, ledger
<1>4. CASE EndDraining(s)
  BY <1>4, DownTyped DEF EndDraining, ledger
<1>5. CASE LoopFails(s)
  BY <1>5, <1>d, <1>f DEF LoopFails, Step, ledger
<1>6. CASE Crash(s)
  <2>1. owner' \in [Children -> Slots \cup Handles \cup {Nobody}]
    BY <1>6 DEF Crash
  <2> QED
    BY <1>6, <1>f, <2>1, DownTyped DEF Crash, ledger
<1>7. CASE Heartbeat(s)
  BY <1>7 DEF Heartbeat
<1>8. CASE ClaimRaises(s)
  BY <1>8, <1>d DEF ClaimRaises, Step, ledger
<1> QED
  BY <1>1, <1>2, <1>3, <1>4, <1>5, <1>6, <1>7, <1>8

\* The snapshot a reconciliation works through is one of copies.
LEMMA BeginTyped ==
  ASSUME TypeOK, NEW s \in Slots, NEW after \in {"loop", "down"}, Begin(s, after)
  PROVE  TypeOK'
<1> USE DEF TypeOK
<1>1. Claimed \subseteq Copy
  <2>1. \A i \in DOMAIN queue : i \in Nat /\ queue[i] \in Item
    OBVIOUS
  <2> QED
    BY <2>1 DEF Claimed, Copy, Item
<1>2. [pc |-> "reconcile", todo |-> Claimed, then |-> after, status |-> "ready"] \in Worker
  BY <1>1 DEF Worker, WorkerLabels, ChildStatuses
<1> QED
  BY <1>2 DEF Begin, ledger

\* What a reconciliation does is well typed.
LEMMA ReconcileTyped ==
  ASSUME TypeOK, CopiesKnown, NEW s \in Slots, Reconcile(s)
  PROVE  TypeOK'
<1> USE DEF TypeOK
<1>f. Fault => faults' \in 0..MaxFaults
  BY MaxFaultsAssumption DEF Fault
<1>w. worker[s] \in Worker
  OBVIOUS
<1>m. worker[s].todo # {} => /\ First(s) \in worker[s].todo
                            /\ First(s) \in Copy
                            /\ First(s).item \in DOMAIN queue
                            /\ Orphan(s) \in Children
  <2>1. worker[s].todo \subseteq Copy
    BY <1>w DEF Worker
  <2>2. worker[s].todo # {} => First(s) \in worker[s].todo /\ First(s).item \in DOMAIN queue
    BY <2>1, FirstOfTodo DEF CopiesKnown
  <2>3. \A i \in DOMAIN queue : queue[i] \in Item
    OBVIOUS
  <2> QED
    BY <2>1, <2>2, <2>3 DEF Orphan, Item
<1>l. /\ {"prove", "proved", "requeue", "recover", "interrupt", "settle"} \subseteq WorkerLabels
      /\ worker[s].then \in WorkerLabels
  BY <1>w DEF WorkerLabels, Worker
<1>k. "interrupted" \in ChildStatuses /\ TerminalStatuses \subseteq ChildStatuses
  BY DEF ChildStatuses, TerminalStatuses
<1>1. CASE EndReconcile(s)
  BY <1>1, <1>l, WorkerTyped DEF EndReconcile, ledger
<1>2. CASE InspectOrphan(s)
  <2>1. worker' \in [Slots -> Worker]
    BY <1>2, <1>l, <1>k, WorkerTyped DEF InspectOrphan
  <2> QED
    BY <1>2, <2>1 DEF InspectOrphan, ledger
<1>3. CASE ProveAbandoned(s)
  <2>1. worker' \in [Slots -> Worker]
    BY <1>3, <1>l, WorkerTyped DEF ProveAbandoned
  <2>2. owner' \in [Children -> Slots \cup Handles \cup {Nobody}]
    BY <1>3, <1>m DEF ProveAbandoned, At
  <2> QED
    BY <1>3, <2>1, <2>2 DEF ProveAbandoned, ledger
<1>4. CASE CloseProof(s)
  <2>1. worker' \in [Slots -> Worker]
    BY <1>4, <1>l, WorkerTyped DEF CloseProof
  <2>2. owner' \in [Children -> Slots \cup Handles \cup {Nobody}]
    BY <1>4, <1>m DEF CloseProof, At
  <2> QED
    BY <1>4, <2>1, <2>2 DEF CloseProof, ledger
<1>5. CASE Requeue(s)
  <2> DEFINE i == First(s).item
             x == [queue[i] EXCEPT !.state = "queued", !.effect = "not-started"]
  <2>1. i \in DOMAIN queue => queue[i] \in Item
    OBVIOUS
  <2>2. i \in DOMAIN queue => x \in Item
    BY <2>1 DEF Item, Effects
  <2>3. [queue EXCEPT ![i] = x] \in Seq(Item)
    BY <2>2, QueueTyped
  <2>4. queue' = queue \/ queue' = [queue EXCEPT ![i] = x]
    BY <1>5 DEF Requeue, Writes, ledger
  <2>5. queue' \in Seq(Item)
    BY <2>3, <2>4
  <2>6. worker' \in [Slots -> Worker]
    BY <1>5, WorkerTyped DEF Requeue
  <2> QED
    BY <1>5, <2>5, <2>6 DEF Requeue, Writes, ledger
<1>6. CASE AcquireRecovery(s)
  <2>1. worker' \in [Slots -> Worker]
    BY <1>6, <1>l, WorkerTyped DEF AcquireRecovery
  <2>2. owner' \in [Children -> Slots \cup Handles \cup {Nobody}]
    BY <1>6, <1>m DEF AcquireRecovery, At
  <2> QED
    BY <1>6, <2>1, <2>2 DEF AcquireRecovery, ledger
<1>7. CASE FinishInterrupted(s)
  <2>1. worker' \in [Slots -> Worker]
    BY <1>7, <1>k, WorkerTyped DEF FinishInterrupted
  <2>2. owner' \in [Children -> Slots \cup Handles \cup {Nobody}]
    BY <1>7, <1>m DEF FinishInterrupted, At
  <2>3. child' \in [Children -> ChildStatuses] /\ faults' \in 0..MaxFaults
    BY <1>7, <1>k, <1>f DEF FinishInterrupted
  <2> QED
    BY <1>7, <2>1, <2>2, <2>3 DEF FinishInterrupted, ledger
<1>8. CASE SettleOrphan(s)
  <2>1. worker' \in [Slots -> Worker]
    BY <1>8, WorkerTyped DEF SettleOrphan
  <2>2. worker[s].status \in ChildStatuses /\ "confirmed" \in Effects
    BY <1>w DEF Worker, Effects
  <2>3. queue' \in Seq(Item)
    BY <1>8, <2>2, TerminalTyped DEF SettleOrphan
  <2> QED
    BY <1>8, <2>1, <2>3 DEF SettleOrphan, Terminal, Writes, ledger
<1>9. CASE GiveUpOrphan(s)
  <2>1. worker' \in [Slots -> Worker]
    BY <1>9, WorkerTyped DEF GiveUpOrphan
  <2> QED
    BY <1>9, <1>f, <2>1 DEF GiveUpOrphan, ledger
<1> QED
  BY <1>1, <1>2, <1>3, <1>4, <1>5, <1>6, <1>7, <1>8, <1>9 DEF Reconcile

\* Every step keeps the types, while copies are of submissions.
LEMMA TypeStep ==
  ASSUME TypeOK, CopiesKnown, [Next]_vars
  PROVE  TypeOK'
<1>1. ASSUME NEW k \in Calls, CheckChildReady(k) \/ Enqueue(k) PROVE TypeOK'
  BY <1>1, EnqueueTyped
<1>2. ASSUME NEW s \in Slots, StartWorker(s) PROVE TypeOK'
  BY <1>2, BeginTyped DEF StartWorker
<1>3. ASSUME NEW s \in Slots, Work(s) \/ Heartbeat(s) \/ LoopFails(s) \/ Crash(s) PROVE TypeOK'
  BY <1>3, LoopTyped, ReconcileTyped DEF Work
<1>4. CASE RecoverOrphans
  BY <1>4, RecoverySlotAssumption, BeginTyped DEF RecoverOrphans
<1>5. ASSUME NEW h \in Handles, Run(h) PROVE TypeOK'
  BY <1>5, RunTyped DEF CopiesKnown
<1>6. ASSUME NEW c \in Children, HostCancels(c) \/ HostRecovers(c) PROVE TypeOK'
  BY <1>6 DEF HostCancels, HostRecovers, TypeOK, ChildStatuses, ledger
<1>7. CASE UNCHANGED vars
  BY <1>7 DEF vars, TypeOK, ledger
<1> QED
  BY <1>1, <1>2, <1>3, <1>4, <1>5, <1>6, <1>7 DEF Next

-----------------------------------------------------------------------------
(* What a step does to the queue and to the Child Runs.                     *)

\* A Child Run that is terminal stays what it is.
LEMMA ChildFinal ==
  ASSUME TypeOK, [Next]_vars, NEW c \in Children, child[c] \in TerminalStatuses
  PROVE  child'[c] = child[c]
<1> USE DEF TypeOK
<1>t. child[c] \notin {"ready", "running", "cancelling"}
  BY DEF TerminalStatuses
<1>1. ASSUME NEW h \in Handles, Run(h) PROVE child'[c] = child[c]
  BY <1>t, <1>1 DEF Run, BeginRun, StartRun, RaiseFromRun, ReturnFromRun, InspectRaised,
     FailReady, InspectReturned
<1>2. ASSUME NEW s \in Slots, Reconcile(s) PROVE child'[c] = child[c]
  BY <1>t, <1>2 DEF Reconcile, EndReconcile, InspectOrphan, ProveAbandoned, CloseProof, Requeue,
     AcquireRecovery, FinishInterrupted, SettleOrphan, GiveUpOrphan
<1>3. ASSUME NEW x \in Children, HostCancels(x) \/ HostRecovers(x) PROVE child'[c] = child[c]
  BY <1>t, <1>3 DEF HostCancels, HostRecovers
<1>4. ASSUME NEW s \in Slots,
             \/ StartWorker(s) \/ LoopFails(s) \/ Crash(s) \/ StopWorker(s) \/ EndDraining(s)
             \/ Heartbeat(s) \/ ClaimRaises(s)
             \/ \E t \in Threads : Claim(s, t) \/ Collect(s, t)
      PROVE  child'[c] = child[c]
  BY <1>4 DEF StartWorker, Begin, LoopFails, Crash, StopWorker, EndDraining, Heartbeat,
     ClaimRaises, Claim, Collect
<1>5. CASE RecoverOrphans \/ UNCHANGED vars \/ \E k \in Calls : CheckChildReady(k) \/ Enqueue(k)
  BY <1>5 DEF RecoverOrphans, Begin, vars, CheckChildReady, Enqueue
<1> QED
  BY <1>1, <1>2, <1>3, <1>4, <1>5 DEF Next, Work

\* Item i, not terminal yet, becomes x; a certain outcome is the Child's.
Advance(i, x) ==
  /\ queue[i].state # "terminal"
  /\ x.child = queue[i].child
  /\ x.state = "terminal" /\ x.effect # "unknown" /\ x.status \in TerminalStatuses
       => child[x.child] = x.status
  /\ queue' = [queue EXCEPT ![i] = x]

\* A submission of a Child Run that has no pending one.
Submitted(x) == CanEnqueue(x.child) /\ x.state = "queued" /\ queue' = Append(queue, x)

\* terminal() advances an item, or is refused.
LEMMA TerminalAdvances ==
  ASSUME TypeOK, NEW m, NEW status \in ChildStatuses, NEW effect \in Effects,
         m.item \in DOMAIN queue, Terminal(m, status, effect),
         effect # "unknown" /\ status \in TerminalStatuses
           => child[queue[m.item].child] = status
  PROVE  queue' = queue \/ \E x \in Item : Advance(m.item, x)
<1> DEFINE x == [queue[m.item] EXCEPT !.state = "terminal", !.status = status, !.effect = effect]
<1>1. queue[m.item] \in Item
  BY DEF TypeOK
<1>2. x \in Item
  BY <1>1 DEF Item
<1>3. /\ x.state = "terminal" /\ x.status = status /\ x.effect = effect
      /\ x.child = queue[m.item].child
  BY <1>1 DEF Item
<1>4. CASE ~full /\ HoldsClaim(m)
  <2>1. queue' = [queue EXCEPT ![m.item] = x]
    BY <1>4 DEF Terminal, Writes, ledger
  <2> HIDE DEF x
  <2>2. Advance(m.item, x)
    BY <1>3, <1>4, <2>1 DEF Advance, HoldsClaim
  <2> QED
    BY <1>2, <2>2
<1>5. CASE ~(~full /\ HoldsClaim(m))
  BY <1>5 DEF Terminal, Writes, ledger
<1> QED
  BY <1>4, <1>5

\* The queue gets a submission, or one item advances, or nothing happens to it.
LEMMA QueueStep ==
  ASSUME TypeOK, IndInv, [Next]_vars
  PROVE  \/ queue' = queue
         \/ \E x \in Item : Submitted(x)
         \/ \E i \in DOMAIN queue, x \in Item : Advance(i, x)
<1> DEFINE Goal == \/ queue' = queue
                   \/ \E x \in Item : Submitted(x)
                   \/ \E i \in DOMAIN queue, x \in Item : Advance(i, x)
<1> USE DEF TypeOK
<1>q. \A i \in DOMAIN queue : queue[i] \in Item
  OBVIOUS
<1>1. ASSUME NEW k \in Calls, Enqueue(k) PROVE Goal
  <2> DEFINE x == [child |-> Target[k], state |-> "queued", lease |-> NoLease,
                   status |-> "none", effect |-> "not-started"]
  <2>1. x \in Item /\ x.child = Target[k] /\ x.state = "queued"
    BY TargetAssumption DEF Item, Effects
  <2>2. queue' = queue \/ (CanEnqueue(Target[k]) /\ queue' = Append(queue, x))
    BY <1>1 DEF Enqueue, Writes, ledger
  <2> HIDE DEF x
  <2>3. queue' = queue \/ Submitted(x)
    BY <2>1, <2>2 DEF Submitted
  <2> QED
    BY <2>1, <2>3
<1>2. ASSUME NEW s \in Slots, NEW t \in Threads, Claim(s, t) PROVE Goal
  <2>1. PICK i \in DOMAIN queue :
          /\ queue[i].state = "queued"
          /\ Unused(i) # {}
          /\ queue' = [queue EXCEPT ![i].state = "claimed",
                                    ![i].lease = CHOOSE l \in Unused(i) : TRUE,
                                    ![i].effect = "in-flight"]
    BY <1>2 DEF Claim, Writes
  <2> DEFINE l == CHOOSE l \in Unused(i) : TRUE
             x == [queue[i] EXCEPT !.state = "claimed", !.lease = l, !.effect = "in-flight"]
  <2>2. l \in Leases
    BY <2>1 DEF Unused
  <2>3. x \in Item /\ x.child = queue[i].child /\ x.state = "claimed"
    BY <1>q, <2>2 DEF Item, Effects
  <2>4. queue' = [queue EXCEPT ![i] = x]
    BY <2>1
  <2> HIDE DEF x
  <2>5. Advance(i, x)
    BY <2>1, <2>3, <2>4 DEF Advance
  <2> QED
    BY <2>3, <2>5
<1>3. ASSUME NEW s \in Slots, NEW t \in Threads, Collect(s, t) PROVE Goal
  <2> DEFINE h == <<s, t>>
             m == [item |-> task[h].item, lease |-> task[h].lease]
  <2>1. task[h] \in Task /\ h \in Handles
    BY DEF Handles
  <2>2. task[h].status \in ChildStatuses /\ task[h].effect \in Effects
    BY <2>1 DEF Task
  <2>3. task[h].pc = "done"
    BY <1>3 DEF Collect
  <2>4. m.item \in DOMAIN queue
    BY <2>1, <2>3 DEF IndInv, CopiesKnown
  <2>5. task[h].effect # "unknown" /\ task[h].status \in TerminalStatuses
          => child[queue[m.item].child] = task[h].status
    BY <2>1, <2>3 DEF IndInv, ResultsAgree, ChildOf
  <2>6. queue' = queue \/ Terminal(m, task[h].status, task[h].effect)
    BY <1>3 DEF Collect, Writes, ledger
  <2> HIDE DEF m
  <2> QED
    BY <2>2, <2>4, <2>5, <2>6, TerminalAdvances
<1>4. ASSUME NEW s \in Slots, Requeue(s) PROVE Goal
  <2> DEFINE i == First(s).item
             x == [queue[i] EXCEPT !.state = "queued", !.effect = "not-started"]
  <2>1. i \in DOMAIN queue
    <3>1. worker[s].todo \subseteq Copy /\ worker[s].todo # {}
      BY <1>4 DEF Requeue, At, Worker
    <3> QED
      BY <3>1, FirstOfTodo DEF IndInv, CopiesKnown
  <2>2. x \in Item /\ x.child = queue[i].child /\ x.state = "queued"
    BY <1>q, <2>1 DEF Item, Effects
  <2>3. CASE ~full /\ HoldsClaim(First(s))
    <3>1. queue' = [queue EXCEPT ![i] = x]
      BY <1>4, <2>3 DEF Requeue, Writes, ledger
    <3> HIDE DEF x
    <3>2. Advance(i, x)
      BY <2>2, <2>3, <3>1 DEF Advance, HoldsClaim
    <3> QED
      BY <2>1, <2>2, <3>2
  <2>4. CASE ~(~full /\ HoldsClaim(First(s)))
    BY <1>4, <2>4 DEF Requeue, Writes, ledger
  <2> QED
    BY <2>3, <2>4
<1>5. ASSUME NEW s \in Slots, SettleOrphan(s) PROVE Goal
  <2>1. worker[s] \in Worker /\ worker[s].pc = "settle" /\ worker[s].todo # {}
    BY <1>5 DEF SettleOrphan, At
  <2>2. worker[s].todo \subseteq Copy /\ worker[s].status \in ChildStatuses
    BY <2>1 DEF Worker
  <2>3. First(s).item \in DOMAIN queue
    BY <2>1, <2>2, FirstOfTodo DEF IndInv, CopiesKnown
  <2>4. child[queue[First(s).item].child] = worker[s].status /\ "confirmed" \in Effects
    BY <2>1 DEF IndInv, SettlingAgrees, Orphan, Effects
  <2>5. Terminal(First(s), worker[s].status, "confirmed")
    BY <1>5 DEF SettleOrphan
  <2> QED
    BY <2>2, <2>3, <2>4, <2>5, TerminalAdvances
<1>6. ASSUME NEW s \in Slots,
             \/ StartWorker(s) \/ LoopFails(s) \/ Crash(s) \/ StopWorker(s) \/ EndDraining(s)
             \/ EndReconcile(s) \/ InspectOrphan(s) \/ ProveAbandoned(s) \/ CloseProof(s)
             \/ AcquireRecovery(s) \/ FinishInterrupted(s) \/ GiveUpOrphan(s)
             \/ Heartbeat(s) \/ ClaimRaises(s)
      PROVE  queue' = queue
  BY <1>6 DEF StartWorker, Begin, LoopFails, Crash, StopWorker, EndDraining, Heartbeat,
     ClaimRaises, EndReconcile, InspectOrphan, ProveAbandoned, CloseProof, AcquireRecovery, FinishInterrupted, GiveUpOrphan,
     ledger
<1>7. CASE \/ RecoverOrphans \/ UNCHANGED vars
           \/ \E k \in Calls : CheckChildReady(k)
           \/ \E h \in Handles : Run(h)
           \/ \E c \in Children : HostCancels(c) \/ HostRecovers(c)
  BY <1>7 DEF RecoverOrphans, Begin, vars, CheckChildReady, HostCancels, HostRecovers, Run,
     BeginRun, StartRun, RaiseFromRun, ReturnFromRun, InspectRaised, FailReady, InspectReturned,
     ledger
<1> QED
  BY <1>1, <1>2, <1>3, <1>4, <1>5, <1>6, <1>7 DEF Next, Work, Reconcile

\* Submissions stay where they are and keep their Child Run.
LEMMA QueueGrows ==
  ASSUME TypeOK, IndInv, [Next]_vars, NEW i \in DOMAIN queue
  PROVE  /\ i \in DOMAIN queue'
         /\ queue'[i].child = queue[i].child
         /\ queue[i].state = "terminal" => queue'[i] = queue[i]
<1> USE DEF TypeOK
<1>1. CASE queue' = queue
  BY <1>1
<1>2. ASSUME NEW x \in Item, Submitted(x)
      PROVE  i \in DOMAIN queue' /\ queue'[i] = queue[i]
  <2>1. queue' = Append(queue, x)
    BY <1>2 DEF Submitted
  <2> QED
    BY <2>1, AppendProperties
<1>3. ASSUME NEW j \in DOMAIN queue, NEW x \in Item, Advance(j, x)
      PROVE  /\ i \in DOMAIN queue'
             /\ queue'[i].child = queue[i].child
             /\ queue[i].state = "terminal" => queue'[i] = queue[i]
  BY <1>3 DEF Advance
<1> QED
  BY <1>1, <1>2, <1>3, QueueStep

-----------------------------------------------------------------------------
(* What a step does to the copies and the results of workers.               *)

\* What a thread may hold after a step: nothing, a known item, or a result
\* that agrees with the Child Run.
GoodTask(h) ==
  \/ task'[h].pc = "free"
  \/ task'[h] = task[h]
  \/ /\ task'[h].item \in DOMAIN queue
     /\ \/ task'[h].pc # "done"
        \/ task'[h].effect # "unknown" /\ task'[h].status \in TerminalStatuses
             => child'[queue[task'[h].item].child] = task'[h].status

\* And a reconciling worker.
GoodWorker(s) ==
  \/ worker'[s] = worker[s]
  \/ /\ \A m \in worker'[s].todo : m.item \in DOMAIN queue
     /\ worker'[s].pc # "settle"
  \/ /\ worker'[s].todo = worker[s].todo /\ worker[s].todo # {}
     /\ worker'[s].status \in TerminalStatuses
     /\ child'[Orphan(s)] = worker'[s].status

\* A worker thread keeps its item and reports what it sees.
LEMMA RunStep ==
  ASSUME TypeOK, IndInv, NEW h \in Handles, Run(h)
  PROVE  /\ GoodTask(h) /\ \A g \in Handles : g # h => task'[g] = task[g]
         /\ UNCHANGED worker
<1> USE DEF TypeOK
<1>1. task[h] \in Task
  OBVIOUS
<1>2. task[h].pc # "free" => task[h].item \in DOMAIN queue /\ ChildOf(h) \in Children
  <2>1. \A i \in DOMAIN queue : queue[i] \in Item
    OBVIOUS
  <2> QED
    BY <2>1 DEF Item, IndInv, CopiesKnown, ChildOf
<1>3. ASSUME NEW to, to # "done", Go(h, to), task[h].pc # "free"
      PROVE  GoodTask(h) /\ \A g \in Handles : g # h => task'[g] = task[g]
  BY <1>1, <1>2, <1>3 DEF Go, GoodTask, Task
<1>4. ASSUME NEW st, NEW f, Result(h, st, f), task[h].pc # "free",
             f # "unknown" /\ st \in TerminalStatuses => child'[ChildOf(h)] = st
      PROVE  GoodTask(h) /\ \A g \in Handles : g # h => task'[g] = task[g]
  BY <1>1, <1>2, <1>4 DEF Result, GoodTask, Task, ChildOf
<1>5. CASE BeginRun(h)
  BY <1>3, <1>5 DEF BeginRun
<1>6. CASE StartRun(h)
  BY <1>3, <1>6 DEF StartRun
<1>7. CASE RaiseFromRun(h)
  BY <1>3, <1>7 DEF RaiseFromRun
<1>8. CASE ReturnFromRun(h)
  BY <1>3, <1>8 DEF ReturnFromRun
<1>9. CASE InspectRaised(h)
  BY <1>3, <1>4, <1>9 DEF InspectRaised
<1>10. CASE FailReady(h)
  <2>1. CASE Result(h, "failed", "unknown")
    BY <1>4, <1>10, <2>1 DEF FailReady
  <2>2. CASE ~Result(h, "failed", "unknown")
    <3>1. Result(h, "failed", "not-started") /\ child'[ChildOf(h)] = "failed"
      BY <1>2, <1>10, <2>2 DEF FailReady
    <3> QED
      BY <1>4, <1>10, <3>1 DEF FailReady
  <2> QED
    BY <1>10, <2>1, <2>2 DEF FailReady
<1>11. CASE InspectReturned(h)
  BY <1>4, <1>11 DEF InspectReturned
<1> QED
  BY <1>5, <1>6, <1>7, <1>8, <1>9, <1>10, <1>11
     DEF Run, BeginRun, StartRun, RaiseFromRun, ReturnFromRun, InspectRaised, FailReady,
         InspectReturned

\* The loop of a worker takes known items and gives up its own threads.
LEMMA LoopStep ==
  ASSUME TypeOK, IndInv, NEW s \in Slots,
         \/ \E t \in Threads : Claim(s, t) \/ Collect(s, t)
         \/ StopWorker(s) \/ EndDraining(s) \/ LoopFails(s) \/ Crash(s)
         \/ Heartbeat(s) \/ ClaimRaises(s)
  PROVE  /\ \A h \in Handles : GoodTask(h)
         /\ \A x \in Slots : GoodWorker(x)
<1> USE DEF TypeOK
<1>d. \A i \in DOMAIN queue : i \in Nat
  OBVIOUS
<1>w. /\ \A x \in Slots : worker[x] \in Worker
      /\ \A x \in Slots : \A m \in worker[x].todo : m.item \in DOMAIN queue
  BY DEF IndInv, CopiesKnown
<1>1. ASSUME worker' = [worker EXCEPT ![s].pc = "draining"]
      PROVE  \A x \in Slots : GoodWorker(x)
  BY <1>1, <1>w DEF GoodWorker, Worker
<1>2. ASSUME GoDown(s)
      PROVE  (\A h \in Handles : GoodTask(h)) /\ (\A x \in Slots : GoodWorker(x))
  BY <1>2 DEF GoDown, GoodTask, GoodWorker, Free, Down
<1>3. ASSUME NEW t \in Threads, Claim(s, t)
      PROVE  (\A h \in Handles : GoodTask(h)) /\ (\A x \in Slots : GoodWorker(x))
  <2>0. PICK i \in DOMAIN queue : \E l :
          \/ /\ task' = [task EXCEPT ![<<s, t>>] = [Free EXCEPT !.pc = "claimed", !.item = i,
                                                   !.lease = l]]
             /\ UNCHANGED worker
          \/ /\ worker' = [worker EXCEPT ![s].pc = "draining"]
             /\ UNCHANGED task
    BY <1>3 DEF Claim
  <2>1. PICK l :
          \/ /\ task' = [task EXCEPT ![<<s, t>>] = [Free EXCEPT !.pc = "claimed", !.item = i,
                                                   !.lease = l]]
             /\ UNCHANGED worker
          \/ /\ worker' = [worker EXCEPT ![s].pc = "draining"]
             /\ UNCHANGED task
    BY <2>0
  <2>2. CASE UNCHANGED task
    BY <1>1, <2>1, <2>2 DEF GoodTask, GoodWorker
  <2>3. CASE ~UNCHANGED task
    BY <2>1, <2>3 DEF GoodTask, GoodWorker, Free
  <2> QED
    BY <2>2, <2>3
<1>4. ASSUME NEW t \in Threads, Collect(s, t)
      PROVE  (\A h \in Handles : GoodTask(h)) /\ (\A x \in Slots : GoodWorker(x))
  BY <1>4 DEF Collect, GoodTask, GoodWorker, Free
<1>5. CASE LoopFails(s) \/ ClaimRaises(s)
  BY <1>1, <1>5 DEF LoopFails, ClaimRaises, GoodTask
<1>6. CASE Heartbeat(s)
  BY <1>6 DEF Heartbeat, GoodTask, GoodWorker
<1> QED
  BY <1>2, <1>3, <1>4, <1>5, <1>6 DEF StopWorker, EndDraining, Crash

\* A reconciliation works through its snapshot and settles what it has seen.
LEMMA ReconcileStep ==
  ASSUME TypeOK, IndInv, NEW s \in Slots, Reconcile(s)
  PROVE  (\A x \in Slots : GoodWorker(x)) /\ UNCHANGED task
<1> USE DEF TypeOK
<1>w. /\ worker[s] \in Worker
      /\ \A m \in worker[s].todo : m.item \in DOMAIN queue
  BY DEF IndInv, CopiesKnown
<1>1. ASSUME Skip(s) PROVE \A x \in Slots : GoodWorker(x)
  BY <1>w, <1>1 DEF Skip, GoodWorker
<1>2. ASSUME NEW to, to # "settle", Step(s, to) PROVE \A x \in Slots : GoodWorker(x)
  BY <1>w, <1>2 DEF Step, GoodWorker, Worker
<1>3. ASSUME NEW st \in TerminalStatuses, Settle(s, st), worker[s].todo # {},
             child'[Orphan(s)] = st
      PROVE  \A x \in Slots : GoodWorker(x)
  BY <1>w, <1>3 DEF Settle, GoodWorker, Worker
<1>4. CASE EndReconcile(s)
  <2>1. worker[s].then # "settle"
    BY <1>w DEF Worker
  <2> QED
    BY <1>2, <1>4, <2>1 DEF EndReconcile
<1>5. CASE InspectOrphan(s)
  BY <1>2, <1>3, <1>5 DEF InspectOrphan, At
<1>6. CASE ProveAbandoned(s) \/ CloseProof(s) \/ Requeue(s) \/ AcquireRecovery(s)
           \/ SettleOrphan(s) \/ GiveUpOrphan(s)
  BY <1>1, <1>2, <1>6 DEF ProveAbandoned, CloseProof, Requeue, AcquireRecovery, SettleOrphan,
     GiveUpOrphan
<1>7. CASE FinishInterrupted(s)
  <2>1. CASE Skip(s)
    BY <1>1, <1>7, <2>1 DEF FinishInterrupted
  <2>2. CASE ~Skip(s)
    <3>1. worker[s].todo # {} /\ worker[s].todo \subseteq Copy
      BY <1>7, <1>w DEF FinishInterrupted, At, Worker
    <3>2. First(s).item \in DOMAIN queue
      BY <1>w, <3>1, FirstOfTodo
    <3>3. Orphan(s) \in Children
      <4>1. \A i \in DOMAIN queue : queue[i] \in Item
        OBVIOUS
      <4> QED
        BY <3>2, <4>1 DEF Orphan, Item
    <3>4. child'[Orphan(s)] = "interrupted" /\ Settle(s, "interrupted")
      BY <1>7, <2>2, <3>3 DEF FinishInterrupted
    <3> QED
      BY <1>3, <1>7, <3>1, <3>4 DEF FinishInterrupted, TerminalStatuses
  <2> QED
    BY <2>1, <2>2
<1> QED
  BY <1>4, <1>5, <1>6, <1>7 DEF Reconcile, EndReconcile, InspectOrphan, ProveAbandoned, CloseProof,
     Requeue, AcquireRecovery, FinishInterrupted, SettleOrphan, GiveUpOrphan

\* Every step leaves known copies and agreeing results.
LEMMA ActorsStep ==
  ASSUME TypeOK, IndInv, [Next]_vars
  PROVE  (\A h \in Handles : GoodTask(h)) /\ (\A s \in Slots : GoodWorker(s))
<1> DEFINE Goal == (\A h \in Handles : GoodTask(h)) /\ (\A s \in Slots : GoodWorker(s))
<1>1. ASSUME UNCHANGED <<task, worker>> PROVE Goal
  BY <1>1 DEF GoodTask, GoodWorker
<1>2. ASSUME NEW s \in Slots, NEW after, Begin(s, after) PROVE Goal
  BY <1>2 DEF Begin, Claimed, GoodTask, GoodWorker, TypeOK
<1>3. ASSUME NEW h \in Handles, Run(h) PROVE Goal
  BY <1>3, RunStep DEF GoodTask, GoodWorker
<1>4. ASSUME NEW s \in Slots, Reconcile(s) PROVE Goal
  BY <1>4, ReconcileStep DEF GoodTask
<1>5. ASSUME NEW s \in Slots, Work(s) \/ Heartbeat(s) \/ LoopFails(s) \/ Crash(s) PROVE Goal
  BY <1>4, <1>5, LoopStep DEF Work
<1>6. CASE \/ UNCHANGED vars
           \/ \E k \in Calls : CheckChildReady(k) \/ Enqueue(k)
           \/ \E c \in Children : HostCancels(c) \/ HostRecovers(c)
  BY <1>1, <1>6 DEF vars, CheckChildReady, Enqueue, HostCancels, HostRecovers
<1> QED
  BY <1>2, <1>3, <1>5, <1>6, RecoverySlotAssumption DEF Next, StartWorker, RecoverOrphans

-----------------------------------------------------------------------------
(* The inductive invariant.                                                 *)

\* A position of the queue is a submission of some Child Run.
LEMMA Submissions ==
  ASSUME TypeOK, NEW i \in DOMAIN queue
  PROVE  queue[i] \in Item /\ queue[i].child \in Children
<1>1. queue[i] \in Item
  BY DEF TypeOK
<1> QED
  BY <1>1 DEF Item

\* Known copies stay known.
LEMMA CopiesStep ==
  ASSUME TypeOK, IndInv, [Next]_vars
  PROVE  CopiesKnown'
<1>1. \A i \in DOMAIN queue : i \in DOMAIN queue'
  BY QueueGrows
<1>2. ASSUME NEW s \in Slots PROVE \A m \in worker'[s].todo : m.item \in DOMAIN queue'
  BY <1>1, ActorsStep DEF GoodWorker, IndInv, CopiesKnown
<1>3. ASSUME NEW h \in Handles, task'[h].pc # "free" PROVE task'[h].item \in DOMAIN queue'
  BY <1>1, <1>3, ActorsStep DEF GoodTask, IndInv, CopiesKnown
<1> QED
  BY <1>2, <1>3 DEF CopiesKnown

\* What a thread has read of a terminal Child Run stays true.
LEMMA ResultsStep ==
  ASSUME TypeOK, IndInv, [Next]_vars
  PROVE  ResultsAgree'
<1> SUFFICES ASSUME NEW h \in Handles, task'[h].pc = "done", task'[h].effect # "unknown",
                    task'[h].status \in TerminalStatuses
             PROVE  child'[queue'[task'[h].item].child] = task'[h].status
  BY DEF ResultsAgree, ChildOf
<1>1. CASE task'[h] = task[h]
  <2>1. /\ task[h].item \in DOMAIN queue
        /\ child[queue[task[h].item].child] = task[h].status
    BY <1>1 DEF IndInv, CopiesKnown, ResultsAgree, ChildOf
  <2>2. queue[task[h].item].child \in Children
    BY <2>1, Submissions
  <2>3. queue'[task[h].item].child = queue[task[h].item].child
    BY <2>1, QueueGrows
  <2> QED
    BY <1>1, <2>1, <2>2, <2>3, ChildFinal
<1>2. CASE task'[h] # task[h]
  <2>1. /\ task'[h].item \in DOMAIN queue
        /\ child'[queue[task'[h].item].child] = task'[h].status
    BY <1>2, ActorsStep DEF GoodTask
  <2> QED
    BY <2>1, QueueGrows
<1> QED
  BY <1>1, <1>2

\* And what a reconciling worker has read.
LEMMA SettlingStep ==
  ASSUME TypeOK, IndInv, [Next]_vars
  PROVE  SettlingAgrees'
<1> SUFFICES ASSUME NEW s \in Slots, worker'[s].pc = "settle"
             PROVE  /\ worker'[s].todo # {}
                    /\ worker'[s].status \in TerminalStatuses
                    /\ child'[Orphan(s)'] = worker'[s].status
  BY DEF SettlingAgrees
<1>1. worker[s].todo \subseteq Copy
  BY DEF TypeOK, Worker
<1>2. /\ worker'[s].todo = worker[s].todo /\ worker[s].todo # {}
      /\ worker'[s].status \in TerminalStatuses
      /\ child'[Orphan(s)] = worker'[s].status
  <2>1. First(s).item \in DOMAIN queue /\ Orphan(s) \in Children
    <3>1. worker[s].todo # {}
      BY ActorsStep DEF GoodWorker, IndInv, SettlingAgrees
    <3>2. First(s).item \in DOMAIN queue
      BY <1>1, <3>1, FirstOfTodo DEF IndInv, CopiesKnown
    <3> QED
      BY <3>2, Submissions DEF Orphan
  <2>2. CASE worker'[s] = worker[s]
    BY <2>1, <2>2, ChildFinal DEF IndInv, SettlingAgrees
  <2>3. CASE worker'[s] # worker[s]
    BY <2>3, ActorsStep DEF GoodWorker
  <2> QED
    BY <2>2, <2>3
<1>3. First(s)' = First(s)
  BY <1>2 DEF First
<1>4. First(s).item \in DOMAIN queue
  BY <1>1, <1>2, FirstOfTodo DEF IndInv, CopiesKnown
<1>5. Orphan(s)' = Orphan(s)
  BY <1>3, <1>4, QueueGrows DEF Orphan
<1> QED
  BY <1>2, <1>5

\* A recorded outcome keeps agreeing with the Child Run, and a new one does.
LEMMA TerminalAgreesStep ==
  ASSUME TypeOK, IndInv, [Next]_vars
  PROVE  TerminalAgrees'
<1> SUFFICES ASSUME NEW i \in DOMAIN queue', queue'[i].state = "terminal",
                    queue'[i].effect # "unknown", queue'[i].status \in TerminalStatuses
             PROVE  child'[queue'[i].child] = queue'[i].status
  BY DEF TerminalAgrees
<1>1. ASSUME i \in DOMAIN queue, queue'[i] = queue[i]
      PROVE  child'[queue'[i].child] = queue'[i].status
  <2>1. child[queue[i].child] = queue[i].status
    BY <1>1 DEF IndInv, TerminalAgrees
  <2> QED
    BY <1>1, <2>1, Submissions, ChildFinal
<1>2. CASE queue' = queue
  BY <1>1, <1>2
<1>3. ASSUME NEW x \in Item, Submitted(x)
      PROVE  child'[queue'[i].child] = queue'[i].status
  <2>1. queue \in Seq(Item)
    BY DEF TypeOK
  <2>2. \/ i \in DOMAIN queue /\ queue'[i] = queue[i]
        \/ queue'[i] = x
    BY <1>3, <2>1, AppendProperties DEF Submitted
  <2>3. queue'[i] # x
    BY <1>3 DEF Submitted
  <2> QED
    BY <1>1, <2>2, <2>3
<1>4. ASSUME NEW j \in DOMAIN queue, NEW x \in Item, Advance(j, x)
      PROVE  child'[queue'[i].child] = queue'[i].status
  <2>1. queue \in Seq(Item)
    BY DEF TypeOK
  <2>2. i \in DOMAIN queue /\ (i # j => queue'[i] = queue[i]) /\ queue'[j] = x
    BY <1>4, <2>1 DEF Advance
  <2>3. CASE i = j
    <3>1. child[x.child] = x.status /\ x.child = queue[j].child
      BY <1>4, <2>2, <2>3 DEF Advance
    <3> QED
      BY <2>2, <2>3, <3>1, Submissions, ChildFinal
  <2> QED
    BY <1>1, <2>2, <2>3
<1> QED
  BY <1>2, <1>3, <1>4, QueueStep

\* A Child Run with a pending submission gets no second one.
LEMMA OnePendingStep ==
  ASSUME TypeOK, IndInv, [Next]_vars
  PROVE  OnePending'
<1> SUFFICES ASSUME NEW i \in DOMAIN queue', NEW j \in DOMAIN queue',
                    queue'[i].state \in {"queued", "claimed"},
                    queue'[j].state \in {"queued", "claimed"},
                    queue'[i].child = queue'[j].child
             PROVE  i = j
  BY DEF OnePending, Pending
<1>q. queue \in Seq(Item)
  BY DEF TypeOK
<1>p. \A m, n \in DOMAIN queue :
        /\ queue[m].state \in {"queued", "claimed"}
        /\ queue[n].state \in {"queued", "claimed"}
        /\ queue[m].child = queue[n].child
        => m = n
  BY DEF IndInv, OnePending, Pending
<1>1. CASE queue' = queue
  BY <1>1, <1>p
<1>2. ASSUME NEW x \in Item, Submitted(x) PROVE i = j
  <2>1. /\ DOMAIN queue' = 1..(Len(queue) + 1)
        /\ DOMAIN queue = 1..Len(queue)
        /\ Len(queue) \in Nat
        /\ \A m \in DOMAIN queue : queue'[m] = queue[m]
        /\ queue'[Len(queue) + 1] = x
    BY <1>2, <1>q, AppendProperties DEF Submitted
  <2>2. \A m \in DOMAIN queue :
          queue[m].state \in {"queued", "claimed"} => queue[m].child # x.child
    BY <1>2 DEF Submitted, CanEnqueue, Pending
  <2> QED
    BY <1>p, <2>1, <2>2
<1>3. ASSUME NEW k \in DOMAIN queue, NEW x \in Item, Advance(k, x) PROVE i = j
  <2>1. /\ DOMAIN queue' = DOMAIN queue
        /\ \A m \in DOMAIN queue : m # k => queue'[m] = queue[m]
        /\ queue'[k] = x /\ x.child = queue[k].child
    BY <1>3, <1>q DEF Advance
  <2>2. queue[k].state \in {"queued", "claimed"}
    <3>1. queue[k].state \in {"queued", "claimed", "terminal"}
      BY Submissions DEF Item
    <3> QED
      BY <1>3, <3>1 DEF Advance
  <2> QED
    BY <1>p, <2>1, <2>2
<1> QED
  BY <1>1, <1>2, <1>3, QueueStep

-----------------------------------------------------------------------------
(* Whoever runs a Child Run, or has proved it abandoned, owns it.           *)

\* A thread that runs its Child owns it after the step.
OwningTask(h) ==
  task'[h].pc \in {"leased", "running"} =>
    /\ task[h].pc # "free" /\ task'[h].item = task[h].item
    /\ owner'[ChildOf(h)] = h

\* And a reconciling worker that has proved a Child abandoned.
OwningWorker(s) ==
  worker'[s].pc \in {"proved", "interrupt"} =>
    /\ worker'[s].todo = worker[s].todo /\ worker[s].todo # {}
    /\ owner'[Orphan(s)] = s

\* The Child of a thread's item, and the one a reconciliation is at, are Children.
LEMMA OwnedChildren ==
  ASSUME TypeOK, IndInv
  PROVE  /\ \A h \in Handles : task[h].pc # "free" => ChildOf(h) \in Children
         /\ \A s \in Slots : worker[s].todo # {} =>
              First(s).item \in DOMAIN queue /\ Orphan(s) \in Children
<1>1. ASSUME NEW h \in Handles, task[h].pc # "free" PROVE ChildOf(h) \in Children
  BY <1>1, Submissions DEF IndInv, CopiesKnown, ChildOf
<1>2. ASSUME NEW s \in Slots, worker[s].todo # {}
      PROVE  First(s).item \in DOMAIN queue /\ Orphan(s) \in Children
  <2>1. worker[s].todo \subseteq Copy
    BY DEF TypeOK, Worker
  <2>2. First(s).item \in DOMAIN queue
    BY <1>2, <2>1, FirstOfTodo DEF IndInv, CopiesKnown
  <2> QED
    BY <2>2, Submissions DEF Orphan
<1> QED
  BY <1>1, <1>2

\* A step of me, which takes free leases and drops its own, disowns nobody else.
LEMMA OthersOwn ==
  ASSUME TypeOK, IndInv, NEW me,
         \A c \in Children : owner'[c] = owner[c] \/ owner[c] \in {Nobody, me}
  PROVE  /\ \A h \in Handles : h # me /\ task'[h] = task[h] => OwningTask(h)
         /\ \A s \in Slots : s # me /\ worker'[s] = worker[s] => OwningWorker(s)
<1>1. ASSUME NEW h \in Handles, h # me, task'[h] = task[h], task[h].pc \in {"leased", "running"}
      PROVE  OwningTask(h)
  <2>1. ChildOf(h) \in Children /\ owner[ChildOf(h)] = h /\ h # Nobody
    BY <1>1, OwnedChildren, NobodyAssumption DEF IndInv, Owned, Handles
  <2> QED
    BY <1>1, <2>1 DEF OwningTask
<1>2. ASSUME NEW s \in Slots, s # me, worker'[s] = worker[s],
             worker[s].pc \in {"proved", "interrupt"}
      PROVE  OwningWorker(s)
  <2>1. worker[s].todo # {} /\ owner[Orphan(s)] = s /\ s # Nobody
    BY <1>2, NobodyAssumption DEF IndInv, Owned
  <2>2. Orphan(s) \in Children
    BY <2>1, OwnedChildren
  <2> QED
    BY <1>2, <2>1, <2>2 DEF OwningWorker
<1> QED
  BY <1>1, <1>2 DEF OwningTask, OwningWorker

\* A thread takes the lease of its Child when it is free, and drops its own.
LEMMA RunOwns ==
  ASSUME TypeOK, IndInv, NEW h \in Handles, Run(h)
  PROVE  /\ \A g \in Handles : OwningTask(g)
         /\ \A s \in Slots : OwningWorker(s)
<1>1. task[h] \in Task /\ task[h].pc # "free" /\ ChildOf(h) \in Children
  <2>1. task[h].pc # "free"
    BY DEF Run, BeginRun, StartRun, RaiseFromRun, ReturnFromRun, InspectRaised, FailReady,
      InspectReturned
  <2> QED
    BY <2>1, OwnedChildren DEF TypeOK
<1>2. task[h].pc \in {"leased", "running"} => owner[ChildOf(h)] = h
  BY DEF IndInv, Owned
<1>3. \A c \in Children : owner'[c] = owner[c] \/ owner[c] \in {Nobody, h}
  BY <1>1, <1>2 DEF Run, BeginRun, StartRun, RaiseFromRun, ReturnFromRun, InspectRaised, FailReady,
    InspectReturned, TypeOK
<1>4. OwningTask(h)
  <2>1. CASE BeginRun(h)
    <3>1. CASE child[ChildOf(h)] = "ready" /\ owner[ChildOf(h)] = Nobody
      BY <1>1, <2>1, <3>1 DEF BeginRun, Go, OwningTask, TypeOK, Task
    <3>2. CASE ~(child[ChildOf(h)] = "ready" /\ owner[ChildOf(h)] = Nobody)
      BY <1>1, <2>1, <3>2 DEF BeginRun, Go, OwningTask, TypeOK, Task
    <3> QED
      BY <3>1, <3>2
  <2>2. CASE StartRun(h)
    BY <1>1, <1>2, <2>2 DEF StartRun, Go, OwningTask, TypeOK, Task
  <2>3. CASE RaiseFromRun(h) \/ ReturnFromRun(h)
    <3>1. \E to \in {"raised", "returned"} : Go(h, to)
      BY <2>3 DEF RaiseFromRun, ReturnFromRun
    <3> QED
      BY <1>1, <3>1 DEF Go, OwningTask, TypeOK, Task
  <2>4. CASE InspectRaised(h) \/ FailReady(h) \/ InspectReturned(h)
    <3>1. Go(h, "failing") \/ \E st, f : Result(h, st, f)
      BY <2>4 DEF InspectRaised, FailReady, InspectReturned
    <3>2. CASE Go(h, "failing")
      BY <1>1, <3>2 DEF Go, OwningTask, TypeOK, Task
    <3>3. ASSUME NEW st, NEW f, Result(h, st, f) PROVE OwningTask(h)
      <4>1. task'[h].pc = "done"
        BY <1>1, <3>3 DEF Result, TypeOK, Task
      <4> QED
        BY <4>1 DEF OwningTask
    <3> QED
      BY <3>1, <3>2, <3>3
  <2> QED
    BY <2>1, <2>2, <2>3, <2>4 DEF Run
<1>5. \A g \in Handles : g # h => task'[g] = task[g]
  BY RunStep
<1>6. UNCHANGED worker /\ \A s \in Slots : s # h
  BY RunStep, SlotsAssumption DEF Handles
<1> QED
  BY <1>3, <1>4, <1>5, <1>6, OthersOwn

\* A reconciliation owns the Child it has proved abandoned until it says so.
LEMMA ReconcileOwns ==
  ASSUME TypeOK, IndInv, NEW s \in Slots, Reconcile(s)
  PROVE  /\ \A h \in Handles : OwningTask(h)
         /\ \A x \in Slots : OwningWorker(x)
<1>1. worker[s] \in Worker /\ (worker[s].todo # {} => Orphan(s) \in Children)
  BY OwnedChildren DEF TypeOK
<1>2. worker[s].pc \in {"proved", "interrupt"} => owner[Orphan(s)] = s
  BY DEF IndInv, Owned
<1>3. \A c \in Children : owner'[c] = owner[c] \/ owner[c] \in {Nobody, s}
  BY <1>1, <1>2 DEF Reconcile, EndReconcile, InspectOrphan, ProveAbandoned, CloseProof, Requeue,
    AcquireRecovery, FinishInterrupted, SettleOrphan, GiveUpOrphan, At, TypeOK
<1>4. UNCHANGED task /\ \A h \in Handles : h # s
  BY ReconcileStep, SlotsAssumption DEF Handles
<1>5. \A x \in Slots : x # s => worker'[x] = worker[x]
  BY DEF Reconcile, EndReconcile, InspectOrphan, ProveAbandoned, CloseProof, Requeue,
    AcquireRecovery, FinishInterrupted, SettleOrphan, GiveUpOrphan, Step, Skip, Settle, TypeOK
<1>s. /\ \A to : Step(s, to) => worker'[s].pc = to /\ worker'[s].todo = worker[s].todo
      /\ Skip(s) => worker'[s].pc = "reconcile"
      /\ \A st : Settle(s, st) => worker'[s].pc = "settle"
  BY <1>1 DEF Step, Skip, Settle, TypeOK, Worker
<1>6. OwningWorker(s)
  <2>1. CASE ProveAbandoned(s) \/ AcquireRecovery(s)
    <3>1. \/ Skip(s)
          \/ /\ worker[s].todo # {}
             /\ owner' = [owner EXCEPT ![Orphan(s)] = s]
             /\ \E to : Step(s, to)
      BY <2>1 DEF ProveAbandoned, AcquireRecovery, At
    <3>2. owner' = [owner EXCEPT ![Orphan(s)] = s] /\ worker[s].todo # {} => owner'[Orphan(s)] = s
      BY <1>1 DEF TypeOK
    <3> QED
      BY <1>s, <3>1, <3>2 DEF OwningWorker
  <2>2. CASE ~(ProveAbandoned(s) \/ AcquireRecovery(s))
    <3>1. \/ Skip(s)
          \/ \E st : Settle(s, st)
          \/ \E to \in {"loop", "down", "prove", "recover", "requeue"} : Step(s, to)
      BY <1>1, <2>2 DEF Reconcile, EndReconcile, InspectOrphan, CloseProof, Requeue,
        FinishInterrupted, SettleOrphan, GiveUpOrphan, Worker
    <3> QED
      BY <1>s, <3>1 DEF OwningWorker
  <2> QED
    BY <2>1, <2>2
<1> QED
  BY <1>3, <1>4, <1>5, <1>6, OthersOwn

\* A dead process disowns what it and its threads own, and nothing else.
LEMMA CrashOwns ==
  ASSUME TypeOK, IndInv, NEW s \in Slots, Crash(s)
  PROVE  /\ \A h \in Handles : OwningTask(h)
         /\ \A x \in Slots : OwningWorker(x)
<1>o. \A c \in Children : owner[c] \notin TasksOf(s) \cup {s} => owner'[c] = owner[c]
  BY DEF Crash
<1>1. ASSUME NEW h \in Handles, task'[h].pc \in {"leased", "running"} PROVE OwningTask(h)
  <2>1. h[1] # s /\ task'[h] = task[h]
    BY <1>1 DEF Crash, GoDown, Free
  <2>2. task[h].pc # "free" /\ owner[ChildOf(h)] = h
    BY <1>1, <2>1 DEF IndInv, Owned
  <2>3. ChildOf(h) \in Children
    BY <2>2, OwnedChildren
  <2>4. h \notin TasksOf(s) \cup {s}
    BY <2>1, SlotsAssumption DEF TasksOf, Handles
  <2> QED
    BY <1>o, <2>1, <2>2, <2>3, <2>4 DEF OwningTask
<1>2. ASSUME NEW x \in Slots, worker'[x].pc \in {"proved", "interrupt"} PROVE OwningWorker(x)
  <2>1. x # s /\ worker'[x] = worker[x]
    BY <1>2 DEF Crash, GoDown, Down, TypeOK
  <2>2. worker[x].todo # {} /\ owner[Orphan(x)] = x
    BY <1>2, <2>1 DEF IndInv, Owned
  <2>3. Orphan(x) \in Children
    BY <2>2, OwnedChildren
  <2>4. x \notin TasksOf(s) \cup {s}
    BY <2>1, SlotsAssumption DEF TasksOf, Handles
  <2> QED
    BY <1>o, <2>1, <2>2, <2>3, <2>4 DEF OwningWorker
<1> QED
  BY <1>1, <1>2 DEF OwningTask, OwningWorker

\* What starts, stops and feeds the threads leaves the leases alone.
LEMMA LoopOwns ==
  ASSUME TypeOK, IndInv, UNCHANGED owner,
         \A h \in Handles : task'[h] = task[h] \/ task'[h].pc \notin {"leased", "running"},
         \A s \in Slots : worker'[s] = worker[s] \/ worker'[s].pc \notin {"proved", "interrupt"}
  PROVE  /\ \A h \in Handles : OwningTask(h)
         /\ \A s \in Slots : OwningWorker(s)
<1>1. \A h \in Handles : task'[h] = task[h] => OwningTask(h)
  BY DEF OwningTask, IndInv, Owned
<1>2. \A s \in Slots : worker'[s] = worker[s] => OwningWorker(s)
  BY DEF OwningWorker, IndInv, Owned
<1> QED
  BY <1>1, <1>2 DEF OwningTask, OwningWorker

\* Every step leaves the Children with those who run or have proved them.
LEMMA OwnersStep ==
  ASSUME TypeOK, IndInv, [Next]_vars
  PROVE  /\ \A h \in Handles : OwningTask(h)
         /\ \A s \in Slots : OwningWorker(s)
<1> DEFINE Goal == (\A h \in Handles : OwningTask(h)) /\ (\A s \in Slots : OwningWorker(s))
           Kept == /\ UNCHANGED owner
                   /\ \A h \in Handles :
                        task'[h] = task[h] \/ task'[h].pc \notin {"leased", "running"}
                   /\ \A s \in Slots :
                        worker'[s] = worker[s] \/ worker'[s].pc \notin {"proved", "interrupt"}
<1>k. Kept => Goal
  BY LoopOwns
<1>1. ASSUME NEW s \in Slots, NEW after, Begin(s, after) PROVE Kept
  BY <1>1 DEF Begin, TypeOK
<1>2. ASSUME NEW s \in Slots, StopWorker(s) \/ EndDraining(s) PROVE Kept
  BY <1>2 DEF StopWorker, EndDraining, GoDown, Free, Down, TypeOK
<1>3. ASSUME NEW s \in Slots, LoopFails(s) \/ ClaimRaises(s) \/ Heartbeat(s) PROVE Kept
  BY <1>3 DEF LoopFails, ClaimRaises, Heartbeat, TypeOK, Worker
<1>4. ASSUME NEW s \in Slots, NEW t \in Threads, Claim(s, t) PROVE Kept
  <2>o. UNCHANGED owner
    BY <1>4 DEF Claim
  <2>p. PICK i \in DOMAIN queue : \E l :
          \/ /\ task' = [task EXCEPT ![<<s, t>>] = [Free EXCEPT !.pc = "claimed", !.item = i,
                                                   !.lease = l]]
             /\ UNCHANGED worker
          \/ /\ worker' = [worker EXCEPT ![s].pc = "draining"]
             /\ UNCHANGED task
    BY <1>4 DEF Claim
  <2>1. \/ UNCHANGED task /\ worker' = [worker EXCEPT ![s].pc = "draining"]
        \/ UNCHANGED worker /\ \E l : task' = [task EXCEPT ![<<s, t>>] =
                                    [Free EXCEPT !.pc = "claimed", !.item = i, !.lease = l]]
    BY <2>p
  <2>2. CASE UNCHANGED task /\ worker' = [worker EXCEPT ![s].pc = "draining"]
    BY <2>o, <2>2 DEF TypeOK, Worker
  <2>3. ASSUME NEW l, UNCHANGED worker,
               task' = [task EXCEPT ![<<s, t>>] =
                          [Free EXCEPT !.pc = "claimed", !.item = i, !.lease = l]]
        PROVE  Kept
    BY <2>o, <2>3 DEF TypeOK, Free
  <2> QED
    BY <2>1, <2>2, <2>3
<1>5. ASSUME NEW s \in Slots, NEW t \in Threads, Collect(s, t) PROVE Kept
  BY <1>5 DEF Collect, Free, TypeOK
<1>6. CASE \/ UNCHANGED vars
           \/ \E k \in Calls : CheckChildReady(k) \/ Enqueue(k)
           \/ \E c \in Children : HostCancels(c) \/ HostRecovers(c)
  BY <1>6, <1>k DEF vars, CheckChildReady, Enqueue, HostCancels, HostRecovers
<1> HIDE DEF Kept
<1> QED
  BY <1>k, <1>1, <1>2, <1>3, <1>4, <1>5, <1>6, RunOwns, ReconcileOwns, CrashOwns,
     RecoverySlotAssumption
     DEF Next, Work, StartWorker, RecoverOrphans

\* The owners stay the owners of the same Child.
LEMMA OwnedStep ==
  ASSUME TypeOK, IndInv, [Next]_vars
  PROVE  Owned'
<1>1. ASSUME NEW h \in Handles, task'[h].pc \in {"leased", "running"}
      PROVE  owner'[ChildOf(h)'] = h
  <2>1. /\ task[h].pc # "free" /\ task'[h].item = task[h].item
        /\ owner'[ChildOf(h)] = h
    BY <1>1, OwnersStep DEF OwningTask
  <2>2. task[h].item \in DOMAIN queue
    BY <2>1 DEF IndInv, CopiesKnown
  <2>3. ChildOf(h)' = ChildOf(h)
    BY <2>1, <2>2, QueueGrows DEF ChildOf
  <2> QED
    BY <2>1, <2>3
<1>2. ASSUME NEW s \in Slots, worker'[s].pc \in {"proved", "interrupt"}
      PROVE  worker'[s].todo # {} /\ owner'[Orphan(s)'] = s
  <2>1. /\ worker'[s].todo = worker[s].todo /\ worker[s].todo # {}
        /\ owner'[Orphan(s)] = s
    BY <1>2, OwnersStep DEF OwningWorker
  <2>2. First(s).item \in DOMAIN queue /\ First(s)' = First(s)
    BY <2>1, OwnedChildren DEF First
  <2>3. Orphan(s)' = Orphan(s)
    BY <2>2, QueueGrows DEF Orphan
  <2> QED
    BY <2>1, <2>3
<1> QED
  BY <1>1, <1>2 DEF Owned

\* An empty queue and workers that are down satisfy it all.
LEMMA InitInd == Init => IndInv
<1> SUFFICES ASSUME Init PROVE IndInv
  OBVIOUS
<1>1. CopiesKnown /\ ResultsAgree /\ SettlingAgrees
  BY DEF Init, CopiesKnown, ResultsAgree, SettlingAgrees, Down, Free
<1>2. TerminalAgrees /\ OnePending
  BY DEF Init, TerminalAgrees, OnePending
<1>3. Owned
  BY DEF Init, Owned, Down, Free
<1> QED
  BY <1>1, <1>2, <1>3 DEF IndInv

\* Types and the inductive invariant hold together: what workers carry is of
\* known submissions (_execute, _reconcile_orphans).
THEOREM Inductive == Spec => [](TypeOK /\ IndInv)
<1>1. TypeOK /\ IndInv /\ [Next]_vars => (TypeOK /\ IndInv)'
  <2> SUFFICES ASSUME TypeOK, IndInv, [Next]_vars PROVE TypeOK' /\ IndInv'
    OBVIOUS
  <2>1. TypeOK'
    BY TypeStep DEF IndInv
  <2>2. IndInv'
    BY CopiesStep, ResultsStep, SettlingStep, TerminalAgreesStep, OnePendingStep, OwnedStep
       DEF IndInv
  <2> QED
    BY <2>1, <2>2
<1> QED
  BY InitTyped, InitInd, <1>1, PTL DEF Spec

\* Every variable of the queue and its workers keeps its type.
THEOREM TypeCorrect == Spec => []TypeOK
BY Inductive, PTL

\* However many calls, workers and recoveries there are, a Child Run has one
\* pending submission at most (BackgroundQueueStore.enqueue).
THEOREM OnePendingAlways == Spec => []OnePending
<1>1. IndInv => OnePending
  BY DEF IndInv
<1> QED
  BY <1>1, Inductive, PTL

\* A recorded terminal outcome that is not unknown is the Child's, though it
\* was read some steps before it is recorded (run, _reconcile_orphans).
THEOREM TerminalAlwaysAgrees == Spec => []TerminalAgrees
<1>1. IndInv => TerminalAgrees
  BY DEF IndInv
<1> QED
  BY <1>1, Inductive, PTL

\* Nobody overwrites or requeues a terminal observation (requeue, terminal).
THEOREM TerminalStays == Spec => TerminalIsKept
<1>1. TypeOK /\ IndInv /\ [Next]_vars =>
        [\A i \in DOMAIN queue : queue[i].state = "terminal" => queue'[i] = queue[i]]_vars
  BY QueueGrows
<1> QED
  BY <1>1, Inductive, PTL DEF Spec, TerminalIsKept

-----------------------------------------------------------------------------
(* The contract of the Child Runs.                                          *)

ContractStep(c) == [Contract(c)!Next]_(Contract(c)!vars)

\* The contract's steps, said of a Child's status and of its owner.
LEMMA ContractMoves ==
  ASSUME NEW c,
         \/ child'[c] = child[c] /\ owner'[c] \in {owner[c], Nobody}
         \/ /\ child'[c] = child[c]
            /\ owner[c] = Nobody /\ owner'[c] \in Handles \cup Slots
         \/ /\ owner'[c] = owner[c]
            /\ \/ child[c] = "ready" /\ child'[c] \in {"cancelled", "failed"}
               \/ child[c] = "running" /\ child'[c] = "cancelling"
         \/ /\ owner[c] \in Handles /\ owner'[c] \in {owner[c], Nobody}
            /\ \/ child[c] = "ready" /\ child'[c] = "running"
               \/ child[c] \in {"running", "cancelling"} /\ child'[c] \in {"completed", "failed"}
               \/ child[c] = "cancelling" /\ child'[c] = "cancelled"
         \/ /\ owner[c] \in Slots \cup {Nobody} /\ owner'[c] = Nobody
            /\ child[c] \in {"running", "cancelling"} /\ child'[c] = "interrupted"
  PROVE  ContractStep(c)
BY DEF ContractStep, Contract!Next, Contract!vars, Contract!Become, Contract!Prepare,
  Contract!Withdraw, Contract!GiveUp, Contract!Acquire, Contract!Release, Contract!ByOwner,
  Contract!Start, Contract!RequestCancel, Contract!Finish, Contract!Interrupt

\* A thread's run of its Child.
LEMMA RunContract ==
  ASSUME TypeOK, IndInv, NEW h \in Handles, Run(h), NEW c \in Children
  PROVE  ContractStep(c)
<1>1. task[h].pc # "free" /\ ChildOf(h) \in Children
  <2>1. task[h].pc # "free"
    BY DEF Run, BeginRun, StartRun, RaiseFromRun, ReturnFromRun, InspectRaised, FailReady,
      InspectReturned
  <2> QED
    BY <2>1, OwnedChildren
<1>2. task[h].pc \in {"leased", "running"} => owner[ChildOf(h)] = h
  BY DEF IndInv, Owned
<1>3. CASE c # ChildOf(h)
  <2>1. child'[c] = child[c] /\ owner'[c] = owner[c]
    BY <1>3 DEF Run, BeginRun, StartRun, RaiseFromRun, ReturnFromRun, InspectRaised, FailReady,
      InspectReturned, TypeOK
  <2> QED
    BY <2>1, ContractMoves
<1>4. CASE c = ChildOf(h)
  <2>1. CASE BeginRun(h)
    BY <1>4, <2>1, ContractMoves DEF BeginRun, TypeOK
  <2>2. CASE StartRun(h)
    BY <1>2, <1>4, <2>2, ContractMoves DEF StartRun, TypeOK
  <2>3. CASE RaiseFromRun(h)
    <3>1. owner[c] \in Handles /\ owner'[c] = Nobody
      BY <1>2, <1>4, <2>3 DEF RaiseFromRun, TypeOK
    <3>2. \/ child'[c] = child[c]
          \/ child[c] = "ready" /\ child'[c] = "running"
          \/ child[c] \in {"running", "cancelling"} /\ child'[c] \in {"completed", "failed"}
          \/ child[c] = "cancelling" /\ child'[c] = "cancelled"
      BY <1>4, <2>3 DEF RaiseFromRun, TypeOK
    <3> QED
      BY <3>1, <3>2, ContractMoves
  <2>4. CASE ReturnFromRun(h)
    <3>1. owner[c] \in Handles /\ owner'[c] = Nobody
      BY <1>2, <1>4, <2>4 DEF ReturnFromRun, TypeOK
    <3>2. \/ child[c] \in {"running", "cancelling"} /\ child'[c] = "completed"
          \/ child[c] = "cancelling" /\ child'[c] = "cancelled"
      BY <1>4, <2>4 DEF ReturnFromRun, TypeOK
    <3> QED
      BY <3>1, <3>2, ContractMoves
  <2>5. CASE InspectRaised(h) \/ InspectReturned(h)
    BY <2>5, ContractMoves DEF InspectRaised, InspectReturned
  <2>6. CASE FailReady(h)
    <3>1. /\ owner'[c] = owner[c]
          /\ child'[c] = child[c] \/ (child[c] = "ready" /\ child'[c] = "failed")
      BY <1>4, <2>6 DEF FailReady, TypeOK
    <3> QED
      BY <3>1, ContractMoves
  <2> QED
    BY <2>1, <2>2, <2>3, <2>4, <2>5, <2>6 DEF Run
<1> QED
  BY <1>3, <1>4

\* A reconciliation of the Child it is at.
LEMMA ReconcileContract ==
  ASSUME TypeOK, IndInv, NEW s \in Slots, Reconcile(s), NEW c \in Children
  PROVE  ContractStep(c)
<1>1. CASE ProveAbandoned(s) \/ AcquireRecovery(s)
  <2>1. /\ child'[c] = child[c]
        /\ owner'[c] = owner[c] \/ (owner[c] = Nobody /\ owner'[c] \in Slots)
    BY <1>1 DEF ProveAbandoned, AcquireRecovery, TypeOK
  <2> QED
    BY <2>1, ContractMoves
<1>2. CASE CloseProof(s)
  <2>1. child'[c] = child[c] /\ owner'[c] \in {owner[c], Nobody}
    BY <1>2 DEF CloseProof, TypeOK
  <2> QED
    BY <2>1, ContractMoves
<1>3. CASE FinishInterrupted(s)
  <2>1. owner[Orphan(s)] = s
    BY <1>3 DEF FinishInterrupted, At, IndInv, Owned
  <2>2. /\ owner'[c] = IF c = Orphan(s) THEN Nobody ELSE owner[c]
        /\ \/ child'[c] = child[c]
           \/ /\ c = Orphan(s)
              /\ child[c] \in {"running", "cancelling"} /\ child'[c] = "interrupted"
    BY <1>3 DEF FinishInterrupted, TypeOK
  <2> QED
    BY <2>1, <2>2, ContractMoves
<1>4. CASE ~(ProveAbandoned(s) \/ AcquireRecovery(s) \/ CloseProof(s) \/ FinishInterrupted(s))
  <2>1. UNCHANGED <<child, owner>>
    BY <1>4 DEF Reconcile, EndReconcile, InspectOrphan, Requeue, SettleOrphan, GiveUpOrphan
  <2> QED
    BY <2>1, ContractMoves
<1> QED
  BY <1>1, <1>2, <1>3, <1>4

\* The queue, its workers and the Host move every Child Run as ChildRun is proved
\* to move: they start and finish what they own and interrupt what nobody runs
\* (PersistentChildWorker._execute, _reconcile_orphans).
THEOREM ContractKept == Spec => KeepsContract
<1>1. ASSUME TypeOK, IndInv, [Next]_vars, NEW c \in Children PROVE ContractStep(c)
  <2>1. ASSUME NEW h \in Handles, Run(h) PROVE ContractStep(c)
    BY <1>1, <2>1, RunContract
  <2>2. ASSUME NEW s \in Slots, Reconcile(s) PROVE ContractStep(c)
    BY <1>1, <2>2, ReconcileContract
  <2>3. ASSUME NEW s \in Slots, Crash(s) PROVE ContractStep(c)
    BY <2>3, ContractMoves DEF Crash
  <2>4. ASSUME NEW x \in Children, HostCancels(x) \/ HostRecovers(x) PROVE ContractStep(c)
    <3>1. /\ owner'[c] = owner[c]
          /\ \/ child'[c] = child[c]
             \/ child[c] = "ready" /\ child'[c] = "cancelled"
             \/ child[c] = "running" /\ child'[c] = "cancelling"
             \/ /\ owner[c] = Nobody
                /\ child[c] \in {"running", "cancelling"} /\ child'[c] = "interrupted"
      BY <1>1, <2>4 DEF HostCancels, HostRecovers, TypeOK
    <3> QED
      BY <3>1, ContractMoves
  <2>5. ASSUME UNCHANGED <<child, owner>> PROVE ContractStep(c)
    BY <2>5, ContractMoves
  <2>6. ASSUME NEW s \in Slots,
               \/ StartWorker(s) \/ LoopFails(s) \/ StopWorker(s) \/ EndDraining(s)
               \/ Heartbeat(s) \/ ClaimRaises(s)
               \/ \E t \in Threads : Claim(s, t) \/ Collect(s, t)
        PROVE  UNCHANGED <<child, owner>>
    BY <2>6 DEF StartWorker, Begin, LoopFails, StopWorker, EndDraining, Heartbeat, ClaimRaises,
      Claim, Collect
  <2>7. CASE RecoverOrphans \/ UNCHANGED vars \/ \E k \in Calls : CheckChildReady(k) \/ Enqueue(k)
    BY <2>5, <2>7 DEF RecoverOrphans, Begin, vars, CheckChildReady, Enqueue
  <2> QED
    BY <1>1, <2>1, <2>2, <2>3, <2>4, <2>5, <2>6, <2>7 DEF Next, Work
<1>2. TypeOK /\ IndInv /\ [Next]_vars
        => [\A c \in Children : [Contract(c)!Next]_(Contract(c)!vars)]_vars
  BY <1>1 DEF ContractStep
<1>3. Init => \A c \in Children : Contract(c)!Init
  BY DEF Init, Contract!Init
<1> QED
  BY <1>2, <1>3, Inductive, PTL DEF Spec, KeepsContract
=============================================================================
