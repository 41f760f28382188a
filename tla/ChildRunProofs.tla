--------------------------- MODULE ChildRunProofs ---------------------------
(***************************************************************************)
(* The safety properties of ChildRun for any number of executors, Host      *)
(* cancellations, recoveries, publications, preparations and background     *)
(* workers, with crashes and unconfirmed appends. The inductive invariant   *)
(* is IndInv of ChildRun.                                                   *)
(***************************************************************************)
EXTENDS ChildRun, ChildRunLedgerProofs

\* Processes of different calls are different processes.
LEMMA ProcessIdentity ==
  /\ \A e \in Executions : Executor(e) \in Processes /\ Watcher(e) \in Processes
  /\ \A c \in Cancels : Canceller(c) \in Processes
  /\ \A r \in Recoverers : Recoverer(r) \in Processes
  /\ \A p \in Publications : Publisher(p) \in Processes
  /\ \A q \in Preparations : Preparer(q) \in Processes
  /\ \A w \in Workers : Worker(w) \in Processes
  /\ \A x, y : /\ Executor(x) = Executor(y) => x = y
               /\ Watcher(x) = Watcher(y) => x = y
               /\ Canceller(x) = Canceller(y) => x = y
               /\ Recoverer(x) = Recoverer(y) => x = y
               /\ Publisher(x) = Publisher(y) => x = y
               /\ Preparer(x) = Preparer(y) => x = y
               /\ Worker(x) = Worker(y) => x = y
  /\ \A x, y : /\ Executor(x) \notin {Watcher(y), Canceller(y), Recoverer(y),
                                      Publisher(y), Preparer(y), Worker(y)}
               /\ Watcher(x) \notin {Canceller(y), Recoverer(y), Publisher(y),
                                     Preparer(y), Worker(y)}
               /\ Canceller(x) \notin {Recoverer(y), Publisher(y), Preparer(y), Worker(y)}
               /\ Recoverer(x) \notin {Publisher(y), Preparer(y), Worker(y)}
               /\ Publisher(x) \notin {Preparer(y), Worker(y)}
               /\ Preparer(x) # Worker(y)
BY DEF Processes, Executor, Watcher, Canceller, Recoverer, Publisher, Preparer, Worker

-----------------------------------------------------------------------------
(* Type correctness.                                                        *)

\* An append leaves a transcript, whether or not it can be confirmed.
LEMMA AppendTyped ==
  ASSUME log \in Seq(Record), NEW can, NEW r, NEW ok,
         AppendTransition(can, r, ok), can => r \in Record
  PROVE  log' \in Seq(Record)
BY DEF AppendTransition

\* A write of _append_transition keeps the types of what it may change.
LEMMA WriteTyped ==
  ASSUME TypeOK, NEW p \in Processes, NEW from, NEW can, NEW r,
         NEW done \in Labels, NEW raised \in Labels,
         Write(p, from, can, r, done, raised), can => r \in Record
  PROVE  /\ log' \in Seq(Record)
         /\ writer' \in Processes \cup {Nobody}
         /\ pc' \in [Processes -> Labels]
BY AppendTyped DEF Write, TypeOK, CloseWriter, Move

\* Opening the exclusive writer keeps the types of what it may change.
LEMMA OpenTyped ==
  ASSUME TypeOK, NEW p \in Processes, NEW from, NEW to \in Labels,
         NEW contended \in Labels, Open(p, from, to, contended)
  PROVE  writer' \in Processes \cup {Nobody} /\ pc' \in [Processes -> Labels]
BY DEF Open, TypeOK, Move

\* The initial state is well typed: a header, for a delegated Child its delegation.
LEMMA InitTyped == Init => TypeOK
<1>1. SUFFICES ASSUME Init PROVE TypeOK
  OBVIOUS
<1>2. Rec("header", NoExecution) \in Record /\ Rec("delegated", NoExecution) \in Record
  BY DEF Rec, Record, RecordTypes
<1>3. log \in Seq(Record)
  <2>1. ASSUME NEW h \in Record, NEW d \in Record
        PROVE  <<h>> \in Seq(Record) /\ <<h, d>> \in Seq(Record)
    OBVIOUS
  <2> QED
    BY <1>1, <1>2, <2>1 DEF Init
<1>4. "idle" \in Labels /\ "absent" \in Sessions
  BY DEF Labels, Sessions
<1> QED
  BY <1>1, <1>2, <1>3, <1>4 DEF Init, TypeOK, NoDraft

\* Every step of every process keeps the types.
LEMMA TypeStep ==
  ASSUME TypeOK, [Next]_vars
  PROVE  TypeOK'
<1> USE DEF TypeOK
<1>r. /\ \A t \in RecordTypes, x \in Executions \cup {NoExecution} : Rec(t, x) \in Record
      /\ CancelRequested(log) \in Record
      /\ Has(log, "cancel_requested") => CancelledTerminal(log) \in Record
      /\ Interrupted(log) \in Record
      /\ Status(log) \in TerminalStatuses => Handoff(log) \in Record
      /\ {"admitted", "session_bound", "preparation_failed", "started", "completed",
          "failed", "cancelled"} \subseteq RecordTypes
  BY WrittenRecords DEF RecordTypes, TerminalTypes
<1>l. /\ {"admission", "start", "complete", "finish", "fail", "request", "decide",
          "withdraw", "interrupt", "publish", "admit", "bind", "opening", "turn",
          "returned", "cancelled", "leased", "starting", "errored", "failing",
          "closing", "idle", "checked", "watching", "firing", "owner", "built",
          "refused", "give_up", "done"} \subseteq Labels
      /\ Sessions = {"absent", "empty", "unconfirmed", "committed"}
  BY DEF Labels, WriterLabels, LeaseLabels, TurnLabels, Sessions
<1>1. ASSUME NEW q \in Preparations, Prepare(q) PROVE TypeOK'
  <2> DEFINE me == Preparer(q)
  <2>0. me \in Processes
    BY ProcessIdentity
  <2>1. CASE OpenForPrepare(q)
    BY <2>0, <2>1, <1>l, OpenTyped DEF OpenForPrepare
  <2>2. CASE Admit(q)
    BY <2>0, <2>2, <1>l, <1>r, AppendTyped DEF Admit, Move, CloseWriter
  <2>3. CASE Bind(q)
    BY <2>0, <2>3, <1>l, <1>r, WriteTyped DEF Bind
  <2>4. CASE PreparationFails(q)
    BY <2>0, <2>4, <1>l, <1>r, WriteTyped DEF PreparationFails
  <2> QED
    BY <1>1, <2>1, <2>2, <2>3, <2>4 DEF Prepare
<1>2. ASSUME NEW e \in Executions, Execute(e) PROVE TypeOK'
  <2> DEFINE me == Executor(e)
  <2>0. me \in Processes /\ Watcher(e) \in Processes
    BY ProcessIdentity
  <2>1. CASE CheckReady(e) \/ CloseAdmission(e) \/ OpenSession(e) \/ RouteChanged(e)
             \/ CommitTurn(e) \/ CancelTurn(e) \/ FailTurn(e) \/ InspectFailure(e)
    BY <2>0, <2>1, <1>l DEF CheckReady, CloseAdmission, OpenSession, RouteChanged,
       CommitTurn, CancelTurn, FailTurn, InspectFailure, Move, CloseWriter
  <2>2. CASE AcquireExecution(e)
    BY <2>0, <2>2, <1>l DEF AcquireExecution, TakeLease, Move
  <2>3. CASE OpenAdmission(e)
    BY <2>0, <2>3, <1>l, OpenTyped DEF OpenAdmission
  <2>4. CASE OpenForStart(e)
    BY <2>0, <2>4, <1>l, OpenTyped DEF OpenForStart
  <2>5. CASE OpenForComplete(e)
    BY <2>0, <2>5, <1>l, OpenTyped DEF OpenForComplete
  <2>6. CASE OpenForCancelled(e)
    BY <2>0, <2>6, <1>l, OpenTyped DEF OpenForCancelled
  <2>7. CASE OpenForFailed(e)
    BY <2>0, <2>7, <1>l, OpenTyped DEF OpenForFailed
  <2>8. CASE StartExecution(e)
    <3>1. Started(e) \in Record
      BY <1>r DEF Started
    <3>2. log' \in Seq(Record)
      BY <2>8, <3>1, AppendTyped DEF StartExecution
    <3> QED
      BY <2>0, <2>8, <3>2, <1>l DEF StartExecution, CloseWriter
  <2>9. CASE FinishCompleted(e)
    <3>1. Completed(e) \in Record
      BY <1>r DEF Completed
    <3> QED
      BY <2>0, <2>9, <3>1, <1>l, WriteTyped DEF FinishCompleted
  <2>10. CASE FinishCancelled(e)
    BY <2>0, <2>10, <1>l, <1>r, WriteTyped DEF FinishCancelled, CanFinishCancelled
  <2>11. CASE FinishFailed(e)
    <3>1. Failed(e) \in Record
      BY <1>r DEF Failed
    <3> QED
      BY <2>0, <2>11, <3>1, <1>l, WriteTyped DEF FinishFailed
  <2>12. CASE CloseExecution(e)
    BY <2>0, <2>12, <1>l DEF CloseExecution
  <2> QED
    BY <1>2, <2>1, <2>2, <2>3, <2>4, <2>5, <2>6, <2>7, <2>8, <2>9, <2>10, <2>11, <2>12
       DEF Execute
<1>3. ASSUME NEW e \in Executions, Watch(e) PROVE TypeOK'
  <2>0. Watcher(e) \in Processes
    BY ProcessIdentity
  <2>1. CASE SeeCancelling(e) \/ WatchFails(e) \/ DeadlineReached(e)
    BY <2>0, <2>1, <1>l DEF SeeCancelling, WatchFails, SignalToken, DeadlineReached, Move
  <2>2. CASE OpenForDeadline(e)
    BY <2>0, <2>2, <1>l, OpenTyped DEF OpenForDeadline
  <2>3. CASE RequestDeadline(e)
    BY <2>0, <2>3, <1>l, <1>r, WriteTyped DEF RequestDeadline
  <2> QED
    BY <1>3, <2>1, <2>2, <2>3 DEF Watch
<1>4. ASSUME NEW c \in Cancels, Cancel(c) PROVE TypeOK'
  <2>0. Canceller(c) \in Processes
    BY ProcessIdentity
  <2>1. CASE OpenForCancel(c)
    BY <2>0, <2>1, <1>l, OpenTyped DEF OpenForCancel
  <2>2. CASE CancelQueued(c)
    BY <2>0, <2>2, <1>l, <1>r, WriteTyped DEF CancelQueued
  <2>3. CASE RequestCancel(c)
    BY <2>0, <2>3, <1>l, <1>r, AppendTyped DEF RequestCancel, Move, CloseWriter
  <2>4. CASE CancelBeforeStart(c)
    BY <2>0, <2>4, <1>l, <1>r, WriteTyped DEF CancelBeforeStart, CanFinishCancelled
  <2> QED
    BY <1>4, <2>1, <2>2, <2>3, <2>4 DEF Cancel
<1>5. ASSUME NEW r \in Recoverers, Recover(r) PROVE TypeOK'
  <2>0. Recoverer(r) \in Processes
    BY ProcessIdentity
  <2>1. CASE CheckRecoverable(r)
    BY <2>0, <2>1, <1>l DEF CheckRecoverable, Move
  <2>2. CASE AcquireRecoveryLease(r)
    BY <2>0, <2>2, <1>l DEF AcquireRecoveryLease, TakeLease, Move
  <2>3. CASE OpenForInterrupted(r)
    BY <2>0, <2>3, <1>l, OpenTyped DEF OpenForInterrupted
  <2>4. CASE FinishInterrupted(r)
    BY <2>0, <2>4, <1>l, <1>r, WriteTyped DEF FinishInterrupted
  <2> QED
    BY <1>5, <2>1, <2>2, <2>3, <2>4 DEF Recover
<1>6. ASSUME NEW p \in Publications, Publish(p) PROVE TypeOK'
  <2>0. Publisher(p) \in Processes
    BY ProcessIdentity
  <2>1. CASE BuildHandoff(p)
    BY <2>0, <2>1, <1>l, <1>r DEF BuildHandoff, Move
  <2>2. CASE OpenForPublish(p)
    BY <2>0, <2>2, <1>l, OpenTyped DEF OpenForPublish
  <2>3. CASE PublishHandoff(p)
    <3>1. draft[p] \in Record
      OBVIOUS
    <3> QED
      BY <2>0, <2>3, <3>1, <1>l, WriteTyped DEF PublishHandoff
  <2> QED
    BY <1>6, <2>1, <2>2, <2>3 DEF Publish
<1>7. ASSUME NEW w \in Workers, GiveUp(w) PROVE TypeOK'
  <2>0. Worker(w) \in Processes
    BY ProcessIdentity
  <2>1. CASE InspectReady(w)
    BY <2>0, <2>1, <1>l DEF InspectReady, Move
  <2>2. CASE OpenForGiveUp(w)
    BY <2>0, <2>2, <1>l, OpenTyped DEF OpenForGiveUp
  <2>3. CASE FailReady(w)
    <3>1. Failed(NoExecution) \in Record
      BY <1>r DEF Failed
    <3> QED
      BY <2>0, <2>3, <3>1, <1>l, WriteTyped DEF FailReady
  <2> QED
    BY <1>7, <2>1, <2>2, <2>3 DEF GiveUp
<1>8. ASSUME Crash PROVE TypeOK'
  BY <1>8, <1>l, ProcessIdentity DEF Crash, CrashExecutor, CrashCall, Dead
<1>9. ASSUME UNCHANGED vars PROVE TypeOK'
  BY <1>9 DEF vars
<1> QED
  BY <1>1, <1>2, <1>3, <1>4, <1>5, <1>6, <1>7, <1>8, <1>9 DEF Next, Work

\* Every variable keeps its type, whatever the numbers of processes.
THEOREM TypeCorrect == Spec => []TypeOK
<1>1. TypeOK /\ [Next]_vars => TypeOK'
  BY TypeStep
<1> QED
  BY InitTyped, <1>1, PTL DEF Spec

-----------------------------------------------------------------------------
(* The writer lock and the execution lease are held by whoever acts on them. *)

\* Move takes one process from one label to another.
LEMMA MoveMoves ==
  ASSUME TypeOK, NEW p \in Processes, NEW from, NEW to, Move(p, from, to)
  PROVE  /\ pc[p] = from
         /\ pc'[p] = to
         /\ \A q \in Processes : q # p => pc'[q] = pc[q]
BY DEF Move, TypeOK

\* A process that opens the writer holds it, or was refused and moved on.
LEMMA OpenHolds ==
  ASSUME TypeOK, WriterHeld, NEW p \in Processes, NEW from, NEW to, NEW contended,
         Open(p, from, to, contended), contended \notin WriterLabels
  PROVE  /\ WriterHeld'
         /\ pc[p] = from
         /\ pc'[p] \in {to, contended}
         /\ \A q \in Processes : q # p => pc'[q] = pc[q]
<1>1. /\ pc[p] = from
      /\ pc'[p] \in {to, contended}
      /\ \A q \in Processes : q # p => pc'[q] = pc[q]
  BY MoveMoves DEF Open
<1>2. CASE pc'[p] = to /\ writer = Nobody /\ writer' = p
  <2>1. ASSUME NEW q \in Processes, q # p PROVE pc'[q] \notin WriterLabels
    BY <1>1, <1>2, <2>1, NobodyAssumption DEF WriterHeld
  <2> QED
    BY <1>1, <1>2, <2>1 DEF WriterHeld
<1>3. CASE pc'[p] = contended /\ UNCHANGED writer
  BY <1>1, <1>3 DEF WriterHeld
<1> QED
  BY <1>1, <1>2, <1>3, MoveMoves DEF Open

\* A process that closes the writer leaves the labels that need it.
LEMMA CloseHolds ==
  ASSUME TypeOK, WriterHeld, NEW p \in Processes, NEW from, NEW done, NEW raised,
         Move(p, from, done) \/ Move(p, from, raised), CloseWriter(p),
         done \notin WriterLabels, raised \notin WriterLabels
  PROVE  /\ WriterHeld'
         /\ pc[p] = from
         /\ pc'[p] \in {done, raised}
         /\ \A q \in Processes : q # p => pc'[q] = pc[q]
<1>1. /\ pc[p] = from
      /\ pc'[p] \in {done, raised}
      /\ \A q \in Processes : q # p => pc'[q] = pc[q]
  BY MoveMoves
<1> QED
  BY <1>1 DEF WriterHeld, CloseWriter

\* The same for a write, which closes the writer behind it.
LEMMA WriteHolds ==
  ASSUME TypeOK, WriterHeld, NEW p \in Processes, NEW from, NEW can, NEW r, NEW done, NEW raised,
         Write(p, from, can, r, done, raised),
         done \notin WriterLabels, raised \notin WriterLabels
  PROVE  /\ WriterHeld'
         /\ pc[p] = from
         /\ pc'[p] \in {done, raised}
         /\ \A q \in Processes : q # p => pc'[q] = pc[q]
BY CloseHolds DEF Write

\* A process that leaves the lock alone and moves to no writer label.
LEMMA WriterKept ==
  ASSUME WriterHeld, NEW p \in Processes, UNCHANGED writer \/ CloseWriter(p),
         pc'[p] \notin WriterLabels, \A q \in Processes : q # p => pc'[q] = pc[q]
  PROVE  WriterHeld'
BY DEF WriterHeld, CloseWriter

\* A step of one process that leaves the lease alone.
LEMMA LeaseKept ==
  ASSUME LeaseHeld, NEW p \in Processes, UNCHANGED lease,
         \A q \in Processes : q # p => pc'[q] = pc[q],
         \A e \in Executions :
           p = Executor(e) /\ pc'[p] \in LeaseLabels => pc[p] \in LeaseLabels,
         \A r \in Recoverers :
           p = Recoverer(r) /\ pc'[p] \in {"owner", "interrupt"}
             => pc[p] \in {"owner", "interrupt"}
  PROVE  LeaseHeld'
BY ProcessIdentity DEF LeaseHeld

\* A step of one executor or recoverer that holds the lease and may drop it.
LEMMA LeaseDropped ==
  ASSUME LeaseHeld, NEW p \in Processes, lease = p, lease' = Nobody,
         \A q \in Processes : q # p => pc'[q] = pc[q] \/ pc'[q] = "done",
         pc'[p] \notin LeaseLabels \cup {"owner", "interrupt"}
  PROVE  LeaseHeld'
BY ProcessIdentity DEF LeaseHeld, LeaseLabels, TurnLabels

\* A free execution lease may go to anyone.
LEMMA LeaseTaken ==
  ASSUME LeaseHeld, NEW p \in Processes, lease = Nobody, lease' = p,
         \A q \in Processes : q # p => pc'[q] = pc[q]
  PROVE  LeaseHeld'
BY ProcessIdentity, NobodyAssumption DEF LeaseHeld

\* Admission and a requested cancellation keep the writer for a second append.
LEMMA AdmitMoves ==
  ASSUME TypeOK, NEW q \in Preparations, Admit(q)
  PROVE  /\ pc[Preparer(q)] = "admit"
         /\ \/ pc'[Preparer(q)] = "bind" /\ UNCHANGED writer
            \/ pc'[Preparer(q)] = "done" /\ CloseWriter(Preparer(q))
         /\ \A p \in Processes : p # Preparer(q) => pc'[p] = pc[p]
<1>1. Preparer(q) \in Processes
  BY ProcessIdentity
<1>2. CASE \/ Move(Preparer(q), "admit", "bind") /\ UNCHANGED writer
           \/ Move(Preparer(q), "admit", "done") /\ CloseWriter(Preparer(q))
  BY <1>1, <1>2, MoveMoves
<1>3. ASSUME NEW ok \in BOOLEAN,
             Move(Preparer(q), "admit", IF ok THEN "bind" ELSE "done"),
             IF ok THEN UNCHANGED writer ELSE CloseWriter(Preparer(q))
      PROVE  \/ Move(Preparer(q), "admit", "bind") /\ UNCHANGED writer
             \/ Move(Preparer(q), "admit", "done") /\ CloseWriter(Preparer(q))
  <2>1. CASE ok = TRUE
    BY <1>3, <2>1
  <2>2. CASE ok = FALSE
    BY <1>3, <2>2
  <2> QED
    BY <2>1, <2>2
<1> QED
  BY <1>2, <1>3 DEF Admit

\* A cancellation that goes on to the second append has seen no start.
LEMMA RequestCancelMoves ==
  ASSUME TypeOK, NEW c \in Cancels, RequestCancel(c)
  PROVE  /\ pc[Canceller(c)] = "decide"
         /\ \/ pc'[Canceller(c)] = "withdraw" /\ UNCHANGED writer /\ ~Has(log, "started")
            \/ pc'[Canceller(c)] = "done" /\ CloseWriter(Canceller(c))
         /\ \A p \in Processes : p # Canceller(c) => pc'[p] = pc[p]
<1>1. Canceller(c) \in Processes
  BY ProcessIdentity
<1>2. PICK ok \in BOOLEAN :
        LET more == ok /\ ~Has(log, "started")
        IN  /\ Move(Canceller(c), "decide", IF more THEN "withdraw" ELSE "done")
            /\ IF more THEN UNCHANGED writer ELSE CloseWriter(Canceller(c))
  BY Zenon DEF RequestCancel
<1>3. CASE ok /\ ~Has(log, "started")
  <2>1. Move(Canceller(c), "decide", "withdraw") /\ UNCHANGED writer
    BY <1>2, <1>3
  <2> QED
    BY <1>1, <1>3, <2>1, MoveMoves
<1>4. CASE ~(ok /\ ~Has(log, "started"))
  <2>1. Move(Canceller(c), "decide", "done") /\ CloseWriter(Canceller(c))
    BY <1>2, <1>4
  <2> QED
    BY <1>1, <2>1, MoveMoves
<1> QED
  BY <1>3, <1>4

\* The writer lock and the execution lease keep excluding.
LEMMA LocksStep ==
  ASSUME TypeOK, LocksHeld, [Next]_vars
  PROVE  LocksHeld'
<1> USE DEF LocksHeld
<1>l. /\ WriterLabels = {"admission", "start", "complete", "finish", "fail", "request",
          "decide", "withdraw", "interrupt", "publish", "admit", "bind", "give_up"}
      /\ LeaseLabels = {"opening", "turn", "returned", "complete", "cancelled", "finish",
          "leased", "admission", "starting", "start", "errored", "failing", "fail",
          "closing"}
  BY DEF WriterLabels, LeaseLabels, TurnLabels
<1>1. ASSUME NEW q \in Preparations, Prepare(q) PROVE LocksHeld'
  <2> DEFINE me == Preparer(q)
  <2>0. /\ me \in Processes
        /\ \A e \in Executions : me # Executor(e)
        /\ \A r \in Recoverers : me # Recoverer(r)
    BY ProcessIdentity
  <2> HIDE DEF me
  <2>1. UNCHANGED lease
    BY <1>1 DEF Prepare, OpenForPrepare, Admit, Bind, PreparationFails
  <2>2. \A p \in Processes : p # me => pc'[p] = pc[p]
    <3>1. CASE OpenForPrepare(q)
      BY <2>0, <3>1, <1>l, OpenHolds DEF OpenForPrepare, me
    <3>2. CASE Admit(q)
      BY <3>2, AdmitMoves DEF me
    <3>3. CASE Bind(q)
      BY <2>0, <3>3, <1>l, CloseHolds DEF Bind, Write, me
    <3>4. CASE PreparationFails(q)
      BY <2>0, <3>4, <1>l, CloseHolds DEF PreparationFails, Write, me
    <3> QED
      BY <1>1, <3>1, <3>2, <3>3, <3>4 DEF Prepare
  <2>3. LeaseHeld'
    BY <2>0, <2>1, <2>2, LeaseKept
  <2>4. WriterHeld'
    <3>1. CASE OpenForPrepare(q)
      BY <2>0, <3>1, <1>l, OpenHolds DEF OpenForPrepare, me
    <3>2. CASE Admit(q)
      <4>1. pc[me] = "admit"
        BY <3>2, AdmitMoves DEF me
      <4>2. writer = me
        BY <2>0, <4>1, <1>l DEF WriterHeld
      <4>3. \/ pc'[me] = "bind" /\ UNCHANGED writer
            \/ pc'[me] = "done" /\ CloseWriter(me)
        BY <3>2, AdmitMoves DEF me, CloseWriter
      <4>4. CASE pc'[me] = "bind" /\ UNCHANGED writer
        BY <4>2, <4>4, <2>2 DEF WriterHeld
      <4> QED
        BY <4>3, <4>4, <2>0, <2>2, <1>l, WriterKept
    <3>3. CASE Bind(q)
      BY <2>0, <3>3, <1>l, CloseHolds DEF Bind, Write, me
    <3>4. CASE PreparationFails(q)
      BY <2>0, <3>4, <1>l, CloseHolds DEF PreparationFails, Write, me
    <3> QED
      BY <1>1, <3>1, <3>2, <3>3, <3>4 DEF Prepare
  <2> QED
    BY <2>3, <2>4
<1>2. ASSUME NEW e \in Executions, Execute(e) PROVE LocksHeld'
  <2> DEFINE me == Executor(e)
  <2>0. /\ me \in Processes /\ Watcher(e) \in Processes
        /\ \A x \in Executions : me = Executor(x) => x = e
        /\ \A r \in Recoverers : me # Recoverer(r) /\ Watcher(e) # Recoverer(r)
        /\ \A x \in Executions : Executor(x) # Watcher(e)
    BY ProcessIdentity
  <2> HIDE DEF me
  <2>1. CASE CheckReady(e) \/ CloseAdmission(e) \/ OpenSession(e) \/ RouteChanged(e)
             \/ CommitTurn(e) \/ CancelTurn(e) \/ FailTurn(e) \/ InspectFailure(e)
    <3>1. /\ UNCHANGED writer \/ CloseWriter(me)
          /\ UNCHANGED lease
          /\ pc'[me] \in {"checked", "starting", "turn", "errored", "returned", "cancelled",
                          "failing", "closing"}
          /\ (pc[me] = "idle" /\ pc'[me] = "checked") \/ pc[me] \in LeaseLabels
          /\ \A q \in Processes : q # me => pc'[q] = pc[q]
      BY <2>0, <2>1, <1>l, MoveMoves DEF CheckReady, CloseAdmission, OpenSession,
         RouteChanged, CommitTurn, CancelTurn, FailTurn, InspectFailure, me
    <3>2. WriterHeld'
      BY <2>0, <3>1, <1>l, WriterKept
    <3>3. LeaseHeld'
      BY <2>0, <3>1, <1>l, LeaseKept
    <3> QED
      BY <3>2, <3>3
  <2>2. CASE AcquireExecution(e)
    <3>1. /\ UNCHANGED writer
          /\ \A q \in Processes : q # me => pc'[q] = pc[q]
          /\ pc'[me] \in {"leased", "done"}
          /\ \/ lease = Nobody /\ lease' = me
             \/ UNCHANGED lease /\ pc'[me] = "done"
      BY <2>0, <2>2, MoveMoves DEF AcquireExecution, TakeLease, me
    <3>2. WriterHeld'
      BY <2>0, <3>1, <1>l, WriterKept
    <3>3. LeaseHeld'
      BY <2>0, <3>1, <1>l, LeaseKept, LeaseTaken
    <3> QED
      BY <3>2, <3>3
  <2>3. CASE OpenAdmission(e) \/ OpenForStart(e) \/ OpenForComplete(e)
             \/ OpenForCancelled(e) \/ OpenForFailed(e)
    <3>1. /\ WriterHeld'
          /\ UNCHANGED lease
          /\ pc[me] \in LeaseLabels
          /\ \A q \in Processes : q # me => pc'[q] = pc[q]
      BY <2>0, <2>3, <1>l, OpenHolds DEF OpenAdmission, OpenForStart, OpenForComplete,
         OpenForCancelled, OpenForFailed, me
    <3> QED
      BY <2>0, <3>1, LeaseKept
  <2>4. CASE FinishCompleted(e) \/ FinishCancelled(e) \/ FinishFailed(e)
    <3>1. /\ WriterHeld'
          /\ UNCHANGED lease
          /\ pc[me] \in LeaseLabels
          /\ \A q \in Processes : q # me => pc'[q] = pc[q]
      BY <2>0, <2>4, <1>l, WriteHolds DEF FinishCompleted, FinishCancelled, FinishFailed, me
    <3> QED
      BY <2>0, <3>1, LeaseKept
  <2>5. CASE StartExecution(e)
    <3>1. /\ pc[me] = "start"
          /\ pc'[me] \in {"opening", "closing"}
          /\ pc'[Watcher(e)] \in {pc[Watcher(e)], "watching"}
          /\ \A q \in Processes : q \notin {me, Watcher(e)} => pc'[q] = pc[q]
          /\ CloseWriter(me)
          /\ UNCHANGED lease
      BY <2>0, <2>5 DEF StartExecution, TypeOK, me
    <3>2. writer = me /\ writer' = Nobody
      BY <2>0, <3>1, <1>l DEF WriterHeld, CloseWriter
    <3>3. WriterHeld'
      <4> SUFFICES ASSUME NEW p \in Processes PROVE pc'[p] \notin WriterLabels
        BY DEF WriterHeld
      <4>1. CASE p = me
        BY <4>1, <3>1, <1>l
      <4>2. CASE p # me
        <5>1. pc[p] \notin WriterLabels
          BY <3>2, <4>2 DEF WriterHeld
        <5> QED
          BY <5>1, <3>1, <4>2, <1>l
      <4> QED
        BY <4>1, <4>2
    <3>4. LeaseHeld'
      <4>1. \A x \in Executions : pc'[Executor(x)] \in LeaseLabels => lease = Executor(x)
        BY <2>0, <3>1, <1>l, ProcessIdentity DEF LeaseHeld, me
      <4>2. \A r \in Recoverers : pc'[Recoverer(r)] = pc[Recoverer(r)]
        BY <2>0, <3>1, ProcessIdentity
      <4> QED
        BY <3>1, <4>1, <4>2 DEF LeaseHeld
    <3> QED
      BY <3>3, <3>4
  <2>6. CASE CloseExecution(e)
    <3>1. /\ pc[me] = "closing"
          /\ pc'[me] = "done"
          /\ pc'[Watcher(e)] \in {pc[Watcher(e)], "done"}
          /\ \A q \in Processes : q \notin {me, Watcher(e)} => pc'[q] = pc[q]
          /\ UNCHANGED writer
          /\ lease' = Nobody
      BY <2>0, <2>6 DEF CloseExecution, TypeOK, me
    <3>2. WriterHeld'
      BY <3>1, <1>l DEF WriterHeld
    <3>3. lease = me
      BY <3>1, <1>l DEF LeaseHeld, me
    <3>4. LeaseHeld'
      BY <2>0, <3>1, <3>3, <1>l, LeaseDropped
    <3> QED
      BY <3>2, <3>4
  <2> QED
    BY <1>2, <2>1, <2>2, <2>3, <2>4, <2>5, <2>6 DEF Execute
<1>3. ASSUME NEW e \in Executions, Watch(e) PROVE LocksHeld'
  <2> DEFINE me == Watcher(e)
  <2>0. /\ me \in Processes
        /\ \A x \in Executions : me # Executor(x)
        /\ \A r \in Recoverers : me # Recoverer(r)
    BY ProcessIdentity
  <2> HIDE DEF me
  <2>1. UNCHANGED lease
    BY <1>3 DEF Watch, SeeCancelling, WatchFails, SignalToken, DeadlineReached,
       OpenForDeadline, RequestDeadline
  <2>2. WriterHeld' /\ \A p \in Processes : p # me => pc'[p] = pc[p]
    <3>1. CASE SeeCancelling(e) \/ WatchFails(e) \/ DeadlineReached(e)
      BY <2>0, <3>1, <1>l, MoveMoves, WriterKept DEF SeeCancelling, WatchFails, SignalToken,
         DeadlineReached, me
    <3>2. CASE OpenForDeadline(e)
      BY <2>0, <3>2, <1>l, OpenHolds DEF OpenForDeadline, me
    <3>3. CASE RequestDeadline(e)
      BY <2>0, <3>3, <1>l, WriteHolds DEF RequestDeadline, me
    <3> QED
      BY <1>3, <3>1, <3>2, <3>3 DEF Watch
  <2> QED
    BY <2>0, <2>1, <2>2, LeaseKept
<1>4. ASSUME NEW c \in Cancels, Cancel(c) PROVE LocksHeld'
  <2> DEFINE me == Canceller(c)
  <2>0. /\ me \in Processes
        /\ \A x \in Executions : me # Executor(x)
        /\ \A r \in Recoverers : me # Recoverer(r)
    BY ProcessIdentity
  <2> HIDE DEF me
  <2>1. UNCHANGED lease
    BY <1>4 DEF Cancel, OpenForCancel, CancelQueued, RequestCancel, CancelBeforeStart
  <2>2. WriterHeld' /\ \A p \in Processes : p # me => pc'[p] = pc[p]
    <3>1. CASE OpenForCancel(c)
      BY <2>0, <3>1, <1>l, OpenHolds DEF OpenForCancel, me
    <3>2. CASE CancelQueued(c)
      BY <2>0, <3>2, <1>l, CloseHolds DEF CancelQueued, Write, me
    <3>4. CASE CancelBeforeStart(c)
      BY <2>0, <3>4, <1>l, WriteHolds DEF CancelBeforeStart, me
    <3>3. CASE RequestCancel(c)
      <4>1. /\ pc[me] = "decide"
            /\ \/ pc'[me] = "withdraw" /\ UNCHANGED writer
               \/ pc'[me] = "done" /\ CloseWriter(me)
            /\ \A p \in Processes : p # me => pc'[p] = pc[p]
        BY <3>3, RequestCancelMoves DEF me, CloseWriter
      <4>2. writer = me
        BY <2>0, <4>1, <1>l DEF WriterHeld
      <4>3. CASE pc'[me] = "withdraw" /\ UNCHANGED writer
        BY <4>1, <4>2, <4>3 DEF WriterHeld
      <4> QED
        BY <4>1, <4>3, <2>0, <1>l, WriterKept
    <3> QED
      BY <1>4, <3>1, <3>2, <3>3, <3>4 DEF Cancel
  <2> QED
    BY <2>0, <2>1, <2>2, LeaseKept
<1>5. ASSUME NEW r \in Recoverers, Recover(r) PROVE LocksHeld'
  <2> DEFINE me == Recoverer(r)
  <2>0. /\ me \in Processes
        /\ \A x \in Executions : me # Executor(x)
    BY ProcessIdentity
  <2> HIDE DEF me
  <2>1. CASE CheckRecoverable(r)
    <3>1. /\ UNCHANGED writer /\ UNCHANGED lease /\ pc'[me] = "checked"
          /\ \A q \in Processes : q # me => pc'[q] = pc[q]
      BY <2>0, <2>1, MoveMoves DEF CheckRecoverable, me
    <3> QED
      BY <2>0, <3>1, <1>l, WriterKept, LeaseKept
  <2>2. CASE AcquireRecoveryLease(r)
    <3>1. /\ UNCHANGED writer
          /\ \A q \in Processes : q # me => pc'[q] = pc[q]
          /\ pc'[me] \in {"owner", "idle"}
          /\ \/ lease = Nobody /\ lease' = me
             \/ UNCHANGED lease /\ pc'[me] = "idle"
      BY <2>0, <2>2, MoveMoves DEF AcquireRecoveryLease, TakeLease, me
    <3>2. WriterHeld'
      BY <2>0, <3>1, <1>l, WriterKept
    <3>3. LeaseHeld'
      BY <2>0, <3>1, LeaseKept, LeaseTaken
    <3> QED
      BY <3>2, <3>3
  <2>3. CASE OpenForInterrupted(r)
    <3>1. /\ WriterHeld'
          /\ pc[me] = "owner"
          /\ \A q \in Processes : q # me => pc'[q] = pc[q]
      BY <2>0, <2>3, <1>l, OpenHolds DEF OpenForInterrupted, me
    <3>2. \/ UNCHANGED lease
          \/ lease' = Nobody /\ pc'[me] = "idle"
      BY <2>0, <2>3, MoveMoves DEF OpenForInterrupted, Open, me
    <3>3. lease = me
      BY <3>1 DEF LeaseHeld, me
    <3> QED
      BY <2>0, <3>1, <3>2, <3>3, <1>l, LeaseKept, LeaseDropped
  <2>4. CASE FinishInterrupted(r)
    <3>1. /\ WriterHeld'
          /\ pc[me] = "interrupt"
          /\ pc'[me] = "idle"
          /\ \A q \in Processes : q # me => pc'[q] = pc[q]
          /\ lease' = Nobody
      BY <2>0, <2>4, <1>l, WriteHolds DEF FinishInterrupted, me
    <3>2. lease = me
      BY <3>1 DEF LeaseHeld, me
    <3> QED
      BY <2>0, <3>1, <3>2, <1>l, LeaseDropped
  <2> QED
    BY <1>5, <2>1, <2>2, <2>3, <2>4 DEF Recover
<1>6. ASSUME NEW p \in Publications, Publish(p) PROVE LocksHeld'
  <2> DEFINE me == Publisher(p)
  <2>0. /\ me \in Processes
        /\ \A x \in Executions : me # Executor(x)
        /\ \A r \in Recoverers : me # Recoverer(r)
    BY ProcessIdentity
  <2> HIDE DEF me
  <2>1. UNCHANGED lease
    BY <1>6 DEF Publish, BuildHandoff, OpenForPublish, PublishHandoff
  <2>2. WriterHeld' /\ \A q \in Processes : q # me => pc'[q] = pc[q]
    <3>1. CASE BuildHandoff(p)
      BY <2>0, <3>1, <1>l, MoveMoves, WriterKept DEF BuildHandoff, me
    <3>2. CASE OpenForPublish(p)
      BY <2>0, <3>2, <1>l, OpenHolds DEF OpenForPublish, me
    <3>3. CASE PublishHandoff(p)
      BY <2>0, <3>3, <1>l, WriteHolds DEF PublishHandoff, me
    <3> QED
      BY <1>6, <3>1, <3>2, <3>3 DEF Publish
  <2> QED
    BY <2>0, <2>1, <2>2, LeaseKept
<1>7. ASSUME NEW w \in Workers, GiveUp(w) PROVE LocksHeld'
  <2> DEFINE me == Worker(w)
  <2>0. /\ me \in Processes
        /\ \A x \in Executions : me # Executor(x)
        /\ \A r \in Recoverers : me # Recoverer(r)
    BY ProcessIdentity
  <2> HIDE DEF me
  <2>1. UNCHANGED lease
    BY <1>7 DEF GiveUp, InspectReady, OpenForGiveUp, FailReady
  <2>2. WriterHeld' /\ \A q \in Processes : q # me => pc'[q] = pc[q]
    <3>1. CASE InspectReady(w)
      BY <2>0, <3>1, <1>l, MoveMoves, WriterKept DEF InspectReady, me
    <3>2. CASE OpenForGiveUp(w)
      BY <2>0, <3>2, <1>l, OpenHolds DEF OpenForGiveUp, me
    <3>3. CASE FailReady(w)
      BY <2>0, <3>3, <1>l, WriteHolds DEF FailReady, me
    <3> QED
      BY <1>7, <3>1, <3>2, <3>3 DEF GiveUp
  <2> QED
    BY <2>0, <2>1, <2>2, LeaseKept
<1>8. ASSUME Crash PROVE LocksHeld'
  <2>1. ASSUME NEW ps \in SUBSET Processes, Dead(ps),
               \A p \in ps : pc'[p] \in {"idle", "done"},
               \A p \in Processes : p \notin ps => pc'[p] = pc[p]
        PROVE  LocksHeld'
    <3>1. WriterHeld'
      BY <2>1, <1>l DEF WriterHeld, Dead
    <3>2. LeaseHeld'
      BY <2>1, <1>l, ProcessIdentity DEF LeaseHeld, Dead
    <3> QED
      BY <3>1, <3>2
  <2>2. ASSUME NEW e \in Executions, CrashExecutor(e) PROVE LocksHeld'
    <3>1. {Executor(e), Watcher(e)} \in SUBSET Processes
      BY ProcessIdentity
    <3> QED
      BY <2>1, <2>2, <3>1 DEF CrashExecutor, TypeOK
  <2>3. ASSUME NEW p \in Processes, NEW to \in {"idle", "done"}, CrashCall(p, to)
        PROVE  LocksHeld'
    BY <2>1, <2>3 DEF CrashCall, TypeOK
  <2> QED
    BY <1>8, <2>2, <2>3, ProcessIdentity DEF Crash
<1>9. ASSUME UNCHANGED vars PROVE LocksHeld'
  BY <1>9 DEF vars, WriterHeld, LeaseHeld
<1> QED
  BY <1>1, <1>2, <1>3, <1>4, <1>5, <1>6, <1>7, <1>8, <1>9 DEF Next, Work

-----------------------------------------------------------------------------
(* What a step may append, and on which grounds.                            *)

Grounds(r) ==
  \/ r.type \in {"admitted", "session_bound", "cancel_requested"}
  \/ r.type \in {"preparation_failed", "failed"} /\ Status(log) \notin TerminalStatuses
  \/ /\ r.type = "completed"
     /\ Status(log) \notin TerminalStatuses
     /\ session = "committed"
  \/ r.type = "cancelled" /\ Status(log) = "queued"
  \/ r.type = "started" /\ r.exec \in Executions /\ Status(log) = "ready"
  \/ /\ r.type = "cancelled_terminal"
     /\ ~Has(log, "interrupted")
     /\ ~TurnVisible
     /\ \A e \in Executions : pc[Executor(e)] \notin {"opening", "turn"}
  \/ /\ r.type = "interrupted"
     /\ Has(log, "started")
     /\ \A e \in Executions : ~InTurn(e)
  \/ /\ r.type = "handoff"
     /\ r.state = Status(log)
     /\ Status(log) \in TerminalStatuses

\* A record replay accepts is no second header, and interrupts a started run.
LEMMA LegalMeans ==
  ASSUME NEW r \in Record, LegalNext(log, r)
  PROVE  /\ r.type # "header"
         /\ r.type = "interrupted" => Has(log, "started")
BY DEF LegalNext, HasExec, Has

\* A write adds at most the record it was given, once replay accepts it.
LEMMA WriteAppends ==
  ASSUME NEW p, NEW from, NEW can, NEW r, NEW done, NEW raised,
         Write(p, from, can, r, done, raised)
  PROVE  log' = log \/ (can /\ LegalNext(log, r) /\ log' = Append(log, r))
BY DEF Write, AppendTransition, Accepts

\* A step adds at most one record, and only on the grounds its writer has.
LEMMA LogStep ==
  ASSUME TypeOK, IndInv, [Next]_vars
  PROVE  log' = log \/ \E r \in Record : log' = Append(log, r) /\ Grounds(r)
<1> USE DEF IndInv, LocksHeld
<1>r. /\ \A t \in RecordTypes, x \in Executions \cup {NoExecution} : Rec(t, x) \in Record
      /\ CancelRequested(log) \in Record
      /\ Has(log, "cancel_requested") => CancelledTerminal(log) \in Record
      /\ Interrupted(log) \in Record
      /\ {"admitted", "session_bound", "preparation_failed", "started", "completed",
          "failed", "cancelled"} \subseteq RecordTypes
  BY WrittenRecords DEF RecordTypes, TerminalTypes, TypeOK
<1>t. /\ \A t, x : Rec(t, x).type = t /\ Rec(t, x).exec = x
      /\ CancelRequested(log).type = "cancel_requested"
      /\ CancelledTerminal(log).type = "cancelled_terminal"
      /\ Interrupted(log).type = "interrupted"
  BY DEF Rec, CancelRequested, CancelledTerminal, Interrupted
<1>s. TerminalStatuses = {"completed", "failed", "cancelled", "interrupted"}
  BY DEF TerminalStatuses
<1>1. ASSUME NEW q \in Preparations, Prepare(q)
      PROVE  log' = log \/ \E r \in Record : log' = Append(log, r) /\ Grounds(r)
  <2>1. CASE OpenForPrepare(q)
    BY <2>1 DEF OpenForPrepare
  <2>2. CASE Admit(q)
    <3>1. Rec("admitted", NoExecution) \in Record /\ Grounds(Rec("admitted", NoExecution))
      BY <1>r, <1>t DEF Grounds
    <3>2. log' = log \/ log' = Append(log, Rec("admitted", NoExecution))
      BY <2>2 DEF Admit, AppendTransition
    <3> QED
      BY <3>1, <3>2
  <2>3. CASE Bind(q)
    <3>1. /\ Rec("session_bound", NoExecution) \in Record
          /\ Grounds(Rec("session_bound", NoExecution))
      BY <1>r, <1>t DEF Grounds
    <3>2. log' = log \/ log' = Append(log, Rec("session_bound", NoExecution))
      BY <2>3 DEF Bind, Write, AppendTransition
    <3> QED
      BY <3>1, <3>2
  <2>4. CASE PreparationFails(q)
    <3>1. pc[Preparer(q)] = "bind"
      BY <2>4 DEF PreparationFails, Write, Move
    <3>2. Status(log) = "admitted"
      BY <3>1 DEF ReadsHold
    <3>3. /\ Rec("preparation_failed", NoExecution) \in Record
          /\ Grounds(Rec("preparation_failed", NoExecution))
      BY <1>r, <1>t, <1>s, <3>2 DEF Grounds
    <3>4. log' = log \/ log' = Append(log, Rec("preparation_failed", NoExecution))
      BY <2>4 DEF PreparationFails, Write, AppendTransition
    <3> QED
      BY <3>3, <3>4
  <2> QED
    BY <1>1, <2>1, <2>2, <2>3, <2>4 DEF Prepare
<1>2. ASSUME NEW e \in Executions, Execute(e)
      PROVE  log' = log \/ \E r \in Record : log' = Append(log, r) /\ Grounds(r)
  <2>1. CASE StartExecution(e)
    <3>1. log' = log \/ (CanStart(log) /\ log' = Append(log, Started(e)))
      BY <2>1 DEF StartExecution, AppendTransition
    <3>2. CanStart(log) => Started(e) \in Record /\ Grounds(Started(e))
      BY <1>r, <1>t DEF CanStart, Started, Grounds
    <3> QED
      BY <3>1, <3>2
  <2>2. CASE FinishCompleted(e)
    <3>1. pc[Executor(e)] = "complete"
      BY <2>2 DEF FinishCompleted, Write, Move
    <3>2. session = "committed"
      BY <3>1 DEF TurnProgress
    <3>3. log' = log \/ (CanComplete(log) /\ log' = Append(log, Completed(e)))
      BY <2>2, WriteAppends DEF FinishCompleted
    <3>4. CanComplete(log) => Completed(e) \in Record /\ Grounds(Completed(e))
      BY <3>2, <1>r, <1>t, <1>s DEF CanComplete, Completed, Grounds
    <3> QED
      BY <3>3, <3>4
  <2>3. CASE FinishCancelled(e)
    <3>1. pc[Executor(e)] = "finish"
      BY <2>3 DEF FinishCancelled, Write, Move
    <3>2. ~TurnVisible /\ ~Has(log, "interrupted")
      BY <3>1 DEF TurnProgress, TerminalRecords, InterruptedIsAbandoned, InTurn, TurnLabels
    <3>3. \A x \in Executions : pc[Executor(x)] \notin {"opening", "turn"}
      BY <3>1, ProcessIdentity DEF LeaseHeld, LeaseLabels, TurnLabels
    <3>4. log' = log \/ (CanFinishCancelled(log) /\ log' = Append(log, CancelledTerminal(log)))
      BY <2>3, WriteAppends DEF FinishCancelled
    <3>5. CanFinishCancelled(log)
            => CancelledTerminal(log) \in Record /\ Grounds(CancelledTerminal(log))
      BY <3>2, <3>3, <1>r, <1>t DEF CanFinishCancelled, Grounds
    <3> QED
      BY <3>4, <3>5
  <2>4. CASE FinishFailed(e)
    <3>1. log' = log \/ (CanFail(log) /\ log' = Append(log, Failed(e)))
      BY <2>4, WriteAppends DEF FinishFailed
    <3>2. CanFail(log) => Failed(e) \in Record /\ Grounds(Failed(e))
      BY <1>r, <1>t, <1>s DEF CanFail, Failed, Grounds
    <3> QED
      BY <3>1, <3>2
  <2>5. ASSUME ~(StartExecution(e) \/ FinishCompleted(e) \/ FinishCancelled(e) \/ FinishFailed(e))
        PROVE  log' = log
    BY <1>2, <2>5 DEF Execute, CheckReady, AcquireExecution, OpenAdmission, CloseAdmission,
       OpenForStart, OpenSession, RouteChanged, CommitTurn, CancelTurn, FailTurn,
       OpenForComplete, OpenForCancelled, InspectFailure, OpenForFailed, CloseExecution
  <2> QED
    BY <2>1, <2>2, <2>3, <2>4, <2>5
<1>3. ASSUME NEW e \in Executions, Watch(e)
      PROVE  log' = log \/ \E r \in Record : log' = Append(log, r) /\ Grounds(r)
  <2>1. CASE RequestDeadline(e)
    <3>1. log' = log \/ log' = Append(log, CancelRequested(log))
      BY <2>1, WriteAppends DEF RequestDeadline
    <3> QED
      BY <3>1, <1>r, <1>t DEF Grounds
  <2>2. ASSUME ~RequestDeadline(e) PROVE log' = log
    BY <1>3, <2>2 DEF Watch, SeeCancelling, WatchFails, SignalToken, DeadlineReached,
       OpenForDeadline
  <2> QED
    BY <2>1, <2>2
<1>4. ASSUME NEW c \in Cancels, Cancel(c)
      PROVE  log' = log \/ \E r \in Record : log' = Append(log, r) /\ Grounds(r)
  <2>1. CASE OpenForCancel(c)
    BY <2>1 DEF OpenForCancel
  <2>2. CASE CancelQueued(c)
    <3>1. /\ Rec("cancelled", NoExecution) \in Record
          /\ Grounds(Rec("cancelled", NoExecution))
      BY <2>2, <1>r, <1>t DEF Grounds, CancelQueued
    <3>2. log' = log \/ log' = Append(log, Rec("cancelled", NoExecution))
      BY <2>2 DEF CancelQueued, Write, AppendTransition
    <3> QED
      BY <3>1, <3>2
  <2>3. CASE RequestCancel(c)
    <3>1. log' = log \/ log' = Append(log, CancelRequested(log))
      BY <2>3 DEF RequestCancel, AppendTransition
    <3> QED
      BY <3>1, <1>r, <1>t DEF Grounds
  <2>4. CASE CancelBeforeStart(c)
    <3>1. pc[Canceller(c)] = "withdraw"
      BY <2>4 DEF CancelBeforeStart, Write, Move
    <3>2. ~Has(log, "started")
      BY <3>1 DEF ReadsHold
    <3>3. /\ ~TurnVisible
          /\ ~Has(log, "interrupted")
          /\ \A x \in Executions : pc[Executor(x)] \notin {"opening", "turn"}
      BY <3>2 DEF TurnProgress, TerminalRecords, InTurn, TurnLabels, HasExec, Has
    <3>4. log' = log \/ (CanFinishCancelled(log) /\ log' = Append(log, CancelledTerminal(log)))
      BY <2>4, WriteAppends DEF CancelBeforeStart
    <3>5. CanFinishCancelled(log)
            => CancelledTerminal(log) \in Record /\ Grounds(CancelledTerminal(log))
      BY <3>3, <1>r, <1>t DEF CanFinishCancelled, Grounds
    <3> QED
      BY <3>4, <3>5
  <2> QED
    BY <1>4, <2>1, <2>2, <2>3, <2>4 DEF Cancel
<1>5. ASSUME NEW r \in Recoverers, Recover(r)
      PROVE  log' = log \/ \E x \in Record : log' = Append(log, x) /\ Grounds(x)
  <2>1. CASE FinishInterrupted(r)
    <3>1. pc[Recoverer(r)] = "interrupt"
      BY <2>1 DEF FinishInterrupted, Write, Move
    <3>2. \A e \in Executions : ~InTurn(e)
      BY <3>1, ProcessIdentity DEF LeaseHeld, LeaseLabels, InTurn
    <3>3. log' = log \/ (LegalNext(log, Interrupted(log)) /\ log' = Append(log, Interrupted(log)))
      BY <2>1, WriteAppends DEF FinishInterrupted
    <3>4. LegalNext(log, Interrupted(log)) => Grounds(Interrupted(log))
      BY <3>2, <1>r, <1>t, LegalMeans DEF Grounds
    <3> QED
      BY <3>3, <3>4, <1>r
  <2>2. ASSUME ~FinishInterrupted(r) PROVE log' = log
    BY <1>5, <2>2 DEF Recover, CheckRecoverable, AcquireRecoveryLease, OpenForInterrupted
  <2> QED
    BY <2>1, <2>2
<1>6. ASSUME NEW p \in Publications, Publish(p)
      PROVE  log' = log \/ \E r \in Record : log' = Append(log, r) /\ Grounds(r)
  <2>1. CASE PublishHandoff(p)
    <3>1. pc[Publisher(p)] = "publish" /\ draft[p] \in Record
      BY <2>1 DEF PublishHandoff, Write, Move, TypeOK
    <3>2. /\ draft[p].type \in {"header", "handoff"}
          /\ draft[p].state = Status(log)
          /\ Status(log) \in TerminalStatuses
      BY <3>1 DEF ReadsHold
    <3>3. log' = log \/ (LegalNext(log, draft[p]) /\ log' = Append(log, draft[p]))
      BY <2>1, WriteAppends DEF PublishHandoff
    <3>4. LegalNext(log, draft[p]) => Grounds(draft[p])
      BY <3>1, <3>2, LegalMeans DEF Grounds
    <3> QED
      BY <3>1, <3>3, <3>4
  <2>2. ASSUME ~PublishHandoff(p) PROVE log' = log
    BY <1>6, <2>2 DEF Publish, BuildHandoff, OpenForPublish
  <2> QED
    BY <2>1, <2>2
<1>7. ASSUME NEW w \in Workers, GiveUp(w)
      PROVE  log' = log \/ \E r \in Record : log' = Append(log, r) /\ Grounds(r)
  <2>1. CASE FailReady(w)
    <3>1. log' = log \/ (CanFail(log) /\ log' = Append(log, Failed(NoExecution)))
      BY <2>1, WriteAppends DEF FailReady
    <3>2. CanFail(log) => Failed(NoExecution) \in Record /\ Grounds(Failed(NoExecution))
      BY <1>r, <1>t, <1>s DEF CanFail, Failed, Grounds
    <3> QED
      BY <3>1, <3>2
  <2>2. ASSUME ~FailReady(w) PROVE log' = log
    BY <1>7, <2>2 DEF GiveUp, InspectReady, OpenForGiveUp
  <2> QED
    BY <2>1, <2>2
<1>8. ASSUME Crash PROVE log' = log
  BY <1>8 DEF Crash, CrashExecutor, CrashCall, Dead
<1>9. ASSUME UNCHANGED vars PROVE log' = log
  BY <1>9 DEF vars
<1> QED
  BY <1>1, <1>2, <1>3, <1>4, <1>5, <1>6, <1>7, <1>8, <1>9 DEF Next, Work

\* Records are only added, and a terminal status stays.
LEMMA LogGrows ==
  ASSUME TypeOK, IndInv, [Next]_vars
  PROVE  /\ \A t : Has(log, t) => Has(log', t)
         /\ \A t, x : HasExec(log, t, x) => HasExec(log', t, x)
         /\ Status(log) \in TerminalStatuses => Status(log') = Status(log)
<1>1. CASE log' = log
  BY <1>1
<1>2. ASSUME NEW r \in Record, log' = Append(log, r), Grounds(r)
      PROVE  /\ \A t : Has(log, t) => Has(log', t)
             /\ \A t, x : HasExec(log, t, x) => HasExec(log', t, x)
             /\ Status(log) \in TerminalStatuses => Status(log') = Status(log)
  <2>1. log \in Seq(Record)
    BY DEF TypeOK
  <2>2. \A t : Has(log, t) => Has(Append(log, r), t)
    BY <2>1, HasAppend
  <2>3. \A t, x : HasExec(log, t, x) => HasExec(Append(log, r), t, x)
    BY <2>1, HasExecAppend
  <2>4. ASSUME Status(log) \in TerminalStatuses PROVE Status(Append(log, r)) = Status(log)
    <3>1. "queued" \notin TerminalStatuses /\ "ready" \notin TerminalStatuses
      BY DEF TerminalStatuses
    <3>2. \/ r.type \in {"admitted", "session_bound", "cancel_requested", "handoff"}
          \/ r.type = "cancelled_terminal" /\ ~Has(log, "interrupted")
          \/ r.type = "interrupted"
      BY <1>2, <2>4, <3>1 DEF Grounds
    <3>3. {"admitted", "session_bound", "cancel_requested", "handoff"} \cap TerminalTypes = {}
      BY DEF TerminalTypes
    <3> QED
      BY <2>1, <2>4, <3>2, <3>3, StatusKept, StatusKeptByInterrupted, StatusKeptByCancelled
  <2> QED
    BY <1>2, <2>2, <2>3, <2>4
<1> QED
  BY <1>1, <1>2, LogStep

-----------------------------------------------------------------------------
(* Where executors go, and what happens to the Child Session meanwhile.     *)

\* Opening the writer moves one process and nothing else but the lock.
LEMMA OpenMoves ==
  ASSUME TypeOK, NEW p \in Processes, NEW from, NEW to, NEW contended,
         Open(p, from, to, contended)
  PROVE  /\ pc[p] = from
         /\ pc'[p] \in {to, contended}
         /\ \A q \in Processes : q # p => pc'[q] = pc[q]
BY MoveMoves DEF Open

\* A write moves one process and leaves lease, Session and drafts alone.
LEMMA CloseMoves ==
  ASSUME TypeOK, NEW p \in Processes, NEW from, NEW can, NEW r, NEW done, NEW raised,
         Write(p, from, can, r, done, raised)
  PROVE  /\ pc[p] = from
         /\ pc'[p] \in {done, raised}
         /\ \A q \in Processes : q # p => pc'[q] = pc[q]
BY MoveMoves DEF Write

\* A step of one process moves no other, save an executor's its watcher.
LEMMA PrepareMoves ==
  ASSUME TypeOK, NEW q \in Preparations, Prepare(q)
  PROVE  \A p \in Processes : p # Preparer(q) => pc'[p] = pc[p]
<1>1. Preparer(q) \in Processes
  BY ProcessIdentity
<1>2. CASE OpenForPrepare(q)
  BY <1>1, <1>2, OpenMoves DEF OpenForPrepare
<1>3. CASE Admit(q)
  BY <1>3, AdmitMoves
<1>4. CASE Bind(q)
  BY <1>1, <1>4, MoveMoves DEF Bind, Write
<1>5. CASE PreparationFails(q)
  BY <1>1, <1>5, MoveMoves DEF PreparationFails, Write
<1> QED
  BY <1>2, <1>3, <1>4, <1>5 DEF Prepare

\* The same for a watcher.
LEMMA WatchMoves ==
  ASSUME TypeOK, NEW e \in Executions, Watch(e)
  PROVE  \A p \in Processes : p # Watcher(e) => pc'[p] = pc[p]
<1>1. Watcher(e) \in Processes
  BY ProcessIdentity
<1>2. CASE SeeCancelling(e) \/ WatchFails(e) \/ DeadlineReached(e)
  BY <1>1, <1>2, MoveMoves DEF SeeCancelling, WatchFails, SignalToken, DeadlineReached
<1>3. CASE OpenForDeadline(e)
  BY <1>1, <1>3, OpenMoves DEF OpenForDeadline
<1>4. CASE RequestDeadline(e)
  BY <1>1, <1>4, CloseMoves DEF RequestDeadline
<1> QED
  BY <1>2, <1>3, <1>4 DEF Watch

\* The same for a cancellation.
LEMMA CancelMoves ==
  ASSUME TypeOK, NEW c \in Cancels, Cancel(c)
  PROVE  \A p \in Processes : p # Canceller(c) => pc'[p] = pc[p]
<1>1. Canceller(c) \in Processes
  BY ProcessIdentity
<1>2. CASE OpenForCancel(c)
  BY <1>1, <1>2, OpenMoves DEF OpenForCancel
<1>3. CASE CancelQueued(c)
  BY <1>1, <1>3, MoveMoves DEF CancelQueued, Write
<1>4. CASE RequestCancel(c)
  BY <1>4, RequestCancelMoves
<1>5. CASE CancelBeforeStart(c)
  BY <1>1, <1>5, CloseMoves DEF CancelBeforeStart
<1> QED
  BY <1>2, <1>3, <1>4, <1>5 DEF Cancel

\* The same for a recovery.
LEMMA RecoverMoves ==
  ASSUME TypeOK, NEW r \in Recoverers, Recover(r)
  PROVE  \A p \in Processes : p # Recoverer(r) => pc'[p] = pc[p]
<1>1. Recoverer(r) \in Processes
  BY ProcessIdentity
<1>2. CASE CheckRecoverable(r) \/ AcquireRecoveryLease(r)
  BY <1>1, <1>2, MoveMoves DEF CheckRecoverable, AcquireRecoveryLease, TakeLease
<1>3. CASE OpenForInterrupted(r)
  BY <1>1, <1>3, OpenMoves DEF OpenForInterrupted
<1>4. CASE FinishInterrupted(r)
  BY <1>1, <1>4, CloseMoves DEF FinishInterrupted
<1> QED
  BY <1>2, <1>3, <1>4 DEF Recover

\* The same for a publication.
LEMMA PublishMoves ==
  ASSUME TypeOK, NEW p \in Publications, Publish(p)
  PROVE  \A x \in Processes : x # Publisher(p) => pc'[x] = pc[x]
<1>1. Publisher(p) \in Processes
  BY ProcessIdentity
<1>2. CASE BuildHandoff(p)
  BY <1>1, <1>2, MoveMoves DEF BuildHandoff
<1>3. CASE OpenForPublish(p)
  BY <1>1, <1>3, OpenMoves DEF OpenForPublish
<1>4. CASE PublishHandoff(p)
  BY <1>1, <1>4, CloseMoves DEF PublishHandoff
<1> QED
  BY <1>2, <1>3, <1>4 DEF Publish

\* The same for a worker that gives up a Child.
LEMMA GiveUpMoves ==
  ASSUME TypeOK, NEW w \in Workers, GiveUp(w)
  PROVE  \A x \in Processes : x # Worker(w) => pc'[x] = pc[x]
<1>1. Worker(w) \in Processes
  BY ProcessIdentity
<1>2. CASE InspectReady(w)
  BY <1>1, <1>2, MoveMoves DEF InspectReady
<1>3. CASE OpenForGiveUp(w)
  BY <1>1, <1>3, OpenMoves DEF OpenForGiveUp
<1>4. CASE FailReady(w)
  BY <1>1, <1>4, CloseMoves DEF FailReady
<1> QED
  BY <1>2, <1>3, <1>4 DEF GiveUp

\* An executor starts its watcher, and moves no other process.
LEMMA ExecuteMoves ==
  ASSUME TypeOK, NEW e \in Executions, Execute(e)
  PROVE  \A p \in Processes : p \notin {Executor(e), Watcher(e)} => pc'[p] = pc[p]
<1>1. Executor(e) \in Processes /\ Watcher(e) \in Processes
  BY ProcessIdentity
<1>2. CASE CheckReady(e) \/ CloseAdmission(e) \/ OpenSession(e) \/ RouteChanged(e)
           \/ CommitTurn(e) \/ CancelTurn(e) \/ FailTurn(e) \/ InspectFailure(e)
  BY <1>1, <1>2, MoveMoves DEF CheckReady, CloseAdmission, OpenSession, RouteChanged,
     CommitTurn, CancelTurn, FailTurn, InspectFailure
<1>3. CASE AcquireExecution(e)
  BY <1>1, <1>3, MoveMoves DEF AcquireExecution, TakeLease
<1>4. CASE OpenAdmission(e) \/ OpenForStart(e) \/ OpenForComplete(e)
           \/ OpenForCancelled(e) \/ OpenForFailed(e)
  BY <1>1, <1>4, OpenMoves DEF OpenAdmission, OpenForStart, OpenForComplete,
     OpenForCancelled, OpenForFailed
<1>5. CASE FinishCompleted(e) \/ FinishCancelled(e) \/ FinishFailed(e)
  BY <1>1, <1>5, CloseMoves DEF FinishCompleted, FinishCancelled, FinishFailed
<1>6. CASE StartExecution(e) \/ CloseExecution(e)
  BY <1>1, <1>6 DEF StartExecution, CloseExecution, TypeOK
<1> QED
  BY <1>2, <1>3, <1>4, <1>5, <1>6 DEF Execute

\* The other actors move no executor, and at most create the Child Session.
LEMMA OthersStep ==
  ASSUME TypeOK,
         \/ \E q \in Preparations : Prepare(q)
         \/ \E e \in Executions : Watch(e)
         \/ \E c \in Cancels : Cancel(c)
         \/ \E r \in Recoverers : Recover(r)
         \/ \E p \in Publications : Publish(p)
         \/ \E w \in Workers : GiveUp(w)
  PROVE  /\ \A x \in Executions : pc'[Executor(x)] = pc[Executor(x)]
         /\ session' = session \/ (session = "absent" /\ session' = "empty")
<1>1. \A x \in Executions : pc'[Executor(x)] = pc[Executor(x)]
  BY ProcessIdentity, PrepareMoves, WatchMoves, CancelMoves, RecoverMoves, PublishMoves,
     GiveUpMoves
<1>2. ASSUME NEW q \in Preparations, Prepare(q)
      PROVE  session' = session \/ (session = "absent" /\ session' = "empty")
  BY <1>2 DEF Prepare, OpenForPrepare, Admit, Bind, PreparationFails
<1>3. ASSUME NEW e \in Executions, Watch(e) PROVE session' = session
  BY <1>3 DEF Watch, SeeCancelling, WatchFails, SignalToken, DeadlineReached,
     OpenForDeadline, RequestDeadline
<1>4. ASSUME NEW c \in Cancels, Cancel(c) PROVE session' = session
  BY <1>4 DEF Cancel, OpenForCancel, CancelQueued, RequestCancel, CancelBeforeStart
<1>5. ASSUME NEW r \in Recoverers, Recover(r) PROVE session' = session
  BY <1>5 DEF Recover, CheckRecoverable, AcquireRecoveryLease, OpenForInterrupted,
     FinishInterrupted
<1>6. ASSUME NEW p \in Publications, Publish(p) PROVE session' = session
  BY <1>6 DEF Publish, BuildHandoff, OpenForPublish, PublishHandoff
<1>7. ASSUME NEW w \in Workers, GiveUp(w) PROVE session' = session
  BY <1>7 DEF GiveUp, InspectReady, OpenForGiveUp, FailReady
<1> QED
  BY <1>1, <1>2, <1>3, <1>4, <1>5, <1>6, <1>7

\* One executor's step: in the turn it only goes forward, and only the end of
\* the turn touches the Child Session.
TurnStep(e) ==
  LET from == pc[Executor(e)]
      to   == pc'[Executor(e)]
  IN  \/ to \notin TurnLabels /\ UNCHANGED session
      \/ from = "turn" /\ to = "errored" /\ session' \in {session, "unconfirmed"}
      \/ from = "turn" /\ to = "returned" /\ session' = "committed"
      \/ /\ from = "start" /\ to = "opening"
         /\ Status(log) = "ready" /\ HasExec(log', "started", e)
         /\ UNCHANGED session
      \/ from = "opening" /\ to = "turn" /\ UNCHANGED session
      \/ from = "turn" /\ to = "cancelled" /\ UNCHANGED session
      \/ from = "returned" /\ to = "complete" /\ UNCHANGED session
      \/ from = "cancelled" /\ to = "finish" /\ UNCHANGED session

\* An executor moves through its turn in order and touches no other run.
LEMMA ExecutorStep ==
  ASSUME TypeOK, NEW e \in Executions, Execute(e)
  PROVE  /\ TurnStep(e)
         /\ \A x \in Executions : x # e => pc'[Executor(x)] = pc[Executor(x)]
         /\ pc'[Executor(e)] \in TurnLabels => pc[Executor(e)] \in LeaseLabels
<1>0. /\ Executor(e) \in Processes /\ Watcher(e) \in Processes
      /\ \A x \in Executions : x # e => /\ Executor(x) \in Processes
                                        /\ Executor(x) # Executor(e)
                                        /\ Executor(x) # Watcher(e)
      /\ Executor(e) # Watcher(e)
  BY ProcessIdentity
<1>l. /\ TurnLabels = {"opening", "turn", "returned", "complete", "cancelled", "finish"}
      /\ TurnLabels \cup {"start"} \subseteq LeaseLabels
  BY DEF LeaseLabels, TurnLabels
<1>1. CASE CheckReady(e) \/ CloseAdmission(e) \/ OpenSession(e) \/ RouteChanged(e)
           \/ CommitTurn(e) \/ CancelTurn(e) \/ InspectFailure(e)
  BY <1>0, <1>1, <1>l, MoveMoves DEF CheckReady, CloseAdmission, OpenSession,
     RouteChanged, CommitTurn, CancelTurn, InspectFailure, TurnStep
<1>2. CASE FailTurn(e)
  BY <1>0, <1>2, <1>l, MoveMoves DEF FailTurn, TurnStep
<1>3. CASE AcquireExecution(e)
  BY <1>0, <1>3, <1>l, MoveMoves DEF AcquireExecution, TakeLease, TurnStep
<1>4. CASE OpenAdmission(e) \/ OpenForStart(e) \/ OpenForComplete(e)
           \/ OpenForCancelled(e) \/ OpenForFailed(e)
  BY <1>0, <1>4, <1>l, OpenMoves DEF OpenAdmission, OpenForStart, OpenForComplete,
     OpenForCancelled, OpenForFailed, TurnStep
<1>5. CASE FinishCompleted(e) \/ FinishCancelled(e) \/ FinishFailed(e)
  BY <1>0, <1>5, <1>l, CloseMoves DEF FinishCompleted, FinishCancelled, FinishFailed, TurnStep
<1>6. CASE StartExecution(e)
  <2>1. PICK ok \in BOOLEAN :
          /\ pc[Executor(e)] = "start"
          /\ AppendTransition(CanStart(log), Started(e), ok)
          /\ pc' = IF ok THEN [pc EXCEPT ![Executor(e)] = "opening",
                                         ![Watcher(e)] = "watching"]
                         ELSE [pc EXCEPT ![Executor(e)] = "closing"]
    BY <1>6 DEF StartExecution
  <2>2. UNCHANGED session
    BY <1>6 DEF StartExecution
  <2>3. \A x \in Executions : x # e => pc'[Executor(x)] = pc[Executor(x)]
    BY <1>0, <2>1 DEF TypeOK
  <2>4. CASE ok = TRUE
    <3>1. Started(e) \in Record /\ Started(e).type = "started" /\ Started(e).exec = e
      BY DEF Started, Rec, Record, RecordTypes, TerminalTypes
    <3>2. CanStart(log) /\ log' = Append(log, Started(e))
      BY <2>1, <2>4 DEF AppendTransition
    <3>3. HasExec(log', "started", e) /\ Status(log) = "ready"
      BY <3>1, <3>2, HasExecAppend DEF CanStart, TypeOK
    <3>4. pc'[Executor(e)] = "opening"
      BY <1>0, <2>1, <2>4 DEF TypeOK
    <3> QED
      BY <2>1, <2>2, <2>3, <3>3, <3>4, <1>l DEF TurnStep
  <2>5. CASE ok = FALSE
    <3>1. pc'[Executor(e)] = "closing"
      BY <1>0, <2>1, <2>5 DEF TypeOK
    <3> QED
      BY <2>2, <2>3, <3>1, <1>l DEF TurnStep
  <2> QED
    BY <2>4, <2>5
<1>7. CASE CloseExecution(e)
  BY <1>0, <1>7, <1>l DEF CloseExecution, TypeOK, TurnStep
<1> QED
  BY <1>1, <1>2, <1>3, <1>4, <1>5, <1>6, <1>7 DEF Execute

\* A crash ends processes; the transcript and the Child Session stay.
LEMMA CrashStep ==
  ASSUME TypeOK, Crash
  PROVE  /\ \A e \in Executions : pc'[Executor(e)] \in {pc[Executor(e)], "done"}
         /\ UNCHANGED <<log, session, draft>>
         /\ \A p \in Processes : pc'[p] \in {pc[p], "idle", "done"}
<1>1. \A p \in Processes : pc'[p] \in {pc[p], "idle", "done"}
  BY ProcessIdentity DEF Crash, CrashExecutor, CrashCall, TypeOK
<1>2. \A e \in Executions : pc'[Executor(e)] \in {pc[Executor(e)], "done"}
  BY ProcessIdentity DEF Crash, CrashExecutor, CrashCall, TypeOK
<1> QED
  BY <1>1, <1>2 DEF Crash, CrashExecutor, CrashCall, Dead

\* The turn is entered by a start only, and becomes visible only while it runs.
LEMMA TurnSummary ==
  ASSUME TypeOK, IndInv, [Next]_vars
  PROVE  /\ \A x \in Executions :
              InTurn(x)' => \/ InTurn(x)
                            \/ Status(log) = "ready" /\ HasExec(log', "started", x)
         /\ \A x \in Executions :
              pc'[Executor(x)] \in {"opening", "turn"} =>
                \/ pc[Executor(x)] \in {"opening", "turn"}
                \/ Status(log) = "ready" /\ HasExec(log', "started", x)
         /\ TurnVisible' => \/ TurnVisible
                            \/ \E x \in Executions : pc[Executor(x)] = "turn"
         /\ session = "committed" => session' = "committed"
<1>l. TurnLabels = {"opening", "turn", "returned", "complete", "cancelled", "finish"}
  BY DEF TurnLabels
<1>1. CASE \E e \in Executions : Execute(e)
  <2>1. PICK e \in Executions : Execute(e)
    BY <1>1
  <2>2. TurnStep(e) /\ \A x \in Executions : x # e => pc'[Executor(x)] = pc[Executor(x)]
    BY <2>1, ExecutorStep
  <2>3. session = "committed" => pc[Executor(e)] # "turn"
    BY DEF IndInv, TurnProgress, TurnVisible
  <2> QED
    BY <2>2, <2>3, <1>l DEF TurnStep, InTurn, TurnVisible
<1>2. CASE Crash
  BY <1>2, <1>l, CrashStep DEF InTurn, TurnVisible
<1>3. CASE UNCHANGED vars
  BY <1>3 DEF vars, InTurn, TurnVisible
<1>4. CASE \/ \E q \in Preparations : Prepare(q)
           \/ \E e \in Executions : Watch(e)
           \/ \E c \in Cancels : Cancel(c)
           \/ \E r \in Recoverers : Recover(r)
           \/ \E p \in Publications : Publish(p)
           \/ \E w \in Workers : GiveUp(w)
  BY <1>4, OthersStep DEF InTurn, TurnVisible
<1> QED
  BY <1>1, <1>2, <1>3, <1>4 DEF Next, Work

\* Where an executor is keeps telling whether its turn is visible.
LEMMA TurnProgressStep ==
  ASSUME TypeOK, IndInv, [Next]_vars
  PROVE  TurnProgress'
<1>l. /\ TurnLabels = {"opening", "turn", "returned", "complete", "cancelled", "finish"}
      /\ TurnLabels \cup {"start"} \subseteq LeaseLabels
  BY DEF LeaseLabels, TurnLabels
<1>1. \A x \in Executions : InTurn(x)' => HasExec(log', "started", x)
  BY TurnSummary, LogGrows DEF IndInv, TurnProgress
<1>2. TurnVisible' => Has(log', "started")
  <2>1. \A x \in Executions : pc[Executor(x)] = "turn" => Has(log, "started")
    BY <1>l DEF IndInv, TurnProgress, InTurn, HasExec, Has
  <2> QED
    BY <2>1, TurnSummary, LogGrows DEF IndInv, TurnProgress
<1>3. /\ \A x \in Executions :
           pc'[Executor(x)] \in {"opening", "turn", "cancelled", "finish"} => ~TurnVisible'
      /\ \A x \in Executions :
           pc'[Executor(x)] \in {"returned", "complete"} => session' = "committed"
  <2>1. CASE \E e \in Executions : Execute(e)
    <3>1. PICK e \in Executions : Execute(e)
      BY <2>1
    <3>2. TurnStep(e) /\ \A x \in Executions : x # e => pc'[Executor(x)] = pc[Executor(x)]
      BY <3>1, ExecutorStep
    <3>3. Status(log) = "ready" => ~TurnVisible
      BY StatusMeans DEF IndInv, TurnProgress, NoneOf
    <3>4. \A x \in Executions : x # e /\ pc[Executor(e)] = "turn" => pc[Executor(x)] \notin TurnLabels
      BY <1>l, ProcessIdentity DEF IndInv, LocksHeld, LeaseHeld
    <3>5. \A x \in Executions :
            /\ pc[Executor(x)] \in {"opening", "turn", "cancelled", "finish"} => ~TurnVisible
            /\ pc[Executor(x)] \in {"returned", "complete"} => session = "committed"
      BY DEF IndInv, TurnProgress
    <3>6. ASSUME NEW x \in Executions, x # e
          PROVE  /\ pc'[Executor(x)] \in {"opening", "turn", "cancelled", "finish"} => ~TurnVisible'
                 /\ pc'[Executor(x)] \in {"returned", "complete"} => session' = "committed"
      BY <3>2, <3>4, <3>5, <3>6, <1>l DEF TurnStep, TurnVisible
    <3>7. /\ pc'[Executor(e)] \in {"opening", "turn", "cancelled", "finish"} => ~TurnVisible'
          /\ pc'[Executor(e)] \in {"returned", "complete"} => session' = "committed"
      BY <3>2, <3>3, <3>5, <1>l DEF TurnStep, TurnVisible
    <3> QED
      BY <3>6, <3>7
  <2>2. CASE Crash \/ UNCHANGED vars
    BY <2>2, CrashStep DEF vars, IndInv, TurnProgress, TurnVisible
  <2>3. CASE \/ \E q \in Preparations : Prepare(q)
             \/ \E e \in Executions : Watch(e)
             \/ \E c \in Cancels : Cancel(c)
             \/ \E r \in Recoverers : Recover(r)
             \/ \E p \in Publications : Publish(p)
             \/ \E w \in Workers : GiveUp(w)
    BY <2>3, OthersStep DEF IndInv, TurnProgress, TurnVisible
  <2> QED
    BY <2>1, <2>2, <2>3 DEF Next, Work
<1> QED
  BY <1>1, <1>2, <1>3 DEF TurnProgress

\* What a ready status rules out.
LEMMA ReadyMeans ==
  ASSUME Status(log) = "ready"
  PROVE  ~Has(log, "started") /\ \A t \in TerminalTypes : ~Has(log, t)
BY StatusMeans DEF NoneOf, TerminalStatuses

\* No step adds a terminal record that another one excludes.
LEMMA TerminalRecordsStep ==
  ASSUME TypeOK, IndInv, [Next]_vars
  PROVE  TerminalRecords'
<1>t. {"interrupted", "cancelled_terminal", "cancelled", "completed"} \subseteq TerminalTypes
  BY DEF TerminalTypes
<1>h. \A x : HasExec(log, "started", x) => Has(log, "started")
  BY DEF HasExec, Has
<1>1. CASE log' = log
  <2>1. Status(log) = "ready" => \A x \in Executions : ~HasExec(log', "started", x)
    BY <1>1, <1>h, ReadyMeans
  <2>2. \A x \in Executions : InTurn(x)' => InTurn(x)
    BY <2>1, TurnSummary
  <2>3. \A x \in Executions :
          pc'[Executor(x)] \in {"opening", "turn"} => pc[Executor(x)] \in {"opening", "turn"}
    BY <2>1, TurnSummary
  <2> QED
    BY <1>1, <2>2, <2>3, TurnSummary DEF IndInv, TerminalRecords, InterruptedIsAbandoned
<1>2. ASSUME NEW r \in Record, log' = Append(log, r), Grounds(r) PROVE TerminalRecords'
  <2>1. \A t : Has(log', t) <=> Has(log, t) \/ r.type = t
    BY <1>2, HasAppend DEF TypeOK
  <2>2. \A x : HasExec(log', "started", x) => Has(log, "started") \/ r.type = "started"
    BY <1>2, <1>h, HasExecAppend DEF TypeOK
  <2>3. r.type # "started" => /\ \A x \in Executions : InTurn(x)' => InTurn(x)
                             /\ \A x \in Executions :
                                  pc'[Executor(x)] \in {"opening", "turn"}
                                    => pc[Executor(x)] \in {"opening", "turn"}
    BY <2>2, TurnSummary, ReadyMeans
  <2>4. r.type = "started" => \A t \in TerminalTypes : ~Has(log', t)
    BY <1>2, <2>1, ReadyMeans DEF Grounds, TerminalTypes
  <2>5. Has(log', "interrupted") => (\A e \in Executions : ~InTurn(e)') /\ Has(log', "started")
    BY <1>2, <2>1, <2>3, <2>4, <1>t DEF IndInv, TerminalRecords, InterruptedIsAbandoned, Grounds
  <2>6. Has(log', "completed") => session' = "committed"
    BY <1>2, <2>1, TurnSummary DEF IndInv, TerminalRecords, Grounds
  <2>7. Has(log', "cancelled") => ~Has(log', "started")
    <3>1. Status(log) = "queued" => ~Has(log, "started")
      BY StatusMeans DEF NoneOf
    <3> QED
      BY <1>2, <2>1, <2>4, <3>1, <1>t DEF IndInv, TerminalRecords, Grounds
  <2>8. Has(log', "cancelled_terminal") =>
          /\ ~TurnVisible'
          /\ \A e \in Executions : pc'[Executor(e)] \notin {"opening", "turn"}
    BY <1>2, <2>1, <2>3, <2>4, <1>t, TurnSummary DEF IndInv, TerminalRecords, Grounds
  <2> QED
    BY <2>5, <2>6, <2>7, <2>8 DEF TerminalRecords, InterruptedIsAbandoned
<1> QED
  BY <1>1, <1>2, LogStep

-----------------------------------------------------------------------------
(* What a process read under the writer stays true until it lets go.        *)

\* Only the holder of the writer appends, and it moves on as it does.
LEMMA WriterAppends ==
  ASSUME TypeOK, LocksHeld, [Next]_vars, NEW p \in Processes,
         pc[p] \in WriterLabels, pc'[p] = pc[p]
  PROVE  log' = log
<1>1. SUFFICES ASSUME log' # log,
                      NEW w \in Processes, pc[w] \in WriterLabels, pc'[w] # pc[w]
               PROVE  FALSE
  <2>1. ASSUME NEW q \in Preparations, Prepare(q), log' # log
        PROVE  pc[Preparer(q)] \in {"admit", "bind"} /\ pc'[Preparer(q)] # pc[Preparer(q)]
    <3>0. Preparer(q) \in Processes
      BY ProcessIdentity
    <3>1. CASE Admit(q)
      BY <3>1, AdmitMoves
    <3>2. CASE Bind(q)
      BY <3>0, <3>2, MoveMoves DEF Bind, Write
    <3>3. CASE PreparationFails(q)
      BY <3>0, <3>3, MoveMoves DEF PreparationFails, Write
    <3> QED
      BY <2>1, <3>1, <3>2, <3>3 DEF Prepare, OpenForPrepare
  <2>2. ASSUME NEW e \in Executions, Execute(e), log' # log
        PROVE  /\ pc[Executor(e)] \in {"start", "complete", "finish", "fail"}
               /\ pc'[Executor(e)] # pc[Executor(e)]
    <3>0. Executor(e) \in Processes /\ Executor(e) # Watcher(e)
      BY ProcessIdentity
    <3>1. CASE StartExecution(e)
      BY <3>0, <3>1 DEF StartExecution, TypeOK
    <3>2. CASE FinishCompleted(e) \/ FinishCancelled(e) \/ FinishFailed(e)
      BY <3>0, <3>2, CloseMoves DEF FinishCompleted, FinishCancelled, FinishFailed
    <3>3. ASSUME ~(StartExecution(e) \/ FinishCompleted(e) \/ FinishCancelled(e)
                     \/ FinishFailed(e))
          PROVE  log' = log
      BY <2>2, <3>3 DEF Execute, CheckReady, AcquireExecution, OpenAdmission, CloseAdmission,
         OpenForStart, OpenSession, RouteChanged, CommitTurn, CancelTurn, FailTurn,
         OpenForComplete, OpenForCancelled, InspectFailure, OpenForFailed, CloseExecution
    <3> QED
      BY <2>2, <3>1, <3>2, <3>3
  <2>3. ASSUME NEW e \in Executions, Watch(e), log' # log
        PROVE  pc[Watcher(e)] = "request" /\ pc'[Watcher(e)] # pc[Watcher(e)]
    <3>1. Watcher(e) \in Processes
      BY ProcessIdentity
    <3>2. RequestDeadline(e)
      BY <2>3 DEF Watch, SeeCancelling, WatchFails, SignalToken, DeadlineReached,
         OpenForDeadline
    <3> QED
      BY <3>1, <3>2, CloseMoves DEF RequestDeadline
  <2>4. ASSUME NEW c \in Cancels, Cancel(c), log' # log
        PROVE  /\ pc[Canceller(c)] \in {"decide", "withdraw"}
               /\ pc'[Canceller(c)] # pc[Canceller(c)]
    <3>0. Canceller(c) \in Processes
      BY ProcessIdentity
    <3>1. CASE CancelQueued(c)
      BY <3>0, <3>1, MoveMoves DEF CancelQueued, Write
    <3>2. CASE RequestCancel(c)
      BY <3>2, RequestCancelMoves
    <3>3. CASE CancelBeforeStart(c)
      BY <3>0, <3>3, CloseMoves DEF CancelBeforeStart
    <3> QED
      BY <2>4, <3>1, <3>2, <3>3 DEF Cancel, OpenForCancel
  <2>5. ASSUME NEW r \in Recoverers, Recover(r), log' # log
        PROVE  pc[Recoverer(r)] = "interrupt" /\ pc'[Recoverer(r)] # pc[Recoverer(r)]
    <3>1. Recoverer(r) \in Processes
      BY ProcessIdentity
    <3>2. FinishInterrupted(r)
      BY <2>5 DEF Recover, CheckRecoverable, AcquireRecoveryLease, OpenForInterrupted
    <3> QED
      BY <3>1, <3>2, CloseMoves DEF FinishInterrupted
  <2>6. ASSUME NEW x \in Publications, Publish(x), log' # log
        PROVE  pc[Publisher(x)] = "publish" /\ pc'[Publisher(x)] # pc[Publisher(x)]
    <3>1. Publisher(x) \in Processes
      BY ProcessIdentity
    <3>2. PublishHandoff(x)
      BY <2>6 DEF Publish, BuildHandoff, OpenForPublish
    <3> QED
      BY <3>1, <3>2, CloseMoves DEF PublishHandoff
  <2>9. ASSUME NEW x \in Workers, GiveUp(x), log' # log
        PROVE  pc[Worker(x)] = "give_up" /\ pc'[Worker(x)] # pc[Worker(x)]
    <3>1. Worker(x) \in Processes
      BY ProcessIdentity
    <3>2. FailReady(x)
      BY <2>9 DEF GiveUp, InspectReady, OpenForGiveUp
    <3> QED
      BY <3>1, <3>2, CloseMoves DEF FailReady
  <2>7. Crash \/ UNCHANGED vars => log' = log
    BY DEF Crash, CrashExecutor, CrashCall, Dead, vars
  <2>l. {"admit", "bind", "start", "complete", "finish", "fail", "request", "decide",
         "withdraw", "interrupt", "publish", "give_up"} \subseteq WriterLabels
    BY DEF WriterLabels
  <2>8. log' # log => \E w \in Processes : pc[w] \in WriterLabels /\ pc'[w] # pc[w]
    BY <2>1, <2>2, <2>3, <2>4, <2>5, <2>6, <2>7, <2>9, <2>l, ProcessIdentity DEF Next, Work
  <2> QED
    BY <2>8
<1>2. writer = p /\ writer = w
  BY <1>1 DEF LocksHeld, WriterHeld
<1> QED
  BY <1>1, <1>2

\* The three reads: a cancellation's, a preparation's, a publication's.
LEMMA WithdrawStep ==
  ASSUME TypeOK, IndInv, [Next]_vars, NEW c \in Cancels, pc'[Canceller(c)] = "withdraw"
  PROVE  ~Has(log', "started")
<1>0. Canceller(c) \in Processes /\ "withdraw" \in WriterLabels
  BY ProcessIdentity DEF WriterLabels
<1>1. CASE pc[Canceller(c)] = "withdraw"
  BY <1>0, <1>1, WriterAppends DEF IndInv, ReadsHold
<1>2. CASE pc[Canceller(c)] # "withdraw"
  <2>1. Cancel(c)
    <3>1. ~Crash
      BY <1>0, <1>2, CrashStep
    <3>2. ASSUME NEW e \in Executions, Execute(e) PROVE FALSE
      BY <1>0, <1>2, <3>2, ExecuteMoves, ProcessIdentity
    <3>3. /\ \A q \in Preparations : ~Prepare(q)
          /\ \A e \in Executions : ~Watch(e)
          /\ \A r \in Recoverers : ~Recover(r)
          /\ \A p \in Publications : ~Publish(p)
          /\ \A w \in Workers : ~GiveUp(w)
      BY <1>0, <1>2, PrepareMoves, WatchMoves, RecoverMoves, PublishMoves, GiveUpMoves,
         ProcessIdentity
    <3>4. \A x \in Cancels : Cancel(x) => x = c
      BY <1>0, <1>2, CancelMoves, ProcessIdentity
    <3> QED
      BY <1>2, <3>1, <3>2, <3>3, <3>4 DEF Next, Work, vars
  <2>2. RequestCancel(c)
    <3>1. ~OpenForCancel(c)
      BY <1>0, OpenMoves DEF OpenForCancel
    <3>2. ~CancelQueued(c)
      <4>1. ASSUME CancelQueued(c) PROVE Move(Canceller(c), "decide", "done")
        BY <4>1 DEF CancelQueued, Write
      <4> QED
        BY <1>0, <4>1, MoveMoves
    <3>3. ~CancelBeforeStart(c)
      BY <1>0, CloseMoves DEF CancelBeforeStart
    <3> QED
      BY <2>1, <3>1, <3>2, <3>3 DEF Cancel
  <2>3. ~Has(log, "started")
    BY <2>2, RequestCancelMoves
  <2>4. log' = log \/ log' = Append(log, CancelRequested(log))
    BY <2>2 DEF RequestCancel, AppendTransition
  <2>5. CancelRequested(log) \in Record /\ CancelRequested(log).type # "started"
    BY WrittenRecords DEF TypeOK, CancelRequested, Rec
  <2> QED
    BY <2>3, <2>4, <2>5, HasAppend DEF TypeOK
<1> QED
  BY <1>1, <1>2

\* A preparation that is to bind a Session has the Child admitted.
LEMMA BindStep ==
  ASSUME TypeOK, IndInv, [Next]_vars, NEW q \in Preparations, pc'[Preparer(q)] = "bind"
  PROVE  Status(log') = "admitted"
<1>0. Preparer(q) \in Processes /\ "bind" \in WriterLabels
  BY ProcessIdentity DEF WriterLabels
<1>1. CASE pc[Preparer(q)] = "bind"
  BY <1>0, <1>1, WriterAppends DEF IndInv, ReadsHold
<1>2. CASE pc[Preparer(q)] # "bind"
  <2>1. Prepare(q)
    <3>1. ~Crash
      BY <1>0, <1>2, CrashStep
    <3>2. ASSUME NEW e \in Executions, Execute(e) PROVE FALSE
      BY <1>0, <1>2, <3>2, ExecuteMoves, ProcessIdentity
    <3>3. /\ \A c \in Cancels : ~Cancel(c)
          /\ \A e \in Executions : ~Watch(e)
          /\ \A r \in Recoverers : ~Recover(r)
          /\ \A p \in Publications : ~Publish(p)
          /\ \A w \in Workers : ~GiveUp(w)
      BY <1>0, <1>2, CancelMoves, WatchMoves, RecoverMoves, PublishMoves, GiveUpMoves,
         ProcessIdentity
    <3>4. \A x \in Preparations : Prepare(x) => x = q
      BY <1>0, <1>2, PrepareMoves, ProcessIdentity
    <3> QED
      BY <1>2, <3>1, <3>2, <3>3, <3>4 DEF Next, Work, vars
  <2>2. Admit(q)
    <3>1. ~OpenForPrepare(q)
      BY <1>0, OpenMoves DEF OpenForPrepare
    <3>2. ~Bind(q)
      <4>1. ASSUME Bind(q) PROVE Move(Preparer(q), "bind", "done")
        BY <4>1 DEF Bind, Write
      <4> QED
        BY <1>0, <4>1, MoveMoves
    <3>3. ~PreparationFails(q)
      <4>1. ASSUME PreparationFails(q) PROVE Move(Preparer(q), "bind", "done")
        BY <4>1 DEF PreparationFails, Write
      <4> QED
        BY <1>0, <4>1, MoveMoves
    <3> QED
      BY <2>1, <3>1, <3>2, <3>3 DEF Prepare
  <2>3. \/ Status(log) = "admitted" /\ log' = log
        \/ Status(log) = "queued" /\ log' = Append(log, Rec("admitted", NoExecution))
    <3>1. ASSUME NEW ok \in BOOLEAN,
                 AppendTransition(TRUE, Rec("admitted", NoExecution), ok),
                 Move(Preparer(q), "admit", IF ok THEN "bind" ELSE "done")
          PROVE  log' = Append(log, Rec("admitted", NoExecution))
      <4>1. CASE ok = FALSE
        BY <1>0, <3>1, <4>1, MoveMoves
      <4>2. CASE ok = TRUE
        BY <3>1, <4>2 DEF AppendTransition
      <4> QED
        BY <4>1, <4>2
    <3>2. ~Move(Preparer(q), "admit", "done")
      BY <1>0, MoveMoves
    <3> QED
      BY <2>2, <3>1, <3>2 DEF Admit
  <2>4. CASE Status(log) = "queued" /\ log' = Append(log, Rec("admitted", NoExecution))
    <3>1. Rec("admitted", NoExecution) \in Record
      BY WrittenRecords DEF TypeOK, RecordTypes
    <3>2. Rec("admitted", NoExecution).type = "admitted"
      BY DEF Rec
    <3>3. \A t : Has(log', t) <=> Has(log, t) \/ t = "admitted"
      BY <2>4, <3>1, <3>2, HasAppend DEF TypeOK
    <3>4. /\ \A t \in TerminalTypes : ~Has(log, t)
          /\ ~Has(log, "session_bound") /\ ~Has(log, "started") /\ ~Has(log, "cancel_requested")
      BY <2>4, StatusMeans DEF NoneOf, TerminalStatuses
    <3> QED
      BY <3>3, <3>4 DEF Status, TerminalTypes
  <2> QED
    BY <2>3, <2>4
<1> QED
  BY <1>1, <1>2

\* The outcome a publication carries stays the outcome of the run.
LEMMA DraftStep ==
  ASSUME TypeOK, IndInv, [Next]_vars, NEW p \in Publications
  PROVE  /\ draft'[p].type \in {"header", "handoff"}
         /\ pc'[Publisher(p)] \in {"built", "publish"} =>
              draft'[p].state = Status(log') /\ Status(log') \in TerminalStatuses
<1>0. Publisher(p) \in Processes
  BY ProcessIdentity
<1>1. CASE BuildHandoff(p)
  <2>1. /\ log' = log
        /\ Status(log) \in TerminalStatuses
        /\ draft'[p] = Handoff(log)
    BY <1>1 DEF BuildHandoff, TypeOK
  <2>2. Handoff(log).type = "handoff" /\ Handoff(log).state = Status(log)
    BY DEF Handoff, Rec
  <2> QED
    BY <2>1, <2>2
<1>2. CASE ~BuildHandoff(p)
  <2>1. draft'[p] = draft[p]
    BY <1>2 DEF Next, Work, Prepare, OpenForPrepare, Admit, Bind, PreparationFails,
       Execute, CheckReady, AcquireExecution, OpenAdmission, CloseAdmission, OpenForStart,
       StartExecution, OpenSession, RouteChanged, CommitTurn, CancelTurn, FailTurn,
       OpenForComplete, FinishCompleted, OpenForCancelled, FinishCancelled, InspectFailure,
       OpenForFailed, FinishFailed, CloseExecution, Watch, SeeCancelling, WatchFails,
       SignalToken, DeadlineReached, OpenForDeadline, RequestDeadline, Cancel, OpenForCancel,
       CancelQueued, RequestCancel, CancelBeforeStart, Recover, CheckRecoverable,
       AcquireRecoveryLease, OpenForInterrupted, FinishInterrupted, Publish, BuildHandoff,
       OpenForPublish, PublishHandoff, GiveUp, InspectReady, OpenForGiveUp, FailReady,
       Crash, CrashExecutor, CrashCall, Dead, vars, TypeOK
  <2>2. pc'[Publisher(p)] \in {"built", "publish"} => pc[Publisher(p)] \in {"built", "publish"}
    <3>1. CASE Crash
      BY <1>0, <3>1, CrashStep
    <3>2. ASSUME NEW e \in Executions, Execute(e)
          PROVE  pc'[Publisher(p)] = pc[Publisher(p)]
      BY <1>0, <3>2, ExecuteMoves, ProcessIdentity
    <3>3. ASSUME \/ \E q \in Preparations : Prepare(q)
                 \/ \E e \in Executions : Watch(e)
                 \/ \E c \in Cancels : Cancel(c)
                 \/ \E r \in Recoverers : Recover(r)
                 \/ \E w \in Workers : GiveUp(w)
          PROVE  pc'[Publisher(p)] = pc[Publisher(p)]
      BY <1>0, <3>3, PrepareMoves, WatchMoves, CancelMoves, RecoverMoves, GiveUpMoves,
         ProcessIdentity
    <3>4. ASSUME NEW x \in Publications, Publish(x), x # p
          PROVE  pc'[Publisher(p)] = pc[Publisher(p)]
      BY <1>0, <3>4, PublishMoves, ProcessIdentity
    <3>5. CASE OpenForPublish(p)
      BY <1>0, <3>5, OpenMoves DEF OpenForPublish
    <3>6. CASE PublishHandoff(p)
      BY <1>0, <3>6, CloseMoves DEF PublishHandoff
    <3> QED
      BY <1>2, <3>1, <3>2, <3>3, <3>4, <3>5, <3>6 DEF Next, Work, Publish, vars
  <2> QED
    BY <2>1, <2>2, LogGrows DEF IndInv, ReadsHold
<1> QED
  BY <1>1, <1>2

\* A handoff in the transcript keeps stating its terminal status.
LEMMA HandoffIsFinalStep ==
  ASSUME TypeOK, IndInv, [Next]_vars
  PROVE  HandoffIsFinal'
<1>1. CASE log' = log
  BY <1>1 DEF IndInv, HandoffIsFinal
<1>2. ASSUME NEW r \in Record, log' = Append(log, r), Grounds(r) PROVE HandoffIsFinal'
  <2>1. /\ DOMAIN log' = 1..(Len(log) + 1)
        /\ DOMAIN log = 1..Len(log)
        /\ \A i \in 1..Len(log) : log'[i] = log[i]
        /\ log'[Len(log) + 1] = r
        /\ Len(log) \in Nat
    BY <1>2 DEF TypeOK
  <2>2. ASSUME NEW i \in DOMAIN log', log'[i].type = "handoff"
        PROVE  log'[i].state = Status(log) /\ Status(log) \in TerminalStatuses
    <3>1. CASE i \in 1..Len(log)
      BY <2>1, <2>2, <3>1 DEF IndInv, HandoffIsFinal
    <3>2. CASE i = Len(log) + 1
      BY <1>2, <2>1, <2>2, <3>2 DEF Grounds
    <3> QED
      BY <2>1, <3>1, <3>2
  <2> QED
    BY <2>2, LogGrows DEF HandoffIsFinal
<1> QED
  BY <1>1, <1>2, LogStep

-----------------------------------------------------------------------------
(* The invariant, and what follows from it.                                 *)

\* The inductive invariant holds before anyone has done anything.
LEMMA InitInd == Init => IndInv
<1>1. SUFFICES ASSUME Init PROVE IndInv
  OBVIOUS
<1>2. \A p \in Processes : pc[p] = "idle"
  BY <1>1 DEF Init
<1>3. "idle" \notin WriterLabels \cup LeaseLabels
  BY DEF WriterLabels, LeaseLabels, TurnLabels
<1>4. LocksHeld
  BY <1>2, <1>3, ProcessIdentity DEF LocksHeld, WriterHeld, LeaseHeld
<1>5. session = "absent"
  BY <1>1 DEF Init
<1>6. TurnProgress
  BY <1>2, <1>3, <1>5, ProcessIdentity DEF TurnProgress, InTurn, TurnVisible, LeaseLabels
<1>7. \A i \in DOMAIN log : log[i].type \in {"header", "delegated"}
  BY <1>1 DEF Init, Rec
<1>8. TerminalRecords
  BY <1>7 DEF TerminalRecords, InterruptedIsAbandoned, Has
<1>9. HandoffIsFinal
  BY <1>7 DEF HandoffIsFinal
<1>10. ReadsHold
  BY <1>1, <1>2, ProcessIdentity DEF Init, ReadsHold, NoDraft, Rec
<1> QED
  BY <1>4, <1>6, <1>8, <1>9, <1>10 DEF IndInv

\* IndInv is an invariant: the locks are held by whoever acts on them, and
\* the transcript, the Child Session and the executors agree.
THEOREM Inductive == Spec => []IndInv
<1>1. TypeOK /\ IndInv /\ [Next]_vars => IndInv'
  <2> SUFFICES ASSUME TypeOK, IndInv, [Next]_vars PROVE IndInv'
    OBVIOUS
  <2>1. LocksHeld'
    BY LocksStep DEF IndInv
  <2>2. ReadsHold'
    BY WithdrawStep, BindStep, DraftStep DEF ReadsHold
  <2> QED
    BY <2>1, <2>2, TurnProgressStep, TerminalRecordsStep, HandoffIsFinalStep DEF IndInv
<1> QED
  BY InitInd, <1>1, TypeCorrect, PTL DEF Spec

\* However many executors are started, one at most runs the Child's turn, and
\* it holds the execution lease and recorded the start (ChildRunExecutor.run).
THEOREM OneRunnerAlways == Spec => []OneRunner
<1>1. IndInv => OneRunner
  BY DEF IndInv, LocksHeld, LeaseHeld, TurnProgress, OneRunner, InTurn, LeaseLabels
<1> QED
  BY <1>1, Inductive, PTL

\* Recovery never interrupts an execution that still works on its turn
\* (ChildRunRecoveryService.recover takes the execution lease first).
THEOREM OnlyAbandonedInterrupted == Spec => []InterruptedIsAbandoned
<1>1. IndInv => InterruptedIsAbandoned
  BY DEF IndInv, TerminalRecords
<1> QED
  BY <1>1, Inductive, PTL

\* The status a Child Run ends with and the turn its Session holds agree.
THEOREM OutcomeAgrees == Spec => []OutcomeMatchesSession
<1>1. IndInv => OutcomeMatchesSession
  <2> SUFFICES ASSUME IndInv PROVE OutcomeMatchesSession
    OBVIOUS
  <2>1. Status(log) = "completed" => session = "committed"
    BY StatusMeans DEF IndInv, TerminalRecords
  <2>2. Status(log) = "cancelled" => ~TurnVisible
    BY StatusMeans DEF IndInv, TerminalRecords, TurnProgress
  <2> QED
    BY <2>1, <2>2 DEF OutcomeMatchesSession
<1> QED
  BY <1>1, Inductive, PTL

\* A published handoff keeps stating the transcript's own outcome, also when a
\* cancellation or an interruption is appended behind it.
THEOREM HandoffAlwaysAgrees == Spec => []HandoffAgrees
<1>1. IndInv => HandoffAgrees
  BY DEF IndInv, HandoffIsFinal, HandoffAgrees
<1> QED
  BY <1>1, Inductive, PTL

\* No append changes a terminal status, whichever process makes it.
THEOREM TerminalStays == Spec => TerminalIsFinal
<1>1. TypeOK /\ IndInv /\ [Next]_vars =>
        [Status(log) \in TerminalStatuses => Status(log') = Status(log)]_vars
  BY LogGrows
<1> QED
  BY <1>1, TypeCorrect, Inductive, PTL DEF Spec, TerminalIsFinal

-----------------------------------------------------------------------------
(* The transcript: what everybody's appends can make of it.                 *)

\* Whoever appends, replay has accepted the record (_append_transition).
LEMMA AcceptedStep ==
  ASSUME [Next]_vars
  PROVE  log' = log \/ \E r : Accepts(log, r) /\ log' = Append(log, r)
<1> DEFINE Goal == log' = log \/ \E r : Accepts(log, r) /\ log' = Append(log, r)
<1>1. ASSUME NEW can, NEW r, NEW ok, AppendTransition(can, r, ok) PROVE Goal
  BY <1>1 DEF AppendTransition
<1>2. ASSUME NEW p, NEW from, NEW can, NEW r, NEW done, NEW raised,
             Write(p, from, can, r, done, raised)
      PROVE  Goal
  BY <1>1, <1>2 DEF Write
<1>3. ASSUME UNCHANGED log PROVE Goal
  BY <1>3
<1> HIDE DEF Goal
<1>4. ASSUME NEW q \in Preparations, Prepare(q) PROVE Goal
  BY <1>1, <1>2, <1>3, <1>4 DEF Prepare, OpenForPrepare, Admit, Bind, PreparationFails
<1>5. ASSUME NEW e \in Executions, Execute(e) PROVE Goal
  <2>1. CASE StartExecution(e)
    BY <1>1, <2>1 DEF StartExecution
  <2>2. CASE FinishCompleted(e) \/ FinishCancelled(e) \/ FinishFailed(e)
    BY <1>2, <2>2 DEF FinishCompleted, FinishCancelled, FinishFailed
  <2>3. ASSUME ~(StartExecution(e) \/ FinishCompleted(e) \/ FinishCancelled(e) \/ FinishFailed(e))
        PROVE Goal
    BY <1>3, <1>5, <2>3 DEF Execute, CheckReady, AcquireExecution, OpenAdmission, CloseAdmission,
       OpenForStart, OpenSession, RouteChanged, CommitTurn, CancelTurn, FailTurn,
       OpenForComplete, OpenForCancelled, InspectFailure, OpenForFailed, CloseExecution
  <2> QED
    BY <2>1, <2>2, <2>3
<1>6. ASSUME NEW e \in Executions, Watch(e) PROVE Goal
  BY <1>2, <1>3, <1>6 DEF Watch, SeeCancelling, WatchFails, SignalToken, DeadlineReached,
     OpenForDeadline, RequestDeadline
<1>7. ASSUME NEW c \in Cancels, Cancel(c) PROVE Goal
  BY <1>1, <1>2, <1>3, <1>7 DEF Cancel, OpenForCancel, CancelQueued, RequestCancel,
     CancelBeforeStart
<1>8. ASSUME NEW r \in Recoverers, Recover(r) PROVE Goal
  BY <1>2, <1>3, <1>8 DEF Recover, CheckRecoverable, AcquireRecoveryLease, OpenForInterrupted,
     FinishInterrupted
<1>9. ASSUME NEW p \in Publications, Publish(p) PROVE Goal
  BY <1>2, <1>3, <1>9 DEF Publish, BuildHandoff, OpenForPublish, PublishHandoff
<1>10. ASSUME NEW w \in Workers, GiveUp(w) PROVE Goal
  BY <1>2, <1>3, <1>10 DEF GiveUp, InspectReady, OpenForGiveUp, FailReady
<1>11. CASE Crash \/ UNCHANGED vars
  BY <1>3, <1>11 DEF Crash, CrashExecutor, CrashCall, Dead, vars
<1> QED
  BY <1>4, <1>5, <1>6, <1>7, <1>8, <1>9, <1>10, <1>11 DEF Next, Work, Goal

\* The record has both: the grounds of its writer and the consent of replay.
LEMMA GroundedStep ==
  ASSUME TypeOK, TypeOK', IndInv, [Next]_vars
  PROVE  \/ log' = log
         \/ \E r \in Record : log' = Append(log, r) /\ Grounds(r) /\ Accepts(log, r)
<1>1. CASE log' = log
  BY <1>1
<1>2. CASE log' # log
  <2>1. PICK r \in Record : log' = Append(log, r) /\ Grounds(r)
    BY <1>2, LogStep
  <2>2. PICK x : log' = Append(log, x) /\ Accepts(log, x)
    BY <1>2, AcceptedStep
  <2>3. r = x
    <3> DEFINE S == Record \cup {x}
    <3>1. log \in Seq(S) /\ r \in S /\ x \in S /\ Append(log, r) = Append(log, x)
      BY <2>1, <2>2, SeqMonotonic DEF TypeOK
    <3> HIDE DEF S
    <3> QED
      BY <3>1, AppendInjective
  <2> QED
    BY <2>1, <2>2, <2>3
<1> QED
  BY <1>1, <1>2

\* Every reader can always replay the transcript: no append, confirmed or not,
\* and no pair of appends by different processes leaves one that is refused.
THEOREM AlwaysReplayable == Spec => []Replayable(log)
<1>1. Init => Replayable(log)
  <2> SUFFICES ASSUME Init PROVE Replayable(log)
    OBVIOUS
  <2> DEFINE h == Rec("header", NoExecution)
             d == Rec("delegated", NoExecution)
  <2>0. h.type = "header" /\ d.type = "delegated"
    BY DEF Rec
  <2>t. h \in Record /\ d \in Record
    BY DEF Rec, Record, RecordTypes, TerminalTypes
  <2>1. log = <<h>> \/ log = <<h, d>>
    BY DEF Init
  <2> HIDE DEF h, d
  <2>2. /\ Len(log) \in {1, 2} /\ log[1] = h
        /\ Len(log) = 2 => log[2] = d
        /\ log \in Seq(Record)
    <3>1. CASE log = <<h>>
      BY <2>t, <3>1
    <3>2. CASE log = <<h, d>>
      BY <2>t, <3>2
    <3> QED
      BY <2>1, <3>1, <3>2
  <2>3. \A t : Has(log, t) => t \in {"header", "delegated"}
    BY <2>0, <2>2 DEF Has
  <2>4. \A t, x : HasExec(log, t, x) => t \in {"header", "delegated"}
    BY <2>3 DEF Has, HasExec
  <2>5. WholeLogLegal(log)
    BY <2>3, <2>4 DEF WholeLogLegal
  <2>6. ASSUME NEW i \in 2..Len(log) PROVE LegalNext(SubSeq(log, 1, i - 1), log[i])
    <3>0. Len(log) = 2
      <4>1. i \in 2..Len(log)
        OBVIOUS
      <4>2. ASSUME Len(log) = 1 PROVE FALSE
        <5>1. i \in 2..1
          BY <4>1, <4>2
        <5> QED
          BY <5>1
      <4> QED
        BY <2>2, <4>2
    <3>1. i = 2 /\ Len(log) = 2 /\ log[i] = d
      <4>1. i \in 2..2
        BY <3>0
      <4> QED
        BY <2>2, <3>0, <4>1
    <3>2. Len(SubSeq(log, 1, i - 1)) = 1
      BY <2>2, <3>1
    <3> QED
      BY <2>0, <3>1, <3>2 DEF LegalNext
  <2> QED
    BY <2>0, <2>2, <2>5, <2>6 DEF Replayable
<1>2. TypeOK /\ TypeOK' /\ IndInv /\ Replayable(log) /\ [Next]_vars => Replayable(log)'
  <2> SUFFICES ASSUME TypeOK, TypeOK', IndInv, Replayable(log), [Next]_vars
               PROVE  Replayable(log')
    BY DEF Replayable, LegalNext, WholeLogLegal
  <2> QED
    BY GroundedStep, ReplayableAppend DEF TypeOK
<1> QED
  BY <1>1, <1>2, TypeCorrect, Inductive, PTL DEF Spec

\* One record of each type at most.
OneOfEach == \A i, j \in DOMAIN log : log[i].type = log[j].type => i = j

\* Nine records at most, whoever appends how often: what bounds a transcript, and
\* the state space of the runs (replay_child_run_records).
THEOREM TranscriptIsBounded == Spec => [](OneOfEach /\ Len(log) <= 9)
<1>1. TypeOK /\ Replayable(log) => OneOfEach /\ Len(log) <= 9
  BY OneOfEachType, AtMostNine DEF TypeOK, OneOfEach
<1> QED
  BY <1>1, AlwaysReplayable, TypeCorrect, PTL

\* A second terminal record is an interruption behind a cancellation and
\* nothing else: acquire_recovery_lease and finish_interrupted leave the one
\* gap of OneTerminalRecord, and no other writer has any.
SecondIsRecovery ==
  \A i, j \in DOMAIN log :
    i < j /\ log[i].type \in TerminalTypes /\ log[j].type \in TerminalTypes
      => log[i].type = "cancelled_terminal" /\ log[j].type = "interrupted"

\* A Child that was cancelled in the queue was not admitted.
CancelledInQueue == Has(log, "cancelled") => ~Has(log, "admitted")

LEMMA BoundWasAdmitted ==
  ASSUME NEW s \in Seq(Record), Replayable(s)
  PROVE  /\ Has(s, "session_bound") => Has(s, "admitted")
         /\ Has(s, "started") => Has(s, "session_bound")
         /\ Has(s, "cancel_requested") => Has(s, "session_bound")
<1>1. DOMAIN s = 1..Len(s) /\ Len(s) \in Nat /\ s[1].type = "header"
  BY DEF Replayable
<1>2. ASSUME NEW t, NEW u, t # "header", Has(s, t),
             \A i \in 2..Len(s) : s[i].type = t => \E j \in 1..(i - 1) : s[j].type = u
      PROVE  Has(s, u)
  <2>1. PICK i \in 1..Len(s) : s[i].type = t
    BY <1>1, <1>2 DEF Has
  <2>2. i \in 2..Len(s)
    BY <1>1, <1>2, <2>1
  <2>3. PICK j \in 1..(i - 1) : s[j].type = u
    BY <1>2, <2>1, <2>2
  <2> QED
    BY <1>1, <2>3 DEF Has
<1> QED
  BY <1>2, Before

LEMMA SecondStep ==
  ASSUME TypeOK, TypeOK', IndInv, Replayable(log), CancelledInQueue, SecondIsRecovery, [Next]_vars
  PROVE  CancelledInQueue' /\ SecondIsRecovery'
<1>1. CASE log' = log
  BY <1>1 DEF CancelledInQueue, SecondIsRecovery
<1>2. ASSUME NEW r \in Record, log' = Append(log, r), Grounds(r), Accepts(log, r)
      PROVE  CancelledInQueue' /\ SecondIsRecovery'
  <2>1. \A t : Has(log', t) <=> Has(log, t) \/ r.type = t
    BY <1>2, HasAppend DEF TypeOK
  <2>2. LegalNext(log, r)
    BY <1>2 DEF Accepts
  <2>3. CancelledInQueue'
    <3>1. r.type = "cancelled" => ~Has(log, "admitted")
      BY <2>2 DEF LegalNext, NoneOf
    <3>2. r.type = "admitted" => ~Has(log, "cancelled")
      BY <2>2 DEF LegalNext, NoneOf
    <3> QED
      BY <2>1, <3>1, <3>2 DEF CancelledInQueue
  <2>4. ASSUME NEW t \in TerminalTypes, Has(log, t), r.type \in TerminalTypes
        PROVE  t = "cancelled_terminal" /\ r.type = "interrupted"
    <3>1. Status(log) \in TerminalStatuses
      BY <2>4, StatusMeans DEF NoneOf
    <3>2. r.type \in {"cancelled_terminal", "interrupted"}
      BY <1>2, <2>4, <3>1 DEF Grounds, TerminalStatuses, TerminalTypes
    <3>3. NoneOf(log, {"completed", "failed"}) /\ ~Has(log, r.type)
      BY <2>2, <3>2 DEF LegalNext, NoneOf
    <3>4. Has(log, "started") \/ Has(log, "cancel_requested")
      BY <2>2, <3>2 DEF LegalNext, HasExec, Has
    <3>5. ~Has(log, "preparation_failed") /\ ~Has(log, "cancelled")
      BY <3>4, BoundWasAdmitted, BoundIsPrepared DEF TypeOK, CancelledInQueue
    <3>6. r.type = "cancelled_terminal" => ~Has(log, "interrupted")
      BY <1>2 DEF Grounds
    <3> QED
      BY <2>4, <3>2, <3>3, <3>5, <3>6 DEF TerminalTypes, NoneOf
  <2>5. /\ DOMAIN log' = 1..(Len(log) + 1) /\ DOMAIN log = 1..Len(log) /\ Len(log) \in Nat
        /\ \A i \in 1..Len(log) : log'[i] = log[i]
        /\ log'[Len(log) + 1] = r
    BY <1>2 DEF TypeOK
  <2>6. ASSUME NEW i \in DOMAIN log', NEW j \in DOMAIN log', i < j,
               log'[i].type \in TerminalTypes, log'[j].type \in TerminalTypes
        PROVE  log'[i].type = "cancelled_terminal" /\ log'[j].type = "interrupted"
    <3>1. i \in DOMAIN log /\ log'[i] = log[i]
      BY <2>5, <2>6
    <3>2. CASE j \in DOMAIN log
      BY <2>5, <2>6, <3>1, <3>2 DEF SecondIsRecovery
    <3>3. CASE j = Len(log) + 1
      <4>1. Has(log, log[i].type) /\ log'[j] = r
        BY <2>5, <3>1, <3>3 DEF Has
      <4> QED
        BY <2>4, <2>6, <3>1, <4>1
    <3> QED
      BY <2>5, <3>2, <3>3
  <2> QED
    BY <2>3, <2>6 DEF SecondIsRecovery
<1> QED
  BY <1>1, <1>2, GroundedStep

\* The one second terminal record there can be is the interruption of a recovery
\* behind the cancellation it raced (what OneTerminalRecord finds; nothing else
\* does it: complete, fail, finish_cancelled, finish_interrupted).
THEOREM OnlyRecoveryIsSecond == Spec => []SecondIsRecovery
<1>1. Init => CancelledInQueue /\ SecondIsRecovery
  <2> SUFFICES ASSUME Init PROVE CancelledInQueue /\ SecondIsRecovery
    OBVIOUS
  <2>1. \A i \in DOMAIN log : log[i].type \in {"header", "delegated"}
    BY DEF Init, Rec
  <2> QED
    BY <2>1 DEF CancelledInQueue, SecondIsRecovery, Has, TerminalTypes
<1>2. TypeOK /\ TypeOK' /\ IndInv /\ Replayable(log) /\ CancelledInQueue /\ SecondIsRecovery
        /\ [Next]_vars => (CancelledInQueue /\ SecondIsRecovery)'
  BY SecondStep
<1> QED
  BY <1>1, <1>2, AlwaysReplayable, TypeCorrect, Inductive, PTL DEF Spec
=============================================================================
