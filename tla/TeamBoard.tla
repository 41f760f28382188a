----------------------------- MODULE TeamBoard -----------------------------
(***************************************************************************)
(* One Team transcript: its members, the owner's messages, the work board,   *)
(* the assignments that tie them to Child Runs, and the schedule waves.      *)
(*                                                                         *)
(* Every append replays the whole transcript first and is made under its     *)
(* exclusive lock, but what is appended was decided on an earlier read.      *)
(* An assignment is a saga over two ledgers: it is created, its Child is     *)
(* created and bound, an inbox is frozen for it, the Child is prepared, runs *)
(* and ends, its reply and the delivery are published, and it is observed.   *)
(* Any command of the owner, a recovery and the coordinator of a schedule    *)
(* may make the next step of any assignment, and all may die in between.     *)
(***************************************************************************)
EXTENDS Integers, FiniteSets

CONSTANTS Members,         \* model bound: members that join
          Items,           \* model bound: work items
          Assignments,     \* model bound: assignments
          Messages,        \* model bound: messages of the owner
          Runs,            \* model bound: schedule waves
          Size,            \* model bound: all of these and the roster's changes
          InboxLimit,      \* messages one inbox may hold
          MaxAssignments,  \* a wave's assignment limit
          MaxParallel      \* a wave's parallel limit

ASSUME BoardAssumption ==
  /\ Members \in Nat \ {0} /\ Items \in Nat /\ Assignments \in Nat
  /\ Messages \in Nat /\ Runs \in Nat /\ Size \in Nat
  /\ InboxLimit \in Nat \ {0}
  /\ MaxAssignments \in Nat \ {0} /\ MaxParallel \in Nat \ {0}

VARIABLES members,      \* status of every member
          changes,      \* how often a member joined, was disabled or enabled, or left
          messages,     \* the owner's messages
          items,        \* the work board
          assignments,  \* the assignments, in the order they were created
          runs,         \* the schedule waves, in the order they were started
          closed,       \* team_closed
          child,        \* status of the Child Run of every assignment
          outside,      \* those whose Child was not prepared by the Team, while it matters
          cancelling,   \* messages a caller of cancel has found free
          raced,        \* messages that were bound while in cancelling
          coord         \* the holder of the schedule lease

roster == <<members, changes>>
callers == <<cancelling, raced>>
ledger == <<roster, messages, items, assignments, runs, closed>>
children == <<child, outside>>
vars == <<ledger, children, callers, coord>>

-----------------------------------------------------------------------------
(* Records.  Numbers are identities in Team order; 0 is none.               *)

Member == 1..Members
Item == 1..Items
Assignment == 1..Assignments
Message == 1..Messages
Run == 1..Runs

MemberStatus == {"absent", "active", "disabled", "left"}
TeamMessage == [status : {"absent", "pending", "delivered", "cancelled"}, to : {0} \cup Member]
WorkItem == [status : {"absent", "ready", "assigned", "review", "completed", "cancelled"},
             deps : SUBSET Item, current : {0} \cup Assignment]
TeamAssignment ==
  [phase : {"absent", "pending_child", "child_bound", "terminal_observed"},
   member : {0} \cup Member, item : {0} \cup Item, run : {0} \cup Run,
   outcome : {"none", "completed", "failed"},
   mail : {"none", "bound", "late", "observed"}, inbox : SUBSET Message,
   reply : {"none", "unread", "read"}]
Outcome == {"idle", "limit_reached", "cancelled", "failed", "interrupted"}
NotAsked == -1
Schedule == [status : {"absent", "running"} \cup Outcome,
             asked : {NotAsked} \cup Nat,  \* assignments it had at the cancel request
             count : Nat]                  \* assignment_count of its end
ChildStatus == {"absent", "queued", "prepared", "completed", "failed"}
Coordinator ==
  [pc : {"off", "held", "stranded", "queued", "loop", "dispatch", "create", "admit", "wait",
         "decide", "shutdown", "finish", "retry"},
   fore : BOOLEAN,  \* run on the thread of the REPL, by /team schedule run
   run : {0} \cup Run, active : SUBSET Assignment, new : {0} \cup Assignment,
   item : {0} \cup Item, member : {0} \cup Member, goal : Outcome]

NoMessage == [status |-> "absent", to |-> 0]
NoItem == [status |-> "absent", deps |-> {}, current |-> 0]
NewAssignment(m, i, r) ==
  [phase |-> "pending_child", member |-> m, item |-> i, run |-> r, outcome |-> "none",
   mail |-> "none", inbox |-> {}, reply |-> "none"]
NoAssignment == [NewAssignment(0, 0, 0) EXCEPT !.phase = "absent"]
NoRun == [status |-> "absent", asked |-> NotAsked, count |-> 0]
Off == [pc |-> "off", fore |-> FALSE, run |-> 0, active |-> {}, new |-> 0, item |-> 0, member |-> 0,
        goal |-> "failed"]
Held == [Off EXCEPT !.pc = "held"]

\* n is the next identity after the used ones.
IsNext(n, used) == n \notin used /\ 1..(n - 1) \subseteq used

Sent == {m \in Message : messages[m].status # "absent"}
Listed == {i \in Item : items[i].status # "absent"}
Made == {a \in Assignment : assignments[a].phase # "absent"}
Started == {r \in Run : runs[r].status # "absent"}
Pending == {a \in Made : assignments[a].phase # "terminal_observed"}
Of(r) == {a \in Made : assignments[a].run = r}
Open(r) == runs[r].status = "running"
Terminal(r) == runs[r].status \in Outcome
Asked(r) == runs[r].asked # NotAsked
AllObserved(r) == Of(r) \cap Pending = {}
ChildEnded(a) == child[a] \in {"completed", "failed"}
Busy == {assignments[a].member : a \in Pending}
Free == {m \in Member : members[m] = "active" /\ m \notin Busy}

\* The transcript takes one more identity or roster change: it is bounded, and
\* whatever does not fit is refused (MAX_TEAM_RECORDS).
\* Mutant: the roster's changes are not counted.
FitsUncounted == Cardinality(Sent) + Cardinality(Listed) + Cardinality(Made)
                   + Cardinality(Started) < Size
Fits == Cardinality(Sent) + Cardinality(Listed) + Cardinality(Made)
          + Cardinality(Started) + changes < Size

\* A ready item is shown as blocked until every dependency is completed.
Ready(i) == items[i].status = "ready" /\ \A d \in items[i].deps : items[d].status = "completed"

\* Messages frozen in the inbox of an attempt that has not failed.
Bound == UNION {assignments[a].inbox :
                 a \in {b \in Made : b \in Pending \/ assignments[b].outcome = "completed"}}

\* The oldest messages of S that fit one inbox.
Oldest(S) == {m \in S : Cardinality({k \in S : k < m}) < InboxLimit}

Init ==
  /\ members = [m \in Member |-> "absent"] /\ changes = 0
  /\ messages = [m \in Message |-> NoMessage]
  /\ items = [i \in Item |-> NoItem]
  /\ assignments = [a \in Assignment |-> NoAssignment]
  /\ runs = [r \in Run |-> NoRun]
  /\ closed = FALSE
  /\ child = [a \in Assignment |-> "absent"] /\ outside = {}
  /\ cancelling = {} /\ raced = {}
  /\ coord = Off

-----------------------------------------------------------------------------
(* The roster.                                                              *)

Change(m, status) ==
  /\ Fits
  /\ members' = [members EXCEPT ![m] = status]
  /\ changes' = changes + 1
  /\ UNCHANGED <<messages, items, assignments, runs, closed, children, callers, coord>>

Join(m) ==
  /\ ~closed /\ IsNext(m, {n \in Member : members[n] # "absent"})
  /\ Change(m, "active")
Disable(m) == ~closed /\ members[m] = "active" /\ Change(m, "disabled")
Enable(m) == ~closed /\ members[m] = "disabled" /\ Change(m, "active")

\* leave_member: the replay refuses a member with a pending assignment.  The
\* deliveries of the others were looked at on an earlier read.
Leave(m) ==
  /\ ~closed /\ members[m] \in {"active", "disabled"}
  /\ m \notin Busy
  /\ \A k \in Message : messages[k].to = m => messages[k].status # "pending"
  /\ Change(m, "left")

-----------------------------------------------------------------------------
(* The mailbox.                                                             *)

Send(k, m) ==
  /\ ~closed /\ Fits /\ IsNext(k, Sent) /\ members[m] \in {"active", "disabled"}
  /\ messages' = [messages EXCEPT ![k] = [status |-> "pending", to |-> m]]
  /\ UNCHANGED <<roster, items, assignments, runs, closed, children, callers, coord>>

\* Mutant: the inbox of a live assignment is not looked at.
CheckCancelBound(k) ==
  /\ messages[k].status = "pending" /\ k \notin cancelling
  /\ cancelling' = cancelling \cup {k}
  /\ UNCHANGED <<ledger, children, raced, coord>>

\* cancel looks for the message in the inbox of a live assignment on one read ...
CheckCancel(k) ==
  /\ messages[k].status = "pending" /\ k \notin cancelling
  /\ \A a \in Pending : k \notin assignments[a].inbox
  /\ cancelling' = cancelling \cup {k}
  /\ UNCHANGED <<ledger, children, raced, coord>>

\* ... and appends on a later one, which checks only that it is pending.
CancelMessage(k) ==
  /\ ~closed /\ k \in cancelling
  /\ messages[k].status = "pending"
  /\ messages' = [messages EXCEPT ![k].status = "cancelled"]
  /\ cancelling' = cancelling \ {k}
  /\ UNCHANGED <<roster, items, assignments, runs, closed, children, raced, coord>>

\* bind_assignment chooses the oldest free messages on one read and appends on a
\* later one, where the replay checks each of them again: what was sent since, the
\* messages after last, is left out.  Nobody looks at the Child: an inbox frozen
\* for one that has completed is late, an observer may have read that there is none.
BindInbox(a, last) ==
  LET free == {k \in Sent : /\ messages[k].status = "pending" /\ k \notin Bound
                            /\ messages[k].to = assignments[a].member}
      inbox == Oldest({k \in free : k <= last})
  IN  /\ ~closed
      /\ assignments[a].phase = "child_bound" /\ assignments[a].mail = "none"
      /\ assignments' = [assignments EXCEPT
                           ![a].mail = IF child[a] = "completed" THEN "late" ELSE "bound",
                           ![a].inbox = inbox]
      /\ raced' = raced \cup (inbox \cap cancelling)
      /\ UNCHANGED <<roster, messages, items, runs, closed, children, cancelling, coord>>

\* publish_reply_and_delivery, first append: the reply of a completed Child, which
\* must have been asked what the frozen inbox says (the digest of its prompt).
SendReply(a) ==
  /\ ~closed /\ a \in Made
  /\ child[a] = "completed" /\ a \notin outside
  /\ assignments[a].mail # "none" /\ assignments[a].reply = "none"
  /\ assignments' = [assignments EXCEPT ![a].reply = "unread"]
  /\ UNCHANGED <<roster, messages, items, runs, closed, children, callers, coord>>

\* Second append: the frozen messages are delivered.
ObserveMail(a) ==
  /\ ~closed /\ assignments[a].reply # "none" /\ assignments[a].mail = "bound"
  /\ \A k \in assignments[a].inbox : messages[k].status = "pending"
  /\ messages' = [k \in Message |-> IF k \in assignments[a].inbox
                                    THEN [messages[k] EXCEPT !.status = "delivered"]
                                    ELSE messages[k]]
  /\ assignments' = [assignments EXCEPT ![a].mail = "observed"]
  /\ UNCHANGED <<roster, items, runs, closed, children, callers, coord>>

ReadReply(a) ==
  /\ ~closed /\ assignments[a].reply = "unread"
  /\ assignments' = [assignments EXCEPT ![a].reply = "read"]
  /\ UNCHANGED <<roster, messages, items, runs, closed, children, callers, coord>>

-----------------------------------------------------------------------------
(* The work board.                                                          *)

CreateItem(i, deps) ==
  /\ ~closed /\ Fits /\ IsNext(i, Listed) /\ deps \subseteq Listed
  /\ items' = [items EXCEPT ![i] = [status |-> "ready", deps |-> deps, current |-> 0]]
  /\ UNCHANGED <<roster, messages, assignments, runs, closed, children, callers, coord>>

CancelItem(i) ==
  /\ ~closed /\ items[i].status \in {"ready", "review"}
  /\ items' = [items EXCEPT ![i].status = "cancelled"]
  /\ UNCHANGED <<roster, messages, assignments, runs, closed, children, callers, coord>>

ReleaseItem(i) ==
  /\ ~closed /\ items[i].status = "review"
  /\ items' = [items EXCEPT ![i].status = "ready", ![i].current = 0]
  /\ UNCHANGED <<roster, messages, assignments, runs, closed, children, callers, coord>>

\* Mutant: any outcome completes the item.
CompleteItemAnyway(i) ==
  /\ ~closed /\ items[i].status = "review"
  /\ items' = [items EXCEPT ![i].status = "completed"]
  /\ UNCHANGED <<roster, messages, assignments, runs, closed, children, callers, coord>>

\* complete reads the handoff of the current assignment again and refuses any
\* outcome but completed.
CompleteItem(i) ==
  /\ ~closed /\ items[i].status = "review"
  /\ assignments[items[i].current].outcome = "completed"
  /\ items' = [items EXCEPT ![i].status = "completed"]
  /\ UNCHANGED <<roster, messages, assignments, runs, closed, children, callers, coord>>

-----------------------------------------------------------------------------
(* The saga of one assignment.                                              *)

\* What the replay wants of team_assignment_created.  It looks at the stored
\* status of the item; its dependencies, once completed, stay so since create
\* looked at them.
Admissible(m, i, r) ==
  /\ ~closed /\ m \in Free
  /\ i # 0 => Ready(i)
  /\ r # 0 => Open(r) /\ Cardinality(Of(r)) < MaxAssignments

Create(a, m, i, r) ==
  /\ Fits /\ IsNext(a, Made) /\ Admissible(m, i, r)
  /\ assignments' = [assignments EXCEPT ![a] = NewAssignment(m, i, r)]
  /\ items' = IF i = 0 THEN items
              ELSE [items EXCEPT ![i].status = "assigned", ![i].current = a]

Assign(a, m, i) ==
  /\ Create(a, m, i, 0)
  /\ UNCHANGED <<roster, messages, runs, closed, children, callers, coord>>

CreateChild(a) ==
  /\ assignments[a].phase = "pending_child" /\ child[a] = "absent"
  /\ child' = [child EXCEPT ![a] = "queued"]
  /\ UNCHANGED <<ledger, outside, callers, coord>>

BindChild(a) ==
  /\ ~closed /\ assignments[a].phase = "pending_child" /\ child[a] # "absent"
  /\ assignments' = [assignments EXCEPT ![a].phase = "child_bound"]
  /\ UNCHANGED <<roster, messages, items, runs, closed, children, callers, coord>>

\* prepare_team_assignment: the Child is admitted to a Team's role, and will be
\* asked what its member, its item and its frozen inbox say.
PrepareChild(a) ==
  /\ assignments[a].mail # "none" /\ child[a] = "queued"
  /\ child' = [child EXCEPT ![a] = "prepared"]
  /\ UNCHANGED <<ledger, outside, callers, coord>>

\* /child prepare takes the Child of a Team like any other, with or without an
\* inbox: it will be asked its objective only.
PrepareOutside(a) ==
  /\ child[a] = "queued"
  /\ child' = [child EXCEPT ![a] = "prepared"]
  /\ outside' = outside \cup {a}
  /\ UNCHANGED <<ledger, callers, coord>>

\* The life of a Child is ChildRun's subject: prepared, it runs and completes, or
\* it fails, is cancelled or is recovered; queued, it can be cancelled.
EndChild(a) ==
  /\ \/ /\ child[a] = "prepared"
        /\ child' = [child EXCEPT ![a] = "completed"] /\ UNCHANGED outside
     \/ /\ child[a] \in {"queued", "prepared"}
        /\ child' = [child EXCEPT ![a] = "failed"] /\ outside' = outside \ {a}
  /\ UNCHANGED <<ledger, callers, coord>>

\* Mutant: the terminal observation comes before reply and delivery.
ObserveFirst(a) ==
  /\ ~closed /\ assignments[a].phase = "child_bound" /\ ChildEnded(a)
  /\ assignments' = [assignments EXCEPT ![a].phase = "terminal_observed",
                                        ![a].outcome = child[a]]
  /\ items' = IF assignments[a].item = 0 THEN items
              ELSE [items EXCEPT ![assignments[a].item].status = "review"]
  /\ UNCHANGED <<roster, messages, runs, closed, children, callers, coord>>

\* observe_terminal publishes reply and delivery of a completed Child first, if
\* there was an inbox when it read the Team.
Observe(a) ==
  /\ ~closed /\ assignments[a].phase = "child_bound" /\ ChildEnded(a)
  /\ child[a] = "completed" => assignments[a].mail # "bound"
  /\ assignments' = [assignments EXCEPT ![a].phase = "terminal_observed",
                                        ![a].outcome = child[a]]
  /\ items' = IF assignments[a].item = 0 THEN items
              ELSE [items EXCEPT ![assignments[a].item].status = "review"]
  /\ UNCHANGED <<roster, messages, runs, closed, children, callers, coord>>

CloseTeam ==
  /\ ~closed
  /\ \A r \in Run : ~Open(r)
  /\ Pending = {}
  /\ \A i \in Listed : items[i].status \in {"completed", "cancelled"}
  /\ \A k \in Message : messages[k].status # "pending"
  /\ \A a \in Made : /\ assignments[a].reply # "unread"
                     /\ assignments[a].outcome = "completed"
                          => assignments[a].mail \in {"none", "observed"}
  /\ closed' = TRUE
  /\ UNCHANGED <<roster, messages, items, assignments, runs, children, callers, coord>>

-----------------------------------------------------------------------------
(* One schedule wave.  Its coordinator holds the schedule lease from start or  *)
(* resume to off, or leaves it held when it is interrupted on the thread of    *)
(* the REPL.  The saga steps it asks for are the actions above.             *)

At(pc) == coord.pc = pc
Go(pc) == coord' = [coord EXCEPT !.pc = pc]
FinishAs(outcome) ==
  coord' = [Off EXCEPT !.pc = "finish", !.fore = coord.fore, !.run = coord.run, !.goal = outcome]

\* start: the append may raise although the record is there.  A foreground wave
\* then runs; a background one is submitted, which may be refused, or meet a worker
\* that is returning, or be interrupted.
StartSchedule(r) ==
  /\ At("off") /\ ~closed /\ Fits
  /\ IsNext(r, Started) /\ \A s \in Run : ~Open(s)
  /\ runs' = [runs EXCEPT ![r].status = "running"]
  /\ \/ coord' \in {Off, Held}
     \/ coord' = [Off EXCEPT !.pc = "loop", !.run = r, !.fore = TRUE]
     \/ \E pc \in {"queued", "stranded"} : coord' = [Off EXCEPT !.pc = pc, !.run = r]
  /\ UNCHANGED <<roster, messages, items, assignments, closed, children, callers>>

\* The Task bridge resumes a wave, and closes it whatever is raised.
Resume(r) ==
  /\ At("off") /\ Open(r)
  /\ coord' = [Off EXCEPT !.pc = "loop", !.run = r]
  /\ UNCHANGED <<ledger, children, callers>>

\* Another wave is submitted, and its worker finds this one too.
WakeUp ==
  /\ At("stranded") /\ Go("queued")
  /\ UNCHANGED <<ledger, children, callers>>

TakeUp ==
  /\ At("queued") /\ Go("loop")
  /\ UNCHANGED <<ledger, children, callers>>

\* The supervisor closes: a queued wave is cancelled, then finished; a second
\* request or a failed append gives it up.
Shutdown ==
  /\ coord.pc \in {"queued", "stranded"}
  /\ \/ /\ ~closed /\ Open(coord.run) /\ ~Asked(coord.run)
        /\ runs' = [runs EXCEPT ![coord.run].asked = Cardinality(Of(coord.run))]
        /\ coord' \in {[coord EXCEPT !.pc = "shutdown", !.goal = "cancelled"], Off}
     \/ UNCHANGED runs /\ coord' = Off
  /\ UNCHANGED <<roster, messages, items, assignments, closed, children, callers>>

RequestCancel(r) ==
  /\ ~closed /\ Open(r) /\ ~Asked(r)
  /\ runs' = [runs EXCEPT ![r].asked = Cardinality(Of(r))]
  /\ UNCHANGED <<roster, messages, items, assignments, closed, children, callers, coord>>

\* Mutant: a cancel request is not looked at between two rounds.
LoopOn ==
  /\ At("loop")
  /\ coord' = [coord EXCEPT !.pc = "dispatch", !.active = Of(coord.run) \cap Pending]
  /\ UNCHANGED <<ledger, children, callers>>

\* The head of the loop reads the wave: a cancelled one cancels its Children and
\* finishes, another one takes up what it owns.
Loop ==
  /\ At("loop")
  /\ IF Asked(coord.run)
     THEN FinishAs("cancelled")
     ELSE coord' = [coord EXCEPT !.pc = "dispatch", !.active = Of(coord.run) \cap Pending]
  /\ UNCHANGED <<ledger, children, callers>>

\* select_next: the oldest ready item, and the free member with the fewest
\* scheduled attempts, the earlier one of two.
Attempts(m) == Cardinality({a \in Made : assignments[a].member = m /\ assignments[a].run # 0})
Selected(i, m) ==
  /\ ~closed
  /\ i \in Listed /\ Ready(i) /\ \A j \in Listed : Ready(j) => i <= j
  /\ m \in Free
  /\ \A n \in Free : Attempts(m) < Attempts(n) \/ (Attempts(m) = Attempts(n) /\ m <= n)
Selectable == \E i \in Item, m \in Member : Selected(i, m)
AtLimit == Cardinality(Of(coord.run)) >= MaxAssignments
Room == Cardinality(coord.active) < MaxParallel /\ ~AtLimit

Select ==
  /\ At("dispatch") /\ Room
  /\ \E i \in Item, m \in Member :
       Selected(i, m) /\ coord' = [coord EXCEPT !.pc = "create", !.item = i, !.member = m]
  /\ UNCHANGED <<ledger, children, callers>>

EndDispatch ==
  /\ At("dispatch") /\ ~(Room /\ Selectable)
  /\ Go(IF coord.active = {} THEN "decide" ELSE "wait")
  /\ UNCHANGED <<ledger, children, callers>>

\* create, on what was selected earlier; it may be refused by now, and its
\* append may be lost or raise although the record is there.
Dispatch ==
  /\ At("create")
  /\ \/ \E a \in Assignment :
          /\ Create(a, coord.member, coord.item, coord.run)
          /\ \/ coord' = [coord EXCEPT !.pc = "admit", !.new = a, !.item = 0, !.member = 0]
             \/ FinishAs("failed")
     \/ FinishAs("failed") /\ UNCHANGED <<assignments, items>>
  /\ UNCHANGED <<roster, messages, runs, closed, children, callers>>

\* Prepared and started; or any step of that raised.
Admit ==
  /\ At("admit")
  /\ \/ /\ child[coord.new] \notin {"absent", "queued"}
        /\ coord' = [coord EXCEPT !.pc = "dispatch", !.active = @ \cup {coord.new}, !.new = 0]
     \/ FinishAs("failed")
  /\ UNCHANGED <<ledger, children, callers>>

\* Mutant: what was not observed is waited for again.
WaitAgain ==
  /\ At("wait")
  /\ coord' = [coord EXCEPT !.pc = "loop", !.active = {}]
  /\ UNCHANGED <<ledger, children, callers>>

\* Every wait is bounded; one that raised counts as not observed.
Wait ==
  /\ At("wait")
  /\ \/ /\ coord.active \cap Pending = {}
        /\ coord' = [coord EXCEPT !.pc = "loop", !.active = {}]
     \/ FinishAs("failed")
  /\ UNCHANGED <<ledger, children, callers>>

\* A second look: work that has become ready since goes through the loop again.
Decide ==
  /\ At("decide")
  /\ IF AtLimit THEN FinishAs("limit_reached")
     ELSE IF ~Selectable THEN FinishAs("idle") ELSE Go("loop")
  /\ UNCHANGED <<ledger, children, callers>>

\* What the replay wants of team_schedule_finished.
Allowed(r, outcome) ==
  /\ ~closed /\ Open(r)
  /\ AllObserved(r)
  /\ outcome = "cancelled" <=> Asked(r)

Close(r, outcome) ==
  /\ Allowed(r, outcome)
  /\ runs' = [runs EXCEPT ![r].status = outcome, ![r].count = Cardinality(Of(r))]

\* A finish that raises, with or without its record, is retried as failed; that
\* of a shutdown is not.
Finish ==
  /\ coord.pc \in {"finish", "retry", "shutdown"}
  /\ LET next == IF At("finish") THEN [coord EXCEPT !.pc = "retry", !.goal = "failed"] ELSE Off
     IN  \/ Close(coord.run, coord.goal) /\ coord' \in {Off, next}
         \/ UNCHANGED runs /\ coord' = next
  /\ UNCHANGED <<roster, messages, items, assignments, closed, children, callers>>

\* Ctrl-C in a foreground wave: run_started handles an Exception only, so nobody
\* closes the lease, and the REPL goes on.
Interrupt ==
  /\ coord.fore /\ coord' = Held
  /\ UNCHANGED <<ledger, children, callers>>

\* The process dies, which frees the lease; or Ctrl-C in a wave that was resumed.
Crash ==
  /\ ~At("off") /\ coord' = Off
  /\ UNCHANGED <<ledger, children, callers>>

\* recover takes the free lease; it finishes nothing that has a live assignment.
Recover(r) ==
  /\ At("off")
  /\ Close(r, IF Asked(r) THEN "cancelled" ELSE "interrupted")
  /\ UNCHANGED <<roster, messages, items, assignments, closed, children, callers, coord>>

Coordinate ==
  TakeUp \/ Loop \/ Select \/ EndDispatch \/ Dispatch \/ Admit \/ Wait \/ Decide \/ Finish

RosterStep == \E m \in Member : Join(m) \/ Disable(m) \/ Enable(m) \/ Leave(m)
MailStep ==
  \/ \E k \in Message : CheckCancel(k) \/ CancelMessage(k) \/ \E m \in Member : Send(k, m)
  \/ \E a \in Assignment : SendReply(a) \/ ObserveMail(a) \/ ReadReply(a)
                            \/ \E last \in 0..Messages : BindInbox(a, last)
WorkStep ==
  \E i \in Item : \/ \E deps \in SUBSET Item : CreateItem(i, deps)
                  \/ CancelItem(i) \/ ReleaseItem(i) \/ CompleteItem(i)
SagaStep ==
  \E a \in Assignment :
    \/ \E m \in Member, i \in {0} \cup Item : Assign(a, m, i)
    \/ CreateChild(a) \/ BindChild(a) \/ PrepareChild(a) \/ PrepareOutside(a) \/ EndChild(a)
    \/ Observe(a)
WaveStep ==
  \/ \E r \in Run : StartSchedule(r) \/ Resume(r) \/ RequestCancel(r) \/ Recover(r)
  \/ Shutdown \/ WakeUp \/ Interrupt \/ Crash \/ Coordinate

Next == RosterStep \/ MailStep \/ WorkStep \/ SagaStep \/ CloseTeam \/ WaveStep

\* The thread of a coordinator goes on until it is interrupted: every wait in it is
\* bounded.
Spec == Init /\ [][Next]_vars /\ WF_vars(Coordinate)

-----------------------------------------------------------------------------
(* Properties.                                                              *)

TypeOK ==
  /\ members \in [Member -> MemberStatus] /\ changes \in 0..Size
  /\ messages \in [Message -> TeamMessage]
  /\ items \in [Item -> WorkItem]
  /\ assignments \in [Assignment -> TeamAssignment]
  /\ runs \in [Run -> Schedule]
  /\ closed \in BOOLEAN
  /\ child \in [Assignment -> ChildStatus] /\ outside \subseteq Assignment
  /\ cancelling \subseteq Message /\ raced \subseteq Message
  /\ coord \in Coordinator

\* An owner message is delivered at most once, to the member it names, and only
\* on the evidence of a completed Child that was given it and whose reply is
\* there: the attempts it is frozen for are never two, an attempt that failed
\* delivers nothing, and one that is observed as completed has delivered its
\* inbox, unless its Child was prepared outside of the Team and had none while it
\* ran (mailbox binding and observation in the replay, observe_terminal).
OneDelivery ==
  /\ \A k \in Message :
       LET holders == {a \in Made : /\ k \in assignments[a].inbox
                                    /\ a \in Pending \/ assignments[a].outcome = "completed"}
       IN  /\ \A a, b \in holders : a = b
           /\ messages[k].status = "delivered"
                <=> \E a \in holders : assignments[a].mail = "observed"
  /\ \A a \in Made :
       /\ \A k \in assignments[a].inbox : messages[k].to = assignments[a].member
       /\ assignments[a].mail = "observed" => child[a] = "completed" /\ assignments[a].reply # "none"
       /\ assignments[a].outcome = "completed" =>
            \/ assignments[a].mail = "observed"
            \/ a \in outside /\ assignments[a].mail \in {"none", "late"}
       /\ assignments[a].outcome = "failed" => assignments[a].reply = "none"

\* A work item is completed only by the attempt under review, whose Child has
\* completed; an item under way belongs to exactly one live attempt, no member
\* has two, and nothing was started before its dependencies were completed,
\* whoever dispatched it: the owner or a schedule wave that selected it earlier.
WorkEvidence ==
  /\ \A i \in Listed :
       LET a == items[i].current
       IN  /\ items[i].status = "assigned" => a \in Pending /\ assignments[a].item = i
           /\ items[i].status \in {"review", "completed"} =>
                a \in Made \ Pending /\ assignments[a].item = i
           /\ items[i].status = "completed" => child[a] = "completed"
           /\ a # 0 => \A d \in items[i].deps : items[d].status = "completed"
  /\ \A a, b \in Pending :
       a # b => /\ assignments[a].member # assignments[b].member
                /\ assignments[a].item = 0 \/ assignments[a].item # assignments[b].item

\* At most one wave is open.  One that has ended has observed every assignment
\* it dispatched, gains none afterwards and ends as cancelled exactly if that was
\* asked; a cancel request lets through at most one more round of dispatch; and
\* a closed Team has nothing under way (coordinator, recover, shutdown and the
\* owner all finish or close through the replay).
WavesSettled ==
  /\ \A r, s \in Run : Open(r) /\ Open(s) => r = s
  /\ \A r \in Run :
       /\ Cardinality(Of(r)) <= MaxAssignments
       /\ Terminal(r) => /\ AllObserved(r)
                         /\ runs[r].count = Cardinality(Of(r))
                         /\ runs[r].status = "cancelled" <=> Asked(r)
       /\ Asked(r) => Cardinality(Of(r)) <= runs[r].asked + MaxParallel
  /\ closed => /\ Pending = {} /\ \A r \in Run : ~Open(r)
               /\ \A k \in Message : messages[k].status # "pending"

\* Whatever step of its saga an assignment has reached when everything stops,
\* recovery can take it on: the Team is open, its member is still there, and the
\* messages frozen for it can still be delivered, or have been.  What is lost has
\* one of two causes: a message that was bound while a cancel of it was under way
\* may be lost to the cancel, and a Child that was prepared outside of the Team
\* answers no inbox.  Such an assignment, once its Child has completed, may never
\* be observed.
Recoverable ==
  \A a \in Pending :
    /\ ~closed /\ members[assignments[a].member] \in {"active", "disabled"}
    /\ assignments[a].phase = "child_bound" => child[a] # "absent"
    /\ assignments[a].mail = "none" /\ child[a] \in {"prepared", "completed"} => a \in outside
    /\ assignments[a].mail = "late" => a \in outside /\ child[a] = "completed"
    /\ assignments[a].mail = "bound" =>
         \A k \in assignments[a].inbox :
           messages[k].status = "pending" \/ (messages[k].status = "cancelled" /\ k \in raced)

\* A coordinator that a worker has taken or will take up gives its lease back in
\* the end, and so does one in the foreground that nobody interrupts: every round
\* of dispatch uses up assignments, and every wait, refused finish or failed step
\* leads out (run_started, TeamScheduleRun.finish).
AtWork == coord.pc \notin {"off", "held", "stranded"}
CoordinatorEnds == AtWork ~> At("off") \/ At("held")

\* A Child is to its Team the outcome it comes to.  ChildRun comes to the same
\* outcomes in the same order.
Seen(outcome) == CASE outcome = "new" -> "queued" [] outcome = "stopped" -> "failed"
                   [] OTHER -> outcome

Told(status) == CASE status \in {"absent", "queued"} -> "new" [] status = "failed" -> "stopped"
                  [] OTHER -> status

ChildRuns(a) == INSTANCE ChildOutcome WITH outcome <- Told(child[a])

TakesOutcomes ==
  /\ \A a \in Assignment : ChildRuns(a)!Init
  /\ [][\A a \in Assignment : [ChildRuns(a)!Next]_(Told(child[a]))]_vars
=============================================================================
