-------------------------- MODULE TeamBoardProofs --------------------------
(***************************************************************************)
(* Proofs about TeamBoard for any numbers of members, items, assignments,    *)
(* messages and waves, and any limits.                                      *)
(***************************************************************************)
EXTENDS TeamBoard, FiniteSetTheorems, TLAPS

\* An attempt that may still deliver, or has delivered, what it was given.
Live(a) == a \in Made /\ (a \in Pending \/ assignments[a].outcome = "completed")

\* How far an assignment is in its own ledger and in that of its Child.
Sagas ==
  \A a \in Assignment :
    /\ assignments[a].phase = "absent" => child[a] = "absent"
    /\ assignments[a].phase # "absent" => assignments[a].member \in Member
    /\ assignments[a].phase \in {"child_bound", "terminal_observed"} => child[a] # "absent"
    /\ assignments[a].phase = "terminal_observed" => assignments[a].outcome = child[a]
    /\ assignments[a].phase # "terminal_observed" => assignments[a].outcome = "none"
    /\ assignments[a].mail = "none" =>
         /\ assignments[a].inbox = {}
         /\ child[a] \in {"prepared", "completed"} => a \in outside
    /\ assignments[a].mail = "late" => child[a] = "completed" /\ a \in outside
    /\ assignments[a].mail # "none" => assignments[a].phase \in {"child_bound", "terminal_observed"}
    /\ assignments[a].reply # "none" => child[a] = "completed" /\ a \notin outside
    /\ assignments[a].mail = "observed" => assignments[a].reply # "none"
    /\ assignments[a].outcome = "completed" => assignments[a].mail # "bound"

Mail ==
  /\ \A a \in Assignment : \A k \in assignments[a].inbox :
       messages[k].status # "absent" /\ messages[k].to = assignments[a].member
  /\ \A a, b \in Assignment : Live(a) /\ Live(b) /\ a # b =>
       assignments[a].inbox \cap assignments[b].inbox = {}
  /\ \A a \in Assignment : assignments[a].mail = "observed" =>
       \A k \in assignments[a].inbox : messages[k].status = "delivered"
  /\ \A k \in Message : messages[k].status = "delivered" =>
       \E a \in Assignment : Live(a) /\ k \in assignments[a].inbox /\ assignments[a].mail = "observed"

\* An item and its attempt name each other while the attempt is pending.
Work ==
  /\ \A i \in Item :
       /\ items[i].status = "assigned" =>
            items[i].current \in Pending /\ assignments[items[i].current].item = i
       /\ items[i].status \in {"review", "completed"} =>
            items[i].current \in Made \ Pending /\ assignments[items[i].current].item = i
       /\ items[i].status = "completed" => assignments[items[i].current].outcome = "completed"
       /\ items[i].status # "absent" /\ items[i].current # 0 =>
            \A d \in items[i].deps : items[d].status = "completed"
  /\ \A a \in Pending : assignments[a].item # 0 =>
       /\ items[assignments[a].item].status = "assigned"
       /\ items[assignments[a].item].current = a
  /\ \A a, b \in Pending : a # b => assignments[a].member # assignments[b].member

\* What the coordinator of a wave will have dispatched when its round is over:
\* Of(run) \ active was there when the round began and was not asked yet.
Round ==
  /\ coord.pc \notin {"off", "held"} => coord.run \in Run
  /\ coord.pc \in {"dispatch", "create", "admit"} => coord.active \subseteq Of(coord.run)
  /\ coord.pc \in {"dispatch", "create"} /\ Asked(coord.run) =>
       Cardinality(Of(coord.run) \ coord.active) <= runs[coord.run].asked
  /\ coord.pc = "create" =>
       /\ Cardinality(coord.active) < MaxParallel
       /\ coord.item \in Item /\ coord.member \in Member
  /\ coord.pc = "admit" => coord.new \in Of(coord.run)
  /\ coord.pc = "admit" /\ Asked(coord.run) =>
       Cardinality(Of(coord.run) \ (coord.active \cup {coord.new})) <= runs[coord.run].asked

\* A message that is being cancelled while it is frozen in a live inbox was
\* bound after the caller had found it free.
Races ==
  \A a \in Pending : assignments[a].mail = "bound" =>
    assignments[a].inbox \cap cancelling \subseteq raced

IndInv == TypeOK /\ Sagas /\ Mail /\ Work /\ WavesSettled /\ Round /\ Recoverable /\ Races

-----------------------------------------------------------------------------
(* Numbers of finite sets.                                                  *)

LEMMA Finite ==
  ASSUME NEW N \in Nat, NEW S \in SUBSET (1..N)
  PROVE  IsFiniteSet(S) /\ Cardinality(S) \in Nat
<1>1. IsFiniteSet(1..N)
  BY FS_Interval
<1>2. IsFiniteSet(S)
  BY <1>1, FS_Subset
<1>3. QED
  BY <1>2, FS_CardinalityType

LEMMA OfFinite ==
  ASSUME NEW r
  PROVE  IsFiniteSet(Of(r)) /\ Cardinality(Of(r)) \in Nat
<1>1. Of(r) \in SUBSET (1..Assignments)
  BY DEF Of, Made, Assignment
<1>2. QED
  BY <1>1, Finite, BoardAssumption

LEMMA Smaller ==
  ASSUME NEW S, IsFiniteSet(S), NEW T, T \subseteq S
  PROVE  IsFiniteSet(T) /\ Cardinality(T) \in Nat /\ Cardinality(T) <= Cardinality(S)
BY FS_Subset, FS_CardinalityType

LEMMA RosterBound ==
  ASSUME TypeOK, Fits
  PROVE  changes + 1 \in 0..Size
<1>1. /\ Sent \in SUBSET (1..Messages) /\ Listed \in SUBSET (1..Items)
      /\ Made \in SUBSET (1..Assignments) /\ Started \in SUBSET (1..Runs)
  BY DEF Sent, Listed, Made, Started, Message, Item, Assignment, Run
<1>2. /\ Cardinality(Sent) \in Nat /\ Cardinality(Listed) \in Nat
      /\ Cardinality(Made) \in Nat /\ Cardinality(Started) \in Nat
  BY <1>1, Finite, BoardAssumption
<1>3. changes \in Nat /\ Size \in Nat
  BY BoardAssumption DEF TypeOK
<1>4. QED
  BY <1>2, <1>3 DEF Fits

(* What a part of the invariant does not read may change.                    *)

LEMMA SagasFrame ==
  ASSUME Sagas, UNCHANGED <<assignments, child, outside>>
  PROVE  Sagas'
BY DEF Sagas

LEMMA MailFrame ==
  ASSUME Mail, UNCHANGED <<assignments, messages>>
  PROVE  Mail'
BY DEF Mail, Live, Made, Pending

LEMMA WorkFrame ==
  ASSUME Work, UNCHANGED <<assignments, items>>
  PROVE  Work'
BY DEF Work, Made, Pending

LEMMA WavesFrame ==
  ASSUME WavesSettled, UNCHANGED <<assignments, runs, closed, messages>>
  PROVE  WavesSettled'
BY DEF WavesSettled, Open, Terminal, AllObserved, Of, Pending, Made, Asked

LEMMA RoundFrame ==
  ASSUME Round, UNCHANGED <<assignments, runs, coord>>
  PROVE  Round'
BY DEF Round, Of, Made, Asked

LEMMA RecoverableFrame ==
  ASSUME Recoverable, UNCHANGED <<assignments, closed, members, child, outside, messages, raced>>
  PROVE  Recoverable'
BY DEF Recoverable, Pending, Made

LEMMA RacesFrame ==
  ASSUME Races, UNCHANGED <<assignments, cancelling, raced>>
  PROVE  Races'
BY DEF Races, Pending, Made

-----------------------------------------------------------------------------
(* The roster.                                                              *)

LEMMA ChangeStep ==
  ASSUME IndInv, NEW m \in Member, NEW status \in {"active", "disabled", "left"},
         Change(m, status), status = "left" => m \notin Busy
  PROVE  IndInv'
<1> USE DEF IndInv, Change, callers, children
<1>1. TypeOK'
  BY RosterBound DEF TypeOK, MemberStatus
<1>2. Recoverable'
  BY DEF Recoverable, Pending, Made, Busy, TypeOK
<1>3. QED
  BY <1>1, <1>2, SagasFrame, MailFrame, WorkFrame, WavesFrame, RoundFrame, RacesFrame

LEMMA RosterKeeps ==
  ASSUME IndInv, RosterStep
  PROVE  IndInv'
<1>1. PICK m \in Member : Join(m) \/ Disable(m) \/ Enable(m) \/ Leave(m)
  BY DEF RosterStep
<1>2. QED
  BY <1>1, ChangeStep DEF Join, Disable, Enable, Leave

-----------------------------------------------------------------------------
(* The mailbox.                                                             *)

LEMMA SendStep ==
  ASSUME IndInv, NEW k \in Message, NEW m \in Member, Send(k, m)
  PROVE  IndInv'
<1> USE DEF IndInv, Send, callers, children, roster
<1>a. /\ messages[k].status = "absent" /\ messages'[k].status = "pending"
      /\ \A n \in Message : n # k => messages'[n] = messages[n]
  BY DEF TypeOK, IsNext, Sent
<1>1. TypeOK'
  BY DEF TypeOK, TeamMessage
<1>2. Mail'
  BY <1>a DEF Mail, Live, Made, Pending, TypeOK, TeamAssignment
<1>3. WavesSettled'
  BY DEF WavesSettled, Open, Terminal, AllObserved, Of, Pending, Made, Asked
<1>4. Recoverable'
  BY <1>a DEF Recoverable, Pending, Made, TypeOK, TeamAssignment
<1>5. QED
  BY <1>1, <1>2, <1>3, <1>4, SagasFrame, WorkFrame, RoundFrame, RacesFrame

LEMMA CheckCancelStep ==
  ASSUME IndInv, NEW k \in Message, CheckCancel(k)
  PROVE  IndInv'
<1> USE DEF IndInv, CheckCancel, ledger, children, roster
<1>1. TypeOK'
  BY DEF TypeOK
<1>2. Races'
  BY DEF Races, Pending, Made
<1>3. QED
  BY <1>1, <1>2, SagasFrame, MailFrame, WorkFrame, WavesFrame, RoundFrame, RecoverableFrame

LEMMA CancelMessageStep ==
  ASSUME IndInv, NEW k \in Message, CancelMessage(k)
  PROVE  IndInv'
<1> USE DEF IndInv, CancelMessage, roster, children
<1>a. /\ messages[k].status = "pending" /\ messages'[k].status = "cancelled"
      /\ messages'[k].to = messages[k].to
      /\ \A n \in Message : n # k => messages'[n] = messages[n]
  BY DEF TypeOK, TeamMessage
<1>1. TypeOK'
  BY DEF TypeOK, TeamMessage
<1>2. Mail'
  BY <1>a DEF Mail, Live, Made, Pending, TypeOK, TeamAssignment
<1>3. WavesSettled'
  BY DEF WavesSettled, Open, Terminal, AllObserved, Of, Pending, Made, Asked
<1>4. Recoverable'
  BY <1>a DEF Recoverable, Races, Pending, Made, TypeOK, TeamAssignment
<1>5. Races'
  BY DEF Races, Pending, Made
<1>6. QED
  BY <1>1, <1>2, <1>3, <1>4, <1>5, SagasFrame, WorkFrame, RoundFrame

-----------------------------------------------------------------------------
(* The work board.                                                          *)

LEMMA CreateItemStep ==
  ASSUME IndInv, NEW i \in Item, NEW deps \in SUBSET Item, CreateItem(i, deps)
  PROVE  IndInv'
<1> USE DEF IndInv, CreateItem, callers, children, roster
<1>a. /\ items[i].status = "absent" /\ items'[i].status = "ready" /\ items'[i].current = 0
      /\ \A j \in Item : j # i => items'[j] = items[j]
  BY DEF TypeOK, IsNext, Listed
<1>1. TypeOK'
  BY DEF TypeOK, WorkItem
<1>2. Work'
  BY <1>a DEF Work, Pending, Made, TypeOK, WorkItem, TeamAssignment
<1>3. QED
  BY <1>1, <1>2, SagasFrame, MailFrame, WavesFrame, RoundFrame, RecoverableFrame, RacesFrame

LEMMA CancelItemStep ==
  ASSUME IndInv, NEW i \in Item, CancelItem(i)
  PROVE  IndInv'
<1> USE DEF IndInv, CancelItem, callers, children, roster
<1>a. /\ items[i].status \in {"ready", "review"} /\ items'[i].status = "cancelled"
      /\ items'[i].current = items[i].current /\ items'[i].deps = items[i].deps
      /\ \A j \in Item : j # i => items'[j] = items[j]
  BY DEF TypeOK, WorkItem
<1>1. TypeOK'
  BY DEF TypeOK, WorkItem
<1>2. Work'
  BY <1>a DEF Work, Pending, Made, TypeOK, WorkItem, TeamAssignment
<1>3. QED
  BY <1>1, <1>2, SagasFrame, MailFrame, WavesFrame, RoundFrame, RecoverableFrame, RacesFrame

LEMMA ReleaseItemStep ==
  ASSUME IndInv, NEW i \in Item, ReleaseItem(i)
  PROVE  IndInv'
<1> USE DEF IndInv, ReleaseItem, callers, children, roster
<1>a. /\ items[i].status = "review" /\ items'[i].status = "ready" /\ items'[i].current = 0
      /\ \A j \in Item : j # i => items'[j] = items[j]
  BY DEF TypeOK, WorkItem
<1>t. /\ items[i] \in WorkItem
      /\ items' = [items EXCEPT ![i] = [items[i] EXCEPT !.status = "ready", !.current = 0]]
  BY DEF TypeOK
<1>1. TypeOK'
  <2>1. [items[i] EXCEPT !.status = "ready", !.current = 0] \in WorkItem
    BY <1>t DEF WorkItem
  <2>2. QED
    BY <1>t, <2>1 DEF TypeOK
<1>2. Work'
  BY <1>a DEF Work, Pending, Made, TypeOK, WorkItem, TeamAssignment
<1>3. QED
  BY <1>1, <1>2, SagasFrame, MailFrame, WavesFrame, RoundFrame, RecoverableFrame, RacesFrame

LEMMA CompleteItemStep ==
  ASSUME IndInv, NEW i \in Item, CompleteItem(i)
  PROVE  IndInv'
<1> USE DEF IndInv, CompleteItem, callers, children, roster
<1>a. /\ items[i].status = "review" /\ items'[i].status = "completed"
      /\ assignments[items[i].current].outcome = "completed"
      /\ items'[i].current = items[i].current /\ items'[i].deps = items[i].deps
      /\ \A j \in Item : j # i => items'[j] = items[j]
  BY DEF TypeOK, WorkItem
<1>1. TypeOK'
  BY DEF TypeOK, WorkItem
<1>2. Work'
  BY <1>a DEF Work, Pending, Made, TypeOK, WorkItem, TeamAssignment
<1>3. QED
  BY <1>1, <1>2, SagasFrame, MailFrame, WavesFrame, RoundFrame, RecoverableFrame, RacesFrame

LEMMA WorkKeeps ==
  ASSUME IndInv, WorkStep
  PROVE  IndInv'
<1>1. PICK i \in Item : \/ \E deps \in SUBSET Item : CreateItem(i, deps)
                        \/ CancelItem(i) \/ ReleaseItem(i) \/ CompleteItem(i)
  BY DEF WorkStep
<1>2. QED
  BY <1>1, CreateItemStep, CancelItemStep, ReleaseItemStep, CompleteItemStep

-----------------------------------------------------------------------------
(* The inbox, the reply and the delivery of an assignment.                   *)

\* No assignment is made or observed, and what its item and its wave know of it
\* stays the same.
SamePhases ==
  \A a \in Assignment :
    /\ assignments'[a].phase = "absent" <=> assignments[a].phase = "absent"
    /\ assignments'[a].phase = "terminal_observed" <=> assignments[a].phase = "terminal_observed"
    /\ assignments'[a].member = assignments[a].member
    /\ assignments'[a].item = assignments[a].item
    /\ assignments'[a].run = assignments[a].run
    /\ assignments'[a].outcome = assignments[a].outcome

LEMMA SamePhasesKeep ==
  ASSUME SamePhases, TypeOK
  PROVE  /\ Made' = Made /\ Pending' = Pending /\ \A r : Of(r)' = Of(r)
         /\ \A a : Live(a)' = Live(a)
         /\ Work /\ UNCHANGED items => Work'
         /\ Round /\ UNCHANGED <<runs, coord>> => Round'
         /\ WavesSettled /\ UNCHANGED <<runs, closed>>
              /\ (\A k \in Message : messages'[k].status = "pending" => messages[k].status = "pending")
              => WavesSettled'
<1>1. Made' = Made /\ Pending' = Pending
  BY DEF Made, Pending, SamePhases
<1>2. \A r : Of(r)' = Of(r)
  BY <1>1 DEF Of, SamePhases, Made
<1>3. \A a : Live(a)' = Live(a)
  BY <1>1 DEF Live, Made, SamePhases
<1>4. Work /\ UNCHANGED items => Work'
  BY <1>1 DEF Work, SamePhases, Made, Pending
<1>5. Round /\ UNCHANGED <<runs, coord>> => Round'
  BY <1>2 DEF Round, Asked
<1>6. ASSUME WavesSettled, UNCHANGED <<runs, closed>>,
             \A k \in Message : messages'[k].status = "pending" => messages[k].status = "pending"
      PROVE  WavesSettled'
  BY <1>1, <1>2, <1>6 DEF WavesSettled, Open, Terminal, AllObserved, Asked
<1>7. QED
  BY <1>1, <1>2, <1>3, <1>4, <1>5, <1>6

LEMMA BindInboxStep ==
  ASSUME IndInv, NEW a \in Assignment, NEW last \in 0..Messages, BindInbox(a, last)
  PROVE  IndInv'
<1> DEFINE free == {k \in Sent : /\ messages[k].status = "pending" /\ k \notin Bound
                                 /\ messages[k].to = assignments[a].member}
           inbox == Oldest({k \in free : k <= last})
           mail == IF child[a] = "completed" THEN "late" ELSE "bound"
<1> USE DEF IndInv, roster
<1>b. /\ assignments[a].phase = "child_bound" /\ assignments[a].mail = "none"
      /\ assignments' = [assignments EXCEPT ![a].mail = mail, ![a].inbox = inbox]
      /\ raced' = raced \cup (inbox \cap cancelling)
      /\ UNCHANGED <<roster, messages, items, runs, closed, child, outside, cancelling, coord>>
  BY DEF BindInbox, children
<1>u. /\ assignments[a].phase = "child_bound" /\ assignments[a].mail = "none"
      /\ raced' = raced \cup (inbox \cap cancelling)
      /\ UNCHANGED <<members, changes, messages, items, runs, closed, child, outside, cancelling, coord>>
  BY <1>b
<1>c. \A k \in inbox : /\ k \in Message /\ messages[k].status = "pending" /\ k \notin Bound
                       /\ messages[k].to = assignments[a].member
  BY DEF Oldest, Sent
<1>d. \/ mail = "late" /\ child[a] = "completed" /\ a \in outside
      \/ mail = "bound" /\ child[a] # "completed"
  BY <1>u DEF Sagas
<1> HIDE DEF inbox, mail
<1> DEFINE new == [assignments[a] EXCEPT !.mail = mail, !.inbox = inbox]
<1>n. assignments[a] \in TeamAssignment /\ inbox \subseteq Message
  BY <1>c DEF TypeOK
<1>e. assignments' = [assignments EXCEPT ![a] = new]
  BY <1>b, <1>n
<1>f. /\ new \in TeamAssignment /\ new.mail = mail /\ new.inbox = inbox
      /\ new.reply = assignments[a].reply /\ new.phase = assignments[a].phase
      /\ new.member = assignments[a].member /\ new.item = assignments[a].item
      /\ new.run = assignments[a].run /\ new.outcome = assignments[a].outcome
  BY <1>d, <1>n DEF TeamAssignment
<1> HIDE DEF new
<1>a. /\ assignments' \in [Assignment -> TeamAssignment]
      /\ assignments'[a] = new
      /\ assignments'[a].mail = mail /\ assignments'[a].inbox = inbox
      /\ assignments'[a].reply = assignments[a].reply
      /\ \A b \in Assignment : b # a => assignments'[b] = assignments[b]
  BY <1>e, <1>f DEF TypeOK
<1>p. \A b \in Assignment : assignments'[b].phase = assignments[b].phase
  BY <1>a, <1>f
<1>s. SamePhases
  BY <1>a, <1>f, <1>p DEF SamePhases
<1>1. TypeOK'
  BY <1>a, <1>u, <1>c DEF TypeOK
<1>2. Sagas'
  BY <1>a, <1>d, <1>u, <1>s, <1>p DEF Sagas, SamePhases
<1>3. Mail'
  <2>1. \A b \in Assignment : Live(b) => assignments[b].inbox \cap inbox = {}
    BY <1>c DEF Bound, Live
  <2>2. QED
    BY <1>a, <1>d, <1>u, <1>c, <1>s, <2>1, SamePhasesKeep DEF Mail, SamePhases, Sagas
<1>4. Recoverable'
  BY <1>a, <1>d, <1>u, <1>c, <1>s, <1>p, SamePhasesKeep DEF Recoverable, SamePhases, Pending, Made, Sagas
<1>5. Races'
  BY <1>a, <1>d, <1>u, <1>c, <1>s, SamePhasesKeep DEF Races, Pending, Made
<1>6. QED
  BY <1>1, <1>2, <1>3, <1>4, <1>5, <1>u, <1>s, SamePhasesKeep

\* The two changes of a reply.
Replied(a, reply) ==
  /\ assignments' = [assignments EXCEPT ![a].reply = reply]
  /\ UNCHANGED <<roster, messages, items, runs, closed, children, callers, coord>>

LEMMA RepliedStep ==
  ASSUME IndInv, NEW a \in Assignment, NEW reply \in {"unread", "read"}, Replied(a, reply),
         child[a] = "completed", a \notin outside
  PROVE  IndInv'
<1> USE DEF IndInv, roster, callers, children, Replied
<1>a. /\ assignments'[a] = [assignments[a] EXCEPT !.reply = reply]
      /\ assignments'[a] \in TeamAssignment
      /\ assignments'[a].mail = assignments[a].mail /\ assignments'[a].inbox = assignments[a].inbox
      /\ assignments'[a].reply = reply
      /\ \A b \in Assignment : b # a => assignments'[b] = assignments[b]
  BY DEF TypeOK, TeamAssignment
<1>p. \A b \in Assignment : assignments'[b].phase = assignments[b].phase
  BY <1>a DEF TypeOK, TeamAssignment
<1>s. SamePhases
  BY <1>a, <1>p DEF SamePhases, TypeOK, TeamAssignment
<1>1. TypeOK'
  BY <1>a DEF TypeOK
<1>2. Sagas'
  BY <1>a, <1>s, <1>p DEF Sagas, SamePhases
<1>3. Mail'
  BY <1>a, <1>s, SamePhasesKeep DEF Mail, SamePhases
<1>4. Recoverable'
  BY <1>a, <1>s, <1>p, SamePhasesKeep DEF Recoverable, SamePhases, Pending, Made
<1>5. Races'
  BY <1>a, <1>s, SamePhasesKeep DEF Races, Pending, Made
<1>6. QED
  BY <1>1, <1>2, <1>3, <1>4, <1>5, <1>s, SamePhasesKeep

LEMMA ReplySteps ==
  ASSUME IndInv, NEW a \in Assignment, SendReply(a) \/ ReadReply(a)
  PROVE  IndInv'
<1>1. CASE SendReply(a)
  BY <1>1, RepliedStep DEF SendReply, Replied
<1>2. CASE ReadReply(a)
  BY <1>2, RepliedStep DEF ReadReply, Replied, IndInv, Sagas
<1>3. QED
  BY <1>1, <1>2

LEMMA ObserveMailStep ==
  ASSUME IndInv, NEW a \in Assignment, ObserveMail(a)
  PROVE  IndInv'
<1> USE DEF IndInv, roster, callers, children, ObserveMail
<1>a. /\ assignments'[a] = [assignments[a] EXCEPT !.mail = "observed"]
      /\ assignments'[a] \in TeamAssignment
      /\ assignments'[a].mail = "observed" /\ assignments'[a].inbox = assignments[a].inbox
      /\ assignments'[a].reply = assignments[a].reply
      /\ \A b \in Assignment : b # a => assignments'[b] = assignments[b]
  BY DEF TypeOK, TeamAssignment
<1>m. /\ \A k \in assignments[a].inbox : k \in Message /\ messages'[k].status = "delivered"
                                         /\ messages'[k].to = messages[k].to
      /\ \A k \in Message : k \notin assignments[a].inbox => messages'[k] = messages[k]
      /\ messages' \in [Message -> TeamMessage]
  BY DEF TypeOK, TeamMessage, TeamAssignment
<1>p. \A b \in Assignment : assignments'[b].phase = assignments[b].phase
  BY <1>a DEF TypeOK, TeamAssignment
<1>s. SamePhases
  BY <1>a, <1>p DEF SamePhases, TypeOK, TeamAssignment
<1>l. Live(a)
  BY DEF Live, Sagas, Made, Pending, TypeOK, TeamAssignment
<1>1. TypeOK'
  BY <1>a, <1>m DEF TypeOK
<1>2. Sagas'
  BY <1>a, <1>s, <1>p DEF Sagas, SamePhases
<1>3. Mail'
  BY <1>a, <1>m, <1>s, <1>l, SamePhasesKeep DEF Mail, SamePhases, TypeOK, TeamAssignment
<1>4. Recoverable'
  <2>1. \A b \in Pending : b # a => assignments[b].inbox \cap assignments[a].inbox = {}
    BY <1>l DEF Mail, Live, Pending, Made
  <2>2. QED
    BY <1>a, <1>m, <1>s, <1>p, <2>1, SamePhasesKeep
      DEF Recoverable, SamePhases, Pending, Made, TypeOK, TeamAssignment
<1>5. Races'
  BY <1>a, <1>s, SamePhasesKeep DEF Races, Pending, Made
<1>6. \A k \in Message : messages'[k].status = "pending" => messages[k].status = "pending"
  BY <1>m
<1>7. QED
  BY <1>1, <1>2, <1>3, <1>4, <1>5, <1>6, <1>s, SamePhasesKeep

LEMMA MailKeeps ==
  ASSUME IndInv, MailStep
  PROVE  IndInv'
<1>1. CASE \E k \in Message : CheckCancel(k) \/ CancelMessage(k) \/ \E m \in Member : Send(k, m)
  BY <1>1, CheckCancelStep, CancelMessageStep, SendStep
<1>2. CASE \E a \in Assignment : \/ SendReply(a) \/ ObserveMail(a) \/ ReadReply(a)
                                 \/ \E last \in 0..Messages : BindInbox(a, last)
  BY <1>2, ReplySteps, ObserveMailStep, BindInboxStep
<1>3. QED
  BY <1>1, <1>2 DEF MailStep

-----------------------------------------------------------------------------
(* The saga of one assignment.                                              *)

LEMMA CreateKeeps ==
  ASSUME IndInv, NEW a \in Assignment, NEW m \in Member, NEW i \in {0} \cup Item,
         NEW r \in {0} \cup Run, Create(a, m, i, r),
         UNCHANGED <<roster, messages, runs, closed, children, callers>>,
         r # 0 /\ Asked(r) => Cardinality(Of(r)) < runs[r].asked + MaxParallel
  PROVE  /\ assignments' \in [Assignment -> TeamAssignment] /\ items' \in [Item -> WorkItem]
         /\ Sagas' /\ Mail' /\ Work' /\ WavesSettled' /\ Recoverable' /\ Races'
         /\ \A s \in Run : Of(s)' = IF s = r THEN Of(s) \cup {a} ELSE Of(s)
         /\ a \notin Of(r)
<1> USE DEF IndInv, roster, callers, children
<1>n. /\ NewAssignment(m, i, r) \in TeamAssignment
      /\ NewAssignment(m, i, r).phase = "pending_child" /\ NewAssignment(m, i, r).member = m
      /\ NewAssignment(m, i, r).item = i /\ NewAssignment(m, i, r).run = r
      /\ NewAssignment(m, i, r).outcome = "none" /\ NewAssignment(m, i, r).mail = "none"
      /\ NewAssignment(m, i, r).inbox = {} /\ NewAssignment(m, i, r).reply = "none"
  BY DEF NewAssignment, TeamAssignment
<1>g. /\ a \notin Made /\ assignments[a].phase = "absent"
      /\ ~closed /\ members[m] = "active" /\ m \notin Busy
      /\ i # 0 => Ready(i)
      /\ r # 0 => Open(r) /\ Cardinality(Of(r)) < MaxAssignments
      /\ assignments' = [assignments EXCEPT ![a] = NewAssignment(m, i, r)]
      /\ items' = IF i = 0 THEN items
                  ELSE [items EXCEPT ![i].status = "assigned", ![i].current = a]
  BY DEF Create, IsNext, Admissible, Free, Made
<1>a. /\ assignments' \in [Assignment -> TeamAssignment]
      /\ assignments'[a] = NewAssignment(m, i, r)
      /\ \A b \in Assignment : b # a => assignments'[b] = assignments[b]
  BY <1>g, <1>n DEF TypeOK
<1>i. /\ items' \in [Item -> WorkItem]
      /\ i # 0 => /\ items'[i].status = "assigned" /\ items'[i].current = a
                  /\ items'[i].deps = items[i].deps
      /\ \A j \in Item : j # i => items'[j] = items[j]
  <2>1. CASE i = 0
    BY <1>g, <2>1 DEF TypeOK, Item
  <2>2. CASE i # 0
    <3> DEFINE new == [items[i] EXCEPT !.status = "assigned", !.current = a]
    <3>1. items[i] \in WorkItem /\ i \in Item
      BY <2>2 DEF TypeOK
    <3>2. items' = [items EXCEPT ![i] = new]
      BY <1>g, <2>2, <3>1
    <3>3. new \in WorkItem /\ new.status = "assigned" /\ new.current = a /\ new.deps = items[i].deps
      BY <3>1 DEF WorkItem
    <3> HIDE DEF new
    <3>4. QED
      BY <3>1, <3>2, <3>3 DEF TypeOK
  <2>3. QED
    BY <2>1, <2>2
<1>p. /\ Made' = Made \cup {a} /\ Pending' = Pending \cup {a} /\ a \notin Pending
      /\ \A b \in Assignment : b # a => Live(b)' = Live(b)
  BY <1>a, <1>g, <1>n DEF Made, Pending, Live
<1>o. /\ \A s \in Run : Of(s)' = IF s = r THEN Of(s) \cup {a} ELSE Of(s)
      /\ \A s : a \notin Of(s)
  BY <1>a, <1>g, <1>n, <1>p DEF Of, Made
<1>2. Sagas'
  BY <1>a, <1>g, <1>n DEF Sagas
<1>3. Mail'
  BY <1>a, <1>g, <1>n, <1>p DEF Mail, Sagas
<1>4. Work'
  <2>1. \A j \in Item :
          /\ items'[j].status = "assigned" =>
               items'[j].current \in Pending' /\ assignments'[items'[j].current].item = j
          /\ items'[j].status \in {"review", "completed"} =>
               items'[j].current \in Made' \ Pending' /\ assignments'[items'[j].current].item = j
          /\ items'[j].status = "completed" => assignments'[items'[j].current].outcome = "completed"
    BY <1>a, <1>g, <1>i, <1>n, <1>p DEF Work, Made, Pending
  <2>2. \A j \in Item : items'[j].status # "absent" /\ items'[j].current # 0 =>
          \A d \in items'[j].deps : items'[d].status = "completed"
    BY <1>g, <1>i DEF Work, Ready, TypeOK, WorkItem
  <2>3. \A b \in Pending' : assignments'[b].item # 0 =>
          /\ items'[assignments'[b].item].status = "assigned"
          /\ items'[assignments'[b].item].current = b
    BY <1>a, <1>g, <1>i, <1>n, <1>p DEF Work, Ready, TypeOK, TeamAssignment, Made, Pending
  <2>4. \A b, c \in Pending' : b # c => assignments'[b].member # assignments'[c].member
    BY <1>a, <1>g, <1>n, <1>p DEF Work, Busy, Made, Pending
  <2>5. QED
    BY <2>1, <2>2, <2>3, <2>4 DEF Work
<1>5. WavesSettled'
  <2>1. \A s \in Run : s # r => Of(s)' = Of(s) /\ (AllObserved(s) => AllObserved(s)')
    BY <1>o, <1>p DEF AllObserved
  <2>2. r # 0 => /\ Cardinality(Of(r)') <= MaxAssignments
                 /\ Asked(r) => Cardinality(Of(r)') <= runs[r].asked + MaxParallel
    <3>1. SUFFICES ASSUME r # 0 PROVE /\ Cardinality(Of(r)') <= MaxAssignments
                                      /\ Asked(r) => Cardinality(Of(r)') <= runs[r].asked + MaxParallel
      OBVIOUS
    <3>2. Cardinality(Of(r) \cup {a}) = Cardinality(Of(r)) + 1 /\ Cardinality(Of(r)) \in Nat
      BY <1>o, OfFinite, FS_AddElement
    <3>3. Asked(r) => runs[r].asked \in Nat
      BY <3>1 DEF Asked, TypeOK, Schedule
    <3>4. Of(r)' = Of(r) \cup {a}
      BY <1>o, <3>1
    <3>5. Cardinality(Of(r)) < MaxAssignments
      BY <1>g, <3>1
    <3>6. QED
      BY <3>1, <3>2, <3>3, <3>4, <3>5, BoardAssumption
  <2>3. \A s \in Run : /\ Open(s)' = Open(s) /\ Terminal(s)' = Terminal(s) /\ Asked(s)' = Asked(s)
                      /\ runs'[s] = runs[s]
    BY DEF Open, Terminal, Asked
  <2>4. r # 0 => r \in Run /\ ~Terminal(r)
    BY <1>g DEF Open, Terminal, Outcome
  <2>5. ASSUME NEW s \in Run
        PROVE  /\ Cardinality(Of(s)') <= MaxAssignments
               /\ Terminal(s)' => /\ AllObserved(s)'
                                  /\ runs'[s].count = Cardinality(Of(s)')
                                  /\ runs'[s].status = "cancelled" <=> Asked(s)'
               /\ Asked(s)' => Cardinality(Of(s)') <= runs'[s].asked + MaxParallel
    <3>1. CASE s = r
      BY <2>2, <2>3, <2>4, <3>1 DEF Run
    <3>2. CASE s # r
      BY <2>1, <2>3, <3>2 DEF WavesSettled
    <3>3. QED
      BY <3>1, <3>2
  <2>6. ~closed'
    BY <1>g
  <2>7. QED
    BY <2>3, <2>5, <2>6 DEF WavesSettled
<1>6. Recoverable'
  BY <1>a, <1>g, <1>n, <1>p DEF Recoverable, Pending, Made, Sagas
<1>7. Races'
  BY <1>a, <1>g, <1>n, <1>p DEF Races, Pending, Made
<1>8. QED
  BY <1>a, <1>i, <1>o, <1>2, <1>3, <1>4, <1>5, <1>6, <1>7

LEMMA AssignStep ==
  ASSUME IndInv, NEW a \in Assignment, NEW m \in Member, NEW i \in {0} \cup Item, Assign(a, m, i)
  PROVE  IndInv'
<1> USE DEF IndInv
<1>1. /\ Create(a, m, i, 0)
      /\ UNCHANGED <<roster, messages, runs, closed, children, callers, coord>>
  BY DEF Assign
<1>2. /\ assignments' \in [Assignment -> TeamAssignment] /\ items' \in [Item -> WorkItem]
      /\ Sagas' /\ Mail' /\ Work' /\ WavesSettled' /\ Recoverable' /\ Races'
      /\ \A s \in Run : Of(s)' = Of(s)
  BY <1>1, CreateKeeps DEF Run
<1>3. TypeOK'
  BY <1>1, <1>2 DEF TypeOK, roster, callers, children
<1>4. Round'
  BY <1>1, <1>2 DEF Round, Asked
<1>5. QED
  BY <1>2, <1>3, <1>4

\* The Child of an assignment comes to life, is prepared or ends.
Moved(a, status) ==
  /\ child' = [child EXCEPT ![a] = status]
  /\ outside' \in SUBSET Assignment /\ outside' \ {a} = outside \ {a}
  /\ UNCHANGED <<ledger, callers, coord>>

LEMMA MovedStep ==
  ASSUME IndInv, NEW a \in Assignment, NEW status \in ChildStatus \ {"absent"}, Moved(a, status),
         assignments[a].phase \in {"pending_child", "child_bound"}, child[a] # "completed",
         status \in {"prepared", "completed"} /\ assignments[a].mail = "none" => a \in outside'
  PROVE  IndInv'
<1> USE DEF IndInv, Moved, ledger, roster, callers
<1>a. /\ child'[a] = status /\ child' \in [Assignment -> ChildStatus]
      /\ \A b \in Assignment : b # a => child'[b] = child[b] /\ (b \in outside' <=> b \in outside)
  BY DEF TypeOK
<1>b. assignments[a].mail # "late" /\ assignments[a].reply = "none"
  BY DEF Sagas
<1>1. TypeOK'
  BY <1>a DEF TypeOK
<1>2. Sagas'
  BY <1>a, <1>b DEF Sagas
<1>3. Recoverable'
  BY <1>a, <1>b DEF Recoverable, Pending, Made
<1>4. QED
  BY <1>1, <1>2, <1>3, MailFrame, WorkFrame, WavesFrame, RoundFrame, RacesFrame

LEMMA ChildSteps ==
  ASSUME IndInv, NEW a \in Assignment,
         CreateChild(a) \/ PrepareChild(a) \/ PrepareOutside(a) \/ EndChild(a)
  PROVE  IndInv'
<1>p. assignments[a].phase \in {"absent", "pending_child", "child_bound", "terminal_observed"}
  BY DEF IndInv, TypeOK, TeamAssignment
<1>o. outside \in SUBSET Assignment
  BY DEF IndInv, TypeOK
<1>s. {"queued", "prepared", "completed", "failed"} \subseteq ChildStatus \ {"absent"}
  BY DEF ChildStatus
<1>l. child[a] \in {"queued", "prepared"} => assignments[a].phase \in {"pending_child", "child_bound"}
  BY <1>p DEF IndInv, Sagas, TypeOK, TeamAssignment
<1>1. CASE CreateChild(a)
  BY <1>1, <1>o, <1>s, MovedStep DEF CreateChild, Moved
<1>2. CASE PrepareChild(a)
  BY <1>2, <1>l, <1>o, <1>s, MovedStep DEF PrepareChild, Moved
<1>3. CASE PrepareOutside(a)
  <2>1. outside' \in SUBSET Assignment /\ a \in outside' /\ outside' \ {a} = outside \ {a}
    BY <1>3, <1>o DEF PrepareOutside
  <2>2. QED
    BY <1>3, <1>l, <1>s, <2>1, MovedStep DEF PrepareOutside, Moved
<1>4. CASE EndChild(a)
  <2>1. child[a] = "prepared" /\ assignments[a].mail = "none" => a \in outside
    BY DEF IndInv, Sagas
  <2>2. QED
    BY <1>4, <1>l, <1>o, <1>s, <2>1, MovedStep DEF EndChild, Moved
<1>5. QED
  BY <1>1, <1>2, <1>3, <1>4

LEMMA BindChildStep ==
  ASSUME IndInv, NEW a \in Assignment, BindChild(a)
  PROVE  IndInv'
<1> USE DEF IndInv, roster, callers, children, BindChild
<1>a. /\ assignments' \in [Assignment -> TeamAssignment]
      /\ assignments'[a].phase = "child_bound"
      /\ assignments'[a].mail = assignments[a].mail /\ assignments'[a].inbox = assignments[a].inbox
      /\ assignments'[a].reply = assignments[a].reply
      /\ \A b \in Assignment : b # a => assignments'[b] = assignments[b]
  BY DEF TypeOK, TeamAssignment
<1>s. SamePhases
  BY <1>a DEF SamePhases, TypeOK, TeamAssignment
<1>1. TypeOK'
  BY <1>a DEF TypeOK
<1>2. Sagas'
  BY <1>a, <1>s DEF Sagas, SamePhases
<1>3. Mail'
  BY <1>a, <1>s, SamePhasesKeep DEF Mail, SamePhases
<1>4. Recoverable'
  BY <1>a, <1>s, SamePhasesKeep DEF Recoverable, SamePhases, Pending, Made
<1>5. Races'
  BY <1>a, <1>s, SamePhasesKeep DEF Races, Pending, Made
<1>6. QED
  BY <1>1, <1>2, <1>3, <1>4, <1>5, <1>s, SamePhasesKeep

LEMMA ObserveStep ==
  ASSUME IndInv, NEW a \in Assignment, Observe(a)
  PROVE  IndInv'
<1> USE DEF IndInv, roster, callers, children
<1>g. /\ assignments[a].phase = "child_bound" /\ child[a] \in {"completed", "failed"}
      /\ child[a] = "completed" => assignments[a].mail # "bound"
      /\ assignments' = [assignments EXCEPT ![a].phase = "terminal_observed",
                                            ![a].outcome = child[a]]
      /\ items' = IF assignments[a].item = 0 THEN items
                  ELSE [items EXCEPT ![assignments[a].item].status = "review"]
      /\ UNCHANGED <<members, changes, messages, runs, closed, child, outside, cancelling, raced, coord>>
  BY DEF Observe, ChildEnded, Sagas
<1>a. /\ assignments' \in [Assignment -> TeamAssignment]
      /\ assignments'[a].phase = "terminal_observed" /\ assignments'[a].outcome = child[a]
      /\ assignments'[a].mail = assignments[a].mail /\ assignments'[a].inbox = assignments[a].inbox
      /\ assignments'[a].reply = assignments[a].reply /\ assignments'[a].item = assignments[a].item
      /\ assignments'[a].member = assignments[a].member /\ assignments'[a].run = assignments[a].run
      /\ \A b \in Assignment : b # a => assignments'[b] = assignments[b]
  <2> DEFINE new == [assignments[a] EXCEPT !.phase = "terminal_observed", !.outcome = child[a]]
  <2>1. assignments[a] \in TeamAssignment
    BY DEF TypeOK
  <2>2. assignments' = [assignments EXCEPT ![a] = new]
    BY <1>g, <2>1
  <2>3. /\ new \in TeamAssignment /\ new.phase = "terminal_observed" /\ new.outcome = child[a]
        /\ new.mail = assignments[a].mail /\ new.inbox = assignments[a].inbox
        /\ new.reply = assignments[a].reply /\ new.item = assignments[a].item
        /\ new.member = assignments[a].member /\ new.run = assignments[a].run
    BY <1>g, <2>1 DEF TeamAssignment
  <2> HIDE DEF new
  <2>4. QED
    BY <2>2, <2>3 DEF TypeOK
<1>u. /\ assignments[a].phase = "child_bound" /\ child[a] \in {"completed", "failed"}
      /\ child[a] = "completed" => assignments[a].mail # "bound"
      /\ UNCHANGED <<members, changes, messages, runs, closed, child, outside, cancelling, raced, coord>>
  BY <1>g
<1>p. /\ Made' = Made /\ a \in Pending /\ Pending' = Pending \ {a}
      /\ \A b \in Assignment : Live(b)' => Live(b)
      /\ \A b \in Assignment : Live(b) /\ assignments[b].mail = "observed" => Live(b)'
      /\ \A r : Of(r)' = Of(r)
  <2>1. Made' = Made /\ a \in Pending /\ Pending' = Pending \ {a}
    BY <1>a, <1>u DEF Made, Pending
  <2>2. \A b \in Assignment : Live(b)' => Live(b)
    BY <1>a, <2>1 DEF Live
  <2>3. \A b \in Assignment : Live(b) /\ assignments[b].mail = "observed" => Live(b)'
    BY <1>a, <1>u, <2>1 DEF Live, Sagas
  <2>4. \A r : Of(r)' = Of(r)
    BY <1>a, <2>1 DEF Of, Made
  <2>5. QED
    BY <2>1, <2>2, <2>3, <2>4
<1>i. /\ items' \in [Item -> WorkItem]
      /\ assignments[a].item # 0 =>
           /\ assignments[a].item \in Item
           /\ items'[assignments[a].item].status = "review"
           /\ items'[assignments[a].item].current = items[assignments[a].item].current
           /\ items'[assignments[a].item].deps = items[assignments[a].item].deps
      /\ \A j \in Item : j # assignments[a].item => items'[j] = items[j]
  <2>1. CASE assignments[a].item = 0
    BY <1>g, <2>1 DEF TypeOK, Item
  <2>2. CASE assignments[a].item # 0
    <3> DEFINE i == assignments[a].item
    <3>1. i \in Item
      BY <2>2 DEF TypeOK, TeamAssignment
    <3>2. items' = [items EXCEPT ![i].status = "review"] /\ items[i] \in WorkItem
      BY <1>g, <2>2, <3>1 DEF TypeOK
    <3> HIDE DEF i
    <3>3. /\ items' \in [Item -> WorkItem] /\ items'[i].status = "review"
          /\ items'[i].current = items[i].current /\ items'[i].deps = items[i].deps
          /\ \A j \in Item : j # i => items'[j] = items[j]
      BY <3>1, <3>2 DEF TypeOK, WorkItem
    <3>4. QED
      BY <3>1, <3>3 DEF i
  <2>3. QED
    BY <2>1, <2>2
<1>1. TypeOK'
  BY <1>a, <1>i, <1>u DEF TypeOK
<1>2. Sagas'
  BY <1>a, <1>u DEF Sagas
<1>3. Mail'
  BY <1>a, <1>u, <1>p DEF Mail
<1>4. Work'
  <2>1. \A j \in Item :
          /\ items'[j].status = "assigned" =>
               items'[j].current \in Pending' /\ assignments'[items'[j].current].item = j
          /\ items'[j].status \in {"review", "completed"} =>
               items'[j].current \in Made' \ Pending' /\ assignments'[items'[j].current].item = j
          /\ items'[j].status = "completed" => assignments'[items'[j].current].outcome = "completed"
    <3> SUFFICES ASSUME NEW j \in Item
                 PROVE  /\ items'[j].status = "assigned" =>
                             items'[j].current \in Pending' /\ assignments'[items'[j].current].item = j
                        /\ items'[j].status \in {"review", "completed"} =>
                             items'[j].current \in Made' \ Pending' /\ assignments'[items'[j].current].item = j
                        /\ items'[j].status = "completed" =>
                             assignments'[items'[j].current].outcome = "completed"
      OBVIOUS
    <3>1. CASE j = assignments[a].item
      <4>1. items'[j].status = "review" /\ items'[j].current = a
        BY <1>i, <1>p, <3>1 DEF Work, Item
      <4>2. QED
        BY <1>a, <1>p, <3>1, <4>1 DEF Made, Pending
    <3>2. CASE j # assignments[a].item
      <4>1. items'[j] = items[j]
        BY <1>i, <3>2
      <4>2. items[j].status \in {"assigned", "review", "completed"} =>
              /\ items[j].current # a /\ items[j].current \in Assignment
              /\ assignments'[items[j].current] = assignments[items[j].current]
        BY <1>a, <1>p, <3>2 DEF Work, Made, Pending
      <4>3. QED
        BY <1>p, <4>1, <4>2 DEF Work
    <3>3. QED
      BY <3>1, <3>2
  <2>2. \A j \in Item : items'[j].status # "absent" /\ items'[j].current # 0 =>
          \A d \in items'[j].deps : items'[d].status = "completed"
    <3>0. assignments[a].item # 0 => items[assignments[a].item].status = "assigned"
      BY <1>p DEF Work
    <3>1. \A d \in Item : items[d].status = "completed" => items'[d] = items[d]
      BY <1>i, <3>0 DEF Item
    <3>2. \A j \in Item : items[j].deps \subseteq Item
      BY DEF TypeOK, WorkItem
    <3>3. \A j \in Item : /\ items'[j].deps = items[j].deps /\ items'[j].current = items[j].current
                          /\ items'[j].status # "absent" => items[j].status # "absent"
      BY <1>i, <3>0 DEF Item
    <3>4. QED
      BY <3>1, <3>2, <3>3 DEF Work
  <2>3. \A b \in Pending' : assignments'[b].item # 0 =>
          /\ items'[assignments'[b].item].status = "assigned"
          /\ items'[assignments'[b].item].current = b
    BY <1>a, <1>i, <1>p DEF Work, TypeOK, TeamAssignment, Made, Pending
  <2>4. \A b, c \in Pending' : b # c => assignments'[b].member # assignments'[c].member
    BY <1>a, <1>p DEF Work, Made, Pending
  <2>5. QED
    BY <2>1, <2>2, <2>3, <2>4 DEF Work
<1>5. WavesSettled'
  BY <1>p, <1>u DEF WavesSettled, Open, Terminal, AllObserved, Asked
<1>6. Round'
  BY <1>p, <1>u DEF Round, Asked
<1>7. Recoverable'
  BY <1>a, <1>p, <1>u DEF Recoverable, Pending, Made
<1>8. Races'
  BY <1>a, <1>p, <1>u DEF Races, Pending, Made
<1>9. QED
  BY <1>1, <1>2, <1>3, <1>4, <1>5, <1>6, <1>7, <1>8

LEMMA SagaKeeps ==
  ASSUME IndInv, SagaStep
  PROVE  IndInv'
<1>1. PICK a \in Assignment :
        \/ \E m \in Member, i \in {0} \cup Item : Assign(a, m, i)
        \/ CreateChild(a) \/ BindChild(a) \/ PrepareChild(a) \/ PrepareOutside(a) \/ EndChild(a)
        \/ Observe(a)
  BY DEF SagaStep
<1>2. QED
  BY <1>1, AssignStep, ChildSteps, BindChildStep, ObserveStep

LEMMA CloseTeamStep ==
  ASSUME IndInv, CloseTeam
  PROVE  IndInv'
<1> USE DEF IndInv, CloseTeam, roster, callers, children
<1>1. TypeOK'
  BY DEF TypeOK
<1>2. WavesSettled'
  BY DEF WavesSettled, Open, Terminal, AllObserved, Of, Pending, Made, Asked
<1>3. Recoverable'
  BY DEF Recoverable, Pending, Made
<1>4. QED
  BY <1>1, <1>2, <1>3, SagasFrame, MailFrame, WorkFrame, RoundFrame, RacesFrame

-----------------------------------------------------------------------------
(* Schedule waves.                                                          *)

\* The coordinator, or whoever dies or takes a wave up, appends nothing.
Quiet == UNCHANGED <<ledger, children, callers>>

LEMMA QuietStep ==
  ASSUME IndInv, Quiet, coord' \in Coordinator, Round'
  PROVE  IndInv'
<1> USE DEF IndInv, Quiet, ledger, roster, callers, children
<1>1. TypeOK'
  BY DEF TypeOK
<1>2. QED
  BY <1>1, SagasFrame, MailFrame, WorkFrame, WavesFrame, RecoverableFrame, RacesFrame

\* Places where nothing is being dispatched.
Still == {"off", "held", "stranded", "queued", "loop", "wait", "decide", "shutdown", "finish", "retry"}

LEMMA StillRound ==
  ASSUME coord'.pc \in Still, coord'.pc \notin {"off", "held"} => coord'.run \in Run
  PROVE  Round'
BY DEF Round, Still

LEMMA CoordFields ==
  ASSUME TypeOK
  PROVE  /\ coord.fore \in BOOLEAN
         /\ coord.pc \in {"off", "held", "stranded", "queued", "loop", "dispatch", "create", "admit",
                          "wait", "decide", "shutdown", "finish", "retry"}
         /\ coord.run \in {0} \cup Run /\ coord.active \in SUBSET Assignment
         /\ coord.new \in {0} \cup Assignment /\ coord.item \in {0} \cup Item
         /\ coord.member \in {0} \cup Member /\ coord.goal \in Outcome
BY DEF TypeOK, Coordinator

LEMMA OffFields ==
  /\ Off \in Coordinator /\ Off.pc = "off" /\ Off.run = 0
  /\ Held \in Coordinator /\ Held.pc = "held"
  /\ "failed" \in Outcome
BY DEF Off, Held, Coordinator, Outcome

\* The places the coordinator may go to without anything new.
LEMMA GoStep ==
  ASSUME IndInv, NEW pc \in Still, Quiet, coord' = [coord EXCEPT !.pc = pc],
         coord.pc \notin {"off", "held"}
  PROVE  IndInv'
<1>1. coord' \in Coordinator /\ coord'.pc = pc /\ coord'.run = coord.run
  BY DEF IndInv, TypeOK, Coordinator, Still
<1>2. Round'
  BY <1>1, StillRound DEF IndInv, Round
<1>3. QED
  BY <1>1, <1>2, QuietStep

LEMMA FinishAsStep ==
  ASSUME IndInv, NEW outcome \in Outcome, FinishAs(outcome), coord.pc \notin {"off", "held"}
  PROVE  /\ coord' \in Coordinator /\ Round'
         /\ Quiet => IndInv'
<1>1. /\ coord' \in Coordinator /\ coord'.pc = "finish" /\ coord'.run = coord.run
  BY DEF IndInv, TypeOK, Coordinator, Off, FinishAs
<1>2. Round'
  BY <1>1, StillRound DEF IndInv, Round, Still
<1>3. QED
  BY <1>1, <1>2, QuietStep

LEMMA OffStep ==
  ASSUME IndInv, Quiet, coord' \in {Off, Held}
  PROVE  IndInv'
BY OffFields, QuietStep, StillRound DEF Still

LEMMA StartScheduleStep ==
  ASSUME IndInv, NEW r \in Run, StartSchedule(r)
  PROVE  IndInv'
<1> USE DEF IndInv, roster, callers, children
<1>g. /\ \A s \in Run : ~Open(s)
      /\ ~closed /\ runs[r].status = "absent"
      /\ runs' = [runs EXCEPT ![r].status = "running"]
      /\ UNCHANGED <<members, changes, messages, items, assignments, closed, child, outside, cancelling, raced>>
  BY DEF StartSchedule, IsNext, Started
<1>c. /\ coord' \in Coordinator /\ coord'.pc \in {"off", "held", "loop", "queued", "stranded"}
      /\ coord'.pc \notin {"off", "held"} => coord'.run = r
  BY OffFields DEF StartSchedule, Coordinator
<1>a. /\ runs' \in [Run -> Schedule] /\ runs'[r].status = "running"
      /\ runs'[r].asked = runs[r].asked
      /\ \A s \in Run : s # r => runs'[s] = runs[s]
  BY <1>g DEF TypeOK, Schedule
<1>o. \A s : Of(s)' = Of(s)
  BY <1>g DEF Of, Made
<1>1. TypeOK'
  BY <1>a, <1>c, <1>g DEF TypeOK
<1>2. WavesSettled'
  BY <1>a, <1>g, <1>o DEF WavesSettled, Open, Terminal, AllObserved, Pending, Made, Asked, Outcome
<1>3. Round'
  BY <1>c, StillRound DEF Still
<1>4. QED
  BY <1>1, <1>2, <1>3, <1>g, SagasFrame, MailFrame, WorkFrame, RecoverableFrame, RacesFrame

LEMMA ResumeStep ==
  ASSUME IndInv, NEW r \in Run, Resume(r)
  PROVE  IndInv'
<1>1. coord' \in Coordinator /\ coord'.pc = "loop" /\ coord'.run = r
  BY OffFields DEF Resume, Coordinator
<1>2. QED
  BY <1>1, StillRound, QuietStep DEF Resume, Quiet, Still

\* A cancel request: the assignments of the wave are counted.
CancelRequested(r) ==
  /\ r \in Run /\ ~Asked(r) /\ ~Terminal(r)
  /\ runs' = [runs EXCEPT ![r].asked = Cardinality(Of(r))]
  /\ UNCHANGED <<roster, messages, items, assignments, closed, children, callers>>

LEMMA CancelRequestedKeeps ==
  ASSUME IndInv, NEW r, CancelRequested(r)
  PROVE  /\ runs' \in [Run -> Schedule]
         /\ Sagas' /\ Mail' /\ Work' /\ WavesSettled' /\ Recoverable' /\ Races'
         /\ coord' = coord => Round'
<1> USE DEF IndInv, CancelRequested, roster, callers, children
<1>c. Cardinality(Of(r)) \in Nat /\ Cardinality(Of(r)) \in {NotAsked} \cup Nat
  BY OfFinite
<1>a. /\ runs' \in [Run -> Schedule] /\ runs'[r].status = runs[r].status
      /\ runs'[r].asked = Cardinality(Of(r))
      /\ \A s \in Run : s # r => runs'[s] = runs[s]
  BY <1>c DEF TypeOK, Schedule
<1>o. \A s : Of(s)' = Of(s)
  BY DEF Of, Made
<1>1. WavesSettled'
  BY <1>a, <1>c, <1>o, BoardAssumption
    DEF WavesSettled, Open, Terminal, AllObserved, Pending, Made, Asked
<1>2. ASSUME coord' = coord PROVE Round'
  <2>1. \A S : /\ Cardinality(Of(r) \ S) <= Cardinality(Of(r))
    <3>1. \A S : Of(r) \ S \subseteq Of(r)
      OBVIOUS
    <3>2. QED
      BY <3>1, OfFinite, Smaller
  <2>2. QED
    BY <1>2, <1>a, <1>o, <2>1 DEF Round, Asked
<1>3. QED
  BY <1>1, <1>2, <1>a, SagasFrame, MailFrame, WorkFrame, RecoverableFrame, RacesFrame

LEMMA RequestCancelStep ==
  ASSUME IndInv, NEW r \in Run, RequestCancel(r)
  PROVE  IndInv'
<1>1. CancelRequested(r) /\ coord' = coord
  BY DEF RequestCancel, CancelRequested, Open, Terminal, Outcome
<1>2. TypeOK'
  BY <1>1, CancelRequestedKeeps
      DEF IndInv, TypeOK, CancelRequested, roster, callers, children
<1>3. QED
  BY <1>1, <1>2, CancelRequestedKeeps DEF IndInv
\* The supervisor's shutdown requests the cancel of a wave it has queued.
LEMMA ShutdownStep ==
  ASSUME IndInv, Shutdown
  PROVE  IndInv'
<1>r. coord.run \in Run
  BY DEF Shutdown, IndInv, Round
<1>1. CASE /\ Open(coord.run) /\ ~Asked(coord.run)
           /\ runs' = [runs EXCEPT ![coord.run].asked = Cardinality(Of(coord.run))]
           /\ coord' \in {[coord EXCEPT !.pc = "shutdown", !.goal = "cancelled"], Off}
  <2>1. CancelRequested(coord.run)
    BY <1>1, <1>r DEF Shutdown, CancelRequested, Open, Terminal, Outcome
  <2>2. /\ coord' \in Coordinator /\ coord'.pc \in {"shutdown", "off"}
        /\ coord'.pc # "off" => coord'.run = coord.run
    BY <1>1, OffFields DEF IndInv, TypeOK, Coordinator, Outcome
  <2>3. TypeOK'
    BY <2>1, <2>2, CancelRequestedKeeps
      DEF IndInv, TypeOK, CancelRequested, roster, callers, children
  <2>4. Round'
    BY <1>r, <2>2, StillRound DEF Still
  <2>5. QED
    BY <2>1, <2>3, <2>4, CancelRequestedKeeps DEF IndInv
<1>2. CASE UNCHANGED runs /\ coord' = Off
  BY <1>2, OffStep DEF Shutdown, Quiet, ledger, children, roster
<1>3. QED
  BY <1>1, <1>2 DEF Shutdown

\* The head of the loop begins a round in a wave that is not asked to end.
LEMMA LoopStep ==
  ASSUME IndInv, Loop
  PROVE  IndInv'
<1>q. Quiet /\ coord.pc = "loop" /\ coord.run \in Run
  BY DEF Loop, Quiet, At, IndInv, Round
<1>1. CASE Asked(coord.run)
  BY <1>1, <1>q, FinishAsStep DEF Loop, Outcome
<1>2. CASE ~Asked(coord.run)
  <2>1. coord' = [coord EXCEPT !.pc = "dispatch", !.active = Of(coord.run) \cap Pending]
    BY <1>2 DEF Loop
  <2>2. Of(coord.run) \cap Pending \in SUBSET Assignment
    BY DEF Of, Made
  <2>3. /\ coord' \in Coordinator /\ coord'.pc = "dispatch" /\ coord'.run = coord.run
        /\ coord'.active = Of(coord.run) \cap Pending
    BY <2>1, <2>2 DEF IndInv, TypeOK, Coordinator
  <2>4. runs' = runs /\ \A r : Of(r)' = Of(r)
    BY <1>q, <2>3 DEF Quiet, ledger, children, Of, Made
  <2>5. Round'
    BY <1>2, <1>q, <2>3, <2>4 DEF Round, Asked
  <2>6. QED
    BY <1>q, <2>3, <2>5, QuietStep
<1>3. QED
  BY <1>1, <1>2

LEMMA SelectStep ==
  ASSUME IndInv, Select
  PROVE  IndInv'
<1>1. PICK i \in Item, m \in Member : coord' = [coord EXCEPT !.pc = "create", !.item = i, !.member = m]
  BY DEF Select
<1>2. Quiet /\ coord.pc = "dispatch" /\ Cardinality(coord.active) < MaxParallel
  BY DEF Select, Quiet, At, Room
<1>3. /\ coord' \in Coordinator /\ coord'.pc = "create" /\ coord'.item = i /\ coord'.member = m
      /\ coord'.run = coord.run /\ coord'.active = coord.active
  BY <1>1 DEF IndInv, TypeOK, Coordinator
<1>4. runs' = runs /\ \A r : Of(r)' = Of(r)
  BY <1>2 DEF Quiet, ledger, children, Of, Made
<1>5. Round'
  BY <1>2, <1>3, <1>4 DEF IndInv, Round, Asked
<1>6. QED
  BY <1>2, <1>3, <1>5, QuietStep

\* Of what is there when a round appends, only the active ones, fewer than the
\* parallel limit, may have come after a cancel request.
LEMMA DispatchStep ==
  ASSUME IndInv, Dispatch
  PROVE  IndInv'
<1>g. /\ coord.pc = "create"
      /\ UNCHANGED <<roster, messages, runs, closed, children, callers>>
  BY DEF Dispatch, At
<1>r. /\ coord.run \in Run /\ coord.run # 0 /\ coord.active \subseteq Of(coord.run)
      /\ coord.item \in Item /\ coord.member \in Member
      /\ Cardinality(coord.active) < MaxParallel
      /\ Asked(coord.run) => Cardinality(Of(coord.run) \ coord.active) <= runs[coord.run].asked
  BY <1>g DEF IndInv, Round, Run
<1>1. CASE FinishAs("failed") /\ UNCHANGED <<assignments, items>>
  <2>1. Quiet
    BY <1>1, <1>g DEF Quiet, ledger, children
  <2>2. QED
    BY <1>1, <1>g, <2>1, FinishAsStep, OffFields
<1>2. ASSUME NEW a \in Assignment, Create(a, coord.member, coord.item, coord.run),
             \/ coord' = [coord EXCEPT !.pc = "admit", !.new = a, !.item = 0, !.member = 0]
             \/ FinishAs("failed")
      PROVE  IndInv'
  <2>1. Asked(coord.run) => Cardinality(Of(coord.run)) < runs[coord.run].asked + MaxParallel
    <3>1. IsFiniteSet(Of(coord.run)) /\ Of(coord.run) \cap coord.active = coord.active
      BY <1>r, OfFinite
    <3>2. /\ Cardinality(Of(coord.run) \ coord.active)
               = Cardinality(Of(coord.run)) - Cardinality(coord.active)
          /\ Cardinality(Of(coord.run)) \in Nat /\ Cardinality(coord.active) \in Nat
      BY <1>r, <3>1, OfFinite, Smaller, FS_Difference
    <3>3. Asked(coord.run) => runs[coord.run].asked \in Nat
      BY <1>r DEF IndInv, TypeOK, Schedule, Asked
    <3>4. QED
      BY <1>r, <3>2, <3>3, BoardAssumption
  <2>2. /\ assignments' \in [Assignment -> TeamAssignment] /\ items' \in [Item -> WorkItem]
        /\ Sagas' /\ Mail' /\ Work' /\ WavesSettled' /\ Recoverable' /\ Races'
        /\ a \notin Of(coord.run)
        /\ \A s \in Run : Of(s)' = IF s = coord.run THEN Of(s) \cup {a} ELSE Of(s)
    <3>1. coord.item \in {0} \cup Item /\ coord.run \in {0} \cup Run
      BY <1>r
    <3>2. QED
      BY <1>2, <1>g, <1>r, <2>1, <3>1, CreateKeeps
  <2>3. coord' \in Coordinator /\ Round'
    <3>1. CASE coord' = [coord EXCEPT !.pc = "admit", !.new = a, !.item = 0, !.member = 0]
      <4>1. /\ coord' \in Coordinator /\ coord'.pc = "admit" /\ coord'.new = a
            /\ coord'.run = coord.run /\ coord'.active = coord.active
        BY <3>1 DEF IndInv, TypeOK, Coordinator
      <4>2. \A s \in Run : s = coord.run => Of(s)' = Of(s) \cup {a}
        BY <2>2
      <4>3. \A s \in Run : s = coord.run =>
              Of(s)' \ (coord.active \cup {a}) = Of(s) \ coord.active
        BY <2>2, <4>2
      <4>4. Round'
        BY <1>g, <1>r, <4>1, <4>2, <4>3 DEF Round, Asked
      <4>5. QED
        BY <4>1, <4>4
    <3>2. CASE FinishAs("failed")
      BY <1>g, <3>2, FinishAsStep, OffFields
    <3>3. QED
      BY <1>2, <3>1, <3>2
  <2>4. TypeOK'
    BY <1>g, <2>2, <2>3 DEF IndInv, TypeOK, roster, callers, children
  <2>5. QED
    BY <2>2, <2>3, <2>4 DEF IndInv
<1>3. QED
  BY <1>1, <1>2 DEF Dispatch

LEMMA AdmitStep ==
  ASSUME IndInv, Admit
  PROVE  IndInv'
<1>g. Quiet /\ coord.pc = "admit"
  BY DEF Admit, Quiet, At
<1>1. CASE FinishAs("failed")
  BY <1>1, <1>g, FinishAsStep, OffFields
<1>2. CASE coord' = [coord EXCEPT !.pc = "dispatch", !.active = @ \cup {coord.new}, !.new = 0]
  <2>1. coord.new \in Of(coord.run) /\ Of(coord.run) \subseteq Assignment
    BY <1>g DEF IndInv, Round, Of, Made
  <2>2. /\ coord' \in Coordinator /\ coord'.pc = "dispatch" /\ coord'.run = coord.run
        /\ coord'.active = coord.active \cup {coord.new}
    BY <1>2, <2>1 DEF IndInv, TypeOK, Coordinator
  <2>3. runs' = runs /\ \A r : Of(r)' = Of(r)
    BY <1>g DEF Quiet, ledger, children, Of, Made
  <2>4. Round'
    BY <1>g, <2>1, <2>2, <2>3 DEF IndInv, Round, Asked
  <2>5. QED
    BY <1>g, <2>2, <2>4, QuietStep
<1>3. QED
  BY <1>1, <1>2 DEF Admit

LEMMA WaitStep ==
  ASSUME IndInv, Wait
  PROVE  IndInv'
<1>g. Quiet /\ coord.pc = "wait" /\ coord.run \in Run
  BY DEF Wait, Quiet, At, IndInv, Round
<1>1. CASE FinishAs("failed")
  BY <1>1, <1>g, FinishAsStep, OffFields
<1>2. CASE coord' = [coord EXCEPT !.pc = "loop", !.active = {}]
  <2>1. coord' \in Coordinator /\ coord'.pc = "loop" /\ coord'.run = coord.run
    BY <1>2 DEF IndInv, TypeOK, Coordinator
  <2>2. QED
    BY <1>g, <2>1, StillRound, QuietStep DEF Still
<1>3. QED
  BY <1>1, <1>2 DEF Wait

\* Steps that only move on.
LEMMA GoSteps ==
  ASSUME IndInv, WakeUp \/ TakeUp \/ EndDispatch \/ Decide \/ Interrupt \/ Crash
  PROVE  IndInv'
<1>1. CASE WakeUp
  BY <1>1, GoStep DEF WakeUp, At, Go, Quiet, Still
<1>2. CASE TakeUp
  BY <1>2, GoStep DEF TakeUp, At, Go, Quiet, Still
<1>3. CASE EndDispatch
  <2>1. PICK pc \in {"decide", "wait"} : Go(pc)
    BY <1>3 DEF EndDispatch
  <2>2. QED
    BY <1>3, <2>1, GoStep DEF EndDispatch, At, Go, Quiet, Still
<1>4. CASE Decide
  <2>1. \/ FinishAs("limit_reached") \/ FinishAs("idle") \/ Go("loop")
    BY <1>4 DEF Decide
  <2>2. QED
    BY <1>4, <2>1, GoStep, FinishAsStep DEF Decide, At, Go, Quiet, Still, Outcome
<1>5. CASE Interrupt \/ Crash
  BY <1>5, OffStep DEF Interrupt, Crash, Quiet
<1>6. QED
  BY <1>1, <1>2, <1>3, <1>4, <1>5

\* The end of a wave is written when everything it dispatched is observed.
LEMMA CloseKeeps ==
  ASSUME IndInv, NEW r \in Run, NEW outcome \in Outcome, Close(r, outcome),
         UNCHANGED <<roster, messages, items, assignments, closed, children, callers>>
  PROVE  /\ runs' \in [Run -> Schedule]
         /\ Sagas' /\ Mail' /\ Work' /\ WavesSettled' /\ Recoverable' /\ Races'
<1> USE DEF IndInv, roster, callers, children
<1>c. Cardinality(Of(r)) \in Nat
  BY OfFinite
<1>g. /\ ~closed /\ Open(r) /\ AllObserved(r) /\ (outcome = "cancelled" <=> Asked(r))
      /\ runs' = [runs EXCEPT ![r].status = outcome, ![r].count = Cardinality(Of(r))]
  BY DEF Close, Allowed
<1>a. /\ runs' \in [Run -> Schedule] /\ runs'[r].status = outcome
      /\ runs'[r].asked = runs[r].asked /\ runs'[r].count = Cardinality(Of(r))
      /\ \A s \in Run : s # r => runs'[s] = runs[s]
  <2> DEFINE new == [runs[r] EXCEPT !.status = outcome, !.count = Cardinality(Of(r))]
  <2>1. runs[r] \in Schedule
    BY DEF TypeOK
  <2>2. runs' = [runs EXCEPT ![r] = new]
    BY <1>g, <2>1
  <2>3. /\ new \in Schedule /\ new.status = outcome /\ new.asked = runs[r].asked
        /\ new.count = Cardinality(Of(r))
    BY <1>c, <2>1 DEF Schedule
  <2> HIDE DEF new
  <2>4. QED
    BY <2>2, <2>3 DEF TypeOK
<1>u. /\ ~closed /\ Open(r) /\ AllObserved(r) /\ (outcome = "cancelled" <=> Asked(r))
      /\ UNCHANGED <<messages, assignments, closed>>
  BY <1>g
<1>o. (\A s : Of(s)' = Of(s)) /\ Pending' = Pending
  BY <1>u DEF Of, Made, Pending
<1>1. WavesSettled'
  <2>1. ~Open(r)' /\ \A s \in Run : s # r => Open(s)' = Open(s)
    BY <1>a DEF Open, Outcome
  <2>2. ASSUME NEW s \in Run
        PROVE  /\ Cardinality(Of(s)') <= MaxAssignments
               /\ Terminal(s)' => /\ AllObserved(s)'
                                  /\ runs'[s].count = Cardinality(Of(s)')
                                  /\ runs'[s].status = "cancelled" <=> Asked(s)'
               /\ Asked(s)' => Cardinality(Of(s)') <= runs'[s].asked + MaxParallel
    <3>1. CASE s = r
      BY <1>a, <1>o, <1>u, <3>1 DEF WavesSettled, AllObserved, Asked
    <3>2. CASE s # r
      BY <1>a, <1>o, <3>2 DEF WavesSettled, AllObserved, Asked, Terminal
    <3>3. QED
      BY <3>1, <3>2
  <2>3. QED
    BY <1>u, <2>1, <2>2 DEF WavesSettled
<1>2. QED
  BY <1>a, <1>1, SagasFrame, MailFrame, WorkFrame, RecoverableFrame, RacesFrame

LEMMA FinishStep ==
  ASSUME IndInv, Finish
  PROVE  IndInv'
<1> DEFINE next == IF At("finish") THEN [coord EXCEPT !.pc = "retry", !.goal = "failed"] ELSE Off
<1>g. /\ coord.pc \in {"finish", "retry", "shutdown"}
      /\ \/ Close(coord.run, coord.goal) /\ coord' \in {Off, next}
         \/ UNCHANGED runs /\ coord' = next
      /\ UNCHANGED <<roster, messages, items, assignments, closed, children, callers>>
  BY DEF Finish
<1>r. coord.run \in Run /\ coord.goal \in Outcome
  BY <1>g, CoordFields DEF IndInv, Round
<1>c. /\ coord' \in Coordinator /\ coord'.pc \in {"off", "retry"}
      /\ coord'.pc # "off" => coord'.run = coord.run
  <2>1. next \in Coordinator /\ next.pc \in {"off", "retry"} /\ (next.pc # "off" => next.run = coord.run)
    <3>1. CASE At("finish")
      BY <3>1, OffFields DEF IndInv, TypeOK, Coordinator
    <3>2. CASE ~At("finish")
      BY <3>2, OffFields
    <3>3. QED
      BY <3>1, <3>2
  <2> HIDE DEF next
  <2>2. QED
    BY <1>g, <2>1, OffFields
<1>1. Round'
  BY <1>c, <1>r, StillRound DEF Still
<1>2. CASE Close(coord.run, coord.goal)
  <2>1. /\ runs' \in [Run -> Schedule]
        /\ Sagas' /\ Mail' /\ Work' /\ WavesSettled' /\ Recoverable' /\ Races'
    BY <1>2, <1>g, <1>r, CloseKeeps
  <2>2. TypeOK'
    BY <1>c, <1>g, <2>1 DEF IndInv, TypeOK, roster, callers, children
  <2>3. QED
    BY <1>1, <2>1, <2>2 DEF IndInv
<1>3. CASE UNCHANGED runs
  BY <1>1, <1>3, <1>c, <1>g, QuietStep DEF Quiet, ledger, children
<1>4. QED
  BY <1>2, <1>3, <1>g

LEMMA RecoverStep ==
  ASSUME IndInv, NEW r \in Run, Recover(r)
  PROVE  IndInv'
<1>1. PICK outcome \in {"cancelled", "interrupted"} : Close(r, outcome)
  BY DEF Recover
<1>2. /\ coord.pc = "off" /\ coord' = coord
      /\ UNCHANGED <<roster, messages, items, assignments, closed, children, callers>>
  BY DEF Recover, At
<1>3. /\ runs' \in [Run -> Schedule]
      /\ Sagas' /\ Mail' /\ Work' /\ WavesSettled' /\ Recoverable' /\ Races'
  <2>1. outcome \in Outcome
    BY DEF Outcome
  <2>2. QED
    BY <1>1, <1>2, <2>1, CloseKeeps
<1>4. TypeOK'
  BY <1>2, <1>3 DEF IndInv, TypeOK, roster, callers, children
<1>5. Round'
  BY <1>2, StillRound DEF Still
<1>6. QED
  BY <1>3, <1>4, <1>5 DEF IndInv

LEMMA WaveKeeps ==
  ASSUME IndInv, WaveStep
  PROVE  IndInv'
<1>1. CASE \E r \in Run : StartSchedule(r) \/ Resume(r) \/ RequestCancel(r) \/ Recover(r)
  BY <1>1, StartScheduleStep, ResumeStep, RequestCancelStep, RecoverStep
<1>2. CASE Shutdown \/ WakeUp \/ Interrupt \/ Crash
  BY <1>2, ShutdownStep, GoSteps
<1>3. CASE Coordinate
  BY <1>3, GoSteps, LoopStep, SelectStep, DispatchStep, AdmitStep, WaitStep, FinishStep
    DEF Coordinate
<1>4. QED
  BY <1>1, <1>2, <1>3 DEF WaveStep

-----------------------------------------------------------------------------
(* The invariant and what follows from it.                                   *)

LEMMA InitHolds ==
  ASSUME Init
  PROVE  IndInv
<1> USE BoardAssumption DEF Init
<1>a. /\ \A a \in Assignment : /\ assignments[a] = NoAssignment /\ child[a] = "absent"
      /\ NoAssignment \in TeamAssignment
      /\ NoAssignment.phase = "absent" /\ NoAssignment.mail = "none" /\ NoAssignment.inbox = {}
      /\ NoAssignment.reply = "none" /\ NoAssignment.outcome = "none" /\ NoAssignment.run = 0
  BY DEF NoAssignment, NewAssignment, TeamAssignment
<1>m. /\ NoMessage \in TeamMessage /\ NoMessage.status = "absent"
      /\ NoItem \in WorkItem /\ NoItem.status = "absent"
  BY DEF NoMessage, TeamMessage, NoItem, WorkItem
<1>r. /\ NoRun \in Schedule /\ NoRun.status = "absent" /\ NoRun.asked = NotAsked
  BY DEF NoRun, Schedule
<1>p. Made = {} /\ Pending = {} /\ \A r : Of(r) = {}
  BY <1>a DEF Made, Pending, Of
<1>1. TypeOK
  <2>1. members \in [Member -> MemberStatus] /\ child \in [Assignment -> ChildStatus]
    BY DEF MemberStatus, ChildStatus
  <2>2. changes \in 0..Size /\ cancelling \subseteq Message /\ raced \subseteq Message
    OBVIOUS
  <2>3. /\ messages \in [Message -> TeamMessage] /\ items \in [Item -> WorkItem]
        /\ assignments \in [Assignment -> TeamAssignment] /\ runs \in [Run -> Schedule]
    BY <1>a, <1>m, <1>r
  <2>4. QED
    BY <2>1, <2>2, <2>3, OffFields DEF TypeOK
<1>2. Sagas
  BY <1>a DEF Sagas
<1>3. Mail
  BY <1>a, <1>m, <1>p DEF Mail, Live
<1>4. Work
  BY <1>m, <1>p DEF Work
<1>5. WavesSettled
  <2>1. \A r \in Run : Cardinality(Of(r)) = 0
    BY <1>p, FS_EmptySet
  <2>2. QED
    BY <1>r, <2>1 DEF WavesSettled, Open, Terminal, Asked, Outcome
<1>6. Round /\ Recoverable /\ Races
  BY <1>p, OffFields DEF Round, Recoverable, Races
<1>7. QED
  BY <1>1, <1>2, <1>3, <1>4, <1>5, <1>6 DEF IndInv

LEMMA NextKeeps ==
  ASSUME IndInv, [Next]_vars
  PROVE  IndInv'
<1>1. CASE UNCHANGED vars
  <2>1. TypeOK'
    BY <1>1 DEF IndInv, TypeOK, vars, ledger, roster, callers, children
  <2>2. QED
    BY <1>1, <2>1, SagasFrame, MailFrame, WorkFrame, WavesFrame, RoundFrame, RecoverableFrame, RacesFrame
      DEF IndInv, vars, ledger, roster, callers, children
<1>2. CASE Next
  BY <1>2, RosterKeeps, MailKeeps, WorkKeeps, SagaKeeps, CloseTeamStep, WaveKeeps DEF Next
<1>3. QED
  BY <1>1, <1>2

\* The inductive invariant holds in every state a Team can reach, whatever the
\* order in which owner, coordinator, recovery and Children take their steps.
THEOREM Inductive == Spec => []IndInv
BY InitHolds, NextKeeps, PTL DEF Spec

\* Every state of a Team transcript and its coordinator is well formed.
THEOREM TypeCorrect == Spec => []TypeOK
<1>1. IndInv => TypeOK
  BY DEF IndInv
<1>2. QED
  BY <1>1, Inductive, PTL

\* An owner message is delivered at most once, to the member it names, and only
\* on the evidence of a completed Child that was given it and has replied.
THEOREM DeliveredOnce == Spec => []OneDelivery
<1>1. ASSUME IndInv PROVE OneDelivery
  <2>1. \A k \in Message, a \in Assignment :
          (a \in Made /\ k \in assignments[a].inbox
             /\ (a \in Pending \/ assignments[a].outcome = "completed"))
          <=> Live(a) /\ k \in assignments[a].inbox
    BY DEF Live
  <2>2. \A k \in Message : \A a, b \in Assignment :
          Live(a) /\ Live(b) /\ k \in assignments[a].inbox /\ k \in assignments[b].inbox => a = b
    BY <1>1 DEF IndInv, Mail
  <2>3. \A k \in Message :
          messages[k].status = "delivered"
            <=> \E a \in Assignment : Live(a) /\ k \in assignments[a].inbox
                                      /\ assignments[a].mail = "observed"
    BY <1>1 DEF IndInv, Mail
  <2>4. Made \subseteq Assignment
    BY DEF Made
  <2>5. \A a \in Made :
          /\ \A k \in assignments[a].inbox : messages[k].to = assignments[a].member
          /\ assignments[a].mail = "observed" => child[a] = "completed" /\ assignments[a].reply # "none"
          /\ assignments[a].outcome = "completed" =>
               \/ assignments[a].mail = "observed"
               \/ a \in outside /\ assignments[a].mail \in {"none", "late"}
          /\ assignments[a].outcome = "failed" => assignments[a].reply = "none"
    BY <1>1, <2>4 DEF IndInv, Mail, Sagas, TypeOK, TeamAssignment
  <2>6. QED
    BY <2>2, <2>3, <2>4, <2>5 DEF OneDelivery, Live
<1>2. QED
  BY <1>1, Inductive, PTL

\* A work item is completed only by the attempt under review, whose Child has
\* completed; an item under way and a busy member belong to one live attempt, and
\* nothing is attempted before its dependencies are completed.
THEOREM WorkHasEvidence == Spec => []WorkEvidence
<1>1. ASSUME IndInv PROVE WorkEvidence
  <2>1. \A i \in Listed :
          /\ items[i].status = "assigned" =>
               items[i].current \in Pending /\ assignments[items[i].current].item = i
          /\ items[i].status \in {"review", "completed"} =>
               items[i].current \in Made \ Pending /\ assignments[items[i].current].item = i
          /\ items[i].current # 0 => \A d \in items[i].deps : items[d].status = "completed"
    BY <1>1 DEF IndInv, Work, Listed
  <2>2. \A i \in Listed : items[i].status = "completed" => child[items[i].current] = "completed"
    BY <1>1, <2>1 DEF IndInv, Work, Sagas, Listed, Made, Pending
  <2>3. \A a, b \in Pending : a # b =>
          /\ assignments[a].member # assignments[b].member
          /\ assignments[a].item = 0 \/ assignments[a].item # assignments[b].item
    BY <1>1 DEF IndInv, Work
  <2>4. QED
    BY <2>1, <2>2, <2>3 DEF WorkEvidence
<1>2. QED
  BY <1>1, Inductive, PTL

\* At most one wave is open; one that has ended has observed what it dispatched
\* and is cancelled exactly if that was asked; a cancel request lets through at
\* most one more round; a closed Team has nothing under way.
THEOREM WavesAlwaysSettled == Spec => []WavesSettled
<1>1. IndInv => WavesSettled
  BY DEF IndInv
<1>2. QED
  BY <1>1, Inductive, PTL

\* Whatever step a saga has reached when everything stops, recovery can take it
\* on, but for a message whose cancel was under way when it was bound.
THEOREM AlwaysRecoverable == Spec => []Recoverable
<1>1. IndInv => Recoverable
  BY DEF IndInv
<1>2. QED
  BY <1>1, Inductive, PTL

-----------------------------------------------------------------------------
(* What comes of a cancellation that raced a binding, and of a Child that was   *)
(* prepared outside of the Team although an inbox was frozen for it.          *)

\* The Child has done its work, but a message frozen for it was cancelled, or it
\* was never asked to answer its inbox.
Stuck(a) ==
  /\ a \in Pending /\ child[a] = "completed" /\ assignments[a].mail = "bound"
  /\ a \in outside \/ \E k \in assignments[a].inbox : messages[k].status = "cancelled"

StuckStays(a) == Stuck(a)' /\ ~closed'

\* Messages do not come back from a cancellation.
Withdrawn == \A k \in Message : messages[k].status = "cancelled" => messages'[k].status = "cancelled"

LEMMA StuckIs ==
  ASSUME IndInv, NEW a \in Assignment, Stuck(a)
  PROVE  /\ ~closed /\ assignments[a].phase = "child_bound" /\ assignments[a].mail = "bound"
         /\ \/ a \in outside /\ assignments[a].reply = "none"
            \/ \E k \in assignments[a].inbox : k \in Message /\ messages[k].status = "cancelled"
<1>1. assignments[a].phase = "child_bound"
  BY DEF Stuck, IndInv, TypeOK, Sagas, Pending, Made, TeamAssignment
<1>2. assignments[a].inbox \subseteq Message
  BY DEF IndInv, TypeOK, TeamAssignment
<1>3. a \in outside => assignments[a].reply = "none"
  BY DEF IndInv, Sagas, Stuck, Pending, Made
<1>4. QED
  BY <1>1, <1>2, <1>3 DEF Stuck, IndInv, Recoverable

LEMMA StuckKept ==
  ASSUME IndInv, NEW a \in Assignment, Stuck(a), Withdrawn, UNCHANGED closed,
         child'[a] = child[a], a \in outside => a \in outside',
         assignments'[a].phase = assignments[a].phase,
         assignments'[a].mail = assignments[a].mail,
         assignments'[a].inbox = assignments[a].inbox
  PROVE  StuckStays(a)
<1>1. ~closed'
  BY StuckIs
<1>2. a \in Pending'
  BY StuckIs DEF Pending, Made
<1>3. QED
  BY <1>1, <1>2, StuckIs DEF Stuck, StuckStays, Withdrawn

LEMMA StuckMail ==
  ASSUME IndInv, NEW a \in Assignment, Stuck(a), MailStep
  PROVE  StuckStays(a)
<1>1. ASSUME NEW k \in Message, CheckCancel(k) \/ CancelMessage(k) \/ \E m \in Member : Send(k, m)
      PROVE  StuckStays(a)
  <2>1. Withdrawn
    BY <1>1 DEF CheckCancel, CancelMessage, Send, IsNext, Sent, Withdrawn,
      ledger, children, IndInv, TypeOK, TeamMessage
  <2>2. UNCHANGED <<assignments, child, outside, closed>>
    BY <1>1 DEF CheckCancel, CancelMessage, Send, ledger, children
  <2>3. QED
    BY <2>1, <2>2, StuckKept
<1>2. ASSUME NEW b \in Assignment, SendReply(b) \/ ReadReply(b) PROVE StuckStays(a)
  <2>1. UNCHANGED <<messages, child, outside, closed>>
    BY <1>2 DEF SendReply, ReadReply, children
  <2>2. /\ assignments'[a].phase = assignments[a].phase
        /\ assignments'[a].mail = assignments[a].mail
        /\ assignments'[a].inbox = assignments[a].inbox
    BY <1>2 DEF SendReply, ReadReply, IndInv, TypeOK, TeamAssignment
  <2>3. QED
    BY <2>1, <2>2, StuckKept DEF Withdrawn
<1>3. ASSUME NEW b \in Assignment, ObserveMail(b) PROVE StuckStays(a)
  <2>1. b # a
    BY <1>3, StuckIs DEF ObserveMail
  <2>2. Withdrawn /\ UNCHANGED <<child, outside, closed>> /\ assignments'[a] = assignments[a]
    BY <1>3, <2>1 DEF ObserveMail, Withdrawn, IndInv, TypeOK, children
  <2>3. QED
    BY <2>2, StuckKept
<1>4. ASSUME NEW b \in Assignment, NEW last \in 0..Messages, BindInbox(b, last) PROVE StuckStays(a)
  <2>1. b # a
    BY <1>4, StuckIs DEF BindInbox
  <2>2. UNCHANGED <<messages, child, outside, closed>> /\ assignments'[a] = assignments[a]
    BY <1>4, <2>1 DEF BindInbox, IndInv, TypeOK, children
  <2>3. QED
    BY <2>2, StuckKept DEF Withdrawn
<1>5. QED
  BY <1>1, <1>2, <1>3, <1>4 DEF MailStep

LEMMA StuckCreate ==
  ASSUME IndInv, NEW a \in Assignment, Stuck(a), UNCHANGED <<messages, child, outside, closed>>,
         NEW b \in Assignment, NEW m, NEW i, NEW r, Create(b, m, i, r)
  PROVE  StuckStays(a)
<1>1. b # a
  BY DEF Create, IsNext, Stuck, Pending
<1>2. assignments'[a] = assignments[a]
  BY <1>1 DEF Create, IndInv, TypeOK
<1>3. QED
  BY <1>2, StuckKept DEF Withdrawn

LEMMA StuckSaga ==
  ASSUME IndInv, NEW a \in Assignment, Stuck(a), SagaStep
  PROVE  StuckStays(a)
<1>1. ASSUME NEW b \in Assignment, NEW m \in Member, NEW i \in {0} \cup Item, Assign(b, m, i)
      PROVE  StuckStays(a)
  BY <1>1, StuckCreate DEF Assign, children
<1>2. ASSUME NEW b \in Assignment, CreateChild(b) \/ PrepareChild(b) \/ PrepareOutside(b) \/ EndChild(b)
      PROVE  StuckStays(a)
  <2>1. child'[a] = child[a] /\ (a \in outside => a \in outside')
        /\ UNCHANGED <<messages, assignments, closed>>
    BY <1>2 DEF CreateChild, PrepareChild, PrepareOutside, EndChild, Stuck,
      ledger, children, IndInv, TypeOK
  <2>2. QED
    BY <2>1, StuckKept DEF Withdrawn
<1>3. ASSUME NEW b \in Assignment, BindChild(b) \/ Observe(b) PROVE StuckStays(a)
  <2>1. b # a
    BY <1>3, StuckIs DEF BindChild, Observe, Stuck
  <2>2. UNCHANGED <<messages, child, outside, closed>> /\ assignments'[a] = assignments[a]
    BY <1>3, <2>1 DEF BindChild, Observe, IndInv, TypeOK, children
  <2>3. QED
    BY <2>2, StuckKept DEF Withdrawn
<1>4. QED
  BY <1>1, <1>2, <1>3 DEF SagaStep

LEMMA StuckWave ==
  ASSUME IndInv, NEW a \in Assignment, Stuck(a), WaveStep
  PROVE  StuckStays(a)
<1>1. CASE Dispatch
  <2>1. UNCHANGED <<messages, child, outside, closed>>
    BY <1>1 DEF Dispatch, children
  <2>2. CASE UNCHANGED assignments
    BY <2>1, <2>2, StuckKept DEF Withdrawn
  <2>3. ASSUME NEW b \in Assignment, Create(b, coord.member, coord.item, coord.run)
        PROVE  StuckStays(a)
    BY <2>1, <2>3, StuckCreate
  <2>4. QED
    BY <1>1, <2>2, <2>3 DEF Dispatch
<1>2. CASE \/ \E r \in Run : StartSchedule(r) \/ Resume(r) \/ RequestCancel(r) \/ Recover(r)
           \/ Shutdown \/ WakeUp \/ Interrupt \/ Crash
  <2>1. UNCHANGED <<messages, assignments, child, outside, closed>>
    BY <1>2 DEF StartSchedule, Resume, RequestCancel, Recover, Shutdown, WakeUp, Interrupt, Crash,
      ledger, children
  <2>2. QED
    BY <2>1, StuckKept DEF Withdrawn
<1>3. CASE TakeUp \/ Loop \/ Select \/ EndDispatch \/ Admit \/ Wait \/ Decide \/ Finish
  <2>1. UNCHANGED <<messages, assignments, child, outside, closed>>
    BY <1>3 DEF TakeUp, Loop, Select, EndDispatch, Admit, Wait, Decide, Finish, ledger, children
  <2>2. QED
    BY <2>1, StuckKept DEF Withdrawn
<1>4. QED
  BY <1>1, <1>2, <1>3 DEF WaveStep, Coordinate

\* Such an assignment stays pending for good, and a member busy and the Team open
\* with it: no reply is sent for a Child that was not asked what its inbox says, no
\* delivery is observed for a cancelled message, and without them the completed
\* assignment is not observed (publish_reply_and_delivery, observe_terminal).
THEOREM StuckForever ==
  Spec => [][\A a \in Assignment : Stuck(a) => Stuck(a)' /\ ~closed']_vars
<1>1. ASSUME IndInv, [Next]_vars, NEW a \in Assignment, Stuck(a) PROVE StuckStays(a)
  <2>1. CASE RosterStep
    <3>1. UNCHANGED <<messages, assignments, child, outside, closed>>
      BY <2>1 DEF RosterStep, Join, Disable, Enable, Leave, Change, children
    <3>2. QED
      BY <1>1, <3>1, StuckKept DEF Withdrawn
  <2>2. CASE WorkStep
    <3>1. UNCHANGED <<messages, assignments, child, outside, closed>>
      BY <2>2 DEF WorkStep, CreateItem, CancelItem, ReleaseItem, CompleteItem, children
    <3>2. QED
      BY <1>1, <3>1, StuckKept DEF Withdrawn
  <2>3. ~CloseTeam
    BY <1>1 DEF CloseTeam, Stuck
  <2>4. CASE UNCHANGED vars
    BY <1>1, <2>4, StuckKept DEF vars, ledger, children, Withdrawn
  <2>5. QED
    BY <1>1, <2>1, <2>2, <2>3, <2>4, StuckMail, StuckSaga, StuckWave DEF Next
<1>2. IndInv /\ [Next]_vars
        => [\A a \in Assignment : Stuck(a) => Stuck(a)' /\ ~closed']_vars
  BY <1>1 DEF StuckStays
<1>3. QED
  BY <1>2, Inductive, PTL DEF Spec

-----------------------------------------------------------------------------
(* The seam to the Child Runs.                                              *)

\* A Team sees the Child of every assignment come to at most one outcome, and to
\* "completed" only after it was prepared (TeamAssignmentManager).
THEOREM OutcomesTaken == Spec => TakesOutcomes
<1>1. ASSUME TypeOK, [Next]_vars, NEW a \in Assignment
      PROVE  [ChildRuns(a)!Next]_(Told(child[a]))
  <2>1. ASSUME NEW b \in Assignment,
               CreateChild(b) \/ PrepareChild(b) \/ PrepareOutside(b) \/ EndChild(b)
        PROVE  [ChildRuns(a)!Next]_(Told(child[a]))
    <3>1. \/ child'[a] = child[a]
          \/ child[a] = "absent" /\ child'[a] = "queued"
          \/ child[a] = "queued" /\ child'[a] \in {"prepared", "failed"}
          \/ child[a] = "prepared" /\ child'[a] \in {"completed", "failed"}
      BY <1>1, <2>1 DEF CreateChild, PrepareChild, PrepareOutside, EndChild, TypeOK
    <3>2. QED
      BY <3>1 DEF ChildRuns!Next, ChildRuns!Moves, Told
  <2>2. ASSUME UNCHANGED child PROVE [ChildRuns(a)!Next]_(Told(child[a]))
    BY <2>2
  <2>3. CASE RosterStep \/ MailStep \/ WorkStep \/ CloseTeam
    <3>1. RosterStep => UNCHANGED child
      BY DEF RosterStep, Join, Disable, Enable, Leave, Change, children
    <3>2. MailStep => UNCHANGED child
      BY DEF MailStep, CheckCancel, CancelMessage, Send, SendReply, ObserveMail, ReadReply, BindInbox,
         children
    <3>3. WorkStep \/ CloseTeam => UNCHANGED child
      BY DEF WorkStep, CreateItem, CancelItem, ReleaseItem, CompleteItem, CloseTeam, children
    <3>4. QED
      BY <2>2, <2>3, <3>1, <3>2, <3>3
  <2>4. CASE SagaStep
    BY <2>1, <2>2, <2>4 DEF SagaStep, Assign, BindChild, Observe, children
  <2>5. CASE WaveStep
    BY <2>2, <2>5 DEF WaveStep, StartSchedule, Resume, RequestCancel, Recover, Shutdown, WakeUp,
      Interrupt, Crash, Coordinate, TakeUp, Loop, Select, EndDispatch, Dispatch, Admit, Wait, Decide, Finish,
       children
  <2>6. CASE UNCHANGED vars
    BY <2>2, <2>6 DEF vars, children
  <2>7. QED
    BY <1>1, <2>3, <2>4, <2>5, <2>6 DEF Next
<1>2. TypeOK /\ [Next]_vars => [\A a \in Assignment : [ChildRuns(a)!Next]_(Told(child[a]))]_vars
  BY <1>1
<1>3. Init => \A a \in Assignment : ChildRuns(a)!Init
  BY DEF Init, ChildRuns!Init, Told
<1>4. QED
  BY <1>2, <1>3, TypeCorrect, PTL DEF Spec, TakesOutcomes

\* Whatever the Child Run of an assignment comes to, at any point of any saga or
\* wave, is a step the Team allows: its preparation too, which is the Team's own only
\* once the inbox is frozen (bind the mailbox, then prepare_child; /child prepare).
THEOREM AnyOutcomeFits ==
  ASSUME NEW a \in Assignment, NEW from, NEW to, <<from, to>> \in ChildRuns(a)!Moves,
         TypeOK, child[a] = Seen(from), child' = [child EXCEPT ![a] = Seen(to)],
         outside' = CASE to = "prepared" /\ assignments[a].mail = "none" -> outside \cup {a}
                      [] to = "stopped" -> outside \ {a}
                      [] OTHER -> outside,
         UNCHANGED <<ledger, callers, coord>>
  PROVE  [Next]_vars
<1>1. \/ child[a] = "queued" /\ to = "prepared" /\ Seen(to) = "prepared"
      \/ child[a] = "prepared" /\ to = "completed" /\ Seen(to) = "completed"
      \/ child[a] \in {"queued", "prepared"} /\ to = "stopped" /\ Seen(to) = "failed"
  BY DEF ChildRuns!Moves, Seen
<1>2. PrepareChild(a) \/ PrepareOutside(a) \/ EndChild(a)
  BY <1>1 DEF PrepareChild, PrepareOutside, EndChild
<1>3. QED
  BY <1>2 DEF Next, SagaStep
=============================================================================
