------------------------ MODULE SessionLedgerProofs ------------------------
(***************************************************************************)
(* Proofs about SessionLedger for any actions, receipts, bindings, modes    *)
(* and record limit: the inductive invariant, the safety properties it      *)
(* implies, and the refinement of the action audit.                         *)
(***************************************************************************)
EXTENDS SessionLedger, TLAPS

-----------------------------------------------------------------------------
(* What a record may do to the replay state. *)

\* Nothing a writer counts on is taken back.
Safe(t, u) == u \in Transcript /\ t.turns <= u.turns /\ t.receipts \subseteq u.receipts

\* A record that is not about actions.
Plain(t, u) == Safe(t, u) /\ u.status = t.status /\ u.request = t.request /\ u.live = t.live

\* A record that interrupts the live action, if there is one.
Cuts(t, u) ==
  /\ Safe(t, u) /\ u.request = t.request /\ u.live = NoAction
  /\ \A a \in Action : u.status[a] =
       IF t.live # a THEN t.status[a]
       ELSE IF t.status[a] = "executing" THEN "outcome-unknown" ELSE "abandoned"

\* A record that moves one action on.
Moves(t, u, a, s) ==
  /\ Safe(t, u) /\ u.request = t.request
  /\ u.status = [t.status EXCEPT ![a] = s]
  /\ u.live = IF s \in OpenStatus THEN t.live ELSE NoAction

\* A replayed record advances the sequence and nothing else.
LEMMA ReplayedFields ==
  ASSUME NEW t \in Transcript, NEW legal \in BOOLEAN, NEW u \in Replayed(legal, t)
  PROVE  /\ legal /\ u \in Transcript
         /\ u.status = t.status /\ u.request = t.request /\ u.live = t.live
         /\ u.binding = t.binding /\ u.turns = t.turns /\ u.receipts = t.receipts
<1>1. legal /\ u = [t EXCEPT !.next = @ + 1]
  BY DEF Replayed
<1>2. t.next + 1 \in Nat
  BY DEF Transcript
<1> QED
  BY <1>1, <1>2 DEF Transcript

\* Turn, runtime, description, compaction, receipt, recovery and close records
\* leave the actions alone.
LEMMA PlainRecords ==
  ASSUME NEW t \in Transcript, NEW b \in Binding
  PROVE  /\ \A u \in TurnCommitted(t, b) : Plain(t, u) /\ u.turns = t.turns + 1
         /\ \A u \in RuntimeChanged(t, b) : Plain(t, u)
         /\ \A u \in Described(t) : Plain(t, u)
         /\ \A u \in ContextCompacted(t, b) : Plain(t, u)
         /\ \A u \in CompactionFailed(t, b) : Plain(t, u)
         /\ \A c \in Receipt : \A u \in Received(t, c) :
              Plain(t, u) /\ u.receipts = t.receipts \cup {c}
         /\ \A u \in SessionClosed(t) : Plain(t, u)
         /\ \A u \in Recovery(t) : Plain(t, u)
<1> DEFINE Good(x) == /\ x \in Transcript /\ x.status = t.status /\ x.request = t.request
                      /\ x.live = t.live /\ t.turns <= x.turns /\ t.receipts \subseteq x.receipts
<1>1. ASSUME NEW x \in Transcript, Good(x), NEW legal \in BOOLEAN, NEW u \in Replayed(legal, x)
      PROVE  Plain(t, u) /\ u.turns = x.turns /\ u.receipts = x.receipts
  BY <1>1, ReplayedFields DEF Plain, Safe
<1> DEFINE more == [t EXCEPT !.turns = @ + 1, !.binding = b]
           got(c) == [t EXCEPT !.receipts = @ \cup {c}]
<1>m. Good(more) /\ more.turns = t.turns + 1
  <2>1. t.turns \in Nat /\ t.turns + 1 \in Nat /\ t.turns <= t.turns + 1
    BY DEF Transcript
  <2>2. more \in Transcript
    BY <2>1 DEF Transcript
  <2>3. /\ more.turns = t.turns + 1 /\ more.status = t.status /\ more.request = t.request
        /\ more.live = t.live /\ more.receipts = t.receipts
    BY DEF Transcript
  <2> QED
    BY <2>1, <2>2, <2>3
<1>g. \A c \in Receipt : Good(got(c)) /\ got(c).receipts = t.receipts \cup {c}
  BY DEF Transcript
<1>n. t.turns \in Nat /\ t.turns <= t.turns
  BY DEF Transcript
<1>s. Good(t)
  BY <1>n
<1>b. Good([t EXCEPT !.binding = b])
  BY <1>n DEF Transcript
<1>c. Good([t EXCEPT !.closed = TRUE])
  BY <1>n DEF Transcript
<1> HIDE DEF Good
<1>t. \A x : Good(x) => x \in Transcript
  BY DEF Good
<1>2. \A u \in TurnCommitted(t, b) : Plain(t, u) /\ u.turns = t.turns + 1
  <2> SUFFICES ASSUME NEW u \in TurnCommitted(t, b)
               PROVE  Plain(t, u) /\ u.turns = t.turns + 1
    OBVIOUS
  <2>1. u \in Replayed(Idle(t), more) /\ Idle(t) \in BOOLEAN
    BY DEF TurnCommitted, Idle, Room
  <2> HIDE DEF more
  <2> QED
    BY <1>m, <1>1, <1>t, <2>1
<1>3. \A u \in RuntimeChanged(t, b) \cup ContextCompacted(t, b) : Plain(t, u)
  BY <1>b, <1>1, <1>t DEF RuntimeChanged, ContextCompacted, Idle, Room
<1>4. \A u \in Described(t) \cup Recovery(t) : Plain(t, u)
  <2>1. Idle(t) \in BOOLEAN /\ (t.next < MaxRecords) \in BOOLEAN
    BY DEF Idle, Room
  <2>2. \A u \in Described(t) : u \in Replayed(Idle(t), t)
    BY DEF Described
  <2>3. \A u \in Recovery(t) : u \in Replayed(t.next < MaxRecords, t)
    BY DEF Recovery
  <2> QED
    BY <2>1, <2>2, <2>3, <1>s, <1>1
<1>7. \A u \in CompactionFailed(t, b) : Plain(t, u)
  <2>1. (Idle(t) /\ b = t.binding) \in BOOLEAN
    BY DEF Idle, Room
  <2> QED
    BY <2>1, <1>s, <1>1, <1>t DEF CompactionFailed
<1>5. \A c \in Receipt : \A u \in Received(t, c) :
        Plain(t, u) /\ u.receipts = t.receipts \cup {c}
  <2> SUFFICES ASSUME NEW c \in Receipt, NEW u \in Received(t, c)
               PROVE  Plain(t, u) /\ u.receipts = t.receipts \cup {c}
    OBVIOUS
  <2>1. u \in Replayed(Idle(t) /\ c \notin t.receipts, got(c))
    BY DEF Received
  <2>2. (Idle(t) /\ c \notin t.receipts) \in BOOLEAN
    BY DEF Idle, Room
  <2> HIDE DEF got
  <2> QED
    BY <1>g, <1>1, <1>t, <2>1, <2>2
<1>6. \A u \in SessionClosed(t) : Plain(t, u)
  BY <1>c, <1>1, <1>t DEF SessionClosed, Idle, Room
<1> QED
  BY <1>2, <1>3, <1>4, <1>5, <1>6, <1>7

\* Interrupting touches the live action only.
LEMMA InterruptedFields ==
  ASSUME NEW t \in Transcript
  PROVE  /\ Interrupted(t) \in Transcript
         /\ Interrupted(t).turns = t.turns /\ Interrupted(t).receipts = t.receipts
         /\ Interrupted(t).request = t.request /\ Interrupted(t).live = NoAction
         /\ \A a \in Action : Interrupted(t).status[a] =
              IF t.live # a THEN t.status[a]
              ELSE IF t.status[a] = "executing" THEN "outcome-unknown" ELSE "abandoned"
<1>1. CASE t.live = NoAction
  BY <1>1, Assumptions DEF Interrupted
<1>2. CASE t.live # NoAction
  <2> DEFINE s == IF t.status[t.live] = "executing" THEN "outcome-unknown" ELSE "abandoned"
             cut == [t.status EXCEPT ![t.live] = s]
  <2>1. t.live \in Action /\ t.status \in [Action -> Status] /\ s \in Status
    BY <1>2 DEF Transcript, Status, Settled
  <2>2. cut \in [Action -> Status]
    BY <2>1
  <2>3. Interrupted(t) = [t EXCEPT !.status = cut, !.live = NoAction]
    BY <1>2, <2>1 DEF Interrupted, Transcript
  <2>4. \A a \in Action : cut[a] = IF t.live # a THEN t.status[a] ELSE s
    BY <2>1
  <2> HIDE DEF cut
  <2> QED
    BY <2>1, <2>2, <2>3, <2>4 DEF Transcript
<1> QED
  BY <1>1, <1>2

\* A failed turn and a resume close what was left open.
LEMMA CuttingRecords ==
  ASSUME NEW t \in Transcript, NEW b \in Binding
  PROVE  \A u \in TurnFailed(t, b) \cup SessionResumed(t, b) : Cuts(t, u)
<1> DEFINE i == Interrupted(t)
<1>1. /\ i \in Transcript /\ i.turns = t.turns /\ i.receipts = t.receipts
      /\ i.request = t.request /\ i.live = NoAction
      /\ \A a \in Action : i.status[a] =
           IF t.live # a THEN t.status[a]
           ELSE IF t.status[a] = "executing" THEN "outcome-unknown" ELSE "abandoned"
  BY InterruptedFields
<1>n. t.turns \in Nat /\ t.turns <= t.turns
  BY DEF Transcript
<1>2. ASSUME NEW x \in Transcript, x.turns = i.turns, x.receipts = i.receipts,
             x.request = i.request, x.live = i.live, x.status = i.status,
             NEW legal \in BOOLEAN, NEW u \in Replayed(legal, x)
      PROVE  Cuts(t, u)
  BY <1>1, <1>2, <1>n, ReplayedFields DEF Cuts, Safe
<1> HIDE DEF i
<1>3. \A u \in TurnFailed(t, b) : Cuts(t, u)
  <2> SUFFICES ASSUME NEW u \in TurnFailed(t, b) PROVE Cuts(t, u)
    OBVIOUS
  <2> DEFINE x == [i EXCEPT !.binding = b]
  <2>1. u \in Replayed(Room(t), x) /\ Room(t) \in BOOLEAN
    BY DEF TurnFailed, Room, i
  <2>2. /\ x \in Transcript /\ x.turns = i.turns /\ x.receipts = i.receipts
        /\ x.request = i.request /\ x.live = i.live /\ x.status = i.status
    BY <1>1 DEF Transcript
  <2> HIDE DEF x
  <2> QED
    BY <1>2, <2>1, <2>2
<1>4. \A u \in SessionResumed(t, b) : Cuts(t, u)
  <2> SUFFICES ASSUME NEW u \in SessionResumed(t, b) PROVE Cuts(t, u)
    OBVIOUS
  <2> DEFINE x == [i EXCEPT !.binding = b, !.closed = FALSE]
  <2>1. u \in Replayed(t.next < MaxRecords, x) /\ (t.next < MaxRecords) \in BOOLEAN
    BY DEF SessionResumed, i
  <2>2. /\ x \in Transcript /\ x.turns = i.turns /\ x.receipts = i.receipts
        /\ x.request = i.request /\ x.live = i.live /\ x.status = i.status
    BY <1>1 DEF Transcript
  <2> HIDE DEF x
  <2> QED
    BY <1>2, <2>1, <2>2
<1> QED
  BY <1>3, <1>4

\* A record that sets one action's status and keeps or clears the live action.
LEMMA MovingRecord ==
  ASSUME NEW t \in Transcript, NEW a \in Action, NEW s \in Status, NEW x,
         x = [t EXCEPT !.status[a] = s, !.live = IF s \in OpenStatus THEN @ ELSE NoAction],
         NEW legal \in BOOLEAN, NEW u \in Replayed(legal, x)
  PROVE  Moves(t, u, a, s)
<1> DEFINE moved == [t.status EXCEPT ![a] = s]
<1>1. t.status \in [Action -> Status] /\ moved \in [Action -> Status]
  BY DEF Transcript
<1>2. x = [t EXCEPT !.status = moved, !.live = IF s \in OpenStatus THEN @ ELSE NoAction]
  OBVIOUS
<1> HIDE DEF moved
<1>c. (IF s \in OpenStatus THEN t.live ELSE NoAction) \in Action \cup {NoAction}
  BY DEF Transcript
<1>3. /\ x \in Transcript /\ x.status = moved /\ x.request = t.request
      /\ x.turns = t.turns /\ x.receipts = t.receipts
      /\ x.live = IF s \in OpenStatus THEN t.live ELSE NoAction
  BY <1>1, <1>2, <1>c DEF Transcript
<1>4. t.turns \in Nat /\ t.turns <= t.turns
  BY DEF Transcript
<1>5. /\ u \in Transcript /\ u.status = x.status /\ u.request = x.request
      /\ u.live = x.live /\ u.turns = x.turns /\ u.receipts = x.receipts
  BY <1>3, ReplayedFields
<1>6. u.status = [t.status EXCEPT ![a] = s]
  BY <1>3, <1>5 DEF moved
<1> QED
  BY <1>3, <1>4, <1>5, <1>6 DEF Moves, Safe

LEMMA RequestedRecord ==
  ASSUME NEW t \in Transcript, NEW a \in Action, NEW q \in Request, NEW b \in Binding,
         NEW u \in ActionRequested(t, a, q, b)
  PROVE  /\ t.live = NoAction /\ t.status[a] = "unused" /\ q.mode \in Modes
         /\ Safe(t, u) /\ u.live = a
         /\ u.status = [t.status EXCEPT ![a] = "requested"]
         /\ u.request = [t.request EXCEPT ![a] = q]
<1> DEFINE legal == Idle(t) /\ t.status[a] = "unused" /\ b = t.binding /\ q.lease = b
           moved == [t.status EXCEPT ![a] = "requested"]
           asked == [t.request EXCEPT ![a] = q]
           x == [t EXCEPT !.status = moved, !.request = asked, !.live = a]
<1>1. t.status \in [Action -> Status] /\ t.request \in [Action -> Request \cup {NoRequest}]
  BY DEF Transcript
<1>2. moved \in [Action -> Status] /\ asked \in [Action -> Request \cup {NoRequest}]
  BY <1>1 DEF Status, OpenStatus
<1>3. u \in Replayed(legal, x) /\ legal \in BOOLEAN
  BY DEF ActionRequested, Idle, Room
<1>4. legal => t.live = NoAction /\ t.status[a] = "unused"
  BY DEF Idle
<1> HIDE DEF legal, moved, asked
<1>5. /\ x \in Transcript /\ x.status = moved /\ x.request = asked /\ x.live = a
      /\ x.turns = t.turns /\ x.receipts = t.receipts
  BY <1>2 DEF Transcript
<1>6. /\ legal /\ u \in Transcript /\ u.status = moved /\ u.request = asked
      /\ u.live = a /\ u.turns = t.turns /\ u.receipts = t.receipts
  <2> HIDE DEF x
  <2> QED
    BY <1>3, <1>5, ReplayedFields
<1>7. t.turns \in Nat /\ t.turns <= t.turns /\ q.mode \in Modes
  BY DEF Transcript, Request
<1> QED
  BY <1>4, <1>6, <1>7 DEF Safe, moved, asked

LEMMA DecidedRecord ==
  ASSUME NEW t \in Transcript, NEW a \in Action, NEW d \in {"allow", "ask", "deny"},
         NEW u \in PermissionDecided(t, a, d)
  PROVE  /\ t.status[a] = "requested" /\ d = Evaluate(ClassOf[a], t.request[a].mode)
         /\ Moves(t, u, a, CASE d = "allow" -> "authorized" [] d = "ask" -> "awaiting-approval"
                             [] d = "deny" -> "denied")
<1> DEFINE s == CASE d = "allow" -> "authorized" [] d = "ask" -> "awaiting-approval"
                  [] d = "deny" -> "denied"
           legal == /\ Room(t) /\ t.status[a] = "requested"
                    /\ d = Evaluate(ClassOf[a], t.request[a].mode)
           x == [t EXCEPT !.status[a] = s, !.live = IF s \in OpenStatus THEN @ ELSE NoAction]
<1>1. s \in Status /\ (s \in OpenStatus <=> d # "deny")
  BY DEF Status, OpenStatus, Settled, Outcomes
<1>2. u \in Replayed(legal, x) /\ legal \in BOOLEAN
  BY <1>1 DEF PermissionDecided, Room
<1>3. legal
  BY <1>2 DEF Replayed
<1> HIDE DEF s
<1>4. Moves(t, u, a, s)
  <2> HIDE DEF legal
  <2> QED
    BY <1>1, <1>2, MovingRecord
<1> QED
  BY <1>3, <1>4 DEF s

LEMMA ResolvedRecord ==
  ASSUME NEW t \in Transcript, NEW a \in Action, NEW s \in {"approved", "rejected", "cancelled"},
         NEW u \in ApprovalResolved(t, a, s)
  PROVE  t.status[a] = "awaiting-approval" /\ Moves(t, u, a, s)
<1> DEFINE legal == Room(t) /\ t.status[a] = "awaiting-approval"
           x == [t EXCEPT !.status[a] = s, !.live = IF s \in OpenStatus THEN @ ELSE NoAction]
<1>1. s \in Status /\ (s \in OpenStatus <=> s = "approved")
  BY DEF Status, OpenStatus, Settled, Outcomes
<1>2. u \in Replayed(legal, x) /\ legal \in BOOLEAN
  BY <1>1 DEF ApprovalResolved, Room
<1>3. legal
  BY <1>2 DEF Replayed
<1>4. Moves(t, u, a, s)
  <2> HIDE DEF legal
  <2> QED
    BY <1>1, <1>2, MovingRecord
<1> QED
  BY <1>3, <1>4

LEMMA StartedRecord ==
  ASSUME NEW t \in Transcript, NEW a \in Action, NEW z, NEW u \in ActionExecutionStarted(t, a, z)
  PROVE  t.status[a] \in {"authorized", "approved"} /\ Moves(t, u, a, "executing")
<1> DEFINE legal == /\ Room(t) /\ t.request[a] # NoRequest /\ t.request[a].lease = t.binding
                    /\ \/ t.status[a] = "authorized" /\ z = "policy_allow"
                       \/ t.status[a] = "approved" /\ z = "approval_grant"
           x == [t EXCEPT !.status[a] = "executing",
                          !.live = IF "executing" \in OpenStatus THEN @ ELSE NoAction]
<1>1. "executing" \in Status /\ "executing" \in OpenStatus
  BY DEF Status, OpenStatus
<1>0. [t EXCEPT !.status[a] = "executing"] = x
  BY <1>1 DEF Transcript
<1>2. u \in Replayed(legal, x) /\ legal \in BOOLEAN
  BY <1>0 DEF ActionExecutionStarted, Room
<1>3. legal
  BY <1>2 DEF Replayed
<1>4. Moves(t, u, a, "executing")
  <2> HIDE DEF legal
  <2> QED
    BY <1>1, <1>2, MovingRecord
<1> QED
  BY <1>3, <1>4

LEMMA FinishedRecord ==
  ASSUME NEW t \in Transcript, NEW a \in Action, NEW s \in Outcomes,
         NEW u \in ActionExecutionFinished(t, a, s)
  PROVE  t.status[a] = "executing" /\ Moves(t, u, a, s)
<1> DEFINE legal == Room(t) /\ t.status[a] = "executing"
           x == [t EXCEPT !.status[a] = s, !.live = IF s \in OpenStatus THEN @ ELSE NoAction]
<1>1. s \in Status /\ s \notin OpenStatus
  BY DEF Status, OpenStatus, Settled, Outcomes
<1>2. u \in Replayed(legal, x) /\ legal \in BOOLEAN
  BY <1>1 DEF ActionExecutionFinished, Room
<1>3. legal
  BY <1>2 DEF Replayed
<1>4. Moves(t, u, a, s)
  <2> HIDE DEF legal
  <2> QED
    BY <1>1, <1>2, MovingRecord
<1> QED
  BY <1>3, <1>4

-----------------------------------------------------------------------------
(* The audit stays consistent. *)

LEMMA AuditedPlain ==
  ASSUME NEW t \in Transcript, NEW u, NEW c, NEW d, Audited(t, c), Plain(t, u), c \subseteq d
  PROVE  Audited(u, d)
BY DEF Audited, Plain

LEMMA AuditedCuts ==
  ASSUME NEW t \in Transcript, NEW u, NEW c, Audited(t, c), Cuts(t, u)
  PROVE  Audited(u, c)
<1>1. \A a \in Action : u.status[a] \notin OpenStatus
  BY Assumptions DEF Audited, Cuts, OpenStatus
<1>2. u.live = NoAction /\ u.request = t.request
  BY DEF Cuts
<1>3. \A a \in Action : t.request[a] = NoRequest => u.status[a] = "unused"
  BY DEF Audited, Cuts, OpenStatus
<1>4. \A a \in Action : u.status[a] \in Ran =>
        t.status[a] \in Ran
  BY DEF Audited, Cuts, Ran, Outcomes
<1> QED
  BY <1>1, <1>2, <1>3, <1>4, Assumptions DEF Audited, Ran, OpenStatus, Outcomes

LEMMA AuditedMoves ==
  ASSUME NEW t \in Transcript, NEW u, NEW a \in Action, NEW s, NEW c, NEW d,
         Audited(t, c), Moves(t, u, a, s), c \subseteq d,
         t.status[a] \in OpenStatus, s # "unused",
         s \in Ran \cup {"authorized", "approved", "awaiting-approval"} =>
           LET e == Evaluate(ClassOf[a], t.request[a].mode)
           IN  \/ e = "allow" /\ s \in Ran \cup {"authorized"}
               \/ e = "ask" /\ (s = "awaiting-approval" \/ a \in d)
  PROVE  Audited(u, d)
<1>1. /\ t.live = a /\ u.request = t.request /\ t.request[a] # NoRequest
      /\ u.live = IF s \in OpenStatus THEN a ELSE NoAction
  BY DEF Audited, Moves, OpenStatus
<1>2. \A b \in Action : u.status[b] = IF b = a THEN s ELSE t.status[b]
  BY DEF Transcript, Moves
<1>3. \A b \in Action : u.status[b] \in OpenStatus <=> u.live = b
  BY <1>1, <1>2, Assumptions DEF Audited
<1> QED
  BY <1>1, <1>2, <1>3 DEF Audited

-----------------------------------------------------------------------------
(* The writer. *)

RanKept(t, u) == \A a \in Action : t.status[a] \in Ran => u.status[a] \in Ran

\* A record the writer may continue with.
Legal(u) == Safe(mem, u) /\ Audited(u, consent') /\ RanKept(mem, u)

EffectsRan ==
  \A a \in Action : /\ effects[a] <= 1
                    /\ effects[a] = 1 => disk.status[a] \in Ran /\ mem.status[a] \in Ran

Tails == {"clean", "torn", "bare", "corrupt"}

Durabilities == tail' \in Tails /\ poisoned' \in BOOLEAN /\ slipped' \in BOOLEAN

\* What every step of the process leaves true of the file and its writer.
FileGrows ==
  /\ disk' \in Transcript /\ mem' \in Transcript /\ Durabilities
  /\ mem.turns <= mem'.turns /\ mem.receipts \subseteq mem'.receipts
  /\ mem'.turns <= disk'.turns /\ mem'.receipts \subseteq disk'.receipts
  /\ Audited(disk', consent') /\ Audited(mem', consent') /\ EffectsRan'

\* What holds of the process's own state before a step.
LEMMA Own ==
  ASSUME IndInv
  PROVE  /\ disk \in Transcript /\ mem \in Transcript /\ tail \in Tails
         /\ disk.turns \in Nat /\ mem.turns \in Nat /\ history \in Nat /\ history <= mem.turns
         /\ poisoned \in BOOLEAN /\ slipped \in BOOLEAN
         /\ job \in Job \cup {NoJob} /\ rt \in Binding /\ mode \in Modes
         /\ effects \in [Action -> Nat] /\ consent \subseteq Action
         /\ told \subseteq mem.receipts /\ told \subseteq Receipt
         /\ mem.turns <= disk.turns /\ mem.receipts \subseteq disk.receipts
         /\ Audited(disk, consent) /\ Audited(mem, consent) /\ EffectsRan
BY DEF IndInv, TypeOK, Tails, KnownFirst, WriterKnowsFile, Accounts, OneExecution, EffectsRan,
       Transcript

LEMMA SelfLeq == \A n \in Nat : n <= n
  OBVIOUS

LEMMA PlainLegal ==
  ASSUME NEW u, IndInv, Plain(mem, u), consent \subseteq consent'
  PROVE  Legal(u)
BY Own, AuditedPlain DEF Legal, Plain, RanKept

LEMMA CutsLegal ==
  ASSUME NEW u, IndInv, Cuts(mem, u), consent' = consent
  PROVE  Legal(u)
<1>2. Audited(u, consent')
  BY Own, AuditedCuts
<1>3. RanKept(mem, u)
  BY Own DEF Audited, Cuts, RanKept, Ran, Outcomes, OpenStatus
<1> QED
  BY <1>2, <1>3 DEF Legal, Cuts

\* More acceptances make no audit worse.
LEMMA AuditedStill ==
  ASSUME IndInv, consent \subseteq consent'
  PROVE  Audited(disk, consent') /\ Audited(mem, consent')
<1>1. Plain(disk, disk) /\ Plain(mem, mem)
  BY Own, SelfLeq DEF Plain, Safe
<1> QED
  BY <1>1, Own, AuditedPlain

LEMMA FileStays ==
  ASSUME IndInv, UNCHANGED <<disk, effects>>, mem' \in {mem, disk}, Durabilities,
         consent \subseteq consent'
  PROVE  FileGrows
<1>1. mem.turns <= mem.turns /\ disk.turns <= disk.turns
  BY Own, SelfLeq
<1>2. EffectsRan'
  BY Own DEF EffectsRan
<1> QED
  BY <1>1, <1>2, Own, AuditedStill DEF FileGrows

LEMMA FileContinues ==
  ASSUME IndInv, UNCHANGED effects, consent \subseteq consent', NEW u, Legal(u),
         disk' \in {disk, u}, mem' \in {mem, disk'}, Durabilities
  PROVE  FileGrows
<1>1. /\ u \in Transcript /\ u.turns \in Nat /\ mem.turns <= u.turns
      /\ mem.receipts \subseteq u.receipts /\ Audited(u, consent')
  BY DEF Legal, Safe, Transcript
<1>2. \A a \in Action : effects[a] = 1 => u.status[a] \in Ran
  BY Own DEF Legal, RanKept, EffectsRan
<1>3. EffectsRan'
  BY <1>2, Own DEF EffectsRan
<1>4. mem.turns <= mem.turns /\ disk.turns <= disk.turns /\ u.turns <= u.turns
  BY <1>1, Own, SelfLeq
<1> QED
  BY <1>1, <1>3, <1>4, Own, AuditedStill DEF FileGrows

\* A whole record takes the file to where the writer is, and keeps it legal if
\* the writer knew its end.
LEMMA PutFile ==
  ASSUME NEW t, tail \in Tails, Put(mem, t)
  PROVE  /\ disk' = t /\ tail' \in Tails
         /\ mem = disk /\ tail = "clean" => tail' = "clean"
BY DEF Put, Tails

\* An append that raised may have done so.
LEMMA PutUncertainFile ==
  ASSUME NEW t, tail \in Tails, PutUncertain(mem, t)
  PROVE  /\ disk' \in {disk, t} /\ tail' \in Tails
         /\ mem = disk /\ tail = "clean" => tail' # "corrupt"
BY DEF PutUncertain, Put, Cut, file, Tails

LEMMA Places ==
  /\ Writing \cap ({"free"} \cup Resuming \cup Repairing) = {}
  /\ Coordinating \cap ({"free"} \cup Resuming \cup Repairing) = {}
  /\ Writing \subseteq Labels /\ Coordinating \subseteq Writing
  /\ Homes \subseteq Writing \ Coordinating
  /\ {"ready", "audit", "turn", "committed", "failing", "failed"} \subseteq Writing \ Coordinating
BY DEF Writing, Coordinating, Resuming, Repairing, Labels, Homes

\* SessionWriter._append: whatever happens to a legal record, the file and the
\* writer stay sound, and a writer that was not interrupted knows the file.
LEMMA WriterWrites ==
  ASSUME IndInv, pc \in Writing, NEW T, NEW ok \in Writing, NEW err \in Writing \ Coordinating,
         NEW esc \in Writing \ (Coordinating \cup {"committed"}),
         Write(T, ok, err, esc), UNCHANGED effects, consent \subseteq consent',
         err = "committed" => pc \in Coordinating \cup {"committed"},
         ~poisoned => \A u \in T : Legal(u)
  PROVE  /\ FileGrows /\ WriterKnowsFile' /\ pc' \in {ok, err, esc}
         /\ pc' \notin {err, esc} => /\ ~poisoned /\ ~poisoned' /\ mem' = disk' /\ mem' \in T
<1>0. /\ tail \in Tails /\ poisoned \in BOOLEAN /\ slipped \in BOOLEAN
      /\ ~poisoned /\ ~slipped => mem = disk /\ tail = "clean"
      /\ pc \in Coordinating \cup {"committed"} /\ ~poisoned => mem = disk
      /\ tail = "corrupt" => slipped
  BY Own, Places DEF IndInv, WriterKnowsFile
<1>w. Writing \cap {"cut", "noted", "repair cut", "prepared", "repair", "free"} = {}
  BY DEF Writing, Coordinating
<1>k. ASSUME FileGrows, pc' \in Writing, tail' = "corrupt" => slipped',
             ~poisoned' /\ ~slipped' => mem' = disk' /\ tail' = "clean",
             pc' \in Coordinating \cup {"committed"} /\ ~poisoned' => mem' = disk',
             pc' \in Coordinating => ~poisoned'
      PROVE  WriterKnowsFile'
  BY <1>w, <1>k DEF WriterKnowsFile, FileGrows
<1>1. CASE /\ ~poisoned /\ UNCHANGED durability /\ pc' = ok
           /\ \E t \in T : Put(mem, t) /\ mem' = t
  <2> PICK t \in T : Put(mem, t) /\ mem' = t
    BY <1>1
  <2>1. /\ disk' = t /\ tail' \in Tails /\ Legal(t) /\ ~poisoned' /\ slipped' = slipped
        /\ ~slipped => tail' = "clean"
    BY <1>0, <1>1, PutFile DEF durability
  <2>d. Durabilities
    BY <1>0, <1>1, <2>1 DEF Durabilities, durability
  <2>2. FileGrows
    BY <2>1, <2>d, FileContinues
  <2>3. WriterKnowsFile'
    BY <1>0, <1>1, <1>k, <2>1, <2>2
  <2> QED
    BY <1>1, <2>1, <2>2, <2>3
<1>2. CASE /\ ~poisoned /\ Uncertain /\ pc' = err
           /\ \E t \in T : PutUncertain(mem, t) /\ UNCHANGED <<mem, slipped>>
  <2> PICK t \in T : PutUncertain(mem, t) /\ UNCHANGED <<mem, slipped>>
    BY <1>2
  <2>1. /\ disk' \in {disk, t} /\ tail' \in Tails /\ Legal(t) /\ mem' = mem
        /\ poisoned' = TRUE /\ slipped' = slipped
        /\ ~slipped => tail' # "corrupt"
    BY <1>0, <1>2, PutUncertainFile DEF Uncertain
  <2>d. Durabilities
    BY <1>0, <2>1 DEF Durabilities
  <2>2. FileGrows
    BY <2>1, <2>d, FileContinues
  <2>3. WriterKnowsFile'
    BY <1>0, <1>2, <1>k, <2>1, <2>2
  <2> QED
    BY <1>2, <2>2, <2>3
<1>3. CASE ~poisoned /\ Interrupt(T) /\ pc' = esc
  <2> PICK t \in T : PutUncertain(mem, t)
    BY <1>3 DEF Interrupt
  <2>1. /\ disk' \in {disk, t} /\ tail' \in Tails /\ Legal(t) /\ ~poisoned'
        /\ mem' = mem /\ slipped' = (slipped \/ file' # file)
        /\ ~slipped => tail' # "corrupt"
    BY <1>0, <1>3, PutUncertainFile DEF Interrupt
  <2>2. slipped' \in BOOLEAN /\ (~slipped' => ~slipped /\ disk' = disk /\ tail' = tail)
    BY <1>0, <2>1 DEF file
  <2>3. FileGrows
    BY <1>0, <1>3, <2>1, <2>2, FileContinues DEF Durabilities, Interrupt
  <2>4. WriterKnowsFile'
    BY <1>0, <1>3, <1>k, <2>1, <2>2, <2>3
  <2> QED
    BY <1>3, <2>3, <2>4
<1>4. CASE pc' = err /\ UNCHANGED <<file, writer>>
  <2>1. UNCHANGED <<disk, tail, mem, poisoned, slipped>>
    BY <1>4 DEF file, writer, durability
  <2>2. FileGrows
    BY <1>0, <2>1, FileStays DEF Durabilities
  <2>3. WriterKnowsFile'
    BY <1>0, <1>4, <1>k, <2>1, <2>2
  <2> QED
    BY <1>4, <2>2, <2>3
<1> QED
  BY <1>1, <1>2, <1>3, <1>4 DEF Write

\* A writer that holds what the file holds.
LEMMA KnowsFile ==
  ASSUME mem' = disk', disk' \in Transcript, ~poisoned', ~slipped', tail' # "corrupt",
         pc' \in Writing \cup {"cut", "noted", "repair cut"} => tail' = "clean",
         pc' \in {"prepared", "repair"} => tail' \in {"clean", "torn"}
  PROVE  WriterKnowsFile'
<1>1. disk'.turns \in Nat
  BY DEF Transcript
<1> QED
  BY <1>1, SelfLeq DEF WriterKnowsFile

\* Giving the lock up forgets everything but the file.
LEMMA ReleaseKeeps ==
  ASSUME IndInv, FileGrows, Release
  PROVE  IndInv'
<1>0. disk'.turns \in Nat /\ 0 <= disk'.turns
  BY DEF FileGrows, Transcript
<1>1. TypeOK'
  BY Own DEF IndInv, TypeOK, FileGrows, Release, runtime, world, NoJob, Job, Homes, Labels,
             Durabilities, Tails
<1>2. KnownFirst'
  BY <1>0, Own DEF KnownFirst, FileGrows, Release, world, Coordinating
<1>3. WriterKnowsFile'
  BY <1>0, SelfLeq DEF WriterKnowsFile, Release, Writing, Coordinating
<1>4. OneExecution' /\ Accounts(disk)' /\ Accounts(mem)'
  BY DEF OneExecution, Accounts, Release, Coordinating, FileGrows, EffectsRan
<1> QED
  BY <1>1, <1>2, <1>3, <1>4 DEF IndInv

-----------------------------------------------------------------------------
(* The steps. *)

\* The invariant, from what is left to show once the file grew legally.
LEMMA Assemble ==
  ASSUME IndInv, FileGrows, WriterKnowsFile',
         pc' \in Labels, job' \in Job \cup {NoJob}, rt' \in Binding, mode' \in Modes,
         history' \in Nat, history' <= mem'.turns, told' \subseteq mem'.receipts,
         consent' \subseteq Action, effects' \in [Action -> Nat],
         pc' \in Coordinating => job' \in Job,
         pc' \in {"started", "ran"} => disk'.status[job'.action] = "executing",
         pc' = "started" => effects'[job'.action] = 0,
         pc' = "ran" => effects'[job'.action] = 1,
         pc' = "committed" \/ (pc' \in Coordinating /\ job'.home = "committed")
           => history' < mem'.turns
  PROVE  IndInv'
<1>1. told' \subseteq Receipt
  BY DEF FileGrows, Transcript
<1>2. TypeOK'
  BY <1>1 DEF TypeOK, FileGrows, Durabilities, Tails
<1>3. OneExecution' /\ Accounts(disk)' /\ Accounts(mem)'
  BY DEF OneExecution, Accounts, FileGrows, EffectsRan
<1>4. KnownFirst'
  BY DEF KnownFirst
<1> QED
  BY <1>2, <1>3, <1>4 DEF IndInv

\* A step that leaves the process outside an action and what it knows alone.
LEMMA AssembleElsewhere ==
  ASSUME IndInv, FileGrows, WriterKnowsFile',
         pc' \in Labels \ Coordinating, job' \in Job \cup {NoJob},
         rt' \in Binding, mode' \in Modes,
         UNCHANGED <<history, effects, consent, told>>,
         pc' = "committed" => history < mem'.turns
  PROVE  IndInv'
<1>1. /\ history' \in Nat /\ history' <= mem'.turns /\ told' \subseteq mem'.receipts
      /\ consent' \subseteq Action /\ effects' \in [Action -> Nat]
  <2>1. mem.turns \in Nat /\ mem'.turns \in Nat
    BY DEF IndInv, TypeOK, FileGrows, Transcript
  <2> QED
    BY <2>1, Own DEF FileGrows
<1>2. pc' \notin {"started", "ran"}
  BY DEF Coordinating
<1> QED
  BY <1>1, <1>2, Assemble

LEMMA TypeInit == Init => IndInv
<1> SUFFICES ASSUME Init PROVE IndInv
  OBVIOUS
<1>1. disk \in Transcript /\ disk.turns = 0 /\ disk.receipts = {}
      /\ disk.live = NoAction /\ mem = disk
      /\ \A a \in Action : disk.status[a] = "unused"
  BY DEF Init, Fresh, Transcript, Status
<1>2. TypeOK
  BY <1>1 DEF Init, TypeOK, Labels, Job, NoJob, Homes
<1>3. Audited(disk, consent)
  BY <1>1, Assumptions DEF Audited, OpenStatus, Ran, Outcomes
<1>4. WriterKnowsFile /\ KnownFirst
  BY <1>1 DEF Init, WriterKnowsFile, Writing, Coordinating, KnownFirst
<1>5. OneExecution /\ Accounts(disk) /\ Accounts(mem)
  BY <1>1, <1>3 DEF Init, OneExecution, Accounts, Coordinating
<1> QED
  BY <1>2, <1>3, <1>4, <1>5 DEF IndInv

\* The lock is taken, kept or given up around a resume, a repair and a close.
LEMMA ResumeKeeps ==
  ASSUME IndInv, Resume \/ CloseSession \/ Leave \/ Crash
  PROVE  IndInv'
<1>1. ASSUME UNCHANGED file, Release
      PROVE  IndInv'
  <2>1. /\ UNCHANGED <<disk, effects, consent>> /\ mem' = disk /\ tail' \in Tails
        /\ poisoned' = FALSE /\ slipped' = FALSE
    BY <1>1, Own DEF Release, world, file
  <2>2. FileGrows
    BY <2>1, FileStays DEF Durabilities
  <2> QED
    BY <1>1, <2>2, ReleaseKeeps
<1>2. ASSUME NEW t, Plain(mem, t) \/ Cuts(mem, t), Release, Put(mem, t) \/ PutUncertain(mem, t)
      PROVE  IndInv'
  <2>1. Legal(t)
    BY <1>2, PlainLegal, CutsLegal DEF Release, world
  <2>2. disk' \in {disk, t} /\ tail' \in Tails
    BY <1>2, Own, PutFile, PutUncertainFile
  <2>3. UNCHANGED <<effects, consent>> /\ mem' = disk' /\ Durabilities
    BY <1>2, <2>2 DEF Release, world, Durabilities
  <2>4. FileGrows
    BY <2>1, <2>2, <2>3, FileContinues
  <2> QED
    BY <1>2, <2>4, ReleaseKeeps
<1>4. ASSUME NEW l \in {"prepared", "repair", "audit"}, Take(l),
             tail = "clean" \/ (l # "audit" /\ tail = "torn")
      PROVE  IndInv'
  <2>1. /\ pc = "free" /\ UNCHANGED <<disk, tail, job, history, effects, consent, told>>
        /\ pc' = l /\ mem' = disk /\ poisoned' = FALSE /\ slipped' = FALSE
        /\ rt' \in Binding /\ mode' \in Modes
    BY <1>4 DEF Take, file, world
  <2>2. FileGrows
    BY <2>1, Own, FileStays DEF Durabilities
  <2>3. pc' \in Labels \ Coordinating /\ pc' # "committed" /\ (l \in Writing => l = "audit")
    BY <2>1, Places DEF Resuming, Repairing, Labels, Writing, Coordinating
  <2>4. WriterKnowsFile'
    BY <1>4, <2>1, <2>3, Own, KnowsFile
  <2> QED
    BY <2>1, <2>2, <2>3, <2>4, Own, AssembleElsewhere
<1>5. CASE PrepareResume \/ BeginRepair \/ OpenForAudit
  BY <1>4, <1>5 DEF PrepareResume, BeginRepair, OpenForAudit
<1>6. CASE AbortResume \/ Leave \/ Crash
  BY <1>1, <1>6 DEF AbortResume, Leave, Crash, file
<1>7. CASE CutTail
  <2>1. /\ UNCHANGED <<disk, mem, poisoned, slipped, job, rt, mode, history, effects, consent, told>>
        /\ tail' = "clean" /\ pc' \in {"cut", "repair cut"} /\ mem = disk /\ ~poisoned /\ ~slipped
    <3>1. pc \in {"prepared", "repair"} => mem = disk /\ ~poisoned /\ ~slipped
      BY Places DEF IndInv, WriterKnowsFile, Resuming, Repairing
    <3> QED
      BY <1>7, <3>1 DEF CutTail, writer, durability, runtime, world
  <2>2. pc' \in Labels \ Coordinating /\ pc' # "committed"
    BY <2>1, Places DEF Resuming, Repairing, Labels
  <2>3. WriterKnowsFile'
    BY <2>1, Own, KnowsFile
  <2>4. FileGrows
    BY <2>1, Own, FileStays DEF Durabilities, Tails
  <2> QED
    BY <2>1, <2>2, <2>3, <2>4, Own, AssembleElsewhere
<1>8. ASSUME pc \in {"cut", "noted", "repair cut"} \/ (pc = "prepared" /\ tail = "clean")
      PROVE  mem = disk /\ tail = "clean" /\ ~poisoned /\ ~slipped
  BY <1>8, Places DEF IndInv, WriterKnowsFile, Resuming, Repairing
<1>9. CASE AppendRecovery
  <2>1. mem = disk /\ tail = "clean" /\ ~poisoned /\ ~slipped
    BY <1>8, <1>9 DEF AppendRecovery
  <2>2. \A t \in Recovery(mem) : Plain(mem, t)
    BY Own, PlainRecords DEF Recovery, Replayed
  <2>3. CASE Recover(Recovery(mem))
    BY <1>2, <2>2, <2>3 DEF Recover
  <2>4. CASE /\ \E t \in Recovery(mem) : Put(mem, t) /\ mem' = t
             /\ pc' = "noted" /\ UNCHANGED <<durability, job, runtime, history, world>>
    <3> PICK t \in Recovery(mem) : Put(mem, t) /\ mem' = t
      BY <2>4
    <3>1. /\ disk' = t /\ tail' = "clean" /\ Legal(t) /\ ~poisoned' /\ ~slipped'
          /\ UNCHANGED <<job, rt, mode, history, effects, consent, told>>
      BY <2>1, <2>2, <2>4, Own, PutFile, PlainLegal DEF world, durability, runtime
    <3>d. Durabilities
      BY <2>4, <3>1, Own DEF Durabilities, Tails, durability
    <3>2. FileGrows
      BY <2>4, <3>1, <3>d, FileContinues
    <3>3. WriterKnowsFile'
      BY <2>4, <3>1, <3>2, KnowsFile DEF FileGrows
    <3>4. pc' \in Labels \ Coordinating /\ pc' # "committed"
      BY <2>4, Places DEF Resuming, Labels
    <3> QED
      BY <3>1, <3>2, <3>3, <3>4, Own, AssembleElsewhere
  <2> QED
    BY <1>9, <2>3, <2>4 DEF AppendRecovery
<1>10. CASE RepairTranscript
  <2>2. \A t \in Recovery(mem) : Plain(mem, t)
    BY Own, PlainRecords DEF Recovery, Replayed
  <2> QED
    BY <1>2, <1>10, <2>2 DEF RepairTranscript
<1>11. CASE AppendResumed
  <2>1. mem = disk /\ tail = "clean" /\ ~poisoned /\ ~slipped
    BY <1>8, <1>11 DEF AppendResumed
  <2>2. \A t \in SessionResumed(mem, rt) : Cuts(mem, t)
    BY Own, CuttingRecords
  <2>3. CASE Recover(SessionResumed(mem, rt))
    BY <1>2, <2>2, <2>3 DEF Recover
  <2>4. CASE /\ \E t \in SessionResumed(mem, rt) : Put(mem, t) /\ mem' = t
             /\ pc' = "ready" /\ history' = mem.turns
             /\ UNCHANGED <<durability, job, runtime, world>>
    <3> PICK t \in SessionResumed(mem, rt) : Put(mem, t) /\ mem' = t
      BY <2>4
    <3>1. /\ disk' = t /\ tail' = "clean" /\ Legal(t) /\ ~poisoned' /\ ~slipped'
          /\ UNCHANGED <<job, rt, mode, effects, consent, told>>
      BY <2>1, <2>2, <2>4, Own, PutFile, CutsLegal DEF world, durability, runtime
    <3>d. Durabilities
      BY <2>4, <3>1, Own DEF Durabilities, Tails, durability
    <3>2. FileGrows
      BY <2>4, <3>1, <3>d, FileContinues
    <3>3. WriterKnowsFile'
      BY <2>4, <3>1, <3>2, KnowsFile DEF FileGrows
    <3>4. /\ pc' \in Labels \ Coordinating /\ pc' \notin {"started", "ran"} /\ pc' # "committed"
          /\ history' \in Nat /\ history' <= mem'.turns /\ told' \subseteq mem'.receipts
      BY <2>4, <3>1, <3>2, Own, Places DEF FileGrows, Coordinating
    <3> QED
      BY <3>1, <3>2, <3>3, <3>4, Own, Assemble
  <2> QED
    BY <1>11, <2>3, <2>4 DEF AppendResumed
<1>12. CASE CloseSession
  <2>2. \A t \in SessionClosed(mem) : Plain(mem, t)
    BY Own, PlainRecords DEF SessionClosed, Replayed
  <2> QED
    BY <1>2, <1>12, <2>2 DEF CloseSession
<1> QED
  BY <1>5, <1>6, <1>7, <1>9, <1>10, <1>11, <1>12 DEF Resume

\* A record that is written outside an action and says nothing of one but that
\* it is interrupted.
LEMMA WriteElsewhere ==
  ASSUME IndInv, pc \in Writing, NEW T, NEW ok \in Writing \ Coordinating,
         NEW err \in Writing \ (Coordinating \cup {"committed"}),
         NEW esc \in Writing \ (Coordinating \cup {"committed"}), Write(T, ok, err, esc),
         UNCHANGED <<job, history, effects, consent, told>>,
         rt' \in Binding, mode' \in Modes,
         \A u \in T : Plain(mem, u) \/ Cuts(mem, u),
         ok = "committed" => \A u \in T : u.turns = mem.turns + 1
  PROVE  IndInv'
<1>1. \A u \in T : Legal(u)
  BY PlainLegal, CutsLegal
<1>2. /\ FileGrows /\ WriterKnowsFile' /\ pc' \in {ok, err, esc}
      /\ pc' \notin {err, esc} => mem' \in T
  BY <1>1, WriterWrites
<1>3. pc' = "committed" => history < mem'.turns
  BY <1>2, Own
<1> QED
  BY <1>2, <1>3, Own, Places, AssembleElsewhere

\* A step that writes nothing.
LEMMA StepFile ==
  ASSUME IndInv, UNCHANGED <<file, writer, effects, consent>>, pc \in Writing, pc' \in Writing,
         pc' = "committed" => pc \in Coordinating \cup {"committed"},
         pc' \in Coordinating => pc \in Coordinating
  PROVE  FileGrows /\ WriterKnowsFile'
<1>0. UNCHANGED <<disk, tail, mem, poisoned, slipped>>
  BY DEF file, writer, durability
<1>1. FileGrows
  BY <1>0, Own, FileStays DEF Durabilities
<1>2. WriterKnowsFile'
  BY <1>0, Places DEF IndInv, WriterKnowsFile, Writing, Coordinating
<1> QED
  BY <1>1, <1>2

\* Turns and what is recorded between them.
LEMMA TurnKeeps ==
  ASSUME IndInv, SwitchRuntime \/ Describe \/ Turn
  PROVE  IndInv'
<1>p. /\ "ready" \in Writing \ Coordinating /\ "turn" \in Writing \ Coordinating
      /\ "committed" \in Writing \ Coordinating /\ "failing" \in Writing \ Coordinating
      /\ "failed" \in Writing \ Coordinating
  BY Places
<1>1. CASE SwitchRuntime
  <2> DEFINE T == RuntimeChanged(mem, rt')
  <2>1. /\ pc = "ready" /\ rt' \in Binding /\ Write(T, "ready", "ready", "ready")
        /\ UNCHANGED <<job, mode, history, effects, consent, told>>
    BY <1>1 DEF SwitchRuntime, world
  <2>2. \A u \in T : Plain(mem, u)
    BY <2>1, Own, PlainRecords
  <2> HIDE DEF T
  <2> QED
    BY <1>p, <2>1, <2>2, Own, WriteElsewhere
<1>2. CASE Describe
  <2> PICK T \in {Described(mem), ContextCompacted(mem, rt), CompactionFailed(mem, rt)} :
             Write(T, "ready", "ready", "ready")
    BY <1>2 DEF Describe
  <2>1. /\ pc = "ready"
        /\ UNCHANGED <<job, rt, mode, history, effects, consent, told>>
    BY <1>2 DEF Describe, world, runtime
  <2>2. \A u \in T : Plain(mem, u)
    BY Own, PlainRecords
  <2> QED
    BY <1>p, <2>1, <2>2, Own, WriteElsewhere
<1>3. CASE CommitTurn
  <2> DEFINE T == TurnCommitted(mem, rt)
  <2>1. /\ pc = "turn" /\ Write(T, "committed", "failing", "failing")
        /\ UNCHANGED <<job, rt, mode, history, effects, consent, told>>
    BY <1>3 DEF CommitTurn, world, runtime
  <2>2. \A u \in T : Plain(mem, u) /\ u.turns = mem.turns + 1
    BY Own, PlainRecords
  <2> HIDE DEF T
  <2> QED
    BY <1>p, <2>1, <2>2, Own, WriteElsewhere
<1>4. CASE RecordFailure
  <2> DEFINE T == TurnFailed(mem, rt)
  <2>1. /\ pc = "failing" /\ Write(T, "failed", "ready", "ready")
        /\ UNCHANGED <<job, rt, mode, history, effects, consent, told>>
    BY <1>4 DEF RecordFailure, world, runtime
  <2>2. \A u \in T : Cuts(mem, u)
    BY Own, CuttingRecords
  <2> HIDE DEF T
  <2> QED
    BY <1>p, <2>1, <2>2, Own, WriteElsewhere
<1>5. CASE BeginTurn \/ TurnRaises \/ EndFailure
  <2>1. /\ pc \in Writing /\ pc' \in {"turn", "failing", "ready"}
        /\ UNCHANGED <<file, writer, job, rt, mode, history, effects, consent, told>>
    BY <1>5, <1>p DEF BeginTurn, TurnRaises, EndFailure, Step, runtime, world
  <2>2. FileGrows /\ WriterKnowsFile'
    BY <2>1, <1>p, StepFile
  <2> QED
    BY <1>p, <2>1, <2>2, Own, Places, AssembleElsewhere
<1>6. CASE Remember
  <2>1. /\ pc = "committed" /\ pc' = "ready" /\ history' = history + 1
        /\ UNCHANGED <<file, writer, job, rt, mode, effects, consent, told>>
    BY <1>6 DEF Remember, runtime, world
  <2>2. FileGrows /\ WriterKnowsFile'
    BY <2>1, <1>p, StepFile
  <2>3. history < mem.turns
    BY <2>1 DEF IndInv, KnownFirst
  <2>4. history' \in Nat /\ history' <= mem'.turns /\ told' \subseteq mem'.receipts
    BY <2>1, <2>3, Own DEF writer
  <2>5. pc' \notin Coordinating /\ pc' \notin {"started", "ran", "committed"} /\ pc' \in Labels
    BY <2>1, <1>p, Places
  <2> QED
    BY <2>1, <2>2, <2>4, <2>5, Own, Assemble
<1> QED
  BY <1>1, <1>2, <1>3, <1>4, <1>5, <1>6 DEF Turn

\* A receipt is handed out once it is durable.
LEMMA DeliverKeeps ==
  ASSUME IndInv, NEW c \in Receipt, Deliver(c)
  PROVE  IndInv'
<1>1. /\ pc \in {"ready", "audit", "turn"} /\ pc \in Writing \ Coordinating
      /\ Escapes(pc) \in {"ready", "audit", "failing"}
      /\ {"ready", "audit", "failing"} \subseteq Writing \ (Coordinating \cup {"committed"})
      /\ UNCHANGED <<job, rt, mode, history, effects, consent>>
      /\ told' = HandOut(c)
  BY Places DEF Deliver, runtime, Escapes
<1>2. FileGrows /\ WriterKnowsFile' /\ pc' \in {"ready", "audit", "turn", "failing"}
  <2>1. CASE c \in mem.receipts
    <3>1. UNCHANGED <<file, writer, pc, effects, consent>>
      BY <1>1, <2>1 DEF Deliver
    <3> QED
      BY <1>1, <3>1, StepFile
  <2>2. CASE c \notin mem.receipts
    <3> DEFINE T == Received(mem, c)
               err == Escapes(pc)
    <3>1. Write(T, pc, err, err) /\ err \in {"ready", "audit", "failing"}
      BY <1>1, <2>2 DEF Deliver
    <3>2. \A u \in T : Legal(u)
      BY <1>1, Own, PlainRecords, PlainLegal
    <3>3. pc' \in {pc, err} /\ FileGrows /\ WriterKnowsFile'
      <4> HIDE DEF T, err
      <4> QED
        BY <1>1, <3>1, <3>2, WriterWrites
    <3> QED
      BY <1>1, <3>1, <3>3
  <2> QED
    BY <2>1, <2>2
<1>3. told' \subseteq mem'.receipts
  BY <1>1, <1>2, Own DEF HandOut, FileGrows
<1>4. history' \in Nat /\ history' <= mem'.turns
  <2>1. mem'.turns \in Nat /\ mem.turns <= mem'.turns
    BY <1>2 DEF FileGrows, Transcript
  <2> QED
    BY <1>1, <2>1, Own
<1>5. pc' \in Labels \ Coordinating /\ pc' \notin {"started", "ran", "committed"}
  BY <1>2, Places DEF Coordinating
<1> QED
  BY <1>1, <1>2, <1>3, <1>4, <1>5, Own, Assemble

-----------------------------------------------------------------------------
(* ActionCoordinator.run keeps it. *)

\* Where an exception leads.
LEMMA RaisesPlaces ==
  ASSUME IndInv, pc \in Coordinating
  PROVE  /\ Raises \in {"turn", "committed", "failed", "failing"}
         /\ Raises = "committed" => job.home = "committed"
         /\ Escapes(job.home) \in {"ready", "failing"}
         /\ job \in Job /\ job.action \in Action /\ job.home \in Homes
<1>1. job \in Job
  BY DEF IndInv, OneExecution
<1>2. job.home \in Homes /\ job.action \in Action /\ job.guarded \in BOOLEAN
  BY <1>1 DEF Job
<1> QED
  BY <1>1, <1>2 DEF Raises, Escapes, Homes

\* What a step of an action, but for its request and its effect, has to show:
\* T is what its record may replay to, s the action's status after it.
LEMMA WriteAction ==
  ASSUME IndInv, pc \in Coordinating, NEW T, NEW s, NEW ok,
         Write(T, ok, Raises, Escapes(job.home)),
         ok \in Coordinating \cup {job.home}, ok # "ran",
         KeepJob, UNCHANGED <<rt, mode, history, effects, told>>,
         consent \subseteq consent', consent' \subseteq Action,
         \A u \in T : /\ Legal(u) /\ Moves(mem, u, job.action, s)
                      /\ s = "executing" => mem.status[job.action] \notin Ran,
         ok = "started" => s = "executing"
  PROVE  IndInv'
<1> DEFINE err == Raises
           esc == Escapes(job.home)
<1>0. /\ pc \in Writing /\ job \in Job /\ job.home \in Homes /\ job.action \in Action
      /\ err \in Writing \ Coordinating /\ ok \in Writing
      /\ esc \in Writing \ (Coordinating \cup {"committed"})
      /\ err = "committed" => job.home = "committed"
  BY RaisesPlaces, Places
<1> HIDE DEF err, esc
<1>2. /\ FileGrows /\ WriterKnowsFile' /\ pc' \in {ok, err, esc}
      /\ pc' \notin {err, esc} => ~poisoned' /\ mem' = disk' /\ mem' \in T
  BY <1>0, WriterWrites DEF err, esc
<1>3. history' \in Nat /\ history' <= mem'.turns /\ told' \subseteq mem'.receipts
  <2>1. mem'.turns \in Nat /\ mem.turns <= mem'.turns /\ mem.receipts \subseteq mem'.receipts
    BY <1>2 DEF FileGrows, Transcript
  <2> QED
    BY <2>1, Own
<1>4. job' \in Job \cup {NoJob} /\ (pc' \in Coordinating => job' = job)
  BY <1>0 DEF KeepJob
<1>5. pc' = "started" => disk'.status[job'.action] = "executing" /\ effects'[job'.action] = 0
  <2> SUFFICES ASSUME pc' = "started"
               PROVE  disk'.status[job.action] = "executing" /\ effects[job.action] = 0
    BY <1>4, Places DEF Coordinating
  <2>1. ok = "started" /\ pc' \notin {err, esc}
    BY <1>0, <1>2 DEF Coordinating
  <2>2. mem' = disk' /\ mem' \in T /\ Moves(mem, mem', job.action, "executing")
        /\ mem.status[job.action] \notin Ran
    BY <1>2, <2>1
  <2>3. disk'.status[job.action] = "executing"
    BY <1>0, <2>2, Own DEF Moves, Transcript
  <2>4. effects[job.action] \in Nat /\ effects[job.action] <= 1 /\ effects[job.action] # 1
    BY <1>0, <2>2, Own DEF EffectsRan
  <2> QED
    BY <2>3, <2>4
<1>6. ASSUME pc' = "committed" \/ (pc' \in Coordinating /\ job'.home = "committed")
      PROVE  history' < mem'.turns
  <2>1. job.home = "committed"
    <3>1. CASE pc' \in Coordinating
      BY <1>4, <1>6, <3>1 DEF Coordinating
    <3>2. CASE pc' = "committed"
      BY <1>0, <1>2, <3>2 DEF Coordinating
    <3> QED
      BY <1>6, <3>1, <3>2
  <2>2. history < mem.turns
    BY <2>1 DEF IndInv, KnownFirst
  <2>3. mem'.turns \in Nat /\ mem.turns <= mem'.turns
    BY <1>2 DEF FileGrows, Transcript
  <2> QED
    BY <2>2, <2>3, Own
<1>7. pc' # "ran" /\ pc' \in Labels /\ (pc' \in Coordinating => job' \in Job)
  BY <1>0, <1>2, <1>4, Places DEF Coordinating, Homes
<1> QED
  BY <1>2, <1>3, <1>4, <1>5, <1>6, <1>7, Own, Assemble

\* An action's status tells its place.
LEMMA MoveLegal ==
  ASSUME IndInv, NEW u, NEW a \in Action, NEW s, Moves(mem, u, a, s),
         consent \subseteq consent', mem.status[a] \in OpenStatus, s # "unused",
         mem.status[a] \in Ran => s \in Ran,
         s \in Ran \cup {"authorized", "approved", "awaiting-approval"} =>
           LET e == Evaluate(ClassOf[a], mem.request[a].mode)
           IN  \/ e = "allow" /\ s \in Ran \cup {"authorized"}
               \/ e = "ask" /\ (s = "awaiting-approval" \/ a \in consent')
  PROVE  Legal(u)
<1>1. Audited(u, consent')
  BY Own, AuditedMoves
<1>2. RanKept(mem, u)
  BY Own DEF RanKept, Moves, Transcript
<1> QED
  BY <1>1, <1>2 DEF Legal, Moves

LEMMA RequestActionKeeps ==
  ASSUME IndInv, RequestAction
  PROVE  IndInv'
<1> PICK j \in Job :
      /\ j.home = pc /\ (pc = "failed" => j.guarded)
      /\ Write(ActionRequested(mem, j.action, [mode |-> mode, lease |-> rt], rt),
               "requested", IF j.guarded THEN pc ELSE "failing", Escapes(pc))
      /\ job' = IF pc' = "requested" THEN j ELSE NoJob
      /\ UNCHANGED <<runtime, history, world>>
  BY DEF RequestAction
<1> DEFINE q == [mode |-> mode, lease |-> rt]
           T == ActionRequested(mem, j.action, q, rt)
           err == IF j.guarded THEN pc ELSE "failing"
           esc == Escapes(pc)
<1>0. /\ pc \in Homes /\ j.action \in Action /\ q \in Request /\ rt \in Binding
      /\ pc \in Writing /\ err \in {pc, "failing"} /\ err \in Writing \ Coordinating
      /\ esc \in {"ready", "failing"} /\ esc \in Writing \ (Coordinating \cup {"committed"})
      /\ "requested" \in Writing
      /\ Write(T, "requested", err, esc)
      /\ UNCHANGED <<rt, mode, history, effects, consent, told>>
  BY Own, Places DEF Job, Homes, Request, Coordinating, runtime, world, Escapes
<1>1. \A u \in T : Legal(u)
  <2> SUFFICES ASSUME NEW u \in T PROVE Legal(u)
    OBVIOUS
  <2>1. /\ mem.live = NoAction /\ mem.status[j.action] = "unused"
        /\ Safe(mem, u) /\ u.live = j.action
        /\ u.status = [mem.status EXCEPT ![j.action] = "requested"]
        /\ u.request = [mem.request EXCEPT ![j.action] = q]
    <3> DEFINE b == j.action
    <3>1. /\ u \in ActionRequested(mem, b, q, rt) /\ b \in Action
          /\ mem \in Transcript /\ q \in Request /\ rt \in Binding
      BY <1>0, Own
    <3> HIDE DEF q, b, T
    <3>2. /\ mem.live = NoAction /\ mem.status[b] = "unused" /\ Safe(mem, u) /\ u.live = b
          /\ u.status = [mem.status EXCEPT ![b] = "requested"]
          /\ u.request = [mem.request EXCEPT ![b] = q]
      BY <3>1, RequestedRecord
    <3> QED
      BY <3>2 DEF b
  <2>2. /\ \A a \in Action : u.status[a] = IF a = j.action THEN "requested" ELSE mem.status[a]
        /\ \A a \in Action : u.request[a] = IF a = j.action THEN q ELSE mem.request[a]
    BY <1>0, <2>1, Own DEF Transcript
  <2>3. q # NoRequest
    BY <1>0, Assumptions DEF Request
  <2>4. Audited(u, consent)
    <3> HIDE DEF q
    <3>1. \A a \in Action : u.status[a] \in OpenStatus <=> u.live = a
      BY <2>1, <2>2, Own, Assumptions DEF Audited, OpenStatus
    <3>2. \A a \in Action : u.request[a] = NoRequest => u.status[a] = "unused"
      BY <2>2, <2>3, Own DEF Audited
    <3>3. "requested" \notin Ran \cup {"authorized", "approved", "awaiting-approval"}
      BY DEF Ran, Outcomes
    <3> QED
      BY <2>2, <3>1, <3>2, <3>3, Own DEF Audited
  <2>5. RanKept(mem, u)
    BY <2>1, <2>2 DEF RanKept, Ran, Outcomes
  <2> QED
    BY <1>0, <2>1, <2>4, <2>5 DEF Legal
<1> HIDE DEF T, q, err, esc
<1>2. FileGrows /\ WriterKnowsFile' /\ pc' \in {"requested", err, esc}
  BY <1>0, <1>1, WriterWrites
<1>3. mem'.turns \in Nat /\ mem.turns <= mem'.turns /\ mem.receipts \subseteq mem'.receipts
  BY <1>2 DEF FileGrows, Transcript
<1>4. history' \in Nat /\ history' <= mem'.turns /\ told' \subseteq mem'.receipts
  BY <1>0, <1>3, Own
<1>5. /\ pc' \in Labels /\ pc' \notin {"started", "ran"} /\ job' \in Job \cup {NoJob}
      /\ pc' \in Coordinating => job' \in Job /\ job'.home = pc
      /\ pc' = "committed" => pc = "committed"
  BY <1>0, <1>2, Places DEF Homes, Coordinating
<1>6. pc = "committed" => history' < mem'.turns
  <2>1. pc = "committed" => history < mem.turns
    BY DEF IndInv, KnownFirst
  <2> QED
    BY <1>0, <1>3, <2>1, Own
<1> QED
  BY <1>0, <1>2, <1>4, <1>5, <1>6, Own, Assemble

LEMMA DecidePermissionKeeps ==
  ASSUME IndInv, DecidePermission
  PROVE  IndInv'
<1> DEFINE a == job.action
           d == Evaluate(ClassOf[a], mode)
           T == PermissionDecided(mem, a, d)
           ok == CASE d = "allow" -> "cleared" [] d = "ask" -> "asking" [] d = "deny" -> job.home
           s == CASE d = "allow" -> "authorized" [] d = "ask" -> "awaiting-approval"
                  [] d = "deny" -> "denied"
<1>0. /\ pc = "requested" /\ Write(T, ok, Raises, Escapes(job.home)) /\ KeepJob
      /\ UNCHANGED <<rt, mode, history, effects, consent, told>> /\ pc \in Coordinating
  BY DEF DecidePermission, runtime, world, Coordinating
<1>1. d \in {"allow", "ask", "deny"}
  BY DEF Evaluate
<1>2. ok \in Coordinating \cup {job.home} /\ ok # "ran" /\ ok # "started"
  BY <1>0, <1>1, RaisesPlaces DEF Coordinating, Homes
<1>3. \A u \in T : Legal(u) /\ Moves(mem, u, a, s) /\ s # "executing"
  <2> SUFFICES ASSUME NEW u \in T PROVE Legal(u) /\ Moves(mem, u, a, s) /\ s # "executing"
    OBVIOUS
  <2>1. mem.status[a] = "requested" /\ d = Evaluate(ClassOf[a], mem.request[a].mode)
        /\ Moves(mem, u, a, s)
    <3> HIDE DEF d
    <3> QED
      BY <1>0, <1>1, Own, RaisesPlaces, DecidedRecord
  <2> HIDE DEF d
  <2>2. /\ s # "unused" /\ s # "executing" /\ mem.status[a] \in OpenStatus /\ mem.status[a] \notin Ran
        /\ s \in Ran \cup {"authorized", "approved", "awaiting-approval"} =>
             (d = "allow" /\ s = "authorized") \/ (d = "ask" /\ s = "awaiting-approval")
    BY <1>1, <2>1 DEF OpenStatus, Ran, Outcomes
  <2> HIDE DEF s
  <2>3. a \in Action
    BY <1>0, RaisesPlaces
  <2> HIDE DEF a
  <2> QED
    BY <1>0, <2>1, <2>2, <2>3, MoveLegal
<1> HIDE DEF T, ok, s
<1> QED
  BY <1>0, <1>2, <1>3, Own, WriteAction

LEMMA ResolveApprovalKeeps ==
  ASSUME IndInv, ResolveApproval
  PROVE  IndInv'
<1> DEFINE a == job.action
<1> PICK s \in {"approved", "rejected", "cancelled"} :
      /\ Write(ApprovalResolved(mem, a, s), IF s = "approved" THEN "cleared" ELSE job.home, Raises,
               Escapes(job.home))
      /\ consent' = IF s = "approved" THEN consent \cup {a} ELSE consent
  BY DEF ResolveApproval
<1> DEFINE T == ApprovalResolved(mem, a, s)
           ok == IF s = "approved" THEN "cleared" ELSE job.home
<1>0. /\ pc = "asking" /\ Write(T, ok, Raises, Escapes(job.home)) /\ KeepJob
      /\ UNCHANGED <<rt, mode, history, effects, told>> /\ pc \in Coordinating
  BY DEF ResolveApproval, runtime, Coordinating
<1>1. a \in Action /\ consent \subseteq consent' /\ consent' \subseteq Action
      /\ (s = "approved" => a \in consent')
  BY <1>0, Own, RaisesPlaces
<1>2. ok \in Coordinating \cup {job.home} /\ ok # "ran" /\ ok # "started"
  BY <1>0, RaisesPlaces DEF Coordinating, Homes
<1>3. \A u \in T : Legal(u) /\ Moves(mem, u, a, s) /\ s # "executing"
  <2> SUFFICES ASSUME NEW u \in T PROVE Legal(u) /\ Moves(mem, u, a, s) /\ s # "executing"
    OBVIOUS
  <2>1. mem.status[a] = "awaiting-approval" /\ Moves(mem, u, a, s)
    BY <1>1, Own, ResolvedRecord
  <2>2. LET e == Evaluate(ClassOf[a], mem.request[a].mode)
        IN  e = "ask" \/ (e = "allow" /\ "awaiting-approval" \in Ran \cup {"authorized"})
    BY <1>1, <2>1, Own DEF Audited
  <2>3. "awaiting-approval" \notin Ran \cup {"authorized"} /\ s \notin Ran /\ s # "authorized"
        /\ s # "awaiting-approval" /\ "awaiting-approval" \in OpenStatus
    BY DEF Ran, Outcomes, OpenStatus
  <2>4. s \in Ran \cup {"authorized", "approved", "awaiting-approval"} => a \in consent'
    BY <1>1, <2>3
  <2> HIDE DEF a
  <2> QED
    BY <1>1, <2>1, <2>2, <2>3, <2>4, MoveLegal
<1> HIDE DEF T, ok
<1> QED
  BY <1>0, <1>1, <1>2, <1>3, Own, WriteAction

LEMMA StartActionKeeps ==
  ASSUME IndInv, StartAction
  PROVE  IndInv'
<1> DEFINE a == job.action
           T == ActionExecutionStarted(mem, a, Authorization)
<1>0. /\ pc = "cleared" /\ Write(T, "started", Raises, Escapes(job.home)) /\ KeepJob
      /\ UNCHANGED <<rt, mode, history, effects, consent, told>> /\ pc \in Coordinating
  BY DEF StartAction, runtime, world, Coordinating
<1>1. a \in Action
  BY <1>0, RaisesPlaces
<1>3. \A u \in T : Legal(u) /\ Moves(mem, u, a, "executing") /\ mem.status[a] \notin Ran
  <2> SUFFICES ASSUME NEW u \in T
               PROVE  Legal(u) /\ Moves(mem, u, a, "executing") /\ mem.status[a] \notin Ran
    OBVIOUS
  <2>1. mem.status[a] \in {"authorized", "approved"} /\ Moves(mem, u, a, "executing")
    BY <1>1, Own, StartedRecord
  <2>2. mem.status[a] \in OpenStatus /\ mem.status[a] \notin Ran /\ "executing" \in Ran
        /\ "approved" \notin Ran
    BY <2>1 DEF OpenStatus, Ran, Outcomes
  <2>3. LET e == Evaluate(ClassOf[a], mem.request[a].mode)
        IN  e = "allow" \/ (e = "ask" /\ a \in consent)
    BY <1>1, <2>1, Own DEF Audited
  <2> HIDE DEF a
  <2> QED
    BY <1>0, <1>1, <2>1, <2>2, <2>3, MoveLegal
<1>4. "started" \in Coordinating
  BY DEF Coordinating
<1> HIDE DEF T
<1> QED
  BY <1>0, <1>3, <1>4, Own, WriteAction

LEMMA FinishActionKeeps ==
  ASSUME IndInv, FinishAction
  PROVE  IndInv'
<1> DEFINE a == job.action
<1> PICK s \in Outcomes :
      Write(ActionExecutionFinished(mem, a, s), job.home, Raises, Escapes(job.home))
  BY DEF FinishAction
<1> DEFINE T == ActionExecutionFinished(mem, a, s)
<1>0. /\ pc = "ran" /\ Write(T, job.home, Raises, Escapes(job.home)) /\ KeepJob
      /\ UNCHANGED <<rt, mode, history, effects, consent, told>> /\ pc \in Coordinating
  BY DEF FinishAction, runtime, world, Coordinating
<1>1. a \in Action /\ job.home # "ran" /\ job.home # "started"
  BY <1>0, RaisesPlaces DEF Homes
<1>3. \A u \in T : Legal(u) /\ Moves(mem, u, a, s) /\ s # "executing"
  <2> SUFFICES ASSUME NEW u \in T
               PROVE  Legal(u) /\ Moves(mem, u, a, s) /\ s # "executing"
    OBVIOUS
  <2>1. mem.status[a] = "executing" /\ Moves(mem, u, a, s)
    BY <1>1, Own, FinishedRecord
  <2>2. "executing" \in OpenStatus /\ "executing" \in Ran /\ s \in Ran /\ s # "unused" /\ s # "executing"
    BY DEF OpenStatus, Ran, Outcomes
  <2>3. LET e == Evaluate(ClassOf[a], mem.request[a].mode)
        IN  e = "allow" \/ (e = "ask" /\ a \in consent)
    BY <1>1, <2>1, <2>2, Own DEF Audited
  <2> HIDE DEF a
  <2> QED
    BY <1>0, <1>1, <2>1, <2>2, <2>3, MoveLegal
<1> HIDE DEF T
<1> QED
  BY <1>0, <1>1, <1>3, Own, WriteAction

\* An exception ends the coordination without a record.
LEMMA RaiseKeeps ==
  ASSUME IndInv, pc \in Coordinating, pc' \in {Raises, Escapes(job.home)}, KeepJob,
         UNCHANGED <<file, writer, runtime, history, world>>
  PROVE  IndInv'
<1>1. /\ pc' \in {"turn", "committed", "failed", "failing", "ready"}
      /\ pc' = "committed" => job.home = "committed"
  BY RaisesPlaces
<1>2. /\ pc \in Writing /\ pc' \in Writing \ Coordinating /\ job' \in Job \cup {NoJob}
      /\ pc' \in Labels
  BY <1>1, Places DEF KeepJob
<1>3. FileGrows /\ WriterKnowsFile'
  BY <1>2, StepFile DEF world
<1>4. pc' = "committed" => history < mem'.turns
  BY <1>1 DEF IndInv, KnownFirst, writer
<1> QED
  BY <1>2, <1>3, <1>4, Own, AssembleElsewhere DEF runtime, world

\* The effect: once, while its start is the last thing the file says of it.
LEMMA ExecuteKeeps ==
  ASSUME IndInv, Execute
  PROVE  IndInv'
<1> DEFINE a == job.action
<1>0. /\ pc = "started" /\ pc \in Coordinating /\ pc' \in {"ran", Raises, Escapes(job.home)}
      /\ KeepJob /\ effects' = [effects EXCEPT ![a] = @ + 1]
      /\ UNCHANGED <<disk, tail, mem, poisoned, slipped, rt, mode, history, consent, told>>
  BY DEF Execute, Coordinating, runtime, file, writer, durability
<1>1. /\ job \in Job /\ a \in Action /\ job.home \in Homes
      /\ pc' \in {"ran", "turn", "committed", "failed", "failing", "ready"}
      /\ pc' = "committed" => job.home = "committed"
      /\ pc' \in Writing
  BY <1>0, RaisesPlaces, Places DEF Coordinating
<1>2. /\ ~poisoned /\ mem = disk /\ disk.status[a] = "executing" /\ effects[a] = 0
  BY <1>0 DEF IndInv, OneExecution, WriterKnowsFile
<1>3. /\ effects' \in [Action -> Nat] /\ effects'[a] = 1
      /\ \A b \in Action : effects'[b] = IF b = a THEN 1 ELSE effects[b]
  BY <1>0, <1>1, <1>2, Own
<1>4. FileGrows /\ WriterKnowsFile'
  <2>1. "executing" \in Ran
    BY DEF Ran
  <2>2. EffectsRan'
    BY <1>0, <1>2, <1>3, <2>1, Own DEF EffectsRan
  <2>3. WriterKnowsFile'
    BY <1>0, <1>1, <1>2, Places DEF IndInv, WriterKnowsFile, Writing, Coordinating
  <2>4. mem.turns <= mem.turns
    BY Own, SelfLeq
  <2> QED
    BY <1>0, <2>2, <2>3, <2>4, Own DEF FileGrows, Durabilities
<1>5. /\ history' \in Nat /\ history' <= mem'.turns /\ told' \subseteq mem'.receipts
      /\ disk'.status[a] = "executing"
  BY <1>0, <1>2, Own
<1>6. job' \in Job \cup {NoJob} /\ (pc' \in Coordinating => job' = job) /\ pc' # "started"
  BY <1>0, <1>1, Places DEF KeepJob
<1>7. pc' = "committed" \/ (pc' \in Coordinating /\ job'.home = "committed") => history' < mem'.turns
  <2>1. job.home = "committed" => history < mem.turns
    BY <1>0 DEF IndInv, KnownFirst
  <2> QED
    BY <1>0, <1>1, <1>6, <2>1
<1>8. /\ pc' \in {"started", "ran"} => disk'.status[job'.action] = "executing"
      /\ pc' = "started" => effects'[job'.action] = 0
      /\ pc' = "ran" => effects'[job'.action] = 1
      /\ pc' \in Coordinating => job' \in Job
  <2>1. "ran" \in Coordinating
    BY DEF Coordinating
  <2> QED
    BY <1>1, <1>3, <1>5, <1>6, <2>1
<1>9. pc' \in Labels /\ consent' \subseteq Action /\ rt' \in Binding /\ mode' \in Modes
  BY <1>0, <1>1, Own, Places
<1> HIDE DEF a
<1> QED
  BY <1>3, <1>4, <1>5, <1>6, <1>7, <1>8, <1>9, Assemble

LEMMA CoordinateKeeps ==
  ASSUME IndInv, Coordinate
  PROVE  IndInv'
<1>1. CASE ApprovalRaises \/ RevalidationFails \/ InterruptAction
  BY <1>1, RaiseKeeps DEF ApprovalRaises, RevalidationFails, InterruptAction, Step, Coordinating
<1> QED
  BY <1>1, RequestActionKeeps, DecidePermissionKeeps, ResolveApprovalKeeps, StartActionKeeps,
     ExecuteKeeps, FinishActionKeeps DEF Coordinate

LEMMA StutterKeeps ==
  ASSUME IndInv, UNCHANGED vars
  PROVE  IndInv'
BY DEF vars, file, writer, durability, runtime, world, IndInv, TypeOK, Accounts, Audited,
       WriterKnowsFile, OneExecution, KnownFirst

-----------------------------------------------------------------------------
(* The theorems. *)

\* The file, its writer and the actions agree in every reachable state, up to
\* what an interrupted append slipped in (SessionWriter._append).
THEOREM Inductive == Spec => []IndInv
<1>1. IndInv /\ [Next]_vars => IndInv'
  BY ResumeKeeps, TurnKeeps, DeliverKeeps, CoordinateKeeps, StutterKeeps DEF Next
<1> QED
  BY <1>1, TypeInit, PTL DEF Spec

\* Types hold for any actions, receipts, bindings, modes and record limit.
THEOREM TypeCorrect == Spec => []TypeOK
<1>1. IndInv => TypeOK
  BY DEF IndInv
<1> QED
  BY <1>1, Inductive, PTL

\* The loop's history and what a receipt handed out are durable
\* (agent/loop.py _commit, child_handoff.deliver_child_handoff).
THEOREM AlwaysDurableFirst == Spec => []DurableFirst
<1>1. IndInv => DurableFirst
  BY Own DEF DurableFirst
<1> QED
  BY <1>1, Inductive, PTL

\* Whatever the policy and the mode, an effect was started durably and was
\* allowed or accepted (ActionCoordinator.run).
THEOREM EffectsAlwaysAuthorized == Spec => []EffectsAuthorized
<1>1. IndInv => EffectsAuthorized
  <2> SUFFICES ASSUME IndInv, NEW a \in Action, effects[a] > 0
               PROVE  /\ disk.status[a] \in Ran
                      /\ LET d == Evaluate(ClassOf[a], disk.request[a].mode)
                         IN  d = "allow" \/ (d = "ask" /\ a \in consent)
    BY DEF EffectsAuthorized
  <2>1. effects[a] = 1
    BY Own DEF EffectsRan
  <2>2. disk.status[a] \in Ran /\ "awaiting-approval" \notin Ran
    BY <2>1, Own DEF EffectsRan, Ran, Outcomes
  <2> QED
    BY <2>2, Own DEF Audited
<1> QED
  BY <1>1, Inductive, PTL

-----------------------------------------------------------------------------
(* What the steps may leave in the file. *)

\* The file after a step that appends one of T at most.
Appends(T) ==
  /\ tail = "corrupt" => tail' = "corrupt"
  /\ tail' = "corrupt" => tail = "corrupt" \/ slipped
  /\ tail' # "corrupt" => disk' = disk \/ (mem = disk /\ disk' \in T)

LEMMA PutAppends ==
  ASSUME IndInv, NEW T, NEW t \in T, Put(mem, t) \/ PutUncertain(mem, t),
         ~slipped => mem = disk /\ tail = "clean"
  PROVE  Appends(T)
<1>1. disk' \in {disk, t} /\ tail' \in Tails /\ (mem = disk /\ tail = "clean" => tail' # "corrupt")
  BY Own, PutFile, PutUncertainFile
<1>2. disk' # disk /\ tail' # "corrupt" => mem = disk
  BY DEF Put, PutUncertain, Cut, file
<1>3. tail = "corrupt" => tail' = "corrupt"
  BY DEF Put, PutUncertain, Cut, file
<1> QED
  BY <1>1, <1>2, <1>3 DEF Appends

LEMMA WriteAppends ==
  ASSUME IndInv, pc \in Writing, NEW T, NEW ok, NEW err, NEW esc, Write(T, ok, err, esc)
  PROVE  Appends(T)
<1>1. ~poisoned /\ ~slipped => mem = disk /\ tail = "clean"
  BY DEF IndInv, WriterKnowsFile
<1>2. CASE UNCHANGED file
  BY <1>2 DEF Appends, file
<1>3. ASSUME NEW t \in T, ~poisoned, Put(mem, t) \/ PutUncertain(mem, t)
      PROVE  Appends(T)
  BY <1>1, <1>3, PutAppends
<1> QED
  BY <1>2, <1>3 DEF Write, Interrupt

\* Resumes, repairs and closes append one record at most.
LEMMA ResumeAppends ==
  ASSUME IndInv, Resume \/ CloseSession \/ Leave \/ Crash
  PROVE  \/ Appends({}) \/ Appends(Recovery(mem)) \/ Appends(SessionResumed(mem, rt))
         \/ Appends(SessionClosed(mem))
<1>2. pc \in Resuming \cup Repairing => mem = disk /\ ~slipped
  BY Places DEF IndInv, WriterKnowsFile
<1>4. CASE PrepareResume \/ BeginRepair \/ OpenForAudit \/ AbortResume \/ CutTail \/ Leave \/ Crash
  BY <1>4 DEF PrepareResume, BeginRepair, OpenForAudit, Take, AbortResume, CutTail, Leave,
              Crash, file, Appends
<1>5. CASE AppendRecovery \/ RepairTranscript
  <2>1. PICK t \in Recovery(mem) : Put(mem, t) \/ PutUncertain(mem, t)
    BY <1>5 DEF AppendRecovery, RepairTranscript, Recover
  <2>2. mem = disk /\ tail = "clean"
    BY <1>2, <1>5 DEF AppendRecovery, RepairTranscript, Resuming, Repairing, IndInv, WriterKnowsFile
  <2> QED
    BY <2>1, <2>2, PutAppends
<1>6. CASE AppendResumed
  <2>1. PICK t \in SessionResumed(mem, rt) : Put(mem, t) \/ PutUncertain(mem, t)
    BY <1>6 DEF AppendResumed, Recover
  <2>2. mem = disk /\ tail = "clean"
    <3>1. pc = "noted" \/ tail = "clean"
      BY <1>6 DEF AppendResumed
    <3>2. pc \in Resuming
      BY <1>6 DEF AppendResumed, Resuming
    <3> QED
      BY <1>2, <3>1, <3>2 DEF IndInv, WriterKnowsFile
  <2> QED
    BY <2>1, <2>2, PutAppends
<1>7. CASE CloseSession
  <2>1. PICK t \in SessionClosed(mem) : Put(mem, t) \/ PutUncertain(mem, t)
    BY <1>7 DEF CloseSession
  <2>2. ~slipped => mem = disk /\ tail = "clean"
    BY <1>7, Places DEF CloseSession, IndInv, WriterKnowsFile
  <2> QED
    BY <2>1, <2>2, PutAppends
<1> QED
  BY <1>4, <1>5, <1>6, <1>7 DEF Resume

\* Where a step writes, if it is none of those.
LEMMA WritingPlaces ==
  {"ready", "audit", "turn", "failing", "requested", "asking", "cleared", "started", "ran"}
    \cup Homes \cup Coordinating \subseteq Writing
BY DEF Writing, Coordinating, Homes

\* So does each record of a writer.
LEMMA SwitchAppends ==
  ASSUME IndInv, SwitchRuntime
  PROVE  rt' \in Binding /\ Appends(RuntimeChanged(mem, rt'))
BY WriteAppends, WritingPlaces DEF SwitchRuntime

LEMMA DescribeAppends ==
  ASSUME IndInv, Describe
  PROVE  \E T \in {Described(mem), ContextCompacted(mem, rt), CompactionFailed(mem, rt)} : Appends(T)
BY WriteAppends, WritingPlaces DEF Describe

LEMMA DeliverAppends ==
  ASSUME IndInv, NEW c \in Receipt, Deliver(c)
  PROVE  Appends(Received(mem, c))
<1>1. CASE UNCHANGED file
  BY <1>1 DEF Appends, file
<1>2. CASE ~UNCHANGED file
  BY <1>2, WriteAppends, WritingPlaces DEF Deliver
<1> QED
  BY <1>1, <1>2

LEMMA TurnAppends ==
  ASSUME IndInv
  PROVE  /\ CommitTurn => Appends(TurnCommitted(mem, rt))
         /\ RecordFailure => Appends(TurnFailed(mem, rt))
         /\ BeginTurn \/ TurnRaises \/ EndFailure \/ Remember => Appends({})
<1>1. CommitTurn => Appends(TurnCommitted(mem, rt))
  BY WriteAppends, WritingPlaces DEF CommitTurn
<1>2. RecordFailure => Appends(TurnFailed(mem, rt))
  BY WriteAppends, WritingPlaces DEF RecordFailure
<1>3. BeginTurn \/ TurnRaises \/ EndFailure \/ Remember => Appends({})
  BY DEF BeginTurn, TurnRaises, EndFailure, Remember, Step, file, Appends
<1> QED
  BY <1>1, <1>2, <1>3

LEMMA RequestAppends ==
  ASSUME IndInv, RequestAction
  PROVE  \E j \in Job :
           Appends(ActionRequested(mem, j.action, [mode |-> mode, lease |-> rt], rt))
<1> DEFINE T(j) == ActionRequested(mem, j.action, [mode |-> mode, lease |-> rt], rt)
<1>1. PICK j \in Job :
        /\ j.home = pc
        /\ Write(T(j), "requested", IF j.guarded THEN pc ELSE "failing", Escapes(pc))
  BY DEF RequestAction
<1>2. pc \in Writing
  BY <1>1, WritingPlaces DEF Job
<1> HIDE DEF T
<1>3. Appends(T(j))
  BY <1>1, <1>2, WriteAppends
<1> QED
  BY <1>3 DEF T

LEMMA DecideAppends ==
  ASSUME IndInv, DecidePermission
  PROVE  Appends(PermissionDecided(mem, job.action, Evaluate(ClassOf[job.action], mode)))
BY WriteAppends, WritingPlaces DEF DecidePermission

LEMMA ResolveAppends ==
  ASSUME IndInv, ResolveApproval
  PROVE  \E s \in {"approved", "rejected", "cancelled"} :
           Appends(ApprovalResolved(mem, job.action, s))
BY WriteAppends, WritingPlaces DEF ResolveApproval

LEMMA StartAppends ==
  ASSUME IndInv, StartAction
  PROVE  Appends(ActionExecutionStarted(mem, job.action, Authorization))
BY WriteAppends, WritingPlaces DEF StartAction

LEMMA FinishAppends ==
  ASSUME IndInv, FinishAction
  PROVE  \E s \in Outcomes : Appends(ActionExecutionFinished(mem, job.action, s))
BY WriteAppends, WritingPlaces DEF FinishAction

\* No step appends more than one record.
LEMMA EveryStepAppends ==
  ASSUME IndInv, [Next]_vars
  PROVE  \E T : Appends(T)
<1>1. CASE UNCHANGED <<disk, tail>>
  BY <1>1 DEF Appends
<1>2. CASE Coordinate
  <2>1. CASE ApprovalRaises \/ RevalidationFails \/ InterruptAction \/ Execute
    BY <1>1, <2>1 DEF ApprovalRaises, RevalidationFails, InterruptAction, Execute, Step, file
  <2> QED
    BY <1>2, <2>1, RequestAppends, DecideAppends, ResolveAppends, StartAppends, FinishAppends
    DEF Coordinate
<1>3. CASE Turn
  BY <1>3, TurnAppends DEF Turn
<1>4. CASE UNCHANGED vars
  BY <1>1, <1>4 DEF vars, file
<1> QED
  BY <1>2, <1>3, <1>4, ResumeAppends, SwitchAppends, DescribeAppends, DeliverAppends DEF Next

\* Whatever fails, tears or crashes, a transcript becomes unreadable only by the
\* append of a writer that an interruption had left behind its own file
\* (SessionWriter._append).
THEOREM OnlySlipsCorrupt == Spec => CorruptedBySlip
<1>1. IndInv /\ [Next]_vars => (tail # "corrupt" /\ tail' = "corrupt" => slipped)
  BY EveryStepAppends DEF Appends
<1> QED
  BY <1>1, Inductive, PTL DEF Spec, CorruptedBySlip

-----------------------------------------------------------------------------
(* The refinement of the action audit. *)

AuditStep == [Audit!Next]_(Audit!vars)

\* A transcript that cannot be read promises nothing of statuses.
LEMMA AuditLost ==
  ASSUME UNCHANGED effects, tail' = "corrupt"
  PROVE  AuditStep
BY DEF AuditStep, Audit!Next, Audit!Lose

LEMMA AuditStays ==
  ASSUME UNCHANGED effects, disk' = disk \/ Plain(disk, disk'), tail # "corrupt"
  PROVE  AuditStep
BY AuditLost DEF AuditStep, Audit!vars, Plain

LEMMA AuditCuts ==
  ASSUME IndInv, UNCHANGED effects, Cuts(disk, disk'), tail # "corrupt"
  PROVE  AuditStep
<1> DEFINE a == disk.live
<1>0. disk.status \in [Action -> Status] /\ disk'.status \in [Action -> Status]
  BY Own DEF Cuts, Safe, Transcript
<1>1. CASE a \notin Action
  <2>1. disk'.status = disk.status
    BY <1>0, <1>1 DEF Cuts
  <2> QED
    BY <2>1, AuditLost DEF AuditStep, Audit!vars
<1>2. CASE a \in Action /\ tail' # "corrupt"
  <2>1. disk.status[a] \in OpenStatus
    BY <1>2, Own DEF Audited
  <2> DEFINE s == IF disk.status[a] = "executing" THEN "outcome-unknown" ELSE "abandoned"
  <2>2. disk'.status = [disk.status EXCEPT ![a] = s]
    BY <1>0, <1>2 DEF Cuts
  <2>3. Audit!Interrupt(a)
    BY <1>2, <2>1, <2>2 DEF Audit!Interrupt, Audit!Move, Audit!Open, OpenStatus
  <2> QED
    BY <1>2, <2>3 DEF AuditStep, Audit!Next
<1> QED
  BY <1>1, <1>2, AuditLost

\* Records of an action are the steps of the audit.
LEMMA AuditMoves ==
  ASSUME IndInv, UNCHANGED effects, NEW a \in Action, NEW s, tail # "corrupt", tail' # "corrupt",
         disk'.status = [disk.status EXCEPT ![a] = s],
         \/ disk.status[a] = "unused" /\ s = "requested" /\ disk.live = NoAction
         \/ disk.status[a] = "requested" /\ s \in {"authorized", "awaiting-approval", "denied"}
         \/ disk.status[a] = "awaiting-approval" /\ s \in {"approved", "rejected", "cancelled"}
         \/ disk.status[a] \in {"authorized", "approved"} /\ s = "executing"
         \/ disk.status[a] = "executing" /\ effects[a] = 1 /\ s \in Outcomes
  PROVE  AuditStep
<1>1. disk.live = NoAction => Audit!NoneOpen
  BY Own, Assumptions DEF Audited, Audit!NoneOpen, Audit!Open, OpenStatus
<1>2. \/ Audit!Request(a) \/ Audit!Decide(a) \/ Audit!Resolve(a) \/ Audit!Start(a)
      \/ Audit!Finish(a)
  BY <1>1 DEF Audit!Request, Audit!Decide, Audit!Resolve, Audit!Start, Audit!Finish,
              Audit!Move, Outcomes
<1> QED
  BY <1>2 DEF AuditStep, Audit!Next

\* An append: the transcript is as it was, or goes on legally, or cannot be read.
LEMMA AuditAppends ==
  ASSUME IndInv, UNCHANGED effects, NEW T, Appends(T),
         tail # "corrupt" /\ tail' # "corrupt" /\ mem = disk /\ disk' \in T => AuditStep
  PROVE  AuditStep
<1>1. CASE tail' = "corrupt"
  BY <1>1, AuditLost
<1>2. CASE tail' # "corrupt" /\ tail = "corrupt"
  BY <1>2 DEF Appends
<1>3. CASE tail' # "corrupt" /\ tail # "corrupt"
  BY <1>3, AuditStays DEF Appends
<1> QED
  BY <1>1, <1>2, <1>3

\* Resumes, repairs and closes.
LEMMA AuditResume ==
  ASSUME IndInv, Resume \/ CloseSession \/ Leave \/ Crash
  PROVE  AuditStep
<1>1. UNCHANGED effects
  BY DEF Resume, CloseSession, Leave, Crash, PrepareResume, BeginRepair, OpenForAudit, Take,
         AbortResume, CutTail, AppendRecovery, RepairTranscript, AppendResumed, Recover,
         Release, world
<1>2. \A u \in Recovery(mem) \cup SessionClosed(mem) : Plain(mem, u)
  BY Own, PlainRecords
<1>3. \A u \in SessionResumed(mem, rt) : Cuts(mem, u)
  BY Own, CuttingRecords
<1>4. CASE Appends({}) \/ Appends(Recovery(mem)) \/ Appends(SessionClosed(mem))
  BY <1>1, <1>2, <1>4, AuditAppends, AuditStays
<1>5. CASE Appends(SessionResumed(mem, rt))
  BY <1>1, <1>3, <1>5, AuditAppends, AuditCuts
<1> QED
  BY <1>4, <1>5, ResumeAppends

\* Turns and what is recorded between them.
LEMMA AuditTurn ==
  ASSUME IndInv, SwitchRuntime \/ Describe \/ (\E c \in Receipt : Deliver(c)) \/ Turn
  PROVE  AuditStep
<1>1. UNCHANGED effects
  BY DEF SwitchRuntime, Describe, Deliver, Turn, BeginTurn, TurnRaises, CommitTurn, Remember,
         RecordFailure, EndFailure, Step, world
<1>2. ASSUME NEW T, Appends(T), \A u \in T : Plain(mem, u)
      PROVE  AuditStep
  BY <1>1, <1>2, AuditAppends, AuditStays
<1>3. CASE SwitchRuntime
  BY <1>2, <1>3, Own, SwitchAppends, PlainRecords
<1>4. CASE Describe
  <2>1. PICK T \in {Described(mem), ContextCompacted(mem, rt), CompactionFailed(mem, rt)} :
          Appends(T)
    BY <1>4, DescribeAppends
  <2> QED
    BY <1>2, <2>1, Own, PlainRecords
<1>5. ASSUME NEW c \in Receipt, Deliver(c)
      PROVE  AuditStep
  BY <1>2, <1>5, Own, DeliverAppends, PlainRecords
<1>6. CASE CommitTurn
  BY <1>2, <1>6, Own, TurnAppends, PlainRecords
<1>7. CASE RecordFailure
  <2>1. \A u \in TurnFailed(mem, rt) : Cuts(mem, u)
    BY Own, CuttingRecords
  <2> QED
    BY <1>1, <1>7, <2>1, TurnAppends, AuditAppends, AuditCuts
<1>8. CASE BeginTurn \/ TurnRaises \/ EndFailure \/ Remember
  BY <1>2, <1>8, TurnAppends
<1> QED
  BY <1>3, <1>4, <1>5, <1>6, <1>7, <1>8 DEF Turn

LEMMA AuditCoordinate ==
  ASSUME IndInv, Coordinate
  PROVE  AuditStep
<1> DEFINE a == job.action
<1>a. pc \in Coordinating => a \in Action
  BY RaisesPlaces
<1>1. CASE RequestAction
  <2> DEFINE q == [mode |-> mode, lease |-> rt]
  <2>1. PICK j \in Job : Appends(ActionRequested(mem, j.action, q, rt))
    BY <1>1, RequestAppends
  <2>2. UNCHANGED effects /\ j.action \in Action /\ q \in Request /\ rt \in Binding
    BY <1>1, Own DEF RequestAction, world, Job, Request
  <2>3. ASSUME mem = disk, disk' \in ActionRequested(mem, j.action, q, rt),
               tail # "corrupt", tail' # "corrupt"
        PROVE  AuditStep
    <3> DEFINE b == j.action
    <3> HIDE DEF q
    <3>0. /\ disk' \in ActionRequested(disk, b, q, rt) /\ b \in Action
          /\ disk \in Transcript /\ q \in Request /\ rt \in Binding
      BY <2>2, <2>3, Own
    <3> HIDE DEF b
    <3>1. /\ disk.live = NoAction /\ disk.status[b] = "unused" /\ q.mode \in Modes
          /\ Safe(disk, disk') /\ disk'.live = b
          /\ disk'.status = [disk.status EXCEPT ![b] = "requested"]
          /\ disk'.request = [disk.request EXCEPT ![b] = q]
      BY <3>0, RequestedRecord
    <3> QED
      BY <2>2, <2>3, <3>0, <3>1, AuditMoves
  <2> QED
    BY <2>1, <2>2, <2>3, AuditAppends
<1>2. CASE DecidePermission
  <2> DEFINE d == Evaluate(ClassOf[a], mode)
             T == PermissionDecided(mem, a, d)
             s == CASE d = "allow" -> "authorized" [] d = "ask" -> "awaiting-approval"
                    [] d = "deny" -> "denied"
  <2>1. /\ Appends(T) /\ UNCHANGED effects /\ a \in Action /\ d \in {"allow", "ask", "deny"}
    BY <1>2, <1>a, DecideAppends DEF DecidePermission, world, Evaluate, Coordinating
  <2>2. ASSUME mem = disk, disk' \in T, tail # "corrupt", tail' # "corrupt"
        PROVE  AuditStep
    <3>1. disk.status[a] = "requested" /\ Moves(disk, disk', a, s)
      <4> HIDE DEF d
      <4> QED
        BY <2>1, <2>2, Own, DecidedRecord
    <3>2. s \in {"authorized", "awaiting-approval", "denied"}
      BY <2>1
    <3> HIDE DEF s, a
    <3> QED
      BY <2>1, <2>2, <3>1, <3>2, AuditMoves DEF Moves
  <2> HIDE DEF T, a
  <2> QED
    BY <2>1, <2>2, AuditAppends
<1>3. CASE ResolveApproval
  <2>1. PICK s \in {"approved", "rejected", "cancelled"} : Appends(ApprovalResolved(mem, a, s))
    BY <1>3, ResolveAppends
  <2>2. UNCHANGED effects /\ a \in Action
    BY <1>3, <1>a DEF ResolveApproval, Coordinating
  <2>3. ASSUME mem = disk, disk' \in ApprovalResolved(mem, a, s), tail # "corrupt", tail' # "corrupt"
        PROVE  AuditStep
    <3>1. disk.status[a] = "awaiting-approval" /\ Moves(disk, disk', a, s)
      BY <2>2, <2>3, Own, ResolvedRecord
    <3> HIDE DEF a
    <3> QED
      BY <2>2, <2>3, <3>1, AuditMoves DEF Moves
  <2> HIDE DEF a
  <2> QED
    BY <2>1, <2>2, <2>3, AuditAppends
<1>4. CASE StartAction
  <2> DEFINE T == ActionExecutionStarted(mem, a, Authorization)
  <2>1. Appends(T) /\ UNCHANGED effects /\ a \in Action
    BY <1>4, <1>a, StartAppends DEF StartAction, world, Coordinating
  <2>3. ASSUME mem = disk, disk' \in T, tail # "corrupt", tail' # "corrupt"
        PROVE  AuditStep
    <3>1. disk.status[a] \in {"authorized", "approved"} /\ Moves(disk, disk', a, "executing")
      BY <2>1, <2>3, Own, StartedRecord
    <3> HIDE DEF a
    <3> QED
      BY <2>1, <2>3, <3>1, AuditMoves DEF Moves
  <2> HIDE DEF T, a
  <2> QED
    BY <2>1, <2>3, AuditAppends
<1>5. CASE FinishAction
  <2>1. PICK s \in Outcomes : Appends(ActionExecutionFinished(mem, a, s))
    BY <1>5, FinishAppends
  <2>2. UNCHANGED effects /\ a \in Action /\ effects[a] = 1
    BY <1>5, <1>a DEF FinishAction, world, IndInv, OneExecution, Coordinating
  <2>3. ASSUME mem = disk, disk' \in ActionExecutionFinished(mem, a, s),
               tail # "corrupt", tail' # "corrupt"
        PROVE  AuditStep
    <3>1. disk.status[a] = "executing" /\ Moves(disk, disk', a, s)
      BY <2>2, <2>3, Own, FinishedRecord
    <3> HIDE DEF a
    <3> QED
      BY <2>2, <2>3, <3>1, AuditMoves DEF Moves
  <2> HIDE DEF a
  <2> QED
    BY <2>1, <2>2, <2>3, AuditAppends
<1>6. CASE Execute
  <2>1. /\ effects' = [effects EXCEPT ![a] = @ + 1] /\ UNCHANGED <<disk, tail>> /\ a \in Action
        /\ disk.status[a] = "executing" /\ effects[a] = 0
    BY <1>6, <1>a DEF Execute, file, IndInv, OneExecution, Coordinating
  <2>2. effects' = [effects EXCEPT ![a] = 1]
    BY <2>1, Own
  <2>3. Audit!Execute(a)
    BY <2>1, <2>2 DEF Audit!Execute
  <2> QED
    BY <2>1, <2>3 DEF AuditStep, Audit!Next
<1>7. CASE ApprovalRaises \/ RevalidationFails \/ InterruptAction
  <2>1. UNCHANGED <<disk, tail, effects>>
    BY <1>7 DEF ApprovalRaises, RevalidationFails, InterruptAction, Step, file, world
  <2> QED
    BY <2>1 DEF AuditStep, Audit!vars
<1> QED
  BY <1>1, <1>2, <1>3, <1>4, <1>5, <1>6, <1>7 DEF Coordinate

\* The transcript, its writer, crashes and repairs implement the action audit:
\* one open action, one effect for each, a settled action stays settled as long
\* as the transcript can be read.
THEOREM RefinesAudit == Spec => ImplementsAudit
<1>1. Init => Audit!Init
  BY DEF Init, Fresh, Audit!Init
<1>2. IndInv /\ [Next]_vars => AuditStep
  <2>1. UNCHANGED vars => AuditStep
    BY DEF vars, file, world, AuditStep, Audit!vars
  <2> QED
    BY <2>1, AuditResume, AuditTurn, AuditCoordinate DEF Next
<1> QED
  BY <1>1, <1>2, Inductive, PTL DEF Spec, ImplementsAudit, Audit!Spec, AuditStep

-----------------------------------------------------------------------------
(* What a record without its newline comes to. *)

\* The transcript ends in a whole record without its newline, or has an illegal
\* line, and no interrupted writer is left to write behind it.
Unrepairable == tail \in {"bare", "corrupt"} /\ ~slipped

Held == pc # "free"

Stays == Unrepairable' /\ UNCHANGED file

LEMMA SameFileStays ==
  ASSUME Unrepairable, UNCHANGED file, slipped' => slipped
  PROVE  Stays
BY DEF Unrepairable, Stays, file

\* A writer that knows its file does not append to such a file.
LEMMA Poisoned ==
  ASSUME IndInv, Unrepairable, pc \in Writing
  PROVE  poisoned
BY DEF IndInv, WriterKnowsFile, Unrepairable

LEMMA WriteStays ==
  ASSUME IndInv, Unrepairable, pc \in Writing,
         NEW T, NEW ok, NEW err, NEW esc, Write(T, ok, err, esc)
  PROVE  Stays
BY Poisoned, SameFileStays DEF Write, writer, durability

LEMMA ResumeStays ==
  ASSUME IndInv, Unrepairable, Resume
  PROVE  Stays /\ Held
<1>1. ~PrepareResume /\ ~BeginRepair /\ ~OpenForAudit /\ ~CutTail
  BY DEF Unrepairable, PrepareResume, BeginRepair, OpenForAudit, CutTail
<1>2. CASE AbortResume
  BY <1>2, SameFileStays DEF AbortResume, Release, Resuming, Repairing, Held
<1>3. ~AppendRecovery /\ ~RepairTranscript /\ ~AppendResumed
  BY DEF AppendRecovery, RepairTranscript, AppendResumed, IndInv, WriterKnowsFile, Unrepairable
<1> QED
  BY <1>1, <1>2, <1>3 DEF Resume

LEMMA TurnStays ==
  ASSUME IndInv, Unrepairable, Turn
  PROVE  Stays /\ Held
<1>1. Held
  BY DEF Turn, BeginTurn, TurnRaises, CommitTurn, Remember, RecordFailure, EndFailure, Held
<1>2. CASE BeginTurn \/ TurnRaises \/ Remember \/ EndFailure
  BY <1>1, <1>2, SameFileStays
  DEF BeginTurn, TurnRaises, Remember, EndFailure, Step, writer, durability
<1>3. CASE CommitTurn \/ RecordFailure
  BY <1>1, <1>3, WriteStays, WritingPlaces DEF CommitTurn, RecordFailure
<1> QED
  BY <1>1, <1>2, <1>3 DEF Turn

LEMMA CoordinateStays ==
  ASSUME IndInv, Unrepairable, Coordinate
  PROVE  Stays /\ Held
<1>1. CASE RequestAction
  <2>1. PICK j \in Job :
          /\ j.home = pc
          /\ Write(ActionRequested(mem, j.action, [mode |-> mode, lease |-> rt], rt),
                   "requested", IF j.guarded THEN pc ELSE "failing", Escapes(pc))
    BY <1>1 DEF RequestAction
  <2>2. pc \in Writing /\ Held
    BY <2>1, WritingPlaces DEF Job, Homes, Held
  <2> QED
    BY <2>1, <2>2, WriteStays
<1>2. CASE DecidePermission
  BY <1>2, WriteStays, WritingPlaces DEF DecidePermission, Held
<1>3. CASE ResolveApproval
  BY <1>3, WriteStays, WritingPlaces DEF ResolveApproval, Held
<1>4. CASE StartAction
  BY <1>4, WriteStays, WritingPlaces DEF StartAction, Held
<1>5. CASE FinishAction
  BY <1>5, WriteStays, WritingPlaces DEF FinishAction, Held
<1>6. CASE ApprovalRaises \/ RevalidationFails \/ InterruptAction \/ Execute
  BY <1>6, SameFileStays
  DEF ApprovalRaises, RevalidationFails, InterruptAction, Execute, Step, Held, Coordinating,
      writer, durability
<1> QED
  BY <1>1, <1>2, <1>3, <1>4, <1>5, <1>6 DEF Coordinate

LEMMA OthersStay ==
  ASSUME IndInv, Unrepairable,
         CloseSession \/ Leave \/ Crash \/ SwitchRuntime \/ Describe \/ \E c \in Receipt : Deliver(c)
  PROVE  Stays /\ Held
<1>1. CASE Leave \/ Crash
  BY <1>1, SameFileStays DEF Leave, Crash, Release, Held
<1>2. CASE CloseSession
  BY <1>2, Poisoned, WritingPlaces DEF CloseSession
<1>3. CASE SwitchRuntime \/ Describe
  BY <1>3, WriteStays, WritingPlaces DEF SwitchRuntime, Describe, Held
<1>4. ASSUME NEW c \in Receipt, Deliver(c) PROVE Stays /\ Held
  <2>1. pc \in Writing /\ Held
    BY <1>4, WritingPlaces DEF Deliver, Held
  <2>2. CASE UNCHANGED <<file, pc, writer>>
    BY <2>1, <2>2, SameFileStays DEF writer, durability
  <2>3. CASE ~UNCHANGED <<file, pc, writer>>
    BY <1>4, <2>1, <2>3, WriteStays DEF Deliver
  <2> QED
    BY <2>2, <2>3, <2>1
<1> QED
  BY <1>1, <1>2, <1>3, <1>4

\* Nothing is ever added to such a transcript once no writer that an interruption
\* left behind its file holds it, nobody resumes or repairs it and no audit writer
\* opens it: the repair cuts torn records only (prepare_resume, repair_transcript).
THEOREM UnrepairableForever ==
  Spec => [][Unrepairable => /\ Unrepairable' /\ UNCHANGED file
                             /\ pc = "free" => pc' = "free"]_vars
<1>1. ASSUME IndInv, Unrepairable, [Next]_vars
      PROVE  Unrepairable' /\ UNCHANGED file /\ (pc = "free" => pc' = "free")
  <2>1. CASE UNCHANGED vars
    BY <1>1, <2>1 DEF vars, file, writer, durability, Unrepairable
  <2>2. CASE Next
    BY <1>1, <2>2, ResumeStays, TurnStays, CoordinateStays, OthersStay DEF Next, Stays, Held
  <2> QED
    BY <1>1, <2>1, <2>2
<1> QED
  BY <1>1, Inductive, PTL DEF Spec
=============================================================================
