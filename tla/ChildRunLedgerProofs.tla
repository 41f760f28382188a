------------------------ MODULE ChildRunLedgerProofs ------------------------
(***************************************************************************)
(* What one appended record does to a transcript: which types it has, and   *)
(* what happens to its status; and what every transcript that replays has   *)
(* in common.                                                               *)
(***************************************************************************)
EXTENDS ChildRunLedger, SequenceTheorems, FiniteSetTheorems, TLAPS

\* Appending a record adds its type and nothing else (_append_transition).
LEMMA HasAppend ==
  ASSUME NEW log \in Seq(Record), NEW r \in Record, NEW t
  PROVE  Has(Append(log, r), t) <=> Has(log, t) \/ r.type = t
<1>1. /\ Append(log, r) \in Seq(Record)
      /\ DOMAIN Append(log, r) = 1..(Len(log) + 1)
      /\ DOMAIN log = 1..Len(log)
      /\ \A i \in 1..Len(log) : Append(log, r)[i] = log[i]
      /\ Append(log, r)[Len(log) + 1] = r
      /\ Len(log) \in Nat
  OBVIOUS
<1>2. ASSUME Has(Append(log, r), t) PROVE Has(log, t) \/ r.type = t
  <2>1. PICK i \in DOMAIN Append(log, r) : Append(log, r)[i].type = t
    BY <1>2 DEF Has
  <2>2. CASE i \in 1..Len(log)
    BY <1>1, <2>1, <2>2 DEF Has
  <2>3. CASE i = Len(log) + 1
    BY <1>1, <2>1, <2>3
  <2> QED
    BY <1>1, <2>2, <2>3
<1>3. ASSUME Has(log, t) \/ r.type = t PROVE Has(Append(log, r), t)
  <2>1. CASE Has(log, t)
    BY <1>1, <2>1 DEF Has
  <2>2. CASE r.type = t
    BY <1>1, <2>2 DEF Has
  <2> QED
    BY <1>3, <2>1, <2>2
<1> QED
  BY <1>2, <1>3

\* The same for the execution a record belongs to.
LEMMA HasExecAppend ==
  ASSUME NEW log \in Seq(Record), NEW r \in Record, NEW t, NEW x
  PROVE  HasExec(Append(log, r), t, x)
           <=> HasExec(log, t, x) \/ (r.type = t /\ r.exec = x)
<1>1. /\ DOMAIN Append(log, r) = 1..(Len(log) + 1)
      /\ DOMAIN log = 1..Len(log)
      /\ \A i \in 1..Len(log) : Append(log, r)[i] = log[i]
      /\ Append(log, r)[Len(log) + 1] = r
      /\ Len(log) \in Nat
  OBVIOUS
<1>2. ASSUME HasExec(Append(log, r), t, x)
      PROVE  HasExec(log, t, x) \/ (r.type = t /\ r.exec = x)
  <2>1. PICK i \in DOMAIN Append(log, r) :
               Append(log, r)[i].type = t /\ Append(log, r)[i].exec = x
    BY <1>2 DEF HasExec
  <2>2. CASE i \in 1..Len(log)
    BY <1>1, <2>1, <2>2 DEF HasExec
  <2>3. CASE i = Len(log) + 1
    BY <1>1, <2>1, <2>3
  <2> QED
    BY <1>1, <2>2, <2>3
<1>3. ASSUME HasExec(log, t, x) \/ (r.type = t /\ r.exec = x)
      PROVE  HasExec(Append(log, r), t, x)
  BY <1>1, <1>3 DEF HasExec
<1> QED
  BY <1>2, <1>3

\* PositionOf points at a record of the type it is asked for.
LEMMA PositionOfType ==
  ASSUME NEW log \in Seq(Record), NEW t, Has(log, t)
  PROVE  /\ PositionOf(log, t) \in 1..Len(log)
         /\ PositionOf(log, t) \in Nat
         /\ log[PositionOf(log, t)].type = t
         /\ log[PositionOf(log, t)] \in Record
<1>1. \E i \in DOMAIN log : log[i].type = t
  BY DEF Has
<1>2. PositionOf(log, t) \in DOMAIN log /\ log[PositionOf(log, t)].type = t
  BY <1>1 DEF PositionOf
<1> QED
  BY <1>2

\* The execution a writer quotes is one, or None.
LEMMA ExecutionOfType ==
  ASSUME NEW log \in Seq(Record), NEW t
  PROVE  ExecutionOf(log, t) \in Executions \cup {NoExecution}
BY PositionOfType DEF ExecutionOf, Record

\* A terminal transcript has the record a handoff quotes.
LEMMA TerminalTypePresent ==
  ASSUME NEW log, Status(log) \in TerminalStatuses
  PROVE  Has(log, TerminalType(log))
BY DEF Status, TerminalStatuses, TerminalType

\* The records the writers append are records.
LEMMA WrittenRecords ==
  ASSUME NEW log \in Seq(Record)
  PROVE  /\ \A t \in RecordTypes, x \in Executions \cup {NoExecution} : Rec(t, x) \in Record
         /\ CancelRequested(log) \in Record
         /\ Has(log, "cancel_requested") => CancelledTerminal(log) \in Record
         /\ Interrupted(log) \in Record
         /\ Status(log) \in TerminalStatuses => Handoff(log) \in Record
<1>1. \A t \in RecordTypes, x \in Executions \cup {NoExecution} : Rec(t, x) \in Record
  BY DEF Rec, Record
<1>2. CancelRequested(log) \in Record
  BY <1>1, ExecutionOfType DEF CancelRequested, RecordTypes
<1>3. ASSUME Has(log, "cancel_requested") PROVE CancelledTerminal(log) \in Record
  <2>1. PositionOf(log, "cancel_requested") \in Nat
    BY <1>3, PositionOfType
  <2>2. ExecutionOf(log, "cancel_requested") \in Executions \cup {NoExecution}
    BY ExecutionOfType
  <2> QED
    BY <2>1, <2>2 DEF CancelledTerminal, Rec, RecordTypes, TerminalTypes, Record
<1>4. Interrupted(log) \in Record
  <2>1. ExecutionOf(log, "started") \in Executions \cup {NoExecution}
    BY ExecutionOfType
  <2> QED
    BY <2>1 DEF Interrupted, Rec, RecordTypes, TerminalTypes, Record, Statuses
<1>5. ASSUME Status(log) \in TerminalStatuses PROVE Handoff(log) \in Record
  <2>1. PositionOf(log, TerminalType(log)) \in Nat
    BY <1>5, TerminalTypePresent, PositionOfType
  <2> QED
    BY <1>5, <2>1 DEF Handoff, Rec, RecordTypes, Record, Statuses, TerminalStatuses
<1> QED
  BY <1>1, <1>2, <1>3, <1>4, <1>5

\* What a status says about the records behind it.
LEMMA StatusMeans ==
  ASSUME NEW log
  PROVE  /\ Status(log) \in Statuses
         /\ Status(log) \notin TerminalStatuses <=> NoneOf(log, TerminalTypes)
         /\ Status(log) = "queued" =>
              NoneOf(log, {"admitted", "session_bound", "started", "cancel_requested"})
         /\ Status(log) = "ready" => NoneOf(log, {"started", "cancel_requested"})
         /\ Status(log) = "completed" => Has(log, "completed")
         /\ Status(log) = "cancelled" =>
              Has(log, "cancelled") \/ Has(log, "cancelled_terminal")
         /\ Has(log, "cancelled") => Status(log) = "cancelled"
BY DEF Status, Statuses, TerminalStatuses, TerminalTypes, NoneOf

\* A record of no terminal type leaves a terminal status alone.
LEMMA StatusKept ==
  ASSUME NEW log \in Seq(Record), NEW r \in Record,
         Status(log) \in TerminalStatuses, r.type \notin TerminalTypes
  PROVE  Status(Append(log, r)) = Status(log)
BY HasAppend DEF Status, TerminalStatuses, TerminalTypes

\* An interruption behind another terminal record does not show.
LEMMA StatusKeptByInterrupted ==
  ASSUME NEW log \in Seq(Record), NEW r \in Record,
         Status(log) \in TerminalStatuses, r.type = "interrupted"
  PROVE  Status(Append(log, r)) = Status(log)
BY HasAppend DEF Status, TerminalStatuses

\* Nor does a terminal cancellation, unless the run was interrupted.
LEMMA StatusKeptByCancelled ==
  ASSUME NEW log \in Seq(Record), NEW r \in Record,
         Status(log) \in TerminalStatuses, r.type = "cancelled_terminal",
         ~Has(log, "interrupted")
  PROVE  Status(Append(log, r)) = Status(log)
BY HasAppend DEF Status, TerminalStatuses

-----------------------------------------------------------------------------
(* Transcripts that replay.                                                 *)

\* Which types the records before position i have.
LEMMA PrefixHas ==
  ASSUME NEW s \in Seq(Record), NEW i \in 1..Len(s), NEW t
  PROVE  Has(SubSeq(s, 1, i - 1), t) <=> \E j \in 1..(i - 1) : s[j].type = t
<1> DEFINE p == SubSeq(s, 1, i - 1)
<1>1. \A j \in 1..(i - 1) : s[j] \in Record
  OBVIOUS
<1>2. p \in Seq(Record) /\ Len(p) = i - 1 /\ \A j \in 1..(i - 1) : p[j] = s[j]
  BY <1>1, SubSeqProperties
<1>3. DOMAIN p = 1..(i - 1)
  BY <1>2
<1> QED
  BY <1>2, <1>3 DEF Has

\* A transcript that replays still replays with a record its writer accepts
\* (ChildRunWriter._append_transition).
LEMMA ReplayableAppend ==
  ASSUME NEW s \in Seq(Record), NEW r \in Record, Replayable(s), Accepts(s, r)
  PROVE  Replayable(Append(s, r))
<1> DEFINE a == Append(s, r)
<1>1. /\ Len(s) \in Nat /\ Len(a) = Len(s) + 1
      /\ \A i \in 1..Len(s) : a[i] = s[i]
      /\ a[Len(s) + 1] = r
      /\ a \in Seq(Record)
  BY AppendProperties
<1>2. Len(s) > 0 /\ s[1].type = "header"
  BY DEF Replayable
<1>3. ASSUME NEW i \in 1..Len(s) PROVE SubSeq(a, 1, i) = SubSeq(s, 1, i)
  <2>1. a = s \o <<r>>
    BY AppendIsConcat
  <2>2. <<r>> \in Seq(Record) /\ 1 \in 1..Len(s)
    BY <1>1, <1>2
  <2> QED
    BY <2>1, <2>2, SubSeqOfConcat1
<1>4. ASSUME NEW i \in 2..Len(a) PROVE LegalNext(SubSeq(a, 1, i - 1), a[i])
  <2>1. i - 1 \in 1..Len(s)
    BY <1>1
  <2>2. SubSeq(a, 1, i - 1) = SubSeq(s, 1, i - 1)
    BY <2>1, <1>3
  <2>3. CASE i \in 2..Len(s)
    <3>1. a[i] = s[i]
      BY <1>1, <2>3
    <3>2. LegalNext(SubSeq(s, 1, i - 1), s[i])
      BY <2>3 DEF Replayable
    <3> QED
      BY <2>2, <3>1, <3>2
  <2>4. CASE i = Len(s) + 1
    <3>1. SubSeq(s, 1, i - 1) = s /\ a[i] = r
      BY <1>1, <2>4, SubSeqFull
    <3> QED
      BY <2>2, <3>1 DEF Accepts
  <2> QED
    BY <1>1, <2>3, <2>4
<1> QED
  BY <1>1, <1>2, <1>4 DEF Replayable, Accepts

\* What a record demands of those before it, said of positions.
LEMMA Before ==
  ASSUME NEW s \in Seq(Record), Replayable(s), NEW i \in 2..Len(s)
  PROVE  /\ s[i].type \in RecordTypes \ {"header"}
         /\ s[i].type = "delegated" => i = 2
         /\ \A j \in 1..(i - 1) : s[j].type # s[i].type
         /\ s[i].type \in {"started", "cancel_requested"} =>
              \E j \in 1..(i - 1) : s[j].type = "session_bound"
         /\ s[i].type = "session_bound" => \E j \in 1..(i - 1) : s[j].type = "admitted"
         /\ s[i].type = "preparation_failed" =>
              \A j \in 1..(i - 1) : s[j].type # "session_bound"
         /\ s[i].type = "cancelled" => \A j \in 1..(i - 1) : s[j].type # "admitted"
         /\ s[i].type = "admitted" => \A j \in 1..(i - 1) : s[j].type # "cancelled"
<1> DEFINE p == SubSeq(s, 1, i - 1)
<1>1. s[i] \in Record /\ s[1].type = "header" /\ i \in 1..Len(s) /\ i \in Nat
  BY DEF Replayable
<1>2. LegalNext(p, s[i])
  BY DEF Replayable
<1>3. \A t : Has(p, t) <=> \E j \in 1..(i - 1) : s[j].type = t
  BY <1>1, PrefixHas
<1>4. Len(p) = 1 => i = 2
  <2>1. \A j \in 1..(i - 1) : s[j] \in Record
    OBVIOUS
  <2>2. Len(p) = i - 1
    BY <1>1, <2>1, SubSeqProperties
  <2> QED
    BY <1>1, <2>2
<1> HIDE DEF p
<1>5. s[i].type # "header" /\ s[i].type \in RecordTypes
  BY <1>1, <1>2 DEF LegalNext, Record
<1>6. s[i].type = "delegated" => i = 2
  BY <1>2, <1>4 DEF LegalNext
<1>7. s[i].type # "delegated" => ~Has(p, s[i].type)
  BY <1>2 DEF LegalNext, NoneOf, LegalHandoff
<1>8. s[i].type = "delegated" => \A j \in 1..(i - 1) : s[j].type # s[i].type
  BY <1>1, <1>6
<1>9. /\ s[i].type = "started" => Has(p, "session_bound")
      /\ s[i].type = "cancel_requested" => Has(p, "session_bound")
      /\ s[i].type = "session_bound" => Has(p, "admitted")
      /\ s[i].type = "preparation_failed" => ~Has(p, "session_bound")
      /\ s[i].type = "cancelled" => ~Has(p, "admitted")
      /\ s[i].type = "admitted" => ~Has(p, "cancelled")
  BY <1>2 DEF LegalNext, NoneOf
<1> QED
  BY <1>3, <1>5, <1>6, <1>7, <1>8, <1>9

\* A transcript that replays has one record of each type at most.
LEMMA OneOfEachType ==
  ASSUME NEW s \in Seq(Record), Replayable(s),
         NEW i \in DOMAIN s, NEW j \in DOMAIN s, s[i].type = s[j].type
  PROVE  i = j
<1>1. DOMAIN s = 1..Len(s) /\ Len(s) \in Nat
  OBVIOUS
<1>2. ASSUME NEW m \in 1..Len(s), NEW n \in 1..Len(s), m < n PROVE s[m].type # s[n].type
  <2>1. n \in 2..Len(s) /\ m \in 1..(n - 1)
    BY <1>2
  <2> QED
    BY <2>1, Before
<1> QED
  BY <1>1, <1>2

\* A run that was bound did not fail in preparation: with its header and its
\* admission such a transcript would have more than three records.
LEMMA BoundIsPrepared ==
  ASSUME NEW s \in Seq(Record), Replayable(s), Has(s, "session_bound")
  PROVE  ~Has(s, "preparation_failed")
<1>1. SUFFICES ASSUME Has(s, "preparation_failed") PROVE FALSE
  OBVIOUS
<1>2. DOMAIN s = 1..Len(s) /\ Len(s) \in 2..3 /\ s[1].type = "header"
  <2>1. Len(s) \in {2, 3}
    BY <1>1 DEF Replayable, WholeLogLegal
  <2> QED
    BY <2>1 DEF Replayable
<1>3. PICK i \in 2..Len(s) : s[i].type = "preparation_failed"
  BY <1>1, <1>2 DEF Has
<1>4. PICK j \in 2..Len(s) : s[j].type = "session_bound"
  BY <1>2 DEF Has
<1>5. \A k \in 1..(i - 1) : s[k].type # "session_bound"
  BY <1>3, Before
<1>6. PICK k \in 1..(j - 1) : s[k].type = "admitted"
  BY <1>4, Before
<1>7. i # j /\ j \notin 1..(i - 1) /\ k # i /\ k # 1
  BY <1>2, <1>3, <1>4, <1>5, <1>6
<1> QED
  BY <1>2, <1>3, <1>4, <1>6, <1>7

\* Every record has one of nine places; the types that share a place exclude
\* each other.
Place(t) ==
  CASE t = "header" -> 1
    [] t = "delegated" -> 2
    [] t \in {"admitted", "cancelled"} -> 3
    [] t \in {"session_bound", "preparation_failed"} -> 4
    [] t = "started" -> 5
    [] t = "cancel_requested" -> 6
    [] t \in {"completed", "failed", "cancelled_terminal"} -> 7
    [] t = "interrupted" -> 8
    [] OTHER -> 9

LEMMA PlacesTaken ==
  ASSUME NEW s \in Seq(Record), Replayable(s),
         NEW i \in 1..Len(s), NEW j \in 1..Len(s), i < j
  PROVE  Place(s[i].type) # Place(s[j].type)
<1>1. j \in 2..Len(s) /\ i \in 1..(j - 1) /\ DOMAIN s = 1..Len(s)
  OBVIOUS
<1>2. s[i].type # s[j].type /\ s[i].type \in RecordTypes /\ s[j].type \in RecordTypes
  <2>1. s[i] \in Record /\ s[j] \in Record
    OBVIOUS
  <2>2. s[i].type \in RecordTypes /\ s[j].type \in RecordTypes
    BY <2>1 DEF Record
  <2> QED
    BY <1>1, <2>2, Before
<1>3. Has(s, s[i].type) /\ Has(s, s[j].type)
  BY <1>1 DEF Has
<1>4. {s[i].type, s[j].type} # {"admitted", "cancelled"}
  <2>1. s[j].type = "cancelled" => s[i].type # "admitted"
    BY <1>1, Before
  <2>2. s[j].type = "admitted" => s[i].type # "cancelled"
    BY <1>1, Before
  <2> QED
    BY <2>1, <2>2
<1>5. {s[i].type, s[j].type} # {"session_bound", "preparation_failed"}
  <2>1. Has(s, "session_bound") => ~Has(s, "preparation_failed")
    BY BoundIsPrepared
  <2>2. ~(s[i].type = "session_bound" /\ s[j].type = "preparation_failed")
    BY <1>3, <2>1
  <2>3. ~(s[i].type = "preparation_failed" /\ s[j].type = "session_bound")
    BY <1>3, <2>1
  <2> QED
    BY <2>2, <2>3
<1>6. ~({s[i].type, s[j].type} \subseteq {"completed", "failed", "cancelled_terminal"})
  BY <1>2, <1>3 DEF Replayable, WholeLogLegal, NoneOf
<1> QED
  BY <1>2, <1>4, <1>5, <1>6 DEF Place, RecordTypes, TerminalTypes

\* So a transcript that replays has nine records at most.
LEMMA AtMostNine ==
  ASSUME NEW s \in Seq(Record), Replayable(s)
  PROVE  Len(s) <= 9
<1> DEFINE f == [i \in 1..Len(s) |-> Place(s[i].type)]
<1>1. Len(s) \in Nat
  OBVIOUS
<1>2. \A t : Place(t) \in 1..9
  BY DEF Place
<1>3. f \in [1..Len(s) -> 1..9]
  BY <1>2
<1>4. ASSUME NEW i \in 1..Len(s), NEW j \in 1..Len(s), f[i] = f[j] PROVE i = j
  <2>1. ~(i < j) /\ ~(j < i)
    BY <1>4, PlacesTaken
  <2> QED
    BY <2>1
<1>5. f \in Injection(1..Len(s), 1..9)
  BY <1>3, <1>4 DEF Injection, IsInjective
<1> HIDE DEF f
<1>6. /\ IsFiniteSet(1..9) /\ Cardinality(1..9) = 9
      /\ Len(s) > 0 => Cardinality(1..Len(s)) = Len(s)
  <2>1. ASSUME NEW b \in Nat, b > 0 PROVE IsFiniteSet(1..b) /\ Cardinality(1..b) = b
    <3>1. /\ IsFiniteSet(1..b)
          /\ Cardinality(1..b) = IF 1 > b THEN 0 ELSE b - 1 + 1
      BY FS_Interval
    <3> QED
      BY <3>1
  <2>2. 9 \in Nat /\ 9 > 0
    OBVIOUS
  <2>3. IsFiniteSet(1..9) /\ Cardinality(1..9) = 9
    BY <2>1, <2>2
  <2> QED
    BY <1>1, <2>1, <2>3
<1>7. Cardinality(1..Len(s)) <= 9
  BY <1>5, <1>6, FS_Injection
<1> QED
  BY <1>1, <1>6, <1>7
=============================================================================
