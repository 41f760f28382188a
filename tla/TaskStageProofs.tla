-------------------------- MODULE TaskStageProofs --------------------------
(***************************************************************************)
(* Proofs about TaskStage for any numbers of Stages, Turns, bridge callers, *)
(* Children and criteria, and any budget.                                  *)
(***************************************************************************)
EXTENDS TaskStage, WellFoundedInduction, TLAPS

\* A bridge caller between the steps of start_child_stage holds the lock.
Inside(b) == bridge[b].pc \in {"started", "created"}

\* The lock excludes: one writer at a time, the Host's calls included.
Locked ==
  /\ host.pc # "idle" => \A b \in Bridge : ~Inside(b)
  /\ \A b, d \in Bridge : Inside(b) /\ Inside(d) => b = d

\* What the Host's process knows of the Task while it holds the lock.
HostPlace ==
  /\ host.pc # "idle" => Count > 0 /\ terminal = "none"
  /\ host.pc \in {"prompting", "committed", "raising", "failing"} =>
       OpenStage /\ Latest.child = None /\ Latest.base # NoBase
  /\ host.pc = "prompting" => Latest.base = host.seen
  /\ host.pc \in {"signalling", "reconciling"} => Latest.end = "committed" /\ Latest.signal = "none"
  /\ host.pc = "completing" => AllVerified
  /\ host.pc \in {"cancelled", "failed"} => ~OpenStage

\* What a bridge caller decided and has yet to write.  What it observed stays
\* true of the latest Stage: a settled Child's Stage has no usage, so no Stage
\* follows it.
BridgePlace ==
  \A b \in Bridge :
    /\ Inside(b) => OpenStage /\ Latest.child = None /\ Latest.base = NoBase
    /\ bridge[b].pc = "created" => bridge[b].child # None
    /\ bridge[b].pc = "observed" =>
         /\ Count > 0 /\ bridge[b].child # None /\ Latest.child = bridge[b].child
         /\ bridge[b].good => child[bridge[b].child] = "completed"

\* The shape of the Task's ledger: only the latest Stage is open, delegated
\* ones are settled by the bridge and without usage.
LedgerShape ==
  /\ \A n \in 1..Count : stages[n].end = "open" =>
       n = Count /\ stages[n].signal = "none" /\ stages[n].cost = Unknown
  /\ \A n \in 1..Count : stages[n].child # None =>
       stages[n].end \in {"open", "external", "refused"} /\ stages[n].cost = Unknown
  /\ \A n \in 1..Count : stages[n].end \in {"external", "refused"} => stages[n].child # None
  /\ terminal # "none" => ~OpenStage

\* A writer that nothing failed or interrupted knows all Turns of its Session.
SessionPlace == host.writer = "good" => host.seen = Len(turns) /\ Readable

\* A Turn that answers a Stage's prompt is the one right after the baseline of
\* that Stage.
OwnTurns ==
  \A t \in 1..Len(turns) : turns[t].stage # 0 =>
    turns[t].stage <= Count /\ t = stages[turns[t].stage].base + 1

\* The parts that are about what is durable only.
Durable == LedgerShape /\ OwnTurns /\ TurnBinding /\ ExternalEvidence /\ CompletionSound

IndInv == Locked /\ HostPlace /\ BridgePlace /\ SessionPlace /\ Durable

-----------------------------------------------------------------------------
(* The two ways to write the ledger of Stages.                              *)

LEMMA OpenedIs ==
  ASSUME NEW kind \in Kind, NEW base \in {NoBase} \cup 0..MaxTurns
  PROVE  Opened(kind, base) \in Stage
<1>1. 0 \in 0..MaxTurns
  BY StageAssumption
<1>2. QED
  BY <1>1 DEF Opened, Stage, Unknown, Signal

LEMMA TurnTyped ==
  ASSUME TypeOK
  PROVE  /\ Len(turns) \in Nat
         /\ \A t \in 1..Len(turns) : turns[t] \in Turn /\ turns[t].stage \in Nat
<1>1. /\ Len(turns) \in Nat
      /\ \A t \in 1..Len(turns) : turns[t] \in Turn
  BY DEF TypeOK
<1>2. QED
  BY <1>1, StageAssumption DEF Turn

LEMMA AppendIs ==
  ASSUME TypeOK, NEW s \in Stage, stages' = Append(stages, s)
  PROVE  /\ stages' \in Seq(Stage) /\ Count' = Count + 1 /\ Latest' = s
         /\ \A n \in 1..Count : stages'[n] = stages[n]
         /\ Count \in Nat
BY DEF TypeOK, Count, Latest

LEMMA UpdateIs ==
  ASSUME TypeOK, Count > 0, NEW s \in Stage, stages' = Update(s)
  PROVE  /\ stages' \in Seq(Stage) /\ Count' = Count /\ Latest' = s
         /\ \A n \in 1..Count : n # Count => stages'[n] = stages[n]
         /\ stages'[Count] = s
         /\ Count \in Nat
BY DEF TypeOK, Count, Latest, Update

LEMMA LatestIs ==
  ASSUME TypeOK, Count > 0
  PROVE  Count \in 1..MaxStages /\ Latest \in Stage
BY StageAssumption DEF TypeOK, Count, Latest

\* What the invariant asks of the latest Stage.
Fitting(s) ==
  /\ s.end = "open" => s.signal = "none" /\ s.cost = Unknown
  /\ s.child # None => s.end \in {"open", "external", "refused"} /\ s.cost = Unknown
  /\ s.end = "committed" =>
       /\ s.turn \in 1..Len(turns)
       /\ turns[s.turn].stage = Count
       /\ s.base < s.turn
       /\ s.signal \in {"none", turns[s.turn].signal}
  /\ s.end \in {"external", "refused"} =>
       /\ s.evidence = s.child /\ s.child # None
       /\ s.end = "external" => child[s.evidence] = "completed"

LEMMA LatestFits ==
  ASSUME TypeOK, Durable, Count > 0
  PROVE  Fitting(Latest)
BY DEF TypeOK, Durable, LedgerShape, TurnBinding, ExternalEvidence, Fitting, Latest, Count

LEMMA UpdateKeeps ==
  ASSUME TypeOK, Durable, Count > 0, terminal = "none",
         NEW s \in Stage, Fitting(s), s.base = Latest.base,
         stages' = Update(s), UNCHANGED <<terminal, turns, child>>
  PROVE  Durable'
<1>1. /\ Count' = Count /\ Count \in Nat
      /\ \A n \in 1..Count : n # Count => stages'[n] = stages[n]
      /\ stages'[Count] = s
  BY UpdateIs
<1>2. \A n \in 1..Count : stages'[n].base = stages[n].base
  BY <1>1 DEF Latest
<1>3. LedgerShape'
  BY <1>1 DEF Durable, LedgerShape, Fitting
<1>4. OwnTurns'
  BY <1>1, <1>2, TurnTyped DEF Durable, OwnTurns
<1>5. TurnBinding'
  BY <1>1 DEF Durable, TurnBinding, Fitting
<1>6. ExternalEvidence'
  BY <1>1 DEF Durable, ExternalEvidence, Fitting
<1>7. QED
  BY <1>3, <1>4, <1>5, <1>6 DEF Durable, CompletionSound

LEMMA LongerKeeps ==
  ASSUME TypeOK, Durable, terminal = "none", ~OpenStage,
         Count \in Nat, Count' = Count + 1,
         \A n \in 1..Count : stages'[n] = stages[n],
         stages'[Count + 1].end = "open", stages'[Count + 1].signal = "none",
         stages'[Count + 1].cost = Unknown, stages'[Count + 1].child = None,
         UNCHANGED <<terminal, turns, child>>
  PROVE  Durable'
<1>1. \A n \in 1..Count' : n \in 1..Count \/ n = Count + 1
  OBVIOUS
<1>2. \A n \in 1..Count : stages[n].end # "open"
  BY DEF Durable, LedgerShape, OpenStage, Latest
<1>3. LedgerShape'
  BY <1>1, <1>2 DEF Durable, LedgerShape
<1>4. OwnTurns'
  BY TurnTyped DEF Durable, OwnTurns
<1>5. TurnBinding'
  BY <1>1, TurnTyped DEF Durable, TurnBinding
<1>6. ExternalEvidence'
  BY <1>1 DEF Durable, ExternalEvidence
<1>7. QED
  BY <1>3, <1>4, <1>5, <1>6 DEF Durable, CompletionSound

LEMMA AppendKeeps ==
  ASSUME TypeOK, Durable, terminal = "none", ~OpenStage,
         NEW kind \in Kind, NEW base \in {NoBase} \cup 0..MaxTurns,
         stages' = Append(stages, Opened(kind, base)), UNCHANGED <<terminal, turns, child>>
  PROVE  Durable'
<1>1. /\ Count' = Count + 1 /\ Count \in Nat /\ Latest' = Opened(kind, base)
      /\ \A n \in 1..Count : stages'[n] = stages[n]
  BY OpenedIs, AppendIs
<1>2. stages'[Count + 1] = Opened(kind, base)
  BY <1>1 DEF Latest
<1>3. /\ Opened(kind, base).end = "open" /\ Opened(kind, base).signal = "none"
      /\ Opened(kind, base).cost = Unknown /\ Opened(kind, base).child = None
  BY DEF Opened
<1>4. /\ stages'[Count + 1].end = "open" /\ stages'[Count + 1].signal = "none"
      /\ stages'[Count + 1].cost = Unknown /\ stages'[Count + 1].child = None
  BY <1>2, <1>3
<1>5. QED
  BY <1>1, <1>4, LongerKeeps

LEMMA SameKeeps ==
  ASSUME Durable, UNCHANGED <<stages, terminal, turns, child>>, verified \subseteq verified'
  PROVE  Durable'
<1>1. LedgerShape' /\ OwnTurns' /\ TurnBinding' /\ ExternalEvidence'
  BY DEF Durable, LedgerShape, OwnTurns, TurnBinding, ExternalEvidence, Count, OpenStage, Latest
<1>2. CompletionSound'
  BY DEF Durable, CompletionSound, OpenStage, Latest, Count, AllVerified, Proposed, Verified
<1>3. QED
  BY <1>1, <1>2 DEF Durable

-----------------------------------------------------------------------------
(* The steps of the Host.                                                   *)

HostPc == {"idle", "prompting", "committed", "raising", "failing", "signalling",
           "reconciling", "completing", "cancelled", "failed"}
Writers == {"good", "sick", "behind", "gone"}
HostState == [pc : HostPc, seen : 0..MaxTurns, writer : Writers, usage : {Unknown} \cup 0..TurnCost]

\* Who takes the lock finds it free.
LEMMA FreeIs ==
  ASSUME Free PROVE host.pc = "idle" /\ \A b \in Bridge : ~Inside(b)
BY DEF Free, Inside

LEMMA WriteIs ==
  ASSUME TypeOK, NEW new, NEW next \in HostPc, WriteStages(new, next)
  PROVE  /\ stages' = stages \/ stages' = new
         /\ host' \in HostState
         /\ host'.pc = "idle" \/ (host'.pc = next /\ stages' = new)
         /\ host'.seen = host.seen /\ host'.writer = host.writer
BY DEF TypeOK, WriteStages, Outcome, HostPc, HostState, Writers

\* What a bridge caller relies on survives a step that keeps the delegation of
\* the latest Stage.
LEMMA BridgeKept ==
  ASSUME BridgePlace, UNCHANGED <<bridge, child>>, \A b \in Bridge : ~Inside(b),
         Count > 0 => Count' = Count /\ Latest'.child = Latest.child
  PROVE  BridgePlace'
BY DEF BridgePlace, Inside

LEMMA HostLooks ==
  ASSUME TypeOK, IndInv, UNCHANGED <<stages, terminal, turns, transcript, bridge, child>>,
         verified \subseteq verified', verified' \subseteq (1..MaxStages) \X Criterion,
         failed' \subseteq (1..MaxStages) \X Criterion, spent' \in Nat,
         host' \in HostState, host'.seen = host.seen, host'.writer = host.writer, HostPlace',
         host'.pc # "idle" => \A b \in Bridge : ~Inside(b)
  PROVE  TypeOK' /\ IndInv'
<1>1. TypeOK'
  BY DEF TypeOK, HostState, Writers, HostPc, Count
<1>2. Durable'
  BY SameKeeps DEF IndInv
<1>3. BridgePlace' /\ Locked'
  BY DEF IndInv, BridgePlace, Locked, Inside, OpenStage, Latest, Count
<1>4. SessionPlace'
  BY DEF IndInv, SessionPlace, Readable
<1>5. QED
  BY <1>1, <1>2, <1>3, <1>4 DEF IndInv

LEMMA HostWrites ==
  ASSUME TypeOK, IndInv, Count > 0, terminal = "none", \A b \in Bridge : ~Inside(b),
         NEW s \in Stage, Fitting(s), s.base = Latest.base, s.child = Latest.child,
         NEW next \in {"idle", "signalling", "reconciling", "completing", "cancelled", "failed"},
         next \in {"signalling", "reconciling"} => s.end = "committed" /\ s.signal = "none",
         next = "completing" =>
           s.end = "committed" /\ s.signal = "completion" /\ \A c \in Criterion : Verified(c),
         next \in {"cancelled", "failed"} => s.end # "open",
         WriteStages(Update(s), next),
         UNCHANGED <<terminal, verified, failed, turns, transcript, bridge, child, spent>>
  PROVE  TypeOK' /\ IndInv'
<1>1. /\ stages' = stages \/ stages' = Update(s)
      /\ host' \in HostState
      /\ host'.pc = "idle" \/ (host'.pc = next /\ stages' = Update(s))
      /\ host'.seen = host.seen /\ host'.writer = host.writer
  BY WriteIs DEF HostPc
<1>2. CASE stages' = stages /\ host'.pc = "idle"
  BY <1>1, <1>2, HostLooks DEF HostPlace, TypeOK
<1>3. CASE stages' = Update(s)
  <2>1. stages' \in Seq(Stage) /\ Count' = Count /\ Latest' = s
    BY <1>3, UpdateIs
  <2>2. TypeOK'
    BY <1>1, <2>1 DEF TypeOK, HostState, Writers, HostPc
  <2>3. Durable'
    BY <1>3, UpdateKeeps DEF IndInv
  <2>4. BridgePlace'
    BY <2>1, BridgeKept DEF IndInv
  <2>5. Locked'
    BY DEF Locked, Inside
  <2>6. SessionPlace'
    BY <1>1 DEF IndInv, SessionPlace, Readable
  <2>7. HostPlace'
    BY <1>1, <2>1 DEF HostPlace, OpenStage, AllVerified, Proposed, Verified
  <2>8. QED
    BY <2>2, <2>3, <2>4, <2>5, <2>6, <2>7 DEF IndInv
<1>4. QED
  BY <1>1, <1>2, <1>3

\* Nobody has observed anything when a Stage may start: an observed Stage is
\* delegated, so it is open, or settled without usage.
LEMMA NoneObserved ==
  ASSUME TypeOK, IndInv, ~OpenStage, ~Unavailable, NEW b \in Bridge
  PROVE  bridge[b].pc # "observed"
<1>1. SUFFICES ASSUME bridge[b].pc = "observed" PROVE FALSE
  OBVIOUS
<1>2. Count > 0 /\ Latest.child # None /\ Count \in 1..Count
  BY <1>1, LatestIs DEF IndInv, BridgePlace
<1>3. Latest.end # "open"
  BY <1>2 DEF OpenStage
<1>4. Latest.cost = Unknown
  BY <1>2 DEF IndInv, Durable, LedgerShape, Latest
<1>5. QED
  BY <1>2, <1>3, <1>4 DEF Unavailable, Latest

LEMMA StartStageKeeps ==
  ASSUME TypeOK, IndInv, NEW kind \in Kind, StartStage(kind)
  PROVE  TypeOK' /\ IndInv'
<1> DEFINE s == Opened(kind, host.seen)
<1>0. /\ terminal = "none" /\ ~OpenStage /\ Count < MaxStages
      /\ ~Unavailable
      /\ host.pc = "idle" /\ \A b \in Bridge : ~Inside(b)
      /\ host.seen \in {NoBase} \cup 0..MaxTurns
      /\ UNCHANGED <<terminal, verified, failed, turns, transcript, bridge, child, spent>>
  <2>1. host.seen \in {NoBase} \cup 0..MaxTurns
    BY DEF TypeOK
  <2>2. host.pc = "idle" /\ \A b \in Bridge : ~Inside(b)
    BY FreeIs DEF StartStage, session
  <2>3. Count \in Nat /\ MaxStages \in Nat
    BY StageAssumption DEF TypeOK, Count
  <2>4. terminal = "none" /\ ~OpenStage /\ Count < MaxStages /\ ~Unavailable
    BY <2>3 DEF StartStage, CanStart, Exhausted, session
  <2>5. QED
    BY <2>1, <2>2, <2>4 DEF StartStage, session
<1>1. /\ stages' = stages \/ stages' = Append(stages, s)
      /\ host' \in HostState
      /\ host'.pc = "idle" \/ (host'.pc = "prompting" /\ stages' = Append(stages, s))
      /\ host'.seen = host.seen /\ host'.writer = host.writer
  BY WriteIs DEF StartStage, HostPc, session
<1>2. CASE stages' = stages /\ host'.pc = "idle"
  BY <1>0, <1>1, <1>2, HostLooks DEF HostPlace, TypeOK
<1>3. CASE stages' = Append(stages, s)
  <2>1. /\ stages' \in Seq(Stage) /\ Count' = Count + 1 /\ Latest' = s /\ Count \in Nat
    BY <1>0, <1>3, OpenedIs, AppendIs
  <2>2. TypeOK'
    BY <1>0, <1>1, <2>1, StageAssumption DEF TypeOK, HostState, Writers, HostPc
  <2>3. Durable'
    BY <1>0, <1>3, AppendKeeps DEF IndInv
  <2>4. \A b \in Bridge : bridge[b].pc # "observed"
    BY <1>0, NoneObserved
  <2>5. BridgePlace' /\ Locked'
    BY <1>0, <2>4 DEF BridgePlace, Locked, Inside
  <2>6. SessionPlace'
    BY <1>0, <1>1 DEF IndInv, SessionPlace, Readable
  <2>7. s.end = "open" /\ s.child = None /\ s.base = host.seen /\ host.seen # NoBase
    BY DEF TypeOK, NoBase, Opened
  <2>8. HostPlace'
    BY <1>0, <1>1, <2>1, <2>7 DEF HostPlace, OpenStage
  <2>9. QED
    BY <2>2, <2>3, <2>5, <2>6, <2>8 DEF IndInv
<1>4. QED
  BY <1>1, <1>2, <1>3

\* One more Turn, of a Stage or of nobody.
LEMMA TurnsGrow ==
  ASSUME TypeOK, Durable, NEW turn \in Turn, Len(turns) < MaxTurns,
         turns' = Append(turns, turn),
         turn.stage # 0 => turn.stage <= Count /\ Len(turns) + 1 = stages[turn.stage].base + 1,
         UNCHANGED <<stages, terminal, verified, child>>
  PROVE  /\ turns' \in Seq(Turn) /\ Len(turns') = Len(turns) + 1 /\ Len(turns') <= MaxTurns
         /\ Durable'
<1>1. /\ turns' \in Seq(Turn) /\ Len(turns') = Len(turns) + 1 /\ Len(turns) \in Nat
      /\ \A t \in 1..Len(turns) : turns'[t] = turns[t]
      /\ turns'[Len(turns) + 1] = turn
  BY DEF TypeOK
<1>2. Len(turns') <= MaxTurns
  BY <1>1, StageAssumption
<1>3. OwnTurns'
  BY <1>1 DEF Durable, OwnTurns, Count
<1>4. TurnBinding'
  BY <1>1 DEF Durable, TurnBinding, Count
<1>5. LedgerShape' /\ ExternalEvidence'
  BY DEF Durable, LedgerShape, ExternalEvidence, Count, OpenStage, Latest
<1>6. CompletionSound'
  BY DEF Durable, CompletionSound, OpenStage, Latest, Count, AllVerified, Proposed, Verified
<1>7. QED
  BY <1>1, <1>2, <1>3, <1>4, <1>5, <1>6 DEF Durable

LEMMA SignalTyped ==
  ASSUME NEW kind \in Kind PROVE SignalOf(kind) \subseteq Signal
BY DEF SignalOf, Signal, Recommendation, Kind

\* A step of the Host's process on the Session, with the Task left as it is.
LEMMA HostSession ==
  ASSUME TypeOK, IndInv, UNCHANGED <<ledger, bridge, child>>,
         turns' \in Seq(Turn), Len(turns') <= MaxTurns, transcript' \in Tails, Durable', SessionPlace', HostPlace',
         host' \in HostState, spent' \in Nat,
         host'.pc # "idle" => host.pc # "idle"
  PROVE  TypeOK' /\ IndInv'
<1>1. TypeOK'
  BY DEF TypeOK, HostState, Writers, HostPc, ledger, Count
<1>2. BridgePlace' /\ Locked'
  BY DEF IndInv, BridgePlace, Locked, Inside, OpenStage, Latest, Count, ledger
<1>3. QED
  BY <1>1, <1>2 DEF IndInv

\* What an append that fails or is interrupted does to the Session: the writer
\* that is still good has not written.
LEMMA SlipsAre ==
  ASSUME TypeOK, NEW slip \in Slips
  PROVE  /\ slip[1] \in Writers /\ slip[2] \in Tails
         /\ slip[1] = "good" => host.writer = "good" /\ slip[2] = transcript
<1>1. host.writer \in Writers /\ transcript \in Tails
  BY DEF TypeOK, Writers
<1>2. Ends \subseteq Tails
  BY <1>1 DEF Ends, Tails
<1>3. CASE slip = <<host.writer, transcript>>
  BY <1>1, <1>3
<1>4. CASE slip \in {"sick", "behind"} \X Ends
  BY <1>2, <1>4 DEF Writers
<1>5. QED
  BY <1>3, <1>4 DEF Slips

LEMMA HostTurn ==
  ASSUME TypeOK PROVE host \in HostState
BY DEF TypeOK, HostState, Writers, HostPc

LEMMA TurnCommitsKeeps ==
  ASSUME TypeOK, IndInv, TurnCommits
  PROVE  TypeOK' /\ IndInv'
<1>1. PICK signal \in SignalOf(Latest.kind), cost \in 1..TurnCost, next \in {"committed", "raising"} :
        /\ TurnLands(TurnOf(Count, signal, cost))
        /\ host' = [host EXCEPT !.pc = next, !.seen = @ + 1]
        /\ spent' = spent + cost
  BY DEF TurnCommits
<1>2. /\ host.pc = "prompting" /\ host.seen < MaxTurns
      /\ UNCHANGED <<ledger, bridge, child>>
  BY DEF TurnCommits, ledger
<1>3. /\ Count > 0 /\ OpenStage /\ Latest.child = None /\ Latest.base = host.seen
      /\ terminal = "none" /\ Latest.base # NoBase
  BY <1>2 DEF IndInv, HostPlace
<1>4. Count \in 1..MaxStages /\ Latest \in Stage
  BY <1>3, LatestIs
<1>5. TurnOf(Count, signal, cost) \in Turn
  BY <1>4, SignalTyped, StageAssumption DEF TurnOf, Turn, Stage
<1>6. /\ host' \in HostState /\ host'.pc = next /\ host'.seen = host.seen + 1
      /\ host'.writer = host.writer
  <2>1. host \in HostState /\ host.seen + 1 \in 0..MaxTurns /\ next \in HostPc
    BY <1>2, HostTurn, StageAssumption DEF HostState, HostPc
  <2>2. QED
    BY <1>1, <1>2, <2>1 DEF HostState
<1>7. /\ turns' \in Seq(Turn) /\ Len(turns') <= MaxTurns /\ transcript' \in Tails
      /\ Durable' /\ SessionPlace'
  <2>1. CASE host.writer = "good"
    <3>1. /\ host.seen = Len(turns) /\ Readable /\ Len(turns) < MaxTurns
      BY <1>2, <2>1 DEF IndInv, SessionPlace
    <3>2. turns' = Append(turns, TurnOf(Count, signal, cost)) /\ transcript' = transcript
      BY <1>1, <2>1 DEF TurnLands
    <3>3. TurnOf(Count, signal, cost).stage = Count
      BY DEF TurnOf
    <3>4. Len(turns) + 1 = stages[Count].base + 1
      BY <1>3, <3>1 DEF Latest
    <3>5. /\ turns' \in Seq(Turn) /\ Len(turns') = Len(turns) + 1 /\ Len(turns') <= MaxTurns
          /\ Durable'
      BY <1>2, <1>4, <1>5, <3>1, <3>2, <3>3, <3>4, TurnsGrow DEF IndInv, ledger
    <3>6. SessionPlace'
      BY <1>6, <3>1, <3>2, <3>5 DEF SessionPlace, Readable
    <3>7. QED
      BY <3>2, <3>5, <3>6 DEF TypeOK
  <2>2. CASE host.writer # "good"
    <3>1. turns' = turns /\ transcript' = "corrupt"
      BY <1>1, <2>2 DEF TurnLands
    <3>2. Durable'
      BY <1>2, <3>1, SameKeeps DEF IndInv, ledger
    <3>3. SessionPlace'
      BY <1>6, <2>2 DEF SessionPlace
    <3>4. QED
      BY <3>1, <3>2, <3>3 DEF TypeOK, Tails
  <2>3. QED
    BY <2>1, <2>2
<1>8. HostPlace'
  BY <1>2, <1>3, <1>6 DEF HostPlace, OpenStage, Latest, Count, ledger
<1>9. spent' \in Nat
  BY <1>1, StageAssumption DEF TypeOK
<1>10. QED
  BY <1>2, <1>6, <1>7, <1>8, <1>9, HostSession

LEMMA TurnFailsKeeps ==
  ASSUME TypeOK, IndInv, TurnFails
  PROVE  TypeOK' /\ IndInv'
<1>1. PICK cost \in 0..TurnCost, usage \in {Unknown} \cup 0..TurnCost, slip \in Slips,
           visible \in BOOLEAN, signal \in SignalOf(Latest.kind) :
        /\ visible => /\ host.writer = "good" /\ slip[1] # "good"
                      /\ cost > 0 /\ Len(turns) < MaxTurns
        /\ turns' = IF visible THEN Append(turns, TurnOf(Count, signal, cost)) ELSE turns
        /\ transcript' = slip[2]
        /\ host' = [host EXCEPT !.pc = "failing", !.writer = slip[1], !.usage = usage]
        /\ spent' = spent + cost
  BY DEF TurnFails
<1>2. host.pc = "prompting" /\ UNCHANGED <<ledger, bridge, child>>
  BY DEF TurnFails, ledger
<1>3. /\ Count > 0 /\ OpenStage /\ Latest.child = None /\ Latest.base = host.seen
      /\ terminal = "none" /\ Latest.base # NoBase
      /\ host.writer = "good" => host.seen = Len(turns) /\ Readable
  BY <1>2 DEF IndInv, HostPlace, SessionPlace
<1>4. Count \in 1..MaxStages /\ Latest \in Stage
  BY <1>3, LatestIs
<1>5. TurnOf(Count, signal, cost) \in Turn
  BY <1>4, SignalTyped, StageAssumption DEF TurnOf, Turn, Stage
<1>6. /\ slip[1] \in Writers /\ slip[2] \in Tails
      /\ slip[1] = "good" => host.writer = "good" /\ slip[2] = transcript
  BY SlipsAre
<1>7. /\ turns' \in Seq(Turn) /\ Len(turns') <= MaxTurns
      /\ slip[1] = "good" => turns' = turns
      /\ Durable'
  <2>1. CASE ~visible
    <3>1. turns' = turns
      BY <1>1, <2>1
    <3>2. Durable'
      BY <1>2, <3>1, SameKeeps DEF IndInv, ledger
    <3>3. turns \in Seq(Turn) /\ Len(turns) <= MaxTurns
      BY DEF TypeOK
    <3>4. QED
      BY <3>1, <3>2, <3>3
  <2>2. CASE visible
    <3>1. TurnOf(Count, signal, cost).stage = Count
      BY DEF TurnOf
    <3>2. Len(turns) + 1 = stages[Count].base + 1
      BY <1>1, <1>3, <2>2 DEF Latest
    <3>3. QED
      BY <1>1, <1>2, <1>4, <1>5, <2>2, <3>1, <3>2, TurnsGrow DEF IndInv, ledger
  <2>3. QED
    BY <2>1, <2>2
<1>8. host' \in HostState /\ host'.pc = "failing" /\ host'.seen = host.seen /\ host'.writer = slip[1]
  <2>1. host \in HostState /\ "failing" \in HostPc
    BY HostTurn DEF HostPc
  <2>2. QED
    BY <1>1, <1>6, <2>1 DEF HostState
<1>9. SessionPlace'
  BY <1>1, <1>3, <1>6, <1>7, <1>8 DEF SessionPlace, Readable
<1>10. HostPlace'
  BY <1>2, <1>3, <1>8 DEF HostPlace, OpenStage, Latest, Count, ledger
<1>11. spent' \in Nat
  BY <1>1, StageAssumption DEF TypeOK
<1>12. QED
  BY <1>1, <1>2, <1>6, <1>7, <1>8, <1>9, <1>10, <1>11, HostSession

LEMMA SessionRecordKeeps ==
  ASSUME TypeOK, IndInv, SessionRecord
  PROVE  TypeOK' /\ IndInv'
<1>1. PICK slip \in Slips : host' = [host EXCEPT !.writer = slip[1]] /\ transcript' = slip[2]
  BY DEF SessionRecord
<1>2. UNCHANGED <<ledger, turns, bridge, child, spent>>
  BY DEF SessionRecord
<1>3. /\ slip[1] \in Writers /\ slip[2] \in Tails
      /\ slip[1] = "good" => host.writer = "good" /\ slip[2] = transcript
  BY SlipsAre
<1>4. /\ host' \in HostState /\ host'.pc = host.pc /\ host'.seen = host.seen
      /\ host'.writer = slip[1]
  BY <1>1, <1>3, HostTurn DEF HostState
<1>5. SessionPlace'
  BY <1>1, <1>2, <1>3, <1>4 DEF IndInv, SessionPlace, Readable
<1>6. HostPlace'
  BY <1>2, <1>4 DEF IndInv, HostPlace, OpenStage, Latest, Count, AllVerified, Proposed, Verified,
                    ledger
<1>7. Durable'
  BY <1>2, SameKeeps DEF IndInv, ledger
<1>8. QED
  BY <1>1, <1>2, <1>3, <1>4, <1>5, <1>6, <1>7, HostSession DEF TypeOK

LEMMA BusyHolds ==
  ASSUME IndInv, host.pc # "idle"
  PROVE  Count > 0 /\ terminal = "none" /\ \A b \in Bridge : ~Inside(b)
BY DEF IndInv, HostPlace, Locked

\* The step gives the lock back and does nothing else.
LEMMA HostReturns ==
  ASSUME TypeOK, IndInv, host' = [host EXCEPT !.pc = "idle"],
         UNCHANGED <<stages, terminal, verified, failed, turns, transcript, bridge, child, spent>>
  PROVE  TypeOK' /\ IndInv'
<1>1. host' \in HostState /\ host'.pc = "idle" /\ host'.seen = host.seen /\ host'.writer = host.writer
  BY DEF TypeOK, HostState, Writers, HostPc
<1>2. HostPlace'
  BY <1>1 DEF HostPlace
<1>3. QED
  BY <1>1, <1>2, HostLooks DEF TypeOK

LEMMA CommittedFits ==
  ASSUME TypeOK, Count > 0, Latest.child = None, Latest.base # NoBase, Latest.signal = "none",
         NEW t, Fits(Latest, Count, t)
  PROVE  /\ Committed(Latest, t) \in Stage /\ Fitting(Committed(Latest, t))
         /\ Committed(Latest, t).base = Latest.base /\ Committed(Latest, t).child = Latest.child
         /\ Committed(Latest, t).end = "committed" /\ Committed(Latest, t).signal = "none"
<1>1. t \in 1..Len(turns) /\ t = Latest.base + 1 /\ turns[t].stage = Count
  BY DEF Fits
<1>2. turns[t] \in Turn /\ t \in 0..MaxTurns /\ Latest \in Stage
  BY <1>1, TurnTyped, LatestIs, StageAssumption DEF TypeOK
<1>3. Committed(Latest, t) \in Stage
  BY <1>2 DEF Committed, Stage, Turn
<1>4. /\ Committed(Latest, t).base = Latest.base /\ Committed(Latest, t).child = Latest.child
      /\ Committed(Latest, t).end = "committed" /\ Committed(Latest, t).signal = "none"
      /\ Committed(Latest, t).turn = t
  BY <1>2 DEF Committed, Stage
<1>5. Latest.base < t
  BY <1>1, <1>2, TurnTyped, StageAssumption DEF Stage, NoBase
<1>6. QED
  BY <1>1, <1>3, <1>4, <1>5 DEF Fitting

LEMMA OpenIs ==
  ASSUME TypeOK, Durable, OpenStage
  PROVE  Count > 0 /\ Latest.signal = "none" /\ terminal = "none"
<1>1. Count > 0 /\ Count \in 1..Count
  BY LatestIs DEF OpenStage
<1>2. QED
  BY <1>1 DEF Durable, LedgerShape, OpenStage, Latest

LEMMA CommitStageKeeps ==
  ASSUME TypeOK, IndInv, CommitStage
  PROVE  TypeOK' /\ IndInv'
<1> DEFINE s == Committed(Latest, host.seen)
           next == IF host.pc = "committed" THEN "signalling" ELSE "idle"
<1>1. /\ host.pc # "idle" /\ OpenStage /\ Latest.child = None /\ Latest.base # NoBase
      /\ UNCHANGED <<terminal, verified, failed, turns, transcript, bridge, child, spent>>
  BY DEF CommitStage, IndInv, HostPlace, session
<1>2. Count > 0 /\ terminal = "none" /\ Latest.signal = "none" /\ \A b \in Bridge : ~Inside(b)
  BY <1>1, OpenIs, BusyHolds DEF IndInv
<1>3. CASE Readable /\ Fits(Latest, Count, host.seen)
  <2>1. WriteStages(Update(s), next)
    BY <1>3 DEF CommitStage, session
  <2>2. next \in {"idle", "signalling"}
    OBVIOUS
  <2>3. /\ s \in Stage /\ Fitting(s) /\ s.base = Latest.base /\ s.child = Latest.child
        /\ s.end = "committed" /\ s.signal = "none"
    BY <1>1, <1>2, <1>3, CommittedFits
  <2> HIDE DEF s, next
  <2>4. QED
    BY <1>1, <1>2, <2>1, <2>2, <2>3, HostWrites
<1>4. CASE ~(Readable /\ Fits(Latest, Count, host.seen))
  BY <1>1, <1>4, HostReturns DEF CommitStage, session
<1>5. QED
  BY <1>3, <1>4

\* The latest Stage is failed in the Task's ledger, and nothing delegated it.
LEMMA FailedFits ==
  ASSUME TypeOK, IndInv, OpenStage, Latest.child = None, NEW usage \in {Unknown} \cup 0..TurnCost
  PROVE  /\ Failed(Latest, usage) \in Stage /\ Fitting(Failed(Latest, usage))
         /\ Failed(Latest, usage).base = Latest.base /\ Failed(Latest, usage).child = Latest.child
         /\ Failed(Latest, usage).end = "failed"
<1>1. Latest \in Stage
  BY LatestIs DEF OpenStage
<1>2. QED
  BY <1>1 DEF Failed, Stage, Fitting

LEMMA FailStageKeeps ==
  ASSUME TypeOK, IndInv, FailStage
  PROVE  TypeOK' /\ IndInv'
<1> DEFINE s == Failed(Latest, host.usage)
<1>1. host.pc # "idle" /\ OpenStage /\ Latest.child = None
  BY DEF FailStage, IndInv, HostPlace, session
<1>2. host.usage \in {Unknown} \cup 0..TurnCost
  BY DEF TypeOK
<1>3. /\ s \in Stage /\ Fitting(s) /\ s.base = Latest.base /\ s.child = Latest.child
  BY <1>1, <1>2, FailedFits
<1>4. /\ WriteStages(Update(s), "idle")
      /\ UNCHANGED <<terminal, verified, failed, turns, transcript, bridge, child, spent>>
  BY DEF FailStage, session
<1> HIDE DEF s
<1>5. QED
  BY <1>1, <1>3, <1>4, BusyHolds, HostWrites

LEMMA RecordSignalKeeps ==
  ASSUME TypeOK, IndInv, RecordSignal
  PROVE  TypeOK' /\ IndInv'
<1> DEFINE s == [Latest EXCEPT !.signal = Proposal]
           next == IF Proposal = "completion" /\ AutoCompletes(verified)
                   THEN "completing" ELSE "idle"
<1>1. /\ host.pc # "idle" /\ Latest.end = "committed"
      /\ UNCHANGED <<terminal, verified, failed, turns, transcript, bridge, child, spent>>
  BY DEF RecordSignal, IndInv, HostPlace, session
<1>2. /\ Count > 0 /\ terminal = "none" /\ \A b \in Bridge : ~Inside(b)
      /\ Latest \in Stage /\ Fitting(Latest)
  BY <1>1, BusyHolds, LatestIs, LatestFits DEF IndInv
<1>3. CASE Acceptable
  <2>1. WriteStages(Update(s), next)
    BY <1>3 DEF RecordSignal, session
  <2>2. next \in {"idle", "completing"}
    OBVIOUS
  <2>3. Proposal \in Signal
    <3>1. turns[Latest.turn] \in Turn
      BY <1>1, <1>2, TurnTyped DEF Fitting
    <3>2. QED
      BY <3>1 DEF Proposal, Turn
  <2>4. /\ s \in Stage /\ s.base = Latest.base /\ s.child = Latest.child
        /\ s.end = "committed" /\ s.signal = Proposal /\ s.turn = Latest.turn
    BY <1>1, <1>2, <2>3 DEF Stage
  <2>5. Fitting(s)
    BY <1>1, <1>2, <2>4 DEF Fitting, Proposal
  <2>6. next = "completing" => s.signal = "completion" /\ \A c \in Criterion : Verified(c)
    BY <2>4 DEF AutoCompletes, Verified
  <2> HIDE DEF s, next
  <2>7. QED
    BY <1>1, <1>2, <2>1, <2>2, <2>4, <2>5, <2>6, HostWrites
<1>4. CASE ~Acceptable
  BY <1>1, <1>4, HostReturns DEF RecordSignal, session
<1>5. QED
  BY <1>3, <1>4

LEMMA RecoverStageKeeps ==
  ASSUME TypeOK, IndInv, RecoverStage
  PROVE  TypeOK' /\ IndInv'
<1>1. /\ OpenStage /\ Latest.child = None /\ Free
      /\ UNCHANGED <<terminal, verified, failed, turns, transcript, bridge, child, spent>>
  BY DEF RecoverStage, session
<1>2. /\ Count > 0 /\ terminal = "none" /\ Latest.signal = "none"
      /\ \A b \in Bridge : ~Inside(b)
  BY <1>1, OpenIs, FreeIs DEF IndInv
<1>3. CASE WriteStages(Update(Failed(Latest, Unknown)), "idle")
  BY <1>1, <1>2, <1>3, FailedFits, HostWrites
<1>4. ASSUME NEW t \in Matches, Fits(Latest, Count, t),
             WriteStages(Update(Committed(Latest, t)), "reconciling")
      PROVE  TypeOK' /\ IndInv'
  <2>1. Latest.base # NoBase
    BY <1>4 DEF Matches
  <2>2. /\ Committed(Latest, t) \in Stage /\ Fitting(Committed(Latest, t))
        /\ Committed(Latest, t).base = Latest.base /\ Committed(Latest, t).child = Latest.child
        /\ Committed(Latest, t).end = "committed" /\ Committed(Latest, t).signal = "none"
    BY <1>1, <1>2, <1>4, <2>1, CommittedFits
  <2>3. QED
    BY <1>1, <1>2, <1>4, <2>2, HostWrites
<1>5. QED
  BY <1>3, <1>4 DEF RecoverStage, session

LEMMA RecoverSignalKeeps ==
  ASSUME TypeOK, IndInv, RecoverSignal
  PROVE  TypeOK' /\ IndInv'
<1>1. /\ host' = [host EXCEPT !.pc = "reconciling"] /\ Free /\ terminal = "none" /\ Count > 0
      /\ Latest.end = "committed" /\ Latest.signal = "none"
      /\ UNCHANGED <<ledger, turns, transcript, bridge, child, spent>>
  BY DEF RecoverSignal, session
<1>2. /\ host' \in HostState /\ host'.pc = "reconciling"
      /\ host'.seen = host.seen /\ host'.writer = host.writer
  BY <1>1 DEF TypeOK, HostState, Writers, HostPc
<1>3. HostPlace'
  BY <1>1, <1>2 DEF HostPlace, ledger, OpenStage, Latest, Count
<1>4. QED
  BY <1>1, <1>2, <1>3, FreeIs, HostLooks DEF ledger, TypeOK

\* Verifications are added, and nothing else but where the Host goes on.
LEMMA Verifies ==
  ASSUME TypeOK, IndInv, Free, terminal = "none", Proposed,
         verified \subseteq verified', verified' \subseteq (1..MaxStages) \X Criterion,
         failed' \subseteq (1..MaxStages) \X Criterion,
         NEW next \in {"idle", "completing"}, next = "completing" => AutoCompletes(verified'),
         host' = [host EXCEPT !.pc = next],
         UNCHANGED <<stages, terminal, turns, transcript, bridge, child, spent>>
  PROVE  TypeOK' /\ IndInv'
<1>1. /\ host' \in HostState /\ host'.pc = next
      /\ host'.seen = host.seen /\ host'.writer = host.writer
  BY DEF TypeOK, HostState, Writers, HostPc
<1>2. Count' = Count /\ Count > 0 /\ Proposed'
  BY DEF Proposed, Latest, Count
<1>3. next = "completing" => AllVerified'
  BY <1>2 DEF AllVerified, AutoCompletes, Verified
<1>4. HostPlace'
  BY <1>1, <1>2, <1>3 DEF HostPlace
<1>5. QED
  BY <1>1, <1>4, FreeIs, HostLooks DEF TypeOK

LEMMA VerifyHumanKeeps ==
  ASSUME TypeOK, IndInv, NEW c \in HumanCriterion, VerifyHuman(c)
  PROVE  TypeOK' /\ IndInv'
<1>1. PICK lost \in BOOLEAN :
        host' = [host EXCEPT !.pc =
                   IF ~lost /\ AutoCompletes(verified') THEN "completing" ELSE "idle"]
  BY DEF VerifyHuman, session
<1> DEFINE next == IF ~lost /\ AutoCompletes(verified') THEN "completing" ELSE "idle"
<1>2. next \in {"idle", "completing"} /\ (next = "completing" => AutoCompletes(verified'))
  OBVIOUS
<1>3. /\ Free /\ terminal = "none" /\ Proposed /\ verified' = verified \cup {<<Count, c>>}
      /\ UNCHANGED <<stages, terminal, failed, turns, transcript, bridge, child, spent>>
  BY DEF VerifyHuman, session
<1>4. Count \in 1..MaxStages
  BY <1>3, LatestIs DEF Proposed
<1>5. verified \subseteq verified' /\ verified' \subseteq (1..MaxStages) \X Criterion
  BY <1>3, <1>4 DEF TypeOK, Criterion
<1> HIDE DEF next
<1>6. QED
  BY <1>1, <1>2, <1>3, <1>5, Verifies DEF TypeOK, next

LEMMA VerifyHostKeeps ==
  ASSUME TypeOK, IndInv, VerifyHost
  PROVE  TypeOK' /\ IndInv'
<1> DEFINE open == {c \in HostCriterion : ~Verified(c)}
<1>1. PICK done \in SUBSET open : \E passed \in SUBSET done : \E kept \in SUBSET passed :
          /\ verified' = verified \cup ({Count} \X kept)
          /\ failed' = (failed \cup ({Count} \X (done \ passed))) \ ({Count} \X passed)
          /\ host' = [host EXCEPT !.pc =
                        IF done = open /\ kept = passed /\ AutoCompletes(verified') THEN "completing" ELSE "idle"]
  BY DEF VerifyHost, session
<1>2. PICK passed \in SUBSET done : \E kept \in SUBSET passed :
          /\ verified' = verified \cup ({Count} \X kept)
          /\ failed' = (failed \cup ({Count} \X (done \ passed))) \ ({Count} \X passed)
          /\ host' = [host EXCEPT !.pc =
                        IF done = open /\ kept = passed /\ AutoCompletes(verified') THEN "completing" ELSE "idle"]
  BY <1>1
<1>3. PICK kept \in SUBSET passed :
          /\ verified' = verified \cup ({Count} \X kept)
          /\ failed' = (failed \cup ({Count} \X (done \ passed))) \ ({Count} \X passed)
          /\ host' = [host EXCEPT !.pc =
                        IF done = open /\ kept = passed /\ AutoCompletes(verified') THEN "completing" ELSE "idle"]
  BY <1>2
<1> DEFINE next == IF done = open /\ kept = passed /\ AutoCompletes(verified')
                   THEN "completing" ELSE "idle"
<1>4. next \in {"idle", "completing"} /\ (next = "completing" => AutoCompletes(verified'))
  OBVIOUS
<1>5. /\ Free /\ terminal = "none" /\ Proposed
      /\ UNCHANGED <<stages, terminal, turns, transcript, bridge, child, spent>>
  BY DEF VerifyHost, session
<1>6. Count \in 1..MaxStages
  BY <1>5, LatestIs DEF Proposed
<1>7. kept \subseteq Criterion /\ done \ passed \subseteq Criterion
  BY DEF Criterion
<1>8. {Count} \X kept \subseteq (1..MaxStages) \X Criterion
  BY <1>6, <1>7
<1>9. {Count} \X (done \ passed) \subseteq (1..MaxStages) \X Criterion
  BY <1>6, <1>7
<1>10. /\ verified \subseteq verified' /\ verified' \subseteq (1..MaxStages) \X Criterion
       /\ failed' \subseteq (1..MaxStages) \X Criterion
  BY <1>3, <1>8, <1>9 DEF TypeOK
<1>11. host' = [host EXCEPT !.pc = next]
  BY <1>3
<1> HIDE DEF next
<1>12. QED
  BY <1>4, <1>5, <1>10, <1>11, Verifies

\* The Task ends under the lock, with no Stage open.
LEMMA TaskEnds ==
  ASSUME TypeOK, IndInv, terminal = "none", ~OpenStage,
         terminal' \in {"none", "completed", "cancelled", "failed"},
         terminal' = "completed" => AllVerified,
         host' \in HostState, host'.pc = "idle", host'.seen = host.seen, host'.writer = host.writer,
         UNCHANGED <<stages, verified, failed, turns, transcript, bridge, child, spent>>
  PROVE  TypeOK' /\ IndInv'
<1>1. TypeOK'
  BY DEF TypeOK, HostState, Writers, HostPc, Count
<1>2. Locked' /\ HostPlace' /\ BridgePlace' /\ SessionPlace'
  BY DEF IndInv, Locked, HostPlace, BridgePlace, SessionPlace, Readable, Inside, OpenStage, Latest, Count
<1>3. LedgerShape' /\ OwnTurns' /\ TurnBinding' /\ ExternalEvidence'
  BY DEF IndInv, Durable, LedgerShape, OwnTurns, TurnBinding, ExternalEvidence, Count,
         OpenStage, Latest
<1>4. CompletionSound'
  BY DEF CompletionSound, OpenStage, Latest, Count, AllVerified, Proposed, Verified
<1>5. QED
  BY <1>1, <1>2, <1>3, <1>4 DEF IndInv, Durable

LEMMA HostIdle ==
  ASSUME TypeOK
  PROVE  /\ [host EXCEPT !.pc = "idle"] \in HostState
         /\ [host EXCEPT !.pc = "idle"].pc = "idle"
         /\ [host EXCEPT !.pc = "idle"].seen = host.seen
         /\ [host EXCEPT !.pc = "idle"].writer = host.writer
BY DEF TypeOK, HostState, Writers, HostPc

LEMMA AutoCompleteKeeps ==
  ASSUME TypeOK, IndInv, AutoComplete
  PROVE  TypeOK' /\ IndInv'
<1>1. AllVerified /\ ~OpenStage /\ terminal = "none"
  BY DEF AutoComplete, IndInv, HostPlace, AllVerified, Proposed, OpenStage, session
<1>2. QED
  BY <1>1, HostIdle, TaskEnds DEF AutoComplete, session

LEMMA CompleteKeeps ==
  ASSUME TypeOK, IndInv, Complete
  PROVE  TypeOK' /\ IndInv'
<1>1. host' \in HostState /\ host'.pc = "idle" /\ host'.seen = host.seen /\ host'.writer = host.writer
  BY DEF Complete, TypeOK, HostState, Writers, HostPc, session
<1>2. QED
  BY <1>1, TaskEnds DEF Complete, session

LEMMA TerminatedKeeps ==
  ASSUME TypeOK, IndInv, Terminated
  PROVE  TypeOK' /\ IndInv'
<1>1. ~OpenStage /\ terminal = "none"
  BY DEF Terminated, IndInv, HostPlace, session
<1>2. QED
  BY <1>1, HostIdle, TaskEnds DEF Terminated, session

LEMMA GiveUpKeeps ==
  ASSUME TypeOK, IndInv, NEW outcome \in {"cancelled", "failed"}, GiveUp(outcome)
  PROVE  TypeOK' /\ IndInv'
<1>1. /\ host.pc = "idle" /\ terminal = "none" /\ Free
      /\ UNCHANGED <<verified, failed, turns, transcript, bridge, child, spent>>
  BY DEF GiveUp, session
<1>2. CASE OpenStage
  <2>1. /\ Latest.child = None /\ terminal' = terminal
        /\ WriteStages(Update(Failed(Latest, Unknown)), outcome)
    BY <1>2 DEF GiveUp, session
  <2>2. Count > 0
    BY <1>2 DEF OpenStage
  <2>3. /\ Failed(Latest, Unknown) \in Stage /\ Fitting(Failed(Latest, Unknown))
        /\ Failed(Latest, Unknown).base = Latest.base
        /\ Failed(Latest, Unknown).child = Latest.child
        /\ Failed(Latest, Unknown).end = "failed"
    BY <1>2, <2>1, FailedFits
  <2>4. QED
    BY <1>1, <2>1, <2>2, <2>3, FreeIs, HostWrites
<1>3. CASE ~OpenStage
  <2>1. terminal' = outcome /\ UNCHANGED <<stages, host>>
    BY <1>3 DEF GiveUp, session
  <2>2. host' \in HostState /\ host'.pc = "idle" /\ host'.seen = host.seen /\ host'.writer = host.writer
    BY <1>1, <2>1 DEF TypeOK, HostState, Writers, HostPc
  <2>3. QED
    BY <1>1, <1>3, <2>1, <2>2, TaskEnds
<1>4. QED
  BY <1>2, <1>3

LEMMA OtherTurnKeeps ==
  ASSUME TypeOK, IndInv, OtherTurn
  PROVE  TypeOK' /\ IndInv'
<1> DEFINE other == TurnOf(0, "none", 0)
<1>1. /\ host.pc = "idle" /\ host.seen < MaxTurns
      /\ UNCHANGED <<ledger, bridge, child, spent>>
  BY DEF OtherTurn
<1>2. other \in Turn /\ other.stage = 0
  BY StageAssumption DEF TurnOf, Turn, Signal
<1>3. host \in HostState /\ host.seen + 1 \in 0..MaxTurns
  BY <1>1, HostTurn, StageAssumption DEF HostState
<1>4. ASSUME host.writer = "good", turns' = Append(turns, other)
      PROVE  /\ turns' \in Seq(Turn) /\ Len(turns') = Len(turns) + 1 /\ Len(turns') <= MaxTurns
             /\ Durable' /\ host.seen = Len(turns) /\ Readable
  <2>1. host.seen = Len(turns) /\ Readable
    BY <1>4 DEF IndInv, SessionPlace
  <2>2. QED
    BY <1>1, <1>2, <1>4, <2>1, TurnsGrow DEF IndInv, ledger
<1> HIDE DEF other
<1>5. CASE TurnLands(other) /\ host' = [host EXCEPT !.seen = @ + 1]
  <2>1. /\ host' \in HostState /\ host'.pc = "idle" /\ host'.seen = host.seen + 1
        /\ host'.writer = host.writer
    BY <1>1, <1>3, <1>5 DEF HostState
  <2>2. HostPlace'
    BY <2>1 DEF HostPlace
  <2>3. CASE host.writer = "good"
    <3>1. turns' = Append(turns, other) /\ transcript' = transcript
      BY <1>5, <2>3 DEF TurnLands
    <3>2. SessionPlace'
      BY <1>4, <2>1, <2>3, <3>1 DEF SessionPlace, Readable
    <3>3. transcript' \in Tails
      BY <3>1 DEF TypeOK
    <3>4. QED
      BY <1>1, <1>4, <2>1, <2>2, <2>3, <3>1, <3>2, <3>3, HostSession DEF TypeOK
  <2>4. CASE host.writer # "good"
    <3>1. turns' = turns /\ transcript' = "corrupt"
      BY <1>5, <2>4 DEF TurnLands
    <3>2. Durable'
      BY <1>1, <3>1, SameKeeps DEF IndInv, ledger
    <3>3. SessionPlace'
      BY <2>1, <2>4 DEF SessionPlace
    <3>4. transcript' \in Tails
      BY <3>1 DEF Tails
    <3>5. QED
      BY <1>1, <2>1, <2>2, <3>1, <3>2, <3>3, <3>4, HostSession DEF TypeOK
  <2>5. QED
    BY <2>3, <2>4
<1>6. ASSUME host.writer = "good", turns' = Append(turns, other), NEW slip \in Slips,
             slip[1] # "good", transcript' = slip[2], host' = [host EXCEPT !.writer = slip[1]]
      PROVE  TypeOK' /\ IndInv'
  <2>1. slip[1] \in Writers /\ slip[2] \in Tails
    BY SlipsAre
  <2>2. host' \in HostState /\ host'.pc = "idle" /\ host'.writer # "good"
    BY <1>1, <1>3, <1>6, <2>1 DEF HostState
  <2>3. HostPlace' /\ SessionPlace'
    BY <2>2 DEF HostPlace, SessionPlace
  <2>4. QED
    BY <1>1, <1>4, <1>6, <2>1, <2>2, <2>3, HostSession DEF TypeOK
<1>7. QED
  BY <1>5, <1>6 DEF OtherTurn, other

LEMMA CrashKeeps ==
  ASSUME TypeOK, IndInv, CrashAndResume
  PROVE  TypeOK' /\ IndInv'
<1> DEFINE writer == IF Lost THEN "gone" ELSE "good"
<1>1. /\ host' = [host EXCEPT !.pc = "idle", !.seen = Len(turns), !.usage = Unknown,
                              !.writer = writer]
      /\ transcript' = IF Lost THEN transcript ELSE "whole"
      /\ UNCHANGED <<ledger, turns, bridge, child>>
  BY DEF CrashAndResume
<1>2. spent' \in Nat
  BY StageAssumption DEF CrashAndResume, TypeOK
<1>3. Len(turns) \in 0..MaxTurns /\ turns \in Seq(Turn)
  BY StageAssumption, TurnTyped DEF TypeOK
<1>4. writer \in Writers /\ (writer = "good" => ~Lost)
  BY DEF Writers
<1> HIDE DEF writer
<1>5. /\ host' \in HostState /\ host'.pc = "idle" /\ host'.seen = Len(turns)
      /\ host'.writer = writer
  <2>1. host \in HostState /\ "idle" \in HostPc
    BY HostTurn DEF HostPc
  <2>2. QED
    BY <1>1, <1>3, <1>4, <2>1 DEF HostState
<1>6. SessionPlace' /\ HostPlace'
  BY <1>1, <1>3, <1>4, <1>5 DEF SessionPlace, HostPlace, Readable
<1>7. transcript' \in Tails
  BY <1>1 DEF TypeOK, Tails
<1>8. Durable'
  BY <1>1, SameKeeps DEF IndInv, ledger
<1>9. QED
  BY <1>1, <1>2, <1>3, <1>5, <1>6, <1>7, <1>8, HostSession DEF TypeOK

-----------------------------------------------------------------------------
(* The steps of the bridge.                                                 *)

BridgeState == [pc : {"idle", "started", "created", "observed"},
                child : Child \cup {None}, good : BOOLEAN]

LEMMA IdleIs == Idle \in BridgeState /\ Idle.pc = "idle"
BY DEF Idle, BridgeState

\* A step of the bridge finds the Host idle, or leaves the Task as it is.
LEMMA HostStays ==
  ASSUME IndInv, UNCHANGED <<terminal, verified, turns, transcript, host>>,
         host.pc = "idle" \/ stages' = stages
  PROVE  HostPlace' /\ SessionPlace'
BY DEF IndInv, HostPlace, SessionPlace, Readable, OpenStage, Latest, Count, AllVerified, Proposed, Verified

LEMMA BridgeStartKeeps ==
  ASSUME TypeOK, IndInv, NEW b \in Bridge, BridgeStart(b)
  PROVE  TypeOK' /\ IndInv'
<1> DEFINE s == Opened("execution", NoBase)
<1>1. /\ Free /\ CanStart /\ stages' = Append(stages, s)
      /\ bridge' = [bridge EXCEPT ![b].pc = "started"]
      /\ UNCHANGED <<terminal, verified, failed, turns, transcript, host, child, spent>>
  BY DEF BridgeStart, session
<1>2. host.pc = "idle" /\ \A d \in Bridge : ~Inside(d)
  BY <1>1, FreeIs
<1>3. Count \in Nat /\ MaxStages \in Nat /\ "execution" \in Kind
  BY StageAssumption DEF TypeOK, Count, Kind
<1>4. terminal = "none" /\ ~OpenStage /\ Count < MaxStages /\ ~Unavailable
  BY <1>1, <1>3 DEF CanStart, Exhausted
<1>5. s \in Stage /\ s.end = "open" /\ s.child = None /\ s.base = NoBase
  BY <1>3, OpenedIs DEF Opened
<1>6. stages' \in Seq(Stage) /\ Count' = Count + 1 /\ Latest' = s
  BY <1>1, <1>5, AppendIs
<1>7. Durable'
  BY <1>1, <1>3, <1>4, AppendKeeps DEF IndInv
<1> HIDE DEF s
<1>8. /\ bridge' \in [Bridge -> BridgeState] /\ bridge'[b].pc = "started"
      /\ \A d \in Bridge \ {b} : bridge'[d] = bridge[d]
  <2>1. bridge \in [Bridge -> BridgeState]
    BY DEF TypeOK, BridgeState
  <2>2. [bridge[b] EXCEPT !.pc = "started"] \in BridgeState
    BY <2>1 DEF BridgeState
  <2>3. QED
    BY <1>1, <2>1, <2>2
<1>9. \A d \in Bridge : bridge[d].pc # "observed"
  BY <1>4, NoneObserved
<1>10. BridgePlace'
  BY <1>2, <1>3, <1>5, <1>6, <1>8, <1>9 DEF BridgePlace, Inside, OpenStage
<1>11. Locked'
  BY <1>1, <1>2, <1>8 DEF Locked, Inside
<1>12. TypeOK'
  BY <1>1, <1>3, <1>4, <1>6, <1>8 DEF TypeOK, BridgeState
<1>13. QED
  BY <1>1, <1>2, <1>7, <1>10, <1>11, <1>12, HostStays DEF IndInv

\* A Child never loses what it completed.
LEMMA ChildrenGrow ==
  ASSUME TypeOK, Durable, UNCHANGED ledger, UNCHANGED turns,
         \A c \in Child : child[c] = "completed" => child'[c] = "completed"
  PROVE  Durable'
<1>1. LedgerShape' /\ OwnTurns' /\ TurnBinding' /\ CompletionSound'
  BY DEF Durable, LedgerShape, OwnTurns, TurnBinding, CompletionSound, Count, OpenStage, Latest,
         AllVerified, Proposed, Verified, ledger
<1>2. \A n \in 1..Count : stages[n].end \in {"external", "refused"} => stages[n].child \in Child
  <2>1. \A n \in 1..Count : stages[n] \in Stage
    BY DEF TypeOK, Count
  <2>2. \A n \in 1..Count : stages[n].child \in Child \cup {None}
    BY <2>1 DEF Stage
  <2>3. QED
    BY <2>2 DEF Durable, LedgerShape
<1>3. ExternalEvidence'
  BY <1>2 DEF Durable, ExternalEvidence, Count, ledger
<1>4. QED
  BY <1>1, <1>3 DEF Durable

\* A step of the bridge that leaves the Task as it is.
LEMMA BridgeLooks ==
  ASSUME TypeOK, IndInv, UNCHANGED <<ledger, turns, transcript, host, spent>>,
         bridge' \in [Bridge -> BridgeState],
         child' \in [Child -> {"absent", "live", "completed", "stopped"}],
         \A c \in Child : child[c] = "completed" => child'[c] = "completed",
         \A d \in Bridge : Inside(d)' => Inside(d),
         BridgePlace'
  PROVE  TypeOK' /\ IndInv'
<1>1. TypeOK'
  BY DEF TypeOK, BridgeState, ledger, Count
<1>2. Durable'
  BY ChildrenGrow DEF IndInv
<1>3. Locked'
  BY DEF IndInv, Locked
<1>4. HostPlace' /\ SessionPlace'
  BY HostStays DEF ledger
<1>5. QED
  BY <1>1, <1>2, <1>3, <1>4 DEF IndInv

LEMMA BridgeCreateKeeps ==
  ASSUME TypeOK, IndInv, NEW b \in Bridge, NEW c \in Child, BridgeCreate(b, c)
  PROVE  TypeOK' /\ IndInv'
<1>1. /\ bridge[b].pc = "started" /\ child[c] = "absent"
      /\ child' = [child EXCEPT ![c] = "live"]
      /\ bridge' = [bridge EXCEPT ![b] = [bridge[b] EXCEPT !.pc = "created", !.child = c]]
      /\ UNCHANGED <<ledger, turns, transcript, host, spent>>
  BY DEF BridgeCreate, session
<1>2. /\ child' \in [Child -> {"absent", "live", "completed", "stopped"}]
      /\ \A e \in Child : child[e] = "completed" => child'[e] = "completed"
  BY <1>1 DEF TypeOK
<1>3. bridge \in [Bridge -> BridgeState]
  BY DEF TypeOK, BridgeState
<1>4. /\ bridge' \in [Bridge -> BridgeState]
      /\ bridge'[b].pc = "created" /\ bridge'[b].child = c
      /\ \A d \in Bridge \ {b} : bridge'[d] = bridge[d]
  <2>1. LET n == [bridge[b] EXCEPT !.pc = "created", !.child = c]
        IN n \in BridgeState /\ n.pc = "created" /\ n.child = c
    BY <1>3 DEF BridgeState
  <2>2. QED
    BY <1>1, <1>3, <2>1
<1>5. \A d \in Bridge : Inside(d)' => Inside(d)
  BY <1>1, <1>4 DEF Inside
<1>6. \A d \in Bridge : bridge[d].child \in Child \cup {None}
  BY <1>3 DEF BridgeState
<1>7. BridgePlace'
  BY <1>1, <1>2, <1>4, <1>5, <1>6, StageAssumption
  DEF IndInv, BridgePlace, Inside, OpenStage, Latest, Count, ledger
<1>8. QED
  BY <1>1, <1>2, <1>4, <1>5, <1>7, BridgeLooks

LEMMA ChildEndsKeeps ==
  ASSUME TypeOK, IndInv, NEW c \in Child, ChildEnds(c)
  PROVE  TypeOK' /\ IndInv'
<1>1. PICK status \in {"completed", "stopped"} : child' = [child EXCEPT ![c] = status]
  BY DEF ChildEnds, session
<1>2. child[c] = "live" /\ UNCHANGED <<ledger, turns, transcript, host, bridge, spent>>
  BY DEF ChildEnds, session
<1>3. /\ child' \in [Child -> {"absent", "live", "completed", "stopped"}]
      /\ \A e \in Child : child[e] = "completed" => child'[e] = "completed"
  BY <1>1, <1>2 DEF TypeOK
<1>4. bridge' \in [Bridge -> BridgeState] /\ \A d \in Bridge : bridge[d].child \in Child \cup {None}
  BY <1>2 DEF TypeOK, BridgeState
<1>5. BridgePlace'
  BY <1>2, <1>3, <1>4 DEF IndInv, BridgePlace, Inside, OpenStage, Latest, Count, ledger
<1>6. QED
  BY <1>2, <1>3, <1>4, <1>5, BridgeLooks DEF Inside

LEMMA BridgeStopsKeeps ==
  ASSUME TypeOK, IndInv, NEW b \in Bridge, BridgeStops(b)
  PROVE  TypeOK' /\ IndInv'
<1>1. bridge' = [bridge EXCEPT ![b] = Idle] /\ UNCHANGED <<ledger, turns, transcript, host, child, spent>>
  BY DEF BridgeStops, session
<1>2. /\ bridge' \in [Bridge -> BridgeState] /\ bridge'[b].pc = "idle"
      /\ \A d \in Bridge \ {b} : bridge'[d] = bridge[d]
  BY <1>1, IdleIs DEF TypeOK, BridgeState
<1>3. \A d \in Bridge : Inside(d)' => Inside(d)
  BY <1>2 DEF Inside
<1>4. BridgePlace'
  BY <1>1, <1>2, <1>3 DEF IndInv, BridgePlace, Inside, OpenStage, Latest, Count, ledger
<1>5. QED
  BY <1>1, <1>2, <1>3, <1>4, BridgeLooks DEF TypeOK

LEMMA ObserveKeeps ==
  ASSUME TypeOK, IndInv, NEW b \in Bridge, Observe(b)
  PROVE  TypeOK' /\ IndInv'
<1>1. PICK published \in BOOLEAN :
        bridge' = [bridge EXCEPT ![b] =
                     [pc |-> "observed", child |-> Latest.child,
                      good |-> published /\ child[Latest.child] = "completed"]]
  BY DEF Observe, session
<1>2. /\ bridge[b].pc = "idle" /\ OpenStage /\ Latest.child # None
      /\ UNCHANGED <<ledger, turns, transcript, host, child, spent>>
  BY DEF Observe, session
<1> DEFINE good == published /\ child[Latest.child] = "completed"
           new == [pc |-> "observed", child |-> Latest.child, good |-> good]
<1>3. Count > 0 /\ Latest \in Stage
  BY <1>2, LatestIs DEF OpenStage
<1>4. Latest.child \in Child \cup {None}
  BY <1>3 DEF Stage
<1>5. good \in BOOLEAN /\ (good => child[Latest.child] = "completed")
  OBVIOUS
<1> HIDE DEF good
<1>6. /\ new \in BridgeState /\ new.pc = "observed" /\ new.child = Latest.child
      /\ new.good = good
  BY <1>4, <1>5 DEF BridgeState
<1>7. bridge' = [bridge EXCEPT ![b] = new]
  BY <1>1 DEF good
<1> HIDE DEF new
<1>8. /\ bridge' \in [Bridge -> BridgeState] /\ bridge'[b] = new
      /\ \A d \in Bridge \ {b} : bridge'[d] = bridge[d]
  BY <1>6, <1>7 DEF TypeOK, BridgeState
<1>9. \A d \in Bridge : Inside(d)' => Inside(d)
  BY <1>6, <1>8 DEF Inside
<1>10. BridgePlace'
  <2>1. /\ Count' = Count /\ Latest' = Latest /\ OpenStage' = OpenStage /\ child' = child
    BY <1>2 DEF Count, Latest, OpenStage, ledger
  <2>2. QED
    BY <1>2, <1>3, <1>5, <1>6, <1>8, <1>9, <2>1 DEF IndInv, BridgePlace, Inside
<1>11. QED
  BY <1>2, <1>8, <1>9, <1>10, BridgeLooks DEF TypeOK

\* The bridge writes to the latest Stage and gives the lock back.
LEMMA BridgeWrites ==
  ASSUME TypeOK, IndInv, NEW b \in Bridge, OpenStage, host.pc = "idle",
         NEW s \in Stage, Fitting(s), s.base = Latest.base,
         stages' = Update(s), bridge' = [bridge EXCEPT ![b] = Idle],
         \A d \in Bridge \ {b} :
           ~Inside(d) /\ (bridge[d].pc = "observed" => s.child = Latest.child),
         UNCHANGED <<terminal, verified, failed, turns, transcript, host, child, spent>>
  PROVE  TypeOK' /\ IndInv'
<1>1. Count > 0 /\ terminal = "none"
  BY OpenIs DEF IndInv
<1>2. stages' \in Seq(Stage) /\ Count' = Count /\ Latest' = s
  BY <1>1, UpdateIs
<1>3. Durable'
  BY <1>1, UpdateKeeps DEF IndInv
<1>4. /\ bridge' \in [Bridge -> BridgeState] /\ bridge'[b].pc = "idle"
      /\ \A d \in Bridge \ {b} : bridge'[d] = bridge[d]
  BY IdleIs DEF TypeOK, BridgeState
<1>5. TypeOK'
  BY <1>2, <1>4 DEF TypeOK, BridgeState
<1>6. Locked'
  BY <1>4 DEF Locked, Inside
<1>7. BridgePlace'
  BY <1>1, <1>2, <1>4 DEF IndInv, BridgePlace, Inside
<1>8. HostPlace' /\ SessionPlace'
  BY HostStays
<1>9. QED
  BY <1>3, <1>5, <1>6, <1>7, <1>8 DEF IndInv

LEMMA BridgeDelegateKeeps ==
  ASSUME TypeOK, IndInv, NEW b \in Bridge, BridgeDelegate(b)
  PROVE  TypeOK' /\ IndInv'
<1> DEFINE s == [Latest EXCEPT !.child = bridge[b].child]
<1>1. /\ bridge[b].pc = "created" /\ stages' = Update(s)
      /\ bridge' = [bridge EXCEPT ![b] = Idle]
      /\ UNCHANGED <<terminal, verified, failed, turns, transcript, host, child, spent>>
  BY DEF BridgeDelegate, session
<1>2. Inside(b) /\ OpenStage /\ Latest.child = None /\ bridge[b].child # None
  BY <1>1 DEF IndInv, BridgePlace, Inside
<1>3. host.pc = "idle" /\ \A d \in Bridge \ {b} : ~Inside(d)
  BY <1>2 DEF IndInv, Locked
<1>4. \A d \in Bridge : bridge[d].pc # "observed"
  BY <1>2 DEF IndInv, BridgePlace
<1>5. Count > 0 /\ Latest \in Stage /\ Fitting(Latest)
  BY <1>2, LatestIs, LatestFits DEF OpenStage, IndInv
<1>6. bridge[b].child \in Child \cup {None}
  BY DEF TypeOK
<1>7. s \in Stage /\ Fitting(s) /\ s.base = Latest.base
  BY <1>2, <1>5, <1>6 DEF Stage, Fitting, OpenStage
<1> HIDE DEF s
<1>8. QED
  BY <1>1, <1>2, <1>3, <1>4, <1>7, BridgeWrites

LEMMA SettleKeeps ==
  ASSUME TypeOK, IndInv, NEW b \in Bridge, Settle(b)
  PROVE  TypeOK' /\ IndInv'
<1> DEFINE s == External(Latest, bridge[b].child, bridge[b].good)
<1>1. /\ bridge[b].pc = "observed" /\ Free /\ bridge' = [bridge EXCEPT ![b] = Idle]
      /\ UNCHANGED <<terminal, verified, failed, turns, transcript, host, child, spent>>
  BY DEF Settle, session
<1>2. host.pc = "idle" /\ \A d \in Bridge : ~Inside(d)
  BY <1>1, FreeIs
<1>3. CASE OpenStage /\ Latest.child # None
  <2>1. stages' = Update(s)
    BY <1>3 DEF Settle, session
  <2>2. /\ Latest.child = bridge[b].child
        /\ bridge[b].good => child[bridge[b].child] = "completed"
    BY <1>1 DEF IndInv, BridgePlace
  <2>3. Count > 0 /\ Latest \in Stage /\ Fitting(Latest)
    BY <1>3, LatestIs, LatestFits DEF OpenStage, IndInv
  <2>4. bridge[b].child \in Child \cup {None}
    BY DEF TypeOK
  <2>5. s \in Stage /\ Fitting(s) /\ s.base = Latest.base /\ s.child = Latest.child
    BY <1>3, <2>2, <2>3, <2>4 DEF External, Stage, Fitting, OpenStage
  <2> HIDE DEF s
  <2>6. QED
    BY <1>1, <1>2, <1>3, <2>1, <2>5, BridgeWrites
<1>4. CASE ~(OpenStage /\ Latest.child # None)
  <2>1. stages' = stages
    BY <1>4 DEF Settle, session
  <2>2. /\ bridge' \in [Bridge -> BridgeState] /\ bridge'[b].pc = "idle"
        /\ \A d \in Bridge \ {b} : bridge'[d] = bridge[d]
    BY <1>1, IdleIs DEF TypeOK, BridgeState
  <2>3. \A d \in Bridge : Inside(d)' => Inside(d)
    BY <2>2 DEF Inside
  <2>4. BridgePlace'
    BY <1>1, <2>1, <2>2, <2>3 DEF IndInv, BridgePlace, Inside, OpenStage, Latest, Count
  <2>5. QED
    BY <1>1, <2>1, <2>2, <2>3, <2>4, BridgeLooks DEF TypeOK, ledger
<1>5. QED
  BY <1>3, <1>4

-----------------------------------------------------------------------------
(* What a step may do to the history.                                       *)

\* A Stage is added when one may be started, an open one is settled or delegated, or
\* the proposal of the latest committed one is recorded; the Task ends once.
Ledgers ==
  /\ \/ stages' = stages
     \/ CanStart /\ \E s \in Stage : stages' = Append(stages, s)
     \/ OpenStage /\ \E s \in Stage : stages' = Update(s)
     \/ /\ terminal = "none" /\ Count > 0 /\ Latest.end = "committed" /\ Latest.signal = "none"
        /\ \E x \in Signal : stages' = Update([Latest EXCEPT !.signal = x])
  /\ terminal # "none" => terminal' = terminal

FinalStep ==
  /\ Len(stages') >= Count
  /\ \A n \in 1..Count : stages[n].end # "open" =>
       /\ stages'[n] = [stages[n] EXCEPT !.signal = stages'[n].signal]
       /\ stages[n].signal # "none" => stages'[n].signal = stages[n].signal
  /\ terminal # "none" => stages' = stages /\ terminal' = terminal

LEMMA LedgersFinal ==
  ASSUME TypeOK, IndInv, Ledgers
  PROVE  FinalStep
<1>1. \A n \in 1..Count : stages[n] \in Stage
  BY DEF TypeOK, Count
<1>2. \A n \in 1..Count : stages[n] = [stages[n] EXCEPT !.signal = stages[n].signal]
  BY <1>1 DEF Stage
<1>3. Count \in Nat
  BY DEF TypeOK, Count
<1>4. CASE stages' = stages
  BY <1>2, <1>3, <1>4 DEF FinalStep, Ledgers, Count
<1>5. ASSUME terminal = "none", NEW s \in Stage, stages' = Append(stages, s) PROVE FinalStep
  <2>1. Count' = Count + 1 /\ \A n \in 1..Count : stages'[n] = stages[n]
    BY <1>5, AppendIs
  <2>2. QED
    BY <1>2, <1>3, <1>5, <2>1 DEF FinalStep, Count
<1>6. ASSUME OpenStage, NEW s \in Stage, stages' = Update(s) PROVE FinalStep
  <2>1. Count > 0 /\ terminal = "none" /\ Latest.end = "open"
    BY <1>6, OpenIs DEF IndInv, OpenStage
  <2>2. Count' = Count /\ \A n \in 1..Count : n # Count => stages'[n] = stages[n]
    BY <1>6, <2>1, UpdateIs
  <2>3. QED
    BY <1>2, <1>3, <2>1, <2>2 DEF FinalStep, Count, Latest
<1>7. ASSUME terminal = "none", Count > 0, Latest.end = "committed", Latest.signal = "none",
             NEW x \in Signal, stages' = Update([Latest EXCEPT !.signal = x])
      PROVE  FinalStep
  <2> DEFINE s == [Latest EXCEPT !.signal = x]
  <2>1. Latest \in Stage
    BY <1>7, LatestIs
  <2>2. s \in Stage /\ s.signal = x /\ s = [Latest EXCEPT !.signal = s.signal]
    BY <2>1 DEF Stage
  <2> HIDE DEF s
  <2>3. stages' = Update(s)
    BY <1>7 DEF s
  <2>4. /\ Count' = Count /\ stages'[Count] = s
        /\ \A n \in 1..Count : n # Count => stages'[n] = stages[n]
    BY <1>7, <2>2, <2>3, UpdateIs
  <2>5. QED
    BY <1>2, <1>3, <1>7, <2>2, <2>4 DEF FinalStep, Count, Latest
<1>8. QED
  BY <1>4, <1>5, <1>6, <1>7 DEF Ledgers, CanStart

LEMMA HostLedgers ==
  ASSUME TypeOK, IndInv, HostStep
  PROVE  Ledgers
<1> USE DEF ledger
<1>1. ASSUME NEW kind \in Kind, StartStage(kind) PROVE Ledgers
  <2>1. CanStart /\ terminal' = terminal
    BY <1>1 DEF StartStage, session
  <2>2. stages' = stages \/ stages' = Append(stages, Opened(kind, host.seen))
    BY <1>1, WriteIs DEF StartStage, HostPc, session
  <2>3. Opened(kind, host.seen) \in Stage
    BY OpenedIs DEF TypeOK
  <2>4. QED
    BY <2>1, <2>2, <2>3 DEF Ledgers
<1>2. CASE TurnCommits \/ TurnFails \/ RecoverSignal \/ OtherTurn \/ SessionRecord
           \/ CrashAndResume
  BY <1>2 DEF TurnCommits, TurnFails, RecoverSignal, OtherTurn, SessionRecord, CrashAndResume,
              Ledgers, session
<1>3. CASE CommitStage
  <2>1. /\ host.pc # "idle" /\ OpenStage /\ Latest.child = None /\ Latest.base # NoBase
        /\ terminal' = terminal
    BY <1>3 DEF CommitStage, IndInv, HostPlace, session
  <2>2. Count > 0 /\ Latest.signal = "none"
    BY <2>1, OpenIs DEF IndInv
  <2>3. CASE Readable /\ Fits(Latest, Count, host.seen)
    <3>1. Committed(Latest, host.seen) \in Stage
      BY <2>1, <2>2, <2>3, CommittedFits
    <3>2. stages' = stages \/ stages' = Update(Committed(Latest, host.seen))
      BY <1>3, <2>3 DEF CommitStage, WriteStages, session
    <3>3. QED
      BY <2>1, <3>1, <3>2 DEF Ledgers
  <2>4. CASE ~(Readable /\ Fits(Latest, Count, host.seen))
    BY <1>3, <2>1, <2>4 DEF CommitStage, Ledgers, session
  <2>5. QED
    BY <2>3, <2>4
<1>4. CASE FailStage
  <2>1. OpenStage /\ Latest.child = None /\ terminal' = terminal
    BY <1>4 DEF FailStage, IndInv, HostPlace, session
  <2>2. Failed(Latest, host.usage) \in Stage
    BY <2>1, FailedFits DEF TypeOK
  <2>3. stages' = stages \/ stages' = Update(Failed(Latest, host.usage))
    BY <1>4 DEF FailStage, WriteStages, session
  <2>4. QED
    BY <2>1, <2>2, <2>3 DEF Ledgers
<1>5. CASE RecordSignal
  <2>1. /\ host.pc # "idle" /\ Latest.end = "committed" /\ Latest.signal = "none"
        /\ terminal' = terminal
    BY <1>5 DEF RecordSignal, IndInv, HostPlace, session
  <2>2. Count > 0 /\ terminal = "none" /\ Fitting(Latest)
    BY <2>1, BusyHolds, LatestFits DEF IndInv
  <2>3. Proposal \in Signal
    <3>1. turns[Latest.turn] \in Turn
      BY <2>1, <2>2, TurnTyped DEF Fitting
    <3>2. QED
      BY <3>1 DEF Proposal, Turn
  <2>4. stages' = stages \/ stages' = Update([Latest EXCEPT !.signal = Proposal])
    BY <1>5 DEF RecordSignal, WriteStages, session
  <2>5. QED
    BY <2>1, <2>2, <2>3, <2>4 DEF Ledgers
<1>6. CASE RecoverStage
  <2>1. OpenStage /\ Latest.child = None /\ terminal' = terminal
    BY <1>6 DEF RecoverStage, session
  <2>2. Count > 0 /\ Latest.signal = "none"
    BY <2>1, OpenIs DEF IndInv
  <2>3. Failed(Latest, Unknown) \in Stage
    BY <2>1, FailedFits
  <2>4. \A t \in Matches : Fits(Latest, Count, t) => Committed(Latest, t) \in Stage
    BY <2>1, <2>2, CommittedFits DEF Matches
  <2>5. \/ stages' = stages
        \/ stages' = Update(Failed(Latest, Unknown))
        \/ \E t \in Matches : Fits(Latest, Count, t) /\ stages' = Update(Committed(Latest, t))
    BY <1>6 DEF RecoverStage, WriteStages, session
  <2>6. QED
    BY <2>1, <2>3, <2>4, <2>5 DEF Ledgers
<1>7. CASE \/ \E c \in HumanCriterion : VerifyHuman(c)
           \/ VerifyHost
  BY <1>7 DEF VerifyHuman, VerifyHost, Ledgers, session
<1>8. CASE AutoComplete \/ Terminated \/ Complete
  <2>1. terminal = "none"
    BY <1>8, BusyHolds DEF AutoComplete, Terminated, Complete, session
  <2>2. QED
    BY <1>8, <2>1 DEF AutoComplete, Terminated, Complete, Ledgers, session
<1>9. ASSUME NEW outcome \in {"cancelled", "failed"}, GiveUp(outcome) PROVE Ledgers
  <2>1. terminal = "none"
    BY <1>9 DEF GiveUp, session
  <2>2. CASE OpenStage
    <3>1. Failed(Latest, Unknown) \in Stage
      BY <1>9, <2>2, FailedFits DEF GiveUp, session
    <3>2. stages' = stages \/ stages' = Update(Failed(Latest, Unknown))
      BY <1>9, <2>2 DEF GiveUp, WriteStages, session
    <3>3. QED
      BY <2>1, <2>2, <3>1, <3>2 DEF Ledgers
  <2>3. CASE ~OpenStage
    BY <1>9, <2>1, <2>3 DEF GiveUp, Ledgers, session
  <2>4. QED
    BY <2>2, <2>3
<1>10. QED
  BY <1>1, <1>2, <1>3, <1>4, <1>5, <1>6, <1>7, <1>8, <1>9 DEF HostStep, session

LEMMA BridgeLedgers ==
  ASSUME TypeOK, IndInv, BridgeStep
  PROVE  Ledgers
<1> USE DEF ledger
<1>1. ASSUME NEW b \in Bridge, BridgeStart(b) PROVE Ledgers
  <2>1. CanStart /\ terminal' = terminal
    BY <1>1 DEF BridgeStart, session
  <2>2. Opened("execution", NoBase) \in Stage
    BY OpenedIs DEF Kind
  <2>3. QED
    BY <1>1, <2>1, <2>2 DEF BridgeStart, Ledgers, session
<1>2. ASSUME NEW b \in Bridge, BridgeDelegate(b) PROVE Ledgers
  <2>1. OpenStage /\ bridge[b].child \in Child \cup {None}
    BY <1>2 DEF BridgeDelegate, IndInv, BridgePlace, Inside, TypeOK, session
  <2>2. Latest \in Stage
    BY <2>1, LatestIs DEF OpenStage
  <2>3. [Latest EXCEPT !.child = bridge[b].child] \in Stage
    BY <2>1, <2>2 DEF Stage
  <2>4. QED
    BY <1>2, <2>1, <2>3 DEF BridgeDelegate, Ledgers, session
<1>3. ASSUME NEW b \in Bridge, Settle(b) PROVE Ledgers
  <2>1. CASE OpenStage /\ Latest.child # None
    <3>1. Latest \in Stage /\ bridge[b].child \in Child \cup {None}
      BY <2>1, LatestIs DEF OpenStage, TypeOK
    <3>2. External(Latest, bridge[b].child, bridge[b].good) \in Stage
      BY <3>1 DEF External, Stage
    <3>3. QED
      BY <1>3, <2>1, <3>2 DEF Settle, Ledgers, session
  <2>2. CASE ~(OpenStage /\ Latest.child # None)
    BY <1>3, <2>2 DEF Settle, Ledgers, session
  <2>3. QED
    BY <2>1, <2>2
<1>4. CASE \/ \E b \in Bridge : BridgeStops(b) \/ Observe(b) \/ (\E c \in Child : BridgeCreate(b, c))
           \/ \E c \in Child : ChildEnds(c)
  BY <1>4 DEF BridgeStops, Observe, BridgeCreate, ChildEnds, Ledgers, session
<1>5. QED
  BY <1>1, <1>2, <1>3, <1>4 DEF BridgeStep

-----------------------------------------------------------------------------
(* The theorems.                                                            *)

LEMMA InitHolds ==
  ASSUME Init PROVE TypeOK /\ IndInv
<1>1. Count = 0 /\ Len(turns) = 0
  BY DEF Init, Count
<1>2. bridge \in [Bridge -> BridgeState] /\ \A b \in Bridge : bridge[b].pc = "idle"
  BY IdleIs DEF Init
<1>3. TypeOK
  BY <1>1, <1>2, StageAssumption DEF Init, TypeOK, BridgeState, Tails
<1>4. Locked /\ HostPlace /\ BridgePlace /\ SessionPlace
  BY <1>1, <1>2, StageAssumption DEF Init, Locked, HostPlace, BridgePlace, SessionPlace, Readable, Inside
<1>5. Durable
  BY <1>1 DEF Init, Durable, LedgerShape, OwnTurns, TurnBinding, ExternalEvidence, CompletionSound
<1>6. QED
  BY <1>3, <1>4, <1>5 DEF IndInv

LEMMA StepHolds == TypeOK /\ IndInv /\ [Next]_vars => TypeOK' /\ IndInv'
<1>1. SUFFICES ASSUME TypeOK, IndInv, [Next]_vars PROVE TypeOK' /\ IndInv'
  OBVIOUS
<1>2. CASE HostStep
  BY <1>1, <1>2, StartStageKeeps, TurnCommitsKeeps, TurnFailsKeeps, CommitStageKeeps,
     FailStageKeeps, RecordSignalKeeps, RecoverStageKeeps, RecoverSignalKeeps, VerifyHumanKeeps,
     VerifyHostKeeps, AutoCompleteKeeps, CompleteKeeps, GiveUpKeeps, TerminatedKeeps,
     OtherTurnKeeps, SessionRecordKeeps, CrashKeeps DEF HostStep, session
<1>3. CASE BridgeStep
  BY <1>1, <1>3, BridgeStartKeeps, BridgeCreateKeeps, BridgeDelegateKeeps, BridgeStopsKeeps,
     ObserveKeeps, SettleKeeps, ChildEndsKeeps DEF BridgeStep
<1>4. CASE UNCHANGED vars
  <2>1. host' \in HostState /\ HostPlace'
    BY <1>1, <1>4 DEF vars, TypeOK, HostState, Writers, HostPc, IndInv, HostPlace, OpenStage, Latest, Count,
                      AllVerified, Proposed, Verified, session, ledger
  <2>2. QED
    BY <1>1, <1>4, <2>1, HostLooks DEF vars, TypeOK, IndInv, Locked, session, ledger
<1>5. QED
  BY <1>1, <1>2, <1>3, <1>4 DEF Next

\* The inductive invariant holds for any Task budget, callers and Children.
THEOREM Inductive == Spec => [](TypeOK /\ IndInv)
<1>1. Init => TypeOK /\ IndInv
  BY InitHolds
<1>2. QED
  BY <1>1, StepHolds, PTL DEF Spec

\* Types hold (task_records.py, task_bridge.py).
THEOREM TypeCorrect == Spec => []TypeOK
BY Inductive, PTL

\* A committed Stage is bound to the Turn its own prompt produced, whoever
\* bound it (TaskStore.commit_stage, recover_task).
THEOREM BoundToOwnTurn == Spec => []TurnBinding
<1>1. IndInv => TurnBinding
  BY DEF IndInv, Durable
<1>2. QED
  BY <1>1, Inductive, PTL

\* A Session that can be read or resumed always decides the open Stage: its
\* Turns hold no answer to the Stage's prompt, or the one that commit_stage
\* accepts (recover_task, find_turn_evidence).
THEOREM AlwaysRecoverable == Spec => []Recoverable
<1>1. TypeOK /\ IndInv => Recoverable
  <2>1. SUFFICES ASSUME TypeOK, IndInv, OpenStage PROVE Recoverable
    BY DEF Recoverable
  <2>2. Count \in 1..MaxStages
    BY <2>1, LatestIs DEF OpenStage
  <2>3. \A t \in Matches : t \in 1..Len(turns) /\ t = Latest.base + 1 /\ turns[t].stage = Count
    BY <2>1, <2>2 DEF Matches, IndInv, Durable, OwnTurns, Latest
  <2>4. \A t \in Matches : Matches = {t} /\ Fits(Latest, Count, t)
    BY <2>3 DEF Fits
  <2>5. QED
    BY <2>4 DEF Recoverable
<1>2. QED
  BY <1>1, Inductive, PTL

\* An external end names the Child delegated in that very Stage, although the
\* caller observed before it took the lock (TaskOrchestrationService).
THEOREM EvidenceIsOwn == Spec => []ExternalEvidence
<1>1. IndInv => ExternalEvidence
  BY DEF IndInv, Durable
<1>2. QED
  BY <1>1, Inductive, PTL

\* A completed Task rests on verifications of its last proposal.
THEOREM CompletedSoundly == Spec => []CompletionSound
<1>1. IndInv => CompletionSound
  BY DEF IndInv, Durable
<1>2. QED
  BY <1>1, Inductive, PTL

\* The history of a Task only grows and nothing follows its end, whoever
\* writes and whichever appends stay unconfirmed (TaskStore, task_records.py).
THEOREM HistoryStays == Spec => HistoryIsFinal
<1>1. TypeOK /\ IndInv /\ [Next]_vars => [FinalStep]_vars
  BY HostLedgers, BridgeLedgers, LedgersFinal DEF Next
<1>2. QED
  BY <1>1, Inductive, PTL DEF Spec, HistoryIsFinal, FinalStep

-----------------------------------------------------------------------------
(* What a delegation comes to.                                              *)

DelegatedIsLast == \A n \in 1..Count : stages[n].child # None => n = Count

LEMMA DelegatedBlocks ==
  ASSUME TypeOK, IndInv, CanStart, NEW n \in 1..Count
  PROVE  stages[n].child = None
<1>1. SUFFICES ASSUME stages[n].child # None PROVE FALSE
  OBVIOUS
<1>2. stages[n].cost = Unknown /\ (stages[n].end = "open" => n = Count)
  BY <1>1 DEF IndInv, Durable, LedgerShape
<1>3. stages[n].end # "open"
  BY <1>2 DEF CanStart, OpenStage, Latest, Count
<1>4. QED
  BY <1>2, <1>3 DEF CanStart, Exhausted, Unavailable

LEMMA DelegatedStaysLast ==
  ASSUME TypeOK, IndInv, DelegatedIsLast, Ledgers
  PROVE  DelegatedIsLast'
<1>1. Count \in Nat /\ \A n \in 1..Count : stages[n] \in Stage
  BY DEF TypeOK, Count
<1>2. CASE stages' = stages
  BY <1>2 DEF DelegatedIsLast, Count
<1>3. ASSUME CanStart, NEW s \in Stage, stages' = Append(stages, s) PROVE DelegatedIsLast'
  <2>1. Count' = Count + 1 /\ \A n \in 1..Count : stages'[n] = stages[n]
    BY <1>3, AppendIs
  <2>2. \A n \in 1..Count : stages[n].child = None
    BY <1>3, DelegatedBlocks
  <2>3. QED
    BY <1>1, <2>1, <2>2 DEF DelegatedIsLast
<1>4. ASSUME Count > 0, NEW s, s \in Stage, stages' = Update(s) PROVE DelegatedIsLast'
  <2>1. Count' = Count /\ \A n \in 1..Count : n # Count => stages'[n] = stages[n]
    BY <1>4, UpdateIs
  <2>2. QED
    BY <1>1, <2>1 DEF DelegatedIsLast
<1>5. ASSUME Count > 0, NEW x \in Signal PROVE [Latest EXCEPT !.signal = x] \in Stage
  <2>1. Latest \in Stage
    BY <1>5, LatestIs
  <2>2. QED
    BY <2>1 DEF Stage
<1>6. OpenStage => Count > 0
  BY DEF OpenStage
<1>7. QED
  BY <1>2, <1>3, <1>4, <1>5, <1>6 DEF Ledgers

\* A Task that has delegated a Stage to a Child Run never starts another one: a
\* delegated Stage has no usage, and _budget_exhaustion counts that as an
\* exhausted budget. All that is left is to settle and judge that Stage.
THEOREM DelegationIsLast == Spec => []DelegatedIsLast
<1>1. Init => DelegatedIsLast
  BY DEF Init, DelegatedIsLast, Count
<1>2. ASSUME TypeOK, IndInv, DelegatedIsLast, [Next]_vars PROVE DelegatedIsLast'
  <2>1. CASE Next
    BY <1>2, <2>1, HostLedgers, BridgeLedgers, DelegatedStaysLast DEF Next
  <2>2. CASE UNCHANGED vars
    BY <1>2, <2>2 DEF vars, ledger, DelegatedIsLast, Count, session
  <2>3. QED
    BY <1>2, <2>1, <2>2
<1>3. QED
  BY <1>1, <1>2, Inductive, PTL DEF Spec

-----------------------------------------------------------------------------
(* The seam to the Child Runs.                                              *)

\* A Task sees every Child come to at most one outcome (TaskBridge).
THEOREM OutcomesTaken == Spec => TakesOutcomes
<1>1. ASSUME TypeOK, [Next]_vars, NEW c \in Child
      PROVE  [ChildRuns(c)!Next]_(Told(child[c]))
  <2>1. CASE HostStep \/ UNCHANGED vars
    <3>1. child' = child
      BY <2>1 DEF HostStep, vars, StartStage, TurnCommits, TurnFails, CommitStage, FailStage,
        RecordSignal, RecoverStage, RecoverSignal, VerifyHuman, VerifyHost, AutoComplete,
        Complete, GiveUp, Terminated, OtherTurn, SessionRecord, CrashAndResume, session
    <3>2. QED
      BY <3>1
  <2>2. CASE BridgeStep
    <3>1. ASSUME NEW b \in Bridge, NEW e \in Child, BridgeCreate(b, e)
          PROVE  [ChildRuns(c)!Next]_(Told(child[c]))
      <4>1. child[e] = "absent" /\ child'[c] = IF c = e THEN "live" ELSE child[c]
        BY <1>1, <3>1 DEF BridgeCreate, TypeOK, session
      <4>2. QED
        BY <4>1 DEF ChildRuns!Next, ChildRuns!Moves, Told
    <3>2. ASSUME NEW e \in Child, ChildEnds(e)
          PROVE  [ChildRuns(c)!Next]_(Told(child[c]))
      <4>1. PICK status \in {"completed", "stopped"} : child' = [child EXCEPT ![e] = status]
        BY <3>2 DEF ChildEnds, session
      <4>2. child[e] = "live" /\ child'[c] = IF c = e THEN status ELSE child[c]
        BY <1>1, <3>2, <4>1 DEF ChildEnds, TypeOK, session
      <4>3. QED
        BY <4>2 DEF ChildRuns!Next, ChildRuns!Moves, Told
    <3>3. ASSUME NEW b \in Bridge, \/ BridgeStart(b) \/ BridgeDelegate(b) \/ BridgeStops(b)
                                  \/ Observe(b) \/ Settle(b)
          PROVE  child' = child
      BY <3>3 DEF BridgeStart, BridgeDelegate, BridgeStops, Observe, Settle, session
    <3>4. QED
      BY <2>2, <3>1, <3>2, <3>3 DEF BridgeStep
  <2>3. QED
    BY <1>1, <2>1, <2>2 DEF Next
<1>2. TypeOK /\ [Next]_vars => [\A c \in Child : [ChildRuns(c)!Next]_(Told(child[c]))]_vars
  BY <1>1
<1>3. Init => \A c \in Child : ChildRuns(c)!Init
  BY DEF Init, ChildRuns!Init, Told
<1>4. QED
  BY <1>2, <1>3, TypeCorrect, PTL DEF Spec, TakesOutcomes

\* Whatever a delegated Child Run does next, at any point of any Host's or bridge
\* caller's work, is a step the Task allows: nothing here waits for the Child, or
\* keeps it from an outcome.
THEOREM AnyOutcomeFits ==
  ASSUME NEW c \in Child, NEW from, NEW to, <<from, to>> \in ChildRuns(c)!Moves,
         TypeOK, child[c] = Seen(from), child' = [child EXCEPT ![c] = Seen(to)],
         UNCHANGED <<ledger, turns, transcript, host, bridge, spent>>
  PROVE  [Next]_vars
<1>1. CASE to = "prepared"
  <2>1. Seen(from) = "live" /\ Seen(to) = "live"
    BY <1>1 DEF ChildRuns!Moves, Seen
  <2>2. child' = child
    BY <2>1 DEF TypeOK
  <2>3. QED
    BY <2>2 DEF vars, ledger, session
<1>2. CASE to # "prepared"
  <2>1. Seen(from) = "live" /\ to \in {"completed", "stopped"} /\ Seen(to) = to
    BY <1>2 DEF ChildRuns!Moves, Seen
  <2>2. ChildEnds(c)
    BY <2>1 DEF ChildEnds, session
  <2>3. QED
    BY <2>2 DEF Next, BridgeStep
<1>3. QED
  BY <1>1, <1>2

-----------------------------------------------------------------------------
(* What the ledger charges.                                                 *)

LEMMA LeastNatural ==
  ASSUME NEW S \in SUBSET Nat, S # {}
  PROVE  \E n \in S : \A m \in S : ~(m < n)
<1>1. PICK n \in S : \A m \in S : <<m, n>> \notin OpToRel(<, Nat)
  BY WFMin, NatLessThanWellFounded
<1>2. QED
  BY <1>1, Zenon DEF OpToRel

SumOf(N, c, f) == f = [n \in 0..N |-> IF n = 0 THEN 0 ELSE f[n - 1] + c[n]]

\* The sums of a sequence exist, by its least beginning that has none.
LEMMA SumExists ==
  ASSUME NEW N \in Nat, NEW c \in [1..N -> Nat]
  PROVE  \E f \in [0..N -> Nat] : SumOf(N, c, f)
<1> DEFINE Has(k) == \E f \in [0..k -> Nat] : SumOf(k, c, f)
           Bad == {k \in 0..N : ~Has(k)}
<1> HIDE DEF Has
<1>0. SUFFICES ASSUME ~Has(N) PROVE FALSE
  BY DEF Has
<1>1. N \in Bad
  BY <1>0
<1>a. Bad \in SUBSET Nat
  OBVIOUS
<1>2. PICK k \in Bad : \A m \in Bad : ~(m < k)
  <2> HIDE DEF Bad
  <2>1. QED
    BY <1>1, <1>a, LeastNatural
<1>3. k # 0
  <2>1. SumOf(0, c, [n \in 0..0 |-> 0])
    BY DEF SumOf
  <2>2. [n \in 0..0 |-> 0] \in [0..0 -> Nat]
    OBVIOUS
  <2>3. QED
    BY <2>1, <2>2 DEF Has
<1>b. k - 1 \in 0..N /\ k - 1 < k
  BY <1>3
<1>4. PICK f \in [0..(k - 1) -> Nat] : SumOf(k - 1, c, f)
  BY <1>2, <1>b DEF Has
<1> DEFINE g == [n \in 0..k |-> IF n = k THEN f[k - 1] + c[k] ELSE f[n]]
<1>5. k \in Nat /\ k > 0 /\ c[k] \in Nat /\ f[k - 1] \in Nat
  BY <1>3
<1>6. g \in [0..k -> Nat]
  BY <1>5
<1>7. SumOf(k, c, g)
  <2>1. \A n \in 0..(k - 1) : f[n] = IF n = 0 THEN 0 ELSE f[n - 1] + c[n]
    BY <1>4, <1>5 DEF SumOf
  <2>2. g[k] = f[k - 1] + c[k] /\ \A n \in 0..(k - 1) : g[n] = f[n]
    BY <1>5
  <2> HIDE DEF g
  <2>3. ASSUME NEW n \in 0..k PROVE g[n] = IF n = 0 THEN 0 ELSE g[n - 1] + c[n]
    <3>1. CASE n = k
      <4>1. g[k - 1] = f[k - 1]
        BY <1>5, <2>2
      <4>2. QED
        BY <1>5, <2>2, <3>1, <4>1
    <3>2. CASE n # k
      <4>1. n \in 0..(k - 1) /\ (n # 0 => n - 1 \in 0..(k - 1))
        BY <1>5, <3>2
      <4>2. QED
        BY <2>1, <2>2, <4>1
    <3>3. QED
      BY <3>1, <3>2
  <2>4. QED
    BY <1>6, <2>3 DEF SumOf
<1>8. QED
  BY <1>6, <1>7 DEF Has

\* Two sums of the same numbers are the same.
LEMMA SumAgrees ==
  ASSUME NEW N \in Nat, NEW M \in Nat, NEW c, NEW d,
         NEW f, NEW g, SumOf(N, c, f), SumOf(M, d, g)
  PROVE  \A K \in Nat : K <= N /\ K <= M /\ (\A n \in 1..K : c[n] = d[n]) => f[K] = g[K]
<1> SUFFICES ASSUME NEW K \in Nat, K <= N, K <= M, \A n \in 1..K : c[n] = d[n]
             PROVE  f[K] = g[K]
  OBVIOUS
<1> DEFINE Bad == {k \in 0..K : f[k] # g[k]}
<1>1. SUFFICES ASSUME Bad # {} PROVE FALSE
  OBVIOUS
<1>a. Bad \in SUBSET Nat
  OBVIOUS
<1>2. PICK k \in Bad : \A m \in Bad : ~(m < k)
  <2> HIDE DEF Bad
  <2>1. QED
    BY <1>1, <1>a, LeastNatural
<1>3. f[k] = (IF k = 0 THEN 0 ELSE f[k - 1] + c[k])
  BY DEF SumOf
<1>4. g[k] = (IF k = 0 THEN 0 ELSE g[k - 1] + d[k])
  BY DEF SumOf
<1>5. k # 0 => f[k - 1] = g[k - 1]
  BY <1>2
<1>6. QED
  BY <1>3, <1>4, <1>5

LEMMA SumUnique ==
  ASSUME NEW N \in Nat, NEW c, NEW f, NEW g, SumOf(N, c, f), SumOf(N, c, g)
  PROVE  f[N] = g[N]
<1>1. N <= N /\ \A n \in 1..N : c[n] = c[n]
  OBVIOUS
<1>2. QED
  BY <1>1, SumAgrees

ChargeOf(s) == IF Charged(s) THEN s.cost ELSE 0
ChargesOf(st) == [n \in 1..Len(st) |-> ChargeOf(st[n])]
Total(st) ==
  LET sum[n \in 0..Len(st)] ==
        IF n = 0 THEN 0
        ELSE sum[n - 1] + IF Charged(st[n]) THEN st[n].cost ELSE 0
  IN sum[Len(st)]

LEMMA ChargeTyped ==
  ASSUME NEW s \in Stage PROVE ChargeOf(s) \in 0..TurnCost
BY StageAssumption DEF ChargeOf, Charged, Stage, Unknown

LEMMA TotalIs ==
  ASSUME NEW st \in Seq(Stage)
  PROVE  \E f \in [0..Len(st) -> Nat] :
           SumOf(Len(st), ChargesOf(st), f) /\ Total(st) = f[Len(st)]
<1>1. Len(st) \in Nat /\ \A n \in 1..Len(st) : ChargeOf(st[n]) \in Nat
  BY ChargeTyped, StageAssumption
<1>2. ChargesOf(st) \in [1..Len(st) -> Nat]
  BY <1>1 DEF ChargesOf
<1>3. PICK f \in [0..Len(st) -> Nat] : SumOf(Len(st), ChargesOf(st), f)
  BY <1>1, <1>2, SumExists
<1> DEFINE Is(g) == g = [n \in 0..Len(st) |->
                           IF n = 0 THEN 0
                           ELSE g[n - 1] + IF Charged(st[n]) THEN st[n].cost ELSE 0]
<1>4. \A g : Is(g) <=> SumOf(Len(st), ChargesOf(st), g)
  <2>1. SUFFICES ASSUME NEW g PROVE Is(g) <=> SumOf(Len(st), ChargesOf(st), g)
    OBVIOUS
  <2>2. \A n \in 1..Len(st) :
          ChargesOf(st)[n] = IF Charged(st[n]) THEN st[n].cost ELSE 0
    BY DEF ChargesOf, ChargeOf
  <2>3. [n \in 0..Len(st) |-> IF n = 0 THEN 0 ELSE g[n - 1] + ChargesOf(st)[n]]
        = [n \in 0..Len(st) |->
             IF n = 0 THEN 0
             ELSE g[n - 1] + IF Charged(st[n]) THEN st[n].cost ELSE 0]
    BY <1>1, <2>2
  <2>4. QED
    BY <2>3 DEF SumOf
<1>5. Is(CHOOSE g : Is(g))
  BY <1>3, <1>4
<1>6. Total(st) = (CHOOSE g : Is(g))[Len(st)]
  BY DEF Total
<1> DEFINE h == CHOOSE g : Is(g)
<1>7. SumOf(Len(st), ChargesOf(st), h)
  BY <1>4, <1>5
<1> HIDE DEF Is, h
<1>8. h[Len(st)] = f[Len(st)]
  BY <1>1, <1>3, <1>7, SumUnique
<1>9. QED
  BY <1>3, <1>6, <1>8 DEF h

LEMMA TotalTyped ==
  ASSUME NEW st \in Seq(Stage) PROVE Total(st) \in Nat
<1>1. PICK f \in [0..Len(st) -> Nat] : Total(st) = f[Len(st)]
  BY TotalIs
<1>2. Len(st) \in 0..Len(st)
  OBVIOUS
<1>3. QED
  BY <1>1, <1>2

LEMMA TotalAppended ==
  ASSUME NEW st \in Seq(Stage), NEW u \in Seq(Stage), Len(u) = Len(st) + 1,
         \A n \in 1..Len(st) : u[n] = st[n]
  PROVE  Total(u) = Total(st) + ChargeOf(u[Len(u)])
<1>1. PICK f \in [0..Len(st) -> Nat] :
        SumOf(Len(st), ChargesOf(st), f) /\ Total(st) = f[Len(st)]
  BY TotalIs
<1>2. PICK g \in [0..Len(u) -> Nat] : SumOf(Len(u), ChargesOf(u), g) /\ Total(u) = g[Len(u)]
  BY TotalIs
<1>3. Len(st) \in Nat /\ Len(u) \in Nat
  OBVIOUS
<1>4. \A n \in 1..Len(st) : ChargesOf(st)[n] = ChargesOf(u)[n]
  BY <1>3 DEF ChargesOf
<1>5. f[Len(st)] = g[Len(st)]
  BY <1>1, <1>2, <1>3, <1>4, SumAgrees
<1>6. g[Len(u)] = g[Len(u) - 1] + ChargesOf(u)[Len(u)]
  BY <1>2, <1>3 DEF SumOf
<1>7. ChargesOf(u)[Len(u)] = ChargeOf(u[Len(u)])
  BY <1>3 DEF ChargesOf
<1>8. QED
  BY <1>1, <1>2, <1>3, <1>5, <1>6, <1>7

LEMMA TotalUpdated ==
  ASSUME NEW st \in Seq(Stage), NEW u \in Seq(Stage), Len(u) = Len(st), Len(st) > 0,
         \A n \in 1..(Len(st) - 1) : u[n] = st[n]
  PROVE  Total(u) + ChargeOf(st[Len(st)]) = Total(st) + ChargeOf(u[Len(u)])
<1> DEFINE v == SubSeq(st, 1, Len(st) - 1)
<1>1. /\ v \in Seq(Stage) /\ Len(v) = Len(st) - 1 /\ Len(st) \in Nat
      /\ \A n \in 1..Len(v) : v[n] = st[n]
  OBVIOUS
<1> HIDE DEF v
<1>2. Total(st) = Total(v) + ChargeOf(st[Len(st)])
  BY <1>1, TotalAppended
<1>3. Total(u) = Total(v) + ChargeOf(u[Len(u)])
  BY <1>1, TotalAppended
<1>4. Total(v) \in Nat /\ ChargeOf(st[Len(st)]) \in Nat /\ ChargeOf(u[Len(u)]) \in Nat
  <2>1. st[Len(st)] \in Stage /\ u[Len(u)] \in Stage
    BY <1>1
  <2>2. Total(v) \in Nat
    BY <1>1, TotalTyped
  <2>3. QED
    BY <2>1, <2>2, ChargeTyped, StageAssumption
<1>5. QED
  BY <1>2, <1>3, <1>4

\* How the recorded usage changes with the two ways to write.
LEMMA RecordedIs ==
  ASSUME TypeOK
  PROVE  Recorded \in Nat /\ Recorded = Total(stages) /\ Recorded' = Total(stages')
<1>1. Recorded = Total(stages) /\ Recorded' = Total(stages')
  BY DEF Recorded, Total, Count
<1>2. Total(stages) \in Nat
  BY TotalTyped DEF TypeOK
<1>3. QED
  BY <1>1, <1>2

LEMMA OpensFree ==
  ASSUME TypeOK, ~OpenStage, NEW s \in Stage, s.end = "open", stages' = Append(stages, s)
  PROVE  Recorded' = Recorded /\ (Unavailable' <=> Unavailable) /\ OpenStage'
<1>1. /\ stages' \in Seq(Stage) /\ Count' = Count + 1 /\ Latest' = s /\ Count \in Nat
      /\ \A n \in 1..Count : stages'[n] = stages[n]
  BY AppendIs
<1>2. ChargeOf(s) = 0
  BY DEF ChargeOf, Charged
<1>3. stages'[Count + 1] = s /\ Len(stages') = Count + 1 /\ Len(stages) = Count
  BY <1>1 DEF Latest, Count
<1>4. Total(stages') = Total(stages) + ChargeOf(s)
  <2>1. /\ stages \in Seq(Stage) /\ Len(stages') = Len(stages) + 1
        /\ \A n \in 1..Len(stages) : stages'[n] = stages[n]
        /\ stages'[Len(stages')] = s
    BY <1>1, <1>3 DEF TypeOK
  <2>2. Total(stages') = Total(stages) + ChargeOf(stages'[Len(stages')])
    BY <1>1, <2>1, TotalAppended
  <2>3. QED
    BY <2>1, <2>2
<1>5. Recorded' = Recorded
  BY <1>2, <1>4, RecordedIs
<1>6. Unavailable' <=> Unavailable
  BY <1>1, <1>3 DEF Unavailable
<1>7. QED
  BY <1>1, <1>5, <1>6 DEF OpenStage

LEMMA WritesCharge ==
  ASSUME TypeOK, Count > 0, NEW s \in Stage, stages' = Update(s)
  PROVE  /\ Recorded' + ChargeOf(Latest) = Recorded + ChargeOf(s)
         /\ Recorded' \in Nat
         /\ ~Unavailable' => ~(s.end # "open" /\ s.cost = Unknown)
         /\ Unavailable' => Unavailable \/ (s.end # "open" /\ s.cost = Unknown)
         /\ Unavailable => Unavailable' \/ (Latest.end # "open" /\ Latest.cost = Unknown)
         /\ OpenStage' <=> s.end = "open"
<1>1. /\ stages' \in Seq(Stage) /\ Count' = Count /\ Latest' = s /\ Count \in Nat
      /\ \A n \in 1..Count : n # Count => stages'[n] = stages[n]
      /\ stages'[Count] = s
  BY UpdateIs
<1>2. Len(stages') = Count /\ Len(stages) = Count /\ stages[Count] = Latest
  BY <1>1 DEF Latest, Count
<1>3. Total(stages') + ChargeOf(Latest) = Total(stages) + ChargeOf(s)
  <2>1. /\ stages \in Seq(Stage) /\ Len(stages') = Len(stages) /\ Len(stages) > 0
        /\ \A n \in 1..(Len(stages) - 1) : stages'[n] = stages[n]
        /\ stages'[Len(stages')] = s /\ stages[Len(stages)] = Latest
    BY <1>1, <1>2 DEF TypeOK
  <2>2. Total(stages') + ChargeOf(stages[Len(stages)])
        = Total(stages) + ChargeOf(stages'[Len(stages')])
    BY <1>1, <2>1, TotalUpdated
  <2>3. QED
    BY <2>1, <2>2
<1>4. Total(stages') \in Nat
  BY <1>1, TotalTyped
<1>5. Unavailable' => Unavailable \/ (s.end # "open" /\ s.cost = Unknown)
  BY <1>1 DEF Unavailable
<1>6. Unavailable => Unavailable' \/ (Latest.end # "open" /\ Latest.cost = Unknown)
  BY <1>1, <1>2 DEF Unavailable
<1>7. ~Unavailable' => ~(s.end # "open" /\ s.cost = Unknown)
  BY <1>1 DEF Unavailable
<1>8. OpenStage' <=> s.end = "open"
  BY <1>1 DEF OpenStage
<1>9. QED
  BY <1>3, <1>4, <1>5, <1>6, <1>7, <1>8, RecordedIs

-----------------------------------------------------------------------------
(* What was spent.                                                          *)

\* While the ledger says that a Stage may start, it knows all that was spent;
\* the open Stage adds what its Turn says, or what was captured when it failed.
Spending ==
  /\ ~OpenStage /\ ~Unavailable => spent = Recorded
  /\ OpenStage => ~Unavailable /\ Recorded < MaxProvider
  /\ host.pc = "prompting" =>
       spent = Recorded /\ \A t \in 1..Len(turns) : turns[t].stage # Count
  /\ host.pc = "failing" /\ host.usage # Unknown => spent = Recorded + host.usage
  /\ OpenStage => \A t \in 1..Len(turns) :
       turns[t].stage = Count => spent = Recorded + turns[t].cost
  /\ SpendBounded

\* Nothing is spent and no Stage is written.
LEMMA SpendSame ==
  ASSUME Spending, UNCHANGED <<stages, turns, spent>>,
         host'.pc \in {"prompting", "failing"} => host'.pc = host.pc /\ host'.usage = host.usage
  PROVE  Spending'
<1>1. /\ Count' = Count /\ Recorded' = Recorded /\ (Unavailable' <=> Unavailable)
      /\ (OpenStage' <=> OpenStage)
  BY DEF Count, Recorded, Unavailable, OpenStage, Latest
<1>2. QED
  BY <1>1 DEF Spending, SpendBounded

\* A Stage is opened, by the Host or by the bridge.
LEMMA SpendOpens ==
  ASSUME TypeOK, IndInv, Spending, CanStart,
         NEW s \in Stage, s.end = "open", stages' = Append(stages, s),
         UNCHANGED <<turns, spent>>, host'.pc # "failing"
  PROVE  Spending'
<1>1. ~OpenStage /\ ~Unavailable /\ Recorded < MaxProvider
  BY RecordedIs, StageAssumption DEF CanStart, Exhausted
<1>2. Recorded' = Recorded /\ (Unavailable' <=> Unavailable) /\ OpenStage'
  BY <1>1, OpensFree
<1>3. Count' = Count + 1 /\ Count \in Nat
  BY AppendIs
<1>4. \A t \in 1..Len(turns) : turns[t].stage # Count'
  BY <1>3, TurnTyped DEF IndInv, Durable, OwnTurns
<1>5. QED
  BY <1>1, <1>2, <1>4 DEF Spending, SpendBounded

\* The open Stage is settled; what it is charged is what it cost.
LEMMA SpendSettles ==
  ASSUME TypeOK, IndInv, Spending, OpenStage,
         NEW s \in Stage, s.end # "open", s.cost # Unknown => spent = Recorded + s.cost,
         stages' = Update(s), UNCHANGED <<turns, spent>>,
         host'.pc \notin {"prompting", "failing"}
  PROVE  Spending'
<1>1. Count > 0 /\ Latest.end = "open"
  BY DEF OpenStage
<1>2. /\ Recorded' + ChargeOf(Latest) = Recorded + ChargeOf(s)
      /\ Recorded' \in Nat /\ Recorded \in Nat
      /\ ~Unavailable' => s.cost # Unknown
      /\ ~OpenStage'
  BY <1>1, WritesCharge, RecordedIs
<1>3. ChargeOf(Latest) = 0
  BY <1>1 DEF ChargeOf, Charged
<1>4. s.cost # Unknown => ChargeOf(s) = s.cost
  BY DEF ChargeOf, Charged
<1>5. ~Unavailable' => spent = Recorded'
  BY <1>2, <1>3, <1>4, ChargeTyped, StageAssumption
<1>6. QED
  BY <1>2, <1>5 DEF Spending, SpendBounded

\* The latest Stage is written with the end and the usage it had.
LEMMA SpendKept ==
  ASSUME TypeOK, Spending, Count > 0,
         NEW s \in Stage, s.end = Latest.end, s.cost = Latest.cost,
         stages' = Update(s), UNCHANGED <<turns, spent>>,
         host'.pc \notin {"prompting", "failing"}
  PROVE  Spending'
<1>1. Latest \in Stage
  BY LatestIs
<1>2. ChargeOf(Latest) = ChargeOf(s) /\ ChargeOf(s) \in Nat
  BY <1>1, ChargeTyped, StageAssumption DEF ChargeOf, Charged
<1>3. Recorded' = Recorded /\ (OpenStage' <=> OpenStage)
  BY <1>2, WritesCharge, RecordedIs DEF OpenStage
<1>4. Unavailable' <=> Unavailable
  <2>1. Latest.end # "open" /\ Latest.cost = Unknown => Unavailable
    BY LatestIs DEF Unavailable, Latest
  <2>2. QED
    BY <2>1, WritesCharge
<1>5. Count' = Count
  BY UpdateIs
<1>6. QED
  BY <1>3, <1>4, <1>5 DEF Spending, SpendBounded

LEMMA SpendTurnCommits ==
  ASSUME TypeOK, IndInv, Spending, TurnCommits
  PROVE  Spending'
<1>1. PICK signal \in SignalOf(Latest.kind), cost \in 1..TurnCost, next \in {"committed", "raising"} :
        /\ TurnLands(TurnOf(Count, signal, cost))
        /\ host' = [host EXCEPT !.pc = next, !.seen = @ + 1]
        /\ spent' = spent + cost
  BY DEF TurnCommits, session
<1>2. host.pc = "prompting" /\ OpenStage /\ UNCHANGED ledger
  BY DEF TurnCommits, IndInv, HostPlace, ledger, session
<1>3. /\ Count' = Count /\ Recorded' = Recorded /\ (Unavailable' <=> Unavailable)
      /\ (OpenStage' <=> OpenStage)
  BY <1>2 DEF Count, Recorded, Unavailable, OpenStage, Latest, ledger
<1>4. host'.pc = next
  BY <1>1 DEF TypeOK
<1>5. spent = Recorded /\ \A t \in 1..Len(turns) : turns[t].stage # Count
  BY <1>2 DEF Spending
<1>6. \A t \in 1..Len(turns') : turns'[t].stage = Count => turns'[t].cost = cost
  <2>1. CASE host.writer = "good"
    <3>1. turns' = Append(turns, TurnOf(Count, signal, cost))
      BY <1>1, <2>1 DEF TurnLands
    <3>2. TurnOf(Count, signal, cost) \in Turn
      <4>1. Count > 0
        BY <1>2 DEF OpenStage
      <4>2. Count \in 1..MaxStages /\ Latest \in Stage
        BY <4>1, LatestIs
      <4>3. QED
        BY <4>2, SignalTyped, StageAssumption DEF TurnOf, Turn, Stage
    <3>3. /\ Len(turns') = Len(turns) + 1 /\ Len(turns) \in Nat
          /\ \A t \in 1..Len(turns) : turns'[t] = turns[t]
          /\ turns'[Len(turns) + 1] = TurnOf(Count, signal, cost)
      BY <3>1, <3>2 DEF TypeOK
    <3>4. TurnOf(Count, signal, cost).cost = cost
      BY DEF TurnOf
    <3>5. QED
      BY <1>5, <3>3, <3>4
  <2>2. CASE host.writer # "good"
    BY <1>1, <1>5, <2>2 DEF TurnLands
  <2>3. QED
    BY <2>1, <2>2
<1>7. ~Unavailable /\ Recorded < MaxProvider /\ Recorded \in Nat
  BY <1>2, RecordedIs DEF Spending
<1>8. SpendBounded'
  BY <1>1, <1>5, <1>7, StageAssumption DEF SpendBounded
<1>9. QED
  BY <1>1, <1>2, <1>3, <1>4, <1>5, <1>6, <1>7, <1>8 DEF Spending

LEMMA SpendTurnFails ==
  ASSUME TypeOK, IndInv, Spending, TurnFails
  PROVE  Spending'
<1>1. PICK cost \in 0..TurnCost, usage \in {Unknown} \cup 0..TurnCost, slip \in Slips,
           visible \in BOOLEAN, signal \in SignalOf(Latest.kind) :
        /\ usage \in {Unknown, cost}
        /\ turns' = IF visible THEN Append(turns, TurnOf(Count, signal, cost)) ELSE turns
        /\ host' = [host EXCEPT !.pc = "failing", !.writer = slip[1], !.usage = usage]
        /\ spent' = spent + cost
  BY DEF TurnFails, session
<1>2. host.pc = "prompting" /\ OpenStage /\ UNCHANGED ledger
  BY DEF TurnFails, IndInv, HostPlace, ledger, session
<1>3. /\ Count' = Count /\ Recorded' = Recorded /\ (Unavailable' <=> Unavailable)
      /\ (OpenStage' <=> OpenStage)
  BY <1>2 DEF Count, Recorded, Unavailable, OpenStage, Latest, ledger
<1>4. host'.pc = "failing" /\ host'.usage = usage
  BY <1>1 DEF TypeOK
<1>5. spent = Recorded /\ \A t \in 1..Len(turns) : turns[t].stage # Count
  BY <1>2 DEF Spending
<1>6. \A t \in 1..Len(turns') : turns'[t].stage = Count => turns'[t].cost = cost
  <2>1. CASE ~visible
    BY <1>1, <1>5, <2>1
  <2>2. CASE visible
    <3>1. TurnOf(Count, signal, cost) \in Turn
      <4>1. Count > 0
        BY <1>2 DEF OpenStage
      <4>2. Count \in 1..MaxStages /\ Latest \in Stage
        BY <4>1, LatestIs
      <4>3. QED
        BY <4>2, SignalTyped, StageAssumption DEF TurnOf, Turn, Stage
    <3>2. turns' = Append(turns, TurnOf(Count, signal, cost))
      BY <1>1, <2>2
    <3>3. /\ Len(turns') = Len(turns) + 1 /\ Len(turns) \in Nat
          /\ \A t \in 1..Len(turns) : turns'[t] = turns[t]
          /\ turns'[Len(turns) + 1] = TurnOf(Count, signal, cost)
      BY <3>1, <3>2 DEF TypeOK
    <3>4. TurnOf(Count, signal, cost).cost = cost
      BY DEF TurnOf
    <3>5. QED
      BY <1>5, <3>3, <3>4
  <2>3. QED
    BY <2>1, <2>2
<1>7. ~Unavailable /\ Recorded < MaxProvider /\ Recorded \in Nat
  BY <1>2, RecordedIs DEF Spending
<1>8. SpendBounded'
  BY <1>1, <1>5, <1>7, StageAssumption DEF SpendBounded
<1>9. QED
  BY <1>1, <1>2, <1>3, <1>4, <1>5, <1>6, <1>7, <1>8 DEF Spending

LEMMA SpendOther ==
  ASSUME TypeOK, IndInv, Spending, OtherTurn
  PROVE  Spending'
<1> DEFINE other == TurnOf(0, "none", 0)
<1>1. host.pc = "idle" /\ UNCHANGED <<ledger, spent>>
  BY DEF OtherTurn
<1>2. other \in Turn /\ other.stage = 0
  BY StageAssumption DEF TurnOf, Turn, Signal
<1> HIDE DEF other
<1>3. turns' = Append(turns, other) \/ turns' = turns
  BY DEF OtherTurn, TurnLands, other
<1>4. host'.pc = "idle"
  BY <1>1, HostTurn DEF OtherTurn, HostState
<1>5. CASE turns' = turns
  BY <1>1, <1>4, <1>5, SpendSame DEF ledger
<1>6. CASE turns' = Append(turns, other)
  <2>1. /\ Len(turns') = Len(turns) + 1 /\ Len(turns) \in Nat
        /\ \A t \in 1..Len(turns) : turns'[t] = turns[t]
        /\ turns'[Len(turns) + 1].stage = 0
    BY <1>2, <1>6 DEF TypeOK
  <2>2. /\ Count' = Count /\ Recorded' = Recorded /\ (Unavailable' <=> Unavailable)
        /\ (OpenStage' <=> OpenStage)
    BY <1>1 DEF Count, Recorded, Unavailable, OpenStage, Latest, ledger
  <2>3. OpenStage => Count # 0
    BY DEF OpenStage
  <2>4. QED
    BY <1>1, <1>4, <2>1, <2>2, <2>3 DEF Spending, SpendBounded
<1>7. QED
  BY <1>3, <1>5, <1>6

LEMMA SpendRecord ==
  ASSUME TypeOK, IndInv, Spending, SessionRecord
  PROVE  Spending'
<1>1. PICK slip \in Slips : host' = [host EXCEPT !.writer = slip[1]]
  BY DEF SessionRecord
<1>2. host'.pc = host.pc /\ host'.usage = host.usage
  BY <1>1, HostTurn DEF HostState
<1>3. UNCHANGED <<stages, turns, spent>>
  BY DEF SessionRecord, ledger
<1>4. QED
  BY <1>2, <1>3, SpendSame

LEMMA SpendCrash ==
  ASSUME TypeOK, IndInv, Spending, CrashAndResume
  PROVE  Spending'
<1>1. PICK cost \in 0..TurnCost : (host.pc # "prompting" => cost = 0) /\ spent' = spent + cost
  BY DEF CrashAndResume, session
<1>2. host'.pc = "idle" /\ UNCHANGED <<stages, turns>>
  BY DEF CrashAndResume, TypeOK, ledger, session
<1>3. /\ Count' = Count /\ Recorded' = Recorded /\ (Unavailable' <=> Unavailable)
      /\ (OpenStage' <=> OpenStage)
  BY <1>2 DEF Count, Recorded, Unavailable, OpenStage, Latest
<1>4. CASE host.pc # "prompting"
  <2>1. spent' = spent
    BY <1>1, <1>4 DEF TypeOK
  <2>2. QED
    BY <1>2, <2>1, SpendSame
<1>5. CASE host.pc = "prompting"
  <2>1. OpenStage
    BY <1>5 DEF IndInv, HostPlace
  <2>2. /\ spent = Recorded /\ ~Unavailable /\ Recorded < MaxProvider /\ Recorded \in Nat
        /\ \A t \in 1..Len(turns) : turns[t].stage # Count
    BY <1>5, <2>1, RecordedIs DEF Spending
  <2>3. SpendBounded'
    BY <1>1, <2>2, StageAssumption DEF SpendBounded
  <2>4. QED
    BY <1>2, <1>3, <2>1, <2>2, <2>3 DEF Spending
<1>6. QED
  BY <1>4, <1>5

LEMMA CommittedCost ==
  ASSUME TypeOK, Spending, OpenStage, Latest.base # NoBase, NEW t, Fits(Latest, Count, t),
         Committed(Latest, t) \in Stage
  PROVE  spent = Recorded + Committed(Latest, t).cost
<1>1. t \in 1..Len(turns) /\ turns[t].stage = Count
  BY DEF Fits
<1>2. Committed(Latest, t).cost = turns[t].cost
  <2>1. Latest \in Stage
    BY LatestIs DEF OpenStage
  <2>2. QED
    BY <2>1 DEF Committed, Stage
<1>3. QED
  BY <1>1, <1>2 DEF Spending

LEMMA SpendHost ==
  ASSUME TypeOK, IndInv, Spending, HostStep
  PROVE  Spending'
<1> USE DEF ledger
<1>1. ASSUME NEW kind \in Kind, StartStage(kind) PROVE Spending'
  <2>1. CanStart /\ UNCHANGED <<turns, spent>>
    BY <1>1 DEF StartStage, session
  <2>2. \/ stages' = stages /\ host'.pc = "idle"
        \/ stages' = Append(stages, Opened(kind, host.seen)) /\ host'.pc \in {"idle", "prompting"}
    BY <1>1, WriteIs DEF StartStage, HostPc, session
  <2>3. Opened(kind, host.seen) \in Stage /\ Opened(kind, host.seen).end = "open"
    BY OpenedIs DEF TypeOK, Opened
  <2>4. QED
    BY <2>1, <2>2, <2>3, SpendSame, SpendOpens
<1>2. CASE TurnCommits \/ TurnFails \/ OtherTurn \/ SessionRecord \/ CrashAndResume
  BY <1>2, SpendTurnCommits, SpendTurnFails, SpendOther, SpendRecord, SpendCrash
<1>3. CASE CommitStage
  <2>1. /\ host.pc # "idle" /\ OpenStage /\ Latest.child = None /\ Latest.base # NoBase
        /\ UNCHANGED <<turns, spent>>
    BY <1>3 DEF CommitStage, IndInv, HostPlace, session
  <2>2. Count > 0 /\ Latest.signal = "none"
    BY <2>1, OpenIs DEF IndInv
  <2>3. CASE Readable /\ Fits(Latest, Count, host.seen)
    <3>1. /\ Committed(Latest, host.seen) \in Stage
          /\ Committed(Latest, host.seen).end = "committed"
      BY <2>1, <2>2, <2>3, CommittedFits
    <3>2. spent = Recorded + Committed(Latest, host.seen).cost
      BY <2>1, <2>3, <3>1, CommittedCost
    <3>3. /\ stages' = stages \/ stages' = Update(Committed(Latest, host.seen))
          /\ host'.pc \in {"idle", "signalling"}
      BY <1>3, <2>3, WriteIs DEF CommitStage, HostPc, session
    <3>4. QED
      BY <2>1, <3>1, <3>2, <3>3, SpendSame, SpendSettles
  <2>4. CASE ~(Readable /\ Fits(Latest, Count, host.seen))
    BY <1>3, <2>1, <2>4, HostIdle, SpendSame DEF CommitStage, session
  <2>5. QED
    BY <2>3, <2>4
<1>4. CASE FailStage
  <2>1. /\ OpenStage /\ Latest.child = None /\ host.pc = "failing"
        /\ UNCHANGED <<turns, spent>>
    BY <1>4 DEF FailStage, IndInv, HostPlace, session
  <2>2. Failed(Latest, host.usage) \in Stage /\ Failed(Latest, host.usage).end = "failed"
    BY <2>1, FailedFits DEF TypeOK
  <2>3. Failed(Latest, host.usage).cost = host.usage
    BY <2>1, LatestIs DEF Failed, OpenStage, Stage
  <2>4. host.usage # Unknown => spent = Recorded + host.usage
    BY <2>1 DEF Spending
  <2>5. /\ stages' = stages \/ stages' = Update(Failed(Latest, host.usage))
        /\ host'.pc = "idle"
    BY <1>4, WriteIs DEF FailStage, HostPc, session
  <2>6. QED
    BY <2>1, <2>2, <2>3, <2>4, <2>5, SpendSame, SpendSettles
<1>5. CASE RecordSignal
  <2>1. /\ host.pc # "idle" /\ Latest.end = "committed" /\ UNCHANGED <<turns, spent>>
    BY <1>5 DEF RecordSignal, IndInv, HostPlace, session
  <2>2. Count > 0 /\ Fitting(Latest) /\ Latest \in Stage
    BY <2>1, BusyHolds, LatestFits, LatestIs DEF IndInv
  <2>3. Proposal \in Signal
    <3>1. turns[Latest.turn] \in Turn
      BY <2>1, <2>2, TurnTyped DEF Fitting
    <3>2. QED
      BY <3>1 DEF Proposal, Turn
  <2> DEFINE s == [Latest EXCEPT !.signal = Proposal]
  <2>4. s \in Stage /\ s.end = Latest.end /\ s.cost = Latest.cost
    BY <2>2, <2>3 DEF Stage
  <2>5. /\ stages' = stages \/ stages' = Update(s)
        /\ host'.pc \in {"idle", "completing"}
    <3>1. CASE Acceptable
      BY <1>5, <3>1, WriteIs DEF RecordSignal, HostPc, session
    <3>2. CASE ~Acceptable
      BY <1>5, <3>2, HostIdle DEF RecordSignal, session
    <3>3. QED
      BY <3>1, <3>2
  <2> HIDE DEF s
  <2>6. QED
    BY <2>1, <2>2, <2>4, <2>5, SpendSame, SpendKept
<1>6. CASE RecoverStage
  <2>1. OpenStage /\ Latest.child = None /\ UNCHANGED <<turns, spent>>
    BY <1>6 DEF RecoverStage, session
  <2>2. Count > 0 /\ Latest.signal = "none" /\ Latest \in Stage
    BY <2>1, OpenIs, LatestIs DEF IndInv
  <2>3. CASE WriteStages(Update(Failed(Latest, Unknown)), "idle")
    <3>1. Failed(Latest, Unknown) \in Stage /\ Failed(Latest, Unknown).end = "failed"
      BY <2>1, FailedFits
    <3>2. Failed(Latest, Unknown).cost = Unknown
      BY <2>2 DEF Failed, Stage
    <3>3. /\ stages' = stages \/ stages' = Update(Failed(Latest, Unknown))
          /\ host'.pc = "idle"
      BY <2>3, WriteIs DEF HostPc
    <3>4. QED
      BY <2>1, <3>1, <3>2, <3>3, SpendSame, SpendSettles
  <2>4. ASSUME NEW t \in Matches, Fits(Latest, Count, t),
               WriteStages(Update(Committed(Latest, t)), "reconciling")
        PROVE  Spending'
    <3>1. Latest.base # NoBase
      BY <2>4 DEF Matches
    <3>2. Committed(Latest, t) \in Stage /\ Committed(Latest, t).end = "committed"
      BY <2>1, <2>2, <2>4, <3>1, CommittedFits
    <3>3. spent = Recorded + Committed(Latest, t).cost
      BY <2>1, <2>4, <3>1, <3>2, CommittedCost
    <3>4. /\ stages' = stages \/ stages' = Update(Committed(Latest, t))
          /\ host'.pc \in {"idle", "reconciling"}
      BY <2>4, WriteIs DEF HostPc
    <3>5. QED
      BY <2>1, <3>2, <3>3, <3>4, SpendSame, SpendSettles
  <2>5. QED
    BY <1>6, <2>3, <2>4 DEF RecoverStage, session
<1>7. CASE \/ RecoverSignal \/ VerifyHost
           \/ \E c \in HumanCriterion : VerifyHuman(c)
  <2>1. host'.pc \in {"reconciling", "idle", "completing"} /\ UNCHANGED <<stages, turns, spent>>
    BY <1>7 DEF RecoverSignal, VerifyHost, VerifyHuman, TypeOK, session
  <2>2. QED
    BY <2>1, SpendSame
<1>8. CASE AutoComplete \/ Terminated \/ Complete
  <2>1. UNCHANGED <<stages, turns, spent>> /\ (host'.pc = "idle" \/ host' = host)
    BY <1>8, HostIdle DEF AutoComplete, Terminated, Complete, session
  <2>2. QED
    BY <2>1, SpendSame
<1>9. ASSUME NEW outcome \in {"cancelled", "failed"}, GiveUp(outcome) PROVE Spending'
  <2>1. UNCHANGED <<turns, spent>>
    BY <1>9 DEF GiveUp, session
  <2>2. CASE OpenStage
    <3>1. Latest.child = None /\ Count > 0
      BY <1>9, <2>2 DEF GiveUp, OpenStage, session
    <3>2. Failed(Latest, Unknown) \in Stage /\ Failed(Latest, Unknown).end = "failed"
      BY <2>2, <3>1, FailedFits
    <3>3. Failed(Latest, Unknown).cost = Unknown
      BY <3>1, LatestIs DEF Failed, Stage
    <3>4. /\ stages' = stages \/ stages' = Update(Failed(Latest, Unknown))
          /\ host'.pc \in {"idle", "cancelled", "failed"}
      BY <1>9, <2>2, WriteIs DEF GiveUp, HostPc, session
    <3>5. QED
      BY <2>1, <2>2, <3>2, <3>3, <3>4, SpendSame, SpendSettles
  <2>3. CASE ~OpenStage
    BY <1>9, <2>1, <2>3, SpendSame DEF GiveUp, session
  <2>4. QED
    BY <2>2, <2>3
<1>10. QED
  BY <1>1, <1>2, <1>3, <1>4, <1>5, <1>6, <1>7, <1>8, <1>9 DEF HostStep, session

LEMMA SpendBridge ==
  ASSUME TypeOK, IndInv, Spending, BridgeStep
  PROVE  Spending'
<1> USE DEF ledger
<1>1. ASSUME NEW b \in Bridge, BridgeStart(b) PROVE Spending'
  <2>1. /\ CanStart /\ UNCHANGED <<turns, spent, host>> /\ host.pc = "idle"
        /\ stages' = Append(stages, Opened("execution", NoBase))
    BY <1>1, FreeIs DEF BridgeStart, session
  <2>2. Opened("execution", NoBase) \in Stage /\ Opened("execution", NoBase).end = "open"
    BY OpenedIs DEF Kind, Opened
  <2>3. QED
    BY <2>1, <2>2, SpendOpens
<1>2. ASSUME NEW b \in Bridge, BridgeDelegate(b) PROVE Spending'
  <2> DEFINE s == [Latest EXCEPT !.child = bridge[b].child]
  <2>1. /\ Inside(b) /\ OpenStage /\ bridge[b].child \in Child \cup {None}
        /\ stages' = Update(s) /\ UNCHANGED <<turns, spent, host>>
    BY <1>2 DEF BridgeDelegate, IndInv, BridgePlace, Inside, TypeOK, session
  <2>2. host.pc = "idle" /\ Count > 0
    BY <2>1 DEF IndInv, Locked, OpenStage
  <2>3. s \in Stage /\ s.end = Latest.end /\ s.cost = Latest.cost
    BY <2>1, <2>2, LatestIs DEF Stage
  <2> HIDE DEF s
  <2>4. QED
    BY <2>1, <2>2, <2>3, SpendKept
<1>3. ASSUME NEW b \in Bridge, Settle(b) PROVE Spending'
  <2>1. UNCHANGED <<turns, spent, host>> /\ host.pc = "idle"
    BY <1>3, FreeIs DEF Settle, session
  <2>2. CASE OpenStage /\ Latest.child # None
    <3> DEFINE s == External(Latest, bridge[b].child, bridge[b].good)
    <3>1. /\ Latest \in Stage /\ bridge[b].child \in Child \cup {None}
          /\ Fitting(Latest) /\ Latest.cost = Unknown
      BY <2>2, LatestIs, LatestFits DEF OpenStage, TypeOK, IndInv, Fitting
    <3>2. s \in Stage /\ s.end # "open" /\ s.cost = Unknown
      BY <3>1 DEF External, Stage
    <3>3. stages' = Update(s)
      BY <1>3, <2>2 DEF Settle, session
    <3> HIDE DEF s
    <3>4. QED
      BY <2>1, <2>2, <3>2, <3>3, SpendSettles
  <2>3. CASE ~(OpenStage /\ Latest.child # None)
    BY <1>3, <2>1, <2>3, SpendSame DEF Settle, session
  <2>4. QED
    BY <2>2, <2>3
<1>4. CASE \/ \E b \in Bridge : BridgeStops(b) \/ Observe(b) \/ (\E c \in Child : BridgeCreate(b, c))
           \/ \E c \in Child : ChildEnds(c)
  <2>1. UNCHANGED <<stages, turns, spent, host>>
    BY <1>4 DEF BridgeStops, Observe, BridgeCreate, ChildEnds, session
  <2>2. QED
    BY <2>1, SpendSame
<1>5. QED
  BY <1>1, <1>2, <1>3, <1>4 DEF BridgeStep

\* However many appends fail and processes die, the Provider invocations made
\* for a Task pass its ceiling by less than one Turn (_budget_exhaustion).
THEOREM SpendStaysBounded == Spec => []SpendBounded
<1>1. Init => Spending
  <2>1. SUFFICES ASSUME Init PROVE Spending
    OBVIOUS
  <2>2. Count = 0 /\ TypeOK
    BY <2>1, InitHolds DEF Init, Count
  <2>3. ~OpenStage /\ host.pc = "idle" /\ spent = 0
    BY <2>1, <2>2 DEF Init, OpenStage
  <2>4. Recorded = 0
    <3>1. PICK f \in [0..Len(stages) -> Nat] :
            SumOf(Len(stages), ChargesOf(stages), f) /\ Total(stages) = f[Len(stages)]
      BY <2>2, TotalIs DEF TypeOK
    <3>2. f[0] = 0
      BY <2>2, <3>1 DEF SumOf, Count
    <3>3. QED
      BY <2>2, <3>1, <3>2, RecordedIs DEF Count
  <2>5. QED
    BY <2>2, <2>3, <2>4, StageAssumption DEF Spending, SpendBounded
<1>2. TypeOK /\ IndInv /\ Spending /\ [Next]_vars => Spending'
  <2>1. SUFFICES ASSUME TypeOK, IndInv, Spending, [Next]_vars PROVE Spending'
    OBVIOUS
  <2>2. CASE UNCHANGED vars
    BY <2>1, <2>2, SpendSame DEF vars, session, ledger
  <2>3. QED
    BY <2>1, <2>2, SpendHost, SpendBridge DEF Next
<1>3. Spending => SpendBounded
  BY DEF Spending
<1>4. QED
  BY <1>1, <1>2, <1>3, Inductive, PTL DEF Spec
=============================================================================
