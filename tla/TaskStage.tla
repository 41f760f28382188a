----------------------------- MODULE TaskStage -----------------------------
(***************************************************************************)
(* One durable Task and the three ledgers that must agree about it:         *)
(* TaskStore's Stages, the owner Session's committed Turns, and the Child   *)
(* Runs some Stages are delegated to.                                       *)
(*                                                                         *)
(* A Stage is started in the Task ledger, worked on in another ledger (one  *)
(* ordinary Turn of the Session, or one Child Run), and settled in the Task *)
(* ledger again.  Nothing makes the appends atomic: the process may die     *)
(* between them, an append may fail after its record became visible, and    *)
(* several bridge callers observe the same Stage.  The exclusive lock of    *)
(* the Task is held from TaskStore.open to release; reading needs no lock,  *)
(* so what a bridge caller decided may be stale when it writes, and reading *)
(* the Session fails while its transcript is not a whole one.               *)
(***************************************************************************)
EXTENDS Integers, Sequences, FiniteSets, SequencesExt

CONSTANTS Bridge,          \* callers of TaskOrchestrationService
          Child,           \* identities ChildRunStore.create can hand out
          None,            \* no Child
          HostCriterion,   \* criteria the Host or a reviewer checks
          HumanCriterion,  \* criteria a person verifies
          AutoVerified,    \* TaskCompletionPolicy.AUTO_VERIFIED
          MaxStages,       \* TaskBudget.max_stages
          MaxProvider,     \* TaskBudget.max_provider_invocations
          TurnCost,        \* Provider invocations one Turn may make
          MaxTurns         \* model bound: Turns of the Session

ASSUME StageAssumption ==
  /\ None \notin Child
  /\ AutoVerified \in BOOLEAN
  /\ MaxStages \in Nat \ {0}
  /\ MaxProvider \in Nat \ {0}
  /\ TurnCost \in Nat \ {0}
  /\ MaxTurns \in Nat

VARIABLES stages,    \* the Task ledger's Stages, in order
          terminal,  \* its task_terminated record
          verified,  \* {<<Stage number, criterion>>} of task_acceptance_verified
          failed,    \* {<<Stage number, criterion>>} whose latest check failed
          turns,     \* the owner Session's durable Turns, in order
          transcript,\* what the Session's transcript is behind them
          host,      \* the process that holds the owner Session
          bridge,    \* what each bridge caller has read and has yet to write
          child,     \* status of every Child Run
          spent      \* Provider invocations really made for the Task's Stages

ledger == <<stages, terminal, verified, failed>>
session == <<turns, transcript>>
vars == <<ledger, session, host, bridge, child, spent>>

-----------------------------------------------------------------------------
(* Records.                                                                *)

Criterion == HostCriterion \cup HumanCriterion
Kind == {"planning", "execution", "reflection", "correction"}
Recommendation == {"continue", "correction", "revise", "stop"}
Signal == {"none", "plan", "completion", "blocked"} \cup Recommendation

\* What the Turn of a Stage may end with: a proposal its control tools allow,
\* or nothing the protocol accepts.
SignalOf(kind) ==
  {"none", "blocked"} \cup
    CASE kind = "planning"   -> {"plan"}
      [] kind = "reflection" -> Recommendation
      [] OTHER               -> {"completion"}

Unknown == -1      \* usage is None
NoBase == -1       \* a Stage started without Session baseline and prompt digest

Stage == [kind     : Kind,
          base     : {NoBase} \cup 0..MaxTurns,   \* Turns before it started
          child    : Child \cup {None},           \* its delegation
          end      : {"open", "committed", "failed", "external", "refused"},
          turn     : 0..MaxTurns,                 \* evidence of a commit
          evidence : Child \cup {None},           \* evidence of an external end
          cost     : {Unknown} \cup 0..TurnCost,  \* recorded usage
          signal   : Signal]                      \* the proposal recorded after it

\* A Turn remembers whose prompt it answers (0: not a Stage's), which stands for
\* the digest of its user message: the prompt holds Task and Stage number.
Turn == [stage : 0..MaxStages, signal : Signal, cost : 0..TurnCost]

Opened(kind, base) ==
  [kind |-> kind, base |-> base, child |-> None, end |-> "open", turn |-> 0,
   evidence |-> None, cost |-> Unknown, signal |-> "none"]

Count == Len(stages)
Latest == stages[Count]
OpenStage == Count > 0 /\ Latest.end = "open"
Update(stage) == [stages EXCEPT ![Count] = stage]

(* _budget_exhaustion: a settled Stage without usage blocks every later one. *)
Charged(stage) == stage.end # "open" /\ stage.cost # Unknown
\* Mutant: only a failed Stage counts as one without usage.
UnavailableIfFailed ==
  \E n \in 1..Count : stages[n].end = "failed" /\ stages[n].cost = Unknown
Unavailable == \E n \in 1..Count : stages[n].end # "open" /\ stages[n].cost = Unknown
Recorded ==
  LET sum[n \in 0..Count] ==
        IF n = 0 THEN 0
        ELSE sum[n - 1] + IF Charged(stages[n]) THEN stages[n].cost ELSE 0
  IN sum[Count]
\* Mutant: the number of Stages is not a ceiling.
ExhaustedByUse == Unavailable \/ Recorded >= MaxProvider
Exhausted == Count >= MaxStages \/ Unavailable \/ Recorded >= MaxProvider

(* current_completion_proposal and verified_criteria. *)
Proposed == Count > 0 /\ Latest.end = "committed" /\ Latest.signal = "completion"
Verified(c) == <<Count, c>> \in verified
AllVerified == Proposed /\ \A c \in Criterion : Verified(c)

(* The transcript lock: whoever is inside TaskStore.open .. release holds it. *)
Free == host.pc = "idle" /\ \A b \in Bridge : bridge[b].pc \notin {"started", "created"}

Idle == [pc |-> "idle", child |-> None, good |-> FALSE]

Init ==
  /\ stages = <<>> /\ terminal = "none" /\ verified = {} /\ failed = {}
  /\ turns = <<>>
  /\ transcript = "whole"
  /\ host = [pc |-> "idle", seen |-> 0, writer |-> "good", usage |-> Unknown]
  /\ bridge = [b \in Bridge |-> Idle]
  /\ child = [c \in Child |-> "absent"]
  /\ spent = 0

-----------------------------------------------------------------------------
(* The Session as its process and its readers see it (SessionLedger has the *)
(* records).  Its transcript is whole, or ends in a torn record, which the  *)
(* next resume cuts, or in a record without its newline, or has an illegal  *)
(* line; nobody resumes or reads the last two.                             *)

Tails == {"whole", "torn", "bare", "corrupt"}
Readable == transcript = "whole"
Lost == transcript \in {"bare", "corrupt"}

\* The writer is usable and knows its file, poisoned by a failed append, or
\* left behind its file, still usable, by an interrupted one; the Session may
\* not be open at all.
Usable == host.writer \in {"good", "behind"}

\* What a usable writer's appends leave when they fail or are interrupted, and
\* what one behind its file appends: a complete record behind one it does not
\* know is illegal, a piece behind a line without its end is torn.
Ends == CASE transcript = "whole"   -> Tails
          [] transcript = "torn"    -> {"torn", "corrupt"}
          [] transcript = "bare"    -> {"bare", "torn", "corrupt"}
          [] transcript = "corrupt" -> {"corrupt"}
Slips == {<<host.writer, transcript>>}
           \cup IF Usable THEN {"sick", "behind"} \X Ends ELSE {}

\* A Turn that the process sees committed: of a writer behind its file, nobody
\* will ever read it.
TurnLands(turn) ==
  IF host.writer = "good"
  THEN turns' = Append(turns, turn) /\ transcript' = transcript
  ELSE turns' = turns /\ transcript' = "corrupt"

\* Any record but a Turn, for a hook handler, a name, a compaction or a tool,
\* that does not become what its writer takes it for.
SessionRecord ==
  /\ \E slip \in Slips : host' = [host EXCEPT !.writer = slip[1]] /\ transcript' = slip[2]
  /\ UNCHANGED <<ledger, turns, bridge, child, spent>>

-----------------------------------------------------------------------------
(* An append to the Task transcript: it returns after the fsync, or it      *)
(* raises TaskAppendCommitError and the record may be there or not; the     *)
(* writer is then released.                                                *)

Outcome == {"done", "unsure", "lost"}
WriteStages(new, next) ==
  \E out \in Outcome :
    /\ stages' = IF out = "lost" THEN stages ELSE new
    /\ host' = [host EXCEPT !.pc = IF out = "done" THEN next ELSE "idle",
                            !.usage = Unknown]

(* Starting a Stage: continue_task, plan_task or revise_task_plan,          *)
(* reflect_task and correct_task ask for different things first.            *)
CanStart == terminal = "none" /\ ~OpenStage /\ ~Exhausted
Asked(kind) ==
  CASE kind = "planning"   -> Count + 1 < MaxStages
    [] kind = "reflection" -> Proposed /\ \E c \in Criterion : <<Count, c>> \in failed
    [] kind = "correction" -> Count > 0 /\ Latest.signal = "correction"
    [] OTHER               -> TRUE

\* The Stage is durable before any Provider work.  The append may fail after
\* it, or a hook handler for the start may: the Stage is then left open.
StartStage(kind) ==
  /\ host.pc = "idle" /\ Free /\ host.writer # "gone"
  /\ CanStart /\ Asked(kind)
  /\ WriteStages(Append(stages, Opened(kind, host.seen)), "prompting")
  /\ UNCHANGED <<terminal, verified, failed, session, bridge, child, spent>>

(* The Turn of the Stage.                                                  *)

TurnOf(n, signal, cost) == [stage |-> n, signal |-> signal, cost |-> cost]

\* The Turn is durable and the Session knows it; prompt may still raise after
\* that (extraction of memories, a hook handler).
TurnCommits ==
  /\ host.pc = "prompting" /\ Usable /\ host.seen < MaxTurns
  /\ \E signal \in SignalOf(Latest.kind), cost \in 1..TurnCost,
        next \in {"committed", "raising"} :
       /\ TurnLands(TurnOf(Count, signal, cost))
       /\ host' = [host EXCEPT !.pc = next, !.seen = @ + 1]
       /\ spent' = spent + cost
  /\ UNCHANGED <<ledger, bridge, child>>

\* Nothing was committed, as far as this process knows.  A failed append of the
\* Turn, or one that an interruption left, may be in the transcript, and
\* turn_failed behind it.  The usage is captured, or an error came too early.
TurnFails ==
  /\ host.pc = "prompting"
  /\ \E cost \in 0..TurnCost, usage \in {Unknown} \cup 0..TurnCost, slip \in Slips,
        visible \in BOOLEAN, signal \in SignalOf(Latest.kind) :
       /\ usage \in {Unknown, cost}
       /\ visible => /\ host.writer = "good" /\ slip[1] # "good"
                     /\ cost > 0 /\ Len(turns) < MaxTurns
       /\ ~visible => signal = "none"
       /\ turns' = IF visible THEN Append(turns, TurnOf(Count, signal, cost)) ELSE turns
       /\ transcript' = slip[2]
       /\ host' = [host EXCEPT !.pc = "failing", !.writer = slip[1], !.usage = usage]
       /\ spent' = spent + cost
  /\ UNCHANGED <<ledger, bridge, child>>

(* commit_stage and recover_stage read the Turn back from the transcript and *)
(* check it against the start of the Stage.                                 *)
Fits(stage, n, t) ==
  /\ t \in 1..Len(turns)
  /\ stage.base # NoBase => t = stage.base + 1 /\ turns[t].stage = n
\* Mutant: the evidence is the Session's latest Turn.
CommittedLatest(stage, t) ==
  [stage EXCEPT !.end = "committed", !.turn = Len(turns), !.cost = turns[Len(turns)].cost]
Committed(stage, t) ==
  [stage EXCEPT !.end = "committed", !.turn = t, !.cost = turns[t].cost]
\* Mutant: usage that is not known counts as none.
FailedForFree(stage, usage) ==
  [stage EXCEPT !.end = "failed", !.cost = IF usage = Unknown THEN 0 ELSE usage]
Failed(stage, usage) == [stage EXCEPT !.end = "failed", !.cost = usage]

CommitStage ==
  /\ host.pc \in {"committed", "raising"}
  /\ IF Readable /\ Fits(Latest, Count, host.seen)
     THEN WriteStages(Update(Committed(Latest, host.seen)),
                      IF host.pc = "committed" THEN "signalling" ELSE "idle")
     ELSE host' = [host EXCEPT !.pc = "idle"] /\ stages' = stages
  /\ UNCHANGED <<terminal, verified, failed, session, bridge, child, spent>>

FailStage ==
  /\ host.pc = "failing"
  /\ WriteStages(Update(Failed(Latest, host.usage)), "idle")
  /\ UNCHANGED <<terminal, verified, failed, session, bridge, child, spent>>

-----------------------------------------------------------------------------
(* The proposal of the committed Turn, recorded after the Stage.            *)

\* Recovery attributes a plan to the latest "revise" advice, which replay
\* accepts only right before the planning Stage.
Numbers(signals) == {n \in 1..Count : stages[n].signal \in signals}
StaleAdvice ==
  /\ host.pc = "reconciling"
  /\ Numbers({"plan"}) # {}
  /\ LET advice == Numbers(Recommendation)
     IN advice # {} /\ stages[Max(advice)].signal = "revise" /\ Max(advice) # Count - 1
Proposal == turns[Latest.turn].signal
Acceptable == /\ host.pc = "reconciling" => Readable
              /\ Proposal # "none" /\ ~(Proposal = "plan" /\ StaleAdvice)

\* Mutant: a verification made for an earlier proposal counts.
AutoCompletesEver(seen) ==
  AutoVerified /\ \A c \in Criterion : \E n \in 1..Count : <<n, c>> \in seen
AutoCompletes(seen) ==
  AutoVerified /\ \A c \in Criterion : <<Count, c>> \in seen

RecordSignal ==
  /\ host.pc \in {"signalling", "reconciling"}
  /\ IF Acceptable
     THEN WriteStages(Update([Latest EXCEPT !.signal = Proposal]),
                      IF Proposal = "completion" /\ AutoCompletes(verified)
                      THEN "completing" ELSE "idle")
     ELSE host' = [host EXCEPT !.pc = "idle"] /\ stages' = stages
  /\ UNCHANGED <<terminal, verified, failed, session, bridge, child, spent>>

(* recover_task: settle the open Stage from what the Session holds, then    *)
(* record a proposal that is missing.  No Provider is called.               *)
Matches ==
  IF Latest.base = NoBase THEN {}
  ELSE {t \in 1..Len(turns) : t > Latest.base /\ turns[t].stage = Count}

RecoverStage ==
  /\ host.pc = "idle" /\ Free
  /\ OpenStage /\ Latest.child = None
  /\ Readable \/ Latest.base = NoBase
  /\ \/ /\ Matches = {}
        /\ WriteStages(Update(Failed(Latest, Unknown)), "idle")
     \/ \E t \in Matches :
          /\ Matches = {t} /\ Fits(Latest, Count, t)
          /\ WriteStages(Update(Committed(Latest, t)), "reconciling")
  /\ UNCHANGED <<terminal, verified, failed, session, bridge, child, spent>>

RecoverSignal ==
  /\ host.pc = "idle" /\ Free
  /\ terminal = "none" /\ Count > 0
  /\ Latest.end = "committed" /\ Latest.signal = "none"
  /\ host' = [host EXCEPT !.pc = "reconciling"]
  /\ UNCHANGED <<ledger, session, bridge, child, spent>>

-----------------------------------------------------------------------------
(* Acceptance and termination.                                             *)

VerifyHuman(c) ==
  /\ host.pc = "idle" /\ Free
  /\ terminal = "none" /\ Proposed /\ ~Verified(c)
  /\ verified' = verified \cup {<<Count, c>>}
  /\ \E lost \in BOOLEAN :
       host' = [host EXCEPT !.pc =
                  IF ~lost /\ AutoCompletes(verified') THEN "completing" ELSE "idle"]
  /\ UNCHANGED <<stages, terminal, failed, session, bridge, child, spent>>

\* verify_task_host and review_task_acceptance record one check after the
\* other, and after a check that passed its verification; `done` and `kept` are
\* how far they come before the process or an append fails.
VerifyHost ==
  /\ host.pc = "idle" /\ Free
  /\ terminal = "none" /\ Proposed
  /\ LET open == {c \in HostCriterion : ~Verified(c)}
     IN \E done \in SUBSET open : \E passed \in SUBSET done : \E kept \in SUBSET passed :
          /\ Cardinality(passed \ kept) <= 1
          /\ verified' = verified \cup ({Count} \X kept)
          /\ failed' = (failed \cup ({Count} \X (done \ passed))) \ ({Count} \X passed)
          /\ host' = [host EXCEPT !.pc =
                        IF done = open /\ kept = passed /\ AutoCompletes(verified') THEN "completing" ELSE "idle"]
  /\ UNCHANGED <<stages, terminal, session, bridge, child, spent>>

\* _auto_complete_verified_task, under the same lock as the append before it.
AutoComplete ==
  /\ host.pc = "completing"
  /\ terminal' \in {terminal, "completed"}
  /\ host' = [host EXCEPT !.pc = "idle"]
  /\ UNCHANGED <<stages, verified, failed, session, bridge, child, spent>>

Complete ==
  /\ host.pc = "idle" /\ Free
  /\ terminal = "none" /\ ~OpenStage /\ AllVerified
  /\ terminal' = "completed"
  /\ UNCHANGED <<stages, verified, failed, session, host, bridge, child, spent>>

\* cancel_task and fail_task first fail an open Stage; a delegated one is
\* refused by replay.
GiveUp(outcome) ==
  /\ host.pc = "idle" /\ Free
  /\ terminal = "none"
  /\ IF OpenStage
     THEN /\ Latest.child = None
          /\ WriteStages(Update(Failed(Latest, Unknown)), outcome)
          /\ terminal' = terminal
     ELSE terminal' = outcome /\ UNCHANGED <<stages, host>>
  /\ UNCHANGED <<verified, failed, session, bridge, child, spent>>

Terminated ==
  /\ host.pc \in {"cancelled", "failed"}
  /\ terminal' \in {terminal, host.pc}
  /\ host' = [host EXCEPT !.pc = "idle"]
  /\ UNCHANGED <<stages, verified, failed, session, bridge, child, spent>>

-----------------------------------------------------------------------------
(* The Session outside the Task, and the death of its process.              *)

\* Mutant: an append that failed leaves the writer as it was, and the next one
\* goes behind whatever is in the transcript.
OtherTurnUnnoticed ==
  /\ host.pc = "idle" /\ Usable /\ host.seen < MaxTurns /\ Len(turns) < MaxTurns
  /\ TurnLands(TurnOf(0, "none", 0))
  /\ \/ host' = [host EXCEPT !.seen = @ + 1]
     \/ UNCHANGED host
  /\ UNCHANGED <<ledger, bridge, child, spent>>

\* An ordinary prompt; its Turn may become durable without the process
\* knowing it.
OtherTurn ==
  /\ host.pc = "idle" /\ Usable /\ host.seen < MaxTurns
  /\ \/ /\ TurnLands(TurnOf(0, "none", 0))
        /\ host' = [host EXCEPT !.seen = @ + 1]
     \/ /\ host.writer = "good" /\ turns' = Append(turns, TurnOf(0, "none", 0))
        /\ \E slip \in Slips : /\ slip[1] # "good" /\ transcript' = slip[2]
                              /\ host' = [host EXCEPT !.writer = slip[1]]
  /\ UNCHANGED <<ledger, bridge, child, spent>>

\* The process dies, a Turn it was in may have called the Provider; the Session
\* is resumed from its transcript, if that can be read.
CrashAndResume ==
  /\ \E cost \in 0..TurnCost :
       /\ host.pc # "prompting" => cost = 0
       /\ spent' = spent + cost
  /\ transcript' = IF Lost THEN transcript ELSE "whole"
  /\ host' = [host EXCEPT !.pc = "idle", !.seen = Len(turns), !.usage = Unknown,
                          !.writer = IF Lost THEN "gone" ELSE "good"]
  /\ UNCHANGED <<ledger, turns, bridge, child>>

-----------------------------------------------------------------------------
(* The bridge: a Stage worked on by a Child Run.                            *)

\* start_child_stage appends the Stage, creates the Child and appends the
\* delegation, in three durable steps under one lock.
BridgeStart(b) ==
  /\ bridge[b].pc = "idle" /\ Free /\ CanStart
  /\ stages' = Append(stages, Opened("execution", NoBase))
  /\ bridge' = [bridge EXCEPT ![b].pc = "started"]
  /\ UNCHANGED <<terminal, verified, failed, session, host, child, spent>>

BridgeCreate(b, c) ==
  /\ bridge[b].pc = "started"
  /\ child[c] = "absent"
  /\ child' = [child EXCEPT ![c] = "live"]
  /\ bridge' = [bridge EXCEPT ![b] = [@ EXCEPT !.pc = "created", !.child = c]]
  /\ UNCHANGED <<ledger, session, host, spent>>

BridgeDelegate(b) ==
  /\ bridge[b].pc = "created"
  /\ stages' = Update([Latest EXCEPT !.child = bridge[b].child])
  /\ bridge' = [bridge EXCEPT ![b] = Idle]
  /\ UNCHANGED <<terminal, verified, failed, session, host, child, spent>>

\* The caller gives up or dies between two of the steps; what it wrote stays.
BridgeStops(b) ==
  /\ bridge[b].pc # "idle"
  /\ bridge' = [bridge EXCEPT ![b] = Idle]
  /\ UNCHANGED <<ledger, session, host, child, spent>>

\* The Child's own runtime ends it, once.
ChildEnds(c) ==
  /\ child[c] = "live"
  /\ \E status \in {"completed", "stopped"} : child' = [child EXCEPT ![c] = status]
  /\ UNCHANGED <<ledger, session, host, bridge, spent>>

\* observe_child_stage without the lock: the latest Stage is delegated and not
\* settled, its Child is terminal; the handoff may be unavailable.
Observe(b) ==
  /\ bridge[b].pc = "idle" /\ OpenStage /\ Latest.child # None
  /\ child[Latest.child] \in {"completed", "stopped"}
  /\ \E published \in BOOLEAN :
       bridge' = [bridge EXCEPT ![b] =
                    [pc |-> "observed", child |-> Latest.child,
                     good |-> published /\ child[Latest.child] = "completed"]]
  /\ UNCHANGED <<ledger, session, host, child, spent>>

\* _commit_external and _fail_external open the Task again and settle whatever
\* Stage is then active, if it is delegated.
External(stage, c, good) ==
  [stage EXCEPT !.end = IF good THEN "external" ELSE "refused", !.evidence = c]
\* Mutant: the Stage is not read again under the lock.
SettleAnyway(b) ==
  /\ bridge[b].pc = "observed" /\ Free
  /\ bridge' = [bridge EXCEPT ![b] = Idle]
  /\ stages' = Update(External(Latest, bridge[b].child, bridge[b].good))
  /\ UNCHANGED <<terminal, verified, failed, session, host, child, spent>>
Settle(b) ==
  /\ bridge[b].pc = "observed" /\ Free
  /\ bridge' = [bridge EXCEPT ![b] = Idle]
  /\ IF OpenStage /\ Latest.child # None
     THEN stages' = Update(External(Latest, bridge[b].child, bridge[b].good))
     ELSE UNCHANGED stages
  /\ UNCHANGED <<terminal, verified, failed, session, host, child, spent>>

-----------------------------------------------------------------------------
HostStep ==
  \/ \E kind \in Kind : StartStage(kind)
  \/ TurnCommits \/ TurnFails \/ CommitStage \/ FailStage
  \/ RecordSignal \/ RecoverStage \/ RecoverSignal
  \/ \E c \in HumanCriterion : VerifyHuman(c)
  \/ VerifyHost \/ AutoComplete \/ Complete
  \/ \E outcome \in {"cancelled", "failed"} : GiveUp(outcome)
  \/ Terminated \/ OtherTurn \/ SessionRecord \/ CrashAndResume

BridgeStep ==
  \/ \E b \in Bridge :
       \/ BridgeStart(b) \/ BridgeDelegate(b) \/ BridgeStops(b)
       \/ Observe(b) \/ Settle(b)
       \/ \E c \in Child : BridgeCreate(b, c)
  \/ \E c \in Child : ChildEnds(c)

Next == HostStep \/ BridgeStep
Spec == Init /\ [][Next]_vars

-----------------------------------------------------------------------------
(* Types.                                                                  *)
TypeOK ==
  /\ stages \in Seq(Stage) /\ Count <= MaxStages
  /\ terminal \in {"none", "completed", "cancelled", "failed"}
  /\ verified \subseteq (1..MaxStages) \X Criterion
  /\ failed \subseteq (1..MaxStages) \X Criterion
  /\ turns \in Seq(Turn) /\ Len(turns) <= MaxTurns /\ transcript \in Tails
  /\ host \in [pc : {"idle", "prompting", "committed", "raising", "failing", "signalling",
                      "reconciling", "completing", "cancelled", "failed"},
                seen : 0..MaxTurns, writer : {"good", "sick", "behind", "gone"},
                usage : {Unknown} \cup 0..TurnCost]
  /\ bridge \in [Bridge -> [pc : {"idle", "started", "created", "observed"},
                             child : Child \cup {None}, good : BOOLEAN]]
  /\ child \in [Child -> {"absent", "live", "completed", "stopped"}]
  /\ spent \in Nat

(* A committed Stage is bound to the one Turn its own prompt produced, after *)
(* its start, whether the live process or a recovery bound it, and the      *)
(* proposal recorded for it is the one that Turn made.                      *)
TurnBinding ==
  \A n \in 1..Count : stages[n].end = "committed" =>
    /\ stages[n].turn \in 1..Len(turns)
    /\ turns[stages[n].turn].stage = n
    /\ stages[n].base < stages[n].turn
    /\ stages[n].signal \in {"none", turns[stages[n].turn].signal}

(* As long as the Session can be read or resumed, recover_task can settle an *)
(* open Stage that was not delegated, whatever happened: the Session holds   *)
(* no Turn of it, or exactly the one Turn commit_stage accepts.             *)
Recoverable ==
  OpenStage /\ Latest.child = None /\ Free /\ ~Lost =>
    Matches = {} \/ \E t \in Matches : Matches = {t} /\ Fits(Latest, Count, t)

(* The external end of a Stage carries the evidence of the Child bound to    *)
(* that Stage, although the bridge reads the Stage and writes to whatever   *)
(* Stage is active later.                                                  *)
ExternalEvidence ==
  \A n \in 1..Count : stages[n].end \in {"external", "refused"} =>
    /\ stages[n].evidence = stages[n].child
    /\ stages[n].end = "external" => child[stages[n].evidence] = "completed"

(* The Provider invocations really made for a Task stay within the ceiling  *)
(* plus one Turn, whatever crashes and failed appends hid from the ledger.  *)
SpendBounded == spent <= MaxProvider - 1 + TurnCost

(* A completed Task rests on a proposal of its latest Stage and on a         *)
(* verification of every criterion made for that very proposal.             *)
CompletionSound == terminal = "completed" => ~OpenStage /\ AllVerified

(* The history only grows: a settled Stage never changes again except that   *)
(* its proposal is recorded once, and nothing follows a termination.        *)
HistoryIsFinal ==
  [][/\ Len(stages') >= Count
     /\ \A n \in 1..Count : stages[n].end # "open" =>
          /\ stages'[n] = [stages[n] EXCEPT !.signal = stages'[n].signal]
          /\ stages[n].signal # "none" => stages'[n].signal = stages[n].signal
     /\ terminal # "none" => stages' = stages /\ terminal' = terminal]_vars

(* A Child is to its Task the outcome it comes to.  ChildRun comes to the    *)
(* same outcomes in the same order; a live Child may or may not be prepared. *)
Seen(outcome) == IF outcome \in {"new", "prepared"} THEN "live" ELSE outcome

Told(status) == CASE status = "absent" -> "new"
                  [] status = "live"   -> "prepared"
                  [] OTHER             -> status

ChildRuns(c) == INSTANCE ChildOutcome WITH outcome <- Told(child[c])

TakesOutcomes ==
  /\ \A c \in Child : ChildRuns(c)!Init
  /\ [][\A c \in Child : [ChildRuns(c)!Next]_(Told(child[c]))]_vars
=============================================================================
