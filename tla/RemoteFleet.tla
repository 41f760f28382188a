---------------------------- MODULE RemoteFleet ----------------------------
(***************************************************************************)
(* The coordinator of a fleet of remote workers and the loops that work for *)
(* it.  RemoteWorkerFleet keeps workers and tasks in one append-only ledger  *)
(* it reads again in every call, under one file lock, so a call is one       *)
(* step; only revoke and recover_expired append several events.              *)
(* RemoteFleetWorkerLoop polls for a task, runs its handler in the main      *)
(* thread while a second thread renews the lease, and reports the result.    *)
(* Between them is HTTP: a request may be handled late, long after its       *)
(* sender gave up on it, or never, and an answer may get lost.               *)
(***************************************************************************)
EXTENDS Integers, FiniteSets

CONSTANTS Worker,        \* registered identities
          Loop,          \* RemoteFleetWorkerLoop objects
          WorkerOf,      \* the worker_id a loop was made with
          Task,          \* identities of envelopes
          None,          \* no task, no worker
          Tenant,        \* tenants
          TenantOf,      \* the tenant that submits a task
          Quota,         \* TenantPolicy.max_active_tasks
          Profile,       \* what a worker may register: [max, suits]
          LeaseSeconds,  \* the lease a loop asks for
          MaxTime,       \* model bound: the clock of the coordinator
          MaxLate        \* model bound: abandoned requests still under way

ASSUME FleetAssumption ==
  /\ None \notin Worker \cup Task
  /\ WorkerOf \in [Loop -> Worker]
  /\ TenantOf \in [Task -> Tenant]
  /\ Quota \in [Tenant -> Nat]
  /\ Profile \subseteq [max : Nat \ {0}, suits : SUBSET Task]
  /\ LeaseSeconds \in Nat \ {0}
  /\ MaxTime \in Nat /\ MaxLate \in Nat

VARIABLES now,       \* the coordinator's clock
          file,      \* whether the ledger can be read
          workers,   \* the workers it holds
          tasks,     \* the tasks it holds
          leases,    \* how many lease identities were handed out
          loop,      \* both threads of every loop
          requests,  \* requests no one has handled
          runs,      \* how often a handler was called for a task
          effect,    \* how the handler of a task ended
          report,    \* what RemoteFleetWorkerLoop._execute returned for a task
          quiet      \* workers whose revocation has returned

server == <<file, workers, tasks, leases>>
history == <<runs, effect, report, quiet>>
vars == <<now, server, loop, requests, history>>

-----------------------------------------------------------------------------
(* The ledger.                                                             *)

Final == {"completed", "failed", "cancelled", "unknown"}
Lease == [task : Task \cup {None}, id : Nat, expires : Nat]
NoLease == [task |-> None, id |-> 0, expires |-> 0]

FleetTask == [status : {"absent", "queued", "assigned"} \cup Final,
              owner : Worker \cup {None}, lease : Nat, expires : Nat, created : Nat]
FleetWorker == [status : {"absent", "active", "revoked"}, profile : Profile]

LoopState == [main : {"idle", "asking", "claimed", "handling", "joining", "reporting", "ended"},
              beat : {"off", "waiting", "asking", "failed"},
              lease : Lease, stop : BOOLEAN, result : Final \cup {"none"}]

Assigned(t) == tasks[t].status = "assigned"
Held(w) == {t \in Task : tasks[t].owner = w}
\* Mutant: a finished task keeps its lease.
SettledLeased(t, status) == [tasks[t] EXCEPT !.status = status]
Settled(t, status) ==
  [tasks[t] EXCEPT !.status = status, !.owner = None, !.lease = 0, !.expires = 0]

\* _append_expired_unlocked.  Mutant: the task is queued again.
ExpiredRequeued(t) == [Settled(t, "queued") EXCEPT !.created = tasks[t].created]
Expired(t) == Settled(t, "unknown")
Expire(S) == [t \in Task |-> IF t \in S THEN Expired(t) ELSE tasks[t]]

(* One append: it returns, or it raises with the event in the file, absent   *)
(* (so also when the file is full), complete but for its newline ("bare"),   *)
(* or torn.  It returns, too, with an event past the limit of events         *)
(* ("over"), which no later call will read past, and with an event after a   *)
(* bare one, which makes one bad line of both.  Nothing repairs a ledger.    *)
Outcome == {"kept", "over", "unsure", "lost", "bare", "torn"}
Returned(out) == out \in {"kept", "over"}
Took(out) == file = "sound" /\ out \in {"kept", "unsure", "bare"}
FileAfter(out) ==
  CASE out = "lost"                                -> file
    [] file = "bare" \/ out \in {"over", "torn"}   -> "broken"
    [] out = "bare"                                -> "bare"
    [] OTHER                                       -> file
Readable == file # "broken"

\* Several appends of one call: it stops at the first that raises.  What comes
\* after an event past the limit tells nobody anything.
Series(S, out) ==
  \E kept \in SUBSET S :
    /\ (out = "kept") <=> (kept = S)
    /\ file' = CASE S = {}                       -> file
                 [] file = "bare" /\ kept # {} -> "broken"
                 [] OTHER                      -> FileAfter(out)
    /\ \E last \in (IF kept = S THEN {{}} ELSE {{t} : t \in S \ kept}) :
         tasks' = IF file # "sound" THEN tasks
                  ELSE Expire(kept \cup IF Took(out) THEN last ELSE {})

Init ==
  /\ now = 0 /\ file = "sound" /\ leases = 0
  /\ \E p \in Profile : workers = [w \in Worker |-> [status |-> "absent", profile |-> p]]
  /\ tasks = [t \in Task |-> [status |-> "absent", owner |-> None, lease |-> 0,
                              expires |-> 0, created |-> 0]]
  /\ loop = [l \in Loop |-> [main |-> "idle", beat |-> "off", lease |-> NoLease,
                             stop |-> FALSE, result |-> "none"]]
  /\ requests = {}
  /\ runs = [t \in Task |-> 0]
  /\ effect = [t \in Task |-> "none"]
  /\ report = [t \in Task |-> "none"]
  /\ quiet = {}

-----------------------------------------------------------------------------
(* Operators of the fleet: workers are registered and revoked, tasks are     *)
(* submitted, expired leases are collected.                                 *)

\* Mutant: a revoked identity may register again.
RegisterAgain(w, p) ==
  /\ Readable
  /\ \E out \in Outcome :
       /\ file' = FileAfter(out)
       /\ workers' = IF Took(out)
                     THEN [workers EXCEPT ![w] = [status |-> "active", profile |-> p]]
                     ELSE workers
  /\ UNCHANGED <<now, tasks, leases, loop, requests, history>>

Register(w, p) ==
  /\ Readable /\ workers[w].status # "revoked"
  /\ \E out \in Outcome :
       /\ file' = FileAfter(out)
       /\ workers' = IF Took(out)
                     THEN [workers EXCEPT ![w] = [status |-> "active", profile |-> p]]
                     ELSE workers
  /\ UNCHANGED <<now, tasks, leases, loop, requests, history>>

\* last_seen is not modelled; the append is.
WorkerHeartbeat(w) ==
  /\ Readable /\ workers[w].status = "active"
  /\ \E out \in Outcome : file' = FileAfter(out)
  /\ UNCHANGED <<now, workers, tasks, leases, loop, requests, history>>

\* worker_revoked first, then one task_expired per task the worker holds; a
\* crash between them is an append that raised.  A file that the first event
\* made unreadable takes the others as well, and the call may return.
Revoke(w) ==
  /\ Readable /\ workers[w].status # "absent"
  /\ \E first, out \in Outcome :
       /\ workers' = IF Took(first) THEN [workers EXCEPT ![w].status = "revoked"] ELSE workers
       /\ IF first = "kept" /\ file = "sound"
          THEN Series(Held(w), out)
          ELSE file' = FileAfter(first) /\ UNCHANGED tasks
       /\ quiet' = IF Returned(first) /\ Returned(out) THEN quiet \cup {w} ELSE quiet
  /\ UNCHANGED <<now, leases, loop, requests, runs, effect, report>>

Active(tenant) ==
  {t \in Task : TenantOf[t] = tenant /\ tasks[t].status \in {"queued", "assigned"}}
Submit(t) ==
  /\ Readable /\ tasks[t].status = "absent"
  /\ Cardinality(Active(TenantOf[t])) < Quota[TenantOf[t]]
  /\ \E out \in Outcome :
       /\ file' = FileAfter(out)
       /\ tasks' = IF Took(out)
                   THEN [tasks EXCEPT ![t].status = "queued", ![t].created = now]
                   ELSE tasks
  /\ UNCHANGED <<now, workers, leases, loop, requests, history>>

Overdue == {t \in Task : Assigned(t) /\ tasks[t].expires <= now}
RecoverExpired ==
  /\ Readable
  /\ \E out \in Outcome : Series(Overdue, out)
  /\ UNCHANGED <<now, workers, leases, loop, requests, history>>

Tick ==
  /\ now < MaxTime
  /\ now' = now + 1
  /\ UNCHANGED <<server, loop, requests, history>>

-----------------------------------------------------------------------------
(* The requests of a loop, each `live` until its sender stops waiting.  A    *)
(* live request is answered when it is handled; an answer that gets lost is  *)
(* a sender that stopped waiting just before.                               *)

Request == [loop : Loop, kind : {"dispatch", "renew", "complete"}, lease : Lease,
            result : Final \cup {"none"}, live : BOOLEAN]

Ask(l, kind, lease, result) ==
  requests' = requests \cup
    {[loop |-> l, kind |-> kind, lease |-> lease, result |-> result, live |-> TRUE]}

\* The sender times out, or its process dies: what it asked may still be handled
\* later, or get lost.
StopWaiting(l, kinds) ==
  LET mine == {r \in requests : r.live /\ r.loop = l /\ r.kind \in kinds}
      late == {r \in requests : ~r.live} \cup {[r EXCEPT !.live = FALSE] : r \in mine}
  IN \E kept \in SUBSET late :
       /\ Cardinality(kept) <= MaxLate
       /\ requests' = {r \in requests \ mine : r.live} \cup kept

(* What its sender makes of an answer: an assignment starts the heartbeat    *)
(* thread; nothing is an idle poll, after which run may return; an error     *)
(* leaves run as an exception, ends the heartbeat thread, or makes _execute  *)
(* return "unknown".                                                       *)
Dispatched(me, ok, lease) ==
  CASE ok = "yes"     -> {[me EXCEPT !.main = "claimed", !.beat = "waiting", !.lease = lease]}
    [] ok = "nothing" -> {[me EXCEPT !.main = next] : next \in {"idle", "ended"}}
    [] OTHER          -> {[me EXCEPT !.main = "ended"]}
Beaten(me, ok, lease) ==
  {IF ok = "yes" THEN [me EXCEPT !.beat = "waiting", !.lease = lease]
   ELSE [me EXCEPT !.beat = "failed"]}
Reported(me) == [me EXCEPT !.main = "idle", !.lease = NoLease, !.result = "none"]

Hear(r, ok, lease) ==
  LET me == loop[r.loop]
  IN /\ \E new \in CASE r.kind = "dispatch" -> Dispatched(me, ok, lease)
                     [] r.kind = "renew"    -> Beaten(me, ok, lease)
                     [] OTHER               -> {Reported(me)} :
          loop' = [loop EXCEPT ![r.loop] = new]
     /\ report' = IF r.kind = "complete"
                  THEN [report EXCEPT ![me.lease.task] =
                          IF ok = "yes" THEN me.result ELSE "unknown"]
                  ELSE report
Answer(r, ok, lease) ==
  /\ requests' = requests \ {r}
  /\ IF r.live THEN Hear(r, ok, lease) ELSE UNCHANGED <<loop, report>>

Candidates(w) == {t \in Task : tasks[t].status = "queued" /\ t \in workers[w].profile.suits}
Eligible(w) ==
  /\ Readable /\ workers[w].status = "active"
  /\ Cardinality({t \in Held(w) : Assigned(t)}) < workers[w].profile.max

\* dispatch: the oldest task that suits; equal ages are ordered by identifier.
Dispatch(r, t) ==
  LET w == WorkerOf[r.loop]
      lease == [task |-> t, id |-> leases + 1, expires |-> now + LeaseSeconds]
  IN /\ r.kind = "dispatch"
     /\ Eligible(w) /\ t \in Candidates(w)
     /\ \A u \in Candidates(w) : tasks[t].created <= tasks[u].created
     /\ \E out \in Outcome :
          /\ file' = FileAfter(out)
          /\ leases' = IF out \in {"lost", "torn"} THEN leases ELSE leases + 1
          /\ tasks' = IF Took(out)
                      THEN [tasks EXCEPT ![t].status = "assigned", ![t].owner = w,
                                         ![t].lease = lease.id, ![t].expires = lease.expires]
                      ELSE tasks
          /\ IF Returned(out) THEN Answer(r, "yes", lease) ELSE Answer(r, "error", NoLease)
     /\ UNCHANGED <<now, workers, runs, effect, quiet>>

DispatchNothing(r) ==
  /\ r.kind = "dispatch"
  /\ ~Eligible(WorkerOf[r.loop]) \/ Candidates(WorkerOf[r.loop]) = {}
  /\ Answer(r, IF Readable /\ workers[WorkerOf[r.loop]].status = "active" THEN "nothing"
               ELSE "error", NoLease)
  /\ UNCHANGED <<now, server, runs, effect, quiet>>

\* heartbeat_lease and complete check the task against the caller's lease, and
\* the clock against the expiry in the caller's copy of it.
Current(lease) == Assigned(lease.task) /\ tasks[lease.task].lease = lease.id

Late(r) ==
  /\ r.kind \in {"renew", "complete"}
  /\ Readable /\ Current(r.lease) /\ r.lease.expires <= now
  /\ \E out \in Outcome :
       /\ file' = FileAfter(out)
       /\ tasks' = IF Took(out) THEN Expire({r.lease.task}) ELSE tasks
  /\ Answer(r, "error", NoLease)
  /\ UNCHANGED <<now, workers, leases, runs, effect, quiet>>

Refuse(r) ==
  /\ r.kind \in {"renew", "complete"}
  /\ ~(Readable /\ Current(r.lease))
  /\ Answer(r, "error", NoLease)
  /\ UNCHANGED <<now, server, runs, effect, quiet>>

\* Mutant: the event repeats the task as it was.
RenewedInReply(t) == tasks[t]
Renewed(t) == [tasks[t] EXCEPT !.expires = now + LeaseSeconds]
Renew(r) ==
  /\ r.kind = "renew"
  /\ Readable /\ Current(r.lease) /\ now < r.lease.expires
  /\ \E out \in Outcome :
       /\ file' = FileAfter(out)
       /\ tasks' = IF Took(out)
                   THEN [tasks EXCEPT ![r.lease.task] = Renewed(r.lease.task)] ELSE tasks
       /\ IF Returned(out)
          THEN Answer(r, "yes", [r.lease EXCEPT !.expires = now + LeaseSeconds])
          ELSE Answer(r, "error", NoLease)
  /\ UNCHANGED <<now, workers, leases, runs, effect, quiet>>

\* Mutant: only the identity of the task is compared.
CompleteLate(r) ==
  /\ r.kind = "complete" /\ Readable /\ now < r.lease.expires
  /\ \E out \in Outcome :
       /\ file' = FileAfter(out)
       /\ tasks' = IF Took(out)
                   THEN [tasks EXCEPT ![r.lease.task] = Settled(r.lease.task, r.result)] ELSE tasks
       /\ Answer(r, IF Returned(out) THEN "yes" ELSE "error", NoLease)
  /\ UNCHANGED <<now, workers, leases, runs, effect, quiet>>

Complete(r) ==
  /\ r.kind = "complete"
  /\ Readable /\ Current(r.lease) /\ now < r.lease.expires
  /\ \E out \in Outcome :
       /\ file' = FileAfter(out)
       /\ tasks' = IF Took(out)
                   THEN [tasks EXCEPT ![r.lease.task] = Settled(r.lease.task, r.result)] ELSE tasks
       /\ Answer(r, IF Returned(out) THEN "yes" ELSE "error", NoLease)
  /\ UNCHANGED <<now, workers, leases, runs, effect, quiet>>

-----------------------------------------------------------------------------
(* The main thread of a loop: run and _execute.                            *)

Set(l, new) == loop' = [loop EXCEPT ![l] = new]

Poll(l) ==
  /\ loop[l].main = "idle" /\ ~loop[l].stop
  /\ Set(l, [loop[l] EXCEPT !.main = "asking"])
  /\ Ask(l, "dispatch", NoLease, "none")
  /\ UNCHANGED <<now, server, history>>

Timeout(l) ==
  /\ loop[l].main = "asking"
  /\ StopWaiting(l, {"dispatch"})
  /\ Set(l, [loop[l] EXCEPT !.main = "ended"])
  /\ UNCHANGED <<now, server, history>>

CallHandler(l) ==
  /\ loop[l].main = "claimed" /\ ~loop[l].stop
  /\ runs' = [runs EXCEPT ![loop[l].lease.task] = @ + 1]
  /\ Set(l, [loop[l] EXCEPT !.main = "handling"])
  /\ UNCHANGED <<now, server, requests, effect, report, quiet>>

\* Stopped before the handler.  Mutant: result_status keeps its first value.
SkipAsDone(l) ==
  /\ loop[l].main = "claimed" /\ loop[l].stop
  /\ Set(l, [loop[l] EXCEPT !.main = "joining", !.result = "completed"])
  /\ UNCHANGED <<now, server, requests, history>>
SkipHandler(l) ==
  /\ loop[l].main = "claimed" /\ loop[l].stop
  /\ Set(l, [loop[l] EXCEPT !.main = "joining", !.result = "cancelled"])
  /\ UNCHANGED <<now, server, requests, history>>

\* A value that is no text within the limit counts as raised.
HandlerEnds(l) ==
  /\ loop[l].main = "handling"
  /\ \E end \in {"returned", "raised"} :
       /\ effect' = [effect EXCEPT ![loop[l].lease.task] = end]
       /\ Set(l, [loop[l] EXCEPT !.main = "joining",
                    !.result = CASE end = "returned"                -> "completed"
                                 [] end = "raised" /\ loop[l].stop  -> "cancelled"
                                 [] end = "raised" /\ ~loop[l].stop -> "failed"])
  /\ UNCHANGED <<now, server, requests, runs, report, quiet>>

\* The heartbeat thread is joined first, so no renewal is under way.
Report(l) ==
  LET result == IF loop[l].beat = "failed" THEN "unknown" ELSE loop[l].result
  IN /\ loop[l].main = "joining" /\ loop[l].beat # "asking"
     /\ Set(l, [loop[l] EXCEPT !.main = "reporting", !.beat = "off", !.result = result])
     /\ Ask(l, "complete", loop[l].lease, result)
     /\ UNCHANGED <<now, server, history>>

\* Any exception of complete makes the answer of _execute "unknown".
ReportTimeout(l) ==
  /\ loop[l].main = "reporting"
  /\ StopWaiting(l, {"complete"})
  /\ report' = [report EXCEPT ![loop[l].lease.task] = "unknown"]
  /\ Set(l, Reported(loop[l]))
  /\ UNCHANGED <<now, server, runs, effect, quiet>>

(* Its heartbeat thread, which any error ends.                             *)

Beat(l) ==
  /\ loop[l].beat = "waiting" /\ loop[l].main \in {"claimed", "handling"}
  /\ Set(l, [loop[l] EXCEPT !.beat = "asking"])
  /\ Ask(l, "renew", loop[l].lease, "none")
  /\ UNCHANGED <<now, server, history>>
BeatTimeout(l) ==
  /\ loop[l].beat = "asking"
  /\ StopWaiting(l, {"renew"})
  /\ Set(l, [loop[l] EXCEPT !.beat = "failed"])
  /\ UNCHANGED <<now, server, history>>

RequestStop(l) ==
  /\ ~loop[l].stop
  /\ Set(l, [loop[l] EXCEPT !.stop = TRUE])
  /\ UNCHANGED <<now, server, requests, history>>

\* The process of the loop dies or is started again.
Restart(l) ==
  /\ Set(l, [main |-> "idle", beat |-> "off", lease |-> NoLease, stop |-> FALSE,
             result |-> "none"])
  /\ StopWaiting(l, {"dispatch", "renew", "complete"})
  /\ UNCHANGED <<now, server, history>>

-----------------------------------------------------------------------------
Coordinate ==
  \/ \E w \in Worker : WorkerHeartbeat(w) \/ Revoke(w) \/ \E p \in Profile : Register(w, p)
  \/ \E t \in Task : Submit(t)
  \/ RecoverExpired \/ Tick
  \/ \E r \in requests :
       \/ DispatchNothing(r) \/ Late(r) \/ Refuse(r) \/ Renew(r) \/ Complete(r)
       \/ \E t \in Task : Dispatch(r, t)

Work ==
  \E l \in Loop :
    \/ Poll(l) \/ Timeout(l) \/ CallHandler(l) \/ SkipHandler(l) \/ HandlerEnds(l)
    \/ Report(l) \/ ReportTimeout(l) \/ Beat(l) \/ BeatTimeout(l)
    \/ RequestStop(l) \/ Restart(l)

Next == Coordinate \/ Work
Spec == Init /\ [][Next]_vars

-----------------------------------------------------------------------------
(* Types; a task holds a worker and a lease exactly while it is assigned.   *)
TypeOK ==
  /\ now \in 0..MaxTime
  /\ file \in {"sound", "bare", "broken"}
  /\ workers \in [Worker -> FleetWorker]
  /\ tasks \in [Task -> FleetTask]
  /\ \A t \in Task : Assigned(t) <=> tasks[t].owner # None
  /\ leases \in Nat
  /\ loop \in [Loop -> LoopState]
  /\ requests \subseteq Request
  /\ runs \in [Task -> Nat]
  /\ effect \in [Task -> {"none", "returned", "raised"}]
  /\ report \in [Task -> Final \cup {"none"}]
  /\ quiet \subseteq Worker

(* No task is ever handed to a second handler: not after its lease expired, *)
(* its worker was revoked, its loop died, or its assignment got lost.        *)
AtMostOnce == \A t \in Task : runs[t] <= 1

(* What the ledger says of a task is what its handler did, and what a loop   *)
(* counts as settled is what the ledger says (unless the ledger broke).      *)
Truthful ==
  \A t \in Task :
    /\ tasks[t].status = "completed" => effect[t] = "returned"
    /\ tasks[t].status = "failed" => effect[t] = "raised"
    /\ tasks[t].status = "cancelled" => effect[t] # "returned"
    /\ report[t] \notin {"none", "unknown"} => tasks[t].status = report[t] \/ ~Readable

(* While the ledger can be read, the copy of a lease a loop acts on never     *)
(* outlives the one in the ledger, so recover_expired takes no task whose    *)
(* loop may still count on it.                                             *)
LeaseCovers ==
  Readable => \A l \in Loop : LET lease == loop[l].lease IN
    lease.task # None /\ tasks[lease.task].lease = lease.id =>
      lease.expires <= tasks[lease.task].expires

(* Once a revocation has returned, its worker holds no task again in any     *)
(* ledger that can be read.                                                *)
RevokedHasNothing == Readable => \A w \in quiet : Held(w) = {}

(* The outcome of a task is final: no late completion, renewal, revocation   *)
(* or recovery replaces it.                                                *)
OutcomeIsFinal ==
  [][\A t \in Task : tasks[t].status \in Final => tasks'[t] = tasks[t]]_vars

(* Each task is delivered as its submitter was promised.                    *)
Delivery(t) == INSTANCE TaskDelivery
  WITH status <- tasks[t].status, runs <- runs[t], effect <- effect[t], lost <- ~Readable

Delivers ==
  /\ \A t \in Task : Delivery(t)!Init
  /\ [][\A t \in Task : [Delivery(t)!Next]_(Delivery(t)!vars)]_vars
=============================================================================
