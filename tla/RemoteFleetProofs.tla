------------------------- MODULE RemoteFleetProofs -------------------------
(***************************************************************************)
(* Proofs about RemoteFleet for any workers, loops, tasks, tenants, quotas,  *)
(* profiles, lease length and bounds.                                      *)
(***************************************************************************)
EXTENDS RemoteFleet, TLAPS

Holding == {"claimed", "handling", "joining", "reporting"}
Holds(l, t) == loop[l].main \in Holding /\ loop[l].lease.task = t
About(r, t) == r.kind # "dispatch" /\ r.lease.task = t
Fits(result, end) ==
  /\ result \in Final
  /\ result = "completed" => end = "returned"
  /\ result = "failed" => end = "raised"
  /\ result = "cancelled" => end # "returned"

\* A loop has a lease and a heartbeat thread exactly while it has a task.
LoopShape ==
  \A l \in Loop :
    IF loop[l].main \in Holding
    THEN /\ loop[l].lease.task \in Task /\ loop[l].lease.id > 0
         /\ loop[l].main = "reporting" => loop[l].beat = "off"
    ELSE loop[l].lease = NoLease /\ loop[l].beat = "off"

\* Who still waits is in the state its request was sent from.
Sent ==
  \A r \in requests :
    LET me == loop[r.loop]
    IN /\ r.kind = "dispatch" => r.lease = NoLease
       /\ r.kind # "dispatch" => r.lease.task \in Task
       /\ r.kind # "complete" => r.result = "none"
       /\ r.live /\ r.kind = "dispatch" => me.main = "asking"
       /\ r.live /\ r.kind = "renew" =>
            me.beat = "asking" /\ me.lease = r.lease /\ me.main \in {"claimed", "handling", "joining"}
       /\ r.live /\ r.kind = "complete" =>
            me.main = "reporting" /\ me.lease = r.lease /\ me.result = r.result

\* What was not handed out yet left no trace anywhere.
Untouched ==
  Readable => \A t \in Task : tasks[t].status \in {"absent", "queued"} =>
    /\ runs[t] = 0 /\ effect[t] = "none" /\ report[t] = "none"
    /\ \A l \in Loop : ~Holds(l, t)
    /\ \A r \in requests : ~About(r, t)

OneHolder == \A l, m \in Loop, t \in Task : Holds(l, t) /\ Holds(m, t) => l = m

\* Nothing is settled while the handler has not ended.
Unsettled ==
  \A l \in Loop : loop[l].main \in {"claimed", "handling"} =>
    LET t == loop[l].lease.task
    IN /\ effect[t] = "none" /\ report[t] = "none"
       /\ \A r \in requests : ~(r.kind = "complete" /\ r.lease.task = t)
       /\ tasks[t].status \notin {"completed", "failed", "cancelled"}
       /\ loop[l].main = "claimed" => runs[t] = 0

TrueResults ==
  /\ \A l \in Loop : loop[l].main \in {"joining", "reporting"} =>
       Fits(loop[l].result, effect[loop[l].lease.task])
  /\ \A r \in requests : r.kind = "complete" => Fits(r.result, effect[r.lease.task])

Copies == LeaseCovers /\ \A l \in Loop : loop[l].lease.expires <= now + LeaseSeconds

Revoked == Readable => \A w \in quiet : workers[w].status = "revoked" /\ Held(w) = {}

IndInv ==
  /\ TypeOK /\ LoopShape /\ Sent /\ Untouched /\ OneHolder /\ Unsettled
  /\ AtMostOnce /\ TrueResults /\ Truthful /\ Copies /\ Revoked

(* What SMT needs of records is stated as fields.                          *)
LEMMA FinalFacts ==
  /\ Final \subseteq Final \cup {"none"}
  /\ NoLease \in Lease /\ NoLease.task = None /\ NoLease.id = 0 /\ NoLease.expires = 0
BY DEF Final, NoLease, Lease

LEMMA RequestFields ==
  ASSUME requests \subseteq Request
  PROVE  \A r \in requests :
           /\ r.loop \in Loop /\ r.kind \in {"dispatch", "renew", "complete"}
           /\ r.lease \in Lease /\ r.result \in Final \cup {"none"} /\ r.live \in BOOLEAN
BY DEF Request

LEMMA Waiting ==
  ASSUME NEW l \in Loop, NEW kinds, StopWaiting(l, kinds), requests \subseteq Request
  PROVE  /\ requests' \subseteq Request
         /\ \A r \in requests' : \E q \in requests :
              /\ q.loop = r.loop /\ q.kind = r.kind /\ q.lease = r.lease /\ q.result = r.result
              /\ r.live => q.live /\ ~(r.loop = l /\ r.kind \in kinds)
<1> DEFINE mine == {r \in requests : r.live /\ r.loop = l /\ r.kind \in kinds}
           late == {r \in requests : ~r.live} \cup {[r EXCEPT !.live = FALSE] : r \in mine}
<1>1. PICK kept \in SUBSET late : requests' = {r \in requests \ mine : r.live} \cup kept
  BY DEF StopWaiting
<1>2. \A r \in late : r \in Request /\ ~r.live /\ \E q \in requests :
        q.loop = r.loop /\ q.kind = r.kind /\ q.lease = r.lease /\ q.result = r.result
  BY DEF Request
<1>3. QED
  BY <1>1, <1>2

(***************************************************************************)
(* Steps of a loop leave the coordinator alone.                             *)
(***************************************************************************)
LEMMA CallHandlerStep ==
  ASSUME IndInv, NEW l \in Loop, CallHandler(l)
  PROVE  IndInv'
<1> USE DEF IndInv
<1>a. /\ loop' \in [Loop -> LoopState]
      /\ \A m \in Loop : m # l => loop'[m] = loop[m]
      /\ loop'[l].main = "handling"
      /\ loop'[l].beat = loop[l].beat
      /\ loop'[l].lease = loop[l].lease
      /\ loop'[l].stop = loop[l].stop
      /\ loop'[l].result = loop[l].result
  BY FinalFacts DEF TypeOK, LoopState, Set, CallHandler, Final, LoopShape, Holding
<1>b. UNCHANGED <<now, server, requests, effect, report, quiet>>
  BY DEF history, CallHandler
<1>r. \A r \in requests : r.loop \in Loop /\ r.kind \in {"dispatch", "renew", "complete"}
  BY RequestFields DEF TypeOK
<1>1. TypeOK'
  BY FleetAssumption, FinalFacts, <1>a, <1>b
    DEF TypeOK, Assigned, LoopShape, server, history, CallHandler, Holding
<1>2. LoopShape'
  BY <1>a, <1>b DEF LoopShape, TypeOK, Holding, NoLease, CallHandler
<1>3. Sent'
  BY <1>r, <1>a, <1>b DEF Sent, TypeOK, LoopShape, Holding, CallHandler
<1>4. Untouched'
  BY <1>a, <1>b
    DEF Untouched, TypeOK, Holds, Holding, About, LoopShape, Readable, server, CallHandler
<1>5. OneHolder'
  BY <1>a, <1>b DEF OneHolder, Holds, Holding, TypeOK, LoopShape, CallHandler
<1>6. Unsettled'
  BY <1>a, <1>b DEF Unsettled, TypeOK, OneHolder, Holds, Holding, LoopShape, server, CallHandler
<1>7. AtMostOnce'
  BY <1>a, <1>b DEF AtMostOnce, TypeOK, CallHandler, Unsettled, LoopShape, Holding
<1>8. TrueResults'
  BY <1>a, <1>b DEF TrueResults, TypeOK, Fits, LoopShape, Holding
<1>9. Truthful'
  BY <1>a, <1>b DEF Truthful, TypeOK, Readable, server, CallHandler
<1>10. Copies'
  BY <1>a, <1>b DEF Copies, LeaseCovers, TypeOK, Readable, server
<1>11. Revoked'
  BY <1>a, <1>b DEF Revoked, Held, Readable, server
<1>12. QED
  BY <1>1, <1>2, <1>3, <1>4, <1>5, <1>6, <1>7, <1>8, <1>9, <1>10, <1>11

LEMMA SkipHandlerStep ==
  ASSUME IndInv, NEW l \in Loop, SkipHandler(l)
  PROVE  IndInv'
<1> USE DEF IndInv
<1>a. /\ loop' \in [Loop -> LoopState]
      /\ \A m \in Loop : m # l => loop'[m] = loop[m]
      /\ loop'[l].main = "joining"
      /\ loop'[l].beat = loop[l].beat
      /\ loop'[l].lease = loop[l].lease
      /\ loop'[l].stop = loop[l].stop
      /\ loop'[l].result = "cancelled"
  BY FinalFacts DEF TypeOK, LoopState, Set, SkipHandler, Final, LoopShape, Holding
<1>b. UNCHANGED <<now, server, requests, runs, effect, report, quiet>>
  BY DEF history, SkipHandler
<1>r. \A r \in requests : r.loop \in Loop /\ r.kind \in {"dispatch", "renew", "complete"}
  BY RequestFields DEF TypeOK
<1>1. TypeOK'
  BY FleetAssumption, FinalFacts, <1>a, <1>b DEF TypeOK, Assigned, LoopShape, server, history
<1>2. LoopShape'
  BY <1>a, <1>b DEF LoopShape, TypeOK, Holding, NoLease, SkipHandler
<1>3. Sent'
  BY <1>r, <1>a, <1>b DEF Sent, TypeOK, LoopShape, Holding, SkipHandler
<1>4. Untouched'
  BY <1>a, <1>b
    DEF Untouched, TypeOK, Holds, Holding, About, LoopShape, Readable, server, SkipHandler
<1>5. OneHolder'
  BY <1>a, <1>b DEF OneHolder, Holds, Holding, TypeOK, LoopShape, SkipHandler
<1>6. Unsettled'
  BY <1>a, <1>b DEF Unsettled, TypeOK, OneHolder, Holds, Holding, LoopShape, server, SkipHandler
<1>7. AtMostOnce'
  BY <1>a, <1>b DEF AtMostOnce, TypeOK
<1>8. TrueResults'
  BY <1>a, <1>b DEF TrueResults, TypeOK, Fits, LoopShape, Holding, SkipHandler, Unsettled, Final
<1>9. Truthful'
  BY <1>a, <1>b DEF Truthful, TypeOK, Readable, server
<1>10. Copies'
  BY <1>a, <1>b DEF Copies, LeaseCovers, TypeOK, Readable, server
<1>11. Revoked'
  BY <1>a, <1>b DEF Revoked, Held, Readable, server
<1>12. QED
  BY <1>1, <1>2, <1>3, <1>4, <1>5, <1>6, <1>7, <1>8, <1>9, <1>10, <1>11

HandlerLeaves(l, end, result) ==
  /\ loop[l].main = "handling" /\ Fits(result, end)
  /\ effect' = [effect EXCEPT ![loop[l].lease.task] = end]
  /\ Set(l, [loop[l] EXCEPT !.main = "joining", !.result = result])
  /\ UNCHANGED <<now, server, requests, runs, report, quiet>>

LEMMA HandlerLeavesStep ==
  ASSUME IndInv, NEW l \in Loop, NEW end \in {"returned", "raised"}, NEW result \in Final,
         HandlerLeaves(l, end, result)
  PROVE  IndInv'
<1> USE DEF IndInv
<1>a. /\ loop' \in [Loop -> LoopState]
      /\ \A m \in Loop : m # l => loop'[m] = loop[m]
      /\ loop'[l].main = "joining"
      /\ loop'[l].beat = loop[l].beat
      /\ loop'[l].lease = loop[l].lease
      /\ loop'[l].stop = loop[l].stop
      /\ loop'[l].result = result
  BY FinalFacts DEF TypeOK, LoopState, Set, HandlerLeaves, Final, LoopShape, Holding
<1>b. UNCHANGED <<now, server, requests, runs, report, quiet>>
  BY DEF history, HandlerLeaves
<1>r. \A r \in requests : r.loop \in Loop /\ r.kind \in {"dispatch", "renew", "complete"}
  BY RequestFields DEF TypeOK
<1>1. TypeOK'
  BY FleetAssumption, FinalFacts, <1>a, <1>b
    DEF TypeOK, Assigned, LoopShape, server, history, HandlerLeaves, Holding
<1>2. LoopShape'
  BY <1>a, <1>b DEF LoopShape, TypeOK, Holding, NoLease, HandlerLeaves
<1>3. Sent'
  <2>1. loop[l].main = "handling"
    BY DEF HandlerLeaves
  <2>2. QED
    BY <1>r, <1>a, <1>b, <2>1 DEF Sent
<1>4. Untouched'
  BY <1>a, <1>b
    DEF Untouched, TypeOK, Holds, Holding, About, LoopShape, Readable, server, HandlerLeaves
<1>5. OneHolder'
  BY <1>a, <1>b DEF OneHolder, Holds, Holding, TypeOK, LoopShape, HandlerLeaves
<1>6. Unsettled'
  BY <1>a, <1>b DEF Unsettled, TypeOK, OneHolder, Holds, Holding, LoopShape, server, HandlerLeaves
<1>7. AtMostOnce'
  BY <1>a, <1>b DEF AtMostOnce, TypeOK, HandlerLeaves
<1>8. TrueResults'
  <2> DEFINE t == loop[l].lease.task
  <2>1. /\ t \in Task /\ Holds(l, t) /\ Fits(result, end)
        /\ \A u \in Task : effect'[u] = IF u = t THEN end ELSE effect[u]
    BY DEF HandlerLeaves, LoopShape, Holding, Holds, TypeOK
  <2>2. ASSUME NEW m \in Loop, loop'[m].main \in {"joining", "reporting"}
        PROVE  Fits(loop'[m].result, effect'[loop'[m].lease.task])
    <3>1. CASE m = l
      BY <1>a, <2>1, <3>1
    <3>2. CASE m # l
      <4>1. /\ loop'[m] = loop[m] /\ loop[m].lease.task \in Task
            /\ Holds(m, loop[m].lease.task)
        BY <1>a, <2>2, <3>2 DEF LoopShape, Holding, Holds
      <4>2. loop[m].lease.task # t
        BY <2>1, <3>2, <4>1 DEF OneHolder
      <4>3. QED
        BY <2>1, <2>2, <4>1, <4>2 DEF TrueResults
    <3>3. QED
      BY <3>1, <3>2
  <2>3. ASSUME NEW r \in requests, r.kind = "complete"
        PROVE  Fits(r.result, effect'[r.lease.task])
    <3>1. r.lease.task \in Task
      BY <1>r, <2>3 DEF Sent
    <3>2. r.lease.task # t
      BY <2>3 DEF Unsettled, HandlerLeaves
    <3>3. QED
      BY <2>1, <2>3, <3>1, <3>2 DEF TrueResults
  <2>4. QED
    BY <1>b, <2>2, <2>3 DEF TrueResults, Fits
<1>9. Truthful'
  BY <1>a, <1>b
    DEF Truthful, TypeOK, Readable, server, HandlerLeaves, Unsettled, LoopShape, Holding
<1>10. Copies'
  BY <1>a, <1>b DEF Copies, LeaseCovers, TypeOK, Readable, server
<1>11. Revoked'
  BY <1>a, <1>b DEF Revoked, Held, Readable, server, HandlerLeaves
<1>12. QED
  BY <1>1, <1>2, <1>3, <1>4, <1>5, <1>6, <1>7, <1>8, <1>9, <1>10, <1>11

LEMMA HandlerEndsStep ==
  ASSUME IndInv, NEW l \in Loop, HandlerEnds(l)
  PROVE  IndInv'
<1>1. PICK end \in {"returned", "raised"} :
        /\ effect' = [effect EXCEPT ![loop[l].lease.task] = end]
        /\ Set(l, [loop[l] EXCEPT !.main = "joining",
                     !.result = CASE end = "returned"               -> "completed"
                                  [] end = "raised" /\ loop[l].stop  -> "cancelled"
                                  [] end = "raised" /\ ~loop[l].stop -> "failed"])
  BY DEF HandlerEnds
<1>2. loop[l].main = "handling" /\ UNCHANGED <<now, server, requests, runs, report, quiet>>
  BY DEF HandlerEnds
<1>3. Fits("completed", "returned") /\ Fits("cancelled", "raised") /\ Fits("failed", "raised")
  BY DEF Fits, Final
<1>4. {"completed", "cancelled", "failed"} \subseteq Final
  BY DEF Final
<1>5. CASE end = "returned"
  <2>1. HandlerLeaves(l, end, "completed")
    BY <1>1, <1>2, <1>3, <1>5 DEF HandlerLeaves
  <2>2. QED
    BY <1>4, <2>1, HandlerLeavesStep
<1>6. CASE end = "raised" /\ loop[l].stop
  <2>1. HandlerLeaves(l, end, "cancelled")
    BY <1>1, <1>2, <1>3, <1>6 DEF HandlerLeaves
  <2>2. QED
    BY <1>4, <2>1, HandlerLeavesStep
<1>7. CASE end = "raised" /\ ~loop[l].stop
  <2>1. HandlerLeaves(l, end, "failed")
    BY <1>1, <1>2, <1>3, <1>7 DEF HandlerLeaves
  <2>2. QED
    BY <1>4, <2>1, HandlerLeavesStep
<1>8. QED
  BY <1>5, <1>6, <1>7

LEMMA RequestStopStep ==
  ASSUME IndInv, NEW l \in Loop, RequestStop(l)
  PROVE  IndInv'
<1> USE DEF IndInv
<1>a. /\ loop' \in [Loop -> LoopState]
      /\ \A m \in Loop : m # l => loop'[m] = loop[m]
      /\ loop'[l].main = loop[l].main
      /\ loop'[l].beat = loop[l].beat
      /\ loop'[l].lease = loop[l].lease
      /\ loop'[l].stop = TRUE
      /\ loop'[l].result = loop[l].result
  BY FinalFacts DEF TypeOK, LoopState, Set, RequestStop, Final, LoopShape, Holding
<1>b. UNCHANGED <<now, server, requests, runs, effect, report, quiet>>
  BY DEF history, RequestStop
<1>r. \A r \in requests : r.loop \in Loop /\ r.kind \in {"dispatch", "renew", "complete"}
  BY RequestFields DEF TypeOK
<1>1. TypeOK'
  BY FleetAssumption, FinalFacts, <1>a, <1>b DEF TypeOK, Assigned, LoopShape, server, history
<1>2. LoopShape'
  BY <1>a, <1>b DEF LoopShape, TypeOK, Holding, NoLease
<1>3. Sent'
  BY <1>r, <1>a, <1>b DEF Sent, TypeOK, LoopShape, Holding
<1>4. Untouched'
  BY <1>a, <1>b DEF Untouched, TypeOK, Holds, Holding, About, LoopShape, Readable, server
<1>5. OneHolder'
  BY <1>a, <1>b DEF OneHolder, Holds, Holding, TypeOK, LoopShape
<1>6. Unsettled'
  BY <1>a, <1>b DEF Unsettled, TypeOK, OneHolder, Holds, Holding, LoopShape, server
<1>7. AtMostOnce'
  BY <1>a, <1>b DEF AtMostOnce, TypeOK
<1>8. TrueResults'
  BY <1>a, <1>b DEF TrueResults, TypeOK, Fits, LoopShape, Holding
<1>9. Truthful'
  BY <1>a, <1>b DEF Truthful, TypeOK, Readable, server
<1>10. Copies'
  BY <1>a, <1>b DEF Copies, LeaseCovers, TypeOK, Readable, server
<1>11. Revoked'
  BY <1>a, <1>b DEF Revoked, Held, Readable, server
<1>12. QED
  BY <1>1, <1>2, <1>3, <1>4, <1>5, <1>6, <1>7, <1>8, <1>9, <1>10, <1>11

LEMMA TimeoutStep ==
  ASSUME IndInv, NEW l \in Loop, Timeout(l)
  PROVE  IndInv'
<1> USE DEF IndInv
<1>a. /\ loop' \in [Loop -> LoopState]
      /\ \A m \in Loop : m # l => loop'[m] = loop[m]
      /\ loop'[l].main = "ended"
      /\ loop'[l].beat = loop[l].beat
      /\ loop'[l].lease = loop[l].lease
      /\ loop'[l].stop = loop[l].stop
      /\ loop'[l].result = loop[l].result
  BY FinalFacts DEF TypeOK, LoopState, Set, Timeout, Final, LoopShape, Holding
<1>b. UNCHANGED <<now, server, runs, effect, report, quiet>>
  BY DEF history, Timeout
<1>r. \A r \in requests : r.loop \in Loop /\ r.kind \in {"dispatch", "renew", "complete"}
  BY RequestFields DEF TypeOK
<1>w. /\ requests' \subseteq Request
      /\ \A r \in requests' : \E q \in requests :
           /\ q.loop = r.loop /\ q.kind = r.kind /\ q.lease = r.lease /\ q.result = r.result
           /\ r.live => q.live /\ ~(r.loop = l /\ r.kind \in {"dispatch"})
  BY Waiting DEF TypeOK, Timeout
<1>1. TypeOK'
  BY FleetAssumption, FinalFacts, <1>a, <1>b, <1>w
    DEF TypeOK, Assigned, LoopShape, server, history, Timeout
<1>2. LoopShape'
  BY <1>a, <1>b, <1>w DEF LoopShape, TypeOK, Holding, NoLease, Timeout
<1>3. Sent'
  BY <1>r, <1>a, <1>b, <1>w DEF Sent, TypeOK, LoopShape, Holding, Timeout
<1>4. Untouched'
  BY <1>a, <1>b, <1>w
    DEF Untouched, TypeOK, Holds, Holding, About, LoopShape, Readable, server, Timeout
<1>5. OneHolder'
  BY <1>a, <1>b, <1>w DEF OneHolder, Holds, Holding, TypeOK, LoopShape, Timeout
<1>6. Unsettled'
  BY <1>a, <1>b, <1>w DEF Unsettled, TypeOK, OneHolder, Holds, Holding, LoopShape, server, Timeout
<1>7. AtMostOnce'
  BY <1>a, <1>b, <1>w DEF AtMostOnce, TypeOK, Timeout
<1>8. TrueResults'
  BY <1>a, <1>b, <1>w DEF TrueResults, TypeOK, Fits, LoopShape, Holding, Timeout
<1>9. Truthful'
  BY <1>a, <1>b, <1>w DEF Truthful, TypeOK, Readable, server, Timeout
<1>10. Copies'
  BY <1>a, <1>b DEF Copies, LeaseCovers, TypeOK, Readable, server
<1>11. Revoked'
  BY <1>a, <1>b, <1>w DEF Revoked, Held, Readable, server, Timeout
<1>12. QED
  BY <1>1, <1>2, <1>3, <1>4, <1>5, <1>6, <1>7, <1>8, <1>9, <1>10, <1>11

LEMMA ReportTimeoutStep ==
  ASSUME IndInv, NEW l \in Loop, ReportTimeout(l)
  PROVE  IndInv'
<1> USE DEF IndInv
<1>a. /\ loop' \in [Loop -> LoopState]
      /\ \A m \in Loop : m # l => loop'[m] = loop[m]
      /\ loop'[l].main = "idle"
      /\ loop'[l].beat = loop[l].beat
      /\ loop'[l].lease = NoLease
      /\ loop'[l].stop = loop[l].stop
      /\ loop'[l].result = "none"
  BY FinalFacts DEF TypeOK, LoopState, Set, ReportTimeout, Reported, Final, LoopShape, Holding
<1>b. UNCHANGED <<now, server, runs, effect, quiet>>
  BY DEF history, ReportTimeout, Reported
<1>r. \A r \in requests : r.loop \in Loop /\ r.kind \in {"dispatch", "renew", "complete"}
  BY RequestFields DEF TypeOK
<1>w. /\ requests' \subseteq Request
      /\ \A r \in requests' : \E q \in requests :
           /\ q.loop = r.loop /\ q.kind = r.kind /\ q.lease = r.lease /\ q.result = r.result
           /\ r.live => q.live /\ ~(r.loop = l /\ r.kind \in {"complete"})
  BY Waiting DEF TypeOK, ReportTimeout, Reported
<1>1. TypeOK'
  BY FleetAssumption, FinalFacts, <1>a, <1>b, <1>w
    DEF TypeOK, Assigned, LoopShape, server, history, ReportTimeout, Final, Holding
<1>2. LoopShape'
  BY <1>a, <1>b, <1>w DEF LoopShape, TypeOK, Holding, NoLease, ReportTimeout
<1>3. Sent'
  BY <1>r, <1>a, <1>b, <1>w DEF Sent, TypeOK, LoopShape, Holding, ReportTimeout
<1>4. Untouched'
  <2>1. loop[l].main = "reporting" /\ report' = [report EXCEPT ![loop[l].lease.task] = "unknown"]
    BY DEF ReportTimeout
  <2>2. \A t \in Task : Readable /\ tasks[t].status \in {"absent", "queued"} =>
          t # loop[l].lease.task
    BY <2>1 DEF Untouched, Holds, Holding
  <2>3. \A t \in Task : t # loop[l].lease.task => report'[t] = report[t]
    BY <2>1 DEF TypeOK
  <2>4. \A m \in Loop, t \in Task : Holds(m, t)' => Holds(m, t)
    BY <1>a DEF Holds, Holding
  <2>5. \A t \in Task : (\E r \in requests' : About(r, t)) => \E r \in requests : About(r, t)
    BY <1>w DEF About
  <2>6. UNCHANGED <<file, tasks, runs, effect>>
    BY <1>b DEF server
  <2>7. QED
    BY <2>2, <2>3, <2>4, <2>5, <2>6 DEF Untouched, Readable
<1>5. OneHolder'
  BY <1>a, <1>b, <1>w DEF OneHolder, Holds, Holding, TypeOK, LoopShape, ReportTimeout
<1>6. Unsettled'
  <2> SUFFICES ASSUME NEW m \in Loop, loop'[m].main \in {"claimed", "handling"}
               PROVE  LET t == loop'[m].lease.task
                      IN /\ effect'[t] = "none" /\ report'[t] = "none"
                         /\ \A r \in requests' : ~(r.kind = "complete" /\ r.lease.task = t)
                         /\ tasks'[t].status \notin {"completed", "failed", "cancelled"}
                         /\ loop'[m].main = "claimed" => runs'[t] = 0
    BY DEF Unsettled
  <2>1. m # l /\ loop'[m] = loop[m]
    BY <1>a
  <2>2. loop[m].lease.task \in Task
    BY <2>1 DEF LoopShape, Holding
  <2>3. loop[l].main = "reporting" /\ report' = [report EXCEPT ![loop[l].lease.task] = "unknown"]
    BY DEF ReportTimeout
  <2>4. loop[m].lease.task # loop[l].lease.task
    BY <2>1, <2>2, <2>3 DEF OneHolder, Holds, Holding
  <2>5. report'[loop[m].lease.task] = report[loop[m].lease.task]
    BY <2>2, <2>3, <2>4 DEF TypeOK
  <2>6. UNCHANGED <<tasks, runs, effect>>
    BY <1>b DEF server
  <2>7. \A r \in requests' : ~(r.kind = "complete" /\ r.lease.task = loop[m].lease.task)
    BY <1>w, <2>1 DEF Unsettled
  <2>8. QED
    BY <2>1, <2>5, <2>6, <2>7 DEF Unsettled
<1>7. AtMostOnce'
  BY <1>a, <1>b, <1>w DEF AtMostOnce, TypeOK, ReportTimeout
<1>8. TrueResults'
  BY <1>a, <1>b, <1>w DEF TrueResults, TypeOK, Fits, LoopShape, Holding, ReportTimeout
<1>9. Truthful'
  BY <1>a, <1>b, <1>w DEF Truthful, TypeOK, Readable, server, ReportTimeout
<1>10. Copies'
  <2>1. \A m \in Loop : loop'[m].lease = loop[m].lease \/ loop'[m].lease = NoLease
    BY <1>a
  <2>2. UNCHANGED <<now, file, tasks>>
    BY <1>b DEF server
  <2>3. now \in Nat /\ LeaseSeconds \in Nat
    BY FleetAssumption DEF TypeOK
  <2>4. LeaseCovers'
    BY <2>1, <2>2, FinalFacts DEF Copies, LeaseCovers, Readable
  <2>5. QED
    BY <2>1, <2>2, <2>3, <2>4, FinalFacts DEF Copies
<1>11. Revoked'
  BY <1>a, <1>b, <1>w DEF Revoked, Held, Readable, server, ReportTimeout
<1>12. QED
  BY <1>1, <1>2, <1>3, <1>4, <1>5, <1>6, <1>7, <1>8, <1>9, <1>10, <1>11

LEMMA BeatTimeoutStep ==
  ASSUME IndInv, NEW l \in Loop, BeatTimeout(l)
  PROVE  IndInv'
<1> USE DEF IndInv
<1>a. /\ loop' \in [Loop -> LoopState]
      /\ \A m \in Loop : m # l => loop'[m] = loop[m]
      /\ loop'[l].main = loop[l].main
      /\ loop'[l].beat = "failed"
      /\ loop'[l].lease = loop[l].lease
      /\ loop'[l].stop = loop[l].stop
      /\ loop'[l].result = loop[l].result
  BY FinalFacts DEF TypeOK, LoopState, Set, BeatTimeout, Final, LoopShape, Holding
<1>b. UNCHANGED <<now, server, runs, effect, report, quiet>>
  BY DEF history, BeatTimeout
<1>r. \A r \in requests : r.loop \in Loop /\ r.kind \in {"dispatch", "renew", "complete"}
  BY RequestFields DEF TypeOK
<1>w. /\ requests' \subseteq Request
      /\ \A r \in requests' : \E q \in requests :
           /\ q.loop = r.loop /\ q.kind = r.kind /\ q.lease = r.lease /\ q.result = r.result
           /\ r.live => q.live /\ ~(r.loop = l /\ r.kind \in {"renew"})
  BY Waiting DEF TypeOK, BeatTimeout
<1>1. TypeOK'
  BY FleetAssumption, FinalFacts, <1>a, <1>b, <1>w
    DEF TypeOK, Assigned, LoopShape, server, history, BeatTimeout
<1>2. LoopShape'
  BY <1>a, <1>b, <1>w DEF LoopShape, TypeOK, Holding, NoLease, BeatTimeout
<1>3. Sent'
  BY <1>r, <1>a, <1>b, <1>w DEF Sent, TypeOK, LoopShape, Holding, BeatTimeout
<1>4. Untouched'
  BY <1>a, <1>b, <1>w
    DEF Untouched, TypeOK, Holds, Holding, About, LoopShape, Readable, server, BeatTimeout
<1>5. OneHolder'
  BY <1>a, <1>b, <1>w DEF OneHolder, Holds, Holding, TypeOK, LoopShape, BeatTimeout
<1>6. Unsettled'
  BY <1>a, <1>b, <1>w
    DEF Unsettled, TypeOK, OneHolder, Holds, Holding, LoopShape, server, BeatTimeout
<1>7. AtMostOnce'
  BY <1>a, <1>b, <1>w DEF AtMostOnce, TypeOK, BeatTimeout
<1>8. TrueResults'
  BY <1>a, <1>b, <1>w DEF TrueResults, TypeOK, Fits, LoopShape, Holding, BeatTimeout
<1>9. Truthful'
  BY <1>a, <1>b, <1>w DEF Truthful, TypeOK, Readable, server, BeatTimeout
<1>10. Copies'
  BY <1>a, <1>b DEF Copies, LeaseCovers, TypeOK, Readable, server
<1>11. Revoked'
  BY <1>a, <1>b, <1>w DEF Revoked, Held, Readable, server, BeatTimeout
<1>12. QED
  BY <1>1, <1>2, <1>3, <1>4, <1>5, <1>6, <1>7, <1>8, <1>9, <1>10, <1>11

LEMMA RestartStep ==
  ASSUME IndInv, NEW l \in Loop, Restart(l)
  PROVE  IndInv'
<1> USE DEF IndInv
<1>a. /\ loop' \in [Loop -> LoopState]
      /\ \A m \in Loop : m # l => loop'[m] = loop[m]
      /\ loop'[l].main = "idle"
      /\ loop'[l].beat = "off"
      /\ loop'[l].lease = NoLease
      /\ loop'[l].stop = FALSE
      /\ loop'[l].result = "none"
  BY FinalFacts DEF TypeOK, LoopState, Set, Restart, Final, LoopShape, Holding
<1>b. UNCHANGED <<now, server, runs, effect, report, quiet>>
  BY DEF history, Restart
<1>r. \A r \in requests : r.loop \in Loop /\ r.kind \in {"dispatch", "renew", "complete"}
  BY RequestFields DEF TypeOK
<1>w. /\ requests' \subseteq Request
      /\ \A r \in requests' : \E q \in requests :
           /\ q.loop = r.loop /\ q.kind = r.kind /\ q.lease = r.lease /\ q.result = r.result
           /\ r.live => q.live /\ ~(r.loop = l /\ r.kind \in {"dispatch", "renew", "complete"})
  BY Waiting DEF TypeOK, Restart
<1>1. TypeOK'
  BY FleetAssumption, FinalFacts, <1>a, <1>b, <1>w
    DEF TypeOK, Assigned, LoopShape, server, history
<1>2. LoopShape'
  BY <1>a, <1>b, <1>w DEF LoopShape, TypeOK, Holding, NoLease
<1>3. Sent'
  BY <1>r, <1>a, <1>b, <1>w DEF Sent, TypeOK, LoopShape, Holding, Request
<1>4. Untouched'
  BY <1>a, <1>b, <1>w DEF Untouched, TypeOK, Holds, Holding, About, LoopShape, Readable, server
<1>5. OneHolder'
  BY <1>a, <1>b, <1>w DEF OneHolder, Holds, Holding, TypeOK, LoopShape
<1>6. Unsettled'
  BY <1>a, <1>b, <1>w DEF Unsettled, TypeOK, OneHolder, Holds, Holding, LoopShape, server
<1>7. AtMostOnce'
  BY <1>a, <1>b, <1>w DEF AtMostOnce, TypeOK
<1>8. TrueResults'
  BY <1>a, <1>b, <1>w DEF TrueResults, TypeOK, Fits, LoopShape, Holding
<1>9. Truthful'
  BY <1>a, <1>b, <1>w DEF Truthful, TypeOK, Readable, server
<1>10. Copies'
  BY FleetAssumption, FinalFacts, <1>a, <1>b, <1>w
    DEF Copies, LeaseCovers, TypeOK, Readable, server
<1>11. Revoked'
  BY <1>a, <1>b, <1>w DEF Revoked, Held, Readable, server
<1>12. QED
  BY <1>1, <1>2, <1>3, <1>4, <1>5, <1>6, <1>7, <1>8, <1>9, <1>10, <1>11

LEMMA PollStep ==
  ASSUME IndInv, NEW l \in Loop, Poll(l)
  PROVE  IndInv'
<1> USE DEF IndInv
<1>a. /\ loop' \in [Loop -> LoopState]
      /\ \A m \in Loop : m # l => loop'[m] = loop[m]
      /\ loop'[l].main = "asking"
      /\ loop'[l].beat = loop[l].beat
      /\ loop'[l].lease = loop[l].lease
      /\ loop'[l].stop = loop[l].stop
      /\ loop'[l].result = loop[l].result
  BY FinalFacts DEF TypeOK, LoopState, Set, Poll, Final, LoopShape, Holding
<1>b. UNCHANGED <<now, server, runs, effect, report, quiet>>
  BY DEF history, Poll
<1>r. \A r \in requests : r.loop \in Loop /\ r.kind \in {"dispatch", "renew", "complete"}
  BY RequestFields DEF TypeOK
<1>w. requests' = requests \cup
        {[loop |-> l, kind |-> "dispatch", lease |-> NoLease, result |-> "none", live |-> TRUE]}
  BY DEF Poll, Ask, Set, TypeOK, LoopState
<1>f. loop[l].lease \in Lease
  BY DEF TypeOK, LoopState
<1>n. [loop |-> l, kind |-> "dispatch", lease |-> NoLease, result |-> "none", live |-> TRUE] \in Request
  BY <1>a, <1>f, FinalFacts DEF Request
<1>q. requests' \subseteq Request
  BY <1>n, <1>w DEF TypeOK
<1>1. TypeOK'
  BY FleetAssumption, FinalFacts, <1>q, <1>a, <1>b
    DEF TypeOK, Assigned, LoopShape, server, history
<1>2. LoopShape'
  BY <1>a, <1>b, <1>w DEF LoopShape, TypeOK, Holding, NoLease, Poll
<1>3. Sent'
  BY <1>r, <1>a, <1>b, <1>w DEF Sent, TypeOK, LoopShape, Holding, Poll, Request
<1>4. Untouched'
  BY <1>a, <1>b, <1>w
    DEF Untouched, TypeOK, Holds, Holding, About, LoopShape, Readable, server, Poll
<1>5. OneHolder'
  BY <1>a, <1>b, <1>w DEF OneHolder, Holds, Holding, TypeOK, LoopShape, Poll
<1>6. Unsettled'
  BY <1>a, <1>b, <1>w DEF Unsettled, TypeOK, OneHolder, Holds, Holding, LoopShape, server, Poll
<1>7. AtMostOnce'
  BY <1>a, <1>b, <1>w DEF AtMostOnce, TypeOK, Poll
<1>8. TrueResults'
  BY <1>a, <1>b, <1>w DEF TrueResults, TypeOK, Fits, LoopShape, Holding, Poll
<1>9. Truthful'
  BY <1>a, <1>b, <1>w DEF Truthful, TypeOK, Readable, server, Poll
<1>10. Copies'
  BY <1>a, <1>b DEF Copies, LeaseCovers, TypeOK, Readable, server
<1>11. Revoked'
  BY <1>a, <1>b, <1>w DEF Revoked, Held, Readable, server, Poll
<1>12. QED
  BY <1>1, <1>2, <1>3, <1>4, <1>5, <1>6, <1>7, <1>8, <1>9, <1>10, <1>11

LEMMA BeatStep ==
  ASSUME IndInv, NEW l \in Loop, Beat(l)
  PROVE  IndInv'
<1> USE DEF IndInv
<1>a. /\ loop' \in [Loop -> LoopState]
      /\ \A m \in Loop : m # l => loop'[m] = loop[m]
      /\ loop'[l].main = loop[l].main
      /\ loop'[l].beat = "asking"
      /\ loop'[l].lease = loop[l].lease
      /\ loop'[l].stop = loop[l].stop
      /\ loop'[l].result = loop[l].result
  BY FinalFacts DEF TypeOK, LoopState, Set, Beat, Final, LoopShape, Holding
<1>b. UNCHANGED <<now, server, runs, effect, report, quiet>>
  BY DEF history, Beat
<1>r. \A r \in requests : r.loop \in Loop /\ r.kind \in {"dispatch", "renew", "complete"}
  BY RequestFields DEF TypeOK
<1>w. requests' = requests \cup
        {[loop |-> l, kind |-> "renew", lease |-> loop[l].lease, result |-> "none", live |-> TRUE]}
  BY DEF Beat, Ask, Set, TypeOK, LoopState
<1>f. loop[l].lease \in Lease
  BY DEF TypeOK, LoopState
<1>n. [loop |-> l, kind |-> "renew", lease |-> loop[l].lease, result |-> "none",
       live |-> TRUE] \in Request
  BY <1>a, <1>f, FinalFacts DEF Request
<1>q. requests' \subseteq Request
  BY <1>n, <1>w DEF TypeOK
<1>1. TypeOK'
  BY FleetAssumption, FinalFacts, <1>q, <1>a, <1>b
    DEF TypeOK, Assigned, LoopShape, server, history
<1>2. LoopShape'
  BY <1>a, <1>b, <1>w DEF LoopShape, TypeOK, Holding, NoLease, Beat
<1>3. Sent'
  BY <1>r, <1>a, <1>b, <1>w DEF Sent, TypeOK, LoopShape, Holding, Beat, Request
<1>4. Untouched'
  BY <1>a, <1>b, <1>w
    DEF Untouched, TypeOK, Holds, Holding, About, LoopShape, Readable, server, Beat
<1>5. OneHolder'
  BY <1>a, <1>b, <1>w DEF OneHolder, Holds, Holding, TypeOK, LoopShape, Beat
<1>6. Unsettled'
  BY <1>a, <1>b, <1>w DEF Unsettled, TypeOK, OneHolder, Holds, Holding, LoopShape, server, Beat
<1>7. AtMostOnce'
  BY <1>a, <1>b, <1>w DEF AtMostOnce, TypeOK, Beat
<1>8. TrueResults'
  BY <1>a, <1>b, <1>w DEF TrueResults, TypeOK, Fits, LoopShape, Holding, Beat
<1>9. Truthful'
  BY <1>a, <1>b, <1>w DEF Truthful, TypeOK, Readable, server, Beat
<1>10. Copies'
  BY <1>a, <1>b DEF Copies, LeaseCovers, TypeOK, Readable, server
<1>11. Revoked'
  BY <1>a, <1>b, <1>w DEF Revoked, Held, Readable, server, Beat
<1>12. QED
  BY <1>1, <1>2, <1>3, <1>4, <1>5, <1>6, <1>7, <1>8, <1>9, <1>10, <1>11

Sends(l, result) ==
  /\ loop[l].main = "joining" /\ loop[l].beat # "asking"
  /\ Set(l, [loop[l] EXCEPT !.main = "reporting", !.beat = "off", !.result = result])
  /\ Ask(l, "complete", loop[l].lease, result)
  /\ UNCHANGED <<now, server, history>>

LEMMA SendsStep ==
  ASSUME IndInv, NEW l \in Loop, NEW result \in Final, Fits(result, effect[loop[l].lease.task]),
         Sends(l, result)
  PROVE  IndInv'
<1> USE DEF IndInv
<1>a. /\ loop' \in [Loop -> LoopState]
      /\ \A m \in Loop : m # l => loop'[m] = loop[m]
      /\ loop'[l].main = "reporting"
      /\ loop'[l].beat = "off"
      /\ loop'[l].lease = loop[l].lease
      /\ loop'[l].stop = loop[l].stop
      /\ loop'[l].result = result
  BY FinalFacts DEF TypeOK, LoopState, Set, Sends, Final, LoopShape, Holding
<1>b. UNCHANGED <<now, server, runs, effect, report, quiet>>
  BY DEF history, Sends
<1>r. \A r \in requests : r.loop \in Loop /\ r.kind \in {"dispatch", "renew", "complete"}
  BY RequestFields DEF TypeOK
<1>w. requests' = requests \cup
        {[loop |-> l, kind |-> "complete", lease |-> loop[l].lease, result |-> result, live |-> TRUE]}
  BY DEF Sends, Ask, Set, TypeOK, LoopState
<1>f. loop[l].lease \in Lease
  BY DEF TypeOK, LoopState
<1>n. [loop |-> l, kind |-> "complete", lease |-> loop[l].lease, result |-> result,
       live |-> TRUE] \in Request
  BY <1>a, <1>f, FinalFacts DEF Request
<1>q. requests' \subseteq Request
  BY <1>n, <1>w DEF TypeOK
<1>1. TypeOK'
  BY FleetAssumption, FinalFacts, <1>q, <1>a, <1>b
    DEF TypeOK, Assigned, LoopShape, server, history
<1>2. LoopShape'
  BY <1>a, <1>b, <1>w DEF LoopShape, TypeOK, Holding, NoLease, Sends
<1>3. Sent'
  BY <1>r, <1>a, <1>b, <1>w DEF Sent, TypeOK, LoopShape, Holding, Sends, Request
<1>4. Untouched'
  BY <1>a, <1>b, <1>w
    DEF Untouched, TypeOK, Holds, Holding, About, LoopShape, Readable, server, Sends
<1>5. OneHolder'
  BY <1>a, <1>b, <1>w DEF OneHolder, Holds, Holding, TypeOK, LoopShape, Sends
<1>6. Unsettled'
  BY <1>a, <1>b, <1>w DEF Unsettled, TypeOK, OneHolder, Holds, Holding, LoopShape, server, Sends
<1>7. AtMostOnce'
  BY <1>a, <1>b, <1>w DEF AtMostOnce, TypeOK, Sends
<1>8. TrueResults'
  BY <1>a, <1>b, <1>w DEF TrueResults, TypeOK, Fits, LoopShape, Holding, Sends, Final
<1>9. Truthful'
  BY <1>a, <1>b, <1>w DEF Truthful, TypeOK, Readable, server, Sends
<1>10. Copies'
  BY <1>a, <1>b DEF Copies, LeaseCovers, TypeOK, Readable, server
<1>11. Revoked'
  BY <1>a, <1>b, <1>w DEF Revoked, Held, Readable, server, Sends
<1>12. QED
  BY <1>1, <1>2, <1>3, <1>4, <1>5, <1>6, <1>7, <1>8, <1>9, <1>10, <1>11

LEMMA ReportStep ==
  ASSUME IndInv, NEW l \in Loop, Report(l)
  PROVE  IndInv'
<1>1. loop[l].main = "joining"
  BY DEF Report
<1>2. Fits(loop[l].result, effect[loop[l].lease.task])
  BY <1>1 DEF IndInv, TrueResults
<1>3. CASE loop[l].beat = "failed"
  <2>1. Sends(l, "unknown")
    BY <1>3 DEF Report, Sends
  <2>2. "unknown" \in Final /\ Fits("unknown", effect[loop[l].lease.task])
    BY DEF Final, Fits
  <2>3. QED
    BY <2>1, <2>2, SendsStep
<1>4. CASE loop[l].beat # "failed"
  <2>1. Sends(l, loop[l].result)
    BY <1>4 DEF Report, Sends
  <2>2. loop[l].result \in Final
    BY <1>2 DEF Fits
  <2>3. QED
    BY <1>2, <2>1, <2>2, SendsStep
<1>5. QED
  BY <1>3, <1>4

(***************************************************************************)
(* Steps of the coordinator's operators leave loops and requests alone.     *)
(***************************************************************************)
LEMMA FileFacts ==
  ASSUME file \in {"sound", "bare", "broken"}, Readable, NEW out \in Outcome
  PROVE  /\ FileAfter(out) \in {"sound", "bare", "broken"}
         /\ FileAfter(out) # "broken" /\ out \in {"kept", "unsure"} => file = "sound"
         /\ FileAfter(out) # "broken" /\ Returned(out) => out = "kept"
<1>1. CASE out = "lost"
  BY <1>1 DEF FileAfter, Returned
<1>2. CASE out # "lost" /\ (file = "bare" \/ out \in {"over", "torn"})
  BY <1>2 DEF FileAfter, Returned
<1>3. CASE out = "bare" /\ file # "bare"
  BY <1>3 DEF FileAfter, Returned, Readable
<1>4. CASE out \in {"kept", "unsure"} /\ file # "bare"
  BY <1>4 DEF FileAfter, Returned
<1>5. QED
  BY <1>1, <1>2, <1>3, <1>4 DEF Outcome, Returned

\* What an operator may do to a task: queue it or collect its lease.
Operated(t) ==
  \/ tasks'[t] = tasks[t]
  \/ /\ tasks[t].status = "absent" /\ tasks'[t].status = "queued"
     /\ tasks'[t].owner = tasks[t].owner /\ tasks'[t].lease = tasks[t].lease
     /\ tasks'[t].expires = tasks[t].expires
  \/ /\ Assigned(t) /\ tasks'[t].status = "unknown"
     /\ tasks'[t].owner = None /\ tasks'[t].lease = 0

\* How the status of a task moves; only a request to complete it settles it.
Moved(t) ==
  \/ tasks'[t].status = tasks[t].status
  \/ tasks[t].status = "absent" /\ tasks'[t].status = "queued"
  \/ tasks[t].status = "queued" /\ tasks'[t].status = "assigned"
  \/ Assigned(t) /\ tasks'[t].status = "unknown"
  \/ Assigned(t) /\ \E r \in requests :
       r.kind = "complete" /\ t = r.lease.task /\ tasks'[t].status = r.result

\* What a step may do to a task: nothing once it is settled.
Orderly == \A t \in Task : /\ tasks[t].status \in Final => tasks'[t] = tasks[t]
                           /\ Moved(t)

LEMMA OperatorStep ==
  ASSUME IndInv, TypeOK', Revoked', UNCHANGED <<loop, requests, runs, effect, report>>,
         now <= now', Readable' => Readable, \A t \in Task : Operated(t)
  PROVE  IndInv' /\ Orderly
<1> USE DEF IndInv
<1>1. LoopShape' /\ Sent' /\ OneHolder' /\ AtMostOnce' /\ TrueResults'
  BY DEF LoopShape, Sent, OneHolder, Holds, AtMostOnce, TrueResults
<1>2. Untouched'
  BY DEF Untouched, Operated, Assigned, Holds
<1>3. Unsettled'
  BY DEF Unsettled, Operated, Assigned, LoopShape, Holding
<1>4. Truthful'
  BY DEF Truthful, Operated, Assigned, TypeOK, Untouched, Final
<1>5. Copies'
  <2>1. \A l \in Loop : /\ loop[l].lease.id \in Nat /\ loop[l].lease.expires \in Nat
                        /\ loop[l].lease.task # None =>
                             loop[l].lease.task \in Task /\ loop[l].lease.id > 0
    BY FinalFacts DEF LoopShape, TypeOK, LoopState, Lease
  <2>2. \A t \in Task : tasks[t].expires \in Nat /\ tasks'[t].expires \in Nat
    BY DEF TypeOK, FleetTask
  <2>3. LeaseCovers'
    BY <2>1, <2>2 DEF Copies, LeaseCovers, Operated, Assigned
  <2>4. now \in Nat /\ now' \in Nat /\ LeaseSeconds \in Nat
    BY FleetAssumption DEF TypeOK
  <2>5. QED
    BY <2>1, <2>3, <2>4 DEF Copies
<1>6. Orderly
  BY DEF Orderly, Operated, Moved, Assigned, Final
<1>7. QED
  BY <1>1, <1>2, <1>3, <1>4, <1>5, <1>6

LEMMA SettledType ==
  ASSUME TypeOK, NEW t \in Task, NEW status \in Final
  PROVE  /\ Settled(t, status) \in FleetTask
         /\ Settled(t, status).status = status /\ Settled(t, status).owner = None
         /\ Settled(t, status).lease = 0
BY DEF TypeOK, FleetTask, Settled

LEMMA SeriesStep ==
  ASSUME TypeOK, NEW S \in SUBSET Task, NEW out \in Outcome, Series(S, out), Readable,
         \A t \in S : Assigned(t)
  PROVE  /\ file' \in {"sound", "bare", "broken"} /\ (Readable' => Readable)
         /\ tasks' \in [Task -> FleetTask]
         /\ \A t \in Task : Operated(t) /\ (tasks'[t] = tasks[t] \/ tasks'[t].owner = None)
         /\ Returned(out) /\ Readable' /\ file = "sound" =>
              \A t \in S : tasks'[t].owner = None
<1>1. PICK kept \in SUBSET S :
        /\ (out = "kept") <=> (kept = S)
        /\ file' = CASE S = {}                       -> file
                     [] file = "bare" /\ kept # {} -> "broken"
                     [] OTHER                      -> FileAfter(out)
        /\ \E last \in (IF kept = S THEN {{}} ELSE {{t} : t \in S \ kept}) :
             tasks' = IF file # "sound" THEN tasks
                      ELSE Expire(kept \cup IF Took(out) THEN last ELSE {})
  BY DEF Series
<1>2. file' \in {"sound", "bare", "broken"} /\ (Readable' => Readable)
  <2>1. CASE S = {}
    BY <1>1, <2>1 DEF TypeOK, Readable
  <2>2. CASE S # {} /\ file = "bare" /\ kept # {}
    BY <1>1, <2>2 DEF TypeOK, Readable
  <2>3. CASE S # {} /\ ~(file = "bare" /\ kept # {})
    BY <1>1, <2>3, FileFacts DEF TypeOK
  <2>4. QED
    BY <2>1, <2>2, <2>3
<1>3. PICK C \in SUBSET S : /\ out = "kept" => C = S
                            /\ tasks' = IF file # "sound" THEN tasks ELSE Expire(C)
  <2>1. PICK last \in (IF kept = S THEN {{}} ELSE {{t} : t \in S \ kept}) :
          tasks' = IF file # "sound" THEN tasks
                   ELSE Expire(kept \cup IF Took(out) THEN last ELSE {})
    BY <1>1
  <2>2. last \subseteq S /\ (kept = S => last = {})
    OBVIOUS
  <2>3. kept \cup (IF Took(out) THEN last ELSE {}) \in SUBSET S
    BY <2>2
  <2>4. out = "kept" => kept \cup (IF Took(out) THEN last ELSE {}) = S
    BY <1>1, <2>2
  <2>5. QED
    BY <2>1, <2>3, <2>4
<1>4. "unknown" \in Final
  BY DEF Final
<1>5. \A t \in Task : /\ Expired(t) \in FleetTask /\ Expired(t).status = "unknown"
                      /\ Expired(t).owner = None /\ Expired(t).lease = 0
  BY <1>4, SettledType DEF Expired
<1>6. tasks \in [Task -> FleetTask]
  BY DEF TypeOK
<1>7. \A t \in Task : tasks'[t] = tasks[t] \/ (t \in C /\ tasks'[t] = Expired(t))
  BY <1>3 DEF Expire
<1>8. tasks' \in [Task -> FleetTask]
  BY <1>3, <1>5, <1>6 DEF Expire
<1>9. file = "sound" => \A t \in C : tasks'[t] = Expired(t)
  BY <1>3 DEF Expire
<1>10. Returned(out) /\ Readable' /\ file = "sound" => out = "kept"
  <2>1. CASE out = "kept"
    BY <2>1
  <2>2. CASE out # "kept"
    <3>1. S # {}
      BY <1>1, <2>2
    <3>2. file = "sound" => file' = FileAfter(out)
      BY <1>1, <3>1
    <3>3. QED
      BY <2>2, <3>2, FileFacts DEF Readable
  <2>3. QED
    BY <2>1, <2>2
<1>11. QED
  BY <1>2, <1>3, <1>5, <1>7, <1>8, <1>9, <1>10 DEF Operated

LEMMA RegisterStep ==
  ASSUME IndInv, NEW w \in Worker, NEW p \in Profile, Register(w, p)
  PROVE  IndInv' /\ Orderly
<1> USE DEF IndInv
<1>1. PICK out \in Outcome :
        /\ file' = FileAfter(out)
        /\ workers' = IF Took(out)
                      THEN [workers EXCEPT ![w] = [status |-> "active", profile |-> p]]
                      ELSE workers
  BY DEF Register
<1>2. UNCHANGED <<now, tasks, leases, loop, requests, runs, effect, report, quiet>>
  BY DEF Register, history
<1>3. file' \in {"sound", "bare", "broken"} /\ (Readable' => Readable)
  BY <1>1, FileFacts DEF TypeOK, Register
<1>4. workers' \in [Worker -> FleetWorker]
  BY <1>1 DEF TypeOK, FleetWorker
<1>5. TypeOK'
  BY <1>2, <1>3, <1>4 DEF TypeOK, Assigned
<1>6. workers[w].status # "revoked"
  BY DEF Register
<1>7. Revoked'
  BY <1>1, <1>2, <1>3, <1>6 DEF Revoked, Held, TypeOK
<1>8. now <= now' /\ \A t \in Task : Operated(t)
  BY <1>2, FleetAssumption DEF Operated, TypeOK
<1>9. QED
  BY <1>2, <1>3, <1>5, <1>7, <1>8, OperatorStep

LEMMA WorkerHeartbeatStep ==
  ASSUME IndInv, NEW w \in Worker, WorkerHeartbeat(w)
  PROVE  IndInv' /\ Orderly
<1> USE DEF IndInv
<1>1. UNCHANGED <<now, workers, tasks, leases, loop, requests, runs, effect, report, quiet>>
  BY DEF WorkerHeartbeat, history
<1>2. file' \in {"sound", "bare", "broken"} /\ (Readable' => Readable)
  BY FileFacts DEF WorkerHeartbeat, TypeOK
<1>3. TypeOK' /\ Revoked'
  BY <1>1, <1>2 DEF TypeOK, Assigned, Revoked, Held
<1>4. now <= now' /\ \A t \in Task : Operated(t)
  BY <1>1, FleetAssumption DEF Operated, TypeOK
<1>5. QED
  BY <1>1, <1>2, <1>3, <1>4, OperatorStep

LEMMA RevokeStep ==
  ASSUME IndInv, NEW w \in Worker, Revoke(w)
  PROVE  IndInv' /\ Orderly
<1> USE DEF IndInv
<1>1. PICK first \in Outcome, out \in Outcome :
       /\ workers' = IF Took(first) THEN [workers EXCEPT ![w].status = "revoked"] ELSE workers
       /\ IF first = "kept" /\ file = "sound"
          THEN Series(Held(w), out)
          ELSE file' = FileAfter(first) /\ UNCHANGED tasks
       /\ quiet' = IF Returned(first) /\ Returned(out) THEN quiet \cup {w} ELSE quiet
  BY DEF Revoke
<1>2. UNCHANGED <<now, leases, loop, requests, runs, effect, report>> /\ Readable
  BY DEF Revoke
<1>3. workers' \in [Worker -> FleetWorker] /\ \A v \in Worker :
        workers[v].status = "revoked" => workers'[v].status = "revoked"
  BY <1>1 DEF TypeOK, FleetWorker
<1>4. Held(w) \in SUBSET Task /\ \A t \in Held(w) : Assigned(t)
  BY FleetAssumption DEF Held, TypeOK
<1>5. now <= now' /\ quiet' \subseteq Worker
  BY <1>1, <1>2, FleetAssumption DEF TypeOK
<1>6. CASE first = "kept" /\ file = "sound"
  <2>1. Series(Held(w), out)
    BY <1>1, <1>6
  <2>2. /\ file' \in {"sound", "bare", "broken"} /\ (Readable' => Readable)
        /\ tasks' \in [Task -> FleetTask]
        /\ \A t \in Task : Operated(t) /\ (tasks'[t] = tasks[t] \/ tasks'[t].owner = None)
        /\ Returned(out) /\ Readable' => \A t \in Held(w) : tasks'[t].owner = None
    BY <1>2, <1>4, <1>6, <2>1, SeriesStep
  <2>3. \A t \in Task : Assigned(t)' <=> tasks'[t].owner # None
    BY <2>2 DEF Operated, TypeOK, Assigned
  <2>4. TypeOK'
    BY <1>2, <1>3, <1>5, <2>2, <2>3 DEF TypeOK
  <2>5. workers'[w].status = "revoked"
    BY <1>1, <1>6 DEF Took, TypeOK
  <2>6. quiet' = quiet \/ (quiet' = quiet \cup {w} /\ Returned(out))
    BY <1>1
  <2>7. Revoked'
    BY <1>2, <1>3, <2>2, <2>5, <2>6, FleetAssumption DEF Revoked, Held, TypeOK
  <2>8. QED
    BY <1>2, <1>5, <2>2, <2>4, <2>7, OperatorStep
<1>7. CASE ~(first = "kept" /\ file = "sound")
  <2>1. file' = FileAfter(first) /\ UNCHANGED tasks
    BY <1>1, <1>7
  <2>2. file' \in {"sound", "bare", "broken"} /\ (Readable' => Readable)
    BY <1>2, <2>1, FileFacts DEF TypeOK
  <2>3. Readable' => quiet' = quiet
    BY <1>1, <1>2, <1>7, <2>1, FileFacts DEF TypeOK, Readable
  <2>4. TypeOK' /\ Revoked'
    BY <1>2, <1>3, <1>5, <2>1, <2>2, <2>3 DEF TypeOK, Assigned, Revoked, Held
  <2>5. \A t \in Task : Operated(t)
    BY <2>1 DEF Operated
  <2>6. QED
    BY <1>2, <1>5, <2>2, <2>4, <2>5, OperatorStep
<1>8. QED
  BY <1>6, <1>7

LEMMA SubmitStep ==
  ASSUME IndInv, NEW t \in Task, Submit(t)
  PROVE  IndInv' /\ Orderly
<1> USE DEF IndInv
<1>1. PICK out \in Outcome :
        /\ file' = FileAfter(out)
        /\ tasks' = IF Took(out)
                    THEN [tasks EXCEPT ![t].status = "queued", ![t].created = now]
                    ELSE tasks
  BY DEF Submit
<1>2. UNCHANGED <<now, workers, leases, loop, requests, runs, effect, report, quiet>>
  BY DEF Submit, history
<1>3. tasks[t].status = "absent"
  BY DEF Submit
<1>4. file' \in {"sound", "bare", "broken"} /\ (Readable' => Readable)
  BY <1>1, FileFacts DEF TypeOK, Submit
<1>5. now \in Nat
  BY FleetAssumption DEF TypeOK
<1>6. tasks' \in [Task -> FleetTask]
  <2>1. [tasks[t] EXCEPT !.status = "queued", !.created = now] \in FleetTask
    <3>1. tasks[t] \in FleetTask
      BY DEF TypeOK
    <3>2. QED
      BY <1>5, <3>1 DEF FleetTask
  <2>2. Took(out) => tasks' = [tasks EXCEPT ![t] = [tasks[t] EXCEPT !.status = "queued",
                                                                 !.created = now]]
    BY <1>1 DEF TypeOK
  <2>3. QED
    BY <1>1, <2>1, <2>2 DEF TypeOK
<1>7. /\ \A u \in Task : u # t => tasks'[u] = tasks[u]
      /\ tasks'[t].owner = tasks[t].owner /\ tasks'[t].lease = tasks[t].lease
      /\ tasks'[t].expires = tasks[t].expires
      /\ tasks'[t] = tasks[t] \/ tasks'[t].status = "queued"
  BY <1>1 DEF TypeOK, FleetTask
<1>8. TypeOK' /\ Revoked'
  BY <1>2, <1>3, <1>4, <1>6, <1>7 DEF TypeOK, Assigned, Revoked, Held
<1>9. now <= now' /\ \A u \in Task : Operated(u)
  BY <1>2, <1>3, <1>5, <1>7 DEF Operated
<1>10. QED
  BY <1>2, <1>4, <1>8, <1>9, OperatorStep

LEMMA RecoverExpiredStep ==
  ASSUME IndInv, RecoverExpired
  PROVE  IndInv' /\ Orderly
<1> USE DEF IndInv
<1>1. PICK out \in Outcome : Series(Overdue, out)
  BY DEF RecoverExpired
<1>2. UNCHANGED <<now, workers, leases, loop, requests, runs, effect, report, quiet>> /\ Readable
  BY DEF RecoverExpired, history
<1>3. Overdue \in SUBSET Task /\ \A t \in Overdue : Assigned(t)
  BY DEF Overdue
<1>4. /\ file' \in {"sound", "bare", "broken"} /\ (Readable' => Readable)
      /\ tasks' \in [Task -> FleetTask]
      /\ \A t \in Task : Operated(t) /\ (tasks'[t] = tasks[t] \/ tasks'[t].owner = None)
  BY <1>1, <1>2, <1>3, SeriesStep
<1>5. \A t \in Task : Assigned(t)' <=> tasks'[t].owner # None
  BY <1>4 DEF Operated, TypeOK, Assigned
<1>6. TypeOK'
  BY <1>2, <1>4, <1>5 DEF TypeOK
<1>7. Revoked'
  BY <1>2, <1>4, FleetAssumption DEF Revoked, Held, TypeOK
<1>8. now <= now'
  BY <1>2, FleetAssumption DEF TypeOK
<1>9. QED
  BY <1>2, <1>4, <1>6, <1>7, <1>8, OperatorStep

LEMMA TickStep ==
  ASSUME IndInv, Tick
  PROVE  IndInv' /\ Orderly
<1> USE DEF IndInv
<1>1. UNCHANGED <<file, workers, tasks, leases, loop, requests, runs, effect, report, quiet>>
  BY DEF Tick, server, history
<1>2. now \in Nat /\ now' \in 0..MaxTime /\ now <= now'
  BY FleetAssumption DEF Tick, TypeOK
<1>3. TypeOK' /\ Revoked' /\ (Readable' => Readable)
  BY <1>1, <1>2 DEF TypeOK, Assigned, Revoked, Held, Readable
<1>4. \A t \in Task : Operated(t)
  BY <1>1 DEF Operated
<1>5. QED
  BY <1>1, <1>2, <1>3, <1>4, OperatorStep

(***************************************************************************)
(* Handling a request: the coordinator's step and, for a sender that still  *)
(* waits, what it makes of the answer.                                     *)
(***************************************************************************)
LEMMA OneWaits ==
  ASSUME IndInv, NEW r \in requests, NEW q \in requests, r.live, q.live, q.loop = r.loop,
         q.kind = r.kind
  PROVE  q = r
<1>1. q \in Request /\ r \in Request
  BY DEF IndInv, TypeOK
<1>2. q.lease = r.lease /\ q.result = r.result
  BY <1>1 DEF IndInv, Sent, Request
<1>3. QED
  BY <1>1, <1>2 DEF Request

\* What the handling of r may do to a task.
Handled(r, t) ==
  \/ tasks'[t] = tasks[t]
  \/ /\ Assigned(t) /\ tasks'[t].status = "unknown"
     /\ tasks'[t].owner = None /\ tasks'[t].lease = 0
  \/ /\ Readable /\ r.kind = "complete" /\ t = r.lease.task /\ Assigned(t)
     /\ tasks'[t].status = r.result /\ r.result \in Final
     /\ tasks'[t].owner = None /\ tasks'[t].lease = 0
  \/ /\ Assigned(t) /\ tasks'[t].status = "assigned" /\ tasks'[t].owner = tasks[t].owner
     /\ tasks'[t].lease = tasks[t].lease /\ tasks'[t].expires = now + LeaseSeconds
  \/ /\ Readable /\ tasks[t].status = "queued" /\ tasks'[t].status = "assigned"
     /\ tasks'[t].expires = now + LeaseSeconds

\* What the server keeps in every such step.
Serves(r) ==
  /\ file' \in {"sound", "bare", "broken"} /\ (Readable' => Readable)
  /\ tasks' \in [Task -> FleetTask] /\ \A t \in Task : Assigned(t)' <=> tasks'[t].owner # None
  /\ leases' \in Nat
  /\ Readable' => \A w \in quiet : Held(w)' = {}
  /\ UNCHANGED <<now, workers, runs, effect, quiet>>
  /\ \A t \in Task : Handled(r, t)

\* The sender gets no answer it can build on: it gave up, or it is told an error
\* or that there is no task.
Unanswered(r) ==
  /\ requests' = requests \ {r}
  /\ loop' \in [Loop -> LoopState]
  /\ report' \in [Task -> Final \cup {"none"}]
  /\ \A m \in Loop : (r.live /\ m = r.loop) \/ loop'[m] = loop[m]
  /\ r.live => loop'[r.loop].stop = loop[r.loop].stop
  /\ r.live /\ r.kind # "complete" => report' = report
  /\ r.live /\ r.kind = "dispatch" =>
       /\ loop'[r.loop].main \in {"idle", "ended"} /\ loop'[r.loop].beat = loop[r.loop].beat
       /\ loop'[r.loop].lease = loop[r.loop].lease
  /\ r.live /\ r.kind = "renew" =>
       /\ loop'[r.loop].main = loop[r.loop].main /\ loop'[r.loop].beat = "failed"
       /\ loop'[r.loop].lease = loop[r.loop].lease /\ loop'[r.loop].result = loop[r.loop].result
  /\ r.live /\ r.kind = "complete" =>
       /\ loop'[r.loop].main = "idle" /\ loop'[r.loop].beat = loop[r.loop].beat
       /\ loop'[r.loop].lease = NoLease
       /\ report' = [report EXCEPT ![r.lease.task] = "unknown"]
  /\ ~r.live => report' = report

LEMMA ServesOrderly ==
  ASSUME NEW r \in requests, Serves(r)
  PROVE  Orderly
BY DEF Serves, Handled, Moved, Assigned, Orderly, Final

LEMMA UnansweredFacts ==
  ASSUME IndInv, NEW r \in requests, NEW ok \in {"yes", "nothing", "error"}, NEW lease,
         Answer(r, ok, lease), ~r.live \/ ok # "yes"
  PROVE  Unanswered(r)
<1> USE DEF IndInv
<1>1. /\ r.loop \in Loop /\ r.kind \in {"dispatch", "renew", "complete"} /\ r.live \in BOOLEAN
      /\ r.lease \in Lease
  BY RequestFields DEF TypeOK
<1>2. requests' = requests \ {r}
  BY DEF Answer
<1>3. CASE ~r.live
  BY <1>2, <1>3 DEF Answer, Unanswered, TypeOK
<1>4. CASE r.live /\ r.kind = "dispatch"
  <2>1. PICK new \in Dispatched(loop[r.loop], ok, lease) : loop' = [loop EXCEPT ![r.loop] = new]
    BY <1>4 DEF Answer, Hear
  <2>2. PICK next \in {"idle", "ended"} : new = [loop[r.loop] EXCEPT !.main = next]
    <3>1. CASE ok = "nothing"
      BY <2>1, <3>1 DEF Dispatched
    <3>2. CASE ok = "error"
      BY <2>1, <3>2 DEF Dispatched
    <3>3. QED
      BY <1>4, <3>1, <3>2
  <2>3. report' = report
    BY <1>4 DEF Answer, Hear
  <2>4. /\ new \in LoopState /\ new.main \in {"idle", "ended"} /\ new.beat = loop[r.loop].beat
        /\ new.lease = loop[r.loop].lease /\ new.stop = loop[r.loop].stop
    BY <1>1, <2>2 DEF TypeOK, LoopState
  <2>5. QED
    BY <1>1, <1>2, <1>4, <2>1, <2>3, <2>4 DEF Unanswered, TypeOK
<1>5. CASE r.live /\ r.kind = "renew"
  <2>1. loop' = [loop EXCEPT ![r.loop] = [loop[r.loop] EXCEPT !.beat = "failed"]]
    BY <1>5 DEF Answer, Hear, Beaten
  <2>2. report' = report
    BY <1>5 DEF Answer, Hear
  <2>3. loop' \in [Loop -> LoopState]
    BY <1>1, <2>1 DEF TypeOK, LoopState
  <2>4. QED
    BY <1>1, <1>2, <1>5, <2>1, <2>2, <2>3 DEF Unanswered, TypeOK, LoopState
<1>6. CASE r.live /\ r.kind = "complete"
  <2>1. loop' = [loop EXCEPT ![r.loop] = Reported(loop[r.loop])]
    BY <1>6 DEF Answer, Hear
  <2>2. loop[r.loop].lease = r.lease /\ r.lease.task \in Task
    BY <1>6 DEF Sent
  <2>3. report' = [report EXCEPT ![r.lease.task] = "unknown"]
    BY <1>6, <2>2 DEF Answer, Hear
  <2>4. /\ Reported(loop[r.loop]) \in LoopState
        /\ Reported(loop[r.loop]).main = "idle" /\ Reported(loop[r.loop]).lease = NoLease
        /\ Reported(loop[r.loop]).beat = loop[r.loop].beat
        /\ Reported(loop[r.loop]).stop = loop[r.loop].stop
    <3>1. loop[r.loop] \in LoopState
      BY <1>1 DEF TypeOK
    <3>2. QED
      BY <3>1, FinalFacts DEF LoopState, Reported, Final
  <2>5. report' \in [Task -> Final \cup {"none"}]
    BY <2>2, <2>3 DEF TypeOK, Final
  <2>6. QED
    BY <1>1, <1>2, <1>6, <2>1, <2>3, <2>4, <2>5 DEF Unanswered, TypeOK
<1>7. QED
  BY <1>1, <1>3, <1>4, <1>5, <1>6

LEMMA UnansweredStep ==
  ASSUME IndInv, NEW r \in requests, Serves(r), Unanswered(r)
  PROVE  IndInv' /\ Orderly
<1> USE DEF IndInv
<1>1. /\ r.loop \in Loop /\ r.kind \in {"dispatch", "renew", "complete"} /\ r.live \in BOOLEAN
      /\ r.lease \in Lease /\ \A q \in requests : q.loop \in Loop
           /\ q.kind \in {"dispatch", "renew", "complete"} /\ q.live \in BOOLEAN
  BY RequestFields DEF TypeOK
<1>2. requests' = requests \ {r}
  BY DEF Unanswered
<1>3. UNCHANGED <<now, workers, runs, effect, quiet>> /\ (Readable' => Readable)
  BY DEF Serves
<1>4. TypeOK'
  BY <1>2, <1>3 DEF TypeOK, Serves, Unanswered
<1>5. r.live /\ r.kind = "dispatch" => loop[r.loop].main = "asking"
  BY DEF Sent
<1>6. r.live /\ r.kind = "renew" =>
        /\ loop[r.loop].beat = "asking" /\ loop[r.loop].lease = r.lease
        /\ loop[r.loop].main \in {"claimed", "handling", "joining"}
  BY DEF Sent
<1>7. r.live /\ r.kind = "complete" =>
        loop[r.loop].main = "reporting" /\ loop[r.loop].lease = r.lease /\ r.lease.task \in Task
  BY DEF Sent
<1>8. \A m \in Loop : loop'[m].main \in Holding =>
        /\ loop[m].main = loop'[m].main /\ loop[m].lease = loop'[m].lease
        /\ loop[m].result = loop'[m].result
  BY <1>1, <1>7 DEF Unanswered, Holding
<1>9. LoopShape'
  BY <1>1, <1>5, <1>6, <1>7 DEF LoopShape, Unanswered, Holding
<1>10. Sent'
  <2> SUFFICES ASSUME NEW q \in requests'
               PROVE  LET me == loop'[q.loop]
                      IN /\ q.kind = "dispatch" => q.lease = NoLease
                         /\ q.kind # "dispatch" => q.lease.task \in Task
                         /\ q.kind # "complete" => q.result = "none"
                         /\ q.live /\ q.kind = "dispatch" => me.main = "asking"
                         /\ q.live /\ q.kind = "renew" =>
                              /\ me.beat = "asking" /\ me.lease = q.lease
                              /\ me.main \in {"claimed", "handling", "joining"}
                         /\ q.live /\ q.kind = "complete" =>
                              /\ me.main = "reporting" /\ me.lease = q.lease
                              /\ me.result = q.result
    BY DEF Sent
  <2>1. q \in requests /\ q # r
    BY <1>2
  <2>2. CASE q.live /\ r.live /\ q.loop = r.loop
    <3>1. q.kind # r.kind
      BY <2>1, <2>2, OneWaits
    <3>2. QED
      BY <1>1, <2>1, <2>2, <3>1 DEF Sent, LoopShape, Holding
  <2>3. CASE ~(q.live /\ r.live /\ q.loop = r.loop)
    BY <1>1, <2>1, <2>3 DEF Sent, Unanswered
  <2>4. QED
    BY <2>2, <2>3
<1>11. Untouched'
  <2>1. \A t \in Task : tasks'[t].status \in {"absent", "queued"} => tasks'[t] = tasks[t]
    BY DEF Serves, Handled, Final
  <2>2. \A t \in Task : Readable /\ tasks[t].status \in {"absent", "queued"} =>
          report'[t] = report[t]
    BY <1>1, <1>7 DEF Untouched, Unanswered, About, TypeOK
  <2>3. QED
    BY <1>2, <1>3, <1>8, <2>1, <2>2 DEF Untouched, Holds, About
<1>12. OneHolder'
  BY <1>8 DEF OneHolder, Holds
<1>13. Unsettled'
  <2> SUFFICES ASSUME NEW m \in Loop, loop'[m].main \in {"claimed", "handling"}
               PROVE  LET t == loop'[m].lease.task
                      IN /\ effect'[t] = "none" /\ report'[t] = "none"
                         /\ \A q \in requests' : ~(q.kind = "complete" /\ q.lease.task = t)
                         /\ tasks'[t].status \notin {"completed", "failed", "cancelled"}
                         /\ loop'[m].main = "claimed" => runs'[t] = 0
    BY DEF Unsettled
  <2>1. loop[m].main = loop'[m].main /\ loop[m].lease = loop'[m].lease
    BY <1>8 DEF Holding
  <2>2. loop[m].lease.task \in Task
    BY <2>1 DEF LoopShape, Holding
  <2>3. ~(r.kind = "complete" /\ r.lease.task = loop[m].lease.task)
    BY <2>1 DEF Unsettled
  <2>4. report'[loop[m].lease.task] = report[loop[m].lease.task]
    BY <1>1, <1>7, <2>2, <2>3 DEF Unanswered, TypeOK
  <2>5. tasks'[loop[m].lease.task].status \notin {"completed", "failed", "cancelled"}
    BY <2>1, <2>2, <2>3 DEF Unsettled, Serves, Handled
  <2>6. QED
    BY <1>2, <1>3, <2>1, <2>4, <2>5 DEF Unsettled
<1>14. AtMostOnce'
  BY <1>3 DEF AtMostOnce
<1>15. TrueResults'
  BY <1>2, <1>3, <1>8 DEF TrueResults, Holding
<1>16. Truthful'
  <2> SUFFICES ASSUME NEW t \in Task
               PROVE  /\ tasks'[t].status = "completed" => effect'[t] = "returned"
                      /\ tasks'[t].status = "failed" => effect'[t] = "raised"
                      /\ tasks'[t].status = "cancelled" => effect'[t] # "returned"
                      /\ report'[t] \notin {"none", "unknown"} =>
                           tasks'[t].status = report'[t] \/ ~Readable'
    BY DEF Truthful
  <2>1. r.kind = "complete" => Fits(r.result, effect[r.lease.task])
    BY DEF TrueResults
  <2>2. /\ tasks'[t].status = "completed" => effect[t] = "returned"
        /\ tasks'[t].status = "failed" => effect[t] = "raised"
        /\ tasks'[t].status = "cancelled" => effect[t] # "returned"
    BY <2>1 DEF Truthful, Serves, Handled, Fits
  <2>3. report'[t] \notin {"none", "unknown"} => report'[t] = report[t]
    BY <1>1, <1>7 DEF Unanswered, TypeOK
  <2>4. report[t] \in Final \cup {"none"}
    BY DEF TypeOK
  <2>5. report[t] \notin {"none", "unknown"} /\ Readable => tasks'[t] = tasks[t]
    BY <2>4 DEF Truthful, Serves, Handled, Assigned, Final
  <2>6. QED
    BY <1>3, <2>2, <2>3, <2>5 DEF Truthful
<1>17. Copies'
  <2>1. \A m \in Loop : loop'[m].lease = loop[m].lease \/ loop'[m].lease = NoLease
    BY <1>1 DEF Unanswered
  <2>2. \A m \in Loop : /\ loop[m].lease.id \in Nat /\ loop[m].lease.expires \in Nat
                        /\ loop[m].lease.task # None =>
                             /\ loop[m].lease.task \in Task /\ loop[m].lease.id > 0
                             /\ Holds(m, loop[m].lease.task)
    BY FinalFacts DEF LoopShape, TypeOK, LoopState, Lease, Holds
  <2>3. now \in Nat /\ LeaseSeconds \in Nat
    BY FleetAssumption DEF TypeOK
  <2>4. \A m \in Loop : loop'[m].lease.expires <= now' + LeaseSeconds
    BY <1>3, <2>1, <2>2, <2>3, FinalFacts DEF Copies
  <2>5. LeaseCovers'
    <3> SUFFICES ASSUME Readable', NEW m \in Loop, loop'[m].lease.task # None,
                        tasks'[loop'[m].lease.task].lease = loop'[m].lease.id
                 PROVE  loop'[m].lease.expires <= tasks'[loop'[m].lease.task].expires
      BY DEF LeaseCovers
    <3>1. loop'[m].lease = loop[m].lease
      BY <2>1, FinalFacts
    <3>2. loop[m].lease.task \in Task
      BY <2>2, <3>1
    <3>3. loop[m].lease.expires <= now + LeaseSeconds
      BY DEF Copies
    <3>4. tasks[loop[m].lease.task].status # "queued"
      BY <1>3, <2>2, <3>1 DEF Untouched
    <3>5. tasks[loop[m].lease.task].lease = loop[m].lease.id =>
            loop[m].lease.expires <= tasks[loop[m].lease.task].expires
      BY <1>3, <3>1 DEF Copies, LeaseCovers
    <3>6. QED
      BY <2>2, <3>1, <3>2, <3>3, <3>4, <3>5 DEF Serves, Handled
  <2>6. QED
    BY <2>4, <2>5 DEF Copies
<1>18. Revoked'
  BY <1>3 DEF Revoked, Serves
<1>19. QED
  BY <1>4, <1>9, <1>10, <1>11, <1>12, <1>13, <1>14, <1>15, <1>16, <1>17, <1>18, ServesOrderly

LEMMA RequestFacts ==
  ASSUME IndInv, NEW r \in requests
  PROVE  /\ r.loop \in Loop /\ r.kind \in {"dispatch", "renew", "complete"}
         /\ r.live \in BOOLEAN /\ r.lease \in Lease
         /\ r.kind # "dispatch" => r.lease.task \in Task
         /\ r.kind = "complete" => r.result \in Final
BY RequestFields DEF IndInv, TypeOK, Sent, TrueResults, Fits

LEMMA Idle ==
  ASSUME IndInv, NEW r \in requests, UNCHANGED <<now, server, runs, effect, quiet>>
  PROVE  Serves(r)
<1> USE DEF IndInv
<1>1. \A t \in Task : Handled(r, t)
  BY DEF Handled, server
<1>2. QED
  BY <1>1 DEF Serves, server, TypeOK, Assigned, Readable, Revoked, Held

LEMMA RefusedStep ==
  ASSUME IndInv, NEW r \in requests, DispatchNothing(r) \/ Refuse(r)
  PROVE  IndInv' /\ Orderly
<1>1. Serves(r)
  BY Idle DEF DispatchNothing, Refuse
<1>2. PICK ok \in {"nothing", "error"} : Answer(r, ok, NoLease)
  BY DEF DispatchNothing, Refuse
<1>3. QED
  BY <1>1, <1>2, UnansweredFacts, UnansweredStep

\* One event about one task, if the append takes it.
LEMMA OneTask ==
  ASSUME IndInv, Readable, NEW r \in requests, NEW t \in Task, NEW new \in FleetTask,
         NEW out \in Outcome,
         file' = FileAfter(out),
         tasks' = IF Took(out) THEN [tasks EXCEPT ![t] = new] ELSE tasks,
         leases' \in Nat,
         UNCHANGED <<now, workers, runs, effect, quiet>>,
         (new.status = "assigned") <=> (new.owner # None),
         new.owner \notin quiet,
         tasks'[t] = new => Handled(r, t)
  PROVE  Serves(r)
<1> USE DEF IndInv
<1>1. file' \in {"sound", "bare", "broken"} /\ (Readable' => Readable)
  BY FileFacts DEF TypeOK
<1>2. tasks' \in [Task -> FleetTask]
  BY DEF TypeOK
<1>3. \A u \in Task : tasks'[u] = tasks[u] \/ (u = t /\ tasks'[u] = new)
  BY DEF TypeOK
<1>4. \A u \in Task : Assigned(u)' <=> tasks'[u].owner # None
  BY <1>3 DEF TypeOK, Assigned
<1>5. \A w \in quiet : Held(w)' = {}
  BY <1>3 DEF Revoked, Held
<1>6. \A u \in Task : Handled(r, u)
  BY <1>3 DEF Handled
<1>7. QED
  BY <1>1, <1>2, <1>4, <1>5, <1>6 DEF Serves

LEMMA NobodyIsQuiet == ASSUME IndInv PROVE None \notin quiet
BY FleetAssumption DEF IndInv, TypeOK

LEMMA LateStep ==
  ASSUME IndInv, NEW r \in requests, Late(r)
  PROVE  IndInv' /\ Orderly
<1>1. r.lease.task \in Task /\ Assigned(r.lease.task) /\ Readable
  BY RequestFacts DEF Late, Current
<1>2. PICK out \in Outcome :
        /\ file' = FileAfter(out)
        /\ tasks' = IF Took(out) THEN Expire({r.lease.task}) ELSE tasks
  BY DEF Late
<1>3. UNCHANGED <<now, workers, leases, runs, effect, quiet>> /\ Answer(r, "error", NoLease)
  BY DEF Late
<1>4. TypeOK /\ "unknown" \in Final
  BY DEF IndInv, Final
<1>5. /\ Expired(r.lease.task) \in FleetTask /\ Expired(r.lease.task).status = "unknown"
      /\ Expired(r.lease.task).owner = None /\ Expired(r.lease.task).lease = 0
  BY <1>1, <1>4, SettledType DEF Expired
<1>6. Expire({r.lease.task}) = [tasks EXCEPT ![r.lease.task] = Expired(r.lease.task)]
  BY <1>4 DEF Expire, TypeOK
<1>7. leases' \in Nat
  BY <1>3, <1>4 DEF TypeOK
<1>8. tasks'[r.lease.task] = Expired(r.lease.task) => Handled(r, r.lease.task)
  BY <1>1, <1>5 DEF Handled
<1>9. Serves(r)
  BY <1>1, <1>2, <1>3, <1>5, <1>6, <1>7, <1>8, NobodyIsQuiet, OneTask
<1>10. QED
  BY <1>3, <1>9, UnansweredFacts, UnansweredStep

LEMMA CompleteServes ==
  ASSUME IndInv, NEW r \in requests, NEW out \in Outcome, r.kind = "complete", Readable,
         Assigned(r.lease.task), file' = FileAfter(out),
         tasks' = IF Took(out)
                  THEN [tasks EXCEPT ![r.lease.task] = Settled(r.lease.task, r.result)] ELSE tasks,
         UNCHANGED <<now, workers, leases, runs, effect, quiet>>
  PROVE  Serves(r)
<1>1. r.lease.task \in Task /\ r.result \in Final
  BY RequestFacts
<1>2. TypeOK
  BY DEF IndInv
<1>3. /\ Settled(r.lease.task, r.result) \in FleetTask
      /\ Settled(r.lease.task, r.result).status = r.result
      /\ Settled(r.lease.task, r.result).owner = None
      /\ Settled(r.lease.task, r.result).lease = 0
  BY <1>1, <1>2, SettledType
<1>4. r.result # "assigned"
  BY <1>1 DEF Final
<1>5. leases' \in Nat
  BY <1>2 DEF TypeOK
<1>6. tasks'[r.lease.task] = Settled(r.lease.task, r.result) => Handled(r, r.lease.task)
  BY <1>1, <1>3 DEF Handled
<1>7. QED
  BY <1>1, <1>3, <1>4, <1>5, <1>6, NobodyIsQuiet, OneTask

LEMMA RenewServes ==
  ASSUME IndInv, NEW r \in requests, NEW out \in Outcome, r.kind = "renew", Readable,
         Assigned(r.lease.task), file' = FileAfter(out),
         tasks' = IF Took(out)
                  THEN [tasks EXCEPT ![r.lease.task] = Renewed(r.lease.task)] ELSE tasks,
         UNCHANGED <<now, workers, leases, runs, effect, quiet>>
  PROVE  Serves(r)
<1>1. r.lease.task \in Task
  BY RequestFacts
<1>2. TypeOK /\ Revoked
  BY DEF IndInv
<1>3. now + LeaseSeconds \in Nat
  BY <1>2, FleetAssumption DEF TypeOK
<1>4. tasks[r.lease.task] \in FleetTask
  BY <1>1, <1>2 DEF TypeOK
<1>5. /\ Renewed(r.lease.task) \in FleetTask
      /\ Renewed(r.lease.task).status = tasks[r.lease.task].status
      /\ Renewed(r.lease.task).owner = tasks[r.lease.task].owner
      /\ Renewed(r.lease.task).lease = tasks[r.lease.task].lease
      /\ Renewed(r.lease.task).expires = now + LeaseSeconds
  BY <1>3, <1>4 DEF FleetTask, Renewed
<1>6. tasks[r.lease.task].status = "assigned" /\ tasks[r.lease.task].owner # None
  BY <1>1, <1>2 DEF TypeOK, Assigned
<1>7. tasks[r.lease.task].owner \notin quiet
  BY <1>1, <1>2 DEF Revoked, Held
<1>8. leases' \in Nat
  BY <1>2 DEF TypeOK
<1>9. tasks'[r.lease.task] = Renewed(r.lease.task) => Handled(r, r.lease.task)
  BY <1>1, <1>5, <1>6 DEF Handled, Assigned
<1>10. QED
  BY <1>1, <1>5, <1>6, <1>7, <1>8, <1>9, OneTask

LEMMA DispatchServes ==
  ASSUME IndInv, NEW r \in requests, NEW t \in Task, NEW out \in Outcome, r.kind = "dispatch",
         Eligible(WorkerOf[r.loop]), t \in Candidates(WorkerOf[r.loop]),
         file' = FileAfter(out),
         leases' = IF out \in {"lost", "torn"} THEN leases ELSE leases + 1,
         tasks' = IF Took(out)
                  THEN [tasks EXCEPT ![t].status = "assigned", ![t].owner = WorkerOf[r.loop],
                                     ![t].lease = leases + 1, ![t].expires = now + LeaseSeconds]
                  ELSE tasks,
         UNCHANGED <<now, workers, runs, effect, quiet>>
  PROVE  Serves(r)
<1> DEFINE w == WorkerOf[r.loop]
           new == [tasks[t] EXCEPT !.status = "assigned", !.owner = w, !.lease = leases + 1,
                                   !.expires = now + LeaseSeconds]
<1>1. TypeOK /\ Revoked
  BY DEF IndInv
<1>2. w \in Worker /\ w # None
  BY RequestFacts, FleetAssumption
<1>3. tasks[t].status = "queued" /\ Readable /\ w \notin quiet
  BY <1>1 DEF Candidates, Eligible, Revoked
<1>4. now + LeaseSeconds \in Nat /\ leases + 1 \in Nat /\ leases' \in Nat
  BY <1>1, FleetAssumption DEF TypeOK
<1>5. tasks[t] \in FleetTask
  BY <1>1 DEF TypeOK
<1>6. new \in FleetTask /\ new.status = "assigned" /\ new.owner = w
  BY <1>2, <1>4, <1>5 DEF FleetTask
<1>7. new.expires = now + LeaseSeconds
  BY <1>5 DEF FleetTask
<1>8. Took(out) => tasks' = [tasks EXCEPT ![t] = new]
  BY <1>1 DEF TypeOK
<1>9. tasks' = IF Took(out) THEN [tasks EXCEPT ![t] = new] ELSE tasks
  BY <1>8
<1>10. tasks'[t] = new => Handled(r, t)
  BY <1>3, <1>6, <1>7 DEF Handled
<1> HIDE DEF w, new
<1>11. QED
  BY <1>2, <1>3, <1>4, <1>6, <1>9, <1>10, OneTask

LEMMA AssignedStep ==
  ASSUME IndInv, NEW r \in requests, NEW t \in Task, r.kind = "dispatch", r.live,
         Serves(r), Readable, tasks[t].status = "queued",
         \A u \in Task : tasks'[u] = tasks[u] \/ u = t,
         Readable' => /\ tasks'[t].status = "assigned" /\ tasks'[t].lease = leases + 1
                      /\ tasks'[t].expires = now + LeaseSeconds,
         Answer(r, "yes", [task |-> t, id |-> leases + 1, expires |-> now + LeaseSeconds])
  PROVE  IndInv' /\ Orderly
<1> DEFINE l == r.loop
           lease == [task |-> t, id |-> leases + 1, expires |-> now + LeaseSeconds]
<1> USE DEF IndInv
<1>1. l \in Loop /\ requests' = requests \ {r} /\ report' = report
  BY RequestFacts DEF Answer, Hear
<1>2. loop' = [loop EXCEPT ![l] = [loop[l] EXCEPT !.main = "claimed", !.beat = "waiting",
                                                   !.lease = lease]]
  BY DEF Answer, Hear, Dispatched
<1>3. now \in Nat /\ LeaseSeconds \in Nat /\ leases \in Nat
  BY FleetAssumption DEF TypeOK
<1>4. lease \in Lease /\ lease.task = t /\ lease.id = leases + 1
      /\ lease.expires = now + LeaseSeconds
  BY <1>3 DEF Lease
<1> HIDE DEF lease
<1>5. loop[l].main = "asking" /\ loop[l] \in LoopState
  BY <1>1 DEF Sent, TypeOK
<1>6. /\ loop' \in [Loop -> LoopState]
      /\ \A m \in Loop : m # l => loop'[m] = loop[m]
      /\ loop'[l].main = "claimed" /\ loop'[l].beat = "waiting" /\ loop'[l].lease = lease
  BY <1>1, <1>2, <1>4, <1>5 DEF TypeOK, LoopState
<1>7. UNCHANGED <<now, workers, runs, effect, quiet>> /\ (Readable' => Readable)
  BY DEF Serves
<1>8. /\ runs[t] = 0 /\ effect[t] = "none" /\ report[t] = "none"
      /\ \A m \in Loop : ~Holds(m, t)
      /\ \A q \in requests : ~About(q, t)
  BY DEF Untouched
<1>9. \A u \in Task : Handled(r, u)
  BY DEF Serves
<1>10. TypeOK'
  BY <1>1, <1>6, <1>7 DEF TypeOK, Serves
<1>11. LoopShape'
  BY <1>1, <1>3, <1>4, <1>6 DEF LoopShape, Holding
<1>12. Sent'
  <2>1. \A q \in requests' : q \in requests /\ q # r /\ q.loop \in Loop
    BY <1>1, RequestFacts
  <2>2. \A q \in requests' : q.live => q.loop # l
    <3> SUFFICES ASSUME NEW q \in requests', q.live, q.loop = l
                 PROVE  FALSE
      OBVIOUS
    <3>1. q.kind # "dispatch"
      BY <2>1, OneWaits
    <3>2. q.kind \in {"renew", "complete"}
      BY <2>1, <3>1, RequestFacts
    <3>3. QED
      BY <1>5, <2>1, <3>2 DEF Sent
  <2>3. QED
    BY <1>6, <2>1, <2>2 DEF Sent
<1>13. Untouched'
  <2>1. \A u \in Task : tasks'[u].status \in {"absent", "queued"} => tasks'[u] = tasks[u]
    BY <1>9 DEF Handled, Final
  <2>2. Readable' => tasks'[t].status \notin {"absent", "queued"}
    OBVIOUS
  <2>3. QED
    BY <1>1, <1>4, <1>6, <1>7, <2>1, <2>2 DEF Untouched, Holds, About
<1>14. OneHolder'
  BY <1>4, <1>6, <1>8 DEF OneHolder, Holds
<1>15. Unsettled'
  <2>1. \A u \in Task : tasks'[u].status \in {"completed", "failed", "cancelled"} =>
          tasks'[u] = tasks[u]
    BY <1>9 DEF Handled
  <2>2. tasks[t].status \notin {"completed", "failed", "cancelled"}
    OBVIOUS
  <2>3. \A q \in requests' : ~(q.kind = "complete" /\ q.lease.task = t)
    BY <1>1, <1>8 DEF About
  <2>4. \A m \in Loop : loop[m].main \in {"claimed", "handling"} => loop[m].lease.task \in Task
    BY DEF LoopShape, Holding
  <2>5. QED
    BY <1>1, <1>4, <1>6, <1>7, <1>8, <2>1, <2>2, <2>3, <2>4 DEF Unsettled
<1>16. AtMostOnce'
  BY <1>7 DEF AtMostOnce
<1>17. TrueResults'
  BY <1>1, <1>6, <1>7 DEF TrueResults
<1>18. Truthful'
  BY <1>1, <1>7, <1>9 DEF Truthful, Handled, TypeOK, Assigned, Final, Untouched
<1>19. Copies'
  <2>1. \A m \in Loop : loop[m].lease.task # None =>
          loop[m].lease.task \in Task /\ Holds(m, loop[m].lease.task) /\ loop[m].lease.id > 0
    BY FinalFacts DEF LoopShape, Holds
  <2>2. \A m \in Loop : loop'[m].lease.expires <= now' + LeaseSeconds
    BY <1>3, <1>4, <1>6, <1>7 DEF Copies
  <2>3. LeaseCovers'
    <3> SUFFICES ASSUME Readable', NEW m \in Loop, loop'[m].lease.task # None,
                        tasks'[loop'[m].lease.task].lease = loop'[m].lease.id
                 PROVE  loop'[m].lease.expires <= tasks'[loop'[m].lease.task].expires
      BY DEF LeaseCovers
    <3>1. CASE m = l
      BY <1>3, <1>4, <1>6, <3>1
    <3>2. CASE m # l
      <4>1. loop'[m] = loop[m]
        BY <1>6, <3>2
      <4>2. loop[m].lease.task \in Task /\ tasks[loop[m].lease.task].status # "queued"
            /\ loop[m].lease.id \in Nat /\ loop[m].lease.id > 0
        BY <2>1, <4>1 DEF Untouched, TypeOK, LoopState, Lease
      <4>3. tasks'[loop[m].lease.task] = tasks[loop[m].lease.task]
        BY <4>2
      <4>4. QED
        BY <4>1, <4>3 DEF Copies, LeaseCovers
    <3>3. QED
      BY <3>1, <3>2
  <2>4. QED
    BY <2>2, <2>3 DEF Copies
<1>20. Revoked'
  BY <1>7 DEF Revoked, Serves
<1>21. QED
  BY <1>10, <1>11, <1>12, <1>13, <1>14, <1>15, <1>16, <1>17, <1>18, <1>19, <1>20,
     ServesOrderly

LEMMA RenewedStep ==
  ASSUME IndInv, NEW r \in requests, r.kind = "renew", r.live, Serves(r),
         \A u \in Task : tasks'[u] = tasks[u] \/ u = r.lease.task,
         Assigned(r.lease.task),
         tasks'[r.lease.task].status = "assigned",
         Readable' => tasks'[r.lease.task].expires = now + LeaseSeconds,
         Answer(r, "yes", [r.lease EXCEPT !.expires = now + LeaseSeconds])
  PROVE  IndInv' /\ Orderly
<1> DEFINE l == r.loop
           lease == [r.lease EXCEPT !.expires = now + LeaseSeconds]
<1> USE DEF IndInv
<1>1. l \in Loop /\ requests' = requests \ {r} /\ report' = report
      /\ r.lease \in Lease /\ r.lease.task \in Task
  BY RequestFacts DEF Answer, Hear
<1>2. loop' = [loop EXCEPT ![l] = [loop[l] EXCEPT !.beat = "waiting", !.lease = lease]]
  BY DEF Answer, Hear, Beaten
<1>3. now \in Nat /\ LeaseSeconds \in Nat
  BY FleetAssumption DEF TypeOK
<1>4. lease \in Lease /\ lease.task = r.lease.task /\ lease.id = r.lease.id
      /\ lease.expires = now + LeaseSeconds
  BY <1>1, <1>3 DEF Lease
<1> HIDE DEF lease
<1>5. /\ loop[l].main \in {"claimed", "handling", "joining"} /\ loop[l].beat = "asking"
      /\ loop[l].lease = r.lease /\ loop[l] \in LoopState
  BY <1>1 DEF Sent, TypeOK
<1>6. /\ loop' \in [Loop -> LoopState]
      /\ \A m \in Loop : m # l => loop'[m] = loop[m]
      /\ loop'[l].main = loop[l].main /\ loop'[l].beat = "waiting" /\ loop'[l].lease = lease
      /\ loop'[l].result = loop[l].result
  BY <1>1, <1>2, <1>4, <1>5 DEF TypeOK, LoopState
<1>7. UNCHANGED <<now, workers, runs, effect, quiet>> /\ (Readable' => Readable)
  BY DEF Serves
<1>8. \A m \in Loop : loop'[m].main = loop[m].main /\ loop'[m].result = loop[m].result
                      /\ loop'[m].lease.task = loop[m].lease.task
                      /\ loop'[m].lease.id = loop[m].lease.id
  BY <1>4, <1>5, <1>6
<1>9. TypeOK'
  BY <1>1, <1>6, <1>7 DEF TypeOK, Serves
<1>10. LoopShape'
  BY <1>4, <1>5, <1>6 DEF LoopShape, Holding
<1>11. Sent'
  <2>1. \A q \in requests' : q \in requests /\ q # r /\ q.loop \in Loop
    BY <1>1, RequestFacts
  <2>2. \A q \in requests' : q.live => q.loop # l
    <3> SUFFICES ASSUME NEW q \in requests', q.live, q.loop = l
                 PROVE  FALSE
      OBVIOUS
    <3>1. q.kind # "renew"
      BY <2>1, OneWaits
    <3>2. q.kind \in {"dispatch", "complete"}
      BY <2>1, <3>1, RequestFacts
    <3>3. QED
      BY <1>5, <2>1, <3>2 DEF Sent
  <2>3. QED
    BY <1>6, <2>1, <2>2 DEF Sent
<1>12. Untouched'
  BY <1>1, <1>7, <1>8 DEF Untouched, Holds, About
<1>13. OneHolder'
  BY <1>8 DEF OneHolder, Holds
<1>14. Unsettled'
  BY <1>1, <1>7, <1>8 DEF Unsettled, LoopShape, Holding
<1>15. AtMostOnce'
  BY <1>7 DEF AtMostOnce
<1>16. TrueResults'
  BY <1>1, <1>7, <1>8 DEF TrueResults
<1>17. Truthful'
  BY <1>1, <1>7 DEF Truthful, TypeOK, Assigned, Final
<1>18. Copies'
  <2>1. \A m \in Loop : loop'[m].lease.expires <= now' + LeaseSeconds
    BY <1>3, <1>4, <1>6, <1>7 DEF Copies
  <2>2. LeaseCovers'
    <3> SUFFICES ASSUME Readable', NEW m \in Loop, loop'[m].lease.task # None,
                        tasks'[loop'[m].lease.task].lease = loop'[m].lease.id
                 PROVE  loop'[m].lease.expires <= tasks'[loop'[m].lease.task].expires
      BY DEF LeaseCovers
    <3>1. CASE loop'[m].lease.task = r.lease.task
      BY <1>7, <2>1, <3>1
    <3>2. CASE loop'[m].lease.task # r.lease.task
      <4>1. loop'[m] = loop[m]
        BY <1>4, <1>6, <3>2
      <4>2. loop[m].lease.task \in Task
        BY <4>1, FinalFacts DEF LoopShape
      <4>3. QED
        BY <1>7, <3>2, <4>1, <4>2 DEF Copies, LeaseCovers
    <3>3. QED
      BY <3>1, <3>2
  <2>3. QED
    BY <2>1, <2>2 DEF Copies
<1>19. Revoked'
  BY <1>7 DEF Revoked, Serves
<1>20. QED
  BY <1>9, <1>10, <1>11, <1>12, <1>13, <1>14, <1>15, <1>16, <1>17, <1>18, <1>19,
     ServesOrderly

\* A completion that is kept: as if it were unanswered, but for the report.
LEMMA CompletedStep ==
  ASSUME IndInv, NEW r \in requests, r.kind = "complete", r.live, Serves(r),
         Readable' => tasks'[r.lease.task].status = r.result,
         Answer(r, "yes", NoLease)
  PROVE  IndInv' /\ Orderly
<1> DEFINE l == r.loop
           t == r.lease.task
<1> USE DEF IndInv
<1>1. l \in Loop /\ requests' = requests \ {r} /\ t \in Task /\ r.result \in Final
  BY RequestFacts DEF Answer
<1>2. /\ loop[l].main = "reporting" /\ loop[l].lease = r.lease /\ loop[l].result = r.result
      /\ loop[l] \in LoopState /\ loop[l].beat = "off"
  BY <1>1 DEF Sent, TypeOK, LoopShape, Holding
<1>3. loop' = [loop EXCEPT ![l] = Reported(loop[l])]
  BY DEF Answer, Hear
<1>4. report' = [report EXCEPT ![t] = r.result]
  BY <1>2 DEF Answer, Hear
<1>5. /\ Reported(loop[l]) \in LoopState /\ Reported(loop[l]).main = "idle"
      /\ Reported(loop[l]).lease = NoLease /\ Reported(loop[l]).beat = "off"
  BY <1>2, FinalFacts DEF LoopState, Reported, Final
<1>6. /\ loop' \in [Loop -> LoopState]
      /\ \A m \in Loop : m # l => loop'[m] = loop[m]
      /\ loop'[l].main = "idle" /\ loop'[l].beat = "off" /\ loop'[l].lease = NoLease
  BY <1>1, <1>3, <1>5 DEF TypeOK
<1>7. UNCHANGED <<now, workers, runs, effect, quiet>> /\ (Readable' => Readable)
  BY DEF Serves
<1>8. \A u \in Task : Handled(r, u)
  BY DEF Serves
<1>9. report' \in [Task -> Final \cup {"none"}]
  BY <1>1, <1>4 DEF TypeOK
<1>10. TypeOK'
  BY <1>1, <1>6, <1>7, <1>9 DEF TypeOK, Serves
<1>11. LoopShape'
  BY <1>6 DEF LoopShape, Holding
<1>12. Sent'
  <2>1. \A q \in requests' : q \in requests /\ q # r /\ q.loop \in Loop
    BY <1>1, RequestFacts
  <2>2. \A q \in requests' : q.live => q.loop # l
    <3> SUFFICES ASSUME NEW q \in requests', q.live, q.loop = l
                 PROVE  FALSE
      OBVIOUS
    <3>1. q.kind # "complete"
      BY <2>1, OneWaits
    <3>2. q.kind \in {"dispatch", "renew"}
      BY <2>1, <3>1, RequestFacts
    <3>3. QED
      BY <1>2, <2>1, <3>2 DEF Sent
  <2>3. QED
    BY <1>6, <2>1, <2>2 DEF Sent
<1>13. \A m \in Loop : loop'[m].main \in Holding => m # l /\ loop'[m] = loop[m]
  BY <1>6 DEF Holding
<1>14. Untouched'
  <2>1. \A u \in Task : tasks'[u].status \in {"absent", "queued"} => tasks'[u] = tasks[u]
    BY <1>8 DEF Handled, Final
  <2>2. \A u \in Task : Readable /\ tasks[u].status \in {"absent", "queued"} => u # t
    BY <1>1 DEF Untouched, About
  <2>3. \A u \in Task : u # t => report'[u] = report[u]
    BY <1>4 DEF TypeOK
  <2>4. QED
    BY <1>1, <1>7, <1>13, <2>1, <2>2, <2>3 DEF Untouched, Holds, About
<1>15. OneHolder'
  BY <1>13 DEF OneHolder, Holds
<1>16. Unsettled'
  <2> SUFFICES ASSUME NEW m \in Loop, loop'[m].main \in {"claimed", "handling"}
               PROVE  LET u == loop'[m].lease.task
                      IN /\ effect'[u] = "none" /\ report'[u] = "none"
                         /\ \A q \in requests' : ~(q.kind = "complete" /\ q.lease.task = u)
                         /\ tasks'[u].status \notin {"completed", "failed", "cancelled"}
                         /\ loop'[m].main = "claimed" => runs'[u] = 0
    BY DEF Unsettled
  <2>1. loop'[m] = loop[m]
    BY <1>13 DEF Holding
  <2>2. loop[m].lease.task \in Task
    BY <2>1 DEF LoopShape, Holding
  <2>3. loop[m].lease.task # t
    BY <2>1 DEF Unsettled
  <2>4. report'[loop[m].lease.task] = report[loop[m].lease.task]
    BY <1>4, <2>2, <2>3 DEF TypeOK
  <2>5. tasks'[loop[m].lease.task].status \notin {"completed", "failed", "cancelled"}
    BY <1>8, <2>1, <2>2, <2>3 DEF Unsettled, Handled
  <2>6. QED
    BY <1>1, <1>7, <2>1, <2>4, <2>5 DEF Unsettled
<1>17. AtMostOnce'
  BY <1>7 DEF AtMostOnce
<1>18. TrueResults'
  BY <1>1, <1>7, <1>13 DEF TrueResults, Holding
<1>19. Truthful'
  <2>1. Fits(r.result, effect[t])
    BY DEF TrueResults
  <2>2. report'[t] = r.result /\ \A u \in Task : u # t => report'[u] = report[u]
    BY <1>1, <1>4 DEF TypeOK
  <2>3. \A u \in Task : /\ tasks'[u].status = "completed" => effect[u] = "returned"
                        /\ tasks'[u].status = "failed" => effect[u] = "raised"
                        /\ tasks'[u].status = "cancelled" => effect[u] # "returned"
    BY <1>8, <2>1 DEF Truthful, Handled, Fits
  <2>4. \A u \in Task : u # t /\ report[u] \notin {"none", "unknown"} /\ Readable =>
          tasks'[u] = tasks[u]
    BY <1>8 DEF Truthful, Handled, Assigned, Final, TypeOK
  <2>5. QED
    BY <1>7, <2>2, <2>3, <2>4 DEF Truthful
<1>20. Copies'
  <2>1. \A m \in Loop : m # l /\ loop[m].lease.task # None =>
          /\ loop[m].lease.task \in Task /\ Holds(m, loop[m].lease.task)
          /\ loop[m].lease.task # t
    BY <1>1, <1>2, FinalFacts DEF LoopShape, Holds, OneHolder, Holding
  <2>2. \A m \in Loop : loop[m].lease.expires <= now + LeaseSeconds /\ loop[m].lease.id \in Nat
                        /\ loop[m].lease.expires \in Nat
                        /\ (loop[m].lease.task # None => loop[m].lease.id > 0)
    BY FinalFacts DEF Copies, TypeOK, LoopState, Lease, LoopShape
  <2>3. now \in Nat /\ LeaseSeconds \in Nat
    BY FleetAssumption DEF TypeOK
  <2>4. \A m \in Loop : loop'[m].lease.expires <= now' + LeaseSeconds
    BY <1>6, <1>7, <2>2, <2>3, FinalFacts
  <2>5. LeaseCovers'
    <3> SUFFICES ASSUME Readable', NEW m \in Loop, loop'[m].lease.task # None,
                        tasks'[loop'[m].lease.task].lease = loop'[m].lease.id
                 PROVE  loop'[m].lease.expires <= tasks'[loop'[m].lease.task].expires
      BY DEF LeaseCovers
    <3>1. m # l /\ loop'[m] = loop[m]
      BY <1>6, FinalFacts
    <3>2. loop[m].lease.task \in Task /\ tasks[loop[m].lease.task].status # "queued"
      BY <1>7, <2>1, <3>1 DEF Untouched
    <3>3. loop[m].lease.task # t
      BY <2>1, <3>1
    <3>4. tasks[loop[m].lease.task].lease = loop[m].lease.id =>
            loop[m].lease.expires <= tasks[loop[m].lease.task].expires
      BY <1>7, <3>1 DEF Copies, LeaseCovers
    <3>5. QED
      BY <1>8, <2>2, <3>1, <3>2, <3>3, <3>4 DEF Handled
  <2>6. QED
    BY <2>4, <2>5 DEF Copies
<1>21. Revoked'
  BY <1>7 DEF Revoked, Serves
<1>22. QED
  BY <1>10, <1>11, <1>12, <1>14, <1>15, <1>16, <1>17, <1>18, <1>19, <1>20, <1>21,
     ServesOrderly

LEMMA DispatchStep ==
  ASSUME IndInv, NEW r \in requests, NEW t \in Task, Dispatch(r, t)
  PROVE  IndInv' /\ Orderly
<1> DEFINE lease == [task |-> t, id |-> leases + 1, expires |-> now + LeaseSeconds]
<1>1. PICK out \in Outcome :
        /\ file' = FileAfter(out)
        /\ leases' = IF out \in {"lost", "torn"} THEN leases ELSE leases + 1
        /\ tasks' = IF Took(out)
                    THEN [tasks EXCEPT ![t].status = "assigned", ![t].owner = WorkerOf[r.loop],
                                       ![t].lease = leases + 1,
                                       ![t].expires = now + LeaseSeconds]
                    ELSE tasks
        /\ IF Returned(out) THEN Answer(r, "yes", lease) ELSE Answer(r, "error", NoLease)
  BY DEF Dispatch
<1>2. /\ r.kind = "dispatch" /\ Eligible(WorkerOf[r.loop]) /\ t \in Candidates(WorkerOf[r.loop])
      /\ UNCHANGED <<now, workers, runs, effect, quiet>>
  BY DEF Dispatch
<1>3. Readable /\ tasks[t].status = "queued" /\ TypeOK
  BY <1>2 DEF Eligible, Candidates, IndInv
<1>4. Serves(r)
  BY <1>1, <1>2, DispatchServes
<1>5. CASE r.live /\ Returned(out)
  <2>1. Readable' => Took(out)
    BY <1>1, <1>3, <1>5, FileFacts DEF TypeOK, Readable, Took
  <2>2. Readable' => /\ tasks'[t].status = "assigned" /\ tasks'[t].lease = leases + 1
                     /\ tasks'[t].expires = now + LeaseSeconds
    BY <1>1, <1>3, <2>1 DEF TypeOK, FleetTask
  <2>3. \A u \in Task : tasks'[u] = tasks[u] \/ u = t
    BY <1>1, <1>3 DEF TypeOK
  <2>4. QED
    BY <1>1, <1>2, <1>3, <1>4, <1>5, <2>2, <2>3, AssignedStep
<1>6. CASE ~r.live \/ ~Returned(out)
  <2>1. PICK ok \in {"yes", "error"}, copy \in {lease, NoLease} :
          Answer(r, ok, copy) /\ (~r.live \/ ok # "yes")
    BY <1>1, <1>6
  <2>2. QED
    BY <1>4, <2>1, UnansweredFacts, UnansweredStep
<1>7. QED
  BY <1>5, <1>6, RequestFacts

LEMMA RenewStep ==
  ASSUME IndInv, NEW r \in requests, Renew(r)
  PROVE  IndInv' /\ Orderly
<1> DEFINE lease == [r.lease EXCEPT !.expires = now + LeaseSeconds]
<1>1. PICK out \in Outcome :
        /\ file' = FileAfter(out)
        /\ tasks' = IF Took(out)
                    THEN [tasks EXCEPT ![r.lease.task] = Renewed(r.lease.task)] ELSE tasks
        /\ IF Returned(out) THEN Answer(r, "yes", lease) ELSE Answer(r, "error", NoLease)
  BY DEF Renew
<1>2. /\ r.kind = "renew" /\ Readable /\ Assigned(r.lease.task)
      /\ UNCHANGED <<now, workers, leases, runs, effect, quiet>>
  BY DEF Renew, Current
<1>3. r.lease.task \in Task /\ TypeOK
  BY <1>2, RequestFacts DEF IndInv
<1>4. Serves(r)
  BY <1>1, <1>2, RenewServes
<1>5. CASE r.live /\ Returned(out)
  <2>1. Readable' => Took(out)
    BY <1>1, <1>2, <1>3, <1>5, FileFacts DEF TypeOK, Readable, Took
  <2>2. \A u \in Task : tasks'[u] = tasks[u] \/ u = r.lease.task
    BY <1>1, <1>3 DEF TypeOK
  <2>3. tasks[r.lease.task] \in FleetTask
    BY <1>3 DEF TypeOK
  <2>4. /\ Renewed(r.lease.task).status = tasks[r.lease.task].status
        /\ Renewed(r.lease.task).expires = now + LeaseSeconds
    BY <2>3 DEF Renewed, FleetTask
  <2>5. tasks'[r.lease.task] = IF Took(out) THEN Renewed(r.lease.task) ELSE tasks[r.lease.task]
    BY <1>1, <1>3 DEF TypeOK
  <2>6. tasks'[r.lease.task].status = "assigned"
    BY <1>2, <2>4, <2>5 DEF Assigned
  <2>7. Readable' => tasks'[r.lease.task].expires = now + LeaseSeconds
    BY <2>1, <2>4, <2>5
  <2>8. QED
    BY <1>1, <1>2, <1>4, <1>5, <2>2, <2>6, <2>7, RenewedStep
<1>6. CASE ~r.live \/ ~Returned(out)
  <2>1. PICK ok \in {"yes", "error"}, copy \in {lease, NoLease} :
          Answer(r, ok, copy) /\ (~r.live \/ ok # "yes")
    BY <1>1, <1>6
  <2>2. QED
    BY <1>4, <2>1, UnansweredFacts, UnansweredStep
<1>7. QED
  BY <1>5, <1>6, RequestFacts

LEMMA CompleteStep ==
  ASSUME IndInv, NEW r \in requests, Complete(r)
  PROVE  IndInv' /\ Orderly
<1>1. PICK out \in Outcome :
        /\ file' = FileAfter(out)
        /\ tasks' = IF Took(out)
                    THEN [tasks EXCEPT ![r.lease.task] = Settled(r.lease.task, r.result)]
                    ELSE tasks
        /\ Answer(r, IF Returned(out) THEN "yes" ELSE "error", NoLease)
  BY DEF Complete
<1>2. /\ r.kind = "complete" /\ Readable /\ Assigned(r.lease.task)
      /\ UNCHANGED <<now, workers, leases, runs, effect, quiet>>
  BY DEF Complete, Current
<1>3. r.lease.task \in Task /\ r.result \in Final /\ TypeOK
  BY <1>2, RequestFacts DEF IndInv
<1>4. Serves(r)
  BY <1>1, <1>2, CompleteServes
<1>5. CASE r.live /\ Returned(out)
  <2>1. Readable' => Took(out)
    BY <1>1, <1>2, <1>3, <1>5, FileFacts DEF TypeOK, Readable, Took
  <2>2. Settled(r.lease.task, r.result).status = r.result
    BY <1>3, SettledType
  <2>3. Readable' => tasks'[r.lease.task].status = r.result
    BY <1>1, <1>3, <2>1, <2>2 DEF TypeOK
  <2>4. Answer(r, "yes", NoLease)
    BY <1>1, <1>5
  <2>5. QED
    BY <1>2, <1>4, <1>5, <2>3, <2>4, CompletedStep
<1>6. CASE ~r.live \/ ~Returned(out)
  <2>1. PICK ok \in {"yes", "error"} :
          Answer(r, ok, NoLease) /\ (~r.live \/ ok # "yes")
    BY <1>1, <1>6
  <2>2. QED
    BY <1>4, <2>1, UnansweredFacts, UnansweredStep
<1>7. QED
  BY <1>5, <1>6, RequestFacts

-----------------------------------------------------------------------------
LEMMA InitStep ==
  ASSUME Init
  PROVE  IndInv
<1>1. PICK p \in Profile : workers = [w \in Worker |-> [status |-> "absent", profile |-> p]]
  BY DEF Init
<1>2. workers \in [Worker -> FleetWorker]
  BY <1>1 DEF FleetWorker
<1>3. 0 \in 0..MaxTime
  BY FleetAssumption
<1>4. [main |-> "idle", beat |-> "off", lease |-> NoLease, stop |-> FALSE,
       result |-> "none"] \in LoopState
  BY FinalFacts DEF LoopState
<1>5. TypeOK
  BY <1>2, <1>3, <1>4 DEF Init, TypeOK, FleetTask, Assigned
<1>6. LoopShape /\ Sent /\ Untouched /\ OneHolder /\ Unsettled /\ TrueResults
  BY <1>5 DEF Init, LoopShape, Sent, Untouched, OneHolder, Unsettled, TrueResults, Holds, Holding
<1>7. AtMostOnce /\ Truthful /\ Revoked
  BY DEF Init, AtMostOnce, Truthful, Revoked
<1>8. Copies
  BY FinalFacts, FleetAssumption DEF Init, Copies, LeaseCovers
<1>9. QED
  BY <1>5, <1>6, <1>7, <1>8 DEF IndInv

LEMMA CoordinateStep ==
  ASSUME IndInv, Coordinate
  PROVE  IndInv' /\ Orderly
<1>1. CASE \E w \in Worker : WorkerHeartbeat(w) \/ Revoke(w) \/ \E p \in Profile : Register(w, p)
  BY <1>1, WorkerHeartbeatStep, RevokeStep, RegisterStep
<1>2. CASE \E t \in Task : Submit(t)
  BY <1>2, SubmitStep
<1>3. CASE RecoverExpired \/ Tick
  BY <1>3, RecoverExpiredStep, TickStep
<1>4. CASE \E r \in requests :
             \/ DispatchNothing(r) \/ Late(r) \/ Refuse(r) \/ Renew(r) \/ Complete(r)
             \/ \E t \in Task : Dispatch(r, t)
  BY <1>4, RefusedStep, LateStep, RenewStep, CompleteStep, DispatchStep
<1>5. QED
  BY <1>1, <1>2, <1>3, <1>4 DEF Coordinate

LEMMA WorkStep ==
  ASSUME IndInv, Work
  PROVE  IndInv' /\ Orderly
<1>1. PICK l \in Loop :
        \/ Poll(l) \/ Timeout(l) \/ CallHandler(l) \/ SkipHandler(l) \/ HandlerEnds(l)
        \/ Report(l) \/ ReportTimeout(l) \/ Beat(l) \/ BeatTimeout(l)
        \/ RequestStop(l) \/ Restart(l)
  BY DEF Work
<1>2. IndInv'
  BY <1>1, PollStep, TimeoutStep, CallHandlerStep, SkipHandlerStep, HandlerEndsStep, ReportStep,
     ReportTimeoutStep, BeatStep, BeatTimeoutStep, RequestStopStep, RestartStep
<1>3. server' = server
  BY <1>1 DEF Poll, Timeout, CallHandler, SkipHandler, HandlerEnds, Report, ReportTimeout, Beat,
     BeatTimeout, RequestStop, Restart
<1>4. QED
  BY <1>2, <1>3 DEF server, Orderly, Moved

LEMMA InductiveStep ==
  ASSUME IndInv, [Next]_vars
  PROVE  IndInv' /\ Orderly
<1>1. CASE Next
  BY <1>1, CoordinateStep, WorkStep DEF Next
<1>2. CASE UNCHANGED vars
  <2>1. UNCHANGED <<now, file, workers, tasks, leases, loop, requests, runs, effect, report, quiet>>
    BY <1>2 DEF vars, server, history
  <2>2. TypeOK' /\ Revoked' /\ (Readable' => Readable) /\ now <= now'
    BY <2>1, FleetAssumption DEF IndInv, TypeOK, Assigned, Revoked, Held, Readable
  <2>3. \A t \in Task : Operated(t)
    BY <2>1 DEF Operated
  <2>4. QED
    BY <2>1, <2>2, <2>3, OperatorStep
<1>3. QED
  BY <1>1, <1>2

(* Every part of the strengthening holds of every state of the fleet: the     *)
(* initial state has it and no step of a loop or of the coordinator loses it. *)
THEOREM Inductive == Spec => []IndInv
<1>1. Init => IndInv
  BY InitStep
<1>2. IndInv /\ [Next]_vars => IndInv'
  BY InductiveStep
<1>3. QED
  BY <1>1, <1>2, PTL DEF Spec

(* Every variable keeps its type, and a task of the ledger has a worker       *)
(* exactly while it is assigned.                                           *)
THEOREM TypeCorrect == Spec => []TypeOK
<1>1. IndInv => TypeOK
  BY DEF IndInv
<1>2. QED
  BY <1>1, Inductive, PTL

(* However many loops share a worker, however late requests are handled and   *)
(* whenever leases run out, no task is handed to a second handler.           *)
THEOREM HandledAtMostOnce == Spec => []AtMostOnce
<1>1. IndInv => AtMostOnce
  BY DEF IndInv
<1>2. QED
  BY <1>1, Inductive, PTL

(* A task the ledger calls completed, failed or cancelled ended that way in   *)
(* its handler, and what _execute returned as settled is settled.            *)
THEOREM LedgerTruthful == Spec => []Truthful
<1>1. IndInv => Truthful
  BY DEF IndInv
<1>2. QED
  BY <1>1, Inductive, PTL

(* A loop never acts on a lease that outlives the ledger's.                 *)
THEOREM LeaseCovered == Spec => []LeaseCovers
<1>1. IndInv => LeaseCovers
  BY DEF IndInv, Copies
<1>2. QED
  BY <1>1, Inductive, PTL

(* A worker whose revocation has returned holds no task, ever again.         *)
THEOREM RevocationHolds == Spec => []RevokedHasNothing
<1>1. IndInv => RevokedHasNothing
  BY DEF IndInv, Revoked, RevokedHasNothing
<1>2. QED
  BY <1>1, Inductive, PTL

(* No late completion, renewal, revocation or recovery replaces an outcome.   *)
THEOREM OutcomesFinal == Spec => OutcomeIsFinal
<1>1. IndInv /\ [Next]_vars =>
        [\A t \in Task : tasks[t].status \in Final => tasks'[t] = tasks[t]]_vars
  BY InductiveStep DEF Orderly
<1>2. QED
  BY <1>1, Inductive, PTL DEF Spec, OutcomeIsFinal

-----------------------------------------------------------------------------
(* What a broken ledger comes to.                                           *)

LEMMA ServerStops ==
  ASSUME ~Readable, Next
  PROVE  UNCHANGED server
<1>1. CASE Coordinate
  BY <1>1 DEF Coordinate, WorkerHeartbeat, Revoke, Register, Submit, RecoverExpired, Tick,
    DispatchNothing, Late, Refuse, Renew, Complete, Dispatch, Eligible
<1>2. CASE Work
  BY <1>2 DEF Work, Poll, Timeout, CallHandler, SkipHandler, HandlerEnds, Report, ReportTimeout,
    Beat, BeatTimeout, RequestStop, Restart
<1>3. QED
  BY <1>1, <1>2 DEF Next

\* Once an event was torn, or written behind one without its newline, the fleet
\* stands still: no task or worker changes, and the ledger stays unreadable.
THEOREM BrokenForever ==
  Spec => [][~Readable => ~Readable' /\ UNCHANGED <<workers, tasks, leases>>]_vars
<1>1. ~Readable /\ [Next]_vars => ~Readable' /\ UNCHANGED <<workers, tasks, leases>>
  BY ServerStops DEF vars, server, Readable
<1>2. QED
  BY <1>1, PTL DEF Spec

-----------------------------------------------------------------------------
(* The refinement of TaskDelivery, for each task.                           *)

DeliveryStep(t) == [Delivery(t)!Next]_(Delivery(t)!vars)

\* Whoever is inside a handler has called it.
Called == \A l \in Loop : loop[l].main = "handling" => runs[loop[l].lease.task] = 1

\* What the steps of the coordinator come to.
LEMMA RecordDelivers ==
  ASSUME IndInv, NEW t \in Task, Moved(t), UNCHANGED <<runs, effect>>,
         Readable \/ tasks' = tasks, Readable' => Readable
  PROVE  DeliveryStep(t)
<1>1. CASE tasks'[t].status = tasks[t].status
  BY <1>1 DEF DeliveryStep, Delivery!Next, Delivery!Lose, Delivery!vars
<1>2. CASE tasks'[t].status # tasks[t].status
  <2>1. ASSUME NEW r \in requests, r.kind = "complete", t = r.lease.task,
               tasks'[t].status = r.result
        PROVE  \/ tasks'[t].status = "unknown"
               \/ tasks'[t].status = "completed" /\ effect[t] = "returned"
               \/ tasks'[t].status = "failed" /\ effect[t] = "raised"
               \/ tasks'[t].status = "cancelled" /\ effect[t] # "returned"
    BY <2>1 DEF IndInv, TrueResults, Fits, Final
  <2>2. Readable /\ runs'[t] = runs[t] /\ effect'[t] = effect[t]
    BY <1>2
  <2>3. \/ tasks[t].status = "absent" /\ tasks'[t].status = "queued"
        \/ tasks[t].status = "queued" /\ tasks'[t].status = "assigned"
        \/ /\ tasks[t].status = "assigned"
           /\ \/ tasks'[t].status = "unknown"
              \/ tasks'[t].status = "completed" /\ effect[t] = "returned"
              \/ tasks'[t].status = "failed" /\ effect[t] = "raised"
              \/ tasks'[t].status = "cancelled" /\ effect[t] # "returned"
    BY <1>2, <2>1 DEF Moved, Assigned
  <2>4. QED
    BY <2>2, <2>3 DEF DeliveryStep, Delivery!Next, Delivery!Submit, Delivery!Assign,
      Delivery!Settle, Delivery!Record
<1>3. QED
  BY <1>1, <1>2

\* What the steps of a loop come to.
LEMMA WorkDelivers ==
  ASSUME IndInv, Called, NEW l \in Loop, NEW t \in Task, UNCHANGED server,
         \/ UNCHANGED <<runs, effect>>
         \/ CallHandler(l) \/ HandlerEnds(l)
  PROVE  DeliveryStep(t)
<1> USE DEF IndInv, TypeOK
<1>1. CASE UNCHANGED <<runs, effect>>
  BY <1>1 DEF server, Readable, DeliveryStep, Delivery!vars
<1>2. ASSUME loop[l].main \in {"claimed", "handling"}, loop[l].lease.task = t
      PROVE  Delivery(t)!InHand /\ effect[t] = "none" /\ (loop[l].main = "claimed" => runs[t] = 0)
  <2>1. Holds(l, t) /\ effect[t] = "none" /\ tasks[t].status \notin {"completed", "failed", "cancelled"}
    BY <1>2 DEF Holds, Holding, Unsettled
  <2>2. Readable => tasks[t].status \notin {"absent", "queued"}
    BY <2>1 DEF Untouched
  <2>3. tasks[t].status \in {"absent", "queued", "assigned"} \cup Final
    BY DEF FleetTask
  <2>4. QED
    BY <1>2, <2>1, <2>2, <2>3 DEF Delivery!InHand, Final, Unsettled
<1>3. CASE CallHandler(l)
  <2>1. runs'[t] = IF loop[l].lease.task = t THEN runs[t] + 1 ELSE runs[t]
    BY <1>3 DEF CallHandler
  <2>2. loop[l].main = "claimed" /\ effect' = effect
    BY <1>3 DEF CallHandler
  <2>3. QED
    BY <1>2, <2>1, <2>2 DEF server, Readable, DeliveryStep, Delivery!Next,
      Delivery!CallHandler, Delivery!vars
<1>4. CASE HandlerEnds(l)
  <2>1. /\ loop[l].main = "handling" /\ runs' = runs
        /\ \/ effect'[t] = effect[t]
           \/ loop[l].lease.task = t /\ effect'[t] \in {"returned", "raised"}
    BY <1>4 DEF HandlerEnds
  <2>2. runs[loop[l].lease.task] = 1
    BY <2>1 DEF Called
  <2>3. QED
    BY <1>2, <2>1, <2>2 DEF server, Readable, DeliveryStep, Delivery!Next,
      Delivery!HandlerEnds, Delivery!vars
<1>5. QED
  BY <1>1, <1>3, <1>4

\* No step but CallHandler puts a loop into a handler.
Entered == \A m \in Loop : loop'[m].main = "handling" =>
             loop[m].main = "handling" /\ loop'[m].lease.task = loop[m].lease.task

LEMMA AnswerEnters ==
  ASSUME IndInv, NEW r \in requests, NEW ok, NEW lease, Answer(r, ok, lease),
         r.kind = "renew" /\ ok = "yes" => lease.task = r.lease.task
  PROVE  Entered
<1> USE DEF IndInv, TypeOK
<1>1. r.loop \in Loop /\ r.kind \in {"dispatch", "renew", "complete"} /\ loop[r.loop] \in LoopState
  BY RequestFields
<1>2. CASE ~r.live
  BY <1>2 DEF Answer, Entered
<1>3. CASE r.live
  <2> DEFINE me == loop[r.loop]
  <2>1. PICK new \in CASE r.kind = "dispatch" -> Dispatched(me, ok, lease)
                       [] r.kind = "renew"    -> Beaten(me, ok, lease)
                       [] OTHER               -> {Reported(me)} :
          loop' = [loop EXCEPT ![r.loop] = new]
    BY <1>3 DEF Answer, Hear
  <2>2. \A m \in Loop : loop'[m] = IF m = r.loop THEN new ELSE loop[m]
    BY <2>1
  <2>3. CASE r.kind = "dispatch"
    <3>1. new \in Dispatched(me, ok, lease)
      BY <2>1, <2>3
    <3>2. \E main \in {"claimed", "idle", "ended"} :
            \/ new = [me EXCEPT !.main = main, !.beat = "waiting", !.lease = lease]
            \/ new = [me EXCEPT !.main = main]
      <4>1. CASE ok = "yes"
        BY <3>1, <4>1 DEF Dispatched
      <4>2. CASE ok = "nothing"
        BY <3>1, <4>2 DEF Dispatched
      <4>3. CASE ok \notin {"yes", "nothing"}
        BY <3>1, <4>3 DEF Dispatched
      <4>4. QED
        BY <4>1, <4>2, <4>3
    <3>3. new.main # "handling"
      BY <1>1, <3>2 DEF LoopState
    <3>4. QED
      BY <1>1, <2>2, <3>3 DEF Entered
  <2>4. CASE r.kind = "renew"
    <3>1. me.lease = r.lease
      BY <1>3, <2>4 DEF Sent
    <3>2. new = IF ok = "yes" THEN [me EXCEPT !.beat = "waiting", !.lease = lease]
                ELSE [me EXCEPT !.beat = "failed"]
      BY <2>1, <2>4 DEF Beaten
    <3>3. new.main = me.main /\ new.lease = IF ok = "yes" THEN lease ELSE me.lease
      BY <1>1, <3>2 DEF LoopState
    <3>4. new.main = me.main /\ new.lease.task = me.lease.task
      BY <2>4, <3>1, <3>3
    <3>5. QED
      BY <1>1, <2>2, <3>4 DEF Entered
  <2>5. CASE r.kind = "complete"
    <3>1. new.main # "handling"
      BY <1>1, <2>1, <2>5 DEF Reported, LoopState
    <3>2. QED
      BY <1>1, <2>2, <3>1 DEF Entered
  <2>6. QED
    BY <1>1, <2>3, <2>4, <2>5
<1>4. QED
  BY <1>2, <1>3

LEMMA CoordinateEnters ==
  ASSUME IndInv, Coordinate
  PROVE  Entered /\ UNCHANGED <<runs, effect>>
<1>1. CASE \/ \E w \in Worker : WorkerHeartbeat(w) \/ Revoke(w) \/ \E p \in Profile : Register(w, p)
           \/ \E t \in Task : Submit(t)
           \/ RecoverExpired \/ Tick
  <2>1. UNCHANGED <<loop, runs, effect>>
    BY <1>1 DEF WorkerHeartbeat, Revoke, Register, Submit, RecoverExpired, Tick, history
  <2>2. QED
    BY <2>1 DEF Entered
<1>2. ASSUME NEW r \in requests, DispatchNothing(r) \/ Late(r) \/ Refuse(r) \/ Complete(r)
      PROVE  Entered /\ UNCHANGED <<runs, effect>>
  <2>1. r.kind = "renew" => Answer(r, "error", NoLease)
    BY <1>2 DEF DispatchNothing, Late, Refuse, Complete
  <2>2. \E ok \in {"yes", "nothing", "error"} : Answer(r, ok, NoLease)
    BY <1>2 DEF DispatchNothing, Late, Refuse, Complete
  <2>3. UNCHANGED <<runs, effect>>
    BY <1>2 DEF DispatchNothing, Late, Refuse, Complete
  <2>4. QED
    BY <2>1, <2>2, <2>3, AnswerEnters
<1>3. ASSUME NEW r \in requests, Renew(r) PROVE Entered /\ UNCHANGED <<runs, effect>>
  <2> DEFINE lease == [r.lease EXCEPT !.expires = now + LeaseSeconds]
  <2>1. (Answer(r, "yes", lease) \/ Answer(r, "error", NoLease)) /\ UNCHANGED <<runs, effect>>
    BY <1>3 DEF Renew
  <2>2. r.lease \in Lease
    BY RequestFields DEF IndInv, TypeOK
  <2>3. lease.task = r.lease.task
    BY <2>2 DEF Lease
  <2> HIDE DEF lease
  <2>4. QED
    BY <2>1, <2>3, AnswerEnters
<1>4. ASSUME NEW r \in requests, NEW t \in Task, Dispatch(r, t)
      PROVE  Entered /\ UNCHANGED <<runs, effect>>
  <2> DEFINE lease == [task |-> t, id |-> leases + 1, expires |-> now + LeaseSeconds]
  <2>1. /\ r.kind = "dispatch" /\ UNCHANGED <<runs, effect>>
        /\ Answer(r, "yes", lease) \/ Answer(r, "error", NoLease)
    BY <1>4 DEF Dispatch
  <2> HIDE DEF lease
  <2>2. QED
    BY <2>1, AnswerEnters
<1>5. QED
  BY <1>1, <1>2, <1>3, <1>4 DEF Coordinate

LEMMA CalledKept ==
  ASSUME Called, Entered, UNCHANGED runs
  PROVE  Called'
BY DEF Called, Entered

LEMMA WorkCalls ==
  ASSUME IndInv, Called, NEW l \in Loop,
         \/ Poll(l) \/ Timeout(l) \/ CallHandler(l) \/ SkipHandler(l) \/ HandlerEnds(l)
         \/ Report(l) \/ ReportTimeout(l) \/ Beat(l) \/ BeatTimeout(l)
         \/ RequestStop(l) \/ Restart(l)
  PROVE  Called'
<1> USE DEF IndInv, TypeOK
<1>1. loop[l] \in LoopState
  OBVIOUS
<1>2. CASE CallHandler(l)
  <2> DEFINE t == loop[l].lease.task
  <2>1. loop[l].main = "claimed" /\ t \in Task /\ runs[t] = 0
    BY <1>2 DEF CallHandler, LoopShape, Holding, Unsettled
  <2>2. \A u \in Task : runs'[u] = IF u = t THEN runs[u] + 1 ELSE runs[u]
    BY <1>2 DEF CallHandler
  <2>3. loop'[l].lease = loop[l].lease /\ \A m \in Loop : m # l => loop'[m] = loop[m]
    BY <1>1, <1>2 DEF CallHandler, Set, LoopState
  <2>4. ASSUME NEW m \in Loop, loop'[m].main = "handling" PROVE runs'[loop'[m].lease.task] = 1
    <3>1. CASE m = l
      BY <2>1, <2>2, <2>3, <3>1
    <3>2. CASE m # l
      <4>1. loop'[m] = loop[m] /\ loop[m].lease.task \in Task /\ runs[loop[m].lease.task] = 1
        BY <2>3, <2>4, <3>2 DEF Called, LoopShape, Holding
      <4>2. loop[m].lease.task # t
        BY <2>1, <4>1
      <4>3. QED
        BY <2>2, <4>1, <4>2
    <3>3. QED
      BY <3>1, <3>2
  <2>5. QED
    BY <2>4 DEF Called
<1>3. CASE ~CallHandler(l)
  <2>1. \A m \in Loop : m # l => loop'[m] = loop[m]
    BY <1>3 DEF Set, Poll, Timeout, SkipHandler, HandlerEnds, Report,
      ReportTimeout, Beat, BeatTimeout, RequestStop, Restart
  <2>2. loop'[l].main = "handling" => loop[l].main = "handling" /\ loop'[l].lease = loop[l].lease
    <3>1. CASE Poll(l) \/ Timeout(l)
      BY <1>1, <3>1 DEF Set, LoopState, Poll, Timeout
    <3>2. CASE SkipHandler(l)
      BY <1>1, <3>2 DEF Set, LoopState, SkipHandler
    <3>3. CASE HandlerEnds(l)
      BY <1>1, <3>3 DEF Set, LoopState, HandlerEnds
    <3>4. CASE Report(l)
      BY <1>1, <3>4 DEF Set, LoopState, Report
    <3>5. CASE ReportTimeout(l)
      BY <1>1, <3>5 DEF Set, LoopState, ReportTimeout, Reported
    <3>6. CASE Beat(l) \/ BeatTimeout(l)
      BY <1>1, <3>6 DEF Set, LoopState, Beat, BeatTimeout
    <3>7. CASE RequestStop(l) \/ Restart(l)
      BY <1>1, <3>7 DEF Set, LoopState, RequestStop, Restart
    <3>8. QED
      BY <1>3, <3>1, <3>2, <3>3, <3>4, <3>5, <3>6, <3>7
  <2>3. Entered
    BY <2>1, <2>2 DEF Entered
  <2>4. UNCHANGED runs
    BY <1>3 DEF Poll, Timeout, SkipHandler, HandlerEnds, Report,
      ReportTimeout, Beat, BeatTimeout, RequestStop, Restart, history
  <2>5. QED
    BY <2>3, <2>4, CalledKept
<1>4. QED
  BY <1>2, <1>3

LEMMA EveryStepDelivers ==
  ASSUME IndInv, Called, [Next]_vars
  PROVE  Called' /\ \A t \in Task : DeliveryStep(t)
<1>1. CASE Coordinate
  <2>1. Orderly /\ IndInv'
    BY <1>1, CoordinateStep
  <2>2. Entered /\ UNCHANGED <<runs, effect>>
    BY <1>1, CoordinateEnters
  <2>3. Readable \/ (tasks' = tasks /\ ~Readable')
    BY <1>1, ServerStops DEF Next, server, Readable
  <2>4. QED
    BY <2>1, <2>2, <2>3, CalledKept, RecordDelivers DEF Orderly
<1>2. CASE Work
  <2>1. PICK l \in Loop :
        \/ Poll(l) \/ Timeout(l) \/ CallHandler(l) \/ SkipHandler(l) \/ HandlerEnds(l)
        \/ Report(l) \/ ReportTimeout(l) \/ Beat(l) \/ BeatTimeout(l)
        \/ RequestStop(l) \/ Restart(l)
    BY <1>2 DEF Work
  <2>2. UNCHANGED server /\ (UNCHANGED <<runs, effect>> \/ CallHandler(l) \/ HandlerEnds(l))
    BY <2>1 DEF Poll, Timeout, CallHandler, SkipHandler, HandlerEnds, Report, ReportTimeout, Beat,
      BeatTimeout, RequestStop, Restart, history
  <2>3. QED
    BY <2>1, <2>2, WorkCalls, WorkDelivers
<1>3. CASE UNCHANGED vars
  BY <1>3 DEF vars, server, history, Called, Readable, DeliveryStep, Delivery!vars
<1>4. QED
  BY <1>1, <1>2, <1>3 DEF Next

\* For any workers, loops, clocks and faults of the ledger, each task is delivered
\* as TaskDelivery promises (RemoteWorkerFleet, RemoteFleetWorkerLoop).
THEOREM DeliveryKept == Spec => Delivers
<1>1. Init => Called /\ \A t \in Task : Delivery(t)!Init
  BY DEF Init, Called, Readable, Delivery!Init
<1>2. IndInv /\ Called /\ [Next]_vars => Called'
  BY EveryStepDelivers
<1>3. IndInv /\ Called /\ [Next]_vars
        => [\A t \in Task : [Delivery(t)!Next]_(Delivery(t)!vars)]_vars
  BY EveryStepDelivers DEF DeliveryStep
<1>4. QED
  BY <1>1, <1>2, <1>3, Inductive, PTL DEF Spec, Delivers
=============================================================================
