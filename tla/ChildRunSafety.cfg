\* Two executors race for one Child, with one Host cancellation, one recovery
\* service, one handoff and one preparation; any append may end unconfirmed.
SPECIFICATION Spec
CONSTANTS
  Executions = {e1, e2}
  NoExecution = NoExecution
  Preparations = {q1}
  Cancels = {c1}
  Recoverers = {r1}
  Publications = {p1}
  Workers = {w1}
  Nobody = Nobody
  Faults = TRUE
CHECK_DEADLOCK FALSE
INVARIANTS TypeOK OneRunner InterruptedIsAbandoned OutcomeMatchesSession HandoffAgrees
PROPERTIES TerminalIsFinal ImplementsLifecycle KeepsContract
