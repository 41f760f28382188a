\* ADR 0134 against a cancellation that completes before recovery holds the lease.
SPECIFICATION Spec
CONSTANTS
  Executions = {e1}
  NoExecution = NoExecution
  Preparations = {q1}
  Cancels = {c1}
  Recoverers = {r1}
  Publications = {}
  Workers = {}
  Nobody = Nobody
  Faults = FALSE
CHECK_DEADLOCK FALSE
INVARIANT OneTerminalRecord
