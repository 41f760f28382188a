\* Every thread is fair, a Provider may block until it is told to stop, and a
\* recovery service keeps coming back.
SPECIFICATION FairSpec
CONSTANTS
  Executions = {e1}
  NoExecution = NoExecution
  Preparations = {q1}
  Cancels = {c1}
  Recoverers = {r1}
  Publications = {}
  Workers = {}
  Nobody = Nobody
  Faults = TRUE
CHECK_DEADLOCK FALSE
PROPERTIES TurnIsStopped StartedRunSettles
