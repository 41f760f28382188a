CONSTANTS
  w1 = w1
  l1 = l1
  l2 = l2
  t1 = t1
  e1 = e1
  None = None
  Worker = {w1}
  Loop = {l1, l2}
  WorkerOf <- Owners
  Task = {t1}
  Tenant = {e1}
  TenantOf <- OneTenant
  Quota <- Quotas
  Profile <- Profiles
  LeaseSeconds = 2
  MaxTime = 3
  MaxLate = 1
SPECIFICATION Spec
SYMMETRY Symmetric
INVARIANTS TypeOK Truthful LeaseCovers RevokedHasNothing
PROPERTIES OutcomeIsFinal Delivers
CHECK_DEADLOCK FALSE
