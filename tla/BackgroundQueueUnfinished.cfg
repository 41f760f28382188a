\* ADR 0147 against what a worker reports of an unfinished Child Run, without
\* any crash or failing append.
SPECIFICATION Spec
CONSTANTS
  TheChild = c1
  Children = {c1}
  Calls = {k1, k2}
  Target <- TwoCallsOneChild
  Slots = {s1, s2}
  RecoverySlot = s1
  Threads = {t1}
  Leases = {1, 2, 3}
  NoLease = 0
  Capacity = 2
  MaxFaults = 0
  Nobody = Nobody
INVARIANT UnfinishedStaysClaimed
