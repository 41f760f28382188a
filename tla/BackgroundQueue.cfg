\* Two worker processes and a recovery command on one Child Run submitted
\* twice; one crash, failing loop or unconfirmed append anywhere.
SPECIFICATION FairSpec
CONSTANTS
  TheChild = c1
  Children = {c1}
  Calls = {k1, k2}
  Target <- TwoCallsOneChild
  Slots = {s1, s2}
  RecoverySlot = s1
  Threads = {t1}
  Leases = {1, 2, 3}
  NoLease = 0
  Capacity = 2
  MaxFaults = 1
  Nobody = Nobody
INVARIANTS TypeOK OnePending TerminalAgrees
PROPERTIES TerminalIsKept KeepsContract SubmissionsSettle
