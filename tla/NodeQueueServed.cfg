\* Three executions on two runtimes, nothing crashes, and users only cancel: accepted work leaves
\* the queue.
CONSTANTS
  e1 = e1
  e2 = e2
  e3 = e3
  r1 = r1
  r2 = r2
  Ticket = {t1, t2, t3}
  Execution = {e1, e2, e3}
  Runtime = {r1, r2}
  Capacity <- OneSlot
  Owner <- SharedOwners
  Stops <- OnlyCancel
  Freezes = FALSE
  Crashes = FALSE
  WriteFaults = FALSE
  None = None
SPECIFICATION FairSpec
INVARIANTS
  PendingCanClaim
PROPERTIES
  QueuedEventuallyLeaves
CHECK_DEADLOCK FALSE
