\* An execution that is interrupted and resumed while it waits in the queue.
CONSTANTS
  e1 = e1
  e2 = e2
  e3 = e3
  r1 = r1
  r2 = r2
  Ticket = {t1, t2, t3, t4}
  Execution = {e1, e2}
  Runtime = {r1}
  Capacity <- OneSlot
  Owner <- OneOwner
  Stops <- BothStops
  Freezes = FALSE
  Crashes = FALSE
  WriteFaults = FALSE
  None = None
SPECIFICATION FairSpec
PROPERTIES
  QueuedEventuallyLeaves
CHECK_DEADLOCK FALSE
