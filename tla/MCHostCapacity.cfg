\* Two runtimes, two executions, three tickets: an execution can queue again
\* after its row is done, tickets of both runtimes interleave, and capacity
\* is raised and lowered while rows run.
CONSTANTS
  Ticket = {t1, t2, t3}
  Execution = {e1, e2}
  Runtime = {r1, r2}
  Capacity <- CapacityValues
SPECIFICATION FairSpec
INVARIANTS
  FreeSlotIsOffered
PROPERTIES
  ImplementsSlots
  
