\* Two runtimes with one execution each compete for one slot; both may be
\* frozen, stopped, and crash and restart at any step, and the writes that end a
\* run may fail.  Three tickets let an execution run again while the other waits.
CONSTANTS
  e1 = e1
  e2 = e2
  e3 = e3
  r1 = r1
  r2 = r2
  Ticket = {t1, t2, t3}
  Execution = {e1, e2}
  Runtime = {r1, r2}
  Capacity <- OneSlot
  Owner <- TwoOwners
  Stops <- BothStops
  Freezes = TRUE
  Crashes = TRUE
  WriteFaults = TRUE
  None = None
SPECIFICATION Spec
INVARIANTS
  ActiveHoldsSlot
  NoLeakedSlot
  
PROPERTIES
  FinalStaysFinal
  CancelNotLost
  FrozenAdmitsNothing
CHECK_DEADLOCK FALSE
