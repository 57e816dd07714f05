------------------------------ MODULE AtMostOnce ------------------------------
(***************************************************************************)
(* What dispatching one execution id promises, without receipts, sockets   *)
(* and retries: the input is fixed once, at most one node takes it up, and *)
(* the server's verdict agrees with the nodes.  Accepted means that a node *)
(* holds the input; rejected means that no node does, and none ever will   *)
(* as long as calls are carried out in the order in which they were made.  *)
(***************************************************************************)
CONSTANTS Node, Request, None

VARIABLES input,     \* the input the id stands for
          holder,    \* the node that took the execution up
          verdict,   \* what the server answers to everyone who asks
          orderly    \* no call has overtaken an older one

vars == <<input, holder, verdict, orderly>>

Init ==
  /\ input = None
  /\ holder = None
  /\ verdict = "open"
  /\ orderly = TRUE

Fix(q) ==
  /\ input = None
  /\ input' = q
  /\ UNCHANGED <<holder, verdict, orderly>>

TakeUp(n) ==
  /\ input # None
  /\ holder = None
  /\ verdict = "open" \/ (verdict = "rejected" /\ ~orderly)
  /\ holder' = n
  /\ UNCHANGED <<input, verdict, orderly>>

Accept ==
  /\ verdict = "open"
  /\ holder # None
  /\ verdict' = "accepted"
  /\ UNCHANGED <<input, holder, orderly>>

Reject ==
  /\ verdict = "open"
  /\ holder = None \/ ~orderly
  /\ verdict' = "rejected"
  /\ UNCHANGED <<input, holder, orderly>>

Overtake ==
  /\ orderly' = FALSE
  /\ UNCHANGED <<input, holder, verdict>>

Next ==
  \/ \E q \in Request : Fix(q)
  \/ \E n \in Node : TakeUp(n)
  \/ Accept
  \/ Reject
  \/ Overtake

Spec == Init /\ [][Next]_vars
===============================================================================
