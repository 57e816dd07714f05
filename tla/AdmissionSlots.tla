---------------------------- MODULE AdmissionSlots ----------------------------
(***************************************************************************)
(* What host admission promises to the runtimes that share one machine,    *)
(* without its database rows and indexes: arrivals are admitted in the     *)
(* order they came, an execution has at most one live arrival, admission   *)
(* never fills more than the configured number of slots, and an arrival    *)
(* that left never comes back.                                             *)
(***************************************************************************)
EXTENDS Naturals, Sequences, FiniteSets

CONSTANTS Execution,   \* executions that ask for a slot
          Capacity     \* slot counts the host may be configured with

VARIABLES slots,       \* configured slot count, 0 before the host is configured
          arrivals,    \* who arrived, in order of arrival
          waiting,     \* arrivals that wait for a slot
          admitted     \* arrivals that hold a slot

vars == <<slots, arrivals, waiting, admitted>>

Live == waiting \cup admitted

Init ==
  /\ slots \in Capacity \cup {0}
  /\ arrivals = <<>>
  /\ waiting = {}
  /\ admitted = {}

Resize ==
  /\ slots' \in Capacity
  /\ UNCHANGED <<arrivals, waiting, admitted>>

Arrive(e) ==
  /\ \A a \in Live : arrivals[a] # e
  /\ arrivals' = Append(arrivals, e)
  /\ waiting' = waiting \cup {Len(arrivals) + 1}
  /\ UNCHANGED <<slots, admitted>>

Admit(a) ==
  /\ a \in waiting
  /\ \A b \in waiting : a <= b
  /\ Cardinality(admitted) < slots
  /\ waiting' = waiting \ {a}
  /\ admitted' = admitted \cup {a}
  /\ UNCHANGED <<slots, arrivals>>

(* Several may leave at once: those whose runtime died, or gave them up.     *)
Leave(some) ==
  /\ some # {}
  /\ waiting' = waiting \ some
  /\ admitted' = admitted \ some
  /\ UNCHANGED <<slots, arrivals>>

Next ==
  \/ Resize
  \/ \E e \in Execution : Arrive(e)
  \/ \E a \in Live : Admit(a)
  \/ \E some \in SUBSET Live : Leave(some)

Spec == Init /\ [][Next]_vars
===============================================================================
