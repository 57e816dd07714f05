----------------------------- MODULE HostCapacity -----------------------------
(***************************************************************************)
(* The host's durable admission queue (store/src/fleet/handoff/capacity.rs)*)
(* that every release runtime on one machine shares.  A row is a ticket of *)
(* one run of an execution; the row's global sequence number is its place  *)
(* in the FIFO, rows are never deleted, and a finished row stays as        *)
(* history.  Two index families are written in the same batch as the row:  *)
(* ticket -> sequence, and execution -> its one live row.                  *)
(*                                                                         *)
(* Every operation runs under the engine's write lease, so each is one     *)
(* atomic step here; a call that the code refuses, and a replay that only  *)
(* reads, changes nothing and is a stuttering step (EnqueueOutcome names   *)
(* the reason, for the modules that compose this one).                     *)
(***************************************************************************)
EXTENDS Naturals, Sequences, FiniteSets

CONSTANTS Ticket,      \* ticket ids (ULIDs), each minted for one run
          Execution,   \* execution ids
          Runtime,     \* release runtimes that share the host
          Capacity     \* max_runs values an operator may configure

ASSUME CapacityAssumption == Capacity \subseteq Nat \ {0}

VARIABLES maxRuns,     \* cap_key: the configured capacity, 0 while absent
          queue,       \* cq rows by sequence number
          ticketIndex, \* cq_ticket_index: sequence of a ticket, NoRow if absent
          liveIndex    \* cq_live_index: sequence of an execution's live row

vars == <<maxRuns, queue, ticketIndex, liveIndex>>

NoRow == 0
Phase == {"queued", "running", "done"}
Row == [ticket : Ticket, execution : Execution, runtime : Runtime, phase : Phase]

Queued  == {i \in DOMAIN queue : queue[i].phase = "queued"}
Running == {i \in DOMAIN queue : queue[i].phase = "running"}
Live    == Queued \cup Running

TypeOK ==
  /\ maxRuns \in Capacity \cup {0}
  /\ queue \in Seq(Row)
  /\ ticketIndex \in [Ticket -> Nat]
  /\ liveIndex \in [Execution -> Nat]

Init ==
  /\ maxRuns = 0
  /\ queue = <<>>
  /\ ticketIndex = [t \in Ticket |-> NoRow]
  /\ liveIndex = [e \in Execution |-> NoRow]

-------------------------------------------------------------------------------
(* Host start: the first value is kept by later starts.                     *)
InitializeCapacity(n) ==
  /\ maxRuns = 0
  /\ maxRuns' = n
  /\ UNCHANGED <<queue, ticketIndex, liveIndex>>

ConfigureCapacity(n) ==
  /\ maxRuns' = n
  /\ UNCHANGED <<queue, ticketIndex, liveIndex>>

(* Schedulers replay accepted tickets on every tick.                        *)
EnqueueOutcome(t, e, r) ==
  CASE /\ ticketIndex[t] # NoRow
       /\ LET row == queue[ticketIndex[t]]
          IN  row.execution = e /\ row.runtime = r /\ row.phase # "done" -> "replay"
    [] /\ ticketIndex[t] # NoRow
       /\ LET row == queue[ticketIndex[t]]
          IN  ~(row.execution = e /\ row.runtime = r /\ row.phase # "done") -> "conflict"
    [] ticketIndex[t] = NoRow /\ liveIndex[e] # NoRow -> "slot_taken"
    [] ticketIndex[t] = NoRow /\ liveIndex[e] = NoRow -> "new"

Enqueue(t, e, r) ==
  /\ EnqueueOutcome(t, e, r) = "new"
  /\ queue' = Append(queue, [ticket |-> t, execution |-> e, runtime |-> r, phase |-> "queued"])
  /\ ticketIndex' = [ticketIndex EXCEPT ![t] = Len(queue) + 1]
  /\ liveIndex' = [liveIndex EXCEPT ![e] = Len(queue) + 1]
  /\ UNCHANGED maxRuns

(* Mutant: finished rows still count as being ahead.                        *)
IsHeadOfHistory(i) == i \in Queued /\ \A j \in DOMAIN queue : i <= j

(* The lowest queued row of the whole host is the only one that may claim.  *)
IsHead(i) == i \in Queued /\ \A j \in Queued : i <= j

(* Mutant: off by one at the limit.                                         *)
CanClaimOneMore(t, r) ==
  /\ ticketIndex[t] # NoRow
  /\ queue[ticketIndex[t]].runtime = r
  /\ IsHead(ticketIndex[t])
  /\ Cardinality(Running) <= maxRuns

CanClaim(t, r) ==
  /\ ticketIndex[t] # NoRow
  /\ queue[ticketIndex[t]].runtime = r
  /\ IsHead(ticketIndex[t])
  /\ Cardinality(Running) < maxRuns

Claim(t, r) ==
  /\ CanClaim(t, r)
  /\ queue' = [queue EXCEPT ![ticketIndex[t]].phase = "running"]
  /\ UNCHANGED <<maxRuns, ticketIndex, liveIndex>>

(* Rows become history and their executions' live slots are free again.     *)
Retire(rows) ==
  /\ queue' = [i \in DOMAIN queue |->
                 IF i \in rows THEN [queue[i] EXCEPT !.phase = "done"] ELSE queue[i]]
  /\ liveIndex' = [e \in Execution |->
                     IF \E i \in rows : queue[i].execution = e THEN NoRow ELSE liveIndex[e]]
  /\ UNCHANGED <<maxRuns, ticketIndex>>

Finish(t, r) ==
  /\ ticketIndex[t] # NoRow
  /\ queue[ticketIndex[t]].runtime = r
  /\ queue[ticketIndex[t]].phase # "done"
  /\ Retire({ticketIndex[t]})

(* Restart recovery: only a running row, and only for its exact identity.   *)
Recover(t, e, r) ==
  /\ ticketIndex[t] # NoRow
  /\ queue[ticketIndex[t]].execution = e
  /\ queue[ticketIndex[t]].runtime = r
  /\ queue[ticketIndex[t]].phase = "running"
  /\ Retire({ticketIndex[t]})

(* The rows a runtime has to answer for.                                    *)
RuntimeTickets(r) == {i \in Live : queue[i].runtime = r}

Next ==
  \/ \E n \in Capacity : InitializeCapacity(n) \/ ConfigureCapacity(n)
  \/ \E t \in Ticket, r \in Runtime :
       \/ Claim(t, r)
       \/ Finish(t, r)
       \/ \E e \in Execution : Enqueue(t, e, r) \/ Recover(t, e, r)

Spec == Init /\ [][Next]_vars

(* A runtime's scheduler tries its tickets again on every tick, a host       *)
(* configures its capacity as it starts, and a run ends.                     *)
FinishRunning(t, r) ==
  /\ ticketIndex[t] \in Running
  /\ Finish(t, r)

FairSpec ==
  /\ Spec
  /\ WF_vars(\E n \in Capacity : InitializeCapacity(n))
  /\ \A t \in Ticket, r \in Runtime : WF_vars(Claim(t, r)) /\ WF_vars(FinishRunning(t, r))

-------------------------------------------------------------------------------
(* A restarted or duplicated scheduler cannot hold two slots for one         *)
(* execution: no two rows that are queued or running name the same one.      *)
OneLiveRowPerExecution ==
  \A i, j \in Live : queue[i].execution = queue[j].execution => i = j

(* No ticket is overtaken: whoever holds a slot arrived before everyone who  *)
(* still waits, whichever runtimes the two belong to.                        *)
NoOvertaking ==
  \A i \in Running, j \in Queued : i < j

(* The indexes say what the rows say; what the operations read through an    *)
(* index is therefore the row it stands for.                                 *)
IndexesAgree ==
  /\ \A t \in Ticket : ticketIndex[t] # NoRow =>
       ticketIndex[t] \in DOMAIN queue /\ queue[ticketIndex[t]].ticket = t
  /\ \A i \in DOMAIN queue : ticketIndex[queue[i].ticket] = i
  /\ \A e \in Execution : liveIndex[e] # NoRow =>
       liveIndex[e] \in Live /\ queue[liveIndex[e]].execution = e
  /\ \A i \in Live : liveIndex[queue[i].execution] = i

IInv == TypeOK /\ IndexesAgree /\ NoOvertaking

(* A free slot is never withheld: if anybody waits, the index of somebody's  *)
(* ticket leads to the head of the queue, whichever runtime it belongs to.   *)
FreeSlotIsOffered ==
  Queued # {} /\ Cardinality(Running) < maxRuns => \E t \in Ticket, r \in Runtime : CanClaim(t, r)

(* Nobody starves: a queued ticket is claimed or withdrawn, although only    *)
(* the head of all runtimes' tickets may claim.                              *)
EveryTicketServed ==
  \A t \in Ticket : (ticketIndex[t] \in Queued) ~> (ticketIndex[t] \notin Queued)

(* The rows and indexes implement FIFO slots.                                *)
Slots == INSTANCE AdmissionSlots WITH
           slots    <- maxRuns,
           arrivals <- [i \in DOMAIN queue |-> queue[i].execution],
           waiting  <- Queued,
           admitted <- Running

ImplementsSlots == Slots!Spec
===============================================================================
