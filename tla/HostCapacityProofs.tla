-------------------------- MODULE HostCapacityProofs --------------------------
(***************************************************************************)
(* Machine-checked facts about the host's admission queue, for any number  *)
(* of tickets, executions, runtimes and any capacity.                      *)
(***************************************************************************)
EXTENDS HostCapacity, WellFoundedInduction, TLAPS

(* The four ways the queue changes: nothing, a new row, a phase flip of the *)
(* head, or the retirement of one row.                                      *)
Change ==
  \/ UNCHANGED <<queue, ticketIndex, liveIndex>> /\ maxRuns' \in Capacity \cup {maxRuns}
  \/ \E t \in Ticket, e \in Execution, r \in Runtime : Enqueue(t, e, r)
  \/ \E t \in Ticket, r \in Runtime : Claim(t, r)
  \/ \E i \in DOMAIN queue : queue[i].phase # "done" /\ Retire({i})

(* Every operation enqueues, claims, retires one row, or sets the capacity. *)
LEMMA NextIsChange ==
  ASSUME TypeOK, IndexesAgree, [Next]_vars
  PROVE  Change
<1>1. CASE UNCHANGED vars
  BY <1>1 DEF Change, vars
<1>2. ASSUME NEW n \in Capacity, InitializeCapacity(n) \/ ConfigureCapacity(n)
      PROVE  Change
  BY <1>2 DEF Change, InitializeCapacity, ConfigureCapacity
<1>3. ASSUME NEW t \in Ticket, NEW r \in Runtime, Claim(t, r)
      PROVE  Change
  BY <1>3 DEF Change
<1>4. ASSUME NEW t \in Ticket, NEW r \in Runtime, Finish(t, r)
      PROVE  Change
  BY <1>4 DEF Change, Finish, IndexesAgree
<1>5. ASSUME NEW t \in Ticket, NEW r \in Runtime, NEW e \in Execution,
             Enqueue(t, e, r) \/ Recover(t, e, r)
      PROVE  Change
  BY <1>5 DEF Change, Recover, IndexesAgree
<1> QED BY <1>1, <1>2, <1>3, <1>4, <1>5 DEF Next

(* An empty queue has consistent indexes.                                   *)
LEMMA InitIInv == Init => IInv
BY CapacityAssumption
   DEF Init, IInv, TypeOK, IndexesAgree, NoOvertaking, Live, Queued, Running, NoRow, Row

(* What a new row leaves in place.                                          *)
LEMMA EnqueuePreserves ==
  ASSUME IInv, NEW t \in Ticket, NEW e \in Execution, NEW r \in Runtime, Enqueue(t, e, r)
  PROVE  IInv'
<1> DEFINE row == [ticket |-> t, execution |-> e, runtime |-> r, phase |-> "queued"]
<1> DEFINE n == Len(queue) + 1
<1>1. /\ queue \in Seq(Row) /\ Len(queue) \in Nat /\ row \in Row
      /\ queue' = Append(queue, row) /\ queue' \in Seq(Row)
      /\ DOMAIN queue = 1..Len(queue) /\ DOMAIN queue' = 1..n
      /\ queue'[n] = row /\ n \notin DOMAIN queue
      /\ \A i \in DOMAIN queue : queue'[i] = queue[i]
  BY DEF IInv, TypeOK, Enqueue, Row, Phase
<1>2. ticketIndex[t] = NoRow /\ liveIndex[e] = NoRow
  BY DEF Enqueue, EnqueueOutcome
<1>3. /\ ticketIndex' = [ticketIndex EXCEPT ![t] = n]
      /\ liveIndex' = [liveIndex EXCEPT ![e] = n]
      /\ maxRuns' = maxRuns
  BY DEF Enqueue
<1>4. TypeOK'
  BY <1>1, <1>3 DEF IInv, TypeOK
<1>5. Queued' = Queued \cup {n} /\ Running' = Running /\ Live' = Live \cup {n}
  BY <1>1 DEF Queued, Running, Live
<1>6. NoOvertaking'
  BY <1>1, <1>5 DEF IInv, NoOvertaking, Queued, Running
<1>7. \A u \in Ticket : ticketIndex'[u] # NoRow =>
        ticketIndex'[u] \in DOMAIN queue' /\ queue'[ticketIndex'[u]].ticket = u
  BY <1>1, <1>3 DEF IInv, TypeOK, IndexesAgree
<1>8. \A i \in DOMAIN queue' : ticketIndex'[queue'[i].ticket] = i
  <2>1. \A i \in DOMAIN queue : queue[i].ticket # t
    BY <1>1, <1>2 DEF IInv, IndexesAgree, NoRow
  <2> QED BY <2>1, <1>1, <1>3 DEF IInv, TypeOK, IndexesAgree, Row
<1>9. \A f \in Execution : liveIndex'[f] # NoRow =>
        liveIndex'[f] \in Live' /\ queue'[liveIndex'[f]].execution = f
  <2>1. \A f \in Execution : f # e => liveIndex'[f] = liveIndex[f]
    BY <1>3 DEF IInv, TypeOK
  <2>2. liveIndex'[e] = n
    BY <1>3 DEF IInv, TypeOK
  <2>3. Live \subseteq DOMAIN queue
    BY DEF Live, Queued, Running
  <2> QED BY <2>1, <2>2, <2>3, <1>1, <1>5 DEF IInv, IndexesAgree
<1>10. \A i \in Live' : liveIndex'[queue'[i].execution] = i
  <2>1. \A i \in Live : i \in DOMAIN queue /\ queue[i].execution # e
    BY <1>1, <1>2 DEF IInv, IndexesAgree, NoRow, Live, Queued, Running
  <2> QED BY <2>1, <1>1, <1>3, <1>5 DEF IInv, TypeOK, IndexesAgree, Row
<1> QED BY <1>4, <1>6, <1>7, <1>8, <1>9, <1>10 DEF IInv, IndexesAgree

(* The head that claims was first among the queued rows.                    *)
LEMMA ClaimPreserves ==
  ASSUME IInv, NEW t \in Ticket, NEW r \in Runtime, Claim(t, r)
  PROVE  IInv'
<1> DEFINE n == ticketIndex[t]
<1>1. /\ queue \in Seq(Row) /\ n \in Queued /\ \A j \in Queued : n <= j
      /\ queue' = [queue EXCEPT ![n].phase = "running"]
      /\ UNCHANGED <<maxRuns, ticketIndex, liveIndex>>
  BY DEF IInv, TypeOK, Claim, CanClaim, IsHead
<1>2. /\ n \in DOMAIN queue /\ DOMAIN queue' = DOMAIN queue /\ DOMAIN queue \subseteq Nat
      /\ queue'[n] = [queue[n] EXCEPT !.phase = "running"] /\ queue[n] \in Row
      /\ \A i \in DOMAIN queue : i # n => queue'[i] = queue[i]
  BY <1>1 DEF Queued
<1>3. queue' \in Seq(Row) /\ queue'[n] \in Row
  BY <1>1, <1>2 DEF Row, Phase
<1>4. \A i \in DOMAIN queue : /\ queue'[i].ticket = queue[i].ticket
                              /\ queue'[i].execution = queue[i].execution
  BY <1>2 DEF Row
<1>5. Queued' = Queued \ {n} /\ Running' = Running \cup {n} /\ Live' = Live
  <2>1. queue'[n].phase = "running" /\ queue[n].phase = "queued"
    BY <1>1, <1>2 DEF Queued, Row
  <2>2. Queued' = Queued \ {n}
    BY <2>1, <1>2 DEF Queued
  <2>3. Running' = Running \cup {n}
    BY <2>1, <1>2 DEF Running
  <2> QED BY <2>2, <2>3, <1>1 DEF Live
<1>6. NoOvertaking'
  BY <1>1, <1>2, <1>5 DEF IInv, NoOvertaking, Queued, Running
<1>7. IndexesAgree'
  BY <1>1, <1>2, <1>4, <1>5 DEF IInv, IndexesAgree, Live, Queued, Running
<1> QED BY <1>1, <1>3, <1>6, <1>7 DEF IInv, TypeOK

(* Rows that become history leave the live index.                           *)
LEMMA RetireAllPreserves ==
  ASSUME IInv, NEW rows, rows \subseteq Live, Retire(rows)
  PROVE  IInv'
<1>0. rows \subseteq DOMAIN queue /\ \A i \in DOMAIN queue : queue[i] \in Row
  BY DEF Live, Queued, Running, IInv, TypeOK
<1>1. /\ queue \in Seq(Row) /\ DOMAIN queue = 1 .. Len(queue)
      /\ UNCHANGED <<maxRuns, ticketIndex>>
      /\ DOMAIN queue' = DOMAIN queue
      /\ queue' = [i \in 1 .. Len(queue) |-> queue'[i]]
      /\ \A i \in rows : queue'[i] = [queue[i] EXCEPT !.phase = "done"]
      /\ \A i \in DOMAIN queue : i \notin rows => queue'[i] = queue[i]
      /\ liveIndex' = [e \in Execution |->
                         IF \E i \in rows : queue[i].execution = e THEN NoRow ELSE liveIndex[e]]
  BY <1>0, SMTT(30) DEF IInv, TypeOK, Retire
<1>2. \A i \in DOMAIN queue : /\ queue'[i] \in Row
                              /\ queue'[i].ticket = queue[i].ticket
                              /\ queue'[i].execution = queue[i].execution
                              /\ queue'[i].phase = IF i \in rows THEN "done" ELSE queue[i].phase
  <2>1. ASSUME NEW i \in rows
        PROVE  /\ queue'[i] \in Row
               /\ queue'[i].ticket = queue[i].ticket
               /\ queue'[i].execution = queue[i].execution
               /\ queue'[i].phase = "done"
    <3>1. queue[i] \in Row /\ queue'[i] = [queue[i] EXCEPT !.phase = "done"]
      BY <1>0, <1>1
    <3> QED BY <3>1 DEF Row, Phase
  <2> QED BY <2>1, <1>0, <1>1
<1>3. queue' \in Seq(Row)
  <2>1. \A i \in 1 .. Len(queue) : queue'[i] \in Row
    BY <1>1, <1>2
  <2>2. Len(queue) \in Nat
    BY <1>1
  <2> QED BY <2>1, <2>2, <1>1
<1>4. Queued' = Queued \ rows /\ Running' = Running \ rows /\ Live' = Live \ rows
  BY <1>0, <1>1, <1>2 DEF Queued, Running, Live
<1>5. NoOvertaking'
  BY <1>4 DEF IInv, NoOvertaking
<1>6. \A f \in Execution : liveIndex'[f] # NoRow =>
        liveIndex'[f] \in Live' /\ queue'[liveIndex'[f]].execution = f
  <2>1. \A f \in Execution : liveIndex'[f] # NoRow =>
          /\ liveIndex'[f] = liveIndex[f] /\ liveIndex[f] \in Live /\ queue[liveIndex[f]].execution = f
          /\ \A i \in rows : queue[i].execution # f
    BY <1>1 DEF IInv, IndexesAgree
  <2> QED BY <2>1, <1>2, <1>4 DEF Live, Queued, Running
<1>7. \A i \in Live' : liveIndex'[queue'[i].execution] = i
  <2>1. \A i \in Live \ rows : \A j \in rows : queue[i].execution # queue[j].execution
    BY DEF IInv, IndexesAgree
  <2>2. \A i \in Live : i \in DOMAIN queue /\ queue[i].execution \in Execution
    BY <1>0 DEF Live, Queued, Running, Row
  <2> QED BY <2>1, <2>2, <1>1, <1>2, <1>4 DEF IInv, IndexesAgree
<1>8. TypeOK'
  BY <1>1, <1>3 DEF IInv, TypeOK, NoRow
<1> QED BY <1>1, <1>2, <1>5, <1>6, <1>7, <1>8 DEF IInv, IndexesAgree

LEMMA RetirePreserves ==
  ASSUME IInv, NEW n \in DOMAIN queue, queue[n].phase # "done", Retire({n})
  PROVE  IInv'
<1>1. queue[n] \in Row
  BY DEF IInv, TypeOK
<1>2. n \in Live
  BY <1>1 DEF Row, Phase, Live, Queued, Running
<1> QED BY <1>2, RetireAllPreserves

(* Every operation keeps rows, indexes and order consistent.                *)
LEMMA StepPreserves == IInv /\ [Next]_vars => IInv'
<1> SUFFICES ASSUME IInv, [Next]_vars PROVE IInv'
  OBVIOUS
<1>1. Change
  BY NextIsChange DEF IInv
<1>2. CASE UNCHANGED <<queue, ticketIndex, liveIndex>> /\ maxRuns' \in Capacity \cup {maxRuns}
  BY <1>2 DEF IInv, TypeOK, IndexesAgree, NoOvertaking, Live, Queued, Running
<1> QED BY <1>1, <1>2, EnqueuePreserves, ClaimPreserves, RetirePreserves DEF Change

(* Rows, indexes and FIFO order stay consistent in every reachable state.   *)
THEOREM InductiveInvariant == Spec => []IInv
BY InitIInv, StepPreserves, PTL DEF Spec

(* Every row keeps the shape the store decodes.                             *)
THEOREM TypeCorrect == Spec => []TypeOK
<1>1. IInv => TypeOK
  BY DEF IInv
<1> QED BY <1>1, InductiveInvariant, PTL

(* One execution never holds two live rows, whatever tickets its runtimes   *)
(* enqueue, replay, finish and recover.                                     *)
THEOREM OneLiveRow == Spec => []OneLiveRowPerExecution
<1>1. IInv => OneLiveRowPerExecution
  BY DEF IInv, IndexesAgree, OneLiveRowPerExecution
<1> QED BY <1>1, InductiveInvariant, PTL

(* A slot holder arrived before everyone who still waits.                   *)
THEOREM Fifo == Spec => []NoOvertaking
<1>1. IInv => NoOvertaking
  BY DEF IInv
<1> QED BY <1>1, InductiveInvariant, PTL

(* A set of numbers has a least one.                                        *)
LEMMA Least ==
  ASSUME NEW S, S \subseteq Nat, S # {}
  PROVE  \E n \in S : \A m \in S : n <= m
<1>1. \E n \in S : \A m \in S : <<m, n>> \notin OpToRel(<, Nat)
  BY NatLessThanWellFounded, WFMin
<1>2. \A m, n \in Nat : m < n => <<m, n>> \in OpToRel(<, Nat)
  BY DEF OpToRel
<1>3. PICK n \in S : \A m \in S : <<m, n>> \notin OpToRel(<, Nat)
  BY <1>1
<1>4. \A m \in S : n <= m
  <2>1. ASSUME NEW m \in S
        PROVE  n <= m
    <3>1. m \in Nat /\ n \in Nat
      OBVIOUS
    <3>2. ~(m < n)
      BY <1>2, <1>3, <3>1
    <3> QED BY <3>1, <3>2
  <2> QED BY <2>1
<1> QED BY <1>3, <1>4

(* While a slot is free, the head of the queue can claim it.                *)
THEOREM SlotsOffered == Spec => []FreeSlotIsOffered
<1>1. ASSUME IInv, Queued # {}, Cardinality(Running) < maxRuns
      PROVE  \E t \in Ticket, r \in Runtime : CanClaim(t, r)
  <2>1. queue \in Seq(Row) /\ DOMAIN queue \subseteq Nat /\ \A i \in DOMAIN queue : queue[i] \in Row
    BY <1>1 DEF IInv, TypeOK
  <2>2. Queued \subseteq Nat
    BY <2>1 DEF Queued
  <2>3. PICK n \in Queued : \A m \in Queued : n <= m
    BY <1>1, <2>2, Least
  <2>4. n \in DOMAIN queue /\ n # NoRow
    BY <2>1, <2>3 DEF Queued, NoRow
  <2>5. queue[n].ticket \in Ticket /\ queue[n].runtime \in Runtime
    BY <2>1, <2>4 DEF Row
  <2>6. ticketIndex[queue[n].ticket] = n
    BY <1>1, <2>4 DEF IInv, IndexesAgree
  <2>7. CanClaim(queue[n].ticket, queue[n].runtime)
    BY <1>1, <2>3, <2>4, <2>6 DEF CanClaim, IsHead
  <2> QED BY <2>5, <2>7
<1>2. IInv => FreeSlotIsOffered
  BY <1>1 DEF FreeSlotIsOffered
<1> QED BY <1>2, InductiveInvariant, PTL

(***************************************************************************)
(* Refinement: the rows and indexes implement FIFO slots.                   *)
(***************************************************************************)
LEMMA InitImplements == Init => Slots!Init
BY DEF Init, Slots!Init, Queued, Running

(* A new row is an arrival.                                                 *)
LEMMA EnqueueImplements ==
  ASSUME IInv, NEW t \in Ticket, NEW e \in Execution, NEW r \in Runtime, Enqueue(t, e, r)
  PROVE  Slots!Arrive(e)
<1> DEFINE row == [ticket |-> t, execution |-> e, runtime |-> r, phase |-> "queued"]
<1> DEFINE n == Len(queue) + 1
<1> DEFINE who == [i \in DOMAIN queue |-> queue[i].execution]
<1>1. /\ queue \in Seq(Row) /\ Len(queue) \in Nat /\ row \in Row
      /\ queue' = Append(queue, row)
      /\ DOMAIN queue = 1..Len(queue) /\ DOMAIN queue' = 1..n
      /\ queue'[n] = row /\ n \notin DOMAIN queue
      /\ \A i \in DOMAIN queue : queue'[i] = queue[i]
  BY DEF IInv, TypeOK, Enqueue, Row, Phase
<1>2. Queued' = Queued \cup {n} /\ Running' = Running
  BY <1>1 DEF Queued, Running
<1>3. \A i \in Live : who[i] # e
  BY <1>1 DEF Enqueue, EnqueueOutcome, IInv, IndexesAgree, NoRow, Live, Queued, Running
<1>4. who \in Seq(Execution) /\ Len(who) = Len(queue)
  <2>1. \A i \in DOMAIN queue : queue[i] \in Row
    BY <1>1
  <2> QED BY <2>1, <1>1 DEF Row
<1>5. [i \in DOMAIN queue |-> queue[i].execution]' = Append(who, e)
  <2>1. [i \in DOMAIN queue |-> queue[i].execution]' = [i \in 1..n |-> queue'[i].execution]
    BY <1>1
  <2>2. \A i \in 1..n : queue'[i].execution = IF i = n THEN e ELSE who[i]
    BY <1>1
  <2>3. Append(who, e) = [i \in 1..n |-> IF i = n THEN e ELSE who[i]]
    BY <1>1, <1>4
  <2> QED BY <2>1, <2>2, <2>3
<1>6. UNCHANGED maxRuns
  BY DEF Enqueue
<1> QED BY <1>2, <1>3, <1>4, <1>5, <1>6 DEF Slots!Arrive, Slots!Live, Live

(* A claim admits the first that waits.                                     *)
LEMMA ClaimImplements ==
  ASSUME IInv, NEW t \in Ticket, NEW r \in Runtime, Claim(t, r)
  PROVE  \E a \in Live : Slots!Admit(a)
<1> DEFINE n == ticketIndex[t]
<1>1. /\ queue \in Seq(Row) /\ n \in Queued /\ \A j \in Queued : n <= j
      /\ Cardinality(Running) < maxRuns
      /\ queue' = [queue EXCEPT ![n].phase = "running"]
      /\ UNCHANGED <<maxRuns, ticketIndex, liveIndex>>
  BY DEF IInv, TypeOK, Claim, CanClaim, IsHead
<1>2. /\ n \in DOMAIN queue /\ DOMAIN queue' = DOMAIN queue
      /\ queue'[n] = [queue[n] EXCEPT !.phase = "running"] /\ queue[n] \in Row
      /\ \A i \in DOMAIN queue : i # n => queue'[i] = queue[i]
  BY <1>1 DEF Queued
<1>3. queue'[n].phase = "running" /\ queue[n].phase = "queued"
      /\ queue'[n].execution = queue[n].execution
  BY <1>1, <1>2 DEF Queued, Row
<1>4. Queued' = Queued \ {n}
  BY <1>2, <1>3 DEF Queued
<1>5. Running' = Running \cup {n}
  BY <1>2, <1>3 DEF Running
<1>6. UNCHANGED [i \in DOMAIN queue |-> queue[i].execution]
  BY <1>2, <1>3
<1>7. Slots!Cardinality(Running) = Cardinality(Running)
  BY DEF Slots!Cardinality, Cardinality
<1>8. Slots!Admit(n)
  BY <1>1, <1>4, <1>5, <1>6, <1>7 DEF Slots!Admit
<1> QED BY <1>1, <1>8 DEF Live

(* Retired rows leave the line or free their slots.                         *)
LEMMA RetireImplements ==
  ASSUME IInv, NEW rows, rows \subseteq Live, rows # {}, Retire(rows)
  PROVE  rows \subseteq Slots!Live /\ Slots!Leave(rows)
<1>0. rows \subseteq DOMAIN queue /\ \A i \in DOMAIN queue : queue[i] \in Row
  BY DEF Live, Queued, Running, IInv, TypeOK
<1>1. /\ UNCHANGED maxRuns
      /\ DOMAIN queue' = DOMAIN queue
      /\ \A i \in DOMAIN queue :
           queue'[i] = IF i \in rows THEN [queue[i] EXCEPT !.phase = "done"] ELSE queue[i]
  BY DEF Retire
<1>2. ASSUME NEW i \in DOMAIN queue
      PROVE  /\ queue'[i].execution = queue[i].execution
             /\ queue'[i].phase = IF i \in rows THEN "done" ELSE queue[i].phase
  <2>1. queue[i] \in Row /\ queue'[i] = IF i \in rows THEN [queue[i] EXCEPT !.phase = "done"] ELSE queue[i]
    BY <1>0, <1>1
  <2> QED BY <2>1 DEF Row
<1>3. Queued' = Queued \ rows
  BY <1>1, <1>2 DEF Queued
<1>4. Running' = Running \ rows
  BY <1>1, <1>2 DEF Running
<1>5. UNCHANGED [i \in DOMAIN queue |-> queue[i].execution]
  BY <1>1, <1>2
<1> QED BY <1>1, <1>3, <1>4, <1>5 DEF Slots!Leave, Slots!Live, Live

(* Every operation is a step of the FIFO slots, or changes none of them.    *)
LEMMA StepImplements == IInv /\ [Next]_vars => [Slots!Next]_(Slots!vars)
<1> SUFFICES ASSUME IInv, [Next]_vars PROVE [Slots!Next]_(Slots!vars)
  OBVIOUS
<1>1. Change
  BY NextIsChange DEF IInv
<1>2. CASE UNCHANGED <<queue, ticketIndex, liveIndex>> /\ maxRuns' \in Capacity \cup {maxRuns}
  <2>1. UNCHANGED <<[i \in DOMAIN queue |-> queue[i].execution], Queued, Running>>
    BY <1>2 DEF Queued, Running
  <2>2. CASE maxRuns' = maxRuns
    BY <2>1, <2>2 DEF Slots!vars
  <2>3. CASE maxRuns' \in Capacity
    BY <2>1, <2>3 DEF Slots!Next, Slots!Resize
  <2> QED BY <1>2, <2>2, <2>3
<1>3. ASSUME NEW t \in Ticket, NEW e \in Execution, NEW r \in Runtime, Enqueue(t, e, r)
      PROVE  Slots!Next
  BY <1>3, EnqueueImplements DEF Slots!Next
<1>4. ASSUME NEW t \in Ticket, NEW r \in Runtime, Claim(t, r)
      PROVE  Slots!Next
  BY <1>4, ClaimImplements DEF Slots!Next, Slots!Live, Live
<1>5. ASSUME NEW n \in DOMAIN queue, queue[n].phase # "done", Retire({n})
      PROVE  Slots!Next
  <2>1. queue[n] \in Row
    BY DEF IInv, TypeOK
  <2>2. {n} \subseteq Live
    BY <2>1, <1>5 DEF Row, Phase, Live, Queued, Running
  <2> QED BY <2>2, <1>5, RetireImplements DEF Slots!Next
<1> QED BY <1>1, <1>2, <1>3, <1>4, <1>5 DEF Change

(* Host admission is FIFO slots: bounded admission, arrival order across    *)
(* runtimes, one live arrival per execution, and no arrival ever returns.   *)
THEOREM Implementation == Spec => ImplementsSlots
<1>1. Spec => []IInv
  BY InductiveInvariant
<1> QED BY <1>1, InitImplements, StepImplements, PTL DEF Spec, ImplementsSlots, Slots!Spec
===============================================================================
