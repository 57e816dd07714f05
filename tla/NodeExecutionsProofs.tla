------------------------- MODULE NodeExecutionsProofs -------------------------
(***************************************************************************)
(* Machine-checked facts about hosted runtimes, for any number of them, of *)
(* executions and tickets, for any capacity and any choice of faults.      *)
(***************************************************************************)
EXTENDS NodeExecutions, FiniteSetTheorems, TLAPS

HP == INSTANCE HostCapacityProofs

(***************************************************************************)
(* The host's queue, as this module's instance sees it.                    *)
(***************************************************************************)
(* Both instances of the queue speak of the same rows.                      *)
LEMMA SameQueue == (HC!IInv <=> HP!IInv) /\ (HC!IInv' <=> HP!IInv')
BY DEF HC!IInv, HP!IInv, HC!TypeOK, HP!TypeOK, HC!IndexesAgree, HP!IndexesAgree,
       HC!NoOvertaking, HP!NoOvertaking, HC!Row, HP!Row, HC!Phase, HP!Phase, HC!Queued, HP!Queued,
       HC!Running, HP!Running, HC!Live, HP!Live, HC!NoRow, HP!NoRow

LEMMA SameEnqueue ==
  ASSUME NEW t, NEW e, NEW r
  PROVE  HC!Enqueue(t, e, r) <=> HP!Enqueue(t, e, r)
BY Zenon DEF HC!Enqueue, HP!Enqueue, HC!NoRow, HP!NoRow, HC!EnqueueOutcome, HP!EnqueueOutcome

LEMMA SameCardinality ==
  ASSUME NEW S
  PROVE  HC!Cardinality(S) = Cardinality(S) /\ HP!Cardinality(S) = Cardinality(S)
BY DEF HC!Cardinality, HP!Cardinality, Cardinality

LEMMA SameClaim ==
  ASSUME NEW t, NEW r
  PROVE  HC!Claim(t, r) <=> HP!Claim(t, r)
BY SameCardinality DEF HC!Claim, HP!Claim, HC!CanClaim, HP!CanClaim, HC!IsHead, HP!IsHead, HC!NoRow, HP!NoRow,
       HC!Queued, HP!Queued, HC!Running, HP!Running

LEMMA SameRetire ==
  ASSUME NEW rows
  PROVE  HC!Retire(rows) <=> HP!Retire(rows)
BY DEF HC!Retire, HP!Retire, HC!NoRow, HP!NoRow

(* Rows are numbered and typed; the ones that run are finitely many.        *)
LEMMA RowsTyped ==
  ASSUME HC!TypeOK
  PROVE  /\ DOMAIN queue = 1 .. Len(queue) /\ Len(queue) \in Nat
         /\ \A i \in DOMAIN queue : queue[i] \in HC!Row
         /\ HC!Running \subseteq DOMAIN queue /\ HC!Queued \subseteq DOMAIN queue
         /\ HC!Live \subseteq DOMAIN queue
         /\ IsFiniteSet(HC!Running) /\ Cardinality(HC!Running) \in Nat
<1>1. queue \in Seq(HC!Row)
  BY DEF HC!TypeOK
<1>2. DOMAIN queue = 1 .. Len(queue) /\ Len(queue) \in Nat /\ \A i \in DOMAIN queue : queue[i] \in HC!Row
  BY <1>1
<1>3. HC!Running \subseteq DOMAIN queue /\ HC!Queued \subseteq DOMAIN queue /\ HC!Live \subseteq DOMAIN queue
  BY DEF HC!Running, HC!Queued, HC!Live
<1>4. IsFiniteSet(1 .. Len(queue))
  BY <1>2, FS_Interval
<1> QED BY <1>2, <1>3, <1>4, FS_Subset, FS_CardinalityType

(* What the rows keep for ever.                                             *)
SameRows(rows) ==
  \A i \in rows : /\ queue'[i].ticket = queue[i].ticket
                  /\ queue'[i].execution = queue[i].execution
                  /\ queue'[i].runtime = queue[i].runtime

(* A new row is the last one, and nothing else changes.                     *)
LEMMA Enqueued ==
  ASSUME HC!IInv, NEW t \in Ticket, NEW e \in Execution, NEW r \in Runtime, HC!Enqueue(t, e, r)
  PROVE  /\ HC!IInv' /\ maxRuns' = maxRuns
         /\ HC!Running' = HC!Running
         /\ \E n : /\ DOMAIN queue' = DOMAIN queue \cup {n} /\ n \notin DOMAIN queue
                   /\ queue'[n] = [ticket |-> t, execution |-> e, runtime |-> r, phase |-> "queued"]
                   /\ \A i \in DOMAIN queue : queue'[i] = queue[i]
<1>1. HC!IInv'
  BY HP!EnqueuePreserves, SameQueue, SameEnqueue, NodeAssumption DEF HP!CapacityAssumption
<1> DEFINE n == Len(queue) + 1
           row == [ticket |-> t, execution |-> e, runtime |-> r, phase |-> "queued"]
<1>2. queue \in Seq(HC!Row) /\ row \in HC!Row
  BY DEF HC!IInv, HC!TypeOK, HC!Row, HC!Phase
<1>3. queue' = Append(queue, row) /\ maxRuns' = maxRuns
  BY DEF HC!Enqueue
<1>4. /\ DOMAIN queue' = DOMAIN queue \cup {n} /\ n \notin DOMAIN queue
      /\ queue'[n] = row /\ \A i \in DOMAIN queue : queue'[i] = queue[i]
  BY <1>2, <1>3
<1>5. HC!Running' = HC!Running
  BY <1>4 DEF HC!Running
<1> QED BY <1>1, <1>3, <1>4, <1>5

(* A claim starts the row of its ticket.                                    *)
LEMMA Claimed ==
  ASSUME HC!IInv, NEW t \in Ticket, NEW r \in Runtime, HC!Claim(t, r)
  PROVE  /\ HC!IInv' /\ maxRuns' = maxRuns
         /\ DOMAIN queue' = DOMAIN queue /\ SameRows(DOMAIN queue)
         /\ Cardinality(HC!Running) < maxRuns
         /\ \E n \in DOMAIN queue :
              /\ queue[n].ticket = t /\ queue[n].runtime = r
              /\ HC!Running' = HC!Running \cup {n}
              /\ \A i \in DOMAIN queue : queue'[i].phase = "done" <=> queue[i].phase = "done"
              /\ \A i \in DOMAIN queue \ {n} : queue'[i].phase = queue[i].phase
<1>1. HC!IInv'
  BY HP!ClaimPreserves, SameQueue, SameClaim, NodeAssumption DEF HP!CapacityAssumption
<1> DEFINE n == ticketIndex[t]
<1>2. /\ ticketIndex[t] # HC!NoRow /\ n \in HC!Queued /\ queue[n].runtime = r
      /\ Cardinality(HC!Running) < maxRuns
      /\ queue' = [queue EXCEPT ![n].phase = "running"] /\ maxRuns' = maxRuns
  BY SameCardinality DEF HC!Claim, HC!CanClaim, HC!IsHead
<1>3. queue[n].ticket = t /\ n \in DOMAIN queue
  BY <1>2 DEF HC!IInv, HC!IndexesAgree, HC!NoRow
<1>4. queue \in Seq(HC!Row) /\ queue[n] \in HC!Row
  BY <1>3, RowsTyped DEF HC!IInv, HC!TypeOK
<1>5. /\ DOMAIN queue' = DOMAIN queue
      /\ queue'[n] = [queue[n] EXCEPT !.phase = "running"]
      /\ \A i \in DOMAIN queue \ {n} : queue'[i] = queue[i]
  BY <1>2, <1>3, <1>4
<1>6. /\ queue'[n].phase = "running" /\ queue'[n].ticket = queue[n].ticket
      /\ queue'[n].execution = queue[n].execution /\ queue'[n].runtime = queue[n].runtime
  BY <1>4, <1>5 DEF HC!Row
<1>7. HC!Running' = HC!Running \cup {n}
  BY <1>3, <1>5, <1>6 DEF HC!Running
<1>8. SameRows(DOMAIN queue)
  BY <1>5, <1>6 DEF SameRows
<1>9. \A i \in DOMAIN queue : queue'[i].phase = "done" <=> queue[i].phase = "done"
  BY <1>2, <1>5, <1>6 DEF HC!Queued
<1> QED BY <1>1, <1>2, <1>3, <1>5, <1>7, <1>8, <1>9

(* A finish retires the one row of its ticket.                              *)
LEMMA Finished ==
  ASSUME HC!IInv, NEW t \in Ticket, NEW r \in Runtime, HC!Finish(t, r)
  PROVE  \E n \in DOMAIN queue :
           /\ queue[n].ticket = t
           /\ \A i \in DOMAIN queue : queue[i].ticket = t => i = n
           /\ {n} \subseteq HC!Live /\ HC!Retire({n})
<1> DEFINE n == ticketIndex[t]
<1>1. n # HC!NoRow /\ queue[n].phase # "done" /\ HC!Retire({n})
  BY DEF HC!Finish
<1>2. n \in DOMAIN queue /\ queue[n].ticket = t /\ \A i \in DOMAIN queue : queue[i].ticket = t => i = n
  BY <1>1 DEF HC!IInv, HC!IndexesAgree
<1>3. queue[n] \in HC!Row
  BY <1>2, RowsTyped DEF HC!IInv
<1>4. {n} \subseteq HC!Live
  BY <1>1, <1>2, <1>3 DEF HC!Row, HC!Phase, HC!Live, HC!Queued, HC!Running
<1> QED BY <1>1, <1>2, <1>4

(***************************************************************************)
(* Choices.                                                                *)
(***************************************************************************)
(* The first entry of a cycle is one of those it still has to try.          *)
LEMMA EntryIsTodo ==
  ASSUME TypeOK, NEW r \in Runtime, control[r].todo # {}
  PROVE  Entry(r) \in control[r].todo /\ Entry(r) \in Execution
<1>1. control[r] \in Holder
  BY DEF TypeOK
<1>2. control[r].todo \subseteq Execution
  BY <1>1 DEF Holder
<1>3. \A e \in control[r].todo : Places(r)[e] \in Nat
  <2>1. \A e \in Execution : journal[e] \in Record
    BY DEF TypeOK
  <2> QED BY <1>2, <2>1 DEF Places, Record
<1> DEFINE S == {Places(r)[e] : e \in control[r].todo}
<1>4. S \subseteq Nat /\ S # {}
  BY <1>3
<1> HIDE DEF S
<1>5. PICK n \in S : \A m \in S : n <= m
  BY <1>4, HP!Least, NodeAssumption DEF HP!CapacityAssumption
<1>6. \E e \in control[r].todo : \A f \in control[r].todo : Places(r)[e] <= Places(r)[f]
  BY <1>5 DEF S
<1>7. DOMAIN Places(r) = control[r].todo
  BY DEF Places
<1>8. Entry(r) \in control[r].todo
  BY <1>6, <1>7 DEF Entry, Earliest
<1> QED BY <1>2, <1>8

(* The place a record gets is the next one.                                 *)
LEMMA NextIsNumber ==
  ASSUME TypeOK, Counted, NEW r \in Runtime, NEW x \in Execution, Owner[x] = r
  PROVE  NextSequence(r) \in 1 .. Cardinality(minted) + 1
<1> DEFINE N == Cardinality(minted)
           S == {journal[e].sequence : e \in Owned(r)}
           T == {N - n : n \in S}
<1>1. N \in Nat
  BY NodeAssumption, FS_Subset, FS_CardinalityType DEF TypeOK
<1>2. \A e \in Execution : journal[e].sequence \in 0 .. N
  <2>1. \A e \in Execution : journal[e] \in Record
    BY DEF TypeOK
  <2>2. \A e \in Execution : journal[e].sequence \in Nat
    BY <2>1 DEF Record
  <2> QED BY <2>2, <1>1 DEF Counted
<1>3. S \subseteq 0 .. N /\ S # {}
  BY <1>2 DEF Owned
<1> HIDE DEF N, S
<1>4. T \subseteq Nat /\ T # {}
  BY <1>1, <1>3
<1>5. PICK m \in T : \A n \in T : m <= n
  BY <1>4, HP!Least, NodeAssumption DEF HP!CapacityAssumption
<1>6. PICK n \in S : m = N - n
  BY <1>5
<1>7. \A k \in S : n >= k
  BY <1>1, <1>3, <1>5, <1>6
<1>8. Max(S) \in S
  BY <1>6, <1>7 DEF Max
<1>9. NextSequence(r) = 1 + Max(S)
  BY DEF NextSequence, S
<1>10. Max(S) \in 0 .. N
  BY <1>3, <1>8
<1> QED BY <1>1, <1>9, <1>10 DEF N

(***************************************************************************)
(* Every action is an action of one runtime; the others see nothing of it. *)
(***************************************************************************)
Local(r) ==
  /\ \A q \in Runtime \ {r} : control'[q] = control[q] /\ wedged'[q] = wedged[q]
  /\ \A e \in Execution : Owner[e] # r => journal'[e] = journal[e] /\ active'[e] = active[e]

HostLocal(r) ==
  /\ HC!IInv'
  /\ DOMAIN queue \subseteq DOMAIN queue' /\ SameRows(DOMAIN queue)
  /\ \A i \in DOMAIN queue : queue[i].runtime # r => queue'[i].phase = queue[i].phase
  /\ \A i \in DOMAIN queue' \ DOMAIN queue : queue'[i].runtime = r

(* An entry stays the first while the list and the places stay.             *)
LEMMA SameEntry ==
  ASSUME NEW r, control'[r].todo = control[r].todo,
         \A e \in control[r].todo : journal'[e].sequence = journal[e].sequence
  PROVE  Entry(r)' = Entry(r)
<1>1. Places(r)' = Places(r)
  BY DEF Places
<1> QED BY <1>1 DEF Entry

LEMMA OthersSound ==
  ASSUME IInv, TicketsApart', NEW r \in Runtime, Local(r), HostLocal(r), NEW q \in Runtime, q # r
  PROVE  Sound(q)'
<1>1. /\ control'[q] = control[q] /\ wedged'[q] = wedged[q]
      /\ \A e \in Owned(q) : journal'[e] = journal[e] /\ active'[e] = active[e]
      /\ Owned(q)' = Owned(q) /\ Owned(q) \subseteq Execution /\ \A e \in Owned(q) : Owner[e] = q
  BY DEF Local, Owned
<1>2. /\ control[q] \in Holder /\ control[q].todo \subseteq Owned(q)
      /\ control[q].exec # None => control[q].exec \in Owned(q)
  <2>1. control[q] \in Holder
    BY DEF IInv, TypeOK
  <2> QED BY <2>1 DEF Holder, IInv, Sound, TodoWaits, RequestStands, Owned
<1>3. Sound(q)
  BY DEF IInv
<1>4. Entry(q)' = Entry(q)
  BY <1>1, <1>2, SameEntry
<1>5. \A e \in Owned(q) : (Launching(e)' <=> Launching(e)) /\ (Running(e)' <=> Running(e))
  BY <1>1, <1>4 DEF Launching, Running
<1>6. /\ HC!Running \subseteq DOMAIN queue
      /\ \A i \in DOMAIN queue' : queue'[i].runtime = q =>
           i \in DOMAIN queue /\ queue[i].runtime = q /\ queue'[i].phase = queue[i].phase
  BY DEF HostLocal, SameRows, HC!Running
<1>7. \A i \in DOMAIN queue : queue[i].runtime = q =>
        i \in DOMAIN queue' /\ (i \in HC!Running' <=> i \in HC!Running)
  BY DEF HostLocal, HC!Running
<1>8. \A i \in DOMAIN queue : queue[i].execution \in Execution /\ queue[i].runtime = Owner[queue[i].execution]
  <2>1. \A i \in DOMAIN queue : queue[i] \in HC!Row
    BY RowsTyped DEF IInv, HC!IInv
  <2> QED BY <2>1 DEF HC!Row, IInv, TicketsApart
<1> HIDE DEF IInv
<1>9. RequestStands(q)' /\ TodoWaits(q)' /\ TasksFollow(q)' /\ CancelSettles(q)'
  BY <1>1, <1>2, <1>3 DEF Sound, RequestStands, TodoWaits, TasksFollow, CancelSettles
<1>10. SlotsHeld(q)'
  <2> SUFFICES ASSUME NEW e \in Owned(q), Running(e)' \/ Launching(e)'
               PROVE  HoldsSlot(e)'
    BY <1>1 DEF SlotsHeld
  <2>1. HoldsSlot(e)
    BY <1>3, <1>5 DEF Sound, SlotsHeld
  <2>2. PICK i \in HC!Running : /\ queue[i].ticket = journal[e].ticket
                                /\ queue[i].execution = e /\ queue[i].runtime = Owner[e]
    BY <2>1 DEF HoldsSlot
  <2>3. i \in HC!Running' /\ journal'[e] = journal[e]
    BY <1>1, <1>6, <1>7, <2>2
  <2>4. queue'[i].ticket = queue[i].ticket /\ queue'[i].execution = e /\ queue'[i].runtime = Owner[e]
    BY <1>6, <2>2 DEF HostLocal, SameRows
  <2> QED BY <2>2, <2>3, <2>4 DEF HoldsSlot
<1>11. SlotsUsed(q)'
  <2> SUFFICES ASSUME NEW i \in HC!Running', queue'[i].runtime = q, control'[q].pc # "down", ~wedged'[q]
               PROVE  /\ queue'[i].ticket = journal'[queue'[i].execution].ticket
                      /\ Running(queue[i].execution)' \/ Launching(queue[i].execution)'
    BY DEF SlotsUsed
  <2>1. i \in DOMAIN queue' /\ i \in DOMAIN queue /\ queue[i].runtime = q /\ i \in HC!Running
    BY <1>6, <1>7 DEF HC!Running
  <2>2. queue'[i].ticket = queue[i].ticket /\ queue'[i].execution = queue[i].execution
    BY <2>1 DEF HostLocal, SameRows
  <2>3. queue[i].execution \in Owned(q)
    BY <1>8, <2>1 DEF Owned
  <2> QED BY <1>1, <1>3, <1>5, <2>1, <2>2, <2>3 DEF Sound, SlotsUsed
<1>12. TicketsLive(q)'
  <2> SUFFICES ASSUME ~Crashes, NEW e \in Owned(q), journal'[e].status = "pending",
                      NEW i \in DOMAIN queue', queue'[i].ticket = journal'[e].ticket, queue'[i].phase = "done"
               PROVE  FALSE
    BY <1>1, <1>3 DEF Sound, TicketsLive
  <2>1. queue'[i].execution = e /\ queue'[i].runtime = q
    BY <1>1 DEF TicketsApart
  <2>2. i \in DOMAIN queue /\ queue[i].phase = "done" /\ queue[i].ticket = queue'[i].ticket
    BY <1>6, <2>1 DEF HostLocal, SameRows
  <2> QED BY <1>1, <1>3, <2>2 DEF Sound, TicketsLive
<1> QED BY <1>9, <1>10, <1>11, <1>12 DEF Sound

(***************************************************************************)
(* What most actions leave alone.                                          *)
(***************************************************************************)
RowsGo(gone) ==
  /\ HC!IInv' /\ maxRuns' = maxRuns
  /\ DOMAIN queue' = DOMAIN queue /\ SameRows(DOMAIN queue)
  /\ HC!Running' = HC!Running \ gone
  /\ \A i \in DOMAIN queue \ gone : queue'[i].phase = queue[i].phase

LEMMA NothingGoes ==
  ASSUME HC!IInv, UNCHANGED hostVars
  PROVE  RowsGo({})
<1>1. maxRuns' = maxRuns /\ queue' = queue /\ ticketIndex' = ticketIndex /\ liveIndex' = liveIndex
  BY DEF hostVars
<1>2. HC!IInv'
  BY <1>1 DEF HC!IInv, HC!TypeOK, HC!IndexesAgree, HC!NoOvertaking, HC!Live, HC!Queued, HC!Running
<1>3. HC!Running' = HC!Running
  BY <1>1 DEF HC!Running
<1> QED BY <1>1, <1>2, <1>3 DEF RowsGo, SameRows

(* Rows that become history keep what they are, and free their slots.       *)
LEMMA Retired ==
  ASSUME HC!IInv, NEW rows, rows \subseteq HC!Live, HC!Retire(rows)
  PROVE  RowsGo(rows)
<1>1. rows \subseteq HP!Live
  BY DEF HC!Live, HP!Live, HC!Queued, HP!Queued, HC!Running, HP!Running
<1>2. HC!IInv'
  BY <1>1, HP!RetireAllPreserves, SameQueue, SameRetire, NodeAssumption DEF HP!CapacityAssumption
<1>3. HC!TypeOK
  BY DEF HC!IInv
<1>4. rows \subseteq DOMAIN queue /\ \A i \in DOMAIN queue : queue[i] \in HC!Row
  BY <1>3, RowsTyped
<1>5. /\ DOMAIN queue' = DOMAIN queue /\ maxRuns' = maxRuns
      /\ \A i \in DOMAIN queue :
           queue'[i] = IF i \in rows THEN [queue[i] EXCEPT !.phase = "done"] ELSE queue[i]
  BY DEF HC!Retire
<1>6. ASSUME NEW i \in DOMAIN queue
      PROVE  /\ queue'[i].ticket = queue[i].ticket
             /\ queue'[i].execution = queue[i].execution
             /\ queue'[i].runtime = queue[i].runtime
             /\ queue'[i].phase = IF i \in rows THEN "done" ELSE queue[i].phase
  <2>1. queue[i] \in HC!Row /\ queue'[i] = IF i \in rows THEN [queue[i] EXCEPT !.phase = "done"] ELSE queue[i]
    BY <1>4, <1>5
  <2> QED BY <2>1 DEF HC!Row
<1>7. SameRows(DOMAIN queue)
  BY <1>6 DEF SameRows
<1>8. HC!Running' = HC!Running \ rows
  BY <1>5, <1>6 DEF HC!Running
<1> QED BY <1>2, <1>5, <1>6, <1>7, <1>8 DEF RowsGo

LEMMA GoneIsLocal ==
  ASSUME NEW r \in Runtime, NEW gone, RowsGo(gone), \A i \in gone : queue[i].runtime = r
  PROVE  HostLocal(r)
BY DEF RowsGo, HostLocal

LEMMA SlotsStayBounded ==
  ASSUME SlotsBounded, HC!IInv, maxRuns' = maxRuns, HC!Running' \subseteq HC!Running
  PROVE  SlotsBounded'
<1>1. IsFiniteSet(HC!Running) /\ Cardinality(HC!Running) \in Nat
  BY RowsTyped DEF HC!IInv
<1>2. Cardinality(HC!Running') <= Cardinality(HC!Running) /\ Cardinality(HC!Running') \in Nat
  BY <1>1, FS_Subset, FS_CardinalityType
<1> QED BY <1>1, <1>2 DEF SlotsBounded

(* Tickets stay apart while no record gets a new one and no row is new.     *)
LEMMA TicketsStayApart ==
  ASSUME TicketsApart, minted' = minted, DOMAIN queue' = DOMAIN queue, SameRows(DOMAIN queue),
         \A e \in Execution :
           /\ journal'[e].ticket = journal[e].ticket
           /\ journal'[e].status = "absent" <=> journal[e].status = "absent"
           /\ journal'[e].status = "absent" => journal'[e].intent = "none"
  PROVE  TicketsApart'
BY DEF TicketsApart, SameRows

LEMMA StaysCounted ==
  ASSUME Counted, minted' = minted, Asking' \subseteq Asking,
         \A e \in Execution : journal'[e].sequence = journal[e].sequence
  PROVE  Counted'
<1>1. IsFiniteSet(Asking) /\ Cardinality(Asking) \in Nat /\ Cardinality(Asking') \in Nat
      /\ Cardinality(Asking') <= Cardinality(Asking)
  BY NodeAssumption, FS_Subset, FS_CardinalityType DEF Asking
<1>2. IsFiniteSet(Fresh) /\ Cardinality(Fresh) \in Nat /\ Fresh' = Fresh
  BY NodeAssumption, FS_Subset, FS_CardinalityType DEF Fresh
<1> QED BY <1>1, <1>2 DEF Counted

LEMMA Typed ==
  ASSUME TypeOK
  PROVE  /\ \A e \in Execution :
              /\ journal[e] \in Record /\ journal[e].status \in Status /\ journal[e].intent \in Intent
              /\ journal[e].ticket \in Ticket \cup {None} /\ journal[e].sequence \in Nat
              /\ active[e] \in Task /\ Owner[e] \in Runtime /\ e \in Owned(Owner[e])
         /\ \A r \in Runtime :
              /\ control[r] \in Holder /\ control[r].pc \in Place
              /\ control[r].exec \in Execution \cup {None} /\ control[r].kind \in Kind \cup {None}
              /\ control[r].seen \in Status \X Intent /\ control[r].todo \subseteq Execution
              /\ wedged[r] \in BOOLEAN /\ Owned(r) \subseteq Execution /\ \A e \in Owned(r) : Owner[e] = r
<1>1. \A e \in Execution : journal[e] \in Record /\ active[e] \in Task /\ Owner[e] \in Runtime
  BY NodeAssumption DEF TypeOK
<1>2. \A r \in Runtime : control[r] \in Holder /\ wedged[r] \in BOOLEAN
  BY DEF TypeOK
<1> QED BY <1>1, <1>2 DEF Record, Holder, Owned

LEMMA Assemble ==
  ASSUME IInv, NEW r \in Runtime, Local(r), HostLocal(r),
         journal' \in [Execution -> Record], frozen' \in [Runtime -> BOOLEAN],
         active' \in [Execution -> Task], control' \in [Runtime -> Holder],
         wedged' \in [Runtime -> BOOLEAN], minted' \subseteq Ticket,
         Counted', TicketsApart', SlotsBounded', Sound(r)'
  PROVE  IInv'
<1>1. HC!IInv' /\ HC!TypeOK'
  BY DEF HostLocal, HC!IInv
<1>2. TypeOK'
  BY <1>1 DEF TypeOK
<1>3. \A q \in Runtime : Sound(q)'
  BY OthersSound
<1> QED BY <1>1, <1>2, <1>3 DEF IInv

(* A holder that neither launches nor dies disturbs no task and no slot.    *)
LEMMA QuietMove ==
  ASSUME IInv, NEW r \in Runtime,
         control[r].pc \notin {"launch", "down"}, control'[r].pc \notin {"launch", "down"},
         journal' = journal, active' = active, wedged[r] => wedged'[r],
         HC!Running' = HC!Running, SameRows(HC!Running)
  PROVE  TasksFollow(r)' /\ SlotsHeld(r)' /\ SlotsUsed(r)' /\ CancelSettles(r)'
<1>1. Sound(r) /\ Owned(r)' = Owned(r) /\ \A e \in Owned(r) : e \in Execution /\ Owner[e] = r
  BY DEF IInv, Owned
<1>2. \A e \in Execution : Owner[e] = r => ~Launching(e) /\ ~Launching(e)'
  BY DEF Launching
<1>3. \A e \in Execution : (Running(e)' <=> Running(e)) /\ (HoldsSlot(e) => HoldsSlot(e)')
  BY DEF Running, HoldsSlot, SameRows
<1>4. TasksFollow(r)' /\ CancelSettles(r)'
  BY <1>1 DEF Sound, TasksFollow, CancelSettles
<1>5. SlotsHeld(r)'
  BY <1>1, <1>2, <1>3 DEF Sound, SlotsHeld
<1>6. SlotsUsed(r)'
  <2> SUFFICES ASSUME NEW i \in HC!Running, queue[i].runtime = r, ~wedged'[r]
               PROVE  /\ queue[i].ticket = journal[queue[i].execution].ticket
                      /\ Running(queue[i].execution)
                      /\ queue[i].execution \in Execution
    <3>1. \A i \in HC!Running : /\ queue'[i].ticket = queue[i].ticket
                                /\ queue'[i].execution = queue[i].execution
                                /\ queue'[i].runtime = queue[i].runtime
      BY DEF SameRows
    <3> QED BY <3>1, <1>3 DEF SlotsUsed, Running
  <2>1. queue[i].ticket = journal[queue[i].execution].ticket
        /\ (Running(queue[i].execution) \/ Launching(queue[i].execution))
    BY <1>1 DEF Sound, SlotsUsed
  <2>2. queue[i] \in HC!Row /\ i \in DOMAIN queue
    BY RowsTyped DEF IInv, HC!IInv
  <2>3. queue[i].execution \in Execution /\ Owner[queue[i].execution] = r
    BY <2>2 DEF HC!Row, IInv, TicketsApart
  <2> QED BY <1>2, <2>1, <2>3
<1> QED BY <1>4, <1>5, <1>6

(***************************************************************************)
(* The actions of a request and of a cycle.                                *)
(***************************************************************************)
LEMMA RequestAcceptKeeps ==
  ASSUME IInv, NEW e \in Execution, NEW kind \in Kind, RequestAccept(e, kind)
  PROVE  IInv'
<1> DEFINE r == Owner[e]
<1> USE DEF IInv
<1>1. r \in Runtime /\ e \in Owned(r) /\ e # None /\ kind # None
  BY NodeAssumption, Typed DEF Kind
<1>2. /\ control[r].pc = "idle" /\ MayAsk(e, kind) /\ TicketLeft
      /\ UNCHANGED hostVars /\ UNCHANGED <<journal, frozen, active, wedged, minted>>
  BY DEF RequestAccept
<1> DEFINE pc == IF kind = "command" THEN "cycle" ELSE "accept"
           request == [pc |-> pc, exec |-> e, kind |-> kind, seen |-> Mark(journal[e]), todo |-> {}]
<1>3. control' = [control EXCEPT ![r] = request]
  BY DEF RequestAccept
<1>4. request \in Holder
  BY Typed DEF Holder, Place, Mark
<1>5. /\ control' \in [Runtime -> Holder] /\ control'[r] = request
      /\ \A q \in Runtime \ {r} : control'[q] = control[q]
  BY <1>1, <1>3, <1>4 DEF TypeOK
<1> HIDE <1>3 DEF RequestAccept
<1>6. RowsGo({})
  BY <1>2, NothingGoes
<1>7. Local(r) /\ HostLocal(r)
  BY <1>1, <1>2, <1>5, <1>6, GoneIsLocal DEF Local
<1>8. TicketsApart' /\ SlotsBounded'
  BY <1>2, <1>6, TicketsStayApart, SlotsStayBounded DEF RowsGo, TicketsApart
<1>9. Counted'
  <2>1. Asking' = Asking \cup {r} /\ Fresh' = Fresh
    BY <1>1, <1>2, <1>5 DEF Asking, Fresh
  <2>2. IsFiniteSet(Asking) /\ Cardinality(Asking) \in Nat
    BY NodeAssumption, FS_Subset, FS_CardinalityType DEF Asking
  <2>3. IsFiniteSet(Fresh) /\ Cardinality(Fresh) \in Nat
    BY NodeAssumption, FS_Subset, FS_CardinalityType DEF Fresh
  <2>4. Cardinality(Asking \cup {r}) <= Cardinality(Asking) + 1 /\ Cardinality(Asking \cup {r}) \in Nat
    <3>1. Cardinality(Asking \cup {r}) = IF r \in Asking THEN Cardinality(Asking) ELSE Cardinality(Asking) + 1
      BY <2>2, FS_AddElement
    <3> QED BY <2>2, <3>1
  <2> QED BY <1>2, <2>1, <2>2, <2>3, <2>4 DEF Counted, TicketLeft
<1>10. journal[e].status # "pending" /\ active[e] = "none" /\ Askable(kind, journal[e].status)
  <2>1. Askable(kind, journal[e].status) /\ (kind # "create" => active[e] = "none")
    BY <1>2 DEF MayAsk
  <2>2. kind = "create" => journal[e].status = "absent" /\ active[e] = "none"
    BY <1>1, <2>1 DEF Askable, Sound, TasksFollow
  <2> QED BY <2>1, <2>2 DEF Askable, Kind
<1>11. RequestStands(r)'
  BY <1>1, <1>2, <1>5, <1>10 DEF RequestStands, Mark
<1>12. TodoWaits(r)' /\ TicketsLive(r)'
  BY <1>1, <1>2, <1>5 DEF TodoWaits, TicketsLive, Sound, hostVars
<1>13. TasksFollow(r)' /\ SlotsHeld(r)' /\ SlotsUsed(r)' /\ CancelSettles(r)'
  BY <1>1, <1>2, <1>5, <1>6, QuietMove, RowsTyped DEF RowsGo, SameRows, HC!IInv
<1>14. Sound(r)'
  BY <1>11, <1>12, <1>13 DEF Sound
<1> QED BY <1>1, <1>2, <1>5, <1>7, <1>8, <1>9, <1>14, Assemble DEF TypeOK

LEMMA SetFrozenKeeps ==
  ASSUME IInv, NEW r \in Runtime, NEW value \in BOOLEAN, SetFrozen(r, value)
  PROVE  IInv'
<1>1. frozen' \in [Runtime -> BOOLEAN] /\ UNCHANGED <<hostVars, journal, active, control, wedged, minted>>
  BY DEF SetFrozen, IInv, TypeOK
<1> HIDE DEF SetFrozen
<1>2. TypeOK' /\ HC!IInv' /\ Counted' /\ TicketsApart' /\ SlotsBounded'
  BY <1>1 DEF IInv, TypeOK, HC!IInv, HC!TypeOK, HC!IndexesAgree, HC!NoOvertaking, HC!Live, HC!Queued,
              HC!Running, Counted, Fresh, Asking, TicketsApart, SlotsBounded, hostVars
<1>3. \A q \in Runtime : Sound(q)'
  BY <1>1 DEF IInv, Sound, RequestStands, TodoWaits, TasksFollow, SlotsHeld, SlotsUsed, CancelSettles,
              TicketsLive, Launching, Running, HoldsSlot, Entry, Places, HC!Running, Owned, hostVars
<1> QED BY <1>2, <1>3 DEF IInv

(* A cycle and a request may add the row of one record.                     *)
RowAdded(t, e, r) ==
  /\ HostLocal(r) /\ HC!Running' = HC!Running /\ maxRuns' = maxRuns
  /\ \A i \in DOMAIN queue : queue'[i].phase = queue[i].phase
  /\ \A i \in DOMAIN queue' \ DOMAIN queue :
       /\ queue'[i].ticket = t /\ queue'[i].execution = e /\ queue'[i].runtime = r
       /\ queue'[i].phase = "queued"

LEMMA MayAdd ==
  ASSUME HC!IInv, NEW t \in Ticket, NEW e \in Execution, NEW r \in Runtime,
         HC!Enqueue(t, e, r) \/ UNCHANGED hostVars
  PROVE  RowAdded(t, e, r)
<1>1. CASE UNCHANGED hostVars
  <2>1. RowsGo({})
    BY <1>1, NothingGoes
  <2>2. HostLocal(r)
    BY <2>1, GoneIsLocal
  <2> QED BY <2>1, <2>2 DEF RowsGo, RowAdded
<1>2. CASE HC!Enqueue(t, e, r)
  <2>1. PICK n : /\ DOMAIN queue' = DOMAIN queue \cup {n} /\ n \notin DOMAIN queue
                 /\ queue'[n] = [ticket |-> t, execution |-> e, runtime |-> r, phase |-> "queued"]
                 /\ \A i \in DOMAIN queue : queue'[i] = queue[i]
    BY <1>2, Enqueued
  <2>2. HC!IInv' /\ maxRuns' = maxRuns /\ HC!Running' = HC!Running
    BY <1>2, Enqueued
  <2> QED BY <2>1, <2>2 DEF HostLocal, SameRows, RowAdded
<1> QED BY <1>1, <1>2

LEMMA AddedStaysSound ==
  ASSUME IInv, NEW r \in Runtime, NEW e \in Execution, Owner[e] = r, journal[e].ticket \in Ticket,
         RowAdded(journal[e].ticket, e, r), UNCHANGED <<journal, minted>>, control'[r].pc # "down"
  PROVE  TicketsApart' /\ SlotsBounded' /\ TicketsLive(r)' /\ SameRows(HC!Running)
<1> USE DEF IInv
<1> DEFINE t == journal[e].ticket
<1>1. journal' = journal /\ minted' = minted
  OBVIOUS
<1>2. TicketsApart'
  <2>1. ASSUME NEW i \in DOMAIN queue'
        PROVE  /\ queue'[i].ticket \in minted /\ queue'[i].runtime = Owner[queue'[i].execution]
               /\ \A f \in Execution : queue'[i].ticket = journal[f].ticket => queue'[i].execution = f
    <3>1. CASE i \in DOMAIN queue
      BY <3>1 DEF TicketsApart, HostLocal, SameRows, RowAdded
    <3>2. CASE i \notin DOMAIN queue
      <4>1. queue'[i].ticket = t /\ queue'[i].execution = e /\ queue'[i].runtime = r
        BY <3>2 DEF RowAdded
      <4>2. t # None /\ t \in minted
        BY NodeAssumption DEF TicketsApart
      <4> QED BY <4>1, <4>2 DEF TicketsApart
    <3> QED BY <3>1, <3>2
  <2> QED BY <1>1, <2>1 DEF TicketsApart
<1>3. SlotsBounded'
  BY SlotsStayBounded DEF RowAdded
<1>4. TicketsLive(r)'
  <2>1. \A i \in DOMAIN queue' : queue'[i].phase = "done" =>
          i \in DOMAIN queue /\ queue[i].phase = "done" /\ queue'[i].ticket = queue[i].ticket
    BY DEF HostLocal, SameRows, RowAdded
  <2>2. TicketsLive(r) /\ Owned(r)' = Owned(r) /\ Owned(r) \subseteq Execution
    BY DEF Sound, Owned
  <2> QED BY <2>1, <2>2, <1>1 DEF TicketsLive
<1>5. SameRows(HC!Running)
  BY RowsTyped DEF HostLocal, SameRows, HC!IInv, RowAdded
<1> QED BY <1>2, <1>3, <1>4, <1>5

LEMMA EnqueueTicketKeeps ==
  ASSUME IInv, NEW r \in Runtime, EnqueueTicket(r)
  PROVE  IInv'
<1> DEFINE e == control[r].exec
           t == journal[e].ticket
<1> USE DEF IInv
<1>1. /\ control[r].pc = "ticket" /\ UNCHANGED <<journal, frozen, active, wedged, minted>>
      /\ HC!Enqueue(t, e, r) \/ UNCHANGED hostVars
  BY DEF EnqueueTicket
<1>2. PICK pc \in {"idle", "cycle"} : control' = [control EXCEPT ![r] = At(pc)]
  BY DEF EnqueueTicket, Idle
<1>3. At(pc) \in Holder /\ At(pc).pc = pc /\ At(pc).exec = None /\ At(pc).kind = None /\ At(pc).todo = {}
  BY DEF At, Holder, Place, Mark, NoRecord, Status, Intent
<1>4. /\ control' \in [Runtime -> Holder] /\ control'[r] = At(pc)
      /\ \A q \in Runtime \ {r} : control'[q] = control[q]
  BY <1>2, <1>3 DEF TypeOK
<1> HIDE <1>2 DEF EnqueueTicket
<1>5. e \in Execution /\ Owner[e] = r /\ t \in Ticket
  BY <1>1, Typed DEF Sound, RequestStands, TicketsApart
<1>6. RowAdded(t, e, r)
  BY <1>1, <1>5, MayAdd
<1>7. Local(r) /\ HostLocal(r)
  BY <1>1, <1>4, <1>6 DEF Local, RowAdded
<1>8. TicketsApart' /\ SlotsBounded' /\ TicketsLive(r)' /\ SameRows(HC!Running)
  BY <1>1, <1>3, <1>4, <1>5, <1>6, AddedStaysSound
<1>9. Counted'
  <2>1. Asking' \subseteq Asking
    BY <1>3, <1>4 DEF Asking
  <2> QED BY <2>1, <1>1, StaysCounted
<1>10. RequestStands(r)' /\ TodoWaits(r)'
  BY <1>3, <1>4 DEF RequestStands, TodoWaits
<1>11. TasksFollow(r)' /\ SlotsHeld(r)' /\ SlotsUsed(r)' /\ CancelSettles(r)'
  BY <1>1, <1>3, <1>4, <1>6, <1>8, QuietMove DEF RowAdded
<1>12. Sound(r)'
  BY <1>8, <1>10, <1>11 DEF Sound
<1> QED BY <1>1, <1>4, <1>7, <1>8, <1>9, <1>12, Assemble DEF TypeOK

(* A cycle ends idle, or goes on to the command that asked for it.          *)
Moved(r) ==
  /\ control' \in [Runtime -> Holder]
  /\ \A q \in Runtime \ {r} : control'[q] = control[q]

LEMMA CycleEnds ==
  ASSUME TypeOK, NEW r \in Runtime, EndCycle(r) \/ control' = [control EXCEPT ![r] = Idle]
  PROVE  /\ Moved(r) /\ control'[r].todo = {}
         /\ \/ /\ control'[r].pc = "accept" /\ control'[r].exec = control[r].exec
               /\ control'[r].kind = control[r].kind /\ control[r].kind = "command"
               /\ control'[r].seen = control[r].seen
            \/ control'[r].pc = "idle" /\ control'[r].exec = None /\ control'[r].kind = None
<1> DEFINE command == [control[r] EXCEPT !.pc = "accept", !.todo = {}]
<1>1. control[r] \in Holder /\ control \in [Runtime -> Holder]
  BY DEF TypeOK
<1>2. /\ command \in Holder /\ command.pc = "accept" /\ command.todo = {} /\ command.exec = control[r].exec
      /\ command.kind = control[r].kind /\ command.seen = control[r].seen
  BY <1>1 DEF Holder, Place
<1>3. Idle \in Holder /\ Idle.pc = "idle" /\ Idle.exec = None /\ Idle.kind = None /\ Idle.todo = {}
  BY DEF Idle, At, Holder, Place, Mark, NoRecord, Status, Intent
<1> HIDE DEF command
<1>4. control' = [control EXCEPT ![r] = IF control[r].kind = "command" THEN command ELSE Idle]
      \/ control' = [control EXCEPT ![r] = Idle]
  BY DEF EndCycle, command
<1>5. Moved(r) /\ (control'[r] = Idle \/ (control[r].kind = "command" /\ control'[r] = command))
  BY <1>1, <1>2, <1>3, <1>4 DEF Moved
<1> QED BY <1>2, <1>3, <1>5

(* The request behind a cycle stands while the cycle goes on and ends.      *)
LEMMA EndedCycleStands ==
  ASSUME IInv, NEW r \in Runtime, control[r].pc # "ticket",
         EndCycle(r) \/ control' = [control EXCEPT ![r] = Idle],
         control[r].exec # None =>
           /\ active'[control[r].exec] = "none"
           /\ journal'[control[r].exec].status = journal[control[r].exec].status
  PROVE  RequestStands(r)' /\ TodoWaits(r)' /\ Asking' \subseteq Asking
<1> USE DEF IInv
<1>1. TypeOK /\ RequestStands(r)
  BY DEF Sound
<1>2. CASE control'[r].pc = "idle" /\ control'[r].exec = None /\ control'[r].kind = None
  BY <1>2, CycleEnds DEF RequestStands, TodoWaits, Asking, Moved
<1>3. CASE /\ control'[r].pc = "accept" /\ control'[r].exec = control[r].exec
           /\ control'[r].kind = control[r].kind /\ control[r].kind = "command"
           /\ control'[r].seen = control[r].seen
  <2>1. control[r].exec # None
    BY <1>1, <1>3, NodeAssumption DEF RequestStands
  <2>2. RequestStands(r)'
    BY <1>1, <1>3, <2>1, CycleEnds DEF RequestStands
  <2>3. TodoWaits(r)' /\ Asking' \subseteq Asking
    BY <1>3, <2>1, CycleEnds DEF TodoWaits, Asking, Moved
  <2> QED BY <2>2, <2>3
<1> QED BY <1>2, <1>3, CycleEnds

(* A ticket stays good while the rows that go belong to nobody who waits.   *)
LEMMA TicketsStayLive ==
  ASSUME IInv, NEW r \in Runtime, NEW gone, RowsGo(gone), control'[r].pc # "down",
         \A e \in Owned(r) : journal'[e].status = "pending" =>
           /\ journal[e].status = "pending" /\ journal'[e].ticket = journal[e].ticket
           /\ \A i \in gone : queue[i].ticket # journal[e].ticket
  PROVE  TicketsLive(r)'
<1>1. TicketsLive(r) /\ Owned(r)' = Owned(r)
  BY DEF IInv, Sound, Owned
<1>2. \A i \in DOMAIN queue' : i \in DOMAIN queue /\ queue'[i].ticket = queue[i].ticket
        /\ (i \notin gone => queue'[i].phase = queue[i].phase)
  BY DEF RowsGo, SameRows
<1> QED BY <1>1, <1>2 DEF TicketsLive

LEMMA BeginCycleKeeps ==
  ASSUME IInv, NEW r \in Runtime, BeginCycle(r)
  PROVE  IInv'
<1> USE DEF IInv
<1> DEFINE waiting == {e \in Owned(r) : journal[e].status = "pending"}
<1>1. /\ control[r].pc \in {"idle", "cycle"} /\ HC!Retire(Stale(r))
      /\ UNCHANGED <<journal, frozen, active, wedged, minted>>
      /\ EndCycle(r) \/ (waiting # {} /\ control' = [control EXCEPT ![r].pc = "entry", ![r].todo = waiting])
  BY DEF BeginCycle
<1> HIDE DEF BeginCycle
<1>2. /\ Stale(r) \subseteq HC!Live
      /\ \A i \in Stale(r) : /\ queue[i].runtime = r /\ queue[i].phase = "queued"
                             /\ ~(journal[queue[i].execution].status = "pending"
                                    /\ journal[queue[i].execution].ticket = queue[i].ticket)
  BY DEF Stale, HC!RuntimeTickets
<1>3. RowsGo(Stale(r))
  BY <1>1, <1>2, Retired
<1>4. HC!Running' = HC!Running /\ SameRows(HC!Running)
  BY <1>2, <1>3, RowsTyped DEF RowsGo, SameRows, HC!Running, HC!IInv
<1>5. /\ Moved(r) /\ control'[r].pc \notin {"launch", "down"} /\ Asking' \subseteq Asking
      /\ RequestStands(r)' /\ TodoWaits(r)'
  <2>1. CASE EndCycle(r)
    BY <1>1, <2>1, CycleEnds, EndedCycleStands DEF Sound, RequestStands
  <2>2. CASE waiting # {} /\ control' = [control EXCEPT ![r].pc = "entry", ![r].todo = waiting]
    <3> DEFINE next == [control[r] EXCEPT !.pc = "entry", !.todo = waiting]
    <3>1. control[r] \in Holder /\ waiting \subseteq Execution
      BY Typed
    <3>2. /\ next \in Holder /\ next.pc = "entry" /\ next.todo = waiting /\ next.exec = control[r].exec
          /\ next.kind = control[r].kind /\ next.seen = control[r].seen
      BY <3>1 DEF Holder, Place
    <3>3. control' = [control EXCEPT ![r] = next]
      BY <2>2
    <3> HIDE DEF next, waiting
    <3>4. Moved(r) /\ control'[r] = next
      BY <3>2, <3>3 DEF Moved, TypeOK
    <3>5. Asking' \subseteq Asking
      BY <1>1, <3>2, <3>4 DEF Asking, Moved
    <3>6. control[r].exec # None => journal[control[r].exec].status # "pending"
      BY <1>1 DEF Sound, RequestStands
    <3>7. RequestStands(r)'
      BY <1>1, <3>2, <3>4, <3>6 DEF Sound, RequestStands, waiting
    <3>8. TodoWaits(r)'
      <4>1. \A e \in waiting : Owner[e] = r /\ active[e] = "none" /\ journal[e].status # "absent"
        <5>1. TasksFollow(r)
          BY DEF Sound
        <5> QED BY <5>1, Typed DEF TasksFollow, waiting, Owned, Task
      <4>2. waiting # {} /\ active' = active /\ journal' = journal
        BY <1>1, <2>2, <3>1
      <4> QED BY <3>2, <3>4, <4>1, <4>2 DEF TodoWaits
    <3> QED BY <3>2, <3>4, <3>5, <3>7, <3>8
  <2> QED BY <1>1, <2>1, <2>2
<1>6. Local(r) /\ HostLocal(r)
  BY <1>1, <1>2, <1>3, <1>5, GoneIsLocal DEF Local, Moved
<1>7. TicketsApart' /\ SlotsBounded' /\ Counted'
  BY <1>1, <1>3, <1>4, <1>5, TicketsStayApart, SlotsStayBounded, StaysCounted DEF RowsGo, TicketsApart
<1>8. TicketsLive(r)'
  <2>1. \A e \in Owned(r), i \in Stale(r) :
          journal[e].status = "pending" => queue[i].ticket # journal[e].ticket
    BY <1>2, RowsTyped DEF TicketsApart, Owned, HC!IInv
  <2> QED BY <1>1, <1>3, <1>5, <2>1, TicketsStayLive
<1>9. TasksFollow(r)' /\ SlotsHeld(r)' /\ SlotsUsed(r)' /\ CancelSettles(r)'
  BY <1>1, <1>4, <1>5, QuietMove
<1>10. Sound(r)'
  BY <1>5, <1>8, <1>9 DEF Sound
<1> QED BY <1>1, <1>5, <1>6, <1>7, <1>10, Assemble DEF TypeOK, Moved

(* The record of an accepted execution waits with a ticket nobody had.      *)
LEMMA AcceptJournalKeeps ==
  ASSUME IInv, NEW r \in Runtime, AcceptJournal(r)
  PROVE  IInv'
<1> USE DEF IInv
<1> DEFINE e == control[r].exec
           t == CHOOSE t \in Fresh : TRUE
           next == [control[r] EXCEPT !.pc = "ticket"]
           record == Accepted(journal[e], control[r].kind, t, NextSequence(r))
<1>1. /\ control[r].pc = "accept" /\ UNCHANGED <<hostVars, frozen, active, wedged>>
      /\ \/ control' = [control EXCEPT ![r] = Idle] /\ UNCHANGED <<journal, minted>>
         \/ /\ StillAsRead(r) /\ journal' = [journal EXCEPT ![e] = record]
            /\ minted' = minted \cup {t} /\ control' = [control EXCEPT ![r] = next]
  BY DEF AcceptJournal
<1> HIDE DEF AcceptJournal, t, next
<1>2. /\ RequestStands(r) /\ TodoWaits(r) /\ control[r].todo = {}
      /\ e \in Execution /\ Owner[e] = r /\ active[e] = "none" /\ e \in Owned(r)
      /\ journal[e].status # "pending" /\ Askable(control[r].kind, control[r].seen[1])
  BY <1>1, Typed DEF Sound, RequestStands, TodoWaits
<1>3. RowsGo({})
  BY <1>1, NothingGoes
<1>4. HC!Running' = HC!Running /\ SameRows(HC!Running)
  BY <1>3, RowsTyped DEF RowsGo, SameRows, HC!IInv
<1>5. CASE control' = [control EXCEPT ![r] = Idle] /\ UNCHANGED <<journal, minted>>
  <2>1. /\ Moved(r) /\ control'[r].pc \notin {"launch", "down"} /\ Asking' \subseteq Asking
        /\ RequestStands(r)' /\ TodoWaits(r)'
    BY <1>1, <1>2, <1>5, CycleEnds, EndedCycleStands
  <2>2. Local(r) /\ HostLocal(r)
    BY <1>1, <1>3, <1>5, <2>1, GoneIsLocal DEF Local, Moved
  <2>3. TicketsApart' /\ SlotsBounded' /\ Counted'
    BY <1>3, <1>5, <2>1, TicketsStayApart, SlotsStayBounded, StaysCounted DEF RowsGo, TicketsApart
  <2>4. TicketsLive(r)'
    BY <1>3, <1>5, <2>1, TicketsStayLive
  <2>5. TasksFollow(r)' /\ SlotsHeld(r)' /\ SlotsUsed(r)' /\ CancelSettles(r)'
    BY <1>1, <1>4, <1>5, <2>1, QuietMove
  <2>6. Sound(r)'
    BY <2>1, <2>4, <2>5 DEF Sound
  <2> QED BY <1>1, <1>5, <2>1, <2>2, <2>3, <2>6, Assemble DEF TypeOK, Moved
<1>6. CASE /\ StillAsRead(r) /\ journal' = [journal EXCEPT ![e] = record]
           /\ minted' = minted \cup {t} /\ control' = [control EXCEPT ![r] = next]
  <2>1. /\ IsFiniteSet(Asking) /\ Cardinality(Asking) \in Nat /\ r \in Asking
        /\ IsFiniteSet(Fresh) /\ Cardinality(Fresh) \in Nat
        /\ IsFiniteSet(minted) /\ Cardinality(minted) \in Nat
    BY <1>1, <1>2, NodeAssumption, FS_Subset, FS_CardinalityType DEF Asking, Fresh, TypeOK
  <2>2. Cardinality(Asking \ {r}) = Cardinality(Asking) - 1 /\ Cardinality(Asking) # 0
    BY <2>1, FS_RemoveElement, FS_EmptySet
  <2>3. Fresh # {}
    BY <2>1, <2>2, FS_EmptySet DEF Counted
  <2>4. t \in Ticket /\ t \notin minted /\ t # None
    BY <2>3, NodeAssumption DEF t, Fresh
  <2>5. NextSequence(r) \in 1 .. Cardinality(minted) + 1
    BY <1>2, NextIsNumber
  <2>6. /\ record \in Record /\ record.status = "pending" /\ record.intent = "none"
        /\ record.ticket = t /\ record.sequence = NextSequence(r)
    BY <2>1, <2>4, <2>5 DEF Accepted, Record, Status, Intent
  <2> HIDE DEF record
  <2>7. /\ journal' \in [Execution -> Record] /\ journal'[e] = record
        /\ \A f \in Execution \ {e} : journal'[f] = journal[f]
    BY <1>2, <1>6, <2>6 DEF TypeOK
  <2>8. /\ next \in Holder /\ next.pc = "ticket" /\ next.exec = control[r].exec /\ next.kind = control[r].kind
        /\ next.seen = control[r].seen /\ next.todo = control[r].todo
    BY Typed DEF next, Holder, Place
  <2>9. Moved(r) /\ control'[r] = next
    BY <1>6, <2>8 DEF Moved, TypeOK
  <2>10. Local(r) /\ HostLocal(r)
    BY <1>1, <1>2, <1>3, <2>7, <2>9, GoneIsLocal DEF Local, Moved
  <2>11. Counted'
    <3>1. Asking' = Asking \ {r}
      BY <1>1, <2>8, <2>9 DEF Asking, Moved
    <3>2. Fresh' = Fresh \ {t} /\ t \in Fresh
      BY <1>6, <2>4 DEF Fresh
    <3>3. Cardinality(Fresh') = Cardinality(Fresh) - 1
      BY <2>1, <3>2, FS_RemoveElement
    <3>4. Cardinality(minted') = Cardinality(minted) + 1
      BY <1>6, <2>1, <2>4, FS_AddElement
    <3>5. \A f \in Execution : journal'[f].sequence <= Cardinality(minted')
      <4>1. \A f \in Execution : journal[f].sequence \in Nat /\ journal[f].sequence <= Cardinality(minted)
        BY Typed DEF Counted
      <4> QED BY <2>1, <2>5, <2>6, <2>7, <3>4, <4>1
    <3> QED BY <2>1, <2>2, <3>1, <3>3, <3>5 DEF Counted
  <2>12. TicketsApart'
    <3>1. \A f \in Execution : journal[f].ticket # t
      BY <2>4 DEF TicketsApart
    <3>2. \A i \in DOMAIN queue : queue[i].ticket # t
      BY <2>4 DEF TicketsApart
    <3>3. /\ DOMAIN queue' = DOMAIN queue
          /\ \A i \in DOMAIN queue : /\ queue'[i].ticket = queue[i].ticket
                                     /\ queue'[i].execution = queue[i].execution
                                     /\ queue'[i].runtime = queue[i].runtime
      BY <1>3 DEF RowsGo, SameRows
    <3>4. \A f \in Execution : /\ journal'[f].status = "absent" <=> journal'[f].ticket = None
                               /\ journal'[f].status = "absent" => journal'[f].intent = "none"
                               /\ journal'[f].ticket \in minted' \cup {None}
      BY <1>6, <2>4, <2>6, <2>7 DEF TicketsApart
    <3>5. \A f, g \in Execution : journal'[f].ticket = journal'[g].ticket => f = g \/ journal'[f].ticket = None
      BY <2>6, <2>7, <3>1 DEF TicketsApart
    <3>6. \A i \in DOMAIN queue' :
            /\ queue'[i].ticket \in minted' /\ queue'[i].runtime = Owner[queue'[i].execution]
            /\ \A f \in Execution : queue'[i].ticket = journal'[f].ticket => queue'[i].execution = f
      BY <1>6, <2>6, <2>7, <3>2, <3>3 DEF TicketsApart
    <3> QED BY <3>4, <3>5, <3>6 DEF TicketsApart
  <2>13. SlotsBounded'
    BY <1>3, SlotsStayBounded DEF RowsGo
  <2>14. RequestStands(r)' /\ TodoWaits(r)'
    BY <1>1, <1>2, <2>6, <2>7, <2>8, <2>9 DEF RequestStands, TodoWaits
  <2>15. \A f \in Execution : Running(f)' <=> Running(f)
    BY <1>1 DEF Running
  <2>16. \A f \in Execution : Owner[f] = r => ~Launching(f) /\ ~Launching(f)'
    BY <1>1, <2>8, <2>9 DEF Launching
  <2>17. Owned(r)' = Owned(r) /\ \A f \in Owned(r) : f \in Execution /\ Owner[f] = r
    BY DEF Owned
  <2>18. TasksFollow(r)' /\ CancelSettles(r)'
    <3>1. TasksFollow(r) /\ CancelSettles(r) /\ active' = active /\ wedged' = wedged
      BY <1>1 DEF Sound
    <3> QED BY <1>1, <1>2, <2>6, <2>7, <2>8, <2>9, <2>17, <3>1 DEF TasksFollow, CancelSettles
  <2>19. SlotsHeld(r)'
    <3>1. ASSUME NEW f \in Owned(r), Running(f)
          PROVE  HoldsSlot(f)'
      <4>1. HoldsSlot(f) /\ f # e /\ f \in Execution
        BY <1>2, <2>17, <3>1 DEF Sound, SlotsHeld, Running
      <4> QED BY <1>4, <2>7, <4>1 DEF HoldsSlot, SameRows
    <3> QED BY <2>15, <2>16, <2>17, <3>1 DEF SlotsHeld
  <2>20. SlotsUsed(r)'
    <3>1. ASSUME NEW i \in HC!Running, queue[i].runtime = r, ~wedged[r]
          PROVE  /\ queue[i].execution \in Execution
                 /\ queue[i].ticket = journal'[queue[i].execution].ticket
                 /\ Running(queue[i].execution)'
      <4>1. queue[i] \in HC!Row /\ i \in DOMAIN queue
        BY RowsTyped DEF HC!IInv
      <4>2. queue[i].execution \in Execution /\ Owner[queue[i].execution] = r
        BY <3>1, <4>1 DEF HC!Row, TicketsApart
      <4>3. queue[i].ticket = journal[queue[i].execution].ticket /\ Running(queue[i].execution)
        BY <1>1, <2>16, <3>1, <4>2 DEF Sound, SlotsUsed
      <4>4. queue[i].execution # e
        BY <1>2, <4>3 DEF Running
      <4>5. queue'[i].execution = queue[i].execution
        BY <1>4 DEF SameRows
      <4> QED BY <2>7, <2>15, <4>2, <4>3, <4>4, <4>5
    <3> QED BY <1>1, <1>4, <3>1 DEF SlotsUsed, SameRows
  <2>21. TicketsLive(r)'
    <3> SUFFICES ASSUME ~Crashes, NEW f \in Owned(r), journal'[f].status = "pending",
                        NEW i \in DOMAIN queue, queue'[i].ticket = journal'[f].ticket, queue'[i].phase = "done"
                 PROVE  FALSE
      BY <1>3, <2>8, <2>9, <2>17 DEF TicketsLive, RowsGo
    <3>1. queue[i].ticket = journal'[f].ticket /\ queue[i].phase = "done" /\ queue[i].ticket # t
      BY <1>3, <2>4 DEF RowsGo, SameRows, TicketsApart
    <3>2. f # e
      BY <2>6, <2>7, <3>1
    <3> QED BY <2>7, <2>17, <3>1, <3>2 DEF Sound, TicketsLive
  <2>22. Sound(r)'
    BY <2>14, <2>18, <2>19, <2>20, <2>21 DEF Sound
  <2>23. minted' \subseteq Ticket
    BY <1>6, <2>4 DEF TypeOK
  <2> QED BY <1>1, <2>7, <2>9, <2>10, <2>11, <2>12, <2>13, <2>22, <2>23, Assemble DEF TypeOK, Moved
<1> QED BY <1>1, <1>5, <1>6

(* The entry a cycle works on was accepted: it has a ticket.                *)
LEMMA EntryWaits ==
  ASSUME IInv, NEW r \in Runtime, control[r].pc \in {"entry", "claim", "launch"}
  PROVE  /\ Entry(r) \in control[r].todo /\ Entry(r) \in Execution /\ Owner[Entry(r)] = r
         /\ active[Entry(r)] = "none" /\ journal[Entry(r)].ticket \in Ticket
         /\ Entry(r) # control[r].exec
<1>1. TodoWaits(r) /\ RequestStands(r) /\ TypeOK
  BY DEF IInv, Sound
<1>2. Entry(r) \in control[r].todo /\ Entry(r) \in Execution
  BY <1>1, EntryIsTodo DEF TodoWaits
<1>3. journal[Entry(r)].ticket \in Ticket
  BY <1>1, <1>2, Typed DEF IInv, TicketsApart, TodoWaits
<1>4. Entry(r) # control[r].exec
  BY <1>1, <1>2, NodeAssumption DEF RequestStands
<1> QED BY <1>1, <1>2, <1>3, <1>4 DEF TodoWaits

(* The cycle goes on with the same entries, one stage further.              *)
LEMMA CycleAdvances ==
  ASSUME IInv, NEW r \in Runtime, NEW pc \in {"claim", "launch"},
         control[r].pc \in {"entry", "claim"}, control' = [control EXCEPT ![r].pc = pc],
         UNCHANGED <<journal, active>>
  PROVE  /\ Moved(r) /\ control'[r].pc = pc /\ control'[r].todo = control[r].todo
         /\ RequestStands(r)' /\ TodoWaits(r)' /\ Asking' \subseteq Asking
<1> DEFINE next == [control[r] EXCEPT !.pc = pc]
<1>1. control[r] \in Holder /\ RequestStands(r) /\ TodoWaits(r)
  BY DEF IInv, TypeOK, Sound
<1>2. /\ next \in Holder /\ next.pc = pc /\ next.exec = control[r].exec /\ next.kind = control[r].kind
      /\ next.seen = control[r].seen /\ next.todo = control[r].todo
  BY <1>1 DEF Holder, Place
<1>3. control' = [control EXCEPT ![r] = next]
  OBVIOUS
<1> HIDE DEF next
<1>4. Moved(r) /\ control'[r] = next
  BY <1>2, <1>3 DEF Moved, IInv, TypeOK
<1>5. RequestStands(r)'
  BY <1>1, <1>2, <1>4 DEF RequestStands
<1>6. TodoWaits(r)'
  BY <1>1, <1>2, <1>4 DEF TodoWaits
<1>7. Asking' \subseteq Asking
  BY <1>2, <1>4 DEF Asking, Moved
<1> QED BY <1>2, <1>4, <1>5, <1>6, <1>7

LEMMA EntryTicketKeeps ==
  ASSUME IInv, NEW r \in Runtime, EntryTicket(r)
  PROVE  IInv'
<1> USE DEF IInv
<1> DEFINE e == Entry(r)
           t == journal[e].ticket
<1>1. /\ control[r].pc = "entry" /\ UNCHANGED <<journal, frozen, active, minted>>
      /\ HC!Enqueue(t, e, r) \/ UNCHANGED hostVars
      /\ \/ control' = [control EXCEPT ![r].pc = "claim"] /\ wedged' = wedged
         \/ control' = [control EXCEPT ![r] = Idle] /\ wedged' = [wedged EXCEPT ![r] = TRUE]
  BY DEF EntryTicket, CycleFails
<1> HIDE DEF EntryTicket
<1>2. e \in Execution /\ Owner[e] = r /\ t \in Ticket
  BY <1>1, EntryWaits
<1> HIDE DEF e
<1>3. RowAdded(t, e, r)
  BY <1>1, <1>2, MayAdd
<1>4. /\ Moved(r) /\ control'[r].pc \notin {"launch", "down"} /\ Asking' \subseteq Asking
      /\ RequestStands(r)' /\ TodoWaits(r)'
  <2>1. CASE control' = [control EXCEPT ![r].pc = "claim"]
    BY <1>1, <2>1, CycleAdvances
  <2>2. CASE control' = [control EXCEPT ![r] = Idle]
    <3>1. control[r].exec # None => active'[control[r].exec] = "none"
            /\ journal'[control[r].exec].status = journal[control[r].exec].status
      BY <1>1 DEF Sound, RequestStands
    <3> QED BY <1>1, <2>2, <3>1, CycleEnds, EndedCycleStands
  <2> QED BY <1>1, <2>1, <2>2
<1>5. /\ wedged' \in [Runtime -> BOOLEAN] /\ (wedged[r] => wedged'[r])
      /\ \A q \in Runtime \ {r} : wedged'[q] = wedged[q]
  BY <1>1 DEF TypeOK
<1>6. Local(r) /\ HostLocal(r)
  BY <1>1, <1>3, <1>4, <1>5 DEF Local, RowAdded, Moved
<1>7. TicketsApart' /\ SlotsBounded' /\ TicketsLive(r)' /\ SameRows(HC!Running)
  BY <1>1, <1>2, <1>3, <1>4, AddedStaysSound
<1>8. Counted'
  BY <1>1, <1>4, StaysCounted
<1>9. TasksFollow(r)' /\ SlotsHeld(r)' /\ SlotsUsed(r)' /\ CancelSettles(r)'
  BY <1>1, <1>3, <1>4, <1>5, <1>7, QuietMove DEF RowAdded
<1>10. Sound(r)'
  BY <1>4, <1>7, <1>9 DEF Sound
<1> QED BY <1>1, <1>4, <1>5, <1>6, <1>7, <1>8, <1>10, Assemble DEF TypeOK, Moved

(* A claimed slot is the entry's, which is launching from now on.           *)
LEMMA ClaimSlotKeeps ==
  ASSUME IInv, NEW r \in Runtime, ClaimSlot(r)
  PROVE  IInv'
<1> USE DEF IInv
<1>0. PICK e \in Execution : e = Entry(r) /\ Owner[e] = r /\ active[e] = "none" /\ journal[e].ticket \in Ticket
  BY EntryWaits DEF ClaimSlot
<1> DEFINE t == journal[e].ticket
<1>1. /\ control[r].pc = "claim" /\ UNCHANGED <<journal, frozen, active, wedged, minted>>
      /\ \/ HC!Claim(t, r) /\ control' = [control EXCEPT ![r].pc = "launch"]
         \/ UNCHANGED hostVars /\ EndCycle(r)
  BY <1>0 DEF ClaimSlot
<1> HIDE DEF ClaimSlot
<1>2. t \in Ticket /\ e \in Owned(r)
  BY <1>0 DEF Owned
<1>3. Owned(r)' = Owned(r) /\ \A f \in Owned(r) : f \in Execution /\ Owner[f] = r
  BY DEF Owned
<1>4. CASE UNCHANGED hostVars /\ EndCycle(r)
  <2>1. RowsGo({})
    BY <1>4, NothingGoes
  <2>2. HC!Running' = HC!Running /\ SameRows(HC!Running)
    BY <2>1, RowsTyped DEF RowsGo, SameRows, HC!IInv
  <2>3. /\ Moved(r) /\ control'[r].pc \notin {"launch", "down"} /\ Asking' \subseteq Asking
        /\ RequestStands(r)' /\ TodoWaits(r)'
    <3>1. control[r].exec # None => active'[control[r].exec] = "none"
            /\ journal'[control[r].exec].status = journal[control[r].exec].status
      BY <1>1 DEF Sound, RequestStands
    <3> QED BY <1>1, <1>4, <3>1, CycleEnds, EndedCycleStands
  <2>4. Local(r) /\ HostLocal(r)
    BY <1>1, <2>1, <2>3, GoneIsLocal DEF Local, Moved
  <2>5. TicketsApart' /\ SlotsBounded' /\ Counted'
    BY <1>1, <2>1, <2>3, TicketsStayApart, SlotsStayBounded, StaysCounted DEF RowsGo, TicketsApart
  <2>6. TicketsLive(r)'
    BY <1>1, <2>1, <2>3, TicketsStayLive
  <2>7. TasksFollow(r)' /\ SlotsHeld(r)' /\ SlotsUsed(r)' /\ CancelSettles(r)'
    BY <1>1, <2>2, <2>3, QuietMove
  <2>8. Sound(r)'
    BY <2>3, <2>6, <2>7 DEF Sound
  <2> QED BY <1>1, <2>3, <2>4, <2>5, <2>8, Assemble DEF TypeOK, Moved
<1>5. CASE HC!Claim(t, r) /\ control' = [control EXCEPT ![r].pc = "launch"]
  <2>1. /\ HC!IInv' /\ maxRuns' = maxRuns /\ DOMAIN queue' = DOMAIN queue /\ SameRows(DOMAIN queue)
        /\ Cardinality(HC!Running) < maxRuns
    BY <1>2, <1>5, Claimed
  <2>2. PICK n \in DOMAIN queue :
          /\ queue[n].ticket = t /\ queue[n].runtime = r
          /\ HC!Running' = HC!Running \cup {n}
          /\ \A i \in DOMAIN queue : queue'[i].phase = "done" <=> queue[i].phase = "done"
          /\ \A i \in DOMAIN queue \ {n} : queue'[i].phase = queue[i].phase
    BY <1>2, <1>5, Claimed
  <2>3. queue[n].execution = e
    BY <1>2, <2>2 DEF TicketsApart
  <2>4. /\ Moved(r) /\ control'[r].pc = "launch" /\ control'[r].todo = control[r].todo
        /\ RequestStands(r)' /\ TodoWaits(r)' /\ Asking' \subseteq Asking
    BY <1>1, <1>5, CycleAdvances
  <2>5. Entry(r)' = e
    BY <1>0, <1>1, <2>4, SameEntry
  <2>6. Local(r)
    BY <1>1, <2>4 DEF Local, Moved
  <2>7. HostLocal(r)
    BY <2>1, <2>2 DEF HostLocal
  <2>8. SlotsBounded'
    <3>1. IsFiniteSet(HC!Running) /\ Cardinality(HC!Running) \in Nat
      BY RowsTyped DEF HC!IInv
    <3>2. Cardinality(HC!Running') = Cardinality(HC!Running)
            \/ Cardinality(HC!Running') = Cardinality(HC!Running) + 1
      BY <2>2, <3>1, FS_AddElement
    <3> QED BY <2>1, <3>1, <3>2 DEF SlotsBounded
  <2>9. TicketsApart' /\ Counted'
    BY <1>1, <2>1, <2>4, TicketsStayApart, StaysCounted DEF TicketsApart
  <2>10. TasksFollow(r)' /\ CancelSettles(r)'
    BY <1>1, <1>3, <2>4 DEF Sound, TasksFollow, CancelSettles
  <2>11. \A f \in Execution : Owner[f] = r => (Running(f)' <=> Running(f)) /\ ~Launching(f) /\ (Launching(f)' <=> f = e)
    BY <1>1, <2>4, <2>5 DEF Running, Launching
  <2>12. SlotsHeld(r)'
    <3>1. ASSUME NEW f \in Owned(r), Running(f)
          PROVE  HoldsSlot(f)'
      <4>1. HoldsSlot(f)
        BY <3>1 DEF Sound, SlotsHeld
      <4> QED BY <1>1, <2>1, <2>2, <4>1, RowsTyped DEF HoldsSlot, SameRows, HC!IInv
    <3>2. HoldsSlot(e)'
      BY <1>0, <1>1, <2>1, <2>2, <2>3 DEF HoldsSlot, SameRows
    <3> QED BY <1>3, <2>11, <3>1, <3>2 DEF SlotsHeld
  <2>13. SlotsUsed(r)'
    <3>1. ASSUME NEW i \in HC!Running', queue[i].runtime = r, ~wedged[r]
          PROVE  /\ queue[i].execution \in Execution /\ Owner[queue[i].execution] = r
                 /\ queue[i].ticket = journal[queue[i].execution].ticket
                 /\ Running(queue[i].execution) \/ queue[i].execution = e
      <4>1. i \in DOMAIN queue /\ queue[i] \in HC!Row
        BY <2>2, RowsTyped DEF HC!IInv
      <4>2. queue[i].execution \in Execution /\ Owner[queue[i].execution] = r
        BY <3>1, <4>1 DEF HC!Row, TicketsApart
      <4>3. CASE i = n
        BY <2>2, <2>3, <4>2, <4>3
      <4>4. CASE i \in HC!Running
        BY <1>1, <2>11, <3>1, <4>2, <4>4 DEF Sound, SlotsUsed
      <4> QED BY <2>2, <4>3, <4>4
    <3>2. \A i \in HC!Running' : /\ queue'[i].ticket = queue[i].ticket
                                 /\ queue'[i].execution = queue[i].execution
                                 /\ queue'[i].runtime = queue[i].runtime
      BY <2>1, <2>2, RowsTyped DEF SameRows, HC!IInv
    <3>3. SUFFICES ASSUME NEW i \in HC!Running', queue'[i].runtime = r, ~wedged'[r]
                   PROVE  /\ queue'[i].ticket = journal'[queue'[i].execution].ticket
                          /\ Running(queue[i].execution)' \/ Launching(queue[i].execution)'
      BY DEF SlotsUsed
    <3>4. Running(queue[i].execution)' <=> Running(queue[i].execution)
      BY <1>1, <3>2 DEF Running
    <3>5. Owner[queue[i].execution] = r /\ queue[i].execution = e => Launching(queue[i].execution)'
      BY <2>4, <2>5, <3>2 DEF Launching
    <3> QED BY <1>1, <3>1, <3>2, <3>3, <3>4, <3>5
  <2>14. TicketsLive(r)'
    BY <1>1, <1>3, <2>1, <2>2, <2>4 DEF Sound, TicketsLive, SameRows
  <2>15. Sound(r)'
    BY <2>4, <2>10, <2>12, <2>13, <2>14 DEF Sound
  <2> QED BY <1>1, <2>4, <2>6, <2>7, <2>8, <2>9, <2>15, Assemble DEF TypeOK, Moved
<1> QED BY <1>1, <1>4, <1>5

(* After an entry the cycle takes the next one, or ends.                    *)
LEMMA CycleMovesOn ==
  ASSUME IInv, NEW r \in Runtime, control[r].pc = "launch", NextEntry(r),
         \A f \in Execution : f # Entry(r) => journal'[f] = journal[f] /\ active'[f] = active[f]
  PROVE  /\ Moved(r) /\ control'[r].pc \notin {"launch", "down"} /\ Asking' \subseteq Asking
         /\ RequestStands(r)' /\ TodoWaits(r)'
<1> DEFINE e == Entry(r)
           rest == control[r].todo \ {e}
           next == [control[r] EXCEPT !.pc = "entry", !.todo = rest]
<1>1. /\ control[r] \in Holder /\ RequestStands(r) /\ TodoWaits(r)
      /\ control[r].todo \subseteq Execution /\ control[r].exec \in Execution \cup {None}
  BY Typed DEF IInv, Sound
<1>2. e \in control[r].todo /\ e # control[r].exec
  BY EntryWaits
<1>3. CASE EndCycle(r)
  <2>1. control[r].exec # None => active'[control[r].exec] = "none"
          /\ journal'[control[r].exec].status = journal[control[r].exec].status
    BY <1>1, <1>2 DEF RequestStands
  <2> QED BY <1>3, <2>1, EndedCycleStands, CycleEnds DEF IInv
<1>4. CASE ~(control[r].todo = {e}) /\ control' = [control EXCEPT ![r].pc = "entry", ![r].todo = @ \ {e}]
  <2>1. control' = [control EXCEPT ![r] = next]
    BY <1>4
  <2>2. /\ next \in Holder /\ next.pc = "entry" /\ next.todo = rest /\ next.exec = control[r].exec
        /\ next.kind = control[r].kind /\ next.seen = control[r].seen
    BY <1>1 DEF Holder, Place
  <2>3. rest # {} /\ rest \subseteq control[r].todo /\ e \notin rest
    BY <1>2, <1>4
  <2> HIDE DEF next, rest, e
  <2>4. Moved(r) /\ control'[r] = next
    BY <2>1, <2>2 DEF Moved, IInv, TypeOK
  <2>5. Asking' \subseteq Asking
    BY <2>2, <2>4 DEF Asking, Moved
  <2>6. RequestStands(r)'
    <3>1. control[r].exec # None => control[r].exec \in Execution /\ control[r].exec # Entry(r)
      BY <1>1, <1>2 DEF e
    <3> QED BY <1>1, <2>2, <2>3, <2>4, <3>1 DEF RequestStands
  <2>7. TodoWaits(r)'
    BY <1>1, <2>2, <2>3, <2>4 DEF TodoWaits, e
  <2> QED BY <2>2, <2>4, <2>5, <2>6, <2>7
<1> QED BY <1>3, <1>4 DEF NextEntry

(* A launched entry runs in the slot it claimed; a refused one gives it up. *)
LEMMA LaunchKeeps ==
  ASSUME IInv, NEW r \in Runtime, Launch(r)
  PROVE  IInv'
<1> USE DEF IInv
<1>1. PICK e \in Execution : e = Entry(r) /\ Owner[e] = r /\ active[e] = "none" /\ journal[e].ticket \in Ticket
  BY EntryWaits DEF Launch
<1> DEFINE t == journal[e].ticket
<1>2. control[r].pc = "launch" /\ NextEntry(r) /\ UNCHANGED <<frozen, wedged, minted>>
  BY DEF Launch
<1>3. \/ /\ journal' = [journal EXCEPT ![e] = Started(@)] /\ active' = [active EXCEPT ![e] = "running"]
         /\ UNCHANGED hostVars
      \/ /\ ~Launchable(journal[e]) /\ HC!Finish(t, r) /\ UNCHANGED <<journal, active>>
      \/ /\ journal[e].status = "pending" /\ journal' = [journal EXCEPT ![e] = Finalized(@, "error")]
         /\ HC!Finish(t, r) /\ UNCHANGED active
  BY <1>1 DEF Launch
<1> HIDE DEF Launch
<1>4. /\ journal[e] \in Record /\ e \in Owned(r) /\ journal[e].status # "absent"
      /\ TodoWaits(r) /\ TasksFollow(r) /\ SlotsHeld(r) /\ SlotsUsed(r) /\ CancelSettles(r)
  BY <1>1, <1>2, Typed, EntryWaits DEF Sound, TodoWaits
<1>5. /\ Started(journal[e]) \in Record /\ Started(journal[e]).status = "running"
      /\ Started(journal[e]).intent = "none" /\ Started(journal[e]).ticket = t
      /\ Started(journal[e]).sequence = journal[e].sequence
  BY <1>4 DEF Started, Record, Status, Intent
<1>6. journal[e].status = "pending" =>
        /\ Finalized(journal[e], "error") \in Record
        /\ Finalized(journal[e], "error").status \in {"error", "interrupted", "cancelled"}
        /\ Finalized(journal[e], "error").intent = journal[e].intent
        /\ Finalized(journal[e], "error").ticket = t
        /\ Finalized(journal[e], "error").sequence = journal[e].sequence
  BY <1>4 DEF Finalized, Terminal, StoppedStatus, Record, Status, Intent
<1>7. /\ journal' \in [Execution -> Record]
      /\ \A f \in Execution : f # e => journal'[f] = journal[f]
      /\ journal'[e].ticket = t /\ journal'[e].sequence = journal[e].sequence
      /\ journal'[e].status \notin {"absent", "pending"}
      /\ journal'[e] = journal[e] \/ journal'[e].intent # "cancel"
  <2>1. CASE journal' = [journal EXCEPT ![e] = Started(@)]
    BY <1>5, <2>1 DEF TypeOK
  <2>2. CASE ~Launchable(journal[e]) /\ UNCHANGED journal
    BY <1>4, <2>2 DEF TypeOK, Launchable
  <2>3. CASE journal[e].status = "pending" /\ journal' = [journal EXCEPT ![e] = Finalized(@, "error")]
    <3>1. journal[e].intent # "cancel"
      BY <1>4, <2>3 DEF CancelSettles
    <3> QED BY <1>6, <2>3, <3>1 DEF TypeOK
  <2> QED BY <1>3, <2>1, <2>2, <2>3
<1>8. /\ active' \in [Execution -> Task]
      /\ \A f \in Execution : f # e => active'[f] = active[f]
      /\ active'[e] \in {"none", "running"}
  BY <1>1, <1>3 DEF TypeOK, Task
<1>9. PICK gone : /\ RowsGo(gone)
                  /\ \A i \in gone : i \in DOMAIN queue /\ queue[i].ticket = t
                  /\ active'[e] = "running" => gone = {}
                  /\ active'[e] = "none" => \A i \in DOMAIN queue : queue[i].ticket = t => i \in gone
  <2>1. CASE active' = [active EXCEPT ![e] = "running"] /\ UNCHANGED hostVars
    <3>1. RowsGo({}) /\ active'[e] = "running"
      BY <2>1, NothingGoes DEF TypeOK
    <3> QED BY <3>1
  <2>2. CASE HC!Finish(t, r) /\ UNCHANGED active
    <3>1. PICK n \in DOMAIN queue : /\ queue[n].ticket = t /\ {n} \subseteq HC!Live /\ HC!Retire({n})
                                    /\ \A i \in DOMAIN queue : queue[i].ticket = t => i = n
      BY <1>1, <2>2, Finished
    <3>2. RowsGo({n}) /\ active'[e] = "none"
      BY <1>1, <2>2, <3>1, Retired
    <3> QED BY <3>1, <3>2
  <2> QED BY <1>3, <2>1, <2>2
<1>10. \A i \in gone : queue[i].execution = e /\ queue[i].runtime = r
  BY <1>1, <1>9 DEF TicketsApart
<1>11. /\ Moved(r) /\ control'[r].pc \notin {"launch", "down"} /\ Asking' \subseteq Asking
       /\ RequestStands(r)' /\ TodoWaits(r)'
  BY <1>1, <1>2, <1>7, <1>8, CycleMovesOn
<1>12. Local(r) /\ HostLocal(r)
  BY <1>1, <1>2, <1>7, <1>8, <1>9, <1>10, <1>11, GoneIsLocal DEF Local, Moved
<1>13. TicketsApart' /\ SlotsBounded' /\ Counted'
  <2>1. \A f \in Execution : /\ journal'[f].ticket = journal[f].ticket
                             /\ journal'[f].sequence = journal[f].sequence
                             /\ journal'[f].status = "absent" <=> journal[f].status = "absent"
                             /\ journal'[f].status = "absent" => journal'[f].intent = "none"
    BY <1>4, <1>7 DEF TicketsApart
  <2> QED BY <1>2, <1>9, <1>11, <2>1, TicketsStayApart, SlotsStayBounded, StaysCounted DEF RowsGo
<1>14. TicketsLive(r)'
  <2>1. \A f \in Owned(r) : journal'[f].status = "pending" =>
          /\ journal[f].status = "pending" /\ journal'[f].ticket = journal[f].ticket
          /\ \A i \in gone : queue[i].ticket # journal[f].ticket
    BY <1>1, <1>7, <1>9, NodeAssumption DEF Owned, TicketsApart
  <2> QED BY <1>9, <1>11, <2>1, TicketsStayLive
<1>15. /\ Owned(r)' = Owned(r) /\ \A f \in Owned(r) : f \in Execution /\ Owner[f] = r
       /\ \A f \in Execution : Owner[f] = r => ~Launching(f)' /\ (Launching(f) => f = e)
       /\ \A f \in Execution : f # e => (Running(f)' <=> Running(f))
       /\ Running(e)' <=> active'[e] = "running"
  BY <1>1, <1>8, <1>11 DEF Owned, Launching, Running
<1>16. TasksFollow(r)' /\ CancelSettles(r)'
  <2>1. TasksFollow(r)'
    BY <1>4, <1>7, <1>8, <1>11, <1>15 DEF TasksFollow
  <2>2. CancelSettles(r)'
    BY <1>1, <1>2, <1>4, <1>7, <1>8, <1>11, <1>15 DEF CancelSettles
  <2> QED BY <2>1, <2>2
<1>17. SlotsHeld(r)'
  <2> SUFFICES ASSUME NEW f \in Owned(r), Running(f)'
               PROVE  HoldsSlot(f)'
    BY <1>15 DEF SlotsHeld
  <2>1. HoldsSlot(f)
    BY <1>1, <1>2, <1>4, <1>15 DEF SlotsHeld, Launching
  <2>2. PICK i \in HC!Running : queue[i].ticket = journal[f].ticket /\ queue[i].execution = f /\ queue[i].runtime = Owner[f]
    BY <2>1 DEF HoldsSlot
  <2>3. i \notin gone
    BY <1>8, <1>9, <1>10, <1>15, <2>2
  <2>4. i \in HC!Running' /\ journal'[f].ticket = journal[f].ticket
    BY <1>7, <1>9, <1>15, <2>2, <2>3 DEF RowsGo
  <2>5. /\ queue'[i].ticket = queue[i].ticket /\ queue'[i].execution = f
        /\ queue'[i].runtime = Owner[f]
    BY <1>9, <2>2, RowsTyped DEF RowsGo, SameRows, HC!IInv
  <2> QED BY <2>2, <2>4, <2>5 DEF HoldsSlot
<1>18. SlotsUsed(r)'
  <2> SUFFICES ASSUME NEW i \in HC!Running', queue'[i].runtime = r, ~wedged'[r]
               PROVE  /\ queue'[i].ticket = journal'[queue'[i].execution].ticket
                      /\ Running(queue[i].execution)'
    BY DEF SlotsUsed
  <2>1. i \in HC!Running /\ i \in DOMAIN queue /\ i \notin gone
    BY <1>9, RowsTyped DEF RowsGo, HC!IInv
  <2>2. /\ queue'[i].ticket = queue[i].ticket /\ queue'[i].execution = queue[i].execution
        /\ queue[i].runtime = r
    BY <1>9, <2>1 DEF RowsGo, SameRows
  <2>3. PICK x \in Execution : x = queue[i].execution /\ Owner[x] = r
    <3>1. queue[i] \in HC!Row
      BY <2>1, RowsTyped DEF HC!IInv
    <3> QED BY <2>1, <2>2, <3>1 DEF HC!Row, TicketsApart
  <2>4. queue[i].ticket = journal[x].ticket /\ (Running(x) \/ Launching(x))
    BY <1>2, <1>4, <2>1, <2>2, <2>3 DEF SlotsUsed
  <2>5. Running(x)'
    BY <1>8, <1>9, <1>15, <2>1, <2>3, <2>4
  <2>6. journal'[x].ticket = journal[x].ticket
    BY <1>7
  <2> QED BY <2>2, <2>3, <2>4, <2>5, <2>6 DEF Running
<1>19. Sound(r)'
  BY <1>11, <1>14, <1>16, <1>17, <1>18 DEF Sound
<1> QED BY <1>2, <1>7, <1>8, <1>11, <1>12, <1>13, <1>19, Assemble DEF TypeOK, Moved

(***************************************************************************)
(* The actions of a run's task, and of those who stop it.                  *)
(***************************************************************************)
LEMMA TaskMoves ==
  ASSUME IInv, NEW e \in Execution, NEW r \in Runtime, r = Owner[e], NEW gone, RowsGo(gone),
         UNCHANGED <<frozen, control, minted>>, control[r].pc # "down",
         journal' \in [Execution -> Record], active' \in [Execution -> Task],
         wedged' \in [Runtime -> BOOLEAN], wedged[r] => wedged'[r],
         \A q \in Runtime : q # r => wedged'[q] = wedged[q],
         \A f \in Execution : f # e => journal'[f] = journal[f] /\ active'[f] = active[f],
         journal[e].status # "absent", journal'[e].status \notin {"absent", "pending"},
         journal'[e].ticket = journal[e].ticket, journal'[e].sequence = journal[e].sequence,
         control[r].pc # "ticket" \/ active[e] # "none",
         active[e] = "none" => active'[e] = "none",
         \A i \in gone : i \in DOMAIN queue /\ queue[i].ticket = journal[e].ticket,
         gone = {} \/ active'[e] = "released",
         Running(e)' => Running(e),
         Running(e) => \/ Running(e)' \/ wedged'[r]
                       \/ \A i \in DOMAIN queue : queue[i].ticket = journal[e].ticket => i \in gone,
         journal'[e].intent = "cancel" =>
           /\ journal'[e].status \in {"cancelling", "cancelled"}
           /\ journal'[e].status = "cancelling" => active'[e] \in {"running", "signalled"} \/ wedged'[r]
  PROVE  IInv'
<1> USE DEF IInv
<1>1. /\ r \in Runtime /\ e \in Owned(r) /\ control' = control /\ minted' = minted
      /\ Owned(r)' = Owned(r) /\ \A f \in Owned(r) : f \in Execution /\ Owner[f] = r
      /\ RequestStands(r) /\ TodoWaits(r) /\ TasksFollow(r) /\ SlotsHeld(r) /\ SlotsUsed(r) /\ CancelSettles(r)
      /\ control[r].todo \subseteq Execution /\ control[r].exec \in Execution \cup {None}
  BY Typed DEF Sound, Owned
<1>2. \A i \in gone : queue[i].execution = e /\ queue[i].runtime = r
  BY DEF TicketsApart
<1>3. Local(r) /\ HostLocal(r)
  BY <1>1, <1>2, GoneIsLocal DEF Local
<1>4. TicketsApart' /\ SlotsBounded' /\ Counted'
  <2>1. \A f \in Execution : /\ journal'[f].ticket = journal[f].ticket
                             /\ journal'[f].sequence = journal[f].sequence
                             /\ journal'[f].status = "absent" <=> journal[f].status = "absent"
                             /\ journal'[f].status = "absent" => journal'[f].intent = "none"
    BY DEF TicketsApart
  <2>2. Asking' \subseteq Asking
    BY <1>1 DEF Asking
  <2> QED BY <1>1, <2>1, <2>2, TicketsStayApart, SlotsStayBounded, StaysCounted DEF RowsGo
<1>5. RequestStands(r)'
  BY <1>1 DEF RequestStands
<1>6. TodoWaits(r)'
  BY <1>1 DEF TodoWaits
<1>7. TasksFollow(r)' /\ CancelSettles(r)'
  BY <1>1 DEF TasksFollow, CancelSettles
<1>8. Entry(r)' = Entry(r)
  BY <1>1, SameEntry
<1>9. /\ \A f \in Execution : Owner[f] = r => (Launching(f)' <=> Launching(f))
      /\ \A f \in Execution : f # e => (Running(f)' <=> Running(f))
  BY <1>1, <1>8 DEF Launching, Running
<1>10. active'[e] = "released" => ~Running(e)' /\ ~Launching(e)
  <2>1. active[e] # "none" => ~Launching(e)
    BY EntryWaits DEF Launching
  <2> QED BY <2>1 DEF Running
<1>11. SlotsHeld(r)'
  <2> SUFFICES ASSUME NEW f \in Owned(r), Running(f)' \/ Launching(f)'
               PROVE  HoldsSlot(f)'
    BY <1>1 DEF SlotsHeld
  <2>1. HoldsSlot(f)
    BY <1>1, <1>9 DEF SlotsHeld
  <2>2. PICK i \in HC!Running : queue[i].ticket = journal[f].ticket /\ queue[i].execution = f /\ queue[i].runtime = Owner[f]
    BY <2>1 DEF HoldsSlot
  <2>3. i \notin gone
    BY <1>1, <1>2, <1>9, <1>10, <2>2
  <2>4. i \in HC!Running' /\ journal'[f].ticket = journal[f].ticket
    BY <1>1, <2>2, <2>3 DEF RowsGo
  <2>5. /\ queue'[i].ticket = queue[i].ticket /\ queue'[i].execution = f
        /\ queue'[i].runtime = Owner[f]
    BY <2>2, RowsTyped DEF RowsGo, SameRows, HC!IInv
  <2> QED BY <2>2, <2>4, <2>5 DEF HoldsSlot
<1>12. SlotsUsed(r)'
  <2> SUFFICES ASSUME NEW i \in HC!Running', queue'[i].runtime = r, ~wedged'[r]
               PROVE  /\ queue'[i].ticket = journal'[queue'[i].execution].ticket
                      /\ Running(queue[i].execution)' \/ Launching(queue[i].execution)'
    BY DEF SlotsUsed
  <2>1. i \in HC!Running /\ i \in DOMAIN queue /\ i \notin gone
    BY RowsTyped DEF RowsGo, HC!IInv
  <2>2. /\ queue'[i].ticket = queue[i].ticket /\ queue'[i].execution = queue[i].execution
        /\ queue[i].runtime = r
    BY <2>1 DEF RowsGo, SameRows
  <2>3. PICK x \in Execution : x = queue[i].execution /\ Owner[x] = r
    <3>1. queue[i] \in HC!Row
      BY <2>1, RowsTyped DEF HC!IInv
    <3> QED BY <2>1, <2>2, <3>1 DEF HC!Row, TicketsApart
  <2>4. queue[i].ticket = journal[x].ticket /\ (Running(x) \/ Launching(x))
    BY <1>1, <2>1, <2>2, <2>3 DEF SlotsUsed
  <2>5. Running(x)' \/ Launching(x)'
    BY <1>9, <2>1, <2>3, <2>4
  <2>6. journal'[x].ticket = journal[x].ticket
    OBVIOUS
  <2> QED BY <2>2, <2>3, <2>4, <2>5, <2>6 DEF Running, Launching
<1>13. TicketsLive(r)'
  <2>1. \A f \in Owned(r) : journal'[f].status = "pending" =>
          /\ journal[f].status = "pending" /\ journal'[f].ticket = journal[f].ticket
          /\ \A i \in gone : queue[i].ticket # journal[f].ticket
    BY <1>1, NodeAssumption DEF TicketsApart
  <2> QED BY <1>1, <2>1, TicketsStayLive
<1>14. Sound(r)'
  BY <1>5, <1>6, <1>7, <1>11, <1>12, <1>13 DEF Sound
<1> QED BY <1>1, <1>3, <1>4, <1>14, Assemble DEF TypeOK

(* A task is of an accepted record that does not wait, on a live runtime.   *)
LEMMA TaskIsOwned ==
  ASSUME IInv, NEW e \in Execution
  PROVE  /\ Owner[e] \in Runtime /\ e \in Owned(Owner[e]) /\ journal[e] \in Record
         /\ active[e] # "none" => /\ journal[e].status \notin {"absent", "pending"}
                                  /\ control[Owner[e]].pc # "down"
         /\ journal[e].intent = "cancel" => journal[e].status \in {"cancelling", "cancelled"}
         /\ journal[e].status = "cancelling" /\ journal[e].intent = "cancel" =>
              \/ active[e] \in {"running", "signalled"} \/ wedged[Owner[e]] \/ control[Owner[e]].pc = "down"
<1>1. Owner[e] \in Runtime /\ e \in Owned(Owner[e]) /\ journal[e] \in Record
  BY Typed DEF IInv
<1>2. TasksFollow(Owner[e]) /\ CancelSettles(Owner[e])
  BY <1>1 DEF IInv, Sound
<1> QED BY <1>1, <1>2 DEF TasksFollow, CancelSettles

LEMMA FinalizeKeeps ==
  ASSUME IInv, NEW e \in Execution, Finalize(e)
  PROVE  IInv'
<1> DEFINE r == Owner[e]
<1>1. active[e] \in {"running", "signalled"} /\ UNCHANGED <<hostVars, frozen, control, minted>>
  BY DEF Finalize
<1>2. /\ r \in Runtime /\ journal[e] \in Record /\ journal[e].status \notin {"absent", "pending"}
      /\ control[r].pc # "down"
  BY <1>1, TaskIsOwned
<1>3. RowsGo({})
  BY <1>1, NothingGoes DEF IInv
<1>4. ASSUME NEW proposed \in Outcome, journal' = [journal EXCEPT ![e] = Finalized(@, proposed)],
             active' = [active EXCEPT ![e] = "finalized"], UNCHANGED wedged
      PROVE  IInv'
  <2>1. /\ Finalized(journal[e], proposed) \in Record
        /\ Finalized(journal[e], proposed).ticket = journal[e].ticket
        /\ Finalized(journal[e], proposed).sequence = journal[e].sequence
        /\ Finalized(journal[e], proposed).intent = journal[e].intent
        /\ Finalized(journal[e], proposed).status \notin {"absent", "pending"}
    BY <1>2 DEF Finalized, Outcome, StoppedStatus, Record, Status, Intent
  <2>2. journal[e].intent = "cancel" => Finalized(journal[e], proposed).status = "cancelled"
    BY <1>2, TaskIsOwned DEF Finalized, Terminal, StoppedStatus, Record
  <2>3. /\ journal' \in [Execution -> Record] /\ journal'[e] = Finalized(journal[e], proposed)
        /\ active' \in [Execution -> Task] /\ active'[e] = "finalized"
        /\ \A f \in Execution : f # e => journal'[f] = journal[f] /\ active'[f] = active[f]
    BY <1>4, <2>1 DEF IInv, TypeOK, Task
  <2>4. wedged' = wedged /\ wedged' \in [Runtime -> BOOLEAN]
    BY <1>4 DEF IInv, TypeOK
  <2>5. Running(e) /\ Running(e)'
    BY <1>1, <2>3 DEF Running
  <2> QED BY <1>1, <1>2, <1>3, <2>1, <2>2, <2>3, <2>4, <2>5, TaskMoves
<1>5. CASE /\ active' = [active EXCEPT ![e] = "released"] /\ wedged' = [wedged EXCEPT ![r] = TRUE]
           /\ UNCHANGED journal
  <2>1. /\ journal' \in [Execution -> Record] /\ journal' = journal
        /\ active' \in [Execution -> Task] /\ active'[e] = "released"
        /\ \A f \in Execution : f # e => active'[f] = active[f]
    BY <1>5 DEF IInv, TypeOK, Task
  <2>2. /\ wedged' \in [Runtime -> BOOLEAN] /\ wedged'[r]
        /\ \A q \in Runtime : q # r => wedged'[q] = wedged[q]
    BY <1>2, <1>5 DEF IInv, TypeOK
  <2>3. Running(e) /\ ~Running(e)'
    BY <1>1, <2>1 DEF Running
  <2> QED BY <1>1, <1>2, <1>3, <2>1, <2>2, <2>3, TaskMoves, TaskIsOwned
<1> QED BY <1>4, <1>5 DEF Finalize

LEMMA FinishSlotKeeps ==
  ASSUME IInv, NEW e \in Execution, FinishSlot(e)
  PROVE  IInv'
<1> DEFINE r == Owner[e]
           t == journal[e].ticket
<1>1. /\ active[e] = "finalized" /\ UNCHANGED <<journal, frozen, control, minted>>
      /\ active' = [active EXCEPT ![e] = "released"]
      /\ \/ HC!Finish(t, r) /\ UNCHANGED wedged
         \/ UNCHANGED hostVars /\ wedged' = [wedged EXCEPT ![r] = TRUE]
  BY DEF FinishSlot
<1>2. /\ r \in Runtime /\ journal[e] \in Record /\ journal[e].status \notin {"absent", "pending"}
      /\ control[r].pc # "down"
  BY <1>1, TaskIsOwned
<1>3. t \in Ticket
  BY <1>2, Typed DEF IInv, TicketsApart
<1>4. /\ wedged' \in [Runtime -> BOOLEAN] /\ (wedged[r] => wedged'[r])
      /\ \A q \in Runtime : q # r => wedged'[q] = wedged[q]
  BY <1>1, <1>2 DEF IInv, TypeOK
<1>5. PICK gone : /\ RowsGo(gone)
                  /\ \A i \in gone : i \in DOMAIN queue /\ queue[i].ticket = t
                  /\ wedged'[r] \/ \A i \in DOMAIN queue : queue[i].ticket = t => i \in gone
  <2>1. CASE HC!Finish(t, r)
    <3>1. PICK n \in DOMAIN queue : /\ queue[n].ticket = t /\ {n} \subseteq HC!Live /\ HC!Retire({n})
                                    /\ \A i \in DOMAIN queue : queue[i].ticket = t => i = n
      BY <1>2, <1>3, <2>1, Finished DEF IInv
    <3>2. RowsGo({n})
      BY <3>1, Retired DEF IInv
    <3> QED BY <3>1, <3>2
  <2>2. CASE UNCHANGED hostVars /\ wedged' = [wedged EXCEPT ![r] = TRUE]
    <3>1. RowsGo({}) /\ wedged'[r]
      BY <1>2, <2>2, NothingGoes DEF IInv, TypeOK
    <3> QED BY <3>1
  <2> QED BY <1>1, <2>1, <2>2
<1>6. /\ active' \in [Execution -> Task] /\ active'[e] = "released"
      /\ \A f \in Execution : f # e => active'[f] = active[f]
      /\ journal' = journal /\ journal' \in [Execution -> Record]
  BY <1>1 DEF IInv, TypeOK, Task
<1>7. Running(e) /\ ~Running(e)'
  BY <1>1, <1>6 DEF Running
<1>8. journal[e].intent = "cancel" =>
        /\ journal[e].status \in {"cancelling", "cancelled"}
        /\ journal[e].status = "cancelling" => wedged'[r]
  BY <1>1, <1>2, <1>4, TaskIsOwned
<1> QED BY <1>1, <1>2, <1>4, <1>5, <1>6, <1>7, <1>8, TaskMoves

LEMMA DeactivateKeeps ==
  ASSUME IInv, NEW e \in Execution, Deactivate(e)
  PROVE  IInv'
<1> DEFINE r == Owner[e]
<1>1. /\ active[e] = "released" /\ active' = [active EXCEPT ![e] = "none"]
      /\ UNCHANGED <<hostVars, journal, frozen, control, wedged, minted>>
  BY DEF Deactivate
<1>2. /\ r \in Runtime /\ journal[e].status \notin {"absent", "pending"} /\ control[r].pc # "down"
  BY <1>1, TaskIsOwned
<1>3. RowsGo({})
  BY <1>1, NothingGoes DEF IInv
<1>4. /\ active' \in [Execution -> Task] /\ active'[e] = "none"
      /\ \A f \in Execution : f # e => active'[f] = active[f]
      /\ journal' = journal /\ journal' \in [Execution -> Record]
      /\ wedged' = wedged /\ wedged' \in [Runtime -> BOOLEAN]
  BY <1>1 DEF IInv, TypeOK, Task
<1>5. ~Running(e) /\ ~Running(e)'
  BY <1>1, <1>4 DEF Running
<1>6. journal[e].intent = "cancel" =>
        /\ journal[e].status \in {"cancelling", "cancelled"}
        /\ journal[e].status = "cancelling" => wedged[r]
  BY <1>1, <1>2, TaskIsOwned
<1> QED BY <1>1, <1>2, <1>3, <1>4, <1>5, <1>6, TaskMoves

LEMMA StopKeeps ==
  ASSUME IInv, NEW e \in Execution, NEW intent \in Stops, Stop(e, intent)
  PROVE  IInv'
<1> DEFINE r == Owner[e]
           record == Stopped(journal[e], intent, active[e] # "none")
<1>1. /\ active[e] \in {"none", "running", "signalled"} /\ journal[e].status # "absent"
      /\ control[r].pc \notin {"down", "ticket"} /\ journal' = [journal EXCEPT ![e] = record]
      /\ UNCHANGED <<hostVars, frozen, control, wedged, minted>>
  BY DEF Stop, JournalFree
<1>2. active' = [active EXCEPT ![e] = IF @ = "running" /\ ~Terminal(journal[e].status) THEN "signalled" ELSE @]
  BY DEF Stop
<1>3. r \in Runtime /\ journal[e] \in Record /\ intent \in {"interrupt", "cancel"}
  BY TaskIsOwned, NodeAssumption
<1>4. /\ record \in Record /\ record.ticket = journal[e].ticket /\ record.sequence = journal[e].sequence
      /\ record.status \notin {"absent", "pending"}
  BY <1>1, <1>3 DEF Stopped, MergeIntent, StoppedStatus, Terminal, Record, Status, Intent
<1>5. record.intent = "cancel" =>
        /\ record.status \in {"cancelling", "cancelled"}
        /\ record.status = "cancelling" => active[e] # "none"
  <2>1. CASE Terminal(journal[e].status)
    BY <2>1, TaskIsOwned DEF Stopped, Terminal
  <2>2. CASE ~Terminal(journal[e].status)
    BY <1>3, <2>2 DEF Stopped, StoppedStatus, Record
  <2> QED BY <2>1, <2>2
<1> HIDE DEF record
<1>6. RowsGo({})
  BY <1>1, NothingGoes DEF IInv
<1>7. /\ journal' \in [Execution -> Record] /\ journal'[e] = record
      /\ \A f \in Execution : f # e => journal'[f] = journal[f] /\ active'[f] = active[f]
      /\ wedged' = wedged /\ wedged' \in [Runtime -> BOOLEAN]
  BY <1>1, <1>2, <1>4 DEF IInv, TypeOK
<1>8. /\ active' \in [Execution -> Task]
      /\ active[e] = "none" => active'[e] = "none"
      /\ active[e] # "none" => active'[e] \in {"running", "signalled"}
  BY <1>1, <1>2 DEF IInv, TypeOK, Task
<1>9. Running(e)' <=> Running(e)
  BY <1>1, <1>8 DEF Running
<1> QED BY <1>1, <1>3, <1>4, <1>5, <1>6, <1>7, <1>8, <1>9, TaskMoves

(***************************************************************************)
(* The death and the return of a runtime.                                  *)
(***************************************************************************)
LEMMA CrashKeeps ==
  ASSUME IInv, NEW r \in Runtime, Crash(r)
  PROVE  IInv'
<1> USE DEF IInv
<1>1. /\ Crashes /\ UNCHANGED <<hostVars, journal, frozen, minted>>
      /\ control' = [control EXCEPT ![r] = At("down")]
      /\ active' = [e \in Execution |-> IF Owner[e] = r THEN "none" ELSE active[e]]
      /\ wedged' = [wedged EXCEPT ![r] = FALSE]
  BY DEF Crash
<1>2. /\ At("down") \in Holder /\ At("down").pc = "down" /\ At("down").exec = None
      /\ At("down").kind = None /\ At("down").todo = {}
  BY DEF At, Holder, Place, Mark, NoRecord, Status, Intent
<1>3. /\ control' \in [Runtime -> Holder] /\ control'[r] = At("down")
      /\ active' \in [Execution -> Task] /\ wedged' \in [Runtime -> BOOLEAN]
      /\ \A e \in Execution : Owner[e] = r => active'[e] = "none"
      /\ \A e \in Execution : Owner[e] # r => active'[e] = active[e]
      /\ \A q \in Runtime \ {r} : control'[q] = control[q] /\ wedged'[q] = wedged[q]
  BY <1>1, <1>2, Typed DEF TypeOK, Task
<1>4. RowsGo({})
  BY <1>1, NothingGoes
<1>5. Local(r) /\ HostLocal(r)
  BY <1>1, <1>3, <1>4, GoneIsLocal DEF Local
<1>6. TicketsApart' /\ SlotsBounded' /\ Counted'
  <2>1. Asking' \subseteq Asking
    BY <1>2, <1>3 DEF Asking
  <2> QED BY <1>1, <1>4, <2>1, TicketsStayApart, SlotsStayBounded, StaysCounted DEF RowsGo, TicketsApart
<1>7. Owned(r)' = Owned(r) /\ \A e \in Owned(r) : e \in Execution /\ Owner[e] = r
  BY DEF Owned
<1>8. RequestStands(r)' /\ TodoWaits(r)' /\ TasksFollow(r)' /\ SlotsUsed(r)'
  BY <1>2, <1>3, <1>7 DEF RequestStands, TodoWaits, TasksFollow, SlotsUsed
<1>9. SlotsHeld(r)'
  BY <1>2, <1>3, <1>7 DEF SlotsHeld, Running, Launching
<1>10. CancelSettles(r)'
  BY <1>1, <1>2, <1>3, <1>7 DEF Sound, CancelSettles
<1>11. Sound(r)'
  BY <1>1, <1>8, <1>9, <1>10 DEF Sound, TicketsLive
<1> QED BY <1>1, <1>3, <1>5, <1>6, <1>11, Assemble DEF TypeOK

(* Only a crash leads here, so the slots of the dead runtime can be freed.  *)
LEMMA RestartKeeps ==
  ASSUME IInv, NEW r \in Runtime, Restart(r)
  PROVE  IInv'
<1> USE DEF IInv
<1> DEFINE gone == {i \in HC!RuntimeTickets(r) : queue[i].phase = "running"}
<1>1. /\ control[r].pc = "down" /\ HC!Retire(gone) /\ control' = [control EXCEPT ![r] = Idle]
      /\ journal' = [e \in Execution |-> IF Owner[e] = r THEN Recovered(journal[e]) ELSE journal[e]]
      /\ UNCHANGED <<frozen, active, wedged, minted>>
  BY DEF Restart
<1>2. gone \subseteq HC!Live /\ \A i \in gone : queue[i].runtime = r
  BY DEF HC!RuntimeTickets
<1>3. \A i \in HC!Running : queue[i].runtime = r => i \in gone
  BY DEF HC!RuntimeTickets, HC!Live, HC!Running
<1> HIDE DEF gone
<1>4. RowsGo(gone)
  BY <1>1, <1>2, Retired
<1>5. ASSUME NEW e \in Execution
      PROVE  /\ Recovered(journal[e]) \in Record
             /\ Recovered(journal[e]).ticket = journal[e].ticket
             /\ Recovered(journal[e]).sequence = journal[e].sequence
             /\ Recovered(journal[e]).intent = journal[e].intent
             /\ Recovered(journal[e]).status = "absent" <=> journal[e].status = "absent"
             /\ journal[e].intent = "cancel" => Recovered(journal[e]).status = "cancelled"
  <2>1. journal[e] \in Record /\ (journal[e].status = "absent" => journal[e].intent = "none")
    BY Typed DEF TicketsApart
  <2>2. journal[e].intent = "cancel" => journal[e].status \in {"cancelling", "cancelled"}
    BY TaskIsOwned
  <2> QED BY <2>1, <2>2 DEF Recovered, StoppedStatus, Terminal, Record, Status, Intent
<1>6. /\ journal' \in [Execution -> Record]
      /\ \A e \in Execution :
           /\ journal'[e].ticket = journal[e].ticket /\ journal'[e].sequence = journal[e].sequence
           /\ journal'[e].status = "absent" <=> journal[e].status = "absent"
           /\ journal'[e].intent = journal[e].intent
           /\ Owner[e] # r => journal'[e] = journal[e]
           /\ Owner[e] = r /\ journal'[e].intent = "cancel" => journal'[e].status = "cancelled"
  BY <1>1, <1>5 DEF TypeOK
<1>7. Moved(r) /\ control'[r].todo = {} /\ control'[r].pc = "idle" /\ control'[r].exec = None /\ control'[r].kind = None
  <2>1. control[r].exec = None
    BY <1>1 DEF Sound, RequestStands
  <2>2. control'[r].pc = "idle"
    BY <1>1 DEF TypeOK, Idle, At
  <2> QED BY <1>1, <2>2, CycleEnds
<1>8. Local(r) /\ HostLocal(r)
  BY <1>1, <1>2, <1>4, <1>6, <1>7, GoneIsLocal DEF Local, Moved
<1>9. TicketsApart' /\ SlotsBounded' /\ Counted'
  <2>1. Asking' \subseteq Asking
    BY <1>7 DEF Asking, Moved
  <2> QED BY <1>1, <1>4, <1>6, <2>1, TicketsStayApart, SlotsStayBounded, StaysCounted DEF RowsGo, TicketsApart
<1>10. Owned(r)' = Owned(r) /\ \A e \in Owned(r) : e \in Execution /\ Owner[e] = r /\ active'[e] = "none"
  BY <1>1, Typed DEF Sound, TasksFollow, Owned
<1>11. RequestStands(r)' /\ TodoWaits(r)' /\ TasksFollow(r)'
  BY <1>7, <1>10 DEF RequestStands, TodoWaits, TasksFollow
<1>12. SlotsHeld(r)'
  BY <1>7, <1>10 DEF SlotsHeld, Running, Launching
<1>13. SlotsUsed(r)'
  <2>1. \A i \in HC!Running' : queue'[i].runtime # r
    BY <1>3, <1>4, RowsTyped DEF RowsGo, SameRows, HC!IInv
  <2> QED BY <2>1 DEF SlotsUsed
<1>14. CancelSettles(r)'
  BY <1>6, <1>10 DEF CancelSettles
<1>15. TicketsLive(r)'
  BY <1>1 DEF Sound, TicketsLive
<1>16. Sound(r)'
  BY <1>11, <1>12, <1>13, <1>14, <1>15 DEF Sound
<1> QED BY <1>1, <1>6, <1>7, <1>8, <1>9, <1>16, Assemble DEF TypeOK, Moved

(***************************************************************************)
(* The theorems.                                                           *)
(***************************************************************************)
LEMMA InitIInv == Init => IInv
<1> SUFFICES ASSUME Init
             PROVE  IInv
  OBVIOUS
<1>1. /\ Idle \in Holder /\ Idle.pc = "idle" /\ Idle.exec = None /\ Idle.kind = None /\ Idle.todo = {}
      /\ Idle.seen = <<"absent", "none">>
  BY DEF Idle, At, Holder, Place, Mark, NoRecord, Status, Intent
<1>2. /\ NoRecord \in Record /\ NoRecord.status = "absent" /\ NoRecord.intent = "none"
      /\ NoRecord.ticket = None /\ NoRecord.sequence = 0
  BY DEF NoRecord, Record, Status, Intent
<1>3. /\ maxRuns \in Capacity /\ queue = <<>> /\ minted = {}
      /\ ticketIndex = [t \in Ticket |-> 0] /\ liveIndex = [e \in Execution |-> 0]
      /\ journal = [e \in Execution |-> NoRecord] /\ frozen = [r \in Runtime |-> FALSE]
      /\ active = [e \in Execution |-> "none"] /\ control = [r \in Runtime |-> Idle]
      /\ wedged = [r \in Runtime |-> FALSE]
  BY DEF Init, HC!NoRow
<1> HIDE DEF Init
<1>4. HC!TypeOK
  BY <1>3 DEF HC!TypeOK
<1>5. HC!Running = {} /\ HC!Queued = {} /\ HC!Live = {} /\ DOMAIN queue = {}
  BY <1>3 DEF HC!Running, HC!Queued, HC!Live
<1>6. HC!IInv
  BY <1>3, <1>4, <1>5 DEF HC!IInv, HC!IndexesAgree, HC!NoOvertaking, HC!NoRow
<1>7. TypeOK
  BY <1>1, <1>2, <1>3, <1>4 DEF TypeOK, Task
<1>8. Counted
  <2>1. Asking = {}
    BY <1>1, <1>3 DEF Asking
  <2>2. Cardinality(Asking) = 0 /\ Cardinality(minted) = 0 /\ Cardinality(Fresh) \in Nat
    BY <1>3, <2>1, NodeAssumption, FS_EmptySet, FS_Subset, FS_CardinalityType DEF Fresh
  <2> QED BY <1>2, <1>3, <2>2 DEF Counted
<1>9. TicketsApart
  BY <1>2, <1>3, <1>5 DEF TicketsApart
<1>10. SlotsBounded
  <2>1. Cardinality(HC!Running) = 0 /\ maxRuns \in Nat
    BY <1>3, <1>5, NodeAssumption, FS_EmptySet
  <2> QED BY <2>1 DEF SlotsBounded
<1>11. ASSUME NEW r \in Runtime
       PROVE  Sound(r)
  <2>1. control[r] = Idle /\ Owned(r) \subseteq Execution
    BY <1>3 DEF Owned
  <2>2. RequestStands(r) /\ TodoWaits(r) /\ TasksFollow(r)
    BY <1>1, <1>3, <2>1 DEF RequestStands, TodoWaits, TasksFollow
  <2>3. SlotsHeld(r)
    BY <1>1, <1>3, <2>1 DEF SlotsHeld, Running, Launching, Owned
  <2>4. SlotsUsed(r) /\ CancelSettles(r) /\ TicketsLive(r)
    BY <1>1, <1>2, <1>3, <1>5, <2>1 DEF SlotsUsed, CancelSettles, TicketsLive
  <2> QED BY <2>2, <2>3, <2>4 DEF Sound
<1> QED BY <1>6, <1>7, <1>8, <1>9, <1>10, <1>11 DEF IInv

(* Every action of every runtime and task keeps the invariant.              *)
LEMMA StepKeeps == IInv /\ [Next]_vars => IInv'
<1> SUFFICES ASSUME IInv, [Next]_vars
             PROVE  IInv'
  OBVIOUS
<1>1. ASSUME NEW e \in Execution, NEW kind \in Kind, RequestAccept(e, kind)
      PROVE  IInv'
  BY <1>1, RequestAcceptKeeps
<1>2. ASSUME NEW e \in Execution, NEW intent \in Stops, Stop(e, intent)
      PROVE  IInv'
  BY <1>2, StopKeeps
<1>3. ASSUME NEW e \in Execution, Ending(e)
      PROVE  IInv'
  BY <1>3, FinalizeKeeps, FinishSlotKeeps, DeactivateKeeps DEF Ending
<1>4. ASSUME NEW r \in Runtime, Admission(r)
      PROVE  IInv'
  BY <1>4, AcceptJournalKeeps, EnqueueTicketKeeps, BeginCycleKeeps, EntryTicketKeeps, ClaimSlotKeeps,
     LaunchKeeps DEF Admission
<1>5. ASSUME NEW r \in Runtime, NEW value \in BOOLEAN, SetFrozen(r, value)
      PROVE  IInv'
  BY <1>5, SetFrozenKeeps
<1>6. ASSUME NEW r \in Runtime, Crash(r) \/ Restart(r)
      PROVE  IInv'
  BY <1>6, CrashKeeps, RestartKeeps
<1>7. CASE UNCHANGED vars
  <2>1. /\ UNCHANGED hostVars
        /\ UNCHANGED <<journal, frozen, active, control, wedged, minted>>
    BY <1>7 DEF vars
  <2>2. TypeOK' /\ HC!IInv' /\ Counted' /\ TicketsApart' /\ SlotsBounded'
    BY <2>1 DEF IInv, TypeOK, HC!IInv, HC!TypeOK, HC!IndexesAgree, HC!NoOvertaking, HC!Live, HC!Queued,
                HC!Running, Counted, Fresh, Asking, TicketsApart, SlotsBounded, hostVars
  <2>3. \A q \in Runtime : Sound(q)'
    BY <2>1 DEF IInv, Sound, RequestStands, TodoWaits, TasksFollow, SlotsHeld, SlotsUsed, CancelSettles,
                TicketsLive, Launching, Running, HoldsSlot, Entry, Places, HC!Running, Owned, hostVars
  <2> QED BY <2>2, <2>3 DEF IInv
<1> QED BY <1>1, <1>2, <1>3, <1>4, <1>5, <1>6, <1>7 DEF Next

(* The strengthening holds in every reachable state.                        *)
THEOREM InductiveInvariant == Spec => []IInv
BY InitIInv, StepKeeps, PTL DEF Spec

(* Records, tasks and lock holders stay what the code's types say.          *)
THEOREM TypeCorrect == Spec => []TypeOK
<1>1. IInv => TypeOK
  BY DEF IInv
<1> QED BY <1>1, InductiveInvariant, PTL

(* No run without a host slot of its own, whatever crashes or is stopped.   *)
THEOREM HoldsSlots == Spec => []ActiveHoldsSlot
<1>1. IInv => ActiveHoldsSlot
  <2> SUFFICES ASSUME IInv, NEW e \in Execution, Running(e)
               PROVE  HoldsSlot(e)
    BY DEF ActiveHoldsSlot
  <2>1. SlotsHeld(Owner[e]) /\ e \in Owned(Owner[e])
    BY TaskIsOwned DEF IInv, Sound
  <2> QED BY <2>1 DEF SlotsHeld
<1> QED BY <1>1, InductiveInvariant, PTL

(* No slot without a run, on a runtime that lives and can write.            *)
THEOREM NoneLeaked == Spec => []NoLeakedSlot
<1>1. IInv => NoLeakedSlot
  <2> SUFFICES ASSUME IInv, NEW i \in HC!Running, control[queue[i].runtime].pc # "down",
                      ~wedged[queue[i].runtime]
               PROVE  /\ queue[i].ticket = journal[queue[i].execution].ticket
                      /\ \/ Running(queue[i].execution)
                         \/ /\ control[queue[i].runtime].pc = "launch"
                            /\ queue[i].execution = Entry(queue[i].runtime)
    BY DEF NoLeakedSlot
  <2>1. i \in DOMAIN queue /\ queue[i] \in HC!Row
    BY RowsTyped DEF IInv, HC!IInv
  <2>2. queue[i].runtime \in Runtime /\ queue[i].runtime = Owner[queue[i].execution]
    BY <2>1 DEF HC!Row, IInv, TicketsApart
  <2>3. SlotsUsed(queue[i].runtime)
    BY <2>2 DEF IInv, Sound
  <2> QED BY <2>2, <2>3 DEF SlotsUsed, Launching
<1> QED BY <1>1, InductiveInvariant, PTL

(* Every run has a running row of its own, and those are within capacity.   *)
THEOREM Bounded == Spec => []RunsBounded
<1>1. IInv => RunsBounded
  <2> SUFFICES ASSUME IInv
               PROVE  RunsBounded
    OBVIOUS
  <2> DEFINE runs == {e \in Execution : Running(e)}
             rowOf == [e \in runs |-> CHOOSE i \in HC!Running : queue[i].execution = e]
  <2>1. \A e \in runs : \E i \in HC!Running : queue[i].execution = e
    <3>1. ASSUME NEW e \in Execution, Running(e)
          PROVE  HoldsSlot(e)
      BY <3>1, TaskIsOwned DEF IInv, Sound, SlotsHeld
    <3> QED BY <3>1 DEF HoldsSlot
  <2>2. \A e \in runs : rowOf[e] \in HC!Running /\ queue[rowOf[e]].execution = e
    BY <2>1
  <2>3. rowOf \in Injection(runs, HC!Running)
    <3>1. rowOf \in [runs -> HC!Running] /\ DOMAIN rowOf = runs
      BY <2>2
    <3>2. \A e, f \in runs : rowOf[e] = rowOf[f] => e = f
      BY <2>2
    <3> HIDE DEF rowOf
    <3> QED BY <3>1, <3>2 DEF Injection, IsInjective
  <2>4. IsFiniteSet(HC!Running) /\ Cardinality(HC!Running) \in Nat
    BY RowsTyped DEF IInv, HC!IInv
  <2>5. IsFiniteSet(runs) /\ Cardinality(runs) <= Cardinality(HC!Running)
    BY <2>3, <2>4, FS_Injection
  <2>6. Cardinality(runs) \in Nat
    BY <2>5, FS_CardinalityType
  <2> QED BY <2>4, <2>5, <2>6 DEF RunsBounded, IInv, SlotsBounded
<1> QED BY <1>1, InductiveInvariant, PTL

(* While nothing crashes, what waits has a ticket that can still be claimed.*)
THEOREM PendingClaims == ~Crashes /\ Spec => []PendingCanClaim
<1>1. IInv /\ ~Crashes => PendingCanClaim
  <2> SUFFICES ASSUME IInv, ~Crashes, NEW e \in Execution, journal[e].status = "pending"
               PROVE  ~\E i \in DOMAIN queue : queue[i].ticket = journal[e].ticket /\ queue[i].phase = "done"
    BY DEF PendingCanClaim
  <2>1. TicketsLive(Owner[e]) /\ e \in Owned(Owner[e])
    BY TaskIsOwned DEF IInv, Sound
  <2> QED BY <2>1 DEF TicketsLive
<1>2. Spec => []IInv
  BY InductiveInvariant
<1>3. ASSUME ~Crashes
      PROVE  Spec => []PendingCanClaim
  <2>1. IInv => PendingCanClaim
    BY <1>1, <1>3
  <2> QED BY <1>2, <2>1, PTL
<1> QED BY <1>3

(* What a step may do to a record that ended, or whose cancel is durable.   *)
EndStands(e) ==
  /\ journal[e].status \in {"done", "cancelled"} => journal'[e].status = journal[e].status
  /\ journal[e].intent = "cancel" /\ ~wedged[Owner[e]] =>
       /\ journal'[e].intent = "cancel"
       /\ journal'[e].status \in {"cancelling", "cancelled"}

(* A request whose record is as it read it may not revive such a record.    *)
LEMMA NoneRevived ==
  ASSUME IInv, NEW r \in Runtime, AcceptJournal(r), NEW e \in Execution
  PROVE  EndStands(e)
<1>1. CASE journal'[e] = journal[e]
  BY <1>1, TaskIsOwned DEF EndStands
<1>2. CASE journal'[e] # journal[e]
  <2>1. control[r].pc = "accept" /\ StillAsRead(r) /\ e = control[r].exec
    BY <1>2, Typed DEF AcceptJournal, IInv, TypeOK
  <2>2. /\ Owner[e] = r /\ active[e] = "none" /\ Askable(control[r].kind, journal[e].status)
        /\ control[r].kind \in Kind
    <3>1. RequestStands(r) /\ control[r].kind \in Kind \cup {None} /\ e # None
      BY <2>1, Typed, NodeAssumption DEF IInv, Sound
    <3>2. control[r].seen[1] = journal[e].status
      BY <2>1 DEF StillAsRead, Mark
    <3> QED BY <2>1, <3>1, <3>2 DEF RequestStands
  <2>3. journal[e].status \notin {"done", "cancelled"}
    BY <2>2 DEF Askable, Kind, CanStart
  <2>4. ~(journal[e].intent = "cancel" /\ ~wedged[r])
    BY <2>1, <2>2, <2>3, TaskIsOwned
  <2> QED BY <2>2, <2>3, <2>4 DEF EndStands
<1> QED BY <1>1, <1>2

LEMMA NoneRestarted ==
  ASSUME IInv, NEW r \in Runtime, Launch(r), NEW e \in Execution
  PROVE  EndStands(e)
<1>1. CASE journal'[e] = journal[e]
  BY <1>1, TaskIsOwned DEF EndStands
<1>2. CASE journal'[e] # journal[e]
  <2>1. Launchable(journal[e]) \/ journal[e].status = "pending"
    BY <1>2 DEF Launch, IInv, TypeOK
  <2>2. journal[e].status \notin {"done", "cancelled", "cancelling"}
    BY <2>1 DEF Launchable, CanResume
  <2> QED BY <2>2, TaskIsOwned DEF EndStands
<1> QED BY <1>1, <1>2

LEMMA StopsStand ==
  ASSUME IInv, NEW f \in Execution, NEW intent \in Stops, Stop(f, intent), NEW e \in Execution
  PROVE  EndStands(e)
<1>1. CASE journal'[e] = journal[e]
  BY <1>1, TaskIsOwned DEF EndStands
<1>2. CASE journal'[e] # journal[e]
  <2>1. journal'[e] = Stopped(journal[e], intent, active[e] # "none") /\ intent \in {"interrupt", "cancel"}
    BY <1>2, NodeAssumption DEF Stop, IInv, TypeOK
  <2>2. journal[e] \in Record /\ ~Terminal(journal[e].status)
    BY <1>2, <2>1, TaskIsOwned DEF Stopped
  <2>3. journal[e].intent = "cancel" =>
          journal'[e].intent = "cancel" /\ journal'[e].status \in {"cancelling", "cancelled"}
    BY <2>1, <2>2 DEF Stopped, MergeIntent, StoppedStatus, Record
  <2> QED BY <2>2, <2>3 DEF EndStands, Terminal
<1> QED BY <1>1, <1>2

LEMMA OutcomesStand ==
  ASSUME IInv, NEW f \in Execution, Finalize(f), NEW e \in Execution
  PROVE  EndStands(e)
<1>1. CASE journal'[e] = journal[e]
  BY <1>1, TaskIsOwned DEF EndStands
<1>2. CASE journal'[e] # journal[e]
  <2>1. PICK proposed \in Outcome : journal'[e] = Finalized(journal[e], proposed)
    BY <1>2 DEF Finalize, IInv, TypeOK
  <2>2. journal[e] \in Record /\ ~Terminal(journal[e].status)
    BY <1>2, <2>1, TaskIsOwned DEF Finalized
  <2>3. journal[e].intent = "cancel" =>
          journal'[e].intent = "cancel" /\ journal'[e].status \in {"cancelling", "cancelled"}
    BY <2>1, <2>2 DEF Finalized, StoppedStatus, Record
  <2> QED BY <2>2, <2>3 DEF EndStands, Terminal
<1> QED BY <1>1, <1>2

LEMMA RecoveryStands ==
  ASSUME IInv, NEW r \in Runtime, Restart(r), NEW e \in Execution
  PROVE  EndStands(e)
<1>1. journal'[e] \in {journal[e], Recovered(journal[e])}
  BY DEF Restart
<1>2. CASE journal'[e] = journal[e]
  BY <1>2, TaskIsOwned DEF EndStands
<1>3. CASE journal'[e] = Recovered(journal[e]) /\ journal'[e] # journal[e]
  <2>1. journal[e] \in Record /\ ~Terminal(journal[e].status)
    BY <1>3, TaskIsOwned DEF Recovered
  <2>2. journal[e].intent = "cancel" =>
          journal'[e].intent = "cancel" /\ journal'[e].status \in {"cancelling", "cancelled"}
    BY <1>3, <2>1 DEF Recovered, StoppedStatus, Record
  <2> QED BY <2>1, <2>2 DEF EndStands, Terminal
<1> QED BY <1>1, <1>2, <1>3

LEMMA EveryEndStands ==
  ASSUME IInv, [Next]_vars, NEW e \in Execution
  PROVE  EndStands(e)
<1>1. CASE UNCHANGED journal
  BY <1>1, TaskIsOwned DEF EndStands
<1>2. CASE ~UNCHANGED journal
  <2>1. \/ \E f \in Execution : Finalize(f) \/ \E intent \in Stops : Stop(f, intent)
        \/ \E r \in Runtime : AcceptJournal(r) \/ Launch(r) \/ Restart(r)
    BY <1>2 DEF Next, vars, Admission, Ending, RequestAccept, FinishSlot, Deactivate, EnqueueTicket,
                BeginCycle, EntryTicket, ClaimSlot, SetFrozen, Crash
  <2> QED BY <2>1, NoneRevived, NoneRestarted, StopsStand, OutcomesStand, RecoveryStands
<1> QED BY <1>1, <1>2

(* An execution that is done or cancelled stays so.                         *)
THEOREM FinalStays == Spec => FinalStaysFinal
<1>1. IInv /\ [Next]_vars =>
        [\A e \in Execution : journal[e].status \in {"done", "cancelled"} =>
           journal'[e].status = journal[e].status]_vars
  BY EveryEndStands DEF EndStands
<1> QED BY <1>1, InductiveInvariant, PTL DEF Spec, FinalStaysFinal

(* A durable cancel wins, however requests, runs, stops and crashes fall.   *)
THEOREM CancelKept == Spec => CancelNotLost
<1>1. IInv /\ [Next]_vars =>
        [\A e \in Execution : journal[e].intent = "cancel" /\ ~wedged[Owner[e]] =>
           /\ journal'[e].intent = "cancel"
           /\ journal'[e].status \in {"cancelling", "cancelled"}]_vars
  BY EveryEndStands DEF EndStands
<1> QED BY <1>1, InductiveInvariant, PTL DEF Spec, CancelNotLost

(***************************************************************************)
(* A frozen runtime: nothing is under way, so nothing is admitted.         *)
(***************************************************************************)
LEMMA FrozenRestsAtFirst == Init => \A r \in Runtime : FrozenRests(r)
BY DEF Init, FrozenRests

(* On a runtime that rests, a cycle ends where it began.                    *)
LEMMA RestingCycleEnds ==
  ASSUME IInv, NEW q \in Runtime, BeginCycle(q), frozen[q], FrozenRests(q)
  PROVE  control'[q] = Idle
<1>1. control[q].pc = "idle" /\ EndCycle(q)
  BY DEF BeginCycle, FrozenRests
<1>2. control[q].kind = None
  BY <1>1 DEF IInv, Sound, RequestStands
<1>3. control[q].kind # "command"
  BY <1>2, NodeAssumption
<1> QED BY <1>1, <1>3 DEF EndCycle, IInv, TypeOK

LEMMA FrozenStaysAtRest ==
  ASSUME IInv, [Next]_vars, NEW r \in Runtime, FrozenRests(r)
  PROVE  FrozenRests(r)'
<1> SUFFICES ASSUME frozen'[r]
             PROVE  control'[r].pc \in {"idle", "down"}
  BY DEF FrozenRests
<1>0. control \in [Runtime -> Holder] /\ frozen \in [Runtime -> BOOLEAN] /\ Owner \in [Execution -> Runtime]
  BY NodeAssumption DEF IInv, TypeOK
<1>1. ASSUME control'[r] = control[r], frozen'[r] = frozen[r]
      PROVE  control'[r].pc \in {"idle", "down"}
  BY <1>1 DEF FrozenRests
<1>2. ASSUME NEW e \in Execution, NEW kind \in Kind, RequestAccept(e, kind)
      PROVE  control'[r].pc \in {"idle", "down"}
  <2>1. r # Owner[e] /\ frozen' = frozen
    BY <1>2 DEF RequestAccept
  <2> QED BY <1>0, <1>1, <1>2, <2>1 DEF RequestAccept
<1>3. ASSUME NEW e \in Execution, Ending(e) \/ \E intent \in Stops : Stop(e, intent)
      PROVE  control'[r].pc \in {"idle", "down"}
  BY <1>1, <1>3 DEF Ending, Finalize, FinishSlot, Deactivate, Stop
<1>4. ASSUME NEW q \in Runtime, Admission(q)
      PROVE  control'[r].pc \in {"idle", "down"}
  <2>1. frozen' = frozen
    BY <1>4 DEF Admission, AcceptJournal, EnqueueTicket, BeginCycle, EntryTicket, ClaimSlot, Launch
  <2>2. CASE q = r
    <3>1. BeginCycle(r)
      BY <1>4, <2>1, <2>2 DEF FrozenRests, Admission, AcceptJournal, EnqueueTicket, EntryTicket, ClaimSlot, Launch
    <3> QED BY <2>1, <3>1, RestingCycleEnds DEF Idle, At
  <2>3. CASE q # r
    <3>1. control'[r] = control[r]
      BY <1>0, <1>4, <2>3 DEF Admission, AcceptJournal, EnqueueTicket, BeginCycle, EntryTicket, ClaimSlot,
         Launch, EndCycle, CycleFails, NextEntry
    <3> QED BY <1>1, <2>1, <3>1
  <2> QED BY <2>2, <2>3
<1>5. ASSUME NEW q \in Runtime, NEW value \in BOOLEAN, SetFrozen(q, value)
      PROVE  control'[r].pc \in {"idle", "down"}
  BY <1>0, <1>1, <1>5 DEF SetFrozen
<1>6. ASSUME NEW q \in Runtime, Crash(q) \/ Restart(q)
      PROVE  control'[r].pc \in {"idle", "down"}
  <2>1. frozen' = frozen /\ control' \in {[control EXCEPT ![q] = Idle], [control EXCEPT ![q] = At("down")]}
    BY <1>6 DEF Crash, Restart
  <2> QED BY <1>0, <1>1, <2>1 DEF Idle, At
<1>7. CASE UNCHANGED vars
  BY <1>1, <1>7 DEF vars
<1> QED BY <1>2, <1>3, <1>4, <1>5, <1>6, <1>7 DEF Next

THEOREM FrozenInvariant == Spec => []FInv
<1>1. Init => FInv
  BY InitIInv, FrozenRestsAtFirst DEF FInv
<1>2. FInv /\ [Next]_vars => FInv'
  BY StepKeeps, FrozenStaysAtRest DEF FInv
<1> QED BY <1>1, <1>2, PTL DEF Spec

(* What a step may do to an execution whose runtime is frozen.              *)
StaysOut(e) ==
  /\ active[e] = "none" => active'[e] = "none"
  /\ journal'[e].status = "pending" => journal[e].status = "pending"

(* No rule of lifecycle.rs puts a record into the queue.                    *)
LEMMA RulesDoNotQueue ==
  ASSUME NEW record \in Record, record.status # "pending"
  PROVE  /\ \A intent \in Intent, isActive \in BOOLEAN : Stopped(record, intent, isActive).status # "pending"
         /\ \A proposed \in Outcome : Finalized(record, proposed).status # "pending"
         /\ Recovered(record).status # "pending"
BY DEF Stopped, Finalized, Recovered, StoppedStatus, Record, Outcome

LEMMA FrozenStepAdmitsNothing ==
  ASSUME FInv, [Next]_vars, NEW e \in Execution, frozen[Owner[e]]
  PROVE  StaysOut(e)
<1>1. /\ IInv /\ Owner[e] \in Runtime /\ FrozenRests(Owner[e]) /\ journal[e] \in Record
      /\ control[Owner[e]].pc \in {"idle", "down"}
  BY TaskIsOwned DEF FInv, FrozenRests
<1>2. /\ journal \in [Execution -> Record] /\ active \in [Execution -> Task]
      /\ control \in [Runtime -> Holder] /\ Stops \subseteq Intent
  BY <1>1, NodeAssumption DEF IInv, TypeOK, Intent
<1>3. ASSUME active'[e] = active[e], journal'[e] = journal[e]
      PROVE  StaysOut(e)
  BY <1>3 DEF StaysOut
<1>4. ASSUME NEW f \in Execution, NEW kind \in Kind, RequestAccept(f, kind)
      PROVE  StaysOut(e)
  BY <1>3, <1>4 DEF RequestAccept
<1>5. ASSUME NEW f \in Execution, NEW intent \in Stops, Stop(f, intent)
      PROVE  StaysOut(e)
  <2>1. journal'[e] \in {journal[e], Stopped(journal[e], intent, active[e] # "none")}
    BY <1>2, <1>5 DEF Stop
  <2>2. active[e] = "none" => active'[e] = "none"
    BY <1>2, <1>5 DEF Stop
  <2>3. journal[e].status # "pending" => Stopped(journal[e], intent, active[e] # "none").status # "pending"
    BY <1>1, <1>2, RulesDoNotQueue
  <2> QED BY <2>1, <2>2, <2>3 DEF StaysOut
<1>6. ASSUME NEW f \in Execution, Ending(f)
      PROVE  StaysOut(e)
  <2>1. \/ journal'[e] = journal[e]
        \/ \E proposed \in Outcome : journal'[e] = Finalized(journal[e], proposed)
    BY <1>2, <1>6 DEF Ending, Finalize, FinishSlot, Deactivate
  <2>2. active[e] = "none" => active'[e] = "none"
    BY <1>2, <1>6 DEF Ending, Finalize, FinishSlot, Deactivate
  <2>3. journal'[e].status = "pending" => journal[e].status = "pending"
    BY <1>1, <2>1, RulesDoNotQueue
  <2> QED BY <2>2, <2>3 DEF StaysOut
<1>7. ASSUME NEW q \in Runtime, Admission(q)
      PROVE  StaysOut(e)
  <2>1. CASE BeginCycle(q) \/ EnqueueTicket(q) \/ EntryTicket(q) \/ ClaimSlot(q)
    BY <1>3, <2>1 DEF BeginCycle, EnqueueTicket, EntryTicket, ClaimSlot
  <2>2. CASE AcceptJournal(q)
    <3>1. CASE journal'[e] # journal[e]
      <4>1. control[q].pc = "accept" /\ e = control[q].exec
        BY <1>2, <2>2, <3>1 DEF AcceptJournal
      <4>2. Owner[e] = q
        BY <1>1, <4>1, NodeAssumption DEF IInv, Sound, RequestStands
      <4> QED BY <1>1, <4>1, <4>2
    <3> QED BY <1>3, <2>2, <3>1 DEF AcceptJournal
  <2>3. CASE Launch(q)
    <3>1. CASE ~(journal'[e] = journal[e] /\ active'[e] = active[e])
      <4>1. control[q].pc = "launch" /\ e = Entry(q)
        BY <1>2, <2>3, <3>1 DEF Launch
      <4>2. Owner[e] = q
        BY <1>1, <4>1, EntryIsTodo DEF IInv, Sound, TodoWaits
      <4> QED BY <1>1, <4>1, <4>2
    <3> QED BY <1>3, <3>1
  <2> QED BY <1>7, <2>1, <2>2, <2>3 DEF Admission
<1>8. ASSUME NEW q \in Runtime, NEW value \in BOOLEAN, SetFrozen(q, value)
      PROVE  StaysOut(e)
  BY <1>3, <1>8 DEF SetFrozen
<1>9. ASSUME NEW q \in Runtime, Crash(q)
      PROVE  StaysOut(e)
  BY <1>2, <1>9 DEF Crash, StaysOut
<1>10. ASSUME NEW q \in Runtime, Restart(q)
       PROVE  StaysOut(e)
  <2>1. journal'[e] \in {journal[e], Recovered(journal[e])} /\ active' = active
    BY <1>10 DEF Restart
  <2>2. journal'[e].status = "pending" => journal[e].status = "pending"
    BY <1>1, <2>1, RulesDoNotQueue
  <2> QED BY <2>1, <2>2 DEF StaysOut
<1>11. CASE UNCHANGED vars
  BY <1>3, <1>11 DEF vars
<1> QED BY <1>4, <1>5, <1>6, <1>7, <1>8, <1>9, <1>10, <1>11 DEF Next

(* Once admission is frozen, whatever was under way has ended: no request    *)
(* queues an execution and no cycle starts one, until it is reopened.        *)
THEOREM FrozenAdmits == Spec => FrozenAdmitsNothing
<1>1. FInv /\ [Next]_vars =>
        [\A e \in Execution : frozen[Owner[e]] =>
           /\ active[e] = "none" => active'[e] = "none"
           /\ journal'[e].status = "pending" => journal[e].status = "pending"]_vars
  BY FrozenStepAdmitsNothing DEF StaysOut
<1> QED BY <1>1, FrozenInvariant, PTL DEF Spec, FrozenAdmitsNothing

(***************************************************************************)
(* All runtimes of a machine together use its slots as AdmissionSlots says. *)
(***************************************************************************)
LEMMA SameLine ==
  /\ HP!Queued = HC!Queued /\ HP!Running = HC!Running /\ HP!Live = HC!Live
  /\ HP!Queued' = HC!Queued' /\ HP!Running' = HC!Running'
BY DEF HP!Queued, HC!Queued, HP!Running, HC!Running, HP!Live, HC!Live

(* A new row is an arrival ...                                              *)
LEMMA EnqueueServes ==
  ASSUME HC!IInv, NEW t \in Ticket, NEW e \in Execution, NEW r \in Runtime, HC!Enqueue(t, e, r)
  PROVE  Slots!Next
<1>1. HP!Slots!Arrive(e)
  BY HP!EnqueueImplements, SameQueue, SameEnqueue, NodeAssumption DEF HP!CapacityAssumption
<1>2. Slots!Arrive(e)
  BY <1>1, SameLine DEF HP!Slots!Arrive, Slots!Arrive, HP!Slots!Live, Slots!Live
<1> QED BY <1>2 DEF Slots!Next

(* ... a claim admits the first that waits, whoever's it is ...             *)
LEMMA ClaimServes ==
  ASSUME HC!IInv, NEW t \in Ticket, NEW r \in Runtime, HC!Claim(t, r)
  PROVE  Slots!Next
<1>1. PICK a \in HP!Live : HP!Slots!Admit(a)
  BY HP!ClaimImplements, SameQueue, SameClaim, NodeAssumption DEF HP!CapacityAssumption
<1>2. Slots!Cardinality(HC!Running) = HP!Slots!Cardinality(HP!Running)
  BY SameLine DEF Slots!Cardinality, HP!Slots!Cardinality
<1>3. Slots!Admit(a)
  BY <1>1, <1>2, SameLine DEF HP!Slots!Admit, Slots!Admit
<1>4. a \in Slots!Live
  BY <1>1, SameLine DEF HP!Live, Slots!Live
<1> QED BY <1>3, <1>4 DEF Slots!Next

(* ... and rows that are retired leave together.                            *)
LEMMA RetireServes ==
  ASSUME HC!IInv, NEW rows, rows \subseteq HC!Live, HC!Retire(rows)
  PROVE  Slots!Next \/ UNCHANGED Slots!vars
<1>1. CASE rows = {}
  <2>1. /\ maxRuns' = maxRuns /\ DOMAIN queue' = DOMAIN queue
        /\ \A i \in DOMAIN queue : queue'[i] = queue[i]
    BY <1>1 DEF HC!Retire
  <2> QED BY <2>1 DEF Slots!vars, HC!Queued, HC!Running
<1>2. CASE rows # {}
  <2>1. rows \subseteq HP!Slots!Live /\ HP!Slots!Leave(rows)
    BY <1>2, SameLine, HP!RetireImplements, SameQueue, SameRetire, NodeAssumption DEF HP!CapacityAssumption
  <2>2. rows \subseteq Slots!Live /\ Slots!Leave(rows)
    BY <2>1, SameLine DEF HP!Slots!Leave, Slots!Leave, HP!Slots!Live, Slots!Live
  <2> QED BY <2>2 DEF Slots!Next
<1> QED BY <1>1, <1>2

LEMMA FinishServes ==
  ASSUME HC!IInv, NEW t \in Ticket, NEW r \in Runtime, HC!Finish(t, r)
  PROVE  Slots!Next \/ UNCHANGED Slots!vars
BY Finished, RetireServes

LEMMA RestServes ==
  ASSUME UNCHANGED hostVars
  PROVE  UNCHANGED Slots!vars
BY DEF hostVars, Slots!vars, HC!Queued, HC!Running

(* A record that is there has a ticket.                                     *)
LEMMA RecordHasTicket ==
  ASSUME IInv, NEW e \in Execution, journal[e].status # "absent"
  PROVE  journal[e].ticket \in Ticket
BY Typed DEF IInv, TicketsApart

LEMMA RequestHasTicket ==
  ASSUME IInv, NEW r \in Runtime, control[r].pc = "ticket"
  PROVE  control[r].exec \in Execution /\ journal[control[r].exec].ticket \in Ticket
<1>1. RequestStands(r) /\ control[r] \in Holder
  BY DEF IInv, Sound, TypeOK
<1>2. control[r].exec \in Execution /\ journal[control[r].exec].status = "pending"
  BY <1>1 DEF RequestStands, Holder
<1> QED BY <1>2, RecordHasTicket

LEMMA StepServes == IInv /\ [Next]_vars => Slots!Next \/ UNCHANGED Slots!vars
<1> SUFFICES ASSUME IInv, [Next]_vars
             PROVE  Slots!Next \/ UNCHANGED Slots!vars
  OBVIOUS
<1>1. HC!IInv
  BY DEF IInv
<1>2. ASSUME NEW r \in Runtime, EnqueueTicket(r)
      PROVE  Slots!Next \/ UNCHANGED Slots!vars
  BY <1>1, <1>2, RequestHasTicket, EnqueueServes, RestServes DEF EnqueueTicket
<1>3. ASSUME NEW r \in Runtime, BeginCycle(r)
      PROVE  Slots!Next \/ UNCHANGED Slots!vars
  BY <1>1, <1>3, RetireServes DEF BeginCycle, Stale, HC!RuntimeTickets
<1>4. ASSUME NEW r \in Runtime, EntryTicket(r)
      PROVE  Slots!Next \/ UNCHANGED Slots!vars
  BY <1>1, <1>4, EntryWaits, EnqueueServes, RestServes DEF EntryTicket
<1>5. ASSUME NEW r \in Runtime, ClaimSlot(r)
      PROVE  Slots!Next \/ UNCHANGED Slots!vars
  BY <1>1, <1>5, EntryWaits, ClaimServes, RestServes DEF ClaimSlot
<1>6. ASSUME NEW r \in Runtime, Launch(r)
      PROVE  Slots!Next \/ UNCHANGED Slots!vars
  BY <1>1, <1>6, EntryWaits, FinishServes, RestServes DEF Launch
<1>7. ASSUME NEW e \in Execution, Ending(e)
      PROVE  Slots!Next \/ UNCHANGED Slots!vars
  <2>1. ASSUME FinishSlot(e), HC!Finish(journal[e].ticket, Owner[e])
        PROVE  Slots!Next \/ UNCHANGED Slots!vars
    <3>1. Owner[e] \in Runtime /\ e \in Owned(Owner[e])
      BY NodeAssumption DEF Owned
    <3>2. journal[e].status # "absent"
      BY <2>1, <3>1 DEF IInv, Sound, TasksFollow, FinishSlot
    <3>3. journal[e].ticket \in Ticket
      BY <3>2, RecordHasTicket
    <3> QED BY <1>1, <2>1, <3>1, <3>3, FinishServes
  <2> QED BY <1>7, <2>1, RestServes DEF Ending, Finalize, FinishSlot, Deactivate
<1>8. ASSUME NEW r \in Runtime, Restart(r)
      PROVE  Slots!Next \/ UNCHANGED Slots!vars
  BY <1>1, <1>8, RetireServes DEF Restart, HC!RuntimeTickets
<1>9. ASSUME UNCHANGED hostVars
      PROVE  Slots!Next \/ UNCHANGED Slots!vars
  BY <1>9, RestServes
<1>10. ASSUME \/ \E e \in Execution : \/ \E kind \in Kind : RequestAccept(e, kind)
                                     \/ \E intent \in Stops : Stop(e, intent)
              \/ \E r \in Runtime : \/ AcceptJournal(r) \/ Crash(r)
                                    \/ \E value \in BOOLEAN : SetFrozen(r, value)
              \/ UNCHANGED vars
       PROVE  UNCHANGED hostVars
  BY <1>10 DEF RequestAccept, Stop, AcceptJournal, Crash, SetFrozen, vars
<1> QED BY <1>2, <1>3, <1>4, <1>5, <1>6, <1>7, <1>8, <1>9, <1>10 DEF Next, Admission

(* However the runtimes of a machine accept, dispatch, stop, freeze, fail,  *)
(* crash and restart, together they use its slots as promised: in order of  *)
(* arrival, one live arrival per execution, and never too many.             *)
THEOREM Implementation == Spec => ImplementsSlots
<1>1. Init => Slots!Init
  BY NodeAssumption DEF Init, Slots!Init, HC!Queued, HC!Running
<1>2. IInv /\ [Next]_vars => [Slots!Next]_(Slots!vars)
  BY StepServes
<1> QED BY <1>1, <1>2, InductiveInvariant, PTL DEF Spec, ImplementsSlots, Slots!Spec
===============================================================================
