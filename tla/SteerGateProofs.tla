--------------------------- MODULE SteerGateProofs ---------------------------
(***************************************************************************)
(* Machine-checked facts about the gate of a subagent, for any number of   *)
(* requests, rechecks and faults.                                          *)
(***************************************************************************)
EXTENDS SteerGate, FiniteSetTheorems, TLAPS

(* The reservation counter is a size, so a request that leaves or joins     *)
(* changes it by one.                                                       *)
LEMMA CountStep ==
  ASSUME NEW s \in Steers, NEW H \in SUBSET Steers
  PROVE  /\ Cardinality(H) \in Nat
         /\ s \notin H => Cardinality(H \cup {s}) = Cardinality(H) + 1
         /\ s \in H => Cardinality(H \ {s}) = Cardinality(H) - 1 /\ Cardinality(H) > 0
         /\ Cardinality(H) = 0 => H = {}
<1>1. IsFiniteSet(H)
  BY FS_Subset, GateAssumption
<1>2. Cardinality(H) \in Nat /\ (Cardinality(H) = 0 <=> H = {})
  BY <1>1, FS_CardinalityType, FS_EmptySet
<1>3. s \notin H => Cardinality(H \cup {s}) = Cardinality(H) + 1
  BY <1>1, FS_AddElement
<1>4. s \in H => Cardinality(H \ {s}) = Cardinality(H) - 1
  BY <1>1, FS_RemoveElement
<1> QED BY <1>2, <1>3, <1>4

(* What every state of the loop's record looks like.                        *)
ChildType == [pc : Pcs, seen : SUBSET Steers, batch : SUBSET Steers, epoch : Nat,
              blind : BOOLEAN, rechecks : 0 .. MaxRechecks, end : Ends]

LEMMA InitIInv == Init => IInv
<1> SUFFICES ASSUME Init PROVE IInv
  OBVIOUS
<1>1. Holding = {}
  BY DEF Init, Holding
<1>2. TypeOK
  <2>1. child \in ChildType
    BY GateAssumption DEF Init, ChildType, Pcs, Ends
  <2>2. reservations = Cardinality(Holding)
    BY <1>1, FS_EmptySet DEF Init
  <2> QED BY <2>1, <2>2 DEF Init, TypeOK, ChildType, Phases
<1> QED BY <1>2 DEF Init, IInv, RowsFollow, BatchHeld, PeekHolds, SettledForGood, AllTaken,
                    Accepted, At

(* The steps of a request keep the types and count reservations right.      *)
LEMMA RequestType ==
  ASSUME IInv, NEW s \in Steers, Request(s)
  PROVE  TypeOK'
<1> USE DEF Becomes, Notify, Fault, gate, tokens
<1>1. Holding \in SUBSET Steers /\ reservations = Cardinality(Holding)
  BY DEF Holding, IInv, TypeOK
<1>2. \A t \in Steers : t # s => (t \in Holding' <=> t \in Holding)
  BY DEF IInv, TypeOK, Request, Holding, Reserve, Admit, Abort, Commit, Answer, Rollback
<1>3. CASE Reserve(s)
  <2>1. CASE closed
    BY <2>1, <1>3, <1>1, <1>2 DEF IInv, TypeOK, Reserve, Holding, Phases
  <2>2. CASE ~closed
    <3>1. s \notin Holding /\ Holding' = Holding \cup {s} /\ reservations' = reservations + 1
      BY <2>2, <1>3 DEF IInv, TypeOK, Reserve, Holding
    <3>2. reservations' = Cardinality(Holding') /\ reservations' \in Nat
      BY <3>1, <1>1, CountStep DEF IInv, TypeOK
    <3> QED BY <2>2, <1>3, <3>2 DEF IInv, TypeOK, Reserve, Phases
  <2> QED BY <2>1, <2>2
<1>4. CASE Abort(s) \/ Commit(s)
  <2>1. s \in Holding /\ Holding' = Holding \ {s} /\ reservations' = reservations - 1
    BY <1>4 DEF IInv, TypeOK, Abort, Commit, Holding
  <2>2. reservations' = Cardinality(Holding')
    BY <2>1, <1>1, CountStep
  <2>3. Holding' \in SUBSET Steers
    BY <2>1, <1>1
  <2>4. Cardinality(Holding') \in Nat
    BY <2>3, CountStep
  <2>5. epoch' \in Nat /\ faults' \in Nat
    BY <1>4 DEF IInv, TypeOK, Abort, Commit
  <2>6. request' \in [Steers -> Phases]
    BY <1>4 DEF IInv, TypeOK, Abort, Commit, Phases
  <2> QED BY <1>4, <2>2, <2>4, <2>5, <2>6 DEF IInv, TypeOK, Abort, Commit
<1>5. CASE Admit(s) \/ Answer(s) \/ Rollback(s)
  <2>1. Holding' = Holding /\ reservations' = reservations
    BY <1>5 DEF IInv, TypeOK, Admit, Answer, Rollback, Holding
  <2>2. request' \in [Steers -> Phases]
    BY <1>5, ZenonT(40) DEF IInv, TypeOK, Admit, Answer, Rollback, Phases
  <2>3. row' \in [Steers -> {"none", "pending", "promoted", "taken", "deleted"}]
    BY <1>5 DEF IInv, TypeOK, Admit, Answer, Rollback
  <2>4. faults' \in Nat /\ turn' \in BOOLEAN
    <3>1. faults' \in Nat
      <4>1. faults' = faults \/ faults' = faults + 1
        BY <1>5 DEF Admit, Answer, Rollback
      <4> QED BY <4>1 DEF IInv, TypeOK
    <3>2. turn' = turn \/ turn' = TRUE
      <4>1. CASE Answer(s)
        BY <4>1, Zenon DEF Answer
      <4>2. CASE Admit(s) \/ Rollback(s)
        BY <4>2 DEF Admit, Rollback
      <4> QED BY <1>5, <4>1, <4>2
    <3> QED BY <3>1, <3>2 DEF IInv, TypeOK
  <2>5. UNCHANGED <<closed, permit, epoch, child, cancel>>
    BY <1>5 DEF Admit, Answer, Rollback
  <2>6. closed' \in BOOLEAN /\ permit' \in BOOLEAN /\ cancel' \in BOOLEAN
    BY <2>5, Zenon DEF IInv, TypeOK
  <2>7. epoch' \in Nat /\ child' \in ChildType
    BY <2>5 DEF IInv, TypeOK, ChildType
  <2>8. reservations' = Cardinality(Holding') /\ reservations' \in Nat
    BY <2>1, <1>1 DEF IInv, TypeOK
  <2> QED BY <2>2, <2>3, <2>4, <2>6, <2>7, <2>8, Zenon DEF TypeOK, ChildType
<1> QED BY <1>3, <1>4, <1>5 DEF Request

(* A request only ever makes the epoch larger and its own row pending.      *)
LEMMA RequestPreserves ==
  ASSUME IInv, NEW s \in Steers, Request(s)
  PROVE  IInv'
<1> USE DEF Becomes, Notify, Fault, gate, tokens
<1>1. TypeOK'
  BY RequestType
<1>2. /\ request \in [Steers -> Phases] /\ row \in [Steers -> {"none", "pending", "promoted",
                                                               "taken", "deleted"}]
      /\ epoch \in Nat /\ child.epoch \in Nat
      /\ closed' = closed /\ child' = child /\ cancel' = cancel
  BY DEF IInv, TypeOK, Request, Reserve, Admit, Abort, Commit, Answer, Rollback
<1>3. RowsFollow'
  BY <1>2 DEF IInv, RowsFollow, Accepted, Request, Reserve, Admit, Abort, Commit, Answer, Rollback
<1>4. \A t \in Steers : row[t] \in {"promoted", "taken"} \/ row'[t] = "promoted" => row'[t] = row[t]
  BY <1>2 DEF IInv, RowsFollow, Request, Reserve, Admit, Abort, Commit, Answer, Rollback
<1>5. BatchHeld'
  BY <1>2, <1>4 DEF IInv, TypeOK, BatchHeld, At
<1>6. \/ UNCHANGED epoch /\ (AllTaken => AllTaken')
      \/ ~closed /\ epoch' = epoch + 1
  BY <1>2, <1>4 DEF AllTaken, Accepted, Request, Reserve, Admit, Abort, Commit, Answer, Rollback
<1>7. PeekHolds'
  BY <1>2, <1>6 DEF IInv, PeekHolds, At
<1>8. SettledForGood'
  BY <1>2, <1>6 DEF IInv, SettledForGood, At, Request, Reserve, Admit, Abort, Commit, Answer,
                    Rollback
<1> QED BY <1>1, <1>3, <1>5, <1>7, <1>8 DEF IInv

(* The steps of the loop keep the types.                                    *)
LEMMA LoopType ==
  ASSUME IInv, Loop \/ Cancel \/ ForceCancel
  PROVE  TypeOK'
<1> USE DEF Notify, Fault, gate, tokens, Go, End, At, ForceClose
<1>1. request' = request /\ Holding' = Holding /\ reservations' = reservations
  BY DEF Loop, Top, Read, Promote, Snapshot, Apply, Turn, Peek, Settle, Await, Reabsorb, Flush,
         Cancel, ForceCancel, Holding
<1>2. row' \in [Steers -> {"none", "pending", "promoted", "taken", "deleted"}]
  BY DEF IInv, TypeOK, Loop, Top, Read, Promote, Snapshot, Apply, Turn, Peek, Settle, Await,
         Reabsorb, Flush, Cancel, ForceCancel
<1>3. child' \in ChildType
  <2>1. child \in ChildType /\ Pending \subseteq Steers /\ epoch \in Nat
    BY DEF IInv, TypeOK, ChildType, Pending
  <2>2. CASE Top \/ Read \/ Promote \/ Snapshot
    <3>1. CASE Top
      BY <2>1, <3>1 DEF Top, ChildType, Pcs, Ends
    <3>2. CASE Read
      BY <2>1, <3>2 DEF Read, ChildType, Pcs
    <3>3. CASE Promote
      BY <2>1, <3>3 DEF Promote, ChildType, Pcs
    <3>4. CASE Snapshot
      BY <2>1, <3>4 DEF Snapshot, ChildType, Pcs
    <3> QED BY <2>2, <3>1, <3>2, <3>3, <3>4
  <2>3. CASE Apply
    BY <2>1, <2>3 DEF Apply, ChildType, Pcs, Ends
  <2>4. CASE Turn \/ Peek \/ Await \/ Flush
    <3>1. CASE Turn
      <4>1. CASE End("cancel") \/ End("error")
        BY <2>1, <4>1 DEF ChildType, Pcs, Ends
      <4>2. CASE Go("top") \/ Go("peek")
        BY <2>1, <4>2 DEF ChildType, Pcs
      <4> QED BY <3>1, <4>1, <4>2, Zenon DEF Turn
    <3>2. CASE Peek
      BY <2>1, <3>2 DEF Peek, ChildType, Pcs
    <3>3. CASE Await \/ Flush
      BY <2>1, <3>3 DEF Await, Flush, ChildType, Pcs
    <3> QED BY <2>4, <3>1, <3>2, <3>3
  <2>5. CASE Settle
    <3>1. CASE End("closed")
      BY <2>1, <3>1 DEF ChildType, Pcs, Ends
    <3>2. CASE Go("top") \/ Go("await")
      BY <2>1, <3>2 DEF ChildType, Pcs
    <3> QED BY <2>5, <3>1, <3>2 DEF Settle
  <2>6. CASE Reabsorb
    <3>1. child.rechecks < MaxRechecks => child.rechecks + 1 \in 0 .. MaxRechecks
      BY <2>1, GateAssumption DEF ChildType
    <3> QED BY <2>1, <2>6, <3>1 DEF Reabsorb, ChildType, Pcs
  <2>7. CASE Cancel \/ ForceCancel
    BY <2>1, <2>7 DEF Cancel, ForceCancel, ChildType, Pcs, Ends
  <2> QED BY <2>2, <2>3, <2>4, <2>5, <2>6, <2>7 DEF Loop
<1>4. closed' \in BOOLEAN /\ permit' \in BOOLEAN /\ epoch' \in Nat
  BY DEF IInv, TypeOK, Loop, Top, Read, Promote, Snapshot, Apply, Turn, Peek, Settle, Await,
         Reabsorb, Flush, Cancel, ForceCancel
<1>5. cancel' \in BOOLEAN /\ turn' \in BOOLEAN
  BY DEF IInv, TypeOK, Loop, Top, Read, Promote, Snapshot, Apply, Turn, Peek, Settle, Await,
         Reabsorb, Flush, Cancel, ForceCancel
<1>6. faults' \in Nat
  BY DEF IInv, TypeOK, Loop, Top, Read, Promote, Snapshot, Apply, Turn, Peek, Settle, Await,
         Reabsorb, Flush, Cancel, ForceCancel
<1> QED BY <1>1, <1>2, <1>3, <1>4, <1>5, <1>6 DEF IInv, TypeOK, ChildType

(* A taken row stays taken, and the claimed rows are the promoted ones.     *)
LEMMA LoopBatch ==
  ASSUME IInv, Loop \/ Cancel \/ ForceCancel
  PROVE  /\ BatchHeld'
         /\ RowsFollow'
         /\ AllTaken => AllTaken'
<1> USE DEF Notify, Fault, gate, tokens, Go, End, At, ForceClose
<1>1. /\ child \in ChildType /\ request' = request
      /\ row \in [Steers -> {"none", "pending", "promoted", "taken", "deleted"}]
      /\ closed => closed'
  BY DEF IInv, TypeOK, ChildType, Loop, Top, Read, Promote, Snapshot, Apply, Turn, Peek, Settle,
         Await, Reabsorb, Flush, Cancel, ForceCancel
<1>2. CASE Promote
  <2> DEFINE claimed == child.seen \cap Pending
  <2>1. \A t \in Steers : row'[t] = IF t \in claimed THEN "promoted" ELSE row[t]
    BY <1>2 DEF Promote
  <2>2. \A t \in claimed : row[t] = "pending" /\ t \in Steers
    BY <1>1 DEF Pending, ChildType
  <2>3. /\ child'.batch = claimed /\ child'.pc = "snapshot" /\ child'.end = child.end
        /\ child.batch = {} /\ child.end # "forced"
    BY <1>2, <1>1 DEF Promote, ChildType, IInv, BatchHeld
  <2>4. BatchHeld'
    BY <2>1, <2>2, <2>3 DEF IInv, BatchHeld
  <2> QED BY <2>1, <2>2, <2>4, <1>1 DEF IInv, RowsFollow, AllTaken, Accepted
<1>3. CASE Apply
  <2>1. \A t \in child.batch : row[t] = "promoted" /\ t \in Steers
    BY <1>1 DEF IInv, BatchHeld, ChildType
  <2>2. child.end # "forced"
    BY <1>3 DEF Apply, IInv, BatchHeld
  <2>3. CASE child.batch = {} /\ Go("turn") /\ row' = row
    BY <2>3, <2>2, <1>1 DEF IInv, BatchHeld, RowsFollow, AllTaken, Accepted, ChildType
  <2>4. CASE /\ row' = [t \in Steers |-> IF t \in child.batch THEN "pending" ELSE row[t]]
             /\ End("cancel")
    BY <2>4, <2>1, <2>2, <1>1 DEF IInv, BatchHeld, RowsFollow, AllTaken, Accepted, ChildType
  <2>5. ASSUME NEW t \in child.batch, row' = [row EXCEPT ![t] = "taken"],
               child' = [child EXCEPT !.batch = @ \ {t}]
        PROVE  BatchHeld' /\ RowsFollow' /\ (AllTaken => AllTaken')
    BY <2>5, <2>1, <2>2, <1>1, <1>3 DEF Apply, IInv, BatchHeld, RowsFollow, AllTaken, Accepted, ChildType
  <2> QED BY <1>3, <2>3, <2>4, <2>5 DEF Apply
<1>4. CASE UNCHANGED <<row, child>>
  BY <1>4, <1>1 DEF IInv, BatchHeld, RowsFollow, AllTaken, Accepted
<1>5. ASSUME row' = row, ~At("snapshot"), ~At("apply"), child'.batch = {},
             child'.end = "forced" => child'.pc = "gone",
             child'.end = "forced" \/ child.end # "forced"
      PROVE  BatchHeld' /\ RowsFollow' /\ (AllTaken => AllTaken')
  BY <1>5, <1>1 DEF IInv, BatchHeld, RowsFollow, AllTaken, Accepted
<1>6. CASE Top \/ Read \/ Turn \/ Peek \/ Settle \/ Await \/ Reabsorb \/ Flush
  <2>1. ~At("snapshot") /\ ~At("apply") /\ ~At("gone") /\ row' = row
    BY <1>6 DEF Top, Read, Turn, Peek, Settle, Await, Reabsorb, Flush
  <2>2. child.batch = {} /\ child.end # "forced"
    BY <2>1 DEF IInv, BatchHeld
  <2>3. child'.batch = {} /\ child'.end # "forced"
    <3>1. CASE Top
      <4>1. CASE End("cancel")
        BY <4>1, <2>2, <1>1, SMTT(30) DEF ChildType
      <4>2. CASE Go("read")
        BY <4>2, <2>2, <1>1, SMTT(30) DEF ChildType
      <4> QED BY <3>1, <4>1, <4>2 DEF Top
    <3>2. CASE Read
      <4>1. CASE child' = [child EXCEPT !.pc = "promote", !.seen = Pending]
        BY <4>1, <2>2, <1>1, SMTT(30) DEF ChildType
      <4>2. CASE Go("snapshot")
        BY <4>2, <2>2, <1>1, SMTT(30) DEF ChildType
      <4> QED BY <3>2, <4>1, <4>2 DEF Read
    <3>3. CASE Turn
      <4>1. CASE End("cancel")
        BY <4>1, <2>2, <1>1, SMTT(30) DEF ChildType
      <4>2. CASE End("error")
        BY <4>2, <2>2, <1>1, SMTT(30) DEF ChildType
      <4>3. CASE \E pc \in {"top", "peek"} : Go(pc)
        BY <4>3, <2>2, <1>1, SMTT(30) DEF ChildType
      <4> QED BY <3>3, <4>1, <4>2, <4>3 DEF Turn
    <3>4. CASE Peek
      <4>1. CASE Go("top")
        BY <4>1, <2>2, <1>1, SMTT(30) DEF ChildType
      <4>2. CASE \E b \in BOOLEAN : child' = [child EXCEPT !.pc = "settle", !.blind = b]
        BY <4>2, <2>2, <1>1, SMTT(30) DEF ChildType
      <4> QED BY <3>4, <4>1, <4>2 DEF Peek
    <3>5. CASE Settle
      <4>1. CASE Go("top")
        BY <4>1, <2>2, <1>1, SMTT(30) DEF ChildType
      <4>2. CASE Go("await")
        BY <4>2, <2>2, <1>1, SMTT(30) DEF ChildType
      <4>3. CASE End("closed")
        BY <4>3, <2>2, <1>1, SMTT(30) DEF ChildType
      <4> QED BY <3>5, <4>1, <4>2, <4>3 DEF Settle
    <3>6. CASE Await
      <4>1. CASE Go("settle")
        BY <4>1, <2>2, <1>1, SMTT(30) DEF ChildType
      <4>2. CASE Go("parked")
        BY <4>2, <2>2, <1>1, SMTT(30) DEF ChildType
      <4> QED BY <3>6, <4>1, <4>2 DEF Await
    <3>7. CASE Reabsorb \/ Flush
      <4>1. CASE child' = [child EXCEPT !.pc = "top", !.rechecks = @ + 1]
        BY <4>1, <2>2, <1>1, SMTT(30) DEF ChildType
      <4>2. CASE Go("flush")
        BY <4>2, <2>2, <1>1, SMTT(30) DEF ChildType
      <4>3. CASE Go("gone")
        BY <4>3, <2>2, <1>1, SMTT(30) DEF ChildType
      <4> QED BY <3>7, <4>1, <4>2, <4>3 DEF Reabsorb, Flush
    <3> QED BY <1>6, <3>1, <3>2, <3>3, <3>4, <3>5, <3>6, <3>7
  <2> QED BY <2>1, <2>2, <2>3, <1>5
<1>7. CASE Snapshot
  <2>1. /\ row' = row /\ child.pc = "snapshot" /\ child'.pc = "apply"
        /\ child'.batch = child.batch /\ child'.end = child.end
    BY <1>7, <1>1, SMTT(30) DEF Snapshot, ChildType
  <2>2. BatchHeld'
    BY <2>1, SMTT(30) DEF IInv, BatchHeld
  <2> QED BY <2>1, <2>2, <1>1, SMTT(30) DEF IInv, RowsFollow, AllTaken, Accepted
<1>8. CASE ForceCancel
  <2>1. /\ row' = row /\ child'.pc = "gone"
        /\ child'.batch = {} /\ child'.end = "forced"
    BY <1>8, <1>1, SMTT(30) DEF ForceCancel, ChildType
  <2>2. BatchHeld'
    BY <2>1, SMTT(30) DEF IInv, BatchHeld
  <2> QED BY <2>1, <2>2, <1>1, SMTT(30) DEF IInv, RowsFollow, AllTaken, Accepted
<1>9. CASE Cancel
  BY <1>9, <1>4 DEF Cancel
<1> QED BY <1>2, <1>3, <1>6, <1>7, <1>8, <1>9 DEF Loop

(* The last peek and the settled end: what the gate is for.                 *)
LEMMA LoopPreserves ==
  ASSUME IInv, Loop \/ Cancel \/ ForceCancel
  PROVE  IInv'
<1> USE DEF Notify, Fault, gate, tokens, Go, End, At, ForceClose
<1>1. TypeOK' /\ BatchHeld' /\ RowsFollow' /\ (AllTaken => AllTaken')
  BY LoopType, LoopBatch
<1>2. /\ child \in ChildType /\ epoch \in Nat /\ epoch' = epoch
      /\ request' = request /\ (closed => closed') /\ (cancel => cancel')
  BY DEF IInv, TypeOK, ChildType, Loop, Top, Read, Promote, Snapshot, Apply, Turn, Peek, Settle,
         Await, Reabsorb, Flush, Cancel, ForceCancel
<1>3. PeekHolds'
  <2>1. CASE Peek
    <3>1. CASE child'.pc = "settle" /\ ~child'.blind
      <4>1. Pending = {} /\ child.batch = {} /\ child.end # "forced" /\ row' = row
        BY <2>1, <3>1, <1>2 DEF Peek, IInv, BatchHeld, ChildType
      <4>2. AllTaken'
        BY <4>1, <1>2 DEF IInv, BatchHeld, RowsFollow, AllTaken, Accepted, Pending
      <4> QED BY <4>2, <2>1, <1>2 DEF Peek, IInv, PeekHolds, ChildType
    <3> QED BY <3>1, <2>1, <1>2 DEF Peek, IInv, PeekHolds, ChildType
  <2>2. CASE Settle \/ Await
    BY <2>2, <1>1, <1>2 DEF Settle, Await, IInv, PeekHolds, ChildType
  <2>3. CASE Top \/ Read \/ Promote \/ Snapshot \/ Apply
    <3>1. child'.pc \notin {"settle", "await", "parked"} /\ child'.epoch <= epoch
      <4>1. CASE Top
        BY <4>1, <1>2 DEF Top, IInv, PeekHolds, ChildType
      <4>2. CASE Read
        BY <4>2, <1>2 DEF Read, IInv, PeekHolds, ChildType
      <4>3. CASE Promote
        BY <4>3, <1>2 DEF Promote, IInv, PeekHolds, ChildType
      <4>5. CASE Snapshot
        BY <4>5, <1>2 DEF Snapshot, ChildType
      <4>4. CASE Apply
        BY <4>4, <1>2 DEF Apply, IInv, PeekHolds, ChildType
      <4> QED BY <2>3, <4>1, <4>2, <4>3, <4>4, <4>5
    <3> QED BY <3>1, <1>2 DEF PeekHolds
  <2>4. CASE Turn
    <3>1. child'.pc \in {"top", "peek", "after", "flush"} /\ child'.epoch = child.epoch
      <4>1. CASE End("cancel") \/ End("error")
        BY <4>1, <1>2 DEF ChildType
      <4>2. CASE Go("top") \/ Go("peek")
        BY <4>2, <1>2 DEF ChildType
      <4> QED BY <2>4, <4>1, <4>2, Zenon DEF Turn
    <3> QED BY <3>1, <1>2 DEF IInv, PeekHolds
  <2>6. CASE Reabsorb \/ Flush \/ ForceCancel
    <3>1. child'.pc \in {"top", "flush", "gone"} /\ child'.epoch = child.epoch
      BY <2>6, <1>2 DEF Reabsorb, Flush, ForceCancel, ChildType
    <3> QED BY <3>1, <1>2 DEF IInv, PeekHolds
  <2>5. CASE Cancel
    BY <2>5, <1>1, <1>2 DEF Cancel, IInv, PeekHolds, ChildType
  <2> QED BY <2>1, <2>2, <2>3, <2>4, <2>5, <2>6 DEF Loop
<1>4. SettledForGood'
  <2>1. CASE Settle
    <3>1. CASE child'.end = "closed" /\ child'.pc = "after"
      <4>1. closed' /\ (~child'.blind => AllTaken')
        BY <2>1, <3>1, <1>1, <1>2 DEF Settle, IInv, PeekHolds, ChildType
      <4>2. CASE closed
        BY <4>1, <4>2, <2>1, <3>1, <1>2 DEF Settle, IInv, SettledForGood, ChildType
      <4>3. CASE ~closed
        <5>1. Cardinality(Holding) = 0 /\ Holding \in SUBSET Steers
          BY <4>3, <2>1, <3>1, <1>2 DEF Settle, IInv, TypeOK, Holding, ChildType
        <5>2. Holding = {}
          BY <5>1, FS_EmptySet, FS_Subset, GateAssumption
        <5>3. \A s \in Steers : request[s] \notin {"reserved", "written", "rollback"}
          BY <5>2, <4>3 DEF Holding, IInv, RowsFollow
        <5> QED BY <5>3, <4>1, <3>1, <1>2 DEF SettledForGood
      <4> QED BY <4>2, <4>3
    <3>2. CASE ~(child'.end = "closed" /\ child'.pc = "after")
      BY <3>2, <2>1, <1>1, <1>2 DEF Settle, IInv, SettledForGood, ChildType
    <3> QED BY <3>1, <3>2
  <2>2. CASE Peek
    <3>1. child'.end = child.end /\ closed' = closed /\ child'.pc \in {"top", "settle"}
      BY <2>2, <1>2 DEF Peek, ChildType
    <3>2. child'.end = "closed" /\ ~child'.blind => AllTaken'
      BY <3>1, <2>2, <1>1, <1>2, <1>3 DEF Peek, IInv, PeekHolds, SettledForGood, ChildType
    <3> QED BY <3>1, <3>2, <2>2, <1>2 DEF Peek, IInv, SettledForGood, ChildType
  <2>3. CASE Top \/ Read \/ Promote \/ Snapshot \/ Apply
    BY <2>3, <1>1, <1>2 DEF Top, Read, Promote, Snapshot, Apply, IInv, SettledForGood, ChildType
  <2>4. CASE Turn \/ Await
    BY <2>4, <1>1, <1>2 DEF Turn, Await, IInv, SettledForGood, ChildType
  <2>5. CASE Reabsorb \/ Flush
    BY <2>5, <1>1, <1>2 DEF Reabsorb, Flush, IInv, SettledForGood, ChildType
  <2>6. CASE Cancel \/ ForceCancel
    BY <2>6, <1>1, <1>2 DEF Cancel, ForceCancel, IInv, SettledForGood, ChildType
  <2> QED BY <2>1, <2>2, <2>3, <2>4, <2>5, <2>6 DEF Loop
<1> QED BY <1>1, <1>3, <1>4 DEF IInv

(* The invariant holds in every reachable state.                            *)
THEOREM Invariance == Spec => []IInv
<1>1. IInv /\ [Next]_vars => IInv'
  <2>1. CASE UNCHANGED vars
    BY <2>1 DEF vars, gate, tokens, IInv, TypeOK, RowsFollow, BatchHeld, PeekHolds,
                SettledForGood, AllTaken, Accepted, Holding, At
  <2> QED BY <2>1, RequestPreserves, LoopPreserves DEF Next
<1> QED BY <1>1, InitIInv, PTL DEF Spec

(* Every variable keeps its type and the counter is the number of requests  *)
(* that hold a reservation (SubagentSteerGate::reserve, commit and drop).   *)
THEOREM TypeCorrect == Spec => []TypeOK
BY Invariance, PTL DEF IInv

(* A subagent that settled with its eyes open has taken every steer that    *)
(* was or will be answered with accepted (settle_idle and idle_drain).      *)
THEOREM AcceptedAreTaken == Spec => []NoAcceptedLeft
<1>1. IInv => NoAcceptedLeft
  BY DEF IInv, SettledForGood, NoAcceptedLeft, AllTaken
<1> QED BY <1>1, Invariance, PTL

(* Settling never makes a request fail that already holds a reservation     *)
(* (settle_idle waits for reservations before it closes).                   *)
THEOREM SettleWaits == Spec => []OnlyForceRejects
<1>1. IInv => OnlyForceRejects
  BY DEF IInv, SettledForGood, OnlyForceRejects
<1> QED BY <1>1, Invariance, PTL

(* While the loop looks, waits or is parked, every change that it must see *)
(* stores a wakeup: a new reservation is the only one that does not.       *)
LEMMA LookStep == IInv /\ LookHolds /\ [Next]_vars => LookHolds'
<1> SUFFICES ASSUME IInv, LookHolds, [Next]_vars PROVE LookHolds'
  OBVIOUS
<1> USE DEF Notify, Fault, gate, tokens, Go, End, At, ForceClose, Becomes
<1>1. child \in ChildType /\ reservations \in Nat /\ permit \in BOOLEAN
  BY DEF IInv, TypeOK, ChildType
<1>2. ASSUME NEW s \in Steers, Request(s) PROVE LookHolds'
  <2>1. CASE Abort(s) \/ Commit(s)
    BY <2>1 DEF Abort, Commit, LookHolds
  <2>2. CASE Reserve(s)
    BY <2>2, <1>1 DEF Reserve, LookHolds
  <2>3. CASE Admit(s) \/ Answer(s) \/ Rollback(s)
    BY <2>3 DEF Admit, Answer, Rollback, LookHolds
  <2> QED BY <1>2, <2>1, <2>2, <2>3 DEF Request
<1>3. CASE Settle
  <2>1. CASE closed \/ epoch # child.epoch \/ reservations = 0
    <3>1. child'.pc \in {"after", "top"}
      BY <1>1, <1>3, <2>1 DEF Settle, IInv, TypeOK, ChildType
    <3> QED BY <3>1 DEF LookHolds
  <2>2. CASE ~closed /\ epoch = child.epoch /\ reservations # 0
    <3>1. Go("await") /\ closed' = closed /\ reservations' = reservations /\ epoch' = epoch
      BY <1>3, <2>2 DEF Settle
    <3>2. child'.epoch = child.epoch
      BY <3>1, <1>1 DEF ChildType
    <3> QED BY <1>1, <2>2, <3>1, <3>2 DEF LookHolds
  <2> QED BY <2>1, <2>2
<1>4. CASE Await
  BY <1>1, <1>4 DEF Await, LookHolds, ChildType
<1>5. CASE Top \/ Read \/ Promote \/ Snapshot \/ Apply \/ Turn \/ Peek \/ Reabsorb \/ Flush \/ ForceCancel
  <2>1. child'.pc \notin {"await", "parked"}
    <3>1. CASE Top \/ Read \/ Promote \/ Snapshot
      BY <3>1, <1>1 DEF Top, Read, Promote, Snapshot, ChildType
    <3>2. CASE Apply
      BY <3>2, <1>1 DEF Apply, ChildType
    <3>3. CASE Turn
      <4>1. CASE End("cancel") \/ End("error")
        BY <4>1, <1>1 DEF ChildType
      <4>2. CASE Go("top") \/ Go("peek")
        BY <4>2, <1>1 DEF ChildType
      <4> QED BY <3>3, <4>1, <4>2, Zenon DEF Turn
    <3>4. CASE Peek \/ Reabsorb \/ Flush \/ ForceCancel
      BY <3>4, <1>1 DEF Peek, Reabsorb, Flush, ForceCancel, ChildType
    <3> QED BY <1>5, <3>1, <3>2, <3>3, <3>4
  <2> QED BY <2>1 DEF LookHolds
<1>6. CASE Cancel \/ UNCHANGED vars
  BY <1>6 DEF Cancel, vars, LookHolds
<1> QED BY <1>2, <1>3, <1>4, <1>5, <1>6 DEF Next, Loop

(* No wakeup is lost at the idle boundary: what changes between the look   *)
(* of settle_idle and the first poll of its wait is stored by notify_one.  *)
THEOREM WakeupKept == Spec => []NoLostWakeup
<1>1. Init => LookHolds
  BY DEF Init, LookHolds, At
<1>2. IInv /\ LookHolds => NoLostWakeup
  <2> SUFFICES ASSUME IInv, LookHolds, At("parked"), ~permit
               PROVE  Holding # {} /\ ~closed /\ epoch = child.epoch
    BY DEF NoLostWakeup
  <2>1. ~closed /\ reservations > 0 /\ epoch = child.epoch /\ reservations = Cardinality(Holding)
    BY DEF LookHolds, IInv, TypeOK
  <2>2. Holding # {}
    BY <2>1, FS_EmptySet
  <2> QED BY <2>1, <2>2
<1> QED BY <1>1, <1>2, LookStep, Invariance, PTL DEF Spec
=============================================================================
