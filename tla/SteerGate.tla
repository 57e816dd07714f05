------------------------------ MODULE SteerGate ------------------------------
(***************************************************************************)
(* The gate between the outside world and one subagent: steers are written *)
(* to the store by requests that run beside the subagent's turn loop, and  *)
(* the loop may only finish when none is on its way.                       *)
(*                                                                         *)
(* A request reserves, writes its row, and commits or rolls back; it may   *)
(* be dropped by its caller at any moment.  The loop snapshots the epoch,  *)
(* claims rows, runs turns, peeks for late rows and settles.  A hard       *)
(* cancel, a failed turn and a forced removal close the gate from outside. *)
(* Left out: the order of rows and the step between the effect and the     *)
(* mark of a row (SessionDrain), and queued inputs, which no one admits to *)
(* a subagent.                                                             *)
(***************************************************************************)
EXTENDS Naturals, FiniteSets

CONSTANTS
    Steers,        \* requests that steer the subagent, each with its row
    MaxRechecks,   \* 3 in the code
    Faults         \* bound: failed reads, writes and turns, and dropped requests

ASSUME GateAssumption ==
    IsFiniteSet(Steers) /\ MaxRechecks \in Nat /\ Faults \in Nat

VARIABLES
    closed, reservations, epoch,   \* GateState
    permit,      \* the stored wakeup of the Notify
    request,     \* how far each request is
    row,         \* the row of each request in session_inputs
    child,       \* the subagent's loop: program counter and locals
    cancel,      \* its hard-cancel token has fired
    turn,        \* its turn token has fired
    faults

gate == <<closed, reservations, epoch, permit>>
tokens == <<cancel, turn>>
vars == <<gate, request, row, child, tokens, faults>>

Phases == {"none", "reserved", "written", "committed", "rollback",
           "accepted", "refused", "rejected", "failed", "dropped"}
Pcs == {"top", "read", "promote", "snapshot", "apply", "turn", "peek",
        "settle", "await", "parked", "after", "flush", "gone"}
Ends == {"none", "closed", "cancel", "error", "forced"}

Pending == {s \in Steers : row[s] = "pending"}
Holding == {s \in Steers : request[s] \in {"reserved", "written"}}
At(pc) == child.pc = pc
Go(pc) == child' = [child EXCEPT !.pc = pc]
Fault == faults < Faults /\ faults' = faults + 1

Init ==
    /\ closed = FALSE /\ reservations = 0 /\ epoch = 0 /\ permit = FALSE
    /\ request = [s \in Steers |-> "none"]
    /\ row = [s \in Steers |-> "none"]
    /\ child = [pc |-> "top", seen |-> {}, batch |-> {}, epoch |-> 0,
                blind |-> FALSE, rechecks |-> 0, end |-> "none"]
    /\ cancel = FALSE /\ turn = FALSE
    /\ faults = 0

-----------------------------------------------------------------------------
(* One request: reserve, write, commit or roll back.                       *)

\* Mutant: only a waiter that is already parked is woken (notify_waiters).
NotifyParked == permit' = (permit \/ At("parked"))

\* notify_one: the wakeup is stored when nobody waits.
Notify == permit' = TRUE

Becomes(s, phase) == request' = [request EXCEPT ![s] = phase]

Reserve(s) ==
    /\ request[s] = "none"
    /\ IF closed
       THEN Becomes(s, "refused") /\ reservations' = reservations
       ELSE Becomes(s, "reserved") /\ reservations' = reservations + 1
    /\ UNCHANGED <<closed, epoch, permit, row, child, tokens, faults>>

Admit(s) ==
    /\ request[s] = "reserved"
    /\ Becomes(s, "written")
    /\ row' = [row EXCEPT ![s] = "pending"]
    /\ UNCHANGED <<gate, child, tokens, faults>>

\* The reservation is dropped: by a failed write, or because the caller went away.
Abort(s) ==
    /\ request[s] \in {"reserved", "written"}
    /\ Fault
    /\ Becomes(s, IF request[s] = "reserved" THEN "failed" ELSE "dropped")
    /\ reservations' = reservations - 1
    /\ Notify
    /\ UNCHANGED <<closed, epoch, row, child, tokens>>

\* Mutant: the commit does not advance the epoch.
CommitQuietly(s) ==
    /\ request[s] = "written"
    /\ Becomes(s, IF closed THEN "rollback" ELSE "committed")
    /\ reservations' = reservations - 1
    /\ Notify
    /\ UNCHANGED <<closed, epoch, row, child, tokens, faults>>

Commit(s) ==
    /\ request[s] = "written"
    /\ reservations' = reservations - 1
    /\ IF closed
       THEN Becomes(s, "rollback") /\ epoch' = epoch
       ELSE Becomes(s, "committed") /\ epoch' = epoch + 1
    /\ Notify
    /\ UNCHANGED <<closed, row, child, tokens, faults>>

\* The web server fires the turn token before it answers, the terminal UI does not.
Answer(s) ==
    /\ request[s] = "committed"
    /\ Becomes(s, "accepted")
    /\ turn' \in {turn, TRUE}
    /\ UNCHANGED <<gate, row, child, cancel, faults>>

\* Deleting a row that was promoted meanwhile does nothing; a failed delete is an error.
Rollback(s) ==
    /\ request[s] = "rollback"
    /\ \/ /\ row' = [row EXCEPT ![s] = IF @ = "pending" THEN "deleted" ELSE @]
          /\ Becomes(s, "rejected")
          /\ UNCHANGED faults
       \/ /\ Fault
          /\ Becomes(s, "failed")
          /\ UNCHANGED row
    /\ UNCHANGED <<gate, child, tokens>>

-----------------------------------------------------------------------------
(* The subagent's turn loop.                                               *)

End(how) ==
    child' = [child EXCEPT !.pc = IF how = "error" THEN "flush" ELSE "after",
                           !.end = how, !.batch = {}]

Top ==
    /\ At("top")
    /\ IF cancel THEN End("cancel") ELSE Go("read")
    /\ UNCHANGED <<gate, request, row, tokens, faults>>

\* claim_steers reads, unless the cancel token wins or the read fails, ...
Read ==
    /\ At("read")
    /\ \/ /\ ~cancel
          /\ child' = [child EXCEPT !.pc = "promote", !.seen = Pending]
          /\ UNCHANGED faults
       \/ /\ cancel
          /\ Go("snapshot")
          /\ UNCHANGED faults
       \/ /\ Fault
          /\ Go("snapshot")
    /\ UNCHANGED <<gate, request, row, tokens>>

\* ... and then promotes what it read.
Promote ==
    /\ At("promote")
    /\ LET claimed == child.seen \cap Pending
       IN /\ row' = [s \in Steers |-> IF s \in claimed THEN "promoted" ELSE row[s]]
          /\ child' = [child EXCEPT !.pc = "snapshot", !.seen = {}, !.batch = claimed]
    /\ UNCHANGED <<gate, request, tokens, faults>>

\* The epoch read before the poll is replaced by the one read after it.
Snapshot ==
    /\ At("snapshot")
    /\ child' = [child EXCEPT !.pc = "apply", !.epoch = epoch]
    /\ UNCHANGED <<gate, request, row, tokens, faults>>

\* Each claimed steer becomes a user message and is marked; a hard cancel puts the rest back.
Apply ==
    /\ At("apply")
    /\ \/ /\ child.batch = {}
          /\ Go("turn")
          /\ UNCHANGED row
       \/ /\ child.batch # {} /\ cancel
          /\ row' = [s \in Steers |-> IF s \in child.batch THEN "pending" ELSE row[s]]
          /\ End("cancel")
       \/ /\ ~cancel
          /\ \E s \in child.batch :
                /\ row' = [row EXCEPT ![s] = "taken"]
                /\ child' = [child EXCEPT !.batch = @ \ {s}]
    /\ UNCHANGED <<gate, request, tokens, faults>>

\* A turn is interrupted by a steer, cancelled, fails, calls tools, or answers.
Turn ==
    /\ At("turn")
    /\ \/ /\ turn
          /\ turn' = FALSE
          /\ Go("top")
          /\ UNCHANGED faults
       \/ /\ cancel /\ ~turn
          /\ End("cancel")
          /\ UNCHANGED <<turn, faults>>
       \/ /\ ~turn
          /\ Fault
          /\ End("error")
          /\ UNCHANGED turn
       \/ /\ ~cancel /\ ~turn
          /\ \E pc \in {"top", "peek"} : Go(pc)
          /\ UNCHANGED <<turn, faults>>
    /\ UNCHANGED <<gate, request, row, cancel>>

\* has_pending_steers: no row is seen when the cancel token wins or the read fails.
Peek ==
    /\ At("peek")
    /\ \/ /\ ~cancel
          /\ IF Pending # {} THEN Go("top")
             ELSE child' = [child EXCEPT !.pc = "settle", !.blind = FALSE]
          /\ UNCHANGED faults
       \/ /\ cancel
          /\ child' = [child EXCEPT !.pc = "settle", !.blind = TRUE]
          /\ UNCHANGED faults
       \/ /\ Fault
          /\ child' = [child EXCEPT !.pc = "settle", !.blind = TRUE]
    /\ UNCHANGED <<gate, request, row, tokens>>

\* Mutant: the gate closes over a request that is still writing.
CloseAtOnce ==
    /\ At("settle")
    /\ IF ~closed /\ epoch # child.epoch
       THEN Go("top") /\ closed' = closed
       ELSE End("closed") /\ closed' = TRUE
    /\ UNCHANGED <<reservations, epoch, permit, request, row, tokens, faults>>

\* settle_idle, one inspection under the lock.
Settle ==
    /\ At("settle")
    /\ CASE closed -> End("closed") /\ closed' = closed
         [] ~closed /\ epoch # child.epoch -> Go("top") /\ closed' = closed
         [] ~closed /\ epoch = child.epoch /\ reservations = 0 ->
              End("closed") /\ closed' = TRUE
         [] OTHER -> Go("await") /\ closed' = closed
    /\ UNCHANGED <<reservations, epoch, permit, request, row, tokens, faults>>

\* The first poll of the wait finds a stored wakeup or parks.
Await ==
    /\ At("await") \/ (At("parked") /\ permit)
    /\ Go(IF permit THEN "settle" ELSE "parked")
    /\ permit' = FALSE
    /\ UNCHANGED <<closed, reservations, epoch, request, row, tokens, faults>>

\* reabsorb_tail: a run that ended well looks for rows again, a bounded number of times.
Reabsorb ==
    /\ At("after")
    /\ child' = IF ~cancel /\ Pending # {} /\ child.rechecks < MaxRechecks
                THEN [child EXCEPT !.pc = "top", !.rechecks = @ + 1]
                ELSE [child EXCEPT !.pc = "flush"]
    /\ UNCHANGED <<gate, request, row, tokens, faults>>

ForceClose == closed' = TRUE /\ Notify

\* run_subagent closes the gate whatever ended the run.
Flush ==
    /\ At("flush")
    /\ Go("gone")
    /\ ForceClose
    /\ UNCHANGED <<reservations, epoch, request, row, tokens, faults>>

\* A parent's steer, an abort or a timeout fires the hard token ...
Cancel ==
    /\ ~cancel
    /\ ~At("gone")
    /\ cancel' = TRUE
    /\ UNCHANGED <<gate, request, row, child, turn, faults>>

\* ... and a subagent that does not stop in time is dropped where it stands.
ForceCancel ==
    /\ cancel
    /\ ~At("gone")
    /\ child' = [child EXCEPT !.pc = "gone", !.end = "forced", !.batch = {}]
    /\ ForceClose
    /\ UNCHANGED <<reservations, epoch, request, row, tokens, faults>>

-----------------------------------------------------------------------------
Request(s) ==
    \/ Reserve(s) \/ Admit(s) \/ Abort(s) \/ Commit(s) \/ Answer(s) \/ Rollback(s)

Loop ==
    \/ Top \/ Read \/ Promote \/ Snapshot \/ Apply \/ Turn
    \/ Peek \/ Settle \/ Await \/ Reabsorb \/ Flush

Next == (\E s \in Steers : Request(s)) \/ Loop \/ Cancel \/ ForceCancel

\* The loop is polled while it can move, and a request ends once it holds a reservation.
Fairness ==
    /\ WF_vars(Loop)
    /\ \A s \in Steers : WF_vars(Admit(s) \/ Abort(s) \/ Commit(s))

Spec == Init /\ [][Next]_vars
FairSpec == Spec /\ Fairness
-----------------------------------------------------------------------------
(* Properties.                                                             *)

TypeOK ==
    /\ closed \in BOOLEAN /\ permit \in BOOLEAN /\ cancel \in BOOLEAN /\ turn \in BOOLEAN
    /\ reservations \in Nat /\ epoch \in Nat /\ faults \in Nat
    /\ request \in [Steers -> Phases]
    /\ row \in [Steers -> {"none", "pending", "promoted", "taken", "deleted"}]
    /\ child \in [pc : Pcs, seen : SUBSET Steers, batch : SUBSET Steers, epoch : Nat,
                  blind : BOOLEAN, rechecks : 0 .. MaxRechecks, end : Ends]
    /\ reservations = Cardinality(Holding)

Accepted(s) == request[s] \in {"committed", "accepted"}

\* A subagent that settled has taken every steer whose sender was or will be told that it was
\* accepted; the only exception is a last peek that the cancel or a failing read kept from
\* looking.
NoAcceptedLeft ==
    (child.end = "closed" /\ ~child.blind) => \A s \in Steers : Accepted(s) => row[s] = "taken"

\* Settling never closes the gate over a request that is writing its row: a commit only fails
\* when the gate was closed from outside.
OnlyForceRejects ==
    \A s \in Steers : request[s] \in {"written", "rollback"} /\ closed => child.end # "closed"

\* Whoever is parked will be woken: a request that still has to commit or to give up holds a
\* reservation, or the wakeup is stored, and until then nothing has happened that it must see.
NoLostWakeup ==
    At("parked") => permit \/ (Holding # {} /\ ~closed /\ epoch = child.epoch)

\* The wait at the idle boundary ends: no wakeup is lost between the look at the state and the
\* wait for its change.
SettleReturns == At("parked") ~> ~At("parked")

\* An accepted steer is taken unless the subagent is cancelled, fails or cannot read its rows.
AcceptedIsServed ==
    \A s \in Steers :
        Accepted(s) ~> (row[s] = "taken" \/ cancel \/ child.end = "error" \/ child.blind)

-----------------------------------------------------------------------------
(* The inductive invariant behind NoAcceptedLeft and OnlyForceRejects.     *)

RowsFollow ==
    \A s \in Steers :
        /\ request[s] \in {"none", "reserved"} => row[s] = "none"
        /\ request[s] = "written" \/ Accepted(s) => row[s] \in {"pending", "promoted", "taken"}
        /\ request[s] = "rollback" => closed

BatchHeld ==
    /\ \A s \in child.batch : row[s] = "promoted"
    /\ child.end # "forced" => \A s \in Steers : row[s] = "promoted" => s \in child.batch
    /\ ~(At("snapshot") \/ At("apply")) => child.batch = {}
    /\ child.end = "forced" => At("gone")

AllTaken == \A s \in Steers : Accepted(s) => row[s] = "taken"

\* While the loop waits to settle, an unchanged epoch means that its last peek still holds.
PeekHolds ==
    /\ child.epoch <= epoch
    /\ (At("settle") \/ At("await") \/ At("parked")) /\ ~child.blind
        /\ (closed \/ epoch = child.epoch) => AllTaken

SettledForGood ==
    /\ child.end = "closed" =>
         /\ closed
         /\ \A s \in Steers : request[s] \notin {"reserved", "written", "rollback"}
         /\ ~child.blind => AllTaken
    /\ closed => \/ child.end = "closed"
                 \/ At("flush") \/ At("gone")
                 \/ At("after") /\ cancel

\* From its look at the gate to the wakeup the loop misses nothing but further reservations.
LookHolds ==
    (At("await") \/ At("parked")) /\ ~permit =>
        ~closed /\ reservations > 0 /\ epoch = child.epoch

IInv == TypeOK /\ RowsFollow /\ BatchHeld /\ PeekHolds /\ SettledForGood
=============================================================================
