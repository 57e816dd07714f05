---------------------------- MODULE NodeExecutions ----------------------------
(***************************************************************************)
(* Hosted release runtimes that run executions: each keeps a durable       *)
(* journal with one record per execution, a pending queue inside that      *)
(* journal, and asks the host's shared admission queue (HostCapacity) for  *)
(* a slot before it starts one.  The module follows an execution from      *)
(* acceptance through dispatch, launch, stop and completion, across a      *)
(* crash and a restart of its runtime.                                     *)
(*                                                                         *)
(* Locks of the code, as they appear here:                                 *)
(*   admission lock  held from RequestAccept or BeginCycle until control   *)
(*                   is back to idle, so one holder per runtime            *)
(*   journal lock    held across AcceptJournal and EnqueueTicket, which is *)
(*                   control pc "ticket"; all other uses are one step      *)
(*   lifecycle gate  one per execution, held by Stop, by Launch, and from  *)
(*                   Finalize to Deactivate                                *)
(*                                                                         *)
(* Left out: the local (not hosted) slot limit and its LIFO order, Paused  *)
(* records of Brain roots, project reservations, and forget.               *)
(***************************************************************************)
EXTENDS Naturals, FiniteSets, FiniteSetsExt, Sequences

CONSTANTS Ticket, Execution, Runtime, Capacity,
          Owner,          \* runtime that owns an execution (frozen at acceptance)
          Stops,          \* stop intents users may send
          Freezes,        \* may an operator freeze and reopen admission?
          Crashes,        \* may a runtime process die and restart?
          WriteFaults,    \* may the last writes of a run fail?
          None            \* no ticket, no execution

ASSUME NodeAssumption ==
  /\ IsFiniteSet(Ticket) /\ IsFiniteSet(Execution) /\ IsFiniteSet(Runtime)
  /\ Capacity \subseteq Nat \ {0}
  /\ Owner \in [Execution -> Runtime]
  /\ Stops \subseteq {"interrupt", "cancel"}
  /\ None \notin Ticket \cup Execution \cup {"create", "resume", "command"}

VARIABLES maxRuns, queue, ticketIndex, liveIndex,  \* the host's database
          journal,   \* durable record of an execution
          frozen,    \* durable: admission is frozen on this runtime
          active,    \* volatile: where the run's task is
          control,   \* volatile: who holds the admission lock, and how far it got
          wedged,    \* volatile: persistence_error is set
          minted     \* tickets minted so far; Ticket bounds the acceptances

hostVars == <<maxRuns, queue, ticketIndex, liveIndex>>
vars == <<hostVars, journal, frozen, active, control, wedged, minted>>

HC == INSTANCE HostCapacity

Status == {"absent", "pending", "running", "idle", "cancelling",
           "interrupted", "done", "error", "cancelled"}
Intent == {"none", "interrupt", "cancel"}
Record == [status : Status, intent : Intent, ticket : Ticket \cup {None},
           sequence : Nat, resume : BOOLEAN, command : BOOLEAN]
Task   == {"none", "running", "signalled", "finalized", "released"}
Kind   == {"create", "resume", "command"}
Place  == {"down", "idle", "accept", "ticket", "cycle", "entry", "claim", "launch"}

Holder == [pc : Place, exec : Execution \cup {None}, kind : Kind \cup {None},
           seen : Status \X Intent, todo : SUBSET Execution]

NoRecord == [status |-> "absent", intent |-> "none", ticket |-> None,
             sequence |-> 0, resume |-> FALSE, command |-> FALSE]

Mark(record) == <<record.status, record.intent>>

At(pc) == [pc |-> pc, exec |-> None, kind |-> None, seen |-> Mark(NoRecord), todo |-> {}]
Idle == At("idle")

TypeOK ==
  /\ HC!TypeOK
  /\ journal \in [Execution -> Record]
  /\ frozen \in [Runtime -> BOOLEAN]
  /\ active \in [Execution -> Task]
  /\ control \in [Runtime -> Holder]
  /\ wedged \in [Runtime -> BOOLEAN]
  /\ minted \subseteq Ticket

Owned(r) == {e \in Execution : Owner[e] = r}

Init ==
  /\ maxRuns \in Capacity
  /\ queue = <<>>
  /\ ticketIndex = [t \in Ticket |-> HC!NoRow]
  /\ liveIndex = [e \in Execution |-> HC!NoRow]
  /\ journal = [e \in Execution |-> NoRecord]
  /\ frozen = [r \in Runtime |-> FALSE]
  /\ active = [e \in Execution |-> "none"]
  /\ control = [r \in Runtime |-> Idle]
  /\ wedged = [r \in Runtime |-> FALSE]
  /\ minted = {}

-------------------------------------------------------------------------------
(* The status rules of lifecycle.rs.                                        *)
Terminal(status) == status \in {"done", "error", "cancelled"}

MergeIntent(existing, requested) ==
  IF "cancel" \in {existing, requested} THEN "cancel" ELSE "interrupt"

StoppedStatus(intent) == IF intent = "cancel" THEN "cancelled" ELSE "interrupted"

Stopped(record, requested, isActive) ==
  LET merged == MergeIntent(record.intent, requested)
  IN  IF Terminal(record.status)
        THEN record
        ELSE [record EXCEPT !.intent = merged,
                            !.status = IF isActive THEN "cancelling" ELSE StoppedStatus(merged)]

Finalized(record, proposed) ==
  IF Terminal(record.status)
    THEN record
    ELSE [record EXCEPT !.status = IF record.intent = "none" THEN proposed
                                                             ELSE StoppedStatus(record.intent)]

CanStart(status)  == status \in {"pending", "idle", "interrupted", "error"}
CanResume(status) == status \in {"idle", "interrupted", "error"}

(* journal.recover leaves an accepted queue entry alone; whatever else was   *)
(* unfinished ends as its stop intent says, or interrupted.                 *)
Recovered(record) ==
  IF \/ Terminal(record.status)
     \/ record.status = "pending" /\ record.intent = "none"
     \/ record.status \notin {"pending", "running", "cancelling"} /\ record.intent = "none"
    THEN record
    ELSE [record EXCEPT !.status = StoppedStatus(record.intent)]

-------------------------------------------------------------------------------
(* Acceptance of work: create, start/resume, and a session command that      *)
(* needs a run.  The request reads the record under the admission lock,      *)
(* prepares it, and hands it to enqueue.                                     *)
JournalFree(r) == control[r].pc # "ticket"

Fresh == Ticket \ minted

(* Bound: as many acceptances as there are tickets; requests under way have  *)
(* one each.                                                                 *)
Asking == {r \in Runtime : control[r].exec # None /\ control[r].pc # "ticket"}
TicketLeft == Cardinality(Fresh) > Cardinality(Asking)

(* Mutant: start only looks for a run in progress.                           *)
MayAskAgain(e, kind) ==
  /\ active[e] = "none"
  /\ (kind = "create") <=> (journal[e].status = "absent")
  /\ journal[e].status # "pending"

Askable(kind, status) ==
  /\ kind = "create"  => status = "absent"
  /\ kind = "resume"  => status \notin {"absent", "pending", "done", "cancelled"}
  /\ kind = "command" => CanStart(status) /\ status # "pending"

MayAsk(e, kind) ==
  /\ kind # "create" => active[e] = "none"
  /\ Askable(kind, journal[e].status)

RequestAccept(e, kind) ==
  LET r == Owner[e]
  IN  /\ control[r].pc = "idle"
      /\ ~frozen[r]
      /\ MayAsk(e, kind)
      /\ TicketLeft
      /\ control' = [control EXCEPT ![r] =
           [pc |-> IF kind = "command" THEN "cycle" ELSE "accept",
            exec |-> e, kind |-> kind, seen |-> Mark(journal[e]), todo |-> {}]]
      /\ UNCHANGED <<hostVars, journal, frozen, active, wedged, minted>>

NextSequence(r) == 1 + Max({journal[e].sequence : e \in Owned(r)})

(* Mutant: a resumed execution keeps the ticket of its last run.             *)
AcceptedWithOldTicket(record, kind, ticket, sequence) ==
  [status |-> "pending", intent |-> "none",
   ticket |-> IF record.ticket = None THEN ticket ELSE record.ticket,
   sequence |-> sequence, resume |-> kind # "create", command |-> kind = "command"]

(* The record enqueue saves.                                                *)
Accepted(record, kind, ticket, sequence) ==
  [status |-> "pending", intent |-> "none", ticket |-> ticket, sequence |-> sequence,
   resume |-> kind # "create", command |-> kind = "command"]

(* Mutant: the record is not compared with what the request read.            *)
StillAsReadIgnored(r) == TRUE

(* The record is as the request read it.                                     *)
StillAsRead(r) == control[r].seen = Mark(journal[control[r].exec])

(* enqueue_with_command, up to the saved record.  The record may have moved  *)
(* on since the request read it; then nothing is accepted.                   *)
AcceptJournal(r) ==
  LET e == control[r].exec
      t == CHOOSE t \in Fresh : TRUE
  IN  /\ control[r].pc = "accept"
      /\ \/ /\ ~StillAsRead(r)
            /\ control' = [control EXCEPT ![r] = Idle]
            /\ UNCHANGED <<journal, minted>>
         \/ /\ StillAsRead(r)
            /\ journal' = [journal EXCEPT ![e] =
                 Accepted(@, control[r].kind, t, NextSequence(r))]
            /\ minted' = minted \cup {t}
            /\ control' = [control EXCEPT ![r].pc = "ticket"]
      /\ UNCHANGED <<hostVars, frozen, active, wedged>>

(* The second write of enqueue_with_command.  A refused ticket is an error   *)
(* to the caller, with the record already pending.  Create and start go on   *)
(* to dispatch; a command is answered with 202.                              *)
EnqueueTicket(r) ==
  LET e == control[r].exec
      t == journal[e].ticket
  IN  /\ control[r].pc = "ticket"
      /\ \/ /\ HC!Enqueue(t, e, r)
            /\ control' = [control EXCEPT ![r] =
                 IF control[r].kind = "command" THEN Idle ELSE At("cycle")]
         \/ /\ HC!EnqueueOutcome(t, e, r) = "slot_taken"
            /\ control' = [control EXCEPT ![r] = Idle]
            /\ UNCHANGED hostVars
      /\ UNCHANGED <<journal, frozen, active, wedged, minted>>

-------------------------------------------------------------------------------
(* One dispatch cycle (dispatch_locked), run by the scheduler's timer, after *)
(* an acceptance, and before a command is accepted.                          *)
EndCycle(r) ==
  control' = [control EXCEPT ![r] =
    IF control[r].kind = "command" THEN [control[r] EXCEPT !.pc = "accept", !.todo = {}]
                                   ELSE Idle]

CycleFails(r) ==
  /\ wedged' = [wedged EXCEPT ![r] = TRUE]
  /\ control' = [control EXCEPT ![r] = Idle]

(* reconcile_capacity: queued rows whose record no longer waits for them.    *)
Stale(r) ==
  {i \in HC!RuntimeTickets(r) :
     /\ queue[i].phase = "queued"
     /\ LET record == journal[queue[i].execution]
        IN  ~(record.status = "pending" /\ record.ticket = queue[i].ticket)}

BeginCycle(r) ==
  LET waiting == {e \in Owned(r) : journal[e].status = "pending"}
  IN  /\ control[r].pc \in {"idle", "cycle"}
      /\ HC!Retire(Stale(r))
      /\ IF frozen[r] \/ wedged[r] \/ waiting = {}
           THEN EndCycle(r)
           ELSE control' = [control EXCEPT ![r].pc = "entry", ![r].todo = waiting]
      /\ UNCHANGED <<journal, frozen, active, wedged, minted>>

(* Mutant: the newest entry first.                                           *)
NewestEntry(r) == CHOOSE e \in control[r].todo :
                    \A f \in control[r].todo : journal[e].sequence >= journal[f].sequence

(* Entries are tried in the order of acceptance.                             *)
Places(r) == [e \in control[r].todo |-> journal[e].sequence]
Earliest(place) == CHOOSE e \in DOMAIN place : \A f \in DOMAIN place : place[e] <= place[f]
Entry(r) == Earliest(Places(r))

NextEntry(r) ==
  IF control[r].todo = {Entry(r)}
    THEN EndCycle(r)
    ELSE control' = [control EXCEPT ![r].pc = "entry", ![r].todo = @ \ {Entry(r)}]

EntryTicket(r) ==
  LET e == Entry(r)
      t == journal[e].ticket
  IN  /\ control[r].pc = "entry"
      /\ \/ /\ HC!Enqueue(t, e, r)
            /\ control' = [control EXCEPT ![r].pc = "claim"]
            /\ UNCHANGED wedged
         \/ /\ HC!EnqueueOutcome(t, e, r) = "replay"
            /\ control' = [control EXCEPT ![r].pc = "claim"]
            /\ UNCHANGED <<hostVars, wedged>>
         \/ /\ HC!EnqueueOutcome(t, e, r) \in {"conflict", "slot_taken"}
            /\ CycleFails(r)
            /\ UNCHANGED hostVars
      /\ UNCHANGED <<journal, frozen, active, minted>>

(* The first entry that gets no slot ends the cycle.                         *)
ClaimSlot(r) ==
  LET t == journal[Entry(r)].ticket
  IN  /\ control[r].pc = "claim"
      /\ \/ /\ HC!Claim(t, r)
            /\ control' = [control EXCEPT ![r].pc = "launch"]
         \/ /\ ~HC!CanClaim(t, r)
            /\ EndCycle(r)
            /\ UNCHANGED hostVars
      /\ UNCHANGED <<journal, frozen, active, wedged, minted>>

Launchable(record) ==
  \/ record.status = "pending"
  \/ record.resume /\ ~record.command /\ CanResume(record.status)

Started(record) == [record EXCEPT !.status = "running", !.intent = "none"]

(* Under the execution's gate: launch, or give the slot back because the     *)
(* record moved on, or because the session refuses the queued command.       *)
Launch(r) ==
  LET e == Entry(r)
      t == journal[e].ticket
  IN  /\ control[r].pc = "launch"
      /\ \/ /\ Launchable(journal[e])
            /\ journal' = [journal EXCEPT ![e] = Started(@)]
            /\ active' = [active EXCEPT ![e] = "running"]
            /\ UNCHANGED hostVars
         \/ /\ ~Launchable(journal[e])
            /\ HC!Finish(t, r)
            /\ UNCHANGED <<journal, active>>
         \/ /\ journal[e].command /\ journal[e].status = "pending"
            /\ journal' = [journal EXCEPT ![e] = Finalized(@, "error")]
            /\ HC!Finish(t, r)
            /\ UNCHANGED active
      /\ NextEntry(r)
      /\ UNCHANGED <<frozen, wedged, minted>>

-------------------------------------------------------------------------------
(* The spawned task of a run ends: final status, slot, active map.           *)
(* A signalled run has an intent, which decides whatever the run proposes.   *)
Outcome == {"done", "idle", "error"}

(* Mutant: a failed write of the final status goes unnoticed.                *)
FinalizeUnnoticed(e) ==
  /\ active[e] \in {"running", "signalled"}
  /\ JournalFree(Owner[e])
  /\ \/ /\ \E proposed \in Outcome : journal' = [journal EXCEPT ![e] = Finalized(@, proposed)]
        /\ active' = [active EXCEPT ![e] = "finalized"]
     \/ /\ WriteFaults
        /\ active' = [active EXCEPT ![e] = "released"]
        /\ UNCHANGED journal
  /\ UNCHANGED <<hostVars, frozen, control, wedged, minted>>

Finalize(e) ==
  /\ active[e] \in {"running", "signalled"}
  /\ JournalFree(Owner[e])
  /\ \/ /\ \E proposed \in Outcome : journal' = [journal EXCEPT ![e] = Finalized(@, proposed)]
        /\ active' = [active EXCEPT ![e] = "finalized"]
        /\ UNCHANGED wedged
     \/ /\ WriteFaults
        /\ active' = [active EXCEPT ![e] = "released"]
        /\ wedged' = [wedged EXCEPT ![Owner[e]] = TRUE]
        /\ UNCHANGED journal
  /\ UNCHANGED <<hostVars, frozen, control, minted>>

FinishSlot(e) ==
  /\ active[e] = "finalized"
  /\ \/ /\ HC!Finish(journal[e].ticket, Owner[e])
        /\ UNCHANGED wedged
     \/ /\ WriteFaults
        /\ wedged' = [wedged EXCEPT ![Owner[e]] = TRUE]
        /\ UNCHANGED hostVars
  /\ active' = [active EXCEPT ![e] = "released"]
  /\ UNCHANGED <<journal, frozen, control, minted>>

Deactivate(e) ==
  /\ active[e] = "released"
  /\ active' = [active EXCEPT ![e] = "none"]
  /\ UNCHANGED <<hostVars, journal, frozen, control, wedged, minted>>

(* Mutant: stopping a run also frees its slot.                               *)
StopFreesSlot(e, intent) ==
  /\ control[Owner[e]].pc # "down"
  /\ JournalFree(Owner[e])
  /\ active[e] \in {"running", "signalled"}
  /\ journal' = [journal EXCEPT ![e] = Stopped(@, intent, TRUE)]
  /\ active' = [active EXCEPT ![e] = "signalled"]
  /\ HC!Retire({i \in HC!Running : queue[i].ticket = journal[e].ticket})
  /\ UNCHANGED <<frozen, control, wedged, minted>>

(* durable_stop: the intent is durable before the run is signalled.          *)
Stop(e, intent) ==
  /\ control[Owner[e]].pc # "down"
  /\ JournalFree(Owner[e])
  /\ active[e] \in {"none", "running", "signalled"}
  /\ journal[e].status # "absent"
  /\ journal' = [journal EXCEPT ![e] = Stopped(@, intent, active[e] # "none")]
  /\ active' = [active EXCEPT ![e] = IF @ = "running" /\ ~Terminal(journal[e].status)
                                       THEN "signalled" ELSE @]
  /\ UNCHANGED <<hostVars, frozen, control, wedged, minted>>

-------------------------------------------------------------------------------
(* Mutant: freezing does not wait for the admission lock.                    *)
SetFrozenAtOnce(r, value) ==
  /\ Freezes
  /\ control[r].pc # "down"
  /\ frozen' = [frozen EXCEPT ![r] = value]
  /\ UNCHANGED <<hostVars, journal, active, control, wedged, minted>>

(* freeze_admission and reopen_admission take the admission lock.            *)
SetFrozen(r, value) ==
  /\ Freezes
  /\ control[r].pc = "idle"
  /\ frozen' = [frozen EXCEPT ![r] = value]
  /\ UNCHANGED <<hostVars, journal, active, control, wedged, minted>>

Crash(r) ==
  /\ Crashes
  /\ control[r].pc # "down"
  /\ control' = [control EXCEPT ![r] = At("down")]
  /\ active' = [e \in Execution |-> IF Owner[e] = r THEN "none" ELSE active[e]]
  /\ wedged' = [wedged EXCEPT ![r] = FALSE]
  /\ UNCHANGED <<hostVars, journal, frozen, minted>>

(* Mutant: a restart releases the slots of every runtime on the host.        *)
RestartReleasesAll(r) ==
  /\ control[r].pc = "down"
  /\ journal' = [e \in Execution |-> IF Owner[e] = r THEN Recovered(journal[e]) ELSE journal[e]]
  /\ HC!Retire(HC!Running)
  /\ control' = [control EXCEPT ![r] = Idle]
  /\ UNCHANGED <<frozen, active, wedged, minted>>

(* Worker::open: journal.recover, then the runtime's own running rows are    *)
(* released, once no process of the dead runtime is left.                    *)
Restart(r) ==
  /\ control[r].pc = "down"
  /\ journal' = [e \in Execution |-> IF Owner[e] = r THEN Recovered(journal[e]) ELSE journal[e]]
  /\ HC!Retire({i \in HC!RuntimeTickets(r) : queue[i].phase = "running"})
  /\ control' = [control EXCEPT ![r] = Idle]
  /\ UNCHANGED <<frozen, active, wedged, minted>>

-------------------------------------------------------------------------------
Admission(r) ==
  \/ AcceptJournal(r)
  \/ EnqueueTicket(r)
  \/ BeginCycle(r)
  \/ EntryTicket(r)
  \/ ClaimSlot(r)
  \/ Launch(r)

Ending(e) == Finalize(e) \/ FinishSlot(e) \/ Deactivate(e)

Next ==
  \/ \E e \in Execution :
       \/ \E kind \in Kind : RequestAccept(e, kind)
       \/ \E intent \in Stops : Stop(e, intent)
       \/ Ending(e)
  \/ \E r \in Runtime :
       \/ Admission(r)
       \/ \E value \in BOOLEAN : SetFrozen(r, value)
       \/ Crash(r)
       \/ Restart(r)

Spec == Init /\ [][Next]_vars

(* The scheduler loop runs on its timer, a lock holder goes on, a run ends,  *)
(* and a service manager restarts a dead runtime.  Nobody has to ask, stop,  *)
(* freeze or crash.                                                          *)
Fairness ==
  /\ \A r \in Runtime : WF_vars(Admission(r)) /\ WF_vars(Restart(r))
  /\ \A e \in Execution : WF_vars(Ending(e))

FairSpec == Spec /\ Fairness

-------------------------------------------------------------------------------
Running(e) == active[e] \in {"running", "signalled", "finalized"}

(* A run holds a host slot of its own runtime from before it starts until    *)
(* its final status is durable: no slot is handed on under a live run.       *)
HoldsSlot(e) ==
  \E i \in HC!Running : /\ queue[i].ticket = journal[e].ticket
                        /\ queue[i].execution = e
                        /\ queue[i].runtime = Owner[e]
ActiveHoldsSlot == \A e \in Execution : Running(e) => HoldsSlot(e)

(* A slot is never lost: a running row of a live, healthy runtime belongs to *)
(* a run or to the entry its dispatcher is launching right now.              *)
NoLeakedSlot ==
  \A i \in HC!Running :
    LET e == queue[i].execution
        r == queue[i].runtime
    IN  (control[r].pc # "down" /\ ~wedged[r]) =>
          /\ queue[i].ticket = journal[e].ticket
          /\ Running(e) \/ (control[r].pc = "launch" /\ e = Entry(r))

(* All runtimes of the host together never run more than its capacity, also  *)
(* while crashed runtimes come back.                                         *)
RunsBounded == Cardinality({e \in Execution : Running(e)}) <= maxRuns

(* done and cancelled are final (error is too, but can be resumed).          *)
FinalStaysFinal ==
  [][\A e \in Execution : journal[e].status \in {"done", "cancelled"} =>
       journal'[e].status = journal[e].status]_vars

(* A cancel, once durable, wins over interrupts, resumes, late completions   *)
(* and restarts: the execution never runs again.  A runtime whose last write *)
(* failed is excepted: it lets a record that is still cancelling be resumed. *)
CancelNotLost ==
  [][\A e \in Execution : journal[e].intent = "cancel" /\ ~wedged[Owner[e]] =>
       /\ journal'[e].intent = "cancel"
       /\ journal'[e].status \in {"cancelling", "cancelled"}]_vars

(* Once admission is frozen, no request and no cycle that was under way      *)
(* accepts or starts anything: what a drain then finds is all it has to end. *)
FrozenAdmitsNothing ==
  [][\A e \in Execution : frozen[Owner[e]] =>
       /\ active[e] = "none" => active'[e] = "none"
       /\ journal'[e].status = "pending" => journal[e].status = "pending"]_vars

(* All runtimes of a machine together, with their journals, crashes and      *)
(* restarts, use the host's slots as AdmissionSlots promises them.           *)
Slots == INSTANCE AdmissionSlots WITH
           slots    <- maxRuns,
           arrivals <- [i \in DOMAIN queue |-> queue[i].execution],
           waiting  <- HC!Queued,
           admitted <- HC!Running

ImplementsSlots == Slots!Spec

(* A record that waits in the queue has a ticket that can still get a slot.  *)
PendingCanClaim ==
  \A e \in Execution : journal[e].status = "pending" =>
    ~\E i \in DOMAIN queue : queue[i].ticket = journal[e].ticket /\ queue[i].phase = "done"

(* Accepted work leaves the queue: it starts or it is stopped.               *)
QueuedEventuallyLeaves ==
  \A e \in Execution : (journal[e].status = "pending") ~> (journal[e].status # "pending")

-------------------------------------------------------------------------------
(* The inductive invariant behind the safety properties.                    *)

(* A ticket is left for every request under way.                            *)
Counted ==
  /\ Cardinality(Fresh) >= Cardinality(Asking)
  /\ \A e \in Execution : journal[e].sequence <= Cardinality(minted)

(* Records have tickets of their own, and a row is of the record whose       *)
(* ticket it carries, on the runtime that owns it.                          *)
TicketsApart ==
  /\ \A e \in Execution :
       /\ journal[e].status = "absent" <=> journal[e].ticket = None
       /\ journal[e].status = "absent" => journal[e].intent = "none"
       /\ journal[e].ticket \in minted \cup {None}
  /\ \A e, f \in Execution : journal[e].ticket = journal[f].ticket => e = f \/ journal[e].ticket = None
  /\ \A i \in DOMAIN queue :
       /\ queue[i].ticket \in minted
       /\ queue[i].runtime = Owner[queue[i].execution]
       /\ \A e \in Execution : queue[i].ticket = journal[e].ticket => queue[i].execution = e

SlotsBounded == maxRuns \in Nat /\ Cardinality(HC!Running) <= maxRuns

(* Nobody starts or queues what a request is about to accept.                *)
RequestStands(r) ==
  LET c == control[r]
  IN  /\ c.kind = None <=> c.exec = None
      /\ c.pc \in {"accept", "ticket"} => c.exec # None
      /\ c.pc \in {"idle", "down"} => c.exec = None
      /\ c.exec # None =>
           /\ Owner[c.exec] = r /\ active[c.exec] = "none" /\ c.exec \notin c.todo
           /\ c.pc = "ticket" <=> journal[c.exec].status = "pending"
           /\ Askable(c.kind, c.seen[1])

(* What a cycle still has to try was accepted and does not run.              *)
TodoWaits(r) ==
  /\ control[r].todo # {} <=> control[r].pc \in {"entry", "claim", "launch"}
  /\ \A e \in control[r].todo :
       Owner[e] = r /\ active[e] = "none" /\ journal[e].status # "absent"

TasksFollow(r) ==
  \A e \in Owned(r) : active[e] # "none" =>
    journal[e].status \notin {"absent", "pending"} /\ control[r].pc # "down"

Launching(e) == control[Owner[e]].pc = "launch" /\ e = Entry(Owner[e])
SlotsHeld(r) == \A e \in Owned(r) : Running(e) \/ Launching(e) => HoldsSlot(e)

SlotsUsed(r) ==
  \A i \in HC!Running :
    LET e == queue[i].execution
    IN  (queue[i].runtime = r /\ control[r].pc # "down" /\ ~wedged[r]) =>
          queue[i].ticket = journal[e].ticket /\ (Running(e) \/ Launching(e))

(* A cancelled record that is not settled yet is that of a run, or of a     *)
(* runtime that is dead or cannot write.                                    *)
CancelSettles(r) ==
  \A e \in Owned(r) : journal[e].intent = "cancel" =>
    /\ journal[e].status \in {"cancelling", "cancelled"}
    /\ journal[e].status = "cancelling" =>
         active[e] \in {"running", "signalled"} \/ wedged[r] \/ control[r].pc = "down"

(* A crash between the claim of a slot and the launch is all that can use up *)
(* the ticket of a record that waits.                                       *)
TicketsLive(r) ==
  ~Crashes =>
    /\ control[r].pc # "down"
    /\ \A e \in Owned(r) : journal[e].status = "pending" =>
         ~\E i \in DOMAIN queue : queue[i].ticket = journal[e].ticket /\ queue[i].phase = "done"

Sound(r) ==
  /\ RequestStands(r) /\ TodoWaits(r) /\ TasksFollow(r)
  /\ SlotsHeld(r) /\ SlotsUsed(r) /\ CancelSettles(r) /\ TicketsLive(r)

IInv ==
  /\ TypeOK /\ HC!IInv /\ Counted /\ TicketsApart /\ SlotsBounded
  /\ \A r \in Runtime : Sound(r)

(* Who freezes admission holds its lock: no request or cycle is under way.   *)
FrozenRests(r) == frozen[r] => control[r].pc \in {"idle", "down"}
FInv == IInv /\ \A r \in Runtime : FrozenRests(r)
===============================================================================
