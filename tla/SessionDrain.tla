---------------------------- MODULE SessionDrain ----------------------------
(***************************************************************************)
(* How the inputs of one session reach its transcript: the durable rows of *)
(* admitted inputs, the web server's admission with its drain task and its *)
(* watchers, and the turn loop that claims, applies and marks the rows.    *)
(*                                                                         *)
(* An input is a steer (absorbed before the next turn, and it interrupts   *)
(* the running one) or a queued follow-up (popped one at a time when the   *)
(* session is idle).  Either may be a bare control command, which changes  *)
(* the session and calls no model.                                         *)
(*                                                                         *)
(* Modelled: admission and its stable-id retry under the session lock, the *)
(* start and the end of a drain, watchers that restart one, promotion and  *)
(* marking of rows, the cancel checks and where they stand, turns that     *)
(* answer, call tools, fail or are interrupted, hard interrupts, deletion  *)
(* of a pending row, and a crash that keeps only rows and transcript.      *)
(* Left out: active skills, the clear-context command and the Codex        *)
(* harness (they change what is said, not which row is taken), reordering  *)
(* of rows, and failing reads and writes other than those named here.      *)
(***************************************************************************)
EXTENDS Naturals, FiniteSets, SequencesExt

CONSTANTS
    Steers, Queues,   \* the inputs of each delivery
    Commands,         \* those of either that are bare control commands
    None,
    MaxStreak,        \* 32 in the code
    MaxRechecks,      \* 3 in the code
    ToolTurns,        \* bound: turns that call tools
    Upsets,           \* bound: interrupts and failures
    Crashes,          \* bound: crashes of the server process
    Deletes           \* bound: rows deleted by the user

Inputs == Steers \cup Queues

ASSUME DrainAssumption ==
    /\ IsFiniteSet(Inputs) /\ Steers \cap Queues = {} /\ Commands \subseteq Inputs
    /\ None \notin Inputs \X BOOLEAN
    /\ MaxStreak \in Nat \ {0}
    /\ {MaxRechecks, ToolTurns, Upsets, Crashes, Deletes} \subseteq Nat

VARIABLES
    mark,       \* durable: state of each input's row
    adm,        \* durable: admitted_seq of each row
    effects,    \* durable: inputs recorded or applied, in order
    owed,       \* durable: the transcript ends with a user or tool message
    draining,   \* a drain task owns the session
    cancel,     \* the handle's hard-cancel token has fired
    turn,       \* the handle's turn-cancel token has fired
    admitting,  \* admission that holds the session lock: <<input, inserted>> or None
    watch,      \* watcher task of each admission: "none", "polling" or "woken"
    run,        \* the drain task: program counter and locals
    tools, upsets, crashes  \* counters of the bounds

durable == <<mark, adm, effects, owed>>
handle == <<draining, cancel, turn, admitting, watch>>
counters == <<tools, upsets, crashes>>
vars == <<durable, handle, run, counters>>

Pcs == {"idle", "fresh", "entry", "top", "steers", "promote", "steer", "marks",
        "claim", "guard", "qmark", "peekSteers", "peekQueues",
        "llm", "late", "tools", "after", "teardown"}

NoRun == [pc |-> "idle", read |-> {}, batch |-> <<>>, mode |-> "drain", drain |-> FALSE,
          skip |-> FALSE, recorded |-> FALSE, streak |-> 0, rechecks |-> 0, ended |-> "none"]

At(pc) == run.pc = pc
Go(pc) == run' = [run EXCEPT !.pc = pc]

\* The session lock is held by an admission, and by whoever is starting a drain.
Unlocked == admitting = None /\ ~At("fresh")

Pending(S) == {i \in S : mark[i] = "pending"}
Rows == {i \in Inputs : mark[i] \notin {"none", "deleted"}}

\* Mutant: rows come in the order of storage.
OfStorage(S) == SetToSeq(S)

\* rows_of sorts by admitted_seq.
InOrder(S) ==
    CHOOSE s \in [1 .. Cardinality(S) -> S] :
        ToSet(s) = S /\ \A m, n \in DOMAIN s : m < n => adm[s[m]] < adm[s[n]]
NextAdmittedSeq == 1 + Max({adm[i] : i \in Rows} \cup {0})

\* Mutant: consumed rows are recovered too.
ResetAll(S) ==
    [i \in Inputs |-> IF i \in S /\ mark[i] \in {"promoted", "recorded"} THEN "pending" ELSE mark[i]]

\* unpromote and recover_orphans: a promoted row that is not yet marked is pending again.
Reset(S) == [i \in Inputs |-> IF i \in S /\ mark[i] = "promoted" THEN "pending" ELSE mark[i]]

Upset == upsets < Upsets /\ upsets' = upsets + 1 /\ UNCHANGED <<tools, crashes>>

Init ==
    /\ mark = [i \in Inputs |-> "none"]
    /\ adm = [i \in Inputs |-> 0]
    /\ effects = <<>>
    /\ owed = FALSE
    /\ draining = FALSE
    /\ cancel = FALSE
    /\ turn = FALSE
    /\ admitting = None
    /\ watch = [i \in Inputs |-> "none"]
    /\ run = NoRun
    /\ tools = 0 /\ upsets = 0 /\ crashes = 0

-----------------------------------------------------------------------------
(* The web server: admission, watchers, interrupt, deletion.               *)

\* The row is written under the session lock; the drain task does not take that lock.
AdmitRow(i) ==
    /\ Unlocked
    /\ mark[i] = "none"
    /\ mark' = [mark EXCEPT ![i] = "pending"]
    /\ adm' = [adm EXCEPT ![i] = NextAdmittedSeq]
    /\ admitting' = <<i, TRUE>>
    /\ UNCHANGED <<effects, owed, draining, cancel, turn, watch, run, counters>>

\* A repeated POST with the same input id finds its row; only a pending one needs a drain.
AdmitAgain(i) ==
    /\ Unlocked
    /\ mark[i] = "pending"
    /\ admitting' = <<i, FALSE>>
    /\ UNCHANGED <<durable, draining, cancel, turn, watch, run, counters>>

\* start_drain_locked takes the session over ...
BeginDrain == draining' = TRUE /\ run' = [NoRun EXCEPT !.pc = "fresh"]

\* Mutant: only a steer leaves a watcher behind.
AdmitDriveUnwatched ==
    /\ admitting # None
    /\ admitting' = None
    /\ \/ /\ ~draining
          /\ BeginDrain
          /\ UNCHANGED <<turn, watch>>
       \/ /\ draining
          /\ watch' = [watch EXCEPT ![admitting[1]] = IF admitting[1] \in Steers THEN "polling" ELSE @]
          /\ turn' = (turn \/ (admitting[2] /\ admitting[1] \in Steers))
          /\ UNCHANGED <<draining, run>>
    /\ UNCHANGED <<durable, cancel, counters>>

\* ... or, when a drain runs already, the steer interrupts its turn and a watcher is left behind.
AdmitDrive ==
    /\ admitting # None
    /\ admitting' = None
    /\ \/ /\ ~draining
          /\ BeginDrain
          /\ UNCHANGED <<turn, watch>>
       \/ /\ draining
          /\ watch' = [watch EXCEPT ![admitting[1]] = "polling"]
          /\ turn' = (turn \/ (admitting[2] /\ admitting[1] \in Steers))
          /\ UNCHANGED <<draining, run>>
    /\ UNCHANGED <<durable, cancel, counters>>

\* The tokens are replaced after the flag was set: an interrupt in between hits the old one.
FreshTokens ==
    /\ At("fresh")
    /\ Go("entry")
    /\ cancel' = FALSE
    /\ turn' = FALSE
    /\ UNCHANGED <<durable, draining, admitting, watch, counters>>

WatcherWakes(i) ==
    /\ watch[i] = "polling"
    /\ ~draining
    /\ watch' = [watch EXCEPT ![i] = "woken"]
    /\ UNCHANGED <<durable, draining, cancel, turn, admitting, run, counters>>

\* A watcher gives up after ten minutes of polling; only a turn lasts that long.
WatcherGivesUp(i) ==
    /\ watch[i] = "polling"
    /\ draining /\ run.pc \in {"llm", "tools"}
    /\ watch' = [watch EXCEPT ![i] = "none"]
    /\ UNCHANGED <<durable, draining, cancel, turn, admitting, run, counters>>

\* Mutant: only one of the two deliveries is looked at.
WatcherSeesQueue(i) ==
    /\ watch[i] = "woken"
    /\ Unlocked
    /\ watch' = [watch EXCEPT ![i] = "none"]
    /\ IF ~draining /\ Pending(Queues) # {} /\ ~cancel
       THEN BeginDrain
       ELSE UNCHANGED <<draining, run>>
    /\ UNCHANGED <<durable, cancel, turn, admitting, counters>>

\* Under the session lock: restart unless a drain runs, nothing is pending, or a hard interrupt won.
WatcherDecides(i) ==
    /\ watch[i] = "woken"
    /\ Unlocked
    /\ watch' = [watch EXCEPT ![i] = "none"]
    /\ IF ~draining /\ Pending(Inputs) # {} /\ ~cancel
       THEN BeginDrain
       ELSE UNCHANGED <<draining, run>>
    /\ UNCHANGED <<durable, cancel, turn, admitting, counters>>

Interrupt ==
    /\ draining
    /\ ~cancel
    /\ cancel' = TRUE
    /\ Upset
    /\ UNCHANGED <<durable, draining, turn, admitting, watch, run>>

\* Only a pending row is removed; its place in the order may be given out again.
DeleteInput(i) ==
    /\ mark[i] = "pending"
    /\ Cardinality({j \in Inputs : mark[j] = "deleted"}) < Deletes
    /\ mark' = [mark EXCEPT ![i] = "deleted"]
    /\ UNCHANGED <<adm, effects, owed, handle, run, counters>>

Crash ==
    /\ crashes < Crashes
    /\ crashes' = crashes + 1
    /\ draining' = FALSE /\ cancel' = FALSE /\ turn' = FALSE
    /\ admitting' = None
    /\ watch' = [i \in Inputs |-> "none"]
    /\ run' = NoRun
    /\ UNCHANGED <<durable, tools, upsets>>

-----------------------------------------------------------------------------
(* The drain task: entry, turn boundary, steers.                           *)

End(how) == run' = [run EXCEPT !.pc = IF how = "error" THEN "teardown" ELSE "after",
                               !.ended = how, !.batch = <<>>]
Top(skip) == run' = [run EXCEPT !.pc = "top", !.skip = skip, !.batch = <<>>]

ResumeFails ==
    /\ At("entry")
    /\ Upset
    /\ draining' = FALSE
    /\ run' = [run EXCEPT !.pc = "idle", !.ended = "error"]
    /\ UNCHANGED <<durable, cancel, turn, admitting, watch>>

\* recover_orphaned_inputs, then drain mode: the prompt of a web drain is empty.
Entry ==
    /\ At("entry")
    /\ mark' = Reset(Inputs)
    /\ run' = [run EXCEPT !.pc = "top", !.drain = TRUE]
    /\ UNCHANGED <<adm, effects, owed, handle, counters>>

LoopTop ==
    /\ At("top")
    /\ IF cancel THEN End("cancel") ELSE Go("steers")
    /\ UNCHANGED <<durable, handle, counters>>

\* Where the loop goes when no steer was claimed.
WithoutSteers ==
    IF run.drain THEN [run EXCEPT !.pc = "claim", !.mode = "drain"]
    ELSE IF run.skip THEN [run EXCEPT !.pc = "claim", !.mode = "idle"]
    ELSE [run EXCEPT !.pc = "llm"]

\* claim_steers: the read gives way to the cancel token, the promotion below does not.
ReadSteers ==
    /\ At("steers")
    /\ LET seen == IF cancel THEN {} ELSE Pending(Steers)
       IN run' = IF seen = {} THEN WithoutSteers
                 ELSE [run EXCEPT !.pc = "promote", !.read = seen]
    /\ UNCHANGED <<durable, handle, counters>>

\* Everything up to the largest order read is promoted, and only what was read is claimed.
PromoteSteers ==
    /\ At("promote")
    /\ LET upTo == Max({adm[i] : i \in run.read})
           promoted == {i \in Pending(Steers) : adm[i] <= upTo}
           claimed == InOrder(promoted \cap run.read)
       IN /\ mark' = [i \in Inputs |-> IF i \in promoted THEN "promoted" ELSE mark[i]]
          /\ run' = IF claimed = <<>> THEN [WithoutSteers EXCEPT !.read = {}]
                    ELSE [run EXCEPT !.pc = "steer", !.batch = claimed, !.read = {},
                                     !.recorded = FALSE, !.streak = 0]
    /\ UNCHANGED <<adm, effects, owed, handle, counters>>

\* A prompt becomes a user message, a bare command is applied.
Take(i) ==
    /\ effects' = Append(effects, i)
    /\ owed' = (owed \/ i \notin Commands)

\* Mutant: only the current item is put back, not the rest of the batch.
PutBackHead ==
    /\ mark' = Reset({Head(run.batch)})
    /\ UNCHANGED <<effects, owed>>

PutBack ==
    /\ mark' = Reset(ToSet(run.batch))
    /\ UNCHANGED <<effects, owed>>

\* Before each steer: a hard cancel puts it and the rest of the batch back.
ApplySteer ==
    /\ At("steer")
    /\ IF cancel
       THEN PutBack /\ End("cancel")
       ELSE /\ Take(Head(run.batch))
            /\ run' = [run EXCEPT !.pc = "marks",
                                  !.recorded = @ \/ Head(run.batch) \notin Commands]
            /\ UNCHANGED mark
    /\ UNCHANGED <<adm, handle, counters>>

\* A command that cannot be applied puts itself and the rest back and ends the run.
ApplyFails ==
    /\ At("steer") \/ At("guard")
    /\ ~cancel
    /\ Head(run.batch) \in Commands
    /\ Upset
    /\ PutBack
    /\ End("error")
    /\ UNCHANGED <<adm, handle>>

\* Mutant: the batch is marked as a whole when its first item is applied.
MarkBatch == mark' = [i \in Inputs |-> IF i \in ToSet(run.batch) THEN "recorded" ELSE mark[i]]

MarkHead == mark' = [mark EXCEPT ![Head(run.batch)] = "recorded"]

\* A batch of commands only ends the run without a turn.
MarkSteer ==
    /\ At("marks")
    /\ MarkHead
    /\ IF Len(run.batch) > 1 THEN run' = [run EXCEPT !.pc = "steer", !.batch = Tail(@)]
       ELSE IF run.recorded THEN run' = [run EXCEPT !.pc = "llm", !.batch = <<>>]
       ELSE End("command")
    /\ UNCHANGED <<adm, effects, owed, handle, counters>>

-----------------------------------------------------------------------------
(* The drain task: one queued input at a time, and the idle boundary.      *)

\* Drain mode consumes again, with a cap on the number of times in a row.
ConsumeNext ==
    IF run.streak + 1 >= MaxStreak
    THEN End("cap")
    ELSE run' = [run EXCEPT !.pc = "top", !.skip = FALSE, !.streak = @ + 1, !.batch = <<>>]

\* Mutant: a drain that finds nothing always stops.
StopAlways == End("done")

\* Nothing left: a drain still answers a transcript that ends with a question.
Stop ==
    IF run.mode = "drain" /\ owed
    THEN run' = [run EXCEPT !.pc = "llm", !.drain = FALSE, !.streak = 0, !.batch = <<>>]
    ELSE End("done")

\* An empty pop looks again for late arrivals, except in the second pop of an idle boundary.
NothingPopped ==
    IF run.mode = "again" THEN Stop
    ELSE run' = [run EXCEPT !.pc = "peekSteers", !.batch = <<>>]

\* claim_next_queue: the oldest pending row, promoted in the same transaction.
ClaimQueued ==
    /\ At("claim")
    /\ IF Pending(Queues) = {}
       THEN NothingPopped /\ mark' = mark
       ELSE LET i == Head(InOrder(Pending(Queues)))
            IN /\ mark' = [mark EXCEPT ![i] = "promoted"]
               /\ run' = [run EXCEPT !.pc = "guard", !.batch = <<i>>]
    /\ UNCHANGED <<adm, effects, owed, handle, counters>>

\* Both attempts at the claim fail: reported, and treated as an empty queue.
ClaimFails ==
    /\ At("claim")
    /\ Pending(Queues) # {}
    /\ Upset
    /\ NothingPopped
    /\ UNCHANGED <<durable, handle>>

\* The hard cancel is looked at between the claim and the effect.
ApplyQueued ==
    /\ At("guard")
    /\ IF cancel
       THEN PutBack /\ NothingPopped
       ELSE Take(Head(run.batch)) /\ Go("qmark") /\ UNCHANGED mark
    /\ UNCHANGED <<adm, handle, counters>>

MarkQueued ==
    /\ At("qmark")
    /\ MarkHead
    /\ LET command == Head(run.batch) \in Commands IN
       CASE run.mode = "drain" /\ command -> ConsumeNext
         [] run.mode = "drain" /\ ~command ->
              run' = [run EXCEPT !.pc = "llm", !.drain = FALSE, !.streak = 0, !.batch = <<>>]
         [] OTHER -> Top(command)
    /\ UNCHANGED <<adm, effects, owed, handle, counters>>

\* has_pending_steers and has_pending_queues: reads that give way to the cancel token.
PeekSteers ==
    /\ At("peekSteers")
    /\ IF cancel \/ Pending(Steers) = {} THEN Go("peekQueues")
       ELSE IF run.mode = "drain" THEN ConsumeNext ELSE Top(FALSE)
    /\ UNCHANGED <<durable, handle, counters>>

PeekQueues ==
    /\ At("peekQueues")
    /\ IF cancel \/ Pending(Queues) = {} THEN Stop
       ELSE IF run.mode = "drain" THEN ConsumeNext
       ELSE run' = [run EXCEPT !.pc = "claim", !.mode = "again"]
    /\ UNCHANGED <<durable, handle, counters>>

-----------------------------------------------------------------------------
(* The drain task: the turn, and the end of the run.                       *)

TurnFails ==
    /\ run.pc \in {"llm", "tools"}
    /\ Upset
    /\ End("error")
    /\ UNCHANGED <<durable, handle>>

\* Mutant: the turn token is not replaced.
TurnStaysInterrupted ==
    /\ run.pc \in {"llm", "late"}
    /\ turn
    /\ Top(FALSE)
    /\ UNCHANGED <<durable, handle, counters>>

\* A steer interrupted the call: its partial answer is dropped and the loop goes on.
TurnInterrupted ==
    /\ run.pc \in {"llm", "late"}
    /\ turn
    /\ turn' = FALSE
    /\ Top(FALSE)
    /\ UNCHANGED <<durable, draining, cancel, admitting, watch, counters>>

TurnCancelled ==
    /\ At("llm")
    /\ cancel /\ ~turn
    /\ End("cancel")
    /\ UNCHANGED <<durable, handle, counters>>

Answer ==
    /\ At("llm")
    /\ ~cancel /\ ~turn
    /\ owed' = FALSE
    /\ Go("late")
    /\ UNCHANGED <<mark, adm, effects, handle, counters>>

CallTools ==
    /\ At("llm")
    /\ ~cancel /\ ~turn
    /\ tools < ToolTurns
    /\ tools' = tools + 1
    /\ owed' = TRUE
    /\ Go("tools")
    /\ UNCHANGED <<mark, adm, effects, handle, upsets, crashes>>

\* The results are recorded whatever interrupted them; a missing one is made up at the next entry.
ToolsDone ==
    /\ At("tools")
    /\ turn' = FALSE
    /\ IF cancel THEN End("cancel") ELSE Top(FALSE)
    /\ UNCHANGED <<durable, draining, cancel, admitting, watch, counters>>

IdleBoundary ==
    /\ At("late")
    /\ ~turn
    /\ run' = [run EXCEPT !.pc = "claim", !.mode = "idle"]
    /\ UNCHANGED <<durable, handle, counters>>

\* reabsorb_tail: a run that ended well looks a bounded number of times for late arrivals.
Reabsorb ==
    /\ At("after")
    /\ run' = IF run.rechecks < MaxRechecks /\ ~cancel /\ Pending(Inputs) # {}
              THEN [NoRun EXCEPT !.pc = "top", !.drain = TRUE, !.rechecks = run.rechecks + 1]
              ELSE [run EXCEPT !.pc = "teardown"]
    /\ UNCHANGED <<durable, handle, counters>>

\* Commands, title and event flush, and only then the flag.
Teardown ==
    /\ At("teardown")
    /\ draining' = FALSE
    /\ run' = [run EXCEPT !.pc = "idle"]
    /\ UNCHANGED <<durable, cancel, turn, admitting, watch, counters>>

-----------------------------------------------------------------------------
DrainTask ==
    \/ FreshTokens \/ Entry \/ LoopTop \/ ReadSteers \/ PromoteSteers
    \/ ApplySteer \/ MarkSteer
    \/ ClaimQueued \/ ApplyQueued \/ MarkQueued \/ PeekSteers \/ PeekQueues
    \/ TurnInterrupted \/ TurnCancelled \/ Answer \/ CallTools \/ ToolsDone \/ IdleBoundary
    \/ Reabsorb \/ Teardown

Failure == ResumeFails \/ ApplyFails \/ ClaimFails \/ TurnFails \/ Interrupt \/ Crash

Next ==
    \/ \E i \in Inputs : \/ AdmitRow(i) \/ AdmitAgain(i) \/ DeleteInput(i)
                         \/ WatcherWakes(i) \/ WatcherGivesUp(i) \/ WatcherDecides(i)
    \/ AdmitDrive
    \/ DrainTask
    \/ Failure

\* Spawned tasks run on: the drain, the admission that holds the lock, and the watchers, whose
\* loop and whose wait for the fair session lock end.
Fairness ==
    /\ WF_vars(DrainTask)
    /\ WF_vars(AdmitDrive)
    /\ \A i \in Inputs : WF_vars(WatcherWakes(i)) /\ SF_vars(WatcherDecides(i))

Spec == Init /\ [][Next]_vars
FairSpec == Spec /\ Fairness
-----------------------------------------------------------------------------
(* Properties.                                                             *)

Run == [pc : Pcs, read : SUBSET Steers, batch : Seq(Inputs), mode : {"drain", "idle", "again"},
        drain : BOOLEAN, skip : BOOLEAN, recorded : BOOLEAN,
        streak : 0 .. MaxStreak, rechecks : 0 .. MaxRechecks,
        ended : {"none", "done", "command", "cap", "cancel", "error"}]

TypeOK ==
    /\ mark \in [Inputs -> {"none", "pending", "promoted", "recorded", "deleted"}]
    /\ adm \in [Inputs -> Nat]
    /\ effects \in Seq(Inputs)
    /\ {owed, draining, cancel, turn} \subseteq BOOLEAN
    /\ admitting \in (Inputs \X BOOLEAN) \cup {None}
    /\ watch \in [Inputs -> {"none", "polling", "woken"}]
    /\ run \in Run
    /\ tools \in 0 .. ToolTurns /\ upsets \in 0 .. Upsets /\ crashes \in 0 .. Crashes
    /\ draining <=> ~At("idle")

\* What is marked as consumed is in the transcript: no input is lost between its promotion and
\* its mark, whatever crashes or is cancelled in between.
MarkedIsInTranscript == \A i \in Inputs : mark[i] = "recorded" => i \in ToSet(effects)

\* A promoted row is invisible to every poll, so while a run is in its loop only the rows it
\* holds may be promoted and unmarked: every path that drops one puts it back first.
PromotedIsHeld ==
    run.pc \in Pcs \ {"idle", "fresh", "entry"} =>
        \A i \in Inputs : mark[i] = "promoted" => i \in ToSet(run.batch)

\* Inputs of one delivery take effect in the order of their admission: claims that are undone
\* by a cancel, a failure or a crash do not let a later input overtake.
InAdmissionOrder ==
    \A S \in {Steers, Queues} : \A i \in S \cap Rows, j \in S :
        (j \in ToSet(effects) /\ mark[j] # "none" /\ adm[i] < adm[j]) => i \in ToSet(effects)

\* An input takes effect again only if a crash hit between its effect and its mark.
RepeatedOnlyByCrash ==
    \A i \in Inputs : Cardinality({n \in DOMAIN effects : effects[n] = i}) <= 1 + crashes

\* A run that stops because nothing is left leaves no user message and no tool result
\* unanswered.
IdleMeansAnswered == run.ended = "done" => ~owed

\* A run that found nothing left, and was not interrupted, leaves no input behind that came
\* after its last look: the admission of each is still under way or left a watcher. A steer is
\* never left behind, a queued input only by a claim that failed.
Attends(i) == watch[i] # "none" \/ (admitting # None /\ admitting[1] = i)
NothingStranded ==
    (At("idle") /\ run.ended = "done" /\ ~cancel) =>
        \A i \in Pending(Inputs) : (i \in Steers \/ upsets = 0) => Attends(i)

\* Once no failure, interrupt or crash is left to happen, every input that waits takes effect or
\* is deleted if a run, an admission or a watcher is under way: no interleaving of an admission
\* with the end of a run strands one.
DrainGoes == draining /\ run.ended # "error"
Attended ==
    \/ DrainGoes
    \/ admitting # None
    \/ \E i \in Inputs : watch[i] = "polling" \/ (watch[i] = "woken" /\ ~draining)
Waiting(i) == (mark[i] = "pending" /\ Attended) \/ (mark[i] = "promoted" /\ DrainGoes)
Quiet == upsets = Upsets /\ crashes = Crashes
PendingServed ==
    \A i \in Inputs :
        (Waiting(i) /\ ~cancel /\ Quiet) ~> mark[i] \in {"recorded", "deleted"}

\* Every run ends: no mixture of late arrivals and commands keeps a drain going for ever.
RunEnds == draining ~> ~draining
=============================================================================
