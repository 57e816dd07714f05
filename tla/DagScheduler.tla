---------------------------- MODULE DagScheduler ----------------------------
(***************************************************************************)
(* The scheduler of one DAG run: which step starts when, what is written   *)
(* when it ends, how an operator holds, resumes, retries or fails a step,  *)
(* and how a resumed run finds its way from the files of the last one.     *)
(*                                                                         *)
(* The scheduler is one task, so a pass of its loop is interrupted only by *)
(* a crash; executors, the operator's commands and a stop of the execution *)
(* come in where it waits.  A pass polls the command mailbox, cancels what *)
(* a stop forbids, fills the free slots, fails what can no longer run, and *)
(* waits for a completion, a command or the stop.                          *)
(*                                                                         *)
(* Modelled: static steps with both trigger rules, the limit, operator     *)
(* recovery with its rows, commands and receipts, the archive of attempts, *)
(* cancellation and finalizers, failing runs, crash, interrupt and resume. *)
(* Left out: dynamic groups, what steps compute and log, failing writes,   *)
(* and the round-robin cursor (any startable step may be taken).           *)
(***************************************************************************)
EXTENDS Naturals, FiniteSets

CONSTANTS
    Steps, Operator,  \* the steps, and those with recovery_policy operator
    AllDone,          \* those with trigger rule all_done: finalizers
    DependsOn,        \* [Steps -> SUBSET Steps]
    MaxConcurrency,
    None,
    Actions,          \* the actions the operator uses
    MaxOps,           \* bound: commands of the operator
    Stops, Restarts   \* bounds: stops of the execution; crashes and resumes

Ops == 1 .. MaxOps  \* operation ids, in the order of submission
Request == [step : Operator, action : Actions, attempt : Nat]
Phases == {"pending", "running", "paused", "waiting", "done", "error", "cancelled"}
Held == {"paused", "waiting"}
Terminal == {"done", "error", "cancelled"}

ASSUME DagAssumption ==
    /\ IsFiniteSet(Steps) /\ Operator \subseteq Steps /\ AllDone \subseteq Steps
    /\ DependsOn \in [Steps -> SUBSET Steps]
    /\ MaxConcurrency \in Nat \ {0}
    /\ Actions \subseteq {"pause", "resume", "retry", "fail"}
    /\ {MaxOps, Stops, Restarts} \subseteq Nat
    /\ None \notin Ops /\ None \notin Terminal /\ None \notin Request

VARIABLES
    row,        \* durable: state.json, the operator's view of each managed step
    meta,       \* durable: files of each step: "none", "started", or a result: "done" or "other"
    kept,       \* durable: the archive of the current attempt, against its files
    command,    \* durable: the request of each operation id
    receipt,    \* durable: its receipt
    intent,     \* durable: the stop intent of the execution
    pc,         \* where the scheduler is
    cancel,     \* its cancel token
    outcome,    \* StepStates
    active,     \* the token of each started step
    execs,      \* executors in the JoinSet
    fails,      \* completions made up for a Fail command: 0 in this poll, 1 and 2 in the JoinSet
    inbox,      \* what is left of this poll
    done,       \* the completion in hand
    result,     \* of an ended run
    clash,      \* history: such a completion for a step that does not wait for its operator, or a second one
    stops, restarts

commands == <<command, receipt>>
files == <<row, meta, kept>>
tasks == <<active, execs, fails>>
outside == <<intent, stops, restarts>>
vars == <<files, commands, outside, pc, cancel, outcome, tasks, inbox, done, result, clash>>

Places == {"top", "poll", "ack", "sweepRows", "sweepSteps", "fill", "block", "wait",
           "save", "reply", "record", "finish", "reap", "ended", "down"}

At(p) == pc = p
Alive == pc \notin {"down", "ended"}
HeldRow(s) == s \in Operator /\ row[s].phase \in Held
Waiting == \E s \in Steps : HeldRow(s)
Tasks == Cardinality(execs) + Cardinality(fails)
MadeUp == {f \in fails : f[2] = 0}
Failing(s) == \E f \in fails : f[1] = s
Inspected(s) == HeldRow(s) /\ row[s].attempt > 0
Unfinished == {s \in Steps : outcome[s] = None}

\* A step's own token, or the run's, of which it is a child unless the step is a finalizer.
Stopped(s) == active[s] = "stopped" \/ (cancel /\ s \notin AllDone)

\* Mutant: any outcome of what a step needs will do.
ReadyOnceEnded == {s \in Unfinished : \A d \in DependsOn[s] : outcome[d] # None}

ReadySteps ==
    {s \in Unfinished : \A d \in DependsOn[s] :
        IF s \in AllDone THEN outcome[d] # None ELSE outcome[d] = "done"}

\* Writing an attempt's files again after they were archived.
Rewritten(S) == [s \in Operator |-> IF s \in S /\ kept[s] = "same" THEN "changed" ELSE kept[s]]
Written(S, kind) == [s \in Steps |-> IF s \in S THEN kind ELSE meta[s]]
Kind(o) == IF o = "done" THEN "done" ELSE "other"

Init ==
    /\ row = [s \in Operator |-> [attempt |-> 0, phase |-> "pending", op |-> None, applied |-> None]]
    /\ meta = [s \in Steps |-> "none"]
    /\ kept = [s \in Operator |-> "none"]
    /\ command = [op \in Ops |-> None]
    /\ receipt = [op \in Ops |-> "none"]
    /\ intent = "none" /\ stops = 0 /\ restarts = 0
    /\ pc = "top" /\ cancel = FALSE
    /\ outcome = [s \in Steps |-> None]
    /\ active = [s \in Steps |-> "no"] /\ execs = {} /\ fails = {}
    /\ inbox = {} /\ done = None /\ result = None /\ clash = FALSE

-----------------------------------------------------------------------------
(* The top of the loop and the mailbox (Managed::poll).                    *)

Queued == {op \in Ops : receipt[op] = "queued"}

BeginPass ==
    /\ At("top")
    /\ cancel' = (cancel \/ intent # "none")
    /\ inbox' = Queued
    /\ pc' = "poll"
    /\ UNCHANGED <<files, commands, outside, outcome, tasks, done, result, clash>>

\* Commands are taken in the order of submission.
Polling(op) == At("poll") /\ op \in inbox /\ \A earlier \in inbox : op <= earlier
Target(op) == command[op].step
NextCommand(op) == inbox' = inbox \ {op} /\ UNCHANGED <<pc, outside, cancel, outcome, done, result>>

\* An operation that was applied before a crash only lacks its receipt.
WasApplied(op) == ~cancel /\ row[Target(op)].applied = op

Refused(op) ==
    \/ cancel
    \/ /\ ~WasApplied(op)
       /\ \/ row[Target(op)].attempt # command[op].attempt
          \/ row[Target(op)].phase \in Terminal
          \/ row[Target(op)].op \notin {None, op}
          \/ command[op].action \in {"resume", "retry"} /\ row[Target(op)].phase \notin Held

AnswerAtOnce(op) ==
    /\ Polling(op)
    /\ Refused(op) \/ WasApplied(op)
    /\ receipt' = [receipt EXCEPT ![op] = IF Refused(op) THEN "rejected" ELSE "applied"]
    /\ NextCommand(op)
    /\ UNCHANGED <<files, command, tasks, clash>>

Accepted(op, actions) == Polling(op) /\ ~Refused(op) /\ ~WasApplied(op) /\ command[op].action \in actions

\* The receipt waits until the executor has ended.
StopAttempt(op) ==
    /\ Accepted(op, {"pause", "fail"})
    /\ active[Target(op)] # "no"
    /\ row' = [row EXCEPT ![Target(op)].op = op]
    /\ active' = [active EXCEPT ![Target(op)] = "stopped"]
    /\ NextCommand(op)
    /\ UNCHANGED <<meta, kept, commands, execs, fails, clash>>

Abort == pc' = "reap" /\ cancel' = TRUE

\* A step that does not run gets a completion of its own, spawned when the poll is over.  A poll
\* that finds the command again before that completion is taken makes another one (bound: two).
FailInactive(op) ==
    /\ Accepted(op, {"fail"})
    /\ active[Target(op)] = "no"
    /\ kept[Target(op)] # "changed"
    /\ ~({<<Target(op), 1>>, <<Target(op), 2>>} \subseteq fails)
    /\ fails' = fails \cup {<<Target(op), 0>>}
    /\ clash' = (clash \/ Failing(Target(op)) \/ ~Inspected(Target(op)))
    /\ kept' = [kept EXCEPT ![Target(op)] = IF row[Target(op)].attempt = 0 THEN @ ELSE "same"]
    /\ row' = [row EXCEPT ![Target(op)].op = op]
    /\ NextCommand(op)
    /\ UNCHANGED <<meta, commands, active, execs>>

\* archive refuses to replace what it kept of an attempt; the run fails, and what the poll made
\* up is dropped.
FailUnarchived(op) ==
    /\ Accepted(op, {"fail"})
    /\ active[Target(op)] = "no"
    /\ kept[Target(op)] = "changed"
    /\ Abort
    /\ fails' = fails \ MadeUp
    /\ UNCHANGED <<files, commands, outside, outcome, active, execs, inbox, done, result, clash>>

ApplyInactive(op) ==
    /\ Accepted(op, {"pause", "resume", "retry"})
    /\ active[Target(op)] = "no"
    /\ row' = [row EXCEPT ![Target(op)] =
                 [@ EXCEPT !.phase = IF command[op].action = "pause" THEN "paused" ELSE "pending",
                           !.op = None, !.applied = op]]
    /\ pc' = "ack"
    /\ UNCHANGED <<meta, kept, commands, outside, cancel, outcome, tasks, inbox, done, result, clash>>

Acknowledge(op) ==
    /\ At("ack") /\ op \in inbox /\ \A earlier \in inbox : op <= earlier
    /\ receipt' = [receipt EXCEPT ![op] = "applied"]
    /\ inbox' = inbox \ {op}
    /\ pc' = "poll"
    /\ UNCHANGED <<files, command, outside, cancel, outcome, tasks, done, result, clash>>

EndPoll ==
    /\ At("poll") /\ inbox = {}
    /\ fails' = (fails \ MadeUp) \cup {<<f[1], IF <<f[1], 1>> \in fails THEN 2 ELSE 1>> : f \in MadeUp}
    /\ pc' = IF cancel THEN "sweepRows" ELSE "fill"
    /\ UNCHANGED <<files, commands, outside, cancel, outcome, active, execs, inbox, done, result, clash>>

-----------------------------------------------------------------------------
(* A stop: everything that waits is cancelled, finalizers excepted.        *)

\* Mutant: the sweep of a stop leaves a held step.
SparedHeld(s) == HeldRow(s) \/ active[s] # "no" \/ row[s].phase \in Terminal

Spared(s) ==
    \/ s \in AllDone /\ row[s].phase \in {"pending", "running"}
    \/ active[s] # "no"
    \/ row[s].phase \in Terminal

CancelRows ==
    /\ At("sweepRows")
    /\ row' = [s \in Operator |-> IF Spared(s) THEN row[s]
                                  ELSE [row[s] EXCEPT !.phase = "cancelled", !.op = None]]
    /\ pc' = "sweepSteps"
    /\ UNCHANGED <<meta, kept, commands, outside, cancel, outcome, tasks, inbox, done, result, clash>>

\* record_step for a set of steps: their files, then their outcomes.
RecordAll(S, o) ==
    /\ meta' = Written(S, Kind(o))
    /\ kept' = Rewritten(S)
    /\ outcome' = [s \in Steps |-> IF s \in S THEN o ELSE outcome[s]]

CancelSteps ==
    /\ At("sweepSteps")
    /\ RecordAll({s \in Unfinished : /\ active[s] = "no"
                                     /\ s \in AllDone => s \in Operator /\ row[s].phase = "cancelled"},
                 "cancelled")
    /\ pc' = "fill"
    /\ UNCHANGED <<row, commands, outside, cancel, tasks, inbox, done, result, clash>>

-----------------------------------------------------------------------------
(* Starting what can start, and failing what never will.                   *)

Startable(s) ==
    /\ s \in ReadySteps
    /\ s \in Operator => row[s].phase = "pending"
    /\ cancel => s \in AllDone
    /\ active[s] = "no"

CanFill == Tasks < MaxConcurrency /\ \E s \in Steps : Startable(s)

StartStep(s) ==
    /\ At("fill") /\ CanFill
    /\ Startable(s)
    /\ s \in Operator => kept[s] # "changed"
    /\ row' = [r \in Operator |->
                 IF r = s THEN [row[r] EXCEPT !.attempt = @ + 1, !.phase = "running"] ELSE row[r]]
    /\ kept' = [r \in Operator |-> IF r = s THEN "none" ELSE kept[r]]
    /\ meta' = Written({s}, "started")
    /\ active' = [active EXCEPT ![s] = "live"]
    /\ execs' = execs \cup {s}
    /\ UNCHANGED <<commands, outside, pc, cancel, outcome, fails, inbox, done, result, clash>>

StartUnarchived(s) ==
    /\ At("fill") /\ CanFill
    /\ Startable(s)
    /\ s \in Operator /\ kept[s] = "changed"
    /\ Abort
    /\ UNCHANGED <<files, commands, outside, outcome, tasks, inbox, done, result, clash>>

EndFill ==
    /\ At("fill") /\ ~CanFill
    /\ pc' = IF cancel THEN "wait" ELSE "block"
    /\ UNCHANGED <<files, commands, outside, cancel, outcome, tasks, inbox, done, result, clash>>

Blocked(s) ==
    /\ s \in Unfinished \ AllDone /\ active[s] = "no"
    /\ \A d \in DependsOn[s] : outcome[d] # None
    /\ \E d \in DependsOn[s] : outcome[d] # "done"

BlockStep(s) ==
    /\ At("block")
    /\ Blocked(s)
    /\ RecordAll({s}, "error")
    /\ UNCHANGED <<row, commands, outside, pc, cancel, tasks, inbox, done, result, clash>>

EndBlock ==
    /\ At("block") /\ \A s \in Steps : ~Blocked(s)
    /\ pc' = "wait"
    /\ UNCHANGED <<files, commands, outside, cancel, outcome, tasks, inbox, done, result, clash>>

-----------------------------------------------------------------------------
(* Waiting: a completion, the stop, or a command.                          *)

\* What an executor may return: a stopped one may have finished before.
Results(s) == {"done", "error"} \cup (IF Stopped(s) THEN {"cancelled"} ELSE {})

JoinPlain(s) ==
    /\ At("wait") /\ s \in execs \ Operator
    /\ \E o \in Results(s) : RecordAll({s}, o)
    /\ active' = [active EXCEPT ![s] = "no"]
    /\ execs' = execs \ {s}
    /\ pc' = "top"
    /\ UNCHANGED <<row, commands, outside, cancel, fails, inbox, done, result, clash>>

\* Managed::completed: the files first, then the row, then the receipt.
PhaseAfter(s, o) ==
    LET wanted == IF row[s].op = None THEN "none" ELSE command[row[s].op].action
    IN  IF o = "done" THEN "done"
        ELSE IF cancel THEN "cancelled"
        ELSE IF wanted = "fail" THEN "error"
        ELSE IF wanted = "pause" THEN "paused" ELSE "waiting"

Complete(s, o) ==
    /\ done' = [step |-> s, phase |-> PhaseAfter(s, o), op |-> row[s].op,
                verdict |-> IF o = "done" \/ cancel THEN "rejected" ELSE "applied"]
    /\ meta' = Written({s}, Kind(o))
    /\ kept' = Rewritten({s})
    /\ active' = [active EXCEPT ![s] = "no"]
    /\ pc' = "save"
    /\ UNCHANGED <<row, commands, outside, cancel, outcome, inbox, result, clash>>

JoinManaged(s) ==
    /\ At("wait") /\ s \in execs \cap Operator
    /\ \E o \in Results(s) : Complete(s, o)
    /\ execs' = execs \ {s}
    /\ UNCHANGED fails

JoinFail(s) ==
    /\ At("wait")
    /\ \E f \in fails : f[1] = s /\ fails' = fails \ {f}
    /\ Complete(s, "error")
    /\ UNCHANGED execs

\* Mutant: every completion is an outcome.
RecordAlways == pc' = "record" /\ UNCHANGED done

\* A completion that is held has no outcome: nothing that needs the step may see one.
AfterSave ==
    IF done.phase \in Held THEN pc' = "top" /\ done' = None ELSE pc' = "record" /\ UNCHANGED done

CompletedRow ==
    [row[done.step] EXCEPT !.phase = done.phase, !.op = None,
                           !.applied = IF done.op = None THEN @ ELSE done.op]

SaveRow ==
    /\ At("save")
    /\ row' = [row EXCEPT ![done.step] = CompletedRow]
    /\ IF done.op = None THEN AfterSave ELSE pc' = "reply" /\ UNCHANGED done
    /\ UNCHANGED <<meta, kept, commands, outside, cancel, outcome, tasks, inbox, result, clash>>

Reply ==
    /\ At("reply")
    /\ receipt' = [receipt EXCEPT ![done.op] = done.verdict]
    /\ AfterSave
    /\ UNCHANGED <<files, command, outside, cancel, outcome, tasks, inbox, result, clash>>

RecordStep ==
    /\ At("record")
    /\ RecordAll({done.step}, done.phase)
    /\ done' = None
    /\ pc' = "top"
    /\ UNCHANGED <<row, commands, outside, cancel, tasks, inbox, result, clash>>

SeeStop ==
    /\ At("wait") /\ intent # "none" /\ ~cancel
    /\ Tasks > 0 \/ Waiting
    /\ pc' = "top"
    /\ UNCHANGED <<files, commands, outside, cancel, outcome, tasks, inbox, done, result, clash>>

\* A pass without a new command changes nothing.  A completion that was made up is ready at
\* once, long before the timer.
Timer ==
    /\ At("wait") /\ Operator # {} /\ Queued # {} /\ fails = {}
    /\ Tasks > 0 \/ Waiting
    /\ pc' = "top"
    /\ UNCHANGED <<files, commands, outside, cancel, outcome, tasks, inbox, done, result, clash>>

NothingRuns == At("wait") /\ Tasks = 0 /\ ~Waiting

OnceMore ==
    /\ NothingRuns /\ ReadySteps # {}
    /\ pc' = "top"
    /\ UNCHANGED <<files, commands, outside, cancel, outcome, tasks, inbox, done, result, clash>>

MarkUnfinished ==
    /\ NothingRuns /\ ReadySteps = {}
    /\ RecordAll(Unfinished, IF cancel THEN "cancelled" ELSE "error")
    /\ pc' = "finish"
    /\ UNCHANGED <<row, commands, outside, cancel, tasks, inbox, done, result, clash>>

Folded ==
    LET all == {outcome[s] : s \in Steps}
    IN  IF cancel \/ "cancelled" \in all THEN "cancelled"
        ELSE IF "error" \in all THEN "error" ELSE "done"

FinishRun ==
    /\ At("finish")
    /\ row' = [s \in Operator |-> [row[s] EXCEPT !.phase = outcome[s]]]
    /\ result' = Folded
    /\ pc' = "ended"
    /\ UNCHANGED <<meta, kept, commands, outside, cancel, outcome, tasks, inbox, done, clash>>

-----------------------------------------------------------------------------
(* A pass that failed: every task is stopped and reaped.                   *)

Reap(s) ==
    /\ At("reap")
    /\ s \in execs \/ Failing(s)
    /\ \E k \in {"other"} \cup (IF s \in execs THEN {"done"} ELSE {}) : meta' = Written({s}, k)
    /\ kept' = Rewritten({s})
    /\ execs' = execs \ {s}
    /\ fails' = {f \in fails : f[1] # s}
    /\ UNCHANGED <<row, commands, outside, pc, cancel, outcome, active, inbox, done, result, clash>>

FailRun ==
    /\ At("reap") /\ Tasks = 0
    /\ result' = "error"
    /\ pc' = "ended"
    /\ UNCHANGED <<files, commands, outside, cancel, outcome, tasks, inbox, done, clash>>

-----------------------------------------------------------------------------
(* The operator, the stop of the execution, and its crash and resume.      *)

\* The step's row must exist and the execution must be running; a repeated id changes nothing.
\* A command that arrives elsewhere in a pass has the effect of one at these places, where the
\* attempt it names or the poll that finds it changes; so has a stop.
Submit(op) ==
    /\ pc \in {"top", "fill", "wait"} /\ intent = "none"
    /\ command[op] = None /\ \A earlier \in 1 .. op - 1 : command[earlier] # None
    /\ \E s \in Operator, a \in Actions :
        command' = [command EXCEPT ![op] = [step |-> s, action |-> a, attempt |-> row[s].attempt]]
    /\ receipt' = [receipt EXCEPT ![op] = "queued"]
    /\ UNCHANGED <<files, outside, pc, cancel, outcome, tasks, inbox, done, result, clash>>

\* An interrupt may be followed by a resume, a cancel may not, and wins over an interrupt.
Stop ==
    /\ pc \in {"top", "wait"} /\ stops < Stops
    /\ \E i \in {"interrupt", "cancel"} \ {intent} : intent # "cancel" /\ intent' = i
    /\ stops' = stops + 1
    /\ UNCHANGED <<files, commands, restarts, pc, cancel, outcome, tasks, inbox, done, result, clash>>

Forget ==
    /\ cancel' = FALSE
    /\ active' = [s \in Steps |-> "no"] /\ execs' = {} /\ fails' = {}
    /\ inbox' = {} /\ done' = None

Crash ==
    /\ Alive /\ restarts < Restarts
    /\ pc' = "down"
    /\ outcome' = [s \in Steps |-> None] /\ result' = None
    /\ Forget
    /\ UNCHANGED <<files, commands, outside, clash>>

MayResume ==
    \/ At("down") /\ intent # "cancel"
    \/ At("ended") /\ (intent = "interrupt" \/ (intent = "none" /\ result = "error"))

\* A step that failed or was cancelled for good.
Settled(s) == s \in Operator /\ row[s].phase \in {"error", "cancelled"}

\* Mutant: nothing is restored, and every step runs again.
RestoredNothing(s) == IF meta[s] # "none" /\ Settled(s) THEN row[s].phase ELSE None

\* checkpoint::restore: successes by their files, failures and cancellations by their rows.
Restored(s) ==
    IF meta[s] = "none" THEN None
    ELSE IF Settled(s) THEN row[s].phase
    ELSE IF meta[s] = "done" THEN "done" ELSE None

\* Mutant: an attempt that a crash cut off is made again.
ReopenedPending(s) ==
    IF row[s].phase = "running" /\ meta[s] # "done" THEN [row[s] EXCEPT !.phase = "pending"] ELSE row[s]

\* Mutant: an attempt that a crash cut off stays as it was.
ReopenedHeld(s) ==
    IF row[s].phase = "waiting"
    THEN [row[s] EXCEPT !.phase = IF meta[s] = "done" THEN "done" ELSE "waiting"]
    ELSE row[s]

\* Managed::open and restore_completed.
Reopened(s) ==
    IF row[s].phase \in {"running", "waiting"}
    THEN [row[s] EXCEPT !.phase = IF meta[s] = "done" THEN "done" ELSE "waiting"]
    ELSE row[s]

\* Starting an attempt removed the output that a settled step is restored with.
Unreadable == \E s \in Steps : Settled(s) /\ meta[s] = "started"

Resume ==
    /\ MayResume /\ restarts < Restarts
    /\ restarts' = restarts + 1
    /\ intent' = "none"
    /\ Forget
    /\ UNCHANGED <<meta, kept, commands, stops, clash>>

ResumeRun ==
    /\ Resume
    /\ ~Unreadable
    /\ outcome' = [s \in Steps |-> Restored(s)]
    /\ row' = [s \in Operator |-> Reopened(s)]
    /\ result' = None
    /\ pc' = "top"

ResumeFails ==
    /\ Resume
    /\ Unreadable
    /\ outcome' = [s \in Steps |-> None]
    /\ result' = "error"
    /\ pc' = "ended"
    /\ UNCHANGED row

-----------------------------------------------------------------------------
Join == \E s \in Steps : JoinPlain(s) \/ JoinManaged(s) \/ JoinFail(s)

Poll(op) ==
    \/ AnswerAtOnce(op) \/ StopAttempt(op) \/ FailInactive(op) \/ FailUnarchived(op)
    \/ ApplyInactive(op) \/ Acknowledge(op)

Scheduler ==
    \/ BeginPass \/ EndPoll \/ CancelRows \/ CancelSteps
    \/ \E op \in Ops : Poll(op)
    \/ \E s \in Steps : StartStep(s) \/ StartUnarchived(s) \/ BlockStep(s) \/ Reap(s)
    \/ EndFill \/ EndBlock
    \/ SaveRow \/ Reply \/ RecordStep \/ SeeStop \/ Timer \/ OnceMore \/ MarkUnfinished \/ FinishRun
    \/ FailRun

Next ==
    \/ Scheduler
    \/ Join
    \/ \E op \in Ops : Submit(op)
    \/ Stop \/ Crash \/ ResumeRun \/ ResumeFails

Spec == Init /\ [][Next]_vars

\* The scheduler goes on, and executors end: on their own, by their timeout or when stopped.
FairSpec == Spec /\ WF_vars(Scheduler) /\ SF_vars(Join)

-----------------------------------------------------------------------------
(* Properties.                                                             *)

Given == {op \in Ops : command[op] # None}
Row == [attempt : Nat, phase : Phases, op : Given \cup {None}, applied : Given \cup {None}]
Completion == [step : Operator, phase : Held \cup Terminal, op : Given \cup {None},
               verdict : {"applied", "rejected"}]

TypeOK ==
    /\ row \in [Operator -> Row]
    /\ meta \in [Steps -> {"none", "started", "other", "done"}]
    /\ kept \in [Operator -> {"none", "same", "changed"}]
    /\ command \in [Ops -> Request \cup {None}]
    /\ receipt \in [Ops -> {"none", "queued", "applied", "rejected"}]
    /\ \A op \in Ops : receipt[op] = "none" <=> op \notin Given
    /\ intent \in {"none", "interrupt", "cancel"}
    /\ pc \in Places
    /\ cancel \in BOOLEAN /\ clash \in BOOLEAN
    /\ outcome \in [Steps -> Terminal \cup {None}] /\ result \in Terminal \cup {None}
    /\ active \in [Steps -> {"no", "live", "stopped"}]
    /\ execs \subseteq Steps /\ fails \subseteq Operator \X {0, 1, 2}
    /\ inbox \subseteq Given
    /\ done \in Completion \cup {None}
    /\ stops \in 0 .. Stops /\ restarts \in 0 .. Restarts

\* What succeeded is not done again: once a step's files say done they say so for ever, over
\* crashes, retries and resumes.  And within one run an outcome is never replaced by another.
Stands ==
    \A s \in Steps :
        /\ meta[s] = "done" => meta'[s] = "done"
        /\ (outcome[s] # None /\ pc' # "down" /\ restarts' = restarts) => outcome'[s] = outcome[s]
ResultsStand == [][clash' \/ Stands]_vars

\* A step that has an outcome runs no more and is not held, so nothing that needs it sees one that
\* may still change; excepted are a hold that came before the first attempt, and a clash.
OutcomesAreFinal ==
    ~clash => \A s \in Steps :
        outcome[s] # None => s \notin execs /\ (HeldRow(s) => row[s].attempt = 0)

\* No step runs before what it needs: after a resume, too, a success is one that the files show.
NeedsAreMet ==
    ~clash => \A s \in execs, d \in Steps :
        d \in DependsOn[s] => outcome[d] # None /\ (s \notin AllDone => meta[d] = "done")

\* A managed step is attempted again only if the operator asked for it: each attempt after the
\* first follows a resume or a retry that names the one before, whatever crashed in between.
Asked(s, n) ==
    \E op \in Ops : /\ command[op] # None
                    /\ command[op].step = s /\ command[op].attempt = n
                    /\ command[op].action \in {"resume", "retry"}
AttemptsAreAsked == \A s \in Operator : \A n \in 1 .. row[s].attempt - 1 : Asked(s, n)

\* A step whose row was cancelled when a crash hit before its files were written.
Lost(s) == s \in Operator /\ row[s].phase = "cancelled" /\ outcome[s] = None

\* When nothing runs, the scheduler neither waits for an operator whose commands it would refuse
\* nor goes round for a step that it can never start: what is ready then is startable or lost.
NeverStuck ==
    (~clash /\ At("wait") /\ Tasks = 0) =>
        IF Waiting THEN ~cancel ELSE \A s \in ReadySteps : Startable(s) \/ Lost(s)

\* A run ends, or waits for the operator; once it is stopped it ends.  Excepted are a clash and a
\* lost step.
RunEnds == []<>(~Alive \/ clash \/ (~cancel /\ (Waiting \/ \E s \in Steps : Lost(s))))

-----------------------------------------------------------------------------
(* The inductive invariant behind AttemptsAreAsked, OutcomesAreFinal,      *)
(* NeedsAreMet and ResultsStand.                                           *)

PendingIsAsked ==
    \A s \in Operator :
        row[s].phase = "pending" /\ row[s].attempt > 0 => Asked(s, row[s].attempt)

InHand == pc \in {"save", "reply", "record"}

\* Between its files and its outcome a completion changes only the row of its step.
HandIsOfRow ==
    /\ InHand => done \in Completion
    /\ pc \in {"reply", "record"} => row[done.step].phase = done.phase
    /\ pc = "record" => done.phase \in Terminal

\* A run that is about to end has nothing that runs, waits or lacks an outcome.
EndIsQuiet ==
    pc = "finish" =>
        execs = {} /\ fails = {} /\ ~Waiting /\ \A s \in Steps : outcome[s] # None

SweepIsOfStop ==
    pc \in {"sweepRows", "sweepSteps"} => cancel
RowsAreSwept ==
    pc = "sweepSteps" =>
        \A s \in Operator :
            active[s] = "no" =>
                row[s].phase \in Terminal \/ (s \in AllDone /\ row[s].phase \in {"pending", "running"})

ExecsRun ==
    \A s \in execs :
        /\ active[s] # "no" /\ outcome[s] = None /\ meta[s] = "started"
        /\ s \in Operator => row[s].phase = "running" /\ row[s].attempt > 0

\* Either no outcome yet, or the cancellation that a sweep wrote first.
Unsettled(s) == outcome[s] = None \/ (cancel /\ outcome[s] = "cancelled")

FailsWait ==
    \A f \in fails :
        /\ f[1] \notin execs /\ Unsettled(f[1]) /\ row[f[1]].attempt > 0
        /\ \/ row[f[1]].phase = "cancelled"
           \/ /\ row[f[1]].phase \in Held
              /\ row[f[1]].op # None /\ command[row[f[1]].op].action = "fail"
        /\ \A g \in fails : g[1] = f[1] => g = f
        /\ InHand => done.step # f[1]

HandIsFree ==
    InHand =>
        /\ done.step \notin execs /\ row[done.step].attempt > 0
        /\ outcome[done.step] = None \/ (outcome[done.step] = "cancelled" /\ done.phase = "cancelled")
        /\ meta[done.step] = "done" <=> done.phase = "done"
        /\ pc = "save" /\ done.phase = "done" => row[done.step].phase = "running"

\* Files, rows and outcomes tell of the same successes.
SuccessIsKnown ==
    \A s \in Steps :
        /\ outcome[s] = "done" => meta[s] = "done"
        /\ meta[s] = "done" =>
             /\ s \in Operator => row[s].phase \in {"running", "done"} /\ row[s].attempt > 0
             /\ \/ outcome[s] = "done"
                \/ pc \in {"reap", "ended", "down"}
                \/ InHand /\ done.step = s

\* An attempt was made only after what the step needs, and that stays so.
AttemptsWereReady ==
    \A s \in Operator \ AllDone : row[s].attempt > 0 => \A d \in DependsOn[s] : meta[d] = "done"

RowsAreFinal ==
    pc \notin {"finish", "ended"} =>
        \A s \in Operator :
            outcome[s] # None /\ row[s].attempt > 0 => row[s].phase \in Terminal

Base ==
    /\ TypeOK /\ PendingIsAsked /\ AttemptsAreAsked
    /\ HandIsOfRow /\ EndIsQuiet /\ SweepIsOfStop

Orderly ==
    /\ RowsAreSwept /\ ExecsRun /\ FailsWait /\ HandIsFree /\ SuccessIsKnown
    /\ AttemptsWereReady /\ RowsAreFinal /\ OutcomesAreFinal /\ NeedsAreMet

IInv == Base /\ (~clash => Orderly)

-----------------------------------------------------------------------------
(* The strengthening behind NeverStuck.                                    *)

Running == pc \notin {"reap", "ended", "down"}

\* A token is that of an executor, a running row that of an executor or of the completion in hand.
TokensRun == Running => \A s \in Steps : active[s] # "no" => s \in execs
RowsRun ==
    Running => \A s \in Operator :
        row[s].phase = "running" => s \in execs \/ (pc = "save" /\ done.step = s)

\* What has an outcome or is in hand has files; a row that is done or failed has files that say
\* so, and an outcome once it is out of hand.
FilesAreWritten ==
    /\ \A s \in Steps : outcome[s] # None => meta[s] # "none"
    /\ InHand => meta[done.step] # "none"
RowsHaveFiles ==
    \A s \in Operator :
        /\ row[s].phase = "done" => meta[s] = "done"
        /\ row[s].phase = "error" => meta[s] # "none"
RowsAreOutcomes ==
    Running => \A s \in Operator :
        row[s].phase \in {"done", "error"} =>
            outcome[s] # None \/ (pc \in {"reply", "record"} /\ done.step = s)

\* After its sweeps a stop has left nothing that waits and no step that it should have ended.
StopSwept ==
    cancel =>
        /\ pc = "sweepSteps" => ~Waiting
        /\ pc \in {"fill", "block", "wait"} =>
             /\ ~Waiting
             /\ \A s \in Unfinished \ AllDone : active[s] # "no"
        /\ InHand => done.phase \notin Held

Awake == TokensRun /\ RowsRun /\ FilesAreWritten /\ RowsHaveFiles /\ RowsAreOutcomes /\ StopSwept
NInv == IInv /\ (~clash => Awake)
=============================================================================
