------------------------- MODULE DagSchedulerProofs -------------------------
(***************************************************************************)
(* Machine-checked facts about the scheduler of a DAG run, for every DAG,  *)
(* every choice of managed steps and finalizers, any limit, any commands   *)
(* of the operator, and any number of stops, crashes and resumes.          *)
(***************************************************************************)
EXTENDS DagScheduler, FiniteSetTheorems, TLAPS

USE DEF At, InHand

(* A row may be touched without asking for an attempt.                     *)
LEMMA AskedKept ==
  ASSUME PendingIsAsked, AttemptsAreAsked, command' = command,
         \A s \in Operator : /\ row'[s].attempt = row[s].attempt
                             /\ row'[s].phase = "pending" => row[s].phase = "pending"
  PROVE  PendingIsAsked' /\ AttemptsAreAsked'
BY DEF PendingIsAsked, AttemptsAreAsked, Asked

LEMMA InitBase == Init => Base
<1> SUFFICES ASSUME Init PROVE Base OBVIOUS
<1> USE DagAssumption DEF Init
<1>1. TypeOK
  <2>1. row \in [Operator -> Row] /\ Given = {}
    BY DEF Row, Phases, Given
  <2>2. {command[op] : op \in Ops} \subseteq {None} /\ command \in [Ops -> Request \cup {None}]
    OBVIOUS
  <2>3. stops \in 0 .. Stops /\ restarts \in 0 .. Restarts
    OBVIOUS
  <2>4. \A op \in Ops : receipt[op] = "none" <=> op \notin Given
    BY <2>1
  <2>5. outcome \in [Steps -> Terminal \cup {None}] /\ pc \in Places
    BY DEF Places
  <2> QED BY <2>1, <2>2, <2>3, <2>4, <2>5 DEF TypeOK
<1>2. PendingIsAsked /\ AttemptsAreAsked
  BY DEF PendingIsAsked, AttemptsAreAsked
<1>3. HandIsOfRow /\ EndIsQuiet /\ SweepIsOfStop
  BY DEF HandIsOfRow, EndIsQuiet, SweepIsOfStop
<1> QED BY <1>1, <1>2, <1>3 DEF Base

(* What the mailbox does to the rows of the operator and their receipts.   *)
LEMMA PollBase ==
  ASSUME Base, NEW op \in Ops, Poll(op)
  PROVE  Base'
<1> USE DagAssumption DEF Base, Polling, Target, NextCommand, commands, files, outside, tasks
<1>1. op \in inbox /\ pc \in {"poll", "ack"}
  <2>1. CASE AnswerAtOnce(op) BY <2>1 DEF AnswerAtOnce
  <2>2. CASE StopAttempt(op) BY <2>2 DEF StopAttempt, Accepted
  <2>3. CASE FailInactive(op) BY <2>3 DEF FailInactive, Accepted
  <2>4. CASE FailUnarchived(op) BY <2>4 DEF FailUnarchived, Accepted
  <2>5. CASE ApplyInactive(op) BY <2>5 DEF ApplyInactive, Accepted
  <2>6. CASE Acknowledge(op) BY <2>6 DEF Acknowledge
  <2> QED BY <2>1, <2>2, <2>3, <2>4, <2>5, <2>6 DEF Poll
<1>2. op \in Given /\ command[op] \in Request /\ Target(op) \in Operator
  BY <1>1 DEF TypeOK, Given, Request
<1>3. row[Target(op)] \in Row /\ Given \subseteq Ops
  BY <1>2 DEF TypeOK, Given
<1>4. CASE AnswerAtOnce(op)
  BY <1>2, <1>4, AskedKept DEF AnswerAtOnce, TypeOK, HandIsOfRow, EndIsQuiet, SweepIsOfStop, Given, Row, Completion
<1>5. CASE StopAttempt(op)
  <2> USE <1>5 DEF StopAttempt, Accepted
  <2>1. TypeOK'
    BY <1>2, <1>3 DEF TypeOK, Given, Row, Completion
  <2>2. PendingIsAsked' /\ AttemptsAreAsked'
    BY <1>2, AskedKept DEF TypeOK, Row
  <2>3. HandIsOfRow' /\ EndIsQuiet' /\ SweepIsOfStop'
    BY DEF HandIsOfRow, EndIsQuiet, SweepIsOfStop
  <2> QED BY <2>1, <2>2, <2>3
<1>6. CASE FailInactive(op)
  <2> USE <1>6 DEF FailInactive, Accepted
  <2>1. TypeOK'
    <3>1. row' \in [Operator -> Row]
      BY <1>2, <1>3 DEF TypeOK, Given, Row
    <3>2. kept' \in [Operator -> {"none", "same", "changed"}]
      BY <1>2 DEF TypeOK
    <3>3. fails' \subseteq Operator \X {0, 1, 2}
      BY <1>2 DEF TypeOK
    <3>4. clash' \in BOOLEAN
      BY DEF TypeOK
    <3> QED BY <3>1, <3>2, <3>3, <3>4 DEF TypeOK, Given, Row, Completion
  <2>2. PendingIsAsked' /\ AttemptsAreAsked'
    BY <1>2, AskedKept DEF TypeOK, Row
  <2>3. HandIsOfRow' /\ EndIsQuiet' /\ SweepIsOfStop'
    BY DEF HandIsOfRow, EndIsQuiet, SweepIsOfStop
  <2> QED BY <2>1, <2>2, <2>3
<1>7. CASE FailUnarchived(op)
  BY <1>7, AskedKept DEF FailUnarchived, Accepted, TypeOK, HandIsOfRow, EndIsQuiet, SweepIsOfStop, Given, Row, Completion, Abort, MadeUp, Places
<1>8. CASE ApplyInactive(op)
  <2> USE <1>8 DEF ApplyInactive, Accepted
  <2>1. TypeOK'
    <3>1. row' \in [Operator -> Row]
      BY <1>2, <1>3 DEF TypeOK, Given, Row, Phases
    <3> QED BY <3>1 DEF TypeOK, Given, Row, Completion, Places
  <2>2. \A s \in Operator :
          /\ row'[s].attempt = row[s].attempt
          /\ row'[s].phase = "pending" /\ row[s].phase # "pending" => Asked(s, row[s].attempt)
    <3> SUFFICES ASSUME NEW s \in Operator
                 PROVE  /\ row'[s].attempt = row[s].attempt
                        /\ row'[s].phase = "pending" /\ row[s].phase # "pending" => Asked(s, row[s].attempt)
      OBVIOUS
    <3>1. CASE s = Target(op)
      BY <3>1, <1>2, <1>3 DEF TypeOK, Row, Asked, Refused, Request, Given
    <3>2. CASE s # Target(op)
      BY <3>2, <1>2 DEF TypeOK
    <3> QED BY <3>1, <3>2
  <2>3. PendingIsAsked' /\ AttemptsAreAsked'
    BY <2>2 DEF PendingIsAsked, AttemptsAreAsked, Asked
  <2>4. HandIsOfRow' /\ EndIsQuiet' /\ SweepIsOfStop'
    BY DEF HandIsOfRow, EndIsQuiet, SweepIsOfStop
  <2> QED BY <2>1, <2>3, <2>4
<1>9. CASE Acknowledge(op)
  BY <1>2, <1>9, AskedKept DEF Acknowledge, TypeOK, HandIsOfRow, EndIsQuiet, SweepIsOfStop, Given, Row, Completion, Places
<1> QED BY <1>4, <1>5, <1>6, <1>7, <1>8, <1>9 DEF Poll

(* Recording outcomes keeps the types.                                     *)
LEMMA RecordTypes ==
  ASSUME TypeOK, NEW S, NEW o \in Terminal, RecordAll(S, o)
  PROVE  /\ meta' \in [Steps -> {"none", "started", "other", "done"}]
         /\ kept' \in [Operator -> {"none", "same", "changed"}]
         /\ outcome' \in [Steps -> Terminal \cup {None}]
BY DEF TypeOK, RecordAll, Written, Rewritten, Kind

(* No tasks: no executor and no completion that was made up.               *)
LEMMA QuietTasks ==
  ASSUME TypeOK, Tasks = 0
  PROVE  execs = {} /\ fails = {}
<1>1. IsFiniteSet(execs)
  BY DagAssumption, FS_Subset DEF TypeOK
<1>2. IsFiniteSet(Operator) /\ IsFiniteSet({0, 1, 2})
  <2>1. IsFiniteSet({0}) /\ IsFiniteSet({1}) /\ IsFiniteSet({2})
    BY FS_Singleton
  <2>2. IsFiniteSet({0} \cup {1})
    BY <2>1, FS_Union
  <2>3. IsFiniteSet(({0} \cup {1}) \cup {2})
    BY <2>1, <2>2, FS_Union
  <2>4. {0, 1, 2} = ({0} \cup {1}) \cup {2}
    OBVIOUS
  <2> QED BY <2>3, <2>4, DagAssumption, FS_Subset
<1>3. IsFiniteSet(fails)
  BY <1>2, FS_Product, FS_Subset DEF TypeOK
<1>4. Cardinality(execs) \in Nat /\ Cardinality(fails) \in Nat
  BY <1>1, <1>3, FS_CardinalityType
<1>5. Cardinality(execs) = 0 /\ Cardinality(fails) = 0
  BY <1>4 DEF Tasks
<1> QED BY <1>1, <1>3, <1>5, FS_EmptySet

(* The top of a pass, the end of the poll and the sweep of a stop.         *)
LEMMA SweepBase ==
  ASSUME Base, BeginPass \/ EndPoll \/ CancelRows \/ CancelSteps
  PROVE  Base'
<1> USE DagAssumption DEF Base, commands, files, outside, tasks
<1>1. CASE BeginPass
  <2>1. Queued \subseteq Given
    BY DEF Queued, TypeOK
  <2> QED BY <1>1, <2>1, AskedKept DEF BeginPass, TypeOK, HandIsOfRow, EndIsQuiet, SweepIsOfStop, Given, Row, Completion, Places
<1>2. CASE EndPoll
  <2> USE <1>2 DEF EndPoll
  <2>1. fails' \subseteq Operator \X {0, 1, 2}
    <3> SUFFICES ASSUME NEW g \in fails' PROVE g \in Operator \X {0, 1, 2}
      OBVIOUS
    <3>1. CASE g \in fails
      BY <3>1 DEF TypeOK
    <3>2. CASE g \notin fails
      <4>1. PICK f \in fails : g = <<f[1], IF <<f[1], 1>> \in fails THEN 2 ELSE 1>>
        BY <3>2 DEF MadeUp
      <4>2. f[1] \in Operator
        BY DEF TypeOK
      <4> QED BY <4>1, <4>2
    <3> QED BY <3>1, <3>2
  <2> QED BY <2>1, AskedKept DEF TypeOK, HandIsOfRow, EndIsQuiet, SweepIsOfStop, Given, Row, Completion, Places
<1>3. CASE CancelRows
  <2> USE <1>3 DEF CancelRows
  <2>1. \A s \in Operator :
          /\ row'[s] \in Row
          /\ row'[s].attempt = row[s].attempt
          /\ row'[s].phase = "pending" => row[s].phase = "pending"
    <3> SUFFICES ASSUME NEW s \in Operator
                 PROVE  /\ row'[s] \in Row
                        /\ row'[s].attempt = row[s].attempt
                        /\ row'[s].phase = "pending" => row[s].phase = "pending"
      OBVIOUS
    <3>1. row[s] \in Row
      BY DEF TypeOK
    <3>2. CASE Spared(s)
      BY <3>1, <3>2
    <3>3. CASE ~Spared(s)
      <4>1. row'[s] = [row[s] EXCEPT !.phase = "cancelled", !.op = None]
        BY <3>3
      <4> QED BY <3>1, <4>1 DEF Row, Phases
    <3> QED BY <3>2, <3>3
  <2>2. TypeOK'
    <3>1. row' \in [Operator -> Row]
      BY <2>1
    <3> QED BY <3>1 DEF TypeOK, Given, Row, Completion, Places
  <2>3. PendingIsAsked' /\ AttemptsAreAsked'
    BY <2>1, AskedKept
  <2> QED BY <2>2, <2>3 DEF HandIsOfRow, EndIsQuiet, SweepIsOfStop
<1>4. CASE CancelSteps
  <2> USE <1>4 DEF CancelSteps
  <2>1. /\ meta' \in [Steps -> {"none", "started", "other", "done"}]
        /\ kept' \in [Operator -> {"none", "same", "changed"}]
        /\ outcome' \in [Steps -> Terminal \cup {None}]
    <3> DEFINE S == {s \in Unfinished : /\ active[s] = "no"
                                        /\ s \in AllDone => s \in Operator /\ row[s].phase = "cancelled"}
    <3>1. RecordAll(S, "cancelled") /\ "cancelled" \in Terminal
      BY DEF Terminal
    <3> HIDE DEF S
    <3> QED BY <3>1, RecordTypes
  <2>2. TypeOK'
    BY <2>1 DEF TypeOK, Given, Row, Completion, Places
  <2> QED BY <2>2, AskedKept DEF HandIsOfRow, EndIsQuiet, SweepIsOfStop
<1> QED BY <1>1, <1>2, <1>3, <1>4

(* Starting, blocking and giving up.                                       *)
LEMMA FillBase ==
  ASSUME Base,
         \/ \E s \in Steps : StartStep(s) \/ StartUnarchived(s) \/ BlockStep(s) \/ Reap(s)
         \/ EndFill \/ EndBlock
  PROVE  Base'
<1> USE DagAssumption DEF Base, commands, files, outside, tasks
<1>1. ASSUME NEW s \in Steps, StartStep(s) PROVE Base'
  <2> USE <1>1 DEF StartStep
  <2>0. /\ command' = command /\ receipt' = receipt /\ intent' = intent /\ stops' = stops
        /\ restarts' = restarts /\ pc' = pc /\ pc = "fill" /\ cancel' = cancel /\ outcome' = outcome
        /\ fails' = fails /\ inbox' = inbox /\ done' = done /\ result' = result /\ clash' = clash
        /\ row[s].phase = "pending" \/ s \notin Operator
    BY DEF Startable
  <2>1. /\ row' \in [Operator -> Row]
        /\ \A r \in Operator : row'[r].phase = "pending" => row'[r] = row[r]
        /\ \A r \in Operator : row'[r] = row[r] \/ (r = s /\ row'[r].attempt = row[r].attempt + 1)
    <3>1. ASSUME NEW r \in Operator
          PROVE  /\ row'[r] \in Row
                 /\ row'[r].phase = "pending" => row'[r] = row[r]
                 /\ row'[r] = row[r] \/ (r = s /\ row'[r].attempt = row[r].attempt + 1)
      <4>1. row[r] \in Row
        BY DEF TypeOK
      <4>2. CASE r = s
        <5>1. row'[r] = [row[r] EXCEPT !.attempt = @ + 1, !.phase = "running"]
          BY <4>2
        <5>2. row'[r] = [attempt |-> row[r].attempt + 1, phase |-> "running",
                         op |-> row[r].op, applied |-> row[r].applied]
          BY <4>1, <5>1 DEF Row
        <5>3. row[r].attempt \in Nat /\ row[r].op \in Given \cup {None} /\ row[r].applied \in Given \cup {None}
          BY <4>1 DEF Row
        <5>4. row'[r] \in Row /\ row'[r].phase = "running" /\ row'[r].attempt = row[r].attempt + 1
          <6> HIDE <1>1 DEF StartStep
          <6>1. row[r].attempt + 1 \in Nat /\ "running" \in Phases
            BY <5>3 DEF Phases
          <6> QED BY <5>2, <5>3, <6>1 DEF Row
        <5> QED BY <4>2, <5>4
      <4>3. CASE r # s
        BY <4>1, <4>3
      <4> QED BY <4>2, <4>3
    <3> QED BY <3>1
  <2>2. TypeOK'
    <3>1. /\ meta' \in [Steps -> {"none", "started", "other", "done"}]
          /\ kept' \in [Operator -> {"none", "same", "changed"}]
      BY DEF TypeOK, Written
    <3>2. active' \in [Steps -> {"no", "live", "stopped"}] /\ execs' \subseteq Steps
      BY DEF TypeOK
    <3> HIDE <1>1 DEF StartStep
    <3> QED BY <2>0, <2>1, <3>1, <3>2 DEF TypeOK, Given, Row, Completion
  <2>3. PendingIsAsked'
    <3> HIDE <1>1 DEF StartStep
    <3> QED BY <2>0, <2>1 DEF PendingIsAsked, Asked
  <2>4. AttemptsAreAsked'
    <3> HIDE <1>1 DEF StartStep
    <3> SUFFICES ASSUME NEW r \in Operator, NEW n \in 1 .. row'[r].attempt - 1
                 PROVE  Asked(r, n)
      BY <2>0 DEF AttemptsAreAsked, Asked
    <3>1. row[r] \in Row
      BY DEF TypeOK
    <3>2. CASE n \in 1 .. row[r].attempt - 1
      BY <3>2 DEF AttemptsAreAsked
    <3>3. CASE n \notin 1 .. row[r].attempt - 1
      <4>1. r = s /\ n = row[r].attempt /\ row[r].attempt > 0
        <5>1. CASE row'[r] = row[r]
          BY <3>3, <5>1
        <5>2. CASE r = s /\ row'[r].attempt = row[r].attempt + 1
          BY <3>1, <3>3, <5>2 DEF Row
        <5> QED BY <2>1, <5>1, <5>2
      <4> QED BY <2>0, <4>1 DEF PendingIsAsked
    <3> QED BY <3>2, <3>3
  <2> QED BY <2>2, <2>3, <2>4 DEF HandIsOfRow, EndIsQuiet, SweepIsOfStop
<1>2. ASSUME NEW s \in Steps, StartUnarchived(s) PROVE Base'
  BY <1>2, AskedKept DEF StartUnarchived, Abort, TypeOK, HandIsOfRow, EndIsQuiet, SweepIsOfStop, Given, Row, Completion, Places
<1>3. ASSUME NEW s \in Steps, BlockStep(s) PROVE Base'
  <2> USE <1>3 DEF BlockStep
  <2>1. /\ meta' \in [Steps -> {"none", "started", "other", "done"}]
        /\ kept' \in [Operator -> {"none", "same", "changed"}]
        /\ outcome' \in [Steps -> Terminal \cup {None}]
    BY RecordTypes DEF Terminal
  <2>2. TypeOK'
    BY <2>1 DEF TypeOK, Given, Row, Completion, Places
  <2> QED BY <2>2, AskedKept DEF HandIsOfRow, EndIsQuiet, SweepIsOfStop
<1>4. ASSUME NEW s \in Steps, Reap(s) PROVE Base'
  <2> USE <1>4 DEF Reap
  <2>1. /\ meta' \in [Steps -> {"none", "started", "other", "done"}]
        /\ kept' \in [Operator -> {"none", "same", "changed"}]
    BY DEF TypeOK, Written, Rewritten
  <2>2. execs' \subseteq Steps /\ fails' \subseteq Operator \X {0, 1, 2}
    BY DEF TypeOK
  <2>3. TypeOK'
    <3>1. /\ row' = row /\ command' = command /\ receipt' = receipt /\ intent' = intent /\ stops' = stops
          /\ restarts' = restarts /\ pc' = pc /\ cancel' = cancel /\ outcome' = outcome /\ active' = active
          /\ inbox' = inbox /\ done' = done /\ result' = result /\ clash' = clash
      OBVIOUS
    <3> HIDE <1>4 DEF Reap
    <3> QED BY <2>1, <2>2, <3>1 DEF TypeOK, Given, Row, Completion, Places
  <2> QED BY <2>3, AskedKept DEF HandIsOfRow, EndIsQuiet, SweepIsOfStop
<1>5. CASE EndFill
  BY <1>5, AskedKept DEF EndFill, TypeOK, HandIsOfRow, EndIsQuiet, SweepIsOfStop, Given, Row, Completion, Places
<1>6. CASE EndBlock
  BY <1>6, AskedKept DEF EndBlock, TypeOK, HandIsOfRow, EndIsQuiet, SweepIsOfStop, Given, Row, Completion, Places
<1> QED BY <1>1, <1>2, <1>3, <1>4, <1>5, <1>6

(* A completion of a managed step: its files, then its row, then the rest. *)
LEMMA CompleteBase ==
  ASSUME Base, NEW s \in Operator, NEW o \in {"done", "error", "cancelled"}, Complete(s, o),
         pc = "wait", execs' \subseteq execs, fails' \subseteq fails
  PROVE  Base'
<1> USE DagAssumption DEF Base, commands, files, outside, tasks, Complete
<1>1. row' = row /\ command' = command /\ receipt' = receipt /\ intent' = intent /\ stops' = stops
      /\ restarts' = restarts /\ pc' = "save" /\ cancel' = cancel /\ outcome' = outcome
      /\ inbox' = inbox /\ result' = result /\ clash' = clash
  OBVIOUS
<1>2. /\ meta' \in [Steps -> {"none", "started", "other", "done"}]
      /\ kept' \in [Operator -> {"none", "same", "changed"}]
  BY DEF TypeOK, Written, Rewritten, Kind
<1>3. active' \in [Steps -> {"no", "live", "stopped"}]
  BY DEF TypeOK
<1>4. done' \in Completion
  <2>1. PhaseAfter(s, o) \in Held \cup Terminal
    BY DEF PhaseAfter, Held, Terminal
  <2>2. row[s].op \in Given \cup {None}
    BY DEF TypeOK, Row
  <2> QED BY <2>1, <2>2 DEF Completion
<1> HIDE DEF Complete
<1>5. TypeOK'
  BY <1>1, <1>2, <1>3, <1>4 DEF TypeOK, Given, Row, Completion, Places
<1>6. PendingIsAsked' /\ AttemptsAreAsked'
  BY <1>1, AskedKept
<1>7. done' \in Completion'
  BY <1>1, <1>4 DEF Completion, Given
<1> QED BY <1>1, <1>5, <1>6, <1>7 DEF HandIsOfRow, EndIsQuiet, SweepIsOfStop

LEMMA JoinBase ==
  ASSUME Base, Join
  PROVE  Base'
<1> USE DagAssumption DEF Base, commands, files, outside, tasks
<1>1. ASSUME NEW s \in Steps, JoinPlain(s) PROVE Base'
  <2>1. PICK o \in Results(s) : RecordAll({s}, o)
    BY <1>1 DEF JoinPlain
  <2>2. o \in Terminal
    BY DEF Results, Terminal
  <2> USE <1>1 DEF JoinPlain
  <2>3. /\ meta' \in [Steps -> {"none", "started", "other", "done"}]
        /\ kept' \in [Operator -> {"none", "same", "changed"}]
        /\ outcome' \in [Steps -> Terminal \cup {None}]
    BY <2>1, <2>2, RecordTypes
  <2>4. active' \in [Steps -> {"no", "live", "stopped"}] /\ execs' \subseteq Steps
    BY DEF TypeOK
  <2>5. row' = row /\ command' = command /\ receipt' = receipt /\ intent' = intent /\ stops' = stops
        /\ restarts' = restarts /\ pc' = "top" /\ cancel' = cancel /\ fails' = fails
        /\ inbox' = inbox /\ done' = done /\ result' = result /\ clash' = clash
    OBVIOUS
  <2> HIDE <1>1 DEF JoinPlain
  <2>6. TypeOK'
    BY <2>3, <2>4, <2>5 DEF TypeOK, Given, Row, Completion, Places
  <2>7. PendingIsAsked' /\ AttemptsAreAsked'
    BY <2>5, AskedKept
  <2> QED BY <2>5, <2>6, <2>7 DEF HandIsOfRow, EndIsQuiet, SweepIsOfStop
<1>2. ASSUME NEW s \in Steps, JoinManaged(s) PROVE Base'
  <2>1. PICK o \in Results(s) : Complete(s, o)
    BY <1>2 DEF JoinManaged
  <2>2. o \in {"done", "error", "cancelled"}
    BY DEF Results
  <2>3. s \in Operator /\ pc = "wait" /\ execs' \subseteq execs /\ fails' \subseteq fails
    BY <1>2 DEF JoinManaged
  <2> QED BY <2>1, <2>2, <2>3, CompleteBase
<1>3. ASSUME NEW s \in Steps, JoinFail(s) PROVE Base'
  <2>1. s \in Operator /\ pc = "wait" /\ execs' \subseteq execs /\ fails' \subseteq fails
    BY <1>3 DEF JoinFail, TypeOK
  <2>2. Complete(s, "error")
    BY <1>3 DEF JoinFail
  <2> QED BY <2>1, <2>2, CompleteBase
<1> QED BY <1>1, <1>2, <1>3 DEF Join

LEMMA HandBase ==
  ASSUME Base, SaveRow \/ Reply \/ RecordStep
  PROVE  Base'
<1> USE DagAssumption DEF Base, commands, files, outside, tasks
<1>1. CASE SaveRow
  <2> USE <1>1 DEF SaveRow
  <2>1. done \in Completion /\ done.step \in Operator /\ row[done.step] \in Row
    BY DEF HandIsOfRow, Completion, TypeOK
  <2>2. done.phase \in Phases \ {"pending"}
    BY <2>1 DEF Completion, Held, Terminal, Phases
  <2>3. row' \in [Operator -> Row] /\ row'[done.step].phase = done.phase
    <3>1. CompletedRow \in Row /\ CompletedRow.phase = done.phase
      BY <2>1, <2>2 DEF Row, Completion, CompletedRow
    <3>2. row \in [Operator -> Row] /\ row' = [row EXCEPT ![done.step] = CompletedRow]
      BY DEF TypeOK
    <3> HIDE <1>1 DEF SaveRow
    <3> QED BY <2>1, <3>1, <3>2
  <2>4. \A s \in Operator : /\ row'[s].attempt = row[s].attempt
                            /\ row'[s].phase = "pending" => row[s].phase = "pending"
    BY <2>1, <2>2 DEF TypeOK, Row, CompletedRow
  <2>5. /\ pc' \in {"top", "reply", "record"}
        /\ pc' \in {"reply", "record"} => done' = done
        /\ pc' = "top" => done' = None
        /\ pc' = "record" => done.phase \notin Held
    BY DEF AfterSave
  <2>6. meta' = meta /\ kept' = kept /\ command' = command /\ receipt' = receipt /\ intent' = intent
        /\ stops' = stops /\ restarts' = restarts /\ cancel' = cancel /\ outcome' = outcome
        /\ active' = active /\ execs' = execs /\ fails' = fails /\ inbox' = inbox /\ result' = result
        /\ clash' = clash
    OBVIOUS
  <2> HIDE <1>1 DEF SaveRow
  <2>7. TypeOK'
    BY <2>1, <2>3, <2>5, <2>6 DEF TypeOK, Given, Row, Completion, Places
  <2>8. PendingIsAsked' /\ AttemptsAreAsked'
    BY <2>4, <2>6, AskedKept
  <2>9. Completion' = Completion
    BY <2>6 DEF Completion, Given
  <2>10. HandIsOfRow'
    BY <2>1, <2>3, <2>5, <2>9 DEF HandIsOfRow, Completion
  <2> QED BY <2>5, <2>7, <2>8, <2>10 DEF EndIsQuiet, SweepIsOfStop
<1>2. CASE Reply
  <2> USE <1>2 DEF Reply
  <2>1. done \in Completion
    BY DEF HandIsOfRow
  <2>2. /\ pc' \in {"top", "record"}
        /\ pc' = "record" => done' = done /\ done.phase \notin Held
        /\ pc' = "top" => done' = None
    BY DEF AfterSave
  <2>3. /\ receipt' \in [Ops -> {"none", "queued", "applied", "rejected"}]
        /\ \A op \in Ops : receipt'[op] = "none" <=> op \notin Given
    <3>1. done.verdict \in {"applied", "rejected"} /\ done.op \in Given \cup {None}
      BY <2>1 DEF Completion
    <3>2. ASSUME NEW op \in Ops
          PROVE  receipt'[op] = receipt[op] \/ (receipt'[op] \in {"applied", "rejected"} /\ op \in Given)
      BY <3>1 DEF TypeOK
    <3>3. ASSUME NEW op \in Ops
          PROVE  receipt[op] \in {"none", "queued", "applied", "rejected"}
                 /\ (receipt[op] = "none" <=> op \notin Given)
      BY DEF TypeOK
    <3>4. DOMAIN receipt' = Ops /\ receipt' = [op \in Ops |-> receipt'[op]]
      BY DEF TypeOK
    <3> HIDE <1>2 DEF Reply
    <3> QED BY <3>2, <3>3, <3>4
  <2>4. row' = row /\ meta' = meta /\ kept' = kept /\ command' = command /\ intent' = intent
        /\ stops' = stops /\ restarts' = restarts /\ cancel' = cancel /\ outcome' = outcome
        /\ active' = active /\ execs' = execs /\ fails' = fails /\ inbox' = inbox /\ result' = result
        /\ clash' = clash /\ pc = "reply"
    OBVIOUS
  <2> HIDE <1>2 DEF Reply
  <2>5. TypeOK'
    BY <2>1, <2>2, <2>3, <2>4 DEF TypeOK, Given, Row, Completion, Places
  <2>6. PendingIsAsked' /\ AttemptsAreAsked'
    BY <2>4, AskedKept
  <2>7. Completion' = Completion
    BY <2>4 DEF Completion, Given
  <2>8. HandIsOfRow'
    BY <2>1, <2>2, <2>4, <2>7 DEF HandIsOfRow, Completion
  <2> QED BY <2>2, <2>5, <2>6, <2>8 DEF EndIsQuiet, SweepIsOfStop
<1>3. CASE RecordStep
  <2> USE <1>3 DEF RecordStep
  <2>1. done.phase \in Terminal
    BY DEF HandIsOfRow
  <2>2. /\ meta' \in [Steps -> {"none", "started", "other", "done"}]
        /\ kept' \in [Operator -> {"none", "same", "changed"}]
        /\ outcome' \in [Steps -> Terminal \cup {None}]
    BY <2>1, RecordTypes
  <2>3. TypeOK'
    BY <2>2 DEF TypeOK, Given, Row, Completion, Places
  <2> QED BY <2>3, AskedKept DEF HandIsOfRow, EndIsQuiet, SweepIsOfStop
<1> QED BY <1>1, <1>2, <1>3

(* The wait that finds nothing to do, and the end of a run.                *)
LEMMA EndBase ==
  ASSUME Base, SeeStop \/ Timer \/ OnceMore \/ MarkUnfinished \/ FinishRun \/ FailRun
  PROVE  Base'
<1> USE DagAssumption DEF Base, commands, files, outside, tasks
<1>1. CASE SeeStop \/ Timer \/ OnceMore
  BY <1>1, AskedKept DEF SeeStop, Timer, OnceMore, NothingRuns, TypeOK, HandIsOfRow, EndIsQuiet, SweepIsOfStop, Given, Row, Completion, Places
<1>2. CASE MarkUnfinished
  <2> USE <1>2 DEF MarkUnfinished, NothingRuns
  <2>1. PICK o \in Terminal : RecordAll(Unfinished, o)
    BY DEF Terminal
  <2>2. /\ meta' \in [Steps -> {"none", "started", "other", "done"}]
        /\ kept' \in [Operator -> {"none", "same", "changed"}]
        /\ outcome' \in [Steps -> Terminal \cup {None}]
    BY <2>1, RecordTypes
  <2>3. TypeOK'
    BY <2>2 DEF TypeOK, Given, Row, Completion, Places
  <2>4. \A s \in Steps : outcome'[s] # None
    BY <2>1 DEF RecordAll, Unfinished, Terminal, TypeOK
  <2>5. EndIsQuiet'
    BY <2>4, QuietTasks DEF EndIsQuiet, Waiting, HeldRow
  <2> QED BY <2>3, <2>5, AskedKept DEF HandIsOfRow, SweepIsOfStop
<1>3. CASE FinishRun
  <2> USE <1>3 DEF FinishRun
  <2>1. \A s \in Operator : outcome[s] \in Terminal
    BY DEF EndIsQuiet, TypeOK
  <2>2. \A s \in Operator : /\ row'[s] \in Row
                            /\ row'[s].attempt = row[s].attempt
                            /\ row'[s].phase # "pending"
    <3> SUFFICES ASSUME NEW s \in Operator
                 PROVE  /\ row'[s] \in Row
                        /\ row'[s].attempt = row[s].attempt
                        /\ row'[s].phase # "pending"
      OBVIOUS
    <3>1. row'[s] = [row[s] EXCEPT !.phase = outcome[s]] /\ row[s] \in Row
      BY DEF TypeOK
    <3>2. outcome[s] \in Phases \ {"pending"}
      BY <2>1 DEF Terminal, Phases
    <3> QED BY <3>1, <3>2 DEF Row
  <2>3. row' \in [Operator -> Row]
    BY <2>2
  <2>4. result' \in Terminal
    BY DEF Folded, Terminal
  <2>5. TypeOK'
    BY <2>3, <2>4 DEF TypeOK, Given, Row, Completion, Places
  <2>6. PendingIsAsked' /\ AttemptsAreAsked'
    BY <2>2, AskedKept
  <2> QED BY <2>5, <2>6 DEF HandIsOfRow, EndIsQuiet, SweepIsOfStop
<1>4. CASE FailRun
  BY <1>4, AskedKept DEF FailRun, TypeOK, HandIsOfRow, EndIsQuiet, SweepIsOfStop, Given, Row, Completion, Places, Terminal
<1> QED BY <1>1, <1>2, <1>3, <1>4

(* The operator, the stop, the crash and the resume of the execution.      *)
LEMMA OutsideBase ==
  ASSUME Base, (\E op \in Ops : Submit(op)) \/ Stop \/ Crash \/ ResumeRun \/ ResumeFails
  PROVE  Base'
<1> USE DagAssumption DEF Base, commands, files, outside, tasks
<1>1. ASSUME NEW op \in Ops, Submit(op) PROVE Base'
  <2> USE <1>1 DEF Submit
  <2>1. PICK s \in Operator, a \in Actions :
          command' = [command EXCEPT ![op] = [step |-> s, action |-> a, attempt |-> row[s].attempt]]
    OBVIOUS
  <2>2. [step |-> s, action |-> a, attempt |-> row[s].attempt] \in Request
    BY DEF TypeOK, Row, Request
  <2>3. op \notin Given /\ op # None /\ command[op] = None
    BY DEF Given, Ops
  <2>4. command' \in [Ops -> Request \cup {None}] /\ Given' = Given \cup {op}
        /\ \A q \in Ops : command[q] # None => command'[q] = command[q]
    BY <2>1, <2>2, <2>3 DEF TypeOK, Given
  <2>5. /\ receipt' \in [Ops -> {"none", "queued", "applied", "rejected"}]
        /\ \A q \in Ops : receipt'[q] = "none" <=> q \notin Given'
    BY <2>4 DEF TypeOK
  <2>6. row' = row /\ meta' = meta /\ kept' = kept /\ intent' = intent /\ stops' = stops
        /\ restarts' = restarts /\ pc' = pc /\ cancel' = cancel /\ outcome' = outcome
        /\ active' = active /\ execs' = execs /\ fails' = fails /\ inbox' = inbox /\ done' = done
        /\ result' = result /\ clash' = clash /\ pc \in {"top", "fill", "wait"}
    OBVIOUS
  <2> HIDE <1>1 DEF Submit
  <2>7. row' \in [Operator -> Row'] /\ done' \in Completion' \cup {None} /\ inbox' \subseteq Given'
    <3>1. Row \subseteq Row' /\ Completion \subseteq Completion'
      BY <2>4 DEF Row, Completion
    <3>2. row \in [Operator -> Row] /\ done \in Completion \cup {None} /\ inbox \subseteq Given
      BY DEF TypeOK
    <3> QED BY <2>4, <2>6, <3>1, <3>2
  <2>8. TypeOK'
    BY <2>4, <2>5, <2>6, <2>7 DEF TypeOK
  <2>9. PendingIsAsked' /\ AttemptsAreAsked'
    <3>1. \A r \in Operator : \A n : Asked(r, n) => Asked(r, n)'
      BY <2>4 DEF Asked
    <3> QED BY <2>6, <3>1 DEF PendingIsAsked, AttemptsAreAsked
  <2> QED BY <2>6, <2>8, <2>9 DEF HandIsOfRow, EndIsQuiet, SweepIsOfStop
<1>2. CASE Stop
  <2>1. stops' \in 0 .. Stops
    BY <1>2 DEF Stop, TypeOK
  <2>2. TypeOK'
    BY <1>2, <2>1 DEF Stop, TypeOK, Given, Row, Completion
  <2> QED BY <1>2, <2>2, AskedKept DEF Stop, HandIsOfRow, EndIsQuiet, SweepIsOfStop
<1>3. CASE Crash
  <2>1. outcome' \in [Steps -> Terminal \cup {None}] /\ active' \in [Steps -> {"no", "live", "stopped"}]
    BY <1>3 DEF Crash, Forget
  <2>2. TypeOK'
    <3>1. row' = row /\ meta' = meta /\ kept' = kept /\ command' = command /\ receipt' = receipt
          /\ intent' = intent /\ stops' = stops /\ restarts' = restarts /\ cancel' = FALSE
          /\ execs' = {} /\ fails' = {} /\ inbox' = {} /\ done' = None /\ clash' = clash
          /\ pc' = "down" /\ result' = None
      BY <1>3 DEF Crash, Forget
    <3>2. Given' = Given /\ Row' = Row
      BY <3>1 DEF Given, Row
    <3> QED BY <2>1, <3>1, <3>2 DEF TypeOK, Places
  <2> QED BY <1>3, <2>2, AskedKept DEF Crash, Forget, HandIsOfRow, EndIsQuiet, SweepIsOfStop
<1>4. CASE Resume /\ (ResumeRun \/ ResumeFails)
  <2> USE <1>4
  <2>1. restarts' \in 0 .. Restarts
    BY DEF Resume, TypeOK
  <2>2. /\ outcome' \in [Steps -> Terminal \cup {None}]
        /\ result' \in Terminal \cup {None}
        /\ pc' \in {"top", "ended"}
    BY DEF ResumeRun, ResumeFails, Restored, Settled, Terminal
  <2>3. \A s \in Operator : /\ row'[s] \in Row
                            /\ row'[s].attempt = row[s].attempt
                            /\ row'[s].phase = "pending" => row[s].phase = "pending"
    <3> SUFFICES ASSUME NEW s \in Operator
                 PROVE  /\ row'[s] \in Row
                        /\ row'[s].attempt = row[s].attempt
                        /\ row'[s].phase = "pending" => row[s].phase = "pending"
      OBVIOUS
    <3>1. row[s] \in Row
      BY DEF TypeOK
    <3>2. \/ row'[s] = row[s]
          \/ row'[s] = [row[s] EXCEPT !.phase = "done"]
          \/ row'[s] = [row[s] EXCEPT !.phase = "waiting"]
      BY DEF ResumeRun, ResumeFails, Reopened
    <3>3. CASE row'[s] = [row[s] EXCEPT !.phase = "done"]
      BY <3>1, <3>3 DEF Row, Phases
    <3>4. CASE row'[s] = [row[s] EXCEPT !.phase = "waiting"]
      BY <3>1, <3>4 DEF Row, Phases
    <3> QED BY <3>1, <3>2, <3>3, <3>4
  <2>4. row' \in [Operator -> Row]
    <3>1. CASE ResumeRun
      BY <2>3, <3>1 DEF ResumeRun
    <3>2. CASE ResumeFails
      BY <3>2 DEF ResumeFails, TypeOK
    <3> QED BY <3>1, <3>2
  <2>5. active' \in [Steps -> {"no", "live", "stopped"}]
    BY DEF Resume, Forget
  <2>6. meta' = meta /\ kept' = kept /\ command' = command /\ receipt' = receipt /\ intent' = "none"
        /\ stops' = stops /\ cancel' = FALSE /\ execs' = {} /\ fails' = {} /\ inbox' = {}
        /\ done' = None /\ clash' = clash
    BY DEF Resume, Forget
  <2>7. TypeOK'
    <3>1. Given' = Given /\ Row' = Row
      BY <2>6 DEF Given, Row
    <3> QED BY <2>1, <2>2, <2>4, <2>5, <2>6, <3>1 DEF TypeOK, Places
  <2>8. PendingIsAsked' /\ AttemptsAreAsked'
    BY <2>3, <2>6, AskedKept
  <2> QED BY <2>2, <2>7, <2>8 DEF HandIsOfRow, EndIsQuiet, SweepIsOfStop
<1> QED BY <1>1, <1>2, <1>3, <1>4 DEF ResumeRun, ResumeFails

-----------------------------------------------------------------------------
(* Types are kept, and a managed step is attempted again only when the     *)
(* operator asked for it (Managed::poll and StateStore in                  *)
(* dag/src/scheduler): in every run, over crashes and resumes.             *)

LEMMA StepBase == Base /\ [Next]_vars => Base'
<1> SUFFICES ASSUME Base, [Next]_vars PROVE Base'
  OBVIOUS
<1>1. CASE Scheduler
  <2>1. CASE \E op \in Ops : Poll(op)
    BY <2>1, PollBase
  <2>2. CASE BeginPass \/ EndPoll \/ CancelRows \/ CancelSteps
    BY <2>2, SweepBase
  <2>3. CASE \/ \E s \in Steps : StartStep(s) \/ StartUnarchived(s) \/ BlockStep(s) \/ Reap(s)
             \/ EndFill \/ EndBlock
    BY <2>3, FillBase
  <2>4. CASE SaveRow \/ Reply \/ RecordStep
    BY <2>4, HandBase
  <2>5. CASE SeeStop \/ Timer \/ OnceMore \/ MarkUnfinished \/ FinishRun \/ FailRun
    BY <2>5, EndBase
  <2> QED BY <1>1, <2>1, <2>2, <2>3, <2>4, <2>5 DEF Scheduler
<1>2. CASE Join
  BY <1>2, JoinBase
<1>3. CASE (\E op \in Ops : Submit(op)) \/ Stop \/ Crash \/ ResumeRun \/ ResumeFails
  BY <1>3, OutsideBase
<1>4. CASE UNCHANGED vars
  BY <1>4, AskedKept DEF vars, files, commands, outside, tasks, Base, TypeOK, HandIsOfRow, EndIsQuiet, SweepIsOfStop,
     Given, Row, Completion, Waiting, HeldRow
<1> QED BY <1>1, <1>2, <1>3, <1>4 DEF Next

(* Types, requests and the hand of the scheduler, in every run.             *)
THEOREM BaseInvariant == Spec => []Base
BY InitBase, StepBase, PTL DEF Spec

(* Every variable keeps its type.                                          *)
THEOREM TypeCorrect == Spec => []TypeOK
<1>1. Base => TypeOK
  BY DEF Base
<1> QED BY <1>1, BaseInvariant, PTL

(* Each attempt of a managed step after the first was asked for.           *)
THEOREM AttemptsAsked == Spec => []AttemptsAreAsked
<1>1. Base => AttemptsAreAsked
  BY DEF Base
<1> QED BY <1>1, BaseInvariant, PTL

-----------------------------------------------------------------------------
(* As long as no completion is made up for a step that did not wait for    *)
(* its operator, files, rows, outcomes and executors agree.                *)

(* Steps of the scheduler that change no row, no file and no outcome.      *)
LEMMA QuietOrderly ==
  ASSUME Base, Orderly, ~clash,
         row' = row, meta' = meta, outcome' = outcome, active' = active, execs' = execs,
         cancel => cancel',
         \A op \in Given : command'[op] = command[op],
         pc \notin {"finish", "ended", "down"}, ~InHand, ~InHand', pc' # "sweepSteps",
         pc = "reap" => pc' \in {"reap", "ended"},
         \A f \in fails' : \E g \in fails : g[1] = f[1],
         \A f, g \in fails' : f[1] = g[1] => f = g
  PROVE  Orderly' /\ Stands
<1> USE DEF Orderly
<1>1. RowsAreSwept' /\ ExecsRun' /\ HandIsFree' /\ AttemptsWereReady' /\ NeedsAreMet'
  BY DEF RowsAreSwept, ExecsRun, HandIsFree, AttemptsWereReady, NeedsAreMet
<1>2. FailsWait'
  <2> SUFFICES ASSUME NEW f \in fails'
               PROVE  /\ f[1] \notin execs /\ Unsettled(f[1])' /\ row[f[1]].attempt > 0
                      /\ \/ row[f[1]].phase = "cancelled"
                         \/ /\ row[f[1]].phase \in Held
                            /\ row[f[1]].op # None /\ command'[row[f[1]].op].action = "fail"
    BY DEF FailsWait
  <2>1. PICK g \in fails : g[1] = f[1]
    OBVIOUS
  <2>2. f[1] \in Operator /\ row[f[1]] \in Row
    BY <2>1 DEF Base, TypeOK
  <2>3. row[f[1]].op \in Given \cup {None}
    BY <2>2 DEF Row
  <2> QED BY <2>1, <2>3 DEF FailsWait, Unsettled
<1>3. SuccessIsKnown'
  BY DEF SuccessIsKnown
<1>4. RowsAreFinal' /\ OutcomesAreFinal'
  BY DEF RowsAreFinal, OutcomesAreFinal, HeldRow
<1>5. Stands
  BY DEF Stands
<1> QED BY <1>1, <1>2, <1>3, <1>4, <1>5

LEMMA QuietActions ==
  ASSUME Base, Orderly, ~clash, ~clash',
         \/ BeginPass \/ EndPoll \/ EndFill \/ EndBlock \/ SeeStop \/ Timer \/ OnceMore \/ FailRun \/ Stop
         \/ \E op \in Ops : AnswerAtOnce(op) \/ FailUnarchived(op) \/ Acknowledge(op) \/ Submit(op)
         \/ \E s \in Steps : StartUnarchived(s)
  PROVE  Orderly' /\ Stands
<1> USE DEF commands, files, outside, tasks
<1>1. CASE BeginPass \/ EndFill \/ EndBlock \/ SeeStop \/ Timer \/ OnceMore \/ FailRun \/ Stop
  <2>1. \A f, g \in fails : f[1] = g[1] => f = g
    BY DEF Orderly, FailsWait
  <2>2. /\ fails' = fails /\ command' = command
        /\ row' = row /\ meta' = meta /\ outcome' = outcome /\ active' = active /\ execs' = execs /\ (cancel => cancel')
        /\ pc \notin {"finish", "ended", "down"} /\ ~InHand /\ ~InHand' /\ pc' # "sweepSteps"
        /\ pc = "reap" => pc' \in {"reap", "ended"}
    <3>1. CASE BeginPass BY <3>1 DEF BeginPass
    <3>2. CASE EndFill \/ EndBlock BY <3>2 DEF EndFill, EndBlock
    <3>3. CASE SeeStop \/ Timer BY <3>3 DEF SeeStop, Timer
    <3>4. CASE OnceMore BY <3>4 DEF OnceMore, NothingRuns
    <3>5. CASE FailRun \/ Stop BY <3>5 DEF FailRun, Stop
    <3> QED BY <1>1, <3>1, <3>2, <3>3, <3>4, <3>5
  <2>3. \A f \in fails' : \E g \in fails : g[1] = f[1]
    BY <2>2
  <2> QED BY <2>1, <2>2, <2>3, QuietOrderly
<1>2. CASE EndPoll
  <2> DEFINE Tag(g) == IF <<g[1], 1>> \in fails THEN 2 ELSE 1
  <2>1. \A f, g \in fails : f[1] = g[1] => f = g
    BY DEF Orderly, FailsWait
  <2>2. ASSUME NEW f \in fails'
        PROVE  \E g \in fails : g[1] = f[1] /\ f = IF g[2] = 0 THEN <<g[1], Tag(g)>> ELSE g
    <3>1. fails' = {g \in fails : g[2] # 0} \cup {<<g[1], Tag(g)>> : g \in MadeUp}
      BY <1>2 DEF EndPoll, MadeUp
    <3>2. CASE f \in {g \in fails : g[2] # 0}
      BY <3>2
    <3>3. CASE f \in {<<g[1], Tag(g)>> : g \in MadeUp}
      <4>1. PICK g \in MadeUp : f = <<g[1], Tag(g)>>
        BY <3>3
      <4> QED BY <4>1 DEF MadeUp
    <3> QED BY <3>1, <3>2, <3>3
  <2>3. \A f, g \in fails' : f[1] = g[1] => f = g
    <3> SUFFICES ASSUME NEW f \in fails', NEW g \in fails', f[1] = g[1] PROVE f = g
      OBVIOUS
    <3>1. PICK h \in fails : h[1] = f[1] /\ f = IF h[2] = 0 THEN <<h[1], Tag(h)>> ELSE h
      BY <2>2
    <3>2. PICK k \in fails : k[1] = g[1] /\ g = IF k[2] = 0 THEN <<k[1], Tag(k)>> ELSE k
      BY <2>2
    <3>3. h = k
      BY <2>1, <3>1, <3>2
    <3> QED BY <3>1, <3>2, <3>3
  <2>4. /\ row' = row /\ meta' = meta /\ outcome' = outcome /\ active' = active /\ execs' = execs
        /\ cancel' = cancel /\ command' = command /\ pc = "poll" /\ pc' \in {"sweepRows", "fill"}
    BY <1>2 DEF EndPoll
  <2>5. \A f \in fails' : \E g \in fails : g[1] = f[1]
    BY <2>2
  <2> HIDE DEF Tag
  <2> QED BY <2>3, <2>4, <2>5, QuietOrderly
<1>3. ASSUME NEW op \in Ops, AnswerAtOnce(op) \/ FailUnarchived(op) \/ Acknowledge(op) \/ Submit(op)
      PROVE  Orderly' /\ Stands
  <2>1. \A f, g \in fails' : f \in fails /\ (f[1] = g[1] => f = g)
    BY <1>3 DEF Orderly, FailsWait, AnswerAtOnce, FailUnarchived, Acknowledge, Submit
  <2>2. \A q \in Given : command'[q] = command[q]
    BY <1>3 DEF AnswerAtOnce, FailUnarchived, Acknowledge, Submit, Given, Base, TypeOK
  <2> QED BY <1>3, <2>1, <2>2, QuietOrderly
          DEF AnswerAtOnce, FailUnarchived, Acknowledge, Submit, Accepted, Polling, NextCommand, Abort
<1>4. ASSUME NEW s \in Steps, StartUnarchived(s)
      PROVE  Orderly' /\ Stands
  <2>1. \A f, g \in fails : f[1] = g[1] => f = g
    BY DEF Orderly, FailsWait
  <2> QED BY <1>4, <2>1, QuietOrderly DEF StartUnarchived, Abort
<1> QED BY <1>1, <1>2, <1>3, <1>4

(* Touching the row of one step in a poll.                                 *)
LEMMA RowOrderly ==
  ASSUME Base, Orderly, ~clash, NEW t \in Operator,
         meta' = meta, outcome' = outcome, execs' = execs,
         pc = "poll", pc' \in {"poll", "ack"},
         \A s \in Operator \ {t} : row'[s] = row[s],
         row'[t].attempt = row[t].attempt,
         \/ row'[t].phase = row[t].phase
         \/ t \notin execs /\ meta[t] # "done" /\ (outcome[t] # None => row[t].attempt = 0),
         \A s \in Steps : active[s] # "no" => active'[s] # "no"
  PROVE  /\ RowsAreSwept' /\ ExecsRun' /\ HandIsFree' /\ SuccessIsKnown' /\ AttemptsWereReady'
         /\ RowsAreFinal' /\ OutcomesAreFinal' /\ NeedsAreMet' /\ Stands
<1> USE DagAssumption DEF Orderly
<1>1. row[t] \in Row /\ row[t].attempt \in Nat
  BY DEF Base, TypeOK, Row
<1>2. RowsAreSwept' /\ HandIsFree'
  BY DEF RowsAreSwept, HandIsFree
<1>3. ExecsRun'
  <2> SUFFICES ASSUME NEW s \in execs
               PROVE  /\ active'[s] # "no" /\ outcome[s] = None /\ meta[s] = "started"
                      /\ s \in Operator => row'[s].phase = "running" /\ row'[s].attempt > 0
    BY DEF ExecsRun
  <2>1. s \in Steps /\ active[s] # "no" /\ outcome[s] = None /\ meta[s] = "started"
        /\ (s \in Operator => row[s].phase = "running" /\ row[s].attempt > 0)
    BY DEF ExecsRun, Base, TypeOK
  <2>2. CASE s = t
    BY <2>1, <2>2
  <2>3. CASE s # t
    BY <2>1, <2>3
  <2> QED BY <2>2, <2>3
<1>4. SuccessIsKnown'
  <2> SUFFICES ASSUME NEW s \in Steps
               PROVE  /\ outcome[s] = "done" => meta[s] = "done"
                      /\ meta[s] = "done" =>
                           /\ s \in Operator => row'[s].phase \in {"running", "done"} /\ row'[s].attempt > 0
                           /\ outcome[s] = "done"
    BY DEF SuccessIsKnown
  <2>1. CASE s = t
    BY <2>1 DEF SuccessIsKnown
  <2>2. CASE s # t
    BY <2>2 DEF SuccessIsKnown
  <2> QED BY <2>1, <2>2
<1>5. AttemptsWereReady' /\ NeedsAreMet'
  BY DEF AttemptsWereReady, NeedsAreMet
<1>6. RowsAreFinal'
  BY <1>1 DEF RowsAreFinal
<1>7. OutcomesAreFinal'
  <2> SUFFICES ASSUME NEW s \in Steps, outcome[s] # None
               PROVE  s \notin execs /\ (HeldRow(s)' => row'[s].attempt = 0)
    BY DEF OutcomesAreFinal
  <2>1. s \notin execs /\ (HeldRow(s) => row[s].attempt = 0)
    BY DEF OutcomesAreFinal
  <2>2. CASE s = t
    BY <2>1, <2>2 DEF HeldRow
  <2>3. CASE s # t
    BY <2>1, <2>3 DEF HeldRow
  <2> QED BY <2>2, <2>3
<1> QED BY <1>2, <1>3, <1>4, <1>5, <1>6, <1>7 DEF Stands

(* What the mailbox does to a step: its token, a made-up failure, its row. *)
LEMMA PollOrderly ==
  ASSUME Base, Orderly, ~clash, ~clash', NEW op \in Ops,
         StopAttempt(op) \/ FailInactive(op) \/ ApplyInactive(op)
  PROVE  Orderly' /\ Stands
<1> USE DagAssumption DEF Orderly, commands, files, outside, tasks, HeldRow, Held, Terminal
<1> DEFINE t == Target(op)
<1>1. /\ op \in inbox /\ pc = "poll" /\ op \in Given /\ op # None /\ t \in Operator /\ row[t] \in Row
      /\ command[op].action \in Actions
  BY DEF StopAttempt, FailInactive, ApplyInactive, Accepted, Polling, Base, TypeOK, Given, Target, Request
<1>2. /\ ~cancel /\ row[t].phase \notin Terminal /\ row[t].op \in {None, op}
      /\ command[op].action \in {"resume", "retry"} => row[t].phase \in Held
  BY DEF StopAttempt, FailInactive, ApplyInactive, Accepted, Refused, WasApplied
<1>3. meta' = meta /\ outcome' = outcome /\ execs' = execs /\ command' = command /\ cancel' = cancel
      /\ pc' \in {"poll", "ack"} /\ (pc' = "ack" => ApplyInactive(op))
  BY <1>1 DEF StopAttempt, FailInactive, ApplyInactive, Accepted, NextCommand, Polling
<1>4. \A s \in Operator \ {t} : row'[s] = row[s]
  BY <1>1 DEF StopAttempt, FailInactive, ApplyInactive, Base, TypeOK
<1>5. row'[t].attempt = row[t].attempt
  <2>1. CASE StopAttempt(op)
    BY <1>1, <2>1 DEF StopAttempt, Base, TypeOK, Row
  <2>2. CASE FailInactive(op)
    BY <1>1, <2>2 DEF FailInactive, Base, TypeOK, Row
  <2>3. CASE ApplyInactive(op)
    BY <1>1, <2>3 DEF ApplyInactive, Base, TypeOK, Row
  <2> QED BY <2>1, <2>2, <2>3
<1>6. \A s \in Steps : active[s] # "no" => active'[s] # "no"
  BY <1>1 DEF StopAttempt, FailInactive, ApplyInactive, Base, TypeOK
<1>7. meta[t] # "done" /\ (outcome[t] # None => row[t].attempt = 0)
  BY <1>1, <1>2 DEF SuccessIsKnown, RowsAreFinal, Row
<1>8. \A f \in fails : f[1] \in Operator /\ row[f[1]] \in Row
  BY DEF Base, TypeOK
<1>9. CASE StopAttempt(op)
  <2>1. row'[t].phase = row[t].phase /\ row'[t].op = op /\ fails' = fails
    BY <1>1, <1>9 DEF StopAttempt, Base, TypeOK, Row
  <2> HIDE DEF t
  <2>2. \A f \in fails : f[1] = t => row[t].op = op
    BY <1>2 DEF FailsWait
  <2>3. FailsWait'
    <3> SUFFICES ASSUME NEW f \in fails
                 PROVE  /\ row'[f[1]].attempt = row[f[1]].attempt /\ row'[f[1]].phase = row[f[1]].phase
                        /\ row'[f[1]].op = row[f[1]].op
      BY <1>3, <2>1 DEF FailsWait, Unsettled
    <3>1. CASE f[1] = t
      BY <1>5, <2>1, <2>2, <3>1
    <3>2. CASE f[1] # t
      BY <1>4, <1>8, <3>2
    <3> QED BY <3>1, <3>2
  <2> QED BY <1>1, <1>3, <1>4, <1>5, <1>6, <2>1, <2>3, RowOrderly
<1>10. CASE FailInactive(op)
  <2>1. row'[t].phase = row[t].phase /\ row'[t].op = op
    BY <1>1, <1>10 DEF FailInactive, Base, TypeOK, Row
  <2>2. /\ fails' = fails \cup {<<t, 0>>} /\ ~Failing(t) /\ row[t].phase \in Held /\ row[t].attempt > 0
        /\ active[t] = "no" /\ command[op].action = "fail"
    BY <1>10 DEF FailInactive, Inspected, Accepted
  <2> HIDE DEF t
  <2>3. t \notin execs /\ outcome[t] = None
    BY <2>2, <1>7 DEF ExecsRun
  <2>4. \A f \in fails : f[1] # t
    BY <2>2 DEF Failing
  <2>5. FailsWait'
    <3> SUFFICES ASSUME NEW f \in fails'
                 PROVE  /\ f[1] \notin execs /\ Unsettled(f[1]) /\ row'[f[1]].attempt > 0
                        /\ \/ row'[f[1]].phase = "cancelled"
                           \/ /\ row'[f[1]].phase \in Held
                              /\ row'[f[1]].op # None /\ command[row'[f[1]].op].action = "fail"
                        /\ \A g \in fails' : g[1] = f[1] => g = f
      BY <1>3 DEF FailsWait, Unsettled
    <3>1. CASE f = <<t, 0>>
      BY <1>1, <1>5, <2>1, <2>2, <2>3, <2>4, <3>1 DEF Unsettled
    <3>2. CASE f \in fails
      BY <1>4, <1>8, <2>2, <2>4, <3>2 DEF FailsWait
    <3> QED BY <2>2, <3>1, <3>2
  <2> QED BY <1>1, <1>3, <1>4, <1>5, <1>6, <2>1, <2>5, RowOrderly
<1>11. CASE ApplyInactive(op)
  <2>1. fails' = fails /\ active[t] = "no" /\ command[op].action # "fail"
    BY <1>11 DEF ApplyInactive, Accepted
  <2> HIDE DEF t
  <2>2. t \notin execs
    BY <2>1 DEF ExecsRun
  <2>3. \A f \in fails : f[1] # t
    BY <1>2, <2>1 DEF FailsWait
  <2>4. FailsWait'
    <3>1. \A f \in fails : row'[f[1]] = row[f[1]]
      BY <1>4, <1>8, <2>3
    <3> QED BY <1>3, <2>1, <3>1 DEF FailsWait, Unsettled
  <2> QED BY <1>1, <1>3, <1>4, <1>5, <1>6, <1>7, <2>2, <2>4, RowOrderly
<1> QED BY <1>9, <1>10, <1>11

(* Giving an outcome to steps that have none, do not run and do not wait.  *)
LEMMA RecordOrderly ==
  ASSUME Base, Orderly, ~clash,
         NEW S \in SUBSET Unfinished, NEW o \in {"error", "cancelled"}, RecordAll(S, o),
         row' = row, execs' = execs, active' = active, cancel' = cancel, fails' = fails, command' = command,
         pc \in {"sweepSteps", "block", "wait"}, pc' \in {"fill", "block", "finish"},
         \A s \in S : s \notin execs /\ (HeldRow(s) => row[s].attempt = 0),
         \A s \in S \cap Operator : row[s].attempt > 0 => pc' = "finish" \/ row[s].phase \in Terminal,
         \A f \in fails : f[1] \in S => cancel /\ o = "cancelled"
  PROVE  Orderly' /\ Stands
<1> USE DagAssumption DEF Orderly
<1>1. \A s \in Steps : /\ s \in S => outcome[s] = None /\ outcome'[s] = o /\ meta'[s] = "other"
                       /\ s \notin S => outcome'[s] = outcome[s] /\ meta'[s] = meta[s]
  BY DEF RecordAll, Written, Kind, Unfinished
<1>2. \A s \in S : s \in Steps /\ meta[s] # "done"
  BY DEF SuccessIsKnown, Unfinished, Terminal
<1>3. o # None
  BY DEF Terminal
<1>4. execs \subseteq Steps /\ \A f \in fails : f[1] \in Steps
  BY DEF Base, TypeOK
<1>5. RowsAreSwept' /\ HandIsFree'
  BY DEF RowsAreSwept, HandIsFree
<1>6. ExecsRun'
  BY <1>1, <1>4 DEF ExecsRun
<1>7. FailsWait'
  <2>1. \A f \in fails : Unsettled(f[1]) => Unsettled(f[1])'
    BY <1>1, <1>4 DEF Unsettled
  <2> QED BY <2>1 DEF FailsWait
<1>8. SuccessIsKnown'
  BY <1>1, <1>2 DEF SuccessIsKnown
<1>9. AttemptsWereReady'
  <2>1. \A s \in Steps : DependsOn[s] \subseteq Steps
    OBVIOUS
  <2> QED BY <1>1, <1>2, <2>1 DEF AttemptsWereReady
<1>10. RowsAreFinal'
  BY <1>1 DEF RowsAreFinal
<1>11. OutcomesAreFinal'
  BY <1>1 DEF OutcomesAreFinal, HeldRow
<1>12. NeedsAreMet'
  <2>1. \A s \in Steps : DependsOn[s] \subseteq Steps
    OBVIOUS
  <2> QED BY <1>1, <1>2, <1>3, <1>4, <2>1 DEF NeedsAreMet
<1>13. Stands
  BY <1>1, <1>2 DEF Stands
<1> QED BY <1>5, <1>6, <1>7, <1>8, <1>9, <1>10, <1>11, <1>12, <1>13

(* The sweep of a stop: rows first, then outcomes.                         *)
LEMMA CancelRowsOrderly ==
  ASSUME Base, Orderly, ~clash, CancelRows
  PROVE  Orderly' /\ Stands
<1> USE DagAssumption DEF Orderly, commands, files, outside, tasks
<1>1. pc = "sweepRows" /\ pc' = "sweepSteps" /\ cancel' = cancel /\ cancel /\ meta' = meta /\ outcome' = outcome
      /\ active' = active /\ execs' = execs /\ fails' = fails /\ command' = command
  BY DEF CancelRows, Base, SweepIsOfStop
<1>2. \A s \in Operator : /\ row'[s].attempt = row[s].attempt
                          /\ Spared(s) => row'[s] = row[s]
                          /\ ~Spared(s) => row'[s].phase = "cancelled"
  <2> SUFFICES ASSUME NEW s \in Operator
               PROVE  /\ row'[s].attempt = row[s].attempt
                      /\ Spared(s) => row'[s] = row[s]
                      /\ ~Spared(s) => row'[s].phase = "cancelled"
    OBVIOUS
  <2>1. row'[s] = IF Spared(s) THEN row[s] ELSE [row[s] EXCEPT !.phase = "cancelled", !.op = None]
    BY DEF CancelRows
  <2>2. row[s] \in Row
    BY DEF Base, TypeOK
  <2> QED BY <2>1, <2>2 DEF Row
<1>3. Operator \subseteq Steps /\ execs \subseteq Steps /\ \A f \in fails : f[1] \in Operator
  BY DEF Base, TypeOK
<1>4. RowsAreSwept' /\ HandIsFree'
  BY <1>1, <1>2 DEF RowsAreSwept, HandIsFree, Spared, Terminal
<1>5. ExecsRun'
  BY <1>1, <1>2, <1>3 DEF ExecsRun, Spared
<1>6. FailsWait'
  <2>1. \A f \in fails : row'[f[1]] = row[f[1]] \/ row'[f[1]].phase = "cancelled"
    BY <1>2, <1>3
  <2> QED BY <1>1, <1>2, <1>3, <2>1 DEF FailsWait, Unsettled
<1>7. SuccessIsKnown'
  <2>1. \A s \in Operator : meta[s] = "done" => row[s].phase = "done"
    BY <1>1 DEF SuccessIsKnown, RowsAreFinal, Terminal
  <2>2. \A s \in Operator : meta[s] = "done" => Spared(s)
    BY <2>1 DEF Spared, Terminal
  <2> QED BY <1>1, <1>2, <2>2 DEF SuccessIsKnown
<1>8. AttemptsWereReady' /\ NeedsAreMet'
  BY <1>1, <1>2 DEF AttemptsWereReady, NeedsAreMet
<1>9. RowsAreFinal'
  BY <1>1, <1>2 DEF RowsAreFinal, Terminal
<1>10. OutcomesAreFinal'
  BY <1>1, <1>2 DEF OutcomesAreFinal, HeldRow, Held
<1> QED BY <1>1, <1>4, <1>5, <1>6, <1>7, <1>8, <1>9, <1>10 DEF Stands

LEMMA CancelStepsOrderly ==
  ASSUME Base, Orderly, ~clash, CancelSteps
  PROVE  Orderly' /\ Stands
<1> USE DagAssumption DEF Orderly, commands, files, outside, tasks
<1> DEFINE S == {s \in Unfinished : /\ active[s] = "no"
                                    /\ s \in AllDone => s \in Operator /\ row[s].phase = "cancelled"}
<1>1. /\ RecordAll(S, "cancelled") /\ S \in SUBSET Unfinished
      /\ row' = row /\ execs' = execs /\ active' = active /\ cancel' = cancel /\ fails' = fails
      /\ command' = command /\ pc = "sweepSteps" /\ pc' = "fill" /\ cancel
  BY DEF CancelSteps, Base, SweepIsOfStop
<1>2. \A s \in S \cap Operator : row[s].phase \in Terminal
  BY <1>1 DEF RowsAreSwept, Terminal
<1>3. \A s \in S : s \notin execs /\ (HeldRow(s) => row[s].attempt = 0)
  BY <1>2 DEF ExecsRun, HeldRow, Held, Terminal
<1> HIDE DEF S
<1> QED BY <1>1, <1>2, <1>3, RecordOrderly

(* A step that can no longer run was never attempted.                      *)
LEMMA BlockOrderly ==
  ASSUME Base, Orderly, ~clash, NEW s \in Steps, BlockStep(s)
  PROVE  Orderly' /\ Stands
<1> USE DagAssumption DEF Orderly, commands, files, outside, tasks
<1>1. /\ RecordAll({s}, "error") /\ s \in Unfinished /\ s \notin AllDone /\ active[s] = "no"
      /\ row' = row /\ execs' = execs /\ active' = active /\ cancel' = cancel /\ fails' = fails
      /\ command' = command /\ pc = "block" /\ pc' = "block"
  BY DEF BlockStep, Blocked
<1>2. PICK d \in DependsOn[s] : outcome[d] # "done" /\ d \in Steps
  BY DEF BlockStep, Blocked
<1>3. meta[d] # "done"
  BY <1>1, <1>2 DEF SuccessIsKnown
<1>4. s \in Operator => ~(row[s].attempt > 0) /\ row[s].attempt = 0
  BY <1>1, <1>2, <1>3 DEF AttemptsWereReady, Base, TypeOK, Row
<1>5. s \notin execs /\ \A f \in fails : f[1] # s
  <2>1. s \notin execs
    BY <1>1 DEF ExecsRun
  <2>2. \A f \in fails : f[1] \in Operator /\ row[f[1]].attempt > 0
    BY DEF FailsWait, Base, TypeOK
  <2> QED BY <1>4, <2>1, <2>2
<1>6. HeldRow(s) => row[s].attempt = 0
  BY <1>4 DEF HeldRow
<1> QED BY <1>1, <1>4, <1>5, <1>6, RecordOrderly

(* What is left when nothing runs and nothing waits.                       *)
LEMMA MarkOrderly ==
  ASSUME Base, Orderly, ~clash, MarkUnfinished
  PROVE  Orderly' /\ Stands
<1> USE DagAssumption DEF commands, files, outside, tasks
<1>1. PICK o \in {"error", "cancelled"} : RecordAll(Unfinished, o)
  BY DEF MarkUnfinished
<1>2. row' = row /\ execs' = execs /\ active' = active /\ cancel' = cancel /\ fails' = fails
      /\ command' = command /\ pc = "wait" /\ pc' = "finish" /\ ~Waiting
  BY DEF MarkUnfinished, NothingRuns
<1>3. execs = {} /\ fails = {}
  BY QuietTasks DEF MarkUnfinished, NothingRuns, Base
<1>4. \A s \in Steps : ~HeldRow(s)
  BY <1>2 DEF Waiting
<1>5. Unfinished \in SUBSET Unfinished /\ Unfinished \subseteq Steps
  BY DEF Unfinished
<1> QED BY <1>1, <1>2, <1>3, <1>4, <1>5, RecordOrderly

(* A step starts: what it needs has succeeded, and stays so.               *)
LEMMA StartOrderly ==
  ASSUME Base, Orderly, ~clash, NEW s \in Steps, StartStep(s)
  PROVE  Orderly' /\ Stands
<1> USE DagAssumption DEF Orderly, commands, files, outside, tasks
<1>1. /\ pc = "fill" /\ pc' = "fill" /\ outcome' = outcome /\ cancel' = cancel /\ command' = command
      /\ fails' = fails /\ execs' = execs \cup {s}
      /\ outcome[s] = None /\ s \in ReadySteps /\ active[s] = "no"
      /\ s \in Operator => row[s].phase = "pending"
  BY DEF StartStep, Startable, ReadySteps, Unfinished
<1>2. /\ \A r \in Operator \ {s} : row'[r] = row[r]
      /\ s \in Operator => row'[s].phase = "running" /\ row'[s].attempt > 0
      /\ s \in Operator => row[s].attempt \in Nat
  <2>1. s \in Operator => row[s] \in Row /\ row'[s] = [row[s] EXCEPT !.attempt = @ + 1, !.phase = "running"]
    BY DEF StartStep, Base, TypeOK
  <2>2. s \in Operator => /\ row[s].attempt \in Nat
                         /\ row'[s].attempt = row[s].attempt + 1 /\ row'[s].phase = "running"
    <3> SUFFICES ASSUME s \in Operator
                 PROVE  /\ row[s].attempt \in Nat
                        /\ row'[s].attempt = row[s].attempt + 1 /\ row'[s].phase = "running"
      OBVIOUS
    <3> QED BY <2>1 DEF Row
  <2>3. \A r \in Operator \ {s} : row'[r] = row[r]
    BY DEF StartStep
  <2> QED BY <2>2, <2>3
<1>3. \A r \in Steps : /\ r # s => meta'[r] = meta[r] /\ active'[r] = active[r]
                       /\ r = s => meta'[r] = "started" /\ active'[r] = "live"
  BY DEF StartStep, Written, Base, TypeOK
<1>4. meta[s] # "done"
  BY <1>1 DEF SuccessIsKnown, Terminal
<1>5. execs \subseteq Steps /\ (\A f \in fails : f[1] \in Operator) /\ \A r \in Steps : DependsOn[r] \subseteq Steps
  BY DEF Base, TypeOK
<1>6. RowsAreSwept' /\ HandIsFree'
  BY <1>1 DEF RowsAreSwept, HandIsFree
<1>7. ExecsRun'
  <2> SUFFICES ASSUME NEW r \in execs'
               PROVE  /\ active'[r] # "no" /\ outcome[r] = None /\ meta'[r] = "started"
                      /\ r \in Operator => row'[r].phase = "running" /\ row'[r].attempt > 0
    BY <1>1 DEF ExecsRun
  <2>1. CASE r = s
    BY <1>1, <1>2, <1>3, <2>1
  <2>2. CASE r # s
    BY <1>1, <1>2, <1>3, <1>5, <2>2 DEF ExecsRun
  <2> QED BY <2>1, <2>2
<1>8. FailsWait'
  <2>1. \A f \in fails : f[1] # s
    BY <1>1, <1>5 DEF FailsWait, Held
  <2> QED BY <1>1, <1>2, <1>5, <2>1 DEF FailsWait, Unsettled
<1>9. SuccessIsKnown'
  BY <1>1, <1>2, <1>3, <1>4 DEF SuccessIsKnown
<1>10. s \notin AllDone => \A d \in DependsOn[s] : meta'[d] = "done"
  BY <1>1, <1>3, <1>4, <1>5 DEF ReadySteps, SuccessIsKnown
<1>11. AttemptsWereReady'
  <2> SUFFICES ASSUME NEW r \in Operator \ AllDone, row'[r].attempt > 0, NEW d \in DependsOn[r]
               PROVE  meta'[d] = "done"
    BY DEF AttemptsWereReady
  <2>1. CASE r = s
    BY <1>10, <2>1
  <2>2. CASE r # s
    BY <1>2, <1>3, <1>4, <1>5, <2>2 DEF AttemptsWereReady
  <2> QED BY <2>1, <2>2
<1>12. RowsAreFinal'
  BY <1>1, <1>2 DEF RowsAreFinal
<1>13. OutcomesAreFinal'
  BY <1>1, <1>2 DEF OutcomesAreFinal, HeldRow
<1>14. NeedsAreMet'
  <2>1. \A d \in DependsOn[s] : outcome[d] # None
    BY <1>1 DEF ReadySteps, Terminal
  <2> QED BY <1>1, <1>3, <1>4, <1>5, <1>10, <2>1 DEF NeedsAreMet
<1>15. Stands
  BY <1>1, <1>3, <1>4 DEF Stands
<1> QED BY <1>6, <1>7, <1>8, <1>9, <1>11, <1>12, <1>13, <1>14, <1>15

(* An executor or a made-up completion is reaped: its files are written,   *)
(* and no outcome.                                                         *)
LEMMA ReapOrderly ==
  ASSUME Base, Orderly, ~clash, NEW s \in Steps, Reap(s)
  PROVE  Orderly' /\ Stands
<1> USE DagAssumption DEF Orderly, commands, files, outside, tasks
<1>1. /\ pc = "reap" /\ pc' = "reap" /\ row' = row /\ outcome' = outcome /\ active' = active
      /\ cancel' = cancel /\ command' = command /\ execs' = execs \ {s} /\ fails' \subseteq fails
      /\ s \in execs \/ Failing(s)
  BY DEF Reap
<1>2. /\ \A r \in Steps : r # s => meta'[r] = meta[r]
      /\ meta'[s] = "done" => s \in execs
  BY DEF Reap, Written
<1>3. execs \subseteq Steps /\ (\A f \in fails : f[1] \in Operator) /\ \A r \in Steps : DependsOn[r] \subseteq Steps
  BY DEF Base, TypeOK
<1>4. meta[s] # "done" /\ outcome[s] # "done"
  <2>1. CASE s \in execs
    BY <2>1 DEF ExecsRun, Terminal
  <2>2. CASE Failing(s)
    BY <2>2, <1>3 DEF Failing, FailsWait, Unsettled, SuccessIsKnown, Held, Terminal
  <2> QED BY <1>1, <2>1, <2>2
<1>5. RowsAreSwept' /\ HandIsFree' /\ RowsAreFinal' /\ OutcomesAreFinal'
  BY <1>1 DEF RowsAreSwept, HandIsFree, RowsAreFinal, OutcomesAreFinal, HeldRow
<1>6. ExecsRun'
  BY <1>1, <1>2, <1>3 DEF ExecsRun
<1>7. FailsWait'
  BY <1>1 DEF FailsWait, Unsettled
<1>8. SuccessIsKnown'
  BY <1>1, <1>2, <1>4 DEF SuccessIsKnown, ExecsRun
<1>9. AttemptsWereReady' /\ NeedsAreMet'
  BY <1>1, <1>2, <1>3, <1>4 DEF AttemptsWereReady, NeedsAreMet
<1>10. Stands
  BY <1>1, <1>2, <1>4 DEF Stands
<1> QED BY <1>5, <1>6, <1>7, <1>8, <1>9, <1>10

(* The completion of a step that is not managed.                           *)
LEMMA JoinPlainOrderly ==
  ASSUME Base, Orderly, ~clash, NEW s \in Steps, JoinPlain(s)
  PROVE  Orderly' /\ Stands
<1> USE DagAssumption DEF Orderly, commands, files, outside, tasks
<1>1. PICK o \in Terminal : RecordAll({s}, o)
  BY DEF JoinPlain, Results, Terminal
<1>2. /\ pc = "wait" /\ pc' = "top" /\ row' = row /\ cancel' = cancel /\ command' = command
      /\ fails' = fails /\ execs' = execs \ {s} /\ s \in execs /\ s \notin Operator
      /\ \A r \in Steps : r # s => active'[r] = active[r]
  BY DEF JoinPlain, Base, TypeOK
<1>3. /\ \A r \in Steps : r # s => meta'[r] = meta[r] /\ outcome'[r] = outcome[r]
      /\ outcome'[s] = o /\ meta'[s] = Kind(o) /\ o # None
  BY <1>1 DEF RecordAll, Written
<1>4. outcome[s] = None /\ meta[s] = "started"
  BY <1>2 DEF ExecsRun
<1>5. execs \subseteq Steps /\ (\A f \in fails : f[1] \in Operator) /\ \A r \in Steps : DependsOn[r] \subseteq Steps
  BY DEF Base, TypeOK
<1>6. RowsAreSwept' /\ HandIsFree'
  BY <1>2 DEF RowsAreSwept, HandIsFree
<1>7. ExecsRun'
  BY <1>2, <1>3, <1>5 DEF ExecsRun
<1>8. FailsWait'
  <2>1. \A f \in fails : f[1] # s /\ f[1] \in Steps
    BY <1>2, <1>5
  <2> QED BY <1>2, <1>3, <2>1 DEF FailsWait, Unsettled
<1>9. SuccessIsKnown'
  BY <1>2, <1>3, <1>4 DEF SuccessIsKnown, Kind
<1>10. AttemptsWereReady' /\ NeedsAreMet'
  BY <1>2, <1>3, <1>4, <1>5 DEF AttemptsWereReady, NeedsAreMet
<1>11. RowsAreFinal' /\ OutcomesAreFinal'
  BY <1>2, <1>3 DEF RowsAreFinal, OutcomesAreFinal, HeldRow
<1>12. Stands
  BY <1>3, <1>4 DEF Stands
<1> QED BY <1>6, <1>7, <1>8, <1>9, <1>10, <1>11, <1>12

(* A completion of a managed step is in hand: it says what its files say.  *)
LEMMA CompleteOrderly ==
  ASSUME Base, Orderly, ~clash, NEW s \in Operator, NEW o \in {"done", "error", "cancelled"}, Complete(s, o),
         pc = "wait", execs' = execs \ {s}, fails' \subseteq fails, \A f \in fails' : f[1] # s,
         row[s].attempt > 0, meta[s] # "done",
         outcome[s] = None \/ (outcome[s] = "cancelled" /\ cancel /\ o # "done"),
         o = "done" => row[s].phase = "running"
  PROVE  Orderly' /\ Stands
<1> USE DagAssumption DEF Orderly, commands, files, outside, tasks
<1>1. /\ pc' = "save" /\ row' = row /\ cancel' = cancel /\ command' = command /\ outcome' = outcome
      /\ done'.step = s /\ done'.phase = PhaseAfter(s, o)
      /\ \A r \in Steps : r # s => active'[r] = active[r]
  BY DEF Complete, Base, TypeOK
<1>2. /\ \A r \in Steps : r # s => meta'[r] = meta[r]
      /\ meta'[s] = Kind(o)
  BY DEF Complete, Written
<1>3. /\ PhaseAfter(s, o) = "done" <=> o = "done"
      /\ cancel /\ o # "done" => PhaseAfter(s, o) = "cancelled"
      /\ meta'[s] = "done" <=> o = "done"
  BY <1>2 DEF PhaseAfter, Kind
<1>4. execs \subseteq Steps /\ (\A f \in fails : f[1] \in Operator) /\ \A r \in Steps : DependsOn[r] \subseteq Steps
  BY DEF Base, TypeOK
<1>5. RowsAreSwept'
  BY <1>1 DEF RowsAreSwept
<1>6. HandIsFree'
  BY <1>1, <1>3 DEF HandIsFree
<1>7. ExecsRun'
  BY <1>1, <1>2, <1>4 DEF ExecsRun
<1>8. FailsWait'
  BY <1>1, <1>4 DEF FailsWait, Unsettled
<1>9. SuccessIsKnown'
  BY <1>1, <1>2, <1>3 DEF SuccessIsKnown, Terminal
<1>10. AttemptsWereReady' /\ NeedsAreMet'
  BY <1>1, <1>2, <1>4 DEF AttemptsWereReady, NeedsAreMet
<1>11. RowsAreFinal' /\ OutcomesAreFinal'
  BY <1>1 DEF RowsAreFinal, OutcomesAreFinal, HeldRow
<1>12. Stands
  BY <1>1, <1>2 DEF Stands
<1> QED BY <1>5, <1>6, <1>7, <1>8, <1>9, <1>10, <1>11, <1>12

LEMMA JoinOrderly ==
  ASSUME Base, Orderly, ~clash, NEW s \in Steps, JoinPlain(s) \/ JoinManaged(s) \/ JoinFail(s)
  PROVE  Orderly' /\ Stands
<1> USE DagAssumption DEF Orderly
<1>1. CASE JoinPlain(s)
  BY <1>1, JoinPlainOrderly
<1>2. CASE JoinManaged(s)
  <2>1. PICK o \in {"done", "error", "cancelled"} : Complete(s, o)
    BY <1>2 DEF JoinManaged, Results
  <2>2. s \in Operator /\ s \in execs /\ pc = "wait" /\ execs' = execs \ {s} /\ fails' = fails
    BY <1>2 DEF JoinManaged
  <2>3. row[s].attempt > 0 /\ meta[s] # "done" /\ outcome[s] = None /\ row[s].phase = "running"
    BY <2>2 DEF ExecsRun
  <2>4. \A f \in fails : f[1] # s
    BY <2>2 DEF FailsWait
  <2> QED BY <2>1, <2>2, <2>3, <2>4, CompleteOrderly
<1>3. CASE JoinFail(s)
  <2>1. PICK f \in fails : f[1] = s /\ fails' = fails \ {f}
    BY <1>3 DEF JoinFail
  <2>2. Complete(s, "error") /\ pc = "wait" /\ execs' = execs
    BY <1>3 DEF JoinFail
  <2>3. s \in Operator /\ s \notin execs /\ row[s].attempt > 0
        /\ (outcome[s] = None \/ (outcome[s] = "cancelled" /\ cancel))
        /\ row[s].phase \notin {"running", "done"}
    BY <2>1 DEF FailsWait, Unsettled, Base, TypeOK, Held
  <2>4. meta[s] # "done"
    BY <2>3 DEF SuccessIsKnown
  <2>5. \A g \in fails' : g[1] # s
    BY <2>1 DEF FailsWait
  <2>6. execs' = execs \ {s} /\ fails' \subseteq fails
    BY <2>1, <2>2, <2>3
  <2> QED BY <2>2, <2>3, <2>4, <2>5, <2>6, CompleteOrderly
<1> QED BY <1>1, <1>2, <1>3

(* Its row, its receipt and, unless the step is held again, its outcome.   *)
LEMMA HandOrderly ==
  ASSUME Base, Orderly, ~clash, SaveRow \/ Reply \/ RecordStep
  PROVE  Orderly' /\ Stands
<1> USE DagAssumption DEF Orderly, commands, files, outside, tasks
<1> DEFINE t == done.step
<1>1. /\ InHand /\ done \in Completion /\ t \in Operator /\ t \in Steps /\ row[t] \in Row
      /\ t \notin execs /\ row[t].attempt > 0
      /\ outcome[t] = None \/ (outcome[t] = "cancelled" /\ done.phase = "cancelled")
      /\ meta[t] = "done" <=> done.phase = "done"
      /\ \A f \in fails : f[1] # t /\ f[1] \in Operator
  BY DEF SaveRow, Reply, RecordStep, Base, HandIsOfRow, HandIsFree, FailsWait, Completion, TypeOK
<1>2. execs \subseteq Steps /\ \A r \in Steps : DependsOn[r] \subseteq Steps
  BY DEF Base, TypeOK
<1>3. active' = active /\ execs' = execs /\ fails' = fails /\ cancel' = cancel /\ command' = command
      /\ pc' \in {"top", "reply", "record"} /\ pc # "sweepSteps"
  BY DEF SaveRow, Reply, RecordStep, AfterSave
<1>4. CASE SaveRow
  <2>1. /\ meta' = meta /\ outcome' = outcome /\ pc = "save"
        /\ \A r \in Operator \ {t} : row'[r] = row[r]
        /\ row' = [row EXCEPT ![t] = CompletedRow]
    BY <1>1, <1>4 DEF SaveRow, Base, TypeOK
  <2>2. row'[t].phase = done.phase /\ row'[t].attempt = row[t].attempt
    BY <1>1, <2>1 DEF CompletedRow, Row, Base, TypeOK
  <2>3. /\ pc' \in {"reply", "record"} => done' = done
        /\ pc' = "top" => done.phase \in Held
    BY <1>4 DEF SaveRow, AfterSave
  <2> HIDE DEF t
  <2>4. RowsAreSwept'
    BY <1>3 DEF RowsAreSwept
  <2>5. ExecsRun'
    BY <1>1, <1>2, <1>3, <2>1 DEF ExecsRun
  <2>6. FailsWait'
    BY <1>1, <1>3, <2>1, <2>3 DEF FailsWait, Unsettled
  <2>7. HandIsFree'
    BY <1>1, <1>3, <2>1, <2>2, <2>3 DEF HandIsFree, t
  <2>8. SuccessIsKnown'
    <3> SUFFICES ASSUME NEW s \in Steps
                 PROVE  /\ outcome[s] = "done" => meta[s] = "done"
                        /\ meta[s] = "done" =>
                             /\ s \in Operator => row'[s].phase \in {"running", "done"} /\ row'[s].attempt > 0
                             /\ outcome[s] = "done" \/ (InHand' /\ done'.step = s)
      BY <2>1 DEF SuccessIsKnown
    <3>1. CASE s = t
      BY <1>1, <1>3, <2>2, <2>3, <3>1 DEF SuccessIsKnown, Held, t
    <3>2. CASE s # t
      BY <1>1, <2>1, <3>2 DEF SuccessIsKnown, t
    <3> QED BY <3>1, <3>2
  <2>9. AttemptsWereReady' /\ NeedsAreMet'
    BY <1>3, <2>1, <2>2 DEF AttemptsWereReady, NeedsAreMet
  <2>10. RowsAreFinal'
    BY <1>1, <1>3, <2>1, <2>2 DEF RowsAreFinal, Terminal
  <2>11. OutcomesAreFinal'
    BY <1>1, <1>3, <2>1, <2>2 DEF OutcomesAreFinal, HeldRow, Held
  <2> QED BY <2>1, <2>4, <2>5, <2>6, <2>7, <2>8, <2>9, <2>10, <2>11 DEF Stands
<1>5. CASE Reply
  <2>1. row' = row /\ meta' = meta /\ outcome' = outcome /\ pc = "reply" /\ pc' \in {"top", "record"}
        /\ (pc' = "record" => done' = done) /\ (pc' = "top" => done.phase \in Held)
    BY <1>5 DEF Reply, AfterSave
  <2>2. RowsAreSwept' /\ ExecsRun' /\ AttemptsWereReady' /\ NeedsAreMet' /\ RowsAreFinal' /\ OutcomesAreFinal'
    BY <1>3, <2>1 DEF RowsAreSwept, ExecsRun, AttemptsWereReady, NeedsAreMet, RowsAreFinal, OutcomesAreFinal, HeldRow
  <2>3. FailsWait' /\ HandIsFree'
    BY <1>1, <1>3, <2>1 DEF FailsWait, Unsettled, HandIsFree
  <2>4. SuccessIsKnown'
    BY <1>1, <2>1 DEF SuccessIsKnown, Held
  <2> QED BY <2>1, <2>2, <2>3, <2>4 DEF Stands
<1>6. CASE RecordStep
  <2>1. /\ row' = row /\ pc = "record" /\ pc' = "top"
        /\ done.phase \in Terminal /\ row[t].phase = done.phase
        /\ \A s \in Steps : s # t => outcome'[s] = outcome[s] /\ meta'[s] = meta[s]
        /\ outcome'[t] = done.phase /\ meta'[t] = Kind(done.phase)
    BY <1>1, <1>6 DEF RecordStep, RecordAll, Written, Base, HandIsOfRow
  <2> HIDE DEF t
  <2>2. meta'[t] = "done" <=> meta[t] = "done"
    BY <1>1, <2>1 DEF Kind
  <2>3. \A s \in Steps : meta'[s] = "done" <=> meta[s] = "done"
    BY <2>1, <2>2
  <2>4. \A s \in Steps : outcome[s] # None => outcome'[s] = outcome[s]
    BY <1>1, <2>1
  <2>5. Stands
    BY <2>3, <2>4 DEF Stands
  <2>6. RowsAreSwept' /\ HandIsFree'
    BY <2>1 DEF RowsAreSwept, HandIsFree
  <2>7. ExecsRun'
    BY <1>1, <1>2, <1>3, <2>1 DEF ExecsRun
  <2>8. FailsWait'
    <3>1. \A f \in fails : f[1] # t /\ f[1] \in Steps
      BY <1>1
    <3> QED BY <1>3, <2>1, <3>1 DEF FailsWait, Unsettled
  <2>9. SuccessIsKnown'
    <3> SUFFICES ASSUME NEW s \in Steps
                 PROVE  /\ outcome'[s] = "done" => meta'[s] = "done"
                        /\ meta'[s] = "done" =>
                             /\ s \in Operator => row[s].phase \in {"running", "done"} /\ row[s].attempt > 0
                             /\ outcome'[s] = "done"
      BY <2>1 DEF SuccessIsKnown
    <3>1. CASE s = t
      BY <1>1, <2>1, <2>3, <3>1 DEF SuccessIsKnown
    <3>2. CASE s # t
      BY <1>1, <2>1, <3>2 DEF SuccessIsKnown, t
    <3> QED BY <3>1, <3>2
  <2>10. AttemptsWereReady'
    BY <1>2, <2>1, <2>3 DEF AttemptsWereReady
  <2>11. RowsAreFinal' /\ OutcomesAreFinal'
    BY <1>1, <1>3, <2>1 DEF RowsAreFinal, OutcomesAreFinal, HeldRow, Held, Terminal
  <2>12. NeedsAreMet'
    <3>1. \A s \in Steps : outcome[s] # None => outcome'[s] # None
      BY <2>4
    <3> QED BY <1>2, <1>3, <2>3, <3>1 DEF NeedsAreMet
  <2> QED BY <2>5, <2>6, <2>7, <2>8, <2>9, <2>10, <2>11, <2>12
<1> QED BY <1>4, <1>5, <1>6

(* The end of a run, its crash, and its resume.                            *)
LEMMA FinishOrderly ==
  ASSUME Base, Orderly, ~clash, FinishRun
  PROVE  Orderly' /\ Stands
<1> USE DagAssumption DEF Orderly, commands, files, outside, tasks
<1>1. /\ pc = "finish" /\ pc' = "ended" /\ meta' = meta /\ outcome' = outcome
      /\ execs = {} /\ fails = {} /\ execs' = {} /\ fails' = {}
  BY DEF FinishRun, Base, EndIsQuiet
<1>2. \A s \in Operator : row'[s].phase = outcome[s] /\ row'[s].attempt = row[s].attempt /\ outcome[s] \in Terminal
  <2> SUFFICES ASSUME NEW s \in Operator
               PROVE  row'[s].phase = outcome[s] /\ row'[s].attempt = row[s].attempt /\ outcome[s] \in Terminal
    OBVIOUS
  <2>1. row'[s] = [row[s] EXCEPT !.phase = outcome[s]] /\ row[s] \in Row
    BY DEF FinishRun, Base, TypeOK
  <2>2. outcome[s] \in Terminal
    BY <1>1 DEF Base, EndIsQuiet, TypeOK
  <2> QED BY <2>1, <2>2 DEF Row
<1>3. RowsAreSwept' /\ ExecsRun' /\ FailsWait' /\ HandIsFree' /\ RowsAreFinal' /\ NeedsAreMet'
  BY <1>1 DEF RowsAreSwept, ExecsRun, FailsWait, HandIsFree, RowsAreFinal, NeedsAreMet
<1>4. SuccessIsKnown'
  BY <1>1, <1>2 DEF SuccessIsKnown
<1>5. AttemptsWereReady'
  BY <1>1, <1>2 DEF AttemptsWereReady
<1>6. OutcomesAreFinal'
  BY <1>1, <1>2 DEF OutcomesAreFinal, HeldRow, Held, Terminal
<1> QED BY <1>1, <1>3, <1>4, <1>5, <1>6 DEF Stands

LEMMA CrashOrderly ==
  ASSUME Base, Orderly, ~clash, Crash
  PROVE  Orderly' /\ Stands
<1> USE DagAssumption DEF Orderly, commands, files, outside, tasks
<1>1. /\ pc' = "down" /\ row' = row /\ meta' = meta /\ execs' = {} /\ fails' = {}
      /\ \A s \in Steps : outcome'[s] = None
  BY DEF Crash, Forget
<1> QED BY <1>1 DEF RowsAreSwept, ExecsRun, FailsWait, HandIsFree, SuccessIsKnown, AttemptsWereReady, RowsAreFinal,
           OutcomesAreFinal, NeedsAreMet, Stands, Terminal

LEMMA ResumeOrderly ==
  ASSUME Base, Orderly, ~clash, ResumeRun \/ ResumeFails
  PROVE  Orderly' /\ Stands
<1> USE DagAssumption DEF Orderly, commands, files, outside, tasks
<1>1. /\ meta' = meta /\ execs' = {} /\ fails' = {} /\ restarts' = restarts + 1 /\ restarts \in Nat
      /\ pc' \in {"top", "ended"}
  BY DEF ResumeRun, ResumeFails, Resume, Forget, Base, TypeOK
<1>2. Stands
  BY <1>1 DEF Stands
<1>3. RowsAreSwept' /\ ExecsRun' /\ FailsWait' /\ HandIsFree' /\ NeedsAreMet'
  BY <1>1 DEF RowsAreSwept, ExecsRun, FailsWait, HandIsFree, NeedsAreMet
<1>4. CASE ResumeRun
  <2>1. /\ pc' = "top"
        /\ \A s \in Steps : outcome'[s] = Restored(s)
        /\ \A s \in Operator : row'[s] = Reopened(s) /\ row[s] \in Row
    BY <1>4 DEF ResumeRun, Base, TypeOK
  <2>2. \A s \in Operator :
          /\ row'[s].attempt = row[s].attempt
          /\ row[s].phase \in {"running", "waiting"} =>
               row'[s].phase = IF meta[s] = "done" THEN "done" ELSE "waiting"
          /\ row[s].phase \notin {"running", "waiting"} => row'[s].phase = row[s].phase
    BY <2>1 DEF Reopened, Row
  <2>3. SuccessIsKnown'
    BY <1>1, <2>1, <2>2 DEF SuccessIsKnown, Restored, Settled, Terminal
  <2>4. AttemptsWereReady'
    BY <1>1, <2>2 DEF AttemptsWereReady
  <2>5. \A s \in Operator : outcome'[s] # None => row'[s].phase \in Terminal
    BY <2>1, <2>2 DEF SuccessIsKnown, Restored, Settled, Terminal
  <2>6. RowsAreFinal'
    BY <2>5 DEF RowsAreFinal
  <2>7. OutcomesAreFinal'
    BY <1>1, <2>5 DEF OutcomesAreFinal, HeldRow, Held, Terminal
  <2> QED BY <1>2, <1>3, <2>3, <2>4, <2>6, <2>7
<1>5. CASE ResumeFails
  <2>1. pc' = "ended" /\ row' = row /\ \A s \in Steps : outcome'[s] = None
    BY <1>5 DEF ResumeFails
  <2>2. SuccessIsKnown' /\ AttemptsWereReady' /\ RowsAreFinal' /\ OutcomesAreFinal'
    BY <1>1, <2>1 DEF SuccessIsKnown, AttemptsWereReady, RowsAreFinal, OutcomesAreFinal, Terminal
  <2> QED BY <1>2, <1>3, <2>2
<1> QED BY <1>4, <1>5

-----------------------------------------------------------------------------
(* The invariant, and what follows from it in every run.                   *)

LEMMA StepOrderly == Base /\ Orderly /\ ~clash /\ ~clash' /\ [Next]_vars => Orderly' /\ Stands
<1> SUFFICES ASSUME Base, Orderly, ~clash, ~clash', [Next]_vars PROVE Orderly' /\ Stands
  OBVIOUS
<1>1. CASE \E op \in Ops : StopAttempt(op) \/ FailInactive(op) \/ ApplyInactive(op)
  BY <1>1, PollOrderly
<1>2. CASE CancelRows \/ CancelSteps
  BY <1>2, CancelRowsOrderly, CancelStepsOrderly
<1>3. CASE \E s \in Steps : StartStep(s) \/ BlockStep(s) \/ Reap(s)
  BY <1>3, StartOrderly, BlockOrderly, ReapOrderly
<1>4. CASE Join
  BY <1>4, JoinOrderly DEF Join
<1>5. CASE SaveRow \/ Reply \/ RecordStep
  BY <1>5, HandOrderly
<1>6. CASE MarkUnfinished \/ FinishRun \/ Crash
  BY <1>6, MarkOrderly, FinishOrderly, CrashOrderly
<1>7. CASE ResumeRun \/ ResumeFails
  BY <1>7, ResumeOrderly
<1>8. CASE \/ BeginPass \/ EndPoll \/ EndFill \/ EndBlock \/ SeeStop \/ Timer \/ OnceMore \/ FailRun \/ Stop
           \/ \E op \in Ops : AnswerAtOnce(op) \/ FailUnarchived(op) \/ Acknowledge(op) \/ Submit(op)
           \/ \E s \in Steps : StartUnarchived(s)
  BY <1>8, QuietActions
<1>9. CASE UNCHANGED vars
  BY <1>9 DEF vars, files, commands, outside, tasks, Orderly, Stands, RowsAreSwept, ExecsRun, FailsWait, Unsettled,
     HandIsFree, SuccessIsKnown, AttemptsWereReady, RowsAreFinal, OutcomesAreFinal, HeldRow, NeedsAreMet
<1> QED BY <1>1, <1>2, <1>3, <1>4, <1>5, <1>6, <1>7, <1>8, <1>9 DEF Next, Scheduler, Poll

LEMMA ClashStays == TypeOK /\ clash /\ [Next]_vars => clash'
<1> SUFFICES ASSUME TypeOK, clash, [Next]_vars PROVE clash'
  OBVIOUS
<1> USE DEF commands, files, outside, tasks
<1>1. CASE \E op \in Ops : Poll(op)
  BY <1>1 DEF Poll, AnswerAtOnce, StopAttempt, FailInactive, FailUnarchived, ApplyInactive, Acknowledge
<1>2. CASE BeginPass \/ EndPoll \/ CancelRows \/ CancelSteps \/ EndFill \/ EndBlock
  BY <1>2 DEF BeginPass, EndPoll, CancelRows, CancelSteps, EndFill, EndBlock
<1>3. CASE \E s \in Steps : StartStep(s) \/ StartUnarchived(s) \/ BlockStep(s) \/ Reap(s)
  BY <1>3 DEF StartStep, StartUnarchived, BlockStep, Reap
<1>4. CASE SaveRow \/ Reply \/ RecordStep
  BY <1>4 DEF SaveRow, Reply, RecordStep
<1>5. CASE SeeStop \/ Timer \/ OnceMore \/ MarkUnfinished \/ FinishRun \/ FailRun
  BY <1>5 DEF SeeStop, Timer, OnceMore, MarkUnfinished, FinishRun, FailRun
<1>6. CASE Join
  BY <1>6 DEF Join, JoinPlain, JoinManaged, JoinFail, Complete
<1>7. CASE (\E op \in Ops : Submit(op)) \/ Stop \/ Crash \/ ResumeRun \/ ResumeFails
  BY <1>7 DEF Submit, Stop, Crash, ResumeRun, ResumeFails, Resume
<1>8. CASE UNCHANGED vars
  BY <1>8 DEF vars
<1> QED BY <1>1, <1>2, <1>3, <1>4, <1>5, <1>6, <1>7, <1>8 DEF Next, Scheduler

LEMMA InitIInv == Init => IInv
<1> SUFFICES ASSUME Init PROVE IInv
  OBVIOUS
<1>1. Orderly
  BY DagAssumption DEF Init, Orderly, RowsAreSwept, ExecsRun, FailsWait, HandIsFree, SuccessIsKnown, AttemptsWereReady,
     RowsAreFinal, OutcomesAreFinal, NeedsAreMet, Terminal
<1> QED BY <1>1, InitBase DEF IInv

LEMMA StepIInv == IInv /\ [Next]_vars => IInv' /\ (clash' \/ Stands)
<1> SUFFICES ASSUME IInv, [Next]_vars PROVE IInv' /\ (clash' \/ Stands)
  OBVIOUS
<1>1. Base /\ Base'
  BY StepBase DEF IInv
<1>2. CASE clash'
  BY <1>1, <1>2 DEF IInv
<1>3. CASE ~clash'
  <2>1. ~clash
    BY <1>1, <1>3, ClashStays DEF Base, TypeOK
  <2> QED BY <1>1, <1>3, <2>1, StepOrderly DEF IInv
<1> QED BY <1>2, <1>3

(* Rows, files, outcomes and executors agree, unless a completion was made  *)
(* up for a step that did not wait for its operator.                        *)
THEOREM InductiveInvariant == Spec => []IInv
<1>1. IInv /\ [Next]_vars => IInv'
  BY StepIInv
<1> QED BY InitIInv, <1>1, PTL DEF Spec

(* A step with an outcome neither runs nor is held (record_step and the    *)
(* held completions of Managed::completed).                                *)
THEOREM OutcomesFinal == Spec => []OutcomesAreFinal
<1>1. IInv => OutcomesAreFinal
  BY DEF IInv, Orderly, OutcomesAreFinal
<1> QED BY <1>1, InductiveInvariant, PTL

(* No step runs before what it needs has ended or, for all_success, has    *)
(* succeeded, after any number of crashes and resumes (ready_steps and     *)
(* checkpoint::restore).                                                   *)
THEOREM NeedsMet == Spec => []NeedsAreMet
<1>1. IInv => NeedsAreMet
  BY DEF IInv, Orderly, NeedsAreMet
<1> QED BY <1>1, InductiveInvariant, PTL

(* What succeeded keeps its files for ever, and an outcome its value       *)
(* until the run is over or crashes.                                       *)
THEOREM ResultsKept == Spec => ResultsStand
<1>1. IInv /\ [Next]_vars => [clash' \/ Stands]_vars
  BY StepIInv
<1> QED BY <1>1, InductiveInvariant, PTL DEF Spec, ResultsStand

-----------------------------------------------------------------------------
(* The scheduler is never stuck.  Nothing wakes it once nothing runs, so a *)
(* step that is neither finished nor held must then be one it can start.   *)

(* Steps that change no row, no file and no outcome.                       *)
LEMMA QuietAwake ==
  ASSUME Awake, row' = row, meta' = meta, outcome' = outcome, active' = active, execs' = execs,
         ~InHand, ~InHand', Running' => Running, StopSwept'
  PROVE  Awake'
BY DEF Awake, TokensRun, RowsRun, FilesAreWritten, RowsHaveFiles, RowsAreOutcomes

LEMMA QuietActionsAwake ==
  ASSUME Base, Awake,
         \/ BeginPass \/ EndPoll \/ EndFill \/ EndBlock \/ SeeStop \/ Timer \/ OnceMore \/ FailRun \/ Stop
         \/ \E op \in Ops : AnswerAtOnce(op) \/ FailUnarchived(op) \/ Acknowledge(op) \/ Submit(op)
         \/ \E s \in Steps : StartUnarchived(s)
  PROVE  Awake'
<1> USE DEF commands, files, outside, tasks
<1> DEFINE Still == /\ row' = row /\ meta' = meta /\ outcome' = outcome /\ active' = active /\ execs' = execs
                    /\ ~InHand /\ ~InHand' /\ (Running' => Running)
<1>1. CASE BeginPass \/ EndPoll \/ SeeStop \/ Timer \/ OnceMore \/ FailRun
  <2>1. Still /\ (cancel' => pc' \notin {"sweepSteps", "fill", "block", "wait"})
    BY <1>1 DEF BeginPass, EndPoll, SeeStop, Timer, OnceMore, NothingRuns, FailRun, Running
  <2>2. StopSwept'
    BY <2>1 DEF StopSwept
  <2> QED BY <2>1, <2>2, QuietAwake
<1>2. CASE EndFill \/ EndBlock
  <2>1. Still /\ cancel' = cancel /\ pc \in {"fill", "block"} /\ pc' \in {"block", "wait"}
    BY <1>2 DEF EndFill, EndBlock, Running
  <2>2. StopSwept'
    BY <2>1 DEF Awake, StopSwept, Waiting, HeldRow, Unfinished
  <2> QED BY <2>1, <2>2, QuietAwake
<1>3. CASE Stop \/ \E op \in Ops : AnswerAtOnce(op) \/ Submit(op)
  <2>1. Still /\ cancel' = cancel /\ pc' = pc /\ done' = done
    BY <1>3 DEF Stop, AnswerAtOnce, Submit, Polling, NextCommand, Running
  <2>2. StopSwept'
    BY <2>1 DEF Awake, StopSwept, Waiting, HeldRow, Unfinished
  <2> QED BY <2>1, <2>2, QuietAwake
<1>4. CASE (\E op \in Ops : FailUnarchived(op) \/ Acknowledge(op)) \/ \E s \in Steps : StartUnarchived(s)
  <2>1. Still /\ pc' \in {"reap", "poll"}
    BY <1>4 DEF FailUnarchived, Acknowledge, StartUnarchived, Accepted, Polling, Abort, Running
  <2>2. StopSwept'
    BY <2>1 DEF StopSwept
  <2> QED BY <2>1, <2>2, QuietAwake
<1> QED BY <1>1, <1>2, <1>3, <1>4

(* A command changes the token of a step that runs, or the row of one that *)
(* does not; a row that is over is never touched.                          *)
LEMMA PollAwake ==
  ASSUME Base, Orderly, Awake, NEW op \in Ops, StopAttempt(op) \/ FailInactive(op) \/ ApplyInactive(op)
  PROVE  Awake'
<1> USE DagAssumption DEF commands, files, outside, tasks, Awake
<1> DEFINE t == Target(op)
<1>1. /\ pc = "poll" /\ pc' \in {"poll", "ack"} /\ t \in Operator /\ row[t] \in Row
      /\ meta' = meta /\ outcome' = outcome /\ execs' = execs
      /\ \A s \in Steps : active'[s] # "no" => active[s] # "no"
  BY DEF StopAttempt, FailInactive, ApplyInactive, Accepted, Polling, NextCommand, Target,
         Base, TypeOK, Given, Request
<1>2. /\ \A s \in Operator \ {t} : row'[s] = row[s]
      /\ row'[t].phase = row[t].phase \/ row'[t].phase \in {"pending", "paused"}
  <2>1. CASE StopAttempt(op) \/ FailInactive(op)
    <3>1. row' = [row EXCEPT ![t].op = op]
      BY <2>1 DEF StopAttempt, FailInactive
    <3> QED BY <1>1, <3>1 DEF Row, Base, TypeOK
  <2>2. CASE ApplyInactive(op)
    <3>1. row' = [row EXCEPT ![t] =
                    [@ EXCEPT !.phase = IF command[op].action = "pause" THEN "paused" ELSE "pending",
                              !.op = None, !.applied = op]]
      BY <2>2 DEF ApplyInactive
    <3> QED BY <1>1, <3>1 DEF Row, Base, TypeOK
  <2> QED BY <2>1, <2>2
<1> HIDE DEF t
<1>3. \A s \in Operator : row'[s].phase = row[s].phase \/ row'[s].phase \in {"pending", "paused"}
  BY <1>2
<1>4. TokensRun' /\ RowsRun' /\ FilesAreWritten' /\ RowsHaveFiles' /\ RowsAreOutcomes'
  BY <1>1, <1>3 DEF TokensRun, RowsRun, FilesAreWritten, RowsHaveFiles, RowsAreOutcomes, Running
<1> QED BY <1>1, <1>4 DEF StopSwept

(* The sweep of a stop leaves nothing that waits.                          *)
LEMMA CancelRowsAwake ==
  ASSUME Base, Orderly, Awake, CancelRows
  PROVE  Awake'
<1> USE DagAssumption DEF commands, files, outside, tasks
<1>1. /\ pc = "sweepRows" /\ pc' = "sweepSteps" /\ meta' = meta /\ outcome' = outcome
      /\ active' = active /\ execs' = execs
  BY Zenon DEF CancelRows, Base, TypeOK
<1>2. ASSUME NEW s \in Operator
      PROVE  /\ Spared(s) => row'[s] = row[s]
             /\ ~Spared(s) => row'[s].phase = "cancelled"
  <2>1. row'[s] = IF Spared(s) THEN row[s] ELSE [row[s] EXCEPT !.phase = "cancelled", !.op = None]
    BY Zenon DEF CancelRows
  <2>2. row[s] \in Row
    BY DEF Base, TypeOK
  <2> QED BY <2>1, <2>2 DEF Row
<1>3. TokensRun' /\ RowsRun' /\ FilesAreWritten' /\ RowsHaveFiles' /\ RowsAreOutcomes'
  BY <1>1, <1>2 DEF Awake, TokensRun, RowsRun, FilesAreWritten, RowsHaveFiles, RowsAreOutcomes, Running
<1>4. \A s \in Operator : active[s] # "no" => row[s].phase = "running"
  BY <1>1 DEF Awake, TokensRun, Running, Orderly, ExecsRun
<1>5. ~Waiting'
  BY <1>2, <1>4 DEF Waiting, HeldRow, Spared, Held, Terminal
<1> QED BY <1>1, <1>3, <1>5 DEF Awake, StopSwept

(* Outcomes given to steps that have none, nothing else.                   *)
LEMMA RecordAwake ==
  ASSUME Base, Awake, NEW S \in SUBSET Unfinished, NEW o \in {"error", "cancelled"}, RecordAll(S, o),
         row' = row, execs' = execs, active' = active, cancel' = cancel,
         pc \in {"sweepSteps", "block", "wait"}, pc' \in {"fill", "block", "finish"},
         pc = "block" <=> pc' = "block",
         pc = "sweepSteps" => \A s \in Unfinished \ AllDone : active[s] = "no" => s \in S
  PROVE  Awake'
<1> USE DagAssumption DEF Awake
<1>1. \A s \in Steps : /\ s \in S => outcome[s] = None /\ outcome'[s] = o /\ meta'[s] = "other"
                       /\ s \notin S => outcome'[s] = outcome[s] /\ meta'[s] = meta[s]
  BY DEF RecordAll, Written, Kind, Unfinished
<1>2. o # None
  BY DEF Terminal
<1>3. TokensRun' /\ RowsRun'
  BY DEF TokensRun, RowsRun, Running
<1>4. FilesAreWritten'
  BY <1>1 DEF FilesAreWritten
<1>5. RowsAreOutcomes'
  BY <1>1, <1>2 DEF RowsAreOutcomes, Running
<1>6. RowsHaveFiles'
  BY <1>1 DEF RowsHaveFiles, RowsAreOutcomes, Running
<1>7. StopSwept'
  <2>1. Unfinished' \subseteq Unfinished \ S
    BY <1>1, <1>2 DEF Unfinished
  <2>2. Waiting' <=> Waiting
    BY DEF Waiting, HeldRow
  <2> QED BY <2>1, <2>2 DEF StopSwept
<1> QED BY <1>3, <1>4, <1>5, <1>6, <1>7

LEMMA SweepAwake ==
  ASSUME Base, Awake, CancelSteps \/ MarkUnfinished \/ \E s \in Steps : BlockStep(s)
  PROVE  Awake'
<1> USE DEF commands, files, outside, tasks
<1>1. CASE CancelSteps
  <2> DEFINE S == {s \in Unfinished : /\ active[s] = "no"
                                      /\ s \in AllDone => s \in Operator /\ row[s].phase = "cancelled"}
  <2>1. /\ RecordAll(S, "cancelled") /\ S \in SUBSET Unfinished
        /\ row' = row /\ execs' = execs /\ active' = active /\ cancel' = cancel
        /\ pc = "sweepSteps" /\ pc' = "fill"
        /\ \A s \in Unfinished \ AllDone : active[s] = "no" => s \in S
    BY <1>1 DEF CancelSteps
  <2> HIDE DEF S
  <2> QED BY <2>1, RecordAwake
<1>2. CASE MarkUnfinished
  <2> DEFINE o == IF cancel THEN "cancelled" ELSE "error"
  <2>1. /\ RecordAll(Unfinished, o) /\ o \in {"error", "cancelled"}
        /\ row' = row /\ execs' = execs /\ active' = active /\ cancel' = cancel
        /\ pc = "wait" /\ pc' = "finish"
    BY <1>2 DEF MarkUnfinished, NothingRuns
  <2> HIDE DEF o
  <2> QED BY <2>1, RecordAwake
<1>3. ASSUME NEW s \in Steps, BlockStep(s) PROVE Awake'
  <2>1. /\ RecordAll({s}, "error") /\ {s} \in SUBSET Unfinished
        /\ row' = row /\ execs' = execs /\ active' = active /\ cancel' = cancel
        /\ pc = "block" /\ pc' = "block"
    BY <1>3 DEF BlockStep, Blocked
  <2> QED BY <2>1, RecordAwake
<1> QED BY <1>1, <1>2, <1>3

(* A started step has its token, its executor and a running row.           *)
LEMMA StartAwake ==
  ASSUME Base, Awake, NEW s \in Steps, StartStep(s)
  PROVE  Awake'
<1> USE DagAssumption DEF commands, files, outside, tasks
<1>1. /\ pc = "fill" /\ pc' = "fill" /\ outcome' = outcome /\ cancel' = cancel /\ execs' = execs \cup {s}
      /\ s \in Operator => row[s].phase = "pending"
  BY Zenon DEF StartStep, Startable, Base, TypeOK
<1>2. /\ \A r \in Operator \ {s} : row'[r] = row[r]
      /\ s \in Operator => row'[s].phase = "running"
  <2>1. s \in Operator => row[s] \in Row /\ row'[s] = [row[s] EXCEPT !.attempt = @ + 1, !.phase = "running"]
    BY Zenon DEF StartStep, Base, TypeOK
  <2>2. ASSUME s \in Operator PROVE row'[s].phase = "running"
    BY <2>1, <2>2 DEF Row
  <2>3. \A r \in Operator \ {s} : row'[r] = row[r]
    BY Zenon DEF StartStep
  <2> QED BY <2>2, <2>3
<1>3. \A r \in Steps : /\ r # s => meta'[r] = meta[r] /\ active'[r] = active[r]
                       /\ r = s => meta'[r] = "started" /\ active'[r] = "live"
  BY Zenon DEF StartStep, Written, Base, TypeOK
<1>4. TokensRun' /\ RowsRun' /\ FilesAreWritten' /\ RowsAreOutcomes'
  BY <1>1, <1>2, <1>3 DEF Awake, TokensRun, RowsRun, FilesAreWritten, RowsAreOutcomes, Running
<1>5. RowsHaveFiles'
  BY <1>1, <1>2, <1>3 DEF Awake, RowsHaveFiles
<1>6. StopSwept'
  <2>1. Waiting' => Waiting
    BY <1>2 DEF Waiting, HeldRow, Held
  <2>2. \A r \in Steps : active[r] # "no" => active'[r] # "no"
    BY <1>3
  <2> QED BY <1>1, <2>1, <2>2 DEF Awake, StopSwept, Unfinished
<1> QED BY <1>4, <1>5, <1>6 DEF Awake

(* What is reaped or has completed leaves its token with its executor.     *)
LEMMA ReapAwake ==
  ASSUME Base, Orderly, Awake, NEW s \in Steps, Reap(s)
  PROVE  Awake'
<1> USE DagAssumption DEF commands, files, outside, tasks, Awake
<1>1. /\ pc = "reap" /\ pc' = "reap" /\ row' = row /\ outcome' = outcome
      /\ \A r \in Steps : r # s => meta'[r] = meta[r]
      /\ meta'[s] # "none" /\ (s \in execs \/ Failing(s))
  BY DEF Reap, Written
<1>2. s \in Operator => row[s].phase # "done"
  BY <1>1 DEF Orderly, ExecsRun, FailsWait, Failing, Held
<1>3. FilesAreWritten' /\ RowsHaveFiles'
  BY <1>1, <1>2 DEF FilesAreWritten, RowsHaveFiles
<1> QED BY <1>1, <1>3 DEF TokensRun, RowsRun, RowsAreOutcomes, StopSwept, Running

LEMMA JoinAwake ==
  ASSUME Base, Orderly, Awake, NEW s \in Steps, JoinPlain(s) \/ JoinManaged(s) \/ JoinFail(s)
  PROVE  Awake'
<1> USE DagAssumption DEF commands, files, outside, tasks, Awake
<1>1. /\ pc = "wait" /\ row' = row /\ cancel' = cancel /\ execs' = execs \ {s}
      /\ \A r \in Steps : r # s => active'[r] = active[r] /\ meta'[r] = meta[r] /\ outcome'[r] = outcome[r]
      /\ active'[s] = "no" /\ meta'[s] # "none"
  <2>1. CASE JoinPlain(s)
    BY <2>1 DEF JoinPlain, RecordAll, Written, Kind, Base, TypeOK
  <2>2. CASE JoinManaged(s)
    BY <2>2 DEF JoinManaged, Complete, Written, Kind, Base, TypeOK
  <2>3. CASE JoinFail(s)
    <3>1. s \notin execs
      BY <2>3 DEF JoinFail, Orderly, FailsWait
    <3> QED BY <2>3, <3>1 DEF JoinFail, Complete, Written, Kind, Base, TypeOK
  <2> QED BY <2>1, <2>2, <2>3
<1>2. s \in Operator => row[s].phase \notin {"done", "error"}
  <2>1. CASE JoinPlain(s) \/ JoinManaged(s)
    BY <2>1 DEF JoinPlain, JoinManaged, Orderly, ExecsRun
  <2>2. CASE JoinFail(s)
    BY <2>2 DEF JoinFail, Orderly, FailsWait, Held
  <2> QED BY <2>1, <2>2
<1>3. \/ s \notin Operator /\ pc' = "top"
      \/ s \in Operator /\ pc' = "save" /\ done'.step = s /\ (cancel => done'.phase \notin Held)
  BY DEF JoinPlain, JoinManaged, JoinFail, Complete, PhaseAfter, Held, Base, TypeOK
<1>4. TokensRun'
  BY <1>1 DEF TokensRun, Running
<1>5. RowsRun'
  BY <1>1, <1>3 DEF RowsRun, Running
<1>6. FilesAreWritten'
  BY <1>1, <1>3 DEF FilesAreWritten
<1>7. RowsHaveFiles' /\ RowsAreOutcomes'
  BY <1>1, <1>2, <1>3 DEF RowsHaveFiles, RowsAreOutcomes, Running
<1>8. StopSwept'
  BY <1>1, <1>3 DEF StopSwept
<1> QED BY <1>4, <1>5, <1>6, <1>7, <1>8

(* The row, the receipt and the outcome of a completion.                   *)
LEMMA HandAwake ==
  ASSUME Base, Orderly, Awake, SaveRow \/ Reply \/ RecordStep
  PROVE  Awake'
<1> USE DagAssumption DEF commands, files, outside, tasks, Awake
<1> DEFINE t == done.step
<1>1. /\ InHand /\ done \in Completion /\ t \in Operator /\ t \in Steps /\ row[t] \in Row
      /\ (meta[t] = "done" <=> done.phase = "done") /\ meta[t] # "none"
      /\ pc \in {"reply", "record"} => row[t].phase = done.phase
  BY DEF SaveRow, Reply, RecordStep, Base, HandIsOfRow, Orderly, HandIsFree, FilesAreWritten, Completion, TypeOK
<1>2. /\ active' = active /\ execs' = execs /\ cancel' = cancel
      /\ pc' \in {"top", "reply", "record"} /\ (pc' # "top" => done' = done)
      /\ pc' = "top" /\ pc # "record" => done.phase \in Held
  BY DEF SaveRow, Reply, RecordStep, AfterSave
<1>3. TokensRun'
  BY <1>1, <1>2 DEF TokensRun, Running
<1>4. StopSwept'
  BY <1>1, <1>2 DEF StopSwept
<1>5. CASE SaveRow
  <2>1. /\ meta' = meta /\ outcome' = outcome /\ pc = "save"
        /\ \A r \in Operator \ {t} : row'[r] = row[r]
        /\ row' = [row EXCEPT ![t] = CompletedRow]
    BY <1>1, <1>5 DEF SaveRow, Base, TypeOK
  <2>2. row'[t].phase = done.phase /\ done.phase \in Held \cup Terminal
    BY <1>1, <2>1 DEF CompletedRow, Completion, Row, Base, TypeOK
  <2> HIDE DEF t
  <2>3. RowsRun'
    BY <1>1, <1>2, <2>1, <2>2 DEF RowsRun, Running, Held, Terminal, t
  <2>4. FilesAreWritten' /\ RowsHaveFiles'
    BY <1>1, <1>2, <2>1, <2>2 DEF FilesAreWritten, RowsHaveFiles
  <2>5. RowsAreOutcomes'
    BY <1>1, <1>2, <2>1, <2>2 DEF RowsAreOutcomes, Running, Held, t
  <2> QED BY <1>3, <1>4, <2>3, <2>4, <2>5
<1>6. CASE Reply
  <2>1. row' = row /\ meta' = meta /\ outcome' = outcome /\ pc = "reply"
    BY <1>6 DEF Reply
  <2> QED BY <1>1, <1>2, <1>3, <1>4, <2>1
          DEF RowsRun, FilesAreWritten, RowsHaveFiles, RowsAreOutcomes, Running, Held
<1>7. CASE RecordStep
  <2>1. /\ row' = row /\ pc = "record" /\ pc' = "top" /\ done.phase \in Terminal
        /\ \A s \in Steps : s # t => outcome'[s] = outcome[s] /\ meta'[s] = meta[s]
        /\ outcome'[t] = done.phase /\ meta'[t] = Kind(done.phase)
    BY <1>1, <1>7 DEF RecordStep, RecordAll, Written, Base, HandIsOfRow
  <2> HIDE DEF t
  <2>2. RowsRun'
    BY <1>2, <2>1 DEF RowsRun, Running
  <2>3. FilesAreWritten'
    BY <2>1 DEF FilesAreWritten, Kind
  <2>4. RowsHaveFiles'
    BY <1>1, <2>1 DEF RowsHaveFiles, Kind
  <2>5. RowsAreOutcomes'
    BY <2>1 DEF RowsAreOutcomes, Running, Terminal, t
  <2> QED BY <1>3, <1>4, <2>2, <2>3, <2>4, <2>5
<1> QED BY <1>5, <1>6, <1>7

(* The end of a run, its crash, and its resume, which finds an outcome for *)
(* every row that is done or failed.                                       *)
LEMMA OutsideAwake ==
  ASSUME Base, Orderly, Awake, FinishRun \/ Crash \/ ResumeRun \/ ResumeFails
  PROVE  Awake'
<1> USE DagAssumption DEF commands, files, outside, tasks, Awake
<1>1. CASE FinishRun
  <2>1. pc = "finish" /\ pc' = "ended" /\ meta' = meta /\ outcome' = outcome
    BY <1>1 DEF FinishRun
  <2>2. \A s \in Operator : row'[s].phase = outcome[s] /\ outcome[s] # None
    BY <1>1, <2>1 DEF FinishRun, Base, EndIsQuiet, TypeOK, Row
  <2>3. FilesAreWritten' /\ RowsHaveFiles'
    BY <2>1, <2>2 DEF FilesAreWritten, RowsHaveFiles, Orderly, SuccessIsKnown
  <2> QED BY <2>1, <2>3 DEF TokensRun, RowsRun, RowsAreOutcomes, StopSwept, Running
<1>2. CASE Crash \/ ResumeFails
  <2>1. /\ pc' \in {"down", "ended"} /\ row' = row /\ meta' = meta /\ \A s \in Steps : outcome'[s] = None
    BY <1>2 DEF Crash, ResumeFails, Resume
  <2>2. FilesAreWritten' /\ RowsHaveFiles'
    BY <2>1 DEF FilesAreWritten, RowsHaveFiles
  <2> QED BY <2>1, <2>2 DEF TokensRun, RowsRun, RowsAreOutcomes, StopSwept, Running
<1>3. CASE ResumeRun
  <2>1. /\ pc' = "top" /\ meta' = meta /\ ~cancel'
        /\ \A s \in Steps : active'[s] = "no" /\ outcome'[s] = Restored(s)
        /\ \A s \in Operator : row'[s] = Reopened(s) /\ row[s] \in Row
    BY <1>3 DEF ResumeRun, Resume, Forget, Base, TypeOK
  <2>2. \A s \in Operator :
          /\ row[s].phase \in {"running", "waiting"} =>
               row'[s].phase = IF meta[s] = "done" THEN "done" ELSE "waiting"
          /\ row[s].phase \notin {"running", "waiting"} => row'[s].phase = row[s].phase
    BY <2>1 DEF Reopened, Row
  <2>3. TokensRun' /\ RowsRun' /\ FilesAreWritten' /\ StopSwept'
    BY <2>1, <2>2 DEF TokensRun, RowsRun, FilesAreWritten, StopSwept, Restored
  <2>4. RowsHaveFiles'
    BY <2>1, <2>2 DEF RowsHaveFiles
  <2>5. RowsAreOutcomes'
    BY <2>1, <2>2, <2>4 DEF RowsAreOutcomes, RowsHaveFiles, Restored, Settled, Terminal
  <2> QED BY <2>3, <2>4, <2>5
<1> QED BY <1>1, <1>2, <1>3

LEMMA StepAwake == Base /\ Orderly /\ Awake /\ [Next]_vars => Awake'
<1> SUFFICES ASSUME Base, Orderly, Awake, [Next]_vars PROVE Awake'
  OBVIOUS
<1>1. CASE \E op \in Ops : StopAttempt(op) \/ FailInactive(op) \/ ApplyInactive(op)
  BY <1>1, PollAwake
<1>2. CASE CancelRows
  BY <1>2, CancelRowsAwake
<1>3. CASE CancelSteps \/ MarkUnfinished \/ \E s \in Steps : BlockStep(s)
  BY <1>3, SweepAwake
<1>4. CASE \E s \in Steps : StartStep(s) \/ Reap(s)
  BY <1>4, StartAwake, ReapAwake
<1>5. CASE Join
  BY <1>5, JoinAwake DEF Join
<1>6. CASE SaveRow \/ Reply \/ RecordStep
  BY <1>6, HandAwake
<1>7. CASE FinishRun \/ Crash \/ ResumeRun \/ ResumeFails
  BY <1>7, OutsideAwake
<1>8. CASE \/ BeginPass \/ EndPoll \/ EndFill \/ EndBlock \/ SeeStop \/ Timer \/ OnceMore \/ FailRun \/ Stop
           \/ \E op \in Ops : AnswerAtOnce(op) \/ FailUnarchived(op) \/ Acknowledge(op) \/ Submit(op)
           \/ \E s \in Steps : StartUnarchived(s)
  BY <1>8, QuietActionsAwake
<1>9. CASE UNCHANGED vars
  BY <1>9 DEF vars, files, commands, outside, tasks, Awake, TokensRun, RowsRun, FilesAreWritten, RowsHaveFiles,
     RowsAreOutcomes, StopSwept, Running, Waiting, HeldRow, Unfinished
<1> QED BY <1>1, <1>2, <1>3, <1>4, <1>5, <1>6, <1>7, <1>8, <1>9 DEF Next, Scheduler, Poll

LEMMA InitNInv == Init => NInv
<1> SUFFICES ASSUME Init PROVE NInv
  OBVIOUS
<1>1. Awake
  BY DagAssumption DEF Init, Awake, TokensRun, RowsRun, FilesAreWritten, RowsHaveFiles, RowsAreOutcomes, StopSwept
<1> QED BY <1>1, InitIInv DEF NInv

LEMMA StepNInv == NInv /\ [Next]_vars => NInv'
<1> SUFFICES ASSUME NInv, [Next]_vars PROVE NInv'
  OBVIOUS
<1>1. IInv /\ IInv'
  BY StepIInv DEF NInv
<1>2. CASE clash'
  BY <1>1, <1>2 DEF NInv
<1>3. CASE ~clash'
  <2>1. ~clash
    BY <1>1, <1>3, ClashStays DEF IInv, Base, TypeOK
  <2> QED BY <1>1, <1>3, <2>1, StepAwake DEF NInv, IInv
<1> QED BY <1>2, <1>3

(* Every row that says running, done or failed is backed by an executor,   *)
(* the completion in hand, or files and an outcome, and a stop has swept.  *)
THEOREM AwakeInvariant == Spec => []NInv
BY InitNInv, StepNInv, PTL DEF Spec

(* When nothing runs, a stopped run waits for nobody, and whatever a run   *)
(* goes round for can be started, or was lost in a crash between its row   *)
(* and its files (the exit of the loop of schedule, and the wait for the   *)
(* operator).                                                              *)
LEMMA AwakeNeverStuck == NInv => NeverStuck
<1> SUFFICES ASSUME NInv, ~clash, pc = "wait", Tasks = 0
             PROVE  IF Waiting THEN ~cancel ELSE \A s \in ReadySteps : Startable(s) \/ Lost(s)
  BY DEF NeverStuck
<1> USE DagAssumption
<1>1. Base /\ Awake /\ Running /\ ~InHand
  BY DEF NInv, IInv, Running
<1>2. execs = {}
  BY <1>1, QuietTasks DEF Base
<1>3. CASE Waiting
  BY <1>1, <1>3 DEF Awake, StopSwept
<1>4. ASSUME ~Waiting, NEW s \in ReadySteps
      PROVE  Startable(s) \/ Lost(s)
  <2>1. s \in Steps /\ s \in Unfinished /\ outcome[s] = None
    BY DEF ReadySteps, Unfinished
  <2>2. active[s] = "no"
    BY <1>1, <1>2, <2>1 DEF Awake, TokensRun
  <2>3. cancel => s \in AllDone
    BY <1>1, <2>1, <2>2 DEF Awake, StopSwept
  <2>4. s \in Operator => row[s].phase \in {"pending", "cancelled"}
    <3> SUFFICES ASSUME s \in Operator PROVE row[s].phase \in {"pending", "cancelled"}
      OBVIOUS
    <3>1. row[s].phase \in Phases
      BY <1>1 DEF Base, TypeOK, Row
    <3>2. row[s].phase \notin Held
      BY <1>4, <2>1 DEF Waiting, HeldRow
    <3>3. row[s].phase # "running"
      BY <1>1, <1>2 DEF Awake, RowsRun
    <3>4. row[s].phase \notin {"done", "error"}
      BY <1>1, <2>1 DEF Awake, RowsAreOutcomes
    <3> QED BY <3>1, <3>2, <3>3, <3>4 DEF Phases, Held
  <2> QED BY <2>1, <2>2, <2>3, <2>4 DEF Startable, Lost
<1> QED BY <1>3, <1>4

THEOREM NeverStucks == Spec => []NeverStuck
BY AwakeNeverStuck, AwakeInvariant, PTL
=============================================================================
