------------------------------- MODULE Dispatch -------------------------------
(***************************************************************************)
(* How one execution id travels from a client to the node that runs it:    *)
(* the server's durable receipt and frozen assignment, the Create call on  *)
(* the node's socket, the node's preparation gate and journal, the reply,  *)
(* and the outbox that sends the call again when no reply came.  Ids do    *)
(* not share any of this state, so one id is enough.                       *)
(*                                                                         *)
(* The server is one process at a time: a successor that takes over is the *)
(* restart after ServerCrash, and the lock file of request_lock lets only  *)
(* one submission of the id proceed in any case.  Frames of one socket     *)
(* arrive in order, but each call is then a task of its own: it may be     *)
(* overtaken on its way to the preparation lock, and so may the replies.   *)
(*                                                                         *)
(* Left out: Project ids (a rejected run may be followed by another one),  *)
(* managed resources, probes, the 428 round trip of an id whose index row  *)
(* is older than its assignment, deletion of finished executions, and an   *)
(* incremental report, which here is the complete one.  What a runtime     *)
(* does with the accepted record is NodeExecutions.                        *)
(***************************************************************************)
EXTENDS Naturals, Sequences, FiniteSets, SequencesExt

CONSTANTS Node, Request,
          Call,           \* Create calls that may be under way at a time
          Faults,         \* timeouts, broken sockets, deaths, closures, failing writes
                          \* and overtaken calls that may happen, taken together
          None            \* no request, no node, no call

ASSUME FaultsAssumption == Faults \in Nat
ASSUME CallAssumption == IsFiniteSet(Call)

VARIABLES early,        \* kind of the id: is its index row written by prepare?
          receipt,      \* durable: what the server knows of the dispatch
          assignment,   \* durable: the frozen node and input
          index,        \* durable: status of the row that users list
          submission,   \* holder of the request lock
          call,         \* Create calls, with the server's pending entry for each
          claims,       \* reserved_loops the hub counts for the id
          known,        \* hub.accepted: a node is known to hold the id
          connected,    \* nodes with a synchronised socket
          wire,         \* frames on their way to a node, and its tasks before the lock
          gate,         \* calls at a node's preparation lock, the holder first
          admission,    \* is the node open, closed by its operator, or wedged?
          reservation,  \* durable: pending-create.json of the node
          journal,      \* durable: the node's accepted record
          overtaken,    \* history: a call has reached the lock before an older one
          budget        \* faults that may still happen

serverVars == <<receipt, assignment, index, submission, claims, known>>
nodeVars == <<gate, admission, reservation, journal>>
vars == <<early, overtaken, serverVars, call, connected, wire, nodeVars, budget>>

Phase  == {"none", "claimed", "prepared", "accepted", "rejected"}
Reply  == {"ok", "refused", "conflict", "busy", "failed"}  \* 2xx, 400, 409, 503, 500
Place  == {"wire", "gate", "preparing", "answered"}
Step   == {"placing", "ready", "waiting", "replied"}

Receipt    == [phase : Phase, request : Request \cup {None}]
Assignment == [node : Node, request : Request]
Submission == [step : Step, request : Request, call : Call \cup {None},
               reply : Reply \cup {None}]
Create     == [node : Node, request : Request, open : BOOLEAN, place : Place,
               reply : Reply \cup {None}]
Journal    == [status : {"absent", "pending", "done"}, request : Request \cup {None}]

ASSUME NoneAssumption ==
  /\ None \notin Node \cup Request \cup Call \cup Reply
  /\ None \notin Assignment \cup Submission \cup Create

NoReceipt == [phase |-> "none", request |-> None]
NoJournal == [status |-> "absent", request |-> None]

TypeOK ==
  /\ early \in BOOLEAN
  /\ overtaken \in BOOLEAN
  /\ receipt \in Receipt
  /\ assignment \in Assignment \cup {None}
  /\ index \in {"absent", "pending", "done", "error"}
  /\ submission \in Submission \cup {None}
  /\ call \in [Call -> Create \cup {None}]
  /\ claims \in Nat
  /\ known \in BOOLEAN
  /\ connected \subseteq Node
  /\ wire \in [Node -> Seq(Call)]
  /\ gate \in [Node -> Seq(Call)]
  /\ admission \in [Node -> {"open", "closed", "wedged"}]
  /\ reservation \in [Node -> Request \cup {None}]
  /\ journal \in [Node -> Journal]
  /\ budget \in 0..Faults

Init ==
  /\ early \in BOOLEAN
  /\ overtaken = FALSE
  /\ receipt = NoReceipt
  /\ assignment = None
  /\ index = "absent"
  /\ submission = None
  /\ call = [c \in Call |-> None]
  /\ claims = 0
  /\ known = FALSE
  /\ connected = Node
  /\ wire = [n \in Node |-> <<>>]
  /\ gate = [n \in Node |-> <<>>]
  /\ admission = [n \in Node |-> "open"]
  /\ reservation = [n \in Node |-> None]
  /\ journal = [n \in Node |-> NoJournal]
  /\ budget = Faults

Fault == budget > 0 /\ budget' = budget - 1

Holds(n) == journal[n].status # "absent"
Open == {c \in Call : call[c] # None /\ call[c].open}

-------------------------------------------------------------------------------
(* The server: one submission of the id, by a client or by the outbox.      *)

(* The first writer fixes the input of the id.                               *)
ReceiptOf(q) == receipt.request = q

(* A settled receipt is only read back.                                      *)
Claimable(q) == \/ receipt.phase = "none"
                \/ receipt.phase \in {"claimed", "prepared"} /\ ReceiptOf(q)

Submit(q) ==
  /\ submission = None
  /\ Claimable(q)
  /\ assignment # None => assignment.request = q
  /\ receipt' = IF receipt.phase = "none" THEN [phase |-> "claimed", request |-> q]
                                          ELSE receipt
  /\ submission' = [step |-> "placing", request |-> q, call |-> None, reply |-> None]
  /\ UNCHANGED <<early, overtaken, assignment, index, call, claims, known, connected, wire,
                 nodeVars, budget>>

Ready == {n \in connected : admission[n] = "open"}

(* Mutant: a retry is placed like a new execution.                           *)
PlacedAnywhere == Ready

(* A frozen assignment keeps its node, whatever the state of that node.      *)
Candidates == IF assignment # None THEN {assignment.node} ELSE Ready

(* reserve, then one batch: assignment, receipt, and the early index row.    *)
Prepare(n) ==
  /\ submission # None /\ submission.step = "placing"
  /\ n \in Candidates
  /\ ReceiptOf(submission.request)
  /\ claims' = claims + 1
  /\ assignment' = [node |-> n, request |-> submission.request]
  /\ receipt' = [receipt EXCEPT !.phase = "prepared"]
  /\ index' = IF early /\ index = "absent" THEN "pending" ELSE index
  /\ submission' = [submission EXCEPT !.step = "ready"]
  /\ UNCHANGED <<early, overtaken, call, known, connected, wire, nodeVars, budget>>

NoNode ==
  /\ submission # None /\ submission.step = "placing"
  /\ Candidates = {}
  /\ submission' = None
  /\ UNCHANGED <<early, overtaken, receipt, assignment, index, call, claims, known, connected,
                 wire, nodeVars, budget>>

Released(n) == IF n = 0 THEN 0 ELSE n - 1

SendCreate(c) ==
  LET n == assignment.node IN
  /\ submission # None /\ submission.step = "ready"
  /\ n \in connected
  /\ call[c] = None
  /\ call' = [call EXCEPT ![c] = [node |-> n, request |-> assignment.request,
                                  open |-> TRUE, place |-> "wire", reply |-> None]]
  /\ wire' = [wire EXCEPT ![n] = Append(@, c)]
  /\ submission' = [submission EXCEPT !.step = "waiting", !.call = c]
  /\ UNCHANGED <<early, overtaken, receipt, assignment, index, claims, known, connected,
                 nodeVars, budget>>

(* reject_undispatched: offline, or no room on the channel.                  *)
Undispatched ==
  /\ submission # None /\ submission.step = "ready"
  /\ assignment.node \notin connected \/ \A c \in Call : call[c] # None
  /\ claims' = Released(claims)
  /\ submission' = None
  /\ UNCHANGED <<early, overtaken, receipt, assignment, index, call, known, connected, wire,
                 nodeVars, budget>>

(* Mutant: the caller that gives up also gives its claim back.               *)
TimeoutReleasing ==
  /\ submission # None /\ submission.step = "waiting"
  /\ Fault
  /\ submission' = None
  /\ claims' = Released(claims)
  /\ UNCHANGED <<early, overtaken, receipt, assignment, index, call, known, connected, wire,
                 nodeVars>>

(* The pending entry and the claim outlive the caller's patience.            *)
Timeout ==
  /\ submission # None /\ submission.step = "waiting"
  /\ Fault
  /\ submission' = None
  /\ UNCHANGED <<early, overtaken, receipt, assignment, index, call, claims, known, connected,
                 wire, nodeVars>>

(* Mutant: any failed Create fails the row.                                  *)
RefusalFailsAnyRow(reply) == early /\ reply # "ok"

(* The row fails when the last claim goes with a reply that precedes the     *)
(* node's journal write, and no node is known to hold the id.                *)
RefusalFailsRow(reply) ==
  early /\ claims = 1 /\ ~known /\ reply \in {"refused", "busy"} /\ index = "pending"

(* hub.resolve and settle_create_reply.                                      *)
Resolve(c) ==
  /\ c \in Open /\ call[c].place = "answered"
  /\ LET reply == call[c].reply IN
     /\ call' = [call EXCEPT ![c] = None]
     /\ claims' = Released(claims)
     /\ known' = (known \/ reply = "ok")
     /\ index' = IF reply = "ok" /\ index = "absent" THEN "pending"
                 ELSE IF RefusalFailsRow(reply) THEN "error"
                 ELSE index
     /\ submission' = IF submission # None /\ submission.call = c
                        THEN [submission EXCEPT !.step = "replied", !.call = None,
                                                !.reply = reply]
                        ELSE submission
  /\ UNCHANGED <<early, overtaken, receipt, assignment, connected, wire, nodeVars, budget>>

Verdict(reply) == CASE reply = "ok" -> "accepted"
                    [] reply \in {"refused", "conflict"} -> "rejected"
                    [] OTHER -> "prepared"

(* finish_dispatch or save_receipt; otherwise the outbox tries again.        *)
Settle ==
  /\ submission # None /\ submission.step = "replied"
  /\ receipt' = [receipt EXCEPT !.phase = Verdict(submission.reply)]
  /\ index' = IF submission.reply = "ok" /\ index = "absent" THEN "pending" ELSE index
  /\ submission' = None
  /\ UNCHANGED <<early, overtaken, assignment, call, claims, known, connected, wire, nodeVars,
                 budget>>

-------------------------------------------------------------------------------
(* The node: every Create call is a task of its own.                        *)
Answered(c, reply) ==
  call' = [call EXCEPT ![c] = IF @.open THEN [@ EXCEPT !.place = "answered", !.reply = reply]
                                        ELSE None]

(* accepted_reply: a durable record answers every later call for its id.     *)
Replayed(n, c) == IF journal[n].request = call[c].request THEN "ok" ELSE "conflict"

(* The runtime's handler.  The agent host in front of it turns a call away   *)
(* while it still forwards an older one (Creations::begin).                  *)
Arrive(n) ==
  /\ \E i \in DOMAIN wire[n] :
       LET c == wire[n][i] IN
       /\ \/ i = 1 /\ UNCHANGED <<overtaken, budget>>
          \/ i # 1 /\ Fault /\ overtaken' = TRUE
       /\ wire' = [wire EXCEPT ![n] = RemoveAt(@, i)]
       /\ \/ /\ gate[n] # <<>>
             /\ Answered(c, "busy")
             /\ UNCHANGED gate
          \/ /\ Holds(n)
             /\ Answered(c, Replayed(n, c))
             /\ UNCHANGED gate
          \/ /\ ~Holds(n)
             /\ gate' = [gate EXCEPT ![n] = Append(@, c)]
             /\ call' = [call EXCEPT ![c].place = "gate"]
  /\ UNCHANGED <<early, serverVars, connected, admission, reservation, journal>>

Leave(n) == gate' = [gate EXCEPT ![n] = Tail(@)]

(* Mutant: what was accepted while the call waited goes unnoticed, and the   *)
(* directory without a pending-create.json is refused.                       *)
GateVerdictUnchecked(n, c) ==
  CASE admission[n] # "open" -> "busy"
    [] Holds(n) -> "conflict"
    [] reservation[n] \notin {None, call[c].request} -> "conflict"
    [] OTHER -> "prepare"

(* Behind the preparation lock the record is looked up again.                *)
GateVerdict(n, c) ==
  CASE Holds(n) -> Replayed(n, c)
    [] admission[n] # "open" -> "busy"
    [] reservation[n] \notin {None, call[c].request} -> "conflict"
    [] OTHER -> "prepare"

Enter(n) ==
  /\ gate[n] # <<>>
  /\ LET c == Head(gate[n])
         verdict == GateVerdict(n, c)
     IN  /\ call[c].place = "gate"
         /\ IF verdict = "prepare"
              THEN /\ reservation' = [reservation EXCEPT ![n] = call[c].request]
                   /\ call' = [call EXCEPT ![c].place = "preparing"]
                   /\ UNCHANGED gate
              ELSE Answered(c, verdict) /\ Leave(n) /\ UNCHANGED reservation
  /\ UNCHANGED <<early, overtaken, serverVars, connected, wire, admission, journal, budget>>

Preparing(n) == gate[n] # <<>> /\ call[Head(gate[n])].place = "preparing"

(* Preflight of resources, budget and environment fails; the reservation     *)
(* stays.                                                                    *)
Refuse(n) ==
  /\ Preparing(n)
  /\ Answered(Head(gate[n]), "refused")
  /\ Leave(n)
  /\ UNCHANGED <<early, overtaken, serverVars, connected, wire, admission, reservation, journal,
                 budget>>

FindClosed(n) ==
  /\ Preparing(n)
  /\ admission[n] # "open"
  /\ Answered(Head(gate[n]), "busy")
  /\ Leave(n)
  /\ UNCHANGED <<early, overtaken, serverVars, connected, wire, admission, reservation, journal,
                 budget>>

Recorded(n) == [journal EXCEPT ![n] = [status |-> "pending", request |-> reservation[n]]]

Accept(n) ==
  /\ Preparing(n)
  /\ admission[n] = "open"
  /\ journal' = Recorded(n)
  /\ reservation' = [reservation EXCEPT ![n] = None]
  /\ Answered(Head(gate[n]), "ok")
  /\ Leave(n)
  /\ UNCHANGED <<early, overtaken, serverVars, connected, wire, admission, budget>>

(* The write of the record or of what follows it fails: 500, and the node    *)
(* takes nothing more until it restarts.  Or the host's time for the call is *)
(* up: 504, and the handler is dropped before or after that write.           *)
FailToAnswer(n) ==
  /\ Preparing(n)
  /\ admission[n] = "open"
  /\ Fault
  /\ \E written \in BOOLEAN : journal' = IF written THEN Recorded(n) ELSE journal
  /\ \E fatal \in BOOLEAN :
       admission' = IF fatal THEN [admission EXCEPT ![n] = "wedged"] ELSE admission
  /\ Answered(Head(gate[n]), "failed")
  /\ Leave(n)
  /\ UNCHANGED <<early, overtaken, serverVars, connected, wire, reservation>>

Work(n) ==
  /\ journal[n].status = "pending"
  /\ journal' = [journal EXCEPT ![n].status = "done"]
  /\ UNCHANGED <<early, overtaken, serverVars, call, connected, wire, gate, admission,
                 reservation,
                 budget>>

Close(n) ==
  /\ admission[n] = "open"
  /\ Fault
  /\ admission' = [admission EXCEPT ![n] = "closed"]
  /\ UNCHANGED <<early, overtaken, serverVars, call, connected, wire, gate, reservation, journal>>

Reopen(n) ==
  /\ admission[n] = "closed"
  /\ admission' = [admission EXCEPT ![n] = "open"]
  /\ UNCHANGED <<early, overtaken, serverVars, call, connected, wire, gate, reservation,
                 journal, budget>>

-------------------------------------------------------------------------------
(* Sockets, reports and crashes.                                            *)

(* Mutant: a row that failed once takes no report any more.                  *)
ReportOfLiveRow(n) ==
  /\ n \in connected
  /\ Holds(n)
  /\ index \in {"absent", "pending"}
  /\ index' = journal[n].status
  /\ known' = TRUE
  /\ UNCHANGED <<early, overtaken, receipt, assignment, submission, call, claims, connected, wire,
                 nodeVars, budget>>

(* A report carries the record's status and proves the acceptance.           *)
Report(n) ==
  /\ n \in connected
  /\ Holds(n)
  /\ index # journal[n].status \/ ~known
  /\ index' = journal[n].status
  /\ known' = TRUE
  /\ UNCHANGED <<early, overtaken, receipt, assignment, submission, call, claims, connected, wire,
                 nodeVars, budget>>

(* hub.detach of the sockets to the nodes in gone: pending entries end, the  *)
(* claims stay for the report of the next connection.                        *)
Detached(gone, lost) ==
  [c \in Call |->
     IF call[c] = None \/ call[c].node \notin gone THEN call[c]
     ELSE IF c \in lost \/ call[c].place = "answered" THEN None
     ELSE [call[c] EXCEPT !.open = FALSE]]

(* The caller is told 503 at once.                                           *)
Interrupted(gone) ==
  IF submission # None /\ submission.step = "waiting" /\ call[submission.call] # None
     /\ call[submission.call].node \in gone
    THEN [submission EXCEPT !.step = "replied", !.call = None, !.reply = "busy"]
    ELSE submission

Disconnect(n) ==
  /\ n \in connected
  /\ Fault
  /\ \E k \in 0..Len(wire[n]) :
       /\ wire' = [wire EXCEPT ![n] = SubSeq(@, 1, k)]
       /\ call' = Detached({n}, ToSet(SubSeq(wire[n], k + 1, Len(wire[n]))))
  /\ connected' = connected \ {n}
  /\ submission' = Interrupted({n})
  /\ UNCHANGED <<early, overtaken, receipt, assignment, index, claims, known, nodeVars>>

(* The first report releases the claims of the records it holds.             *)
ClaimsAfterReport(n) == IF Holds(n) THEN 0 ELSE claims

Attach(n) ==
  /\ n \notin connected
  /\ connected' = connected \cup {n}
  /\ claims' = ClaimsAfterReport(n)
  /\ known' = (known \/ Holds(n))
  /\ index' = IF Holds(n) THEN journal[n].status ELSE index
  /\ UNCHANGED <<early, overtaken, receipt, assignment, submission, call, wire, nodeVars, budget>>

(* The server dies, or hands over to its successor.                          *)
ServerCrash ==
  /\ Fault
  /\ submission' = None
  /\ claims' = 0
  /\ known' = FALSE
  /\ connected' = {}
  /\ \E arrived \in [Node -> 0..Cardinality(Call)] :
       /\ \A n \in Node : arrived[n] <= Len(wire[n])
       /\ wire' = [n \in Node |-> SubSeq(wire[n], 1, arrived[n])]
       /\ call' = Detached(Node, UNION {ToSet(SubSeq(wire[n], arrived[n] + 1, Len(wire[n]))) :
                                        n \in Node})
  /\ UNCHANGED <<early, overtaken, receipt, assignment, index, nodeVars>>

(* A node dies with its tasks; its supervisor starts it again.               *)
NodeRestart(n) ==
  /\ IF admission[n] = "wedged" THEN UNCHANGED budget ELSE Fault
  /\ call' = [c \in Call |-> IF call[c] # None /\ call[c].node = n THEN None ELSE call[c]]
  /\ wire' = [wire EXCEPT ![n] = <<>>]
  /\ gate' = [gate EXCEPT ![n] = <<>>]
  /\ admission' = [admission EXCEPT ![n] = "open"]
  /\ connected' = connected \ {n}
  /\ submission' = Interrupted({n})
  /\ UNCHANGED <<early, overtaken, receipt, assignment, index, claims, known, reservation,
                 journal>>

-------------------------------------------------------------------------------
GateStep(n) == Enter(n) \/ Refuse(n) \/ FindClosed(n) \/ Accept(n)

Next ==
  \/ \E q \in Request : Submit(q)
  \/ \E n \in Node : Prepare(n)
  \/ NoNode
  \/ \E c \in Call : SendCreate(c) \/ Resolve(c)
  \/ Undispatched
  \/ Timeout
  \/ Settle
  \/ \E n \in Node : \/ Arrive(n) \/ GateStep(n) \/ FailToAnswer(n) \/ Work(n)
                     \/ Close(n) \/ Reopen(n)
                     \/ Report(n) \/ Disconnect(n) \/ Attach(n) \/ NodeRestart(n)
  \/ ServerCrash

Spec == Init /\ [][Next]_vars

(* Mutant: the outbox looks for pending rows instead of prepared receipts.    *)
OutboxOfPendingRows == /\ receipt.phase = "prepared" /\ index = "pending"
                       /\ assignment.node \in Ready
                       /\ \E q \in Request : Submit(q)

(* The outbox submits again what is prepared while its node is ready.        *)
Outbox == /\ receipt.phase = "prepared"
          /\ assignment.node \in Ready
          /\ \E q \in Request : Submit(q)

FairSpec ==
  /\ Spec
  /\ WF_vars(Outbox)
  /\ WF_vars(\E n \in Node : Prepare(n)) /\ WF_vars(NoNode)
  /\ WF_vars(Undispatched \/ \E c \in Call : SendCreate(c))
  /\ WF_vars(Settle)
  /\ \A c \in Call : WF_vars(Resolve(c))
  /\ \A n \in Node : /\ WF_vars(Arrive(n)) /\ WF_vars(GateStep(n)) /\ WF_vars(Work(n))
                     /\ WF_vars(Reopen(n)) /\ WF_vars(Report(n)) /\ WF_vars(Attach(n))
                     /\ WF_vars(admission[n] = "wedged" /\ NodeRestart(n))

-------------------------------------------------------------------------------
(* A verdict of the server agrees with the nodes for ever: accepted means    *)
(* that the assigned node holds the record; rejected means that no node      *)
(* holds it and none of the calls whose outcome was lost may still make it   *)
(* (submit.rs answers every later request from the receipt and never asks a  *)
(* node again).  The second half needs calls that were not overtaken.        *)
VerdictMatchesNodes ==
  /\ receipt.phase = "accepted" => Holds(assignment.node)
  /\ receipt.phase = "rejected" /\ ~overtaken => \A n \in Node : ~Holds(n)

(* Whatever a node accepts is the input the first request brought, even if   *)
(* another input was submitted under the same id while a server was down.    *)
AcceptsClaimedInput ==
  \A n \in Node : Holds(n) => journal[n].request = receipt.request

(* While no node is known to hold the id, the hub counts at least the calls  *)
(* whose outcome is open, so placement never offers their slots again.       *)
ReservationCoversCalls ==
  (~known /\ \A n \in Node : ~Holds(n)) => claims >= Cardinality(Open)

(* No pending entry is forgotten: whoever waits has one, its socket is up,   *)
(* and its call is on the wire, at the preparation lock, or answered.  A     *)
(* task that outlives its entry is at its node as well, and ends there.      *)
CallerHasEntry ==
  submission # None /\ submission.step = "waiting" => submission.call \in Open

EntriesHaveSockets == \A c \in Open : call[c].node \in connected

HasPlace(c) ==
  LET n == call[c].node IN
  CASE call[c].place = "wire" -> c \in ToSet(wire[n])
    [] call[c].place = "answered" -> call[c].open
    [] OTHER -> c \in ToSet(gate[n])

NoEntryForgotten ==
  /\ CallerHasEntry
  /\ EntriesHaveSockets
  /\ \A c \in Call : call[c] # None => HasPlace(c)

(* A late refusal never rewrites the row of a finished execution.            *)
FinishedRowStays == [][index = "done" => index' = "done"]_vars

(* The receipts and journals implement the promise of AtMostOnce.            *)
Holder == IF \E n \in Node : Holds(n) THEN CHOOSE n \in Node : Holds(n) ELSE None

Promise == INSTANCE AtMostOnce WITH
  input <- receipt.request,
  holder <- Holder,
  orderly <- ~overtaken,
  verdict <- IF receipt.phase \in {"accepted", "rejected"} THEN receipt.phase ELSE "open"

ImplementsAtMostOnce == Promise!Spec

(* A dispatch whose fate is unknown is settled in the end, by the outbox.    *)
DispatchSettles ==
  receipt.phase = "prepared" ~> receipt.phase \in {"accepted", "rejected"}

(* Users see every execution that finished, also one whose row a busy node   *)
(* had failed before, or whose replies were all lost.                        *)
FinishedIsListed ==
  (\E n \in Node : journal[n].status = "done") ~> index = "done"
===============================================================================
