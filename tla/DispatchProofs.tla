---------------------------- MODULE DispatchProofs ----------------------------
(***************************************************************************)
(* Machine-checked facts about the dispatch of one execution id, for any   *)
(* number of nodes, inputs, calls and faults.                              *)
(*                                                                         *)
(* The argument.  One node and one input are frozen before the first call  *)
(* leaves the server, so every call, wherever it is, asks that node for    *)
(* that input (OneInput, OneNode).  The call the submission waits for is   *)
(* the youngest, so unless a call was overtaken it is the last in line at  *)
(* its node, and when its refusal is written no older call is left that    *)
(* could still make the node accept (CallsInPlace, AnswersTrue).  A call   *)
(* whose caller gave up contradicts an acceptance never, and a rejection   *)
(* only if it was overtaken on its way to the preparation lock.            *)
(***************************************************************************)
EXTENDS Dispatch, TLAPS

LastOf(s) == s[Len(s)]

(* Every frame and every waiter stands for one call of that node, and only   *)
(* the holder of the preparation lock prepares.                              *)
CallsInPlace ==
  \A n \in Node :
    /\ \A i \in DOMAIN wire[n] :
         call[wire[n][i]] # None /\ call[wire[n][i]].node = n /\ call[wire[n][i]].place = "wire"
    /\ \A i \in DOMAIN gate[n] :
         /\ call[gate[n][i]] # None /\ call[gate[n][i]].node = n
         /\ call[gate[n][i]].place \in IF i = 1 THEN {"gate", "preparing"} ELSE {"gate"}
    /\ \A i, j \in DOMAIN wire[n] : wire[n][i] = wire[n][j] => i = j
    /\ \A i, j \in DOMAIN gate[n] : gate[n][i] = gate[n][j] => i = j

(* The input of the id, wherever a copy of it is kept.                       *)
OneInput ==
  /\ receipt.request # None <=> receipt.phase # "none"
  /\ assignment # None => assignment.request = receipt.request
  /\ submission # None => submission.request = receipt.request
  /\ \A c \in Call : call[c] # None => call[c].request = receipt.request
  /\ \A n \in Node : reservation[n] # None => reservation[n] = receipt.request
  /\ \A n \in Node : Preparing(n) => reservation[n] # None /\ ~Holds(n)
  /\ AcceptsClaimedInput

(* Calls go to the frozen node only, and only that node may hold the id.     *)
OneNode ==
  /\ receipt.phase \in {"prepared", "accepted", "rejected"} => assignment # None
  /\ submission # None => receipt.phase \in {"claimed", "prepared"}
  /\ submission # None /\ submission.step # "placing" => receipt.phase = "prepared"
  /\ \A c \in Call : call[c] # None => assignment # None /\ call[c].node = assignment.node
  /\ \A n \in Node : Holds(n) => assignment # None /\ assignment.node = n

(* No call is left that could still make the assigned node accept.           *)
Quiet == wire[assignment.node] = <<>> /\ gate[assignment.node] = <<>>

Refused == Quiet /\ ~Holds(assignment.node)

(* An answer tells the truth about the node.  Unless a call was overtaken,   *)
(* the one the submission waits for is the last one on its way.              *)
AnswersTrue ==
  /\ \A c \in Call : call[c] # None =>
       /\ call[c].reply # "conflict"
       /\ call[c].reply = "ok" => Holds(call[c].node)
  /\ submission # None /\ submission.step # "waiting" => submission.call = None
  /\ submission # None /\ submission.step = "waiting" =>
       LET c == submission.call
           n == assignment.node
       IN  /\ c # None /\ call[c] # None /\ call[c].open
           /\ ~overtaken =>
                /\ call[c].place = "wire" => wire[n] # <<>> /\ c = LastOf(wire[n])
                /\ call[c].place \in {"gate", "preparing"} =>
                     wire[n] = <<>> /\ gate[n] # <<>> /\ c = LastOf(gate[n])
                /\ call[c].reply = "refused" => Refused
  /\ submission # None /\ submission.step = "replied" =>
       /\ submission.reply # "conflict"
       /\ submission.reply = "ok" => Holds(assignment.node)
       /\ submission.reply = "refused" /\ ~overtaken => Refused
  /\ receipt.phase = "accepted" => Holds(assignment.node)
  /\ receipt.phase = "rejected" /\ ~overtaken => Refused

IInv == TypeOK /\ CallsInPlace /\ OneInput /\ OneNode /\ AnswersTrue

-------------------------------------------------------------------------------
(* Sequences: what is left of a queue when its head or its end is cut off.   *)
LEMMA HeadAndTail ==
  ASSUME NEW S, NEW s \in Seq(S), s # <<>>
  PROVE  /\ Len(s) \in Nat \ {0} /\ DOMAIN s = 1..Len(s)
         /\ 1 \in DOMAIN s /\ Head(s) = s[1] /\ Head(s) \in S
         /\ Tail(s) \in Seq(S) /\ Len(Tail(s)) = Len(s) - 1
         /\ DOMAIN Tail(s) = 1..(Len(s) - 1)
         /\ \A i \in 1..(Len(s) - 1) : Tail(s)[i] = s[i + 1]
OBVIOUS

(* A queue cut off at its end: a prefix arrived, and the rest is lost.      *)
LEMMA PrefixAndRest ==
  ASSUME NEW S, NEW s \in Seq(S), NEW k \in 0..Len(s)
  PROVE  /\ SubSeq(s, 1, k) \in Seq(S) /\ Len(SubSeq(s, 1, k)) = k
         /\ DOMAIN SubSeq(s, 1, k) = 1..k
         /\ \A i \in 1..k : SubSeq(s, 1, k)[i] = s[i]
         /\ \A x \in ToSet(SubSeq(s, k + 1, Len(s))) :
              \E i \in DOMAIN s : i > k /\ x = s[i]
<1>1. Len(s) \in Nat /\ DOMAIN s = 1..Len(s) /\ \A i \in DOMAIN s : s[i] \in S
  OBVIOUS
<1>2. /\ SubSeq(s, 1, k) \in Seq(S) /\ Len(SubSeq(s, 1, k)) = k
      /\ DOMAIN SubSeq(s, 1, k) = 1..k
      /\ \A i \in 1..k : SubSeq(s, 1, k)[i] = s[i]
  BY <1>1
<1>3. ASSUME NEW x \in ToSet(SubSeq(s, k + 1, Len(s)))
      PROVE  \E i \in DOMAIN s : i > k /\ x = s[i]
  <2>1. PICK j \in DOMAIN SubSeq(s, k + 1, Len(s)) : x = SubSeq(s, k + 1, Len(s))[j]
    BY <1>3 DEF ToSet
  <2>2. j \in 1..(Len(s) - k) /\ SubSeq(s, k + 1, Len(s))[j] = s[k + j]
    BY <1>1, <2>1
  <2> QED BY <1>1, <2>1, <2>2
<1> QED BY <1>2, <1>3

(* What stands in a queue is a call of that node, in that stage.             *)
LEMMA QueuedCalls ==
  ASSUME TypeOK, CallsInPlace, NEW n \in Node
  PROVE  /\ \A i \in DOMAIN wire[n] :
              /\ wire[n][i] \in Call /\ call[wire[n][i]] # None
              /\ call[wire[n][i]].node = n /\ call[wire[n][i]].place = "wire"
         /\ \A i \in DOMAIN gate[n] :
              /\ gate[n][i] \in Call /\ call[gate[n][i]] # None
              /\ call[gate[n][i]].node = n /\ call[gate[n][i]].place \in {"gate", "preparing"}
<1>1. wire[n] \in Seq(Call) /\ gate[n] \in Seq(Call)
  BY DEF TypeOK
<1>2. \A i \in DOMAIN wire[n] : wire[n][i] \in Call
  BY <1>1
<1>3. \A i \in DOMAIN gate[n] : gate[n][i] \in Call
  BY <1>1
<1>4. \A i \in DOMAIN gate[n] : call[gate[n][i]].place \in {"gate", "preparing"}
  BY DEF CallsInPlace
<1> QED BY <1>2, <1>3, <1>4 DEF CallsInPlace

-------------------------------------------------------------------------------
(* Steps of the server, and of a node outside its preparation lock, that     *)
(* leave every call where it is.                                             *)

(* claim_request fixes the input, or finds it fixed to the same one.        *)
LEMMA SubmitKeeps ==
  ASSUME IInv, NEW q \in Request, Submit(q)
  PROVE  IInv'
<1> USE NoneAssumption, FaultsAssumption
    DEF IInv, serverVars, nodeVars, Submit, Claimable, ReceiptOf
<1>1. TypeOK'
  BY DEF TypeOK, Receipt, Submission, Phase, Step
<1>2. CallsInPlace'
  BY DEF CallsInPlace, TypeOK
<1>3. OneInput'
  BY DEF OneInput, AcceptsClaimedInput, Holds, Preparing, OneNode
<1>4. OneNode'
  BY DEF OneNode, OneInput, Holds
<1>5. AnswersTrue'
  BY DEF AnswersTrue, Refused, Holds
<1> QED BY <1>1, <1>2, <1>3, <1>4, <1>5

(* The batch that freezes the assignment keeps the input of the receipt.    *)
LEMMA PrepareKeeps ==
  ASSUME IInv, NEW n \in Node, Prepare(n)
  PROVE  IInv'
<1> USE NoneAssumption, FaultsAssumption
    DEF IInv, serverVars, nodeVars, Prepare, Candidates, Ready, ReceiptOf
<1>1. TypeOK'
  <2>1. submission \in Submission /\ n \in Node
    BY DEF TypeOK, OneNode, Assignment
  <2>2. submission' \in Submission /\ submission.request \in Request
    BY <2>1 DEF Submission, Step
  <2>3. assignment' \in Assignment
    BY <2>1, <2>2 DEF Assignment
  <2>4. receipt' \in Receipt
    BY DEF TypeOK, Receipt, Phase
  <2> QED BY <2>2, <2>3, <2>4 DEF TypeOK
<1>2. CallsInPlace'
  BY DEF CallsInPlace, TypeOK
<1>3. OneInput'
  BY DEF OneInput, AcceptsClaimedInput, Holds, Preparing, OneNode
<1>4. OneNode'
  BY DEF OneNode, OneInput, Holds, TypeOK, Receipt, Assignment, Phase
<1>5. AnswersTrue'
  BY DEF AnswersTrue, Refused, Holds
<1> QED BY <1>1, <1>2, <1>3, <1>4, <1>5

(* A submission that finds no eligible node ends without a trace.           *)
LEMMA NoNodeKeeps ==
  ASSUME IInv, NoNode
  PROVE  IInv'
<1> USE NoneAssumption, FaultsAssumption DEF IInv, serverVars, nodeVars, NoNode
<1>1. TypeOK'
  BY DEF TypeOK
<1>2. CallsInPlace'
  BY DEF CallsInPlace, TypeOK
<1>3. OneInput'
  BY DEF OneInput, AcceptsClaimedInput, Holds, Preparing
<1>4. OneNode'
  BY DEF OneNode, OneInput, Holds
<1>5. AnswersTrue'
  BY DEF AnswersTrue, OneNode, Refused, Holds
<1> QED BY <1>1, <1>2, <1>3, <1>4, <1>5

(* A call that was never dispatched gives its claim back and ends.          *)
LEMMA UndispatchedKeeps ==
  ASSUME IInv, Undispatched
  PROVE  IInv'
<1> USE NoneAssumption, FaultsAssumption DEF IInv, serverVars, nodeVars, Undispatched, Released
<1>1. TypeOK'
  BY DEF TypeOK
<1>2. CallsInPlace'
  BY DEF CallsInPlace, TypeOK
<1>3. OneInput'
  BY DEF OneInput, AcceptsClaimedInput, Holds, Preparing
<1>4. OneNode'
  BY DEF OneNode, OneInput, Holds
<1>5. AnswersTrue'
  BY DEF AnswersTrue, OneNode, Refused, Holds
<1> QED BY <1>1, <1>2, <1>3, <1>4, <1>5

(* A caller that gives up leaves its call where it is.                      *)
LEMMA TimeoutKeeps ==
  ASSUME IInv, Timeout
  PROVE  IInv'
<1> USE NoneAssumption, FaultsAssumption DEF IInv, serverVars, nodeVars, Timeout, Fault
<1>1. TypeOK'
  BY DEF TypeOK
<1>2. CallsInPlace'
  BY DEF CallsInPlace, TypeOK
<1>3. OneInput'
  BY DEF OneInput, AcceptsClaimedInput, Holds, Preparing
<1>4. OneNode'
  BY DEF OneNode, OneInput, Holds
<1>5. AnswersTrue'
  BY DEF AnswersTrue, OneNode, Refused, Holds
<1> QED BY <1>1, <1>2, <1>3, <1>4, <1>5

(* The verdict that is written repeats an answer that was true of the node. *)
LEMMA SettleKeeps ==
  ASSUME IInv, Settle
  PROVE  IInv'
<1> USE NoneAssumption, FaultsAssumption DEF IInv, serverVars, nodeVars, Settle, Verdict
<1>1. TypeOK'
  BY DEF TypeOK, Receipt, Phase
<1>2. CallsInPlace'
  BY DEF CallsInPlace, TypeOK
<1>3. OneInput'
  BY DEF OneInput, AcceptsClaimedInput, Holds, Preparing, OneNode
<1>4. OneNode'
  BY DEF OneNode, OneInput, Holds
<1>5. AnswersTrue'
  BY DEF AnswersTrue, Refused, Quiet, Holds
<1> QED BY <1>1, <1>2, <1>3, <1>4, <1>5

(* A run that ends keeps its record and its input.                          *)
LEMMA WorkKeeps ==
  ASSUME IInv, NEW n \in Node, Work(n)
  PROVE  IInv'
<1> USE NoneAssumption, FaultsAssumption DEF IInv, serverVars, nodeVars, Work
<1>1. TypeOK'
  <2>1. journal' \in [Node -> Journal]
    BY DEF TypeOK, Journal
  <2> QED BY <2>1 DEF TypeOK
<1>2. CallsInPlace'
  BY DEF CallsInPlace, TypeOK
<1>3. OneInput'
  BY DEF OneInput, AcceptsClaimedInput, Holds, Preparing
<1>4. OneNode'
  BY DEF OneNode, OneInput, Holds
<1>5. AnswersTrue'
  BY DEF AnswersTrue, OneNode, Refused, Holds
<1> QED BY <1>1, <1>2, <1>3, <1>4, <1>5

(* Closed admission moves no call.                                          *)
LEMMA CloseKeeps ==
  ASSUME IInv, NEW n \in Node, Close(n)
  PROVE  IInv'
<1> USE NoneAssumption, FaultsAssumption DEF IInv, serverVars, nodeVars, Close, Fault
<1>1. TypeOK'
  BY DEF TypeOK
<1>2. CallsInPlace'
  BY DEF CallsInPlace, TypeOK
<1>3. OneInput'
  BY DEF OneInput, AcceptsClaimedInput, Holds, Preparing
<1>4. OneNode'
  BY DEF OneNode, OneInput, Holds
<1>5. AnswersTrue'
  BY DEF AnswersTrue, Refused, Quiet, Holds
<1> QED BY <1>1, <1>2, <1>3, <1>4, <1>5

(* Reopened admission moves no call.                                        *)
LEMMA ReopenKeeps ==
  ASSUME IInv, NEW n \in Node, Reopen(n)
  PROVE  IInv'
<1> USE NoneAssumption, FaultsAssumption DEF IInv, serverVars, nodeVars, Reopen
<1>1. TypeOK'
  BY DEF TypeOK
<1>2. CallsInPlace'
  BY DEF CallsInPlace, TypeOK
<1>3. OneInput'
  BY DEF OneInput, AcceptsClaimedInput, Holds, Preparing
<1>4. OneNode'
  BY DEF OneNode, OneInput, Holds
<1>5. AnswersTrue'
  BY DEF AnswersTrue, Refused, Quiet, Holds
<1> QED BY <1>1, <1>2, <1>3, <1>4, <1>5

(* A report only rewrites the index row and the hub's knowledge.            *)
LEMMA ReportKeeps ==
  ASSUME IInv, NEW n \in Node, Report(n)
  PROVE  IInv'
<1> USE NoneAssumption, FaultsAssumption DEF IInv, serverVars, nodeVars, Report
<1>1. TypeOK'
  BY DEF TypeOK, Receipt, Journal, Phase
<1>2. CallsInPlace'
  BY DEF CallsInPlace, TypeOK
<1>3. OneInput'
  BY DEF OneInput, AcceptsClaimedInput, Holds, Preparing
<1>4. OneNode'
  BY DEF OneNode, OneInput, Holds
<1>5. AnswersTrue'
  BY DEF AnswersTrue, OneNode, Refused, Holds
<1> QED BY <1>1, <1>2, <1>3, <1>4, <1>5

(* A new socket starts with nothing on its way.                             *)
LEMMA AttachKeeps ==
  ASSUME IInv, NEW n \in Node, Attach(n)
  PROVE  IInv'
<1> USE NoneAssumption, FaultsAssumption DEF IInv, serverVars, nodeVars, Attach, ClaimsAfterReport
<1>1. TypeOK'
  BY DEF TypeOK, Receipt, Journal, Phase
<1>2. CallsInPlace'
  BY DEF CallsInPlace, TypeOK
<1>3. OneInput'
  BY DEF OneInput, AcceptsClaimedInput, Holds, Preparing
<1>4. OneNode'
  BY DEF OneNode, OneInput, Holds
<1>5. AnswersTrue'
  BY DEF AnswersTrue, Refused, Quiet, Holds
<1> QED BY <1>1, <1>2, <1>3, <1>4, <1>5

-------------------------------------------------------------------------------
(* The call at the head of a gate is answered and leaves; the next waiter    *)
(* does not prepare yet.                                                     *)
LEMMA HeadLeaves ==
  ASSUME IInv, NEW n \in Node, gate[n] # <<>>, NEW reply \in Reply,
         Answered(Head(gate[n]), reply), Leave(n), UNCHANGED wire
  PROVE  /\ gate' \in [Node -> Seq(Call)]
         /\ call' \in [Call -> Create \cup {None}]
         /\ CallsInPlace'
         /\ ~Preparing(n)'
         /\ \A m \in Node \ {n} : gate'[m] = gate[m] /\ (Preparing(m)' => Preparing(m))
         /\ \A c \in Call : call'[c] # None =>
              /\ call[c] # None
              /\ call'[c].node = call[c].node /\ call'[c].request = call[c].request
              /\ c = Head(gate[n]) => call'[c].reply = reply /\ call'[c].place = "answered"
         /\ \A c \in Call \ {Head(gate[n])} : call'[c] = call[c]
<1> DEFINE h == Head(gate[n])
<1> USE NoneAssumption DEF IInv
<1>0. gate \in [Node -> Seq(Call)] /\ wire \in [Node -> Seq(Call)]
      /\ call \in [Call -> Create \cup {None}]
  BY DEF TypeOK
<1>1. /\ Len(gate[n]) \in Nat \ {0} /\ DOMAIN gate[n] = 1..Len(gate[n])
      /\ 1 \in DOMAIN gate[n] /\ h = gate[n][1] /\ h \in Call
      /\ Tail(gate[n]) \in Seq(Call)
      /\ DOMAIN Tail(gate[n]) = 1..(Len(gate[n]) - 1)
      /\ \A i \in 1..(Len(gate[n]) - 1) : Tail(gate[n])[i] = gate[n][i + 1]
  BY <1>0, HeadAndTail
<1>2. gate' = [gate EXCEPT ![n] = Tail(gate[n])]
  BY DEF Leave
<1>3. gate' \in [Node -> Seq(Call)] /\ gate'[n] = Tail(gate[n])
      /\ \A m \in Node \ {n} : gate'[m] = gate[m]
  BY <1>0, <1>1, <1>2
<1>4. call[h] # None /\ call[h].node = n /\ call[h].place \in {"gate", "preparing"}
  BY <1>1 DEF CallsInPlace
<1>5. call[h] \in Create
  BY <1>0, <1>1, <1>4
<1>6. call' = [call EXCEPT ![h] = IF call[h].open
                THEN [call[h] EXCEPT !.place = "answered", !.reply = reply] ELSE None]
  BY DEF Answered
<1>7. [call[h] EXCEPT !.place = "answered", !.reply = reply] \in Create
  BY <1>5 DEF Create, Place
<1>8. call' \in [Call -> Create \cup {None}]
  BY <1>0, <1>6, <1>7
<1>9. \A c \in Call \ {h} : call'[c] = call[c]
  BY <1>0, <1>6
<1>10. call'[h] # None => /\ call'[h].node = call[h].node /\ call'[h].request = call[h].request
                          /\ call'[h].reply = reply /\ call'[h].place = "answered"
  BY <1>0, <1>1, <1>5, <1>6 DEF Create
<1>11. \A m \in Node : \A i \in DOMAIN wire[m] : wire[m][i] \in Call \ {h}
  BY <1>0, <1>4 DEF CallsInPlace
<1>12. \A m \in Node \ {n} : \A i \in DOMAIN gate[m] : gate[m][i] \in Call \ {h}
  BY <1>0, <1>4 DEF CallsInPlace
<1>13. \A i \in 1..(Len(gate[n]) - 1) :
         /\ i + 1 \in DOMAIN gate[n]
         /\ gate'[n][i] = gate[n][i + 1] /\ gate'[n][i] \in Call \ {h}
  BY <1>0, <1>1, <1>3 DEF CallsInPlace
<1>14. \A m \in Node :
         /\ \A i \in DOMAIN wire'[m] : /\ call'[wire'[m][i]] # None
                                       /\ call'[wire'[m][i]].node = m
                                       /\ call'[wire'[m][i]].place = "wire"
         /\ \A i, j \in DOMAIN wire'[m] : wire'[m][i] = wire'[m][j] => i = j
  BY <1>9, <1>11 DEF CallsInPlace
<1>15. \A m \in Node \ {n} :
         /\ \A i \in DOMAIN gate'[m] :
              /\ call'[gate'[m][i]] # None /\ call'[gate'[m][i]].node = m
              /\ call'[gate'[m][i]].place \in IF i = 1 THEN {"gate", "preparing"} ELSE {"gate"}
         /\ \A i, j \in DOMAIN gate'[m] : gate'[m][i] = gate'[m][j] => i = j
  BY <1>3, <1>9, <1>12 DEF CallsInPlace
<1>16. \A i \in DOMAIN gate'[n] : /\ call'[gate'[n][i]] # None
                                  /\ call'[gate'[n][i]].node = n
                                  /\ call'[gate'[n][i]].place = "gate"
  <2> SUFFICES ASSUME NEW i \in 1..(Len(gate[n]) - 1)
               PROVE  /\ call'[gate'[n][i]] # None
                      /\ call'[gate'[n][i]].node = n
                      /\ call'[gate'[n][i]].place = "gate"
    BY <1>1, <1>3
  <2>1. i + 1 \in DOMAIN gate[n] /\ i + 1 # 1
    BY <1>1
  <2>2. call[gate[n][i + 1]] # None /\ call[gate[n][i + 1]].node = n
        /\ call[gate[n][i + 1]].place = "gate"
    BY <2>1 DEF CallsInPlace
  <2> QED BY <2>2, <1>9, <1>13
<1>17. \A i, j \in DOMAIN gate'[n] : gate'[n][i] = gate'[n][j] => i = j
  <2> SUFFICES ASSUME NEW i \in 1..(Len(gate[n]) - 1), NEW j \in 1..(Len(gate[n]) - 1),
                      gate'[n][i] = gate'[n][j]
               PROVE  i = j
    BY <1>1, <1>3
  <2>1. gate[n][i + 1] = gate[n][j + 1]
    BY <1>13
  <2>2. i + 1 = j + 1
    BY <2>1, <1>13 DEF CallsInPlace
  <2> QED BY <2>2
<1>18. CallsInPlace'
  BY <1>14, <1>15, <1>16, <1>17 DEF CallsInPlace
<1>19. ~Preparing(n)'
  <2> SUFFICES ASSUME gate'[n] # <<>>
               PROVE  call'[Head(gate'[n])].place # "preparing"
    BY DEF Preparing
  <2>1. 1 \in DOMAIN gate'[n] /\ Head(gate'[n]) = gate'[n][1]
    BY <1>3, HeadAndTail
  <2> QED BY <2>1, <1>16
<1>20. ASSUME NEW m \in Node \ {n}, Preparing(m)'
       PROVE  Preparing(m)
  <2>1. gate[m] # <<>> /\ Head(gate[m]) \in Call \ {h}
    <3>1. gate[m] # <<>>
      BY <1>20, <1>3 DEF Preparing
    <3>2. 1 \in DOMAIN gate[m] /\ Head(gate[m]) = gate[m][1]
      BY <3>1, <1>0, HeadAndTail
    <3> QED BY <3>1, <3>2, <1>12
  <2> QED BY <2>1, <1>20, <1>3, <1>9 DEF Preparing
<1> QED BY <1>3, <1>8, <1>9, <1>10, <1>18, <1>19, <1>20, <1>4

(* What such an answer means for the submission that waits for it.           *)
LEMMA HeadAnsweredTruly ==
  ASSUME IInv, NEW n \in Node, gate[n] # <<>>, NEW reply \in Reply \ {"conflict"},
         Answered(Head(gate[n]), reply), Leave(n),
         UNCHANGED <<wire, receipt, assignment, submission, overtaken>>,
         reply = "ok" => Holds(n)',
         reply = "refused" => ~Holds(n)',
         \A m \in Node : Holds(m) => Holds(m)'
  PROVE  AnswersTrue'
<1> DEFINE h == Head(gate[n])
<1> USE NoneAssumption DEF IInv
<1>1. /\ Len(gate[n]) \in Nat \ {0} /\ DOMAIN gate[n] = 1..Len(gate[n])
      /\ 1 \in DOMAIN gate[n] /\ h = gate[n][1] /\ h \in Call
      /\ Tail(gate[n]) \in Seq(Call) /\ Len(Tail(gate[n])) = Len(gate[n]) - 1
      /\ \A i \in 1..(Len(gate[n]) - 1) : Tail(gate[n])[i] = gate[n][i + 1]
  BY HeadAndTail DEF TypeOK
<1>2. gate'[n] = Tail(gate[n])
  BY DEF Leave, TypeOK
<1>3. call[h] # None /\ call[h].node = n /\ call[h].place \in {"gate", "preparing"}
  BY <1>1 DEF CallsInPlace
<1>4. assignment # None /\ assignment.node = n /\ n = assignment'.node
  BY <1>1, <1>3 DEF OneNode
<1>5. /\ \A c \in Call : call'[c] # None => call[c] # None /\ call'[c].node = call[c].node
      /\ \A c \in Call \ {h} : call'[c] = call[c]
  BY HeadLeaves
<1>6. /\ call[h].open => /\ call'[h] # None /\ call'[h].reply = reply /\ call'[h].open
                         /\ call'[h].place = "answered"
      /\ ~call[h].open => call'[h] = None
  <2>1. call[h] \in Create
    BY <1>1, <1>3 DEF TypeOK
  <2>2. call'[h] = IF call[h].open
                     THEN [call[h] EXCEPT !.place = "answered", !.reply = reply] ELSE None
    BY <1>1 DEF Answered, TypeOK
  <2>3. [call[h] EXCEPT !.place = "answered", !.reply = reply] \in Create
    BY <2>1 DEF Create, Place
  <2> QED BY <2>1, <2>2, <2>3 DEF Create
<1>7. ~Refused
  BY <1>4 DEF Refused, Quiet
<1>8. \A c \in Call : call'[c] # None =>
        /\ call'[c].reply # "conflict"
        /\ call'[c].reply = "ok" => journal'[call'[c].node].status # "absent"
  <2> SUFFICES ASSUME NEW c \in Call, call'[c] # None
               PROVE  /\ call'[c].reply # "conflict"
                      /\ call'[c].reply = "ok" => journal'[call'[c].node].status # "absent"
    OBVIOUS
  <2>1. CASE c = h
    BY <2>1, <1>3, <1>5, <1>6 DEF Holds
  <2>2. CASE c # h
    <3>1. call'[c] = call[c] /\ call[c] # None
      BY <2>2, <1>5
    <3>2. call[c].node \in Node
      BY <3>1 DEF TypeOK, Create
    <3> QED BY <3>1, <3>2 DEF AnswersTrue, Holds
  <2> QED BY <2>1, <2>2
<1>9. ASSUME submission # None, submission.step = "waiting", NEW c, c = submission.call
      PROVE  /\ c # None /\ call'[c] # None /\ call'[c].open
             /\ ~overtaken =>
                  /\ call'[c].place = "wire" => wire[n] # <<>> /\ c = LastOf(wire[n])
                  /\ call'[c].place \in {"gate", "preparing"} =>
                       wire[n] = <<>> /\ gate'[n] # <<>> /\ c = LastOf(gate'[n])
                  /\ call'[c].reply = "refused" => Refused'
  <2>0. c # None /\ call[c] # None /\ call[c].open /\ call'[c] # None /\ call'[c].open
    BY <1>5, <1>6, <1>9 DEF AnswersTrue, TypeOK, Submission
  <2> SUFFICES ASSUME ~overtaken
               PROVE  /\ call'[c].place = "wire" => wire[n] # <<>> /\ c = LastOf(wire[n])
                      /\ call'[c].place \in {"gate", "preparing"} =>
                           wire[n] = <<>> /\ gate'[n] # <<>> /\ c = LastOf(gate'[n])
                      /\ call'[c].reply = "refused" => Refused'
    BY <2>0
  <2>1. /\ c # None /\ call[c] # None /\ call[c].open
        /\ call[c].place = "wire" => wire[n] # <<>> /\ c = LastOf(wire[n])
        /\ call[c].place \in {"gate", "preparing"} =>
             wire[n] = <<>> /\ gate[n] # <<>> /\ c = LastOf(gate[n])
        /\ call[c].reply = "refused" => Refused
    BY <1>4, <1>9 DEF AnswersTrue
  <2>2. c \in Call
    BY <1>9, <2>1 DEF TypeOK, Submission
  <2>3. CASE c # h
    <3>1. call'[c] = call[c] /\ call[c].reply # "refused"
      BY <2>1, <2>2, <2>3, <1>5, <1>7
    <3>2. CASE call[c].place \in {"gate", "preparing"}
      <4>1. Len(gate[n]) # 1
        BY <2>1, <2>3, <3>2, <1>1 DEF LastOf
      <4>2. \A k \in Nat \ {0} : k # 1 => k - 1 \in 1..(k - 1) /\ k - 1 + 1 = k
        OBVIOUS
      <4>3. Len(gate[n]) - 1 \in 1..(Len(gate[n]) - 1) /\ Len(gate[n]) - 1 + 1 = Len(gate[n])
        BY <4>1, <4>2, <1>1
      <4>4. Len(gate'[n]) # 0 /\ gate'[n][Len(gate'[n])] = gate[n][Len(gate[n])]
        BY <4>3, <1>1, <1>2
      <4>5. gate'[n] # <<>>
        BY <4>4
      <4>6. LastOf(gate'[n]) = gate[n][Len(gate[n])]
        BY <4>4 DEF LastOf
      <4> QED BY <2>1, <3>1, <3>2, <4>5, <4>6 DEF LastOf
    <3> QED BY <2>1, <3>1, <3>2
  <2>4. CASE c = h
    <3>1. wire[n] = <<>> /\ c = gate[n][Len(gate[n])]
      BY <2>1, <2>4, <1>3 DEF LastOf
    <3>2. Len(gate[n]) = 1
      <4>1. Len(gate[n]) \in DOMAIN gate[n] /\ gate[n][Len(gate[n])] = gate[n][1]
        BY <3>1, <2>4, <1>1
      <4>2. \A i, j \in DOMAIN gate[n] : gate[n][i] = gate[n][j] => i = j
        BY DEF CallsInPlace
      <4>3. 1 \in DOMAIN gate[n]
        BY <1>1
      <4> QED BY <4>1, <4>2, <4>3
    <3>3. gate'[n] = <<>>
      <4>1. Len(gate'[n]) = 0 /\ gate'[n] \in Seq(Call)
        BY <3>2, <1>1, <1>2
      <4> QED BY <4>1
    <3>4. reply = "refused" => Refused'
      BY <3>1, <3>3, <1>4 DEF Refused, Quiet
    <3> QED BY <2>1, <2>4, <3>4, <1>6
  <2> QED BY <2>3, <2>4
<1>10. submission # None /\ submission.step = "waiting" =>
         LET c == submission.call
         IN  /\ c # None /\ call'[c] # None /\ call'[c].open
             /\ ~overtaken =>
                  /\ call'[c].place = "wire" => wire[n] # <<>> /\ c = LastOf(wire[n])
                  /\ call'[c].place \in {"gate", "preparing"} =>
                       wire[n] = <<>> /\ gate'[n] # <<>> /\ c = LastOf(gate'[n])
                  /\ call'[c].reply = "refused" => Refused'
  BY <1>9
<1>11. /\ submission # None /\ submission.step = "replied" =>
            /\ submission.reply # "conflict"
            /\ submission.reply = "ok" => Holds(n)'
            /\ ~overtaken => submission.reply # "refused"
       /\ receipt.phase = "accepted" => Holds(n)'
       /\ ~overtaken => receipt.phase # "rejected"
  BY <1>4, <1>7 DEF AnswersTrue
<1>12. UNCHANGED <<wire, receipt, assignment, submission, overtaken>>
  OBVIOUS
<1> HIDE DEF h
<1> QED BY <1>4, <1>8, <1>10, <1>11, <1>12 DEF AnswersTrue, Holds

(* A refused preflight makes no record, and nothing later is on its way.    *)
LEMMA RefuseKeeps ==
  ASSUME IInv, NEW n \in Node, Refuse(n)
  PROVE  IInv'
<1> USE NoneAssumption, FaultsAssumption DEF IInv, serverVars
<1>1. /\ gate[n] # <<>> /\ Preparing(n)
      /\ Answered(Head(gate[n]), "refused") /\ Leave(n)
      /\ UNCHANGED <<wire, receipt, assignment, submission, overtaken>>
  BY DEF Refuse, Preparing
<1>2. "refused" \in Reply \ {"conflict"}
  BY DEF Reply
<1>3. /\ gate' \in [Node -> Seq(Call)]
      /\ call' \in [Call -> Create \cup {None}]
      /\ CallsInPlace'
      /\ ~Preparing(n)'
      /\ \A m \in Node \ {n} : Preparing(m)' => Preparing(m)
      /\ \A c \in Call : call'[c] # None =>
           /\ call[c] # None
           /\ call'[c].node = call[c].node /\ call'[c].request = call[c].request
  BY <1>1, <1>2, HeadLeaves
<1>4. UNCHANGED <<reservation, journal>> /\ \A m \in Node : Holds(m)' = Holds(m)
  BY DEF Refuse, Holds
<1>5. ~Holds(n)
  BY <1>1 DEF OneInput
<1>6. TypeOK'
  BY <1>1, <1>3 DEF TypeOK, Refuse
<1>7. OneInput'
  BY <1>1, <1>3 DEF OneInput, AcceptsClaimedInput, Holds, Refuse
<1>8. OneNode'
  BY <1>1, <1>3 DEF OneNode, Holds, TypeOK, Refuse
<1>9. AnswersTrue'
  BY <1>1, <1>2, <1>4, <1>5, HeadAnsweredTruly
<1> QED BY <1>3, <1>6, <1>7, <1>8, <1>9

(* A preparation that finds admission closed is answered busy.              *)
LEMMA FindClosedKeeps ==
  ASSUME IInv, NEW n \in Node, FindClosed(n)
  PROVE  IInv'
<1> USE NoneAssumption, FaultsAssumption DEF IInv, serverVars
<1>1. /\ gate[n] # <<>> /\ Preparing(n)
      /\ Answered(Head(gate[n]), "busy") /\ Leave(n)
      /\ UNCHANGED <<wire, receipt, assignment, submission, overtaken>>
  BY DEF FindClosed, Preparing
<1>2. "busy" \in Reply \ {"conflict"}
  BY DEF Reply
<1>3. /\ gate' \in [Node -> Seq(Call)]
      /\ call' \in [Call -> Create \cup {None}]
      /\ CallsInPlace'
      /\ ~Preparing(n)'
      /\ \A m \in Node \ {n} : Preparing(m)' => Preparing(m)
      /\ \A c \in Call : call'[c] # None =>
           /\ call[c] # None
           /\ call'[c].node = call[c].node /\ call'[c].request = call[c].request
  BY <1>1, <1>2, HeadLeaves
<1>4. UNCHANGED <<reservation, journal>> /\ \A m \in Node : Holds(m)' = Holds(m)
  BY DEF FindClosed, Holds
<1>6. TypeOK'
  BY <1>1, <1>3 DEF TypeOK, FindClosed
<1>7. OneInput'
  BY <1>1, <1>3 DEF OneInput, AcceptsClaimedInput, Holds, FindClosed
<1>8. OneNode'
  BY <1>1, <1>3 DEF OneNode, Holds, TypeOK, FindClosed
<1>9. AnswersTrue'
  BY <1>1, <1>2, <1>4, HeadAnsweredTruly
<1> QED BY <1>3, <1>6, <1>7, <1>8, <1>9

(* The record takes the reserved input, and answers ok truthfully.          *)
LEMMA AcceptKeeps ==
  ASSUME IInv, NEW n \in Node, Accept(n)
  PROVE  IInv'
<1> USE NoneAssumption, FaultsAssumption DEF IInv, serverVars
<1>1. /\ gate[n] # <<>> /\ Preparing(n)
      /\ Answered(Head(gate[n]), "ok") /\ Leave(n)
      /\ UNCHANGED <<wire, receipt, assignment, submission, overtaken>>
  BY DEF Accept, Preparing
<1>2. "ok" \in Reply \ {"conflict"}
  BY DEF Reply
<1>3. /\ gate' \in [Node -> Seq(Call)]
      /\ call' \in [Call -> Create \cup {None}]
      /\ CallsInPlace'
      /\ ~Preparing(n)'
      /\ \A m \in Node \ {n} : Preparing(m)' => Preparing(m)
      /\ \A c \in Call : call'[c] # None =>
           /\ call[c] # None
           /\ call'[c].node = call[c].node /\ call'[c].request = call[c].request
  BY <1>1, <1>2, HeadLeaves
<1>4. /\ reservation[n] \in Request /\ reservation[n] = receipt.request
      /\ assignment # None /\ assignment.node = n
  <2>1. 1 \in DOMAIN gate[n]
    BY <1>1, HeadAndTail DEF TypeOK
  <2>2. gate[n][1] \in Call /\ call[gate[n][1]] # None /\ call[gate[n][1]].node = n
    BY <2>1 DEF TypeOK, CallsInPlace
  <2> QED BY <1>1, <2>2 DEF OneInput, OneNode, TypeOK
<1>5. /\ journal' \in [Node -> Journal]
      /\ \A m \in Node \ {n} : journal'[m] = journal[m]
      /\ \A m \in Node : Holds(m) => Holds(m)'
      /\ Holds(n)' => journal'[n].request = receipt.request
  <2>1. [status |-> "pending", request |-> reservation[n]] \in Journal
    BY <1>4 DEF Journal
  <2>2. Recorded(n) \in [Node -> Journal] /\ Recorded(n)[n].request = receipt.request
        /\ Recorded(n)[n].status = "pending"
        /\ \A m \in Node \ {n} : Recorded(n)[m] = journal[m]
    BY <1>4, <2>1 DEF Recorded, TypeOK
  <2>3. CASE journal' = Recorded(n)
    BY <2>2, <2>3 DEF Holds
  <2>4. CASE journal' = journal
    BY <2>4, <1>1 DEF Holds, OneInput, TypeOK
  <2> QED BY <2>3, <2>4 DEF Accept
<1>10. Holds(n)'
  BY <1>4 DEF Accept, Recorded, Holds, TypeOK
<1>6. TypeOK'
  BY <1>1, <1>3, <1>5 DEF TypeOK, Accept
<1>7. OneInput'
  <2>1. /\ \A m \in Node : reservation'[m] # None => reservation'[m] = receipt.request
        /\ \A m \in Node \ {n} : reservation'[m] = reservation[m]
    BY <1>4 DEF OneInput, TypeOK, Accept
  <2>2. ASSUME NEW m \in Node, Preparing(m)'
        PROVE  reservation'[m] # None /\ ~Holds(m)'
    <3>1. m # n /\ Preparing(m)
      BY <1>3, <2>2
    <3>2. reservation[m] # None /\ ~Holds(m)
      BY <3>1 DEF OneInput
    <3> QED BY <1>5, <2>1, <3>1, <3>2 DEF Holds
  <2>3. AcceptsClaimedInput'
    BY <1>1, <1>5 DEF OneInput, AcceptsClaimedInput, Holds
  <2>4. \A c \in Call : call'[c] # None => call'[c].request = receipt.request
    BY <1>3 DEF OneInput
  <2> QED BY <1>1, <2>1, <2>2, <2>3, <2>4 DEF OneInput
<1>8. OneNode'
  <2>1. \A m \in Node : Holds(m)' => assignment # None /\ assignment.node = m
    BY <1>4, <1>5 DEF OneNode, Holds
  <2>2. \A c \in Call : call'[c] # None => assignment # None /\ call'[c].node = assignment.node
    BY <1>3 DEF OneNode
  <2> QED BY <1>1, <2>1, <2>2 DEF OneNode
<1>9. AnswersTrue'
  BY <1>1, <1>2, <1>4, <1>5, <1>10, HeadAnsweredTruly
<1> QED BY <1>3, <1>6, <1>7, <1>8, <1>9

(* A failed write proves nothing: the answer leaves the dispatch open.      *)
LEMMA FailToAnswerKeeps ==
  ASSUME IInv, NEW n \in Node, FailToAnswer(n)
  PROVE  IInv'
<1> USE NoneAssumption, FaultsAssumption DEF IInv, serverVars
<1>1. /\ gate[n] # <<>> /\ Preparing(n)
      /\ Answered(Head(gate[n]), "failed") /\ Leave(n)
      /\ UNCHANGED <<wire, receipt, assignment, submission, overtaken>>
  BY DEF FailToAnswer, Preparing
<1>2. "failed" \in Reply \ {"conflict"}
  BY DEF Reply
<1>3. /\ gate' \in [Node -> Seq(Call)]
      /\ call' \in [Call -> Create \cup {None}]
      /\ CallsInPlace'
      /\ ~Preparing(n)'
      /\ \A m \in Node \ {n} : Preparing(m)' => Preparing(m)
      /\ \A c \in Call : call'[c] # None =>
           /\ call[c] # None
           /\ call'[c].node = call[c].node /\ call'[c].request = call[c].request
  BY <1>1, <1>2, HeadLeaves
<1>4. /\ reservation[n] \in Request /\ reservation[n] = receipt.request
      /\ assignment # None /\ assignment.node = n
  <2>1. 1 \in DOMAIN gate[n]
    BY <1>1, HeadAndTail DEF TypeOK
  <2>2. gate[n][1] \in Call /\ call[gate[n][1]] # None /\ call[gate[n][1]].node = n
    BY <2>1 DEF TypeOK, CallsInPlace
  <2> QED BY <1>1, <2>2 DEF OneInput, OneNode, TypeOK
<1>5. /\ journal' \in [Node -> Journal]
      /\ \A m \in Node \ {n} : journal'[m] = journal[m]
      /\ \A m \in Node : Holds(m) => Holds(m)'
      /\ Holds(n)' => journal'[n].request = receipt.request
  <2>1. [status |-> "pending", request |-> reservation[n]] \in Journal
    BY <1>4 DEF Journal
  <2>2. Recorded(n) \in [Node -> Journal] /\ Recorded(n)[n].request = receipt.request
        /\ Recorded(n)[n].status = "pending"
        /\ \A m \in Node \ {n} : Recorded(n)[m] = journal[m]
    BY <1>4, <2>1 DEF Recorded, TypeOK
  <2>3. CASE journal' = Recorded(n)
    BY <2>2, <2>3 DEF Holds
  <2>4. CASE journal' = journal
    BY <2>4, <1>1 DEF Holds, OneInput, TypeOK
  <2> QED BY <2>3, <2>4 DEF FailToAnswer
<1>6. TypeOK'
  <2>1. admission' \in [Node -> {"open", "closed", "wedged"}] /\ budget' \in 0..Faults
    BY DEF TypeOK, FailToAnswer, Fault
  <2>2. UNCHANGED <<early, overtaken, index, claims, known, connected, reservation>>
    BY DEF FailToAnswer
  <2> QED BY <1>1, <1>3, <1>5, <2>1, <2>2 DEF TypeOK
<1>7. OneInput'
  <2>1. /\ \A m \in Node : reservation'[m] # None => reservation'[m] = receipt.request
        /\ \A m \in Node \ {n} : reservation'[m] = reservation[m]
    BY <1>4 DEF OneInput, TypeOK, FailToAnswer
  <2>2. ASSUME NEW m \in Node, Preparing(m)'
        PROVE  reservation'[m] # None /\ ~Holds(m)'
    <3>1. m # n /\ Preparing(m)
      BY <1>3, <2>2
    <3>2. reservation[m] # None /\ ~Holds(m)
      BY <3>1 DEF OneInput
    <3> QED BY <1>5, <2>1, <3>1, <3>2 DEF Holds
  <2>3. AcceptsClaimedInput'
    BY <1>1, <1>5 DEF OneInput, AcceptsClaimedInput, Holds
  <2>4. \A c \in Call : call'[c] # None => call'[c].request = receipt.request
    BY <1>3 DEF OneInput
  <2> QED BY <1>1, <2>1, <2>2, <2>3, <2>4 DEF OneInput
<1>8. OneNode'
  <2>1. \A m \in Node : Holds(m)' => assignment # None /\ assignment.node = m
    BY <1>4, <1>5 DEF OneNode, Holds
  <2>2. \A c \in Call : call'[c] # None => assignment # None /\ call'[c].node = assignment.node
    BY <1>3 DEF OneNode
  <2> QED BY <1>1, <2>1, <2>2 DEF OneNode
<1>9. AnswersTrue'
  BY <1>1, <1>2, <1>4, <1>5, HeadAnsweredTruly
<1> QED BY <1>3, <1>6, <1>7, <1>8, <1>9

(* The holder of the preparation lock looks the record up again: it prepares *)
(* itself, or is answered.                                                   *)
LEMMA EnterKeeps ==
  ASSUME IInv, NEW n \in Node, Enter(n)
  PROVE  IInv'
<1> DEFINE h == Head(gate[n])
<1> DEFINE verdict == GateVerdict(n, h)
<1> USE NoneAssumption, FaultsAssumption DEF IInv, serverVars
<1>1. /\ gate[n] # <<>> /\ 1 \in DOMAIN gate[n] /\ h = gate[n][1] /\ h \in Call
  BY HeadAndTail DEF Enter, TypeOK
<1>2. /\ call[h] # None /\ call[h] \in Create /\ call[h].node = n
      /\ call[h].place = "gate"
      /\ assignment # None /\ assignment.node = n
  BY <1>1 DEF Enter, TypeOK, CallsInPlace, OneNode
<1>3. call[h].request = receipt.request /\ call[h].request \in Request
  BY <1>1, <1>2 DEF OneInput, Create
<1>4. /\ verdict \in {"ok", "busy", "prepare"}
      /\ verdict = "ok" => Holds(n)
      /\ verdict = "prepare" => ~Holds(n)
  BY <1>3 DEF GateVerdict, Replayed, OneInput, AcceptsClaimedInput
<1>5. /\ UNCHANGED <<early, overtaken, receipt, assignment, index, submission, claims, known>>
      /\ UNCHANGED <<connected, wire, admission, journal, budget>>
      /\ \A m \in Node : Holds(m)' = Holds(m)
  BY DEF Enter, Holds
<1>6. CASE verdict # "prepare"
  <2>1. Answered(h, verdict) /\ Leave(n) /\ UNCHANGED reservation
    BY <1>6 DEF Enter
  <2>2. verdict \in Reply \ {"conflict"} /\ verdict # "refused"
    BY <1>4, <1>6 DEF Reply
  <2> HIDE DEF verdict
  <2>3. /\ gate' \in [Node -> Seq(Call)]
        /\ call' \in [Call -> Create \cup {None}]
        /\ CallsInPlace'
        /\ ~Preparing(n)'
        /\ \A m \in Node \ {n} : Preparing(m)' => Preparing(m)
        /\ \A c \in Call : call'[c] # None =>
             /\ call[c] # None
             /\ call'[c].node = call[c].node /\ call'[c].request = call[c].request
    BY <1>1, <1>5, <2>1, <2>2, HeadLeaves
  <2>4. TypeOK'
    BY <1>5, <2>1, <2>3 DEF TypeOK
  <2>5. OneInput'
    BY <1>5, <2>1, <2>3 DEF OneInput, AcceptsClaimedInput
  <2>6. OneNode'
    BY <1>5, <2>3 DEF OneNode
  <2>7. AnswersTrue'
    BY <1>1, <1>4, <1>5, <2>1, <2>2, HeadAnsweredTruly
  <2> QED BY <2>3, <2>4, <2>5, <2>6, <2>7
<1>7. CASE verdict = "prepare"
  <2>1. /\ reservation' = [reservation EXCEPT ![n] = call[h].request]
        /\ call' = [call EXCEPT ![h].place = "preparing"]
        /\ UNCHANGED gate
    BY <1>7 DEF Enter
  <2> HIDE DEF h, verdict
  <2>2. /\ call' \in [Call -> Create \cup {None}]
        /\ call'[h] # None /\ call'[h].place = "preparing"
        /\ call'[h].node = call[h].node /\ call'[h].request = call[h].request
        /\ call'[h].open = call[h].open /\ call'[h].reply = call[h].reply
        /\ \A c \in Call \ {h} : call'[c] = call[c]
    <3>1. [call[h] EXCEPT !.place = "preparing"] \in Create
      BY <1>2 DEF Create, Place
    <3>2. call'[h] = [call[h] EXCEPT !.place = "preparing"]
      BY <1>1, <2>1 DEF TypeOK
    <3> QED BY <1>1, <1>2, <2>1, <3>1, <3>2 DEF TypeOK, Create
  <2>3. /\ reservation' \in [Node -> Request \cup {None}]
        /\ reservation'[n] = receipt.request /\ reservation'[n] # None
        /\ \A m \in Node \ {n} : reservation'[m] = reservation[m]
    BY <1>3, <2>1 DEF TypeOK
  <2>4. TypeOK'
    BY <1>5, <2>1, <2>2, <2>3 DEF TypeOK
  <2>5. CallsInPlace'
    <3>1. \A m \in Node : /\ wire[m] \in Seq(Call) /\ gate[m] \in Seq(Call)
                          /\ \A i \in DOMAIN wire[m] : wire[m][i] \in Call
                          /\ \A i \in DOMAIN gate[m] : gate[m][i] \in Call
      BY DEF TypeOK
    <3>2. \A m \in Node : \A i \in DOMAIN wire[m] : wire[m][i] # h
      BY <1>2 DEF CallsInPlace
    <3>3. \A m \in Node : \A i \in DOMAIN gate[m] : gate[m][i] = h => m = n /\ i = 1
      BY <1>1, <1>2 DEF CallsInPlace
    <3> QED BY <1>2, <1>5, <2>1, <2>2, <3>1, <3>2, <3>3 DEF CallsInPlace
  <2>6. OneInput'
    <3>1. \A m \in Node \ {n} : Preparing(m)' => Preparing(m)
      <4> SUFFICES ASSUME NEW m \in Node \ {n}, gate[m] # <<>>, Preparing(m)'
                   PROVE  Preparing(m)
        BY <2>1 DEF Preparing
      <4>1. 1 \in DOMAIN gate[m] /\ Head(gate[m]) = gate[m][1] /\ Head(gate[m]) \in Call
        BY HeadAndTail DEF TypeOK
      <4>2. Head(gate[m]) # h
        BY <4>1, <1>2 DEF CallsInPlace
      <4> QED BY <4>1, <4>2, <2>1, <2>2 DEF Preparing
    <3> QED BY <1>3, <1>4, <1>5, <1>7, <2>2, <2>3, <3>1 DEF OneInput, AcceptsClaimedInput
  <2>7. OneNode'
    BY <1>1, <1>2, <1>5, <2>2 DEF OneNode
  <2>8. AnswersTrue'
    <3>1. \A c \in Call : call'[c] # None =>
            /\ call[c] # None /\ call'[c].open = call[c].open
            /\ call'[c].node = call[c].node /\ call'[c].reply = call[c].reply
            /\ \/ call'[c].place = call[c].place
               \/ call[c].place = "gate" /\ call'[c].place = "preparing"
      <4> TAKE c \in Call
      <4>1. CASE c = h
        BY <4>1, <1>1, <1>2, <2>2
      <4>2. CASE c # h
        BY <4>2, <2>2
      <4> QED BY <4>1, <4>2
    <3>2. \A c \in Call : call[c] # None => call'[c] # None
      BY <2>2
    <3>3. \A c \in Call : call[c] # None => call[c].node \in Node
      BY DEF TypeOK, Create
    <3>4. \A c \in Call : call'[c] # None =>
            /\ call'[c].reply # "conflict"
            /\ call'[c].reply = "ok" => journal'[call'[c].node].status # "absent"
      BY <1>5, <3>1 DEF AnswersTrue, Holds
    <3>5. submission # None => submission.call \in Call \cup {None}
      BY DEF TypeOK, Submission
    <3> QED BY <1>2, <1>5, <2>1, <3>1, <3>2, <3>4, <3>5 DEF AnswersTrue, Refused, Quiet, Holds
  <2> QED BY <2>4, <2>5, <2>6, <2>7, <2>8
<1> QED BY <1>6, <1>7

(* The last element of a queue is the one that was appended.                *)
LEMMA AppendedCall ==
  ASSUME NEW S, NEW s \in Seq(S), NEW c \in S
  PROVE  /\ Append(s, c) \in Seq(S) /\ Append(s, c) # <<>>
         /\ Len(s) \in Nat /\ DOMAIN s = 1..Len(s)
         /\ DOMAIN Append(s, c) = 1..(Len(s) + 1)
         /\ LastOf(Append(s, c)) = c
         /\ Append(s, c)[Len(s) + 1] = c
         /\ \A i \in 1..Len(s) : Append(s, c)[i] = s[i]
BY DEF LastOf

(* A Create call goes out behind every earlier one.                          *)
LEMMA SendCreateKeeps ==
  ASSUME IInv, NEW c \in Call, SendCreate(c)
  PROVE  IInv'
<1> DEFINE n == assignment.node
<1> DEFINE new == [node |-> n, request |-> assignment.request,
                   open |-> TRUE, place |-> "wire", reply |-> None]
<1> USE NoneAssumption, FaultsAssumption DEF IInv, nodeVars
<1>1. /\ submission # None /\ submission \in Submission /\ submission.step = "ready"
      /\ call[c] = None
      /\ call' = [call EXCEPT ![c] = new]
      /\ wire' = [wire EXCEPT ![n] = Append(@, c)]
      /\ submission' = [submission EXCEPT !.step = "waiting", !.call = c]
      /\ UNCHANGED <<early, overtaken, receipt, assignment, index, claims, known, connected,
                     budget>>
      /\ UNCHANGED <<gate, admission, reservation, journal>>
  BY DEF SendCreate, TypeOK
<1>2. /\ assignment # None /\ assignment \in Assignment /\ n \in Node
      /\ assignment.request \in Request /\ assignment.request = receipt.request
  BY <1>1 DEF OneNode, OneInput, TypeOK, Assignment
<1>3. new \in Create
  BY <1>2 DEF Create, Place
<1>4. /\ submission' \in Submission /\ submission' # None
      /\ submission'.step = "waiting" /\ submission'.call = c
      /\ submission'.request = submission.request
  <2>1. submission' \in Submission
    BY <1>1 DEF Submission, Step
  <2> QED BY <1>1, <2>1 DEF Submission
<1> HIDE DEF new
<1>5. /\ call' \in [Call -> Create \cup {None}] /\ call'[c] = new
      /\ \A d \in Call \ {c} : call'[d] = call[d]
  BY <1>1, <1>3 DEF TypeOK
<1>6. /\ wire[n] \in Seq(Call)
      /\ wire' \in [Node -> Seq(Call)] /\ wire'[n] = Append(wire[n], c)
      /\ \A m \in Node \ {n} : wire'[m] = wire[m]
  BY <1>1, <1>2, AppendedCall DEF TypeOK
<1>7. TypeOK'
  BY <1>1, <1>4, <1>5, <1>6 DEF TypeOK
<1>8. /\ new # None /\ new.node = n /\ new.request = assignment.request
      /\ new.open /\ new.place = "wire"
      /\ new.reply \notin {"ok", "refused", "conflict"}
  BY <1>3 DEF new, Reply
<1>9. CallsInPlace'
  <2>1. \A m \in Node : /\ \A i \in DOMAIN wire[m] : wire[m][i] \in Call \ {c}
                        /\ \A i \in DOMAIN gate[m] : gate[m][i] \in Call \ {c}
    BY <1>1 DEF TypeOK, CallsInPlace
  <2>2. /\ Len(wire[n]) \in Nat /\ DOMAIN wire[n] = 1..Len(wire[n])
        /\ DOMAIN wire'[n] = 1..(Len(wire[n]) + 1)
        /\ wire'[n][Len(wire[n]) + 1] = c
        /\ \A i \in 1..Len(wire[n]) : wire'[n][i] = wire[n][i]
    BY <1>6, AppendedCall
  <2>3. \A i \in DOMAIN wire'[n] : i = Len(wire[n]) + 1 \/ i \in DOMAIN wire[n]
    BY <2>2
  <2>4. \A i \in DOMAIN wire'[n] : /\ call'[wire'[n][i]] # None
                                   /\ call'[wire'[n][i]].node = n
                                   /\ call'[wire'[n][i]].place = "wire"
    <3> TAKE i \in DOMAIN wire'[n]
    <3>1. CASE i = Len(wire[n]) + 1
      BY <3>1, <1>5, <1>8, <2>2
    <3>2. CASE i \in DOMAIN wire[n]
      <4>1. wire'[n][i] = wire[n][i] /\ call'[wire[n][i]] = call[wire[n][i]]
        BY <3>2, <1>2, <1>5, <2>1, <2>2
      <4> QED BY <3>2, <4>1, <1>2 DEF CallsInPlace
    <3> QED BY <3>1, <3>2, <2>3
  <2>5. \A i, j \in DOMAIN wire'[n] : wire'[n][i] = wire'[n][j] => i = j
    BY <1>2, <2>1, <2>2, <2>3, SMTT(30) DEF CallsInPlace
  <2> QED BY <1>1, <1>5, <1>6, <2>1, <2>4, <2>5, SMTT(30) DEF CallsInPlace
<1>10. OneInput'
  <2>1. ASSUME NEW m \in Node, Preparing(m)'
        PROVE  Preparing(m)
    <3>1. gate[m] # <<>>
      BY <2>1, <1>1 DEF Preparing
    <3>2. Head(gate[m]) \in Call \ {c}
      BY <3>1, <1>1, HeadAndTail DEF TypeOK, CallsInPlace
    <3> QED BY <2>1, <3>1, <3>2, <1>1, <1>5 DEF Preparing
  <2> QED BY <1>1, <1>2, <1>4, <1>5, <1>8, <2>1 DEF OneInput, AcceptsClaimedInput, Holds
<1>11. OneNode'
  BY <1>1, <1>2, <1>4, <1>5, <1>8 DEF OneNode, Holds
<1>12. AnswersTrue'
  <2>1. LastOf(wire'[n]) = c /\ wire'[n] # <<>>
    BY <1>6, AppendedCall
  <2>2. receipt.phase = "prepared"
    BY <1>1 DEF OneNode
  <2>3. \A d \in Call : call'[d] # None =>
          /\ call'[d].reply # "conflict"
          /\ call'[d].reply = "ok" => journal'[call'[d].node].status # "absent"
    BY <1>1, <1>5, <1>8 DEF AnswersTrue, Holds
  <2> QED BY <1>1, <1>4, <1>5, <1>8, <2>1, <2>2, <2>3 DEF AnswersTrue, Holds
<1> QED BY <1>7, <1>9, <1>10, <1>11, <1>12

(* The reply reaches the server, and the waiting submission if it is its.    *)
LEMMA ResolveKeeps ==
  ASSUME IInv, NEW c \in Call, Resolve(c)
  PROVE  IInv'
<1> DEFINE n == assignment.node
<1> USE NoneAssumption, FaultsAssumption DEF IInv, nodeVars
<1>1. /\ call[c] # None /\ call[c].place = "answered"
      /\ call' = [call EXCEPT ![c] = None]
      /\ submission' = IF submission # None /\ submission.call = c
                         THEN [submission EXCEPT !.step = "replied", !.call = None,
                                                 !.reply = call[c].reply]
                         ELSE submission
      /\ UNCHANGED <<early, overtaken, receipt, assignment, connected, wire, budget>>
      /\ UNCHANGED <<gate, admission, reservation, journal>>
  BY DEF Resolve, Open
<1>2. call[c] \in Create /\ assignment # None /\ call[c].node = n
  BY <1>1 DEF TypeOK, OneNode
<1>3. /\ call' \in [Call -> Create \cup {None}] /\ call'[c] = None
      /\ \A d \in Call \ {c} : call'[d] = call[d]
  BY <1>1 DEF TypeOK
<1>4. /\ claims' \in Nat /\ known' \in BOOLEAN
      /\ index' \in {"absent", "pending", "done", "error"}
  BY DEF Resolve, Released, TypeOK
<1>5. /\ submission # None => submission \in Submission
      /\ submission # None /\ submission.call = c => submission.step = "waiting"
  BY DEF TypeOK, AnswersTrue
<1>6. /\ call[c].reply # "conflict"
      /\ call[c].reply = "ok" => Holds(n)
  BY <1>1, <1>2 DEF AnswersTrue
<1>7. submission' # None =>
        /\ submission # None /\ submission' \in Submission
        /\ submission'.request = submission.request
        /\ \/ submission' = submission /\ submission.call # c
           \/ /\ submission.step = "waiting" /\ submission.call = c
              /\ submission'.step = "replied" /\ submission'.call = None
              /\ submission'.reply = call[c].reply
              /\ call[c].reply = "refused" /\ ~overtaken => Refused
  <2>1. CASE submission # None /\ submission.call = c
    <3>1. submission' = [submission EXCEPT !.step = "replied", !.call = None,
                                           !.reply = call[c].reply]
      BY <1>1, <2>1
    <3>2. submission' \in Submission
      BY <1>2, <1>5, <2>1, <3>1 DEF Submission, Create, Step
    <3>3. call[c].reply = "refused" /\ ~overtaken => Refused
      BY <1>1, <1>2, <1>5, <2>1 DEF AnswersTrue
    <3> QED BY <1>5, <2>1, <3>1, <3>2, <3>3 DEF Submission
  <2>2. CASE ~(submission # None /\ submission.call = c)
    BY <1>1, <1>5, <2>2
  <2> QED BY <2>1, <2>2
<1>8. TypeOK'
  BY <1>1, <1>3, <1>4, <1>7 DEF TypeOK
<1>9. CallsInPlace'
  <2>1. \A m \in Node : /\ \A i \in DOMAIN wire[m] : wire[m][i] \in Call \ {c}
                        /\ \A i \in DOMAIN gate[m] : gate[m][i] \in Call \ {c}
    BY <1>1, QueuedCalls
  <2> QED BY <1>1, <1>3, <2>1 DEF CallsInPlace
<1>10. OneInput'
  <2>1. ASSUME NEW m \in Node, Preparing(m)'
        PROVE  Preparing(m)
    <3>1. gate[m] # <<>>
      BY <2>1, <1>1 DEF Preparing
    <3>2. Head(gate[m]) \in Call \ {c}
      <4>1. 1 \in DOMAIN gate[m] /\ Head(gate[m]) = gate[m][1]
        BY <3>1, HeadAndTail DEF TypeOK
      <4> QED BY <4>1, <1>1, QueuedCalls
    <3> QED BY <2>1, <3>1, <3>2, <1>1, <1>3 DEF Preparing
  <2> QED BY <1>1, <1>3, <1>7, <2>1 DEF OneInput, AcceptsClaimedInput, Holds
<1>11. OneNode'
  BY <1>1, <1>3, <1>7 DEF OneNode, Holds
<1>12. AnswersTrue'
  <2>1. \A d \in Call : call'[d] # None =>
          /\ call'[d].reply # "conflict"
          /\ call'[d].reply = "ok" => journal'[call'[d].node].status # "absent"
    BY <1>1, <1>3 DEF AnswersTrue, Holds
  <2>2. CASE submission' = submission /\ (submission # None => submission.call # c)
    <3>1. submission # None => submission.call \in Call \cup {None}
      BY <1>5 DEF Submission
    <3> QED BY <1>1, <1>3, <2>1, <2>2, <3>1 DEF AnswersTrue, Refused, Quiet, Holds
  <2>3. CASE submission' # None /\ submission' # submission
    BY <1>1, <1>6, <1>7, <2>1, <2>3 DEF AnswersTrue, Refused, Quiet, Holds
  <2>4. CASE submission' = None
    BY <1>1, <2>1, <2>4 DEF AnswersTrue, Refused, Quiet, Holds
  <2> QED BY <1>7, <2>2, <2>3, <2>4
<1> QED BY <1>8, <1>9, <1>10, <1>11, <1>12

(* A queue that one element left: the others keep their order.              *)
LEMMA WithoutOne ==
  ASSUME NEW S, NEW s \in Seq(S), NEW i \in DOMAIN s
  PROVE  /\ Len(s) \in Nat \ {0} /\ DOMAIN s = 1..Len(s) /\ s[i] \in S
         /\ RemoveAt(s, i) \in Seq(S) /\ Len(RemoveAt(s, i)) = Len(s) - 1
         /\ DOMAIN RemoveAt(s, i) = 1..(Len(s) - 1)
         /\ \A j \in 1..(Len(s) - 1) :
              RemoveAt(s, i)[j] = s[IF j < i THEN j ELSE j + 1]
<1> DEFINE k == Len(s)
<1> DEFINE front == SubSeq(s, 1, i - 1)
<1> DEFINE back == SubSeq(s, i + 1, k)
<1>1. k \in Nat \ {0} /\ DOMAIN s = 1..k /\ i \in 1..k /\ s[i] \in S
  OBVIOUS
<1>2. /\ front \in Seq(S) /\ Len(front) = i - 1
      /\ \A j \in 1..(i - 1) : front[j] = s[j]
  BY <1>1
<1>3. /\ back \in Seq(S) /\ Len(back) = k - i
      /\ \A j \in 1..(k - i) : back[j] = s[i + j]
  <2>1. back \in Seq(S) /\ Len(back) = k - i
    BY <1>1
  <2>2. ASSUME NEW j \in 1..(k - i)
        PROVE  back[j] = s[i + j]
    BY <1>1
  <2> QED BY <2>1, <2>2
<1>4. RemoveAt(s, i) = front \o back
  BY DEF RemoveAt
<1> HIDE DEF k, front, back
<1>5. /\ front \o back \in Seq(S) /\ Len(front \o back) = k - 1
      /\ DOMAIN (front \o back) = 1..(k - 1)
  <2>1. front \o back \in Seq(S)
    BY <1>2, <1>3
  <2>2. Len(front \o back) = (i - 1) + (k - i)
    <3>1. \A a, b \in Seq(S) : Len(a \o b) = Len(a) + Len(b)
      OBVIOUS
    <3>2. Len(front \o back) = Len(front) + Len(back)
      BY <3>1, <1>2, <1>3
    <3> QED BY <3>2, <1>2, <1>3
  <2>3. Len(front \o back) = k - 1
    BY <2>2, <1>1
  <2>4. DOMAIN (front \o back) = 1..Len(front \o back)
    BY <2>1
  <2> QED BY <2>1, <2>3, <2>4
<1>6. ASSUME NEW j \in 1..(k - 1)
      PROVE  (front \o back)[j] = s[IF j < i THEN j ELSE j + 1]
  <2>1. CASE j < i
    BY <2>1, <1>1, <1>2, <1>3
  <2>2. CASE ~(j < i)
    <3>1. j - (i - 1) \in 1..(k - i) /\ i + (j - (i - 1)) = j + 1
      BY <2>2, <1>1
    <3>2. (front \o back)[j] = back[j - (i - 1)]
      BY <2>2, <1>1, <1>2, <1>3
    <3>3. back[j - (i - 1)] = s[i + (j - (i - 1))]
      BY <3>1, <1>3
    <3> QED BY <2>2, <3>1, <3>2, <3>3
  <2> QED BY <2>1, <2>2
<1>7. /\ k \in Nat \ {0} /\ DOMAIN s = 1..k /\ s[i] \in S
      /\ RemoveAt(s, i) \in Seq(S) /\ Len(RemoveAt(s, i)) = k - 1
      /\ DOMAIN RemoveAt(s, i) = 1..(k - 1)
      /\ \A j \in 1..(k - 1) : RemoveAt(s, i)[j] = s[IF j < i THEN j ELSE j + 1]
  BY <1>1, <1>4, <1>5, <1>6
<1> QED BY <1>7 DEF k

(* A call reaches the runtime: it is turned away, the record answers it, or  *)
(* it joins the gate.                                                        *)
LEMMA ArriveKeeps ==
  ASSUME IInv, NEW n \in Node, Arrive(n)
  PROVE  IInv'
<1> USE NoneAssumption, FaultsAssumption DEF IInv, serverVars
<1>1. PICK i \in DOMAIN wire[n] :
        /\ \/ i = 1 /\ UNCHANGED <<overtaken, budget>>
           \/ i # 1 /\ Fault /\ overtaken' = TRUE
        /\ wire' = [wire EXCEPT ![n] = RemoveAt(wire[n], i)]
        /\ \/ /\ gate[n] # <<>>
              /\ Answered(wire[n][i], "busy")
              /\ UNCHANGED gate
           \/ /\ Holds(n)
              /\ Answered(wire[n][i], Replayed(n, wire[n][i]))
              /\ UNCHANGED gate
           \/ /\ ~Holds(n)
              /\ gate' = [gate EXCEPT ![n] = Append(gate[n], wire[n][i])]
              /\ call' = [call EXCEPT ![wire[n][i]].place = "gate"]
  BY DEF Arrive
<1> DEFINE c == wire[n][i]
<1> DEFINE old(j) == IF j < i THEN j ELSE j + 1
<1> DEFINE rest == 1..(Len(wire[n]) - 1)
<1>2. /\ Len(wire[n]) \in Nat \ {0} /\ DOMAIN wire[n] = 1..Len(wire[n]) /\ c \in Call
      /\ wire' \in [Node -> Seq(Call)] /\ Len(wire'[n]) = Len(wire[n]) - 1
      /\ DOMAIN wire'[n] = rest
      /\ \A j \in rest : wire'[n][j] = wire[n][old(j)]
      /\ \A m \in Node \ {n} : wire'[m] = wire[m]
  <2>1. wire \in [Node -> Seq(Call)]
    BY DEF TypeOK
  <2>2. /\ Len(wire[n]) \in Nat \ {0} /\ DOMAIN wire[n] = 1..Len(wire[n]) /\ c \in Call
        /\ RemoveAt(wire[n], i) \in Seq(Call) /\ Len(RemoveAt(wire[n], i)) = Len(wire[n]) - 1
        /\ DOMAIN RemoveAt(wire[n], i) = rest
        /\ \A j \in rest : RemoveAt(wire[n], i)[j] = wire[n][old(j)]
    BY <2>1, <1>1, WithoutOne
  <2>3. /\ wire' \in [Node -> Seq(Call)] /\ wire'[n] = RemoveAt(wire[n], i)
        /\ \A m \in Node \ {n} : wire'[m] = wire[m]
    BY <2>1, <2>2, <1>1
  <2> QED BY <2>2, <2>3
<1>3. /\ \A j \in rest : old(j) \in DOMAIN wire[n] /\ old(j) # i
      /\ \A j, l \in rest : old(j) = old(l) => j = l
  BY <1>1, <1>2
<1>4. /\ call[c] # None /\ call[c] \in Create /\ call[c].node = n /\ call[c].place = "wire"
      /\ assignment # None /\ assignment.node = n
  BY <1>1, <1>2 DEF TypeOK, CallsInPlace, OneNode
<1>5. /\ wire[n] # <<>>
      /\ UNCHANGED <<early, receipt, assignment, index, submission, claims, known>>
      /\ UNCHANGED <<connected, admission, reservation, journal>>
      /\ \A m \in Node : Holds(m)' = Holds(m)
      /\ overtaken' \in BOOLEAN /\ budget' \in 0..Faults
      /\ ~overtaken' => ~overtaken /\ i = 1
  <2>1. /\ UNCHANGED <<early, receipt, assignment, index, submission, claims, known>>
        /\ UNCHANGED <<connected, admission, reservation, journal>>
    BY DEF Arrive
  <2>2. overtaken' \in BOOLEAN /\ (~overtaken' => ~overtaken /\ i = 1)
    <3>1. CASE i = 1 /\ UNCHANGED <<overtaken, budget>>
      BY <3>1 DEF TypeOK
    <3>2. CASE overtaken' = TRUE
      BY <3>2
    <3> QED BY <3>1, <3>2, <1>1
  <2>3. budget' \in 0..Faults
    <3>1. budget \in 0..Faults
      BY DEF TypeOK
    <3>2. CASE budget' = budget
      BY <3>1, <3>2
    <3>3. CASE budget > 0 /\ budget' = budget - 1
      BY <3>1, <3>3
    <3> QED BY <3>2, <3>3, <1>1 DEF Fault
  <2>4. wire[n] # <<>>
    BY <1>2
  <2> QED BY <2>1, <2>2, <2>3, <2>4 DEF Holds
<1>6. Holds(n) => Replayed(n, c) = "ok"
  BY <1>2, <1>4 DEF Replayed, OneInput, AcceptsClaimedInput
<1>7. PICK joined \in BOOLEAN, reply \in {"busy", "ok"} :
        /\ ~joined => Answered(c, reply) /\ UNCHANGED gate /\ (reply = "ok" => Holds(n))
        /\ joined => /\ ~Holds(n)
                     /\ gate' = [gate EXCEPT ![n] = Append(gate[n], c)]
                     /\ call' = [call EXCEPT ![c].place = "gate"]
  <2>1. CASE Answered(c, "busy") /\ UNCHANGED gate
    <3> WITNESS FALSE \in BOOLEAN, "busy" \in {"busy", "ok"}
    <3> QED BY <2>1
  <2>2. CASE Holds(n) /\ Answered(c, Replayed(n, c)) /\ UNCHANGED gate
    <3> WITNESS FALSE \in BOOLEAN, "ok" \in {"busy", "ok"}
    <3> QED BY <2>2, <1>6
  <2>3. CASE /\ ~Holds(n) /\ gate' = [gate EXCEPT ![n] = Append(gate[n], c)]
             /\ call' = [call EXCEPT ![c].place = "gate"]
    <3> WITNESS TRUE \in BOOLEAN, "ok" \in {"busy", "ok"}
    <3> QED BY <2>3
  <2> QED BY <2>1, <2>2, <2>3, <1>1
<1> HIDE DEF c, old, rest
<1>8. /\ call' \in [Call -> Create \cup {None}]
      /\ \A d \in Call \ {c} : call'[d] = call[d]
      /\ call'[c] # None =>
           /\ call'[c].node = n /\ call'[c].request = call[c].request
           /\ call'[c].open = call[c].open
      /\ ~joined => IF call[c].open THEN /\ call'[c] # None /\ call'[c].place = "answered"
                                         /\ call'[c].reply = reply
                                    ELSE call'[c] = None
      /\ joined => /\ call'[c] # None
                   /\ call'[c].place = "gate" /\ call'[c].reply = call[c].reply
  <2>1. /\ [call[c] EXCEPT !.place = "answered", !.reply = reply] \in Create
        /\ [call[c] EXCEPT !.place = "gate"] \in Create
    BY <1>4 DEF Create, Place, Reply
  <2>2. CASE ~joined
    <3>1. call' = [call EXCEPT ![c] = IF call[c].open
                     THEN [call[c] EXCEPT !.place = "answered", !.reply = reply] ELSE None]
      BY <1>7, <2>2 DEF Answered
    <3> QED BY <1>2, <1>4, <2>1, <2>2, <3>1, ZenonT(40) DEF TypeOK, Create
  <2>3. CASE joined
    <3>1. call' = [call EXCEPT ![c] = [call[c] EXCEPT !.place = "gate"]]
      BY <1>7, <2>3
    <3> QED BY <1>2, <1>4, <2>1, <2>3, <3>1 DEF TypeOK, Create
  <2> QED BY <2>2, <2>3
<1>9. /\ gate[n] \in Seq(Call) /\ gate' \in [Node -> Seq(Call)]
      /\ \A m \in Node \ {n} : gate'[m] = gate[m]
      /\ ~joined => gate'[n] = gate[n]
      /\ joined => gate'[n] = Append(gate[n], c)
  <2>1. gate[n] \in Seq(Call) /\ Append(gate[n], c) \in Seq(Call)
    BY <1>2, AppendedCall DEF TypeOK
  <2>2. CASE ~joined
    BY <2>1, <2>2, <1>7 DEF TypeOK
  <2>3. CASE joined
    <3>1. gate' = [gate EXCEPT ![n] = Append(gate[n], c)]
      BY <2>3, <1>7
    <3>2. gate \in [Node -> Seq(Call)]
      BY DEF TypeOK
    <3> QED BY <2>1, <2>3, <3>1, <3>2
  <2> QED BY <2>2, <2>3
<1>10. TypeOK'
  BY <1>2, <1>5, <1>8, <1>9 DEF TypeOK
<1>11. /\ \A m \in Node : \A j \in DOMAIN gate[m] : gate[m][j] \in Call \ {c}
       /\ \A m \in Node \ {n} : \A j \in DOMAIN wire[m] : wire[m][j] \in Call \ {c}
       /\ \A j \in rest : wire'[n][j] \in Call \ {c}
  <2>1. \A m \in Node : \A j \in DOMAIN gate[m] : gate[m][j] \in Call \ {c}
    BY <1>4, QueuedCalls
  <2>2. \A m \in Node \ {n} : \A j \in DOMAIN wire[m] : wire[m][j] \in Call \ {c}
    BY <1>2, <1>4 DEF TypeOK, CallsInPlace
  <2>3. ASSUME NEW j \in rest
        PROVE  wire'[n][j] \in Call \ {c}
    <3>1. old(j) \in DOMAIN wire[n] /\ old(j) # i /\ wire'[n][j] = wire[n][old(j)]
      BY <1>2, <1>3
    <3>2. wire[n][old(j)] \in Call /\ wire[n][old(j)] # wire[n][i]
      BY <3>1, <1>1 DEF TypeOK, CallsInPlace
    <3> QED BY <3>1, <3>2 DEF c
  <2> QED BY <2>1, <2>2, <2>3
<1>12. CallsInPlace'
  <2>1. ASSUME NEW m \in Node, NEW j \in DOMAIN wire'[m]
        PROVE  /\ call'[wire'[m][j]] # None /\ call'[wire'[m][j]].node = m
               /\ call'[wire'[m][j]].place = "wire"
    <3>1. CASE m = n
      <4>1. j \in rest /\ old(j) \in DOMAIN wire[n] /\ wire'[n][j] = wire[n][old(j)]
        BY <2>1, <3>1, <1>2, <1>3
      <4>2. call'[wire'[n][j]] = call[wire[n][old(j)]]
        BY <4>1, <1>8, <1>11
      <4> QED BY <3>1, <4>1, <4>2 DEF CallsInPlace
    <3>2. CASE m # n
      BY <2>1, <3>2, <1>2, <1>8, <1>11 DEF CallsInPlace
    <3> QED BY <3>1, <3>2
  <2>2. ASSUME NEW m \in Node, NEW j \in DOMAIN wire'[m], NEW l \in DOMAIN wire'[m],
               wire'[m][j] = wire'[m][l]
        PROVE  j = l
    <3>1. CASE m = n
      <4>1. /\ j \in rest /\ l \in rest
            /\ old(j) \in DOMAIN wire[n] /\ old(l) \in DOMAIN wire[n]
            /\ wire[n][old(j)] = wire[n][old(l)]
        BY <2>2, <3>1, <1>2, <1>3
      <4>2. old(j) = old(l)
        BY <4>1 DEF CallsInPlace
      <4> QED BY <4>1, <4>2, <1>3
    <3>2. CASE m # n
      BY <2>2, <3>2, <1>2 DEF CallsInPlace
    <3> QED BY <3>1, <3>2
  <2>3. ASSUME NEW m \in Node, NEW j \in DOMAIN gate[m]
        PROVE  /\ call'[gate[m][j]] # None /\ call'[gate[m][j]].node = m
               /\ call'[gate[m][j]].place \in IF j = 1 THEN {"gate", "preparing"} ELSE {"gate"}
    BY <1>8, <1>11 DEF CallsInPlace
  <2>4. CASE ~joined
    BY <2>1, <2>2, <2>3, <2>4, <1>9 DEF CallsInPlace
  <2>5. CASE joined
    <3>1. /\ Len(gate[n]) \in Nat /\ DOMAIN gate[n] = 1..Len(gate[n])
          /\ DOMAIN gate'[n] = 1..(Len(gate[n]) + 1)
          /\ gate'[n][Len(gate[n]) + 1] = c
          /\ \A j \in 1..Len(gate[n]) : gate'[n][j] = gate[n][j]
      BY <2>5, <1>2, <1>9, AppendedCall
    <3>2. \A j \in DOMAIN gate'[n] : j = Len(gate[n]) + 1 \/ j \in DOMAIN gate[n]
      BY <3>1
    <3>3. ASSUME NEW j \in DOMAIN gate'[n]
          PROVE  /\ call'[gate'[n][j]] # None /\ call'[gate'[n][j]].node = n
                 /\ call'[gate'[n][j]].place \in IF j = 1 THEN {"gate", "preparing"} ELSE {"gate"}
      <4>1. CASE j = Len(gate[n]) + 1
        BY <4>1, <3>1, <2>5, <1>8
      <4>2. CASE j \in DOMAIN gate[n]
        BY <4>2, <3>1, <2>3
      <4> QED BY <4>1, <4>2, <3>2
    <3>4. \A j, l \in DOMAIN gate'[n] : gate'[n][j] = gate'[n][l] => j = l
      BY <3>1, <3>2, <1>11 DEF CallsInPlace
    <3> QED BY <2>1, <2>2, <2>3, <3>3, <3>4, <1>9 DEF CallsInPlace
  <2> QED BY <2>4, <2>5
<1>13. OneInput'
  <2>1. ASSUME NEW m \in Node, Preparing(m)'
        PROVE  Preparing(m)
    <3>1. gate'[m] # <<>> /\ gate'[m] \in Seq(Call) /\ call'[Head(gate'[m])].place = "preparing"
      BY <2>1, <1>9 DEF Preparing
    <3>2. CASE gate[m] = <<>>
      <4>1. m = n /\ joined /\ gate'[n] = Append(<<>>, c)
        BY <3>1, <3>2, <1>9
      <4>2. Head(gate'[n]) = c
        BY <4>1
      <4> QED BY <3>1, <4>1, <4>2, <1>8
    <3>3. CASE gate[m] # <<>>
      <4>1. 1 \in DOMAIN gate[m] /\ Head(gate[m]) = gate[m][1] /\ Head(gate[m]) \in Call \ {c}
        BY <3>3, <1>11, HeadAndTail DEF TypeOK
      <4>2. Head(gate'[m]) = Head(gate[m])
        <5>1. CASE gate'[m] = gate[m]
          BY <5>1
        <5>2. CASE m = n /\ gate'[n] = Append(gate[n], c)
          BY <5>2, <3>1, <3>3, <1>9, <4>1, HeadAndTail, AppendedCall, <1>2
        <5> QED BY <5>1, <5>2, <1>9
      <4> QED BY <3>1, <3>3, <4>1, <4>2, <1>8 DEF Preparing
    <3> QED BY <3>2, <3>3
  <2>2. \A d \in Call : call'[d] # None => call[d] # None /\ call'[d].request = call[d].request
    BY <1>4, <1>8
  <2> QED BY <1>5, <2>1, <2>2 DEF OneInput, AcceptsClaimedInput
<1>14. OneNode'
  BY <1>4, <1>5, <1>8 DEF OneNode
<1>15. AnswersTrue'
  <2>1. ~Refused
    BY <1>4, <1>5 DEF Refused, Quiet
  <2>2. ASSUME NEW d \in Call, call'[d] # None
        PROVE  /\ call'[d].reply # "conflict"
               /\ call'[d].reply = "ok" => journal'[call'[d].node].status # "absent"
    <3>1. CASE d = c
      BY <3>1, <2>2, <1>2, <1>4, <1>5, <1>7, <1>8 DEF AnswersTrue, Holds
    <3>2. CASE d # c
      BY <3>2, <2>2, <1>5, <1>8 DEF AnswersTrue, Holds
    <3> QED BY <3>1, <3>2
  <2>3. ASSUME submission # None, submission.step = "waiting", NEW d, d = submission.call
        PROVE  /\ d # None /\ call'[d] # None /\ call'[d].open
               /\ ~overtaken' =>
                    /\ call'[d].place = "wire" => wire'[n] # <<>> /\ d = LastOf(wire'[n])
                    /\ call'[d].place \in {"gate", "preparing"} =>
                         wire'[n] = <<>> /\ gate'[n] # <<>> /\ d = LastOf(gate'[n])
                    /\ call'[d].reply # "refused"
    <3>0. d \in Call /\ d # None /\ call[d] # None /\ call[d].open
      BY <2>3 DEF AnswersTrue, TypeOK, Submission
    <3>1. call'[d] # None /\ call'[d].open
      BY <3>0, <1>8
    <3> SUFFICES ASSUME ~overtaken'
                 PROVE  /\ call'[d].place = "wire" => wire'[n] # <<>> /\ d = LastOf(wire'[n])
                        /\ call'[d].place \in {"gate", "preparing"} =>
                             wire'[n] = <<>> /\ gate'[n] # <<>> /\ d = LastOf(gate'[n])
                        /\ call'[d].reply # "refused"
      BY <3>0, <3>1
    <3>2. /\ i = 1 /\ ~overtaken
          /\ call[d].place = "wire" => wire[n] # <<>> /\ d = wire[n][Len(wire[n])]
          /\ call[d].place \notin {"gate", "preparing"}
          /\ call[d].reply # "refused"
      BY <2>1, <2>3, <1>4, <1>5 DEF AnswersTrue, LastOf
    <3>3. CASE d # c
      <4>1. call'[d] = call[d]
        BY <3>0, <3>3, <1>8
      <4>2. CASE call[d].place = "wire"
        <5>1. Len(wire[n]) # 1
          BY <3>2, <3>3, <4>2 DEF c
        <5>2. \A k \in Nat \ {0} : k # 1 => k - 1 \in 1..(k - 1) /\ k - 1 + 1 = k /\ ~(k - 1 < 1)
          OBVIOUS
        <5>3. /\ Len(wire[n]) - 1 \in rest /\ Len(wire[n]) - 1 + 1 = Len(wire[n])
              /\ ~(Len(wire[n]) - 1 < i)
          BY <5>1, <5>2, <3>2, <1>2 DEF rest
        <5>4. old(Len(wire[n]) - 1) = Len(wire[n])
          BY <5>3 DEF old
        <5>5. Len(wire'[n]) # 0 /\ wire'[n][Len(wire'[n])] = wire[n][Len(wire[n])]
          BY <5>1, <5>3, <5>4, <1>2
        <5>6. wire'[n] # <<>>
          BY <5>5
        <5>7. LastOf(wire'[n]) = d
          BY <5>5, <3>2, <4>2 DEF LastOf
        <5> QED BY <3>2, <4>1, <4>2, <5>6, <5>7
      <4> QED BY <3>2, <4>1, <4>2
    <3>4. CASE d = c
      <4>1. Len(wire[n]) = 1
        <5>1. c = wire[n][Len(wire[n])] /\ Len(wire[n]) \in DOMAIN wire[n]
          BY <3>2, <3>4, <1>2, <1>4
        <5>2. wire[n][Len(wire[n])] = wire[n][i]
          BY <5>1 DEF c
        <5>3. \A j, l \in DOMAIN wire[n] : wire[n][j] = wire[n][l] => j = l
          BY DEF CallsInPlace
        <5> QED BY <5>1, <5>2, <5>3, <3>2
      <4>2. wire'[n] = <<>>
        <5>1. Len(wire'[n]) = 0 /\ wire'[n] \in Seq(Call)
          BY <4>1, <1>2
        <5> QED BY <5>1
      <4>3. ASSUME joined
            PROVE  gate'[n] # <<>> /\ LastOf(gate'[n]) = c
        <5>0. gate[n] \in Seq(Call) /\ c \in Call
          BY <1>2, <1>9
        <5>1. Append(gate[n], c) # <<>> /\ LastOf(Append(gate[n], c)) = c
          BY <5>0, AppendedCall
        <5>2. gate'[n] = Append(gate[n], c)
          BY <4>3, <1>9
        <5> QED BY <5>1, <5>2
      <4> QED BY <3>0, <3>1, <3>2, <3>4, <4>2, <4>3, <1>7, <1>8
    <3> QED BY <3>3, <3>4
  <2>4. submission # None /\ submission.step = "waiting" =>
          LET d == submission.call
          IN  /\ d # None /\ call'[d] # None /\ call'[d].open
              /\ ~overtaken' =>
                   /\ call'[d].place = "wire" => wire'[n] # <<>> /\ d = LastOf(wire'[n])
                   /\ call'[d].place \in {"gate", "preparing"} =>
                        wire'[n] = <<>> /\ gate'[n] # <<>> /\ d = LastOf(gate'[n])
                   /\ call'[d].reply # "refused"
    BY <2>3
  <2>5. /\ submission # None /\ submission.step # "waiting" => submission.call = None
        /\ submission # None /\ submission.step = "replied" =>
             /\ submission.reply # "conflict"
             /\ submission.reply = "ok" => Holds(n)
             /\ ~overtaken => submission.reply # "refused"
        /\ receipt.phase = "accepted" => Holds(n)
        /\ ~overtaken => receipt.phase # "rejected"
    BY <1>4, <2>1 DEF AnswersTrue
  <2> QED BY <1>4, <1>5, <2>2, <2>4, <2>5 DEF AnswersTrue, Holds
<1> QED BY <1>10, <1>12, <1>13, <1>14, <1>15

-------------------------------------------------------------------------------
(* A socket ends: what its wire already delivered stays, frames that were    *)
(* still under way are lost, and no answer comes back.                       *)
LEMMA DetachedKeeps ==
  ASSUME IInv, NEW gone, NEW lost \in SUBSET Call,
         call' = Detached(gone, lost),
         wire' \in [Node -> Seq(Call)],
         \A m \in Node : /\ DOMAIN wire'[m] \subseteq DOMAIN wire[m]
                         /\ \A i \in DOMAIN wire'[m] : /\ wire'[m][i] = wire[m][i]
                                                       /\ wire'[m][i] \notin lost,
         \A c \in lost : call[c] # None => call[c].place = "wire",
         UNCHANGED <<gate, receipt, assignment, reservation, journal>>,
         submission' # None =>
           /\ submission # None /\ submission'.request = submission.request
           /\ submission' = submission \/ submission.step = "waiting"
  PROVE  /\ call' \in [Call -> Create \cup {None}]
         /\ CallsInPlace' /\ OneInput' /\ OneNode'
         /\ \A c \in Call : call'[c] # None =>
              /\ call'[c].reply # "conflict"
              /\ call'[c].reply = "ok" => journal'[call'[c].node].status # "absent"
<1> USE NoneAssumption DEF IInv
<1>1. ASSUME NEW c \in Call
      PROVE  /\ call'[c] \in Create \cup {None}
             /\ call'[c] # None =>
                  /\ call[c] # None
                  /\ call'[c].node = call[c].node /\ call'[c].request = call[c].request
                  /\ call'[c].place = call[c].place /\ call'[c].reply = call[c].reply
             /\ call[c] # None /\ c \notin lost /\ call[c].place # "answered" => call'[c] # None
  <2>1. call'[c] = IF call[c] = None \/ call[c].node \notin gone THEN call[c]
                   ELSE IF c \in lost \/ call[c].place = "answered" THEN None
                   ELSE [call[c] EXCEPT !.open = FALSE]
    BY DEF Detached
  <2>2. call[c] \in Create \cup {None}
    BY DEF TypeOK
  <2>3. CASE call[c] = None
    BY <2>1, <2>3
  <2>4. CASE call[c] # None
    <3>1. [call[c] EXCEPT !.open = FALSE] \in Create
      BY <2>2, <2>4 DEF Create
    <3> QED BY <2>1, <2>2, <2>4, <3>1 DEF Create
  <2> QED BY <2>3, <2>4
<1>2. call' \in [Call -> Create \cup {None}]
  <2>1. call' = [c \in Call |-> call'[c]]
    BY DEF Detached
  <2> QED BY <1>1, <2>1
<1>3. ASSUME NEW m \in Node, NEW i \in DOMAIN gate[m]
      PROVE  /\ gate[m][i] \in Call /\ call'[gate[m][i]] # None
             /\ call'[gate[m][i]].node = m
             /\ call'[gate[m][i]].place = call[gate[m][i]].place
  <2>1. /\ gate[m][i] \in Call /\ call[gate[m][i]] # None /\ call[gate[m][i]].node = m
        /\ call[gate[m][i]].place \in {"gate", "preparing"}
    BY QueuedCalls
  <2> QED BY <2>1, <1>1
<1>4. ASSUME NEW m \in Node, NEW i \in DOMAIN wire'[m]
      PROVE  /\ call'[wire'[m][i]] # None /\ call'[wire'[m][i]].node = m
             /\ call'[wire'[m][i]].place = "wire"
  <2>1. /\ wire'[m][i] = wire[m][i] /\ i \in DOMAIN wire[m] /\ wire'[m][i] \notin lost
    OBVIOUS
  <2>2. /\ wire[m][i] \in Call /\ call[wire[m][i]] # None
        /\ call[wire[m][i]].node = m /\ call[wire[m][i]].place = "wire"
    BY <2>1, QueuedCalls
  <2> QED BY <2>1, <2>2, <1>1
<1>5. \A m \in Node : \A i, j \in DOMAIN wire'[m] : wire'[m][i] = wire'[m][j] => i = j
  BY DEF CallsInPlace
<1>6. CallsInPlace'
  BY <1>3, <1>4, <1>5 DEF CallsInPlace
<1>7. ASSUME NEW m \in Node, Preparing(m)'
      PROVE  Preparing(m)
  <2>1. gate[m] # <<>> /\ call'[Head(gate[m])].place = "preparing"
    BY <1>7 DEF Preparing
  <2>2. 1 \in DOMAIN gate[m] /\ Head(gate[m]) = gate[m][1]
    BY <2>1, HeadAndTail DEF TypeOK
  <2> QED BY <2>1, <2>2, <1>3 DEF Preparing
<1>8. OneInput'
  <2>1. \A c \in Call : call'[c] # None => call'[c].request = receipt.request
    BY <1>1 DEF OneInput
  <2>2. \A m \in Node : Preparing(m)' => reservation[m] # None /\ ~Holds(m)'
    BY <1>7 DEF OneInput, Holds
  <2>3. submission' # None => submission'.request = receipt.request
    BY DEF OneInput
  <2>4. AcceptsClaimedInput'
    BY DEF OneInput, AcceptsClaimedInput, Holds
  <2>5. UNCHANGED <<receipt, assignment, reservation>>
    OBVIOUS
  <2> QED BY <2>1, <2>2, <2>3, <2>4, <2>5 DEF OneInput
<1>9. OneNode'
  <2>1. \A c \in Call : call'[c] # None => assignment # None /\ call'[c].node = assignment.node
    BY <1>1 DEF OneNode
  <2>2. submission' # None =>
          /\ receipt.phase \in {"claimed", "prepared"}
          /\ (submission'.step # "placing" => receipt.phase = "prepared")
    BY DEF OneNode
  <2>3. \A m \in Node : Holds(m)' => assignment # None /\ assignment.node = m
    BY DEF OneNode, Holds
  <2>4. UNCHANGED <<receipt, assignment>>
    OBVIOUS
  <2> QED BY <2>1, <2>2, <2>3, <2>4 DEF OneNode
<1>10. \A c \in Call : call'[c] # None =>
         /\ call'[c].reply # "conflict"
         /\ call'[c].reply = "ok" => journal'[call'[c].node].status # "absent"
  BY <1>1 DEF AnswersTrue, Holds
<1> QED BY <1>2, <1>6, <1>8, <1>9, <1>10

(* A submission whose socket broke is told busy at once.                    *)
LEMMA InterruptedSubmission ==
  ASSUME IInv, NEW n \in Node
  PROVE  LET s == Interrupted({n})
         IN  /\ s \in Submission \cup {None}
             /\ s # None => /\ submission # None /\ s.request = submission.request
                            /\ \/ s = submission
                               \/ /\ submission.step = "waiting" /\ s.step = "replied"
                                  /\ s.call = None /\ s.reply = "busy"
             /\ submission # None /\ submission.step = "waiting" =>
                  (s = submission <=> assignment.node # n)
<1> USE NoneAssumption DEF IInv
<1>1. submission # None => submission \in Submission
  BY DEF TypeOK
<1>2. submission # None /\ submission.step = "waiting" =>
        /\ submission.call \in Call /\ call[submission.call] # None
        /\ call[submission.call].node = assignment.node
  BY <1>1 DEF AnswersTrue, OneNode, Submission
<1>3. CASE submission # None /\ submission.step = "waiting" /\ assignment.node = n
  <2>1. Interrupted({n}) = [submission EXCEPT !.step = "replied", !.call = None, !.reply = "busy"]
    BY <1>2, <1>3 DEF Interrupted
  <2>2. Interrupted({n}) \in Submission
    BY <1>1, <1>3, <2>1 DEF Submission, Step, Reply
  <2>3. Interrupted({n}).step = "replied" /\ Interrupted({n}).call = None
        /\ Interrupted({n}).reply = "busy" /\ Interrupted({n}).request = submission.request
    BY <1>1, <1>3, <2>1 DEF Submission
  <2>4. Interrupted({n}) # submission
    BY <1>3, <2>3
  <2> QED BY <1>1, <1>3, <2>2, <2>3, <2>4
<1>4. CASE ~(submission # None /\ submission.step = "waiting" /\ assignment.node = n)
  <2>1. Interrupted({n}) = submission
    BY <1>2, <1>4 DEF Interrupted
  <2> QED BY <1>1, <1>4, <2>1
<1> QED BY <1>3, <1>4

(* A broken socket keeps a prefix of its frames and ends the rest.          *)
LEMMA DisconnectKeeps ==
  ASSUME IInv, NEW n \in Node, Disconnect(n)
  PROVE  IInv'
<1> USE NoneAssumption, FaultsAssumption DEF IInv, nodeVars
<1>1. PICK k \in 0..Len(wire[n]) :
        /\ wire' = [wire EXCEPT ![n] = SubSeq(@, 1, k)]
        /\ call' = Detached({n}, ToSet(SubSeq(wire[n], k + 1, Len(wire[n]))))
  BY DEF Disconnect
<1> DEFINE lost == ToSet(SubSeq(wire[n], k + 1, Len(wire[n])))
<1>2. /\ UNCHANGED <<early, overtaken, receipt, assignment, index, claims, known>>
      /\ UNCHANGED <<gate, admission, reservation, journal>>
      /\ submission' = Interrupted({n})
      /\ connected' \subseteq Node /\ budget' \in 0..Faults
  BY DEF Disconnect, Fault, TypeOK
<1>3. /\ wire[n] \in Seq(Call) /\ Len(wire[n]) \in Nat /\ DOMAIN wire[n] = 1..Len(wire[n])
      /\ SubSeq(wire[n], 1, k) \in Seq(Call)
      /\ DOMAIN SubSeq(wire[n], 1, k) = 1..k
      /\ \A i \in 1..k : SubSeq(wire[n], 1, k)[i] = wire[n][i]
      /\ \A x \in lost : \E i \in DOMAIN wire[n] : i > k /\ x = wire[n][i]
  BY PrefixAndRest DEF TypeOK
<1> HIDE DEF lost
<1>4. /\ wire' \in [Node -> Seq(Call)] /\ wire'[n] = SubSeq(wire[n], 1, k)
      /\ \A m \in Node \ {n} : wire'[m] = wire[m]
  BY <1>1, <1>3 DEF TypeOK
<1>5. /\ lost \in SUBSET Call
      /\ \A c \in lost : call[c] # None /\ call[c].place = "wire" /\ call[c].node = n
  BY <1>3, QueuedCalls
<1>6. ASSUME NEW m \in Node
      PROVE  /\ DOMAIN wire'[m] \subseteq DOMAIN wire[m]
             /\ \A i \in DOMAIN wire'[m] : wire'[m][i] = wire[m][i] /\ wire'[m][i] \notin lost
  <2>1. CASE m = n
    <3>1. \A i \in 1..k : i \in DOMAIN wire[n] /\ wire'[n][i] = wire[n][i]
      BY <1>3, <1>4
    <3>2. ASSUME NEW i \in 1..k, wire[n][i] \in lost
          PROVE  FALSE
      <4>1. PICK j \in DOMAIN wire[n] : j > k /\ wire[n][i] = wire[n][j]
        BY <3>2, <1>3
      <4>2. i = j
        BY <4>1, <3>1 DEF CallsInPlace
      <4> QED BY <4>1, <4>2
    <3>3. DOMAIN wire'[n] = 1..k
      BY <1>3, <1>4
    <3> QED BY <2>1, <3>1, <3>2, <3>3
  <2>2. CASE m # n
    <3>1. \A i \in DOMAIN wire[m] : wire[m][i] \in Call /\ call[wire[m][i]].node = m
      BY QueuedCalls
    <3> QED BY <2>2, <3>1, <1>4, <1>5
  <2> QED BY <2>1, <2>2
<1>7. /\ submission' \in Submission \cup {None}
      /\ submission' # None =>
           /\ submission # None /\ submission'.request = submission.request
           /\ \/ submission' = submission
              \/ /\ submission.step = "waiting" /\ submission'.step = "replied"
                 /\ submission'.call = None /\ submission'.reply = "busy"
      /\ submission # None /\ submission.step = "waiting" =>
           (submission' = submission <=> assignment.node # n)
  BY <1>2, InterruptedSubmission
<1>8. /\ call' \in [Call -> Create \cup {None}]
      /\ CallsInPlace' /\ OneInput' /\ OneNode'
      /\ \A c \in Call : call'[c] # None =>
           /\ call'[c].reply # "conflict"
           /\ call'[c].reply = "ok" => journal'[call'[c].node].status # "absent"
  <2>1. call' = Detached({n}, lost)
    BY <1>1 DEF lost
  <2> QED BY <2>1, <1>2, <1>4, <1>5, <1>6, <1>7, DetachedKeeps
<1>9. TypeOK'
  BY <1>2, <1>4, <1>7, <1>8 DEF TypeOK
<1>10. AnswersTrue'
  <2>1. Refused /\ assignment # None => Refused'
    <3>1. assignment # None => assignment.node \in Node
      BY DEF TypeOK, Assignment
    <3>2. \A m \in Node : wire[m] = <<>> => wire'[m] = <<>>
      BY <1>4, <1>6
    <3> QED BY <3>1, <3>2, <1>2 DEF Refused, Quiet, Holds
  <2>2. CASE submission' = submission
    <3>1. submission # None /\ submission.step = "waiting" =>
            /\ wire'[assignment.node] = wire[assignment.node]
            /\ submission.call \in Call
            /\ call'[submission.call] = call[submission.call]
      BY <2>2, <1>1, <1>4, <1>7 DEF AnswersTrue, OneNode, Submission, Detached
    <3> QED BY <2>1, <2>2, <3>1, <1>2, <1>8 DEF AnswersTrue, OneNode, Holds
  <2>3. CASE submission' # submission
    BY <2>1, <2>3, <1>2, <1>7, <1>8 DEF AnswersTrue, OneNode, Holds
  <2> QED BY <2>2, <2>3
<1> QED BY <1>8, <1>9, <1>10

(* The server starts again without submissions, claims and sockets.          *)
LEMMA ServerCrashKeeps ==
  ASSUME IInv, ServerCrash
  PROVE  IInv'
<1> USE NoneAssumption, FaultsAssumption DEF IInv, nodeVars
<1>1. PICK arrived \in [Node -> 0..Cardinality(Call)] :
        /\ \A n \in Node : arrived[n] <= Len(wire[n])
        /\ wire' = [n \in Node |-> SubSeq(wire[n], 1, arrived[n])]
        /\ call' = Detached(Node, UNION {ToSet(SubSeq(wire[n], arrived[n] + 1, Len(wire[n]))) :
                                        n \in Node})
  BY DEF ServerCrash
<1> DEFINE lostOf(n) == ToSet(SubSeq(wire[n], arrived[n] + 1, Len(wire[n])))
<1> DEFINE lost == UNION {lostOf(n) : n \in Node}
<1>2. /\ UNCHANGED <<early, overtaken, receipt, assignment, index>>
      /\ UNCHANGED <<gate, admission, reservation, journal>>
      /\ submission' = None /\ claims' = 0 /\ known' = FALSE /\ connected' = {}
      /\ budget' \in 0..Faults
  BY DEF ServerCrash, Fault, TypeOK
<1>3. ASSUME NEW m \in Node
      PROVE  /\ wire[m] \in Seq(Call) /\ wire'[m] \in Seq(Call)
             /\ arrived[m] \in 0..Len(wire[m])
             /\ DOMAIN wire[m] = 1..Len(wire[m]) /\ DOMAIN wire'[m] = 1..arrived[m]
             /\ \A i \in 1..arrived[m] : wire'[m][i] = wire[m][i]
             /\ \A x \in lostOf(m) : \E i \in DOMAIN wire[m] : i > arrived[m] /\ x = wire[m][i]
  <2>1. wire[m] \in Seq(Call) /\ Len(wire[m]) \in Nat /\ DOMAIN wire[m] = 1..Len(wire[m])
    BY DEF TypeOK
  <2>2. arrived[m] \in 0..Len(wire[m])
    BY <2>1, <1>1
  <2>3. wire'[m] = SubSeq(wire[m], 1, arrived[m])
    BY <1>1
  <2>4. /\ SubSeq(wire[m], 1, arrived[m]) \in Seq(Call)
        /\ DOMAIN SubSeq(wire[m], 1, arrived[m]) = 1..arrived[m]
        /\ \A i \in 1..arrived[m] : SubSeq(wire[m], 1, arrived[m])[i] = wire[m][i]
        /\ \A x \in lostOf(m) : \E i \in DOMAIN wire[m] : i > arrived[m] /\ x = wire[m][i]
    <3>1. \A s \in Seq(Call) : \A k \in 0..Len(s) :
            /\ SubSeq(s, 1, k) \in Seq(Call)
            /\ DOMAIN SubSeq(s, 1, k) = 1..k
            /\ \A i \in 1..k : SubSeq(s, 1, k)[i] = s[i]
            /\ \A x \in ToSet(SubSeq(s, k + 1, Len(s))) : \E i \in DOMAIN s : i > k /\ x = s[i]
      BY PrefixAndRest
    <3> QED BY <2>1, <2>2, <3>1
  <2> HIDE DEF lostOf
  <2> QED BY <2>1, <2>2, <2>3, <2>4
<1> HIDE DEF lostOf
<1>4. wire' \in [Node -> Seq(Call)]
  BY <1>1, <1>3
<1>5. ASSUME NEW m \in Node, NEW c \in lostOf(m)
      PROVE  c \in Call /\ call[c] # None /\ call[c].place = "wire" /\ call[c].node = m
  BY <1>3, <1>5, QueuedCalls
<1>6. lost \in SUBSET Call /\ \A c \in lost : call[c] # None => call[c].place = "wire"
  BY <1>5
<1>7. ASSUME NEW m \in Node, NEW i \in DOMAIN wire'[m]
      PROVE  i \in DOMAIN wire[m] /\ wire'[m][i] = wire[m][i] /\ wire'[m][i] \notin lost
  <2>1. i \in 1..arrived[m] /\ i \in DOMAIN wire[m] /\ wire'[m][i] = wire[m][i]
    BY <1>3
  <2>2. wire[m][i] \in Call /\ call[wire[m][i]].node = m
    BY <2>1, QueuedCalls
  <2>3. wire[m][i] \notin lostOf(m)
    <3> SUFFICES ASSUME wire[m][i] \in lostOf(m)
                 PROVE  FALSE
      OBVIOUS
    <3>1. PICK j \in DOMAIN wire[m] : j > arrived[m] /\ wire[m][i] = wire[m][j]
      BY <1>3
    <3>2. i = j
      BY <3>1, <2>1 DEF CallsInPlace
    <3> QED BY <3>1, <3>2, <2>1, <1>3
  <2>4. \A n \in Node \ {m} : wire[m][i] \notin lostOf(n)
    BY <2>2, <1>5
  <2> QED BY <2>1, <2>3, <2>4
<1>8. /\ call' \in [Call -> Create \cup {None}]
      /\ CallsInPlace' /\ OneInput' /\ OneNode'
      /\ \A c \in Call : call'[c] # None =>
           /\ call'[c].reply # "conflict"
           /\ call'[c].reply = "ok" => journal'[call'[c].node].status # "absent"
  <2>1. call' = Detached(Node, lost)
    BY <1>1 DEF lostOf
  <2>2. \A m \in Node : /\ DOMAIN wire'[m] \subseteq DOMAIN wire[m]
                        /\ \A i \in DOMAIN wire'[m] : /\ wire'[m][i] = wire[m][i]
                                                      /\ wire'[m][i] \notin lost
    BY <1>7
  <2> HIDE DEF lost
  <2> QED BY <2>1, <2>2, <1>2, <1>4, <1>6, DetachedKeeps
<1>9. TypeOK'
  BY <1>2, <1>4, <1>8 DEF TypeOK
<1>10. AnswersTrue'
  <2>1. Refused /\ assignment # None => Refused'
    <3>1. assignment # None => assignment.node \in Node
      BY DEF TypeOK, Assignment
    <3>2. \A m \in Node : wire[m] = <<>> => wire'[m] = <<>>
      BY <1>3
    <3> QED BY <3>1, <3>2, <1>2 DEF Refused, Quiet, Holds
  <2> QED BY <2>1, <1>2, <1>8 DEF AnswersTrue, OneNode, Holds
<1> QED BY <1>8, <1>9, <1>10

(* A node that dies forgets its calls, and keeps its reservation and record. *)
LEMMA NodeRestartKeeps ==
  ASSUME IInv, NEW n \in Node, NodeRestart(n)
  PROVE  IInv'
<1> USE NoneAssumption, FaultsAssumption DEF IInv, nodeVars
<1>1. /\ UNCHANGED <<early, overtaken, receipt, assignment, index, claims, known,
                     reservation, journal>>
      /\ call' = [c \in Call |-> IF call[c] # None /\ call[c].node = n THEN None ELSE call[c]]
      /\ wire' = [wire EXCEPT ![n] = <<>>] /\ gate' = [gate EXCEPT ![n] = <<>>]
      /\ submission' = Interrupted({n})
      /\ connected' \subseteq Node
  BY DEF NodeRestart, TypeOK
<1>2. budget' \in 0..Faults /\ admission' \in [Node -> {"open", "closed", "wedged"}]
  BY DEF NodeRestart, Fault, TypeOK
<1>3. /\ wire' \in [Node -> Seq(Call)] /\ gate' \in [Node -> Seq(Call)]
      /\ wire'[n] = <<>> /\ gate'[n] = <<>>
      /\ \A m \in Node \ {n} : wire'[m] = wire[m] /\ gate'[m] = gate[m]
  BY <1>1 DEF TypeOK
<1>4. /\ call' \in [Call -> Create \cup {None}]
      /\ \A c \in Call : call'[c] # None =>
           call[c] # None /\ call'[c] = call[c] /\ call[c].node # n
      /\ \A c \in Call : call[c] # None /\ call[c].node # n => call'[c] = call[c]
  BY <1>1 DEF TypeOK
<1>5. /\ submission' \in Submission \cup {None}
      /\ submission' # None =>
           /\ submission # None /\ submission'.request = submission.request
           /\ \/ submission' = submission
              \/ /\ submission.step = "waiting" /\ submission'.step = "replied"
                 /\ submission'.call = None /\ submission'.reply = "busy"
      /\ submission # None /\ submission.step = "waiting" =>
           (submission' = submission <=> assignment.node # n)
  BY <1>1, InterruptedSubmission
<1>6. TypeOK'
  BY <1>1, <1>2, <1>3, <1>4, <1>5 DEF TypeOK
<1>7. ASSUME NEW m \in Node \ {n}
      PROVE  /\ \A i \in DOMAIN wire[m] : call'[wire[m][i]] = call[wire[m][i]]
             /\ \A i \in DOMAIN gate[m] : call'[gate[m][i]] = call[gate[m][i]]
  BY <1>4, QueuedCalls
<1>8. CallsInPlace'
  <2>1. ASSUME NEW m \in Node \ {n}
        PROVE  /\ wire'[m] = wire[m] /\ gate'[m] = gate[m]
               /\ \A i \in DOMAIN wire[m] : call'[wire[m][i]] = call[wire[m][i]]
               /\ \A i \in DOMAIN gate[m] : call'[gate[m][i]] = call[gate[m][i]]
    BY <1>3, <1>7
  <2>2. DOMAIN wire'[n] = {} /\ DOMAIN gate'[n] = {}
    BY <1>3
  <2> QED BY <2>1, <2>2 DEF CallsInPlace
<1>9. OneInput'
  <2>1. ASSUME NEW m \in Node, Preparing(m)'
        PROVE  Preparing(m)
    <3>1. m # n /\ gate[m] # <<>>
      BY <2>1, <1>3 DEF Preparing
    <3>2. 1 \in DOMAIN gate[m] /\ Head(gate[m]) = gate[m][1]
      BY <3>1, HeadAndTail DEF TypeOK
    <3> QED BY <2>1, <3>1, <3>2, <1>3, <1>7 DEF Preparing
  <2> QED BY <2>1, <1>1, <1>4, <1>5 DEF OneInput, AcceptsClaimedInput, Holds
<1>10. OneNode'
  BY <1>1, <1>4, <1>5 DEF OneNode, Holds
<1>11. AnswersTrue'
  <2>1. Refused /\ assignment # None => Refused'
    <3>1. assignment # None => assignment.node \in Node
      BY DEF TypeOK, Assignment
    <3> QED BY <3>1, <1>1, <1>3 DEF Refused, Quiet, Holds
  <2>2. \A c \in Call : call'[c] # None =>
          /\ call'[c].reply # "conflict"
          /\ call'[c].reply = "ok" => journal'[call'[c].node].status # "absent"
    BY <1>1, <1>4 DEF AnswersTrue, Holds
  <2>3. CASE submission' = submission
    <3>1. submission # None /\ submission.step = "waiting" =>
            /\ wire'[assignment.node] = wire[assignment.node]
            /\ gate'[assignment.node] = gate[assignment.node]
            /\ submission.call \in Call
            /\ call'[submission.call] = call[submission.call]
      BY <2>3, <1>3, <1>4, <1>5, ZenonT(40) DEF AnswersTrue, OneNode, TypeOK, Submission, Assignment
    <3> QED BY <2>1, <2>2, <2>3, <3>1, <1>1 DEF AnswersTrue, OneNode, Holds
  <2>4. CASE submission' # submission
    BY <2>1, <2>2, <2>4, <1>1, <1>5 DEF AnswersTrue, OneNode, Holds
  <2> QED BY <2>3, <2>4
<1> QED BY <1>6, <1>8, <1>9, <1>10, <1>11

-------------------------------------------------------------------------------
(* Nothing is claimed, on its way, or held at first.                        *)
LEMMA InitIInv == Init => IInv
<1> SUFFICES ASSUME Init
             PROVE  IInv
  OBVIOUS
<1> USE NoneAssumption, FaultsAssumption DEF Init, NoReceipt, NoJournal
<1>1. <<>> \in Seq(Call) /\ DOMAIN <<>> = {}
  OBVIOUS
<1>2. /\ NoReceipt \in Receipt /\ NoJournal \in Journal
      /\ receipt.phase = "none" /\ receipt.request = None
      /\ \A n \in Node : /\ journal[n].status = "absent" /\ gate[n] = <<>> /\ wire[n] = <<>>
                         /\ reservation[n] = None
      /\ \A c \in Call : call[c] = None
  BY DEF Receipt, Journal, Phase
<1>3. TypeOK
  <2>1. wire \in [Node -> Seq(Call)] /\ gate \in [Node -> Seq(Call)]
    BY <1>1
  <2>2. journal \in [Node -> Journal] /\ call \in [Call -> Create \cup {None}]
    BY <1>2
  <2>3. reservation \in [Node -> Request \cup {None}]
        /\ admission \in [Node -> {"open", "closed", "wedged"}]
    OBVIOUS
  <2>4. budget \in 0..Faults
    OBVIOUS
  <2> QED BY <1>2, <2>1, <2>2, <2>3, <2>4 DEF TypeOK
<1>4. CallsInPlace
  BY <1>1, <1>2 DEF CallsInPlace
<1>5. OneInput
  BY <1>2 DEF OneInput, AcceptsClaimedInput, Preparing
<1>6. OneNode
  BY <1>2 DEF OneNode, Holds
<1>7. AnswersTrue
  BY <1>2 DEF AnswersTrue
<1> QED BY <1>3, <1>4, <1>5, <1>6, <1>7 DEF IInv

(* Every step of server and nodes keeps the invariant.                      *)
LEMMA StepKeeps == IInv /\ [Next]_vars => IInv'
<1> SUFFICES ASSUME IInv, [Next]_vars
             PROVE  IInv'
  OBVIOUS
<1>1. CASE UNCHANGED vars
  BY <1>1 DEF vars, serverVars, nodeVars, IInv, TypeOK, CallsInPlace, OneInput, OneNode,
              AnswersTrue, AcceptsClaimedInput, Preparing, Holds, Refused, Quiet
<1>2. ASSUME NEW q \in Request, Submit(q)
      PROVE  IInv'
  BY <1>2, SubmitKeeps
<1>3. ASSUME NEW c \in Call, SendCreate(c) \/ Resolve(c)
      PROVE  IInv'
  BY <1>3, SendCreateKeeps, ResolveKeeps
<1>4. ASSUME NoNode \/ Undispatched \/ Timeout \/ Settle \/ ServerCrash
      PROVE  IInv'
  BY <1>4, NoNodeKeeps, UndispatchedKeeps, TimeoutKeeps, SettleKeeps, ServerCrashKeeps
<1>5. ASSUME NEW n \in Node,
             \/ Arrive(n) \/ Enter(n) \/ Refuse(n) \/ FindClosed(n) \/ Accept(n)
             \/ FailToAnswer(n)
      PROVE  IInv'
  BY <1>5, ArriveKeeps, EnterKeeps, RefuseKeeps, FindClosedKeeps, AcceptKeeps, FailToAnswerKeeps
<1>6. ASSUME NEW n \in Node,
             Prepare(n) \/ Work(n) \/ Close(n) \/ Reopen(n) \/ Report(n) \/ Attach(n)
      PROVE  IInv'
  BY <1>6, PrepareKeeps, WorkKeeps, CloseKeeps, ReopenKeeps, ReportKeeps, AttachKeeps
<1>7. ASSUME NEW n \in Node, Disconnect(n) \/ NodeRestart(n)
      PROVE  IInv'
  BY <1>7, DisconnectKeeps, NodeRestartKeeps
<1> QED BY <1>1, <1>2, <1>3, <1>4, <1>5, <1>6, <1>7 DEF Next, GateStep

(* The inductive invariant holds in every reachable state.                   *)
THEOREM InductiveInvariant == Spec => []IInv
BY InitIInv, StepKeeps, PTL DEF Spec

(* Every variable keeps its shape (the row, the calls and their queues).     *)
THEOREM TypeCorrect == Spec => []TypeOK
<1>1. IInv => TypeOK
  BY DEF IInv
<1> QED BY <1>1, InductiveInvariant, PTL

(* Nodes accept the input the first request brought and no other.            *)
THEOREM InputFixed == Spec => []AcceptsClaimedInput
<1>1. IInv => AcceptsClaimedInput
  BY DEF IInv, OneInput
<1> QED BY <1>1, InductiveInvariant, PTL

(* What the server answers for ever agrees with the nodes: accepted means    *)
(* that the assigned node holds the record; rejected that no node does, as   *)
(* long as no call was overtaken.                                            *)
THEOREM VerdictsHold == Spec => []VerdictMatchesNodes
<1>1. IInv => VerdictMatchesNodes
  BY DEF IInv, AnswersTrue, OneNode, Refused, VerdictMatchesNodes
<1> QED BY <1>1, InductiveInvariant, PTL

-------------------------------------------------------------------------------
(* Receipts and journals implement AtMostOnce.                               *)
LEMMA HolderIs ==
  ASSUME IInv, NEW n \in Node, Holds(n)
  PROVE  Holder = n
<1>1. \A m \in Node : Holds(m) => m = n
  BY DEF IInv, OneNode
<1> QED BY <1>1 DEF Holder

(* The holder of the promise is None exactly while no node has a record.    *)
LEMMA NoHolder ==
  ASSUME \A n \in Node : ~Holds(n)
  PROVE  Holder = None
BY DEF Holder

(* Steps that keep the set of records keep the holder.                      *)
LEMMA HolderStays ==
  ASSUME IInv, IInv', \A n \in Node : Holds(n)' <=> Holds(n)
  PROVE  Holder' = Holder
<1>1. CASE \E n \in Node : Holds(n)
  <2>1. PICK n \in Node : Holds(n)
    BY <1>1
  <2>2. Holder = n
    BY <2>1, HolderIs
  <2>3. \A m \in Node : Holds(m)' => m = n
    BY <2>1 DEF IInv, OneNode
  <2>4. Holder' = n
    BY <2>1, <2>3 DEF Holder
  <2> QED BY <2>2, <2>4
<1>2. CASE \A n \in Node : ~Holds(n)
  <2>1. Holder = None
    BY <1>2, NoHolder
  <2>2. Holder' = None
    BY <1>2 DEF Holder
  <2> QED BY <2>1, <2>2
<1> QED BY <1>1, <1>2

(* The promise starts open, without input and holder.                       *)
LEMMA InitImplements == Init => Promise!Init
<1> SUFFICES ASSUME Init
             PROVE  Promise!Init
  OBVIOUS
<1>1. \A n \in Node : ~Holds(n)
  BY DEF Init, NoJournal, Holds
<1>2. Holder = None
  BY <1>1, NoHolder
<1> QED BY <1>2 DEF Init, NoReceipt, Promise!Init

(* A node that writes the record takes the execution up.                     *)
LEMMA RecordingTakesUp ==
  ASSUME IInv, IInv', NEW n \in Node, Preparing(n),
         UNCHANGED <<receipt, overtaken>>,
         journal' = Recorded(n)
  PROVE  Promise!TakeUp(n)
<1> USE NoneAssumption DEF IInv
<1>1. /\ gate[n] # <<>> /\ ~Holds(n) /\ reservation[n] # None
      /\ reservation[n] = receipt.request
  BY DEF Preparing, OneInput
<1>2. assignment # None /\ assignment.node = n
  <2>1. 1 \in DOMAIN gate[n]
    BY <1>1, HeadAndTail DEF TypeOK
  <2>2. gate[n][1] \in Call /\ call[gate[n][1]] # None /\ call[gate[n][1]].node = n
    BY <2>1, QueuedCalls
  <2> QED BY <2>2 DEF OneNode
<1>3. Holder = None
  <2>1. \A m \in Node : ~Holds(m)
    BY <1>1, <1>2 DEF OneNode
  <2> QED BY <2>1, NoHolder
<1>4. receipt.phase # "accepted" /\ (receipt.phase = "rejected" => overtaken)
  BY <1>1, <1>2 DEF AnswersTrue, Refused, Quiet
<1>5. Holds(n)'
  BY DEF Recorded, Holds, TypeOK
<1>6. Holder' = n
  <2>1. \A m \in Node : Holds(m)' => m = n
    BY <1>5 DEF OneNode
  <2> QED BY <2>1, <1>5 DEF Holder
<1> QED BY <1>1, <1>3, <1>4, <1>6 DEF Promise!TakeUp

(* Every step of the dispatch is a step of the promise, or leaves it alone. *)
LEMMA StepImplements ==
  IInv /\ IInv' /\ [Next]_vars => [Promise!Next]_(Promise!vars)
<1> SUFFICES ASSUME IInv, IInv', [Next]_vars
             PROVE  [Promise!Next]_(Promise!vars)
  OBVIOUS
<1> USE NoneAssumption
<1>1. ASSUME receipt'.request = receipt.request,
             receipt'.phase \in {"accepted", "rejected"} \/
               receipt.phase \in {"accepted", "rejected"} => receipt'.phase = receipt.phase,
             \A n \in Node : Holds(n)' <=> Holds(n),
             UNCHANGED overtaken
      PROVE  UNCHANGED Promise!vars
  BY <1>1, HolderStays DEF Promise!vars
<1>2. ASSUME UNCHANGED <<receipt, journal, overtaken>>
      PROVE  UNCHANGED Promise!vars
  BY <1>1, <1>2 DEF Holds
<1>3. ASSUME NEW q \in Request, Submit(q)
      PROVE  [Promise!Next]_(Promise!vars)
  <2>1. Holder' = Holder
    BY <1>3, HolderStays DEF Submit, Holds, nodeVars
  <2>2. CASE receipt.phase = "none"
    <3>1. receipt.request = None /\ receipt' = [phase |-> "claimed", request |-> q]
      BY <1>3, <2>2 DEF Submit, IInv, OneInput
    <3>2. Promise!Fix(q)
      BY <1>3, <2>1, <2>2, <3>1 DEF Submit, Promise!Fix
    <3> QED BY <3>2 DEF Promise!Next
  <2>3. CASE receipt.phase # "none"
    BY <1>2, <1>3, <2>3 DEF Submit, nodeVars
  <2> QED BY <2>2, <2>3
<1>4. ASSUME NEW n \in Node, Prepare(n)
      PROVE  UNCHANGED Promise!vars
  <2>1. /\ receipt.phase \in {"claimed", "prepared"}
        /\ receipt' = [receipt EXCEPT !.phase = "prepared"]
        /\ UNCHANGED <<journal, overtaken>>
    BY <1>4 DEF Prepare, IInv, OneNode, nodeVars
  <2>2. receipt'.phase = "prepared" /\ receipt'.request = receipt.request
    BY <2>1 DEF IInv, TypeOK, Receipt
  <2> QED BY <1>1, <2>1, <2>2 DEF Holds
<1>5. ASSUME Settle
      PROVE  [Promise!Next]_(Promise!vars)
  <2>1. /\ submission # None /\ submission.step = "replied"
        /\ UNCHANGED <<journal, assignment, overtaken>>
        /\ receipt' = [receipt EXCEPT !.phase = Verdict(submission.reply)]
        /\ receipt.phase = "prepared" /\ assignment # None
    BY <1>5 DEF Settle, IInv, OneNode, nodeVars
  <2>2. receipt'.phase = Verdict(submission.reply) /\ receipt'.request = receipt.request
    BY <2>1 DEF IInv, TypeOK, Receipt
  <2>3. Holder' = Holder
    BY <2>1, HolderStays DEF Holds
  <2>4. assignment.node \in Node /\ submission.reply # "conflict"
    BY <2>1 DEF IInv, TypeOK, Assignment, AnswersTrue
  <2>5. CASE submission.reply = "ok"
    <3>1. Holds(assignment.node)
      BY <2>1, <2>5 DEF IInv, AnswersTrue
    <3>2. Holder # None
      BY <2>4, <3>1, HolderIs
    <3>3. Promise!Accept
      BY <2>1, <2>2, <2>3, <2>5, <3>2 DEF Promise!Accept, Verdict
    <3> QED BY <3>3 DEF Promise!Next
  <2>6. CASE submission.reply = "refused"
    <3>1. ~overtaken => \A n \in Node : ~Holds(n)
      BY <2>1, <2>6 DEF IInv, AnswersTrue, Refused, OneNode
    <3>2. ~overtaken => Holder = None
      BY <3>1, NoHolder
    <3>3. Promise!Reject
      BY <2>1, <2>2, <2>3, <2>6, <3>2 DEF Promise!Reject, Verdict
    <3> QED BY <3>3 DEF Promise!Next
  <2>7. CASE submission.reply \notin {"ok", "refused"}
    <3>1. receipt'.phase = "prepared"
      BY <2>2, <2>4, <2>7 DEF Verdict
    <3> QED BY <1>1, <2>1, <2>2, <3>1 DEF Holds
  <2> QED BY <2>5, <2>6, <2>7
<1>6. ASSUME NEW n \in Node, Accept(n) \/ FailToAnswer(n)
      PROVE  [Promise!Next]_(Promise!vars)
  <2>1. /\ Preparing(n) /\ UNCHANGED <<receipt, overtaken>>
        /\ journal' = Recorded(n) \/ UNCHANGED journal
    BY <1>6 DEF Accept, FailToAnswer, serverVars
  <2>2. CASE journal' = Recorded(n)
    <3>1. Promise!TakeUp(n)
      BY <2>1, <2>2, RecordingTakesUp
    <3> QED BY <3>1 DEF Promise!Next
  <2>3. CASE UNCHANGED journal
    BY <2>1, <2>3, <1>2
  <2> QED BY <2>1, <2>2, <2>3
<1>7. ASSUME NEW n \in Node, Work(n)
      PROVE  UNCHANGED Promise!vars
  <2>1. UNCHANGED <<receipt, overtaken>> /\ \A m \in Node : Holds(m)' <=> Holds(m)
    BY <1>7 DEF Work, serverVars, Holds, IInv
  <2> QED BY <1>1, <2>1
<1>8. ASSUME NEW n \in Node,
             \/ Enter(n) \/ Refuse(n) \/ FindClosed(n) \/ Close(n) \/ Reopen(n)
             \/ Report(n) \/ Attach(n) \/ Disconnect(n) \/ NodeRestart(n)
      PROVE  UNCHANGED <<receipt, journal, overtaken>>
  BY <1>8 DEF Enter, Refuse, FindClosed, Close, Reopen, Report, Attach, Disconnect,
              NodeRestart, serverVars, nodeVars
<1>9. ASSUME NEW c \in Call, SendCreate(c) \/ Resolve(c)
      PROVE  UNCHANGED <<receipt, journal, overtaken>>
  BY <1>9 DEF SendCreate, Resolve, nodeVars
<1>10. ASSUME NoNode \/ Undispatched \/ Timeout \/ ServerCrash
       PROVE  UNCHANGED <<receipt, journal, overtaken>>
  BY <1>10 DEF NoNode, Undispatched, Timeout, ServerCrash, nodeVars
<1>12. ASSUME NEW n \in Node, Arrive(n)
       PROVE  [Promise!Next]_(Promise!vars)
  <2>1. /\ UNCHANGED <<receipt, journal>>
        /\ UNCHANGED overtaken \/ overtaken' = TRUE
    BY <1>12 DEF Arrive, serverVars
  <2>2. CASE UNCHANGED overtaken
    BY <1>2, <2>1, <2>2
  <2>3. CASE overtaken' = TRUE
    <3>1. Holder' = Holder
      BY <2>1, HolderStays DEF Holds
    <3>2. Promise!Overtake
      BY <2>1, <2>3, <3>1 DEF Promise!Overtake
    <3> QED BY <3>2 DEF Promise!Next
  <2> QED BY <2>1, <2>2, <2>3
<1>11. CASE UNCHANGED vars
  BY <1>2, <1>11 DEF vars, serverVars, nodeVars
<1> QED BY <1>2, <1>3, <1>4, <1>5, <1>6, <1>7, <1>8, <1>9, <1>10, <1>11, <1>12
   DEF Next, GateStep

(* For any number of nodes, inputs, calls and faults, an id has one input,   *)
(* one node and one verdict, through retries, lost replies and restarts.     *)
THEOREM Implementation == Spec => ImplementsAtMostOnce
<1>1. IInv /\ [Next]_vars => IInv' /\ [Promise!Next]_(Promise!vars)
  BY StepKeeps, StepImplements
<1> QED BY <1>1, InitImplements, InductiveInvariant, PTL
        DEF Spec, ImplementsAtMostOnce, Promise!Spec

-------------------------------------------------------------------------------
(* The listed row says done only when the node's record does.                *)
RowTrue == index = "done" => \E n \in Node : journal[n].status = "done"

(* A step that finds the row done leaves it done.                           *)
LEMMA RowStep ==
  ASSUME IInv, RowTrue, [Next]_vars
  PROVE  RowTrue' /\ (index = "done" => index' = "done")
<1> USE DEF IInv
<1>1. ASSUME NEW n \in Node, journal[n].status = "done"
      PROVE  \A m \in Node : Holds(m) => m = n
  BY <1>1 DEF OneNode, Holds
<1>2. CASE UNCHANGED <<index, journal>>
  BY <1>2 DEF RowTrue
<1>3. ASSUME UNCHANGED journal, index' # "done", index = "done" => index' = index
      PROVE  RowTrue' /\ (index = "done" => index' = "done")
  BY <1>3 DEF RowTrue
<1>4. ASSUME NEW n \in Node, Report(n) \/ Attach(n)
      PROVE  RowTrue' /\ (index = "done" => index' = "done")
  <2>1. UNCHANGED journal
    BY <1>4 DEF Report, Attach, nodeVars
  <2>2. CASE ~Holds(n)
    BY <1>2, <1>4, <2>1, <2>2 DEF Report, Attach
  <2>3. CASE Holds(n)
    <3>1. index' = journal[n].status
      BY <1>4, <2>3 DEF Report, Attach
    <3>2. index = "done" => journal[n].status = "done"
      BY <1>1, <2>3 DEF RowTrue
    <3> QED BY <2>1, <3>1, <3>2 DEF RowTrue
  <2> QED BY <2>2, <2>3
<1>5. ASSUME NEW n \in Node, Prepare(n)
      PROVE  RowTrue' /\ (index = "done" => index' = "done")
  BY <1>5, <1>2, <1>3 DEF Prepare, nodeVars
<1>6. ASSUME NEW c \in Call, Resolve(c)
      PROVE  RowTrue' /\ (index = "done" => index' = "done")
  BY <1>6, <1>2, <1>3 DEF Resolve, RefusalFailsRow, nodeVars
<1>7. CASE Settle
  BY <1>7, <1>2, <1>3 DEF Settle, nodeVars
<1>8. ASSUME NEW n \in Node, Work(n)
      PROVE  RowTrue' /\ (index = "done" => index' = "done")
  <2>1. /\ UNCHANGED index /\ journal[n].status = "pending"
        /\ journal' = [journal EXCEPT ![n].status = "done"]
    BY <1>8 DEF Work, serverVars
  <2>2. journal'[n].status = "done"
    BY <2>1 DEF TypeOK, Journal
  <2> QED BY <2>1, <2>2 DEF RowTrue
<1>9. ASSUME NEW n \in Node, Accept(n) \/ FailToAnswer(n)
      PROVE  RowTrue' /\ (index = "done" => index' = "done")
  <2>1. /\ Preparing(n) /\ UNCHANGED index /\ gate[n] # <<>>
        /\ journal' = Recorded(n) \/ UNCHANGED journal
    BY <1>9 DEF Accept, FailToAnswer, serverVars, Preparing
  <2>2. \A m \in Node : ~Holds(m)
    <3>1. 1 \in DOMAIN gate[n]
      BY <2>1, HeadAndTail DEF TypeOK
    <3>2. gate[n][1] \in Call /\ call[gate[n][1]] # None /\ call[gate[n][1]].node = n
      BY <3>1, QueuedCalls
    <3>3. assignment # None /\ assignment.node = n /\ ~Holds(n)
      BY <2>1, <3>2 DEF OneNode, OneInput
    <3> QED BY <3>3 DEF OneNode
  <2>3. index # "done"
    BY <2>2 DEF RowTrue, Holds
  <2> QED BY <2>1, <2>3 DEF RowTrue
<1>10. ASSUME NEW n \in Node,
              \/ Arrive(n) \/ Enter(n) \/ Refuse(n) \/ FindClosed(n) \/ Close(n) \/ Reopen(n)
              \/ Disconnect(n) \/ NodeRestart(n)
       PROVE  UNCHANGED <<index, journal>>
  BY <1>10 DEF Arrive, Enter, Refuse, FindClosed, Close, Reopen, Disconnect, NodeRestart,
               serverVars, nodeVars
<1>11. CASE NoNode \/ Undispatched \/ Timeout \/ ServerCrash
  BY <1>2, <1>11 DEF NoNode, Undispatched, Timeout, ServerCrash, nodeVars
<1>13. ASSUME NEW q \in Request, Submit(q)
       PROVE  UNCHANGED <<index, journal>>
  BY <1>13 DEF Submit, nodeVars
<1>14. ASSUME NEW c \in Call, SendCreate(c)
       PROVE  UNCHANGED <<index, journal>>
  BY <1>14 DEF SendCreate, nodeVars
<1>12. CASE UNCHANGED vars
  BY <1>2, <1>12 DEF vars, serverVars, nodeVars
<1> QED BY <1>2, <1>4, <1>5, <1>6, <1>7, <1>8, <1>9, <1>10, <1>11, <1>12, <1>13, <1>14
   DEF Next, GateStep

(* Replies and refusals, however late, never rewrite the row of a finished   *)
(* execution.                                                                *)
THEOREM FinishedStays == Spec => FinishedRowStays
<1>1. Init => RowTrue
  BY DEF Init, RowTrue
<1>2. IInv /\ RowTrue /\ [Next]_vars => RowTrue' /\ [index = "done" => index' = "done"]_vars
  BY RowStep
<1> QED BY <1>1, <1>2, InductiveInvariant, PTL DEF Spec, FinishedRowStays
===============================================================================
