------------------------- MODULE DispatchClaimsProofs -------------------------
(***************************************************************************)
(* What the hub counts and remembers of its open calls, for any number of  *)
(* nodes, inputs, calls and faults.                                        *)
(*                                                                         *)
(* The claim is taken before the call is sent and is given back by the     *)
(* call's end or, in Attach, by a report of the record: what the invariant *)
(* adds to the property is the claim of a call that is not sent yet        *)
(* (Unsent).  A crash of the server forgets the claims together with every *)
(* pending entry.                                                          *)
(***************************************************************************)
EXTENDS DispatchProofs, FiniteSetTheorems

Unknown == ~known /\ \A n \in Node : ~Holds(n)

Unsent == IF submission # None /\ submission.step = "ready" THEN 1 ELSE 0

Covered == Unknown => claims >= Cardinality(Open) + Unsent

LEMMA OpenIsFinite ==
  /\ IsFiniteSet(Open) /\ Cardinality(Open) \in Nat /\ Unsent \in {0, 1}
  /\ IsFiniteSet(Open') /\ Cardinality(Open') \in Nat /\ Unsent' \in {0, 1}
<1>1. Open \subseteq Call /\ Open' \subseteq Call
  BY DEF Open
<1>2. IsFiniteSet(Open) /\ IsFiniteSet(Open')
  BY <1>1, CallAssumption, FS_Subset
<1> QED BY <1>2, FS_CardinalityType DEF Unsent

(* Steps that open no call and spend no claim.                              *)
LEMMA FewerCalls ==
  ASSUME TypeOK, Covered, Open' \subseteq Open, Unsent' <= Unsent, claims' = claims, Unknown' => Unknown
  PROVE  Covered'
<1>1. Cardinality(Open') <= Cardinality(Open)
  BY OpenIsFinite, FS_Subset
<1>2. claims \in Nat
  BY DEF TypeOK
<1> QED BY <1>1, <1>2, OpenIsFinite DEF Covered

LEMMA SameCalls ==
  ASSUME TypeOK, Covered, UNCHANGED <<call, submission, claims, known, journal>>
  PROVE  Covered'
BY FewerCalls, OpenIsFinite DEF Open, Unsent, Unknown, Holds

(* An answer leaves a call open or ends it; a record is never taken back.    *)
LEMMA AnswerCovers ==
  ASSUME TypeOK, Covered, NEW c \in Call, NEW reply \in Reply, call[c] # None, Answered(c, reply),
         UNCHANGED <<submission, claims, known>>,
         \A n \in Node : Holds(n) => Holds(n)'
  PROVE  Covered'
<1>1. call[c] \in Create
  BY DEF TypeOK
<1>2. ASSUME NEW d \in Open'
      PROVE  d \in Open
  <2>1. d \in Call /\ call'[d] # None /\ call'[d].open
    BY DEF Open
  <2>2. CASE d # c
    BY <2>1, <2>2 DEF Answered, TypeOK, Open
  <2>3. CASE d = c
    <3>1. call[c].open
      BY <2>1, <2>3 DEF Answered, TypeOK
    <3> QED BY <2>3, <3>1 DEF Open
  <2> QED BY <2>2, <2>3
<1> QED BY <1>2, FewerCalls, OpenIsFinite DEF Unsent, Unknown

(* A socket that ends closes the entries of its calls and opens none.        *)
LEMMA DetachCovers ==
  ASSUME TypeOK, Covered, NEW gone \in SUBSET Node, NEW lost,
         call' = Detached(gone, lost) \/ call' = [c \in Call |-> IF call[c] # None /\ call[c].node \in gone
                                                                  THEN None ELSE call[c]],
         submission' = Interrupted(gone), UNCHANGED <<claims, known, journal>>
  PROVE  Covered'
<1>1. ASSUME NEW c \in Open'
      PROVE  c \in Open
  <2>1. c \in Call /\ call'[c] # None /\ call'[c].open
    BY DEF Open
  <2>2. call[c] \in Create \cup {None}
    BY <2>1 DEF TypeOK
  <2>3. call'[c] = call[c] \/ call'[c] = [call[c] EXCEPT !.open = FALSE]
    BY <2>1 DEF Detached
  <2>4. call[c] # None
    BY <2>1, <2>3 DEF Detached
  <2> QED BY <2>1, <2>2, <2>3, <2>4 DEF Open, Create
<1>2. Unsent' <= Unsent
  <2>1. CASE UNCHANGED submission
    BY <2>1 DEF Unsent
  <2>2. CASE submission' = [submission EXCEPT !.step = "replied", !.call = None, !.reply = "busy"]
    <3>1. submission # None => submission \in Submission
      BY DEF TypeOK
    <3>2. CASE submission = None
      BY <2>1, <3>2 DEF Interrupted
    <3>3. CASE submission # None
      BY <2>2, <3>1, <3>3 DEF Unsent, Submission
    <3> QED BY <3>2, <3>3
  <2> QED BY <2>1, <2>2 DEF Interrupted
<1> QED BY <1>1, <1>2, FewerCalls DEF Unknown, Holds

(* A record, once written, is held for good.                                *)
LEMMA HeldStays ==
  ASSUME TypeOK, NEW n \in Node,
         journal' = Recorded(n) \/ UNCHANGED journal \/ journal' = [journal EXCEPT ![n].status = "done"]
  PROVE  \A m \in Node : Holds(m) => Holds(m)'
<1>1. journal \in [Node -> Journal] /\ \A j \in Journal : [j EXCEPT !.status = "done"].status = "done"
  BY DEF TypeOK, Journal
<1>2. CASE journal' = Recorded(n)
  BY <1>1, <1>2 DEF Holds, Recorded
<1>3. CASE journal' = [journal EXCEPT ![n].status = "done"]
  BY <1>1, <1>3 DEF Holds
<1> QED BY <1>2, <1>3 DEF Holds

(* The calls a node answers or moves on are calls.                          *)
LEMMA GateCalls ==
  ASSUME IInv, NEW n \in Node
  PROVE  /\ \A i \in DOMAIN wire[n] : wire[n][i] \in Call /\ call[wire[n][i]] # None
         /\ gate[n] # <<>> => Head(gate[n]) \in Call /\ call[Head(gate[n])] # None
<1>1. gate[n] # <<>> => 1 \in DOMAIN gate[n] /\ Head(gate[n]) = gate[n][1]
  BY HeadAndTail DEF IInv, TypeOK
<1> QED BY <1>1, QueuedCalls DEF IInv

LEMMA MovedOn ==
  ASSUME TypeOK, Covered, NEW c \in Call, call[c] # None, NEW place \in Place,
         call' = [call EXCEPT ![c].place = place], UNCHANGED <<submission, claims, known, journal>>
  PROVE  Covered'
<1>1. call[c] \in Create
  BY DEF TypeOK
<1>2. \A d \in Call : call'[d] # None /\ call'[d].open => call[d] # None /\ call[d].open
  BY <1>1 DEF TypeOK, Create
<1> QED BY <1>2, FewerCalls, OpenIsFinite DEF Open, Unsent, Unknown, Holds

LEMMA NodeCovers ==
  ASSUME IInv, Covered, NEW n \in Node,
         Arrive(n) \/ GateStep(n) \/ FailToAnswer(n)
  PROVE  Covered'
<1>1. TypeOK /\ UNCHANGED <<submission, claims, known>> /\ \A m \in Node : Holds(m) => Holds(m)'
  <2>1. journal' = Recorded(n) \/ UNCHANGED journal
    BY DEF Arrive, GateStep, Enter, Refuse, FindClosed, Accept, FailToAnswer
  <2>2. UNCHANGED <<submission, claims, known>>
    BY DEF Arrive, GateStep, Enter, Refuse, FindClosed, Accept, FailToAnswer, serverVars
  <2> QED BY <2>1, <2>2, HeldStays DEF IInv
<1>2. CASE Arrive(n)
  <2>1. PICK i \in DOMAIN wire[n] :
          LET c == wire[n][i] IN
          \/ Answered(c, "busy") \/ Answered(c, Replayed(n, c))
          \/ call' = [call EXCEPT ![c].place = "gate"]
    BY <1>2 DEF Arrive
  <2>2. UNCHANGED journal /\ wire[n][i] \in Call /\ call[wire[n][i]] # None
    BY <1>2, GateCalls DEF Arrive
  <2>3. Replayed(n, wire[n][i]) \in Reply /\ "busy" \in Reply /\ "gate" \in Place
    BY DEF Replayed, Reply, Place
  <2> QED BY <1>1, <2>1, <2>2, <2>3, AnswerCovers, MovedOn
<1>3. CASE Enter(n)
  <2> DEFINE c == Head(gate[n])
  <2>1. /\ Answered(c, GateVerdict(n, c)) \/ call' = [call EXCEPT ![c].place = "preparing"]
        /\ UNCHANGED journal /\ c \in Call /\ call[c] # None
    BY <1>3, GateCalls DEF Enter
  <2>2. GateVerdict(n, c) \in Reply \/ GateVerdict(n, c) = "prepare"
    BY DEF GateVerdict, Replayed, Reply
  <2>3. CASE GateVerdict(n, c) = "prepare"
    <3>1. call' = [call EXCEPT ![c].place = "preparing"]
      BY <1>3, <2>3 DEF Enter
    <3> QED BY <1>1, <2>1, <3>1, MovedOn DEF Place
  <2>4. CASE GateVerdict(n, c) \in Reply
    <3>1. Answered(c, GateVerdict(n, c))
      BY <1>3, <2>4 DEF Enter, Reply
    <3> QED BY <1>1, <2>1, <2>4, <3>1, AnswerCovers
  <2> QED BY <2>2, <2>3, <2>4
<1>4. CASE Refuse(n) \/ FindClosed(n) \/ Accept(n) \/ FailToAnswer(n)
  <2> DEFINE c == Head(gate[n])
  <2>1. PICK reply \in Reply : Answered(c, reply)
    BY <1>4 DEF Refuse, FindClosed, Accept, FailToAnswer, Reply
  <2>2. c \in Call /\ call[c] # None
    BY <1>4, GateCalls DEF Refuse, FindClosed, Accept, FailToAnswer, Preparing
  <2> QED BY <1>1, <2>1, <2>2, AnswerCovers
<1> QED BY <1>2, <1>3, <1>4 DEF GateStep

(* The claim is taken before the call leaves, and becomes the claim of the   *)
(* call.                                                                    *)
LEMMA PrepareCovers ==
  ASSUME IInv, Covered, NEW n \in Node, Prepare(n)
  PROVE  Covered'
<1>1. TypeOK /\ UNCHANGED <<call, known, journal>> /\ claims' = claims + 1 /\ claims \in Nat
  BY DEF IInv, TypeOK, Prepare, nodeVars
<1>2. submission # None /\ submission.step = "placing"
  BY DEF Prepare
<1>3. Unsent = 0 /\ Open' = Open
  BY <1>1, <1>2 DEF Unsent, Open
<1> QED BY <1>1, <1>3, OpenIsFinite DEF Covered, Unknown, Holds

LEMMA SendCovers ==
  ASSUME IInv, Covered, NEW c \in Call, SendCreate(c)
  PROVE  Covered'
<1>1. /\ TypeOK /\ UNCHANGED <<known, journal, claims>> /\ claims \in Nat
      /\ submission # None /\ submission.step = "ready" /\ submission \in Submission /\ call[c] = None
      /\ submission' = [submission EXCEPT !.step = "waiting", !.call = c]
  BY DEF IInv, TypeOK, SendCreate, nodeVars
<1>2. Unsent = 1 /\ Unsent' = 0
  BY <1>1 DEF Unsent, Submission
<1>3. \A d \in Call : d # c => call'[d] = call[d]
  BY <1>1 DEF TypeOK, SendCreate
<1>4. Open' \subseteq Open \cup {c} /\ c \notin Open
  BY <1>1, <1>3 DEF Open
<1>5. Cardinality(Open') <= Cardinality(Open) + 1
  <2>1. IsFiniteSet(Open \cup {c}) /\ Cardinality(Open \cup {c}) = Cardinality(Open) + 1
    BY <1>4, OpenIsFinite, FS_AddElement
  <2> QED BY <1>4, <2>1, FS_Subset
<1> QED BY <1>1, <1>2, <1>5, OpenIsFinite DEF Covered, Unknown, Holds

LEMMA UndispatchedCovers ==
  ASSUME IInv, Covered, Undispatched
  PROVE  Covered'
<1>1. /\ UNCHANGED <<call, known, journal>> /\ claims' = Released(claims) /\ claims \in Nat
      /\ submission # None /\ submission.step = "ready" /\ submission' = None
  BY DEF IInv, TypeOK, Undispatched, nodeVars
<1>2. Unsent = 1 /\ Unsent' = 0 /\ Open' = Open
  BY <1>1 DEF Unsent, Open
<1> QED BY <1>1, <1>2, OpenIsFinite DEF Covered, Unknown, Holds, Released

(* The end of a call gives back one claim.                                  *)
LEMMA ResolveCovers ==
  ASSUME IInv, Covered, NEW c \in Call, Resolve(c)
  PROVE  Covered'
<1>1. /\ TypeOK /\ UNCHANGED journal /\ claims' = Released(claims) /\ claims \in Nat
      /\ c \in Open /\ call' = [call EXCEPT ![c] = None] /\ (~known' => ~known)
  BY DEF IInv, TypeOK, Resolve, nodeVars
<1>2. Open' = Open \ {c}
  BY <1>1 DEF TypeOK, Open
<1>3. Cardinality(Open') = Cardinality(Open) - 1
  BY <1>1, <1>2, OpenIsFinite, FS_RemoveElement
<1>4. Unsent' <= Unsent
  <2>1. CASE UNCHANGED submission
    BY <2>1, OpenIsFinite DEF Unsent
  <2>2. CASE submission # None /\ submission.call = c
    <3>1. submission \in Submission
      BY <1>1, <2>2 DEF TypeOK
    <3>2. submission' = [submission EXCEPT !.step = "replied", !.call = None, !.reply = call[c].reply]
      BY <2>2 DEF Resolve
    <3> QED BY <3>1, <3>2 DEF Unsent, Submission
  <2> QED BY <2>1, <2>2 DEF Resolve
<1> QED BY <1>1, <1>3, <1>4, OpenIsFinite DEF Covered, Unknown, Holds, Released

(* A server that dies, and one whose callers give up or read their answer.   *)
LEMMA ServerCovers ==
  ASSUME IInv, Covered, ServerCrash
  PROVE  Covered'
<1>1. TypeOK /\ \A c \in Call : call[c] # None => call[c] \in Create /\ call[c].node \in Node
  BY DEF IInv, TypeOK, Create
<1>2. PICK lost : call' = Detached(Node, lost)
  BY DEF ServerCrash
<1>3. \A c \in Call : call'[c] = None \/ ~call'[c].open
  BY <1>1, <1>2 DEF Detached, Create
<1>4. Open' = {}
  BY <1>3 DEF Open
<1>5. claims' = 0 /\ submission' = None
  BY DEF ServerCrash
<1> QED BY <1>4, <1>5, FS_EmptySet DEF Covered, Unsent

LEMMA CallerCovers ==
  ASSUME IInv, Covered, (\E q \in Request : Submit(q)) \/ NoNode \/ Timeout \/ Settle
  PROVE  Covered'
<1>1. UNCHANGED <<call, known, journal, claims>> /\ Unsent' = 0
  BY DEF Submit, NoNode, Timeout, Settle, nodeVars, Unsent
<1> QED BY <1>1, FewerCalls, OpenIsFinite DEF IInv, Open, Unknown, Holds

(* A report of the record ends the promise; any other changes nothing here.  *)
LEMMA ReportCovers ==
  ASSUME IInv, Covered, NEW n \in Node, Report(n) \/ Attach(n) \/ Work(n)
  PROVE  Covered'
<1>1. TypeOK /\ UNCHANGED <<call, submission>>
  BY DEF IInv, Report, Attach, Work, serverVars
<1>2. CASE Work(n)
  <2>1. UNCHANGED <<claims, known>> /\ \A m \in Node : Holds(m) => Holds(m)'
    BY <1>1, <1>2, HeldStays DEF Work, serverVars
  <2> QED BY <1>1, <2>1, FewerCalls, OpenIsFinite DEF Open, Unsent, Unknown
<1>3. CASE Report(n)
  BY <1>3 DEF Report, Covered, Unknown
<1>4. CASE Attach(n)
  <2>1. CASE Holds(n)
    BY <1>4, <2>1 DEF Attach, Covered, Unknown
  <2>2. CASE ~Holds(n)
    <3>1. UNCHANGED <<claims, journal>> /\ (Unknown' => Unknown)
      BY <1>4, <2>2 DEF Attach, ClaimsAfterReport, nodeVars, Unknown, Holds
    <3> QED BY <1>1, <3>1, FewerCalls, OpenIsFinite DEF Open, Unsent
  <2> QED BY <2>1, <2>2
<1> QED BY <1>2, <1>3, <1>4

LEMMA SocketCovers ==
  ASSUME IInv, Covered, NEW n \in Node, Disconnect(n) \/ NodeRestart(n)
  PROVE  Covered'
<1>1. PICK lost :
        \/ call' = Detached({n}, lost)
        \/ call' = [c \in Call |-> IF call[c] # None /\ call[c].node \in {n} THEN None ELSE call[c]]
  BY DEF Disconnect, NodeRestart
<1>2. submission' = Interrupted({n}) /\ UNCHANGED <<claims, known, journal>>
  BY DEF Disconnect, NodeRestart, nodeVars
<1> QED BY <1>1, <1>2, DetachCovers DEF IInv

LEMMA StepCovers == IInv /\ Covered /\ [Next]_vars => Covered'
<1> SUFFICES ASSUME IInv, Covered, [Next]_vars
             PROVE  Covered'
  OBVIOUS
<1>1. TypeOK
  BY DEF IInv
<1>2. ASSUME NEW n \in Node, Close(n) \/ Reopen(n)
      PROVE  Covered'
  BY <1>1, <1>2, SameCalls DEF Close, Reopen, serverVars
<1>3. CASE UNCHANGED vars
  BY <1>1, <1>3, SameCalls DEF vars, serverVars, nodeVars
<1> QED BY <1>2, <1>3, PrepareCovers, SendCovers, UndispatchedCovers, ResolveCovers, ServerCovers,
           CallerCovers, ReportCovers, SocketCovers, NodeCovers DEF Next

(* While no node is known to hold the id, the hub counts at least the calls  *)
(* whose outcome is open, however they time out, are refused or are cut off. *)
THEOREM ClaimsCover == Spec => []ReservationCoversCalls
<1>1. Init => Covered
  <2> SUFFICES ASSUME Init
               PROVE  Covered
    OBVIOUS
  <2>1. Open = {} /\ Unsent = 0 /\ claims = 0
    BY DEF Init, Open, Unsent
  <2> QED BY <2>1, FS_EmptySet DEF Covered
<1>2. IInv /\ Covered /\ [Next]_vars => Covered'
  BY StepCovers
<1>3. IInv /\ Covered => ReservationCoversCalls
  <2>1. ASSUME IInv, Covered
        PROVE  ReservationCoversCalls
    <3>1. claims \in Nat
      BY <2>1 DEF IInv, TypeOK
    <3> QED BY <2>1, <3>1, OpenIsFinite DEF Covered, Unknown, ReservationCoversCalls
  <2> QED BY <2>1
<1> QED BY <1>1, <1>2, <1>3, InductiveInvariant, PTL DEF Spec

(***************************************************************************)
(* No entry of the hub's pending table outlives its call, and no call is   *)
(* lost between the wire, the preparation lock and its answer.             *)
(***************************************************************************)
LEMMA TailHolds ==
  ASSUME NEW S, NEW s \in Seq(S), s # <<>>
  PROVE  \A x \in ToSet(s) : x = Head(s) \/ x \in ToSet(Tail(s))
<1>1. /\ Len(s) \in Nat \ {0} /\ DOMAIN s = 1 .. Len(s) /\ Head(s) = s[1]
      /\ DOMAIN Tail(s) = 1 .. (Len(s) - 1) /\ \A i \in 1 .. (Len(s) - 1) : Tail(s)[i] = s[i + 1]
  BY HeadAndTail
<1>2. ASSUME NEW i \in DOMAIN s, i # 1
      PROVE  s[i] \in ToSet(Tail(s))
  <2>1. i - 1 \in DOMAIN Tail(s) /\ Tail(s)[i - 1] = s[i]
    BY <1>1, <1>2
  <2> QED BY <2>1 DEF ToSet
<1> QED BY <1>1, <1>2 DEF ToSet

LEMMA RestHolds ==
  ASSUME NEW S, NEW s \in Seq(S), NEW k \in DOMAIN s
  PROVE  \A x \in ToSet(s) : x = s[k] \/ x \in ToSet(RemoveAt(s, k))
<1>1. /\ Len(s) \in Nat \ {0} /\ DOMAIN s = 1 .. Len(s)
      /\ DOMAIN RemoveAt(s, k) = 1 .. (Len(s) - 1)
      /\ \A j \in 1 .. (Len(s) - 1) : RemoveAt(s, k)[j] = s[IF j < k THEN j ELSE j + 1]
  BY WithoutOne
<1>2. ASSUME NEW i \in DOMAIN s, i # k
      PROVE  s[i] \in ToSet(RemoveAt(s, k))
  <2> DEFINE j == IF i < k THEN i ELSE i - 1
  <2>1. j \in 1 .. (Len(s) - 1) /\ (IF j < k THEN j ELSE j + 1) = i
    BY <1>1, <1>2
  <2>2. j \in DOMAIN RemoveAt(s, k) /\ RemoveAt(s, k)[j] = s[i]
    BY <1>1, <2>1
  <2> QED BY <2>2 DEF ToSet
<1> QED BY <1>2 DEF ToSet

LEMMA LongerHolds ==
  ASSUME NEW S, NEW s \in Seq(S), NEW c \in S
  PROVE  c \in ToSet(Append(s, c)) /\ \A x \in ToSet(s) : x \in ToSet(Append(s, c))
<1>1. /\ Len(s) \in Nat /\ DOMAIN s = 1 .. Len(s) /\ DOMAIN Append(s, c) = 1 .. (Len(s) + 1)
      /\ Append(s, c)[Len(s) + 1] = c /\ \A i \in 1 .. Len(s) : Append(s, c)[i] = s[i]
  BY AppendedCall
<1> QED BY <1>1 DEF ToSet

LEMMA CutHolds ==
  ASSUME NEW S, NEW s \in Seq(S), NEW k \in 0 .. Len(s)
  PROVE  \A x \in ToSet(s) : x \in ToSet(SubSeq(s, 1, k)) \/ x \in ToSet(SubSeq(s, k + 1, Len(s)))
<1>1. Len(s) \in Nat /\ DOMAIN s = 1 .. Len(s)
  OBVIOUS
<1>2. DOMAIN SubSeq(s, 1, k) = 1 .. k /\ \A i \in 1 .. k : SubSeq(s, 1, k)[i] = s[i]
  BY PrefixAndRest
<1>3. ASSUME NEW i \in DOMAIN s, i > k
      PROVE  s[i] \in ToSet(SubSeq(s, k + 1, Len(s)))
  <2>1. i - k \in DOMAIN SubSeq(s, k + 1, Len(s)) /\ SubSeq(s, k + 1, Len(s))[i - k] = s[i]
    BY <1>1, <1>3
  <2> QED BY <2>1 DEF ToSet
<1> QED BY <1>1, <1>2, <1>3 DEF ToSet

(* Steps that leave calls, queues and sockets alone, and send no one to      *)
(* wait.                                                                    *)
LEMMA RestRemembers ==
  ASSUME NoEntryForgotten, UNCHANGED <<call, wire, gate>>, connected \subseteq connected',
         submission' # None /\ submission'.step = "waiting" => submission' = submission
  PROVE  NoEntryForgotten'
BY DEF NoEntryForgotten, CallerHasEntry, EntriesHaveSockets, HasPlace, Open

(* One call moves on at its node: it keeps its entry until it is answered,   *)
(* and gets another place; the others keep theirs.                           *)
LEMMA MoveRemembers ==
  ASSUME NoEntryForgotten, NEW c \in Call, call[c] # None, UNCHANGED <<submission, connected>>,
         \A d \in Call \ {c} : call'[d] = call[d],
         \A d \in Call \ {c}, n \in Node : /\ d \in ToSet(wire[n]) => d \in ToSet(wire'[n])
                                           /\ d \in ToSet(gate[n]) => d \in ToSet(gate'[n]),
         \A d \in Call : call[d] # None => call[d].node \in Node,
         call[c].open => call'[c] # None,
         call'[c] # None => /\ call'[c].open = call[c].open /\ call'[c].node = call[c].node
                            /\ HasPlace(c)'
  PROVE  NoEntryForgotten'
<1>1. Open' = Open
  BY DEF Open
<1>2. CallerHasEntry' /\ EntriesHaveSockets'
  BY <1>1 DEF NoEntryForgotten, CallerHasEntry, EntriesHaveSockets, Open
<1>3. ASSUME NEW d \in Call, d # c, call'[d] # None
      PROVE  HasPlace(d)'
  BY <1>3 DEF NoEntryForgotten, HasPlace
<1> QED BY <1>2, <1>3 DEF NoEntryForgotten

(* What an answer, or a move to the preparation lock, makes of a call.       *)
LEMMA CallMoves ==
  ASSUME TypeOK, NEW c \in Call, call[c] # None,
         \/ \E reply \in Reply : Answered(c, reply)
         \/ /\ \E place \in {"gate", "preparing"} : call' = [call EXCEPT ![c].place = place]
            /\ c \in ToSet(gate'[call[c].node])
  PROVE  /\ \A d \in Call \ {c} : call'[d] = call[d]
         /\ call[c].open => call'[c] # None
         /\ call'[c] # None => /\ call'[c].open = call[c].open /\ call'[c].node = call[c].node
                               /\ HasPlace(c)'
<1>1. call[c] \in Create /\ None \notin Create /\ call \in [Call -> Create \cup {None}]
  BY NoneAssumption DEF TypeOK
<1>2. \A d \in Call \ {c} : call'[d] = call[d]
  BY <1>1 DEF Answered
<1>3. ASSUME NEW reply \in Reply, Answered(c, reply)
      PROVE  /\ call[c].open => call'[c] # None
             /\ call'[c] # None => /\ call'[c].open = call[c].open /\ call'[c].node = call[c].node
                                   /\ HasPlace(c)'
  <2>1. call'[c] = IF call[c].open THEN [call[c] EXCEPT !.place = "answered", !.reply = reply] ELSE None
    BY <1>1, <1>3 DEF Answered
  <2>2. [call[c] EXCEPT !.place = "answered", !.reply = reply] \in Create
    BY <1>1 DEF Create, Place
  <2>3. CASE ~call[c].open
    BY <2>1, <2>3
  <2>4. CASE call[c].open
    <3>1. call'[c] = [call[c] EXCEPT !.place = "answered", !.reply = reply]
      BY <2>1, <2>4
    <3>2. call'[c].open = call[c].open /\ call'[c].node = call[c].node /\ call'[c].place = "answered"
      BY <1>1, <3>1 DEF Create
    <3>3. HasPlace(c)'
      BY <2>4, <3>2 DEF HasPlace
    <3> QED BY <1>1, <2>2, <3>1, <3>2, <3>3
  <2> QED BY <2>3, <2>4
<1>4. ASSUME NEW place \in {"gate", "preparing"}, call' = [call EXCEPT ![c].place = place],
             c \in ToSet(gate'[call[c].node])
      PROVE  /\ call[c].open => call'[c] # None
             /\ call'[c] # None => /\ call'[c].open = call[c].open /\ call'[c].node = call[c].node
                                   /\ HasPlace(c)'
  <2>1. call'[c] = [call[c] EXCEPT !.place = place]
    BY <1>1, <1>4
  <2>2. /\ call'[c].open = call[c].open /\ call'[c].node = call[c].node
        /\ call'[c].place = place /\ call'[c] \in Create
    BY <1>1, <2>1 DEF Create, Place
  <2> QED BY <1>1, <1>4, <2>2 DEF HasPlace
<1> QED BY <1>2, <1>3, <1>4

LEMMA NodesTyped ==
  ASSUME TypeOK
  PROVE  /\ \A d \in Call : call[d] # None => call[d] \in Create /\ call[d].node \in Node
         /\ wire \in [Node -> Seq(Call)] /\ gate \in [Node -> Seq(Call)]
BY DEF TypeOK, Create

LEMMA ArriveRemembers ==
  ASSUME IInv, NoEntryForgotten, NEW n \in Node, Arrive(n)
  PROVE  NoEntryForgotten'
<1>1. TypeOK /\ CallsInPlace
  BY DEF IInv
<1>2. PICK i \in DOMAIN wire[n] :
        /\ wire' = [wire EXCEPT ![n] = RemoveAt(wire[n], i)]
        /\ \/ (Answered(wire[n][i], "busy") \/ Answered(wire[n][i], Replayed(n, wire[n][i]))) /\ UNCHANGED gate
           \/ /\ gate' = [gate EXCEPT ![n] = Append(gate[n], wire[n][i])]
              /\ call' = [call EXCEPT ![wire[n][i]].place = "gate"]
  BY DEF Arrive
<1> DEFINE c == wire[n][i]
<1>3. UNCHANGED <<submission, connected>>
  BY DEF Arrive, serverVars
<1>4. c \in Call /\ call[c] # None /\ call[c].node = n
  BY <1>1, <1>2, QueuedCalls
<1>5. \A d \in Call \ {c}, m \in Node : d \in ToSet(wire[m]) => d \in ToSet(wire'[m])
  <2>1. \A d \in ToSet(wire[n]) : d = c \/ d \in ToSet(RemoveAt(wire[n], i))
    BY <1>1, <1>2, NodesTyped, RestHolds
  <2> QED BY <1>1, <1>2, <2>1, NodesTyped
<1>6. \A d \in Call, m \in Node : d \in ToSet(gate[m]) => d \in ToSet(gate'[m])
  <2>1. \A d \in ToSet(gate[n]) : d \in ToSet(Append(gate[n], c))
    BY <1>1, <1>4, NodesTyped, LongerHolds
  <2>2. CASE UNCHANGED gate
    BY <2>2
  <2>3. CASE gate' = [gate EXCEPT ![n] = Append(gate[n], c)]
    BY <1>1, <2>1, <2>3, NodesTyped
  <2> QED BY <1>2, <2>2, <2>3
<1>7. \/ \E reply \in Reply : Answered(c, reply)
      \/ /\ \E place \in {"gate", "preparing"} : call' = [call EXCEPT ![c].place = place]
         /\ c \in ToSet(gate'[call[c].node])
  <2>1. Replayed(n, c) \in Reply /\ "busy" \in Reply
    BY DEF Replayed, Reply
  <2>2. c \in ToSet(Append(gate[n], c))
    BY <1>1, <1>4, NodesTyped, LongerHolds
  <2>3. CASE gate' = [gate EXCEPT ![n] = Append(gate[n], c)] /\ call' = [call EXCEPT ![c].place = "gate"]
    <3>1. gate'[n] = Append(gate[n], c)
      BY <1>1, <2>3, NodesTyped
    <3> QED BY <1>4, <2>2, <2>3, <3>1
  <2> QED BY <1>2, <2>1, <2>3
<1> HIDE DEF c
<1>8. \A d \in Call \ {c}, m \in Node : /\ d \in ToSet(wire[m]) => d \in ToSet(wire'[m])
                                        /\ d \in ToSet(gate[m]) => d \in ToSet(gate'[m])
  BY <1>5, <1>6
<1> QED BY <1>1, <1>3, <1>4, <1>7, <1>8, CallMoves, NodesTyped, MoveRemembers

LEMMA GateRemembers ==
  ASSUME IInv, NoEntryForgotten, NEW n \in Node, GateStep(n) \/ FailToAnswer(n)
  PROVE  NoEntryForgotten'
<1> DEFINE c == Head(gate[n])
<1>1. TypeOK /\ UNCHANGED <<submission, connected, wire>> /\ gate[n] # <<>>
  BY DEF IInv, GateStep, Enter, Refuse, FindClosed, Accept, FailToAnswer, Preparing, serverVars
<1>2. c \in Call /\ call[c] # None
  BY <1>1, GateCalls
<1>3. call[c].node = n /\ c \in ToSet(gate[n])
  <2>1. 1 \in DOMAIN gate[n] /\ c = gate[n][1]
    BY <1>1, NodesTyped, HeadAndTail
  <2> QED BY <2>1 DEF IInv, CallsInPlace, ToSet
<1>4. \/ /\ \E reply \in Reply : Answered(c, reply)
         /\ gate' = [gate EXCEPT ![n] = Tail(gate[n])]
      \/ call' = [call EXCEPT ![c].place = "preparing"] /\ UNCHANGED gate
  <2>1. CASE Enter(n)
    <3>1. GateVerdict(n, c) \in Reply \/ GateVerdict(n, c) = "prepare"
      BY DEF GateVerdict, Replayed, Reply
    <3>2. "prepare" \notin Reply
      BY DEF Reply
    <3> QED BY <2>1, <3>1, <3>2 DEF Enter, Leave
  <2>2. CASE Refuse(n) \/ FindClosed(n) \/ Accept(n) \/ FailToAnswer(n)
    BY <2>2 DEF Refuse, FindClosed, Accept, FailToAnswer, Leave, Reply
  <2> QED BY <2>1, <2>2 DEF GateStep
<1>5. \A d \in Call \ {c}, m \in Node : /\ d \in ToSet(wire[m]) => d \in ToSet(wire'[m])
                                        /\ d \in ToSet(gate[m]) => d \in ToSet(gate'[m])
  <2>1. \A d \in ToSet(gate[n]) : d = c \/ d \in ToSet(Tail(gate[n]))
    BY <1>1, NodesTyped, TailHolds
  <2> QED BY <1>1, <1>4, <2>1, NodesTyped
<1> HIDE DEF c
<1>6. \/ \E reply \in Reply : Answered(c, reply)
      \/ /\ \E place \in {"gate", "preparing"} : call' = [call EXCEPT ![c].place = place]
         /\ c \in ToSet(gate'[call[c].node])
  BY <1>3, <1>4
<1> QED BY <1>1, <1>2, <1>5, <1>6, CallMoves, NodesTyped, MoveRemembers

(* The answer reaches whoever waits for it, and the entry is gone.           *)
LEMMA ResolveRemembers ==
  ASSUME IInv, NoEntryForgotten, NEW c \in Call, Resolve(c)
  PROVE  NoEntryForgotten'
<1>1. /\ TypeOK /\ UNCHANGED <<connected, wire, gate>> /\ call' = [call EXCEPT ![c] = None]
  BY DEF IInv, Resolve, nodeVars
<1>2. call'[c] = None /\ \A d \in Call \ {c} : call'[d] = call[d]
  BY <1>1 DEF TypeOK
<1>3. Open' = Open \ {c}
  BY <1>2 DEF Open
<1>4. CallerHasEntry'
  <2>1. CASE submission # None /\ submission.call = c
    <3>1. submission' = [submission EXCEPT !.step = "replied", !.call = None, !.reply = call[c].reply]
      BY <2>1 DEF Resolve
    <3>2. submission \in Submission
      BY <1>1, <2>1 DEF TypeOK
    <3>3. submission'.step = "replied"
      BY <3>1, <3>2 DEF Submission
    <3> QED BY <3>3 DEF CallerHasEntry
  <2>2. CASE ~(submission # None /\ submission.call = c)
    <3>1. submission' = submission
      BY <2>2 DEF Resolve
    <3> QED BY <1>3, <2>2, <3>1 DEF NoEntryForgotten, CallerHasEntry
  <2> QED BY <2>1, <2>2
<1>5. EntriesHaveSockets'
  BY <1>1, <1>2, <1>3 DEF NoEntryForgotten, EntriesHaveSockets, Open
<1>6. \A d \in Call : call'[d] # None => HasPlace(d)'
  BY <1>1, <1>2 DEF NoEntryForgotten, HasPlace
<1> QED BY <1>4, <1>5, <1>6 DEF NoEntryForgotten

(* A call that is sent has an entry, a socket and a frame.                   *)
LEMMA SendRemembers ==
  ASSUME IInv, NoEntryForgotten, NEW c \in Call, SendCreate(c)
  PROVE  NoEntryForgotten'
<1> DEFINE n == assignment.node
           new == [node |-> n, request |-> assignment.request, open |-> TRUE, place |-> "wire", reply |-> None]
<1>1. /\ TypeOK /\ UNCHANGED <<connected, gate>> /\ call[c] = None /\ n \in connected
      /\ call' = [call EXCEPT ![c] = new] /\ wire' = [wire EXCEPT ![n] = Append(wire[n], c)]
      /\ submission # None /\ submission' = [submission EXCEPT !.step = "waiting", !.call = c]
  BY DEF IInv, SendCreate, nodeVars
<1>2. n \in Node /\ wire \in [Node -> Seq(Call)] /\ call \in [Call -> Create \cup {None}]
  BY <1>1 DEF TypeOK
<1>3. new # None
  <2>1. submission \in Submission /\ submission.step = "ready"
    BY <1>1 DEF TypeOK, SendCreate
  <2>2. assignment \in Assignment
    <3>1. assignment # None
      BY <1>1, <2>1 DEF IInv, OneNode
    <3> QED BY <1>1, <3>1 DEF TypeOK
  <2>3. new \in Create
    BY <2>2 DEF Assignment, Create, Place
  <2> QED BY <2>3, NoneAssumption
<1>4. call'[c] = new /\ call'[c].node = n /\ call'[c].place = "wire" /\ call'[c].open
      /\ \A d \in Call \ {c} : call'[d] = call[d]
  BY <1>1, <1>2
<1> HIDE DEF new
<1>5. Open' = Open \cup {c}
  BY <1>3, <1>4 DEF Open
<1>6. submission'.call = c
  BY <1>1 DEF TypeOK, Submission
<1>7. c \in ToSet(wire'[n]) /\ \A d \in Call, m \in Node : d \in ToSet(wire[m]) => d \in ToSet(wire'[m])
  <2>1. c \in ToSet(Append(wire[n], c)) /\ \A d \in ToSet(wire[n]) : d \in ToSet(Append(wire[n], c))
    BY <1>2, LongerHolds
  <2> QED BY <1>1, <1>2, <2>1
<1>8. CallerHasEntry' /\ EntriesHaveSockets'
  BY <1>1, <1>4, <1>5, <1>6 DEF NoEntryForgotten, CallerHasEntry, EntriesHaveSockets, Open
<1>9. ASSUME NEW d \in Call, call'[d] # None
      PROVE  HasPlace(d)'
  <2>1. CASE d = c
    BY <1>4, <1>7, <2>1 DEF HasPlace
  <2>2. CASE d # c
    BY <1>1, <1>4, <1>7, <1>9, <2>2, NodesTyped DEF NoEntryForgotten, HasPlace
  <2> QED BY <2>1, <2>2
<1> QED BY <1>8, <1>9 DEF NoEntryForgotten

(* Whoever waits for a node whose socket ends is told so.                    *)
LEMMA InterruptedWaits ==
  ASSUME TypeOK, CallerHasEntry, NEW gone, submission' = Interrupted(gone),
         submission' # None, submission'.step = "waiting"
  PROVE  submission' = submission /\ submission.call \in Open /\ call[submission.call].node \notin gone
<1>1. submission # None /\ submission \in Submission
  BY DEF Interrupted, TypeOK
<1>2. submission' = submission
  BY <1>1 DEF Interrupted, Submission
<1>3. submission.call \in Open
  BY <1>1, <1>2 DEF CallerHasEntry
<1>4. call[submission.call].node \notin gone
  <2> SUFFICES ASSUME call[submission.call].node \in gone
               PROVE  FALSE
    OBVIOUS
  <2>1. submission' = [submission EXCEPT !.step = "replied", !.call = None, !.reply = "busy"]
    BY <1>1, <1>2, <1>3 DEF Interrupted, Open
  <2> QED BY <1>1, <2>1 DEF Submission
<1> QED BY <1>2, <1>3, <1>4

(* A socket that ends takes its entries and the frames that did not arrive.  *)
LEMMA CutRemembers ==
  ASSUME IInv, NoEntryForgotten, NEW gone \in SUBSET Node, NEW lost,
         call' = Detached(gone, lost), UNCHANGED gate, connected' = connected \ gone,
         submission' \in {Interrupted(gone), None},
         \A m \in Node \ gone : wire'[m] = wire[m],
         \A m \in gone : \A d \in ToSet(wire[m]) : d \in ToSet(wire'[m]) \/ d \in lost
  PROVE  NoEntryForgotten'
<1>1. TypeOK /\ \A d \in Call : call[d] # None => call[d] \in Create /\ call[d].node \in Node
  BY NodesTyped DEF IInv
<1>2. ASSUME NEW d \in Call, call'[d] # None
      PROVE  /\ call[d] # None /\ call'[d].node = call[d].node /\ call'[d].place = call[d].place
             /\ call[d].node \notin gone => call'[d] = call[d]
             /\ call[d].node \in gone =>
                  call'[d] = [call[d] EXCEPT !.open = FALSE] /\ d \notin lost /\ call[d].place # "answered"
  <2>1. call'[d] = IF call[d] = None \/ call[d].node \notin gone THEN call[d]
                   ELSE IF d \in lost \/ call[d].place = "answered" THEN None
                   ELSE [call[d] EXCEPT !.open = FALSE]
    BY DEF Detached
  <2>2. call[d] # None /\ call[d] \in Create
    BY <1>1, <1>2, <2>1
  <2>3. CASE call[d].node \notin gone
    BY <2>1, <2>2, <2>3
  <2>4. CASE call[d].node \in gone
    <3>1. call'[d] = [call[d] EXCEPT !.open = FALSE] /\ d \notin lost /\ call[d].place # "answered"
      BY <1>2, <2>1, <2>2, <2>4
    <3>2. call'[d].node = call[d].node /\ call'[d].place = call[d].place
      BY <2>2, <3>1 DEF Create
    <3> QED BY <2>2, <2>4, <3>1, <3>2
  <2> QED BY <2>3, <2>4
<1>3. \A d \in Open' : d \in Open /\ call'[d] = call[d] /\ call[d].node \notin gone
  <2> SUFFICES ASSUME NEW d \in Open'
               PROVE  d \in Open /\ call'[d] = call[d] /\ call[d].node \notin gone
    OBVIOUS
  <2>1. d \in Call /\ call'[d] # None /\ call'[d].open
    BY DEF Open
  <2>2. call[d].node \notin gone
    <3> SUFFICES ASSUME call[d].node \in gone
                 PROVE  FALSE
      OBVIOUS
    <3>1. call'[d] = [call[d] EXCEPT !.open = FALSE] /\ call[d] \in Create
      BY <1>1, <1>2, <2>1
    <3>2. call'[d].open = FALSE
      BY <3>1 DEF Create
    <3> QED BY <2>1, <3>2
  <2> QED BY <1>2, <2>1, <2>2 DEF Open
<1>4. CallerHasEntry'
  <2> SUFFICES ASSUME submission' # None, submission'.step = "waiting"
               PROVE  submission'.call \in Open'
    BY DEF CallerHasEntry
  <2>1. submission'.call = submission.call /\ submission.call \in Open /\ call[submission.call].node \notin gone
    BY <1>1, InterruptedWaits DEF NoEntryForgotten
  <2>2. call'[submission.call] = call[submission.call]
    BY <2>1 DEF Detached, Open
  <2> QED BY <2>1, <2>2 DEF Open
<1>5. EntriesHaveSockets'
  BY <1>3 DEF NoEntryForgotten, EntriesHaveSockets
<1>6. ASSUME NEW d \in Call, call'[d] # None
      PROVE  HasPlace(d)'
  <2>1. HasPlace(d)
    BY <1>2, <1>6 DEF NoEntryForgotten
  <2>2. CASE call[d].node \notin gone
    BY <1>1, <1>2, <1>6, <2>1, <2>2 DEF HasPlace
  <2>3. CASE call[d].node \in gone
    BY <1>2, <1>6, <2>1, <2>3 DEF HasPlace
  <2> QED BY <2>2, <2>3
<1> QED BY <1>4, <1>5, <1>6 DEF NoEntryForgotten

LEMMA SocketRemembers ==
  ASSUME IInv, NoEntryForgotten, NEW n \in Node, Disconnect(n)
  PROVE  NoEntryForgotten'
<1>1. TypeOK /\ wire \in [Node -> Seq(Call)]
  BY NodesTyped DEF IInv
<1>2. PICK k \in 0 .. Len(wire[n]) :
        /\ wire' = [wire EXCEPT ![n] = SubSeq(wire[n], 1, k)]
        /\ call' = Detached({n}, ToSet(SubSeq(wire[n], k + 1, Len(wire[n]))))
  BY DEF Disconnect
<1>3. /\ UNCHANGED gate /\ connected' = connected \ {n} /\ submission' = Interrupted({n})
  BY DEF Disconnect, nodeVars
<1>4. \A m \in {n} : \A d \in ToSet(wire[m]) :
        d \in ToSet(wire'[m]) \/ d \in ToSet(SubSeq(wire[n], k + 1, Len(wire[n])))
  BY <1>1, <1>2, CutHolds
<1>5. \A m \in Node \ {n} : wire'[m] = wire[m]
  BY <1>1, <1>2
<1> QED BY <1>2, <1>3, <1>4, <1>5, CutRemembers

LEMMA CrashRemembers ==
  ASSUME IInv, NoEntryForgotten, ServerCrash
  PROVE  NoEntryForgotten'
<1>1. TypeOK /\ wire \in [Node -> Seq(Call)]
  BY NodesTyped DEF IInv
<1>2. PICK arrived \in [Node -> 0 .. Cardinality(Call)] :
        /\ \A n \in Node : arrived[n] <= Len(wire[n])
        /\ wire' = [n \in Node |-> SubSeq(wire[n], 1, arrived[n])]
        /\ call' = Detached(Node, UNION {ToSet(SubSeq(wire[n], arrived[n] + 1, Len(wire[n]))) : n \in Node})
  BY DEF ServerCrash
<1>3. UNCHANGED gate /\ connected' = connected \ Node /\ submission' = None
  BY <1>1 DEF ServerCrash, nodeVars, TypeOK
<1> DEFINE lost == UNION {ToSet(SubSeq(wire[n], arrived[n] + 1, Len(wire[n]))) : n \in Node}
<1>4. ASSUME NEW m \in Node, NEW d \in ToSet(wire[m])
      PROVE  d \in ToSet(wire'[m]) \/ d \in lost
  <2>1. arrived[m] \in 0 .. Len(wire[m])
    <3>1. arrived[m] \in 0 .. Cardinality(Call) /\ arrived[m] <= Len(wire[m]) /\ Len(wire[m]) \in Nat
      BY <1>1, <1>2
    <3>2. arrived[m] \in Nat
      BY <3>1, CallAssumption, FS_CardinalityType
    <3> QED BY <3>1, <3>2
  <2>2. d \in ToSet(SubSeq(wire[m], 1, arrived[m])) \/ d \in ToSet(SubSeq(wire[m], arrived[m] + 1, Len(wire[m])))
    BY <1>1, <2>1, CutHolds
  <2> QED BY <1>2, <2>2
<1> QED BY <1>2, <1>3, <1>4, CutRemembers

LEMMA RestartRemembers ==
  ASSUME IInv, NoEntryForgotten, NEW n \in Node, NodeRestart(n)
  PROVE  NoEntryForgotten'
<1>1. /\ TypeOK /\ submission' = Interrupted({n}) /\ connected' = connected \ {n}
      /\ call' = [c \in Call |-> IF call[c] # None /\ call[c].node = n THEN None ELSE call[c]]
      /\ \A m \in Node \ {n} : wire'[m] = wire[m] /\ gate'[m] = gate[m]
  BY DEF IInv, TypeOK, NodeRestart
<1>2. ASSUME NEW d \in Call, call'[d] # None
      PROVE  call'[d] = call[d] /\ call[d].node \in Node \ {n}
  BY <1>1, <1>2, NodesTyped
<1>3. CallerHasEntry'
  <2> SUFFICES ASSUME submission' # None, submission'.step = "waiting"
               PROVE  submission'.call \in Open'
    BY DEF CallerHasEntry
  <2>1. submission' = submission /\ submission.call \in Open /\ call[submission.call].node \notin {n}
    BY <1>1, InterruptedWaits DEF NoEntryForgotten
  <2>2. call'[submission.call] = call[submission.call]
    BY <1>1, <2>1 DEF Open
  <2> QED BY <2>1, <2>2 DEF Open
<1>4. EntriesHaveSockets'
  BY <1>1, <1>2 DEF NoEntryForgotten, EntriesHaveSockets, Open
<1>5. \A d \in Call : call'[d] # None => HasPlace(d)'
  BY <1>1, <1>2 DEF NoEntryForgotten, HasPlace
<1> QED BY <1>3, <1>4, <1>5 DEF NoEntryForgotten

LEMMA StepRemembers == IInv /\ NoEntryForgotten /\ [Next]_vars => NoEntryForgotten'
<1> SUFFICES ASSUME IInv, NoEntryForgotten, [Next]_vars
             PROVE  NoEntryForgotten'
  OBVIOUS
<1>1. TypeOK /\ (submission # None => submission \in Submission)
  BY DEF IInv, TypeOK
<1>2. ASSUME \/ (\E q \in Request : Submit(q)) \/ NoNode \/ Undispatched \/ Timeout \/ Settle
             \/ \E n \in Node : Prepare(n)
      PROVE  NoEntryForgotten'
  <2>1. UNCHANGED <<call, wire, gate, connected>>
    BY <1>2 DEF Submit, NoNode, Undispatched, Timeout, Settle, Prepare, nodeVars
  <2>2. submission' = None \/ submission'.step \in {"placing", "ready"}
    BY <1>1, <1>2 DEF Submit, NoNode, Undispatched, Timeout, Settle, Prepare, Submission
  <2> QED BY <2>1, <2>2, RestRemembers
<1>3. ASSUME NEW n \in Node, Work(n) \/ Close(n) \/ Reopen(n) \/ Report(n) \/ Attach(n)
      PROVE  NoEntryForgotten'
  BY <1>3, RestRemembers DEF Work, Close, Reopen, Report, Attach, serverVars, nodeVars
<1>4. CASE UNCHANGED vars
  BY <1>4, RestRemembers DEF vars, serverVars, nodeVars
<1> QED BY <1>2, <1>3, <1>4, ResolveRemembers, SendRemembers, ArriveRemembers, GateRemembers, SocketRemembers,
           CrashRemembers, RestartRemembers DEF Next

(* Whoever waits for a node has an entry that a call stands for, and every   *)
(* call is on the wire, at the preparation lock or answered, whatever times  *)
(* out, is overtaken, is cut off or dies: no entry is left to wait for ever. *)
THEOREM EntriesRemembered == Spec => []NoEntryForgotten
<1>1. Init => NoEntryForgotten
  BY DEF Init, NoEntryForgotten, CallerHasEntry, EntriesHaveSockets, Open
<1>2. IInv /\ NoEntryForgotten /\ [Next]_vars => NoEntryForgotten'
  BY StepRemembers
<1> QED BY <1>1, <1>2, InductiveInvariant, PTL DEF Spec
===============================================================================
