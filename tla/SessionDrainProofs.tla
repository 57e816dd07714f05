-------------------------- MODULE SessionDrainProofs --------------------------
(***************************************************************************)
(* Machine-checked facts about the inputs of a session, for any steers,    *)
(* queued prompts and commands, and any number of failures and crashes.    *)
(***************************************************************************)
EXTENDS SessionDrain, FiniteSetTheorems, TLAPS

(***************************************************************************)
(* The inductive invariant.                                                *)
(***************************************************************************)
Loop == Pcs \ {"idle", "fresh", "entry"}
Applying == {"steer", "guard"}
Marking == {"marks", "qmark"}

(* The rows a run has in hand are promoted, of one delivery, and in order.  *)
BatchHeld ==
  /\ run.batch # <<>> <=> run.pc \in Applying \cup Marking
  /\ run.pc \in {"steer", "marks"} => ToSet(run.batch) \subseteq Steers
  /\ run.pc \in {"guard", "qmark"} => ToSet(run.batch) \subseteq Queues /\ Len(run.batch) = 1
  /\ \A i \in ToSet(run.batch) : mark[i] = "promoted"
  /\ \A m, n \in DOMAIN run.batch : m < n => adm[run.batch[m]] < adm[run.batch[n]]
  /\ run.read # {} <=> run.pc = "promote"
  /\ \A i \in run.read : mark[i] \in {"pending", "deleted"}

(* Two rows never have the same place.                                      *)
AdmittedApart == \A i, j \in Rows : adm[i] = adm[j] => i = j

InHand(i) == run.pc \in Marking /\ i = Head(run.batch)

Times(i) == Cardinality({n \in DOMAIN effects : effects[n] = i})

(* An input took effect once for its mark and once for each crash.          *)
Counted ==
  /\ \A i \in Inputs : mark[i] = "recorded" \/ InHand(i) => i \in ToSet(effects)
  /\ \A i \in ToSet(effects) : mark[i] # "none"
  /\ \A i \in Inputs :
       Times(i) <= crashes + (IF mark[i] = "recorded" \/ InHand(i) THEN 1 ELSE 0)

(* Where the loop may stop without a turn, nothing waits for an answer.     *)
StopsAnswered ==
  /\ run.pc \notin {"idle", "after", "teardown"} => run.ended = "none"
  /\ run.pc \in {"fresh", "entry", "top", "steers", "promote"} /\ run.skip => ~owed
  /\ run.pc \in {"claim", "guard", "peekSteers", "peekQueues"} /\ run.mode # "drain" => ~owed
  /\ run.pc = "qmark" /\ run.mode # "drain" /\ Head(run.batch) \in Commands => ~owed
  /\ run.pc = "late" => ~owed
  /\ IdleMeansAnswered

(* While no row is deleted, what is not in hand was admitted later.         *)
LaterWaits ==
  /\ \A i \in Inputs : mark[i] # "deleted"
  /\ \A i \in Pending(Steers) \ run.read, j \in run.read : adm[j] < adm[i]
  /\ \A S \in {Steers, Queues} : \A i \in Pending(S), j \in S \cap ToSet(run.batch) : adm[j] < adm[i]

NoneLeft == LaterWaits /\ PromotedIsHeld /\ InAdmissionOrder

RowsSound ==
  /\ BatchHeld /\ AdmittedApart /\ Counted
  /\ Deletes = 0 => NoneLeft

IInv == TypeOK /\ RowsSound /\ StopsAnswered

(***************************************************************************)
(* Finite sets: the smallest one with a property, the greatest place, and  *)
(* the rows in order.                                                      *)
(***************************************************************************)
LEMMA Smallest ==
  ASSUME NEW S, IsFiniteSet(S), NEW B \in SUBSET (SUBSET S), B # {}
  PROVE  \E T \in B : \A U \in SUBSET T : U # T => U \notin B
<1>1. IsWellFoundedOn(StrictSubsetOrdering(S), SUBSET S)
  BY FS_StrictSubsetOrderingWellFounded, FS_FiniteSubsetsOfFinite
<1>2. PICK T \in B : \A U \in B : <<U, T>> \notin StrictSubsetOrdering(S)
  BY <1>1, WFMin, Zenon
<1> QED BY <1>2 DEF StrictSubsetOrdering

LEMMA Greatest ==
  ASSUME NEW S, IsFiniteSet(S), NEW f \in [S -> Nat]
  PROVE  \A T \in SUBSET S : T # {} => \E x \in T : \A y \in T : f[y] <= f[x]
<1> DEFINE B == {T \in SUBSET S : T # {} /\ ~ \E x \in T : \A y \in T : f[y] <= f[x]}
<1>1. ASSUME B # {}
      PROVE  FALSE
  <2>1. PICK T \in B : \A U \in SUBSET T : U # T => U \notin B
    <3>1. B \in SUBSET (SUBSET S)
      OBVIOUS
    <3> HIDE DEF B
    <3> QED BY <1>1, <3>1, Smallest
  <2>2. PICK x \in T : TRUE
    BY <2>1
  <2>3. T \ {x} \notin B /\ T \ {x} \in SUBSET S
    BY <2>1, <2>2
  <2>4. CASE T \ {x} = {}
    BY <2>1, <2>2, <2>4
  <2>5. CASE T \ {x} # {}
    <3>1. PICK z \in T \ {x} : \A y \in T \ {x} : f[y] <= f[z]
      BY <2>3, <2>5
    <3>2. x \in S /\ z \in S /\ f[x] \in Nat /\ f[z] \in Nat /\ \A y \in T : f[y] \in Nat
      BY <2>1
    <3>3. CASE f[x] <= f[z]
      BY <2>1, <3>1, <3>2, <3>3
    <3>4. CASE f[z] <= f[x]
      BY <2>1, <3>1, <3>2, <3>4
    <3> QED BY <3>2, <3>3, <3>4
  <2> QED BY <2>4, <2>5
<1> QED BY <1>1

LEMMA MaxIsGreatest ==
  ASSUME NEW S \in SUBSET Nat, IsFiniteSet(S), S # {}
  PROVE  Max(S) \in S /\ \A y \in S : y <= Max(S)
<1> DEFINE f == [x \in S |-> x]
<1>1. f \in [S -> Nat]
  OBVIOUS
<1>2. PICK x \in S : \A y \in S : f[y] <= f[x]
  BY <1>1, Greatest
<1>3. \A y \in S : x >= y
  BY <1>2
<1>4. Max(S) \in S /\ \A y \in S : Max(S) >= y
  BY <1>3 DEF Max
<1> QED BY <1>4

(* The places of the rows, once more than any of them.                      *)
LEMMA NextIsLater ==
  ASSUME TypeOK
  PROVE  NextAdmittedSeq \in Nat /\ \A i \in Rows : adm[i] < NextAdmittedSeq
<1> DEFINE P == {adm[i] : i \in Rows}
<1>1. Rows \in SUBSET Inputs /\ IsFiniteSet(Rows)
  BY DrainAssumption, FS_Subset DEF Rows
<1>2. IsFiniteSet(P) /\ P \in SUBSET Nat
  <2>1. P \in SUBSET Nat
    BY <1>1 DEF TypeOK
  <2> DEFINE f == [i \in Rows |-> adm[i]]
  <2>2. f \in Surjection(Rows, P)
    BY DEF Surjection
  <2> QED BY <1>1, <2>1, <2>2, FS_Surjection DEF ExistsSurjection
<1>3. P \cup {0} \in SUBSET Nat /\ IsFiniteSet(P \cup {0}) /\ P \cup {0} # {}
  BY <1>2, FS_AddElement
<1>4. Max(P \cup {0}) \in Nat /\ \A y \in P \cup {0} : y <= Max(P \cup {0})
  BY <1>3, MaxIsGreatest, Zenon
<1>5. \A i \in Rows : adm[i] \in P /\ adm[i] \in Nat
  BY <1>2
<1>6. NextAdmittedSeq = 1 + Max(P \cup {0})
  BY DEF NextAdmittedSeq
<1> HIDE DEF P
<1> QED BY <1>4, <1>5, <1>6

Lists(s, S) ==
  ToSet(s) = S /\ \A m, n \in DOMAIN s : m < n => adm[s[m]] < adm[s[n]]

(* Rows with places of their own can be listed in order.                    *)
LEMMA CanBeListed ==
  ASSUME TypeOK, NEW S \in SUBSET Inputs, \A i, j \in S : adm[i] = adm[j] => i = j
  PROVE  \A T \in SUBSET S : \E s \in [1 .. Cardinality(T) -> T] : Lists(s, T)
<1> DEFINE B == {T \in SUBSET S : ~ \E s \in [1 .. Cardinality(T) -> T] : Lists(s, T)}
           f == [i \in S |-> adm[i]]
<1>1. IsFiniteSet(S) /\ f \in [S -> Nat]
  BY DrainAssumption, FS_Subset DEF TypeOK
<1>2. ASSUME B # {}
      PROVE  FALSE
  <2>1. PICK T \in B : \A U \in SUBSET T : U # T => U \notin B
    <3>1. B \in SUBSET (SUBSET S)
      OBVIOUS
    <3> HIDE DEF B
    <3> QED BY <1>1, <1>2, <3>1, Smallest
  <2>2. T \in SUBSET S /\ IsFiniteSet(T)
    BY <1>1, <2>1, FS_Subset
  <2>3. CASE T = {}
    <3>1. 1 .. Cardinality(T) = {}
      BY <2>3, FS_EmptySet
    <3>2. [x \in {} |-> x] \in [1 .. Cardinality(T) -> T] /\ Lists([x \in {} |-> x], T)
      BY <2>3, <3>1 DEF Lists, ToSet
    <3> QED BY <2>1, <3>2
  <2>4. CASE T # {}
    <3>1. PICK x \in T : \A y \in T : f[y] <= f[x]
      BY <1>1, <2>2, <2>4, Greatest
    <3>2. \A y \in T \ {x} : adm[y] < adm[x]
      <4>1. \A y \in T : adm[y] <= adm[x] /\ adm[y] \in Nat
        BY <1>1, <2>2, <3>1 DEF TypeOK
      <4>2. \A y \in T \ {x} : adm[y] # adm[x]
        BY <2>2, <3>1
      <4> QED BY <4>1, <4>2
    <3> DEFINE U == T \ {x}
               c == Cardinality(U)
    <3>3. U \in SUBSET T /\ U # T /\ U \notin B
      BY <2>1, <3>1
    <3>4. IsFiniteSet(U) /\ c \in Nat /\ Cardinality(T) = c + 1
      <4>1. IsFiniteSet(U) /\ Cardinality(U) = Cardinality(T) - 1
        BY <2>2, <3>1, FS_RemoveElement
      <4> QED BY <2>2, <4>1, FS_CardinalityType
    <3>5. PICK t \in [1 .. c -> U] : Lists(t, U)
      BY <2>2, <3>3
    <3> DEFINE s == [k \in 1 .. (c + 1) |-> IF k = c + 1 THEN x ELSE t[k]]
    <3> HIDE DEF c, U
    <3>6. /\ s \in [1 .. (c + 1) -> T] /\ s[c + 1] = x /\ DOMAIN s = 1 .. (c + 1)
          /\ \A k \in 1 .. c : k \in 1 .. (c + 1) /\ s[k] = t[k]
      BY <3>1, <3>3, <3>4
    <3>7. ToSet(s) = T
      <4>1. \A k \in 1 .. (c + 1) : s[k] \in T
        BY <3>6
      <4>2. ASSUME NEW y \in T
            PROVE  \E k \in 1 .. (c + 1) : s[k] = y
        <5>1. CASE y = x
          BY <3>4, <3>6, <5>1
        <5>2. CASE y # x
          <6>1. PICK k \in 1 .. c : t[k] = y
            BY <3>5, <5>2 DEF Lists, ToSet, U
          <6> QED BY <3>6, <6>1
        <5> QED BY <5>1, <5>2
      <4> QED BY <3>6, <4>1, <4>2 DEF ToSet
    <3>8. ASSUME NEW m \in 1 .. (c + 1), NEW n \in 1 .. (c + 1), m < n
          PROVE  adm[s[m]] < adm[s[n]]
      <4>1. m \in 1 .. c /\ s[m] = t[m] /\ t[m] \in U
        BY <3>4, <3>6, <3>8
      <4>2. CASE n = c + 1
        BY <3>2, <3>6, <4>1, <4>2 DEF U
      <4>3. CASE n # c + 1
        BY <3>4, <3>5, <3>6, <3>8, <4>1, <4>3 DEF Lists
      <4> QED BY <4>2, <4>3
    <3> QED BY <2>1, <3>4, <3>6, <3>7, <3>8 DEF Lists
  <2> QED BY <2>3, <2>4
<1> QED BY <1>2

LEMMA EmptyList ==
  ASSUME NEW T, NEW s \in Seq(T)
  PROVE  s = <<>> <=> ToSet(s) = {}
<1>1. Len(s) \in Nat /\ DOMAIN s = 1 .. Len(s) /\ (s = <<>> <=> Len(s) = 0)
  OBVIOUS
<1>2. Len(s) # 0 => 1 \in DOMAIN s
  BY <1>1
<1>3. Len(s) = 0 => DOMAIN s = {}
  BY <1>1
<1>4. CASE Len(s) = 0
  BY <1>1, <1>3, <1>4 DEF ToSet
<1>5. CASE Len(s) # 0
  BY <1>1, <1>2, <1>5 DEF ToSet
<1> QED BY <1>4, <1>5

LEMMA InOrderLists ==
  ASSUME TypeOK, AdmittedApart, NEW S \in SUBSET Rows
  PROVE  /\ InOrder(S) \in Seq(S) /\ Lists(InOrder(S), S)
         /\ InOrder(S) = <<>> <=> S = {}
<1>1. Rows \subseteq Inputs /\ \A i, j \in S : adm[i] = adm[j] => i = j
  BY DEF Rows, AdmittedApart
<1>2. \E s \in [1 .. Cardinality(S) -> S] : Lists(s, S)
  BY <1>1, CanBeListed
<1>3. InOrder(S) \in [1 .. Cardinality(S) -> S] /\ Lists(InOrder(S), S)
  BY <1>2 DEF InOrder, Lists
<1>4. Cardinality(S) \in Nat
  BY <1>1, DrainAssumption, FS_Subset, FS_CardinalityType
<1>5. InOrder(S) \in Seq(S)
  BY <1>3, <1>4
<1>6. InOrder(S) = <<>> <=> S = {}
  BY <1>3, <1>5, EmptyList DEF Lists
<1> QED BY <1>3, <1>5, <1>6

(***************************************************************************)
(* Types.                                                                  *)
(***************************************************************************)
LEMMA RunTyped ==
  ASSUME TypeOK
  PROVE  /\ run \in Run /\ run.pc \in Pcs /\ run.read \subseteq Steers
         /\ run.batch \in Seq(Inputs) /\ run.mode \in {"drain", "idle", "again"}
         /\ run.drain \in BOOLEAN /\ run.skip \in BOOLEAN /\ run.recorded \in BOOLEAN
         /\ run.streak \in Nat /\ run.streak <= MaxStreak
         /\ run.rechecks \in Nat /\ run.rechecks <= MaxRechecks
         /\ run.batch # <<>> => /\ Head(run.batch) \in Inputs /\ Head(run.batch) \in ToSet(run.batch)
                                /\ Tail(run.batch) \in Seq(Inputs)
         /\ \A i \in ToSet(run.batch) : i \in Inputs
         /\ <<>> \in Seq(Inputs) /\ 0 \in 0 .. MaxStreak
<1>1. run \in Run
  BY DEF TypeOK
<1>2. /\ run.pc \in Pcs /\ run.read \subseteq Steers
      /\ run.batch \in Seq(Inputs) /\ run.mode \in {"drain", "idle", "again"}
      /\ run.drain \in BOOLEAN /\ run.skip \in BOOLEAN /\ run.recorded \in BOOLEAN
      /\ run.streak \in 0 .. MaxStreak /\ run.rechecks \in 0 .. MaxRechecks
  BY <1>1 DEF Run
<1>3. \A i \in DOMAIN run.batch : run.batch[i] \in Inputs
  BY <1>2
<1>4. ASSUME run.batch # <<>>
      PROVE  /\ 1 \in DOMAIN run.batch /\ Head(run.batch) = run.batch[1]
             /\ Tail(run.batch) \in Seq(Inputs)
  BY <1>2, <1>4
<1>5. <<>> \in Seq(Inputs) /\ MaxStreak \in Nat /\ MaxRechecks \in Nat
  BY DrainAssumption
<1> QED BY <1>1, <1>2, <1>3, <1>4, <1>5 DEF ToSet

(* Whatever the loop does next, its record keeps its shape.                 *)
LEMMA EndTyped ==
  ASSUME TypeOK, NEW how \in {"done", "command", "cap", "cancel", "error"}, End(how)
  PROVE  /\ run' \in Run /\ run'.pc \in {"after", "teardown"} /\ run'.batch = <<>>
         /\ run'.read = run.read /\ run'.ended = how
BY RunTyped DEF End, Run, Pcs

LEMMA TopTyped ==
  ASSUME TypeOK, NEW skip \in BOOLEAN, Top(skip)
  PROVE  /\ run' \in Run /\ run'.pc = "top" /\ run'.batch = <<>> /\ run'.read = run.read
         /\ run'.skip = skip /\ run'.ended = run.ended
BY RunTyped DEF Top, Run, Pcs

LEMMA ConsumeTyped ==
  ASSUME TypeOK, ConsumeNext
  PROVE  /\ run' \in Run /\ run'.pc \in {"top", "after"} /\ run'.batch = <<>> /\ run'.read = run.read
         /\ run'.pc = "top" => ~run'.skip /\ run'.ended = run.ended
         /\ run'.pc = "after" => run'.ended = "cap"
<1>1. CASE End("cap")
  BY <1>1, EndTyped DEF End
<1>2. CASE /\ run.streak + 1 < MaxStreak
           /\ run' = [run EXCEPT !.pc = "top", !.skip = FALSE, !.streak = @ + 1, !.batch = <<>>]
  <2>1. run.streak + 1 \in 0 .. MaxStreak /\ <<>> \in Seq(Inputs)
    BY <1>2, RunTyped, DrainAssumption
  <2> QED BY <1>2, <2>1, RunTyped DEF Run, Pcs
<1> QED BY <1>1, <1>2, RunTyped, DrainAssumption DEF ConsumeNext

LEMMA StopTyped ==
  ASSUME TypeOK, Stop
  PROVE  /\ run' \in Run /\ run'.pc \in {"llm", "after"} /\ run'.batch = <<>> /\ run'.read = run.read
         /\ run'.pc = "llm" => run'.ended = run.ended /\ run'.mode = run.mode
         /\ run'.pc = "after" => run'.ended = "done" /\ (run.mode = "drain" => ~owed)
<1>1. CASE End("done") /\ ~(run.mode = "drain" /\ owed)
  BY <1>1, EndTyped DEF End
<1>2. CASE run' = [run EXCEPT !.pc = "llm", !.drain = FALSE, !.streak = 0, !.batch = <<>>]
  BY <1>2, RunTyped, DrainAssumption DEF Run, Pcs
<1> QED BY <1>1, <1>2 DEF Stop

LEMMA NothingTyped ==
  ASSUME TypeOK, NothingPopped
  PROVE  /\ run' \in Run /\ run'.pc \in {"llm", "after", "peekSteers"} /\ run'.batch = <<>>
         /\ run'.read = run.read
         /\ run'.pc # "after" => run'.ended = run.ended /\ run'.mode = run.mode
         /\ run'.pc = "after" => run'.ended = "done" /\ (run.mode = "drain" => ~owed)
<1>1. CASE Stop
  BY <1>1, StopTyped
<1>2. CASE run' = [run EXCEPT !.pc = "peekSteers", !.batch = <<>>]
  BY <1>2, RunTyped DEF Run, Pcs
<1> QED BY <1>1, <1>2 DEF NothingPopped

LEMMA WithoutTyped ==
  ASSUME TypeOK
  PROVE  /\ WithoutSteers \in Run /\ WithoutSteers.pc \in {"claim", "llm"}
         /\ WithoutSteers.batch = run.batch /\ WithoutSteers.read = run.read
         /\ WithoutSteers.ended = run.ended
         /\ [WithoutSteers EXCEPT !.read = {}] \in Run
         /\ WithoutSteers.pc = "claim" /\ WithoutSteers.mode # "drain" => run.skip
BY RunTyped DEF WithoutSteers, Run, Pcs

LEMMA FreshTyped ==
  /\ NoRun \in Run /\ NoRun.batch = <<>> /\ NoRun.read = {} /\ NoRun.pc = "idle" /\ NoRun.ended = "none"
  /\ \A pc \in Pcs : [NoRun EXCEPT !.pc = pc] \in Run
<1>1. <<>> \in Seq(Inputs) /\ 0 \in 0 .. MaxStreak /\ 0 \in 0 .. MaxRechecks
  BY DrainAssumption
<1> QED BY <1>1 DEF NoRun, Run, Pcs

(* The parts of the state beside the loop's record.                         *)
LEMMA TypeIs ==
  ASSUME run' \in Run, mark' \in [Inputs -> {"none", "pending", "promoted", "recorded", "deleted"}],
         adm' \in [Inputs -> Nat], effects' \in Seq(Inputs),
         {owed', draining', cancel', turn'} \subseteq BOOLEAN,
         admitting' \in (Inputs \X BOOLEAN) \cup {None},
         watch' \in [Inputs -> {"none", "polling", "woken"}],
         tools' \in 0 .. ToolTurns, upsets' \in 0 .. Upsets, crashes' \in 0 .. Crashes,
         draining' <=> run'.pc # "idle"
  PROVE  TypeOK'
BY DEF TypeOK, At

LEMMA UpsetTyped ==
  ASSUME TypeOK, Upset
  PROVE  upsets' \in 0 .. Upsets /\ UNCHANGED <<tools, crashes>>
BY DrainAssumption DEF Upset, TypeOK

LEMMA BeginTyped ==
  ASSUME TypeOK, BeginDrain
  PROVE  draining' = TRUE /\ run' \in Run /\ run'.pc = "fresh" /\ run' = [NoRun EXCEPT !.pc = "fresh"]
         /\ run'.batch = <<>> /\ run'.read = {} /\ run'.ended = "none"
<1>1. NoRun \in Run /\ "fresh" \in Pcs /\ NoRun.batch = <<>> /\ NoRun.read = {} /\ NoRun.ended = "none"
  BY FreshTyped DEF Pcs
<1> QED BY <1>1, FreshTyped DEF BeginDrain, Run

LEMMA AroundTyped ==
  ASSUME TypeOK,
         \/ \E i \in Inputs : \/ AdmitRow(i) \/ AdmitAgain(i) \/ DeleteInput(i)
                              \/ WatcherWakes(i) \/ WatcherGivesUp(i) \/ WatcherDecides(i)
         \/ AdmitDrive \/ Interrupt \/ Crash
  PROVE  TypeOK'
<1> USE DEF durable, handle, counters
<1>1. ASSUME NEW i \in Inputs, AdmitRow(i)
      PROVE  TypeOK'
  <2>1. UNCHANGED <<effects, owed, draining, cancel, turn, watch, run, counters>> /\ admitting' = <<i, TRUE>>
    BY <1>1 DEF AdmitRow
  <2>2. mark' \in [Inputs -> {"none", "pending", "promoted", "recorded", "deleted"}]
    BY <1>1 DEF AdmitRow, TypeOK
  <2>3. adm' \in [Inputs -> Nat]
    BY <1>1, NextIsLater DEF AdmitRow, TypeOK
  <2> QED BY <2>1, <2>2, <2>3, TypeIs DEF TypeOK, At
<1>2. ASSUME NEW i \in Inputs, AdmitAgain(i)
      PROVE  TypeOK'
  BY <1>2, TypeIs DEF AdmitAgain, TypeOK, At
<1>3. ASSUME NEW i \in Inputs, DeleteInput(i)
      PROVE  TypeOK'
  BY <1>3, TypeIs DEF DeleteInput, TypeOK, At
<1>4. ASSUME NEW i \in Inputs, WatcherWakes(i) \/ WatcherGivesUp(i)
      PROVE  TypeOK'
  <2>1. watch' \in [Inputs -> {"none", "polling", "woken"}]
    BY <1>4 DEF WatcherWakes, WatcherGivesUp, TypeOK
  <2>2. UNCHANGED <<durable, draining, cancel, turn, admitting, run, counters>>
    BY <1>4 DEF WatcherWakes, WatcherGivesUp
  <2> QED BY <2>1, <2>2, TypeIs DEF TypeOK, At
<1>5. ASSUME NEW i \in Inputs, WatcherDecides(i)
      PROVE  TypeOK'
  <2>1. watch' \in [Inputs -> {"none", "polling", "woken"}]
    BY <1>5 DEF WatcherDecides, TypeOK
  <2>2. UNCHANGED <<durable, cancel, turn, admitting, counters>>
        /\ (BeginDrain \/ UNCHANGED <<draining, run>>)
    BY <1>5 DEF WatcherDecides
  <2>3. run' \in Run /\ draining' \in BOOLEAN /\ (draining' <=> run'.pc # "idle")
    <3>1. CASE BeginDrain
      BY <3>1, BeginTyped
    <3>2. CASE UNCHANGED <<draining, run>>
      BY <3>2 DEF TypeOK, At
    <3> QED BY <2>2, <3>1, <3>2
  <2> QED BY <2>1, <2>2, <2>3, TypeIs DEF TypeOK
<1>6. CASE AdmitDrive
  <2>1. admitting \in Inputs \X BOOLEAN
    BY <1>6 DEF AdmitDrive, TypeOK
  <2>2. admitting[1] \in Inputs /\ admitting[2] \in BOOLEAN
    BY <2>1
  <2>3. UNCHANGED <<durable, cancel, counters>> /\ admitting' = None
    BY <1>6 DEF AdmitDrive
  <2>4. CASE BeginDrain /\ UNCHANGED <<turn, watch>>
    BY <2>3, <2>4, BeginTyped, TypeIs DEF TypeOK
  <2>5. CASE /\ watch' = [watch EXCEPT ![admitting[1]] = "polling"] /\ UNCHANGED <<draining, run>>
             /\ turn' = (turn \/ (admitting[2] /\ admitting[1] \in Steers))
    <3>1. turn' \in BOOLEAN
      BY <2>5, Zenon
    <3>2. watch' \in [Inputs -> {"none", "polling", "woken"}]
      BY <2>2, <2>5 DEF TypeOK
    <3> QED BY <2>3, <2>5, <3>1, <3>2, TypeIs DEF TypeOK, At
  <2> QED BY <1>6, <2>4, <2>5 DEF AdmitDrive
<1>7. CASE Interrupt
  BY <1>7, UpsetTyped, TypeIs DEF Interrupt, TypeOK, At
<1>8. CASE Crash
  <2>1. crashes' \in 0 .. Crashes
    BY <1>8, DrainAssumption DEF Crash, TypeOK
  <2>2. watch' \in [Inputs -> {"none", "polling", "woken"}] /\ admitting' = None
        /\ UNCHANGED <<durable, tools, upsets>> /\ run' = NoRun
        /\ draining' = FALSE /\ cancel' = FALSE /\ turn' = FALSE
    BY <1>8 DEF Crash
  <2> QED BY <2>1, <2>2, FreshTyped, TypeIs DEF TypeOK
<1> QED BY <1>1, <1>2, <1>3, <1>4, <1>5, <1>6, <1>7, <1>8

LEMMA ResetTyped ==
  ASSUME TypeOK, NEW S
  PROVE  Reset(S) \in [Inputs -> {"none", "pending", "promoted", "recorded", "deleted"}]
BY DEF TypeOK, Reset

(* The actions that apply, mark, claim and promote rows.                    *)
LEMMA RowsTyped ==
  ASSUME TypeOK, BatchHeld, AdmittedApart,
         \/ Entry \/ PromoteSteers \/ ApplySteer \/ ApplyFails \/ MarkSteer
         \/ ClaimQueued \/ ApplyQueued \/ MarkQueued
  PROVE  TypeOK'
<1> USE RunTyped DEF durable, handle, counters, At, Go, Pcs
<1>1. CASE Entry
  <2>1. run' \in Run /\ run'.pc = "top"
    BY <1>1 DEF Entry, Run
  <2> QED BY <1>1, <2>1, TypeIs, ResetTyped DEF Entry, TypeOK
<1>2. CASE PromoteSteers
  <2> DEFINE upTo == Max({adm[i] : i \in run.read})
             promoted == {i \in Pending(Steers) : adm[i] <= upTo}
             claimed == InOrder(promoted \cap run.read)
  <2> HIDE DEF upTo
  <2>1. promoted \cap run.read \in SUBSET Rows /\ Rows \subseteq Inputs
    BY DEF Rows, Pending, Inputs
  <2>2. claimed \in Seq(Inputs)
    <3>1. claimed \in Seq(promoted \cap run.read)
      BY <2>1, InOrderLists
    <3>2. promoted \cap run.read \subseteq Inputs
      BY <2>1
    <3> HIDE DEF claimed, promoted
    <3> QED BY <3>1, <3>2
  <2>3. /\ mark' = [i \in Inputs |-> IF i \in promoted THEN "promoted" ELSE mark[i]]
        /\ run' = IF claimed = <<>> THEN [WithoutSteers EXCEPT !.read = {}]
                  ELSE [run EXCEPT !.pc = "steer", !.batch = claimed, !.read = {},
                                   !.recorded = FALSE, !.streak = 0]
        /\ run.pc = "promote" /\ UNCHANGED <<adm, effects, owed, handle, counters>>
    BY <1>2 DEF PromoteSteers, upTo
  <2> HIDE DEF claimed, promoted
  <2>4. run' \in Run /\ run'.pc # "idle"
    <3>1. CASE run' = [WithoutSteers EXCEPT !.read = {}]
      <4>1. WithoutSteers \in Run /\ [WithoutSteers EXCEPT !.read = {}] \in Run /\ WithoutSteers.pc # "idle"
        BY WithoutTyped
      <4>2. [WithoutSteers EXCEPT !.read = {}].pc = WithoutSteers.pc
        BY <4>1 DEF Run
      <4> QED BY <3>1, <4>1, <4>2
    <3>2. CASE run' = [run EXCEPT !.pc = "steer", !.batch = claimed, !.read = {},
                                  !.recorded = FALSE, !.streak = 0]
      BY <2>2, <3>2 DEF Run
    <3> QED BY <2>3, <3>1, <3>2
  <2>5. mark' \in [Inputs -> {"none", "pending", "promoted", "recorded", "deleted"}]
    BY <2>3 DEF TypeOK
  <2> QED BY <2>3, <2>4, <2>5, TypeIs DEF TypeOK
<1>3. CASE ApplySteer \/ ApplyQueued \/ ApplyFails
  <2>1. run.batch # <<>> /\ run.pc # "idle"
    BY <1>3 DEF ApplySteer, ApplyQueued, ApplyFails, BatchHeld, Applying
  <2>2. Head(run.batch) \in Inputs
    BY <2>1
  <2>3. effects' \in Seq(Inputs) /\ owed' \in BOOLEAN
    <3>1. CASE UNCHANGED <<effects, owed>>
      BY <3>1 DEF TypeOK
    <3>2. CASE Take(Head(run.batch))
      <4>1. effects' \in Seq(Inputs)
        BY <2>2, <3>2 DEF Take, TypeOK
      <4>2. owed' \in BOOLEAN
        BY <3>2, Zenon DEF Take
      <4> QED BY <4>1, <4>2
    <3> QED BY <1>3, <3>1, <3>2 DEF ApplySteer, ApplyQueued, ApplyFails, PutBack
  <2>4. mark' \in [Inputs -> {"none", "pending", "promoted", "recorded", "deleted"}]
    BY <1>3, ResetTyped DEF ApplySteer, ApplyQueued, ApplyFails, PutBack, TypeOK
  <2>5. run' \in Run /\ run'.pc # "idle"
    <3>1. CASE End("cancel") \/ End("error")
      BY <3>1, EndTyped
    <3>2. CASE NothingPopped
      BY <3>2, NothingTyped
    <3>3. CASE run' = [run EXCEPT !.pc = "marks", !.recorded = @ \/ Head(run.batch) \notin Commands]
      <4>1. (run.recorded \/ Head(run.batch) \notin Commands) \in BOOLEAN
        OBVIOUS
      <4> QED BY <3>3, <4>1 DEF Run
    <3>4. CASE run' = [run EXCEPT !.pc = "qmark"]
      BY <3>4 DEF Run
    <3> QED BY <1>3, <3>1, <3>2, <3>3, <3>4 DEF ApplySteer, ApplyQueued, ApplyFails
  <2>6. upsets' \in 0 .. Upsets /\ UNCHANGED <<tools, crashes>>
    BY <1>3, UpsetTyped DEF ApplySteer, ApplyQueued, ApplyFails, TypeOK
  <2>7. UNCHANGED <<adm, handle>>
    BY <1>3 DEF ApplySteer, ApplyQueued, ApplyFails
  <2> QED BY <2>1, <2>3, <2>4, <2>5, <2>6, <2>7, TypeIs DEF TypeOK
<1>4. CASE MarkSteer \/ MarkQueued
  <2>1. run.batch # <<>> /\ run.pc # "idle"
    BY <1>4 DEF MarkSteer, MarkQueued, BatchHeld, Marking
  <2>2. mark' \in [Inputs -> {"none", "pending", "promoted", "recorded", "deleted"}]
    BY <1>4 DEF MarkSteer, MarkQueued, MarkHead, TypeOK
  <2>3. run' \in Run /\ run'.pc # "idle"
    <3>1. CASE End("command")
      BY <3>1, EndTyped
    <3>2. CASE ConsumeNext
      BY <3>2, ConsumeTyped
    <3>3. CASE Top(Head(run.batch) \in Commands)
      <4>1. (Head(run.batch) \in Commands) \in BOOLEAN
        OBVIOUS
      <4> QED BY <3>3, <4>1, TopTyped
    <3>4. CASE run' = [run EXCEPT !.pc = "steer", !.batch = Tail(@)]
      BY <2>1, <3>4 DEF Run
    <3>5. CASE run' = [run EXCEPT !.pc = "llm", !.batch = <<>>]
      BY <3>5 DEF Run
    <3>6. CASE run' = [run EXCEPT !.pc = "llm", !.drain = FALSE, !.streak = 0, !.batch = <<>>]
      BY <3>6 DEF Run
    <3> QED BY <1>4, <3>1, <3>2, <3>3, <3>4, <3>5, <3>6 DEF MarkSteer, MarkQueued
  <2>4. UNCHANGED <<adm, effects, owed, handle, counters>>
    BY <1>4 DEF MarkSteer, MarkQueued
  <2> QED BY <2>1, <2>2, <2>3, <2>4, TypeIs DEF TypeOK
<1>5. CASE ClaimQueued
  <2>1. UNCHANGED <<adm, effects, owed, handle, counters>> /\ run.pc # "idle"
    BY <1>5 DEF ClaimQueued
  <2>2. CASE NothingPopped /\ mark' = mark
    BY <2>1, <2>2, NothingTyped, TypeIs DEF TypeOK
  <2>3. CASE Pending(Queues) # {}
    <3>1. PICK i : i = Head(InOrder(Pending(Queues)))
      OBVIOUS
    <3>2. mark' = [mark EXCEPT ![i] = "promoted"] /\ run' = [run EXCEPT !.pc = "guard", !.batch = <<i>>]
      BY <1>5, <2>3, <3>1 DEF ClaimQueued
    <3>3. i \in Inputs
      <4>1. Pending(Queues) \in SUBSET Rows /\ Pending(Queues) \subseteq Inputs
        BY DEF Pending, Rows, Inputs
      <4>2. InOrder(Pending(Queues)) \in Seq(Inputs) /\ InOrder(Pending(Queues)) # <<>>
        BY <2>3, <4>1, InOrderLists
      <4> QED BY <3>1, <4>2
    <3>4. run' \in Run /\ run'.pc = "guard"
      <4>1. <<i>> \in Seq(Inputs)
        BY <3>3
      <4> QED BY <3>2, <4>1 DEF Run
    <3> QED BY <2>1, <3>2, <3>3, <3>4, TypeIs DEF TypeOK
  <2> QED BY <1>5, <2>2, <2>3 DEF ClaimQueued
<1> QED BY <1>1, <1>2, <1>3, <1>4, <1>5

(* The actions that leave the rows alone.                                   *)
LEMMA TurnsTyped ==
  ASSUME TypeOK,
         \/ FreshTokens \/ ResumeFails \/ LoopTop \/ ReadSteers \/ ClaimFails \/ PeekSteers \/ PeekQueues
         \/ TurnFails \/ TurnInterrupted \/ TurnCancelled \/ Answer \/ CallTools \/ ToolsDone
         \/ IdleBoundary \/ Reabsorb \/ Teardown
  PROVE  TypeOK'
<1> USE RunTyped DEF durable, handle, counters, At, Go, Pcs
<1>1. CASE FreshTokens \/ IdleBoundary
  <2>1. run' \in Run /\ run'.pc # "idle"
    BY <1>1 DEF FreshTokens, IdleBoundary, Run
  <2> QED BY <1>1, <2>1, TypeIs DEF FreshTokens, IdleBoundary, TypeOK
<1>2. CASE ResumeFails
  <2>1. run' \in Run /\ run'.pc = "idle"
    BY <1>2 DEF ResumeFails, Run
  <2> QED BY <1>2, <2>1, UpsetTyped, TypeIs DEF ResumeFails, TypeOK
<1>3. CASE LoopTop
  <2>1. run' \in Run /\ run'.pc # "idle"
    BY <1>3, EndTyped DEF LoopTop, Run
  <2> QED BY <1>3, <2>1, TypeIs DEF LoopTop, TypeOK
<1>4. CASE ReadSteers
  <2>1. [run EXCEPT !.pc = "promote", !.read = Pending(Steers)] \in Run
    BY DEF Run, Pending
  <2>2. run' \in Run /\ run'.pc # "idle"
    <3>1. CASE run' = WithoutSteers
      BY <3>1, WithoutTyped
    <3>2. CASE run' = [run EXCEPT !.pc = "promote", !.read = Pending(Steers)]
      BY <2>1, <3>2
    <3> QED BY <1>4, <3>1, <3>2 DEF ReadSteers
  <2> QED BY <1>4, <2>2, TypeIs DEF ReadSteers, TypeOK
<1>5. CASE ClaimFails
  <2>1. run' \in Run /\ run'.pc # "idle"
    BY <1>5, NothingTyped DEF ClaimFails
  <2> QED BY <1>5, <2>1, UpsetTyped, TypeIs DEF ClaimFails, TypeOK
<1>6. CASE PeekSteers
  <2>1. run' \in Run /\ run'.pc # "idle"
    BY <1>6, ConsumeTyped, TopTyped, ZenonT(40) DEF PeekSteers, Run
  <2> QED BY <1>6, <2>1, TypeIs DEF PeekSteers, TypeOK
<1>7. CASE PeekQueues
  <2>1. run' \in Run /\ run'.pc # "idle"
    BY <1>7, ConsumeTyped, StopTyped, ZenonT(40) DEF PeekQueues, Run
  <2> QED BY <1>7, <2>1, TypeIs DEF PeekQueues, TypeOK
<1>8. CASE TurnFails
  <2>1. run' \in Run /\ run'.pc # "idle"
    BY <1>8, EndTyped DEF TurnFails
  <2> QED BY <1>8, <2>1, UpsetTyped, TypeIs DEF TurnFails, TypeOK
<1>9. CASE TurnInterrupted \/ TurnCancelled \/ ToolsDone
  <2>1. run' \in Run /\ run'.pc # "idle" /\ run.pc # "idle"
    BY <1>9, EndTyped, TopTyped DEF TurnInterrupted, TurnCancelled, ToolsDone
  <2> QED BY <1>9, <2>1, TypeIs DEF TurnInterrupted, TurnCancelled, ToolsDone, TypeOK
<1>10. CASE Answer \/ CallTools
  <2>1. run' \in Run /\ run'.pc # "idle" /\ run.pc # "idle"
    BY <1>10 DEF Answer, CallTools, Run
  <2>2. tools' \in 0 .. ToolTurns /\ UNCHANGED <<upsets, crashes>>
    BY <1>10, DrainAssumption DEF Answer, CallTools, TypeOK
  <2> QED BY <1>10, <2>1, <2>2, TypeIs DEF Answer, CallTools, TypeOK
<1>11. CASE Reabsorb
  <2>1. CASE run' = [run EXCEPT !.pc = "teardown"]
    BY <1>11, <2>1, TypeIs DEF Reabsorb, TypeOK, Run
  <2>2. CASE /\ run.rechecks < MaxRechecks
             /\ run' = [NoRun EXCEPT !.pc = "top", !.drain = TRUE, !.rechecks = run.rechecks + 1]
    <3>1. run.rechecks + 1 \in 0 .. MaxRechecks
      BY <2>2, DrainAssumption
    <3>2. run' \in Run /\ run'.pc = "top"
      <4>1. NoRun \in Run /\ TRUE \in BOOLEAN /\ "top" \in Pcs
        BY FreshTyped
      <4> HIDE DEF Pcs
      <4>2. \A k \in 0 .. MaxRechecks :
              [NoRun EXCEPT !.pc = "top", !.drain = TRUE, !.rechecks = k] \in Run
        BY <4>1 DEF Run
      <4>3. run' \in Run
        BY <2>2, <3>1, <4>2
      <4> QED BY <2>2, <4>1, <4>3 DEF Run
    <3> QED BY <1>11, <3>2, TypeIs DEF Reabsorb, TypeOK
  <2> QED BY <1>11, <2>1, <2>2 DEF Reabsorb
<1>12. CASE Teardown
  <2>1. run' \in Run /\ run'.pc = "idle"
    BY <1>12 DEF Teardown, Run
  <2> QED BY <1>12, <2>1, TypeIs DEF Teardown, TypeOK
<1> QED BY <1>1, <1>2, <1>3, <1>4, <1>5, <1>6, <1>7, <1>8, <1>9, <1>10, <1>11, <1>12

(***************************************************************************)
(* What a step does to the rows, by what it takes in hand or gives back.   *)
(***************************************************************************)
EmptyHanded ==
  run.batch = <<>> /\ run.read = {} /\ run.pc \notin Applying \cup Marking \cup {"promote"}

LEMMA HandsEmpty ==
  ASSUME BatchHeld, run.pc \notin Applying \cup Marking \cup {"promote"}
  PROVE  EmptyHanded
BY DEF BatchHeld, EmptyHanded

LEMMA EmptyIsHeld ==
  ASSUME EmptyHanded'
  PROVE  BatchHeld'
BY DEF BatchHeld, EmptyHanded, Applying, Marking, ToSet

LEMMA TimesAre ==
  ASSUME NEW e \in Seq(Inputs), NEW x \in Inputs, NEW i \in Inputs
  PROVE  /\ Cardinality({n \in DOMAIN e : e[n] = i}) \in Nat
         /\ Cardinality({n \in DOMAIN Append(e, x) : Append(e, x)[n] = i})
              = Cardinality({n \in DOMAIN e : e[n] = i}) + (IF i = x THEN 1 ELSE 0)
         /\ ToSet(Append(e, x)) = ToSet(e) \cup {x}
<1> DEFINE A == {n \in DOMAIN e : e[n] = i}
           B == {n \in DOMAIN Append(e, x) : Append(e, x)[n] = i}
<1>1. /\ Len(e) \in Nat /\ DOMAIN e = 1 .. Len(e) /\ DOMAIN Append(e, x) = 1 .. (Len(e) + 1)
      /\ \A n \in 1 .. Len(e) : Append(e, x)[n] = e[n]
      /\ Append(e, x)[Len(e) + 1] = x
  OBVIOUS
<1>2. IsFiniteSet(A)
  <2>1. A \subseteq 1 .. Len(e) /\ IsFiniteSet(1 .. Len(e))
    BY <1>1, FS_Interval
  <2> QED BY <2>1, FS_Subset
<1>3. Cardinality(A) \in Nat
  BY <1>2, FS_CardinalityType
<1>4. ASSUME i = x
      PROVE  Cardinality(B) = Cardinality(A) + (IF i = x THEN 1 ELSE 0)
  <2>1. B = A \cup {Len(e) + 1} /\ Len(e) + 1 \notin A
    BY <1>1, <1>4
  <2>2. Cardinality(B) = Cardinality(A) + 1
    BY <1>2, <2>1, FS_AddElement
  <2>3. (IF i = x THEN 1 ELSE 0) = 1
    BY <1>4
  <2> HIDE DEF A, B
  <2>4. Cardinality(B) = Cardinality(A) + (IF i = x THEN 1 ELSE 0)
    BY <2>2, <2>3
  <2> QED BY <2>4
<1>5. ASSUME i # x
      PROVE  Cardinality(B) = Cardinality(A) + (IF i = x THEN 1 ELSE 0)
  <2>1. B = A
    BY <1>1, <1>5
  <2>2. (IF i = x THEN 1 ELSE 0) = 0
    BY <1>5
  <2> HIDE DEF A, B
  <2>3. Cardinality(B) = Cardinality(A) + (IF i = x THEN 1 ELSE 0)
    BY <1>3, <2>1, <2>2
  <2> QED BY <2>3
<1>6. ToSet(Append(e, x)) = ToSet(e) \cup {x}
  BY <1>1 DEF ToSet
<1>7. Cardinality(B) = Cardinality(A) + (IF i = x THEN 1 ELSE 0)
  BY <1>4, <1>5
<1> QED BY <1>3, <1>6, <1>7

(* The rows and the hand stay as they are.                                  *)
LEMMA NothingMoves ==
  ASSUME RowsSound, UNCHANGED <<mark, adm, effects, run, crashes>>
  PROVE  RowsSound'
BY DEF RowsSound, BatchHeld, AdmittedApart, Counted, InHand, Times, Rows, Pending,
       NoneLeft, LaterWaits, PromotedIsHeld, InAdmissionOrder

(* The run goes on with empty hands, or it ends and a crash counts.         *)
LEMMA HandsStayEmpty ==
  ASSUME TypeOK, RowsSound, UNCHANGED <<mark, adm, effects>>, EmptyHanded',
         run'.pc \in Loop => run.pc \in Loop /\ EmptyHanded,
         crashes' = crashes \/ crashes' = crashes + 1,
         crashes' = crashes => run.pc \notin Marking
  PROVE  RowsSound'
<1>1. BatchHeld' /\ AdmittedApart'
  BY EmptyIsHeld DEF RowsSound, AdmittedApart, Rows
<1>2. Counted'
  <2>1. \A i \in Inputs : Times(i) \in Nat /\ Times(i)' = Times(i)
    BY TimesAre DEF TypeOK, Times
  <2>2. \A i : ~InHand(i)'
    BY DEF EmptyHanded, InHand, Marking
  <2>3. crashes \in Nat /\ (run.pc \in Marking => crashes' = crashes + 1)
    BY DrainAssumption DEF TypeOK
  <2> QED BY <2>1, <2>2, <2>3 DEF RowsSound, Counted, InHand
<1>3. NoneLeft => NoneLeft'
  <2>1. ToSet(run'.batch) = {} /\ run'.read = {}
    BY DEF EmptyHanded, ToSet
  <2>2. run'.pc \in Loop => ToSet(run.batch) = {}
    BY DEF EmptyHanded, ToSet
  <2> QED BY <2>1, <2>2 DEF NoneLeft, LaterWaits, PromotedIsHeld, InAdmissionOrder, Pending, Rows, Loop
<1> QED BY <1>1, <1>2, <1>3 DEF RowsSound

(* Rows that are promoted and not marked become pending again.              *)
LEMMA ResetKeeps ==
  ASSUME TypeOK, RowsSound, NEW S, mark' = Reset(S), UNCHANGED <<adm, effects, crashes>>,
         run.pc \notin Marking, EmptyHanded',
         Deletes = 0 => \A i \in Inputs : mark[i] = "promoted" => i \in S
  PROVE  RowsSound'
<1>1. \A i \in Inputs : /\ mark'[i] = mark[i] \/ (mark[i] = "promoted" /\ mark'[i] = "pending")
                        /\ i \in S => mark'[i] # "promoted"
  BY DEF Reset
<1>2. Rows' = Rows
  BY <1>1 DEF Rows
<1>3. BatchHeld' /\ AdmittedApart'
  BY <1>2, EmptyIsHeld DEF RowsSound, AdmittedApart, Rows
<1>4. Counted'
  <2>1. \A i \in Inputs : Times(i)' = Times(i)
    BY DEF Times
  <2>2. \A i : ~InHand(i) /\ ~InHand(i)'
    BY DEF EmptyHanded, InHand
  <2>3. ToSet(effects) \subseteq Inputs
    BY DEF TypeOK, ToSet
  <2> QED BY <1>1, <2>1, <2>2, <2>3 DEF RowsSound, Counted
<1>5. ASSUME Deletes = 0, NoneLeft
      PROVE  NoneLeft'
  <2>1. ToSet(run'.batch) = {} /\ run'.read = {}
    BY DEF EmptyHanded, ToSet
  <2>2. \A i \in Inputs : mark'[i] # "promoted" /\ mark'[i] # "deleted"
    BY <1>1, <1>5 DEF NoneLeft, LaterWaits
  <2>3. InAdmissionOrder'
    <3>1. ToSet(effects) \subseteq Inputs /\ \A j \in Inputs : mark'[j] # "none" => mark[j] # "none"
      BY <1>1 DEF TypeOK, ToSet
    <3> QED BY <1>2, <1>5, <3>1 DEF NoneLeft, InAdmissionOrder
  <2> QED BY <2>1, <2>2, <2>3 DEF NoneLeft, LaterWaits, PromotedIsHeld
<1> QED BY <1>3, <1>4, <1>5 DEF RowsSound

(* Every pending steer is read.                                             *)
LEMMA ReadKeeps ==
  ASSUME TypeOK, RowsSound, UNCHANGED <<mark, adm, effects, crashes>>, run.pc = "steers",
         Pending(Steers) # {}, run'.pc = "promote", run'.batch = run.batch, run'.read = Pending(Steers)
  PROVE  RowsSound'
<1>1. EmptyHanded
  BY HandsEmpty DEF RowsSound, Applying, Marking
<1>2. BatchHeld' /\ AdmittedApart'
  <2>1. \A i \in Pending(Steers) : mark[i] = "pending"
    BY DEF Pending
  <2> QED BY <1>1, <2>1 DEF RowsSound, BatchHeld, EmptyHanded, AdmittedApart, Rows, Applying, Marking, ToSet
<1>3. Counted'
  BY DEF RowsSound, Counted, InHand, Times, Marking
<1>4. NoneLeft => NoneLeft'
  <2>1. ToSet(run'.batch) = {} /\ ToSet(run.batch) = {} /\ run.pc \in Loop
    BY <1>1 DEF EmptyHanded, ToSet, Loop, Pcs
  <2>2. Pending(Steers)' \ run'.read = {}
    BY DEF Pending
  <2> QED BY <2>1, <2>2 DEF NoneLeft, LaterWaits, PromotedIsHeld, InAdmissionOrder, Pending, Rows, Loop
<1> QED BY <1>2, <1>3, <1>4 DEF RowsSound

(* The head of the batch takes effect.                                      *)
LEMMA TakeKeeps ==
  ASSUME TypeOK, RowsSound, UNCHANGED <<mark, adm, crashes>>, effects' = Append(effects, Head(run.batch)),
         \/ run.pc = "steer" /\ run'.pc = "marks"
         \/ run.pc = "guard" /\ run'.pc = "qmark",
         run'.batch = run.batch, run'.read = run.read
  PROVE  RowsSound'
<1> DEFINE h == Head(run.batch)
<1>1. /\ run.batch # <<>> /\ h \in ToSet(run.batch) /\ h \in Inputs /\ mark[h] = "promoted"
      /\ run.read = {} /\ run.pc \notin Marking /\ run.pc \in Loop
  BY RunTyped DEF RowsSound, BatchHeld, Applying, Marking, Loop, Pcs
<1>2. BatchHeld' /\ AdmittedApart'
  BY <1>1 DEF RowsSound, BatchHeld, AdmittedApart, Rows, Applying, Marking
<1>3. ToSet(effects') = ToSet(effects) \cup {h}
  BY <1>1, TimesAre DEF TypeOK
<1>4. Counted'
  <2>1. \A i \in Inputs : Times(i)' = Times(i) + (IF i = h THEN 1 ELSE 0) /\ Times(i) \in Nat
    <3> TAKE i \in Inputs
    <3>1. effects \in Seq(Inputs) /\ effects' = Append(effects, h)
      BY DEF TypeOK
    <3>2. Times(i)' = Cardinality({n \in DOMAIN Append(effects, h) : Append(effects, h)[n] = i})
      BY <3>1 DEF Times
    <3> HIDE DEF h
    <3>3. h \in Inputs
      BY <1>1
    <3>4. /\ Cardinality({n \in DOMAIN effects : effects[n] = i}) \in Nat
          /\ Cardinality({n \in DOMAIN Append(effects, h) : Append(effects, h)[n] = i})
               = Cardinality({n \in DOMAIN effects : effects[n] = i}) + (IF i = h THEN 1 ELSE 0)
      BY <3>1, <3>3, TimesAre, Zenon
    <3> QED BY <3>2, <3>4, Zenon DEF Times
  <2>2. \A i : ~InHand(i) /\ (InHand(i)' <=> i = h)
    BY <1>1 DEF InHand, Marking
  <2>3. ASSUME NEW i \in Inputs
        PROVE  Times(i)' <= crashes + (IF mark[i] = "recorded" \/ InHand(i)' THEN 1 ELSE 0)
    <3>1. Times(i) <= crashes + (IF mark[i] = "recorded" THEN 1 ELSE 0) /\ crashes \in Nat
      BY <2>2, DrainAssumption DEF RowsSound, Counted, TypeOK
    <3>2. CASE i = h
      BY <1>1, <2>1, <2>2, <3>1, <3>2
    <3>3. CASE i # h
      BY <2>1, <2>2, <3>1, <3>3
    <3> QED BY <3>2, <3>3
  <2>4. \A i \in Inputs : mark[i] = "recorded" \/ InHand(i)' => i \in ToSet(effects')
    BY <1>3, <2>2 DEF RowsSound, Counted
  <2>5. \A i \in ToSet(effects') : mark[i] # "none"
    BY <1>1, <1>3 DEF RowsSound, Counted
  <2> QED BY <2>3, <2>4, <2>5 DEF Counted
<1>5. ASSUME Deletes = 0, NoneLeft
      PROVE  NoneLeft'
  <2>1. LaterWaits'
    BY <1>1, <1>5 DEF NoneLeft, LaterWaits, Pending
  <2>4. PromotedIsHeld'
    BY <1>1, <1>5 DEF NoneLeft, PromotedIsHeld, Loop
  <2>2. ASSUME NEW S \in {Steers, Queues}, NEW i \in S \cap Rows, NEW j \in S,
               j \in ToSet(effects'), mark[j] # "none", adm[i] < adm[j]
        PROVE  i \in ToSet(effects')
    <3>1. CASE j \in ToSet(effects)
      BY <1>3, <1>5, <2>2, <3>1 DEF NoneLeft, InAdmissionOrder
    <3>2. CASE j = h
      <4>1. i \in Inputs /\ mark[i] \in {"pending", "promoted", "recorded"} /\ {adm[i], adm[j]} \subseteq Nat
        BY DEF Rows, TypeOK, Inputs
      <4>2. CASE mark[i] = "pending"
        <5>1. i \in Pending(S) /\ j \in S \cap ToSet(run.batch)
          BY <1>1, <3>2, <4>2 DEF Pending
        <5>2. adm[j] < adm[i]
          BY <1>5, <5>1 DEF NoneLeft, LaterWaits
        <5> QED BY <2>2, <4>1, <5>2
      <4>3. CASE mark[i] = "promoted"
        <5>1. i \in ToSet(run.batch)
          BY <1>1, <1>5, <4>1, <4>3 DEF NoneLeft, PromotedIsHeld, Loop
        <5>2. PICK n \in DOMAIN run.batch : run.batch[n] = i
          BY <5>1 DEF ToSet
        <5>3. DOMAIN run.batch = 1 .. Len(run.batch) /\ Len(run.batch) \in Nat /\ h = run.batch[1]
          BY <1>1, RunTyped
        <5>4. n # 1 => adm[run.batch[1]] < adm[run.batch[n]]
          BY <5>3 DEF RowsSound, BatchHeld
        <5> QED BY <1>3, <2>2, <3>2, <4>1, <5>2, <5>3, <5>4
      <4>4. CASE mark[i] = "recorded"
        BY <1>3, <4>1, <4>4 DEF RowsSound, Counted
      <4> QED BY <4>1, <4>2, <4>3, <4>4
    <3> QED BY <1>3, <2>2, <3>1, <3>2
  <2>3. InAdmissionOrder'
    BY <2>2 DEF InAdmissionOrder, Rows
  <2> QED BY <2>1, <2>3, <2>4 DEF NoneLeft
<1> QED BY <1>2, <1>4, <1>5 DEF RowsSound

(* Marking moves no row in or out of the order.                             *)
LEMMA OrderStands ==
  ASSUME TypeOK, UNCHANGED <<adm, effects>>,
         \A i \in Inputs : \/ mark'[i] = mark[i]
                           \/ {mark[i], mark'[i]} \subseteq {"pending", "promoted", "recorded"}
  PROVE  Rows' = Rows /\ (AdmittedApart => AdmittedApart') /\ (InAdmissionOrder => InAdmissionOrder')
<1>1. \A i \in Inputs : /\ mark'[i] \in {"none", "deleted"} <=> mark[i] \in {"none", "deleted"}
                        /\ mark'[i] = "none" <=> mark[i] = "none"
  OBVIOUS
<1>2. Rows' = Rows
  BY <1>1 DEF Rows
<1>3. AdmittedApart => AdmittedApart'
  BY <1>2 DEF AdmittedApart
<1>4. InAdmissionOrder => InAdmissionOrder'
  <2>1. Steers \subseteq Inputs /\ Queues \subseteq Inputs
    BY DEF Inputs
  <2> QED BY <1>1, <1>2, <2>1 DEF InAdmissionOrder
<1> QED BY <1>2, <1>3, <1>4

(* The head of the batch is marked, and leaves the hand.                    *)
LEMMA MarkKeeps ==
  ASSUME TypeOK, RowsSound, MarkHead, UNCHANGED <<adm, effects, crashes>>, run.pc \in Marking,
         \/ EmptyHanded' /\ Len(run.batch) = 1
         \/ run.pc = "marks" /\ Len(run.batch) > 1 /\ run'.pc = "steer" /\ run'.batch = Tail(run.batch)
              /\ run'.read = run.read
  PROVE  RowsSound'
<1> DEFINE h == Head(run.batch)
<1>1. /\ run.batch \in Seq(Inputs) /\ run.batch # <<>> /\ h \in ToSet(run.batch) /\ h \in Inputs
      /\ mark[h] = "promoted" /\ run.read = {} /\ run.pc \in Loop
      /\ InHand(h) /\ h \in ToSet(effects)
  BY RunTyped DEF RowsSound, BatchHeld, Counted, InHand, Marking, Applying, Loop, Pcs
<1>2. \A i \in Inputs : mark'[i] = IF i = h THEN "recorded" ELSE mark[i]
  BY <1>1 DEF MarkHead, TypeOK
<1>3. Rows' = Rows /\ AdmittedApart' /\ (InAdmissionOrder => InAdmissionOrder')
  BY <1>1, <1>2, OrderStands DEF RowsSound
<1>4. /\ run'.read = {} /\ run'.pc \notin Marking
      /\ ToSet(run'.batch) = ToSet(run.batch) \ {h}
      /\ BatchHeld'
  <2>1. /\ Len(run.batch) \in Nat /\ DOMAIN run.batch = 1 .. Len(run.batch) /\ h = run.batch[1]
        /\ \A n \in DOMAIN run.batch : run.batch[n] \in Inputs
        /\ ToSet(run.batch) \subseteq Inputs
    BY <1>1 DEF ToSet
  <2>2. CASE EmptyHanded' /\ Len(run.batch) = 1
    <3>1. ToSet(run.batch) = {h} /\ ToSet(run'.batch) = {}
      BY <2>1, <2>2 DEF ToSet, EmptyHanded
    <3> QED BY <2>2, <3>1, EmptyIsHeld DEF EmptyHanded
  <2>3. CASE run.pc = "marks" /\ Len(run.batch) > 1 /\ run'.pc = "steer" /\ run'.batch = Tail(run.batch)
               /\ run'.read = run.read
    <3> DEFINE t == Tail(run.batch)
    <3>1. /\ t \in Seq(Inputs) /\ Len(t) = Len(run.batch) - 1 /\ DOMAIN t = 1 .. (Len(run.batch) - 1)
          /\ \A n \in 1 .. (Len(run.batch) - 1) : t[n] = run.batch[n + 1]
      BY <1>1, <2>1, <2>3
    <3>2. t # <<>>
      BY <2>1, <2>3, <3>1
    <3> HIDE DEF t
    <3>3. \A m, n \in DOMAIN run.batch : m < n => adm[run.batch[m]] < adm[run.batch[n]]
      BY DEF RowsSound, BatchHeld
    <3>4. ASSUME NEW n \in DOMAIN run.batch, n # 1
          PROVE  run.batch[n] # h
      <4>1. 1 \in DOMAIN run.batch /\ 1 < n
        BY <2>1, <2>3, <3>4
      <4>2. adm[run.batch[1]] < adm[run.batch[n]]
        BY <3>3, <4>1
      <4>3. adm[h] \in Nat
        BY <1>1 DEF TypeOK
      <4> QED BY <2>1, <4>2, <4>3
    <3>5. ToSet(t) = ToSet(run.batch) \ {h}
      <4>1. ASSUME NEW n \in DOMAIN t
            PROVE  t[n] \in ToSet(run.batch) /\ t[n] # h
        <5>1. n + 1 \in DOMAIN run.batch /\ n + 1 # 1 /\ t[n] = run.batch[n + 1]
          BY <2>1, <3>1
        <5> QED BY <3>4, <5>1 DEF ToSet
      <4>2. ASSUME NEW x \in ToSet(run.batch), x # h
            PROVE  x \in ToSet(t)
        <5>1. PICK n \in DOMAIN run.batch : run.batch[n] = x
          BY DEF ToSet
        <5>2. n - 1 \in DOMAIN t /\ t[n - 1] = run.batch[n]
          BY <2>1, <3>1, <4>2, <5>1
        <5> QED BY <5>1, <5>2 DEF ToSet
      <4> QED BY <4>1, <4>2 DEF ToSet
    <3>6. \A m, n \in DOMAIN t : m < n => adm[t[m]] < adm[t[n]]
      <4> SUFFICES ASSUME NEW m \in DOMAIN t, NEW n \in DOMAIN t, m < n
                   PROVE  adm[t[m]] < adm[t[n]]
        OBVIOUS
      <4>1. /\ m + 1 \in DOMAIN run.batch /\ n + 1 \in DOMAIN run.batch /\ m + 1 < n + 1
            /\ t[m] = run.batch[m + 1] /\ t[n] = run.batch[n + 1]
        BY <2>1, <3>1
      <4>2. adm[run.batch[m + 1]] < adm[run.batch[n + 1]]
        BY <3>3, <4>1
      <4> QED BY <4>1, <4>2
    <3>7. \A i \in ToSet(t) : i \in Steers /\ mark'[i] = "promoted"
      <4>1. ToSet(run.batch) \subseteq Steers /\ \A i \in ToSet(run.batch) : mark[i] = "promoted"
        BY <2>3 DEF RowsSound, BatchHeld
      <4> QED BY <1>2, <2>1, <3>5, <4>1
    <3>8. run'.batch = t
      BY <2>3 DEF t
    <3> QED BY <1>1, <2>3, <3>2, <3>5, <3>6, <3>7, <3>8 DEF BatchHeld, Applying, Marking
  <2> QED BY <2>2, <2>3
<1>5. Counted'
  <2>1. \A i \in Inputs : Times(i)' = Times(i)
    BY DEF Times
  <2>2. \A i : (InHand(i) <=> i = h) /\ ~InHand(i)'
    BY <1>4 DEF InHand
  <2>3. ToSet(effects) \subseteq Inputs
    BY DEF TypeOK, ToSet
  <2> QED BY <1>1, <1>2, <2>1, <2>2, <2>3 DEF RowsSound, Counted
<1>6. NoneLeft => NoneLeft'
  <2>1. \A S : Pending(S)' \subseteq Pending(S) \/ ~(S \subseteq Inputs)
    BY <1>2 DEF Pending
  <2>2. Steers \subseteq Inputs /\ Queues \subseteq Inputs
    BY DEF Inputs
  <2>3. LaterWaits => LaterWaits'
    <3>1. \A S \in {Steers, Queues} : Pending(S)' \subseteq Pending(S)
      BY <2>1, <2>2
    <3>2. (\A i \in Inputs : mark[i] # "deleted") => \A i \in Inputs : mark'[i] # "deleted"
      BY <1>2
    <3>3. run'.read = {} /\ ToSet(run'.batch) \subseteq ToSet(run.batch)
      BY <1>4
    <3> QED BY <3>1, <3>2, <3>3 DEF LaterWaits
  <2>4. PromotedIsHeld => PromotedIsHeld'
    BY <1>1, <1>2, <1>4 DEF PromotedIsHeld, Loop
  <2> QED BY <1>3, <2>3, <2>4 DEF NoneLeft
<1> QED BY <1>3, <1>4, <1>5, <1>6 DEF RowsSound

(* Everything up to the last steer read is promoted, and what was read is taken in hand. *)
LEMMA PromoteKeeps ==
  ASSUME TypeOK, RowsSound, PromoteSteers
  PROVE  RowsSound'
<1> DEFINE P == {adm[i] : i \in run.read}
           upTo == Max(P)
           promoted == {i \in Pending(Steers) : adm[i] <= upTo}
           claimed == InOrder(promoted \cap run.read)
<1>1. /\ run.pc = "promote" /\ UNCHANGED <<adm, effects, crashes>>
      /\ mark' = [i \in Inputs |-> IF i \in promoted THEN "promoted" ELSE mark[i]]
      /\ run' = IF claimed = <<>> THEN [WithoutSteers EXCEPT !.read = {}]
                ELSE [run EXCEPT !.pc = "steer", !.batch = claimed, !.read = {},
                                 !.recorded = FALSE, !.streak = 0]
  BY DEF PromoteSteers, At, counters
<1>2. /\ run.read # {} /\ run.read \subseteq Steers /\ run.batch = <<>> /\ ToSet(run.batch) = {}
      /\ run.pc \in Loop /\ run.pc \notin Marking /\ Steers \subseteq Inputs /\ Steers \cap Queues = {}
  BY <1>1, RunTyped, DrainAssumption
     DEF RowsSound, BatchHeld, Applying, Marking, Loop, Pcs, ToSet, Inputs
<1>3. (\A i \in run.read : adm[i] <= upTo) /\ (\E i \in run.read : upTo = adm[i])
  <2>1. IsFiniteSet(P) /\ P \in SUBSET Nat /\ P # {}
    <3>1. run.read \subseteq Inputs /\ IsFiniteSet(run.read)
      BY <1>2, DrainAssumption, FS_Subset
    <3> DEFINE f == [i \in run.read |-> adm[i]]
    <3>2. f \in Surjection(run.read, P)
      BY DEF Surjection
    <3>3. IsFiniteSet(P)
      BY <3>1, <3>2, FS_Surjection DEF ExistsSurjection
    <3> QED BY <1>2, <3>1, <3>3 DEF TypeOK
  <2>2. upTo \in P /\ \A y \in P : y <= upTo
    BY <2>1, MaxIsGreatest
  <2> HIDE DEF upTo
  <2> QED BY <2>2
<1> HIDE DEF upTo
<1>4. /\ promoted \subseteq Inputs /\ promoted \subseteq Steers
      /\ \A i \in promoted : mark[i] = "pending"
      /\ \A i \in Inputs : mark'[i] = IF i \in promoted THEN "promoted" ELSE mark[i]
  BY <1>1, <1>2 DEF Pending
<1>5. Rows' = Rows /\ AdmittedApart' /\ (InAdmissionOrder => InAdmissionOrder')
  <2>1. \A i \in Inputs : \/ mark'[i] = mark[i]
                          \/ {mark[i], mark'[i]} \subseteq {"pending", "promoted", "recorded"}
    BY <1>4
  <2> QED BY <1>1, <2>1, OrderStands DEF RowsSound
<1>6. /\ claimed = <<>> <=> promoted \cap run.read = {}
      /\ Lists(claimed, promoted \cap run.read)
  <2>1. promoted \cap run.read \in SUBSET Rows
    BY <1>4 DEF Rows
  <2> HIDE DEF promoted
  <2> QED BY <2>1, InOrderLists DEF RowsSound
<1> HIDE DEF claimed
<1>7. /\ run'.read = {} /\ run'.pc \notin Marking /\ ToSet(run'.batch) = promoted \cap run.read
      /\ BatchHeld'
  <2>1. CASE claimed = <<>>
    <3>1. /\ WithoutSteers \in Run /\ WithoutSteers.pc \in {"claim", "llm"}
          /\ WithoutSteers.batch = run.batch
      BY WithoutTyped
    <3>2. EmptyHanded'
      BY <1>1, <1>2, <2>1, <3>1 DEF EmptyHanded, Applying, Marking, Run
    <3>3. ToSet(run'.batch) = {}
      BY <3>2 DEF EmptyHanded, ToSet
    <3> QED BY <1>6, <2>1, <3>2, <3>3, EmptyIsHeld DEF EmptyHanded
  <2>2. CASE claimed # <<>>
    <3>1. run'.pc = "steer" /\ run'.batch = claimed /\ run'.read = {}
      BY <1>1, <2>2, RunTyped DEF Run
    <3>2. ToSet(claimed) = promoted \cap run.read
          /\ \A m, n \in DOMAIN claimed : m < n => adm'[claimed[m]] < adm'[claimed[n]]
      BY <1>1, <1>6 DEF Lists
    <3>3. \A i \in ToSet(claimed) : i \in Steers /\ mark'[i] = "promoted"
      BY <1>4, <3>2
    <3> HIDE DEF promoted
    <3> QED BY <2>2, <3>1, <3>2, <3>3 DEF BatchHeld, Applying, Marking
  <2> QED BY <2>1, <2>2
<1>8. Counted'
  <2>1. \A i \in Inputs : Times(i)' = Times(i)
    BY <1>1 DEF Times
  <2>2. \A i : ~InHand(i) /\ ~InHand(i)'
    BY <1>2, <1>7 DEF InHand
  <2>3. ToSet(effects) \subseteq Inputs
    BY DEF TypeOK, ToSet
  <2> HIDE DEF promoted
  <2> QED BY <1>1, <1>4, <2>1, <2>2, <2>3 DEF RowsSound, Counted
<1>9. ASSUME Deletes = 0, NoneLeft
       PROVE  NoneLeft'
  <2>1. run.read \subseteq Pending(Steers)
    BY <1>2, <1>9 DEF NoneLeft, LaterWaits, RowsSound, BatchHeld, Pending
  <2>2. promoted = run.read
    <3>1. run.read \subseteq promoted
      BY <1>3, <2>1
    <3>2. ASSUME NEW i \in promoted, i \notin run.read
          PROVE  FALSE
      <4>1. PICK j \in run.read : upTo = adm[j]
        BY <1>3
      <4>2. adm[j] < adm[i] /\ adm[i] <= adm[j]
        BY <1>9, <3>2, <4>1 DEF NoneLeft, LaterWaits
      <4>3. adm[i] \in Nat /\ adm[j] \in Nat
        BY <1>2, <1>4, <3>2 DEF TypeOK
      <4> QED BY <4>2, <4>3
    <3> QED BY <3>1, <3>2
  <2> HIDE DEF promoted
  <2>3. ToSet(run'.batch) = run.read
    BY <1>7, <2>2
  <2>4. Pending(Steers)' = Pending(Steers) \ run.read
    BY <1>2, <1>4, <2>2 DEF Pending
  <2>5. PromotedIsHeld'
    BY <1>2, <1>4, <1>9, <2>2, <2>3 DEF NoneLeft, PromotedIsHeld, Loop
  <2>6. LaterWaits'
    <3>1. \A i \in Pending(Steers)', j \in ToSet(run'.batch) : adm'[j] < adm'[i]
      BY <1>1, <1>9, <2>3, <2>4 DEF NoneLeft, LaterWaits
    <3>2. Queues \cap ToSet(run'.batch) = {}
      BY <1>2, <2>3
    <3>3. \A i \in Inputs : mark'[i] # "deleted"
      BY <1>4, <1>9 DEF NoneLeft, LaterWaits
    <3> QED BY <1>7, <3>1, <3>2, <3>3 DEF LaterWaits
  <2> QED BY <1>5, <1>9, <2>5, <2>6 DEF NoneLeft
<1> QED BY <1>5, <1>7, <1>8, <1>9 DEF RowsSound

(* The oldest waiting follow-up is taken in hand.                           *)
LEMMA ClaimKeeps ==
  ASSUME TypeOK, RowsSound, ClaimQueued, Pending(Queues) # {}
  PROVE  RowsSound'
<1> DEFINE rows == InOrder(Pending(Queues))
           h == Head(rows)
<1>1. /\ run.pc = "claim" /\ UNCHANGED <<adm, effects, crashes>> /\ mark' = [mark EXCEPT ![h] = "promoted"]
      /\ run' = [run EXCEPT !.pc = "guard", !.batch = <<h>>]
  BY DEF ClaimQueued, At, counters
<1>2. EmptyHanded /\ run.pc \in Loop /\ ToSet(run.batch) = {}
  BY <1>1, HandsEmpty DEF RowsSound, Applying, Marking, Loop, Pcs, EmptyHanded, ToSet
<1>3. /\ Pending(Queues) \in SUBSET Rows /\ Queues \subseteq Inputs
      /\ rows \in Seq(Pending(Queues)) /\ rows # <<>> /\ Lists(rows, Pending(Queues))
  <2>1. Pending(Queues) \in SUBSET Rows /\ Queues \subseteq Inputs
    BY DEF Pending, Rows, Inputs
  <2> QED BY <2>1, InOrderLists DEF RowsSound
<1>4. /\ h \in Pending(Queues) /\ h \in Queues /\ h \in Inputs /\ mark[h] = "pending"
      /\ \A i \in Pending(Queues) \ {h} : adm[h] < adm[i]
  <2>1. /\ 1 \in DOMAIN rows /\ h = rows[1] /\ Len(rows) \in Nat /\ DOMAIN rows = 1 .. Len(rows)
        /\ h \in Pending(Queues)
    <3> HIDE DEF rows
    <3> QED BY <1>3
  <2>2. ASSUME NEW i \in Pending(Queues), i # h
        PROVE  adm[h] < adm[i]
    <3>1. PICK n \in DOMAIN rows : rows[n] = i
      BY <1>3 DEF Lists, ToSet
    <3>2. 1 < n
      BY <2>1, <2>2, <3>1
    <3> QED BY <1>3, <2>1, <3>1, <3>2 DEF Lists
  <2> QED BY <1>3, <2>1, <2>2 DEF Pending
<1> HIDE DEF h, rows
<1>5. /\ \A i \in Inputs : mark'[i] = IF i = h THEN "promoted" ELSE mark[i]
      /\ run'.pc = "guard" /\ run'.read = {} /\ run'.batch = <<h>> /\ ToSet(run'.batch) = {h}
  <2>1. run'.pc = "guard" /\ run'.read = run.read /\ run'.batch = <<h>>
    BY <1>1, RunTyped DEF Run
  <2>2. \A i \in Inputs : mark'[i] = IF i = h THEN "promoted" ELSE mark[i]
    BY <1>1, <1>4 DEF TypeOK
  <2>3. ToSet(<<h>>) = {h}
    BY DEF ToSet
  <2> QED BY <1>2, <2>1, <2>2, <2>3 DEF EmptyHanded
<1>6. Rows' = Rows /\ AdmittedApart' /\ (InAdmissionOrder => InAdmissionOrder')
  <2>1. \A i \in Inputs : \/ mark'[i] = mark[i]
                          \/ {mark[i], mark'[i]} \subseteq {"pending", "promoted", "recorded"}
    BY <1>4, <1>5
  <2> QED BY <1>1, <2>1, OrderStands DEF RowsSound
<1>7. BatchHeld'
  <2>1. Len(<<h>>) = 1 /\ <<h>> # <<>> /\ DOMAIN <<h>> = {1}
    OBVIOUS
  <2> QED BY <1>4, <1>5, <2>1 DEF BatchHeld, Applying, Marking
<1>8. Counted'
  <2>1. \A i \in Inputs : Times(i)' = Times(i)
    BY <1>1 DEF Times
  <2>2. \A i : ~InHand(i) /\ ~InHand(i)'
    BY <1>1, <1>5 DEF InHand, Marking
  <2>3. ToSet(effects) \subseteq Inputs
    BY DEF TypeOK, ToSet
  <2> QED BY <1>1, <1>4, <1>5, <2>1, <2>2, <2>3 DEF RowsSound, Counted
<1>9. NoneLeft => NoneLeft'
  <2>1. PromotedIsHeld => PromotedIsHeld'
    BY <1>2, <1>5 DEF PromotedIsHeld, Loop
  <2>2. LaterWaits => LaterWaits'
    <3>1. Pending(Queues)' = Pending(Queues) \ {h}
      BY <1>3, <1>5 DEF Pending
    <3>2. Steers \cap {h} = {}
      BY <1>4, DrainAssumption
    <3>3. (\A i \in Inputs : mark[i] # "deleted") => \A i \in Inputs : mark'[i] # "deleted"
      BY <1>5
    <3> QED BY <1>1, <1>4, <1>5, <3>1, <3>2, <3>3 DEF LaterWaits
  <2> QED BY <1>6, <2>1, <2>2 DEF NoneLeft
<1> QED BY <1>6, <1>7, <1>8, <1>9 DEF RowsSound

(* A new row comes last.                                                    *)
LEMMA AdmitKeeps ==
  ASSUME TypeOK, RowsSound, NEW i \in Inputs, AdmitRow(i)
  PROVE  RowsSound'
<1>1. /\ mark[i] = "none" /\ UNCHANGED <<effects, run, crashes>>
      /\ \A j \in Inputs : mark'[j] = IF j = i THEN "pending" ELSE mark[j]
      /\ \A j \in Inputs : adm'[j] = IF j = i THEN NextAdmittedSeq ELSE adm[j]
  BY DEF AdmitRow, TypeOK, counters
<1>2. /\ NextAdmittedSeq \in Nat /\ \A j \in Rows : adm[j] < NextAdmittedSeq
      /\ \A j \in Inputs : adm[j] \in Nat
  BY NextIsLater DEF TypeOK
<1>3. Rows' = Rows \cup {i} /\ i \notin Rows /\ Rows \subseteq Inputs
  BY <1>1 DEF Rows
<1>4. /\ ToSet(run.batch) \subseteq Rows /\ i \notin ToSet(run.batch) /\ i \notin run.read
      /\ run.read \subseteq Steers /\ Steers \subseteq Inputs /\ Queues \subseteq Inputs
      /\ ToSet(effects) \subseteq Inputs /\ i \notin ToSet(effects)
  <2>1. ToSet(run.batch) \subseteq Inputs /\ run.read \subseteq Steers
    BY RunTyped
  <2>2. \A j \in ToSet(run.batch) : mark[j] = "promoted"
    BY DEF RowsSound, BatchHeld
  <2>3. \A j \in run.read : mark[j] \in {"pending", "deleted"}
    BY DEF RowsSound, BatchHeld
  <2>4. ToSet(effects) \subseteq Inputs /\ \A j \in ToSet(effects) : mark[j] # "none"
    BY DEF TypeOK, ToSet, RowsSound, Counted
  <2> QED BY <1>1, <2>1, <2>2, <2>3, <2>4 DEF Rows, Inputs
<1>5. AdmittedApart'
  BY <1>1, <1>2, <1>3 DEF RowsSound, AdmittedApart
<1>6. BatchHeld'
  <2>1. \A n \in DOMAIN run.batch : run.batch[n] \in ToSet(run.batch)
    BY DEF ToSet
  <2>2. \A n \in DOMAIN run.batch : run.batch[n] # i /\ run.batch[n] \in Inputs
    BY <1>3, <1>4, <2>1
  <2>3. \A m, n \in DOMAIN run.batch : m < n => adm'[run.batch[m]] < adm'[run.batch[n]]
    BY <1>1, <2>2 DEF RowsSound, BatchHeld
  <2>4. \A j \in ToSet(run.batch) : mark'[j] = "promoted"
    BY <1>1, <1>3, <1>4 DEF RowsSound, BatchHeld
  <2>5. \A j \in run.read : mark'[j] \in {"pending", "deleted"}
    BY <1>1, <1>4 DEF RowsSound, BatchHeld
  <2> QED BY <1>1, <2>3, <2>4, <2>5 DEF RowsSound, BatchHeld
<1>7. Counted'
  <2>1. \A j \in Inputs : Times(j)' = Times(j)
    BY <1>1 DEF Times
  <2>2. \A j : InHand(j)' <=> InHand(j)
    BY <1>1 DEF InHand
  <2>3. \A j \in Inputs : mark'[j] = "recorded" <=> mark[j] = "recorded"
    BY <1>1
  <2> QED BY <1>1, <1>4, <2>1, <2>2, <2>3 DEF RowsSound, Counted
<1>8. NoneLeft => NoneLeft'
  <2>1. PromotedIsHeld => PromotedIsHeld'
    BY <1>1 DEF PromotedIsHeld
  <2>2. ASSUME LaterWaits
        PROVE  LaterWaits'
    <3>1. \A S \in SUBSET Inputs : Pending(S)' = Pending(S) \cup (S \cap {i})
      BY <1>1 DEF Pending
    <3>2. \A j \in Inputs : mark[j] # "deleted" /\ mark'[j] # "deleted"
      BY <1>1, <2>2 DEF LaterWaits
    <3>3. run.read \subseteq Rows
      <4>1. \A j \in run.read : mark[j] \in {"pending", "deleted"}
        BY DEF RowsSound, BatchHeld
      <4> QED BY <1>4, <3>2, <4>1 DEF Rows
    <3>4. ASSUME NEW T \in SUBSET Rows, i \notin T
          PROVE  \A j \in T : adm'[j] = adm[j] /\ adm'[j] < adm'[i]
      BY <1>1, <1>2, <1>3, <3>4
    <3>5. \A k \in Pending(Steers)' \ run.read, j \in run.read : adm'[j] < adm'[k]
      <4> TAKE k \in Pending(Steers)' \ run.read, j \in run.read
      <4>1. CASE k = i
        BY <1>4, <3>3, <3>4, <4>1
      <4>2. CASE k # i
        <5>1. k \in Pending(Steers) \ run.read /\ k \in Inputs
          <6>1. Pending(Steers)' = Pending(Steers) \cup (Steers \cap {i})
            BY <1>4, <3>1
          <6>2. Pending(Steers) \subseteq Steers
            BY DEF Pending
          <6> QED BY <1>4, <4>2, <6>1, <6>2
        <5>2. adm'[k] = adm[k] /\ adm'[j] = adm[j]
          BY <1>1, <1>4, <3>3, <3>4, <4>2, <5>1
        <5> QED BY <2>2, <5>1, <5>2 DEF LaterWaits
      <4> QED BY <4>1, <4>2
    <3>6. ASSUME NEW S \in {Steers, Queues}, NEW k \in Pending(S)', NEW j \in S \cap ToSet(run.batch)
          PROVE  adm'[j] < adm'[k]
      <4>1. S \in SUBSET Inputs
        BY <1>4
      <4>2. CASE k = i
        BY <1>4, <3>4, <4>2
      <4>3. CASE k # i
        <5>1. k \in Pending(S) /\ k \in Inputs
          BY <3>1, <3>6, <4>1, <4>3 DEF Pending
        <5>2. adm'[k] = adm[k] /\ adm'[j] = adm[j]
          BY <1>1, <1>4, <3>4, <4>3, <5>1
        <5> QED BY <2>2, <5>1, <5>2 DEF LaterWaits
      <4> QED BY <4>2, <4>3
    <3>7. \A S \in {Steers, Queues} : \A k \in Pending(S)', j \in S \cap ToSet(run.batch) : adm'[j] < adm'[k]
      BY <3>6
    <3>8. UNCHANGED run
      BY <1>1
    <3> QED BY <3>2, <3>5, <3>7, <3>8 DEF LaterWaits
  <2>3. ASSUME LaterWaits, InAdmissionOrder
        PROVE  InAdmissionOrder'
    <3> SUFFICES ASSUME NEW S \in {Steers, Queues}, NEW k \in S \cap Rows', NEW j \in S,
                        j \in ToSet(effects), mark'[j] # "none", adm'[k] < adm'[j]
                 PROVE  k \in ToSet(effects)
      BY <1>1 DEF InAdmissionOrder
    <3>1. j # i /\ j \in Inputs /\ mark[j] # "none" /\ adm'[j] = adm[j]
      BY <1>1, <1>4
    <3>2. j \in Rows
      BY <2>3, <3>1 DEF LaterWaits, Rows
    <3>3. k # i
      BY <1>1, <1>2, <3>1, <3>2
    <3>4. k \in S \cap Rows /\ adm'[k] = adm[k]
      BY <1>1, <1>3, <3>3
    <3> QED BY <2>3, <3>1, <3>4 DEF InAdmissionOrder
  <2> QED BY <2>1, <2>2, <2>3 DEF NoneLeft
<1> QED BY <1>5, <1>6, <1>7, <1>8 DEF RowsSound

(* Only a waiting row is deleted.                                           *)
LEMMA DeleteKeeps ==
  ASSUME TypeOK, RowsSound, NEW i \in Inputs, DeleteInput(i)
  PROVE  RowsSound'
<1>1. /\ mark[i] = "pending" /\ UNCHANGED <<adm, effects, run, crashes>>
      /\ \A j \in Inputs : mark'[j] = IF j = i THEN "deleted" ELSE mark[j]
  BY DEF DeleteInput, TypeOK, counters
<1>2. Deletes # 0
  <2>1. {j \in Inputs : mark[j] = "deleted"} \subseteq Inputs
    OBVIOUS
  <2>2. Cardinality({j \in Inputs : mark[j] = "deleted"}) \in Nat
    BY <2>1, DrainAssumption, FS_Subset, FS_CardinalityType
  <2> QED BY <2>2 DEF DeleteInput
<1>3. ToSet(run.batch) \subseteq Inputs /\ run.read \subseteq Inputs /\ ToSet(effects) \subseteq Inputs
  BY RunTyped DEF TypeOK, ToSet, Inputs
<1>4. BatchHeld'
  <2>1. \A j \in ToSet(run.batch) : mark'[j] = "promoted"
    BY <1>1, <1>3 DEF RowsSound, BatchHeld
  <2>2. \A j \in run.read : mark'[j] \in {"pending", "deleted"}
    BY <1>1, <1>3 DEF RowsSound, BatchHeld
  <2> QED BY <1>1, <2>1, <2>2 DEF RowsSound, BatchHeld
<1>5. AdmittedApart'
  BY <1>1 DEF RowsSound, AdmittedApart, Rows
<1>6. Counted'
  <2>1. \A j \in Inputs : Times(j)' = Times(j)
    BY <1>1 DEF Times
  <2>2. \A j : InHand(j)' <=> InHand(j)
    BY <1>1 DEF InHand
  <2>3. \A j \in Inputs : /\ mark'[j] = "recorded" <=> mark[j] = "recorded"
                          /\ mark'[j] = "none" <=> mark[j] = "none"
    BY <1>1
  <2> QED BY <1>1, <1>3, <2>1, <2>2, <2>3 DEF RowsSound, Counted
<1> QED BY <1>2, <1>4, <1>5, <1>6 DEF RowsSound

(***************************************************************************)
(* The actions, one by one: what they take in hand, and what may stop.     *)
(***************************************************************************)
LEMMA GoTyped ==
  ASSUME TypeOK, NEW pc \in Pcs, Go(pc)
  PROVE  /\ run' \in Run /\ run'.pc = pc /\ run'.batch = run.batch /\ run'.read = run.read
         /\ run'.mode = run.mode /\ run'.skip = run.skip /\ run'.ended = run.ended
<1>1. run \in Run
  BY DEF TypeOK
<1> HIDE DEF Pcs
<1> QED BY <1>1 DEF Go, Run

(* A step that keeps the hands empty, of a run that was not about to mark.   *)
GoesOn ==
  /\ run.pc \notin Marking /\ EmptyHanded'
  /\ run'.pc \in Loop => run.pc \in Loop /\ EmptyHanded

LEMMA GoesOnKeeps ==
  ASSUME TypeOK, RowsSound, GoesOn, UNCHANGED <<mark, adm, effects, crashes>>
  PROVE  RowsSound'
BY HandsStayEmpty DEF GoesOn

LEMMA AroundKeeps ==
  ASSUME IInv,
         \/ \E i \in Inputs : \/ AdmitRow(i) \/ AdmitAgain(i) \/ DeleteInput(i)
                              \/ WatcherWakes(i) \/ WatcherGivesUp(i) \/ WatcherDecides(i)
         \/ AdmitDrive \/ Interrupt \/ Crash
  PROVE  RowsSound' /\ StopsAnswered'
<1> USE DEF durable, handle, counters
<1>0. TypeOK /\ RowsSound /\ StopsAnswered
  BY DEF IInv
<1>1. ASSUME UNCHANGED <<owed, run>>
      PROVE  StopsAnswered'
  BY <1>0, <1>1 DEF StopsAnswered, IdleMeansAnswered
<1>2. ASSUME NEW i \in Inputs, AdmitRow(i)
      PROVE  RowsSound' /\ StopsAnswered'
  BY <1>0, <1>1, <1>2, AdmitKeeps DEF AdmitRow
<1>3. ASSUME NEW i \in Inputs, DeleteInput(i)
      PROVE  RowsSound' /\ StopsAnswered'
  BY <1>0, <1>1, <1>3, DeleteKeeps DEF DeleteInput
<1>4. ASSUME UNCHANGED <<durable, run, crashes>>
      PROVE  RowsSound' /\ StopsAnswered'
  BY <1>0, <1>1, <1>4, NothingMoves
<1>5. ASSUME NEW i \in Inputs, AdmitAgain(i) \/ WatcherWakes(i) \/ WatcherGivesUp(i)
      PROVE  RowsSound' /\ StopsAnswered'
  BY <1>4, <1>5 DEF AdmitAgain, WatcherWakes, WatcherGivesUp
<1>6. ASSUME BeginDrain, ~draining, UNCHANGED <<durable, crashes>>
      PROVE  RowsSound' /\ StopsAnswered'
  <2>1. run.pc = "idle"
    BY <1>0, <1>6 DEF TypeOK, At
  <2>2. /\ run'.pc = "fresh" /\ run'.batch = <<>> /\ run'.read = {} /\ run'.ended = "none"
        /\ run'.skip = FALSE
    <3>1. run'.skip = FALSE
      BY <1>6 DEF BeginDrain, NoRun
    <3> QED BY <1>0, <1>6, <3>1, BeginTyped
  <2>3. GoesOn
    BY <2>1, <2>2 DEF GoesOn, EmptyHanded, Applying, Marking, Loop
  <2> QED BY <1>0, <1>6, <2>2, <2>3, GoesOnKeeps DEF StopsAnswered, IdleMeansAnswered
<1>7. ASSUME NEW i \in Inputs, WatcherDecides(i)
      PROVE  RowsSound' /\ StopsAnswered'
  BY <1>4, <1>6, <1>7 DEF WatcherDecides
<1>8. CASE AdmitDrive
  BY <1>4, <1>6, <1>8 DEF AdmitDrive
<1>9. CASE Interrupt
  BY <1>4, <1>9 DEF Interrupt, Upset
<1>10. CASE Crash
  <2>1. /\ run' = NoRun /\ UNCHANGED <<durable>> /\ crashes' = crashes + 1
    BY <1>10 DEF Crash
  <2>2. run'.pc = "idle" /\ run'.batch = <<>> /\ run'.read = {} /\ run'.ended = "none"
    BY <2>1, FreshTyped
  <2>3. EmptyHanded' /\ run'.pc \notin Loop
    BY <2>2 DEF EmptyHanded, Applying, Marking, Loop
  <2>4. crashes' # crashes
    BY <1>0, <2>1, DrainAssumption DEF TypeOK
  <2>5. RowsSound'
    BY <1>0, <2>1, <2>3, <2>4, HandsStayEmpty
  <2> QED BY <2>2, <2>5 DEF StopsAnswered, IdleMeansAnswered
<1> QED BY <1>2, <1>3, <1>5, <1>7, <1>8, <1>9, <1>10

(* The actions that leave the rows alone.                                   *)
LEMMA TurnsKeep ==
  ASSUME IInv,
         \/ FreshTokens \/ ResumeFails \/ LoopTop \/ ReadSteers \/ ClaimFails \/ PeekSteers \/ PeekQueues
         \/ TurnFails \/ TurnInterrupted \/ TurnCancelled \/ Answer \/ CallTools \/ ToolsDone
         \/ IdleBoundary \/ Reabsorb \/ Teardown
  PROVE  RowsSound' /\ StopsAnswered'
<1> USE DEF durable, handle, counters, Upset
<1>0. TypeOK /\ RowsSound /\ StopsAnswered /\ BatchHeld
  BY DEF IInv, RowsSound
<1>a. ASSUME run.pc \notin Applying \cup Marking \cup {"promote"},
             run'.batch \in {<<>>, run.batch}, run'.read \in {{}, run.read},
             run'.pc \notin Applying \cup Marking \cup {"promote"},
             run'.pc \in Loop => run.pc \in Loop,
             UNCHANGED <<mark, adm, effects, crashes>>
      PROVE  RowsSound'
  <2>1. EmptyHanded
    BY <1>0, <1>a, HandsEmpty
  <2>2. EmptyHanded'
    BY <1>a, <2>1 DEF EmptyHanded
  <2>3. GoesOn
    BY <1>a, <2>1, <2>2 DEF GoesOn
  <2> QED BY <1>0, <1>a, <2>3, GoesOnKeeps
<1> DEFINE Ends == run'.pc \in {"after", "teardown"} /\ run'.batch = <<>> /\ run'.read = run.read
                   /\ run'.ended \in {"cancel", "error", "cap", "command"}
           Tops == run'.pc = "top" /\ run'.batch = <<>> /\ run'.read = run.read
                   /\ run'.skip = FALSE /\ run'.ended = run.ended
           Stops == /\ run'.pc \in {"llm", "after"} /\ run'.batch = <<>> /\ run'.read = run.read
                    /\ run'.pc = "llm" => run'.ended = run.ended
                    /\ run'.pc = "after" => run'.ended = "done" /\ (run.mode = "drain" => ~owed)
<1>b. (End("cancel") \/ End("error") => Ends) /\ (Top(FALSE) => Tops)
      /\ (ConsumeNext => Ends \/ Tops) /\ (Stop => Stops)
  <2>1. End("cancel") \/ End("error") => Ends
    BY <1>0, EndTyped
  <2>2. Top(FALSE) => Tops
    BY <1>0, TopTyped
  <2>3. ConsumeNext => Ends \/ Tops
    BY <1>0, ConsumeTyped
  <2>4. Stop => Stops
    BY <1>0, StopTyped
  <2> QED BY <2>1, <2>2, <2>3, <2>4
<1>c. \A pc \in Pcs : Go(pc) => /\ run'.pc = pc /\ run'.batch = run.batch /\ run'.read = run.read
                                /\ run'.mode = run.mode /\ run'.skip = run.skip /\ run'.ended = run.ended
  BY <1>0, GoTyped
<1> HIDE DEF Ends, Tops, Stops
<1>1. CASE FreshTokens
  <2>1. run.pc = "fresh" /\ Go("entry") /\ "entry" \in Pcs /\ UNCHANGED <<durable, crashes>>
    BY <1>1 DEF FreshTokens, At, Pcs
  <2>2. RowsSound'
    BY <1>a, <1>c, <2>1 DEF Applying, Marking, Loop
  <2> QED BY <1>0, <1>c, <2>1, <2>2 DEF StopsAnswered, IdleMeansAnswered
<1>2. CASE ResumeFails
  <2>1. /\ run.pc = "entry" /\ run'.pc = "idle" /\ run'.batch = run.batch /\ run'.read = run.read
        /\ run'.ended = "error" /\ UNCHANGED <<durable, crashes>>
    BY <1>0, <1>2, RunTyped DEF ResumeFails, At, Run
  <2>2. RowsSound'
    BY <1>a, <2>1 DEF Applying, Marking, Loop
  <2> QED BY <2>1, <2>2 DEF StopsAnswered, IdleMeansAnswered
<1>3. CASE LoopTop
  <2>1. /\ run.pc = "top" /\ "steers" \in Pcs /\ UNCHANGED <<durable, crashes>>
        /\ Ends \/ Go("steers")
    BY <1>3, <1>b DEF LoopTop, At, Pcs
  <2>2. RowsSound'
    BY <1>a, <1>c, <2>1 DEF Applying, Marking, Loop, Pcs, Ends
  <2>3. CASE Ends
    BY <2>2, <2>3 DEF StopsAnswered, IdleMeansAnswered, Ends
  <2>4. CASE Go("steers")
    BY <1>0, <1>c, <2>1, <2>2, <2>4 DEF StopsAnswered, IdleMeansAnswered
  <2> QED BY <2>1, <2>3, <2>4
<1>4. CASE ReadSteers
  <2>1. run.pc = "steers" /\ UNCHANGED <<durable, crashes>>
    BY <1>4 DEF ReadSteers, At
  <2>2. CASE run' = WithoutSteers
    <3>1. /\ run'.pc \in {"claim", "llm"} /\ run'.batch = run.batch /\ run'.read = run.read
          /\ run'.ended = run.ended /\ (run'.pc = "claim" /\ run'.mode # "drain" => run.skip)
      BY <1>0, <2>2, WithoutTyped
    <3>2. RowsSound'
      BY <1>a, <2>1, <3>1 DEF Applying, Marking, Loop, Pcs
    <3> QED BY <1>0, <2>1, <3>1, <3>2 DEF StopsAnswered, IdleMeansAnswered
  <2>3. CASE Pending(Steers) # {} /\ run' = [run EXCEPT !.pc = "promote", !.read = Pending(Steers)]
    <3>1. /\ run'.pc = "promote" /\ run'.batch = run.batch /\ run'.read = Pending(Steers)
          /\ run'.ended = run.ended /\ run'.skip = run.skip
      BY <1>0, <2>3, RunTyped DEF Run
    <3>2. RowsSound'
      BY <1>0, <2>1, <2>3, <3>1, ReadKeeps
    <3> QED BY <1>0, <2>1, <3>1, <3>2 DEF StopsAnswered, IdleMeansAnswered
  <2> QED BY <1>4, <2>2, <2>3 DEF ReadSteers
<1>5. CASE ClaimFails
  <2>1. run.pc = "claim" /\ NothingPopped /\ UNCHANGED <<durable, crashes>>
    BY <1>5 DEF ClaimFails, At
  <2>2. /\ run'.pc \in {"llm", "after", "peekSteers"} /\ run'.batch = <<>> /\ run'.read = run.read
        /\ run'.pc # "after" => run'.ended = run.ended /\ run'.mode = run.mode
        /\ run'.pc = "after" => run'.ended = "done" /\ (run.mode = "drain" => ~owed)
    BY <1>0, <2>1, NothingTyped
  <2>3. RowsSound'
    BY <1>a, <2>1, <2>2 DEF Applying, Marking, Loop, Pcs
  <2> QED BY <1>0, <2>1, <2>2, <2>3 DEF StopsAnswered, IdleMeansAnswered
<1>6. CASE PeekSteers
  <2>1. /\ run.pc = "peekSteers" /\ "peekQueues" \in Pcs /\ UNCHANGED <<durable, crashes>>
        /\ Ends \/ Tops \/ Go("peekQueues")
    BY <1>6, <1>b DEF PeekSteers, At, Pcs
  <2>2. RowsSound'
    BY <1>a, <1>c, <2>1 DEF Applying, Marking, Loop, Pcs, Ends, Tops
  <2>3. CASE Ends \/ Tops
    BY <1>0, <2>1, <2>2, <2>3 DEF StopsAnswered, IdleMeansAnswered, Ends, Tops
  <2>4. CASE Go("peekQueues")
    BY <1>0, <1>c, <2>1, <2>2, <2>4 DEF StopsAnswered, IdleMeansAnswered
  <2> QED BY <2>1, <2>3, <2>4
<1>7. CASE PeekQueues
  <2>1. /\ run.pc = "peekQueues" /\ UNCHANGED <<durable, crashes>>
        /\ \/ Ends \/ Tops \/ Stops
           \/ run.mode # "drain" /\ run' = [run EXCEPT !.pc = "claim", !.mode = "again"]
    BY <1>7, <1>b DEF PeekQueues, At
  <2>2. CASE Ends \/ Tops
    <3>1. RowsSound'
      BY <1>a, <2>1, <2>2 DEF Applying, Marking, Loop, Pcs, Ends, Tops
    <3> QED BY <1>0, <2>1, <2>2, <3>1 DEF StopsAnswered, IdleMeansAnswered, Ends, Tops
  <2>3. CASE Stops
    <3>1. RowsSound'
      BY <1>a, <2>1, <2>3 DEF Applying, Marking, Loop, Pcs, Stops
    <3> QED BY <1>0, <2>1, <2>3, <3>1 DEF StopsAnswered, IdleMeansAnswered, Stops
  <2>4. CASE run.mode # "drain" /\ run' = [run EXCEPT !.pc = "claim", !.mode = "again"]
    <3>1. run'.pc = "claim" /\ run'.batch = run.batch /\ run'.read = run.read /\ run'.ended = run.ended
      BY <1>0, <2>4, RunTyped DEF Run
    <3>2. RowsSound'
      BY <1>a, <2>1, <3>1 DEF Applying, Marking, Loop, Pcs
    <3> QED BY <1>0, <2>1, <2>4, <3>1, <3>2 DEF StopsAnswered, IdleMeansAnswered
  <2> QED BY <2>1, <2>2, <2>3, <2>4
<1>8. CASE TurnFails \/ TurnInterrupted \/ TurnCancelled \/ ToolsDone
  <2>1. /\ run.pc \in {"llm", "late", "tools"} /\ UNCHANGED <<durable, crashes>>
        /\ Ends \/ Tops
    BY <1>8, <1>b DEF TurnFails, TurnInterrupted, TurnCancelled, ToolsDone, At
  <2>2. RowsSound'
    BY <1>a, <2>1 DEF Applying, Marking, Loop, Pcs, Ends, Tops
  <2> QED BY <1>0, <2>1, <2>2 DEF StopsAnswered, IdleMeansAnswered, Ends, Tops
<1>9. CASE Answer \/ CallTools
  <2>1. /\ run.pc = "llm" /\ UNCHANGED <<mark, adm, effects, crashes>>
        /\ (Go("late") /\ owed' = FALSE) \/ Go("tools")
        /\ "late" \in Pcs /\ "tools" \in Pcs
    BY <1>9 DEF Answer, CallTools, At, Pcs
  <2>2. /\ run'.pc \in {"late", "tools"} /\ (run'.pc = "late" => owed' = FALSE)
        /\ run'.batch = run.batch /\ run'.read = run.read /\ run'.ended = run.ended
    BY <1>c, <2>1
  <2>3. RowsSound'
    BY <1>a, <2>1, <2>2 DEF Applying, Marking, Loop, Pcs
  <2> QED BY <1>0, <2>1, <2>2, <2>3 DEF StopsAnswered, IdleMeansAnswered
<1>10. CASE IdleBoundary
  <2>1. /\ run.pc = "late" /\ run'.pc = "claim" /\ run'.mode = "idle" /\ run'.batch = run.batch
        /\ run'.read = run.read /\ run'.ended = run.ended /\ UNCHANGED <<durable, crashes>>
    BY <1>0, <1>10, RunTyped DEF IdleBoundary, At, Run
  <2>2. RowsSound'
    BY <1>a, <2>1 DEF Applying, Marking, Loop, Pcs
  <2> QED BY <1>0, <2>1, <2>2 DEF StopsAnswered, IdleMeansAnswered
<1>11. CASE Reabsorb
  <2>1. run.pc = "after" /\ UNCHANGED <<durable, crashes>>
    BY <1>11 DEF Reabsorb, At
  <2>2. CASE run' = [run EXCEPT !.pc = "teardown"]
    <3>1. run'.pc = "teardown" /\ run'.batch = run.batch /\ run'.read = run.read /\ run'.ended = run.ended
      BY <1>0, <2>2, RunTyped DEF Run
    <3>2. RowsSound'
      BY <1>a, <2>1, <3>1 DEF Applying, Marking, Loop, Pcs
    <3> QED BY <1>0, <2>1, <3>1, <3>2 DEF StopsAnswered, IdleMeansAnswered
  <2>3. CASE run' = [NoRun EXCEPT !.pc = "top", !.drain = TRUE, !.rechecks = run.rechecks + 1]
    <3>1. /\ run'.pc = "top" /\ run'.batch = <<>> /\ run'.read = {} /\ run'.ended = "none"
          /\ run'.skip = FALSE
      BY <2>3 DEF NoRun
    <3>2. RowsSound'
      BY <1>a, <2>1, <3>1 DEF Applying, Marking, Loop, Pcs
    <3> QED BY <3>1, <3>2 DEF StopsAnswered, IdleMeansAnswered
  <2> QED BY <1>11, <2>2, <2>3 DEF Reabsorb
<1>12. CASE Teardown
  <2>1. /\ run.pc = "teardown" /\ run'.pc = "idle" /\ run'.batch = run.batch /\ run'.read = run.read
        /\ run'.ended = run.ended /\ UNCHANGED <<durable, crashes>>
    BY <1>0, <1>12, RunTyped DEF Teardown, At, Run
  <2>2. RowsSound'
    BY <1>a, <2>1 DEF Applying, Marking, Loop, Pcs
  <2> QED BY <1>0, <2>1, <2>2 DEF StopsAnswered, IdleMeansAnswered
<1> QED BY <1>1, <1>2, <1>3, <1>4, <1>5, <1>6, <1>7, <1>8, <1>9, <1>10, <1>11, <1>12

(* The actions that apply, mark, claim and promote rows.                    *)
LEMMA RowsKeep ==
  ASSUME IInv,
         \/ Entry \/ PromoteSteers \/ ApplySteer \/ ApplyFails \/ MarkSteer
         \/ ClaimQueued \/ ApplyQueued \/ MarkQueued
  PROVE  RowsSound' /\ StopsAnswered'
<1> USE DEF durable, handle, counters, Upset
<1>0. TypeOK /\ RowsSound /\ StopsAnswered /\ BatchHeld
  BY DEF IInv, RowsSound
<1> DEFINE Ends == run'.pc \in {"after", "teardown"} /\ run'.batch = <<>> /\ run'.read = run.read
                   /\ run'.ended \in {"cancel", "error", "cap", "command"}
           Popped == /\ run'.pc \in {"llm", "after", "peekSteers"} /\ run'.batch = <<>>
                     /\ run'.read = run.read
                     /\ run'.pc # "after" => run'.ended = run.ended /\ run'.mode = run.mode
                     /\ run'.pc = "after" => run'.ended = "done" /\ (run.mode = "drain" => ~owed)
<1>a. End("cancel") \/ End("error") \/ End("command") \/ End("cap") => Ends
  BY <1>0, EndTyped
<1>b. NothingPopped => Popped
  BY <1>0, NothingTyped
<1> HIDE DEF Ends, Popped
<1>c. ASSUME run.pc \in Applying, mark' = Reset(ToSet(run.batch)), UNCHANGED <<adm, effects, crashes>>,
             Ends \/ Popped
      PROVE  RowsSound'
  <2>1. EmptyHanded'
    BY <1>0, <1>c DEF Ends, Popped, EmptyHanded, BatchHeld, Applying, Marking
  <2>2. Deletes = 0 => \A i \in Inputs : mark[i] = "promoted" => i \in ToSet(run.batch)
    BY <1>0, <1>c DEF RowsSound, NoneLeft, PromotedIsHeld, Applying, Pcs
  <2>3. run.pc \notin Marking
    BY <1>c DEF Applying, Marking
  <2> QED BY <1>0, <1>c, <2>1, <2>2, <2>3, ResetKeeps
<1>1. CASE Entry
  <2>1. /\ run.pc = "entry" /\ mark' = Reset(Inputs) /\ UNCHANGED <<adm, effects, crashes, owed>>
        /\ run'.pc = "top" /\ run'.batch = run.batch /\ run'.read = run.read /\ run'.skip = run.skip
        /\ run'.ended = run.ended
    BY <1>0, <1>1, RunTyped DEF Entry, At, Run
  <2>2. EmptyHanded
    BY <1>0, <2>1, HandsEmpty DEF Applying, Marking
  <2>3. EmptyHanded' /\ run.pc \notin Marking
    BY <2>1, <2>2 DEF EmptyHanded, Applying, Marking
  <2>4. RowsSound'
    BY <1>0, <2>1, <2>3, ResetKeeps
  <2> QED BY <1>0, <2>1, <2>4 DEF StopsAnswered, IdleMeansAnswered
<1>2. CASE PromoteSteers
  <2>1. RowsSound'
    BY <1>0, <1>2, PromoteKeeps
  <2>2. PICK claimed : run' = IF claimed = <<>> THEN [WithoutSteers EXCEPT !.read = {}]
                              ELSE [run EXCEPT !.pc = "steer", !.batch = claimed, !.read = {},
                                               !.recorded = FALSE, !.streak = 0]
    BY <1>2 DEF PromoteSteers
  <2>3. run.pc = "promote" /\ UNCHANGED owed
    BY <1>2 DEF PromoteSteers, At
  <2>4. CASE run' = [WithoutSteers EXCEPT !.read = {}]
    <3>1. /\ WithoutSteers \in Run /\ WithoutSteers.pc \in {"claim", "llm"}
          /\ WithoutSteers.ended = run.ended
          /\ WithoutSteers.pc = "claim" /\ WithoutSteers.mode # "drain" => run.skip
      BY <1>0, WithoutTyped
    <3>2. run'.pc = WithoutSteers.pc /\ run'.ended = run.ended /\ run'.mode = WithoutSteers.mode
      BY <2>4, <3>1 DEF Run
    <3> QED BY <1>0, <2>1, <2>3, <3>1, <3>2 DEF StopsAnswered, IdleMeansAnswered
  <2>5. CASE run' = [run EXCEPT !.pc = "steer", !.batch = claimed, !.read = {},
                                !.recorded = FALSE, !.streak = 0]
    <3>1. run'.pc = "steer" /\ run'.ended = run.ended
      BY <1>0, <2>5, RunTyped DEF Run
    <3> QED BY <1>0, <2>1, <2>3, <3>1 DEF StopsAnswered, IdleMeansAnswered
  <2> QED BY <2>2, <2>4, <2>5
<1>3. CASE ApplySteer
  <2>1. run.pc = "steer" /\ UNCHANGED <<adm, crashes>> /\ "steer" \in Applying
    BY <1>3 DEF ApplySteer, At, Applying
  <2>2. CASE PutBack /\ Ends
    <3>1. RowsSound'
      BY <1>c, <2>1, <2>2 DEF PutBack
    <3> QED BY <2>2, <3>1 DEF StopsAnswered, IdleMeansAnswered, Ends
  <2>3. CASE /\ Take(Head(run.batch)) /\ UNCHANGED mark
             /\ run' = [run EXCEPT !.pc = "marks",
                                   !.recorded = run.recorded \/ Head(run.batch) \notin Commands]
    <3>1. run'.pc = "marks" /\ run'.batch = run.batch /\ run'.read = run.read /\ run'.ended = run.ended
      BY <1>0, <2>3, RunTyped DEF Run
    <3>2. RowsSound'
      BY <1>0, <2>1, <2>3, <3>1, TakeKeeps DEF Take
    <3> QED BY <1>0, <2>1, <3>1, <3>2 DEF StopsAnswered, IdleMeansAnswered
  <2> QED BY <1>3, <1>a, <2>2, <2>3 DEF ApplySteer
<1>4. CASE ApplyFails
  <2>1. run.pc \in Applying /\ PutBack /\ Ends /\ UNCHANGED <<adm, crashes>>
    BY <1>4, <1>a DEF ApplyFails, At, Applying
  <2>2. RowsSound'
    BY <1>c, <2>1 DEF PutBack
  <2> QED BY <2>1, <2>2 DEF StopsAnswered, IdleMeansAnswered, Ends
<1>5. CASE ApplyQueued
  <2>1. run.pc = "guard" /\ UNCHANGED <<adm, crashes>> /\ "guard" \in Applying
    BY <1>5 DEF ApplyQueued, At, Applying
  <2>2. CASE PutBack /\ Popped
    <3>1. RowsSound' /\ UNCHANGED owed
      BY <1>c, <2>1, <2>2 DEF PutBack
    <3> QED BY <1>0, <2>1, <2>2, <3>1 DEF StopsAnswered, IdleMeansAnswered, Popped
  <2>3. CASE Take(Head(run.batch)) /\ UNCHANGED mark /\ Go("qmark")
    <3>1. /\ run'.pc = "qmark" /\ run'.batch = run.batch /\ run'.read = run.read
          /\ run'.ended = run.ended /\ run'.mode = run.mode
      BY <1>0, <2>3, GoTyped DEF Pcs
    <3>2. RowsSound'
      BY <1>0, <2>1, <2>3, <3>1, TakeKeeps DEF Take
    <3>3. run.mode # "drain" /\ Head(run.batch) \in Commands => ~owed'
      BY <1>0, <2>1, <2>3 DEF StopsAnswered, Take
    <3> QED BY <1>0, <2>1, <3>1, <3>2, <3>3 DEF StopsAnswered, IdleMeansAnswered
  <2> QED BY <1>5, <1>b, <2>2, <2>3 DEF ApplyQueued
<1>6. CASE ClaimQueued
  <2>1. run.pc = "claim" /\ UNCHANGED <<adm, effects, owed, crashes>>
    BY <1>6 DEF ClaimQueued, At
  <2>2. CASE Popped /\ mark' = mark
    <3>1. EmptyHanded
      BY <1>0, <2>1, HandsEmpty DEF Applying, Marking
    <3>2. GoesOn
      BY <2>1, <2>2, <3>1 DEF GoesOn, EmptyHanded, Popped, Applying, Marking, Loop, Pcs
    <3>3. RowsSound'
      BY <1>0, <2>1, <2>2, <3>2, GoesOnKeeps
    <3> QED BY <1>0, <2>1, <2>2, <3>3 DEF StopsAnswered, IdleMeansAnswered, Popped
  <2>3. CASE Pending(Queues) # {}
    <3>1. RowsSound'
      BY <1>0, <1>6, <2>3, ClaimKeeps
    <3>2. PICK i : run' = [run EXCEPT !.pc = "guard", !.batch = <<i>>]
      BY <1>6, <2>3 DEF ClaimQueued
    <3>3. run'.pc = "guard" /\ run'.mode = run.mode /\ run'.ended = run.ended
      BY <1>0, <3>2, RunTyped DEF Run
    <3> QED BY <1>0, <2>1, <3>1, <3>3 DEF StopsAnswered, IdleMeansAnswered
  <2> QED BY <1>6, <1>b, <2>2, <2>3 DEF ClaimQueued
<1> DEFINE h == Head(run.batch)
           Goes == /\ run'.pc \in {"llm", "top", "after"} /\ run'.batch = <<>> /\ run'.read = run.read
                   /\ run'.pc # "after" => run'.ended = run.ended
                   /\ run'.pc = "after" => run'.ended \in {"cap", "command"}
                   /\ run'.pc = "top" /\ run'.skip => run.mode # "drain" /\ h \in Commands
<1>d. ASSUME run.pc \in Marking, MarkHead, UNCHANGED <<adm, effects, owed, crashes>>, Goes,
             Len(run.batch) = 1, run'.pc = "top" => run.pc = "qmark"
      PROVE  RowsSound' /\ StopsAnswered'
  <2>1. run.read = {}
    BY <1>0, <1>d DEF BatchHeld, Marking
  <2>2. EmptyHanded'
    BY <1>d, <2>1 DEF EmptyHanded, Applying, Marking
  <2>3. RowsSound'
    BY <1>0, <1>d, <2>2, MarkKeeps
  <2>4. run'.pc = "top" /\ run'.skip => ~owed
    BY <1>0, <1>d DEF StopsAnswered
  <2> QED BY <1>0, <1>d, <2>3, <2>4 DEF StopsAnswered, IdleMeansAnswered, Marking
<1>7. CASE MarkSteer
  <2>1. run.pc = "marks" /\ MarkHead /\ UNCHANGED <<adm, effects, owed, crashes>> /\ run.pc \in Marking
    BY <1>7 DEF MarkSteer, At, Marking
  <2>2. run.batch \in Seq(Inputs) /\ run.batch # <<>>
    BY <1>0, <2>1, RunTyped DEF BatchHeld
  <2>3. CASE Len(run.batch) > 1
    <3>1. run' = [run EXCEPT !.pc = "steer", !.batch = Tail(run.batch)]
      BY <1>7, <2>3 DEF MarkSteer
    <3>2. run'.pc = "steer" /\ run'.batch = Tail(run.batch) /\ run'.read = run.read /\ run'.ended = run.ended
      BY <1>0, <3>1, RunTyped DEF Run
    <3>3. RowsSound'
      BY <1>0, <2>1, <2>3, <3>2, MarkKeeps
    <3> QED BY <1>0, <2>1, <3>2, <3>3 DEF StopsAnswered, IdleMeansAnswered
  <2>4. CASE ~(Len(run.batch) > 1)
    <3>1. Len(run.batch) = 1
      <4>1. Len(run.batch) \in Nat /\ Len(run.batch) # 0
        BY <2>2
      <4>2. \A n \in Nat : n # 0 /\ ~(n > 1) => n = 1
        OBVIOUS
      <4> QED BY <2>4, <4>1, <4>2, Zenon
    <3>2. CASE End("command")
      <4>1. run'.pc = "after" /\ run'.batch = <<>> /\ run'.read = run.read /\ run'.ended = "command"
        BY <1>0, <3>2, RunTyped DEF End, Run
      <4> QED BY <1>d, <2>1, <3>1, <4>1
    <3>3. CASE run' = [run EXCEPT !.pc = "llm", !.batch = <<>>]
      <4>1. run'.pc = "llm" /\ run'.batch = <<>> /\ run'.read = run.read /\ run'.ended = run.ended
        BY <1>0, <3>3, RunTyped DEF Run
      <4> QED BY <1>d, <2>1, <3>1, <4>1
    <3> QED BY <1>7, <2>4, <3>2, <3>3 DEF MarkSteer
  <2> QED BY <2>3, <2>4
<1>8. CASE MarkQueued
  <2>1. run.pc = "qmark" /\ MarkHead /\ UNCHANGED <<adm, effects, owed, crashes>> /\ run.pc \in Marking
    BY <1>8 DEF MarkQueued, At, Marking
  <2>2. Len(run.batch) = 1
    BY <1>0, <2>1 DEF BatchHeld
  <2>3. CASE ConsumeNext
    BY <1>0, <1>d, <2>1, <2>2, <2>3, ConsumeTyped
  <2>4. CASE run' = [run EXCEPT !.pc = "llm", !.drain = FALSE, !.streak = 0, !.batch = <<>>]
    <3>1. run'.pc = "llm" /\ run'.batch = <<>> /\ run'.read = run.read /\ run'.ended = run.ended
      BY <1>0, <2>4, RunTyped DEF Run
    <3> QED BY <1>d, <2>1, <2>2, <3>1
  <2>5. CASE run.mode # "drain" /\ Top(h \in Commands)
    <3>1. (h \in Commands) \in BOOLEAN
      OBVIOUS
    <3>2. /\ run'.pc = "top" /\ run'.batch = <<>> /\ run'.read = run.read
          /\ run'.skip = (h \in Commands) /\ run'.ended = run.ended
      BY <1>0, <2>5, <3>1, TopTyped
    <3> QED BY <1>d, <2>1, <2>2, <2>5, <3>2
  <2> QED BY <1>8, <2>3, <2>4, <2>5 DEF MarkQueued
<1> QED BY <1>1, <1>2, <1>3, <1>4, <1>5, <1>6, <1>7, <1>8

LEMMA InitIInv == Init => IInv
<1> SUFFICES ASSUME Init
             PROVE  IInv
  OBVIOUS
<1>1. run = NoRun /\ run \in Run /\ run.pc = "idle" /\ run.batch = <<>> /\ run.read = {}
      /\ run.ended = "none"
  BY FreshTyped DEF Init
<1>2. TypeOK
  <2>1. /\ mark \in [Inputs -> {"none", "pending", "promoted", "recorded", "deleted"}]
        /\ adm \in [Inputs -> Nat]
        /\ effects \in Seq(Inputs)
        /\ watch \in [Inputs -> {"none", "polling", "woken"}]
    BY DEF Init
  <2>2. tools \in 0 .. ToolTurns /\ upsets \in 0 .. Upsets /\ crashes \in 0 .. Crashes
    BY DrainAssumption DEF Init
  <2>3. {owed, draining, cancel, turn} \subseteq BOOLEAN /\ admitting = None /\ draining = FALSE
    BY DEF Init
  <2> QED BY <1>1, <2>1, <2>2, <2>3 DEF TypeOK, At
<1>3. EmptyHanded /\ run.pc \notin Loop
  BY <1>1 DEF EmptyHanded, Applying, Marking, Loop
<1>4. Rows = {} /\ ToSet(effects) = {} /\ \A i \in Inputs : mark[i] = "none"
  BY DEF Init, Rows, ToSet
<1>5. BatchHeld
  BY <1>1 DEF BatchHeld, Applying, Marking, ToSet
<1>6. Counted
  <2>1. \A i : {n \in DOMAIN effects : effects[n] = i} = {}
    BY DEF Init
  <2>2. \A i : Times(i) = 0
    BY <2>1, FS_EmptySet DEF Times
  <2> QED BY <1>3, <1>4, <2>2 DEF Counted, InHand, EmptyHanded, Init
<1>7. NoneLeft
  <2>1. ToSet(run.batch) = {}
    BY <1>1 DEF ToSet
  <2> QED BY <1>1, <1>3, <1>4, <2>1 DEF NoneLeft, LaterWaits, PromotedIsHeld, InAdmissionOrder, Loop
<1>8. StopsAnswered
  BY <1>1 DEF StopsAnswered, IdleMeansAnswered
<1> QED BY <1>2, <1>4, <1>5, <1>6, <1>7, <1>8 DEF IInv, RowsSound, AdmittedApart

LEMMA StepKeeps == IInv /\ [Next]_vars => IInv'
<1> SUFFICES ASSUME IInv, [Next]_vars
             PROVE  IInv'
  OBVIOUS
<1>0. TypeOK /\ RowsSound /\ StopsAnswered /\ BatchHeld /\ AdmittedApart
  BY DEF IInv, RowsSound
<1>1. CASE \/ \E i \in Inputs : \/ AdmitRow(i) \/ AdmitAgain(i) \/ DeleteInput(i)
                                \/ WatcherWakes(i) \/ WatcherGivesUp(i) \/ WatcherDecides(i)
           \/ AdmitDrive \/ Interrupt \/ Crash
  BY <1>0, <1>1, AroundTyped, AroundKeeps DEF IInv
<1>2. CASE \/ Entry \/ PromoteSteers \/ ApplySteer \/ ApplyFails \/ MarkSteer
           \/ ClaimQueued \/ ApplyQueued \/ MarkQueued
  BY <1>0, <1>2, RowsTyped, RowsKeep DEF IInv
<1>3. CASE \/ FreshTokens \/ ResumeFails \/ LoopTop \/ ReadSteers \/ ClaimFails \/ PeekSteers
           \/ PeekQueues \/ TurnFails \/ TurnInterrupted \/ TurnCancelled \/ Answer \/ CallTools
           \/ ToolsDone \/ IdleBoundary \/ Reabsorb \/ Teardown
  BY <1>0, <1>3, TurnsTyped, TurnsKeep DEF IInv
<1>4. CASE UNCHANGED vars
  <2>1. UNCHANGED <<mark, adm, effects, owed, draining, cancel, turn, admitting, watch, run,
                    tools, upsets, crashes>>
    BY <1>4 DEF vars, durable, handle, counters
  <2>2. TypeOK'
    BY <1>0, <2>1 DEF TypeOK, At
  <2>3. RowsSound' /\ StopsAnswered'
    BY <1>0, <2>1, NothingMoves DEF StopsAnswered, IdleMeansAnswered
  <2> QED BY <2>2, <2>3 DEF IInv
<1> QED BY <1>1, <1>2, <1>3, <1>4 DEF Next, DrainTask, Failure

(***************************************************************************)
(* The theorems.                                                           *)
(***************************************************************************)
(* The invariant holds in every state the session can reach.                *)
THEOREM InductiveInvariant == Spec => []IInv
<1>1. Init => IInv
  BY InitIInv
<1>2. IInv /\ [Next]_vars => IInv'
  BY StepKeeps
<1> QED BY <1>1, <1>2, PTL DEF Spec

(* Rows, tokens, watchers and the loop's record keep their shape.           *)
THEOREM TypeCorrect == Spec => []TypeOK
<1>1. IInv => TypeOK
  BY DEF IInv
<1> QED BY <1>1, InductiveInvariant, PTL

(* A row that is marked as consumed is in the transcript, whatever fails or *)
(* crashes between its claim, its effect and its mark.                      *)
THEOREM MarkedInTranscript == Spec => []MarkedIsInTranscript
<1>1. IInv => MarkedIsInTranscript
  BY DEF IInv, RowsSound, Counted, MarkedIsInTranscript
<1> QED BY <1>1, InductiveInvariant, PTL

(* Every effect beyond an input's first cost a crash.                       *)
THEOREM RepeatedByCrash == Spec => []RepeatedOnlyByCrash
<1>1. ASSUME IInv
      PROVE  RepeatedOnlyByCrash
  <2> SUFFICES ASSUME NEW i \in Inputs
               PROVE  Cardinality({n \in DOMAIN effects : effects[n] = i}) <= 1 + crashes
    BY DEF RepeatedOnlyByCrash
  <2>1. Times(i) <= crashes + (IF mark[i] = "recorded" \/ InHand(i) THEN 1 ELSE 0)
    BY <1>1 DEF IInv, RowsSound, Counted
  <2>2. crashes \in Nat /\ Times(i) \in Nat
    <3>1. crashes \in Nat /\ effects \in Seq(Inputs)
      BY <1>1, DrainAssumption DEF IInv, TypeOK
    <3>2. Times(i) \in Nat
      BY <3>1, TimesAre DEF Times
    <3> QED BY <3>1, <3>2
  <2>3. Times(i) <= 1 + crashes
    BY <2>1, <2>2
  <2> QED BY <2>3 DEF Times
<1>2. IInv => RepeatedOnlyByCrash
  BY <1>1
<1> QED BY <1>2, InductiveInvariant, PTL

(* A run that stops because nothing is left leaves nothing unanswered.      *)
THEOREM IdleAnswered == Spec => []IdleMeansAnswered
<1>1. IInv => IdleMeansAnswered
  BY DEF IInv, StopsAnswered
<1> QED BY <1>1, InductiveInvariant, PTL

(* If no row is deleted, a run in its loop holds every row that is promoted *)
(* and not marked: no path through a cancel or a failure forgets one.       *)
THEOREM PromotedHeld ==
  ASSUME Deletes = 0
  PROVE  Spec => []PromotedIsHeld
<1>1. IInv => PromotedIsHeld
  BY DEF IInv, RowsSound, NoneLeft
<1> QED BY <1>1, InductiveInvariant, PTL

(* If no row is deleted, inputs of one delivery take effect in the order of *)
(* their admission, whatever claims are undone.                             *)
THEOREM NoneOvertakes ==
  ASSUME Deletes = 0
  PROVE  Spec => []InAdmissionOrder
<1>1. IInv => InAdmissionOrder
  BY DEF IInv, RowsSound, NoneLeft
<1> QED BY <1>1, InductiveInvariant, PTL

(***************************************************************************)
(* What comes after the last look of a run is somebody's to take.          *)
(***************************************************************************)
Kept(i) == \/ watch[i] = "polling"
           \/ watch[i] = "woken" /\ ~draining
           \/ admitting # None /\ admitting[1] = i

(* The run found nothing, and is on its way out or gone ...                 *)
Through == run.pc \in {"idle", "after", "teardown"} /\ run.ended = "done"
(* ... or has at least taken its last look at the steers.                   *)
PastSteers == \/ run.pc = "peekQueues"
              \/ run.pc \in {"claim", "guard"} /\ run.mode = "again"
              \/ Through

AllKept(S) == \A i \in S : mark[i] = "pending" => Kept(i)

Unforgotten ==
  /\ PastSteers /\ ~cancel => AllKept(Steers)
  /\ Through /\ ~cancel /\ upsets = 0 => AllKept(Queues)

(* No row of S comes back into the queue.                                   *)
NoneReturns(S) == \A i \in S : mark'[i] = "pending" => mark[i] = "pending"

(* A step of the run forgets nothing if it gets past a look only where that *)
(* look found nothing.                                                      *)
LEMMA LooksFirst ==
  ASSUME Unforgotten, UNCHANGED <<cancel, watch, admitting>>, draining' => draining,
         upsets' = 0 => upsets = 0,
         ~cancel /\ PastSteers' => NoneReturns(Steers) /\ (PastSteers \/ Pending(Steers) = {}),
         ~cancel /\ upsets = 0 /\ Through' => NoneReturns(Queues) /\ (Through \/ Pending(Queues) = {})
  PROVE  Unforgotten'
<1>1. \A i \in Inputs : Kept(i) => Kept(i)'
  BY DEF Kept
<1>2. \A S \in SUBSET Inputs : NoneReturns(S) /\ AllKept(S) => AllKept(S)'
  BY <1>1 DEF NoneReturns, AllKept
<1>3. Steers \subseteq Inputs /\ Queues \subseteq Inputs
  BY DEF Inputs
<1>4. \A S \in SUBSET Inputs : Pending(S) = {} => AllKept(S)
  BY DEF Pending, AllKept
<1> QED BY <1>2, <1>3, <1>4 DEF Unforgotten

LEMMA UpsetsCounted ==
  ASSUME TypeOK, Upset
  PROVE  upsets' # 0
BY DrainAssumption DEF Upset, TypeOK

(* Where a run gets that ends, or finds nothing.                            *)
LEMMA StopLeads ==
  ASSUME IInv, run.ended = "none"
  PROVE  /\ Stop => run'.pc \in {"llm", "after"}
         /\ NothingPopped => \/ run'.pc = "peekSteers"
                             \/ run.mode = "again" /\ Stop
         /\ ConsumeNext => ~PastSteers' /\ ~Through'
         /\ \A skip \in BOOLEAN : Top(skip) => ~PastSteers' /\ ~Through'
         /\ \A how \in {"cancel", "error", "command", "cap"} : End(how) => ~PastSteers' /\ ~Through'
<1> USE DEF IInv, TypeOK, Run
<1>1. \A how \in {"cancel", "error", "command", "cap"} : End(how) => ~PastSteers' /\ ~Through'
  BY DEF End, PastSteers, Through
<1>2. \A skip \in BOOLEAN : Top(skip) => ~PastSteers' /\ ~Through'
  BY DEF Top, PastSteers, Through
<1>3. ConsumeNext => ~PastSteers' /\ ~Through'
  BY <1>1 DEF ConsumeNext, PastSteers, Through
<1>4. Stop => run'.pc \in {"llm", "after"}
  BY DEF Stop, End
<1>5. NothingPopped => run'.pc = "peekSteers" \/ (run.mode = "again" /\ Stop)
  BY DEF NothingPopped
<1> QED BY <1>1, <1>2, <1>3, <1>4, <1>5

LEMMA RunForgetsNone ==
  ASSUME IInv, Unforgotten,
         \/ DrainTask \/ ResumeFails \/ ApplyFails \/ ClaimFails \/ TurnFails
  PROVE  Unforgotten'
<1> USE DEF durable, handle, counters
<1>0. TypeOK /\ run \in Run /\ Steers \cap Queues = {} /\ Steers \subseteq Inputs /\ Queues \subseteq Inputs
      /\ draining \in BOOLEAN /\ mark \in [Inputs -> {"none", "pending", "promoted", "recorded", "deleted"}]
      /\ BatchHeld
  BY DrainAssumption DEF IInv, TypeOK, Inputs, RowsSound
<1>1. run.pc \notin {"idle", "after", "teardown"} => run.ended = "none"
  BY DEF IInv, StopsAnswered
<1>2. ASSUME ~PastSteers', ~Through'
      PROVE  Unforgotten'
  BY <1>2 DEF Unforgotten
<1>3. CASE FreshTokens
  BY <1>0, <1>2, <1>3 DEF FreshTokens, Go, Run, PastSteers, Through
<1>4. CASE Entry \/ LoopTop \/ ReadSteers \/ PromoteSteers \/ MarkSteer
  <2>1. run.ended = "none"
    BY <1>1, <1>4 DEF Entry, LoopTop, ReadSteers, PromoteSteers, MarkSteer, At
  <2>2. /\ WithoutSteers \in Run /\ WithoutSteers.pc \in {"claim", "llm"} /\ WithoutSteers.ended = "none"
        /\ WithoutSteers.pc = "claim" => WithoutSteers.mode # "again"
    <3>1. WithoutSteers \in Run
      BY <1>0, WithoutTyped
    <3>2. CASE run.drain
      BY <1>0, <2>1, <3>1, <3>2 DEF WithoutSteers, Run
    <3>3. CASE ~run.drain /\ run.skip
      BY <1>0, <2>1, <3>1, <3>3 DEF WithoutSteers, Run
    <3>4. CASE ~run.drain /\ ~run.skip
      BY <1>0, <2>1, <3>1, <3>4 DEF WithoutSteers, Run
    <3> QED BY <3>2, <3>3, <3>4
  <2>3. CASE Entry \/ LoopTop
    <3>1. \/ run' = [run EXCEPT !.pc = "top", !.drain = TRUE] \/ run' = [run EXCEPT !.pc = "steers"]
          \/ End("cancel")
      BY <2>3 DEF Entry, LoopTop, Go
    <3>2. CASE ~End("cancel")
      BY <1>0, <1>2, <3>1, <3>2 DEF PastSteers, Through, Run
    <3> QED BY <1>2, <2>1, <3>2, StopLeads
  <2>4. CASE ReadSteers
    BY <1>0, <1>2, <2>1, <2>2, <2>4 DEF ReadSteers, Run, PastSteers, Through
  <2>5. CASE PromoteSteers
    BY <1>0, <1>2, <2>1, <2>2, <2>5 DEF PromoteSteers, Run, PastSteers, Through
  <2>6. CASE MarkSteer
    <3>1. \/ run' = [run EXCEPT !.pc = "steer", !.batch = Tail(@)]
          \/ run' = [run EXCEPT !.pc = "llm", !.batch = <<>>]
          \/ End("command")
      BY <2>6 DEF MarkSteer
    <3>2. CASE ~End("command")
      BY <1>0, <1>2, <3>1, <3>2 DEF PastSteers, Through, Run
    <3> QED BY <1>2, <2>1, <3>2, StopLeads
  <2> QED BY <1>4, <2>3, <2>4, <2>5, <2>6
<1>5. CASE ApplySteer \/ ApplyFails
  <2>1. run.ended = "none"
    BY <1>1, <1>5 DEF ApplySteer, ApplyFails, At
  <2>2. CASE ApplySteer /\ ~cancel
    <3>1. run' = [run EXCEPT !.pc = "marks", !.recorded = @ \/ Head(run.batch) \notin Commands]
      BY <2>2 DEF ApplySteer
    <3>2. run'.pc = "marks"
      BY <1>0, <3>1 DEF Run
    <3> QED BY <1>2, <3>2 DEF PastSteers, Through
  <2>3. CASE ApplySteer /\ cancel
    BY <1>2, <2>1, <2>3, StopLeads DEF ApplySteer
  <2>4. CASE ApplyFails
    BY <1>2, <2>1, <2>4, StopLeads DEF ApplyFails
  <2> QED BY <1>5, <2>2, <2>3, <2>4
<1>6. CASE ClaimQueued
  <2>1. run.ended = "none" /\ run.pc = "claim" /\ UNCHANGED <<adm, effects, owed, handle, counters>>
    BY <1>1, <1>6 DEF ClaimQueued, At
  <2>2. CASE Pending(Queues) = {}
    <3>1. NothingPopped /\ mark' = mark
      BY <1>6, <2>2 DEF ClaimQueued
    <3>2. PastSteers' => PastSteers
      BY <2>1, <3>1, StopLeads DEF PastSteers, Through
    <3> QED BY <2>1, <2>2, <3>1, <3>2, LooksFirst DEF NoneReturns
  <2>3. CASE Pending(Queues) # {}
    <3> DEFINE i == Head(InOrder(Pending(Queues)))
    <3>1. mark' = [mark EXCEPT ![i] = "promoted"] /\ run' = [run EXCEPT !.pc = "guard", !.batch = <<i>>]
      BY <1>6, <2>3 DEF ClaimQueued
    <3> HIDE DEF i
    <3>2. NoneReturns(Steers) /\ run'.pc = "guard" /\ run'.mode = run.mode
      BY <1>0, <3>1 DEF NoneReturns, Run
    <3>3. ~Through' /\ (PastSteers' => PastSteers)
      BY <2>1, <3>2 DEF PastSteers, Through
    <3> QED BY <2>1, <3>2, <3>3, LooksFirst
  <2> QED BY <2>2, <2>3
<1>7. CASE ClaimFails
  <2>1. run.ended = "none" /\ run.pc = "claim" /\ UNCHANGED <<durable, handle>> /\ NothingPopped
    BY <1>1, <1>7 DEF ClaimFails, At
  <2>2. upsets' # 0
    BY <1>0, <1>7, UpsetsCounted DEF ClaimFails
  <2>3. PastSteers' => PastSteers
    BY <2>1, StopLeads DEF PastSteers, Through
  <2>4. PastSteers' /\ ~cancel => AllKept(Steers)'
    BY <2>1, <2>3 DEF Unforgotten, AllKept, Kept
  <2> QED BY <2>1, <2>2, <2>4 DEF Unforgotten
<1>8. CASE ApplyQueued
  <2>1. run.ended = "none" /\ run.pc = "guard" /\ UNCHANGED <<handle, counters>>
    BY <1>1, <1>8 DEF ApplyQueued, At
  <2>2. CASE cancel
    BY <2>1, <2>2 DEF Unforgotten
  <2>3. CASE ~cancel
    BY <1>0, <1>2, <1>8, <2>1, <2>3 DEF ApplyQueued, Go, Run, PastSteers, Through
  <2> QED BY <2>2, <2>3
<1>9. CASE MarkQueued
  <2>1. run.ended = "none" /\ run.pc = "qmark"
    BY <1>1, <1>9 DEF MarkQueued, At
  <2>2. \/ ConsumeNext \/ \E skip \in BOOLEAN : Top(skip)
        \/ run' = [run EXCEPT !.pc = "llm", !.drain = FALSE, !.streak = 0, !.batch = <<>>]
    <3>1. (Head(run.batch) \in Commands) \in BOOLEAN
      OBVIOUS
    <3>2. CASE run.mode = "drain"
      BY <1>9, <3>2 DEF MarkQueued
    <3>3. CASE run.mode # "drain"
      BY <1>9, <3>1, <3>3 DEF MarkQueued
    <3> QED BY <3>2, <3>3
  <2> QED BY <1>0, <1>2, <2>1, <2>2, StopLeads DEF Run, PastSteers, Through
<1>10. CASE PeekSteers
  <2>1. run.ended = "none" /\ run.pc = "peekSteers" /\ UNCHANGED <<durable, handle, counters>>
    BY <1>1, <1>10 DEF PeekSteers, At
  <2>2. CASE cancel \/ Pending(Steers) = {}
    <3>1. run' = [run EXCEPT !.pc = "peekQueues"]
      BY <1>10, <2>2 DEF PeekSteers, Go
    <3>2. ~Through'
      BY <1>0, <2>1, <3>1 DEF Through, Run
    <3> QED BY <2>1, <2>2, <3>2, LooksFirst DEF NoneReturns
  <2>3. CASE ~(cancel \/ Pending(Steers) = {})
    BY <1>2, <1>10, <2>1, <2>3, StopLeads DEF PeekSteers
  <2> QED BY <2>2, <2>3
<1>11. CASE PeekQueues
  <2>1. run.ended = "none" /\ run.pc = "peekQueues" /\ PastSteers /\ UNCHANGED <<durable, handle, counters>>
    BY <1>1, <1>11 DEF PeekQueues, At, PastSteers
  <2>2. CASE cancel \/ Pending(Queues) = {}
    BY <2>1, <2>2, LooksFirst DEF NoneReturns
  <2>3. CASE ~(cancel \/ Pending(Queues) = {})
    <3>1. ConsumeNext \/ run' = [run EXCEPT !.pc = "claim", !.mode = "again"]
      BY <1>11, <2>3 DEF PeekQueues
    <3>2. ~Through'
      BY <1>0, <2>1, <3>1, StopLeads DEF Through, Run
    <3> QED BY <2>1, <3>2, LooksFirst DEF NoneReturns
  <2> QED BY <2>2, <2>3
<1>12. CASE \/ TurnInterrupted \/ TurnCancelled \/ Answer \/ CallTools \/ ToolsDone \/ IdleBoundary
            \/ TurnFails \/ ResumeFails
  <2>1. run.ended = "none"
    BY <1>1, <1>12 DEF TurnInterrupted, TurnCancelled, Answer, CallTools, ToolsDone, IdleBoundary, TurnFails,
       ResumeFails, At
  <2>2. CASE TurnInterrupted \/ TurnCancelled \/ ToolsDone \/ TurnFails
    BY <1>2, <2>1, <2>2, StopLeads DEF TurnInterrupted, TurnCancelled, ToolsDone, TurnFails
  <2>3. CASE Answer \/ CallTools \/ IdleBoundary \/ ResumeFails
    BY <1>0, <1>2, <2>1, <2>3 DEF Answer, CallTools, IdleBoundary, ResumeFails, Go, Run, PastSteers, Through
  <2> QED BY <1>12, <2>2, <2>3
<1>13. CASE Reabsorb \/ Teardown
  <2>1. run.pc \in {"after", "teardown"} /\ UNCHANGED <<mark, cancel, watch, admitting, counters>>
        /\ (draining' => draining)
    BY <1>13 DEF Reabsorb, Teardown, At
  <2>2. CASE run' = [NoRun EXCEPT !.pc = "top", !.drain = TRUE, !.rechecks = run.rechecks + 1]
    BY <1>2, <2>2 DEF NoRun, PastSteers, Through
  <2>3. CASE run' \in {[run EXCEPT !.pc = "teardown"], [run EXCEPT !.pc = "idle"]}
    <3>1. (Through' => Through) /\ (PastSteers' => PastSteers)
      BY <1>0, <2>1, <2>3 DEF PastSteers, Through, Run
    <3> QED BY <2>1, <3>1, LooksFirst DEF NoneReturns
  <2> QED BY <1>13, <2>2, <2>3 DEF Reabsorb, Teardown
<1> QED BY <1>3, <1>4, <1>5, <1>6, <1>7, <1>8, <1>9, <1>10, <1>11, <1>12, <1>13 DEF DrainTask

LEMMA OthersForgetNone ==
  ASSUME IInv, Unforgotten,
         \/ \E i \in Inputs : \/ AdmitRow(i) \/ AdmitAgain(i) \/ DeleteInput(i)
                              \/ WatcherWakes(i) \/ WatcherGivesUp(i) \/ WatcherDecides(i)
         \/ AdmitDrive \/ Interrupt \/ Crash
  PROVE  Unforgotten'
<1> USE DEF durable, handle, counters
<1>0. /\ TypeOK /\ run \in Run /\ Steers \subseteq Inputs /\ Queues \subseteq Inputs
      /\ draining \in BOOLEAN /\ (draining <=> run.pc # "idle")
      /\ mark \in [Inputs -> {"none", "pending", "promoted", "recorded", "deleted"}]
      /\ watch \in [Inputs -> {"none", "polling", "woken"}]
      /\ admitting \in (Inputs \X BOOLEAN) \cup {None}
  BY DEF IInv, TypeOK, Inputs, At
<1>1. ASSUME run' = run, cancel' => cancel, cancel => cancel', upsets' = 0 => upsets = 0,
             PastSteers /\ ~cancel => \A i \in Inputs : (mark[i] = "pending" => Kept(i)) =>
                                         (mark'[i] = "pending" => Kept(i)')
      PROVE  Unforgotten'
  BY <1>0, <1>1 DEF Unforgotten, PastSteers, Through, AllKept
<1>2. ASSUME BeginDrain \/ run' = NoRun
      PROVE  Unforgotten'
  BY <1>2 DEF BeginDrain, NoRun, Unforgotten, PastSteers, Through
<1>3. ASSUME NEW i \in Inputs, AdmitRow(i) \/ AdmitAgain(i)
      PROVE  Unforgotten'
  <2>1. /\ admitting = None /\ admitting'[1] = i /\ admitting' # None
        /\ \A j \in Inputs : j # i => mark'[j] = mark[j]
        /\ UNCHANGED <<draining, cancel, watch, run, upsets>>
    <3>1. (\E inserted \in BOOLEAN : admitting' = <<i, inserted>>) /\ admitting = None
      BY <1>3 DEF AdmitRow, AdmitAgain, Unlocked
    <3>2. admitting'[1] = i /\ admitting' # None
      <4>1. PICK inserted \in BOOLEAN : admitting' = <<i, inserted>>
        BY <3>1
      <4>2. admitting' \in Inputs \X BOOLEAN /\ admitting'[1] = i
        BY <4>1
      <4> QED BY <4>2, DrainAssumption, Zenon
    <3>3. UNCHANGED <<draining, cancel, watch, run, upsets>> /\ \A j \in Inputs : j # i => mark'[j] = mark[j]
      BY <1>0, <1>3 DEF AdmitRow, AdmitAgain
    <3> QED BY <3>1, <3>2, <3>3
  <2> QED BY <1>1, <2>1 DEF Kept
<1>4. ASSUME NEW i \in Inputs, DeleteInput(i)
      PROVE  Unforgotten'
  BY <1>0, <1>1, <1>4 DEF DeleteInput, Kept
<1>5. ASSUME NEW i \in Inputs, WatcherWakes(i)
      PROVE  Unforgotten'
  BY <1>0, <1>1, <1>5 DEF WatcherWakes, Kept
<1>6. ASSUME NEW i \in Inputs, WatcherGivesUp(i)
      PROVE  Unforgotten'
  BY <1>0, <1>6 DEF WatcherGivesUp, Unforgotten, PastSteers, Through
<1>7. ASSUME NEW i \in Inputs, WatcherDecides(i)
      PROVE  Unforgotten'
  <2>1. CASE BeginDrain
    BY <1>2, <2>1
  <2>2. CASE ~BeginDrain
    <3>1. /\ UNCHANGED <<draining, run, mark, cancel, admitting, upsets>>
          /\ watch[i] = "woken" /\ watch' = [watch EXCEPT ![i] = "none"] /\ admitting = None
          /\ draining \/ Pending(Inputs) = {} \/ cancel
      BY <1>7, <2>2 DEF WatcherDecides, Unlocked
    <3>2. ~cancel => \A j \in Inputs : mark[j] = "pending" /\ Kept(j) => Kept(j)'
      BY <1>0, <3>1 DEF Kept, Pending
    <3> QED BY <1>1, <3>1, <3>2
  <2> QED BY <2>1, <2>2
<1>8. CASE AdmitDrive
  <2>1. CASE BeginDrain
    BY <1>2, <2>1
  <2>2. CASE ~BeginDrain
    <3>1. /\ UNCHANGED <<draining, run, mark, cancel, upsets>> /\ draining
          /\ watch' = [watch EXCEPT ![admitting[1]] = "polling"] /\ admitting # None
      BY <1>8, <2>2 DEF AdmitDrive
    <3>2. admitting[1] \in Inputs
      BY <1>0, <3>1
    <3>3. \A j \in Inputs : Kept(j) => Kept(j)'
      BY <1>0, <3>1, <3>2 DEF Kept
    <3> QED BY <1>1, <3>1, <3>3
  <2> QED BY <2>1, <2>2
<1>9. CASE Interrupt
  BY <1>9 DEF Interrupt, Unforgotten
<1>10. CASE Crash
  BY <1>2, <1>10 DEF Crash
<1> QED BY <1>3, <1>4, <1>5, <1>6, <1>7, <1>8, <1>9, <1>10

THEOREM NoneForgotten == Spec => [](IInv /\ Unforgotten)
<1>1. Init => IInv /\ Unforgotten
  BY InitIInv DEF Init, NoRun, Unforgotten, PastSteers, Through
<1>2. IInv /\ Unforgotten /\ [Next]_vars => (IInv /\ Unforgotten)'
  <2> SUFFICES ASSUME IInv, Unforgotten, [Next]_vars
               PROVE  Unforgotten'
    BY StepKeeps
  <2>1. CASE UNCHANGED vars
    BY <2>1 DEF vars, durable, handle, counters, Unforgotten, PastSteers, Through, AllKept, Kept
  <2> QED BY <2>1, RunForgetsNone, OthersForgetNone DEF Next, Failure
<1> QED BY <1>1, <1>2, PTL DEF Spec

(* A run that found nothing left strands nothing: whatever was admitted     *)
(* after its last look has an admission or a watcher that will take it.     *)
THEOREM NoneStranded == Spec => []NothingStranded
<1>1. IInv /\ Unforgotten => NothingStranded
  <2> SUFFICES ASSUME IInv, Unforgotten, At("idle"), run.ended = "done", ~cancel,
                      NEW i \in Pending(Inputs), i \in Steers \/ upsets = 0
               PROVE  Attends(i)
    BY DEF NothingStranded
  <2>1. Through /\ PastSteers /\ mark[i] = "pending" /\ (i \in Steers \/ i \in Queues)
    BY DEF At, Through, PastSteers, Pending, Inputs
  <2>2. Kept(i)
    BY <2>1 DEF Unforgotten, AllKept
  <2> QED BY <2>2 DEF Kept, Attends
<1> QED BY <1>1, NoneForgotten, PTL
===============================================================================
