--------------------------- MODULE IndexReportProofs ---------------------------
(***************************************************************************)
(* Machine-checked facts about index reports, for any executions, host     *)
(* processes and connections, and any length of the history.               *)
(***************************************************************************)
EXTENDS IndexReport, FiniteSetTheorems, TLAPS

(* The log only gains rows whose revision is new.                           *)
Grows(old, new) ==
  /\ old.revision <= new.revision
  /\ \A e \in Execution : new.at[e] <= old.revision =>
       new.at[e] = old.at[e] /\ new.rows[e] = old.rows[e]

LEMMA Typed ==
  ASSUME TypeOK
  PROVE  /\ \A c \in Connection :
              /\ link[c] \in Link /\ Host(c) = link[c].host /\ link[c].host \in Generation
              /\ link[c].held \in [Execution -> Listed] /\ link[c].committed \in Number
              /\ link[c].heldAt \in Number /\ link[c].pending \subseteq Execution
              /\ link[c].source # None => /\ link[c].source \in Source
                                         /\ link[c].source.revision \in Nat
                                         /\ link[c].source.sequence \in Nat
              /\ link[c].report # None => /\ link[c].report \in Report
                                         /\ link[c].report.revision \in Nat
                                         /\ link[c].report.sequence \in Nat
                                         /\ link[c].report.base \in Number
                                         /\ link[c].report.ids \subseteq Execution
                                         /\ link[c].report.rows \in [Execution -> Listed]
         /\ \A g \in Generation :
              /\ g \in Nat /\ sequence[g] \in Nat /\ log[g] \in Entry /\ log[g].revision \in Nat
              /\ log[g].rows \in [Execution -> Listed]
              /\ \A e \in Execution : log[g].at[e] \in Nat /\ log[g].at[e] <= log[g].revision
         /\ wm # None => /\ wm \in Watermark /\ wm.generation \in Generation /\ wm.generation \in Nat
                         /\ wm.sequence \in Nat
<1>1. \A c \in Connection : link[c] \in Link
  BY DEF TypeOK
<1>2. \A c \in Connection :
        /\ link[c].source \in Source \cup {None} /\ link[c].report \in Report \cup {None}
        /\ link[c].host \in Generation
        /\ link[c].held \in [Execution -> Listed] /\ link[c].committed \in Number
        /\ link[c].heldAt \in Number /\ link[c].pending \subseteq Execution
  BY <1>1 DEF Link
<1>3. \A g \in Generation : log[g] \in Entry /\ sequence[g] \in Nat /\ g \in Nat
  BY ReportAssumption DEF TypeOK
<1>4. \A g \in Generation : /\ log[g].revision \in Nat /\ log[g].rows \in [Execution -> Listed]
                            /\ \A e \in Execution : log[g].at[e] \in Nat
  BY <1>3 DEF Entry
<1>5. wm # None => wm \in Watermark
  BY DEF TypeOK
<1>6. \A s \in Source : s.revision \in Nat /\ s.sequence \in Nat
  BY DEF Source
<1>7. \A p \in Report : /\ p.revision \in Nat /\ p.sequence \in Nat /\ p.base \in Number
                        /\ p.ids \subseteq Execution /\ p.rows \in [Execution -> Listed]
  BY DEF Report
<1>8. \A w \in Watermark : w.generation \in Generation /\ w.sequence \in Nat
  BY DEF Watermark
<1>9. \A g \in Generation, e \in Execution : log[g].at[e] <= log[g].revision
  BY DEF TypeOK
<1> QED BY <1>1, <1>2, <1>3, <1>4, <1>5, <1>6, <1>7, <1>8, <1>9, ReportAssumption DEF Host

(***************************************************************************)
(* The other connections, when one moves.                                  *)
(***************************************************************************)
(* What the server writes, if it writes, is the report of the connection.   *)
Written(c) ==
  \/ wm' = wm /\ row' = row
  \/ /\ link[c].report # None /\ ~Older(c)
     /\ wm' = [generation |-> Host(c), sequence |-> link[c].report.sequence]

Steady(c) ==
  /\ runtime' = runtime
  /\ \A g \in Generation : sequence[g] <= sequence'[g] /\ Grows(log[g], log'[g])
  /\ Written(c)

LEMMA LogContents ==
  ASSUME TypeOK, NEW c \in Connection, NEW new \in Entry, Contents(link[c], log[link[c].host]),
         Grows(log[link[c].host], new)
  PROVE  Contents(link[c], new)
<1> DEFINE l == link[c]
           old == log[l.host]
<1>1. /\ old.revision \in Nat /\ new.revision \in Nat /\ \A e \in Execution : new.at[e] \in Nat
      /\ l.source # None => l.source.revision \in Nat
      /\ l.report # None => l.report.revision \in Nat
  BY Typed DEF Entry
<1>2. l.source # None =>
        /\ l.source.revision <= new.revision
        /\ l.heldAt = l.source.sequence =>
             \A e \in Execution : new.at[e] <= l.source.revision => new.rows[e] = l.held[e]
  BY <1>1 DEF Contents, Grows
<1>3. l.report # None =>
        /\ l.report.revision <= new.revision
        /\ \A e \in Execution : new.at[e] <= l.report.revision => new.rows[e] = l.report.rows[e]
  BY <1>1 DEF Contents, Grows
<1> QED BY <1>2, <1>3 DEF Contents

LEMMA OthersStand ==
  ASSUME IInv, NEW c \in Connection, NEW d \in Connection, c # d, Steady(c), link'[d] = link[d],
         log' \in [Generation -> Entry], sequence' \in [Generation -> Nat]
  PROVE  Sound(d)'
<1> DEFINE l == link[d]
<1>1. /\ TypeOK /\ Baseline(l, wm) /\ Contents(l, log[l.host]) /\ Follows(l, wm) /\ Numbered(l, wm)
      /\ NumbersDiffer(link[c], l)
  BY DEF IInv, Sound, Host
<1>2. /\ l.host \in Generation /\ l.host \in Nat /\ Host(c) = link[c].host /\ Host(c) \in Nat
      /\ l.source # None => l.source.sequence \in Nat
      /\ l.report # None => l.report.sequence \in Nat
      /\ l.heldAt # None => l.heldAt \in Nat
      /\ wm # None => wm.generation \in Nat
      /\ sequence[l.host] \in Nat /\ sequence'[l.host] \in Nat
      /\ sequence[l.host] <= sequence'[l.host]
      /\ Grows(log[l.host], log'[l.host]) /\ log'[l.host] \in Entry
  BY <1>1, Typed DEF Steady, Number
<1>3. Behind(l, wm) => Behind(l, wm')
  BY <1>1, <1>2, ReportAssumption, Typed DEF Steady, Written, Behind, Older, Watermark
<1>4. Baseline(l, wm')
  BY <1>1, <1>3 DEF Baseline
<1>5. Contents(l, log'[l.host])
  BY <1>1, <1>2, LogContents
<1>6. Follows(l, wm)'
  BY <1>1, <1>2 DEF Steady, Written, Follows, NumbersDiffer
<1>7. Numbered(l, wm)'
  BY <1>1, <1>2 DEF Steady, Written, Numbered, NumbersDiffer
<1> QED BY <1>4, <1>5, <1>6, <1>7 DEF Sound, Host, Baseline, Behind

LEMMA OneMoves ==
  ASSUME IInv, NEW c \in Connection, NEW l \in Link, link' = [link EXCEPT ![c] = l], Steady(c),
         log' \in [Generation -> Entry], sequence' \in [Generation -> Nat],
         \A g \in Generation, e \in Execution : log'[g].at[e] <= log'[g].revision,
         row' \in [Execution -> Listed \cup {"error"}],
         Baseline(l, wm'), Contents(l, log'[l.host]), Follows(l, wm)', Numbered(l, wm)',
         \A d \in Connection : d # c => NumbersDiffer(l, link[d]) /\ NumbersDiffer(link[d], l)
  PROVE  IInv'
<1>1. link' \in [Connection -> Link] /\ link'[c] = l /\ \A d \in Connection : d # c => link'[d] = link[d]
  BY DEF IInv, TypeOK
<1>2. TypeOK
  BY DEF IInv
<1>3. wm' \in Watermark \cup {None} /\ (wm' # None => wm'.sequence <= sequence'[wm'.generation])
  <2>1. CASE wm' = wm
    <3>1. wm # None => /\ wm.generation \in Generation /\ wm.sequence \in Nat
                       /\ sequence[wm.generation] \in Nat /\ sequence'[wm.generation] \in Nat
                       /\ wm.sequence <= sequence[wm.generation]
                       /\ sequence[wm.generation] <= sequence'[wm.generation]
      BY <1>2, Typed DEF IInv, Steady
    <3> QED BY <1>2, <2>1, <3>1 DEF TypeOK
  <2>2. CASE /\ link[c].report # None
             /\ wm' = [generation |-> Host(c), sequence |-> link[c].report.sequence]
    <3>1. Numbered(link[c], wm)
      BY DEF IInv, Sound
    <3>2. /\ link[c].host \in Generation /\ Host(c) = link[c].host /\ link[c].report.sequence \in Nat
          /\ sequence[link[c].host] \in Nat /\ sequence'[link[c].host] \in Nat
          /\ sequence[link[c].host] <= sequence'[link[c].host]
      BY <1>2, <2>2, Typed DEF Steady
    <3> QED BY <2>2, <3>1, <3>2 DEF Numbered, Watermark
  <2> QED BY <2>1, <2>2 DEF Steady, Written
<1>4. TypeOK'
  BY <1>1, <1>2, <1>3 DEF TypeOK, Steady
<1>5. ASSUME NEW d \in Connection
      PROVE  Sound(d)'
  <2>1. CASE d = c
    BY <1>1, <2>1 DEF Sound, Baseline, Behind, Contents, Follows, Numbered, Host
  <2>2. CASE d # c
    BY <1>1, <2>2, OthersStand
  <2> QED BY <2>1, <2>2
<1>6. \A d, k \in Connection : d # k => NumbersDiffer(link[d], link[k])'
  BY <1>1 DEF IInv, NumbersDiffer
<1> QED BY <1>3, <1>4, <1>5, <1>6 DEF IInv

LEMMA EntriesStay ==
  ASSUME TypeOK, UNCHANGED <<log, sequence>>
  PROVE  /\ log' \in [Generation -> Entry] /\ sequence' \in [Generation -> Nat]
         /\ \A g \in Generation, e \in Execution : log'[g].at[e] <= log'[g].revision
         /\ \A g \in Generation : sequence[g] <= sequence'[g] /\ Grows(log[g], log'[g])
<1>1. log' = log /\ sequence' = sequence
  OBVIOUS
<1>2. \A g \in Generation : sequence[g] \in Nat /\ log[g].revision \in Nat
  BY Typed
<1> QED BY <1>1, <1>2 DEF TypeOK, Grows

(***************************************************************************)
(* The node.                                                               *)
(***************************************************************************)
(* What a runtime does to an execution, and a user who clears it.           *)
LEMMA JournalKeeps ==
  ASSUME IInv, NEW e \in Execution, RuntimeStep(e) \/ Clear(e)
  PROVE  IInv'
<1>1. PICK state \in {"pending", "done", "forgotten"} :
        /\ runtime' = [runtime EXCEPT ![e] = state] /\ runtime[e] # "forgotten"
        /\ row' = row \/ (row' = [row EXCEPT ![e] = "absent"] /\ state = "forgotten")
  BY DEF RuntimeStep, Clear, Change
<1>2. UNCHANGED <<log, sequence, link, wm>>
  BY DEF RuntimeStep, Clear
<1>3. TypeOK'
  BY <1>1, <1>2 DEF IInv, TypeOK, Listed
<1>4. ASSUME NEW f \in Execution, runtime'[f] # "forgotten"
      PROVE  runtime[f] # "forgotten" /\ row'[f] = row[f]
  BY <1>1, <1>4 DEF IInv, TypeOK
<1>5. \A c \in Connection : Follows(link[c], wm)'
  BY <1>2, <1>4 DEF IInv, Sound, Follows
<1>6. \A c \in Connection : Sound(c)'
  BY <1>2, <1>5 DEF IInv, Sound, Baseline, Behind, Contents, Numbered, Host
<1> QED BY <1>2, <1>3, <1>6 DEF IInv, NumbersDiffer

LEMMA ReconnectKeeps ==
  ASSUME IInv, NEW c \in Connection, Reconnect(c)
  PROVE  IInv'
<1>1. PICK g \in Generation : link' = [link EXCEPT ![c] = Fresh(g)]
  BY DEF Reconnect
<1>2. UNCHANGED <<runtime, log, sequence, wm, row>>
  BY DEF Reconnect
<1> DEFINE l == Fresh(g)
<1>3. /\ l \in Link /\ l.stage = "idle" /\ l.host = g /\ l.source = None /\ l.report = None
      /\ ~l.completed /\ l.committed = None /\ l.heldAt = None /\ l.pending = {}
  BY ReportAssumption DEF Fresh, Link, Number, Nothing, Listed
<1> HIDE DEF l
<1>4. TypeOK /\ Steady(c)
  BY <1>2, EntriesStay DEF IInv, Steady, Written
<1>5. Baseline(l, wm') /\ Contents(l, log'[l.host]) /\ Follows(l, wm)' /\ Numbered(l, wm)'
  BY <1>3 DEF Baseline, Contents, Follows, Numbered
<1>6. \A d \in Connection : d # c => NumbersDiffer(l, link[d]) /\ NumbersDiffer(link[d], l)
  BY <1>3 DEF NumbersDiffer
<1>7. row' \in [Execution -> Listed \cup {"error"}]
  BY <1>2, <1>4 DEF TypeOK
<1>8. link' = [link EXCEPT ![c] = l]
  BY <1>1 DEF l
<1> QED BY <1>2, <1>3, <1>4, <1>5, <1>6, <1>7, <1>8, OneMoves, EntriesStay

LEMMA RefreshedGrows ==
  ASSUME TypeOK, NEW g \in Generation
  PROVE  /\ Refreshed(g) \in Entry /\ Grows(log[g], Refreshed(g))
         /\ \A e \in Execution : Refreshed(g).at[e] <= Refreshed(g).revision
<1> DEFINE changed == {e \in Execution : log[g].rows[e] # Shown(e)}
           new == log[g].revision + Cardinality(changed)
<1>1. /\ log[g].revision \in Nat
      /\ \A e \in Execution : log[g].at[e] \in Nat /\ log[g].at[e] <= log[g].revision
  BY Typed
<1>2. IsFiniteSet(changed) /\ Cardinality(changed) \in Nat
  BY ReportAssumption, FS_Subset, FS_CardinalityType
<1>3. \A e \in Execution : e \in changed => Cardinality(changed) # 0
  BY <1>2, FS_EmptySet
<1>4. \A e \in Execution : Shown(e) \in Listed
  BY DEF TypeOK, Shown, Listed
<1> DEFINE entry == Refreshed(g)
<1>5. /\ entry.rows = [e \in Execution |-> Shown(e)] /\ entry.revision = new
      /\ entry.at = [e \in Execution |-> IF e \in changed THEN new ELSE log[g].at[e]]
      /\ entry = [rows |-> entry.rows, at |-> entry.at, revision |-> entry.revision]
  BY DEF Refreshed
<1> HIDE DEF entry
<1>6. new \in Nat /\ log[g].revision <= new
  BY <1>1, <1>2
<1>7. \A e \in Execution : e \in changed => new > log[g].revision
  BY <1>1, <1>2, <1>3
<1>8. entry \in Entry /\ \A e \in Execution : entry.at[e] <= entry.revision
  <2> HIDE DEF changed, new
  <2>1. entry.at \in [Execution -> Nat] /\ entry.rows \in [Execution -> Listed]
    BY <1>1, <1>4, <1>5, <1>6
  <2>2. entry \in Entry
    BY <1>5, <1>6, <2>1 DEF Entry
  <2>3. ASSUME NEW e \in Execution
        PROVE  entry.at[e] <= entry.revision
    BY <1>1, <1>5, <1>6
  <2> QED BY <2>2, <2>3
<1>9. Grows(log[g], entry)
  <2>1. ASSUME NEW e \in Execution, entry.at[e] <= log[g].revision
        PROVE  entry.at[e] = log[g].at[e] /\ entry.rows[e] = log[g].rows[e]
    <3>1. e \notin changed
      BY <1>1, <1>5, <1>6, <1>7, <2>1
    <3> QED BY <1>5, <3>1
  <2> QED BY <1>5, <1>6, <2>1 DEF Grows
<1> QED BY <1>8, <1>9 DEF entry

(* A report repeats the log; a delta leaves out only what its baseline has. *)
LEMMA SendKeeps ==
  ASSUME IInv, NEW c \in Connection, link[c].stage = "idle", NEW entry, entry = Refreshed(Host(c)),
         log' = [log EXCEPT ![Host(c)] = entry], UNCHANGED <<runtime, wm, row>>,
         NEW base, NEW ids, Send(c, entry, base, ids),
         \/ base = None /\ ids = Execution
         \/ /\ link[c].source # None /\ base = link[c].source.sequence
            /\ ids = {e \in Execution : entry.at[e] > link[c].source.revision}
  PROVE  IInv'
<1> DEFINE g == link[c].host
           next == sequence[g] + 1
           report == [sequence |-> next, revision |-> entry.revision, base |-> base, ids |-> ids,
                      rows |-> entry.rows]
           stage == IF link[c].completed THEN "begun" ELSE "sent"
<1>. PICK l : l = [link[c] EXCEPT !.stage = stage, !.report = report]
  OBVIOUS
<1>1. /\ TypeOK /\ Sound(c) /\ Baseline(link[c], wm) /\ link[c] \in Link /\ Host(c) = g /\ g \in Generation
      /\ sequence[g] \in Nat /\ next \in Nat /\ link[c].report = None
  BY Typed DEF IInv, Sound, Baseline
<1>2. /\ entry \in Entry /\ Grows(log[g], entry) /\ entry.revision \in Nat /\ entry.rows \in [Execution -> Listed]
      /\ \A e \in Execution : entry.at[e] \in Nat /\ entry.at[e] <= entry.revision
  BY <1>1, RefreshedGrows DEF Entry
<1>3. base = None \/ base = link[c].committed
  BY <1>1 DEF Baseline
<1>4. base \in Number /\ ids \subseteq Execution
  BY <1>1, Typed DEF Number
<1>5. report \in Report /\ report # None
  BY <1>1, <1>2, <1>4, ReportAssumption DEF Report
<1>6. /\ l \in Link /\ l.stage = stage /\ l.report = report
      /\ l.host = g /\ l.source = link[c].source /\ l.completed = link[c].completed
      /\ l.committed = link[c].committed /\ l.heldAt = link[c].heldAt /\ l.held = link[c].held
      /\ l.pending = link[c].pending
  BY <1>1, <1>5 DEF Link
<1>7. link' = [link EXCEPT ![c] = l] /\ sequence' = [sequence EXCEPT ![g] = next]
  BY <1>1, <1>3 DEF Send
<1>8. /\ report.sequence = next /\ report.revision = entry.revision /\ report.base = base
      /\ report.ids = ids /\ report.rows = entry.rows
  OBVIOUS
<1> HIDE DEF report
<1>9. /\ log' \in [Generation -> Entry] /\ log'[g] = entry
      /\ \A h \in Generation : h # g => log'[h] = log[h]
      /\ sequence' \in [Generation -> Nat] /\ sequence'[g] = next
      /\ \A h \in Generation : h # g => sequence'[h] = sequence[h]
  BY <1>1, <1>2, <1>7 DEF TypeOK
<1>10. /\ \A h \in Generation, e \in Execution : log'[h].at[e] <= log'[h].revision
       /\ \A h \in Generation : sequence[h] <= sequence'[h] /\ Grows(log[h], log'[h])
  <2>1. \A h \in Generation : /\ sequence[h] \in Nat /\ log[h].revision \in Nat
                              /\ \A e \in Execution : log[h].at[e] <= log[h].revision
    BY <1>1, Typed
  <2> QED BY <1>2, <1>9, <2>1 DEF Grows
<1>11. Steady(c)
  BY <1>10 DEF Steady, Written
<1>12. Baseline(l, wm')
  BY <1>1, <1>5, <1>6, <1>8 DEF Baseline, Behind
<1>13. Contents(l, log'[l.host])
  <2>1. Contents(link[c], entry)
    BY <1>1, <1>2, LogContents DEF Sound
  <2>2. base # None /\ l.heldAt = base => \A e \in Execution \ ids : entry.rows[e] = l.held[e]
    <3> SUFFICES ASSUME base # None, l.heldAt = base, NEW e \in Execution \ ids
                 PROVE  entry.rows[e] = l.held[e]
      OBVIOUS
    <3>1. /\ link[c].source # None /\ base = link[c].source.sequence /\ e \in Execution
          /\ link[c].source.revision \in Nat /\ ~(entry.at[e] > link[c].source.revision)
      BY <1>1, Typed
    <3>2. entry.at[e] <= link[c].source.revision
      BY <1>2, <3>1
    <3> QED BY <1>6, <2>1, <3>1, <3>2 DEF Contents
  <2>3. base = None => ids = Execution
    BY <1>1, Typed, ReportAssumption
  <2>4. /\ l.report.revision <= entry.revision
        /\ \A e \in Execution : entry.at[e] <= l.report.revision => entry.rows[e] = l.report.rows[e]
    BY <1>2, <1>6, <1>8
  <2>5. /\ l.report.base = None => l.report.ids = Execution
        /\ l.report.base # None /\ l.heldAt = l.report.base =>
              \A e \in Execution \ l.report.ids : l.report.rows[e] = l.held[e]
    BY <1>6, <1>8, <2>2, <2>3
  <2> QED BY <1>6, <1>9, <2>1, <2>4, <2>5 DEF Contents
<1>14. Follows(l, wm)'
  BY <1>1, <1>6 DEF Sound, Follows
<1>15. Numbered(l, wm)'
  <2>1. /\ l.source # None => l.source.sequence \in Nat /\ l.source.sequence <= sequence[g]
        /\ l.heldAt # None => l.heldAt \in Nat /\ l.heldAt <= sequence[g]
    BY <1>1, <1>6, Typed DEF Sound, Numbered, Number
  <2>2. wm # [generation |-> g, sequence |-> next]
    <3>1. wm # None => wm.sequence <= sequence[wm.generation]
      BY DEF IInv
    <3>2. [generation |-> g, sequence |-> next] \in Watermark
      BY <1>1 DEF Watermark
    <3> QED BY <1>1, <3>1, <3>2, ReportAssumption
  <2> QED BY <1>1, <1>6, <1>8, <1>9, <2>1, <2>2, ReportAssumption DEF Numbered
<1>16. \A d \in Connection : d # c => NumbersDiffer(l, link[d]) /\ NumbersDiffer(link[d], l)
  <2> SUFFICES ASSUME NEW d \in Connection, d # c
               PROVE  NumbersDiffer(l, link[d]) /\ NumbersDiffer(link[d], l)
    OBVIOUS
  <2>1. NumbersDiffer(link[d], link[c]) /\ Numbered(link[d], wm)
    BY DEF IInv, Sound
  <2>2. /\ link[d].source # None => link[d].source.sequence \in Nat
        /\ link[d].report # None => link[d].report.sequence \in Nat
    BY <1>1, Typed
  <2> QED BY <1>1, <1>6, <1>8, <2>1, <2>2 DEF NumbersDiffer, Numbered
<1>17. row' \in [Execution -> Listed \cup {"error"}]
  BY <1>1 DEF TypeOK
<1> QED BY <1>6, <1>7, <1>9, <1>10, <1>11, <1>12, <1>13, <1>14, <1>15, <1>16, <1>17, OneMoves

(* The cursor may move without a report when nothing changed after it.      *)
LEMMA NothingKeeps ==
  ASSUME IInv, NEW c \in Connection, link[c].stage = "idle", NEW entry, entry = Refreshed(Host(c)),
         log' = [log EXCEPT ![Host(c)] = entry], UNCHANGED <<runtime, wm, row>>,
         link[c].source # None, CollectNothing(c, entry),
         {e \in Execution : entry.at[e] > link[c].source.revision} = {}
  PROVE  IInv'
<1> DEFINE g == link[c].host
           source == [link[c].source EXCEPT !.revision = entry.revision]
<1>. PICK l : l = [link[c] EXCEPT !.source = source]
  OBVIOUS
<1>1. /\ TypeOK /\ Sound(c) /\ Baseline(link[c], wm) /\ link[c] \in Link /\ Host(c) = g /\ g \in Generation
      /\ link[c].report = None /\ link[c].source \in Source /\ link[c].source.revision \in Nat
  BY Typed DEF IInv, Sound, Baseline
<1>2. /\ entry \in Entry /\ Grows(log[g], entry) /\ entry.revision \in Nat
      /\ \A e \in Execution : entry.at[e] \in Nat /\ entry.at[e] <= entry.revision
  BY <1>1, RefreshedGrows DEF Entry
<1>3. /\ source \in Source /\ source # None /\ source.revision = entry.revision
      /\ source.sequence = link[c].source.sequence
  BY <1>1, <1>2, ReportAssumption DEF Source
<1>4. sequence' = sequence /\ link' = [link EXCEPT ![c] = l]
  BY DEF CollectNothing
<1> HIDE DEF source
<1>5. /\ l \in Link /\ l.source = source
      /\ l.stage = "idle" /\ l.report = None /\ l.host = g /\ l.completed = link[c].completed
      /\ l.committed = link[c].committed /\ l.heldAt = link[c].heldAt /\ l.held = link[c].held
      /\ l.pending = link[c].pending
  BY <1>1, <1>3 DEF Link
<1>6. /\ log' \in [Generation -> Entry] /\ log'[g] = entry
      /\ \A h \in Generation : h # g => log'[h] = log[h]
      /\ sequence' \in [Generation -> Nat]
  BY <1>1, <1>2, <1>4 DEF TypeOK
<1>7. /\ \A h \in Generation, e \in Execution : log'[h].at[e] <= log'[h].revision
      /\ \A h \in Generation : sequence[h] <= sequence'[h] /\ Grows(log[h], log'[h])
  <2>1. \A h \in Generation : /\ sequence[h] \in Nat /\ log[h].revision \in Nat
                              /\ \A e \in Execution : log[h].at[e] <= log[h].revision
    BY <1>1, Typed
  <2> QED BY <1>2, <1>4, <1>6, <2>1 DEF Grows
<1>8. Steady(c)
  BY <1>7 DEF Steady, Written
<1>9. Baseline(l, wm')
  BY <1>1, <1>3, <1>5 DEF Baseline, Behind
<1>10. Contents(l, log'[l.host])
  <2>1. Contents(link[c], entry)
    BY <1>1, <1>2, LogContents DEF Sound
  <2>2. \A e \in Execution : entry.at[e] <= link[c].source.revision
    BY <1>1, <1>2
  <2> QED BY <1>1, <1>2, <1>3, <1>5, <1>6, <2>1, <2>2 DEF Contents
<1>11. Follows(l, wm)' /\ Numbered(l, wm)'
  BY <1>1, <1>3, <1>4, <1>5 DEF Sound, Follows, Numbered
<1>12. \A d \in Connection : d # c => NumbersDiffer(l, link[d]) /\ NumbersDiffer(link[d], l)
  BY <1>1, <1>3, <1>5 DEF IInv, NumbersDiffer
<1>13. row' \in [Execution -> Listed \cup {"error"}]
  BY <1>1 DEF TypeOK
<1> QED BY <1>4, <1>5, <1>6, <1>7, <1>8, <1>9, <1>10, <1>11, <1>12, <1>13, OneMoves

LEMMA CollectKeeps ==
  ASSUME IInv, NEW c \in Connection, Collect(c)
  PROVE  IInv'
<1> DEFINE entry == Refreshed(Host(c))
           source == link[c].source
           ids == {e \in Execution : entry.at[e] > source.revision}
<1>1. /\ link[c].stage = "idle" /\ log' = [log EXCEPT ![Host(c)] = entry]
      /\ UNCHANGED <<runtime, wm, row>>
      /\ \/ Send(c, entry, None, Execution)
         \/ source # None /\ ids = {} /\ CollectNothing(c, entry)
         \/ source # None /\ Send(c, entry, source.sequence, ids)
  BY DEF Collect
<1> HIDE DEF entry
<1>2. entry = Refreshed(Host(c))
  BY DEF entry
<1>3. CASE Send(c, entry, None, Execution)
  BY <1>1, <1>2, <1>3, SendKeeps
<1>4. CASE source # None /\ ids = {} /\ CollectNothing(c, entry)
  BY <1>1, <1>2, <1>4, NothingKeeps
<1>5. CASE source # None /\ Send(c, entry, source.sequence, ids)
  BY <1>1, <1>2, <1>5, SendKeeps
<1> QED BY <1>1, <1>3, <1>4, <1>5

(***************************************************************************)
(* The server.                                                             *)
(***************************************************************************)
(* What stands at the connection, its node and the index while the server works. *)
LEMMA ServerSteady ==
  ASSUME IInv, NEW c \in Connection, UNCHANGED <<runtime, log, sequence>>, Written(c)
  PROVE  /\ TypeOK /\ Sound(c) /\ Steady(c)
         /\ log' \in [Generation -> Entry] /\ sequence' \in [Generation -> Nat]
         /\ \A g \in Generation, e \in Execution : log'[g].at[e] <= log'[g].revision
<1>1. TypeOK /\ Sound(c)
  BY DEF IInv
<1> QED BY <1>1, EntriesStay DEF Steady

(* A step of the stage alone, possibly with the rows that may be recovered.  *)
LEMMA StageKeeps ==
  ASSUME IInv, NEW c \in Connection, NEW stage \in {"begun", "rebuild"}, NEW pending \in SUBSET Execution,
         link' = [link EXCEPT ![c].stage = stage, ![c].pending = pending],
         UNCHANGED <<runtime, log, sequence, wm, row>>, link[c].report # None,
         pending # {} => link[c].source = None,
         stage = "rebuild" => ~Older(c)
  PROVE  IInv'
<1>. PICK l : l = [link[c] EXCEPT !.stage = stage, !.pending = pending]
  OBVIOUS
<1>1. TypeOK /\ Sound(c) /\ Steady(c) /\ Baseline(link[c], wm) /\ link[c] \in Link /\ Host(c) = link[c].host
  BY ServerSteady, Typed DEF Written, Sound
<1>2. /\ l \in Link /\ l.stage = stage /\ l.host = link[c].host /\ l.source = link[c].source
      /\ l.report = link[c].report /\ l.completed = link[c].completed
      /\ l.committed = link[c].committed /\ l.heldAt = link[c].heldAt /\ l.held = link[c].held
      /\ l.pending = pending
  BY <1>1 DEF Link
<1>3. link' = [link EXCEPT ![c] = l]
  BY <1>1 DEF TypeOK
<1>4. stage = "rebuild" => ~Behind(link[c], wm)
  BY <1>1 DEF Older, Behind
<1>5. Baseline(l, wm')
  BY <1>1, <1>2, <1>4 DEF Baseline, Behind
<1>6. Contents(l, log'[l.host])
  BY <1>1, <1>2 DEF Sound, Contents
<1>7. Follows(l, wm)' /\ Numbered(l, wm)'
  BY <1>1, <1>2 DEF Sound, Follows, Numbered
<1>8. \A d \in Connection : d # c => NumbersDiffer(l, link[d]) /\ NumbersDiffer(link[d], l)
  BY <1>2 DEF IInv, NumbersDiffer
<1>9. row' \in [Execution -> Listed \cup {"error"}]
  BY <1>1 DEF TypeOK
<1> QED BY <1>1, <1>2, <1>3, <1>5, <1>6, <1>7, <1>8, <1>9, OneMoves, ServerSteady DEF Written

(* A report that fits the held inventory turns it into what the host collected. *)
LEMMA MergedWhole ==
  ASSUME IInv, NEW c \in Connection, link[c].report # None,
         link[c].report.base # None => link[c].heldAt = link[c].report.base
  PROVE  Merged(c) = link[c].report.rows
<1>1. TypeOK /\ Contents(link[c], log[link[c].host])
  BY DEF IInv, Sound, Host
<1>2. link[c].report.rows \in [Execution -> Listed]
  BY <1>1, Typed
<1>3. \A e \in Execution \ link[c].report.ids : link[c].report.rows[e] = link[c].held[e]
  BY <1>1 DEF Contents
<1> QED BY <1>2, <1>3 DEF Merged

LEMMA DoneKeeps ==
  ASSUME IInv, NEW c \in Connection, link[c].report # None, NEW keep \in BOOLEAN, Done(c, keep),
         UNCHANGED <<runtime, log, sequence>>,
         row' \in [Execution -> Listed \cup {"error"}],
         ~keep => Older(c),
         keep /\ link[c].report.base # None => link[c].heldAt = link[c].report.base,
         \/ wm' = wm /\ row' = row
         \/ /\ keep /\ ~Older(c)
            /\ wm' = [generation |-> Host(c), sequence |-> link[c].report.sequence]
            /\ \A e \in Execution : link[c].report.rows[e] # "absent" /\ runtime[e] # "forgotten" =>
                  row'[e] = link[c].report.rows[e]
  PROVE  IInv'
<1> DEFINE number == link[c].report.sequence
           source == [revision |-> link[c].report.revision, sequence |-> number]
<1>. PICK l : l = [link[c] EXCEPT !.stage = "idle", !.report = None, !.pending = {}, !.completed = TRUE,
                   !.source = source, !.committed = number,
                   !.heldAt = IF keep THEN number ELSE @, !.held = IF keep THEN Merged(c) ELSE @]
  OBVIOUS
<1>1. /\ TypeOK /\ Sound(c) /\ Steady(c) /\ Written(c) /\ link[c] \in Link /\ Host(c) = link[c].host
      /\ number \in Nat /\ link[c].report.revision \in Nat /\ link[c].report.rows \in [Execution -> Listed]
      /\ link[c].host \in Generation
  BY ServerSteady, Typed DEF Written
<1>2. source \in Source /\ source # None /\ source.sequence = number /\ source.revision = link[c].report.revision
  BY <1>1, ReportAssumption DEF Source
<1>3. keep => Merged(c) = link[c].report.rows
  BY MergedWhole
<1>4. link' = [link EXCEPT ![c] = l]
  BY <1>1 DEF Done, Cursor, Counted, TypeOK
<1> HIDE DEF source
<1>5. /\ l \in Link /\ l.stage = "idle" /\ l.report = None /\ l.pending = {} /\ l.completed
      /\ l.source = source /\ l.committed = number /\ l.host = link[c].host
      /\ l.heldAt = IF keep THEN number ELSE link[c].heldAt
      /\ l.held = IF keep THEN link[c].report.rows ELSE link[c].held
  BY <1>1, <1>2, <1>3 DEF Link, Number
<1>6. ~keep => wm' = wm /\ Behind(l, wm)
  BY <1>1, <1>5 DEF Behind, Older
<1>7. Baseline(l, wm')
  BY <1>2, <1>5, <1>6 DEF Baseline, Behind
<1>8. Contents(l, log'[l.host])
  <2> DEFINE entry == log[link[c].host]
             rows == link[c].report.rows
  <2>1. Contents(link[c], entry) /\ link[c].heldAt # number
    BY <1>1 DEF Sound, Numbered
  <2>2. /\ source.revision <= entry.revision
        /\ \A e \in Execution : entry.at[e] <= source.revision => entry.rows[e] = rows[e]
    BY <1>2, <2>1 DEF Contents
  <2>3. l.heldAt = number => l.held = rows
    BY <1>5, <2>1
  <2>4. log'[l.host] = entry
    BY <1>5
  <2> QED BY <1>2, <1>5, <2>2, <2>3, <2>4, SMTT(30) DEF Contents
<1>9. Follows(l, wm)'
  <2>1. CASE wm' = wm
    BY <1>1, <1>2, <1>5, <2>1 DEF Sound, Numbered, Follows
  <2>2. CASE wm' # wm
    BY <1>5, <2>2 DEF Follows
  <2> QED BY <2>1, <2>2
<1>10. Numbered(l, wm)'
  BY <1>1, <1>2, <1>5 DEF Sound, Numbered
<1>11. \A d \in Connection : d # c => NumbersDiffer(l, link[d]) /\ NumbersDiffer(link[d], l)
  BY <1>2, <1>5 DEF IInv, NumbersDiffer
<1>12. /\ log' \in [Generation -> Entry] /\ sequence' \in [Generation -> Nat]
       /\ \A g \in Generation, e \in Execution : log'[g].at[e] <= log'[g].revision
  BY <1>1, ServerSteady
<1> QED BY <1>1, <1>4, <1>5, <1>7, <1>8, <1>9, <1>10, <1>11, <1>12, OneMoves, ZenonT(60)

LEMMA BeginKeeps ==
  ASSUME IInv, NEW c \in Connection, Begin(c)
  PROVE  IInv'
<1>1. link[c].stage = "sent" /\ Baseline(link[c], wm)
  BY DEF Begin, IInv, Sound
<1>2. link[c].report # None /\ link[c].source = None
  BY <1>1 DEF Baseline
<1>. PICK pending : pending = {e \in Execution : row[e] = "pending"}
  OBVIOUS
<1>3. pending \in SUBSET Execution /\ link' = [link EXCEPT ![c].stage = "begun", ![c].pending = pending]
  BY DEF Begin
<1> QED BY <1>2, <1>3, StageKeeps DEF Begin

(* What one batch writes: the watermark, and every row of a report it contains. *)
LEMMA BatchWrites ==
  ASSUME IInv, NEW c \in Connection, link[c].report # None, ~Older(c), NEW ids \in SUBSET Execution,
         Write(Batch(c, ids, link[c].report.rows)),
         \A e \in Execution \ ids :
            /\ link[c].report.rows[e] = link[c].held[e]
            /\ link[c].source # None /\ wm = [generation |-> Host(c), sequence |-> link[c].source.sequence]
  PROVE  /\ row' \in [Execution -> Listed \cup {"error"}]
         /\ wm' = [generation |-> Host(c), sequence |-> link[c].report.sequence]
         /\ \A e \in Execution : link[c].report.rows[e] # "absent" /\ runtime[e] # "forgotten" =>
               row'[e] = link[c].report.rows[e]
<1> DEFINE rows == link[c].report.rows
           present == {e \in ids : rows[e] # "absent"}
<1>1. /\ TypeOK /\ Contents(link[c], log[Host(c)]) /\ Follows(link[c], wm) /\ Host(c) = link[c].host
      /\ rows \in [Execution -> Listed]
  BY Typed DEF IInv, Sound
<1>2. /\ wm' = [generation |-> Host(c), sequence |-> link[c].report.sequence]
      /\ row' = [e \in Execution |-> IF e \in present THEN rows[e]
                                     ELSE IF e \in Recovered(c, present) THEN "error" ELSE row[e]]
  BY DEF Write, Batch
<1>3. row' \in [Execution -> Listed \cup {"error"}]
  <2>1. \A e \in Execution : row[e] \in Listed \cup {"error"} /\ rows[e] \in Listed
    BY <1>1 DEF TypeOK
  <2> HIDE DEF rows, present
  <2> QED BY <1>2, <2>1
<1>4. ASSUME NEW e \in Execution, rows[e] # "absent", runtime[e] # "forgotten"
      PROVE  row'[e] = rows[e]
  <2>1. CASE e \in ids
    BY <1>2, <1>4, <2>1
  <2>2. CASE e \notin ids
    <3>1. /\ link[c].source # None /\ rows[e] = link[c].held[e]
          /\ wm = [generation |-> link[c].host, sequence |-> link[c].source.sequence]
      BY <1>1, <2>2
    <3>2. row[e] = rows[e]
      BY <1>1, <1>4, <3>1 DEF Follows
    <3>3. e \notin Recovered(c, present)
      BY <1>1, <3>1 DEF Contents, Recovered
    <3> QED BY <1>2, <2>2, <3>2, <3>3
  <2> QED BY <2>1, <2>2
<1> QED BY <1>2, <1>3, <1>4

(* The report as it was sent: a delta that fits was computed against the rows the index follows. *)
LEMMA StoreWrites ==
  ASSUME IInv, NEW c \in Connection, link[c].report # None, ~Older(c), BaseFits(c),
         Write(Batch(c, link[c].report.ids, link[c].report.rows))
  PROVE  /\ row' \in [Execution -> Listed \cup {"error"}]
         /\ wm' = [generation |-> Host(c), sequence |-> link[c].report.sequence]
         /\ \A e \in Execution : link[c].report.rows[e] # "absent" /\ runtime[e] # "forgotten" =>
               row'[e] = link[c].report.rows[e]
         /\ link[c].report.base # None => link[c].heldAt = link[c].report.base
<1>1. /\ TypeOK /\ Baseline(link[c], wm) /\ Contents(link[c], log[Host(c)]) /\ Host(c) = link[c].host
      /\ link[c].report.ids \in SUBSET Execution
  BY Typed DEF IInv, Sound
<1>2. link[c].report.base # None =>
        /\ link[c].source # None /\ link[c].report.base = link[c].source.sequence
        /\ wm = [generation |-> Host(c), sequence |-> link[c].source.sequence]
        /\ link[c].heldAt = link[c].report.base
  BY <1>1 DEF Baseline, BaseFits, Behind, Older
<1>3. ASSUME NEW e \in Execution \ link[c].report.ids
      PROVE  /\ link[c].report.rows[e] = link[c].held[e]
             /\ link[c].source # None /\ wm = [generation |-> Host(c), sequence |-> link[c].source.sequence]
  BY <1>1, <1>2 DEF Contents
<1> QED BY <1>1, <1>2, <1>3, BatchWrites

LEMMA StoreKeeps ==
  ASSUME IInv, NEW c \in Connection, Store(c)
  PROVE  IInv'
<1>1. /\ TypeOK /\ Baseline(link[c], wm) /\ Contents(link[c], log[Host(c)]) /\ link[c].stage = "begun"
      /\ row \in [Execution -> Listed \cup {"error"}]
  BY DEF Store, IInv, Sound, TypeOK
<1>2. link[c].report # None /\ UNCHANGED <<runtime, log, sequence>>
  BY <1>1 DEF Baseline, Store
<1>3. CASE Older(c) /\ Done(c, FALSE) /\ UNCHANGED <<wm, row>>
  BY <1>1, <1>2, <1>3, DoneKeeps
<1>4. CASE ~Older(c) /\ link' = [link EXCEPT ![c].stage = "rebuild"] /\ UNCHANGED <<wm, row>>
  <2>. PICK pending : pending = link[c].pending
    OBVIOUS
  <2>1. link[c] \in Link /\ pending \in SUBSET Execution
    BY <1>1, Typed
  <2>2. link' = [link EXCEPT ![c].stage = "rebuild", ![c].pending = pending]
    BY <1>1, <1>4, <2>1 DEF TypeOK, Link
  <2>3. pending # {} => link[c].source = None
    BY <1>1 DEF Contents
  <2> QED BY <1>2, <1>4, <2>1, <2>2, <2>3, StageKeeps
<1>5. CASE /\ ~Older(c) /\ BaseFits(c) /\ Done(c, TRUE)
           /\ Write(Batch(c, link[c].report.ids, link[c].report.rows))
  BY <1>2, <1>5, StoreWrites, DoneKeeps
<1> QED BY <1>3, <1>4, <1>5 DEF Store

(* The rebuilt inventory: the server never closes the connection, and writes what was collected. *)
LEMMA RebuildWrites ==
  ASSUME IInv, NEW c \in Connection, Rebuild(c)
  PROVE  /\ link[c].report # None
         /\ link[c].report.base # None => link[c].heldAt = link[c].report.base
         /\ \/ ~Superseded(c) /\ Older(c) /\ Done(c, FALSE) /\ UNCHANGED <<wm, row>>
            \/ Superseded(c) /\ Done(c, TRUE) /\ UNCHANGED <<wm, row>>
            \/ /\ ~Older(c) /\ ~Superseded(c) /\ Done(c, TRUE)
               /\ row' \in [Execution -> Listed \cup {"error"}]
               /\ wm' = [generation |-> Host(c), sequence |-> link[c].report.sequence]
               /\ \A e \in Execution : link[c].report.rows[e] # "absent" /\ runtime[e] # "forgotten" =>
                     row'[e] = link[c].report.rows[e]
<1>1. Baseline(link[c], wm) /\ link[c].stage = "rebuild"
  BY DEF IInv, Sound, Rebuild
<1>2. link[c].report # None /\ (link[c].report.base # None => link[c].heldAt = link[c].report.base)
  BY <1>1 DEF Baseline
<1>3. Merged(c) = link[c].report.rows
  BY <1>2, MergedWhole
<1>4. \/ (Older(c) \/ Superseded(c)) /\ Done(c, Superseded(c)) /\ UNCHANGED <<wm, row>>
      \/ ~Older(c) /\ ~Superseded(c) /\ Done(c, TRUE) /\ Write(Batch(c, Execution, link[c].report.rows))
  BY <1>2, <1>3 DEF Rebuild
<1>5. Superseded(c) \in BOOLEAN
  BY DEF Superseded
<1>6. CASE (Older(c) \/ Superseded(c)) /\ Done(c, Superseded(c)) /\ UNCHANGED <<wm, row>>
  <2>1. CASE Superseded(c)
    <3>1. Superseded(c) = TRUE
      BY <1>5, <2>1
    <3> QED BY <1>2, <1>6, <2>1, <3>1
  <2>2. CASE ~Superseded(c)
    <3>1. Superseded(c) = FALSE
      BY <1>5, <2>2
    <3> QED BY <1>2, <1>6, <2>2, <3>1
  <2> QED BY <2>1, <2>2
<1>7. CASE ~Older(c) /\ ~Superseded(c) /\ Done(c, TRUE) /\ Write(Batch(c, Execution, link[c].report.rows))
  BY <1>2, <1>7, BatchWrites
<1> QED BY <1>4, <1>6, <1>7

LEMMA RebuildKeeps ==
  ASSUME IInv, NEW c \in Connection, Rebuild(c)
  PROVE  IInv'
<1>1. /\ link[c].report # None /\ UNCHANGED <<runtime, log, sequence>>
      /\ row \in [Execution -> Listed \cup {"error"}]
  BY RebuildWrites DEF Rebuild, IInv, TypeOK
<1>2. CASE Older(c) /\ Done(c, FALSE) /\ UNCHANGED <<wm, row>>
  BY <1>1, <1>2, DoneKeeps
<1>3. CASE Done(c, TRUE) /\ UNCHANGED <<wm, row>>
  BY <1>1, <1>3, RebuildWrites, DoneKeeps
<1>4. CASE /\ ~Older(c) /\ ~Superseded(c) /\ Done(c, TRUE)
           /\ row' \in [Execution -> Listed \cup {"error"}]
           /\ wm' = [generation |-> Host(c), sequence |-> link[c].report.sequence]
           /\ \A e \in Execution : link[c].report.rows[e] # "absent" /\ runtime[e] # "forgotten" =>
                 row'[e] = link[c].report.rows[e]
  BY <1>1, <1>4, RebuildWrites, DoneKeeps
<1> QED BY <1>2, <1>3, <1>4, RebuildWrites

(***************************************************************************)
(* The theorems.                                                           *)
(***************************************************************************)
LEMMA InitIInv == Init => IInv
<1> SUFFICES ASSUME Init
             PROVE  IInv
  OBVIOUS
<1>1. PICK host \in [Connection -> Generation] : link = [c \in Connection |-> Fresh(host[c])]
  BY DEF Init
<1>2. \A g \in Generation :
        /\ Fresh(g) \in Link /\ Fresh(g).stage = "idle" /\ Fresh(g).host = g /\ Fresh(g).source = None
        /\ Fresh(g).report = None /\ ~Fresh(g).completed /\ Fresh(g).committed = None
        /\ Fresh(g).heldAt = None /\ Fresh(g).pending = {}
  BY ReportAssumption DEF Fresh, Link, Number, Nothing, Listed
<1>3. \A c \in Connection :
        /\ link[c] \in Link /\ link[c].stage = "idle" /\ link[c].source = None /\ link[c].report = None
        /\ ~link[c].completed /\ link[c].committed = None /\ link[c].heldAt = None /\ link[c].pending = {}
  BY <1>1, <1>2
<1>4. link \in [Connection -> Link]
  BY <1>1, <1>2
<1>5. TypeOK
  BY <1>4 DEF Init, TypeOK, Entry, Nothing, Listed
<1>6. \A c \in Connection : Sound(c)
  BY <1>3 DEF Sound, Baseline, Contents, Follows, Numbered
<1>7. \A c, d \in Connection : NumbersDiffer(link[c], link[d])
  BY <1>3 DEF NumbersDiffer
<1> QED BY <1>5, <1>6, <1>7 DEF IInv, Init

LEMMA StepKeeps == IInv /\ [Next]_vars => IInv'
<1> SUFFICES ASSUME IInv, [Next]_vars
             PROVE  IInv'
  OBVIOUS
<1>1. ASSUME NEW e \in Execution, RuntimeStep(e) \/ Clear(e)
      PROVE  IInv'
  BY <1>1, JournalKeeps
<1>2. ASSUME NEW c \in Connection, Reconnect(c)
      PROVE  IInv'
  BY <1>2, ReconnectKeeps
<1>3. ASSUME NEW c \in Connection, Collect(c)
      PROVE  IInv'
  BY <1>3, CollectKeeps
<1>4. ASSUME NEW c \in Connection, Begin(c)
      PROVE  IInv'
  BY <1>4, BeginKeeps
<1>5. ASSUME NEW c \in Connection, Store(c)
      PROVE  IInv'
  BY <1>5, StoreKeeps
<1>6. ASSUME NEW c \in Connection, Rebuild(c)
      PROVE  IInv'
  BY <1>6, RebuildKeeps
<1>7. CASE UNCHANGED vars
  BY <1>7 DEF vars, IInv, TypeOK, Sound, Baseline, Behind, Contents, Follows, Numbered, NumbersDiffer, Host
<1> QED BY <1>1, <1>2, <1>3, <1>4, <1>5, <1>6, <1>7 DEF Next

(* What the connections, the logs and the index know of each other: the     *)
(* invariant that the results below rest on.                                *)
THEOREM InductiveInvariant == Spec => []IInv
<1>1. Init => IInv
  BY InitIInv
<1>2. IInv /\ [Next]_vars => IInv'
  BY StepKeeps
<1> QED BY <1>1, <1>2, PTL DEF Spec

(* Every state of the model is well formed, and no row is stamped with a    *)
(* revision that its log has not reached.                                   *)
THEOREM TypeCorrect == Spec => []TypeOK
<1>1. IInv => TypeOK
  BY DEF IInv
<1> QED BY <1>1, InductiveInvariant, PTL

(* The server never closes a connection over its baseline, however many     *)
(* connections and host processes report at the same time.                  *)
THEOREM BaselinesHold == Spec => []BaselinesAgree
<1>1. IInv => BaselinesAgree
  BY DEF IInv, Sound, Baseline, BaselinesAgree
<1> QED BY <1>1, InductiveInvariant, PTL

(* A step of the server that moves the watermark, and the connection it serves. *)
LEMMA WatermarkMoves ==
  ASSUME IInv, [Next]_vars, wm' # wm
  PROVE  \E c \in Connection :
           /\ link[c].stage \in {"begun", "rebuild"} /\ link[c].report # None
           /\ ~Older(c) /\ ~Superseded(c)
           /\ wm' = [generation |-> Host(c), sequence |-> link[c].report.sequence]
           /\ \A e \in Execution : link[c].report.rows[e] # "absent" /\ runtime[e] # "forgotten" =>
                 row'[e] = link[c].report.rows[e]
<1>1. PICK c \in Connection : Store(c) \/ Rebuild(c)
  BY DEF Next, vars, RuntimeStep, Clear, Reconnect, Collect, Begin
<1>2. CASE Store(c)
  <2>1. /\ link[c].stage = "begun" /\ ~Older(c) /\ ~Superseded(c) /\ BaseFits(c)
        /\ Write(Batch(c, link[c].report.ids, link[c].report.rows))
    BY <1>2 DEF Store
  <2>2. link[c].report # None
    BY <2>1 DEF IInv, Sound, Baseline
  <2> QED BY <2>1, <2>2, StoreWrites
<1>3. CASE Rebuild(c)
  <2>1. link[c].stage = "rebuild"
    BY <1>3 DEF Rebuild
  <2> QED BY <1>3, <2>1, RebuildWrites
<1> QED BY <1>1, <1>2, <1>3

(* The index never goes back to a report of an older host process, or to an *)
(* earlier report of the same one.                                          *)
THEOREM Advances == Spec => WatermarkAdvances
<1>1. ASSUME IInv, [Next]_vars, wm' # wm
      PROVE  Reaches(wm, wm')
  <2>1. PICK c \in Connection :
          /\ link[c].report # None /\ ~Older(c) /\ ~Superseded(c)
          /\ wm' = [generation |-> Host(c), sequence |-> link[c].report.sequence]
    BY <1>1, WatermarkMoves
  <2>2. /\ Host(c) \in Nat /\ link[c].report.sequence \in Nat
        /\ wm # None => wm.generation \in Nat /\ wm.sequence \in Nat
    BY <1>1, <2>1, Typed, ReportAssumption DEF IInv
  <2> QED BY <2>1, <2>2 DEF Reaches, Older, Superseded
<1>2. IInv /\ [Next]_vars => [wm' # wm => Reaches(wm, wm')]_vars
  BY <1>1
<1> QED BY <1>2, InductiveInvariant, PTL DEF Spec, WatermarkAdvances

(* Whatever is stored, as it was sent or rebuilt, makes the index agree with *)
(* one complete inventory: deltas of different connections are never mixed.  *)
THEOREM Whole == Spec => IndexIsWhole
<1> DEFINE Agrees ==
      \E c \in Connection :
            /\ link[c].stage \in {"begun", "rebuild"}
            /\ wm' = [generation |-> Host(c), sequence |-> link[c].report.sequence]
            /\ \A e \in Execution :
                  link[c].report.rows[e] # "absent" /\ runtime[e] # "forgotten" =>
                      row'[e] = link[c].report.rows[e]
<1>1. ASSUME IInv, [Next]_vars, wm' # wm
      PROVE  Agrees
  BY <1>1, WatermarkMoves
<1> HIDE DEF Agrees
<1>2. IInv /\ [Next]_vars => [wm' # wm => Agrees]_vars
  BY <1>1
<1>3. [][wm' # wm => Agrees]_vars => IndexIsWhole
  BY DEF Agrees, IndexIsWhole
<1> QED BY <1>2, <1>3, InductiveInvariant, PTL DEF Spec
(***************************************************************************)
(* A quiet host's index is current: CInv on top of IInv.                   *)
(***************************************************************************)
(* The revision that anchors the index is some number; that its log has reached it is known. *)
LEMMA AnchorIsNumber ==
  ASSUME TypeOK, wm # None, CInv
  PROVE  \E r \in Nat : Anchored(r)
<1>1. PICK r \in 0 .. log[wm.generation].revision : Anchored(r)
  BY DEF CInv
<1> QED BY <1>1, Typed

LEMMA AnchorNext ==
  ASSUME TypeOK', wm' # None, NEW r \in Nat, Anchored(r)'
  PROVE  \E k \in 0 .. log'[wm'.generation].revision : Anchored(k)'
<1>1. log'[wm'.generation] \in Entry
  BY DEF TypeOK, Watermark
<1>2. log'[wm'.generation].revision \in Nat /\ r <= log'[wm'.generation].revision
  BY <1>1 DEF Entry, Anchored
<1>3. r \in 0 .. log'[wm'.generation].revision
  BY <1>2
<1> QED BY <1>3

(* A log that grows keeps what was known of it up to a revision it had.     *)
LEMMA ReachedStays ==
  ASSUME TypeOK, NEW l \in Link, NEW old \in Entry, NEW new \in Entry, Grows(old, new),
         NEW r \in Nat, NEW w, Reached(l, old, w, r), l.source # None => l.source.revision <= old.revision
  PROVE  Reached(l, new, w, r)
<1>1. l.source # None => l.source.revision \in Nat
  BY DEF Link, Source
<1>2. old.revision \in Nat /\ \A e \in Execution : new.at[e] \in Nat
  BY DEF Entry
<1>3. ASSUME l.source # None, NEW e \in Execution, new.at[e] <= l.source.revision
      PROVE  new.at[e] <= r
  <2>1. new.at[e] <= old.revision
    BY <1>1, <1>2, <1>3
  <2>2. new.at[e] = old.at[e]
    BY <2>1 DEF Grows
  <2> QED BY <1>3, <2>2 DEF Reached
<1> QED BY <1>3 DEF Reached

(* A step of one connection that writes nothing at the server.              *)
LEMMA OneMovesCurrent ==
  ASSUME CInv, IInv', NEW c \in Connection, NEW l \in Link, link' = [link EXCEPT ![c] = l],
         UNCHANGED <<runtime, wm, row>>,
         \A g \in Generation : Grows(log[g], log'[g]),
         \A g \in Generation, e \in Execution : runtime[e] = "none" => log'[g].rows[e] = "absent",
         Acknowledged(l, wm), LostSeen(l),
         \A d \in Connection : d # c => InOrder(l, link[d]) /\ InOrder(link[d], l),
         \A r \in Nat : wm # None /\ Anchored(r) /\ l.host = wm.generation => Reached(l, log'[l.host], wm, r)
  PROVE  CInv'
<1>1. /\ IInv /\ TypeOK /\ TypeOK'
      /\ link'[c] = l /\ \A d \in Connection : d # c => link'[d] = link[d]
  BY DEF CInv, IInv, TypeOK
<1>2. ASSUME wm # None
      PROVE  \E k \in 0 .. log'[wm'.generation].revision : Anchored(k)'
  <2> DEFINE g == wm.generation
  <2>1. PICK r \in Nat : Anchored(r)
    BY <1>1, <1>2, AnchorIsNumber
  <2>2. g \in Generation /\ log[g] \in Entry /\ log'[g] \in Entry /\ Grows(log[g], log'[g])
    BY <1>1, <1>2, Typed DEF TypeOK
  <2>3. /\ log[g].revision \in Nat /\ log'[g].revision \in Nat /\ log[g].revision <= log'[g].revision
        /\ \A e \in Execution : log'[g].at[e] \in Nat
    BY <2>2 DEF Grows, Entry
  <2>4. r <= log[g].revision
    BY <2>1 DEF Anchored
  <2>5. r <= log'[g].revision
    BY <2>3, <2>4
  <2>6. ASSUME NEW e \in Execution, log'[g].at[e] <= r, log'[g].rows[e] # "absent", runtime[e] # "forgotten"
        PROVE  row[e] = log'[g].rows[e]
    <3>1. log'[g].at[e] <= log[g].revision
      BY <2>3, <2>4, <2>6
    <3>2. log'[g].at[e] = log[g].at[e] /\ log'[g].rows[e] = log[g].rows[e]
      BY <2>2, <3>1 DEF Grows
    <3> QED BY <2>1, <2>6, <3>2 DEF Anchored
  <2>7. ASSUME NEW d \in Connection, d # c, link[d].host = g
        PROVE  Reached(link[d], log'[g], wm, r)
    <3>1. link[d] \in Link /\ Reached(link[d], log[g], wm, r)
      BY <1>1, <2>1, <2>7 DEF Anchored, Host, TypeOK
    <3>2. link[d].source # None => link[d].source.revision <= log[g].revision
      BY <1>1, <2>7 DEF IInv, Sound, Contents, Host
    <3> QED BY <1>1, <2>2, <3>1, <3>2, ReachedStays
  <2>8. ASSUME NEW d \in Connection, link'[d].host = g
        PROVE  Reached(link'[d], log'[g], wm, r)
    BY <1>1, <1>2, <2>1, <2>7, <2>8
  <2>9. Anchored(r)'
    BY <2>5, <2>6, <2>8 DEF Anchored, Host, Reached
  <2> QED BY <1>1, <1>2, <2>9, AnchorNext
<1>3. \A d \in Connection : Acknowledged(link[d], wm)' /\ LostSeen(link[d])'
  BY <1>1 DEF CInv, Acknowledged, LostSeen, Lost
<1>4. \A d, k \in Connection : InOrder(link[d], link[k])'
  <2>1. InOrder(l, l)
    <3>1. l.report # None => l.report.sequence \in Nat
      BY DEF Link, Report
    <3> QED BY <3>1 DEF InOrder
  <2> QED BY <1>1, <2>1 DEF CInv, InOrder
<1>5. wm # None => \A e \in Execution : Lost(e)' => row'[e] # "pending"
  BY DEF CInv, Lost
<1> QED BY <1>2, <1>3, <1>4, <1>5 DEF CInv

LEMMA JournalKeepsCurrent ==
  ASSUME CInv, IInv', NEW e \in Execution, RuntimeStep(e) \/ Clear(e)
  PROVE  CInv'
<1>1. PICK state \in {"pending", "done", "forgotten"} :
        /\ runtime' = [runtime EXCEPT ![e] = state] /\ runtime[e] # "forgotten"
        /\ row' = row \/ (row' = [row EXCEPT ![e] = "absent"] /\ state = "forgotten")
  BY DEF RuntimeStep, Clear, Change
<1>2. UNCHANGED <<log, sequence, link, wm>>
  BY DEF RuntimeStep, Clear
<1>3. TypeOK
  BY DEF CInv, IInv
<1>4. \A f \in Execution : runtime'[f] # "forgotten" => runtime[f] # "forgotten" /\ row'[f] = row[f]
  BY <1>1, <1>3 DEF TypeOK
<1>5. \A f \in Execution : runtime'[f] = "none" => runtime[f] = "none" /\ row'[f] = row[f]
  BY <1>1, <1>3 DEF TypeOK
<1>6. \A r \in Nat : wm # None /\ Anchored(r) => Anchored(r)'
  BY <1>2, <1>4 DEF Anchored, Reached, Host
<1>7. \A c \in Connection : Acknowledged(link[c], wm)' /\ LostSeen(link[c])'
  BY <1>2, <1>5 DEF CInv, Acknowledged, LostSeen, Lost
<1>8. \A c, d \in Connection : InOrder(link[c], link[d])'
  BY <1>2 DEF CInv, InOrder
<1>9. wm # None => \A f \in Execution : Lost(f)' => row'[f] # "pending"
  BY <1>5 DEF CInv, Lost
<1>10. \A g \in Generation, f \in Execution : runtime'[f] = "none" => log'[g].rows[f] = "absent"
  BY <1>2, <1>5 DEF CInv
<1>11. wm' # None => \E k \in 0 .. log'[wm'.generation].revision : Anchored(k)'
  BY <1>2, <1>3, <1>6, AnchorIsNumber, AnchorNext DEF IInv
<1> QED BY <1>2, <1>7, <1>8, <1>9, <1>10, <1>11 DEF CInv

LEMMA ReconnectKeepsCurrent ==
  ASSUME CInv, IInv', NEW c \in Connection, Reconnect(c)
  PROVE  CInv'
<1>1. PICK g \in Generation : link' = [link EXCEPT ![c] = Fresh(g)]
  BY DEF Reconnect
<1>2. UNCHANGED <<runtime, log, sequence, wm, row>> /\ TypeOK
  BY DEF Reconnect, CInv, IInv
<1> DEFINE l == Fresh(g)
<1>3. l \in Link /\ l.stage = "idle" /\ l.host = g /\ l.source = None /\ l.report = None
  BY ReportAssumption DEF Fresh, Link, Number, Nothing, Listed
<1> HIDE DEF l
<1>4. /\ Acknowledged(l, wm) /\ LostSeen(l)
      /\ \A d \in Connection : InOrder(l, link[d]) /\ InOrder(link[d], l)
      /\ \A r \in Nat : Reached(l, log'[l.host], wm, r)
  BY <1>3 DEF Acknowledged, LostSeen, InOrder, Reached
<1>5. /\ \A h \in Generation : Grows(log[h], log'[h])
      /\ \A h \in Generation, e \in Execution : runtime[e] = "none" => log'[h].rows[e] = "absent"
  BY <1>2, EntriesStay DEF CInv
<1>6. link' = [link EXCEPT ![c] = l]
  BY <1>1 DEF l
<1> QED BY <1>2, <1>3, <1>4, <1>5, <1>6, OneMovesCurrent

(* A collection lets the log of its host grow, and lists nothing that no runtime has. *)
LEMMA CollectedLogs ==
  ASSUME TypeOK, NEW g \in Generation, log' = [log EXCEPT ![g] = Refreshed(g)],
         \A h \in Generation, e \in Execution : runtime[e] = "none" => log[h].rows[e] = "absent"
  PROVE  /\ \A h \in Generation : Grows(log[h], log'[h])
         /\ \A h \in Generation, e \in Execution : runtime[e] = "none" => log'[h].rows[e] = "absent"
<1>1. \A h \in Generation : log[h].revision \in Nat
  BY Typed
<1>2. Grows(log[g], Refreshed(g))
  BY RefreshedGrows
<1>3. \A e \in Execution : runtime[e] = "none" => Refreshed(g).rows[e] = "absent"
  BY DEF Refreshed, Shown
<1>4. log'[g] = Refreshed(g) /\ \A h \in Generation : h # g => log'[h] = log[h]
  BY DEF TypeOK
<1>5. \A h \in Generation : Grows(log[h], log[h])
  BY <1>1 DEF Grows
<1> QED BY <1>2, <1>3, <1>4, <1>5

(* A new report has the highest number of its host and the latest revision. *)
LEMMA SendKeepsCurrent ==
  ASSUME CInv, IInv', NEW c \in Connection, link[c].stage = "idle", NEW entry, entry = Refreshed(Host(c)),
         log' = [log EXCEPT ![Host(c)] = entry], UNCHANGED <<runtime, wm, row>>,
         NEW base \in Number, NEW ids \in SUBSET Execution, Send(c, entry, base, ids)
  PROVE  CInv'
<1> DEFINE g == link[c].host
           next == sequence[g] + 1
<1>1. /\ IInv /\ TypeOK /\ Sound(c) /\ Baseline(link[c], wm) /\ link[c] \in Link /\ Host(c) = g
      /\ g \in Generation /\ sequence[g] \in Nat /\ log[g] \in Entry /\ log[g].revision \in Nat
  BY Typed DEF CInv, IInv, Sound
<1>2. /\ entry \in Entry /\ Grows(log[g], entry) /\ entry.revision \in Nat
      /\ log[g].revision <= entry.revision
  BY <1>1, RefreshedGrows DEF Entry, Grows
<1>3. PICK l : l = link'[c]
  OBVIOUS
<1>4. /\ l \in Link /\ link' = [link EXCEPT ![c] = l]
      /\ l.host = g /\ l.source = link[c].source
      /\ l.stage \in {"closed", "begun", "sent"} /\ (l.stage = "begun" => link[c].completed)
      /\ l.report = [sequence |-> next, revision |-> entry.revision, base |-> base, ids |-> ids,
                     rows |-> entry.rows]
  <2> DEFINE report == [sequence |-> next, revision |-> entry.revision, base |-> base, ids |-> ids, rows |-> entry.rows]
             stage == IF base # None /\ base # link[c].committed THEN "closed"
                      ELSE IF link[c].completed THEN "begun" ELSE "sent"
  <2>1. l \in Link
    BY <1>3 DEF IInv, TypeOK
  <2>2. link' = [link EXCEPT ![c] = [link[c] EXCEPT !.stage = stage, !.report = report]]
    BY <1>1, Zenon DEF Send
  <2>3. c \in DOMAIN link
    BY <1>1 DEF TypeOK
  <2>4. l = [link[c] EXCEPT !.stage = stage, !.report = report]
    BY <1>3, <2>2, <2>3
  <2>5. stage \in {"closed", "begun", "sent"} /\ (stage = "begun" => link[c].completed)
    OBVIOUS
  <2> HIDE DEF report, stage
  <2>6. l.host = g /\ l.source = link[c].source /\ l.stage = stage /\ l.report = report
    BY <1>1, <2>4 DEF Link
  <2>7. link' = [link EXCEPT ![c] = l]
    BY <2>2, <2>4
  <2> QED BY <2>1, <2>5, <2>6, <2>7 DEF report
<1>5. /\ l.report.sequence = next /\ l.report.revision = entry.revision /\ l.report.rows = entry.rows
      /\ next \in Nat
  BY <1>1, <1>4
<1>6. /\ \A h \in Generation : Grows(log[h], log'[h])
      /\ \A h \in Generation, e \in Execution : runtime[e] = "none" => log'[h].rows[e] = "absent"
  BY <1>1, CollectedLogs DEF CInv
<1>7. Acknowledged(l, wm)
  BY <1>4 DEF CInv, Acknowledged
<1>8. LostSeen(l)
  <2>1. \A e \in Execution : runtime[e] = "none" => entry.rows[e] = "absent"
    BY DEF Refreshed, Shown
  <2>2. l.stage = "begun" => l.source # None
    BY <1>1, <1>4 DEF Baseline
  <2> QED BY <1>4, <1>5, <2>1, <2>2 DEF LostSeen
<1>9. ASSUME NEW d \in Connection, d # c, link[d].host = g, link[d].report # None
       PROVE  link[d].report.sequence < next /\ link[d].report.revision <= entry.revision
  <2>1. /\ Numbered(link[d], wm) /\ Contents(link[d], log[link[d].host])
        /\ link[d].report.sequence \in Nat /\ link[d].report.revision \in Nat
    BY <1>1, <1>9, Typed DEF IInv, Sound, Host
  <2>2. link[d].report.sequence <= sequence[g] /\ link[d].report.revision <= log[g].revision
    BY <1>9, <2>1 DEF Numbered, Contents
  <2> QED BY <1>1, <1>2, <2>1, <2>2
<1>10. ASSUME NEW d \in Connection, d # c
       PROVE  InOrder(l, link[d]) /\ InOrder(link[d], l)
  <2>1. link[d].report # None => link[d].report.sequence \in Nat
    BY <1>1, Typed
  <2> QED BY <1>4, <1>5, <1>9, <1>10, <2>1 DEF InOrder
<1>11. ASSUME NEW r \in Nat, wm # None, Anchored(r), g = wm.generation
       PROVE  Reached(l, log'[g], wm, r)
  <2>1. Reached(link[c], log[g], wm, r) /\ r <= log[g].revision
    BY <1>1, <1>11 DEF Anchored
  <2>2. wm.sequence <= sequence[g] /\ wm.sequence \in Nat
    BY <1>1, <1>11, Typed DEF IInv
  <2>3. link[c].source # None => link[c].source.revision <= log[g].revision
    BY <1>1 DEF Sound, Contents
  <2>4. Reached(link[c], log'[g], wm, r)
    BY <1>1, <1>2, <2>1, <2>3, ReachedStays DEF TypeOK
  <2>5. ~(next <= wm.sequence) /\ r <= entry.revision
    BY <1>1, <1>2, <2>1, <2>2
  <2> QED BY <1>4, <1>5, <2>4, <2>5 DEF Reached
<1> QED BY <1>4, <1>6, <1>7, <1>8, <1>10, <1>11, OneMovesCurrent

LEMMA NothingKeepsCurrent ==
  ASSUME CInv, IInv', NEW c \in Connection, link[c].stage = "idle", NEW entry, entry = Refreshed(Host(c)),
         log' = [log EXCEPT ![Host(c)] = entry], UNCHANGED <<runtime, wm, row>>,
         link[c].source # None, CollectNothing(c, entry),
         {e \in Execution : entry.at[e] > link[c].source.revision} = {}
  PROVE  CInv'
<1> DEFINE g == link[c].host
<1>1. /\ IInv /\ TypeOK /\ Sound(c) /\ Baseline(link[c], wm) /\ link[c] \in Link /\ Host(c) = g
      /\ g \in Generation /\ log[g] \in Entry /\ log[g].revision \in Nat
      /\ link[c].source \in Source /\ link[c].source.revision \in Nat /\ link[c].report = None
  BY Typed DEF CInv, IInv, Sound, Baseline
<1>2. /\ entry \in Entry /\ Grows(log[g], entry) /\ entry.revision \in Nat
      /\ \A e \in Execution : entry.at[e] \in Nat
  BY <1>1, RefreshedGrows DEF Entry
<1>3. PICK l : l = link'[c]
  OBVIOUS
<1>4. /\ l \in Link /\ link' = [link EXCEPT ![c] = l]
      /\ l.host = g /\ l.source # None /\ l.stage = "idle" /\ l.report = None
      /\ l.source.revision = entry.revision
  <2>1. l \in Link
    BY <1>3 DEF IInv, TypeOK
  <2>2. /\ l.host = g /\ l.stage = "idle" /\ l.report = None
        /\ l.source = [link[c].source EXCEPT !.revision = entry.revision]
    BY <1>1, <1>3 DEF CollectNothing, TypeOK, Link
  <2>3. l.source \in Source /\ l.source.revision = entry.revision
    BY <1>1, <1>2, <2>2 DEF Source
  <2>4. link' = [link EXCEPT ![c] = l]
    BY <1>1, <1>3 DEF CollectNothing, TypeOK
  <2> QED BY <2>1, <2>2, <2>3, <2>4, ReportAssumption
<1>5. /\ \A h \in Generation : Grows(log[h], log'[h])
      /\ \A h \in Generation, e \in Execution : runtime[e] = "none" => log'[h].rows[e] = "absent"
  BY <1>1, CollectedLogs DEF CInv
<1>6. Acknowledged(l, wm) /\ LostSeen(l) /\ \A d \in Connection : InOrder(l, link[d]) /\ InOrder(link[d], l)
  BY <1>4 DEF CInv, Acknowledged, LostSeen, InOrder
<1>7. ASSUME NEW r \in Nat, wm # None, Anchored(r), g = wm.generation
      PROVE  Reached(l, log'[g], wm, r)
  <2>1. Reached(link[c], log[g], wm, r)
    BY <1>1, <1>7 DEF Anchored
  <2>2. link[c].source.revision <= log[g].revision
    BY <1>1 DEF Sound, Contents
  <2>3. Reached(link[c], log'[g], wm, r)
    BY <1>1, <1>2, <2>1, <2>2, ReachedStays DEF TypeOK
  <2>4. log'[g] = entry
    BY <1>1 DEF TypeOK
  <2>5. \A e \in Execution : entry.at[e] <= link[c].source.revision
    BY <1>1, <1>2
  <2> QED BY <1>4, <2>3, <2>4, <2>5 DEF Reached
<1> QED BY <1>4, <1>5, <1>6, <1>7, OneMovesCurrent

LEMMA CollectKeepsCurrent ==
  ASSUME CInv, IInv', NEW c \in Connection, Collect(c)
  PROVE  CInv'
<1> DEFINE entry == Refreshed(Host(c))
           source == link[c].source
           ids == {e \in Execution : entry.at[e] > source.revision}
<1>1. /\ link[c].stage = "idle" /\ log' = [log EXCEPT ![Host(c)] = entry]
      /\ UNCHANGED <<runtime, wm, row>>
      /\ \/ Send(c, entry, None, Execution)
         \/ source # None /\ ids = {} /\ CollectNothing(c, entry)
         \/ source # None /\ Send(c, entry, source.sequence, ids)
  BY DEF Collect
<1> HIDE DEF entry
<1>2. entry = Refreshed(Host(c)) /\ TypeOK
  BY DEF entry, CInv, IInv
<1>3. CASE Send(c, entry, None, Execution)
  <2>1. None \in Number
    BY DEF Number
  <2> QED BY <1>1, <1>2, <1>3, <2>1, SendKeepsCurrent
<1>4. CASE source # None /\ ids = {} /\ CollectNothing(c, entry)
  BY <1>1, <1>2, <1>4, NothingKeepsCurrent
<1>5. CASE source # None /\ Send(c, entry, source.sequence, ids)
  <2>1. source.sequence \in Number
    BY <1>2, <1>5, Typed DEF Number
  <2> QED BY <1>1, <1>2, <1>5, <2>1, SendKeepsCurrent
<1> QED BY <1>1, <1>3, <1>4, <1>5

LEMMA StageKeepsCurrent ==
  ASSUME CInv, IInv', NEW c \in Connection, NEW stage \in {"begun", "rebuild"}, NEW pending \in SUBSET Execution,
         link' = [link EXCEPT ![c].stage = stage, ![c].pending = pending],
         UNCHANGED <<runtime, log, wm, row>>,
         link[c].source = None => \A e \in Execution : Lost(e) /\ row[e] = "pending" => e \in pending
  PROVE  CInv'
<1>. PICK l : l = [link[c] EXCEPT !.stage = stage, !.pending = pending]
  OBVIOUS
<1>1. TypeOK /\ link[c] \in Link /\ Host(c) = link[c].host
  BY Typed DEF CInv, IInv
<1>2. /\ l \in Link /\ l.stage = stage /\ l.host = link[c].host /\ l.source = link[c].source
      /\ l.report = link[c].report /\ l.pending = pending /\ link' = [link EXCEPT ![c] = l]
  BY <1>1 DEF Link, TypeOK
<1>3. /\ Acknowledged(l, wm) /\ LostSeen(l)
      /\ \A d \in Connection : d # c => InOrder(l, link[d]) /\ InOrder(link[d], l)
  BY <1>2 DEF CInv, Acknowledged, LostSeen, InOrder
<1>4. /\ \A h \in Generation : Grows(log[h], log'[h])
      /\ \A h \in Generation, e \in Execution : runtime[e] = "none" => log'[h].rows[e] = "absent"
  <2>1. \A h \in Generation : log[h].revision \in Nat
    BY <1>1, Typed
  <2> QED BY <2>1 DEF CInv, Grows
<1>5. \A r \in Nat : wm # None /\ Anchored(r) /\ l.host = wm.generation => Reached(l, log'[l.host], wm, r)
  BY <1>1, <1>2 DEF Anchored, Reached
<1> QED BY <1>2, <1>3, <1>4, <1>5, OneMovesCurrent

(* What an acknowledgement leaves at the connection.                        *)
LEMMA DoneLeaves ==
  ASSUME TypeOK, TypeOK', NEW c \in Connection, link[c].report # None, NEW keep \in BOOLEAN, Done(c, keep),
         NEW l, l = link'[c]
  PROVE  /\ l \in Link /\ link' = [link EXCEPT ![c] = l] /\ l.host = link[c].host /\ l.stage = "idle"
         /\ l.report = None /\ l.source # None /\ l.source.revision = link[c].report.revision
<1>1. /\ link[c] \in Link /\ link[c].report.revision \in Nat /\ link[c].report.sequence \in Nat
  BY Typed
<1>2. l \in Link
  BY DEF TypeOK
<1>3. /\ l.host = link[c].host /\ l.stage = "idle" /\ l.report = None
      /\ l.source = [revision |-> link[c].report.revision, sequence |-> link[c].report.sequence]
      /\ link' = [link EXCEPT ![c] = l]
  <2>. PICK k : k = [link[c] EXCEPT !.stage = "idle", !.report = None, !.pending = {}, !.completed = TRUE,
                     !.source = [revision |-> link[c].report.revision, sequence |-> link[c].report.sequence],
                     !.committed = link[c].report.sequence,
                     !.heldAt = IF keep THEN link[c].report.sequence ELSE @,
                     !.held = IF keep THEN Merged(c) ELSE @]
    OBVIOUS
  <2>1. link' = [link EXCEPT ![c] = k]
    BY <1>1, ZenonT(40) DEF Done, Cursor, Counted, TypeOK
  <2>2. l = k
    BY <2>1 DEF TypeOK
  <2>3. /\ k.host = link[c].host /\ k.stage = "idle" /\ k.report = None
        /\ k.source = [revision |-> link[c].report.revision, sequence |-> link[c].report.sequence]
    BY <1>1 DEF Link
  <2> QED BY <2>1, <2>2, <2>3
<1>4. l.source \in Source /\ l.source.revision = link[c].report.revision
  BY <1>1, <1>3 DEF Source
<1> QED BY <1>2, <1>3, <1>4, ReportAssumption

(* A report that the index does not take: it is of an older host, or the    *)
(* watermark names one that was collected later.                            *)
LEMMA SkipKeepsCurrent ==
  ASSUME CInv, IInv', NEW c \in Connection, link[c].report # None, NEW keep \in BOOLEAN, Done(c, keep),
         Older(c) \/ Superseded(c), UNCHANGED <<runtime, log, wm, row>>
  PROVE  CInv'
<1>1. TypeOK /\ TypeOK' /\ link[c] \in Link /\ Host(c) = link[c].host /\ link[c].host \in Nat
  BY Typed, ReportAssumption DEF CInv, IInv
<1>2. PICK l : l = link'[c]
  OBVIOUS
<1>3. /\ l \in Link /\ link' = [link EXCEPT ![c] = l] /\ l.host = link[c].host /\ l.stage = "idle"
      /\ l.report = None /\ l.source # None /\ l.source.revision = link[c].report.revision
  BY <1>1, <1>2, DoneLeaves
<1>4. wm # None /\ wm.generation \in Nat
  BY <1>1, Typed DEF Older, Superseded
<1>5. /\ Acknowledged(l, wm) /\ LostSeen(l)
      /\ \A d \in Connection : d # c => InOrder(l, link[d]) /\ InOrder(link[d], l)
  BY <1>1, <1>3, <1>4 DEF Older, Superseded, Acknowledged, LostSeen, InOrder
<1>6. /\ \A h \in Generation : Grows(log[h], log'[h])
      /\ \A h \in Generation, e \in Execution : runtime[e] = "none" => log'[h].rows[e] = "absent"
  <2>1. \A h \in Generation : log[h].revision \in Nat
    BY <1>1, Typed
  <2> QED BY <2>1 DEF CInv, Grows
<1>7. ASSUME NEW r \in Nat, Anchored(r), l.host = wm.generation
      PROVE  Reached(l, log'[l.host], wm, r)
  <2> DEFINE entry == log[wm.generation]
  <2>1. Superseded(c) /\ link[c].report.sequence <= wm.sequence
    BY <1>1, <1>3, <1>4, <1>7 DEF Older, Superseded
  <2>2. link[c].report.revision <= r
    BY <1>1, <1>3, <1>7, <2>1 DEF Anchored, Reached
  <2>3. link[c].report.revision \in Nat /\ \A e \in Execution : entry.at[e] \in Nat
    BY <1>1, <1>4, Typed
  <2>4. \A e \in Execution : entry.at[e] <= l.source.revision => entry.at[e] <= r
    BY <1>3, <2>2, <2>3
  <2> QED BY <1>3, <1>7, <2>4 DEF Reached
<1> QED BY <1>3, <1>5, <1>6, <1>7, OneMovesCurrent

(* No batch lists an execution that the node lost, and the first batch of a host gives it up. *)
LEMMA BatchRecovers ==
  ASSUME CInv, NEW c \in Connection, link[c].report # None, link[c].stage \in {"begun", "rebuild"}, ~Older(c),
         NEW ids \in SUBSET Execution, Write(Batch(c, ids, link[c].report.rows)),
         NEW e \in Execution, Lost(e)
  PROVE  row'[e] # "pending"
<1> DEFINE rows == link[c].report.rows
           present == {f \in ids : rows[f] # "absent"}
<1>1. e \notin present
  BY DEF CInv, LostSeen, Lost
<1>2. row'[e] = IF e \in Recovered(c, present) THEN "error" ELSE row[e]
  BY <1>1 DEF Write, Batch
<1>3. CASE wm # None
  BY <1>2, <1>3 DEF CInv
<1>4. CASE wm = None
  <2>1. link[c].source = None
    BY <1>4 DEF CInv, Acknowledged
  <2>2. row[e] = "pending" => e \in Recovered(c, present)
    BY <1>1, <2>1 DEF CInv, LostSeen, Recovered, Lost
  <2> QED BY <1>2, <2>2
<1> QED BY <1>3, <1>4

(* A report that the index takes is the new anchor: the others of its host  *)
(* were collected before or after it as their numbers say.                  *)
LEMMA WriteKeepsCurrent ==
  ASSUME CInv, IInv', NEW c \in Connection, link[c].report # None, ~Older(c), ~Superseded(c), Done(c, TRUE),
         UNCHANGED <<runtime, log>>,
         wm' = [generation |-> Host(c), sequence |-> link[c].report.sequence],
         \A e \in Execution : link[c].report.rows[e] # "absent" /\ runtime[e] # "forgotten" =>
            row'[e] = link[c].report.rows[e],
         \A e \in Execution : Lost(e) => row'[e] # "pending"
  PROVE  CInv'
<1>. PICK g, r : g = link[c].host /\ r = link[c].report.revision
  OBVIOUS
<1>1. /\ IInv /\ TypeOK /\ TypeOK' /\ Host(c) = g /\ g \in Generation /\ g \in Nat
      /\ r \in Nat /\ link[c].report.sequence \in Nat /\ Contents(link[c], log[g])
      /\ log[g].revision \in Nat /\ \A e \in Execution : log[g].at[e] \in Nat
  BY Typed DEF CInv, IInv, Sound, Host
<1>2. PICK l : l = link'[c]
  OBVIOUS
<1>3. /\ l \in Link /\ link' = [link EXCEPT ![c] = l] /\ l.host = g /\ l.stage = "idle"
      /\ l.report = None /\ l.source # None /\ l.source.revision = r
  BY <1>1, <1>2, DoneLeaves
<1>4. link'[c] = l /\ \A d \in Connection : d # c => link'[d] = link[d]
  BY <1>1, <1>3 DEF TypeOK
<1>5. wm' # None /\ wm'.generation = g /\ wm'.sequence = link[c].report.sequence
  <2>1. wm' \in Watermark
    BY <1>1 DEF Watermark
  <2> QED BY <1>1, <2>1, ReportAssumption
<1>6. ASSUME NEW d \in Connection, d # c, link[d].host = g
      PROVE  Reached(link[d], log[g], wm', r)
  <2>1. ASSUME link[d].source # None, NEW e \in Execution, log[g].at[e] <= link[d].source.revision
        PROVE  log[g].at[e] <= r
    <3>1. wm # None /\ g <= wm.generation /\ wm.generation \in Nat
      BY <1>1, <1>6, <2>1, Typed DEF CInv, Acknowledged
    <3>2. wm.generation = g /\ ~(link[c].report.sequence <= wm.sequence)
      BY <1>1, <3>1 DEF Older, Superseded
    <3>3. PICK r0 \in Nat : Anchored(r0)
      BY <1>1, <3>1, AnchorIsNumber
    <3>4. Reached(link[d], log[g], wm, r0) /\ Reached(link[c], log[g], wm, r0)
      BY <1>1, <1>6, <3>2, <3>3 DEF Anchored, Host
    <3>5. log[g].at[e] <= r0 /\ r0 <= r
      BY <2>1, <3>2, <3>4 DEF Reached
    <3> QED BY <1>1, <3>5
  <2>2. ASSUME link[d].report # None
        PROVE  IF link[d].report.sequence <= link[c].report.sequence
               THEN link[d].report.revision <= r ELSE r <= link[d].report.revision
    <3>1. /\ link[d].report.sequence \in Nat
          /\ link[d].report.sequence # link[c].report.sequence
          /\ InOrder(link[d], link[c]) /\ InOrder(link[c], link[d])
      BY <1>1, <1>6, <2>2, Typed DEF CInv, IInv, NumbersDiffer
    <3> QED BY <1>1, <1>6, <2>2, <3>1 DEF InOrder
  <2> QED BY <1>5, <2>1, <2>2 DEF Reached
<1>7. Anchored(r)'
  <2>1. r <= log[g].revision
    BY <1>1 DEF Contents
  <2>2. ASSUME NEW e \in Execution, log[g].at[e] <= r, log[g].rows[e] # "absent", runtime[e] # "forgotten"
        PROVE  row'[e] = log[g].rows[e]
    <3>1. log[g].rows[e] = link[c].report.rows[e]
      BY <1>1, <2>2 DEF Contents
    <3> QED BY <2>2, <3>1
  <2>3. ASSUME NEW d \in Connection, link'[d].host = g
        PROVE  Reached(link'[d], log[g], wm', r)
    BY <1>3, <1>4, <1>6, <2>3 DEF Reached
  <2> QED BY <1>5, <2>1, <2>2, <2>3 DEF Anchored, Host
<1>8. ASSUME NEW d \in Connection
      PROVE  Acknowledged(link'[d], wm') /\ LostSeen(link[d])'
  <2>1. CASE d = c
    BY <1>1, <1>3, <1>4, <1>5, <2>1 DEF Acknowledged, LostSeen
  <2>2. CASE d # c
    <3>1. link[d].source # None => wm # None /\ link[d].host <= wm.generation
      BY DEF CInv, Acknowledged
    <3>2. link[d].host \in Nat /\ (wm # None => wm.generation \in Nat /\ wm.generation <= g)
      <4>1. link[d].host \in Generation /\ (wm # None => wm.generation \in Nat)
        BY <1>1, Typed
      <4>2. wm # None => ~(Host(c) < wm.generation)
        BY DEF Older
      <4>3. link[d].host \in Nat
        BY <4>1, ReportAssumption
      <4>4. wm # None => wm.generation <= g
        BY <1>1, <4>1, <4>2
      <4> QED BY <4>1, <4>3, <4>4
    <3>3. Acknowledged(link'[d], wm')
      BY <1>1, <1>4, <1>5, <2>2, <3>1, <3>2 DEF Acknowledged
    <3>4. LostSeen(link[d])'
      BY <1>4, <2>2 DEF CInv, LostSeen, Lost
    <3> QED BY <3>3, <3>4
  <2> QED BY <2>1, <2>2
<1>9. \A d, k \in Connection : InOrder(link[d], link[k])'
  BY <1>3, <1>4 DEF CInv, InOrder
<1>10. \A h \in Generation, e \in Execution : runtime'[e] = "none" => log'[h].rows[e] = "absent"
  BY DEF CInv
<1>11. \A e \in Execution : Lost(e)' => row'[e] # "pending"
  BY DEF Lost
<1>12. \A d \in Connection : Acknowledged(link[d], wm)' /\ LostSeen(link[d])'
  BY <1>8 DEF Acknowledged
<1>13. \E k \in 0 .. log'[wm'.generation].revision : Anchored(k)'
  BY <1>1, <1>5, <1>7, AnchorNext
<1> QED BY <1>9, <1>10, <1>11, <1>12, <1>13 DEF CInv

LEMMA ServerKeepsCurrent ==
  ASSUME CInv, IInv', NEW c \in Connection, Begin(c) \/ Store(c) \/ Rebuild(c)
  PROVE  CInv'
<1>1. /\ IInv /\ TypeOK /\ Baseline(link[c], wm) /\ LostSeen(link[c]) /\ Host(c) = link[c].host
      /\ link[c].pending \in SUBSET Execution
  BY Typed DEF CInv, IInv, Sound
<1>2. link[c].report # None /\ UNCHANGED <<runtime, log, sequence>>
  BY <1>1 DEF Baseline, Begin, Store, Rebuild
<1>3. CASE Begin(c)
  <2>. PICK pending : pending = {e \in Execution : row[e] = "pending"}
    OBVIOUS
  <2> QED BY <1>3, StageKeepsCurrent DEF Begin
<1>4. CASE /\ link[c].stage = "begun" /\ link' = [link EXCEPT ![c].stage = "rebuild"] /\ UNCHANGED <<wm, row>>
  <2>. PICK pending : pending = link[c].pending
    OBVIOUS
  <2>1. link' = [link EXCEPT ![c].stage = "rebuild", ![c].pending = pending]
    BY <1>1, <1>4, Typed DEF TypeOK, Link
  <2>2. link[c].source = None => \A e \in Execution : Lost(e) /\ row[e] = "pending" => e \in pending
    BY <1>1, <1>4 DEF LostSeen
  <2> QED BY <1>1, <1>2, <1>4, <2>1, <2>2, StageKeepsCurrent
<1>5. CASE \E keep \in BOOLEAN : Done(c, keep) /\ (Older(c) \/ Superseded(c)) /\ UNCHANGED <<wm, row>>
  BY <1>2, <1>5, SkipKeepsCurrent
<1>6. CASE /\ link[c].stage = "begun" /\ ~Older(c) /\ ~Superseded(c) /\ BaseFits(c) /\ Done(c, TRUE)
           /\ Write(Batch(c, link[c].report.ids, link[c].report.rows))
  <2>1. link[c].report.ids \in SUBSET Execution
    BY <1>1, <1>2, Typed
  <2>2. \A e \in Execution : Lost(e) => row'[e] # "pending"
    BY <1>2, <1>6, <2>1, BatchRecovers
  <2> QED BY <1>1, <1>2, <1>6, <2>2, StoreWrites, WriteKeepsCurrent
<1>7. CASE /\ Rebuild(c) /\ ~Older(c) /\ ~Superseded(c)
  <2>1. /\ link[c].stage = "rebuild" /\ Done(c, TRUE)
        /\ Write(Batch(c, Execution, link[c].report.rows))
    <3>1. /\ link[c].stage = "rebuild" /\ (link[c].report.base # None => link[c].heldAt = link[c].report.base)
      BY <1>1, <1>2, <1>7 DEF Baseline, Rebuild
    <3>2. Merged(c) = link[c].report.rows
      BY <1>1, <1>2, <3>1, MergedWhole
    <3> QED BY <1>7, <3>1, <3>2 DEF Rebuild
  <2>2. \A e \in Execution : Lost(e) => row'[e] # "pending"
    BY <1>2, <1>7, <2>1, BatchRecovers
  <2> QED BY <1>1, <1>2, <1>7, <2>1, <2>2, RebuildWrites, WriteKeepsCurrent
<1>8. CASE Rebuild(c) /\ (Older(c) \/ Superseded(c))
  BY <1>1, <1>5, <1>8, RebuildWrites
<1>9. CASE Store(c)
  <2>1. link[c].stage = "begun"
    BY <1>9 DEF Store
  <2> QED BY <1>4, <1>5, <1>6, <1>9, <2>1 DEF Store
<1> QED BY <1>3, <1>7, <1>8, <1>9

LEMMA InitCurrent == Init => CInv
<1> SUFFICES ASSUME Init
             PROVE  CInv
  OBVIOUS
<1>1. PICK host \in [Connection -> Generation] : link = [c \in Connection |-> Fresh(host[c])]
  BY DEF Init
<1>2. \A c \in Connection : link[c].stage = "idle" /\ link[c].source = None /\ link[c].report = None
  BY <1>1 DEF Fresh
<1>3. \A g \in Generation, e \in Execution : log[g].rows[e] = "absent"
  BY DEF Init, Nothing
<1>4. wm = None
  BY DEF Init
<1> QED BY <1>2, <1>3, <1>4, InitIInv DEF CInv, Acknowledged, LostSeen, InOrder

LEMMA StepKeepsCurrent == CInv /\ [Next]_vars => CInv'
<1> SUFFICES ASSUME CInv, [Next]_vars
             PROVE  CInv'
  OBVIOUS
<1>1. IInv'
  BY StepKeeps DEF CInv
<1>2. ASSUME NEW e \in Execution, RuntimeStep(e) \/ Clear(e)
      PROVE  CInv'
  BY <1>1, <1>2, JournalKeepsCurrent
<1>3. ASSUME NEW c \in Connection, Reconnect(c)
      PROVE  CInv'
  BY <1>1, <1>3, ReconnectKeepsCurrent
<1>4. ASSUME NEW c \in Connection, Collect(c)
      PROVE  CInv'
  BY <1>1, <1>4, CollectKeepsCurrent
<1>5. ASSUME NEW c \in Connection, Begin(c) \/ Store(c) \/ Rebuild(c)
      PROVE  CInv'
  BY <1>1, <1>5, ServerKeepsCurrent
<1>6. CASE UNCHANGED vars
  BY <1>1, <1>6 DEF vars, CInv, Anchored, Reached, Acknowledged, LostSeen, Lost, InOrder, Host
<1> QED BY <1>2, <1>3, <1>4, <1>5, <1>6 DEF Next

(* A host with nothing left to report has been heard: what the node holds   *)
(* is listed, and what it lost is not pending, over any superseded, rebuilt, *)
(* lost or repeated reports of any number of connections and hosts.         *)
THEOREM QuietCurrent == Spec => []QuietMeansCurrent
<1>1. CInv => QuietMeansCurrent
  <2> SUFFICES ASSUME CInv, NEW c \in Connection, Quiet(c), Host(c) >= wm.generation, NEW e \in Execution
               PROVE  Settled(e)
    BY DEF QuietMeansCurrent
  <2>1. /\ TypeOK /\ link[c].source # None /\ Acknowledged(link[c], wm) /\ Host(c) = link[c].host
        /\ link[c].host \in Generation /\ link[c].host \in Nat
    BY Typed, ReportAssumption DEF CInv, IInv, Quiet
  <2>2. wm # None /\ wm.generation \in Nat /\ wm.generation = Host(c)
    BY <2>1, Typed DEF Acknowledged
  <2>3. PICK r \in Nat : Anchored(r)
    BY <2>1, <2>2, AnchorIsNumber
  <2>4. /\ log[Host(c)].at[e] <= link[c].source.revision
        /\ log[Host(c)].rows[e] = Shown(e)
    BY DEF Quiet
  <2>5. log[Host(c)].at[e] <= r
    BY <2>1, <2>2, <2>3, <2>4 DEF Anchored, Reached
  <2>6. Shown(e) # "absent" => runtime[e] # "forgotten"
    BY DEF Shown
  <2>7. Shown(e) # "absent" => row[e] = Shown(e)
    BY <2>2, <2>3, <2>4, <2>5, <2>6 DEF Anchored
  <2>8. Lost(e) => row[e] # "pending"
    BY <2>2 DEF CInv
  <2> QED BY <2>7, <2>8 DEF Settled, Lost
<1>2. Spec => []CInv
  BY InitCurrent, StepKeepsCurrent, PTL DEF Spec
<1> QED BY <1>1, <1>2, PTL
===============================================================================
