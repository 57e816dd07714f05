----------------------------- MODULE IndexReport -----------------------------
(***************************************************************************)
(* How the execution journals of one node reach the server's index.  The   *)
(* host numbers changes in an inventory log; each connection collects what *)
(* changed since its last acknowledged report and sends a full report or a *)
(* delta against it.  The server fences reports with one durable watermark *)
(* per node (host generation and sequence), because a newer host process   *)
(* and several connections of one process may report at the same time.     *)
(*                                                                         *)
(* Modelled: full, delta and empty reports; the bounded history; the two   *)
(* writes of an application (as sent, or rebuilt as a whole after the      *)
(* baseline moved); recovery of rows that no journal holds; lost           *)
(* connections; clearing of finished executions; and writes whose caller   *)
(* was dropped.                                                            *)
(* A connection's baseline is touched by its own reports only, one at a    *)
(* time, so batches and acknowledgements are not steps of their own.  Left *)
(* out: collections that fail, peers without acknowledgements, the hub's   *)
(* readiness, and the numbers of snapshots that carry no report.           *)
(***************************************************************************)
EXTENDS Naturals, FiniteSets

CONSTANTS
    Execution,
    Prepared,       \* those with a frozen assignment: the server may still dispatch them
    Generation,     \* epochs of the node's host processes
    Connection,     \* sockets that are open at the same time
    HistoryLimit,   \* 100,000 in the code
    MaxChanges,     \* bound: changes of the journals
    MaxExtra,       \* bound: lost connections and full reports by the ten minute timer
    None

Listed == {"absent", "pending", "done"}
Number == Nat \cup {None}

Source == [revision : Nat, sequence : Nat]
Report == [sequence : Nat, revision : Nat, base : Number, ids : SUBSET Execution,
           rows : [Execution -> Listed]]
Watermark == [generation : Generation, sequence : Nat]

ASSUME ReportAssumption ==
    /\ Prepared \subseteq Execution /\ IsFiniteSet(Execution)
    /\ Generation \subseteq Nat
    /\ {HistoryLimit, MaxChanges, MaxExtra} \subseteq Nat
    /\ None \notin Nat /\ None \notin Source /\ None \notin Report /\ None \notin Watermark

VARIABLES
    runtime,   \* the journals of the node's runtimes
    log,       \* InventoryLog of each host process: rows, revision of each row's last change
    sequence,  \* last report number of each host process
    link,      \* both ends of each connection
    wm, row,   \* durable at the server: the node's watermark and the index rows
    orphan,    \* a write that runs on although its caller was dropped
    changes, extra

vars == <<runtime, log, sequence, link, wm, row, orphan, changes, extra>>

Nothing == [e \in Execution |-> "absent"]

\* Both ends of a connection start empty, so that its first report is full.
Fresh(g) ==
    [stage |-> "idle", host |-> g, source |-> None, report |-> None, completed |-> FALSE,
     committed |-> None, heldAt |-> None, held |-> Nothing, pending |-> {}]

Host(c) == link[c].host

\* A pending row without an assignment belongs to a node that may have lost the execution.
Init ==
    /\ row \in [Execution -> {"absent", "pending"}]
    /\ \A e \in Prepared : row[e] = "pending"
    /\ runtime \in [Execution -> {"none", "pending"}]
    /\ \A e \in Execution : runtime[e] = "pending" => e \notin Prepared
    /\ log = [g \in Generation |-> [rows |-> Nothing, at |-> [e \in Execution |-> 0], revision |-> 0]]
    /\ sequence = [g \in Generation |-> 0]
    /\ \E host \in [Connection -> Generation] : link = [c \in Connection |-> Fresh(host[c])]
    /\ wm = None
    /\ orphan = None
    /\ changes = 0 /\ extra = 0

-----------------------------------------------------------------------------
(* The node: runtimes, connections and collections.                        *)

Shown(e) == IF runtime[e] \in {"pending", "done"} THEN runtime[e] ELSE "absent"

Change(e, state) ==
    /\ changes < MaxChanges
    /\ changes' = changes + 1
    /\ runtime' = [runtime EXCEPT ![e] = state]

\* An execution is accepted from the server, or created on the node itself, and finishes.
RuntimeStep(e) ==
    /\ \/ /\ runtime[e] = "none"
          /\ e \in Prepared \/ row[e] = "absent"
          /\ Change(e, "pending")
       \/ /\ runtime[e] = "pending"
          /\ Change(e, "done")
    /\ UNCHANGED <<log, sequence, link, wm, row, orphan, extra>>

\* A socket ends at any moment; the next one may lead to another host process.
Reconnect(c) ==
    /\ extra < MaxExtra
    /\ extra' = extra + 1
    /\ \E g \in Generation : link' = [link EXCEPT ![c] = Fresh(g)]
    /\ UNCHANGED <<runtime, log, sequence, wm, row, orphan, changes>>

\* The log after the runtimes were asked.
Refreshed(g) ==
    LET changed == {e \in Execution : log[g].rows[e] # Shown(e)}
        revision == log[g].revision + Cardinality(changed)
    IN [rows |-> [e \in Execution |-> Shown(e)],
        at |-> [e \in Execution |-> IF e \in changed THEN revision ELSE log[g].at[e]],
        revision |-> revision]

\* Changes up to this revision have left the history.
Floor(entry) == IF entry.revision > HistoryLimit THEN entry.revision - HistoryLimit ELSE 0

\* Nothing changed: no report, and only the cursor moves.
CollectNothing(c, entry) ==
    /\ link' = [link EXCEPT ![c].source.revision = entry.revision]
    /\ UNCHANGED sequence

\* The server takes a delta only against the report it committed last on this connection.
Send(c, entry, base, ids) ==
    LET next == sequence[Host(c)] + 1 IN
    /\ sequence' = [sequence EXCEPT ![Host(c)] = next]
    /\ link' = [link EXCEPT
         ![c].stage = IF base # None /\ base # link[c].committed THEN "closed"
                      ELSE IF link[c].completed THEN "begun" ELSE "sent",
         ![c].report = [sequence |-> next, revision |-> entry.revision,
                        base |-> base, ids |-> ids, rows |-> entry.rows]]

\* A report is full at first, by the timer, and when the history does not reach back.
Collect(c) ==
    LET g == Host(c)
        entry == Refreshed(g)
        source == link[c].source
    IN  /\ link[c].stage = "idle"
        /\ log' = [log EXCEPT ![g] = entry]
        /\ \/ /\ source # None => source.revision < Floor(entry)
              /\ Send(c, entry, None, Execution)
              /\ UNCHANGED extra
           \/ /\ source # None
              /\ extra < MaxExtra
              /\ extra' = extra + 1
              /\ Send(c, entry, None, Execution)
           \/ /\ source # None /\ source.revision >= Floor(entry)
              /\ LET ids == {e \in Execution : entry.at[e] > source.revision}
                 IN IF ids = {} THEN CollectNothing(c, entry)
                    ELSE Send(c, entry, source.sequence, ids)
              /\ UNCHANGED extra
        /\ UNCHANGED <<runtime, wm, row, orphan, changes>>

-----------------------------------------------------------------------------
(* The server: a report begins, is applied as sent, or is rebuilt.         *)

\* The first report of a connection captures the pending rows it may recover.
Begin(c) ==
    /\ link[c].stage = "sent"
    /\ link' = [link EXCEPT ![c].stage = "begun",
                            ![c].pending = {e \in Execution : row[e] = "pending"}]
    /\ UNCHANGED <<runtime, log, sequence, wm, row, orphan, changes, extra>>

\* Mutant: the report of an older host is only fenced by its number.
OlderNever(c) == FALSE

Older(c) == wm # None /\ Host(c) < wm.generation

Superseded(c) ==
    wm # None /\ Host(c) = wm.generation /\ link[c].report.sequence <= wm.sequence

\* A delta only fits the very report it was computed against.
BaseFits(c) ==
    link[c].report.base # None =>
        wm = [generation |-> Host(c), sequence |-> link[c].report.base]

\* Mutant: every pending row that the report does not contain is given up.
RecoveredNow(c, present) ==
    {e \in Execution \ present : row[e] = "pending" /\ e \notin Prepared}

\* Rows that were pending when the report began and that it does not contain.
Recovered(c, present) ==
    {e \in link[c].pending \ present : row[e] = "pending" /\ e \notin Prepared}

\* One batch: the watermark, the rows of the report, the recovered rows.
Batch(c, ids, rows) ==
    LET present == {e \in ids : rows[e] # "absent"} IN
    [wm |-> [generation |-> Host(c), sequence |-> link[c].report.sequence],
     row |-> [e \in Execution |-> IF e \in present THEN rows[e]
                                  ELSE IF e \in Recovered(c, present) THEN "error" ELSE row[e]]]

Write(batch) == wm' = batch.wm /\ row' = batch.row

\* The connection's complete inventory with the report on top.
Merged(c) ==
    LET report == link[c].report
    IN [e \in Execution |-> IF e \in report.ids THEN report.rows[e] ELSE link[c].held[e]]

\* Mutant: the acknowledged cursor is the log's current revision.
CurrentCursor(c) == log[Host(c)].revision

\* DeltaState::commit: the next delta starts where this report was collected.
Cursor(c) == link[c].report.revision

\* Mutant: a skipped report does not count as committed.
CountedIfKept(c, keep) == IF keep THEN link[c].report.sequence ELSE link[c].committed

Counted(c, keep) == link[c].report.sequence

\* Stored, superseded or skipped, the report is acknowledged; a skipped one leaves the inventory.
Done(c, keep) ==
    LET number == link[c].report.sequence IN
    link' = [link EXCEPT
        ![c].stage = "idle", ![c].report = None, ![c].pending = {}, ![c].completed = TRUE,
        ![c].source = [revision |-> Cursor(c), sequence |-> number],
        ![c].committed = Counted(c, keep),
        ![c].heldAt = IF keep THEN number ELSE @,
        ![c].held = IF keep THEN Merged(c) ELSE @]

\* apply_index_report_committed, under the write lease.
Store(c) ==
    /\ link[c].stage = "begun"
    /\ orphan = None
    /\ \/ /\ Older(c)
          /\ Done(c, FALSE)
          /\ UNCHANGED <<wm, row>>
       \/ /\ ~Older(c)
          /\ ~(~Superseded(c) /\ BaseFits(c))
          /\ link' = [link EXCEPT ![c].stage = "rebuild"]
          /\ UNCHANGED <<wm, row>>
       \/ /\ ~Older(c) /\ ~Superseded(c) /\ BaseFits(c)
          /\ Done(c, TRUE)
          /\ Write(Batch(c, link[c].report.ids, link[c].report.rows))
    /\ UNCHANGED <<runtime, log, sequence, orphan, changes, extra>>

\* apply_index_snapshot_fenced: the whole inventory, in a write of its own.
Rebuild(c) ==
    LET base == link[c].report.base IN
    /\ link[c].stage = "rebuild"
    /\ orphan = None
    /\ IF base # None /\ base # link[c].heldAt
       THEN link' = [link EXCEPT ![c].stage = "closed"] /\ UNCHANGED <<wm, row>>
       ELSE IF Older(c) \/ Superseded(c)
            THEN Done(c, Superseded(c)) /\ UNCHANGED <<wm, row>>
            ELSE Done(c, TRUE) /\ Write(Batch(c, Execution, Merged(c)))
    /\ UNCHANGED <<runtime, log, sequence, orphan, changes, extra>>

-----------------------------------------------------------------------------
(* Forgetting, and writes without a caller.                                *)

\* clear_dialogs: the node forgets what the index lists as finished, and then the row goes.
Clear(e) ==
    /\ row[e] = "done" /\ runtime[e] = "done"
    /\ Change(e, "forgotten")
    /\ row' = [row EXCEPT ![e] = "absent"]
    /\ UNCHANGED <<log, sequence, link, wm, orphan, extra>>

\* The connection ends while its write is running: the lease is free, the write goes on.
Abandon(c) ==
    /\ link[c].stage = "begun"
    /\ orphan = None
    /\ extra < MaxExtra
    /\ extra' = extra + 1
    /\ ~Older(c) /\ ~Superseded(c) /\ BaseFits(c)
    /\ orphan' = Batch(c, link[c].report.ids, link[c].report.rows)
    /\ link' = [link EXCEPT ![c] = Fresh(Host(c))]
    /\ UNCHANGED <<runtime, log, sequence, wm, row, changes>>

\* ... while other writers take the lease.
Overlap(c) ==
    /\ orphan # None
    /\ link[c].stage = "begun"
    /\ ~Older(c) /\ ~Superseded(c) /\ BaseFits(c)
    /\ Done(c, TRUE)
    /\ Write(Batch(c, link[c].report.ids, link[c].report.rows))
    /\ UNCHANGED <<runtime, log, sequence, orphan, changes, extra>>

OrphanCommits ==
    /\ orphan # None
    /\ Write(orphan)
    /\ orphan' = None
    /\ UNCHANGED <<runtime, log, sequence, link, changes, extra>>

-----------------------------------------------------------------------------
Next ==
    \/ \E e \in Execution : RuntimeStep(e) \/ Clear(e)
    \/ \E c \in Connection :
          Reconnect(c) \/ Collect(c) \/ Begin(c) \/ Store(c) \/ Rebuild(c)

\* A host collects on every change and on a timer, and the server works off what it
\* is sent; executions finish and are forgotten as they like.
Fairness ==
    \A c \in Connection :
        WF_vars(Collect(c)) /\ WF_vars(Begin(c)) /\ WF_vars(Store(c)) /\ WF_vars(Rebuild(c))

Spec == Init /\ [][Next]_vars
FairSpec == Spec /\ Fairness

\* The same with writes that outlive their connection.
AbandonedNext ==
    \/ Next
    \/ \E c \in Connection : Abandon(c) \/ Overlap(c)
    \/ OrphanCommits
AbandonedSpec == Init /\ [][AbandonedNext]_vars
-----------------------------------------------------------------------------
(* Properties.                                                             *)

Entry == [rows : [Execution -> Listed], at : [Execution -> Nat], revision : Nat]

Link == [stage : {"idle", "sent", "begun", "rebuild", "closed"}, host : Generation,
         source : Source \cup {None}, report : Report \cup {None}, completed : BOOLEAN,
         committed : Number, heldAt : Number, held : [Execution -> Listed],
         pending : SUBSET Execution]

TypeOK ==
    /\ runtime \in [Execution -> {"none", "pending", "done", "forgotten"}]
    /\ log \in [Generation -> Entry]
    /\ \A g \in Generation, e \in Execution : log[g].at[e] <= log[g].revision
    /\ sequence \in [Generation -> Nat]
    /\ link \in [Connection -> Link]
    /\ row \in [Execution -> Listed \cup {"error"}]
    /\ wm \in Watermark \cup {None}

\* Both ends of a connection agree on its baseline, whatever was stored, skipped or superseded:
\* the server never has to close it, with the calls that are under way on it, because a delta does
\* not fit the report it committed last or the inventory it holds.
BaselinesAgree == \A c \in Connection : link[c].stage # "closed"

Reaches(old, new) ==
    old = None \/ old.generation < new.generation
        \/ (old.generation = new.generation /\ old.sequence < new.sequence)

\* Neither a late report of an older host nor a late report of an older connection takes the
\* index back.
WatermarkAdvances == [][wm' # wm => Reaches(wm, wm')]_vars

\* Whenever the watermark moves, the index agrees with one complete inventory that its host had
\* collected, on every execution that this inventory holds: deltas of different connections are
\* never mixed.
IndexIsWhole ==
    [][wm' # wm =>
        \E c \in Connection :
            /\ link[c].stage \in {"begun", "rebuild"}
            /\ wm' = [generation |-> Host(c), sequence |-> link[c].report.sequence]
            /\ \A e \in Execution :
                  link[c].report.rows[e] # "absent" /\ runtime[e] # "forgotten" =>
                      row'[e] = link[c].report.rows[e]]_vars

\* While the newest host that ever reported stays connected, the index comes to list what the node
\* holds, and no row that its node lost stays pending: it cannot hold a place for ever.
Settled(e) ==
    /\ Shown(e) # "absent" => row[e] = Shown(e)
    /\ runtime[e] = "none" /\ e \notin Prepared => row[e] # "pending"
NewestConnected == \E c \in Connection : wm # None => Host(c) >= wm.generation
IndexCatchesUp == <>[]NewestConnected => <>[](\A e \in Execution : Settled(e))
\* Nothing is left to tell on the connection: its next collection finds no change to report.
Quiet(c) ==
    /\ link[c].stage = "idle" /\ link[c].source # None
    /\ \A e \in Execution : /\ log[Host(c)].rows[e] = Shown(e)
                            /\ log[Host(c)].at[e] <= link[c].source.revision

\* A host with nothing left to report has been heard, whatever was superseded, rebuilt or sent on
\* another connection: what the node holds is listed, and no row that the node lost is pending.
QuietMeansCurrent ==
    \A c \in Connection :
        Quiet(c) /\ Host(c) >= wm.generation => \A e \in Execution : Settled(e)
-----------------------------------------------------------------------------
(* The inductive invariant behind the safety properties; l is a connection, *)
(* w a watermark, entry the log of the connection's host.                   *)

Behind(l, w) == w # None /\ l.host < w.generation

\* Cursor, committed report and held inventory are of one report, unless a newer host reported.
Baseline(l, w) ==
    /\ l.stage # "closed"
    /\ l.stage = "idle" <=> l.report = None
    /\ l.stage = "sent" => l.source = None
    /\ l.completed <=> l.source # None
    /\ l.source = None => l.committed = None
    /\ l.source # None => /\ l.committed = l.source.sequence
                          /\ l.heldAt = l.source.sequence \/ Behind(l, w)
    /\ l.report # None /\ l.report.base # None =>
          /\ l.source # None /\ l.report.base = l.source.sequence
          /\ l.stage = "rebuild" => l.heldAt = l.report.base

\* What the held inventory and the report under way say is what the log said, up to its revision.
Contents(l, entry) ==
    /\ l.source # None =>
          /\ l.source.revision <= entry.revision
          /\ l.heldAt = l.source.sequence =>
                \A e \in Execution : entry.at[e] <= l.source.revision => entry.rows[e] = l.held[e]
    /\ l.report # None =>
          /\ l.report.revision <= entry.revision
          /\ \A e \in Execution : entry.at[e] <= l.report.revision => entry.rows[e] = l.report.rows[e]
          /\ l.report.base = None => l.report.ids = Execution
          /\ l.report.base # None /\ l.heldAt = l.report.base =>
                \A e \in Execution \ l.report.ids : l.report.rows[e] = l.held[e]
    /\ l.pending # {} => l.source = None

\* The index agrees with the connection whose report the watermark names.
Follows(l, w) ==
    l.source # None /\ w = [generation |-> l.host, sequence |-> l.source.sequence] =>
        \A e \in Execution : l.held[e] # "absent" /\ runtime[e] # "forgotten" => row[e] = l.held[e]

\* A host never used the number of a report under way for another report, and the index has
\* not seen it.
Numbered(l, w) ==
    /\ l.source # None => l.source.sequence <= sequence[l.host]
    /\ l.heldAt # None => l.heldAt <= sequence[l.host]
    /\ l.report # None => /\ l.report.sequence <= sequence[l.host]
                          /\ l.heldAt # l.report.sequence
                          /\ w # [generation |-> l.host, sequence |-> l.report.sequence]

NumbersDiffer(l, k) ==
    l.host = k.host /\ l.report # None =>
        /\ k.source # None => k.source.sequence # l.report.sequence
        /\ k.report # None => k.report.sequence # l.report.sequence

Sound(c) ==
    /\ Baseline(link[c], wm) /\ Contents(link[c], log[Host(c)])
    /\ Follows(link[c], wm) /\ Numbered(link[c], wm)

IInv ==
    /\ TypeOK
    /\ wm # None => wm.sequence <= sequence[wm.generation]
    /\ \A c \in Connection : Sound(c)
    /\ \A c, d \in Connection : c # d => NumbersDiffer(link[c], link[d])
-----------------------------------------------------------------------------
(* What makes a quiet host's index current, on top of IInv.                *)

\* A report that was acknowledged on a connection, or one of a newer host, moved the watermark.
Acknowledged(l, w) == l.source # None => w # None /\ l.host <= w.generation

\* r is the revision of the report that the index took last: no connection of its host was told
\* of a later change, and reports with higher numbers were collected later.
Reached(l, entry, w, r) ==
    /\ l.source # None => \A e \in Execution : entry.at[e] <= l.source.revision => entry.at[e] <= r
    /\ l.report # None => IF l.report.sequence <= w.sequence THEN l.report.revision <= r
                                                            ELSE r <= l.report.revision

Anchored(r) ==
    LET entry == log[wm.generation] IN
    /\ r <= entry.revision
    /\ \A e \in Execution :
          entry.at[e] <= r /\ entry.rows[e] # "absent" /\ runtime[e] # "forgotten" => row[e] = entry.rows[e]
    /\ \A c \in Connection : Host(c) = wm.generation => Reached(link[c], entry, wm, r)

\* Two reports of one host are numbered in the order in which they were collected.
InOrder(l, k) ==
    l.host = k.host /\ l.report # None /\ k.report # None =>
        (l.report.sequence < k.report.sequence => l.report.revision <= k.report.revision)

Lost(e) == runtime[e] = "none" /\ e \notin Prepared

\* No report holds an execution that no runtime has, and the first report of every connection
\* captures the pending rows that the node lost.
LostSeen(l) ==
    /\ l.report # None => \A e \in Execution : runtime[e] = "none" => l.report.rows[e] = "absent"
    /\ l.stage \in {"begun", "rebuild"} /\ l.source = None =>
          \A e \in Execution : Lost(e) /\ row[e] = "pending" => e \in l.pending

CInv ==
    /\ IInv
    /\ wm # None => /\ \E r \in 0 .. log[wm.generation].revision : Anchored(r)
                    /\ \A e \in Execution : Lost(e) => row[e] # "pending"
    /\ \A g \in Generation, e \in Execution : runtime[e] = "none" => log[g].rows[e] = "absent"
    /\ \A c \in Connection : Acknowledged(link[c], wm) /\ LostSeen(link[c])
    /\ \A c, d \in Connection : InOrder(link[c], link[d])
=============================================================================
