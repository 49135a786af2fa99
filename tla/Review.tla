------------------------------- MODULE Review --------------------------------
(***************************************************************************)
(* The Review page of a browser window (frontend/src/pages/ReviewPage.jsx) *)
(* over the shared grid: the steward's edits and cluster decisions, the    *)
(* agents whose proposals wait as pills on row indices, the silent repair  *)
(* of duplicated sources, and what happens when the page is left while an  *)
(* agent works, a scan lands or another glossary is opened.                *)
(*                                                                         *)
(* A pill remembers, as history, the columns of the row it was asked for.  *)
(***************************************************************************)
EXTENDS ReviewRows

CONSTANTS
  Grids,      \* the grids a scan, a file or a stored glossary brings
  Scans,      \* what later scans land: sequences of rows
  Term,       \* the names steward and model use
  Chunk,      \* rows per model call: 6 in the code
  MaxEdits,   \* bound: steward edits
  MaxRuns,    \* bound: agent runs and categorize jobs
  MaxOpens,   \* bound: landings, files and other glossaries
  Features    \* the optional operations enabled in this instance

ASSUME ReviewAssumption ==
  /\ Grids \subseteq Seq(Row) /\ Scans \subseteq Seq(Row) /\ Term \subseteq Name
  /\ Chunk \in Nat \ {0}
  /\ MaxEdits \in Nat /\ MaxRuns \in Nat /\ MaxOpens \in Nat

VARIABLES
  rows,     \* ws.rows
  grp,      \* review.grp: the decided clusters with their snapshots
  pills,    \* review.proposals
  agent,    \* review.agent: what the page shows of a run
  loop,     \* runChunks, which outlives the page
  cat,      \* the categorize job: server, session cache and page
  enhance,  \* the rows sent to /api/enhance-glossary
  snap,     \* review.snap: where Reset all returns
  hm,       \* review.hmSnap: the Keep values of Keep High+Med
  mounted,  \* the page is shown
  fired,    \* what the repair effect saw when it last ran
  used,     \* bounds: edits, runs, opens
  crossed   \* history: the grid was exchanged under a model call

vars == <<rows, grp, pills, agent, loop, cat, enhance, snap, hm, mounted, fired, used, crossed>>

Field     == {"cat", "def", "sug"}
NoMap     == [x \in {} |-> None]
NoPills   == [items |-> NoMap, wholesale |-> FALSE]
NoAgent   == [on |-> FALSE, cancelling |-> FALSE]
NoLoop    == [on |-> FALSE, base |-> << >>, targets |-> << >>, own |-> FALSE, stop |-> FALSE]
NoJob     == [busy |-> FALSE, starting |-> FALSE, held |-> FALSE, polling |-> FALSE,
              server |-> "none", asked |-> << >>]
ByModel   == 2
BySteward == 1

Pending == pills # NoPills
Locked  == agent.on \/ Pending

(* The model works on rows it was sent earlier.                            *)
CatWorks  == cat.starting \/ cat.held
InFlight  == loop.on \/ CatWorks

(* The effect re-runs when one of these changes, before the next click.    *)
Deps  == <<SameSourceCount(rows), Pending, agent.on, cat.busy>>
Idle  == Deps = fired
Shown == mounted /\ Idle

Spend(what) == used' = [used EXCEPT ![what] = @ + 1]
CanEdit == Shown /\ used.edits < MaxEdits
CanRun  == Shown /\ used.runs < MaxRuns
CanOpen == used.opens < MaxOpens

-----------------------------------------------------------------------------
(* Inline edits.                                                           *)

Page == <<loop, cat, enhance, snap, mounted, fired, crossed>>

EditRows(new) ==
  /\ CanEdit /\ Spend("edits")
  /\ rows' = new

(* onField: one cell of one row.                                           *)
OnField ==
  /\ \E i \in DOMAIN rows :
       \/ "rename" \in Features /\ \E t \in Term \ {rows[i].term} :
            EditRows([rows EXCEPT ![i].term = t])
       \/ \E c \in Cat \ {rows[i].cat} : EditRows([rows EXCEPT ![i].cat = c])
       \/ rows[i].def # BySteward /\ EditRows([rows EXCEPT ![i].def = BySteward])
  /\ UNCHANGED <<grp, pills, agent, hm, Page>>

(* onKeep: a table term cannot be dropped.                                 *)
OnKeep ==
  /\ "keep" \in Features
  /\ \E i \in DOMAIN rows : ~TableTerm(rows[i]) /\ EditRows([rows EXCEPT ![i].keep = ~@])
  /\ UNCHANGED <<grp, pills, agent, hm, Page>>

WithKeep(i, on) == [rows[i] EXCEPT !.keep = on \/ TableTerm(rows[i])]

StructuralReset == hm' = NoMap /\ pills' = NoPills

MasterToggle ==
  /\ "keep" \in Features
  /\ \E on \in BOOLEAN : EditRows([i \in DOMAIN rows |-> WithKeep(i, on)])
  /\ StructuralReset
  /\ UNCHANGED <<grp, agent, Page>>

(* Keep High+Med: a pruned key stays dropped; the second click reverts.    *)
ToggleHM ==
  /\ "keep" \in Features
  /\ IF hm # NoMap
       THEN /\ EditRows([i \in DOMAIN rows |-> IF i \in DOMAIN hm
                           THEN [rows[i] EXCEPT !.keep = hm[i]] ELSE rows[i]])
            /\ hm' = NoMap
       ELSE /\ EditRows([i \in DOMAIN rows |-> IF rows[i].key /\ ~rows[i].keep
                           THEN rows[i] ELSE WithKeep(i, rows[i].sure)])
            /\ hm' = [i \in DOMAIN rows |-> rows[i].keep]
  /\ UNCHANGED <<grp, pills, agent, Page>>

(* A category is renamed on every row that carries it.                     *)
RenameCategory ==
  /\ \E from \in {rows[i].cat : i \in DOMAIN rows} : \E to \in Cat \ {from} :
       EditRows([i \in DOMAIN rows |-> IF rows[i].cat = from
                   THEN [rows[i] EXCEPT !.cat = to] ELSE rows[i]])
  /\ UNCHANGED <<grp, pills, agent, hm, Page>>

(* A suggested name renames every row that shares the old one.             *)
Renamed(old, new) == [i \in DOMAIN rows |-> IF rows[i].term = old
                        THEN [rows[i] EXCEPT !.term = new, !.sug = NoTerm] ELSE rows[i]]

UseName ==
  /\ "rename" \in Features
  /\ \E i \in DOMAIN rows : rows[i].sug # NoTerm /\ EditRows(Renamed(rows[i].term, rows[i].sug))
  /\ UNCHANGED <<grp, pills, agent, hm, Page>>

UseAllNames ==
  /\ "rename" \in Features /\ ~Locked
  /\ \E i \in DOMAIN rows : rows[i].sug \notin {NoTerm, rows[i].term}
  /\ EditRows([i \in DOMAIN rows |-> IF rows[i].sug = NoTerm THEN rows[i]
                 ELSE [rows[i] EXCEPT !.term = rows[i].sug, !.sug = NoTerm]])
  /\ UNCHANGED <<grp, pills, agent, hm, Page>>

(* Find similar: Merge on a suggested pair, which may be older than the    *)
(* grid and is not locked while pills or an agent are there.               *)
SimMerge ==
  /\ "rename" \in Features
  /\ \E drop \in TermsOf(rows) : \E keep \in Term \ {drop} :
       EditRows([i \in DOMAIN rows |-> IF rows[i].term # drop THEN rows[i]
         ELSE [rows[i] EXCEPT !.term = keep, !.sug = IF @ = keep THEN NoTerm ELSE @]])
  /\ UNCHANGED <<grp, pills, agent, hm, Page>>

(* Merge, Disambiguate and Keep separate on a cluster's header; the active *)
(* choice reverts.  The buttons rest while pills or an agent are there.    *)
Acted(n, action) == IF n \in DOMAIN grp /\ grp[n].action = action THEN "separate" ELSE action

HeaderOf(n) == n \in DuplicateNames(rows) \/ (n \in DOMAIN grp /\ ClusterOf(rows, n) # {})

Decide ==
  \E n \in TermsOf(rows) : \E action \in {"merge", "split", "separate"} :
    /\ HeaderOf(n)
    /\ LET d == GroupAction(rows, grp, n, Acted(n, action))
       IN  EditRows(d.rows) /\ grp' = d.grp

OnGroupSet ==
  /\ "group" \in Features /\ ~Locked
  /\ Decide /\ StructuralReset
  /\ crossed' = (crossed \/ CatWorks)
  /\ UNCHANGED <<agent, loop, cat, enhance, snap, mounted, fired>>

ResetAll ==
  /\ "reset" \in Features /\ ~Locked /\ snap # << >>
  /\ EditRows(snap)
  /\ grp' = NoMap /\ StructuralReset
  /\ crossed' = (crossed \/ CatWorks)
  /\ UNCHANGED <<agent, loop, cat, enhance, snap, mounted, fired>>

-----------------------------------------------------------------------------
(* The agents: one model call per chunk of kept rows, proposals only.      *)

Items(p, S) == [i \in S |-> p[i]]
Pills(p, whole) == IF DOMAIN p = {} THEN NoPills ELSE [items |-> p, wholesale |-> whole]
Over(old, new)  == [f \in DOMAIN old \cup DOMAIN new |-> IF f \in DOMAIN new THEN new[f] ELSE old[f]]
OldItems == pills.items
At(p, i)  == IF i \in DOMAIN p THEN p[i] ELSE NoMap
Merge(p, add) == [i \in DOMAIN p \cup DOMAIN add |-> Over(At(p, i), At(add, i))]

HasField(i, f) == f \in DOMAIN At(OldItems, i)
CatPending     == \E i \in DOMAIN OldItems : HasField(i, "cat")

StartRun(targets) ==
  /\ CanRun /\ Spend("runs")
  /\ ~agent.on /\ ~loop.on /\ targets # << >>
  /\ agent' = [on |-> TRUE, cancelling |-> FALSE]
  /\ loop' = [on |-> TRUE, base |-> rows, targets |-> targets, own |-> TRUE, stop |-> FALSE]
  /\ UNCHANGED <<rows, grp, pills, cat, enhance, snap, hm, mounted, fired, crossed>>

RunAiPass ==
  /\ "pass" \in Features /\ ~CatPending
  /\ StartRun(Picked([i \in DOMAIN rows |-> i], KeptRows(rows)))

RunAiPassRow == "pass" \in Features /\ \E i \in DOMAIN rows : StartRun(<<i>>)

Batch     == SubSeq(loop.targets, 1, IF Len(loop.targets) < Chunk THEN Len(loop.targets) ELSE Chunk)
AfterBatch == SubSeq(loop.targets, Len(Batch) + 1, Len(loop.targets))

(* What differs from the row the call was sent becomes a pill.             *)
Proposed(i, f, v) == [x \in {f} |-> [val |-> v, for |-> loop.base[i].cols]]
Proposals(i) ==
  {NoMap} \cup {Proposed(i, "def", ByModel) : d \in {x \in {ByModel} : loop.base[i].def # x}}
          \cup {Proposed(i, "sug", t) : t \in Term \ {loop.base[i].sug, loop.base[i].term}}

NeverDone ==  \* mutant: the last batch does not end the run
  loop' = [loop EXCEPT !.targets = AfterBatch] /\ UNCHANGED agent

(* The run goes on to its next batch or ends; a cancel is read between.    *)
Advanced == IF AfterBatch = << >> \/ loop.stop
              THEN loop' = NoLoop /\ agent' = NoAgent
              ELSE loop' = [loop EXCEPT !.targets = AfterBatch] /\ UNCHANGED agent

BatchAnswered ==
  /\ loop.on /\ Advanced
  /\ UNCHANGED <<rows, grp, cat, enhance, snap, hm, mounted, fired, used, crossed>>
  /\ \E add \in [ToSet(Batch) -> UNION {Proposals(i) : i \in ToSet(Batch)}] :
       /\ \A i \in ToSet(Batch) : add[i] \in Proposals(i)
       /\ LET real == Items(add, {i \in ToSet(Batch) : add[i] # NoMap})
          IN  pills' = IF DOMAIN real = {} THEN pills ELSE Pills(Merge(OldItems, real), FALSE)

BatchFailed ==
  /\ loop.on /\ Advanced
  /\ UNCHANGED <<rows, grp, pills, cat, enhance, snap, hm, mounted, fired, used, crossed>>

(* The model is offline: the run breaks off.                               *)
Offline ==
  /\ loop.on /\ loop' = NoLoop /\ agent' = NoAgent
  /\ UNCHANGED <<rows, grp, pills, cat, enhance, snap, hm, mounted, fired, used, crossed>>

(* The flag belongs to the page that is shown: a run that was started by   *)
(* an earlier showing of it reads another one.                             *)
Cancel ==
  /\ Shown /\ agent.on /\ ~agent.cancelling
  /\ agent' = [agent EXCEPT !.cancelling = TRUE]
  /\ loop' = [loop EXCEPT !.stop = @ \/ loop.own]
  /\ UNCHANGED <<rows, grp, pills, cat, enhance, snap, hm, mounted, fired, used, crossed>>

-----------------------------------------------------------------------------
(* The categorize job: one call for the whole schema, polled while shown.  *)

AiCategories ==
  /\ "cat" \in Features /\ CanRun /\ Spend("runs")
  /\ ~cat.busy /\ cat.server = "none" /\ rows # << >>
  /\ cat' = [NoJob EXCEPT !.busy = TRUE, !.starting = TRUE, !.server = "running",
                          !.asked = Columns(rows)]
  /\ UNCHANGED <<rows, grp, pills, agent, loop, enhance, snap, hm, mounted, fired, crossed>>

CatStarted ==
  /\ cat.starting
  /\ cat' = IF cat.busy THEN [cat EXCEPT !.starting = FALSE, !.held = TRUE, !.polling = TRUE]
            ELSE [cat EXCEPT !.starting = FALSE, !.held = TRUE]
  /\ UNCHANGED <<rows, grp, pills, agent, loop, enhance, snap, hm, mounted, fired, used, crossed>>

CatNotStarted ==
  /\ cat.starting /\ cat' = NoJob
  /\ UNCHANGED <<rows, grp, pills, agent, loop, enhance, snap, hm, mounted, fired, used, crossed>>

CatWorked ==
  /\ cat.server = "running" /\ ~cat.starting
  /\ \E s \in {"done", "error"} :
       cat' = IF cat.held THEN [cat EXCEPT !.server = s] ELSE NoJob
  /\ UNCHANGED <<rows, grp, pills, agent, loop, enhance, snap, hm, mounted, fired, used, crossed>>

(* A fresh run replaces the Category pills of the last one everywhere and  *)
(* leaves other pills; assignments are read by index.                      *)
NoCat(p) == LET q == [i \in DOMAIN p |-> Items(p[i], DOMAIN p[i] \ {"cat"})]
            IN  Items(q, {i \in DOMAIN q : q[i] # NoMap})
CatPills(a) == [i \in {j \in DOMAIN a \cap DOMAIN rows : a[j] # rows[j].cat} |->
                  [x \in {"cat"} |-> [val |-> a[i], for |-> cat.asked[i]]]]

HandleCatResult(a) ==
  pills' = IF DOMAIN CatPills(a) = {} THEN pills
           ELSE Pills(Merge(NoCat(OldItems), CatPills(a)), ~Pending \/ pills.wholesale)

CatPolled ==
  /\ mounted /\ cat.polling /\ cat' = NoJob /\ Idle
  /\ UNCHANGED <<rows, grp, agent, loop, enhance, snap, hm, mounted, fired, used, crossed>>
  /\ \/ cat.server = "done" /\ \E a \in [DOMAIN cat.asked -> Cat] : HandleCatResult(a)
     \/ cat.server = "error" /\ UNCHANGED pills

(* A poll that fails for whatever reason gives the job up.                 *)
CatLostBusy ==  \* mutant: the page stays busy after a lost job
  /\ Shown /\ cat.polling
  /\ cat' = [NoJob EXCEPT !.busy = TRUE]
  /\ UNCHANGED <<rows, grp, pills, agent, loop, enhance, snap, hm, mounted, fired, used, crossed>>

CatLost ==
  /\ Shown /\ cat.polling
  /\ cat' = NoJob
  /\ UNCHANGED <<rows, grp, pills, agent, loop, enhance, snap, hm, mounted, fired, used, crossed>>

-----------------------------------------------------------------------------
(* The pills: accepted one by one, categories alone all at once.           *)

Accepted(i, f) == LET v == pills.items[i][f].val
                  IN  IF f = "sug" THEN Renamed(rows[i].term, v)
                      ELSE [rows EXCEPT ![i][f] = v]

FieldlessKept(p, i, f) ==  \* mutant: a row without pills stays in the set
  [p EXCEPT ![i] = Items(@, DOMAIN @ \ {f})]

WithoutField(p, i, f) ==
  LET q == [p EXCEPT ![i] = Items(@, DOMAIN @ \ {f})]
  IN  Items(q, {j \in DOMAIN q : q[j] # NoMap})

AcceptProp ==
  /\ CanEdit /\ Pending
  /\ \E i \in DOMAIN pills.items \cap DOMAIN rows : \E f \in DOMAIN pills.items[i] :
       /\ EditRows(Accepted(i, f))
       /\ pills' = Pills(WithoutField(pills.items, i, f), pills.wholesale)
  /\ UNCHANGED <<grp, agent, hm, Page>>

AcceptAllProps ==
  /\ CanEdit /\ Pending /\ pills.wholesale /\ ~agent.on
  /\ EditRows([i \in DOMAIN rows |-> IF HasField(i, "cat")
                 THEN [rows[i] EXCEPT !.cat = pills.items[i]["cat"].val] ELSE rows[i]])
  /\ StructuralReset
  /\ UNCHANGED <<grp, agent, Page>>

DismissProps ==
  /\ Shown /\ Pending /\ ~agent.on /\ pills' = NoPills
  /\ UNCHANGED <<rows, grp, agent, hm, Page, used>>

(* The chips of the banner rename or drop one proposed category.           *)
PillsOf(c) == {i \in DOMAIN OldItems : HasField(i, "cat") /\ OldItems[i]["cat"].val = c}

DismissProposedCat(c) ==
  pills' = Pills(LET q == [i \in DOMAIN OldItems |-> IF i \in PillsOf(c)
                             THEN Items(OldItems[i], DOMAIN OldItems[i] \ {"cat"}) ELSE OldItems[i]]
                 IN  Items(q, {i \in DOMAIN q : q[i] # NoMap}), pills.wholesale)

RenameProposedCat(c, new) ==
  pills' = Pills(LET same(i) == i \in DOMAIN rows /\ rows[i].cat = new
                     q == [i \in DOMAIN OldItems |->
                             IF i \notin PillsOf(c) THEN OldItems[i]
                             ELSE IF same(i) THEN Items(OldItems[i], DOMAIN OldItems[i] \ {"cat"})
                             ELSE [OldItems[i] EXCEPT !["cat"].val = new]]
                 IN  Items(q, {i \in DOMAIN q : q[i] # NoMap}), pills.wholesale)

Chips ==
  /\ CanEdit /\ Spend("edits") /\ CatPending /\ ~agent.on
  /\ \E c \in Cat : /\ PillsOf(c) # {}
                    /\ \/ DismissProposedCat(c)
                       \/ \E new \in Cat \ {c} : RenameProposedCat(c, new)
  /\ UNCHANGED <<rows, grp, agent, hm, Page>>

-----------------------------------------------------------------------------
(* Rows from outside: a file, an overlay, a scan, another glossary.        *)

Exchanged == crossed' = (crossed \/ InFlight)

OnLoadFile ==
  /\ "load" \in Features /\ Shown /\ CanOpen /\ Spend("opens")
  /\ rows' \in Grids /\ snap' = rows'
  /\ grp' = NoMap /\ StructuralReset /\ Exchanged
  /\ UNCHANGED <<agent, loop, cat, enhance, mounted, fired>>

(* The overlay is computed from the rows as they were sent.                *)
EnhanceSent ==
  /\ "enhance" \in Features /\ Shown /\ CanOpen /\ Spend("opens")
  /\ enhance = << >> /\ rows # << >> /\ enhance' = rows
  /\ UNCHANGED <<rows, grp, pills, agent, loop, cat, snap, hm, mounted, fired, crossed>>

EnhanceLanded ==
  /\ enhance # << >>
  /\ \E matched \in SUBSET DOMAIN enhance :
       rows' = [i \in DOMAIN enhance |-> IF i \in matched
                  THEN [enhance[i] EXCEPT !.def = BySteward] ELSE enhance[i]]
  /\ snap' = rows' /\ enhance' = << >>
  /\ grp' = NoMap /\ StructuralReset
  /\ crossed' = (crossed \/ (InFlight /\ Columns(enhance) # Columns(rows)))
  /\ UNCHANGED <<agent, loop, cat, mounted, fired, used>>

(* Bound: the page is not left while an overlay is computed.               *)
Leave ==
  /\ Shown /\ enhance = << >> /\ "leave" \in Features
  /\ mounted' = FALSE
  /\ cat' = [cat EXCEPT !.busy = FALSE, !.polling = FALSE]
  /\ loop' = [loop EXCEPT !.own = FALSE]
  /\ UNCHANGED <<rows, grp, pills, agent, enhance, snap, hm, fired, used, crossed>>

HealedAnyway(quiet) ==  \* mutant: the repair does not wait for the pills
  IF SameSourceCount(rows) > 0 THEN SelfFold(rows) ELSE rows

Healed(quiet) == IF quiet /\ SameSourceCount(rows) > 0 THEN SelfFold(rows) ELSE rows

(* The page mounts: the repair runs before the poll has found its job.     *)
Return ==
  /\ ~mounted /\ mounted' = TRUE
  /\ snap' = IF snap = << >> THEN rows ELSE snap
  /\ rows' = Healed(~Locked)
  /\ crossed' = (crossed \/ (CatWorks /\ rows' # rows))
  /\ cat' = [cat EXCEPT !.busy = cat.held, !.polling = cat.held]
  /\ fired' = <<SameSourceCount(rows), Pending, agent.on, FALSE>>
  /\ UNCHANGED <<grp, pills, agent, loop, enhance, hm, used>>

Repair ==
  /\ mounted /\ ~Idle
  /\ UNCHANGED <<grp, pills, agent, loop, cat, enhance, snap, hm, mounted, used>>
  /\ rows' = Healed(~Locked /\ ~cat.busy)
  /\ crossed' = (crossed \/ (CatWorks /\ rows' # rows))
  /\ fired' = Deps

(* landScanRows, from another page.                                        *)
LandScan ==
  /\ "land" \in Features /\ ~mounted /\ CanOpen /\ Spend("opens")
  /\ \E scan \in Scans : \E fresh \in BOOLEAN : rows' = MergeBySource(rows, scan, fresh)
  /\ UNCHANGED <<grp, pills, agent, loop, cat, enhance, snap, hm, mounted, fired, crossed>>

(* openGlossary: the session cache of the page is dropped.                 *)
OpenOther ==
  /\ "open" \in Features /\ ~mounted /\ CanOpen /\ Spend("opens")
  /\ rows' \in Grids /\ Exchanged
  /\ grp' = NoMap /\ pills' = NoPills /\ agent' = NoAgent /\ snap' = << >> /\ hm' = NoMap
  /\ cat' = IF cat.starting THEN cat ELSE NoJob
  /\ UNCHANGED <<loop, enhance, mounted, fired>>

-----------------------------------------------------------------------------
Init ==
  /\ rows \in Grids /\ grp = NoMap /\ pills = NoPills
  /\ agent = NoAgent /\ loop = NoLoop /\ cat = NoJob
  /\ enhance = << >> /\ snap = << >> /\ hm = NoMap
  /\ mounted = FALSE /\ fired = <<0, FALSE, FALSE, FALSE>>
  /\ used = [edits |-> 0, runs |-> 0, opens |-> 0] /\ crossed = FALSE

Edits   == \/ OnField \/ OnKeep \/ MasterToggle \/ ToggleHM \/ RenameCategory
           \/ UseName \/ UseAllNames \/ SimMerge \/ OnGroupSet \/ ResetAll
Agents  == \/ RunAiPass \/ RunAiPassRow \/ BatchAnswered \/ BatchFailed \/ Offline \/ Cancel
Job     == AiCategories \/ CatStarted \/ CatNotStarted \/ CatWorked \/ CatPolled \/ CatLost
Walk    == AcceptProp \/ AcceptAllProps \/ DismissProps \/ Chips
Outside == \/ OnLoadFile \/ EnhanceSent \/ EnhanceLanded \/ Leave \/ Return \/ Repair
           \/ LandScan \/ OpenOther
Next    == Edits \/ Agents \/ Job \/ Walk \/ Outside

(* Calls are answered or fail within their time budget, effects run, and a *)
(* page that stays shown polls every 900 ms.                               *)
Fairness ==
  /\ WF_vars(BatchFailed \/ BatchAnswered) /\ WF_vars(Repair)
  /\ WF_vars(CatStarted \/ CatNotStarted) /\ WF_vars(CatWorked) /\ WF_vars(CatLost \/ CatPolled)

Spec == Init /\ [][Next]_vars /\ Fairness

-----------------------------------------------------------------------------
(* The shapes of the page's state; a call that is out, a job that is held  *)
(* and a poll go together.                                                 *)
SheetsOK == rows \in Seq(Row) /\ snap \in Seq(Row) /\ enhance \in Seq(Row)

Decision       == [action : {"merge", "split"}, base : Seq(Row) \ {<< >>}]
DecisionsOK(p) == \A n \in DOMAIN p : p[n] \in Decision

Pill(f) == [val : IF f = "cat" THEN Cat ELSE IF f = "def" THEN 0 .. 2 ELSE Name, for : Seq(Col)]
ItemsOK(p) == \A i \in DOMAIN p :
  /\ i \in Nat /\ DOMAIN p[i] # {}
  /\ \A f \in DOMAIN p[i] : f \in Field /\ p[i][f] \in Pill(f)

LoopOK ==
  /\ loop \in [on : BOOLEAN, base : Seq(Row), targets : Seq(Nat), own : BOOLEAN, stop : BOOLEAN]
  /\ ToSet(loop.targets) \subseteq DOMAIN loop.base

JobOK ==
  /\ cat \in [busy : BOOLEAN, starting : BOOLEAN, held : BOOLEAN, polling : BOOLEAN,
              server : {"none", "running", "done", "error"}, asked : Seq(Seq(Col))]
  /\ (cat.busy => mounted) /\ (cat.polling => cat.held /\ cat.busy)
  /\ (cat.starting => cat.server = "running") /\ (cat.held => cat.server # "none")

TypeOK ==
  /\ SheetsOK /\ DecisionsOK(grp) /\ ItemsOK(OldItems) /\ LoopOK /\ JobOK
  /\ agent \in [on : BOOLEAN, cancelling : BOOLEAN] /\ mounted \in BOOLEAN /\ crossed \in BOOLEAN
  /\ (\A i \in DOMAIN hm : hm[i] \in BOOLEAN) /\ used \in [edits : Nat, runs : Nat, opens : Nat]

(* "Proposals are keyed by row index, so after a merge they'd attach to    *)
(* the WRONG rows" (structuralReset): every pill stands on the row that    *)
(* was sent to the model, whatever was folded, merged, split or reset      *)
(* since.                                                                  *)
OnItsRow(i) == /\ i \in DOMAIN rows
               /\ \A f \in DOMAIN pills.items[i] :
                    ToSet(pills.items[i][f].for) \subseteq ToSet(rows[i].cols)
PillsOnTheirRow == \A i \in DOMAIN OldItems : OnItsRow(i)

(* The locks are enough as long as the grid itself is not exchanged while  *)
(* a model call is out: no pill strays through edits, decisions, the       *)
(* repair, a landing scan or leaving the page.                             *)
LocksHold == crossed \/ PillsOnTheirRow

(* While no cluster was joined by other rows after its decision, neither   *)
(* the work of the page nor a landing scan loses a source column of the    *)
(* grid: not by merging, splitting, reverting, folding, repairing or       *)
(* accepting.                                                              *)
Closed == \A n \in DOMAIN grp : ColsOf(Members(rows, n)) \subseteq ColsOf(grp[n].base)
ColumnsConserved ==
  [][(Closed /\ (used.opens = used'.opens \/ LandScan) /\ enhance' = enhance /\ rows' # snap)
        => ColsOf(rows) \subseteq ColsOf(rows')]_vars

(* "every action is reversible via 'separate'": taking a decision back at  *)
(* once gives the rows there were, apart from their place and their stamp. *)
Unstamped(s) == ToBag(Stamped(s, NoGroup))
DecisionsReverse ==
  \A n \in DuplicateNames(rows) : \A action \in {"merge", "split"} :
    LET d == GroupAction(rows, grp, n, action)
    IN  Unstamped(GroupAction(d.rows, d.grp, n, "separate").rows) = Unstamped(rows)

(* A disambiguation leaves no two members, and no member and another row,  *)
(* under one name.                                                         *)
SplitSeparates ==
  \A n \in DuplicateNames(rows) :
    LET d == GroupAction(rows, grp, n, "split").rows
        mine == {i \in DOMAIN d : d[i].grp = n}
    IN  \A i \in mine : \A j \in DOMAIN d \ {i} : d[i].term # d[j].term

(* A run that was started ends.                                            *)
RunEnds == loop.on ~> ~loop.on

(* A page that is shown does not stay busy with a job for ever.            *)
CatSettles == cat.busy ~> ~cat.busy
=============================================================================
