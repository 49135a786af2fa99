------------------------------- MODULE Sources --------------------------------
(***************************************************************************)
(* Where the rows of a glossary come from: the saved source connections    *)
(* and their cards (frontend/src/components/SourceConnections.jsx), the    *)
(* Schema page that browses a database and writes keys into it             *)
(* (pages/SchemaPage.jsx), and the harvest of the Connect page             *)
(* (pages/ConnectPage.jsx), with the landing of rows they share            *)
(* (landScanRows of state.js).  Answers come in any order, pages are left  *)
(* while their handlers run, and the server reads and writes the list of   *)
(* connections without a lock.                                             *)
(*                                                                         *)
(* A source stands for its rows: merging by source identity is a union     *)
(* (ReviewRows models the merge row by row).                               *)
(***************************************************************************)
EXTENDS Naturals, FiniteSets

CONSTANTS
  Conn,      \* connections, and the sources they read
  Config,    \* what a connection may be configured as
  Marked,    \* the configurations with "allow sample data" ticked
  Script,    \* CREATE TABLE scripts
  Initial,   \* the connections saved at first
  MaxCalls,  \* bound: requests
  MaxEdits,  \* bound: edits of the form, of the script and of the selection
  MaxMoves,  \* bound: pages shown and glossaries opened
  Features   \* the cards in use in this instance

ASSUME SourcesAssumption ==
  /\ Marked \subseteq Config /\ Initial \subseteq Conn
  /\ MaxCalls \in Nat /\ MaxEdits \in Nat /\ MaxMoves \in Nat

VARIABLES
  stored,  \* connections.json
  ws,      \* the grid, whether the saved glossary is the one open, its saved rows
  page,    \* the page shown, and the how-manieth showing it is
  local,   \* what a showing starts without: the lists, the form, busy flags
  schema,  \* kept by the Schema page: selection, script; panel and graph
  cache,   \* panel and graph as the session cache has them
  calls,   \* handlers that wait for an answer
  seen     \* bounds; history: the last report, what was seeded, which keys were written

vars == <<stored, ws, page, local, schema, cache, calls, seen>>

Gone    == "gone"
NoForm  == [id |-> Gone, cfg |-> Gone]
NoOut   == [mode |-> "none", cfg |-> Gone, script |-> Gone]
NoKept  == [out |-> NoOut, graph |-> <<Gone, Gone>>]
Saves   == {"save", "remove", "import"}
Landing == {"scan", "harvest", "list", "open"}

Alive(c) == c.by = page.n

Call(kind, flag) ==
  [n |-> seen.calls + 1, kind |-> kind, flag |-> flag, by |-> page.n, src |-> Gone,
   cfg |-> Gone, script |-> Gone, for |-> kind, doc |-> stored, dry |-> TRUE, plan |-> NoOut,
   found |-> {}, todo |-> {}, got |-> {}, before |-> {}, alone |-> TRUE]

(* A landing that starts beside another one: neither is alone.             *)
With(c) ==
  IF c.kind \notin Landing THEN calls \cup {c}
  ELSE {[d EXCEPT !.alone = FALSE] : d \in calls}
         \cup {[c EXCEPT !.alone = \A d \in calls : d.kind \notin Landing]}

Clicked(feature, on, c) ==
  /\ feature \in Features /\ page.name = on /\ seen.calls < MaxCalls
  /\ calls' = With(c) /\ seen' = [seen EXCEPT !.calls = @ + 1]

Free(flag)    == flag \notin local.busy
Busy(flag)    == local' = [local EXCEPT !.busy = @ \cup {flag}]
Rested(c)     == local' = IF Alive(c) THEN [local EXCEPT !.busy = @ \ {c.flag}] ELSE local
Becomes(c, d) == calls' = (calls \ {c}) \cup {d}
Ends(c)       == calls' = calls \ {c}
Edits         == seen.edits < MaxEdits /\ seen' = [seen EXCEPT !.edits = @ + 1]

-----------------------------------------------------------------------------
(* 1. The saved connections.  Save and Delete are never disabled, and the  *)
(* list shown is that of the answer that came last.                        *)

OnForm(next) ==
  /\ "form" \in Features /\ page.name = "schema"
  /\ local' = [local EXCEPT !.form = next]
  /\ UNCHANGED <<stored, ws, page, schema, cache, calls>>

StartEdit == /\ \E c \in Conn : local.list[c] # Gone /\ OnForm([id |-> c, cfg |-> local.list[c]])
             /\ UNCHANGED seen
TypeForm  == Edits /\ \E g \in Config \ {local.form.cfg} : OnForm([local.form EXCEPT !.cfg = g])
Reset     == local.form.id # Gone /\ OnForm(NoForm) /\ UNCHANGED seen

Sends(feature, on, c) ==
  Clicked(feature, on, c) /\ UNCHANGED <<stored, ws, page, local, schema, cache>>

Save == /\ local.form.cfg # Gone
        /\ Sends("form", "schema", [Call("save", "none") EXCEPT !.src = local.form.id,
                                                                !.cfg = local.form.cfg])

Remove == \E c \in Conn : /\ local.list[c] # Gone
                          /\ Sends("form", "schema", [Call("remove", "none") EXCEPT !.src = c])

(* The loader's CSV, by name: of a connection there is, or of a new one.   *)
ImportSelected == \E c \in Conn, g \in Config :
  Sends("import", "connect", [Call("import", "none") EXCEPT !.src = c, !.cfg = g])

(* save_connection: an id that is not there any more is appended again.    *)
Written(c) ==
  IF c.for = "remove" THEN {[c.doc EXCEPT ![c.src] = Gone]}
  ELSE {[c.doc EXCEPT ![id] = c.cfg] :
          id \in IF c.src # Gone THEN {c.src} ELSE {d \in Conn : c.doc[d] = Gone}}

ConnectionsRead ==
  /\ \E c \in calls : c.kind \in Saves /\ Becomes(c, [c EXCEPT !.kind = "write", !.doc = stored])
  /\ UNCHANGED <<stored, ws, page, local, schema, cache, seen>>

ConnectionsWritten ==
  /\ \E c \in calls : c.kind = "write" /\ \E doc \in Written(c) :
       stored' = doc /\ Becomes(c, [c EXCEPT !.kind = "saved", !.doc = doc])
  /\ UNCHANGED <<ws, page, local, schema, cache, seen>>

(* A card whose connection is gone is unmounted, with its busy flag.       *)
Shown(c) ==
  [local EXCEPT !.list = c.doc,
                !.busy = {f \in @ : f \in Conn => c.doc[f] # Gone},
                !.form = IF c.for = "save" THEN NoForm ELSE @]

ConnectionsAnswered ==
  /\ \E c \in calls : /\ c.kind = "saved" /\ Ends(c)
                      /\ local' = IF Alive(c) /\ page.name = "schema" THEN Shown(c) ELSE local
  /\ UNCHANGED <<stored, ws, page, schema, cache, seen>>

ConnectionsFailed ==
  /\ \E c \in calls : c.kind \in Saves /\ Ends(c)
  /\ UNCHANGED <<stored, ws, page, local, schema, cache, seen>>

-----------------------------------------------------------------------------
(* 2. Landing rows.  The landing works on the grid of the window and does  *)
(* not know whether its page is still shown.                               *)

OnCard(feature, kind) ==
  /\ \E c \in Conn : /\ local.list[c] # Gone /\ Free(c) /\ Busy(c)
                     /\ Clicked(feature, "schema", [Call(kind, c) EXCEPT !.src = c, !.cfg = local.list[c]])
  /\ UNCHANGED <<stored, ws, page, schema, cache>>

Scan == OnCard("scan", "scan")

(* The button of one source: no flag stops it, not even a harvest.         *)
HarvestOne == \E s \in Conn :
  Sends("harvest", "connect", [Call("harvest", "one") EXCEPT !.src = s])

HarvestSelected ==
  /\ Free("batch") /\ Busy("batch")
  /\ \E sel \in SUBSET Conn \ {{}} : \E s \in sel :
       Clicked("harvest", "connect", [Call("harvest", "batch") EXCEPT !.src = s, !.todo = sel \ {s},
                                                                      !.before = ws.rows])
  /\ UNCHANGED <<stored, ws, page, schema, cache>>

Reported(c, got) ==
  IF c.flag # "batch" THEN seen
  ELSE [seen EXCEPT !.report = [n |-> c.n, rows |-> IF c.alone THEN c.before \cup c.got \cup got ELSE {}]]

(* One landing is over, with rows or an error: a harvest goes on.          *)
LandedOrStuck(c, got) ==  \* mutant: an error of one source leaves the loop
  IF c.todo # {} /\ got = {}
  THEN Becomes(c, [c EXCEPT !.kind = "harvest", !.src = Gone]) /\ UNCHANGED <<local, seen>>
  ELSE Ends(c) /\ Rested(c) /\ seen' = Reported(c, got)

Landed(c, got) ==
  IF c.todo # {}
  THEN /\ \E s \in c.todo : Becomes(c, [c EXCEPT !.kind = "harvest", !.src = s, !.found = {},
                                                 !.todo = @ \ {s}, !.got = @ \cup got])
       /\ UNCHANGED <<local, seen>>
  ELSE Ends(c) /\ Rested(c) /\ seen' = Reported(c, got)

MergedOver(rows, found) == found  \* mutant: a scan replaces the grid

MergedBySource(rows, found) == rows \cup found

(* The rows have come; an empty grid first asks for the saved glossaries.  *)
RowsCame ==
  /\ \E c \in calls : \E found \in {{}, {c.src}} :
       /\ c.kind \in {"scan", "harvest"}
       /\ IF ws.rows # {}
          THEN ws' = [ws EXCEPT !.rows = MergedBySource(@, found)] /\ Landed(c, found)
          ELSE Becomes(c, [c EXCEPT !.kind = "list", !.found = found]) /\ UNCHANGED <<ws, local, seen>>
  /\ UNCHANGED <<stored, page, schema, cache>>

(* Nothing is saved, the list failed, or the steward says Cancel.          *)
LandFresh ==
  /\ \E c \in calls : /\ c.kind = "list" /\ ws' = [ws EXCEPT !.rows = c.found]
                      /\ Landed(c, c.found)
  /\ UNCHANGED <<stored, page, schema, cache>>

LandFolding ==
  /\ \E c \in calls : c.kind = "list" /\ ws.saved # {} /\ Becomes(c, [c EXCEPT !.kind = "open"])
  /\ UNCHANGED <<stored, ws, page, local, schema, cache, seen>>

LandFolded ==
  /\ \E c \in calls : /\ c.kind = "open"
                      /\ ws' = [ws EXCEPT !.rows = MergedBySource(ws.saved, c.found), !.open = TRUE]
                      /\ Landed(c, c.found)
  /\ UNCHANGED <<stored, page, schema, cache>>

LandFailed ==
  /\ \E c \in calls : c.kind \in Landing \ {"list"} /\ Landed(c, {})
  /\ UNCHANGED <<stored, ws, page, schema, cache>>

LandingStep == RowsCame \/ LandFresh \/ LandFolding \/ LandFolded \/ LandFailed

Moves == seen.moves < MaxMoves /\ seen' = [seen EXCEPT !.moves = @ + 1]

(* Elsewhere in the window: the saved glossary is opened, and saved.       *)
OpenGlossary ==
  /\ ws.saved # {} /\ Moves
  /\ ws' = [ws EXCEPT !.rows = ws.saved, !.open = TRUE]
  /\ calls' = {[c EXCEPT !.alone = FALSE] : c \in calls}
  /\ UNCHANGED <<stored, page, local, schema, cache>>

Autosave ==
  /\ ws.open /\ ws.rows \notin {{}, ws.saved} /\ ws' = [ws EXCEPT !.saved = ws.rows]
  /\ UNCHANGED <<stored, page, local, schema, cache, calls, seen>>

-----------------------------------------------------------------------------
(* 3. Seeding: a dry run, the typed name of its database, the write.       *)

Seed == OnCard("seed", "plan")

SeedTargetNow(c) ==  \* mutant: the write takes the connection as it is saved now
  IF local.list[c.src] # Gone THEN local.list[c.src] ELSE c.cfg

SeedTarget(c) == c.cfg

(* The dry run named tables, and its database was typed.                   *)
SeedTyped ==
  /\ \E c \in calls : /\ c.kind = "plan" /\ Becomes(c, [c EXCEPT !.kind = "seed", !.cfg = SeedTarget(c),
                                                                 !.plan.cfg = c.cfg])
                      /\ local' = IF Alive(c) THEN [local EXCEPT !.busy = @ \cup {c.flag}] ELSE local
  /\ UNCHANGED <<stored, ws, page, schema, cache, seen>>

(* Failed, nothing to write, cancelled, or another name was typed.         *)
SeedGivenUp ==
  /\ \E c \in calls : c.kind \in {"plan", "seed"} /\ Ends(c) /\ Rested(c)
  /\ UNCHANGED <<stored, ws, page, schema, cache, seen>>

(* The server asks the posted connection whether it is marked.             *)
SeedWritten ==
  /\ \E c \in calls : /\ c.kind = "seed" /\ c.cfg \in Marked /\ Ends(c) /\ Rested(c)
                      /\ seen' = [seen EXCEPT !.seeded = @ \cup {[cfg |-> c.cfg, typed |-> c.plan.cfg]}]
  /\ UNCHANGED <<stored, ws, page, schema, cache>>

-----------------------------------------------------------------------------
(* 4. The Schema page.                                                     *)

First    == IF \E c \in Conn : local.opts[c] # Gone THEN CHOOSE c \in Conn : local.opts[c] # Gone ELSE Gone
Selected == LET id == IF schema.sel # Gone THEN schema.sel ELSE First
            IN  IF id \in Conn THEN local.opts[id] ELSE Gone

Kept         == [out |-> schema.out, graph |-> schema.graph]
Show(s)      == schema' = s /\ cache' = [out |-> s.out, graph |-> s.graph]

(* A setter of a page that was left reaches the cache only as its first.   *)
Set(c, field, value) ==
  IF Alive(c) THEN Show([schema EXCEPT ![field] = value])
  ELSE UNCHANGED schema /\ cache' \in {cache, [cache EXCEPT ![field] = value]}

SchemaEdit(s) ==
  /\ "keys" \in Features /\ page.name = "schema" /\ Edits
  /\ schema' = s /\ UNCHANGED <<stored, ws, page, local, cache, calls>>

Select   == \E c \in Conn : local.opts[c] # Gone /\ SchemaEdit([schema EXCEPT !.sel = c])
PasteDdl == \E s \in Script \ {schema.ddl} : SchemaEdit([schema EXCEPT !.ddl = s])

Load(cfg, script, ddl) ==
  /\ Clicked("keys", "schema", [Call("load", "load") EXCEPT !.cfg = cfg, !.script = script])
  /\ Busy("load") /\ schema' = [schema EXCEPT !.ddl = ddl]
  /\ UNCHANGED <<stored, ws, page, cache>>

LoadConn    == Free("load") /\ Selected # Gone /\ Load(Selected, Gone, schema.ddl)
LoadSql     == Free("load") /\ schema.ddl # Gone /\ Load(Gone, schema.ddl, schema.ddl)
TakeDdlFile == \E s \in Script : Load(Gone, s, s)

Loaded ==
  /\ \E c \in calls : /\ c.kind = "load" /\ Ends(c) /\ Rested(c)
                      /\ \/ Set(c, "graph", <<c.cfg, c.script>>)
                         \/ UNCHANGED <<schema, cache>>
  /\ UNCHANGED <<stored, ws, page, seen>>

(* Nothing stops a second click, nor a change of the selection or of the   *)
(* script while the panel shows a plan.                                    *)
Keys(dry) ==
  /\ IF Selected = Gone
     THEN /\ "keys" \in Features /\ page.name = "schema"
          /\ Show([schema EXCEPT !.out = [NoOut EXCEPT !.mode = "error"]])
          /\ UNCHANGED <<calls, seen>>
     ELSE /\ Clicked("keys", "schema", [Call("keys", "none") EXCEPT !.cfg = Selected, !.dry = dry,
                                          !.script = schema.ddl, !.plan = schema.out])
          /\ Show([schema EXCEPT !.out = [NoOut EXCEPT !.mode = "loading"]])
  /\ UNCHANGED <<stored, ws, page, local>>

PlanKeys  == Keys(TRUE)
ApplyKeys == schema.out.mode = "plan" /\ Keys(FALSE)  \* one with keys to add

KeysAnswered ==  \* a plan may find every key present; then there is no Apply
  /\ \E c \in calls : \E mode \in IF c.dry THEN {"plan", "complete"} ELSE {"applied"} :
       /\ c.kind = "keys" /\ Ends(c)
       /\ Set(c, "out", [mode |-> mode, cfg |-> c.cfg, script |-> c.script])
       /\ seen' = IF c.dry THEN seen
                  ELSE [seen EXCEPT !.written = @ \cup {[cfg |-> c.cfg, script |-> c.script, plan |-> c.plan]}]
  /\ UNCHANGED <<stored, ws, page, local>>

KeysFailed ==
  /\ \E c \in calls : c.kind = "keys" /\ Ends(c) /\ Set(c, "out", [NoOut EXCEPT !.mode = "error"])
  /\ UNCHANGED <<stored, ws, page, local, seen>>

-----------------------------------------------------------------------------
(* 5. Pages.  Both lists of the Schema page are read as it is shown, and   *)
(* only the list of the cards is replaced when a connection is saved.      *)

Mounted == [list |-> stored, opts |-> stored, form |-> NoForm, busy |-> {}]

Navigate ==
  /\ Moves
  /\ \E name \in {"schema", "connect"} \ {page.name} : page' = [name |-> name, n |-> page.n + 1]
  /\ local' = Mounted
  /\ schema' = [schema EXCEPT !.out = cache.out, !.graph = cache.graph]
  /\ UNCHANGED <<stored, ws, cache, calls>>

Init ==
  /\ \E init \in [Initial -> Config] :
       stored = [c \in Conn |-> IF c \in Initial THEN init[c] ELSE Gone]
  /\ \E saved \in {{}} \cup {{c} : c \in Initial} : \E open \in {FALSE, saved # {}} :
       ws = [rows |-> IF open THEN saved ELSE {}, open |-> open, saved |-> saved]
  /\ \E name \in {"schema", "connect"} : page = [name |-> name, n |-> 0]
  /\ local = Mounted
  /\ schema = [sel |-> Gone, ddl |-> Gone, out |-> NoOut, graph |-> NoKept.graph]
  /\ cache = NoKept /\ calls = {}
  /\ seen = [calls |-> 0, edits |-> 0, moves |-> 0, report |-> [n |-> 0, rows |-> {}],
             seeded |-> {}, written |-> {}]

Next ==
  \/ StartEdit \/ TypeForm \/ Reset \/ Save \/ Remove \/ ImportSelected
  \/ ConnectionsRead \/ ConnectionsWritten \/ ConnectionsAnswered \/ ConnectionsFailed
  \/ Scan \/ HarvestOne \/ HarvestSelected \/ LandingStep \/ OpenGlossary \/ Autosave
  \/ Seed \/ SeedTyped \/ SeedGivenUp \/ SeedWritten
  \/ Select \/ PasteDdl \/ LoadConn \/ LoadSql \/ TakeDdlFile \/ Loaded
  \/ PlanKeys \/ ApplyKeys \/ KeysAnswered \/ KeysFailed
  \/ Navigate

(* Requests are answered or fail, and dialogs are answered.                *)
Spec == Init /\ [][Next]_vars /\ WF_vars(LandingStep)

-----------------------------------------------------------------------------
(* Seed writes only into the configuration whose database the operator     *)
(* typed after its dry run, and only where sample data is allowed,         *)
(* whatever was saved or deleted while the dry run was out.                *)
SeededIsTyped == \A s \in seen.seeded : s.cfg = s.typed /\ s.cfg \in Marked

(* A harvest of several sources that nothing else lands beside ends with   *)
(* the rows of every source it brought in, on top of those it found; also  *)
(* when its first landing loaded the saved glossary, or some source failed.*)
HarvestGathers == [][seen'.report # seen.report => seen'.report.rows \subseteq ws'.rows]_vars

(* A scan or a harvest ends, whichever of its sources fail.                *)
HarvestEnds == \A n \in 1 .. MaxCalls :
  (\E c \in calls : c.n = n /\ c.kind \in Landing) ~> ~ \E c \in calls : c.n = n

(* "Review the statements below, then apply": keys are written only into   *)
(* the database and from the script whose plan the panel showed.           *)
AppliedIsReviewed == \A w \in seen.written : w.cfg = w.plan.cfg /\ w.script = w.plan.script
=============================================================================
