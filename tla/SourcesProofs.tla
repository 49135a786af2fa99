----------------------------- MODULE SourcesProofs -----------------------------
(***************************************************************************)
(* For any connections, configurations, scripts and bounds: Seed writes    *)
(* only where the operator typed, and a harvest that nothing lands beside  *)
(* ends with the rows of all its sources.                                  *)
(***************************************************************************)
EXTENDS Sources, TLAPS

Fields == {"n", "kind", "flag", "by", "src", "cfg", "script", "for", "doc", "dry", "plan",
           "found", "todo", "got", "before", "alone"}

(* A write goes where the typed plan went.                                 *)
Typed(c) ==
  /\ Fields \subseteq DOMAIN c
  /\ c.kind \in {"plan", "seed"} => "cfg" \in DOMAIN c.plan
  /\ c.kind = "seed" => c.cfg = c.plan.cfg

(* A landing that is alone is the only one; the grid still holds what it   *)
(* found and brought, and is empty while the lists are asked for.          *)
Gathers(c) ==
  c.kind \in Landing /\ c.alone =>
    /\ \A d \in calls : d.kind \in Landing => d = c
    /\ c.flag = "batch" => c.before \cup c.got \subseteq ws.rows
    /\ c.kind \in {"list", "open"} => ws.rows = {}

CallsInv == \A c \in calls : Typed(c)
GatherInv == \A c \in calls : Gathers(c)
SeenInv ==
  /\ {"calls", "edits", "moves", "report", "seeded", "written"} \subseteq DOMAIN seen
  /\ {"rows", "open", "saved"} \subseteq DOMAIN ws
  /\ SeededIsTyped

IInv == CallsInv /\ GatherInv /\ SeenInv

-----------------------------------------------------------------------------
LEMMA CallIs ==
  ASSUME NEW kind, NEW flag
  PROVE  /\ Fields = DOMAIN Call(kind, flag)
         /\ Call(kind, flag).kind = kind /\ Call(kind, flag).flag = flag
         /\ Call(kind, flag).plan = NoOut /\ Call(kind, flag).got = {}
         /\ Call(kind, flag).before = {} /\ "cfg" \in DOMAIN NoOut
  BY DEF Call, Fields, NoOut

(* A request that is no landing joins the others.                          *)
LEMMA Joins ==
  ASSUME IInv, NEW c, Typed(c), c.kind \notin Landing, calls' = With(c), ws' = ws
  PROVE  CallsInv' /\ GatherInv'
<1>1. calls' = calls \cup {c}
  BY DEF With
<1>2. CallsInv'
  BY <1>1 DEF IInv, CallsInv, Typed
<1>3. GatherInv'
  BY <1>1 DEF IInv, GatherInv, Gathers
<1>4. QED  BY <1>2, <1>3

(* A landing that starts takes from all others that they are alone.        *)
LEMMA StartsLanding ==
  ASSUME IInv, NEW c, Typed(c), c.kind \in {"scan", "harvest"}, calls' = With(c), ws' = ws,
         c.flag = "batch" => c.before \cup c.got \subseteq ws.rows
  PROVE  CallsInv' /\ GatherInv'
<1>0. PICK rest, new :
        /\ rest = {[d EXCEPT !.alone = FALSE] : d \in calls}
        /\ new = [c EXCEPT !.alone = \A d \in calls : d.kind \notin Landing]
  OBVIOUS
<1>1. calls' = rest \cup {new}
  BY <1>0 DEF With, Landing
<1>2. \A d \in rest : \E e \in calls :
        Fields \subseteq DOMAIN d /\ d.kind = e.kind /\ d.cfg = e.cfg /\ d.plan = e.plan /\ d.alone = FALSE
  BY <1>0 DEF IInv, CallsInv, Typed, Fields
<1>3. /\ Fields \subseteq DOMAIN new /\ new.kind = c.kind /\ new.cfg = c.cfg /\ new.plan = c.plan
      /\ new.flag = c.flag /\ new.before = c.before /\ new.got = c.got
      /\ new.alone = (\A d \in calls : d.kind \notin Landing)
  BY <1>0 DEF Typed, Fields
<1>4. CallsInv'
  <2>1. \A d \in rest : Typed(d)
    BY <1>2 DEF IInv, CallsInv, Typed
  <2>2. Typed(new)
    BY <1>3 DEF Typed
  <2>3. QED  BY <1>1, <2>1, <2>2 DEF CallsInv, Typed
<1>5. GatherInv'
  <2>1. ASSUME NEW d \in rest PROVE Gathers(d)'
    BY <1>2 DEF Gathers
  <2>2. Gathers(new)'
    <3>1. ASSUME new.alone, NEW e \in calls', e.kind \in Landing PROVE e = new
      BY <1>1, <1>2, <1>3, <3>1
    <3>2. QED  BY <1>3, <3>1 DEF Gathers, Landing
  <2>3. QED  BY <1>1, <2>1, <2>2 DEF GatherInv
<1>6. QED  BY <1>4, <1>5

(* A request that is no landing gives way to one that is none, or ends.    *)
LEMMA GoesOn ==
  ASSUME IInv, NEW c \in calls, c.kind \notin Landing, NEW d, Typed(d), d.kind \notin Landing,
         calls' \subseteq (calls \ {c}) \cup {d}, ws' = ws
  PROVE  CallsInv' /\ GatherInv'
<1>1. CallsInv'
  BY DEF IInv, CallsInv, Typed
<1>2. GatherInv'
  BY DEF IInv, GatherInv, Gathers
<1>3. QED  BY <1>1, <1>2

LEMMA Fewer ==
  ASSUME IInv, calls' \subseteq calls, ws'.rows = ws.rows
  PROVE  CallsInv' /\ GatherInv'
<1>1. CallsInv'
  BY DEF IInv, CallsInv, Typed
<1>2. GatherInv'
  BY DEF IInv, GatherInv, Gathers
<1>3. QED  BY <1>1, <1>2

(* A landing goes on as another stage of itself.                           *)
LEMMA LandsOn ==
  ASSUME IInv, NEW c \in calls, c.kind \in Landing, NEW d, Becomes(c, d),
         Fields \subseteq DOMAIN d, d.kind \in Landing, d.alone = c.alone,
         c.alone => /\ d.flag = "batch" => d.before \cup d.got \subseteq ws'.rows
                    /\ d.kind \in {"list", "open"} => ws'.rows = {}
  PROVE  CallsInv' /\ GatherInv'
<1>1. calls' = (calls \ {c}) \cup {d} /\ d.kind \notin {"plan", "seed"}
  BY DEF Becomes, Landing
<1>2. CallsInv'
  BY <1>1 DEF IInv, CallsInv, Typed
<1>3. ASSUME NEW e \in calls', e.kind \in Landing, e.alone PROVE e = d
  BY <1>1, <1>3 DEF IInv, GatherInv, Gathers
<1>4. d.alone => \A e \in calls' : e.kind \in Landing => e = d
  BY <1>1 DEF IInv, GatherInv, Gathers
<1>5. GatherInv'
  BY <1>3, <1>4 DEF GatherInv, Gathers
<1>6. QED  BY <1>2, <1>5

(* One landing is over: its report is true of the grid.                    *)
LEMMA LandedKeeps ==
  ASSUME IInv, NEW c \in calls, c.kind \in Landing, NEW got, Landed(c, got),
         {"rows", "open", "saved"} \subseteq DOMAIN ws',
         c.alone /\ c.flag = "batch" => c.before \cup c.got \cup got \subseteq ws'.rows
  PROVE  IInv' /\ (seen'.report # seen.report => seen'.report.rows \subseteq ws'.rows)
<1>1. CASE c.todo # {}
  <2>1. PICK s : /\ Becomes(c, [c EXCEPT !.kind = "harvest", !.src = s, !.found = {},
                                        !.todo = @ \ {s}, !.got = @ \cup got])
                 /\ seen' = seen
    BY <1>1 DEF Landed
  <2>2. PICK d : d = [c EXCEPT !.kind = "harvest", !.src = s, !.found = {},
                               !.todo = @ \ {s}, !.got = @ \cup got]
    OBVIOUS
  <2>3. /\ Fields \subseteq DOMAIN d /\ d.kind = "harvest" /\ d.alone = c.alone
        /\ d.flag = c.flag /\ d.before = c.before /\ d.got = c.got \cup got
    BY <2>2 DEF IInv, CallsInv, Typed, Fields
  <2>4. CallsInv' /\ GatherInv'
    BY <2>1, <2>2, <2>3, LandsOn DEF Landing
  <2>5. QED  BY <2>1, <2>4 DEF IInv, SeenInv, SeededIsTyped
<1>2. CASE c.todo = {}
  <2>1. calls' = calls \ {c} /\ seen' = Reported(c, got)
    BY <1>2 DEF Landed, Ends
  <2>2. CallsInv'
    BY <2>1 DEF IInv, CallsInv, Typed
  <2>3. \A d \in calls' : d.kind \in Landing => ~d.alone
    BY <2>1 DEF IInv, GatherInv, Gathers
  <2>4. GatherInv'
    BY <2>3 DEF GatherInv, Gathers
  <2>5. SeenInv'
    BY <2>1 DEF IInv, SeenInv, SeededIsTyped, Reported
  <2>6. CASE c.flag # "batch"
    BY <2>1, <2>2, <2>4, <2>5, <2>6 DEF Reported, IInv
  <2>7. CASE c.flag = "batch"
    <3>1. seen'.report.rows = IF c.alone THEN c.before \cup c.got \cup got ELSE {}
      BY <2>1, <2>7 DEF Reported, IInv, SeenInv
    <3>2. seen'.report.rows \subseteq ws'.rows
      BY <2>7, <3>1
    <3>3. QED  BY <2>2, <2>4, <2>5, <3>2 DEF IInv
  <2>8. QED  BY <2>6, <2>7
<1>3. QED  BY <1>1, <1>2

Reports == seen'.report # seen.report => seen'.report.rows \subseteq ws'.rows

LEMMA LandingKeeps ==
  ASSUME IInv, LandingStep
  PROVE  IInv' /\ Reports
<1>1. CASE RowsCame
  <2>0. PICK c \in calls : \E found \in {{}, {c.src}} :
          /\ c.kind \in {"scan", "harvest"}
          /\ IF ws.rows # {}
             THEN ws' = [ws EXCEPT !.rows = MergedBySource(@, found)] /\ Landed(c, found)
             ELSE Becomes(c, [c EXCEPT !.kind = "list", !.found = found]) /\ UNCHANGED <<ws, local, seen>>
    BY <1>1, Zenon DEF RowsCame
  <2>1. PICK found \in {{}, {c.src}} :
          /\ c.kind \in {"scan", "harvest"}
          /\ IF ws.rows # {}
             THEN ws' = [ws EXCEPT !.rows = MergedBySource(@, found)] /\ Landed(c, found)
             ELSE Becomes(c, [c EXCEPT !.kind = "list", !.found = found]) /\ UNCHANGED <<ws, local, seen>>
    BY <2>0, Zenon
  <2>2. CASE ws.rows # {}
    <3>1. ws'.rows = ws.rows \cup found /\ {"rows", "open", "saved"} \subseteq DOMAIN ws'
      BY <2>1, <2>2 DEF IInv, SeenInv, MergedBySource
    <3>2. c.alone /\ c.flag = "batch" => c.before \cup c.got \cup found \subseteq ws'.rows
      BY <2>1, <3>1 DEF IInv, GatherInv, Gathers, Landing
    <3>3. QED  BY <2>1, <2>2, <3>1, <3>2, LandedKeeps DEF Reports, Landing
  <2>3. CASE ws.rows = {}
    <3>1. PICK d : d = [c EXCEPT !.kind = "list", !.found = found]
      OBVIOUS
    <3>2. /\ Fields \subseteq DOMAIN d /\ d.kind = "list" /\ d.alone = c.alone
          /\ d.flag = c.flag /\ d.before = c.before /\ d.got = c.got
      BY <3>1 DEF IInv, CallsInv, Typed, Fields
    <3>3. Becomes(c, d) /\ ws' = ws /\ seen' = seen
      BY <2>1, <2>3, <3>1
    <3>4. CallsInv' /\ GatherInv'
      BY <2>1, <2>3, <3>2, <3>3, LandsOn DEF IInv, GatherInv, Gathers, Landing
    <3>5. QED  BY <3>3, <3>4 DEF IInv, SeenInv, SeededIsTyped, Reports
  <2>4. QED  BY <2>2, <2>3
<1>2. CASE LandFresh
  <2>1. PICK c \in calls : c.kind = "list" /\ ws' = [ws EXCEPT !.rows = c.found] /\ Landed(c, c.found)
    BY <1>2 DEF LandFresh
  <2>2. ws'.rows = c.found /\ {"rows", "open", "saved"} \subseteq DOMAIN ws'
    BY <2>1 DEF IInv, SeenInv
  <2>3. c.alone /\ c.flag = "batch" => c.before \cup c.got \cup c.found \subseteq ws'.rows
    BY <2>1, <2>2 DEF IInv, GatherInv, Gathers, Landing
  <2>4. QED  BY <2>1, <2>2, <2>3, LandedKeeps DEF Reports, Landing
<1>3. CASE LandFolding
  <2>1. PICK c \in calls : c.kind = "list" /\ Becomes(c, [c EXCEPT !.kind = "open"])
    BY <1>3 DEF LandFolding
  <2>2. PICK d : d = [c EXCEPT !.kind = "open"]
    OBVIOUS
  <2>3. /\ Fields \subseteq DOMAIN d /\ d.kind = "open" /\ d.alone = c.alone
        /\ d.flag = c.flag /\ d.before = c.before /\ d.got = c.got
    BY <2>2 DEF IInv, CallsInv, Typed, Fields
  <2>4. ws' = ws /\ seen' = seen
    BY <1>3 DEF LandFolding
  <2>5. CallsInv' /\ GatherInv'
    BY <2>1, <2>2, <2>3, <2>4, LandsOn DEF IInv, GatherInv, Gathers, Landing
  <2>6. QED  BY <2>4, <2>5 DEF IInv, SeenInv, SeededIsTyped, Reports
<1>4. CASE LandFolded
  <2>1. PICK c \in calls :
          /\ c.kind = "open" /\ Landed(c, c.found)
          /\ ws' = [ws EXCEPT !.rows = MergedBySource(ws.saved, c.found), !.open = TRUE]
    BY <1>4 DEF LandFolded
  <2>2. ws'.rows = ws.saved \cup c.found /\ {"rows", "open", "saved"} \subseteq DOMAIN ws'
    BY <2>1 DEF IInv, SeenInv, MergedBySource
  <2>3. c.alone /\ c.flag = "batch" => c.before \cup c.got \cup c.found \subseteq ws'.rows
    BY <2>1, <2>2 DEF IInv, GatherInv, Gathers, Landing
  <2>4. QED  BY <2>1, <2>2, <2>3, LandedKeeps DEF Reports, Landing
<1>5. CASE LandFailed
  <2>1. PICK c \in calls : c.kind \in Landing \ {"list"} /\ Landed(c, {}) /\ ws' = ws
    BY <1>5 DEF LandFailed
  <2>2. c.alone /\ c.flag = "batch" => c.before \cup c.got \cup {} \subseteq ws'.rows
    BY <2>1 DEF IInv, GatherInv, Gathers
  <2>3. QED  BY <2>1, <2>2, LandedKeeps DEF Reports, IInv, SeenInv
<1>6. QED  BY <1>1, <1>2, <1>3, <1>4, <1>5 DEF LandingStep

-----------------------------------------------------------------------------
LEMMA Starts == Init => IInv
  BY DEF Init, IInv, CallsInv, GatherInv, SeenInv, SeededIsTyped

(* A click that sends a request.                                           *)
LEMMA Clicks ==
  ASSUME IInv, NEW feature, NEW on, NEW c, Typed(c), c.kind \notin Landing,
         Clicked(feature, on, c), ws' = ws
  PROVE  IInv' /\ Reports
<1>1. CallsInv' /\ GatherInv'
  BY Joins DEF Clicked
<1>2. QED  BY <1>1 DEF IInv, SeenInv, SeededIsTyped, Reports, Clicked

(* A click that starts a landing.                                          *)
LEMMA ClicksLanding ==
  ASSUME IInv, NEW feature, NEW on, NEW c, Typed(c), c.kind \in {"scan", "harvest"},
         c.flag = "batch" => c.before \cup c.got \subseteq ws.rows,
         Clicked(feature, on, c), ws' = ws
  PROVE  IInv' /\ Reports
<1>1. CallsInv' /\ GatherInv'
  BY StartsLanding DEF Clicked
<1>2. QED  BY <1>1 DEF IInv, SeenInv, SeededIsTyped, Reports, Clicked

LEMMA FormsKeep ==
  ASSUME IInv, StartEdit \/ TypeForm \/ Reset \/ Save \/ Remove \/ ImportSelected
  PROVE  IInv' /\ Reports
<1>1. CASE StartEdit \/ TypeForm \/ Reset
  <2>1. calls' = calls /\ ws' = ws /\ (seen' = seen \/ seen' = [seen EXCEPT !.edits = @ + 1])
    BY <1>1 DEF StartEdit, TypeForm, Reset, OnForm, Edits
  <2>2. CallsInv' /\ GatherInv'
    BY <2>1, Fewer
  <2>3. QED  BY <2>1, <2>2 DEF IInv, SeenInv, SeededIsTyped, Reports
<1>2. CASE Save
  <2>1. PICK c : /\ c = [Call("save", "none") EXCEPT !.src = local.form.id, !.cfg = local.form.cfg]
                 /\ Clicked("form", "schema", c) /\ ws' = ws
    BY <1>2 DEF Save, Sends
  <2>2. Typed(c) /\ c.kind = "save"
    BY <2>1, CallIs DEF Typed, Fields
  <2>3. QED  BY <2>1, <2>2, Clicks DEF Landing
<1>3. CASE Remove
  <2>1. PICK d \in Conn : Sends("form", "schema", [Call("remove", "none") EXCEPT !.src = d])
    BY <1>3, Zenon DEF Remove
  <2>2. PICK c : /\ c = [Call("remove", "none") EXCEPT !.src = d]
                 /\ Clicked("form", "schema", c) /\ ws' = ws
    BY <2>1 DEF Sends
  <2>3. Typed(c) /\ c.kind = "remove"
    BY <2>2, CallIs DEF Typed, Fields
  <2>4. QED  BY <2>2, <2>3, Clicks DEF Landing
<1>4. CASE ImportSelected
  <2>1. PICK d \in Conn, g \in Config :
          Sends("import", "connect", [Call("import", "none") EXCEPT !.src = d, !.cfg = g])
    BY <1>4, Zenon DEF ImportSelected
  <2>2. PICK c : /\ c = [Call("import", "none") EXCEPT !.src = d, !.cfg = g]
                 /\ Clicked("import", "connect", c) /\ ws' = ws
    BY <2>1 DEF Sends
  <2>3. Typed(c) /\ c.kind = "import"
    BY <2>2, CallIs DEF Typed, Fields
  <2>4. QED  BY <2>2, <2>3, Clicks DEF Landing
<1>5. QED  BY <1>1, <1>2, <1>3, <1>4

(* The server reads, writes and answers, and the grid is left alone.       *)
LEMMA ConnectionsKeep ==
  ASSUME IInv, ConnectionsRead \/ ConnectionsWritten \/ ConnectionsAnswered \/ ConnectionsFailed
  PROVE  IInv' /\ Reports
<1>0. ws' = ws /\ seen' = seen
  BY DEF ConnectionsRead, ConnectionsWritten, ConnectionsAnswered, ConnectionsFailed
<1>1. CallsInv' /\ GatherInv'
  <2>1. CASE ConnectionsRead
    <3>1. PICK c \in calls : c.kind \in Saves /\ Becomes(c, [c EXCEPT !.kind = "write", !.doc = stored])
      BY <2>1 DEF ConnectionsRead
    <3>2. PICK d : d = [c EXCEPT !.kind = "write", !.doc = stored]
      OBVIOUS
    <3>3. Typed(d) /\ d.kind = "write"
      BY <3>2 DEF IInv, CallsInv, Typed, Fields
    <3>4. QED  BY <1>0, <3>1, <3>2, <3>3, GoesOn DEF Becomes, Saves, Landing
  <2>2. CASE ConnectionsWritten
    <3>1. PICK c \in calls : c.kind = "write" /\ \E doc \in Written(c) :
                               Becomes(c, [c EXCEPT !.kind = "saved", !.doc = doc])
      BY <2>2 DEF ConnectionsWritten
    <3>2. PICK doc \in Written(c) : Becomes(c, [c EXCEPT !.kind = "saved", !.doc = doc])
      BY <3>1
    <3>3. PICK d : d = [c EXCEPT !.kind = "saved", !.doc = doc]
      OBVIOUS
    <3>4. Typed(d) /\ d.kind = "saved"
      BY <3>3 DEF IInv, CallsInv, Typed, Fields
    <3>5. QED  BY <1>0, <3>1, <3>2, <3>3, <3>4, GoesOn DEF Becomes, Landing
  <2>3. CASE ConnectionsAnswered \/ ConnectionsFailed
    <3>1. calls' \subseteq calls
      BY <2>3 DEF ConnectionsAnswered, ConnectionsFailed, Ends
    <3>2. QED  BY <1>0, <3>1, Fewer
  <2>4. QED  BY <2>1, <2>2, <2>3
<1>2. QED  BY <1>0, <1>1 DEF IInv, SeenInv, SeededIsTyped, Reports

LEMMA HarvestsStart ==
  ASSUME IInv, Scan \/ HarvestOne \/ HarvestSelected
  PROVE  IInv' /\ Reports
<1>1. CASE Scan
  <2>1. PICK d \in Conn :
          Clicked("scan", "schema", [Call("scan", d) EXCEPT !.src = d, !.cfg = local.list[d]])
    BY <1>1, Zenon DEF Scan, OnCard
  <2>2. PICK c : /\ c = [Call("scan", d) EXCEPT !.src = d, !.cfg = local.list[d]]
                 /\ Clicked("scan", "schema", c)
    BY <2>1
  <2>3. Typed(c) /\ c.kind = "scan" /\ c.before = {} /\ c.got = {}
    BY <2>2, CallIs DEF Typed, Fields
  <2>4. ws' = ws
    BY <1>1 DEF Scan, OnCard
  <2>5. QED  BY <2>2, <2>3, <2>4, ClicksLanding
<1>2. CASE HarvestOne
  <2>1. PICK d \in Conn : Sends("harvest", "connect", [Call("harvest", "one") EXCEPT !.src = d])
    BY <1>2, Zenon DEF HarvestOne
  <2>2. PICK c : /\ c = [Call("harvest", "one") EXCEPT !.src = d]
                 /\ Clicked("harvest", "connect", c) /\ ws' = ws
    BY <2>1 DEF Sends
  <2>3. Typed(c) /\ c.kind = "harvest" /\ c.flag = "one"
    BY <2>2, CallIs DEF Typed, Fields
  <2>4. QED  BY <2>2, <2>3, ClicksLanding
<1>3. CASE HarvestSelected
  <2>1. PICK sel \in SUBSET Conn \ {{}} : \E d \in sel :
          Clicked("harvest", "connect", [Call("harvest", "batch") EXCEPT !.src = d, !.todo = sel \ {d},
                                                                         !.before = ws.rows])
    BY <1>3, Zenon DEF HarvestSelected
  <2>2. PICK d \in sel :
          Clicked("harvest", "connect", [Call("harvest", "batch") EXCEPT !.src = d, !.todo = sel \ {d},
                                                                         !.before = ws.rows])
    BY <2>1, Zenon
  <2>3. PICK c : /\ c = [Call("harvest", "batch") EXCEPT !.src = d, !.todo = sel \ {d}, !.before = ws.rows]
                 /\ Clicked("harvest", "connect", c)
    BY <2>2
  <2>4. Typed(c) /\ c.kind = "harvest" /\ c.before = ws.rows /\ c.got = {}
    BY <2>3, CallIs DEF Typed, Fields
  <2>5. ws' = ws
    BY <1>3 DEF HarvestSelected
  <2>6. QED  BY <2>3, <2>4, <2>5, ClicksLanding
<1>4. QED  BY <1>1, <1>2, <1>3

(* From the dry run to the write the configuration is the one typed.       *)
LEMMA SeedingKeeps ==
  ASSUME IInv, Seed \/ SeedTyped \/ SeedGivenUp \/ SeedWritten
  PROVE  IInv' /\ Reports
<1>1. CASE Seed
  <2>1. PICK d \in Conn :
          Clicked("seed", "schema", [Call("plan", d) EXCEPT !.src = d, !.cfg = local.list[d]])
    BY <1>1, Zenon DEF Seed, OnCard
  <2>2. PICK c : /\ c = [Call("plan", d) EXCEPT !.src = d, !.cfg = local.list[d]]
                 /\ Clicked("seed", "schema", c)
    BY <2>1
  <2>3. Typed(c) /\ c.kind = "plan"
    BY <2>2, CallIs DEF Typed, Fields
  <2>4. ws' = ws
    BY <1>1 DEF Seed, OnCard
  <2>5. QED  BY <2>2, <2>3, <2>4, Clicks DEF Landing
<1>2. CASE SeedTyped
  <2>1. PICK c \in calls : c.kind = "plan" /\ Becomes(c, [c EXCEPT !.kind = "seed", !.cfg = SeedTarget(c),
                                                                  !.plan.cfg = c.cfg])
    BY <1>2 DEF SeedTyped
  <2>2. PICK d : d = [c EXCEPT !.kind = "seed", !.cfg = SeedTarget(c), !.plan.cfg = c.cfg]
    OBVIOUS
  <2>3. Typed(d) /\ d.kind = "seed"
    BY <2>1, <2>2 DEF IInv, CallsInv, Typed, Fields, SeedTarget
  <2>4. ws' = ws /\ seen' = seen
    BY <1>2 DEF SeedTyped
  <2>5. CallsInv' /\ GatherInv'
    BY <2>1, <2>2, <2>3, <2>4, GoesOn DEF Becomes, Landing
  <2>6. QED  BY <2>4, <2>5 DEF IInv, SeenInv, SeededIsTyped, Reports
<1>3. CASE SeedGivenUp
  <2>1. ws' = ws /\ seen' = seen /\ calls' \subseteq calls
    BY <1>3 DEF SeedGivenUp, Ends
  <2>2. QED  BY <2>1, Fewer DEF IInv, SeenInv, SeededIsTyped, Reports
<1>4. CASE SeedWritten
  <2>1. PICK c \in calls :
          /\ c.kind = "seed" /\ c.cfg \in Marked /\ Ends(c)
          /\ seen' = [seen EXCEPT !.seeded = @ \cup {[cfg |-> c.cfg, typed |-> c.plan.cfg]}]
    BY <1>4 DEF SeedWritten
  <2>2. ws' = ws
    BY <1>4 DEF SeedWritten
  <2>3. c.cfg = c.plan.cfg
    BY <2>1 DEF IInv, CallsInv, Typed
  <2>4. CallsInv' /\ GatherInv'
    BY <2>1, <2>2, Fewer DEF Ends
  <2>5. QED  BY <2>1, <2>2, <2>3, <2>4 DEF IInv, SeenInv, SeededIsTyped, Reports
<1>5. QED  BY <1>1, <1>2, <1>3, <1>4

(* Opening a glossary: no landing that is out is alone any more.           *)
LEMMA OpeningKeeps ==
  ASSUME IInv, OpenGlossary \/ Autosave \/ Navigate
  PROVE  IInv' /\ Reports
<1>1. CASE OpenGlossary
  <2>1. /\ calls' = {[c EXCEPT !.alone = FALSE] : c \in calls}
        /\ ws' = [ws EXCEPT !.rows = ws.saved, !.open = TRUE]
        /\ seen' = [seen EXCEPT !.moves = @ + 1]
    BY <1>1 DEF OpenGlossary, Moves
  <2>2. \A d \in calls' : \E e \in calls :
          Fields \subseteq DOMAIN d /\ d.kind = e.kind /\ d.cfg = e.cfg /\ d.plan = e.plan /\ d.alone = FALSE
    BY <2>1 DEF IInv, CallsInv, Typed, Fields
  <2>3. CallsInv' /\ GatherInv'
    BY <2>2 DEF IInv, CallsInv, GatherInv, Typed, Gathers
  <2>4. QED  BY <2>1, <2>3 DEF IInv, SeenInv, SeededIsTyped, Reports
<1>2. CASE Autosave
  <2>1. calls' = calls /\ seen' = seen /\ ws' = [ws EXCEPT !.saved = ws.rows]
    BY <1>2 DEF Autosave
  <2>2. ws'.rows = ws.rows /\ {"rows", "open", "saved"} \subseteq DOMAIN ws'
    BY <2>1 DEF IInv, SeenInv
  <2>3. QED  BY <2>1, <2>2, Fewer DEF IInv, SeenInv, SeededIsTyped, Reports
<1>3. CASE Navigate
  <2>1. calls' = calls /\ ws' = ws /\ seen' = [seen EXCEPT !.moves = @ + 1]
    BY <1>3 DEF Navigate, Moves
  <2>2. QED  BY <2>1, Fewer DEF IInv, SeenInv, SeededIsTyped, Reports
<1>4. QED  BY <1>1, <1>2, <1>3

LEMMA SchemaKeeps ==
  ASSUME IInv, Select \/ PasteDdl \/ LoadConn \/ LoadSql \/ TakeDdlFile \/ Loaded
                 \/ PlanKeys \/ ApplyKeys \/ KeysAnswered \/ KeysFailed
  PROVE  IInv' /\ Reports
<1>1. CASE Select \/ PasteDdl
  <2>1. calls' = calls /\ ws' = ws /\ seen' = [seen EXCEPT !.edits = @ + 1]
    BY <1>1 DEF Select, PasteDdl, SchemaEdit, Edits
  <2>2. QED  BY <2>1, Fewer DEF IInv, SeenInv, SeededIsTyped, Reports
<1>2. ASSUME NEW cfg, NEW script, NEW ddl, Load(cfg, script, ddl) PROVE IInv' /\ Reports
  <2>1. PICK c : /\ c = [Call("load", "load") EXCEPT !.cfg = cfg, !.script = script]
                 /\ Clicked("keys", "schema", c) /\ ws' = ws
    BY <1>2 DEF Load
  <2>2. Typed(c) /\ c.kind = "load"
    BY <2>1, CallIs DEF Typed, Fields
  <2>3. QED  BY <2>1, <2>2, Clicks DEF Landing
<1>3. CASE LoadConn \/ LoadSql \/ TakeDdlFile
  BY <1>2, <1>3 DEF LoadConn, LoadSql, TakeDdlFile
<1>4. CASE Loaded \/ KeysFailed
  <2>1. calls' \subseteq calls /\ ws' = ws /\ seen' = seen
    BY <1>4 DEF Loaded, KeysFailed, Ends
  <2>2. QED  BY <2>1, Fewer DEF IInv, SeenInv, SeededIsTyped, Reports
<1>5. ASSUME NEW dry, Keys(dry) PROVE IInv' /\ Reports
  <2>1. CASE Selected = Gone
    <3>1. calls' = calls /\ ws' = ws /\ seen' = seen
      BY <1>5, <2>1 DEF Keys
    <3>2. QED  BY <3>1, Fewer DEF IInv, SeenInv, SeededIsTyped, Reports
  <2>2. CASE Selected # Gone
    <3>1. PICK c : /\ c = [Call("keys", "none") EXCEPT !.cfg = Selected, !.dry = dry,
                                                     !.script = schema.ddl, !.plan = schema.out]
                   /\ Clicked("keys", "schema", c) /\ ws' = ws
      BY <1>5, <2>2 DEF Keys
    <3>2. Typed(c) /\ c.kind = "keys"
      BY <3>1, CallIs DEF Typed, Fields
    <3>3. QED  BY <3>1, <3>2, Clicks DEF Landing
  <2>3. QED  BY <2>1, <2>2
<1>6. CASE PlanKeys \/ ApplyKeys
  BY <1>5, <1>6 DEF PlanKeys, ApplyKeys
<1>7. CASE KeysAnswered
  <2>1. PICK c \in calls :
          /\ Ends(c) /\ ws' = ws
          /\ seen' = IF c.dry THEN seen
                     ELSE [seen EXCEPT !.written = @ \cup {[cfg |-> c.cfg, script |-> c.script, plan |-> c.plan]}]
    BY <1>7 DEF KeysAnswered
  <2>2. CallsInv' /\ GatherInv'
    BY <2>1, Fewer DEF Ends
  <2>3. QED  BY <2>1, <2>2 DEF IInv, SeenInv, SeededIsTyped, Reports
<1>8. QED  BY <1>1, <1>3, <1>4, <1>6, <1>7

LEMMA Steps ==
  ASSUME IInv, [Next]_vars
  PROVE  IInv' /\ Reports
<1>1. CASE Next
  BY <1>1, FormsKeep, ConnectionsKeep, HarvestsStart, LandingKeeps, SeedingKeeps, OpeningKeeps, SchemaKeeps
     DEF Next
<1>2. CASE UNCHANGED vars
  BY <1>2 DEF vars, IInv, CallsInv, GatherInv, SeenInv, SeededIsTyped, Typed, Gathers, Reports
<1>3. QED  BY <1>1, <1>2

LEMMA Invariance == Spec => []IInv
<1>1. Init => IInv
  BY Starts
<1>2. IInv /\ [Next]_vars => IInv'
  BY Steps
<1>3. QED  BY <1>1, <1>2, PTL DEF Spec

(* Whatever is saved or deleted between its dry run and its write, Seed    *)
(* writes into the configuration whose database was typed, and only where  *)
(* sample data is allowed (seed of SourceConnections.jsx, the gate of      *)
(* connections_sample_seed).                                               *)
THEOREM SeedsWhereTyped == Spec => []SeededIsTyped
<1>1. IInv => SeededIsTyped
  BY DEF IInv, SeenInv
<1>2. QED  BY <1>1, Invariance, PTL

(* A harvest of several sources ends with the rows of all of them in the   *)
(* grid, if nothing else lands while it runs (harvestSelected of           *)
(* ConnectPage.jsx, landScanRows of state.js).                             *)
THEOREM HarvestsGather == Spec => HarvestGathers
<1>1. IInv /\ [Next]_vars => [seen'.report # seen.report => seen'.report.rows \subseteq ws'.rows]_vars
  BY Steps DEF Reports
<1>2. QED  BY <1>1, Invariance, PTL DEF Spec, HarvestGathers
=============================================================================
