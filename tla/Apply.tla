-------------------------------- MODULE Apply ---------------------------------
(***************************************************************************)
(* The Apply page of a browser window (frontend/src/pages/ApplyPage.jsx):  *)
(* pulling the links between terms and columns, resolving and matching     *)
(* their ids, writing them, generating and archiving the import file,      *)
(* planning and writing label stamps, and watching Data Discovery, while   *)
(* answers arrive in any order, the grid changes and the page is left and  *)
(* shown again.                                                            *)
(*                                                                         *)
(* What the page keeps for its next showing is in the session cache        *)
(* (usePersistentState).  A handler that outlives its page still runs, but *)
(* of its setters at most the first one of each card reaches the cache:    *)
(* React computes it eagerly and drops the ones queued behind it.          *)
(***************************************************************************)
EXTENDS Naturals, FiniteSets

CONSTANTS
  Name,       \* the names of the kept terms
  Held,       \* the one the selective mapping policy holds back
  MaxEdits,   \* bound: changes of the grid
  MaxCalls,   \* bound: requests
  MaxLeaves,  \* bound: times the page is left
  Features    \* the cards in use in this instance

ASSUME ApplyAssumption ==
  Held \in Name /\ MaxEdits \in Nat /\ MaxCalls \in Nat /\ MaxLeaves \in Nat

VARIABLES
  grid,    \* ws.revision, and whether the held term has Map = Y
  pdc,     \* the terms imported into PDC by hand
  view,    \* the kept state as the shown page has it
  cache,   \* and as the session cache has it
  local,   \* busy flags and genRev, which a showing starts without
  page,    \* which showing of the page this is, and whether it is shown
  calls,   \* requests under way and loops that run
  jobs,    \* the stamp jobs of the server
  seen     \* bounds; history: plans landed, writes, an export that came late

vars == <<grid, pdc, view, cache, local, page, calls, jobs, seen>>

NoDe    == [none |-> TRUE]
NoGrid  == [rev |-> 0, map |-> FALSE]
NoSrc   == [grid |-> NoGrid, pol |-> "none"]
Unknown == MaxEdits + 2

Alive(c)  == page.on /\ c.by = page.n
Over(r, patch) == [f \in DOMAIN r |-> IF f \in DOMAIN patch THEN patch[f] ELSE r[f]]
Only(patch, F) == [f \in DOMAIN patch \cap F |-> patch[f]]
Keep      == UNCHANGED <<view, cache>>

(* A setter of the shown page writes the state and the cache.              *)
Show(patch) == view' = Over(view, patch) /\ cache' = Over(cache, patch)

(* What a handler sets after its answer: all of it while its page is       *)
(* shown, else at most what comes first on its card.                       *)
Land(c, patch, first) ==
  IF Alive(c) THEN Show(patch)
  ELSE /\ UNCHANGED view
       /\ \E F \in SUBSET first : cache' = Over(cache, Only(patch, F))

Call(kind) == [n |-> seen.calls + 1, kind |-> kind, by |-> page.n, src |-> NoSrc,
               de |-> NoDe, names |-> {}, dry |-> TRUE]

Clicked(card, c) ==
  /\ page.on /\ card \in Features /\ seen.calls < MaxCalls
  /\ calls' = calls \cup {c}

Spend         == seen' = [seen EXCEPT !.calls = @ + 1]
Busy(flag)    == local' = [local EXCEPT !.busy = @ \cup {flag}]
Rested(c, flag) == local' = IF Alive(c) THEN [local EXCEPT !.busy = @ \ {flag}] ELSE local
Free(flag)    == flag \notin local.busy

Answered(kind, c) == c \in calls /\ c.kind = kind /\ calls' = calls \ {c}
Others(c) == UNCHANGED <<grid, pdc, page, jobs>>

-----------------------------------------------------------------------------
(* 1. Links: pulled for the rows and the policy the handler has at hand.   *)

NamesOf(src) == IF src.grid.map \/ src.pol = "all" THEN Name ELSE Name \ {Held}
Pulled(src)  == [csv |-> src, json |-> src, ids |-> [n \in NamesOf(src) |-> "none"]]

Pull(pol) ==
  /\ Clicked("links", [Call("pull") EXCEPT !.src = [grid |-> grid, pol |-> pol]])
  /\ Busy("pull") /\ Spend /\ UNCHANGED <<pdc, page, jobs>>

PullClick == Free("pull") /\ Pull(view.pol) /\ UNCHANGED <<grid, view, cache>>

SetPolicy == \E p \in {"default", "all"} \ {view.pol} :
  Pull(p) /\ Show([pol |-> p]) /\ UNCHANGED grid

(* The rows are patched, the handler pulls with those it was rendered for. *)
MapY ==
  /\ view.de # NoDe /\ Held \notin NamesOf(view.de.csv) /\ grid.rev < MaxEdits
  /\ grid' = [rev |-> grid.rev + 1, map |-> TRUE]
  /\ Pull(view.pol) /\ Keep

PullAnswered ==
  \E c \in calls :
    /\ Answered("pull", c) /\ Rested(c, "pull") /\ Others(c) /\ UNCHANGED seen
    /\ Land(c, [de |-> Pulled(c.src)], {"de"})

Failed(kind, flag) ==
  \E c \in calls : Answered(kind, c) /\ Rested(c, flag) /\ Others(c) /\ Keep

PullFailed == Failed("pull", "pull") /\ UNCHANGED seen

-----------------------------------------------------------------------------
(* 2. Ids: stamped into the links the job was sent.                        *)

Resolve ==
  /\ Free("resolve") /\ view.de # NoDe
  /\ Clicked("resolve", [Call("resolve") EXCEPT !.de = view.de])
  /\ Show([res |-> FALSE, fuzzy |-> {}])
  /\ Busy("resolve") /\ Spend /\ UNCHANGED <<grid, pdc, page, jobs>>

StampedOverCurrent(c) ==  \* mutant: the ids land in the links shown now
  [view.de EXCEPT !.json = c.de.json,
                  !.ids = [n \in DOMAIN c.de.ids |-> IF n \in pdc THEN "exact" ELSE c.de.ids[n]]]

Stamped(c) ==
  [c.de EXCEPT !.ids = [n \in DOMAIN @ |-> IF n \in pdc THEN "exact" ELSE @[n]]]

ResolveAnswered ==
  \E c \in calls :
    /\ Answered("resolve", c) /\ Rested(c, "resolve") /\ Others(c) /\ UNCHANGED seen
    /\ Land(c, [res |-> TRUE, de |-> Stamped(c), out |-> DOMAIN c.de.ids \ pdc], {"res", "de"})

ResolveFailed == Failed("resolve", "resolve") /\ UNCHANGED seen

(* Names PDC does not know are matched against the terms it has.           *)
AiMatch ==
  /\ view.res /\ view.out # {} /\ Free("match")
  /\ Clicked("resolve", [Call("match") EXCEPT !.names = view.out])
  /\ Keep /\ Busy("match") /\ Spend /\ UNCHANGED <<grid, pdc, page, jobs>>

MatchAnswered ==
  \E c \in calls : \E found \in SUBSET c.names :
    /\ Answered("match", c) /\ Rested(c, "match") /\ Others(c) /\ UNCHANGED seen
    /\ Land(c, [fuzzy |-> found], {"fuzzy"})

MatchFailed == Failed("match", "match") /\ UNCHANGED seen

Bind ==
  /\ page.on /\ view.res /\ view.de # NoDe
  /\ \E names \in SUBSET view.fuzzy \ {{}} :
       Show([de    |-> [view.de EXCEPT !.ids = [n \in DOMAIN @ |-> IF n \in names THEN "fuzzy" ELSE @[n]]],
             fuzzy |-> view.fuzzy \ names, out |-> view.out \ names])
  /\ UNCHANGED <<grid, pdc, local, page, calls, jobs, seen>>

-----------------------------------------------------------------------------
(* The import file, and its copy in the lab store.                         *)

Generate ==
  /\ Free("generate")
  /\ Clicked("generate", [Call("generate") EXCEPT !.src.grid = grid])
  /\ Keep /\ Busy("generate") /\ Spend /\ UNCHANGED <<grid, pdc, page, jobs>>

(* genRev is the revision the grid has when the answer arrives.            *)
Generated ==
  \E c \in calls : \E archived \in BOOLEAN :
    /\ c.kind = "generate" /\ Others(c)
    /\ seen' = IF Alive(c) THEN [seen EXCEPT !.late = c.src.grid # grid] ELSE seen
    /\ calls' = (calls \ {c}) \cup (IF archived THEN {[c EXCEPT !.kind = "archive"]} ELSE {})
    /\ Land(c, IF archived THEN [gen |-> c.src.grid] ELSE [gen |-> c.src.grid, arch |-> NoGrid], {"gen"})
    /\ local' = IF Alive(c) THEN [local EXCEPT !.rev = grid.rev,
                                               !.busy = IF archived THEN @ ELSE @ \ {"generate"}]
                ELSE local

NotGenerated == Failed("generate", "generate") /\ UNCHANGED seen

Archived ==
  \E c \in calls :
    /\ Answered("archive", c) /\ Rested(c, "generate") /\ Others(c) /\ UNCHANGED seen
    /\ \E at \in {c.src.grid, NoGrid} : Land(c, [arch |-> at], {})

GenStaleKnown ==  \* mutant: without a revision to compare with nothing is said
  view.gen # NoGrid /\ local.rev # Unknown /\ grid.rev > local.rev

(* A showing that has not generated does not know the export's revision.   *)
GenStale == view.gen # NoGrid /\ grid.rev > (IF local.rev = Unknown THEN 0 ELSE local.rev)

-----------------------------------------------------------------------------
(* Data labels: a job plans, a job stamps; whoever shows the page polls.   *)

PlanReady == view.plan = "planned"

RunStampAgain(dry) ==  \* mutant: the plan that was written stays ready
  /\ Clicked("labels", [Call("stamp") EXCEPT !.dry = dry]) /\ Keep
  /\ seen' = [seen EXCEPT !.calls = @ + 1, !.writes = @ + IF dry THEN 0 ELSE 1]

RunStamp(dry) ==
  /\ Clicked("labels", [Call("stamp") EXCEPT !.dry = dry])
  /\ IF dry THEN Keep ELSE Show([plan |-> "none"])
  /\ seen' = [seen EXCEPT !.calls = @ + 1, !.writes = @ + IF dry THEN 0 ELSE 1]

PreviewStamp == Free("stamp") /\ RunStamp(TRUE) /\ UNCHANGED <<grid, pdc, local, page, jobs>>
WriteStamp == Free("stamp") /\ PlanReady /\ RunStamp(FALSE) /\ UNCHANGED <<grid, pdc, local, page, jobs>>

(* The id of the newest job is the one that is polled.                     *)
StampStarted ==
  \E c \in calls :
    /\ Answered("stamp", c) /\ UNCHANGED <<grid, pdc, page, seen>>
    /\ jobs' = jobs \cup {[id |-> c.n, dry |-> c.dry, status |-> "running"]}
    /\ Land(c, [job |-> c.n], {"job"})
    /\ local' = IF Alive(c) THEN [local EXCEPT !.busy = @ \cup {"stamp"}] ELSE local

StampNotStarted ==
  \E c \in calls : Answered("stamp", c) /\ Keep /\ UNCHANGED <<grid, pdc, local, page, jobs, seen>>

JobEnded ==
  \E j \in jobs : \E s \in {"done", "error"} :
    /\ j.status = "running" /\ jobs' = (jobs \ {j}) \cup {[j EXCEPT !.status = s]}
    /\ UNCHANGED <<grid, pdc, view, cache, local, page, calls, seen>>

Unwatched == local' = [local EXCEPT !.busy = @ \ {"stamp"}]

JobPolled ==
  \E j \in jobs :
    /\ page.on /\ j.id = view.job /\ j.status # "running" /\ Unwatched
    /\ IF j.status = "error" THEN Show([job |-> 0]) /\ UNCHANGED seen
       ELSE /\ Show([job |-> 0, plan |-> IF j.dry THEN "planned" ELSE "written"])
            /\ seen' = [seen EXCEPT !.plans = @ + IF j.dry THEN 1 ELSE 0]
    /\ UNCHANGED <<grid, pdc, page, calls, jobs>>

JobLostBusy ==  \* mutant: the page stays busy with the lost job
  /\ page.on /\ view.job # 0 /\ Show([job |-> 0])
  /\ UNCHANGED <<grid, pdc, local, page, calls, jobs, seen>>

JobLost ==
  /\ page.on /\ view.job # 0 /\ Show([job |-> 0]) /\ Unwatched
  /\ UNCHANGED <<grid, pdc, page, calls, jobs, seen>>

-----------------------------------------------------------------------------
(* 3. Data Discovery, watched by a loop that is told to stop on leaving.   *)

Trigger ==
  /\ Free("trigger") /\ view.de # NoDe
  /\ Clicked("watch", Call("trigger"))
  /\ Keep /\ Busy("trigger") /\ Spend /\ UNCHANGED <<grid, pdc, page, jobs>>

Triggered ==
  \E c \in calls :
    /\ c.kind = "trigger" /\ calls' = (calls \ {c}) \cup {[c EXCEPT !.kind = "watch"]}
    /\ Rested(c, "trigger") /\ Others(c) /\ UNCHANGED seen
    /\ Land(c, [watch |-> TRUE], {})

NotTriggered == Failed("trigger", "trigger") /\ UNCHANGED seen

(* Done, out of budget, a failed poll, or told to stop.                    *)
WatchEnded ==
  \E c \in calls :
    /\ Answered("watch", c) /\ Others(c) /\ UNCHANGED <<local, seen>>
    /\ Land(c, [watch |-> FALSE], {"watch"})

-----------------------------------------------------------------------------
(* Cards that ask once and show the answer.  Bound: when all else is done. *)

Card(kind) ==
  /\ page.on /\ "cards" \in Features /\ calls = {} /\ seen.calls = MaxCalls /\ Free(kind)
  /\ calls' = {Call(kind)} /\ Busy(kind) /\ UNCHANGED <<grid, pdc, view, cache, page, jobs, seen>>

CardAnswered(kind) == Failed(kind, kind) /\ UNCHANGED seen

CheckTree    == Card("tree")
SendToLab    == Card("lab")
DownloadDq   == Card("dq")
GetToken     == Card("token")
CreateLabels == Card("labels")
Compare      == Card("compare")
ApplyLinks   == view.de # NoDe /\ Card("apply")

CardAnswers == \E kind \in {"tree", "lab", "dq", "token", "labels", "compare", "apply"} : CardAnswered(kind)

-----------------------------------------------------------------------------
(* The grid changes under the page; the page is left and shown again.      *)

GridChanges ==
  /\ grid.rev < MaxEdits /\ grid' = [grid EXCEPT !.rev = @ + 1]
  /\ UNCHANGED <<pdc, view, cache, local, page, calls, jobs, seen>>

Import ==
  /\ "resolve" \in Features /\ \E n \in Name \ pdc : pdc' = pdc \cup {n}
  /\ UNCHANGED <<grid, view, cache, local, page, calls, jobs, seen>>

Rest == [busy |-> {}, rev |-> Unknown]

Leave ==
  /\ page.on /\ page.n <= MaxLeaves /\ page' = [page EXCEPT !.on = FALSE]
  /\ local' = Rest
  /\ UNCHANGED <<grid, pdc, view, cache, calls, jobs, seen>>

Return ==
  /\ ~page.on /\ page' = [n |-> page.n + 1, on |-> TRUE]
  /\ view' = cache
  /\ local' = [Rest EXCEPT !.busy = IF cache.job = 0 THEN {} ELSE {"stamp"}]
  /\ UNCHANGED <<grid, pdc, cache, calls, jobs, seen>>

-----------------------------------------------------------------------------
Kept == [pol |-> "default", de |-> NoDe, res |-> FALSE, out |-> {}, fuzzy |-> {},
         gen |-> NoGrid, arch |-> NoGrid, plan |-> "none", job |-> 0, watch |-> FALSE]

Init ==
  /\ grid = [rev |-> 1, map |-> FALSE] /\ pdc = {}
  /\ view = Kept /\ cache = Kept /\ local = Rest
  /\ page = [n |-> 1, on |-> TRUE] /\ calls = {} /\ jobs = {}
  /\ seen = [calls |-> 0, plans |-> 0, writes |-> 0, late |-> FALSE]

Clicks  == \/ PullClick \/ SetPolicy \/ MapY \/ Resolve \/ AiMatch \/ Bind
           \/ Generate \/ PreviewStamp \/ WriteStamp \/ Trigger
           \/ CheckTree \/ SendToLab \/ DownloadDq \/ GetToken \/ CreateLabels \/ Compare
           \/ ApplyLinks
Answers == \/ PullAnswered \/ PullFailed \/ ResolveAnswered \/ ResolveFailed
           \/ MatchAnswered \/ MatchFailed \/ Generated \/ NotGenerated
           \/ Archived \/ StampStarted \/ StampNotStarted \/ Triggered \/ NotTriggered
           \/ WatchEnded \/ CardAnswers
Next == Clicks \/ Answers \/ JobEnded \/ JobPolled \/ JobLost \/ GridChanges \/ Import \/ Leave \/ Return

(* Every request is answered or fails, jobs end, a shown page polls.       *)
Spec == /\ Init /\ [][Next]_vars
        /\ WF_vars(Answers) /\ WF_vars(JobEnded) /\ WF_vars(JobPolled \/ JobLost)

-----------------------------------------------------------------------------
(* The CSV and the JSON a steward downloads or applies come from one pull, *)
(* and carry ids for exactly its links, whatever was pulled while a        *)
(* resolve or a bind was under way and whichever card was left.            *)
OneOriginOf(de) == de # NoDe => /\ de.csv = de.json
                                /\ DOMAIN de.ids = NamesOf(de.csv)
OneOrigin == OneOriginOf(view.de) /\ OneOriginOf(cache.de)

(* "dry-run plan first, then the real write": every write of label stamps  *)
(* used up a plan that had landed, however often buttons are pressed and   *)
(* the page is left.                                                       *)
OneWritePerPlan == seen.writes <= seen.plans

(* When the steward pauses, every card of a shown page comes to rest.      *)
Settles == local.busy # {} ~> local.busy = {}

(* "any later grid mutation makes the card say so" (GenerateCard): an      *)
(* export of an older grid is called stale, in this showing and the next   *)
(* ones, unless the grid had changed before the export arrived.            *)
StaleIsSaid == page.on /\ view.gen # NoGrid /\ view.gen # grid => GenStale \/ seen.late
=============================================================================
