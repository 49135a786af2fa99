----------------------------- MODULE Workspace ------------------------------
(***************************************************************************)
(* The review workspace of a browser window (frontend/src/state.js) and    *)
(* the store of saved glossaries behind it (glossaries.json and the        *)
(* /api/glossaries endpoints of glossary_generator/api.py).                *)
(*                                                                         *)
(* The window sends calls and goes on; the server runs each call in a      *)
(* thread that reads the whole store, changes its copy and writes it back, *)
(* with nothing held in between.  Calls overtake one another, fail, and    *)
(* are answered to a window that may show something else by then.          *)
(*                                                                         *)
(* The content of a grid is the number of the edit that made it.           *)
(***************************************************************************)
EXTENDS Naturals, Sequences, FiniteSets

CONSTANTS
  BaseName,      \* the names a steward gives, numbers
  KeptVersions,  \* versions kept per name: 10 in the code
  MaxIds,        \* bound: ids handed out
  MaxEdits,      \* bound: edits
  MaxCalls,      \* bound: calls under way at once
  MaxFailures,   \* bound: calls that fail on the way
  Features       \* the optional operations enabled in this instance

Id   == 1 .. MaxIds
Slot == 1 .. MaxCalls
None == 0

ASSUME BoundsAssumption ==
  /\ BaseName \subseteq Nat \ {0}
  /\ KeptVersions \in Nat \ {0}
  /\ MaxIds \in Nat \ {0} /\ MaxEdits \in Nat \ {0}
  /\ MaxCalls \in Nat \ {0} /\ MaxFailures \in Nat
  /\ Features \subseteq {"delete", "wipe", "now", "confirm"}

VARIABLES
  store,     \* GLOSS_FILE: every id with its entry
  issued,    \* how many ids uuid4 has given
  refusing,  \* _FACTORY_RESET_AT lies less than ten seconds back
  ws,        \* the window's workspace
  calls,     \* the calls under way
  edits,     \* how many edits were made
  failures,  \* how many calls failed on the way
  seen       \* history: what crossed, what was loaded, what was removed

vars == <<store, issued, refusing, ws, calls, edits, failures, seen>>

(* A name is a base and the suffixes collisions gave it: <<1>> is "A",     *)
(* <<1, 2>> is "A (2)"; << >> is the empty name.                           *)
NoEntry == [name |-> << >>, rows |-> 0, archived |-> FALSE]

Scratch == [id |-> None, name |-> << >>, rows |-> 0, dirty |-> FALSE,
            saving |-> FALSE, snapshotDone |-> FALSE, snapshotPending |-> FALSE,
            saveTimer |-> FALSE, wiped |-> FALSE]

(* "copy": the answer says that the glossary opened is a version.          *)
Idle == [kind |-> "none", stage |-> "free", id |-> None, name |-> << >>,
         rows |-> 0, read |-> [i \in Id |-> NoEntry], own |-> FALSE, copy |-> FALSE]

Present(g)  == {i \in Id : g[i].rows # 0}
Live(g)     == {i \in Present(g) : ~g[i].archived}
Versions(g) == {i \in Present(g) : g[i].archived}

Free     == {s \in Slot : calls[s].stage = "free"}
UnderWay == Slot \ Free
SomeSlot == CHOOSE s \in Free : \A o \in Free : s <= o

(* Bound: no call is sent for which an id might be missing.                *)
Draws(c)   == c.kind = "snapshot" \/ (c.kind = "save" /\ c.id = None)
IdsFor(c)  == IF Draws(c) THEN 1 ELSE 0
IdsLeft    == MaxIds - issued
                - Cardinality({s \in UnderWay : calls[s].stage = "sent" /\ Draws(calls[s])})

-----------------------------------------------------------------------------
(* What the window sends.                                                  *)

(* History: a call or an edit of the window crosses a call under way.      *)
Crossing(busy) == [seen EXCEPT !.crossed = @ \/ busy]

Message(kind) == [Idle EXCEPT !.kind = kind, !.stage = "sent", !.own = TRUE,
                              !.id = ws.id]

SendOut(c) ==
  /\ Free # {} /\ IdsFor(c) <= IdsLeft
  /\ calls' = [calls EXCEPT ![SomeSlot] = c]

Send(kind, id) == SendOut([Message(kind) EXCEPT !.id = id])

CanAutosave(w) == w.id # None \/ w.name # << >>
CanSave(w)     == ~w.wiped /\ w.rows # 0 /\ CanAutosave(w)

SaveOf(w) == [Message("save") EXCEPT !.id = w.id, !.name = w.name, !.rows = w.rows]

(* markDirty(): the first change after a load asks for a version of what   *)
(* is stored, and every change restarts the two-second timer.              *)
AsksVersion(w) == w.id # None /\ ~w.snapshotDone /\ ~w.snapshotPending

Dirtied(w) == [w EXCEPT !.dirty = TRUE,
                        !.snapshotPending = @ \/ AsksVersion(w),
                        !.saveTimer = @ \/ (~w.wiped /\ CanAutosave(w))]

AskVersion == IF AsksVersion(ws) THEN Send("snapshot", ws.id) ELSE UNCHANGED calls

(* The calls whose answer changes what the window shows.                   *)
Awaited == {s \in UnderWay : calls[s].kind # "snapshot"}

(* One of the mutations: a scan lands, a row is edited, a keystone, a      *)
(* discovery or the governance is recorded.  Each sets its field, and the  *)
(* content of the window stands for all of them.                           *)
Edit ==
  /\ edits < MaxEdits
  /\ edits' = edits + 1
  /\ ws' = Dirtied([ws EXCEPT !.rows = edits + 1])
  /\ AskVersion
  /\ seen' = Crossing(Awaited # {} \/ (AsksVersion(ws) /\ UnderWay # {}))
  /\ UNCHANGED <<store, issued, refusing, failures>>

(* setGlossaryMeta: autosave starts once the grid has a name.              *)
NameIt ==
  /\ ws.id = None /\ ws.name = << >>
  /\ \E b \in BaseName : ws' = Dirtied([ws EXCEPT !.name = <<b>>])
  /\ seen' = Crossing(Awaited # {})
  /\ UNCHANGED <<store, issued, refusing, calls, edits, failures>>

(* save(): posts the rows as they are now.                                 *)
Post(w) ==
  /\ SendOut(SaveOf(w))
  /\ ws' = [w EXCEPT !.saving = TRUE]
  /\ seen' = Crossing(UnderWay # {})

Debounce ==
  /\ ws.saveTimer
  /\ IF CanSave(ws) THEN Post([ws EXCEPT !.saveTimer = FALSE])
     ELSE ws' = [ws EXCEPT !.saveTimer = FALSE] /\ UNCHANGED <<calls, seen>>
  /\ UNCHANGED <<store, issued, refusing, edits, failures>>

Interval ==
  /\ ws.dirty /\ ~ws.saving /\ CanSave(ws)
  /\ Post(ws)
  /\ UNCHANGED <<store, issued, refusing, edits, failures>>

(* save() right after a change: the version, when the change is the first, *)
(* is sent together with it.                                               *)
SaveAtOnce(w, under, free) ==
  LET asks  == AsksVersion(ws)
      first == CHOOSE s \in free : \A o \in free : s <= o
      next  == CHOOSE s \in free \ {first} : TRUE
  IN  /\ CanSave(w) /\ IdsLeft >= 1
      /\ Cardinality(free) >= IF asks THEN 2 ELSE 1
      /\ ws' = [w EXCEPT !.saving = TRUE]
      /\ calls' = IF asks THEN [under EXCEPT ![first] = Message("snapshot"), ![next] = SaveOf(w)]
                  ELSE [under EXCEPT ![first] = SaveOf(w)]

(* A button of the Review page that saves at once.                         *)
SaveNow ==
  /\ "now" \in Features /\ edits < MaxEdits
  /\ edits' = edits + 1
  /\ SaveAtOnce(Dirtied([ws EXCEPT !.rows = edits + 1]), calls, Free)
  /\ seen' = Crossing(AsksVersion(ws) \/ UnderWay # {})
  /\ UNCHANGED <<store, issued, refusing, failures>>

(* The keystone of a grid without a name asks the settings for a company   *)
(* to name it after (with a name it is one more edit).  Bound: one such    *)
(* question at a time.                                                     *)
ConfirmCategories ==
  /\ "confirm" \in Features /\ \A s \in UnderWay : calls[s].kind # "settings"
  /\ ws.rows # 0 /\ ws.id = None /\ ws.name = << >>
  /\ ws' = Dirtied(ws)
  /\ Send("settings", None)
  /\ seen' = Crossing(UnderWay # {})
  /\ UNCHANGED <<store, issued, refusing, edits, failures>>

(* The Home page.                                                          *)
Open ==
  /\ \E i \in Present(store) : Send("open", i)
  /\ seen' = Crossing(UnderWay # {})
  /\ UNCHANGED <<store, issued, refusing, ws, edits, failures>>

Delete ==
  /\ "delete" \in Features
  /\ \E i \in Present(store) : Send("delete", i)
  /\ seen' = Crossing(UnderWay # {})
  /\ UNCHANGED <<store, issued, refusing, ws, edits, failures>>

(* Settings: the window stops saving and forgets before it asks to wipe.   *)
AskWipe ==
  /\ "wipe" \in Features
  /\ Send("wipe", None)
  /\ ws' = [ws EXCEPT !.wiped = TRUE, !.saveTimer = FALSE, !.id = None, !.name = << >>,
                      !.rows = 0, !.dirty = FALSE]
  /\ seen' = Crossing(UnderWay # {})
  /\ UNCHANGED <<store, issued, refusing, edits, failures>>

(* The page is left or reloaded: what is unsaved goes out as a beacon, and *)
(* nobody waits for the calls under way.                                   *)
Orphaned(c) == IF c.stage \in {"done", "failed"} THEN Idle ELSE [c EXCEPT !.own = FALSE]

Leave ==
  /\ LET left == [s \in Slot |-> Orphaned(calls[s])]
     IN IF ws.dirty /\ CanSave(ws)
        THEN /\ Free # {} /\ IdsFor(SaveOf(ws)) <= IdsLeft
             /\ calls' = [left EXCEPT ![SomeSlot] = [SaveOf(ws) EXCEPT !.own = FALSE]]
        ELSE calls' = left
  /\ ws # Scratch
  /\ ws' = Scratch
  /\ seen' = Crossing(ws.dirty /\ CanSave(ws) /\ UnderWay # {})
  /\ UNCHANGED <<store, issued, refusing, edits, failures>>

-----------------------------------------------------------------------------
(* The server.                                                             *)

RefusedOddly(s) ==  \* mutant: an answer the window does not know
  calls' = [calls EXCEPT ![s].stage = "refused"]

Refused(s) == calls' = [calls EXCEPT ![s] = IF @.own THEN [@ EXCEPT !.stage = "failed"] ELSE Idle]

(* The handler reads the store and draws the ids it needs.                 *)
Reads(s, id) ==
  /\ calls' = [calls EXCEPT ![s].stage = "read", ![s].read = store,
                            ![s].id = id]

ReadForSaveAlways(s) ==  \* mutant: no refusal after a factory reset
  /\ calls[s].kind = "save" /\ calls[s].stage = "sent"
  /\ IF calls[s].id # None THEN Reads(s, calls[s].id) /\ UNCHANGED issued
     ELSE issued' = issued + 1 /\ Reads(s, issued + 1)
  /\ UNCHANGED <<store, refusing, ws, edits, failures, seen>>

ReadForSave(s) ==
  /\ calls[s].kind = "save" /\ calls[s].stage = "sent"
  /\ IF refusing THEN Refused(s) /\ UNCHANGED issued
     ELSE IF calls[s].id # None THEN Reads(s, calls[s].id) /\ UNCHANGED issued
     ELSE issued' = issued + 1 /\ Reads(s, issued + 1)
  /\ UNCHANGED <<store, refusing, ws, edits, failures, seen>>

(* For a version: the entry has to be there and must not be one itself.    *)
ReadForVersion(s) ==
  /\ calls[s].kind = "snapshot" /\ calls[s].stage = "sent"
  /\ IF calls[s].id \in Live(store)
     THEN /\ issued' = issued + 1
          /\ calls' = [calls EXCEPT ![s].stage = "read", ![s].read = store,
                                    ![s].name = store[calls[s].id].name,
                                    ![s].rows = issued + 1]
     ELSE Refused(s) /\ UNCHANGED issued
  /\ UNCHANGED <<store, refusing, ws, edits, failures, seen>>

ReadSettings(s) ==
  /\ calls[s].kind = "settings" /\ calls[s].stage = "sent"
  /\ calls' = [calls EXCEPT ![s] = IF @.own THEN [@ EXCEPT !.stage = "done"] ELSE Idle]
  /\ UNCHANGED <<store, issued, refusing, ws, edits, failures, seen>>

ReadForDelete(s) ==
  /\ calls[s].kind = "delete" /\ calls[s].stage = "sent"
  /\ Reads(s, calls[s].id)
  /\ UNCHANGED <<store, issued, refusing, ws, edits, failures, seen>>

(* A new entry whose name a live one has gets the first free suffix.       *)
Taken(g, id) == {g[i].name : i \in Live(g) \ {id}}
SuffixedNever(g, id, name) == name  \* mutant: a collision keeps its name

Suffixed(g, id, name) ==
  IF id \in Present(g) \/ name \notin Taken(g, id) THEN name
  ELSE Append(name, CHOOSE n \in 2 .. MaxIds + 1 :
                      /\ Append(name, n) \notin Taken(g, id)
                      /\ \A m \in 2 .. n - 1 : Append(name, m) \in Taken(g, id))

Saved(c) ==
  [c.read EXCEPT ![c.id] = [name |-> Suffixed(c.read, c.id, c.name),
                            rows |-> c.rows, archived |-> FALSE]]

(* For a version, c.rows is the id drawn for it.  Ids grow with time: the  *)
(* oldest versions of the name go.                                         *)
Archived(c) ==
  LET g    == [c.read EXCEPT ![c.rows] = [c.read[c.id] EXCEPT !.archived = TRUE]]
      same == {i \in Versions(g) : g[i].name = c.name}
      old  == {i \in same : Cardinality({j \in same : j > i}) >= KeptVersions}
  IN  [i \in Id |-> IF i \in old THEN NoEntry ELSE g[i]]

Removed(c) == [c.read EXCEPT ![c.id] = NoEntry]

Rewritten(c) == CASE c.kind = "save"     -> Saved(c)
                  [] c.kind = "snapshot" -> Archived(c)
                  [] c.kind = "delete"   -> Removed(c)

(* The whole store is replaced by the handler's copy; a save answers with  *)
(* the id and the name it was stored under.                                *)
Write(s) ==
  /\ calls[s].stage = "read"
  /\ store' = Rewritten(calls[s])
  /\ LET c == calls[s]
         name == IF c.kind = "save" THEN store'[c.id].name ELSE << >>
     IN /\ calls' = [calls EXCEPT ![s] =
              IF c.own THEN [c EXCEPT !.stage = "done", !.read = Idle.read, !.name = name]
              ELSE Idle]
        /\ seen' = [seen EXCEPT
              !.overtaken = @ \/ \E o \in UnderWay \ {s} : calls[o].stage = "read",
              !.removed = IF c.kind = "delete" THEN @ \cup {store[c.id].rows} ELSE @]
  /\ UNCHANGED <<issued, refusing, ws, edits, failures>>

Serve(s) ==
  /\ calls[s].kind = "open" /\ calls[s].stage = "sent"
  /\ LET e == store[calls[s].id]
     IN IF e.rows = 0 THEN Refused(s)
        ELSE calls' = [calls EXCEPT ![s] =
               IF ~@.own THEN Idle
               ELSE [@ EXCEPT !.stage = "done", !.name = e.name, !.rows = e.rows,
                              !.copy = e.archived]]
  /\ UNCHANGED <<store, issued, refusing, ws, edits, failures, seen>>

Wipe(s) ==
  /\ calls[s].kind = "wipe" /\ calls[s].stage = "sent"
  /\ refusing' = TRUE
  /\ store' = [i \in Id |-> NoEntry]
  /\ calls' = [calls EXCEPT ![s] = IF @.own THEN [@ EXCEPT !.stage = "done"] ELSE Idle]
  /\ seen' = [seen EXCEPT !.overtaken = @ \/ \E o \in UnderWay : calls[o].stage = "read"]
  /\ UNCHANGED <<issued, ws, edits, failures>>

(* Ten seconds later.                                                      *)
AcceptAgain ==
  /\ refusing /\ refusing' = FALSE
  /\ UNCHANGED <<store, issued, ws, calls, edits, failures, seen>>

(* A request or its answer is lost, or the store cannot be read.           *)
Fail(s) ==
  /\ failures < MaxFailures /\ failures' = failures + 1
  /\ calls[s].stage \in {"sent", "done"}
  /\ Refused(s)
  /\ UNCHANGED <<store, issued, refusing, ws, edits, seen>>

-----------------------------------------------------------------------------
(* What the window makes of the answers.                                   *)

Done(s, kind)  == calls[s].kind = kind /\ calls[s].stage \in {"done", "failed"}
Succeeded(s)   == calls[s].stage = "done"
Answered(s)    == calls' = [calls EXCEPT ![s] = Idle]

SaveAnsweredClean(s) ==  \* mutant: a failed save counts as saved
  /\ Done(s, "save")
  /\ ws' = IF Succeeded(s)
           THEN [ws EXCEPT !.id = calls[s].id, !.name = calls[s].name,
                           !.dirty = FALSE, !.saving = FALSE]
           ELSE [ws EXCEPT !.dirty = FALSE, !.saving = FALSE]
  /\ Answered(s)
  /\ UNCHANGED <<store, issued, refusing, edits, failures, seen>>

SaveAnsweredStuck(s) ==  \* mutant: an error leaves "saving" set
  /\ Done(s, "save")
  /\ ws' = IF Succeeded(s)
           THEN [ws EXCEPT !.id = calls[s].id, !.name = calls[s].name,
                           !.dirty = FALSE, !.saving = FALSE]
           ELSE ws
  /\ Answered(s)
  /\ UNCHANGED <<store, issued, refusing, edits, failures, seen>>

SaveAnswered(s) ==
  /\ Done(s, "save")
  /\ ws' = IF Succeeded(s)
           THEN [ws EXCEPT !.id = calls[s].id, !.name = calls[s].name,
                           !.dirty = FALSE, !.saving = FALSE]
           ELSE [ws EXCEPT !.saving = FALSE]
  /\ Answered(s)
  /\ UNCHANGED <<store, issued, refusing, edits, failures, seen>>

SnapshotAnswered(s) ==
  /\ Done(s, "snapshot")
  /\ ws' = [ws EXCEPT !.snapshotDone = @ \/ Succeeded(s), !.snapshotPending = FALSE]
  /\ Answered(s)
  /\ UNCHANGED <<store, issued, refusing, edits, failures, seen>>

OpenedAsIs(c) ==  \* mutant: a version opens under its own id
  [ws EXCEPT !.id = c.id, !.snapshotDone = c.copy,
             !.name = c.name, !.rows = c.rows, !.dirty = FALSE]

OpenedQuietly(c) ==  \* mutant: no load asks for a version
  [ws EXCEPT !.id = IF c.copy THEN None ELSE c.id, !.snapshotDone = TRUE,
             !.name = c.name, !.rows = c.rows, !.dirty = FALSE]

(* openGlossary(): an archived version opens as a copy without an id.      *)
Opened(c) ==
  [ws EXCEPT !.id = IF c.copy THEN None ELSE c.id, !.snapshotDone = c.copy,
             !.name = c.name, !.rows = c.rows, !.dirty = FALSE]

OpenAnswered(s) ==
  /\ Done(s, "open")
  /\ ws' = IF Succeeded(s) THEN Opened(calls[s]) ELSE ws
  /\ Answered(s)
  /\ seen' = IF Succeeded(s)
             THEN [Crossing(Cardinality(UnderWay) > 1) EXCEPT !.opened = edits]
             ELSE seen
  /\ UNCHANGED <<store, issued, refusing, edits, failures>>

(* Whatever the settings say, the grid the window shows by now is named    *)
(* and saved: that it had no name is not tested again.  Bound: not saved   *)
(* when the ids are used up.                                               *)
KeystoneNamed(s) ==
  /\ Done(s, "settings")
  /\ \E b \in BaseName :
       LET w == Dirtied([ws EXCEPT !.name = <<b>>])
       IN  IF CanSave(w) /\ IdsLeft >= 1
           THEN SaveAtOnce(w, [calls EXCEPT ![s] = Idle], Free \cup {s})
           ELSE Answered(s) /\ ws' = IF AsksVersion(ws) THEN ws ELSE w
  /\ seen' = Crossing(AsksVersion(ws) \/ UnderWay # {s})
  /\ UNCHANGED <<store, issued, refusing, edits, failures>>

DeleteAnswered(s) ==
  /\ Done(s, "delete")
  /\ Answered(s)
  /\ UNCHANGED <<store, issued, refusing, ws, edits, failures, seen>>

(* After a clean wipe the page reloads; after an error it stays, wiped.    *)
WipeAnswered(s) ==
  /\ Done(s, "wipe")
  /\ calls' = IF Succeeded(s) THEN [o \in Slot |-> IF o = s THEN Idle ELSE Orphaned(calls[o])]
              ELSE [calls EXCEPT ![s] = Idle]
  /\ ws' = IF Succeeded(s) THEN Scratch ELSE ws
  /\ UNCHANGED <<store, issued, refusing, edits, failures, seen>>

-----------------------------------------------------------------------------
Init ==
  /\ store = [i \in Id |-> NoEntry] /\ issued = 0 /\ refusing = FALSE
  /\ ws = Scratch /\ calls = [s \in Slot |-> Idle]
  /\ edits = 0 /\ failures = 0
  /\ seen = [crossed |-> FALSE, overtaken |-> FALSE,
             opened |-> 0, removed |-> {}]

Handle(s) == \/ ReadForSave(s) \/ ReadSettings(s) \/ ReadForVersion(s) \/ ReadForDelete(s)
             \/ Write(s) \/ Serve(s) \/ Wipe(s)

Settle(s) == \/ SaveAnswered(s) \/ SnapshotAnswered(s) \/ OpenAnswered(s)
             \/ DeleteAnswered(s) \/ WipeAnswered(s) \/ KeystoneNamed(s)

Steward == Edit \/ NameIt \/ SaveNow \/ ConfirmCategories \/ Open \/ Delete \/ AskWipe \/ Leave
Timers  == Debounce \/ Interval

(* Nothing is under way.                                                   *)
Rest == UnderWay = {} /\ UNCHANGED vars

Next == \/ Steward \/ Timers \/ AcceptAgain \/ Rest
        \/ \E s \in Slot : Handle(s) \/ Settle(s) \/ Fail(s)

(* The timers of an open page run, the server's threads end, and fetch     *)
(* settles with an answer or an error.                                     *)
Fairness ==
  /\ SF_vars(Interval) /\ WF_vars(AcceptAgain)
  /\ \A s \in Slot : WF_vars(Handle(s)) /\ WF_vars(Settle(s))

Spec == Init /\ [][Next]_vars /\ Fairness

-----------------------------------------------------------------------------
Entry == [name : Seq(Nat), rows : 0 .. MaxEdits, archived : BOOLEAN]

TypeOK ==
  /\ store \in [Id -> Entry] /\ issued \in 0 .. MaxIds /\ refusing \in BOOLEAN
  /\ ws \in [id : Id \cup {None}, name : Seq(Nat), rows : 0 .. MaxEdits,
             dirty : BOOLEAN, saving : BOOLEAN, snapshotDone : BOOLEAN,
             snapshotPending : BOOLEAN, saveTimer : BOOLEAN, wiped : BOOLEAN]
  /\ calls \in [Slot -> [kind : {"none", "save", "snapshot", "open", "delete", "wipe",
                                 "settings"},
                         stage : {"free", "sent", "read", "done", "failed"},
                         id : Id \cup {None}, name : Seq(Nat), rows : Nat,
                         read : [Id -> Entry], own : BOOLEAN, copy : BOOLEAN]]
  /\ edits \in 0 .. MaxEdits /\ failures \in 0 .. MaxFailures

(* As long as the window's calls do not cross, what it shows as saved is   *)
(* what the store holds under its id, through failed calls, versions,      *)
(* copies and page reloads (save() and openGlossary()).                    *)
SavedIsStored ==
  ~seen.crossed /\ ~ws.dirty /\ ws.id \in Present(store) =>
    ~store[ws.id].archived /\ store[ws.id].rows = ws.rows

(* A version never changes: whatever is opened, edited and saved, whatever *)
(* overtakes whatever, it stays as archived or goes (snapshot_glossary:    *)
(* versions are immutable).                                                *)
VersionsImmutable ==
  [][\A i \in Versions(store) \cap Present(store') : store'[i] = store[i]]_vars

(* A save that overwrites what a window loaded leaves a version of it,     *)
(* unless calls crossed or failed or the steward deleted the version       *)
(* (markDirty's copy-on-write).                                            *)
LoadedIsArchived ==
  [][\A s \in Slot :
       LET i == calls[s].id IN
       /\ calls[s].kind = "save" /\ Write(s)
       /\ ~seen.crossed /\ failures = 0
       /\ i \in Live(store)
       /\ store[i].rows # calls[s].rows /\ store[i].rows <= seen.opened
       => \/ \E v \in Versions(store') : store'[v].rows = store[i].rows
          \/ store[i].rows \in seen.removed]_vars

(* As long as the window's calls do not cross, no two live glossaries      *)
(* share a name (save_glossary's suffix).                                  *)
LiveNamesDistinct ==
  ~seen.crossed =>
    \A i, j \in Live(store) : store[i].name = store[j].name => i = j

(* In the seconds after a factory reset the store stays empty, unless a    *)
(* handler was between its read and its write when the wipe came           *)
(* (_FACTORY_RESET_AT).                                                    *)
WipeHolds == refusing /\ ~seen.overtaken => Present(store) = {}

(* Unsaved work of a named glossary is saved in the end, or the steward    *)
(* leaves it: the interval repeats what failed (setInterval in state.js).  *)
DirtyIsSaved == ws.dirty /\ CanSave(ws) ~> ~ws.dirty \/ IdsLeft = 0
=============================================================================
