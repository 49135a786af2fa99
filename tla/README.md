# Verification of the PDC Glossary Generator

TLA+ specifications of the parts of this repository that keep state and are
used by several actors at once, TLC configurations that check them on small
instances, and theorems about them that TLAPS proves for every instance.

The repository is a Python server (FastAPI, one process, a pool of threads), a
React front end, a client for the Pentaho Data Catalog (PDC), and a desktop shell
that starts the server. The definitions are translated from the code, not from
the documentation; `PROJECT.json` gives the lines each of them stands for.

    cd tla
    tlc -workers 2 -config seeded.cfg MCDictionary   # one run
    tlapm DictionaryProofs.tla                       # one module of proofs

## 1. Inventory

| Part | State | Operations | What is hard |
|---|---|---|---|
| Tag dictionary: `engine/tagdict.py`, its endpoints in `api.py`, `DictionaryPage.jsx` | `_DICT` in memory, `tag_dictionary.json`, the page's copy, the copy in a state snapshot | load, review (approve, reject, alias), accrete, refresh_pending, replace, reset, restore, factory reset | four copies of a document with their own life times; seeded vocabulary is merged in again at every load; `load()` returns the document before the lock is taken; two endpoints write the file outside the lock |
| Glossary store and review workspace: `api.py` (`/api/glossaries`), `state.js`, `HomePage.jsx`, `SettingsPage.jsx` | `glossaries.json`, the workspace in tab memory, timers, calls under way | edit, name, confirm categories, autosave (debounce, interval, beacon), copy-on-write version, open, delete, wipe | handlers read, change and rewrite the whole store without a lock; answers arrive at a window that shows something else by now |
| Row merging: `rowmerge.js`, `evidence.js` | none, functions over rows | fold by source, merge a scan, fold the grid into itself, merge evidence | one row may carry several columns, one column may come in several rows |
| Review page: `ReviewPage.jsx` | rows, decided clusters with their snapshots, pills, the agent and its loop, the categorize job | edits, merge/disambiguate/separate, AI pass, AI categories, accept, dismiss, load, enhance, repair | pills hang on row indices; an agent's loop outlives the page; a repair folds rows by itself; grids are exchanged under model calls |
| Apply page: `ApplyPage.jsx` | links, ids, matches, export, stamp plan and job, watch | pull, resolve, match, bind, generate, archive, preview, stamp, trigger | state that outlives the page in a session cache, handlers that outlive it and reach the cache with some of their setters only |
| Govern page: `GovernPage.jsx` | cards per category, orphans, defaults, roster, label keys, the governance baked into the workspace | load, edit, auto-assign, suggest expertise, suggest domain, fetch Keycloak users, one-click set-up | categories move under the cards; late answers write what their handler captured; four writers of one field |
| Sources: `SourceConnections.jsx`, `SchemaPage.jsx`, `ConnectPage.jsx`, `/api/connections`, `/api/seed` | `connections.json`, lists and forms of a page, the grid, the keys panel | save, delete, import, scan, harvest, seed, load a schema, plan and apply keys | landings wait for a list and for the steward in the middle; plans that are not of what is selected; the file is rewritten without a lock |
| Background jobs: `api.py` (`_JOBS`) | a dictionary of jobs and their events, in memory | start, report, poll | capped event lists, polling by index, restarts |
| Apply to PDC: `pdc_client/apply.py`, `entities.py`, `terms.py` | token, receipts, remote terms | create, link, retry, undo by receipt | repeated calls after an expired token, partial failure |
| Bulk load: `pdc_client/bulkload.py`, `jobs.py` | remote data sources and scan jobs | create, test, scan, wait | time-outs that race with late answers |
| Audit log: `core/audit.py` | `audit_log.json` | record, trim | a read error counts as an empty history |
| Desktop shell: `desktop/src-tauri/src/server.rs` | child process, port | pick a port, start, wait, stop | a port that is taken between the test and the start |
| Suggester, similarity, packs, policies, language models, chat, Files and Report pages | none that outlives a call | text in, text out | heuristics and views; nothing concurrent |

How they meet. Rows come from scans, harvests and files (Sources, Review page)
and land in the workspace. The Review page decides about them, with models that
propose and a steward who accepts; the Govern page bakes stewardship into the
same workspace, the Apply page reads it and writes into PDC. The workspace saves
itself into the store. A scan also ends in `accrete`, which adds to the
dictionary, and a saved review in `refresh_pending`. The Dictionary page posts
decisions and, with Save, its whole copy of the document. State restore and
factory reset write the files of the dictionary and of the store under the feet
of both. Every page may be left while its handlers run; what it keeps for its
next showing is in a session cache (`usePersistentState` of `state.js`).

What makes each part correct:

- dictionary: nothing governs without a steward's decision; a retirement holds
  until it is revoked; the load-bearing core is always there; every decision the
  steward was told of is on disk; a name belongs to one entry; a usage count
  counts terms, not scans;
- store and workspace: what the window calls saved is stored; a version never
  changes; what was loaded can be had back; unsaved work gets saved; a wiped
  store stays wiped;
- Review page: a proposal stands on the row it was made for; a decision loses no
  source column and can be taken back; a disambiguation separates; agents end;
- Apply page: what is downloaded and applied belongs together; nothing is
  written that was not planned; an old export is called old;
- Govern page: what is saved for a category follows the card the steward filled in,
  and none of it is out of sight;
- Sources: what is written into a database is what was confirmed; a harvest
  gathers all it found;
- jobs: a job ends for whoever waits for it, also when the server forgets it;
- apply and bulk load: no object is created twice, a receipt names what was done;
- audit: no event is lost;
- desktop: exactly the started server is stopped.

`PROJECT.json` lists the hazards with their lines and the properties aimed at them.

## 2. Plan

Done, in this order: `Dictionary`; its abstract promise `VocabularyLife` with
`DictionaryRefinement`; the same requests as threads, `DictionaryRace`; their proofs,
that the dictionary implements its promise (`DictionaryLifeProofs`) included;
`Workspace` and its proofs; `ReviewRows` and `Review` and theirs (`ReviewProofs`);
`Apply`, `Govern` and `Sources`, each with its proofs.

Left:

1. `Jobs`: the registry, its pollers and its cap; abstract promise: a log each poller reads once.
2. `ApplyToPdc`: the run behind Apply to PDC with expiring tokens and partial failure; abstract
   promise: each planned object created at most once, the receipt names it.
3. `BulkLoad`, `Audit`, `DesktopServer`: time-outs, read errors, process life cycle.
4. A composition of `Workspace` and `Dictionary` through `refresh_pending`.

Every invariant, every action property and the refinement that a passing run checks
is also a theorem; liveness stays with TLC (section 5).

## 3. The modules

Names of actions are those of the functions in the code where there is one.

### Dictionary

State: `mem` is `_DICT` (`NoDoc` until `load()` caches it), `disk` the file,
`page` the document the Dictionary page would post, `zip` the dictionary in the
state snapshot the steward downloaded. A document is the allow-list of tags, the
terms with their tags, aliases and source columns, the rules, the tombstones and
the usage sets; an absent entry has layer `"absent"`.

| Action | Code |
|---|---|
| `LoadFile`, `LoadFresh` | `load()`: merge the file with the seed (`_merge_seed`), or write a fresh seed when the file is missing or unreadable |
| `ApproveTag/Term`, `RejectTag/Term`, `AliasTerm` | `review()` with the final `_remap_usage` and `_save_locked` |
| `Accrete` | `accrete()` for one row |
| `RefreshPruned`, `RefreshKnown`, `RefreshRenamed` | the three branches of `refresh_pending()` |
| `OpenPage`, `AddTerm`, `AddTag`, `AddRule`, `Save` | the page's `load`, local edits and `replace()` with its guard-rail |
| `Reset` | `reset()` (preserve_approved) |
| `Restart`, `Snapshot`, `Restore`, `FactoryReset` | process death and the state endpoints |

A failed write ("diskfull") changes memory and not the file, as `_save_locked`
after the assignment to `_DICT` does; an unreadable file counts as no file; a
wipe may fail to delete ("undeletable"), which the code swallows. Each `Ops`
member switches an operation or a fault on.

Abstractions. Batches run under one lock, so one name or row per step shows every
state between requests. Definition, category, pattern text, confidence,
sensitivity, examples and per-term statistics are not modelled: no property tells
them apart. A term the junk filter refuses is `NoName`. When two entries claim a
name, the code takes the one later in the file; the model takes either. The caps
on sources and usage are not reached. Tags arrive normalised.

### VocabularyLife and DictionaryRefinement

`VocabularyLife` is the promise without any document: every name is unknown,
pending, governed, retired or (terms only) re-proposed, with the steps a scan, a
steward, a correction in the Review grid and a reseed may take. A restart is
not a step: it must be invisible. `DictionaryRefinement` reads the life of a name
off `Effective`, the document served now or after the restart that may come, and states
`ImplementsVocabularyLife`.

### DictionaryRace

The requests as threads: `load()` takes the lock, reads, caches and releases; the
body takes the lock again; `_save_locked` writes whatever `_DICT` points to then.
A document is an object on the heap, its content the set of requests that
left their mark in it. `state-restore` truncates and writes the file outside the
lock, `factory-reset` deletes it outside the lock; both take the lock only to drop the
cache. `Crash` loses memory and every unanswered request.

`Decider` stands for review, accrete and refresh_pending, which have the same
shape; `Reseeder` for reset; `Replacer` for a page that loads, is edited and saves.

### Workspace

State: `ws` is the object of that name in `state.js` with its timers and flags,
`store` is `glossaries.json`, `calls` the calls under way with what their handler
has read, `refusing` the ten seconds after a factory reset. `seen` is history the
properties refer to and no action reads.

| Action | Code |
|---|---|
| `Edit`, `NameIt` | the mutations of `state.js`, each ending in `markDirty()`, which asks for a version at the first change after a load and restarts the debounce |
| `Debounce`, `Interval`, `SaveNow`, `Leave` | the two-second timer, the thirty-second interval, Complete review, `pagehide` |
| `ConfirmCategories`, `ReadSettings`, `KeystoneNamed` | the keystone of the Review page: a grid without a name asks the settings for the company, names itself and saves |
| `Open`, `Delete`, `AskWipe` | Home and Settings pages |
| `ReadForSave`, `ReadForVersion`, `ReadForDelete`, `Write` | the handlers, split between reading the whole store and writing it back |
| `Serve`, `Wipe`, `AcceptAgain` | `get_glossary`, `api_factory_reset`, ten seconds later |
| `Fail` | a request or an answer that is lost, a store that cannot be read (503) |
| `SaveAnswered` ... `WipeAnswered` | the continuations after `await` |

Abstractions. A grid is the number of the edit that made it and stands for
everything a save posts. A name is a base and the suffixes collisions gave it.
There is one window. The handler tests the refusal, and reads, in one step. A
save's call of `refresh_pending` belongs to `Dictionary`. Not modelled: renaming a
glossary that is saved already, the `.bak` copy, the wipe whose answer lists
survivors (the page then stays, as after a failed wipe).

### ReviewRows and Review

`ReviewRows` has the rows as values: `Folded`, `FoldWalk`, `MergeBySource`, `SelfFold`
(`rowmerge.js`), `MergedEvidence` (`evidence.js`), and `GroupAction`
(`applyGroupAction`) with `Merged`, `Split` and `Reverted`. A row is its source columns, term,
category, definition, evidence, keep flag and the cluster it was decided in. The loops
of the code (`foldWalk`, `mergeMembers`, `splitMembersUnique`) are functions on the number of rows
done. A split tries counters until a name is free; `FreeCounters` are those below a
bound that always suffices, which `ReviewProofs` shows.

`Review` is the page. `rows` is the grid, `grp` the decided clusters with the rows
they had, `pills` the proposals by row index, `agent` and `loop` a run as the page
shows it and as it works on, `cat` the categorize job on server, in the session cache and on the
page. A pill remembers, as history, the columns of the row the model was asked
about.

| Action | Code |
|---|---|
| `OnField`, `OnKeep`, `MasterToggle`, `ToggleHM`, `RenameCategory`, `UseName`, `UseAllNames`, `SimMerge` | the edits of the grid, its toolbar and the Find-similar panel |
| `OnGroupSet`, `ResetAll` | a decision on a cluster's header (the active choice reverts), Reset all |
| `RunAiPass`, `RunAiPassRow`, `BatchAnswered`, `BatchFailed`, `Offline`, `Cancel` | `runChunks`: one model call per chunk of kept rows |
| `AiCategories`, `CatStarted` ... `CatLost` | the categorize job, started, polled every 900 ms, answered, failed, forgotten |
| `AcceptProp`, `AcceptAllProps`, `DismissProps`, `Chips` | the pills and the chips of their banner |
| `OnLoadFile`, `EnhanceSent`, `EnhanceLanded`, `LandScan`, `OpenOther` | rows from outside |
| `Repair`, `Leave`, `Return` | the silent fold of duplicated sources, and the showings of the page |

Between two clicks the repair effect has run (`Shown` asks for `Idle`). Texts are
numbers, a split's new names are sequences; the model may answer anything.

### Apply

`view` is what the page keeps as it shows it, `cache` as the session cache has it;
`local` are the busy flags and the revision of the last export, which a showing
starts without; `calls` are requests and loops, each with the showing it belongs
to. `Land` is the continuation of a handler: while its page is shown it sets all;
afterwards at most the first setter of each card reaches the cache, because React
computes it eagerly and drops those queued behind it.

| Actions | Code |
|---|---|
| `PullClick`, `SetPolicy`, `MapY`, `PullAnswered` | `DataElementsCard.pull` with its three triggers |
| `Resolve`, `AiMatch`, `Bind` and their answers | `ResolveCard` |
| `Generate`, `Generated`, `Archived` | `GenerateCard`: the export, its revision and its copy in the lab |
| `PreviewStamp`, `WriteStamp`, `StampStarted`, `JobEnded`, `JobPolled`, `JobLost` | `LabelsCard` over a resumable job |
| `Trigger`, `Triggered`, `WatchEnded` | `ProfilingCard` |
| `CheckTree`, `SendToLab`, `DownloadDq`, `GetToken`, `CreateLabels`, `Compare`, `ApplyLinks` | cards that ask once and show the answer |
| `GridChanges`, `Import`, `Leave`, `Return` | the grid changes elsewhere, terms are imported into PDC by hand, the page is left and shown |

### Govern

A card has one of the three slots (they are treated alike), a rating (which stands
for the status and the review date too), stakeholders, and `by`, who filled the slot
in. `gov` is the governance of the workspace; `Rendered` is what the effects do after
a render in which categories or roster changed: cards for live categories, orphans for
the others, defaults fitted to the roster, then the bake. The bake is not a copy
(`Told`): a rating that follows the quality of the rows, by the card or by the default,
is carried as the stars they earn now (`dq`), and of the stakeholders those who are in
the page's roster. How well a person matches is chosen at the moment it is asked for.
Cards, their buttons and the orphans are there only when a category is live and the
roster has an account (`CardsShown`); an override of stakeholders that is off is one
that names nobody, so that ticking it again with its old list is not modelled.

| Actions | Code |
|---|---|
| `Show`, `Loaded`, `Leave`, `Reload`, `Reopen` | the showings of the page (roster or settings may fail to load), a reload of the tab, another visit of the glossary |
| `Recategorise` | categories renamed, folded or brought back on Review, their quality with them |
| `SetOvField`, `SetOvPlain`, `ChangeDefaults`, `DiscardOrphans`, `TickLabel`, `SaveRoster` | edits |
| `RosterEdit`, `PickOnDropped` | edits after which a render throws: the tree is unmounted |
| `AutoAssign`, `ClearAuto` | `autoAssign` with `pickSlot` and `slotDecision`; `clearAuto` |
| `Suggest`, `AutoDomain`, `FetchKeycloak`, `SetUp` and their answers | the requests |

### Sources

`stored` is `connections.json`; `page` is the page shown (Schema or Connect) and
the number of its showing; `local` what a showing starts without; `schema` and
`cache` the kept state of the Schema page. A source stands for its rows, so merging by source identity is a
union here (`ReviewRows` has it row by row).

| Actions | Code |
|---|---|
| `StartEdit`, `TypeForm`, `Reset`, `Save`, `Remove`, `ImportSelected` | connection form and cards, the loader's CSV |
| `ConnectionsRead`, `ConnectionsWritten`, `ConnectionsAnswered` | the handlers, read and rewrite without a lock |
| `Scan`, `HarvestOne`, `HarvestSelected` | what brings rows |
| `RowsCame`, `LandFresh`, `LandFolding`, `LandFolded`, `LandFailed` | `landScanRows`, split at each `await` and at the question to the steward |
| `Seed`, `SeedTyped`, `SeedGivenUp`, `SeedWritten` | dry run, typed name, write |
| `Select`, `PasteDdl`, `LoadConn`, `LoadSql`, `TakeDdlFile`, `PlanKeys`, `ApplyKeys`, `KeysAnswered` | the Schema page |
| `OpenGlossary`, `Autosave`, `Navigate` | elsewhere in the window |

Abstractions: the two lists of the Schema page are read at once as it is shown;
the first save of a fresh grid is in `Workspace`. Whether a key plan has anything to add,
without which its panel has no Apply, is chosen as it arrives.

### Mutants

Definitions marked `\* mutant:` are wrong variants of the definition that follows. No
specification uses them; `PROJECT.json` says which property notices each of them.

## 4. The runs

Runs that pass:

| Run | Instance | Distinct states | Question |
|---|---|---|---|
| `seeded` | core, baseline, pack and scanned tags; a baseline and a pack term; 3 rows; no save, no refresh | 4,603 | Do the core, the tombstones, the usage counts and the decisions survive reviews, scans, reseeds, restarts, unreadable files and wipes? |
| `scan` | 3 tags, 3 terms of which two differ in case only, 4 rows from one column, refresh, reseed, restart | 27,903 | Does scan-grown vocabulary govern only by a steward's decision and keep it, are names unambiguous, does the document implement `VocabularyLife`? |
| `page` | 3 tags, 1 term, a rule; stale pages, snapshot, restore, failed writes, failed wipes | 702,067 | Is a saved document closed over its rules and terms? |
| `race` | 2 deciders, 1 reset, 1 page, 1 restore, 1 wipe, 1 crash | 1,284,404 | Are decisions durable, do memory and file agree, is every request answered? |
| `workspace` | 1 call at a time, 4 ids, 2 edits, 1 failure, all features | 223,974 | Is what the window calls saved stored, and is unsaved work saved in the end? |
| `crossing` | 2 calls at a time, 3 ids, 2 edits, wipe, save-now and keystone | 2,556,861 | What holds when calls overtake one another? |
| `review` | two rows of one name from one table, one with a suggested name, scans that bring both columns in one row, 2 names, 2 categories, 2 rows per model call, 2 edits, 1 run or job, 1 landing, file or glossary | 181,924 | Do pills stay on their rows, do decisions lose no column and revert, do runs and jobs end? |
| `apply` | 1 term that the selective policy holds back, 3 requests, 2 changes of the grid, left once | 723,493 | Do links, ids and exports stay consistent whatever answers when? |
| `govern` | 2 categories, a holder and another person, 1 rating, at most 4 of 2 moves, 2 edits, 1 request and 1 leave | 1,615,873 | Does what is saved for a category follow its card, and is it in sight? |
| `sources` | 2 connections, 2 configurations of which one is marked, 2 scripts, 2 requests, 1 edit, 1 move | 717,133 | Is data seeded where it was typed, and does a harvest gather and end? |

Runs that show where the code and what is written about it part:

| Run | What it shows |
|---|---|
| `resurrected` | Retire a term of a pack, open the Dictionary page, press Save: `_guardrail` merges the seed into the payload, which brings the term back approved and gives the payload an empty `retired`, before `replace` looks whether it has one (`tagdict.py:559`). All tombstones are gone; the comment at `:560` says they are kept, "or a Save would resurrect retired pack entries". |
| `applied_not_reviewed` | Plan the keys of one script, paste another, press Apply: the keys of the second are written while the panel shows the statements of the first (`SchemaPage.jsx:158`). |

Why the bounds suffice. In `Dictionary` nothing is counted: the bound is the
vocabulary. `seeded` has one name of every origin; `scan` has what corrections
need (a misread name, its correction, a variant in case) pointing at one column,
which is where they meet; `page` has the four copies and every fault. In
`DictionaryRace` each kind of request occurs, and two deciders so that a decision
can be orphaned by another request. `Workspace` needs three ids for a glossary,
its version and a fork, a fourth for pruning; two edits, so that a
window, a call and the store can all differ; two calls to overtake one another.
`KeptVersions` is 1 where the code has 10, so that pruning happens. Calls are not
sent for which an id might be missing, and edits stop at `MaxEdits`: these guards
are bounds, named so in the module. `Review` needs two rows of one name for a
cluster, a scan that joins their columns for the repair, a run, and one event
that exchanges the grid; two edits make a decision and its reversal, or an edit between
a call and its answer. `Apply` needs three requests for a pull, a resolve and
a second pull, or a plan, a write and another write; one leave for a handler that
outlives its page. `Govern` needs two moves for a category that goes and comes
back, two edits for a decision and what may undo it, a request or a leave between them;
`MaxActs` bounds them together at four. One rating suffices, since a card has it, leaves
it to the rows or has none, and rows earn it or none; at first they earn none, as before a profile. The
categories are interchangeable (symmetry): no definition tells one from another. `Sources` needs two requests for a dry run and a save, two landings, or a plan
and an apply, one edit to change what was planned, one move to leave.

Conditions. `LiveNamesDistinct`, `SavedIsStored` and `LoadedIsArchived` hold for windows
whose calls do not cross (`seen.crossed`), `WipeHolds` unless a handler had read
the store when the wipe came (`seen.overtaken`); `DecisionsAreDurable` speaks of
runs in which no request has put another document in place; `scan` has no
baseline term. `LocksHold` is about grids that are not exchanged under a model
call (`crossed`); `ColumnsConserved` about clusters no other row has joined since
their decision (`Closed`) and not about files, overlays, other glossaries and
Reset all, which replace the grid on purpose. `TombstonesDurable` is not about a Save, a restore or a wipe, which put another document in
place; what a Save does to tombstones is `resurrected`. `StaleIsSaid` leaves out an export
during which the grid changed (`seen.late`), `DecisionsStay` what a set-up that had
to wait assigns (`seen.macro`) and stakeholders who are not in the roster,
`NothingHidden` a page that shows neither cards nor orphans (`CardsShown`), `HarvestGathers` a harvest beside which something else
lands (`alone`). Without each of these conditions the code violates the property,
for a reason given below.

Fairness. `DictionaryRace`: weak fairness of each request (a thread of the pool runs, and
every body under the lock ends); the lock is free again and again, but a
request is not promised the lock against ever new requests, of which there are
finitely many. `Workspace`: weak fairness of each handler, of each continuation (`fetch` settles
with an answer or an error) and of the end of the ten seconds; strong fairness of the
interval, because the bound on calls under way can disable it for a while where
the browser would send one more. `Review`: weak fairness of the answer or failure of
a batch (each call has a time budget), of the repair effect, of the server's job and of
the poll while the page is shown; a page that is left need not come back.
`Apply`: weak fairness of answers, jobs and polls. `Sources`: weak fairness of a
landing's next step, the steward's answer to its question included. `Dictionary` and `Govern` state no
liveness. Nothing is assumed of what the steward clicks or of the debounce.

Deadlock is not checked where the bounds let everything stop: `review`, `apply`,
`govern`, `sources` and `applied_not_reviewed`.

### Known behaviour without a run of its own

Each was met while modelling. Where a condition above excludes it, TLC finds it
as soon as the condition is dropped.

Dictionary. One Save of the Dictionary page drops all tombstones (`resurrected` above), so
that `TombstonesDurable` cannot cover it. A retired baseline
term that a scan proposes again governs after a restart, because `_merge_seed`
labels the pending entry generic (`:357`). A rename in the grid leaves the old
key in the usage set, so a rescan counts the term twice (`:1032`). A reset
between a review's `load()` and its lock orphans the decision, which is answered
nevertheless (`:695`). Rules of retired tags come back at load (`:324`); a reseed drops rules
typed on the page, which have no layer (`:481`); an entry without a status is
shown as approved and does not govern (`:1157`, `:527`); a correction in case overwrites
an entry of that spelling, even an approved one (`:1002`); a fold of a fold loses
the aliases collected before (`:720`); a save during a restore overwrites what was
restored (`api.py:639`), a request during a wipe brings the file back (`api.py:4690`).

Store and workspace. An edit made while a save is under way is marked clean by
its answer, and leaving the page within the debounce loses it (`state.js:371`). The
answer of a save that started before a version was opened gives the copy the id of the live
glossary, which its first save overwrites (`state.js:365`). Two overlapping handlers lose one another's
write (`api.py:1147`). The version asked for at the first change is a call of its
own, and one read after the save keeps the changed rows (`state.js:276`). Two overlapping
first saves, or a first save whose answer is lost, fork the glossary. The keystone
names whatever glossary is open when the settings arrive (`ReviewPage.jsx:775`). The
README says the last glossary is resumed on start, which no code does.

Review page. The overlay of an existing glossary replaces edits made while it was
computed. Reset all drops rows that landed after its snapshot; taking a decision back
drops rows that joined the name since. The repair at mount runs before the page knows its
categorize job; the job does not lock the decisions. A file can be loaded
while an agent runs, and opening a glossary does not stop a run, whose pills then
appear on the other grid. The cancel button of a later showing does not reach
the loop. Any failed poll counts as a lost job.

Apply page. Mapping a held term pulls with the rows of the render before. The
revision of an export is read after the answer. A match that was asked before a
resolve can be bound over exact ids. Preview can be pressed twice before the job
has an id, and the later id displaces the polled one. After the page was left,
the archive note can belong to an earlier export and the watch bar can stay without a watcher.

Govern page. A roster that cannot be read counts as an empty one (`GovernPage.jsx:500`), and
a pull may bring fewer people: the bake leaves those who are not in it out of
the stakeholders that are saved (`:917`). The card has them until the page is reloaded or the
glossary reopened; then they are gone. A rating left to the quality of the rows is saved as stars
(`:907`), and a card made from the saved glossary has them as a fixed rating. Without a
live category or an account the page shows no card and no orphan, although the
glossary carries them (`:1104`). A set-up that had to wait for expertise assigns over picks made
meanwhile and drops the cards of categories that came in between, on which a pick then
throws. Any edit of the roster unmounts the app: `RosterCard` reads
`pendingRemoval`, a state of its parent that is no prop of it, as soon as the roster
is dirty (`GovernPage.jsx:1465`), the render throws and nothing catches it, and the
debounced save of `:418` dies with it (`RosterEdit`). Unsaved rosters from Keycloak or Suggest do the same. The
marks of manual picks are lost when a glossary is reopened or the tab reloaded. Ticked label keys
are baked with the next other change only. A suggested domain is merged into the
defaults of the render that asked.

Sources. Two landings on an empty grid both ask, and the second can replace the
rows of the first or drop what it folded; so can a glossary opened during the
question. "Only the first landing can ask" is not so when its source brought no rows
(`ConnectPage.jsx:945`). The seed gate reads its mark from the connection that
was posted (`api.py:1530`). The selection of the Schema page keeps the configuration it read although the
panel beside it saved another. Save has no busy guard, and a deleted connection
comes back when it is saved. A bulk load's running flag is lost when the page is left, so a second
can be started.

Elsewhere. Any error reading the audit file counts as an empty history
(`audit.py:33`); job events beyond the cap are dropped while pollers count on their
index (`api.py:5083`); a bulk-load job may answer after its wait has timed out
(`bulkload.py:615`); a call is repeated after a token expired (`apply.py:142`); the
desktop's port may be taken between test and start (`server.rs:125`).

## 5. The proofs

Proofs are about every value of the constants; the bounds of the modules that
have them stay, as arbitrary numbers.

`DictionaryProofs` proves, for any vocabulary, seed, rows and set of operations that
satisfy the assumptions named in `Dictionary`:

- `DocumentsStaySafe`: the inductive invariant. A property of the document served
  cannot be inductive by itself, because the next document comes from the file, the page
  or the snapshot. So the invariant says of all four copies what is needed of any: it is typed, the core is
  generic and not under a tombstone, a tag under a tombstone is neither in the allow-list
  nor in use, a term under one is absent or waits, and governs only if it is the baseline's. One lemma per operation shows
  that it maps such documents to such documents.
- `TypeCorrect`, `CoreAlwaysServed`, `RetiredTagsAreGone`, `RetiredTermsStayUnapproved` follow;
  the last says also that only a term of the baseline can govern under its tombstone,
  which takes that a proposal of any other name is labelled as a company's for good.
- `ReseedKeepsTheApproved` is an action property and follows from the definition of `Reset` under the invariant.
- `SavesCloseTheVocabulary`: what `_guardrail` cuts from a payload is exactly what would
  leave a term or a rule with a tag that is not in the list, and the remap and
  load-time merge that follow keep the result closed.

`DictionaryLifeProofs` proves what becomes of decisions over time. Unlike the theorems
above, these are not true of every instance: each names, as its
hypotheses, what it leaves out, and each hypothesis is there because the code breaks the
property without it.

| Hypothesis | Without it |
|---|---|
| `WritesSucceed`: no failed write | `_DICT` has a decision the file has not; a restart takes it back |
| `FileIsReadable` | an unreadable file is replaced by a fresh seed |
| `NoReplace`, `NoSave`: no restore, wipe, save of the page (`RetirementsLast` needs neither: it is about the other steps, after such ones too) | the document is another one on purpose; after a save has erased the tombstones a reseed approves pack terms that were waiting |
| `SaveOrRefresh`: no instance has both saves and corrections | a correction withdraws a proposal of seeded vocabulary, and after a save has erased its tombstone the next load brings it back approved |
| `NoBaselineRows`: no row is named as a term of the baseline | a retired baseline term that a row proposes again is labelled generic, thus governs, after a restart |
| `SeedsClear`: seeded terms have distinct names, and no reseed puts seed aliases back | the seed itself, or an alias the steward gave to another term, gives a name two owners |
| `CountedRows`: no Record rows and no corrections | a Record row counts under a name that is no term; a rename leaves the old key |

The argument has three parts.

- `DocumentsStaySettled` is the inductive invariant: every document, served, in the file or in the
  snapshot, is one that `_merge_seed` leaves alone (what it lacks of the
  seed is under a tombstone, what it has carries the seed's layer); proposals share
  their name with no other entry; and while writes succeed the served document
  is the file's, but for terms the merge has relabelled. Without the first part
  a restart would be a step of its own; without the second a correction, which looks for
  entries regardless of case, could drop a governed one. `DecisionsAreOnDisk` follows.
- `DictionaryImplementsVocabularyLife` maps a document to the lives of its names and shows, for each
  operation, that the map changes at one name, by a step of its life, or not at all. The
  lives of a document are those of its merge, so loading is a stutter.
  `StewardsAloneGovern` and `GovernedStays` rest on the same lemmas.
- `RetirementsLast`: while writes succeed and the file can be read, served document and file
  have the same tombstones, whatever was put in their place before (`SameTombs`), so that a restart
  lifts none; each other operation is looked at once.
- `NamesResolve` and `UsageCounts`: for every document, no two entries claim one name, and every
  key of a usage set is the name of an entry. These do not need the
  file to be the served document, so faults, restores and wipes are included.

`DictionaryRaceProofs` proves, for any sets of requests and any number of crashes:

- `RaceTypes`;
- `MemoryAndFileAgree`: strengthened by who holds the lock and what it owes. While a
  request is between its change and its save, memory is ahead of the file and only
  that request may run; while one is between its write to the file and dropping
  the cache, nothing is claimed;
- `AnsweredDecisionsAreDurable`: as long as nothing but deciders has acted, the object a
  decider holds is the one `_DICT` points to, marks are only added, and an
  answered mark is in the file; once something else has acted, it stays so.

`ApplyProofs` proves, for any names, features and bounds:

- `LinksOfOnePull`: `OneOrigin` is strengthened by the same statement about the links
  that every request under way carries, since a resolve puts back what it was sent;
- `EveryWriteWasPlanned`: a count of writes is below a count of plans only as long as
  each showing that offers Write has a plan of its own; the invariant relates
  the plan of the view, that of the cache, and both counts;
- `AnOldExportIsCalledStale`: the revision a showing remembers is never ahead of
  the grid's, and when it is the grid's, the export is of that grid or was late.

`GovernProofs` proves, for any categories, people, ratings and bounds:

- `StewardshipIsInSight`: `IsBaked` says more: on a page that has its roster, whether it
  shows its cards or not, the glossary carries exactly what is baked from cards,
  orphans, rows and roster of now, and no live category is an orphan; and only a page
  that is shown has a roster. What is baked of a card is as the property says by `Told`;
- `DecisionsStand`: a decision is lost when a page bakes cards that do not say what the
  glossary carries. So the invariant (`StayInv`) relates three copies: the cards and orphans in the
  session cache agree with the glossary wherever they say anything (`Agrees`: the same pick, the
  rating unless the card leaves it open, no stakeholder the card lacks), those of a shown page
  are the cached ones, and on a page with its roster every live category has a card and
  no other has one. An answer under way is held to belong to the showing that asked
  (`CallsInv`); without it an answer could arrive at a page that has no roster yet.

`WorkspaceProofs` proves, for any names, features and bounds:

- `VersionsNeverChange`: handlers write whole copies of a store that others have
  written since, so the statement about the store is not inductive. The invariant is
  about all copies, the store and what each handler has read: where one has a version, every
  other has the same or nothing; the id a handler has drawn for a version is in no
  copy and nobody else's; an id a save may still go to (the window's, that of a save under
  way, that of an answer that opens a live entry) is no version in any copy;
- `WipedStaysEmpty`: while the reset refuses saves and nobody was overtaken, only
  deletions have read the store, and they read nothing;
- `WorkspaceTypes`: besides the types, that ids and suffixes suffice. The ids issued
  and the calls that wait for one are together at most `MaxIds`, and of the `MaxIds + 1`
  suffixes a colliding name may get, one is free, because every name taken is that of
  another id (the pigeonhole behind the `while` of `save_glossary`);
- `SavedStaysStored` and `NamesStayDistinct`, from one invariant (`SettledInv`), which
  holds until calls cross: at most one call is under way, what a handler has read is
  the store, a save under way carries the rows and the name the window shows, and the
  window's name belongs to its id, also after the entry was deleted (without that, a
  save that brings a deleted entry back could be given another name than the window
  shows, and the invariant would not be inductive);
- `LoadedStaysArchived` (an action property), from a further invariant (`ArchiveInv`),
  which holds until calls cross or fail: once the window has its version, the rows
  it loaded are in a version or were deleted; until then it shows what it loaded;
  while a version is under way the window has none, so that the oldest versions the
  handler drops are not the one it relies on; and rows that are not edited since
  they were loaded are in the store, were deleted, or are a copy of a version.

`ReviewProofs` proves, for any tables, categories, grids, scans, names, chunk size and bounds
(`RowsAssumption` and `ReviewAssumption` give their types, and that no name is empty):

- `ReviewTypes`: `TypeOK` is inductive as it stands, because it says more than types: a row
  with pills has a field with one, a decided cluster has members, a run works on
  rows of the grid it was started on, a page polls only a job it holds;
- `PillsKeepTheirRow`: that pills stand on their rows is not inductive, since pills come from
  calls sent earlier. `LocksInv` adds that what a running call was sent lies, row by
  row, in the grid of now (`RunPlaced` for the loop, `JobPlaced` for the job), and that a
  running loop has its lock on. A landing scan keeps this, although it is not
  locked out, because folding only adds columns to a row and appends rows at the
  end. The repair could break it: it waits for the pills, the lock and the job, but at
  mount, when it does not know of the job yet, a fold counts as an exchange. Once a grid
  was exchanged under a call, `crossed` stays set and nothing is claimed;
- `NoColumnIsLost` (an action property): each step that the property is about either
  leaves the columns of every row alone (edits and pills), or replaces members by rows that carry their
  columns (decisions), or folds (landings, repair);
- `SplitNamesAreApart`: the names a split has given and those of the rows outside the cluster are
  a finite set, of more counters than it has members one is free (the pigeonhole behind
  the `while` of `splitMembersUnique`), and each name given joins the set;
- `DecisionsAreReversible`: order is not kept, so rows are counted. In a grid whose members are
  replaced, the rows of any kind are those of the replacement and the strangers
  of that kind; after the decision the members are the stamped rows and nobody
  else, so that a reversal puts the snapshot where they were, and the counts are the old ones.

The lemmas about `ReviewRows` are by induction on the rows done. The library's induction
theorems cannot be cited, since they take a predicate; `Stepwise` states induction for
a set of numbers, from well-foundedness, and `StepsDefine` that a function defined step
by step exists and satisfies its equation.

`SourcesProofs` proves, for any connections, configurations and scripts:

- `SeedsWhereTyped`: a request between the typed name and its write carries the
  configuration that was typed, and no save reaches into it;
- `HarvestsGather`: a harvest that is alone has, at each of its steps, the rows
  it found and those of its finished sources in the grid, and no other landing is
  under way; while the lists are still asked for, the grid is empty.

Only model-checked: liveness (`EveryRequestAnswers`, `DirtyIsSaved`, `RunEnds`, `CatSettles`,
`Settles`, `HarvestEnds`), since fairness and ENABLED are beyond the prover. Every invariant
and action property of the passing runs, and the refinement, is proved, under the
hypotheses named above.

## 6. Not modelled

Everything listed `not_modelled` in `PROJECT.json`: what the plan has left, and
what keeps no state (the suggester and its helpers, policies, packs, language
models, registry rendering, views, remote administration scripts).
Readers of the dictionary that run without the lock (`summary`, the compiled
rules) are left out: they change nothing, and what can go wrong is an exception.

Of the pages that are modelled: on Review the duplicate advisor (its
recommendations change nothing until a decision is taken), the label preview,
filters, the frozen order while typing, seed requests of the Policy Generator; on Govern the
scores behind an assignment, spreading stewardship over rows, the vocabulary
proposer; on Apply what PDC does with a request; on Connect, Schema and Files
the connection test, the discovery profiles, the bulk-load card, the PDC listing, the
drawing of the graph and the browsing of files; on the Dictionary page the AI advice.
