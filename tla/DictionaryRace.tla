--------------------------- MODULE DictionaryRace ---------------------------
(***************************************************************************)
(* The requests of the dictionary as the threads that run them: what each  *)
(* of them does inside and outside the module-level _LOCK of               *)
(* glossary_generator/engine/tagdict.py.                                   *)
(*                                                                         *)
(* A document is an object on the heap; what matters of its content is     *)
(* which requests left their mark in it.  _DICT points to one object, the  *)
(* file holds the content of one, and a request keeps the object load()    *)
(* gave it, which may no longer be the one _DICT points to.                *)
(***************************************************************************)
EXTENDS Naturals

CONSTANTS
  Decider,     \* review(), accrete(), refresh_pending(): load, then change
  Reseeder,    \* reset(): a new document that keeps the approved entries
  Replacer,    \* the Dictionary page: load, view, later replace()
  Restorer,    \* /api/state-restore
  Wiper,       \* /api/factory-reset
  MaxCrashes,  \* how often the server process dies
  None

Request == Decider \cup Reseeder \cup Replacer \cup Restorer \cup Wiper

(* A request creates at most one document in load() and one of its own.    *)
Obj    == Request \X {"loaded", "built"}

ASSUME RequestAssumption ==
  /\ None \notin Request \cup Obj
  /\ MaxCrashes \in Nat
  /\ Decider \cap (Reseeder \cup Replacer \cup Restorer \cup Wiper) = {}
  /\ Reseeder \cap (Replacer \cup Restorer \cup Wiper) = {}
  /\ Replacer \cap (Restorer \cup Wiper) = {}
  /\ Restorer \cap Wiper = {}

Marks  == SUBSET Request
Labels == {"start", "caching", "ready", "save", "write", "drop", "done", "killed"}

VARIABLES
  cache,    \* _DICT: the object served, None until load() has run
  heap,     \* the content of every document object
  file,     \* DICT_FILE
  lock,     \* the request that holds _LOCK
  pc,       \* where each request is
  local,    \* the object load() returned to a request
  seen,     \* what a request read: the file in load(), the page's copy
  crashes

vars == <<cache, heap, file, lock, pc, local, seen, crashes>>

Missing  == [state |-> "missing", by |-> None, holds |-> {}]
Torn(r)  == [state |-> "torn", by |-> r, holds |-> {}]
Whole(c) == [state |-> "whole", by |-> None, holds |-> c]

File == {Missing} \cup {Torn(r) : r \in Restorer} \cup {Whole(c) : c \in Marks}

Goto(r, label) == pc' = [pc EXCEPT ![r] = label]

Loads(r) == r \in Decider \cup Replacer

-----------------------------------------------------------------------------
(* load(): under the lock, the cached object or the file.                  *)

LoadHit(r) ==
  /\ Loads(r) /\ pc[r] = "start" /\ lock = None
  /\ cache # None
  /\ local' = [local EXCEPT ![r] = cache]
  /\ seen' = [seen EXCEPT ![r] = heap[cache]]
  /\ Goto(r, "ready")
  /\ UNCHANGED <<cache, heap, file, lock, crashes>>

LoadReadUnlocked(r) ==  \* mutant: the file is read before taking the lock
  /\ Loads(r) /\ pc[r] = "start"
  /\ cache = None /\ file.state = "whole"
  /\ seen' = [seen EXCEPT ![r] = file.holds]
  /\ Goto(r, "caching")
  /\ UNCHANGED <<cache, heap, file, lock, local, crashes>>

LoadRead(r) ==
  /\ Loads(r) /\ pc[r] = "start" /\ lock = None
  /\ cache = None /\ file.state = "whole"
  /\ lock' = r
  /\ seen' = [seen EXCEPT ![r] = file.holds]
  /\ Goto(r, "caching")
  /\ UNCHANGED <<cache, heap, file, local, crashes>>

LoadCache(r) ==
  /\ pc[r] = "caching"
  /\ heap' = [heap EXCEPT ![<<r, "loaded">>] = seen[r]]
  /\ cache' = <<r, "loaded">>
  /\ local' = [local EXCEPT ![r] = <<r, "loaded">>]
  /\ lock' = None
  /\ Goto(r, "ready")
  /\ UNCHANGED <<file, seen, crashes>>

LoadSeedInPlace(r) ==  \* mutant: the seed is written in place, in part
  /\ Loads(r) /\ pc[r] = "start" /\ lock = None
  /\ cache = None /\ file.state # "whole"
  /\ heap' = [heap EXCEPT ![<<r, "loaded">>] = {}]
  /\ cache' = <<r, "loaded">>
  /\ local' = [local EXCEPT ![r] = <<r, "loaded">>]
  /\ seen' = [seen EXCEPT ![r] = {}]
  /\ file' = Torn(r)
  /\ Goto(r, "ready")
  /\ UNCHANGED <<lock, crashes>>

(* A file that is missing or does not parse: seed, and save the seed.      *)
LoadSeed(r) ==
  /\ Loads(r) /\ pc[r] = "start" /\ lock = None
  /\ cache = None /\ file.state # "whole"
  /\ heap' = [heap EXCEPT ![<<r, "loaded">>] = {}]
  /\ cache' = <<r, "loaded">>
  /\ local' = [local EXCEPT ![r] = <<r, "loaded">>]
  /\ seen' = [seen EXCEPT ![r] = {}]
  /\ file' = Whole({})
  /\ Goto(r, "ready")
  /\ UNCHANGED <<lock, crashes>>

-----------------------------------------------------------------------------
(* The bodies under the lock, up to _save_locked.                          *)

(* review(), accrete(), refresh_pending() change the object they loaded.   *)
Decide(r) ==
  /\ r \in Decider /\ pc[r] = "ready" /\ lock = None
  /\ lock' = r
  /\ heap' = [heap EXCEPT ![local[r]] = @ \cup {r}]
  /\ Goto(r, "save")
  /\ UNCHANGED <<cache, file, local, seen, crashes>>

(* What reset() and replace() start from.                                  *)
Current == IF cache # None THEN heap[cache] ELSE file.holds

Install(r, content) ==
  /\ lock = None
  /\ lock' = r
  /\ heap' = [heap EXCEPT ![<<r, "built">>] = content]
  /\ cache' = <<r, "built">>
  /\ Goto(r, "save")
  /\ UNCHANGED <<file, local, seen, crashes>>

Reset(r) == r \in Reseeder /\ pc[r] = "start" /\ Install(r, Current)

(* The payload is what the page showed, with the steward's edit.           *)
Replace(r) == r \in Replacer /\ pc[r] = "ready" /\ Install(r, seen[r] \cup {r})

SaveLeaksLock(r) ==  \* mutant: the early return keeps the lock
  /\ pc[r] = "save"
  /\ file' = IF cache = None THEN file ELSE Whole(heap[cache])
  /\ lock' = IF cache = None THEN lock ELSE None
  /\ Goto(r, "done")
  /\ UNCHANGED <<cache, heap, local, seen, crashes>>

(* _save_locked(): the document _DICT points to, if any, replaces the file.*)
Save(r) ==
  /\ pc[r] = "save"
  /\ file' = IF cache = None THEN file ELSE Whole(heap[cache])
  /\ lock' = None
  /\ Goto(r, "done")
  /\ UNCHANGED <<cache, heap, local, seen, crashes>>

-----------------------------------------------------------------------------
(* Restore and factory reset write the file without the lock and take it   *)
(* only to drop the cached document.                                       *)

RestoreOpen(r) ==
  /\ r \in Restorer /\ pc[r] = "start"
  /\ file' = Torn(r)
  /\ Goto(r, "write")
  /\ UNCHANGED <<cache, heap, lock, local, seen, crashes>>

(* The bytes go to the file that was opened: nothing reaches the path when *)
(* it has been replaced or deleted meanwhile.                              *)
RestoreWrite(r) ==
  /\ r \in Restorer /\ pc[r] = "write"
  /\ file' = IF file = Torn(r) THEN Whole({r}) ELSE file
  /\ Goto(r, "drop")
  /\ UNCHANGED <<cache, heap, lock, local, seen, crashes>>

Wipe(r) ==
  /\ r \in Wiper /\ pc[r] = "start"
  /\ file' = Missing
  /\ Goto(r, "drop")
  /\ UNCHANGED <<cache, heap, lock, local, seen, crashes>>

DropCacheUnlocked(r) ==  \* mutant: the cache is dropped outside the lock
  /\ pc[r] = "drop"
  /\ cache' = None
  /\ Goto(r, "done")
  /\ UNCHANGED <<heap, file, lock, local, seen, crashes>>

DropCache(r) ==
  /\ pc[r] = "drop" /\ lock = None
  /\ cache' = None
  /\ Goto(r, "done")
  /\ UNCHANGED <<heap, file, lock, local, seen, crashes>>

-----------------------------------------------------------------------------
(* The process dies: memory, locks and unanswered requests are gone.       *)
Crash ==
  /\ crashes < MaxCrashes
  /\ crashes' = crashes + 1
  /\ cache' = None /\ lock' = None
  /\ pc' = [r \in Request |-> IF pc[r] \in {"start", "done"} THEN pc[r] ELSE "killed"]
  /\ UNCHANGED <<heap, file, local, seen>>

Init ==
  /\ cache = None /\ lock = None /\ file = Missing
  /\ heap = [o \in Obj |-> {}]
  /\ pc = [r \in Request |-> "start"]
  /\ local = [r \in Request |-> None]
  /\ seen = [r \in Request |-> {}]
  /\ crashes = 0

Step(r) ==
  \/ LoadHit(r) \/ LoadRead(r) \/ LoadCache(r) \/ LoadSeed(r)
  \/ Decide(r) \/ Reset(r) \/ Replace(r) \/ Save(r)
  \/ RestoreOpen(r) \/ RestoreWrite(r) \/ Wipe(r) \/ DropCache(r)

Answered == \A r \in Request : pc[r] \in {"done", "killed"}

(* Nothing more to do: the server waits for other requests.                *)
Idle == Answered /\ UNCHANGED vars

Next == (\E r \in Request : Step(r)) \/ Crash \/ Idle

(* Every request runs in a thread of the server's pool and every body      *)
(* under the lock ends: a request that can go on does.                     *)
Fairness == \A r \in Request : WF_vars(Step(r))

Spec == Init /\ [][Next]_vars /\ Fairness

-----------------------------------------------------------------------------
TypeOK ==
  /\ cache \in Obj \cup {None} /\ lock \in Request \cup {None}
  /\ heap \in [Obj -> Marks] /\ file \in File
  /\ pc \in [Request -> Labels]
  /\ local \in [Request -> Obj \cup {None}]
  /\ seen \in [Request -> Marks]
  /\ crashes \in 0 .. MaxCrashes

(* A decision that was answered is in the file: neither a crash nor any    *)
(* other request loses it (the comments on durability in review).          *)
AnsweredIsDurable == \A r \in Decider : pc[r] = "done" => r \in file.holds

(* No request that puts another document in place has reached its body:    *)
(* reviews, scans, refreshes and pages that load are all that happened.    *)
Undisturbed == \A q \in Request \ Decider : pc[q] \in {"start", "caching", "ready"}

(* As long as that is so, an answered decision stays in the file through   *)
(* overlapping loads and decisions and through crashes.                    *)
DecisionsAreDurable == Undisturbed => AnsweredIsDurable

(* The lock is free and no restore or wipe is between its write to the     *)
(* file and the moment it drops the cached document.                       *)
Quiet == lock = None /\ \A r \in Restorer \cup Wiper : pc[r] \notin {"write", "drop"}

(* Whenever nothing is under way the served document and the file agree,   *)
(* so that a restart changes nothing (_save_locked saves _DICT under the   *)
(* lock; restore and wipe drop the cache under it).                        *)
MemoryAgreesWithFile == Quiet /\ cache # None => file = Whole(heap[cache])

(* Every request is answered unless the process dies under it: no path     *)
(* leaves the lock held.                                                   *)
EveryRequestAnswers == <>Answered
=============================================================================
