------------------------ MODULE DictionaryRaceProofs ------------------------
(* Theorems about DictionaryRace, for any number of requests of each kind  *)
(* and any number of crashes.                                              *)
EXTENDS DictionaryRace, TLAPS

LEMMA TypeStep == ASSUME TypeOK, [Next]_vars PROVE TypeOK'
<1> USE RequestAssumption DEF TypeOK, Obj, Marks, File, Labels, Goto, Loads, Whole, Torn, Missing
<1>0. \A c \in Marks : Whole(c) \in File
  OBVIOUS
<1>1. ASSUME NEW r \in Request, Step(r) PROVE TypeOK'
  <2>1. CASE LoadHit(r)       BY <2>1 DEF LoadHit
  <2>2. CASE LoadRead(r)      BY <2>2 DEF LoadRead
  <2>3. CASE LoadCache(r)     BY <2>3 DEF LoadCache
  <2>4. CASE LoadSeed(r)      BY <2>4 DEF LoadSeed
  <2>5. CASE Decide(r)        BY <2>5 DEF Decide
  <2>6. CASE Reset(r)         BY <2>6 DEF Reset, Install, Current
  <2>7. CASE Replace(r)       BY <2>7 DEF Replace, Install
  <2>8. CASE Save(r)          BY <2>8 DEF Save
  <2>9. CASE RestoreOpen(r)   BY <2>9 DEF RestoreOpen
  <2>10. CASE RestoreWrite(r)
    <3>1. file' \in File
      BY <1>0, <2>10 DEF RestoreWrite
    <3>2. QED  BY <2>10, <3>1 DEF RestoreWrite
  <2>11. CASE Wipe(r)         BY <2>11 DEF Wipe
  <2>12. CASE DropCache(r)    BY <2>12 DEF DropCache
  <2>13. QED
    BY <1>1, <2>1, <2>2, <2>3, <2>4, <2>5, <2>6, <2>7, <2>8, <2>9, <2>10,
       <2>11, <2>12 DEF Step
<1>2. CASE Crash               BY <1>2 DEF Crash
<1>3. CASE UNCHANGED vars      BY <1>3 DEF vars
<1>4. QED  BY <1>1, <1>2, <1>3 DEF Next, Idle

LEMMA TypeInit == Init => TypeOK
BY RequestAssumption DEF Init, TypeOK, Obj, Marks, File, Labels, Missing

(* The requests, the objects and the file keep their shape.                *)
THEOREM RaceTypes == Spec => []TypeOK
BY TypeInit, TypeStep, PTL DEF Spec

-----------------------------------------------------------------------------
(* The strengthening of MemoryAgreesWithFile.  Only the request inside the *)
(* lock is caching or about to save; while one is caching there is no      *)
(* cached document, and what it read is still what the file holds, unless  *)
(* a restore or a wipe has yet to drop the cache.                          *)
FileSettled == \A r \in Restorer \cup Wiper : pc[r] \notin {"write", "drop"}

LockHeld == \A r \in Request : (lock = r) <=> (pc[r] \in {"caching", "save"})

ReadIsFresh ==
  \A r \in Request : pc[r] = "caching" =>
     cache = None /\ (FileSettled => file = Whole(seen[r]))

Agreement == /\ TypeOK /\ LockHeld /\ ReadIsFresh /\ MemoryAgreesWithFile

LEMMA AgreementInit == Init => Agreement
BY TypeInit, RequestAssumption
   DEF Init, Agreement, LockHeld, ReadIsFresh, MemoryAgreesWithFile

LEMMA LockStep == ASSUME TypeOK, LockHeld, [Next]_vars PROVE LockHeld'
<1> USE RequestAssumption DEF TypeOK, LockHeld, Goto
<1>1. ASSUME NEW r \in Request, Step(r) PROVE LockHeld'
  <2>1. CASE LoadHit(r)       BY <2>1 DEF LoadHit
  <2>2. CASE LoadRead(r)      BY <2>2 DEF LoadRead
  <2>3. CASE LoadCache(r)     BY <2>3 DEF LoadCache
  <2>4. CASE LoadSeed(r)      BY <2>4 DEF LoadSeed
  <2>5. CASE Decide(r)        BY <2>5 DEF Decide
  <2>6. CASE Reset(r)         BY <2>6 DEF Reset, Install
  <2>7. CASE Replace(r)       BY <2>7 DEF Replace, Install
  <2>8. CASE Save(r)          BY <2>8 DEF Save
  <2>9. CASE RestoreOpen(r)   BY <2>9 DEF RestoreOpen
  <2>10. CASE RestoreWrite(r) BY <2>10 DEF RestoreWrite
  <2>11. CASE Wipe(r)         BY <2>11 DEF Wipe
  <2>12. CASE DropCache(r)    BY <2>12 DEF DropCache
  <2>13. QED
    BY <1>1, <2>1, <2>2, <2>3, <2>4, <2>5, <2>6, <2>7, <2>8, <2>9, <2>10,
       <2>11, <2>12 DEF Step
<1>2. CASE Crash               BY <1>2 DEF Crash
<1>3. CASE UNCHANGED vars      BY <1>3 DEF vars
<1>4. QED  BY <1>1, <1>2, <1>3 DEF Next, Idle

LEMMA AgreementStep ==
  ASSUME Agreement, [Next]_vars
  PROVE  ReadIsFresh' /\ MemoryAgreesWithFile'
<1> USE RequestAssumption
    DEF Agreement, TypeOK, LockHeld, ReadIsFresh, MemoryAgreesWithFile,
        FileSettled, Quiet, Goto
<1>1. ASSUME NEW r \in Request, Step(r) PROVE ReadIsFresh' /\ MemoryAgreesWithFile'
  <2>1. CASE LoadHit(r)       BY <2>1 DEF LoadHit
  <2>2. CASE LoadRead(r)      BY <2>2 DEF LoadRead, Whole, Torn, Missing, File
  <2>3. CASE LoadCache(r)     BY <2>3 DEF LoadCache, Obj
  <2>4. CASE LoadSeed(r)      BY <2>4 DEF LoadSeed, Obj
  <2>5. CASE Decide(r)        BY <2>5 DEF Decide
  <2>6. CASE Reset(r)         BY <2>6 DEF Reset, Install
  <2>7. CASE Replace(r)       BY <2>7 DEF Replace, Install
  <2>8. CASE Save(r)          BY <2>8 DEF Save
  <2>9. CASE RestoreOpen(r)   BY <2>9 DEF RestoreOpen
  <2>10. CASE RestoreWrite(r) BY <2>10 DEF RestoreWrite
  <2>11. CASE Wipe(r)         BY <2>11 DEF Wipe
  <2>12. CASE DropCache(r)    BY <2>12 DEF DropCache
  <2>13. QED
    BY <1>1, <2>1, <2>2, <2>3, <2>4, <2>5, <2>6, <2>7, <2>8, <2>9, <2>10,
       <2>11, <2>12 DEF Step
<1>2. CASE Crash               BY <1>2 DEF Crash
<1>3. CASE UNCHANGED vars      BY <1>3 DEF vars
<1>4. QED  BY <1>1, <1>2, <1>3 DEF Next, Idle

(* Between requests the served document is the file's, whatever mix of     *)
(* reviews, scans, saves, reseeds, restores, wipes and crashes ran.        *)
THEOREM MemoryAndFileAgree == Spec => []MemoryAgreesWithFile
<1>1. Agreement /\ [Next]_vars => Agreement'
  BY TypeStep, LockStep, AgreementStep DEF Agreement
<1>2. Agreement => MemoryAgreesWithFile
  BY DEF Agreement
<1>3. QED  BY <1>1, <1>2, AgreementInit, PTL DEF Spec

-----------------------------------------------------------------------------
(* The strengthening of DecisionsAreDurable.  While nobody has put another *)
(* document in place, the object a request loaded is the one that is       *)
(* served and saved, and the file holds no decision that object lacks.     *)
LoadedIsServed ==
  \A r \in Request : pc[r] \in {"ready", "save"} => cache # None /\ local[r] = cache

SavesDecisions ==
  /\ LoadedIsServed
  /\ \A r \in Decider : pc[r] \notin {"write", "drop"}
  /\ file.state # "whole" => file.holds = {}
  /\ cache # None => file.holds \subseteq heap[cache]
  /\ \A r \in Request : pc[r] = "caching" => cache = None /\ seen[r] = file.holds
  /\ \A r \in Request : pc[r] = "save" => r \in heap[cache]
  /\ AnsweredIsDurable

Durability == TypeOK /\ LockHeld /\ (Undisturbed => SavesDecisions)

LEMMA DurabilityInit == Init => Durability
<1> SUFFICES ASSUME Init PROVE Durability
  OBVIOUS
<1>1. TypeOK /\ LockHeld
  BY TypeInit, AgreementInit DEF Agreement
<1>2. /\ \A r \in Request : pc[r] = "start"
      /\ file.holds = {} /\ cache = None /\ Decider \subseteq Request
  BY DEF Init, Missing, Request
<1>3. QED
  BY <1>1, <1>2 DEF Durability, SavesDecisions, LoadedIsServed, AnsweredIsDurable

(* Nobody takes back a document once put in place.                         *)
LEMMA DisturbedStaysSo ==
  ASSUME TypeOK, [Next]_vars, Undisturbed' PROVE Undisturbed
<1> USE DEF TypeOK, Undisturbed, Goto
<1>1. ASSUME NEW r \in Request, Step(r) PROVE Undisturbed
  <2>1. CASE LoadHit(r) \/ LoadRead(r) \/ LoadCache(r) \/ LoadSeed(r)
    BY <2>1 DEF LoadHit, LoadRead, LoadCache, LoadSeed
  <2>2. CASE Decide(r) \/ Reset(r) \/ Replace(r) \/ Save(r)
    BY <2>2 DEF Decide, Reset, Replace, Install, Save
  <2>3. CASE RestoreOpen(r) \/ RestoreWrite(r) \/ Wipe(r) \/ DropCache(r)
    BY <2>3 DEF RestoreOpen, RestoreWrite, Wipe, DropCache
  <2>4. QED  BY <1>1, <2>1, <2>2, <2>3 DEF Step
<1>2. CASE Crash               BY <1>2 DEF Crash
<1>3. CASE UNCHANGED vars      BY <1>3 DEF vars
<1>4. QED  BY <1>1, <1>2, <1>3 DEF Next, Idle

LEMMA DurabilityStep ==
  ASSUME Durability, [Next]_vars
  PROVE  Durability'
<1>1. TypeOK' /\ LockHeld'
  BY TypeStep, LockStep DEF Durability
<1> SUFFICES ASSUME Undisturbed' PROVE SavesDecisions'
  BY <1>1 DEF Durability
<1>2. Undisturbed /\ SavesDecisions
  BY DisturbedStaysSo DEF Durability
<1>3. \A q \in Request : q \in Decider \/ pc'[q] \in {"start", "caching", "ready"}
  BY DEF Undisturbed
<1>4. Decider \subseteq Request
  BY DEF Request
<1> USE RequestAssumption, <1>2, <1>3, <1>4
    DEF Durability, SavesDecisions, LockHeld, LoadedIsServed, AnsweredIsDurable,
        Goto, Whole
<1>5. ASSUME NEW r \in Request, Step(r) PROVE SavesDecisions'
  <2>1. CASE LoadHit(r)       BY <1>1, <2>1 DEF LoadHit, TypeOK
  <2>2. CASE LoadRead(r)      BY <1>1, <2>2 DEF LoadRead, TypeOK
  <2>3. CASE LoadCache(r)
    <3>1. /\ heap'[cache'] = seen[r] /\ cache' # None /\ local'[r] = cache'
          /\ UNCHANGED <<file, seen>> /\ pc[r] = "caching" /\ cache = None
          /\ pc' = [pc EXCEPT ![r] = "ready"]
      BY <2>3 DEF LoadCache, TypeOK, Obj
    <3>2. \A q \in Request : q # r => pc[q] \notin {"caching", "ready", "save"}
      BY <3>1
    <3>3. QED  BY <1>1, <3>1, <3>2 DEF TypeOK
  <2>4. CASE LoadSeed(r)
    <3>1. /\ cache' # None /\ local'[r] = cache' /\ file'.holds = {}
          /\ file'.state = "whole" /\ cache = None /\ lock = None
          /\ file.holds = {} /\ pc' = [pc EXCEPT ![r] = "ready"]
      BY <2>4 DEF LoadSeed, TypeOK, Obj
    <3>2. \A q \in Request : pc[q] \notin {"caching", "ready", "save"}
      BY <3>1
    <3>3. \A q \in Decider : pc[q] # "done"
      BY <3>1
    <3>4. QED  BY <1>1, <3>1, <3>2, <3>3 DEF TypeOK
  <2>5. CASE Decide(r)        BY <1>1, <2>5 DEF Decide, TypeOK, Obj
  <2>6. CASE Save(r)          BY <1>1, <2>6 DEF Save, TypeOK, Obj
  <2>7. CASE Reset(r) \/ Replace(r) \/ RestoreOpen(r) \/ Wipe(r)
    BY <2>7 DEF Reset, Replace, Install, RestoreOpen, Wipe, TypeOK
  <2>8. CASE RestoreWrite(r) \/ DropCache(r)
    BY <2>8 DEF RestoreWrite, DropCache, TypeOK, Undisturbed
  <2>9. QED
    BY <1>5, <2>1, <2>2, <2>3, <2>4, <2>5, <2>6, <2>7, <2>8 DEF Step
<1>6. CASE Crash               BY <1>1, <1>6 DEF Crash, TypeOK
<1>7. CASE UNCHANGED vars      BY <1>1, <1>7 DEF vars
<1>8. QED  BY <1>5, <1>6, <1>7 DEF Next, Idle

(* As long as only reviews, scans and refreshes change the document, an    *)
(* answered decision is in the file, for any number of requests and        *)
(* crashes.  The condition is needed: a reseed between a request's load    *)
(* and its change loses the decision.                                      *)
THEOREM AnsweredDecisionsAreDurable == Spec => []DecisionsAreDurable
<1>1. Durability /\ [Next]_vars => Durability'
  BY DurabilityStep
<1>2. Durability => DecisionsAreDurable
  BY DEF Durability, SavesDecisions, DecisionsAreDurable
<1>3. QED  BY <1>1, <1>2, DurabilityInit, PTL DEF Spec
=============================================================================
