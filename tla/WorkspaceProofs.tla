--------------------------- MODULE WorkspaceProofs ----------------------------
(***************************************************************************)
(* For any bounds, names and features: whatever calls overtake one another,*)
(* every state is typed, a version in the store never changes, and a wiped *)
(* store stays empty; and as long as the window's calls do not cross, what *)
(* it shows as saved is stored, live names are distinct, and what it       *)
(* loaded is archived before it is overwritten.                            *)
(***************************************************************************)
EXTENDS Workspace, TLAPS, FiniteSetTheorems, WellFoundedInduction

CallFields   == {"kind", "stage", "id", "name", "rows", "read", "own", "copy"}
WindowFields == {"id", "name", "rows", "dirty", "saving", "snapshotDone", "snapshotPending",
                 "saveTimer", "wiped"}
SeenFields   == {"crossed", "overtaken", "opened", "removed"}

CallShape(c) ==
  /\ CallFields \subseteq DOMAIN c
  /\ c.kind = "open" => c.id \in Id
  /\ c.stage = "read" => c.kind \in {"save", "snapshot", "delete"}

Shapes ==
  /\ issued \in Nat /\ DOMAIN calls = Slot /\ WindowFields \subseteq DOMAIN ws
  /\ SeenFields \subseteq DOMAIN seen
  /\ \A s \in Slot : CallShape(calls[s])

(* The store and what the handlers have read of it; the ids they have      *)
(* drawn for versions; and the ids that saves may go to.                   *)
Reading  == {s \in Slot : calls[s].stage = "read"}
Copies   == {store} \cup {calls[s].read : s \in Reading}
Drawn    == {<<s, calls[s].rows>> : s \in {t \in Reading : calls[t].kind = "snapshot"}}
MaySave(c) == c.kind = "save" \/ (c.kind = "open" /\ c.stage = "done" /\ ~c.copy)
Targets  == {ws.id} \cup {calls[s].id : s \in {t \in Slot : MaySave(calls[t])}}

(* Where one copy has a version, another has the same or nothing; an id    *)
(* drawn for a version is nowhere yet; a save goes to no version's id.     *)
SameVersions(g, h) == \A i \in Versions(g) \cap Present(h) : h[i] = g[i]

Apart(copies, drawn, targets, n) ==
  /\ \A g \in copies : DOMAIN g = Id /\ \A i \in Present(g) : i <= n
  /\ \A g, h \in copies : SameVersions(g, h)
  /\ \A d \in drawn : /\ d[2] \in Nat \ {0} /\ d[2] <= n
                      /\ \A g \in copies : d[2] \notin Present(g)
                      /\ \A e \in drawn : d[2] = e[2] => d = e
  /\ \A i \in targets : /\ i \in Nat /\ i <= n
                        /\ \A g \in copies : i \notin Versions(g)
                        /\ \A d \in drawn : d[2] # i

VersionInv == Shapes /\ Apart(Copies, Drawn, Targets, issued)

(* After a wipe that overtook nobody, only deletions read, and nothing.    *)
NoRows(g) == \A i \in Id : g[i].rows = 0

WipeInv ==
  refusing /\ ~seen.overtaken =>
    NoRows(store) /\ \A s \in Reading : calls[s].kind = "delete" /\ NoRows(calls[s].read)

-----------------------------------------------------------------------------
(* Fewer copies, fewer drawn ids, fewer targets stay apart.                *)
LEMMA ApartFewer ==
  ASSUME NEW C, NEW D, NEW T, NEW n \in Nat, Apart(C, D, T, n),
         NEW C2, C2 \subseteq C, NEW D2, D2 \subseteq D, NEW T2, T2 \subseteq T \cup {None}
  PROVE  Apart(C2, D2, T2, n)
<1>1. ASSUME NEW i \in T2
      PROVE  /\ i \in Nat /\ i <= n
             /\ \A g \in C2 : i \notin Versions(g)
             /\ \A d \in D2 : d[2] # i
  <2>1. CASE i = None
    BY <2>1 DEF None, Versions, Present, Id, Apart
  <2>2. CASE i \in T
    BY <2>2 DEF Apart
  <2>3. QED  BY <2>1, <2>2
<1>2. QED  BY <1>1 DEF Apart

(* A call that reads nothing new, draws nothing and targets nothing new.   *)
FromOld(c, old) ==
  /\ CallShape(c)
  /\ c.stage = "read" => old.stage = "read" /\ c.read = old.read /\ c.kind = old.kind /\ c.rows = old.rows
  /\ MaySave(c) => c.id \in Targets \cup {None}

QuietCalls == DOMAIN calls' = Slot /\ \A s \in Slot : FromOld(calls'[s], calls[s])

LEMMA QuietSets ==
  ASSUME QuietCalls
  PROVE  /\ {calls'[s].read : s \in Reading'} \subseteq {calls[s].read : s \in Reading}
         /\ Drawn' \subseteq Drawn
         /\ {calls'[s].id : s \in {t \in Slot : MaySave(calls'[t])}} \subseteq Targets \cup {None}
<1>1. \A s \in Reading' : s \in Reading /\ calls'[s].read = calls[s].read
                          /\ calls'[s].kind = calls[s].kind /\ calls'[s].rows = calls[s].rows
  BY DEF QuietCalls, FromOld, Reading
<1>2. \A s \in Slot : MaySave(calls'[s]) => calls'[s].id \in Targets \cup {None}
  BY DEF QuietCalls, FromOld
<1>3. QED  BY <1>1, <1>2 DEF Drawn

(* What the window and the answers do.                                     *)
LEMMA QuietStep ==
  ASSUME VersionInv, QuietCalls, store' = store, issued' = issued,
         WindowFields \subseteq DOMAIN ws', ws'.id \in Targets \cup {None},
         SeenFields \subseteq DOMAIN seen'
  PROVE  VersionInv'
<1>1. Copies' \subseteq Copies /\ Drawn' \subseteq Drawn
  BY QuietSets DEF Copies
<1>2. Targets' \subseteq Targets \cup {None}
  BY QuietSets DEF Targets
<1>3. Shapes'
  BY DEF VersionInv, Shapes, QuietCalls, FromOld
<1>4. QED  BY <1>1, <1>2, <1>3, ApartFewer DEF VersionInv, Shapes

-----------------------------------------------------------------------------
(* Calls the window sends.                                                 *)

LEMMA WsTarget == ws.id \in Targets
  BY DEF Targets

LEMMA OldIsOld ==
  ASSUME Shapes, NEW s \in Slot
  PROVE  FromOld(calls[s], calls[s])
  BY DEF Shapes, FromOld, Targets

LEMMA IdleIsOld ==
  ASSUME NEW old
  PROVE  FromOld(Idle, old)
  BY DEF FromOld, CallShape, Idle, CallFields, MaySave, None

(* A call as the window sends it.                                          *)
Sendable(c) ==
  /\ CallFields \subseteq DOMAIN c /\ c.stage = "sent"
  /\ c.kind = "open" => c.id \in Id
  /\ c.kind = "save" => c.id \in Targets \cup {None}

LEMMA SentIsOld ==
  ASSUME NEW c, Sendable(c), NEW old
  PROVE  FromOld(c, old) /\ FromOld([c EXCEPT !.own = FALSE], old)
<1>1. FromOld(c, old)
  BY DEF FromOld, CallShape, MaySave, Sendable
<1>2. PICK d : d = [c EXCEPT !.own = FALSE]
  OBVIOUS
<1>3. CallFields \subseteq DOMAIN d /\ d.stage = c.stage /\ d.kind = c.kind /\ d.id = c.id
  BY <1>2 DEF Sendable, CallFields
<1>4. FromOld(d, old)
  BY <1>3 DEF FromOld, CallShape, MaySave, Sendable
<1>5. QED  BY <1>1, <1>2, <1>4

LEMMA MessageIs ==
  ASSUME NEW kind
  PROVE  LET m == Message(kind)
         IN  CallFields \subseteq DOMAIN m /\ m.stage = "sent" /\ m.kind = kind /\ m.id = ws.id
<1>1. CallFields = DOMAIN Idle
  BY DEF Idle, CallFields
<1>2. PICK old : old = Idle
  OBVIOUS
<1>3. PICK m : m = [old EXCEPT !.kind = kind, !.stage = "sent", !.own = TRUE, !.id = ws.id]
  OBVIOUS
<1>4. CallFields \subseteq DOMAIN m /\ m.stage = "sent" /\ m.kind = kind /\ m.id = ws.id
  BY <1>1, <1>2, <1>3 DEF CallFields
<1>5. QED  BY <1>2, <1>3, <1>4 DEF Message

LEMMA SendIs ==
  ASSUME NEW kind, kind # "save", NEW id, kind = "open" => id \in Id
  PROVE  Sendable([Message(kind) EXCEPT !.id = id])
<1>1. PICK m : m = Message(kind)
  OBVIOUS
<1>2. CallFields \subseteq DOMAIN m /\ m.stage = "sent" /\ m.kind = kind
  BY <1>1, MessageIs
<1>3. QED  BY <1>1, <1>2 DEF Sendable, CallFields

LEMMA SaveIs ==
  ASSUME NEW w, w.id = ws.id
  PROVE  Sendable(SaveOf(w))
<1>1. PICK m : m = Message("save")
  OBVIOUS
<1>2. CallFields \subseteq DOMAIN m /\ m.stage = "sent" /\ m.kind = "save"
  BY <1>1, MessageIs
<1>3. PICK c : c = [m EXCEPT !.id = w.id, !.name = w.name, !.rows = w.rows]
  OBVIOUS
<1>4. CallFields \subseteq DOMAIN c /\ c.stage = "sent" /\ c.kind = "save" /\ c.id = ws.id
  BY <1>2, <1>3 DEF CallFields
<1>5. QED  BY <1>1, <1>3, <1>4, WsTarget DEF SaveOf, Sendable

LEMMA SendOutQuiet ==
  ASSUME Shapes, NEW c, Sendable(c), SendOut(c)
  PROVE  QuietCalls
<1>1. calls' = [calls EXCEPT ![SomeSlot] = c]
  BY DEF SendOut
<1>2. DOMAIN calls' = Slot /\ \A s \in Slot : calls'[s] = calls[s] \/ calls'[s] = c
  BY <1>1 DEF Shapes
<1>3. QED  BY <1>2, OldIsOld, SentIsOld DEF QuietCalls

LEMMA SendQuiet ==
  ASSUME Shapes, NEW kind, kind # "save", NEW id, kind = "open" => id \in Id, Send(kind, id)
  PROVE  QuietCalls
  BY SendIs, SendOutQuiet DEF Send

LEMMA SameQuiet ==
  ASSUME Shapes, calls' = calls
  PROVE  QuietCalls
  BY OldIsOld DEF Shapes, QuietCalls

LEMMA DirtiedIs ==
  ASSUME NEW w, WindowFields \subseteq DOMAIN w
  PROVE  WindowFields \subseteq DOMAIN Dirtied(w) /\ Dirtied(w).id = w.id
  BY DEF Dirtied, WindowFields

LEMMA SetField ==
  ASSUME NEW w, WindowFields \subseteq DOMAIN w, NEW f, f # "id", NEW x
  PROVE  LET v == [w EXCEPT ![f] = x] IN WindowFields \subseteq DOMAIN v /\ v.id = w.id
  BY DEF WindowFields

LEMMA AtOnceQuiet ==
  ASSUME Shapes, NEW w, w.id = ws.id, WindowFields \subseteq DOMAIN w, NEW under, NEW free,
         DOMAIN under = Slot, \A s \in Slot : FromOld(under[s], calls[s]),
         SaveAtOnce(w, under, free)
  PROVE  QuietCalls /\ WindowFields \subseteq DOMAIN ws' /\ ws'.id = ws.id
<1>1. Sendable(Message("snapshot")) /\ Sendable(SaveOf(w))
  <2>1. Sendable(Message("snapshot"))
    BY MessageIs DEF Sendable
  <2>2. QED  BY <2>1, SaveIs
<1>2. DOMAIN calls' = Slot /\ \A s \in Slot : calls'[s] \in {under[s], Message("snapshot"), SaveOf(w)}
  BY DEF SaveAtOnce
<1>3. QuietCalls
  BY <1>1, <1>2, SentIsOld DEF QuietCalls
<1>4. QED  BY <1>3, SetField DEF SaveAtOnce

LEMMA PostQuiet ==
  ASSUME Shapes, NEW w, w.id = ws.id, WindowFields \subseteq DOMAIN w, Post(w)
  PROVE  QuietCalls /\ WindowFields \subseteq DOMAIN ws' /\ ws'.id = ws.id
  BY SaveIs, SendOutQuiet, SetField DEF Post

-----------------------------------------------------------------------------
(* What the window does is quiet.                                          *)
SeenKept == SeenFields \subseteq DOMAIN seen' /\ seen'.overtaken = seen.overtaken

Quiet ==
  /\ QuietCalls /\ store' = store /\ issued' = issued
  /\ WindowFields \subseteq DOMAIN ws' /\ ws'.id \in Targets \cup {None}
  /\ SeenKept
  /\ refusing' => refusing

LEMMA CrossingIs ==
  ASSUME Shapes, NEW busy
  PROVE  SeenFields \subseteq DOMAIN Crossing(busy) /\ Crossing(busy).overtaken = seen.overtaken
  BY DEF Shapes, Crossing

LEMMA OrphanedIs ==
  ASSUME Shapes, NEW s \in Slot
  PROVE  FromOld(Orphaned(calls[s]), calls[s])
<1>1. PICK c : c = [calls[s] EXCEPT !.own = FALSE]
  OBVIOUS
<1>2. /\ CallFields \subseteq DOMAIN c /\ c.stage = calls[s].stage /\ c.kind = calls[s].kind
      /\ c.id = calls[s].id /\ c.rows = calls[s].rows /\ c.read = calls[s].read /\ c.copy = calls[s].copy
  BY <1>1 DEF Shapes, CallShape, CallFields
<1>3. FromOld(c, calls[s])
  BY <1>2, OldIsOld DEF FromOld, CallShape, MaySave
<1>4. QED  BY <1>1, <1>3, IdleIsOld DEF Orphaned

LEMMA StewardQuiet == ASSUME Shapes, Steward PROVE Quiet
<1>0. WindowFields \subseteq DOMAIN ws /\ SeenFields \subseteq DOMAIN seen /\ ws.id \in Targets
  BY WsTarget DEF Shapes
<1>1. CASE Edit
  <2>1. PICK w : w = [ws EXCEPT !.rows = edits + 1] /\ ws' = Dirtied(w)
    BY <1>1 DEF Edit
  <2>2. WindowFields \subseteq DOMAIN w /\ w.id = ws.id
    BY <1>0, <2>1 DEF WindowFields
  <2>3. QuietCalls
    BY <1>1, SendQuiet, SameQuiet DEF Edit, AskVersion
  <2>4. SeenKept
    BY <1>1, CrossingIs DEF SeenKept, Edit
  <2>5. QED  BY <1>0, <1>1, <2>1, <2>2, <2>3, <2>4, DirtiedIs DEF SeenKept, Quiet, Edit
<1>2. CASE NameIt
  <2>1. PICK w, b : w = [ws EXCEPT !.name = <<b>>] /\ ws' = Dirtied(w)
    BY <1>2 DEF NameIt
  <2>2. WindowFields \subseteq DOMAIN w /\ w.id = ws.id
    BY <1>0, <2>1 DEF WindowFields
  <2>3. QuietCalls /\ SeenKept
    BY <1>2, SameQuiet, CrossingIs DEF SeenKept, NameIt
  <2>4. QED  BY <1>0, <1>2, <2>1, <2>2, <2>3, DirtiedIs DEF SeenKept, Quiet, NameIt
<1>3. CASE SaveNow
  <2>1. PICK v, w : /\ v = [ws EXCEPT !.rows = edits + 1] /\ w = Dirtied(v)
                    /\ SaveAtOnce(w, calls, Free)
    BY <1>3 DEF SaveNow
  <2>2. WindowFields \subseteq DOMAIN v /\ v.id = ws.id
    BY <1>0, <2>1 DEF WindowFields
  <2>3. WindowFields \subseteq DOMAIN w /\ w.id = ws.id
    BY <2>1, <2>2, DirtiedIs
  <2>4. QuietCalls /\ WindowFields \subseteq DOMAIN ws' /\ ws'.id = ws.id
    BY <2>1, <2>3, OldIsOld, AtOnceQuiet DEF Shapes
  <2>5. SeenKept
    BY <1>3, CrossingIs DEF SeenKept, SaveNow
  <2>6. QED  BY <1>0, <1>3, <2>4, <2>5 DEF SeenKept, Quiet, SaveNow
<1>4. CASE ConfirmCategories
  <2>1. QuietCalls /\ SeenKept
    BY <1>4, SendQuiet, CrossingIs DEF SeenKept, ConfirmCategories
  <2>2. QED  BY <1>0, <1>4, <2>1, DirtiedIs DEF SeenKept, Quiet, ConfirmCategories
<1>5. CASE Open \/ Delete
  <2>1. QuietCalls
    <3>1. \A i \in Present(store) : i \in Id
      BY DEF Present
    <3>2. CASE Open
      BY <3>1, <3>2, SendQuiet DEF Open
    <3>3. CASE Delete
      BY <3>3, SendQuiet DEF Delete
    <3>4. QED  BY <1>5, <3>2, <3>3
  <2>2. SeenKept
    BY <1>5, CrossingIs DEF SeenKept, Open, Delete
  <2>3. QED  BY <1>0, <1>5, <2>1, <2>2 DEF SeenKept, Quiet, Open, Delete
<1>6. CASE AskWipe
  <2>1. QuietCalls /\ SeenKept
    BY <1>6, SendQuiet, CrossingIs DEF SeenKept, AskWipe
  <2>2. WindowFields \subseteq DOMAIN ws' /\ ws'.id = None
    BY <1>0, <1>6 DEF AskWipe, WindowFields
  <2>3. QED  BY <1>6, <2>1, <2>2 DEF SeenKept, Quiet, AskWipe
<1>7. CASE Leave
  <2>1. PICK left : /\ left = [s \in Slot |-> Orphaned(calls[s])]
                    /\ \/ calls' = left
                       \/ calls' = [left EXCEPT ![SomeSlot] = [SaveOf(ws) EXCEPT !.own = FALSE]]
    BY <1>7 DEF Leave
  <2>2. \A s \in Slot : calls'[s] \in {Orphaned(calls[s]), [SaveOf(ws) EXCEPT !.own = FALSE]}
    BY <2>1
  <2>3. \A s \in Slot : FromOld(Orphaned(calls[s]), calls[s])
    BY OrphanedIs
  <2>4. FromOld([SaveOf(ws) EXCEPT !.own = FALSE], Idle)
        /\ \A s \in Slot : FromOld([SaveOf(ws) EXCEPT !.own = FALSE], calls[s])
    BY SaveIs, SentIsOld
  <2>5. QuietCalls
    BY <2>1, <2>2, <2>3, <2>4 DEF SeenKept, QuietCalls
  <2>6. ws' = Scratch /\ SeenKept
    BY <1>7, CrossingIs DEF SeenKept, Leave
  <2>7. WindowFields \subseteq DOMAIN Scratch /\ Scratch.id = None
    BY DEF Scratch, WindowFields
  <2>8. QED  BY <1>7, <2>5, <2>6, <2>7 DEF SeenKept, Quiet, Leave
<1>8. QED  BY <1>1, <1>2, <1>3, <1>4, <1>5, <1>6, <1>7 DEF Steward

LEMMA TimersQuiet == ASSUME Shapes, Timers PROVE Quiet
<1>0. WindowFields \subseteq DOMAIN ws /\ SeenFields \subseteq DOMAIN seen /\ ws.id \in Targets
  BY WsTarget DEF Shapes
<1>1. PICK w : /\ w = ws \/ w = [ws EXCEPT !.saveTimer = FALSE]
               /\ Post(w) \/ (ws' = w /\ UNCHANGED <<calls, seen>>)
  BY DEF Timers, Debounce, Interval
<1>2. WindowFields \subseteq DOMAIN w /\ w.id = ws.id
  BY <1>0, <1>1 DEF WindowFields
<1>3. QuietCalls /\ WindowFields \subseteq DOMAIN ws' /\ ws'.id = ws.id
  BY <1>1, <1>2, PostQuiet, SameQuiet
<1>4. SeenKept
  BY <1>0, <1>1, CrossingIs DEF SeenKept, Post
<1>5. QED  BY <1>0, <1>3, <1>4 DEF SeenKept, Quiet, Timers, Debounce, Interval

LEMMA AnsweredQuiet ==
  ASSUME Shapes, NEW s \in Slot, Answered(s)
  PROVE  QuietCalls
<1>1. DOMAIN calls' = Slot /\ \A o \in Slot : calls'[o] \in {calls[o], Idle}
  BY DEF Answered, Shapes
<1>2. QED  BY <1>1, OldIsOld, IdleIsOld DEF SeenKept, QuietCalls

LEMMA RefusedQuiet ==
  ASSUME Shapes, NEW s \in Slot, Refused(s)
  PROVE  QuietCalls
<1>1. PICK c : c = [calls[s] EXCEPT !.stage = "failed"]
  OBVIOUS
<1>2. CallFields \subseteq DOMAIN c /\ c.stage = "failed" /\ c.kind = calls[s].kind /\ c.id = calls[s].id
  BY <1>1 DEF Shapes, CallShape, CallFields
<1>3. FromOld(c, calls[s])
  BY <1>2, OldIsOld DEF FromOld, CallShape, MaySave
<1>4. /\ DOMAIN calls' = Slot /\ calls'[s] \in {c, Idle}
      /\ \A o \in Slot : o # s => calls'[o] = calls[o]
  BY <1>1 DEF Refused, Shapes
<1>5. QED  BY <1>3, <1>4, OldIsOld, IdleIsOld DEF SeenKept, QuietCalls

LEMMA SettleQuiet == ASSUME Shapes, NEW s \in Slot, Settle(s) PROVE Quiet
<1>0. /\ WindowFields \subseteq DOMAIN ws /\ SeenFields \subseteq DOMAIN seen /\ ws.id \in Targets
      /\ MaySave(calls[s]) => calls[s].id \in Targets
  BY WsTarget DEF Shapes, Targets
<1>1. CASE SaveAnswered(s)
  <2>1. MaySave(calls[s])
    BY <1>1 DEF SaveAnswered, Done, MaySave
  <2>2. WindowFields \subseteq DOMAIN ws' /\ ws'.id \in {ws.id, calls[s].id}
    BY <1>0, <1>1 DEF SaveAnswered, WindowFields
  <2>3. QED  BY <1>0, <1>1, <2>1, <2>2, AnsweredQuiet DEF SeenKept, Quiet, SaveAnswered
<1>2. CASE SnapshotAnswered(s)
  <2>1. WindowFields \subseteq DOMAIN ws' /\ ws'.id = ws.id
    BY <1>0, <1>2 DEF SnapshotAnswered, WindowFields
  <2>2. QED  BY <1>0, <1>2, <2>1, AnsweredQuiet DEF SeenKept, Quiet, SnapshotAnswered
<1>3. CASE OpenAnswered(s)
  <2>1. CASE Succeeded(s)
    <3>1. ws' = Opened(calls[s])
      BY <1>3, <2>1 DEF OpenAnswered
    <3>2. WindowFields \subseteq DOMAIN ws' /\ ws'.id = IF calls[s].copy THEN None ELSE calls[s].id
      BY <1>0, <3>1 DEF Opened, WindowFields
    <3>3. ~calls[s].copy => MaySave(calls[s])
      BY <1>3, <2>1 DEF OpenAnswered, Done, Succeeded, MaySave
    <3>4. SeenKept
      BY <1>3, <2>1, CrossingIs DEF SeenKept, OpenAnswered
    <3>5. QED  BY <1>0, <1>3, <3>2, <3>3, <3>4, AnsweredQuiet DEF SeenKept, Quiet, OpenAnswered
  <2>2. CASE ~Succeeded(s)
    BY <1>0, <1>3, <2>2, AnsweredQuiet DEF SeenKept, Quiet, OpenAnswered
  <2>3. QED  BY <2>1, <2>2
<1>4. CASE DeleteAnswered(s)
  BY <1>0, <1>4, AnsweredQuiet DEF SeenKept, Quiet, DeleteAnswered
<1>5. CASE WipeAnswered(s)
  <2>1. QuietCalls
    <3>1. CASE Succeeded(s)
      <4>1. DOMAIN calls' = Slot /\ \A o \in Slot : calls'[o] \in {Idle, Orphaned(calls[o])}
        BY <1>5, <3>1 DEF WipeAnswered
      <4>2. QED  BY <4>1, IdleIsOld, OrphanedIs DEF SeenKept, QuietCalls
    <3>2. CASE ~Succeeded(s)
      BY <1>5, <3>2, AnsweredQuiet DEF WipeAnswered, Answered
    <3>3. QED  BY <3>1, <3>2
  <2>2. WindowFields \subseteq DOMAIN Scratch /\ Scratch.id = None
    BY DEF Scratch, WindowFields
  <2>3. QED  BY <1>0, <1>5, <2>1, <2>2 DEF SeenKept, Quiet, WipeAnswered
<1>6. CASE KeystoneNamed(s)
  <2>1. PICK b, v, w :
          /\ v = [ws EXCEPT !.name = <<b>>] /\ w = Dirtied(v)
          /\ \/ SaveAtOnce(w, [calls EXCEPT ![s] = Idle], Free \cup {s})
             \/ Answered(s) /\ ws' \in {ws, w}
    BY <1>6 DEF KeystoneNamed
  <2>2. WindowFields \subseteq DOMAIN v /\ v.id = ws.id
    BY <1>0, <2>1 DEF WindowFields
  <2>3. WindowFields \subseteq DOMAIN w /\ w.id = ws.id
    BY <2>1, <2>2, DirtiedIs
  <2>4. PICK under : under = [calls EXCEPT ![s] = Idle]
    OBVIOUS
  <2>5. DOMAIN under = Slot /\ \A o \in Slot : FromOld(under[o], calls[o])
    <3>1. DOMAIN under = Slot /\ \A o \in Slot : under[o] \in {calls[o], Idle}
      BY <2>4 DEF Shapes
    <3>2. QED  BY <3>1, OldIsOld, IdleIsOld
  <2>6. QuietCalls /\ WindowFields \subseteq DOMAIN ws' /\ ws'.id = ws.id
    BY <1>0, <2>1, <2>3, <2>4, <2>5, AtOnceQuiet, AnsweredQuiet
  <2>7. SeenKept
    BY <1>6, CrossingIs DEF SeenKept, KeystoneNamed
  <2>8. QED  BY <1>0, <1>6, <2>6, <2>7 DEF SeenKept, Quiet, KeystoneNamed
<1>7. QED  BY <1>1, <1>2, <1>3, <1>4, <1>5, <1>6 DEF Settle

LEMMA OtherQuiet ==
  ASSUME Shapes, AcceptAgain \/ Rest \/ (\E s \in Slot : Fail(s)) \/ UNCHANGED vars
  PROVE  Quiet
<1>0. WindowFields \subseteq DOMAIN ws /\ SeenFields \subseteq DOMAIN seen /\ ws.id \in Targets
  BY WsTarget DEF Shapes
<1>1. CASE \E s \in Slot : Fail(s)
  BY <1>0, <1>1, RefusedQuiet DEF Fail, Quiet, SeenKept
<1>2. CASE AcceptAgain \/ Rest \/ UNCHANGED vars
  BY <1>0, <1>2, SameQuiet DEF AcceptAgain, Rest, vars, Quiet, SeenKept
<1>3. QED  BY <1>1, <1>2

-----------------------------------------------------------------------------
(* What the handlers add: an id nobody had, a target that is live, a copy. *)

LEMMA ApartFresh ==
  ASSUME NEW C, NEW D, NEW T, NEW n \in Nat, Apart(C, D, T, n), NEW s
  PROVE  Apart(C, D, T \cup {n + 1}, n + 1) /\ Apart(C, D \cup {<<s, n + 1>>}, T, n + 1)
<1>1. /\ \A g \in C : DOMAIN g = Id /\ \A i \in Present(g) : i <= n + 1 /\ i # n + 1
      /\ \A g, h \in C : SameVersions(g, h)
  BY DEF Apart, Present, Id
<1>2. \A d \in D : /\ d[2] \in Nat \ {0} /\ d[2] <= n + 1 /\ d[2] # n + 1
                   /\ \A g \in C : d[2] \notin Present(g)
                   /\ \A e \in D : d[2] = e[2] => d = e
  BY DEF Apart
<1>3. \A i \in T : /\ i \in Nat /\ i <= n + 1 /\ i # n + 1
                   /\ \A g \in C : i \notin Versions(g)
                   /\ \A d \in D : d[2] # i
  BY DEF Apart
<1>4. \A g \in C : n + 1 \notin Versions(g)
  BY <1>1 DEF Versions
<1>5. Apart(C, D, T \cup {n + 1}, n + 1)
  BY <1>1, <1>2, <1>3, <1>4 DEF Apart
<1>6. PICK f : f = <<s, n + 1>>
  OBVIOUS
<1>7. f[2] = n + 1
  BY <1>6
<1>8. Apart(C, D \cup {f}, T, n + 1)
  BY <1>1, <1>2, <1>3, <1>7 DEF Apart
<1>9. QED  BY <1>5, <1>6, <1>8

LEMMA ApartLive ==
  ASSUME NEW C, NEW D, NEW T, NEW n \in Nat, Apart(C, D, T, n),
         NEW g \in C, NEW k \in Live(g)
  PROVE  Apart(C, D, T \cup {k}, n)
<1>1. k \in Present(g) /\ ~g[k].archived /\ k \in Nat /\ k <= n
  BY DEF Live, Present, Id, Apart
<1>2. ASSUME NEW h \in C, k \in Versions(h) PROVE FALSE
  <2>1. g[k] = h[k]
    BY <1>1, <1>2 DEF Apart, SameVersions
  <2>2. QED  BY <1>1, <1>2, <2>1 DEF Versions
<1>3. \A d \in D : d[2] # k
  BY <1>1 DEF Apart
<1>4. QED  BY <1>1, <1>2, <1>3 DEF Apart

(* A handler's copy g, made from what it has read, r.                      *)
Stands(g, r, C, D, T, n) ==
  /\ DOMAIN g = Id
  /\ \A i \in Id :
       \/ g[i] = r[i] \/ g[i].rows = 0
       \/ /\ i <= n /\ \A d \in D : d[2] # i
          /\ \/ ~g[i].archived /\ \A h \in C : i \notin Versions(h)
             \/ i \notin T /\ \A h \in C : i \notin Present(h)

LEMMA ApartCopy ==
  ASSUME NEW C, NEW D, NEW T, NEW n \in Nat, Apart(C, D, T, n),
         NEW r \in C, NEW g, Stands(g, r, C, D, T, n)
  PROVE  Apart(C \cup {g}, D, T, n)
<1>1. ASSUME NEW i \in Present(g)
      PROVE  i <= n /\ \A d \in D : d[2] # i
  <2>1. CASE g[i] = r[i]
    BY <2>1 DEF Present, Apart
  <2>2. CASE g[i] # r[i]
    BY <2>2 DEF Present, Stands
  <2>3. QED  BY <2>1, <2>2
<1>2. ASSUME NEW h \in C
      PROVE  SameVersions(g, h) /\ SameVersions(h, g)
  <2>1. SameVersions(r, h) /\ SameVersions(h, r)
    BY DEF Apart
  <2>2. ASSUME NEW i \in Versions(g) \cap Present(h) PROVE h[i] = g[i]
    BY <2>1 DEF Stands, SameVersions, Versions, Present
  <2>3. ASSUME NEW i \in Versions(h) \cap Present(g) PROVE g[i] = h[i]
    BY <2>1 DEF Stands, SameVersions, Versions, Present
  <2>4. QED  BY <2>2, <2>3 DEF SameVersions
<1>3. SameVersions(g, g)
  BY DEF SameVersions
<1>4. ASSUME NEW i \in T
      PROVE  i \notin Versions(g)
  <2>1. i \notin Versions(r)
    BY DEF Apart
  <2>2. QED  BY <2>1, <1>4 DEF Stands, Versions, Present, Apart
<1>5. DOMAIN g = Id
  BY DEF Stands
<1>6. QED  BY <1>1, <1>2, <1>3, <1>4, <1>5 DEF Apart

-----------------------------------------------------------------------------
(* The handlers, one by one.                                               *)

LEMMA VersionStep ==
  ASSUME NEW C, NEW D, NEW T, issued' \in Nat, Apart(C, D, T, issued'),
         Copies' \subseteq C, Drawn' \subseteq D, Targets' \subseteq T \cup {None}, Shapes'
  PROVE  VersionInv'
  BY ApartFewer DEF VersionInv

(* A call c that has just read the store.                                  *)
LEMMA ReadStep ==
  ASSUME Shapes, NEW s \in Slot, NEW c, CallShape(c), c.stage = "read", c.read = store,
         calls' = [calls EXCEPT ![s] = c], store' = store, ws' = ws, seen' = seen,
         issued' \in Nat
  PROVE  /\ Shapes' /\ Copies' \subseteq Copies
         /\ Drawn' \subseteq Drawn \cup (IF c.kind = "snapshot" THEN {<<s, c.rows>>} ELSE {})
         /\ Targets' \subseteq Targets \cup (IF c.kind = "save" THEN {c.id} ELSE {})
<1>1. /\ DOMAIN calls' = Slot /\ calls'[s] = c
      /\ \A o \in Slot : o # s => calls'[o] = calls[o]
  BY DEF Shapes
<1>2. Shapes'
  BY <1>1 DEF Shapes
<1>3. Reading' \subseteq Reading \cup {s}
  BY <1>1 DEF Reading
<1>4. \A o \in Reading' : calls'[o].read = store \/ (o \in Reading /\ calls'[o].read = calls[o].read)
  BY <1>1 DEF Reading
<1>5. Copies' \subseteq Copies
  BY <1>4 DEF Copies
<1>6. Drawn' \subseteq Drawn \cup (IF c.kind = "snapshot" THEN {<<s, c.rows>>} ELSE {})
  BY <1>1 DEF Drawn, Reading
<1>7. Targets' \subseteq Targets \cup (IF c.kind = "save" THEN {c.id} ELSE {})
  <2>1. \A o \in Slot : MaySave(calls'[o]) =>
          calls'[o].id \in Targets \cup (IF c.kind = "save" THEN {c.id} ELSE {})
    BY <1>1 DEF MaySave, Targets
  <2>2. QED  BY <2>1, WsTarget DEF Targets
<1>8. QED  BY <1>2, <1>5, <1>6, <1>7

LEMMA QuietVersions == ASSUME VersionInv, Quiet PROVE VersionInv'
  BY QuietStep DEF Quiet, SeenKept

LEMMA RefusedIs ==
  ASSUME Shapes, NEW s \in Slot, Refused(s), UNCHANGED <<store, issued, refusing, ws, seen>>
  PROVE  Quiet
  BY RefusedQuiet, WsTarget DEF Shapes, Quiet, SeenKept

LEMMA ReadForSaveKeeps ==
  ASSUME VersionInv, NEW s \in Slot, ReadForSave(s)
  PROVE  VersionInv'
<1>0. Shapes /\ Apart(Copies, Drawn, Targets, issued) /\ issued \in Nat /\ CallShape(calls[s])
  BY DEF VersionInv, Shapes
<1>1. CASE refusing
  BY <1>0, <1>1, RefusedIs, QuietVersions DEF ReadForSave
<1>2. CASE ~refusing
  <2>1. PICK id : Reads(s, id)
                  /\ \/ id = calls[s].id /\ issued' = issued
                     \/ id = issued + 1 /\ issued' = issued + 1
    BY <1>2 DEF ReadForSave
  <2>2. PICK c : c = [calls[s] EXCEPT !.stage = "read", !.read = store, !.id = id]
    OBVIOUS
  <2>3. /\ CallFields \subseteq DOMAIN c /\ c.stage = "read" /\ c.read = store
        /\ c.id = id /\ c.kind = "save" /\ calls' = [calls EXCEPT ![s] = c]
    BY <1>0, <2>1, <2>2 DEF ReadForSave, Reads, CallShape, CallFields
  <2>4. CallShape(c)
    BY <2>3 DEF CallShape
  <2>5. Shapes' /\ Copies' \subseteq Copies /\ Drawn' \subseteq Drawn /\ Targets' \subseteq Targets \cup {id}
    <3>1. issued' \in Nat /\ UNCHANGED <<store, ws, seen>>
      BY <1>0, <2>1 DEF ReadForSave
    <3>2. c.kind # "snapshot" /\ c.kind = "save" /\ c.id = id
      BY <2>3
    <3>3. /\ Shapes' /\ Copies' \subseteq Copies
          /\ Drawn' \subseteq Drawn \cup (IF c.kind = "snapshot" THEN {<<s, c.rows>>} ELSE {})
          /\ Targets' \subseteq Targets \cup (IF c.kind = "save" THEN {c.id} ELSE {})
      BY <1>0, <2>3, <2>4, <3>1, ReadStep
    <3>4. QED  BY <3>2, <3>3
  <2>6. CASE id = calls[s].id /\ issued' = issued
    <3>1. id \in Targets
      BY <2>6 DEF ReadForSave, MaySave, Targets
    <3>2. QED  BY <1>0, <2>5, <2>6, <3>1, VersionStep
  <2>7. CASE id = issued + 1 /\ issued' = issued + 1
    <3>1. Apart(Copies, Drawn, Targets \cup {id}, issued')
      BY <1>0, <2>7, ApartFresh
    <3>2. QED  BY <1>0, <2>5, <2>7, <3>1, VersionStep
  <2>8. QED  BY <2>1, <2>6, <2>7
<1>3. QED  BY <1>1, <1>2

LEMMA ReadForDeleteKeeps ==
  ASSUME VersionInv, NEW s \in Slot, ReadForDelete(s)
  PROVE  VersionInv'
<1>0. Shapes /\ Apart(Copies, Drawn, Targets, issued) /\ issued \in Nat /\ CallShape(calls[s])
  BY DEF VersionInv, Shapes
<1>1. PICK c : c = [calls[s] EXCEPT !.stage = "read", !.read = store, !.id = calls[s].id]
  OBVIOUS
<1>2. /\ CallFields \subseteq DOMAIN c /\ c.stage = "read" /\ c.read = store
      /\ c.kind = "delete" /\ calls' = [calls EXCEPT ![s] = c]
  BY <1>0, <1>1 DEF ReadForDelete, Reads, CallShape, CallFields
<1>3. CallShape(c)
  BY <1>2 DEF CallShape
<1>4. Shapes' /\ Copies' \subseteq Copies /\ Drawn' \subseteq Drawn /\ Targets' \subseteq Targets
  BY <1>0, <1>2, <1>3, ReadStep DEF ReadForDelete
<1>5. issued' = issued
  BY DEF ReadForDelete
<1>6. QED  BY <1>0, <1>4, <1>5, VersionStep

LEMMA ReadForVersionKeeps ==
  ASSUME VersionInv, NEW s \in Slot, ReadForVersion(s)
  PROVE  VersionInv'
<1>0. Shapes /\ Apart(Copies, Drawn, Targets, issued) /\ issued \in Nat /\ CallShape(calls[s])
  BY DEF VersionInv, Shapes
<1>1. CASE calls[s].id \notin Live(store)
  BY <1>0, <1>1, RefusedIs, QuietVersions DEF ReadForVersion
<1>2. CASE calls[s].id \in Live(store)
  <2>1. PICK c, name : c = [calls[s] EXCEPT !.stage = "read", !.read = store, !.name = name,
                                            !.rows = issued + 1]
                       /\ name = store[calls[s].id].name
    OBVIOUS
  <2>2. /\ CallFields \subseteq DOMAIN c /\ c.stage = "read" /\ c.read = store
        /\ c.kind = "snapshot" /\ c.rows = issued + 1 /\ calls' = [calls EXCEPT ![s] = c]
    BY <1>0, <1>2, <2>1 DEF ReadForVersion, CallShape, CallFields
  <2>3. CallShape(c)
    BY <2>2 DEF CallShape
  <2>4. issued' = issued + 1
    BY <1>2 DEF ReadForVersion
  <2>5. /\ Shapes' /\ Copies' \subseteq Copies /\ Targets' \subseteq Targets
        /\ Drawn' \subseteq Drawn \cup {<<s, issued + 1>>}
    <3>1. issued' \in Nat /\ UNCHANGED <<store, ws, seen>>
      BY <1>0, <2>4 DEF ReadForVersion
    <3>2. c.kind = "snapshot" /\ c.kind # "save" /\ c.rows = issued + 1
      BY <2>2
    <3>3. /\ Shapes' /\ Copies' \subseteq Copies
          /\ Drawn' \subseteq Drawn \cup (IF c.kind = "snapshot" THEN {<<s, c.rows>>} ELSE {})
          /\ Targets' \subseteq Targets \cup (IF c.kind = "save" THEN {c.id} ELSE {})
      BY <1>0, <2>2, <2>3, <3>1, ReadStep
    <3>4. QED  BY <3>2, <3>3
  <2>6. Apart(Copies, Drawn \cup {<<s, issued + 1>>}, Targets, issued')
    BY <1>0, <2>4, ApartFresh
  <2>7. QED  BY <1>0, <2>4, <2>5, <2>6, VersionStep
<1>3. QED  BY <1>1, <1>2

(* A call whose answer is on its way reads nothing and draws nothing.      *)
LEMMA EndsIs ==
  ASSUME Shapes, NEW s \in Slot, NEW c, CallShape(c), c.stage # "read",
         MaySave(c) => c.id \in Targets \cup {None},
         calls' = [calls EXCEPT ![s] = c]
  PROVE  /\ QuietCalls /\ Reading' \subseteq Reading \ {s}
         /\ \A d \in Drawn' : d[1] # s
<1>1. /\ DOMAIN calls' = Slot /\ calls'[s] = c
      /\ \A o \in Slot : o # s => calls'[o] = calls[o]
  BY DEF Shapes
<1>2. QuietCalls
  BY <1>1, OldIsOld DEF QuietCalls, FromOld
<1>3. Reading' \subseteq Reading \ {s}
  BY <1>1 DEF Reading
<1>4. QED  BY <1>2, <1>3 DEF Drawn

LEMMA SettingsQuiet ==
  ASSUME Shapes, NEW s \in Slot, ReadSettings(s)
  PROVE  Quiet
<1>1. PICK c : c = IF calls[s].own THEN [calls[s] EXCEPT !.stage = "done"] ELSE Idle
  OBVIOUS
<1>2. calls' = [calls EXCEPT ![s] = c]
  BY <1>1 DEF Shapes, ReadSettings
<1>3. CallShape(c) /\ c.stage # "read" /\ ~MaySave(c)
  <2>1. CASE calls[s].own
    <3>1. CallFields \subseteq DOMAIN c /\ c.stage = "done" /\ c.kind = "settings"
      BY <1>1, <2>1 DEF Shapes, ReadSettings, CallShape, CallFields
    <3>2. QED  BY <3>1 DEF CallShape, MaySave
  <2>2. CASE ~calls[s].own
    BY <1>1, <2>2 DEF CallShape, CallFields, MaySave, Idle
  <2>3. QED  BY <2>1, <2>2
<1>4. QuietCalls
  BY <1>2, <1>3, EndsIs
<1>5. QED  BY <1>4, WsTarget DEF ReadSettings, Shapes, Quiet, SeenKept

LEMMA ServeKeeps ==
  ASSUME VersionInv, NEW s \in Slot, Serve(s)
  PROVE  VersionInv'
<1>0. Shapes /\ Apart(Copies, Drawn, Targets, issued) /\ issued \in Nat /\ CallShape(calls[s])
  BY DEF VersionInv, Shapes
<1>1. CASE Refused(s)
  BY <1>0, <1>1, RefusedIs, QuietVersions DEF Serve
<1>2. CASE ~Refused(s)
  <2>1. PICK e : e = store[calls[s].id] /\ e.rows # 0
    BY <1>2 DEF Serve
  <2>2. PICK c : c = IF ~calls[s].own THEN Idle
                     ELSE [calls[s] EXCEPT !.stage = "done", !.name = e.name, !.rows = e.rows,
                                           !.copy = e.archived]
    OBVIOUS
  <2>3. calls' = [calls EXCEPT ![s] = c]
    BY <1>0, <1>2, <2>1, <2>2 DEF Serve, Shapes
  <2>4. CallShape(c) /\ c.stage # "read" /\ (MaySave(c) => c.id \in Live(store))
    <3>1. CASE calls[s].own
      <4>1. /\ CallFields \subseteq DOMAIN c /\ c.stage = "done" /\ c.kind = "open"
            /\ c.id = calls[s].id /\ c.copy = e.archived /\ c.id \in Id
        BY <1>0, <2>2, <3>1 DEF Serve, CallShape, CallFields
      <4>2. QED  BY <2>1, <4>1 DEF CallShape, MaySave, Live, Present
    <3>2. CASE ~calls[s].own
      BY <2>2, <3>2 DEF CallShape, CallFields, MaySave, Idle
    <3>3. QED  BY <3>1, <3>2
  <2>5. /\ DOMAIN calls' = Slot /\ calls'[s] = c
        /\ \A o \in Slot : o # s => calls'[o] = calls[o]
    BY <1>0, <2>3 DEF Shapes
  <2>6. Shapes'
    BY <1>0, <2>4, <2>5 DEF Shapes, Serve
  <2>7. Copies' \subseteq Copies /\ Drawn' \subseteq Drawn
    <3>1. \A o \in Reading' : o \in Reading /\ calls'[o] = calls[o]
      BY <2>4, <2>5 DEF Reading
    <3>2. store' = store
      BY DEF Serve
    <3>3. QED  BY <3>1, <3>2 DEF Copies, Drawn
  <2>8. \A o \in Slot : MaySave(calls'[o]) =>
          calls'[o].id \in Targets \/ (o = s /\ calls'[o].id \in Live(store))
    BY <2>4, <2>5 DEF Targets
  <2>9. ws'.id \in Targets /\ issued' = issued
    BY WsTarget DEF Serve
  <2>10. CASE MaySave(c)
    <3>1. Targets' \subseteq Targets \cup {c.id}
      BY <2>5, <2>8, <2>9 DEF Targets
    <3>2. Apart(Copies, Drawn, Targets \cup {c.id}, issued)
      BY <1>0, <2>4, <2>10, ApartLive DEF Copies
    <3>3. QED  BY <1>0, <2>6, <2>7, <2>9, <3>1, <3>2, VersionStep
  <2>11. CASE ~MaySave(c)
    <3>1. Targets' \subseteq Targets
      BY <2>5, <2>8, <2>9, <2>11 DEF Targets
    <3>2. QED  BY <1>0, <2>6, <2>7, <2>9, <3>1, VersionStep
  <2>12. QED  BY <2>10, <2>11
<1>3. QED  BY <1>1, <1>2

(* A store that is written: what it takes over stands beside the rest.     *)
LEMMA StoreStep ==
  ASSUME VersionInv, QuietCalls, ws' = ws, issued' = issued, SeenFields \subseteq DOMAIN seen',
         NEW r \in Copies, Stands(store', r, Copies, Drawn', Targets, issued)
  PROVE  VersionInv'
<1>0. Shapes /\ Apart(Copies, Drawn, Targets, issued) /\ issued \in Nat
  BY DEF VersionInv, Shapes
<1>1. Drawn' \subseteq Drawn /\ Copies' \subseteq Copies \cup {store'}
  BY QuietSets DEF Copies
<1>2. Targets' \subseteq Targets \cup {None}
  BY QuietSets, WsTarget DEF Targets
<1>3. Apart(Copies, Drawn', Targets, issued)
  BY <1>0, <1>1, ApartFewer
<1>4. Apart(Copies \cup {store'}, Drawn', Targets, issued)
  BY <1>0, <1>3, ApartCopy
<1>5. Shapes'
  BY <1>0 DEF Shapes, QuietCalls, FromOld
<1>6. QED  BY <1>0, <1>1, <1>2, <1>4, <1>5, VersionStep

LEMMA WipeKeeps ==
  ASSUME VersionInv, NEW s \in Slot, Wipe(s)
  PROVE  VersionInv' /\ Reading' \subseteq Reading /\ NoRows(store')
<1>0. Shapes /\ CallShape(calls[s])
  BY DEF VersionInv, Shapes
<1>1. PICK c : c = IF calls[s].own THEN [calls[s] EXCEPT !.stage = "done"] ELSE Idle
  OBVIOUS
<1>2. calls' = [calls EXCEPT ![s] = c]
  BY <1>0, <1>1 DEF Shapes, Wipe
<1>3. CallShape(c) /\ c.stage # "read" /\ ~MaySave(c)
  <2>1. CASE calls[s].own
    <3>1. CallFields \subseteq DOMAIN c /\ c.stage = "done" /\ c.kind = "wipe"
      BY <1>0, <1>1, <2>1 DEF Wipe, CallShape, CallFields
    <3>2. QED  BY <3>1 DEF CallShape, MaySave
  <2>2. CASE ~calls[s].own
    BY <1>1, <2>2 DEF CallShape, CallFields, MaySave, Idle
  <2>3. QED  BY <2>1, <2>2
<1>4. QuietCalls /\ Reading' \subseteq Reading
  BY <1>0, <1>2, <1>3, EndsIs
<1>5. /\ store' = [i \in Id |-> NoEntry] /\ UNCHANGED <<issued, ws>>
      /\ SeenFields \subseteq DOMAIN seen'
  BY <1>0 DEF Wipe, Shapes
<1>6. NoRows(store') /\ \A n, T : Stands(store', store, Copies, Drawn', T, n)
  BY <1>5 DEF NoRows, NoEntry, Stands
<1>7. QED  BY <1>4, <1>5, <1>6, StoreStep DEF Copies

(* What a handler writes: one id of its own beside what it has read.       *)
LEMMA SavedIs ==
  ASSUME NEW c, DOMAIN c.read = Id
  PROVE  /\ DOMAIN Saved(c) = Id /\ \A i \in Id : i # c.id => Saved(c)[i] = c.read[i]
         /\ c.id \in Id => ~Saved(c)[c.id].archived
  BY DEF Saved

LEMMA RemovedIs ==
  ASSUME NEW c, DOMAIN c.read = Id
  PROVE  /\ DOMAIN Removed(c) = Id
         /\ \A i \in Id : Removed(c)[i] = c.read[i] \/ Removed(c)[i].rows = 0
<1>1. NoEntry.rows = 0
  BY DEF NoEntry
<1>2. PICK none : none = NoEntry
  OBVIOUS
<1>3. PICK g : g = [c.read EXCEPT ![c.id] = none]
  OBVIOUS
<1>4. DOMAIN g = Id /\ \A i \in Id : g[i] = c.read[i] \/ g[i] = none
  BY <1>3
<1>5. QED  BY <1>1, <1>2, <1>3, <1>4 DEF Removed

LEMMA ArchivedIs ==
  ASSUME NEW c, DOMAIN c.read = Id
  PROVE  /\ DOMAIN Archived(c) = Id
         /\ \A i \in Id : i = c.rows \/ Archived(c)[i] = c.read[i] \/ Archived(c)[i].rows = 0
<1>1. PICK x, g : x = [c.read[c.id] EXCEPT !.archived = TRUE] /\ g = [c.read EXCEPT ![c.rows] = x]
  OBVIOUS
<1>2. PICK old : Archived(c) = [i \in Id |-> IF i \in old THEN NoEntry ELSE g[i]]
  BY <1>1 DEF Archived
<1>3. NoEntry.rows = 0
  BY DEF NoEntry
<1>4. \A i \in Id : i # c.rows => g[i] = c.read[i]
  BY <1>1
<1>5. QED  BY <1>2, <1>3, <1>4

LEMMA WriteIs ==
  ASSUME Shapes, NEW s \in Slot, Write(s)
  PROVE  /\ QuietCalls /\ Reading' \subseteq Reading \ {s}
         /\ \A d \in Drawn' : d[1] # s
<1>0. CallShape(calls[s]) /\ calls[s].stage = "read"
  BY DEF Shapes, Write
<1>1. PICK c, name : /\ calls' = [calls EXCEPT ![s] = c]
                     /\ c = IF calls[s].own
                            THEN [calls[s] EXCEPT !.stage = "done", !.read = Idle.read, !.name = name]
                            ELSE Idle
  BY DEF Write
<1>2. /\ CallShape(c) /\ c.stage # "read"
      /\ MaySave(c) => c.id \in Targets \cup {None}
  <2>1. CASE calls[s].own
    <3>1. /\ CallFields \subseteq DOMAIN c /\ c.stage = "done" /\ c.kind = calls[s].kind
          /\ c.id = calls[s].id
      BY <1>0, <1>1, <2>1 DEF CallShape, CallFields
    <3>2. c.kind # "open"
      BY <1>0, <3>1 DEF CallShape
    <3>3. MaySave(c) => c.id \in Targets
      BY <3>1, <3>2 DEF MaySave, Targets
    <3>4. QED  BY <3>1, <3>2, <3>3 DEF CallShape
  <2>2. CASE ~calls[s].own
    BY <1>1, <2>2 DEF CallShape, CallFields, MaySave, Idle
  <2>3. QED  BY <2>1, <2>2
<1>3. QED  BY <1>1, <1>2, EndsIs

LEMMA WriteStands ==
  ASSUME VersionInv, NEW s \in Slot, Write(s)
  PROVE  calls[s].read \in Copies /\ Stands(store', calls[s].read, Copies, Drawn', Targets, issued)
<1>0. /\ Shapes /\ Apart(Copies, Drawn, Targets, issued) /\ CallShape(calls[s])
      /\ s \in Reading /\ calls[s].stage = "read"
  BY DEF VersionInv, Shapes, Reading, Write
<1>1. calls[s].read \in Copies
  BY <1>0 DEF Copies
<1>2. PICK c : c = calls[s]
  OBVIOUS
<1>3. DOMAIN c.read = Id
  BY <1>0, <1>1, <1>2 DEF Apart
<1>4. QuietCalls /\ Drawn' \subseteq Drawn /\ \A d \in Drawn' : d[1] # s
  BY <1>0, WriteIs, QuietSets
<1>5. store' = Rewritten(c) /\ c.kind \in {"save", "snapshot", "delete"}
  BY <1>0, <1>2 DEF Write, CallShape
<1>6. CASE c.kind = "save"
  <2>1. store' = Saved(c)
    BY <1>5, <1>6 DEF Rewritten
  <2>2. c.id \in Targets
    BY <1>2, <1>6 DEF MaySave, Targets
  <2>3. c.id <= issued /\ (\A d \in Drawn' : d[2] # c.id) /\ \A h \in Copies : c.id \notin Versions(h)
    BY <1>0, <1>4, <2>2 DEF Apart
  <2>4. QED  BY <1>1, <1>2, <1>3, <2>1, <2>3, SavedIs DEF Stands
<1>7. CASE c.kind = "delete"
  <2>1. store' = Removed(c)
    BY <1>5, <1>7 DEF Rewritten
  <2>2. QED  BY <1>1, <1>2, <1>3, <2>1, RemovedIs DEF Stands
<1>8. CASE c.kind = "snapshot"
  <2>1. store' = Archived(c)
    BY <1>5, <1>8 DEF Rewritten
  <2>2. PICK d : d = <<s, c.rows>> /\ d \in Drawn
    BY <1>0, <1>2, <1>8 DEF Drawn
  <2>3. d[1] = s /\ d[2] = c.rows
    BY <2>2
  <2>4. c.rows <= issued /\ c.rows \notin Targets /\ \A h \in Copies : c.rows \notin Present(h)
    BY <1>0, <2>2, <2>3 DEF Apart
  <2>5. \A e \in Drawn' : e[2] # c.rows
    BY <1>0, <1>4, <2>2, <2>3 DEF Apart
  <2>6. QED  BY <1>1, <1>2, <1>3, <2>1, <2>4, <2>5, ArchivedIs DEF Stands
<1>9. QED  BY <1>5, <1>6, <1>7, <1>8

LEMMA WriteKeeps ==
  ASSUME VersionInv, NEW s \in Slot, Write(s)
  PROVE  VersionInv' /\ \A i \in Versions(store) \cap Present(store') : store'[i] = store[i]
<1>1. QuietCalls /\ UNCHANGED <<ws, issued>> /\ SeenFields \subseteq DOMAIN seen'
  BY WriteIs DEF VersionInv, Shapes, Write
<1>2. VersionInv'
  BY <1>1, WriteStands, StoreStep
<1>3. SameVersions(store, calls[s].read) /\ Apart(Copies, Drawn, Targets, issued) /\ store \in Copies
  BY WriteStands DEF VersionInv, Apart, Copies
<1>4. ASSUME NEW i \in Versions(store) \cap Present(store')
      PROVE  store'[i] = store[i]
  <2>1. i \in Id /\ store'[i].rows # 0 /\ i \in Present(store)
    BY DEF Present, Versions
  <2>2. store'[i] = calls[s].read[i]
    BY <1>3, <1>4, <2>1, WriteStands DEF Stands
  <2>3. i \in Present(calls[s].read)
    BY <2>1, <2>2 DEF Present
  <2>4. QED  BY <1>3, <2>2, <2>3 DEF SameVersions
<1>5. QED  BY <1>2, <1>4

-----------------------------------------------------------------------------
(* Every step.                                                             *)

LEMMA StepQuiet ==
  ASSUME Shapes, [Next]_vars
  PROVE  Quiet \/ \E s \in Slot : Handle(s)
  BY StewardQuiet, TimersQuiet, SettleQuiet, OtherQuiet DEF Next

LEMMA VersionsStart == Init => VersionInv
<1> SUFFICES ASSUME Init PROVE VersionInv
  OBVIOUS
<1>1. Shapes
  BY DEF Init, Shapes, Scratch, WindowFields, SeenFields, CallShape, CallFields, Idle
<1>2. Reading = {} /\ Copies = {store} /\ Drawn = {} /\ Present(store) = {} /\ DOMAIN store = Id
  BY DEF Init, Reading, Copies, Drawn, Present, Idle, NoEntry
<1>3. Targets = {None}
  BY DEF Init, Targets, MaySave, Scratch, Idle
<1>4. None \in Nat /\ None <= issued
  BY DEF Init, None
<1>5. QED  BY <1>1, <1>2, <1>3, <1>4 DEF VersionInv, Apart, SameVersions, Versions

LEMMA VersionsKept ==
  ASSUME VersionInv, [Next]_vars
  PROVE  VersionInv' /\ \A i \in Versions(store) \cap Present(store') : store'[i] = store[i]
<1>0. Shapes
  BY DEF VersionInv
<1>1. CASE Quiet
  BY <1>1, QuietVersions DEF Quiet
<1>2. ASSUME NEW s \in Slot, Handle(s)
      PROVE  VersionInv' /\ \A i \in Versions(store) \cap Present(store') : store'[i] = store[i]
  <2>1. CASE ReadForSave(s) \/ ReadForVersion(s) \/ ReadForDelete(s) \/ Serve(s)
    <3>1. VersionInv'
      BY <2>1, ReadForSaveKeeps, ReadForVersionKeeps, ReadForDeleteKeeps, ServeKeeps
    <3>2. store' = store
      BY <2>1 DEF ReadForSave, ReadForVersion, ReadForDelete, Serve
    <3>3. QED  BY <3>1, <3>2
  <2>2. CASE ReadSettings(s)
    BY <1>0, <2>2, SettingsQuiet, QuietVersions DEF Quiet
  <2>3. CASE Write(s)
    BY <2>3, WriteKeeps
  <2>4. CASE Wipe(s)
    BY <2>4, WipeKeeps DEF NoRows, Present
  <2>5. QED  BY <1>2, <2>1, <2>2, <2>3, <2>4 DEF Handle
<1>3. QED  BY <1>0, <1>1, <1>2, StepQuiet

(* Whatever calls overtake one another, a version stays as archived or     *)
(* goes, for any bounds, names and features (snapshot_glossary).           *)
THEOREM VersionsNeverChange == Spec => VersionsImmutable
<1>1. VersionInv /\ [Next]_vars => [\A i \in Versions(store) \cap Present(store') : store'[i] = store[i]]_vars
  BY VersionsKept
<1>2. VersionInv /\ [Next]_vars => VersionInv'
  BY VersionsKept
<1>3. QED  BY <1>1, <1>2, VersionsStart, PTL DEF Spec, VersionsImmutable

-----------------------------------------------------------------------------
(* After a wipe.                                                           *)

LEMMA QuietWipe == ASSUME WipeInv, Quiet PROVE WipeInv'
<1>1. \A s \in Reading' : s \in Reading /\ calls'[s].read = calls[s].read
                          /\ calls'[s].kind = calls[s].kind
  BY DEF Quiet, QuietCalls, FromOld, Reading
<1>2. store' = store /\ seen'.overtaken = seen.overtaken /\ (refusing' => refusing)
  BY DEF Quiet, SeenKept
<1>3. QED  BY <1>1, <1>2 DEF WipeInv, NoRows

LEMMA WipeStep ==
  ASSUME VersionInv, WipeInv, NEW s \in Slot, Handle(s)
  PROVE  WipeInv'
<1>0. Shapes /\ CallShape(calls[s]) /\ SeenFields \subseteq DOMAIN seen
  BY DEF VersionInv, Shapes
<1>1. CASE ReadForSave(s)
  <2>1. CASE refusing
    BY <1>0, <1>1, <2>1, RefusedIs, QuietWipe DEF ReadForSave
  <2>2. CASE ~refusing
    BY <1>1, <2>2 DEF ReadForSave, WipeInv
  <2>3. QED  BY <2>1, <2>2
<1>2. CASE ReadForVersion(s)
  <2>1. CASE calls[s].id \in Live(store)
    BY <1>2, <2>1 DEF ReadForVersion, WipeInv, NoRows, Live, Present
  <2>2. CASE calls[s].id \notin Live(store)
    BY <1>0, <1>2, <2>2, RefusedIs, QuietWipe DEF ReadForVersion
  <2>3. QED  BY <2>1, <2>2
<1>3. CASE ReadForDelete(s)
  <2>1. /\ calls'[s].read = store /\ calls'[s].kind = "delete"
        /\ \A o \in Slot : o # s => calls'[o] = calls[o]
    BY <1>0, <1>3 DEF ReadForDelete, Reads, Shapes, CallShape, CallFields
  <2>2. UNCHANGED <<store, refusing, seen>>
    BY <1>3 DEF ReadForDelete
  <2>3. \A o \in Reading' : o = s \/ (o \in Reading /\ calls'[o] = calls[o])
    BY <2>1 DEF Reading
  <2>4. QED  BY <2>1, <2>2, <2>3 DEF WipeInv, NoRows
<1>4. CASE ReadSettings(s)
  BY <1>0, <1>4, SettingsQuiet, QuietWipe
<1>5. CASE Serve(s)
  <2>1. \A o \in Slot : calls'[o].stage = "read" => calls'[o] = calls[o]
    <3>1. \A o \in Slot : o # s => calls'[o] = calls[o]
      BY <1>0, <1>5 DEF Serve, Refused, Shapes
    <3>2. CASE Refused(s)
      BY <1>0, <3>2 DEF Refused, Shapes, CallShape, CallFields, Idle
    <3>3. CASE ~Refused(s)
      <4>1. PICK e : calls' = [calls EXCEPT ![s] =
                       IF ~@.own THEN Idle
                       ELSE [@ EXCEPT !.stage = "done", !.name = e.name, !.rows = e.rows,
                                      !.copy = e.archived]]
        BY <1>5, <3>3 DEF Serve
      <4>2. QED  BY <1>0, <4>1 DEF Shapes, CallShape, CallFields, Idle
    <3>4. QED  BY <3>1, <3>2, <3>3
  <2>2. \A o \in Reading' : o \in Reading /\ calls'[o] = calls[o]
    BY <2>1 DEF Reading
  <2>3. UNCHANGED <<store, refusing, seen>>
    BY <1>5 DEF Serve
  <2>4. QED  BY <2>2, <2>3 DEF WipeInv, NoRows
<1>6. CASE Write(s)
  <2>1. /\ Reading' \subseteq Reading \ {s} /\ refusing' = refusing
        /\ seen'.overtaken = (seen.overtaken \/ \E o \in UnderWay \ {s} : calls[o].stage = "read")
        /\ s \in Reading
    BY <1>0, <1>6, WriteIs DEF Write, Reading, SeenFields
  <2>2. Reading \subseteq UnderWay
    BY DEF Reading, UnderWay, Free
  <2>3. ASSUME refusing', ~seen'.overtaken
        PROVE  NoRows(store') /\ Reading' = {}
    <3>1. refusing /\ ~seen.overtaken /\ Reading' = {}
      BY <2>1, <2>2, <2>3 DEF Reading
    <3>2. calls[s].kind = "delete" /\ NoRows(calls[s].read)
      BY <2>1, <3>1 DEF WipeInv
    <3>3. store' = Removed(calls[s])
      BY <1>6, <3>2 DEF Write, Rewritten
    <3>4. DOMAIN calls[s].read = Id
      BY <1>6, WriteStands DEF VersionInv, Apart
    <3>5. \A i \in Id : store'[i].rows = 0
      BY <3>2, <3>3, <3>4, RemovedIs DEF NoRows
    <3>6. QED  BY <3>1, <3>5 DEF NoRows
  <2>4. QED  BY <2>3 DEF WipeInv
<1>7. CASE Wipe(s)
  <2>1. Reading' \subseteq Reading /\ NoRows(store')
    BY <1>7, WipeKeeps
  <2>2. ~seen'.overtaken => \A o \in UnderWay : calls[o].stage # "read"
    BY <1>0, <1>7 DEF Wipe, SeenFields
  <2>3. ~seen'.overtaken => Reading' = {}
    BY <2>1, <2>2 DEF Reading, UnderWay, Free
  <2>4. QED  BY <2>1, <2>3 DEF WipeInv
<1>8. QED  BY <1>1, <1>2, <1>3, <1>4, <1>5, <1>6, <1>7 DEF Handle

(* In the seconds after a factory reset the store stays empty, unless a    *)
(* handler was between its read and its write (_FACTORY_RESET_AT).         *)
THEOREM WipedStaysEmpty == Spec => []WipeHolds
<1>1. Init => VersionInv /\ WipeInv
  BY VersionsStart DEF Init, WipeInv
<1>2. VersionInv /\ WipeInv /\ [Next]_vars => VersionInv' /\ WipeInv'
  <2> SUFFICES ASSUME VersionInv, WipeInv, [Next]_vars PROVE VersionInv' /\ WipeInv'
    OBVIOUS
  <2>1. Quiet \/ \E s \in Slot : Handle(s)
    BY StepQuiet DEF VersionInv
  <2>2. QED  BY <2>1, VersionsKept, QuietWipe, WipeStep
<1>3. WipeInv => WipeHolds
  BY DEF WipeInv, WipeHolds, NoRows, Present
<1>4. QED  BY <1>1, <1>2, <1>3, PTL DEF Spec

-----------------------------------------------------------------------------
(* Types, and that there is an id for each call that draws one.            *)

Window == [id : Id \cup {None}, name : Seq(Nat), rows : 0 .. MaxEdits,
           dirty : BOOLEAN, saving : BOOLEAN, snapshotDone : BOOLEAN,
           snapshotPending : BOOLEAN, saveTimer : BOOLEAN, wiped : BOOLEAN]

Call == [kind : {"none", "save", "snapshot", "open", "delete", "wipe", "settings"},
         stage : {"free", "sent", "read", "done", "failed"},
         id : Id \cup {None}, name : Seq(Nat), rows : Nat,
         read : [Id -> Entry], own : BOOLEAN, copy : BOOLEAN]

History == [crossed : BOOLEAN, overtaken : BOOLEAN, opened : Nat, removed : SUBSET Nat]

Sending == {s \in UnderWay : calls[s].stage = "sent" /\ Draws(calls[s])}

(* A store of rows that were edited; what a call carries at each stage.    *)
Stored(g, n) == g \in [Id -> Entry] /\ \A i \in Id : g[i].rows <= n

CallTyped(c, n) ==
  /\ c \in Call
  /\ Stored(c.read, n)
  /\ c.kind = "none" <=> c.stage = "free"
  /\ c.stage = "read" => c.kind \in {"save", "snapshot", "delete"}
  /\ c.stage \in {"done", "failed"} => c.own
  /\ c.kind = "save" => /\ c.rows \in 1 .. n
                        /\ c.stage \in {"read", "done"} => c.id \in Id
  /\ c.kind \in {"open", "delete", "snapshot"} => c.id \in Id
  /\ c.kind = "open" => c.rows \in 0 .. n
  /\ c.kind = "snapshot" /\ c.stage = "read" => c.rows \in Id /\ c.id \in Live(c.read)

CallsTyped == calls \in [Slot -> Call] /\ \A s \in Slot : CallTyped(calls[s], edits)

TypeInv ==
  /\ issued \in Nat /\ issued + Cardinality(Sending) <= MaxIds
  /\ refusing \in BOOLEAN /\ edits \in 0 .. MaxEdits /\ failures \in 0 .. MaxFailures
  /\ Stored(store, edits)
  /\ ws \in Window /\ ws.rows <= edits
  /\ seen \in History /\ seen.opened <= edits
  /\ CallsTyped

(* Calls that were sent wait for ids; how many they are.                   *)
LEMMA SendingFinite ==
  /\ IsFiniteSet(Sending) /\ Cardinality(Sending) \in Nat
  /\ IsFiniteSet(Sending') /\ Cardinality(Sending') \in Nat
<1>1. MaxCalls \in Int /\ IsFiniteSet(Slot)
  BY FS_Interval, BoundsAssumption DEF Slot
<1>2. Sending \subseteq Slot /\ Sending' \subseteq Slot
  BY DEF Sending, UnderWay
<1>3. QED  BY <1>1, <1>2, FS_Subset, FS_CardinalityType

LEMMA TypesHold ==
  ASSUME TypeInv
  PROVE  TypeOK
<1>1. issued \in 0 .. MaxIds
  BY SendingFinite, BoundsAssumption DEF TypeInv
<1>2. QED  BY <1>1 DEF TypeInv, TypeOK, Stored, Window, CallsTyped, Call

LEMMA CountSame ==
  ASSUME Sending' \subseteq Sending
  PROVE  Cardinality(Sending') <= Cardinality(Sending)
  BY SendingFinite, FS_Subset

LEMMA CountMore ==
  ASSUME NEW s, Sending' \subseteq Sending \cup {s}
  PROVE  Cardinality(Sending') <= Cardinality(Sending) + 1
<1>1. /\ IsFiniteSet(Sending \cup {s})
      /\ Cardinality(Sending \cup {s}) <= Cardinality(Sending) + 1
  BY SendingFinite, FS_AddElement
<1>2. Cardinality(Sending') <= Cardinality(Sending \cup {s})
  BY <1>1, FS_Subset
<1>3. QED  BY <1>1, <1>2, SendingFinite, FS_CardinalityType

LEMMA CountLess ==
  ASSUME NEW s \in Sending, Sending' \subseteq Sending \ {s}
  PROVE  Cardinality(Sending') + 1 <= Cardinality(Sending)
<1>1. /\ IsFiniteSet(Sending \ {s})
      /\ Cardinality(Sending \ {s}) = Cardinality(Sending) - 1
  BY SendingFinite, FS_RemoveElement
<1>2. Cardinality(Sending') <= Cardinality(Sending \ {s})
  BY <1>1, FS_Subset
<1>3. QED  BY <1>1, <1>2, SendingFinite, FS_CardinalityType

LEMMA CallTypedMore ==
  ASSUME NEW c, NEW m \in Nat, NEW n \in Nat, m <= n, CallTyped(c, m)
  PROVE  CallTyped(c, n)
<1>1. \A i \in Id : c.read[i].rows \in Nat /\ c.read[i].rows <= m
  BY BoundsAssumption DEF CallTyped, Stored, Entry
<1>2. QED  BY <1>1 DEF CallTyped, Stored

-----------------------------------------------------------------------------
(* The name a save gives.                                                  *)

LEMMA LeastExists ==
  ASSUME NEW S \in SUBSET Nat, S # {}
  PROVE  \E x \in S : \A y \in S : x <= y
<1>1. PICK x \in S : \A y \in S : ~(<<y, x>> \in OpToRel(<, Nat))
  BY NatLessThanWellFounded, WFMin
<1>2. \A y \in S : ~(y < x)
  BY <1>1 DEF OpToRel
<1>3. QED  BY <1>2

LEMMA IdleTyped == \A n \in Nat : CallTyped(Idle, n)
<1>1. NoEntry \in Entry /\ NoEntry.rows = 0
  BY BoundsAssumption DEF NoEntry, Entry
<1>2. PICK g : g = [i \in Id |-> NoEntry]
  OBVIOUS
<1>3. g \in [Id -> Entry] /\ \A i \in Id : g[i].rows = 0
  BY <1>1, <1>2
<1>4. Idle = [kind |-> "none", stage |-> "free", id |-> None, name |-> << >>,
              rows |-> 0, read |-> g, own |-> FALSE, copy |-> FALSE]
  BY <1>2 DEF Idle
<1>5. Idle \in Call /\ Idle.kind = "none" /\ Idle.stage = "free" /\ Idle.read = g
  BY <1>3, <1>4 DEF Call, None
<1>6. QED  BY <1>3, <1>5 DEF CallTyped, Stored

(* Of MaxIds + 1 candidates at least one is free, since every name taken   *)
(* is that of another id; the first of them is given.                      *)
LEMMA SuffixedIs ==
  ASSUME NEW g \in [Id -> Entry], NEW id \in Id, NEW name \in Seq(Nat)
  PROVE  /\ Suffixed(g, id, name) \in Seq(Nat)
         /\ id \notin Present(g) => Suffixed(g, id, name) \notin Taken(g, id)
         /\ id \in Present(g) => Suffixed(g, id, name) = name
<1>1. MaxIds \in Nat \ {0}
  BY BoundsAssumption
<1>2. CASE id \in Present(g) \/ name \notin Taken(g, id)
  BY <1>2 DEF Suffixed
<1>3. CASE id \notin Present(g) /\ name \in Taken(g, id)
  <2> DEFINE Tried == 2 .. MaxIds + 1
             Unused(n) == Append(name, n) \notin Taken(g, id)
             Owner == [n \in Tried |-> CHOOSE i \in Live(g) \ {id} : g[i].name = Append(name, n)]
             First(n) == Unused(n) /\ \A m \in 2 .. n - 1 : ~Unused(m)
  <2>1. \E n \in Tried : Unused(n)
    <3> SUFFICES ASSUME \A n \in Tried : ~Unused(n) PROVE FALSE
      OBVIOUS
    <3>1. \A n \in Tried : \E i \in Live(g) \ {id} : g[i].name = Append(name, n)
      BY DEF Taken
    <3>2. \A n \in Tried : Owner[n] \in Id \ {id} /\ g[Owner[n]].name = Append(name, n)
      BY <3>1 DEF Live, Present
    <3>3. Owner \in [Tried -> Id \ {id}]
      BY <3>2
    <3>4. IsFiniteSet(Tried) /\ Cardinality(Tried) = MaxIds
      BY <1>1, FS_Interval
    <3>5. IsFiniteSet(Id) /\ Cardinality(Id) = MaxIds
      BY <1>1, FS_Interval DEF Id
    <3>6. IsFiniteSet(Id \ {id}) /\ Cardinality(Id \ {id}) = MaxIds - 1
      BY <3>5, FS_RemoveElement
    <3>7. Cardinality(Id \ {id}) < Cardinality(Tried)
      BY <1>1, <3>4, <3>6
    <3> HIDE DEF Owner, Tried
    <3>8. PICK m, n \in Tried : m # n /\ Owner[m] = Owner[n]
      BY <3>3, <3>4, <3>6, <3>7, FS_PigeonHole
    <3>9. Append(name, m) = Append(name, n) /\ m \in Nat /\ n \in Nat
      BY <1>1, <3>2, <3>8 DEF Tried
    <3>10. Append(name, m)[Len(name) + 1] = m /\ Append(name, n)[Len(name) + 1] = n
      BY <3>9
    <3>11. QED  BY <3>8, <3>9, <3>10
  <2>2. PICK n \in Tried : Unused(n) /\ \A m \in Tried : Unused(m) => n <= m
    <3>1. {m \in Tried : Unused(m)} \in SUBSET Nat /\ {m \in Tried : Unused(m)} # {}
      BY <2>1, <1>1
    <3> HIDE DEF Unused, Tried
    <3>2. PICK x \in {m \in Tried : Unused(m)} : \A y \in {m \in Tried : Unused(m)} : x <= y
      BY <3>1, LeastExists
    <3>3. QED  BY <3>2
  <2>3. First(n)
    BY <2>2, <1>1
  <2>4. PICK k \in Tried : First(k) /\ Suffixed(g, id, name) = Append(name, k)
    <3>1. Suffixed(g, id, name) = Append(name, CHOOSE m \in Tried : First(m))
      BY <1>3 DEF Suffixed
    <3> HIDE DEF First, Tried
    <3>2. QED  BY <2>3, <3>1
  <2>5. k \in Nat
    BY <1>1
  <2>6. QED  BY <1>3, <2>4, <2>5
<1>4. QED  BY <1>2, <1>3

-----------------------------------------------------------------------------
(* What the window sends.                                                  *)

LEMMA MessageTyped ==
  ASSUME TypeInv, NEW kind \in {"save", "snapshot", "open", "delete", "wipe", "settings"}
  PROVE  Message(kind) = [Idle EXCEPT !.kind = kind, !.stage = "sent", !.own = TRUE, !.id = ws.id]
         /\ Message(kind) \in Call /\ Message(kind).stage = "sent" /\ Message(kind).kind = kind
         /\ Message(kind).own /\ ~Message(kind).copy /\ Message(kind).rows = 0
         /\ Message(kind).id = ws.id /\ Message(kind).read = Idle.read
<1>1. PICK i : i = Idle
  OBVIOUS
<1>2. i \in Call /\ i.rows = 0 /\ i.copy = FALSE /\ i.read = Idle.read
  BY <1>1, IdleTyped, BoundsAssumption DEF CallTyped, Idle
<1>3. ws.id \in Id \cup {None}
  BY DEF TypeInv, Window
<1>4. PICK m : m = [i EXCEPT !.kind = kind, !.stage = "sent", !.own = TRUE, !.id = ws.id]
  OBVIOUS
<1>5. /\ m \in Call /\ m.stage = "sent" /\ m.kind = kind /\ m.own /\ ~m.copy /\ m.rows = 0
      /\ m.id = ws.id /\ m.read = i.read
  BY <1>2, <1>3, <1>4 DEF Call
<1>6. QED  BY <1>1, <1>2, <1>4, <1>5 DEF Message

(* A call as it is sent.                                                   *)
Fresh(c) == /\ c.stage = "sent" /\ c.read = Idle.read /\ ~c.copy

LEMMA SentTyped ==
  ASSUME TypeInv, NEW kind \in {"snapshot", "open", "delete", "wipe", "settings"},
         NEW id \in Id \cup {None}, kind \in {"snapshot", "open", "delete"} => id \in Id
  PROVE  LET c == [Message(kind) EXCEPT !.id = id]
         IN  /\ CallTyped(c, edits) /\ Fresh(c) /\ c.kind = kind /\ c.id = id /\ c.own
             /\ IdsFor(c) = IF kind = "snapshot" THEN 1 ELSE 0
<1>1. PICK m : m = Message(kind)
  OBVIOUS
<1>2. /\ m \in Call /\ m.stage = "sent" /\ m.kind = kind /\ m.own /\ ~m.copy /\ m.rows = 0
      /\ m.read = Idle.read
  BY <1>1, MessageTyped
<1>3. PICK c : c = [m EXCEPT !.id = id]
  OBVIOUS
<1>4. /\ c \in Call /\ c.stage = "sent" /\ c.kind = kind /\ c.own /\ ~c.copy /\ c.rows = 0
      /\ c.id = id /\ c.read = Idle.read
  BY <1>2, <1>3 DEF Call
<1>5. Stored(c.read, edits)
  BY <1>4, IdleTyped DEF TypeInv, CallTyped
<1>6. CallTyped(c, edits)
  BY <1>4, <1>5 DEF CallTyped, TypeInv
<1>7. QED  BY <1>1, <1>3, <1>4, <1>6 DEF Fresh, IdsFor, Draws

LEMMA SaveTyped ==
  ASSUME TypeInv, NEW w \in Window, NEW n \in Nat, w.rows \in 1 .. n
  PROVE  LET c == SaveOf(w)
         IN  /\ CallTyped(c, n) /\ Fresh(c) /\ c.kind = "save" /\ c.own
             /\ c.id = w.id /\ c.name = w.name /\ c.rows = w.rows
             /\ IdsFor(c) = IF w.id = None THEN 1 ELSE 0
<1>1. PICK m : m = Message("save")
  OBVIOUS
<1>2. /\ m \in Call /\ m.stage = "sent" /\ m.kind = "save" /\ m.own /\ ~m.copy
      /\ m.read = Idle.read
  BY <1>1, MessageTyped
<1>3. PICK c : c = [m EXCEPT !.id = w.id, !.name = w.name, !.rows = w.rows]
  OBVIOUS
<1>a. w.id \in Id \cup {None} /\ w.name \in Seq(Nat) /\ w.rows \in Nat
  BY BoundsAssumption DEF Window
<1>4. /\ c \in Call /\ c.stage = "sent" /\ c.kind = "save" /\ c.own /\ ~c.copy
      /\ c.rows = w.rows /\ c.name = w.name /\ c.id = w.id /\ c.read = Idle.read
  BY <1>a, <1>2, <1>3 DEF Call
<1>5. Stored(c.read, n)
  BY <1>4, IdleTyped DEF CallTyped
<1>6. CallTyped(c, n)
  BY <1>4, <1>5 DEF CallTyped
<1>7. QED  BY <1>1, <1>3, <1>4, <1>6 DEF Fresh, IdsFor, Draws, SaveOf

(* Which calls wait for an id decides whether there is one for each.       *)
Waits(c) == c.stage = "sent" /\ Draws(c)

Enough == issued + Cardinality(Sending) <= MaxIds

LEMMA SendingIs ==
  /\ Sending = {s \in Slot : Waits(calls[s])}
  /\ Sending' = {s \in Slot : Waits(calls'[s])}
BY DEF Sending, UnderWay, Free, Waits

LEMMA EnoughStays ==
  ASSUME TypeInv, issued' = issued, \A o \in Slot : Waits(calls'[o]) => Waits(calls[o])
  PROVE  Enough'
<1>1. Sending' \subseteq Sending
  BY SendingIs
<1>2. QED  BY <1>1, CountSame, SendingFinite, BoundsAssumption DEF Enough, TypeInv

LEMMA EnoughLeft ==
  ASSUME TypeInv, issued' = issued, NEW k, NEW c, IdsFor(c) <= IdsLeft,
         \A o \in Slot : Waits(calls'[o]) => Waits(calls[o]) \/ (o = k /\ Draws(c))
  PROVE  Enough'
<1>0. IdsLeft = MaxIds - issued - Cardinality(Sending)
  BY DEF IdsLeft, Sending
<1>1. CASE Draws(c)
  <2>1. Sending' \subseteq Sending \cup {k}
    BY SendingIs
  <2>2. 1 <= MaxIds - issued - Cardinality(Sending)
    BY <1>0, <1>1 DEF IdsFor
  <2>3. Cardinality(Sending') <= Cardinality(Sending) + 1
    BY <2>1, CountMore
  <2>4. QED  BY <2>2, <2>3, SendingFinite, BoundsAssumption DEF Enough, TypeInv
<1>2. CASE ~Draws(c)
  BY <1>2, EnoughStays
<1>3. QED  BY <1>1, <1>2

LEMMA EnoughDrawn ==
  ASSUME TypeInv, issued' = issued + 1, NEW s \in Slot, Waits(calls[s]), ~Waits(calls'[s]),
         \A o \in Slot : Waits(calls'[o]) => Waits(calls[o])
  PROVE  Enough' /\ issued < MaxIds
<1>1. s \in Sending /\ Sending' \subseteq Sending \ {s}
  BY SendingIs
<1>2. Cardinality(Sending') + 1 <= Cardinality(Sending)
  BY <1>1, CountLess
<1>3. QED  BY <1>2, SendingFinite, BoundsAssumption DEF Enough, TypeInv

(* The calls that are under way after one was sent.                        *)
LEMMA SomeSlotIs ==
  ASSUME Free # {}
  PROVE  SomeSlot \in Free
<1>1. Free \in SUBSET Nat
  BY BoundsAssumption DEF Free, Slot
<1>2. \E s \in Free : \A o \in Free : s <= o
  BY <1>1, LeastExists
<1>3. QED  BY <1>2 DEF SomeSlot

LEMMA SentOut ==
  ASSUME TypeInv, NEW c, SendOut(c), c.stage = "sent",
         edits' \in Nat, edits <= edits', CallTyped(c, edits'), issued' = issued
  PROVE  /\ CallsTyped' /\ Enough'
         /\ SomeSlot \in Slot /\ calls'[SomeSlot] = c
         /\ \A o \in Slot : o # SomeSlot => calls'[o] = calls[o]
         /\ UnderWay' = UnderWay \cup {SomeSlot}
<1>1. SomeSlot \in Free /\ calls' = [calls EXCEPT ![SomeSlot] = c] /\ calls \in [Slot -> Call]
  BY SomeSlotIs DEF SendOut, TypeInv, CallsTyped
<1>2. /\ SomeSlot \in Slot /\ calls'[SomeSlot] = c
      /\ \A o \in Slot : o # SomeSlot => calls'[o] = calls[o]
      /\ calls' \in [Slot -> Call]
  BY <1>1 DEF Free, CallTyped
<1>3. CallsTyped'
  <2>1. \A o \in Slot : CallTyped(calls[o], edits')
    BY CallTypedMore DEF TypeInv, CallsTyped
  <2>2. QED  BY <1>2, <2>1 DEF CallsTyped
<1>4. Enough'
  <2>1. \A o \in Slot : Waits(calls'[o]) => Waits(calls[o]) \/ (o = SomeSlot /\ Draws(c))
    BY <1>2 DEF Waits
  <2>2. QED  BY <2>1, EnoughLeft DEF SendOut
<1>5. UnderWay' = UnderWay \cup {SomeSlot}
  BY <1>2 DEF UnderWay, Free
<1>6. QED  BY <1>2, <1>3, <1>4, <1>5

LEMMA DirtiedTyped ==
  ASSUME NEW w \in Window
  PROVE  /\ Dirtied(w) \in Window /\ Dirtied(w).id = w.id /\ Dirtied(w).name = w.name
         /\ Dirtied(w).rows = w.rows /\ Dirtied(w).dirty /\ Dirtied(w).wiped = w.wiped
         /\ Dirtied(w).snapshotDone = w.snapshotDone
         /\ Dirtied(w).snapshotPending <=> w.snapshotPending \/ AsksVersion(w)
<1>1. AsksVersion(w) \in BOOLEAN /\ (~w.wiped /\ CanAutosave(w)) \in BOOLEAN
  BY DEF AsksVersion
<1>2. PICK a \in BOOLEAN, b \in BOOLEAN :
        /\ a <=> w.snapshotPending \/ AsksVersion(w)
        /\ b <=> w.saveTimer \/ (~w.wiped /\ CanAutosave(w))
  <2>1. \A x \in BOOLEAN : \E y \in BOOLEAN : y <=> w.snapshotPending \/ x
    OBVIOUS
  <2>2. QED  OBVIOUS
<1>3. Dirtied(w) = [w EXCEPT !.dirty = TRUE, !.snapshotPending = a, !.saveTimer = b]
  BY <1>2 DEF Dirtied, Window
<1>4. QED  BY <1>2, <1>3 DEF Window

LEMMA AtOnce ==
  ASSUME TypeInv, NEW w \in Window, w.id = ws.id, edits' \in Nat, edits <= edits',
         w.rows <= edits', issued' = issued,
         NEW under \in [Slot -> Call], \A o \in Slot : CallTyped(under[o], edits'),
         \A o \in Slot : Waits(under[o]) => Waits(calls[o]),
         NEW free \in SUBSET Slot, SaveAtOnce(w, under, free)
  PROVE  /\ CallsTyped' /\ Enough' /\ ws' = [w EXCEPT !.saving = TRUE] /\ CanSave(w)
         /\ ~AsksVersion(ws) => \E k \in free : calls' = [under EXCEPT ![k] = SaveOf(w)]
<1>0. /\ CanSave(w) /\ IdsLeft >= 1 /\ w.rows \in 1 .. edits'
      /\ ws' = [w EXCEPT !.saving = TRUE]
  BY BoundsAssumption DEF SaveAtOnce, CanSave, Window
<1>1. PICK c : c = SaveOf(w)
  OBVIOUS
<1>2. /\ CallTyped(c, edits') /\ c.stage = "sent" /\ c.kind = "save" /\ c.id = w.id
  BY <1>0, <1>1, SaveTyped DEF Fresh
<1>3. CASE AsksVersion(ws)
  <2>1. ws.id # None /\ ws.id \in Id
    BY <1>3 DEF AsksVersion, TypeInv, Window
  <2>2. PICK m : m = Message("snapshot")
    OBVIOUS
  <2>3. m \in Call /\ m.stage = "sent" /\ m.kind = "snapshot" /\ m.id = ws.id /\ m.read = Idle.read
    BY <2>2, MessageTyped
  <2>4. CallTyped(m, edits')
    BY <2>1, <2>3, IdleTyped DEF CallTyped
  <2>5. PICK first, next : calls' = [under EXCEPT ![first] = m, ![next] = c]
    BY <1>1, <1>3, <2>2 DEF SaveAtOnce
  <2>6. /\ DOMAIN calls' = Slot
        /\ \A o \in Slot : calls'[o] = c \/ calls'[o] = under[o] \/ (o = first /\ calls'[o] = m)
    BY <2>5
  <2>7. CallsTyped'
    <3>1. calls' \in [Slot -> Call]
      BY <1>2, <2>3, <2>5 DEF CallTyped
    <3>2. QED  BY <1>2, <2>4, <2>6, <3>1 DEF CallsTyped
  <2>8. Enough'
    <3>1. ~Draws(c) /\ Draws(m) /\ IdsFor(m) <= IdsLeft
      <4>1. ~Draws(c) /\ Draws(m) /\ IdsFor(m) = 1
        BY <1>2, <2>1, <2>3 DEF Draws, IdsFor
      <4>2. IdsLeft \in Int
        BY SendingFinite, BoundsAssumption DEF IdsLeft, Sending, TypeInv
      <4>3. QED  BY <1>0, <4>1, <4>2
    <3>2. \A o \in Slot : Waits(calls'[o]) => Waits(calls[o]) \/ (o = first /\ Draws(m))
      BY <2>6, <3>1 DEF Waits
    <3>3. QED  BY <3>1, <3>2, EnoughLeft
  <2>9. QED  BY <1>0, <1>3, <2>7, <2>8
<1>4. CASE ~AsksVersion(ws)
  <2>1. IsFiniteSet(Slot) /\ IsFiniteSet(free)
    <3>1. MaxCalls \in Int
      BY BoundsAssumption
    <3>2. IsFiniteSet(Slot)
      BY <3>1, FS_Interval DEF Slot
    <3>3. QED  BY <3>2, FS_Subset
  <2>2. free # {} /\ free \in SUBSET Nat
    <3>1. Cardinality(free) >= 1
      BY <1>4 DEF SaveAtOnce
    <3>2. QED  BY <2>1, <3>1, FS_EmptySet, BoundsAssumption DEF Slot
  <2>3. \E s \in free : \A o \in free : s <= o
    BY <2>2, LeastExists
  <2>4. PICK k \in free : calls' = [under EXCEPT ![k] = c]
    BY <1>1, <1>4, <2>3 DEF SaveAtOnce
  <2>5. /\ calls' \in [Slot -> Call] /\ calls'[k] = c
        /\ \A o \in Slot : o # k => calls'[o] = under[o]
    BY <1>2, <2>4 DEF CallTyped
  <2>6. CallsTyped'
    BY <1>2, <2>5 DEF CallsTyped
  <2>7. Enough'
    <3>1. IdsFor(c) <= IdsLeft
      <4>1. IdsLeft \in Int
        BY SendingFinite, BoundsAssumption DEF IdsLeft, Sending, TypeInv
      <4>2. QED  BY <1>0, <4>1 DEF IdsFor
    <3>2. \A o \in Slot : Waits(calls'[o]) => Waits(calls[o]) \/ (o = k /\ Draws(c))
      BY <2>5 DEF Waits
    <3>3. QED  BY <3>1, <3>2, EnoughLeft
  <2>8. QED  BY <1>0, <1>1, <2>4, <2>6, <2>7
<1>5. QED  BY <1>3, <1>4

-----------------------------------------------------------------------------
(* What the steward and the timers do, step by step.                       *)

SeenSame == /\ seen' \in History /\ seen'.opened = seen.opened /\ seen'.removed = seen.removed
            /\ seen.crossed => seen'.crossed

SameNames(w, v) == /\ w.id = v.id /\ w.name = v.name
                   /\ w.snapshotDone = v.snapshotDone

(* A call goes out by itself; a save does it beside no version.            *)
Sends(c) == /\ SomeSlot \in Slot /\ calls'[SomeSlot] = c
            /\ \A o \in Slot : o # SomeSlot => calls'[o] = calls[o]
            /\ UnderWay' = UnderWay \cup {SomeSlot}

LEMMA WithRows ==
  ASSUME NEW w \in Window, NEW r \in 0 .. MaxEdits
  PROVE  LET v == [w EXCEPT !.rows = r]
         IN  /\ v \in Window /\ v.rows = r /\ v.id = w.id /\ v.name = w.name
             /\ v.snapshotDone = w.snapshotDone /\ v.snapshotPending = w.snapshotPending
BY DEF Window

LEMMA WithName ==
  ASSUME NEW w \in Window, NEW n \in Seq(Nat)
  PROVE  LET v == [w EXCEPT !.name = n]
         IN  /\ v \in Window /\ v.rows = w.rows /\ v.id = w.id /\ v.name = n
             /\ v.snapshotDone = w.snapshotDone /\ v.snapshotPending = w.snapshotPending
BY DEF Window

LEMMA Emptied ==
  ASSUME NEW w \in Window
  PROVE  LET v == [w EXCEPT !.id = None, !.name = << >>, !.rows = 0, !.dirty = FALSE]
         IN  /\ v \in Window /\ v.rows = 0 /\ v.id = None /\ v.name = << >> /\ ~v.dirty
             /\ v.snapshotDone = w.snapshotDone /\ v.snapshotPending = w.snapshotPending
<1>1. 0 \in 0 .. MaxEdits /\ << >> \in Seq(Nat)
  BY BoundsAssumption
<1> DEFINE v == [w EXCEPT !.id = None, !.name = << >>, !.rows = 0, !.dirty = FALSE]
<1>2. v \in Window
  BY <1>1 DEF Window
<1>3. QED  BY <1>2 DEF Window

LEMMA EditIs ==
  ASSUME TypeInv, Edit
  PROVE  /\ CallsTyped' /\ Enough' /\ edits' = edits + 1 /\ edits' <= MaxEdits
         /\ ws' \in Window /\ SameNames(ws', ws) /\ ws'.rows = edits + 1 /\ ws'.dirty
         /\ ws'.snapshotPending <=> ws.snapshotPending \/ AsksVersion(ws)
         /\ SeenSame
         /\ ~seen'.crossed => Awaited = {} /\ (AsksVersion(ws) => UnderWay = {})
         /\ \/ ~AsksVersion(ws) /\ calls' = calls
            \/ /\ AsksVersion(ws)
               /\ \E c \in Call : /\ Sends(c) /\ c.kind = "snapshot" /\ c.stage = "sent"
                                  /\ c.id = ws.id /\ c.own
<1>0. /\ edits \in Nat /\ edits < MaxEdits /\ edits' = edits + 1 /\ MaxEdits \in Nat
      /\ ws \in Window /\ seen \in History
  BY BoundsAssumption DEF Edit, TypeInv
<1>1. PICK w : w = [ws EXCEPT !.rows = edits + 1] /\ ws' = Dirtied(w)
  BY DEF Edit
<1>2. /\ w \in Window /\ w.rows = edits + 1 /\ w.id = ws.id /\ w.name = ws.name
      /\ w.snapshotDone = ws.snapshotDone /\ w.snapshotPending = ws.snapshotPending
  <2>1. edits + 1 \in 0 .. MaxEdits
    BY <1>0
  <2>2. QED  BY <1>0, <1>1, <2>1, WithRows
<1>3. /\ ws' \in Window /\ SameNames(ws', ws) /\ ws'.rows = edits + 1 /\ ws'.dirty
      /\ ws'.snapshotPending <=> ws.snapshotPending \/ AsksVersion(ws)
  <2>1. AsksVersion(w) <=> AsksVersion(ws)
    BY <1>2 DEF AsksVersion
  <2>2. QED  BY <1>1, <1>2, <2>1, DirtiedTyped DEF SameNames
<1>4. /\ SeenSame
      /\ ~seen'.crossed => Awaited = {} /\ (AsksVersion(ws) => UnderWay = {})
  BY <1>0 DEF Edit, Crossing, SeenSame, History
<1>5. CASE ~AsksVersion(ws)
  <2>1. calls' = calls /\ issued' = issued
    BY <1>5 DEF Edit, AskVersion
  <2>2. CallsTyped'
    BY <1>0, <2>1, CallTypedMore DEF CallsTyped, TypeInv
  <2>3. Enough'
    BY <2>1, EnoughStays
  <2>4. QED  BY <1>0, <1>3, <1>4, <1>5, <2>1, <2>2, <2>3
<1>6. CASE AsksVersion(ws)
  <2>1. ws.id \in Id
    BY <1>0, <1>6 DEF AsksVersion, Window
  <2>2. PICK c : c = [Message("snapshot") EXCEPT !.id = ws.id]
    OBVIOUS
  <2>3. /\ CallTyped(c, edits) /\ c.stage = "sent" /\ c.kind = "snapshot" /\ c.id = ws.id /\ c.own
    BY <2>1, <2>2, SentTyped DEF Fresh
  <2>4. SendOut(c) /\ issued' = issued
    BY <1>6, <2>2 DEF Edit, AskVersion, Send
  <2>5. CallTyped(c, edits') /\ edits' \in Nat /\ edits <= edits'
    BY <1>0, <2>3, CallTypedMore
  <2>6. CallsTyped' /\ Enough' /\ Sends(c)
    BY <2>3, <2>4, <2>5, SentOut DEF Sends
  <2>7. QED  BY <1>0, <1>3, <1>4, <1>6, <2>3, <2>6 DEF CallTyped
<1>7. QED  BY <1>5, <1>6

LEMMA NameItIs ==
  ASSUME TypeInv, NameIt
  PROVE  /\ CallsTyped' /\ Enough'
         /\ ws.id = None /\ ws'.id = None
         /\ ws' \in Window /\ ws'.rows = ws.rows /\ ws'.dirty
         /\ ws'.snapshotDone = ws.snapshotDone /\ ws'.snapshotPending = ws.snapshotPending
         /\ SeenSame
         /\ ~seen'.crossed => Awaited = {}
<1>0. ws \in Window /\ seen \in History /\ ws.id = None /\ BaseName \subseteq Nat
  <2>1. BaseName \subseteq Nat
    BY BoundsAssumption
  <2>2. ws.id = None
    BY DEF NameIt
  <2>3. ws \in Window /\ seen \in History
    BY DEF TypeInv
  <2>4. QED  BY <2>1, <2>2, <2>3
<1>a. PICK b \in BaseName : ws' = Dirtied([ws EXCEPT !.name = <<b>>])
  BY DEF NameIt
<1>1. PICK w : w = [ws EXCEPT !.name = <<b>>] /\ ws' = Dirtied(w)
  BY <1>a
<1>2. /\ w \in Window /\ w.rows = ws.rows /\ w.id = None
      /\ w.snapshotDone = ws.snapshotDone /\ w.snapshotPending = ws.snapshotPending
  <2>1. <<b>> \in Seq(Nat)
    BY <1>0
  <2>2. QED  BY <1>0, <1>1, <2>1, WithName
<1>3. /\ ws' \in Window /\ ws'.rows = ws.rows /\ ws'.dirty /\ ws'.id = None
      /\ ws'.snapshotDone = ws.snapshotDone /\ ws'.snapshotPending = ws.snapshotPending
  <2>1. ~AsksVersion(w)
    BY <1>2 DEF AsksVersion
  <2>2. QED  BY <1>1, <1>2, <2>1, DirtiedTyped DEF Window
<1>4. SeenSame /\ (~seen'.crossed => Awaited = {})
  BY <1>0 DEF NameIt, Crossing, SeenSame, History
<1>5. CallsTyped' /\ Enough'
  BY EnoughStays DEF NameIt, CallsTyped, TypeInv
<1>6. QED  BY <1>0, <1>3, <1>4, <1>5

LEMMA PostIs ==
  ASSUME TypeInv, NEW w \in Window, w.rows = ws.rows, w.rows # 0, Post(w),
         edits' = edits, issued' = issued
  PROVE  /\ CallsTyped' /\ Enough' /\ ws' = [w EXCEPT !.saving = TRUE]
         /\ SeenSame /\ (~seen'.crossed => UnderWay = {})
         /\ \E c \in Call : /\ Sends(c) /\ c.kind = "save" /\ c.stage = "sent" /\ c.own
                            /\ c.id = w.id /\ c.name = w.name /\ c.rows = w.rows
<1>1. PICK c : c = SaveOf(w)
  OBVIOUS
<1>2. edits \in Nat /\ w.rows \in 1 .. edits
  BY BoundsAssumption DEF TypeInv, Window
<1>3. /\ CallTyped(c, edits') /\ c.stage = "sent" /\ c.kind = "save" /\ c.own
      /\ c.id = w.id /\ c.name = w.name /\ c.rows = w.rows
  BY <1>1, <1>2, SaveTyped DEF Fresh
<1>4. CallsTyped' /\ Enough' /\ Sends(c)
  BY <1>1, <1>2, <1>3, SentOut DEF Sends, Post
<1>5. SeenSame /\ (~seen'.crossed => UnderWay = {})
  BY DEF Post, Crossing, SeenSame, History, TypeInv
<1>6. QED  BY <1>3, <1>4, <1>5 DEF CallTyped, Post

LEMMA TimersIs ==
  ASSUME TypeInv, Timers
  PROVE  /\ CallsTyped' /\ Enough' /\ ws' \in Window /\ SameNames(ws', ws)
         /\ ws'.rows = ws.rows /\ ws'.dirty = ws.dirty /\ ws'.snapshotPending = ws.snapshotPending
         /\ SeenSame
         /\ \/ calls' = calls
            \/ /\ ~seen'.crossed => UnderWay = {}
               /\ \E c \in Call : /\ Sends(c) /\ c.kind = "save" /\ c.stage = "sent" /\ c.own
                                  /\ c.id = ws.id /\ c.name = ws.name /\ c.rows = ws.rows
<1>0. ws \in Window /\ seen \in History /\ edits' = edits /\ issued' = issued
  BY DEF TypeInv, Timers, Debounce, Interval
<1>1. PICK w : /\ w = ws \/ w = [ws EXCEPT !.saveTimer = FALSE]
               /\ \/ Post(w) /\ CanSave(ws)
                  \/ ws' = w /\ UNCHANGED <<calls, seen>>
  BY DEF Timers, Debounce, Interval
<1>2. /\ w \in Window /\ SameNames(w, ws) /\ w.rows = ws.rows /\ w.dirty = ws.dirty
      /\ w.snapshotPending = ws.snapshotPending
  BY <1>0, <1>1 DEF Window, SameNames
<1>3. CASE ws' = w /\ UNCHANGED <<calls, seen>>
  <2>1. CallsTyped' /\ Enough'
    BY <1>0, <1>3, EnoughStays DEF TypeInv, CallsTyped
  <2>2. QED  BY <1>0, <1>2, <1>3, <2>1 DEF SeenSame
<1>4. CASE Post(w) /\ CanSave(ws)
  <2>1. w.rows # 0
    BY <1>2, <1>4 DEF CanSave
  <2>2. /\ CallsTyped' /\ Enough' /\ ws' = [w EXCEPT !.saving = TRUE]
        /\ SeenSame /\ (~seen'.crossed => UnderWay = {})
        /\ \E c \in Call : /\ Sends(c) /\ c.kind = "save" /\ c.stage = "sent" /\ c.own
                           /\ c.id = w.id /\ c.name = w.name /\ c.rows = w.rows
    BY <1>0, <1>2, <1>4, <2>1, PostIs
  <2>3. /\ ws' \in Window /\ SameNames(ws', w) /\ ws'.rows = w.rows /\ ws'.dirty = w.dirty
        /\ ws'.snapshotPending = w.snapshotPending
    BY <1>2, <2>2 DEF Window, SameNames
  <2>4. QED  BY <1>2, <2>2, <2>3 DEF SameNames
<1>5. QED  BY <1>1, <1>3, <1>4

LEMMA SaveNowIs ==
  ASSUME TypeInv, SaveNow
  PROVE  /\ CallsTyped' /\ Enough' /\ edits' = edits + 1 /\ edits' <= MaxEdits
         /\ ws' \in Window /\ SameNames(ws', ws) /\ ws'.rows = edits + 1 /\ ws'.dirty
         /\ SeenSame
         /\ ~seen'.crossed =>
              /\ UnderWay = {} /\ ~AsksVersion(ws) /\ ws'.snapshotPending = ws.snapshotPending
              /\ \E k \in Slot : \E c \in Call :
                   /\ calls'[k] = c /\ UnderWay' = {k}
                   /\ c.kind = "save" /\ c.stage = "sent" /\ c.own
                   /\ c.id = ws.id /\ c.name = ws.name /\ c.rows = edits + 1
<1>0. /\ edits \in Nat /\ edits < MaxEdits /\ edits' = edits + 1 /\ MaxEdits \in Nat
      /\ ws \in Window /\ seen \in History /\ issued' = issued
  BY BoundsAssumption DEF SaveNow, TypeInv
<1>1. PICK v : v = [ws EXCEPT !.rows = edits + 1]
  OBVIOUS
<1>2. /\ v \in Window /\ v.rows = edits + 1 /\ SameNames(v, ws) /\ v.id = ws.id
      /\ v.snapshotPending = ws.snapshotPending
  <2>1. edits + 1 \in 0 .. MaxEdits
    BY <1>0
  <2>2. QED  BY <1>0, <1>1, <2>1, WithRows DEF SameNames
<1>3. PICK w : w = Dirtied(v) /\ SaveAtOnce(w, calls, Free)
  BY <1>1 DEF SaveNow
<1>4. /\ w \in Window /\ w.rows = edits + 1 /\ SameNames(w, ws) /\ w.dirty /\ w.id = ws.id
      /\ w.snapshotPending <=> ws.snapshotPending \/ AsksVersion(v)
  BY <1>2, <1>3, DirtiedTyped DEF SameNames
<1>5. AsksVersion(v) <=> AsksVersion(ws)
  BY <1>2 DEF AsksVersion, SameNames
<1>6. /\ calls \in [Slot -> Call] /\ \A o \in Slot : CallTyped(calls[o], edits')
      /\ Free \in SUBSET Slot
  BY <1>0, CallTypedMore DEF TypeInv, CallsTyped, Free
<1>7. /\ CallsTyped' /\ Enough' /\ ws' = [w EXCEPT !.saving = TRUE] /\ CanSave(w)
      /\ ~AsksVersion(ws) => \E k \in Free : calls' = [calls EXCEPT ![k] = SaveOf(w)]
  BY <1>0, <1>3, <1>4, <1>6, AtOnce
<1>8. /\ ws' \in Window /\ SameNames(ws', ws) /\ ws'.rows = edits + 1 /\ ws'.dirty
      /\ ws'.snapshotPending = w.snapshotPending
  BY <1>4, <1>7 DEF Window, SameNames
<1>9. SeenSame /\ (~seen'.crossed => UnderWay = {} /\ ~AsksVersion(ws))
  BY <1>0 DEF SaveNow, Crossing, SeenSame, History
<1>10. ASSUME ~seen'.crossed
       PROVE  \E k \in Slot : \E c \in Call :
                /\ calls'[k] = c /\ UnderWay' = {k}
                /\ c.kind = "save" /\ c.stage = "sent" /\ c.own
                /\ c.id = ws.id /\ c.name = ws.name /\ c.rows = edits + 1
  <2>1. PICK c : c = SaveOf(w)
    OBVIOUS
  <2>2. PICK k \in Free : calls' = [calls EXCEPT ![k] = c]
    BY <1>7, <1>9, <1>10, <2>1
  <2>3. /\ CallTyped(c, edits') /\ c.kind = "save" /\ c.stage = "sent" /\ c.own
        /\ c.id = ws.id /\ c.name = ws.name /\ c.rows = edits + 1
    BY <1>0, <1>4, <2>1, SaveTyped DEF Fresh, SameNames
  <2>4. k \in Slot /\ calls'[k] = c /\ \A o \in Slot : o # k => calls'[o] = calls[o]
    BY <1>6, <2>2
  <2>5. UnderWay' = {k}
    BY <1>9, <1>10, <2>3, <2>4 DEF UnderWay, Free
  <2>6. QED  BY <2>3, <2>4, <2>5 DEF CallTyped
<1>11. ~seen'.crossed => ws'.snapshotPending = ws.snapshotPending
  BY <1>0, <1>4, <1>5, <1>8, <1>9 DEF Window
<1>12. QED  BY <1>0, <1>7, <1>8, <1>9, <1>10, <1>11

LEMMA ConfirmIs ==
  ASSUME TypeInv, ConfirmCategories
  PROVE  /\ CallsTyped' /\ Enough'
         /\ ws.id = None /\ ws' \in Window /\ SameNames(ws', ws) /\ ws'.rows = ws.rows /\ ws'.dirty
         /\ ws'.snapshotPending = ws.snapshotPending
         /\ SeenSame /\ (~seen'.crossed => UnderWay = {})
         /\ \E c \in Call : Sends(c) /\ c.kind = "settings" /\ c.stage = "sent" /\ c.own
<1>0. ws \in Window /\ seen \in History /\ ws.id = None /\ edits \in Nat /\ edits' = edits
      /\ issued' = issued
  BY BoundsAssumption DEF ConfirmCategories, TypeInv
<1>1. /\ ws' \in Window /\ SameNames(ws', ws) /\ ws'.rows = ws.rows /\ ws'.dirty
      /\ ws'.snapshotPending = ws.snapshotPending
  <2>1. ~AsksVersion(ws) /\ ws' = Dirtied(ws)
    BY <1>0 DEF AsksVersion, ConfirmCategories
  <2>2. QED  BY <1>0, <2>1, DirtiedTyped DEF SameNames, Window
<1>2. PICK c : c = [Message("settings") EXCEPT !.id = None]
  OBVIOUS
<1>3. CallTyped(c, edits) /\ c.stage = "sent" /\ c.kind = "settings" /\ c.own
  BY <1>2, SentTyped DEF Fresh
<1>4. SendOut(c)
  BY <1>2 DEF ConfirmCategories, Send
<1>5. CallsTyped' /\ Enough' /\ Sends(c)
  BY <1>0, <1>3, <1>4, SentOut DEF Sends
<1>6. SeenSame /\ (~seen'.crossed => UnderWay = {})
  BY <1>0 DEF ConfirmCategories, Crossing, SeenSame, History
<1>7. QED  BY <1>0, <1>1, <1>3, <1>5, <1>6 DEF CallTyped

LEMMA AskStoreIs ==
  ASSUME TypeInv, Open \/ Delete
  PROVE  /\ CallsTyped' /\ Enough' /\ ws' = ws
         /\ SeenSame /\ (~seen'.crossed => UnderWay = {})
         /\ \E c \in Call : /\ Sends(c) /\ c.kind \in {"open", "delete"} /\ c.stage = "sent"
                            /\ c.own /\ c.id \in Present(store)
<1>0. ws \in Window /\ seen \in History /\ edits \in Nat /\ edits' = edits /\ issued' = issued
      /\ ws' = ws
  BY BoundsAssumption DEF Open, Delete, TypeInv
<1>1. PICK kind \in {"open", "delete"}, i \in Present(store) : Send(kind, i)
  BY DEF Open, Delete
<1>2. i \in Id
  BY DEF Present
<1>3. PICK c : c = [Message(kind) EXCEPT !.id = i]
  OBVIOUS
<1>4. CallTyped(c, edits) /\ c.stage = "sent" /\ c.kind = kind /\ c.own /\ c.id = i
  BY <1>2, <1>3, SentTyped DEF Fresh
<1>a. SendOut(c) /\ CallTyped(c, edits')
  BY <1>0, <1>1, <1>3, <1>4 DEF Send
<1>5. CallsTyped' /\ Enough' /\ Sends(c)
  BY <1>0, <1>4, <1>a, SentOut DEF Sends
<1>6. SeenSame /\ (~seen'.crossed => UnderWay = {})
  BY <1>0 DEF Open, Delete, Crossing, SeenSame, History
<1>7. QED  BY <1>0, <1>4, <1>5, <1>6 DEF CallTyped

LEMMA AskWipeIs ==
  ASSUME TypeInv, AskWipe
  PROVE  /\ CallsTyped' /\ Enough'
         /\ ws' \in Window /\ ws'.id = None /\ ws'.name = << >> /\ ws'.rows = 0 /\ ~ws'.dirty
         /\ ws'.snapshotDone = ws.snapshotDone /\ ws'.snapshotPending = ws.snapshotPending
         /\ SeenSame /\ (~seen'.crossed => UnderWay = {})
         /\ \E c \in Call : Sends(c) /\ c.kind = "wipe" /\ c.stage = "sent" /\ c.own
<1>0. ws \in Window /\ seen \in History /\ edits \in Nat /\ edits' = edits /\ issued' = issued
  BY BoundsAssumption DEF AskWipe, TypeInv
<1>1. /\ ws' \in Window /\ ws'.id = None /\ ws'.name = << >> /\ ws'.rows = 0 /\ ~ws'.dirty
      /\ ws'.snapshotDone = ws.snapshotDone /\ ws'.snapshotPending = ws.snapshotPending
  <2>1. PICK w : w = [ws EXCEPT !.wiped = TRUE, !.saveTimer = FALSE]
    OBVIOUS
  <2>2. w \in Window /\ w.snapshotDone = ws.snapshotDone /\ w.snapshotPending = ws.snapshotPending
    BY <1>0, <2>1 DEF Window
  <2>3. ws' = [w EXCEPT !.id = None, !.name = << >>, !.rows = 0, !.dirty = FALSE]
    BY <1>0, <2>1 DEF AskWipe, Window
  <2>4. QED  BY <2>2, <2>3, Emptied
<1>2. PICK c : c = [Message("wipe") EXCEPT !.id = None]
  OBVIOUS
<1>3. CallTyped(c, edits) /\ c.stage = "sent" /\ c.kind = "wipe" /\ c.own
  BY <1>2, SentTyped DEF Fresh
<1>4. SendOut(c)
  BY <1>2 DEF AskWipe, Send
<1>5. CallsTyped' /\ Enough' /\ Sends(c)
  BY <1>0, <1>3, <1>4, SentOut DEF Sends
<1>6. SeenSame /\ (~seen'.crossed => UnderWay = {})
  BY <1>0 DEF AskWipe, Crossing, SeenSame, History
<1>7. QED  BY <1>1, <1>3, <1>5, <1>6 DEF CallTyped

LEMMA OrphanedTyped ==
  ASSUME NEW n \in Nat, NEW c, CallTyped(c, n)
  PROVE  /\ CallTyped(Orphaned(c), n) /\ (Waits(Orphaned(c)) => Waits(c))
         /\ \/ Orphaned(c) = Idle
            \/ /\ c.stage \in {"free", "sent", "read"} /\ ~Orphaned(c).own
               /\ Orphaned(c).stage = c.stage /\ Orphaned(c).kind = c.kind
               /\ Orphaned(c).id = c.id /\ Orphaned(c).name = c.name
               /\ Orphaned(c).rows = c.rows /\ Orphaned(c).read = c.read
               /\ Orphaned(c).copy = c.copy
<1>1. CASE c.stage \in {"done", "failed"}
  <2>1. Orphaned(c) = Idle /\ Idle.stage = "free"
    BY <1>1 DEF Orphaned, Idle
  <2>2. QED  BY <2>1, IdleTyped DEF Waits
<1>2. CASE c.stage \notin {"done", "failed"}
  <2>1. PICK d : d = [c EXCEPT !.own = FALSE]
    OBVIOUS
  <2>2. /\ d \in Call /\ ~d.own /\ d.stage = c.stage /\ d.kind = c.kind /\ d.id = c.id
        /\ d.name = c.name /\ d.rows = c.rows /\ d.read = c.read /\ d.copy = c.copy
    BY <2>1 DEF CallTyped, Call
  <2>3. CallTyped(d, n)
    BY <1>2, <2>2 DEF CallTyped
  <2>4. c.stage \in {"free", "sent", "read"}
    BY <1>2 DEF CallTyped, Call
  <2>5. QED  BY <1>2, <2>1, <2>2, <2>3, <2>4 DEF Orphaned, Waits, Draws
<1>3. QED  BY <1>1, <1>2

LEMMA ScratchTyped ==
  /\ Scratch \in Window /\ Scratch.id = None /\ Scratch.name = << >> /\ Scratch.rows = 0
  /\ ~Scratch.dirty /\ ~Scratch.snapshotDone /\ ~Scratch.snapshotPending
BY BoundsAssumption DEF Scratch, Window

LEMMA LeaveIs ==
  ASSUME TypeInv, Leave
  PROVE  /\ CallsTyped' /\ Enough' /\ ws' = Scratch /\ SeenSame
         /\ \/ calls' = [s \in Slot |-> Orphaned(calls[s])]
            \/ /\ ~seen'.crossed => UnderWay = {}
               /\ \E c \in Call :
                    /\ SomeSlot \in Slot /\ calls'[SomeSlot] = c
                    /\ \A o \in Slot : o # SomeSlot => calls'[o] = Orphaned(calls[o])
                    /\ c.kind = "save" /\ c.stage = "sent" /\ ~c.own
                    /\ c.id = ws.id /\ c.name = ws.name /\ c.rows = ws.rows
<1>0. /\ ws \in Window /\ seen \in History /\ edits \in Nat /\ edits' = edits /\ issued' = issued
      /\ ws' = Scratch /\ calls \in [Slot -> Call] /\ \A o \in Slot : CallTyped(calls[o], edits)
  BY BoundsAssumption DEF Leave, TypeInv, CallsTyped
<1>1. SeenSame /\ (~seen'.crossed => ~(ws.dirty /\ CanSave(ws) /\ UnderWay # {}))
  BY <1>0 DEF Leave, Crossing, SeenSame, History
<1>2. PICK left : left = [s \in Slot |-> Orphaned(calls[s])]
  OBVIOUS
<1>3. /\ left \in [Slot -> Call]
      /\ \A o \in Slot : /\ left[o] = Orphaned(calls[o]) /\ CallTyped(left[o], edits)
                         /\ Waits(left[o]) => Waits(calls[o])
  <2>1. \A o \in Slot : /\ left[o] = Orphaned(calls[o]) /\ CallTyped(left[o], edits)
                        /\ Waits(left[o]) => Waits(calls[o])
    BY <1>0, <1>2, OrphanedTyped
  <2>2. QED  BY <1>2, <2>1 DEF CallTyped
<1>4. CASE ~(ws.dirty /\ CanSave(ws))
  <2>1. calls' = left
    BY <1>2, <1>4 DEF Leave
  <2>2. CallsTyped' /\ Enough'
    BY <1>0, <1>3, <2>1, EnoughStays DEF CallsTyped
  <2>3. QED  BY <1>0, <1>1, <1>2, <2>1, <2>2
<1>5. CASE ws.dirty /\ CanSave(ws)
  <2>1. ws.rows \in 1 .. edits
    BY <1>5, BoundsAssumption DEF CanSave, TypeInv, Window
  <2>2. PICK m : m = SaveOf(ws)
    OBVIOUS
  <2>3. /\ CallTyped(m, edits) /\ m.stage = "sent" /\ m.kind = "save"
        /\ m.id = ws.id /\ m.name = ws.name /\ m.rows = ws.rows
    BY <1>0, <2>1, <2>2, SaveTyped DEF Fresh
  <2>4. PICK c : c = [m EXCEPT !.own = FALSE]
    OBVIOUS
  <2>5. /\ c \in Call /\ c.stage = "sent" /\ c.kind = "save" /\ ~c.own /\ c.read = m.read
        /\ c.id = m.id /\ c.name = m.name /\ c.rows = m.rows
    BY <2>3, <2>4 DEF CallTyped, Call
  <2>6. CallTyped(c, edits)
    BY <2>3, <2>5 DEF CallTyped
  <2>7. /\ Free # {} /\ IdsFor(m) <= IdsLeft /\ calls' = [left EXCEPT ![SomeSlot] = c]
    BY <1>2, <1>5, <2>2, <2>4 DEF Leave
  <2>8. SomeSlot \in Slot
    BY <2>7, SomeSlotIs DEF Free
  <2>9. /\ calls' \in [Slot -> Call] /\ calls'[SomeSlot] = c
        /\ \A o \in Slot : o # SomeSlot => calls'[o] = left[o]
    BY <1>3, <2>5, <2>7, <2>8
  <2>10. CallsTyped'
    BY <1>0, <1>3, <2>6, <2>9 DEF CallsTyped
  <2>11. Enough'
    <3>1. \A o \in Slot : Waits(calls'[o]) => Waits(calls[o]) \/ (o = SomeSlot /\ Draws(m))
      BY <1>3, <2>3, <2>5, <2>9 DEF Waits, Draws
    <3>2. QED  BY <1>0, <2>7, <3>1, EnoughLeft
  <2>12. /\ \A o \in Slot : o # SomeSlot => calls'[o] = Orphaned(calls[o])
         /\ c.id = ws.id /\ c.name = ws.name /\ c.rows = ws.rows
         /\ ~seen'.crossed => UnderWay = {}
    BY <1>1, <1>3, <1>5, <2>3, <2>5, <2>9
  <2>13. QED  BY <1>0, <1>1, <2>5, <2>8, <2>9, <2>10, <2>11, <2>12
<1>6. QED  BY <1>4, <1>5

-----------------------------------------------------------------------------
(* What the server does with one call.                                     *)

Touches(s, c) == calls'[s] = c /\ \A o \in Slot : o # s => calls'[o] = calls[o]

SameCall(d, c) == /\ d.kind = c.kind /\ d.id = c.id /\ d.name = c.name /\ d.rows = c.rows
                  /\ d.own = c.own /\ d.copy = c.copy

LEMMA Touched ==
  ASSUME TypeInv, NEW s \in Slot, NEW c, CallTyped(c, edits), calls' = [calls EXCEPT ![s] = c],
         edits' = edits
  PROVE  /\ CallsTyped' /\ Touches(s, c)
         /\ issued' = issued /\ (Waits(c) => Waits(calls[s])) => Enough'
<1>1. calls \in [Slot -> Call] /\ \A o \in Slot : CallTyped(calls[o], edits)
  BY DEF TypeInv, CallsTyped
<1>2. calls' \in [Slot -> Call] /\ Touches(s, c)
  BY <1>1 DEF CallTyped, Touches
<1>3. CallsTyped'
  BY <1>1, <1>2 DEF CallsTyped, Touches
<1>4. QED  BY <1>2, <1>3, EnoughStays DEF Touches

LEMMA StageTyped ==
  ASSUME NEW c \in Call, NEW stage \in {"free", "sent", "read", "done", "failed"}
  PROVE  LET d == [c EXCEPT !.stage = stage]
         IN  d \in Call /\ d.stage = stage /\ SameCall(d, c) /\ d.read = c.read
BY DEF Call, SameCall

LEMMA RefusedEffect ==
  ASSUME TypeInv, NEW s \in Slot, calls[s].stage \in {"sent", "done"}, Refused(s),
         edits' = edits, issued' = issued
  PROVE  /\ CallsTyped' /\ Enough'
         /\ \E c \in Call : /\ Touches(s, c)
                            /\ \/ c = Idle /\ ~calls[s].own
                               \/ SameCall(c, calls[s]) /\ c.stage = "failed" /\ c.own
<1>0. calls \in [Slot -> Call] /\ CallTyped(calls[s], edits) /\ edits \in Nat
  BY BoundsAssumption DEF TypeInv, CallsTyped
<1>1. CASE ~calls[s].own
  <2>1. calls' = [calls EXCEPT ![s] = Idle]
    BY <1>0, <1>1 DEF Refused
  <2>2. CallTyped(Idle, edits) /\ Idle.stage = "free"
    BY <1>0, IdleTyped DEF Idle
  <2>3. QED  BY <1>1, <2>1, <2>2, Touched DEF Waits, CallTyped
<1>2. CASE calls[s].own
  <2>1. PICK c : c = [calls[s] EXCEPT !.stage = "failed"]
    OBVIOUS
  <2>2. c \in Call /\ c.stage = "failed" /\ SameCall(c, calls[s]) /\ c.read = calls[s].read
    BY <1>0, <2>1, StageTyped DEF CallTyped
  <2>3. calls' = [calls EXCEPT ![s] = c]
    BY <1>0, <1>2, <2>1 DEF Refused
  <2>4. CallTyped(c, edits)
    BY <1>0, <1>2, <2>2 DEF CallTyped, SameCall
  <2>5. QED  BY <1>2, <2>2, <2>3, <2>4, Touched DEF Waits, SameCall
<1>3. QED  BY <1>1, <1>2

LEMMA ReadEffect ==
  ASSUME TypeInv, NEW s \in Slot, calls[s].stage = "sent", calls[s].kind \in {"save", "delete"},
         NEW id \in Id, Reads(s, id), edits' = edits
  PROVE  /\ CallsTyped'
         /\ \E c \in Call : /\ Touches(s, c) /\ c.stage = "read" /\ c.read = store /\ c.id = id
                            /\ c.kind = calls[s].kind /\ c.name = calls[s].name
                            /\ c.rows = calls[s].rows /\ c.own = calls[s].own
<1>0. calls \in [Slot -> Call] /\ CallTyped(calls[s], edits) /\ Stored(store, edits)
  BY DEF TypeInv, CallsTyped
<1>1. PICK c : c = [calls[s] EXCEPT !.stage = "read", !.read = store, !.id = id]
  OBVIOUS
<1>2. /\ c \in Call /\ c.stage = "read" /\ c.read = store /\ c.id = id
      /\ c.kind = calls[s].kind /\ c.name = calls[s].name
      /\ c.rows = calls[s].rows /\ c.own = calls[s].own
  BY <1>0, <1>1 DEF CallTyped, Call, Stored
<1>3. CallTyped(c, edits)
  BY <1>0, <1>2 DEF CallTyped
<1>4. calls' = [calls EXCEPT ![s] = c]
  BY <1>0, <1>1 DEF Reads
<1>5. QED  BY <1>2, <1>3, <1>4, Touched

(* A handler that has read the store for a save or a deletion.             *)
ReadAs(s, id) ==
  \E c \in Call : /\ Touches(s, c) /\ c.stage = "read" /\ c.read = store /\ c.id = id
                  /\ c.kind = calls[s].kind /\ c.name = calls[s].name
                  /\ c.rows = calls[s].rows /\ c.own = calls[s].own

(* A call that was refused or lost.                                        *)
Lost(s) == \E c \in Call : /\ Touches(s, c)
                           /\ \/ c = Idle /\ ~calls[s].own
                              \/ SameCall(c, calls[s]) /\ c.stage = "failed" /\ c.own

LEMMA ReadForSaveIs ==
  ASSUME TypeInv, NEW s \in Slot, ReadForSave(s)
  PROVE  /\ CallsTyped' /\ Enough' /\ calls[s].kind = "save" /\ calls[s].stage = "sent"
         /\ \/ issued' = issued /\ Lost(s)
            \/ /\ issued' = issued /\ calls[s].id \in Id /\ ReadAs(s, calls[s].id)
            \/ /\ issued' = issued + 1 /\ issued + 1 \in Id /\ calls[s].id = None
               /\ ReadAs(s, issued + 1)
<1>0. /\ calls[s].kind = "save" /\ calls[s].stage = "sent" /\ edits' = edits
      /\ calls[s] \in Call /\ issued \in Nat
  BY DEF ReadForSave, TypeInv, CallsTyped
<1>1. CASE refusing
  BY <1>0, <1>1, RefusedEffect DEF ReadForSave, Lost
<1>2. CASE ~refusing /\ calls[s].id # None
  <2>1. Reads(s, calls[s].id) /\ issued' = issued
    BY <1>2 DEF ReadForSave
  <2>2. calls[s].id \in Id
    BY <1>0, <1>2 DEF Call
  <2>3. CallsTyped' /\ ReadAs(s, calls[s].id)
    BY <1>0, <2>1, <2>2, ReadEffect DEF ReadAs
  <2>4. Enough'
    BY <2>1, <2>3, EnoughStays DEF ReadAs, Touches, Waits
  <2>5. QED  BY <1>0, <2>1, <2>2, <2>3, <2>4
<1>3. CASE ~refusing /\ calls[s].id = None
  <2>1. Reads(s, issued + 1) /\ issued' = issued + 1
    BY <1>3 DEF ReadForSave
  <2>2. Waits(calls[s])
    BY <1>0, <1>3 DEF Waits, Draws
  <2>3. /\ calls'[s].stage = "read" /\ \A o \in Slot : o # s => calls'[o] = calls[o]
    <3>1. calls' = [calls EXCEPT ![s] = [calls[s] EXCEPT !.stage = "read", !.read = store, !.id = issued + 1]]
      BY <2>1 DEF Reads
    <3>2. calls \in [Slot -> Call]
      BY DEF TypeInv, CallsTyped
    <3>3. QED  BY <1>0, <3>1, <3>2 DEF Call
  <2>4. Enough' /\ issued < MaxIds
    BY <2>1, <2>2, <2>3, EnoughDrawn DEF Waits
  <2>5. issued + 1 \in Id
    BY <1>0, <2>4, BoundsAssumption DEF Id
  <2>6. CallsTyped' /\ ReadAs(s, issued + 1)
    BY <1>0, <2>1, <2>5, ReadEffect DEF ReadAs
  <2>7. QED  BY <1>0, <1>3, <2>1, <2>4, <2>5, <2>6
<1>4. QED  BY <1>1, <1>2, <1>3

LEMMA ReadForDeleteIs ==
  ASSUME TypeInv, NEW s \in Slot, ReadForDelete(s)
  PROVE  /\ CallsTyped' /\ Enough' /\ calls[s].kind = "delete" /\ calls[s].stage = "sent"
         /\ issued' = issued /\ ReadAs(s, calls[s].id)
<1>0. /\ calls[s].kind = "delete" /\ calls[s].stage = "sent" /\ edits' = edits
      /\ calls[s].id \in Id /\ issued' = issued /\ Reads(s, calls[s].id)
  BY DEF ReadForDelete, TypeInv, CallsTyped, CallTyped
<1>1. CallsTyped' /\ ReadAs(s, calls[s].id)
  BY <1>0, ReadEffect DEF ReadAs
<1>2. Enough'
  BY <1>0, <1>1, EnoughStays DEF ReadAs, Touches, Waits
<1>3. QED  BY <1>0, <1>1, <1>2

LEMMA ReadForVersionIs ==
  ASSUME TypeInv, NEW s \in Slot, ReadForVersion(s)
  PROVE  /\ CallsTyped' /\ Enough' /\ calls[s].kind = "snapshot" /\ calls[s].stage = "sent"
         /\ \/ issued' = issued /\ calls[s].id \notin Live(store) /\ Lost(s)
            \/ /\ issued' = issued + 1 /\ issued + 1 \in Id /\ calls[s].id \in Live(store)
               /\ \E c \in Call : /\ Touches(s, c) /\ c.stage = "read" /\ c.read = store
                                  /\ c.kind = "snapshot" /\ c.id = calls[s].id
                                  /\ c.rows = issued + 1 /\ c.own = calls[s].own
                                  /\ c.name = store[calls[s].id].name
<1>0. /\ calls[s].kind = "snapshot" /\ calls[s].stage = "sent" /\ edits' = edits
      /\ CallTyped(calls[s], edits) /\ issued \in Nat /\ Stored(store, edits)
      /\ calls \in [Slot -> Call]
  BY DEF ReadForVersion, TypeInv, CallsTyped
<1>1. CASE calls[s].id \notin Live(store)
  BY <1>0, <1>1, RefusedEffect DEF ReadForVersion, Lost
<1>2. CASE calls[s].id \in Live(store)
  <2>1. calls[s].id \in Id /\ store[calls[s].id] \in Entry
    BY <1>0, <1>2 DEF Live, Present, Stored
  <2>2. store[calls[s].id].name \in Seq(Nat)
    BY <2>1 DEF Entry
  <2>3. issued' = issued + 1 /\ Waits(calls[s])
    BY <1>0, <1>2 DEF Waits, Draws, ReadForVersion
  <2>4. PICK c : c = [calls[s] EXCEPT !.stage = "read", !.read = store,
                                      !.name = store[calls[s].id].name, !.rows = issued + 1]
    OBVIOUS
  <2>5. calls' = [calls EXCEPT ![s] = c]
    BY <1>0, <1>2, <2>4 DEF ReadForVersion
  <2>6. /\ c \in Call /\ c.stage = "read" /\ c.read = store /\ c.id = calls[s].id
        /\ c.kind = "snapshot" /\ c.name = store[calls[s].id].name /\ c.rows = issued + 1
        /\ c.own = calls[s].own
    <3>1. issued + 1 \in Nat /\ calls[s] \in Call /\ store \in [Id -> Entry]
      BY <1>0 DEF CallTyped, Stored
    <3>2. PICK old, name, n : old = calls[s] /\ name = store[calls[s].id].name /\ n = issued + 1
      OBVIOUS
    <3>3. c = [old EXCEPT !.stage = "read", !.read = store, !.name = name, !.rows = n]
      BY <2>4, <3>2
    <3>4. /\ c \in Call /\ c.stage = "read" /\ c.read = store /\ c.id = old.id
          /\ c.kind = old.kind /\ c.name = name /\ c.rows = n /\ c.own = old.own
      BY <2>2, <3>1, <3>2, <3>3 DEF Call
    <3>5. QED  BY <1>0, <3>2, <3>4
  <2>7. Touches(s, c)
    BY <1>0, <2>5, <2>6 DEF Touches
  <2>8. Enough' /\ issued < MaxIds
    BY <2>3, <2>6, <2>7, EnoughDrawn DEF Waits, Touches
  <2>9. issued + 1 \in Id
    BY <1>0, <2>8, BoundsAssumption DEF Id
  <2>10. CallTyped(c, edits)
    BY <1>0, <1>2, <2>1, <2>6, <2>9 DEF CallTyped
  <2>11. CallsTyped'
    BY <1>0, <2>5, <2>10, Touched
  <2>12. QED  BY <1>0, <1>2, <2>3, <2>6, <2>7, <2>8, <2>9, <2>11
<1>3. QED  BY <1>1, <1>2

LEMMA ReadSettingsIs ==
  ASSUME TypeInv, NEW s \in Slot, ReadSettings(s)
  PROVE  /\ CallsTyped' /\ Enough' /\ calls[s].kind = "settings"
         /\ \E c \in Call : /\ Touches(s, c)
                            /\ c = Idle \/ (c.kind = "settings" /\ c.stage = "done")
<1>0. /\ calls[s].kind = "settings" /\ calls[s].stage = "sent" /\ edits' = edits
      /\ issued' = issued /\ CallTyped(calls[s], edits) /\ calls \in [Slot -> Call]
      /\ edits \in Nat
  BY BoundsAssumption DEF ReadSettings, TypeInv, CallsTyped
<1>1. PICK d : d = [calls[s] EXCEPT !.stage = "done"]
  OBVIOUS
<1>2. d \in Call /\ d.stage = "done" /\ d.kind = "settings" /\ d.read = calls[s].read
      /\ SameCall(d, calls[s])
  BY <1>0, <1>1, StageTyped DEF CallTyped, SameCall
<1>3. calls' = [calls EXCEPT ![s] = IF calls[s].own THEN d ELSE Idle]
  BY <1>0, <1>1 DEF ReadSettings
<1>4. CASE calls[s].own
  <2>1. CallTyped(d, edits)
    BY <1>0, <1>2, <1>4 DEF CallTyped, SameCall
  <2>2. CallsTyped' /\ Enough' /\ Touches(s, d)
    BY <1>0, <1>2, <1>3, <1>4, <2>1, Touched DEF Waits
  <2>3. QED  BY <1>0, <1>2, <2>2
<1>5. CASE ~calls[s].own
  <2>1. CallTyped(Idle, edits) /\ Idle.stage = "free"
    BY <1>0, IdleTyped DEF Idle
  <2>2. CallsTyped' /\ Enough' /\ Touches(s, Idle)
    BY <1>0, <1>3, <1>5, <2>1, Touched DEF Waits
  <2>3. QED  BY <1>0, <2>1, <2>2 DEF CallTyped
<1>6. QED  BY <1>4, <1>5

LEMMA WipeIs ==
  ASSUME TypeInv, NEW s \in Slot, Wipe(s)
  PROVE  /\ CallsTyped' /\ Enough' /\ calls[s].kind = "wipe"
         /\ store' = [i \in Id |-> NoEntry] /\ SeenSame /\ seen'.crossed = seen.crossed
         /\ \E c \in Call : Touches(s, c) /\ (c = Idle \/ (c.kind = "wipe" /\ c.stage = "done"))
<1>0. /\ calls[s].kind = "wipe" /\ calls[s].stage = "sent" /\ edits' = edits
      /\ issued' = issued /\ CallTyped(calls[s], edits) /\ calls \in [Slot -> Call]
      /\ store' = [i \in Id |-> NoEntry] /\ seen \in History /\ edits \in Nat
  BY BoundsAssumption DEF Wipe, TypeInv, CallsTyped
<1>1. PICK d : d = [calls[s] EXCEPT !.stage = "done"]
  OBVIOUS
<1>2. d \in Call /\ d.stage = "done" /\ d.kind = "wipe" /\ d.read = calls[s].read
      /\ SameCall(d, calls[s])
  BY <1>0, <1>1, StageTyped DEF CallTyped, SameCall
<1>3. calls' = [calls EXCEPT ![s] = IF calls[s].own THEN d ELSE Idle]
  BY <1>0, <1>1 DEF Wipe
<1>4. SeenSame /\ seen'.crossed = seen.crossed
  BY <1>0 DEF Wipe, SeenSame, History
<1>5. CASE calls[s].own
  <2>1. CallTyped(d, edits)
    BY <1>0, <1>2, <1>5 DEF CallTyped, SameCall
  <2>2. CallsTyped' /\ Enough' /\ Touches(s, d)
    BY <1>0, <1>2, <1>3, <1>5, <2>1, Touched DEF Waits
  <2>3. QED  BY <1>0, <1>2, <1>4, <2>2
<1>6. CASE ~calls[s].own
  <2>1. CallTyped(Idle, edits) /\ Idle.stage = "free"
    BY <1>0, IdleTyped DEF Idle
  <2>2. CallsTyped' /\ Enough' /\ Touches(s, Idle)
    BY <1>0, <1>3, <1>6, <2>1, Touched DEF Waits
  <2>3. QED  BY <1>0, <1>4, <2>1, <2>2 DEF CallTyped
<1>7. QED  BY <1>5, <1>6

LEMMA ServeIs ==
  ASSUME TypeInv, NEW s \in Slot, Serve(s)
  PROVE  /\ CallsTyped' /\ Enough' /\ calls[s].kind = "open" /\ calls[s].id \in Id
         /\ \/ Lost(s)
            \/ \E c \in Call : LET e == store[calls[s].id] IN
                 /\ Touches(s, c) /\ c.kind = "open" /\ c.stage = "done" /\ c.id = calls[s].id
                 /\ c.own /\ c.rows = e.rows /\ c.name = e.name /\ c.copy = e.archived
                 /\ e.rows # 0
<1>0. /\ calls[s].kind = "open" /\ calls[s].stage = "sent" /\ edits' = edits
      /\ issued' = issued /\ CallTyped(calls[s], edits) /\ calls \in [Slot -> Call]
      /\ calls[s].id \in Id /\ Stored(store, edits) /\ edits \in Nat
  BY BoundsAssumption DEF Serve, TypeInv, CallsTyped, CallTyped
<1>1. PICK e : e = store[calls[s].id]
  OBVIOUS
<1>2. /\ e.name \in Seq(Nat) /\ e.rows \in 0 .. edits /\ e.archived \in BOOLEAN
  <2>1. e \in Entry /\ e.rows <= edits
    BY <1>0, <1>1 DEF Stored
  <2>2. QED  BY <1>0, <2>1, BoundsAssumption DEF Entry
<1>3. CASE e.rows = 0
  BY <1>0, <1>1, <1>3, RefusedEffect DEF Serve, Lost
<1>4. CASE e.rows # 0 /\ ~calls[s].own
  <2>1. CallTyped(Idle, edits) /\ Idle.stage = "free"
    BY <1>0, IdleTyped DEF Idle
  <2>2. calls' = [calls EXCEPT ![s] = Idle]
    BY <1>0, <1>1, <1>4 DEF Serve
  <2>3. CallsTyped' /\ Enough' /\ Touches(s, Idle)
    BY <1>0, <2>1, <2>2, Touched DEF Waits
  <2>4. QED  BY <1>0, <1>4, <2>1, <2>3 DEF CallTyped, Lost
<1>5. CASE e.rows # 0 /\ calls[s].own
  <2>1. PICK c : c = [calls[s] EXCEPT !.stage = "done", !.name = e.name, !.rows = e.rows,
                                      !.copy = e.archived]
    OBVIOUS
  <2>2. /\ c \in Call /\ c.stage = "done" /\ c.kind = "open" /\ c.id = calls[s].id /\ c.own
        /\ c.name = e.name /\ c.rows = e.rows /\ c.copy = e.archived /\ c.read = calls[s].read
    <3>1. e.rows \in Nat /\ calls[s] \in Call
      BY <1>0, <1>2 DEF CallTyped
    <3>2. PICK old, name, n, copy : /\ old = calls[s] /\ name = e.name /\ n = e.rows
                                    /\ copy = e.archived
      OBVIOUS
    <3>3. c = [old EXCEPT !.stage = "done", !.name = name, !.rows = n, !.copy = copy]
      BY <2>1, <3>2
    <3>4. /\ c \in Call /\ c.stage = "done" /\ c.read = old.read /\ c.id = old.id
          /\ c.kind = old.kind /\ c.name = name /\ c.rows = n /\ c.own = old.own
          /\ c.copy = copy
      BY <1>2, <3>1, <3>2, <3>3 DEF Call
    <3>5. QED  BY <1>0, <1>5, <3>2, <3>4
  <2>3. CallTyped(c, edits)
    BY <1>0, <1>2, <2>2 DEF CallTyped
  <2>4. calls' = [calls EXCEPT ![s] = c]
    BY <1>0, <1>1, <1>5, <2>1 DEF Serve
  <2>5. CallsTyped' /\ Enough' /\ Touches(s, c)
    BY <1>0, <2>2, <2>3, <2>4, Touched DEF Waits
  <2>6. QED  BY <1>0, <1>1, <1>5, <2>2, <2>5
<1>6. QED  BY <1>3, <1>4, <1>5

-----------------------------------------------------------------------------
(* What a handler writes.                                                  *)

LEMMA SavedEffect ==
  ASSUME NEW n \in 0 .. MaxEdits, NEW c, CallTyped(c, n), c.kind = "save", c.stage = "read"
  PROVE  /\ Stored(Saved(c), n) /\ c.id \in Id
         /\ \A i \in Id : i # c.id => Saved(c)[i] = c.read[i]
         /\ Saved(c)[c.id].rows = c.rows /\ c.rows # 0 /\ ~Saved(c)[c.id].archived
         /\ Saved(c)[c.id].name = Suffixed(c.read, c.id, c.name)
<1>1. /\ c.id \in Id /\ c.rows \in 1 .. n /\ c.rows \in 0 .. MaxEdits /\ c.name \in Seq(Nat)
      /\ c.read \in [Id -> Entry] /\ n \in Nat
  BY BoundsAssumption DEF CallTyped, Stored, Call
<1>2. PICK name : name = Suffixed(c.read, c.id, c.name)
  OBVIOUS
<1>3. name \in Seq(Nat)
  BY <1>1, <1>2, SuffixedIs
<1>4. PICK e : e = [name |-> name, rows |-> c.rows, archived |-> FALSE]
  OBVIOUS
<1>5. e \in Entry /\ e.rows = c.rows /\ ~e.archived /\ e.name = name /\ e.rows <= n
  BY <1>1, <1>3, <1>4 DEF Entry
<1>6. Saved(c) = [c.read EXCEPT ![c.id] = e]
  BY <1>2, <1>4 DEF Saved
<1>7. /\ Saved(c) \in [Id -> Entry] /\ Saved(c)[c.id] = e
      /\ \A i \in Id : i # c.id => Saved(c)[i] = c.read[i]
  BY <1>1, <1>5, <1>6
<1>8. \A i \in Id : c.read[i].rows <= n
  BY DEF CallTyped, Stored
<1>9. Stored(Saved(c), n)
  BY <1>5, <1>7, <1>8 DEF Stored
<1>10. QED  BY <1>1, <1>2, <1>5, <1>7, <1>9

LEMMA RemovedEffect ==
  ASSUME NEW n \in 0 .. MaxEdits, NEW c, CallTyped(c, n), c.kind = "delete"
  PROVE  /\ Stored(Removed(c), n) /\ c.id \in Id /\ Removed(c)[c.id].rows = 0
         /\ \A i \in Id : i # c.id => Removed(c)[i] = c.read[i]
<1>1. c.id \in Id /\ c.read \in [Id -> Entry] /\ n \in Nat /\ \A i \in Id : c.read[i].rows <= n
  BY BoundsAssumption DEF CallTyped, Stored
<1>2. NoEntry \in Entry /\ NoEntry.rows = 0
  BY BoundsAssumption DEF NoEntry, Entry
<1>3. PICK none : none = NoEntry
  OBVIOUS
<1>4. PICK g : g = [c.read EXCEPT ![c.id] = none]
  OBVIOUS
<1>5. /\ g \in [Id -> Entry] /\ g[c.id] = none /\ \A i \in Id : i # c.id => g[i] = c.read[i]
  BY <1>1, <1>2, <1>3, <1>4
<1>6. Stored(g, n)
  BY <1>1, <1>2, <1>3, <1>5 DEF Stored
<1>7. QED  BY <1>1, <1>2, <1>3, <1>4, <1>5, <1>6 DEF Removed

(* The version is an entry of its own; live entries stay, and of the       *)
(* versions only older ones go.                                            *)
LEMMA ArchivedEffect ==
  ASSUME NEW n \in 0 .. MaxEdits, NEW c, CallTyped(c, n), c.kind = "snapshot", c.stage = "read"
  PROVE  /\ Stored(Archived(c), n) /\ c.rows \in Id
         /\ \A i \in Id : i # c.rows /\ i \in Live(c.read) => Archived(c)[i] = c.read[i]
         /\ \A i \in Id : i # c.rows => Archived(c)[i] = c.read[i] \/ Archived(c)[i].rows = 0
         /\ (\A i \in Present(c.read) : i <= c.rows) =>
              c.rows \in Versions(Archived(c)) /\ Archived(c)[c.rows].rows = c.read[c.id].rows
         /\ Archived(c)[c.rows].rows # 0 => Archived(c)[c.rows].archived
<1>1. /\ c.id \in Id /\ c.rows \in Id /\ c.id \in Live(c.read) /\ c.read \in [Id -> Entry]
      /\ n \in Nat /\ \A i \in Id : c.read[i].rows <= n
  BY BoundsAssumption DEF CallTyped, Stored
<1>2. NoEntry \in Entry /\ NoEntry.rows = 0
  BY BoundsAssumption DEF NoEntry, Entry
<1>3. PICK live, e : live = c.read[c.id] /\ e = [live EXCEPT !.archived = TRUE]
  OBVIOUS
<1>4. live \in Entry /\ live.rows # 0 /\ live.rows <= n
  BY <1>1, <1>3 DEF Live, Present
<1>5. e \in Entry /\ e.rows = live.rows /\ e.archived
  BY <1>3, <1>4 DEF Entry
<1>6. PICK g : g = [c.read EXCEPT ![c.rows] = e]
  OBVIOUS
<1>7. g \in [Id -> Entry] /\ g[c.rows] = e /\ \A i \in Id : i # c.rows => g[i] = c.read[i]
  BY <1>1, <1>5, <1>6
<1> DEFINE same == {i \in Versions(g) : g[i].name = c.name}
           old  == {i \in same : Cardinality({j \in same : j > i}) >= KeptVersions}
<1>8. Archived(c) = [i \in Id |-> IF i \in old THEN NoEntry ELSE g[i]]
  BY <1>3, <1>6 DEF Archived
<1>9. old \subseteq Versions(g)
  OBVIOUS
<1>10. (\A i \in Present(c.read) : i <= c.rows) => c.rows \notin old
  <2> SUFFICES ASSUME \A i \in Present(c.read) : i <= c.rows PROVE c.rows \notin old
    OBVIOUS
  <2>1. \A j \in Versions(g) : j <= c.rows /\ j \in Nat
    BY <1>1, <1>7, BoundsAssumption DEF Versions, Present, Id
  <2>2. {j \in same : j > c.rows} = {}
    BY <1>1, <2>1, BoundsAssumption DEF Id
  <2>3. Cardinality({j \in same : j > c.rows}) = 0
    BY <2>2, FS_EmptySet
  <2>4. c.rows \in old => Cardinality({j \in same : j > c.rows}) >= KeptVersions
    OBVIOUS
  <2> HIDE DEF old, same
  <2>5. QED  BY <2>3, <2>4, BoundsAssumption
<1> HIDE DEF old, same
<1>11. Stored(Archived(c), n)
  <2>1. \A i \in Id : Archived(c)[i] \in {NoEntry, g[i]}
    BY <1>8
  <2>2. Archived(c) \in [Id -> Entry]
    BY <1>2, <1>7, <1>8
  <2>3. \A i \in Id : g[i].rows <= n
    BY <1>1, <1>3, <1>4, <1>5, <1>7
  <2>4. \A i \in Id : Archived(c)[i].rows <= n
    BY <1>1, <1>2, <2>1, <2>3
  <2>5. QED  BY <2>2, <2>4 DEF Stored
<1>12. ASSUME NEW i \in Id, i # c.rows, i \in Live(c.read)
       PROVE  Archived(c)[i] = c.read[i]
  <2>1. i \notin Versions(g)
    BY <1>7, <1>12 DEF Live, Versions
  <2>2. QED  BY <1>7, <1>8, <1>9, <1>12, <2>1
<1>13. ASSUME NEW i \in Id, i # c.rows
       PROVE  Archived(c)[i] = c.read[i] \/ Archived(c)[i].rows = 0
  BY <1>2, <1>7, <1>8, <1>13
<1>14. ASSUME \A i \in Present(c.read) : i <= c.rows
       PROVE  c.rows \in Versions(Archived(c)) /\ Archived(c)[c.rows].rows = c.read[c.id].rows
  <2>1. Archived(c)[c.rows] = e
    BY <1>1, <1>7, <1>8, <1>10, <1>14
  <2>2. QED  BY <1>1, <1>3, <1>4, <1>5, <2>1 DEF Versions, Present
<1>15. Archived(c)[c.rows].rows # 0 => Archived(c)[c.rows].archived
  BY <1>1, <1>2, <1>5, <1>7, <1>8
<1>16. QED  BY <1>1, <1>11, <1>12, <1>13, <1>14, <1>15

LEMMA SeenWrite ==
  ASSUME TypeInv, NEW s \in Slot, Write(s)
  PROVE  /\ seen' \in History /\ seen'.crossed = seen.crossed /\ seen'.opened = seen.opened
         /\ seen'.removed = IF calls[s].kind = "delete"
                            THEN seen.removed \cup {store[calls[s].id].rows} ELSE seen.removed
<1>1. seen \in History /\ (calls[s].kind = "delete" => store[calls[s].id] \in Entry)
  BY DEF TypeInv, CallsTyped, CallTyped, Stored
<1>2. calls[s].kind = "delete" => store[calls[s].id].rows \in Nat
  BY <1>1, BoundsAssumption DEF Entry
<1>3. PICK more : more = IF calls[s].kind = "delete"
                         THEN seen.removed \cup {store[calls[s].id].rows} ELSE seen.removed
  OBVIOUS
<1>4. more \in SUBSET Nat
  BY <1>1, <1>2, <1>3 DEF History
<1>5. PICK over \in BOOLEAN : seen' = [seen EXCEPT !.overtaken = over, !.removed = more]
  <2>1. seen' = [seen EXCEPT !.overtaken = (seen.overtaken \/ \E o \in UnderWay \ {s} : calls[o].stage = "read"),
                             !.removed = more]
    BY <1>1, <1>3 DEF Write, History
  <2>2. QED  BY <2>1
<1>6. QED  BY <1>1, <1>3, <1>4, <1>5 DEF History

LEMMA WriteEffect ==
  ASSUME TypeInv, NEW s \in Slot, Write(s)
  PROVE  /\ CallsTyped' /\ Enough' /\ Stored(store', edits)
         /\ calls[s].stage = "read" /\ calls[s].kind \in {"save", "snapshot", "delete"}
         /\ store' = Rewritten(calls[s])
         /\ \E c \in Call :
              /\ Touches(s, c)
              /\ \/ c = Idle /\ ~calls[s].own
                 \/ /\ c.kind = calls[s].kind /\ c.stage = "done" /\ c.id = calls[s].id
                    /\ c.rows = calls[s].rows /\ c.own /\ calls[s].own /\ c.copy = calls[s].copy
                    /\ c.kind = "save" => c.name = store'[c.id].name
         /\ seen' \in History /\ seen'.crossed = seen.crossed /\ seen'.opened = seen.opened
         /\ seen'.removed = IF calls[s].kind = "delete"
                            THEN seen.removed \cup {store[calls[s].id].rows} ELSE seen.removed
<1>0. /\ calls[s].stage = "read" /\ calls[s].kind \in {"save", "snapshot", "delete"}
      /\ CallTyped(calls[s], edits) /\ calls \in [Slot -> Call] /\ store' = Rewritten(calls[s])
      /\ edits' = edits /\ issued' = issued
      /\ calls[s].id \in Id /\ Stored(store, edits) /\ seen \in History
  BY DEF Write, TypeInv, CallsTyped, CallTyped
<1>a. edits \in 0 .. MaxEdits /\ edits \in Nat
  BY BoundsAssumption DEF TypeInv
<1>1. Stored(store', edits)
  <2>1. CASE calls[s].kind = "save"
    BY <1>0, <1>a, <2>1, SavedEffect DEF Rewritten
  <2>2. CASE calls[s].kind = "snapshot"
    BY <1>0, <1>a, <2>2, ArchivedEffect DEF Rewritten
  <2>3. CASE calls[s].kind = "delete"
    BY <1>0, <1>a, <2>3, RemovedEffect DEF Rewritten
  <2>4. QED  BY <1>0, <2>1, <2>2, <2>3
<1>2. PICK name : name = IF calls[s].kind = "save" THEN store'[calls[s].id].name ELSE << >>
  OBVIOUS
<1>3. name \in Seq(Nat)
  <2>1. store'[calls[s].id] \in Entry
    BY <1>0, <1>1 DEF Stored
  <2>2. QED  BY <1>2, <2>1 DEF Entry
<1>4. PICK old, d : old = calls[s] /\ d = [old EXCEPT !.stage = "done", !.read = Idle.read, !.name = name]
  OBVIOUS
<1>5. calls' = [calls EXCEPT ![s] = IF old.own THEN d ELSE Idle]
  BY <1>2, <1>4 DEF Write
<1>6. old \in Call /\ Stored(Idle.read, edits) /\ CallTyped(Idle, edits) /\ Idle.stage = "free"
  BY <1>0, <1>a, <1>4, IdleTyped DEF CallTyped, Idle
<1>7. /\ d \in Call /\ d.stage = "done" /\ d.kind = old.kind /\ d.id = old.id /\ d.name = name
      /\ d.rows = old.rows /\ d.own = old.own /\ d.copy = old.copy /\ d.read = Idle.read
  <2>1. PICK g : g = Idle.read
    OBVIOUS
  <2>2. g \in [Id -> Entry]
    BY <1>6, <2>1 DEF Stored
  <2>3. d = [old EXCEPT !.stage = "done", !.read = g, !.name = name]
    BY <1>4, <2>1
  <2>4. QED  BY <1>3, <1>6, <2>1, <2>2, <2>3 DEF Call
<1>8. CASE old.own
  <2>1. CallTyped(d, edits)
    BY <1>0, <1>4, <1>6, <1>7, <1>8 DEF CallTyped
  <2>2. CallsTyped' /\ Enough' /\ Touches(s, d)
    BY <1>0, <1>5, <1>7, <1>8, <2>1, Touched DEF Waits
  <2>3. d.kind = "save" => d.name = store'[d.id].name
    BY <1>2, <1>4, <1>7
  <2>4. /\ d \in Call /\ d.kind = calls[s].kind /\ d.stage = "done" /\ d.id = calls[s].id
        /\ d.rows = calls[s].rows /\ d.own /\ calls[s].own /\ d.copy = calls[s].copy
    BY <1>4, <1>7, <1>8
  <2>5. QED  BY <1>0, <1>1, <2>2, <2>3, <2>4, SeenWrite
<1>9. CASE ~old.own
  <2>1. CallsTyped' /\ Enough' /\ Touches(s, Idle)
    BY <1>0, <1>5, <1>6, <1>9, Touched DEF Waits
  <2>2. QED  BY <1>0, <1>1, <1>4, <1>6, <1>9, <2>1, SeenWrite DEF CallTyped
<1>10. QED  BY <1>8, <1>9

-----------------------------------------------------------------------------
(* Failures, and what the window makes of answers.                         *)

LEMMA FailIs ==
  ASSUME TypeInv, NEW s \in Slot, Fail(s)
  PROVE  CallsTyped' /\ Enough' /\ Lost(s) /\ failures' \in 0 .. MaxFailures /\ failures' # 0
<1>1. CallsTyped' /\ Enough' /\ Lost(s)
  BY RefusedEffect DEF Fail, Lost
<1>2. QED  BY <1>1, BoundsAssumption DEF Fail, TypeInv

LEMMA AnsweredEffect ==
  ASSUME TypeInv, NEW s \in Slot, Answered(s), edits' = edits, issued' = issued
  PROVE  CallsTyped' /\ Enough' /\ Touches(s, Idle)
<1>1. edits \in Nat
  BY BoundsAssumption DEF TypeInv
<1>2. CallTyped(Idle, edits) /\ Idle.stage = "free"
  BY <1>1, IdleTyped DEF Idle
<1>3. QED  BY <1>2, Touched DEF Answered, Waits

LEMMA SaveAnsweredIs ==
  ASSUME TypeInv, NEW s \in Slot, SaveAnswered(s)
  PROVE  /\ CallsTyped' /\ Enough' /\ Touches(s, Idle) /\ calls[s].kind = "save" /\ calls[s].own
         /\ ws' \in Window /\ ws'.rows = ws.rows /\ ws'.snapshotDone = ws.snapshotDone
         /\ ws'.snapshotPending = ws.snapshotPending
         /\ \/ /\ calls[s].stage = "done" /\ ws'.id = calls[s].id /\ ws'.name = calls[s].name
               /\ ~ws'.dirty
            \/ /\ calls[s].stage = "failed" /\ ws'.id = ws.id /\ ws'.name = ws.name
               /\ ws'.dirty = ws.dirty
<1>0. /\ ws \in Window /\ CallTyped(calls[s], edits) /\ edits' = edits /\ issued' = issued
      /\ calls[s].kind = "save" /\ calls[s].stage \in {"done", "failed"} /\ Answered(s)
  BY DEF SaveAnswered, TypeInv, CallsTyped, Done
<1>1. CallsTyped' /\ Enough' /\ Touches(s, Idle)
  BY <1>0, AnsweredEffect
<1>2. calls[s].own /\ calls[s] \in Call
  BY <1>0 DEF CallTyped
<1>3. CASE calls[s].stage = "done"
  <2>1. PICK id, name : id = calls[s].id /\ name = calls[s].name
    OBVIOUS
  <2>2. id \in Id \cup {None} /\ name \in Seq(Nat)
    BY <1>2, <2>1 DEF Call
  <2>3. ws' = [ws EXCEPT !.id = id, !.name = name, !.dirty = FALSE, !.saving = FALSE]
    BY <1>3, <2>1 DEF SaveAnswered, Succeeded
  <2>4. /\ ws' \in Window /\ ws'.rows = ws.rows /\ ws'.snapshotDone = ws.snapshotDone
        /\ ws'.snapshotPending = ws.snapshotPending
        /\ ws'.id = id /\ ws'.name = name /\ ~ws'.dirty
    BY <1>0, <2>2, <2>3 DEF Window
  <2>5. QED  BY <1>0, <1>1, <1>2, <1>3, <2>1, <2>4
<1>4. CASE calls[s].stage = "failed"
  <2>1. ws' = [ws EXCEPT !.saving = FALSE]
    BY <1>4 DEF SaveAnswered, Succeeded
  <2>2. /\ ws' \in Window /\ ws'.rows = ws.rows /\ ws'.snapshotDone = ws.snapshotDone
        /\ ws'.snapshotPending = ws.snapshotPending
        /\ ws'.id = ws.id /\ ws'.name = ws.name /\ ws'.dirty = ws.dirty
    BY <1>0, <2>1 DEF Window
  <2>3. QED  BY <1>0, <1>1, <1>2, <1>4, <2>2
<1>5. QED  BY <1>0, <1>3, <1>4

LEMMA SnapshotAnsweredIs ==
  ASSUME TypeInv, NEW s \in Slot, SnapshotAnswered(s)
  PROVE  /\ CallsTyped' /\ Enough' /\ Touches(s, Idle)
         /\ calls[s].kind = "snapshot" /\ calls[s].own /\ calls[s].stage \in {"done", "failed"}
         /\ ws' \in Window
         /\ ws'.id = ws.id /\ ws'.name = ws.name /\ ws'.rows = ws.rows /\ ws'.dirty = ws.dirty
         /\ ws'.snapshotDone <=> ws.snapshotDone \/ calls[s].stage = "done"
         /\ ~ws'.snapshotPending
<1>0. /\ ws \in Window /\ CallTyped(calls[s], edits) /\ edits' = edits /\ issued' = issued
      /\ calls[s].kind = "snapshot" /\ calls[s].stage \in {"done", "failed"} /\ Answered(s)
  BY DEF SnapshotAnswered, TypeInv, CallsTyped, Done
<1>1. CallsTyped' /\ Enough' /\ Touches(s, Idle)
  BY <1>0, AnsweredEffect
<1>2. calls[s].own
  BY <1>0 DEF CallTyped
<1>3. PICK b \in BOOLEAN : b <=> ws.snapshotDone \/ calls[s].stage = "done"
  OBVIOUS
<1>4. ws' = [ws EXCEPT !.snapshotDone = b, !.snapshotPending = FALSE]
  BY <1>0, <1>3 DEF SnapshotAnswered, Succeeded, Window
<1>5. /\ ws' \in Window /\ ws'.id = ws.id /\ ws'.name = ws.name /\ ws'.rows = ws.rows
      /\ ws'.dirty = ws.dirty /\ ws'.snapshotDone = b /\ ~ws'.snapshotPending
  BY <1>0, <1>3, <1>4 DEF Window
<1>6. QED  BY <1>0, <1>1, <1>2, <1>3, <1>5

LEMMA OpenAnsweredIs ==
  ASSUME TypeInv, NEW s \in Slot, OpenAnswered(s)
  PROVE  /\ CallsTyped' /\ Enough' /\ Touches(s, Idle)
         /\ calls[s].kind = "open" /\ calls[s].own /\ ws' \in Window
         /\ ws'.snapshotPending = ws.snapshotPending
         /\ seen' \in History /\ seen'.removed = seen.removed /\ (seen.crossed => seen'.crossed)
         /\ \/ /\ calls[s].stage = "done" /\ seen'.opened = edits
               /\ ~seen'.crossed => Cardinality(UnderWay) <= 1
               /\ ws'.id = (IF calls[s].copy THEN None ELSE calls[s].id)
               /\ ws'.snapshotDone = calls[s].copy /\ ws'.name = calls[s].name
               /\ ws'.rows = calls[s].rows /\ ~ws'.dirty
            \/ calls[s].stage = "failed" /\ ws' = ws /\ seen' = seen
<1>0. /\ ws \in Window /\ CallTyped(calls[s], edits) /\ edits' = edits /\ issued' = issued
      /\ calls[s].kind = "open" /\ calls[s].stage \in {"done", "failed"} /\ Answered(s)
      /\ seen \in History /\ edits \in 0 .. MaxEdits /\ edits \in Nat
  BY BoundsAssumption DEF OpenAnswered, TypeInv, CallsTyped, Done
<1>1. CallsTyped' /\ Enough' /\ Touches(s, Idle)
  BY <1>0, AnsweredEffect
<1>2. calls[s].own /\ calls[s] \in Call /\ calls[s].rows \in 0 .. edits /\ calls[s].id \in Id
  BY <1>0 DEF CallTyped
<1>3. CASE calls[s].stage = "done"
  <2>1. PICK id, name, n, copy : /\ id = (IF calls[s].copy THEN None ELSE calls[s].id)
                                 /\ name = calls[s].name /\ n = calls[s].rows
                                 /\ copy = calls[s].copy
    OBVIOUS
  <2>2. /\ id \in Id \cup {None} /\ name \in Seq(Nat) /\ n \in 0 .. MaxEdits /\ copy \in BOOLEAN
    <3>1. n \in 0 .. MaxEdits
      BY <1>0, <1>2, <2>1, BoundsAssumption
    <3>2. QED  BY <1>2, <2>1, <3>1 DEF Call
  <2>3. ws' = [ws EXCEPT !.id = id, !.snapshotDone = copy, !.name = name, !.rows = n, !.dirty = FALSE]
    BY <1>3, <2>1 DEF OpenAnswered, Succeeded, Opened
  <2>4. /\ ws' \in Window /\ ws'.rows = n /\ ws'.snapshotDone = copy
        /\ ws'.snapshotPending = ws.snapshotPending
        /\ ws'.id = id /\ ws'.name = name /\ ~ws'.dirty
    BY <1>0, <2>2, <2>3 DEF Window
  <2>5. PICK busy \in BOOLEAN : /\ busy <=> seen.crossed \/ Cardinality(UnderWay) > 1
                                /\ seen' = [seen EXCEPT !.crossed = busy, !.opened = edits]
    <3>1. PICK more \in BOOLEAN : more <=> seen.crossed \/ Cardinality(UnderWay) > 1
      OBVIOUS
    <3>2. seen' = [[seen EXCEPT !.crossed = seen.crossed \/ Cardinality(UnderWay) > 1]
                   EXCEPT !.opened = edits]
      BY <1>0, <1>3 DEF OpenAnswered, Succeeded, Crossing, History
    <3>3. (seen.crossed \/ Cardinality(UnderWay) > 1) = more
      BY <3>1
    <3>4. seen' = [[seen EXCEPT !.crossed = more] EXCEPT !.opened = edits]
      BY <3>2, <3>3
    <3>5. [[seen EXCEPT !.crossed = more] EXCEPT !.opened = edits]
            = [seen EXCEPT !.crossed = more, !.opened = edits]
      OBVIOUS
    <3>6. QED  BY <3>1, <3>4, <3>5
  <2>6. /\ seen' \in History /\ seen'.removed = seen.removed /\ (seen.crossed => seen'.crossed)
        /\ seen'.opened = edits /\ (~seen'.crossed => ~(Cardinality(UnderWay) > 1))
    BY <1>0, <2>5 DEF History
  <2>7. Cardinality(UnderWay) \in Nat
    <3>1. MaxCalls \in Int
      BY BoundsAssumption
    <3>2. IsFiniteSet(Slot) /\ UnderWay \in SUBSET Slot
      BY <3>1, FS_Interval DEF Slot, UnderWay
    <3>3. QED  BY <3>2, FS_Subset, FS_CardinalityType
  <2>8. ~(Cardinality(UnderWay) > 1) => Cardinality(UnderWay) <= 1
    BY <2>7
  <2>9. QED  BY <1>0, <1>1, <1>2, <1>3, <2>1, <2>4, <2>6, <2>8
<1>4. CASE calls[s].stage = "failed"
  BY <1>0, <1>1, <1>2, <1>4 DEF OpenAnswered, Succeeded
<1>5. QED  BY <1>0, <1>3, <1>4

LEMMA WipeAnsweredIs ==
  ASSUME TypeInv, NEW s \in Slot, WipeAnswered(s)
  PROVE  /\ CallsTyped' /\ Enough' /\ calls[s].kind = "wipe"
         /\ \/ Touches(s, Idle) /\ ws' = ws
            \/ /\ ws' = Scratch /\ calls'[s] = Idle
               /\ \A o \in Slot : o # s => calls'[o] = Orphaned(calls[o])
<1>0. /\ calls \in [Slot -> Call] /\ \A o \in Slot : CallTyped(calls[o], edits)
      /\ edits \in Nat /\ edits' = edits /\ issued' = issued /\ calls[s].kind = "wipe"
  BY BoundsAssumption DEF WipeAnswered, TypeInv, CallsTyped, Done
<1>1. CASE Succeeded(s)
  <2>1. /\ \A o \in Slot : calls'[o] = IF o = s THEN Idle ELSE Orphaned(calls[o])
        /\ DOMAIN calls' = Slot /\ ws' = Scratch
        /\ calls' = [o \in Slot |-> IF o = s THEN Idle ELSE Orphaned(calls[o])]
    BY <1>1 DEF WipeAnswered
  <2>2. CallTyped(Idle, edits) /\ Idle.stage = "free"
    BY <1>0, IdleTyped DEF Idle
  <2>3. \A o \in Slot : CallTyped(calls'[o], edits) /\ (Waits(calls'[o]) => Waits(calls[o]))
    BY <1>0, <2>1, <2>2, OrphanedTyped DEF Waits
  <2>4. CallsTyped'
    BY <1>0, <2>1, <2>3 DEF CallsTyped, CallTyped
  <2>5. Enough'
    BY <1>0, <2>3, EnoughStays
  <2>6. QED  BY <1>0, <2>1, <2>4, <2>5
<1>2. CASE ~Succeeded(s)
  BY <1>0, <1>2, AnsweredEffect DEF WipeAnswered, Answered
<1>3. QED  BY <1>1, <1>2

LEMMA KeystoneNamedIs ==
  ASSUME TypeInv, NEW s \in Slot, KeystoneNamed(s)
  PROVE  /\ CallsTyped' /\ Enough' /\ calls[s].kind = "settings"
         /\ ws' \in Window /\ ws'.id = ws.id /\ ws'.rows = ws.rows
         /\ ws'.snapshotDone = ws.snapshotDone
         /\ SeenSame
         /\ ~seen'.crossed =>
              /\ UnderWay = {s} /\ ws'.dirty /\ ws'.snapshotPending = ws.snapshotPending
              /\ \/ Touches(s, Idle)
                 \/ \E k \in Slot : \E c \in Call :
                      /\ calls'[k] = c /\ UnderWay' = {k}
                      /\ c.kind = "save" /\ c.stage = "sent" /\ c.own
                      /\ c.id = ws'.id /\ c.name = ws'.name /\ c.rows = ws'.rows
<1>0. /\ ws \in Window /\ CallTyped(calls[s], edits) /\ edits' = edits /\ issued' = issued
      /\ calls[s].kind = "settings" /\ seen \in History /\ edits \in Nat
      /\ calls \in [Slot -> Call] /\ \A o \in Slot : CallTyped(calls[o], edits)
      /\ ws.rows <= edits /\ CallTyped(Idle, edits) /\ Idle.stage = "free"
  <2>1. edits \in Nat
    BY BoundsAssumption DEF TypeInv
  <2>2. CallTyped(Idle, edits) /\ Idle.stage = "free"
    BY <2>1, IdleTyped DEF Idle
  <2>3. QED  BY <2>1, <2>2 DEF KeystoneNamed, TypeInv, CallsTyped, Done
<1>1. PICK b \in BaseName :
        LET w == Dirtied([ws EXCEPT !.name = <<b>>])
        IN  IF CanSave(w) /\ IdsLeft >= 1
            THEN SaveAtOnce(w, [calls EXCEPT ![s] = Idle], Free \cup {s})
            ELSE Answered(s) /\ ws' = IF AsksVersion(ws) THEN ws ELSE w
  BY DEF KeystoneNamed
<1>2. PICK v : v = [ws EXCEPT !.name = <<b>>]
  OBVIOUS
<1>3. /\ v \in Window /\ v.rows = ws.rows /\ v.id = ws.id
      /\ v.snapshotDone = ws.snapshotDone /\ v.snapshotPending = ws.snapshotPending
  <2>1. b \in Nat /\ <<b>> \in Seq(Nat)
    BY <1>1, BoundsAssumption
  <2>2. QED  BY <1>0, <1>2, <2>1, WithName
<1>4. PICK w : w = Dirtied(v)
  OBVIOUS
<1>5. /\ w \in Window /\ w.rows = ws.rows /\ w.id = ws.id /\ w.dirty
      /\ w.snapshotDone = ws.snapshotDone
      /\ w.snapshotPending <=> ws.snapshotPending \/ AsksVersion(ws)
  <2>1. AsksVersion(v) <=> AsksVersion(ws)
    BY <1>3 DEF AsksVersion
  <2>2. QED  BY <1>3, <1>4, <2>1, DirtiedTyped
<1>6. SeenSame /\ (~seen'.crossed => ~AsksVersion(ws) /\ UnderWay = {s})
  BY <1>0 DEF KeystoneNamed, Crossing, SeenSame, History
<1>7. ~seen'.crossed => w.snapshotPending = ws.snapshotPending
  BY <1>0, <1>5, <1>6 DEF Window
<1>8. CASE SaveAtOnce(w, [calls EXCEPT ![s] = Idle], Free \cup {s})
  <2>1. PICK under : under = [calls EXCEPT ![s] = Idle]
    OBVIOUS
  <2>2. /\ under \in [Slot -> Call] /\ under[s] = Idle
        /\ \A o \in Slot : o # s => under[o] = calls[o]
    BY <1>0, <2>1 DEF CallTyped
  <2>3. \A o \in Slot : CallTyped(under[o], edits') /\ (Waits(under[o]) => Waits(calls[o]))
    BY <1>0, <2>2 DEF Waits
  <2>4. Free \cup {s} \in SUBSET Slot
    BY DEF Free
  <2>5. /\ CallsTyped' /\ Enough' /\ ws' = [w EXCEPT !.saving = TRUE] /\ CanSave(w)
        /\ ~AsksVersion(ws) => \E k \in Free \cup {s} : calls' = [under EXCEPT ![k] = SaveOf(w)]
    <3>1. /\ w.rows <= edits' /\ edits' \in Nat /\ edits <= edits'
          /\ SaveAtOnce(w, under, Free \cup {s})
      BY <1>0, <1>5, <1>8, <2>1
    <3>2. QED  BY <1>0, <1>5, <2>2, <2>3, <2>4, <3>1, AtOnce
  <2>6. /\ ws' \in Window /\ ws'.id = w.id /\ ws'.rows = w.rows /\ ws'.name = w.name
        /\ ws'.snapshotDone = w.snapshotDone /\ ws'.dirty /\ ws'.snapshotPending = w.snapshotPending
    BY <1>5, <2>5 DEF Window
  <2>7. ASSUME ~seen'.crossed
        PROVE  \E k \in Slot : \E c \in Call :
                 /\ calls'[k] = c /\ UnderWay' = {k}
                 /\ c.kind = "save" /\ c.stage = "sent" /\ c.own
                 /\ c.id = ws'.id /\ c.name = ws'.name /\ c.rows = ws'.rows
    <3>1. PICK c : c = SaveOf(w)
      OBVIOUS
    <3>2. PICK k \in Free \cup {s} : calls' = [under EXCEPT ![k] = c]
      BY <1>6, <2>5, <2>7, <3>1
    <3>3. w.rows \in 1 .. edits
      BY <1>0, <1>5, <2>5, BoundsAssumption DEF CanSave, Window
    <3>4. /\ CallTyped(c, edits) /\ c.kind = "save" /\ c.stage = "sent" /\ c.own
          /\ c.id = w.id /\ c.name = w.name /\ c.rows = w.rows
      BY <1>0, <1>5, <3>1, <3>3, SaveTyped DEF Fresh
    <3>5. k \in Slot /\ calls'[k] = c /\ \A o \in Slot : o # k => calls'[o] = under[o]
      BY <2>2, <2>4, <3>2
    <3>6. \A o \in Slot : under[o].stage = "free"
      BY <1>0, <1>6, <2>2, <2>7 DEF UnderWay, Free
    <3>7. UnderWay' = {k}
      BY <3>4, <3>5, <3>6 DEF UnderWay, Free
    <3>8. QED  BY <2>6, <3>4, <3>5, <3>7 DEF CallTyped
  <2>8. QED  BY <1>0, <1>5, <1>6, <1>7, <2>5, <2>6, <2>7
<1>9. CASE Answered(s) /\ ws' = IF AsksVersion(ws) THEN ws ELSE w
  <2>1. CallsTyped' /\ Enough' /\ Touches(s, Idle)
    BY <1>0, <1>9, AnsweredEffect
  <2>2. QED  BY <1>0, <1>5, <1>6, <1>7, <1>9, <2>1
<1>10. QED  BY <1>1, <1>2, <1>4, <1>8, <1>9

-----------------------------------------------------------------------------
(* Types are kept.                                                         *)

LEMMA TypesStart == Init => TypeInv
<1> SUFFICES ASSUME Init PROVE TypeInv
  OBVIOUS
<1>1. NoEntry \in Entry /\ NoEntry.rows = 0
  BY BoundsAssumption DEF NoEntry, Entry
<1>2. Stored(store, edits) /\ edits = 0
  BY <1>1 DEF Init, Stored
<1>3. CallTyped(Idle, 0) /\ Idle.stage = "free"
  BY IdleTyped DEF Idle
<1>4. CallsTyped
  <2>1. \A s \in Slot : calls[s] = Idle
    BY DEF Init
  <2>2. Idle \in Call
    BY <1>3 DEF CallTyped
  <2>3. calls \in [Slot -> Call]
    BY <2>2 DEF Init
  <2>4. SUFFICES \A s \in Slot : CallTyped(calls[s], edits)
    BY <2>3 DEF CallsTyped
  <2>5. TAKE s \in Slot
  <2>6. calls[s] = Idle /\ edits = 0
    BY <2>1, <1>2
  <2>7. QED  BY <2>6, <1>3
<1>5. Sending = {}
  <2>1. \A s \in Slot : calls[s].stage = "free"
    BY <1>3 DEF Init
  <2>2. QED  BY <2>1 DEF Sending, UnderWay
<1>6. issued = 0 /\ issued + Cardinality(Sending) <= MaxIds
  BY <1>5, FS_EmptySet, BoundsAssumption DEF Init
<1>7. ws \in Window /\ ws.rows = 0
  BY ScratchTyped DEF Init
<1>8. seen \in History /\ seen.opened = 0
  BY DEF Init, History
<1>9. /\ issued \in Nat /\ refusing \in BOOLEAN /\ edits \in 0 .. MaxEdits
      /\ failures \in 0 .. MaxFailures
  <2>1. 0 \in 0 .. MaxEdits /\ 0 \in 0 .. MaxFailures /\ 0 \in Nat
    BY BoundsAssumption
  <2>2. refusing = FALSE
    BY DEF Init
  <2>3. QED  BY <2>1, <2>2 DEF Init
<1>10. ws.rows <= edits /\ seen.opened <= edits
  BY <1>2, <1>7, <1>8
<1>11. QED  BY <1>2, <1>4, <1>6, <1>7, <1>8, <1>9, <1>10 DEF TypeInv

(* What the parts of a step that change nothing else leave to show.        *)
LEMMA TypeParts ==
  ASSUME TypeInv, CallsTyped', Enough', issued' \in Nat, refusing' \in BOOLEAN,
         edits' \in 0 .. MaxEdits, edits <= edits', failures' \in 0 .. MaxFailures,
         store' = store \/ Stored(store', edits'),
         ws' \in Window, ws'.rows <= edits', seen' \in History, seen'.opened <= edits'
  PROVE  TypeInv'
<1>1. Stored(store, edits')
  <2>1. \A i \in Id : store[i].rows \in Nat /\ store[i].rows <= edits
    BY BoundsAssumption DEF TypeInv, Stored, Entry
  <2>2. edits \in Nat /\ edits' \in Nat
    BY BoundsAssumption DEF TypeInv
  <2>3. QED  BY <2>1, <2>2 DEF TypeInv, Stored
<1>2. Stored(store, edits)'
  BY <1>1 DEF Stored
<1>3. QED  BY <1>2 DEF TypeInv, Enough

LEMMA TypeFacts ==
  ASSUME TypeInv
  PROVE  /\ edits \in Nat /\ edits \in 0 .. MaxEdits /\ issued \in Nat /\ refusing \in BOOLEAN
         /\ failures \in 0 .. MaxFailures /\ ws \in Window /\ ws.rows <= edits /\ ws.rows \in Nat
         /\ seen \in History /\ seen.opened <= edits /\ seen.opened \in Nat
         /\ MaxEdits \in Nat
BY BoundsAssumption DEF TypeInv, Window, History

LEMMA WindowKeepsTypes ==
  ASSUME TypeInv, Steward \/ Timers
  PROVE  TypeInv'
<1>0. UNCHANGED <<store, issued, refusing, failures>>
  BY DEF Steward, Timers, Edit, NameIt, SaveNow, ConfirmCategories, Open, Delete, AskWipe,
         Leave, Debounce, Interval
<1>1. CASE Edit \/ SaveNow
  <2>1. /\ CallsTyped' /\ Enough' /\ edits' = edits + 1 /\ edits' <= MaxEdits
        /\ ws' \in Window /\ ws'.rows = edits + 1 /\ SeenSame
    BY <1>1, EditIs, SaveNowIs
  <2>2. edits' \in 0 .. MaxEdits /\ edits <= edits' /\ ws'.rows <= edits'
    BY <2>1, TypeFacts
  <2>3. seen' \in History /\ seen'.opened <= edits'
    BY <2>1, <2>2, TypeFacts DEF SeenSame
  <2>4. QED  BY <1>0, <2>1, <2>2, <2>3, TypeFacts, TypeParts
<1>2. CASE NameIt \/ ConfirmCategories \/ Open \/ Delete \/ AskWipe \/ Leave \/ Timers
  <2>1. edits' = edits
    BY <1>2 DEF NameIt, ConfirmCategories, Open, Delete, AskWipe, Leave, Timers, Debounce, Interval
  <2>2. CallsTyped' /\ Enough' /\ ws' \in Window /\ (ws'.rows = ws.rows \/ ws'.rows = 0) /\ SeenSame
    BY <1>2, NameItIs, ConfirmIs, AskStoreIs, AskWipeIs, LeaveIs, TimersIs, TypeFacts,
       ScratchTyped
  <2>3. seen' \in History /\ seen'.opened <= edits' /\ ws'.rows <= edits'
    BY <2>1, <2>2, TypeFacts DEF SeenSame
  <2>4. QED  BY <1>0, <2>1, <2>2, <2>3, TypeFacts, TypeParts
<1>3. QED  BY <1>1, <1>2 DEF Steward

LEMMA HandlersKeepTypes ==
  ASSUME TypeInv, NEW s \in Slot, Handle(s) \/ Fail(s)
  PROVE  TypeInv'
<1>1. edits' = edits /\ ws' = ws
  BY DEF Handle, Fail, ReadForSave, ReadSettings, ReadForVersion, ReadForDelete, Write, Serve, Wipe
<1>2. CallsTyped' /\ Enough' /\ issued' \in Nat
  <2>1. CASE ReadForSave(s)
    BY <2>1, ReadForSaveIs, TypeFacts
  <2>2. CASE ReadForVersion(s)
    BY <2>2, ReadForVersionIs, TypeFacts
  <2>3. CASE ReadForDelete(s) \/ ReadSettings(s) \/ Write(s) \/ Serve(s) \/ Wipe(s) \/ Fail(s)
    <3>1. issued' = issued
      BY <2>3 DEF ReadForDelete, ReadSettings, Write, Serve, Wipe, Fail
    <3>2. QED  BY <2>3, <3>1, ReadForDeleteIs, ReadSettingsIs, WriteEffect, ServeIs, WipeIs,
                  FailIs, TypeFacts
  <2>4. QED  BY <2>1, <2>2, <2>3 DEF Handle
<1>3. /\ refusing' \in BOOLEAN /\ failures' \in 0 .. MaxFailures
      /\ store' = store \/ Stored(store', edits')
      /\ seen' \in History /\ seen'.opened = seen.opened
  <2>1. CASE ReadForSave(s) \/ ReadForVersion(s) \/ ReadForDelete(s) \/ ReadSettings(s) \/ Serve(s)
    BY <2>1, TypeFacts DEF ReadForSave, ReadForVersion, ReadForDelete, ReadSettings, Serve
  <2>2. CASE Write(s)
    <3>1. UNCHANGED <<refusing, failures>>
      BY <2>2 DEF Write
    <3>2. QED  BY <1>1, <2>2, <3>1, WriteEffect, TypeFacts
  <2>3. CASE Wipe(s)
    <3>1. refusing' = TRUE /\ failures' = failures
      BY <2>3 DEF Wipe
    <3>2. store' = [i \in Id |-> NoEntry] /\ seen' \in History /\ seen'.opened = seen.opened
      BY <2>3, WipeIs DEF SeenSame
    <3>3. NoEntry \in Entry /\ NoEntry.rows = 0
      BY BoundsAssumption DEF NoEntry, Entry
    <3>4. Stored(store', edits')
      BY <1>1, <3>2, <3>3, TypeFacts DEF Stored
    <3>5. QED  BY <3>1, <3>2, <3>4, TypeFacts
  <2>4. CASE Fail(s)
    <3>1. UNCHANGED <<store, refusing, seen>>
      BY <2>4 DEF Fail
    <3>2. QED  BY <2>4, <3>1, FailIs, TypeFacts
  <2>5. QED  BY <2>1, <2>2, <2>3, <2>4 DEF Handle
<1>4. QED  BY <1>1, <1>2, <1>3, TypeFacts, TypeParts

LEMMA AnswersKeepTypes ==
  ASSUME TypeInv, NEW s \in Slot, Settle(s)
  PROVE  TypeInv'
<1>1. UNCHANGED <<store, issued, refusing, edits, failures>>
  BY DEF Settle, SaveAnswered, SnapshotAnswered, OpenAnswered, DeleteAnswered, WipeAnswered,
         KeystoneNamed
<1>2. CallsTyped' /\ Enough'
  <2>1. CASE DeleteAnswered(s)
    BY <2>1, AnsweredEffect DEF DeleteAnswered
  <2>2. CASE ~DeleteAnswered(s)
    BY <2>2, SaveAnsweredIs, SnapshotAnsweredIs, OpenAnsweredIs, WipeAnsweredIs,
       KeystoneNamedIs DEF Settle
  <2>3. QED  BY <2>1, <2>2
<1>3. ws' \in Window /\ ws'.rows <= edits
  <2>1. CASE OpenAnswered(s)
    <3>1. calls[s].kind = "open" /\ CallTyped(calls[s], edits)
      BY <2>1, OpenAnsweredIs DEF TypeInv, CallsTyped
    <3>2. calls[s].rows \in 0 .. edits
      BY <3>1 DEF CallTyped
    <3>3. QED  BY <2>1, <3>2, OpenAnsweredIs, TypeFacts
  <2>2. CASE DeleteAnswered(s)
    BY <2>2, TypeFacts DEF DeleteAnswered
  <2>3. CASE ~OpenAnswered(s) /\ ~DeleteAnswered(s)
    <3>1. ws' \in Window /\ (ws'.rows = ws.rows \/ ws'.rows = 0)
      BY <2>3, SaveAnsweredIs, SnapshotAnsweredIs, WipeAnsweredIs, KeystoneNamedIs, ScratchTyped,
         TypeFacts DEF Settle
    <3>2. QED  BY <3>1, TypeFacts
  <2>4. QED  BY <2>1, <2>2, <2>3
<1>4. seen' \in History /\ seen'.opened <= edits
  <2>1. CASE OpenAnswered(s)
    BY <2>1, OpenAnsweredIs, TypeFacts
  <2>2. CASE KeystoneNamed(s)
    BY <2>2, KeystoneNamedIs, TypeFacts DEF SeenSame
  <2>3. CASE ~OpenAnswered(s) /\ ~KeystoneNamed(s)
    BY <2>3, TypeFacts DEF Settle, SaveAnswered, SnapshotAnswered, DeleteAnswered, WipeAnswered
  <2>4. QED  BY <2>1, <2>2, <2>3
<1>5. QED  BY <1>1, <1>2, <1>3, <1>4, TypeFacts, TypeParts

LEMMA TypesKept == ASSUME TypeInv, [Next]_vars PROVE TypeInv'
<1>1. CASE AcceptAgain \/ Rest \/ UNCHANGED vars
  <2>1. /\ UNCHANGED <<store, issued, ws, calls, edits, failures, seen>>
        /\ refusing' \in BOOLEAN
    BY <1>1, TypeFacts DEF AcceptAgain, Rest, vars
  <2>2. CallsTyped' /\ Enough'
    BY <2>1, EnoughStays DEF CallsTyped, TypeInv
  <2>3. QED  BY <2>1, <2>2, TypeFacts, TypeParts
<1>2. CASE Steward \/ Timers
  BY <1>2, WindowKeepsTypes
<1>3. ASSUME NEW s \in Slot, Handle(s) \/ Settle(s) \/ Fail(s) PROVE TypeInv'
  BY <1>3, HandlersKeepTypes, AnswersKeepTypes
<1>4. QED  BY <1>1, <1>2, <1>3 DEF Next

(* Every reachable state is typed; in particular there is an id for every  *)
(* call that draws one, and a suffix for every name that collides.         *)
THEOREM WorkspaceTypes == Spec => []TypeOK
<1>1. TypeInv /\ [Next]_vars => TypeInv'
  BY TypesKept
<1>2. TypeInv => TypeOK
  BY TypesHold
<1>3. QED  BY <1>1, <1>2, TypesStart, PTL DEF Spec

-----------------------------------------------------------------------------
(* One call at a time: the window, the call and the store agree.           *)

Alone == \A s, t \in UnderWay : s = t

(* What is under an id has these rows; or this name, which no other live   *)
(* entry has, and keeps it should the entry go.                            *)
Agrees(g, id, rows)  == id \in Present(g) => g[id].rows = rows
Carries(g, id, name) == id \in Present(g) => g[id].name = name
Owns(g, id, name)    ==
  /\ Carries(g, id, name)
  /\ id # None => name \notin Taken(g, id)

Distinct(g) == \A i, j \in Live(g) : g[i].name = g[j].name => i = j

Fits(c, g, w) ==
  /\ c.stage = "read" => c.read = g
  /\ c.kind = "save" => /\ Carries(g, c.id, c.name)
                        /\ IF c.own THEN c.rows = w.rows ELSE w.id = None
                        /\ w.id # None => w.id = c.id /\ w.name = c.name
  /\ c.stage = "done" /\ MaySave(c) => Agrees(g, c.id, c.rows) /\ Owns(g, c.id, c.name)
  /\ c.kind = "settings" => w.id = None

SettledInv ==
  /\ Alone /\ Distinct(store)
  /\ \A s \in UnderWay : Fits(calls[s], store, ws)
  /\ Owns(store, ws.id, ws.name)
  /\ ~ws.dirty => Agrees(store, ws.id, ws.rows)

(* After a step nothing but this call is under way.                        *)
Only(c) == \E k \in Slot : UnderWay' \subseteq {k} /\ calls'[k] = c

LEMMA OnlyTouched ==
  ASSUME Alone, NEW s \in UnderWay, NEW c, Touches(s, c)
  PROVE  Only(c)
<1>1. s \in Slot /\ \A o \in Slot : o # s => calls[o].stage = "free"
  BY DEF UnderWay, Free, Alone
<1>2. \A o \in UnderWay' : o = s
  BY <1>1 DEF UnderWay, Free, Touches
<1>3. QED  BY <1>1, <1>2 DEF Only, Touches

LEMMA OnlySent ==
  ASSUME UnderWay = {}, NEW c, Sends(c)
  PROVE  Only(c)
BY DEF Only, Sends

LEMMA OnlyOrphaned ==
  ASSUME TypeInv, Alone, NEW k \in Slot, UnderWay \subseteq {k},
         \A o \in Slot : o # k => calls'[o] = Orphaned(calls[o])
  PROVE  Only(calls'[k])
<1>1. \A o \in Slot : o # k => calls'[o].stage = "free"
  <2>1. TAKE o \in Slot
  <2>2. HAVE o # k
  <2>3. calls[o].stage = "free" /\ CallTyped(calls[o], edits)
    BY <2>2 DEF UnderWay, Free, TypeInv, CallsTyped
  <2>4. QED  BY <2>2, <2>3, TypeFacts, OrphanedTyped, IdleTyped DEF Idle
<1>2. QED  BY <1>1 DEF Only, UnderWay, Free

LEMMA NoId == None \notin Id
BY BoundsAssumption DEF None, Id

LEMMA SettledParts ==
  ASSUME NEW c, Only(c), c.stage # "free" => Fits(c, store', ws'),
         Distinct(store'), Owns(store', ws'.id, ws'.name),
         ~ws'.dirty => Agrees(store', ws'.id, ws'.rows)
  PROVE  SettledInv'
<1>1. PICK k \in Slot : UnderWay' \subseteq {k} /\ calls'[k] = c
  BY DEF Only
<1>2. Alone'
  BY <1>1 DEF Alone
<1>3. \A s \in UnderWay' : Fits(calls'[s], store', ws')
  BY <1>1 DEF UnderWay, Free
<1>4. QED  BY <1>2, <1>3 DEF SettledInv

LEMMA SettledSame ==
  ASSUME SettledInv, UNCHANGED <<store, ws>>, NEW c, Only(c), c.stage # "free" => Fits(c, store, ws)
  PROVE  SettledInv'
BY SettledParts DEF SettledInv

(* A call under way in the old state is the only one.                      *)
LEMMA LostSettled ==
  ASSUME SettledInv, UNCHANGED <<store, ws>>, NEW s \in UnderWay, Lost(s)
  PROVE  SettledInv'
<1>1. PICK c \in Call : /\ Touches(s, c)
                        /\ \/ c = Idle
                           \/ SameCall(c, calls[s]) /\ c.stage = "failed" /\ c.own
  BY DEF Lost
<1>2. c.stage # "free" => Fits(c, store, ws)
  <2>1. HAVE c.stage # "free"
  <2>2. SameCall(c, calls[s]) /\ c.stage = "failed" /\ Fits(calls[s], store, ws)
    BY <1>1, <2>1 DEF Idle, SettledInv
  <2>3. QED  BY <2>2 DEF Fits, SameCall
<1>3. QED  BY <1>1, <1>2, OnlyTouched, SettledSame DEF SettledInv

LEMMA WindowSettled ==
  ASSUME TypeInv, SettledInv, Steward \/ Timers, ~seen'.crossed
  PROVE  SettledInv'
<1>0. store' = store
  BY DEF Steward, Timers, Edit, NameIt, SaveNow, ConfirmCategories, Open, Delete, AskWipe,
         Leave, Debounce, Interval
<1>1. /\ Alone /\ Distinct(store) /\ Owns(store, ws.id, ws.name)
      /\ \A s \in UnderWay : Fits(calls[s], store, ws)
      /\ ~ws.dirty => Agrees(store, ws.id, ws.rows)
  BY DEF SettledInv
<1>2. \A n, r : Owns(store, None, n) /\ Agrees(store, None, r)
  BY NoId DEF Owns, Carries, Agrees, Present
<1>3. CASE Edit
  <2>1. /\ SameNames(ws', ws) /\ ws'.dirty /\ Awaited = {} /\ (AsksVersion(ws) => UnderWay = {})
    BY <1>3, EditIs
  <2>2. CASE calls' = calls
    <3>1. \A s \in UnderWay : calls[s].kind = "snapshot"
      BY <2>1 DEF Awaited
    <3>2. \A s \in UnderWay : Fits(calls[s], store, ws')
      BY <1>1, <3>1 DEF Fits, MaySave
    <3>3. UnderWay' = UnderWay
      BY <2>2 DEF UnderWay, Free
    <3>4. QED  BY <1>0, <1>1, <2>1, <2>2, <3>2, <3>3 DEF SettledInv, SameNames, Alone
  <2>3. CASE calls' # calls
    <3>1. AsksVersion(ws) /\ UnderWay = {}
      BY <1>3, <2>1, <2>3, EditIs
    <3>2. PICK c \in Call : Sends(c) /\ c.kind = "snapshot" /\ c.stage = "sent"
      BY <1>3, <2>3, EditIs
    <3>3. Fits(c, store', ws')
      BY <3>2 DEF Fits, MaySave
    <3>4. QED  BY <1>0, <1>1, <2>1, <3>1, <3>2, <3>3, OnlySent, SettledParts DEF SameNames
  <2>4. QED  BY <2>2, <2>3
<1>4. CASE NameIt
  <2>1. /\ ws'.id = None /\ ws'.dirty /\ Awaited = {} /\ calls' = calls
    BY <1>4, NameItIs DEF NameIt
  <2>2. \A s \in UnderWay : calls[s].kind = "snapshot"
    BY <2>1 DEF Awaited
  <2>3. \A s \in UnderWay : Fits(calls[s], store, ws')
    BY <1>1, <2>2 DEF Fits, MaySave
  <2>4. UnderWay' = UnderWay
    BY <2>1 DEF UnderWay, Free
  <2>5. QED  BY <1>0, <1>1, <1>2, <2>1, <2>3, <2>4 DEF SettledInv, Alone
<1>5. CASE Timers
  <2>1. /\ SameNames(ws', ws) /\ ws'.rows = ws.rows /\ ws'.dirty = ws.dirty
    BY <1>5, TimersIs
  <2>2. CASE calls' = calls
    <3>1. \A s \in UnderWay : Fits(calls[s], store, ws')
      BY <1>1, <2>1 DEF Fits, SameNames
    <3>2. UnderWay' = UnderWay
      BY <2>2 DEF UnderWay, Free
    <3>3. QED  BY <1>0, <1>1, <2>1, <2>2, <3>1, <3>2 DEF SettledInv, SameNames, Alone
  <2>3. CASE calls' # calls
    <3>1. UnderWay = {}
      BY <1>5, <2>3, TimersIs
    <3>2. PICK c \in Call : /\ Sends(c) /\ c.kind = "save" /\ c.stage = "sent" /\ c.own
                            /\ c.id = ws.id /\ c.name = ws.name /\ c.rows = ws.rows
      BY <1>5, <2>3, TimersIs
    <3>3. Fits(c, store', ws')
      BY <1>0, <1>1, <2>1, <3>2 DEF Fits, MaySave, Owns, SameNames
    <3>4. QED  BY <1>0, <1>1, <2>1, <3>1, <3>2, <3>3, OnlySent, SettledParts DEF SameNames
  <2>4. QED  BY <2>2, <2>3
<1>6. CASE SaveNow
  <2>1. PICK k \in Slot, c \in Call :
               /\ calls'[k] = c /\ UnderWay' = {k}
               /\ c.kind = "save" /\ c.stage = "sent" /\ c.own
               /\ c.id = ws.id /\ c.name = ws.name /\ c.rows = edits + 1
    BY <1>6, SaveNowIs
  <2>2. /\ SameNames(ws', ws) /\ ws'.rows = edits + 1 /\ ws'.dirty
    BY <1>6, SaveNowIs
  <2>3. Fits(c, store', ws')
    BY <1>0, <1>1, <2>1, <2>2 DEF Fits, MaySave, Owns, SameNames
  <2>4. Only(c)
    BY <2>1 DEF Only
  <2>5. QED  BY <1>0, <1>1, <2>2, <2>3, <2>4, SettledParts DEF SameNames
<1>7. CASE ConfirmCategories
  <2>1. /\ ws.id = None /\ SameNames(ws', ws) /\ ws'.dirty /\ UnderWay = {}
    BY <1>7, ConfirmIs
  <2>2. PICK c \in Call : Sends(c) /\ c.kind = "settings" /\ c.stage = "sent"
    BY <1>7, ConfirmIs
  <2>3. Fits(c, store', ws')
    BY <2>1, <2>2 DEF Fits, MaySave, SameNames
  <2>4. QED  BY <1>0, <1>1, <2>1, <2>2, <2>3, OnlySent, SettledParts DEF SameNames
<1>8. CASE Open \/ Delete
  <2>1. ws' = ws /\ UnderWay = {}
    BY <1>8, AskStoreIs
  <2>2. PICK c \in Call : Sends(c) /\ c.kind \in {"open", "delete"} /\ c.stage = "sent"
    BY <1>8, AskStoreIs
  <2>3. Fits(c, store, ws)
    BY <2>2 DEF Fits, MaySave
  <2>4. QED  BY <1>0, <2>1, <2>2, <2>3, OnlySent, SettledSame
<1>9. CASE AskWipe
  <2>1. ws'.id = None /\ UnderWay = {}
    BY <1>9, AskWipeIs
  <2>2. PICK c \in Call : Sends(c) /\ c.kind = "wipe" /\ c.stage = "sent"
    BY <1>9, AskWipeIs
  <2>3. Fits(c, store', ws')
    BY <2>2 DEF Fits, MaySave
  <2>4. QED  BY <1>0, <1>1, <1>2, <2>1, <2>2, <2>3, OnlySent, SettledParts
<1>10. CASE Leave
  <2>1. ws'.id = None
    BY <1>10, LeaveIs, ScratchTyped
  <2>2. \A c : Only(c) /\ (c.stage # "free" => Fits(c, store, ws')) => SettledInv'
    BY <1>0, <1>1, <1>2, <2>1, SettledParts
  <2>3. CASE calls' = [s \in Slot |-> Orphaned(calls[s])]
    <3>1. PICK k \in Slot : UnderWay \subseteq {k}
      BY <1>1, BoundsAssumption DEF Alone, UnderWay, Slot
    <3>2. Only(Orphaned(calls[k]))
      BY <1>1, <2>3, <3>1, OnlyOrphaned
    <3>3. CASE Orphaned(calls[k]) = Idle
      BY <2>2, <3>2, <3>3 DEF Idle
    <3>4. CASE Orphaned(calls[k]) # Idle
      <4>1. CallTyped(calls[k], edits)
        BY DEF TypeInv, CallsTyped
      <4>2. PICK c : c = Orphaned(calls[k])
        OBVIOUS
      <4>3. /\ calls[k].stage \in {"free", "sent", "read"} /\ ~c.own
            /\ c.stage = calls[k].stage /\ c.kind = calls[k].kind /\ c.id = calls[k].id
            /\ c.name = calls[k].name /\ c.read = calls[k].read
        BY <3>4, <4>1, <4>2, OrphanedTyped, TypeFacts
      <4>4. calls[k].stage # "free" => Fits(calls[k], store, ws)
        BY <1>1 DEF UnderWay, Free
      <4>5. c.stage # "free" => Fits(c, store, ws')
        BY <2>1, <4>3, <4>4 DEF Fits
      <4>6. QED  BY <2>2, <3>2, <4>2, <4>5
    <3>5. QED  BY <3>3, <3>4
  <2>4. CASE calls' # [s \in Slot |-> Orphaned(calls[s])]
    <3>1. UnderWay = {}
      BY <1>10, <2>4, LeaveIs
    <3>2. PICK c \in Call : /\ SomeSlot \in Slot /\ calls'[SomeSlot] = c
                            /\ \A o \in Slot : o # SomeSlot => calls'[o] = Orphaned(calls[o])
                            /\ c.kind = "save" /\ c.stage = "sent" /\ ~c.own
                            /\ c.id = ws.id /\ c.name = ws.name /\ c.rows = ws.rows
      BY <1>10, <2>4, LeaveIs
    <3>3. Only(c)
      BY <1>1, <3>1, <3>2, OnlyOrphaned
    <3>4. Fits(c, store, ws')
      BY <1>1, <2>1, <3>2 DEF Fits, MaySave, Owns
    <3>5. QED  BY <2>2, <3>3, <3>4
  <2>5. QED  BY <2>3, <2>4
<1>11. QED  BY <1>3, <1>4, <1>5, <1>6, <1>7, <1>8, <1>9, <1>10 DEF Steward

(* A handler reads, serves, refuses or loses the only call.                *)
LEMMA ReadSettled ==
  ASSUME TypeInv, VersionInv, SettledInv, NEW s \in Slot,
         \/ ReadForSave(s) \/ ReadForVersion(s) \/ ReadForDelete(s) \/ ReadSettings(s)
         \/ Serve(s) \/ Fail(s)
  PROVE  SettledInv'
<1>1. UNCHANGED <<store, ws>> /\ s \in UnderWay /\ Fits(calls[s], store, ws)
  BY DEF ReadForSave, ReadForVersion, ReadForDelete, ReadSettings, Serve, Fail, SettledInv,
         UnderWay, Free
<1>2. \A c : Touches(s, c) /\ (c.stage # "free" => Fits(c, store, ws)) => SettledInv'
  BY <1>1, OnlyTouched, SettledSame DEF SettledInv
<1>3. Lost(s) => SettledInv'
  BY <1>1, LostSettled
<1>4. ASSUME ReadAs(s, calls[s].id) PROVE SettledInv'
  <2>1. PICK c \in Call : /\ Touches(s, c) /\ c.stage = "read" /\ c.read = store
                          /\ c.id = calls[s].id /\ c.kind = calls[s].kind
                          /\ c.name = calls[s].name /\ c.rows = calls[s].rows
                          /\ c.own = calls[s].own
    BY <1>4 DEF ReadAs
  <2>2. Fits(c, store, ws)
    BY <1>1, <2>1 DEF Fits
  <2>3. QED  BY <1>2, <2>1, <2>2
<1>5. ASSUME calls[s].kind = "save", calls[s].id = None, ReadAs(s, issued + 1)
      PROVE  SettledInv'
  <2>1. PICK c \in Call : /\ Touches(s, c) /\ c.stage = "read" /\ c.read = store
                          /\ c.id = issued + 1 /\ c.kind = calls[s].kind
                          /\ c.name = calls[s].name /\ c.rows = calls[s].rows
                          /\ c.own = calls[s].own
    BY <1>5 DEF ReadAs
  <2>2. issued \in Nat /\ \A i \in Present(store) : i <= issued /\ i \in Nat
    BY BoundsAssumption DEF VersionInv, Shapes, Apart, Copies, Present, Id
  <2>3. Carries(store, c.id, c.name)
    BY <2>1, <2>2 DEF Carries
  <2>4. ws.id = None
    BY <1>1, <1>5 DEF Fits
  <2>5. Fits(c, store, ws)
    BY <1>1, <1>5, <2>1, <2>3, <2>4 DEF Fits
  <2>6. QED  BY <1>2, <2>1, <2>5
<1>6. CASE ReadForSave(s)
  BY <1>3, <1>4, <1>5, <1>6, ReadForSaveIs
<1>7. CASE ReadForVersion(s)
  <2>1. CASE Lost(s)
    BY <1>3, <2>1
  <2>2. CASE ~Lost(s)
    <3>1. PICK c \in Call : /\ Touches(s, c) /\ c.stage = "read" /\ c.read = store
                            /\ c.kind = "snapshot"
      BY <1>7, <2>2, ReadForVersionIs
    <3>2. Fits(c, store, ws)
      BY <3>1 DEF Fits, MaySave
    <3>3. QED  BY <1>2, <3>1, <3>2
  <2>3. QED  BY <2>1, <2>2
<1>8. CASE ReadForDelete(s)
  BY <1>4, <1>8, ReadForDeleteIs
<1>9. CASE ReadSettings(s)
  <2>1. PICK c \in Call : Touches(s, c) /\ (c = Idle \/ (c.kind = "settings" /\ c.stage = "done"))
    BY <1>9, ReadSettingsIs
  <2>2. c.stage # "free" => Fits(c, store, ws)
    BY <1>1, <1>9, <2>1, ReadSettingsIs DEF Fits, MaySave, Idle
  <2>3. QED  BY <1>2, <2>1, <2>2
<1>10. CASE Serve(s) /\ ~Lost(s)
  <2>1. PICK c \in Call, e \in {store[calls[s].id]} :
                             /\ Touches(s, c)
                             /\ c.kind = "open" /\ c.stage = "done" /\ c.id = calls[s].id
                             /\ c.rows = e.rows /\ c.name = e.name /\ c.copy = e.archived
                             /\ e.rows # 0
    BY <1>10, ServeIs
  <2>2. calls[s].id \in Id
    BY <1>10, ServeIs
  <2>3. Agrees(store, c.id, c.rows) /\ (~c.copy => Owns(store, c.id, c.name))
    BY <2>1, <2>2 DEF Agrees, Owns, Carries, Taken, Live, Present, SettledInv, Distinct
  <2>4. Fits(c, store, ws)
    BY <2>1, <2>3 DEF Fits, MaySave
  <2>5. QED  BY <1>2, <2>1, <2>4
<1>11. CASE Fail(s)
  BY <1>3, <1>11, FailIs
<1>12. QED  BY <1>3, <1>6, <1>7, <1>8, <1>9, <1>10, <1>11

(* What the only call writes is what the window may take it for.           *)
LEMMA WipeSettled ==
  ASSUME TypeInv, SettledInv, NEW s \in Slot, Wipe(s)
  PROVE  SettledInv'
<1>1. ws' = ws /\ s \in UnderWay
  BY DEF Wipe, UnderWay, Free
<1>2. Present(store') = {}
  BY WipeIs DEF Present, NoEntry
<1>3. PICK c \in Call : Touches(s, c) /\ (c = Idle \/ (c.kind = "wipe" /\ c.stage = "done"))
  BY WipeIs
<1>4. c.stage # "free" => Fits(c, store', ws')
  BY <1>3 DEF Fits, MaySave, Idle
<1>5. Live(store') = {}
  BY <1>2 DEF Live
<1>6. /\ Distinct(store') /\ Owns(store', ws'.id, ws'.name)
      /\ Agrees(store', ws'.id, ws'.rows)
  BY <1>2, <1>5 DEF Distinct, Owns, Carries, Agrees, Taken
<1>7. QED  BY <1>1, <1>3, <1>4, <1>6, OnlyTouched, SettledParts DEF SettledInv

(* Entries that go, and one version that comes, leave what holds.          *)
LEMMA ShrinkSettled ==
  ASSUME NEW g, NEW h, NEW x, \A i \in Live(h) : h[i] = g[i],
         \A i \in Present(h) : i = x \/ h[i] = g[i]
  PROVE  /\ Distinct(g) => Distinct(h)
         /\ \A id, n : id # x /\ Owns(g, id, n) => Owns(h, id, n)
         /\ \A id, r : id # x /\ Agrees(g, id, r) => Agrees(h, id, r)
<1>1. Live(h) \subseteq Live(g)
  BY DEF Live, Present
<1>2. \A id : Taken(h, id) \subseteq Taken(g, id)
  BY <1>1 DEF Taken
<1>3. \A i \in Present(h) : i = x \/ i \in Present(g)
  BY DEF Present
<1>4. QED  BY <1>1, <1>2, <1>3 DEF Distinct, Owns, Carries, Agrees

LEMMA WriteSaveSettled ==
  ASSUME TypeInv, VersionInv, SettledInv, NEW s \in Slot, Write(s), calls[s].kind = "save"
  PROVE  SettledInv'
<1>0. /\ calls[s].stage = "read" /\ s \in UnderWay /\ Fits(calls[s], store, ws)
      /\ CallTyped(calls[s], edits) /\ ws' = ws /\ store' = Saved(calls[s])
  BY DEF Write, UnderWay, Free, SettledInv, TypeInv, CallsTyped, Rewritten
<1>1. PICK d, g : d = calls[s] /\ g = store
  OBVIOUS
<1>2. /\ d.read = g /\ Carries(g, d.id, d.name)
      /\ IF d.own THEN d.rows = ws.rows ELSE ws.id = None
      /\ ws.id # None => ws.id = d.id /\ ws.name = d.name
  BY <1>0, <1>1 DEF Fits
<1>3. PICK n, h : n = Suffixed(g, d.id, d.name) /\ h = store'
  OBVIOUS
<1>4. /\ d.id \in Id /\ \A i \in Id : i # d.id => h[i] = g[i]
      /\ h[d.id].rows = d.rows /\ d.rows # 0 /\ ~h[d.id].archived /\ h[d.id].name = n
  BY <1>0, <1>1, <1>2, <1>3, SavedEffect, TypeFacts
<1>5. d.id \notin Versions(g)
  <2>1. d.id \in Targets /\ store \in Copies
    BY <1>1 DEF Targets, MaySave, Copies
  <2>2. QED  BY <1>1, <2>1 DEF VersionInv, Apart
<1>6. g \in [Id -> Entry] /\ d.name \in Seq(Nat)
  BY <1>0, <1>1 DEF TypeInv, Stored, CallTyped, Call
<1>7. n \notin Taken(g, d.id)
  <2>1. CASE d.id \in Present(g)
    <3>1. n = g[d.id].name /\ d.id \in Live(g)
      BY <1>2, <1>3, <1>4, <1>5, <1>6, <2>1, SuffixedIs DEF Carries, Live, Versions
    <3>2. QED  BY <1>1, <3>1 DEF Taken, SettledInv, Distinct
  <2>2. QED  BY <1>3, <1>4, <1>6, <2>1, SuffixedIs
<1>8. ws.id # None => n = ws.name
  <2>1. HAVE ws.id # None
  <2>2. ws.id = d.id /\ ws.name = d.name /\ d.name \notin Taken(g, d.id)
    BY <1>1, <1>2, <2>1 DEF SettledInv, Owns
  <2>3. QED  BY <1>3, <2>2 DEF Suffixed
<1>9. Live(h) = Live(g) \cup {d.id} /\ Taken(h, d.id) = Taken(g, d.id)
  <2>1. Live(h) = Live(g) \cup {d.id}
    BY <1>4 DEF Live, Present
  <2>2. \A i \in Live(g) \ {d.id} : h[i] = g[i]
    BY <1>4 DEF Live, Present
  <2>3. QED  BY <2>1, <2>2 DEF Taken
<1>10. Owns(h, d.id, n) /\ Agrees(h, d.id, d.rows)
  BY <1>4, <1>7, <1>9 DEF Owns, Carries, Agrees
<1>11. Distinct(h)
  <2>1. Distinct(g)
    BY <1>1 DEF SettledInv
  <2>2. \A i \in Live(h) : i # d.id => i \in Live(g) /\ h[i] = g[i] /\ h[i].name # n
    BY <1>4, <1>7, <1>9 DEF Taken, Live, Present
  <2>3. QED  BY <1>4, <2>1, <2>2 DEF Distinct
<1>12. Owns(h, ws.id, ws.name) /\ (~ws.dirty => Agrees(h, ws.id, ws.rows))
  BY <1>2, <1>8, <1>10, NoId DEF Owns, Carries, Agrees, Present
<1>a. PICK c \in Call :
        /\ Touches(s, c)
        /\ \/ c = Idle
           \/ /\ c.kind = calls[s].kind /\ c.stage = "done" /\ c.id = calls[s].id
              /\ c.rows = calls[s].rows /\ c.own /\ calls[s].own
              /\ c.kind = "save" => c.name = store'[c.id].name
  BY WriteEffect
<1>13. \/ c = Idle
       \/ /\ c.kind = "save" /\ c.stage = "done" /\ c.id = d.id
          /\ c.rows = d.rows /\ c.own /\ d.own /\ c.name = h[c.id].name
  BY <1>1, <1>3, <1>a
<1>14. c.stage # "free" => Fits(c, h, ws)
  <2>1. HAVE c.stage # "free"
  <2>2. /\ c.kind = "save" /\ c.stage = "done" /\ c.id = d.id
        /\ c.rows = d.rows /\ c.own /\ d.own /\ c.name = n
    BY <1>4, <1>13, <2>1 DEF Idle
  <2>3. QED  BY <1>2, <1>8, <1>10, <2>2 DEF Fits, Owns
<1>15. QED
  BY <1>0, <1>3, <1>11, <1>12, <1>a, <1>14, OnlyTouched, SettledParts DEF SettledInv

LEMMA WriteSettled ==
  ASSUME TypeInv, VersionInv, SettledInv, NEW s \in Slot, Write(s)
  PROVE  SettledInv'
<1>0. /\ calls[s].stage = "read" /\ s \in UnderWay /\ Fits(calls[s], store, ws)
      /\ CallTyped(calls[s], edits) /\ ws' = ws /\ store' = Rewritten(calls[s])
      /\ calls[s].read = store
  BY DEF Write, UnderWay, Free, SettledInv, TypeInv, CallsTyped, Fits
<1>1. CASE calls[s].kind = "save"
  BY <1>1, WriteSaveSettled
<1>2. CASE calls[s].kind # "save"
  <2>1. PICK c \in Call : /\ Touches(s, c)
                          /\ c = Idle \/ (c.kind = calls[s].kind /\ c.stage = "done")
    BY WriteEffect
  <2>2. calls[s].kind \in {"snapshot", "delete"}
    BY <1>2, WriteEffect
  <2>3. c.stage # "free" => Fits(c, store', ws')
    BY <2>1, <2>2 DEF Fits, MaySave, Idle
  <2>4. Distinct(store') /\ Owns(store', ws.id, ws.name) /\ (~ws.dirty => Agrees(store', ws.id, ws.rows))
    <3>1. CASE calls[s].kind = "delete"
      <4>1. store' = Removed(calls[s])
        BY <1>0, <3>1 DEF Rewritten
      <4>2. \A i \in Present(store') : store'[i] = store[i]
        BY <1>0, <3>1, <4>1, RemovedEffect, TypeFacts DEF Present
      <4>3. \A i \in Live(store') : store'[i] = store[i]
        BY <4>2 DEF Live
      <4>4. PICK x : x # ws.id
        <5>1. ws.id \in Nat
          BY TypeFacts DEF Window, Id, None
        <5>2. ws.id + 1 # ws.id
          BY <5>1
        <5>3. QED  BY <5>2
      <4>5. QED  BY <4>2, <4>3, <4>4, ShrinkSettled DEF SettledInv
    <3>2. CASE calls[s].kind = "snapshot"
      <4>1. store' = Archived(calls[s])
        BY <1>0, <3>2 DEF Rewritten
      <4>2. PICK x : x = calls[s].rows
        OBVIOUS
      <4>3. /\ \A i \in Id : i # x => store'[i] = store[i] \/ store'[i].rows = 0
            /\ store'[x].rows # 0 => store'[x].archived
        BY <1>0, <3>2, <4>1, <4>2, ArchivedEffect, TypeFacts
      <4>4. /\ \A i \in Live(store') : store'[i] = store[i]
            /\ \A i \in Present(store') : i = x \/ store'[i] = store[i]
        BY <4>3 DEF Live, Present
      <4>5. ws.id # x
        <5>1. <<s, x>> \in Drawn /\ ws.id \in Targets
          BY <1>0, <3>2, <4>2 DEF Drawn, Reading, Targets
        <5>2. QED  BY <5>1 DEF VersionInv, Apart
      <4>6. QED  BY <4>4, <4>5, ShrinkSettled DEF SettledInv
    <3>3. QED  BY <2>2, <3>1, <3>2
  <2>5. QED  BY <1>0, <2>1, <2>3, <2>4, OnlyTouched, SettledParts DEF SettledInv
<1>3. QED  BY <1>1, <1>2

LEMMA AnswerSettled ==
  ASSUME TypeInv, SettledInv, NEW s \in Slot, Settle(s), ~seen'.crossed
  PROVE  SettledInv'
<1>0. /\ store' = store /\ s \in UnderWay /\ Fits(calls[s], store, ws)
      /\ Alone /\ Distinct(store) /\ Owns(store, ws.id, ws.name)
      /\ ~ws.dirty => Agrees(store, ws.id, ws.rows)
  BY DEF Settle, SaveAnswered, SnapshotAnswered, OpenAnswered, DeleteAnswered, WipeAnswered,
         KeystoneNamed, Done, UnderWay, Free, SettledInv
<1>1. \A n, r : Owns(store, None, n) /\ Agrees(store, None, r)
  BY NoId DEF Owns, Carries, Agrees, Present
<1>2. Touches(s, Idle) => Only(Idle)
  BY <1>0, OnlyTouched
<1>3. Idle.stage = "free"
  BY DEF Idle
<1>4. CASE SaveAnswered(s)
  <2>1. /\ Only(Idle) /\ calls[s].kind = "save" /\ calls[s].own /\ ws'.rows = ws.rows
        /\ \/ /\ calls[s].stage = "done" /\ ws'.id = calls[s].id /\ ws'.name = calls[s].name
           \/ ws'.id = ws.id /\ ws'.name = ws.name /\ ws'.dirty = ws.dirty
    BY <1>2, <1>4, SaveAnsweredIs
  <2>2. Owns(store, ws'.id, ws'.name) /\ (~ws'.dirty => Agrees(store, ws'.id, ws'.rows))
    BY <1>0, <2>1 DEF Fits, MaySave
  <2>3. QED  BY <1>0, <1>3, <2>1, <2>2, SettledParts
<1>5. CASE SnapshotAnswered(s)
  BY <1>0, <1>2, <1>3, <1>5, SnapshotAnsweredIs, SettledParts
<1>6. CASE OpenAnswered(s)
  <2>1. Only(Idle) /\ calls[s].kind = "open"
    BY <1>2, <1>6, OpenAnsweredIs
  <2>2. CASE ws' = ws
    BY <1>0, <1>3, <2>1, <2>2, SettledSame DEF SettledInv
  <2>3. CASE ws' # ws
    <3>1. /\ calls[s].stage = "done"
          /\ ws'.id = (IF calls[s].copy THEN None ELSE calls[s].id)
          /\ ws'.name = calls[s].name /\ ws'.rows = calls[s].rows
      BY <1>6, <2>3, OpenAnsweredIs
    <3>2. Owns(store, ws'.id, ws'.name) /\ Agrees(store, ws'.id, ws'.rows)
      BY <1>0, <1>1, <2>1, <3>1 DEF Fits, MaySave
    <3>3. QED  BY <1>0, <1>3, <2>1, <3>2, SettledParts
  <2>4. QED  BY <2>2, <2>3
<1>7. CASE DeleteAnswered(s)
  <2>1. Only(Idle) /\ ws' = ws
    BY <1>2, <1>7, AnsweredEffect DEF DeleteAnswered
  <2>2. QED  BY <1>0, <1>3, <2>1, SettledSame DEF SettledInv
<1>8. CASE WipeAnswered(s)
  <2>1. CASE Touches(s, Idle) /\ ws' = ws
    BY <1>0, <1>2, <1>3, <2>1, SettledSame DEF SettledInv
  <2>2. CASE /\ ws' = Scratch /\ calls'[s] = Idle
             /\ \A o \in Slot : o # s => calls'[o] = Orphaned(calls[o])
    <3>1. UnderWay \subseteq {s}
      BY <1>0 DEF Alone
    <3>2. Only(Idle)
      BY <1>0, <2>2, <3>1, OnlyOrphaned
    <3>3. ws'.id = None
      BY <2>2, ScratchTyped
    <3>4. QED  BY <1>0, <1>1, <1>3, <3>2, <3>3, SettledParts
  <2>3. QED  BY <1>8, <2>1, <2>2, WipeAnsweredIs
<1>9. CASE KeystoneNamed(s)
  <2>1. /\ ws.id = None /\ ws'.id = ws.id /\ ws'.dirty
    BY <1>0, <1>9, KeystoneNamedIs DEF Fits
  <2>2. \A c : Only(c) /\ (c.stage # "free" => Fits(c, store, ws')) => SettledInv'
    BY <1>0, <1>1, <2>1, SettledParts
  <2>3. CASE Touches(s, Idle)
    BY <1>2, <1>3, <2>2, <2>3
  <2>4. CASE ~Touches(s, Idle)
    <3>1. PICK k \in Slot, c \in Call :
                 /\ calls'[k] = c /\ UnderWay' = {k}
                 /\ c.kind = "save" /\ c.stage = "sent" /\ c.own
                 /\ c.id = ws'.id /\ c.name = ws'.name /\ c.rows = ws'.rows
      BY <1>9, <2>4, KeystoneNamedIs
    <3>2. Only(c)
      BY <3>1 DEF Only
    <3>3. Fits(c, store, ws')
      BY <1>1, <2>1, <3>1 DEF Fits, MaySave, Owns
    <3>4. QED  BY <2>2, <3>2, <3>3
  <2>5. QED  BY <2>3, <2>4
<1>10. QED  BY <1>4, <1>5, <1>6, <1>7, <1>8, <1>9 DEF Settle

(* What crossed has crossed for good.                                      *)
LEMMA CrossedStays ==
  ASSUME TypeInv, [Next]_vars, seen.crossed
  PROVE  seen'.crossed
<1>1. CASE Steward \/ Timers
  BY <1>1, EditIs, NameItIs, SaveNowIs, ConfirmIs, AskStoreIs, AskWipeIs, LeaveIs, TimersIs
     DEF Steward, SeenSame
<1>2. ASSUME NEW s \in Slot, Handle(s) \/ Settle(s) \/ Fail(s) PROVE seen'.crossed
  <2>1. CASE Write(s)
    BY <2>1, SeenWrite
  <2>2. CASE Wipe(s)
    BY <2>2, WipeIs
  <2>3. CASE OpenAnswered(s) \/ KeystoneNamed(s)
    BY <2>3, OpenAnsweredIs, KeystoneNamedIs DEF SeenSame
  <2>4. CASE ~Write(s) /\ ~Wipe(s) /\ ~OpenAnswered(s) /\ ~KeystoneNamed(s)
    BY <1>2, <2>4 DEF Handle, Settle, Fail, ReadForSave, ReadSettings, ReadForVersion,
       ReadForDelete, Serve, SaveAnswered, SnapshotAnswered, DeleteAnswered, WipeAnswered
  <2>5. QED  BY <2>1, <2>2, <2>3, <2>4
<1>3. CASE AcceptAgain \/ Rest \/ UNCHANGED vars
  BY <1>3 DEF AcceptAgain, Rest, vars
<1>4. QED  BY <1>1, <1>2, <1>3 DEF Next

AloneInv == ~seen.crossed => SettledInv

LEMMA AloneKept ==
  ASSUME TypeInv, VersionInv, AloneInv, [Next]_vars
  PROVE  AloneInv'
<1> SUFFICES ASSUME ~seen'.crossed PROVE SettledInv'
  BY DEF AloneInv
<1>1. SettledInv
  BY CrossedStays DEF AloneInv
<1>2. CASE Steward \/ Timers
  BY <1>1, <1>2, WindowSettled
<1>3. ASSUME NEW s \in Slot, Handle(s) \/ Settle(s) \/ Fail(s) PROVE SettledInv'
  BY <1>1, <1>3, ReadSettled, WriteSettled, WipeSettled, AnswerSettled DEF Handle
<1>4. CASE AcceptAgain \/ Rest \/ UNCHANGED vars
  <2>1. UNCHANGED <<store, ws, calls>>
    BY <1>4 DEF AcceptAgain, Rest, vars
  <2>2. QED  BY <1>1, <2>1 DEF SettledInv, Alone, UnderWay, Free
<1>5. QED  BY <1>2, <1>3, <1>4 DEF Next

LEMMA AloneStart == Init => AloneInv
<1> SUFFICES ASSUME Init PROVE SettledInv
  BY DEF AloneInv
<1>1. \A s \in Slot : calls[s].stage = "free"
  BY DEF Init, Idle
<1>2. UnderWay = {}
  BY <1>1 DEF UnderWay, Free
<1>3. Present(store) = {} /\ Live(store) = {}
  BY DEF Init, Present, Live, NoEntry
<1>4. QED  BY <1>2, <1>3 DEF SettledInv, Alone, Distinct, Owns, Carries, Agrees, Taken

(* As long as calls do not cross, what the window shows as saved is what   *)
(* the store holds under its id, and that is no version.                   *)
THEOREM SavedStaysStored == Spec => []SavedIsStored
<1>1. TypeInv /\ VersionInv /\ AloneInv /\ [Next]_vars => TypeInv' /\ VersionInv' /\ AloneInv'
  BY TypesKept, VersionsKept, AloneKept
<1>2. VersionInv /\ AloneInv => SavedIsStored
  <2> SUFFICES ASSUME VersionInv, SettledInv, ~ws.dirty, ws.id \in Present(store)
               PROVE  ~store[ws.id].archived /\ store[ws.id].rows = ws.rows
    BY DEF AloneInv, SavedIsStored
  <2>1. ws.id \notin Versions(store)
    BY WsTarget DEF VersionInv, Apart, Copies
  <2>2. QED  BY <2>1 DEF SettledInv, Agrees, Versions
<1>3. QED  BY <1>1, <1>2, TypesStart, VersionsStart, AloneStart, PTL DEF Spec

(* As long as calls do not cross, no two live glossaries share a name.     *)
THEOREM NamesStayDistinct == Spec => []LiveNamesDistinct
<1>1. TypeInv /\ VersionInv /\ AloneInv /\ [Next]_vars => TypeInv' /\ VersionInv' /\ AloneInv'
  BY TypesKept, VersionsKept, AloneKept
<1>2. AloneInv => LiveNamesDistinct
  BY DEF AloneInv, SettledInv, Distinct, LiveNamesDistinct
<1>3. QED  BY <1>1, <1>2, TypesStart, VersionsStart, AloneStart, PTL DEF Spec

-----------------------------------------------------------------------------
(* What a window loaded is archived before it is overwritten.              *)

Kept(g, h, r)   == r \in h.removed \/ \E v \in Versions(g) : g[v].rows = r
Loaded(g, h, i) == i \in Live(g) /\ g[i].rows <= h.opened

(* Until a version was made or asked for, the window shows what it loaded; *)
(* a copy of a version is that version still; what was loaded and not yet  *)
(* edited is in the store, or was deleted.                                 *)
WindowKept(w, g, h) ==
  /\ w.snapshotDone /\ Loaded(g, h, w.id) => Kept(g, h, g[w.id].rows)
  /\ ~w.snapshotDone /\ ~w.snapshotPending /\ Loaded(g, h, w.id) => g[w.id].rows = w.rows
  /\ w.rows <= h.opened =>
       IF w.id = None THEN w.rows # 0 => w.snapshotDone /\ Kept(g, h, w.rows)
       ELSE IF w.id \in Present(g) THEN g[w.id].rows = w.rows
       ELSE w.rows \in h.removed

CallKept(c, w, g, h, n) ==
  /\ c.kind = "snapshot" =>
       /\ c.own => c.id = w.id
       /\ c.stage \in {"sent", "read"} => ~w.snapshotDone
       /\ c.stage = "read" => c.rows = n
       /\ c.stage = "done" /\ Loaded(g, h, c.id) => Kept(g, h, g[c.id].rows)
       /\ c.stage = "failed" => c.id \notin Live(g)
  /\ c.kind = "save" /\ Loaded(g, h, c.id) /\ g[c.id].rows # c.rows => Kept(g, h, g[c.id].rows)
  /\ c.stage = "done" /\ MaySave(c) => c.id \in Present(g)
  /\ c.kind = "open" /\ c.stage = "done" /\ c.copy => Kept(g, h, c.rows)
  /\ c.kind = "wipe" => w.id = None /\ w.rows = 0

ArchiveInv ==
  /\ WindowKept(ws, store, seen)
  /\ ws.snapshotPending => /\ UnderWay # {}
                           /\ \A s \in UnderWay : calls[s].kind = "snapshot" /\ calls[s].own
  /\ \A s \in UnderWay : CallKept(calls[s], ws, store, seen, issued)

(* The only call that is under way, and what the window waits for.         *)
LEMMA ArchiveParts ==
  ASSUME NEW c, Only(c), WindowKept(ws', store', seen'),
         c.stage # "free" => CallKept(c, ws', store', seen', issued'),
         ws'.snapshotPending => c.stage # "free" /\ c.kind = "snapshot" /\ c.own
  PROVE  ArchiveInv'
<1>1. PICK k \in Slot : UnderWay' \subseteq {k} /\ calls'[k] = c
  BY DEF Only
<1>2. \A s \in UnderWay' : calls'[s] = c /\ c.stage # "free"
  BY <1>1 DEF UnderWay, Free
<1>3. c.stage # "free" => k \in UnderWay'
  BY <1>1 DEF UnderWay, Free
<1>4. QED  BY <1>2, <1>3 DEF ArchiveInv

(* What was kept is kept while the window only changes what it shows.      *)
LEMMA SameSeen ==
  ASSUME SeenSame
  PROVE  \A g : /\ \A r : Kept(g, seen', r) <=> Kept(g, seen, r)
                /\ \A i : Loaded(g, seen', i) <=> Loaded(g, seen, i)
BY DEF SeenSame, Kept, Loaded

LEMMA WindowSame ==
  ASSUME SeenSame, NEW w, NEW v, NEW g, WindowKept(v, g, seen), w.id = v.id, w.rows = v.rows,
         w.snapshotDone = v.snapshotDone, w.snapshotPending = v.snapshotPending
  PROVE  WindowKept(w, g, seen')
BY SameSeen DEF WindowKept, SeenSame

LEMMA WindowNone ==
  ASSUME NEW w, NEW g, NEW h, w.id = None, w.rows = 0
  PROVE  WindowKept(w, g, h)
BY NoId DEF WindowKept, Loaded, Live, Present

(* A save is sent when nothing is under way: there is a version by then,   *)
(* or the rows are those that were loaded.                                 *)
LEMMA SaveKept ==
  ASSUME ArchiveInv, UnderWay = {}, SeenSame, NEW w, NEW c, NEW n, c.kind = "save", c.stage = "sent",
         c.id = ws.id, c.rows = ws.rows \/ ~AsksVersion(ws)
  PROVE  CallKept(c, w, store, seen', n)
<1>1. Loaded(store, seen, ws.id) => ws.id # None
  BY NoId DEF Loaded, Live, Present
<1>2. ~ws.snapshotPending /\ WindowKept(ws, store, seen)
  BY DEF ArchiveInv
<1>3. Loaded(store, seen, ws.id) /\ store[ws.id].rows # c.rows => ws.snapshotDone
  BY <1>1, <1>2 DEF WindowKept, AsksVersion
<1>4. QED  BY <1>2, <1>3, SameSeen DEF CallKept, WindowKept, MaySave

LEMMA WindowArchives ==
  ASSUME TypeInv, Alone, ArchiveInv, Steward \/ Timers, ~seen'.crossed
  PROVE  ArchiveInv'
<1>0. store' = store /\ issued' = issued
  BY DEF Steward, Timers, Edit, NameIt, SaveNow, ConfirmCategories, Open, Delete, AskWipe,
         Leave, Debounce, Interval
<1>1. /\ WindowKept(ws, store, seen)
      /\ ws.snapshotPending => /\ UnderWay # {}
                               /\ \A s \in UnderWay : calls[s].kind = "snapshot" /\ calls[s].own
      /\ \A s \in UnderWay : CallKept(calls[s], ws, store, seen, issued)
  BY DEF ArchiveInv
<1>2. ASSUME calls' = calls, WindowKept(ws', store', seen'),
             ws'.snapshotPending = ws.snapshotPending,
             \A s \in UnderWay : CallKept(calls[s], ws', store, seen', issued)
      PROVE  ArchiveInv'
  <2>1. UnderWay' = UnderWay
    BY <1>2 DEF UnderWay, Free
  <2>2. QED  BY <1>0, <1>1, <1>2, <2>1 DEF ArchiveInv
<1>3. ASSUME NEW c, Only(c), UnderWay = {}, WindowKept(ws', store, seen'),
             CallKept(c, ws', store, seen', issued),
             ws'.snapshotPending => ws.snapshotPending
                                    \/ (c.stage = "sent" /\ c.kind = "snapshot" /\ c.own)
      PROVE  ArchiveInv'
  BY <1>0, <1>1, <1>3, ArchiveParts
<1>4. CASE Edit
  <2>1. /\ SameNames(ws', ws) /\ ws'.rows = edits + 1
        /\ Awaited = {} /\ (AsksVersion(ws) => UnderWay = {}) /\ SeenSame
        /\ ws'.snapshotPending <=> ws.snapshotPending \/ AsksVersion(ws)
    BY <1>4, EditIs
  <2>2. ~(ws'.rows <= seen'.opened)
    BY <2>1, TypeFacts DEF SeenSame
  <2>3. Loaded(store, seen, ws.id) => ws.id # None
    BY NoId DEF Loaded, Live, Present
  <2>4. WindowKept(ws', store, seen')
    BY <1>1, <2>1, <2>2, <2>3, SameSeen DEF WindowKept, SameNames, AsksVersion
  <2>5. CASE ~AsksVersion(ws) /\ calls' = calls
    <3>1. \A s \in UnderWay : calls[s].kind = "snapshot"
      BY <2>1 DEF Awaited
    <3>2. \A s \in UnderWay : CallKept(calls[s], ws', store, seen', issued)
      BY <1>1, <2>1, <3>1, SameSeen DEF CallKept, SameNames, MaySave
    <3>3. ws'.snapshotPending = ws.snapshotPending
      BY <2>1, <2>5, <1>4, TypeFacts, EditIs DEF Window
    <3>4. QED  BY <1>0, <1>2, <2>4, <2>5, <3>2, <3>3
  <2>6. CASE AsksVersion(ws)
    <3>1. PICK c \in Call : Sends(c) /\ c.kind = "snapshot" /\ c.stage = "sent" /\ c.id = ws.id /\ c.own
      BY <1>4, <2>6, EditIs
    <3>2. CallKept(c, ws', store, seen', issued)
      BY <2>1, <2>6, <3>1 DEF CallKept, SameNames, AsksVersion, MaySave
    <3>3. QED  BY <1>3, <2>1, <2>4, <2>6, <3>1, <3>2, OnlySent
  <2>7. QED  BY <1>4, <2>5, <2>6, EditIs
<1>5. CASE NameIt
  <2>1. /\ ws.id = None /\ ws'.id = None /\ ws'.rows = ws.rows /\ SeenSame /\ Awaited = {}
        /\ ws'.snapshotDone = ws.snapshotDone /\ ws'.snapshotPending = ws.snapshotPending
        /\ calls' = calls
    BY <1>5, NameItIs DEF NameIt
  <2>2. WindowKept(ws', store, seen')
    BY <1>1, <2>1, WindowSame
  <2>3. \A s \in UnderWay : calls[s].kind = "snapshot"
    BY <2>1 DEF Awaited
  <2>4. \A s \in UnderWay : CallKept(calls[s], ws', store, seen', issued)
    BY <1>1, <2>1, <2>3, SameSeen DEF CallKept, MaySave
  <2>5. QED  BY <1>0, <1>2, <2>1, <2>2, <2>4
<1>6. CASE Timers
  <2>1. /\ SameNames(ws', ws) /\ ws'.rows = ws.rows /\ SeenSame
        /\ ws'.snapshotPending = ws.snapshotPending
    BY <1>6, TimersIs
  <2>2. WindowKept(ws', store, seen')
    BY <1>1, <2>1, WindowSame DEF SameNames
  <2>3. CASE calls' = calls
    <3>1. \A s \in UnderWay : CallKept(calls[s], ws', store, seen', issued)
      BY <1>1, <2>1, SameSeen DEF CallKept, MaySave, SameNames
    <3>2. QED  BY <1>0, <1>2, <2>1, <2>2, <2>3, <3>1
  <2>4. CASE calls' # calls
    <3>1. UnderWay = {}
      BY <1>6, <2>4, TimersIs
    <3>2. PICK c \in Call : /\ Sends(c) /\ c.kind = "save" /\ c.stage = "sent"
                            /\ c.id = ws.id /\ c.rows = ws.rows
      BY <1>6, <2>4, TimersIs
    <3>3. CallKept(c, ws', store, seen', issued)
      BY <2>1, <3>1, <3>2, SaveKept
    <3>4. QED  BY <1>3, <2>1, <2>2, <3>1, <3>2, <3>3, OnlySent
  <2>5. QED  BY <2>3, <2>4
<1>7. CASE SaveNow
  <2>1. /\ SameNames(ws', ws) /\ ws'.rows = edits + 1 /\ SeenSame /\ UnderWay = {}
        /\ ~AsksVersion(ws) /\ ws'.snapshotPending = ws.snapshotPending
    BY <1>7, SaveNowIs
  <2>2. ~(ws'.rows <= seen'.opened)
    BY <2>1, TypeFacts DEF SeenSame
  <2>3. Loaded(store, seen, ws.id) => ws.id # None
    BY NoId DEF Loaded, Live, Present
  <2>4. WindowKept(ws', store, seen')
    BY <1>1, <2>1, <2>2, <2>3, SameSeen DEF WindowKept, SameNames, AsksVersion
  <2>5. PICK k \in Slot, c \in Call :
          /\ calls'[k] = c /\ UnderWay' = {k}
          /\ c.kind = "save" /\ c.stage = "sent" /\ c.id = ws.id
    BY <1>7, SaveNowIs
  <2>6. CallKept(c, ws', store, seen', issued) /\ Only(c)
    BY <2>1, <2>5, SaveKept DEF Only
  <2>7. QED  BY <1>3, <2>1, <2>4, <2>6
<1>8. CASE ConfirmCategories
  <2>1. /\ SameNames(ws', ws) /\ ws'.rows = ws.rows /\ SeenSame /\ UnderWay = {}
        /\ ws'.snapshotPending = ws.snapshotPending
    BY <1>8, ConfirmIs
  <2>2. WindowKept(ws', store, seen')
    BY <1>1, <2>1, WindowSame DEF SameNames
  <2>3. PICK c \in Call : Sends(c) /\ c.kind = "settings" /\ c.stage = "sent"
    BY <1>8, ConfirmIs
  <2>4. CallKept(c, ws', store, seen', issued)
    BY <2>3 DEF CallKept, MaySave
  <2>5. QED  BY <1>3, <2>1, <2>2, <2>3, <2>4, OnlySent
<1>9. CASE Open \/ Delete
  <2>1. ws' = ws /\ SeenSame /\ UnderWay = {}
    BY <1>9, AskStoreIs
  <2>2. WindowKept(ws', store, seen')
    BY <1>1, <2>1, WindowSame
  <2>3. PICK c \in Call : Sends(c) /\ c.kind \in {"open", "delete"} /\ c.stage = "sent"
    BY <1>9, AskStoreIs
  <2>4. CallKept(c, ws', store, seen', issued)
    BY <2>3 DEF CallKept, MaySave
  <2>5. QED  BY <1>3, <2>1, <2>2, <2>3, <2>4, OnlySent
<1>10. CASE AskWipe
  <2>1. /\ ws'.id = None /\ ws'.rows = 0 /\ UnderWay = {}
        /\ ws'.snapshotPending = ws.snapshotPending
    BY <1>10, AskWipeIs
  <2>2. PICK c \in Call : Sends(c) /\ c.kind = "wipe" /\ c.stage = "sent"
    BY <1>10, AskWipeIs
  <2>3. CallKept(c, ws', store, seen', issued)
    BY <2>1, <2>2 DEF CallKept, MaySave
  <2>4. QED  BY <1>3, <2>1, <2>2, <2>3, OnlySent, WindowNone
<1>11. CASE Leave
  <2>1. ws' = Scratch /\ SeenSame /\ ws'.id = None /\ ws'.rows = 0 /\ ~ws'.snapshotPending /\ ~ws'.snapshotDone
    BY <1>11, LeaveIs, ScratchTyped
  <2>2. WindowKept(ws', store, seen')
    BY <2>1, WindowNone
  <2>3. \A c : Only(c) /\ (c.stage # "free" => CallKept(c, ws', store, seen', issued)) => ArchiveInv'
    BY <1>0, <2>1, <2>2, ArchiveParts
  <2>4. CASE calls' = [s \in Slot |-> Orphaned(calls[s])]
    <3>1. PICK k \in Slot : UnderWay \subseteq {k}
      BY BoundsAssumption DEF Alone, UnderWay, Slot
    <3>2. Only(Orphaned(calls[k]))
      BY <2>4, <3>1, OnlyOrphaned
    <3>3. CASE Orphaned(calls[k]) = Idle
      BY <2>3, <3>2, <3>3 DEF Idle
    <3>4. CASE Orphaned(calls[k]) # Idle
      <4>1. CallTyped(calls[k], edits)
        BY DEF TypeInv, CallsTyped
      <4>2. PICK c : c = Orphaned(calls[k])
        OBVIOUS
      <4>3. /\ calls[k].stage \in {"free", "sent", "read"} /\ ~c.own
            /\ c.stage = calls[k].stage /\ c.kind = calls[k].kind /\ c.id = calls[k].id
            /\ c.rows = calls[k].rows
        BY <3>4, <4>1, <4>2, OrphanedTyped, TypeFacts
      <4>4. calls[k].stage # "free" => CallKept(calls[k], ws, store, seen, issued)
        BY <1>1 DEF UnderWay, Free
      <4>5. c.stage # "free" => CallKept(c, ws', store, seen', issued)
        BY <2>1, <4>3, <4>4, SameSeen DEF CallKept
      <4>6. QED  BY <2>3, <3>2, <4>2, <4>5
    <3>5. QED  BY <3>3, <3>4
  <2>5. CASE calls' # [s \in Slot |-> Orphaned(calls[s])]
    <3>1. UnderWay = {}
      BY <1>11, <2>5, LeaveIs
    <3>2. PICK c \in Call : /\ SomeSlot \in Slot /\ calls'[SomeSlot] = c
                            /\ \A o \in Slot : o # SomeSlot => calls'[o] = Orphaned(calls[o])
                            /\ c.kind = "save" /\ c.stage = "sent" /\ c.id = ws.id /\ c.rows = ws.rows
      BY <1>11, <2>5, LeaveIs
    <3>3. Only(c)
      BY <3>1, <3>2, OnlyOrphaned
    <3>4. CallKept(c, ws', store, seen', issued)
      BY <2>1, <3>1, <3>2, SaveKept
    <3>5. QED  BY <2>3, <3>3, <3>4
  <2>6. QED  BY <2>4, <2>5
<1>12. QED  BY <1>4, <1>5, <1>6, <1>7, <1>8, <1>9, <1>10, <1>11 DEF Steward

(* A handler that only reads, serves or refuses.                           *)
LEMMA ReadArchives ==
  ASSUME TypeInv, VersionInv, Alone, ArchiveInv, NEW s \in Slot,
         \/ ReadForSave(s) \/ ReadForVersion(s) \/ ReadForDelete(s) \/ ReadSettings(s) \/ Serve(s)
  PROVE  ArchiveInv'
<1>1. /\ UNCHANGED <<store, ws, seen>> /\ s \in UnderWay /\ WindowKept(ws, store, seen)
      /\ CallKept(calls[s], ws, store, seen, issued)
      /\ ws.snapshotPending => calls[s].kind = "snapshot" /\ calls[s].own
  BY DEF ReadForSave, ReadForVersion, ReadForDelete, ReadSettings, Serve, ArchiveInv,
         UnderWay, Free
<1>2. ASSUME NEW c, Touches(s, c), c.stage # "free" => CallKept(c, ws, store, seen, issued'),
             ws.snapshotPending => c.stage # "free" /\ c.kind = "snapshot" /\ c.own
      PROVE  ArchiveInv'
  BY <1>1, <1>2, OnlyTouched, ArchiveParts
<1>3. ASSUME Lost(s), calls[s].kind # "snapshot" \/ calls[s].id \notin Live(store)
      PROVE  ArchiveInv'
  <2>1. PICK c \in Call : /\ Touches(s, c)
                          /\ \/ c = Idle /\ ~calls[s].own
                             \/ SameCall(c, calls[s]) /\ c.stage = "failed" /\ c.own
    BY <1>3 DEF Lost
  <2>2. CASE c = Idle /\ ~calls[s].own
    BY <1>1, <1>2, <2>1, <2>2 DEF Idle
  <2>3. CASE SameCall(c, calls[s]) /\ c.stage = "failed" /\ c.own
    <3>1. CallKept(c, ws, store, seen, issued')
      BY <1>1, <1>3, <2>3 DEF CallKept, SameCall
    <3>2. QED  BY <1>1, <1>2, <2>1, <2>3, <3>1 DEF SameCall
  <2>4. QED  BY <2>1, <2>2, <2>3
<1>4. ASSUME NEW id, ReadAs(s, id), calls[s].kind \in {"save", "delete"},
             calls[s].kind = "save" => id = calls[s].id \/ id \notin Present(store)
      PROVE  ArchiveInv'
  <2>1. PICK c \in Call : /\ Touches(s, c) /\ c.stage = "read" /\ c.id = id
                          /\ c.kind = calls[s].kind /\ c.rows = calls[s].rows
    BY <1>4 DEF ReadAs
  <2>2. CallKept(c, ws, store, seen, issued')
    BY <1>1, <1>4, <2>1 DEF CallKept, Loaded, Live
  <2>3. QED  BY <1>1, <1>2, <1>4, <2>1, <2>2
<1>5. CASE ReadForSave(s)
  <2>1. issued \in Nat /\ \A i \in Present(store) : i <= issued /\ i \in Nat
    BY BoundsAssumption DEF VersionInv, Shapes, Apart, Copies, Present, Id
  <2>2. issued + 1 \notin Present(store)
    BY <2>1
  <2>3. QED  BY <1>3, <1>4, <1>5, <2>2, ReadForSaveIs
<1>6. CASE ReadForDelete(s)
  BY <1>4, <1>6, ReadForDeleteIs
<1>7. CASE ReadForVersion(s)
  <2>1. calls[s].kind = "snapshot" /\ calls[s].stage = "sent"
    BY <1>7, ReadForVersionIs
  <2>2. CASE calls[s].id \notin Live(store)
    BY <1>3, <1>7, <2>2, ReadForVersionIs
  <2>3. CASE calls[s].id \in Live(store)
    <3>1. PICK c \in Call : /\ Touches(s, c) /\ c.stage = "read"
                            /\ c.kind = "snapshot" /\ c.id = calls[s].id
                            /\ c.rows = issued + 1 /\ c.own = calls[s].own
      BY <1>7, <2>3, ReadForVersionIs
    <3>2. issued' = issued + 1
      BY <1>7, <2>3 DEF ReadForVersion
    <3>3. CallKept(c, ws, store, seen, issued')
      BY <1>1, <2>1, <3>1, <3>2 DEF CallKept, MaySave
    <3>4. QED  BY <1>1, <1>2, <3>1, <3>3
  <2>4. QED  BY <2>2, <2>3
<1>8. CASE ReadSettings(s)
  <2>1. PICK c \in Call : Touches(s, c) /\ (c = Idle \/ (c.kind = "settings" /\ c.stage = "done"))
    BY <1>8, ReadSettingsIs
  <2>2. c.stage # "free" => CallKept(c, ws, store, seen, issued')
    BY <2>1 DEF CallKept, MaySave, Idle
  <2>3. ~ws.snapshotPending
    BY <1>1, <1>8, ReadSettingsIs
  <2>4. QED  BY <1>2, <2>1, <2>2, <2>3
<1>9. CASE Serve(s)
  <2>1. calls[s].kind = "open" /\ calls[s].id \in Id
    BY <1>9, ServeIs
  <2>2. CASE Lost(s)
    BY <1>3, <2>1, <2>2
  <2>3. CASE ~Lost(s)
    <3>1. PICK c \in Call, e \in {store[calls[s].id]} :
                               /\ Touches(s, c)
                               /\ c.kind = "open" /\ c.stage = "done" /\ c.id = calls[s].id
                               /\ c.rows = e.rows /\ c.copy = e.archived /\ e.rows # 0
      BY <1>9, <2>3, ServeIs
    <3>2. c.id \in Present(store) /\ (c.copy => Kept(store, seen, c.rows))
      BY <2>1, <3>1 DEF Present, Kept, Versions
    <3>3. CallKept(c, ws, store, seen, issued')
      BY <3>1, <3>2 DEF CallKept
    <3>4. QED  BY <1>1, <1>2, <2>1, <3>1, <3>3
  <2>4. QED  BY <2>2, <2>3
<1>10. QED  BY <1>5, <1>6, <1>7, <1>8, <1>9

LEMMA WipeArchives ==
  ASSUME TypeInv, Alone, ArchiveInv, NEW s \in Slot, Wipe(s)
  PROVE  ArchiveInv'
<1>1. /\ ws' = ws /\ s \in UnderWay /\ calls[s].kind = "wipe"
      /\ CallKept(calls[s], ws, store, seen, issued)
      /\ ~ws.snapshotPending
  BY DEF Wipe, UnderWay, Free, ArchiveInv
<1>2. ws'.id = None /\ ws'.rows = 0
  BY <1>1 DEF CallKept
<1>3. PICK c \in Call : Touches(s, c) /\ (c = Idle \/ (c.kind = "wipe" /\ c.stage = "done"))
  BY WipeIs
<1>4. c.stage # "free" => CallKept(c, ws', store', seen', issued')
  BY <1>2, <1>3 DEF CallKept, MaySave, Idle
<1>5. QED  BY <1>1, <1>2, <1>3, <1>4, OnlyTouched, WindowNone, ArchiveParts

(* A save changes one live entry: every version stays.                     *)
LEMMA WriteSaveArchives ==
  ASSUME TypeInv, VersionInv, SettledInv, ArchiveInv, NEW s \in Slot, Write(s),
         calls[s].kind = "save"
  PROVE  /\ ArchiveInv'
         /\ \A r : Kept(store, seen, r) => Kept(store', seen', r)
<1>0. /\ calls[s].stage = "read" /\ s \in UnderWay /\ Fits(calls[s], store, ws)
      /\ CallTyped(calls[s], edits) /\ ws' = ws /\ store' = Saved(calls[s])
      /\ CallKept(calls[s], ws, store, seen, issued) /\ WindowKept(ws, store, seen)
      /\ ~ws.snapshotPending
  BY DEF Write, UnderWay, Free, SettledInv, TypeInv, CallsTyped, Rewritten, ArchiveInv
<1>1. PICK d, g : d = calls[s] /\ g = store
  OBVIOUS
<1>2. /\ d.read = g /\ IF d.own THEN d.rows = ws.rows ELSE ws.id = None
      /\ ws.id # None => ws.id = d.id
  BY <1>0, <1>1 DEF Fits
<1>3. PICK h : h = store'
  OBVIOUS
<1>4. /\ d.id \in Id /\ \A i \in Id : i # d.id => h[i] = g[i]
      /\ h[d.id].rows = d.rows /\ d.rows # 0 /\ ~h[d.id].archived
  BY <1>0, <1>1, <1>2, <1>3, SavedEffect, TypeFacts
<1>5. d.id \notin Versions(g)
  <2>1. d.id \in Targets /\ store \in Copies
    BY <1>1 DEF Targets, MaySave, Copies
  <2>2. QED  BY <1>1, <2>1 DEF VersionInv, Apart
<1>6. seen'.opened = seen.opened /\ seen'.removed = seen.removed
  BY SeenWrite
<1>7. \A r : Kept(g, seen, r) => Kept(h, seen', r)
  <2>1. \A v \in Versions(g) : v \in Versions(h) /\ h[v] = g[v]
    BY <1>4, <1>5 DEF Versions, Present
  <2>2. QED  BY <1>6, <2>1 DEF Kept
<1>8. WindowKept(ws, h, seen')
  <2>1. CASE ws.id = None
    <3>1. ws.rows <= seen.opened /\ ws.rows # 0 => ws.snapshotDone /\ Kept(g, seen, ws.rows)
      BY <1>0, <1>1, <2>1 DEF WindowKept
    <3>2. QED  BY <1>6, <1>7, <2>1, <3>1, NoId DEF WindowKept, Loaded, Live, Present
  <2>2. CASE ws.id # None
    <3>1. ws.id = d.id /\ h[ws.id].rows = ws.rows /\ ws.id \in Present(h)
      BY <1>2, <1>4, <2>2 DEF Present
    <3>2. ws.snapshotDone /\ ws.rows <= seen.opened => Kept(g, seen, ws.rows)
      <4>1. HAVE ws.snapshotDone /\ ws.rows <= seen.opened
      <4>2. CASE ws.id \in Present(g)
        <5>1. g[ws.id].rows = ws.rows /\ Loaded(g, seen, ws.id)
          BY <1>0, <1>1, <1>5, <2>2, <3>1, <4>1, <4>2 DEF WindowKept, Loaded, Live, Versions
        <5>2. QED  BY <1>0, <1>1, <4>1, <5>1 DEF WindowKept
      <4>3. CASE ws.id \notin Present(g)
        BY <1>0, <1>1, <2>2, <4>1, <4>3 DEF WindowKept, Kept
      <4>4. QED  BY <4>2, <4>3
    <3>3. QED  BY <1>6, <1>7, <2>2, <3>1, <3>2 DEF WindowKept, Loaded
  <2>3. QED  BY <2>1, <2>2
<1>9. PICK c \in Call :
        /\ Touches(s, c)
        /\ \/ c = Idle /\ ~calls[s].own
           \/ /\ c.kind = calls[s].kind /\ c.stage = "done" /\ c.id = calls[s].id
              /\ c.rows = calls[s].rows
  BY WriteEffect
<1>10. c.stage # "free" => CallKept(c, ws, h, seen', issued')
  <2>1. HAVE c.stage # "free"
  <2>2. c.kind = "save" /\ c.id = d.id /\ c.rows = d.rows
    BY <1>1, <1>9, <2>1 DEF Idle
  <2>3. c.id \in Present(h) /\ h[c.id].rows = c.rows
    BY <1>4, <2>2 DEF Present
  <2>4. QED  BY <2>2, <2>3 DEF CallKept
<1>11. Only(c)
  BY <1>0, <1>9, OnlyTouched DEF SettledInv
<1>12. QED  BY <1>0, <1>1, <1>3, <1>7, <1>8, <1>10, <1>11, ArchiveParts

LEMMA WriteVersionArchives ==
  ASSUME TypeInv, VersionInv, SettledInv, ArchiveInv, NEW s \in Slot, Write(s),
         calls[s].kind = "snapshot"
  PROVE  ArchiveInv'
<1>0. /\ calls[s].stage = "read" /\ s \in UnderWay /\ calls[s].read = store
      /\ CallTyped(calls[s], edits) /\ ws' = ws /\ store' = Archived(calls[s])
      /\ CallKept(calls[s], ws, store, seen, issued) /\ WindowKept(ws, store, seen)
      /\ ws.snapshotPending => calls[s].own
  BY DEF Write, UnderWay, Free, SettledInv, TypeInv, CallsTyped, Rewritten, ArchiveInv, Fits
<1>1. PICK d, g : d = calls[s] /\ g = store
  OBVIOUS
<1>2. PICK h : h = store'
  OBVIOUS
<1>3. PICK x : x = d.rows
  OBVIOUS
<1>4. x = issued /\ ~ws.snapshotDone /\ (d.own => d.id = ws.id)
  BY <1>0, <1>1, <1>3 DEF CallKept
<1>5. <<s, x>> \in Drawn /\ ws.id \in Targets /\ store \in Copies
  BY <1>0, <1>1, <1>3 DEF Drawn, Reading, Targets, Copies
<1>6. ws.id # x /\ x \notin Present(g) /\ ws.id \notin Versions(g)
  BY <1>1, <1>5 DEF VersionInv, Apart
<1>7. \A i \in Present(g) : i <= x
  BY <1>1, <1>4, <1>5 DEF VersionInv, Apart
<1>8. /\ x \in Id
      /\ \A i \in Id : i # x /\ i \in Live(g) => h[i] = g[i]
      /\ \A i \in Id : i # x => h[i] = g[i] \/ h[i].rows = 0
      /\ x \in Versions(h) /\ h[x].rows = g[d.id].rows
  <2>1. calls[s].rows = x /\ calls[s].read = g /\ calls[s].id = d.id /\ h = Archived(calls[s])
    BY <1>0, <1>1, <1>2, <1>3
  <2>2. \A i \in Present(calls[s].read) : i <= calls[s].rows
    BY <1>7, <2>1
  <2>3. QED  BY <1>0, <1>1, <2>1, <2>2, ArchivedEffect, TypeFacts
<1>9. \A i \in Live(h) : i \in Live(g) /\ h[i] = g[i]
  BY <1>8 DEF Live, Versions, Present
<1>10. seen'.opened = seen.opened /\ seen'.removed = seen.removed
  BY <1>0, <1>1, SeenWrite
<1>11. WindowKept(ws, h, seen')
  <2>1. Loaded(h, seen', ws.id) => Loaded(g, seen, ws.id) /\ h[ws.id] = g[ws.id]
    BY <1>9, <1>10 DEF Loaded
  <2>2. CASE ws.id = None
    BY <1>0, <1>1, <1>4, <1>10, <2>1, <2>2 DEF WindowKept
  <2>3. CASE ws.id # None
    <3>1. ws.id \in Present(h) => ws.id \in Present(g) /\ h[ws.id] = g[ws.id]
      BY <1>6, <1>8 DEF Present
    <3>2. ws.id \notin Present(h) => ws.id \notin Present(g)
      BY <1>6, <1>8 DEF Present, Live, Versions
    <3>3. QED  BY <1>0, <1>1, <1>4, <1>10, <2>1, <2>3, <3>1, <3>2 DEF WindowKept
  <2>4. QED  BY <2>2, <2>3
<1>12. PICK c \in Call :
         /\ Touches(s, c)
         /\ \/ c = Idle /\ ~calls[s].own
            \/ /\ c.kind = calls[s].kind /\ c.stage = "done" /\ c.id = calls[s].id
               /\ c.own /\ calls[s].own
  BY WriteEffect
<1>13. c.stage # "free" => CallKept(c, ws, h, seen', issued')
  <2>1. HAVE c.stage # "free"
  <2>2. c.kind = "snapshot" /\ c.stage = "done" /\ c.id = d.id /\ c.own /\ d.own
    BY <1>1, <1>12, <2>1 DEF Idle
  <2>3. Loaded(h, seen', c.id) => Kept(h, seen', h[c.id].rows)
    BY <1>8, <1>9, <2>2 DEF Loaded, Kept
  <2>4. QED  BY <1>4, <2>2, <2>3 DEF CallKept, MaySave
<1>14. ws.snapshotPending => c.stage # "free" /\ c.kind = "snapshot" /\ c.own
  BY <1>0, <1>12
<1>15. Only(c)
  BY <1>0, <1>12, OnlyTouched DEF SettledInv
<1>16. QED  BY <1>0, <1>2, <1>11, <1>13, <1>14, <1>15, ArchiveParts

LEMMA WriteDeleteArchives ==
  ASSUME TypeInv, SettledInv, ArchiveInv, NEW s \in Slot, Write(s), calls[s].kind = "delete"
  PROVE  ArchiveInv'
<1>0. /\ calls[s].stage = "read" /\ s \in UnderWay /\ calls[s].read = store
      /\ CallTyped(calls[s], edits) /\ ws' = ws /\ store' = Removed(calls[s])
      /\ WindowKept(ws, store, seen) /\ ~ws.snapshotPending
  BY DEF Write, UnderWay, Free, SettledInv, TypeInv, CallsTyped, Rewritten, ArchiveInv, Fits
<1>1. PICK d, g : d = calls[s] /\ g = store
  OBVIOUS
<1>2. PICK h : h = store'
  OBVIOUS
<1>3. d.id \in Id /\ h[d.id].rows = 0 /\ \A i \in Id : i # d.id => h[i] = g[i]
  BY <1>0, <1>1, <1>2, RemovedEffect, TypeFacts
<1>4. seen'.opened = seen.opened /\ seen'.removed = seen.removed \cup {g[d.id].rows}
  BY <1>0, <1>1, SeenWrite
<1>5. \A r : Kept(g, seen, r) => Kept(h, seen', r)
  <2>1. \A v \in Versions(g) : v = d.id \/ (v \in Versions(h) /\ h[v] = g[v])
    BY <1>3 DEF Versions, Present
  <2>2. QED  BY <1>4, <2>1 DEF Kept
<1>6. \A i \in Present(h) : i \in Present(g) /\ h[i] = g[i]
  BY <1>3 DEF Present
<1>7. \A i \in Present(g) : i \in Present(h) \/ g[i].rows \in seen'.removed
  BY <1>3, <1>4 DEF Present
<1>8. WindowKept(ws, h, seen')
  <2>1. Loaded(h, seen', ws.id) => Loaded(g, seen, ws.id) /\ h[ws.id] = g[ws.id]
    BY <1>4, <1>6 DEF Loaded, Live
  <2>2. seen.removed \subseteq seen'.removed
    BY <1>4
  <2>3. QED  BY <1>0, <1>1, <1>4, <1>5, <1>6, <1>7, <2>1, <2>2 DEF WindowKept
<1>9. PICK c \in Call :
        /\ Touches(s, c)
        /\ \/ c = Idle /\ ~calls[s].own
           \/ c.kind = calls[s].kind /\ c.stage = "done"
  BY WriteEffect
<1>10. c.stage # "free" => CallKept(c, ws, h, seen', issued')
  BY <1>0, <1>9 DEF CallKept, MaySave, Idle
<1>11. Only(c)
  BY <1>0, <1>9, OnlyTouched DEF SettledInv
<1>12. QED  BY <1>0, <1>2, <1>8, <1>10, <1>11, ArchiveParts

LEMMA AnswerArchives ==
  ASSUME TypeInv, SettledInv, ArchiveInv, NEW s \in Slot, Settle(s), ~seen'.crossed
  PROVE  ArchiveInv'
<1>0. /\ store' = store /\ issued' = issued /\ s \in UnderWay /\ Fits(calls[s], store, ws) /\ Alone
      /\ WindowKept(ws, store, seen) /\ CallKept(calls[s], ws, store, seen, issued)
      /\ ws.snapshotPending => calls[s].kind = "snapshot"
  BY DEF Settle, SaveAnswered, SnapshotAnswered, OpenAnswered, DeleteAnswered, WipeAnswered,
         KeystoneNamed, Done, UnderWay, Free, SettledInv, ArchiveInv
<1>1. ASSUME Touches(s, Idle), WindowKept(ws', store, seen'), ~ws'.snapshotPending
      PROVE  ArchiveInv'
  BY <1>0, <1>1, OnlyTouched, ArchiveParts DEF Idle
<1>2. CallTyped(calls[s], edits)
  BY DEF TypeInv, CallsTyped
<1>3. CASE SaveAnswered(s)
  <2>1. /\ Touches(s, Idle) /\ calls[s].kind = "save" /\ calls[s].own /\ ws'.rows = ws.rows
        /\ ws'.snapshotDone = ws.snapshotDone /\ ws'.snapshotPending = ws.snapshotPending
        /\ \/ calls[s].stage = "done" /\ ws'.id = calls[s].id
           \/ ws'.id = ws.id
    BY <1>3, SaveAnsweredIs
  <2>2. seen' = seen
    BY <1>3 DEF SaveAnswered
  <2>3. CASE ws'.id = ws.id
    <3>1. WindowKept(ws', store, seen')
      BY <1>0, <2>1, <2>2, <2>3 DEF WindowKept
    <3>2. QED  BY <1>0, <1>1, <2>1, <3>1
  <2>4. CASE calls[s].stage = "done" /\ ws'.id = calls[s].id
    <3>1. /\ ws'.id \in Present(store) /\ store[ws'.id].rows = ws'.rows /\ ws'.rows # 0
          /\ ws.id # None => ws.id = ws'.id
      BY <1>0, <1>2, <2>1, <2>4, TypeFacts DEF CallKept, Fits, MaySave, Agrees, CallTyped
    <3>2. ws'.id # None
      BY <3>1, NoId DEF Present
    <3>3. WindowKept(ws', store, seen')
      BY <1>0, <2>1, <2>2, <3>1, <3>2 DEF WindowKept, Loaded
    <3>4. QED  BY <1>0, <1>1, <2>1, <3>3
  <2>5. QED  BY <2>1, <2>3, <2>4
<1>4. CASE SnapshotAnswered(s)
  <2>1. /\ Touches(s, Idle) /\ calls[s].kind = "snapshot" /\ calls[s].own
        /\ calls[s].stage \in {"done", "failed"}
        /\ ws'.id = ws.id /\ ws'.rows = ws.rows /\ ~ws'.snapshotPending
        /\ ws'.snapshotDone <=> ws.snapshotDone \/ calls[s].stage = "done"
    BY <1>4, SnapshotAnsweredIs
  <2>2. seen' = seen
    BY <1>4 DEF SnapshotAnswered
  <2>3. WindowKept(ws', store, seen')
    <3>1. CASE calls[s].stage = "done"
      BY <1>0, <2>1, <2>2, <3>1 DEF WindowKept, CallKept
    <3>2. CASE calls[s].stage = "failed"
      BY <1>0, <2>1, <2>2, <3>2 DEF WindowKept, CallKept, Loaded
    <3>3. QED  BY <2>1, <3>1, <3>2
  <2>4. QED  BY <1>1, <2>1, <2>3
<1>5. CASE OpenAnswered(s)
  <2>1. /\ Touches(s, Idle) /\ calls[s].kind = "open" /\ ws'.snapshotPending = ws.snapshotPending
        /\ seen'.removed = seen.removed
    BY <1>5, OpenAnsweredIs
  <2>2. CASE ws' = ws /\ seen' = seen
    BY <1>0, <1>1, <2>1, <2>2
  <2>3. CASE ~(ws' = ws /\ seen' = seen)
    <3>1. /\ calls[s].stage = "done" /\ ws'.snapshotDone = calls[s].copy
          /\ ws'.id = (IF calls[s].copy THEN None ELSE calls[s].id)
          /\ ws'.rows = calls[s].rows
      BY <1>5, <2>3, OpenAnsweredIs
    <3>2. CASE calls[s].copy
      <4>1. Kept(store, seen', ws'.rows)
        BY <1>0, <2>1, <3>1, <3>2 DEF CallKept, Kept
      <4>2. WindowKept(ws', store, seen')
        BY <3>1, <3>2, <4>1, NoId DEF WindowKept, Loaded, Live, Present
      <4>3. QED  BY <1>0, <1>1, <2>1, <4>2
    <3>3. CASE ~calls[s].copy
      <4>1. ws'.id \in Present(store) /\ store[ws'.id].rows = ws'.rows
        BY <1>0, <2>1, <3>1, <3>3 DEF CallKept, Fits, MaySave, Agrees
      <4>2. ws'.id # None
        BY <4>1, NoId DEF Present
      <4>3. ~ws'.snapshotDone
        BY <3>1, <3>3
      <4>4. WindowKept(ws', store, seen')
        BY <4>1, <4>2, <4>3 DEF WindowKept
      <4>5. QED  BY <1>0, <1>1, <2>1, <4>4
    <3>4. QED  BY <3>2, <3>3
  <2>4. QED  BY <2>2, <2>3
<1>6. CASE DeleteAnswered(s)
  <2>1. Touches(s, Idle) /\ ws' = ws /\ seen' = seen /\ calls[s].kind = "delete"
    BY <1>6, AnsweredEffect DEF DeleteAnswered, Done
  <2>2. QED  BY <1>0, <1>1, <2>1
<1>7. CASE WipeAnswered(s)
  <2>1. seen' = seen /\ calls[s].kind = "wipe"
    BY <1>7, WipeAnsweredIs DEF WipeAnswered
  <2>2. CASE Touches(s, Idle) /\ ws' = ws
    BY <1>0, <1>1, <2>1, <2>2
  <2>3. CASE /\ ws' = Scratch /\ calls'[s] = Idle
             /\ \A o \in Slot : o # s => calls'[o] = Orphaned(calls[o])
    <3>1. UnderWay \subseteq {s}
      BY <1>0 DEF Alone
    <3>2. Only(Idle)
      BY <1>0, <2>3, <3>1, OnlyOrphaned
    <3>3. ws'.id = None /\ ws'.rows = 0 /\ ~ws'.snapshotPending
      BY <2>3, ScratchTyped
    <3>4. QED  BY <3>2, <3>3, WindowNone, ArchiveParts DEF Idle
  <2>4. QED  BY <1>7, <2>2, <2>3, WipeAnsweredIs
<1>8. CASE KeystoneNamed(s)
  <2>1. /\ ws.id = None /\ ws'.id = ws.id /\ ws'.rows = ws.rows /\ SeenSame
        /\ ws'.snapshotDone = ws.snapshotDone /\ ws'.snapshotPending = ws.snapshotPending
        /\ calls[s].kind = "settings"
    BY <1>0, <1>8, KeystoneNamedIs DEF Fits
  <2>2. WindowKept(ws', store, seen') /\ ~ws'.snapshotPending
    BY <1>0, <2>1, WindowSame
  <2>3. CASE Touches(s, Idle)
    BY <1>1, <2>2, <2>3
  <2>4. CASE ~Touches(s, Idle)
    <3>1. PICK k \in Slot, c \in Call :
                 /\ calls'[k] = c /\ UnderWay' = {k}
                 /\ c.kind = "save" /\ c.stage = "sent" /\ c.id = ws'.id
      BY <1>8, <2>4, KeystoneNamedIs
    <3>2. Only(c)
      BY <3>1 DEF Only
    <3>3. CallKept(c, ws', store, seen', issued)
      BY <2>1, <3>1, NoId DEF CallKept, MaySave, Loaded, Live, Present
    <3>4. QED  BY <1>0, <2>2, <3>2, <3>3, ArchiveParts
  <2>5. QED  BY <2>3, <2>4
<1>9. QED  BY <1>3, <1>4, <1>5, <1>6, <1>7, <1>8 DEF Settle

KeptInv == ~seen.crossed /\ failures = 0 => ArchiveInv

LEMMA FailuresStay ==
  ASSUME TypeInv, [Next]_vars, failures' = 0
  PROVE  failures = 0 /\ \A s \in Slot : ~Fail(s)
<1>1. failures \in Nat
  BY BoundsAssumption DEF TypeInv
<1>2. \A s \in Slot : ~Fail(s)
  BY FailIs
<1>3. failures' = failures
  BY <1>2 DEF Next, Steward, Timers, AcceptAgain, Rest, Handle, Settle, vars, Edit, NameIt,
     SaveNow, ConfirmCategories, Open, Delete, AskWipe, Leave, Debounce, Interval, ReadForSave,
     ReadForVersion, ReadForDelete, ReadSettings, Write, Serve, Wipe, SaveAnswered,
     SnapshotAnswered, OpenAnswered, DeleteAnswered, WipeAnswered, KeystoneNamed
<1>4. QED  BY <1>2, <1>3

LEMMA ArchivesKept ==
  ASSUME TypeInv, VersionInv, AloneInv, KeptInv, [Next]_vars
  PROVE  KeptInv'
<1> SUFFICES ASSUME ~seen'.crossed, failures' = 0 PROVE ArchiveInv'
  BY DEF KeptInv
<1>1. failures = 0 /\ \A s \in Slot : ~Fail(s)
  BY FailuresStay
<1>2. SettledInv /\ ArchiveInv /\ Alone
  BY <1>1, CrossedStays DEF AloneInv, KeptInv, SettledInv
<1>3. CASE Steward \/ Timers
  BY <1>2, <1>3, WindowArchives
<1>4. ASSUME NEW s \in Slot, Handle(s) \/ Settle(s) PROVE ArchiveInv'
  <2>1. CASE Write(s)
    <3>1. calls[s].kind \in {"save", "snapshot", "delete"}
      BY <2>1, WriteEffect
    <3>2. QED  BY <1>2, <2>1, <3>1, WriteSaveArchives, WriteVersionArchives, WriteDeleteArchives
  <2>2. CASE Wipe(s) \/ Settle(s)
    BY <1>2, <2>2, WipeArchives, AnswerArchives
  <2>3. CASE Handle(s) /\ ~Write(s) /\ ~Wipe(s)
    BY <1>2, <2>3, ReadArchives DEF Handle
  <2>4. QED  BY <1>4, <2>1, <2>2, <2>3
<1>5. CASE AcceptAgain \/ Rest \/ UNCHANGED vars
  <2>1. UNCHANGED <<store, ws, calls, seen, issued>>
    BY <1>5 DEF AcceptAgain, Rest, vars
  <2>2. QED  BY <1>2, <2>1 DEF ArchiveInv, UnderWay, Free
<1>6. QED  BY <1>1, <1>3, <1>4, <1>5 DEF Next

LEMMA ArchivesStart == Init => KeptInv
<1> SUFFICES ASSUME Init PROVE ArchiveInv
  BY DEF KeptInv
<1>1. \A s \in Slot : calls[s].stage = "free"
  BY DEF Init, Idle
<1>2. UnderWay = {}
  BY <1>1 DEF UnderWay, Free
<1>3. ws.id = None /\ ws.rows = 0 /\ ~ws.snapshotPending
  BY ScratchTyped DEF Init
<1>4. QED  BY <1>2, <1>3, WindowNone DEF ArchiveInv

(* A save that overwrites what a window loaded leaves a version of it, or  *)
(* the steward deleted it, unless calls crossed or failed.                 *)
THEOREM LoadedStaysArchived == Spec => LoadedIsArchived
<1> DEFINE Step(s) ==
      LET i == calls[s].id IN
        /\ calls[s].kind = "save" /\ Write(s)
        /\ ~seen.crossed /\ failures = 0
        /\ i \in Live(store)
        /\ store[i].rows # calls[s].rows /\ store[i].rows <= seen.opened
        => \/ \E v \in Versions(store') : store'[v].rows = store[i].rows
           \/ store[i].rows \in seen.removed
<1>1. ASSUME TypeInv, VersionInv, AloneInv, KeptInv PROVE \A s \in Slot : Step(s)
  <2>1. TAKE s \in Slot
  <2>2. PICK i : i = calls[s].id
    OBVIOUS
  <2>3. SUFFICES ASSUME calls[s].kind = "save", Write(s), ~seen.crossed, failures = 0,
                        Loaded(store, seen, i), store[i].rows # calls[s].rows
                 PROVE  Kept(store', seen, store[i].rows)
    BY <2>2 DEF Loaded, Kept
  <2>4. SettledInv /\ ArchiveInv
    BY <1>1, <2>3 DEF AloneInv, KeptInv
  <2>5. CallKept(calls[s], ws, store, seen, issued)
    BY <2>3, <2>4 DEF ArchiveInv, UnderWay, Free, Write
  <2>6. Kept(store, seen, store[i].rows)
    BY <2>2, <2>3, <2>5 DEF CallKept
  <2>7. Kept(store', seen', store[i].rows) /\ seen'.removed = seen.removed
    BY <1>1, <2>3, <2>4, <2>6, WriteSaveArchives, SeenWrite
  <2>8. QED  BY <2>7 DEF Kept
<1>2. TypeInv /\ VersionInv /\ AloneInv /\ KeptInv /\ [Next]_vars =>
        TypeInv' /\ VersionInv' /\ AloneInv' /\ KeptInv'
  BY TypesKept, VersionsKept, AloneKept, ArchivesKept
<1>3. TypeInv /\ VersionInv /\ AloneInv /\ KeptInv => [\A s \in Slot : Step(s)]_vars
  BY <1>1
<1>4. QED
  BY <1>2, <1>3, TypesStart, VersionsStart, AloneStart, ArchivesStart, PTL
     DEF Spec, LoadedIsArchived, Step
=============================================================================
