----------------------------- MODULE ApplyProofs -----------------------------
(***************************************************************************)
(* For any terms, bounds and set of cards: the links of the Apply page are *)
(* of one pull, every write of stamps used up a plan, and a stale export   *)
(* is called stale.                                                        *)
(***************************************************************************)
EXTENDS Apply, TLAPS

(* Links of one pull, in the form that resolving and binding keep.         *)
Linked(de) ==
  /\ {"csv", "json", "ids"} \subseteq DOMAIN de
  /\ de.csv = de.json /\ DOMAIN de.ids = NamesOf(de.csv)
GoodDe(de)  == de = NoDe \/ Linked(de)
GoodView(v) == {"de", "plan", "gen"} \subseteq DOMAIN v /\ GoodDe(v.de)
GoodCall(c) == {"kind", "de", "src", "by"} \subseteq DOMAIN c /\ (c.kind = "resolve" => Linked(c.de))

LinksInv == GoodView(view) /\ GoodView(cache) /\ \A c \in calls : GoodCall(c)

(* A plan that is ready has not been written yet.                          *)
PlanInv ==
  /\ {"calls", "plans", "writes", "late"} \subseteq DOMAIN seen
  /\ seen.plans \in Nat /\ seen.writes \in Nat
  /\ view.plan = cache.plan
  /\ seen.writes + (IF PlanReady THEN 1 ELSE 0) <= seen.plans

(* The revision remembered is never ahead of the grid, and when it is the  *)
(* grid's, the export is the grid's.                                       *)
StaleInv ==
  /\ "rev" \in DOMAIN grid /\ grid.rev \in 1 .. MaxEdits + 1
  /\ {"rev", "busy"} \subseteq DOMAIN local
  /\ local.rev = Unknown \/ local.rev \in 0 .. grid.rev
  /\ local.rev = grid.rev /\ view.gen # NoGrid => view.gen = grid \/ seen.late

(* What an answer may set without a word about plans.                      *)
GoodPatch(patch) == "plan" \notin DOMAIN patch /\ ("de" \in DOMAIN patch => GoodDe(patch.de))

-----------------------------------------------------------------------------
LEMMA OverIs ==
  ASSUME NEW r, NEW patch
  PROVE  /\ DOMAIN Over(r, patch) = DOMAIN r
         /\ \A f \in DOMAIN r : Over(r, patch)[f] = IF f \in DOMAIN patch THEN patch[f] ELSE r[f]
  BY DEF Over

LEMMA OverKeeps ==
  ASSUME NEW v, NEW patch, GoodView(v), GoodPatch(patch)
  PROVE  /\ GoodView(Over(v, patch)) /\ Over(v, patch).plan = v.plan
         /\ "gen" \notin DOMAIN patch => Over(v, patch).gen = v.gen
  BY OverIs DEF GoodView, GoodPatch

LEMMA OnlyKeeps ==
  ASSUME NEW patch, NEW F, GoodPatch(patch)
  PROVE  GoodPatch(Only(patch, F))
  BY DEF GoodPatch, Only

(* A setter of a shown page, and a landing answer, keep good views good    *)
(* and leave the plan alone.                                               *)
LEMMA ShowKeeps ==
  ASSUME LinksInv, NEW patch, GoodPatch(patch), Show(patch)
  PROVE  /\ GoodView(view') /\ GoodView(cache')
         /\ view'.plan = view.plan /\ cache'.plan = cache.plan
         /\ "gen" \notin DOMAIN patch => view'.gen = view.gen
  BY OverKeeps DEF LinksInv, Show

LEMMA LandKeeps ==
  ASSUME LinksInv, NEW c, NEW patch, NEW first, GoodPatch(patch), Land(c, patch, first)
  PROVE  /\ GoodView(view') /\ GoodView(cache')
         /\ view'.plan = view.plan /\ cache'.plan = cache.plan
         /\ "gen" \notin DOMAIN patch \/ ~Alive(c) => view'.gen = view.gen
<1>1. CASE Alive(c)
  BY <1>1, ShowKeeps DEF Land
<1>2. CASE ~Alive(c)
  <2>1. view' = view
    BY <1>2 DEF Land
  <2>2. PICK F \in SUBSET first : cache' = Over(cache, Only(patch, F))
    BY <1>2 DEF Land
  <2>3. GoodPatch(Only(patch, F))
    BY OnlyKeeps
  <2>4. GoodView(cache') /\ cache'.plan = cache.plan
    BY <2>2, <2>3, OverKeeps DEF LinksInv
  <2>5. QED BY <2>1, <2>4 DEF LinksInv
<1>3. QED BY <1>1, <1>2

LEMMA NewCall ==
  ASSUME NEW kind, kind # "resolve"
  PROVE  GoodCall(Call(kind)) /\ Call(kind).kind = kind
  BY DEF GoodCall, Call

(* A request that keeps the views, and an answer that only fails.          *)
LEMMA AskKeeps ==
  ASSUME LinksInv, NEW card, NEW c, Clicked(card, c), GoodCall(c),
         GoodView(view'), GoodView(cache')
  PROVE  LinksInv'
  BY DEF LinksInv, Clicked, GoodCall

LEMMA AnswerKeeps ==
  ASSUME LinksInv, NEW c, calls' \subseteq calls \cup {c}, GoodCall(c),
         NEW patch, NEW first, GoodPatch(patch), Land(c, patch, first)
  PROVE  LinksInv'
  BY LandKeeps DEF LinksInv, GoodCall

LEMMA LinksFailed ==
  ASSUME LinksInv, NEW kind, NEW flag, Failed(kind, flag)
  PROVE  LinksInv'
  BY DEF LinksInv, Failed, Answered, Keep, GoodCall, GoodView, GoodDe, Linked

-----------------------------------------------------------------------------
LEMMA LinksInit == Init => LinksInv
  BY DEF Init, LinksInv, Kept, GoodView, GoodDe

LEMMA LinksClicks ==
  ASSUME LinksInv, Clicks
  PROVE  LinksInv'
<1> USE DEF Keep
<1>1. CASE PullClick
  BY <1>1, AskKeeps DEF PullClick, Pull, GoodCall, Call, LinksInv
<1>2. CASE SetPolicy
  <2>1. PICK p : Pull(p) /\ Show([pol |-> p])
    BY <1>2 DEF SetPolicy
  <2>2. GoodPatch([pol |-> p])
    BY DEF GoodPatch
  <2>3. QED  BY <2>1, <2>2, ShowKeeps, AskKeeps DEF Pull, GoodCall, Call
<1>3. CASE MapY
  BY <1>3, AskKeeps DEF MapY, Pull, GoodCall, Call, LinksInv
<1>4. CASE Resolve
  <2>1. Show([res |-> FALSE, fuzzy |-> {}]) /\ view.de # NoDe
    BY <1>4 DEF Resolve
  <2>2. GoodPatch([res |-> FALSE, fuzzy |-> {}])
    BY DEF GoodPatch
  <2>3. Linked(view.de)
    BY <2>1 DEF LinksInv, GoodView, GoodDe
  <2>4. GoodCall([Call("resolve") EXCEPT !.de = view.de])
    BY <2>3 DEF GoodCall, Call
  <2>5. QED  BY <1>4, <2>1, <2>2, <2>4, ShowKeeps, AskKeeps DEF Resolve
<1>5. CASE AiMatch
  BY <1>5, AskKeeps DEF AiMatch, GoodCall, Call, LinksInv
<1>6. CASE Bind
  <2>1. PICK names \in SUBSET view.fuzzy :
          Show([de    |-> [view.de EXCEPT !.ids = [n \in DOMAIN @ |-> IF n \in names THEN "fuzzy" ELSE @[n]]],
                fuzzy |-> view.fuzzy \ names, out |-> view.out \ names])
    BY <1>6 DEF Bind
  <2>2. Linked(view.de)
    BY <1>6 DEF Bind, LinksInv, GoodView, GoodDe
  <2>3. Linked([view.de EXCEPT !.ids = [n \in DOMAIN @ |-> IF n \in names THEN "fuzzy" ELSE @[n]]])
    BY <2>2 DEF Linked
  <2>4. GoodPatch([de    |-> [view.de EXCEPT !.ids = [n \in DOMAIN @ |-> IF n \in names THEN "fuzzy" ELSE @[n]]],
                   fuzzy |-> view.fuzzy \ names, out |-> view.out \ names])
    BY <2>3 DEF GoodPatch, GoodDe
  <2>5. calls' = calls
    BY <1>6 DEF Bind
  <2>6. QED  BY <2>1, <2>4, <2>5, ShowKeeps DEF LinksInv, GoodCall
<1>7. CASE Generate
  BY <1>7, AskKeeps DEF Generate, GoodCall, Call, LinksInv
<1>8. CASE PreviewStamp
  BY <1>8, AskKeeps DEF PreviewStamp, RunStamp, GoodCall, Call, LinksInv
<1>9. CASE WriteStamp
  <2>1. Show([plan |-> "none"]) /\ Clicked("labels", [Call("stamp") EXCEPT !.dry = FALSE])
    BY <1>9 DEF WriteStamp, RunStamp
  <2>2. GoodView(view') /\ GoodView(cache')
    BY <2>1, OverIs DEF Show, LinksInv, GoodView
  <2>3. QED  BY <2>1, <2>2, AskKeeps DEF GoodCall, Call
<1>10. CASE Trigger
  BY <1>10, AskKeeps DEF Trigger, GoodCall, Call, LinksInv
<1>11. ASSUME NEW kind \in {"tree", "lab", "dq", "token", "labels", "compare", "apply"}, Card(kind)
       PROVE  LinksInv'
  BY <1>11 DEF Card, GoodCall, Call, LinksInv, GoodView, GoodDe, Linked
<1>12. QED
  BY <1>1, <1>2, <1>3, <1>4, <1>5, <1>6, <1>7, <1>8, <1>9, <1>10, <1>11
     DEF Clicks, CheckTree, SendToLab, DownloadDq, GetToken, CreateLabels, Compare, ApplyLinks

LEMMA LinksAnswers ==
  ASSUME LinksInv, Answers
  PROVE  LinksInv'
<1>1. CASE PullAnswered
  <2>1. PICK c \in calls : calls' = calls \ {c} /\ Land(c, [de |-> Pulled(c.src)], {"de"})
    BY <1>1 DEF PullAnswered, Answered
  <2>2. Linked(Pulled(c.src))
    BY DEF Linked, Pulled
  <2>3. GoodPatch([de |-> Pulled(c.src)])
    BY <2>2 DEF GoodPatch, GoodDe
  <2>4. QED  BY <2>1, <2>3, AnswerKeeps DEF LinksInv
<1>2. CASE ResolveAnswered
  <2>1. PICK c \in calls :
          /\ c.kind = "resolve" /\ calls' = calls \ {c}
          /\ Land(c, [res |-> TRUE, de |-> Stamped(c), out |-> DOMAIN c.de.ids \ pdc], {"res", "de"})
    BY <1>2 DEF ResolveAnswered, Answered
  <2>2. Linked(c.de)
    BY <2>1 DEF LinksInv, GoodCall
  <2>3. Linked(Stamped(c))
    BY <2>2 DEF Linked, Stamped
  <2>4. GoodPatch([res |-> TRUE, de |-> Stamped(c), out |-> DOMAIN c.de.ids \ pdc])
    BY <2>3 DEF GoodPatch, GoodDe
  <2>5. QED  BY <2>1, <2>4, AnswerKeeps DEF LinksInv
<1>3. CASE MatchAnswered
  <2>1. PICK c, found :
          c \in calls /\ calls' = calls \ {c} /\ Land(c, [fuzzy |-> found], {"fuzzy"})
    BY <1>3 DEF MatchAnswered, Answered
  <2>2. GoodPatch([fuzzy |-> found])
    BY DEF GoodPatch
  <2>3. QED  BY <2>1, <2>2, AnswerKeeps DEF LinksInv
<1>4. CASE Generated
  <2>1. PICK c, archived :
          /\ c \in calls
          /\ calls' = (calls \ {c}) \cup (IF archived THEN {[c EXCEPT !.kind = "archive"]} ELSE {})
          /\ Land(c, IF archived THEN [gen |-> c.src.grid] ELSE [gen |-> c.src.grid, arch |-> NoGrid], {"gen"})
    BY <1>4 DEF Generated
  <2>2. GoodPatch(IF archived THEN [gen |-> c.src.grid] ELSE [gen |-> c.src.grid, arch |-> NoGrid])
    BY DEF GoodPatch
  <2>3. GoodView(view') /\ GoodView(cache')
    BY <2>1, <2>2, LandKeeps
  <2>4. GoodCall([c EXCEPT !.kind = "archive"])
    BY <2>1 DEF LinksInv, GoodCall
  <2>5. QED  BY <2>1, <2>3, <2>4 DEF LinksInv, GoodCall
<1>5. CASE Archived
  <2>1. PICK c, at : c \in calls /\ calls' = calls \ {c} /\ Land(c, [arch |-> at], {})
    BY <1>5 DEF Archived, Answered
  <2>2. GoodPatch([arch |-> at])
    BY DEF GoodPatch
  <2>3. QED  BY <2>1, <2>2, AnswerKeeps DEF LinksInv
<1>6. CASE StampStarted
  <2>1. PICK c \in calls : calls' = calls \ {c} /\ Land(c, [job |-> c.n], {"job"})
    BY <1>6 DEF StampStarted, Answered
  <2>2. GoodPatch([job |-> c.n])
    BY DEF GoodPatch
  <2>3. QED  BY <2>1, <2>2, AnswerKeeps DEF LinksInv
<1>7. CASE StampNotStarted
  BY <1>7 DEF StampNotStarted, Answered, Keep, LinksInv, GoodCall, GoodView, GoodDe, Linked
<1>8. CASE Triggered
  <2>1. PICK c \in calls :
          calls' = (calls \ {c}) \cup {[c EXCEPT !.kind = "watch"]} /\ Land(c, [watch |-> TRUE], {})
    BY <1>8 DEF Triggered
  <2>2. GoodPatch([watch |-> TRUE])
    BY DEF GoodPatch
  <2>3. GoodView(view') /\ GoodView(cache')
    BY <2>1, <2>2, LandKeeps
  <2>4. GoodCall([c EXCEPT !.kind = "watch"])
    BY DEF LinksInv, GoodCall
  <2>5. QED  BY <2>1, <2>3, <2>4 DEF LinksInv, GoodCall
<1>9. CASE WatchEnded
  <2>1. PICK c \in calls : calls' = calls \ {c} /\ Land(c, [watch |-> FALSE], {"watch"})
    BY <1>9 DEF WatchEnded, Answered
  <2>2. GoodPatch([watch |-> FALSE])
    BY DEF GoodPatch
  <2>3. QED  BY <2>1, <2>2, AnswerKeeps DEF LinksInv
<1>10. CASE PullFailed \/ ResolveFailed \/ MatchFailed \/ NotGenerated \/ NotTriggered \/ CardAnswers
  BY <1>10, LinksFailed
     DEF PullFailed, ResolveFailed, MatchFailed, NotGenerated, NotTriggered, CardAnswers, CardAnswered
<1>11. QED
  BY <1>1, <1>2, <1>3, <1>4, <1>5, <1>6, <1>7, <1>8, <1>9, <1>10 DEF Answers

LEMMA LinksStep == ASSUME LinksInv, [Next]_vars PROVE LinksInv'
<1>1. CASE Clicks   BY <1>1, LinksClicks
<1>2. CASE Answers  BY <1>2, LinksAnswers
<1>3. CASE JobPolled
  <2>1. /\ calls' = calls
        /\ \E patch : /\ Show(patch) /\ "de" \notin DOMAIN patch
    <3>1. PICK j \in jobs :
            IF j.status = "error" THEN Show([job |-> 0])
            ELSE Show([job |-> 0, plan |-> IF j.dry THEN "planned" ELSE "written"])
      BY <1>3 DEF JobPolled
    <3>2. "de" \notin DOMAIN [job |-> 0]
      OBVIOUS
    <3>3. "de" \notin DOMAIN [job |-> 0, plan |-> IF j.dry THEN "planned" ELSE "written"]
      OBVIOUS
    <3>4. calls' = calls
      BY <1>3 DEF JobPolled
    <3>5. QED  BY <3>1, <3>2, <3>3, <3>4
  <2>2. GoodView(view') /\ GoodView(cache')
    BY <2>1, OverIs DEF Show, LinksInv, GoodView
  <2>3. QED  BY <2>1, <2>2 DEF LinksInv, GoodCall
<1>4. CASE JobLost
  <2>1. Show([job |-> 0]) /\ calls' = calls
    BY <1>4 DEF JobLost
  <2>2. GoodPatch([job |-> 0])
    BY DEF GoodPatch
  <2>3. QED  BY <2>1, <2>2, ShowKeeps DEF LinksInv, GoodCall
<1>5. CASE JobEnded \/ GridChanges \/ Import \/ Leave \/ UNCHANGED vars
  BY <1>5 DEF JobEnded, GridChanges, Import, Leave, vars, LinksInv, GoodCall, GoodView, GoodDe, Linked
<1>6. CASE Return
  BY <1>6 DEF Return, LinksInv, GoodCall, GoodView, GoodDe, Linked
<1>7. QED  BY <1>1, <1>2, <1>3, <1>4, <1>5, <1>6 DEF Next

(* The CSV, the JSON and the ids of the links come from one pull, for any  *)
(* number of requests in any order and any number of showings.             *)
THEOREM LinksOfOnePull == Spec => []OneOrigin
<1>1. LinksInv => OneOrigin
  BY DEF LinksInv, GoodView, GoodDe, Linked, OneOrigin, OneOriginOf
<1>2. QED  BY <1>1, LinksInit, LinksStep, PTL DEF Spec

-----------------------------------------------------------------------------
(* Plans.  Whatever sets no plan and counts none leaves the invariant.     *)
LEMMA PlanKept ==
  ASSUME PlanInv, view'.plan = view.plan, cache'.plan = cache.plan,
         DOMAIN seen' = DOMAIN seen, seen'.plans = seen.plans, seen'.writes = seen.writes
  PROVE  PlanInv'
  BY DEF PlanInv, PlanReady

LEMMA SpendKeeps ==
  ASSUME PlanInv, Spend
  PROVE  DOMAIN seen' = DOMAIN seen /\ seen'.plans = seen.plans /\ seen'.writes = seen.writes
  BY DEF Spend, PlanInv

LEMMA PlanInit == Init => PlanInv
  BY DEF Init, PlanInv, PlanReady, Kept

LEMMA PlanClicks ==
  ASSUME LinksInv, PlanInv, Clicks
  PROVE  PlanInv'
<1> USE DEF Keep
<1>1. CASE PullClick \/ MapY \/ AiMatch \/ Generate \/ Trigger
  BY <1>1, SpendKeeps, PlanKept DEF PullClick, Pull, MapY, AiMatch, Generate, Trigger
<1>2. CASE SetPolicy
  <2>1. PICK p : Pull(p) /\ Show([pol |-> p])
    BY <1>2 DEF SetPolicy
  <2>2. GoodPatch([pol |-> p])
    BY DEF GoodPatch
  <2>3. QED  BY <2>1, <2>2, ShowKeeps, SpendKeeps, PlanKept DEF Pull
<1>3. CASE Resolve
  <2>1. GoodPatch([res |-> FALSE, fuzzy |-> {}])
    BY DEF GoodPatch
  <2>2. QED  BY <1>3, <2>1, ShowKeeps, SpendKeeps, PlanKept DEF Resolve
<1>4. CASE Bind
  <2>1. PICK patch : Show(patch) /\ "plan" \notin DOMAIN patch
    BY <1>4 DEF Bind
  <2>2. view'.plan = view.plan /\ cache'.plan = cache.plan
    BY <2>1, OverIs DEF Show, LinksInv, GoodView
  <2>3. QED  BY <1>4, <2>2, PlanKept DEF Bind
<1>5. CASE PreviewStamp
  BY <1>5 DEF PreviewStamp, RunStamp, PlanInv, PlanReady
<1>6. CASE WriteStamp
  <2>1. /\ PlanReady /\ Show([plan |-> "none"])
        /\ seen' = [seen EXCEPT !.calls = @ + 1, !.writes = @ + 1]
    BY <1>6 DEF WriteStamp, RunStamp
  <2>2. view'.plan = "none" /\ cache'.plan = "none"
    BY <2>1, OverIs DEF Show, LinksInv, GoodView
  <2>3. QED  BY <2>1, <2>2 DEF PlanInv, PlanReady
<1>7. ASSUME NEW kind, Card(kind) PROVE PlanInv'
  BY <1>7, PlanKept DEF Card
<1>8. QED
  BY <1>1, <1>2, <1>3, <1>4, <1>5, <1>6, <1>7
     DEF Clicks, CheckTree, SendToLab, DownloadDq, GetToken, CreateLabels, Compare, ApplyLinks

LEMMA LandPlan ==
  ASSUME LinksInv, PlanInv, NEW c, NEW patch, NEW first, Land(c, patch, first),
         "plan" \notin DOMAIN patch, DOMAIN seen' = DOMAIN seen,
         seen'.plans = seen.plans, seen'.writes = seen.writes
  PROVE  PlanInv'
<1>1. CASE Alive(c)
  BY <1>1, OverIs, PlanKept DEF Land, Show, LinksInv, GoodView
<1>2. CASE ~Alive(c)
  <2>1. PICK F \in SUBSET first : view' = view /\ cache' = Over(cache, Only(patch, F))
    BY <1>2 DEF Land
  <2>2. "plan" \notin DOMAIN Only(patch, F)
    BY DEF Only
  <2>3. QED  BY <2>1, <2>2, OverIs, PlanKept DEF LinksInv, GoodView
<1>3. QED  BY <1>1, <1>2

LEMMA PlanAnswers ==
  ASSUME LinksInv, PlanInv, Answers
  PROVE  PlanInv'
<1>1. CASE PullAnswered
  BY <1>1, LandPlan DEF PullAnswered
<1>2. CASE ResolveAnswered
  BY <1>2, LandPlan DEF ResolveAnswered
<1>3. CASE MatchAnswered
  BY <1>3, LandPlan DEF MatchAnswered
<1>4. CASE Generated
  <2>1. PICK c, patch :
          /\ Land(c, patch, {"gen"}) /\ "plan" \notin DOMAIN patch
          /\ seen' = IF Alive(c) THEN [seen EXCEPT !.late = c.src.grid # grid] ELSE seen
    <3>1. PICK c, archived :
            /\ c \in calls
            /\ Land(c, IF archived THEN [gen |-> c.src.grid] ELSE [gen |-> c.src.grid, arch |-> NoGrid], {"gen"})
            /\ seen' = IF Alive(c) THEN [seen EXCEPT !.late = c.src.grid # grid] ELSE seen
      BY <1>4 DEF Generated
    <3>2. "plan" \notin DOMAIN (IF archived THEN [gen |-> c.src.grid] ELSE [gen |-> c.src.grid, arch |-> NoGrid])
      OBVIOUS
    <3>3. QED  BY <3>1, <3>2
  <2>2. DOMAIN seen' = DOMAIN seen /\ seen'.plans = seen.plans /\ seen'.writes = seen.writes
    BY <2>1 DEF PlanInv
  <2>3. QED  BY <2>1, <2>2, LandPlan
<1>5. CASE Archived
  BY <1>5, LandPlan DEF Archived
<1>6. CASE StampStarted
  BY <1>6, LandPlan DEF StampStarted
<1>7. CASE StampNotStarted
  BY <1>7, PlanKept DEF StampNotStarted, Keep
<1>8. CASE Triggered
  BY <1>8, LandPlan DEF Triggered
<1>9. CASE WatchEnded
  BY <1>9, LandPlan DEF WatchEnded
<1>10. CASE PullFailed \/ ResolveFailed \/ MatchFailed \/ NotGenerated \/ NotTriggered \/ CardAnswers
  BY <1>10, PlanKept
     DEF PullFailed, ResolveFailed, MatchFailed, NotGenerated, NotTriggered, CardAnswers, CardAnswered,
         Failed, Keep
<1>11. QED
  BY <1>1, <1>2, <1>3, <1>4, <1>5, <1>6, <1>7, <1>8, <1>9, <1>10 DEF Answers

LEMMA PlanStep == ASSUME LinksInv, PlanInv, [Next]_vars PROVE PlanInv'
<1>1. CASE Clicks   BY <1>1, PlanClicks
<1>2. CASE Answers  BY <1>2, PlanAnswers
<1>3. CASE JobPolled
  <2>1. PICK j \in jobs :
          IF j.status = "error" THEN Show([job |-> 0]) /\ UNCHANGED seen
          ELSE /\ Show([job |-> 0, plan |-> IF j.dry THEN "planned" ELSE "written"])
               /\ seen' = [seen EXCEPT !.plans = @ + IF j.dry THEN 1 ELSE 0]
    BY <1>3 DEF JobPolled
  <2>2. CASE j.status = "error"
    BY <2>1, <2>2, OverIs, PlanKept DEF Show, LinksInv, GoodView
  <2>3. CASE j.status # "error"
    <3>1. view'.plan = IF j.dry THEN "planned" ELSE "written"
      BY <2>1, <2>3, OverIs DEF Show, LinksInv, GoodView
    <3>2. cache'.plan = view'.plan
      BY <2>1, <2>3, <3>1, OverIs DEF Show, LinksInv, GoodView
    <3>3. seen' = [seen EXCEPT !.plans = @ + IF j.dry THEN 1 ELSE 0]
      BY <2>1, <2>3
    <3>4. QED  BY <3>1, <3>2, <3>3 DEF PlanInv, PlanReady
  <2>4. QED  BY <2>2, <2>3
<1>4. CASE JobLost
  BY <1>4, OverIs, PlanKept DEF JobLost, Show, LinksInv, GoodView
<1>5. CASE JobEnded \/ GridChanges \/ Import \/ Leave \/ UNCHANGED vars
  BY <1>5, PlanKept DEF JobEnded, GridChanges, Import, Leave, vars
<1>6. CASE Return
  BY <1>6 DEF Return, PlanInv, PlanReady
<1>7. QED  BY <1>1, <1>2, <1>3, <1>4, <1>5, <1>6 DEF Next

(* Every write of label stamps used up a dry run that had landed, for any  *)
(* number of clicks, jobs and showings.                                    *)
THEOREM EveryWriteWasPlanned == Spec => []OneWritePerPlan
<1>1. Init => LinksInv /\ PlanInv
  BY LinksInit, PlanInit
<1>2. (LinksInv /\ PlanInv) /\ [Next]_vars => (LinksInv /\ PlanInv)'
  BY LinksStep, PlanStep
<1>3. LinksInv /\ PlanInv => OneWritePerPlan
  BY DEF PlanInv, OneWritePerPlan
<1>4. QED  BY <1>1, <1>2, <1>3, PTL DEF Spec

-----------------------------------------------------------------------------
(* Staleness.  The revision of an export matters only while it is the      *)
(* grid's: most steps move neither the grid nor the export shown.          *)
LEMMA StaleKept ==
  ASSUME StaleInv, grid' = grid, view'.gen = view.gen,
         {"rev", "busy"} \subseteq DOMAIN local', local'.rev = local.rev,
         seen'.late = seen.late
  PROVE  StaleInv'
  BY DEF StaleInv, NoGrid

LEMMA BusyKeeps ==
  ASSUME StaleInv, NEW flag, NEW c,
         local' = local \/ Busy(flag) \/ Rested(c, flag) \/ Unwatched
  PROVE  {"rev", "busy"} \subseteq DOMAIN local' /\ local'.rev = local.rev
  BY DEF StaleInv, Busy, Rested, Unwatched

LEMMA SeenKeeps ==
  ASSUME PlanInv, NEW k, NEW w, NEW p,
         \/ Spend
         \/ seen' = [seen EXCEPT !.calls = k, !.writes = w]
         \/ seen' = [seen EXCEPT !.plans = p]
  PROVE  seen'.late = seen.late
  BY DEF Spend, PlanInv

(* Nothing is claimed of a grid that is newer than the remembered export.  *)
LEMMA GridMoved ==
  ASSUME StaleInv, grid.rev < MaxEdits, "rev" \in DOMAIN grid',
         grid'.rev = grid.rev + 1, local'.rev = local.rev,
         {"rev", "busy"} \subseteq DOMAIN local'
  PROVE  StaleInv'
  BY ApplyAssumption DEF StaleInv, Unknown

LEMMA StaleInit == Init => StaleInv
  BY ApplyAssumption DEF Init, StaleInv, Rest, Kept, Unknown, NoGrid

LEMMA StaleClicks ==
  ASSUME LinksInv, PlanInv, StaleInv, Clicks
  PROVE  StaleInv'
<1> USE DEF Keep
<1>1. CASE PullClick \/ AiMatch \/ Generate \/ Trigger
  BY <1>1, BusyKeeps, SeenKeeps, StaleKept DEF PullClick, Pull, AiMatch, Generate, Trigger
<1>2. CASE MapY
  BY <1>2, BusyKeeps, GridMoved DEF MapY, Pull
<1>3. CASE SetPolicy
  <2>1. PICK p : Pull(p) /\ Show([pol |-> p]) /\ UNCHANGED grid
    BY <1>3 DEF SetPolicy
  <2>2. view'.gen = view.gen
    BY <2>1, OverIs DEF Show, LinksInv, GoodView
  <2>3. QED  BY <2>1, <2>2, BusyKeeps, SeenKeeps, StaleKept DEF Pull
<1>4. CASE Resolve
  <2>1. view'.gen = view.gen
    BY <1>4, OverIs DEF Resolve, Show, LinksInv, GoodView
  <2>2. QED  BY <1>4, <2>1, BusyKeeps, SeenKeeps, StaleKept DEF Resolve
<1>5. CASE Bind
  <2>1. PICK patch : Show(patch) /\ "gen" \notin DOMAIN patch
    BY <1>5 DEF Bind
  <2>2. view'.gen = view.gen
    BY <2>1, OverIs DEF Show, LinksInv, GoodView
  <2>3. QED  BY <1>5, <2>2, StaleKept DEF Bind, StaleInv
<1>6. CASE PreviewStamp
  BY <1>6, SeenKeeps, StaleKept DEF PreviewStamp, RunStamp, StaleInv
<1>7. CASE WriteStamp
  <2>1. /\ Show([plan |-> "none"])
        /\ seen' = [seen EXCEPT !.calls = @ + 1, !.writes = @ + 1]
        /\ UNCHANGED <<grid, local>>
    BY <1>7 DEF WriteStamp, RunStamp
  <2>2. view'.gen = view.gen
    BY <2>1, OverIs DEF Show, LinksInv, GoodView
  <2>3. QED  BY <2>1, <2>2, SeenKeeps, StaleKept DEF StaleInv
<1>8. ASSUME NEW kind, Card(kind) PROVE StaleInv'
  BY <1>8, BusyKeeps, StaleKept DEF Card
<1>9. QED
  BY <1>1, <1>2, <1>3, <1>4, <1>5, <1>6, <1>7, <1>8
     DEF Clicks, CheckTree, SendToLab, DownloadDq, GetToken, CreateLabels, Compare, ApplyLinks

(* Only an answer that carries an export sets one.                         *)
LEMMA LandStale ==
  ASSUME LinksInv, StaleInv, NEW c, NEW patch, NEW first, NEW flag,
         Land(c, patch, first), "gen" \notin DOMAIN patch \/ ~Alive(c),
         local' = local \/ Busy(flag) \/ Rested(c, flag),
         grid' = grid, seen' = seen
  PROVE  StaleInv'
<1>1. view'.gen = view.gen
  BY OverIs DEF Land, Show, LinksInv, GoodView
<1>2. QED  BY <1>1, BusyKeeps, StaleKept

LEMMA StaleAnswers ==
  ASSUME LinksInv, PlanInv, StaleInv, Answers
  PROVE  StaleInv'
<1> USE DEF Others
<1>1. CASE PullAnswered
  BY <1>1, LandStale DEF PullAnswered
<1>2. CASE ResolveAnswered
  BY <1>2, LandStale DEF ResolveAnswered
<1>3. CASE MatchAnswered
  BY <1>3, LandStale DEF MatchAnswered
<1>4. CASE Generated
  <2>1. PICK c, archived :
          /\ c \in calls
          /\ Land(c, IF archived THEN [gen |-> c.src.grid] ELSE [gen |-> c.src.grid, arch |-> NoGrid], {"gen"})
          /\ seen' = IF Alive(c) THEN [seen EXCEPT !.late = c.src.grid # grid] ELSE seen
          /\ grid' = grid
          /\ local' = IF Alive(c) THEN [local EXCEPT !.rev = grid.rev,
                                                     !.busy = IF archived THEN @ ELSE @ \ {"generate"}]
                      ELSE local
    BY <1>4 DEF Generated
  <2>2. CASE ~Alive(c)
    BY <2>1, <2>2, LandStale
  <2>3. CASE Alive(c)
    <3>1. view'.gen = c.src.grid
      BY <2>1, <2>3, OverIs DEF Land, Show, LinksInv, GoodView
    <3>2. seen'.late = (c.src.grid # grid)
      BY <2>1, <2>3 DEF PlanInv
    <3>3. {"rev", "busy"} \subseteq DOMAIN local' /\ local'.rev = grid.rev
      BY <2>1, <2>3 DEF StaleInv
    <3>4. view'.gen = grid' \/ seen'.late
      BY <2>1, <3>1, <3>2, Zenon
    <3>5. /\ "rev" \in DOMAIN grid' /\ grid'.rev \in 1 .. MaxEdits + 1
          /\ local'.rev \in 0 .. grid'.rev
      BY <2>1, <3>3, ApplyAssumption DEF StaleInv
    <3>6. QED  BY <3>3, <3>4, <3>5 DEF StaleInv, NoGrid
  <2>4. QED  BY <2>2, <2>3
<1>5. CASE Archived
  BY <1>5, LandStale DEF Archived
<1>6. CASE StampStarted
  BY <1>6, LandStale DEF StampStarted, Busy
<1>7. CASE StampNotStarted
  BY <1>7, StaleKept DEF StampNotStarted, Keep, StaleInv
<1>8. CASE Triggered
  BY <1>8, LandStale DEF Triggered
<1>9. CASE WatchEnded
  BY <1>9, LandStale DEF WatchEnded
<1>10. ASSUME NEW kind, NEW flag, Failed(kind, flag), UNCHANGED seen PROVE StaleInv'
  BY <1>10, BusyKeeps, StaleKept DEF Failed, Keep
<1>11. QED
  BY <1>1, <1>2, <1>3, <1>4, <1>5, <1>6, <1>7, <1>8, <1>9, <1>10
     DEF Answers, PullFailed, ResolveFailed, MatchFailed, NotGenerated, NotTriggered, CardAnswers, CardAnswered

LEMMA StaleStep == ASSUME LinksInv, PlanInv, StaleInv, [Next]_vars PROVE StaleInv'
<1>1. CASE Clicks   BY <1>1, StaleClicks
<1>2. CASE Answers  BY <1>2, StaleAnswers
<1>3. CASE JobPolled
  <2>1. PICK patch : Show(patch) /\ "gen" \notin DOMAIN patch
    BY <1>3 DEF JobPolled
  <2>2. view'.gen = view.gen
    BY <2>1, OverIs DEF Show, LinksInv, GoodView
  <2>3. seen'.late = seen.late
    BY <1>3 DEF JobPolled, PlanInv
  <2>4. QED  BY <1>3, <2>2, <2>3, BusyKeeps, StaleKept DEF JobPolled
<1>4. CASE JobLost
  BY <1>4, OverIs, BusyKeeps, StaleKept DEF JobLost, Show, LinksInv, GoodView
<1>5. CASE GridChanges
  BY <1>5, GridMoved DEF GridChanges, StaleInv
<1>6. CASE JobEnded \/ Import \/ UNCHANGED vars
  BY <1>6, StaleKept DEF JobEnded, Import, vars, StaleInv
<1>7. CASE Leave \/ Return
  BY <1>7, ApplyAssumption DEF Leave, Return, StaleInv, Rest, Unknown
<1>8. QED  BY <1>1, <1>2, <1>3, <1>4, <1>5, <1>6, <1>7 DEF Next

(* An export of an older grid is called stale in this and in every later   *)
(* showing, unless the grid had changed before the export arrived.         *)
THEOREM AnOldExportIsCalledStale == Spec => []StaleIsSaid
<1>1. Init => LinksInv /\ PlanInv /\ StaleInv
  BY LinksInit, PlanInit, StaleInit
<1>2. (LinksInv /\ PlanInv /\ StaleInv) /\ [Next]_vars => (LinksInv /\ PlanInv /\ StaleInv)'
  BY LinksStep, PlanStep, StaleStep
<1>3. StaleInv => StaleIsSaid
  BY ApplyAssumption DEF StaleInv, StaleIsSaid, GenStale, Unknown
<1>4. QED  BY <1>1, <1>2, <1>3, PTL DEF Spec
=============================================================================
