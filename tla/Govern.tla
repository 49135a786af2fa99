-------------------------------- MODULE Govern --------------------------------
(***************************************************************************)
(* The Govern page of a browser window (frontend/src/pages/GovernPage.jsx):*)
(* the roster, the stewardship defaults, one override card per category,   *)
(* auto-assign and the one-click set-up, and the governance the page bakes *)
(* into the glossary, while the categories move under it, answers come     *)
(* late, and the page is left, reloaded or reopened.                       *)
(*                                                                         *)
(* A card has one of the three slots (they are treated alike), a rating,   *)
(* which stands for the status and the review date too, and stakeholders;  *)
(* an override of stakeholders that is off is one that names nobody.  How  *)
(* well a person matches a category is a number chosen at the moment it is *)
(* asked for, and the quality of a category's rows comes with the rows.    *)
(***************************************************************************)
EXTENDS Naturals, FiniteSets

CONSTANTS
  Cat,       \* category names
  Person,    \* accounts with a UUID
  Holders,   \* those who hold the slot's function
  Others,    \* those scoped to other functions only
  Stars,     \* ratings
  MaxMoves,  \* bound: changes of the categories on the kept rows
  MaxEdits,  \* bound: edits by the steward
  MaxCalls,  \* bound: requests
  MaxLeaves, \* bound: times the page is left or reloaded
  MaxActs    \* bound: all of these together

ASSUME GovernAssumption ==
  /\ Holders \subseteq Person /\ Others \subseteq Person /\ Holders \cap Others = {}
  /\ "none" \notin Stars /\ "auto" \notin Stars
  /\ {MaxMoves, MaxEdits, MaxCalls, MaxLeaves, MaxActs} \subseteq Nat

VARIABLES
  live,      \* the categories of the kept rows
  dq,        \* the stars the rows of a category earn, None without quality data
  gov,       \* ws.governance: what is saved with the glossary
  server,    \* people.json and the saved defaults of settings.json
  page,      \* "away", "shown", or "dead": a render threw, the tree is gone
  people,    \* the roster of the page
  view,      \* the kept state as the shown page has it
  cache,     \* and as the session cache has it
  calls,     \* requests under way
  seen       \* bounds; history: whether a set-up that had to wait has ended

vars == <<live, dq, gov, server, page, people, view, cache, calls, seen>>

None     == "none"
Default  == "default"
OnDq     == "auto"
Empty    == [pick |-> None, rating |-> None, stake |-> {}]
NoCard   == [none |-> TRUE]
NoDefs   == [none |-> TRUE]
NoRoster == [none |-> TRUE]
Nobody   == [who |-> {}, exp |-> {}]
Fresh    == [defs |-> NoDefs, labels |-> "unset",
             cards |-> [c \in Cat |-> NoCard], orphans |-> [c \in Cat |-> Empty]]

Content(s)  == s.pick # None \/ s.rating # None \/ s.stake # {}
Card(s, by) == [pick |-> s.pick, rating |-> s.rating, stake |-> s.stake, by |-> by]

-----------------------------------------------------------------------------
(* 1. Who may be picked.                                                   *)

Eligible(p) == p \in Holders \/ p \notin Others

(* The most specialised holder first, then by name: some fixed order.      *)
PickByFn(who) == IF who \cap Holders = {} THEN None
                 ELSE CHOOSE p \in who \cap Holders : TRUE

Pool(who, fallback) ==
  IF who \cap Holders # {} THEN who \cap Holders
  ELSE IF fallback THEN {p \in who : Eligible(p)} ELSE {}

(* What pickSlot may answer when the people of the roster score "score".   *)
PickSlot(who, fallback, score) ==
  LET pool == Pool(who, fallback)
      best == {p \in pool : \A q \in pool : score[q] <= score[p]}
  IN  IF pool = {} THEN {None}
      ELSE IF \A p \in best : score[p] = 0 THEN {PickByFn(who)} ELSE best

(* With a default, a candidate must strictly beat it; else the slot is     *)
(* left on the default.                                                    *)
SlotDecision(who, fallback, score, default) ==
  LET beaten == IF default \in who THEN score[default] ELSE 0
      Wins(p) == p # None /\ p # default /\ score[p] > beaten
  IN  {IF default = None \/ Wins(p) THEN p ELSE Default : p \in PickSlot(who, fallback, score)}

(* All it may decide: the two boxes of the page, any match.                *)
Decisions(who, lead) ==
  UNION {SlotDecision(who, fallback, score, default) :
           fallback \in BOOLEAN, score \in [who -> 0..1], default \in {lead, None}}

-----------------------------------------------------------------------------
(* 2. The effects that run after a render.                                 *)

Valid(p, who) == p \in who /\ Eligible(p)
Lead(who)     == IF PickByFn(who) # None THEN PickByFn(who)
                 ELSE IF who # {} THEN CHOOSE p \in who : TRUE ELSE None

Refit(defs, who) ==
  IF Valid(defs.lead, who) THEN defs ELSE [defs EXCEPT !.lead = Lead(who)]
Seeded(saved, who) ==
  IF saved = NoDefs THEN [lead |-> Lead(who), dom |-> FALSE, auto |-> TRUE] ELSE Refit(saved, who)
WithDefs(v, saved, who) ==
  [v EXCEPT !.defs = IF @ = NoDefs THEN Seeded(saved, who) ELSE Refit(@, who)]

(* The steward a new card starts with: a hint of the rows, else the role.  *)
Prefill(who) == IF PickByFn(who) = None THEN who \cup {None} ELSE who

CardsOf(cards, cats, pre) ==
  [c \in Cat |->
     IF c \notin cats THEN NoCard
     ELSE IF cards[c] # NoCard THEN cards[c]
     ELSE IF Content(gov.cats[c]) THEN Card(gov.cats[c], "")
     ELSE Card([Empty EXCEPT !.pick = pre], "")]

OrphansHeld(orphans, cats) ==  \* mutant: an orphan whose category came back is not released
  [c \in Cat |-> IF c \notin cats /\ Content(gov.cats[c]) THEN gov.cats[c] ELSE orphans[c]]

OrphansOf(orphans, cats) ==
  [c \in Cat |-> IF c \in cats THEN Empty
                 ELSE IF Content(gov.cats[c]) THEN gov.cats[c] ELSE orphans[c]]

(* What buildGovernance says of a category for its card: a rating that     *)
(* follows the quality of the rows as the stars they earn now, and of the  *)
(* stakeholders those who are in the roster.                               *)
Resolved(r, auto, stars) == IF r = OnDq \/ (r = None /\ auto) THEN stars ELSE r

Told(card, auto, stars, who) ==
  [pick |-> card.pick, rating |-> Resolved(card.rating, auto, stars), stake |-> card.stake \cap who]

Baked(v, cats, stars, who) ==
  [c \in Cat |->
     LET told == Told(v.cards[c], v.defs.auto, stars[c], who) IN
     IF c \in cats /\ v.cards[c] # NoCard /\ Content(told) THEN told ELSE v.orphans[c]]

(* A new state of the page is kept for the session, and baked.             *)
Keep(v) == view' = v /\ cache' = v
Bake(v, cats, stars, who) ==
  gov' = [cats |-> Baked(v, cats, stars, who), defs |-> v.defs, labels |-> v.labels]
Set(v)  == Keep(v) /\ Bake(v, live, dq, people.who)

(* The page after a render in which the rows or the roster changed.        *)
Rendered(v, cats, stars, who) ==
  \E pre \in Prefill(who) :
    LET next == [v EXCEPT !.cards = CardsOf(@, cats, pre), !.orphans = OrphansOf(@, cats)]
    IN  Keep(next) /\ Bake(next, cats, stars, who)

-----------------------------------------------------------------------------
(* 3. The showings of the page.                                            *)

Ready    == page.at = "shown" /\ people # NoRoster
Alive(c) == page.at = "shown" /\ c.by = page.n
Blank    == people' = NoRoster /\ view' = Fresh

Show ==
  /\ page.at = "away"
  /\ page' = [at |-> "shown", n |-> page.n + 1, set |-> FALSE, busy |-> FALSE]
  /\ view' = [cache EXCEPT !.labels = IF @ = "unset" THEN gov.labels ELSE @]
  /\ UNCHANGED <<live, dq, gov, server, people, cache, calls, seen>>

(* The roster and the settings arrive, or one of them is not to be had and *)
(* the page goes on with nobody, or with nothing saved; the effects then   *)
(* run.                                                                    *)
Loaded ==
  /\ page.at = "shown" /\ people = NoRoster
  /\ \E roster \in {server.roster, Nobody}, saved \in {server.defs, NoDefs} :
       /\ people' = roster
       /\ Rendered(WithDefs(view, saved, roster.who), live, dq, roster.who)
       /\ page' = [page EXCEPT !.set = saved # NoDefs]
  /\ UNCHANGED <<live, dq, server, calls, seen>>

Acts   == seen.moves + seen.edits + seen.calls + seen.leaves < MaxActs
Depart == Acts /\ seen.leaves < MaxLeaves /\ seen' = [seen EXCEPT !.leaves = @ + 1]

Leave ==
  /\ page.at = "shown" /\ Depart
  /\ page' = [page EXCEPT !.at = "away"] /\ Blank
  /\ UNCHANGED <<live, dq, gov, server, cache, calls>>

(* The tab is loaded anew: the session cache and the requests are gone.    *)
Reload ==
  /\ page.at \in {"shown", "dead"} /\ Depart
  /\ page' = [page EXCEPT !.at = "away"] /\ Blank /\ cache' = Fresh /\ calls' = {}
  /\ UNCHANGED <<live, dq, gov, server>>

(* openGlossary clears what the session kept under "govern.".              *)
Reopen ==
  /\ page.at = "away" /\ cache # Fresh /\ cache' = Fresh
  /\ UNCHANGED <<live, dq, gov, server, page, people, view, calls, seen>>

(* Review renames, folds and restores categories; so does a scan that      *)
(* lands, while this page is shown too.  The rows bring their quality.     *)
Recategorise ==
  /\ page.at # "dead" /\ Acts /\ seen.moves < MaxMoves
  /\ \E cats \in SUBSET Cat, stars \in [Cat -> Stars \cup {None}] :
       /\ \A c \in Cat \ cats : stars[c] = None  \* no rows, no quality
       /\ <<cats, stars>> # <<live, dq>> /\ live' = cats /\ dq' = stars
       /\ IF Ready THEN Rendered(view, cats, stars, people.who) ELSE UNCHANGED <<gov, view, cache>>
  /\ seen' = [seen EXCEPT !.moves = @ + 1]
  /\ UNCHANGED <<server, page, people, calls>>

-----------------------------------------------------------------------------
(* 4. Edits of the steward.  A change of the roster that is not saved yet  *)
(* sets rosterDirty, and the roster card then reads a name that is not in  *)
(* its scope: the render throws and, with no error boundary, the whole     *)
(* tree is unmounted.                                                      *)

Edit   == Ready /\ Acts /\ seen.edits < MaxEdits /\ seen' = [seen EXCEPT !.edits = @ + 1]
Thrown == page' = [page EXCEPT !.at = "dead"] /\ Blank /\ UNCHANGED <<gov, cache>>

(* Cards, their buttons and the orphans are shown only when the kept rows  *)
(* have a category and the roster has an account.                          *)
CardsShown == Ready /\ live # {} /\ people.who # {}

(* The roster is locked while expertise is being generated.                *)
RosterEdit ==  \* a function toggled, expertise typed, a person added or removed
  /\ Edit /\ ~page.busy /\ Thrown
  /\ UNCHANGED <<live, dq, server, calls>>

SaveRoster ==
  /\ Edit /\ ~page.busy /\ server.roster # people
  /\ server' = [server EXCEPT !.roster = people]
  /\ UNCHANGED <<live, dq, gov, page, people, view, cache, calls>>

SetDefaults(defs) ==  \* changeDefaults: the page, the settings and the POST
  /\ Set([view EXCEPT !.defs = defs]) /\ page' = [page EXCEPT !.set = TRUE]
  /\ server' = [server EXCEPT !.defs = defs]

Pickable == {p \in people.who : Eligible(p)} \cup {None}

ChangeDefaults ==
  /\ Edit
  /\ \E p \in Pickable, auto \in BOOLEAN : SetDefaults([view.defs EXCEPT !.lead = p, !.auto = auto])
  /\ UNCHANGED <<live, dq, people, calls>>

OnCard(c) == CardsShown /\ c \in live /\ view.cards[c] # NoCard /\ Edit

SetOvField(c) ==  \* a slot, which it marks as the steward's, or the rating
  /\ OnCard(c)
  /\ \/ \E p \in Pickable : Set([view EXCEPT !.cards[c] = [@ EXCEPT !.pick = p, !.by = "user"]])
     \/ \E r \in Stars \cup {None, OnDq} : Set([view EXCEPT !.cards[c].rating = r])
  /\ UNCHANGED <<live, dq, server, page, people, calls>>

SetOvPlain(c) ==  \* an account ticked or unticked, or the override switched off
  /\ OnCard(c)
  /\ \E p \in people.who :
       LET stake == view.cards[c].stake IN
       \E next \in {stake \cup {p}, stake \ {p}, {}} : Set([view EXCEPT !.cards[c].stake = next])
  /\ UNCHANGED <<live, dq, server, page, people, calls>>

(* A card a late set-up has dropped is shown empty; picking on it reads    *)
(* the marks of a card that is not there.                                  *)
PickOnDropped(c) ==
  /\ CardsShown /\ c \in live /\ view.cards[c] = NoCard /\ Edit /\ Thrown
  /\ UNCHANGED <<live, dq, server, calls>>

DiscardOrphans ==
  /\ CardsShown /\ Edit /\ \E c \in Cat : view.orphans[c] # Empty
  /\ Set([view EXCEPT !.orphans = [c \in Cat |-> Empty]])
  /\ UNCHANGED <<live, dq, server, page, people, calls>>

(* The bake runs for the roster, defaults, cards, orphans and rows, but    *)
(* not for the label keys.                                                 *)
TickLabel ==
  /\ Edit /\ Keep([view EXCEPT !.labels = IF @ = "on" THEN "off" ELSE "on"])
  /\ UNCHANGED <<live, dq, gov, server, page, people, calls>>

-----------------------------------------------------------------------------
(* 5. Auto-assign.                                                         *)

FilledOver(card, pick) ==  \* mutant: the mark of a manual pick is not looked at
  CASE pick = Default -> [card EXCEPT !.pick = None, !.by = ""]
    [] pick = None    -> card
    [] OTHER          -> [card EXCEPT !.pick = pick, !.by = "auto"]

Filled(card, pick) ==
  IF card.by = "user" THEN card
  ELSE CASE pick = Default -> [card EXCEPT !.pick = None, !.by = ""]
         [] pick = None    -> card
         [] OTHER          -> [card EXCEPT !.pick = pick, !.by = "auto"]

(* The cards after a run over the cards, categories, defaults and roster   *)
(* of the render it belongs to; a live category without a card gets one.   *)
Started(c, pre) ==
  [x \in Cat |-> IF x \in c.cats /\ c.cards[x] = NoCard
                 THEN Card([Empty EXCEPT !.pick = pre], "") ELSE c.cards[x]]

AssignedTo(c, pre, picks) ==
  [x \in Cat |-> IF x \in c.cats THEN Filled(Started(c, pre)[x], picks[x]) ELSE c.cards[x]]

Assigned(c) ==
  {AssignedTo(c, pre, picks) : pre \in Prefill(c.who.who),
                               picks \in [Cat -> Decisions(c.who.who, c.defs.lead)]}

Call(kind) == [n |-> seen.calls, kind |-> kind, by |-> page.n, who |-> people,
               defs |-> view.defs, cards |-> view.cards, cats |-> live,
               set |-> page.set]

AutoAssign ==
  /\ CardsShown /\ Edit
  /\ \E cards \in Assigned(Call("now")) : Set([view EXCEPT !.cards = cards])
  /\ UNCHANGED <<live, dq, server, page, people, calls>>

Cleared(card) ==
  IF card # NoCard /\ card.by = "auto" THEN [card EXCEPT !.pick = None, !.by = ""] ELSE card

ClearAuto ==
  /\ CardsShown /\ Edit
  /\ Set([view EXCEPT !.cards = [c \in Cat |-> Cleared(@[c])]])
  /\ UNCHANGED <<live, dq, server, page, people, calls>>

-----------------------------------------------------------------------------
(* 6. Requests.  An answer works on what its handler captured; after its   *)
(* page has gone, at most its first setter still reaches the cache.        *)

Ask(kind, busy) ==
  /\ Ready /\ Acts /\ seen.calls < MaxCalls
  /\ calls' = calls \cup {Call(kind)} /\ seen' = [seen EXCEPT !.calls = @ + 1]
  /\ page' = [page EXCEPT !.busy = @ \/ busy]
  /\ UNCHANGED <<live, dq, gov, server, people, view, cache>>

Suggest    == Ready /\ ~page.busy /\ people.who # {} /\ Ask("expertise", TRUE)
AutoDomain == Ask("domain", FALSE)
FetchKeycloak ==
  ~(\E c \in calls : c.kind = "keycloak" /\ Alive(c)) /\ Ask("keycloak", FALSE)

Took(kind, c) ==
  c \in calls /\ c.kind = kind /\ calls' = calls \ {c} /\ UNCHANGED <<live, dq, seen>>

(* A request for expertise that ends, however, unlocks the roster.         *)
Unlocked(c) == IF c.kind \in {"expertise", "setup"} THEN [page EXCEPT !.busy = FALSE] ELSE page

(* The request failed: the page says so.                                   *)
Failed(c) ==
  /\ page' = IF Alive(c) THEN Unlocked(c) ELSE page
  /\ UNCHANGED <<gov, people, view, cache>>

(* The roster of the page becomes "next"; unsaved, it kills the page.      *)
People(c, next, unsaved) ==
  IF ~Alive(c) THEN UNCHANGED <<gov, page, people, view, cache>>
  ELSE IF unsaved THEN Thrown
  ELSE /\ people' = next /\ page' = Unlocked(c)
       /\ Rendered(WithDefs(view, NoDefs, next.who), live, dq, next.who)

ExpertiseAnswered ==
  \E c \in calls :
    /\ Took("expertise", c) /\ UNCHANGED server
    /\ \/ Failed(c)
       \/ \E exp \in {c.who.exp, c.who.who} :
            People(c, [c.who EXCEPT !.exp = exp], exp # c.who.exp)

(* The server keeps the expertise it had, the page what it had on asking.  *)
KeycloakAnswered ==
  \E c \in calls :
    /\ Took("keycloak", c)
    /\ \/ Failed(c) /\ UNCHANGED server
       \/ \E save \in BOOLEAN, who \in {Person} \cup {Person \ {p} : p \in Person} :
            LET saved == [who |-> who, exp |-> server.roster.exp \cap who] IN
            /\ server' = IF save THEN [server EXCEPT !.roster = saved] ELSE server
            /\ People(c, [saved EXCEPT !.exp = @ \cup (c.who.exp \cap who)], ~save)

(* The answer is merged into the defaults of the render that asked.        *)
Domain(c, next) ==
  LET defs == [c.defs EXCEPT !.dom = TRUE] IN
  /\ server' = [server EXCEPT !.defs = defs]
  /\ IF Alive(c) THEN Set([next EXCEPT !.defs = defs]) /\ page' = [page EXCEPT !.set = TRUE]
     ELSE UNCHANGED <<gov, page, view>> /\ cache' \in {cache, [cache EXCEPT !.defs = defs]}

DomainAnswered ==
  \E c \in calls :
    /\ Took("domain", c) /\ UNCHANGED people
    /\ (Failed(c) /\ UNCHANGED server) \/ Domain(c, view)

(* One click: expertise if anyone lacks it, the domain unless one is       *)
(* saved, then auto-assign with what the click captured.                   *)
SetUp ==
  /\ CardsShown
  /\ \/ people.who # people.exp /\ Ask("setup", TRUE)
     \/ people.who = people.exp /\ ~page.set /\ Ask("setup2", FALSE)

SetUpExpertise ==  \* unless the roster changed, it goes on to the domain
  \E c \in calls : \E exp \in {c.who.exp, c.who.who} :
    LET next == [c.who EXCEPT !.exp = exp] IN
    /\ c.kind = "setup" /\ UNCHANGED <<live, dq, seen, server>>
    /\ calls' = (calls \ {c}) \cup {[c EXCEPT !.kind = "setup2", !.who = next]}
    /\ \/ exp = c.who.exp /\ Failed(c)
       \/ People(c, next, exp # c.who.exp)

SetUpAnswered ==
  \E c \in calls : \E cards \in Assigned(c) :
    /\ c.kind = "setup2" /\ calls' = calls \ {c}
    /\ seen' = [seen EXCEPT !.macro = TRUE]
    /\ \/ ~c.set /\ Domain(c, [view EXCEPT !.cards = cards])
       \/ /\ UNCHANGED <<server, page>>
          /\ IF Alive(c) THEN Set([view EXCEPT !.cards = cards])
             ELSE UNCHANGED <<gov, view>> /\ cache' \in {cache, [cache EXCEPT !.cards = cards]}
    /\ UNCHANGED <<live, dq, people>>

-----------------------------------------------------------------------------
Init ==
  /\ live \in SUBSET Cat /\ dq = [c \in Cat |-> None]  \* before a profile
  /\ gov = [cats |-> [c \in Cat |-> Empty], defs |-> NoDefs, labels |-> "off"]
  /\ server \in [roster : [who : {Person}, exp : {{}, Person}], defs : {NoDefs}]
  /\ page = [at |-> "away", n |-> 0, set |-> FALSE, busy |-> FALSE]
  /\ people = NoRoster /\ view = Fresh /\ cache = Fresh
  /\ calls = {} /\ seen = [moves |-> 0, edits |-> 0, calls |-> 0, leaves |-> 0, macro |-> FALSE]

Choose(c) == SetOvField(c) \/ SetOvPlain(c)

Next ==
  \/ Show \/ Loaded \/ Leave \/ Reload \/ Reopen \/ Recategorise
  \/ RosterEdit \/ SaveRoster \/ ChangeDefaults \/ DiscardOrphans \/ TickLabel
  \/ (\E c \in Cat : Choose(c) \/ PickOnDropped(c))
  \/ AutoAssign \/ ClearAuto \/ Suggest \/ AutoDomain \/ FetchKeycloak \/ SetUp
  \/ ExpertiseAnswered \/ KeycloakAnswered \/ DomainAnswered \/ SetUpExpertise \/ SetUpAnswered

Spec == Init /\ [][Next]_vars

-----------------------------------------------------------------------------
(* What the glossary carries for a category follows the steward's card:    *)
(* whatever becomes of the category's name on Review, however often the    *)
(* page is left, reloaded or the glossary reopened, and whatever roster    *)
(* arrives, and unless the category itself is edited or an orphan          *)
(* discarded,                                                              *)
(*  - a pick stays, but for an automatic run where none was made by hand;  *)
(*  - a rating changes only if the card leaves it to the quality of rows   *)
(*    or to the default;                                                   *)
(*  - a stakeholder goes only for not being in the page's roster, and      *)
(*    comes only from the card.                                            *)
(* A set-up that had to wait is not judged: its late answer may undo what  *)
(* was picked meanwhile.                                                   *)
Hand(c) == view.cards[c] # NoCard /\ view.cards[c].by = "user"

PickStays(c) ==
  \/ gov.cats[c].pick \in {None, gov'.cats[c].pick}
  \/ (AutoAssign \/ ClearAuto) /\ ~Hand(c)

RatingStays(c) ==
  \/ gov'.cats[c].rating = gov.cats[c].rating
  \/ view'.cards[c] # NoCard /\ view'.cards[c].rating \in {None, OnDq}

StakeStays(c) ==
  LET was == gov.cats[c].stake  is == gov'.cats[c].stake IN
  /\ was \subseteq is \/ (people' # NoRoster /\ was \cap people'.who \subseteq is)
  /\ is \subseteq was \/ (view'.cards[c] # NoCard /\ is \subseteq view'.cards[c].stake)

DecisionsStay ==
  [][ \A c \in Cat : \/ seen'.macro
                     \/ Choose(c)
                     \/ DiscardOrphans /\ c \notin live
                     \/ PickStays(c) /\ RatingStays(c) /\ StakeStays(c) ]_vars

(* When the page shows its cards, every stewardship the glossary carries   *)
(* is before the steward's eyes as it is carried: on the card of a live    *)
(* category, the rating as picked or as the rows earn it, no stakeholder   *)
(* that is not ticked; or listed as an orphan; never as both.  Without a   *)
(* live category or an account the page shows neither (line 1104).         *)
OnItsCard(c) ==
  /\ view.cards[c] # NoCard
  /\ gov.cats[c].pick = view.cards[c].pick
  /\ gov.cats[c].rating \in {view.cards[c].rating, dq[c]}
  /\ gov.cats[c].stake \subseteq view.cards[c].stake

NothingHidden ==
  CardsShown => \A c \in Cat :
    IF c \in live THEN view.orphans[c] = Empty /\ (Content(gov.cats[c]) => OnItsCard(c))
    ELSE view.orphans[c] = gov.cats[c]
=============================================================================
