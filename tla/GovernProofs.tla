----------------------------- MODULE GovernProofs -----------------------------
(***************************************************************************)
(* For any categories, people, ratings and bounds: what the glossary       *)
(* carries of a category is what its card says, or what is listed as an    *)
(* orphan, and it follows the steward's decision through everything that   *)
(* happens to the categories, the roster and the page.                     *)
(***************************************************************************)
EXTENDS Govern, TLAPS

Parts  == {"defs", "labels", "cards", "orphans"}
Fields == {"at", "n", "set", "busy"}

(* While the page has its roster the glossary carries what is baked from   *)
(* it, and no live category is an orphan.                                  *)
IsBaked ==
  Ready => /\ gov.cats = Baked(view, live, dq, people.who)
           /\ \A c \in Cat : c \in live => view.orphans[c] = Empty

ShownInv ==
  /\ Parts \subseteq DOMAIN view /\ Parts \subseteq DOMAIN cache
  /\ Fields \subseteq DOMAIN page
  /\ page.at # "shown" => people = NoRoster
  /\ IsBaked

(* A request belongs to the showing that sent it, which has its roster.    *)
IsRoster(r) == {"who", "exp"} \subseteq DOMAIN r

OfShowing(c) ==
  /\ {"n", "kind", "by", "who"} \subseteq DOMAIN c /\ IsRoster(c.who)
  /\ c.by \in Nat /\ c.by <= page.n
  /\ page.at = "shown" /\ c.by = page.n => people # NoRoster

CallsInv ==
  /\ page.n \in Nat /\ "macro" \in DOMAIN seen
  /\ {"roster", "defs"} \subseteq DOMAIN server /\ IsRoster(server.roster)
  /\ people = NoRoster \/ IsRoster(people)
  /\ \A c \in calls : OfShowing(c)

(* A card has a pick, a rating, stakeholders and a mark.                   *)
IsCard(s) == {"pick", "rating", "stake", "by"} \subseteq DOMAIN s

(* What the page keeps agrees with what the glossary carries, wherever it  *)
(* says anything; a page that has its roster has a card for each category  *)
(* that is live and for no other.                                          *)
Agrees(cards, orphans, g) ==
  \A c \in Cat :
    IF cards[c] = NoCard THEN Content(orphans[c]) => g[c] = orphans[c]
    ELSE /\ IsCard(cards[c]) /\ ~Content(orphans[c])
         /\ g[c].pick = cards[c].pick
         /\ cards[c].rating \in {None, OnDq} \/ g[c].rating = cards[c].rating
         /\ g[c].stake \subseteq cards[c].stake

Fits(cards, orphans, cats) ==
  /\ DOMAIN cards = Cat
  /\ \A c \in Cat : IF c \in cats THEN IsCard(cards[c]) /\ orphans[c] = Empty
                    ELSE cards[c] = NoCard

StayInv ==
  ~seen.macro =>
    /\ Agrees(cache.cards, cache.orphans, gov.cats)
    /\ page.at = "shown" => view.cards = cache.cards /\ view.orphans = cache.orphans
    /\ Ready => Fits(view.cards, view.orphans, live)

-----------------------------------------------------------------------------
LEMMA RenderedLists ==
  ASSUME NEW v, Parts \subseteq DOMAIN v, NEW who, NEW stars, NEW cats, Rendered(v, cats, stars, who)
  PROVE  /\ Parts \subseteq DOMAIN view' /\ Parts \subseteq DOMAIN cache'
         /\ gov'.cats = Baked(view', cats, stars, who)
         /\ \A c \in Cat : c \in cats => view'.orphans[c] = Empty
<1>1. PICK pre, next :
        /\ pre \in Prefill(who)
        /\ next = [v EXCEPT !.cards = CardsOf(@, cats, pre), !.orphans = OrphansOf(@, cats)]
        /\ Keep(next) /\ Bake(next, cats, stars, who)
  BY DEF Rendered
<1>2. view' = next /\ cache' = next /\ gov'.cats = Baked(next, cats, stars, who)
  BY <1>1 DEF Keep, Bake
<1>3. DOMAIN next = DOMAIN v /\ next.orphans = OrphansOf(v.orphans, cats)
  BY <1>1 DEF Parts
<1>4. \A c \in Cat : c \in cats => next.orphans[c] = Empty
  BY <1>3 DEF OrphansOf
<1>5. QED  BY <1>2, <1>3, <1>4

LEMMA WithDefsIs ==
  ASSUME NEW v, NEW saved, NEW who, Parts \subseteq DOMAIN v
  PROVE  Parts \subseteq DOMAIN WithDefs(v, saved, who)
  BY DEF WithDefs, Parts

(* A setter that lists no live category as orphan.                         *)
LEMMA SetLists ==
  ASSUME ShownInv, NEW v, Parts \subseteq DOMAIN v, Set(v),
         Ready => \A c \in Cat : c \in live => v.orphans[c] = Empty,
         UNCHANGED <<live, dq, people>>, page' \in {page, [page EXCEPT !.set = TRUE]}
  PROVE  ShownInv'
<1>1. view' = v /\ cache' = v /\ gov'.cats = Baked(v, live, dq, people.who)
  BY DEF Set, Keep, Bake
<1>2. Fields \subseteq DOMAIN page' /\ page'.at = page.at
  BY DEF ShownInv, Fields
<1>3. gov'.cats = Baked(view', live', dq', people'.who)
  BY <1>1
<1>4. IsBaked'
  BY <1>1, <1>2, <1>3 DEF IsBaked, Ready
<1>5. QED  BY <1>1, <1>2, <1>4 DEF ShownInv

(* Everything that is seen stays, the session cache apart.                 *)
LEMMA SameLists ==
  ASSUME ShownInv, UNCHANGED <<live, dq, gov, people, view>>, Parts \subseteq DOMAIN cache',
         Fields \subseteq DOMAIN page', page'.at = page.at
  PROVE  ShownInv'
<1>1. IsBaked'
  BY DEF ShownInv, IsBaked, Ready
<1>2. QED  BY <1>1 DEF ShownInv

(* The page goes away or dies.                                             *)
LEMMA BlankLists ==
  ASSUME ShownInv, NEW at, at # "shown", page' = [page EXCEPT !.at = at], Blank,
         Parts \subseteq DOMAIN cache'
  PROVE  ShownInv'
<1>1. Parts \subseteq DOMAIN Fresh
  BY DEF Parts, Fresh
<1>2. people' = NoRoster /\ view' = Fresh /\ page'.at = at /\ Fields \subseteq DOMAIN page'
  BY DEF Blank, ShownInv, Fields
<1>3. QED  BY <1>1, <1>2 DEF ShownInv, IsBaked, Ready

(* The page as it is marked busy, unlocked or set: shown as before.        *)
LEMMA Marked ==
  ASSUME ShownInv, NEW f \in {"set", "busy"}, NEW x
  PROVE  LET q == [page EXCEPT ![f] = x]
         IN  Fields \subseteq DOMAIN q /\ q.at = page.at /\ q.n = page.n
  BY DEF ShownInv, Fields

LEMMA UnlockedIs ==
  ASSUME ShownInv, NEW c
  PROVE  Fields \subseteq DOMAIN Unlocked(c) /\ Unlocked(c).at = page.at /\ Unlocked(c).n = page.n
  BY Marked DEF Unlocked, ShownInv

(* A setter of cards, defaults or label keys.                              *)
LEMMA FieldSet ==
  ASSUME ShownInv, NEW f \in Parts \ {"orphans"}, NEW x
  PROVE  LET v == [view EXCEPT ![f] = x]
         IN  /\ Parts \subseteq DOMAIN v /\ v.orphans = view.orphans
             /\ Ready => \A c \in Cat : c \in live => v.orphans[c] = Empty
  BY DEF ShownInv, Parts, IsBaked

-----------------------------------------------------------------------------
LEMMA ListsInit == Init => ShownInv
  BY DEF Init, ShownInv, IsBaked, Ready, Fresh, Parts, Fields

LEMMA ListsShowings ==
  ASSUME ShownInv, Show \/ Loaded \/ Leave \/ Reload \/ Reopen \/ Recategorise
  PROVE  ShownInv'
<1>0. Parts \subseteq DOMAIN Fresh
  BY DEF Parts, Fresh
<1>1. CASE Show
  <2>1. people' = NoRoster
    BY <1>1 DEF Show, ShownInv
  <2>2. Parts \subseteq DOMAIN view' /\ Parts \subseteq DOMAIN cache'
    BY <1>1 DEF Show, ShownInv, Parts
  <2>3. Fields \subseteq DOMAIN page'
    BY <1>1 DEF Show, Fields
  <2>4. QED  BY <2>1, <2>2, <2>3 DEF ShownInv, IsBaked, Ready
<1>2. CASE Loaded
  <2>1. PICK roster, saved :
          /\ people' = roster /\ Rendered(WithDefs(view, saved, roster.who), live, dq, roster.who)
          /\ page' = [page EXCEPT !.set = saved # NoDefs] /\ UNCHANGED <<live, dq>>
          /\ page.at = "shown"
    BY <1>2 DEF Loaded
  <2>2. Parts \subseteq DOMAIN WithDefs(view, saved, roster.who)
    BY WithDefsIs DEF ShownInv
  <2>3. /\ Parts \subseteq DOMAIN view' /\ Parts \subseteq DOMAIN cache'
        /\ gov'.cats = Baked(view', live, dq, roster.who)
        /\ \A c \in Cat : c \in live => view'.orphans[c] = Empty
    BY <2>1, <2>2, RenderedLists
  <2>4. page'.at = "shown" /\ Fields \subseteq DOMAIN page'
    BY <2>1, Marked
  <2>5. IsBaked'
    BY <2>1, <2>3 DEF IsBaked
  <2>6. QED  BY <2>3, <2>4, <2>5 DEF ShownInv
<1>3. CASE Leave
  BY <1>3, BlankLists DEF Leave, ShownInv
<1>4. CASE Reload
  BY <1>0, <1>4, BlankLists DEF Reload
<1>5. CASE Reopen
  BY <1>0, <1>5, SameLists DEF Reopen, ShownInv
<1>6. CASE Recategorise
  <2>1. CASE Ready
    <3>1. Rendered(view, live', dq', people.who) /\ UNCHANGED <<page, people>>
      BY <1>6, <2>1 DEF Recategorise
    <3>2. /\ Parts \subseteq DOMAIN view' /\ Parts \subseteq DOMAIN cache'
          /\ gov'.cats = Baked(view', live', dq', people.who)
          /\ \A c \in Cat : c \in live' => view'.orphans[c] = Empty
      BY <3>1, RenderedLists DEF ShownInv
    <3>3. IsBaked'
      BY <3>1, <3>2 DEF IsBaked
    <3>4. QED  BY <3>1, <3>2, <3>3 DEF ShownInv
  <2>2. CASE ~Ready
    BY <1>6, <2>2 DEF Recategorise, ShownInv, IsBaked, Ready
  <2>3. QED  BY <2>1, <2>2
<1>7. QED  BY <1>1, <1>2, <1>3, <1>4, <1>5, <1>6

LEMMA ListsEdits ==
  ASSUME ShownInv,
         \/ RosterEdit \/ SaveRoster \/ ChangeDefaults \/ DiscardOrphans \/ TickLabel
         \/ (\E c \in Cat : Choose(c) \/ PickOnDropped(c)) \/ AutoAssign \/ ClearAuto
  PROVE  ShownInv'
<1>1. CASE RosterEdit \/ \E c \in Cat : PickOnDropped(c)
  BY <1>1, BlankLists DEF RosterEdit, PickOnDropped, Thrown, ShownInv
<1>2. CASE SaveRoster
  BY <1>2, SameLists DEF SaveRoster, ShownInv
<1>3. CASE ChangeDefaults
  <2>1. PICK defs : Set([view EXCEPT !.defs = defs]) /\ page' = [page EXCEPT !.set = TRUE]
    BY <1>3 DEF ChangeDefaults, SetDefaults
  <2>2. PICK v : v = [view EXCEPT !.defs = defs] /\ Set(v)
    BY <2>1
  <2>3. Parts \subseteq DOMAIN v /\ (Ready => \A c \in Cat : c \in live => v.orphans[c] = Empty)
    BY <2>2, FieldSet DEF Parts
  <2>4. UNCHANGED <<live, dq, people>>
    BY <1>3 DEF ChangeDefaults
  <2>5. QED  BY <2>1, <2>2, <2>3, <2>4, SetLists
<1>4. CASE DiscardOrphans
  <2>1. PICK v : v = [view EXCEPT !.orphans = [c \in Cat |-> Empty]] /\ Set(v)
    BY <1>4 DEF DiscardOrphans
  <2>2. Parts \subseteq DOMAIN v /\ \A c \in Cat : v.orphans[c] = Empty
    BY <2>1 DEF ShownInv, Parts
  <2>3. QED  BY <1>4, <2>1, <2>2, SetLists DEF DiscardOrphans, Edit
<1>5. CASE TickLabel
  <2>1. PICK x : view' = [view EXCEPT !.labels = x] /\ cache' = view'
    BY <1>5 DEF TickLabel, Keep
  <2>2. /\ Parts \subseteq DOMAIN view' /\ view'.orphans = view.orphans
        /\ view'.cards = view.cards /\ view'.defs = view.defs
    BY <2>1 DEF ShownInv, Parts
  <2>3. Baked(view', live, dq, people.who) = Baked(view, live, dq, people.who)
    BY <2>2 DEF Baked
  <2>4. Ready /\ UNCHANGED <<live, dq, gov, page, people>>
    BY <1>5 DEF TickLabel, Edit
  <2>5. gov'.cats = Baked(view', live', dq', people'.who)
    BY <2>3, <2>4 DEF ShownInv, IsBaked
  <2>6. IsBaked'
    BY <2>2, <2>4, <2>5 DEF ShownInv, IsBaked
  <2>7. QED  BY <2>1, <2>2, <2>4, <2>6 DEF ShownInv
<1>6. CASE (\E c \in Cat : Choose(c)) \/ AutoAssign \/ ClearAuto
  <2>1. PICK cards : Set([view EXCEPT !.cards = cards])
    <3>1. CASE AutoAssign \/ ClearAuto
      BY <3>1 DEF AutoAssign, ClearAuto
    <3>2. CASE \E c \in Cat : Choose(c)
      BY <3>2 DEF Choose, SetOvField, SetOvPlain
    <3>3. QED  BY <1>6, <3>1, <3>2
  <2>2. Ready /\ UNCHANGED <<live, dq, page, people>>
    BY <1>6 DEF Choose, SetOvField, SetOvPlain, OnCard, AutoAssign, ClearAuto, Edit
  <2>3. QED  BY <2>1, <2>2, FieldSet, SetLists DEF Parts
<1>7. QED  BY <1>1, <1>2, <1>3, <1>4, <1>5, <1>6

(* An answer that brings a roster, and one that fails.                     *)
LEMMA ListsPeople ==
  ASSUME ShownInv, NEW c, NEW next, NEW unsaved, People(c, next, unsaved), UNCHANGED <<live, dq>>
  PROVE  ShownInv'
<1>1. CASE ~Alive(c)
  BY <1>1, SameLists DEF People, ShownInv
<1>2. CASE Alive(c) /\ unsaved
  BY <1>2, BlankLists DEF People, Thrown, ShownInv
<1>3. CASE Alive(c) /\ ~unsaved
  <2>1. /\ Rendered(WithDefs(view, NoDefs, next.who), live, dq, next.who)
        /\ page' = Unlocked(c) /\ people' = next /\ page.at = "shown"
    BY <1>3 DEF People, Alive
  <2>2. Parts \subseteq DOMAIN WithDefs(view, NoDefs, next.who)
    BY WithDefsIs DEF ShownInv
  <2>3. /\ Parts \subseteq DOMAIN view' /\ Parts \subseteq DOMAIN cache'
        /\ gov'.cats = Baked(view', live, dq, next.who)
        /\ \A x \in Cat : x \in live => view'.orphans[x] = Empty
    BY <2>1, <2>2, RenderedLists
  <2>4. Fields \subseteq DOMAIN page' /\ page'.at = "shown"
    BY <2>1, UnlockedIs
  <2>5. IsBaked'
    BY <2>1, <2>3 DEF IsBaked
  <2>6. QED  BY <2>3, <2>4, <2>5 DEF ShownInv
<1>4. QED  BY <1>1, <1>2, <1>3

LEMMA ListsFailed ==
  ASSUME ShownInv, NEW c, Failed(c), UNCHANGED <<live, dq>>
  PROVE  ShownInv'
<1>1. Fields \subseteq DOMAIN page' /\ page'.at = page.at
  BY UnlockedIs DEF Failed, ShownInv
<1>2. QED  BY <1>1, SameLists DEF Failed, ShownInv

LEMMA ListsAnswers ==
  ASSUME ShownInv,
         ExpertiseAnswered \/ KeycloakAnswered \/ DomainAnswered \/ SetUpExpertise \/ SetUpAnswered
  PROVE  ShownInv'
<1>1. CASE ExpertiseAnswered \/ KeycloakAnswered \/ SetUpExpertise
  <2>1. /\ UNCHANGED <<live, dq>>
        /\ \/ \E c : Failed(c)
           \/ \E c, next, unsaved : People(c, next, unsaved)
    BY <1>1 DEF ExpertiseAnswered, KeycloakAnswered, SetUpExpertise, Took
  <2>2. QED  BY <2>1, ListsPeople, ListsFailed
<1>2. CASE DomainAnswered \/ SetUpAnswered
  <2>1. CASE page' = page /\ \E x : Set([view EXCEPT !.cards = x])
    <3>1. UNCHANGED <<live, dq, people>>
      BY <1>2 DEF DomainAnswered, SetUpAnswered, Took
    <3>2. QED  BY <2>1, <3>1, FieldSet, SetLists DEF Parts
  <2>2. CASE \E c, v : Domain(c, v) /\ v.orphans = view.orphans /\ Parts \subseteq DOMAIN v
    <3>1. PICK c, v : Domain(c, v) /\ v.orphans = view.orphans /\ Parts \subseteq DOMAIN v
      BY <2>2
    <3>2. UNCHANGED <<live, dq, people>>
      BY <1>2 DEF DomainAnswered, SetUpAnswered, Took
    <3>3. CASE Alive(c)
      <4>1. PICK w : w = [v EXCEPT !.defs = [c.defs EXCEPT !.dom = TRUE]] /\ Set(w)
                     /\ page' = [page EXCEPT !.set = TRUE]
        BY <3>1, <3>3 DEF Domain
      <4>2. Parts \subseteq DOMAIN w /\ w.orphans = view.orphans
        BY <3>1, <4>1 DEF Parts
      <4>3. QED  BY <3>2, <4>1, <4>2, SetLists DEF ShownInv, IsBaked
    <3>4. CASE ~Alive(c)
      <4>1. UNCHANGED <<gov, page, view>> /\ Parts \subseteq DOMAIN cache'
        BY <3>1, <3>4 DEF Domain, ShownInv, Parts
      <4>2. QED  BY <3>2, <4>1, SameLists DEF ShownInv
    <3>5. QED  BY <3>3, <3>4
  <2>3. CASE /\ UNCHANGED <<gov, page, view>>
             /\ cache' = cache \/ \E x : cache' = [cache EXCEPT !.cards = x]
    <3>1. UNCHANGED <<live, dq, people>>
      BY <1>2 DEF DomainAnswered, SetUpAnswered, Took
    <3>2. Parts \subseteq DOMAIN cache'
      BY <2>3 DEF ShownInv, Parts
    <3>3. QED  BY <2>3, <3>1, <3>2, SameLists DEF ShownInv
  <2>4. CASE DomainAnswered
    <3>1. PICK c : (Failed(c) /\ UNCHANGED <<live, dq>>) \/ Domain(c, view)
      BY <2>4 DEF DomainAnswered, Took
    <3>2. CASE Domain(c, view)
      BY <2>2, <3>2 DEF ShownInv
    <3>3. QED  BY <3>1, <3>2, ListsFailed
  <2>5. CASE SetUpAnswered
    <3>1. PICK c, cards :
            \/ Domain(c, [view EXCEPT !.cards = cards])
            \/ page' = page /\ Set([view EXCEPT !.cards = cards])
            \/ UNCHANGED <<gov, page, view>> /\ cache' \in {cache, [cache EXCEPT !.cards = cards]}
      BY <2>5 DEF SetUpAnswered
    <3>2. CASE Domain(c, [view EXCEPT !.cards = cards])
      BY <2>2, <3>2, FieldSet DEF Parts
    <3>3. CASE page' = page /\ Set([view EXCEPT !.cards = cards])
      BY <2>1, <3>3
    <3>4. QED  BY <2>3, <3>1, <3>2, <3>3
  <2>6. QED  BY <1>2, <2>4, <2>5
<1>3. QED  BY <1>1, <1>2

LEMMA ListsStep == ASSUME ShownInv, [Next]_vars PROVE ShownInv'
<1>1. CASE Show \/ Loaded \/ Leave \/ Reload \/ Reopen \/ Recategorise
  BY <1>1, ListsShowings
<1>2. CASE \/ RosterEdit \/ SaveRoster \/ ChangeDefaults \/ DiscardOrphans \/ TickLabel
           \/ (\E c \in Cat : Choose(c) \/ PickOnDropped(c)) \/ AutoAssign \/ ClearAuto
  BY <1>2, ListsEdits
<1>3. CASE Suggest \/ AutoDomain \/ FetchKeycloak \/ SetUp
  <2>1. PICK kind, busy : Ask(kind, busy)
    BY <1>3 DEF Suggest, AutoDomain, FetchKeycloak, SetUp
  <2>2. Fields \subseteq DOMAIN page' /\ page'.at = page.at
    BY <2>1, Marked DEF Ask
  <2>3. QED  BY <2>1, <2>2, SameLists DEF Ask, ShownInv
<1>4. CASE ExpertiseAnswered \/ KeycloakAnswered \/ DomainAnswered \/ SetUpExpertise \/ SetUpAnswered
  BY <1>4, ListsAnswers
<1>5. CASE UNCHANGED vars
  BY <1>5, SameLists DEF vars, ShownInv
<1>6. QED  BY <1>1, <1>2, <1>3, <1>4, <1>5 DEF Next

(* Whenever the page shows its cards, every stewardship of the glossary is *)
(* on the card of a live category as it is carried, or listed as orphan,   *)
(* and none is in both (the effects of GovernPage.jsx that keep cards and  *)
(* orphans, and the bake), whatever categories are renamed and whatever    *)
(* answers come late.                                                      *)
THEOREM StewardshipIsInSight == Spec => []NothingHidden
<1>1. Init => ShownInv
  BY ListsInit
<1>2. ShownInv /\ [Next]_vars => ShownInv'
  BY ListsStep
<1>3. ShownInv => NothingHidden
  <2> SUFFICES ASSUME ShownInv, CardsShown, NEW c \in Cat
               PROVE  IF c \in live THEN /\ view.orphans[c] = Empty
                                         /\ Content(gov.cats[c]) => OnItsCard(c)
                      ELSE view.orphans[c] = gov.cats[c]
    BY DEF NothingHidden
  <2>1. gov.cats = Baked(view, live, dq, people.who) /\ (c \in live => view.orphans[c] = Empty)
    BY DEF ShownInv, IsBaked, CardsShown
  <2>2. PICK told : told = Told(view.cards[c], view.defs.auto, dq[c], people.who)
    OBVIOUS
  <2>3. gov.cats[c] = IF c \in live /\ view.cards[c] # NoCard /\ Content(told)
                      THEN told ELSE view.orphans[c]
    BY <2>1, <2>2 DEF Baked
  <2>4. /\ told.pick = view.cards[c].pick
        /\ told.rating \in {view.cards[c].rating, dq[c]}
        /\ told.stake \subseteq view.cards[c].stake
    BY <2>2 DEF Told, Resolved
  <2>5. ~Content(Empty)
    BY DEF Content, Empty
  <2>6. QED  BY <2>1, <2>3, <2>4, <2>5 DEF OnItsCard
<1>4. QED  BY <1>1, <1>2, <1>3, PTL DEF Spec

-----------------------------------------------------------------------------
(* Requests and rosters.                                                   *)

LEMMA CallsInit == Init => CallsInv
  BY DEF Init, CallsInv, IsRoster

LEMMA RosterIs ==
  ASSUME NEW r, IsRoster(r), NEW x
  PROVE  IsRoster([r EXCEPT !.exp = x]) /\ r # NoRoster
  BY DEF IsRoster, NoRoster

(* A step after which the requests are some of those there were, perhaps   *)
(* at another stage, and a page that is still shown has not lost its roster.*)
FromCalls ==
  \A d \in calls' : \E e \in calls : /\ {"n", "kind", "by", "who"} \subseteq DOMAIN d /\ IsRoster(d.who)
                                     /\ d.by = e.by

LEMMA CallsKept ==
  ASSUME CallsInv, FromCalls, page'.n = page.n, "macro" \in DOMAIN seen',
         page'.at = "shown" => page.at = "shown" /\ (people' = people \/ people' # NoRoster),
         people' \in {people, NoRoster} \/ IsRoster(people'),
         {"roster", "defs"} \subseteq DOMAIN server', IsRoster(server'.roster)
  PROVE  CallsInv'
<1>1. ASSUME NEW d \in calls'
      PROVE  /\ {"n", "kind", "by", "who"} \subseteq DOMAIN d /\ IsRoster(d.who)
             /\ d.by \in Nat /\ d.by <= page'.n
             /\ page'.at = "shown" /\ d.by = page'.n => people' # NoRoster
  <2>1. PICK e \in calls : /\ {"n", "kind", "by", "who"} \subseteq DOMAIN d /\ IsRoster(d.who)
                           /\ d.by = e.by
    BY DEF FromCalls
  <2>2. e.by \in Nat /\ e.by <= page.n /\ (page.at = "shown" /\ e.by = page.n => people # NoRoster)
    BY DEF CallsInv, OfShowing
  <2>3. QED  BY <2>1, <2>2
<1>2. QED  BY <1>1 DEF CallsInv, OfShowing

LEMMA CallsFewer ==
  ASSUME CallsInv, calls' \subseteq calls
  PROVE  FromCalls
  BY DEF CallsInv, OfShowing, FromCalls

LEMMA CallsSame ==
  ASSUME CallsInv, calls' \subseteq calls, UNCHANGED <<server, people>>, "macro" \in DOMAIN seen',
         page'.n = page.n, page'.at = page.at
  PROVE  CallsInv'
  BY CallsFewer, CallsKept DEF CallsInv

LEMMA CallsBlank ==
  ASSUME CallsInv, ShownInv, calls' \subseteq calls, NEW at, at # "shown",
         page' = [page EXCEPT !.at = at], Blank, server' = server, "macro" \in DOMAIN seen'
  PROVE  CallsInv'
<1>1. page'.at = at /\ page'.n = page.n /\ people' = NoRoster
  BY DEF ShownInv, Blank
<1>2. QED  BY <1>1, CallsFewer, CallsKept DEF CallsInv

(* Unsaved, the page dies; else it has the roster that came.               *)
LEMMA CallsPeople ==
  ASSUME CallsInv, ShownInv, NEW c, NEW next, NEW unsaved, People(c, next, unsaved), IsRoster(next),
         {"roster", "defs"} \subseteq DOMAIN server', IsRoster(server'.roster), seen' = seen, FromCalls
  PROVE  CallsInv'
<1>1. CASE ~Alive(c)
  BY <1>1, CallsKept DEF People, CallsInv
<1>2. CASE Alive(c) /\ unsaved
  <2>1. page'.at = "dead" /\ page'.n = page.n /\ people' = NoRoster
    BY <1>2 DEF People, Thrown, Blank, ShownInv, Fields
  <2>2. QED  BY <2>1, CallsKept DEF CallsInv
<1>3. CASE Alive(c) /\ ~unsaved
  <2>1. people' = next /\ page'.at = page.at /\ page'.n = page.n
    BY <1>3, UnlockedIs DEF People
  <2>2. QED  BY <2>1, RosterIs, CallsKept DEF CallsInv
<1>4. QED  BY <1>1, <1>2, <1>3

LEMMA CallsFailed ==
  ASSUME CallsInv, ShownInv, NEW c, Failed(c), server' = server, seen' = seen, FromCalls
  PROVE  CallsInv'
<1>1. page'.at = page.at /\ page'.n = page.n /\ people' = people
  BY UnlockedIs DEF Failed
<1>2. QED  BY <1>1, CallsKept DEF CallsInv

LEMMA CallsAsk ==
  ASSUME CallsInv, ShownInv, NEW kind, NEW busy, Ask(kind, busy)
  PROVE  CallsInv'
<1>1. {"n", "kind", "by", "who"} \subseteq DOMAIN Call(kind) /\ Call(kind).by = page.n /\ Call(kind).who = people
  BY DEF Call
<1>2. calls' = calls \cup {Call(kind)} /\ people # NoRoster /\ UNCHANGED <<server, people>>
  BY DEF Ask, Ready
<1>3. "macro" \in DOMAIN seen'
  BY DEF Ask, CallsInv
<1>4. page'.n = page.n /\ page'.at = page.at
  BY Marked DEF Ask
<1>5. QED  BY <1>1, <1>2, <1>3, <1>4 DEF CallsInv, OfShowing

LEMMA CallsStep == ASSUME CallsInv, ShownInv, [Next]_vars PROVE CallsInv'
<1>0. \A f, x : "macro" \in DOMAIN [seen EXCEPT ![f] = x]
  BY DEF CallsInv
<1>1. CASE Show
  <2>1. page'.n = page.n + 1 /\ people' = people /\ calls' = calls /\ UNCHANGED <<server, seen>>
    BY <1>1 DEF Show
  <2>2. page'.n \in Nat
    BY <2>1 DEF CallsInv, OfShowing
  <2>3. \A c \in calls : c.by \in Nat /\ c.by <= page'.n /\ c.by # page'.n
    BY <2>1 DEF CallsInv, OfShowing
  <2>4. QED  BY <2>1, <2>2, <2>3 DEF CallsInv, OfShowing
<1>2. CASE Loaded
  <2>1. PICK roster, x : roster \in {server.roster, Nobody} /\
          people' = roster /\ page' = [page EXCEPT !.set = x]
    BY <1>2 DEF Loaded
  <2>2. IsRoster(roster) /\ people' # NoRoster
    BY <2>1 DEF CallsInv, IsRoster, NoRoster, Nobody
  <2>3. page'.n = page.n /\ page'.at = page.at /\ calls' = calls /\ UNCHANGED <<server, seen>>
    BY <1>2, <2>1, Marked DEF Loaded
  <2>4. QED  BY <2>1, <2>2, <2>3 DEF CallsInv, OfShowing
<1>3. CASE Leave \/ Reload
  BY <1>0, <1>3, CallsBlank DEF Leave, Reload, Depart
<1>4. CASE Reopen \/ Recategorise
  BY <1>0, <1>4, CallsSame DEF Reopen, Recategorise, CallsInv
<1>5. CASE RosterEdit \/ \E c \in Cat : PickOnDropped(c)
  BY <1>0, <1>5, CallsBlank DEF RosterEdit, PickOnDropped, Thrown, Edit
<1>6. CASE SaveRoster
  <2>1. server' = [server EXCEPT !.roster = people] /\ people # NoRoster
    BY <1>6 DEF SaveRoster, Edit, Ready
  <2>2. {"roster", "defs"} \subseteq DOMAIN server' /\ IsRoster(server'.roster)
    BY <2>1 DEF CallsInv, OfShowing
  <2>3. QED  BY <1>0, <1>6, <2>2, CallsFewer, CallsKept DEF SaveRoster, Edit, CallsInv
<1>7. CASE ChangeDefaults
  <2>1. PICK defs : SetDefaults(defs)
    BY <1>7 DEF ChangeDefaults
  <2>2. /\ {"roster", "defs"} \subseteq DOMAIN server' /\ server'.roster = server.roster
        /\ page'.n = page.n /\ page'.at = page.at
    BY <2>1 DEF SetDefaults, CallsInv, ShownInv
  <2>3. QED  BY <1>0, <1>7, <2>2, CallsFewer, CallsKept DEF ChangeDefaults, Edit, CallsInv
<1>8. CASE (\E c \in Cat : Choose(c)) \/ DiscardOrphans \/ TickLabel \/ AutoAssign \/ ClearAuto
  BY <1>0, <1>8, CallsSame
     DEF Choose, SetOvField, SetOvPlain, OnCard, DiscardOrphans, TickLabel, AutoAssign, ClearAuto, Edit
<1>9. CASE Suggest \/ AutoDomain \/ FetchKeycloak \/ SetUp
  BY <1>9, CallsAsk DEF Suggest, AutoDomain, FetchKeycloak, SetUp
<1>10. CASE ExpertiseAnswered
  <2>1. PICK c, exp : /\ c \in calls /\ Took("expertise", c) /\ server' = server
                      /\ \/ Failed(c)
                         \/ People(c, [c.who EXCEPT !.exp = exp], exp # c.who.exp)
    BY <1>10 DEF ExpertiseAnswered
  <2>2. IsRoster([c.who EXCEPT !.exp = exp])
    BY <2>1, RosterIs DEF CallsInv, OfShowing
  <2>3. calls' \subseteq calls /\ seen' = seen
    BY <2>1 DEF Took
  <2>4. QED  BY <2>1, <2>2, <2>3, CallsFewer, CallsPeople, CallsFailed DEF CallsInv
<1>11. CASE KeycloakAnswered
  <2>0. CASE \E c \in calls : Took("keycloak", c) /\ Failed(c) /\ server' = server
    BY <2>0, CallsFewer, CallsFailed DEF Took
  <2> SUFFICES ASSUME ~\E c \in calls : Took("keycloak", c) /\ Failed(c) /\ server' = server
               PROVE  CallsInv'
    BY <2>0
  <2>1. PICK c, save, who, saved, next :
          /\ c \in calls /\ save \in BOOLEAN
          /\ saved = [who |-> who, exp |-> server.roster.exp \cap who]
          /\ next = [saved EXCEPT !.exp = @ \cup (c.who.exp \cap who)]
          /\ Took("keycloak", c)
          /\ server' = IF save THEN [server EXCEPT !.roster = saved] ELSE server
          /\ People(c, next, ~save)
    BY <1>11 DEF KeycloakAnswered
  <2>2. IsRoster(saved)
    BY <2>1 DEF IsRoster
  <2>3. IsRoster(next)
    BY <2>1, <2>2, RosterIs
  <2>4. {"roster", "defs"} \subseteq DOMAIN server' /\ IsRoster(server'.roster)
    BY <2>1, <2>2 DEF CallsInv
  <2>5. calls' \subseteq calls /\ seen' = seen
    BY <2>1 DEF Took
  <2>6. QED  BY <2>1, <2>3, <2>4, <2>5, CallsFewer, CallsPeople
<1>12. CASE DomainAnswered \/ SetUpAnswered
  <2>1. /\ people' = people /\ calls' \subseteq calls
        /\ \/ UNCHANGED <<page, server>>
           \/ \E c : Failed(c) /\ UNCHANGED server
           \/ \E c, v : Domain(c, v)
    BY <1>12 DEF DomainAnswered, SetUpAnswered, Took
  <2>2. page'.n = page.n /\ page'.at = page.at
    <3>1. CASE \E c : Failed(c)
      BY <3>1, UnlockedIs DEF Failed
    <3>2. CASE \E c, v : Domain(c, v)
      BY <3>2, Marked DEF Domain
    <3>3. QED  BY <2>1, <3>1, <3>2
  <2>3. {"roster", "defs"} \subseteq DOMAIN server' /\ server'.roster = server.roster
    BY <2>1 DEF Domain, CallsInv
  <2>4. "macro" \in DOMAIN seen'
    BY <1>12 DEF DomainAnswered, SetUpAnswered, Took, CallsInv
  <2>5. QED  BY <2>1, <2>2, <2>3, <2>4, CallsFewer, CallsKept DEF CallsInv
<1>13. CASE SetUpExpertise
  <2>1. PICK c, exp, next, d :
          /\ c \in calls
          /\ next = [c.who EXCEPT !.exp = exp] /\ d = [c EXCEPT !.kind = "setup2", !.who = next]
          /\ calls' = (calls \ {c}) \cup {d} /\ UNCHANGED <<seen, server>>
          /\ Failed(c) \/ People(c, next, exp # c.who.exp)
    BY <1>13 DEF SetUpExpertise
  <2>2. IsRoster(next)
    BY <2>1, RosterIs DEF CallsInv, OfShowing
  <2>3. {"n", "kind", "by", "who"} \subseteq DOMAIN d /\ d.who = next /\ d.by = c.by
    BY <2>1 DEF CallsInv, OfShowing
  <2>4. FromCalls
    BY <2>1, <2>2, <2>3 DEF FromCalls, CallsInv, OfShowing
  <2>5. QED  BY <2>1, <2>2, <2>4, CallsPeople, CallsFailed DEF CallsInv
<1>14. CASE UNCHANGED vars
  BY <1>14, CallsSame DEF vars, CallsInv
<1>15. QED
  BY <1>1, <1>2, <1>3, <1>4, <1>5, <1>6, <1>7, <1>8, <1>9, <1>10, <1>11, <1>12, <1>13, <1>14 DEF Next

-----------------------------------------------------------------------------
(* Cards.                                                                  *)

LEMMA EmptySlot == ~Content(Empty)
  BY DEF Content, Empty

LEMMA CardIs ==
  ASSUME NEW s, NEW by
  PROVE  IsCard(Card(s, by))
  BY DEF IsCard, Card

LEMMA CardFields ==
  ASSUME NEW s, NEW by, NEW card, card = Card(s, by)
  PROVE  card.pick = s.pick /\ card.rating = s.rating /\ card.stake = s.stake
  BY DEF Card

LEMMA BlankFields ==
  ASSUME NEW pre, NEW card, card = Card([Empty EXCEPT !.pick = pre], "")
  PROVE  card.rating = None
<1>1. PICK s : s = [Empty EXCEPT !.pick = pre]
  OBVIOUS
<1>2. s.rating = None
  BY <1>1 DEF Empty
<1>3. QED  BY <1>1, <1>2, CardFields

LEMMA NotACard == ~IsCard(NoCard)
  BY DEF IsCard, NoCard

(* A change of a card's pick and mark leaves the card with the rest.       *)
SameCard(s, t) == s.rating = t.rating /\ s.stake = t.stake

LEMMA PickedIs ==
  ASSUME NEW s, IsCard(s), NEW p, NEW by, NEW u, u = [s EXCEPT !.pick = p, !.by = by]
  PROVE  IsCard(u) /\ SameCard(u, s)
<1>1. PICK t : t = [s EXCEPT !.pick = p]
  OBVIOUS
<1>2. IsCard(t) /\ t.rating = s.rating /\ t.stake = s.stake
  BY <1>1 DEF IsCard
<1>3. u = [t EXCEPT !.by = by]
  BY <1>1
<1>4. QED  BY <1>2, <1>3 DEF IsCard, SameCard

LEMMA FieldIs ==
  ASSUME NEW s, IsCard(s), NEW f \in {"rating", "stake"}, NEW x
  PROVE  IsCard([s EXCEPT ![f] = x])
  BY DEF IsCard

(* What is baked for a category that has a card, and for one that has not. *)
LEMMA BakedCard ==
  ASSUME NEW v, NEW cats, NEW stars, NEW who, NEW c \in Cat, c \in cats,
         IsCard(v.cards[c]), v.orphans[c] = Empty
  PROVE  /\ Baked(v, cats, stars, who)[c].pick = v.cards[c].pick
         /\ Baked(v, cats, stars, who)[c].rating = Resolved(v.cards[c].rating, v.defs.auto, stars[c])
         /\ Baked(v, cats, stars, who)[c].stake = v.cards[c].stake \cap who
<1>1. PICK told : told = Told(v.cards[c], v.defs.auto, stars[c], who)
  OBVIOUS
<1>2. v.cards[c] # NoCard
  BY NotACard, Zenon
<1>3. Baked(v, cats, stars, who)[c] = IF Content(told) THEN told ELSE Empty
  BY <1>1, <1>2 DEF Baked
<1>4. /\ told.pick = v.cards[c].pick /\ told.stake = v.cards[c].stake \cap who
      /\ told.rating = Resolved(v.cards[c].rating, v.defs.auto, stars[c])
  BY <1>1 DEF Told
<1>5. ~Content(told) => told.pick = Empty.pick /\ told.rating = Empty.rating /\ told.stake = Empty.stake
  BY DEF Content, Empty
<1>6. QED  BY <1>3, <1>4, <1>5

LEMMA BakedOrphan ==
  ASSUME NEW v, NEW cats, NEW stars, NEW who, NEW c \in Cat, c \notin cats
  PROVE  Baked(v, cats, stars, who)[c] = v.orphans[c]
  BY DEF Baked

(* What is baked agrees with cards and orphans that fit the categories.    *)
LEMMA BakedAgrees ==
  ASSUME NEW v, NEW cats, NEW stars, NEW who, Fits(v.cards, v.orphans, cats)
  PROVE  Agrees(v.cards, v.orphans, Baked(v, cats, stars, who))
<1> SUFFICES ASSUME NEW c \in Cat, NEW b, b = Baked(v, cats, stars, who)[c]
             PROVE  IF v.cards[c] = NoCard THEN Content(v.orphans[c]) => b = v.orphans[c]
                    ELSE /\ IsCard(v.cards[c]) /\ ~Content(v.orphans[c])
                         /\ b.pick = v.cards[c].pick
                         /\ v.cards[c].rating \in {None, OnDq} \/ b.rating = v.cards[c].rating
                         /\ b.stake \subseteq v.cards[c].stake
  BY DEF Agrees
<1>1. CASE c \in cats
  <2>1. IsCard(v.cards[c]) /\ v.orphans[c] = Empty /\ v.cards[c] # NoCard
    BY <1>1, NotACard DEF Fits
  <2>2. /\ b.pick = v.cards[c].pick
        /\ b.rating = Resolved(v.cards[c].rating, v.defs.auto, stars[c])
        /\ b.stake = v.cards[c].stake \cap who
    BY <1>1, <2>1, BakedCard
  <2>3. v.cards[c].rating \in {None, OnDq} \/ b.rating = v.cards[c].rating
    BY <2>2 DEF Resolved
  <2>4. QED  BY <2>1, <2>2, <2>3, EmptySlot
<1>2. CASE c \notin cats
  <2>1. v.cards[c] = NoCard /\ b = v.orphans[c]
    BY <1>2, BakedOrphan DEF Fits
  <2>2. QED  BY <2>1
<1>3. QED  BY <1>1, <1>2

-----------------------------------------------------------------------------
(* What a step does to the governance of one category.                     *)
Stays(c) == PickStays(c) /\ RatingStays(c) /\ StakeStays(c)

LEMMA SameGov ==
  ASSUME NEW c, gov'.cats[c] = gov.cats[c]
  PROVE  Stays(c)
  BY DEF Stays, PickStays, RatingStays, StakeStays

(* Nothing carried before, nothing carried now.                            *)
LEMMA NoGov ==
  ASSUME NEW c, ~Content(gov.cats[c]), ~Content(gov'.cats[c])
  PROVE  Stays(c)
  BY DEF Stays, PickStays, RatingStays, StakeStays, Content

(* A card that says what the glossary carried, told over again.            *)
LEMMA ToldStays ==
  ASSUME NEW c, NEW card, NEW auto, NEW stars, people' # NoRoster,
         card = view'.cards[c], IsCard(card),
         gov.cats[c].pick \in {None, card.pick},
         card.rating \in {None, OnDq} \/ gov.cats[c].rating = card.rating,
         gov.cats[c].stake \subseteq card.stake,
         gov'.cats[c].pick = card.pick,
         gov'.cats[c].rating = Resolved(card.rating, auto, stars),
         gov'.cats[c].stake = card.stake \cap people'.who
  PROVE  Stays(c)
<1>0. view'.cards[c] # NoCard
  BY NotACard, Zenon
<1>1. PickStays(c)
  BY DEF PickStays
<1>2. RatingStays(c)
  BY <1>0 DEF RatingStays, Resolved
<1>3. StakeStays(c)
  BY <1>0 DEF StakeStays
<1>4. QED  BY <1>1, <1>2, <1>3 DEF Stays

LEMMA RenderedStays ==
  ASSUME NEW v, Parts \subseteq DOMAIN v, NEW stars, NEW cats, people' # NoRoster,
         Rendered(v, cats, stars, people'.who), Agrees(v.cards, v.orphans, gov.cats)
  PROVE  /\ Fits(view'.cards, view'.orphans, cats) /\ cache' = view'
         /\ Agrees(view'.cards, view'.orphans, gov'.cats)
         /\ \A c \in Cat : Stays(c)
<1>1. PICK pre, next :
        /\ next = [v EXCEPT !.cards = CardsOf(@, cats, pre), !.orphans = OrphansOf(@, cats)]
        /\ Keep(next) /\ Bake(next, cats, stars, people'.who)
  BY DEF Rendered
<1>2. view' = next /\ cache' = next /\ gov'.cats = Baked(next, cats, stars, people'.who)
  BY <1>1 DEF Keep, Bake
<1>3. next.cards = CardsOf(v.cards, cats, pre) /\ next.orphans = OrphansOf(v.orphans, cats)
  BY <1>1 DEF Parts
<1>4. ASSUME NEW c \in Cat
      PROVE  /\ next.cards[c] = IF c \notin cats THEN NoCard
                                ELSE IF v.cards[c] # NoCard THEN v.cards[c]
                                ELSE IF Content(gov.cats[c]) THEN Card(gov.cats[c], "")
                                ELSE Card([Empty EXCEPT !.pick = pre], "")
             /\ next.orphans[c] = IF c \in cats THEN Empty
                                  ELSE IF Content(gov.cats[c]) THEN gov.cats[c] ELSE v.orphans[c]
  BY <1>3 DEF CardsOf, OrphansOf
<1>5. Fits(next.cards, next.orphans, cats)
  <2>1. DOMAIN next.cards = Cat
    BY <1>3 DEF CardsOf
  <2>2. ASSUME NEW c \in Cat
        PROVE  IF c \in cats THEN IsCard(next.cards[c]) /\ next.orphans[c] = Empty
               ELSE next.cards[c] = NoCard
    <3>1. v.cards[c] = NoCard \/ IsCard(v.cards[c])
      BY DEF Agrees
    <3>2. IsCard(Card(gov.cats[c], "")) /\ IsCard(Card([Empty EXCEPT !.pick = pre], ""))
      BY CardIs
    <3>3. QED  BY <1>4, <3>1, <3>2
  <2>3. QED  BY <2>1, <2>2 DEF Fits
<1>6. Agrees(next.cards, next.orphans, gov'.cats)
  BY <1>2, <1>5, BakedAgrees
<1>7. ASSUME NEW c \in Cat
      PROVE  Stays(c)
  <2>1. CASE c \notin cats
    <3>1. gov'.cats[c] = IF Content(gov.cats[c]) THEN gov.cats[c] ELSE v.orphans[c]
      <4>1. Baked(next, cats, stars, people'.who)[c] = next.orphans[c]
        BY <2>1, BakedOrphan
      <4>2. gov'.cats[c] = next.orphans[c]
        BY <1>2, <4>1
      <4>3. QED  BY <1>4, <2>1, <4>2
    <3>2. CASE Content(gov.cats[c])
      BY <3>1, <3>2, SameGov
    <3>3. CASE ~Content(gov.cats[c])
      <4>1. ~Content(v.orphans[c])
        BY <3>3 DEF Agrees
      <4>2. QED  BY <3>1, <3>3, <4>1, NoGov
    <3>4. QED  BY <3>2, <3>3
  <2>2. CASE c \in cats
    <3>1. IsCard(next.cards[c]) /\ next.orphans[c] = Empty
      BY <1>5, <2>2 DEF Fits
    <3>2. /\ gov'.cats[c].pick = next.cards[c].pick
          /\ gov'.cats[c].rating = Resolved(next.cards[c].rating, next.defs.auto, stars[c])
          /\ gov'.cats[c].stake = next.cards[c].stake \cap people'.who
      BY <1>2, <2>2, <3>1, BakedCard
    <3>3. /\ gov.cats[c].pick \in {None, next.cards[c].pick}
          /\ next.cards[c].rating \in {None, OnDq} \/ gov.cats[c].rating = next.cards[c].rating
          /\ gov.cats[c].stake \subseteq next.cards[c].stake
      <4>1. CASE v.cards[c] # NoCard
        <5>1. next.cards[c] = v.cards[c]
          BY <1>4, <2>2, <4>1
        <5>2. QED  BY <4>1, <5>1 DEF Agrees
      <4>2. CASE v.cards[c] = NoCard /\ Content(gov.cats[c])
        <5>1. next.cards[c] = Card(gov.cats[c], "")
          BY <1>4, <2>2, <4>2
        <5>2. PICK g, card : g = gov.cats[c] /\ card = next.cards[c]
          OBVIOUS
        <5>3. card = Card(g, "")
          BY <5>1, <5>2
        <5>4. card.pick = g.pick /\ card.rating = g.rating /\ card.stake = g.stake
          BY <5>3, CardFields
        <5>5. QED  BY <5>2, <5>4
      <4>3. CASE v.cards[c] = NoCard /\ ~Content(gov.cats[c])
        <5>1. next.cards[c] = Card([Empty EXCEPT !.pick = pre], "")
          BY <1>4, <2>2, <4>3
        <5>2. next.cards[c].rating = None
          BY <5>1, BlankFields
        <5>3. gov.cats[c].pick = None /\ gov.cats[c].stake = {}
          BY <4>3 DEF Content
        <5>4. QED  BY <5>2, <5>3
      <4>4. QED  BY <4>1, <4>2, <4>3
    <3>4. QED  BY <1>2, <3>1, <3>2, <3>3, ToldStays
  <2>3. QED  BY <2>1, <2>2
<1>8. QED  BY <1>2, <1>5, <1>6, <1>7

(* Nothing of what is judged changes, or the page is left.                 *)
LEMMA SameStays ==
  ASSUME StayInv, seen.macro => seen'.macro,
         gov' = gov, cache'.cards = cache.cards, cache'.orphans = cache.orphans,
         UNCHANGED <<people, live, view>>, page'.at = page.at
  PROVE  StayInv' /\ \A c \in Cat : Stays(c)
<1>1. \A c \in Cat : Stays(c)
  BY SameGov
<1>2. StayInv'
  BY DEF StayInv, Ready
<1>3. QED  BY <1>1, <1>2

LEMMA FreshAgrees ==
  ASSUME NEW g
  PROVE  Agrees(Fresh.cards, Fresh.orphans, g)
  BY EmptySlot DEF Agrees, Fresh

LEMMA BlankStays ==
  ASSUME StayInv, seen.macro => seen'.macro, page'.at # "shown",
         gov' = gov, cache' \in {cache, Fresh}
  PROVE  StayInv' /\ \A c \in Cat : Stays(c)
<1>1. \A c \in Cat : Stays(c)
  BY SameGov
<1>2. StayInv'
  BY FreshAgrees DEF StayInv, Ready
<1>3. QED  BY <1>1, <1>2

(* A page that is rendered, with its roster or another.                    *)
LEMMA ShownStays ==
  ASSUME StayInv, ShownInv, ~seen.macro, page.at = "shown", NEW stars, NEW defs, NEW v,
         v = view \/ v = [view EXCEPT !.defs = defs], people' # NoRoster,
         Rendered(v, live', stars, people'.who)
  PROVE  StayInv' /\ \A c \in Cat : Stays(c)
<1>1. Agrees(view.cards, view.orphans, gov.cats)
  BY DEF StayInv
<1>2. Parts \subseteq DOMAIN v /\ v.cards = view.cards /\ v.orphans = view.orphans
  BY DEF ShownInv, Parts
<1>3. /\ Fits(view'.cards, view'.orphans, live') /\ cache' = view'
      /\ Agrees(view'.cards, view'.orphans, gov'.cats)
      /\ \A c \in Cat : Stays(c)
  BY <1>1, <1>2, RenderedStays
<1>4. QED  BY <1>3 DEF StayInv

(* A setter of a page that has its roster: what is said of a category      *)
(* whose card keeps its pick, rating and stakeholders, or that is an       *)
(* orphan still.                                                           *)
LEMMA SetterStays ==
  ASSUME StayInv, ShownInv, ~seen.macro, Ready, UNCHANGED <<live, people>>, NEW v, Set(v),
         Fits(v.cards, v.orphans, live)
  PROVE  /\ StayInv'
         /\ \A c \in Cat :
              /\ c \notin live /\ v.orphans[c] = view.orphans[c] => Stays(c)
              /\ c \in live /\ SameCard(v.cards[c], view.cards[c]) =>
                   /\ RatingStays(c) /\ StakeStays(c)
                   /\ v.cards[c].pick = view.cards[c].pick => Stays(c)
<1>1. view' = v /\ cache' = v /\ gov'.cats = Baked(v, live, dq, people.who)
  BY DEF Set, Keep, Bake
<1>2. StayInv'
  <2>1. Agrees(v.cards, v.orphans, gov'.cats)
    BY <1>1, BakedAgrees
  <2>2. QED  BY <1>1, <2>1 DEF StayInv
<1>3. Fits(view.cards, view.orphans, live) /\ gov.cats = Baked(view, live, dq, people.who)
  BY DEF StayInv, ShownInv, IsBaked
<1>4. ASSUME NEW c \in Cat, c \notin live, v.orphans[c] = view.orphans[c]
      PROVE  Stays(c)
  <2>1. gov'.cats[c] = gov.cats[c]
    BY <1>1, <1>3, <1>4, BakedOrphan
  <2>2. QED  BY <2>1, SameGov
<1>5. ASSUME NEW c \in Cat, c \in live, SameCard(v.cards[c], view.cards[c])
      PROVE  /\ RatingStays(c) /\ StakeStays(c)
             /\ v.cards[c].pick = view.cards[c].pick => Stays(c)
  <2>1. /\ IsCard(v.cards[c]) /\ v.orphans[c] = Empty
        /\ IsCard(view.cards[c]) /\ view.orphans[c] = Empty
    BY <1>3, <1>5 DEF Fits
  <2>2. /\ gov.cats[c].pick = view.cards[c].pick
        /\ gov.cats[c].rating = Resolved(view.cards[c].rating, view.defs.auto, dq[c])
        /\ gov.cats[c].stake = view.cards[c].stake \cap people.who
    BY <1>3, <1>5, <2>1, BakedCard
  <2>3. /\ gov'.cats[c].pick = v.cards[c].pick
        /\ gov'.cats[c].rating = Resolved(v.cards[c].rating, v.defs.auto, dq[c])
        /\ gov'.cats[c].stake = v.cards[c].stake \cap people.who
    BY <1>1, <1>5, <2>1, BakedCard
  <2>4. RatingStays(c)
    BY <1>1, <1>5, <2>1, <2>2, <2>3, NotACard DEF RatingStays, SameCard, Resolved
  <2>5. StakeStays(c)
    BY <1>5, <2>2, <2>3 DEF StakeStays, SameCard
  <2>6. v.cards[c].pick = view.cards[c].pick => PickStays(c)
    BY <2>2, <2>3 DEF PickStays
  <2>7. QED  BY <2>4, <2>5, <2>6 DEF Stays
<1>6. QED  BY <1>2, <1>4, <1>5

LEMMA ReadyFits ==
  ASSUME StayInv, ~seen.macro, Ready
  PROVE  Fits(view.cards, view.orphans, live)
  BY DEF StayInv

(* Defaults are set: all stays.                                            *)
LEMMA DefaultsStay ==
  ASSUME StayInv, ShownInv, ~seen.macro, Ready, UNCHANGED <<live, people>>,
         NEW defs, Set([view EXCEPT !.defs = defs])
  PROVE  StayInv' /\ \A c \in Cat : Stays(c)
<1>1. PICK v : v = [view EXCEPT !.defs = defs]
  OBVIOUS
<1>2. v.cards = view.cards /\ v.orphans = view.orphans
  BY <1>1 DEF ShownInv, Parts
<1>3. Fits(v.cards, v.orphans, live)
  BY <1>2, ReadyFits
<1>4. \A c \in Cat : SameCard(v.cards[c], view.cards[c]) /\ v.cards[c].pick = view.cards[c].pick
  BY <1>2 DEF SameCard
<1>5. QED  BY <1>1, <1>2, <1>3, <1>4, SetterStays

(* Cards are set.                                                          *)
LEMMA CardsStay ==
  ASSUME StayInv, ShownInv, ~seen.macro, Ready, UNCHANGED <<live, people>>,
         NEW cards, Set([view EXCEPT !.cards = cards]), DOMAIN cards = Cat,
         \A c \in Cat : IF c \in live THEN IsCard(cards[c]) ELSE cards[c] = NoCard
  PROVE  /\ StayInv'
         /\ \A c \in Cat :
              /\ c \notin live \/ cards[c] = view.cards[c] => Stays(c)
              /\ c \in live /\ SameCard(cards[c], view.cards[c]) => RatingStays(c) /\ StakeStays(c)
<1>1. PICK v : v = [view EXCEPT !.cards = cards]
  OBVIOUS
<1>2. v.cards = cards /\ v.orphans = view.orphans
  BY <1>1 DEF ShownInv, Parts
<1>3. Fits(v.cards, v.orphans, live)
  BY <1>2, ReadyFits DEF Fits
<1>4. /\ StayInv'
      /\ \A c \in Cat :
           /\ c \notin live => Stays(c)
           /\ c \in live /\ SameCard(cards[c], view.cards[c]) =>
                /\ RatingStays(c) /\ StakeStays(c)
                /\ cards[c].pick = view.cards[c].pick => Stays(c)
  BY <1>1, <1>2, <1>3, SetterStays
<1>5. QED  BY <1>4 DEF SameCard

(* The steps that DecisionsStay allows to change the governance of c.      *)
Judged(c) ==
  \/ seen'.macro
  \/ Choose(c)
  \/ DiscardOrphans /\ c \notin live
  \/ PickStays(c) /\ RatingStays(c) /\ StakeStays(c)

LEMMA StayChoose ==
  ASSUME StayInv, ShownInv, ~seen.macro, NEW c \in Cat, Choose(c)
  PROVE  StayInv' /\ \A x \in Cat : Judged(x)
<1>1. Ready /\ UNCHANGED <<live, people>> /\ c \in live /\ view.cards[c] # NoCard
  BY DEF Choose, SetOvField, SetOvPlain, OnCard, CardsShown
<1>2. Fits(view.cards, view.orphans, live)
  BY <1>1, ReadyFits
<1>3. PICK card : /\ Set([view EXCEPT !.cards = [view.cards EXCEPT ![c] = card]])
                  /\ \/ \E p : card = [view.cards[c] EXCEPT !.pick = p, !.by = "user"]
                     \/ \E r : card = [view.cards[c] EXCEPT !.rating = r]
                     \/ \E r : card = [view.cards[c] EXCEPT !.stake = r]
  <2>1. CASE SetOvField(c)
    BY <2>1 DEF SetOvField
  <2>2. CASE SetOvPlain(c)
    BY <2>2 DEF SetOvPlain
  <2>3. QED  BY <2>1, <2>2 DEF Choose
<1>4. IsCard(card)
  <2>1. IsCard(view.cards[c])
    BY <1>1, <1>2 DEF Fits
  <2>2. CASE \E p : card = [view.cards[c] EXCEPT !.pick = p, !.by = "user"]
    BY <2>1, <2>2, PickedIs
  <2>3. CASE \E r : card = [view.cards[c] EXCEPT !.rating = r]
    BY <2>1, <2>3, FieldIs
  <2>4. CASE \E r : card = [view.cards[c] EXCEPT !.stake = r]
    BY <2>1, <2>4, FieldIs
  <2>5. QED  BY <1>3, <2>2, <2>3, <2>4
<1>5. PICK cards : cards = [view.cards EXCEPT ![c] = card]
  OBVIOUS
<1>6. /\ DOMAIN cards = Cat /\ cards[c] = card
      /\ \A x \in Cat : x # c => cards[x] = view.cards[x]
  BY <1>2, <1>5 DEF Fits
<1>7. \A x \in Cat : IF x \in live THEN IsCard(cards[x]) ELSE cards[x] = NoCard
  BY <1>1, <1>2, <1>4, <1>6 DEF Fits
<1>8. StayInv' /\ \A x \in Cat : cards[x] = view.cards[x] => Stays(x)
  BY <1>1, <1>3, <1>5, <1>6, <1>7, CardsStay
<1>9. \A x \in Cat : x # c => Stays(x)
  BY <1>6, <1>8
<1>10. QED  BY <1>8, <1>9 DEF Judged, Stays

(* What auto-assign and its undoing make of a card: a card that differs in *)
(* its pick only, and not at all if that was made by hand.                 *)
LEMMA FilledIs ==
  ASSUME NEW s, IsCard(s), NEW pick, NEW u, u = Filled(s, pick)
  PROVE  IsCard(u) /\ SameCard(u, s) /\ (s.by = "user" => u = s)
<1>1. SameCard(s, s)
  BY DEF SameCard
<1>2. CASE s.by = "user" \/ (pick # Default /\ pick = None)
  <2>1. u = s
    BY <1>2 DEF Filled
  <2>2. QED  BY <1>1, <2>1
<1>3. CASE s.by # "user" /\ pick = Default
  <2>1. u = [s EXCEPT !.pick = None, !.by = ""]
    BY <1>3 DEF Filled, Default, None
  <2>2. QED  BY <1>3, <2>1, PickedIs
<1>4. CASE s.by # "user" /\ pick # Default /\ pick # None
  <2>1. u = [s EXCEPT !.pick = pick, !.by = "auto"]
    BY <1>4 DEF Filled
  <2>2. QED  BY <1>4, <2>1, PickedIs
<1>5. QED  BY <1>2, <1>3, <1>4

LEMMA ClearedIs ==
  ASSUME NEW s, IsCard(s), NEW u, u = Cleared(s)
  PROVE  IsCard(u) /\ SameCard(u, s) /\ (s.by = "user" => u = s)
<1>1. CASE s # NoCard /\ s.by = "auto"
  <2>1. u = [s EXCEPT !.pick = None, !.by = ""]
    BY <1>1 DEF Cleared
  <2>2. QED  BY <1>1, <2>1, PickedIs
<1>2. CASE ~(s # NoCard /\ s.by = "auto")
  BY <1>2 DEF Cleared, SameCard
<1>3. QED  BY <1>1, <1>2

LEMMA StayAuto ==
  ASSUME StayInv, ShownInv, ~seen.macro, AutoAssign \/ ClearAuto
  PROVE  StayInv' /\ \A x \in Cat : Judged(x)
<1>1. Ready /\ UNCHANGED <<live, people>>
  BY DEF AutoAssign, ClearAuto, CardsShown
<1>2. /\ DOMAIN view.cards = Cat
      /\ \A x \in Cat : IF x \in live THEN IsCard(view.cards[x]) /\ view.cards[x] # NoCard
                        ELSE view.cards[x] = NoCard
  BY <1>1, ReadyFits, NotACard DEF Fits
<1>3. PICK cards :
        /\ Set([view EXCEPT !.cards = cards])
        /\ DOMAIN cards = Cat
        /\ \A x \in Cat : IF x \in live THEN \/ \E pick : cards[x] = Filled(view.cards[x], pick)
                                             \/ cards[x] = Cleared(view.cards[x])
                          ELSE cards[x] = NoCard
  <2>1. CASE AutoAssign
    <3>1. PICK cards \in Assigned(Call("now")) : Set([view EXCEPT !.cards = cards])
      BY <2>1 DEF AutoAssign
    <3>2. PICK c : c = Call("now")
      OBVIOUS
    <3>3. c.cats = live /\ c.cards = view.cards
      BY <3>2 DEF Call
    <3>4. PICK pre, picks : cards = AssignedTo(c, pre, picks)
      <4>1. cards \in Assigned(c)
        BY <3>1, <3>2
      <4>2. QED  BY <4>1 DEF Assigned
    <3>5. DOMAIN cards = Cat /\ \A x \in Cat : x \notin live => cards[x] = view.cards[x]
      BY <3>3, <3>4 DEF AssignedTo
    <3>6. ASSUME NEW x \in Cat, x \in live PROVE cards[x] = Filled(view.cards[x], picks[x])
      <4>1. Started(c, pre)[x] = view.cards[x]
        BY <1>2, <3>3, <3>6 DEF Started
      <4>2. cards[x] = Filled(Started(c, pre)[x], picks[x])
        BY <3>3, <3>4, <3>6 DEF AssignedTo
      <4>3. QED  BY <4>1, <4>2
    <3>7. QED  BY <1>2, <3>1, <3>5, <3>6
  <2>2. CASE ClearAuto
    <3>1. PICK cards : cards = [c \in Cat |-> Cleared(view.cards[c])] /\ Set([view EXCEPT !.cards = cards])
      BY <2>2 DEF ClearAuto
    <3>2. DOMAIN cards = Cat /\ \A x \in Cat : cards[x] = Cleared(view.cards[x])
      BY <3>1
    <3>3. Cleared(NoCard) = NoCard
      BY DEF Cleared
    <3>4. QED  BY <1>2, <3>1, <3>2, <3>3
  <2>3. QED  BY <2>1, <2>2
<1>4. ASSUME NEW x \in Cat
      PROVE  /\ IF x \in live THEN IsCard(cards[x]) /\ SameCard(cards[x], view.cards[x])
                ELSE cards[x] = NoCard
             /\ Hand(x) => cards[x] = view.cards[x]
  BY <1>2, <1>3, FilledIs, ClearedIs DEF Hand
<1>5. /\ StayInv'
      /\ \A x \in Cat : /\ x \notin live \/ cards[x] = view.cards[x] => Stays(x)
                        /\ x \in live => RatingStays(x) /\ StakeStays(x)
  BY <1>1, <1>3, <1>4, CardsStay
<1>6. \A x \in Cat : ~Hand(x) => PickStays(x)
  BY DEF PickStays
<1>7. QED  BY <1>4, <1>5, <1>6, Zenon DEF Judged, Stays

LEMMA StayDiscard ==
  ASSUME StayInv, ShownInv, ~seen.macro, DiscardOrphans
  PROVE  StayInv' /\ \A x \in Cat : Judged(x)
<1>1. Ready /\ UNCHANGED <<live, people>>
  BY DEF DiscardOrphans, CardsShown
<1>2. PICK v : v = [view EXCEPT !.orphans = [c \in Cat |-> Empty]] /\ Set(v)
  BY DEF DiscardOrphans
<1>3. v.cards = view.cards /\ \A x \in Cat : v.orphans[x] = Empty
  BY <1>2 DEF ShownInv, Parts
<1>4. Fits(v.cards, v.orphans, live)
  BY <1>1, <1>3, ReadyFits DEF Fits
<1>5. \A x \in Cat : SameCard(v.cards[x], view.cards[x]) /\ v.cards[x].pick = view.cards[x].pick
  BY <1>3 DEF SameCard
<1>6. StayInv' /\ \A x \in Cat : x \in live => Stays(x)
  BY <1>1, <1>2, <1>4, <1>5, SetterStays
<1>7. QED  BY <1>6 DEF Judged, Stays

LEMMA StayShowings ==
  ASSUME StayInv, ShownInv, CallsInv, ~seen.macro, Show \/ Loaded \/ Leave \/ Reload \/ Reopen \/ Recategorise
  PROVE  StayInv' /\ \A x \in Cat : Stays(x)
<1>1. CASE Show
  <2>1. people' = NoRoster /\ gov' = gov /\ cache' = cache
    BY <1>1 DEF Show, ShownInv
  <2>2. view'.cards = cache.cards /\ view'.orphans = cache.orphans
    BY <1>1 DEF Show, ShownInv, Parts
  <2>3. \A x \in Cat : Stays(x)
    BY <2>1, SameGov
  <2>4. StayInv'
    BY <1>1, <2>1, <2>2 DEF Show, StayInv, Ready
  <2>5. QED  BY <2>3, <2>4
<1>2. CASE Loaded
  <2>1. PICK roster, saved :
          /\ roster \in {server.roster, Nobody}
          /\ people' = roster /\ Rendered(WithDefs(view, saved, roster.who), live, dq, roster.who)
    BY <1>2 DEF Loaded
  <2>2. \E defs : WithDefs(view, saved, roster.who) = [view EXCEPT !.defs = defs]
    BY Zenon DEF WithDefs
  <2>3. page.at = "shown" /\ live' = live
    BY <1>2 DEF Loaded
  <2>4. people' # NoRoster
    BY <2>1 DEF CallsInv, IsRoster, NoRoster, Nobody
  <2>5. QED  BY <2>1, <2>2, <2>3, <2>4, ShownStays
<1>3. CASE Leave
  BY <1>3, BlankStays DEF Leave, ShownInv, Fields
<1>4. CASE Reload
  BY <1>4, BlankStays DEF Reload, ShownInv, Fields
<1>5. CASE Reopen
  BY <1>5, BlankStays DEF Reopen
<1>6. CASE Recategorise
  <2>1. CASE Ready
    <3>1. /\ Rendered(view, live', dq', people'.who) /\ page.at = "shown" /\ people' # NoRoster
      BY <1>6, <2>1 DEF Recategorise, Ready
    <3>2. QED  BY <3>1, ShownStays
  <2>2. CASE ~Ready
    <3>1. UNCHANGED <<gov, view, cache, page, people>> /\ seen'.macro = seen.macro
      BY <1>6, <2>2 DEF Recategorise, CallsInv
    <3>2. \A x \in Cat : Stays(x)
      BY <3>1, SameGov
    <3>3. StayInv'
      BY <2>2, <3>1 DEF StayInv, Ready
    <3>4. QED  BY <3>2, <3>3
  <2>3. QED  BY <2>1, <2>2
<1>7. QED  BY <1>1, <1>2, <1>3, <1>4, <1>5, <1>6

LEMMA StayPeople ==
  ASSUME StayInv, ShownInv, ~seen.macro, seen' = seen, live' = live,
         NEW c, NEW next, NEW unsaved, IsRoster(next), People(c, next, unsaved)
  PROVE  StayInv' /\ \A x \in Cat : Stays(x)
<1>1. CASE ~Alive(c)
  BY <1>1, SameStays DEF People
<1>2. CASE Alive(c) /\ unsaved
  BY <1>2, BlankStays DEF People, Thrown, ShownInv, Fields
<1>3. CASE Alive(c) /\ ~unsaved
  <2>1. people' = next /\ Rendered(WithDefs(view, NoDefs, next.who), live, dq, next.who)
    BY <1>3 DEF People
  <2>2. \E defs : WithDefs(view, NoDefs, next.who) = [view EXCEPT !.defs = defs]
    BY Zenon DEF WithDefs
  <2>3. page.at = "shown"
    BY <1>3 DEF Alive
  <2>4. people' # NoRoster
    BY <2>1 DEF IsRoster, NoRoster
  <2>5. QED  BY <2>1, <2>2, <2>3, <2>4, ShownStays
<1>4. QED  BY <1>1, <1>2, <1>3

LEMMA StayFailed ==
  ASSUME StayInv, ShownInv, ~seen.macro, seen' = seen, live' = live, NEW c, Failed(c)
  PROVE  StayInv' /\ \A x \in Cat : Stays(x)
<1>1. page'.at = page.at
  BY UnlockedIs DEF Failed
<1>2. QED  BY <1>1, SameStays DEF Failed

LEMMA StayDomain ==
  ASSUME StayInv, ShownInv, CallsInv, ~seen.macro, DomainAnswered
  PROVE  StayInv' /\ \A x \in Cat : Stays(x)
<1>1. PICK c \in calls : (Failed(c) \/ Domain(c, view)) /\ UNCHANGED <<live, people, seen>>
  BY DEF DomainAnswered, Took
<1>0. CASE Failed(c)
  BY <1>0, <1>1, StayFailed
<1> SUFFICES ASSUME Domain(c, view)
             PROVE  StayInv' /\ \A x \in Cat : Stays(x)
  BY <1>0, <1>1
<1>2. CASE Alive(c)
  <2>1. Ready
    BY <1>2 DEF CallsInv, OfShowing, Ready, Alive
  <2>2. \E defs : Set([view EXCEPT !.defs = defs])
    BY <1>1, <1>2 DEF Domain
  <2>3. QED  BY <1>1, <2>1, <2>2, DefaultsStay
<1>3. CASE ~Alive(c)
  <2>1. cache'.cards = cache.cards /\ cache'.orphans = cache.orphans /\ UNCHANGED <<gov, page, view>>
    BY <1>1, <1>3 DEF Domain, ShownInv, Parts
  <2>2. QED  BY <1>1, <2>1, SameStays
<1>4. QED  BY <1>2, <1>3

LEMMA StayStep ==
  ASSUME StayInv, ShownInv, CallsInv, [Next]_vars
  PROVE  StayInv' /\ \A x \in Cat : Judged(x)
<1>1. CASE seen.macro \/ seen'.macro
  <2>1. seen'.macro
    BY <1>1 DEF CallsInv, Next, vars, Show, Loaded, Leave, Reload, Reopen, Recategorise, RosterEdit, SaveRoster,
       ChangeDefaults, DiscardOrphans, TickLabel, Choose, SetOvField, SetOvPlain, OnCard, PickOnDropped, AutoAssign,
       ClearAuto, Suggest, AutoDomain, FetchKeycloak, SetUp, Ask, Edit, Depart, ExpertiseAnswered,
       KeycloakAnswered, DomainAnswered, SetUpExpertise, SetUpAnswered, Took
  <2>2. QED  BY <2>1 DEF StayInv, Judged
<1>2. CASE ~seen.macro /\ ~seen'.macro
  <2> SUFFICES StayInv' /\ \A x \in Cat : Stays(x) \/ Judged(x)
    BY DEF Stays, Judged
  <2>1. CASE Show \/ Loaded \/ Leave \/ Reload \/ Reopen \/ Recategorise
    BY <1>2, <2>1, StayShowings
  <2>2. CASE RosterEdit \/ \E c \in Cat : PickOnDropped(c)
    BY <1>2, <2>2, BlankStays DEF RosterEdit, PickOnDropped, Thrown, ShownInv, Fields
  <2>3. CASE SaveRoster
    BY <1>2, <2>3, SameStays DEF SaveRoster
  <2>4. CASE ChangeDefaults
    <3>1. \E defs : Set([view EXCEPT !.defs = defs])
      BY <2>4 DEF ChangeDefaults, SetDefaults
    <3>2. Ready /\ UNCHANGED <<live, people>>
      BY <2>4 DEF ChangeDefaults, Edit
    <3>3. QED  BY <1>2, <3>1, <3>2, DefaultsStay
  <2>5. CASE DiscardOrphans
    BY <1>2, <2>5, StayDiscard
  <2>6. CASE TickLabel
    <3>1. /\ view'.cards = view.cards /\ view'.orphans = view.orphans /\ cache' = view'
          /\ UNCHANGED <<live, gov, page, people>> /\ page.at = "shown"
      BY <2>6 DEF TickLabel, Keep, Edit, Ready, ShownInv, Parts
    <3>2. \A x \in Cat : Stays(x)
      BY <3>1, SameGov
    <3>3. StayInv'
      BY <1>2, <3>1 DEF StayInv, Ready
    <3>4. QED  BY <3>2, <3>3
  <2>7. CASE \E c \in Cat : Choose(c)
    BY <1>2, <2>7, StayChoose
  <2>8. CASE AutoAssign \/ ClearAuto
    BY <1>2, <2>8, StayAuto
  <2>9. CASE Suggest \/ AutoDomain \/ FetchKeycloak \/ SetUp
    <3>1. PICK kind, busy : Ask(kind, busy)
      BY <2>9 DEF Suggest, AutoDomain, FetchKeycloak, SetUp
    <3>2. page'.at = page.at
      BY <3>1, Marked DEF Ask
    <3>3. QED  BY <1>2, <3>1, <3>2, SameStays DEF Ask
  <2>10. CASE ExpertiseAnswered \/ KeycloakAnswered \/ SetUpExpertise
    <3>1. seen' = seen /\ live' = live
      BY <2>10 DEF ExpertiseAnswered, KeycloakAnswered, SetUpExpertise, Took
    <3>2. \/ \E c : Failed(c)
          \/ \E c, next, unsaved : IsRoster(next) /\ People(c, next, unsaved)
      <4>1. CASE ExpertiseAnswered \/ SetUpExpertise
        <5>1. PICK c, exp :
                c \in calls /\ (Failed(c) \/ People(c, [c.who EXCEPT !.exp = exp], exp # c.who.exp))
          BY <4>1 DEF ExpertiseAnswered, SetUpExpertise
        <5>2. IsRoster([c.who EXCEPT !.exp = exp])
          BY <5>1, RosterIs DEF CallsInv, OfShowing
        <5>3. QED  BY <5>1, <5>2
      <4>2. CASE KeycloakAnswered
        <5>1. CASE \E c : Failed(c)
          BY <5>1
        <5>2. CASE ~\E c : Failed(c)
          <6>1. PICK c, save, who, saved :
                  /\ saved = [who |-> who, exp |-> server.roster.exp \cap who]
                  /\ People(c, [saved EXCEPT !.exp = @ \cup (c.who.exp \cap who)], ~save)
            BY <4>2, <5>2 DEF KeycloakAnswered
          <6>2. IsRoster(saved)
            BY <6>1 DEF IsRoster
          <6>3. QED  BY <6>1, <6>2, RosterIs
        <5>3. QED  BY <5>1, <5>2
      <4>3. QED  BY <2>10, <4>1, <4>2
    <3>3. QED  BY <1>2, <3>1, <3>2, StayPeople, StayFailed
  <2>11. CASE DomainAnswered
    BY <1>2, <2>11, StayDomain
  <2>12. CASE SetUpAnswered
    <3>1. seen' = [seen EXCEPT !.macro = TRUE]
      BY <2>12 DEF SetUpAnswered
    <3>2. QED  BY <1>2, <3>1 DEF CallsInv
  <2>13. CASE UNCHANGED vars
    BY <1>2, <2>13, SameStays DEF vars
  <2>14. QED
    BY <2>1, <2>2, <2>3, <2>4, <2>5, <2>6, <2>7, <2>8, <2>9, <2>10, <2>11, <2>12, <2>13 DEF Next
<1>3. QED  BY <1>1, <1>2

LEMMA StayInit == Init => StayInv
  BY FreshAgrees DEF Init, StayInv, Ready

(* Through renamed categories, changing quality, left and reloaded pages,  *)
(* new or missing rosters and late answers, what the glossary carries of a *)
(* category follows the steward's decision (the bake effect, autoAssign    *)
(* and discardOrphans of GovernPage.jsx); a set-up that had to wait is the *)
(* exception.                                                              *)
THEOREM DecisionsStand == Spec => DecisionsStay
<1>1. Init => StayInv /\ ShownInv /\ CallsInv
  BY StayInit, ListsInit, CallsInit
<1>2. (StayInv /\ ShownInv /\ CallsInv) /\ [Next]_vars => (StayInv /\ ShownInv /\ CallsInv)'
  BY StayStep, ListsStep, CallsStep
<1>3. (StayInv /\ ShownInv /\ CallsInv) /\ [Next]_vars =>
        [\A c \in Cat : \/ seen'.macro
                        \/ Choose(c)
                        \/ DiscardOrphans /\ c \notin live
                        \/ PickStays(c) /\ RatingStays(c) /\ StakeStays(c)]_vars
  BY StayStep DEF Judged
<1>4. QED  BY <1>1, <1>2, <1>3, PTL DEF Spec, DecisionsStay
=============================================================================
