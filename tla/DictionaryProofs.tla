-------------------------- MODULE DictionaryProofs --------------------------
(* Theorems about Dictionary, for every vocabulary, pack and set of rows.  *)
EXTENDS Dictionary, TLAPS

(* The usage sets are all that Remap changes, and no key appears that was  *)
(* not there or folded onto a term.                                        *)
LEMMA KeyType ==
  ASSUME NEW d \in Doc, NEW key \in Term
  PROVE  KeyOf(d, key) \in Term
<1>1. CASE Candidates(d, key) = {}
  BY <1>1 DEF KeyOf
<1>2. CASE Candidates(d, key) # {}
  <2>1. (CHOOSE n \in Candidates(d, key) : TRUE) \in Term
    BY <1>2 DEF Candidates, TermsOf
  <2>2. QED  BY <1>2, <2>1, VocabularyAssumption DEF KeyOf
<1>3. QED  BY <1>1, <1>2

LEMMA RemapType ==
  ASSUME NEW d \in Doc, NEW dropped
  PROVE  /\ Remap(d, dropped) \in Doc
         /\ Remap(d, dropped).tags = d.tags /\ Remap(d, dropped).terms = d.terms
         /\ Remap(d, dropped).rules = d.rules
         /\ Remap(d, dropped).retTags = d.retTags
         /\ Remap(d, dropped).retTerms = d.retTerms
         /\ \A t \in Tag : d.usage[t] = {} => Remap(d, dropped).usage[t] = {}
<1> DEFINE u == [t \in Tag |-> {KeyOf(d, k) : k \in d.usage[t] \ dropped}]
<1>1. u \in [Tag -> SUBSET Term]
  BY KeyType DEF Doc
<1>2. Remap(d, dropped) = [d EXCEPT !.usage = u]
  BY DEF Remap
<1>3. \A t \in Tag : d.usage[t] = {} => u[t] = {}
  OBVIOUS
<1> HIDE DEF u
<1>4. QED  BY <1>1, <1>2, <1>3 DEF Doc

LEMMA SeedType == Seed \in Doc
<1>1. \A t \in Tag : SeedTagEntry(t) \in TagEntry
  BY DEF SeedTagEntry, TagEntry, Layer, Status
<1>2. \A n \in Term : SeedTermEntry(n) \in TermEntry
  BY VocabularyAssumption DEF SeedTermEntry, TermEntry, Layer, Status, SeedTag
<1>3. NoTag \in TagEntry /\ NoTerm \in TermEntry
  BY DEF NoTag, NoTerm, TagEntry, TermEntry, Layer, Status
<1>4. QED  BY <1>1, <1>2, <1>3, VocabularyAssumption DEF Seed, Doc

-----------------------------------------------------------------------------
(* The strengthening: what holds of every document the app keeps.  A       *)
(* tombstoned tag is absent, with no usage; a tombstoned term is absent or *)
(* a proposal that waits, relabelled if it is a term of the baseline; the  *)
(* core is generic and carries no tombstone.                               *)
SafeTags(d) ==
  /\ \A t \in CoreTag : d.tags[t].layer = "generic" /\ t \notin d.retTags
  /\ \A t \in d.retTags : d.tags[t] = NoTag /\ d.usage[t] = {}

Waits(e, n) == e.status = "pending" /\ (e.layer = "generic" => n \in GenericTerm)

SafeTerms(d) ==
  \A n \in d.retTerms : d.terms[n] = NoTerm \/ Waits(d.terms[n], n)

Safe(d) == d \in Doc /\ SafeTags(d) /\ SafeTerms(d)

(* The page's copy carries no tombstones at all, and not every field.      *)
PageSafe(d) == d \in Doc /\ d.retTags = {} /\ d.retTerms = {}

IInv == /\ mem # NoDoc => Safe(mem)
        /\ disk # NoDoc => Safe(disk)
        /\ zip # NoDoc => Safe(zip)
        /\ page # NoDoc => PageSafe(page)

LEMMA Nothing == /\ NoTag \in TagEntry /\ NoTerm \in TermEntry
                 /\ CoreTag \subseteq Tag /\ SeedTag \subseteq Tag
BY VocabularyAssumption
   DEF NoTag, NoTerm, TagEntry, TermEntry, Layer, Status, SeedTag

LEMMA SeedSafe == Safe(Seed)
<1>1. \A t \in CoreTag : Seed.tags[t].layer = "generic"
  BY VocabularyAssumption DEF Seed, SeedTagEntry, SeedTag
<1>2. Seed.retTags = {} /\ Seed.retTerms = {}
  BY DEF Seed
<1>3. QED  BY <1>1, <1>2, SeedType DEF Safe, SafeTags, SafeTerms

LEMMA RemapSafe ==
  ASSUME NEW d, Safe(d), NEW dropped
  PROVE  Safe(Remap(d, dropped))
<1>1. d \in Doc  BY DEF Safe
<1>2. d.retTags \subseteq Tag  BY <1>1 DEF Doc
<1>3. QED  BY <1>1, <1>2, RemapType DEF Safe, SafeTags, SafeTerms

(* The load-time merge of any document is a document with the core in its  *)
(* allow-list; it keeps the tombstones, and keeps them effective.          *)
LEMMA MergeType ==
  ASSUME NEW d \in Doc
  PROVE  /\ MergeSeed(d) \in Doc
         /\ MergeSeed(d).retTags = d.retTags /\ MergeSeed(d).retTerms = d.retTerms
         /\ \A t \in Tag : MergeSeed(d).tags[t] = MergedTag(d, t)
         /\ \A n \in Term : MergeSeed(d).terms[n] = MergedTerm(d, n)
         /\ \A t \in Tag : d.usage[t] = {} => MergeSeed(d).usage[t] = {}
<1> DEFINE m == [d EXCEPT !.tags  = [t \in Tag |-> MergedTag(d, t)],
                          !.terms = [n \in Term |-> MergedTerm(d, n)],
                          !.rules = MergedRules(d)]
<1>1. \A t \in Tag : MergedTag(d, t) \in TagEntry
  BY Nothing DEF MergedTag, Healed, SeedTagEntry, TagEntry, Layer, Status, Doc
<1>2. \A n \in Term : MergedTerm(d, n) \in TermEntry
  <2> SUFFICES ASSUME NEW n \in Term PROVE MergedTerm(d, n) \in TermEntry
    OBVIOUS
  <2>1. d.terms[n] \in TermEntry  BY DEF Doc
  <2>2. SeedTermEntry(n) \in TermEntry
    BY VocabularyAssumption DEF SeedTermEntry, TermEntry, Layer, Status, SeedTag
  <2>3. Healed(d.terms[n], n \in GenericTerm) \in TermEntry
    BY <2>1 DEF Healed, TermEntry, Layer, Status
  <2>4. QED  BY <2>1, <2>2, <2>3, Nothing DEF MergedTerm
<1>3. MergedRules(d) \subseteq Rule
  BY VocabularyAssumption DEF MergedRules, Doc
<1>4. m \in Doc /\ m.retTags = d.retTags /\ m.retTerms = d.retTerms /\ m.usage = d.usage
      /\ m.tags = [t \in Tag |-> MergedTag(d, t)]
      /\ m.terms = [n \in Term |-> MergedTerm(d, n)]
  BY <1>1, <1>2, <1>3 DEF Doc
<1>5. MergeSeed(d) = Remap(m, {})  BY DEF MergeSeed
<1> HIDE DEF m
<1>6. /\ MergeSeed(d) \in Doc
      /\ MergeSeed(d).retTags = d.retTags /\ MergeSeed(d).retTerms = d.retTerms
      /\ MergeSeed(d).tags = m.tags /\ MergeSeed(d).terms = m.terms
      /\ \A t \in Tag : d.usage[t] = {} => MergeSeed(d).usage[t] = {}
  BY <1>4, <1>5, RemapType
<1>7. QED  BY <1>4, <1>6

LEMMA MergeCore ==
  ASSUME NEW d \in Doc, NEW t \in CoreTag
  PROVE  MergeSeed(d).tags[t].layer = "generic"
<1>1. t \in Tag /\ t \in GenericTag /\ t \in SeedTag
  BY VocabularyAssumption DEF SeedTag
<1>2. d.tags[t] \in TagEntry
  BY <1>1 DEF Doc
<1>3. Healed(d.tags[t], t \in GenericTag).layer = "generic"
  BY <1>1, <1>2 DEF Healed, TagEntry
<1>4. SeedTagEntry(t).layer = "generic"
  BY <1>1 DEF SeedTagEntry
<1>5. MergedTag(d, t).layer = "generic"
  BY <1>1, <1>3, <1>4 DEF MergedTag
<1>6. QED  BY <1>1, <1>5, MergeType

LEMMA MergeSafe ==
  ASSUME NEW d, Safe(d)
  PROVE  Safe(MergeSeed(d))
<1>1. d \in Doc /\ d.retTags \subseteq Tag /\ d.retTerms \subseteq Term
  BY DEF Safe, Doc
<1> DEFINE m == MergeSeed(d)
<1>0. /\ m \in Doc /\ m.retTags = d.retTags /\ m.retTerms = d.retTerms
      /\ \A t \in Tag : m.tags[t] = MergedTag(d, t)
      /\ \A n \in Term : m.terms[n] = MergedTerm(d, n)
      /\ \A t \in Tag : d.usage[t] = {} => m.usage[t] = {}
      /\ \A t \in CoreTag : m.tags[t].layer = "generic"
  BY <1>1, MergeType, MergeCore
<1> HIDE DEF m
<1>2. \A t \in d.retTags : MergedTag(d, t) = NoTag
  BY <1>1 DEF Safe, SafeTags, MergedTag, NoTag
<1>3. \A n \in d.retTerms : MergedTerm(d, n) = NoTerm \/ Waits(MergedTerm(d, n), n)
  <2> SUFFICES ASSUME NEW n \in d.retTerms
               PROVE  MergedTerm(d, n) = NoTerm \/ Waits(MergedTerm(d, n), n)
    OBVIOUS
  <2>1. d.terms[n] \in TermEntry /\ (d.terms[n] = NoTerm \/ Waits(d.terms[n], n))
    BY <1>1 DEF Safe, SafeTerms, Doc
  <2>2. CASE d.terms[n].layer = "absent"
    BY <2>1, <2>2 DEF MergedTerm, NoTerm
  <2>3. CASE d.terms[n].layer # "absent"
    BY <2>1, <2>3 DEF MergedTerm, NoTerm, Healed, TermEntry, Waits
  <2>4. QED  BY <2>2, <2>3
<1>4. SafeTags(m)
  BY <1>1, <1>2, <1>0 DEF SafeTags, Safe
<1>5. SafeTerms(m)
  BY <1>1, <1>3, <1>0 DEF SafeTerms
<1>6. QED  BY <1>0, <1>4, <1>5 DEF Safe, m

-----------------------------------------------------------------------------
(* One lemma per change of the document: a safe document stays safe.       *)

LEMMA ViewSafe == ASSUME NEW d \in Doc PROVE PageSafe(View(d))
<1> DEFINE gs == [t \in Tag |-> IF t \in TagsOf(d)
                              THEN [d.tags[t] EXCEPT !.status = Shown(d.tags[t])]
                              ELSE NoTag]
           ts == [n \in Term |-> IF n \in TermsOf(d)
                               THEN [d.terms[n] EXCEPT !.status = Shown(d.terms[n]), !.sources = {}]
                               ELSE NoTerm]
           us == [t \in Tag |-> {}]
<1>1. \A t \in Tag : [d.tags[t] EXCEPT !.status = Shown(d.tags[t])] \in TagEntry
  BY DEF Doc, TagEntry, Shown, Status
<1>2. \A n \in Term : [d.terms[n] EXCEPT !.status = Shown(d.terms[n]), !.sources = {}] \in TermEntry
  <2>1. \A n \in Term : d.terms[n] \in TermEntry  BY DEF Doc
  <2>2. \A m \in TermEntry : Shown(m) \in Status  BY DEF TermEntry, Shown, Status
  <2>3. \A m \in TermEntry : [m EXCEPT !.status = Shown(m), !.sources = {}] \in TermEntry
    BY <2>2 DEF TermEntry
  <2>4. QED  BY <2>1, <2>3
<1>3. gs \in [Tag -> TagEntry]
  BY <1>1, Nothing
<1>4. ts \in [Term -> TermEntry]
  BY <1>2, Nothing
<1>5. us \in [Tag -> SUBSET Term]
  OBVIOUS
<1>6. View(d) = [tags |-> gs, terms |-> ts, rules |-> d.rules, retTags |-> {},
                 retTerms |-> {}, usage |-> us]
  BY DEF View
<1> HIDE DEF gs, ts, us
<1>7. QED  BY <1>3, <1>4, <1>5, <1>6 DEF PageSafe, Doc

LEMMA ApproveTagSafe ==
  ASSUME NEW d, Safe(d), NEW t \in Tag, d.tags[t].layer = "company"
  PROVE  Safe([d EXCEPT !.tags[t] = Approved(@), !.retTags = @ \ {t}])
<1> DEFINE e == [d EXCEPT !.tags[t] = Approved(@), !.retTags = @ \ {t}]
<1>1. d \in Doc  BY DEF Safe
<1>2. Approved(d.tags[t]) \in TagEntry
  BY <1>1 DEF Approved, Doc, TagEntry, Status
<1>3. e \in Doc  BY <1>1, <1>2 DEF Doc
<1>4. SafeTags(e)  BY <1>1, Nothing DEF SafeTags, Safe, Doc
<1>5. SafeTerms(e)  BY <1>1 DEF SafeTerms, Safe, Doc
<1>6. QED  BY <1>3, <1>4, <1>5 DEF Safe

LEMMA ApproveTermSafe ==
  ASSUME NEW d, Safe(d), NEW n \in Term
  PROVE  Safe([d EXCEPT !.terms[n] = Approved(@), !.retTerms = @ \ {n}])
<1> DEFINE e == [d EXCEPT !.terms[n] = Approved(@), !.retTerms = @ \ {n}]
<1>1. d \in Doc  BY DEF Safe
<1>2. Approved(d.terms[n]) \in TermEntry
  BY <1>1 DEF Approved, Doc, TermEntry, Status
<1>3. e \in Doc  BY <1>1, <1>2 DEF Doc
<1>4. SafeTags(e)  BY <1>1 DEF SafeTags, Safe, Doc
<1>5. SafeTerms(e)  BY <1>1 DEF SafeTerms, Safe, Doc
<1>6. QED  BY <1>3, <1>4, <1>5 DEF Safe

LEMMA StrippedSafe ==
  ASSUME NEW d, Safe(d), NEW t \in Tag, t \notin CoreTag
  PROVE  Safe(Stripped(d, t))
<1> DEFINE e == Stripped(d, t)
<1> DEFINE without(x) == [x EXCEPT !.tags = x.tags \ {t}]
<1> DEFINE ts == [n \in Term |-> without(d.terms[n])]
<1> DEFINE rs == {without(r) : r \in {x \in d.rules : x.tags \ {t} # {}}}
<1>1. d \in Doc  BY DEF Safe
<1>2. ts \in [Term -> TermEntry]
  <2>1. \A n \in Term : d.terms[n] \in TermEntry  BY <1>1 DEF Doc
  <2>2. \A m \in TermEntry : without(m) \in TermEntry  BY DEF TermEntry
  <2>3. QED  BY <2>1, <2>2
<1>3. rs \subseteq Rule
  BY <1>1 DEF Doc, Rule
<1>4. \A n \in Term : /\ d.terms[n] = NoTerm => ts[n] = NoTerm
                      /\ ts[n].status = d.terms[n].status /\ ts[n].layer = d.terms[n].layer
  <2>1. \A n \in Term : d.terms[n] \in TermEntry  BY <1>1 DEF Doc
  <2>2. \A m \in TermEntry : without(m).status = m.status /\ without(m).layer = m.layer
    BY DEF TermEntry
  <2>3. without(NoTerm) = NoTerm  BY DEF NoTerm
  <2>4. QED  BY <2>1, <2>2, <2>3
<1>5. e = [d EXCEPT !.tags[t] = NoTag, !.usage[t] = {}, !.terms = ts,
                    !.rules = rs, !.retTags = d.retTags \cup {t}]
  BY DEF Stripped
<1> HIDE DEF ts, rs, e
<1>6. e \in Doc  BY <1>1, <1>2, <1>3, <1>5, Nothing DEF Doc
<1>7. SafeTags(e)  BY <1>1, <1>5, Nothing DEF SafeTags, Safe, Doc
<1>8. SafeTerms(e)  BY <1>1, <1>4, <1>5 DEF SafeTerms, Safe, Doc, Waits
<1>9. QED  BY <1>6, <1>7, <1>8 DEF Safe, e

LEMMA TombstoneSafe ==
  ASSUME NEW d, Safe(d), NEW n \in Term
  PROVE  Safe([d EXCEPT !.terms[n] = NoTerm, !.retTerms = @ \cup {n}])
<1> DEFINE e == [d EXCEPT !.terms[n] = NoTerm, !.retTerms = @ \cup {n}]
<1>1. d \in Doc  BY DEF Safe
<1>2. e \in Doc  BY <1>1, Nothing DEF Doc
<1>3. SafeTags(e)  BY <1>1 DEF SafeTags, Safe, Doc
<1>4. SafeTerms(e)  BY <1>1 DEF SafeTerms, Safe, Doc
<1>5. QED  BY <1>2, <1>3, <1>4 DEF Safe

LEMMA FoldedSafe ==
  ASSUME NEW d, Safe(d), NEW n \in Term, NEW into \in TermsOf(d), into # n
  PROVE  Safe(Folded(d, n, into))
<1> DEFINE e == Folded(d, n, into)
<1> DEFINE ts == [d.terms EXCEPT ![n] = NoTerm, ![into].aliases = @ \cup {n}]
<1>1. d \in Doc /\ into \in Term /\ d.terms[into] # NoTerm
  BY DEF Safe, TermsOf, NoTerm
<1>2. ts \in [Term -> TermEntry]
  BY <1>1, Nothing DEF Doc, TermEntry
<1>3. \A m \in Term : \/ m = n /\ ts[m] = NoTerm
                      \/ /\ m = into /\ ts[m].status = d.terms[m].status
                         /\ ts[m].layer = d.terms[m].layer
                      \/ ts[m] = d.terms[m]
  BY <1>1 DEF Doc, TermEntry
<1>4. e = [d EXCEPT !.terms = ts]
  BY DEF Folded
<1> HIDE DEF ts, e
<1>5. e \in Doc  BY <1>1, <1>2, <1>4 DEF Doc
<1>6. SafeTags(e)  BY <1>1, <1>4 DEF SafeTags, Safe, Doc
<1>7. SafeTerms(e)
  <2>1. e.retTerms = d.retTerms /\ e.terms = ts /\ d.retTerms \subseteq Term
    BY <1>1, <1>4 DEF Doc
  <2>2. \A m \in d.retTerms : d.terms[m] = NoTerm \/ Waits(d.terms[m], m)
    BY DEF Safe, SafeTerms
  <2>3. QED  BY <1>1, <1>3, <2>1, <2>2 DEF SafeTerms, Waits
<1>8. QED  BY <1>5, <1>6, <1>7 DEF Safe, e

LEMMA MovedSafe ==
  ASSUME NEW d, Safe(d), NEW from \in Term, NEW to \in Term, from # to,
         IsPending(d.terms[from])
  PROVE  Safe(Moved(d, from, to)) /\ to \in TermsOf(Moved(d, from, to))
<1> DEFINE e == Moved(d, from, to)
<1> DEFINE meta == [d.terms[from] EXCEPT !.aliases = @ \cup {from}]
<1> DEFINE ts == [d.terms EXCEPT ![from] = NoTerm, ![to] = meta]
<1>1. d \in Doc  BY DEF Safe
<1>2. meta \in TermEntry /\ meta.status = "pending" /\ meta.layer = "company"
  BY <1>1 DEF Doc, TermEntry, IsPending
<1> HIDE DEF meta
<1>3. ts \in [Term -> TermEntry]
  BY <1>1, <1>2, Nothing DEF Doc
<1>4. \A m \in Term : \/ m = from /\ ts[m] = NoTerm
                      \/ m = to /\ ts[m] = meta
                      \/ ts[m] = d.terms[m]
  BY <1>1 DEF Doc
<1>5. e = [d EXCEPT !.terms = ts]
  BY DEF Moved, meta
<1>6. ts[to] = meta
  BY <1>1 DEF Doc
<1> HIDE DEF ts, e
<1>7. e \in Doc /\ e.retTerms = d.retTerms /\ e.terms = ts /\ d.retTerms \subseteq Term
  BY <1>1, <1>3, <1>5 DEF Doc
<1>8. SafeTags(e)  BY <1>1, <1>5 DEF SafeTags, Safe, Doc
<1>9. SafeTerms(e)
  <2>1. \A m \in d.retTerms : d.terms[m] = NoTerm \/ Waits(d.terms[m], m)
    BY DEF Safe, SafeTerms
  <2>2. QED  BY <1>2, <1>4, <1>7, <2>1 DEF SafeTerms, Waits
<1>10. QED  BY <1>2, <1>6, <1>7, <1>8, <1>9 DEF Safe, e, TermsOf

LEMMA AccretedSafe ==
  ASSUME NEW d, Safe(d), NEW r \in Row, NEW canon \in Term \cup {NoName}
  PROVE  Safe(Accreted(d, r, canon))
<1> DEFINE e == Accreted(d, r, canon)
           tags == r.tags \ d.retTags
           seen(entry) == IF entry.layer = "absent" THEN Proposed(r, tags)
                     ELSE [entry EXCEPT !.sources = entry.sources \cup SourcesOf(r)]
           gs == [t \in Tag |-> IF t \in tags /\ d.tags[t].layer = "absent"
                                THEN [layer |-> "company", status |-> "pending"]
                                ELSE d.tags[t]]
           us == [t \in Tag |-> IF t \in tags /\ canon # NoName
                                  THEN d.usage[t] \cup {Fold[canon]} ELSE d.usage[t]]
           ts == [n \in Term |-> IF n = canon /\ ~r.record
                                  THEN seen(d.terms[n]) ELSE d.terms[n]]
<1>1. d \in Doc /\ r.tags \subseteq Tag /\ SourcesOf(r) \subseteq Source
  BY DEF Safe, Row, SourcesOf
<1>2. gs \in [Tag -> TagEntry]
  BY <1>1 DEF Doc, TagEntry, Layer, Status
<1>3. us \in [Tag -> SUBSET Term]
  BY <1>1, VocabularyAssumption DEF Doc
<1>4. Proposed(r, tags) \in TermEntry /\ \A n : Waits(Proposed(r, tags), n)
  BY <1>1 DEF Proposed, TermEntry, Layer, Status, Waits
<1>5. \A m \in TermEntry : /\ seen(m) \in TermEntry
                           /\ \A n : Waits(m, n) \/ m = NoTerm => Waits(seen(m), n)
  <2> SUFFICES ASSUME NEW m \in TermEntry
               PROVE  /\ seen(m) \in TermEntry
                      /\ \A n : Waits(m, n) \/ m = NoTerm => Waits(seen(m), n)
    OBVIOUS
  <2>1. CASE m.layer = "absent"
    BY <1>4, <2>1
  <2>2. CASE m.layer # "absent"
    <3>1. seen(m) = [m EXCEPT !.sources = m.sources \cup SourcesOf(r)]
      BY <2>2
    <3>2. m # NoTerm
      BY <2>2 DEF NoTerm
    <3> HIDE DEF seen
    <3>3. QED  BY <1>1, <3>1, <3>2 DEF TermEntry, Waits
  <2>3. QED  BY <2>1, <2>2
<1>6. \A n \in Term : d.terms[n] \in TermEntry
  BY <1>1 DEF Doc
<1>7. ts \in [Term -> TermEntry]
  BY <1>5, <1>6
<1>8. e = [d EXCEPT !.tags = gs, !.usage = us, !.terms = ts]
  BY DEF Accreted
<1>9. \A t \in Tag : t \in d.retTags => gs[t] = d.tags[t] /\ us[t] = d.usage[t]
  OBVIOUS
<1>10. \A t \in CoreTag : gs[t] = d.tags[t] \/ d.tags[t].layer = "absent"
  BY Nothing
<1>11. \A n \in Term : ts[n] = d.terms[n] \/ ts[n] = seen(d.terms[n])
  OBVIOUS
<1> HIDE DEF gs, us, ts, e, tags, seen
<1>12. e \in Doc /\ e.retTags = d.retTags /\ e.retTerms = d.retTerms
       /\ e.tags = gs /\ e.usage = us /\ e.terms = ts
  BY <1>1, <1>2, <1>3, <1>7, <1>8 DEF Doc
<1>13. d.retTags \subseteq Tag /\ d.retTerms \subseteq Term
  BY <1>1 DEF Doc
<1>14. SafeTags(e)
  BY <1>9, <1>10, <1>12, <1>13 DEF SafeTags, Safe
<1>15. SafeTerms(e)
  BY <1>5, <1>6, <1>11, <1>12, <1>13 DEF SafeTerms, Safe
<1>16. QED  BY <1>12, <1>14, <1>15 DEF Safe, e

LEMMA EmptyType == Empty \in Doc /\ Empty.retTags = {} /\ Empty.retTerms = {}
<1>1. [t \in Tag |-> NoTag] \in [Tag -> TagEntry] /\ [n \in Term |-> NoTerm] \in [Term -> TermEntry]
  BY Nothing
<1>2. Seed \in Doc /\ Seed.retTags = {} /\ Seed.retTerms = {}
  BY SeedType DEF Seed
<1>3. QED  BY <1>1, <1>2 DEF Empty, Doc

LEMMA ReplacementSafe ==
  ASSUME NEW d, PageSafe(d), NEW prev \in Doc
  PROVE  Safe(Replacement(d, prev))
<1> DEFINE m == MergeSeed(d)
           gs == [t \in Tag |->
                    IF /\ m.tags[t].layer = "absent"
                       /\ \/ \E r \in m.rules : t \in r.tags
                          \/ \E n \in TermsOf(m) : t \in m.terms[n].tags
                    THEN [layer |-> "company", status |-> "none"] ELSE m.tags[t]]
           doc == Required(m)
           ts == [n \in Term |->
                       IF doc.terms[n].layer # "absent"
                       THEN [doc.terms[n] EXCEPT !.sources = prev.terms[n].sources]
                       ELSE NoTerm]
           carried == [doc EXCEPT !.usage = prev.usage, !.terms = ts]
           removed == {Fold[n] : n \in {x \in TermsOf(prev) :
                                      Candidates(doc, Fold[x]) = {}}}
<1>1. /\ m \in Doc /\ m.retTags = {} /\ m.retTerms = {}
      /\ \A t \in CoreTag : m.tags[t].layer = "generic"
  BY MergeType, MergeCore DEF PageSafe
<1>2. doc = [m EXCEPT !.tags = gs]
  BY DEF Required
<1>3. Replacement(d, prev) = Remap(carried, removed)
  BY DEF Replacement
<1> HIDE DEF m
<1>4. gs \in [Tag -> TagEntry] /\ \A t \in CoreTag : gs[t].layer = "generic"
  BY <1>1, Nothing DEF Doc, TagEntry, Layer, Status
<1> HIDE DEF gs, doc
<1>5. /\ doc \in Doc /\ doc.retTags = {} /\ doc.retTerms = {}
      /\ \A t \in CoreTag : doc.tags[t].layer = "generic"
  BY <1>1, <1>2, <1>4 DEF Doc
<1>6. ts \in [Term -> TermEntry]
  <2>1. \A n \in Term : doc.terms[n] \in TermEntry /\ prev.terms[n] \in TermEntry
    BY <1>5 DEF Doc
  <2>2. \A n \in Term : [doc.terms[n] EXCEPT !.sources = prev.terms[n].sources] \in TermEntry
    BY <2>1 DEF TermEntry
  <2>3. QED  BY <2>2, Nothing
<1> HIDE DEF ts
<1>7. carried \in Doc /\ carried.retTags = {} /\ carried.retTerms = {} /\ carried.tags = doc.tags
  BY <1>5, <1>6 DEF Doc
<1>8. Safe(carried)
  BY <1>5, <1>7 DEF Safe, SafeTags, SafeTerms
<1> HIDE DEF carried, removed
<1>9. QED  BY <1>3, <1>8, RemapSafe

LEMMA ReseededSafe ==
  ASSUME NEW d \in Doc, Safe(d) \/ (d.retTags = {} /\ d.retTerms = {})
  PROVE  Safe(Reseeded(d))
<1> DEFINE e == Reseeded(d)
           gs == [t \in Tag |->
                   IF t \in SeedTag /\ ~(t \in d.retTags \ CoreTag) THEN SeedTagEntry(t)
                   ELSE IF Keeps(d.tags[t]) THEN d.tags[t] ELSE NoTag]
           ts == [n \in Term |->
                   IF n \in SeedTerm /\ n \notin d.retTerms THEN SeedTermEntry(n)
                   ELSE IF Keeps(d.terms[n]) THEN d.terms[n] ELSE NoTerm]
           us == [t \in Tag |-> {}]
           rs == SeedRules \cup
                   {r \in d.rules : /\ r.layer = "company"
                                   /\ \A s \in SeedRules : ~(s.pattern = r.pattern /\ s.tags = r.tags)}
<1>1. d.retTags \subseteq Tag /\ d.retTerms \subseteq Term
  BY DEF Doc
<1>2. gs \in [Tag -> TagEntry]
  BY Nothing DEF SeedTagEntry, TagEntry, Layer, Status, Doc
<1>3. ts \in [Term -> TermEntry]
  <2>1. \A n \in Term : SeedTermEntry(n) \in TermEntry
    BY VocabularyAssumption DEF SeedTermEntry, TermEntry, Layer, Status, SeedTag
  <2>2. QED  BY <2>1, Nothing DEF Doc
<1>4. us \in [Tag -> SUBSET Term] /\ rs \subseteq Rule
  BY VocabularyAssumption DEF Doc
<1>5. e = [tags |-> gs, terms |-> ts, rules |-> rs, retTags |-> d.retTags,
           retTerms |-> d.retTerms, usage |-> us]
  BY DEF Reseeded
<1>6. \A t \in CoreTag : gs[t].layer = "generic"
  BY VocabularyAssumption DEF SeedTagEntry, SeedTag
<1>7. \A t \in d.retTags : gs[t] = NoTag /\ us[t] = {}
  BY <1>1 DEF Safe, SafeTags, Keeps, NoTag
<1>8. \A n \in d.retTerms : ts[n] = NoTerm \/ Waits(ts[n], n)
  BY <1>1 DEF Safe, SafeTerms, Waits, Keeps, NoTerm
<1> HIDE DEF gs, ts, us, rs, e
<1>9. e \in Doc  BY <1>1, <1>2, <1>3, <1>4, <1>5 DEF Doc
<1>10. SafeTags(e)
  <2>1. \A t \in CoreTag : t \notin d.retTags
    BY DEF Safe, SafeTags
  <2>2. QED  BY <1>5, <1>6, <1>7, <2>1 DEF SafeTags
<1>11. SafeTerms(e)  BY <1>5, <1>8 DEF SafeTerms
<1>12. QED  BY <1>9, <1>10, <1>11 DEF Safe, e

-----------------------------------------------------------------------------
(* The induction.                                                          *)

LEMMA PersistSafe ==
  ASSUME IInv, NEW d, Safe(d), Persist(d), UNCHANGED <<page, zip>>
  PROVE  IInv'
BY DEF IInv, Persist

LEMMA AnswerSafe ==
  ASSUME IInv, NEW d, Safe(d), Answer(d), UNCHANGED zip
  PROVE  IInv'
<1>1. PageSafe(View(d))
  BY ViewSafe DEF Safe
<1>2. QED  BY <1>1 DEF IInv, Answer

LEMMA PrevSafe ==
  ASSUME IInv
  PROVE  \A d \in Previous : d \in Doc /\ (Safe(d) \/ (d.retTags = {} /\ d.retTerms = {}))
BY EmptyType DEF IInv, Previous, Safe

LEMMA PageStepSafe ==
  ASSUME IInv, UNCHANGED <<mem, disk, zip>>, PageSafe(page')
  PROVE  IInv'
BY DEF IInv

(* Initially nothing exists.                                               *)
LEMMA InitSafe == Init => IInv
BY DEF Init, IInv

LEMMA ReloadStep == ASSUME IInv, Reload PROVE IInv'
<1>1. CASE LoadFile
  BY <1>1, MergeSafe DEF IInv, LoadFile
<1>2. CASE LoadFresh
  BY <1>2, SeedSafe, PersistSafe DEF LoadFresh
<1>3. QED  BY <1>1, <1>2 DEF Reload

LEMMA ApproveStep == ASSUME IInv, Approve PROVE IInv'
<1>1. ASSUME NEW t \in Tag, ApproveTag(t) PROVE IInv'
  <2> DEFINE e == [mem EXCEPT !.tags[t] = Approved(@), !.retTags = @ \ {t}]
  <2>1. Safe(e)
    BY <1>1, ApproveTagSafe DEF IInv, ApproveTag
  <2>2. Answer(Remap(e, {})) /\ UNCHANGED zip
    BY <1>1 DEF ApproveTag
  <2> HIDE DEF e
  <2>3. QED  BY <2>1, <2>2, RemapSafe, AnswerSafe
<1>2. ASSUME NEW n \in Term, ApproveTerm(n) PROVE IInv'
  <2> DEFINE e == [mem EXCEPT !.terms[n] = Approved(@), !.retTerms = @ \ {n}]
  <2>1. Safe(e)
    BY <1>2, ApproveTermSafe DEF IInv, ApproveTerm
  <2>2. Answer(Remap(e, {})) /\ UNCHANGED zip
    BY <1>2 DEF ApproveTerm
  <2> HIDE DEF e
  <2>3. QED  BY <2>1, <2>2, RemapSafe, AnswerSafe
<1>3. QED  BY <1>1, <1>2 DEF Approve

LEMMA RetireStep == ASSUME IInv, Retire PROVE IInv'
<1>1. ASSUME NEW t \in Tag, RejectTag(t) PROVE IInv'
  <2>1. Safe(mem)
    BY <1>1 DEF IInv, RejectTag
  <2>2. t \notin CoreTag
    BY <1>1, <2>1 DEF RejectTag, Safe, SafeTags
  <2>3. Safe(Stripped(mem, t))
    BY <2>1, <2>2, StrippedSafe
  <2>4. Answer(Remap(Stripped(mem, t), {})) /\ UNCHANGED zip
    BY <1>1 DEF RejectTag
  <2>5. QED  BY <2>3, <2>4, RemapSafe, AnswerSafe
<1>2. ASSUME NEW n \in Term, RejectTerm(n) PROVE IInv'
  <2> DEFINE e == [mem EXCEPT !.terms[n] = NoTerm, !.retTerms = @ \cup {n}]
  <2>1. Safe(e)
    BY <1>2, TombstoneSafe DEF IInv, RejectTerm
  <2>2. Answer(Remap(e, {Fold[n]})) /\ UNCHANGED zip
    BY <1>2 DEF RejectTerm
  <2> HIDE DEF e
  <2>3. QED  BY <2>1, <2>2, RemapSafe, AnswerSafe
<1>3. ASSUME NEW n \in Term, NEW into \in Term, AliasTerm(n, into) PROVE IInv'
  <2> DEFINE f == Folded(mem, n, into)
             e == [f EXCEPT !.retTerms = @ \cup {n}]
  <2>1. Safe(f)
    BY <1>3, FoldedSafe DEF IInv, AliasTerm
  <2>2. f.terms[n] = NoTerm
    BY <1>3 DEF IInv, AliasTerm, Folded, Safe, Doc
  <2>3. Answer(Remap(e, {})) /\ UNCHANGED zip
    BY <1>3 DEF AliasTerm
  <2> HIDE DEF f
  <2>4. Safe(e)
    BY <2>1, <2>2 DEF Safe, SafeTags, SafeTerms, Doc
  <2> HIDE DEF e
  <2>5. QED  BY <2>3, <2>4, RemapSafe, AnswerSafe
<1>4. QED  BY <1>1, <1>2, <1>3 DEF Retire

LEMMA ScanStep == ASSUME IInv, Scan PROVE IInv'
<1> PICK r \in Rows, canon \in Term \cup {NoName} : Accrete(r, canon)
  BY DEF Scan
<1>1. Safe(Accreted(mem, r, canon))
  BY AccretedSafe, InputAssumption DEF IInv, Accrete
<1>2. QED  BY <1>1, PersistSafe DEF Accrete

LEMMA RefreshStep == ASSUME IInv, Refresh PROVE IInv'
<1> PICK r \in Rows, n \in Term :
      RefreshPruned(r, n) \/ RefreshKnown(r, n) \/ RefreshRenamed(r, n)
  BY DEF Refresh
<1>1. CASE RefreshPruned(r, n)
  <2> DEFINE e == [mem EXCEPT !.terms[n] = NoTerm, !.retTerms = @ \cup {n}]
  <2>1. Safe(e)
    BY <1>1, TombstoneSafe DEF IInv, RefreshPruned
  <2>2. Persist(Remap(e, {Fold[n]})) /\ UNCHANGED <<page, zip>>
    BY <1>1 DEF RefreshPruned, Tombstoned
  <2> HIDE DEF e
  <2>3. QED  BY <2>1, <2>2, RemapSafe, PersistSafe
<1>2. CASE RefreshKnown(r, n)
  <2> DEFINE name == Recased(mem, n, r.term)
             d == IF name = n THEN mem ELSE Moved(mem, n, name)
  <2>1. Safe(mem) /\ mem \in Doc /\ r.term \in Term /\ n \in TermsOf(mem)
    BY <1>2, InputAssumption DEF IInv, RefreshKnown, Row, Safe, Candidates
  <2>2. name \in Term /\ (name # n => IsPending(mem.terms[n]))
    BY <2>1 DEF Recased
  <2>3. Safe(d) /\ name \in TermsOf(d)
    BY <2>1, <2>2, MovedSafe
  <2>4. \/ Persist(d)
        \/ \E stale \in PendingFrom(mem, r.source) \ {n, name} : Persist(Folded(d, stale, name))
    BY <1>2 DEF RefreshKnown
  <2>5. UNCHANGED <<page, zip>>
    BY <1>2 DEF RefreshKnown
  <2> HIDE DEF d, name
  <2>6. CASE Persist(d)
    BY <2>3, <2>5, <2>6, PersistSafe
  <2>7. ASSUME NEW stale \in PendingFrom(mem, r.source) \ {n, name},
               Persist(Folded(d, stale, name))
        PROVE  IInv'
    <3>1. stale \in Term /\ stale # name
      BY DEF PendingFrom, TermsOf
    <3>2. Safe(Folded(d, stale, name))
      BY <2>3, <3>1, FoldedSafe
    <3>3. QED  BY <2>5, <2>7, <3>2, PersistSafe
  <2>8. QED  BY <2>4, <2>6, <2>7
<1>3. CASE RefreshRenamed(r, n)
  <2>1. Safe(mem) /\ r.term \in Term /\ IsPending(mem.terms[n]) /\ n \in TermsOf(mem)
    BY <1>3, InputAssumption DEF IInv, RefreshRenamed, Row, PendingFrom
  <2>2. r.term # n
    BY <1>3, <2>1 DEF RefreshRenamed, Candidates
  <2>3. Safe(Moved(mem, n, r.term))
    BY <2>1, <2>2, MovedSafe
  <2>4. QED  BY <1>3, <2>3, PersistSafe DEF RefreshRenamed
<1>4. QED  BY <1>1, <1>2, <1>3

LEMMA EditStep == ASSUME IInv, Edit PROVE IInv'
<1>1. CASE OpenPage
  BY <1>1, ViewSafe, PageStepSafe DEF OpenPage, IInv, Safe
<1>2. ASSUME NEW x \in NewTerms, AddTerm(x) PROVE IInv'
  <2> DEFINE entry == [layer |-> "company", status |-> "approved", tags |-> x.tags,
                       aliases |-> x.aliases, sources |-> {}]
  <2>1. PageSafe(page) /\ x.name \in Term /\ entry \in TermEntry
    BY <1>2, InputAssumption DEF AddTerm, IInv, TermEntry, Layer, Status
  <2>2. page' = [page EXCEPT !.terms[x.name] = entry] /\ UNCHANGED <<mem, disk, zip>>
    BY <1>2 DEF AddTerm
  <2> HIDE DEF entry
  <2>3. PageSafe(page')
    BY <2>1, <2>2 DEF PageSafe, Doc
  <2>4. QED  BY <2>2, <2>3, PageStepSafe
<1>3. ASSUME NEW t \in NewTags, AddTag(t) PROVE IInv'
  <2>1. PageSafe(page) /\ t \in Tag /\ UNCHANGED <<mem, disk, zip>>
    BY <1>3, InputAssumption DEF AddTag, IInv
  <2>2. [layer |-> "company", status |-> "approved"] \in TagEntry
    BY DEF TagEntry, Layer, Status
  <2>3. PageSafe(page')
    BY <1>3, <2>1, <2>2 DEF AddTag, PageSafe, Doc
  <2>4. QED  BY <2>1, <2>3, PageStepSafe
<1>4. ASSUME NEW r \in NewRules, AddRule(r) PROVE IInv'
  <2> DEFINE gs == [t \in Tag |-> IF t \in r.tags /\ page.tags[t].layer = "absent"
                                 THEN [layer |-> "company", status |-> "none"]
                                 ELSE page.tags[t]]
  <2>1. PageSafe(page) /\ r \in Rule /\ UNCHANGED <<mem, disk, zip>>
    BY <1>4, InputAssumption DEF AddRule, IInv
  <2>2. gs \in [Tag -> TagEntry]
    BY <2>1 DEF PageSafe, Doc, TagEntry, Layer, Status
  <2>3. page' = [page EXCEPT !.rules = @ \cup {r}, !.tags = gs]
    BY <1>4 DEF AddRule
  <2> HIDE DEF gs
  <2>4. PageSafe(page')
    BY <2>1, <2>2, <2>3 DEF PageSafe, Doc
  <2>5. QED  BY <2>1, <2>4, PageStepSafe
<1>5. QED  BY <1>1, <1>2, <1>3, <1>4 DEF Edit

LEMMA SaveStep == ASSUME IInv, Save PROVE IInv'
<1> PICK prev \in Previous : Answer(Replacement(page, prev))
  BY DEF Save
<1>1. PageSafe(page) /\ prev \in Doc
  BY PrevSafe DEF Save, IInv
<1>2. Safe(Replacement(page, prev))
  BY <1>1, ReplacementSafe
<1>3. QED  BY <1>2, AnswerSafe DEF Save

LEMMA ResetStep == ASSUME IInv, Reset PROVE IInv'
<1> PICK prev \in Previous : Answer(Reseeded(prev))
  BY DEF Reset
<1>1. Safe(Reseeded(prev))
  BY PrevSafe, ReseededSafe
<1>2. QED  BY <1>1, AnswerSafe DEF Reset

LEMMA StepSafe == ASSUME IInv, [Next]_vars PROVE IInv'
<1>1. CASE Reload     BY <1>1, ReloadStep
<1>2. CASE Approve    BY <1>2, ApproveStep
<1>3. CASE Retire     BY <1>3, RetireStep
<1>4. CASE Scan       BY <1>4, ScanStep
<1>5. CASE Refresh    BY <1>5, RefreshStep
<1>6. CASE Edit       BY <1>6, EditStep
<1>7. CASE Save       BY <1>7, SaveStep
<1>8. CASE Reset      BY <1>8, ResetStep
<1>9. CASE Restart    BY <1>9 DEF IInv, Restart
<1>10. CASE Snapshot  BY <1>10 DEF IInv, Snapshot
<1>11. CASE Restore   BY <1>11 DEF IInv, Restore
<1>12. CASE FactoryReset  BY <1>12 DEF IInv, FactoryReset
<1>13. CASE UNCHANGED vars  BY <1>13 DEF IInv, vars
<1>14. QED
  BY <1>1, <1>2, <1>3, <1>4, <1>5, <1>6, <1>7, <1>8, <1>9, <1>10, <1>11,
     <1>12, <1>13 DEF Next

(* Every document the app serves, stores, snapshots or restores is safe,   *)
(* for every vocabulary: tombstones of the file stay effective through     *)
(* load(), scans, corrections, saves, reseeds and crashes.                 *)
THEOREM DocumentsStaySafe == Spec => []IInv
<1>1. Init => IInv
  BY InitSafe
<1>2. IInv /\ [Next]_vars => IInv'
  BY StepSafe
<1>3. QED  BY <1>1, <1>2, PTL DEF Spec

(* The documents keep their shape.                                         *)
THEOREM TypeCorrect == Spec => []TypeOK
<1>1. IInv => TypeOK
  BY DEF IInv, TypeOK, Safe, PageSafe
<1>2. QED  BY <1>1, DocumentsStaySafe, PTL

(* The core baseline is always served: no retirement, stale save, restore  *)
(* or wipe removes a core tag or makes it anything but generic.            *)
THEOREM CoreAlwaysServed == Spec => []CoreServed
<1>1. IInv => CoreServed
  BY DEF IInv, CoreServed, Safe, SafeTags
<1>2. QED  BY <1>1, DocumentsStaySafe, PTL

(* A tag under a tombstone is in no allow-list and counts no usage.        *)
THEOREM RetiredTagsAreGone == Spec => []RetiredTagsStayOut
<1>1. IInv => RetiredTagsStayOut
  BY DEF IInv, RetiredTagsStayOut, Safe, SafeTags
<1>2. QED  BY <1>1, DocumentsStaySafe, PTL

(* A term under a tombstone governs only as a term of the baseline that a  *)
(* scan has proposed again, and not by a steward's approval (accrete,      *)
(* review, _merge_seed).                                                   *)
THEOREM RetiredTermsStayUnapproved == Spec => []RetiredTermsUnapproved
<1>1. IInv => RetiredTermsUnapproved
  BY DEF IInv, RetiredTermsUnapproved, Safe, SafeTerms, Waits, Governs, NoTerm
<1>2. QED  BY <1>1, DocumentsStaySafe, PTL

(* A reseed keeps every approved company entry governing, keeps every      *)
(* tombstone and leaves nothing pending (reset's contract).                *)
THEOREM ReseedKeepsTheApproved == Spec => ReseedKeepsApproved
<1> DEFINE Kept ==
      /\ mem'.retTags = mem.retTags /\ mem'.retTerms = mem.retTerms
      /\ \A t \in Tag : /\ Keeps(mem.tags[t]) => Governs(mem'.tags[t])
                        /\ ~IsPending(mem'.tags[t])
      /\ \A n \in Term : /\ Keeps(mem.terms[n]) => Governs(mem'.terms[n])
                         /\ ~IsPending(mem'.terms[n])
<1>1. Reset /\ mem # NoDoc => Kept
  <2> SUFFICES ASSUME Reset, mem # NoDoc PROVE Kept
    OBVIOUS
  <2>1. mem' = Reseeded(mem)
    BY DEF Reset, Previous, Answer
  <2>2. \A t \in Tag : Governs(SeedTagEntry(t)) /\ ~IsPending(SeedTagEntry(t))
    BY DEF SeedTagEntry, Governs, IsPending
  <2>3. \A n \in Term : Governs(SeedTermEntry(n)) /\ ~IsPending(SeedTermEntry(n))
    BY DEF SeedTermEntry, Governs, IsPending
  <2>4. \A m : Keeps(m) => Governs(m) /\ ~IsPending(m)
    BY DEF Keeps, Governs, IsPending
  <2>5. ~IsPending(NoTag) /\ ~IsPending(NoTerm)
    BY DEF IsPending, NoTag, NoTerm
  <2>6. mem'.retTags = mem.retTags /\ mem'.retTerms = mem.retTerms
    BY <2>1 DEF Reseeded
  <2>7. \A t \in Tag : mem'.tags[t] = SeedTagEntry(t)
                      \/ mem'.tags[t] = (IF Keeps(mem.tags[t]) THEN mem.tags[t] ELSE NoTag)
    BY <2>1 DEF Reseeded
  <2>8. \A n \in Term : mem'.terms[n] = SeedTermEntry(n)
                       \/ mem'.terms[n] = (IF Keeps(mem.terms[n]) THEN mem.terms[n] ELSE NoTerm)
    BY <2>1 DEF Reseeded
  <2>9. QED  BY <2>2, <2>3, <2>4, <2>5, <2>6, <2>7, <2>8
<1>2. QED  BY <1>1, PTL DEF Spec, ReseedKeepsApproved

(* What a save makes of a page is closed whatever the previous document:   *)
(* the guard-rail adds every tag the merged page needs, and carrying over  *)
(* sources and usage adds no tag.                                          *)
LEMMA ReplacementClosed ==
  ASSUME NEW d \in Doc, NEW prev \in Doc
  PROVE  VocabularyClosed(Replacement(d, prev))
<1> DEFINE m == MergeSeed(d)
           gs == [t \in Tag |->
                    IF /\ m.tags[t].layer = "absent"
                       /\ \/ \E r \in m.rules : t \in r.tags
                          \/ \E n \in TermsOf(m) : t \in m.terms[n].tags
                    THEN [layer |-> "company", status |-> "none"] ELSE m.tags[t]]
           doc == Required(m)
           ts == [n \in Term |->
                       IF doc.terms[n].layer # "absent"
                       THEN [doc.terms[n] EXCEPT !.sources = prev.terms[n].sources]
                       ELSE NoTerm]
           carried == [doc EXCEPT !.usage = prev.usage, !.terms = ts]
           removed == {Fold[n] : n \in {x \in TermsOf(prev) :
                                      Candidates(doc, Fold[x]) = {}}}
<1>1. m \in Doc
  BY MergeType
<1>2. doc = [m EXCEPT !.tags = gs]
  BY DEF Required
<1>3. Replacement(d, prev) = Remap(carried, removed)
  BY DEF Replacement
<1> HIDE DEF m
<1>4. gs \in [Tag -> TagEntry]
  BY <1>1, Nothing DEF Doc, TagEntry, Layer, Status
<1>5. \A t \in Tag : \/ \E r \in m.rules : t \in r.tags
                     \/ \E n \in TermsOf(m) : t \in m.terms[n].tags
                     => gs[t].layer # "absent"
  OBVIOUS
<1> HIDE DEF gs, doc
<1>6. doc \in Doc /\ doc.tags = gs /\ doc.rules = m.rules /\ doc.terms = m.terms
  BY <1>1, <1>2, <1>4 DEF Doc
<1>7. \A n \in Term : doc.terms[n] \in TermEntry /\ prev.terms[n] \in TermEntry
  BY <1>6 DEF Doc
<1>8. \A n \in Term : /\ ts[n] \in TermEntry
                      /\ ts[n].layer # "absent" => /\ doc.terms[n].layer # "absent"
                                                   /\ ts[n].tags = doc.terms[n].tags
  <2>1. \A e, f \in TermEntry : LET g == [e EXCEPT !.sources = f.sources]
                                IN  g \in TermEntry /\ g.layer = e.layer /\ g.tags = e.tags
    BY DEF TermEntry
  <2>2. NoTerm.layer = "absent"
    BY DEF NoTerm
  <2>3. QED  BY <1>7, <2>1, <2>2, Nothing
<1>9. ts \in [Term -> TermEntry]
  BY <1>8
<1> HIDE DEF ts
<1>10. carried \in Doc /\ carried.tags = gs /\ carried.rules = m.rules /\ carried.terms = ts
  BY <1>6, <1>9 DEF Doc
<1> HIDE DEF carried, removed
<1>11. LET e == Replacement(d, prev) IN e.tags = gs /\ e.rules = m.rules /\ e.terms = ts
  BY <1>3, <1>10, RemapType
<1>12. \A r \in m.rules : r.tags \subseteq Tag
  BY <1>1 DEF Doc, Rule
<1>13. \A n \in Term : doc.terms[n].tags \subseteq Tag
  BY <1>7 DEF TermEntry
<1>14. QED  BY <1>5, <1>6, <1>8, <1>11, <1>12, <1>13 DEF VocabularyClosed, TagsOf, TermsOf

(* A save leaves no rule and no term that emits a tag outside the          *)
(* allow-list, whatever page it was made on and whatever the previous      *)
(* document was (_guardrail).                                              *)
THEOREM SavesCloseTheVocabulary == Spec => SaveClosesVocabulary
<1>1. IInv /\ Save => VocabularyClosed(mem')
  <2> SUFFICES ASSUME IInv, Save PROVE VocabularyClosed(mem')
    OBVIOUS
  <2>1. PICK prev \in Previous : Answer(Replacement(page, prev))
    BY DEF Save
  <2>2. page \in Doc /\ prev \in Doc
    BY PrevSafe DEF Save, IInv, PageSafe
  <2>3. QED  BY <2>1, <2>2, ReplacementClosed DEF Answer
<1>2. QED  BY <1>1, DocumentsStaySafe, PTL DEF SaveClosesVocabulary
=============================================================================
