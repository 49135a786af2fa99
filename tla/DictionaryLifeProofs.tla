------------------------ MODULE DictionaryLifeProofs ------------------------
(***************************************************************************)
(* What becomes of a steward's decisions, for every vocabulary: they are   *)
(* in the file, they last, nothing else governs, and the dictionary        *)
(* implements VocabularyLife.  Each theorem names, as its hypotheses, the  *)
(* operations it rules out and the rows it does not expect.                *)
(***************************************************************************)
EXTENDS DictionaryRefinement, DictionaryProofs

(* What an instance leaves out.                                            *)
WritesSucceed  == "diskfull" \notin Ops
FileIsReadable == "unreadable" \notin Ops
NoSave         == "save" \notin Ops
SaveOrRefresh  == NoSave \/ "refresh" \notin Ops
NoReplace      == NoSave /\ "snapshot" \notin Ops /\ "wipe" \notin Ops

(* No row is named as a term of the generic baseline.                      *)
NoBaselineRows == \A r \in Rows : r.term \notin GenericTerm

-----------------------------------------------------------------------------
(* A document as the load-time merge leaves it alone: what it lacks of the *)
(* seed is under a tombstone, what it has of it has the seed's layer.  And *)
(* unless a save has erased the tombstones: only the baseline is generic,  *)
(* and seeded vocabulary waits for approval only after a retirement.       *)
SettledTag(e, tombs, t) ==
  /\ t \in SeedTag =>
       IF e.layer = "absent" THEN t \in tombs
       ELSE IF t \in GenericTag THEN e.layer = "generic"
       ELSE e.layer = "company" /\ e.status # "none"
  /\ NoSave => /\ e.layer = "generic" => t \in GenericTag
               /\ t \in SeedTag => ~IsPending(e)

SettledTerm(e, tombs, n) ==
  /\ e.layer = "absent" => e = NoTerm
  /\ n \in SeedTerm =>
       IF e.layer = "absent" THEN n \in tombs
       ELSE n \notin GenericTerm => e.layer = "company" /\ e.status # "none"
  /\ NoSave =>
       /\ e.layer = "generic" => n \in GenericTerm
       /\ n \in SeedTerm /\ IsPending(e) => n \in tombs
       /\ NoBaselineRows => /\ n \in tombs => e.layer # "generic"
                            /\ n \in GenericTerm => e.layer \in {"absent", "generic"}

(* A proposal shares its name with no other entry, whatever the case.      *)
PendingAlone(d) ==
  \A m, n \in TermsOf(d) : IsPending(d.terms[m]) /\ Fold[m] = Fold[n] => m = n

Settled(d) ==
  /\ \A t \in Tag : SettledTag(d.tags[t], d.retTags, t)
  /\ \A n \in Term : SettledTerm(d.terms[n], d.retTerms, n)
  /\ NoSave => PendingAlone(d)

(* While writes succeed the document served is the one in the file, but    *)
(* for terms the merge has healed and no request has written back.         *)
SameLife(d, file) ==
  /\ d.tags = file.tags /\ d.retTags = file.retTags /\ d.retTerms = file.retTerms
  /\ \A n \in Term : d.terms[n] = file.terms[n] \/ d.terms[n] = MergedTerm(file, n)

LifeInv ==
  /\ mem # NoDoc => /\ Settled(mem)
                    /\ WritesSucceed => disk # NoDoc /\ SameLife(mem, disk)
  /\ disk # NoDoc => Settled(disk)
  /\ zip # NoDoc => Settled(zip)

-----------------------------------------------------------------------------
(* What keeps a document settled, entry by entry.                          *)

MarkKept(e, f) == /\ f.layer = e.layer /\ f.status = e.status
                  /\ e = NoTerm => f = NoTerm

LEMMA SettledKept ==
  ASSUME NEW e, NEW f, NEW n, NEW tombs, SettledTerm(e, tombs, n), MarkKept(e, f)
  PROVE  SettledTerm(f, tombs, n)
BY DEF SettledTerm, MarkKept, IsPending

LEMMA SettledNone ==
  /\ \A tombs, t : t \in tombs \/ t \notin SeedTag => SettledTag(NoTag, tombs, t)
  /\ \A tombs, n : n \in tombs \/ n \notin SeedTerm => SettledTerm(NoTerm, tombs, n)
BY DEF SettledTag, SettledTerm, NoTag, NoTerm, IsPending

LEMMA SettledSame ==
  ASSUME NEW d, NEW e, Settled(d), e.tags = d.tags, e.terms = d.terms,
         e.retTags = d.retTags, e.retTerms = d.retTerms
  PROVE  Settled(e)
BY DEF Settled, PendingAlone, TermsOf

LEMMA SettledRemap ==
  ASSUME NEW d \in Doc, Settled(d), NEW dropped
  PROVE  Settled(Remap(d, dropped))
BY RemapType, SettledSame

LEMMA AloneKept ==
  ASSUME NEW d, NEW e, PendingAlone(d),
         \A n \in TermsOf(e) : /\ n \in TermsOf(d)
                               /\ IsPending(e.terms[n]) => IsPending(d.terms[n])
  PROVE  PendingAlone(e)
BY DEF PendingAlone

-----------------------------------------------------------------------------
(* The load-time merge of a settled document: the tags are what they were, *)
(* and so are the terms unless a row was named as a term of the baseline.  *)

LEMMA MergeTagsSame ==
  ASSUME NEW d, Safe(d), Settled(d)
  PROVE  MergeSeed(d).tags = d.tags
<1>1. d \in Doc /\ MergeSeed(d) \in Doc
  BY MergeType DEF Safe
<1>2. ASSUME NEW t \in Tag PROVE MergedTag(d, t) = d.tags[t]
  <2>1. /\ d.tags[t] \in TagEntry /\ SettledTag(d.tags[t], d.retTags, t)
        /\ t \in d.retTags => t \notin CoreTag /\ d.tags[t] = NoTag
    BY <1>1 DEF Doc, Settled, Safe, SafeTags
  <2>2. CASE t \notin SeedTag
    BY <2>2 DEF MergedTag
  <2>3. CASE t \in SeedTag /\ d.tags[t].layer = "absent"
    BY <2>1, <2>3 DEF MergedTag, SettledTag
  <2>4. CASE t \in SeedTag /\ d.tags[t].layer # "absent"
    <3>1. MergedTag(d, t) = Healed(d.tags[t], t \in GenericTag)
      BY <2>4 DEF MergedTag
    <3>2. \A e \in TagEntry : /\ e.layer = "generic" => [e EXCEPT !.layer = "generic"] = e
                              /\ e.layer = "company" /\ e.status # "none" =>
                                   [e EXCEPT !.layer = "company",
                                             !.status = IF @ = "none" THEN "approved" ELSE @] = e
      BY DEF TagEntry
    <3>3. QED  BY <2>1, <2>4, <3>1, <3>2 DEF Healed, SettledTag
  <2>5. QED  BY <2>2, <2>3, <2>4
<1>3. MergeSeed(d).tags \in [Tag -> TagEntry] /\ d.tags \in [Tag -> TagEntry]
  BY <1>1 DEF Doc
<1>4. \A t \in Tag : MergeSeed(d).tags[t] = d.tags[t]
  BY <1>1, <1>2, MergeType
<1>5. QED  BY <1>3, <1>4

LEMMA MergedTermIs ==
  ASSUME NEW d, d \in Doc, Settled(d), NEW n \in Term
  PROVE  \/ MergedTerm(d, n) = d.terms[n]
         \/ /\ n \in GenericTerm /\ d.terms[n].layer = "company"
            /\ MergedTerm(d, n).layer = "generic"
            /\ MergedTerm(d, n).status = d.terms[n].status
            /\ MergedTerm(d, n).aliases = d.terms[n].aliases
<1>1. d.terms[n] \in TermEntry /\ SettledTerm(d.terms[n], d.retTerms, n)
  BY DEF Doc, Settled
<1>2. CASE n \notin SeedTerm
  BY <1>2 DEF MergedTerm
<1>3. CASE n \in SeedTerm /\ d.terms[n].layer = "absent"
  BY <1>1, <1>3 DEF MergedTerm, SettledTerm
<1>4. CASE n \in SeedTerm /\ d.terms[n].layer # "absent"
  <2>1. MergedTerm(d, n) = Healed(d.terms[n], n \in GenericTerm)
    BY <1>4 DEF MergedTerm
  <2>2. \A e \in TermEntry :
          /\ e.layer = "generic" => [e EXCEPT !.layer = "generic"] = e
          /\ [e EXCEPT !.layer = "generic"].layer = "generic"
          /\ [e EXCEPT !.layer = "generic"].status = e.status
          /\ [e EXCEPT !.layer = "generic"].aliases = e.aliases
          /\ e.layer = "company" /\ e.status # "none" =>
               [e EXCEPT !.layer = "company",
                         !.status = IF @ = "none" THEN "approved" ELSE @] = e
    BY DEF TermEntry
  <2>3. CASE n \in GenericTerm
    <3>1. MergedTerm(d, n) = [d.terms[n] EXCEPT !.layer = "generic"]
      BY <2>1, <2>3 DEF Healed
    <3>2. d.terms[n].layer \in {"generic", "company"}
      BY <1>1, <1>4 DEF TermEntry, Layer
    <3>3. QED  BY <1>1, <2>2, <2>3, <3>1, <3>2
  <2>4. CASE n \notin GenericTerm
    <3>1. d.terms[n].layer = "company" /\ d.terms[n].status # "none"
      BY <1>1, <1>4, <2>4 DEF SettledTerm
    <3>2. MergedTerm(d, n) = [d.terms[n] EXCEPT !.layer = "company",
                                !.status = IF @ = "none" THEN "approved" ELSE @]
      BY <2>1, <2>4 DEF Healed
    <3>3. QED  BY <1>1, <2>2, <3>1, <3>2
  <2>5. QED  BY <2>3, <2>4
<1>5. QED  BY <1>2, <1>3, <1>4

LEMMA MergeTermsSame ==
  ASSUME NoSave, NoBaselineRows, NEW d, d \in Doc, Settled(d)
  PROVE  \A n \in Term : MergedTerm(d, n) = d.terms[n]
<1>1. \A n \in Term : n \in GenericTerm => d.terms[n].layer # "company"
  BY DEF Settled, SettledTerm
<1>2. QED  BY <1>1, MergedTermIs

LEMMA MergeSettled ==
  ASSUME NEW d, Safe(d), Settled(d)
  PROVE  Settled(MergeSeed(d))
<1> DEFINE m == MergeSeed(d)
<1>1. /\ d \in Doc /\ m \in Doc /\ m.tags = d.tags
      /\ m.retTags = d.retTags /\ m.retTerms = d.retTerms
      /\ \A n \in Term : m.terms[n] = MergedTerm(d, n)
  BY MergeType, MergeTagsSame DEF Safe
<1> HIDE DEF m
<1>2. ASSUME NEW n \in Term PROVE SettledTerm(m.terms[n], m.retTerms, n)
  <2>1. SettledTerm(d.terms[n], d.retTerms, n)
    BY DEF Settled
  <2>2. CASE m.terms[n] = d.terms[n]
    BY <1>1, <2>1, <2>2
  <2>3. CASE /\ n \in GenericTerm /\ d.terms[n].layer = "company"
             /\ m.terms[n].layer = "generic"
    BY <1>1, <2>1, <2>3 DEF SettledTerm, IsPending
  <2>4. QED  BY <1>1, <2>2, <2>3, MergedTermIs
<1>3. ASSUME NoSave PROVE PendingAlone(m)
  <2>1. \A n \in TermsOf(m) : /\ n \in TermsOf(d)
                              /\ IsPending(m.terms[n]) => IsPending(d.terms[n])
    BY <1>1, MergedTermIs DEF TermsOf, IsPending
  <2>2. QED  BY <1>3, <2>1, AloneKept DEF Settled
<1>4. \A t \in Tag : SettledTag(m.tags[t], m.retTags, t)
  BY <1>1 DEF Settled
<1>5. QED  BY <1>2, <1>3, <1>4 DEF Settled, m

-----------------------------------------------------------------------------
(* One lemma per change of the document: a settled document stays settled. *)

LEMMA SeedSettled == Settled(Seed)
<1>1. \A t \in Tag : SettledTag(Seed.tags[t], {}, t)
  BY VocabularyAssumption DEF Seed, SeedTagEntry, SeedTag, SettledTag, NoTag, IsPending
<1>2. \A n \in Term : SettledTerm(Seed.terms[n], {}, n)
  BY VocabularyAssumption DEF Seed, SeedTermEntry, SeedTerm, SettledTerm, NoTerm, IsPending
<1>3. \A n \in Term : ~IsPending(Seed.terms[n])
  BY DEF Seed, SeedTermEntry, NoTerm, IsPending
<1>4. Seed.retTags = {} /\ Seed.retTerms = {}
  BY DEF Seed
<1>5. PendingAlone(Seed)
  BY <1>3 DEF PendingAlone, TermsOf
<1>6. /\ \A t \in Tag : SettledTag(Seed.tags[t], Seed.retTags, t)
      /\ \A n \in Term : SettledTerm(Seed.terms[n], Seed.retTerms, n)
  BY <1>1, <1>2, <1>4 DEF SettledTag, SettledTerm
<1>7. QED  BY <1>5, <1>6 DEF Settled

LEMMA ApproveTagSettled ==
  ASSUME NEW d \in Doc, Settled(d), NEW t \in Tag, d.tags[t].layer = "company"
  PROVE  Settled([d EXCEPT !.tags[t] = Approved(@), !.retTags = @ \ {t}])
<1> DEFINE e == [d EXCEPT !.tags[t] = Approved(@), !.retTags = @ \ {t}]
<1>1. /\ e.tags = [d.tags EXCEPT ![t] = Approved(@)] /\ e.retTags = d.retTags \ {t}
      /\ e.terms = d.terms /\ e.retTerms = d.retTerms
  BY DEF Doc
<1> HIDE DEF e
<1>2. /\ d.tags[t] \in TagEntry /\ SettledTag(d.tags[t], d.retTags, t)
      /\ e.tags[t] = Approved(d.tags[t]) /\ \A x \in Tag \ {t} : e.tags[x] = d.tags[x]
  BY <1>1 DEF Doc, Settled
<1>3. e.tags[t].layer = "company" /\ e.tags[t].status = "approved"
  BY <1>2 DEF Approved, TagEntry
<1>4. SettledTag(e.tags[t], {}, t)
  BY <1>2, <1>3 DEF SettledTag, IsPending
<1>5. \A x \in Tag : SettledTag(e.tags[x], e.retTags, x)
  BY <1>1, <1>2, <1>4 DEF Settled, SettledTag
<1>6. QED  BY <1>1, <1>5 DEF Settled, PendingAlone, TermsOf, e

LEMMA ApproveTermSettled ==
  ASSUME NEW d \in Doc, Settled(d), NEW n \in Term, d.terms[n].layer = "company"
  PROVE  Settled([d EXCEPT !.terms[n] = Approved(@), !.retTerms = @ \ {n}])
<1> DEFINE e == [d EXCEPT !.terms[n] = Approved(@), !.retTerms = @ \ {n}]
<1>1. /\ e.terms = [d.terms EXCEPT ![n] = Approved(@)] /\ e.retTerms = d.retTerms \ {n}
      /\ e.tags = d.tags /\ e.retTags = d.retTags
  BY DEF Doc
<1> HIDE DEF e
<1>2. /\ d.terms[n] \in TermEntry /\ SettledTerm(d.terms[n], d.retTerms, n)
      /\ e.terms[n] = Approved(d.terms[n]) /\ \A x \in Term \ {n} : e.terms[x] = d.terms[x]
  BY <1>1 DEF Doc, Settled
<1>3. e.terms[n].layer = "company" /\ e.terms[n].status = "approved"
  BY <1>2 DEF Approved, TermEntry
<1>4. SettledTerm(e.terms[n], {}, n)
  BY <1>2, <1>3 DEF SettledTerm, IsPending
<1>5. \A x \in Term : SettledTerm(e.terms[x], e.retTerms, x)
  BY <1>1, <1>2, <1>4 DEF Settled, SettledTerm
<1>6. NoSave => PendingAlone(e)
  <2>1. \A x \in TermsOf(e) : /\ x \in TermsOf(d)
                              /\ IsPending(e.terms[x]) => IsPending(d.terms[x])
    BY <1>2, <1>3 DEF TermsOf, IsPending
  <2>2. QED  BY <2>1, AloneKept DEF Settled
<1>7. QED  BY <1>1, <1>5, <1>6 DEF Settled, e

(* The terms of a document from which a tag is stripped keep their marks.  *)
LEMMA StrippedIs ==
  ASSUME NEW d \in Doc, NEW t \in Tag
  PROVE  LET e == Stripped(d, t)
         IN  /\ e.tags = [d.tags EXCEPT ![t] = NoTag] /\ e.retTags = d.retTags \cup {t}
             /\ e.retTerms = d.retTerms
             /\ \A n \in Term : /\ MarkKept(d.terms[n], e.terms[n])
                               /\ e.terms[n].aliases = d.terms[n].aliases
             /\ \A x \in Tag : e.usage[x] \subseteq d.usage[x]
<1> DEFINE without(x) == [x EXCEPT !.tags = x.tags \ {t}]
           ts == [n \in Term |-> without(d.terms[n])]
           rs == {without(r) : r \in {x \in d.rules : x.tags \ {t} # {}}}
<1>1. Stripped(d, t) = [d EXCEPT !.tags[t] = NoTag, !.usage[t] = {}, !.terms = ts,
                                 !.rules = rs, !.retTags = d.retTags \cup {t}]
  BY DEF Stripped
<1>2. \A n \in Term : MarkKept(d.terms[n], ts[n]) /\ ts[n].aliases = d.terms[n].aliases
  <2>1. \A n \in Term : d.terms[n] \in TermEntry  BY DEF Doc
  <2>2. \A m \in TermEntry : /\ without(m).status = m.status /\ without(m).layer = m.layer
                            /\ without(m).aliases = m.aliases
    BY DEF TermEntry
  <2>3. without(NoTerm) = NoTerm  BY DEF NoTerm
  <2>4. QED  BY <2>1, <2>2, <2>3 DEF MarkKept
<1> HIDE DEF ts, rs
<1>3. QED  BY <1>1, <1>2 DEF Doc

LEMMA StrippedSettled ==
  ASSUME NEW d \in Doc, Settled(d), NEW t \in Tag
  PROVE  Settled(Stripped(d, t))
<1> DEFINE e == Stripped(d, t)
<1>1. /\ e.tags = [d.tags EXCEPT ![t] = NoTag] /\ e.retTags = d.retTags \cup {t}
      /\ e.retTerms = d.retTerms
      /\ \A n \in Term : MarkKept(d.terms[n], e.terms[n])
  BY StrippedIs
<1> HIDE DEF e
<1>2. \A x \in Tag : SettledTag(e.tags[x], e.retTags, x)
  <2>2. e.tags[t] = NoTag /\ t \in e.retTags
    BY <1>1 DEF Doc
  <2>3. ASSUME NEW x \in Tag \ {t} PROVE SettledTag(e.tags[x], e.retTags, x)
    <3>1. e.tags[x] = d.tags[x] /\ SettledTag(d.tags[x], d.retTags, x)
      BY <1>1 DEF Settled, Doc
    <3>2. x \in e.retTags <=> x \in d.retTags
      BY <1>1
    <3>3. QED  BY <3>1, <3>2 DEF SettledTag
  <2>4. SettledTag(e.tags[t], e.retTags, t)
    BY <2>2, SettledNone
  <2>5. QED  BY <2>3, <2>4
<1>3. \A n \in Term : SettledTerm(e.terms[n], e.retTerms, n)
  BY <1>1, SettledKept DEF Settled
<1>4. NoSave => PendingAlone(e)
  <2>1. \A n \in TermsOf(e) : /\ n \in TermsOf(d)
                              /\ IsPending(e.terms[n]) => IsPending(d.terms[n])
    BY <1>1 DEF TermsOf, IsPending, MarkKept
  <2>2. QED  BY <2>1, AloneKept DEF Settled
<1>5. QED  BY <1>2, <1>3, <1>4 DEF Settled, e

(* A document that loses the entry of n, under a tombstone, and otherwise  *)
(* keeps the marks of its terms.                                           *)
LEMMA DroppedSettled ==
  ASSUME NEW d \in Doc, Settled(d), NEW e, NEW n \in Term,
         e.tags = d.tags, e.retTags = d.retTags, e.retTerms = d.retTerms \cup {n},
         e.terms[n] = NoTerm, \A m \in Term \ {n} : MarkKept(d.terms[m], e.terms[m])
  PROVE  Settled(e)
<1>1. \A t \in Tag : SettledTag(e.tags[t], e.retTags, t)
  BY DEF Settled
<1>2. ASSUME NEW m \in Term \ {n} PROVE SettledTerm(e.terms[m], e.retTerms, m)
  <2>1. SettledTerm(e.terms[m], d.retTerms, m)
    BY SettledKept DEF Settled
  <2>2. m \in e.retTerms <=> m \in d.retTerms
    OBVIOUS
  <2>3. QED  BY <2>1, <2>2 DEF SettledTerm
<1>3. SettledTerm(e.terms[n], e.retTerms, n)
  BY SettledNone
<1>4. NoSave => PendingAlone(e)
  <2>1. \A m \in TermsOf(e) : /\ m \in TermsOf(d)
                              /\ IsPending(e.terms[m]) => IsPending(d.terms[m])
    BY DEF TermsOf, IsPending, MarkKept, NoTerm
  <2>2. QED  BY <2>1, AloneKept DEF Settled
<1>5. QED  BY <1>1, <1>2, <1>3, <1>4 DEF Settled

LEMMA FoldedIs ==
  ASSUME NEW d \in Doc, NEW n \in Term, NEW into \in TermsOf(d), into # n
  PROVE  LET e == Folded(d, n, into)
         IN  /\ e \in Doc /\ e.tags = d.tags /\ e.retTags = d.retTags
             /\ e.retTerms = d.retTerms
             /\ e.terms[n] = NoTerm /\ MarkKept(d.terms[into], e.terms[into])
             /\ e.terms[into].aliases = d.terms[into].aliases \cup {n}
             /\ e.usage = d.usage
             /\ \A m \in Term \ {n, into} : e.terms[m] = d.terms[m]
<1> DEFINE ts == [d.terms EXCEPT ![n] = NoTerm, ![into].aliases = @ \cup {n}]
<1>1. into \in Term /\ d.terms[into] \in TermEntry /\ d.terms[into] # NoTerm
  BY DEF TermsOf, Doc, NoTerm
<1>2. Folded(d, n, into) = [d EXCEPT !.terms = ts]
  BY DEF Folded
<1>3. /\ ts \in [Term -> TermEntry] /\ ts[n] = NoTerm
      /\ ts[into] = [d.terms[into] EXCEPT !.aliases = @ \cup {n}]
      /\ \A m \in Term \ {n, into} : ts[m] = d.terms[m]
  BY <1>1, Nothing DEF Doc, TermEntry
<1>4. /\ MarkKept(d.terms[into], ts[into])
      /\ ts[into].aliases = d.terms[into].aliases \cup {n}
  BY <1>1, <1>3 DEF MarkKept, TermEntry
<1> HIDE DEF ts
<1>5. QED  BY <1>2, <1>3, <1>4 DEF Doc

(* What accrete() makes of the entries of one row.                         *)
LEMMA AccretedIs ==
  ASSUME NEW d \in Doc, NEW r \in Row, NEW canon \in Term \cup {NoName}
  PROVE  LET e == Accreted(d, r, canon)
         IN  /\ e.retTags = d.retTags /\ e.retTerms = d.retTerms
             /\ e.tags = [t \in Tag |->
                  IF t \in r.tags \ d.retTags /\ d.tags[t].layer = "absent"
                  THEN [layer |-> "company", status |-> "pending"] ELSE d.tags[t]]
             /\ \A n \in Term :
                  IF n # canon \/ r.record THEN e.terms[n] = d.terms[n]
                  ELSE IF d.terms[n].layer = "absent"
                  THEN IsPending(e.terms[n]) /\ e.terms[n].aliases = {}
                  ELSE /\ MarkKept(d.terms[n], e.terms[n])
                       /\ e.terms[n].aliases = d.terms[n].aliases
<1> DEFINE tags == r.tags \ d.retTags
           seen(entry) == IF entry.layer = "absent" THEN Proposed(r, tags)
                     ELSE [entry EXCEPT !.sources = entry.sources \cup SourcesOf(r)]
           gs == [t \in Tag |-> IF t \in tags /\ d.tags[t].layer = "absent"
                                THEN [layer |-> "company", status |-> "pending"]
                                ELSE d.tags[t]]
           us == [t \in Tag |-> IF t \in tags /\ canon # NoName
                                  THEN d.usage[t] \cup {Fold[canon]} ELSE d.usage[t]]
           ts == [n \in Term |-> IF n = canon /\ ~r.record
                                  THEN seen(d.terms[n]) ELSE d.terms[n]]
<1>1. Accreted(d, r, canon) = [d EXCEPT !.tags = gs, !.usage = us, !.terms = ts]
  BY DEF Accreted
<1>2. \A n \in Term : IF n # canon \/ r.record THEN ts[n] = d.terms[n]
                      ELSE ts[n] = seen(d.terms[n])
  BY DEF Row
<1>3. ASSUME NEW n \in Term
      PROVE  IF d.terms[n].layer = "absent"
             THEN IsPending(seen(d.terms[n])) /\ seen(d.terms[n]).aliases = {}
             ELSE /\ MarkKept(d.terms[n], seen(d.terms[n]))
                  /\ seen(d.terms[n]).aliases = d.terms[n].aliases
  <2>1. d.terms[n] \in TermEntry  BY DEF Doc
  <2>2. CASE d.terms[n].layer = "absent"
    BY <2>2 DEF IsPending, Proposed
  <2>3. CASE d.terms[n].layer # "absent"
    BY <2>1, <2>3 DEF MarkKept, TermEntry, NoTerm
  <2>4. QED  BY <2>2, <2>3
<1> HIDE DEF seen, us, ts
<1>4. \A n \in Term : IF n # canon \/ r.record THEN ts[n] = d.terms[n]
                      ELSE IF d.terms[n].layer = "absent"
                      THEN IsPending(ts[n]) /\ ts[n].aliases = {}
                      ELSE /\ MarkKept(d.terms[n], ts[n])
                           /\ ts[n].aliases = d.terms[n].aliases
  BY <1>2, <1>3
<1>5. LET e == Accreted(d, r, canon)
      IN  e.retTags = d.retTags /\ e.retTerms = d.retTerms /\ e.tags = gs /\ e.terms = ts
  BY <1>1 DEF Doc
<1>6. QED  BY <1>4, <1>5

LEMMA AccretedSettled ==
  ASSUME NEW d, Safe(d), Settled(d), NEW r \in Row, r \in Rows,
         NEW canon \in Term \cup {NoName},
         r.term = NoName => canon = NoName,
         r.term # NoName => canon \in Canonical(d, r.term)
  PROVE  Settled(Accreted(d, r, canon))
<1> DEFINE e == Accreted(d, r, canon)
<1>1. /\ e.retTags = d.retTags /\ e.retTerms = d.retTerms
      /\ e.tags = [t \in Tag |->
           IF t \in r.tags \ d.retTags /\ d.tags[t].layer = "absent"
           THEN [layer |-> "company", status |-> "pending"] ELSE d.tags[t]]
      /\ \A n \in Term :
           IF n # canon \/ r.record THEN e.terms[n] = d.terms[n]
           ELSE IF d.terms[n].layer = "absent"
           THEN IsPending(e.terms[n]) /\ e.terms[n].aliases = {}
           ELSE /\ MarkKept(d.terms[n], e.terms[n])
                /\ e.terms[n].aliases = d.terms[n].aliases
  <2>1. d \in Doc
    BY DEF Safe
  <2>2. QED  BY <2>1, AccretedIs
<1> HIDE DEF e
<1>2. d \in Doc /\ NoName \notin Term
  BY NullAssumption DEF Safe
<1>3. ASSUME NEW t \in Tag PROVE SettledTag(e.tags[t], e.retTags, t)
  <2>1. SettledTag(d.tags[t], d.retTags, t)
    BY DEF Settled
  <2>2. CASE e.tags[t] = d.tags[t]
    BY <1>1, <2>1, <2>2
  <2>3. CASE /\ t \notin d.retTags /\ d.tags[t].layer = "absent"
             /\ e.tags[t] = [layer |-> "company", status |-> "pending"]
    <3>1. t \notin SeedTag
      BY <2>1, <2>3 DEF SettledTag
    <3>2. QED  BY <2>3, <3>1 DEF SettledTag, SeedTag
  <2>4. QED  BY <1>1, <2>2, <2>3
(* A proposal that is new has a name no entry claims.                      *)
<1>4. ASSUME NEW n \in Term, n = canon, d.terms[n].layer = "absent"
      PROVE  n = r.term /\ Candidates(d, Fold[n]) = {}
  BY <1>2, <1>4 DEF Canonical, Candidates, TermsOf
<1>5. ASSUME NEW n \in Term PROVE SettledTerm(e.terms[n], e.retTerms, n)
  <2>1. SettledTerm(d.terms[n], d.retTerms, n)
    BY DEF Settled
  <2>2. CASE e.terms[n] = d.terms[n]
    BY <1>1, <2>1, <2>2
  <2>3. CASE MarkKept(d.terms[n], e.terms[n])
    BY <1>1, <2>1, <2>3, SettledKept
  <2>4. CASE n = canon /\ d.terms[n].layer = "absent" /\ IsPending(e.terms[n])
    <3>1. NoBaselineRows => n \notin GenericTerm
      BY <1>4, <2>4 DEF NoBaselineRows
    <3>2. n \in SeedTerm => n \in d.retTerms
      BY <2>1, <2>4 DEF SettledTerm
    <3>3. QED  BY <1>1, <2>4, <3>1, <3>2 DEF SettledTerm, IsPending
  <2>5. QED  BY <1>1, <2>2, <2>3, <2>4
<1>6. NoSave => PendingAlone(e)
  <2> SUFFICES ASSUME PendingAlone(d), NEW m \in TermsOf(e), NEW n \in TermsOf(e),
                      IsPending(e.terms[m]), Fold[m] = Fold[n]
               PROVE  m = n
    BY DEF PendingAlone, Settled
  <2>1. \A x \in TermsOf(e) : /\ x \in Term
                              /\ x \in TermsOf(d) \/ (x = canon /\ d.terms[x].layer = "absent")
    BY <1>1 DEF TermsOf
  <2>2. \A x \in TermsOf(d) : x \in Term /\ (IsPending(e.terms[x]) => IsPending(d.terms[x]))
    BY <1>1 DEF TermsOf, MarkKept, IsPending
  <2>3. CASE m \in TermsOf(d) /\ n \in TermsOf(d)
    BY <2>2, <2>3 DEF PendingAlone
  <2>4. ASSUME NEW x \in Term, x = canon, d.terms[x].layer = "absent",
               NEW y \in TermsOf(d)
        PROVE  Fold[x] # Fold[y]
    BY <1>4, <2>4 DEF Candidates
  <2>5. QED  BY <2>1, <2>3, <2>4
<1>7. QED  BY <1>3, <1>5, <1>6 DEF Settled, e

-----------------------------------------------------------------------------
(* A correction of the Review grid: the pending entries olds give way to   *)
(* the entry called name, which is there already or takes a free name of a *)
(* row.                                                                    *)
Corrected(d, e, olds, name) ==
  /\ e \in Doc /\ olds # {} /\ olds \subseteq Term /\ name \in Term \ olds
  /\ e.tags = d.tags /\ e.retTags = d.retTags /\ e.retTerms = d.retTerms
  /\ \A m \in olds : IsPending(d.terms[m]) /\ e.terms[m] = NoTerm
  /\ \A m \in Term \ (olds \cup {name}) : e.terms[m] = d.terms[m]
  /\ \/ name \in TermsOf(d) /\ MarkKept(d.terms[name], e.terms[name])
     \/ /\ IsPending(e.terms[name])
        /\ \A x \in TermsOf(d) : Fold[x] = Fold[name] => x \in olds
        /\ \E r \in Rows : r.term = name

LEMMA CorrectedSettled ==
  ASSUME NoSave, NEW d \in Doc, Settled(d), NEW e, NEW olds, NEW name,
         Corrected(d, e, olds, name)
  PROVE  Settled(e)
<1>1. \A t \in Tag : SettledTag(e.tags[t], e.retTags, t)
  BY DEF Settled, Corrected
<1>2. ASSUME NEW n \in Term PROVE SettledTerm(e.terms[n], e.retTerms, n)
  <2>1. SettledTerm(d.terms[n], d.retTerms, n) /\ e.retTerms = d.retTerms
    BY DEF Settled, Corrected
  <2>2. CASE n \in olds
    <3>1. IsPending(d.terms[n]) /\ e.terms[n] = NoTerm
      BY <2>2 DEF Corrected
    <3>2. n \in SeedTerm => n \in d.retTerms
      BY <2>1, <3>1 DEF SettledTerm
    <3>3. QED  BY <2>1, <3>1, <3>2, SettledNone
  <2>3. CASE n \notin olds \cup {name}
    BY <2>1, <2>3 DEF Corrected
  <2>4. CASE n = name /\ MarkKept(d.terms[n], e.terms[n])
    BY <2>1, <2>4, SettledKept
  <2>5. CASE /\ n = name /\ IsPending(e.terms[n])
             /\ \A x \in TermsOf(d) : Fold[x] = Fold[name] => x \in olds
             /\ \E r \in Rows : r.term = name
    <3>1. n \notin TermsOf(d)
      BY <2>5 DEF Corrected
    <3>2. n \in SeedTerm => n \in d.retTerms
      BY <2>1, <3>1 DEF SettledTerm, TermsOf
    <3>3. NoBaselineRows => n \notin GenericTerm
      BY <2>5 DEF NoBaselineRows
    <3>4. QED  BY <2>1, <2>5, <3>2, <3>3 DEF SettledTerm, IsPending
  <2>6. QED  BY <2>2, <2>3, <2>4, <2>5 DEF Corrected
<1>3. PendingAlone(e)
  <2> SUFFICES ASSUME NEW m \in TermsOf(e), NEW n \in TermsOf(e),
                      IsPending(e.terms[m]), Fold[m] = Fold[n]
               PROVE  m = n
    BY DEF PendingAlone
  <2>1. PendingAlone(d) /\ NoTerm.layer = "absent"
    BY DEF Settled, NoTerm
  <2>2. m \in Term \ olds /\ n \in Term \ olds
    BY <2>1 DEF Corrected, TermsOf
  <2>3. \A x \in Term \ olds : /\ x # name => e.terms[x] = d.terms[x]
    BY DEF Corrected
  <2>4. CASE name \in TermsOf(d) /\ MarkKept(d.terms[name], e.terms[name])
    <3>1. \A x \in {m, n} : /\ x \in TermsOf(d)
                            /\ IsPending(e.terms[x]) => IsPending(d.terms[x])
      BY <2>2, <2>3, <2>4 DEF MarkKept, IsPending, TermsOf
    <3>2. QED  BY <2>1, <3>1 DEF PendingAlone
  <2>5. CASE \A x \in TermsOf(d) : Fold[x] = Fold[name] => x \in olds
    <3>1. \A x \in {m, n} : x # name => /\ x \in TermsOf(d)
                                        /\ IsPending(e.terms[x]) => IsPending(d.terms[x])
      BY <2>2, <2>3 DEF TermsOf
    <3>2. \A x \in {m, n} : x # name => Fold[x] # Fold[name]
      BY <2>2, <2>5, <3>1
    <3>3. QED  BY <2>1, <3>1, <3>2 DEF PendingAlone
  <2>6. QED  BY <2>4, <2>5 DEF Corrected
<1>4. QED  BY <1>1, <1>2, <1>3 DEF Settled

LEMMA MovedIs ==
  ASSUME NEW d \in Doc, NEW from \in Term, NEW to \in Term, from # to,
         IsPending(d.terms[from])
  PROVE  LET e == Moved(d, from, to)
         IN  /\ e \in Doc /\ e.tags = d.tags /\ e.retTags = d.retTags
             /\ e.retTerms = d.retTerms
             /\ e.terms[from] = NoTerm /\ IsPending(e.terms[to]) /\ to \in TermsOf(e)
             /\ e.terms[to].aliases = d.terms[from].aliases \cup {from}
             /\ \A m \in Term \ {from, to} : e.terms[m] = d.terms[m]
<1> DEFINE meta == [d.terms[from] EXCEPT !.aliases = @ \cup {from}]
           ts == [d.terms EXCEPT ![from] = NoTerm, ![to] = meta]
<1>1. /\ meta \in TermEntry /\ meta.status = "pending" /\ meta.layer = "company"
      /\ meta.aliases = d.terms[from].aliases \cup {from}
  BY DEF Doc, TermEntry, IsPending
<1>2. Moved(d, from, to) = [d EXCEPT !.terms = ts]
  BY DEF Moved
<1> HIDE DEF meta
<1>3. /\ ts \in [Term -> TermEntry] /\ ts[from] = NoTerm /\ ts[to] = meta
      /\ \A m \in Term \ {from, to} : ts[m] = d.terms[m]
  BY <1>1, Nothing DEF Doc
<1> HIDE DEF ts
<1>4. QED  BY <1>1, <1>2, <1>3 DEF Doc, IsPending, TermsOf

LEMMA ReseededSettled ==
  ASSUME NEW d \in Doc, Safe(d) \/ (d.retTags = {} /\ d.retTerms = {})
  PROVE  Settled(Reseeded(d))
<1> DEFINE e == Reseeded(d)
<1>1. /\ e.retTags = d.retTags /\ e.retTerms = d.retTerms
      /\ \A t \in Tag : e.tags[t] =
           IF t \in SeedTag /\ ~(t \in d.retTags \ CoreTag) THEN SeedTagEntry(t)
           ELSE IF Keeps(d.tags[t]) THEN d.tags[t] ELSE NoTag
      /\ \A n \in Term : e.terms[n] =
           IF n \in SeedTerm /\ n \notin d.retTerms THEN SeedTermEntry(n)
           ELSE IF Keeps(d.terms[n]) THEN d.terms[n] ELSE NoTerm
  BY DEF Reseeded
<1> HIDE DEF e
<1>2. /\ \A t \in d.retTags : t \notin CoreTag /\ ~Keeps(d.tags[t])
      /\ \A n \in d.retTerms : ~Keeps(d.terms[n])
  BY DEF Safe, SafeTags, SafeTerms, Waits, Keeps, NoTag, NoTerm
<1>3. ASSUME NEW t \in Tag PROVE SettledTag(e.tags[t], e.retTags, t)
  <2>1. CASE t \in SeedTag /\ ~(t \in d.retTags \ CoreTag)
    <3>1. e.tags[t] = SeedTagEntry(t)
      BY <1>1, <2>1
    <3>2. QED  BY <2>1, <3>1, VocabularyAssumption
               DEF SettledTag, SeedTagEntry, SeedTag, IsPending
  <2>2. CASE t \in d.retTags
    <3>1. e.tags[t] = NoTag
      BY <1>1, <1>2, <2>2
    <3>2. QED  BY <1>1, <2>2, <3>1, SettledNone
  <2>3. CASE t \notin SeedTag
    <3>1. Keeps(e.tags[t]) \/ e.tags[t] = NoTag
      BY <1>1, <2>3
    <3>2. QED  BY <2>3, <3>1 DEF SettledTag, Keeps, NoTag
  <2>4. QED  BY <2>1, <2>2, <2>3
<1>4. ASSUME NEW n \in Term PROVE SettledTerm(e.terms[n], e.retTerms, n)
  <2>1. CASE n \in SeedTerm /\ n \notin d.retTerms
    <3>1. e.terms[n] = SeedTermEntry(n)
      BY <1>1, <2>1
    <3>2. QED  BY <1>1, <2>1, <3>1, VocabularyAssumption
               DEF SettledTerm, SeedTermEntry, SeedTerm, IsPending
  <2>2. CASE n \in d.retTerms
    <3>1. e.terms[n] = NoTerm
      BY <1>1, <1>2, <2>2
    <3>2. QED  BY <1>1, <2>2, <3>1, SettledNone
  <2>3. CASE n \notin SeedTerm /\ n \notin d.retTerms
    <3>1. Keeps(e.terms[n]) \/ e.terms[n] = NoTerm
      BY <1>1, <2>3
    <3>2. n \notin GenericTerm
      BY <2>3 DEF SeedTerm
    <3>3. QED  BY <1>1, <2>3, <3>1, <3>2 DEF SettledTerm, Keeps, NoTerm
  <2>4. QED  BY <2>1, <2>2, <2>3
<1>5. PendingAlone(e)
  <2>1. \A n \in Term : \/ e.terms[n] = SeedTermEntry(n) \/ e.terms[n] = NoTerm
                       \/ Keeps(e.terms[n])
    BY <1>1
  <2>2. \A n \in Term : ~IsPending(SeedTermEntry(n))
    BY DEF SeedTermEntry, IsPending
  <2>3. \A n \in Term : ~IsPending(e.terms[n])
    BY <2>1, <2>2 DEF Keeps, NoTerm, IsPending
  <2>4. QED  BY <2>3 DEF PendingAlone, TermsOf
<1>6. QED  BY <1>3, <1>4, <1>5 DEF Settled, e

(* A document without tombstones gets the whole seed, in the seed's layer. *)
LEMMA MergedSeed ==
  ASSUME NEW d \in Doc, d.retTags = {}, d.retTerms = {}
  PROVE  /\ \A t \in SeedTag :
              IF t \in GenericTag THEN MergedTag(d, t).layer = "generic"
              ELSE MergedTag(d, t).layer = "company" /\ MergedTag(d, t).status # "none"
         /\ \A n \in SeedTerm :
              IF n \in GenericTerm THEN MergedTerm(d, n).layer = "generic"
              ELSE MergedTerm(d, n).layer = "company" /\ MergedTerm(d, n).status # "none"
<1> DEFINE generic(e) == [e EXCEPT !.layer = "generic"]
           company(e) == [e EXCEPT !.layer = "company",
                                   !.status = IF @ = "none" THEN "approved" ELSE @]
<1>1. \A e \in TagEntry \cup TermEntry : /\ generic(e).layer = "generic"
                                        /\ company(e).layer = "company"
                                        /\ company(e).status # "none"
  BY DEF TagEntry, TermEntry
<1> HIDE DEF generic, company
<1>2. ASSUME NEW t \in SeedTag
      PROVE  IF t \in GenericTag THEN MergedTag(d, t).layer = "generic"
             ELSE MergedTag(d, t).layer = "company" /\ MergedTag(d, t).status # "none"
  <2>1. d.tags[t] \in TagEntry
    BY Nothing DEF Doc
  <2>2. CASE d.tags[t].layer = "absent"
    BY <2>2 DEF MergedTag, SeedTagEntry
  <2>3. CASE d.tags[t].layer # "absent" /\ t \in GenericTag
    <3>1. MergedTag(d, t) = generic(d.tags[t])
      BY <2>3 DEF MergedTag, Healed, generic
    <3>2. QED  BY <1>1, <2>1, <2>3, <3>1
  <2>4. CASE d.tags[t].layer # "absent" /\ t \notin GenericTag
    <3>1. MergedTag(d, t) = company(d.tags[t])
      BY <2>4 DEF MergedTag, Healed, company
    <3>2. QED  BY <1>1, <2>1, <2>4, <3>1
  <2>5. QED  BY <2>2, <2>3, <2>4
<1>3. ASSUME NEW n \in SeedTerm
      PROVE  IF n \in GenericTerm THEN MergedTerm(d, n).layer = "generic"
             ELSE MergedTerm(d, n).layer = "company" /\ MergedTerm(d, n).status # "none"
  <2>1. d.terms[n] \in TermEntry
    BY VocabularyAssumption DEF Doc, SeedTerm
  <2>2. CASE d.terms[n].layer = "absent"
    BY <2>2 DEF MergedTerm, SeedTermEntry
  <2>3. CASE d.terms[n].layer # "absent" /\ n \in GenericTerm
    <3>1. MergedTerm(d, n) = generic(d.terms[n])
      BY <2>3 DEF MergedTerm, Healed, generic
    <3>2. QED  BY <1>1, <2>1, <2>3, <3>1
  <2>4. CASE d.terms[n].layer # "absent" /\ n \notin GenericTerm
    <3>1. MergedTerm(d, n) = company(d.terms[n])
      BY <2>4 DEF MergedTerm, Healed, company
    <3>2. QED  BY <1>1, <2>1, <2>4, <3>1
  <2>5. QED  BY <2>2, <2>3, <2>4
<1>4. QED  BY <1>2, <1>3

LEMMA ReplacementSettled ==
  ASSUME ~NoSave, NEW d, PageSafe(d), NEW prev \in Doc
  PROVE  Settled(Replacement(d, prev))
<1> DEFINE m == MergeSeed(d)
           gs == [t \in Tag |->
                    IF /\ m.tags[t].layer = "absent"
                       /\ \/ \E r \in m.rules : t \in r.tags
                          \/ \E n \in TermsOf(m) : t \in m.terms[n].tags
                    THEN [layer |-> "company", status |-> "none"] ELSE m.tags[t]]
           doc == Required(m)
           ts == [n \in Term |->
                       IF doc.terms[n].layer # "absent"
                       THEN [doc.terms[n] EXCEPT !.sources = prev.terms[n].sources]
                       ELSE NoTerm]
           carried == [doc EXCEPT !.usage = prev.usage, !.terms = ts]
           removed == {Fold[n] : n \in {x \in TermsOf(prev) :
                                      Candidates(doc, Fold[x]) = {}}}
<1>1. /\ d \in Doc /\ m \in Doc /\ d.retTags = {} /\ d.retTerms = {}
      /\ m.retTags = {} /\ m.retTerms = {}
      /\ \A t \in Tag : m.tags[t] = MergedTag(d, t)
      /\ \A n \in Term : m.terms[n] = MergedTerm(d, n)
  BY MergeType DEF PageSafe
<1>2. doc = [m EXCEPT !.tags = gs]
  BY DEF Required
<1>3. Replacement(d, prev) = Remap(carried, removed)
  BY DEF Replacement
<1> HIDE DEF m
<1>4. gs \in [Tag -> TagEntry]
  BY <1>1, Nothing DEF Doc, TagEntry, Layer, Status
<1>5. \A t \in Tag : m.tags[t].layer # "absent" => gs[t] = m.tags[t]
  OBVIOUS
<1> HIDE DEF gs, doc
<1>6. /\ doc \in Doc /\ doc.tags = gs /\ doc.terms = m.terms
      /\ doc.retTags = {} /\ doc.retTerms = {}
  BY <1>1, <1>2, <1>4 DEF Doc
<1>7. \A n \in Term : doc.terms[n] \in TermEntry /\ prev.terms[n] \in TermEntry
  BY <1>6 DEF Doc
<1>8. \A n \in Term : /\ ts[n] \in TermEntry
                      /\ ts[n].layer = doc.terms[n].layer
                      /\ ts[n].layer = "absent" => ts[n] = NoTerm
                      /\ ts[n].layer # "absent" => ts[n].status = doc.terms[n].status
  <2>1. \A e, f \in TermEntry : LET g == [e EXCEPT !.sources = f.sources]
                                IN  g \in TermEntry /\ g.layer = e.layer /\ g.status = e.status
    BY DEF TermEntry
  <2>2. NoTerm.layer = "absent"
    BY DEF NoTerm
  <2>3. QED  BY <1>7, <2>1, <2>2, Nothing
<1>9. ts \in [Term -> TermEntry]
  BY <1>8
<1> HIDE DEF ts
<1>10. /\ carried \in Doc /\ carried.tags = gs /\ carried.terms = ts
       /\ carried.retTags = {} /\ carried.retTerms = {}
  BY <1>6, <1>9 DEF Doc
<1> HIDE DEF carried, removed
<1>11. LET e == Replacement(d, prev) IN /\ e.tags = gs /\ e.terms = ts
                                        /\ e.retTags = {} /\ e.retTerms = {}
  BY <1>3, <1>10, RemapType
<1>12. ASSUME NEW t \in Tag PROVE SettledTag(gs[t], {}, t)
  <2>1. CASE t \in SeedTag
    <3>3. IF t \in GenericTag THEN MergedTag(d, t).layer = "generic"
          ELSE MergedTag(d, t).layer = "company" /\ MergedTag(d, t).status # "none"
      BY <1>1, <2>1, MergedSeed
    <3>4. gs[t] = MergedTag(d, t)
      BY <1>1, <1>5, <3>3
    <3>5. QED  BY <3>3, <3>4 DEF SettledTag
  <2>2. CASE t \notin SeedTag
    BY <2>2 DEF SettledTag
  <2>3. QED  BY <2>1, <2>2
<1>13. ASSUME NEW n \in Term PROVE SettledTerm(ts[n], {}, n)
  <2>1. CASE n \in SeedTerm
    <3>3. IF n \in GenericTerm THEN MergedTerm(d, n).layer = "generic"
          ELSE MergedTerm(d, n).layer = "company" /\ MergedTerm(d, n).status # "none"
      BY <1>1, <2>1, MergedSeed
    <3>4. QED  BY <1>1, <1>6, <1>8, <3>3 DEF SettledTerm
  <2>2. CASE n \notin SeedTerm
    BY <1>8, <2>2 DEF SettledTerm
  <2>3. QED  BY <2>1, <2>2
<1>14. QED  BY <1>11, <1>12, <1>13 DEF Settled

-----------------------------------------------------------------------------
(* What the requests make of the document.                                 *)

LEMMA PruneIs ==
  ASSUME IInv, NEW r, NEW n \in Term, RefreshPruned(r, n)
  PROVE  /\ mem' \in Doc /\ IsPending(mem.terms[n])
         /\ mem'.tags = mem.tags /\ mem'.retTags = mem.retTags
         /\ mem'.retTerms = mem.retTerms \cup {n}
         /\ mem'.terms = [mem.terms EXCEPT ![n] = NoTerm]
<1> DEFINE e == [mem EXCEPT !.terms[n] = NoTerm, !.retTerms = @ \cup {n}]
<1>1. mem \in Doc /\ Safe(e)
  BY TombstoneSafe DEF IInv, RefreshPruned, Safe
<1>2. /\ e.tags = mem.tags /\ e.retTags = mem.retTags
      /\ e.retTerms = mem.retTerms \cup {n}
      /\ e.terms = [mem.terms EXCEPT ![n] = NoTerm]
  BY <1>1 DEF Doc
<1>3. mem' = Remap(e, {Fold[n]})
  BY DEF RefreshPruned, Tombstoned, Persist
<1> HIDE DEF e
<1>4. QED  BY <1>1, <1>2, <1>3, RemapType DEF Safe, RefreshPruned

LEMMA RefreshIs ==
  ASSUME IInv, mem # NoDoc, PendingAlone(mem), NEW r \in Rows, NEW n \in Term,
         RefreshKnown(r, n) \/ RefreshRenamed(r, n)
  PROVE  \E olds, name : Corrected(mem, mem', olds, name)
<1>1. mem \in Doc /\ r.term \in Term /\ r \in Row
  BY InputAssumption DEF IInv, Safe, RefreshKnown, RefreshRenamed, Row
<1>2. CASE RefreshRenamed(r, n)
  <2>1. /\ IsPending(mem.terms[n]) /\ Candidates(mem, Fold[r.term]) = {}
        /\ n \in TermsOf(mem)
    BY <1>2 DEF RefreshRenamed, PendingFrom
  <2>2. r.term # n
    BY <1>1, <2>1 DEF Candidates
  <2>3. mem' = Moved(mem, n, r.term)
    BY <1>2 DEF RefreshRenamed, Persist
  <2>4. \A x \in TermsOf(mem) : Fold[x] # Fold[r.term]
    BY <1>1, <2>1 DEF Candidates
  <2>5. Corrected(mem, mem', {n}, r.term)
    BY <1>1, <2>1, <2>2, <2>3, <2>4, MovedIs DEF Corrected
  <2>6. QED  BY <2>5
<1>3. CASE RefreshKnown(r, n)
  <2> DEFINE name == Recased(mem, n, r.term)
             d == IF name = n THEN mem ELSE Moved(mem, n, name)
  <2>1. n \in TermsOf(mem)
    BY <1>3 DEF RefreshKnown, Candidates
  <2>2. \/ name = n
        \/ name # n /\ name = r.term /\ Fold[name] = Fold[n] /\ IsPending(mem.terms[n])
    BY DEF Recased
  <2>3. \/ name # n /\ mem' = d
        \/ \E stale \in PendingFrom(mem, r.source) \ {n, name} : mem' = Folded(d, stale, name)
    BY <1>3 DEF RefreshKnown, Persist
  <2>4. d = IF name = n THEN mem ELSE Moved(mem, n, name)
    OBVIOUS
  <2> HIDE DEF name, d
  <2>5. CASE name = n
    <3>1. PICK stale \in PendingFrom(mem, r.source) \ {n} : mem' = Folded(mem, stale, n)
      BY <2>3, <2>4, <2>5
    <3>2. stale \in Term /\ IsPending(mem.terms[stale]) /\ stale # n
      BY DEF PendingFrom, TermsOf
    <3>3. Corrected(mem, mem', {stale}, n)
      BY <1>1, <2>1, <3>1, <3>2, FoldedIs DEF Corrected
    <3>4. QED  BY <3>3
  <2>6. CASE name # n
    <3>1. /\ name = r.term /\ Fold[name] = Fold[n] /\ IsPending(mem.terms[n])
          /\ d = Moved(mem, n, name)
      BY <2>2, <2>4, <2>6
    <3>2. /\ d \in Doc /\ d.tags = mem.tags /\ d.retTags = mem.retTags
          /\ d.retTerms = mem.retTerms
          /\ d.terms[n] = NoTerm /\ IsPending(d.terms[name]) /\ name \in TermsOf(d)
          /\ \A m \in Term \ {n, name} : d.terms[m] = mem.terms[m]
      BY <1>1, <2>6, <3>1, MovedIs
    <3>3. \A x \in TermsOf(mem) : Fold[x] = Fold[name] => x = n
      BY <2>1, <3>1 DEF PendingAlone
    <3>4. CASE mem' = d
      <4>1. Corrected(mem, mem', {n}, name)
        BY <1>1, <2>6, <3>1, <3>2, <3>3, <3>4 DEF Corrected
      <4>2. QED  BY <4>1
    <3>5. ASSUME NEW stale \in PendingFrom(mem, r.source) \ {n, name},
                 mem' = Folded(d, stale, name)
          PROVE  \E olds, x : Corrected(mem, mem', olds, x)
      <4>1. stale \in Term /\ IsPending(mem.terms[stale]) /\ stale # n /\ stale # name
        BY DEF PendingFrom, TermsOf
      <4>2. /\ mem'.tags = mem.tags /\ mem'.retTags = mem.retTags
            /\ mem'.retTerms = mem.retTerms /\ mem' \in Doc
            /\ mem'.terms[stale] = NoTerm /\ MarkKept(d.terms[name], mem'.terms[name])
            /\ \A m \in Term \ {stale, name} : mem'.terms[m] = d.terms[m]
        BY <3>2, <3>5, <4>1, FoldedIs
      <4>3. IsPending(mem'.terms[name]) /\ mem'.terms[n] = NoTerm
        BY <2>6, <3>2, <4>1, <4>2 DEF MarkKept, IsPending
      <4>4. Corrected(mem, mem', {n, stale}, name)
        BY <1>1, <2>6, <3>1, <3>2, <3>3, <4>1, <4>2, <4>3 DEF Corrected
      <4>5. QED  BY <4>4
    <3>6. QED  BY <2>3, <2>6, <3>4, <3>5
  <2>7. QED  BY <2>5, <2>6
<1>4. QED  BY <1>2, <1>3

-----------------------------------------------------------------------------
(* The induction.                                                          *)

LEMMA WrittenLife ==
  ASSUME LifeInv, NEW d, Settled(d), UNCHANGED zip,
         Persist(d) \/ Answer(d)
  PROVE  LifeInv'
<1>1. mem' = d /\ (disk' = d \/ disk' = disk) /\ (WritesSucceed => disk' = d)
  BY DEF Persist, Answer, WritesSucceed
<1>2. SameLife(d, d)
  BY DEF SameLife
<1>3. QED  BY <1>1, <1>2 DEF LifeInv

LEMMA QuietLife ==
  ASSUME LifeInv, UNCHANGED <<mem, disk, zip>>
  PROVE  LifeInv'
BY DEF LifeInv

LEMMA SafeExists == ASSUME NEW d, Safe(d) PROVE d \in Doc /\ d # NoDoc
BY NullAssumption DEF Safe

LEMMA ReloadLife == ASSUME IInv, LifeInv, Reload PROVE LifeInv'
<1>1. CASE LoadFile
  <2>1. Safe(disk) /\ Settled(disk) /\ mem' = MergeSeed(disk) /\ UNCHANGED <<disk, zip>>
    BY <1>1 DEF LoadFile, IInv, LifeInv
  <2>2. SameLife(MergeSeed(disk), disk)
    BY <2>1, MergeTagsSame, MergeType, SafeExists DEF SameLife
  <2>3. QED  BY <1>1, <2>1, <2>2, MergeSettled DEF LifeInv, LoadFile
<1>2. CASE LoadFresh
  BY <1>2, SeedSettled, WrittenLife DEF LoadFresh
<1>3. QED  BY <1>1, <1>2 DEF Reload

LEMMA ApproveLife == ASSUME IInv, LifeInv, Approve PROVE LifeInv'
<1>1. ASSUME NEW t \in Tag, ApproveTag(t) PROVE LifeInv'
  <2> DEFINE e == [mem EXCEPT !.tags[t] = Approved(@), !.retTags = @ \ {t}]
  <2>1. Safe(e) /\ Settled(e)
    BY <1>1, ApproveTagSafe, ApproveTagSettled, SafeExists DEF IInv, LifeInv, ApproveTag
  <2>2. Answer(Remap(e, {})) /\ UNCHANGED zip
    BY <1>1 DEF ApproveTag
  <2> HIDE DEF e
  <2>3. Safe(Remap(e, {})) /\ Settled(Remap(e, {}))
    BY <2>1, RemapSafe, SettledRemap, SafeExists
  <2>4. QED  BY <2>2, <2>3, WrittenLife
<1>2. ASSUME NEW n \in Term, ApproveTerm(n) PROVE LifeInv'
  <2> DEFINE e == [mem EXCEPT !.terms[n] = Approved(@), !.retTerms = @ \ {n}]
  <2>1. Safe(e) /\ Settled(e)
    BY <1>2, ApproveTermSafe, ApproveTermSettled, SafeExists DEF IInv, LifeInv, ApproveTerm
  <2>2. Answer(Remap(e, {})) /\ UNCHANGED zip
    BY <1>2 DEF ApproveTerm
  <2> HIDE DEF e
  <2>3. Safe(Remap(e, {})) /\ Settled(Remap(e, {}))
    BY <2>1, RemapSafe, SettledRemap, SafeExists
  <2>4. QED  BY <2>2, <2>3, WrittenLife
<1>3. QED  BY <1>1, <1>2 DEF Approve

(* What a retirement makes of the document.                                *)
LEMMA RejectTagIs ==
  ASSUME IInv, NEW t \in Tag, RejectTag(t)
  PROVE  /\ mem' \in Doc /\ t \in TagsOf(mem) /\ t \notin CoreTag
         /\ mem'.tags = [mem.tags EXCEPT ![t] = NoTag]
         /\ mem'.retTags = mem.retTags \cup {t} /\ mem'.retTerms = mem.retTerms
         /\ \A n \in Term : /\ MarkKept(mem.terms[n], mem'.terms[n])
                           /\ mem'.terms[n].aliases = mem.terms[n].aliases
<1>1. Safe(mem) /\ mem \in Doc
  BY DEF IInv, RejectTag, Safe
<1>2. t \notin CoreTag
  BY <1>1 DEF RejectTag, Safe, SafeTags
<1>3. Stripped(mem, t) \in Doc
  BY <1>1, <1>2, StrippedSafe DEF Safe
<1>4. t \in TagsOf(mem) /\ mem' = Remap(Stripped(mem, t), {})
  BY DEF RejectTag, Answer
<1>5. QED  BY <1>1, <1>2, <1>3, <1>4, StrippedIs, RemapType

LEMMA RejectTermIs ==
  ASSUME IInv, NEW n \in Term,
         RejectTerm(n) \/ \E into \in Term : AliasTerm(n, into)
  PROVE  /\ mem' \in Doc /\ n \in TermsOf(mem)
         /\ mem'.tags = mem.tags /\ mem'.retTags = mem.retTags
         /\ mem'.retTerms = mem.retTerms \cup {n}
         /\ mem'.terms[n] = NoTerm
         /\ \A m \in Term \ {n} : MarkKept(mem.terms[m], mem'.terms[m])
<1>0. mem \in Doc /\ Safe(mem)
  BY DEF IInv, Safe, RejectTerm, AliasTerm
<1>1. CASE RejectTerm(n)
  <2> DEFINE e == [mem EXCEPT !.terms[n] = NoTerm, !.retTerms = @ \cup {n}]
  <2>1. Safe(e)
    BY <1>0, TombstoneSafe
  <2>2. /\ e.tags = mem.tags /\ e.retTags = mem.retTags
        /\ e.retTerms = mem.retTerms \cup {n}
        /\ e.terms = [mem.terms EXCEPT ![n] = NoTerm]
    BY <1>0 DEF Doc
  <2>3. mem' = Remap(e, {Fold[n]}) /\ n \in TermsOf(mem)
    BY <1>1 DEF RejectTerm, Answer
  <2> HIDE DEF e
  <2>4. /\ mem' \in Doc /\ mem'.tags = mem.tags /\ mem'.retTags = mem.retTags
        /\ mem'.retTerms = mem.retTerms \cup {n}
        /\ mem'.terms = [mem.terms EXCEPT ![n] = NoTerm]
    BY <2>1, <2>2, <2>3, RemapType, SafeExists
  <2>5. QED  BY <1>0, <2>3, <2>4 DEF MarkKept, Doc
<1>2. ASSUME NEW into \in Term, AliasTerm(n, into)
      PROVE  /\ mem' \in Doc /\ n \in TermsOf(mem)
             /\ mem'.tags = mem.tags /\ mem'.retTags = mem.retTags
             /\ mem'.retTerms = mem.retTerms \cup {n}
             /\ mem'.terms[n] = NoTerm
             /\ \A m \in Term \ {n} : MarkKept(mem.terms[m], mem'.terms[m])
  <2> DEFINE f == Folded(mem, n, into)
             e == [f EXCEPT !.retTerms = @ \cup {n}]
  <2>1. n \in TermsOf(mem) /\ into \in TermsOf(mem) /\ into # n
    BY <1>2 DEF AliasTerm, TermsOf
  <2>2. /\ f \in Doc /\ f.tags = mem.tags /\ f.retTags = mem.retTags
        /\ f.retTerms = mem.retTerms
        /\ f.terms[n] = NoTerm /\ MarkKept(mem.terms[into], f.terms[into])
        /\ \A m \in Term \ {n, into} : f.terms[m] = mem.terms[m]
    BY <1>0, <2>1, FoldedIs
  <2>3. mem' = Remap(e, {})
    BY <1>2 DEF AliasTerm, Answer
  <2> HIDE DEF f
  <2>4. e \in Doc /\ e.tags = f.tags /\ e.retTags = f.retTags /\ e.terms = f.terms
        /\ e.retTerms = f.retTerms \cup {n}
    BY <2>2 DEF Doc
  <2> HIDE DEF e
  <2>5. mem' \in Doc /\ mem'.tags = f.tags /\ mem'.retTags = f.retTags
        /\ mem'.terms = f.terms /\ mem'.retTerms = f.retTerms \cup {n}
    BY <2>3, <2>4, RemapType
  <2>6. QED  BY <2>1, <2>2, <2>5 DEF MarkKept
<1>3. QED  BY <1>1, <1>2

LEMMA RetireLife == ASSUME IInv, LifeInv, Retire PROVE LifeInv'
<1>1. mem \in Doc /\ Settled(mem)
  BY DEF Retire, RejectTag, RejectTerm, AliasTerm, IInv, LifeInv, Safe
<1>2. ASSUME NEW t \in Tag, RejectTag(t) PROVE Settled(mem')
  <2>1. Safe(Stripped(mem, t)) /\ Settled(Stripped(mem, t))
    BY <1>1, <1>2, RejectTagIs, StrippedSafe, StrippedSettled DEF IInv, RejectTag
  <2>2. QED  BY <1>2, <2>1, SafeExists, SettledRemap DEF RejectTag, Answer
<1>3. ASSUME NEW n \in Term, RejectTerm(n) \/ \E into \in Term : AliasTerm(n, into)
      PROVE  Settled(mem')
  BY <1>1, <1>3, RejectTermIs, DroppedSettled
<1>4. Settled(mem')
  BY <1>2, <1>3 DEF Retire
<1>5. Answer(mem') /\ UNCHANGED zip
  BY DEF Retire, RejectTag, RejectTerm, AliasTerm, Answer
<1>6. QED  BY <1>4, <1>5, WrittenLife

LEMMA ScanLife == ASSUME IInv, LifeInv, Scan PROVE LifeInv'
<1>1. PICK r \in Rows, canon \in Term \cup {NoName} : Accrete(r, canon)
  BY DEF Scan
<1>2. /\ Safe(mem) /\ Settled(mem) /\ r \in Row
      /\ r.term = NoName => canon = NoName
      /\ r.term # NoName => canon \in Canonical(mem, r.term)
  BY <1>1, InputAssumption DEF IInv, LifeInv, Accrete
<1>3. Settled(Accreted(mem, r, canon))
  BY <1>2, AccretedSettled
<1>4. QED  BY <1>1, <1>3, WrittenLife DEF Accrete

LEMMA RefreshLife ==
  ASSUME SaveOrRefresh, IInv, LifeInv, Refresh PROVE LifeInv'
<1>1. PICK r \in Rows, n \in Term :
        RefreshPruned(r, n) \/ RefreshKnown(r, n) \/ RefreshRenamed(r, n)
  BY DEF Refresh
<1>2. /\ NoSave /\ mem # NoDoc /\ mem \in Doc /\ Settled(mem) /\ PendingAlone(mem)
      /\ Persist(mem') /\ UNCHANGED zip
  BY <1>1 DEF RefreshPruned, RefreshKnown, RefreshRenamed, SaveOrRefresh, IInv, Safe,
              LifeInv, Settled, Persist
<1>3. CASE RefreshPruned(r, n)
  <2>1. /\ mem'.tags = mem.tags /\ mem'.retTags = mem.retTags
        /\ mem'.retTerms = mem.retTerms \cup {n}
        /\ mem'.terms = [mem.terms EXCEPT ![n] = NoTerm]
    BY <1>3, PruneIs
  <2>2. mem'.terms[n] = NoTerm /\ \A m \in Term \ {n} : MarkKept(mem.terms[m], mem'.terms[m])
    BY <1>2, <2>1 DEF Doc, MarkKept
  <2>3. Settled(mem')
    BY <1>2, <2>1, <2>2, DroppedSettled
  <2>4. QED  BY <1>2, <2>3, WrittenLife
<1>4. CASE RefreshKnown(r, n) \/ RefreshRenamed(r, n)
  <2>1. PICK olds, name : Corrected(mem, mem', olds, name)
    BY <1>2, <1>4, RefreshIs
  <2>2. Settled(mem')
    BY <1>2, <2>1, CorrectedSettled
  <2>3. QED  BY <1>2, <2>2, WrittenLife
<1>5. QED  BY <1>1, <1>3, <1>4

LEMMA SaveLife == ASSUME IInv, LifeInv, Save PROVE LifeInv'
<1>1. PICK prev \in Previous : Answer(Replacement(page, prev))
  BY DEF Save
<1>2. ~NoSave /\ PageSafe(page) /\ prev \in Doc
  BY PrevSafe DEF Save, IInv, NoSave
<1>3. Settled(Replacement(page, prev))
  BY <1>2, ReplacementSettled
<1>4. QED  BY <1>1, <1>3, WrittenLife DEF Save

LEMMA ResetLife == ASSUME IInv, LifeInv, Reset PROVE LifeInv'
<1>1. PICK prev \in Previous : Answer(Reseeded(prev))
  BY DEF Reset
<1>2. Settled(Reseeded(prev))
  BY PrevSafe, ReseededSettled
<1>3. QED  BY <1>1, <1>2, WrittenLife DEF Reset

LEMMA StepLife ==
  ASSUME SaveOrRefresh, IInv, LifeInv, [Next]_vars PROVE LifeInv'
<1>1. CASE Reload     BY <1>1, ReloadLife
<1>2. CASE Approve    BY <1>2, ApproveLife
<1>3. CASE Retire     BY <1>3, RetireLife
<1>4. CASE Scan       BY <1>4, ScanLife
<1>5. CASE Refresh    BY <1>5, RefreshLife
<1>6. CASE Edit
  BY <1>6, QuietLife DEF Edit, OpenPage, AddTerm, AddTag, AddRule
<1>7. CASE Save       BY <1>7, SaveLife
<1>8. CASE Reset      BY <1>8, ResetLife
<1>9. CASE Restart    BY <1>9 DEF LifeInv, Restart
<1>10. CASE Snapshot  BY <1>10 DEF LifeInv, Snapshot
<1>11. CASE Restore   BY <1>11 DEF LifeInv, Restore
<1>12. CASE FactoryReset  BY <1>12 DEF LifeInv, FactoryReset
<1>13. CASE UNCHANGED vars  BY <1>13, QuietLife DEF vars
<1>14. QED
  BY <1>1, <1>2, <1>3, <1>4, <1>5, <1>6, <1>7, <1>8, <1>9, <1>10, <1>11,
     <1>12, <1>13 DEF Next

(* Every document the app serves, stores or can restore is settled, and    *)
(* while writes succeed the served one is the file's.  Pages are saved or  *)
(* the grid corrects proposals, not both: a save erases the tombstones     *)
(* that a withdrawn proposal falls back on.                                *)
THEOREM DocumentsStaySettled ==
  ASSUME SaveOrRefresh
  PROVE  Spec => []LifeInv
<1>1. Init => LifeInv
  BY DEF Init, LifeInv
<1>2. IInv /\ LifeInv /\ [Next]_vars => LifeInv'
  BY StepLife
<1>3. QED  BY <1>1, <1>2, DocumentsStaySafe, PTL DEF Spec

(* The file carries the steward's decisions: a restart at any moment       *)
(* serves the same tombstones and the same approved entries                *)
(* (_save_locked at the end of every decision).                            *)
THEOREM DecisionsAreOnDisk ==
  ASSUME WritesSucceed, SaveOrRefresh
  PROVE  Spec => []DecisionsOnDisk
<1>1. IInv /\ LifeInv => DecisionsOnDisk
  <2> SUFFICES ASSUME IInv, LifeInv, mem # NoDoc
               PROVE  /\ disk # NoDoc
                      /\ LET next == MergeSeed(disk)
                         IN  /\ next.retTags = mem.retTags /\ next.retTerms = mem.retTerms
                             /\ \A t \in Tag : /\ Keeps(mem.tags[t]) => Governs(next.tags[t])
                                               /\ Keeps(next.tags[t]) => Governs(mem.tags[t])
                             /\ \A n \in Term : /\ Keeps(mem.terms[n]) => Governs(next.terms[n])
                                                /\ Keeps(next.terms[n]) => Governs(mem.terms[n])
    BY DEF DecisionsOnDisk
  <2>1. disk # NoDoc /\ Safe(disk) /\ disk \in Doc /\ Settled(disk) /\ SameLife(mem, disk)
    BY DEF LifeInv, IInv, Safe
  <2> DEFINE next == MergeSeed(disk)
  <2>2. /\ next.tags = disk.tags /\ next.retTags = disk.retTags
        /\ next.retTerms = disk.retTerms
        /\ \A n \in Term : next.terms[n] = MergedTerm(disk, n)
    BY <2>1, MergeTagsSame, MergeType
  <2> HIDE DEF next
  <2>3. \A e : Keeps(e) => Governs(e)
    BY DEF Keeps, Governs
  <2>4. ASSUME NEW n \in Term
        PROVE  /\ Keeps(mem.terms[n]) => Governs(next.terms[n])
               /\ Keeps(next.terms[n]) => Governs(mem.terms[n])
    <3>1. CASE mem.terms[n] = next.terms[n]
      BY <2>3, <3>1
    <3>2. CASE mem.terms[n] = disk.terms[n]
      BY <2>1, <2>2, <2>3, <3>2, MergedTermIs DEF Keeps, Governs
    <3>3. QED  BY <2>1, <2>2, <3>1, <3>2 DEF SameLife
  <2>5. QED  BY <2>1, <2>2, <2>3, <2>4 DEF SameLife, next
<1>2. QED  BY <1>1, DocumentsStaySafe, DocumentsStaySettled, PTL

-----------------------------------------------------------------------------
(* The life of the names of a document.                                    *)

TagLives(d)  == [t \in Tag |-> LifeOf(d.tags[t], t \in d.retTags)]
TermLives(d) == [n \in Term |-> LifeOf(d.terms[n], n \in d.retTerms)]

LEMMA LivesAre ==
  /\ \A d : \A t \in Tag : TagLives(d)[t] =
       IF d.tags[t].layer = "absent" THEN IF t \in d.retTags THEN "retired" ELSE "unknown"
       ELSE IF Governs(d.tags[t]) THEN "governed"
       ELSE IF t \in d.retTags THEN "reproposed" ELSE "pending"
  /\ \A d : \A n \in Term : TermLives(d)[n] =
       IF d.terms[n].layer = "absent" THEN IF n \in d.retTerms THEN "retired" ELSE "unknown"
       ELSE IF Governs(d.terms[n]) THEN "governed"
       ELSE IF n \in d.retTerms THEN "reproposed" ELSE "pending"
BY DEF TagLives, TermLives, LifeOf

LEMMA LivesSame ==
  ASSUME NEW d, NEW e
  PROVE  /\ e.tags = d.tags /\ e.retTags = d.retTags => TagLives(e) = TagLives(d)
         /\ /\ e.retTerms = d.retTerms
            /\ \A n \in Term : e.terms[n] = d.terms[n] \/ MarkKept(d.terms[n], e.terms[n])
            => TermLives(e) = TermLives(d)
<1>1. ASSUME e.tags = d.tags, e.retTags = d.retTags PROVE TagLives(e) = TagLives(d)
  BY <1>1 DEF TagLives
<1>2. ASSUME e.retTerms = d.retTerms,
             \A n \in Term : e.terms[n] = d.terms[n] \/ MarkKept(d.terms[n], e.terms[n])
      PROVE  TermLives(e) = TermLives(d)
  <2>1. \A n \in Term : TermLives(e)[n] = TermLives(d)[n]
    BY <1>2, LivesAre DEF MarkKept, Governs
  <2>2. QED  BY <2>1 DEF TermLives
<1>3. QED  BY <1>1, <1>2

LEMMA MergeLives ==
  ASSUME NoSave, NoBaselineRows, NEW d, Safe(d), Settled(d)
  PROVE  TagLives(MergeSeed(d)) = TagLives(d) /\ TermLives(MergeSeed(d)) = TermLives(d)
BY MergeTagsSame, MergeTermsSame, MergeType, LivesSame, SafeExists

LEMMA SeedLives ==
  /\ TagLives(Seed) = [t \in Tag |-> IF t \in SeedTag THEN "governed" ELSE "unknown"]
  /\ TermLives(Seed) = [n \in Term |-> IF n \in SeedTerm THEN "governed" ELSE "unknown"]
<1>1. \A t \in Tag : /\ Seed.tags[t] = IF t \in SeedTag THEN SeedTagEntry(t) ELSE NoTag
                     /\ t \notin Seed.retTags
  BY DEF Seed
<1>2. \A n \in Term : /\ Seed.terms[n] = IF n \in SeedTerm THEN SeedTermEntry(n) ELSE NoTerm
                      /\ n \notin Seed.retTerms
  BY DEF Seed
<1>3. /\ \A t \in Tag : SeedTagEntry(t).layer # "absent" /\ Governs(SeedTagEntry(t))
      /\ \A n \in Term : SeedTermEntry(n).layer # "absent" /\ Governs(SeedTermEntry(n))
      /\ NoTag.layer = "absent" /\ NoTerm.layer = "absent"
  BY DEF SeedTagEntry, SeedTermEntry, Governs, NoTag, NoTerm
<1>4. /\ \A t \in Tag : TagLives(Seed)[t] = IF t \in SeedTag THEN "governed" ELSE "unknown"
      /\ \A n \in Term : TermLives(Seed)[n] = IF n \in SeedTerm THEN "governed" ELSE "unknown"
  BY <1>1, <1>2, <1>3, LivesAre
<1>5. QED  BY <1>4 DEF TagLives, TermLives

(* The maps of the refinement, before and after a step.                    *)
LEMMA Served ==
  /\ mem # NoDoc => TagLife = TagLives(mem) /\ TermLife = TermLives(mem)
  /\ mem = NoDoc /\ disk # NoDoc => /\ TagLife = TagLives(MergeSeed(disk))
                                    /\ TermLife = TermLives(MergeSeed(disk))
  /\ mem = NoDoc /\ disk = NoDoc => TagLife = TagLives(Seed) /\ TermLife = TermLives(Seed)
BY DEF TagLife, TermLife, TagLives, TermLives, Effective

LEMMA ServedNext ==
  /\ mem' # NoDoc => TagLife' = TagLives(mem') /\ TermLife' = TermLives(mem')
  /\ mem' = NoDoc /\ disk' # NoDoc => /\ TagLife' = TagLives(MergeSeed(disk'))
                                      /\ TermLife' = TermLives(MergeSeed(disk'))
BY DEF TagLife, TermLife, TagLives, TermLives, Effective, MergeSeed, MergedTag, MergedTerm,
       MergedRules

LEMMA QuietLives == ASSUME UNCHANGED <<mem, disk>> PROVE UNCHANGED <<TagLife, TermLife>>
BY DEF TagLife, TermLife, Effective, MergeSeed, MergedTag, MergedTerm, MergedRules

-----------------------------------------------------------------------------
(* Every step that does not replace the document is a step of the life     *)
(* cycles, or none, while writes succeed, the file is readable, pages are  *)
(* not saved and no row is named as a term of the baseline.                *)

LEMMA ReloadLives ==
  ASSUME FileIsReadable, Reload
  PROVE  UNCHANGED <<TagLife, TermLife>>
<1>1. CASE LoadFile
  <2>1. mem' # NoDoc => Effective' = Effective
    BY <1>1 DEF LoadFile, Effective
  <2>2. mem' = NoDoc => Effective' = MergeSeed(disk')
    BY <1>1 DEF LoadFile, Effective
  <2>3. mem = NoDoc /\ disk # NoDoc /\ disk' = disk /\ mem' = MergeSeed(disk)
    BY <1>1 DEF LoadFile
  <2>4. Effective' = Effective
    BY <2>1, <2>2, <2>3 DEF Effective
  <2>5. QED  BY <2>4 DEF TagLife, TermLife
<1>2. CASE LoadFresh
  <2>1. mem = NoDoc /\ disk = NoDoc /\ mem' = Seed /\ Seed # NoDoc
    BY <1>2, SeedSafe, SafeExists DEF LoadFresh, Persist, FileIsReadable
  <2>2. QED  BY <2>1, Served, ServedNext
<1>3. QED  BY <1>1, <1>2 DEF Reload

LEMMA RestartLives ==
  ASSUME WritesSucceed, NoSave, NoBaselineRows, IInv, LifeInv, Restart
  PROVE  UNCHANGED <<TagLife, TermLife>>
<1>1. /\ mem # NoDoc /\ mem' = NoDoc /\ disk # NoDoc /\ disk' = disk
      /\ Safe(disk) /\ Settled(disk) /\ SameLife(mem, disk)
  BY DEF Restart, LifeInv, IInv
<1>2. TagLives(mem) = TagLives(disk) /\ TermLives(mem) = TermLives(disk)
  BY <1>1, LivesSame, MergeTermsSame, SafeExists DEF SameLife
<1>3. QED  BY <1>1, <1>2, Served, ServedNext, MergeLives

LEMMA ApproveTagLives ==
  ASSUME IInv, NEW t \in Tag, ApproveTag(t)
  PROVE  /\ Abstract!ApproveName(TagLife, TagLife', t) /\ UNCHANGED TermLife
         /\ mem'.retTags = mem.retTags \ {t} /\ mem'.retTerms = mem.retTerms
         /\ mem' # NoDoc
<1> DEFINE e == [mem EXCEPT !.tags[t] = Approved(@), !.retTags = @ \ {t}]
<1>1. /\ mem # NoDoc /\ mem \in Doc /\ Safe(e) /\ mem.tags[t] \in TagEntry
      /\ mem.tags[t].layer = "company" /\ mem.tags[t].status # "approved"
  BY ApproveTagSafe DEF IInv, ApproveTag, Safe, Doc
<1>2. /\ e.tags = [mem.tags EXCEPT ![t] = Approved(@)] /\ e.retTags = mem.retTags \ {t}
      /\ e.terms = mem.terms /\ e.retTerms = mem.retTerms
  BY <1>1 DEF Doc
<1>3. mem' = Remap(e, {})
  BY DEF ApproveTag, Answer
<1> HIDE DEF e
<1>4. /\ mem' # NoDoc /\ mem'.tags = [mem.tags EXCEPT ![t] = Approved(@)]
      /\ mem'.retTags = mem.retTags \ {t}
      /\ mem'.terms = mem.terms /\ mem'.retTerms = mem.retTerms
  BY <1>1, <1>2, <1>3, RemapType, RemapSafe, SafeExists
<1>5. /\ mem'.tags[t] = Approved(mem.tags[t])
      /\ \A x \in Tag \ {t} : mem'.tags[x] = mem.tags[x]
  BY <1>1, <1>4 DEF Doc
<1>6. mem'.tags[t].layer = "company" /\ mem'.tags[t].status = "approved"
  BY <1>1, <1>5 DEF Approved, TagEntry
<1>7. TagLives(mem)[t] \in {"pending", "reproposed"}
  BY <1>1, LivesAre DEF Governs
<1>8. ASSUME NEW x \in Tag
      PROVE  TagLives(mem')[x] = IF x = t THEN "governed" ELSE TagLives(mem)[x]
  <2>1. CASE x = t
    BY <1>4, <1>5, <1>6, <2>1, LivesAre DEF Governs
  <2>2. CASE x # t
    <3>1. x \in mem'.retTags <=> x \in mem.retTags
      BY <1>4, <2>2
    <3>2. mem'.tags[x] = mem.tags[x]
      BY <1>4, <1>5, <1>6, <2>2
    <3>3. QED  BY <2>2, <3>1, <3>2, LivesAre
  <2>3. QED  BY <2>1, <2>2
<1>9. TagLives(mem') = [TagLives(mem) EXCEPT ![t] = "governed"]
  BY <1>8 DEF TagLives
<1>10. TermLives(mem') = TermLives(mem)
  BY <1>4, LivesSame
<1>11. QED  BY <1>1, <1>4, <1>7, <1>9, <1>10, Served, ServedNext DEF Abstract!ApproveName

LEMMA ApproveTermLives ==
  ASSUME IInv, NEW n \in Term, ApproveTerm(n)
  PROVE  /\ Abstract!ApproveName(TermLife, TermLife', n) /\ UNCHANGED TagLife
         /\ mem'.retTerms = mem.retTerms \ {n} /\ mem'.retTags = mem.retTags
         /\ mem' # NoDoc
<1> DEFINE e == [mem EXCEPT !.terms[n] = Approved(@), !.retTerms = @ \ {n}]
<1>1. /\ mem # NoDoc /\ mem \in Doc /\ Safe(e) /\ mem.terms[n] \in TermEntry
      /\ mem.terms[n].layer = "company" /\ mem.terms[n].status # "approved"
  BY ApproveTermSafe DEF IInv, ApproveTerm, Safe, Doc
<1>2. /\ e.terms = [mem.terms EXCEPT ![n] = Approved(@)] /\ e.retTerms = mem.retTerms \ {n}
      /\ e.tags = mem.tags /\ e.retTags = mem.retTags
  BY <1>1 DEF Doc
<1>3. mem' = Remap(e, {})
  BY DEF ApproveTerm, Answer
<1> HIDE DEF e
<1>4. /\ mem' # NoDoc /\ mem'.terms = [mem.terms EXCEPT ![n] = Approved(@)]
      /\ mem'.retTerms = mem.retTerms \ {n}
      /\ mem'.tags = mem.tags /\ mem'.retTags = mem.retTags
  BY <1>1, <1>2, <1>3, RemapType, RemapSafe, SafeExists
<1>5. /\ mem'.terms[n] = Approved(mem.terms[n])
      /\ \A x \in Term \ {n} : mem'.terms[x] = mem.terms[x]
  BY <1>1, <1>4 DEF Doc
<1>6. mem'.terms[n].layer = "company" /\ mem'.terms[n].status = "approved"
  BY <1>1, <1>5 DEF Approved, TermEntry
<1>7. TermLives(mem)[n] \in {"pending", "reproposed"}
  BY <1>1, LivesAre DEF Governs
<1>8. ASSUME NEW x \in Term
      PROVE  TermLives(mem')[x] = IF x = n THEN "governed" ELSE TermLives(mem)[x]
  <2>1. CASE x = n
    BY <1>4, <1>5, <1>6, <2>1, LivesAre DEF Governs
  <2>2. CASE x # n
    <3>1. x \in mem'.retTerms <=> x \in mem.retTerms
      BY <1>4, <2>2
    <3>2. mem'.terms[x] = mem.terms[x]
      BY <1>4, <1>5, <1>6, <2>2
    <3>3. QED  BY <2>2, <3>1, <3>2, LivesAre
  <2>3. QED  BY <2>1, <2>2
<1>9. TermLives(mem') = [TermLives(mem) EXCEPT ![n] = "governed"]
  BY <1>8 DEF TermLives
<1>10. TagLives(mem') = TagLives(mem)
  BY <1>4, LivesSame
<1>11. QED  BY <1>1, <1>4, <1>7, <1>9, <1>10, Served, ServedNext DEF Abstract!ApproveName

LEMMA RejectTagLives ==
  ASSUME IInv, NEW t \in Tag, RejectTag(t)
  PROVE  /\ t \notin CoreTag /\ Abstract!RetireName(TagLife, TagLife', t)
         /\ UNCHANGED TermLife
<1>1. /\ mem # NoDoc /\ mem \in Doc /\ mem' # NoDoc
      /\ t \in TagsOf(mem) /\ t \notin CoreTag
      /\ mem'.tags = [mem.tags EXCEPT ![t] = NoTag]
      /\ mem'.retTags = mem.retTags \cup {t} /\ mem'.retTerms = mem.retTerms
      /\ \A n \in Term : MarkKept(mem.terms[n], mem'.terms[n])
  BY RejectTagIs, NullAssumption DEF IInv, Safe, RejectTag
<1>2. /\ mem'.tags[t] = NoTag /\ \A x \in Tag \ {t} : mem'.tags[x] = mem.tags[x]
  BY <1>1 DEF Doc
<1>3. ASSUME NEW x \in Tag
      PROVE  TagLives(mem')[x] = IF x = t THEN "retired" ELSE TagLives(mem)[x]
  <2>1. CASE x = t
    <3>1. mem'.tags[x].layer = "absent" /\ x \in mem'.retTags
      BY <1>1, <1>2, <2>1 DEF NoTag
    <3>2. QED  BY <2>1, <3>1, LivesAre
  <2>2. CASE x # t
    <3>1. x \in mem'.retTags <=> x \in mem.retTags
      BY <1>1, <2>2
    <3>2. mem'.tags[x] = mem.tags[x]
      BY <1>1, <1>2, <2>2
    <3>3. QED  BY <2>2, <3>1, <3>2, LivesAre
  <2>3. QED  BY <2>1, <2>2
<1>4. TagLives(mem') = [TagLives(mem) EXCEPT ![t] = "retired"]
  BY <1>3 DEF TagLives
<1>5. TagLives(mem)[t] \in {"pending", "reproposed", "governed"}
  BY <1>1, LivesAre DEF TagsOf
<1>6. TermLives(mem') = TermLives(mem)
  BY <1>1, LivesSame
<1>7. QED  BY <1>1, <1>4, <1>5, <1>6, Served, ServedNext DEF Abstract!RetireName

(* A term leaves the document under a tombstone.                           *)
LEMMA DroppedLives ==
  ASSUME mem \in Doc, mem' \in Doc, NEW n \in TermsOf(mem),
         mem'.tags = mem.tags, mem'.retTags = mem.retTags,
         mem'.retTerms = mem.retTerms \cup {n}, mem'.terms[n] = NoTerm,
         \A m \in Term \ {n} : MarkKept(mem.terms[m], mem'.terms[m])
  PROVE  Abstract!RetireName(TermLife, TermLife', n) /\ UNCHANGED TagLife
<1>1. mem # NoDoc /\ mem' # NoDoc /\ n \in Term
  BY NullAssumption DEF TermsOf
<1>2. \A x \in Term : TermLives(mem')[x] = IF x = n THEN "retired" ELSE TermLives(mem)[x]
  BY LivesAre DEF NoTerm, MarkKept, Governs
<1>3. TermLives(mem') = [TermLives(mem) EXCEPT ![n] = "retired"]
  BY <1>2 DEF TermLives
<1>4. TermLives(mem)[n] \in {"pending", "reproposed", "governed"}
  BY LivesAre DEF TermsOf
<1>5. TagLives(mem') = TagLives(mem)
  BY LivesSame
<1>6. QED  BY <1>1, <1>3, <1>4, <1>5, Served, ServedNext DEF Abstract!RetireName

LEMMA RejectTermLives ==
  ASSUME IInv, NEW n \in Term,
         RejectTerm(n) \/ \E into \in Term : AliasTerm(n, into)
  PROVE  Abstract!RetireName(TermLife, TermLife', n) /\ UNCHANGED TagLife
BY RejectTermIs, DroppedLives DEF IInv, Safe, RejectTerm, AliasTerm

LEMMA PruneLives ==
  ASSUME IInv, NEW r, NEW n \in Term, RefreshPruned(r, n)
  PROVE  /\ Abstract!RetireName(TermLife, TermLife', n) /\ UNCHANGED TagLife
         /\ TermLife[n] # "governed"
<1>1. mem \in Doc /\ n \in TermsOf(mem)
  BY DEF IInv, Safe, RefreshPruned, Candidates
<1>2. /\ mem' \in Doc /\ mem'.tags = mem.tags /\ mem'.retTags = mem.retTags
      /\ mem'.retTerms = mem.retTerms \cup {n}
      /\ mem'.terms = [mem.terms EXCEPT ![n] = NoTerm]
  BY PruneIs
<1>3. mem'.terms[n] = NoTerm /\ \A m \in Term \ {n} : MarkKept(mem.terms[m], mem'.terms[m])
  BY <1>1, <1>2 DEF Doc, MarkKept
<1>4. TermLife[n] # "governed"
  <2>1. mem # NoDoc /\ IsPending(mem.terms[n])
    BY PruneIs DEF RefreshPruned
  <2>2. TermLives(mem)[n] # "governed"
    BY <2>1, LivesAre DEF IsPending, Governs
  <2>3. QED  BY <2>1, <2>2, Served
<1>5. QED  BY <1>1, <1>2, <1>3, <1>4, DroppedLives

LEMMA ScanLives ==
  ASSUME IInv, NEW r \in Rows, NEW canon \in Term \cup {NoName}, Accrete(r, canon)
  PROVE  /\ \E terms \in {{}} \cup {{n} : n \in Term} : Abstract!ScanRow(r.tags, terms)
         /\ mem'.retTags = mem.retTags /\ mem'.retTerms = mem.retTerms
         /\ mem' # NoDoc
<1>1. /\ mem # NoDoc /\ mem \in Doc /\ Safe(mem) /\ r \in Row
      /\ mem' = Accreted(mem, r, canon)
  BY InputAssumption DEF IInv, Safe, Accrete, Persist
<1>2. mem' # NoDoc
  BY <1>1, AccretedSafe, SafeExists
<1>3. /\ mem'.retTags = mem.retTags /\ mem'.retTerms = mem.retTerms
      /\ mem'.tags = [t \in Tag |->
           IF t \in r.tags \ mem.retTags /\ mem.tags[t].layer = "absent"
           THEN [layer |-> "company", status |-> "pending"] ELSE mem.tags[t]]
      /\ \A n \in Term :
           IF n # canon \/ r.record THEN mem'.terms[n] = mem.terms[n]
           ELSE IF mem.terms[n].layer = "absent" THEN IsPending(mem'.terms[n])
           ELSE MarkKept(mem.terms[n], mem'.terms[n])
  BY <1>1, AccretedIs
<1> DEFINE terms == IF r.record \/ canon = NoName THEN {} ELSE {canon}
<1>4. terms \in {{}} \cup {{n} : n \in Term}
  OBVIOUS
<1>5. ASSUME NEW t \in Tag
      PROVE  TagLives(mem')[t] = IF t \in r.tags /\ TagLives(mem)[t] = "unknown"
                                 THEN "pending" ELSE TagLives(mem)[t]
  <2>1. mem'.tags[t] = IF t \in r.tags \ mem.retTags /\ mem.tags[t].layer = "absent"
                       THEN [layer |-> "company", status |-> "pending"] ELSE mem.tags[t]
    BY <1>3
  <2>2. CASE t \in r.tags \ mem.retTags /\ mem.tags[t].layer = "absent"
    <3>1. mem'.tags[t].layer = "company" /\ mem'.tags[t].status = "pending"
      BY <2>1, <2>2
    <3>2. QED  BY <1>3, <2>2, <3>1, LivesAre DEF Governs
  <2>3. CASE ~(t \in r.tags \ mem.retTags /\ mem.tags[t].layer = "absent")
    BY <1>3, <2>1, <2>3, LivesAre
  <2>4. QED  BY <2>2, <2>3
<1>6. ASSUME NEW n \in Term
      PROVE  TermLives(mem')[n] = IF n \in terms THEN Abstract!Proposal(TermLives(mem)[n])
                                  ELSE TermLives(mem)[n]
  <2>1. CASE n # canon \/ r.record
    <3>1. n \notin terms /\ mem'.terms[n] = mem.terms[n]
      BY <1>3, <2>1
    <3>2. QED  BY <1>3, <3>1, LivesAre
  <2>2. CASE n = canon /\ ~r.record /\ mem.terms[n].layer = "absent"
    <3>1. n \in terms /\ IsPending(mem'.terms[n])
      BY <1>3, <2>2, NullAssumption
    <3>2. QED  BY <1>3, <2>2, <3>1, LivesAre DEF IsPending, Governs, Abstract!Proposal
  <2>3. CASE n = canon /\ ~r.record /\ mem.terms[n].layer # "absent"
    <3>1. n \in terms /\ MarkKept(mem.terms[n], mem'.terms[n])
      BY <1>3, <2>3, NullAssumption
    <3>2. QED  BY <1>3, <2>3, <3>1, LivesAre DEF MarkKept, Governs, Abstract!Proposal
  <2>4. QED  BY <1>1, <2>1, <2>2, <2>3 DEF Row
<1> HIDE DEF terms
<1>7. /\ TagLives(mem') = [t \in Tag |-> IF t \in r.tags /\ TagLives(mem)[t] = "unknown"
                                        THEN "pending" ELSE TagLives(mem)[t]]
      /\ TermLives(mem') = [n \in Term |-> IF n \in terms
                                           THEN Abstract!Proposal(TermLives(mem)[n])
                                           ELSE TermLives(mem)[n]]
  BY <1>5, <1>6 DEF TagLives, TermLives
<1>8. Abstract!ScanRow(r.tags, terms)
  BY <1>1, <1>2, <1>7, Served, ServedNext DEF Abstract!ScanRow
<1>9. QED  BY <1>2, <1>3, <1>4, <1>8

LEMMA CorrectLives ==
  ASSUME IInv, mem # NoDoc, NEW olds, NEW name, Corrected(mem, mem', olds, name)
  PROVE  olds \subseteq Term /\ name \in Term /\ Abstract!Correct(olds, {name})
<1>1. /\ mem # NoDoc /\ mem' # NoDoc /\ olds # {} /\ olds \subseteq Term
      /\ name \in Term \ olds
      /\ mem'.tags = mem.tags /\ mem'.retTags = mem.retTags
      /\ mem'.retTerms = mem.retTerms
      /\ \A m \in olds : IsPending(mem.terms[m]) /\ mem'.terms[m] = NoTerm
      /\ \A m \in Term \ (olds \cup {name}) : mem'.terms[m] = mem.terms[m]
  BY NullAssumption DEF Corrected
<1>2. \A m \in olds : TermLives(mem)[m] \in {"pending", "reproposed"}
  BY <1>1, LivesAre DEF IsPending, Governs
<1>3. ASSUME NEW n \in Term
      PROVE  TermLives(mem')[n] =
               IF n \in {name} THEN Abstract!Proposal(TermLives(mem)[n])
               ELSE IF n \in olds THEN Abstract!Withdrawal(TermLives(mem)[n])
               ELSE TermLives(mem)[n]
  <2>1. CASE n \in olds
    <3>1. n # name /\ IsPending(mem.terms[n]) /\ mem'.terms[n].layer = "absent"
      BY <1>1, <2>1 DEF NoTerm
    <3>2. QED  BY <1>1, <2>1, <3>1, LivesAre DEF IsPending, Governs, Abstract!Withdrawal
  <2>2. CASE n \notin olds \cup {name}
    BY <1>1, <2>2, LivesAre
  <2>3. CASE n = name /\ n \in TermsOf(mem) /\ MarkKept(mem.terms[n], mem'.terms[n])
    BY <1>1, <2>3, LivesAre DEF TermsOf, MarkKept, Governs, Abstract!Proposal
  <2>4. CASE /\ n = name /\ IsPending(mem'.terms[n])
             /\ \A x \in TermsOf(mem) : Fold[x] = Fold[name] => x \in olds
    <3>1. mem.terms[n].layer = "absent"
      BY <1>1, <2>4 DEF TermsOf
    <3>2. QED  BY <1>1, <2>4, <3>1, LivesAre DEF IsPending, Governs, Abstract!Proposal
  <2>5. QED  BY <2>1, <2>2, <2>3, <2>4 DEF Corrected
<1>4. TermLives(mem') =
        [n \in Term |-> IF n \in {name} THEN Abstract!Proposal(TermLives(mem)[n])
                        ELSE IF n \in olds THEN Abstract!Withdrawal(TermLives(mem)[n])
                        ELSE TermLives(mem)[n]]
  BY <1>3 DEF TermLives
<1>5. TagLives(mem') = TagLives(mem)
  BY <1>1, LivesSame
<1>6. QED  BY <1>1, <1>2, <1>4, <1>5, Served, ServedNext DEF Abstract!Correct

LEMMA ReseededLives ==
  ASSUME NoSave, NoBaselineRows, NEW d, Safe(d), Settled(d)
  PROVE  /\ TagLives(Reseeded(d)) = [t \in Tag |-> Abstract!Withdrawal(TagLives(d)[t])]
         /\ TermLives(Reseeded(d)) = [n \in Term |-> Abstract!Withdrawal(TermLives(d)[n])]
<1> DEFINE e == Reseeded(d)
<1>1. /\ d \in Doc /\ e.retTags = d.retTags /\ e.retTerms = d.retTerms
      /\ \A t \in Tag : e.tags[t] =
           IF t \in SeedTag /\ ~(t \in d.retTags \ CoreTag) THEN SeedTagEntry(t)
           ELSE IF Keeps(d.tags[t]) THEN d.tags[t] ELSE NoTag
      /\ \A n \in Term : e.terms[n] =
           IF n \in SeedTerm /\ n \notin d.retTerms THEN SeedTermEntry(n)
           ELSE IF Keeps(d.terms[n]) THEN d.terms[n] ELSE NoTerm
  BY DEF Reseeded, Safe
<1> HIDE DEF e
<1>2. /\ \A t \in Tag : SeedTagEntry(t).layer # "absent" /\ Governs(SeedTagEntry(t))
      /\ \A n \in Term : SeedTermEntry(n).layer # "absent" /\ Governs(SeedTermEntry(n))
      /\ NoTag.layer = "absent" /\ NoTerm.layer = "absent"
  BY DEF SeedTagEntry, SeedTermEntry, Governs, NoTag, NoTerm
<1>3. /\ \A t \in d.retTags : t \notin CoreTag /\ d.tags[t] = NoTag
      /\ \A n \in d.retTerms : d.terms[n] = NoTerm \/ d.terms[n].status = "pending"
      /\ GenericTag \subseteq SeedTag /\ GenericTerm \subseteq SeedTerm
  BY DEF Safe, SafeTags, SafeTerms, Waits, SeedTag, SeedTerm
<1>4. ASSUME NEW t \in Tag
      PROVE  TagLives(e)[t] = Abstract!Withdrawal(TagLives(d)[t])
  <2>1. SettledTag(d.tags[t], d.retTags, t) /\ d.tags[t] \in TagEntry
    BY <1>1 DEF Settled, Doc
  <2>2. CASE t \in d.retTags
    <3>1. e.tags[t] = NoTag /\ d.tags[t] = NoTag
      BY <1>1, <1>3, <2>2 DEF Keeps, NoTag
    <3>2. QED  BY <1>1, <1>2, <2>2, <3>1, LivesAre DEF Abstract!Withdrawal
  <2>3. CASE t \notin d.retTags /\ t \in SeedTag
    <3>1. e.tags[t] = SeedTagEntry(t)
      BY <1>1, <2>3
    <3>2. d.tags[t].layer # "absent" /\ Governs(d.tags[t])
      BY <2>1, <2>3 DEF SettledTag, IsPending, Governs, TagEntry, Status
    <3>3. QED  BY <1>2, <3>1, <3>2, LivesAre DEF Abstract!Withdrawal
  <2>4. CASE t \notin d.retTags /\ t \notin SeedTag
    <3>1. d.tags[t].layer # "generic"
      BY <1>3, <2>1, <2>4 DEF SettledTag
    <3>2. e.tags[t] = IF Keeps(d.tags[t]) THEN d.tags[t] ELSE NoTag
      BY <1>1, <2>4
    <3>3. CASE Keeps(d.tags[t])
      BY <1>1, <3>2, <3>3, LivesAre DEF Keeps, Governs, Abstract!Withdrawal
    <3>4. CASE ~Keeps(d.tags[t])
      <4>1. d.tags[t].layer = "absent" \/ ~Governs(d.tags[t])
        BY <2>1, <3>1, <3>4 DEF Keeps, Governs, TagEntry, Layer
      <4>2. e.tags[t].layer = "absent" /\ t \notin e.retTags
        BY <1>1, <1>2, <2>4, <3>2, <3>4
      <4>3. QED  BY <2>4, <4>1, <4>2, LivesAre DEF Abstract!Withdrawal
    <3>5. QED  BY <3>3, <3>4
  <2>5. QED  BY <2>2, <2>3, <2>4
<1>5. ASSUME NEW n \in Term
      PROVE  TermLives(e)[n] = Abstract!Withdrawal(TermLives(d)[n])
  <2>1. SettledTerm(d.terms[n], d.retTerms, n) /\ d.terms[n] \in TermEntry
    BY <1>1 DEF Settled, Doc
  <2>2. CASE n \in d.retTerms
    <3>1. e.terms[n] = NoTerm
      BY <1>1, <1>3, <2>2 DEF Keeps, NoTerm
    <3>2. d.terms[n].layer = "absent" \/ ~Governs(d.terms[n])
      BY <1>3, <2>1, <2>2 DEF SettledTerm, Governs, NoTerm
    <3>3. e.terms[n].layer = "absent" /\ n \in e.retTerms
      BY <1>1, <1>2, <2>2, <3>1
    <3>4. QED  BY <2>2, <3>2, <3>3, LivesAre DEF Abstract!Withdrawal
  <2>3. CASE n \notin d.retTerms /\ n \in SeedTerm
    <3>1. e.terms[n] = SeedTermEntry(n)
      BY <1>1, <2>3
    <3>2. d.terms[n].layer # "absent"
      BY <2>1, <2>3 DEF SettledTerm
    <3>3. ~IsPending(d.terms[n])
      BY <2>1, <2>3 DEF SettledTerm
    <3>4. n \notin GenericTerm => d.terms[n].layer = "company" /\ d.terms[n].status # "none"
      BY <2>1, <2>3, <3>2 DEF SettledTerm
    <3>5. n \in GenericTerm => d.terms[n].layer = "generic"
      BY <2>1, <3>2 DEF SettledTerm
    <3>6. Governs(d.terms[n])
      BY <2>1, <3>3, <3>4, <3>5 DEF IsPending, Governs, TermEntry, Status
    <3>7. QED  BY <1>2, <3>1, <3>2, <3>6, LivesAre DEF Abstract!Withdrawal
  <2>4. CASE n \notin d.retTerms /\ n \notin SeedTerm
    <3>1. d.terms[n].layer # "generic"
      BY <1>3, <2>1, <2>4 DEF SettledTerm
    <3>2. e.terms[n] = IF Keeps(d.terms[n]) THEN d.terms[n] ELSE NoTerm
      BY <1>1, <2>4
    <3>3. CASE Keeps(d.terms[n])
      BY <1>1, <3>2, <3>3, LivesAre DEF Keeps, Governs, Abstract!Withdrawal
    <3>4. CASE ~Keeps(d.terms[n])
      <4>1. d.terms[n].layer = "absent" \/ ~Governs(d.terms[n])
        BY <2>1, <3>1, <3>4 DEF Keeps, Governs, TermEntry, Layer
      <4>2. e.terms[n].layer = "absent" /\ n \notin e.retTerms
        BY <1>1, <1>2, <2>4, <3>2, <3>4
      <4>3. QED  BY <2>4, <4>1, <4>2, LivesAre DEF Abstract!Withdrawal
    <3>5. QED  BY <3>3, <3>4
  <2>5. QED  BY <2>2, <2>3, <2>4
<1>6. QED  BY <1>4, <1>5 DEF TagLives, TermLives, e

LEMMA EmptyReseeded ==
  /\ TagLives(Reseeded(Empty)) = TagLives(Seed)
  /\ TermLives(Reseeded(Empty)) = TermLives(Seed)
<1>1. /\ Empty.retTags = {} /\ Empty.retTerms = {}
      /\ \A t \in Tag : Empty.tags[t] = NoTag
      /\ \A n \in Term : Empty.terms[n] = NoTerm
  BY EmptyType DEF Empty, Seed
<1>2. ~Keeps(NoTag) /\ ~Keeps(NoTerm)
  BY DEF Keeps, NoTag, NoTerm
<1>3. /\ Reseeded(Empty).retTags = Seed.retTags /\ Reseeded(Empty).retTerms = Seed.retTerms
      /\ Reseeded(Empty).tags = Seed.tags
      /\ Reseeded(Empty).terms = Seed.terms
  BY <1>1, <1>2 DEF Reseeded, Seed
<1>4. QED  BY <1>3, LivesSame

LEMMA ResetIs ==
  ASSUME FileIsReadable, IInv, Reset
  PROVE  LET prev == IF mem # NoDoc THEN mem ELSE IF disk # NoDoc THEN disk ELSE Empty
         IN  /\ mem' = Reseeded(prev) /\ mem' # NoDoc
             /\ mem'.retTags = prev.retTags /\ mem'.retTerms = prev.retTerms
<1>1. PICK prev \in Previous : Answer(Reseeded(prev))
  BY DEF Reset
<1>2. mem' = Reseeded(prev) /\ mem' # NoDoc
  BY <1>1, PrevSafe, ReseededSafe, SafeExists DEF Answer
<1>3. mem'.retTags = prev.retTags /\ mem'.retTerms = prev.retTerms
  BY <1>2 DEF Reseeded
<1>4. prev = IF mem # NoDoc THEN mem ELSE IF disk # NoDoc THEN disk ELSE Empty
  BY DEF Previous, FileIsReadable
<1>5. QED  BY <1>2, <1>3, <1>4

LEMMA ResetLives ==
  ASSUME FileIsReadable, NoSave, NoBaselineRows, IInv, LifeInv, Reset
  PROVE  Abstract!Reseed
<1> DEFINE prev == IF mem # NoDoc THEN mem ELSE IF disk # NoDoc THEN disk ELSE Empty
<1>1. mem' = Reseeded(prev) /\ mem' # NoDoc
  BY ResetIs
<1>2. prev = IF mem # NoDoc THEN mem ELSE IF disk # NoDoc THEN disk ELSE Empty
  OBVIOUS
<1> HIDE DEF prev
<1>3. CASE mem # NoDoc \/ disk # NoDoc
  <2>1. Safe(prev) /\ Settled(prev)
    BY <1>2, <1>3 DEF IInv, LifeInv
  <2>2. TagLife = TagLives(prev) /\ TermLife = TermLives(prev)
    BY <1>2, <1>3, <2>1, Served, MergeLives
  <2>3. QED  BY <1>1, <2>1, <2>2, ServedNext, ReseededLives DEF Abstract!Reseed
<1>4. CASE mem = NoDoc /\ disk = NoDoc
  <2>1. /\ TagLife = TagLives(Seed) /\ TermLife = TermLives(Seed)
        /\ TagLife' = TagLives(Seed) /\ TermLife' = TermLives(Seed)
    BY <1>1, <1>2, <1>4, Served, ServedNext, EmptyReseeded
  <2>2. /\ TagLives(Seed) = [t \in Tag |-> Abstract!Withdrawal(TagLives(Seed)[t])]
        /\ TermLives(Seed) = [n \in Term |-> Abstract!Withdrawal(TermLives(Seed)[n])]
    BY SeedLives DEF Abstract!Withdrawal
  <2>3. QED  BY <1>1, <1>4, <2>1, <2>2 DEF Abstract!Reseed
<1>5. QED  BY <1>3, <1>4

LEMMA RefreshLives ==
  ASSUME NoSave, IInv, LifeInv, Refresh
  PROVE  /\ \/ \E n \in Term : /\ Abstract!RetireName(TermLife, TermLife', n)
                              /\ TermLife[n] # "governed" /\ UNCHANGED TagLife
            \/ \E olds \in SUBSET Term, terms \in {{}} \cup {{n} : n \in Term} :
                 Abstract!Correct(olds, terms)
         /\ mem # NoDoc /\ mem' # NoDoc
         /\ mem'.retTags = mem.retTags /\ mem.retTerms \subseteq mem'.retTerms
<1>1. PICK r \in Rows, n \in Term :
        RefreshPruned(r, n) \/ RefreshKnown(r, n) \/ RefreshRenamed(r, n)
  BY DEF Refresh
<1>2. mem # NoDoc /\ PendingAlone(mem)
  BY <1>1 DEF RefreshPruned, RefreshKnown, RefreshRenamed, LifeInv, Settled
<1>3. CASE RefreshPruned(r, n)
  BY <1>2, <1>3, PruneIs, PruneLives, NullAssumption
<1>4. CASE RefreshKnown(r, n) \/ RefreshRenamed(r, n)
  <2>1. PICK olds, name : Corrected(mem, mem', olds, name)
    BY <1>2, <1>4, RefreshIs
  <2>2. olds \subseteq Term /\ name \in Term /\ Abstract!Correct(olds, {name})
    BY <1>2, <2>1, CorrectLives
  <2>3. /\ mem' # NoDoc /\ mem'.retTags = mem.retTags /\ mem'.retTerms = mem.retTerms
    BY <2>1, NullAssumption DEF Corrected
  <2>4. QED  BY <1>2, <2>2, <2>3
<1>5. QED  BY <1>1, <1>3, <1>4

(* The dictionary implements the life cycles, for every vocabulary, pack   *)
(* and set of rows: each request, however many entries, files and usage    *)
(* sets it rewrites, is one step of a tag's or a term's life or none, and  *)
(* a restart is not observable (the contract of tagdict.py's header).      *)
THEOREM DictionaryImplementsVocabularyLife ==
  ASSUME WritesSucceed, FileIsReadable, NoReplace, NoBaselineRows
  PROVE  Spec => ImplementsVocabularyLife
<1>0. NoSave /\ SaveOrRefresh
  BY DEF NoReplace, SaveOrRefresh
<1>1. Init => Abstract!LifeInit
  BY Served, SeedLives DEF Init, Abstract!LifeInit
<1>2. IInv /\ LifeInv /\ [Next]_vars => [Abstract!LifeNext]_(Abstract!lives)
  <2> SUFFICES ASSUME IInv, LifeInv, [Next]_vars
               PROVE  Abstract!LifeNext \/ UNCHANGED <<TagLife, TermLife>>
    BY DEF Abstract!lives
  <2>1. CASE Reload \/ Restart \/ Edit \/ Snapshot \/ UNCHANGED vars
    BY <1>0, <2>1, ReloadLives, RestartLives, QuietLives
       DEF Edit, OpenPage, AddTerm, AddTag, AddRule, Snapshot, vars
  <2>2. CASE Approve
    BY <2>2, ApproveTagLives, ApproveTermLives
       DEF Approve, Abstract!LifeNext, Abstract!StewardOnTag, Abstract!StewardOnTerm
  <2>3. CASE Retire
    BY <2>3, RejectTagLives, RejectTermLives
       DEF Retire, Abstract!LifeNext, Abstract!StewardOnTag, Abstract!StewardOnTerm
  <2>4. CASE Scan
    <3>1. PICK r \in Rows, canon \in Term \cup {NoName} : Accrete(r, canon)
      BY <2>4 DEF Scan
    <3>2. r.tags \in SUBSET Tag
      BY InputAssumption DEF Row
    <3>3. QED  BY <3>1, <3>2, ScanLives DEF Abstract!LifeNext
  <2>5. CASE Refresh
    BY <1>0, <2>5, RefreshLives DEF Abstract!LifeNext, Abstract!StewardOnTerm
  <2>6. CASE Reset
    BY <1>0, <2>6, ResetLives DEF Abstract!LifeNext
  <2>7. CASE Save \/ Restore \/ FactoryReset
    BY <2>7 DEF Save, Restore, FactoryReset, NoReplace, NoSave
  <2>8. QED  BY <2>1, <2>2, <2>3, <2>4, <2>5, <2>6, <2>7 DEF Next
<1>3. QED
  BY <1>0, <1>1, <1>2, DocumentsStaySafe, DocumentsStaySettled, PTL
     DEF Spec, Abstract!LifeSpec, ImplementsVocabularyLife

-----------------------------------------------------------------------------
(* The same steps, read for what governs and for what is retired.          *)

LEMMA GovernedIs ==
  /\ GovernedTags(Effective) = {t \in Tag : TagLife[t] = "governed"}
  /\ GovernedTerms(Effective) = {n \in Term : TermLife[n] = "governed"}
<1>1. /\ \A t \in Tag : TagLife[t] = "governed" <=>
           Effective.tags[t].layer # "absent" /\ Governs(Effective.tags[t])
      /\ \A n \in Term : TermLife[n] = "governed" <=>
           Effective.terms[n].layer # "absent" /\ Governs(Effective.terms[n])
  BY DEF TagLife, TermLife, LifeOf
<1>2. QED  BY <1>1 DEF GovernedTags, GovernedTerms, TagsOf, TermsOf

LEMMA GovernedNext ==
  /\ GovernedTags(Effective') = {t \in Tag : TagLife'[t] = "governed"}
  /\ GovernedTerms(Effective') = {n \in Term : TermLife'[n] = "governed"}
<1>1. /\ \A t \in Tag : TagLife'[t] = "governed" <=>
           Effective'.tags[t].layer # "absent" /\ Governs(Effective'.tags[t])
      /\ \A n \in Term : TermLife'[n] = "governed" <=>
           Effective'.terms[n].layer # "absent" /\ Governs(Effective'.terms[n])
  BY DEF TagLife, TermLife, LifeOf
<1>2. QED  BY <1>1 DEF GovernedTags, GovernedTerms, TagsOf, TermsOf

(* Proposals, their withdrawals and reseeds leave what governs alone.      *)
SameGoverned == /\ \A t \in Tag : TagLife'[t] = "governed" <=> TagLife[t] = "governed"
                /\ \A n \in Term : TermLife'[n] = "governed" <=> TermLife[n] = "governed"

LEMMA ProposalsDoNotGovern ==
  ASSUME \/ \E tags, terms : Abstract!ScanRow(tags, terms)
         \/ \E olds, terms : Abstract!Correct(olds, terms)
         \/ Abstract!Reseed
         \/ UNCHANGED <<TagLife, TermLife>>
  PROVE  SameGoverned
<1>1. ASSUME NEW tags, NEW terms, Abstract!ScanRow(tags, terms) PROVE SameGoverned
  BY <1>1 DEF Abstract!ScanRow, Abstract!Proposal, SameGoverned
<1>2. ASSUME NEW olds, NEW terms, Abstract!Correct(olds, terms) PROVE SameGoverned
  BY <1>2 DEF Abstract!Correct, Abstract!Proposal, Abstract!Withdrawal, SameGoverned
<1>3. CASE Abstract!Reseed
  BY <1>3 DEF Abstract!Reseed, Abstract!Withdrawal, SameGoverned
<1>4. CASE UNCHANGED <<TagLife, TermLife>>
  BY <1>4 DEF SameGoverned
<1>5. QED  BY <1>1, <1>2, <1>3, <1>4

LEMMA StepGoverns ==
  ASSUME WritesSucceed, FileIsReadable, NoSave, NoBaselineRows,
         IInv, LifeInv, [Next]_vars
  PROVE  Approve \/ Retire \/ Replace \/ SameGoverned
<1>1. CASE Reload \/ Restart \/ Edit \/ Snapshot \/ UNCHANGED vars
  BY <1>1, ReloadLives, RestartLives, QuietLives, ProposalsDoNotGovern
     DEF Edit, OpenPage, AddTerm, AddTag, AddRule, Snapshot, vars
<1>2. CASE Scan
  <2>1. PICK r \in Rows, canon \in Term \cup {NoName} : Accrete(r, canon)
    BY <1>2 DEF Scan
  <2>2. QED  BY <2>1, ScanLives, ProposalsDoNotGovern
<1>3. CASE Refresh
  <2>1. ASSUME NEW n \in Term, Abstract!RetireName(TermLife, TermLife', n),
               TermLife[n] # "governed", UNCHANGED TagLife
        PROVE  SameGoverned
    <3>1. \A x \in Term : TermLife'[x] = IF x = n THEN "retired" ELSE TermLife[x]
      BY <2>1 DEF Abstract!RetireName, TermLife
    <3>2. QED  BY <2>1, <3>1 DEF SameGoverned
  <2>2. QED  BY <1>3, <2>1, RefreshLives, ProposalsDoNotGovern
<1>4. CASE Reset
  BY <1>4, ResetLives, ProposalsDoNotGovern
<1>5. QED  BY <1>1, <1>2, <1>3, <1>4 DEF Next, Replace

LEMMA RetireGoverns ==
  ASSUME IInv, Retire
  PROVE  /\ \A t \in Tag : TagLife'[t] = "governed" => TagLife[t] = "governed"
         /\ \A n \in Term : TermLife'[n] = "governed" => TermLife[n] = "governed"
<1>1. ASSUME NEW t \in Tag, RejectTag(t)
      PROVE  /\ \A x \in Tag : TagLife'[x] = "governed" => TagLife[x] = "governed"
             /\ UNCHANGED TermLife
  <2>1. \A x \in Tag : TagLife'[x] = IF x = t THEN "retired" ELSE TagLife[x]
    BY <1>1, RejectTagLives DEF Abstract!RetireName, TagLife
  <2>2. QED  BY <1>1, <2>1, RejectTagLives
<1>2. ASSUME NEW n \in Term, RejectTerm(n) \/ \E into \in Term : AliasTerm(n, into)
      PROVE  /\ \A x \in Term : TermLife'[x] = "governed" => TermLife[x] = "governed"
             /\ UNCHANGED TagLife
  <2>1. \A x \in Term : TermLife'[x] = IF x = n THEN "retired" ELSE TermLife[x]
    BY <1>2, RejectTermLives DEF Abstract!RetireName, TermLife
  <2>2. QED  BY <1>2, <2>1, RejectTermLives
<1>3. QED  BY <1>1, <1>2 DEF Retire

(* Nothing starts to govern but by a steward's approval or by replacing    *)
(* the document: not by a scan, a correction, a reseed or a restart.       *)
THEOREM StewardsAloneGovern ==
  ASSUME WritesSucceed, FileIsReadable, NoSave, NoBaselineRows
  PROVE  Spec => OnlyAStewardGoverns
<1>1. SaveOrRefresh
  BY DEF SaveOrRefresh
<1>2. IInv /\ LifeInv /\ [Next]_vars =>
        [\/ Approve \/ Replace
         \/ /\ GovernedTags(Effective') \subseteq GovernedTags(Effective)
            /\ GovernedTerms(Effective') \subseteq GovernedTerms(Effective)]_vars
  BY StepGoverns, RetireGoverns, GovernedIs, GovernedNext DEF SameGoverned
<1>3. QED
  BY <1>1, <1>2, DocumentsStaySafe, DocumentsStaySettled, PTL DEF Spec, OnlyAStewardGoverns

(* What governs stays until a steward retires it or replaces the document: *)
(* no scan, correction, reseed or restart drops a governed entry.          *)
THEOREM GovernedStays ==
  ASSUME WritesSucceed, FileIsReadable, NoSave, NoBaselineRows
  PROVE  Spec => GovernedUntouched
<1>1. SaveOrRefresh
  BY DEF SaveOrRefresh
<1>2. ASSUME IInv, Approve
      PROVE  /\ \A t \in Tag : TagLife[t] = "governed" => TagLife'[t] = "governed"
             /\ \A n \in Term : TermLife[n] = "governed" => TermLife'[n] = "governed"
  <2>1. ASSUME NEW t \in Tag, ApproveTag(t)
        PROVE  /\ \A x \in Tag : TagLife[x] = "governed" => TagLife'[x] = "governed"
               /\ UNCHANGED TermLife
    <3>1. \A x \in Tag : TagLife'[x] = IF x = t THEN "governed" ELSE TagLife[x]
      BY <1>2, <2>1, ApproveTagLives DEF Abstract!ApproveName, TagLife
    <3>2. QED  BY <1>2, <2>1, <3>1, ApproveTagLives
  <2>2. ASSUME NEW n \in Term, ApproveTerm(n)
        PROVE  /\ \A x \in Term : TermLife[x] = "governed" => TermLife'[x] = "governed"
               /\ UNCHANGED TagLife
    <3>1. \A x \in Term : TermLife'[x] = IF x = n THEN "governed" ELSE TermLife[x]
      BY <1>2, <2>2, ApproveTermLives DEF Abstract!ApproveName, TermLife
    <3>2. QED  BY <1>2, <2>2, <3>1, ApproveTermLives
  <2>3. QED  BY <1>2, <2>1, <2>2 DEF Approve
<1>3. IInv /\ LifeInv /\ [Next]_vars =>
        [\/ Retire \/ Replace
         \/ /\ GovernedTags(Effective) \subseteq GovernedTags(Effective')
            /\ GovernedTerms(Effective) \subseteq GovernedTerms(Effective')]_vars
  BY <1>2, StepGoverns, GovernedIs, GovernedNext DEF SameGoverned
<1>4. QED
  BY <1>1, <1>3, DocumentsStaySafe, DocumentsStaySettled, PTL DEF Spec, GovernedUntouched

(* The tombstones that will be served.                                     *)
LEMMA ServedTombs ==
  ASSUME IInv
  PROVE  /\ mem # NoDoc => /\ Effective.retTags = mem.retTags
                           /\ Effective.retTerms = mem.retTerms
         /\ mem = NoDoc /\ disk # NoDoc => /\ Effective.retTags = disk.retTags
                                           /\ Effective.retTerms = disk.retTerms
         /\ mem = NoDoc /\ disk = NoDoc => /\ Effective.retTags = {}
                                           /\ Effective.retTerms = {}
<1>1. disk # NoDoc => disk \in Doc
  BY DEF IInv, Safe
<1>2. Seed.retTags = {} /\ Seed.retTerms = {}
  BY DEF Seed
<1>3. QED  BY <1>1, <1>2, MergeType DEF Effective

LEMMA ServedTombsNext ==
  ASSUME IInv
  PROVE  /\ mem' # NoDoc => /\ Effective'.retTags = mem'.retTags
                            /\ Effective'.retTerms = mem'.retTerms
         /\ mem' = NoDoc /\ disk # NoDoc /\ disk' = disk =>
              Effective'.retTags = disk.retTags /\ Effective'.retTerms = disk.retTerms
<1>1. disk # NoDoc => disk \in Doc
  BY DEF IInv, Safe
<1>2. mem' # NoDoc => Effective' = mem'
  BY DEF Effective
<1>3. mem' = NoDoc /\ disk # NoDoc /\ disk' = disk => Effective' = MergeSeed(disk)
  <2>1. disk' = disk => MergeSeed(disk') = MergeSeed(disk)
    OBVIOUS
  <2>2. mem' = NoDoc /\ disk' # NoDoc => Effective' = MergeSeed(disk')
    BY DEF Effective
  <2>3. QED  BY <2>1, <2>2
<1>4. QED  BY <1>1, <1>2, <1>3, MergeType

(* A correction of proposals lifts no tombstone.                           *)
LEMMA RefreshTombs ==
  ASSUME IInv, Refresh
  PROVE  /\ mem # NoDoc /\ mem' # NoDoc
         /\ mem'.retTags = mem.retTags /\ mem.retTerms \subseteq mem'.retTerms
<1>1. PICK r \in Rows, n \in Term :
        RefreshPruned(r, n) \/ RefreshKnown(r, n) \/ RefreshRenamed(r, n)
  BY DEF Refresh
<1>2. mem # NoDoc /\ mem \in Doc /\ r.term \in Term
  BY <1>1, InputAssumption DEF RefreshPruned, RefreshKnown, RefreshRenamed, IInv, Safe, Row
<1>3. CASE RefreshPruned(r, n)
  BY <1>2, <1>3, PruneIs, NullAssumption
<1>4. CASE RefreshRenamed(r, n)
  <2>1. mem' = Moved(mem, n, r.term) /\ IsPending(mem.terms[n]) /\ n \in TermsOf(mem)
    BY <1>4 DEF RefreshRenamed, Persist, PendingFrom
  <2>2. r.term # n
    BY <1>2, <1>4, <2>1 DEF RefreshRenamed, Candidates
  <2>3. QED  BY <1>2, <2>1, <2>2, MovedIs, NullAssumption
<1>5. CASE RefreshKnown(r, n)
  <2> DEFINE name == Recased(mem, n, r.term)
             d == IF name = n THEN mem ELSE Moved(mem, n, name)
  <2>1. n \in TermsOf(mem)
    BY <1>5 DEF RefreshKnown, Candidates
  <2>2. name = n \/ (name # n /\ name = r.term /\ IsPending(mem.terms[n]))
    BY DEF Recased
  <2>3. \/ mem' = d
        \/ \E stale \in PendingFrom(mem, r.source) \ {n, name} : mem' = Folded(d, stale, name)
    BY <1>5 DEF RefreshKnown, Persist
  <2>4. d = IF name = n THEN mem ELSE Moved(mem, n, name)
    OBVIOUS
  <2> HIDE DEF name, d
  <2>5. /\ d \in Doc /\ name \in TermsOf(d)
        /\ d.retTags = mem.retTags /\ d.retTerms = mem.retTerms
    BY <1>2, <2>1, <2>2, <2>4, MovedIs
  <2>6. ASSUME NEW stale \in PendingFrom(mem, r.source) \ {n, name},
               mem' = Folded(d, stale, name)
        PROVE  /\ mem' \in Doc
               /\ mem'.retTags = d.retTags /\ mem'.retTerms = d.retTerms
    <3>1. stale \in Term /\ stale # name
      BY DEF PendingFrom, TermsOf
    <3>2. QED  BY <2>5, <2>6, <3>1, FoldedIs
  <2>7. QED  BY <1>2, <2>3, <2>5, <2>6, NullAssumption
<1>6. QED  BY <1>1, <1>3, <1>4, <1>5

(* While writes succeed the file has the tombstones of the document that   *)
(* is served, whatever is saved, restored or wiped.                        *)
SameTombs == mem # NoDoc => /\ disk # NoDoc
                            /\ mem.retTags = disk.retTags /\ mem.retTerms = disk.retTerms

LEMMA TombsStep ==
  ASSUME WritesSucceed, IInv, SameTombs, [Next]_vars
  PROVE  SameTombs'
<1>1. CASE LoadFile
  BY <1>1, MergeType DEF LoadFile, SameTombs, IInv, Safe
<1>2. CASE LoadFresh \/ Approve \/ Retire \/ Scan \/ Refresh \/ Save \/ Reset
  <2> DEFINE Written == Persist(mem') \/ Answer(mem')
  <2>a. LoadFresh \/ Save \/ Reset => Written
    BY DEF LoadFresh, Save, Reset, Persist, Answer
  <2>b. Approve => Written
    BY DEF Approve, ApproveTag, ApproveTerm, Persist, Answer
  <2>c. Retire => Written
    BY DEF Retire, RejectTag, RejectTerm, AliasTerm, Persist, Answer
  <2>d. Scan => Written
    BY DEF Scan, Accrete, Persist
  <2>e. Refresh => Written
    BY DEF Refresh, RefreshPruned, RefreshKnown, RefreshRenamed, Persist
  <2>1. Persist(mem') \/ Answer(mem')
    BY <1>2, <2>a, <2>b, <2>c, <2>d, <2>e
  <2>2. disk' = mem'
    BY <2>1 DEF Persist, Answer, WritesSucceed
  <2>3. QED  BY <2>2 DEF SameTombs
<1>3. CASE Edit \/ Snapshot \/ UNCHANGED vars
  BY <1>3 DEF Edit, OpenPage, AddTerm, AddTag, AddRule, Snapshot, vars, SameTombs
<1>4. CASE Restart \/ Restore \/ FactoryReset
  BY <1>4 DEF Restart, Restore, FactoryReset, SameTombs
<1>5. QED  BY <1>1, <1>2, <1>3, <1>4 DEF Next, Reload

(* A retirement is durable, whatever else was saved, restored or wiped     *)
(* before: no reload, scan, correction, reseed or restart lifts a          *)
(* tombstone, only approving the name again does, or putting another       *)
(* document in place (review, accrete, refresh_pending, reset, load).      *)
THEOREM RetirementsLast ==
  ASSUME WritesSucceed, FileIsReadable
  PROVE  Spec => TombstonesDurable
<1> DEFINE Lasting == /\ \A t \in Effective.retTags \ Effective'.retTags : ApproveTag(t)
                      /\ \A n \in Effective.retTerms \ Effective'.retTerms : ApproveTerm(n)
<1>1. IInv /\ SameTombs /\ Next => Replace \/ Lasting
  <2> SUFFICES ASSUME IInv, SameTombs, Next PROVE Replace \/ Lasting
    OBVIOUS
  <2>1. CASE Reload
    <3>1. CASE LoadFile
      <4>1. disk # NoDoc /\ disk \in Doc /\ mem = NoDoc /\ mem' = MergeSeed(disk)
        BY <3>1 DEF LoadFile, IInv, Safe
      <4>2. mem' # NoDoc
        BY <4>1, MergeType, NullAssumption
      <4>3. QED  BY <4>1, <4>2, MergeType, ServedTombs, ServedTombsNext
    <3>2. CASE LoadFresh
      BY <3>2, ServedTombs DEF LoadFresh, FileIsReadable
    <3>3. QED  BY <2>1, <3>1, <3>2 DEF Reload
  <2>2. CASE Restart
    BY <2>2, ServedTombs, ServedTombsNext DEF Restart, SameTombs
  <2>3. CASE Edit \/ Snapshot
    <3>1. Effective' = Effective
      BY <2>3 DEF Edit, OpenPage, AddTerm, AddTag, AddRule, Snapshot, Effective,
                  MergeSeed, MergedTag, MergedTerm, MergedRules
    <3>2. QED  BY <3>1
  <2>4. CASE Approve
    <3>1. ASSUME NEW t \in Tag, ApproveTag(t) PROVE Lasting
      BY <3>1, ApproveTagLives, ServedTombs, ServedTombsNext DEF ApproveTag
    <3>2. ASSUME NEW n \in Term, ApproveTerm(n) PROVE Lasting
      BY <3>2, ApproveTermLives, ServedTombs, ServedTombsNext DEF ApproveTerm
    <3>3. QED  BY <2>4, <3>1, <3>2 DEF Approve
  <2>5. CASE Retire
    <3>1. /\ mem # NoDoc /\ mem' # NoDoc
          /\ mem.retTags \subseteq mem'.retTags /\ mem.retTerms \subseteq mem'.retTerms
      BY <2>5, RejectTagIs, RejectTermIs, NullAssumption
         DEF Retire, RejectTag, RejectTerm, AliasTerm
    <3>2. QED  BY <3>1, ServedTombs, ServedTombsNext
  <2>6. CASE Scan
    <3>1. PICK r \in Rows, canon \in Term \cup {NoName} : Accrete(r, canon)
      BY <2>6 DEF Scan
    <3>2. QED  BY <3>1, ScanLives, ServedTombs, ServedTombsNext DEF Accrete
  <2>7. CASE Refresh
    BY <2>7, RefreshTombs, ServedTombs, ServedTombsNext
  <2>8. CASE Reset
    BY <2>8, ResetIs, ServedTombs, ServedTombsNext
  <2>9. QED
    BY <2>1, <2>2, <2>3, <2>4, <2>5, <2>6, <2>7, <2>8 DEF Next, Replace
<1>2. IInv /\ SameTombs /\ [Next]_vars => [Replace \/ Lasting]_vars
  BY <1>1
<1>3. Init => SameTombs
  BY DEF Init, SameTombs
<1>4. IInv /\ SameTombs /\ [Next]_vars => SameTombs'
  BY TombsStep
<1>5. QED
  BY <1>2, <1>3, <1>4, DocumentsStaySafe, PTL DEF Spec, TombstonesDurable

-----------------------------------------------------------------------------
(* Names and usage counts.                                                 *)

(* No two seeded terms claim one name; and a reseed, which puts back the   *)
(* seed's aliases, is left out unless the seed has none.                   *)
SeedsClear ==
  /\ \A key \in Term : \A x, y \in Candidates(Seed, key) : x = y
  /\ "reset" \in Ops => \A n \in SeedTerm : SeedAliases[n] = {}

(* No row is a table's Record row, and the grid corrects no proposals:     *)
(* both leave keys in the usage sets that are no term's name.              *)
CountedRows == "refresh" \notin Ops /\ \A r \in Rows : ~r.record

Unambiguous(d) == \A key \in Term : \A x, y \in Candidates(d, key) : x = y

Counted(d) == \A t \in Tag : \A k \in d.usage[t] : \E n \in TermsOf(d) : Fold[n] = k

Clear(d) == Unambiguous(d) /\ (CountedRows => Counted(d))

ClearInv == /\ mem # NoDoc => Clear(mem)
            /\ disk # NoDoc => Clear(disk)
            /\ zip # NoDoc => Clear(zip)

LEMMA FoldType == \A n \in Term : Fold[n] \in Term
BY VocabularyAssumption

LEMMA CandidatesAre ==
  ASSUME NEW d, NEW key, NEW n
  PROVE  n \in Candidates(d, key) <=>
           /\ n \in Term /\ d.terms[n].layer # "absent"
           /\ Fold[n] = key \/ \E a \in d.terms[n].aliases : Fold[a] = key
BY DEF Candidates, TermsOf

LEMMA UnambiguousLess ==
  ASSUME NEW d, NEW e, Unambiguous(d),
         \A n \in TermsOf(e) : /\ n \in TermsOf(d)
                               /\ e.terms[n].aliases \subseteq d.terms[n].aliases
  PROVE  Unambiguous(e)
<1>1. \A key \in Term : Candidates(e, key) \subseteq Candidates(d, key)
  BY DEF Candidates
<1>2. QED  BY <1>1 DEF Unambiguous

LEMMA UnambiguousRemap ==
  ASSUME NEW d \in Doc, NEW dropped, Unambiguous(d)
  PROVE  Unambiguous(Remap(d, dropped))
<1>1. Remap(d, dropped).terms = d.terms
  BY RemapType
<1>2. QED  BY <1>1, UnambiguousLess DEF TermsOf

(* Remap re-keys the usage sets: what is left of them names terms if every *)
(* key that is not dropped resolves.                                       *)
LEMMA CountedRemap ==
  ASSUME NEW d \in Doc, NEW dropped,
         \A t \in Tag : \A k \in d.usage[t] \ dropped : Candidates(d, k) # {}
  PROVE  Counted(Remap(d, dropped))
<1> DEFINE u == [t \in Tag |-> {KeyOf(d, k) : k \in d.usage[t] \ dropped}]
           e == Remap(d, dropped)
<1>1. ASSUME NEW k \in Term, Candidates(d, k) # {}
      PROVE  \E n \in TermsOf(d) : Fold[n] = KeyOf(d, k)
  <2>1. (CHOOSE n \in Candidates(d, k) : TRUE) \in Candidates(d, k)
    BY <1>1
  <2>2. QED  BY <1>1, <2>1 DEF KeyOf, Candidates
<1>2. \A t \in Tag : d.usage[t] \subseteq Term
  BY DEF Doc
<1>3. \A t \in Tag : \A k \in u[t] : \E n \in TermsOf(d) : Fold[n] = k
  BY <1>1, <1>2
<1>4. e = [d EXCEPT !.usage = u]
  BY DEF Remap
<1> HIDE DEF u, e
<1>5. e.usage = u /\ e.terms = d.terms
  BY <1>4 DEF Doc
<1>6. QED  BY <1>3, <1>5 DEF Counted, TermsOf, e

(* The same, from a document that counts its terms: each of them, or its   *)
(* name, still resolves.                                                   *)
LEMMA CountedAfter ==
  ASSUME NEW d, NEW e \in Doc, NEW dropped, Counted(d),
         \A t \in Tag : e.usage[t] \subseteq d.usage[t],
         \A n \in TermsOf(d) : Fold[n] \notin dropped => Candidates(e, Fold[n]) # {}
  PROVE  Counted(Remap(e, dropped))
<1>1. \A t \in Tag : \A k \in e.usage[t] \ dropped : Candidates(e, k) # {}
  BY DEF Counted
<1>2. QED  BY <1>1, CountedRemap

LEMMA StillThere ==
  ASSUME NEW e, NEW n \in TermsOf(e)
  PROVE  Candidates(e, Fold[n]) # {}
BY DEF Candidates, TermsOf

-----------------------------------------------------------------------------
(* One lemma per change of the document.                                   *)

LEMMA SeedClear == ASSUME SeedsClear PROVE Clear(Seed)
BY DEF SeedsClear, Clear, Unambiguous, Counted, Seed

LEMMA MergeClear ==
  ASSUME NEW d, Safe(d), Settled(d), Clear(d)
  PROVE  Clear(MergeSeed(d))
<1> DEFINE m == [d EXCEPT !.tags  = [t \in Tag |-> MergedTag(d, t)],
                          !.terms = [n \in Term |-> MergedTerm(d, n)],
                          !.rules = MergedRules(d)]
           e == MergeSeed(d)
<1>1. d \in Doc /\ e \in Doc /\ \A n \in Term : e.terms[n] = MergedTerm(d, n)
  BY MergeType DEF Safe
<1>2. \A n \in Term : /\ e.terms[n].layer = "absent" <=> d.terms[n].layer = "absent"
                      /\ e.terms[n].aliases = d.terms[n].aliases
  BY <1>1, MergedTermIs
<1>3. Unambiguous(e)
  BY <1>2, UnambiguousLess DEF Clear, TermsOf
<1>4. ASSUME Counted(d) PROVE Counted(e)
  <2>1. /\ e = Remap(m, {}) /\ m.usage = d.usage
        /\ m.terms = [n \in Term |-> MergedTerm(d, n)]
    BY <1>1 DEF MergeSeed, Doc
  <2>2. m \in Doc
    <3>1. [t \in Tag |-> MergedTag(d, t)] \in [Tag -> TagEntry]
      <4>1. \A t \in Tag : MergedTag(d, t) = e.tags[t]
        BY <1>1, MergeType
      <4>2. QED  BY <1>1, <4>1 DEF Doc
    <3>2. [n \in Term |-> MergedTerm(d, n)] \in [Term -> TermEntry]
      BY <1>1 DEF Doc
    <3>3. MergedRules(d) \subseteq Rule
      BY <1>1, VocabularyAssumption DEF MergedRules, Doc
    <3>4. QED  BY <1>1, <3>1, <3>2, <3>3 DEF Doc
  <2>3. \A n \in TermsOf(d) : n \in TermsOf(m)
    BY <1>1, <1>2, <2>1 DEF TermsOf
  <2> HIDE DEF m, e
  <2>4. \A n \in TermsOf(d) : Candidates(m, Fold[n]) # {}
    BY <2>3, StillThere
  <2>5. QED  BY <1>4, <2>1, <2>2, <2>4, CountedAfter
<1>5. QED  BY <1>3, <1>4 DEF Clear

(* A document with the same terms by layer and alias, and no more usage.   *)
LEMMA SameNamesClear ==
  ASSUME NEW d, Clear(d), NEW e \in Doc,
         \A t \in Tag : e.usage[t] \subseteq d.usage[t],
         \A n \in Term : /\ e.terms[n].layer = d.terms[n].layer
                         /\ e.terms[n].aliases = d.terms[n].aliases
  PROVE  Clear(Remap(e, {}))
<1>1. Unambiguous(e)
  BY UnambiguousLess DEF Clear, TermsOf
<1>2. \A n \in TermsOf(d) : n \in TermsOf(e)
  BY DEF TermsOf
<1>3. Counted(d) => Counted(Remap(e, {}))
  BY <1>2, StillThere, CountedAfter
<1>4. QED  BY <1>1, <1>3, UnambiguousRemap DEF Clear

(* The entry of n goes, and its name with it.                              *)
LEMMA DroppedClear ==
  ASSUME NEW d, Clear(d), NEW e \in Doc, NEW n \in Term, e.usage = d.usage,
         e.terms[n] = NoTerm, \A m \in Term \ {n} : e.terms[m] = d.terms[m]
  PROVE  Clear(Remap(e, {Fold[n]}))
<1>1. \A m \in TermsOf(e) : m \in TermsOf(d) /\ e.terms[m] = d.terms[m]
  BY DEF TermsOf, NoTerm
<1>2. Unambiguous(e)
  BY <1>1, UnambiguousLess DEF Clear
<1>3. \A m \in TermsOf(d) : Fold[m] # Fold[n] => m \in TermsOf(e)
  BY DEF TermsOf
<1>4. Counted(d) => Counted(Remap(e, {Fold[n]}))
  BY <1>3, StillThere, CountedAfter
<1>5. QED  BY <1>2, <1>4, UnambiguousRemap DEF Clear

(* The entry of n is folded into another one.                              *)
LEMMA FoldedUnambiguous ==
  ASSUME NEW d \in Doc, Unambiguous(d), NEW n \in TermsOf(d),
         NEW into \in TermsOf(d), into # n
  PROVE  Unambiguous(Folded(d, n, into))
<1> DEFINE e == Folded(d, n, into)
<1>1. n \in Term /\ into \in Term
  BY DEF TermsOf
<1>2. /\ e.terms[n] = NoTerm /\ e.terms[into].layer = d.terms[into].layer
      /\ e.terms[into].aliases = d.terms[into].aliases \cup {n}
      /\ \A m \in Term \ {n, into} : e.terms[m] = d.terms[m]
  BY <1>1, FoldedIs DEF MarkKept
<1> HIDE DEF e
<1>3. ASSUME NEW key \in Term, NEW z \in Candidates(e, key)
      PROVE  /\ z # n
             /\ z \in Candidates(d, key) \/ (z = into /\ key = Fold[n])
  <2>1. z \in Term /\ z # n
    BY <1>2, CandidatesAre DEF NoTerm
  <2>2. CASE z = into
    BY <1>2, <2>1, <2>2, CandidatesAre
  <2>3. CASE z # into
    BY <1>2, <2>1, <2>3, CandidatesAre
  <2>4. QED  BY <2>1, <2>2, <2>3
<1>4. n \in Candidates(d, Fold[n]) /\ Fold[n] \in Term
  BY <1>1, FoldType DEF Candidates
<1>5. ASSUME NEW key \in Term, NEW x \in Candidates(e, key), NEW y \in Candidates(e, key)
      PROVE  x = y
  <2>1. CASE key = Fold[n]
    <3>1. x = into /\ y = into
      BY <1>3, <1>4, <2>1 DEF Unambiguous
    <3>2. QED  BY <3>1
  <2>2. CASE key # Fold[n]
    BY <1>3, <2>2 DEF Unambiguous
  <2>3. QED  BY <2>1, <2>2
<1>6. QED  BY <1>5 DEF Unambiguous, e

(* The entry called from takes a name that no other entry claims.          *)
LEMMA MovedUnambiguous ==
  ASSUME NEW d \in Doc, Unambiguous(d), NEW from \in TermsOf(d), NEW to \in Term,
         from # to, IsPending(d.terms[from]), Candidates(d, Fold[to]) \subseteq {from}
  PROVE  Unambiguous(Moved(d, from, to))
<1> DEFINE e == Moved(d, from, to)
<1>1. from \in Term
  BY DEF TermsOf
<1>2. /\ e.terms[from] = NoTerm
      /\ e.terms[to].aliases = d.terms[from].aliases \cup {from}
      /\ \A m \in Term \ {from, to} : e.terms[m] = d.terms[m]
  BY <1>1, MovedIs
<1> HIDE DEF e
<1>3. ASSUME NEW key \in Term, NEW z \in Candidates(e, key)
      PROVE  \/ z # from /\ z # to /\ z \in Candidates(d, key)
             \/ z = to /\ (key = Fold[to] \/ from \in Candidates(d, key))
  <2>1. z \in Term /\ z # from
    BY <1>2, CandidatesAre DEF NoTerm
  <2>2. CASE z = to
    <3>1. key = Fold[to] \/ key = Fold[from] \/ \E a \in d.terms[from].aliases : Fold[a] = key
      BY <1>2, <2>2, CandidatesAre
    <3>2. QED  BY <1>1, <2>2, <3>1, CandidatesAre DEF TermsOf
  <2>3. CASE z # to
    BY <1>2, <2>1, <2>3, CandidatesAre
  <2>4. QED  BY <2>1, <2>2, <2>3
<1>4. ASSUME NEW key \in Term, NEW x \in Candidates(e, key), NEW y \in Candidates(e, key)
      PROVE  x = y
  <2>1. CASE key = Fold[to]
    BY <1>3, <2>1
  <2>2. CASE key # Fold[to]
    BY <1>3, <2>2 DEF Unambiguous
  <2>3. QED  BY <2>1, <2>2
<1>5. QED  BY <1>4 DEF Unambiguous, e

LEMMA AccretedClear ==
  ASSUME NEW d \in Doc, Clear(d), NEW r \in Row, r \in Rows,
         NEW canon \in Term \cup {NoName}, Accreted(d, r, canon) \in Doc,
         r.term = NoName => canon = NoName,
         r.term # NoName => canon \in Canonical(d, r.term)
  PROVE  Clear(Accreted(d, r, canon))
<1> DEFINE e == Accreted(d, r, canon)
<1>1. \A n \in Term :
        IF n # canon \/ r.record THEN e.terms[n] = d.terms[n]
        ELSE IF d.terms[n].layer = "absent"
        THEN IsPending(e.terms[n]) /\ e.terms[n].aliases = {}
        ELSE /\ MarkKept(d.terms[n], e.terms[n])
             /\ e.terms[n].aliases = d.terms[n].aliases
  BY AccretedIs
<1>2. NoName \notin Term
  BY NullAssumption
<1>3. ASSUME NEW t \in Tag, NEW k \in e.usage[t]
      PROVE  k \in d.usage[t] \/ (canon # NoName /\ k = Fold[canon])
  <2>1. e.usage[t] = IF t \in r.tags \ d.retTags /\ canon # NoName
                     THEN d.usage[t] \cup {Fold[canon]} ELSE d.usage[t]
    BY DEF Accreted, Doc
  <2>2. QED  BY <1>3, <2>1
<1> HIDE DEF e
(* A proposal that is new has a name no entry claims.                      *)
<1>4. ASSUME NEW n \in Term, n = canon, d.terms[n].layer = "absent"
      PROVE  Candidates(d, Fold[n]) = {}
  BY <1>2, <1>4 DEF Canonical, Candidates, TermsOf
<1>5. ASSUME NEW key \in Term, NEW z \in Candidates(e, key)
      PROVE  \/ z \in Candidates(d, key)
             \/ z = canon /\ key = Fold[z] /\ Candidates(d, key) = {}
  <2>1. z \in Term /\ e.terms[z].layer # "absent"
    BY CandidatesAre
  <2>2. CASE e.terms[z] = d.terms[z]
    BY <2>1, <2>2, CandidatesAre
  <2>3. CASE MarkKept(d.terms[z], e.terms[z]) /\ e.terms[z].aliases = d.terms[z].aliases
    BY <2>1, <2>3, CandidatesAre DEF MarkKept
  <2>4. CASE z = canon /\ d.terms[z].layer = "absent" /\ e.terms[z].aliases = {}
    <3>1. key = Fold[z]
      BY <2>1, <2>4, CandidatesAre
    <3>2. QED  BY <1>4, <2>1, <2>4, <3>1
  <2>5. QED  BY <1>1, <2>1, <2>2, <2>3, <2>4
<1>6. Unambiguous(e)
  BY <1>5 DEF Unambiguous, Clear
<1>7. ASSUME CountedRows PROVE Counted(e)
  <2>1. \A n \in TermsOf(d) : n \in TermsOf(e)
    BY <1>1 DEF TermsOf, MarkKept, IsPending
  <2>2. canon \in Term => canon \in TermsOf(e)
    BY <1>1, <1>7 DEF CountedRows, TermsOf, MarkKept, IsPending
  <2>3. QED  BY <1>3, <1>7, <2>1, <2>2 DEF Counted, Clear
<1>8. QED  BY <1>6, <1>7 DEF Clear, e

LEMMA ReseededClear ==
  ASSUME SeedsClear, "reset" \in Ops, NEW d, Safe(d), Settled(d), Clear(d)
  PROVE  Clear(Reseeded(d))
<1> DEFINE e == Reseeded(d)
<1>1. /\ \A n \in Term : e.terms[n] =
           IF n \in SeedTerm /\ n \notin d.retTerms THEN SeedTermEntry(n)
           ELSE IF Keeps(d.terms[n]) THEN d.terms[n] ELSE NoTerm
      /\ \A t \in Tag : e.usage[t] = {}
  BY DEF Reseeded
<1> HIDE DEF e
<1>2. ASSUME NEW n \in TermsOf(e)
      PROVE  n \in TermsOf(d) /\ e.terms[n].aliases \subseteq d.terms[n].aliases
  <2>1. n \in Term /\ e.terms[n].layer # "absent" /\ SettledTerm(d.terms[n], d.retTerms, n)
    BY DEF TermsOf, Settled
  <2>2. CASE n \in SeedTerm /\ n \notin d.retTerms
    <3>1. d.terms[n].layer # "absent"
      BY <2>1, <2>2 DEF SettledTerm
    <3>2. e.terms[n] = SeedTermEntry(n) /\ SeedAliases[n] = {}
      BY <1>1, <2>1, <2>2 DEF SeedsClear
    <3>3. e.terms[n].aliases = {}
      BY <3>2 DEF SeedTermEntry
    <3>4. QED  BY <2>1, <3>1, <3>3 DEF TermsOf
  <2>3. CASE e.terms[n] = d.terms[n]
    BY <2>1, <2>3 DEF TermsOf
  <2>4. QED  BY <1>1, <2>1, <2>2, <2>3 DEF NoTerm
<1>3. Unambiguous(e)
  BY <1>2, UnambiguousLess DEF Clear
<1>4. QED  BY <1>1, <1>3 DEF Clear, Counted, e

LEMMA EmptyReseededClear ==
  ASSUME SeedsClear
  PROVE  Clear(Reseeded(Empty))
<1>1. /\ Empty.retTerms = {} /\ \A n \in Term : Empty.terms[n] = NoTerm
  BY EmptyType DEF Empty
<1>2. ~Keeps(NoTerm)
  BY DEF Keeps, NoTerm
<1>3. Reseeded(Empty).terms = Seed.terms /\ \A t \in Tag : Reseeded(Empty).usage[t] = {}
  BY <1>1, <1>2 DEF Reseeded, Seed
<1>4. Unambiguous(Seed)
  BY SeedClear DEF Clear
<1>5. Unambiguous(Reseeded(Empty))
  BY <1>3, <1>4, UnambiguousLess DEF TermsOf
<1>6. QED  BY <1>3, <1>5 DEF Clear, Counted

-----------------------------------------------------------------------------
(* Every request keeps the names unambiguous.                              *)

LEMMA WrittenClear ==
  ASSUME ClearInv, NEW d, Clear(d), UNCHANGED zip, Persist(d) \/ Answer(d)
  PROVE  ClearInv'
<1>1. mem' = d /\ (disk' = d \/ disk' = disk)
  BY DEF Persist, Answer
<1>2. QED  BY <1>1 DEF ClearInv

LEMMA QuietClear ==
  ASSUME ClearInv, UNCHANGED <<mem, disk, zip>>
  PROVE  ClearInv'
BY DEF ClearInv

LEMMA ReloadClear ==
  ASSUME SeedsClear, IInv, LifeInv, ClearInv, Reload PROVE ClearInv'
<1>1. CASE LoadFile
  <2>1. Clear(MergeSeed(disk))
    BY <1>1, MergeClear DEF LoadFile, IInv, LifeInv, ClearInv
  <2>2. QED  BY <1>1, <2>1 DEF LoadFile, ClearInv
<1>2. CASE LoadFresh
  BY <1>2, SeedClear, WrittenClear DEF LoadFresh
<1>3. QED  BY <1>1, <1>2 DEF Reload

LEMMA ApproveClear == ASSUME IInv, ClearInv, Approve PROVE ClearInv'
<1>1. ASSUME NEW t \in Tag, ApproveTag(t) PROVE ClearInv'
  <2> DEFINE e == [mem EXCEPT !.tags[t] = Approved(@), !.retTags = @ \ {t}]
  <2>1. mem \in Doc /\ Clear(mem) /\ e \in Doc
    BY <1>1, ApproveTagSafe DEF IInv, ClearInv, ApproveTag, Safe
  <2>2. e.terms = mem.terms /\ e.usage = mem.usage
    BY <2>1 DEF Doc
  <2>3. Answer(Remap(e, {})) /\ UNCHANGED zip
    BY <1>1 DEF ApproveTag
  <2> HIDE DEF e
  <2>4. Clear(Remap(e, {}))
    BY <2>1, <2>2, SameNamesClear
  <2>5. QED  BY <2>3, <2>4, WrittenClear
<1>2. ASSUME NEW n \in Term, ApproveTerm(n) PROVE ClearInv'
  <2> DEFINE e == [mem EXCEPT !.terms[n] = Approved(@), !.retTerms = @ \ {n}]
  <2>1. mem \in Doc /\ Clear(mem) /\ e \in Doc
    BY <1>2, ApproveTermSafe DEF IInv, ClearInv, ApproveTerm, Safe
  <2>2. e.terms = [mem.terms EXCEPT ![n] = Approved(@)] /\ e.usage = mem.usage
    BY <2>1 DEF Doc
  <2>3. Answer(Remap(e, {})) /\ UNCHANGED zip
    BY <1>2 DEF ApproveTerm
  <2> HIDE DEF e
  <2>4. \A m \in Term : /\ e.terms[m].layer = mem.terms[m].layer
                        /\ e.terms[m].aliases = mem.terms[m].aliases
    BY <2>1, <2>2 DEF Approved, Doc, TermEntry
  <2>5. Clear(Remap(e, {}))
    BY <2>1, <2>2, <2>4, SameNamesClear
  <2>6. QED  BY <2>3, <2>5, WrittenClear
<1>3. QED  BY <1>1, <1>2 DEF Approve

LEMMA RetireClear == ASSUME IInv, ClearInv, Retire PROVE ClearInv'
<1>1. mem \in Doc /\ Safe(mem) /\ Clear(mem)
  BY DEF Retire, RejectTag, RejectTerm, AliasTerm, IInv, ClearInv, Safe
<1>2. ASSUME NEW t \in Tag, RejectTag(t) PROVE ClearInv'
  <2> DEFINE e == Stripped(mem, t)
  <2>1. t \notin CoreTag
    BY <1>2, RejectTagIs
  <2>2. e \in Doc
    BY <1>1, <2>1, StrippedSafe DEF Safe
  <2>3. /\ \A n \in Term : /\ MarkKept(mem.terms[n], e.terms[n])
                           /\ e.terms[n].aliases = mem.terms[n].aliases
        /\ \A x \in Tag : e.usage[x] \subseteq mem.usage[x]
    BY <1>1, StrippedIs
  <2> HIDE DEF e
  <2>4. Clear(Remap(e, {}))
    BY <1>1, <2>2, <2>3, SameNamesClear DEF MarkKept
  <2>5. Answer(Remap(e, {})) /\ UNCHANGED zip
    BY <1>2 DEF RejectTag, e
  <2>6. QED  BY <2>4, <2>5, WrittenClear
<1>3. ASSUME NEW n \in Term, RejectTerm(n) PROVE ClearInv'
  <2> DEFINE e == [mem EXCEPT !.terms[n] = NoTerm, !.retTerms = @ \cup {n}]
  <2>1. e \in Doc
    BY <1>1, TombstoneSafe DEF Safe
  <2>2. e.terms = [mem.terms EXCEPT ![n] = NoTerm] /\ e.usage = mem.usage
    BY <1>1 DEF Doc
  <2>3. Answer(Remap(e, {Fold[n]})) /\ UNCHANGED zip
    BY <1>3 DEF RejectTerm
  <2> HIDE DEF e
  <2>4. e.terms[n] = NoTerm /\ \A m \in Term \ {n} : e.terms[m] = mem.terms[m]
    BY <1>1, <2>2 DEF Doc
  <2>5. Clear(Remap(e, {Fold[n]}))
    BY <1>1, <2>1, <2>2, <2>4, DroppedClear
  <2>6. QED  BY <2>3, <2>5, WrittenClear
<1>4. ASSUME NEW n \in Term, NEW into \in Term, AliasTerm(n, into) PROVE ClearInv'
  <2> DEFINE f == Folded(mem, n, into)
             e == [f EXCEPT !.retTerms = @ \cup {n}]
  <2>1. n \in TermsOf(mem) /\ into \in TermsOf(mem) /\ into # n
    BY <1>4 DEF AliasTerm, TermsOf
  <2>2. /\ f \in Doc /\ f.usage = mem.usage
        /\ f.terms[n] = NoTerm /\ MarkKept(mem.terms[into], f.terms[into])
        /\ f.terms[into].aliases = mem.terms[into].aliases \cup {n}
        /\ \A m \in Term \ {n, into} : f.terms[m] = mem.terms[m]
    BY <1>1, <2>1, FoldedIs
  <2>3. Unambiguous(f)
    BY <1>1, <2>1, FoldedUnambiguous DEF Clear
  <2>4. Answer(Remap(e, {})) /\ UNCHANGED zip
    BY <1>4 DEF AliasTerm
  <2> HIDE DEF f
  <2>5. e \in Doc /\ e.terms = f.terms /\ e.usage = f.usage
    BY <2>2 DEF Doc
  <2> HIDE DEF e
  <2>6. Unambiguous(e)
    BY <2>3, <2>5, UnambiguousLess DEF TermsOf
  (* The usage that was counted for n is counted for the term it now names. *)
  <2>7. ASSUME NEW m \in TermsOf(mem) PROVE Candidates(e, Fold[m]) # {}
    <3>1. CASE m = n
      <4>1. into \in TermsOf(e) /\ n \in e.terms[into].aliases
        BY <2>1, <2>2, <2>5 DEF TermsOf, MarkKept
      <4>2. into \in Candidates(e, Fold[m])
        BY <3>1, <4>1 DEF Candidates
      <4>3. QED  BY <4>2
    <3>2. CASE m # n
      <4>1. m \in TermsOf(e)
        BY <2>1, <2>2, <2>5, <3>2 DEF TermsOf, MarkKept
      <4>2. QED  BY <4>1, StillThere
    <3>3. QED  BY <3>1, <3>2
  <2>8. Counted(mem) => Counted(Remap(e, {}))
    BY <2>2, <2>5, <2>7, CountedAfter
  <2>9. Clear(Remap(e, {}))
    BY <1>1, <2>5, <2>6, <2>8, UnambiguousRemap DEF Clear
  <2>10. QED  BY <2>4, <2>9, WrittenClear
<1>5. QED  BY <1>2, <1>3, <1>4 DEF Retire

LEMMA ScanClear == ASSUME IInv, ClearInv, Scan PROVE ClearInv'
<1>1. PICK r \in Rows, canon \in Term \cup {NoName} : Accrete(r, canon)
  BY DEF Scan
<1>2. /\ mem \in Doc /\ Safe(mem) /\ Clear(mem) /\ r \in Row
      /\ r.term = NoName => canon = NoName
      /\ r.term # NoName => canon \in Canonical(mem, r.term)
  BY <1>1, InputAssumption DEF IInv, ClearInv, Accrete, Safe
<1>3. Accreted(mem, r, canon) \in Doc
  BY <1>2, AccretedSafe DEF Safe
<1>4. Clear(Accreted(mem, r, canon))
  BY <1>2, <1>3, AccretedClear
<1>5. QED  BY <1>1, <1>4, WrittenClear DEF Accrete

LEMMA RefreshClear == ASSUME IInv, ClearInv, Refresh PROVE ClearInv'
<1>1. PICK r \in Rows, n \in Term :
        RefreshPruned(r, n) \/ RefreshKnown(r, n) \/ RefreshRenamed(r, n)
  BY DEF Refresh
<1>2. /\ mem # NoDoc /\ mem \in Doc /\ Safe(mem) /\ Clear(mem) /\ Unambiguous(mem)
      /\ r.term \in Term /\ Persist(mem') /\ UNCHANGED zip /\ ~CountedRows
  BY <1>1, InputAssumption
  DEF RefreshPruned, RefreshKnown, RefreshRenamed, IInv, Safe, ClearInv, Clear,
      Row, Persist, CountedRows
<1>3. CASE RefreshPruned(r, n)
  <2>1. mem'.terms = [mem.terms EXCEPT ![n] = NoTerm]
    BY <1>3, PruneIs
  <2>2. mem'.terms[n] = NoTerm /\ \A m \in Term \ {n} : mem'.terms[m] = mem.terms[m]
    BY <1>2, <2>1 DEF Doc
  <2>3. Unambiguous(mem')
    BY <1>2, <2>2, UnambiguousLess DEF TermsOf, NoTerm
  <2>4. QED  BY <1>2, <2>3, WrittenClear DEF Clear
<1>4. CASE RefreshRenamed(r, n)
  <2>1. /\ IsPending(mem.terms[n]) /\ Candidates(mem, Fold[r.term]) = {}
        /\ n \in TermsOf(mem) /\ mem' = Moved(mem, n, r.term)
    BY <1>4 DEF RefreshRenamed, PendingFrom, Persist
  <2>2. r.term # n
    BY <1>2, <2>1 DEF Candidates
  <2>3. Unambiguous(mem')
    BY <1>2, <2>1, <2>2, MovedUnambiguous
  <2>4. QED  BY <1>2, <2>3, WrittenClear DEF Clear
<1>5. CASE RefreshKnown(r, n)
  <2> DEFINE name == Recased(mem, n, r.term)
             d == IF name = n THEN mem ELSE Moved(mem, n, name)
  <2>1. n \in TermsOf(mem) /\ n \in Term
    BY <1>5 DEF RefreshKnown, Candidates, TermsOf
  <2>2. \/ name = n
        \/ name # n /\ name = r.term /\ Fold[name] = Fold[n] /\ IsPending(mem.terms[n])
    BY DEF Recased
  <2>3. \/ name # n /\ mem' = d
        \/ \E stale \in PendingFrom(mem, r.source) \ {n, name} : mem' = Folded(d, stale, name)
    BY <1>5 DEF RefreshKnown, Persist
  <2>4. d = IF name = n THEN mem ELSE Moved(mem, n, name)
    OBVIOUS
  <2> HIDE DEF name, d
  <2>5. d \in Doc /\ Unambiguous(d) /\ name \in TermsOf(d)
    <3>1. CASE name = n
      BY <1>2, <2>1, <2>4, <3>1
    <3>2. CASE name # n
      <4>1. /\ name = r.term /\ Fold[name] = Fold[n] /\ IsPending(mem.terms[n])
            /\ d = Moved(mem, n, name)
        BY <2>2, <2>4, <3>2
      <4>2. n \in Candidates(mem, Fold[name]) /\ Fold[name] \in Term
        BY <1>2, <2>1, <4>1, FoldType DEF Candidates
      <4>3. Candidates(mem, Fold[name]) \subseteq {n}
        BY <1>2, <4>2 DEF Unambiguous
      <4>4. Unambiguous(d)
        BY <1>2, <2>1, <3>2, <4>1, <4>3, MovedUnambiguous
      <4>5. QED  BY <1>2, <2>1, <3>2, <4>1, <4>4, MovedIs
    <3>3. QED  BY <3>1, <3>2
  <2>6. ASSUME NEW stale \in PendingFrom(mem, r.source) \ {n, name},
               mem' = Folded(d, stale, name)
        PROVE  Unambiguous(mem')
    <3>1. stale \in TermsOf(mem) /\ stale \in Term /\ stale # n /\ stale # name
      BY DEF PendingFrom, TermsOf
    <3>2. d.terms[stale] = mem.terms[stale]
      BY <1>2, <2>1, <2>2, <2>4, <3>1, MovedIs
    <3>3. stale \in TermsOf(d)
      BY <3>1, <3>2 DEF TermsOf
    <3>4. QED  BY <2>5, <2>6, <3>1, <3>3, FoldedUnambiguous
  <2>7. Unambiguous(mem')
    BY <2>3, <2>5, <2>6
  <2>8. QED  BY <1>2, <2>7, WrittenClear DEF Clear
<1>6. QED  BY <1>1, <1>3, <1>4, <1>5

LEMMA ResetClear ==
  ASSUME SeedsClear, IInv, LifeInv, ClearInv, Reset PROVE ClearInv'
<1>1. PICK prev \in Previous : Answer(Reseeded(prev))
  BY DEF Reset
<1>2. (Safe(prev) /\ Settled(prev) /\ Clear(prev)) \/ prev = Empty
  BY DEF Previous, IInv, LifeInv, ClearInv
<1>3. Clear(Reseeded(prev))
  BY <1>2, ReseededClear, EmptyReseededClear DEF Reset
<1>4. QED  BY <1>1, <1>3, WrittenClear DEF Reset

LEMMA StepClear ==
  ASSUME NoSave, SeedsClear, IInv, LifeInv, ClearInv, [Next]_vars
  PROVE  ClearInv'
<1>1. CASE Reload     BY <1>1, ReloadClear
<1>2. CASE Approve    BY <1>2, ApproveClear
<1>3. CASE Retire     BY <1>3, RetireClear
<1>4. CASE Scan       BY <1>4, ScanClear
<1>5. CASE Refresh    BY <1>5, RefreshClear
<1>6. CASE Edit
  BY <1>6, QuietClear DEF Edit, OpenPage, AddTerm, AddTag, AddRule
<1>7. CASE Save       BY <1>7 DEF Save, NoSave
<1>8. CASE Reset      BY <1>8, ResetClear
<1>9. CASE Restart    BY <1>9 DEF ClearInv, Restart
<1>10. CASE Snapshot  BY <1>10 DEF ClearInv, Snapshot
<1>11. CASE Restore   BY <1>11 DEF ClearInv, Restore
<1>12. CASE FactoryReset  BY <1>12 DEF ClearInv, FactoryReset
<1>13. CASE UNCHANGED vars  BY <1>13, QuietClear DEF vars
<1>14. QED
  BY <1>1, <1>2, <1>3, <1>4, <1>5, <1>6, <1>7, <1>8, <1>9, <1>10, <1>11,
     <1>12, <1>13 DEF Next

LEMMA DocumentsStayClear ==
  ASSUME NoSave, SeedsClear
  PROVE  Spec => []ClearInv
<1>1. SaveOrRefresh
  BY DEF SaveOrRefresh
<1>2. Spec => []LifeInv
  BY <1>1, DocumentsStaySettled
<1>3. Init => ClearInv
  BY DEF Init, ClearInv
<1>4. IInv /\ LifeInv /\ ClearInv /\ [Next]_vars => ClearInv'
  BY StepClear
<1>5. QED  BY <1>2, <1>3, <1>4, DocumentsStaySafe, PTL DEF Spec

(* A name resolves to one entry through every decision, scan, correction,  *)
(* restart and restore: approving, retiring, folding and renaming never    *)
(* leave two entries with one name.  Only the page, which saves what the   *)
(* steward typed, and a reseed that puts aliases back can.                 *)
THEOREM NamesResolve ==
  ASSUME NoSave, SeedsClear
  PROVE  Spec => []NamesResolveOnce
<1>1. ClearInv => NamesResolveOnce
  BY FoldType DEF ClearInv, Clear, Unambiguous, NamesResolveOnce
<1>2. QED  BY <1>1, DocumentsStayClear, PTL

(* The usage of a tag counts terms of the vocabulary, each once: folding a *)
(* term moves its count, retiring it drops it (_remap_usage).              *)
THEOREM UsageCounts ==
  ASSUME NoSave, SeedsClear, CountedRows
  PROVE  Spec => []UsageCountsTerms
<1>1. IInv /\ ClearInv => UsageCountsTerms
  <2> SUFFICES ASSUME IInv, ClearInv, mem # NoDoc, NEW t \in Tag,
                      NEW k \in mem.usage[t], NEW l \in mem.usage[t]
               PROVE  /\ Candidates(mem, k) # {}
                      /\ k # l => KeyOf(mem, k) # KeyOf(mem, l)
    BY DEF UsageCountsTerms
  <2>1. Unambiguous(mem) /\ Counted(mem)
    BY DEF ClearInv, Clear
  <2>2. ASSUME NEW x \in mem.usage[t]
        PROVE  Candidates(mem, x) # {} /\ KeyOf(mem, x) = x
    <3>1. PICK n \in TermsOf(mem) : Fold[n] = x
      BY <2>1 DEF Counted
    <3>2. n \in Candidates(mem, x) /\ x \in Term
      BY <3>1, FoldType DEF Candidates, TermsOf
    <3>3. (CHOOSE z \in Candidates(mem, x) : TRUE) = n
      BY <2>1, <3>2 DEF Unambiguous
    <3>4. QED  BY <3>1, <3>2, <3>3 DEF KeyOf
  <2>3. QED  BY <2>2
<1>2. QED  BY <1>1, DocumentsStaySafe, DocumentsStayClear, PTL

=============================================================================
