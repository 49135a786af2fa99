----------------------------- MODULE Dictionary -----------------------------
(***************************************************************************)
(* The governed vocabulary of the app: the tag dictionary of               *)
(* glossary_generator/engine/tagdict.py, with the document the server      *)
(* serves (_DICT), the file it is saved in (DICT_FILE), the copy the       *)
(* Dictionary page edits and the state snapshot a steward can restore.     *)
(*                                                                         *)
(* Every request is one step here: the module-level _LOCK makes the body   *)
(* of each call atomic.  What happens when two calls overlap around the    *)
(* lock is the subject of DictionaryRace.                                  *)
(***************************************************************************)
CONSTANTS
  Tag,           \* tag keys, after norm_tag
  CoreTag,       \* _CORE_TAGS: the baseline tags that cannot be retired
  GenericTag,    \* the tags of the generic baseline, core included
  PackTag,       \* the tags the domain pack brings, pre-approved
  Term,          \* term names, case kept
  Fold,          \* Fold[n]: the representative of n modulo letter case
  GenericTerm,   \* the terms of the generic baseline
  PackTerm,      \* the terms the domain pack brings, pre-approved
  SeedTags,      \* SeedTags[n]: the tags of the seeded term n
  SeedAliases,   \* SeedAliases[n]: the aliases of the seeded term n
  Pattern,       \* rule patterns
  SeedRules,     \* the rules of the baseline and of the pack
  Source,        \* source columns
  Rows,          \* the scan and review rows that may be posted
  NewTerms,      \* the terms a steward may type on the Dictionary page
  NewTags,       \* the tags a steward may type on the Dictionary page
  NewRules,      \* the rules a steward may type on the Dictionary page
  Ops,           \* the operations enabled in this instance
  NoName,        \* a row without a usable term name
  NoSource,      \* a row without a source column
  NoDoc          \* no document: not cached, not on disk, page closed

SeedTag  == GenericTag \cup PackTag
SeedTerm == GenericTerm \cup PackTerm

Layer  == {"absent", "generic", "company"}
Status == {"none", "pending", "approved"}

TagEntry  == [layer : Layer, status : Status]
TermEntry == [layer : Layer, status : Status, tags : SUBSET Tag,
              aliases : SUBSET Term, sources : SUBSET Source]
Rule      == [pattern : Pattern, tags : SUBSET Tag,
              layer : {"generic", "company", "none"}]

Doc == [tags : [Tag -> TagEntry], terms : [Term -> TermEntry],
        rules : SUBSET Rule, retTags : SUBSET Tag, retTerms : SUBSET Term,
        usage : [Tag -> SUBSET Term]]

(* A row of a scan or of the Review grid: what accrete and refresh_pending *)
(* read of it.  "pruned" is a Prune_Reason on a row that is not kept.      *)
Row == [term : Term \cup {NoName}, tags : SUBSET Tag,
        source : Source \cup {NoSource}, pruned : BOOLEAN,
        record : BOOLEAN]   \* a table-level Record row: no source column

Operations == {"approve", "reject", "alias", "accrete", "refresh", "save",
               "reset", "restart", "snapshot", "wipe", "unreadable",
               "diskfull", "undeletable"}

ASSUME VocabularyAssumption ==
  /\ CoreTag \subseteq GenericTag
  /\ GenericTag \subseteq Tag /\ PackTag \subseteq Tag
  /\ GenericTag \cap PackTag = {}
  /\ GenericTerm \subseteq Term /\ PackTerm \subseteq Term
  /\ GenericTerm \cap PackTerm = {}
  /\ Fold \in [Term -> Term]
  /\ SeedTags \in [Term -> SUBSET SeedTag]
  /\ SeedAliases \in [Term -> SUBSET Term]
  /\ SeedRules \subseteq Rule
  /\ \A r \in SeedRules : r.tags \subseteq SeedTag

ASSUME InputAssumption ==
  /\ Rows \subseteq Row
  /\ NewTerms \subseteq [name : Term, tags : SUBSET Tag, aliases : SUBSET Term]
  /\ NewTags \subseteq Tag
  /\ NewRules \subseteq Rule
  /\ Ops \subseteq Operations

ASSUME NullAssumption == /\ NoDoc \notin Doc
                         /\ NoName \notin Term
                         /\ NoSource \notin Source

VARIABLES
  mem,     \* _DICT: the document served, NoDoc until load() caches it
  disk,    \* DICT_FILE, NoDoc when there is no file
  page,    \* the Dictionary page's copy of the vocabulary
  zip      \* the dictionary inside the state snapshot the steward holds

vars == <<mem, disk, page, zip>>

-----------------------------------------------------------------------------
(* Reading a document.                                                     *)

NoTag  == [layer |-> "absent", status |-> "none"]
NoTerm == [layer |-> "absent", status |-> "none", tags |-> {},
           aliases |-> {}, sources |-> {}]

TagsOf(d)  == {t \in Tag : d.tags[t].layer # "absent"}
TermsOf(d) == {n \in Term : d.terms[n].layer # "absent"}

Governs(m) == m.layer = "generic" \/ m.status = "approved"

GovernedTags(d)  == {t \in TagsOf(d) : Governs(d.tags[t])}
GovernedTerms(d) == {n \in TermsOf(d) : Governs(d.terms[n])}

IsPending(m) == m.layer = "company" /\ m.status = "pending"

(* The entries an index by lower-cased name and alias may resolve a name   *)
(* to.  There is more than one only when two entries claim the name; the   *)
(* code then keeps the one that comes last in the file.                    *)
Candidates(d, key) ==
  {n \in TermsOf(d) : \/ Fold[n] = key
                      \/ \E a \in d.terms[n].aliases : Fold[a] = key}

Canonical(d, n) == IF Candidates(d, Fold[n]) = {} THEN {n}
                                                  ELSE Candidates(d, Fold[n])

(* The usage sets are keyed by term identity: fold the keys that became    *)
(* aliases onto their term and drop the keys of removed terms.             *)
KeyOf(d, key) == IF Candidates(d, key) = {} THEN key
                 ELSE Fold[CHOOSE n \in Candidates(d, key) : TRUE]

Remap(d, dropped) ==
  [d EXCEPT !.usage = [t \in Tag |-> {KeyOf(d, k) : k \in d.usage[t] \ dropped}]]

-----------------------------------------------------------------------------
(* The seed and the load-time merge.                                       *)

SeedTagEntry(t) ==
  IF t \in GenericTag THEN [layer |-> "generic", status |-> "none"]
                      ELSE [layer |-> "company", status |-> "approved"]

SeedTermEntry(n) ==
  [layer   |-> IF n \in GenericTerm THEN "generic" ELSE "company",
   status  |-> IF n \in GenericTerm THEN "none" ELSE "approved",
   tags    |-> SeedTags[n], aliases |-> SeedAliases[n], sources |-> {}]

Seed ==
  [tags  |-> [t \in Tag |-> IF t \in SeedTag THEN SeedTagEntry(t) ELSE NoTag],
   terms |-> [n \in Term |-> IF n \in SeedTerm THEN SeedTermEntry(n) ELSE NoTerm],
   rules |-> SeedRules, retTags |-> {}, retTerms |-> {},
   usage |-> [t \in Tag |-> {}]]

(* What the merge makes of an entry that is in the document under a seeded *)
(* name: the layer of the seed, and approved if it carries no status.      *)
Healed(entry, isGeneric) ==
  IF isGeneric
  THEN [entry EXCEPT !.layer = "generic"]
  ELSE [entry EXCEPT !.layer = "company",
                     !.status = IF @ = "none" THEN "approved" ELSE @]

MergedTagUnretired(d, t) ==  \* mutant: the tombstones are not consulted
  IF t \notin SeedTag THEN d.tags[t]
  ELSE IF d.tags[t].layer # "absent" THEN Healed(d.tags[t], t \in GenericTag)
  ELSE SeedTagEntry(t)

MergedTag(d, t) ==
  IF t \notin SeedTag THEN d.tags[t]
  ELSE IF d.tags[t].layer # "absent" THEN Healed(d.tags[t], t \in GenericTag)
  ELSE IF t \in d.retTags \ CoreTag THEN NoTag
  ELSE SeedTagEntry(t)

MergedTerm(d, n) ==
  IF n \notin SeedTerm THEN d.terms[n]
  ELSE IF d.terms[n].layer # "absent" THEN Healed(d.terms[n], n \in GenericTerm)
  ELSE IF n \in d.retTerms THEN NoTerm
  ELSE SeedTermEntry(n)

MergedRules(d) ==
  d.rules \cup {r \in SeedRules : \A x \in d.rules : x.pattern # r.pattern}

MergeSeed(d) ==
  Remap([d EXCEPT !.tags  = [t \in Tag |-> MergedTag(d, t)],
                  !.terms = [n \in Term |-> MergedTerm(d, n)],
                  !.rules = MergedRules(d)], {})

(* What summary() shows of a document and toDoc() sends back of it: an     *)
(* entry without a status is shown as approved, a generic one has none;    *)
(* the sources, the usage and the tombstones are not sent back.            *)
Shown(m) == IF m.layer = "generic" THEN "none"
            ELSE IF m.status = "none" THEN "approved" ELSE m.status

View(d) ==
  [tags  |-> [t \in Tag |-> IF t \in TagsOf(d)
                            THEN [d.tags[t] EXCEPT !.status = Shown(d.tags[t])]
                            ELSE NoTag],
   terms |-> [n \in Term |-> IF n \in TermsOf(d)
                             THEN [d.terms[n] EXCEPT !.status = Shown(d.terms[n]),
                                                     !.sources = {}]
                             ELSE NoTerm],
   rules |-> d.rules, retTags |-> {}, retTerms |-> {},
   usage |-> [t \in Tag |-> {}]]

(* Every caller ends in _save_locked, which replaces the file atomically.  *)
(* When that write fails the served document has already changed and the   *)
(* file has not.                                                           *)
Persist(d) == /\ mem' = d
              /\ \/ disk' = d
                 \/ "diskfull" \in Ops /\ disk' = disk

(* The same for a request of the Dictionary page, which then shows the     *)
(* vocabulary the answer carries.                                          *)
AnswerUnsaved(d) ==  \* mutant: no _save_locked
  mem' = d /\ UNCHANGED <<disk, page>>

Answer(d) == /\ mem' = d
             /\ \/ disk' = d /\ page' = (IF page = NoDoc THEN NoDoc ELSE View(d))
                \/ "diskfull" \in Ops /\ UNCHANGED <<disk, page>>

-----------------------------------------------------------------------------
(* load(): the cached document, else the file merged with the seed.  A     *)
(* file that is missing or cannot be read is replaced by a fresh seed.     *)
LoadFile ==
  /\ mem = NoDoc /\ disk # NoDoc
  /\ mem' = MergeSeed(disk)
  /\ UNCHANGED <<disk, page, zip>>

LoadFresh ==
  /\ mem = NoDoc
  /\ disk = NoDoc \/ "unreadable" \in Ops
  /\ Persist(Seed)
  /\ UNCHANGED <<page, zip>>

-----------------------------------------------------------------------------
(* review(): one steward decision on one name, sent by the Dictionary page.*)

Approved(m) == [m EXCEPT !.status = "approved"]

ApproveTag(t) ==
  /\ "approve" \in Ops /\ mem # NoDoc
  /\ mem.tags[t].layer = "company" /\ mem.tags[t].status # "approved"
  /\ LET d == Remap([mem EXCEPT !.tags[t] = Approved(@),
                                !.retTags = @ \ {t}], {})
     IN Answer(d)
  /\ UNCHANGED zip

ApproveTermUnlifted(n) ==  \* mutant: the tombstone stays
  /\ "approve" \in Ops /\ mem # NoDoc
  /\ mem.terms[n].layer = "company" /\ mem.terms[n].status # "approved"
  /\ LET d == Remap([mem EXCEPT !.terms[n] = Approved(@)], {})
     IN Answer(d)
  /\ UNCHANGED zip

ApproveTerm(n) ==
  /\ "approve" \in Ops /\ mem # NoDoc
  /\ mem.terms[n].layer = "company" /\ mem.terms[n].status # "approved"
  /\ LET d == Remap([mem EXCEPT !.terms[n] = Approved(@),
                                !.retTerms = @ \ {n}], {})
     IN Answer(d)
  /\ UNCHANGED zip

(* A retired tag leaves the allow-list, the usage sets, the terms and the  *)
(* rules; a rule left without a tag is dropped.                            *)
Stripped(d, t) ==
  LET without(x) == [x EXCEPT !.tags = x.tags \ {t}]
  IN  [d EXCEPT !.tags[t] = NoTag,
                !.usage[t] = {},
                !.terms = [n \in Term |-> without(d.terms[n])],
                !.rules = {without(r) : r \in {x \in d.rules : x.tags \ {t} # {}}},
                !.retTags = d.retTags \cup {t}]

RejectAnyTag(t) ==  \* mutant: the core is not protected
  /\ "reject" \in Ops /\ mem # NoDoc
  /\ t \in TagsOf(mem)
  /\ LET d == Remap(Stripped(mem, t), {})
     IN Answer(d)
  /\ UNCHANGED zip

RejectTag(t) ==
  /\ "reject" \in Ops /\ mem # NoDoc
  /\ t \in TagsOf(mem)
  /\ ~(mem.tags[t].layer = "generic" /\ t \in CoreTag)
  /\ LET d == Remap(Stripped(mem, t), {})
     IN Answer(d)
  /\ UNCHANGED zip

RejectTermCounted(n) ==  \* mutant: the usage sets keep the retired term
  /\ "reject" \in Ops /\ mem # NoDoc
  /\ n \in TermsOf(mem)
  /\ LET d == Remap([mem EXCEPT !.terms[n] = NoTerm,
                                !.retTerms = @ \cup {n}], {})
     IN Answer(d)
  /\ UNCHANGED zip

RejectTerm(n) ==
  /\ "reject" \in Ops /\ mem # NoDoc
  /\ n \in TermsOf(mem)
  /\ LET d == Remap([mem EXCEPT !.terms[n] = NoTerm,
                                !.retTerms = @ \cup {n}], {Fold[n]})
     IN Answer(d)
  /\ UNCHANGED zip

FoldedInPlace(d, n, into) ==  \* mutant: the duplicate stays an entry
  [d EXCEPT !.terms[into].aliases = @ \cup {n}]

(* Fold the entry n into the term the steward chose.                       *)
Folded(d, n, into) ==
  [d EXCEPT !.terms[n] = NoTerm, !.terms[into].aliases = @ \cup {n}]

AliasTerm(n, into) ==
  /\ "alias" \in Ops /\ mem # NoDoc
  /\ mem.terms[n].layer = "company"
  /\ into \in TermsOf(mem) /\ into # n
  /\ LET d == Remap([Folded(mem, n, into) EXCEPT !.retTerms = @ \cup {n}], {})
     IN Answer(d)
  /\ UNCHANGED zip

-----------------------------------------------------------------------------
(* accrete(): what a scan saw in one row.                                  *)

SourcesOf(r) == {r.source} \ {NoSource}

ProposedNew(r, tags) ==  \* mutant: a status nothing knows
  [layer |-> "company", status |-> "new", tags |-> tags,
   aliases |-> {}, sources |-> SourcesOf(r)]

ProposedApproved(r, tags) ==  \* mutant: the approval gate is skipped
  [layer |-> "company", status |-> "approved", tags |-> tags,
   aliases |-> {}, sources |-> SourcesOf(r)]

Proposed(r, tags) == [layer |-> "company", status |-> "pending", tags |-> tags,
                      aliases |-> {}, sources |-> SourcesOf(r)]

AccretedUnfiltered(d, r, canon) ==  \* mutant: retired tags ride back in
  [d EXCEPT
     !.tags = [t \in Tag |-> IF t \in r.tags /\ d.tags[t].layer = "absent"
                            THEN [layer |-> "company", status |-> "pending"]
                            ELSE d.tags[t]]]

(* canon is the name the row's term resolves to.                           *)
Accreted(d, r, canon) ==
  LET tags == r.tags \ d.retTags
      seen(entry) == IF entry.layer = "absent" THEN Proposed(r, tags)
                     ELSE [entry EXCEPT !.sources = entry.sources \cup SourcesOf(r)]
  IN  [d EXCEPT
         !.tags = [t \in Tag |-> IF t \in tags /\ d.tags[t].layer = "absent"
                                THEN [layer |-> "company", status |-> "pending"]
                                ELSE d.tags[t]],
         !.usage = [t \in Tag |-> IF t \in tags /\ canon # NoName
                                  THEN d.usage[t] \cup {Fold[canon]} ELSE d.usage[t]],
         !.terms = [n \in Term |-> IF n = canon /\ ~r.record
                                  THEN seen(d.terms[n]) ELSE d.terms[n]]]

Accrete(r, canon) ==
  /\ "accrete" \in Ops /\ mem # NoDoc
  /\ ~r.pruned
  /\ IF r.term = NoName THEN canon = NoName ELSE canon \in Canonical(mem, r.term)
  /\ Persist(Accreted(mem, r, canon))
  /\ UNCHANGED <<page, zip>>

-----------------------------------------------------------------------------
(* refresh_pending(): what the Review grid now says of one row.            *)

Tombstoned(d, n) == Remap([d EXCEPT !.terms[n] = NoTerm,
                                    !.retTerms = @ \cup {n}], {Fold[n]})

(* The scan itself pruned the key: its pending entry retires.              *)
RefreshPruned(r, n) ==
  /\ "refresh" \in Ops /\ mem # NoDoc
  /\ r.pruned /\ r.term # NoName
  /\ n \in Candidates(mem, Fold[r.term])
  /\ IsPending(mem.terms[n]) /\ Fold[n] = Fold[r.term]
  /\ Persist(Tombstoned(mem, n))
  /\ UNCHANGED <<page, zip>>

SourcedFrom(d, s) ==  \* mutant: governed entries are taken for stale ones
  {n \in TermsOf(d) : s \in d.terms[n].sources}

(* The pending entries a row's source column points at.                    *)
PendingFrom(d, s) ==
  {n \in TermsOf(d) : IsPending(d.terms[n]) /\ s \in d.terms[n].sources}

Moved(d, from, to) ==
  LET entry == d.terms[from]
  IN  [d EXCEPT !.terms[from] = NoTerm,
                !.terms[to] = [entry EXCEPT !.aliases = entry.aliases \cup {from}]]

(* The row's name is known: a pending entry adopts the row's letter case.  *)
Recased(d, canon, name) ==
  IF IsPending(d.terms[canon]) /\ name # canon /\ Fold[name] = Fold[canon]
  THEN name ELSE canon

RefreshKnown(r, canon) ==
  /\ "refresh" \in Ops /\ mem # NoDoc
  /\ ~r.pruned /\ r.term # NoName
  /\ canon \in Candidates(mem, Fold[r.term])
  /\ LET name  == Recased(mem, canon, r.term)
         d     == IF name = canon THEN mem ELSE Moved(mem, canon, name)
         twins == PendingFrom(mem, r.source)
     IN \/ /\ name # canon
           /\ twins = {} \/ twins \cap {canon, name} # {}
           /\ Persist(d)
        \/ \E stale \in twins \ {canon, name} : Persist(Folded(d, stale, name))
  /\ UNCHANGED <<page, zip>>

(* The row's name is unknown: the pending entry of its source column was   *)
(* renamed in the grid.                                                    *)
RefreshRenamed(r, old) ==
  /\ "refresh" \in Ops /\ mem # NoDoc
  /\ ~r.pruned /\ r.term # NoName
  /\ Candidates(mem, Fold[r.term]) = {}
  /\ old \in PendingFrom(mem, r.source)
  /\ Persist(Moved(mem, old, r.term))
  /\ UNCHANGED <<page, zip>>

-----------------------------------------------------------------------------
(* The Dictionary page: a copy of the vocabulary that is edited locally    *)
(* until Save posts the whole document.                                    *)

OpenPage ==
  /\ "save" \in Ops /\ mem # NoDoc
  /\ page' = View(mem)
  /\ UNCHANGED <<mem, disk, zip>>

AddTerm(x) ==
  /\ page # NoDoc
  /\ x.name \notin TermsOf(page)
  /\ page' = [page EXCEPT !.terms[x.name] =
                [layer |-> "company", status |-> "approved", tags |-> x.tags,
                 aliases |-> x.aliases, sources |-> {}]]
  /\ UNCHANGED <<mem, disk, zip>>

AddTag(t) ==
  /\ page # NoDoc
  /\ t \notin TagsOf(page)
  /\ page' = [page EXCEPT !.tags[t] = [layer |-> "company", status |-> "approved"]]
  /\ UNCHANGED <<mem, disk, zip>>

RequiredByNone(d) == d  \* mutant: the guard-rail completes nothing

(* The tags a rule or a term needs and the allow-list lacks are added,     *)
(* as company entries without a status.                                    *)
Required(d) ==
  [d EXCEPT !.tags = [t \in Tag |->
     IF /\ @[t].layer = "absent"
        /\ \/ \E r \in d.rules : t \in r.tags
           \/ \E n \in TermsOf(d) : t \in d.terms[n].tags
     THEN [layer |-> "company", status |-> "none"] ELSE @[t]]]

AddRule(r) ==
  /\ page # NoDoc
  /\ page' = [page EXCEPT !.rules = @ \cup {r},
                          !.tags = [t \in Tag |->
                             IF t \in r.tags /\ @[t].layer = "absent"
                             THEN [layer |-> "company", status |-> "none"]
                             ELSE @[t]]]
  /\ UNCHANGED <<mem, disk, zip>>

-----------------------------------------------------------------------------
(* replace() and reset(): both start from the document in memory or, when  *)
(* none is cached, from the file as it is, unmerged; a file that is        *)
(* missing or cannot be read counts as an empty document.                  *)

Empty == [Seed EXCEPT !.tags  = [t \in Tag |-> NoTag],
                      !.terms = [n \in Term |-> NoTerm], !.rules = {}]

Previous ==
  IF mem # NoDoc THEN {mem}
  ELSE {IF disk # NoDoc THEN disk ELSE Empty}
         \cup IF "unreadable" \in Ops THEN {Empty} ELSE {}

(* The posted document merged with the seed and completed, with the usage  *)
(* sets and the term fields the payload does not carry.  _merge_seed has   *)
(* given it empty tombstone lists by the time replace looks for them.      *)
Replacement(payload, prev) ==
  LET doc     == Required(MergeSeed(payload))
      carried == [doc EXCEPT
                    !.usage = prev.usage,
                    !.terms = [n \in Term |->
                       IF @[n].layer # "absent"
                       THEN [@[n] EXCEPT !.sources = prev.terms[n].sources]
                       ELSE NoTerm]]
      removed == {Fold[n] : n \in {x \in TermsOf(prev) :
                                      Candidates(doc, Fold[x]) = {}}}
  IN  Remap(carried, removed)

Save ==
  /\ "save" \in Ops /\ page # NoDoc
  /\ \E prev \in Previous : Answer(Replacement(page, prev))
  /\ UNCHANGED zip

Keeps(entry) == entry.layer = "company" /\ entry.status = "approved"

ReseededFresh(prev) ==  \* mutant: preserve_approved is ignored
  Seed

Reseeded(prev) ==
  [tags |-> [t \in Tag |->
      IF t \in SeedTag /\ ~(t \in prev.retTags \ CoreTag) THEN SeedTagEntry(t)
      ELSE IF Keeps(prev.tags[t]) THEN prev.tags[t] ELSE NoTag],
   terms |-> [n \in Term |->
      IF n \in SeedTerm /\ n \notin prev.retTerms THEN SeedTermEntry(n)
      ELSE IF Keeps(prev.terms[n]) THEN prev.terms[n] ELSE NoTerm],
   rules |-> SeedRules \cup
      {r \in prev.rules : /\ r.layer = "company"
                          /\ \A s \in SeedRules : ~(s.pattern = r.pattern /\ s.tags = r.tags)},
   retTags |-> prev.retTags, retTerms |-> prev.retTerms,
   usage |-> [t \in Tag |-> {}]]

Reset ==
  /\ "reset" \in Ops
  /\ \E prev \in Previous : Answer(Reseeded(prev))
  /\ UNCHANGED zip

-----------------------------------------------------------------------------
(* The process, the state snapshot and the factory reset.                  *)

Restart ==
  /\ "restart" \in Ops /\ mem # NoDoc
  /\ mem' = NoDoc
  /\ UNCHANGED <<disk, page, zip>>

Snapshot ==
  /\ "snapshot" \in Ops /\ disk # NoDoc
  /\ zip' = disk
  /\ UNCHANGED <<mem, disk, page>>

Restore ==
  /\ "snapshot" \in Ops /\ zip # NoDoc
  /\ disk' = zip /\ mem' = NoDoc
  /\ UNCHANGED <<page, zip>>

FactoryReset ==
  /\ "wipe" \in Ops
  /\ \/ disk' = NoDoc
     \/ "undeletable" \in Ops /\ disk' = disk
  /\ mem' = NoDoc
  /\ UNCHANGED <<page, zip>>

-----------------------------------------------------------------------------
Init == mem = NoDoc /\ disk = NoDoc /\ page = NoDoc /\ zip = NoDoc

Approve == \/ \E t \in Tag : ApproveTag(t)
           \/ \E n \in Term : ApproveTerm(n)
Retire  == \/ \E t \in Tag : RejectTag(t)
           \/ \E n \in Term : RejectTerm(n)
           \/ \E n, into \in Term : AliasTerm(n, into)
Scan    == \E r \in Rows, canon \in Term \cup {NoName} : Accrete(r, canon)
Refresh == \E r \in Rows, n \in Term :
             RefreshPruned(r, n) \/ RefreshKnown(r, n) \/ RefreshRenamed(r, n)
Edit    == \/ OpenPage
           \/ \E x \in NewTerms : AddTerm(x)
           \/ \E t \in NewTags : AddTag(t)
           \/ \E r \in NewRules : AddRule(r)
Reload  == LoadFile \/ LoadFresh

Next == \/ Reload \/ Approve \/ Retire \/ Scan \/ Refresh \/ Edit \/ Save
        \/ Reset \/ Restart \/ Snapshot \/ Restore \/ FactoryReset

Spec == Init /\ [][Next]_vars

-----------------------------------------------------------------------------
(* What the next call will be served: the cached document or, after a      *)
(* restart, the merged file.                                               *)
Effective == IF mem # NoDoc THEN mem
             ELSE IF disk # NoDoc THEN MergeSeed(disk) ELSE Seed

TypeOK == /\ mem \in Doc \cup {NoDoc} /\ disk \in Doc \cup {NoDoc}
          /\ page \in Doc \cup {NoDoc} /\ zip \in Doc \cup {NoDoc}

(* The core tags the engine stands on are in the allow-list as generic     *)
(* entries whatever was retired, saved from a stale page, restored or      *)
(* wiped before (_CORE_TAGS, _merge_seed, review).                         *)
CoreServed ==
  mem # NoDoc => \A t \in CoreTag : /\ mem.tags[t].layer = "generic"
                                    /\ t \notin mem.retTags

(* A tag under a tombstone is in no allow-list and in no usage set: no     *)
(* scan, reseed, reload or restore brings it back (accrete's tombstone     *)
(* filter, _merge_seed, reset).                                            *)
RetiredTagsStayOut ==
  mem # NoDoc => \A t \in mem.retTags : /\ mem.tags[t] = NoTag
                                        /\ mem.usage[t] = {}

(* A term under a tombstone may be proposed again by a scan and does not   *)
(* govern: approving it lifts the tombstone (review, reset's               *)
(* preserve_approved).  A term of the baseline, which the load-time merge  *)
(* relabels generic once it is proposed again, is the exception: it        *)
(* governs by its layer, never by an approval.                             *)
RetiredTermsUnapproved ==
  mem # NoDoc => \A n \in mem.retTerms :
    /\ mem.terms[n].status # "approved"
    /\ Governs(mem.terms[n]) => n \in GenericTerm

(* The steward puts another document in place of the current one.          *)
Replace == Save \/ Restore \/ FactoryReset

(* A steward's retirement is durable: through reloads, restarts, reseeds,  *)
(* scans and corrections only approving the name again lifts its           *)
(* tombstone, or putting another document in place of this one: a restore, *)
(* a wipe, and a Save, which drops every tombstone (see below).            *)
TombstonesDurable ==
  [][\/ Replace
     \/ /\ \A t \in Effective.retTags \ Effective'.retTags : ApproveTag(t)
        /\ \A n \in Effective.retTerms \ Effective'.retTerms : ApproveTerm(n)]_vars

(* "keep the current ones, or a Save would resurrect retired pack entries" *)
(* (tagdict.py, line 560, on tombstones the page does not send): a retired *)
(* name that is not on the page is not brought back by its Save.           *)
SaveResurrectsNothing ==
  [][Save /\ mem # NoDoc =>
       /\ \A t \in mem.retTags \ TagsOf(page) : t \notin TagsOf(mem')
       /\ \A n \in mem.retTerms \ TermsOf(page) : n \notin TermsOf(mem')]_vars

(* An entry starts to govern only when a steward approves it or replaces   *)
(* the document, never by a scan, a reseed or a restart (the steward       *)
(* approval gate: pending entries do not govern until a steward acts).     *)
OnlyAStewardGoverns ==
  [][\/ Approve \/ Replace
     \/ /\ GovernedTags(Effective') \subseteq GovernedTags(Effective)
        /\ GovernedTerms(Effective') \subseteq GovernedTerms(Effective)]_vars

(* Governed entries leave the vocabulary only by a steward's hand: no      *)
(* scan, refresh, reseed or restart drops one (refresh_pending: governed   *)
(* entries are never touched; reset preserves the governed set).           *)
GovernedUntouched ==
  [][\/ Retire \/ Replace
     \/ /\ GovernedTags(Effective) \subseteq GovernedTags(Effective')
        /\ GovernedTerms(Effective) \subseteq GovernedTerms(Effective')]_vars

(* The file carries the steward's decisions: a restart would serve the     *)
(* same tombstones and the same approved entries as the process does       *)
(* (_save_locked at the end of every decision).                            *)
DecisionsOnDisk ==
  mem # NoDoc =>
    /\ disk # NoDoc
    /\ LET next == MergeSeed(disk)
       IN  /\ next.retTags = mem.retTags /\ next.retTerms = mem.retTerms
           /\ \A t \in Tag : /\ Keeps(mem.tags[t]) => Governs(next.tags[t])
                             /\ Keeps(next.tags[t]) => Governs(mem.tags[t])
           /\ \A n \in Term : /\ Keeps(mem.terms[n]) => Governs(next.terms[n])
                              /\ Keeps(next.terms[n]) => Governs(mem.terms[n])

(* A reseed keeps every approved company entry and every tombstone, and    *)
(* discards what is pending (reset's contract).                            *)
ReseedKeepsApproved ==
  [][(Reset /\ mem # NoDoc) =>
       /\ mem'.retTags = mem.retTags /\ mem'.retTerms = mem.retTerms
       /\ \A t \in Tag : /\ Keeps(mem.tags[t]) => Governs(mem'.tags[t])
                         /\ ~IsPending(mem'.tags[t])
       /\ \A n \in Term : /\ Keeps(mem.terms[n]) => Governs(mem'.terms[n])
                          /\ ~IsPending(mem'.terms[n])]_vars

(* A name resolves to one entry: no alias is also the name or the alias of *)
(* another entry, so that a scanned column never belongs to two terms      *)
(* (the alias-collision warning of _guardrail).                            *)
NamesResolveOnce ==
  mem # NoDoc => \A n \in Term : \A x, y \in Candidates(mem, Fold[n]) : x = y

(* After a save every tag that a rule or a term emits is in the allow-list *)
(* (_guardrail: a rule must not emit a tag the registry cannot govern).    *)
VocabularyClosed(d) ==
  /\ \A r \in d.rules : r.tags \subseteq TagsOf(d)
  /\ \A n \in TermsOf(d) : d.terms[n].tags \subseteq TagsOf(d)

SaveClosesVocabulary == [][Save => VocabularyClosed(mem')]_vars

(* The usage set of a tag counts current terms, each once (facet_health:   *)
(* the number of distinct terms; review: distinct current terms).          *)
UsageCountsTerms ==
  mem # NoDoc => \A t \in Tag : \A k, l \in mem.usage[t] :
                   /\ Candidates(mem, k) # {}
                   /\ k # l => KeyOf(mem, k) # KeyOf(mem, l)
=============================================================================
