------------------------ MODULE DictionaryRefinement ------------------------
(***************************************************************************)
(* Dictionary implements VocabularyLife: the life of a name is read off    *)
(* the document that is, or after a restart would be, served.              *)
(***************************************************************************)
EXTENDS Dictionary

LifeOf(entry, tombstoned) ==
  IF entry.layer = "absent" THEN IF tombstoned THEN "retired" ELSE "unknown"
  ELSE IF Governs(entry) THEN "governed"
  ELSE IF tombstoned THEN "reproposed" ELSE "pending"

TagLife  == [t \in Tag |-> LifeOf(Effective.tags[t], t \in Effective.retTags)]
TermLife == [n \in Term |-> LifeOf(Effective.terms[n], n \in Effective.retTerms)]

Abstract == INSTANCE VocabularyLife WITH tagLife <- TagLife, termLife <- TermLife

(* Every step of the dictionary, however many fields, files and usage sets *)
(* it rewrites, is one step of the life cycles or none: nothing governs    *)
(* without a steward, nothing retired comes back, and a restart between    *)
(* any two requests is invisible (the contract of tagdict.py's header and  *)
(* of its review, accrete, refresh_pending, reset and load).               *)
ImplementsVocabularyLife == Abstract!LifeSpec
=============================================================================
