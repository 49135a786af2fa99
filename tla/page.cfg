SPECIFICATION Spec
CONSTANTS
  Tag <- PageTag
  CoreTag <- MCCoreTag
  GenericTag <- MCGenericTag
  PackTag = {}
  Term = {"flow rate"}
  Fold <- SameCase
  GenericTerm = {}
  PackTerm = {}
  SeedTags <- NoAliases
  SeedAliases <- NoAliases
  Pattern <- MCPattern
  SeedRules = {}
  Source <- MCSource
  Rows <- OneRow
  NewTerms <- Typed
  NewTags = {"flow"}
  NewRules <- TypedRule
  Ops = {"reject", "save", "snapshot", "diskfull", "wipe", "undeletable"}
  NoName = NoName
  NoSource = NoSource
  NoDoc = NoDoc
PROPERTY SaveClosesVocabulary
