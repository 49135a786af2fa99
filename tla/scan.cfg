SPECIFICATION Spec
CONSTANTS
  Tag <- ScanTag
  CoreTag <- MCCoreTag
  GenericTag = {"pii"}
  PackTag <- MCPackTag
  Term <- ScanTerm
  Fold <- ScanFold
  GenericTerm = {}
  PackTerm = {}
  SeedTags <- ScanTermTags
  SeedAliases <- NoAliases
  Pattern <- MCPattern
  SeedRules <- ScanRules
  Source <- MCSource
  Rows <- ScanRows
  NewTerms = {}
  NewTags = {}
  NewRules = {}
  Ops = {"approve", "reject", "alias", "accrete", "refresh", "reset", "restart"}
  NoName = NoName
  NoSource = NoSource
  NoDoc = NoDoc
INVARIANT NamesResolveOnce
PROPERTY TombstonesDurable
PROPERTY OnlyAStewardGoverns
PROPERTY GovernedUntouched
PROPERTY ImplementsVocabularyLife
