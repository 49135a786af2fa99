SPECIFICATION Spec
CONSTANTS
  Tag <- ScanTag
  CoreTag <- MCCoreTag
  GenericTag = {"pii"}
  PackTag <- MCPackTag
  Term = {"Card"}
  Fold <- SameCase
  GenericTerm = {}
  PackTerm = {"Card"}
  SeedTags <- PackTags
  SeedAliases <- NoAliases
  Pattern <- MCPattern
  SeedRules <- ScanRules
  Source <- MCSource
  Rows = {}
  NewTerms = {}
  NewTags = {}
  NewRules = {}
  Ops = {"approve", "reject", "save", "restart"}
  NoName = NoName
  NoSource = NoSource
  NoDoc = NoDoc
PROPERTY SaveResurrectsNothing
