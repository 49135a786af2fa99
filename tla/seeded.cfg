SPECIFICATION Spec
CONSTANTS
  Tag <- MCTag
  CoreTag <- MCCoreTag
  GenericTag <- MCGenericTag
  PackTag <- MCPackTag
  Term <- SeededTerm
  Fold <- SameCase
  GenericTerm = {"Date"}
  PackTerm = {"Card"}
  SeedTags <- SeededTermTags
  SeedAliases <- NoAliases
  Pattern <- MCPattern
  SeedRules <- MCSeedRules
  Source <- MCSource
  Rows <- SeededRows
  NewTerms = {}
  NewTags = {}
  NewRules = {}
  Ops = {"approve", "reject", "alias", "accrete", "reset", "restart", "wipe", "unreadable"}
  NoName = NoName
  NoSource = NoSource
  NoDoc = NoDoc
INVARIANT TypeOK
INVARIANT CoreServed
INVARIANT RetiredTagsStayOut
INVARIANT RetiredTermsUnapproved
INVARIANT DecisionsOnDisk
INVARIANT UsageCountsTerms
PROPERTY ReseedKeepsApproved
