SPECIFICATION Spec
CONSTANTS
  BaseName <- OneName
  KeptVersions = 1
  MaxIds = 4
  MaxEdits = 2
  MaxCalls = 1
  MaxFailures = 1
  Features <- AllFeatures
INVARIANT TypeOK
INVARIANT SavedIsStored
PROPERTY DirtyIsSaved
