SPECIFICATION Spec
CONSTANTS
  BaseName <- OneName
  KeptVersions = 1
  MaxIds = 3
  MaxEdits = 2
  MaxCalls = 2
  MaxFailures = 0
  Features = {"now", "wipe", "confirm"}
INVARIANT WipeHolds
INVARIANT LiveNamesDistinct
PROPERTY VersionsImmutable
PROPERTY LoadedIsArchived
