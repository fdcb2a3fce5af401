CONSTANTS
  SectorLists <- MCSectorLists
  DumpLens <- MCDumpLens
SPECIFICATION Spec
INVARIANT TypeOK
INVARIANT WritesFollowList
