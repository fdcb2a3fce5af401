CONSTANTS
  SectorLists <- MCSectorLists
  DumpLens <- MCDumpLens
SPECIFICATION Spec
INVARIANT DumpFullyWritten
