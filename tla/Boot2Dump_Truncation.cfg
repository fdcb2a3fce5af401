\* A 70000-byte dump into a 256 KiB file: fs_read is given a 64 KiB buffer.
CONSTANTS
  Images <- MCImages
  Target <- MCTarget
  FsBufLen = 65536
  DumpLens <- MCLargeDumps
  DescSizes = {32}
  ExtentFlags = {TRUE}
SPECIFICATION Spec
INVARIANT DumpPersisted
