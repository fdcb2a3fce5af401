\* End to end: the writes main() makes land in the target file only.
CONSTANTS
  Images <- MCImages
  Target <- MCTarget
  FsBufLen = 65536
  DumpLens <- MCDumpLens
  DescSizes = {32}
  ExtentFlags = {TRUE}
SPECIFICATION Spec
INVARIANT NoForeignWrite
