\* 32-byte group descriptors (no 64bit feature): inode arithmetic.
CONSTANTS
  Images <- MCImages
  Target <- MCTarget
  FsBufLen = 65536
  DescSizes = {32}
  ExtentFlags = {TRUE}
SPECIFICATION Spec
INVARIANT TypeOK
INVARIANT InodeLocated
INVARIANT ListStartsAtTarget
