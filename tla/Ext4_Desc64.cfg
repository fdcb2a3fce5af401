\* 64-byte group descriptors (the 64bit feature, mkfs.ext4's default).
CONSTANTS
  Images <- MCImages
  Target <- MCTarget
  FsBufLen = 65536
  DescSizes = {32, 64}
  ExtentFlags = {TRUE}
SPECIFICATION Spec
INVARIANT InodeLocated
