\* Queue of 8 descriptors: the third request has to reclaim.
CONSTANTS
  NumDescs = 8
  IdxWidth = 16
  MaxReqs = 7
  l1 = l1
  l2 = l2
  v1 = v1
  v2 = v2
  Lbas <- MCLbas
  Vals <- MCVals
  S_OK = S_OK
  S_IOERR = S_IOERR
  S_UNSUPP = S_UNSUPP
  IN_PROGRESS = IN_PROGRESS
  DevStatuses = {S_OK, S_IOERR}
  PciBus <- MCPciBus
SPECIFICATION Spec
INVARIANT TypeOK
INVARIANT DescPartition
INVARIANT NoDescriptorExhaustion
PROPERTY RequestsComplete
PROPERTY ImplementsBlockDevice
PROPERTY DeviceDescsUntouched
