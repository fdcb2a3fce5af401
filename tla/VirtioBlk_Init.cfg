\* Device initialisation order before the first notify.
CONSTANTS
  NumDescs = 8
  IdxWidth = 16
  MaxReqs = 2
  l1 = l1
  l2 = l2
  v1 = v1
  v2 = v2
  Lbas <- MCLbas
  Vals <- MCVals
  S_OK = S_OK
  S_IOERR = S_IOERR
  S_UNSUPP = S_UNSUPP
  IN_PROGRESS = IN_PROGRESS
  DevStatuses = {S_OK, S_IOERR}
  PciBus <- MCPciBus
SPECIFICATION Spec
INVARIANT DriverReadyBeforeNotify
