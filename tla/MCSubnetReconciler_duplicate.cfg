CONSTANTS
  p1 = p1
  p2 = p2
  a = a
  b = b
  c = c
  Procs <- MCTwoProcs
  AZs <- MCAZs
  Available <- MCAvailable
  NBlocks = 4
  InitSubnets <- MCInitSubnets
  InitPrivate <- MCInitPrivate

SPECIFICATION Spec

INVARIANT OnePrivateSubnetPerZone
