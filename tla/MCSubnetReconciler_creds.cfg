CONSTANTS
  p1 = p1
  p2 = p2
  a = a
  b = b
  c = c
  Procs <- MCOneProc
  AZs <- MCAZs
  Available <- MCAvailable
  NBlocks = 4
  InitSubnets <- MCInitSubnets
  InitPrivate <- MCInitPrivate

SPECIFICATION Spec

PROPERTY CredentialWaitAbsorbed
