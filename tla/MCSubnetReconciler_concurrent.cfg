\* Two interleaved callers against a 4-block VPC (blocks 2 and 3 free):
\* a first call can cover zones b and c, and the callers race for the
\* same free blocks.  Callers are interchangeable model values.
CONSTANTS
  p1 = p1
  p2 = p2
  a = a
  b = b
  c = c
  Procs <- MCTwoProcs
  AZs <- MCAZs
  Available <- MCAvailable
  NBlocks = 4
  InitSubnets <- MCInitSubnets
  InitPrivate <- MCInitPrivate

SYMMETRY Symmetry
SPECIFICATION Spec

 
INVARIANT PrivateSubnetsBounded
