\* 8-bit addresses and a /5 subnet mask: blocks of 8 addresses, as /27
\* leaves 5 host bits of 32; every VPC base and mask from /1 to /8.
CONSTANTS
  AddrBits = 8
  SubnetMask = 5
  VpcPrefixes = {1, 2, 3, 4, 5, 6, 7, 8}

SPECIFICATION Spec

INVARIANT TypeOK
INVARIANT PlanCorrect

\* buildSubnetAddress returns: every behaviour ends in "done" or "error".
CHECK_DEADLOCK FALSE
