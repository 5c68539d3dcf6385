------------------------------ MODULE Planner ------------------------------
(***************************************************************************)
(* buildSubnetAddress and generateAvailableSubnets (src/unnamed/part_000): *)
(* parse the VPC CIDR, reject a mask of /27 or longer, then walk every     *)
(* address of the VPC one by one from its base (incrementIP), mask each to *)
(* /27, append it unless already in the list (containsNetwork), stop at    *)
(* the first address outside the VPC, and reverse the list.                *)
(*                                                                         *)
(* Addresses are AddrBits-bit integers (32 in the code).  incrementIP adds *)
(* in a 64-bit uint and keeps the low four bytes, so the sum is taken      *)
(* modulo 2^AddrBits.  Masking an address to a prefix of length m clears   *)
(* its low AddrBits - m bits.                                              *)
(***************************************************************************)
EXTENDS Naturals, Sequences

CONSTANTS
  AddrBits,     \* width of an address (32 for IPv4)
  SubnetMask,   \* defaultSubnetMask (27)
  VpcPrefixes   \* VPC mask sizes the provider hands out

ASSUME AddrBitsAssumption == AddrBits \in Nat \ {0}
ASSUME SubnetMaskAssumption == SubnetMask \in 1..AddrBits
ASSUME VpcPrefixesAssumption == VpcPrefixes \subseteq 1..AddrBits

Addr == 0..(2^AddrBits - 1)

\* mutant: a mask that rounds up instead of clearing the host bits
MaskToRoundingUp(ip, m) == (ip \div 2^(AddrBits - m) + 1) * 2^(AddrBits - m)

\* net.IP.Mask / net.ParseCIDR: keep the top m bits.
MaskTo(ip, m) == (ip \div 2^(AddrBits - m)) * 2^(AddrBits - m)

\* incrementIP: four bytes joined into a uint, inc added, four bytes split.
IncrementIP(ip, inc) == (ip + inc) % 2^AddrBits

\* IPNet.Contains for the network base/m.
Contains(base, m, ip) == MaskTo(ip, m) = base

\* containsNetwork: an entry of the list has that base address.
ContainsNetwork(networks, ip) == \E k \in 1..Len(networks) : networks[k] = ip

\* the in-place swap loop of buildSubnetAddress
Reversed(s) == [k \in 1..Len(s) |-> s[Len(s) + 1 - k]]

VARIABLES
  vpcIP,        \* address of *vpc.CidrBlock; the VPC base once parsed
  vpcPrefix,    \* mask size of *vpc.CidrBlock
  phase,        \* "parse", "generate", "done" or "error"
  i,            \* loop counter of generateAvailableSubnets
  networks,     \* the networks slice (base addresses; all masks are /27)
  result        \* the networks buildSubnetAddress returns (none on error)

vars == <<vpcIP, vpcPrefix, phase, i, networks, result>>

TypeOK ==
  /\ vpcIP \in Addr
  /\ vpcPrefix \in VpcPrefixes
  /\ phase \in {"parse", "generate", "done", "error"}
  /\ i \in 0..2^AddrBits
  /\ networks \in Seq(Addr)
  /\ result \in Seq(Addr)

Init ==
  /\ vpcIP \in Addr
  /\ vpcPrefix \in VpcPrefixes
  /\ phase = "parse"
  /\ i = 0
  /\ networks = <<>>
  /\ result = <<>>

\* The VPC mask is /27 or longer: no /27 sub-network can be carved out.
BuildSubnetAddressRejects ==
  /\ phase = "parse"
  /\ vpcPrefix >= SubnetMask
  /\ phase' = "error"
  /\ UNCHANGED <<vpcIP, vpcPrefix, i, networks, result>>

\* ParseCIDR masks the VPC address; croCIDR is its base at /27 and is the
\* first entry of networks.
BuildSubnetAddress ==
  /\ phase = "parse"
  /\ vpcPrefix < SubnetMask
  /\ vpcIP' = MaskTo(vpcIP, vpcPrefix)
  /\ networks' = <<MaskTo(MaskTo(vpcIP, vpcPrefix), SubnetMask)>>
  /\ phase' = "generate"
  /\ UNCHANGED <<vpcPrefix, i, result>>

\* One iteration of the for loop: the i-th address after croCIDR is still
\* in the VPC; its /27 network is appended unless already listed.
GenerateNext ==
  LET ip == MaskTo(IncrementIP(networks[1], i), SubnetMask)
  IN /\ phase = "generate"
     /\ Contains(vpcIP, vpcPrefix, IncrementIP(networks[1], i))
     /\ networks' = IF ContainsNetwork(networks, ip) THEN networks
                    ELSE Append(networks, ip)
     /\ i' = i + 1
     /\ UNCHANGED <<vpcIP, vpcPrefix, phase, result>>

\* mutant: the list is returned without the reversal
GenerateDoneUnreversed ==
  /\ phase = "generate"
  /\ ~Contains(vpcIP, vpcPrefix, IncrementIP(networks[1], i))
  /\ result' = networks
  /\ phase' = "done"
  /\ UNCHANGED <<vpcIP, vpcPrefix, i, networks>>

\* The loop condition fails; the list is reversed and returned.
GenerateDone ==
  /\ phase = "generate"
  /\ ~Contains(vpcIP, vpcPrefix, IncrementIP(networks[1], i))
  /\ result' = Reversed(networks)
  /\ phase' = "done"
  /\ UNCHANGED <<vpcIP, vpcPrefix, i, networks>>

Next ==
  \/ BuildSubnetAddressRejects \/ BuildSubnetAddress
  \/ GenerateNext \/ GenerateDone

Spec == Init /\ [][Next]_vars

-----------------------------------------------------------------------------
(***************************************************************************)
(* The spec's AddressSpacePlanner: for a VPC base/p with p shorter than    *)
(* the subnet mask, the 2^(SubnetMask - p) sub-networks of size            *)
(* 2^(AddrBits - SubnetMask), highest address first; nothing otherwise.   *)
(***************************************************************************)
BlockSize == 2^(AddrBits - SubnetMask)

Plan(base, p) ==
  IF p >= SubnetMask THEN <<>>
  ELSE LET n == 2^(SubnetMask - p)
       IN [k \in 1..n |-> base + (n - k) * BlockSize]

(***************************************************************************)
(* Spec 4.1 and 8: whatever CIDR string AWS reports, buildSubnetAddress    *)
(* returns exactly the planner's sequence: every /27 of the VPC, none      *)
(* outside it, none twice, highest first; and fails exactly when the VPC   *)
(* cannot be subdivided.                                                   *)
(***************************************************************************)
PlanCorrect ==
  phase \in {"done", "error"} => result = Plan(vpcIP, vpcPrefix)

=============================================================================
