-------------------------- MODULE SubnetReconciler --------------------------
(***************************************************************************)
(* GetPrivateSubnetIDS of the cloud-resource-operator's AWS network code   *)
(* (src/unnamed/part_000): each caller looks up the cluster VPC, lists its *)
(* subnets (polling while credentials propagate), keeps the ones carrying  *)
(* the private-subnet tag, and for every availability zone without one    *)
(* creates a /27 subnet from the planner's candidate list, retrying the    *)
(* next candidate on InvalidSubnet.Conflict, and tags it.                  *)
(*                                                                         *)
(* Several callers (the operator's Postgres and Redis providers, each      *)
(* re-run by its reconcile loop) share one EC2 provider.  Every AWS call   *)
(* is one atomic step, so the callers interleave between calls.           *)
(*                                                                         *)
(* Address space: the VPC block is cut into NBlocks /27 blocks numbered   *)
(* 0..NBlocks-1 by address.  A subnet's cidr is the set of blocks it       *)
(* overlaps; the provider rejects a new subnet whose block is in use.      *)
(***************************************************************************)
EXTENDS Naturals, FiniteSets

CONSTANTS
  Procs,        \* concurrent callers of GetPrivateSubnetIDS
  AZs,          \* zones returned by DescribeAvailabilityZones
  Available,    \* zones whose State is "available"
  NBlocks,      \* number of /27 blocks inside the VPC CIDR
  InitSubnets,  \* subnets of the VPC before the operator runs
  InitPrivate   \* those of them tagged kubernetes.io/role/internal-elb

Blocks == 0..NBlocks-1
Subnet == [cidr : SUBSET Blocks, az : AZs]

ASSUME ProcsAssumption == Procs # {} /\ IsFiniteSet(Procs)
ASSUME AZsAssumption == AZs # {} /\ Available \subseteq AZs
ASSUME NBlocksAssumption == NBlocks \in Nat \ {0}
ASSUME InitAssumption ==
  /\ InitSubnets \subseteq Subnet /\ IsFiniteSet(InitSubnets)
  /\ InitPrivate \subseteq InitSubnets
  /\ \A s, t \in InitSubnets : s # t => s.cidr \cap t.cidr = {}
  /\ \A s, t \in InitPrivate : s.az = t.az => s = t

(***************************************************************************)
(* buildSubnetAddress: the /27 networks of the VPC, generated in address   *)
(* order and then reversed, so the highest block is tried first.  The      *)
(* Planner module checks the code's generation loop against this.         *)
(***************************************************************************)
\* mutant: the reversal off by one, starting past the top block
CandidateOffByOne(i) == NBlocks - i + 1

Candidate(i) == NBlocks - i

VARIABLES
  subnets,      \* the provider's subnets of the VPC
  private,      \* the subnets carrying the private-subnet tag
  credsReady,   \* the minted AWS credentials have propagated
  pc,           \* where each caller is in GetPrivateSubnetIDS
  privSubs,     \* each caller's privSubs slice
  todo,         \* zones its loop over azs has still to visit
  zone,         \* the zone createPrivateSubnet works on
  cand          \* index of the candidate CreateSubnet tries

vars == <<subnets, private, credsReady, pc, privSubs, todo, zone, cand>>

\* the errors GetPrivateSubnetIDS returns, by the call that failed
Errors == {"LookupFailed", "PollTimeout", "AZsFailed", "ProvisionFailed",
           "TaggingFailed", "NoSubnetIDs"}
Idle == {"idle", "done", "panicked"} \cup Errors
PC == Idle \cup {"vpc", "subnets", "azs", "loop", "create", "tag"}

TypeOK ==
  /\ subnets \subseteq Subnet
  /\ private \subseteq subnets
  /\ credsReady \in BOOLEAN
  /\ pc \in [Procs -> PC]
  /\ privSubs \in [Procs -> SUBSET Subnet]
  /\ todo \in [Procs -> SUBSET AZs]
  /\ zone \in [Procs -> AZs]
  /\ cand \in [Procs -> 1..NBlocks+1]

Occupied == UNION {s.cidr : s \in subnets}

\* mutant: the zone-name comparison dropped
PrivateSubnetExistsAnyZone(subs, z) == \E s \in subs : z \in Available

\* privateSubnetExists: some listed private subnet is in the zone, and the
\* zone itself is "available".
PrivateSubnetExists(subs, z) == \E s \in subs : s.az = z /\ z \in Available

\* the subnet CreateSubnet makes from p's current candidate
NewSubnet(p) == [cidr |-> {Candidate(cand[p])}, az |-> zone[p]]

Init ==
  /\ subnets = InitSubnets
  /\ private = InitPrivate
  /\ credsReady = FALSE
  /\ pc = [p \in Procs |-> "idle"]
  /\ privSubs = [p \in Procs |-> {}]
  /\ todo = [p \in Procs |-> {}]
  /\ zone = [p \in Procs |-> CHOOSE z \in AZs : TRUE]
  /\ cand = [p \in Procs |-> 1]

Goto(p, l) == pc' = [pc EXCEPT ![p] = l]

-----------------------------------------------------------------------------
(* The environment *)

\* The credential minter's secret reaches the operator.
CredentialsPropagate ==
  /\ ~credsReady
  /\ credsReady' = TRUE
  /\ UNCHANGED <<subnets, private, pc, privSubs, todo, zone, cand>>

-----------------------------------------------------------------------------
(* One caller p *)

\* The reconcile loop calls GetPrivateSubnetIDS again.
GetPrivateSubnetIDS(p) ==
  /\ pc[p] \in Idle
  /\ Goto(p, "vpc")
  /\ privSubs' = [privSubs EXCEPT ![p] = {}]
  /\ UNCHANGED <<subnets, private, credsReady, todo, zone, cand>>

\* getClusterVpc: GetClusterID, an unpolled DescribeSubnets to find the VPC
\* of the cluster-tagged subnets, then DescribeVpcs.
GetClusterVpc(p) ==
  /\ pc[p] = "vpc"
  /\ credsReady
  /\ Goto(p, "subnets")
  /\ UNCHANGED <<subnets, private, credsReady, privSubs, todo, zone, cand>>

\* Any of those calls fails; DescribeSubnets always does while the
\* credentials have not propagated.
GetClusterVpcFails(p) ==
  /\ pc[p] = "vpc"
  /\ Goto(p, "LookupFailed")
  /\ UNCHANGED <<subnets, private, credsReady, privSubs, todo, zone, cand>>

\* mutant: the poll's result assigned to a shadowed subs, so none is kept
GetVPCSubnetsShadowed(p) ==
  /\ pc[p] = "subnets"
  /\ credsReady
  /\ privSubs' = [privSubs EXCEPT ![p] = {}]
  /\ Goto(p, "azs")
  /\ UNCHANGED <<subnets, private, credsReady, todo, zone, cand>>

\* GetVPCSubnets through the polled getSubnets, then the filter on the
\* private-subnet tag key.
GetVPCSubnets(p) ==
  /\ pc[p] = "subnets"
  /\ credsReady
  /\ privSubs' = [privSubs EXCEPT ![p] = private]
  /\ Goto(p, "azs")
  /\ UNCHANGED <<subnets, private, credsReady, todo, zone, cand>>

\* wait.PollImmediate gives up after five minutes of failing DescribeSubnets.
GetSubnetsTimeout(p) ==
  /\ pc[p] = "subnets"
  /\ Goto(p, "PollTimeout")
  /\ UNCHANGED <<subnets, private, credsReady, privSubs, todo, zone, cand>>

GetAZs(p) ==
  /\ pc[p] = "azs"
  /\ todo' = [todo EXCEPT ![p] = AZs]
  /\ Goto(p, "loop")
  /\ UNCHANGED <<subnets, private, credsReady, privSubs, zone, cand>>

GetAZsFails(p) ==
  /\ pc[p] = "azs"
  /\ Goto(p, "AZsFailed")
  /\ UNCHANGED <<subnets, private, credsReady, privSubs, todo, zone, cand>>

\* The loop over azs visits a zone that already has a private subnet.
SkipCoveredZone(p) ==
  /\ pc[p] = "loop"
  /\ \E z \in todo[p] :
       /\ PrivateSubnetExists(privSubs[p], z)
       /\ todo' = [todo EXCEPT ![p] = @ \ {z}]
  /\ UNCHANGED <<subnets, private, credsReady, pc, privSubs, zone, cand>>

\* It visits a zone without one: createPrivateSubnet starts on the first
\* candidate of buildSubnetAddress.
CreatePrivateSubnet(p) ==
  /\ pc[p] = "loop"
  /\ \E z \in todo[p] :
       /\ ~PrivateSubnetExists(privSubs[p], z)
       /\ zone' = [zone EXCEPT ![p] = z]
  /\ cand' = [cand EXCEPT ![p] = 1]
  /\ Goto(p, "create")
  /\ UNCHANGED <<subnets, private, credsReady, privSubs, todo>>

\* CreateSubnet answers InvalidSubnet.Conflict: try the next candidate.
CreateSubnetConflict(p) ==
  /\ pc[p] = "create"
  /\ cand[p] <= NBlocks
  /\ Candidate(cand[p]) \in Occupied
  /\ cand' = [cand EXCEPT ![p] = @ + 1]
  /\ UNCHANGED <<subnets, private, credsReady, pc, privSubs, todo, zone>>

CreateSubnet(p) ==
  /\ pc[p] = "create"
  /\ cand[p] <= NBlocks
  /\ Candidate(cand[p]) \notin Occupied
  /\ subnets' = subnets \cup {NewSubnet(p)}
  /\ Goto(p, "tag")
  /\ UNCHANGED <<private, credsReady, privSubs, todo, zone, cand>>

\* Any other CreateSubnet error ends the call.
CreateSubnetFails(p) ==
  /\ pc[p] = "create"
  /\ cand[p] <= NBlocks
  /\ Goto(p, "ProvisionFailed")
  /\ UNCHANGED <<subnets, private, credsReady, privSubs, todo, zone, cand>>

\* Every candidate conflicted: createPrivateSubnet returns (nil, nil), the
\* nil is appended to privSubs and the next dereference of it (in
\* privateSubnetExists or when the ids are collected) panics.
CandidatesExhausted(p) ==
  /\ pc[p] = "create"
  /\ cand[p] = NBlocks + 1
  /\ Goto(p, "panicked")
  /\ UNCHANGED <<subnets, private, credsReady, privSubs, todo, zone, cand>>

\* tagPrivateSubnet succeeds; the subnet joins privSubs and the loop moves on.
TagPrivateSubnet(p) ==
  /\ pc[p] = "tag"
  /\ private' = private \cup {NewSubnet(p)}
  /\ privSubs' = [privSubs EXCEPT ![p] = @ \cup {NewSubnet(p)}]
  /\ todo' = [todo EXCEPT ![p] = @ \ {zone[p]}]
  /\ Goto(p, "loop")
  /\ UNCHANGED <<subnets, credsReady, zone, cand>>

\* getDefaultSubnetTags or CreateTags fails: the error is returned and the
\* new subnet stays, untagged.
TagPrivateSubnetFails(p) ==
  /\ pc[p] = "tag"
  /\ Goto(p, "TaggingFailed")
  /\ UNCHANGED <<subnets, private, credsReady, privSubs, todo, zone, cand>>

\* All zones visited: return the ids of privSubs, an error if there are none.
ReturnSubnetIDs(p) ==
  /\ pc[p] = "loop"
  /\ todo[p] = {}
  /\ Goto(p, IF privSubs[p] = {} THEN "NoSubnetIDs" ELSE "done")
  /\ UNCHANGED <<subnets, private, credsReady, privSubs, todo, zone, cand>>

Step(p) ==
  \/ GetPrivateSubnetIDS(p)
  \/ GetClusterVpc(p) \/ GetClusterVpcFails(p)
  \/ GetVPCSubnets(p) \/ GetSubnetsTimeout(p)
  \/ GetAZs(p) \/ GetAZsFails(p)
  \/ SkipCoveredZone(p) \/ CreatePrivateSubnet(p)
  \/ CreateSubnetConflict(p) \/ CreateSubnet(p) \/ CreateSubnetFails(p)
  \/ CandidatesExhausted(p)
  \/ TagPrivateSubnet(p) \/ TagPrivateSubnetFails(p)
  \/ ReturnSubnetIDs(p)

Next == CredentialsPropagate \/ \E p \in Procs : Step(p)

Spec == Init /\ [][Next]_vars

-----------------------------------------------------------------------------
(* Properties *)

(***************************************************************************)
(* What GetPrivateSubnetIDS promises its caller (RDS subnet groups): when  *)
(* a call returns ids, every one of them is a subnet that carries the     *)
(* private-subnet tag now, and every available zone has one among them,   *)
(* whatever other callers did to the VPC in between.                      *)
(***************************************************************************)
PassResultCorrect ==
  \A p \in Procs : pc[p] = "done" =>
     /\ privSubs[p] \subseteq private
     /\ \A z \in Available : \E s \in privSubs[p] : s.az = z

(***************************************************************************)
(* The spec's data model: an available zone has at most one private       *)
(* subnet, the invariant the creation in GetPrivateSubnetIDS establishes.  *)
(***************************************************************************)
OnePrivateSubnetPerZone ==
  \A s, t \in private : s.az = t.az /\ s.az \in Available => s = t

(***************************************************************************)
(* How far the race of two listings in createPrivateSubnet's callers can  *)
(* go: callers whose listings both predate the first tag in a zone may    *)
(* each create and tag a subnet there, but a caller adds at most one per  *)
(* zone and call, and any later listing sees the tagged one.  So an       *)
(* available zone never has more private subnets than there are callers,  *)
(* however the calls, their tag failures and their re-runs interleave.    *)
(***************************************************************************)
PrivateSubnetsBounded ==
  \A z \in Available : Cardinality({s \in private : s.az = z}) <= Cardinality(Procs)

(***************************************************************************)
(* Spec 8: a zone that is not "available" is never a target; no step of   *)
(* createPrivateSubnet creates a subnet in it.                             *)
(***************************************************************************)
NoSubnetInUnavailableZone ==
  [][\A s \in subnets' \ subnets : s.az \in Available]_vars

(***************************************************************************)
(* Spec 4.3 and 7: re-running after a tagging failure is idempotent, so   *)
(* the operator never creates two subnets in one zone.                     *)
(***************************************************************************)
OneCreatedSubnetPerZone ==
  \A s, t \in subnets \ InitSubnets : s.az = t.az => s = t

(***************************************************************************)
(* Spec 4.3, 7 and 9: running out of candidates is reported as an error   *)
(* (AddressSpaceExhausted); createPrivateSubnet never makes the call panic.*)
(***************************************************************************)
ExhaustionIsAnError == \A p \in Procs : pc[p] # "panicked"

(***************************************************************************)
(* The comment in getClusterVpc and spec 5: the first AWS call is polled, *)
(* so a call never fails in the VPC lookup only because the minted         *)
(* credentials have not propagated yet.                                    *)
(***************************************************************************)
CredentialWaitAbsorbed ==
  [][\A p \in Procs : pc[p] = "vpc" /\ pc'[p] \in Errors => credsReady]_vars

-----------------------------------------------------------------------------
(***************************************************************************)
(* The inductive invariant behind PassResultCorrect and TypeOK.  A caller *)
(* only ever copies tagged subnets into privSubs, and tags are never      *)
(* removed (SnapshotPrivate); every available zone its loop has passed    *)
(* has a subnet of privSubs (ZonesPassedCovered), and a finished loop has *)
(* passed them all; the subnet being tagged exists and is a block of the  *)
(* VPC (TaggingCreated).                                                  *)
(***************************************************************************)
SnapshotPrivate == \A p \in Procs : privSubs[p] \subseteq private

ZonesPassedCovered ==
  \A p \in Procs : pc[p] \in {"loop", "create", "tag", "done"} =>
     \A z \in Available \ todo[p] : \E s \in privSubs[p] : s.az = z

LoopFinished == \A p \in Procs : pc[p] = "done" => todo[p] = {}

TaggingCreated ==
  \A p \in Procs : pc[p] = "tag" =>
     cand[p] \in 1..NBlocks /\ NewSubnet(p) \in subnets

IInv ==
  /\ TypeOK
  /\ SnapshotPrivate
  /\ ZonesPassedCovered
  /\ LoopFinished
  /\ TaggingCreated

(***************************************************************************)
(* The inductive invariant behind PrivateSubnetsBounded.  A caller is     *)
(* armed for zone z while its current call may still tag a subnet there: *)
(* it has listed (or is about to list the zones), its privSubs has no     *)
(* subnet in z, and z is still to be visited or is being provisioned.     *)
(* While it creates and tags, the zone it works on is still in todo and,  *)
(* if available, uncovered in its privSubs (TargetPending).  Once a zone  *)
(* has a private subnet, the private subnets there and the callers armed  *)
(* for it together never outnumber the callers (ArmedBound): a tag turns  *)
(* one armed caller into one more subnet, and a caller that lists after  *)
(* the first tag is never armed.                                          *)
(***************************************************************************)
PrivateIn(z) == {s \in private : s.az = z}

Armed(z) ==
  {p \in Procs :
     /\ pc[p] \in {"azs", "loop", "create", "tag"}
     /\ ~\E s \in privSubs[p] : s.az = z
     /\ pc[p] = "azs" \/ z \in todo[p]}

TargetPending ==
  \A p \in Procs : pc[p] \in {"create", "tag"} =>
     /\ zone[p] \in todo[p]
     /\ zone[p] \in Available => ~\E s \in privSubs[p] : s.az = zone[p]

ArmedBound ==
  \A z \in Available :
     PrivateIn(z) # {} =>
        Cardinality(PrivateIn(z)) + Cardinality(Armed(z)) <= Cardinality(Procs)

BoundInv ==
  /\ IInv
  /\ IsFiniteSet(private)
  /\ TargetPending
  /\ ArmedBound

=============================================================================
