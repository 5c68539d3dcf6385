----------------------- MODULE SubnetReconcilerProofs -----------------------
(***************************************************************************)
(* Proofs, for every number of callers, zones and VPC blocks, that the     *)
(* variables of SubnetReconciler keep their types and that a successful    *)
(* GetPrivateSubnetIDS returns tagged subnets covering every available    *)
(* zone; both rest on the inductive invariant IInv.  Then that however    *)
(* the callers race, no available zone gets more private subnets than     *)
(* there are callers, from the strengthening BoundInv.                     *)
(***************************************************************************)
EXTENDS SubnetReconciler, FiniteSetTheorems, TLAPS

USE ProcsAssumption, AZsAssumption, NBlocksAssumption

\* The subnet a caller creates from an in-range candidate is a /27 block of
\* the VPC in that caller's zone.
LEMMA NewSubnetType ==
  ASSUME TypeOK, NEW p \in Procs, cand[p] \in 1..NBlocks
  PROVE  NewSubnet(p) \in Subnet
BY DEF TypeOK, NewSubnet, Candidate, Subnet, Blocks

LEMMA InitIInv == Init => IInv
<1> SUFFICES ASSUME Init PROVE IInv
  OBVIOUS
<1>1. (CHOOSE z \in AZs : TRUE) \in AZs
  OBVIOUS
<1>2. TypeOK
  <2>1. subnets \subseteq Subnet /\ private \subseteq subnets
    BY InitAssumption DEF Init
  <2>2. pc \in [Procs -> PC] /\ credsReady \in BOOLEAN
    BY DEF Init, PC, Idle
  <2>3. privSubs \in [Procs -> SUBSET Subnet] /\ todo \in [Procs -> SUBSET AZs]
    BY DEF Init
  <2>4. zone \in [Procs -> AZs] /\ cand \in [Procs -> 1..NBlocks+1]
    BY <1>1 DEF Init
  <2>5. QED
    BY <2>1, <2>2, <2>3, <2>4 DEF TypeOK
<1>3. SnapshotPrivate /\ ZonesPassedCovered /\ LoopFinished /\ TaggingCreated
  BY DEF Init, SnapshotPrivate, ZonesPassedCovered, LoopFinished,
         TaggingCreated
<1>4. QED
  BY <1>2, <1>3 DEF IInv

\* A step of caller p.  The actions that change the provider's subnets or
\* tags, or p's privSubs and todo, get a step of their own; the others only
\* move pc[p] or cand[p].
LEMMA StepIInv ==
  ASSUME IInv, NEW p \in Procs, Step(p)
  PROVE  IInv'
<1> USE DEF IInv, TypeOK, PC, Idle, Errors
<1>1. CASE GetPrivateSubnetIDS(p)
  BY <1>1 DEF GetPrivateSubnetIDS, Goto, SnapshotPrivate, ZonesPassedCovered,
              LoopFinished, TaggingCreated, NewSubnet
<1>2. CASE GetClusterVpc(p) \/ GetClusterVpcFails(p)
  BY <1>2 DEF GetClusterVpc, GetClusterVpcFails, Goto, SnapshotPrivate,
              ZonesPassedCovered, LoopFinished, TaggingCreated, NewSubnet
<1>3. CASE GetVPCSubnets(p)
  BY <1>3 DEF GetVPCSubnets, Goto, SnapshotPrivate, ZonesPassedCovered,
              LoopFinished, TaggingCreated, NewSubnet
<1>4. CASE GetSubnetsTimeout(p)
  BY <1>4 DEF GetSubnetsTimeout, Goto, SnapshotPrivate, ZonesPassedCovered,
              LoopFinished, TaggingCreated, NewSubnet
<1>5. CASE GetAZs(p) \/ GetAZsFails(p)
  BY <1>5 DEF GetAZs, GetAZsFails, Goto, SnapshotPrivate, ZonesPassedCovered,
              LoopFinished, TaggingCreated, NewSubnet
<1>6. CASE SkipCoveredZone(p)
  BY <1>6 DEF SkipCoveredZone, PrivateSubnetExists, SnapshotPrivate,
              ZonesPassedCovered, LoopFinished, TaggingCreated, NewSubnet
<1>7. CASE CreatePrivateSubnet(p)
  BY <1>7 DEF CreatePrivateSubnet, Goto, SnapshotPrivate, ZonesPassedCovered,
              LoopFinished, TaggingCreated, NewSubnet
<1>8. CASE CreateSubnetConflict(p)
  BY <1>8 DEF CreateSubnetConflict, SnapshotPrivate, ZonesPassedCovered,
              LoopFinished, TaggingCreated, NewSubnet
<1>9. CASE CreateSubnet(p)
  <2>1. NewSubnet(p) \in Subnet
    BY <1>9, NewSubnetType DEF CreateSubnet
  <2>2. NewSubnet(p)' = NewSubnet(p)
    BY <1>9 DEF CreateSubnet, NewSubnet
  <2>3. TypeOK'
    BY <1>9, <2>1 DEF CreateSubnet, Goto
  <2>4. SnapshotPrivate' /\ LoopFinished'
    BY <1>9 DEF CreateSubnet, Goto, SnapshotPrivate, LoopFinished
  <2>5. ZonesPassedCovered'
    BY <1>9 DEF CreateSubnet, Goto, ZonesPassedCovered
  <2>6. TaggingCreated'
    <3>1. SUFFICES ASSUME NEW q \in Procs, pc'[q] = "tag"
                   PROVE  cand'[q] \in 1..NBlocks /\ NewSubnet(q)' \in subnets'
      BY DEF TaggingCreated
    <3>2. CASE q = p
      BY <1>9, <2>2, <3>2 DEF CreateSubnet
    <3>3. CASE q # p
      BY <1>9, <3>1, <3>3 DEF CreateSubnet, Goto, TaggingCreated, NewSubnet
    <3>4. QED
      BY <3>2, <3>3
  <2>7. QED
    BY <2>3, <2>4, <2>5, <2>6
<1>10. CASE CreateSubnetFails(p) \/ CandidatesExhausted(p)
  BY <1>10 DEF CreateSubnetFails, CandidatesExhausted, Goto, SnapshotPrivate,
               ZonesPassedCovered, LoopFinished, TaggingCreated, NewSubnet
<1>11. CASE TagPrivateSubnet(p)
  <2>1. NewSubnet(p) \in subnets /\ NewSubnet(p) \in Subnet
    BY <1>11, NewSubnetType DEF TagPrivateSubnet, TaggingCreated
  <2>2. NewSubnet(p)' = NewSubnet(p)
    BY <1>11 DEF TagPrivateSubnet, NewSubnet
  <2>3. TypeOK'
    BY <1>11, <2>1 DEF TagPrivateSubnet, Goto
  <2>4. SnapshotPrivate'
    BY <1>11 DEF TagPrivateSubnet, SnapshotPrivate
  <2>5. ZonesPassedCovered'
    BY <1>11, <2>1 DEF TagPrivateSubnet, Goto, ZonesPassedCovered, NewSubnet
  <2>6. LoopFinished' /\ TaggingCreated'
    BY <1>11 DEF TagPrivateSubnet, Goto, LoopFinished, TaggingCreated,
                 NewSubnet
  <2>7. QED
    BY <2>3, <2>4, <2>5, <2>6
<1>12. CASE TagPrivateSubnetFails(p)
  BY <1>12 DEF TagPrivateSubnetFails, Goto, SnapshotPrivate,
               ZonesPassedCovered, LoopFinished, TaggingCreated, NewSubnet
<1>13. CASE ReturnSubnetIDs(p)
  BY <1>13 DEF ReturnSubnetIDs, Goto, SnapshotPrivate, ZonesPassedCovered,
               LoopFinished, TaggingCreated, NewSubnet
<1>14. QED
  BY <1>1, <1>2, <1>3, <1>4, <1>5, <1>6, <1>7, <1>8, <1>9, <1>10, <1>11,
     <1>12, <1>13 DEF Step

LEMMA NextIInv == IInv /\ [Next]_vars => IInv'
<1> SUFFICES ASSUME IInv, [Next]_vars PROVE IInv'
  OBVIOUS
<1>1. CASE CredentialsPropagate
  BY <1>1 DEF CredentialsPropagate, IInv, TypeOK, SnapshotPrivate,
              ZonesPassedCovered, LoopFinished, TaggingCreated, NewSubnet
<1>2. CASE \E p \in Procs : Step(p)
  BY <1>2, StepIInv
<1>3. CASE UNCHANGED vars
  BY <1>3 DEF vars, IInv, TypeOK, SnapshotPrivate, ZonesPassedCovered,
              LoopFinished, TaggingCreated, NewSubnet
<1>4. QED
  BY <1>1, <1>2, <1>3 DEF Next

\* The inductive invariant holds in every reachable state.
THEOREM IInvariant == Spec => []IInv
BY InitIInv, NextIInv, PTL DEF Spec

(***************************************************************************)
(* Every variable of the model keeps its type: in particular every subnet  *)
(* CreateSubnet makes is a block of the VPC, and the candidate index never *)
(* runs past NBlocks + 1.                                                  *)
(***************************************************************************)
THEOREM TypeCorrect == Spec => []TypeOK
BY IInvariant, PTL DEF IInv

(***************************************************************************)
(* Whatever the number of callers and their interleaving, a call of       *)
(* GetPrivateSubnetIDS that returns ids returns only tagged subnets, one  *)
(* at least in every available zone.                                       *)
(***************************************************************************)
THEOREM ResultCorrect == Spec => []PassResultCorrect
<1>1. IInv => PassResultCorrect
  BY DEF IInv, PassResultCorrect, SnapshotPrivate, ZonesPassedCovered,
         LoopFinished
<1>2. QED
  BY <1>1, IInvariant, PTL

-----------------------------------------------------------------------------
(* Concurrent callers: at most one private subnet per caller and zone *)

\* The callers armed for a zone are finitely many, at most all of them.
LEMMA ArmedCard ==
  ASSUME NEW z
  PROVE  /\ IsFiniteSet(Armed(z))
         /\ Cardinality(Armed(z)) \in Nat
         /\ Cardinality(Armed(z)) <= Cardinality(Procs)
<1>1. Armed(z) \subseteq Procs
  BY DEF Armed
<1>2. QED
  BY <1>1, FS_Subset, FS_CardinalityType

\* A step that leaves the private subnets of z alone and arms nobody new
\* for z keeps the bound for z.
LEMMA BoundKept ==
  ASSUME NEW z, IsFiniteSet(private),
         PrivateIn(z) # {} =>
            Cardinality(PrivateIn(z)) + Cardinality(Armed(z)) <= Cardinality(Procs),
         PrivateIn(z)' = PrivateIn(z),
         PrivateIn(z) # {} => Armed(z)' \subseteq Armed(z)
  PROVE  PrivateIn(z)' # {} =>
            Cardinality(PrivateIn(z)') + Cardinality(Armed(z)') <= Cardinality(Procs)
<1> SUFFICES ASSUME PrivateIn(z) # {}
             PROVE  Cardinality(PrivateIn(z)) + Cardinality(Armed(z)') <= Cardinality(Procs)
  OBVIOUS
<1>1. IsFiniteSet(PrivateIn(z)) /\ Cardinality(PrivateIn(z)) \in Nat
  BY FS_Subset, FS_CardinalityType DEF PrivateIn
<1>2. Cardinality(Armed(z)') <= Cardinality(Armed(z))
  BY ArmedCard, FS_Subset
<1>3. Cardinality(Armed(z)') \in Nat /\ Cardinality(Armed(z)) \in Nat
  BY ArmedCard, FS_Subset, FS_CardinalityType
<1>4. Cardinality(Procs) \in Nat
  BY FS_CardinalityType
<1>5. Cardinality(PrivateIn(z)) + Cardinality(Armed(z)) <= Cardinality(Procs)
  OBVIOUS
<1>6. QED
  BY <1>1, <1>2, <1>3, <1>4, <1>5

\* A step of p that changes no other caller's state and does not arm p
\* arms nobody new.
LEMMA ArmedShrinks ==
  ASSUME NEW p \in Procs, NEW z,
         \A q \in Procs \ {p} : /\ pc'[q] = pc[q]
                                /\ privSubs'[q] = privSubs[q]
                                /\ todo'[q] = todo[q],
         p \in Armed(z)' => p \in Armed(z)
  PROVE  Armed(z)' \subseteq Armed(z)
BY DEF Armed

LEMMA InitBoundInv == Init => BoundInv
<1> SUFFICES ASSUME Init PROVE BoundInv
  OBVIOUS
<1>1. IInv
  BY InitIInv
<1>2. IsFiniteSet(private)
  BY InitAssumption, FS_Subset DEF Init
<1>3. TargetPending
  BY DEF Init, TargetPending
<1>4. ASSUME NEW z \in Available, PrivateIn(z) # {}
      PROVE  Cardinality(PrivateIn(z)) + Cardinality(Armed(z)) <= Cardinality(Procs)
  <2>1. Armed(z) = {}
    BY DEF Init, Armed
  <2>2. PICK s0 \in PrivateIn(z) : TRUE
    BY <1>4
  <2>3. PrivateIn(z) \subseteq {s0}
    BY InitAssumption DEF Init, PrivateIn
  <2>4. Cardinality(PrivateIn(z)) <= 1
    <3>1. IsFiniteSet({s0}) /\ Cardinality({s0}) = 1
      BY FS_Singleton
    <3>2. QED
      BY <2>3, <3>1, FS_Subset
  <2>5. Cardinality(Procs) \in Nat /\ Cardinality(Procs) # 0
    <3>1. Cardinality(Procs) = 0 <=> Procs = {}
      BY FS_EmptySet
    <3>2. QED
      BY <3>1, FS_CardinalityType
  <2>6. Cardinality(Armed(z)) = 0
    BY <2>1, FS_EmptySet
  <2>7. Cardinality(PrivateIn(z)) \in Nat
    BY <1>2, FS_Subset, FS_CardinalityType DEF PrivateIn
  <2>8. QED
    BY <2>4, <2>5, <2>6, <2>7
<1>5. ArmedBound
  BY <1>4 DEF ArmedBound
<1>6. QED
  BY <1>1, <1>2, <1>3, <1>5 DEF BoundInv

\* the state of every caller other than p is left alone
OthersFrame(p) ==
  \A q \in Procs \ {p} : /\ pc'[q] = pc[q]
                         /\ privSubs'[q] = privSubs[q]
                         /\ todo'[q] = todo[q]
                         /\ zone'[q] = zone[q]

LEMMA StepFrame ==
  ASSUME TypeOK, NEW p \in Procs, Step(p)
  PROVE  OthersFrame(p)
BY DEF Step, TypeOK, OthersFrame, Goto, GetPrivateSubnetIDS, GetClusterVpc,
       GetClusterVpcFails, GetVPCSubnets, GetSubnetsTimeout, GetAZs,
       GetAZsFails, SkipCoveredZone, CreatePrivateSubnet, CreateSubnetConflict,
       CreateSubnet, CreateSubnetFails, CandidatesExhausted, TagPrivateSubnet,
       TagPrivateSubnetFails, ReturnSubnetIDs

\* the steps after which p is not armed for any zone
Leaves(p) ==
  \/ GetPrivateSubnetIDS(p) \/ GetClusterVpc(p) \/ GetClusterVpcFails(p)
  \/ GetSubnetsTimeout(p) \/ GetAZsFails(p) \/ CreateSubnetFails(p)
  \/ CandidatesExhausted(p) \/ TagPrivateSubnetFails(p) \/ ReturnSubnetIDs(p)

\* the steps of p's zone loop that tag nothing
LoopSteps(p) ==
  \/ SkipCoveredZone(p) \/ CreatePrivateSubnet(p) \/ CreateSubnetConflict(p)
  \/ CreateSubnet(p)

LEMMA LeavesFacts ==
  ASSUME TypeOK, NEW p \in Procs, Leaves(p)
  PROVE  /\ pc'[p] \notin {"azs", "loop", "create", "tag"}
         /\ private' = private
BY DEF Leaves, TypeOK, Goto, GetPrivateSubnetIDS, GetClusterVpc,
       GetClusterVpcFails, GetSubnetsTimeout, GetAZsFails, CreateSubnetFails,
       CandidatesExhausted, TagPrivateSubnetFails, ReturnSubnetIDs, PC, Idle,
       Errors

LEMMA LoopFacts ==
  ASSUME TypeOK, NEW p \in Procs, LoopSteps(p)
  PROVE  /\ pc[p] \in {"loop", "create"}
         /\ pc'[p] \in {"loop", "create", "tag"}
         /\ privSubs'[p] = privSubs[p]
         /\ todo'[p] \subseteq todo[p]
         /\ private' = private
BY DEF LoopSteps, TypeOK, Goto, SkipCoveredZone, CreatePrivateSubnet,
       CreateSubnetConflict, CreateSubnet

LEMMA StepTargetPending ==
  ASSUME BoundInv, NEW p \in Procs, Step(p)
  PROVE  TargetPending'
<1> USE DEF BoundInv, IInv
<1>1. OthersFrame(p)
  BY StepFrame
<1>2. SUFFICES pc'[p] \in {"create", "tag"} =>
                 /\ zone'[p] \in todo'[p]
                 /\ zone'[p] \in Available =>
                       ~\E s \in privSubs'[p] : s.az = zone'[p]
  BY <1>1 DEF TargetPending, OthersFrame
<1>3. CASE Leaves(p)
  BY <1>3, LeavesFacts
<1>4. CASE GetVPCSubnets(p) \/ GetAZs(p) \/ SkipCoveredZone(p)
       \/ TagPrivateSubnet(p)
  BY <1>4 DEF TypeOK, Goto, GetVPCSubnets, GetAZs, SkipCoveredZone,
              TagPrivateSubnet
<1>5. CASE CreatePrivateSubnet(p)
  <2>1. PICK z \in todo[p] : /\ ~PrivateSubnetExists(privSubs[p], z)
                             /\ zone' = [zone EXCEPT ![p] = z]
    BY <1>5 DEF CreatePrivateSubnet
  <2>2. QED
    BY <1>5, <2>1 DEF CreatePrivateSubnet, PrivateSubnetExists, TypeOK
<1>6. CASE CreateSubnetConflict(p) \/ CreateSubnet(p)
  BY <1>6 DEF CreateSubnetConflict, CreateSubnet, Goto, TypeOK, TargetPending
<1>7. QED
  BY <1>3, <1>4, <1>5, <1>6 DEF Step, Leaves

\* Tagging adds at most one subnet to a set and disarms an armed caller:
\* the sum of the two cardinalities does not grow, and is at most |Procs|
\* when the set was empty.
LEMMA TagArith ==
  ASSUME NEW A, NEW A2, NEW B, NEW B2, NEW n, NEW x,
         IsFiniteSet(A), IsFiniteSet(B), A2 \subseteq A \cup {n},
         x \in B, B2 \subseteq B \ {x},
         Cardinality(B) <= Cardinality(Procs),
         A # {} => Cardinality(A) + Cardinality(B) <= Cardinality(Procs)
  PROVE  Cardinality(A2) + Cardinality(B2) <= Cardinality(Procs)
<1>1. /\ IsFiniteSet(A \cup {n})
      /\ Cardinality(A \cup {n}) <= Cardinality(A) + 1
  <2>1. IsFiniteSet(A \cup {n})
        /\ Cardinality(A \cup {n}) =
             IF n \in A THEN Cardinality(A) ELSE Cardinality(A) + 1
    BY FS_AddElement
  <2>2. Cardinality(A) \in Nat
    BY FS_CardinalityType
  <2>3. QED
    BY <2>1, <2>2
<1>2. /\ IsFiniteSet(B \ {x})
      /\ Cardinality(B \ {x}) = Cardinality(B) - 1
  BY FS_RemoveElement
<1>3. Cardinality(A2) <= Cardinality(A \cup {n})
      /\ Cardinality(B2) <= Cardinality(B \ {x})
  BY <1>1, <1>2, FS_Subset
<1>4. /\ Cardinality(A) \in Nat /\ Cardinality(B) \in Nat
      /\ Cardinality(A2) \in Nat /\ Cardinality(B2) \in Nat
      /\ Cardinality(Procs) \in Nat
  BY <1>1, <1>2, FS_Subset, FS_CardinalityType, ProcsAssumption
<1>5. Cardinality(A2) <= Cardinality(A) + 1
  <2>1. Cardinality(A \cup {n}) \in Nat
    BY <1>1, FS_CardinalityType
  <2>2. QED
    BY <1>1, <1>3, <1>4, <2>1
<1>6. Cardinality(B2) <= Cardinality(B) - 1
  BY <1>2, <1>3, <1>4
<1>7. CASE A # {}
  <2>1. Cardinality(A) + Cardinality(B) <= Cardinality(Procs)
    BY <1>7
  <2>2. QED
    BY <1>4, <1>5, <1>6, <2>1
<1>8. CASE A = {}
  <2>1. Cardinality(A) = 0
    BY <1>8, FS_EmptySet
  <2>2. QED
    BY <1>4, <1>5, <1>6, <2>1
<1>9. QED
  BY <1>7, <1>8

LEMMA StepArmedBound ==
  ASSUME BoundInv, NEW p \in Procs, Step(p)
  PROVE  ArmedBound'
<1> USE DEF BoundInv, IInv
<1> SUFFICES ASSUME NEW z \in Available
             PROVE  (PrivateIn(z) # {} =>
                       Cardinality(PrivateIn(z)) + Cardinality(Armed(z))
                          <= Cardinality(Procs))'
  BY DEF ArmedBound
<1>1. OthersFrame(p)
  BY StepFrame
<1>2. PrivateIn(z) # {} =>
        Cardinality(PrivateIn(z)) + Cardinality(Armed(z)) <= Cardinality(Procs)
  BY DEF ArmedBound
<1>3. \A q \in Procs \ {p} : /\ pc'[q] = pc[q]
                             /\ privSubs'[q] = privSubs[q]
                             /\ todo'[q] = todo[q]
  BY <1>1 DEF OthersFrame
<1>4. CASE Leaves(p)
  <2>1. PrivateIn(z)' = PrivateIn(z)
    BY <1>4, LeavesFacts DEF PrivateIn
  <2>2. Armed(z)' \subseteq Armed(z)
    BY <1>3, <1>4, LeavesFacts, ArmedShrinks DEF Armed
  <2>3. QED
    BY <1>2, <2>1, <2>2, BoundKept
<1>5. CASE LoopSteps(p)
  <2>1. PrivateIn(z)' = PrivateIn(z)
    BY <1>5, LoopFacts DEF PrivateIn
  <2>2. p \in Armed(z)' => p \in Armed(z)
    BY <1>5, LoopFacts DEF Armed
  <2>3. Armed(z)' \subseteq Armed(z)
    BY <1>3, <2>2, ArmedShrinks
  <2>4. QED
    BY <1>2, <2>1, <2>3, BoundKept
<1>6. CASE GetVPCSubnets(p)
  <2>1. PrivateIn(z)' = PrivateIn(z)
    BY <1>6 DEF GetVPCSubnets, PrivateIn
  <2>2. PrivateIn(z) # {} => p \notin Armed(z)'
    BY <1>6 DEF GetVPCSubnets, Goto, Armed, PrivateIn, TypeOK
  <2>3. PrivateIn(z) # {} => Armed(z)' \subseteq Armed(z)
    BY <1>3, <2>2, ArmedShrinks
  <2>4. QED
    BY <1>2, <2>1, <2>3, BoundKept
<1>7. CASE GetAZs(p)
  <2>1. PrivateIn(z)' = PrivateIn(z)
    BY <1>7 DEF GetAZs, PrivateIn
  <2>2. p \in Armed(z)' => p \in Armed(z)
    BY <1>7, AZsAssumption DEF GetAZs, Goto, Armed, TypeOK
  <2>3. Armed(z)' \subseteq Armed(z)
    BY <1>3, <2>2, ArmedShrinks
  <2>4. QED
    BY <1>2, <2>1, <2>3, BoundKept
<1>8. CASE TagPrivateSubnet(p) /\ zone[p] # z
  <2>1. PrivateIn(z)' = PrivateIn(z)
    BY <1>8 DEF TagPrivateSubnet, PrivateIn, NewSubnet
  <2>2. p \in Armed(z)' => p \in Armed(z)
    BY <1>8 DEF TagPrivateSubnet, Goto, Armed, TypeOK
  <2>3. Armed(z)' \subseteq Armed(z)
    BY <1>3, <2>2, ArmedShrinks
  <2>4. QED
    BY <1>2, <2>1, <2>3, BoundKept
<1>9. CASE TagPrivateSubnet(p) /\ zone[p] = z
  <2>1. PrivateIn(z)' \subseteq PrivateIn(z) \cup {NewSubnet(p)}
    BY <1>9 DEF TagPrivateSubnet, PrivateIn
  <2>2. p \in Armed(z)
    BY <1>9 DEF TagPrivateSubnet, TargetPending, Armed
  <2>3. p \notin Armed(z)'
    BY <1>9 DEF TagPrivateSubnet, Goto, Armed, TypeOK
  <2>4. Armed(z)' \subseteq Armed(z) \ {p}
    <3>1. Armed(z)' \subseteq Armed(z)
      BY <1>3, <2>3, ArmedShrinks
    <3>2. QED
      BY <2>3, <3>1
  <2>5. IsFiniteSet(PrivateIn(z))
    BY FS_Subset DEF PrivateIn
  <2>6. QED
    BY <1>2, <2>1, <2>2, <2>4, <2>5, ArmedCard, TagArith
<1>10. QED
  BY <1>4, <1>5, <1>6, <1>7, <1>8, <1>9 DEF Step, Leaves, LoopSteps

LEMMA StepPrivateFinite ==
  ASSUME BoundInv, NEW p \in Procs, Step(p)
  PROVE  IsFiniteSet(private')
<1>1. CASE TagPrivateSubnet(p)
  BY <1>1, FS_AddElement DEF BoundInv, TagPrivateSubnet
<1>2. CASE ~TagPrivateSubnet(p)
  <2>1. private' = private
    BY <1>2 DEF Step, GetPrivateSubnetIDS, GetClusterVpc, GetClusterVpcFails,
                GetVPCSubnets, GetSubnetsTimeout, GetAZs, GetAZsFails,
                SkipCoveredZone, CreatePrivateSubnet, CreateSubnetConflict,
                CreateSubnet, CreateSubnetFails, CandidatesExhausted,
                TagPrivateSubnetFails, ReturnSubnetIDs
  <2>2. QED
    BY <2>1 DEF BoundInv
<1>3. QED
  BY <1>1, <1>2

LEMMA NextBoundInv == BoundInv /\ [Next]_vars => BoundInv'
<1> SUFFICES ASSUME BoundInv, [Next]_vars PROVE BoundInv'
  OBVIOUS
<1>1. IInv'
  BY NextIInv DEF BoundInv
<1>2. CASE \E p \in Procs : Step(p)
  BY <1>1, <1>2, StepPrivateFinite, StepTargetPending, StepArmedBound
     DEF BoundInv
<1>3. CASE CredentialsPropagate \/ UNCHANGED vars
  <2>1. UNCHANGED <<private, pc, privSubs, todo, zone>>
    BY <1>3 DEF CredentialsPropagate, vars
  <2>2. QED
    BY <1>1, <2>1 DEF BoundInv, TargetPending, ArmedBound, Armed, PrivateIn
<1>4. QED
  BY <1>2, <1>3 DEF Next

(***************************************************************************)
(* However many callers run GetPrivateSubnetIDS at once on one cluster,   *)
(* each of them creates at most one private subnet per available zone: a *)
(* zone never holds more private subnets than there are callers.  The     *)
(* invariant that carries it counts, for a zone z that has one, the        *)
(* callers still "armed" for z (they will create a subnet in z because    *)
(* their snapshot of the private subnets, taken before the subnet        *)
(* appeared, shows none there): each tag in z disarms its creator.        *)
(***************************************************************************)
THEOREM CallersBoundDuplicates == Spec => []PrivateSubnetsBounded
<1>1. BoundInv => PrivateSubnetsBounded
  <2> SUFFICES ASSUME BoundInv, NEW z \in Available
               PROVE  Cardinality(PrivateIn(z)) <= Cardinality(Procs)
    BY DEF PrivateSubnetsBounded, PrivateIn
  <2>1. CASE PrivateIn(z) = {}
    BY <2>1, FS_EmptySet, FS_CardinalityType, ProcsAssumption
  <2>2. CASE PrivateIn(z) # {}
    <3>1. Cardinality(PrivateIn(z)) + Cardinality(Armed(z)) <= Cardinality(Procs)
      BY <2>2 DEF BoundInv, ArmedBound
    <3>2. Cardinality(PrivateIn(z)) \in Nat
      BY FS_Subset, FS_CardinalityType DEF BoundInv, PrivateIn
    <3>3. Cardinality(Armed(z)) \in Nat /\ Cardinality(Procs) \in Nat
      BY ArmedCard, FS_CardinalityType, ProcsAssumption
    <3>4. QED
      BY <3>1, <3>2, <3>3
  <2>3. QED
    BY <2>1, <2>2
<1>2. QED
  BY <1>1, InitBoundInv, NextBoundInv, PTL DEF Spec

=============================================================================
