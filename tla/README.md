# Formal model of the private-subnet reconciliation of the AWS network provider

This directory holds TLA+ models of the code in `src/`. It has TLC
configurations that check them on small instances and TLAPS proofs of
their main safety properties for every instance. The code is the
cloud-resource-operator's AWS network setup (`src/unnamed/part_000`). It
creates a private subnet in every availability zone (AZ) of a
single-AZ cluster's VPC so that a multi-AZ RDS instance can be placed
there. Two smaller files ride along: an e2e test helper that polls RHMI
stage status (`src/unnamed/part_001`) and `IsInProw`
(`src/pkg/resources/utils.go`).

## 1. Inventory

### Components, their state and operations

| Component (spec name) | Code | State it keeps | Operations |
|---|---|---|---|
| AddressSpacePlanner | `buildSubnetAddress`, `generateAvailableSubnets`, `containsNetwork`, `incrementIP` | none between calls. Within a call: the `networks` slice and the loop counter `i` | parse the VPC CIDR; reject a mask of /27 or longer; walk every address of the VPC, mask each to /27, de-duplicate; reverse |
| SubnetInventory | `getSubnets`, `GetVPCSubnets`, the tag filter in `GetPrivateSubnetIDS`, `privateSubnetExists` | the `privSubs` slice of one call | DescribeSubnets polled every 5 s for up to 5 min; keep the subnets that carry `kubernetes.io/role/internal-elb`; a zone counts as covered if a listed subnet is in it *and* the zone's state is `available` |
| SubnetProvisioner | `createPrivateSubnet`, `tagPrivateSubnet`, `getDefaultSubnetTags` | the candidate index of one call | CreateSubnet on each candidate in turn. `InvalidSubnet.Conflict` moves on to the next candidate; any other error aborts. On success the subnet is tagged and a tag failure is returned. When the candidates run out it returns `(nil, nil)` |
| AZReconciler | `GetPrivateSubnetIDS`, `getAZs` | the loop over the zones | lookup, then listing, then the zones; for each uncovered zone call the provisioner and append the result; return the ids |
| ClusterVpcLookup | `getClusterVpc`, `getVPCIDByClusterSubnets`, `GetCidr` | none | GetClusterID, then an **unpolled** DescribeSubnets to find the cluster-tagged subnet's VPC, then DescribeVpcs |
| SecurityGroupReconciler | `configureSecurityGroup`, `getSecurityGroup` | none (AWS holds the group) | create the group and return; on a later pass, authorise the VPC-CIDR ingress rule if it is missing |
| StageStatusPoller (e2e test) | `TestIntegreatlyStagesStatus` and helpers | the `done` flag of one poll | every 15 s, forever: read the RHMI CR and walk the expected stages and products |
| IsInProw | `IsInProw` | none | a predicate over an annotation map |

The state that matters lives in AWS: the VPC's subnets, their tags and
the security groups. The operator keeps nothing between calls.

### How the components interact

The operator's Postgres and Redis providers both call
`GetPrivateSubnetIDS`, each from its own reconcile loop. So several
calls run at once against the same EC2 account. Within one call
everything is sequential blocking I/O. The only coordination between
calls is AWS's own check that a new subnet does not overlap an existing
one. Between any two AWS calls of one caller, another caller may act.
The credentials come from a credential minter and may not have
propagated yet when the first call runs.

### What is hard

- **Interleaving and stale state.** `privSubs` is read once at line 176
  and then used for every zone, while another caller may be creating
  subnets in the same zones.
- **Partial failure.** A subnet can be created and then fail to be
  tagged. The untagged subnet stays in the VPC.
- **Resource bounds.** The candidate list can run out; what happens
  then is the nil path at lines 254-257.
- **Timeouts and retries.** One listing is polled (lines 465-472), one
  is not (line 480), and a conflict triggers a retry on the next
  candidate (line 240).
- **Numeric edges.** The mask boundary at line 337, and the 32-bit
  wrap in `incrementIP`.
- **Ordering.** The test poller's `done` flag depends on Go's random
  map iteration order.

### What makes each component correct

- **Planner.** Its output is exactly the /27 networks of the VPC, each
  once, highest first. It fails exactly when the VPC mask is /27 or
  longer.
- **Inventory and Reconciler.**
  - A call that returns ids returns tagged subnets that cover every
    available zone.
  - An available zone never gets a second private subnet (the spec's
    data model; concurrent callers break it, see `duplicate_concurrent`),
    and at the least never more private subnets than there are callers.
  - A zone that is not available is never targeted.
  - Re-running after a failure does not duplicate work.
- **Provisioner.** A created subnet lies inside the VPC. Running out
  of candidates is reported as an error, not a crash.
- **Lookup.** Credentials that are still propagating are waited for,
  as the comment at line 498 says.
- **Security groups.** The group eventually exists with the ingress
  rule. Concurrent creators do not fail forever.
- **Stage poller.** The test passes only when every expected stage and
  product is `completed`. It reports a failed or missing stage and stops.
  It ends once the operator stops changing the CR.
- **IsInProw.** A pure predicate; nothing to check beyond its definition.

## 2. Modules

### `SubnetReconciler.tla`: inventory, provisioner, reconciler and VPC lookup

The constants are:

- `Procs`: the concurrent callers.
- `AZs` and `Available`: the region's zones, and those in state
  `available`.
- `NBlocks`: the number of /27 blocks in the VPC.
- `InitSubnets` and `InitPrivate`: the cluster's existing subnets, and
  those tagged private.

The VPC is abstracted to its `NBlocks` blocks. A subnet is a record
`[cidr, az]`, where `cidr` is the set of blocks it overlaps; an existing
cluster subnet may span several blocks. The provider's overlap check is
`Candidate(cand[p]) \in Occupied`. The candidate list is
`Candidate(i) == NBlocks - i`, the reversed address order. `Planner`
checks that the code's generation loop produces exactly this order.

| Variable | Meaning |
|---|---|
| `subnets`, `private` | the provider's subnets, and those carrying the private-subnet tag |
| `credsReady` | the minted credentials have propagated |
| `pc[p]` | the call of `GetPrivateSubnetIDS` that `p` is in. When idle it holds the call's outcome: `done`, one of the `Errors`, or `panicked` |
| `privSubs[p]`, `todo[p]`, `zone[p]`, `cand[p]` | the `privSubs` slice, the zones the loop has not visited, the zone `createPrivateSubnet` works on, the candidate index |

There is one action per AWS call and per outcome.

- **Lookup and listing.**
  - `GetClusterVpc` needs propagated credentials; `GetClusterVpcFails`
    can happen at any time.
  - `GetVPCSubnets` takes the snapshot of tagged subnets.
  - `GetSubnetsTimeout` is the 5-minute poll deadline.
  - `GetAZs` and `GetAZsFails` fetch the zones.
- **The zone loop.** `SkipCoveredZone` and `CreatePrivateSubnet` visit
  one zone each. The zone order is left free because AWS's order is
  unspecified.
- **CreateSubnet.** `CreateSubnetConflict`, `CreateSubnet` and
  `CreateSubnetFails` are its three outcomes.
- **Running out.** `CandidatesExhausted` stands for the nil return and
  the panic that follows. After the nil is appended, the only steps
  left before the dereference are local checks, so the model goes
  straight to `panicked`.
- **Tagging.** `TagPrivateSubnet` and `TagPrivateSubnetFails`.
- **Return.** `ReturnSubnetIDs`.
- **Restarts.** `GetPrivateSubnetIDS(p)` is the reconcile loop calling
  again after any outcome. An operator restart in the middle of a call
  leaves the same state as a failure at that point. The operator keeps
  nothing, so restarts need no action of their own.

### `Planner.tla`: the address-space planner

The constants are `AddrBits` (32 in the code), `SubnetMask` (27) and
`VpcPrefixes`. Addresses are integers. `MaskTo` clears the host bits.
`IncrementIP` adds modulo `2^AddrBits`: the code adds in a 64-bit uint
and keeps four bytes. The loop of `generateAvailableSubnets` is a
state machine with these actions:

- `BuildSubnetAddressRejects` and `BuildSubnetAddress`: the mask check,
  then the parse that masks the VPC address.
- `GenerateNext`: one iteration. It masks the address, checks with
  `ContainsNetwork` and appends.
- `GenerateDone`: the loop condition fails and the list is reversed.

`Plan(base, p)` is the spec's closed form: `2^(SubnetMask-p)` blocks,
highest first.

### Fairness

Only the liveness run `poller_live` assumes fairness.
`StagePoller!FairSpec` assumes weak fairness of `Poll`, the test
goroutine's steps: the test keeps running and every API call returns.
The operator is not fair. It may stall with a phase in progress
forever, which is why `SettledPollEnds` is conditional.

### `StagePoller.tla`: the e2e stage-status poll

This module models `TestIntegreatlyStagesStatus` in `src/unnamed/part_001`.

- **Constants.** `ManagedApi` and `MTManagedApi` are the two expected
  stage-to-products maps. `Phases` are the phases the operator writes.
  `Completed`, `InProgress` and `NoPhase` stand for `"completed"`,
  `"in progress"` and `""`. The phases are constants, so the proofs
  hold for every set of phases and the provers never see a string
  literal with a space.
- **Helpers.** `CheckStatus` and `RetryStatus` are the code's helpers.
  `Observe` and `Fails` are the `done` assignment and the `t.Errorf`
  condition of lines 59-66 and 77-84.
- **State.**
  - `stage` and `product`: the CR's phases, with `Absent` for a key
    missing from the status map.
  - `snapStage` and `snapProduct`: the copy that `GetRHMI` returned.
  - `left`: the stages that the `range` over the map has not visited.
  - `cur` and `k`: the stage whose products are being walked, and the
    product index.
  - `done`.
  - `errored`: whether a `t.Errorf` has been called. `t.Errorf` marks
    the whole test failed, so no later poll clears it.
  - `pc`.
- **Actions of the test.**
  - `PollGetRHMI` and `PollGetRHMIFails` fetch the CR. A failure ends
    `PollImmediateInfinite` with the error.
  - `VisitMissingStage` and `VisitStage` visit a stage. The stage is any
    member of `left`, because Go's map order is random.
  - `VisitMissingProduct`, `VisitProduct` and `ProductsDone` walk the
    products in slice order.
  - `PollDone` and `PollRetry` are the condition's return.
- **Actions of the operator.** `OperatorSetsStage` and
  `OperatorSetsProduct` write any phase of `Phases` into a stage or a
  product, between and during polls, forward or back. The operator's
  reconcilers are not under `src/`, so nothing justifies restricting
  what they write; these two actions are marked `spec_modelled`.

The test promises nothing about the live CR at the moment it passes:
the operator may have moved a phase since `GetRHMI`. Its properties are
therefore stated of the snapshot of the last poll.

### `Prow.tla`: `IsInProw`

`IsInProw` changes no state, so the module holds only operators. The
annotation map is a function whose domain is the keys present, and the
nil map is the empty function. `Lookup` is Go's `v, ok := m[k]`.
`IsInProw` is the comma-ok test followed by the value test. No run
checks it: a property would only restate the definition.

### MC modules and configurations

`MCSubnetReconciler.tla` sets up a 4-block VPC in a 3-zone region:

- Block 0 is the cluster's public subnet and block 1 its private
  subnet, both in zone `a`.
- Zone `b` is available and uncovered.
- Zone `c` is impaired, except in the configurations that make every
  zone available.

All reconciler runs use 4 blocks, tried in the order 3, 2, 1, 0. Four
blocks are enough for these cases to happen:

- conflicts on the way down;
- two callers colliding on the top block;
- an orphan created by a tag failure;
- running out of candidates.

The two-caller run (`MCSubnetReconciler_concurrent.cfg`) leaves blocks
2 and 3 free. So one caller can complete its call, with zone `b`
covered, after the other has created or is creating subnets. The
callers are model values, and the run uses `Symmetry`, the permutations
of the two callers. This is sound because no property and no action
tells the callers apart.

`MCStagePoller.tla` cuts the product lists to two products for the
managed-API map. The multitenant map keeps its empty `bootstrap` stage
and one product. These cases still happen:

- two stages whose visit order matters;
- a stage with products, and one without;
- stage and product phases that change during a poll, the empty phase
  and a failure included.

The liveness run (`MCStagePoller_live.cfg`) uses `MCManagedApiOne`, the
managed-API map cut to one product. Checking liveness needs the whole
behaviour graph, and with two products it has about 5 million states.

`MCPlanner.cfg` uses 8-bit addresses and a /5 subnet mask, so a block
has 8 addresses (in the code, /27 leaves 5 host bits). It enumerates
every VPC address with every mask from /1 to /8. This covers VPCs from
one block up to 16 blocks, the top-of-space wrap and both sides of the
mask boundary.

## 3. Runs

| Run | Expect | Checks | Shows |
|---|---|---|---|
| `reconciler` | pass | `TypeOK`, `PassResultCorrect` | With one caller and every AWS failure possible, returned ids are tagged and cover every available zone, and every subnet created is a block of the VPC. |
| `reconciler_concurrent` | pass | `PassResultCorrect`, `PrivateSubnetsBounded` | With two interleaved callers, each returned id list is still tagged and covers every available zone, even when the other caller created subnets meanwhile. An available zone never holds more private subnets than there are callers (1,000,852 states). |
| `planner` | pass | `TypeOK`, `PlanCorrect` | `buildSubnetAddress` equals the spec's plan on all 8-bit CIDRs. |
| `duplicate_concurrent` | violation | `OnePrivateSubnetPerZone` | Two callers each create a private subnet in zone `b`. |
| `impaired_zone` | violation | `NoSubnetInUnavailableZone` | A subnet is created in impaired zone `c`. |
| `retag_duplicate` | violation | `OneCreatedSubnetPerZone` | After a tag failure, the next call creates a second subnet in the zone. |
| `exhaustion_panic` | violation | `ExhaustionIsAnError` | An orphan from a tag failure fills the last free block, and the next call panics. |
| `credentials_unpolled` | violation | `CredentialWaitAbsorbed` | A call fails in the VPC lookup before the credentials propagate. |
| `poller` | pass | `TypeOK`, `PassedMeansAccepted` | With both stage maps, any map order and any phase written during a poll, a test that returns with no `t.Errorf` saw every expected stage and product in a phase `checkStatus` accepts (5,048,800 states). |
| `poller_live` | pass | `SettledPollEnds` | Under `FairSpec`, once no phase stays in progress, the infinite poll ends (236,976 states). |
| `poller_empty_phase` | violation | `PassedMeansComplete` | A phase that is still `""` counts as completed. |
| `poller_order` | violation | `ErrorEndsPoll` | A missing `installation` stage is visited first and the `bootstrap` stage in progress second: `done` is false again, and the test goes on polling after `t.Errorf`. |

Each violation is listed under `findings` in `PROJECT.json`. Each
property of a passing run has a mutant, a plausible bug in the mapped
code, that TLC catches:

- the reversal off by one, which puts a subnet outside the VPC;
- the zone-name comparison dropped from `privateSubnetExists`;
- the poll result assigned to a shadowed `subs`, which leaves the
  caller's snapshot empty;
- a mask that rounds up;
- a missing reversal;
- a stage visit that does not reset the product index;
- a stage visit that ignores the stage's own phase;
- `retryStatus` true for every phase.

Deadlock is checked for the reconciler, because the reconcile loop
always calls again. The planner and poller runs turn it off. The
planner function returns, and the test ends when the poll passes or
fails.

## 4. Proofs

### `SubnetReconcilerProofs.tla`

The proofs assume `ProcsAssumption`, `AZsAssumption`,
`NBlocksAssumption` and `InitAssumption`. They hold for any number of
callers, zones and blocks. The invariant `IInv` is `TypeOK` together
with four parts:

- `SnapshotPrivate`: a caller only copies tagged subnets, and tags are
  never removed.
- `ZonesPassedCovered`: every available zone the loop has left behind
  has a subnet in `privSubs`.
- `LoopFinished`: a finished call has visited every zone.
- `TaggingCreated`: the subnet being tagged exists and its candidate is
  in range.

`TypeOK` alone is not inductive. Tagging adds `NewSubnet(p)` to
`private`, and that stays a subset of `subnets` only because
`TaggingCreated` holds. `PassResultCorrect` needs the loop's coverage
invariant. The proof takes one step per action of a caller. For
`CreateSubnet` and `TagPrivateSubnet` it adds one step per invariant
part, and a case split between the acting caller and the others.

The results:

- `IInvariant`: `Spec => []IInv`.
- `TypeCorrect`: `Spec => []TypeOK`.
- `ResultCorrect`: `Spec => []PassResultCorrect`.
- `CallersBoundDuplicates`: `Spec => []PrivateSubnetsBounded`, for
  any finite set of callers. The invariant `BoundInv` adds three parts
  to `IInv`. `TLC` checked it on the two-caller instance before the
  proof.
  - `IsFiniteSet(private)`, so that cardinalities mean something.
  - `TargetPending`: while a caller creates or tags, its zone is still
    in `todo` and, if available, has no subnet in its `privSubs`.
  - `ArmedBound`: once zone `z` has a private subnet, the private
    subnets in `z` plus the callers *armed* for `z` number at most
    `|Procs|`. A caller is armed for `z` while its current call may
    still tag a subnet there. It has listed the subnets, found none in
    `z`, and still has `z` to visit or is provisioning it.

  The bound alone is not inductive: a caller whose stale listing shows
  no subnet in `z` may add one later, so the proof must count those
  callers in advance. The step proof has one case per group of actions:
  - `TagPrivateSubnet` in `z` adds at most one subnet (`FS_AddElement`)
    and disarms its caller, which `TargetPending` shows was armed
    (`FS_RemoveElement`). Lemma `TagArith` does the arithmetic.
  - `GetVPCSubnets` arms its caller for `z` only when `z` has no
    private subnet yet, where the bound says nothing.
  - Every other step arms nobody (lemmas `ArmedShrinks` and
    `BoundKept`).

  Lemma `StepFrame` isolates the acting caller.

### `StagePollerProofs.tla`

This module assumes `PhasesAssumption` and `ExpectedAssumption`:

- the stage maps are non-empty;
- their values are sequences of strings.

It proves, for every pair of stage maps and every set of phases the
operator writes, `""` included:

- `TypeCorrect`: `Spec => []TypeOK`.
- `PollerInvariant`: `Spec => []IInv`.
- `PassedAccepted`: `Spec => []PassedMeansAccepted`.

`PassedMeansAccepted` is not inductive, because it only speaks of the
end of a poll. `IInv` adds two parts to `TypeOK`:

- `WalkShape`: the stage being walked has left `left`, and a passed
  poll has an empty `left` and `done` true.
- `CleanWalk`: while `done` is true and no error was reported, every
  finished stage, and every product of the current stage up to `k - 1`,
  is in a phase `checkStatus` accepts in the snapshot.

The argument rests on lemma `ObserveClean`: a visit that leaves `done`
true and reports no error saw a phase that `checkStatus` accepts. Every
other phase either sets `done` to false or calls `t.Errorf`. Because
`errored` is never cleared, a clean pass cannot come after an earlier
poll that reported an error. That `checkStatus` accepts `""` as well as
`completed` is the finding of `poller_empty_phase`. For that reason
`PassedMeansComplete`, "everything completed", is only a violated
property and is not proved.

### No refinement

The project keeps no abstract specification with a refinement
mapping. What the components promise depends on things outside `src/`:
for the reconciler, AWS's overlap check; for the stage test, how the
operator moves phases. A refinement that rests on an assumption about
them would prove that assumption, not the code.

Only TLC checks the following:

- The planner, both `TypeOK` and `PlanCorrect`. Even the planner's type
  invariant needs facts about `2^n` for a symbolic width, such as
  `2^n \in Nat \ {0}` and `2^(a+b) = 2^a * 2^b`. The SMT backend does
  not prove these, and proving them needs induction over `Nat`, which
  the installed provers cannot instantiate. The same holds for what
  the generation loop computes for every input.
- The violated properties.
- Liveness (`SettledPollEnds`) and `ErrorEndsPoll`'s
  violation. TLAPS does not handle liveness or ENABLED.

## 5. Not modelled, and why

- **The tag set.** Cluster id, display name and managed tags, and user
  tags merged under the defaults, are left out. Only the private marker
  decides coverage.
- **The CIDR string.** An empty or unparsable string cannot come from
  AWS.
- **`GetVPCSubnets`' filter by VPC id.** The model has a single VPC.
- **`GetCidr` and `configureSecurityGroup`.** These are not modelled
  yet. Their hazard, concurrent creators of the security group, is
  listed in `PROJECT.json` without a property.
- **The operator's phase reconcilers.** Only their effect on the CR is
  modelled: any phase may be written to any stage or product, at any
  time.
- **AWS's answer to CreateSubnet.** A conflict is answered exactly when
  the candidate block is in use, and any other failure may happen at any
  time. No property depends on AWS beyond the answers the code
  handles.
- **Log and error wording.** `t.Logf` and `t.Errorf` wording is not
  modelled; an error is the `errored` flag.

## 6. Plan

1. `SecurityGroup.tla`. Model `configureSecurityGroup` with concurrent
   callers:
   - create-then-return;
   - the ingress rule on the next pass;
   - the duplicate-name race.

   Check that the group and its rule are eventually in place.
2. Liveness of zone coverage when failures stop. This needs strong
   fairness on the success outcomes of AWS calls.
3. The planner's loop invariant, once the provers can reason about
   `2^n` for a symbolic width.
