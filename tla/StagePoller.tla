---------------------------- MODULE StagePoller ----------------------------
(***************************************************************************)
(* TestIntegreatlyStagesStatus (src/unnamed/part_001): an e2e test that,   *)
(* every 15 s and with no deadline (wait.PollImmediateInfinite), fetches   *)
(* the RHMI CR and walks the stages and products expected for its install  *)
(* type.  A flag done, set to true at the start of each poll, is set to    *)
(* false by a stage or product "in progress" and back to true by a missing *)
(* or failed one; the poll ends when done is true after the walk.          *)
(*                                                                         *)
(* The operator moves the CR's phases on while the test polls; GetRHMI     *)
(* takes one snapshot per poll, which the walk then reads.  The stages     *)
(* are a Go map, iterated in an unspecified order; the products of a       *)
(* stage are a slice, walked in order.                                     *)
(***************************************************************************)
EXTENDS Naturals, Sequences

CONSTANTS
  ManagedApi,   \* managedApiExpectedStageProducts: stage -> product list
  MTManagedApi, \* mtManagedApiExpectedStageProducts
  Phases,       \* the phases the operator writes, Completed among them
  Completed,    \* the StatusPhase "completed"
  InProgress,   \* the StatusPhase "in progress"
  NoPhase       \* the empty StatusPhase "", a phase not yet reconciled

\* Go's zero value of a missing map entry, told apart from every phase
Absent == "absent"

ASSUME PhasesAssumption ==
  /\ {InProgress, Completed} \subseteq Phases
  /\ Absent \notin Phases \cup {NoPhase}
  /\ NoPhase \notin {InProgress, Completed}
  /\ InProgress # Completed
ASSUME ExpectedAssumption ==
  \A E \in {ManagedApi, MTManagedApi} :
     DOMAIN E # {} /\ E \in [DOMAIN E -> Seq(STRING)]

\* getExpectedStageProducts: the multitenant install type has its own map.
GetExpectedStageProducts(multitenant) ==
  IF multitenant THEN MTManagedApi ELSE ManagedApi

StageNames == DOMAIN ManagedApi \cup DOMAIN MTManagedApi

\* the (stage, product) pairs of an expected-products map
Slots(E) == UNION {{<<s, E[s][j]>> : j \in 1..Len(E[s])} : s \in DOMAIN E}

ProductSlots == Slots(ManagedApi) \cup Slots(MTManagedApi)

\* checkStatus: "" when completed, otherwise the phase itself
CheckStatus(status) == IF status = Completed THEN NoPhase ELSE status

\* mutant: every unfinished phase retried, failures included
RetryStatusAny(status) == status # NoPhase

\* retryStatus
RetryStatus(status) == status = InProgress

VARIABLES
  multitenant,  \* rhmi.Spec.Type is the multitenant install type
  stage,        \* the CR's rhmi.Status.Stages[s].Phase, or Absent
  product,      \* the CR's Stages[s].Products[p].Phase, or Absent
  pc,           \* "get", "stages", "products", "passed", "error"
  snapStage,    \* the copy of the stage phases GetRHMI returned this poll
  snapProduct,  \* the copy of the product phases
  left,         \* stages the range loop has not visited yet
  cur,          \* the stage whose products are being walked
  k,            \* index of the next product of cur
  done,         \* the done flag of the poll
  errored       \* t.Errorf has been called: the test is marked failed

vars == <<multitenant, stage, product, pc, snapStage, snapProduct, left,
          cur, k, done, errored>>

Expected == GetExpectedStageProducts(multitenant)

PhaseOrAbsent == Phases \cup {Absent}

TypeOK ==
  /\ multitenant \in BOOLEAN
  /\ stage \in [StageNames -> PhaseOrAbsent]
  /\ product \in [ProductSlots -> PhaseOrAbsent]
  /\ snapStage \in [StageNames -> PhaseOrAbsent]
  /\ snapProduct \in [ProductSlots -> PhaseOrAbsent]
  /\ pc \in {"get", "stages", "products", "passed", "error"}
  /\ left \subseteq DOMAIN Expected
  /\ cur \in DOMAIN Expected
  /\ k \in 1..Len(Expected[cur]) + 1
  /\ done \in BOOLEAN
  /\ errored \in BOOLEAN

Init ==
  /\ multitenant \in BOOLEAN
  /\ stage = [s \in StageNames |-> Absent]
  /\ product = [e \in ProductSlots |-> Absent]
  /\ pc = "get"
  /\ snapStage = stage
  /\ snapProduct = product
  /\ left = {}
  /\ cur = CHOOSE s \in DOMAIN Expected : TRUE
  /\ k = 1
  /\ done = TRUE
  /\ errored = FALSE

\* The done flag after one stage or product whose phase is status: an
\* unfinished phase sets it, to false when retryStatus holds, else to true.
Observe(status) ==
  LET st == CheckStatus(status)
  IN IF st = NoPhase THEN done ELSE ~RetryStatus(st)

\* t.Errorf is called for a phase that is neither completed nor retried.
Fails(status) ==
  LET st == CheckStatus(status) IN st # NoPhase /\ ~RetryStatus(st)

-----------------------------------------------------------------------------
(* The environment: the operator's reconcilers *)

\* A reconciler of the operator writes any phase into a stage or product
\* status, "" and a failure included, and may move a phase back.
OperatorSetsStage ==
  /\ \E s \in StageNames, ph \in Phases :
       /\ ph # stage[s]
       /\ stage' = [stage EXCEPT ![s] = ph]
  /\ UNCHANGED <<multitenant, product, pc, snapStage, snapProduct, left,
                 cur, k, done, errored>>

OperatorSetsProduct ==
  /\ \E e \in ProductSlots, ph \in Phases :
       /\ ph # product[e]
       /\ product' = [product EXCEPT ![e] = ph]
  /\ UNCHANGED <<multitenant, stage, pc, snapStage, snapProduct, left,
                 cur, k, done, errored>>

-----------------------------------------------------------------------------
(* The test *)

\* The poll condition starts: done := true, GetRHMI, and the expected map of
\* the install type; the range loop will visit every expected stage.  A
\* t.Errorf of an earlier poll is not undone: the test stays failed.
PollGetRHMI ==
  /\ pc = "get"
  /\ snapStage' = stage
  /\ snapProduct' = product
  /\ done' = TRUE
  /\ left' = DOMAIN Expected
  /\ pc' = "stages"
  /\ UNCHANGED <<multitenant, stage, product, cur, k, errored>>

\* GetRHMI fails: the condition returns the error, which ends
\* PollImmediateInfinite, and the test reports it.
PollGetRHMIFails ==
  /\ pc = "get"
  /\ pc' = "error"
  /\ UNCHANGED <<multitenant, stage, product, snapStage, snapProduct, left,
                 cur, k, done, errored>>

\* The range loop picks an unvisited stage, in Go's map order, that is not
\* in the CR: t.Errorf, done = true, continue.
VisitMissingStage ==
  /\ pc = "stages"
  /\ \E s \in left :
       /\ snapStage[s] = Absent
       /\ left' = left \ {s}
  /\ done' = TRUE
  /\ errored' = TRUE
  /\ UNCHANGED <<multitenant, stage, product, pc, snapStage, snapProduct,
                 cur, k>>

\* mutant: the stage's own phase not checked, only its products
VisitStageProductsOnly ==
  /\ pc = "stages"
  /\ \E s \in left :
       /\ snapStage[s] # Absent
       /\ left' = left \ {s}
       /\ cur' = s
       /\ UNCHANGED <<done, errored>>
  /\ k' = 1
  /\ pc' = "products"
  /\ UNCHANGED <<multitenant, stage, product, snapStage, snapProduct>>

\* mutant: the product index not reset for the new stage
VisitStageNoReset ==
  /\ pc = "stages"
  /\ \E s \in left :
       /\ snapStage[s] # Absent
       /\ left' = left \ {s}
       /\ cur' = s
       /\ done' = Observe(snapStage[s])
       /\ errored' = (errored \/ Fails(snapStage[s]))
  /\ pc' = "products"
  /\ UNCHANGED <<multitenant, stage, product, snapStage, snapProduct, k>>

\* It picks a stage of the CR: its phase is checked, then its products.
VisitStage ==
  /\ pc = "stages"
  /\ \E s \in left :
       /\ snapStage[s] # Absent
       /\ left' = left \ {s}
       /\ cur' = s
       /\ done' = Observe(snapStage[s])
       /\ errored' = (errored \/ Fails(snapStage[s]))
  /\ k' = 1
  /\ pc' = "products"
  /\ UNCHANGED <<multitenant, stage, product, snapStage, snapProduct>>

\* The next product of the stage's list is not in the stage: t.Errorf,
\* done = true, continue.
VisitMissingProduct ==
  /\ pc = "products"
  /\ k <= Len(Expected[cur])
  /\ snapProduct[<<cur, Expected[cur][k]>>] = Absent
  /\ k' = k + 1
  /\ done' = TRUE
  /\ errored' = TRUE
  /\ UNCHANGED <<multitenant, stage, product, pc, snapStage, snapProduct,
                 left, cur>>

VisitProduct ==
  LET ph == snapProduct[<<cur, Expected[cur][k]>>]
  IN /\ pc = "products"
     /\ k <= Len(Expected[cur])
     /\ ph # Absent
     /\ k' = k + 1
     /\ done' = Observe(ph)
     /\ errored' = (errored \/ Fails(ph))
     /\ UNCHANGED <<multitenant, stage, product, pc, snapStage, snapProduct,
                    left, cur>>

\* The stage's product list is exhausted: back to the range over stages.
ProductsDone ==
  /\ pc = "products"
  /\ k > Len(Expected[cur])
  /\ pc' = "stages"
  /\ UNCHANGED <<multitenant, stage, product, snapStage, snapProduct, left,
                 cur, k, done, errored>>

\* Every stage visited, done is true: the condition returns (true, nil) and
\* the poll ends.
PollDone ==
  /\ pc = "stages"
  /\ left = {}
  /\ done
  /\ pc' = "passed"
  /\ UNCHANGED <<multitenant, stage, product, snapStage, snapProduct, left,
                 cur, k, done, errored>>

\* done is false: (false, nil), and the next poll comes 15 s later.
PollRetry ==
  /\ pc = "stages"
  /\ left = {}
  /\ ~done
  /\ pc' = "get"
  /\ UNCHANGED <<multitenant, stage, product, snapStage, snapProduct, left,
                 cur, k, done, errored>>

Poll ==
  \/ PollGetRHMI \/ PollGetRHMIFails
  \/ VisitMissingStage \/ VisitStage
  \/ VisitMissingProduct \/ VisitProduct \/ ProductsDone
  \/ PollDone \/ PollRetry

Next == OperatorSetsStage \/ OperatorSetsProduct \/ Poll

Spec == Init /\ [][Next]_vars

\* The test goroutine keeps running and every API call returns; the
\* operator is left unfair, it may stall with a phase in progress.
FairSpec == Spec /\ WF_vars(Poll)
-----------------------------------------------------------------------------
(* Properties *)

\* the phases checkStatus accepts: "completed", and the empty phase
Accepted == {ph \in PhaseOrAbsent : CheckStatus(ph) = NoPhase}

\* the snapshot shows the first n products of stage s in a phase of OK
ProductsIn(s, n, OK) ==
  \A j \in 1..n : snapProduct[<<s, Expected[s][j]>>] \in OK

\* the snapshot shows stage s and all its expected products in OK
StageIn(s, OK) == snapStage[s] \in OK /\ ProductsIn(s, Len(Expected[s]), OK)

\* the CR's snapshot shows every expected stage and product in OK
AllIn(OK) == \A s \in DOMAIN Expected : StageIn(s, OK)

(***************************************************************************)
(* The walk's own correctness, whatever the map order, the overwrites of  *)
(* done and the phases the operator writes: a test that returns from      *)
(* PollImmediateInfinite with no t.Errorf did so on a snapshot in which   *)
(* checkStatus accepted every expected stage and every product of them.   *)
(***************************************************************************)
PassedMeansAccepted == pc = "passed" /\ ~errored => AllIn(Accepted)

(***************************************************************************)
(* checkStatus's comment: it "verifies that the status is complete".  So  *)
(* a test that passes with no t.Errorf saw every expected stage and       *)
(* product "completed".                                                    *)
(***************************************************************************)
PassedMeansComplete == pc = "passed" /\ ~errored => AllIn({Completed})

(***************************************************************************)
(* The t.Errorf branches set done = true so that a failed or missing      *)
(* stage or product ends the poll: a test that reported one never goes    *)
(* on to another poll.                                                     *)
(***************************************************************************)
ErrorEndsPoll == [][pc = "stages" /\ pc' = "get" => ~errored]_vars

\* no stage or product of the CR is in progress
Settled ==
  /\ \A s \in StageNames : stage[s] # InProgress
  /\ \A e \in ProductSlots : product[e] # InProgress

(***************************************************************************)
(* PollImmediateInfinite has no deadline; the test still ends, as passed  *)
(* or failed, once the operator leaves no stage or product in progress    *)
(* for good (a failed one included).                                       *)
(***************************************************************************)
SettledPollEnds == <>[]Settled => <>(pc \in {"passed", "error"})

-----------------------------------------------------------------------------
(***************************************************************************)
(* The inductive invariant behind PassedMeansAccepted.  WalkShape: the    *)
(* stage whose products are walked has been taken out of left, and a     *)
(* passed poll has visited every stage with done true.  CleanWalk: while  *)
(* no error was reported and done is still true, every stage visited so  *)
(* far, and every product of it walked so far, is accepted in the         *)
(* snapshot.                                                               *)
(***************************************************************************)
WalkShape ==
  /\ pc = "products" => cur \notin left
  /\ pc = "passed" => left = {} /\ done

\* the stages the walk has finished with
Finished == DOMAIN Expected \ (left \cup IF pc = "products" THEN {cur} ELSE {})

CleanWalk ==
  pc \in {"stages", "products", "passed"} /\ done /\ ~errored =>
    /\ \A s \in Finished : StageIn(s, Accepted)
    /\ pc = "products" =>
          snapStage[cur] \in Accepted /\ ProductsIn(cur, k - 1, Accepted)

IInv == TypeOK /\ WalkShape /\ CleanWalk

=============================================================================
