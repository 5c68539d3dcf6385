------------------------- MODULE StagePollerProofs -------------------------
(***************************************************************************)
(* Proofs, for every expected-products map and every set of phases the    *)
(* operator may write (the empty phase included), that the stage poller's *)
(* variables keep their types and that a test which returns without an    *)
(* error saw every expected stage and product in a phase checkStatus      *)
(* accepts.                                                                *)
(***************************************************************************)
EXTENDS StagePoller, SequenceTheorems, TLAPS

USE PhasesAssumption

\* Every product of an expected stage is a slot of that map.
LEMMA SlotsMember ==
  ASSUME NEW E, NEW s \in DOMAIN E, NEW j \in 1..Len(E[s])
  PROVE  <<s, E[s][j]>> \in Slots(E)
<1>1. <<s, E[s][j]>> \in {<<s, E[s][i]>> : i \in 1..Len(E[s])}
  OBVIOUS
<1>2. QED
  BY <1>1, Zenon DEF Slots

\* The map of the install type has stages, each with a list of products
\* whose slots the CR's status has.
LEMMA ExpectedFacts ==
  ASSUME multitenant \in BOOLEAN
  PROVE  /\ DOMAIN Expected # {}
         /\ \A s \in DOMAIN Expected : Expected[s] \in Seq(STRING)
         /\ \A s \in DOMAIN Expected : \A j \in 1..Len(Expected[s]) :
               <<s, Expected[s][j]>> \in ProductSlots
         /\ DOMAIN Expected \subseteq StageNames
<1>1. Expected \in {ManagedApi, MTManagedApi}
  BY DEF Expected, GetExpectedStageProducts
<1>2. Slots(Expected) \subseteq ProductSlots
  BY <1>1 DEF ProductSlots
<1>3. DOMAIN Expected # {} /\ Expected \in [DOMAIN Expected -> Seq(STRING)]
  BY <1>1, ExpectedAssumption
<1>4. QED
  BY <1>1, <1>2, <1>3, SlotsMember DEF StageNames

\* Observe and Fails on a phase: done stays true and no error is reported
\* only for a phase checkStatus accepts.
LEMMA ObserveClean ==
  ASSUME NEW ph \in Phases, done \in BOOLEAN, Observe(ph), ~Fails(ph)
  PROVE  ph \in Accepted /\ done
BY DEF Observe, Fails, CheckStatus, RetryStatus, Accepted, PhaseOrAbsent

LEMMA InitIInv == Init => IInv
<1> SUFFICES ASSUME Init PROVE IInv
  OBVIOUS
<1>1. multitenant \in BOOLEAN
  BY DEF Init
<1>2. cur \in DOMAIN Expected /\ 1 \in 1..Len(Expected[cur]) + 1
  <2>1. cur \in DOMAIN Expected
    BY <1>1, ExpectedFacts DEF Init
  <2>2. Len(Expected[cur]) \in Nat
    BY <1>1, <2>1, ExpectedFacts, LenProperties
  <2>3. QED
    BY <2>1, <2>2
<1>3. QED
  BY <1>1, <1>2, ExpectedFacts
  DEF Init, IInv, TypeOK, PhaseOrAbsent, WalkShape, CleanWalk

\* Every step keeps the install type, and so the expected map.
LEMMA ExpectedUnchanged ==
  ASSUME [Next]_vars
  PROVE  Expected' = Expected
BY DEF Next, vars, OperatorSetsStage, OperatorSetsProduct, Poll, PollGetRHMI,
       PollGetRHMIFails, VisitMissingStage, VisitStage, VisitMissingProduct,
       VisitProduct, ProductsDone, PollDone, PollRetry, Expected

\* The variables keep their types, whatever phases the operator writes
\* (the empty one included).
LEMMA NextTypeOK ==
  ASSUME TypeOK, [Next]_vars
  PROVE  TypeOK'
<1> USE DEF TypeOK, PhaseOrAbsent
<1>1. Expected' = Expected /\ multitenant' = multitenant
  BY ExpectedUnchanged DEF Next, vars, OperatorSetsStage, OperatorSetsProduct,
     Poll, PollGetRHMI, PollGetRHMIFails, VisitMissingStage, VisitStage,
     VisitMissingProduct, VisitProduct, ProductsDone, PollDone, PollRetry
<1>2. /\ \A s \in DOMAIN Expected : Expected[s] \in Seq(STRING)
      /\ \A s \in DOMAIN Expected : \A j \in 1..Len(Expected[s]) :
            <<s, Expected[s][j]>> \in ProductSlots
      /\ DOMAIN Expected \subseteq StageNames
  BY ExpectedFacts
<1>3. Len(Expected[cur]) \in Nat
  BY <1>2, LenProperties
<1>4. CASE OperatorSetsStage \/ OperatorSetsProduct
  BY <1>1, <1>4 DEF OperatorSetsStage, OperatorSetsProduct
<1>5. CASE PollGetRHMI \/ PollGetRHMIFails \/ PollDone \/ PollRetry
      \/ ProductsDone
  BY <1>1, <1>5 DEF PollGetRHMI, PollGetRHMIFails, PollDone, PollRetry,
                    ProductsDone
<1>6. CASE VisitMissingStage
  BY <1>1, <1>6 DEF VisitMissingStage
<1>7. CASE VisitStage
  <2>1. PICK s \in left : /\ left' = left \ {s}
                          /\ cur' = s
                          /\ done' = Observe(snapStage[s])
                          /\ errored' = (errored \/ Fails(snapStage[s]))
    BY <1>7 DEF VisitStage
  <2>2. /\ k' = 1 /\ pc' = "products"
        /\ UNCHANGED <<stage, product, snapStage, snapProduct>>
    BY <1>7 DEF VisitStage
  <2>3. Len(Expected[s]) \in Nat
    BY <1>2, <2>1, LenProperties
  <2>4. done' \in BOOLEAN /\ errored' \in BOOLEAN
    BY <2>1 DEF Observe, Fails
  <2>5. QED
    BY <1>1, <2>1, <2>2, <2>3, <2>4 DEF Expected
<1>8. CASE VisitMissingProduct \/ VisitProduct
  <2>1. /\ k <= Len(Expected[cur]) /\ k' = k + 1
        /\ done' \in BOOLEAN /\ errored' \in BOOLEAN
        /\ UNCHANGED <<stage, product, pc, snapStage, snapProduct, left, cur>>
    BY <1>8 DEF VisitMissingProduct, VisitProduct, Observe, Fails
  <2>2. QED
    BY <1>1, <1>3, <2>1 DEF Expected
<1>9. CASE UNCHANGED vars
  BY <1>9 DEF vars, Expected
<1>10. QED
  BY <1>4, <1>5, <1>6, <1>7, <1>8, <1>9 DEF Next, Poll

(***************************************************************************)
(* The poll's variables keep their types for every stage map and every    *)
(* set of phases: in particular the product index never runs past the     *)
(* end of the stage's list plus one, and the stage walked is always an   *)
(* expected one, whatever the map order and the operator's writes.        *)
(***************************************************************************)
THEOREM TypeCorrect == Spec => []TypeOK
<1>1. Init => TypeOK
  BY InitIInv DEF IInv
<1>2. QED
  BY <1>1, NextTypeOK, PTL DEF Spec

LEMMA NextIInv ==
  ASSUME IInv, [Next]_vars
  PROVE  IInv'
<1> USE DEF IInv, TypeOK, PhaseOrAbsent
<1>1. multitenant \in BOOLEAN /\ Expected' = Expected /\ multitenant' = multitenant
  BY ExpectedUnchanged DEF Next, vars, OperatorSetsStage, OperatorSetsProduct,
     Poll, PollGetRHMI, PollGetRHMIFails, VisitMissingStage, VisitStage,
     VisitMissingProduct, VisitProduct, ProductsDone, PollDone, PollRetry
<1>2. /\ DOMAIN Expected # {}
      /\ \A s \in DOMAIN Expected : Expected[s] \in Seq(STRING)
      /\ \A s \in DOMAIN Expected : \A j \in 1..Len(Expected[s]) :
            <<s, Expected[s][j]>> \in ProductSlots
      /\ DOMAIN Expected \subseteq StageNames
  BY <1>1, ExpectedFacts
<1>3. Len(Expected[cur]) \in Nat
  BY <1>2, LenProperties
<1>4. CASE OperatorSetsStage \/ OperatorSetsProduct
  <2>1. UNCHANGED <<pc, snapStage, snapProduct, left, cur, k, done, errored>>
    BY <1>4 DEF OperatorSetsStage, OperatorSetsProduct
  <2>2. stage' \in [StageNames -> PhaseOrAbsent]
    BY <1>4 DEF OperatorSetsStage, OperatorSetsProduct
  <2>3. product' \in [ProductSlots -> PhaseOrAbsent]
    BY <1>4 DEF OperatorSetsStage, OperatorSetsProduct
  <2>4. TypeOK'
    BY <1>1, <2>1, <2>2, <2>3
  <2>5. WalkShape'
    BY <2>1 DEF WalkShape
  <2>6. CleanWalk'
    BY <1>1, <2>1 DEF CleanWalk, Finished, StageIn, ProductsIn,
                      Expected
  <2>7. QED
    BY <2>4, <2>5, <2>6
<1>5. CASE PollGetRHMI
  BY <1>1, <1>5 DEF PollGetRHMI, WalkShape, CleanWalk, Finished
<1>6. CASE PollGetRHMIFails \/ PollDone \/ PollRetry
  BY <1>1, <1>6 DEF PollGetRHMIFails, PollDone, PollRetry, WalkShape,
     CleanWalk, Finished, StageIn, ProductsIn
<1>7. CASE VisitMissingStage
  <2>1. TypeOK'
    BY <1>1, <1>7 DEF VisitMissingStage, Expected
  <2>2. WalkShape' /\ CleanWalk'
    BY <1>7 DEF VisitMissingStage, WalkShape, CleanWalk
  <2>3. QED
    BY <2>1, <2>2
<1>8. CASE VisitMissingProduct
  <2>1. TypeOK'
    BY <1>1, <1>3, <1>8 DEF VisitMissingProduct, Expected
  <2>2. WalkShape' /\ CleanWalk'
    BY <1>8 DEF VisitMissingProduct, WalkShape, CleanWalk
  <2>3. QED
    BY <2>1, <2>2
<1>9. CASE VisitStage
  <2>1. PICK s \in left : /\ snapStage[s] # Absent
                          /\ left' = left \ {s}
                          /\ cur' = s
                          /\ done' = Observe(snapStage[s])
                          /\ errored' = (errored \/ Fails(snapStage[s]))
    BY <1>9 DEF VisitStage
  <2>2. /\ k' = 1 /\ pc = "stages" /\ pc' = "products"
        /\ UNCHANGED <<stage, product, snapStage, snapProduct>>
    BY <1>9 DEF VisitStage
  <2>3. s \in DOMAIN Expected /\ snapStage[s] \in Phases
    BY <1>2, <2>1
  <2>4. Len(Expected[s]) \in Nat
    BY <1>2, <2>3, LenProperties
  <2>5. done' \in BOOLEAN /\ errored' \in BOOLEAN
    BY <2>1 DEF Observe, Fails
  <2>6. TypeOK'
    BY <1>1, <2>1, <2>2, <2>3, <2>4, <2>5
  <2>7. WalkShape'
    BY <2>1, <2>2 DEF WalkShape
  <2>8. CleanWalk'
    <3>1. CASE done' /\ ~errored'
      <4>1. snapStage[s] \in Accepted /\ done /\ ~errored
        BY <2>1, <2>3, <3>1, ObserveClean
      <4>2. Finished' = Finished
        BY <1>1, <2>1, <2>2 DEF Finished
      <4>3. \A t \in Finished : StageIn(t, Accepted)
        BY <2>2, <4>1 DEF CleanWalk
      <4>4. \A t \in Finished' : StageIn(t, Accepted)'
        BY <1>1, <2>2, <4>2, <4>3 DEF StageIn, ProductsIn,
                                      Expected
      <4>5. snapStage'[cur'] \in Accepted
        BY <2>1, <2>2, <4>1
      <4>6. ProductsIn(cur, k - 1, Accepted)'
        BY <2>2 DEF ProductsIn
      <4>7. QED
        BY <4>4, <4>5, <4>6, Zenon DEF CleanWalk
    <3>2. CASE ~(done' /\ ~errored')
      BY <3>2 DEF CleanWalk
    <3>3. QED
      BY <3>1, <3>2
  <2>9. QED
    BY <2>6, <2>7, <2>8
<1>10. CASE VisitProduct
  <2> DEFINE ph == snapProduct[<<cur, Expected[cur][k]>>]
  <2>1. /\ pc = "products" /\ k <= Len(Expected[cur]) /\ ph # Absent
        /\ k' = k + 1 /\ done' = Observe(ph)
        /\ errored' = (errored \/ Fails(ph))
        /\ UNCHANGED <<stage, product, pc, snapStage, snapProduct, left, cur>>
    BY <1>10 DEF VisitProduct
  <2>2. k \in 1..Len(Expected[cur]) /\ ph \in Phases
    BY <1>2, <1>3, <2>1
  <2>3. TypeOK'
    <3>1. done' \in BOOLEAN /\ errored' \in BOOLEAN
      BY <2>1 DEF Observe, Fails
    <3>2. QED
      BY <1>1, <1>3, <2>1, <2>2, <3>1 DEF Expected
  <2>4. WalkShape'
    BY <2>1 DEF WalkShape
  <2>5. CleanWalk'
    <3>1. CASE done' /\ ~errored'
      <4>1. ph \in Accepted /\ done /\ ~errored
        BY <2>1, <2>2, <3>1, ObserveClean
      <4>2. /\ \A t \in Finished : StageIn(t, Accepted)
            /\ snapStage[cur] \in Accepted /\ ProductsIn(cur, k - 1, Accepted)
        BY <2>1, <4>1 DEF CleanWalk
      <4>3. Finished' = Finished
        BY <1>1, <2>1 DEF Finished
      <4>4. \A t \in Finished' : StageIn(t, Accepted)'
        BY <1>1, <2>1, <4>2, <4>3 DEF StageIn, ProductsIn,
                                      Expected
      <4>5. snapStage'[cur'] \in Accepted
        BY <2>1, <4>2
      <4>6. ProductsIn(cur, k - 1, Accepted)'
        <5>1. \A j \in 1..k : snapProduct[<<cur, Expected[cur][j]>>] \in Accepted
          BY <2>2, <4>1, <4>2 DEF ProductsIn
        <5>2. QED
          BY <1>1, <2>1, <5>1 DEF ProductsIn, Expected
      <4>7. QED
        BY <2>1, <4>4, <4>5, <4>6, Zenon DEF CleanWalk
    <3>2. CASE ~(done' /\ ~errored')
      BY <3>2 DEF CleanWalk
    <3>3. QED
      BY <3>1, <3>2
  <2>6. QED
    BY <2>3, <2>4, <2>5
<1>11. CASE ProductsDone
  <2>1. /\ pc = "products" /\ k > Len(Expected[cur]) /\ pc' = "stages"
        /\ UNCHANGED <<stage, product, snapStage, snapProduct, left, cur, k,
                       done, errored>>
    BY <1>11 DEF ProductsDone
  <2>2. TypeOK'
    BY <1>1, <2>1
  <2>3. WalkShape'
    BY <2>1 DEF WalkShape
  <2>4. CleanWalk'
    <3>1. CASE done /\ ~errored
      <4>1. /\ \A t \in Finished : StageIn(t, Accepted)
            /\ snapStage[cur] \in Accepted /\ ProductsIn(cur, k - 1, Accepted)
        BY <2>1, <3>1 DEF CleanWalk
      <4>2. k - 1 = Len(Expected[cur])
        BY <1>3, <2>1
      <4>3. StageIn(cur, Accepted)
        BY <4>1, <4>2 DEF StageIn
      <4>4. Finished' = Finished \cup {cur}
        BY <1>1, <2>1 DEF Finished, WalkShape
      <4>5. \A t \in Finished' : StageIn(t, Accepted)'
        BY <1>1, <2>1, <4>1, <4>3, <4>4 DEF StageIn, ProductsIn,
                                            Expected
      <4>6. QED
        BY <2>1, <4>5 DEF CleanWalk
    <3>2. CASE ~(done /\ ~errored)
      BY <2>1, <3>2 DEF CleanWalk
    <3>3. QED
      BY <3>1, <3>2
  <2>5. QED
    BY <2>2, <2>3, <2>4
<1>12. CASE UNCHANGED vars
  BY <1>12 DEF vars, WalkShape, CleanWalk, Finished, StageIn,
     ProductsIn, Expected
<1>13. QED
  BY <1>4, <1>5, <1>6, <1>7, <1>8, <1>9, <1>10, <1>11, <1>12 DEF Next, Poll


(***************************************************************************)
(* IInv holds in every reachable state of the poll, whatever the stage    *)
(* map and the phases the operator writes: it is the inductive form of    *)
(* PassedMeansAccepted, which alone is not preserved by a step of the     *)
(* walk (it says nothing of a poll still walking).                         *)
(***************************************************************************)
THEOREM PollerInvariant == Spec => []IInv
BY InitIInv, NextIInv, PTL DEF Spec

LEMMA IInvPassed == IInv => PassedMeansAccepted
<1> SUFFICES ASSUME IInv, pc = "passed", ~errored PROVE AllIn(Accepted)
  BY DEF PassedMeansAccepted
<1>1. left = {} /\ done
  BY DEF IInv, WalkShape
<1>2. Finished = DOMAIN Expected
  BY <1>1 DEF Finished
<1>3. \A t \in Finished : StageIn(t, Accepted)
  BY <1>1 DEF IInv, CleanWalk
<1>4. QED
  BY <1>2, <1>3 DEF AllIn

(***************************************************************************)
(* TestIntegreatlyStagesStatus returns with no t.Errorf only on a CR      *)
(* snapshot in which checkStatus accepted every stage of the expected map *)
(* and every product of those stages, for every stage map, every map     *)
(* order of the walk and every phase the operator writes meanwhile.  With *)
(* the empty phase among them this is weaker than "all completed": the    *)
(* MCStagePoller_empty run shows the difference.                           *)
(***************************************************************************)
THEOREM PassedAccepted == Spec => []PassedMeansAccepted
BY PollerInvariant, IInvPassed, PTL

=============================================================================
