----------------------- MODULE APIServerStall_proofs -----------------------
(***************************************************************************)
(* The api_policy finding for every value of the constants: once the tier  *)
(* watch is established, the Tier is cached and the API server deployment  *)
(* is absent or broken, no pass of the controller and no change of the    *)
(* cluster other than the escapes of RepairEscape brings the deployment    *)
(* back.  The argument is the order of the apply loop (part_002:473): a    *)
(* finishing pass that includes the policy halts at ApplyPolicy, which     *)
(* ranks before ApplyAPIServer, and a reading pass includes the policy    *)
(* because includeV3NetworkPolicy only looks at the ReadyFlag and the      *)
(* cache.                                                                  *)
(***************************************************************************)
EXTENDS APIServer_proofs

(* The first failing stage ranks no later than any failing stage.          *)
LEMMA FirstStageBound ==
    ASSUME NEW S \in SUBSET Stages, NEW e, NEW n \in HaltSet(S, e)
    PROVE  /\ FirstStage(S, e) \in Stages
           /\ Rank[FirstStage(S, e)] <= Rank[n]
<1> DEFINE H == HaltSet(S, e)
<1>1. H \in SUBSET Stages /\ H # {}
  BY DEF HaltSet
<1>2. \E x \in H : \A m \in H : Rank[x] <= Rank[m]
  BY <1>1, LeastStageExists
<1>3. FirstStage(S, e) \in H /\ \A m \in H : Rank[FirstStage(S, e)] <= Rank[m]
  BY <1>1, <1>2 DEF FirstStage
<1> QED
  BY <1>1, <1>3

(* A finishing pass that has committed to the policy while the v3 API is  *)
(* down halts before the APIServer component is applied.                   *)
LEMMA PolicyHaltsFinish ==
    ASSUME NEW e, incl, ~V3Serving
    PROVE  ~Passed(FirstStage(FinishStages, e), "ApplyAPIServer")
<1> DEFINE s == FirstStage(FinishStages, e)
<1>1. "ApplyPolicy" \in HaltSet(FinishStages, e)
  <2>1. "ApplyPolicy" \in FinishStages
    BY DEF FinishStages, ReadStages, Stages, Rank
  <2>2. Fails["ApplyPolicy"]
    BY DEF Fails
  <2> QED
    BY <2>1, <2>2 DEF HaltSet
<1>2. s \in Stages /\ Rank[s] <= Rank["ApplyPolicy"]
  BY <1>1, StageSplit, FirstStageBound
<1>3. Rank[s] \in 1..18 /\ s # "Done"
  BY <1>2, RankType DEF Stages, Rank
<1>4. Pos(s) = Rank[s]
  BY <1>3 DEF Pos
<1>5. Rank["ApplyPolicy"] = 14 /\ Rank["ApplyAPIServer"] = 15
  BY DEF Rank
<1> QED
  BY <1>2, <1>3, <1>4, <1>5 DEF Passed

(* Outside the escapes, every step keeps the repair blocked.               *)
LEMMA BlockedStep ==
    ASSUME TypeOK, RepairBlocked, [Next]_vars, ~RepairEscape
    PROVE  RepairBlocked'
<1> USE DEF RepairBlocked, Enterprise
<1>1. ~V3Serving
  BY DEF V3Serving
<1>2. ASSUME NEW e, ReconcileNotFound(e) PROVE RepairBlocked'
  BY <1>2 DEF ReconcileNotFound
<1>3. ASSUME NEW e, ReconcileRead(e) PROVE RepairBlocked'
  <2>1. IncludePolicy
    BY DEF IncludePolicy
  <2> QED
    BY <1>3, <2>1 DEF ReconcileRead
<1>4. ASSUME NEW e, ReconcileFinish(e) PROVE RepairBlocked'
  <2>1. incl
    BY <1>4 DEF ReconcileFinish
  <2>2. deploy' = deploy
    BY <1>1, <1>4, <2>1, PolicyHaltsFinish DEF ReconcileFinish
  <2>3. inst'.exists /\ inst'.variant = "Enterprise"
    <3>1. MaintainFinalizer(TRUE) = [inst EXCEPT !.finalizer = TRUE]
      BY DEF MaintainFinalizer
    <3>2. inst' = inst \/ inst' = [inst EXCEPT !.finalizer = TRUE]
      BY <1>4, <3>1 DEF ReconcileFinish
    <3> QED
      BY <3>2, Zenon DEF TypeOK, InstRec
  <2> QED
    BY <1>4, <2>2, <2>3 DEF ReconcileFinish
<1>5. CASE RetryFire \/ PeriodicReconcile \/ TierWatchEstablished
  BY <1>5 DEF RetryFire, PeriodicReconcile, TierWatchEstablished
<1>6. CASE EditCR
  BY <1>6 DEF EditCR
<1>7. CASE CreateCR \/ GarbageCollect
  BY <1>7 DEF CreateCR, GarbageCollect
<1>8. CASE BreakDeployment \/ Rollout
  BY <1>8 DEF BreakDeployment, Rollout
<1>9. ASSUME NEW v \in Variants, CreateInstallation(v) \/ SetVariant(v)
      PROVE  RepairBlocked'
  BY <1>9 DEF CreateInstallation, SetVariant
<1>10. ASSUME NEW o \in Toggle, ToggleObject(o) PROVE RepairBlocked'
  <2>1. o # "Tier"
    BY <1>10 DEF RepairEscape
  <2> QED
    BY <1>10, <2>1 DEF ToggleObject
<1>11. CASE UNCHANGED vars
  BY <1>11 DEF vars
<1> QED
  BY <1>2, <1>3, <1>4, <1>5, <1>6, <1>7, <1>8, <1>9, <1>10, <1>11
     DEF Next, Controller, Environment, RepairEscape

(***************************************************************************)
(* RepairStaysBlocked, checked by TLC on the api_policy bounds, holds for  *)
(* every value of the constants: in every behaviour, a step from a        *)
(* blocked state that is not an escape leads to a blocked state.            *)
(***************************************************************************)
THEOREM RepairStaysBlockedHolds == Spec => RepairStaysBlocked
<1>1. TypeOK /\ [Next]_vars
        => [RepairBlocked /\ ~RepairEscape => RepairBlocked']_vars
  BY BlockedStep
<1> QED
  BY <1>1, TypeCorrect, PTL DEF Spec, RepairStaysBlocked

(***************************************************************************)
(* The finding in temporal form: unless the operator restarts, the CR or   *)
(* the Installation is deleted or the Tier removed, a blocked API server   *)
(* is never up again, whatever the controller, the retries and the         *)
(* periodic reconcile do.                                                  *)
(***************************************************************************)
THEOREM NeverRepaired ==
    Spec /\ [][~RepairEscape]_vars => [](RepairBlocked => [](deploy # "up"))
<1>1. RepairBlocked => deploy # "up"
  BY DEF RepairBlocked
<1>2. TypeOK /\ RepairBlocked /\ [Next]_vars /\ [~RepairEscape]_vars
        => RepairBlocked'
  <2> SUFFICES ASSUME TypeOK, RepairBlocked, [Next]_vars, [~RepairEscape]_vars
               PROVE  RepairBlocked'
    OBVIOUS
  <2>1. CASE ~RepairEscape
    BY <2>1, BlockedStep
  <2>2. CASE UNCHANGED vars
    BY <2>2 DEF RepairBlocked, Enterprise, vars
  <2> QED
    BY <2>1, <2>2
<1>3. Spec /\ [][~RepairEscape]_vars => [](RepairBlocked => []RepairBlocked)
  BY <1>2, TypeCorrect, PTL DEF Spec
<1> QED
  BY <1>1, <1>3, PTL
=============================================================================
