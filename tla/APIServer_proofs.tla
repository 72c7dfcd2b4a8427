-------------------------- MODULE APIServer_proofs --------------------------
(***************************************************************************)
(* Proofs about the APIServer controller model: the type invariant holds   *)
(* in every reachable state, and, when the Installation is deleted only    *)
(* between passes, the finalizer holds the Installation whenever the API   *)
(* server deployment exists, for every value of the constants.             *)
(***************************************************************************)
EXTENDS APIServer, WellFoundedInduction, TLAPS

(* Every stage has a rank in 1..18.                                        *)
LEMMA RankType == \A n \in Stages : Rank[n] \in 1..18
BY DEF Rank, Stages

(* A non-empty set of stages has a member of least rank.                   *)
LEMMA LeastStageExists ==
    ASSUME NEW H \in SUBSET Stages, H # {}
    PROVE  \E n \in H : \A m \in H : Rank[n] <= Rank[m]
<1> DEFINE T == {Rank[n] : n \in H}
<1>1. T \subseteq Nat /\ T # {}
  BY RankType
<1>2. PICK x \in T : \A y \in T : ~(<<y, x>> \in OpToRel(<, Nat))
  BY <1>1, WFMin, NatLessThanWellFounded
<1>3. PICK n \in H : Rank[n] = x
  OBVIOUS
<1>4. \A m \in H : Rank[n] <= Rank[m]
  <2> TAKE m \in H
  <2>1. Rank[m] \in T /\ Rank[m] \in Nat /\ x \in Nat
    BY <1>1, <1>3, RankType
  <2>2. ~(Rank[m] < x)
    BY <1>2, <2>1 DEF OpToRel
  <2> QED
    BY <2>1, <2>2, <1>3
<1> QED
  BY <1>4

(* A pass over the stages S halts at a failing stage of S, or runs to the  *)
(* end exactly when no stage of S fails.                                   *)
LEMMA FirstStageType ==
    ASSUME NEW S \in SUBSET Stages, NEW e
    PROVE  /\ FirstStage(S, e) \in S \cup {"Done"}
           /\ FirstStage(S, e) = "Done" => HaltSet(S, e) = {}
<1> DEFINE H == HaltSet(S, e)
<1>1. H \in SUBSET S
  BY DEF HaltSet
<1>2. "Done" \notin Stages
  BY DEF Stages, Rank
<1>3. CASE H = {}
  BY <1>3 DEF FirstStage
<1>4. CASE H # {}
  <2>1. \E n \in H : \A m \in H : Rank[n] <= Rank[m]
    BY <1>1, <1>4, LeastStageExists
  <2>2. FirstStage(S, e) \in H
    BY <1>4, <2>1 DEF FirstStage
  <2> QED
    BY <1>1, <1>2, <2>2
<1> QED
  BY <1>3, <1>4

(* The read and finish stages are stages.                                  *)
LEMMA StageSplit ==
    /\ ReadStages \in SUBSET Stages
    /\ FinishStages \in SUBSET Stages
    /\ "Installation" \in ReadStages
BY DEF ReadStages, FinishStages, Stages, Rank

(* Where a finishing pass halts: a stage past ApplyAPIServer is past the   *)
(* finalizer call.                                                         *)
LEMMA FinishOrder ==
    ASSUME NEW s \in Stages \cup {"Done"}
    PROVE  /\ Pos(s) \in Nat
           /\ Passed(s, "ApplyAPIServer") => Passed(s, "Finalizer")
<1>1. Pos(s) \in Nat
  BY RankType DEF Pos, EndRank
<1> QED
  BY <1>1 DEF Passed, Rank
-----------------------------------------------------------------------------
(* MaintainFinalizer returns an Installation record.                       *)
LEMMA MaintainFinalizerType ==
    ASSUME TypeOK, NEW p \in BOOLEAN
    PROVE  MaintainFinalizer(p) \in InstRec
BY Zenon DEF TypeOK, MaintainFinalizer, InstRec, NoInst, AllVariants

(* A halting stage that degrades is a stage, hence a reason.               *)
LEMMA ReasonType ==
    ASSUME TypeOK, NEW s \in Stages \cup {"Done"}
    PROVE  /\ (IF Degrades(s) THEN s ELSE status) \in Reasons
           /\ (IF Passed(s, "ApplyCerts") THEN "Cleared"
               ELSE IF Degrades(s) THEN s ELSE status) \in Reasons
BY DEF Degrades, Reasons, TypeOK

(* A pass counts an error only for a failing call it was allowed to make. *)
LEMMA ErrorCount ==
    ASSUME TypeOK, NEW e \in ErrChoices, NEW s \in Stages \cup {"Done"},
           CountError(s, e)
    PROVE  errors' \in 0..MaxErrors
<1>1. "none" \notin Stages \cup {"Done"}
  BY DEF Stages, Rank
<1>2. s = e => errors < MaxErrors
  BY <1>1 DEF ErrChoices
<1> QED
  BY <1>2, ConstAssumption DEF CountError, TypeOK

(* Changing the environment keeps the change counter in range.             *)
LEMMA ChangeCount ==
    ASSUME TypeOK, Change
    PROVE  changes' \in 0..MaxChanges
BY ConstAssumption DEF Change, TypeOK

LEMMA InitType == Init => TypeOK
<1> SUFFICES ASSUME Init PROVE TypeOK
  OBVIOUS
<1>1. inst \in InstRec /\ cr \in [exists: BOOLEAN, valid: BOOLEAN]
  BY ConstAssumption, Zenon DEF Init, InstRec
<1>2. status \in Reasons
  BY DEF Init, Reasons
<1>3. objs \subseteq Objects /\ deploy \in DeployStates
  BY ConstAssumption DEF Init, DeployStates
<1>4. changes \in 0..MaxChanges /\ errors \in 0..MaxErrors
  BY ConstAssumption DEF Init
<1> QED
  BY <1>1, <1>2, <1>3, <1>4 DEF Init, TypeOK

LEMMA NextType == TypeOK /\ [Next]_vars => TypeOK'
<1> SUFFICES ASSUME TypeOK, [Next]_vars PROVE TypeOK'
  OBVIOUS
<1> USE ConstAssumption
<1>1. ASSUME NEW e, ReconcileNotFound(e) PROVE TypeOK'
  <2>1. inst' \in InstRec
    BY <1>1, MaintainFinalizerType DEF ReconcileNotFound, TypeOK
  <2>2. errors' \in 0..MaxErrors
    <3>1. "Finalizer" \in Stages
      BY DEF Stages, Rank
    <3> QED
      BY <1>1, <3>1, ErrorCount DEF ReconcileNotFound
  <2> QED
    BY <1>1, <2>1, <2>2 DEF ReconcileNotFound, TypeOK, Reasons
<1>2. ASSUME NEW e, ReconcileRead(e) PROVE TypeOK'
  <2> DEFINE s == FirstStage(ReadStages, e)
  <2>1. s \in Stages \cup {"Done"}
    BY StageSplit, FirstStageType
  <2>2. CASE s = "Done"
    BY <1>2, <2>2 DEF ReconcileRead, TypeOK, IncludePolicy
  <2>3. CASE s # "Done"
    <3>1. status' \in Reasons
      BY <1>2, <2>1, <2>3, ReasonType DEF ReconcileRead
    <3>2. errors' \in 0..MaxErrors
      BY <1>2, <2>1, <2>3, ErrorCount DEF ReconcileRead
    <3> QED
      BY <1>2, <2>3, <3>1, <3>2 DEF ReconcileRead, TypeOK
  <2> QED
    BY <2>2, <2>3
<1>3. ASSUME NEW e, ReconcileFinish(e) PROVE TypeOK'
  <2> DEFINE s == FirstStage(FinishStages, e)
  <2>1. s \in Stages \cup {"Done"}
    BY StageSplit, FirstStageType
  <2>2. inst' \in InstRec
    BY <1>3, MaintainFinalizerType DEF ReconcileFinish, TypeOK
  <2>3. status' \in Reasons
    BY <1>3, <2>1, ReasonType DEF ReconcileFinish
  <2>4. deploy' \in DeployStates
    BY <1>3 DEF ReconcileFinish, ApplyDeployment, TypeOK, DeployStates
  <2>5. errors' \in 0..MaxErrors
    BY <1>3, <2>1, ErrorCount DEF ReconcileFinish
  <2>6. /\ policyApplied' \in BOOLEAN /\ crReady' \in BOOLEAN
        /\ retry' \in BOOLEAN /\ pc' \in {"idle", "mid"}
    BY <1>3 DEF ReconcileFinish
  <2> QED
    BY <1>3, <2>2, <2>3, <2>4, <2>5, <2>6 DEF ReconcileFinish, TypeOK
<1>4. CASE RetryFire \/ PeriodicReconcile \/ TierWatchEstablished
  BY <1>4 DEF RetryFire, PeriodicReconcile, TierWatchEstablished, TypeOK
<1>5. CASE CreateCR \/ EditCR \/ DeleteCR
  <2>1. cr' \in [exists: BOOLEAN, valid: BOOLEAN]
    <3>1. CASE EditCR
      BY <3>1 DEF EditCR, TypeOK
    <3>2. CASE CreateCR
      BY <3>2 DEF CreateCR
    <3>3. CASE DeleteCR
      BY <3>3 DEF DeleteCR
    <3> QED
      BY <1>5, <3>1, <3>2, <3>3
  <2>2. changes' \in 0..MaxChanges
    BY <1>5, ChangeCount DEF CreateCR, EditCR, DeleteCR
  <2> QED
    BY <1>5, <2>1, <2>2 DEF CreateCR, EditCR, DeleteCR, TypeOK
<1>6. CASE DeleteInstallation
  <2>1. inst' \in InstRec
    BY <1>6, Zenon DEF DeleteInstallation, TypeOK, InstRec, NoInst,
                       AllVariants
  <2> QED
    BY <1>6, <2>1, ChangeCount DEF DeleteInstallation, TypeOK
<1>7. ASSUME NEW v \in Variants, CreateInstallation(v) \/ SetVariant(v)
      PROVE  TypeOK'
  <2>1. inst' \in InstRec
    BY <1>7, Zenon DEF CreateInstallation, SetVariant, TypeOK, InstRec,
                       NoInst, AllVariants
  <2> QED
    BY <1>7, <2>1, ChangeCount DEF CreateInstallation, SetVariant, TypeOK
<1>8. ASSUME NEW o \in Toggle, ToggleObject(o) PROVE TypeOK'
  BY <1>8, ChangeCount DEF ToggleObject, TypeOK, Objects
<1>9. CASE BreakDeployment \/ Rollout \/ GarbageCollect \/ OperatorRestart
  BY <1>9, ChangeCount DEF BreakDeployment, Rollout, GarbageCollect,
                           OperatorRestart, TypeOK, DeployStates, Reasons
<1>10. CASE UNCHANGED vars
  BY <1>10 DEF vars, TypeOK
<1> QED
  BY <1>1, <1>2, <1>3, <1>4, <1>5, <1>6, <1>7, <1>8, <1>9, <1>10
     DEF Next, Controller, Environment

(* The type invariant holds in every reachable state.                      *)
THEOREM TypeCorrect == Spec => []TypeOK
BY InitType, NextType, PTL DEF Spec
-----------------------------------------------------------------------------
(* The inductive invariant: a pass in flight has seen the Installation,    *)
(* and it cannot vanish under the pass.                                    *)
IInv ==
    /\ TypeOK
    /\ FinalizerGuardsDeployment
    /\ pc = "mid" => inst.exists

(* A pass that reads to its end has found the Installation.                *)
LEMMA ReadFindsInstallation ==
    ASSUME TypeOK, NEW e, ReconcileRead(e), pc' = "mid"
    PROVE  inst.exists
<1> DEFINE s == FirstStage(ReadStages, e)
<1>1. s = "Done"
  BY DEF ReconcileRead
<1>2. HaltSet(ReadStages, e) = {}
  BY <1>1, StageSplit, FirstStageType
<1>3. "Installation" \notin HaltSet(ReadStages, e)
  BY <1>2
<1> QED
  BY <1>3, StageSplit DEF HaltSet, Fails

(* The finishing step adds the finalizer before it creates the deployment. *)
LEMMA FinishGuards ==
    ASSUME IInv, NEW e, ReconcileFinish(e)
    PROVE  FinalizerGuardsDeployment'
<1> DEFINE s == FirstStage(FinishStages, e)
<1>1. s \in Stages \cup {"Done"}
  BY StageSplit, FirstStageType
<1>2. inst.exists
  BY DEF IInv, ReconcileFinish
<1>3. MaintainFinalizer(TRUE) = [inst EXCEPT !.finalizer = TRUE]
  BY <1>2 DEF MaintainFinalizer
<1>4. MaintainFinalizer(TRUE).exists /\ MaintainFinalizer(TRUE).finalizer
  BY <1>2, <1>3 DEF IInv, TypeOK, InstRec
<1>5. CASE Passed(s, "ApplyAPIServer")
  <2>1. Passed(s, "Finalizer")
    BY <1>1, <1>5, FinishOrder
  <2>2. inst' = MaintainFinalizer(TRUE)
    BY <2>1 DEF ReconcileFinish
  <2> QED
    BY <1>4, <2>2 DEF FinalizerGuardsDeployment
<1>6. CASE ~Passed(s, "ApplyAPIServer")
  <2>1. deploy' = deploy
    BY <1>6 DEF ReconcileFinish
  <2>2. inst' = inst \/ inst' = MaintainFinalizer(TRUE)
    BY DEF ReconcileFinish
  <2>3. inst.exists /\ inst.finalizer => inst'.exists /\ inst'.finalizer
    BY <1>4, <2>2
  <2> QED
    BY <2>1, <2>3 DEF IInv, FinalizerGuardsDeployment
<1> QED
  BY <1>5, <1>6

(* Every step keeps the deployment guarded, when the Installation is       *)
(* deleted only between passes or while the finalizer holds it.            *)
LEMMA NextGuards ==
    ASSUME ~MidPassDelete, IInv, [Next]_vars
    PROVE  /\ FinalizerGuardsDeployment'
           /\ pc' = "mid" => inst'.exists
<1> USE DEF FinalizerGuardsDeployment
<1>0. TypeOK /\ FinalizerGuardsDeployment /\ (pc = "mid" => inst.exists)
  BY DEF IInv
<1>2. ASSUME NEW e, ReconcileNotFound(e)
      PROVE  /\ FinalizerGuardsDeployment'
             /\ pc' = "mid" => inst'.exists
  <2>1. deploy # "absent" => inst' = inst
    BY <1>0, <1>2 DEF ReconcileNotFound, MaintainFinalizer
  <2> QED
    BY <1>0, <1>2, <2>1 DEF ReconcileNotFound
<1>3. ASSUME NEW e, ReconcileRead(e)
      PROVE  /\ FinalizerGuardsDeployment'
             /\ pc' = "mid" => inst'.exists
  <2>1. pc' = "mid" => inst.exists
    BY <1>0, <1>3, ReadFindsInstallation
  <2> QED
    BY <1>0, <1>3, <2>1 DEF ReconcileRead
<1>4. ASSUME NEW e, ReconcileFinish(e)
      PROVE  /\ FinalizerGuardsDeployment'
             /\ pc' = "mid" => inst'.exists
  BY <1>4, FinishGuards DEF ReconcileFinish, IInv
<1>5. CASE DeleteInstallation
  <2>1. CASE inst.finalizer
    <3>1. inst' = [inst EXCEPT !.deleting = TRUE]
      BY <1>5, <2>1 DEF DeleteInstallation
    <3>2. inst'.exists /\ inst'.finalizer
      BY <1>0, <1>5, <2>1, <3>1 DEF DeleteInstallation, TypeOK, InstRec
    <3> QED
      BY <3>2, <1>5 DEF DeleteInstallation
  <2>2. CASE ~inst.finalizer
    <3>1. deploy = "absent" /\ pc = "idle"
      BY <1>0, <1>5, <2>2 DEF DeleteInstallation
    <3> QED
      BY <1>5, <3>1 DEF DeleteInstallation
  <2> QED
    BY <2>1, <2>2
<1>6. ASSUME NEW v \in Variants, CreateInstallation(v)
      PROVE  /\ FinalizerGuardsDeployment'
             /\ pc' = "mid" => inst'.exists
  <2>1. deploy = "absent" /\ pc # "mid"
    BY <1>0, <1>6 DEF CreateInstallation
  <2> QED
    BY <1>6, <2>1 DEF CreateInstallation
<1>7. ASSUME NEW v \in Variants, SetVariant(v)
      PROVE  /\ FinalizerGuardsDeployment'
             /\ pc' = "mid" => inst'.exists
  <2>1. inst'.exists = inst.exists /\ inst'.finalizer = inst.finalizer
    BY <1>0, <1>7 DEF SetVariant, TypeOK, InstRec
  <2> QED
    BY <1>0, <1>7, <2>1 DEF SetVariant
<1>8. CASE \/ RetryFire \/ PeriodicReconcile \/ TierWatchEstablished
           \/ CreateCR \/ EditCR \/ DeleteCR
           \/ \E o \in Toggle : ToggleObject(o)
           \/ BreakDeployment \/ Rollout \/ GarbageCollect
           \/ OperatorRestart \/ UNCHANGED vars
  BY <1>0, <1>8 DEF RetryFire, PeriodicReconcile, TierWatchEstablished,
                    CreateCR, EditCR, DeleteCR, ToggleObject, BreakDeployment,
                    Rollout, GarbageCollect, OperatorRestart, vars
<1> QED
  BY <1>2, <1>3, <1>4, <1>5, <1>6, <1>7, <1>8
     DEF Next, Controller, Environment

LEMMA InitGuards == Init => IInv
BY InitType DEF Init, IInv, FinalizerGuardsDeployment

(* When the Installation is deleted only between passes (or while the      *)
(* finalizer holds it), maintainFinalizer protects the API server          *)
(* deployment: while it exists, the Installation exists with the finalizer *)
(* in every reachable state.                                               *)
THEOREM FinalizerSafe ==
    ~MidPassDelete => (Spec => []FinalizerGuardsDeployment)
<1> SUFFICES ASSUME ~MidPassDelete PROVE Spec => []FinalizerGuardsDeployment
  OBVIOUS
<1>1. IInv /\ [Next]_vars => IInv'
  BY NextGuards, NextType DEF IInv
<1>2. IInv => FinalizerGuardsDeployment
  BY DEF IInv
<1> QED
  BY InitGuards, <1>1, <1>2, PTL DEF Spec
=============================================================================
