---------------------- MODULE APIServerTeardown_proofs ----------------------
(***************************************************************************)
(* The APIServer controller implements the Installation teardown protocol  *)
(* InstallationTeardown under the mapping Teardown of module APIServer,    *)
(* when the Installation is deleted only between passes or while the       *)
(* finalizer holds it.  The proof strengthens the invariant IInv of        *)
(* APIServer_proofs with two facts about the Installation record.          *)
(***************************************************************************)
EXTENDS APIServer_proofs

(* The abstract protocol's theorems, seen through the same mapping.        *)
TeardownProofs == INSTANCE InstallationTeardown_proofs
                      WITH installed <- inst.exists, held <- inst.finalizer,
                           deleting <- inst.deleting,
                           served <- deploy # "absent"

(* A deletion timestamp sits only on an Installation held by the           *)
(* finalizer, and an absent Installation carries neither.                  *)
DelInv ==
    /\ inst.deleting => inst.finalizer
    /\ ~inst.exists => ~inst.finalizer /\ ~inst.deleting

TInv == IInv /\ DelInv

(* A stage a pass has gone past did not fail.                              *)
LEMMA PassedNotHalting ==
    ASSUME NEW S \in SUBSET Stages, NEW e, NEW n \in S,
           Passed(FirstStage(S, e), n)
    PROVE  n \notin HaltSet(S, e)
<1> DEFINE H == HaltSet(S, e)
<1> SUFFICES ASSUME n \in H PROVE FALSE
  OBVIOUS
<1>1. H \in SUBSET Stages /\ H # {}
  BY DEF HaltSet
<1>2. \E k \in H : \A m \in H : Rank[k] <= Rank[m]
  BY <1>1, LeastStageExists
<1>3. FirstStage(S, e) \in H /\ Rank[FirstStage(S, e)] <= Rank[n]
  BY <1>1, <1>2 DEF FirstStage
<1>4. Pos(FirstStage(S, e)) = Rank[FirstStage(S, e)]
  <2>1. FirstStage(S, e) # "Done"
    BY <1>1, <1>3 DEF Stages, Rank
  <2> QED BY <2>1 DEF Pos
<1> QED
  BY <1>1, <1>3, <1>4, RankType DEF Passed

(* The finalizer stage belongs to the second half of a pass.               *)
LEMMA FinalizerFinishes == "Finalizer" \in FinishStages
BY DEF FinishStages, ReadStages, Stages, Rank
-----------------------------------------------------------------------------
(* Every step keeps DelInv.                                                *)
LEMMA DelInvStep ==
    ASSUME TInv, [Next]_vars
    PROVE  DelInv'
<1> USE DEF DelInv
<1>0. TypeOK /\ DelInv /\ (pc = "mid" => inst.exists)
  BY DEF TInv, IInv
<1>1. ASSUME NEW e, ReconcileNotFound(e) PROVE DelInv'
  <2>1. CASE inst' = inst
    BY <1>0, <2>1
  <2>2. CASE inst' = MaintainFinalizer(FALSE)
    <3>1. CASE ~inst.exists \/ deploy # "absent"
      <4>1. MaintainFinalizer(FALSE) = inst
        BY <3>1 DEF MaintainFinalizer
      <4> QED BY <1>0, <2>2, <4>1
    <3>2. CASE inst.exists /\ deploy = "absent" /\ inst.deleting
      <4>1. MaintainFinalizer(FALSE) = NoInst
        BY <3>2 DEF MaintainFinalizer
      <4>2. inst' = NoInst
        BY <2>2, <4>1
      <4>3. ~inst'.exists /\ ~inst'.finalizer /\ ~inst'.deleting
        BY <4>2 DEF NoInst
      <4> QED BY <4>3
    <3>3. CASE inst.exists /\ deploy = "absent" /\ ~inst.deleting
      <4>1. MaintainFinalizer(FALSE) = [inst EXCEPT !.finalizer = FALSE]
        BY <3>3 DEF MaintainFinalizer
      <4>2. inst'.deleting = inst.deleting /\ inst'.exists = inst.exists
            /\ ~inst'.finalizer
        BY <1>0, <2>2, <4>1, Zenon DEF TypeOK, InstRec
      <4> QED BY <3>3, <4>2
    <3> QED BY <3>1, <3>2, <3>3
  <2> QED BY <1>1, <2>1, <2>2 DEF ReconcileNotFound
<1>2. ASSUME NEW e, ReconcileRead(e) PROVE DelInv'
  BY <1>0, <1>2 DEF ReconcileRead
<1>3. ASSUME NEW e, ReconcileFinish(e) PROVE DelInv'
  <2>1. inst.exists
    BY <1>0, <1>3 DEF ReconcileFinish
  <2>2. MaintainFinalizer(TRUE) = [inst EXCEPT !.finalizer = TRUE]
    BY <2>1 DEF MaintainFinalizer
  <2>3. [inst EXCEPT !.finalizer = TRUE].exists /\ [inst EXCEPT !.finalizer = TRUE].finalizer
    BY <1>0, <2>1, Zenon DEF TypeOK, InstRec
  <2>4. inst' = inst \/ inst' = MaintainFinalizer(TRUE)
    BY <1>3 DEF ReconcileFinish
  <2> QED BY <1>0, <2>2, <2>3, <2>4
<1>4. CASE DeleteInstallation
  <2>1. CASE inst.finalizer
    <3>1. inst' = [inst EXCEPT !.deleting = TRUE]
      BY <1>4, <2>1 DEF DeleteInstallation
    <3>2. inst'.exists /\ inst'.finalizer /\ inst'.deleting
      BY <1>0, <1>4, <2>1, <3>1, Zenon DEF DeleteInstallation, TypeOK, InstRec
    <3> QED BY <3>2
  <2>2. CASE ~inst.finalizer
    BY <1>4, <2>2 DEF DeleteInstallation, NoInst
  <2> QED BY <2>1, <2>2
<1>5. ASSUME NEW v \in Variants, CreateInstallation(v) PROVE DelInv'
  <2>1. inst' = [exists |-> TRUE, variant |-> v, deleting |-> FALSE, finalizer |-> FALSE]
    BY <1>5, Zenon DEF CreateInstallation, NoInst
  <2> QED BY <2>1
<1>6. ASSUME NEW v \in Variants, SetVariant(v) PROVE DelInv'
  <2>1. inst'.exists = inst.exists /\ inst'.finalizer = inst.finalizer
        /\ inst'.deleting = inst.deleting
    BY <1>0, <1>6, Zenon DEF SetVariant, TypeOK, InstRec
  <2> QED BY <1>0, <2>1
<1>7. CASE \/ RetryFire \/ PeriodicReconcile \/ TierWatchEstablished
           \/ CreateCR \/ EditCR \/ DeleteCR
           \/ \E o \in Toggle : ToggleObject(o)
           \/ BreakDeployment \/ Rollout \/ GarbageCollect
           \/ OperatorRestart \/ UNCHANGED vars
  BY <1>0, <1>7 DEF RetryFire, PeriodicReconcile, TierWatchEstablished,
                    CreateCR, EditCR, DeleteCR, ToggleObject, BreakDeployment,
                    Rollout, GarbageCollect, OperatorRestart, vars
<1> QED
  BY <1>1, <1>2, <1>3, <1>4, <1>5, <1>6, <1>7
     DEF Next, Controller, Environment
-----------------------------------------------------------------------------
(* A step that leaves the Installation and the deployment's existence      *)
(* alone is a stutter of the teardown protocol.                            *)
LEMMA TeardownStutter ==
    ASSUME inst'.exists = inst.exists, inst'.finalizer = inst.finalizer,
           inst'.deleting = inst.deleting,
           (deploy' # "absent") = (deploy # "absent")
    PROVE  UNCHANGED Teardown!vars
BY DEF Teardown!vars

(* The finalizer released with the deployment gone is a Release.          *)
LEMMA ReleaseStep ==
    ASSUME inst.finalizer, deploy = "absent", deploy' = deploy,
           inst'.finalizer = FALSE, inst'.exists = ~inst.deleting,
           inst'.deleting = FALSE
    PROVE  [Teardown!Next]_Teardown!vars
<1>1. Teardown!Release
  BY DEF Teardown!Release
<1> QED BY <1>1 DEF Teardown!Next

(* The finishing half of a pass is a Hold of the protocol, or a stutter:   *)
(* the finalizer call comes before the apply loop, and it is refused for   *)
(* an Installation being deleted without the finalizer.                    *)
LEMMA FinishRefines ==
    ASSUME TInv, NEW e, ReconcileFinish(e)
    PROVE  [Teardown!Next]_Teardown!vars
<1> DEFINE s == FirstStage(FinishStages, e)
<1>0. TypeOK /\ inst.exists
  BY DEF TInv, IInv, ReconcileFinish
<1>1. s \in Stages \cup {"Done"}
  BY StageSplit, FirstStageType
<1>2. CASE Passed(s, "Finalizer")
  <2>1. "Finalizer" \notin HaltSet(FinishStages, e)
    BY <1>2, StageSplit, FinalizerFinishes, PassedNotHalting
  <2>2. ~FinalizerRejected
    BY <2>1, FinalizerFinishes DEF HaltSet, Fails
  <2>3. inst' = [inst EXCEPT !.finalizer = TRUE]
    BY <1>0, <1>2 DEF ReconcileFinish, MaintainFinalizer
  <2>4. inst'.exists = inst.exists /\ inst'.deleting = inst.deleting
        /\ inst'.finalizer = TRUE
    BY <1>0, <2>3, Zenon DEF TypeOK, InstRec
  <2>5. deploy' \in {deploy, "rolling"}
    BY DEF ReconcileFinish, ApplyDeployment
  <2>6. (deploy' # "absent") \in {deploy # "absent", TRUE}
    BY <2>5
  <2>7. Teardown!Hold
    BY <1>0, <2>2, <2>4, <2>6 DEF Teardown!Hold, FinalizerRejected
  <2> QED BY <2>7 DEF Teardown!Next
<1>3. CASE ~Passed(s, "Finalizer")
  <2>1. ~Passed(s, "ApplyAPIServer")
    BY <1>1, <1>3, FinishOrder
  <2>2. inst' = inst /\ deploy' = deploy
    BY <1>3, <2>1 DEF ReconcileFinish
  <2> QED BY <2>2, TeardownStutter
<1> QED BY <1>2, <1>3

(* The not-found pass is a Release of the protocol, or a stutter.          *)
LEMMA NotFoundRefines ==
    ASSUME TInv, NEW e, ReconcileNotFound(e)
    PROVE  [Teardown!Next]_Teardown!vars
<1>0. TypeOK /\ DelInv /\ deploy' = deploy
  BY DEF TInv, IInv, ReconcileNotFound
<1>1. CASE inst' = inst
  BY <1>0, <1>1, TeardownStutter
<1>2. CASE inst' = MaintainFinalizer(FALSE)
  <2>1. CASE ~inst.exists \/ deploy # "absent"
    <3>1. inst' = inst
      BY <1>2, <2>1 DEF MaintainFinalizer
    <3> QED BY <1>0, <3>1, TeardownStutter
  <2>2. CASE inst.exists /\ deploy = "absent" /\ inst.deleting
    <3>1. inst' = NoInst
      BY <1>2, <2>2 DEF MaintainFinalizer
    <3>2. inst'.exists = FALSE /\ inst'.finalizer = FALSE /\ inst'.deleting = FALSE
      BY <3>1 DEF NoInst
    <3>3. inst.finalizer /\ inst.deleting = TRUE
      BY <1>0, <2>2, Zenon DEF DelInv, TypeOK, InstRec
    <3>4. inst'.exists = ~inst.deleting
      BY <3>2, <3>3
    <3> QED BY <1>0, <2>2, <3>2, <3>3, <3>4, ReleaseStep
  <2>3. CASE inst.exists /\ deploy = "absent" /\ ~inst.deleting
    <3>1. inst' = [inst EXCEPT !.finalizer = FALSE]
      BY <1>2, <2>3 DEF MaintainFinalizer
    <3>2. inst'.exists = inst.exists /\ inst'.deleting = inst.deleting
          /\ inst'.finalizer = FALSE
      BY <1>0, <3>1, Zenon DEF TypeOK, InstRec
    <3>3. inst.deleting = FALSE /\ inst.exists = TRUE
      BY <1>0, <2>3, Zenon DEF TypeOK, InstRec
    <3>4. CASE inst.finalizer
      <4>1. inst'.exists = ~inst.deleting
        BY <3>2, <3>3
      <4> QED BY <1>0, <2>3, <3>2, <3>3, <3>4, <4>1, ReleaseStep
    <3>5. CASE ~inst.finalizer
      <4>1. inst.finalizer = FALSE
        BY <1>0, <3>5, Zenon DEF TypeOK, InstRec
      <4> QED BY <1>0, <3>2, <4>1, TeardownStutter
    <3> QED BY <3>4, <3>5
  <2> QED BY <2>1, <2>2, <2>3
<1> QED BY <1>1, <1>2 DEF ReconcileNotFound
-----------------------------------------------------------------------------
(* A delete request is a Delete of the protocol.                           *)
LEMMA DeleteRefines ==
    ASSUME TInv, DeleteInstallation
    PROVE  [Teardown!Next]_Teardown!vars
<1>0. TypeOK /\ inst.exists /\ inst.deleting = FALSE /\ deploy' = deploy
  BY Zenon DEF TInv, IInv, DeleteInstallation, TypeOK, InstRec
<1>1. CASE inst.finalizer
  <2>1. inst' = [inst EXCEPT !.deleting = TRUE]
    BY <1>1 DEF DeleteInstallation
  <2>2. inst'.exists = inst.exists /\ inst'.finalizer = inst.finalizer
        /\ inst'.deleting = TRUE
    BY <1>0, <2>1, Zenon DEF TypeOK, InstRec
  <2>3. Teardown!Delete
    BY <1>0, <1>1, <2>2 DEF Teardown!Delete
  <2> QED BY <2>3 DEF Teardown!Next
<1>2. CASE ~inst.finalizer
  <2>1. inst' = NoInst
    BY <1>2 DEF DeleteInstallation
  <2>2. inst'.exists = FALSE /\ inst'.finalizer = FALSE /\ inst'.deleting = FALSE
    BY <2>1 DEF NoInst
  <2>3. inst.finalizer = FALSE
    BY <1>0, <1>2, Zenon DEF TypeOK, InstRec
  <2>4. Teardown!Delete
    BY <1>0, <1>2, <2>2, <2>3 DEF Teardown!Delete
  <2> QED BY <2>4 DEF Teardown!Next
<1> QED BY <1>1, <1>2

(* Every step of the controller and of the cluster is a step of the        *)
(* teardown protocol or a stutter of it.                                   *)
LEMMA TeardownStep ==
    ASSUME TInv, [Next]_vars
    PROVE  [Teardown!Next]_Teardown!vars
<1>0. TypeOK /\ DelInv
  BY DEF TInv, IInv
<1>1. ASSUME NEW e, ReconcileNotFound(e) PROVE [Teardown!Next]_Teardown!vars
  BY <1>1, NotFoundRefines
<1>2. ASSUME NEW e, ReconcileRead(e) PROVE [Teardown!Next]_Teardown!vars
  BY <1>2, TeardownStutter DEF ReconcileRead
<1>3. ASSUME NEW e, ReconcileFinish(e) PROVE [Teardown!Next]_Teardown!vars
  BY <1>3, FinishRefines
<1>4. CASE DeleteInstallation
  BY <1>4, DeleteRefines
<1>5. ASSUME NEW v \in Variants, CreateInstallation(v)
      PROVE  [Teardown!Next]_Teardown!vars
  <2>1. inst.exists = FALSE /\ inst.finalizer = FALSE /\ inst.deleting = FALSE
    BY <1>0, <1>5, Zenon DEF CreateInstallation, DelInv, TypeOK, InstRec
  <2>2. inst' = [exists |-> TRUE, variant |-> v, deleting |-> FALSE, finalizer |-> FALSE]
    BY <1>5, Zenon DEF CreateInstallation, NoInst
  <2>3. inst'.exists = TRUE /\ inst'.finalizer = FALSE /\ inst'.deleting = FALSE
    BY <2>2
  <2>4. Teardown!Create
    BY <1>5, <2>1, <2>3 DEF Teardown!Create, CreateInstallation
  <2> QED BY <2>4 DEF Teardown!Next
<1>6. ASSUME NEW v \in Variants, SetVariant(v)
      PROVE  [Teardown!Next]_Teardown!vars
  <2>1. inst'.exists = inst.exists /\ inst'.finalizer = inst.finalizer
        /\ inst'.deleting = inst.deleting
    BY <1>0, <1>6, Zenon DEF SetVariant, TypeOK, InstRec
  <2> QED BY <1>6, <2>1, TeardownStutter DEF SetVariant
<1>7. CASE GarbageCollect
  <2>1. CASE deploy = "absent"
    BY <1>7, <2>1, TeardownStutter DEF GarbageCollect
  <2>2. CASE deploy # "absent"
    <3>1. Teardown!Undeploy
      BY <1>7, <2>2 DEF GarbageCollect, Teardown!Undeploy
    <3> QED BY <3>1 DEF Teardown!Next
  <2> QED BY <2>1, <2>2
<1>8. CASE Rollout \/ BreakDeployment
  BY <1>8, TeardownStutter DEF Rollout, BreakDeployment
<1>9. CASE \/ RetryFire \/ PeriodicReconcile \/ TierWatchEstablished
           \/ CreateCR \/ EditCR \/ DeleteCR
           \/ \E o \in Toggle : ToggleObject(o)
           \/ OperatorRestart \/ UNCHANGED vars
  BY <1>9, TeardownStutter
     DEF RetryFire, PeriodicReconcile, TierWatchEstablished, CreateCR, EditCR,
         DeleteCR, ToggleObject, OperatorRestart, vars
<1> QED
  BY <1>1, <1>2, <1>3, <1>4, <1>5, <1>6, <1>7, <1>8, <1>9
     DEF Next, Controller, Environment

LEMMA InitRefines == Init => Teardown!Init /\ DelInv
BY DEF Init, Teardown!Init, DelInv

(***************************************************************************)
(* When the Installation is deleted only between passes or while the       *)
(* finalizer holds it, the APIServer controller and the cluster implement  *)
(* the teardown protocol: maintainFinalizer takes the hold no later than   *)
(* the apply loop creates the calico-apiserver deployment, releases it     *)
(* only once the deployment is gone, and a deletion of the Installation   *)
(* completes only through that release.                                    *)
(***************************************************************************)
THEOREM TeardownRefined ==
    ~MidPassDelete => (Spec => TeardownSpec)
<1> SUFFICES ASSUME ~MidPassDelete PROVE Spec => Teardown!Spec
  BY DEF TeardownSpec
<1>1. Init => TInv
  BY InitGuards, InitRefines DEF TInv
<1>2. TInv /\ [Next]_vars => TInv'
  BY NextGuards, NextType, DelInvStep DEF TInv, IInv
<1>3. TInv /\ [Next]_vars => [Teardown!Next]_Teardown!vars
  BY TeardownStep
<1>4. Init => Teardown!Init
  BY InitRefines
<1> QED
  BY <1>1, <1>2, <1>3, <1>4, PTL DEF Spec, Teardown!Spec

(***************************************************************************)
(* The guarantee the refinement carries over: what the abstract protocol  *)
(* promises in every state (InstallationTeardown_proofs) holds of the      *)
(* controller, read through the mapping.  While the calico-apiserver       *)
(* deployment exists, and while a deletion of the Installation is pending, *)
(* the Installation exists and carries the APIServer finalizer.  It is     *)
(* obtained from TeardownRefined and the abstract invariant alone, without *)
(* a second look at the controller's actions.                              *)
(***************************************************************************)
THEOREM TeardownProtected ==
    ~MidPassDelete => (Spec => []Teardown!Protected)
<1> SUFFICES ASSUME ~MidPassDelete PROVE Spec => []Teardown!Protected
  OBVIOUS
<1>1. Spec => Teardown!Spec
  BY TeardownRefined DEF TeardownSpec
<1>2. Teardown!Spec => []Teardown!Protected
  <2>1. TeardownProofs!Spec => []TeardownProofs!Protected
    BY TeardownProofs!ProtectedInvariant
  <2>2. Teardown!Spec <=> TeardownProofs!Spec
    <3>1. Teardown!Init <=> TeardownProofs!Init
      BY DEF Teardown!Init, TeardownProofs!Init
    <3>2. [Teardown!Next]_Teardown!vars
            <=> [TeardownProofs!Next]_TeardownProofs!vars
      BY DEF Teardown!Next, TeardownProofs!Next, Teardown!vars,
             TeardownProofs!vars, Teardown!Hold, TeardownProofs!Hold,
             Teardown!Undeploy, TeardownProofs!Undeploy, Teardown!Release,
             TeardownProofs!Release, Teardown!Delete, TeardownProofs!Delete,
             Teardown!Create, TeardownProofs!Create
    <3> QED
      BY <3>1, <3>2, PTL DEF Teardown!Spec, TeardownProofs!Spec
  <2>3. Teardown!Protected <=> TeardownProofs!Protected
    BY DEF Teardown!Protected, TeardownProofs!Protected
  <2> QED
    BY <2>1, <2>2, <2>3, PTL
<1> QED
  BY <1>1, <1>2
=============================================================================
