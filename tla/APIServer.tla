----------------------------- MODULE APIServer -----------------------------
(***************************************************************************)
(* The APIServer controller of the operator (src/unnamed/part_002).        *)
(*                                                                         *)
(* The cluster is the APIServer CR (cr), the Installation with this        *)
(* controller's finalizer (inst), the objects the handler reads (objs),    *)
(* the calico-system/calico-apiserver deployment (deploy) and the          *)
(* allow-tigera NetworkPolicy it renders.  The v3 API (NetworkPolicy,      *)
(* Tier) is served by that deployment: a v3 write succeeds only while it  *)
(* is up.  As in the LogCollector model, one Reconcile step is one whole   *)
(* call of the handler, halting at its first failing stage.  The          *)
(* conditions copy on the TigeraStatus key is not modelled here.          *)
(***************************************************************************)
EXTENDS Naturals, FiniteSets

CONSTANTS
    EnterpriseCRDs, \* opts.EnterpriseCRDExists
    InitVariant,    \* installation.Spec.Variant when the operator starts
    Variants,       \* variants the Installation may be recreated with
    InitObjs,       \* objects present when the operator starts
    Toggle,         \* objects the environment may create or delete
    MaxChanges,     \* bound on environment changes
    MaxErrors,      \* bound on transient API errors
    ErrStages,      \* stages at which an API call may fail
    MidPassDelete,  \* the Installation may be deleted while a pass runs
    MayBreak        \* the running deployment may stop serving

(* Objects the handler reads: the allow-tigera Tier, the management        *)
(* cluster CRs, an Authentication CR that is Ready with Dex, Dex's TLS     *)
(* secret.                                                                 *)
Objects == {"Tier", "MC", "MCC", "AuthDex", "DexCert"}

(* installation.Spec.Variant: unset, Calico or TigeraSecureEnterprise.     *)
AllVariants == {"", "Calico", "Enterprise"}

(* The deployment: absent, existing but not serving, rolling out, up.     *)
DeployStates == {"absent", "down", "rolling", "up"}

(* The stages of Reconcile in the order the code runs them.               *)
Rank == [Validate |-> 1, Installation |-> 2, Variant |-> 3, Certs |-> 4,
         PullSecrets |-> 5, EnterpriseReads |-> 6, MCAndMCC |-> 7,
         Tier |-> 8, EnterpriseCerts |-> 9, Dex |-> 10, K8sEndpoint |-> 11,
         Finalizer |-> 12, ImageSet |-> 13, ApplyPolicy |-> 14,
         ApplyAPIServer |-> 15, ApplyCerts |-> 16, Available |-> 17,
         StatusUpdate |-> 18]
Stages == DOMAIN Rank

(* Returns that do not call SetDegraded, and returns of Result{} with a    *)
(* nil error.                                                              *)
NonDegrading == {"Available", "StatusUpdate"}
DoneOnFail == {"Variant", "Dex"}

Reasons == Stages \cup {"Unset", "Cleared"}

ASSUME ConstAssumption ==
    /\ EnterpriseCRDs \in BOOLEAN
    /\ InitVariant \in AllVariants
    /\ Variants \subseteq AllVariants
    /\ InitObjs \subseteq Objects
    /\ Toggle \subseteq Objects
    /\ MaxChanges \in Nat
    /\ MaxErrors \in Nat
    /\ ErrStages \subseteq Stages
    /\ MidPassDelete \in BOOLEAN
    /\ MayBreak \in BOOLEAN

VARIABLES
    cr, inst, objs, deploy, policyApplied, tierWatchReady,
    queued, retry, pc, incl, status, crReady, changes, errors

vars == <<cr, inst, objs, deploy, policyApplied, tierWatchReady, queued,
          retry, pc, incl, status, crReady, changes, errors>>

InstRec == [exists: BOOLEAN, variant: AllVariants, deleting: BOOLEAN,
            finalizer: BOOLEAN]

TypeOK ==
    /\ cr \in [exists: BOOLEAN, valid: BOOLEAN]
    /\ inst \in InstRec
    /\ objs \subseteq Objects
    /\ deploy \in DeployStates
    /\ policyApplied \in BOOLEAN
    /\ tierWatchReady \in BOOLEAN
    /\ queued \in BOOLEAN
    /\ retry \in BOOLEAN
    /\ pc \in {"idle", "mid"}
    /\ incl \in BOOLEAN
    /\ status \in Reasons
    /\ crReady \in BOOLEAN
    /\ changes \in 0..MaxChanges
    /\ errors \in 0..MaxErrors
-----------------------------------------------------------------------------
Enterprise == inst.variant = "Enterprise"

(* includeV3NetworkPolicy: the tier watch is up and the Tier is found.     *)
IncludePolicy == Enterprise /\ tierWatchReady /\ "Tier" \in objs

(* The v3 API answers only while the API server deployment serves.         *)
V3Serving == deploy = "up"

(* The API server rejects a patch that adds a finalizer to an object      *)
(* that is being deleted.                                                  *)
FinalizerRejected == inst.exists /\ inst.deleting /\ ~inst.finalizer

Reads ==
    [Validate |-> FALSE, Installation |-> TRUE, Variant |-> FALSE,
     Certs |-> TRUE, PullSecrets |-> TRUE, EnterpriseReads |-> Enterprise,
     MCAndMCC |-> FALSE, Tier |-> Enterprise /\ tierWatchReady,
     EnterpriseCerts |-> Enterprise,
     Dex |-> Enterprise /\ "AuthDex" \in objs, K8sEndpoint |-> TRUE,
     Finalizer |-> TRUE, ImageSet |-> TRUE, ApplyPolicy |-> incl,
     ApplyAPIServer |-> TRUE, ApplyCerts |-> TRUE, Available |-> FALSE,
     StatusUpdate |-> TRUE]

Fails ==
    [Validate |-> ~cr.valid, Installation |-> ~inst.exists,
     Variant |-> inst.variant = "", Certs |-> FALSE, PullSecrets |-> FALSE,
     EnterpriseReads |-> FALSE,
     MCAndMCC |-> Enterprise /\ {"MC", "MCC"} \subseteq objs,
     Tier |-> FALSE, EnterpriseCerts |-> FALSE,
     Dex |-> Enterprise /\ "AuthDex" \in objs /\ "DexCert" \notin objs,
     K8sEndpoint |-> FALSE, Finalizer |-> FinalizerRejected,
     ImageSet |-> FALSE, ApplyPolicy |-> incl /\ ~V3Serving,
     ApplyAPIServer |-> FALSE, ApplyCerts |-> FALSE,
     Available |-> ~V3Serving, StatusUpdate |-> ~cr.exists]

(* A pass runs in two steps: the reads up to the finalizer call, and the  *)
(* rest, which re-reads the Installation.                                  *)
ReadStages == {n \in Stages : Rank[n] < Rank["Finalizer"]}
FinishStages == Stages \ ReadStages

HaltSet(S, e) ==
    LET F == Fails
        R == Reads
    IN  {n \in S : F[n] \/ (R[n] /\ e = n)}
FirstStage(S, e) ==
    LET H == HaltSet(S, e) IN
    IF H = {} THEN "Done"
    ELSE CHOOSE n \in H : \A m \in H : Rank[n] <= Rank[m]

EndRank == 19
Pos(s) == IF s = "Done" THEN EndRank ELSE Rank[s]
Passed(s, n) == Rank[n] < Pos(s)
Degrades(s) == s # "Done" /\ s \notin NonDegrading
Requeues(s, e) == s # "Done" /\ (s = e \/ s \notin DoneOnFail)
-----------------------------------------------------------------------------
Init ==
    /\ cr = [exists |-> TRUE, valid |-> TRUE]
    /\ inst = [exists |-> TRUE, variant |-> InitVariant, deleting |-> FALSE,
               finalizer |-> FALSE]
    /\ objs = InitObjs
    /\ deploy = "absent"
    /\ policyApplied = FALSE
    /\ tierWatchReady = FALSE
    /\ queued = TRUE
    /\ retry = FALSE
    /\ pc = "idle"
    /\ incl = FALSE
    /\ status = "Unset"
    /\ crReady = FALSE
    /\ changes = 0
    /\ errors = 0
-----------------------------------------------------------------------------
(* The choice of a failing API call: a stage of ErrStages, or none.        *)
ErrChoices == IF errors < MaxErrors THEN ErrStages \cup {"none"} ELSE {"none"}
CountError(s, e) == errors' = IF s = e THEN errors + 1 ELSE errors

NoInst == [exists |-> FALSE, variant |-> "", deleting |-> FALSE,
           finalizer |-> FALSE]

(* MaintainInstallationFinalizer with the APIServer found (present) or not *)
(* found: add the finalizer, or remove it once the calico-apiserver        *)
(* deployment is gone, which completes a pending deletion.                 *)
MaintainFinalizerDropSecondary(present) ==
    IF ~inst.exists THEN inst
    ELSE IF present THEN [inst EXCEPT !.finalizer = TRUE]
    ELSE IF inst.deleting THEN NoInst
    ELSE [inst EXCEPT !.finalizer = FALSE]
MaintainFinalizerNoRelease(present) ==
    IF inst.exists /\ present THEN [inst EXCEPT !.finalizer = TRUE] ELSE inst
MaintainFinalizer(present) ==
    IF ~inst.exists THEN inst
    ELSE IF present THEN [inst EXCEPT !.finalizer = TRUE]
    ELSE IF deploy # "absent" THEN inst
    ELSE IF inst.deleting THEN NoInst
    ELSE [inst EXCEPT !.finalizer = FALSE]

(* The APIServer CR is not found: OnCRNotFound, then maintainFinalizer(nil) *)
(* whose error is returned.                                                *)
ReconcileNotFound(e) ==
    /\ pc = "idle"
    /\ queued
    /\ ~cr.exists
    /\ e \in ErrChoices
    /\ queued' = FALSE
    /\ status' = "Unset"
    /\ inst' = IF e = "Finalizer" THEN inst ELSE MaintainFinalizer(FALSE)
    /\ retry' = (retry \/ e = "Finalizer")
    /\ CountError("Finalizer", e)
    /\ UNCHANGED <<cr, objs, deploy, policyApplied, tierWatchReady, pc, incl,
                   crReady, changes>>

(* Reconcile from GetAPIServer up to PopulateK8sServiceEndPoint: a failing *)
(* stage returns, else the pass goes on to maintainFinalizer.              *)
ReconcileRead(e) ==
    LET s == FirstStage(ReadStages, e) IN
    /\ pc = "idle"
    /\ queued
    /\ cr.exists
    /\ e \in ErrChoices
    /\ queued' = FALSE
    /\ IF s = "Done"
         THEN /\ pc' = "mid"
              /\ incl' = IncludePolicy
              /\ UNCHANGED <<status, retry, errors>>
         ELSE /\ status' = IF Degrades(s) THEN s ELSE status
              /\ retry' = (retry \/ Requeues(s, e))
              /\ CountError(s, e)
              /\ UNCHANGED <<pc, incl>>
    /\ UNCHANGED <<cr, inst, objs, deploy, policyApplied, tierWatchReady,
                   crReady, changes>>

(* CreateOrUpdate of the APIServer component: it creates the deployment   *)
(* or restores a broken one, which then rolls out.                         *)
ApplyDeploymentCreateOnly == IF deploy = "absent" THEN "rolling" ELSE deploy
ApplyDeployment == IF deploy \in {"absent", "down"} THEN "rolling" ELSE deploy

(* The rest of Reconcile: the finalizer, the ImageSet, the components in  *)
(* the order the code appends them (policy, APIServer, certificates),     *)
(* ClearDegraded, IsAvailable and the CR status update.                    *)
ReconcileFinish(e) ==
    LET s == FirstStage(FinishStages, e) IN
    /\ pc = "mid"
    /\ e \in ErrChoices
    /\ pc' = "idle"
    /\ inst' = IF Passed(s, "Finalizer") THEN MaintainFinalizer(TRUE) ELSE inst
    /\ policyApplied' = (policyApplied \/ (incl /\ Passed(s, "ApplyPolicy")))
    /\ deploy' = IF Passed(s, "ApplyAPIServer") THEN ApplyDeployment
                 ELSE deploy
    /\ status' = IF Passed(s, "ApplyCerts") THEN "Cleared"
                 ELSE IF Degrades(s) THEN s ELSE status
    /\ crReady' = (crReady \/ s = "Done")
    /\ retry' = (retry \/ Requeues(s, e))
    /\ CountError(s, e)
    /\ UNCHANGED <<cr, objs, tierWatchReady, queued, incl, changes>>

(* The rate-limited requeue, or the RequeueAfter, fires.                   *)
RetryFire ==
    /\ retry
    /\ retry' = FALSE
    /\ queued' = TRUE
    /\ UNCHANGED <<cr, inst, objs, deploy, policyApplied, tierWatchReady, pc,
                   incl, status, crReady, changes, errors>>

(* AddPeriodicReconcile: a reconcile request every PeriodicReconcileTime. *)
PeriodicReconcile ==
    /\ ~queued
    /\ queued' = TRUE
    /\ UNCHANGED <<cr, inst, objs, deploy, policyApplied, tierWatchReady,
                   retry, pc, incl, status, crReady, changes, errors>>

(* WaitToAddTierWatch: once the v3 API is served the Tier watch is added, *)
(* its initial list enqueueing the Tier if it exists.                      *)
TierWatchEstablished ==
    /\ EnterpriseCRDs
    /\ ~tierWatchReady
    /\ V3Serving
    /\ tierWatchReady' = TRUE
    /\ queued' = (queued \/ "Tier" \in objs)
    /\ UNCHANGED <<cr, inst, objs, deploy, policyApplied, retry, pc, incl,
                   status, crReady, changes, errors>>

Controller ==
    \/ \E e \in ErrStages \cup {"none"} :
          ReconcileNotFound(e) \/ ReconcileRead(e) \/ ReconcileFinish(e)
    \/ RetryFire
    \/ PeriodicReconcile
    \/ TierWatchEstablished
-----------------------------------------------------------------------------
(* The cluster.  Writes to watched objects enqueue a request; the          *)
(* calico-system/calico-apiserver deployment is not among the watched      *)
(* deployments (tigera-apiserver in calico-system, calico-apiserver in     *)
(* calico-apiserver), so its changes enqueue nothing.                      *)
Change == /\ changes < MaxChanges
          /\ changes' = changes + 1

Watched(o) == IF o = "Tier" THEN tierWatchReady
              ELSE o = "DexCert" \/ EnterpriseCRDs

CreateCR ==
    /\ ~cr.exists
    /\ Change
    /\ cr' = [exists |-> TRUE, valid |-> TRUE]
    /\ crReady' = FALSE
    /\ queued' = TRUE
    /\ UNCHANGED <<inst, objs, deploy, policyApplied, tierWatchReady, retry,
                   pc, incl, status, errors>>

EditCR ==
    /\ cr.exists
    /\ Change
    /\ cr' = [exists |-> TRUE, valid |-> ~cr.valid]
    /\ queued' = TRUE
    /\ UNCHANGED <<inst, objs, deploy, policyApplied, tierWatchReady, retry,
                   pc, incl, status, crReady, errors>>

DeleteCR ==
    /\ cr.exists
    /\ Change
    /\ cr' = [exists |-> FALSE, valid |-> TRUE]
    /\ crReady' = FALSE
    /\ queued' = TRUE
    /\ UNCHANGED <<inst, objs, deploy, policyApplied, tierWatchReady, retry,
                   pc, incl, status, errors>>

(* Deleting the Installation sets its deletion timestamp while a finalizer *)
(* holds it, and removes it otherwise.                                     *)
DeleteInstallation ==
    /\ inst.exists
    /\ ~inst.deleting
    /\ pc = "idle" \/ MidPassDelete \/ inst.finalizer
    /\ Change
    /\ inst' = IF inst.finalizer THEN [inst EXCEPT !.deleting = TRUE]
               ELSE NoInst
    /\ queued' = TRUE
    /\ UNCHANGED <<cr, objs, deploy, policyApplied, tierWatchReady, retry, pc,
                   incl, status, crReady, errors>>

CreateInstallation(v) ==
    /\ ~inst.exists
    /\ Change
    /\ inst' = [NoInst EXCEPT !.exists = TRUE, !.variant = v]
    /\ queued' = TRUE
    /\ UNCHANGED <<cr, objs, deploy, policyApplied, tierWatchReady, retry, pc,
                   incl, status, crReady, errors>>

SetVariant(v) ==
    /\ inst.exists
    /\ inst.variant = ""
    /\ v # ""
    /\ Change
    /\ inst' = [inst EXCEPT !.variant = v]
    /\ queued' = TRUE
    /\ UNCHANGED <<cr, objs, deploy, policyApplied, tierWatchReady, retry, pc,
                   incl, status, crReady, errors>>

ToggleObject(o) ==
    /\ Change
    /\ objs' = IF o \in objs THEN objs \ {o} ELSE objs \cup {o}
    /\ queued' = (queued \/ Watched(o))
    /\ UNCHANGED <<cr, inst, deploy, policyApplied, tierWatchReady, retry, pc,
                   incl, status, crReady, errors>>

(* The running deployment stops serving in a way a re-apply repairs.       *)
BreakDeployment ==
    /\ MayBreak
    /\ deploy = "up"
    /\ Change
    /\ deploy' = "down"
    /\ UNCHANGED <<cr, inst, objs, policyApplied, tierWatchReady, queued,
                   retry, pc, incl, status, crReady, errors>>

Rollout ==
    /\ deploy = "rolling"
    /\ deploy' = "up"
    /\ UNCHANGED <<cr, inst, objs, policyApplied, tierWatchReady, queued,
                   retry, pc, incl, status, crReady, changes, errors>>

(* Owner-reference garbage collection of what the deleted CR owned.        *)
GarbageCollect ==
    /\ ~cr.exists
    /\ deploy # "absent" \/ policyApplied
    /\ deploy' = "absent"
    /\ policyApplied' = FALSE
    /\ UNCHANGED <<cr, inst, objs, tierWatchReady, queued, retry, pc, incl,
                   status, crReady, changes, errors>>

(* The operator restarts: an in-flight pass is lost, the queue, the        *)
(* status manager and the tier ReadyFlag start empty, every watch lists.   *)
OperatorRestart ==
    /\ Change
    /\ pc' = "idle"
    /\ incl' = FALSE
    /\ queued' = TRUE
    /\ retry' = FALSE
    /\ tierWatchReady' = FALSE
    /\ status' = "Unset"
    /\ UNCHANGED <<cr, inst, objs, deploy, policyApplied, crReady, errors>>

Environment ==
    \/ CreateCR \/ EditCR \/ DeleteCR
    \/ DeleteInstallation
    \/ \E v \in Variants : CreateInstallation(v) \/ SetVariant(v)
    \/ \E o \in Toggle : ToggleObject(o)
    \/ BreakDeployment \/ Rollout \/ GarbageCollect
    \/ OperatorRestart

Next == Controller \/ Environment

Spec == Init /\ [][Next]_vars

(* The worker has a request to take or a pass to finish.                   *)
WorkPending == (queued /\ pc = "idle") \/ pc = "mid"
Work == \E e \in ErrStages \cup {"none"} :
            ReconcileNotFound(e) \/ ReconcileRead(e) \/ ReconcileFinish(e)

(* The worker goroutine, the requeue timers, the periodic ticker, the tier *)
(* watch goroutine, the kubelet and the garbage collector keep running.   *)
(* Work is enabled exactly when WorkPending holds, so its weak fairness is *)
(* written without ENABLED.                                                *)
Fairness ==
    /\ []<>(~WorkPending) \/ []<><<Work>>_vars
    /\ WF_vars(RetryFire)
    /\ WF_vars(PeriodicReconcile)
    /\ WF_vars(TierWatchEstablished)
    /\ WF_vars(Rollout)
    /\ WF_vars(GarbageCollect)

FairSpec == Spec /\ Fairness
-----------------------------------------------------------------------------
(* maintainFinalizer's promise: while the calico-apiserver deployment      *)
(* exists, the Installation exists and carries the APIServer finalizer, so *)
(* the CNI plugin is not torn down before the API server pods.             *)
FinalizerGuardsDeployment ==
    deploy # "absent" => inst.exists /\ inst.finalizer

(* After the APIServer CR is deleted, the finalizer is eventually released *)
(* (unless the CR comes back): the not-found branch must run again after   *)
(* the garbage collector removes the deployment.                           *)
FinalizerReleased ==
    (~cr.exists /\ inst.finalizer) ~> (cr.exists \/ ~inst.finalizer)

(* The inputs let a pass run to its end.                                   *)
Healthy ==
    /\ cr.exists /\ cr.valid
    /\ inst.exists /\ inst.variant # ""
    /\ ~(Enterprise /\ {"MC", "MCC"} \subseteq objs)
    /\ ~(Enterprise /\ "AuthDex" \in objs /\ "DexCert" \notin objs)

(* A healthy input is served: the deployment is up, the policy applied     *)
(* when it is included, the degraded bit cleared and the CR marked Ready.  *)
Settled ==
    Healthy => /\ deploy = "up"
               /\ IncludePolicy => policyApplied
               /\ status = "Cleared"
               /\ crReady

(* Once the cluster stops changing, the controller settles it.             *)
Converges == <>[]Settled

(* The state of the api_policy finding: an Enterprise Installation, the    *)
(* tier watch established and the Tier cached, the API server deployment   *)
(* absent or broken, and a pass in flight already committed to applying    *)
(* the v3 NetworkPolicy.                                                   *)
RepairBlocked ==
    /\ cr.exists
    /\ inst.exists /\ Enterprise
    /\ tierWatchReady /\ "Tier" \in objs
    /\ deploy \in {"absent", "down"}
    /\ pc = "mid" => incl

(* The environment steps that can take the cluster out of RepairBlocked:  *)
(* an operator restart clears the tier ReadyFlag, deleting the CR or the  *)
(* Installation or removing the Tier changes the inputs of the pass.      *)
RepairEscape ==
    \/ OperatorRestart \/ DeleteCR \/ DeleteInstallation
    \/ ToggleObject("Tier")

(* No controller step and no other change of the cluster repairs the API   *)
(* server once RepairBlocked holds: every pass applies the policy first    *)
(* (line 473), fails on the absent v3 API and returns before the           *)
(* APIServer component.                                                    *)
RepairStaysBlocked ==
    [][RepairBlocked /\ ~RepairEscape => RepairBlocked']_vars
-----------------------------------------------------------------------------
(* The teardown protocol seen through the Installation, its APIServer      *)
(* finalizer and the existence of the calico-apiserver deployment.         *)
Teardown == INSTANCE InstallationTeardown
                WITH installed <- inst.exists, held <- inst.finalizer,
                     deleting <- inst.deleting, served <- deploy # "absent"

(* Every step of the controller and of the cluster is a step of the        *)
(* teardown protocol or leaves it unchanged: maintainFinalizer takes the   *)
(* hold no later than the apply loop creates the deployment, releases it   *)
(* only once the deployment is gone, and only then may a deletion finish.  *)
TeardownSpec == Teardown!Spec
=============================================================================
