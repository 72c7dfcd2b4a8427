------------------------- MODULE LogCollector_proofs -------------------------
(***************************************************************************)
(* Proofs about the LogCollector controller model: the type invariant and *)
(* the health invariant hold in every reachable state, for every value of *)
(* the constants that satisfies ConstAssumption.                           *)
(***************************************************************************)
EXTENDS LogCollector, WellFoundedInduction, TLAPS

(* Every stage has a natural rank.                                         *)
LEMMA RankType == \A n \in Stages : Rank[n] \in 1..34
BY DEF Rank, Stages

(* A non-empty set of stages has one of least rank: the handler's first   *)
(* failing stage is well defined.                                          *)
LEMMA LeastStageExists ==
    ASSUME NEW H \in SUBSET Stages, H # {}
    PROVE  \E n \in H : \A m \in H : Rank[n] <= Rank[m]
<1> DEFINE T == {Rank[n] : n \in H}
<1>1. T \subseteq Nat /\ T # {}
  BY RankType
<1>2. PICK x \in T : \A y \in T : ~(<<y, x>> \in OpToRel(<, Nat))
  BY <1>1, WFMin, NatLessThanWellFounded
<1>3. PICK n \in H : Rank[n] = x
  OBVIOUS
<1>4. \A m \in H : Rank[n] <= Rank[m]
  <2> TAKE m \in H
  <2>1. Rank[m] \in T /\ Rank[m] \in Nat /\ x \in Nat
    BY <1>1, <1>3, RankType
  <2>2. ~(Rank[m] < x)
    BY <1>2, <2>1 DEF OpToRel
  <2> QED
    BY <2>1, <2>2, <1>3
<1> QED
  BY <1>4

(* The stage at which a pass halts is a stage of the handler, or Done.     *)
LEMMA FirstStageType ==
    ASSUME NEW k, NEW e
    PROVE  FirstStage(k, e) \in Stages \cup {"Done"}
<1> DEFINE H == HaltSet(k, e)
<1>1. H \in SUBSET Stages
  BY DEF HaltSet
<1>2. CASE H = {}
  BY <1>2 DEF FirstStage
<1>3. CASE H # {}
  <2>1. \E n \in H : \A m \in H : Rank[n] <= Rank[m]
    BY <1>1, <1>3, LeastStageExists
  <2> QED
    BY <1>1, <1>3, <2>1 DEF FirstStage
<1> QED
  BY <1>2, <1>3

(* The error choices of a pass on key k: a stage of ErrStages whose API    *)
(* call the pass makes, or none.                                           *)
ErrChoice(k) == {n \in ErrStages : Reads(k)[n]} \cup {"none"}

(* A Reconcile step: the facts of one pass on key k with error choice e.   *)
PassFacts(k, e) ==
    LET s == FirstStage(k, e) IN
    /\ e # "none" => errors < MaxErrors
    /\ lc' = NewLC(s)
    /\ crConditions' = NewConditions(k, s)
    /\ crReady' = NewReady(s)
    /\ rendered' = NewRendered(s)
    /\ applied' = NewApplied(s)
    /\ status' = NewStatus(s)
    /\ queue' = (queue \ {k}) \cup
                 (IF \/ NewLC(s) # lc
                     \/ NewConditions(k, s) # crConditions
                     \/ NewReady(s) # crReady
                  THEN {CRKey} ELSE {})
    /\ retry' = IF Requeues(s, e) THEN retry \cup {k} ELSE retry
    /\ errors' = IF e = "none" THEN errors ELSE errors + 1

(* A Reconcile step is a pass for some error choice.                      *)
LEMMA ReconcileUnfold ==
    ASSUME NEW k, Reconcile(k)
    PROVE  /\ k \in queue
           /\ lc.exists
           /\ \E e \in ErrChoice(k) : PassFacts(k, e)
           /\ UNCHANGED <<objs, tierWatchReady, licenseAPIReady, dsAvailable,
                          tigeraStatus, changes>>
BY DEF Reconcile, ErrChoice, PassFacts

(* The fluentd configuration a pass renders is a configuration.           *)
LEMMA CfgOfType ==
    ASSUME TypeOK
    PROVE  /\ CfgOf \in Cfgs
           /\ \A c \in Comps : CompCfg(CfgOf, c) \in Cfgs
<1>1. CfgOf \in Cfgs
  BY ConstAssumption DEF TypeOK, LCRec, CfgOf, Cfgs, Managed, EksLogs,
                          MultiTenantManagement
<1> QED
  BY <1>1 DEF CompCfg, WinCfg, Cfgs

(* A Reconcile step preserves the type invariant.                          *)
LEMMA ReconcileType ==
    ASSUME TypeOK, NEW k \in Keys, Reconcile(k)
    PROVE  TypeOK'
<1>1. PICK e \in ErrChoice(k) : PassFacts(k, e)
  BY ReconcileUnfold
<1> DEFINE s == FirstStage(k, e)
<1>2. s \in Stages \cup {"Done"}
  BY FirstStageType
<1>3. lc' \in LCRec
  BY <1>1 DEF PassFacts, NewLC, TypeOK, LCRec
<1>4. crConditions' \in Reasons /\ crReady' \in BOOLEAN
  BY <1>1 DEF PassFacts, NewConditions, NewReady, TypeOK
<1>5. rendered' \in Cfgs \cup {NoCfg}
  BY <1>1, CfgOfType DEF PassFacts, NewRendered, TypeOK
<1>6. applied' \in [Comps -> Cfgs \cup {NoCfg}]
  BY <1>1, CfgOfType DEF PassFacts, NewApplied, TypeOK
<1>7. status' \in [found: BOOLEAN, reason: Reasons]
  <2>1. NewReason(s) \in Reasons
    BY <1>2 DEF NewReason, Reasons, Degrades, TypeOK
  <2> QED
    BY <1>1, <2>1 DEF PassFacts, NewStatus
<1>8. queue' \subseteq Keys /\ retry' \subseteq Keys
  BY <1>1 DEF PassFacts, TypeOK, Keys
<1>9. errors' \in 0..MaxErrors
  <2>1. e \in ErrStages \cup {"none"}
    BY DEF ErrChoice
  <2> QED
    BY <1>1, <2>1, ConstAssumption DEF PassFacts, TypeOK
<1>10. UNCHANGED <<objs, tierWatchReady, licenseAPIReady, dsAvailable,
                   tigeraStatus, changes>>
  BY ReconcileUnfold
<1> QED
  BY <1>3, <1>4, <1>5, <1>6, <1>7, <1>8, <1>9, <1>10 DEF TypeOK

(* The initial state is well typed.                                         *)
LEMMA InitType == Init => TypeOK
<1> SUFFICES ASSUME Init PROVE TypeOK
  OBVIOUS
<1>1. objs \subseteq Objects /\ lc \in LCRec
  BY ConstAssumption DEF Init
<1>2. queue \subseteq Keys /\ retry \subseteq Keys
  BY DEF Init, Keys
<1>3. status \in [found: BOOLEAN, reason: Reasons]
      /\ tigeraStatus \in [exists: BOOLEAN, reason: Reasons]
      /\ crConditions \in Reasons
  BY DEF Init, Reasons
<1>4. applied \in [Comps -> Cfgs \cup {NoCfg}] /\ rendered \in Cfgs \cup {NoCfg}
  BY DEF Init
<1>5. changes \in 0..MaxChanges /\ errors \in 0..MaxErrors
  BY ConstAssumption DEF Init
<1> QED
  BY <1>1, <1>2, <1>3, <1>4, <1>5 DEF Init, TypeOK

(* Every step of the controller or the environment preserves TypeOK.       *)
LEMMA NextType == TypeOK /\ [Next]_vars => TypeOK'
<1> SUFFICES ASSUME TypeOK, [Next]_vars PROVE TypeOK'
  OBVIOUS
<1>1. ASSUME NEW k \in Keys, ReconcileNotFound(k) PROVE TypeOK'
  BY <1>1 DEF ReconcileNotFound, TypeOK, Reasons
<1>2. ASSUME NEW k \in Keys, Reconcile(k) PROVE TypeOK'
  BY <1>2, ReconcileType
<1>3. ASSUME NEW k \in Keys, RetryFire(k) PROVE TypeOK'
  BY <1>3 DEF RetryFire, TypeOK
<1>4. CASE StatusManagerSync
  BY <1>4 DEF StatusManagerSync, TypeOK, Keys
<1>5. CASE TierWatchEstablished \/ LicenseWatchEstablished
  BY <1>5 DEF TierWatchEstablished, LicenseWatchEstablished, TypeOK, Keys
<1>6. ASSUME NEW o \in Toggle, ToggleObject(o) PROVE TypeOK'
  BY <1>6, ConstAssumption DEF ToggleObject, TypeOK, Keys
<1>7. ASSUME NEW r \in LCSpecs, WriteLogCollector(r) PROVE TypeOK'
  <2>1. lc' \in LCRec /\ crReady' \in BOOLEAN /\ crConditions' \in Reasons
    BY <1>7, ConstAssumption DEF WriteLogCollector, TypeOK, Reasons
  <2>2. queue' \subseteq Keys /\ changes' \in 0..MaxChanges
    BY <1>7, ConstAssumption DEF WriteLogCollector, TypeOK, Keys
  <2> QED
    BY <1>7, <2>1, <2>2 DEF WriteLogCollector, TypeOK
<1>8. CASE DeleteLogCollector
  <2>1. lc' \in LCRec
    BY <1>8, Zenon DEF DeleteLogCollector, TypeOK, LCRec
  <2>2. queue' \subseteq Keys /\ changes' \in 0..MaxChanges
    BY <1>8, ConstAssumption DEF DeleteLogCollector, TypeOK, Keys
  <2> QED
    BY <1>8, <2>1, <2>2 DEF DeleteLogCollector, TypeOK
<1>9. CASE DaemonSetRollout
  BY <1>9, ConstAssumption DEF DaemonSetRollout, TypeOK
<1>10. CASE OperatorRestart
  <2>1. status' \in [found: BOOLEAN, reason: Reasons]
    BY <1>10 DEF OperatorRestart, Reasons
  <2>2. queue' \subseteq Keys /\ retry' \subseteq Keys
    BY <1>10 DEF OperatorRestart, Keys
  <2>3. changes' \in 0..MaxChanges
    BY <1>10, ConstAssumption DEF OperatorRestart, TypeOK
  <2> QED
    BY <1>10, <2>1, <2>2, <2>3 DEF OperatorRestart, TypeOK
<1>11. CASE UNCHANGED vars
  BY <1>11, ConstAssumption DEF vars, TypeOK
<1>12. CASE NodeStatusUpdate
  BY <1>12 DEF NodeStatusUpdate, TypeOK, Keys
<1> QED
  BY <1>1, <1>2, <1>3, <1>4, <1>5, <1>6, <1>7, <1>8, <1>9, <1>10, <1>11,
     <1>12
  DEF Next, Controller, Environment, Process

(* Type correctness: every reachable state of the controller and its       *)
(* cluster has the shapes TypeOK gives, whatever the constants.             *)
THEOREM TypeCorrect == Spec => []TypeOK
BY InitType, NextType, PTL DEF Spec

-----------------------------------------------------------------------------
(* The health invariant.  It is inductive together with TypeOK: a pass     *)
(* that reports Cleared ran through the whole apply loop, and a pass that  *)
(* keeps an earlier Cleared either stopped before rendering or stopped at  *)
(* the Windows node list, after the apply loop.                            *)
IInv == TypeOK /\ HealthyMeansApplied

(* The ranks of the stages the health argument turns on.                  *)
LEMMA RankValues ==
    /\ Rank["TigeraStatus"] = 1 /\ Rank["ConditionsUpdate"] = 2
    /\ Rank["ImageSet"] = 26 /\ Rank["ApplySetup"] = 27
    /\ Rank["ApplyFluentd"] = 28 /\ Rank["ApplyCerts"] = 29
    /\ Rank["WindowsNodes"] = 30 /\ Rank["ApplyWindows"] = 32
    /\ Rank["Available"] = 33 /\ Rank["StatusUpdate"] = 34
BY DEF Rank

(* The markers a pass and the status manager use are not stage names.     *)
LEMMA MarkersNotStages == {"Done", "Unset", "Cleared"} \cap Stages = {}
BY DEF Stages, Rank

LEMMA PosType ==
    ASSUME NEW s \in Stages \cup {"Done"}
    PROVE  Pos(s) \in 1..35
BY RankType DEF Pos, EndRank

(* A pass on the Linux components that got past their apply stage.        *)
LEMMA LinuxAppliedWhenPassed ==
    ASSUME TypeOK, NEW s \in Stages \cup {"Done"}, Pos(s) >= Rank["WindowsNodes"]
    PROVE  /\ NewRendered(s) = CfgOf
           /\ \A c \in LinuxComps : NewApplied(s)[c] = NewRendered(s)
<1>1. NewRendered(s) = CfgOf
  BY PosType, RankValues DEF NewRendered
<1>2. ASSUME NEW c \in LinuxComps PROVE NewApplied(s)[c] = CfgOf
  <2>1. Passed(s, ApplyStage[c])
    BY <1>2, PosType, RankValues DEF Passed, ApplyStage, LinuxComps
  <2>2. CompCfg(CfgOf, c) = CfgOf
    BY <1>2 DEF CompCfg, LinuxComps
  <2> QED
    BY <1>2, <2>1, <2>2 DEF NewApplied, Comps
<1> QED
  BY <1>1, <1>2

(* A pass that halts before the image set leaves rendering and deployment *)
(* as they were.                                                            *)
LEMMA NothingAppliedBeforeImageSet ==
    ASSUME TypeOK, NEW s \in Stages, Rank[s] < Rank["ImageSet"]
    PROVE  /\ NewRendered(s) = rendered
           /\ \A c \in Comps : NewApplied(s)[c] = applied[c]
<1>1. NewRendered(s) = rendered
  BY RankType, RankValues, MarkersNotStages DEF NewRendered, Pos
<1>2. ASSUME NEW c \in Comps PROVE ~Passed(s, ApplyStage[c])
  <2>1. ApplyStage[c] \in {"ApplySetup", "ApplyFluentd", "ApplyCerts",
                           "ApplyWindows"}
    BY <1>2 DEF ApplyStage, Comps, LinuxComps
  <2>2. Rank[ApplyStage[c]] \in 27..34
    BY <2>1, RankValues
  <2>3. Rank[s] < Rank[ApplyStage[c]]
    BY <2>2, RankType, RankValues
  <2> QED
    BY <2>2, <2>3, RankType, MarkersNotStages DEF Passed, Pos
<1> QED
  BY <1>1, <1>2 DEF NewApplied, TypeOK

(* A Reconcile step preserves HealthyMeansApplied.                         *)
LEMMA ReconcileHealthy ==
    ASSUME TypeOK, HealthyMeansApplied, NEW k \in Keys, Reconcile(k)
    PROVE  HealthyMeansApplied'
<1>1. PICK e \in ErrChoice(k) : PassFacts(k, e)
  BY ReconcileUnfold
<1> DEFINE s == FirstStage(k, e)
<1>2. s \in Stages \cup {"Done"}
  BY FirstStageType
<1>3. /\ status'.reason = NewReason(s)
      /\ applied' = NewApplied(s)
      /\ rendered' = NewRendered(s)
  BY <1>1 DEF PassFacts, NewStatus
<1>4. SUFFICES ASSUME NewReason(s) = "Cleared"
               PROVE  \A c \in LinuxComps : NewApplied(s)[c] = NewRendered(s)
  BY <1>3 DEF HealthyMeansApplied
<1>5. CASE Passed(s, "ApplyWindows")
  <2>1. Pos(s) >= Rank["WindowsNodes"]
    BY <1>2, <1>5, PosType, RankValues DEF Passed
  <2> QED
    BY <1>2, <2>1, LinuxAppliedWhenPassed
<1>6. CASE ~Passed(s, "ApplyWindows")
  <2>1. ~Degrades(s) /\ status.reason = "Cleared"
    <3>1. CASE Degrades(s)
      <4>1. NewReason(s) = s /\ s \in Stages
        BY <1>2, <1>6, <3>1 DEF NewReason, Degrades
      <4>2. "Cleared" \notin Stages
        BY MarkersNotStages
      <4> QED
        BY <1>4, <4>1, <4>2
    <3>2. CASE ~Degrades(s)
      BY <1>4, <1>6, <3>2 DEF NewReason
    <3> QED
      BY <3>1, <3>2
  <2>2. s \in {"TigeraStatus", "ConditionsUpdate", "WindowsNodes"}
    <3>1. s \in NonDegrading
      BY <1>2, <1>6, <2>1, RankValues DEF Degrades, Passed, Pos, EndRank
    <3>2. s \notin {"Available", "StatusUpdate"}
      BY <1>6, RankValues DEF Passed, Pos
    <3> QED
      BY <3>1, <3>2 DEF NonDegrading
  <2>3. CASE s = "WindowsNodes"
    BY <1>2, <2>3, RankValues, LinuxAppliedWhenPassed DEF Pos
  <2>4. CASE s \in {"TigeraStatus", "ConditionsUpdate"}
    <3>1. s \in Stages /\ Rank[s] < Rank["ImageSet"]
      BY <2>4 DEF Stages, Rank
    <3> QED
      BY <2>1, <3>1, NothingAppliedBeforeImageSet
      DEF HealthyMeansApplied, LinuxComps, Comps
  <2> QED
    BY <2>2, <2>3, <2>4
<1> QED
  BY <1>5, <1>6

(* Every step preserves the health invariant, given the type invariant.    *)
LEMMA NextHealthy ==
    TypeOK /\ HealthyMeansApplied /\ [Next]_vars => HealthyMeansApplied'
<1> SUFFICES ASSUME TypeOK, HealthyMeansApplied, [Next]_vars
             PROVE  HealthyMeansApplied'
  OBVIOUS
<1>1. ASSUME NEW k \in Keys, Reconcile(k) PROVE HealthyMeansApplied'
  BY <1>1, ReconcileHealthy
<1>2. ASSUME NEW k \in Keys, ReconcileNotFound(k) PROVE HealthyMeansApplied'
  BY <1>2, MarkersNotStages DEF ReconcileNotFound, HealthyMeansApplied
<1>3. CASE OperatorRestart
  BY <1>3 DEF OperatorRestart, HealthyMeansApplied
<1>4. CASE \/ \E k \in Keys : RetryFire(k)
           \/ StatusManagerSync \/ TierWatchEstablished
           \/ LicenseWatchEstablished
           \/ \E o \in Toggle : ToggleObject(o)
           \/ \E r \in LCSpecs : WriteLogCollector(r)
           \/ DeleteLogCollector \/ DaemonSetRollout \/ NodeStatusUpdate
           \/ UNCHANGED vars
  BY <1>4 DEF RetryFire, StatusManagerSync, TierWatchEstablished,
              LicenseWatchEstablished, ToggleObject, WriteLogCollector,
              DeleteLogCollector, DaemonSetRollout, NodeStatusUpdate, vars,
              HealthyMeansApplied
<1> QED
  BY <1>1, <1>2, <1>3, <1>4 DEF Next, Controller, Environment, Process

(* The Init state reports no health.                                       *)
LEMMA InitHealthy == Init => HealthyMeansApplied
BY MarkersNotStages DEF Init, HealthyMeansApplied

(* Healthy means applied: in every reachable state, while the status       *)
(* manager holds the degraded bit cleared by ClearDegraded, the setup,     *)
(* fluentd and certificate components are deployed from the configuration *)
(* last rendered, whatever the cluster, the CRs and the API errors.        *)
THEOREM HealthyInvariant == Spec => []HealthyMeansApplied
<1>1. Init => IInv
  BY InitType, InitHealthy DEF IInv
<1>2. IInv /\ [Next]_vars => IInv'
  BY NextType, NextHealthy DEF IInv
<1>3. IInv => HealthyMeansApplied
  BY DEF IInv
<1> QED
  BY <1>1, <1>2, <1>3, PTL DEF Spec
=============================================================================
