---------------------------- MODULE LogCollector ----------------------------
(***************************************************************************)
(* The LogCollector controller of the operator                             *)
(* (src/pkg/controller/logcollector/logcollector_controller.go).           *)
(*                                                                         *)
(* The cluster is abstracted to the set of objects the reconciler reads    *)
(* (objs), the LogCollector custom resource (lc), and the objects the      *)
(* reconciler writes: the rendered components (applied), the CR's status   *)
(* (crReady, crConditions) and, through the status manager, the            *)
(* TigeraStatus (tigeraStatus).  The controller-runtime machinery is the   *)
(* workqueue (queue), its delayed requeues (retry) and the watches that    *)
(* turn a change of a watched object into a request.                      *)
(*                                                                         *)
(* One Reconcile step is one whole call of Reconcile: the handler is a     *)
(* sequence of stages (Rank), each of which may read, fail on what it      *)
(* read (Fails) or fail with an API error (Reads).  The pass halts at the  *)
(* first stage that fails; what the handler wrote before that stage stays *)
(* written.                                                                *)
(***************************************************************************)
EXTENDS Naturals, FiniteSets

CONSTANTS
    MultiTenant,   \* opts.MultiTenant
    EKS,           \* installation.KubernetesProvider.IsEKS()
    InitObjs,      \* objects present when the operator starts
    InitLC,        \* the LogCollector CR when the operator starts
    Toggle,        \* objects the environment may create or delete
    LCSpecs,       \* LogCollector specs a user may write
    MaxChanges,    \* bound on environment changes
    MaxErrors,     \* bound on transient API errors
    ErrStages,     \* stages at which an API call may fail
    NoCfg          \* a component not deployed yet

(* Objects of the cluster the reconciler reads.                            *)
Objects == {"APIServer", "Tier", "License", "ExportLogs", "Installation",
            "MCC", "MC", "PromCert", "LinseedCert", "VoltronCert",
            "TenantLinseedCert", "Tenant", "S3Secret", "SplunkSecret",
            "SyslogCA", "ESConfig", "EksSecret", "PacketCapture", "NCH",
            "WindowsNode"}

Stores == {"S3", "Splunk", "Syslog"}

(* The LogCollector CR: whether it exists and the spec fields the          *)
(* reconciler branches on.  defaulted: fillDefaults has nothing to set.    *)
LCRec == [exists: BOOLEAN, stores: SUBSET Stores, syslogTLS: BOOLEAN,
          syslogIDS: BOOLEAN, mtNS: BOOLEAN, eksLog: BOOLEAN,
          defaulted: BOOLEAN]

(* The two request keys: the CR's own name (every watch but one enqueues  *)
(* a key that is not ResourceName) and ResourceName, the TigeraStatus's.   *)
CRKey == "tigera-secure"
TSKey == "log-collector"
Keys == {CRKey, TSKey}

(* The stages of Reconcile in the order the code runs them.               *)
Rank == [TigeraStatus |-> 1, ConditionsUpdate |-> 2, Defaults |-> 3,
         APIServer |-> 4, TierWatch |-> 5, Tier |-> 6, LicenseAPI |-> 7,
         License |-> 8, Installation |-> 9, Dependencies |-> 10,
         PromCert |-> 11, MTNamespace |-> 12, MTNamespaceUnset |-> 13,
         Tenant |-> 14, LinseedCert |-> 15, TrustedBundle |-> 16,
         ExportLogs |-> 17, S3 |-> 18, Splunk |-> 19, SyslogCert |-> 20,
         SyslogIDS |-> 21, Filters |-> 22, ESConfig |-> 23, EksConfig |-> 24,
         OptionalInputs |-> 25, ImageSet |-> 26, ApplySetup |-> 27,
         ApplyFluentd |-> 28, ApplyCerts |-> 29, WindowsNodes |-> 30,
         WinImageSet |-> 31, ApplyWindows |-> 32, Available |-> 33,
         StatusUpdate |-> 34]
Stages == DOMAIN Rank

(* Stages that return without calling SetDegraded.                        *)
NonDegrading == {"TigeraStatus", "ConditionsUpdate", "WindowsNodes",
                 "Available", "StatusUpdate"}
(* Stages whose failure returns Result{} with a nil error: no requeue.     *)
DoneOnFail == {"APIServer", "MTNamespace", "MTNamespaceUnset", "LinseedCert",
               "ExportLogs", "S3", "Splunk", "SyslogIDS", "ESConfig"}

(* Status manager reasons: a stage name, or Unset / Cleared.              *)
Reasons == Stages \cup {"Unset", "Cleared"}

LinuxComps == {"setup", "fluentd", "certs"}
Comps == LinuxComps \cup {"fluentdWindows"}
ApplyStage == [setup |-> "ApplySetup", fluentd |-> "ApplyFluentd",
               certs |-> "ApplyCerts", fluentdWindows |-> "ApplyWindows"]

(* What a rendering of fluentd depends on.                                 *)
Cfgs == [stores: SUBSET Stores, syslogCert: BOOLEAN, managed: BOOLEAN,
         eks: BOOLEAN, pcap: BOOLEAN, nch: BOOLEAN, tenant: BOOLEAN,
         windows: BOOLEAN]

ASSUME ConstAssumption ==
    /\ MultiTenant \in BOOLEAN
    /\ EKS \in BOOLEAN
    /\ InitObjs \subseteq Objects
    /\ Toggle \subseteq Objects
    /\ InitLC \in LCRec
    /\ LCSpecs \subseteq LCRec
    /\ MaxChanges \in Nat
    /\ MaxErrors \in Nat
    /\ NoCfg \notin Cfgs
    /\ ErrStages \subseteq Stages

VARIABLES
    objs, lc, tierWatchReady, licenseAPIReady, dsAvailable,
    queue, retry, status, tigeraStatus, crConditions, crReady,
    applied, rendered, changes, errors

vars == <<objs, lc, tierWatchReady, licenseAPIReady, dsAvailable, queue,
          retry, status, tigeraStatus, crConditions, crReady, applied,
          rendered, changes, errors>>

TypeOK ==
    /\ objs \subseteq Objects
    /\ lc \in LCRec
    /\ tierWatchReady \in BOOLEAN
    /\ licenseAPIReady \in BOOLEAN
    /\ dsAvailable \in BOOLEAN
    /\ queue \subseteq Keys
    /\ retry \subseteq Keys
    /\ status \in [found: BOOLEAN, reason: Reasons]
    /\ tigeraStatus \in [exists: BOOLEAN, reason: Reasons]
    /\ crConditions \in Reasons
    /\ crReady \in BOOLEAN
    /\ applied \in [Comps -> Cfgs \cup {NoCfg}]
    /\ rendered \in Cfgs \cup {NoCfg}
    /\ changes \in 0..MaxChanges
    /\ errors \in 0..MaxErrors
-----------------------------------------------------------------------------
(* The objects whose changes enqueue a request: the watches of add() and  *)
(* of Add(), the deferred tier and license watches once established.       *)
WatchedObjs ==
    {"APIServer", "Installation", "PromCert", "LinseedCert", "VoltronCert",
     "S3Secret", "SplunkSecret", "ESConfig", "EksSecret", "WindowsNode",
     "NCH"}
    \cup (IF MultiTenant THEN {"Tenant"} ELSE {})
    \cup (IF tierWatchReady THEN {"Tier"} ELSE {})
    \cup (IF licenseAPIReady THEN {"License", "ExportLogs"} ELSE {})

Managed == "MCC" \in objs
MultiTenantManagement == MultiTenant /\ "MC" \in objs
EksLogs == EKS /\ lc.eksLog

(* The secret holding the Linseed certificate fluentd must trust.          *)
LinseedObj ==
    IF Managed THEN "VoltronCert"
    ELSE IF MultiTenantManagement THEN "TenantLinseedCert"
    ELSE "LinseedCert"

(* The fluentd configuration the handler renders (FluentdConfiguration).   *)
CfgOf ==
    [stores     |-> lc.stores,
     syslogCert |-> "Syslog" \in lc.stores /\ lc.syslogTLS /\ "SyslogCA" \in objs,
     managed    |-> Managed,
     eks        |-> EksLogs /\ "EksSecret" \in objs,
     pcap       |-> "PacketCapture" \in objs,
     nch        |-> "NCH" \in objs,
     tenant     |-> ~Managed /\ MultiTenantManagement,
     windows    |-> "WindowsNode" \in objs]

(* The Windows rendering has no Tenant, PacketCapture or NonClusterHost.   *)
WinCfg(c) == [c EXCEPT !.pcap = FALSE, !.nch = FALSE, !.tenant = FALSE]

CompCfg(c, comp) == IF comp = "fluentdWindows" THEN WinCfg(c) ELSE c

(* Stages that read from or write to the API server on request key k, and *)
(* so may fail with an error.                                              *)
Reads(k) ==
    [TigeraStatus |-> k = TSKey, ConditionsUpdate |-> k = TSKey,
     Defaults |-> ~lc.defaulted, APIServer |-> FALSE, TierWatch |-> FALSE,
     Tier |-> TRUE, LicenseAPI |-> FALSE, License |-> TRUE,
     Installation |-> TRUE, Dependencies |-> TRUE, PromCert |-> TRUE,
     MTNamespace |-> FALSE, MTNamespaceUnset |-> FALSE,
     Tenant |-> ~Managed /\ MultiTenantManagement, LinseedCert |-> TRUE,
     TrustedBundle |-> TRUE, ExportLogs |-> FALSE,
     S3 |-> "S3" \in lc.stores, Splunk |-> "Splunk" \in lc.stores,
     SyslogCert |-> "Syslog" \in lc.stores /\ lc.syslogTLS,
     SyslogIDS |-> FALSE, Filters |-> TRUE, ESConfig |-> EksLogs,
     EksConfig |-> EksLogs, OptionalInputs |-> TRUE, ImageSet |-> TRUE,
     ApplySetup |-> TRUE, ApplyFluentd |-> TRUE, ApplyCerts |-> TRUE,
     WindowsNodes |-> TRUE, WinImageSet |-> "WindowsNode" \in objs,
     ApplyWindows |-> "WindowsNode" \in objs, Available |-> FALSE,
     StatusUpdate |-> TRUE]

(* Stages that stop the pass on what they read, without an API error.      *)
Fails(k) ==
    [TigeraStatus |-> k = TSKey /\ ~tigeraStatus.exists,
     ConditionsUpdate |-> FALSE, Defaults |-> FALSE,
     APIServer |-> "APIServer" \notin objs,
     TierWatch |-> ~tierWatchReady, Tier |-> "Tier" \notin objs,
     LicenseAPI |-> ~licenseAPIReady, License |-> "License" \notin objs,
     Installation |-> "Installation" \notin objs, Dependencies |-> FALSE,
     PromCert |-> "PromCert" \notin objs,
     MTNamespace |-> lc.mtNS /\ ~MultiTenantManagement,
     MTNamespaceUnset |-> ~Managed /\ MultiTenantManagement /\ ~lc.mtNS,
     Tenant |-> ~Managed /\ MultiTenantManagement /\ "Tenant" \notin objs,
     LinseedCert |-> LinseedObj \notin objs, TrustedBundle |-> FALSE,
     ExportLogs |-> lc.stores # {} /\ "ExportLogs" \notin objs,
     S3 |-> "S3" \in lc.stores /\ "S3Secret" \notin objs,
     Splunk |-> "Splunk" \in lc.stores /\ "SplunkSecret" \notin objs,
     SyslogCert |-> FALSE,
     SyslogIDS |-> "Syslog" \in lc.stores /\ lc.syslogIDS /\ Managed,
     Filters |-> FALSE, ESConfig |-> EksLogs /\ "ESConfig" \notin objs,
     EksConfig |-> FALSE, OptionalInputs |-> FALSE, ImageSet |-> FALSE,
     ApplySetup |-> FALSE, ApplyFluentd |-> FALSE, ApplyCerts |-> FALSE,
     WindowsNodes |-> FALSE, WinImageSet |-> FALSE, ApplyWindows |-> FALSE,
     Available |-> ~dsAvailable, StatusUpdate |-> FALSE]

(* e is the stage whose API call fails in this pass, or "none".  The pass *)
(* halts at the first stage that fails, or runs to the end ("Done").       *)
HaltSet(k, e) ==
    LET F == Fails(k)
        R == Reads(k)
    IN  {n \in Stages : F[n] \/ (R[n] /\ e = n)}
FirstStage(k, e) ==
    LET H == HaltSet(k, e) IN
    IF H = {} THEN "Done"
    ELSE CHOOSE n \in H : \A m \in H : Rank[n] <= Rank[m]

(* The rank of the halting stage s (EndRank follows the last stage); a    *)
(* pass that halts at s got past stage n.                                  *)
EndRank == 35
Pos(s) == IF s = "Done" THEN EndRank ELSE Rank[s]
Passed(s, n) == Rank[n] < Pos(s)

(* SetDegraded was called / the key goes back to the queue later.         *)
Degrades(s) == s # "Done" /\ s \notin NonDegrading
Requeues(s, e) == s # "Done" /\ (s = e \/ s \notin DoneOnFail)
-----------------------------------------------------------------------------
Init ==
    /\ objs = InitObjs
    /\ lc = InitLC
    /\ tierWatchReady = FALSE
    /\ licenseAPIReady = FALSE
    /\ dsAvailable = FALSE
    /\ queue = {CRKey}
    /\ retry = {}
    /\ status = [found |-> FALSE, reason |-> "Unset"]
    /\ tigeraStatus = [exists |-> FALSE, reason |-> "Unset"]
    /\ crConditions = "Unset"
    /\ crReady = FALSE
    /\ applied = [c \in Comps |-> NoCfg]
    /\ rendered = NoCfg
    /\ changes = 0
    /\ errors = 0

(* Reconcile, LogCollector not found: OnCRNotFound, Result{}.              *)
ReconcileNotFound(k) ==
    /\ k \in queue
    /\ ~lc.exists
    /\ queue' = queue \ {k}
    /\ status' = [found |-> FALSE, reason |-> "Unset"]
    /\ UNCHANGED <<objs, lc, tierWatchReady, licenseAPIReady, dsAvailable,
                   retry, tigeraStatus, crConditions, crReady, applied,
                   rendered, changes, errors>>

(* The state a pass on key k that halts at stage s leaves behind.        *)
NewLC(s) ==
    IF Passed(s, "Defaults") THEN [lc EXCEPT !.defaulted = TRUE] ELSE lc
NewConditions(k, s) ==
    IF k = TSKey /\ Passed(s, "ConditionsUpdate")
    THEN tigeraStatus.reason ELSE crConditions
NewReady(s) == crReady \/ Passed(s, "StatusUpdate")
NewRendered(s) == IF Rank["ImageSet"] <= Pos(s) THEN CfgOf ELSE rendered
NewApplied(s) ==
    [c \in Comps |->
        IF /\ Passed(s, ApplyStage[c])
           /\ c \in LinuxComps \/ CfgOf.windows
        THEN CompCfg(CfgOf, c) ELSE applied[c]]
(* Mutant: the apply loop returns its error without SetDegraded.          *)
NewReasonNoDegrade(s) ==
    IF Passed(s, "ApplyWindows") THEN "Cleared"
    ELSE IF Degrades(s) /\ Rank[s] < Rank["ApplySetup"] THEN s
    ELSE status.reason
NewReason(s) ==
    IF Passed(s, "ApplyWindows") THEN "Cleared"
    ELSE IF Degrades(s) THEN s
    ELSE status.reason
NewStatus(s) == [found |-> TRUE, reason |-> NewReason(s)]

(* Reconcile with the CR found: OnCRFound, then the stages up to the first *)
(* that fails.  Writes to the CR (defaults patch, conditions, Ready) are   *)
(* seen by the LogCollector watch and enqueue the CR's key again.  API     *)
(* errors are injected at the stages of ErrStages.                         *)
Reconcile(k) ==
    /\ k \in queue
    /\ lc.exists
    /\ \E e \in {n \in ErrStages : Reads(k)[n]} \cup {"none"} :
       /\ e # "none" => errors < MaxErrors
       /\ LET s == FirstStage(k, e) IN
          /\ lc' = NewLC(s)
          /\ crConditions' = NewConditions(k, s)
          /\ crReady' = NewReady(s)
          /\ rendered' = NewRendered(s)
          /\ applied' = NewApplied(s)
          /\ status' = NewStatus(s)
          /\ queue' = (queue \ {k}) \cup
                       (IF \/ NewLC(s) # lc
                           \/ NewConditions(k, s) # crConditions
                           \/ NewReady(s) # crReady
                        THEN {CRKey} ELSE {})
          /\ retry' = IF Requeues(s, e) THEN retry \cup {k} ELSE retry
          /\ errors' = IF e = "none" THEN errors ELSE errors + 1
    /\ UNCHANGED <<objs, tierWatchReady, licenseAPIReady, dsAvailable,
                   tigeraStatus, changes>>
-----------------------------------------------------------------------------
(* The delayed queue hands a RequeueAfter or rate-limited key back.        *)
RetryFire(k) ==
    /\ k \in retry
    /\ retry' = retry \ {k}
    /\ queue' = queue \cup {k}
    /\ UNCHANGED <<objs, lc, tierWatchReady, licenseAPIReady, dsAvailable,
                   status, tigeraStatus, crConditions, crReady, applied,
                   rendered, changes, errors>>

(* The status manager's loop mirrors its state into the TigeraStatus       *)
(* whenever the two differ; the TigeraStatus watch enqueues ResourceName.  *)
StatusManagerSync ==
    /\ tigeraStatus # [exists |-> TRUE, reason |-> status.reason]
    /\ tigeraStatus' = [exists |-> TRUE, reason |-> status.reason]
    /\ queue' = queue \cup {TSKey}
    /\ UNCHANGED <<objs, lc, tierWatchReady, licenseAPIReady, dsAvailable,
                   retry, status, crConditions, crReady, applied, rendered,
                   changes, errors>>

(* WaitToAddTierWatch / WaitToAddLicenseKeyWatch succeed: the ready flag   *)
(* is set and the new watch's initial list enqueues an existing object.    *)
TierWatchEstablished ==
    /\ ~tierWatchReady
    /\ tierWatchReady' = TRUE
    /\ queue' = queue \cup (IF "Tier" \in objs THEN {CRKey} ELSE {})
    /\ UNCHANGED <<objs, lc, licenseAPIReady, dsAvailable, retry, status,
                   tigeraStatus, crConditions, crReady, applied, rendered,
                   changes, errors>>

LicenseWatchEstablished ==
    /\ ~licenseAPIReady
    /\ licenseAPIReady' = TRUE
    /\ queue' = queue \cup (IF "License" \in objs THEN {CRKey} ELSE {})
    /\ UNCHANGED <<objs, lc, tierWatchReady, dsAvailable, retry, status,
                   tigeraStatus, crConditions, crReady, applied, rendered,
                   changes, errors>>
-----------------------------------------------------------------------------
(* The environment: users and other controllers change the cluster.        *)
ToggleObject(o) ==
    /\ changes < MaxChanges
    /\ objs' = IF o \in objs THEN objs \ {o} ELSE objs \cup {o}
    /\ queue' = IF o \in WatchedObjs THEN queue \cup {CRKey} ELSE queue
    /\ changes' = changes + 1
    /\ UNCHANGED <<lc, tierWatchReady, licenseAPIReady, dsAvailable, retry,
                   status, tigeraStatus, crConditions, crReady, applied,
                   rendered, errors>>

(* A user creates or edits the LogCollector; a created CR has no status.   *)
WriteLogCollector(s) ==
    /\ changes < MaxChanges
    /\ s.exists
    /\ lc' = s
    /\ crReady' = (lc.exists /\ crReady)
    /\ crConditions' = IF lc.exists THEN crConditions ELSE "Unset"
    /\ queue' = queue \cup {CRKey}
    /\ changes' = changes + 1
    /\ UNCHANGED <<objs, tierWatchReady, licenseAPIReady, dsAvailable, retry,
                   status, tigeraStatus, applied, rendered, errors>>

DeleteLogCollector ==
    /\ changes < MaxChanges
    /\ lc.exists
    /\ lc' = [lc EXCEPT !.exists = FALSE]
    /\ queue' = queue \cup {CRKey}
    /\ changes' = changes + 1
    /\ UNCHANGED <<objs, tierWatchReady, licenseAPIReady, dsAvailable, retry,
                   status, tigeraStatus, crConditions, crReady, applied,
                   rendered, errors>>

(* The fluentd daemonset finishes or loses its rollout (not watched).      *)
DaemonSetRollout ==
    /\ changes < MaxChanges
    /\ dsAvailable' = ~dsAvailable
    /\ changes' = changes + 1
    /\ UNCHANGED <<objs, lc, tierWatchReady, licenseAPIReady, queue, retry,
                   status, tigeraStatus, crConditions, crReady, applied,
                   rendered, errors>>

(* Mutant: the Node watch filters out status-only updates (as a           *)
(* GenerationChangedPredicate would).                                      *)
NodeStatusUpdateFiltered ==
    UNCHANGED vars

(* The kubelet reports the Node's status (every nodeStatusReportFrequency, *)
(* five minutes by default): the Node watch of add() has no predicate, so  *)
(* each update enqueues a request.  A cluster always has a Node.           *)
NodeStatusUpdate ==
    /\ queue' = queue \cup {CRKey}
    /\ UNCHANGED <<objs, lc, tierWatchReady, licenseAPIReady, dsAvailable,
                   retry, status, tigeraStatus, crConditions, crReady, applied,
                   rendered, changes, errors>>

(* The operator restarts: in-memory state is lost, the cluster persists,   *)
(* and the initial list of every watch enqueues again.                     *)
OperatorRestart ==
    /\ changes < MaxChanges
    /\ tierWatchReady' = FALSE
    /\ licenseAPIReady' = FALSE
    /\ status' = [found |-> FALSE, reason |-> "Unset"]
    /\ queue' = {CRKey} \cup (IF tigeraStatus.exists THEN {TSKey} ELSE {})
    /\ retry' = {}
    /\ changes' = changes + 1
    /\ UNCHANGED <<objs, lc, dsAvailable, tigeraStatus, crConditions, crReady,
                   applied, rendered, errors>>
-----------------------------------------------------------------------------
(* A worker takes key k from the queue and runs the handler on it.         *)
Process(k) == ReconcileNotFound(k) \/ Reconcile(k)

Controller ==
    \/ \E k \in Keys : Process(k) \/ RetryFire(k)
    \/ StatusManagerSync
    \/ TierWatchEstablished
    \/ LicenseWatchEstablished

Environment ==
    \/ \E o \in Toggle : ToggleObject(o)
    \/ \E s \in LCSpecs : WriteLogCollector(s)
    \/ DeleteLogCollector
    \/ DaemonSetRollout
    \/ OperatorRestart
    \/ NodeStatusUpdate

Next == Controller \/ Environment

(* Workers drain the queue, delayed requeues fire and the status manager   *)
(* loop runs: each is weakly fair, and so is the kubelet's periodic Node   *)
(* status report.  The rest of the environment is not.  Process(k) is     *)
(* enabled exactly when k is queued (the pass with no injected error is    *)
(* always possible and changes the queue), so its weak fairness is written *)
(* with that state predicate in place of ENABLED.                          *)
Fairness ==
    /\ \A k \in Keys : []<>(k \notin queue) \/ []<><<Process(k)>>_vars
    /\ \A k \in Keys : WF_vars(RetryFire(k))
    /\ WF_vars(StatusManagerSync)
    /\ WF_vars(NodeStatusUpdate)

Spec == Init /\ [][Next]_vars
FairSpec == Spec /\ Fairness
-----------------------------------------------------------------------------
(* Properties.                                                             *)

(* While the status manager shows the degraded bit cleared by a pass      *)
(* (ClearDegraded), every Linux component the reconciler manages (setup,  *)
(* fluentd, certificate management) is deployed from the latest rendering: *)
(* a partial apply of CreateOrUpdateOrDelete is never reported healthy.    *)
HealthyMeansApplied ==
    status.reason = "Cleared" => \A c \in LinuxComps : applied[c] = rendered

(* The same for the Windows fluentd: while the degraded bit is cleared and *)
(* the cluster of the latest rendering has Windows nodes, the Windows      *)
(* daemonset is deployed from that rendering.                              *)
HealthyMeansWindowsApplied ==
    status.reason = "Cleared" /\ rendered # NoCfg /\ rendered.windows
        => applied["fluentdWindows"] = WinCfg(rendered)

(* The LogCollector's Status.State is Ready only while the controller is   *)
(* not degraded.                                                            *)
CRReadyMeansHealthy ==
    lc.exists /\ crReady => status.reason \notin Stages \ NonDegrading

(* A fresh pass, on either key and without an API error, would change      *)
(* nothing, and the TigeraStatus shows the status manager's state.  The    *)
(* conditions copied into the CR are left out: whether the TigeraStatus    *)
(* watch fires again after the CR is recreated depends on what the status  *)
(* manager writes, which this model does not describe.                     *)
Settled ==
    /\ tigeraStatus = [exists |-> TRUE, reason |-> status.reason]
    /\ IF lc.exists
       THEN /\ status.found
            /\ \A k \in Keys :
                 LET s == FirstStage(k, "none") IN
                 /\ NewLC(s) = lc
                 /\ NewReady(s) = crReady
                 /\ NewRendered(s) = rendered
                 /\ NewApplied(s) = applied
                 /\ NewReason(s) = status.reason
       ELSE ~status.found

(* The control loop converges: once the cluster stops changing, the       *)
(* watches and requeues bring the controller to a state that a new         *)
(* reconcile would not change, and it stays there.                         *)
Converges == <>[]Settled
=============================================================================
