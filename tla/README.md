# Verification of the operator's reconcile loops

TLA+ models of the operator's controllers. They are model-checked with TLC and, where the
prover can reach, proved with TLAPS. The sources are under `../src`:

- `src/pkg/controller/logcollector/logcollector_controller.go` holds the LogCollector
  controller.
- `src/unnamed/part_002` holds the APIServer controller.
- `src/unnamed/part_000` holds three things: developer documentation, the apiserver render
  tests and the Typha renderer.
- `src/unnamed/part_001` holds the generated PacketCapture CRD.

## 1. The system and its parts

Each controller is a controller-runtime reconcile loop. Three pieces of machinery are shared:

- **Watches.** A watch (`add()`) turns a change of a watched object into a request key on a
  workqueue. The workqueue deduplicates keys.
- **Requeues.** A worker calls `Reconcile(key)`. The result decides what happens next:
  - `RequeueAfter` puts the key back after a delay;
  - a non-nil error puts it back rate-limited;
  - `Result{}` with a nil error drops it.
- **The status manager.** It records whether the CR exists (`OnCRFound`/`OnCRNotFound`) and
  whether the controller is degraded (`SetDegraded`/`ClearDegraded`). It reads the rollout
  state of the daemonsets (`IsAvailable`). A loop of its own mirrors this into the
  TigeraStatus object.

The **LogCollector controller** waits for two kinds of prerequisite:

- the API server (`IsAPIServerReady`);
- the tier and license watches, which are added late by goroutines started in `Add`.

Its handler, `Reconcile`, is one long sequence of stages:

1. It copies the TigeraStatus conditions into the CR, but only for the TigeraStatus key.
2. It patches the CR's defaults.
3. It reads the tier, the license, the Installation, the management-cluster objects, the
   certificates, the Linseed certificate (whose location depends on managed or multi-tenant
   mode), the store credentials (S3, Splunk, syslog CA), the filters and the EKS config.
4. It renders fluentd, applies three Linux components, and then applies the Windows fluentd
   if there are Windows nodes.
5. It calls `ClearDegraded`, checks availability, and writes `Status.State = Ready`.

Every stage may return early. It does so in one of three ways:

- degraded with `RequeueAfter`;
- degraded with an error (rate-limited retry);
- degraded with `Result{}`/nil (no retry).

The **APIServer controller** interacts with the LogCollector through `IsAPIServerReady`. Its
finalizer is on the Installation, and it renders the tier's policies. The **Typha renderer**
derives the deployment's progress deadline from the termination grace period.

## 2. Modules

| Module | Models |
|---|---|
| `LogCollector.tla` | The LogCollector controller, the workqueue and watches, the parts of the status manager it uses, and the cluster as the environment. |
| `MC_LogCollector.tla` | Small instances for TLC: a healthy standalone cluster, two CR specs, and the sets of fallible API calls. |
| `LogCollector_proofs.tla` | TLAPS proofs of `TypeOK` and `HealthyMeansApplied` for all constants. |
| `APIServer.tla` | The APIServer controller (`part_002`), its finalizer on the Installation, the calico-apiserver deployment, the deferred tier watch and the periodic reconcile. |
| `MC_APIServer.tla` | Small instances of `APIServer` for TLC. |
| `APIServer_proofs.tla` | TLAPS proofs of `TypeOK` and `FinalizerGuardsDeployment` for all constants. |
| `InstallationTeardown.tla` | The abstract finalizer protocol the APIServer controller promises: hold, deploy, undeploy, release, delete, create. |
| `InstallationTeardown_proofs.tla` | The TLAPS proof that the abstract protocol keeps `Protected` in every state. |
| `APIServerTeardown_proofs.tla` | The TLAPS proof that `APIServer` implements `InstallationTeardown`, and the abstract invariant carried over through the mapping. |
| `APIServerStall_proofs.tla` | The TLAPS proof of the `api_policy` finding for all constants: a blocked API server is never repaired by the controller. |
| `TyphaFixUps.tla` | `applyPostOverrideFixUps` of the Typha renderer (`part_000`): the progress deadline derived from the grace period, with Go's integer widths. |
| `MC_TyphaFixUps.tla` | Scaled widths for TLC, and reference checks of the wrap-around and of Go's division. |
| `TyphaFixUps_proofs.tla` | TLAPS proofs of the deadline bound at int32, and of the exact point where it fails. |

### State of `LogCollector`

The cluster:

- `objs` is the set of objects the handler reads that exist (`Objects`).
- `lc` is the LogCollector CR: whether it exists, the spec fields the handler branches on, and
  whether `fillDefaults` has nothing left to set.
- `dsAvailable` is the fluentd daemonset rollout state that `IsAvailable` reports.

The controller's memory, which is lost on restart:

- `tierWatchReady` and `licenseAPIReady` are the `ReadyFlag`s.
- `status` holds the status manager's `found` bit and its reason: a stage name for
  `SetDegraded`, `Cleared` for `ClearDegraded`, or `Unset`.
- `queue` and `retry` are the workqueue and its delayed part, over the two keys:
  - `tigera-secure` is the CR name. Every watch but one enqueues it, and `Reconcile` ignores
    the key's name.
  - `log-collector` is enqueued by the TigeraStatus watch. It is the only key on which the
    conditions are copied.

What the handler writes:

- `crConditions` and `crReady` are the CR's status.
- `rendered` is the last fluentd configuration rendered.
- `applied` is the configuration each of the four components was last deployed with.
- `tigeraStatus` is written by the status manager.

Bounds: `changes` and `errors` count environment changes and injected API errors. They are
bounded by `MaxChanges` and `MaxErrors`.

### Actions of `LogCollector`

**`Reconcile(k)`** is one whole call of the handler. The stages are the record `Rank`, in code
order, and two functions describe each stage from the state:

- `Reads(k)` says whether the stage makes an API call that may fail (`Get`, `Patch`, `Update`,
  `CreateOrUpdateOrDelete`).
- `Fails(k)` says whether it returns early on what it read: a missing object, a flag not
  ready, a validation error.

An API error is injected at one stage of the constant set `ErrStages`. The pass halts at
`FirstStage`, the least-ranked stage in `HaltSet`. Its effects are functions of the halting
stage:

- `NewLC` is the defaults patch.
- `NewConditions` is the conditions copy.
- `NewRendered` and `NewApplied` are the render and the apply loops. A component is deployed
  when the pass got past its apply stage.
- `NewReason` is `ClearDegraded` once the Windows apply is passed. It is the halting stage when
  that stage calls `SetDegraded`. Otherwise the reason is unchanged: the `NonDegrading` returns
  (conditions update, `HasWindowsNodes`, `IsAvailable` and the final status update) call no
  `SetDegraded`.
- `NewReady` is the `Status.State` write.
- `Requeues` is the result. No retry happens only for the `DoneOnFail` returns (`Result{}`/nil)
  without an API error.

Writes to the CR enqueue the CR key again, because the CR's own watch sees them.

The other actions:

- `ReconcileNotFound(k)` is the not-found branch (`OnCRNotFound`).
- `RetryFire` fires a delayed requeue.
- `StatusManagerSync` is the status manager's loop. The TigeraStatus watch then enqueues
  `log-collector`.
- `TierWatchEstablished` and `LicenseWatchEstablished` are the goroutines of `Add`. Their
  watch's initial list enqueues the CR key if the object exists.

The environment:

- `ToggleObject` creates or deletes an object. Only the objects of `WatchedObjs` enqueue.
- `WriteLogCollector` and `DeleteLogCollector` change the CR.
- `DaemonSetRollout` changes the daemonset's rollout state.
- `OperatorRestart` resets the in-memory state. The cluster persists, and the initial lists
  enqueue again.
- `NodeStatusUpdate` is the kubelet's periodic Node status report (every
  `nodeStatusReportFrequency`, five minutes by default). The Node watch of `add()`
  (line 151) has no predicate, so every update enqueues the CR key. A cluster always has a
  Node, so this event never stops.

## 2b. The APIServer model (`APIServer.tla`)

**State.**

- `cr`: the APIServer CR exists and passes `validateAPIServerResource`.
- `inst`: the Installation: exists, `Spec.Variant`, deletion timestamp set, the APIServer
  finalizer present.
- `objs`: the Tier, ManagementCluster, ManagementClusterConnection, an Authentication that is
  Ready with Dex, and the Dex TLS secret.
- `deploy`: the `calico-system/calico-apiserver` deployment: absent, not serving (`down`),
  rolling out, up. The v3 API (Tier, NetworkPolicy) answers only while it is `up`.
- `policyApplied`: the allow-tigera NetworkPolicy was applied.
- `tierWatchReady`: the ReadyFlag set by `WaitToAddTierWatch`.
- `queued`, `retry`: a request is queued; a rate-limited or `RequeueAfter` retry is pending.
  Every watch maps to the same reconcile, so one Boolean stands for the queue.
- `pc`, `incl`: a pass is between its reads and its `maintainFinalizer` call, and the
  `includeV3NetworkPolicy` it computed.
- `status`, `crReady`: the status manager's degraded reason, and `Status.State = Ready` on the CR.

**Actions.** A pass is two steps. `ReconcileRead` runs lines 224-436: GetAPIServer,
validation, GetInstallation, the variant check (nil return, no retry), the certificates and
pull secrets, the enterprise reads, the MC/MCC conflict, the tier query, the Dex secret (nil
return) and `PopulateK8sServiceEndPoint`. `ReconcileFinish` runs lines 437-521:
`maintainFinalizer`, the ImageSet, the apply loop in the order the code builds it (policy,
APIServer, certificate management), `ClearDegraded`, `IsAvailable` (`RequeueAfter`) and the CR
status update. The split is at `maintainFinalizer` because it re-reads the Installation.
`ReconcileNotFound` is lines 228-235. `MaintainFinalizer` follows the comment of
`maintainFinalizer` (the helper `MaintainInstallationFinalizer` is not under `src`): add the
finalizer while the CR exists; otherwise remove it only once the deployment is gone.
The environment creates, edits and deletes the CR, deletes and recreates the Installation,
sets its variant, toggles objects, breaks the running deployment, rolls it out,
garbage-collects what a deleted CR owned, and restarts the operator. Only watched objects
enqueue. The rendered deployment is not one of the two deployments `add` watches (lines
168-173), so its changes enqueue nothing.

**Properties.**

- `FinalizerGuardsDeployment`: while the deployment exists, the Installation exists and carries
  the finalizer.
- `FinalizerReleased`: after the CR is deleted, the finalizer is eventually removed (or the CR
  returns).
- `Converges`: once the cluster stops changing, a healthy input ends with the deployment up,
  the policy applied when included, the degraded bit cleared and the CR Ready.

- `TeardownSpec`: the refinement. `Teardown` is `InstallationTeardown` instantiated with
  `installed <- inst.exists`, `held <- inst.finalizer`, `deleting <- inst.deleting` and
  `served <- deploy # "absent"`. Every step of the model is one of the protocol's steps or a
  stutter. The finishing half of a pass is a `Hold`, possibly with the deployment created in
  the same step. The not-found pass is a `Release`. The garbage collector is an `Undeploy`.
  `TeardownSpec` says more than `FinalizerGuardsDeployment`: it also says that the finalizer is
  released only once the deployment is gone, that a deletion finishes only through that
  release, and that a re-created Installation starts without the finalizer.

**Bounds.** Up to 4 environment changes, and one failing API call at any stage that makes one.
This covers deleting the CR and the Installation, recreating them, breaking the deployment and
a restart, in every order.

**Fairness.** The same controller-runtime scheduling as the LogCollector: the worker, the retry
timers, the periodic ticker (`AddPeriodicReconcile`, line 193), the tier watch goroutine, the
kubelet rollout and the garbage collector all keep running. Nothing is fair for the
environment.

**Findings.**

- **`api_policy`: the policy is applied first.**
  - The comment at lines 470-472 says policies are rendered last, so that re-applying the
    API server can repair it.
  - The code appends `APIServerPolicy` first (line 474).
  - So whenever the API server is absent or broken while the Tier is cached, every pass
    fails on the policy before it re-applies the deployment, forever.
  - This assumes the tier query is served from the informer cache while the API server is
    down. The controller's client is the manager's split client, which reads from the cache.
  - The same run shows the second finding below; TLC's trace is the one described there.
- **`api_race`: the Installation deleted mid-pass.**
  - If the Installation is deleted after `GetInstallation` (line 265) and before
    `maintainFinalizer` (line 438), the helper finds nothing to hold and returns nil.
  - The pass then creates the deployment with no Installation left.
  - `api_safety` shows that without this interleaving the finalizer protocol holds.
- **`api_policy` (second finding): a re-created APIServer CR never gets its API server back.**
  - The comment at lines 372-376 says that NetworkPolicy is left out while the tier watch is
    not ready, so that errors from an unavailable API server are tolerated.
  - The `ReadyFlag` is set once by `WaitToAddTierWatch` and never cleared.
  - The trace: the CR is deleted and its deployment garbage-collected, then the CR is
    re-created. The cached Tier is found, so the policy is included. It comes first in the
    apply loop (line 473) and fails against the absent v3 API. The pass returns before it
    applies the deployment.
  - The API server stays down until the operator restarts. No fault is needed: deleting and
    re-creating the CR is enough. The root is the order at line 473; the sticky flag is what
    lets it bite after start-up.
- **Releasing the finalizer relies on the periodic reconcile.** `api_converge` passes only
  because of the periodic reconcile: the garbage collector's deletion of the deployment is not
  watched.

## 2c. The Typha fix-up model (`TyphaFixUps.tla`)

`typhaDeployment` builds the Deployment with a termination grace period of 300 s
(`defaultTyphaTerminationGracePeriod`) and no progress deadline. The user's `TyphaDeployment`
overrides may then replace the grace period. `applyPostOverrideFixUps` derives the deadline:
`int32(terminationGracePeriod * 120 / 100)`, raised to 600, set when the deadline is nil or
smaller.

- **State.** `grace` and `deadline` of the last render. Every reconcile re-renders from
  scratch, so a render is one step: `RenderDefault` (no overrides) or `RenderOverride(g)` for
  `g` in `Graces`.
- **Arithmetic.** It is Go's. `Wrap(x, b)` is the b-bit two's-complement value of `x`, that is
  the representative of `x` modulo `2^b` in `-2^(b-1) .. 2^(b-1)-1`. It models both the int64
  product and the `int32()` conversion. `Quot` is Go's division, truncating toward zero.
  `MC_TyphaFixUps` checks both against their definitions (`WrapReference`, `QuotReference`).
- **Widths.** TLC's integers are 32-bit, so the runs use widths 24 and 12. The int12 deadline
  wraps when 120% of the grace reaches `2^11`, as the int32 one does at `2^31`.
  `TyphaFixUps_proofs` states the facts at int32.
- **Property.** `DeadlineCoversGrace`: the deadline is at least 600 s and at least 120% of the
  grace period (exact integers). This is what the comment at lines 3116-3117 promises.
- **Not modelled.** The copy of the grace period into `TYPHA_SHUTDOWNTIMEOUTSECS` is a decimal
  formatting that no property reads. Also left out is the user's own
  `ProgressDeadlineSeconds`: the deployment built at lines 2993-3068 sets none, and the
  overrides code (`ApplyDeploymentOverrides`) is not under `src`. So the fix-up always starts
  from nil. `ProgressDeadline` still models the `<` branch.
- **Finding (`typha_wrap`).** For a grace period of 1789569707 s or more, the int32 conversion
  wraps. At exactly that value, 120% is `2^31`, which becomes `-2^31`, and the floor sets the
  deadline to 600 s. The value is absurd for a real cluster, but nothing bounds it: the code
  has no check.

## 3. Runs

| Run | cfg | Checks | Result |
|---|---|---|---|
| `lc_safety` | `LogCollector_safety.cfg` | `HealthyMeansApplied` | pass, about 100k states |
| `lc_converge` | `LogCollector_converge.cfg` | `Converges` under `FairSpec` | pass, about 99k states |
| `lc_unwatched` | `LogCollector_unwatched.cfg` | `Converges` under `FairSpec`, the syslog CA toggled | pass, about 15k states |
| `lc_windows` | `LogCollector_windows.cfg` | `HealthyMeansWindowsApplied` | violation (finding) |
| `lc_ready` | `LogCollector_ready.cfg` | `CRReadyMeansHealthy` | violation (finding) |
| `api_safety` | `APIServer_safety.cfg` | `FinalizerGuardsDeployment` | pass, about 110k states |
| `api_race` | `APIServer_race.cfg` | `FinalizerGuardsDeployment`, with a mid-pass Installation delete | violation (finding) |
| `api_converge` | `APIServer_converge.cfg` | `Converges`, `FinalizerReleased` under `FairSpec` | pass, about 15k states |
| `api_policy` | `APIServer_policy.cfg` | `Converges`: Enterprise, the CR deleted and re-created | violation (two findings) |
| `api_teardown` | `APIServer_teardown.cfg` | `TeardownSpec`, with the `api_safety` bounds | pass, about 110k states |
| `typha_fit` | `TyphaFixUps_fit.cfg` | `DeadlineCoversGrace` for grace 0..1706 at widths 24/12 | pass, 1706 states |
| `typha_wrap` | `TyphaFixUps_wrap.cfg` | `DeadlineCoversGrace` for grace 0..2100 at widths 24/12 | violation (finding) |

### The properties

- **`HealthyMeansApplied`.** While the status manager holds `Cleared`, all three Linux
  components are deployed from the last rendering.
  - It relates the status written at the end of one pass to the apply loop of the same pass.
  - It also covers later passes that fail at non-degrading stages.
  - Breaking it takes a successful pass, a change of the inputs, and a pass that fails in the
    middle of the apply loop, or after it without degrading.
- **`Converges`** (`<>[]Settled`). Once the environment stops, the controller reaches a state
  that a fresh error-free pass on either key would not change, and stays there. The
  TigeraStatus must also match the status manager.
  - It needs every input the handler reads to be covered by a watch, or else by a later event
    such as a Node status report.
  - It needs the requeues, or the periodic Node status reports, to cover every early return
    that waits on something unwatched.
  - It needs the deferred watches to enqueue once they are added.
- **`HealthyMeansWindowsApplied`** is the same as `HealthyMeansApplied`, for the Windows
  daemonset.
- **`CRReadyMeansHealthy`.** The CR reads Ready only while the controller is not degraded.

### Bounds

`lc_safety` uses these bounds:

- two environment changes (`MaxChanges = 2`) from the license, the API server, CR writes,
  deletes, the daemonset rollout and restarts;
- one API error (`MaxErrors = 1`) at any of six stages, one in each phase of the handler:
  - the conditions update;
  - the defaults patch;
  - a prerequisite read (license);
  - the apply loop;
  - the Windows node list;
  - the final status write.

This reaches every case of the health argument:

- a failure before rendering;
- a failure in the apply loop after a successful pass;
- a failure at `HasWindowsNodes`, a restart between passes, and a CR edit that changes the
  rendering.

It does not reach a second independent failure. The proof covers that for
`HealthyMeansApplied`.

`lc_converge` toggles the license and a Windows node. The Windows node makes the Windows
stages and the Windows apply fire.

`lc_unwatched` starts from a CR with syslog output and toggles the syslog CA ConfigMap, which
`getSysLogCertificate` (line 833) reads and no watch of the controller names. The change is
rolled out all the same, at the latest on the next Node status report: the run shows that
the unfiltered Node watch is what bounds the delay. With the Node watch filtered to
spec changes (mutant `NodeStatusUpdateFiltered`), TLC finds a behaviour in which fluentd
keeps the old certificate forever.

### Fairness

Each key's worker step is weakly fair, because controller-runtime's workers keep draining the
queue. The delayed requeue is weakly fair, because a `RequeueAfter` timer fires. The status
manager's loop is weakly fair, because it runs periodically. The kubelet's Node status
report is weakly fair, because the kubelet sends it at a fixed period whether or not anything
changed.

The environment gets no fairness. Passes with injected errors are possible but, being bounded,
not forced.

Weak fairness of `Process(k)` is written as `[]<>(k \notin queue) \/ []<><<Process(k)>>_vars`.
`Process(k)` is enabled exactly when `k` is queued, because the error-free pass is always
possible and always changes the queue. Writing ENABLED of the handler instead would make TLC
evaluate the whole handler once per fairness condition.

### Not covered by `Converges`

The CR's `conditions` are left out of `Settled`. Suppose the CR is deleted and recreated while
the status manager ends up with the reason it last published. The model's status manager then
publishes nothing new, and no TigeraStatus event comes. Whether the real status manager's
write changes the object in that case depends on timestamps and `observedGeneration`, which
this model does not describe. It is listed as a hazard.

## 4. Findings

- **`lc_windows`: a Windows error hidden behind a stale Cleared.**
  - At line 658, a failing `HasWindowsNodes` returns the error without `SetDegraded`.
  - This happens after the Linux fluentd was updated to a new rendering.
  - The status keeps the previous `Cleared` while the Windows daemonset runs the old
    configuration.
- **`lc_ready`: Ready is never reset.**
  - `Status.State = Ready` (line 705) is never reset.
  - After the license is deleted, the status manager is degraded and the CR still reads Ready.

## 5. Proofs

The proofs assume only `ConstAssumption`, which states the types of the constants.

- **`TypeCorrect`: `Spec => []TypeOK`.**
  - The key lemma is `FirstStageType`: the halting stage is a stage or `Done`.
    - The set of failing stages is finite, and the `CHOOSE` of its least-ranked member must
      hit a member.
    - `LeastStageExists` proves that such a member exists. It applies `WFMin` to the image of
      the set under `Rank` with the well-founded `<` on `Nat` (`NatLessThanWellFounded`).
  - `ReconcileType` unfolds one pass. `PassFacts` names its conjuncts and `ReconcileUnfold`
    proves the unfolding.
- **`HealthyInvariant`: `Spec => []HealthyMeansApplied`.**
  - The inductive invariant is `IInv == TypeOK /\ HealthyMeansApplied`. `TypeOK` is needed to
    know that the halting stage and the ranks are what they are.
  - The argument is `ReconcileHealthy`. A pass ends in `Cleared` in one of two ways:
    - It got past the Windows apply. Then it got past all three Linux apply stages, so
      `applied = rendered = CfgOf` (`LinuxAppliedWhenPassed`).
    - It kept an earlier `Cleared` by halting at a non-degrading stage. Those are:
      - the two conditions stages, which come before rendering, so nothing changed
        (`NothingAppliedBeforeImageSet`);
      - `HasWindowsNodes`, which comes after the Linux apply loop.
  - Every other action sets the reason to `Unset` or leaves `status`, `applied` and `rendered`
    alone.

### Proofs about the APIServer model (`APIServer_proofs.tla`)

These proofs also assume only `ConstAssumption`.

- **`TypeCorrect`: `Spec => []TypeOK`.**
  - `FirstStageType` shows that either half of a pass halts at a stage of its own half, or
    at `Done`, and that it reaches `Done` only when no stage of that half fails. It rests on
    `LeastStageExists`, which is proved with `WFMin` as in the LogCollector proofs.
  - `ErrorCount` shows that a pass counts an error only for a failing call it was allowed to
    make.
- **`FinalizerSafe`: `~MidPassDelete => (Spec => []FinalizerGuardsDeployment)`.**
  - The inductive invariant is `IInv == TypeOK /\ FinalizerGuardsDeployment /\ (pc = "mid"
    => inst.exists)`. The third conjunct is needed because the finishing half adds the
    finalizer only to an Installation that exists.
  - `ReadFindsInstallation`: a read half that runs to its end has passed the Installation
    stage.
  - `FinishGuards`: the deployment is created only by a pass past `ApplyAPIServer`, which is
    past the finalizer call (`FinishOrder`).
  - `NextGuards` covers the other actions:
    - the not-found branch keeps the finalizer while the deployment exists;
    - an Installation without the finalizer is deleted only when no deployment exists and no
      pass is in flight;
    - a new Installation appears only when nothing is deployed.
  - With `MidPassDelete` true the theorem does not hold. `api_race` shows the counterexample.

### Refinement (`APIServerTeardown_proofs.tla`)

- **`TeardownRefined`: `~MidPassDelete => (Spec => TeardownSpec)`.**
  - The invariant is `TInv == IInv /\ DelInv`. `DelInv` says that a deletion timestamp sits
    only on an Installation held by the finalizer, and that an absent Installation has
    neither. The refinement needs it for two steps. A not-found pass that removes a deleting
    Installation must be a `Release`, which needs the hold. A new Installation must map to
    `Create`, which leaves `held` alone.
  - `PassedNotHalting`: a stage a pass went past did not fail. So the finalizer call of a
    finishing pass was not refused (`FinalizerRejected`), which is `Hold`'s guard.
  - `FinishRefines`, `NotFoundRefines` and `DeleteRefines` map the three steps that change
    the protocol's variables. `TeardownStep` puts them together with the stutters.
- **`ProtectedInvariant`** (`InstallationTeardown_proofs.tla`): `Spec => []Protected` for
  the abstract protocol. `TypeOK /\ Protected` is inductive. A deletion of an unheld
  Installation removes it only when nothing is served and nothing is pending, and a release
  needs the deployment to be gone.
- **`TeardownProtected`: `~MidPassDelete => (Spec => []Teardown!Protected)`.** This is the
  abstract guarantee, read through the mapping, obtained from `TeardownRefined` and
  `ProtectedInvariant` alone. While the calico-apiserver deployment exists, or a deletion
  of the Installation is pending, the Installation exists with the APIServer finalizer. The
  abstract theorem is used through `TeardownProofs`, an instance of
  `InstallationTeardown_proofs` under the same mapping. The proof shows that the two
  instances' `Spec` and `Protected` coincide.

### The `api_policy` deadlock for all constants (`APIServerStall_proofs.tla`)

- `RepairBlocked`: the CR exists; the Installation exists and is Enterprise; the tier watch
  is ready and the Tier is cached; the deployment is `absent` or `down`; and a pass in flight
  has included the policy.
- `RepairEscape` names the only steps that can leave that state:
  - an operator restart, which clears the `ReadyFlag`;
  - deleting the CR or the Installation;
  - removing the Tier.
- **`RepairStaysBlockedHolds`: `Spec => RepairStaysBlocked`.** Every other step keeps
  `RepairBlocked`.
  - A reading pass includes the policy again, because `includeV3NetworkPolicy` looks only at
    the flag and the cache.
  - A finishing pass halts no later than `ApplyPolicy` (`PolicyHaltsFinish`, which rests on
    `FirstStageBound`). `ApplyPolicy` ranks 14, before `ApplyAPIServer` at 15, so the
    deployment is left as it is.
  - Rollout, breakage and garbage collection are not enabled.
- **`NeverRepaired`: `Spec /\ [][~RepairEscape]_vars => [](RepairBlocked =>
  [](deploy # "up")))`.** This holds whatever retries or periodic reconciles happen. It
  covers both triggers of the finding: a CR deleted and re-created, which is the run's
  trace, and a deployment broken while the Tier is cached (`MayBreak`).

### Proofs about the Typha fix-up (`TyphaFixUps_proofs.tla`)

- The hypothesis `GoWidths` is that the deadline is an int32 and that the wide width has room
  for 120 times any grace period that fits (`2^(WideBits-1) > 2.1 * 10^11`). int64 has
  `2^63`. The SMT backend evaluates powers of two only up to about `2^33`, so the room of
  the int64 product is a hypothesis rather than the literal 64.
- **`DeadlineSafe`: `GoWidths /\ Graces \subseteq 0..1789569706 => (Spec => []DeadlineCoversGrace)`.**
  `WrapId` shows that a value in the non-negative half of a width is its own wrap-around.
  `MinDeadlineFits` then shows that the computed minimum is the exact `g*120 \div 100`,
  floored at 600.
- **`DeadlineWraps`: `GoWidths => MinProgressDeadline(1789569707) = 600`.** The bound of
  `DeadlineSafe` is exact.

Only TLC checks the following:

- `Converges` (both models) and `FinalizerReleased`: liveness under fairness is out of the
  prover's reach here.
- The violated properties of the five violation runs.
- `Teardown!Protected` and `RepairStaysBlocked` are proved, but no run checks them.
  The second describes the behaviour behind a finding, not a promise the code makes, so it is
  stated as a theorem rather than as a run property.
- The Typha runs at widths other than 32 for the deadline.

## 6. Not modelled yet, and why

- **APIServer controller, remaining parts.**
  - `canCleanupLegacyNamespace` and the legacy namespace it guards.
  - The conditions copy from the TigeraStatus.
  - The `IsAPIServerReady` coupling with the LogCollector, as a composed module. Both models
    already have the environment's view of the other: the LogCollector's API-server
    readiness is an environment input, and the APIServer's deployment state drives it. The
    cycle that matters, the tier gate against the API server, lies inside the APIServer
    controller and is checked there (`api_policy`).
- **Typha renderer, beyond the fix-ups.** It maps configuration to objects without state.
  The env-var copy is a decimal formatting.
- **Never modelled:**
  - the render tests;
  - the documentation;
  - the CRD YAML, which is generated;
  - the credential helper bodies, which are reduced to whether their object exists;
  - the contents of the rendered objects, which are reduced to the configuration fields the
    handler branches on.
