# TLA+ models of the FPGA operator

These modules model the ClusterPolicy controller under `src/controllers` and
the API types under `src/api/v1`. The TLC model checker checks them. Every
definition that models code is listed in `PROJECT.json` ("map") with the
source lines it translates.

## The system

The operator deploys three *states* in a fixed order onto a Kubernetes
cluster: `state-container-runtime`, `state-device-plugin` and
`state-host-setup`. A cluster-scoped `ClusterPolicy` custom resource says
what to deploy.

| Part | Source | What it does |
|---|---|---|
| Reconciler | `clusterpolicy_controller.go` | `Reconcile`: Get the ClusterPolicy, ignore a second one (singleton check), `init` the state engine, call `step()` until `last()`, write the status with `updateCRState`, requeue when not ready. `SetupWithManager`: one worker (`MaxConcurrentReconciles: 1`), watches on ClusterPolicies and on owned DaemonSets. |
| State engine | `state_manger.go` | The global `clusterPolicyCtrl`. `init` stores the singleton, resets `idx`, and on its first call detects the runtime and registers the three states (`addState`). `step()` runs the appliers of state `idx`, keeps the last non-Ready status, and returns at once on an error without advancing. |
| Fact collector | `state_manger.go` | `getRuntime` / `getRuntimeString` scan the node list: the first containerd node wins, docker is kept otherwise, and the default applies if no node is recognised. `getFPGANodeCount` lists the nodes, tells whether any label key carries the NFD prefix and counts the nodes with the FPGA label. `getOsDistributions` lists them again and collects release ID + version ID per node. `kubernetesVersion` reads the server version. All of these can fail, and `init` stores their results. |
| Template store | `resource_manager.go` | `addResourceControls` classifies a state directory's sorted files into DaemonSet objects and applier functions. |
| Resource appliers | `object_controls.go` | `RuntimeClass` and `DaemonSet`: delete when the state is disabled; delete when the specializer signals NoSpec; otherwise create or, when the hash annotation differs, update; then check readiness. |
| Template specializers | `object_controls.go` | `preProcessDaemonSet` and the `Transform*` functions fill in the templates. `TransformHostSetup` fails without a node selector and returns `NoSpecError` when no `osDists` entry matches. |

How they interact: every watch event or requeue puts a ClusterPolicy name in
the work queue. The single worker runs one `Reconcile` at a time. Inside it,
each `step()` call runs appliers that make several API calls. Between any two
of these calls, users edit, create or delete ClusterPolicies, the DaemonSet
controller updates DaemonSet status, and the garbage collector removes
objects whose owner is gone. Nothing is persisted by the operator except the
cluster objects and the ClusterPolicy status. The controller's memory
(`clusterPolicyCtrl`) lives as long as the process.

## Modules

| Module | Models | State and actions |
|---|---|---|
| `RuntimeDetection` | `getRuntimeString`, `getRuntime` | Pure operators. A `ContainerRuntimeVersion` is the record `[name, version]`. The scan is a `FoldLeft` with a stop flag for the `break`. |
| `ClusterFacts` | `hasNFDLabels`, `hasFPGALables`, `getFPGANodeCount`, `getOsDistributions` | Pure operators over the labels of the listed nodes. A label key `<prefix>/<name>` is the record `[prefix, name]`, so the `HasPrefix` test is a test on the prefix. Labels are a function from the keys a node carries, and a missing key reads as `""`. `getFPGANodeCount`'s loop is a `FoldLeft` in which the NFD flag is assigned only while it is false. |
| `TemplateEdits` | `setContainerEnv`, the env loop of the specializers, `setDaemonSetSelector` | Pure operators. An env is a sequence of `[name, value]` records. `setContainerEnv` is `SelectInSeq` for the first entry with the name, then an update or an `Append`. The loop is a `FoldLeft`. A node selector is a function, and the merge is `@@`. |
| `Specializers` | `TransformContainerRuntime`, `TransformDevicePlugin`, `TransformHostSetup`, `getRuntimeConfig`, `getRuntimeSocket`, `ImagePath`, `ImagePullPolicy` | Pure operators over a record of the template fields a specializer writes: image and pull policy, pull secrets, env, volumes and the container's mounts (separate lists joined by name, as in the pod spec), command arguments and node selector. Strings are built as the code builds them: image references with `\o`, mount paths with `path.Base` (`PathBase`, recursive over the characters), and the OS match with `strings.EqualFold` on ASCII. A `fmt.Sprintf` command line is the record of its operands, and a `*bool` is `"nil"`, `"true"` or `"false"`. The per-card flash string is built and discarded in the code, so cards do not reach the object. `FpgaOperator` keeps the coarser `ObjectControls.Render`. |
| `MCPureOperators` | check of the four modules above | Each collector makes its own List call, so each is checked over its own inputs. `Init` is one of five cases. In the first, `nodes` and `defaultRuntime` range over every list of up to `MaxNodes` runtime versions. In the second, `labelled` ranges over every list of up to `MaxLabelledNodes` label maps. In the third, `env` ranges over the template envs that name each variable at most once, `cfgEnv` over every ClusterPolicy env list of up to `MaxCfgEnv` entries, and `selector` over template selectors. In the fourth, `ctrCfg` ranges over 216 container-runtime/device-plugin settings (repository and tag empty or set, a tag or a sha256 digest, known and unknown pull policies, a custom install dir, `setAsDefault` nil, true or false) and `runtime` over docker and containerd. In the fifth, `hsSelector` is no selector or ubuntu with major version 20, and `osDists` ranges over every list of up to `MaxOsDists` entries with the OS ids ubuntu and centos and the major versions 18 and 20 (the CRD's `OsId` enum admits only lowercase ids, so no input differs in case), two XRT versions, and every `shellFlashEnabled` and card setting. A label map draws from five keys: the FPGA key, the commented-out pci-10ee key (NFD but not FPGA), the two OS keys, and a key outside the NFD prefix. Each key takes one of two values. `ReferenceRuntime`, `ReferenceFacts` and the right-hand sides of `TemplateEditsCorrect` are the intended results from spec 4.1 and 4.3, written independently of the scans. The container sees the last entry of a repeated name (`EffectiveEnv`). |
| `ObjectControls` | the appliers and the specializers | Pure operators from (ClusterPolicy spec, runtime, owner, cluster, API outcomes) to (status, error, new cluster). Each applier branch is a `CASE` arm in the code's order. `DaemonSet` folds `DaemonSetIter` over the state's templates. The outcome of an object's API calls is one of `ok`, `writeFail` (the Get, Delete, Create or Update fails) and `readFail` (the readiness Get, or the RuntimeClass Get, fails). A rendered DaemonSet is abstracted to the inputs it depends on: configuration version, runtime, runtime class name and owner. The hash annotation `DaemonsetHash` is an injective function of the object including its annotation field. |
| `FpgaOperator` | Reconcile, the state engine and the cluster | Variables: `cr` (ClusterPolicies: spec, status), `ds`, `rc` (live objects), `queue`, `ctrl` (singleton, registered, runtime, idx), `inst` and `overall` (locals of the running Reconcile, reset when it returns), `pc`, `cache` (the informer's copy of `ds`), `nodes` (the nodes' container runtimes, in list order), `budget` (the fault and edit counters that bound a behaviour), `created` and the history variable `ignoredSeen`. Controller actions: `ReconcileStart` (the code up to the loop, with one disjunct per early return of `Reconcile` and `init`) and `Step` (one `step()` call plus the loop body; the last one includes the code after the loop). Environment actions: `EditSpec`, `CreateCR`, `DeleteCR`, `GarbageCollect`, `DaemonSetControllerSync`, `PodsAvailable`, `PodDisruption`, `ExternalDelete` (someone deletes the RuntimeClass; no watch reports it), `Resync`, `CacheSync` (the DaemonSet informer receives a watch event: it copies the server's object into `cache` and enqueues the owner), `ChangeNodes` (the nodes switch runtime; nodes are not watched) and `Restart` (the process restarts: `clusterPolicyCtrl` is the zero value again and the informers' initial list fills the cache and enqueues every ClusterPolicy). The constant `CacheLag` chooses the informer: with `FALSE` the cache follows every write at once and each write's watch event is enqueued with it; with `TRUE` the applier's Gets and readiness checks read `cache`, writes go to `ds`, and events arrive only through `CacheSync`. |
| `ReconcilePass` | the promise of the state engine | An abstract specification of a Reconcile pass: `running` (the policy of the running pass), `done` (states completed), `verdict`, and every policy's `status`. A pass begins at the first state, advances one state at a time, may abort, and may be cut short by a crash. It writes only its own policy's status, and writes Ready only after the last state of a pass without NotReady. `FpgaOperator` instantiates it as `Pass` with the mapping `running = inst.name` while stepping, `done = ctrl.idx`, `verdict = overall`, `status = cr[c].status`. |
| `MCFpgaOperator` | instance | The shipped asset layout: a RuntimeClass file sorted before the toolkit DaemonSet, one device-plugin DaemonSet, and host-setup DaemonSets for centos8 and ubuntu20. Also a ClusterPolicy that enables everything and lists ubuntu20, and a docker node listed before a containerd node; the node list can change to two docker nodes. |

One `Step` is one `step()` call, taken atomically. This is sound for the
properties here because the environment's actions commute with the
controller's API calls at the level the properties observe. Each action
reads and writes the cluster only once. Failures are chosen per object, so
every mix of succeeded and failed calls inside a step is reached.

## Properties and runs

| Run | Config | Expect | What it shows |
|---|---|---|---|
| `pure_operators` | `MCPureOperators.cfg` | pass | `RuntimeSelectionCorrect`: the scan with its early `break` equals the reference selection on all 363 node lists of up to 4 nodes. These include unrecognised runtimes and every position of containerd. `ClusterFactsCorrect`: the NFD flag, the FPGA node count and the OS distribution set equal the spec's definitions on all 59,293 lists of up to two nodes' labels. These cover an FPGA key with the wrong value, an NFD key that is not the FPGA key, and missing OS labels. `TemplateEditsCorrect`: after the ClusterPolicy's env list is applied, every variable is named once, the template's variables keep their places, and each takes the ClusterPolicy's last value for it or else the template's. The node selector keeps the template's keys and gets the FPGA label. This is checked for 9,944 templates and env lists. `ContainerSpecializersCorrect`: both container specializers give an image that reads back as the configured repository, image and tag (a digest after `@`), a valid pull policy, the appended pull secrets and the FPGA selector. Every path on the toolkit's command line is the mount of exactly one volume, whose host path is the install dir, the config dir, or the detected runtime's own configuration file or socket. The command names that runtime, and sets it as default only when `setAsDefault` is true. `HostSetupSelectionCorrect`: a template without a selector is an error. With no osDists entry matching its OS id and major version ignoring case, the result is NoSpec and the template is untouched. Otherwise the first matching entry gives the three containers its image, the XRT install its version, and the flash its version or the no-op when flashing is disabled. Both are checked over 5,138 inputs (75k states in all). |
| `core` | `MCFpgaOperator.cfg` | pass | `NoSpuriousUpdate`: an Update is only issued when the render or the owner changed. `ReadyCertifiesEnabled`: a pass that reports Ready has every enabled state applied as rendered from the spec it fetched, and NoSpec DaemonSets removed. Both hold under one API failure, one spec edit, one pod disruption and one change of the nodes' runtime (178k states). |
| `churn` | `MCFpgaOperatorChurn.cfg` | pass | `NoSpuriousUpdate` and `ReadyCertifiesEnabled` hold while a second ClusterPolicy is created, the first is deleted, and the garbage collector runs. `PassRefinement` also holds: `FpgaOperator` implements `ReconcilePass` under the refinement mapping, including its liveness (every pass that starts ends). This run fires the NotFound and duplicate branches of Reconcile. |
| `convergence` | `MCFpgaOperatorLive.cfg` | pass | `Convergence` with the lagging informer cache (`CacheLag = TRUE`), one spec edit and one deletion of the RuntimeClass by someone else: once these stop, the cluster stays at the applied spec, pods are available and the status is Ready. Passes that read a stale cache (a miss that makes Create fail with AlreadyExists, a deleted object still cached) end NotReady or Ready too early, but the cache's watch events and resync start passes that repair them. The deleted RuntimeClass is not watched, so only the resync is sure to bring it back (260k states). |
| `disabled_masking` | `MCFpgaOperatorDisabled.cfg` | violation | `ReadyCertifiesDisabled` fails. After host setup or the container runtime is disabled, a failed Delete of one object is hidden by the Disabled result of the next object. The pass reports Ready and does not requeue, and the object stays. |
| `ignored_status` | `MCFpgaOperatorIgnored.cfg` | violation | `DuplicatesMarkedIgnored` fails: the Ignored status of a duplicate is set on a local copy only. |
| `singleton_stuck` | `MCFpgaOperatorSingleton.cfg` | violation | `Convergence` fails. After the singleton is deleted, the new ClusterPolicy is ignored forever, because `clusterPolicyCtrl.singleton` is never cleared. |
| `restart` | `MCFpgaOperatorRestart.cfg` | pass | `ReadyCertifiesEnabled` and `Convergence` hold when the operator restarts once at any point, also inside a pass, together with one failure, one edit and one pod disruption (88k states). `PassRefinement` holds as well, with a pass cut short by the restart matching the abstract `Crash`. |
| `stale_runtime` | `MCFpgaOperatorRuntime.cfg` | violation | `ReadyUsesCurrentRuntime` fails. The runtime is detected only at the first `init` of the process. After the nodes move from containerd to docker, passes report Ready with the toolkit still set up for containerd. |
| `two_ready_after_restart` | `MCFpgaOperatorTwoReady.cfg` | violation | `SingleAuthoritative` fails. After a restart, the other ClusterPolicy can be reconciled first and becomes the singleton. Both ClusterPolicies then show Ready. |
| `rc_rename_orphan` | `MCFpgaOperatorRcRename.cfg` | violation | `OnlyCurrentRuntimeClass` fails. After `rcName` is edited, the old RuntimeClass is never deleted. |
| `stale_cache` | `MCFpgaOperatorStaleCache.cfg` | violation | `ReadyCertifiesEnabled` fails with the lagging cache. A pass that runs with an old spec, where the container runtime state is disabled, deletes the toolkit DaemonSet on the server. The next pass runs with the state enabled again, finds the deleted DaemonSet in the cache with a matching hash, and so neither creates nor updates it. It reads readiness from the same cached copy and writes Ready while the DaemonSet is missing. The delete event reaching the cache repairs it later, as `convergence` shows. |

Every property of a passing run has a mutant in `PROJECT.json`. The mutant
is a plausible bug in the operator it replaces, and TLC finds the property
violated under the run's configuration. The mutants are:
- the scan without `break`;
- the NFD flag assigned for every node instead of only while it is false;
- `setContainerEnv` appending without looking for the name;
- `getRuntimeSocket` with the docker and containerd sockets swapped;
- the major version left out of the OS match of `TransformHostSetup`;
- a runtime parser that accepts any prefix;
- the hash taken before the owner reference is set;
- the live annotation copied into the object before hashing;
- a test only for the presence of the annotation;
- RuntimeClass errors dropped;
- a NotFound RuntimeClass Get returned as an error instead of creating the object;
- `updateCRState` writing only a status that was never set;
- `init` without the reset of `idx`.

### Bounds

- `MaxFailures = 1`: one failure already reaches every abort point of `step()` and every `NotReady` branch of the appliers, one at a time.
- `MaxEdits = 1`: a single edit disables a state, changes a configuration version, or moves an OS variant in or out of `osDists`.
- `MaxDeletes = 1` in `convergence` only: one deletion of the RuntimeClass by someone else. A deletion between two steps of a pass makes any Ready that pass reports false, so the safety runs leave it out.
- `MaxDisruptions = 1`, `MaxUnavailable = 1`: pods can become unavailable after a Ready pass. Only the DaemonSet watch reports this.
- `convergence` and `stale_cache` use `CacheLag = TRUE` with the ubuntu20 host-setup template only (`MCAssetsOneOs`), no failures and no disruption: the lagging cache adds a `CacheSync` step per write, and this is what keeps the liveness check within five minutes. `stale_cache` needs two edits: disable a state and enable it again.
- `MaxChurn = 2` in `churn` and `singleton_stuck`: one creation and one deletion, which is the smallest sequence that orphans the singleton.
- `MaxNodeChanges = 1` in `core` and `stale_runtime`: one switch from the shipped node list (docker, then containerd) to two docker nodes changes the detected runtime.
- `MaxRestarts = 1` in `restart` and `two_ready_after_restart`: one restart already falls at every point of a pass. The runs with restarts use one configuration version, so that the liveness checks stay within five minutes.
- The liveness runs (`convergence`, `restart`, and `churn` for the liveness part of `PassRefinement`) use `Confs = {1}` to stay within five minutes. They still reach the NoSpec, disable and failure paths.
- `RCNames` has two names only in `rc_rename_orphan`, the one run about renaming.

### Fairness

`WF` on `ReconcileStart`: the single worker keeps taking requests. On `Step`, the model uses `StepFairness`. This is `WF_vars(Step)`, with `ENABLED <<Step>>_vars` replaced by the equivalent `pc = "stepping"`: the outcome where every call succeeds is always a step that changes `ctrl.idx` or `pc`. It is stated this way because TLC would otherwise evaluate every step's appliers again to decide enabledness. The fairness says every `Reconcile` runs to its end, since `step()` is a sequence of blocking API calls with no other waiting. `WF` also holds on the DaemonSet controller, the garbage collector the informers' periodic resync (the manager's `SyncPeriod`) and the DaemonSet informer's watch (`CacheSync`), which keep running in a live cluster. Users, API failures, pod disruptions, deletions by others, node changes and restarts get no fairness. They are bounded instead, which is how `Convergence` states "once they stop". `ReconcilePass` assumes `WF` on its pass steps, which the mapping meets through `StepFairness` and restarts.

## What is not modelled

- Template contents inside `FpgaOperator`: there a render is the tuple of inputs it depends on. `Specializers` models the contents separately. Two results are not stated as properties because the spec does not settle them. One is `ImagePath` with only one of repository and tag set, which gives `/image:tag` or `repo/image:`. The other is the multi-card flash string, built and discarded: the spec lists it as an open question. `valueFrom` in env entries is not modelled.
- A host-setup template without a node selector: the code reports NotReady, while spec section 7 calls this a skip that gives Ignored. The shipped templates all have a selector, so `FpgaOperator`'s assets never reach it.
- File walking, reading and YAML decoding in `resource_manager.go`. The kind-regexp panic on a file without `kind:` is not modelled.
- The cache of ClusterPolicies and RuntimeClasses: their Gets read the server's state. Only the DaemonSet cache, which the hash and readiness decisions depend on, lags. Every run except `convergence` and `stale_cache` uses `CacheLag = FALSE`: with the lag, `ReadyCertifiesEnabled` fails (`stale_cache`), so the safety runs check the code with an up-to-date cache.
- The stored facts in `FpgaOperator`: `init` stores `hasNFDLabels`, `hasFPGANodes`, `osDists` and `k8sVersion` in `clusterPolicyCtrl`, but no code reads them. `FpgaOperator` keeps only their failure, which aborts `init`. `ClusterFacts` checks their values separately. `kubernetesVersion` and the `semver` validity check are a discovery read and a string format test, and are modelled only as that failure.
- `SetControllerReference` failing, which cannot happen for these owner and object kinds.
- Requeue delays and the rate limiter, which are abstracted to "enqueued again".
- Logging and namespaces.

## Plan

1. Done: runtime detection; the appliers; Reconcile with the state engine; the cluster environment; the safety runs and the liveness run.
2. Done: node runtime changes, operator restarts and `rcName` edits, each with a property. The abstract pass protocol `ReconcilePass`, with `FpgaOperator` shown to refine it.
3. Done: an informer cache that lags the API server, as a copy of `ds` that the appliers read and whose updates deliver the DaemonSet watch events.
4. Done: the specializers' outputs (`Specializers`), with the image, mount, command and OS-match strings.
5. Left out: asset directories other than the shipped ones. The operator image fixes them, and two RuntimeClass files in one state would only repeat the same RuntimeClass calls.
