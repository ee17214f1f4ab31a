---------------------------- MODULE FpgaOperator ----------------------------
(***************************************************************************)
(* The ClusterPolicy controller: the Reconcile loop of                    *)
(* controllers/clusterpolicy_controller.go, the state engine of           *)
(* controllers/state_manger.go (init, step, last) and the appliers of     *)
(* ObjectControls, running against a Kubernetes cluster whose users edit, *)
(* create and delete ClusterPolicies and whose DaemonSet controller and   *)
(* garbage collector act between the controller's API calls.              *)
(*                                                                         *)
(* One Reconcile runs at a time (MaxConcurrentReconciles: 1).  Its         *)
(* actions are ReconcileStart (Get, singleton check, init) and one Step   *)
(* per step() call; the last Step also runs the code after the loop.      *)
(* The work queue is the set `queue` of ClusterPolicy names: watch events *)
(* and requeues add a name, a worker removes it.                          *)
(***************************************************************************)
EXTENDS Integers, Sequences, SequencesExt, FiniteSets, ObjectControls,
        RuntimeDetection

CONSTANTS
    CRs,            \* ClusterPolicy names
    InitialCRs,     \* ClusterPolicies that exist when the operator starts
    InitSpec,       \* their spec
    Assets,         \* state name -> the state's template files, lexically sorted
    OsVariants,     \* OS variants a host-setup selector or osDists entry names
    Confs,          \* versions of a component's configuration
    RCNames,        \* runtime class names a ClusterPolicy can ask for
    NodeRuntimes,   \* ContainerRuntimeVersion of the nodes, in list order, at start
    NodeRuntimeLists, \* node lists the cluster can change to
    MaxNodeChanges, \* times the cluster's nodes change in a behaviour
    MaxRestarts,    \* operator restarts in a behaviour
    MaxFailures,    \* API calls that may fail in a behaviour
    MaxEdits,       \* spec edits users make in a behaviour
    MaxChurn,       \* ClusterPolicy creations and deletions in a behaviour
    MaxDisruptions, \* times pods of a ready DaemonSet become unavailable
    MaxUnavailable, \* largest NumberUnavailable of a DaemonSet
    MaxDeletes,     \* managed objects deleted by someone else in a behaviour
    CacheLag        \* whether the informer cache may lag the API server

\* init: addState for the three asset directories, in this order
StateNames == <<"state-container-runtime", "state-device-plugin", "state-host-setup">>

(***************************************************************************)
(* addResourceControls (resource_manager.go): the files of a state in     *)
(* sorted order; a DaemonSet file adds its object and, for the first one, *)
(* the DaemonSet applier; a RuntimeClass file adds the RuntimeClass       *)
(* applier; other kinds are skipped.                                      *)
(***************************************************************************)
AddResourceControls(files) ==
    FoldLeft(LAMBDA acc, f :
               CASE f.kind = "DaemonSet" ->
                      [acc EXCEPT !.daemonsets = Append(@, f.name),
                                  !.funcs = IF acc.daemonsets = <<>>
                                            THEN Append(@, "DaemonSet") ELSE @]
                 [] f.kind = "RuntimeClass" ->
                      [acc EXCEPT !.funcs = Append(@, "RuntimeClass")]
                 [] OTHER -> acc,
             [daemonsets |-> <<>>, funcs |-> <<>>],
             files)

Resources == [s \in ToSet(StateNames) |-> AddResourceControls(Assets[s])]

DSNames == UNION {ToSet(Resources[s].daemonsets) : s \in ToSet(StateNames)}

HasRuntimeClass(s) == "RuntimeClass" \in ToSet(Resources[s].funcs)

\* isStateEnabled (the IsEnabled of each component: nil means enabled)
IsStateEnabled(spec, s) == spec.enabled[s]

\* A ClusterPolicy spec, abstracted to what the appliers read
Specs == [enabled : [ToSet(StateNames) -> BOOLEAN],
          conf : [ToSet(StateNames) -> Confs],
          osDists : SUBSET OsVariants,
          rcName : RCNames,
          defaultRuntime : {Docker, Containerd}]

Statuses == {"", Ready, NotReady, Disabled, Ignored}

VARIABLES
    cr,          \* ClusterPolicy name -> [spec, status], or NoObj
    ds,          \* DaemonSet name -> live DaemonSet, or NoObj
    cache,       \* the informer's copy of ds, which the client's Gets read
    rc,          \* RuntimeClass name -> owning ClusterPolicy, or NoObj
    queue,       \* work queue of ClusterPolicy names
    ctrl,        \* the global clusterPolicyCtrl: singleton, registered, runtime, idx
    inst,        \* the ClusterPolicy instance the running Reconcile fetched
    pc,          \* "idle" or "stepping" (inside the step() loop)
    overall,     \* Reconcile's overallStatus
    budget,      \* failures, edits, churn, disruptions, deletes, node changes, restarts so far
    nodes,       \* ContainerRuntimeVersion of the cluster's nodes, in list order
    created,     \* ClusterPolicies created at some time (one incarnation each)
    ignoredSeen  \* history: ClusterPolicies a Reconcile took for duplicates

vars == <<cr, ds, cache, rc, queue, ctrl, inst, pc, overall, budget, nodes, created,
          ignoredSeen>>

Renders == [conf : Confs \cup {0}, runtime : {Docker, Containerd, NoRuntime},
            rc : RCNames \cup {NoObj}]

DSObjects == [owner : CRs, render : Renders, hash : CRs \X Renders \X {NoObj},
              unavailable : 0..MaxUnavailable, synced : BOOLEAN]

TypeOK ==
    /\ cr \in [CRs -> [spec : Specs, status : Statuses] \cup {NoObj}]
    /\ ds \in [DSNames -> DSObjects \cup {NoObj}]
    /\ cache \in [DSNames -> DSObjects \cup {NoObj}]
    /\ rc \in [RCNames -> CRs \cup {NoObj}]
    /\ queue \subseteq CRs
    /\ nodes \in NodeRuntimeLists \cup {NodeRuntimes}
    /\ ctrl \in [singleton : CRs \cup {NoObj}, registered : BOOLEAN,
                 runtime : {Docker, Containerd, NoObj}, idx : 0..Len(StateNames)]
    /\ pc \in {"idle", "stepping"}
    /\ inst \in [name : CRs, spec : Specs, status : Statuses] \cup {NoObj}
    /\ pc = "stepping" => inst # NoObj
    /\ overall \in {Ready, NotReady}

-----------------------------------------------------------------------------
(***************************************************************************)
(* Watch events (SetupWithManager): a ClusterPolicy event enqueues it; a   *)
(* DaemonSet event enqueues its controller owner.  RuntimeClasses are not  *)
(* watched.                                                                *)
(***************************************************************************)
OwnerEvents(before, after) ==
    {before[d].owner : d \in {e \in DSNames : before[e] # after[e] /\ before[e] # NoObj}}
    \cup {after[d].owner : d \in {e \in DSNames : before[e] # after[e] /\ after[e] # NoObj}}

(***************************************************************************)
(* The informer.  The reconciler's client.Client is the manager's client:  *)
(* its Gets of DaemonSets read `cache`, its writes go to the server `ds`.  *)
(* Without lag the cache takes every write of ds at once and the watch     *)
(* event is delivered with it; with lag (CacheLag) both wait for CacheSync. *)
(* Gets of ClusterPolicies and RuntimeClasses read the server's state.     *)
(***************************************************************************)
CacheFollows == cache' = IF CacheLag THEN cache ELSE ds'

Events(before, after) == IF CacheLag THEN {} ELSE OwnerEvents(before, after)

FailuresLeft == MaxFailures - budget.failures

\* Outcomes of the calls of one step; "rc" is the RuntimeClass applier's slot
StepCalls(s) == ToSet(Resources[s].daemonsets) \cup (IF HasRuntimeClass(s) THEN {"rc"} ELSE {})

Failed(out) == Cardinality({k \in DOMAIN out : out[k] # "ok"})

(***************************************************************************)
(* step(): the appliers of state idx in registration order; the state's    *)
(* result is the status of the last applier that did not return Ready; an  *)
(* error returns at once.                                                  *)
(***************************************************************************)
RunStep(s, out) ==
    FoldLeft(LAMBDA acc, f :
               IF acc.err THEN acc
               ELSE LET enabled == IsStateEnabled(inst.spec, s)
                        r == IF f = "DaemonSet"
                             THEN DaemonSet(acc.cluster, Resources[s].daemonsets, out,
                                            inst.spec, ctrl.runtime, ctrl.singleton, enabled)
                             ELSE RuntimeClass(acc.cluster, out["rc"], inst.spec,
                                               ctrl.singleton, enabled)
                    IN [result |-> IF r.err \/ r.result # Ready THEN r.result ELSE acc.result,
                        err |-> r.err, cluster |-> r.cluster],
             [result |-> Ready, err |-> FALSE,
              cluster |-> [ds |-> ds, rc |-> rc, cache |-> cache, lag |-> CacheLag]],
             Resources[s].funcs)

\* updateCRState that writes only a status that was never set
UpdateCRStateIfUnset(name, state, fails) ==
    IF cr[name] = NoObj \/ cr[name].status # "" \/ fails THEN cr
    ELSE [cr EXCEPT ![name].status = state]

(***************************************************************************)
(* updateCRState: re-Get the ClusterPolicy, write the status when it       *)
(* differs.  A failure of the Get or the status Update is logged and       *)
(* dropped by every caller.  A written status is a ClusterPolicy event.    *)
(***************************************************************************)
UpdateCRState(name, state, fails) ==
    IF cr[name] = NoObj \/ cr[name].status = state \/ fails THEN cr
    ELSE [cr EXCEPT ![name].status = state]

-----------------------------------------------------------------------------
Init ==
    /\ cr = [c \in CRs |-> IF c \in InitialCRs THEN [spec |-> InitSpec, status |-> ""]
                                              ELSE NoObj]
    /\ ds = [d \in DSNames |-> NoObj]
    /\ cache = ds
    /\ rc = [n \in RCNames |-> NoObj]
    /\ queue = InitialCRs
    /\ ctrl = [singleton |-> NoObj, registered |-> FALSE, runtime |-> NoObj, idx |-> 0]
    /\ inst = NoObj
    /\ pc = "idle"
    /\ overall = Ready
    /\ budget = [failures |-> 0, edits |-> 0, churn |-> 0, disruptions |-> 0,
                 deletes |-> 0, nodeChanges |-> 0, restarts |-> 0]
    /\ nodes = NodeRuntimes
    /\ created = InitialCRs
    /\ ignoredSeen = {}

\* init without the reset of idx
CtrlInitKeepIdx(c) ==
    [ctrl EXCEPT !.singleton = c, !.registered = TRUE,
                 !.runtime = IF ~ctrl.registered
                             THEN GetRuntime(nodes, cr[c].spec.defaultRuntime)
                             ELSE @]

(***************************************************************************)
(* init: store the instance as singleton and reset idx; on the first call  *)
(* (no control functions yet) detect the runtime and add the three states.*)
(***************************************************************************)
CtrlInit(c) ==
    [ctrl EXCEPT !.singleton = c, !.idx = 0, !.registered = TRUE,
                 !.runtime = IF ~ctrl.registered
                             THEN GetRuntime(nodes, cr[c].spec.defaultRuntime)
                             ELSE @]

(***************************************************************************)
(* Reconcile up to the step() loop: Get the ClusterPolicy, ignore a        *)
(* duplicate, init the controller.  init stores the instance as singleton *)
(* and resets idx before anything can fail; only the first successful     *)
(* init detects the runtime and registers the states.                     *)
(***************************************************************************)
ReconcileStart ==
    /\ pc = "idle"
    /\ \E c \in queue :
        LET rest  == queue \ {c}
            first == ~ctrl.registered
            reg   == CtrlInit(c)
        IN
        \/ \* NotFound: deleted after the request was queued; not requeued
           /\ cr[c] = NoObj
           /\ queue' = rest
           /\ UNCHANGED <<ctrl, inst, pc, overall, budget, ignoredSeen>>
        \/ \* the Get fails: the error requeues the request
           /\ cr[c] # NoObj
           /\ FailuresLeft > 0
           /\ budget' = [budget EXCEPT !.failures = @ + 1]
           /\ UNCHANGED <<queue, ctrl, inst, pc, overall, ignoredSeen>>
        \/ \* another ClusterPolicy is the singleton: SetStatus(Ignored) on the
           \* fetched copy only, no status Update; not requeued
           /\ cr[c] # NoObj
           /\ ctrl.singleton \notin {NoObj, c}
           /\ queue' = rest
           /\ ignoredSeen' = ignoredSeen \cup {c}
           /\ UNCHANGED <<ctrl, inst, pc, overall, budget>>
        \/ \* init fails in kubernetesVersion or getRuntime, before addState
           /\ cr[c] # NoObj
           /\ ctrl.singleton \in {NoObj, c}
           /\ first
           /\ FailuresLeft > 0
           /\ ctrl' = [ctrl EXCEPT !.singleton = c, !.idx = 0]
           /\ budget' = [budget EXCEPT !.failures = @ + 1]
           /\ UNCHANGED <<queue, inst, pc, overall, ignoredSeen>>
        \/ \* init fails listing nodes for the FPGA and OS facts, after addState
           /\ cr[c] # NoObj
           /\ ctrl.singleton \in {NoObj, c}
           /\ FailuresLeft > 0
           /\ ctrl' = reg
           /\ budget' = [budget EXCEPT !.failures = @ + 1]
           /\ UNCHANGED <<queue, inst, pc, overall, ignoredSeen>>
        \/ \* init succeeds: enter the step() loop
           /\ cr[c] # NoObj
           /\ ctrl.singleton \in {NoObj, c}
           /\ ctrl' = reg
           /\ inst' = [name |-> c, spec |-> cr[c].spec, status |-> cr[c].status]
           /\ pc' = "stepping"
           /\ overall' = Ready
           /\ queue' = rest
           /\ UNCHANGED <<budget, ignoredSeen>>
    /\ UNCHANGED <<nodes, cr, ds, cache, rc, created>>

(***************************************************************************)
(* One iteration of Reconcile's loop: step(), then the status handling of  *)
(* the loop body; after the last state (last()), the code after the loop.  *)
(* `out` chooses the outcome of every API call of the appliers, `sfail`    *)
(* whether updateCRState's Get or Update fails.                            *)
(***************************************************************************)
Step ==
    /\ pc = "stepping"
    /\ LET s == StateNames[ctrl.idx + 1] IN
       \E out \in {o \in [StepCalls(s) -> ApiOutcomes] : Failed(o) <= FailuresLeft},
          sfail \in BOOLEAN : \E r \in {RunStep(s, out)} :
        LET last   == ctrl.idx + 1 = Len(StateNames)
            ovr    == IF ~r.err /\ r.result = NotReady THEN NotReady ELSE overall
            target == CASE r.err -> NotReady
                        [] r.result = NotReady /\ inst.status = Ready -> NotReady
                        [] last /\ ovr = Ready -> Ready
                        [] OTHER -> "none"
            cr2    == IF target = "none" THEN cr ELSE UpdateCRState(inst.name, target, sfail)
            done   == r.err \/ last
            requeue == r.err \/ (last /\ ovr # Ready)
        IN /\ Failed(out) + (IF sfail THEN 1 ELSE 0) <= FailuresLeft
           /\ sfail => target # "none"
           /\ ds' = r.cluster.ds
           /\ rc' = r.cluster.rc
           /\ cr' = cr2
           /\ ctrl' = IF r.err THEN ctrl ELSE [ctrl EXCEPT !.idx = @ + 1]
           /\ CacheFollows
           /\ queue' = queue \cup Events(ds, r.cluster.ds)
                            \cup (IF cr2 # cr \/ requeue THEN {inst.name} ELSE {})
           /\ pc' = IF done THEN "idle" ELSE "stepping"
           /\ overall' = ovr
           /\ inst' = IF done THEN NoObj ELSE inst
           /\ budget' = [budget EXCEPT !.failures = @ + Failed(out) + (IF sfail THEN 1 ELSE 0)]
    /\ UNCHANGED <<nodes, created, ignoredSeen>>

-----------------------------------------------------------------------------
(***************************************************************************)
(* The cluster around the controller.                                      *)
(***************************************************************************)

\* A user edit of one field of a ClusterPolicy spec
SpecEdits(sp) ==
    {[sp EXCEPT !.enabled[s] = ~@] : s \in ToSet(StateNames)}
    \cup {[sp EXCEPT !.conf[s] = n] : <<s, n>> \in ToSet(StateNames) \X Confs}
    \cup {[sp EXCEPT !.osDists = (@ \ {v}) \cup ({v} \ @)] : v \in OsVariants}
    \cup {[sp EXCEPT !.rcName = n] : n \in RCNames \ {sp.rcName}}

EditSpec(c) ==
    /\ cr[c] # NoObj
    /\ budget.edits < MaxEdits
    /\ \E sp \in SpecEdits(cr[c].spec) \ {cr[c].spec} : cr' = [cr EXCEPT ![c].spec = sp]
    /\ queue' = queue \cup {c}
    /\ budget' = [budget EXCEPT !.edits = @ + 1]
    /\ UNCHANGED <<nodes, ds, cache, rc, ctrl, inst, pc, overall, created, ignoredSeen>>

CreateCR(c) ==
    /\ c \notin created
    /\ budget.churn < MaxChurn
    /\ cr' = [cr EXCEPT ![c] = [spec |-> InitSpec, status |-> ""]]
    /\ created' = created \cup {c}
    /\ queue' = queue \cup {c}
    /\ budget' = [budget EXCEPT !.churn = @ + 1]
    /\ UNCHANGED <<nodes, ds, cache, rc, ctrl, inst, pc, overall, ignoredSeen>>

DeleteCR(c) ==
    /\ cr[c] # NoObj
    /\ budget.churn < MaxChurn
    /\ cr' = [cr EXCEPT ![c] = NoObj]
    /\ queue' = queue \cup {c}
    /\ budget' = [budget EXCEPT !.churn = @ + 1]
    /\ UNCHANGED <<nodes, ds, cache, rc, ctrl, inst, pc, overall, created, ignoredSeen>>

\* The garbage collector deletes objects whose controller owner is gone
\* (SetControllerReference in both appliers).
GarbageCollect ==
    /\ \/ \E d \in DSNames :
            /\ ds[d] # NoObj
            /\ cr[ds[d].owner] = NoObj
            /\ ds' = [ds EXCEPT ![d] = NoObj]
            /\ CacheFollows
            /\ queue' = queue \cup Events(ds, ds')
            /\ UNCHANGED rc
       \/ \E n \in RCNames :
            /\ rc[n] # NoObj
            /\ cr[rc[n]] = NoObj
            /\ rc' = [rc EXCEPT ![n] = NoObj]
            /\ UNCHANGED <<ds, cache, queue>>
    /\ UNCHANGED <<nodes, cr, ctrl, inst, pc, overall, budget, created, ignoredSeen>>

\* The DaemonSet controller observes a new spec and rolls its pods: the
\* status it writes may count unavailable pods.
DaemonSetControllerSync(d) ==
    /\ ds[d] # NoObj
    /\ ~ds[d].synced
    /\ \E u \in 0..MaxUnavailable :
         ds' = [ds EXCEPT ![d].synced = TRUE, ![d].unavailable = u]
    /\ CacheFollows
    /\ queue' = queue \cup Events(ds, ds')
    /\ UNCHANGED <<nodes, cr, rc, ctrl, inst, pc, overall, budget, created, ignoredSeen>>

PodsAvailable(d) ==
    /\ ds[d] # NoObj
    /\ ds[d].synced
    /\ ds[d].unavailable > 0
    /\ ds' = [ds EXCEPT ![d].unavailable = 0]
    /\ CacheFollows
    /\ queue' = queue \cup Events(ds, ds')
    /\ UNCHANGED <<nodes, cr, rc, ctrl, inst, pc, overall, budget, created, ignoredSeen>>

PodDisruption(d) ==
    /\ ds[d] # NoObj
    /\ ds[d].synced
    /\ ds[d].unavailable = 0
    /\ budget.disruptions < MaxDisruptions
    /\ \E u \in 1..MaxUnavailable : ds' = [ds EXCEPT ![d].unavailable = u]
    /\ CacheFollows
    /\ queue' = queue \cup Events(ds, ds')
    /\ budget' = [budget EXCEPT !.disruptions = @ + 1]
    /\ UNCHANGED <<nodes, cr, rc, ctrl, inst, pc, overall, created, ignoredSeen>>

\* A user or another tool deletes the RuntimeClass the operator created.
\* RuntimeClasses are not watched: no event is enqueued, and only a later
\* Reconcile (a requeue, another event or the resync) finds it missing.
\* (A deleted DaemonSet is reported by the DaemonSet watch, as the garbage
\* collector's deletions are.)
ExternalDelete(n) ==
    /\ rc[n] # NoObj
    /\ budget.deletes < MaxDeletes
    /\ rc' = [rc EXCEPT ![n] = NoObj]
    /\ budget' = [budget EXCEPT !.deletes = @ + 1]
    /\ UNCHANGED <<nodes, cr, ds, cache, queue, ctrl, inst, pc, overall, created, ignoredSeen>>

\* The informers' periodic resync delivers every ClusterPolicy again.
Resync ==
    /\ queue' = queue \cup {c \in CRs : cr[c] # NoObj}
    /\ UNCHANGED <<nodes, cr, ds, cache, rc, ctrl, inst, pc, overall, budget, created, ignoredSeen>>

\* Nodes are replaced or reconfigured with another container runtime.  The
\* controller does not watch nodes.
ChangeNodes ==
    /\ budget.nodeChanges < MaxNodeChanges
    /\ nodes' \in NodeRuntimeLists \ {nodes}
    /\ budget' = [budget EXCEPT !.nodeChanges = @ + 1]
    /\ UNCHANGED <<cr, ds, cache, rc, queue, ctrl, inst, pc, overall, created, ignoredSeen>>

(***************************************************************************)
(* The operator process restarts, possibly inside a Reconcile: the global  *)
(* clusterPolicyCtrl starts empty again, and the informers' initial list  *)
(* fills the cache from the server and enqueues every ClusterPolicy.      *)
(***************************************************************************)
Restart ==
    /\ budget.restarts < MaxRestarts
    /\ ctrl' = [singleton |-> NoObj, registered |-> FALSE, runtime |-> NoObj, idx |-> 0]
    /\ pc' = "idle"
    /\ inst' = NoObj
    /\ overall' = Ready
    /\ queue' = {c \in CRs : cr[c] # NoObj}
    /\ cache' = ds
    /\ budget' = [budget EXCEPT !.restarts = @ + 1]
    /\ UNCHANGED <<cr, ds, rc, nodes, created, ignoredSeen>>

\* The DaemonSet informer receives the watch event of object d: the cache
\* takes the server's version and the owner is enqueued.
CacheSync(d) ==
    /\ cache[d] # ds[d]
    /\ cache' = [cache EXCEPT ![d] = ds[d]]
    /\ queue' = queue \cup OwnerEvents(cache, cache')
    /\ UNCHANGED <<nodes, cr, ds, rc, ctrl, inst, pc, overall, budget, created, ignoredSeen>>

Informer == \E d \in DSNames : CacheSync(d)

Controller == ReconcileStart \/ Step

\* The Kubernetes DaemonSet controller, for all DaemonSets
DaemonSetController ==
    \E d \in DSNames : DaemonSetControllerSync(d) \/ PodsAvailable(d)

Environment ==
    \/ \E c \in CRs : EditSpec(c) \/ CreateCR(c) \/ DeleteCR(c)
    \/ GarbageCollect
    \/ DaemonSetController
    \/ \E d \in DSNames : PodDisruption(d)
    \/ \E n \in RCNames : ExternalDelete(n)
    \/ Resync
    \/ Informer
    \/ ChangeNodes
    \/ Restart

Next == Controller \/ Environment

(***************************************************************************)
(* Fairness: the controller's single worker (MaxConcurrentReconciles 1)    *)
(* keeps taking requests and runs each Reconcile to its end; the           *)
(* DaemonSet controller, the garbage collector and the informers' resync   *)
(* keep running, and so does the informer's watch.  Users, failures and   *)
(* disruptions get no fairness: they are bounded instead.                 *)
(*                                                                         *)
(* StepFairness is WF_vars(Step) with ENABLED <<Step>>_vars replaced by    *)
(* pc = "stepping": in every such state the outcome where all calls        *)
(* succeed (Failed = 0, no status failure) is a Step, and it changes       *)
(* ctrl.idx or pc.                                                         *)
(***************************************************************************)
StepFairness == []<>(pc # "stepping") \/ []<><<Step>>_vars

Fairness ==
    /\ WF_vars(ReconcileStart)
    /\ StepFairness
    /\ WF_vars(DaemonSetController)
    /\ WF_vars(GarbageCollect)
    /\ WF_vars(Resync)
    /\ WF_vars(Informer)

Spec == Init /\ [][Next]_vars /\ Fairness

-----------------------------------------------------------------------------
(***************************************************************************)
(* What the cluster looks like when a ClusterPolicy spec is applied.       *)
(***************************************************************************)
StateOf(d) == CHOOSE s \in ToSet(StateNames) : d \in ToSet(Resources[s].daemonsets)

Desired(spec, owner, rt, d) ==
    [owner |-> owner, render |-> Render(spec, rt, d), hash |-> NoObj]

\* A host-setup DaemonSet is wanted exactly on the OS variants osDists lists;
\* a template without a node selector is neither wanted nor removed.
OsTemplate(d) == d \in DOMAIN TemplateSelector /\ TemplateSelector[d] # NoSelector
Wanted(spec, d) ==
    IF d \in DOMAIN TemplateSelector THEN OsTemplate(d) /\ TemplateSelector[d] \in spec.osDists
    ELSE TRUE
Unwanted(spec, d) == OsTemplate(d) /\ TemplateSelector[d] \notin spec.osDists

\* Every enabled state's DaemonSets carry the hash of the spec's render, the
\* ones without an OS spec are gone, and its RuntimeClass is owned.
EnabledApplied(dss, rcs, spec, owner, rt) ==
    \A s \in {t \in ToSet(StateNames) : IsStateEnabled(spec, t)} :
        /\ \A d \in ToSet(Resources[s].daemonsets) :
              /\ Wanted(spec, d) =>
                    dss[d] # NoObj /\ dss[d].hash = DaemonsetHash(Desired(spec, owner, rt, d))
              /\ Unwanted(spec, d) => dss[d] = NoObj
        /\ HasRuntimeClass(s) => rcs[GetRuntimeClass(spec)] = owner

\* Every disabled state's DaemonSets and RuntimeClass are gone.
DisabledRemoved(dss, rcs, spec) ==
    \A s \in {t \in ToSet(StateNames) : ~IsStateEnabled(spec, t)} :
        /\ \A d \in ToSet(Resources[s].daemonsets) : dss[d] = NoObj
        /\ HasRuntimeClass(s) => rcs[GetRuntimeClass(spec)] = NoObj

\* A Reconcile pass ends with overallStatus Ready (and writes Ready).
PassEndsReady ==
    /\ pc = "stepping" /\ pc' = "idle"
    /\ ctrl'.idx = Len(StateNames) /\ overall' = Ready
    /\ cr'[inst.name] # NoObj

(***************************************************************************)
(* Properties                                                              *)
(***************************************************************************)

\* When Reconcile reports Ready, every enabled state of the ClusterPolicy it
\* fetched is in the cluster as rendered: no DaemonSet create or update that
\* the pass needed was skipped or lost (DaemonSet, RuntimeClass, step).
ReadyCertifiesEnabled ==
    [][PassEndsReady => EnabledApplied(ds', rc', inst.spec, ctrl.singleton, ctrl.runtime)]_vars

\* When Reconcile reports Ready, the resources of every disabled state are
\* gone (spec 4.5: any NotReady forces the state's result to NotReady).
ReadyCertifiesDisabled ==
    [][PassEndsReady => DisabledRemoved(ds', rc', inst.spec)]_vars

\* The applier's Update call: the object is rewritten with a new hash
\* annotation or with a status the DaemonSet controller has not synced.
UpdateIssued(d) ==
    /\ ds[d] # NoObj /\ ds'[d] # NoObj
    /\ ds'[d].hash # ds[d].hash \/ (ds[d].synced /\ ~ds'[d].synced)

\* Idempotence of the hash annotation: the DaemonSet applier issues an
\* Update only when the rendered object or its owner differs from the live
\* one (isDaemonsetSpecChanged, getDaemonsetHash).
NoSpuriousUpdate ==
    [][\A d \in DSNames :
          UpdateIssued(d) => ds[d].render # ds'[d].render \/ ds[d].owner # ds'[d].owner]_vars

\* Spec 3 (ClusterFacts are recomputed every session): when Reconcile
\* reports Ready, every DaemonSet rendered with a container runtime (the
\* toolkit) is configured for the runtime the nodes run now (getRuntime,
\* called from init).
ReadyUsesCurrentRuntime ==
    [][PassEndsReady =>
         \A d \in DSNames :
            ds'[d] # NoObj /\ ds'[d].render.runtime # NoRuntime =>
               ds'[d].render.runtime = GetRuntime(nodes, inst.spec.defaultRuntime)]_vars

\* Spec 1 (the controller drives the runtime class into conformance with
\* the desired state): when Reconcile reports Ready, the singleton owns no
\* RuntimeClass other than the one its spec names (RuntimeClass applies
\* and deletes only getRuntimeClass of the current spec).
OnlyCurrentRuntimeClass ==
    [][PassEndsReady =>
         \A n \in RCNames : rc'[n] = ctrl.singleton => n = GetRuntimeClass(inst.spec)]_vars

\* Spec 3 (exactly one ClusterPolicy is authoritative, duplicates are
\* marked Ignored): at most one existing ClusterPolicy shows Ready, also
\* across operator restarts (singleton check in Reconcile, init).
SingleAuthoritative ==
    Cardinality({c \in CRs : cr[c] # NoObj /\ cr[c].status = Ready}) <= 1

\* A ClusterPolicy that a Reconcile took for a duplicate of the singleton
\* shows the status Ignored (spec: duplicates are marked Ignored), checked
\* against the singleton check at the top of Reconcile.
DuplicatesMarkedIgnored ==
    \A c \in ignoredSeen : cr[c] # NoObj /\ ctrl.singleton # c => cr[c].status = Ignored

(***************************************************************************)
(* Refinement: the controller implements the pass protocol of             *)
(* ReconcilePass.  A pass runs while pc = "stepping"; its position is      *)
(* clusterPolicyCtrl.idx and its verdict overallStatus; the status is the  *)
(* ClusterPolicy's status field.                                           *)
(***************************************************************************)
Pass == INSTANCE ReconcilePass WITH
            Policies <- CRs,
            NStates <- Len(StateNames),
            None <- NoObj,
            status <- [c \in CRs |-> IF cr[c] = NoObj THEN NoObj ELSE cr[c].status],
            running <- IF pc = "stepping" THEN inst.name ELSE NoObj,
            done <- IF pc = "stepping" THEN ctrl.idx ELSE 0,
            verdict <- IF pc = "stepping" THEN overall ELSE Ready

\* Every behaviour of Reconcile, init and step() is a behaviour of the pass
\* protocol: each pass starts at the first state (init resets idx),
\* advances one state per step() without error, writes only its own
\* ClusterPolicy's status, writes Ready only after the last state of a pass
\* without NotReady, and ends.
PassRefinement == Pass!Spec

\* Once users stop editing and the API stops failing, the singleton
\* ClusterPolicy's spec is applied, its pods are available and its status
\* is Ready, and it stays so: the requeues, the DaemonSet watch and the
\* resync bring every pass that failed or was not ready to a good end.
Convergence ==
    <>[](\A c \in CRs :
           cr[c] # NoObj =>
              /\ ctrl.singleton = c
              /\ cr[c].status = Ready
              /\ EnabledApplied(ds, rc, cr[c].spec, c,
                                 GetRuntime(nodes, cr[c].spec.defaultRuntime))
              /\ DisabledRemoved(ds, rc, cr[c].spec)
              /\ \A d \in DSNames : ds[d] # NoObj => ds[d].unavailable = 0)

=============================================================================
