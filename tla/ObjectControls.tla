--------------------------- MODULE ObjectControls ---------------------------
(***************************************************************************)
(* The resource appliers of controllers/object_controls.go as pure         *)
(* operators.  An applier call is a function from the controller's view    *)
(* (the ClusterPolicy snapshot it runs with, the detected runtime, the     *)
(* singleton that becomes the owner) and the live cluster to a status and  *)
(* a new cluster.  Every API call the applier makes may fail; the outcome  *)
(* of the calls for one object is an argument `o` in ApiOutcomes:          *)
(*   "ok"        every call for this object succeeds,                      *)
(*   "writeFail" the Get or the mutating call (Delete/Create/Update) fails *)
(*               with an error other than NotFound,                        *)
(*   "readFail"  the mutation succeeded but the later read fails (the      *)
(*               readiness Get of a DaemonSet, the first Get of a          *)
(*               RuntimeClass).                                            *)
(* A DaemonSet or RuntimeClass object in the cluster is a record; NoObj    *)
(* stands for "not found".                                                 *)
(***************************************************************************)
EXTENDS Integers, Sequences, SequencesExt

CONSTANTS
    NoObj,            \* the object does not exist (Get returns NotFound)
    NoSelector,       \* a host-setup template without an OS node selector
    NoRuntime,        \* the runtime field of a render that does not use it
    TemplateSelector  \* DaemonSet template name -> OS variant of its selector

\* policyv1.State values (api/v1/clusterpolicy_types.go)
Ready    == "ready"
NotReady == "notReady"
Disabled == "disabled"
Ignored  == "ignored"

ApiOutcomes == {"ok", "writeFail", "readFail"}

(***************************************************************************)
(* preProcessDaemonSet: the transformation table keyed by template name.   *)
(* A name outside the table is applied unchanged.                          *)
(***************************************************************************)
Transformations ==
    [n \in {"xilinx-container-runtime-daemonset"} |-> "TransformContainerRuntime"]
    @@ [n \in {"device-plugin-daemonset"} |-> "TransformDevicePlugin"]
    @@ [n \in {"host-setup-ubuntu18-daemonset", "host-setup-ubuntu20-daemonset",
               "host-setup-ubuntu22-daemonset", "host-setup-al2-daemonset",
               "host-setup-centos7-daemonset", "host-setup-centos8-daemonset"}
            |-> "TransformHostSetup"]

\* getRuntimeClass: the ClusterPolicy's runtime class name (CRD default "xilinx")
GetRuntimeClass(spec) == spec.rcName

(***************************************************************************)
(* The rendered DaemonSet, abstracted to the inputs the transformation     *)
(* reads: the component's configuration (image, tag, env, secrets: one     *)
(* version number per state), the detected runtime (config and socket     *)
(* mounts, toolkit arguments) and the runtime class name (toolkit          *)
(* arguments).  A template without transformation renders as itself.       *)
(***************************************************************************)
Render(spec, rt, d) ==
    CASE d \notin DOMAIN Transformations ->
            [conf |-> 0, runtime |-> NoRuntime, rc |-> NoObj]
      [] Transformations[d] = "TransformContainerRuntime" ->
            [conf |-> spec.conf["state-container-runtime"], runtime |-> rt,
             rc |-> GetRuntimeClass(spec)]
      [] Transformations[d] = "TransformDevicePlugin" ->
            [conf |-> spec.conf["state-device-plugin"], runtime |-> NoRuntime,
             rc |-> NoObj]
      [] Transformations[d] = "TransformHostSetup" ->
            [conf |-> spec.conf["state-host-setup"], runtime |-> NoRuntime,
             rc |-> NoObj]

\* The error a transformation returns: TransformHostSetup fails without a
\* node selector and returns NoSpecError when no osDists entry matches it.
TransformError(spec, d) ==
    CASE d \notin DOMAIN Transformations -> "none"
      [] Transformations[d] # "TransformHostSetup" -> "none"
      [] TemplateSelector[d] = NoSelector -> "error"
      [] TemplateSelector[d] \notin spec.osDists -> "noSpec"
      [] OTHER -> "none"

\* Mutant: the hash is taken before SetControllerReference sets the owner.
DaemonsetHashBeforeOwner(obj) == <<NoObj, obj.render, obj.hash>>

(***************************************************************************)
(* getDaemonsetHash hashes the whole object, annotations included; the     *)
(* hash is modelled as injective (collisions are not considered).          *)
(***************************************************************************)
DaemonsetHash(obj) == <<obj.owner, obj.render, obj.hash>>

\* Mutant: the live annotation is copied onto the new object before hashing.
IsDaemonsetSpecChangedKeepAnnot(current, new) ==
    current.hash # DaemonsetHash([new EXCEPT !.hash = current.hash])

\* Mutant: only the presence of the hash annotation is tested.
IsDaemonsetSpecChangedKeyOnly(current, new) == current.hash = NoObj

\* isDaemonsetSpecChanged: the live annotation differs from the new hash.
IsDaemonsetSpecChanged(current, new) == current.hash # DaemonsetHash(new)

\* The object written by Create or Update: the hash annotation is set to the
\* hash of the rendered object; the status keeps the live value (zero for a
\* new object) until the DaemonSet controller observes the new spec.
Stamped(new, unavailable) ==
    [owner |-> new.owner, render |-> new.render, hash |-> DaemonsetHash(new),
     unavailable |-> unavailable, synced |-> FALSE]

\* isDaemonSetReady: the readiness Get finds the object and no pod is unavailable.
IsDaemonSetReady(obj, o) == o # "readFail" /\ obj # NoObj /\ obj.unavailable = 0

(***************************************************************************)
(* DaemonSet: one iteration of the loop over the state's DaemonSets.       *)
(* acc.result is the loop's `result`, acc.ds the DaemonSets on the API     *)
(* server.  The client's Gets read cluster.cache, the informer's copy, when *)
(* cluster.lag holds, and the server otherwise; writes go to the server.   *)
(* Create of an object the cache misses fails with AlreadyExists, Update  *)
(* of one the server no longer has with NotFound.                         *)
(***************************************************************************)
DaemonSetIter(acc, d, o, spec, rt, owner, enabled, cluster) ==
    LET new   == [owner |-> owner, render |-> Render(spec, rt, d), hash |-> NoObj]
        live  == acc.ds[d]
        found == IF cluster.lag THEN cluster.cache[d] ELSE live
        \* what isDaemonSetReady's Get returns after a write of obj
        seen(obj) == IF cluster.lag THEN cluster.cache[d] ELSE obj
        terr  == TransformError(spec, d)
    IN
    CASE ~enabled /\ o = "writeFail" ->
            [acc EXCEPT !.result = NotReady]
      [] ~enabled ->
            [acc EXCEPT !.result = Disabled, !.ds[d] = NoObj]
      [] terr = "error" ->
            [acc EXCEPT !.result = NotReady]
      [] terr = "noSpec" /\ o = "writeFail" ->
            [acc EXCEPT !.result = NotReady]
      [] terr = "noSpec" ->
            [acc EXCEPT !.result = IF @ = Ready THEN Ignored ELSE @,
                        !.ds[d] = NoObj]
      [] o = "writeFail" ->
            [acc EXCEPT !.result = NotReady]
      [] found = NoObj /\ live # NoObj ->
            [acc EXCEPT !.result = NotReady]
      [] found = NoObj ->
            LET created == Stamped(new, 0)
            IN [acc EXCEPT !.ds[d] = created,
                           !.result = IF IsDaemonSetReady(seen(created), o)
                                      THEN @ ELSE NotReady]
      [] IsDaemonsetSpecChanged(found, new) /\ live = NoObj ->
            [acc EXCEPT !.result = NotReady]
      [] IsDaemonsetSpecChanged(found, new) ->
            LET updated == Stamped(new, live.unavailable)
            IN [acc EXCEPT !.ds[d] = updated,
                           !.result = IF IsDaemonSetReady(seen(updated), o)
                                      THEN @ ELSE NotReady]
      [] OTHER ->
            [acc EXCEPT !.result = IF IsDaemonSetReady(found, o)
                                   THEN @ ELSE NotReady]

\* DaemonSet: the whole applier for the state's DaemonSet templates `dss`.
DaemonSet(cluster, dss, out, spec, rt, owner, enabled) ==
    LET res == FoldLeft(LAMBDA acc, d :
                          DaemonSetIter(acc, d, out[d], spec, rt, owner, enabled, cluster),
                        [result |-> Ready, ds |-> cluster.ds],
                        dss)
    IN [result |-> res.result, err |-> FALSE, cluster |-> [cluster EXCEPT !.ds = res.ds]]

\* Mutant: the errors of Get, Create and Update are logged and dropped.
RuntimeClassDropErr(cluster, o, spec, owner, enabled) ==
    LET name == GetRuntimeClass(spec)
        ret(r, e, c) == [result |-> r, err |-> e, cluster |-> c]
    IN
    CASE ~enabled /\ o = "writeFail" -> ret(NotReady, FALSE, cluster)
      [] ~enabled -> ret(Disabled, FALSE, [cluster EXCEPT !.rc[name] = NoObj])
      [] o # "ok" -> ret(Ready, FALSE, cluster)
      [] OTHER    -> ret(Ready, FALSE, [cluster EXCEPT !.rc[name] = owner])

\* Mutant: a NotFound Get is returned as an error instead of creating.
RuntimeClassNoCreate(cluster, o, spec, owner, enabled) ==
    LET name == GetRuntimeClass(spec)
        ret(r, e, c) == [result |-> r, err |-> e, cluster |-> c]
    IN
    CASE ~enabled /\ o = "writeFail" -> ret(NotReady, FALSE, cluster)
      [] ~enabled -> ret(Disabled, FALSE, [cluster EXCEPT !.rc[name] = NoObj])
      [] o # "ok" \/ cluster.rc[name] = NoObj -> ret(NotReady, TRUE, cluster)
      [] OTHER    -> ret(Ready, FALSE, [cluster EXCEPT !.rc[name] = owner])

(***************************************************************************)
(* RuntimeClass: the applier for the state's RuntimeClass template.  Only  *)
(* the errors of Get, Create and Update are returned as errors.            *)
(***************************************************************************)
RuntimeClass(cluster, o, spec, owner, enabled) ==
    LET name == GetRuntimeClass(spec)
        ret(r, e, c) == [result |-> r, err |-> e, cluster |-> c]
    IN
    CASE ~enabled /\ o = "writeFail" -> ret(NotReady, FALSE, cluster)
      [] ~enabled -> ret(Disabled, FALSE, [cluster EXCEPT !.rc[name] = NoObj])
      [] o # "ok" -> ret(NotReady, TRUE, cluster)
      [] OTHER    -> ret(Ready, FALSE, [cluster EXCEPT !.rc[name] = owner])

=============================================================================
