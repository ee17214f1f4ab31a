---------------------------- MODULE Specializers ----------------------------
(***************************************************************************)
(* The template specializers of controllers/object_controls.go and the    *)
(* image helpers of api/v1/clusterpolicy_types.go, with the strings they  *)
(* build.  A DaemonSet template is a record of the fields a specializer   *)
(* writes.  A container-runtime or device-plugin template has:            *)
(*   image, pull, secrets, env, volumes ([name, hostPath]), mounts        *)
(*   ([name, mountPath], the container's VolumeMounts), args, selector.    *)
(* A host-setup template has:                                             *)
(*   images and pulls (init container 0, init container 1, main          *)
(*   container), secrets, initArgs, args, selector.                       *)
(* A fmt.Sprintf command line is the record of the operands it formats,   *)
(* since no property reads the text around them.  A *bool is one of the  *)
(* strings "nil", "true" and "false".                                     *)
(* A nil node selector is the empty function: a template that declares an *)
(* empty non-nil selector is not told apart.  strings.EqualFold is        *)
(* modelled for ASCII letters.                                             *)
(***************************************************************************)
EXTENDS Naturals, Sequences, RuntimeDetection, ClusterFacts, TemplateEdits

DefaultXCRInstallDir    == "/usr/bin"
DefaultXCRConfigDir     == "/etc/xilinx-container-runtime"
DefaultDockerConfig     == "/etc/docker/daemon.json"
DefaultDockerSocket     == "/var/run/docker.sock"
DefaultContainerdConfig == "/etc/containerd/config.toml"
DefaultContainerdSocket == "/var/run/containerd/containerd.sock"

\* s[i], a one-character string
Char(s, i) == SubSeq(s, i, i)

HasPrefix(s, p) == Len(s) >= Len(p) /\ SubSeq(s, 1, Len(p)) = p

\* Runtime.String: the two known runtimes, "" for anything else
RuntimeString(r) == IF r \in {Docker, Containerd} THEN r ELSE NoRuntimeString

(***************************************************************************)
(* path.Base: "" gives "."; trailing slashes are removed; the rest after  *)
(* the last slash is returned, "/" when nothing is left.                  *)
(***************************************************************************)
RECURSIVE TrimSlash(_)
TrimSlash(p) ==
    IF p # "" /\ Char(p, Len(p)) = "/" THEN TrimSlash(SubSeq(p, 1, Len(p) - 1)) ELSE p

PathBase(p) ==
    LET t       == TrimSlash(p)
        slashes == {i \in 1..Len(t) : Char(t, i) = "/"}
        base    == IF slashes = {} THEN t ELSE SubSeq(t, Max(slashes) + 1, Len(t))
    IN CASE p = ""    -> "."
         [] base = "" -> "/"
         [] OTHER     -> base

\* getRuntimeConfig
GetRuntimeConfig(r) ==
    CASE r = Docker     -> DefaultDockerConfig
      [] r = Containerd -> DefaultContainerdConfig
      [] OTHER          -> ""

\* Mutant: the docker and containerd sockets are swapped.
GetRuntimeSocketSwapped(r) ==
    CASE r = Docker     -> DefaultContainerdSocket
      [] r = Containerd -> DefaultDockerSocket
      [] OTHER          -> ""

\* getRuntimeSocket
GetRuntimeSocket(r) ==
    CASE r = Docker     -> DefaultDockerSocket
      [] r = Containerd -> DefaultContainerdSocket
      [] OTHER          -> ""

\* ImagePath: the bare image when repository and tag are both empty, else
\* repo/image followed by '@' for a sha256 digest and ':' for a tag.
ImagePath(repo, image, tag) ==
    CASE repo = "" /\ tag = ""       -> image
      [] HasPrefix(tag, "sha256:") -> repo \o "/" \o image \o "@" \o tag
      [] OTHER                     -> repo \o "/" \o image \o ":" \o tag

\* ImagePullPolicy: the three known policies, IfNotPresent otherwise
ImagePullPolicy(p) ==
    IF p \in {"Always", "Never", "IfNotPresent"} THEN p ELSE "IfNotPresent"

\* The edits TransformContainerRuntime and TransformDevicePlugin share:
\* image, pull policy, pull secrets appended, env merged.
SetImageAndEnv(obj, c) ==
    [obj EXCEPT !.image   = ImagePath(c.repository, c.image, c.tag),
                !.pull    = ImagePullPolicy(c.imagePullPolicy),
                !.secrets = @ \o c.imagePullSecrets,
                !.env     = ApplyEnv(@, c.env)]

(***************************************************************************)
(* TransformContainerRuntime: the shared edits, four host-path volumes    *)
(* with their mounts (install dir, config dir, the runtime's config file  *)
(* and socket, the last two mounted under their base names), the toolkit *)
(* command line and the FPGA node selector.                               *)
(***************************************************************************)
TransformContainerRuntime(obj, c, runtime, rcName) ==
    LET installDir  == IF c.installDir # "" THEN c.installDir ELSE DefaultXCRInstallDir
        cfgMount    == "/runtime/config/" \o PathBase(GetRuntimeConfig(runtime))
        sockMount   == "/runtime/socket/" \o PathBase(GetRuntimeSocket(runtime))
        vols == << [name |-> "install-dir",    hostPath |-> installDir],
                   [name |-> "config-dir",     hostPath |-> DefaultXCRConfigDir],
                   [name |-> "runtime-config", hostPath |-> GetRuntimeConfig(runtime)],
                   [name |-> "runtime-socket", hostPath |-> GetRuntimeSocket(runtime)] >>
        mnts == << [name |-> "install-dir",    mountPath |-> "/host-usr/bin"],
                   [name |-> "config-dir",     mountPath |-> "/host-etc/xilinx-container-runtime"],
                   [name |-> "runtime-config", mountPath |-> cfgMount],
                   [name |-> "runtime-socket", mountPath |-> sockMount] >>
        toolkit == [installDir |-> "/host-usr/bin",
                    configDir  |-> "/host-etc/xilinx-container-runtime",
                    runtime    |-> RuntimeString(runtime),
                    p |-> installDir, r |-> rcName, c |-> cfgMount, s |-> sockMount,
                    setAsDefault |-> c.setAsDefault = "true"]
        o == SetImageAndEnv(obj, c)
    IN [o EXCEPT !.volumes  = @ \o vols,
                 !.mounts   = @ \o mnts,
                 !.args     = toolkit,
                 !.selector = SetDaemonSetSelector(@, FpgaNodeLabels)]

\* TransformDevicePlugin: the shared edits and the FPGA node selector
TransformDevicePlugin(obj, c) ==
    LET o == SetImageAndEnv(obj, c)
    IN [o EXCEPT !.selector = SetDaemonSetSelector(@, FpgaNodeLabels)]

\* strings.EqualFold on ASCII: equal length, equal after folding A-Z to a-z.
FoldChar(c) ==
    LET up == "ABCDEFGHIJKLMNOPQRSTUVWXYZ"
        lo == "abcdefghijklmnopqrstuvwxyz"
        k  == {i \in 1..26 : Char(up, i) = c}
    IN IF k = {} THEN c ELSE Char(lo, CHOOSE i \in k : TRUE)

EqualFold(a, b) ==
    Len(a) = Len(b) /\ \A i \in 1..Len(a) : FoldChar(Char(a, i)) = FoldChar(Char(b, i))

\* Mutant: only the OS id is compared, not the major version.
MatchesSelectorOsOnly(v, selector) ==
    EqualFold(v.osId, LabelOf(selector, NfdLabelOSReleaseID))

\* The osDists entry fits the template's OS release id and major version.
MatchesSelector(v, selector) ==
    /\ EqualFold(v.osId, LabelOf(selector, NfdLabelOSReleaseID))
    /\ EqualFold(v.osMajorVersion, LabelOf(selector, NfdLabelOsMajorVersion))

FlashDisabled == "echo card flash is disabled"
HostSetupIdle == "echo host_setup complete; while true; do sleep 3600; done"

(***************************************************************************)
(* TransformHostSetup: no selector is an error; the first osDists entry   *)
(* that fits the selector sets the images and pull policies of the three  *)
(* containers, appends its pull secrets, and sets the XRT installation and *)
(* card flash commands of the init containers.  The per-card flash string *)
(* is built and then discarded (the assignment is commented out), so the  *)
(* cards do not reach the object.  No fitting entry gives NoSpecError.    *)
(***************************************************************************)
TransformHostSetup(obj, c) ==
    LET i == SelectInSeq(c.osDists, LAMBDA v : MatchesSelector(v, obj.selector))
        v == c.osDists[i]
        image == ImagePath(v.repository, v.image, v.tag)
        pull  == ImagePullPolicy(v.imagePullPolicy)
        flash == IF v.shellFlashEnabled = "false" THEN FlashDisabled
                 ELSE [flash |-> v.version]
    IN CASE DOMAIN obj.selector = {} -> [err |-> "error", obj |-> obj]
         [] i = 0 -> [err |-> "noSpec", obj |-> obj]
         [] OTHER ->
              [err |-> "none",
               obj |-> [obj EXCEPT !.images   = <<image, image, image>>,
                                   !.pulls    = <<pull, pull, pull>>,
                                   !.secrets  = @ \o v.imagePullSecrets,
                                   !.initArgs = <<[xrt |-> v.version], flash>>,
                                   !.args     = HostSetupIdle]]

=============================================================================
