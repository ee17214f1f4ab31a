-------------------------- MODULE MCPureOperators --------------------------
(***************************************************************************)
(* Checks the pure operators against their intended meaning: the fact     *)
(* collector (the comments in state_manger.go and spec section 4.1) and    *)
(* the specializers' template edits (spec section 4.3).  getRuntime,       *)
(* getFPGANodeCount and getOsDistributions each make their own List call,  *)
(* so each is checked over its own inputs; an initial state is one of      *)
(* three cases: a list of up to MaxNodes runtime versions with a default   *)
(* runtime, a list of up to MaxLabelledNodes nodes' labels, or a template  *)
(* (env and node selector) with a ClusterPolicy env list of up to          *)
(* MaxCfgEnv entries.  Two more cases check the specializers: a          *)
(* container-runtime / device-plugin configuration with a detected        *)
(* runtime, and a host-setup template selector with an osDists list of up *)
(* to MaxOsDists entries.                                                  *)
(***************************************************************************)
EXTENDS RuntimeDetection, ClusterFacts, TemplateEdits, Specializers, Naturals, FiniteSets

CONSTANTS
    MaxNodes,       \* longest node list enumerated
    RuntimeNames,   \* runtime names a node can report
    Versions,       \* runtime versions a node can report
    MaxLabelledNodes, \* longest list of node labels enumerated
    LabelValues,    \* values a label can have
    EnvNames,       \* env variable names
    EnvValues,      \* env variable values
    MaxCfgEnv,      \* longest env list of the ClusterPolicy enumerated
    MaxOsDists      \* longest osDists list enumerated

VARIABLES nodes, defaultRuntime, labelled, env, cfgEnv, selector,
          runtime, ctrCfg, osDists, hsSelector

vars == <<nodes, defaultRuntime, labelled, env, cfgEnv, selector,
          runtime, ctrCfg, osDists, hsSelector>>

NodeVersions == [name : RuntimeNames, version : Versions]

\* CRD enum of operator.defaultRuntime, plus the zero value
DefaultRuntimes == {Docker, Containerd, NoRuntimeString}

\* The FPGA key, the commented-out pci-10ee key (an NFD key that is not an
\* FPGA key), the two OS keys and a label outside the NFD prefix
FpgaKey == CHOOSE k \in DOMAIN FpgaNodeLabels : TRUE
LabelKeys ==
    {FpgaKey, [prefix |-> NfdLabelPrefix, name |-> "pci-10ee.present"],
     NfdLabelOSReleaseID, NfdLabelOSVersionID,
     [prefix |-> "kubernetes.io", name |-> "hostname"]}

NodeLabels == UNION {[ks -> LabelValues] : ks \in SUBSET LabelKeys}

EnvVars == [name : EnvNames, value : EnvValues]

EnvNamesOf(e) == [i \in DOMAIN e |-> e[i].name]

\* A template container's env: a shipped template names each variable once.
TemplateEnvs ==
    {e \in UNION {[1..n -> EnvVars] : n \in 0..Cardinality(EnvNames)} : IsInjective(EnvNamesOf(e))}

\* A template's node selector: the FPGA key and a key of its own
Selectors ==
    UNION {[ks -> LabelValues] : ks \in SUBSET {FpgaKey, [prefix |-> "", name |-> "role"]}}

\* The inputs of the cases other than one's own are empty.
NoRuntimeCase == nodes = <<>> /\ defaultRuntime = Docker
NoLabelCase == labelled = <<>>
NoTemplateCase == env = <<>> /\ cfgEnv = <<>> /\ selector = <<>>
NoContainerCase == runtime = Docker /\ ctrCfg = <<>>
NoHostSetupCase == osDists = <<>> /\ hsSelector = <<>>
NoSpecializerCase == NoContainerCase /\ NoHostSetupCase

\* containerRuntime / devicePlugin settings: repository and tag each empty
\* or set (a tag or a digest), pull policies the CRD accepts (any string),
\* a custom install dir with a trailing slash, setAsDefault nil or set
ContainerCfgs ==
    [repository : {"", "reg:5000/xilinx"}, image : {"xcr"},
     tag : {"", "1.0", "sha256:ab"}, imagePullPolicy : {"", "Always", "always"},
     imagePullSecrets : {<<>>, <<"s">>}, env : {<<>>},
     installDir : {"", "/opt/xilinx/bin/"}, setAsDefault : {"nil", "true", "false"}]

\* A container template with a volume of its own
ContainerTemplate ==
    [image |-> "", pull |-> "", secrets |-> <<"t">>, env |-> <<>>,
     volumes |-> <<[name |-> "dev", hostPath |-> "/dev"]>>,
     mounts |-> <<[name |-> "dev", mountPath |-> "/dev"]>>,
     args |-> "", selector |-> <<>>]

\* osDists entries: OS ids and major versions from the values the CRD
\* admits (OsId is an enum of lowercase ids), two of each
OsDistSpecs ==
    [osId : {"ubuntu", "centos"}, osMajorVersion : {"18", "20"},
     version : {"2.14", "2.15"}, shellFlashEnabled : {"nil", "true", "false"},
     cards : {<<>>, <<"u50">>}, repository : {"r"}, image : {"hs"}, tag : {"1"},
     imagePullPolicy : {""}, imagePullSecrets : {<<>>}]

\* host-setup template selectors: none, and ubuntu with major version 20
HsSelectors ==
    {<<>>, (NfdLabelOSReleaseID :> "ubuntu") @@ (NfdLabelOsMajorVersion :> "20")}

HsTemplate(sel) ==
    [images |-> <<"", "", "">>, pulls |-> <<"", "", "">>, secrets |-> <<>>,
     initArgs |-> <<"", "">>, args |-> "", selector |-> sel]

Init ==
    \/ /\ nodes \in UNION {[1..n -> NodeVersions] : n \in 0..MaxNodes}
       /\ defaultRuntime \in DefaultRuntimes
       /\ NoLabelCase /\ NoTemplateCase /\ NoSpecializerCase
    \/ /\ labelled \in UNION {[1..n -> NodeLabels] : n \in 0..MaxLabelledNodes}
       /\ NoRuntimeCase /\ NoTemplateCase /\ NoSpecializerCase
    \/ /\ env \in TemplateEnvs
       /\ cfgEnv \in UNION {[1..n -> EnvVars] : n \in 0..MaxCfgEnv}
       /\ selector \in Selectors
       /\ NoRuntimeCase /\ NoLabelCase /\ NoSpecializerCase
    \/ /\ runtime \in {Docker, Containerd}
       /\ ctrCfg \in ContainerCfgs
       /\ NoRuntimeCase /\ NoLabelCase /\ NoTemplateCase /\ NoHostSetupCase
    \/ /\ hsSelector \in HsSelectors
       /\ osDists \in UNION {[1..n -> OsDistSpecs] : n \in 0..MaxOsDists}
       /\ NoRuntimeCase /\ NoLabelCase /\ NoTemplateCase /\ NoContainerCase

Next == UNCHANGED vars

Spec == Init /\ [][Next]_vars

\* The selected runtime is one the operator knows, or the default.
TypeOK ==
    /\ nodes \in Seq(NodeVersions)
    /\ defaultRuntime \in DefaultRuntimes
    /\ GetRuntime(nodes, defaultRuntime) \in DefaultRuntimes
    /\ labelled \in Seq(NodeLabels)
    /\ env \in Seq(EnvVars) /\ cfgEnv \in Seq(EnvVars)
    /\ selector \in Selectors
    /\ runtime \in {Docker, Containerd}
    /\ ctrCfg \in ContainerCfgs \cup {<<>>}
    /\ osDists \in Seq(OsDistSpecs)
    /\ hsSelector \in HsSelectors

\* Intended meaning: containerd if at least one node runs containerd, else
\* docker if some node runs docker, else the configured default.
ReferenceRuntime(ns, dflt) ==
    LET names == {ns[i].name : i \in DOMAIN ns}
    IN CASE Containerd \in names -> Containerd
         [] Docker \in names     -> Docker
         [] OTHER                -> dflt

\* getRuntime's scan with its early break and fallback agrees with the
\* reference selection on every node list.
RuntimeSelectionCorrect ==
    GetRuntime(nodes, defaultRuntime) = ReferenceRuntime(nodes, defaultRuntime)

\* Spec 4.1: the cluster has discovery labels iff some key of some node
\* carries the prefix; a node has the hardware iff the FPGA key is present
\* with its value; the OS distributions are release ID + version ID per
\* node, "" for a missing label.
ReferenceFacts(ls) ==
    LET keys == UNION {DOMAIN ls[i] : i \in DOMAIN ls}
        fpga == {i \in DOMAIN ls : FpgaKey \in DOMAIN ls[i] /\ ls[i][FpgaKey] = FpgaNodeLabels[FpgaKey]}
        pairs == {<<LabelOf(l, NfdLabelOSReleaseID), LabelOf(l, NfdLabelOSVersionID)>> : l \in Range(ls)}
    IN [nfd   |-> NfdLabelPrefix \in {k.prefix : k \in keys},
        count |-> Cardinality(fpga),
        dists |-> {p[1] \o p[2] : p \in pairs}]

\* getFPGANodeCount's scan (the NFD flag set only while it is false, the
\* count of nodes with the FPGA label) and getOsDistributions agree with the
\* reference facts on every list of node labels.
ClusterFactsCorrect ==
    LET r == GetFPGANodeCount(labelled) IN
    [nfd |-> r.nfd, count |-> r.count, dists |-> GetOsDistributions(labelled)] = ReferenceFacts(labelled)

\* The value a container sees for each variable: when a name repeats, the
\* last entry wins.
EffectiveEnv(e) ==
    [n \in Range(EnvNamesOf(e)) |-> e[SelectLastInSeq(e, LAMBDA x : x.name = n)].value]

\* Spec 4.3 (merge env vars: update by name, append if absent; set the node
\* selector to the hardware label set): applying the ClusterPolicy's env
\* list with setContainerEnv keeps the template's variables in place, names
\* every variable once, and gives each the ClusterPolicy's last value for
\* it, else the template's; setDaemonSetSelector keeps the template's
\* other keys and gives the FPGA key its label value.
TemplateEditsCorrect ==
    LET merged == ApplyEnv(env, cfgEnv)
        sel    == SetDaemonSetSelector(selector, FpgaNodeLabels)
    IN /\ IsInjective(EnvNamesOf(merged))
       /\ SubSeq(EnvNamesOf(merged), 1, Len(env)) = EnvNamesOf(env)
       /\ EffectiveEnv(merged) = EffectiveEnv(cfgEnv) @@ EffectiveEnv(env)
       /\ DOMAIN sel = DOMAIN selector \cup DOMAIN FpgaNodeLabels
       /\ \A k \in DOMAIN sel :
            sel[k] = IF k \in DOMAIN FpgaNodeLabels THEN FpgaNodeLabels[k] ELSE selector[k]


\* An image reference read back: the repository before the last '/', then
\* the name, then a digest after the first '@' or else a tag after the
\* last ':'.
ParseImage(s) ==
    LET slashes == {i \in 1..Len(s) : Char(s, i) = "/"}
        start   == IF slashes = {} THEN 1 ELSE Max(slashes) + 1
        last    == SubSeq(s, start, Len(s))
        ats     == {i \in 1..Len(last) : Char(last, i) = "@"}
        colons  == {i \in 1..Len(last) : Char(last, i) = ":"}
        sep     == CASE ats # {}    -> Min(ats)
                     [] colons # {} -> Max(colons)
                     [] OTHER       -> 0
    IN [repository |-> IF slashes = {} THEN "" ELSE SubSeq(s, 1, start - 2),
        image      |-> IF sep = 0 THEN last ELSE SubSeq(last, 1, sep - 1),
        tag        |-> IF sep = 0 THEN "" ELSE SubSeq(last, sep + 1, Len(last))]

\* The image of a component configured with repository, image and tag:
\* read back, it gives the three of them.  The spec and the tests give
\* only repository/image:tag; the one-sided settings are left out.
ImageIntended(img, c) ==
    (c.repository = "") = (c.tag = "") =>
        ParseImage(img) = [repository |-> c.repository, image |-> c.image, tag |-> c.tag]

\* A known pull policy is kept; anything else becomes a valid policy.
PullIntended(p, cp) ==
    /\ p \in {"Always", "Never", "IfNotPresent"}
    /\ cp \in {"Always", "Never", "IfNotPresent"} => p = cp

\* The host paths of the volumes mounted at `path` (one, when the mount
\* paths and the volume names are unique)
MountedHosts(o, path) ==
    {o.volumes[j].hostPath :
        j \in {j \in DOMAIN o.volumes :
                 \E k \in DOMAIN o.mounts : o.mounts[k].mountPath = path
                                            /\ o.mounts[k].name = o.volumes[j].name}}

\* The runtimes' configuration file and socket, as installed by docker and
\* containerd
RuntimeFiles ==
    [r \in {Docker, Containerd} |->
        IF r = Docker THEN [config |-> "/etc/docker/daemon.json", socket |-> "/var/run/docker.sock"]
        ELSE [config |-> "/etc/containerd/config.toml", socket |-> "/var/run/containerd/containerd.sock"]]

(***************************************************************************)
(* Spec 4.3: TransformContainerRuntime and TransformDevicePlugin give the  *)
(* configured image and a valid pull policy, append the pull secrets to   *)
(* the template's and select the FPGA nodes; every path the toolkit's     *)
(* command line names is the mount of exactly one volume, whose host path *)
(* is the install dir (default /usr/bin), the toolkit config dir, and the *)
(* detected runtime's configuration file and socket; the command names    *)
(* that runtime and the runtime class, and sets the runtime as default    *)
(* only when setAsDefault is true.  The device plugin gets no volumes and *)
(* no command.                                                             *)
(***************************************************************************)
ContainerSpecializersCorrect ==
    LET o == TransformContainerRuntime(ContainerTemplate, ctrCfg, runtime, "xilinx")
        d == TransformDevicePlugin(ContainerTemplate, ctrCfg)
        installDir == IF ctrCfg.installDir = "" THEN "/usr/bin" ELSE ctrCfg.installDir
    IN DOMAIN ctrCfg # {} =>
       /\ \A x \in {o, d} :
            /\ ImageIntended(x.image, ctrCfg)
            /\ PullIntended(x.pull, ctrCfg.imagePullPolicy)
            /\ x.secrets = ContainerTemplate.secrets \o ctrCfg.imagePullSecrets
            /\ x.selector[FpgaKey] = FpgaNodeLabels[FpgaKey]
       /\ MountedHosts(o, o.args.installDir) = {installDir}
       /\ o.args.p = installDir
       /\ MountedHosts(o, o.args.configDir) = {"/etc/xilinx-container-runtime"}
       /\ MountedHosts(o, o.args.c) = {RuntimeFiles[runtime].config}
       /\ MountedHosts(o, o.args.s) = {RuntimeFiles[runtime].socket}
       /\ o.args.runtime = runtime /\ o.args.r = "xilinx"
       /\ o.args.setAsDefault = (ctrCfg.setAsDefault = "true")
       /\ d.volumes = ContainerTemplate.volumes /\ d.mounts = ContainerTemplate.mounts
       /\ d.args = ContainerTemplate.args

\* Lower case of the letters the OS ids use
CaseTable == ("U" :> "u") @@ ("B" :> "b") @@ ("N" :> "n") @@ ("T" :> "t")

RECURSIVE ToLower(_)
ToLower(s) ==
    IF s = "" THEN ""
    ELSE (IF Char(s, 1) \in DOMAIN CaseTable THEN CaseTable[Char(s, 1)] ELSE Char(s, 1))
         \o ToLower(SubSeq(s, 2, Len(s)))

(***************************************************************************)
(* Spec 4.3 and 8 (host-setup): a template without a node selector is     *)
(* an error; with no osDists entry whose OS id and major version match    *)
(* the selector's, ignoring case, the result is "no spec" and the         *)
(* template is untouched; otherwise the first matching entry gives all    *)
(* three containers its image, the XRT installation its version, and the  *)
(* card flash its version, or the no-op when shellFlashEnabled is false.  *)
(***************************************************************************)
HostSetupSelectionCorrect ==
    LET tmpl == HsTemplate(hsSelector)
        r    == TransformHostSetup(tmpl, [osDists |-> osDists])
        want(key) == ToLower(LabelOf(hsSelector, key))
        fits == {i \in DOMAIN osDists :
                   /\ ToLower(osDists[i].osId) = want(NfdLabelOSReleaseID)
                   /\ ToLower(osDists[i].osMajorVersion) = want(NfdLabelOsMajorVersion)}
    IN CASE DOMAIN hsSelector = {} -> r.err = "error"
         [] fits = {} -> r.err = "noSpec" /\ r.obj = tmpl
         [] OTHER ->
              LET v == osDists[Min(fits)] IN
              /\ r.err = "none"
              /\ \A k \in 1..3 : ImageIntended(r.obj.images[k], v)
              /\ r.obj.initArgs[1] = [xrt |-> v.version]
              /\ r.obj.initArgs[2] = IF v.shellFlashEnabled = "false" THEN FlashDisabled
                                      ELSE [flash |-> v.version]

=============================================================================
