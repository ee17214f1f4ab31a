--------------------------- MODULE MCFpgaOperator ---------------------------
(***************************************************************************)
(* Model-checking instance of FpgaOperator: the operator's three asset     *)
(* directories with one RuntimeClass and four DaemonSet templates, and a   *)
(* ClusterPolicy that enables every state and asks for one OS variant.     *)
(***************************************************************************)
EXTENDS FpgaOperator

\* state-container-runtime holds a RuntimeClass and the toolkit DaemonSet
\* (RuntimeClass file sorted first), state-device-plugin one DaemonSet,
\* state-host-setup one DaemonSet per OS variant.
MCAssets ==
    [s \in {"state-container-runtime", "state-device-plugin", "state-host-setup"} |->
       CASE s = "state-container-runtime" ->
              << [kind |-> "RuntimeClass", name |-> "xilinx-runtimeclass"],
                 [kind |-> "DaemonSet", name |-> "xilinx-container-runtime-daemonset"] >>
         [] s = "state-device-plugin" ->
              << [kind |-> "DaemonSet", name |-> "device-plugin-daemonset"] >>
         [] s = "state-host-setup" ->
              << [kind |-> "DaemonSet", name |-> "host-setup-centos8-daemonset"],
                 [kind |-> "DaemonSet", name |-> "host-setup-ubuntu20-daemonset"] >>]

\* The same assets with only the ubuntu20 host-setup template
MCAssetsOneOs ==
    [MCAssets EXCEPT !["state-host-setup"] =
        << [kind |-> "DaemonSet", name |-> "host-setup-ubuntu20-daemonset"] >>]

\* The nodeSelector of each host-setup template (OS id and major version)
MCTemplateSelector ==
    [d \in {"host-setup-centos8-daemonset", "host-setup-ubuntu20-daemonset"} |->
       IF d = "host-setup-centos8-daemonset" THEN "centos8" ELSE "ubuntu20"]

\* Every component enabled (Enabled unset), configuration 1, osDists
\* listing ubuntu20 only, the default runtime class, containerd as default.
MCInitSpec ==
    [enabled |-> [s \in {"state-container-runtime", "state-device-plugin",
                         "state-host-setup"} |-> TRUE],
     conf |-> [s \in {"state-container-runtime", "state-device-plugin",
                      "state-host-setup"} |-> 1],
     osDists |-> {"ubuntu20"},
     rcName |-> "xilinx",
     defaultRuntime |-> "containerd"]

\* The same spec with osDists listing both OS variants
MCInitSpecAllOs == [MCInitSpec EXCEPT !.osDists = {"ubuntu20", "centos8"}]

\* One docker node listed before one containerd node
MCNodeRuntimes ==
    << [name |-> "docker", version |-> "20.10"],
       [name |-> "containerd", version |-> "1.6.0"] >>

\* The containerd node is replaced by a docker node
MCNodeRuntimeLists ==
    { MCNodeRuntimes,
      << [name |-> "docker", version |-> "20.10"],
         [name |-> "docker", version |-> "20.10"] >> }

=============================================================================
