-------------------------- MODULE RuntimeDetection --------------------------
(***************************************************************************)
(* Container runtime detection of controllers/state_manger.go:            *)
(* getRuntimeString parses a node's ContainerRuntimeVersion               *)
(* "<runtime>://<version>"; getRuntime scans the node list in the order   *)
(* the API returns it.  A ContainerRuntimeVersion is abstracted to the    *)
(* record [name, version]: the prefix test HasPrefix(runtimeVer, "docker")*)
(* is a test on the name.                                                  *)
(***************************************************************************)
EXTENDS Sequences, SequencesExt

\* policyv1.Runtime values; "" is the zero value (String() of anything else)
Docker     == "docker"
Containerd == "containerd"
NoRuntimeString == ""

\* Mutant: any runtime prefix is taken as a runtime.
GetRuntimeStringAny(ver) == ver.name

\* getRuntimeString: docker is tested first, then containerd; anything
\* else is the error "runtime not recognized", modelled as "".
GetRuntimeString(ver) ==
    CASE ver.name = "docker"     -> Docker
      [] ver.name = "containerd" -> Containerd
      [] OTHER                   -> NoRuntimeString

\* Mutant: the scan does not stop at containerd (no break).
GetRuntimeNoBreak(nodes, defaultRuntime) ==
    LET scan == FoldLeft(
                  LAMBDA acc, n :
                    LET rt == GetRuntimeString(n) IN
                    IF rt = NoRuntimeString THEN acc ELSE [runtime |-> rt, stop |-> FALSE],
                  [runtime |-> NoRuntimeString, stop |-> FALSE],
                  nodes)
    IN IF scan.runtime = NoRuntimeString THEN defaultRuntime ELSE scan.runtime

(***************************************************************************)
(* getRuntime: an unrecognized node is skipped; a recognized one           *)
(* overwrites `runtime`; containerd stops the scan (break).  An empty      *)
(* result falls back to the ClusterPolicy's operator.defaultRuntime.       *)
(***************************************************************************)
GetRuntime(nodes, defaultRuntime) ==
    LET scan == FoldLeft(
                  LAMBDA acc, n :
                    LET rt == GetRuntimeString(n) IN
                    IF acc.stop \/ rt = NoRuntimeString THEN acc
                    ELSE [runtime |-> rt, stop |-> rt = Containerd],
                  [runtime |-> NoRuntimeString, stop |-> FALSE],
                  nodes)
    IN IF scan.runtime = NoRuntimeString THEN defaultRuntime ELSE scan.runtime

=============================================================================
