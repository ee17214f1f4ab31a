---------------------------- MODULE ClusterFacts ----------------------------
(***************************************************************************)
(* The node-label facts of controllers/state_manger.go: hasNFDLabels,      *)
(* hasFPGALables, getFPGANodeCount and getOsDistributions.  Each of the    *)
(* two collectors lists the nodes itself; the operators here take the     *)
(* list's labels, in the order the List call returns them.  A failed List  *)
(* aborts init, which FpgaOperator models.                                 *)
(*                                                                         *)
(* A label key "<prefix>/<name>" is the record [prefix, name], prefix ""   *)
(* when the key has no '/'.  A key has at most one '/', so                 *)
(* strings.HasPrefix(key, "feature.node.kubernetes.io/") is a test on the  *)
(* prefix.  A node's labels are a function from the keys it carries to     *)
(* their values; a Go map read of a missing key yields "".                 *)
(***************************************************************************)
EXTENDS Naturals, SequencesExt

\* nfdLabelPrefix, without its trailing '/'
NfdLabelPrefix == "feature.node.kubernetes.io"

NfdLabelOSReleaseID == [prefix |-> NfdLabelPrefix, name |-> "system-os_release.ID"]
NfdLabelOSVersionID == [prefix |-> NfdLabelPrefix, name |-> "system-os_release.VERSION_ID"]
NfdLabelOsMajorVersion == [prefix |-> NfdLabelPrefix, name |-> "system-os_release.VERSION_ID.major"]

\* fpgaNodeLabels: the one key (the pci-10ee entry is commented out) and
\* the value it must have
FpgaNodeLabels == [k \in {[prefix |-> NfdLabelPrefix, name |-> "pci-1200_10ee.present"]} |-> "true"]

\* labels[key]
LabelOf(labels, key) == IF key \in DOMAIN labels THEN labels[key] ELSE ""

\* hasNFDLabels: some key carries the NFD prefix, whatever its value.
HasNFDLabels(labels) == \E key \in DOMAIN labels : key.prefix = NfdLabelPrefix

\* hasFPGALables: some key of fpgaNodeLabels is present with its value.
HasFPGALables(labels) ==
    \E key \in DOMAIN labels : key \in DOMAIN FpgaNodeLabels /\ FpgaNodeLabels[key] = labels[key]

\* Mutant: the NFD flag is assigned for every node, not only until it is set.
GetFPGANodeCountLastWins(nodes) ==
    FoldLeft(LAMBDA acc, labels :
               [nfd   |-> HasNFDLabels(labels),
                count |-> IF HasFPGALables(labels) THEN acc.count + 1 ELSE acc.count],
             [nfd |-> FALSE, count |-> 0], nodes)

(***************************************************************************)
(* getFPGANodeCount: the scan sets clusterHasNFDLabels from a node only    *)
(* while it is still false, and counts the nodes with the FPGA label.      *)
(***************************************************************************)
GetFPGANodeCount(nodes) ==
    FoldLeft(LAMBDA acc, labels :
               [nfd   |-> IF ~acc.nfd THEN HasNFDLabels(labels) ELSE acc.nfd,
                count |-> IF HasFPGALables(labels) THEN acc.count + 1 ELSE acc.count],
             [nfd |-> FALSE, count |-> 0], nodes)

\* init: hasFPGANodes is fpgaNodeCount > 0.
HasFPGANodes(nodes) == GetFPGANodeCount(nodes).count > 0

\* getOsDistributions: the set of release ID and version ID concatenated,
\* one entry per node, "" standing in for a missing label.
GetOsDistributions(nodes) ==
    {LabelOf(nodes[i], NfdLabelOSReleaseID) \o LabelOf(nodes[i], NfdLabelOSVersionID) : i \in DOMAIN nodes}

=============================================================================
