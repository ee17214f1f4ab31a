CONSTANTS
    NoObj = NoObj
    NoSelector = NoSelector
    NoRuntime = NoRuntime
    CRs = {c1}
    InitialCRs = {c1}
    InitSpec <- MCInitSpec
    Assets <- MCAssets
    TemplateSelector <- MCTemplateSelector
    NodeRuntimes <- MCNodeRuntimes
    NodeRuntimeLists <- MCNodeRuntimeLists
    MaxNodeChanges = 1
    MaxRestarts = 0
    OsVariants = {"ubuntu20", "centos8"}
    Confs = {1, 2}
    RCNames = {"xilinx"}
    MaxFailures = 1
    MaxEdits = 1
    MaxChurn = 0
    MaxDisruptions = 1
    MaxUnavailable = 1
    MaxDeletes = 0
    CacheLag = FALSE

SPECIFICATION Spec

INVARIANT TypeOK
PROPERTY NoSpuriousUpdate
PROPERTY ReadyCertifiesEnabled
