CONSTANTS
    NoObj = NoObj
    NoSelector = NoSelector
    NoRuntime = NoRuntime
    c1 = c1
    c2 = c2
    CRs = {c1, c2}
    InitialCRs = {c1}
    InitSpec <- MCInitSpec
    Assets <- MCAssetsOneOs
    TemplateSelector <- MCTemplateSelector
    NodeRuntimes <- MCNodeRuntimes
    NodeRuntimeLists <- MCNodeRuntimeLists
    MaxNodeChanges = 0
    MaxRestarts = 0
    OsVariants = {"ubuntu20", "centos8"}
    Confs = {1}
    RCNames = {"xilinx"}
    MaxFailures = 0
    MaxEdits = 0
    MaxChurn = 2
    MaxDisruptions = 0
    MaxUnavailable = 1
    MaxDeletes = 0
    CacheLag = FALSE

SPECIFICATION Spec

PROPERTY Convergence
