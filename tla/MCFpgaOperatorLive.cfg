CONSTANTS
    NoObj = NoObj
    NoSelector = NoSelector
    NoRuntime = NoRuntime
    CRs = {c1}
    InitialCRs = {c1}
    InitSpec <- MCInitSpec
    Assets <- MCAssetsOneOs
    TemplateSelector <- MCTemplateSelector
    NodeRuntimes <- MCNodeRuntimes
    NodeRuntimeLists <- MCNodeRuntimeLists
    MaxNodeChanges = 0
    MaxRestarts = 0
    OsVariants = {"ubuntu20", "centos8"}
    Confs = {1}
    RCNames = {"xilinx"}
    MaxFailures = 0
    MaxEdits = 1
    MaxChurn = 0
    MaxDisruptions = 0
    MaxUnavailable = 1
    MaxDeletes = 1
    CacheLag = TRUE

SPECIFICATION Spec

PROPERTY Convergence
