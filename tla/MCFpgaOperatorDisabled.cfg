CONSTANTS
    NoObj = NoObj
    NoSelector = NoSelector
    NoRuntime = NoRuntime
    CRs = {c1}
    InitialCRs = {c1}
    InitSpec <- MCInitSpecAllOs
    Assets <- MCAssets
    TemplateSelector <- MCTemplateSelector
    NodeRuntimes <- MCNodeRuntimes
    NodeRuntimeLists <- MCNodeRuntimeLists
    MaxNodeChanges = 0
    MaxRestarts = 0
    OsVariants = {"ubuntu20", "centos8"}
    Confs = {1, 2}
    RCNames = {"xilinx"}
    MaxFailures = 1
    MaxEdits = 1
    MaxChurn = 0
    MaxDisruptions = 1
    MaxUnavailable = 1
    MaxDeletes = 0
    CacheLag = FALSE

SPECIFICATION Spec

PROPERTY ReadyCertifiesDisabled
