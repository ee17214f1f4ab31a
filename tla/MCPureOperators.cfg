CONSTANTS
    MaxNodes = 4
    RuntimeNames = {"docker", "containerd", "cri-o"}
    Versions = {"1.6"}
    MaxLabelledNodes = 2
    LabelValues = {"true", "20.04"}
    EnvNames = {"A", "B"}
    EnvValues = {"0", "1"}
    MaxCfgEnv = 3
    MaxOsDists = 2

SPECIFICATION Spec

INVARIANT TypeOK
INVARIANT RuntimeSelectionCorrect
INVARIANT ClusterFactsCorrect
INVARIANT TemplateEditsCorrect
INVARIANT ContainerSpecializersCorrect
INVARIANT HostSetupSelectionCorrect
