SPECIFICATION Spec
CONSTANTS
    Labels <- MCLabels
    Actions <- MCActions
    None = None
    BadManifest = BadManifest
    PolicyPacks <- MCPolicyPacks
    Sources <- MCSources
INVARIANTS
    DeclaredReasons
    PathsAgree
    SupportedIsBound
    AdapterRulesHold
CHECK_DEADLOCK FALSE
