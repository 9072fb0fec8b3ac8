SPECIFICATION Spec
CONSTANTS
    Labels <- MCLabels
    Actions = {"run", "deploy"}
    None = None
    Names <- MCNames
    Adapters = {adapter}
    Manifests <- MCManifests
    BadManifest = BadManifest
    PolicyPacks <- MCPolicyPacks
    Sources <- MCSources
    RawEnvelopes <- MCRawEnvelopes
    RawOutputs <- MCRawOutputs
    CallbackErrors <- MCCallbackErrors
INVARIANTS
    GovernedHandoffIsValid
