SPECIFICATION FairSpec
CONSTANTS
    Labels <- MCLabels
    Actions = {"run"}
    None = None
    Names <- MCNames
    Adapters = {adapter}
    Manifests <- MCManifests
    BadManifest = BadManifest
    PolicyPacks <- MCPolicyPacks
    SourceTasks <- MCSourceTasks
    RawEnvelopes <- MCRawEnvelopes
    RawOutputs <- MCRawOutputs
    CallbackErrors <- MCCallbackErrors
    EnvelopeWrites = FALSE
INVARIANTS
    TypeOK
    VerdictMatchesPolicy
    RefusalsAreExplained
PROPERTIES
    ImplementsAtomicBinding
    EveryCallReturns
