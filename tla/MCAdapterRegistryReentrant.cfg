SPECIFICATION Spec
CONSTANTS
    Names <- MCNames
    BadName = "not a name"
    a1 = a1
    a2 = a2
    Adapters <- MCAdapters
    Manifests <- MCManifests
    Offers <- MCOffers
    BadManifest = BadManifest
    None = None
    MaxNesting = 2
    SameNameReentry = TRUE
INVARIANTS
    ManifestIdentity
