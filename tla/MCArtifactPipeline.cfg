SPECIFICATION Spec
CONSTANTS
    MaxVersion = 3
    Pinned = 2
INVARIANTS
    FeaturesOfOneSource
    ManifestVouches
    TrainedOnPinned
