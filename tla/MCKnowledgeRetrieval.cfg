SPECIFICATION Spec
CONSTANTS
    Versions = {1, 2}
    Workers = {w1, w2}
    Uploaders = {u1, u2}
    Activators = {a1, a2}
    MaxTasks = 1
    NoVersion = NoVersion
    Chunks = {1, 2, 3, 4}
    VersionOf <- ChunkVersions
    DenseLimit = 3
    LexicalLimit = 2
    FusedLimit = 3
    FinalLimit = 2
SYMMETRY Symmetry
INVARIANTS
    JobsMatchVersions
    EvidenceWasServed
    FusionIsFair
PROPERTIES
    PublishedForGood
