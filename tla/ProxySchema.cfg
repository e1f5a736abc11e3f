CONSTANTS
    Caller = {g1, g2}
    NoHash = NoHash
SPECIFICATION Spec
INVARIANTS
    HashIsConsistent
    StaleHashNotCached
    NodesAddedWhileCopyingArrive
PROPERTY CallsReturn
