CONSTANTS
    fsLocal = fsLocal
    fsRemote = fsRemote
    fsOther = fsOther
    docA = docA
    docB = docB
    docC = docC
    docX = docX
    docY = docY
    FileSystem <- ThreeSystems
    File <- Docs
    Batch <- TwoAndOne
    Lazy <- SharedLazy
    RootLazy <- XandY
SPECIFICATION Spec
INVARIANTS
    AllFilesIndexed
    ReturnsComplete
PROPERTY IndexingReturns
