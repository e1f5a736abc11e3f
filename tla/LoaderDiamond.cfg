CONSTANTS
    docR = docR
    docA = docA
    docB = docB
    docC = docC
    docD = docD
    None = None
    Missing = Missing
    File <- AllFiles
    Root = docR
    Remote <- RemoteFiles
    Allowed <- AllButD
    Refs <- DiamondRefs
    Outcome <- DiamondOutcome
    BaseName <- SharedName
    Sequentially = FALSE
    MaxConcurrency = 2
    Task <- AllTasks
SPECIFICATION Spec
INVARIANTS
    OneReaderPerFile
    NoReload
    WholeFileCarriesItsIndex
PROPERTIES
    IndexesStayPublished
    IndexingCompletes
