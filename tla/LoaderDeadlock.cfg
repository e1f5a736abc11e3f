CONSTANTS
    docR = docR
    docA = docA
    docB = docB
    docC = docC
    docD = docD
    None = None
    Missing = Missing
    File <- AllFiles
    Root = docR
    Remote <- NoRemote
    Allowed <- AllFiles
    Refs <- TwoCycleRefs
    Outcome <- OkOutcome
    BaseName <- OwnName
    Sequentially = FALSE
    MaxConcurrency = 2
    Task <- AllTasks
SPECIFICATION Spec
PROPERTIES
    IndexingCompletes
CHECK_DEADLOCK FALSE
