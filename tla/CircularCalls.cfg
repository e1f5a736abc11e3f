CONSTANTS
    idxRoot = idxRoot
    idxA = idxA
    idxB = idxB
    safeLoop = safeLoop
    infLoop = infLoop
    ignLoop = ignLoop
    Loop <- ThreeLoops
    Class <- ClassOf
    Other <- TwoOthers
    RootIndex = idxRoot
    Late = {idxB}
    NoCache = NoCache
SPECIFICATION CircularSpec
INVARIANTS
    DeferredLoopsAreReported
    IgnoredLoopsAreReported
    InfiniteLoopsAreErrors
PROPERTY AnswersGrow
