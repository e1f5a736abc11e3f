CONSTANTS
    w1 = w1
    w2 = w2
    N = 5
    Worker <- TwoWorkers
    Concurrency = 2
    Inputs <- UpToTwoOdd
SPECIFICATION Spec
INVARIANTS
    OutputInOrder
    ReturnIsTruthful
PROPERTY AllFinish
