CONSTANTS
    w1 = w1
    w2 = w2
    w3 = w3
    N = 4
    HonoursContinue = TRUE
    ResultCallback = TRUE
    Running = Running
    Inputs <- UpToTwoOdd
    Worker <- TwoWorkers
    JobsCap = 2
SPECIFICATION Spec
INVARIANTS
    AnswersCanBeSent
    NothingRunsAfterReturn
PROPERTIES
    ImplementsInlineLoop
    Returns
