CONSTANTS
    NoWorkflow = NoWorkflow
    login = login
    list = list
    pay = pay
    audit = audit
    ghost = ghost
    Workflow <- ChainWorkflow
    Calls <- AllCalls
    MaxDepth = 3
    MaxTransitions = 3
SPECIFICATION Spec
INVARIANTS
    SummaryIsTruthful
    DependenciesReported
PROPERTY CallReturns
