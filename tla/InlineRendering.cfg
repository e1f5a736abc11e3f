SPECIFICATION FairSpec
CONSTANTS
    Renders = {"r1", "r2"}
    Documents <- SomeDocuments
    Wishes = {"default", "validation", "bundle", "contextless", "plain"}
    MaxDepth = 12
INVARIANTS
    CirclesAreReal
    RenderIsWhole
    TrackerIsTheStack
PROPERTY RendersReturn
CHECK_DEADLOCK FALSE
