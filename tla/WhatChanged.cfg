SPECIFICATION Spec
CONSTANTS
    Fields <- AllFields
    Build <- AllBuild
    Hash <- AllHash
    Compare <- AllCompare
    Totals <- AllTotals
    Roots <- Documents
    Rules <- AllRules
    Ops = {"filled", "emptied", "added", "removed", "modified", "renamed",
           "moved"}
    SilentEdits <- KnownEdits
    SilentWays <- KnownWays
    UnlistedWays <- KnownUnlisted
    UncountedBreaks <- KnownUncounted
    DoubleBreaks <- KnownDouble
    Unheeded <- KnownUnheeded
    Unguarded <- KnownUnguarded
INVARIANTS
    ObjectAgrees
    EditIsReported
    GapsAreSilent
    CountsAgree
    BreakingIsCounted
CHECK_DEADLOCK FALSE

