SPECIFICATION RenderingSpec
CONSTANTS
    Fields <- AllFields
    Build <- AllBuild
    Members <- AllMembers
    New <- AllNew
    Marshal <- AllMarshal
    ByHand <- StepsTypes
    SchemaHolders <- ThatHoldSchemas
    Unkept <- KnownUnkept
    Hollow <- KnownHollow
    NotShown <- KnownNotShown
    Forgotten <- KnownForgotten
    Invented <- KnownInvented
    Rounds = 2
INVARIANTS
    FieldsAgree
    LoadShowsDocument
    RenderKeeps
    EditArrives
CHECK_DEADLOCK FALSE
