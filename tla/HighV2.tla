------------------------------- MODULE HighV2 -------------------------------
(***************************************************************************)
(* The high-level objects of a Swagger document (datamodel/high/v2). They  *)
(* cannot be rendered. Numbers and Booleans are values, but for those of a *)
(* parameter, which are pointers.                                          *)
(***************************************************************************)
EXTENDS HighBase

\* Items and headers. A header takes its format from its type, its exclusive
\* minimum only when it is FALSE, and whether items are unique from the absence of
\* the field.
ItemsMembers ==
    Plain({"Type", "Format", "CollectionFormat", "Pattern", "Maximum", "Minimum",
           "MaxLength", "MinLength", "MaxItems", "MinItems", "MultipleOf",
           "ExclusiveMaximum", "ExclusiveMinimum", "UniqueItems"})
        @@ Object({"Items", "Default"}) @@ List({"Enum"})
NewItems == Copying(ItemsMembers, {"Enum"}, {})

Header2Members == ItemsMembers @@ Plain({"Description"}) @@ ExtendedByEntries
NewHeader2 ==
    [from |-> [f \in DOMAIN Header2Members \ {"ExclusiveMinimum", "UniqueItems"} |->
                  IF f = "Format" THEN "Type" ELSE f],
     drops |-> {"Enum"}, made |-> {}]

Parameter2Members ==
    Plain({"Name", "In", "Type", "Format", "Description", "CollectionFormat",
           "Pattern"})
        @@ Pointer({"Required", "AllowEmptyValue", "Maximum", "ExclusiveMaximum",
                    "Minimum", "ExclusiveMinimum", "MaxLength", "MinLength",
                    "MaxItems", "MinItems", "UniqueItems", "MultipleOf"})
        @@ Object({"Schema", "Items", "Default"}) @@ List({"Enum"})
        @@ ExtendedByEntries
NewParameter2 == Copying(Parameter2Members, {"Enum"}, {})

\* Security schemes. The extensions of the scopes are not shown.
ScopesMembers == Map({"Values"})
NewScopes == Copying(ScopesMembers, {}, {"Values"})

SecurityScheme2Members ==
    Plain({"Type", "Description", "Name", "In", "Flow", "AuthorizationUrl", "TokenUrl"})
        @@ Object({"Scopes"}) @@ ExtendedByEntries
NewSecurityScheme2 == Copied(SecurityScheme2Members)

\* Responses.
ExamplesMembers == Map({"Values"})
NewExamples == Copying(ExamplesMembers, {"Values"}, {})

Response2Members ==
    Plain({"Description"}) @@ Object({"Schema", "Examples"}) @@ Map({"Headers"})
        @@ ExtendedByEntries
NewResponse2 == Copied(Response2Members)

Responses2Members == Map({"Codes"}) @@ Object({"Default"}) @@ ExtendedByEntries
NewResponses2 == Copying(Responses2Members, {"Codes"}, {})

\* Operations and paths. The reference of a path item is not copied.
Operation2Members ==
    Plain({"Summary", "Description", "OperationId", "Deprecated"})
        @@ List({"Tags", "Consumes", "Produces", "Parameters", "Schemes", "Security"})
        @@ Object({"ExternalDocs", "Responses"}) @@ ExtendedByEntries
NewOperation2 ==
    Copying(Operation2Members,
            {"Tags", "Consumes", "Produces", "Parameters", "Schemes", "Security"}, {})

PathItem2Members ==
    Plain({"Ref"})
        @@ Object({"Get", "Put", "Post", "Delete", "Options", "Head", "Patch"})
        @@ List({"Parameters"}) @@ ExtendedByEntries
NewPathItem2 ==
    [from |-> [f \in DOMAIN PathItem2Members \ {"Ref"} |-> f],
     drops |-> {"Parameters"}, made |-> {}]

Paths2Members == Map({"PathItems"}) @@ ExtendedByEntries
NewPaths2 == Copying(Paths2Members, {}, {"PathItems"})

\* The definitions of a document.
DefinitionsMembers == Map({"Schemas"})
NewDefinitions == Copying(DefinitionsMembers, {}, {"Schemas"})

ParameterDefinitionsMembers == Map({"Definitions"})
NewParameterDefinitions == Copying(ParameterDefinitionsMembers, {}, {"Definitions"})

ResponsesDefinitionsMembers == Map({"Definitions"})
NewResponsesDefinitions == Copying(ResponsesDefinitionsMembers, {}, {"Definitions"})

SecurityDefinitionsMembers == Map({"Definitions"})
NewSecurityDefinitions == Copying(SecurityDefinitionsMembers, {}, {"Definitions"})

\* The document.
SwaggerMembers ==
    Plain({"Swagger", "Host", "BasePath"})
        @@ Object({"Info", "Paths", "Definitions", "Parameters", "Responses",
                   "SecurityDefinitions", "ExternalDocs"})
        @@ List({"Schemes", "Consumes", "Produces", "Security", "Tags"})
        @@ ExtendedByEntries
NewSwagger ==
    Copying(SwaggerMembers, {"Schemes", "Consumes", "Produces", "Security", "Tags"}, {})

V2Members ==
    [Items |-> ItemsMembers, Header2 |-> Header2Members,
     Parameter2 |-> Parameter2Members, Scopes |-> ScopesMembers,
     SecurityScheme2 |-> SecurityScheme2Members, Examples |-> ExamplesMembers,
     Response2 |-> Response2Members, Responses2 |-> Responses2Members,
     Operation2 |-> Operation2Members, PathItem2 |-> PathItem2Members,
     Paths2 |-> Paths2Members, Definitions |-> DefinitionsMembers,
     ParameterDefinitions |-> ParameterDefinitionsMembers,
     ResponsesDefinitions |-> ResponsesDefinitionsMembers,
     SecurityDefinitions |-> SecurityDefinitionsMembers, Swagger |-> SwaggerMembers]
V2New ==
    [Items |-> NewItems, Header2 |-> NewHeader2, Parameter2 |-> NewParameter2,
     Scopes |-> NewScopes, SecurityScheme2 |-> NewSecurityScheme2,
     Examples |-> NewExamples, Response2 |-> NewResponse2,
     Responses2 |-> NewResponses2, Operation2 |-> NewOperation2,
     PathItem2 |-> NewPathItem2, Paths2 |-> NewPaths2,
     Definitions |-> NewDefinitions, ParameterDefinitions |-> NewParameterDefinitions,
     ResponsesDefinitions |-> NewResponsesDefinitions,
     SecurityDefinitions |-> NewSecurityDefinitions, Swagger |-> NewSwagger]
=============================================================================
