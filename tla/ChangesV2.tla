----------------------------- MODULE ChangesV2 -----------------------------
(***************************************************************************)
(* How what-changed compares the objects of a Swagger document, and which  *)
(* reports their totals are made of (what-changed/model).                  *)
(***************************************************************************)
EXTENDS LowV2, ChangesBase

\* Two objects whose hashes agree are not looked into.
CompareHashed2 == [CompareExtensions EXCEPT !.guard = TRUE]

\* The fields of items, headers and parameters are checked by one list; an enum
\* and a default are not on it. It asks for rules that headers do not have, and
\* falls back to changes that break.
SwaggerHeaderProperties ==
    {"Type", "Format", "CollectionFormat", "Pattern"} \cup Bounds \cup Switches
CompareItems ==
    [Comparison EXCEPT !.own = SwaggerHeaderProperties \cup {"Items"},
                       !.inner = {"Items"}, !.equal = {"Items"},
                       !.bold = SwaggerHeaderProperties \cup {"Items"}]
ItemsTotals == AllCount({"Items"})

CompareHeaders2 ==
    [CompareHashed2 EXCEPT
        !.own = {"Description", "Enum", "Items"} \cup SwaggerHeaderProperties,
        !.inner = {"Items"}, !.equal = {"Items"}, !.bold = SwaggerHeaderProperties,
        !.fixed = @ \cup {"Enum"}]
Header2Totals == ButExtensionsBreak({"Items", "Extensions"})

CompareParameters2 ==
    [CompareHashed2 EXCEPT
        !.own = {"Name", "In", "Description", "Required", "AllowEmptyValue", "Default",
                 "Enum", "Items", "Schema"} \cup SwaggerHeaderProperties,
        !.inner = {"Items", "Schema"}, !.equal = {"Items"},
        !.bold = SwaggerHeaderProperties \cup {"Default"}, !.fixed = @ \cup {"Enum"}]
Parameter2Totals == ButExtensionsBreak({"Items", "Schema", "Extensions"})

\* Security schemes.
CompareScopes == [CompareHashed2 EXCEPT !.own = {"Values"}]
ScopesTotals == ButExtensionsBreak({"Extensions"})

CompareSecuritySchemes2 ==
    [CompareHashed2 EXCEPT
        !.own = {"Type", "Description", "Name", "In", "Flow", "AuthorizationUrl",
                 "TokenUrl", "Scopes"},
        !.inner = {"Scopes"}, !.equal = {"Scopes"}]
SecurityScheme2Totals == ButExtensionsBreak({"Scopes", "Extensions"})

\* Responses.
CompareExamplesV2 == [Comparison EXCEPT !.own = {"Values"}, !.calm = {"Values"}]
ExamplesTotals == AllCount({})

CompareResponse2 ==
    [CompareHashed2 EXCEPT
        !.own = {"Description", "Schema", "Headers", "Examples"},
        !.inner = {"Schema", "Headers", "Examples"}, !.equal = {"Headers"},
        !.fixed = @ \cup {"Headers"}]
Response2Totals ==
    Counts({"Headers", "Schema", "Examples", "Extensions"},
           {"Headers", "Schema", "Examples", "Extensions"},
           {"Headers", "Schema", "Extensions"})

CompareResponses2 ==
    [CompareHashed2 EXCEPT !.own = {"Default", "Codes"}, !.inner = {"Default", "Codes"},
                           !.equal = {"Codes"}]
Responses2Totals == AllCount({"Codes", "Default", "Extensions"})

\* Operations and paths.
CompareOperations2 ==
    [CompareHashed2 EXCEPT
        !.own = {"Tags", "Summary", "Description", "Deprecated", "OperationId",
                 "ExternalDocs", "Responses", "Parameters", "Produces", "Consumes",
                 "Schemes"},
        !.wrapped = @ \cup {"Security"},
        !.inner = {"ExternalDocs", "Responses", "Parameters", "Security"},
        !.equal = {"ExternalDocs", "Parameters", "Security"},
        !.fixed = @ \cup {"Produces", "Consumes", "Schemes"}, !.judged = {"Parameters"},
        !.keys = {<<"Parameters", "Name">>, <<"Security", "Requirements">>}]
Operation2Totals ==
    ButExtensionsBreak({"ExternalDocs", "Responses", "Parameters", "Security",
                        "Extensions"})

ComparePathItems2 ==
    [CompareHashed2 EXCEPT
        !.own = {"Parameters"} \cup Methods2, !.inner = {"Parameters"} \cup Methods2,
        !.equal = {"Parameters"}, !.judged = {"Parameters"},
        !.keys = {<<"Parameters", "Name">>}]
PathItem2Totals == ButExtensionsBreak({"Parameters", "Extensions"} \cup Methods2)

ComparePaths2 ==
    [CompareHashed2 EXCEPT !.own = {"PathItems"}, !.inner = {"PathItems"},
                           !.equal = {"PathItems"}]
Paths2Totals == ButExtensionsBreak({"PathItems", "Extensions"})

\* CompareComponents, for the definitions of the document.
CompareDefinitions ==
    [Comparison EXCEPT !.own = {"Schemas"}, !.inner = {"Schemas"},
                       !.equal = {"Schemas"}, !.fixed = {"Schemas"}]
CompareSecurityDefinitions ==
    [Comparison EXCEPT !.own = {"Definitions"}, !.inner = {"Definitions"},
                       !.equal = {"Definitions"}, !.fixed = {"Definitions"}]
CompareListedDefinitions ==
    [Comparison EXCEPT !.own = {"Definitions"}, !.fixed = {"Definitions"}]
DefinitionsTotals == AllCount({"Schemas"})
SecurityDefinitionsTotals == AllCount({"Definitions"})
ListedDefinitionsTotals == AllCount({})

\* CompareDocuments puts the four definitions into one report: of the parameters
\* and responses what comes and goes, of the schemas and security schemes what is
\* modified. Definitions that come or go as a whole are changes of each entry;
\* for paths that do there is no comparison.
ComparedDefinitions == {"Definitions", "SecurityDefinitions"}
CompareSwagger ==
    [CompareExtensions EXCEPT
        !.own = {"Swagger", "Host", "BasePath", "Schemes", "Consumes", "Produces",
                 "ExternalDocs", "Info"},
        !.wrapped = @ \cup {"Tags", "Security", "Parameters", "Responses"},
        !.lost = ComparedDefinitions,
        !.inner = {"Tags", "Paths", "ExternalDocs", "Info", "Security", "Parameters",
                   "Responses"} \cup ComparedDefinitions,
        !.equal = {"ExternalDocs", "Info", "Security"},
        !.calm = {"ExternalDocs", "Info"}, !.bold = {"Host", "BasePath"},
        !.fixed = @ \cup {"Schemes", "Consumes", "Produces", "Parameters", "Responses"},
        !.keys = {<<"Tags", "Name">>, <<"Security", "Requirements">>}]
SwaggerTotals ==
    ButExtensionsBreak(
        {"Info", "Paths", "Tags", "ExternalDocs", "Security", "Parameters",
         "Responses", "Extensions"} \cup ComparedDefinitions)

V2Compare ==
    [Items |-> CompareItems, Header2 |-> CompareHeaders2,
     Parameter2 |-> CompareParameters2, Scopes |-> CompareScopes,
     SecurityScheme2 |-> CompareSecuritySchemes2, Examples |-> CompareExamplesV2,
     Response2 |-> CompareResponse2, Responses2 |-> CompareResponses2,
     Operation2 |-> CompareOperations2, PathItem2 |-> ComparePathItems2,
     Paths2 |-> ComparePaths2, Definitions |-> CompareDefinitions,
     ParameterDefinitions |-> CompareListedDefinitions,
     ResponsesDefinitions |-> CompareListedDefinitions,
     SecurityDefinitions |-> CompareSecurityDefinitions,
     Swagger |-> CompareSwagger]
V2Totals ==
    [Items |-> ItemsTotals, Header2 |-> Header2Totals,
     Parameter2 |-> Parameter2Totals, Scopes |-> ScopesTotals,
     SecurityScheme2 |-> SecurityScheme2Totals, Examples |-> ExamplesTotals,
     Response2 |-> Response2Totals, Responses2 |-> Responses2Totals,
     Operation2 |-> Operation2Totals, PathItem2 |-> PathItem2Totals,
     Paths2 |-> Paths2Totals, Definitions |-> DefinitionsTotals,
     ParameterDefinitions |-> ListedDefinitionsTotals,
     ResponsesDefinitions |-> ListedDefinitionsTotals,
     SecurityDefinitions |-> SecurityDefinitionsTotals,
     Swagger |-> SwaggerTotals]
=============================================================================
