----------------------------- MODULE ChangesV3 -----------------------------
(***************************************************************************)
(* How what-changed compares the objects of an OpenAPI 3 document, and     *)
(* which reports their totals are made of (what-changed/model).            *)
(***************************************************************************)
EXTENDS LowV3, ChangesBase

\* Two objects whose hashes agree are not looked into.
CompareHashed == [CompareExtensions EXCEPT !.guard = TRUE]

CompareServerVariables ==
    [Comparison EXCEPT !.guard = TRUE, !.own = {"Enum", "Default", "Description"}]
ServerVariableTotals == AllCount({})

\* The variables that come and go are put on the list of changes after the
\* report has taken it.
CompareServers ==
    [CompareHashed EXCEPT !.own = {"Name", "URL", "Description"},
                          !.inner = {"Variables"}, !.equal = {"Variables"}]
ServerTotals ==
    Counts({"Variables", "Extensions"}, {"Variables", "Extensions"}, {"Variables"})

CompareOAuthFlow ==
    [CompareHashed EXCEPT
        !.own = {"AuthorizationUrl", "TokenUrl", "RefreshUrl", "Scopes"}]
OAuthFlowTotals == ButExtensionsBreak({"Extensions"})

Flows == {"Implicit", "Password", "ClientCredentials", "AuthorizationCode", "Device"}
CompareOAuthFlows == [CompareHashed EXCEPT !.own = Flows, !.inner = Flows]
OAuthFlowsTotals == ButExtensionsBreak(Flows \cup {"Extensions"})

CompareSecuritySchemes ==
    [CompareHashed EXCEPT
        !.own = {"Type", "Description", "Name", "In", "Scheme", "BearerFormat",
                 "OpenIdConnectUrl", "OAuth2MetadataUrl", "Deprecated", "Flows"},
        !.inner = {"Flows"}, !.equal = {"Flows"}]
SecuritySchemeTotals == ButExtensionsBreak({"Flows", "Extensions"})

\* Media types, headers and parameters. Of the maps they hold, entries that
\* come never break and entries that go always do; examples go by a rule.
CompareEncoding ==
    [Comparison EXCEPT
        !.own = {"ContentType", "Style", "Explode", "AllowReserved", "Headers"},
        !.inner = {"Headers"}, !.equal = {"Headers"}, !.fixed = {"Headers"}]
EncodingTotals == AllCount({"Headers"})

MediaMaps == {"Encoding", "ItemEncoding"}
CompareMediaTypes ==
    [CompareHashed EXCEPT
        !.own = {"Example", "Schema", "ItemSchema"} \cup MediaMaps,
        !.wrapped = @ \cup {"Examples"},
        !.inner = {"Schema", "ItemSchema", "Examples"} \cup MediaMaps,
        !.equal = {"Examples"} \cup MediaMaps, !.fixed = @ \cup MediaMaps,
        !.judged = {"Example"}, !.overruled = {"Examples"}]
MediaTypeTotals ==
    ButExtensionsBreak({"Schema", "ItemSchema", "Examples", "Extensions"} \cup MediaMaps)

\* The schema of a header is compared with nothing when it comes or goes.
CompareHeaders ==
    [CompareHashed EXCEPT
        !.own = {"Description", "Style", "AllowReserved", "AllowEmptyValue", "Explode",
                 "Example", "Deprecated", "Required", "Examples", "Content"},
        !.wrapped = @ \cup {"Schema"},
        !.inner = {"Schema", "Examples", "Content"},
        !.equal = {"Examples", "Content"}, !.fixed = @ \cup {"Content"},
        !.judged = {"Example"}, !.overruled = {"Examples"}]
HeaderTotals == ButExtensionsBreak({"Schema", "Examples", "Content", "Extensions"})

CompareParameters ==
    [CompareHashed EXCEPT
        !.own = {"Name", "In", "Description", "Required", "AllowEmptyValue", "Style",
                 "AllowReserved", "Explode", "Deprecated", "Example", "Examples",
                 "Content", "Schema"},
        !.inner = {"Schema", "Examples", "Content"},
        !.equal = {"Examples", "Content"}, !.fixed = @ \cup {"Content"},
        !.overruled = {"Examples"}]
ParameterTotals == ButExtensionsBreak({"Schema", "Examples", "Content", "Extensions"})

CompareRequestBodies ==
    [CompareHashed EXCEPT !.own = {"Description", "Required", "Content"},
                          !.inner = {"Content"}, !.equal = {"Content"},
                          !.fixed = @ \cup {"Content"}]
RequestBodyTotals == ButExtensionsBreak({"Content", "Extensions"})

\* Links and responses.
CompareLinks ==
    [CompareHashed EXCEPT
        !.own = {"OperationRef", "OperationId", "RequestBody", "Description", "Server",
                 "Parameters"},
        !.inner = {"Server"}, !.equal = {"Server"}]
LinkTotals == ButExtensionsBreak({"Server", "Extensions"})

ResponseMaps == {"Headers", "Content", "Links"}
CompareResponse ==
    [CompareHashed EXCEPT !.own = {"Summary", "Description"} \cup ResponseMaps,
                          !.inner = ResponseMaps, !.equal = ResponseMaps,
                          !.fixed = @ \cup ResponseMaps]
ResponseNoLinks ==   \* mutant: TotalChanges leaves the links out
    Counts(ResponseMaps \cup {"Extensions"}, {"Headers", "Content", "Extensions"},
           ResponseMaps \cup {"Extensions"})
ResponseTotals == AllCount(ResponseMaps \cup {"Extensions"})

CompareResponses ==
    [CompareHashed EXCEPT !.own = {"Default", "Codes"}, !.inner = {"Default", "Codes"},
                          !.equal = {"Codes"}]
ResponsesTotals == AllCount({"Codes", "Default", "Extensions"})

\* Callbacks, operations and paths.
CompareCallback ==
    [CompareExtensions EXCEPT !.own = {"Expression"}, !.inner = {"Expression"},
                              !.equal = {"Expression"}]
CallbackTotals == AllCount({"Expression", "Extensions"})

OperationParts ==
    {"ExternalDocs", "Parameters", "Responses", "Security", "RequestBody", "Servers",
     "Callbacks"}

\* Parameters are matched by name, servers by URL and security requirements by
\* the names of their schemes; of the last two, and of callbacks, what comes and
\* goes is in a report of its own.
CompareOperations ==
    [CompareHashed EXCEPT
        !.own = {"Tags", "Summary", "Description", "Deprecated", "OperationId",
                 "ExternalDocs", "Responses", "Parameters", "RequestBody"},
        !.wrapped = @ \cup {"Security", "Servers", "Callbacks"},
        !.inner = OperationParts, !.equal = OperationParts \ {"Responses"},
        !.judged = {"Parameters"},
        !.keys = {<<"Parameters", "Name">>, <<"Servers", "URL">>,
                  <<"Security", "Requirements">>}]
OperationUnlisted ==   \* mutant: GetAllChanges leaves the callbacks out
    [ButExtensionsBreak(OperationParts \cup {"Extensions"})
        EXCEPT !.listed = @ \ {"Callbacks"}]
OperationTotals == ButExtensionsBreak(OperationParts \cup {"Extensions"})

\* Additional operations are compared when both sides have some.
ComparePathItems ==
    [CompareHashed EXCEPT
        !.own = {"Description", "Summary", "AdditionalOperations", "Parameters"}
            \cup Methods,
        !.wrapped = @ \cup {"Servers"},
        !.inner = {"AdditionalOperations", "Servers", "Parameters"} \cup Methods,
        !.equal = {"Servers", "Parameters"}, !.both = {"AdditionalOperations"},
        !.judged = {"Parameters"},
        !.keys = {<<"Parameters", "Name">>, <<"Servers", "URL">>}]
PathItemTotals ==
    ButExtensionsBreak(
        {"AdditionalOperations", "Servers", "Parameters", "Extensions"} \cup Methods)

ComparePaths ==
    [CompareHashed EXCEPT !.own = {"PathItems"}, !.inner = {"PathItems"},
                          !.equal = {"PathItems"}]
PathsTotals == ButExtensionsBreak({"PathItems", "Extensions"})

\* Components: schemas and security schemes are compared in turn, of the others
\* what comes and goes is a change; path items are passed over.
ComparedComponents == {"Schemas", "SecuritySchemes"}
ListedComponents ==
    {"Responses", "Parameters", "Examples", "RequestBodies", "Headers", "Links",
     "Callbacks", "MediaTypes"}
CompareComponents ==
    [CompareExtensions EXCEPT
        !.own = ComparedComponents \cup ListedComponents,
        !.inner = ComparedComponents, !.equal = ComparedComponents,
        !.calm = {"Examples"}, !.fixed = @ \cup ComparedComponents \cup (ListedComponents \ {"Examples"})]
ComponentsTotals == ButExtensionsBreak(ComparedComponents \cup {"Extensions"})

\* The document. Paths that come or go as a whole are changes of each path.
CompareDocuments ==
    [CompareExtensions EXCEPT
        !.own = {"Version", "JsonSchemaDialect", "Self", "ExternalDocs", "Info",
                 "Components", "Webhooks"},
        !.wrapped = @ \cup {"Tags", "Security", "Servers", "Paths"},
        !.inner = {"Tags", "Paths", "ExternalDocs", "Info", "Security", "Components",
                   "Servers", "Webhooks"},
        !.equal = {"ExternalDocs", "Info", "Security", "Servers", "Webhooks"},
        !.calm = {"ExternalDocs", "Info"}, !.fixed = @ \cup {"Webhooks"},
        !.keys = {<<"Tags", "Name">>, <<"Servers", "URL">>,
                  <<"Security", "Requirements">>}]
DocumentTotals ==
    ButExtensionsBreak({"Info", "Paths", "Tags", "ExternalDocs", "Webhooks", "Servers",
                        "Security", "Components", "Extensions"})

V3Compare ==
    [ServerVariable |-> CompareServerVariables, Server |-> CompareServers,
     OAuthFlow |-> CompareOAuthFlow, OAuthFlows |-> CompareOAuthFlows,
     SecurityScheme |-> CompareSecuritySchemes, Encoding |-> CompareEncoding,
     MediaType |-> CompareMediaTypes, Header |-> CompareHeaders,
     Parameter |-> CompareParameters, RequestBody |-> CompareRequestBodies,
     Link |-> CompareLinks, Response |-> CompareResponse,
     Responses |-> CompareResponses, Callback |-> CompareCallback,
     Operation |-> CompareOperations, PathItem |-> ComparePathItems,
     Paths |-> ComparePaths, Components |-> CompareComponents,
     Document |-> CompareDocuments]
V3Totals ==
    [ServerVariable |-> ServerVariableTotals, Server |-> ServerTotals,
     OAuthFlow |-> OAuthFlowTotals, OAuthFlows |-> OAuthFlowsTotals,
     SecurityScheme |-> SecuritySchemeTotals, Encoding |-> EncodingTotals,
     MediaType |-> MediaTypeTotals, Header |-> HeaderTotals,
     Parameter |-> ParameterTotals, RequestBody |-> RequestBodyTotals,
     Link |-> LinkTotals, Response |-> ResponseTotals,
     Responses |-> ResponsesTotals, Callback |-> CallbackTotals,
     Operation |-> OperationTotals, PathItem |-> PathItemTotals,
     Paths |-> PathsTotals, Components |-> ComponentsTotals,
     Document |-> DocumentTotals]
=============================================================================
