------------------------------- MODULE HighV3 -------------------------------
(***************************************************************************)
(* The high-level objects of an OpenAPI 3 document (datamodel/high/v3).    *)
(***************************************************************************)
EXTENDS HighBase

\* Servers.
ServerVariableMembers ==
    Plain({"Default", "Description"}) @@ List({"Enum"}) @@ ExtendedByEntries
NewServerVariable == Copying(ServerVariableMembers, {"Enum"}, {})

ServerMembers ==
    Plain({"Name", "URL", "Description"}) @@ Map({"Variables"}) @@ ExtendedByEntries
NewServer == Copying(ServerMembers, {}, {"Variables"})

\* Security schemes and their flows.
OAuthFlowMembers ==
    Plain({"AuthorizationUrl", "TokenUrl", "RefreshUrl"}) @@ [Scopes |-> "flow"]
        @@ ExtendedByEntries
NewOAuthFlow == Copying(OAuthFlowMembers, {}, {"Scopes"})

OAuthFlowsMembers ==
    Object({"Implicit", "Password", "ClientCredentials", "AuthorizationCode",
            "Device"}) @@ ExtendedByEntries
NewOAuthFlows == Copied(OAuthFlowsMembers)

SecuritySchemeMembers ==
    Plain({"Type", "Description", "Name", "In", "Scheme", "BearerFormat",
           "OpenIdConnectUrl", "OAuth2MetadataUrl", "Deprecated"})
        @@ Object({"Flows"}) @@ ExtendedByEntries
NewSecurityScheme == Copied(SecuritySchemeMembers)

\* Media types, headers and parameters.
EncodingMembers ==
    Plain({"ContentType", "Style", "AllowReserved"}) @@ Pointer({"Explode"})
        @@ Map({"Headers"})
NewEncoding == Copying(EncodingMembers, {}, {"Headers"})

MediaTypeMembers ==
    Object({"Schema", "ItemSchema", "Example"})
        @@ Map({"Examples", "Encoding", "ItemEncoding"}) @@ ExtendedByEntries
NewMediaType == Copying(MediaTypeMembers, {}, {"Examples", "Encoding"})

HeaderMembers ==
    Plain({"Description", "Style", "Required", "Deprecated", "AllowEmptyValue",
           "Explode", "AllowReserved"})
        @@ Object({"Schema", "Example"}) @@ Map({"Examples", "Content"})
        @@ ExtendedByEntries
NewHeader == Copying(HeaderMembers, {}, {"Examples", "Content"})

ParameterWithoutRenderZero ==   \* mutant: FALSE is not written
    Plain({"Name", "In", "Description", "Style", "Deprecated", "AllowEmptyValue",
           "AllowReserved"})
        @@ Pointer({"Required", "Explode"}) @@ Object({"Schema", "Example"})
        @@ Map({"Examples", "Content"}) @@ ExtendedByEntries
ParameterMembers ==
    Plain({"Name", "In", "Description", "Style", "Deprecated", "AllowEmptyValue",
           "AllowReserved"})
        @@ Zero({"Required", "Explode"}) @@ Object({"Schema", "Example"})
        @@ Map({"Examples", "Content"}) @@ ExtendedByEntries
NewParameter == Copying(ParameterMembers, {}, {"Examples", "Content"})

RequestBodyMembers ==
    Plain({"Description"}) @@ Map({"Content"}) @@ Zero({"Required"})
        @@ ExtendedByEntries
NewRequestBody == Copying(RequestBodyMembers, {}, {"Content"})

\* Links and responses. The codes of the responses are entries of theirs.
LinkMembers ==
    Plain({"OperationRef", "OperationId", "RequestBody", "Description"})
        @@ Map({"Parameters"}) @@ Object({"Server"}) @@ ExtendedByEntries
NewLink == Copying(LinkMembers, {}, {"Parameters"})

ResponseMembers ==
    Plain({"Summary"}) @@ [Description |-> "always"]
        @@ Map({"Headers", "Content", "Links"}) @@ ExtendedByEntries
NewResponse == Copied(ResponseMembers)

ResponsesMembers ==
    [Codes |-> "entries"] @@ Object({"Default"}) @@ ExtendedByEntries
NewResponses == Copied(ResponsesMembers)
MarshalResponses == Writes({"Codes"})

\* Callbacks, operations and paths.
CallbackMembers == [Expression |-> "entries"] @@ ExtendedByEntries
NewCallback == Copied(CallbackMembers)
MarshalCallback == Writes({"Expression"})

OperationMembers ==
    Plain({"Summary", "Description", "OperationId"})
        @@ List({"Tags", "Parameters", "Security", "Servers"})
        @@ Object({"ExternalDocs", "RequestBody", "Responses"}) @@ Map({"Callbacks"})
        @@ Pointer({"Deprecated"}) @@ ExtendedByEntries
OperationDropsSecurity ==   \* mutant: an empty list of requirements is dropped
    Copying(OperationMembers, {"Tags", "Servers", "Security"}, {})
NewOperation == Copying(OperationMembers, {"Tags", "Servers"}, {})

PathItemMembers ==
    Plain({"Description", "Summary"})
        @@ Object({"Get", "Put", "Post", "Delete", "Options", "Head", "Patch", "Trace",
                   "Query"})
        @@ Map({"AdditionalOperations"}) @@ List({"Servers", "Parameters"})
        @@ ExtendedByEntries
NewPathItem == Copying(PathItemMembers, {"Servers", "AdditionalOperations"}, {})

PathsMembers == [PathItems |-> "entries"] @@ ExtendedByEntries
NewPaths == Copied(PathsMembers)
MarshalPaths == Writes({"PathItems"})

\* Components: every kind of them has a map, be it empty.
ComponentsMembers ==
    Map({"Schemas", "Responses", "Parameters", "Examples", "RequestBodies", "Headers",
         "SecuritySchemes", "Links", "Callbacks", "PathItems", "MediaTypes"})
        @@ ExtendedByEntries
NewComponents == Copying(ComponentsMembers, {}, DOMAIN ComponentsMembers \ {"Extensions"})

\* The document.
DocumentMembers ==
    Plain({"Version", "JsonSchemaDialect", "Self"})
        @@ Object({"Info", "Paths", "Components", "ExternalDocs"})
        @@ List({"Servers", "Security", "Tags"}) @@ Map({"Webhooks"})
        @@ ExtendedByEntries
NewDocument == Copying(DocumentMembers, {"Servers", "Security", "Tags"}, {})

V3Members ==
    [ServerVariable |-> ServerVariableMembers, Server |-> ServerMembers,
     OAuthFlow |-> OAuthFlowMembers, OAuthFlows |-> OAuthFlowsMembers,
     SecurityScheme |-> SecuritySchemeMembers, Encoding |-> EncodingMembers,
     MediaType |-> MediaTypeMembers, Header |-> HeaderMembers,
     Parameter |-> ParameterMembers, RequestBody |-> RequestBodyMembers,
     Link |-> LinkMembers, Response |-> ResponseMembers,
     Responses |-> ResponsesMembers, Callback |-> CallbackMembers,
     Operation |-> OperationMembers, PathItem |-> PathItemMembers,
     Paths |-> PathsMembers, Components |-> ComponentsMembers,
     Document |-> DocumentMembers]
V3New ==
    [ServerVariable |-> NewServerVariable, Server |-> NewServer,
     OAuthFlow |-> NewOAuthFlow, OAuthFlows |-> NewOAuthFlows,
     SecurityScheme |-> NewSecurityScheme, Encoding |-> NewEncoding,
     MediaType |-> NewMediaType, Header |-> NewHeader, Parameter |-> NewParameter,
     RequestBody |-> NewRequestBody, Link |-> NewLink, Response |-> NewResponse,
     Responses |-> NewResponses, Callback |-> NewCallback,
     Operation |-> NewOperation, PathItem |-> NewPathItem, Paths |-> NewPaths,
     Components |-> NewComponents, Document |-> NewDocument]

\* The types with a MarshalYAML of their own; the others go to the NodeBuilder.
V3Marshal ==
    [SecurityRequirement |-> MarshalSecurityRequirement,
     Responses |-> MarshalResponses, Callback |-> MarshalCallback,
     Paths |-> MarshalPaths]
        @@ [type \in DOMAIN BaseMembers \cup DOMAIN V3Members |-> Writes({})]
=============================================================================
