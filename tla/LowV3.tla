------------------------------- MODULE LowV3 -------------------------------
(***************************************************************************)
(* The low-level objects of an OpenAPI 3 document (datamodel/low/v3), and  *)
(* the objects of datamodel/low/base they hold.                            *)
(***************************************************************************)
EXTENDS LowBase

\* Servers.
ServerVariableFields ==
    Each(Text, {"Default", "Description"}) @@ [Enum |-> ListOf("text")] @@ Extended
\* A variable is built within Server.Build.
ServerVariableBuild == {"Extensions"}
ServerVariableHash == Written(<<"Enum", "Default", "Description">>)

ServerFields ==
    Each(Text, {"Name", "URL", "Description"})
        @@ [Variables |-> MapOf("ServerVariable")] @@ Extended
ServerBuild == {"Extensions", "Variables"}
ServerHash ==
    [Written(<<"Name", "Variables", "URL", "Description", "Extensions">>)
        EXCEPT !.keyless = {"Variables"}]

\* Security schemes and their flows.
OAuthFlowFields ==
    Each(Text, {"AuthorizationUrl", "TokenUrl", "RefreshUrl"})
        @@ [Scopes |-> MapOf("text")] @@ Extended
OAuthFlowBuild == {"Extensions"}
OAuthFlowHash ==
    Written(<<"AuthorizationUrl", "TokenUrl", "RefreshUrl", "Scopes", "Extensions">>)

OAuthFlowsFields ==
    Each(One("OAuthFlow"), {"Implicit", "Password", "ClientCredentials",
                            "AuthorizationCode", "Device"}) @@ Extended
OAuthFlowsBuild ==
    {"Extensions", "Implicit", "Password", "ClientCredentials",
     "AuthorizationCode", "Device"}
OAuthFlowsHash ==
    Written(<<"Implicit", "Password", "ClientCredentials", "AuthorizationCode",
              "Device", "Extensions">>)

SecuritySchemeFields ==
    Each(Text, {"Type", "Description", "Name", "In", "Scheme", "BearerFormat",
                "OpenIdConnectUrl", "OAuth2MetadataUrl"})
        @@ [Flows |-> One("OAuthFlows"), Deprecated |-> Flag] @@ Extended
SecuritySchemeBuild == {"Extensions", "Flows"}
SecuritySchemeHash ==
    Written(<<"Type", "Description", "Name", "In", "Scheme", "BearerFormat",
              "Flows", "OpenIdConnectUrl", "OAuth2MetadataUrl", "Deprecated",
              "Extensions">>)

\* Media types, headers and parameters.
EncodingFields ==
    Each(Text, {"ContentType", "Style"}) @@ Each(Flag, {"Explode", "AllowReserved"})
        @@ [Headers |-> MapOf("Header")]
EncodingBuild == {"Headers"}
EncodingHash ==
    [Written(<<"ContentType", "Headers", "Style", "Explode", "AllowReserved">>)
        EXCEPT !.always = {"Explode", "AllowReserved"}]

MediaTypeFields ==
    Each(One("Schema"), {"Schema", "ItemSchema"})
        @@ Each(MapOf("Encoding"), {"Encoding", "ItemEncoding"})
        @@ [Example |-> AnyNode, Examples |-> MapOf("Example")] @@ Extended
MediaTypeBuild ==
    {"Extensions", "Example", "Schema", "Examples", "Encoding", "ItemSchema",
     "ItemEncoding"}
MediaTypeHash ==
    [Written(<<"Schema", "ItemSchema", "Example", "Examples", "Encoding",
               "ItemEncoding", "Extensions">>)
        EXCEPT !.keyless = {"Examples", "Encoding", "ItemEncoding"}]

HeaderFields ==
    Each(Text, {"Description", "Style"})
        @@ Each(Flag, {"Required", "Deprecated", "AllowEmptyValue", "Explode",
                       "AllowReserved"})
        @@ [Schema |-> One("Schema"), Example |-> AnyNode,
            Examples |-> MapOf("Example"), Content |-> MapOf("MediaType")]
        @@ Extended
HeaderBuild == {"Extensions", "Example", "Examples", "Schema", "Content"}
HeaderHash ==
    [Written(<<"Description", "Required", "Deprecated", "AllowEmptyValue", "Style",
               "Explode", "AllowReserved", "Schema", "Example", "Examples",
               "Content", "Extensions">>)
        EXCEPT !.always = {"Required", "Deprecated", "AllowEmptyValue", "Explode",
                           "AllowReserved"}]

ParameterFields == HeaderFields @@ Each(Text, {"Name", "In"})
ParameterBuild == {"Extensions", "Example", "Schema", "Examples", "Content"}
ParameterHash ==
    [Written(<<"Name", "In", "Description", "Required", "Deprecated",
               "AllowEmptyValue", "Style", "Explode", "AllowReserved", "Schema",
               "Example", "Examples", "Content", "Extensions">>)
        EXCEPT !.always = {"Required", "Deprecated", "AllowEmptyValue", "Explode",
                           "AllowReserved"},
               !.keyless = {"Examples", "Content"}]

RequestBodyFields ==
    [Description |-> Text, Content |-> MapOf("MediaType"), Required |-> Flag]
        @@ Extended
RequestBodyBuild == {"Extensions", "Content"}
RequestBodyHash ==
    [Written(<<"Description", "Required", "Content", "Extensions">>)
        EXCEPT !.keyless = {"Content"}]

\* Links and responses.
LinkFields ==
    Each(Text, {"OperationRef", "OperationId", "RequestBody", "Description"})
        @@ [Parameters |-> MapOf("text"), Server |-> One("Server")] @@ Extended
LinkBuild == {"Extensions", "Server"}
LinkHash ==
    [Written(<<"Description", "OperationRef", "OperationId", "RequestBody",
               "Server", "Parameters", "Extensions">>)
        EXCEPT !.keyless = {"Parameters"}]

ResponseFields ==
    Each(Text, {"Summary", "Description"})
        @@ [Headers |-> MapOf("Header"), Content |-> MapOf("MediaType"),
            Links |-> MapOf("Link")] @@ Extended
ResponseBuild == {"Extensions", "Headers", "Content", "Links"}
ResponseHash ==
    Written(<<"Summary", "Description", "Headers", "Content", "Links", "Extensions">>)

ResponsesFields ==
    [Codes |-> MapOf("Response"), Default |-> One("Response")] @@ Extended
ResponsesBuild == {"Extensions", "Codes", "Default"}
ResponsesHash == Written(<<"Codes", "Default", "Extensions">>)

\* Callbacks, operations and paths.
CallbackFields == [Expression |-> MapOf("PathItem")] @@ Extended
CallbackBuild == {"Extensions", "Expression"}
CallbackHash ==
    [Written(<<"Expression", "Extensions">>) EXCEPT !.keyless = {"Expression"}]

OperationFields ==
    Each(Text, {"Summary", "Description", "OperationId"})
        @@ [Tags |-> ListOf("text"), ExternalDocs |-> One("ExternalDoc"),
            Parameters |-> ListOf("Parameter"), RequestBody |-> One("RequestBody"),
            Responses |-> One("Responses"), Callbacks |-> MapOf("Callback"),
            Deprecated |-> Flag, Security |-> ListOf("SecurityRequirement"),
            Servers |-> ListOf("Server")] @@ Extended
OperationBuild ==
    {"Extensions", "ExternalDocs", "Parameters", "RequestBody", "Responses",
     "Callbacks", "Security", "Servers"}
OperationHashParts ==   \* mutant: the callbacks are left out
    Written(<<"Summary", "Description", "OperationId", "RequestBody",
              "ExternalDocs", "Responses", "Security", "Deprecated", "Tags",
              "Servers", "Parameters", "Extensions">>)
OperationHash ==
    [Written(<<"Summary", "Description", "OperationId", "RequestBody",
               "ExternalDocs", "Responses", "Security", "Deprecated", "Tags",
               "Servers", "Parameters", "Callbacks", "Extensions">>)
        EXCEPT !.keyless = {"Callbacks"}]

Methods ==
    {"Get", "Put", "Post", "Delete", "Options", "Head", "Patch", "Trace", "Query"}
PathItemFields ==
    Each(Text, {"Description", "Summary"}) @@ Each(One("Operation"), Methods)
        @@ [AdditionalOperations |-> MapOf("Operation"),
            Servers |-> ListOf("Server"), Parameters |-> ListOf("Parameter")]
        @@ Extended
PathItemBuild ==
    Methods \cup {"Extensions", "Parameters", "Servers", "AdditionalOperations"}
PathItemHash ==
    [Written(<<"Description", "Summary", "Get", "Put", "Post", "Delete", "Options",
               "Head", "Patch", "Trace", "Query", "AdditionalOperations",
               "Parameters", "Servers", "Extensions">>)
        EXCEPT !.labelled = Methods]

PathsFields == [PathItems |-> MapOf("PathItem")] @@ Extended
PathsBuild == {"Extensions", "PathItems"}
PathsHash == Written(<<"PathItems", "Extensions">>)

\* Components and the document.
ComponentsFields ==
    [Schemas |-> MapOf("Schema"), Responses |-> MapOf("Response"),
     Parameters |-> MapOf("Parameter"), Examples |-> MapOf("Example"),
     RequestBodies |-> MapOf("RequestBody"), Headers |-> MapOf("Header"),
     SecuritySchemes |-> MapOf("SecurityScheme"), Links |-> MapOf("Link"),
     Callbacks |-> MapOf("Callback"), PathItems |-> MapOf("PathItem"),
     MediaTypes |-> MapOf("MediaType")] @@ Extended
ComponentsBuild == DOMAIN ComponentsFields
ComponentsHash ==
    [Written(<<"Schemas", "Responses", "Parameters", "Examples", "RequestBodies",
               "Headers", "SecuritySchemes", "Links", "Callbacks", "PathItems",
               "MediaTypes", "Extensions">>)
        EXCEPT !.keyless = DOMAIN ComponentsFields \ {"Extensions"}]

DocumentFields ==
    Each(Text, {"Version", "JsonSchemaDialect", "Self"})
        @@ [Info |-> One("Info"), Webhooks |-> MapOf("PathItem"),
            Servers |-> ListOf("Server"), Paths |-> One("Paths"),
            Components |-> One("Components"),
            Security |-> ListOf("SecurityRequirement"), Tags |-> ListOf("Tag"),
            ExternalDocs |-> One("ExternalDoc")] @@ Extended
DocumentHash ==
    Written(<<"Version", "Info", "JsonSchemaDialect", "Self", "Webhooks", "Servers",
              "Paths", "Components", "Security", "Tags", "ExternalDocs",
              "Extensions">>)

\* createDocument sets the first ones; then each extractor sets its part.
CreatedFields == {"Version", "JsonSchemaDialect", "Self", "Extensions"}
ExtractedFields ==
    {"Info", "Servers", "Tags", "Components", "Security", "ExternalDocs", "Paths",
     "Webhooks"}
DocumentBuild == CreatedFields \cup ExtractedFields

V3Fields ==
    [ServerVariable |-> ServerVariableFields, Server |-> ServerFields,
     OAuthFlow |-> OAuthFlowFields, OAuthFlows |-> OAuthFlowsFields,
     SecurityScheme |-> SecuritySchemeFields, Encoding |-> EncodingFields,
     MediaType |-> MediaTypeFields, Header |-> HeaderFields,
     Parameter |-> ParameterFields, RequestBody |-> RequestBodyFields,
     Link |-> LinkFields, Response |-> ResponseFields,
     Responses |-> ResponsesFields, Callback |-> CallbackFields,
     Operation |-> OperationFields, PathItem |-> PathItemFields,
     Paths |-> PathsFields, Components |-> ComponentsFields,
     Document |-> DocumentFields]
V3Build ==
    [ServerVariable |-> ServerVariableBuild, Server |-> ServerBuild,
     OAuthFlow |-> OAuthFlowBuild, OAuthFlows |-> OAuthFlowsBuild,
     SecurityScheme |-> SecuritySchemeBuild, Encoding |-> EncodingBuild,
     MediaType |-> MediaTypeBuild, Header |-> HeaderBuild,
     Parameter |-> ParameterBuild, RequestBody |-> RequestBodyBuild,
     Link |-> LinkBuild, Response |-> ResponseBuild,
     Responses |-> ResponsesBuild, Callback |-> CallbackBuild,
     Operation |-> OperationBuild, PathItem |-> PathItemBuild,
     Paths |-> PathsBuild, Components |-> ComponentsBuild,
     Document |-> DocumentBuild]
V3Hash ==
    [ServerVariable |-> ServerVariableHash, Server |-> ServerHash,
     OAuthFlow |-> OAuthFlowHash, OAuthFlows |-> OAuthFlowsHash,
     SecurityScheme |-> SecuritySchemeHash, Encoding |-> EncodingHash,
     MediaType |-> MediaTypeHash, Header |-> HeaderHash,
     Parameter |-> ParameterHash, RequestBody |-> RequestBodyHash,
     Link |-> LinkHash, Response |-> ResponseHash,
     Responses |-> ResponsesHash, Callback |-> CallbackHash,
     Operation |-> OperationHash, PathItem |-> PathItemHash,
     Paths |-> PathsHash, Components |-> ComponentsHash,
     Document |-> DocumentHash]
=============================================================================
