---------------------------- MODULE BreakingRules ----------------------------
(***************************************************************************)
(* The rules that say which changes break (what-changed/model): those that *)
(* are built in, how a configuration of one's own is merged with them, and *)
(* which of them the Compare functions ask for.                            *)
(***************************************************************************)
EXTENDS Shapes

\* A rule has a word on what is added, modified and removed, and may leave out any.
Rule(added, modified, removed) ==
    [added |-> added, modified |-> modified, removed |-> removed]
Never == Rule(FALSE, FALSE, FALSE)
Always == Rule(TRUE, TRUE, TRUE)
OnRemoval == Rule(FALSE, FALSE, TRUE)
OnPresence == Rule(TRUE, FALSE, TRUE)
OnModification == Rule(FALSE, TRUE, FALSE)
OnLoss == Rule(FALSE, TRUE, TRUE)

\* buildDefaultRules, with the rules that belong to no component under "Config".
ConfigRules ==
    Each(OnRemoval, {"Components", "Servers", "Tags", "Security"})
        @@ Each(Always, {"OpenAPI", "JSONSchemaDialect", "Self"})
        @@ Each(OnPresence, {"Schemas"})
InfoRules ==
    Each(Never, {"Title", "Summary", "Description", "TermsOfService", "Version",
                 "Contact", "License"})
ContactRules ==
    Each(Never, {"URL", "Name", "Email"})
LicenseRules ==
    Each(Never, {"URL", "Name", "Identifier"})
PathsRules ==
    Each(OnRemoval, {"Path"})
PathItemRules ==
    Each(OnRemoval, {"Get", "Put", "Post", "Delete", "Options", "Head", "Patch",
                     "Trace", "Query", "AdditionalOperations", "Servers", "Parameters"})
        @@ Each(Never, {"Description", "Summary"})
OperationRules ==
    Each(OnRemoval, {"Tags", "Responses", "Parameters", "Security", "Callbacks",
                     "Servers"})
        @@ Each(Never, {"Summary", "Description", "Deprecated", "ExternalDocs"})
        @@ Each(Always, {"OperationID"})
        @@ Each(OnPresence, {"RequestBody"})
ParameterRules ==
    Each(Never, {"Description", "Style", "Explode", "Deprecated", "Example",
                 "Examples"})
        @@ Each(Always, {"Name", "In", "AllowEmptyValue", "AllowReserved"})
        @@ Each(OnPresence, {"Schema", "Items"})
        @@ Each(OnModification, {"Required"})
RequestBodyRules ==
    Each(Never, {"Description"})
        @@ Each(Always, {"Required"})
ResponsesRules ==
    Each(OnRemoval, {"Default", "Codes"})
ResponseRules ==
    Each(Never, {"Description", "Summary", "Examples"})
        @@ Each(OnPresence, {"Schema"})
MediaTypeRules ==
    Each(Never, {"Example", "Examples"})
        @@ Each(OnPresence, {"Schema", "ItemSchema"})
        @@ Each(OnRemoval, {"ItemEncoding"})
EncodingRules ==
    Each(Always, {"ContentType", "Style", "Explode"})
        @@ Each(Never, {"AllowReserved"})
HeaderRules ==
    Each(Never, {"Description", "Style", "AllowReserved", "Explode", "Example",
                 "Examples", "Deprecated"})
        @@ Each(Always, {"AllowEmptyValue", "Required"})
        @@ Each(OnPresence, {"Schema", "Items"})
SchemaRules ==
    Each(OnModification, {"Type", "Format", "Maximum", "Minimum", "ExclusiveMaximum",
                          "ExclusiveMinimum", "MaxLength", "MinLength", "Pattern",
                          "MaxItems", "MinItems", "MaxProperties", "MinProperties",
                          "UniqueItems", "MultipleOf", "ContentEncoding",
                          "ContentMediaType", "Default", "Const", "Nullable",
                          "ReadOnly", "WriteOnly"})
        @@ Each(OnPresence, {"Required", "Discriminator", "Not", "If", "Then", "Else",
                             "PropertyNames", "Contains", "UnevaluatedItems"})
        @@ Each(Never, {"Ref", "Title", "Description", "Deprecated", "Example",
                        "Examples", "ExternalDocs", "Comment"})
        @@ Each(OnRemoval, {"Enum", "Properties", "AllOf", "AnyOf", "OneOf",
                            "PrefixItems", "XML"})
        @@ Each(Always, {"AdditionalProperties", "Items", "UnevaluatedProperties", "Id",
                         "ContentSchema", "Vocabulary", "SchemaDialect"})
        @@ Each(OnLoss, {"DynamicAnchor", "DynamicRef", "DependentRequired"})
DiscriminatorRules ==
    Each(Always, {"PropertyName", "DefaultMapping"})
        @@ Each(OnLoss, {"Mapping"})
XMLRules ==
    Each(Always, {"Name", "Namespace", "Prefix", "Attribute", "NodeType", "Wrapped"})
ServerRules ==
    Each(Always, {"Name", "URL"})
        @@ Each(Never, {"Description"})
ServerVariableRules ==
    Each(OnRemoval, {"Enum"})
        @@ Each(Always, {"Default"})
        @@ Each(Never, {"Description"})
TagRules ==
    Each(Never, {"Summary", "Description", "Kind", "ExternalDocs"})
        @@ Each(OnLoss, {"Name"})
        @@ Each(Always, {"Parent"})
ExternalDocsRules ==
    Each(Never, {"URL", "Description"})
SecuritySchemeRules ==
    Each(Always, {"Type", "Name", "In", "Scheme", "Flow", "AuthorizationURL",
                  "TokenURL"})
        @@ Each(Never, {"Description", "BearerFormat", "OpenIDConnectURL",
                        "OAuth2MetadataUrl", "Deprecated"})
        @@ Each(OnRemoval, {"Flows", "Scopes"})
SecurityRequirementRules ==
    Each(OnRemoval, {"Schemes", "Scopes"})
OAuthFlowsRules ==
    Each(OnRemoval, {"Implicit", "Password", "ClientCredentials", "AuthorizationCode",
                     "Device"})
OAuthFlowRules ==
    Each(Always, {"AuthorizationURL", "TokenURL", "RefreshURL"})
        @@ Each(OnLoss, {"Scopes"})
CallbackRules ==
    Each(OnRemoval, {"Expressions"})
LinkRules ==
    Each(Always, {"OperationRef", "OperationID", "RequestBody", "Parameters"})
        @@ Each(Never, {"Description"})
        @@ Each(OnPresence, {"Server"})
ExampleRules ==
    Each(Never, {"Summary", "Description", "Value", "ExternalValue", "DataValue",
                 "SerializedValue"})
DefaultRules ==
    [Config |-> ConfigRules, Info |-> InfoRules, Contact |-> ContactRules,
     License |-> LicenseRules, Paths |-> PathsRules, PathItem |-> PathItemRules,
     Operation |-> OperationRules, Parameter |-> ParameterRules,
     RequestBody |-> RequestBodyRules, Responses |-> ResponsesRules,
     Response |-> ResponseRules, MediaType |-> MediaTypeRules,
     Encoding |-> EncodingRules, Header |-> HeaderRules, Schema |-> SchemaRules,
     Discriminator |-> DiscriminatorRules, XML |-> XMLRules, Server |-> ServerRules,
     ServerVariable |-> ServerVariableRules, Tag |-> TagRules,
     ExternalDocs |-> ExternalDocsRules, SecurityScheme |-> SecuritySchemeRules,
     SecurityRequirement |-> SecurityRequirementRules, OAuthFlows |-> OAuthFlowsRules,
     OAuthFlow |-> OAuthFlowRules, Callback |-> CallbackRules, Link |-> LinkRules,
     Example |-> ExampleRules]

\* Merge: a word of the override replaces that of the configuration, one that it
\* does not say leaves it as it is.
MergeRule(base, override) == override @@ base
MergeComponent(base, override) ==
    [property \in DOMAIN base \cup DOMAIN override |->
        IF property \notin DOMAIN override THEN base[property]
        ELSE IF property \notin DOMAIN base THEN override[property]
        ELSE MergeRule(base[property], override[property])]
Merge(config, override) ==
    [component \in DOMAIN config \cup DOMAIN override |->
        IF component \notin DOMAIN override THEN config[component]
        ELSE IF component \notin DOMAIN config THEN override[component]
        ELSE MergeComponent(config[component], override[component])]

\* A change that no rule has a word on does not break.
HasRule(config, component, property) ==
    component \in DOMAIN config /\ property \in DOMAIN config[component]
IsBreaking(config, component, property, how) ==
    /\ HasRule(config, component, property)
    /\ how \in DOMAIN config[component][property]
    /\ config[component][property][how]

\* The component and the properties that a Compare function asks for when a field
\* has changed. They have the names of the object and of the field ...
OtherComponents ==
    [ExternalDoc |-> "ExternalDocs", Header2 |-> "Header", Parameter2 |-> "Parameter",
     Scopes |-> "OAuthFlow", SecurityScheme2 |-> "SecurityScheme",
     Response2 |-> "Response", Responses2 |-> "Responses", Operation2 |-> "Operation",
     PathItem2 |-> "PathItem", Paths2 |-> "Paths", Document |-> "Config",
     Swagger |-> "Config"]
OtherProperties ==
    [OperationId |-> "OperationID", AuthorizationUrl |-> "AuthorizationURL",
     TokenUrl |-> "TokenURL", RefreshUrl |-> "RefreshURL",
     OpenIdConnectUrl |-> "OpenIDConnectURL", Expression |-> "Expressions",
     PathItems |-> "Path", Values |-> "Scopes", SchemaTypeRef |-> "SchemaDialect",
     DependentSchemas |-> "Properties", PatternProperties |-> "Properties",
     JsonSchemaDialect |-> "JSONSchemaDialect"]
NameIn(other, name) == IF name \in DOMAIN other THEN other[name] ELSE name

\* ... but for these.
AskedElsewhere ==
    (<<"SecurityRequirement", "Requirements">> :>
        {<<"SecurityRequirement", "Schemes">>, <<"SecurityRequirement", "Scopes">>})
    @@ (<<"Header", "Schema">> :> {<<"Config", "Schemas">>})
    @@ (<<"Document", "Version">> :> {<<"Config", "OpenAPI">>})
    @@ (<<"Swagger", "Swagger">> :> {<<"Config", "OpenAPI">>})
    @@ (<<"Document", "Paths">> :> {<<"Paths", "Path">>})
Asked(type, f) ==
    IF <<type, f>> \in DOMAIN AskedElsewhere THEN AskedElsewhere[<<type, f>>]
    ELSE {<<NameIn(OtherComponents, type), NameIn(OtherProperties, f)>>}
=============================================================================
