------------------------------- MODULE LowV2 -------------------------------
(***************************************************************************)
(* The low-level objects of a Swagger document (datamodel/low/v2). Those   *)
(* that share a name with an object of version 3 are numbered.             *)
(***************************************************************************)
EXTENDS LowBase

\* What a header, a parameter and the items of an array have in common: the
\* numbers and Booleans are hashed whether they are there or not.
Bounds == {"Maximum", "Minimum", "MaxLength", "MinLength", "MaxItems", "MinItems",
           "MultipleOf"}
Switches == {"ExclusiveMaximum", "ExclusiveMinimum", "UniqueItems"}
HashedBounds ==
    <<"Maximum", "Minimum", "ExclusiveMinimum", "ExclusiveMaximum", "MinLength",
      "MaxLength", "MinItems", "MaxItems", "MultipleOf", "UniqueItems", "Pattern">>

ItemsFields ==
    Each(Text, {"Type", "Format", "CollectionFormat", "Pattern"})
        @@ Each(Number, Bounds) @@ Each(Flag, Switches)
        @@ [Items |-> One("Items"), Default |-> AnyNode, Enum |-> ListOf("any")]
        @@ Extended
ItemsBuild == {"Extensions", "Items", "Default"}
ItemsHash ==
    [Written(<<"Type", "Format", "CollectionFormat", "Default">> \o HashedBounds
                \o <<"Enum", "Items", "Extensions">>)
        EXCEPT !.always = Bounds \cup Switches]

Header2Fields == ItemsFields @@ [Description |-> Text]
Header2Build == {"Extensions", "Items", "Default"}
Header2Hash ==
    [Written(<<"Description", "Type", "Format", "CollectionFormat", "Default">>
                \o HashedBounds \o <<"Extensions", "Enum", "Items">>)
        EXCEPT !.always = Bounds \cup Switches]

Parameter2Fields ==
    Header2Fields @@ Each(Text, {"Name", "In"})
        @@ Each(Flag, {"Required", "AllowEmptyValue"}) @@ [Schema |-> One("Schema")]
Parameter2Build == {"Extensions", "Schema", "Items", "Default"}
Parameter2Hash ==
    [Written(<<"Name", "In", "Type", "Format", "Description", "Required",
               "AllowEmptyValue", "Schema", "CollectionFormat", "Default">>
                \o HashedBounds \o <<"Enum", "Extensions", "Items">>)
        EXCEPT !.always = Bounds \cup Switches \cup {"Required", "AllowEmptyValue"}]

\* Security schemes.
ScopesFields == [Values |-> MapOf("text")] @@ Extended
ScopesBuild == {"Extensions", "Values"}
ScopesHash == Written(<<"Values", "Extensions">>)

SecurityScheme2Fields ==
    Each(Text, {"Type", "Description", "Name", "In", "Flow", "AuthorizationUrl",
                "TokenUrl"}) @@ [Scopes |-> One("Scopes")] @@ Extended
SecurityScheme2Build == {"Extensions", "Scopes"}
SecurityScheme2Hash ==
    Written(<<"Type", "Description", "Name", "In", "Flow", "AuthorizationUrl",
              "TokenUrl", "Scopes", "Extensions">>)

\* Responses. The headers of a response are not hashed.
ExamplesFields == [Values |-> MapOf("any")]
ExamplesBuild == {"Values"}
ExamplesHash == [Written(<<"Values">>) EXCEPT !.keyless = {"Values"}]

Response2Fields ==
    [Description |-> Text, Schema |-> One("Schema"), Headers |-> MapOf("Header2"),
     Examples |-> One("Examples")] @@ Extended
Response2Build == {"Extensions", "Schema", "Examples", "Headers"}
Response2Hash == Written(<<"Description", "Schema", "Examples", "Extensions">>)

Responses2Fields ==
    [Codes |-> MapOf("Response2"), Default |-> One("Response2")] @@ Extended
Responses2Build == {"Extensions", "Codes", "Default"}
Responses2Hash == Written(<<"Codes", "Default", "Extensions">>)

\* Operations and paths.
Operation2Fields ==
    Each(Text, {"Summary", "Description", "OperationId"})
        @@ Each(ListOf("text"), {"Tags", "Consumes", "Produces", "Schemes"})
        @@ [ExternalDocs |-> One("ExternalDoc"), Parameters |-> ListOf("Parameter2"),
            Responses |-> One("Responses2"), Deprecated |-> Flag,
            Security |-> ListOf("SecurityRequirement")] @@ Extended
Operation2Build == {"Extensions", "ExternalDocs", "Parameters", "Responses", "Security"}
Operation2Hash ==
    Written(<<"Summary", "Description", "OperationId", "ExternalDocs", "Responses",
              "Deprecated", "Tags", "Consumes", "Produces", "Schemes", "Parameters",
              "Security", "Extensions">>)

Methods2 == {"Get", "Put", "Post", "Delete", "Options", "Head", "Patch"}
PathItem2Fields ==
    Each(One("Operation2"), Methods2)
        @@ [Ref |-> Text, Parameters |-> ListOf("Parameter2")] @@ Extended
PathItem2Build == Methods2 \cup {"Extensions", "Parameters", "Ref"}
PathItem2Hash ==
    [Written(<<"Get", "Put", "Post", "Delete", "Options", "Head", "Patch",
               "Parameters", "Extensions">>) EXCEPT !.labelled = Methods2]

Paths2Fields == [PathItems |-> MapOf("PathItem2")] @@ Extended
Paths2Build == {"Extensions", "PathItems"}
Paths2Hash ==
    [Written(<<"PathItems", "Extensions">>) EXCEPT !.keyless = {"PathItems"}]

\* The definitions of a document. Only those of schemas are hashed.
DefinitionsFields == [Schemas |-> MapOf("Schema")]
DefinitionsBuild == {"Schemas"}
DefinitionsHash == [Written(<<"Schemas">>) EXCEPT !.keyless = {"Schemas"}]

ParameterDefinitionsFields == [Definitions |-> MapOf("Parameter2")]
ParameterDefinitionsBuild == {"Definitions"}
ResponsesDefinitionsFields == [Definitions |-> MapOf("Response2")]
ResponsesDefinitionsBuild == {"Definitions"}
SecurityDefinitionsFields == [Definitions |-> MapOf("SecurityScheme2")]
SecurityDefinitionsBuild == {"Definitions"}

\* The document: createDocument sets the first ones itself, BuildModel the
\* texts, and a goroutine for each of the parts the rest. It has no Hash.
SwaggerFields ==
    Each(Text, {"Swagger", "Host", "BasePath"})
        @@ Each(ListOf("text"), {"Schemes", "Consumes", "Produces"})
        @@ [Info |-> One("Info"), Paths |-> One("Paths2"),
            Definitions |-> One("Definitions"),
            SecurityDefinitions |-> One("SecurityDefinitions"),
            Parameters |-> One("ParameterDefinitions"),
            Responses |-> One("ResponsesDefinitions"),
            Security |-> ListOf("SecurityRequirement"), Tags |-> ListOf("Tag"),
            ExternalDocs |-> One("ExternalDoc")] @@ Extended
SwaggerCreated == {"Swagger", "Extensions", "ExternalDocs"}
SwaggerParts ==
    {"Info", "Paths", "Definitions", "SecurityDefinitions", "Parameters", "Responses",
     "Security", "Tags"}
SwaggerBuild == SwaggerCreated \cup SwaggerParts

NoHash == Written(<< >>)

V2Fields ==
    [Items |-> ItemsFields, Header2 |-> Header2Fields,
     Parameter2 |-> Parameter2Fields, Scopes |-> ScopesFields,
     SecurityScheme2 |-> SecurityScheme2Fields, Examples |-> ExamplesFields,
     Response2 |-> Response2Fields, Responses2 |-> Responses2Fields,
     Operation2 |-> Operation2Fields, PathItem2 |-> PathItem2Fields,
     Paths2 |-> Paths2Fields, Definitions |-> DefinitionsFields,
     ParameterDefinitions |-> ParameterDefinitionsFields,
     ResponsesDefinitions |-> ResponsesDefinitionsFields,
     SecurityDefinitions |-> SecurityDefinitionsFields,
     Swagger |-> SwaggerFields]
V2Build ==
    [Items |-> ItemsBuild, Header2 |-> Header2Build,
     Parameter2 |-> Parameter2Build, Scopes |-> ScopesBuild,
     SecurityScheme2 |-> SecurityScheme2Build, Examples |-> ExamplesBuild,
     Response2 |-> Response2Build, Responses2 |-> Responses2Build,
     Operation2 |-> Operation2Build, PathItem2 |-> PathItem2Build,
     Paths2 |-> Paths2Build, Definitions |-> DefinitionsBuild,
     ParameterDefinitions |-> ParameterDefinitionsBuild,
     ResponsesDefinitions |-> ResponsesDefinitionsBuild,
     SecurityDefinitions |-> SecurityDefinitionsBuild,
     Swagger |-> SwaggerBuild]
V2Hash ==
    [Items |-> ItemsHash, Header2 |-> Header2Hash,
     Parameter2 |-> Parameter2Hash, Scopes |-> ScopesHash,
     SecurityScheme2 |-> SecurityScheme2Hash, Examples |-> ExamplesHash,
     Response2 |-> Response2Hash, Responses2 |-> Responses2Hash,
     Operation2 |-> Operation2Hash, PathItem2 |-> PathItem2Hash,
     Paths2 |-> Paths2Hash, Definitions |-> DefinitionsHash,
     ParameterDefinitions |-> NoHash, ResponsesDefinitions |-> NoHash,
     SecurityDefinitions |-> NoHash, Swagger |-> NoHash]
=============================================================================
