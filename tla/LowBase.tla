------------------------------ MODULE LowBase ------------------------------
(***************************************************************************)
(* The low-level objects that every version shares (datamodel/low/base).   *)
(* For each: its fields with their contents, the fields its Build sets     *)
(* itself (BuildModel sets the rest by reflection) and what Hash writes.   *)
(***************************************************************************)
EXTENDS Shapes

\* Contact, License and Info.
ContactFields == Each(Text, {"Name", "URL", "Email"}) @@ Extended
ContactBuild == {"Extensions"}
ContactHash == Written(<<"Name", "URL", "Email">>)

LicenseFields == Each(Text, {"Name", "URL", "Identifier"}) @@ Extended
LicenseBuild == {"Extensions"}
LicenseHash == Written(<<"Name", "URL", "Identifier">>)

InfoFields ==
    Each(Text, {"Title", "Summary", "Description", "TermsOfService", "Version"})
        @@ [Contact |-> One("Contact"), License |-> One("License")] @@ Extended
InfoBuild == {"Extensions", "Contact", "License"}
InfoHash == Written(<<"Title", "Summary", "Description", "TermsOfService",
                      "Contact", "License", "Version", "Extensions">>)

\* Tags, external documentation and examples.
ExternalDocFields == Each(Text, {"Description", "URL"}) @@ Extended
ExternalDocBuild == {"Extensions"}
ExternalDocHash == Written(<<"Description", "URL", "Extensions">>)

TagFields ==
    Each(Text, {"Name", "Summary", "Description", "Parent", "Kind"})
        @@ [ExternalDocs |-> One("ExternalDoc")] @@ Extended
TagBuild == {"Extensions", "ExternalDocs"}
TagHash == Written(<<"Name", "Summary", "Description", "ExternalDocs",
                     "Parent", "Kind", "Extensions">>)

ExampleFields ==
    Each(Text, {"Summary", "Description", "ExternalValue", "SerializedValue"})
        @@ Each(AnyNode, {"Value", "DataValue"}) @@ Extended
ExampleBuild == {"Extensions", "Value", "DataValue", "SerializedValue"}
ExampleHash == Written(<<"Summary", "Description", "Value", "ExternalValue",
                         "DataValue", "SerializedValue", "Extensions">>)

\* The requirements of a scheme are the names of scopes.
SecurityRequirementFields == [Requirements |-> MapOf("texts")]
SecurityRequirementBuild == {"Requirements"}
SecurityRequirementHash == Written(<<"Requirements">>)

\* The parts of a schema. A Discriminator has no Build.
DiscriminatorFields ==
    Each(Text, {"PropertyName", "DefaultMapping"}) @@ [Mapping |-> MapOf("text")]
DiscriminatorHash ==
    [Written(<<"PropertyName", "Mapping", "DefaultMapping">>)
        EXCEPT !.keyless = {"Mapping"}]

XMLFields ==
    Each(Text, {"Name", "Namespace", "Prefix", "NodeType"})
        @@ Each(Flag, {"Attribute", "Wrapped"}) @@ Extended
XMLBuild == {"Extensions"}
XMLHash == Written(<<"Name", "Namespace", "Prefix", "Attribute", "NodeType",
                     "Wrapped", "Extensions">>)

\* Schema. Its texts and numbers are read by BuildModel; the contents of a
\* dynamic value (items, additionalProperties) are a schema when not a Boolean.
SchemaFields ==
    Each(Text, {"SchemaTypeRef", "Id", "Anchor", "DynamicAnchor", "DynamicRef",
                "Comment", "Title", "Pattern", "Format", "Description",
                "ContentEncoding", "ContentMediaType"})
    @@ Each(Number, {"MultipleOf", "Maximum", "Minimum", "MaxLength", "MinLength",
                     "MaxItems", "MinItems", "MaxProperties", "MinProperties",
                     "MinContains", "MaxContains"})
    @@ Each(Flag, {"UniqueItems", "Nullable", "ReadOnly", "WriteOnly", "Deprecated"})
    @@ Each(AnyNode, {"Default", "Const", "Example"})
    @@ Each(One("bound"), {"ExclusiveMaximum", "ExclusiveMinimum"})
    @@ Each(One("Schema"), {"Contains", "Items", "If", "Else", "Then", "Not",
                            "PropertyNames", "UnevaluatedItems",
                            "UnevaluatedProperties", "AdditionalProperties",
                            "ContentSchema"})
    @@ Each(ListOf("Schema"), {"AllOf", "OneOf", "AnyOf", "PrefixItems"})
    @@ Each(MapOf("Schema"), {"DependentSchemas", "PatternProperties", "Defs",
                              "Properties"})
    @@ [Type |-> One("type"), Required |-> ListOf("text"), Enum |-> ListOf("any"),
        Examples |-> ListOf("any"), DependentRequired |-> MapOf("texts"),
        Vocabulary |-> MapOf("flag"), Discriminator |-> One("Discriminator"),
        XML |-> One("XML"), ExternalDocs |-> One("ExternalDoc")]
    @@ Extended

\* Build in the order of the source: types and bounds, identifiers, examples
\* and parts, then the schemas within the schema.
SchemaBuildTypes == {"Extensions", "Type", "ExclusiveMinimum", "ExclusiveMaximum"}
SchemaBuildParts ==
    {"SchemaTypeRef", "Id", "Anchor", "DynamicAnchor", "DynamicRef", "Comment",
     "Vocabulary", "Example", "Examples", "AdditionalProperties", "Discriminator",
     "ExternalDocs", "XML"}
SchemaBuildMaps ==
    {"Properties", "DependentSchemas", "DependentRequired", "PatternProperties",
     "Defs", "Items", "UnevaluatedProperties"}
SchemaBuildSchemas ==
    {"AnyOf", "OneOf", "AllOf", "Not", "Items", "PrefixItems", "Contains", "If",
     "Else", "Then", "PropertyNames", "UnevaluatedItems", "UnevaluatedProperties",
     "AdditionalProperties", "ContentSchema"}
SchemaBuild ==
    SchemaBuildTypes \cup SchemaBuildParts \cup SchemaBuildMaps \cup SchemaBuildSchemas

SchemaHashValues ==
    <<"SchemaTypeRef", "Title", "MultipleOf", "Maximum", "Minimum", "MaxLength",
      "MinLength", "Pattern", "Format", "MaxItems", "MinItems", "UniqueItems",
      "MaxProperties", "MinProperties", "AdditionalProperties", "Description",
      "ContentEncoding", "ContentMediaType", "Default", "Const", "Nullable",
      "ReadOnly", "WriteOnly", "Deprecated", "ExclusiveMaximum",
      "ExclusiveMinimum">>
SchemaHashParts ==
    <<"Type", "Required", "Enum", "Properties", "XML", "ExternalDocs",
      "Discriminator", "OneOf", "AllOf", "AnyOf", "Not", "Items", "If", "Else",
      "Then", "PropertyNames", "UnevaluatedProperties", "UnevaluatedItems", "Id",
      "Anchor", "DynamicAnchor", "DynamicRef", "Comment", "ContentSchema",
      "Vocabulary", "DependentSchemas", "DependentRequired", "PatternProperties",
      "Defs", "PrefixItems", "Extensions", "Example", "Contains", "MinContains",
      "MaxContains", "Examples">>
SchemaHash == Written(SchemaHashValues \o SchemaHashParts)

BaseFields ==
    [Contact |-> ContactFields, License |-> LicenseFields, Info |-> InfoFields,
     ExternalDoc |-> ExternalDocFields, Tag |-> TagFields,
     Example |-> ExampleFields, SecurityRequirement |-> SecurityRequirementFields,
     Discriminator |-> DiscriminatorFields, XML |-> XMLFields,
     Schema |-> SchemaFields]
BaseBuild ==
    [Contact |-> ContactBuild, License |-> LicenseBuild, Info |-> InfoBuild,
     ExternalDoc |-> ExternalDocBuild, Tag |-> TagBuild, Example |-> ExampleBuild,
     SecurityRequirement |-> SecurityRequirementBuild, Discriminator |-> {},
     XML |-> XMLBuild, Schema |-> SchemaBuild]
BaseHash ==
    [Contact |-> ContactHash, License |-> LicenseHash, Info |-> InfoHash,
     ExternalDoc |-> ExternalDocHash, Tag |-> TagHash, Example |-> ExampleHash,
     SecurityRequirement |-> SecurityRequirementHash,
     Discriminator |-> DiscriminatorHash, XML |-> XMLHash, Schema |-> SchemaHash]
=============================================================================
