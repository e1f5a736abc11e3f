----------------------------- MODULE HighBase -----------------------------
(***************************************************************************)
(* The high-level objects that every version shares (datamodel/high/base). *)
(* For each: the members of its struct and what its constructor copies.    *)
(***************************************************************************)
EXTENDS Members

\* Contact, License and Info.
ContactMembers == Plain({"Name", "URL", "Email"}) @@ ExtendedByEntries
NewContact == Copied(ContactMembers)

LicenseMembers == Plain({"Name", "URL", "Identifier"}) @@ ExtendedByEntries
NewLicense == Copied(LicenseMembers)

InfoMembers ==
    Plain({"Title", "Summary", "Description", "TermsOfService", "Version"})
        @@ Object({"Contact", "License"}) @@ ExtendedByEntries
NewInfo == Copied(InfoMembers)

\* Tags, external documentation and examples.
ExternalDocMembers == Plain({"Description", "URL"}) @@ ExtendedByEntries
NewExternalDoc == Copied(ExternalDocMembers)

TagMembers ==
    Plain({"Name", "Summary", "Description", "Parent", "Kind"})
        @@ Object({"ExternalDocs"}) @@ ExtendedByEntries
TagKindFromParent ==   \* mutant: the kind is copied from the parent
    [Copied(TagMembers) EXCEPT !.from["Kind"] = "Parent"]
NewTag == Copied(TagMembers)

ExampleMembers ==
    Plain({"Summary", "Description", "ExternalValue", "SerializedValue"})
        @@ Object({"Value", "DataValue"}) @@ ExtendedByEntries
NewExample == Copied(ExampleMembers)

\* A requirement writes its entries itself.
SecurityRequirementMembers == [Requirements |-> "entries"]
NewSecurityRequirement == Copied(SecurityRequirementMembers)
MarshalSecurityRequirement == Writes({"Requirements"})

\* The parts of a schema.
DiscriminatorMembers == Plain({"PropertyName", "DefaultMapping"}) @@ Map({"Mapping"})
NewDiscriminator == Copying(DiscriminatorMembers, {}, {"Mapping"})

XMLMembers ==
    Plain({"Name", "Namespace", "Prefix", "NodeType", "Attribute", "Wrapped"})
        @@ ExtendedByEntries
NewXML == Copied(XMLMembers)

\* Schema. Whether zero and FALSE are written depends on the tag of the pointer.
SchemaMembers ==
    Plain({"SchemaTypeRef", "Id", "Anchor", "DynamicAnchor", "DynamicRef", "Comment",
           "Title", "Pattern", "Format", "Description", "ContentEncoding",
           "ContentMediaType"})
    @@ Pointer({"MultipleOf", "UniqueItems", "Nullable", "Deprecated"})
    @@ Zero({"Maximum", "Minimum", "MaxLength", "MinLength", "MaxItems", "MinItems",
             "MaxProperties", "MinProperties", "MinContains", "MaxContains",
             "ReadOnly", "WriteOnly"})
    @@ Object({"ExclusiveMaximum", "ExclusiveMinimum", "Contains", "If", "Else",
               "Then", "Not", "PropertyNames", "UnevaluatedItems", "ContentSchema",
               "Discriminator", "XML", "ExternalDocs", "Default", "Const", "Example"})
    @@ Each("dynamic", {"Items", "AdditionalProperties", "UnevaluatedProperties"})
    @@ List({"AllOf", "OneOf", "AnyOf", "PrefixItems", "Examples", "Enum", "Required"})
    @@ Map({"DependentSchemas", "DependentRequired", "PatternProperties", "Defs",
            "Properties", "Vocabulary"})
    @@ [Type |-> "types"] @@ ExtendedByEntries

\* NewSchema in the order of the source: bounds and first schemas, texts and
\* lists, then the maps and lists of schemas.
NewSchemaBounds ==
    {"Title", "SchemaTypeRef", "MultipleOf", "Maximum", "Minimum", "ExclusiveMaximum",
     "ExclusiveMinimum", "MaxLength", "MinLength", "MaxItems", "MinItems",
     "MaxProperties", "MinProperties", "MaxContains", "MinContains", "UniqueItems",
     "Contains", "If", "Else", "Then", "PropertyNames", "UnevaluatedItems",
     "UnevaluatedProperties"}
NewSchemaValues ==
    {"Pattern", "Format", "Type", "AdditionalProperties", "Description",
     "ContentEncoding", "ContentMediaType", "Default", "Const", "Nullable",
     "ReadOnly", "WriteOnly", "Deprecated", "Example", "Examples", "Extensions",
     "Discriminator", "XML", "ExternalDocs", "Required", "Id", "Anchor",
     "DynamicAnchor", "DynamicRef", "Comment", "ContentSchema", "Vocabulary", "Enum"}
NewSchemaSchemas ==
    {"Properties", "DependentSchemas", "DependentRequired", "PatternProperties",
     "Defs", "AllOf", "OneOf", "AnyOf", "Items", "PrefixItems", "Not"}
NewSchema ==
    [from |-> [f \in NewSchemaBounds \cup NewSchemaValues \cup NewSchemaSchemas |-> f],
     drops |-> {"Type", "Examples", "Enum", "Defs"}, made |-> {}]

BaseMembers ==
    [Contact |-> ContactMembers, License |-> LicenseMembers, Info |-> InfoMembers,
     ExternalDoc |-> ExternalDocMembers, Tag |-> TagMembers,
     Example |-> ExampleMembers, SecurityRequirement |-> SecurityRequirementMembers,
     Discriminator |-> DiscriminatorMembers, XML |-> XMLMembers,
     Schema |-> SchemaMembers]
BaseNew ==
    [Contact |-> NewContact, License |-> NewLicense, Info |-> NewInfo,
     ExternalDoc |-> NewExternalDoc, Tag |-> NewTag, Example |-> NewExample,
     SecurityRequirement |-> NewSecurityRequirement,
     Discriminator |-> NewDiscriminator, XML |-> NewXML, Schema |-> NewSchema]
=============================================================================
