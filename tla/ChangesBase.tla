---------------------------- MODULE ChangesBase ----------------------------
(***************************************************************************)
(* How what-changed compares the objects that every version shares, and    *)
(* which reports their totals are made of (what-changed/model).            *)
(***************************************************************************)
EXTENDS LowBase

\* CompareExtensions, which every report of extensions comes from: a removal
\* breaks, an addition or a modification does not.
CompareExtensions ==
    [Comparison EXCEPT !.wrapped = {"Extensions"}, !.fixed = {"Extensions"}]

CompareContact == [Comparison EXCEPT !.own = {"URL", "Name", "Email"}]
ContactTotals == AllCount({})

CompareLicense == [CompareExtensions EXCEPT !.own = {"URL", "Name", "Identifier"}]
LicenseTotals == AllCount({"Extensions"})

CompareInfo ==
    [CompareExtensions EXCEPT
        !.own = {"Title", "Summary", "Description", "TermsOfService", "Version",
                 "Contact", "License"},
        !.inner = {"Contact", "License"}]
InfoTotals == AllCount({"Contact", "License", "Extensions"})

CompareExternalDocs == [CompareExtensions EXCEPT !.own = {"URL", "Description"}]
ExternalDocTotals == AllCount({"Extensions"})

\* The report of external documentation goes into the total of a tag, and not
\* into its breaking changes.
CompareTags ==
    [CompareExtensions EXCEPT
        !.own = {"Name", "Summary", "Description", "Parent", "Kind", "ExternalDocs"},
        !.inner = {"ExternalDocs"}]
TagTotals == Counts({"ExternalDocs", "Extensions"}, {"ExternalDocs", "Extensions"}, {})

CompareExamples ==
    [CompareExtensions EXCEPT
        !.own = {"Summary", "Description", "Value", "ExternalValue", "DataValue",
                 "SerializedValue"}]
ExampleTotals == ButExtensionsBreak({"Extensions"})

CompareSecurityRequirement ==
    [Comparison EXCEPT !.guard = TRUE, !.own = {"Requirements"}]
SecurityRequirementTotals == AllCount({})

CompareDiscriminator ==
    [Comparison EXCEPT !.own = {"PropertyName", "DefaultMapping"},
                       !.wrapped = {"Mapping"}]
DiscriminatorTotals == AllCount({"Mapping"})

CompareXML ==
    [CompareExtensions EXCEPT
        !.own = {"Name", "Namespace", "Prefix", "Attribute", "NodeType", "Wrapped"}]
XMLTotals == ButExtensionsBreak({"Extensions"})

\* CompareSchemas. The fields that checkSchemaPropertyChanges looks at, in its
\* order, each a change of the schema when it comes, goes or is modified.
SchemaTypeChecks == {"SchemaTypeRef", "ExclusiveMaximum", "ExclusiveMinimum", "Type", "Title"}
SchemaBoundChecks ==
    {"MultipleOf", "Maximum", "Minimum", "MaxLength", "MinLength", "Pattern", "Format"}
SchemaSizeChecks ==
    {"MaxItems", "MinItems", "MaxProperties", "MinProperties", "UniqueItems"}
SchemaContentChecks ==
    {"AdditionalProperties", "Description", "ContentEncoding", "ContentMediaType",
     "Default", "Const"}
SchemaFlagChecks == {"Nullable", "ReadOnly", "WriteOnly", "Example", "Deprecated"}
SchemaListChecks == {"Required", "Enum", "Discriminator", "ExternalDocs"}
SchemaConditionChecks ==
    {"If", "Else", "Then", "PropertyNames", "Contains", "UnevaluatedItems"}
SchemaInnerChecks == {"UnevaluatedProperties", "Not", "Items"}
SchemaCoreChecks == {"DynamicAnchor", "DynamicRef", "Id", "Comment", "ContentSchema"}

\* The contents that it compares in turn; all but ContentSchema when their
\* hashes differ. The vocabulary and the extensions have reports of their own.
SchemaInner ==
    SchemaConditionChecks \cup SchemaInnerChecks
        \cup {"AdditionalProperties", "Discriminator", "ExternalDocs"}

\* checkMappedSchemaOfASchema and buildProperty; extractSchemaChanges.
MappedSchemas == {"Properties", "DependentSchemas", "PatternProperties"}
ComposedSchemas == {"OneOf", "AllOf", "AnyOf", "PrefixItems"}

CompareSchemas ==
    [CompareExtensions EXCEPT
        !.guard = TRUE,
        !.own = {"XML", "Examples"} \cup SchemaTypeChecks \cup SchemaBoundChecks
            \cup SchemaSizeChecks \cup SchemaContentChecks \cup SchemaFlagChecks
            \cup SchemaListChecks \cup SchemaConditionChecks \cup SchemaInnerChecks
            \cup SchemaCoreChecks \cup MappedSchemas \cup ComposedSchemas,
        !.wrapped = @ \cup {"Vocabulary", "DependentRequired"},
        !.inner = {"XML", "ContentSchema"} \cup SchemaInner \cup MappedSchemas
            \cup ComposedSchemas,
        !.equal = {"XML"} \cup SchemaInner \cup MappedSchemas \cup ComposedSchemas,
        !.calm = {"Example"}, !.judged = {"Examples"}]

\* GetAllChanges, TotalChanges and TotalBreakingChanges of a schema.
SchemaListed ==
    SchemaInner \cup MappedSchemas \cup ComposedSchemas
        \cup {"DependentRequired", "XML", "Extensions"}
SchemaTotal == SchemaListed \cup {"ContentSchema", "Vocabulary"}
SchemaUncomposed ==   \* mutant: the breaking changes of allOf are left out
    SchemaTotal \ {"AllOf", "ExternalDocs", "Extensions"}
SchemaBreaking == SchemaTotal \ {"ExternalDocs", "Extensions"}
SchemaTotals ==
    [Counts(SchemaListed, SchemaTotal, SchemaBreaking) EXCEPT !.twice = {"AllOf"}]

BaseCompare ==
    [Contact |-> CompareContact, License |-> CompareLicense, Info |-> CompareInfo,
     ExternalDoc |-> CompareExternalDocs, Tag |-> CompareTags,
     Example |-> CompareExamples, SecurityRequirement |-> CompareSecurityRequirement,
     Discriminator |-> CompareDiscriminator, XML |-> CompareXML,
     Schema |-> CompareSchemas]
BaseTotals ==
    [Contact |-> ContactTotals, License |-> LicenseTotals, Info |-> InfoTotals,
     ExternalDoc |-> ExternalDocTotals, Tag |-> TagTotals, Example |-> ExampleTotals,
     SecurityRequirement |-> SecurityRequirementTotals,
     Discriminator |-> DiscriminatorTotals, XML |-> XMLTotals,
     Schema |-> SchemaTotals]
=============================================================================
