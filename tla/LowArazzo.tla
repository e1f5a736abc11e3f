----------------------------- MODULE LowArazzo -----------------------------
(***************************************************************************)
(* The low-level objects of Arazzo (datamodel/low/arazzo) and of overlays  *)
(* (datamodel/low/overlay): their fields and the ones their Build sets.    *)
(* Those that share a name with an object of OpenAPI carry a prefix.       *)
(***************************************************************************)
EXTENDS Shapes

\* What the helpers of the builds take of the fields they are asked for: each
\* passes over a node that is not of its kind and leaves the field without a value.
IsObject(content) == content.of \notin Scalar
ExtractObject(fields, names) ==
    {f \in names : fields[f].many = "one" /\ IsObject(fields[f])}
extractArray(fields, names) ==
    {f \in names : fields[f].many = "list" /\ IsObject(fields[f])}
extractObjectMap(fields, names) ==
    {f \in names : fields[f].many = "map" /\ IsObject(fields[f])}
extractStringArray(fields, names) == {f \in names : fields[f] = ListOf("text")}
extractExpressionsMap(fields, names) == {f \in names : fields[f] = MapOf("text")}
extractRawNodeMap(fields, names) == {f \in names : fields[f] = MapOf("any")}
extractRawNode(fields, names) == names
extractComponentRef(fields) == {f \in {"ComponentRef"} : fields[f] = Text}

\* The document, its Info and its sources. initBuild takes the extensions.
ArazzoFields ==
    [Arazzo |-> Text, Info |-> One("ArazzoInfo"),
     SourceDescriptions |-> ListOf("SourceDescription"),
     Workflows |-> ListOf("Workflow"), Components |-> One("ArazzoComponents")]
        @@ Extended
InitBuild == {"Extensions"}
ArazzoBuild ==
    InitBuild \cup ExtractObject(ArazzoFields, {"Info", "Components"})
              \cup extractArray(ArazzoFields, {"SourceDescriptions", "Workflows"})

ArazzoInfoFields == Each(Text, {"Title", "Summary", "Description", "Version"}) @@ Extended
SourceDescriptionFields == Each(Text, {"Name", "URL", "Type"}) @@ Extended

\* Workflows and steps.
WorkflowFields ==
    Each(Text, {"WorkflowId", "Summary", "Description"})
        @@ [Inputs |-> AnyNode, DependsOn |-> ListOf("text"), Steps |-> ListOf("Step"),
            SuccessActions |-> ListOf("SuccessAction"),
            FailureActions |-> ListOf("FailureAction"), Outputs |-> MapOf("text"),
            Parameters |-> ListOf("ArazzoParameter")] @@ Extended
WorkflowBuild ==
    InitBuild \cup extractRawNode(WorkflowFields, {"Inputs"})
              \cup extractStringArray(WorkflowFields, {"DependsOn"})
              \cup extractArray(WorkflowFields, {"Steps", "SuccessActions",
                                                "FailureActions", "Parameters"})
              \cup extractExpressionsMap(WorkflowFields, {"Outputs"})

StepFields ==
    Each(Text, {"StepId", "Description", "OperationId", "OperationPath", "WorkflowId"})
        @@ [Parameters |-> ListOf("ArazzoParameter"),
            RequestBody |-> One("ArazzoRequestBody"),
            SuccessCriteria |-> ListOf("Criterion"),
            OnSuccess |-> ListOf("SuccessAction"),
            OnFailure |-> ListOf("FailureAction"), Outputs |-> MapOf("text")] @@ Extended
StepBuild ==
    InitBuild \cup extractArray(StepFields, {"Parameters", "SuccessCriteria",
                                            "OnSuccess", "OnFailure"})
              \cup ExtractObject(StepFields, {"RequestBody"})
              \cup extractExpressionsMap(StepFields, {"Outputs"})

\* What a step sends. ComponentRef is the key "reference".
ArazzoParameterFields ==
    Each(Text, {"Name", "In", "ComponentRef"}) @@ [Value |-> AnyNode] @@ Extended
ArazzoParameterBuild ==
    InitBuild \cup extractRawNode(ArazzoParameterFields, {"Value"})
              \cup extractComponentRef(ArazzoParameterFields)

ArazzoRequestBodyFields ==
    [ContentType |-> Text, Payload |-> AnyNode,
     Replacements |-> ListOf("PayloadReplacement")] @@ Extended
ArazzoRequestBodyBuild ==
    InitBuild \cup extractRawNode(ArazzoRequestBodyFields, {"Payload"})
              \cup extractArray(ArazzoRequestBodyFields, {"Replacements"})

PayloadReplacementFields == [Target |-> Text, Value |-> AnyNode] @@ Extended
PayloadReplacementBuild ==
    InitBuild \cup extractRawNode(PayloadReplacementFields, {"Value"})

\* Actions and criteria.
SuccessActionFields ==
    Each(Text, {"Name", "Type", "WorkflowId", "StepId", "ComponentRef"})
        @@ [Criteria |-> ListOf("Criterion")] @@ Extended
SuccessActionBuild ==
    InitBuild \cup extractComponentRef(SuccessActionFields)
              \cup extractArray(SuccessActionFields, {"Criteria"})

FailureActionFields ==
    SuccessActionFields @@ Each(Number, {"RetryAfter", "RetryLimit"})
FailureActionBuild ==
    SuccessActionBuild \cup {"RetryAfter", "RetryLimit"}

\* The type of a criterion is a name or an expression type.
CriterionFields ==
    Each(Text, {"Context", "Condition"}) @@ [Type |-> AnyNode] @@ Extended
CriterionBuild == InitBuild \cup extractRawNode(CriterionFields, {"Type"})

CriterionExpressionTypeFields == Each(Text, {"Type", "Version"}) @@ Extended

ArazzoComponentsFields ==
    [Inputs |-> MapOf("any"), Parameters |-> MapOf("ArazzoParameter"),
     SuccessActions |-> MapOf("SuccessAction"),
     FailureActions |-> MapOf("FailureAction")] @@ Extended
ArazzoComponentsBuild ==
    InitBuild \cup extractRawNodeMap(ArazzoComponentsFields, {"Inputs"})
              \cup extractObjectMap(ArazzoComponentsFields,
                                    {"Parameters", "SuccessActions", "FailureActions"})

\* Overlays.
OverlayFields ==
    Each(Text, {"Overlay", "Extends"})
        @@ [Info |-> One("OverlayInfo"), Actions |-> ListOf("OverlayAction")] @@ Extended
OverlayBuild == {"Extensions", "Info", "Actions"}

OverlayInfoFields == Each(Text, {"Title", "Version", "Description"}) @@ Extended
OverlayInfoBuild == {"Extensions"}

OverlayActionFields ==
    Each(Text, {"Target", "Description", "Copy"})
        @@ [Update |-> AnyNode, Remove |-> Flag] @@ Extended
OverlayActionBuild == {"Extensions", "Update"}

StepsFields ==
    [Arazzo |-> ArazzoFields, ArazzoInfo |-> ArazzoInfoFields,
     SourceDescription |-> SourceDescriptionFields, Workflow |-> WorkflowFields,
     Step |-> StepFields, ArazzoParameter |-> ArazzoParameterFields,
     ArazzoRequestBody |-> ArazzoRequestBodyFields,
     PayloadReplacement |-> PayloadReplacementFields,
     SuccessAction |-> SuccessActionFields, FailureAction |-> FailureActionFields,
     Criterion |-> CriterionFields,
     CriterionExpressionType |-> CriterionExpressionTypeFields,
     ArazzoComponents |-> ArazzoComponentsFields, Overlay |-> OverlayFields,
     OverlayInfo |-> OverlayInfoFields, OverlayAction |-> OverlayActionFields]
StepsBuild ==
    [Arazzo |-> ArazzoBuild, ArazzoInfo |-> InitBuild, SourceDescription |-> InitBuild,
     Workflow |-> WorkflowBuild, Step |-> StepBuild,
     ArazzoParameter |-> ArazzoParameterBuild,
     ArazzoRequestBody |-> ArazzoRequestBodyBuild,
     PayloadReplacement |-> PayloadReplacementBuild,
     SuccessAction |-> SuccessActionBuild, FailureAction |-> FailureActionBuild,
     Criterion |-> CriterionBuild, CriterionExpressionType |-> InitBuild,
     ArazzoComponents |-> ArazzoComponentsBuild, Overlay |-> OverlayBuild,
     OverlayInfo |-> OverlayInfoBuild, OverlayAction |-> OverlayActionBuild]
=============================================================================
