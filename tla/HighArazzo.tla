----------------------------- MODULE HighArazzo -----------------------------
(***************************************************************************)
(* The high-level objects of Arazzo (datamodel/high/arazzo) and of         *)
(* overlays (datamodel/high/overlay). Each writes its members itself, the  *)
(* ones that are not empty.                                                *)
(***************************************************************************)
EXTENDS Members

\* The document, its information and its sources.
ArazzoMembers ==
    Plain({"Arazzo"}) @@ Object({"Info", "Components"})
        @@ List({"SourceDescriptions", "Workflows"}) @@ ExtendedByEntries
NewArazzo == Copying(ArazzoMembers, {"SourceDescriptions", "Workflows"}, {})
MarshalArazzo == Writes(DOMAIN ArazzoMembers)

ArazzoInfoMembers ==
    Plain({"Title", "Summary", "Description", "Version"}) @@ ExtendedByEntries
NewArazzoInfo == Copied(ArazzoInfoMembers)
MarshalArazzoInfo == Writes(DOMAIN ArazzoInfoMembers)

SourceDescriptionMembers == Plain({"Name", "URL", "Type"}) @@ ExtendedByEntries
NewSourceDescription == Copied(SourceDescriptionMembers)
MarshalSourceDescription == Writes(DOMAIN SourceDescriptionMembers)

\* Workflows and steps.
WorkflowMembers ==
    Plain({"WorkflowId", "Summary", "Description"}) @@ Object({"Inputs"})
        @@ List({"DependsOn", "Steps", "SuccessActions", "FailureActions", "Parameters"})
        @@ Map({"Outputs"}) @@ ExtendedByEntries
NewWorkflow ==
    Copying(WorkflowMembers,
            {"DependsOn", "Steps", "SuccessActions", "FailureActions", "Parameters"}, {})
MarshalWorkflow == Writes(DOMAIN WorkflowMembers)

StepMembers ==
    Plain({"StepId", "Description", "OperationId", "OperationPath", "WorkflowId"})
        @@ List({"Parameters", "SuccessCriteria", "OnSuccess", "OnFailure"})
        @@ Object({"RequestBody"}) @@ Map({"Outputs"}) @@ ExtendedByEntries
NewStep ==
    Copying(StepMembers, {"Parameters", "SuccessCriteria", "OnSuccess", "OnFailure"}, {})
MarshalStep == Writes(DOMAIN StepMembers)

\* What a step sends. A parameter with a reference is its reference and value.
ArazzoParameterMembers ==
    Plain({"Name", "In", "ComponentRef"}) @@ Object({"Value"}) @@ ExtendedByEntries
NewArazzoParameter == Copied(ArazzoParameterMembers)
MarshalArazzoParameter ==
    Hides(DOMAIN ArazzoParameterMembers, {"Name", "In", "Extensions"})

ArazzoRequestBodyMembers ==
    Plain({"ContentType"}) @@ Object({"Payload"}) @@ List({"Replacements"})
        @@ ExtendedByEntries
NewArazzoRequestBody == Copying(ArazzoRequestBodyMembers, {"Replacements"}, {})
MarshalArazzoRequestBody == Writes(DOMAIN ArazzoRequestBodyMembers)

PayloadReplacementMembers ==
    Plain({"Target"}) @@ Object({"Value"}) @@ ExtendedByEntries
NewPayloadReplacement == Copied(PayloadReplacementMembers)
MarshalPayloadReplacement == Writes(DOMAIN PayloadReplacementMembers)

\* Actions and criteria. An action with a reference is its reference alone.
SuccessActionMembers ==
    Plain({"Name", "Type", "WorkflowId", "StepId", "ComponentRef"})
        @@ List({"Criteria"}) @@ ExtendedByEntries
NewSuccessAction == Copying(SuccessActionMembers, {"Criteria"}, {})
MarshalSuccessAction ==
    Hides(DOMAIN SuccessActionMembers, DOMAIN SuccessActionMembers \ {"ComponentRef"})

FailureActionMembers ==
    Plain({"Name", "Type", "WorkflowId", "StepId", "ComponentRef"})
        @@ Zero({"RetryAfter", "RetryLimit"}) @@ List({"Criteria"}) @@ ExtendedByEntries
NewFailureAction == Copying(FailureActionMembers, {"Criteria"}, {})
MarshalFailureAction ==
    Hides(DOMAIN FailureActionMembers, DOMAIN FailureActionMembers \ {"ComponentRef"})

CriterionMembers == Plain({"Context", "Condition", "Type"}) @@ ExtendedByEntries
NewCriterion == Copied(CriterionMembers)
MarshalCriterion == Writes(DOMAIN CriterionMembers)

CriterionExpressionTypeMembers ==
    Plain({"Type", "Version"}) @@ ExtendedByEntries
NewCriterionExpressionType == Copied(CriterionExpressionTypeMembers)
MarshalCriterionExpressionType == Writes(DOMAIN CriterionExpressionTypeMembers)

ArazzoComponentsMembers ==
    Map({"Inputs", "Parameters", "SuccessActions", "FailureActions"})
        @@ ExtendedByEntries
NewArazzoComponents == Copied(ArazzoComponentsMembers)
MarshalArazzoComponents == Writes(DOMAIN ArazzoComponentsMembers)

\* Overlays.
OverlayMembers ==
    Plain({"Overlay", "Extends"}) @@ Object({"Info"}) @@ List({"Actions"})
        @@ ExtendedByEntries
NewOverlay == Copied(OverlayMembers)
MarshalOverlay == Writes(DOMAIN OverlayMembers)

OverlayInfoMembers ==
    Plain({"Title", "Version", "Description"}) @@ ExtendedByEntries
NewOverlayInfo == Copied(OverlayInfoMembers)
MarshalOverlayInfo == Writes(DOMAIN OverlayInfoMembers)

OverlayActionMembers ==
    Plain({"Target", "Description", "Copy", "Remove"}) @@ Object({"Update"})
        @@ ExtendedByEntries
NewOverlayAction == Copied(OverlayActionMembers)
MarshalOverlayAction == Writes(DOMAIN OverlayActionMembers)

StepsMembers ==
    [Arazzo |-> ArazzoMembers,
     ArazzoInfo |-> ArazzoInfoMembers,
     SourceDescription |-> SourceDescriptionMembers,
     Workflow |-> WorkflowMembers,
     Step |-> StepMembers,
     ArazzoParameter |-> ArazzoParameterMembers,
     ArazzoRequestBody |-> ArazzoRequestBodyMembers,
     PayloadReplacement |-> PayloadReplacementMembers,
     SuccessAction |-> SuccessActionMembers,
     FailureAction |-> FailureActionMembers,
     Criterion |-> CriterionMembers,
     CriterionExpressionType |-> CriterionExpressionTypeMembers,
     ArazzoComponents |-> ArazzoComponentsMembers,
     Overlay |-> OverlayMembers,
     OverlayInfo |-> OverlayInfoMembers,
     OverlayAction |-> OverlayActionMembers]
StepsNew ==
    [Arazzo |-> NewArazzo,
     ArazzoInfo |-> NewArazzoInfo,
     SourceDescription |-> NewSourceDescription,
     Workflow |-> NewWorkflow,
     Step |-> NewStep,
     ArazzoParameter |-> NewArazzoParameter,
     ArazzoRequestBody |-> NewArazzoRequestBody,
     PayloadReplacement |-> NewPayloadReplacement,
     SuccessAction |-> NewSuccessAction,
     FailureAction |-> NewFailureAction,
     Criterion |-> NewCriterion,
     CriterionExpressionType |-> NewCriterionExpressionType,
     ArazzoComponents |-> NewArazzoComponents,
     Overlay |-> NewOverlay,
     OverlayInfo |-> NewOverlayInfo,
     OverlayAction |-> NewOverlayAction]
StepsMarshal ==
    [Arazzo |-> MarshalArazzo,
     ArazzoInfo |-> MarshalArazzoInfo,
     SourceDescription |-> MarshalSourceDescription,
     Workflow |-> MarshalWorkflow,
     Step |-> MarshalStep,
     ArazzoParameter |-> MarshalArazzoParameter,
     ArazzoRequestBody |-> MarshalArazzoRequestBody,
     PayloadReplacement |-> MarshalPayloadReplacement,
     SuccessAction |-> MarshalSuccessAction,
     FailureAction |-> MarshalFailureAction,
     Criterion |-> MarshalCriterion,
     CriterionExpressionType |-> MarshalCriterionExpressionType,
     ArazzoComponents |-> MarshalArazzoComponents,
     Overlay |-> MarshalOverlay,
     OverlayInfo |-> MarshalOverlayInfo,
     OverlayAction |-> MarshalOverlayAction]
=============================================================================
