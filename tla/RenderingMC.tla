---------------------------- MODULE RenderingMC ----------------------------
(***************************************************************************)
(* Rendering for every object of OpenAPI 3, Arazzo and overlays, and the   *)
(* loading of those of Swagger, with what is known to be lost.             *)
(***************************************************************************)
EXTENDS Rendering

V3 == INSTANCE LowV3
V2 == INSTANCE LowV2
Steps == INSTANCE LowArazzo
HighV3 == INSTANCE HighV3
HighV2 == INSTANCE HighV2
HighSteps == INSTANCE HighArazzo

AllFields == V3!BaseFields @@ V3!V3Fields @@ V2!V2Fields @@ Steps!StepsFields
AllBuild == V3!BaseBuild @@ V3!V3Build @@ V2!V2Build @@ Steps!StepsBuild
AllMembers ==
    HighV3!BaseMembers @@ HighV3!V3Members @@ HighV2!V2Members @@ HighSteps!StepsMembers
AllNew == HighV3!BaseNew @@ HighV3!V3New @@ HighV2!V2New @@ HighSteps!StepsNew
AllMarshal == HighV3!V3Marshal @@ HighSteps!StepsMarshal
StepsTypes == DOMAIN HighSteps!StepsMembers

In(type, fields) == {<<type, f>> : f \in fields}

\* A schema may be a reference.
ThatHoldSchemas ==
    {<<type, f>> \in UNION {In(t, DOMAIN AllMembers[t]) : t \in DOMAIN AllMembers} :
        /\ AllFields[type][f].of = "Schema"
        /\ AllMembers[type][f] \in {"object", "dynamic"}}

\* Lists that a build makes nothing of when they are empty.
KnownUnkept ==
    In("Schema", {"AllOf", "OneOf", "AnyOf", "PrefixItems"})
    \cup In("Operation", {"Parameters", "Servers"}) \cup In("PathItem", {"Parameters"})
    \cup In("ServerVariable", {"Enum"})
KnownHollow == In("PathItem", {"AdditionalOperations"})

\* Additional operations, and the parts of Swagger that constructors mistake.
KnownNotShown ==
    In("PathItem", {"AdditionalOperations"})
    \cup In("Header2", {"Format", "ExclusiveMinimum", "UniqueItems"})
    \cup In("PathItem2", {"Ref"})

\* Empty lists that are not told from none, pointers that are not tagged
\* renderZero, and whatever is empty in what is rendered by hand.
KnownForgotten ==
    KnownUnkept
    \cup In("Schema", {"Enum", "Examples", "Defs", "MultipleOf", "UniqueItems",
                       "Nullable", "Deprecated"})
    \cup In("Encoding", {"Explode"})
    \cup In("Operation", {"Tags", "Deprecated"}) \cup In("PathItem", {"Servers"})
    \cup In("Document", {"Servers", "Security", "Tags"})
    \cup {<<type, f>> \in UNION {In(t, DOMAIN AllMembers[t]) : t \in StepsTypes} :
              AllMembers[type][f] # "zero"}
KnownInvented == In("Response", {"Description"}) \cup In("OAuthFlow", {"Scopes"})
=============================================================================
