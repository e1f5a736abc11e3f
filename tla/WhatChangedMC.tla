--------------------------- MODULE WhatChangedMC ---------------------------
(***************************************************************************)
(* WhatChanged for every object of OpenAPI 3 and Swagger, with what its    *)
(* reports are known to leave out.                                         *)
(***************************************************************************)
EXTENDS WhatChanged, ChangesV3, ChangesV2

AllFields == BaseFields @@ V3Fields @@ V2Fields
AllBuild == BaseBuild @@ V3Build @@ V2Build
AllHash == BaseHash @@ V3Hash @@ V2Hash
AllCompare == BaseCompare @@ V3Compare @@ V2Compare
AllTotals == BaseTotals @@ V3Totals @@ V2Totals
Documents == {"Document", "Swagger"}

Ways2(type, fields) == {<<type, f>> : f \in fields}
Whole == {"filled", "emptied"}
Entries == {"added", "removed", "renamed"}
AnyOp == Whole \cup Entries \cup {"modified"}
EditsTo(type, fields, ops) == {<<type, f, op>> : f \in fields, op \in ops}

\* Fields that Compare functions do not look at.
Overlooked ==
    EditsTo("Schema", {"Anchor", "MinContains", "MaxContains", "Defs"}, AnyOp)
    \cup EditsTo("Contact", {"Extensions"}, AnyOp)
    \cup EditsTo("ServerVariable", {"Extensions"}, AnyOp)
    \cup EditsTo("Components", {"PathItems"}, AnyOp)
    \cup EditsTo("PathItem", {"AdditionalOperations"}, Whole)
    \cup EditsTo("Header2", {"Default"}, AnyOp)
    \cup EditsTo("Items", {"Default", "Enum", "Extensions"}, AnyOp)
    \cup EditsTo("PathItem2", {"Ref"}, AnyOp)
\* Changes that are made and not kept.
Dropped ==
    EditsTo("Server", {"Variables"}, AnyOp)
    \cup EditsTo("Definitions", {"Schemas"}, AnyOp)
    \cup EditsTo("SecurityDefinitions", {"Definitions"}, AnyOp)
    \cup EditsTo("Swagger", {"Definitions", "SecurityDefinitions"}, Whole)
\* Fields that hashes leave out, so that the objects pass for equal.
Unhashed ==
    EditsTo("License", {"Extensions"}, AnyOp)
    \cup EditsTo("Response2", {"Headers"}, AnyOp)
\* Maps that are hashed without their keys.
Renamed ==
    EditsTo("MediaType", {"Examples", "Encoding", "ItemEncoding"}, {"renamed"})
    \cup EditsTo("Parameter", {"Examples", "Content"}, {"renamed"})
    \cup EditsTo("RequestBody", {"Content"}, {"renamed"})
    \cup EditsTo("Link", {"Parameters"}, {"renamed"})
    \cup EditsTo("Callback", {"Expression"}, {"renamed"})
    \cup EditsTo("Operation", {"Callbacks"}, {"renamed"})
    \cup EditsTo("Paths2", {"PathItems"}, {"renamed"})
    \cup EditsTo("Examples", {"Values"}, {"renamed"})
    \cup EditsTo("Discriminator", {"Mapping"}, {"renamed"})
\* A Swagger document without paths cannot be compared with one that has some.
Failing == EditsTo("Swagger", {"Paths"}, Whole)
KnownEdits == Overlooked \cup Dropped \cup Unhashed \cup Renamed \cup Failing

\* The contents of components are looked at where they are used.
KnownWays ==
    Ways2("Components", ListedComponents \cup {"PathItems"})
    \cup Ways2("ParameterDefinitions", {"Definitions"})
    \cup Ways2("ResponsesDefinitions", {"Definitions"})
    \cup Ways2("Response2", {"Headers"})
    \cup Ways2("Schema", {"Defs"})
KnownUnlisted == Ways2("Schema", {"ContentSchema", "Vocabulary"})
KnownUncounted ==
    {<<type, "Extensions">> : type \in
        {"Tag", "Example", "XML", "Schema", "Server", "OAuthFlow", "OAuthFlows",
         "SecurityScheme", "MediaType", "Header", "Parameter", "RequestBody", "Link",
         "Operation", "PathItem", "Paths", "Components", "Document", "Header2",
         "Parameter2", "Scopes", "SecurityScheme2", "Operation2", "PathItem2", "Paths2",
         "Swagger"}}
    \cup Ways2("Tag", {"ExternalDocs"}) \cup Ways2("Schema", {"ExternalDocs"})
    \cup Ways2("Response2", {"Examples"})
\* Rules that no Compare function asks for, of references, which are left out here, or
\* of fields that go by others; those of examples are overruled by those of the maps
\* that examples are in.
KnownUnheeded ==
    {<<"Schema", "Ref">>, <<"Schema", "Example">>, <<"Header", "Schema">>,
     <<"MediaType", "ItemEncoding">>}
    \cup Ways2("Example", DOMAIN ExampleRules)
\* A configuration of one's own that says more than the default and less.
OwnRules ==
    [Operation |-> [OperationID |-> [modified |-> FALSE]],
     Info |-> [Title |-> [modified |-> TRUE]],
     Example |-> [Value |-> [removed |-> TRUE, modified |-> TRUE]]]
AllRules == Merge(DefaultRules, OwnRules)
KnownDouble == Ways2("Schema", {"AllOf"})
KnownUnguarded ==
    {"Components", "Document", "Definitions", "ParameterDefinitions",
     "ResponsesDefinitions", "SecurityDefinitions", "Swagger", "Tag"}
=============================================================================
