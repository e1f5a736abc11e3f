-------------------------- MODULE RolodexLoaderMC --------------------------
(* Small document graphs for RolodexLoader. *)
EXTENDS RolodexLoader, TLC

CONSTANTS docR, docA, docB, docC, docD  \* the root document and four more

Whole(f) == [file |-> f, kind |-> "whole"]
Frag(f) == [file |-> f, kind |-> "frag"]

AllFiles == {docR, docA, docB, docC, docD}
AllButD == AllFiles \ {docD}
NoRemote == {}

Reads(set) == [f \in File |-> set]
OwnName == [f \in File |-> f]
OkOutcome == Reads({"ok"})

\* Three branches that meet in docC, a remote document that names itself;
\* two of them are fragment lookups of the root.  docB is remote and shares
\* its last path element with docC; docD is not allowed.
DiamondRefs ==
    (docR :> <<Whole(docA), Frag(docB), Frag(docC)>>) @@ (docA :> <<Whole(docC), Frag(docA)>>)
    @@ (docB :> <<Whole(docC), Whole(docD)>>) @@ (docC :> <<Whole(docC)>>) @@ (docD :> << >>)

DiamondOutcome ==
    (docR :> {"ok"}) @@ (docA :> {"ok", "error", "unsupported"}) @@ (docB :> {"ok", "clienterr"})
    @@ (docC :> {"ok", "empty", "error", "noresponse", "badtype"}) @@ (docD :> {"ok"})

RemoteFiles == {docB, docC}
SharedName == [f \in AllFiles |-> IF f = docC THEN docB ELSE f]

\* The smallest cycle two branches can enter from both ends.
TwoCycleRefs ==
    (docR :> <<Whole(docA), Whole(docB)>>) @@ (docA :> <<Whole(docB)>>) @@ (docB :> <<Whole(docA)>>)
    @@ (docC :> << >>) @@ (docD :> << >>)

\* The tasks, chain by chain: one more reference for every chain whose last
\* file does not repeat.
Longer(chains) ==
    UNION {{Append(t, Refs[Document(t)][i]) : i \in DOMAIN Refs[Document(t)]} :
              t \in {u \in chains : u = RootJob \/ Target(u) \notin Ctx(u)}}

One == Longer({RootJob})
Two == Longer(One)
Three == Longer(Two)
Four == Longer(Three)

AllTasks == One \cup Two \cup Three \cup Four \cup Longer(Four)

=============================================================================
