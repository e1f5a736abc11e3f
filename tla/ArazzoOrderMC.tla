--------------------------- MODULE ArazzoOrderMC ---------------------------
(* Documents of three workflows, with repeated and unknown names and repeated ids. *)
EXTENDS ArazzoOrder, SequencesExt

CONSTANTS login, list, pay, ghost

FourNames == {login, list, pay, ghost}

\* The lists of names in which none occurs twice, and in which any may.
Once == {SetToSeq(names) : names \in SUBSET FourNames}
Twice ==
    UNION {{SetToSeq(names) \o SetToSeq(again) : again \in SUBSET names} :
              names \in SUBSET FourNames}

DocumentOf(ids, names) == [p \in DOMAIN ids |-> [id |-> ids[p], dependsOn |-> names[p]]]

\* Only login names anything twice.
LoginTwice ==
    {DocumentOf(<<login, list, pay>>, <<first, second, third>>) :
        first \in Twice, second \in Once, third \in Once}

\* Ids that two workflows have, or three, beside one that others may depend on.
FewNames == {<< >>, <<list>>, <<pay>>, <<login, list>>, <<list, list>>}
Repeated ==
    {DocumentOf(ids, <<first, second, third, fourth>>) :
        ids \in {<<login, list, login, pay>>, <<list, login, login, login>>},
        first \in FewNames, second \in FewNames, third \in FewNames, fourth \in FewNames}

AllDocuments == LoginTwice \cup Repeated
=============================================================================
