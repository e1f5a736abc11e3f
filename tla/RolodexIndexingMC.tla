------------------------- MODULE RolodexIndexingMC --------------------------
(* Small rolodexes for RolodexIndexing. *)
EXTENDS RolodexIndexing, TLC

CONSTANTS fsLocal, fsRemote, fsOther, docA, docB, docC, docX, docY

ThreeSystems == {fsLocal, fsRemote, fsOther}
Docs == {docA, docB, docC, docX, docY}

\* Two files read in advance by one file system, one by another.
TwoAndOne == (fsLocal :> {docA, docB}) @@ (fsRemote :> {}) @@ (fsOther :> {docC})
\* docX is loaded by a file or by the root, docY by the root alone.
SharedLazy == [f \in Ready |-> IF f = docB THEN {} ELSE {docX}]
XandY == {docX, docY}
=============================================================================
