------------------------------ MODULE Members ------------------------------
(***************************************************************************)
(* How the high-level objects are described (datamodel/high): the kind of  *)
(* each member of a struct, what its constructor takes from the low-level  *)
(* object and what its MarshalYAML writes. A member bears the name of the  *)
(* low-level field it is for.                                              *)
(***************************************************************************)
EXTENDS Shapes

\* The kinds of members. plain: a string, Boolean or number; always: a plain one
\* that is written even when empty; pointer: a pointer to a Boolean or number;
\* zero: one that is tagged renderZero; list, map: written when they are there;
\* types: the list of the types of a schema; flow: a map that is tagged
\* renderZero; object: a pointer to an object or a node; dynamic: a schema or a
\* Boolean; entries: a map whose entries are members of the object itself.
Plain(names) == Each("plain", names)
Pointer(names) == Each("pointer", names)
Zero(names) == Each("zero", names)
List(names) == Each("list", names)
Map(names) == Each("map", names)
Object(names) == Each("object", names)
ExtendedByEntries == [Extensions |-> "entries"]

\* What a constructor does: the field that each member is copied from, the lists
\* and maps of which it makes nothing when they are empty, the maps that it makes
\* even when there are none.
Copied(members) ==
    [from |-> [f \in DOMAIN members |-> f], drops |-> {}, made |-> {}]
Copying(members, drops, made) ==
    [from |-> [f \in DOMAIN members |-> f], drops |-> drops, made |-> made]

\* What a MarshalYAML writes itself, the rest being left to the NodeBuilder or,
\* without one, not written; what it leaves out of an object that has a reference.
Writes(members) == [own |-> members, hidden |-> {}]
Hides(members, hidden) == [own |-> members, hidden |-> hidden]
=============================================================================
