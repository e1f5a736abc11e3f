------------------------------- MODULE Shapes -------------------------------
(***************************************************************************)
(* How the objects of a description are described: the content of each     *)
(* field, what BuildModel reads by reflection, what a Hash method writes.  *)
(***************************************************************************)
EXTENDS Sequences, SequencesExt, FiniteSets, TLC

One(of) == [many |-> "one", of |-> of]
ListOf(of) == [many |-> "list", of |-> of]
MapOf(of) == [many |-> "map", of |-> of]

\* Scalars: a type is a name or a list of names, a bound a Boolean or a number,
\* "any" a node that is kept as it is.
Text == One("text")
Flag == One("flag")
Number == One("number")
AnyNode == One("any")
Scalar == {"text", "texts", "type", "flag", "number", "bound", "any"}

\* Fields with the same content.
Each(content, names) == [f \in names |-> content]
Extended == [Extensions |-> MapOf("any")]

\* SetField has a case for these contents; buildModelFields passes over two
\* names; a field of any other content is left to the object's own Build.
SetFieldKinds == {Text, Flag, Number, AnyNode, ListOf("text"), ListOf("any"), MapOf("text")}
BuildModelReads(fields) ==
    {f \in DOMAIN fields \ {"Extensions", "PathItems"} : fields[f] \in SetFieldKinds}

\* What a Hash method writes: the fields in their order, those it writes even
\* when absent, those it writes with their name, the maps it writes without keys.
Written(order) == [order |-> order, always |-> {}, labelled |-> {}, keyless |-> {}]
IsWritten(hash, f) == Contains(hash.order, f)

Position(hash, f) == CHOOSE i \in DOMAIN hash.order : hash.order[i] = f
Between(hash, f, g) ==
    {hash.order[i] : i \in {k \in DOMAIN hash.order :
        \/ Position(hash, f) < k /\ k < Position(hash, g)
        \/ Position(hash, g) < k /\ k < Position(hash, f)}}

\* Values are written one behind the other, so that one that moves from a field to
\* another leaves the same text, where nothing is written with it or between (here
\* the fields between are absent, and only those that are always written count).
MoveHides(hash, f, g) ==
    /\ {f, g} \cap (hash.labelled \cup hash.always) = {}
    /\ Between(hash, f, g) \cap hash.always = {}

\* What a Compare function makes of each field. own: an addition, removal or
\* modification is a change of the object; wrapped: it is a change in the report
\* of the field; lost: a change that is made and dropped; inner: the contents are
\* compared in turn, those in equal only when their hashes differ; calm: its
\* changes never break; bold: they always do; fixed: its additions and modifications
\* never break, its removals always do; judged: they break by more than their rule;
\* overruled: by its rule, not by theirs, changes of the contents break; keys: the
\* entries of a list are matched by this field of theirs; both: only a map that both
\* objects have is looked into; guard: nothing is compared when the hashes of the
\* objects agree.
Comparison ==
    [guard |-> FALSE, own |-> {}, wrapped |-> {}, lost |-> {}, inner |-> {},
     equal |-> {}, calm |-> {}, bold |-> {}, fixed |-> {}, judged |-> {},
     overruled |-> {}, keys |-> {}, both |-> {}]

\* The fields whose reports GetAllChanges, TotalChanges and
\* TotalBreakingChanges go into, beside the object's own changes, and those
\* that the last one adds twice.
Counts(listed, total, breaking) ==
    [listed |-> listed, total |-> total, breaking |-> breaking, twice |-> {}]
AllCount(fields) == Counts(fields, fields, fields)
ButExtensionsBreak(fields) == Counts(fields, fields, fields \ {"Extensions"})
=============================================================================
