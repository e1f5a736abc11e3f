---------------------------- MODULE WhatChanged ----------------------------
(***************************************************************************)
(* CompareDocuments on two documents that differ in one edit, followed     *)
(* from the object that was edited to the root: each object on the way     *)
(* compares its fields, takes the report of the one below into its own and *)
(* adds it to its totals (what-changed/model).                             *)
(*                                                                         *)
(* The objects are given by tables: the contents of each field, what a     *)
(* build reads, what Hash writes, what a Compare function looks at and     *)
(* which reports GetAllChanges, TotalChanges and TotalBreakingChanges go   *)
(* into (see Shapes).                                                      *)
(***************************************************************************)
EXTENDS BreakingRules, Naturals

CONSTANTS
    Fields, Build, Hash, Compare, Totals,  \* the tables, by type
    Roots,                 \* the documents
    Rules,                 \* the breaking rules that are set
    Ops,                   \* the kinds of edits
    SilentEdits,           \* <<type, field, op>>: edits that are known not to be reported
    SilentWays,            \* <<type, field>>: contents whose edits are not reported
    UnlistedWays,          \* ... whose changes are in TotalChanges only
    UncountedBreaks,       \* ... whose breaking changes are not counted
    DoubleBreaks,          \* ... whose breaking changes are counted twice
    Unheeded,              \* <<component, property>>: rules that decide no edit
    Unguarded              \* types that are compared though their hashes agree,
                           \* and so is all that they are held by

Types == DOMAIN Fields

\* The fields that a build sets, by reflection or by itself.
IsRead(type, f) == f \in BuildModelReads(Fields[type]) \cup Build[type]

\* What is told apart: an object comes or goes as a whole; a list or a map also
\* entry by entry, its first and last ones taking the field with them; the contents
\* of a scalar are modified, or move to another field; a key of a map is renamed.
EditsOfOne(content) ==
    {"filled", "emptied"}
        \cup (IF content.of \in Scalar THEN {"modified", "moved"} ELSE {})
EditsOfList == {"filled", "emptied", "added", "removed"}
EditsOfMap(content) ==
    {"filled", "emptied", "added", "removed", "renamed"}
        \cup (IF content.of \in Scalar THEN {"modified"} ELSE {})
EditsOf(content) ==
    CASE content.many = "one" -> EditsOfOne(content)
      [] content.many = "list" -> EditsOfList
      [] OTHER -> EditsOfMap(content)

VARIABLES
    edit,      \* [type, field, op]; of a value that moves, the field it leaves
    at,        \* the type of the object whose report is ready
    fresh,     \* this is still the edited object
    seen,      \* the hashes of its two versions differ
    counted, listed,   \* the change is in TotalChanges, in GetAllChanges
    asked,     \* <<component, property>>: the rules that were asked if it breaks
    breaking,  \* the change is a breaking one
    broken,    \* how often TotalBreakingChanges counts it then, at most twice
    way        \* the edges of the last four constants that were passed, and
               \* "hidden", when the edit left the hash as it was

vars == <<edit, at, fresh, seen, counted, listed, asked, breaking, broken, way>>

\* Hash tells two versions apart that differ in f.
Distinguishes(hash, f, op) ==
    /\ IsWritten(hash, f)
    /\ ~(op = "renamed" /\ f \in hash.keyless)

\* The fields that a value can move to from f, both being compared, and whether the
\* hashes of an object differ after an edit of f.
Alike(type, f) ==
    {g \in DOMAIN Fields[type] \ {f} :
        /\ Fields[type][g] = Fields[type][f]
        /\ {f, g} \subseteq Compare[type].own \cup Compare[type].wrapped
        /\ \A h \in {f, g} : IsRead(type, h) /\ IsWritten(Hash[type], h)}
Differs(type, f, op) ==
    IF op = "moved" THEN {~MoveHides(Hash[type], f, g) : g \in Alike(type, f)}
    ELSE {IsRead(type, f) /\ Distinguishes(Hash[type], f, op)}

\* The change of a field that the Compare function of a type makes itself, in its
\* own list or in the report of the field.
MakesUnlike(type, f, op, differs) ==   \* mutant: equal objects are looked into
    /\ IsRead(type, f)
    /\ \/ f \in Compare[type].own
       \/ f \in Compare[type].wrapped /\ f \in Totals[type].total
    /\ f \in Compare[type].both => op \notin {"filled", "emptied"}
Makes(type, f, op, differs) ==
    LET c == Compare[type]
    IN  /\ IsRead(type, f)
        /\ \/ f \in c.own
           \/ f \in c.wrapped /\ f \in Totals[type].total
        /\ c.guard => differs
        /\ f \in c.both => op \notin {"filled", "emptied"}
Lists(type, f, op, differs) ==
    /\ Makes(type, f, op, differs)
    /\ f \in Compare[type].wrapped => f \in Totals[type].listed

\* Whether it breaks is up to the rules of the field, where there are rules. What
\* moves or is renamed goes from one place and comes to another, and the change that
\* is followed is that it goes.
Goes(op) == op \in {"removed", "emptied", "renamed", "moved"}
How(op) == IF Goes(op) THEN "removed" ELSE IF op = "modified" THEN op ELSE "added"
AsksRules(type, f) ==
    LET c == Compare[type]
    IN  f \in (c.own \cup c.wrapped) \ (c.calm \cup c.bold \cup c.fixed)
Breaks(type, f, op) ==
    LET c == Compare[type]
    IN  CASE f \in c.calm -> {FALSE}
          [] f \in c.bold -> {TRUE}
          [] f \in c.fixed -> {Goes(op)}
          [] f \in c.judged -> BOOLEAN
          [] OTHER -> {IsBreaking(Rules, r[1], r[2], How(op)) : r \in Asked(type, f)}
Judged(type, f, op) ==
    /\ asked' = IF AsksRules(type, f) THEN Asked(type, f) ELSE {}
    /\ breaking' \in Breaks(type, f, op)
Count(type, f) ==
    IF f \in Compare[type].wrapped => f \in Totals[type].breaking THEN 1 ELSE 0

Ways(type, f) ==
    {w \in {"silent", "unlisted", "uncounted", "double"} :
        \/ w = "silent" /\ <<type, f>> \in SilentWays
        \/ w = "unlisted" /\ <<type, f>> \in UnlistedWays
        \/ w = "uncounted" /\ <<type, f>> \in UncountedBreaks
        \/ w = "double" /\ <<type, f>> \in DoubleBreaks}

\* A value has moved and the hashes agree: the objects are taken for equal.
IsHiddenMove(type, op, differs) == op = "moved" /\ ~differs /\ type \notin Unguarded

\* The comparison of the edited object.
CompareEdited(type, f, op) ==
    /\ edit = [type |-> type, field |-> f, op |-> op]
    /\ at = type
    /\ fresh = TRUE
    /\ seen \in Differs(type, f, op)
    /\ counted = Makes(type, f, op, seen)
    /\ listed = Lists(type, f, op, seen)
    /\ asked = IF AsksRules(type, f) THEN Asked(type, f) ELSE {}
    /\ breaking \in Breaks(type, f, op)
    /\ broken = Count(type, f)
    /\ way = (IF <<type, f, op>> \in SilentEdits THEN {"silent"} ELSE {})
                \cup (IF IsHiddenMove(type, op, seen) THEN {"hidden"} ELSE {})
                \cup (IF f \in Compare[type].wrapped THEN Ways(type, f) ELSE {})

Init ==
    \E type \in Types : \E f \in DOMAIN Fields[type] :
    \E op \in EditsOf(Fields[type][f]) \cap Ops : CompareEdited(type, f, op)

\* The fields that hold an object of a type.
HeldBy ==
    [t \in Types |->
        UNION {{<<type, f>> : f \in {g \in DOMAIN Fields[type] :
                                       Fields[type][g].of = t /\ IsRead(type, g)}} :
               type \in Types}]

\* The entries of a list are matched by a field that the edit has changed.
Unmatched(type, f) ==
    /\ fresh
    /\ <<f, edit.field>> \in Compare[type].keys
    /\ edit.op = "modified" => Fields[at][edit.field].many = "one"

Climbed(type, f) ==
    /\ at' = type
    /\ fresh' = FALSE
    /\ seen' = (seen /\ IsWritten(Hash[type], f))
    /\ way' = way \cup Ways(type, f)
    /\ UNCHANGED edit

\* The object compares this field of both sides, and its totals go into the
\* report that comes of it. differs: the hashes of what the field holds do; edited:
\* this is what was edited.
Looks(type, f, differs, edited) ==
    LET c == Compare[type]
    IN  /\ f \in c.inner
        /\ c.guard => differs /\ IsWritten(Hash[type], f)
        /\ f \in c.equal => differs
        /\ ~(f \in c.lost /\ edited)
CompareField(type, f) ==
    /\ ~Unmatched(type, f)
    /\ Climbed(type, f)
    /\ counted' = (counted /\ Looks(type, f, seen, fresh) /\ f \in Totals[type].total)
    /\ listed' = (listed /\ Looks(type, f, seen, fresh) /\ f \in Totals[type].listed)
    /\ IF f \in Compare[type].overruled THEN Judged(type, f, "modified")
       ELSE UNCHANGED <<asked, breaking>>
    /\ broken' = IF ~Looks(type, f, seen, fresh) \/ f \notin Totals[type].breaking THEN 0
                 ELSE IF f \in Totals[type].twice /\ broken > 0 THEN 2
                 ELSE broken

\* The entry that is gone and the one that is new are changes of the object.
CompareUnmatched(type, f) ==
    /\ Unmatched(type, f)
    /\ Climbed(type, f)
    /\ counted' = Makes(type, f, "removed", seen')
    /\ listed' = Lists(type, f, "removed", seen')
    /\ Judged(type, f, "removed")
    /\ broken' = Count(type, f)

Next ==
    \E held \in HeldBy[at] :
        CompareField(held[1], held[2]) \/ CompareUnmatched(held[1], held[2])

Spec == Init /\ [][Next]_vars

\* What the tables promise of an object and those it holds. An edit of a field is a
\* change that the object reports, and its hash tells, where hashes matter.
EditsAreMade(type) ==
    \A f \in DOMAIN Fields[type] : \A op \in EditsOf(Fields[type][f]) \cap Ops :
        \/ <<type, f, op>> \in SilentEdits
        \/ f \in Compare[type].wrapped /\ <<type, f>> \in SilentWays
        \/ \A differs \in Differs(type, f, op) :
              \/ IsHiddenMove(type, op, differs)
              \/ Makes(type, f, op, differs) /\ (differs \/ type \in Unguarded)

\* A field that holds the object is compared, written by the hash and counted, and
\* nothing but edits that are known not to be reported is lost with it.
WaysAreTaken(t) ==
    \A held \in HeldBy[t] \ SilentWays :
        LET type == held[1]
            f == held[2]
            c == Compare[type]
        IN  /\ f \in c.inner \cap Totals[type].total
            /\ IsWritten(Hash[type], f) \/ type \in Unguarded
            /\ t \in Unguarded => type \in Unguarded /\ f \notin c.equal
            /\ type \in Unguarded => ~c.guard
            /\ f \in c.lost =>
                  \A g \in DOMAIN Fields[t] : \A op \in EditsOf(Fields[t][g]) \cap Ops :
                      <<t, g, op>> \in SilentEdits

\* Entries that do not match are changes of the object that holds the list.
KeysAreMade(t) ==
    \A held \in HeldBy[t] : \A g \in DOMAIN Fields[t] :
        <<held[2], g>> \in Compare[held[1]].keys =>
            /\ Makes(held[1], held[2], "removed", TRUE)
            /\ Ways(held[1], held[2]) \cup Ways(t, g) \subseteq {"silent"}

\* GetAllChanges and TotalBreakingChanges go into what TotalChanges does.
TotalsAgree(type) ==
    \A f \in DOMAIN Fields[type] :
        LET c == Compare[type]
            t == Totals[type]
        IN  /\ f \in t.listed => f \in t.total
            /\ f \in t.total => (f \in t.listed <=> "unlisted" \notin Ways(type, f))
            /\ f \in t.total => (f \in t.breaking <=> "uncounted" \notin Ways(type, f))
            /\ f \in t.twice <=> "double" \in Ways(type, f)
            /\ f \in c.wrapped => f \notin c.own /\ f \notin t.twice

\* The rules that the object asks for are there, and those of its component are
\* asked for, by it or by another, but for those that are known to decide nothing.
RulesAreThere(type) ==
    \A f \in DOMAIN Fields[type] : AsksRules(type, f) =>
        \A r \in Asked(type, f) : HasRule(Rules, r[1], r[2])
AllAsked ==
    UNION {UNION {Asked(type, f) : f \in {g \in DOMAIN Fields[type] :
                                             AsksRules(type, g)}} :
           type \in Types}
RulesAreAsked(type) ==
    LET component == NameIn(OtherComponents, type)
    IN  component \in DOMAIN Rules =>
            \A property \in DOMAIN Rules[component] :
                <<component, property>> \in AllAsked \cup Unheeded

\* The gaps are gaps: a change that is known not to be reported is not made, or goes
\* into the report of one more object at most, that is no document and whose report is
\* taken into no other; and a field that is known to be passed over is.
IsSilent(type, f, op) ==
    \/ <<type, f, op>> \in SilentEdits
    \/ f \in Compare[type].wrapped /\ <<type, f>> \in SilentWays
Takes(held, differs, edited) ==
    /\ Looks(held[1], held[2], differs, edited)
    /\ held[2] \in Totals[held[1]].total
IsLost(t, differs) == \A held \in HeldBy[t] : ~Takes(held, differs, FALSE)
IsLostAbove(t, differs) ==
    \A held \in HeldBy[t] : Takes(held, differs, TRUE) =>
        /\ held[1] \notin Roots
        /\ IsLost(held[1], differs /\ IsWritten(Hash[held[1]], held[2]))
GapsStaySilent(t) ==
    /\ \A f \in DOMAIN Fields[t] : \A op \in EditsOf(Fields[t][f]) \cap Ops :
          IsSilent(t, f, op) =>
              /\ \A held \in HeldBy[t] : <<held[2], f>> \notin Compare[held[1]].keys
              /\ \A differs \in Differs(t, f, op) :
                    Makes(t, f, op, differs) => t \notin Roots /\ IsLostAbove(t, differs)
    /\ \A held \in HeldBy[t] \cap SilentWays :
          /\ ~Takes(held, TRUE, FALSE)
          /\ \A g \in DOMAIN Fields[t] : <<held[2], g>> \notin Compare[held[1]].keys

\* Rules that decide nothing are asked for changes that an object makes only if the
\* field that holds it overrules them.
IsUnheeded(type, f) == AsksRules(type, f) /\ Asked(type, f) \cap Unheeded # {}
UnheededAreOverruled(t) ==
    /\ \A f \in DOMAIN Fields[t] : \A op \in EditsOf(Fields[t][f]) \cap Ops :
          IsUnheeded(t, f) =>
              \A differs \in Differs(t, f, op) : Makes(t, f, op, differs) =>
                  /\ t \notin Roots
                  /\ \A held \in HeldBy[t] :
                        held[2] \in Compare[held[1]].overruled \/ ~Takes(held, differs, TRUE)
    /\ \A held \in HeldBy[t] : IsUnheeded(held[1], held[2]) =>
          /\ held[2] \notin Compare[held[1]].overruled
          /\ \A g \in DOMAIN Fields[t] : <<held[2], g>> \notin Compare[held[1]].keys

Agrees(type) ==
    /\ EditsAreMade(type) /\ WaysAreTaken(type) /\ KeysAreMade(type) /\ TotalsAgree(type)
    /\ RulesAreThere(type) /\ RulesAreAsked(type)
    /\ GapsStaySilent(type) /\ UnheededAreOverruled(type)

(***************************************************************************)
(* Properties.                                                             *)
(***************************************************************************)
\* The Compare function, the Hash and the methods of the report of an object do
\* their parts for one another and for the objects that hold it: a field that is
\* new to one of them is in all. The other properties rest on this.
ObjectAgrees == fresh => Agrees(at)
TablesAgree == \A type \in Types : Agrees(type)

\* CompareDocuments reports every edit, whatever objects it lies in, that is none
\* of those the Compare functions are known not to report, lies in none of the
\* contents they are known to pass over and is no value that moved without a trace
\* in the hash: no object between the edited one and the root takes two versions
\* for equal, or forgets to compare the field or to add its report to TotalChanges.
Unreported == {"silent", "hidden"}
EditIsReported == at \in Roots /\ way \cap Unreported = {} => counted

\* The edits that are known not to be reported never are, by any way to the root:
\* the lists of SilentEdits and SilentWays name gaps of the Compare functions and
\* nothing else. Nor is a value that moved from one field to another of an object
\* that is not compared when the hashes agree, and whose Hash writes the two without
\* their names, unless lists of such objects are matched by the field. And the rules
\* of Unheeded decide nothing that the documents report, whatever they say.
IsKey ==
    \E held \in HeldBy[edit.type] : <<held[2], edit.field>> \in Compare[held[1]].keys
GapsAreSilent ==
    at \in Roots =>
        /\ asked \cap Unheeded # {} => ~counted
        /\ "silent" \in way => ~counted
        /\ "hidden" \in way /\ Compare[edit.type].guard /\ ~IsKey => ~counted

\* GetAllChanges of the documents returns a change exactly if TotalChanges counts
\* it, but for the contents that only one of the two methods goes into.
CountsAgree == at \in Roots => (listed <=> counted /\ "unlisted" \notin way)

\* How often a breaking change is counted that has passed these edges.
Times(edges) ==
    IF "uncounted" \in edges THEN 0 ELSE IF "double" \in edges THEN 2 ELSE 1

\* TotalBreakingChanges of the documents counts a breaking change once, but for
\* the contents it is known to leave out or to add twice.
TotalBreakingChanges == IF counted /\ breaking THEN broken ELSE 0
BreakingIsCounted ==
    at \in Roots /\ counted /\ breaking => TotalBreakingChanges = Times(way)
=============================================================================
