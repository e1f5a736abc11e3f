----------------------------- MODULE Rendering -----------------------------
(***************************************************************************)
(* An object of a document, from its text to the low-level and to the      *)
(* high-level model, and back: it is loaded, a member of it is edited, it  *)
(* is rendered with its references inlined or as they are, and what comes  *)
(* of it is loaded again (datamodel/high, RenderAndReload of document.go). *)
(*                                                                         *)
(* The objects are given by tables: the fields and what a build reads (see *)
(* Shapes), the members, what a constructor copies and what a MarshalYAML  *)
(* writes itself (see Members). A run looks at one field of an object and  *)
(* at one other of the same content, that it could be mistaken for.        *)
(***************************************************************************)
EXTENDS Members, Naturals

CONSTANTS
    Fields, Build,           \* the tables of the low-level objects, by type
    Members, New, Marshal,   \* those of the high-level ones
    ByHand,                  \* types that are rendered without a NodeBuilder
    SchemaHolders,           \* <<type, field>>: an object that may be a reference
    Unkept,                  \* ... a list or map that a build forgets when empty
    Hollow,                  \* ... a field that is set without its nodes
    NotShown,                \* ... known to be lost between the two models
    Forgotten,               \* ... known not to be rendered when empty, 0 or FALSE
    Invented,                \* ... known to be rendered though they are absent
    Rounds                   \* bound: how often an object is rendered and reloaded

Types == DOMAIN Members
RenderedTypes == DOMAIN Marshal

\* The kinds whose high-level value is a string, Boolean, number or a map of the
\* object itself, and is empty rather than nil.
Valued == {"plain", "always", "entries"}
Blank(kind) == IF kind \in Valued THEN "empty" ELSE "nil"

\* What a document can say of a member.
CanBeEmpty(kind) == kind \notin {"object", "entries", "dynamic"}
Texts(type, f) ==
    {"absent", "some"}
        \cup (IF CanBeEmpty(Members[type][f]) THEN {"empty"} ELSE {})
        \cup (IF <<type, f>> \in SchemaHolders THEN {"ref"} ELSE {})

\* What a member can be set to. grown: the scopes of a requirement that is there,
\* and one more.
Values(type, f) ==
    {Blank(Members[type][f]), "some", "other"}
        \cup (IF CanBeEmpty(Members[type][f]) THEN {"empty"} ELSE {})
        \cup (IF <<type, f>> \in SchemaHolders THEN {"ref"} ELSE {})
        \cup (IF f = "Requirements" THEN {"grown"} ELSE {})

VARIABLES
    object,    \* the type of the object
    focus,     \* the field that is edited
    said,      \* what the text says of the fields that are looked at
    low, high, \* the two models of them
    inlined,   \* the dynamic values that have been told to inline
    phase,     \* "document": there is the text only; "model"; "panicked"
    edited,    \* the member has been edited
    before,    \* the text before the object was rendered
    wanted,    \* the high-level model that was rendered
    rounds     \* how often it was

renderingVars ==
    <<object, focus, said, low, high, inlined, phase, edited, before, wanted, rounds>>

Looked == DOMAIN said
Nothing == [f \in Looked |-> "absent"]

\* Fields of the same content, and those that one hides from the other.
Mistakable(type, f) ==
    {g \in DOMAIN Members[type] \ {f} :
        \/ Fields[type][g] = Fields[type][f]
        \/ type \in ByHand /\ "ComponentRef" \in {f, g}}

RenderingInit ==
    \E type \in Types : \E f \in DOMAIN Members[type] :
    \E text \in Texts(type, f) :
    \E others \in IF Mistakable(type, f) = {} THEN {{}}
                  ELSE {{g} : g \in Mistakable(type, f)} :
        /\ object = type
        /\ focus = f
        /\ said = [g \in {f} \cup others |-> IF g = f THEN text ELSE "some"]
        /\ low = Nothing /\ high = Nothing
        /\ inlined = {}
        /\ phase = "document"
        /\ edited = FALSE
        /\ before = Nothing /\ wanted = Nothing
        /\ rounds = 0

(***************************************************************************)
(* Loading.                                                                *)
(***************************************************************************)
IsRead(type, f) == f \in BuildModelReads(Fields[type]) \cup Build[type]

\* The low-level field that is made of what the text says: whether it is set, and to
\* what.
LowOf(type, f, text) ==
    IF ~IsRead(type, f) \/ <<type, f>> \in Hollow THEN "absent"
    ELSE IF text = "empty" /\ <<type, f>> \in Unkept THEN "absent"
    ELSE text

\* The member that the constructor makes of it.
Unset(type, f) == IF f \in New[type].made THEN "empty" ELSE Blank(Members[type][f])
Taken(type, f, value) ==
    IF value = "empty" /\ f \in New[type].drops THEN Unset(type, f) ELSE value
HighOf(type, f, lows) ==
    LET from == New[type].from
    IN  IF f \notin DOMAIN from \/ lows[f] = "absent" THEN Unset(type, f)
        ELSE IF from[f] = f THEN Taken(type, f, lows[f])
        ELSE IF from[f] \in DOMAIN lows /\ lows[from[f]] = "some" THEN "other"
        ELSE Unset(type, f)

Load ==
    /\ phase = "document"
    /\ low' = [f \in Looked |-> LowOf(object, f, said[f])]
    /\ high' = [f \in Looked |-> HighOf(object, f, low')]
    /\ inlined' = {}
    /\ phase' = "model"
    /\ UNCHANGED <<object, focus, said, edited, before, wanted, rounds>>

\* The program sets a member. A dynamic value is set to a new one.
Edit ==
    /\ phase = "model" /\ rounds = 0 /\ ~edited
    /\ object \in RenderedTypes
    /\ \E v \in Values(object, focus) \ {high[focus]} :
          high' = [high EXCEPT ![focus] = v]
    /\ inlined' = inlined \ {focus}
    /\ edited' = TRUE
    /\ UNCHANGED <<object, focus, said, low, phase, before, wanted, rounds>>

(***************************************************************************)
(* Rendering.                                                              *)
(***************************************************************************)
\* The NodeBuilder takes a member for zero that is empty, unless there is one in the
\* low-level model, from which it is known that the member was there.
IsZeroAnyhow(kind, v, l) ==   \* mutant: the low-level model is not asked
    v = "nil" \/ (v = "empty" /\ kind \in {"plain", "map", "flow", "entries"})
IsZero(kind, v, l) ==
    /\ v = "nil" \/ (v = "empty" /\ kind \in {"plain", "map", "flow", "entries"})
    /\ l = "absent"

\* The node that the NodeBuilder makes of a member, by its kind: an empty map has no
\* content and is not added, a list is encoded even when it is empty, and what a
\* pointer leads to is written unless it is FALSE or 0 and not tagged renderZero.
ToYamlNode(kind, v) == IF v = "empty" /\ kind = "entries" THEN "absent" ELSE v
EncodeList(kind, v) == IF v = "nil" /\ kind = "types" THEN "empty" ELSE v
FollowPointer(kind, v) == IF v = "empty" /\ kind = "pointer" THEN "absent" ELSE v
AddYAMLNode(kind, v) ==
    LET node == CASE kind \in {"entries", "map", "flow"} -> ToYamlNode(kind, v)
                  [] kind \in {"list", "types"} -> EncodeList(kind, v)
                  [] OTHER -> FollowPointer(kind, v)
    IN  IF node = "nil" THEN "absent" ELSE node

\* Zero members are passed over, but for those with renderZero and no omitempty.
Built(kind, v, l) ==
    IF kind # "flow" /\ IsZero(kind, v, l) THEN "absent" ELSE AddYAMLNode(kind, v)

\* A MarshalYAML writes what is not empty; numbers it has pointers to are written.
WrittenByHand(kind, v) == IF v = "nil" \/ (v = "empty" /\ kind # "zero") THEN "absent" ELSE v
IsHidden(type, f) ==
    /\ f \in Marshal[type].hidden
    /\ "ComponentRef" \in Looked /\ high["ComponentRef"] \notin {"nil", "empty"}

\* What is written of a member, with what the low-level model has of it.
WrittenAs(type, f, v, l) ==
    IF f \in Marshal[type].own THEN WrittenByHand(Members[type][f], v)
    ELSE IF type \in ByHand THEN "absent"
    ELSE Built(Members[type][f], v, l)
Rendered(type, f) ==
    IF IsHidden(type, f) THEN "absent"
    ELSE IF high[f] = "ref" /\ f \in inlined /\ f \notin Marshal[type].own THEN "some"
    ELSE WrittenAs(type, f, high[f], low[f])

\* Rendering with references inlined leaves the model as it is, but that every
\* dynamic value is told to inline.
RenderInline ==
    /\ phase = "model" /\ rounds = 0
    /\ object \in RenderedTypes \ ByHand
    /\ inlined' = inlined \cup
          {f \in Looked : Members[object][f] = "dynamic" /\ high[f] # "nil"}
    /\ UNCHANGED <<object, focus, said, low, high, phase, edited, before, wanted, rounds>>

\* A requirement has more scopes than its low-level one.
Outgrown == \E f \in Looked : high[f] = "grown" /\ low[f] = "some"

Render ==
    /\ phase = "model" /\ rounds < Rounds
    /\ object \in RenderedTypes
    /\ rounds' = rounds + 1
    /\ wanted' = high
    /\ before' = said
    /\ IF Outgrown
       THEN phase' = "panicked" /\ said' = said
       ELSE /\ phase' = "document"
            /\ said' = [f \in Looked |-> Rendered(object, f)]
    /\ UNCHANGED <<object, focus, low, high, inlined, edited>>

RenderingNext == Load \/ Edit \/ RenderInline \/ Render

RenderingSpec == RenderingInit /\ [][RenderingNext]_renderingVars

\* What the tables promise of a field: a member is lost between the two models
\* unless the build reads it and the constructor takes it from its own field, and of
\* those that are rendered none is taken from another; an empty text is forgotten if
\* the build or the constructor makes nothing of it, if it is behind a pointer that
\* is not tagged renderZero, or if the object writes the member itself; an absent one
\* is invented if it is written in any case, or is a map that is made in any case and
\* tagged renderZero.
IsShown(type, f) ==
    /\ IsRead(type, f) /\ <<type, f>> \notin Hollow
    /\ f \in DOMAIN New[type].from /\ New[type].from[f] = f
ShownAgrees(type, f) ==
    /\ <<type, f>> \in NotShown <=> ~IsShown(type, f)
    /\ type \in RenderedTypes =>
          \/ IsShown(type, f)
          \/ /\ ~IsRead(type, f) \/ <<type, f>> \in Hollow
             /\ <<type, f>> \notin Invented
MadeAgrees(type, f) ==
    LET kind == Members[type][f]
        isMade == f \in New[type].made
        isOwn == f \in Marshal[type].own
    IN  /\ isMade => kind \in {"map", "flow", "entries"}
        /\ type \in RenderedTypes =>
              /\ <<type, f>> \in Invented <=>
                    ~isOwn /\ (kind = "always" \/ (kind = "flow" /\ isMade))
              /\ type \in ByHand => isOwn
              /\ kind = "dynamic" => ~isOwn
EmptyAgrees(type, f) ==
    LET kind == Members[type][f]
        isUnkept == <<type, f>> \in Unkept
        isDropped == f \in New[type].drops
    IN  /\ isUnkept => kind # "types"
        /\ isUnkept \/ isDropped =>
              kind \in {"zero", "list", "types", "map", "flow"} /\ f \notin New[type].made
        /\ CanBeEmpty(kind) =>
              (<<type, f>> \in Forgotten <=>
                  \/ isUnkept
                  \/ isDropped /\ kind # "types"
                  \/ kind = "pointer"
                  \/ f \in Marshal[type].own /\ kind # "zero")
FieldAgrees(type, f) ==
    /\ ShownAgrees(type, f)
    /\ MadeAgrees(type, f)
    /\ type \in RenderedTypes /\ IsShown(type, f) => EmptyAgrees(type, f)
TablesAgree == \A type \in Types : \A f \in DOMAIN Members[type] : FieldAgrees(type, f)

(***************************************************************************)
(* Properties.                                                             *)
(***************************************************************************)
\* The build, the constructor, the tags and the MarshalYAML of an object do their
\* parts for one another: what they are known to lose, to forget and to invent is
\* what the way of each field through them says. The other properties rest on this.
FieldsAgree == \A f \in Looked : FieldAgrees(object, f)

Is(list, f) == <<object, f>> \in list
Missing == {"nil", "empty"}

\* The high-level model of a document shows each field with what the document says
\* of it, the one for the other not mistaken, but for those that are known to be
\* lost between the low-level and the high-level model - and those are.
LoadShowsDocument ==
    phase = "model" /\ rounds = 0 /\ ~edited =>
        \A f \in Looked :
            IF Is(NotShown, f) THEN said[f] = "some" => high[f] # "some"
            ELSE IF said[f] \in {"absent", "empty"} THEN high[f] \in Missing
            ELSE high[f] = said[f]

\* What is made of a text that is loaded and rendered.
Kept(f) ==
    IF Is(NotShown, f) \/ IsHidden(object, f) THEN "absent"
    ELSE IF Is(Forgotten, f) /\ before[f] = "empty" THEN "absent"
    ELSE IF Is(Invented, f) /\ before[f] = "absent" THEN "empty"
    ELSE IF f \in inlined /\ before[f] = "ref" THEN "some"
    ELSE before[f]

\* Render writes a document that was loaded and not changed as it was, but for the
\* members it is known to forget, to invent or to hide, and for the references of
\* dynamic values that were rendered inline before: those are never references
\* again. So it does with a document that it has written itself, whatever was edited
\* before, and what it hides of an object it has not written the first time.
RenderKeeps ==
    phase = "document" /\ rounds > 0 /\ (edited => rounds > 1) =>
        \A f \in Looked :
            /\ said[f] = Kept(f)
            /\ rounds > 1 /\ IsHidden(object, f) => before[f] = "absent"

\* What is made of a member that is rendered and loaded again.
WasHidden(f) ==
    /\ f \in Marshal[object].hidden
    /\ "ComponentRef" \in Looked /\ wanted["ComponentRef"] \notin Missing
Reloaded(f, v) ==
    LET kind == Members[object][f]
    IN  IF Is(NotShown, f) \/ WasHidden(f) THEN Missing
        ELSE IF v = "ref" /\ kind = "dynamic" THEN {"ref", "some"}
        ELSE IF v \in Missing /\ kind \in {"map", "entries", "flow", "types"} THEN Missing
        ELSE IF v = "empty" /\ Is(Forgotten, f) THEN Missing
        ELSE {v}

\* RenderAndReload renders the model "as it currently exists (including any
\* mutations, additions and removals)": a member that was set has this value in the
\* reloaded model and the other member has its own, but for what Render is known to
\* forget.
EditArrives ==
    phase = "model" /\ rounds = 1 /\ edited =>
        \A f \in Looked : high[f] \in Reloaded(f, wanted[f])
=============================================================================
