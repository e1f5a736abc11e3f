-------------------------- MODULE InlineRendering --------------------------
(***************************************************************************)
(* Goroutines that render the schemas of one model with their references   *)
(* inlined, or as they are (datamodel/high/base: schema_proxy.go,          *)
(* schema.go and dynamic_value.go). A render goes down the tree of schemas *)
(* and must stop where schemas refer to each other in a circle: by the     *)
(* keys that its context tracks, and by the circles the resolver found.    *)
(*                                                                         *)
(* Of a schema there are the schemas it uses, in the order of the text.    *)
(* Not modelled are references with siblings, and the rewrites of          *)
(* references that the bundler prepares in a context. The circles are      *)
(* those that all indexes hear of from the rolodex, the ignored and the    *)
(* safe ones; those of required properties are known to one index only.    *)
(***************************************************************************)
EXTENDS Naturals, Sequences, FiniteSets

CONSTANTS
    Renders,     \* the goroutines
    Documents,   \* the models that they may render
    Wishes,      \* the ways of rendering
    MaxDepth     \* bound: the stack of a goroutine

\* The schemas that a schema uses, and all that it leads to: those that are in every
\* set that holds the former, and with a schema those that it uses.
UsesOf(d, s) == {d.uses[s][i].to : i \in DOMAIN d.uses[s]}
IsClosed(d, schemas) == \A s \in schemas : UsesOf(d, s) \subseteq schemas
Reached(d, s) ==
    {t \in DOMAIN d.uses :
        \A schemas \in SUBSET DOMAIN d.uses :
            IsClosed(d, schemas) /\ UsesOf(d, s) \subseteq schemas => t \in schemas}
OnCircle(d, s) == s \in Reached(d, s)

\* A schema is found by its file and name, what is used is there, and the loop points
\* of the resolver are on circles. A schema that is a whole file has the file's base name,
\* as references write it.
ASSUME DocumentAssumption ==
    /\ IsFiniteSet(Renders)
    /\ \A d \in Documents :
          /\ \A s, t \in DOMAIN d.uses :
                d.file[s] = d.file[t] /\ d.name[s] = d.name[t] => s = t
          /\ \A s \in DOMAIN d.uses : UsesOf(d, s) \subseteq DOMAIN d.uses
          /\ \A loop \in d.loops : OnCircle(d, loop)
          /\ d.whole \subseteq DOMAIN d.uses

\* A use of a schema by another. by: "ref", an authored $ref; "inline"; "made", a
\* reference that the program has made (CreateSchemaProxyRef). in: "field";
\* "union", an entry of oneOf or anyOf; "dynamic", a DynamicValue, of items,
\* additionalProperties or unevaluatedProperties.
By(how, to) == [to |-> to, by |-> how, in |-> "field"]
InUnion(use) == [use EXCEPT !.in = "union"]
InDynamic(use) == [use EXCEPT !.in = "dynamic"]

VARIABLES
    doc,       \* what is rendered: the uses, file and name of each schema, those
               \* that are whole files, that have a discriminator, that do not build,
               \* the schema to begin with and the loop points of the circles
    known,     \* the loop points the resolver has found
    wish,      \* how each goroutine renders
    stack,     \* of each goroutine the schemas that it is rendering
    tracker,   \* <<context, key>>: what is being rendered in a context
    preservedReferenceNodes,   \* <<context, use>>: the references it preserves
    preservedRefs,   \* <<context, text>>: those that are preserved by their text
    told,      \* of each dynamic value whether it is inline, and its renderCtx
    left,      \* [use, why, ctx]: the references that a goroutine has left
    failed,    \* a goroutine has met with an error
    ended      \* the goroutine is done

preserved == <<preservedReferenceNodes, preservedRefs>>
vars == <<doc, known, wish, stack, tracker, preserved, told, left, failed, ended>>

Schemas == DOMAIN doc.uses
Use(id) == doc.uses[id[1]][id[2]]
Holder(id) == id[1]
AllUses == UNION {{<<s, i>> : i \in DOMAIN doc.uses[s]} : s \in Schemas}
IsReference(id) == Use(id).by # "inline"

\* Contexts: the one a render is given, and those that are made for the schemas of
\* an object that is rendered without one. They have the defaults.
Own(r) == <<r, <<>>>>
NewInlineRenderContext(r, id) == <<r, id>>
IsOwn(c, w) == c = Own(c[1]) /\ wish[c[1]] = w
IsValidation(c) == IsOwn(c, "validation")
PreserveLocalComponentRefs(c) == IsOwn(c, "bundle")
StrictCircularReferenceIdentity(c) == IsOwn(c, "bundle")

\* Instead of a context: objects are rendered inline without one, or not inline; a
\* dynamic value has not been told to inline.
None == <<"none">>
NotInline == <<"plain">>
Never == <<"never">>

\* The text of a reference: the file, unless it is the same, and the name.
GetReference(id) ==
    LET to == Use(id).to
    IN  <<IF doc.file[to] = doc.file[Holder(id)] THEN "" ELSE doc.file[to], doc.name[to]>>
isRootLocalReference(id) ==
    /\ Use(id).by = "ref" /\ Use(id).to \notin doc.whole
    /\ doc.file[Holder(id)] = "root" /\ doc.file[Use(id).to] = "root"

\* The text of a reference, with the file it leads to when it is authored; of
\* another schema its place.
getInlineRenderKey(id) ==
    CASE Use(id).by = "made" -> <<"made", GetReference(id)>>
      [] Use(id).by = "ref" -> <<"ref", doc.file[Use(id).to], GetReference(id)>>
      [] OTHER -> <<"at", Use(id).to>>

\* What a goroutine is rendering: a schema, for which use of it, in which context,
\* under which key if under any. step: "check" before its own uses are looked at,
\* "uses" when the next one is, "inline" and "told" between the steps of a dynamic value.
Tracked(id, c) ==
    [at |-> Use(id).to, use |-> id, ctx |-> c, key |-> getInlineRenderKey(id),
     tracked |-> TRUE, next |-> 1, step |-> "check"]
NoUse == <<>>
Untracked(s, id, c) ==
    [at |-> s, use |-> id, ctx |-> c, key |-> <<>>,
     tracked |-> FALSE, next |-> 1, step |-> "uses"]

Init ==
    /\ doc \in Documents
    /\ known \in {{}, doc.loops}
    /\ wish \in [Renders -> Wishes]
    /\ stack = [r \in Renders |-> <<>>]
    /\ tracker = {} /\ preservedReferenceNodes = {} /\ preservedRefs = {}
    /\ told = [id \in AllUses |-> Never]
    /\ left = [r \in Renders |-> {}]
    /\ failed = [r \in Renders |-> FALSE]
    /\ ended = [r \in Renders |-> FALSE]

(***************************************************************************)
(* The stack of a goroutine.                                               *)
(***************************************************************************)
Depth(r) == Len(stack[r])
Top(r) == stack[r][Depth(r)]
IsAt(r, step) == Depth(r) > 0 /\ Top(r).step = step
NextUse(r) == <<Top(r).at, Top(r).next>>
Now(r, step) == IsAt(r, step) /\ NextUse(r) \in AllUses

\* A frame goes on to its next use: the one on top, or the one below it.
GoesOn(f) == [f EXCEPT !.next = @ + 1, !.step = "uses"]
Advanced(r) == [stack[r] EXCEPT ![Depth(r)] = GoesOn(@)]
Returned(r) ==
    LET below == Depth(r) - 1
        rest == SubSeq(stack[r], 1, below)
    IN  IF below = 0 THEN <<>> ELSE [rest EXCEPT ![below] = GoesOn(@)]
Stepped(r, step) == [stack[r] EXCEPT ![Depth(r)].step = step]
Push(r, frame) ==
    /\ Depth(r) < MaxDepth
    /\ stack' = [stack EXCEPT ![r] = Append(@, frame)]

\* A reference is left as it is.
Leave(r, id, c, why, error) ==
    /\ left' = [left EXCEPT ![r] = @ \cup {[use |-> id, why |-> why, ctx |-> c]}]
    /\ failed' = [failed EXCEPT ![r] = @ \/ error]

(***************************************************************************)
(* SchemaProxy.marshalYAMLInlineInternal.                                  *)
(***************************************************************************)
ShouldPreserve(c, id) ==
    /\ IsReference(id)
    /\ <<c, id>> \in preservedReferenceNodes \/ <<c, GetReference(id)>> \in preservedRefs
KeepsLocal(c, id) == PreserveLocalComponentRefs(c) /\ isRootLocalReference(id)

Preserve(r, c, id) ==
    /\ ShouldPreserve(c, id) \/ KeepsLocal(c, id)
    /\ Leave(r, id, c, IF ShouldPreserve(c, id) THEN "preserved" ELSE "local", FALSE)
    /\ stack' = [stack EXCEPT ![r] = Advanced(r)]
    /\ UNCHANGED tracker

\* A key that the goroutine has tracked itself closes a circle. A reference of the
\* root to itself is left without an error; of an inline schema an empty map is.
IsRendering(r, c, key) ==
    \E i \in 1..Depth(r) :
        stack[r][i].tracked /\ stack[r][i].ctx = c /\ stack[r][i].key = key
StartAnyhow(c, key) == FALSE   \* mutant: nothing is ever tracked
StartRendering(c, key) == <<c, key>> \in tracker
Refuse(r, c, id) ==
    /\ ~ShouldPreserve(c, id) /\ ~KeepsLocal(c, id)
    /\ StartRendering(c, getInlineRenderKey(id))
    /\ Leave(r, id, c,
             IF IsRendering(r, c, getInlineRenderKey(id)) THEN "circle" ELSE "mixed",
             ~isRootLocalReference(id))
    /\ stack' = [stack EXCEPT ![r] = Advanced(r)]
    /\ UNCHANGED tracker

Start(r, c, id) ==
    /\ ~ShouldPreserve(c, id) /\ ~KeepsLocal(c, id)
    /\ ~StartRendering(c, getInlineRenderKey(id))
    /\ tracker' = tracker \cup {<<c, getInlineRenderKey(id)>>}
    /\ Push(r, Tracked(id, c))
    /\ UNCHANGED <<left, failed>>

MarshalYAMLInlineWithContext(r, c, id) ==
    /\ Preserve(r, c, id) \/ Refuse(r, c, id) \/ Start(r, c, id)
    /\ UNCHANGED <<doc, known, wish, preserved, told, ended>>

StopNothing(f) == UNCHANGED tracker   \* mutant: the key stays
StopRendering(f) ==
    tracker' = IF f.tracked THEN tracker \ {<<f.ctx, f.key>>} ELSE tracker

\* The schema that the proxy leads to has been built, unless it cannot be, and the
\* reference is compared with the loop points: by what is meant in strict contexts, else
\* by name; and a loop point that is a whole file is taken for all that is in the file.
IsBuilt(id) == Use(id).by # "made" /\ Use(id).to \notin doc.broken
IsNamesake(loop, to) == doc.name[loop] = doc.name[to]
IsFileOf(loop, to) == loop \in doc.whole /\ doc.file[loop] = doc.file[to]
MatchesByName(c, id) ==   \* mutant: strict contexts compare names
    Use(id).by = "ref" /\ \E loop \in known : IsNamesake(loop, Use(id).to)
MatchesLoop(c, id) ==
    /\ Use(id).by = "ref"
    /\ \E loop \in known :
          IF StrictCircularReferenceIdentity(c) THEN loop = Use(id).to
          ELSE IsNamesake(loop, Use(id).to) \/ IsFileOf(loop, Use(id).to)

\* The references in a union that a discriminator may name are preserved: by their
\* nodes, or by their texts if the program has made them.
MarksAlways(c, s) ==   \* mutant: in validation mode too
    {id \in AllUses : s \in doc.discriminated /\ Holder(id) = s /\ Use(id).in = "union"}
DiscriminatorMarks(c, s) ==
    {id \in AllUses : /\ s \in doc.discriminated /\ ~IsValidation(c)
                      /\ Holder(id) = s /\ Use(id).in = "union" /\ IsReference(id)}
markDiscriminatorReferenceAsPreserved(c, ids) ==
    LET made == {id \in ids : Use(id).by = "made"}
    IN  /\ preservedReferenceNodes' =
              preservedReferenceNodes \cup {<<c, id>> : id \in ids \ made}
        /\ preservedRefs' = preservedRefs \cup {<<c, GetReference(id)>> : id \in made}

CheckCircles(r) ==
    LET f == Top(r)
        circle == IsBuilt(f.use) /\ MatchesLoop(f.ctx, f.use)
    IN  /\ IsAt(r, "check")
        /\ IF circle \/ ~IsBuilt(f.use)
           THEN /\ StopRendering(f)
                /\ stack' = [stack EXCEPT ![r] = Returned(r)]
                /\ IF circle
                   THEN Leave(r, f.use, f.ctx, "known", ~isRootLocalReference(f.use))
                   ELSE failed' = [failed EXCEPT ![r] = TRUE] /\ UNCHANGED left
                /\ UNCHANGED preserved
           ELSE /\ markDiscriminatorReferenceAsPreserved(f.ctx, DiscriminatorMarks(f.ctx, f.at))
                /\ stack' = [stack EXCEPT ![r] = Stepped(r, "uses")]
                /\ UNCHANGED <<tracker, left, failed>>
        /\ UNCHANGED <<doc, known, wish, told, ended>>

(***************************************************************************)
(* The NodeBuilder goes through the uses of a schema.                      *)
(***************************************************************************)
\* RenderInlineWithContext, MarshalYAMLInline or MarshalJSONInline, MarshalYAML.
Begin(r) ==
    LET c == CASE wish[r] = "contextless" -> None
               [] wish[r] = "plain" -> NotInline
               [] OTHER -> Own(r)
    IN  /\ ~ended[r] /\ Depth(r) = 0
        /\ Push(r, Untracked(doc.entry, NoUse, c))
        /\ markDiscriminatorReferenceAsPreserved(
               c, IF c = Own(r) THEN DiscriminatorMarks(c, doc.entry) ELSE {})
        /\ UNCHANGED <<doc, known, wish, tracker, told, left, failed, ended>>

ContextFor(r, c) == IF c = None THEN NewInlineRenderContext(r, NextUse(r)) ELSE c

RenderUse(r) ==
    /\ Now(r, "uses")
    /\ Use(NextUse(r)).in # "dynamic" /\ Top(r).ctx # NotInline
    /\ MarshalYAMLInlineWithContext(r, ContextFor(r, Top(r).ctx), NextUse(r))

\* DynamicValue.MarshalYAMLInlineWithContext sets inline, then the context, and
\* MarshalYAML takes what is there.
SetInline(r) ==
    /\ Now(r, "uses")
    /\ Use(NextUse(r)).in = "dynamic" /\ Top(r).ctx # NotInline
    /\ told' = [told EXCEPT ![NextUse(r)] = IF @ = Never THEN None ELSE @]
    /\ stack' = [stack EXCEPT ![r] = Stepped(r, "inline")]
    /\ UNCHANGED <<doc, known, wish, tracker, preserved, left, failed, ended>>

TellDynamic(r) ==
    /\ Now(r, "inline")
    /\ Use(NextUse(r)).in = "dynamic"
    /\ told' = [told EXCEPT ![NextUse(r)] = Top(r).ctx]
    /\ stack' = [stack EXCEPT ![r] = Stepped(r, "told")]
    /\ UNCHANGED <<doc, known, wish, tracker, preserved, left, failed, ended>>

RenderDynamic(r) ==
    /\ \/ Now(r, "told")
       \/ Now(r, "uses") /\ Use(NextUse(r)).in = "dynamic" /\ Top(r).ctx = NotInline
    /\ told[NextUse(r)] # Never
    /\ MarshalYAMLInlineWithContext(r, ContextFor(r, told[NextUse(r)]), NextUse(r))

\* SchemaProxy.MarshalYAML.
RenderPlain(r) ==
    LET id == NextUse(r)
    IN  /\ Now(r, "uses")
        /\ Top(r).ctx = NotInline
        /\ told[id] = Never
        /\ \/ /\ IsReference(id)
              /\ Leave(r, id, NotInline, "plain", FALSE)
              /\ stack' = [stack EXCEPT ![r] = Advanced(r)]
           \/ /\ ~IsReference(id) /\ ~IsBuilt(id)
              /\ failed' = [failed EXCEPT ![r] = TRUE]
              /\ stack' = [stack EXCEPT ![r] = Advanced(r)]
              /\ UNCHANGED left
           \/ /\ ~IsReference(id) /\ IsBuilt(id)
              /\ Push(r, Untracked(Use(id).to, id, NotInline))
              /\ UNCHANGED <<left, failed>>
        /\ UNCHANGED <<doc, known, wish, tracker, preserved, told, ended>>

Return(r) ==
    /\ IsAt(r, "uses") /\ NextUse(r) \notin AllUses
    /\ StopRendering(Top(r))
    /\ stack' = [stack EXCEPT ![r] = Returned(r)]
    /\ ended' = [ended EXCEPT ![r] = (Depth(r) = 1)]
    /\ UNCHANGED <<doc, known, wish, preserved, told, left, failed>>

Next ==
    \E r \in Renders :
        \/ Begin(r) \/ RenderUse(r) \/ SetInline(r) \/ TellDynamic(r) \/ RenderDynamic(r)
        \/ RenderPlain(r) \/ CheckCircles(r) \/ Return(r)

Spec == Init /\ [][Next]_vars

\* A goroutine that renders goes on.
FairSpec ==
    /\ Spec
    /\ \A r \in Renders :
          WF_vars(\/ Begin(r) \/ RenderUse(r) \/ SetInline(r) \/ TellDynamic(r)
                  \/ RenderDynamic(r) \/ RenderPlain(r) \/ CheckCircles(r) \/ Return(r))

(***************************************************************************)
(* Properties.                                                             *)
(***************************************************************************)
\* The types of the variables.
Contexts ==
    {None, NotInline} \cup {Own(r) : r \in Renders}
    \cup {NewInlineRenderContext(r, id) : r \in Renders, id \in AllUses}
Keys == {<<>>} \cup {getInlineRenderKey(id) : id \in AllUses}
Frames ==
    [at : {doc.entry} \cup {Use(id).to : id \in AllUses}, use : {NoUse} \cup AllUses,
     ctx : Contexts, key : Keys, tracked : BOOLEAN, next : Nat,
     step : {"check", "uses", "inline", "told"}]
TypeOK ==
    /\ doc \in Documents
    /\ known \in {{}, doc.loops}
    /\ wish \in [Renders -> Wishes]
    /\ stack \in [Renders -> Seq(Frames)]
    /\ told \in [AllUses -> Contexts \cup {Never}]
    /\ failed \in [Renders -> BOOLEAN]
    /\ ended \in [Renders -> BOOLEAN]

HasDynamicValues == \E id \in AllUses : Use(id).in = "dynamic"
HasNamesakes(id) == \E loop \in known : loop # Use(id).to /\ IsNamesake(loop, Use(id).to)
IsInLoopFile(id) == \E loop \in known : loop # Use(id).to /\ IsFileOf(loop, Use(id).to)

\* What the contexts are for: "to prevent false positive cycle detection when
\* multiple goroutines render the same schemas concurrently". A reference that a
\* render leaves for a circle leads to a schema that uses itself, but for those
\* that only bear the name of a loop point or are in a file that is one, where contexts
\* are not strict, and for those met in a context that came to another goroutine by a
\* dynamic value.
CirclesAreReal ==
    \A r \in Renders : \A e \in left[r] :
        /\ e.why = "circle" => OnCircle(doc, Use(e.use).to)
        /\ e.why = "known" =>
              \/ OnCircle(doc, Use(e.use).to)
              \/ /\ ~StrictCircularReferenceIdentity(e.ctx)
                 /\ HasNamesakes(e.use) \/ IsInLoopFile(e.use)
        /\ e.why = "mixed" => HasDynamicValues /\ Cardinality(Renders) > 1

\* "All the $ref values will be inlined, as in resolved in place": the references
\* that are left by a render that reports no error, in its own context, are those
\* that a discriminator may name, never in validation mode; those that it was told
\* to leave; and, in the root document, those that close a circle.
RenderIsWhole ==
    \A r \in Renders :
        ended[r] /\ ~failed[r] /\ wish[r] \notin {"plain", "contextless"} =>
            \A e \in {x \in left[r] : x.ctx = Own(r)} :
                CASE e.why = "preserved" ->
                        /\ wish[r] # "validation"
                        /\ \/ Holder(e.use) \in doc.discriminated /\ Use(e.use).in = "union"
                           \/ \E id \in AllUses :
                                  /\ Use(id).by = "made" /\ Use(id).in = "union"
                                  /\ GetReference(id) = GetReference(e.use)
                  [] e.why = "local" -> wish[r] = "bundle"
                  [] OTHER -> isRootLocalReference(e.use)

\* A context tracks what is being rendered in it and nothing else, whichever
\* goroutines render in it and whatever they meet: it can be used again afterwards.
Places(r) == 1..Depth(r)
IsTracked(r, i) == stack[r][i].tracked
Entry(r, i) == <<stack[r][i].ctx, stack[r][i].key>>
TrackerIsTheStack ==
    /\ \A r \in Renders : \A i \in Places(r) : IsTracked(r, i) => Entry(r, i) \in tracker
    /\ \A e \in tracker : \E r \in Renders : \E i \in Places(r) :
          IsTracked(r, i) /\ Entry(r, i) = e

\* Every render returns, however the schemas refer to each other and whether or not
\* the resolver has found the circles.
RendersReturn == \A r \in Renders : <>ended[r]
=============================================================================
