-------------------------- MODULE RenderingProofs ---------------------------
(***************************************************************************)
(* What rendering promises: of the references that renders leave in a text *)
(* (InlineRendering), for all documents, ways of rendering and numbers of  *)
(* goroutines; and of the members that get into a text and back            *)
(* (Rendering), for all tables of objects whose fields agree.              *)
(*                                                                         *)
(* That a context tracks what is being rendered in it is not inductive: a  *)
(* schema that is done takes its key away, and another with the same key   *)
(* would be left untracked. So no two schemas that are being rendered have *)
(* the same context and key (IInv).                                        *)
(*                                                                         *)
(* That a circle is one takes what the stack of a goroutine is: a path     *)
(* through the document, of schemas that have been built, in contexts that *)
(* no other goroutine has unless a dynamic value passed one on (PathInv).  *)
(* Both, and what a context preserves (MarkInv), justify what is left      *)
(* (LeftInv).                                                              *)
(*                                                                         *)
(* That an edit arrives takes the models between rendering and loading:    *)
(* they are still those that were rendered (DocumentInv), so that what     *)
(* becomes of a member is what becomes of its text.                        *)
(***************************************************************************)
EXTENDS InlineRendering, Rendering, FiniteSetTheorems, TLAPS

EntriesAreUnique ==
    \A r1, r2 \in Renders : \A i \in Places(r1), j \in Places(r2) :
        /\ IsTracked(r1, i) /\ IsTracked(r2, j)
        /\ Entry(r1, i) = Entry(r2, j)
        => r1 = r2 /\ i = j

StackInv ==
    /\ stack \in [Renders -> Seq(Frames)]
    /\ TrackerIsTheStack
    /\ EntriesAreUnique

\* A step gives a goroutine the stack t.
Sets(r, t) == stack' = [stack EXCEPT ![r] = t]

\* A frame may go on, but is of the same schema; t is s, at its beginning.
SameFrame(f, g) ==
    /\ f.at = g.at /\ f.use = g.use
    /\ f.ctx = g.ctx /\ f.key = g.key /\ f.tracked = g.tracked
SameFrames(t, s) == \A i \in 1..Len(t) : SameFrame(t[i], s[i])

(***************************************************************************)
(* The four ways in which a step changes a stack.                          *)
(***************************************************************************)
\* Types do not depend on what changes.
LEMMA SameTypes ==
    ASSUME doc' = doc
    PROVE  Frames' = Frames /\ Contexts' = Contexts /\ AllUses' = AllUses
BY DEF Frames, Contexts, Keys, AllUses, Schemas, Use, getInlineRenderKey, GetReference,
       Holder, Own, NewInlineRenderContext, None, NotInline, NoUse

\* A step that goes on in a schema keeps what is tracked.
LEMMA GoingOn ==
    ASSUME StackInv, NEW r \in Renders, NEW t \in Seq(Frames),
           Len(t) = Depth(r), SameFrames(t, stack[r]),
           Sets(r, t), tracker' = tracker, doc' = doc
    PROVE  StackInv'
<1>1. \A q \in Renders : /\ Places(q)' = Places(q)
                         /\ \A i \in Places(q) :
                               /\ Entry(q, i)' = Entry(q, i)
                               /\ (IsTracked(q, i)' <=> IsTracked(q, i))
  BY DEF StackInv, Places, Depth, IsTracked, Entry, SameFrames, SameFrame, Sets
<1>2. stack' \in [Renders -> Seq(Frames')]
  BY SameTypes DEF StackInv, Sets
<1>3. TrackerIsTheStack'
  <2>1. ASSUME NEW q \in Renders, NEW i \in Places(q)', IsTracked(q, i)'
        PROVE  Entry(q, i)' \in tracker'
    BY <1>1, <2>1 DEF StackInv, TrackerIsTheStack
  <2>2. ASSUME NEW e \in tracker'
        PROVE  \E q \in Renders : \E i \in Places(q)' :
                  IsTracked(q, i)' /\ Entry(q, i)' = e
    <3>1. PICK q \in Renders : \E i \in Places(q) : IsTracked(q, i) /\ Entry(q, i) = e
      BY DEF StackInv, TrackerIsTheStack
    <3>. QED
      BY <1>1, <3>1
  <2>. QED
    BY <2>1, <2>2 DEF TrackerIsTheStack
<1>4. EntriesAreUnique'
  BY <1>1 DEF StackInv, EntriesAreUnique
<1>. QED
  BY <1>2, <1>3, <1>4 DEF StackInv

\* A schema that is not tracked is begun.
LEMMA PushedUntracked ==
    ASSUME StackInv, NEW r \in Renders, NEW f \in Frames, ~f.tracked,
           Sets(r, Append(stack[r], f)), tracker' = tracker, doc' = doc
    PROVE  StackInv'
<1>0. stack[r] \in Seq(Frames)
  BY DEF StackInv
<1>1. \A q \in Renders : \A i \in Places(q) :
         /\ i \in Places(q)'
         /\ Entry(q, i)' = Entry(q, i)
         /\ (IsTracked(q, i)' <=> IsTracked(q, i))
  BY <1>0 DEF StackInv, Places, Depth, IsTracked, Entry, Sets
<1>2. \A q \in Renders : \A i \in Places(q)' :
         IsTracked(q, i)' => i \in Places(q)
  <2>1. ASSUME NEW q \in Renders, NEW i \in Places(q)'
        PROVE  i \in Places(q) \/ (stack'[q][i] = f)
    BY <1>0 DEF StackInv, Places, Depth, Sets
  <2>. QED
    BY <2>1 DEF IsTracked
<1>3. stack' \in [Renders -> Seq(Frames')]
  BY <1>0, SameTypes DEF StackInv, Sets
<1>4. TrackerIsTheStack'
  <2>1. ASSUME NEW q \in Renders, NEW i \in Places(q)', IsTracked(q, i)'
        PROVE  Entry(q, i)' \in tracker'
    BY <1>1, <1>2, <2>1 DEF StackInv, TrackerIsTheStack
  <2>2. ASSUME NEW e \in tracker'
        PROVE  \E q \in Renders : \E i \in Places(q)' :
                  IsTracked(q, i)' /\ Entry(q, i)' = e
    <3>1. PICK q \in Renders : \E i \in Places(q) : IsTracked(q, i) /\ Entry(q, i) = e
      BY DEF StackInv, TrackerIsTheStack
    <3>. QED
      BY <1>1, <3>1
  <2>. QED
    BY <2>1, <2>2 DEF TrackerIsTheStack
<1>5. ASSUME NEW q1 \in Renders, NEW q2 \in Renders,
             NEW i \in Places(q1)', NEW j \in Places(q2)',
             IsTracked(q1, i)', IsTracked(q2, j)', Entry(q1, i)' = Entry(q2, j)'
      PROVE  q1 = q2 /\ i = j
  <2>1. i \in Places(q1) /\ j \in Places(q2)
    BY <1>2, <1>5
  <2>. QED
    BY <1>1, <1>5, <2>1 DEF StackInv, EntriesAreUnique
<1>. QED
  BY <1>3, <1>4, <1>5 DEF StackInv, EntriesAreUnique

\* A schema is begun under a key that nobody has tracked in this context.
LEMMA PushedTracked ==
    ASSUME StackInv, NEW r \in Renders, NEW f \in Frames, f.tracked,
           <<f.ctx, f.key>> \notin tracker,
           Sets(r, Append(stack[r], f)),
           tracker' = tracker \cup {<<f.ctx, f.key>>}, doc' = doc
    PROVE  StackInv'
<1>0. stack[r] \in Seq(Frames)
  BY DEF StackInv
<1>n. PICK n : n = Depth(r) + 1
  OBVIOUS
<1>1. \A q \in Renders : \A i \in Places(q) :
         /\ i \in Places(q)'
         /\ Entry(q, i)' = Entry(q, i)
         /\ (IsTracked(q, i)' <=> IsTracked(q, i))
  BY <1>0 DEF StackInv, Places, Depth, IsTracked, Entry, Sets
<1>2. /\ n \in Places(r)'
      /\ IsTracked(r, n)'
      /\ Entry(r, n)' = <<f.ctx, f.key>>
  BY <1>0, <1>n DEF StackInv, Places, Depth, IsTracked, Entry, Sets
<1>3. \A q \in Renders : \A i \in Places(q)' :
         i \in Places(q) \/ (q = r /\ i = n)
  BY <1>0, <1>n DEF StackInv, Places, Depth, Sets
<1>4. stack' \in [Renders -> Seq(Frames')]
  BY <1>0, SameTypes DEF StackInv, Sets
<1>5. TrackerIsTheStack'
  <2>1. ASSUME NEW q \in Renders, NEW i \in Places(q)', IsTracked(q, i)'
        PROVE  Entry(q, i)' \in tracker'
    <3>1. CASE q = r /\ i = n
      BY <1>2, <3>1
    <3>2. CASE i \in Places(q)
      BY <1>1, <2>1, <3>2 DEF StackInv, TrackerIsTheStack
    <3>. QED
      BY <1>3, <3>1, <3>2
  <2>2. ASSUME NEW e \in tracker'
        PROVE  \E q \in Renders : \E i \in Places(q)' :
                  IsTracked(q, i)' /\ Entry(q, i)' = e
    <3>1. CASE e = <<f.ctx, f.key>>
      BY <1>2, <3>1
    <3>2. CASE e \in tracker
      <4>1. PICK q \in Renders : \E i \in Places(q) : IsTracked(q, i) /\ Entry(q, i) = e
        BY <3>2 DEF StackInv, TrackerIsTheStack
      <4>. QED
        BY <1>1, <4>1
    <3>. QED
      BY <3>1, <3>2
  <2>. QED
    BY <2>1, <2>2 DEF TrackerIsTheStack
<1>6. ASSUME NEW q1 \in Renders, NEW q2 \in Renders,
             NEW i \in Places(q1)', NEW j \in Places(q2)',
             IsTracked(q1, i)', IsTracked(q2, j)', Entry(q1, i)' = Entry(q2, j)'
      PROVE  q1 = q2 /\ i = j
  <2>1. ASSUME NEW q \in Renders, NEW k \in Places(q), IsTracked(q, k)'
        PROVE  Entry(q, k)' # <<f.ctx, f.key>>
    <3>1. IsTracked(q, k) /\ Entry(q, k)' = Entry(q, k)
      BY <1>1, <2>1
    <3>2. Entry(q, k) \in tracker
      BY <3>1 DEF StackInv, TrackerIsTheStack
    <3>. QED
      BY <3>1, <3>2
  <2>2. CASE i \in Places(q1) /\ j \in Places(q2)
    BY <1>1, <1>6, <2>2 DEF StackInv, EntriesAreUnique
  <2>3. CASE q1 = r /\ i = n /\ j \in Places(q2)
    BY <1>2, <1>6, <2>1, <2>3
  <2>4. CASE q2 = r /\ j = n /\ i \in Places(q1)
    BY <1>2, <1>6, <2>1, <2>4
  <2>. QED
    BY <1>3, <2>2, <2>3, <2>4
<1>. QED
  BY <1>4, <1>5, <1>6 DEF StackInv, EntriesAreUnique

\* A schema is done, and stops being tracked if it was.
LEMMA Popped ==
    ASSUME StackInv, NEW r \in Renders, NEW t \in Seq(Frames),
           Depth(r) > 0, Len(t) = Depth(r) - 1, SameFrames(t, stack[r]),
           Sets(r, t), StopRendering(Top(r)), doc' = doc
    PROVE  StackInv'
<1>0. stack[r] \in Seq(Frames)
  BY DEF StackInv
<1>1. \A q \in Renders : \A i \in Places(q)' :
         /\ i \in Places(q)
         /\ Entry(q, i)' = Entry(q, i)
         /\ (IsTracked(q, i)' <=> IsTracked(q, i))
         /\ ~(q = r /\ i = Depth(r))
  BY <1>0 DEF StackInv, Places, Depth, IsTracked, Entry, SameFrames, SameFrame, Sets
<1>2. \A q \in Renders : \A i \in Places(q) :
         i \in Places(q)' \/ (q = r /\ i = Depth(r))
  BY <1>0 DEF StackInv, Places, Depth, Sets
<1>3. /\ Depth(r) \in Places(r)
      /\ tracker' = IF IsTracked(r, Depth(r)) THEN tracker \ {Entry(r, Depth(r))}
                    ELSE tracker
  BY <1>0 DEF StopRendering, Top, Entry, Places, Depth, IsTracked
<1>4. stack' \in [Renders -> Seq(Frames')]
  BY SameTypes DEF StackInv, Sets
<1>5. TrackerIsTheStack'
  <2>1. ASSUME NEW q \in Renders, NEW i \in Places(q)', IsTracked(q, i)'
        PROVE  Entry(q, i)' \in tracker'
    <3>1. Entry(q, i) \in tracker
      BY <1>1, <2>1 DEF StackInv, TrackerIsTheStack
    <3>2. IsTracked(r, Depth(r)) => Entry(q, i) # Entry(r, Depth(r))
      BY <1>1, <1>3, <2>1 DEF StackInv, EntriesAreUnique
    <3>. QED
      BY <1>1, <1>3, <2>1, <3>1, <3>2
  <2>2. ASSUME NEW e \in tracker'
        PROVE  \E q \in Renders : \E i \in Places(q)' :
                  IsTracked(q, i)' /\ Entry(q, i)' = e
    <3>1. e \in tracker
      BY <1>3, <2>2
    <3>2. PICK q \in Renders : \E i \in Places(q) : IsTracked(q, i) /\ Entry(q, i) = e
      BY <3>1 DEF StackInv, TrackerIsTheStack
    <3>3. PICK i \in Places(q) : IsTracked(q, i) /\ Entry(q, i) = e
      BY <3>2
    <3>4. ~(q = r /\ i = Depth(r))
      BY <1>3, <2>2, <3>3
    <3>. QED
      BY <1>1, <1>2, <3>3, <3>4
  <2>. QED
    BY <2>1, <2>2 DEF TrackerIsTheStack
<1>6. EntriesAreUnique'
  BY <1>1 DEF StackInv, EntriesAreUnique
<1>. QED
  BY <1>4, <1>5, <1>6 DEF StackInv

(***************************************************************************)
(* The actions.                                                            *)
(***************************************************************************)
IInv == TypeOK /\ StackInv

\* A sequence with one element replaced.
LEMMA ReplacedElement ==
    ASSUME NEW F, NEW s \in Seq(F), NEW n \in 1..Len(s), NEW f \in F
    PROVE  /\ [s EXCEPT ![n] = f] \in Seq(F)
           /\ Len([s EXCEPT ![n] = f]) = Len(s)
           /\ \A i \in 1..Len(s) : [s EXCEPT ![n] = f][i] = IF i = n THEN f ELSE s[i]
OBVIOUS

\* A frame that changes its step stays the kind of frame that it was.
LEMMA FrameSteps ==
    ASSUME NEW f \in Frames, NEW step \in {"check", "uses", "inline", "told"}
    PROVE  /\ [f EXCEPT !.step = step] \in Frames
           /\ SameFrame([f EXCEPT !.step = step], f)
           /\ [f EXCEPT !.step = step].step = step
BY DEF Frames, SameFrame

\* So does one that goes on to its next use.
LEMMA FrameGoesOn ==
    ASSUME NEW f \in Frames
    PROVE  /\ GoesOn(f) \in Frames
           /\ SameFrame(GoesOn(f), f)
           /\ GoesOn(f).step = "uses"
<1>. DEFINE g == [f EXCEPT !.next = @ + 1]
<1>1. g \in Frames /\ SameFrame(g, f)
  BY DEF Frames, SameFrame
<1>2. GoesOn(f) = [g EXCEPT !.step = "uses"]
  BY DEF GoesOn
<1>. HIDE DEF g
<1>3. /\ [g EXCEPT !.step = "uses"] \in Frames
      /\ SameFrame([g EXCEPT !.step = "uses"], g)
      /\ [g EXCEPT !.step = "uses"].step = "uses"
  BY <1>1, FrameSteps
<1>. QED
  BY <1>1, <1>2, <1>3 DEF SameFrame

\* The stack after a use, after a step, and without its top: what is tracked of it.
LEMMA AdvancedFrames ==
    ASSUME NEW r, stack[r] \in Seq(Frames), Depth(r) > 0
    PROVE  /\ Advanced(r) \in Seq(Frames)
           /\ Len(Advanced(r)) = Depth(r)
           /\ SameFrames(Advanced(r), stack[r])
           /\ \A i \in 1..Depth(r) :
                 Advanced(r)[i].step = IF i = Depth(r) THEN "uses" ELSE stack[r][i].step
<1>1. Depth(r) \in 1..Len(stack[r]) /\ Depth(r) = Len(stack[r])
  BY DEF Depth
<1>2. stack[r][Depth(r)] \in Frames
  BY <1>1
<1>3. Advanced(r) = [stack[r] EXCEPT ![Depth(r)] = GoesOn(stack[r][Depth(r)])]
  BY DEF Advanced
<1>. QED
  BY <1>1, <1>2, <1>3, FrameGoesOn, ReplacedElement DEF SameFrames, SameFrame

LEMMA SteppedFrames ==
    ASSUME NEW r, stack[r] \in Seq(Frames), Depth(r) > 0,
           NEW step \in {"check", "uses", "inline", "told"}
    PROVE  /\ Stepped(r, step) \in Seq(Frames)
           /\ Len(Stepped(r, step)) = Depth(r)
           /\ SameFrames(Stepped(r, step), stack[r])
           /\ \A i \in 1..Depth(r) :
                 Stepped(r, step)[i].step = IF i = Depth(r) THEN step ELSE stack[r][i].step
<1>1. Depth(r) \in 1..Len(stack[r]) /\ Depth(r) = Len(stack[r])
  BY DEF Depth
<1>2. stack[r][Depth(r)] \in Frames
  BY <1>1
<1>3. Stepped(r, step) =
          [stack[r] EXCEPT ![Depth(r)] = [stack[r][Depth(r)] EXCEPT !.step = step]]
  BY DEF Stepped
<1>. DEFINE f == [stack[r][Depth(r)] EXCEPT !.step = step]
<1>4. f \in Frames /\ SameFrame(f, stack[r][Depth(r)]) /\ f.step = step
  BY <1>2, FrameSteps
<1>5. Stepped(r, step) = [stack[r] EXCEPT ![Depth(r)] = f]
  BY <1>3
<1>. HIDE DEF f
<1>. QED
  BY <1>1, <1>4, <1>5, ReplacedElement DEF SameFrames, SameFrame

LEMMA ReturnedFrames ==
    ASSUME NEW r, stack[r] \in Seq(Frames), Depth(r) > 0
    PROVE  /\ Returned(r) \in Seq(Frames)
           /\ Len(Returned(r)) = Depth(r) - 1
           /\ SameFrames(Returned(r), stack[r])
           /\ \A i \in 1..Len(Returned(r)) :
                 Returned(r)[i].step \in {"uses", stack[r][i].step}
<1>0. Depth(r) \in Nat
  BY DEF Depth
<1>1. CASE Depth(r) = 1
  BY <1>1 DEF Returned, SameFrames
<1>2. CASE Depth(r) > 1
  <2>. DEFINE s == SubSeq(stack[r], 1, Depth(r) - 1)
              n == Depth(r) - 1
  <2>1. /\ s \in Seq(Frames) /\ Len(s) = n /\ n \in 1..Len(s)
        /\ \A i \in 1..Len(s) : s[i] = stack[r][i]
    BY <1>2 DEF Depth
  <2>2. Returned(r) = [s EXCEPT ![n] = GoesOn(s[n])]
    <3>1. n # 0
      BY <1>0, <1>2
    <3>. QED
      BY <3>1 DEF Returned
  <2>. HIDE DEF s, n
  <2>3. s[n] \in Frames
    BY <2>1
  <2>4. /\ Returned(r) \in Seq(Frames)
        /\ Len(Returned(r)) = n
        /\ SameFrames(Returned(r), s)
        /\ \A i \in 1..Len(Returned(r)) : Returned(r)[i].step \in {"uses", s[i].step}
    BY <2>1, <2>2, <2>3, FrameGoesOn, ReplacedElement DEF SameFrames, SameFrame
  <2>. QED
    BY <2>1, <2>4 DEF SameFrames, SameFrame, n
<1>. QED
  BY <1>0, <1>1, <1>2

\* The contexts that a goroutine goes on in, and the frames that it begins.
LEMMA FrameTypes ==
    ASSUME NEW r \in Renders, NEW c \in Contexts
    PROVE  /\ \A id \in AllUses : /\ Tracked(id, c) \in Frames
                                 /\ Untracked(Use(id).to, id, c) \in Frames
           /\ Untracked(doc.entry, NoUse, c) \in Frames
           /\ NextUse(r) \in AllUses => ContextFor(r, c) \in Contexts
<1>1. ASSUME NEW id \in AllUses
      PROVE  Tracked(id, c) \in Frames /\ Untracked(Use(id).to, id, c) \in Frames
  BY DEF Tracked, Untracked, Frames, Keys
<1>2. Untracked(doc.entry, NoUse, c) \in Frames
  BY DEF Untracked, Frames, Keys
<1>3. NextUse(r) \in AllUses => ContextFor(r, c) \in Contexts
  BY DEF ContextFor, Contexts
<1>. QED
  BY <1>1, <1>2, <1>3

\* The context of what is being rendered.
LEMMA TopContext ==
    ASSUME NEW r, stack[r] \in Seq(Frames), Depth(r) > 0
    PROVE  Top(r).ctx \in Contexts
<1>1. Top(r) \in Frames
  BY DEF Top, Depth
<1>. QED
  BY <1>1 DEF Frames

\* The render of one use, whichever way it goes (marshalYAMLInlineInternal).
LEMMA MarshalKeepsInv ==
    ASSUME IInv, NEW r \in Renders, NEW c \in Contexts, NEW id \in AllUses, Depth(r) > 0,
           MarshalYAMLInlineWithContext(r, c, id)
    PROVE  IInv'
<1>. USE DEF IInv
<1>1. stack[r] \in Seq(Frames) /\ doc' = doc
  BY DEF StackInv, MarshalYAMLInlineWithContext
<1>2. stack' \in [Renders -> Seq(Frames)] => TypeOK'
  BY <1>1, SameTypes DEF TypeOK, MarshalYAMLInlineWithContext, Preserve, Refuse, Start, Leave
<1>3. CASE Preserve(r, c, id) \/ Refuse(r, c, id)
  <2>1. Sets(r, Advanced(r)) /\ tracker' = tracker
    BY <1>3 DEF Preserve, Refuse, Sets
  <2>2. StackInv'
    BY <1>1, <2>1, AdvancedFrames, GoingOn
  <2>. QED
    BY <1>1, <1>2, <2>2, SameTypes DEF StackInv
<1>4. CASE Start(r, c, id)
  <2>1. Tracked(id, c) \in Frames
    BY FrameTypes
  <2>2. /\ Tracked(id, c).tracked
        /\ Tracked(id, c).ctx = c /\ Tracked(id, c).key = getInlineRenderKey(id)
    BY DEF Tracked
  <2>3. /\ <<c, getInlineRenderKey(id)>> \notin tracker
        /\ tracker' = tracker \cup {<<c, getInlineRenderKey(id)>>}
        /\ Sets(r, Append(stack[r], Tracked(id, c)))
    BY <1>4 DEF Start, StartRendering, Push, Sets
  <2>4. StackInv'
    BY <1>1, <2>1, <2>2, <2>3, PushedTracked
  <2>. QED
    BY <1>1, <1>2, <2>4, SameTypes DEF StackInv
<1>. QED
  BY <1>3, <1>4 DEF MarshalYAMLInlineWithContext

\* Every action of a render keeps the types, what is tracked and that it is tracked once.
THEOREM InvIsInductive == Spec => []IInv
<1>1. Init => IInv
  <2>. SUFFICES ASSUME Init PROVE IInv
    OBVIOUS
  <2>1. TypeOK
    BY DEF Init, TypeOK
  <2>2. \A r \in Renders : Places(r) = {}
    BY DEF Init, Places, Depth
  <2>3. StackInv
    BY <2>1, <2>2 DEF StackInv, TypeOK, TrackerIsTheStack, EntriesAreUnique, Init
  <2>. QED
    BY <2>1, <2>3 DEF IInv
<1>2. IInv /\ [Next]_vars => IInv'
  <2>. SUFFICES ASSUME IInv, [Next]_vars PROVE IInv'
    OBVIOUS
  <2>. USE DEF IInv
  <2>1. ASSUME NEW r \in Renders, Begin(r)
        PROVE  IInv'
    <3>1. PICK c \in Contexts : Push(r, Untracked(doc.entry, NoUse, c))
      BY <2>1 DEF Begin, Contexts
    <3>2. /\ doc' = doc /\ tracker' = tracker
          /\ Sets(r, Append(stack[r], Untracked(doc.entry, NoUse, c)))
      BY <2>1, <3>1 DEF Begin, Push, Sets
    <3>3. Untracked(doc.entry, NoUse, c) \in Frames /\ ~Untracked(doc.entry, NoUse, c).tracked
      BY FrameTypes DEF Untracked
    <3>4. StackInv'
      BY <3>2, <3>3, PushedUntracked
    <3>. QED
      BY <2>1, <3>2, <3>4, SameTypes DEF Begin, TypeOK, StackInv
  <2>2. ASSUME NEW r \in Renders, RenderUse(r)
        PROVE  IInv'
    <3>1. Depth(r) > 0 /\ NextUse(r) \in AllUses
      BY <2>2 DEF RenderUse, Now, IsAt
    <3>2. Top(r).ctx \in Contexts
      BY <3>1, TopContext DEF StackInv
    <3>3. ContextFor(r, Top(r).ctx) \in Contexts
      BY <3>1, <3>2, FrameTypes
    <3>. QED
      BY <2>2, <3>1, <3>3, MarshalKeepsInv DEF RenderUse
  <2>3. ASSUME NEW r \in Renders, SetInline(r) \/ TellDynamic(r)
        PROVE  IInv'
    <3>1. Depth(r) > 0 /\ NextUse(r) \in AllUses /\ stack[r] \in Seq(Frames)
      BY <2>3 DEF SetInline, TellDynamic, Now, IsAt, StackInv
    <3>2. Top(r).ctx \in Contexts /\ None \in Contexts
      BY <3>1, TopContext DEF Contexts
    <3>3. doc' = doc /\ tracker' = tracker /\ \E step \in {"inline", "told"} : Sets(r, Stepped(r, step))
      BY <2>3 DEF SetInline, TellDynamic, Sets
    <3>4. StackInv'
      BY <3>1, <3>3, SteppedFrames, GoingOn
    <3>5. told' \in [AllUses -> Contexts \cup {Never}]
      BY <2>3, <3>1, <3>2 DEF SetInline, TellDynamic, TypeOK
    <3>6. UNCHANGED <<known, wish, failed, ended>>
      BY <2>3 DEF SetInline, TellDynamic
    <3>. QED
      BY <3>3, <3>4, <3>5, <3>6, SameTypes DEF TypeOK, StackInv, Never
  <2>4. ASSUME NEW r \in Renders, RenderDynamic(r)
        PROVE  IInv'
    <3>1. Depth(r) > 0 /\ NextUse(r) \in AllUses
      BY <2>4 DEF RenderDynamic, Now, IsAt
    <3>2. told[NextUse(r)] \in Contexts
      BY <2>4, <3>1 DEF RenderDynamic, TypeOK
    <3>3. ContextFor(r, told[NextUse(r)]) \in Contexts
      BY <3>1, <3>2, FrameTypes
    <3>. QED
      BY <2>4, <3>1, <3>3, MarshalKeepsInv DEF RenderDynamic
  <2>5. ASSUME NEW r \in Renders, RenderPlain(r)
        PROVE  IInv'
    <3>1. Depth(r) > 0 /\ NextUse(r) \in AllUses /\ stack[r] \in Seq(Frames)
      BY <2>5 DEF RenderPlain, Now, IsAt, StackInv
    <3>2. doc' = doc /\ tracker' = tracker
      BY <2>5 DEF RenderPlain
    <3>3. \/ Sets(r, Advanced(r))
          \/ Sets(r, Append(stack[r], Untracked(Use(NextUse(r)).to, NextUse(r), NotInline)))
      BY <2>5 DEF RenderPlain, Push, Sets
    <3>4. /\ Untracked(Use(NextUse(r)).to, NextUse(r), NotInline) \in Frames
          /\ ~Untracked(Use(NextUse(r)).to, NextUse(r), NotInline).tracked
      <4>1. NotInline \in Contexts
        BY DEF Contexts
      <4>. QED
        BY <3>1, <4>1, FrameTypes DEF Untracked
    <3>5. StackInv'
      BY <3>1, <3>2, <3>3, <3>4, AdvancedFrames, GoingOn, PushedUntracked
    <3>6. failed' \in [Renders -> BOOLEAN]
      BY <2>5 DEF RenderPlain, Leave, TypeOK
    <3>. QED
      BY <2>5, <3>2, <3>5, <3>6, SameTypes DEF RenderPlain, TypeOK, StackInv
  <2>6. ASSUME NEW r \in Renders, CheckCircles(r)
        PROVE  IInv'
    <3>1. Depth(r) > 0 /\ stack[r] \in Seq(Frames) /\ doc' = doc
      BY <2>6 DEF CheckCircles, IsAt, StackInv
    <3>2. \/ Sets(r, Returned(r)) /\ StopRendering(Top(r))
          \/ Sets(r, Stepped(r, "uses")) /\ tracker' = tracker
      BY <2>6 DEF CheckCircles, Sets
    <3>3. StackInv'
      BY <3>1, <3>2, ReturnedFrames, Popped, SteppedFrames, GoingOn
    <3>4. failed' \in [Renders -> BOOLEAN]
      BY <2>6 DEF CheckCircles, Leave, TypeOK
    <3>. QED
      BY <2>6, <3>1, <3>3, <3>4, SameTypes DEF CheckCircles, TypeOK, StackInv
  <2>7. ASSUME NEW r \in Renders, Return(r)
        PROVE  IInv'
    <3>1. Depth(r) > 0 /\ stack[r] \in Seq(Frames) /\ doc' = doc
      BY <2>7 DEF Return, IsAt, StackInv
    <3>2. Sets(r, Returned(r)) /\ StopRendering(Top(r))
      BY <2>7 DEF Return, Sets
    <3>3. StackInv'
      BY <3>1, <3>2, ReturnedFrames, Popped
    <3>. QED
      BY <2>7, <3>1, <3>3, SameTypes DEF Return, TypeOK, StackInv
  <2>8. CASE UNCHANGED vars
    <3>1. doc' = doc /\ stack' = stack /\ tracker' = tracker
      BY <2>8 DEF vars
    <3>2. TrackerIsTheStack' /\ EntriesAreUnique'
      BY <3>1 DEF StackInv, TrackerIsTheStack, EntriesAreUnique, Places, Depth, IsTracked, Entry
    <3>. QED
      BY <2>8, <3>1, <3>2, SameTypes DEF vars, TypeOK, StackInv
  <2>. QED
    BY <2>1, <2>2, <2>3, <2>4, <2>5, <2>6, <2>7, <2>8 DEF Next
<1>. QED
  BY <1>1, <1>2, PTL DEF Spec

\* The types of the variables, for all documents.
THEOREM TypeCorrect == Spec => []TypeOK
<1>. QED
  BY InvIsInductive, PTL DEF IInv

\* A context tracks what is being rendered in it and nothing else
\* (InlineRenderContext.StartRendering and StopRendering).
THEOREM ContextsTrackTheStack == Spec => []TrackerIsTheStack
<1>. QED
  BY InvIsInductive, PTL DEF IInv, StackInv

(***************************************************************************)
(* What a goroutine has come by, for the circles that it finds: the        *)
(* schemas below one on its stack lead to it.                              *)
(***************************************************************************)
\* The contexts that no other goroutine renders in, unless a dynamic value passes
\* one on.
Private(r) == {Own(r)} \cup {NewInlineRenderContext(r, id) : id \in AllUses}

\* What holds of a frame that is not done, and of those of a stack.
SoundFrame(r, f) ==
    /\ f.tracked => /\ f.use \in AllUses
                    /\ f.at = Use(f.use).to
                    /\ f.key = getInlineRenderKey(f.use)
    /\ f.step = "check" => f.tracked
    /\ f.tracked /\ f.step # "check" => IsBuilt(f.use)
    /\ \/ HasDynamicValues
       \/ f.ctx \in Private(r)
       \/ ~f.tracked /\ f.ctx \in {None, NotInline}
SoundStack(r, s) ==
    /\ \A i \in 1..Len(s) : SoundFrame(r, s[i])
    /\ \A i \in 1..Len(s) : s[i].step = "check" => i = Len(s)
    /\ \A i, j \in 1..Len(s) : i < j => s[j].at \in Reached(doc, s[i].at)

PathInv ==
    /\ \A r \in Renders : SoundStack(r, stack[r])
    /\ HasDynamicValues \/ \A id \in AllUses : told[id] = Never

\* What a schema uses is reached from it, and what that uses as well.
LEMMA ReachedUses ==
    ASSUME NEW d \in Documents, NEW s \in DOMAIN d.uses, NEW t \in UsesOf(d, s)
    PROVE  /\ t \in Reached(d, s)
           /\ \A u : s \in Reached(d, u) => t \in Reached(d, u)
<1>1. t \in DOMAIN d.uses
  BY DocumentAssumption
<1>2. t \in Reached(d, s)
  BY <1>1 DEF Reached
<1>3. ASSUME NEW u, s \in Reached(d, u)
      PROVE  t \in Reached(d, u)
  <2>. SUFFICES ASSUME NEW schemas \in SUBSET DOMAIN d.uses,
                       IsClosed(d, schemas), UsesOf(d, u) \subseteq schemas
                PROVE  t \in schemas
    BY <1>1 DEF Reached
  <2>1. s \in schemas
    BY <1>3 DEF Reached
  <2>. QED
    BY <2>1 DEF IsClosed
<1>. QED
  BY <1>2, <1>3

\* A use is one of the schema that holds it.
LEMMA UseIsOfHolder ==
    ASSUME NEW id \in AllUses
    PROVE  /\ Holder(id) \in DOMAIN doc.uses
           /\ Use(id).to \in UsesOf(doc, Holder(id))
           /\ id = <<id[1], id[2]>>
<1>1. PICK s \in Schemas : \E i \in DOMAIN doc.uses[s] : id = <<s, i>>
  BY DEF AllUses
<1>2. PICK i \in DOMAIN doc.uses[s] : id = <<s, i>>
  BY <1>1
<1>3. id[1] = s /\ id[2] = i
  BY <1>2
<1>. QED
  BY <1>2, <1>3 DEF Holder, Use, UsesOf, Schemas

\* References of one key lead to one schema, if they are not made by the program.
LEMMA KeysIdentify ==
    ASSUME TypeOK, NEW id \in AllUses, NEW other \in AllUses,
           Use(other).by # "made", getInlineRenderKey(id) = getInlineRenderKey(other)
    PROVE  Use(id).to = Use(other).to
<1>0. /\ doc \in Documents
      /\ Use(id).to \in DOMAIN doc.uses /\ Use(other).to \in DOMAIN doc.uses
  BY UseIsOfHolder, DocumentAssumption DEF TypeOK
<1>1. CASE Use(other).by = "ref"
  <2>1. getInlineRenderKey(other) =
            <<"ref", doc.file[Use(other).to], GetReference(other)>>
    BY <1>1 DEF getInlineRenderKey
  <2>2. getInlineRenderKey(other)[1] = "ref"
    BY <2>1
  <2>3. CASE Use(id).by = "made"
    <3>1. getInlineRenderKey(id)[1] = "made"
      BY <2>3 DEF getInlineRenderKey
    <3>. QED
      BY <2>2, <3>1
  <2>4. CASE Use(id).by = "ref"
    <3>1. getInlineRenderKey(id) = <<"ref", doc.file[Use(id).to], GetReference(id)>>
      BY <2>4 DEF getInlineRenderKey
    <3>2. /\ getInlineRenderKey(id)[2] = doc.file[Use(id).to]
          /\ getInlineRenderKey(id)[3] = GetReference(id)
          /\ getInlineRenderKey(other)[2] = doc.file[Use(other).to]
          /\ getInlineRenderKey(other)[3] = GetReference(other)
      BY <2>1, <3>1
    <3>3. doc.file[Use(id).to] = doc.file[Use(other).to] /\ GetReference(id) = GetReference(other)
      BY <3>2
    <3>4. GetReference(id)[2] = doc.name[Use(id).to] /\ GetReference(other)[2] = doc.name[Use(other).to]
      BY DEF GetReference
    <3>. QED
      BY <1>0, <3>3, <3>4, DocumentAssumption
  <2>5. CASE Use(id).by \notin {"made", "ref"}
    <3>1. getInlineRenderKey(id)[1] = "at"
      BY <2>5 DEF getInlineRenderKey
    <3>. QED
      BY <2>2, <3>1
  <2>. QED
    BY <2>3, <2>4, <2>5
<1>2. CASE Use(other).by # "ref"
  <2>1. getInlineRenderKey(other) = <<"at", Use(other).to>>
    BY <1>2 DEF getInlineRenderKey
  <2>2. CASE Use(id).by = "made"
    <3>1. getInlineRenderKey(id)[1] = "made"
      BY <2>2 DEF getInlineRenderKey
    <3>. QED
      BY <2>1, <3>1
  <2>3. CASE Use(id).by = "ref"
    <3>1. getInlineRenderKey(id)[1] = "ref"
      BY <2>3 DEF getInlineRenderKey
    <3>. QED
      BY <2>1, <3>1
  <2>4. CASE Use(id).by \notin {"made", "ref"}
    <3>1. getInlineRenderKey(id) = <<"at", Use(id).to>>
      BY <2>4 DEF getInlineRenderKey
    <3>. QED
      BY <2>1, <3>1
  <2>. QED
    BY <2>2, <2>3, <2>4
<1>. QED
  BY <1>1, <1>2

\* Whether a frame is sound is a matter of the document.
LEMMA SoundInDocument ==
    ASSUME doc' = doc
    PROVE  /\ \A r \in Renders : SoundStack(r, stack[r])' <=> SoundStack(r, stack'[r])
           /\ HasDynamicValues' <=> HasDynamicValues
           /\ AllUses' = AllUses
<1>1. AllUses' = AllUses
  BY DEF AllUses, Schemas
<1>2. \A id : /\ Use(id)' = Use(id)
              /\ getInlineRenderKey(id)' = getInlineRenderKey(id)
              /\ IsBuilt(id)' = IsBuilt(id)
  BY DEF Use, getInlineRenderKey, GetReference, Holder, IsBuilt
<1>3. HasDynamicValues' <=> HasDynamicValues
  BY <1>1, <1>2 DEF HasDynamicValues
<1>4. \A r : Private(r)' = Private(r)
  BY <1>1 DEF Private, Own, NewInlineRenderContext
<1>5. \A r, f : SoundFrame(r, f)' <=> SoundFrame(r, f)
  BY <1>1, <1>2, <1>3, <1>4 DEF SoundFrame, None, NotInline
<1>6. \A r, s : SoundStack(r, s)' <=> SoundStack(r, s)
  BY <1>5 DEF SoundStack
<1>7. \A r \in Renders : SoundStack(r, stack[r])' <=> SoundStack(r, stack'[r])
  BY <1>6
<1>. QED
  BY <1>1, <1>3, <1>7

\* A stack whose frames go on, and have been checked, stays sound; so does one that
\* loses its top.
LEMMA SoundGoesOn ==
    ASSUME NEW r, NEW s \in Seq(Frames), NEW t \in Seq(Frames), SoundStack(r, s),
           Len(t) <= Len(s), SameFrames(t, s),
           \A i \in 1..Len(t) : /\ t[i].step # "check"
                                /\ t[i].tracked => IsBuilt(t[i].use)
    PROVE  SoundStack(r, t)
<1>1. ASSUME NEW i \in 1..Len(t)
      PROVE  i \in 1..Len(s) /\ SameFrame(t[i], s[i])
  BY DEF SameFrames
<1>2. ASSUME NEW i \in 1..Len(t)
      PROVE  SoundFrame(r, t[i])
  <2>1. SoundFrame(r, s[i]) /\ SameFrame(t[i], s[i])
    BY <1>1 DEF SoundStack
  <2>. QED
    BY <2>1 DEF SoundFrame, SameFrame
<1>3. ASSUME NEW i \in 1..Len(t), NEW j \in 1..Len(t), i < j
      PROVE  t[j].at \in Reached(doc, t[i].at)
  <2>1. /\ i \in 1..Len(s) /\ t[i].at = s[i].at
        /\ j \in 1..Len(s) /\ t[j].at = s[j].at
    BY <1>1 DEF SameFrame
  <2>. QED
    BY <1>3, <2>1 DEF SoundStack
<1>. QED
  BY <1>2, <1>3 DEF SoundStack

\* The ways in which a render goes on.
LEMMA SoundAdvanced ==
    ASSUME NEW r, stack[r] \in Seq(Frames), SoundStack(r, stack[r]),
           Depth(r) > 0, Top(r).step # "check"
    PROVE  SoundStack(r, Advanced(r))
<1>1. /\ Advanced(r) \in Seq(Frames) /\ Len(Advanced(r)) = Len(stack[r])
      /\ SameFrames(Advanced(r), stack[r])
      /\ \A i \in 1..Len(stack[r]) :
            Advanced(r)[i].step \in {"uses", stack[r][i].step}
  BY AdvancedFrames DEF Depth
<1>2. ASSUME NEW i \in 1..Len(stack[r])
      PROVE  stack[r][i].step # "check"
  BY DEF SoundStack, Top, Depth
<1>3. ASSUME NEW i \in 1..Len(stack[r])
      PROVE  stack[r][i].tracked => IsBuilt(stack[r][i].use)
  BY <1>2 DEF SoundStack, SoundFrame
<1>4. ASSUME NEW i \in 1..Len(Advanced(r))
      PROVE  /\ Advanced(r)[i].step # "check"
             /\ Advanced(r)[i].tracked => IsBuilt(Advanced(r)[i].use)
  BY <1>1, <1>2, <1>3 DEF SameFrames, SameFrame
<1>. QED
  BY <1>1, <1>4, SoundGoesOn

LEMMA SoundReturned ==
    ASSUME NEW r, stack[r] \in Seq(Frames), SoundStack(r, stack[r]), Depth(r) > 0
    PROVE  SoundStack(r, Returned(r))
<1>1. /\ Returned(r) \in Seq(Frames) /\ Len(Returned(r)) = Len(stack[r]) - 1
      /\ SameFrames(Returned(r), stack[r])
      /\ \A i \in 1..Len(Returned(r)) :
            Returned(r)[i].step \in {"uses", stack[r][i].step}
  BY ReturnedFrames DEF Depth
<1>2. ASSUME NEW i \in 1..Len(Returned(r))
      PROVE  i \in 1..Len(stack[r]) /\ stack[r][i].step # "check"
  BY <1>1 DEF SoundStack
<1>3. ASSUME NEW i \in 1..Len(Returned(r))
      PROVE  stack[r][i].tracked => IsBuilt(stack[r][i].use)
  BY <1>2 DEF SoundStack, SoundFrame
<1>4. ASSUME NEW i \in 1..Len(Returned(r))
      PROVE  /\ Returned(r)[i].step # "check"
             /\ Returned(r)[i].tracked => IsBuilt(Returned(r)[i].use)
  BY <1>1, <1>2, <1>3 DEF SameFrames, SameFrame
<1>. QED
  BY <1>1, <1>4, SoundGoesOn

LEMMA SoundStepped ==
    ASSUME NEW r, stack[r] \in Seq(Frames), SoundStack(r, stack[r]), Depth(r) > 0,
           NEW step \in {"uses", "inline", "told"},
           Top(r).tracked => IsBuilt(Top(r).use)
    PROVE  SoundStack(r, Stepped(r, step))
<1>1. /\ Stepped(r, step) \in Seq(Frames) /\ Len(Stepped(r, step)) = Len(stack[r])
      /\ SameFrames(Stepped(r, step), stack[r])
      /\ \A i \in 1..Len(stack[r]) :
            Stepped(r, step)[i].step = IF i = Len(stack[r]) THEN step ELSE stack[r][i].step
  BY SteppedFrames DEF Depth
<1>2. ASSUME NEW i \in 1..Len(stack[r])
      PROVE  stack[r][i].step # "check" \/ i = Len(stack[r])
  BY DEF SoundStack
<1>3. ASSUME NEW i \in 1..Len(stack[r])
      PROVE  stack[r][i].tracked => IsBuilt(stack[r][i].use)
  BY <1>2 DEF SoundStack, SoundFrame, Top, Depth
<1>4. ASSUME NEW i \in 1..Len(Stepped(r, step))
      PROVE  /\ Stepped(r, step)[i].step # "check"
             /\ Stepped(r, step)[i].tracked => IsBuilt(Stepped(r, step)[i].use)
  BY <1>1, <1>2, <1>3 DEF SameFrames, SameFrame
<1>. QED
  BY <1>1, <1>4, SoundGoesOn

\* A schema is begun on an empty stack, or for a use of the one on top.
LEMMA SoundBegun ==
    ASSUME NEW r, NEW f \in Frames, SoundFrame(r, f), stack[r] = <<>>
    PROVE  SoundStack(r, Append(stack[r], f))
<1>1. Append(stack[r], f) = <<f>>
  OBVIOUS
<1>2. Len(<<f>>) = 1 /\ <<f>>[1] = f
  OBVIOUS
<1>. QED
  BY <1>1, <1>2 DEF SoundStack

LEMMA SoundPushed ==
    ASSUME TypeOK, NEW r, stack[r] \in Seq(Frames), SoundStack(r, stack[r]),
           Depth(r) > 0, Top(r).step # "check", NextUse(r) \in AllUses,
           NEW f \in Frames, SoundFrame(r, f), f.at = Use(NextUse(r)).to
    PROVE  SoundStack(r, Append(stack[r], f))
<1>. DEFINE s == stack[r]
            n == Len(s)
            t == Append(s, f)
<1>1. /\ n \in Nat /\ n > 0 /\ Len(t) = n + 1 /\ t[n + 1] = f
      /\ \A i \in 1..n : t[i] = s[i]
  BY DEF Depth
<1>2. f.at \in UsesOf(doc, s[n].at) /\ s[n].at \in DOMAIN doc.uses /\ doc \in Documents
  BY UseIsOfHolder DEF NextUse, Top, Depth, Holder, TypeOK
<1>3. ASSUME NEW i \in 1..n
      PROVE  f.at \in Reached(doc, s[i].at)
  <2>1. i = n \/ s[n].at \in Reached(doc, s[i].at)
    BY <1>1 DEF SoundStack
  <2>. QED
    BY <1>2, <2>1, ReachedUses
<1>4. \A i \in 1..n : SoundFrame(r, s[i]) /\ s[i].step # "check"
  BY <1>1 DEF SoundStack, Top, Depth
<1>5. \A i \in 1..n + 1 : i \in 1..n \/ i = n + 1
  BY <1>1
<1>6. \A i \in 1..Len(t) : SoundFrame(r, t[i]) /\ (t[i].step = "check" => i = Len(t))
  BY <1>1, <1>4, <1>5
<1>7. \A i, j \in 1..Len(t) : i < j => t[j].at \in Reached(doc, t[i].at)
  <2>1. SUFFICES ASSUME NEW i \in 1..n + 1, NEW j \in 1..n + 1, i < j
                 PROVE  t[j].at \in Reached(doc, t[i].at)
    BY <1>1
  <2>2. i \in 1..n
    BY <1>1, <2>1
  <2>3. CASE j \in 1..n
    BY <1>1, <2>1, <2>2, <2>3 DEF SoundStack
  <2>4. CASE j = n + 1
    BY <1>1, <1>3, <2>2, <2>4
  <2>. QED
    BY <1>5, <2>3, <2>4
<1>. HIDE DEF t
<1>8. SoundStack(r, t)
  BY <1>6, <1>7 DEF SoundStack
<1>. QED
  BY <1>8 DEF t

\* A step that leaves the stacks sound.
LEMMA PathStep ==
    ASSUME IInv, PathInv, NEW r \in Renders, NEW t, Sets(r, t), SoundStack(r, t),
           doc' = doc, HasDynamicValues \/ told' = told
    PROVE  PathInv'
<1>1. ASSUME NEW q \in Renders
      PROVE  SoundStack(q, stack'[q])
  BY DEF IInv, StackInv, PathInv, Sets
<1>2. HasDynamicValues \/ \A id \in AllUses : told'[id] = Never
  BY DEF PathInv
<1>. QED
  BY <1>1, <1>2, SoundInDocument DEF PathInv, Never

\* The frames that a render begins with, whether they are tracked or not.
LEMMA BegunFrames ==
    ASSUME NEW r \in Renders, NEW c
    PROVE  /\ \A id \in AllUses :
                 HasDynamicValues \/ c \in Private(r) => SoundFrame(r, Tracked(id, c))
           /\ \A s, id :
                 HasDynamicValues \/ c \in Private(r) \cup {None, NotInline} =>
                     SoundFrame(r, Untracked(s, id, c))
<1>1. ASSUME NEW id \in AllUses, HasDynamicValues \/ c \in Private(r)
      PROVE  SoundFrame(r, Tracked(id, c))
  BY <1>1 DEF SoundFrame, Tracked
<1>2. ASSUME NEW s, NEW id, HasDynamicValues \/ c \in Private(r) \cup {None, NotInline}
      PROVE  SoundFrame(r, Untracked(s, id, c))
  BY <1>2 DEF SoundFrame, Untracked
<1>. QED
  BY <1>1, <1>2

\* A goroutine that is told to go on in its own context, or in none, does so.
LEMMA ContextsArePrivate ==
    ASSUME PathInv, NEW r \in Renders, stack[r] \in Seq(Frames), Depth(r) > 0,
           NextUse(r) \in AllUses, Top(r).ctx # NotInline
    PROVE  HasDynamicValues \/ ContextFor(r, Top(r).ctx) \in Private(r)
<1>1. SoundFrame(r, Top(r))
  BY DEF PathInv, SoundStack, Top, Depth
<1>2. CASE Top(r).ctx = None
  BY <1>2 DEF ContextFor, Private
<1>3. CASE Top(r).ctx # None
  BY <1>1, <1>3 DEF SoundFrame, ContextFor
<1>. QED
  BY <1>2, <1>3

\* What holds when a goroutine renders a use: the step of marshalYAMLInlineInternal.
GoesInto(r, c) ==
    /\ r \in Renders /\ c \in Contexts
    /\ Depth(r) > 0 /\ Top(r).step # "check" /\ NextUse(r) \in AllUses
    /\ HasDynamicValues \/ c \in Private(r)

LEMMA MarshalGoesInto ==
    ASSUME IInv, PathInv, NEW r \in Renders, RenderUse(r) \/ RenderDynamic(r)
    PROVE  \E c : GoesInto(r, c) /\ MarshalYAMLInlineWithContext(r, c, NextUse(r))
<1>1. /\ Depth(r) > 0 /\ Top(r).step # "check" /\ NextUse(r) \in AllUses
      /\ stack[r] \in Seq(Frames)
  BY DEF RenderUse, RenderDynamic, Now, IsAt, IInv, StackInv
<1>2. CASE RenderUse(r)
  <2>. DEFINE c == ContextFor(r, Top(r).ctx)
  <2>1. c \in Contexts
    BY <1>1, TopContext, FrameTypes
  <2>2. HasDynamicValues \/ c \in Private(r)
    BY <1>1, <1>2, ContextsArePrivate DEF RenderUse
  <2>. QED
    BY <1>1, <1>2, <2>1, <2>2 DEF RenderUse, GoesInto
<1>3. CASE RenderDynamic(r)
  <2>. DEFINE c == ContextFor(r, told[NextUse(r)])
  <2>1. c \in Contexts
    BY <1>1, <1>3, FrameTypes DEF RenderDynamic, IInv, TypeOK
  <2>2. HasDynamicValues
    BY <1>1, <1>3 DEF RenderDynamic, PathInv
  <2>. QED
    BY <1>1, <1>3, <2>1, <2>2 DEF RenderDynamic, GoesInto
<1>. QED
  BY <1>2, <1>3

LEMMA MarshalKeepsPath ==
    ASSUME IInv, PathInv, NEW r, NEW c, GoesInto(r, c),
           MarshalYAMLInlineWithContext(r, c, NextUse(r))
    PROVE  PathInv'
<1>1. /\ stack[r] \in Seq(Frames) /\ SoundStack(r, stack[r])
      /\ doc' = doc /\ told' = told /\ r \in Renders /\ TypeOK
  BY DEF IInv, StackInv, PathInv, GoesInto, MarshalYAMLInlineWithContext
<1>2. CASE Preserve(r, c, NextUse(r)) \/ Refuse(r, c, NextUse(r))
  <2>1. Sets(r, Advanced(r))
    BY <1>2 DEF Preserve, Refuse, Sets
  <2>. QED
    BY <1>1, <2>1, SoundAdvanced, PathStep DEF GoesInto
<1>3. CASE Start(r, c, NextUse(r))
  <2>. DEFINE f == Tracked(NextUse(r), c)
  <2>1. Sets(r, Append(stack[r], f))
    BY <1>3 DEF Start, Push, Sets
  <2>2. f \in Frames /\ SoundFrame(r, f)
    BY <1>1, FrameTypes, BegunFrames DEF GoesInto
  <2>3. f.at = Use(NextUse(r)).to
    BY DEF Tracked
  <2>. HIDE DEF f
  <2>4. SoundStack(r, Append(stack[r], f))
    BY <1>1, <2>2, <2>3, SoundPushed DEF GoesInto
  <2>. QED
    BY <1>1, <2>1, <2>4, PathStep
<1>. QED
  BY <1>2, <1>3 DEF MarshalYAMLInlineWithContext

\* Every schema on a stack has been come by from those below it.
THEOREM StacksArePaths == Spec => []PathInv
<1>1. Init => PathInv
  <2>. SUFFICES ASSUME Init PROVE PathInv
    OBVIOUS
  <2>1. \A r \in Renders : stack[r] = <<>> /\ Len(stack[r]) = 0
    BY DEF Init
  <2>. QED
    BY <2>1 DEF Init, PathInv, SoundStack
<1>2. IInv /\ PathInv /\ [Next]_vars => PathInv'
  <2>. SUFFICES ASSUME IInv, PathInv, [Next]_vars PROVE PathInv'
    OBVIOUS
  <2>0. /\ TypeOK
        /\ \A r \in Renders : stack[r] \in Seq(Frames) /\ SoundStack(r, stack[r])
    BY DEF IInv, StackInv, PathInv
  <2>1. ASSUME NEW r \in Renders, Begin(r)
        PROVE  PathInv'
    <3>1. PICK c \in {None, NotInline, Own(r)} : Push(r, Untracked(doc.entry, NoUse, c))
      BY <2>1 DEF Begin
    <3>. DEFINE f == Untracked(doc.entry, NoUse, c)
    <3>2. f \in Frames /\ SoundFrame(r, f)
      BY <3>1, FrameTypes, BegunFrames DEF Private, Contexts
    <3>3. Sets(r, Append(stack[r], f)) /\ doc' = doc /\ told' = told
      BY <2>1, <3>1 DEF Begin, Push, Sets
    <3>. HIDE DEF f
    <3>4. stack[r] = <<>>
      BY <2>0, <2>1 DEF Begin, Depth
    <3>. QED
      BY <3>2, <3>3, <3>4, SoundBegun, PathStep
  <2>2. ASSUME NEW r \in Renders, RenderUse(r) \/ RenderDynamic(r)
        PROVE  PathInv'
    BY <2>2, MarshalGoesInto, MarshalKeepsPath
  <2>3. ASSUME NEW r \in Renders, SetInline(r) \/ TellDynamic(r)
        PROVE  PathInv'
    <3>1. /\ Depth(r) > 0 /\ Top(r).step # "check" /\ doc' = doc
          /\ \E step \in {"inline", "told"} : Sets(r, Stepped(r, step))
          /\ HasDynamicValues \/ told' = told
      BY <2>3 DEF SetInline, TellDynamic, Now, IsAt, HasDynamicValues, Sets
    <3>2. Top(r).tracked => IsBuilt(Top(r).use)
      BY <2>0, <3>1 DEF SoundStack, SoundFrame, Top, Depth
    <3>. QED
      BY <2>0, <3>1, <3>2, SoundStepped, PathStep
  <2>4. ASSUME NEW r \in Renders, RenderPlain(r)
        PROVE  PathInv'
    <3>1. /\ Depth(r) > 0 /\ Top(r).step # "check" /\ NextUse(r) \in AllUses
          /\ doc' = doc /\ told' = told
      BY <2>4 DEF RenderPlain, Now, IsAt
    <3>. DEFINE f == Untracked(Use(NextUse(r)).to, NextUse(r), NotInline)
    <3>2. Sets(r, Advanced(r)) \/ Sets(r, Append(stack[r], f))
      BY <2>4 DEF RenderPlain, Push, Sets
    <3>3. f \in Frames /\ SoundFrame(r, f)
      <4>1. NotInline \in Contexts /\ NotInline \in Private(r) \cup {None, NotInline}
        BY DEF Contexts
      <4>2. f \in Frames
        BY <3>1, <4>1, FrameTypes
      <4>. QED
        BY <4>1, <4>2, BegunFrames
    <3>4. f.at = Use(NextUse(r)).to
      BY DEF Untracked
    <3>. HIDE DEF f
    <3>5. SoundStack(r, Advanced(r)) /\ SoundStack(r, Append(stack[r], f))
      BY <2>0, <3>1, <3>3, <3>4, SoundAdvanced, SoundPushed
    <3>. QED
      BY <3>1, <3>2, <3>5, PathStep
  <2>5. ASSUME NEW r \in Renders, CheckCircles(r)
        PROVE  PathInv'
    <3>1. /\ Depth(r) > 0 /\ doc' = doc /\ told' = told
          /\ \/ Sets(r, Returned(r))
             \/ IsBuilt(Top(r).use) /\ Sets(r, Stepped(r, "uses"))
      BY <2>5 DEF CheckCircles, IsAt, Sets
    <3>. QED
      BY <2>0, <3>1, SoundReturned, SoundStepped, PathStep
  <2>6. ASSUME NEW r \in Renders, Return(r)
        PROVE  PathInv'
    <3>1. Depth(r) > 0 /\ doc' = doc /\ told' = told /\ Sets(r, Returned(r))
      BY <2>6 DEF Return, IsAt, Sets
    <3>. QED
      BY <2>0, <3>1, SoundReturned, PathStep
  <2>7. CASE UNCHANGED vars
    <3>1. doc' = doc /\ stack' = stack /\ told' = told
      BY <2>7 DEF vars
    <3>. QED
      BY <2>0, <3>1, SoundInDocument DEF PathInv, Never
  <2>. QED
    BY <2>1, <2>2, <2>3, <2>4, <2>5, <2>6, <2>7 DEF Next
<1>. QED
  BY <1>1, <1>2, InvIsInductive, PTL DEF Spec

(***************************************************************************)
(* What is left of a document, and why: a context preserves what a         *)
(* discriminator may name, and each reference that is left is justified by *)
(* the document and by the context.                                        *)
(***************************************************************************)
MayBeNamed(id) == Holder(id) \in doc.discriminated /\ Use(id).in = "union"
TextIsMade(text) ==
    \E id \in AllUses :
        Use(id).by = "made" /\ Use(id).in = "union" /\ GetReference(id) = text

MarkInv ==
    /\ \A m \in preservedReferenceNodes : ~IsValidation(m[1]) /\ MayBeNamed(m[2])
    /\ \A m \in preservedRefs : ~IsValidation(m[1]) /\ TextIsMade(m[2])

Reasons == {"preserved", "local", "circle", "mixed", "known", "plain"}
IsCircular(e) == e.why \in {"circle", "mixed", "known"}
Justified(e) ==
    /\ e.why = "preserved" =>
          ~IsValidation(e.ctx) /\ (MayBeNamed(e.use) \/ TextIsMade(GetReference(e.use)))
    /\ e.why = "local" => IsOwn(e.ctx, "bundle")
    /\ e.why = "plain" => e.ctx = NotInline
    /\ e.why = "circle" => OnCircle(doc, Use(e.use).to)
    /\ e.why = "known" =>
          \/ OnCircle(doc, Use(e.use).to)
          \/ /\ ~StrictCircularReferenceIdentity(e.ctx)
             /\ HasNamesakes(e.use) \/ IsInLoopFile(e.use)
    /\ e.why = "mixed" => HasDynamicValues /\ Cardinality(Renders) > 1

LeftInv ==
    /\ left \in [Renders -> SUBSET [use : AllUses, why : Reasons, ctx : Contexts]]
    /\ \A r \in Renders : \A e \in left[r] :
          Justified(e) /\ (IsCircular(e) => failed[r] \/ isRootLocalReference(e.use))

\* What depends on the document, the wishes and the loop points only.
LEMMA SameJustification ==
    ASSUME doc' = doc, known' = known, wish' = wish
    PROVE  /\ \A id : /\ MayBeNamed(id)' <=> MayBeNamed(id)
                      /\ isRootLocalReference(id)' <=> isRootLocalReference(id)
           /\ \A text : TextIsMade(text)' <=> TextIsMade(text)
           /\ \A c : IsValidation(c)' <=> IsValidation(c)
           /\ \A e : Justified(e)' <=> Justified(e)
           /\ AllUses' = AllUses /\ Contexts' = Contexts
<1>1. AllUses' = AllUses /\ Contexts' = Contexts
  BY SameTypes
<1>2. \A id : /\ Use(id)' = Use(id)
              /\ GetReference(id)' = GetReference(id)
  BY DEF Use, GetReference, Holder
<1>3. \A id : /\ MayBeNamed(id)' <=> MayBeNamed(id)
              /\ isRootLocalReference(id)' <=> isRootLocalReference(id)
  BY <1>2 DEF MayBeNamed, isRootLocalReference, Holder
<1>4. \A text : TextIsMade(text)' <=> TextIsMade(text)
  BY <1>1, <1>2 DEF TextIsMade
<1>5. \A c : /\ IsValidation(c)' <=> IsValidation(c)
             /\ \A w : IsOwn(c, w)' <=> IsOwn(c, w)
             /\ StrictCircularReferenceIdentity(c)' <=> StrictCircularReferenceIdentity(c)
  BY DEF IsValidation, StrictCircularReferenceIdentity, IsOwn, Own
<1>6. HasDynamicValues' <=> HasDynamicValues
  BY <1>1, <1>2 DEF HasDynamicValues
<1>7. \A id : /\ HasNamesakes(id)' <=> HasNamesakes(id)
              /\ IsInLoopFile(id)' <=> IsInLoopFile(id)
  BY <1>2 DEF HasNamesakes, IsInLoopFile, IsNamesake, IsFileOf
<1>8. \A e : Justified(e)' <=> Justified(e)
  BY <1>2, <1>3, <1>4, <1>5, <1>6, <1>7 DEF Justified, NotInline
<1>. QED
  BY <1>1, <1>3, <1>4, <1>5, <1>8

Fixed == doc' = doc /\ known' = known /\ wish' = wish

\* A step that marks nothing keeps the marks, and one that marks what a
\* discriminator names adds such.
LEMMA MarksKept ==
    ASSUME MarkInv, Fixed, UNCHANGED preserved
    PROVE  MarkInv'
BY SameJustification DEF MarkInv, Fixed, preserved

LEMMA MarksAdded ==
    ASSUME MarkInv, Fixed, NEW c, NEW s, NEW ids,
           ids = {} \/ ids = DiscriminatorMarks(c, s),
           markDiscriminatorReferenceAsPreserved(c, ids)
    PROVE  MarkInv'
<1>. DEFINE made == {id \in ids : Use(id).by = "made"}
<1>1. \A id \in ids : ~IsValidation(c) /\ id \in AllUses /\ MayBeNamed(id)
  BY DEF DiscriminatorMarks, MayBeNamed
<1>2. /\ preservedReferenceNodes' =
             preservedReferenceNodes \cup {<<c, id>> : id \in ids \ made}
      /\ preservedRefs' = preservedRefs \cup {<<c, GetReference(id)>> : id \in made}
  BY DEF markDiscriminatorReferenceAsPreserved
<1>3. ASSUME NEW m \in preservedReferenceNodes'
      PROVE  ~IsValidation(m[1]) /\ MayBeNamed(m[2])
  <2>1. CASE m \in preservedReferenceNodes
    BY <2>1 DEF MarkInv
  <2>2. CASE m \in {<<c, id>> : id \in ids \ made}
    BY <1>1, <2>2
  <2>. QED
    BY <1>2, <1>3, <2>1, <2>2
<1>4. ASSUME NEW m \in preservedRefs'
      PROVE  ~IsValidation(m[1]) /\ TextIsMade(m[2])
  <2>1. CASE m \in preservedRefs
    BY <2>1 DEF MarkInv
  <2>2. CASE m \in {<<c, GetReference(id)>> : id \in made}
    <3>1. PICK id \in made : m = <<c, GetReference(id)>>
      BY <2>2
    <3>2. m[1] = c /\ m[2] = GetReference(id)
      BY <3>1
    <3>3. id \in ids /\ Use(id).by = "made"
      OBVIOUS
    <3>4. TextIsMade(GetReference(id))
      BY <1>1, <3>3 DEF TextIsMade, MayBeNamed
    <3>. QED
      BY <1>1, <3>2, <3>3, <3>4
  <2>. QED
    BY <1>2, <1>4, <2>1, <2>2
<1>. QED
  BY <1>3, <1>4, SameJustification DEF MarkInv, Fixed

\* A step that leaves nothing keeps what has been left, and one that leaves a
\* reference must have a reason.
LEMMA NothingLeft ==
    ASSUME LeftInv, Fixed, left' = left, \A r \in Renders : failed[r] => failed'[r]
    PROVE  LeftInv'
BY SameJustification DEF LeftInv, Fixed, IsCircular, Reasons

LEMMA SomethingLeft ==
    ASSUME LeftInv, TypeOK, Fixed, NEW r \in Renders, NEW id \in AllUses, NEW c \in Contexts,
           NEW why \in Reasons, NEW error \in BOOLEAN, Leave(r, id, c, why, error),
           LET e == [use |-> id, why |-> why, ctx |-> c]
           IN  Justified(e) /\ (IsCircular(e) => error \/ isRootLocalReference(id))
    PROVE  LeftInv'
<1>. DEFINE e == [use |-> id, why |-> why, ctx |-> c]
<1>1. /\ left' = [left EXCEPT ![r] = @ \cup {e}]
      /\ failed' = [failed EXCEPT ![r] = @ \/ error]
      /\ failed \in [Renders -> BOOLEAN]
  BY DEF Leave, TypeOK
<1>2. left' \in [Renders -> SUBSET [use : AllUses, why : Reasons, ctx : Contexts]]
  BY <1>1 DEF LeftInv
<1>3. ASSUME NEW q \in Renders, NEW x \in left'[q]
      PROVE  Justified(x) /\ (IsCircular(x) => failed'[q] \/ isRootLocalReference(x.use))
  <2>1. failed[q] => failed'[q]
    BY <1>1
  <2>2. CASE x \in left[q]
    BY <2>1, <2>2 DEF LeftInv
  <2>3. CASE q = r /\ x = e
    <3>1. x.use = id
      BY <2>3
    <3>2. error => failed'[q]
      BY <1>1, <2>3
    <3>3. Justified(x) /\ (IsCircular(x) => error \/ isRootLocalReference(id))
      BY <2>3
    <3>. QED
      BY <3>1, <3>2, <3>3
  <2>. QED
    BY <1>1, <1>3, <2>2, <2>3 DEF LeftInv
<1>4. \A x : IsCircular(x)' <=> IsCircular(x)
  BY DEF IsCircular
<1>. QED
  BY <1>2, <1>3, <1>4, SameJustification DEF LeftInv, Fixed, Reasons

\* A goroutine that meets a key of its own has gone round a circle.
LEMMA OwnKeysAreCircles ==
    ASSUME IInv, PathInv, NEW r, NEW c, GoesInto(r, c),
           IsRendering(r, c, getInlineRenderKey(NextUse(r)))
    PROVE  OnCircle(doc, Use(NextUse(r)).to)
<1>. DEFINE id == NextUse(r)
            s == stack[r]
            n == Depth(r)
<1>1. PICK i \in 1..n : s[i].tracked /\ s[i].key = getInlineRenderKey(id)
  BY DEF IsRendering
<1>2. /\ s \in Seq(Frames) /\ SoundStack(r, s) /\ n = Len(s) /\ n \in Nat /\ n > 0
      /\ TypeOK /\ doc \in Documents /\ id \in AllUses
  BY DEF IInv, TypeOK, StackInv, PathInv, GoesInto, Depth
<1>3. s[i].step # "check"
  BY <1>1, <1>2 DEF SoundStack, GoesInto, Top
<1>4. /\ s[i].use \in AllUses /\ s[i].at = Use(s[i].use).to
      /\ s[i].key = getInlineRenderKey(s[i].use) /\ Use(s[i].use).by # "made"
  BY <1>1, <1>2, <1>3 DEF SoundStack, SoundFrame, IsBuilt
<1>5. Use(id).to = s[i].at
  BY <1>1, <1>2, <1>4, KeysIdentify
<1>6. Use(id).to \in UsesOf(doc, s[n].at) /\ s[n].at \in DOMAIN doc.uses
  BY <1>2, UseIsOfHolder DEF NextUse, Top, Holder
<1>7. i = n \/ s[n].at \in Reached(doc, s[i].at)
  BY <1>1, <1>2 DEF SoundStack
<1>8. Use(id).to \in Reached(doc, s[i].at)
  BY <1>2, <1>6, <1>7, ReachedUses
<1>. QED
  BY <1>5, <1>8 DEF OnCircle

\* One that meets a key of another is rendering in a context that was passed on.
LEMMA OthersKeysArePassedOn ==
    ASSUME IInv, PathInv, NEW r, NEW c, GoesInto(r, c), NEW key,
           <<c, key>> \in tracker, ~IsRendering(r, c, key)
    PROVE  HasDynamicValues /\ Cardinality(Renders) > 1
<1>1. PICK q \in Renders : \E i \in Places(q) : IsTracked(q, i) /\ Entry(q, i) = <<c, key>>
  BY DEF IInv, StackInv, TrackerIsTheStack
<1>2. PICK i \in Places(q) : IsTracked(q, i) /\ Entry(q, i) = <<c, key>>
  BY <1>1
<1>3. stack[q][i].tracked /\ stack[q][i].ctx = c /\ stack[q][i].key = key /\ i \in 1..Depth(q)
  BY <1>2 DEF IsTracked, Entry, Places
<1>4. q # r
  BY <1>3 DEF IsRendering
<1>5. Cardinality(Renders) > 1
  <2>1. r \in Renders /\ {q, r} \subseteq Renders /\ IsFiniteSet(Renders)
    BY DocumentAssumption DEF GoesInto
  <2>2. Cardinality({q, r}) <= Cardinality(Renders)
    BY <2>1, FS_Subset
  <2>3. Cardinality({q, r}) = 2
    <3>1. IsFiniteSet({r}) /\ Cardinality({r}) = 1
      BY FS_Singleton
    <3>2. Cardinality({r} \cup {q}) = 1 + 1
      BY <1>4, <3>1, FS_AddElement
    <3>3. {r} \cup {q} = {q, r}
      OBVIOUS
    <3>. QED
      BY <3>2, <3>3
  <2>4. Cardinality(Renders) \in Nat
    BY <2>1, FS_CardinalityType
  <2>. QED
    BY <2>2, <2>3, <2>4
<1>6. HasDynamicValues
  <2>. SUFFICES ASSUME ~HasDynamicValues PROVE FALSE
    OBVIOUS
  <2>1. SoundFrame(q, stack[q][i])
    BY <1>3 DEF PathInv, SoundStack, Depth
  <2>2. c \in Private(q) /\ c \in Private(r)
    BY <1>3, <2>1 DEF SoundFrame, GoesInto
  <2>3. \A p : c \in Private(p) => c[1] = p
    BY DEF Private, Own, NewInlineRenderContext
  <2>. QED
    BY <1>4, <2>2, <2>3
<1>. QED
  BY <1>5, <1>6

\* The render of one use leaves it for a reason (marshalYAMLInlineInternal).
LEMMA MarshalKeepsLeft ==
    ASSUME IInv, PathInv, MarkInv, LeftInv, NEW r, NEW c, GoesInto(r, c),
           MarshalYAMLInlineWithContext(r, c, NextUse(r))
    PROVE  MarkInv' /\ LeftInv'
<1>. DEFINE id == NextUse(r)
<1>1. /\ r \in Renders /\ c \in Contexts /\ id \in AllUses
      /\ TypeOK /\ Fixed /\ UNCHANGED preserved
  BY DEF IInv, GoesInto, MarshalYAMLInlineWithContext, Fixed
<1>2. CASE Preserve(r, c, id)
  <2>. DEFINE why == IF ShouldPreserve(c, id) THEN "preserved" ELSE "local"
              e == [use |-> id, why |-> why, ctx |-> c]
  <2>1. why \in Reasons /\ Leave(r, id, c, why, FALSE)
    BY <1>2 DEF Preserve, Reasons
  <2>2. Justified(e)
    <3>1. CASE ShouldPreserve(c, id)
      <4>1. /\ <<c, id>> \in preservedReferenceNodes => ~IsValidation(c) /\ MayBeNamed(id)
            /\ <<c, GetReference(id)>> \in preservedRefs =>
                   ~IsValidation(c) /\ TextIsMade(GetReference(id))
        BY DEF MarkInv
      <4>2. ~IsValidation(c) /\ (MayBeNamed(id) \/ TextIsMade(GetReference(id)))
        BY <3>1, <4>1 DEF ShouldPreserve
      <4>. QED
        BY <3>1, <4>2 DEF Justified
    <3>2. CASE ~ShouldPreserve(c, id)
      <4>1. IsOwn(c, "bundle")
        BY <1>2, <3>2 DEF Preserve, KeepsLocal, PreserveLocalComponentRefs
      <4>. QED
        BY <3>2, <4>1 DEF Justified
    <3>. QED
      BY <3>1, <3>2
  <2>3. ~IsCircular(e)
    BY DEF IsCircular
  <2>. HIDE DEF why
  <2>. QED
    BY <1>1, <2>1, <2>2, <2>3, SomethingLeft, MarksKept
<1>3. CASE Refuse(r, c, id)
  <2>. DEFINE key == getInlineRenderKey(id)
              why == IF IsRendering(r, c, key) THEN "circle" ELSE "mixed"
              error == ~isRootLocalReference(id)
              e == [use |-> id, why |-> why, ctx |-> c]
  <2>1. why \in Reasons /\ error \in BOOLEAN /\ Leave(r, id, c, why, error)
    BY <1>3 DEF Refuse, Reasons
  <2>2. <<c, key>> \in tracker
    BY <1>3 DEF Refuse, StartRendering
  <2>3. Justified(e)
    <3>1. CASE IsRendering(r, c, key)
      <4>1. OnCircle(doc, Use(id).to)
        BY <3>1, OwnKeysAreCircles
      <4>. QED
        BY <3>1, <4>1 DEF Justified
    <3>2. CASE ~IsRendering(r, c, key)
      <4>1. HasDynamicValues /\ Cardinality(Renders) > 1
        BY <2>2, <3>2, OthersKeysArePassedOn
      <4>. QED
        BY <3>2, <4>1 DEF Justified
    <3>. QED
      BY <3>1, <3>2
  <2>4. error \/ isRootLocalReference(id)
    OBVIOUS
  <2>. HIDE DEF why, error
  <2>. QED
    BY <1>1, <2>1, <2>3, <2>4, SomethingLeft, MarksKept
<1>4. CASE Start(r, c, id)
  BY <1>1, <1>4, MarksKept, NothingLeft DEF Start
<1>. QED
  BY <1>2, <1>3, <1>4 DEF MarshalYAMLInlineWithContext

\* So does the check against the circles that the resolver found.
LEMMA CheckKeepsLeft ==
    ASSUME IInv, PathInv, MarkInv, LeftInv, NEW r \in Renders, CheckCircles(r)
    PROVE  MarkInv' /\ LeftInv'
<1>. DEFINE f == Top(r)
<1>1. /\ TypeOK /\ Fixed /\ stack[r] \in Seq(Frames) /\ Depth(r) > 0
      /\ f.step = "check" /\ f \in Frames
  BY DEF IInv, StackInv, CheckCircles, IsAt, Fixed, Depth, Top
<1>2. f.use \in AllUses /\ f.ctx \in Contexts
  BY <1>1, TopContext DEF PathInv, SoundStack, SoundFrame, Top, Depth
<1>3. CASE IsBuilt(f.use) /\ MatchesLoop(f.ctx, f.use)
  <2>. DEFINE error == ~isRootLocalReference(f.use)
              e == [use |-> f.use, why |-> "known", ctx |-> f.ctx]
  <2>1. Leave(r, f.use, f.ctx, "known", error) /\ UNCHANGED preserved /\ error \in BOOLEAN
    BY <1>3 DEF CheckCircles
  <2>2. Justified(e)
    <3>1. PICK loop \in known :
             IF StrictCircularReferenceIdentity(f.ctx) THEN loop = Use(f.use).to
             ELSE IsNamesake(loop, Use(f.use).to) \/ IsFileOf(loop, Use(f.use).to)
      BY <1>3 DEF MatchesLoop
    <3>2. OnCircle(doc, loop)
      BY <1>1, DocumentAssumption DEF TypeOK
    <3>3. \/ OnCircle(doc, Use(f.use).to)
          \/ /\ ~StrictCircularReferenceIdentity(f.ctx)
             /\ HasNamesakes(f.use) \/ IsInLoopFile(f.use)
      BY <3>1, <3>2 DEF HasNamesakes, IsInLoopFile
    <3>. QED
      BY <3>3 DEF Justified
  <2>3. error \/ isRootLocalReference(f.use)
    OBVIOUS
  <2>. HIDE DEF error
  <2>4. "known" \in Reasons
    BY DEF Reasons
  <2>. QED
    BY <1>1, <1>2, <2>1, <2>2, <2>3, <2>4, SomethingLeft, MarksKept
<1>4. CASE ~(IsBuilt(f.use) /\ MatchesLoop(f.ctx, f.use))
  <2>1. /\ left' = left
        /\ failed' \in {failed, [failed EXCEPT ![r] = TRUE]}
        /\ \/ UNCHANGED preserved
           \/ markDiscriminatorReferenceAsPreserved(f.ctx, DiscriminatorMarks(f.ctx, f.at))
    BY <1>4 DEF CheckCircles
  <2>2. \A q \in Renders : failed[q] => failed'[q]
    BY <1>1, <2>1 DEF TypeOK
  <2>. QED
    BY <1>1, <2>1, <2>2, NothingLeft, MarksKept, MarksAdded
<1>. QED
  BY <1>3, <1>4

\* What is left is left for a reason, whatever is rendered and whoever renders it.
THEOREM LeftForAReason == Spec => [](MarkInv /\ LeftInv)
<1>1. Init => MarkInv /\ LeftInv
  BY DEF Init, MarkInv, LeftInv
<1>2. IInv /\ PathInv /\ MarkInv /\ LeftInv /\ [Next]_vars => MarkInv' /\ LeftInv'
  <2>. SUFFICES ASSUME IInv, PathInv, MarkInv, LeftInv, [Next]_vars
                PROVE  MarkInv' /\ LeftInv'
    OBVIOUS
  <2>0. TypeOK
    BY DEF IInv
  <2>1. ASSUME NEW r \in Renders, Begin(r)
        PROVE  MarkInv' /\ LeftInv'
    <3>1. PICK c : markDiscriminatorReferenceAsPreserved(
                       c, IF c = Own(r) THEN DiscriminatorMarks(c, doc.entry) ELSE {})
      BY <2>1 DEF Begin
    <3>2. Fixed /\ left' = left /\ failed' = failed
      BY <2>1 DEF Begin, Fixed
    <3>. QED
      BY <3>1, <3>2, MarksAdded, NothingLeft
  <2>2. ASSUME NEW r \in Renders, RenderUse(r) \/ RenderDynamic(r)
        PROVE  MarkInv' /\ LeftInv'
    BY <2>2, MarshalGoesInto, MarshalKeepsLeft
  <2>3. ASSUME NEW r \in Renders, SetInline(r) \/ TellDynamic(r) \/ Return(r)
        PROVE  MarkInv' /\ LeftInv'
    <3>1. Fixed /\ UNCHANGED preserved /\ left' = left /\ failed' = failed
      BY <2>3 DEF SetInline, TellDynamic, Return, Fixed
    <3>. QED
      BY <3>1, MarksKept, NothingLeft
  <2>4. ASSUME NEW r \in Renders, RenderPlain(r)
        PROVE  MarkInv' /\ LeftInv'
    <3>1. NextUse(r) \in AllUses /\ Fixed /\ UNCHANGED preserved
      BY <2>4 DEF RenderPlain, Now, Fixed
    <3>2. CASE Leave(r, NextUse(r), NotInline, "plain", FALSE)
      <4>. DEFINE e == [use |-> NextUse(r), why |-> "plain", ctx |-> NotInline]
      <4>1. Justified(e) /\ ~IsCircular(e)
        BY DEF Justified, IsCircular
      <4>2. NotInline \in Contexts /\ "plain" \in Reasons
        BY DEF Contexts, Reasons
      <4>. QED
        BY <2>0, <3>1, <3>2, <4>1, <4>2, SomethingLeft, MarksKept
    <3>3. CASE left' = left /\ failed' \in {failed, [failed EXCEPT ![r] = TRUE]}
      <4>1. \A q \in Renders : failed[q] => failed'[q]
        BY <2>0, <3>3 DEF TypeOK
      <4>. QED
        BY <3>1, <3>3, <4>1, MarksKept, NothingLeft
    <3>. QED
      BY <2>4, <3>2, <3>3 DEF RenderPlain
  <2>5. ASSUME NEW r \in Renders, CheckCircles(r)
        PROVE  MarkInv' /\ LeftInv'
    BY <2>5, CheckKeepsLeft
  <2>6. CASE UNCHANGED vars
    <3>1. Fixed /\ UNCHANGED preserved /\ left' = left /\ failed' = failed
      BY <2>6 DEF vars, Fixed
    <3>. QED
      BY <3>1, MarksKept, NothingLeft
  <2>. QED
    BY <2>1, <2>2, <2>3, <2>4, <2>5, <2>6 DEF Next
<1>. QED
  BY <1>1, <1>2, InvIsInductive, StacksArePaths, PTL DEF Spec

\* A reference that a render leaves for a circle leads to a schema that uses itself,
\* or, where the context is not strict, bears the name of a loop point or is in a file
\* that is one, or was met in a context that came to another goroutine
\* (InlineRenderContext.tracker, marshalYAMLInlineInternal).
THEOREM CirclesFoundAreReal == Spec => []CirclesAreReal
<1>1. LeftInv => CirclesAreReal
  BY DEF LeftInv, CirclesAreReal, Justified
<1>. QED
  BY <1>1, LeftForAReason, PTL

\* A render that reports no error has left what it was told to leave, and circles of
\* the root document (marshalYAMLInlineInternal, MarshalYAMLInlineWithContext).
THEOREM RendersAreWhole == Spec => []RenderIsWhole
<1>1. LeftInv => RenderIsWhole
  <2>. SUFFICES ASSUME LeftInv, NEW r \in Renders, ~failed[r],
                       NEW e \in left[r], e.ctx = Own(r)
                PROVE  CASE e.why = "preserved" ->
                              /\ wish[r] # "validation"
                              /\ \/ Holder(e.use) \in doc.discriminated /\ Use(e.use).in = "union"
                                 \/ \E id \in AllUses :
                                        /\ Use(id).by = "made" /\ Use(id).in = "union"
                                        /\ GetReference(id) = GetReference(e.use)
                         [] e.why = "local" -> wish[r] = "bundle"
                         [] OTHER -> isRootLocalReference(e.use)
    BY DEF RenderIsWhole
  <2>1. /\ e.why \in Reasons /\ Justified(e)
        /\ IsCircular(e) => isRootLocalReference(e.use)
    BY DEF LeftInv
  <2>2. \A w : IsOwn(e.ctx, w) <=> wish[r] = w
    <3>1. Own(r)[1] = r
      BY DEF Own
    <3>. QED
      BY <3>1 DEF IsOwn
  <2>3. e.ctx # NotInline
    <3>1. Len(Own(r)) = 2 /\ Len(NotInline) = 1
      BY DEF Own, NotInline
    <3>. QED
      BY <3>1
  <2>4. CASE e.why = "preserved"
    BY <2>1, <2>2, <2>4 DEF Justified, IsValidation, MayBeNamed, TextIsMade
  <2>5. CASE e.why = "local"
    BY <2>1, <2>2, <2>5 DEF Justified
  <2>6. CASE e.why \notin {"preserved", "local"}
    <3>1. isRootLocalReference(e.use)
      BY <2>1, <2>3, <2>6 DEF Justified, IsCircular, Reasons
    <3>. QED
      BY <2>6, <3>1
  <2>. QED
    BY <2>4, <2>5, <2>6
<1>. QED
  BY <1>1, LeftForAReason, PTL

-----------------------------------------------------------------------------
(***************************************************************************)
(* Members. The text, the low-level and the high-level value of a field.   *)
(***************************************************************************)
SomeText == {"absent", "empty", "some", "ref", "other", "grown"}
IsText(type, f, text) ==
    text \in SomeText /\ (text = "empty" => CanBeEmpty(Members[type][f]))
IsValue(type, f, v) ==
    /\ v \in {"nil", "empty", "some", "ref", "other", "grown"}
    /\ v = "nil" => Members[type][f] \notin Valued
    /\ v = "empty" => CanBeEmpty(Members[type][f]) \/ Members[type][f] = "entries"

\* The member that is made of what a text says of a field that is shown.
Loaded(type, f, text) ==
    IF LowOf(type, f, text) = "absent" THEN Unset(type, f)
    ELSE Taken(type, f, LowOf(type, f, text))

\* What a constructor makes of nothing; what it makes is a value of the member.
LEMMA UnsetFacts ==
    ASSUME NEW type, NEW f, MadeAgrees(type, f)
    PROVE  Unset(type, f) \in Missing /\ IsValue(type, f, Unset(type, f))
  BY DEF MadeAgrees, Unset, Blank, Missing, IsValue, Valued, CanBeEmpty

LEMMA LowFacts ==
    ASSUME NEW type, NEW f, NEW text, IsText(type, f, text)
    PROVE  IsText(type, f, LowOf(type, f, text))
  BY DEF LowOf, IsText, SomeText

LEMMA HighIsValue ==
    ASSUME NEW type, NEW f, MadeAgrees(type, f), NEW lows, IsText(type, f, lows[f])
    PROVE  IsValue(type, f, HighOf(type, f, lows))
  <1>1. IsValue(type, f, Unset(type, f)) /\ IsValue(type, f, "other")
    BY UnsetFacts DEF IsValue
  <1>2. lows[f] # "absent" => IsValue(type, f, lows[f])
    BY DEF IsText, IsValue, SomeText
  <1>3. HighOf(type, f, lows) \in {Unset(type, f), "other"}
           \/ (lows[f] # "absent" /\ HighOf(type, f, lows) = lows[f])
    BY DEF HighOf, Taken
  <1>. QED
    BY <1>1, <1>2, <1>3

\* A field that is shown: the member depends on its own text only.
LEMMA HighIsLoaded ==
    ASSUME NEW type, NEW f, IsShown(type, f), NEW lows, NEW text,
           lows[f] = LowOf(type, f, text)
    PROVE  HighOf(type, f, lows) = Loaded(type, f, text)
  BY DEF IsShown, HighOf, Loaded

LEMMA TextIsLoaded ==
    ASSUME NEW type, NEW f, IsShown(type, f), NEW text, IsText(type, f, text),
           text # "absent", text # "empty"
    PROVE  Loaded(type, f, text) = text
  BY DEF IsShown, LowOf, Loaded, Taken

LEMMA AbsentIsLoaded ==
    ASSUME NEW type, NEW f
    PROVE  LowOf(type, f, "absent") = "absent" /\ Loaded(type, f, "absent") = Unset(type, f)
  BY DEF LowOf, Loaded

LEMMA EmptyIsLoaded ==
    ASSUME NEW type, NEW f, IsShown(type, f)
    PROVE  LET isUnkept == <<type, f>> \in Unkept
           IN  /\ LowOf(type, f, "empty") = IF isUnkept THEN "absent" ELSE "empty"
               /\ Loaded(type, f, "empty") =
                     IF isUnkept \/ f \in New[type].drops THEN Unset(type, f) ELSE "empty"
  BY DEF IsShown, LowOf, Loaded, Taken

LEMMA MissingIsLoaded ==
    ASSUME NEW type, NEW f, IsShown(type, f), MadeAgrees(type, f),
           NEW text \in {"absent", "empty"}
    PROVE  Loaded(type, f, text) \in Missing
  <1>1. Unset(type, f) \in Missing /\ "empty" \in Missing
    BY UnsetFacts DEF Missing
  <1>2. Loaded(type, f, "absent") \in Missing
    BY <1>1, AbsentIsLoaded
  <1>3. Loaded(type, f, "empty") \in Missing
    BY <1>1, EmptyIsLoaded
  <1>. QED
    BY <1>2, <1>3

\* A field that is not shown, of an object that is rendered and of any.
LEMMA LostIsUnset ==
    ASSUME NEW type \in RenderedTypes, NEW f, ShownAgrees(type, f), ~IsShown(type, f),
           NEW text, NEW lows, lows[f] = LowOf(type, f, text)
    PROVE  lows[f] = "absent" /\ HighOf(type, f, lows) = Unset(type, f)
  BY DEF ShownAgrees, LowOf, HighOf

LEMMA LostIsNotShown ==
    ASSUME NEW type, NEW f, MadeAgrees(type, f), ~IsShown(type, f),
           NEW text, NEW lows, lows[f] = LowOf(type, f, text)
    PROVE  HighOf(type, f, lows) # "some"
  <1>1. Unset(type, f) # "some"
    BY UnsetFacts DEF Missing
  <1>. QED
    BY <1>1 DEF IsShown, LowOf, HighOf

\* What is written.
LEMMA WrittenFacts ==
    ASSUME NEW type \in RenderedTypes, NEW f, MadeAgrees(type, f),
           NEW v, IsValue(type, f, v), NEW l
    PROVE  /\ v \notin Missing => WrittenAs(type, f, v, l) = v
           /\ v \in Missing => WrittenAs(type, f, v, l) \in {"absent", "empty"}
           /\ IsText(type, f, WrittenAs(type, f, v, l))
  BY DEF MadeAgrees, IsValue, Missing, WrittenAs, WrittenByHand, Built, IsZero, AddYAMLNode,
         ToYamlNode, EncodeList, FollowPointer, IsText, SomeText, CanBeEmpty, Valued

LEMMA UnsetIsWritten ==
    ASSUME NEW type \in RenderedTypes, NEW f, MadeAgrees(type, f)
    PROVE  WrittenAs(type, f, Unset(type, f), "absent") =
               IF <<type, f>> \in Invented THEN "empty" ELSE "absent"
  BY DEF MadeAgrees, Unset, Blank, Valued, WrittenAs, WrittenByHand, Built, IsZero, AddYAMLNode,
         ToYamlNode, EncodeList, FollowPointer

\* An empty text that is loaded and written.
LEMMA EmptyIsWritten ==
    ASSUME NEW type \in RenderedTypes, NEW f, FieldAgrees(type, f), IsShown(type, f),
           CanBeEmpty(Members[type][f])
    PROVE  WrittenAs(type, f, Loaded(type, f, "empty"), LowOf(type, f, "empty")) =
               IF <<type, f>> \in Forgotten THEN "absent" ELSE "empty"
  <1>. DEFINE isUnkept == <<type, f>> \in Unkept
              isDropped == f \in New[type].drops
              h == Loaded(type, f, "empty")
  <1>1. IsText(type, f, "empty") /\ MadeAgrees(type, f) /\ EmptyAgrees(type, f)
    BY DEF IsText, SomeText, FieldAgrees
  <1>2. /\ LowOf(type, f, "empty") = IF isUnkept THEN "absent" ELSE "empty"
        /\ h = IF isUnkept \/ isDropped THEN Unset(type, f) ELSE "empty"
    BY EmptyIsLoaded
  <1>3. CASE isUnkept \/ isDropped
    <2>1. Unset(type, f) = "nil"
      BY <1>1, <1>3 DEF EmptyAgrees, Unset, Blank, Valued
    <2>. QED
      BY <1>1, <1>2, <1>3, <2>1 DEF EmptyAgrees, MadeAgrees, WrittenAs, WrittenByHand, Built,
         IsZero, AddYAMLNode, ToYamlNode, EncodeList, FollowPointer, CanBeEmpty
  <1>4. CASE ~isUnkept /\ ~isDropped
    BY <1>1, <1>2, <1>4 DEF EmptyAgrees, MadeAgrees, WrittenAs, WrittenByHand, Built,
       IsZero, AddYAMLNode, ToYamlNode, EncodeList, FollowPointer, CanBeEmpty
  <1>. QED
    BY <1>3, <1>4

\* A text that is loaded and written.
LEMMA LoadedIsWritten ==
    ASSUME NEW type \in RenderedTypes, NEW f, FieldAgrees(type, f), IsShown(type, f),
           NEW text, IsText(type, f, text)
    PROVE  WrittenAs(type, f, Loaded(type, f, text), LowOf(type, f, text)) =
               IF text = "empty" /\ <<type, f>> \in Forgotten THEN "absent"
               ELSE IF text = "absent" /\ <<type, f>> \in Invented THEN "empty"
               ELSE text
  <1>1. MadeAgrees(type, f)
    BY DEF FieldAgrees
  <1>2. CASE text = "absent"
    BY <1>1, <1>2, AbsentIsLoaded, UnsetIsWritten
  <1>3. CASE text = "empty"
    BY <1>3, EmptyIsWritten DEF IsText
  <1>4. CASE text \notin {"absent", "empty"}
    <2>1. Loaded(type, f, text) = text
      BY <1>4, TextIsLoaded
    <2>2. IsValue(type, f, text) /\ text \notin Missing
      BY <1>4 DEF IsText, SomeText, IsValue, Missing
    <2>. QED
      BY <1>1, <1>4, <2>1, <2>2, WrittenFacts
  <1>. QED
    BY <1>2, <1>3, <1>4

\* A member that is written and loaded.
LEMMA WrittenIsLoaded ==
    ASSUME NEW type \in RenderedTypes, NEW f, FieldAgrees(type, f), IsShown(type, f),
           NEW v, IsValue(type, f, v), NEW l
    PROVE  LET kind == Members[type][f]
               loaded == Loaded(type, f, WrittenAs(type, f, v, l))
           IN  /\ v \notin Missing => loaded = v
               /\ v \in Missing => loaded \in Missing
               /\ v = "nil" /\ kind \notin {"map", "entries", "flow", "types"} =>
                     loaded = "nil"
               /\ /\ v = "empty" /\ kind \notin {"map", "entries", "flow", "types"}
                  /\ <<type, f>> \notin Forgotten
                  => loaded = "empty"
  <1>. DEFINE text == WrittenAs(type, f, v, l)
              kind == Members[type][f]
              loaded == Loaded(type, f, text)
  <1>1. /\ MadeAgrees(type, f) /\ EmptyAgrees(type, f)
        /\ IsText(type, f, text)
        /\ v \notin Missing => text = v
        /\ v \in Missing => text \in {"absent", "empty"}
    BY WrittenFacts DEF FieldAgrees
  <1>2. /\ v \notin Missing => loaded = v
        /\ v \in Missing => loaded \in Missing
    <2>1. CASE v \in Missing
      BY <1>1, <2>1, MissingIsLoaded
    <2>2. CASE v \notin Missing
      <3>1. text = v /\ text # "absent" /\ text # "empty"
        BY <1>1, <2>2 DEF Missing, IsValue
      <3>. QED
        BY <1>1, <2>2, <3>1, TextIsLoaded
    <2>. QED
      BY <2>1, <2>2
  <1>3. ASSUME v = "nil", kind \notin {"map", "entries", "flow", "types"}
        PROVE  loaded = "nil"
    <2>1. text = "absent"
      BY <1>1, <1>3 DEF MadeAgrees, WrittenAs, WrittenByHand, Built,
         IsZero, AddYAMLNode, ToYamlNode, EncodeList, FollowPointer
    <2>2. Unset(type, f) = "nil"
      BY <1>1, <1>3 DEF MadeAgrees, Unset, Blank, IsValue
    <2>. QED
      BY <2>1, <2>2, AbsentIsLoaded
  <1>4. ASSUME v = "empty", kind \notin {"map", "entries", "flow", "types"},
               <<type, f>> \notin Forgotten
        PROVE  loaded = "empty"
    <2>1. CanBeEmpty(kind) /\ kind # "pointer" /\ <<type, f>> \notin Unkept
             /\ f \notin New[type].drops /\ (f \in Marshal[type].own => kind = "zero")
      BY <1>1, <1>4 DEF IsValue, EmptyAgrees
    <2>2. text = "empty" \/ (text = "absent" /\ kind = "plain")
      BY <1>1, <1>4, <2>1 DEF MadeAgrees, WrittenAs, WrittenByHand, Built,
         IsZero, AddYAMLNode, ToYamlNode, EncodeList, FollowPointer
    <2>3. CASE text = "empty"
      BY <2>1, <2>3, EmptyIsLoaded
    <2>4. CASE text = "absent" /\ kind = "plain"
      BY <1>1, <2>4, AbsentIsLoaded DEF MadeAgrees, Unset, Blank, Valued
    <2>. QED
      BY <2>2, <2>3, <2>4
  <1>. QED
    BY <1>2, <1>3, <1>4

-----------------------------------------------------------------------------
(* The models that a run holds. *)

\* What is looked at.
ShapeInv ==
    /\ object \in Types /\ Looked \subseteq DOMAIN Members[object]
    /\ \A f \in Looked : IsText(object, f, said[f])
    /\ rounds \in Nat /\ edited \in BOOLEAN
    /\ phase \in {"document", "model", "panicked"}

\* The low-level model is that of some texts, and unless a member was edited the
\* high-level one is that of the low-level one.
IsModelOf(texts) ==
    /\ low = [f \in Looked |-> LowOf(object, f, texts[f])]
    /\ DOMAIN high = Looked
    /\ \A f \in Looked : IsText(object, f, texts[f]) /\ IsValue(object, f, high[f])
    /\ \A f \in inlined : Members[object][f] = "dynamic"
IsUnedited == high = [f \in Looked |-> HighOf(object, f, low)]

\* What was hidden is not there when the object is loaded again, and members have the
\* values that can be made of those that were rendered.
HidesNothing(texts) == \A f \in Looked : IsHidden(object, f) => texts[f] = "absent"
ModelInv ==
    phase = "model" =>
        /\ IsModelOf(said)
        /\ rounds > 0 \/ ~edited => IsUnedited
        /\ rounds > 0 =>
              /\ object \in RenderedTypes /\ inlined = {}
              /\ HidesNothing(said)
              /\ \A f \in Looked : high[f] \in Reloaded(f, wanted[f])

\* Between rendering and loading the models are still those that were rendered.
DocumentInv ==
    phase = "document" =>
        /\ rounds = 0 => ~edited
        /\ rounds > 0 =>
              /\ object \in RenderedTypes
              /\ IsModelOf(before) /\ wanted = high
              /\ \A f \in Looked : said[f] = Rendered(object, f)
              /\ rounds > 1 \/ ~edited => IsUnedited
              /\ rounds > 1 => inlined = {} /\ HidesNothing(before)

RenderedInv == ShapeInv /\ ModelInv /\ DocumentInv

\* The tables agree on whatever is looked at.
LEMMA Agreement ==
    ASSUME TablesAgree, ShapeInv, NEW f \in Looked
    PROVE  FieldAgrees(object, f) /\ ShownAgrees(object, f) /\ MadeAgrees(object, f)
  BY DEF TablesAgree, ShapeInv, FieldAgrees

LEMMA RenderedIsText ==
    ASSUME TablesAgree, ShapeInv, object \in RenderedTypes, NEW texts, IsModelOf(texts),
           NEW f \in Looked
    PROVE  IsText(object, f, Rendered(object, f))
  <1>1. MadeAgrees(object, f) /\ IsValue(object, f, high[f])
    BY Agreement DEF IsModelOf
  <1>2. IsText(object, f, WrittenAs(object, f, high[f], low[f]))
    BY <1>1, WrittenFacts
  <1>3. IsText(object, f, "absent") /\ IsText(object, f, "some")
    BY DEF IsText, SomeText
  <1>. QED
    BY <1>2, <1>3 DEF Rendered

\* What becomes of a member that is rendered and loaded again.
LEMMA RenderedIsReloaded ==
    ASSUME TablesAgree, ShapeInv, object \in RenderedTypes, IsModelOf(before), wanted = high,
           NEW f \in Looked, NEW lows, lows[f] = LowOf(object, f, Rendered(object, f))
    PROVE  HighOf(object, f, lows) \in Reloaded(f, wanted[f])
  <1>. DEFINE new == HighOf(object, f, lows)
              v == wanted[f]
              kind == Members[object][f]
  <1>1. /\ FieldAgrees(object, f) /\ ShownAgrees(object, f) /\ MadeAgrees(object, f)
        /\ IsValue(object, f, v) /\ v = high[f]
        /\ Unset(object, f) \in Missing
        /\ Is(NotShown, f) <=> ~IsShown(object, f)
        /\ WasHidden(f) <=> IsHidden(object, f)
        /\ f \in inlined => kind = "dynamic"
    BY Agreement, UnsetFacts
       DEF IsModelOf, Is, ShownAgrees, WasHidden, IsHidden, Missing
  <1>2. CASE ~IsShown(object, f)
    <2>1. new = Unset(object, f)
      BY <1>1, <1>2, LostIsUnset
    <2>. QED
      BY <1>1, <1>2, <2>1 DEF Reloaded
  <1>3. CASE IsShown(object, f) /\ IsHidden(object, f)
    <2>1. Rendered(object, f) = "absent"
      BY <1>3 DEF Rendered
    <2>2. new = Unset(object, f)
      BY <1>3, <2>1, HighIsLoaded, AbsentIsLoaded
    <2>. QED
      BY <1>1, <1>3, <2>2 DEF Reloaded
  <1>4. CASE /\ IsShown(object, f) /\ ~IsHidden(object, f)
             /\ v = "ref" /\ f \in inlined /\ f \notin Marshal[object].own
    <2>1. Rendered(object, f) = "some" /\ IsText(object, f, "some")
      BY <1>1, <1>4 DEF Rendered, IsText, SomeText
    <2>2. new = "some"
      BY <1>4, <2>1, HighIsLoaded, TextIsLoaded
    <2>. QED
      BY <1>1, <1>4, <2>2 DEF Reloaded
  <1>5. CASE /\ IsShown(object, f) /\ ~IsHidden(object, f)
             /\ ~(v = "ref" /\ f \in inlined /\ f \notin Marshal[object].own)
    <2>1. Rendered(object, f) = WrittenAs(object, f, v, low[f])
      BY <1>1, <1>5 DEF Rendered
    <2>2. new = Loaded(object, f, WrittenAs(object, f, v, low[f]))
      BY <1>5, <2>1, HighIsLoaded
    <2>3. /\ v \notin Missing => new = v
          /\ v \in Missing => new \in Missing
          /\ v = "nil" /\ kind \notin {"map", "entries", "flow", "types"} => new = "nil"
          /\ /\ v = "empty" /\ kind \notin {"map", "entries", "flow", "types"}
             /\ <<object, f>> \notin Forgotten
             => new = "empty"
      BY <1>1, <1>5, <2>2, WrittenIsLoaded
    <2>4. CASE v \notin Missing
      BY <1>1, <1>5, <2>3, <2>4 DEF Reloaded, Missing
    <2>5. CASE v \in Missing
      BY <1>1, <1>5, <2>3, <2>5 DEF Reloaded, Missing, Is
    <2>. QED
      BY <2>4, <2>5
  <1>. QED
    BY <1>2, <1>3, <1>4, <1>5

LEMMA MissingStaysMissing ==
    ASSUME NEW f, NEW v \in Missing
    PROVE  Reloaded(f, v) \subseteq Missing
  BY DEF Reloaded, Missing

\* The steps.
LEMMA InitKeeps == ASSUME TablesAgree, RenderingInit PROVE RenderedInv
  <1>1. PICK type \in Types : \E f \in DOMAIN Members[type] :
          \E text \in Texts(type, f) :
          \E others \in IF Mistakable(type, f) = {} THEN {{}}
                        ELSE {{g} : g \in Mistakable(type, f)} :
              /\ object = type
              /\ said = [g \in {f} \cup others |-> IF g = f THEN text ELSE "some"]
              /\ phase = "document" /\ edited = FALSE /\ rounds = 0
    BY DEF RenderingInit
  <1>2. PICK f \in DOMAIN Members[type] : \E text \in Texts(type, f) :
          \E others \in IF Mistakable(type, f) = {} THEN {{}}
                        ELSE {{g} : g \in Mistakable(type, f)} :
              said = [g \in {f} \cup others |-> IF g = f THEN text ELSE "some"]
    BY <1>1
  <1>3. PICK text \in Texts(type, f) :
          \E others \in IF Mistakable(type, f) = {} THEN {{}}
                        ELSE {{g} : g \in Mistakable(type, f)} :
              said = [g \in {f} \cup others |-> IF g = f THEN text ELSE "some"]
    BY <1>2
  <1>4. PICK others \in IF Mistakable(type, f) = {} THEN {{}}
                        ELSE {{g} : g \in Mistakable(type, f)} :
              said = [g \in {f} \cup others |-> IF g = f THEN text ELSE "some"]
    BY <1>3
  <1>5. others \subseteq DOMAIN Members[type]
    BY <1>4 DEF Mistakable
  <1>6. IsText(type, f, text) /\ \A g : IsText(type, g, "some")
    BY DEF Texts, IsText, SomeText
  <1>7. Looked = {f} \cup others /\ \A g \in Looked : said[g] = IF g = f THEN text ELSE "some"
    BY <1>4 DEF Looked
  <1>8. Looked \subseteq DOMAIN Members[type]
    BY <1>5, <1>7
  <1>9. ASSUME NEW g \in Looked PROVE IsText(type, g, said[g])
    BY <1>6, <1>7
  <1>10. /\ object = type /\ type \in Types
         /\ phase = "document" /\ edited = FALSE /\ rounds = 0
    BY <1>1
  <1>11. ShapeInv
    BY <1>8, <1>9, <1>10 DEF ShapeInv
  <1>. QED
    BY <1>10, <1>11 DEF RenderedInv, ModelInv, DocumentInv

LEMMA LoadKeeps == ASSUME TablesAgree, RenderedInv, Load PROVE RenderedInv'
  <1>1. /\ phase = "document" /\ phase' = "model" /\ inlined' = {}
        /\ low' = [f \in Looked |-> LowOf(object, f, said[f])]
        /\ high' = [f \in Looked |-> HighOf(object, f, low')]
        /\ UNCHANGED <<object, focus, said, edited, before, wanted, rounds>>
        /\ Looked' = Looked
    BY DEF Load, Looked
  <1>2. ShapeInv'
    BY <1>1 DEF RenderedInv, ShapeInv
  <1>3. IsModelOf(said)' /\ IsUnedited'
    <2>1. ASSUME NEW f \in Looked PROVE IsValue(object, f, high'[f]) /\ IsText(object, f, said[f])
      <3>1. IsText(object, f, said[f]) /\ low'[f] = LowOf(object, f, said[f])
        BY <1>1 DEF RenderedInv, ShapeInv
      <3>2. MadeAgrees(object, f) /\ IsText(object, f, low'[f])
        BY <3>1, Agreement, LowFacts DEF RenderedInv
      <3>. QED
        BY <1>1, <3>1, <3>2, HighIsValue
    <2>. QED
      BY <1>1, <2>1 DEF IsModelOf, IsUnedited
  <1>4. ASSUME rounds > 0
        PROVE  /\ object \in RenderedTypes
               /\ \A f \in Looked : high'[f] \in Reloaded(f, wanted[f])
               /\ \A f \in Looked : said[f] = Rendered(object, f)
               /\ wanted = high
    <2>1. /\ object \in RenderedTypes /\ IsModelOf(before) /\ wanted = high
          /\ \A f \in Looked : said[f] = Rendered(object, f)
      BY <1>1, <1>4 DEF RenderedInv, DocumentInv
    <2>2. ASSUME NEW f \in Looked PROVE high'[f] \in Reloaded(f, wanted[f])
      <3>1. low'[f] = LowOf(object, f, Rendered(object, f)) /\ high'[f] = HighOf(object, f, low')
        BY <1>1, <2>1
      <3>. QED
        BY <2>1, <3>1, RenderedIsReloaded DEF RenderedInv
    <2>. QED
      BY <2>1, <2>2
  <1>5. ASSUME rounds > 0 PROVE HidesNothing(said)'
    <2>1. SUFFICES ASSUME NEW f \in Looked, IsHidden(object, f)' PROVE said[f] = "absent"
      BY <1>1 DEF HidesNothing
    <2>2. /\ f \in Marshal[object].hidden /\ "ComponentRef" \in Looked
          /\ high'["ComponentRef"] \notin Missing
      BY <1>1, <2>1 DEF IsHidden, Missing
    <2>3. wanted["ComponentRef"] \notin Missing
      BY <1>4, <1>5, <2>2, MissingStaysMissing
    <2>4. IsHidden(object, f)
      BY <1>4, <1>5, <2>2, <2>3 DEF IsHidden, Missing
    <2>. QED
      BY <1>4, <1>5, <2>4 DEF Rendered
  <1>6. ASSUME rounds > 0 PROVE \A f \in Looked' : (high[f] \in Reloaded(f, wanted[f]))'
    BY <1>1, <1>4, <1>6 DEF Reloaded, WasHidden, Is
  <1>. QED
    BY <1>1, <1>2, <1>3, <1>4, <1>5, <1>6 DEF RenderedInv, ModelInv, DocumentInv

LEMMA EditKeeps == ASSUME TablesAgree, RenderedInv, Edit PROVE RenderedInv'
  <1>1. /\ phase = "model" /\ phase' = "model" /\ rounds = 0 /\ edited' = TRUE
        /\ inlined' = inlined \ {focus}
        /\ UNCHANGED <<object, focus, said, low, before, wanted, rounds>>
        /\ Looked' = Looked
    BY DEF Edit, Looked
  <1>2. PICK v \in Values(object, focus) : high' = [high EXCEPT ![focus] = v]
    BY DEF Edit
  <1>3. IsValue(object, focus, v)
    BY DEF Values, IsValue, Blank, Valued, CanBeEmpty
  <1>4. IsModelOf(said)'
    BY <1>1, <1>2, <1>3 DEF RenderedInv, ModelInv, IsModelOf
  <1>. QED
    BY <1>1, <1>4 DEF RenderedInv, ShapeInv, ModelInv, DocumentInv

LEMMA RenderInlineKeeps == ASSUME RenderedInv, RenderInline PROVE RenderedInv'
  <1>1. /\ phase = "model" /\ phase' = "model" /\ rounds = 0
        /\ inlined' = inlined \cup
              {f \in Looked : Members[object][f] = "dynamic" /\ high[f] # "nil"}
        /\ UNCHANGED <<object, focus, said, low, high, edited, before, wanted, rounds>>
        /\ Looked' = Looked
    BY DEF RenderInline, Looked
  <1>. QED
    BY <1>1 DEF RenderedInv, ShapeInv, ModelInv, DocumentInv, IsModelOf, IsUnedited

LEMMA RenderKeepsInv == ASSUME TablesAgree, RenderedInv, Render PROVE RenderedInv'
  <1>1. /\ phase = "model" /\ object \in RenderedTypes
        /\ rounds' = rounds + 1 /\ wanted' = high /\ before' = said
        /\ UNCHANGED <<object, focus, low, high, inlined, edited>>
    BY DEF Render
  <1>2. /\ ShapeInv /\ rounds \in Nat /\ rounds' \in Nat
        /\ rounds' > 0 /\ (rounds' > 1 => rounds > 0)
    BY <1>1 DEF RenderedInv, ShapeInv
  <1>3. /\ IsModelOf(said)
        /\ rounds > 0 \/ ~edited => IsUnedited
        /\ rounds > 0 => inlined = {} /\ HidesNothing(said)
    BY <1>1 DEF RenderedInv, ModelInv
  <1>4. CASE phase' = "panicked" /\ said' = said
    BY <1>1, <1>2, <1>4 DEF RenderedInv, ShapeInv, ModelInv, DocumentInv, Looked
  <1>5. CASE phase' = "document" /\ said' = [f \in Looked |-> Rendered(object, f)]
    <2>1. Looked' = Looked
      BY <1>5 DEF Looked
    <2>2. ShapeInv'
      BY <1>1, <1>2, <1>3, <1>5, <2>1, RenderedIsText DEF ShapeInv
    <2>3. IsModelOf(before)' /\ (IsUnedited' <=> IsUnedited)
      BY <1>1, <1>3, <2>1 DEF IsModelOf, IsUnedited
    <2>4. /\ \A f \in Looked : IsHidden(object, f)' <=> IsHidden(object, f)
          /\ \A f \in Looked : Rendered(object, f)' = Rendered(object, f)
      BY <1>1, <2>1 DEF IsHidden, Rendered
    <2>5. HidesNothing(said) => HidesNothing(before)'
      BY <1>1, <2>1, <2>4 DEF HidesNothing
    <2>. QED
      BY <1>1, <1>2, <1>3, <1>5, <2>1, <2>2, <2>3, <2>4, <2>5
         DEF RenderedInv, ModelInv, DocumentInv
  <1>. QED
    BY <1>4, <1>5 DEF Render

LEMMA StutterKeeps == ASSUME RenderedInv, UNCHANGED renderingVars PROVE RenderedInv'
  BY DEF RenderedInv, ShapeInv, ModelInv, DocumentInv, IsModelOf, IsUnedited, HidesNothing,
         IsHidden, Rendered, Reloaded, WasHidden, Is, Looked, renderingVars

LEMMA RenderedInvariance == TablesAgree => (RenderingSpec => []RenderedInv)
  <1>. SUFFICES ASSUME TablesAgree PROVE RenderingSpec => []RenderedInv
    OBVIOUS
  <1>1. RenderingInit => RenderedInv
    BY InitKeeps
  <1>2. RenderedInv /\ [RenderingNext]_renderingVars => RenderedInv'
    BY LoadKeeps, EditKeeps, RenderInlineKeeps, RenderKeepsInv, StutterKeeps
       DEF RenderingNext
  <1>. QED
    BY <1>1, <1>2, PTL DEF RenderingSpec

\* The high-level model shows of a document what it says, for every document of
\* objects whose tables agree (BuildV3Model and the constructors).
THEOREM DocumentsAreShown == TablesAgree => (RenderingSpec => []LoadShowsDocument)
  <1>. SUFFICES ASSUME TablesAgree PROVE RenderingSpec => []LoadShowsDocument
    OBVIOUS
  <1>1. RenderedInv => LoadShowsDocument
    <2>. SUFFICES ASSUME RenderedInv, phase = "model", rounds = 0, ~edited, NEW f \in Looked
                  PROVE  IF Is(NotShown, f) THEN said[f] = "some" => high[f] # "some"
                         ELSE IF said[f] \in {"absent", "empty"} THEN high[f] \in Missing
                         ELSE high[f] = said[f]
      BY DEF LoadShowsDocument
    <2>1. /\ ShownAgrees(object, f) /\ MadeAgrees(object, f)
          /\ Is(NotShown, f) <=> ~IsShown(object, f)
      BY Agreement DEF RenderedInv, ShownAgrees, Is
    <2>2. /\ IsText(object, f, said[f]) /\ low[f] = LowOf(object, f, said[f])
          /\ high[f] = HighOf(object, f, low)
      BY DEF RenderedInv, ModelInv, IsModelOf, IsUnedited
    <2>3. CASE ~IsShown(object, f)
      BY <2>1, <2>2, <2>3, LostIsNotShown
    <2>4. CASE IsShown(object, f)
      <3>1. high[f] = Loaded(object, f, said[f])
        BY <2>2, <2>4, HighIsLoaded
      <3>2. said[f] \in {"absent", "empty"} => high[f] \in Missing
        BY <2>1, <2>4, <3>1, MissingIsLoaded
      <3>3. said[f] \notin {"absent", "empty"} => high[f] = said[f]
        BY <2>2, <2>4, <3>1, TextIsLoaded
      <3>. QED
        BY <2>1, <2>4, <3>2, <3>3
    <2>. QED
      BY <2>3, <2>4
  <1>. QED
    BY <1>1, RenderedInvariance, PTL

\* A document that is loaded and rendered unchanged, or that was rendered before, is
\* written as it was but for what the tables say, however often (Render).
THEOREM RenderingKeeps == TablesAgree => (RenderingSpec => []RenderKeeps)
  <1>. SUFFICES ASSUME TablesAgree PROVE RenderingSpec => []RenderKeeps
    OBVIOUS
  <1>1. RenderedInv => RenderKeeps
    <2>. SUFFICES ASSUME RenderedInv, phase = "document", rounds > 0, edited => rounds > 1,
                         NEW f \in Looked
                  PROVE  /\ said[f] = Kept(f)
                         /\ rounds > 1 /\ IsHidden(object, f) => before[f] = "absent"
      BY DEF RenderKeeps
    <2>1. /\ object \in RenderedTypes /\ IsModelOf(before) /\ IsUnedited
          /\ said[f] = Rendered(object, f)
          /\ rounds > 1 => HidesNothing(before)
      BY DEF RenderedInv, DocumentInv
    <2>2. /\ FieldAgrees(object, f) /\ ShownAgrees(object, f) /\ MadeAgrees(object, f)
          /\ Is(NotShown, f) <=> ~IsShown(object, f)
      BY Agreement DEF RenderedInv, ShownAgrees, Is
    <2>3. /\ IsText(object, f, before[f]) /\ low[f] = LowOf(object, f, before[f])
          /\ high[f] = HighOf(object, f, low)
          /\ f \in inlined => Members[object][f] = "dynamic"
      BY <2>1 DEF IsModelOf, IsUnedited
    <2>4. f \in inlined => f \notin Marshal[object].own
      BY <2>1, <2>2, <2>3 DEF MadeAgrees
    <2>5. CASE IsHidden(object, f)
      BY <2>1, <2>5 DEF Rendered, Kept, HidesNothing
    <2>6. CASE ~IsHidden(object, f) /\ ~IsShown(object, f)
      <3>1. low[f] = "absent" /\ high[f] = Unset(object, f)
        BY <2>1, <2>2, <2>3, <2>6, LostIsUnset
      <3>2. high[f] # "ref" /\ <<object, f>> \notin Invented
        BY <2>1, <2>2, <2>6, <3>1, UnsetFacts DEF ShownAgrees, Missing
      <3>3. WrittenAs(object, f, high[f], low[f]) = "absent"
        BY <2>1, <2>2, <3>1, <3>2, UnsetIsWritten
      <3>. QED
        BY <2>1, <2>2, <2>6, <3>2, <3>3 DEF Rendered, Kept
    <2>7. CASE ~IsHidden(object, f) /\ IsShown(object, f)
      <3>1. high[f] = Loaded(object, f, before[f])
        BY <2>3, <2>7, HighIsLoaded
      <3>2. high[f] = "ref" <=> before[f] = "ref"
        <4>1. before[f] \in {"absent", "empty"} => high[f] \in Missing
          BY <2>2, <2>7, <3>1, MissingIsLoaded
        <4>2. before[f] \notin {"absent", "empty"} => high[f] = before[f]
          BY <2>3, <2>7, <3>1, TextIsLoaded
        <4>. QED
          BY <4>1, <4>2 DEF Missing
      <3>3. WrittenAs(object, f, high[f], low[f]) =
               IF before[f] = "empty" /\ <<object, f>> \in Forgotten THEN "absent"
               ELSE IF before[f] = "absent" /\ <<object, f>> \in Invented THEN "empty"
               ELSE before[f]
        BY <2>1, <2>2, <2>3, <2>7, <3>1, LoadedIsWritten
      <3>. QED
        BY <2>1, <2>2, <2>4, <2>7, <3>2, <3>3 DEF Rendered, Kept, Is
    <2>. QED
      BY <2>5, <2>6, <2>7
  <1>. QED
    BY <1>1, RenderedInvariance, PTL

\* RenderAndReload brings every member back that was set or left alone, but for what
\* the tables say.
THEOREM EditsArrive == TablesAgree => (RenderingSpec => []EditArrives)
  <1>. SUFFICES ASSUME TablesAgree PROVE RenderingSpec => []EditArrives
    OBVIOUS
  <1>1. RenderedInv => EditArrives
    BY DEF RenderedInv, ModelInv, EditArrives
  <1>. QED
    BY <1>1, RenderedInvariance, PTL
=============================================================================
