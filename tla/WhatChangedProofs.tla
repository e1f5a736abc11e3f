------------------------- MODULE WhatChangedProofs --------------------------
(***************************************************************************)
(* What tables of objects that agree, each with those it holds, promise of *)
(* a comparison of whole documents, whatever the objects and however deep  *)
(* they are nested.                                                        *)
(***************************************************************************)
EXTENDS WhatChanged, TLAPS

\* The edited object is where the comparison starts.
EditInv ==
    /\ edit.field \in DOMAIN Fields[edit.type]
    /\ edit.op \in EditsOf(Fields[edit.type][edit.field]) \cap Ops
    /\ fresh => at = edit.type
    /\ <<edit.type, edit.field, edit.op>> \in SilentEdits => "silent" \in way
    /\ at \in Types

\* A change goes on as long as no object passes for equal.
ReportInv == way \cap Unreported = {} => counted /\ (seen \/ at \in Unguarded)

\* The methods of each report agree.
ListInv == listed <=> counted /\ "unlisted" \notin way
BreakInv == counted => broken = Times(way)

\* The change of the edited object is in no report but that of its field.
FreshInv == fresh => way \subseteq Unreported \cup Ways(at, edit.field)

IInv == EditInv /\ ReportInv /\ ListInv /\ BreakInv /\ FreshInv

LEMMA WaysOf ==
    ASSUME NEW type, NEW f
    PROVE  /\ Ways(type, f) \subseteq {"silent", "unlisted", "uncounted", "double"}
           /\ "silent" \in Ways(type, f) <=> <<type, f>> \in SilentWays
           /\ "hidden" \notin Ways(type, f)
  BY DEF Ways

\* A change that an object makes is listed, and counted once when it breaks, but
\* in the reports of fields that are known for leaving it out.
LEMMA MadeIsListed ==
    ASSUME NEW type \in Types, TotalsAgree(type), NEW f \in DOMAIN Fields[type], NEW op,
           NEW differs
    PROVE  /\ f \in Compare[type].wrapped =>
                 (Lists(type, f, op, differs)
                    <=> Makes(type, f, op, differs) /\ "unlisted" \notin Ways(type, f))
           /\ f \notin Compare[type].wrapped =>
                 (Lists(type, f, op, differs) <=> Makes(type, f, op, differs))
  BY DEF TotalsAgree, Lists, Makes

LEMMA MadeIsBroken ==
    ASSUME NEW type \in Types, TotalsAgree(type), NEW f \in DOMAIN Fields[type], NEW op,
           NEW differs, Makes(type, f, op, differs)
    PROVE  /\ f \in Compare[type].wrapped =>
                 /\ "double" \notin Ways(type, f)
                 /\ Count(type, f) = IF "uncounted" \in Ways(type, f) THEN 0 ELSE 1
           /\ f \notin Compare[type].wrapped => Count(type, f) = 1
  BY DEF TotalsAgree, Count, Makes

LEMMA InitIInv == ASSUME TablesAgree, Init PROVE IInv
  <1>1. PICK type \in Types :
          \E f \in DOMAIN Fields[type] : \E op \in EditsOf(Fields[type][f]) \cap Ops :
            CompareEdited(type, f, op)
    BY DEF Init
  <1>2. PICK f \in DOMAIN Fields[type] :
          \E op \in EditsOf(Fields[type][f]) \cap Ops : CompareEdited(type, f, op)
    BY <1>1
  <1>op. PICK op \in EditsOf(Fields[type][f]) \cap Ops : CompareEdited(type, f, op)
    BY <1>2
  <1> USE <1>op DEF CompareEdited
  <1>3. edit.type = type /\ edit.field = f /\ edit.op = op
    OBVIOUS
  <1>4. EditInv
    BY <1>3 DEF EditInv
  <1>5. ReportInv
    <2>1. SUFFICES ASSUME way \cap Unreported = {}
          PROVE counted /\ (seen \/ at \in Unguarded)
      BY DEF ReportInv
    <2>2. <<type, f, op>> \notin SilentEdits /\ ~IsHiddenMove(type, op, seen)
      BY <2>1 DEF Unreported
    <2>3. ~(f \in Compare[type].wrapped /\ <<type, f>> \in SilentWays)
      BY <2>1, WaysOf DEF Unreported
    <2>4. Makes(type, f, op, seen) /\ (seen \/ type \in Unguarded)
      BY <2>2, <2>3 DEF TablesAgree, Agrees, EditsAreMade
    <2> QED BY <2>4
  <1>6. ListInv
    BY MadeIsListed DEF TablesAgree, Agrees, ListInv
  <1>7. BreakInv
    <2>1. SUFFICES ASSUME counted PROVE broken = Times(way)
      BY DEF BreakInv
    <2>2. Makes(type, f, op, seen) /\ broken = Count(type, f)
      BY <2>1
    <2> QED BY <2>2, MadeIsBroken, WaysOf DEF TablesAgree, Agrees, Times
  <1>8. FreshInv
    BY <1>3 DEF FreshInv, Unreported
  <1> QED BY <1>4, <1>5, <1>6, <1>7, <1>8 DEF IInv

\* A field that is compared in turn; fields whose entries do not match.
LEMMA FieldIInv ==
    ASSUME TablesAgree, IInv, NEW held \in HeldBy[at], CompareField(held[1], held[2])
    PROVE  IInv'
  <1> DEFINE type == held[1]
             f == held[2]
  <1>1. /\ type \in Types
        /\ f \in DOMAIN Fields[type]
        /\ <<type, f>> = held
    BY DEF HeldBy, IInv, EditInv
  <1>2. /\ at' = type
        /\ fresh' = FALSE
        /\ seen' = (seen /\ IsWritten(Hash[type], f))
        /\ way' = way \cup Ways(type, f)
        /\ edit' = edit
    BY DEF CompareField, Climbed
  <1>3. EditInv'
    BY <1>1, <1>2 DEF IInv, EditInv
  <1>4. ReportInv'
    <2>1. SUFFICES ASSUME way' \cap Unreported = {}
          PROVE counted' /\ (seen' \/ at' \in Unguarded)
      BY DEF ReportInv
    <2>2. way \cap Unreported = {} /\ held \in HeldBy[at] \ SilentWays
      BY <1>1, <1>2, <2>1, WaysOf DEF Unreported
    <2>3. counted /\ (seen \/ at \in Unguarded)
      BY <2>2 DEF IInv, ReportInv
    <2>4. /\ f \in Compare[type].inner \cap Totals[type].total
          /\ IsWritten(Hash[type], f) \/ type \in Unguarded
          /\ at \in Unguarded => type \in Unguarded /\ f \notin Compare[type].equal
          /\ type \in Unguarded => ~Compare[type].guard
          /\ f \in Compare[type].lost =>
                \A g \in DOMAIN Fields[at] : \A op \in EditsOf(Fields[at][g]) \cap Ops :
                    <<at, g, op>> \in SilentEdits
      BY <2>2 DEF TablesAgree, Agrees, WaysAreTaken, IInv, EditInv
    <2>5. seen' \/ type \in Unguarded
      BY <1>2, <2>3, <2>4
    <2>6. ~(f \in Compare[type].lost /\ fresh)
      <3>1. SUFFICES ASSUME f \in Compare[type].lost, fresh PROVE FALSE
        OBVIOUS
      <3>2. at = edit.type /\ <<edit.type, edit.field, edit.op>> \in SilentEdits
        BY <2>4, <3>1 DEF IInv, EditInv
      <3> QED BY <2>2, <3>2 DEF IInv, EditInv, Unreported
    <2>7. Looks(type, f, seen, fresh)
      BY <1>2, <2>3, <2>4, <2>5, <2>6 DEF Looks
    <2>8. counted'
      BY <2>3, <2>4, <2>7 DEF CompareField
    <2> QED BY <1>2, <2>5, <2>8
  <1>5. ListInv'
    <2>1. counted' = (counted /\ Looks(type, f, seen, fresh) /\ f \in Totals[type].total)
      BY DEF CompareField
    <2>2. listed' = (listed /\ Looks(type, f, seen, fresh) /\ f \in Totals[type].listed)
      BY DEF CompareField
    <2>3. /\ f \in Totals[type].listed => f \in Totals[type].total
          /\ f \in Totals[type].total =>
               (f \in Totals[type].listed <=> "unlisted" \notin Ways(type, f))
      BY <1>1 DEF TablesAgree, Agrees, TotalsAgree
    <2> QED BY <1>2, <2>1, <2>2, <2>3 DEF IInv, ListInv
  <1>6. BreakInv'
    <2>1. SUFFICES ASSUME counted' PROVE broken' = Times(way')
      BY DEF BreakInv
    <2>2. counted /\ Looks(type, f, seen, fresh) /\ f \in Totals[type].total
      BY <2>1 DEF CompareField
    <2>3. broken = Times(way)
      BY <2>2 DEF IInv, BreakInv
    <2>4. /\ f \in Totals[type].breaking <=> "uncounted" \notin Ways(type, f)
          /\ f \in Totals[type].twice <=> "double" \in Ways(type, f)
      BY <1>1, <2>2 DEF TablesAgree, Agrees, TotalsAgree
    <2>5. broken' = IF f \notin Totals[type].breaking THEN 0
                    ELSE IF f \in Totals[type].twice /\ broken > 0 THEN 2
                    ELSE broken
      BY <2>2 DEF CompareField
    <2> QED BY <1>2, <2>3, <2>4, <2>5 DEF Times
  <1>7. FreshInv'
    BY <1>2 DEF FreshInv
  <1> QED BY <1>3, <1>4, <1>5, <1>6, <1>7 DEF IInv

LEMMA UnmatchedIInv ==
    ASSUME TablesAgree, IInv, NEW held \in HeldBy[at], CompareUnmatched(held[1], held[2])
    PROVE  IInv'
  <1> DEFINE type == held[1]
             f == held[2]
  <1>1. /\ type \in Types
        /\ f \in DOMAIN Fields[type]
        /\ <<type, f>> = held
    BY DEF HeldBy, IInv, EditInv
  <1>2. /\ at' = type
        /\ fresh' = FALSE
        /\ seen' = (seen /\ IsWritten(Hash[type], f))
        /\ way' = way \cup Ways(type, f)
        /\ edit' = edit
    BY DEF CompareUnmatched, Climbed
  <1>3. fresh /\ at = edit.type /\ edit.field \in DOMAIN Fields[at]
    BY DEF CompareUnmatched, Unmatched, IInv, EditInv
  <1>4. /\ <<f, edit.field>> \in Compare[type].keys
        /\ Makes(type, f, "removed", TRUE)
        /\ Ways(type, f) \cup Ways(at, edit.field) \subseteq {"silent"}
    <2>1. <<f, edit.field>> \in Compare[type].keys
      BY DEF CompareUnmatched, Unmatched
    <2> QED BY <1>3, <2>1 DEF TablesAgree, Agrees, KeysAreMade, IInv, EditInv
  <1>5. way' \subseteq Unreported
    BY <1>2, <1>3, <1>4 DEF IInv, FreshInv, Unreported
  <1>6. EditInv'
    BY <1>1, <1>2 DEF IInv, EditInv
  <1>7. ReportInv'
    <2>1. SUFFICES ASSUME way' \cap Unreported = {}
          PROVE counted' /\ (seen' \/ at' \in Unguarded)
      BY DEF ReportInv
    <2>2. way \cap Unreported = {} /\ held \in HeldBy[at] \ SilentWays
      BY <1>1, <1>2, <2>1, WaysOf DEF Unreported
    <2>3. /\ IsWritten(Hash[type], f) \/ type \in Unguarded
          /\ at \in Unguarded => type \in Unguarded
          /\ type \in Unguarded => ~Compare[type].guard
      BY <2>2 DEF TablesAgree, Agrees, WaysAreTaken, IInv, EditInv
    <2>4. seen' \/ type \in Unguarded
      BY <1>2, <2>2, <2>3 DEF IInv, ReportInv
    <2>5. Makes(type, f, "removed", seen')
      BY <1>4, <2>3, <2>4 DEF Makes
    <2> QED BY <1>2, <2>4, <2>5 DEF CompareUnmatched
  <1>8. ListInv'
    <2>1. counted' = Makes(type, f, "removed", seen')
          /\ listed' = Lists(type, f, "removed", seen')
      BY DEF CompareUnmatched
    <2> QED BY <1>1, <1>4, <1>5, <2>1, MadeIsListed
            DEF TablesAgree, Agrees, ListInv, Unreported
  <1>9. BreakInv'
    <2>1. SUFFICES ASSUME counted' PROVE broken' = Times(way')
      BY DEF BreakInv
    <2>2. Makes(type, f, "removed", seen') /\ broken' = Count(type, f)
      BY <2>1 DEF CompareUnmatched
    <2>3. broken' = 1
      BY <1>1, <1>4, <2>2, MadeIsBroken DEF TablesAgree, Agrees
    <2> QED BY <1>5, <2>3 DEF Times, Unreported
  <1>10. FreshInv'
    BY <1>2 DEF FreshInv
  <1> QED BY <1>6, <1>7, <1>8, <1>9, <1>10 DEF IInv

LEMMA NextIInv == ASSUME TablesAgree, IInv, [Next]_vars PROVE IInv'
  <1>1. CASE UNCHANGED vars
    BY <1>1 DEF vars, IInv, EditInv, ReportInv, ListInv, BreakInv, FreshInv
  <1>2. ASSUME NEW held \in HeldBy[at], CompareField(held[1], held[2]) PROVE IInv'
    BY <1>2, FieldIInv
  <1>3. ASSUME NEW held \in HeldBy[at], CompareUnmatched(held[1], held[2]) PROVE IInv'
    BY <1>3, UnmatchedIInv
  <1> QED BY <1>1, <1>2, <1>3 DEF Next

\* From tables that agree comes a report that holds what IInv says, at every
\* object of the way.
LEMMA SpecIInv == TablesAgree /\ Spec => []IInv
  <1>1. TablesAgree /\ Init => IInv
    BY InitIInv
  <1>2. TablesAgree /\ IInv /\ [Next]_vars => IInv'
    BY NextIInv
  <1>3. TablesAgree => TablesAgree'
    OBVIOUS
  <1> QED BY <1>1, <1>2, <1>3, PTL DEF Spec

\* Where the tables agree, CompareDocuments reports every edit that none of them
\* is known to leave out, through any number of objects that hold one another.
THEOREM EditReported == TablesAgree /\ Spec => []EditIsReported
  <1>1. IInv => EditIsReported
    BY DEF IInv, ReportInv, EditIsReported
  <1> QED BY <1>1, SpecIInv, PTL

\* GetAllChanges and TotalChanges then agree on the documents as they do on each
\* object ...
THEOREM ChangesAgree == TablesAgree /\ Spec => []CountsAgree
  <1>1. IInv => CountsAgree
    BY DEF IInv, ListInv, CountsAgree
  <1> QED BY <1>1, SpecIInv, PTL

\* ... and TotalBreakingChanges counts a breaking change as often as the objects
\* on its way say: once, unless one of them leaves it out or adds it twice.
THEOREM BreakingCounted == TablesAgree /\ Spec => []BreakingIsCounted
  <1>1. IInv => BreakingIsCounted
    BY DEF IInv, BreakInv, BreakingIsCounted, TotalBreakingChanges
  <1> QED BY <1>1, SpecIInv, PTL

\* A change that is known not to be reported has been made by the edited object, or by
\* the one that holds it, and goes no further.
GapInv ==
    /\ "silent" \in way /\ fresh => IsSilent(edit.type, edit.field, edit.op)
    /\ "silent" \in way /\ counted =>
          /\ at \notin Roots
          /\ IF fresh THEN IsLostAbove(at, seen) ELSE IsLost(at, seen)

\* Rules that decide nothing have been asked by the edited object, and will be
\* overruled.
HeedInv ==
    asked \cap Unheeded # {} /\ counted =>
        /\ fresh
        /\ at \notin Roots
        /\ \A held \in HeldBy[at] :
              held[2] \in Compare[held[1]].overruled \/ ~Takes(held, seen, TRUE)

\* A move that leaves no trace in the hash is no change of the object.
HiddenInv == "hidden" \in way /\ Compare[edit.type].guard /\ ~IsKey => ~counted

SilenceInv == GapInv /\ HeedInv /\ HiddenInv

LEMMA InitSilence == ASSUME TablesAgree, Init PROVE SilenceInv
  <1>1. PICK type \in Types :
          \E f \in DOMAIN Fields[type] : \E op \in EditsOf(Fields[type][f]) \cap Ops :
            CompareEdited(type, f, op)
    BY DEF Init
  <1>2. PICK f \in DOMAIN Fields[type] :
          \E op \in EditsOf(Fields[type][f]) \cap Ops : CompareEdited(type, f, op)
    BY <1>1
  <1>op. PICK op \in EditsOf(Fields[type][f]) \cap Ops : CompareEdited(type, f, op)
    BY <1>2
  <1>3. /\ edit.type = type /\ edit.field = f /\ edit.op = op
        /\ at = type /\ fresh = TRUE /\ seen \in Differs(type, f, op)
        /\ counted = Makes(type, f, op, seen)
        /\ asked = IF AsksRules(type, f) THEN Asked(type, f) ELSE {}
        /\ way = (IF <<type, f, op>> \in SilentEdits THEN {"silent"} ELSE {})
                    \cup (IF IsHiddenMove(type, op, seen) THEN {"hidden"} ELSE {})
                    \cup (IF f \in Compare[type].wrapped THEN Ways(type, f) ELSE {})
    BY <1>op DEF CompareEdited
  <1>4. GapInv
    <2>1. "silent" \in way => IsSilent(type, f, op)
      BY <1>3, WaysOf DEF IsSilent
    <2>2. IsSilent(type, f, op) /\ Makes(type, f, op, seen) =>
              type \notin Roots /\ IsLostAbove(type, seen)
      BY <1>3 DEF TablesAgree, Agrees, GapsStaySilent
    <2> QED BY <1>3, <2>1, <2>2 DEF GapInv
  <1>5. HeedInv
    <2>1. asked \cap Unheeded # {} => IsUnheeded(type, f)
      BY <1>3 DEF IsUnheeded
    <2>2. IsUnheeded(type, f) /\ Makes(type, f, op, seen) =>
              /\ type \notin Roots
              /\ \A held \in HeldBy[type] :
                    held[2] \in Compare[held[1]].overruled \/ ~Takes(held, seen, TRUE)
      BY <1>3 DEF TablesAgree, Agrees, UnheededAreOverruled
    <2> QED BY <1>3, <2>1, <2>2 DEF HeedInv
  <1>6. HiddenInv
    <2>1. "hidden" \in way => ~seen
      BY <1>3, WaysOf DEF IsHiddenMove
    <2> QED BY <1>3, <2>1 DEF HiddenInv, Makes
  <1> QED BY <1>4, <1>5, <1>6 DEF SilenceInv

\* A report that takes a change in takes it from an object that has counted it.
LEMMA FieldSilence ==
    ASSUME TablesAgree, IInv, SilenceInv,
           NEW held \in HeldBy[at], CompareField(held[1], held[2])
    PROVE  SilenceInv'
  <1> DEFINE type == held[1]
             f == held[2]
  <1>1. type \in Types /\ f \in DOMAIN Fields[type] /\ <<type, f>> = held /\ at \in Types
    BY DEF HeldBy, IInv, EditInv
  <1>2. /\ at' = type
        /\ fresh' = FALSE
        /\ seen' = (seen /\ IsWritten(Hash[type], f))
        /\ way' = way \cup Ways(type, f)
        /\ edit' = edit
        /\ asked' = IF f \notin Compare[type].overruled THEN asked
                    ELSE IF AsksRules(type, f) THEN Asked(type, f) ELSE {}
    BY DEF CompareField, Climbed, Judged
  <1>3. counted' => counted /\ Takes(held, seen, fresh)
    BY DEF CompareField, Takes
  <1>4. GapInv'
    <2>1. SUFFICES ASSUME "silent" \in way', counted'
                   PROVE  type \notin Roots /\ IsLost(type, seen')
      BY <1>2 DEF GapInv, IsLost, Takes, Looks
    <2>2. "silent" \in way
      <3>1. held \in SilentWays => ~Takes(held, TRUE, FALSE)
        BY <1>1 DEF TablesAgree, Agrees, GapsStaySilent
      <3>2. Takes(held, seen, fresh) => Takes(held, TRUE, FALSE)
        BY DEF Takes, Looks
      <3> QED BY <1>1, <1>2, <1>3, <2>1, <3>1, <3>2, WaysOf
    <2>3. fresh
      <3>1. ~fresh => ~Takes(held, seen, FALSE)
        BY <1>3, <2>1, <2>2 DEF SilenceInv, GapInv, IsLost
      <3>2. ~fresh /\ Takes(held, seen, fresh) => Takes(held, seen, FALSE)
        BY DEF Takes, Looks
      <3> QED BY <1>3, <2>1, <3>1, <3>2
    <2>4. IsLostAbove(at, seen)
      BY <1>3, <2>1, <2>2, <2>3 DEF SilenceInv, GapInv
    <2>5. Takes(held, seen, TRUE)
      BY <1>3, <2>1, <2>3 DEF Takes, Looks
    <2>6. type \notin Roots /\ IsLost(type, seen /\ IsWritten(Hash[type], f))
      BY <2>4, <2>5 DEF IsLostAbove
    <2> QED BY <1>2, <2>6
  <1>5. HeedInv'
    <2>1. SUFFICES ASSUME asked' \cap Unheeded # {}, counted' PROVE FALSE
      BY DEF HeedInv
    <2>2. f \notin Compare[type].overruled
      <3>1. IsUnheeded(type, f) => f \notin Compare[type].overruled
        BY <1>1 DEF TablesAgree, Agrees, UnheededAreOverruled
      <3> QED BY <1>2, <2>1, <3>1 DEF IsUnheeded
    <2>3. fresh /\ ~Takes(held, seen, TRUE)
      BY <1>2, <1>3, <2>1, <2>2 DEF SilenceInv, HeedInv
    <2> QED BY <1>3, <2>1, <2>3 DEF Takes, Looks
  <1>6. HiddenInv'
    <2>1. "hidden" \in way' => "hidden" \in way
      BY <1>2, WaysOf
    <2> QED BY <1>2, <1>3, <2>1 DEF SilenceInv, HiddenInv, IsKey
  <1> QED BY <1>4, <1>5, <1>6 DEF SilenceInv

\* The entries that do not match are matched by a field that is no gap.
LEMMA UnmatchedSilence ==
    ASSUME TablesAgree, IInv, SilenceInv,
           NEW held \in HeldBy[at], CompareUnmatched(held[1], held[2])
    PROVE  SilenceInv'
  <1> DEFINE type == held[1]
             f == held[2]
             g == edit.field
  <1>1. /\ type \in Types /\ f \in DOMAIN Fields[type] /\ <<type, f>> = held
        /\ at \in Types /\ at = edit.type /\ fresh
        /\ g \in DOMAIN Fields[at] /\ edit.op \in EditsOf(Fields[at][g]) \cap Ops
        /\ <<f, g>> \in Compare[type].keys
    BY DEF HeldBy, IInv, EditInv, CompareUnmatched, Unmatched
  <1>2. /\ fresh' = FALSE
        /\ way' = way \cup Ways(type, f)
        /\ edit' = edit
        /\ asked' = IF AsksRules(type, f) THEN Asked(type, f) ELSE {}
    BY DEF CompareUnmatched, Climbed, Judged
  <1>3. "silent" \notin way'
    <2>1. ~IsSilent(at, g, edit.op) /\ held \notin SilentWays
      BY <1>1 DEF TablesAgree, Agrees, GapsStaySilent
    <2>2. "silent" \notin way
      BY <1>1, <2>1 DEF SilenceInv, GapInv
    <2> QED BY <1>1, <1>2, <2>1, <2>2, WaysOf
  <1>4. asked' \cap Unheeded = {}
    <2>1. ~IsUnheeded(type, f)
      BY <1>1 DEF TablesAgree, Agrees, UnheededAreOverruled
    <2> QED BY <1>2, <2>1 DEF IsUnheeded
  <1>5. IsKey
    BY <1>1 DEF IsKey
  <1>6. IsKey'
    BY <1>2, <1>5 DEF IsKey
  <1> QED BY <1>3, <1>4, <1>6 DEF SilenceInv, GapInv, HeedInv, HiddenInv

LEMMA NextSilence ==
    ASSUME TablesAgree, IInv, SilenceInv, [Next]_vars
    PROVE  SilenceInv'
  <1>1. CASE UNCHANGED vars
    BY <1>1 DEF vars, SilenceInv, GapInv, HeedInv, HiddenInv, IsKey
  <1>2. ASSUME NEW held \in HeldBy[at], CompareField(held[1], held[2]) PROVE SilenceInv'
    BY <1>2, FieldSilence
  <1>3. ASSUME NEW held \in HeldBy[at], CompareUnmatched(held[1], held[2])
        PROVE  SilenceInv'
    BY <1>3, UnmatchedSilence
  <1> QED BY <1>1, <1>2, <1>3 DEF Next

\* Where the tables agree, CompareDocuments reports none of the edits and contents
\* that the Compare functions are known to leave out, by any way to the root; nor a
\* value that moved without a trace in the hash; and the rules that decide nothing
\* decide nothing.
THEOREM GapsSilent == TablesAgree /\ Spec => []GapsAreSilent
  <1>1. TablesAgree /\ Init => SilenceInv
    BY InitSilence
  <1>2. TablesAgree /\ IInv /\ SilenceInv /\ [Next]_vars => SilenceInv'
    BY NextSilence
  <1>3. TablesAgree => TablesAgree'
    OBVIOUS
  <1>4. SilenceInv => GapsAreSilent
    BY DEF SilenceInv, GapInv, HeedInv, HiddenInv, GapsAreSilent
  <1> QED BY <1>1, <1>2, <1>3, <1>4, SpecIInv, PTL DEF Spec
=============================================================================
