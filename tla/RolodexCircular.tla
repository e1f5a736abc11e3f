-------------------------- MODULE RolodexCircular ---------------------------
(***************************************************************************)
(* What a rolodex knows of circular references (index/rolodex.go,          *)
(* index/resolver_entry.go, index/resolver_circular.go).  Every index has  *)
(* a resolver that records the loops it comes upon, once; the rolodex      *)
(* gathers them from its resolvers when it is indexed, checked or          *)
(* resolved, and caches the answers it gives.  The calls may come in any   *)
(* order.  How a resolver walks its references is left out: a visit comes  *)
(* upon some set of loops.  RolodexProofs extends this module beside       *)
(* RolodexIndexing, hence the names of its Init, Next and variables.       *)
(***************************************************************************)
CONSTANTS
    Loop,       \* circular references, known by their loop point
    Class,      \* Class[l]: "safe", "infinite", or "ignored" by the configuration
    Other,      \* the indexes but the root's
    Late,       \* those of them that a reference of the root loads
    RootIndex,
    NoCache     \* a nil cache

Index == Other \cup {RootIndex}

ASSUME CircularAssumption ==
    /\ Class \in [Loop -> {"safe", "infinite", "ignored"}]
    /\ RootIndex \notin Other
    /\ Late \subseteq Other
    /\ \A answer \in SUBSET Loop : answer # NoCache

VARIABLES
    checkLater,   \* the configuration's AvoidCircularReferenceCheck
    loops,        \* the loops a visit of each index comes upon
    visited,      \* the resolvers that have visited their index
    found,        \* per resolver, what it has recorded
    indexed, circChecked,                 \* the rolodex's flags
    safeRefs, ignoredRefs, caughtErrors,  \* what it has gathered
    safeCache, ignoredCache               \* its debounced answers

document == <<checkLater, loops>>
circularVars == <<document, visited, found, indexed, circChecked,
                  safeRefs, ignoredRefs, caughtErrors, safeCache, ignoredCache>>

resolvers == <<visited, found>>
gathered == <<safeRefs, ignoredRefs, caughtErrors>>
caches == <<safeCache, ignoredCache>>

\* There are resolvers only once the rolodex is indexed.
CircularTypeOK ==
    /\ checkLater \in BOOLEAN
    /\ loops \in [Index -> SUBSET Loop]
    /\ visited \subseteq Index
    /\ found \in [Index -> SUBSET Loop]
    /\ indexed \in BOOLEAN /\ circChecked \in BOOLEAN
    /\ indexed \/ visited = {}
    /\ safeRefs \subseteq Loop /\ ignoredRefs \subseteq Loop /\ caughtErrors \subseteq Loop
    /\ safeCache = NoCache \/ safeCache \subseteq Loop
    /\ ignoredCache = NoCache \/ ignoredCache \subseteq Loop

CircularInit ==
    /\ checkLater \in BOOLEAN
    /\ loops \in [Index -> SUBSET Loop]
    /\ visited = {}
    /\ found = [i \in Index |-> {}]
    /\ indexed = FALSE /\ circChecked = FALSE
    /\ safeRefs = {} /\ ignoredRefs = {} /\ caughtErrors = {}
    /\ safeCache = NoCache /\ ignoredCache = NoCache

\* The loops of a class that the resolvers of set have recorded, in rec.
FoundIn(rec, set, class) == {l \in UNION {rec[i] : i \in set} : Class[l] = class}

\* The resolvers of set visit their indexes.  A resolver records in its first
\* visit only, and may pass over a loop whose reference another has marked
\* Circular; so a loop that several come upon is recorded by one or more.
Visit(set) ==
    /\ visited' = visited \cup set
    /\ \E seen \in [set \ visited -> SUBSET Loop] :
          found' = [i \in Index |-> IF i \in set \ visited THEN seen[i] ELSE found[i]]
    /\ \A i \in set \ visited : found'[i] \subseteq loops[i]
    /\ \A i \in set \ visited : loops[i] \subseteq UNION {found'[j] : j \in Index}

-----------------------------------------------------------------------------
(* The methods of the rolodex that change what it knows. *)

IndexAgain ==   \* mutant: a second call starts over
    /\ indexed' = TRUE
    /\ IF checkLater
       THEN caughtErrors' = {} /\ UNCHANGED <<resolvers, circChecked, ignoredRefs>>
       ELSE /\ Visit(Index \ Late)
            /\ circChecked' = TRUE
            /\ ignoredRefs' = ignoredRefs \cup FoundIn(found', Index \ Late, "ignored")
            /\ caughtErrors' = FoundIn(found', Index \ Late, "infinite")
    /\ UNCHANGED <<document, safeRefs, caches>>

IndexRootOnly ==   \* mutant: what the other resolvers found is not gathered
    /\ ~indexed
    /\ indexed' = TRUE
    /\ IF checkLater
       THEN caughtErrors' = {} /\ UNCHANGED <<resolvers, circChecked, ignoredRefs>>
       ELSE /\ Visit(Index \ Late)
            /\ circChecked' = TRUE
            /\ ignoredRefs' = ignoredRefs \cup FoundIn(found', {RootIndex}, "ignored")
            /\ caughtErrors' = FoundIn(found', {RootIndex}, "infinite")
    /\ UNCHANGED <<document, safeRefs, caches>>

\* The indexes there are before the root's are checked, and then the root's.
IndexTheRolodex ==
    /\ ~indexed
    /\ indexed' = TRUE
    /\ IF checkLater
       THEN caughtErrors' = {} /\ UNCHANGED <<resolvers, circChecked, ignoredRefs>>
       ELSE /\ Visit(Index \ Late)
            /\ circChecked' = TRUE
            /\ ignoredRefs' = ignoredRefs \cup FoundIn(found', Index \ Late, "ignored")
            /\ caughtErrors' = FoundIn(found', Index \ Late, "infinite")
    /\ UNCHANGED <<document, safeRefs, caches>>

GatherLast(set) ==   \* mutant: what was gathered before is not kept
    /\ Visit(set)
    /\ safeRefs' = FoundIn(found', set, "safe")
    /\ ignoredRefs' = FoundIn(found', set, "ignored")
    /\ caughtErrors' = FoundIn(found', set, "infinite")

\* The resolvers of set visit their indexes, and the rolodex gathers from them.
Gather(set) ==
    /\ Visit(set)
    /\ safeRefs' = safeRefs \cup FoundIn(found', set, "safe")
    /\ ignoredRefs' = ignoredRefs \cup FoundIn(found', set, "ignored")
    /\ caughtErrors' = caughtErrors \cup FoundIn(found', set, "infinite")

Invalidate == safeCache' = NoCache /\ ignoredCache' = NoCache

CheckKeepsCaches ==   \* mutant: the caches are not invalidated
    /\ ~circChecked
    /\ IF indexed THEN Gather({RootIndex}) ELSE UNCHANGED <<resolvers, gathered>>
    /\ circChecked' = TRUE
    /\ UNCHANGED <<document, indexed, caches>>

\* Of the root index only, which is there once the rolodex is indexed.
CheckForCircularReferences ==
    /\ ~circChecked
    /\ IF indexed THEN Gather({RootIndex}) ELSE UNCHANGED <<resolvers, gathered>>
    /\ circChecked' = TRUE
    /\ Invalidate
    /\ UNCHANGED <<document, indexed>>

\* Of every index, the root's and those added later too.
Resolve ==
    /\ IF indexed THEN Gather(Index) ELSE UNCHANGED <<resolvers, gathered>>
    /\ Invalidate
    /\ UNCHANGED <<document, indexed, circChecked>>

-----------------------------------------------------------------------------
(* The methods that answer.  What they answer is a state function. *)

SafeExtracted ==
    IF circChecked \/ ~indexed THEN safeRefs
                               ELSE safeRefs \cup FoundIn(found, Index, "safe")
SafeAnswer == IF safeCache # NoCache THEN safeCache ELSE SafeExtracted

GetSafeCircularReferences ==
    /\ safeCache = NoCache
    /\ safeRefs' = SafeExtracted
    /\ safeCache' = SafeExtracted
    /\ UNCHANGED <<document, resolvers, indexed, circChecked, ignoredRefs,
                   caughtErrors, ignoredCache>>

IgnoredAnswer == IF ignoredCache # NoCache THEN ignoredCache ELSE ignoredRefs

GetIgnoredCircularReferences ==
    /\ ignoredCache = NoCache
    /\ ignoredRefs # {}
    /\ ignoredCache' = ignoredRefs
    /\ UNCHANGED <<document, resolvers, indexed, circChecked, gathered, safeCache>>

CircularNext ==
    \/ IndexTheRolodex
    \/ CheckForCircularReferences
    \/ Resolve
    \/ GetSafeCircularReferences
    \/ GetIgnoredCircularReferences

CircularSpec == CircularInit /\ [][CircularNext]_circularVars

-----------------------------------------------------------------------------
\* Whatever calls came before, a loop a resolver has found to be safe is in
\* the answer of GetSafeCircularReferences: "returns a list of circular
\* references that were found to be safe during the indexing process"
\* (rolodex.go:195).
SafeLoopsAreReported == FoundIn(found, Index, "safe") \subseteq SafeAnswer

\* So it is when the check is left to CheckForCircularReferences, as the
\* documents' constructors leave it: neither the cache nor the flag that keeps
\* GetSafeCircularReferences from asking the resolvers hides a loop. A check made while
\* indexing does hide safe loops: it sets the flag without gathering them
\* (rolodex.go:530).
DeferredLoopsAreReported == checkLater => SafeLoopsAreReported

\* The same of GetIgnoredCircularReferences (rolodex.go:167).
IgnoredLoopsAreReported == FoundIn(found, Index, "ignored") \subseteq IgnoredAnswer

\* An infinite loop a resolver has found is among the caught errors, and is
\* not lost to a later call (GetCaughtErrors, rolodex.go:272).
InfiniteLoopsAreErrors == FoundIn(found, Index, "infinite") \subseteq caughtErrors

\* The answers only grow: no call makes the rolodex forget a loop.
NothingIsForgotten == SafeAnswer \subseteq SafeAnswer' /\ IgnoredAnswer \subseteq IgnoredAnswer'
AnswersGrow == [][NothingIsForgotten]_circularVars
=============================================================================
