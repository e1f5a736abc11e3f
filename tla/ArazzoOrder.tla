---------------------------- MODULE ArazzoOrder ----------------------------
(***************************************************************************)
(* The order in which RunAll runs workflows (topologicalSort in            *)
(* arazzo/engine.go): a queue of those all of whose dependencies are in    *)
(* the order, filled as the counts of the others go down to zero.  Nothing *)
(* keeps a document from having a workflowId twice when it is run: only    *)
(* Validate reports that, and neither NewEngine nor RunAll calls it.       *)
(***************************************************************************)
EXTENDS Integers, Sequences, FiniteSets, Functions

CONSTANTS
    Documents,   \* the documents at hand: their workflows in order, see OrderAssumption
    Name         \* the ids that workflows have and name

ASSUME OrderAssumption ==
    Documents \subseteq Seq([id : Name, dependsOn : Seq(Name)])

VARIABLES
    document,   \* the workflows of the document
    inDegree,   \* the dependencies that an id still waits for
    queue,      \* the ids that wait for none
    head,       \* how much of the queue has been taken; that is the order
    outcome     \* "running", "sorted" or "cycle"

sortVars == <<document, inDegree, queue, head, outcome>>

Order == SubSeq(queue, 1, head)
Listed == {document[p].id : p \in DOMAIN document}

SortTypeOK ==
    /\ document \in Documents
    /\ inDegree \in [Listed -> Int]
    /\ queue \in Seq(Listed)
    /\ head \in 0..Len(queue)
    /\ outcome \in {"running", "sorted", "cycle"}

\* Where the workflows of an id name one of the others.  One that is named twice counts
\* twice, one that the document does not have never.
Places == UNION {{p} \X DOMAIN document[p].dependsOn : p \in DOMAIN document}
Mentions(w, others) ==
    {m \in Places : document[m[1]].id = w /\ document[m[1]].dependsOn[m[2]] \in others}

\* Some positions of the document from first to last, and the ids there.
Ascending(positions) ==
    {s \in [1..Cardinality(positions) -> positions] :
        Range(s) = positions /\ \A j, k \in DOMAIN s : j < k => s[j] < s[k]}
IdsAt(s) == [j \in DOMAIN s |-> document[s[j]].id]

\* An id that waits for none is queued for each workflow that has it.
SortInit ==
    /\ document \in Documents
    /\ inDegree = [w \in Listed |-> Cardinality(Mentions(w, Listed))]
    /\ \E free \in Ascending({p \in DOMAIN document : inDegree[document[p].id] = 0}) :
          queue = IdsAt(free)
    /\ head = 0
    /\ outcome = "running"

LoweredOnce(id) ==   \* mutant: a name that occurs twice is taken off once
    [w \in Listed |-> IF Mentions(w, {id}) # {} THEN inDegree[w] - 1 ELSE inDegree[w]]

Lowered(id) ==
    [w \in Listed |-> inDegree[w] - Cardinality(Mentions(w, {id}))]

\* Where the count of an id comes down to zero as the mentions of another are taken
\* off one by one; an id that is taken again may lower counts below.
MentionsUpTo(w, id, p) == Cardinality({m \in Mentions(w, {id}) : m[1] <= p})
Freed(id) ==
    {p \in DOMAIN document :
        LET w == document[p].id
        IN  MentionsUpTo(w, id, p - 1) < inDegree[w] /\ inDegree[w] <= MentionsUpTo(w, id, p)}

Dequeue ==
    /\ outcome = "running" /\ head < Len(queue)
    /\ LET id == queue[head + 1]
       IN  /\ inDegree' = Lowered(id)
           /\ \E freed \in Ascending(Freed(id)) : queue' = queue \o IdsAt(freed)
    /\ head' = head + 1
    /\ UNCHANGED <<document, outcome>>

\* An order that is not as long as there are ids means a cycle.
Sorted ==
    /\ outcome = "running" /\ head = Len(queue)
    /\ outcome' = IF head = Cardinality(Listed) THEN "sorted" ELSE "cycle"
    /\ UNCHANGED <<document, inDegree, queue, head>>

SortReturned == outcome # "running" /\ UNCHANGED sortVars

SortNext == Dequeue \/ Sorted \/ SortReturned

\* The sort is a loop of the goroutine that called RunAll.
SortSpec == SortInit /\ [][SortNext]_sortVars /\ WF_sortVars(Dequeue \/ Sorted)

-----------------------------------------------------------------------------

NamesOf == [w \in Listed |->
    UNION {Range(document[p].dependsOn) : p \in {p \in DOMAIN document : document[p].id = w}}]

DependencyOrder == INSTANCE DependencyOrder WITH dependsOn <- NamesOf, order <- Order

\* A workflow that depends on no other has its id for itself.  Of a document for which
\* this fails the sort is not one: the id comes into the order more than once, which may
\* make a cycle of none, or hide one, in the length that is compared.
RootsOnce ==
    \A p, q \in DOMAIN document :
        document[p].id = document[q].id /\ Mentions(document[p].id, Listed) = {} => p = q

\* The queue is a topological sort (topologicalSort): each id is taken behind all that its
\* workflows depend on, whatever the document names twice or does not have, and a cycle
\* is reported exactly when there is one.  And the sort ends, even if RootsOnce fails.
TopologicalSort ==
    /\ RootsOnce => DependencyOrder!Init
    /\ [][RootsOnce => DependencyOrder!Next]_DependencyOrder!orderVars
    /\ <>(outcome # "running")

=============================================================================
