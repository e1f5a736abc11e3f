----------------------------- MODULE SchemaProxy ----------------------------
(***************************************************************************)
(* A low-level SchemaProxy (datamodel/low/base/schema_proxy.go) and the    *)
(* goroutines that build, hash and annotate it at the same time.  The      *)
(* schema is built once, on the first demand; nodes added before that are  *)
(* held in the proxy and copied into the schema; the hash is computed      *)
(* outside its lock and cached unless a node was added meanwhile.          *)
(***************************************************************************)
EXTENDS Naturals, FiniteSets

CONSTANTS
    Caller,       \* goroutines that use the proxy; each adds at most one node,
                  \* known by its caller
    NoHash        \* no cached hash

ASSUME ProxyAssumption == IsFiniteSet(Caller)

VARIABLES
    isReference,  \* the proxy stands for a $ref
    quickHash,    \* the configuration's UseSchemaQuickHash
    circular,     \* CheckSchemaProxyForCircularRefs
    buildable,    \* schema.Build succeeds
    once,         \* schemaOnce
    rendered,     \* the built schema is stored
    held,         \* nodes in the proxy's NodeMap
    schemaNodes,  \* nodes in the built schema
    toCopy,       \* nodes the copying Range must visit
    straddling,   \* nodes whose AddNode is under way when the copying starts
    hashGen, cachedHash,
    at,           \* where each caller is
    demand,       \* what a caller in Schema() is there for
    added,        \* the callers that have called AddNode
    hash,         \* per caller, what it computes, with the generation
    answers       \* what Hash() has returned

document == <<isReference, quickHash, circular, buildable>>
vars == <<document, once, rendered, held, schemaNodes, toCopy, straddling,
          hashGen, cachedHash, at, demand, added, hash, answers>>

proxy == <<document, once, rendered>>
nodes == <<held, schemaNodes, toCopy, straddling>>
hashing == <<hashGen, cachedHash, hash, answers>>

\* The hash of the whole schema, its quick hash, the hash of the $ref string,
\* and 0.
Kind == {"full", "quick", "reference", "zero"}
Hashed == [kind : Kind, gen : 0..Cardinality(Caller)]

TypeOK ==
    /\ {isReference, quickHash, circular, buildable} \subseteq BOOLEAN
    /\ once \in {"none", "running", "done"}
    /\ rendered \in BOOLEAN /\ (rendered => buildable /\ once # "none")
    /\ held \subseteq added /\ schemaNodes \subseteq added
    /\ toCopy \subseteq held /\ straddling \subseteq added
    /\ hashGen \in 0..Cardinality(Caller)
    /\ cachedHash = NoHash \/ cachedHash \in Hashed
    /\ at \in [Caller -> {"idle", "schema", "build", "copy", "load", "held", "direct",
                          "compute", "built", "store"}]
    /\ demand \in [Caller -> {"schema", "hash"}]
    /\ added \subseteq Caller
    /\ hash \in [Caller -> Hashed]
    /\ answers \subseteq Kind

Init ==
    /\ isReference \in BOOLEAN /\ quickHash \in BOOLEAN
    /\ circular \in BOOLEAN /\ buildable \in BOOLEAN
    /\ once = "none" /\ rendered = FALSE
    /\ held = {} /\ schemaNodes = {} /\ toCopy = {} /\ straddling = {}
    /\ hashGen = 0 /\ cachedHash = NoHash
    /\ at = [c \in Caller |-> "idle"]
    /\ demand = [c \in Caller |-> "schema"]
    /\ added = {}
    /\ hash = [c \in Caller |-> [kind |-> "zero", gen |-> 0]]
    /\ answers = {}

GoTo(c, place) == at' = [at EXCEPT ![c] = place]

-----------------------------------------------------------------------------
(* Schema().  A caller of schemaOnce.Do waits while another one builds. *)

CallSchema(c) ==
    /\ at[c] = "idle"
    /\ GoTo(c, "schema")
    /\ demand' = [demand EXCEPT ![c] = "schema"]
    /\ UNCHANGED <<proxy, nodes, hashing, added>>

Resume(c) == IF demand[c] = "hash" THEN "built" ELSE "idle"

EnterOnce(c) ==
    /\ at[c] = "schema"
    /\ \/ once = "none" /\ once' = "running" /\ GoTo(c, "build")
       \/ once = "done" /\ once' = once /\ GoTo(c, Resume(c))
    /\ UNCHANGED <<document, rendered, nodes, hashing, demand, added>>

\* The nodes of the AddNode calls that have not stored them yet.
Adding == {c \in Caller : at[c] \in {"load", "held", "direct"}}

\* The schema is built and stored, and the copying of the nodes starts.
Build(c) ==
    /\ at[c] = "build"
    /\ buildable
    /\ rendered' = TRUE
    /\ toCopy' = held
    /\ straddling' = Adding
    /\ GoTo(c, "copy")
    /\ UNCHANGED <<document, once, held, schemaNodes, hashing, demand, added>>

BuildFailsLocked(c) ==   \* mutant: an error leaves the once locked
    /\ at[c] = "build"
    /\ ~buildable
    /\ GoTo(c, Resume(c))
    /\ UNCHANGED <<proxy, nodes, hashing, demand, added>>

\* The build fails, or is not to be done (an external reference that the
\* configuration leaves unresolved).
BuildFails(c) ==
    /\ at[c] = "build"
    /\ ~buildable
    /\ once' = "done"
    /\ GoTo(c, Resume(c))
    /\ UNCHANGED <<document, rendered, nodes, hashing, demand, added>>

\* Range visits what was held when it started, and may visit what comes later.
CopyNode(c) ==
    /\ at[c] = "copy"
    /\ \E n \in held \ schemaNodes : schemaNodes' = schemaNodes \cup {n}
    /\ UNCHANGED <<proxy, held, toCopy, straddling, hashing, at, demand, added>>

Copied(c) ==
    /\ at[c] = "copy"
    /\ toCopy \subseteq schemaNodes
    /\ once' = "done"
    /\ GoTo(c, Resume(c))
    /\ UNCHANGED <<document, rendered, nodes, hashing, demand, added>>

-----------------------------------------------------------------------------
(* AddNode(). *)

\* The hash is invalidated under the lock.
CallAddNode(c) ==
    /\ at[c] = "idle"
    /\ c \notin added
    /\ added' = added \cup {c}
    /\ cachedHash' = NoHash
    /\ hashGen' = hashGen + 1
    /\ GoTo(c, "load")
    /\ UNCHANGED <<proxy, nodes, hash, answers, demand>>

LoadDone(c) ==   \* mutant: nodes are held until the copying is over
    /\ at[c] = "load"
    /\ GoTo(c, IF rendered /\ once = "done" THEN "direct" ELSE "held")
    /\ UNCHANGED <<proxy, nodes, hashing, demand, added>>

LoadRendered(c) ==
    /\ at[c] = "load"
    /\ GoTo(c, IF rendered THEN "direct" ELSE "held")
    /\ UNCHANGED <<proxy, nodes, hashing, demand, added>>

StoreNode(c) ==
    /\ \/ at[c] = "direct" /\ schemaNodes' = schemaNodes \cup {c} /\ held' = held
       \/ at[c] = "held" /\ held' = held \cup {c} /\ schemaNodes' = schemaNodes
    /\ GoTo(c, "idle")
    /\ UNCHANGED <<proxy, toCopy, straddling, hashing, demand, added>>

-----------------------------------------------------------------------------
(* Hash(). *)

CallHash(c) ==
    /\ at[c] = "idle"
    /\ IF cachedHash # NoHash
       THEN /\ answers' = answers \cup {cachedHash.kind}
            /\ UNCHANGED <<at, hash>>
       ELSE /\ hash' = [hash EXCEPT ![c] = [kind |-> "zero", gen |-> hashGen]]
            /\ GoTo(c, "compute")
            /\ UNCHANGED answers
    /\ UNCHANGED <<proxy, nodes, hashGen, cachedHash, demand, added>>

Computes(c, kind) ==
    /\ hash' = [hash EXCEPT ![c].kind = kind]
    /\ GoTo(c, "store")

ComputeUnbuilt(c) ==   \* mutant: a schema that is not built has no hash
    /\ at[c] = "compute"
    /\ IF isReference THEN Computes(c, "reference")
                      ELSE Computes(c, IF rendered THEN "full" ELSE "zero")
    /\ UNCHANGED <<proxy, nodes, hashGen, cachedHash, answers, demand, added>>

\* The $ref string of a reference, unless the quick hash of the schema is
\* wanted and it is not built yet; of a schema, its hash.
Compute(c) ==
    /\ at[c] = "compute"
    /\ LET demands == IF isReference THEN quickHash /\ ~circular ELSE TRUE IN
       IF ~rendered /\ demands
       THEN /\ GoTo(c, "schema")
            /\ demand' = [demand EXCEPT ![c] = "hash"]
            /\ UNCHANGED hash
       ELSE /\ Computes(c, IF isReference THEN "reference" ELSE "full")
            /\ UNCHANGED demand
    /\ UNCHANGED <<proxy, nodes, hashGen, cachedHash, answers, added>>

\* Behind the Schema() it called, which may have given nothing.
ComputeBuilt(c) ==
    /\ at[c] = "built"
    /\ \/ isReference /\ Computes(c, IF rendered THEN "quick" ELSE "reference")
       \/ /\ ~isReference
          /\ Computes(c, IF rendered /\ ~(quickHash /\ circular) THEN "full" ELSE "zero")
    /\ UNCHANGED <<proxy, nodes, hashGen, cachedHash, answers, demand, added>>

StoreHashAnyway(c) ==   \* mutant: the generation is not compared
    /\ at[c] = "store"
    /\ cachedHash' = hash[c]
    /\ answers' = answers \cup {hash[c].kind}
    /\ GoTo(c, "idle")
    /\ UNCHANGED <<proxy, nodes, hashGen, hash, demand, added>>

\* It is cached if no node was added during the computation.
StoreHash(c) ==
    /\ at[c] = "store"
    /\ cachedHash' = IF hash[c].gen = hashGen THEN hash[c] ELSE cachedHash
    /\ answers' = answers \cup {hash[c].kind}
    /\ GoTo(c, "idle")
    /\ UNCHANGED <<proxy, nodes, hashGen, hash, demand, added>>

-----------------------------------------------------------------------------
Call(c) == CallSchema(c) \/ CallAddNode(c) \/ CallHash(c)

Step(c) ==
    \/ EnterOnce(c) \/ Build(c) \/ BuildFails(c) \/ CopyNode(c) \/ Copied(c)
    \/ LoadRendered(c) \/ StoreNode(c)
    \/ Compute(c) \/ ComputeBuilt(c) \/ StoreHash(c)

Next == \E c \in Caller : Call(c) \/ Step(c)

Safety == Init /\ [][Next]_vars

\* The Go scheduler runs every goroutine that can run; nobody has to call.
Fairness == \A c \in Caller : WF_vars(Step(c))

Spec == Safety /\ Fairness

-----------------------------------------------------------------------------
\* Without the quick hash, Hash() answers the same whenever it is called,
\* whoever has built the schema or is building it ("Hash will return a
\* consistent Hash of the SchemaProxy object", schema_proxy.go:303).
HashIsConsistent == ~quickHash => Cardinality(answers) <= 1

\* A hash that was being computed when a node was added is not cached ("store
\* only if not invalidated during computation", schema_proxy.go:316).
StaleHashNotCached == cachedHash # NoHash => cachedHash.gen = hashGen

\* When the schema is there and the copying is over, the nodes of the AddNode
\* calls that came back before the copying began, or began after it, are in
\* the schema: rendered is stored first, and an AddNode during the copying
\* goes to the schema (schema_proxy.go:249-251). What AddNode promises is more
\* ("stores nodes in the underlying schema if rendered", schema_proxy.go:392): a
\* node whose AddNode straddles the copying may stay in the proxy.
NodesAddedWhileCopyingArrive ==
    once = "done" /\ rendered => held \subseteq schemaNodes \cup straddling

\* Every call returns, the callers that wait for another one's build too.
CallsReturn == \A c \in Caller : at[c] # "idle" ~> at[c] = "idle"
=============================================================================
