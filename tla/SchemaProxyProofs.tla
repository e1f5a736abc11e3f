-------------------------- MODULE SchemaProxyProofs -------------------------
(***************************************************************************)
(* What SchemaProxy promises to any number of goroutines.                  *)
(***************************************************************************)
EXTENDS SchemaProxy, FiniteSetTheorems, TLAPS

USE ProxyAssumption DEF document

\* One goroutine builds; a caller that is through schemaOnce finds the schema
\* if it can be built.
OnceInv ==
    /\ \A c \in Caller : at[c] \in {"build", "copy"} => once = "running"
    /\ \A c, d \in Caller : {at[c], at[d]} \subseteq {"build", "copy"} => c = d
    /\ \A c \in Caller : at[c] = "build" => ~rendered
    /\ \A c \in Caller : at[c] = "copy" => rendered
    /\ once = "done" => (buildable => rendered)
    /\ \A c \in Caller : at[c] = "built" => once = "done"

\* The generation counts the nodes.
GenInv ==
    /\ hashGen = Cardinality(added)
    /\ Adding \subseteq added

\* What is held once the schema is there was held when the copying started,
\* or is the node of a call that was under way then.
NodesInv ==
    rendered =>
        /\ held \subseteq toCopy \cup straddling
        /\ \A c \in Caller : at[c] = "held" => c \in straddling
        /\ once = "done" => toCopy \subseteq schemaNodes

IInv == TypeOK /\ OnceInv /\ GenInv /\ NodesInv /\ StaleHashNotCached

LEMMA InitIInv == Init => IInv
  <1> SUFFICES ASSUME Init PROVE IInv
    OBVIOUS
  <1>1. Cardinality({}) = 0 /\ Cardinality(Caller) \in Nat
    BY FS_EmptySet, FS_CardinalityType
  <1>2. [kind |-> "zero", gen |-> 0] \in Hashed
    BY <1>1 DEF Hashed, Kind
  <1>3. TypeOK
    <2>1. hash \in [Caller -> Hashed]
      BY <1>2 DEF Init
    <2>2. hashGen \in 0..Cardinality(Caller)
      BY <1>1 DEF Init
    <2> QED BY <2>1, <2>2 DEF Init, TypeOK
  <1>4. OnceInv /\ NodesInv /\ StaleHashNotCached
    BY DEF Init, OnceInv, NodesInv, StaleHashNotCached
  <1>5. GenInv
    BY <1>1 DEF Init, GenInv, Adding
  <1> QED BY <1>3, <1>4, <1>5 DEF IInv

LEMMA CallsIInv == ASSUME IInv, NEW c \in Caller, Call(c) PROVE IInv'
  <1> USE DEF IInv, GoTo
  <1>1. CASE CallSchema(c)
    BY <1>1 DEF CallSchema, TypeOK, OnceInv, GenInv, NodesInv, StaleHashNotCached, Adding,
       proxy, nodes, hashing
  <1>2. CASE CallAddNode(c)
    <2>1. added' \subseteq Caller /\ IsFiniteSet(added)
      BY <1>2, FS_Subset DEF CallAddNode, TypeOK
    <2>2. Cardinality(added') = Cardinality(added) + 1
      BY <1>2, <2>1, FS_AddElement DEF CallAddNode
    <2>3. hashGen' \in 0..Cardinality(Caller)
      BY <1>2, <2>1, <2>2, FS_Subset, FS_CardinalityType DEF CallAddNode, GenInv
    <2> QED
      BY <1>2, <2>1, <2>2, <2>3 DEF CallAddNode, TypeOK, OnceInv, GenInv, NodesInv,
         StaleHashNotCached, Adding, proxy, nodes
  <1>3. CASE CallHash(c)
    <2>0. [kind |-> "zero", gen |-> hashGen] \in Hashed
      BY DEF TypeOK, Hashed, Kind
    <2>5. hash' \in [Caller -> Hashed] /\ answers' \subseteq Kind
      <3>1. cachedHash # NoHash => cachedHash.kind \in Kind
        BY DEF TypeOK, Hashed
      <3> QED BY <1>3, <2>0, <3>1 DEF CallHash, TypeOK
    <2>1. TypeOK'
      BY <1>3, <2>5 DEF CallHash, TypeOK, proxy, nodes
    <2>2. OnceInv'
      BY <1>3 DEF CallHash, TypeOK, OnceInv, proxy
    <2>3. GenInv'
      BY <1>3 DEF CallHash, TypeOK, GenInv, Adding
    <2>4. NodesInv' /\ StaleHashNotCached'
      BY <1>3 DEF CallHash, TypeOK, NodesInv, StaleHashNotCached, proxy, nodes
    <2> QED BY <2>1, <2>2, <2>3, <2>4
  <1> QED BY <1>1, <1>2, <1>3 DEF Call

\* The steps of Schema().
LEMMA BuildingIInv ==
    ASSUME IInv, NEW c \in Caller,
           EnterOnce(c) \/ Build(c) \/ BuildFails(c) \/ CopyNode(c) \/ Copied(c)
    PROVE  IInv'
  <1> USE DEF IInv, GoTo, Resume
  <1>1. CASE EnterOnce(c)
    BY <1>1 DEF EnterOnce, TypeOK, OnceInv, GenInv, NodesInv, StaleHashNotCached, Adding,
       nodes, hashing
  <1>2. CASE Build(c)
    BY <1>2 DEF Build, TypeOK, OnceInv, GenInv, NodesInv, StaleHashNotCached, Adding, hashing
  <1>3. CASE BuildFails(c)
    BY <1>3 DEF BuildFails, TypeOK, OnceInv, GenInv, NodesInv, StaleHashNotCached, Adding,
       nodes, hashing
  <1>4. CASE CopyNode(c)
    BY <1>4 DEF CopyNode, TypeOK, OnceInv, GenInv, NodesInv, StaleHashNotCached, Adding,
       proxy, hashing
  <1>5. CASE Copied(c)
    BY <1>5 DEF Copied, TypeOK, OnceInv, GenInv, NodesInv, StaleHashNotCached, Adding,
       nodes, hashing
  <1> QED BY <1>1, <1>2, <1>3, <1>4, <1>5

\* The steps of AddNode().
LEMMA AddingIInv ==
    ASSUME IInv, NEW c \in Caller, LoadRendered(c) \/ StoreNode(c)
    PROVE  IInv'
  <1> USE DEF IInv, GoTo
  <1>1. CASE LoadRendered(c)
    BY <1>1 DEF LoadRendered, TypeOK, OnceInv, GenInv, NodesInv, StaleHashNotCached, Adding,
       proxy, nodes, hashing
  <1>2. CASE StoreNode(c)
    BY <1>2 DEF StoreNode, TypeOK, OnceInv, GenInv, NodesInv, StaleHashNotCached, Adding,
       proxy, hashing
  <1> QED BY <1>1, <1>2

\* The steps of Hash().
LEMMA HashingIInv ==
    ASSUME IInv, NEW c \in Caller, Compute(c) \/ ComputeBuilt(c) \/ StoreHash(c)
    PROVE  IInv'
  <1> USE DEF IInv, GoTo, Computes
  <1>0. hash[c] \in Hashed /\ hash \in [Caller -> Hashed]
    BY DEF TypeOK
  <1>1. CASE Compute(c)
    <2>1. hash' \in [Caller -> Hashed]
      BY <1>0, <1>1 DEF Compute, Hashed, Kind
    <2> QED
      BY <1>1, <2>1 DEF Compute, TypeOK, OnceInv, GenInv, NodesInv, StaleHashNotCached,
         Adding, proxy, nodes
  <1>2. CASE ComputeBuilt(c)
    <2>1. hash' \in [Caller -> Hashed]
      BY <1>0, <1>2 DEF ComputeBuilt, Hashed, Kind
    <2> QED
      BY <1>2, <2>1 DEF ComputeBuilt, TypeOK, OnceInv, GenInv, NodesInv, StaleHashNotCached,
         Adding, proxy, nodes
  <1>3. CASE StoreHash(c)
    <2>1. hash[c].kind \in Kind
      BY <1>0 DEF Hashed
    <2> QED
      BY <1>0, <1>3, <2>1 DEF StoreHash, TypeOK, OnceInv, GenInv, NodesInv, StaleHashNotCached,
         Adding, proxy, nodes
  <1> QED BY <1>1, <1>2, <1>3

LEMMA NextIInv == IInv /\ [Next]_vars => IInv'
  <1> SUFFICES ASSUME IInv, [Next]_vars PROVE IInv'
    OBVIOUS
  <1>1. CASE UNCHANGED vars
    BY <1>1 DEF vars, IInv, TypeOK, OnceInv, GenInv, NodesInv, StaleHashNotCached, Adding
  <1>2. CASE \E c \in Caller : Call(c)
    BY <1>2, CallsIInv
  <1>3. CASE \E c \in Caller : Step(c)
    BY <1>3, BuildingIInv, AddingIInv, HashingIInv DEF Step
  <1> QED BY <1>1, <1>2, <1>3 DEF Next

\* The inductive invariant of the proxy.
THEOREM Invariance == Spec => []IInv
  BY InitIInv, NextIInv, PTL DEF Spec, Safety

\* Every variable stays in its type; in particular a failed build leaves no
\* schema behind.
THEOREM TypeCorrect == Spec => []TypeOK
  BY Invariance, PTL DEF IInv

\* No hash that was computed across an AddNode() is cached.
THEOREM NoStaleHash == Spec => []StaleHashNotCached
  BY Invariance, PTL DEF IInv

\* A node is missed by the schema only if its AddNode() was under way when
\* the copying began.
THEOREM OnlyStraddlingNodesAreMissed == Spec => []NodesAddedWhileCopyingArrive
  <1>1. IInv => NodesAddedWhileCopyingArrive
    BY DEF IInv, NodesInv, NodesAddedWhileCopyingArrive
  <1> QED BY <1>1, Invariance, PTL

-----------------------------------------------------------------------------
(* Without the quick hash every answer is one and the same: that of the $ref *)
(* string of a reference, and of a schema its hash if it can be built.       *)

Expected == IF isReference THEN "reference" ELSE IF buildable THEN "full" ELSE "zero"

HashInv ==
    ~quickHash =>
        /\ answers \subseteq {Expected}
        /\ cachedHash # NoHash => cachedHash.kind = Expected
        /\ \A c \in Caller :
              /\ at[c] = "store" => hash[c].kind = Expected
              /\ at[c] = "built" => ~isReference
              /\ at[c] \in {"schema", "build", "copy"} /\ demand[c] = "hash" => ~isReference

LEMMA HashInvNext ==
    ASSUME IInv, HashInv, [Next]_vars PROVE HashInv'
  <1> USE DEF GoTo
  <1>1. CASE UNCHANGED vars
    BY <1>1 DEF vars, HashInv, Expected
  <1>2. ASSUME NEW c \in Caller, Call(c) PROVE HashInv'
    <2>1. CASE CallSchema(c)
      BY <2>1 DEF CallSchema, HashInv, Expected, IInv, TypeOK, proxy, hashing
    <2>2. CASE CallAddNode(c)
      BY <2>2 DEF CallAddNode, HashInv, Expected, IInv, TypeOK, proxy
    <2>3. CASE CallHash(c)
      BY <2>3 DEF CallHash, HashInv, Expected, IInv, TypeOK, proxy
    <2> QED BY <1>2, <2>1, <2>2, <2>3 DEF Call
  <1>3. ASSUME NEW c \in Caller,
               EnterOnce(c) \/ Build(c) \/ BuildFails(c) \/ CopyNode(c) \/ Copied(c)
                            \/ LoadRendered(c) \/ StoreNode(c)
        PROVE  HashInv'
    <2> USE DEF HashInv, Expected, IInv, TypeOK, proxy, hashing
    <2>1. CASE EnterOnce(c)
      BY <2>1 DEF EnterOnce, Resume
    <2>2. CASE Build(c)
      BY <2>2 DEF Build
    <2>3. CASE BuildFails(c)
      BY <2>3 DEF BuildFails, Resume
    <2>4. CASE CopyNode(c)
      BY <2>4 DEF CopyNode
    <2>5. CASE Copied(c)
      BY <2>5 DEF Copied, Resume
    <2>6. CASE LoadRendered(c)
      BY <2>6 DEF LoadRendered
    <2>7. CASE StoreNode(c)
      BY <2>7 DEF StoreNode
    <2> QED BY <1>3, <2>1, <2>2, <2>3, <2>4, <2>5, <2>6, <2>7
  <1>4. ASSUME NEW c \in Caller, Compute(c) \/ ComputeBuilt(c) \/ StoreHash(c)
        PROVE  HashInv'
    <2> USE DEF Computes, Expected
    <2>0. hash[c] = [kind |-> hash[c].kind, gen |-> hash[c].gen]
      BY DEF IInv, TypeOK, Hashed
    <2>1. CASE Compute(c)
      BY <2>0, <2>1 DEF Compute, HashInv, IInv, TypeOK, proxy
    <2>2. CASE ComputeBuilt(c)
      <3>1. rendered = buildable
        BY <2>2 DEF ComputeBuilt, IInv, OnceInv, TypeOK
      <3> QED
        BY <2>0, <2>2, <3>1 DEF ComputeBuilt, HashInv, IInv, TypeOK, proxy
    <2>3. CASE StoreHash(c)
      BY <2>3 DEF StoreHash, HashInv, IInv, TypeOK, proxy
    <2> QED BY <1>4, <2>1, <2>2, <2>3
  <1> QED BY <1>1, <1>2, <1>3, <1>4 DEF Next, Step

\* Without the quick hash Hash() answers the same to every goroutine at any
\* time, before, during and after the build.
THEOREM HashDoesNotDependOnTiming == Spec => []HashIsConsistent
  <1>1. Init => HashInv
    BY DEF Init, HashInv
  <1>2. IInv /\ HashInv /\ [Next]_vars => HashInv'
    BY HashInvNext
  <1>3. HashInv => HashIsConsistent
    <2>1. IsFiniteSet({Expected}) /\ Cardinality({Expected}) = 1
      BY FS_Singleton
    <2>2. answers \subseteq {Expected} => Cardinality(answers) <= 1
      BY <2>1, FS_Subset
    <2> QED BY <2>2 DEF HashInv, HashIsConsistent
  <1> QED BY <1>1, <1>2, <1>3, Invariance, PTL DEF Spec, Safety
=============================================================================
