------------------------ MODULE RolodexLoaderProofs ------------------------
(***************************************************************************)
(* Safety of the loader for every document graph, every outcome of         *)
(* reading and every mix of local and remote files.  The inductive         *)
(* invariant IndInv adds to the properties what ties a task to the file    *)
(* objects, waiters and locks it works with.                               *)
(***************************************************************************)
EXTENDS RolodexLoader, FiniteSetTheorems, SequenceTheorems, WellFoundedInduction, TLAPS

\* A task that has claimed its location owns the waiter stored there, and
\* only such a task's waiter is stored.
WaiterInv ==
    /\ \A t \in Task : pc[t] \in Claiming => processing[Target(t)] = t /\ waiter[t] = "locked"
    /\ \A f \in File : processing[f] # None => Target(processing[f]) = f

\* The write lock of an index is held by the one fragment lookup of it that
\* is between Lock and Unlock.
LockInv ==
    \A t \in Task : IsFrag(t) /\ pc[t] \in Locked => refLock[Parent(t)] = t

\* Objects, waiters and listed indexes belong to the location they are
\* filed under.
LocationInv ==
    /\ \A t \in Task : file[t] # None => Target(file[t]) = Target(t)
    /\ \A f \in File : cache[f] # None => Target(cache[f]) = f
    /\ \A t \in Task : pc[t] \in {"waiting", "lookup", "blocked"} => file[t] # None

\* An object other tasks can get hold of has been read.
ContentInv ==
    /\ \A t \in Task : pc[t] \in {"store", "release", "index", "indexing", "publish", "signal", "return"}
                          => content[t] # "none"
    /\ \A t \in Task : pc[t] = "extract" => content[t] = "none"
    /\ \A t \in Task : pc[t] \in {"idle", "spawned", "check", "lock", "open", "claim"} => content[t] = "none"
    /\ \A t \in Task : waiter[t] = "file" => content[t] # "none"
    /\ \A f \in File : cache[f] # None => content[cache[f]] # "none"
    /\ \A t \in Task : pc[t] \in {"lookup", "blocked"} => content[file[t]] # "none"

\* The references of a document become tasks when the document is indexed,
\* not before.
BeforeIndexing == {"idle", "spawned", "check", "lock", "open", "claim", "waiting",
                   "extract", "store", "release", "index"}
TreeInv == \A t \in Task : pc[Parent(t)] \in BeforeIndexing => pc[t] = "idle"

\* The channel of an object is closed only once its index is stored, unless
\* nothing could be extracted from it.
SignalInv ==
    /\ \A t \in Task : pc[t] \in {"signal", "return"} => t \in indexed \/ content[t] = "empty"
    /\ \A t \in Task : pc[t] = "publish" => t \in indexed
    /\ \A t \in Task : t \in complete => t \in indexed \/ content[t] = "empty"

\* Every file on the call chain of a task that exists is in the cache.
ChainInv ==
    /\ \A t \in Task : pc[t] # "idle" => \A f \in Ctx(t) : cache[f] # None
    /\ \A t \in Task : pc[t] \in {"release", "index", "indexing"} => cache[Target(t)] # None
    /\ NoReload

\* A located whole-file reference, with the object it came from.
ResultInv ==
    \A t \in Task :
        (pc[t] = "done" /\ ~ IsFrag(t) /\ result[t] \notin {None, Missing})
          => /\ file[t] # None
             /\ content[file[t]] # "none"
             /\ (~ IsFileBeingIndexed(t) /\ content[file[t]] = "ok")
                   => result[t] = file[t] /\ file[t] \in indexed

IndInv ==
    /\ TypeOK
    /\ WaiterInv
    /\ LockInv
    /\ LocationInv
    /\ ContentInv
    /\ TreeInv
    /\ SignalInv
    /\ ChainInv
    /\ ResultInv

----------------------------------------------------------------------------
(* The tasks. *)

\* A task is a nonempty chain of references.
LEMMA TaskIsChain ==
    \A t \in Task : /\ t \in Seq(UsedRef)
                    /\ Len(t) \in 1..(Cardinality(File) + 1)
                    /\ t \in [1..Len(t) -> UsedRef]
                    /\ t # RootJob
                    /\ IsChain(t)
  BY TaskAssumption DEF RootJob

\* The references of the documents are references to files.
LEMMA UsedRefIsRef == UsedRef \subseteq Ref
  BY ConstantsAssumption DEF UsedRef

\* A task looks up a file.
LEMMA TargetIsFile == \A t \in Task : Target(t) \in File
  BY TaskIsChain, UsedRefIsRef DEF Target, Ref

\* The parent of a task is the chain without its last reference.
LEMMA ParentIsPrefix ==
    ASSUME NEW t \in Task
    PROVE  /\ Parent(t) \in Seq(UsedRef)
           /\ Len(Parent(t)) = Len(t) - 1
           /\ \A i \in 1..(Len(t) - 1) : Parent(t)[i] = t[i]
<1>c. Cardinality(File) \in Nat
  BY ConstantsAssumption, FS_CardinalityType
<1>1. t \in Seq(UsedRef) /\ Len(t) \in Nat /\ Len(t) >= 1
  BY <1>c, TaskIsChain
<1>2. 1 \in Int /\ Len(t) - 1 \in Int /\ \A i \in 1..(Len(t) - 1) : t[i] \in UsedRef
  BY <1>1
<1>3. /\ SubSeq(t, 1, Len(t) - 1) \in Seq(UsedRef)
      /\ Len(SubSeq(t, 1, Len(t) - 1)) = IF 1 <= Len(t) - 1 THEN Len(t) - 1 - 1 + 1 ELSE 0
      /\ \A i \in 1..(Len(t) - 1 - 1 + 1) : SubSeq(t, 1, Len(t) - 1)[i] = t[1 + i - 1]
  BY <1>2, SubSeqProperties
<1> DEFINE p == SubSeq(t, 1, Len(t) - 1)
           n == Len(t)
<1>4. n \in Nat /\ n >= 1 /\ p \in Seq(UsedRef)
      /\ Len(p) = (IF 1 <= n - 1 THEN n - 1 - 1 + 1 ELSE 0)
      /\ \A i \in 1..(n - 1 - 1 + 1) : p[i] = t[1 + i - 1]
  BY <1>1, <1>3
<1> HIDE DEF p, n
<1>5. n - 1 - 1 + 1 = n - 1 /\ Len(p) = n - 1 /\ \A i \in 1..(n - 1) : 1 + i - 1 = i
  BY <1>4
<1>6. p \in Seq(UsedRef) /\ Len(p) = n - 1 /\ \A i \in 1..(n - 1) : p[i] = t[i]
  BY <1>4, <1>5
<1> QED BY <1>6 DEF Parent, p, n

\* A task is looked up on behalf of another task or of the root document.
LEMMA ParentIsJob == \A t \in Task : Parent(t) \in Job
<1> SUFFICES ASSUME NEW t \in Task PROVE Parent(t) \in Job
  OBVIOUS
<1>c. Cardinality(File) \in Nat
  BY ConstantsAssumption, FS_CardinalityType
<1>1. Len(t) \in Nat /\ Len(t) >= 1 /\ Len(t) <= Cardinality(File) + 1 /\ IsChain(t)
  BY <1>c, TaskIsChain
<1>2. CASE Len(t) = 1
  <2>0. Parent(t) \in Seq(UsedRef) /\ Len(Parent(t)) = 0
    <3>1. Parent(t) \in Seq(UsedRef) /\ Len(Parent(t)) = Len(t) - 1
      BY ParentIsPrefix
    <3> QED BY <3>1, <1>2
  <2>1. Parent(t) = << >>
    BY <2>0, EmptySeq
  <2> QED BY <2>1 DEF Job, RootJob
<1>3. CASE Len(t) # 1
  <2>1. Parent(t) \in [1..(Len(t) - 1) -> UsedRef]
    BY ParentIsPrefix, <1>1
  <2>2. IsChain(Parent(t))
    <3> DEFINE p == Parent(t)
    <3>1. Len(p) = Len(t) - 1 /\ \A i \in 1..(Len(t) - 1) : p[i] = t[i]
      BY ParentIsPrefix
    <3> HIDE DEF p
    <3>2. \A i \in 1..Len(p) :
             LET from == IF i = 1 THEN Root ELSE p[i - 1].file
             IN  \E k \in DOMAIN Refs[from] : Refs[from][k] = p[i]
      <4> SUFFICES ASSUME NEW i \in 1..Len(p)
                   PROVE LET from == IF i = 1 THEN Root ELSE p[i - 1].file
                         IN  \E k \in DOMAIN Refs[from] : Refs[from][k] = p[i]
        OBVIOUS
      <4>1. i \in 1..Len(t) /\ p[i] = t[i] /\ (i # 1 => p[i - 1] = t[i - 1])
        BY <3>1, <1>1
      <4>2. LET from == IF i = 1 THEN Root ELSE t[i - 1].file
            IN  \E k \in DOMAIN Refs[from] : Refs[from][k] = t[i]
        BY <4>1, <1>1 DEF IsChain
      <4> QED BY <4>1, <4>2
    <3>3. \A i, k \in 1..(Len(p) - 1) : p[i].file = p[k].file => i = k
      <4> SUFFICES ASSUME NEW i \in 1..(Len(p) - 1), NEW k \in 1..(Len(p) - 1), p[i].file = p[k].file
                   PROVE i = k
        OBVIOUS
      <4>1. i \in 1..(Len(t) - 1) /\ k \in 1..(Len(t) - 1) /\ p[i] = t[i] /\ p[k] = t[k]
        BY <3>1, <1>1
      <4> QED BY <4>1, <1>1 DEF IsChain
    <3>4. IsChain(p)
      BY <3>2, <3>3 DEF IsChain
    <3> QED BY <3>4 DEF p
  <2>3. Len(t) - 1 \in 1..(Cardinality(File) + 1)
    <3> DEFINE n == Len(t)
               m == Cardinality(File)
    <3>1. n \in Nat /\ m \in Nat /\ n >= 1 /\ n <= m + 1 /\ n # 1
      BY <1>1, <1>3, <1>c
    <3> HIDE DEF n, m
    <3>2. n - 1 \in 1..(m + 1)
      BY <3>1
    <3> QED BY <3>2 DEF n, m
  <2> QED BY <2>1, <2>2, <2>3, TaskAssumption DEF Job
<1> QED BY <1>2, <1>3

\* The call chain of a task is that of its parent with the parent's file.
LEMMA CtxOfChild ==
    \A t \in Task : Ctx(t) = IF Parent(t) = RootJob THEN {}
                             ELSE Ctx(Parent(t)) \cup {Target(Parent(t))}
<1> SUFFICES ASSUME NEW t \in Task
             PROVE Ctx(t) = IF Parent(t) = RootJob THEN {}
                            ELSE Ctx(Parent(t)) \cup {Target(Parent(t))}
  OBVIOUS
<1> DEFINE n == Len(t)
           p == Parent(t)
<1>c. Cardinality(File) \in Nat
  BY ConstantsAssumption, FS_CardinalityType
<1>1. n \in Nat /\ n >= 1
  BY TaskIsChain, <1>c
<1>2. p \in Seq(UsedRef) /\ Len(p) = n - 1 /\ \A i \in 1..(n - 1) : p[i] = t[i]
  BY ParentIsPrefix
<1>e. Ctx(t) = {t[i].file : i \in 1..(n - 1)}
  BY DEF Ctx
<1>3. CASE n = 1
  <2>1. p = << >>
    BY <1>2, <1>3
  <2>2. 1..(n - 1) = {}
    BY <1>3
  <2>3. Ctx(t) = {}
    BY <1>e, <2>2
  <2> QED BY <2>1, <2>3 DEF RootJob
<1>4. CASE n > 1
  <2>1. p # RootJob
    BY <1>2, <1>4, <1>1 DEF RootJob
  <2>2. Ctx(p) = {p[i].file : i \in 1..(n - 1 - 1)}
    BY <1>2 DEF Ctx
  <2>3. \A i \in 1..(n - 1 - 1) : i \in 1..(n - 1) /\ p[i].file = t[i].file
    BY <1>1, <1>2
  <2>4. Target(p) = t[n - 1].file
    BY <1>1, <1>2, <1>4 DEF Target
  <2>5. \A i : i \in 1..(n - 1) <=> i \in 1..(n - 1 - 1) \/ i = n - 1
    BY <1>1, <1>4
  <2> HIDE DEF n, p
  <2>6. \A x : x \in Ctx(t) => x \in Ctx(p) \cup {Target(p)}
    BY <1>e, <2>2, <2>3, <2>4, <2>5
  <2>7. \A x : x \in Ctx(p) \cup {Target(p)} => x \in Ctx(t)
    BY <1>e, <2>2, <2>3, <2>4, <2>5
  <2>8. Ctx(t) = Ctx(p) \cup {Target(p)}
    BY <2>6, <2>7
  <2> QED BY <2>1, <2>8 DEF p
<1> HIDE DEF n
<1>5. n = 1 \/ n > 1
  BY <1>1
<1> QED BY <1>3, <1>4, <1>5

----------------------------------------------------------------------------
(* One lemma per part of the invariant: every step preserves it. *)

\* Type correctness.
LEMMA TypeStep == TypeOK /\ [Next]_vars => TypeOK'
<1> SUFFICES ASSUME TypeOK, [Next]_vars PROVE TypeOK'
  OBVIOUS
<1> USE TargetIsFile, ParentIsJob
<1>r. CASE BeginIndex(RootJob)
  BY <1>r, TaskIsChain DEF TypeOK, PC, BeginIndex, Children, Job
<1>f. CASE FinishRoot
  BY <1>f, TaskIsChain DEF TypeOK, PC, FinishRoot, Goto, Job
<1>u. CASE UNCHANGED vars
  BY <1>u DEF TypeOK, PC, vars
<1>t. ASSUME NEW t \in Task, TaskStep(t) PROVE TypeOK'
  <2> t \in Job /\ Target(t) \in File /\ Parent(t) \in Job /\ Task \subseteq Job /\ None \notin Task
    BY NilIsNoJob DEF Job
  <2>1. CASE StartLookup(t) \/ CheckMapped(t)
    BY <2>1 DEF TypeOK, PC, StartLookup, CheckMapped, LocateRef, Goto
  <2>2. CASE LockRef(t)
    BY <2>2 DEF TypeOK, PC, LockRef, Goto
  <2>3. CASE FindComponentInRoot(t)
    BY <2>3 DEF TypeOK, PC, FindComponentInRoot, Goto, Return, UnlockRef
  <2>4. CASE OpenCached(t)
    BY <2>4 DEF TypeOK, PC, OpenCached, Goto
  <2>5. CASE OpenDenied(t)
    BY <2>5 DEF TypeOK, PC, OpenDenied, Goto, Return, UnlockRef
  <2>6. CASE OpenMiss(t)
    <3>1. CASE remoteErrors' = remoteErrors + 1 /\ Return(t, Missing)
      BY <2>6, <3>1 DEF TypeOK, PC, OpenMiss, Goto, Return, UnlockRef
    <3>2. CASE Goto(t, "claim") /\ UNCHANGED <<refLock, result, remoteErrors>>
      BY <2>6, <3>2 DEF TypeOK, PC, OpenMiss, Goto
    <3> QED BY <2>6, <3>1, <3>2 DEF OpenMiss
  <2>7. CASE ClaimFile(t)
    <3>1. CASE processing[Target(t)] = None
      BY <2>7, <3>1 DEF TypeOK, PC, ClaimFile, Goto
    <3>2. CASE processing[Target(t)] # None
      BY <2>7, <3>2 DEF TypeOK, PC, ClaimFile, Goto
    <3> QED BY <3>1, <3>2
  <2>8. CASE WaiterReleased(t)
    BY <2>8 DEF TypeOK, PC, WaiterReleased, Goto, Return, UnlockRef
  <2>9. ASSUME NEW o \in Outcome[Target(t)], ExtractFails(t, o) PROVE TypeOK'
    BY <2>9 DEF TypeOK, PC, ExtractFails, Goto, Return, UnlockRef, ReleaseWaiter
  <2>10. ASSUME NEW o \in Outcome[Target(t)], ExtractFile(t, o) PROVE TypeOK'
    BY <2>10 DEF TypeOK, PC, ExtractFile, Goto
  <2>11. CASE StoreFile(t)
    BY <2>11 DEF TypeOK, PC, StoreFile, Goto
  <2>12. CASE ReleaseFile(t)
    BY <2>12 DEF TypeOK, PC, ReleaseFile, Goto, ReleaseWaiter
  <2>13. CASE BeginIndex(t)
    BY <2>13 DEF TypeOK, PC, BeginIndex, Children
  <2>14. CASE StoreIndex(t)
    <3>1. CASE content[t] = "empty"
      BY <2>14, <3>1 DEF TypeOK, PC, StoreIndex, Goto
    <3>2. CASE content[t] # "empty"
      BY <2>14, <3>2 DEF TypeOK, PC, StoreIndex, Goto
    <3> QED BY <3>1, <3>2
  <2>15. CASE AddExternalIndex(t)
    BY <2>15 DEF TypeOK, PC, AddExternalIndex, Goto
  <2>16. CASE SignalIndexingComplete(t)
    BY <2>16 DEF TypeOK, PC, SignalIndexingComplete, Goto
  <2>17. CASE LoaderReturns(t)
    BY <2>17 DEF TypeOK, PC, LoaderReturns, Goto, Return, UnlockRef
  <2>18. CASE LookupRolodex(t)
    <3>1. CASE Goto(t, "blocked") /\ UNCHANGED <<refLock, result>>
      BY <2>18, <3>1 DEF TypeOK, PC, LookupRolodex, Goto
    <3>2. CASE Return(t, Located(t))
      BY <2>18, <3>2 DEF TypeOK, PC, LookupRolodex, Goto, Return, UnlockRef, Located
    <3> QED BY <2>18, <3>1, <3>2 DEF LookupRolodex
  <2>19. CASE IndexingAwaited(t)
    BY <2>19 DEF TypeOK, PC, IndexingAwaited, Goto, Return, UnlockRef, Located
  <2> QED
    BY <1>t, <2>1, <2>2, <2>3, <2>4, <2>5, <2>6, <2>7, <2>8, <2>9, <2>10, <2>11, <2>12, <2>13, <2>14, <2>15, <2>16, <2>17, <2>18, <2>19 DEF TaskStep
<1> QED
  BY <1>r, <1>f, <1>u, <1>t DEF Next, RootStep, Terminated

\* Waiters are stored for the tasks that own them.
LEMMA WaiterStep == TypeOK /\ WaiterInv /\ [Next]_vars => WaiterInv'
<1> SUFFICES ASSUME TypeOK, WaiterInv, [Next]_vars PROVE WaiterInv'
  OBVIOUS
<1> USE TargetIsFile, ParentIsJob, NilIsNoJob, ConstantsAssumption
<1>r. CASE BeginIndex(RootJob)
  BY <1>r, TaskIsChain DEF TypeOK, WaiterInv, Claiming, BeginIndex, Children, Job
<1>f. CASE FinishRoot
  BY <1>f, TaskIsChain DEF TypeOK, WaiterInv, Claiming, FinishRoot, Goto, Job
<1>u. CASE UNCHANGED vars
  BY <1>u DEF TypeOK, WaiterInv, Claiming, vars
<1>t. ASSUME NEW t \in Task, TaskStep(t) PROVE WaiterInv'
  <2> t \in Job /\ Target(t) \in File /\ Parent(t) \in Job /\ Task \subseteq Job /\ None \notin Task
    BY NilIsNoJob DEF Job
  <2>1. CASE StartLookup(t) \/ CheckMapped(t)
    BY <2>1 DEF TypeOK, WaiterInv, Claiming, StartLookup, CheckMapped, LocateRef, Goto
  <2>2. CASE LockRef(t)
    BY <2>2 DEF TypeOK, WaiterInv, Claiming, LockRef, Goto
  <2>3. CASE FindComponentInRoot(t)
    BY <2>3 DEF TypeOK, WaiterInv, Claiming, FindComponentInRoot, Goto, Return, UnlockRef
  <2>4. CASE OpenCached(t)
    BY <2>4 DEF TypeOK, WaiterInv, Claiming, OpenCached, Goto
  <2>5. CASE OpenDenied(t)
    BY <2>5 DEF TypeOK, WaiterInv, Claiming, OpenDenied, Goto, Return, UnlockRef
  <2>6. CASE OpenMiss(t)
    <3>1. CASE remoteErrors' = remoteErrors + 1 /\ Return(t, Missing)
      BY <2>6, <3>1 DEF TypeOK, WaiterInv, Claiming, OpenMiss, Goto, Return, UnlockRef
    <3>2. CASE Goto(t, "claim") /\ UNCHANGED <<refLock, result, remoteErrors>>
      BY <2>6, <3>2 DEF TypeOK, WaiterInv, Claiming, OpenMiss, Goto
    <3> QED BY <2>6, <3>1, <3>2 DEF OpenMiss
  <2>7. CASE ClaimFile(t)
    <3>1. CASE processing[Target(t)] = None
      <4>1. /\ pc' = [pc EXCEPT ![t] = "extract"]
            /\ processing' = [processing EXCEPT ![Target(t)] = t]
            /\ waiter' = [waiter EXCEPT ![t] = "locked"]
        BY <2>7, <3>1 DEF ClaimFile, Goto
      <4>2. ASSUME NEW s \in Task, pc'[s] \in Claiming
            PROVE processing'[Target(s)] = s /\ waiter'[s] = "locked"
        <5>1. CASE s = t
          BY <4>1, <5>1 DEF TypeOK
        <5>2. CASE s # t
          <6>1. processing[Target(s)] = s /\ waiter[s] = "locked"
            BY <4>1, <4>2, <5>2 DEF TypeOK, WaiterInv
          <6>2. Target(s) # Target(t)
            BY <3>1, <6>1
          <6> QED BY <4>1, <5>2, <6>1, <6>2 DEF TypeOK
        <5> QED BY <5>1, <5>2
      <4>3. \A f \in File : processing'[f] # None => Target(processing'[f]) = f
        BY <4>1 DEF TypeOK, WaiterInv
      <4> QED BY <4>2, <4>3 DEF WaiterInv
    <3>2. CASE processing[Target(t)] # None
      BY <2>7, <3>2 DEF TypeOK, WaiterInv, Claiming, ClaimFile, Goto
    <3> QED BY <3>1, <3>2
  <2>8. CASE WaiterReleased(t)
    BY <2>8 DEF TypeOK, WaiterInv, Claiming, WaiterReleased, Goto, Return, UnlockRef
  <2>9. ASSUME NEW o \in Outcome[Target(t)], ExtractFails(t, o) PROVE WaiterInv'
    BY <2>9 DEF TypeOK, WaiterInv, Claiming, ExtractFails, Goto, Return, UnlockRef, ReleaseWaiter
  <2>10. ASSUME NEW o \in Outcome[Target(t)], ExtractFile(t, o) PROVE WaiterInv'
    BY <2>10 DEF TypeOK, WaiterInv, Claiming, ExtractFile, Goto
  <2>11. CASE StoreFile(t)
    BY <2>11 DEF TypeOK, WaiterInv, Claiming, StoreFile, Goto
  <2>12. CASE ReleaseFile(t)
    BY <2>12 DEF TypeOK, WaiterInv, Claiming, ReleaseFile, Goto, ReleaseWaiter
  <2>13. CASE BeginIndex(t)
    BY <2>13 DEF TypeOK, WaiterInv, Claiming, BeginIndex, Children
  <2>14. CASE StoreIndex(t)
    <3>1. CASE content[t] = "empty"
      BY <2>14, <3>1 DEF TypeOK, WaiterInv, Claiming, StoreIndex, Goto
    <3>2. CASE content[t] # "empty"
      BY <2>14, <3>2 DEF TypeOK, WaiterInv, Claiming, StoreIndex, Goto
    <3> QED BY <3>1, <3>2
  <2>15. CASE AddExternalIndex(t)
    BY <2>15 DEF TypeOK, WaiterInv, Claiming, AddExternalIndex, Goto
  <2>16. CASE SignalIndexingComplete(t)
    BY <2>16 DEF TypeOK, WaiterInv, Claiming, SignalIndexingComplete, Goto
  <2>17. CASE LoaderReturns(t)
    BY <2>17 DEF TypeOK, WaiterInv, Claiming, LoaderReturns, Goto, Return, UnlockRef
  <2>18. CASE LookupRolodex(t)
    BY <2>18 DEF TypeOK, WaiterInv, Claiming, LookupRolodex, Goto, Return, UnlockRef
  <2>19. CASE IndexingAwaited(t)
    BY <2>19 DEF TypeOK, WaiterInv, Claiming, IndexingAwaited, Goto, Return, UnlockRef
  <2> QED
    BY <1>t, <2>1, <2>2, <2>3, <2>4, <2>5, <2>6, <2>7, <2>8, <2>9, <2>10, <2>11, <2>12, <2>13, <2>14, <2>15, <2>16, <2>17, <2>18, <2>19 DEF TaskStep
<1> QED
  BY <1>r, <1>f, <1>u, <1>t DEF Next, RootStep, Terminated

\* Returning gives back no lock but the task's own.
LEMMA ReturnKeepsLocks ==
    ASSUME NEW t \in Task, NEW x, TypeOK, LockInv, pc[t] \in Locked, Return(t, x)
    PROVE  LockInv'
<1> SUFFICES ASSUME NEW s \in Task, IsFrag(s), pc'[s] \in Locked
             PROVE refLock'[Parent(s)] = s
  BY DEF LockInv
<1>1. s # t /\ pc'[s] = pc[s]
  BY DEF Return, Goto, TypeOK, Locked, Job
<1>2. refLock[Parent(s)] = s
  BY <1>1 DEF LockInv
<1>3. CASE IsFrag(t)
  <2>1. refLock[Parent(t)] = t
    BY <1>3 DEF LockInv
  <2>2. Parent(s) # Parent(t)
    BY <1>1, <1>2, <2>1
  <2>3. refLock' = [refLock EXCEPT ![Parent(t)] = None]
    BY <1>3 DEF Return, UnlockRef
  <2> QED BY <1>2, <2>2, <2>3, ParentIsJob DEF TypeOK
<1>4. CASE ~ IsFrag(t)
  BY <1>2, <1>4 DEF Return, UnlockRef
<1> QED BY <1>3, <1>4

\* Lock and Unlock of locateRef are paired.
LEMMA LockStep == TypeOK /\ LockInv /\ [Next]_vars => LockInv'
<1> SUFFICES ASSUME TypeOK, LockInv, [Next]_vars PROVE LockInv'
  OBVIOUS
<1> USE TargetIsFile, ParentIsJob, NilIsNoJob, ConstantsAssumption
<1>r. CASE BeginIndex(RootJob)
  BY <1>r, TaskIsChain DEF TypeOK, LockInv, Locked, PC, BeginIndex, Children, Job
<1>f. CASE FinishRoot
  BY <1>f, TaskIsChain DEF TypeOK, LockInv, Locked, PC, FinishRoot, Goto, Job
<1>u. CASE UNCHANGED vars
  BY <1>u DEF TypeOK, LockInv, Locked, PC, vars
<1>t. ASSUME NEW t \in Task, TaskStep(t) PROVE LockInv'
  <2> t \in Job /\ Target(t) \in File /\ Parent(t) \in Job /\ Task \subseteq Job /\ None \notin Task
    BY NilIsNoJob DEF Job
  <2>1. CASE StartLookup(t) \/ CheckMapped(t)
    <3>1. PICK label \in {"check", "lock", "open"} :
             pc' = [pc EXCEPT ![t] = label] /\ (label = "open" => ~ IsFrag(t))
      BY <2>1 DEF StartLookup, CheckMapped, LocateRef, Goto
    <3>2. /\ pc[t] \in {"spawned", "check"}
          /\ UNCHANGED <<cache, processing, waiter, file, content, indexed,
                         complete, catalog, refLock, result, remoteErrors>>
      BY <2>1 DEF StartLookup, CheckMapped
    <3>3. \A s \in Task : IsFrag(s) /\ pc'[s] \in Locked => pc[s] \in Locked
      BY <3>1 DEF TypeOK, Locked
    <3> QED BY <3>2, <3>3 DEF LockInv
  <2>2. CASE LockRef(t)
    BY <2>2 DEF TypeOK, LockInv, Locked, PC, LockRef, Goto
  <2>3. CASE FindComponentInRoot(t)
    BY <2>3 DEF TypeOK, LockInv, Locked, PC, FindComponentInRoot, Goto, Return, UnlockRef
  <2>4. CASE OpenCached(t)
    BY <2>4 DEF TypeOK, LockInv, Locked, PC, OpenCached, Goto
  <2>5. CASE OpenDenied(t)
    BY <2>5 DEF TypeOK, LockInv, Locked, PC, OpenDenied, Goto, Return, UnlockRef
  <2>6. CASE OpenMiss(t)
    <3>1. CASE remoteErrors' = remoteErrors + 1 /\ Return(t, Missing)
      BY <2>6, <3>1 DEF TypeOK, LockInv, Locked, PC, OpenMiss, Goto, Return, UnlockRef
    <3>2. CASE Goto(t, "claim") /\ UNCHANGED <<refLock, result, remoteErrors>>
      BY <2>6, <3>2 DEF TypeOK, LockInv, Locked, PC, OpenMiss, Goto
    <3> QED BY <2>6, <3>1, <3>2 DEF OpenMiss
  <2>7. CASE ClaimFile(t)
    <3>1. /\ pc[t] = "claim" /\ refLock' = refLock
          /\ (pc' = [pc EXCEPT ![t] = "extract"] \/ pc' = [pc EXCEPT ![t] = "waiting"])
      BY <2>7 DEF ClaimFile, Goto
    <3>2. CASE pc' = [pc EXCEPT ![t] = "extract"]
      BY <3>1, <3>2 DEF TypeOK, LockInv, Locked, PC
    <3>3. CASE pc' = [pc EXCEPT ![t] = "waiting"]
      BY <3>1, <3>3 DEF TypeOK, LockInv, Locked, PC
    <3> QED BY <3>1, <3>2, <3>3
  <2>8. CASE WaiterReleased(t)
    BY <2>8 DEF TypeOK, LockInv, Locked, PC, WaiterReleased, Goto, Return, UnlockRef
  <2>9. ASSUME NEW o \in Outcome[Target(t)], ExtractFails(t, o) PROVE LockInv'
    BY <2>9 DEF TypeOK, LockInv, Locked, PC, ExtractFails, Goto, Return, UnlockRef, ReleaseWaiter
  <2>10. ASSUME NEW o \in Outcome[Target(t)], ExtractFile(t, o) PROVE LockInv'
    BY <2>10 DEF TypeOK, LockInv, Locked, PC, ExtractFile, Goto
  <2>11. CASE StoreFile(t)
    BY <2>11 DEF TypeOK, LockInv, Locked, PC, StoreFile, Goto
  <2>12. CASE ReleaseFile(t)
    BY <2>12 DEF TypeOK, LockInv, Locked, PC, ReleaseFile, Goto, ReleaseWaiter
  <2>13. CASE BeginIndex(t)
    BY <2>13 DEF TypeOK, LockInv, Locked, PC, BeginIndex, Children
  <2>14. CASE StoreIndex(t)
    <3>1. CASE content[t] = "empty"
      BY <2>14, <3>1 DEF TypeOK, LockInv, Locked, PC, StoreIndex, Goto
    <3>2. CASE content[t] # "empty"
      BY <2>14, <3>2 DEF TypeOK, LockInv, Locked, PC, StoreIndex, Goto
    <3> QED BY <3>1, <3>2
  <2>15. CASE AddExternalIndex(t)
    BY <2>15 DEF TypeOK, LockInv, Locked, PC, AddExternalIndex, Goto
  <2>16. CASE SignalIndexingComplete(t)
    BY <2>16 DEF TypeOK, LockInv, Locked, PC, SignalIndexingComplete, Goto
  <2>17. CASE LoaderReturns(t)
    <3>1. CASE pc[t] = "return" /\ Goto(t, "lookup") /\ UNCHANGED <<refLock, result>>
      BY <2>17, <3>1 DEF TypeOK, LockInv, Locked, PC, Goto
    <3>2. CASE Return(t, Missing)
      <4>1. pc[t] \in Locked
        BY <2>17 DEF LoaderReturns, Locked, PC
      <4> QED BY <3>2, <4>1, ReturnKeepsLocks
    <3> QED BY <2>17, <3>1, <3>2 DEF LoaderReturns
  <2>18. CASE LookupRolodex(t)
    <3>1. CASE pc[t] = "lookup" /\ Goto(t, "blocked") /\ UNCHANGED <<refLock, result>>
      BY <2>18, <3>1 DEF TypeOK, LockInv, Locked, PC, Goto
    <3>2. CASE Return(t, Located(t))
      <4>1. pc[t] \in Locked
        BY <2>18 DEF LookupRolodex, Locked, PC
      <4> QED BY <3>2, <4>1, ReturnKeepsLocks
    <3> QED BY <2>18, <3>1, <3>2 DEF LookupRolodex
  <2>19. CASE IndexingAwaited(t)
    BY <2>19 DEF TypeOK, LockInv, Locked, PC, IndexingAwaited, Goto, Return, UnlockRef
  <2> QED
    BY <1>t, <2>1, <2>2, <2>3, <2>4, <2>5, <2>6, <2>7, <2>8, <2>9, <2>10, <2>11, <2>12, <2>13, <2>14, <2>15, <2>16, <2>17, <2>18, <2>19 DEF TaskStep
<1> QED
  BY <1>r, <1>f, <1>u, <1>t DEF Next, RootStep, Terminated

\* Tasks are born when their document is indexed.
LEMMA TreeStep == TypeOK /\ TreeInv /\ [Next]_vars => TreeInv'
<1> SUFFICES ASSUME TypeOK, TreeInv, [Next]_vars PROVE TreeInv'
  OBVIOUS
<1> USE TargetIsFile, ParentIsJob, NilIsNoJob, ConstantsAssumption
<1>r. CASE BeginIndex(RootJob)
  BY <1>r, TaskIsChain DEF TypeOK, TreeInv, BeforeIndexing, PC, BeginIndex, Children, Job
<1>f. CASE FinishRoot
  BY <1>f, TaskIsChain DEF TypeOK, TreeInv, BeforeIndexing, PC, FinishRoot, Goto, Job
<1>u. CASE UNCHANGED vars
  BY <1>u DEF TypeOK, TreeInv, BeforeIndexing, PC, vars
<1>t. ASSUME NEW t \in Task, TaskStep(t) PROVE TreeInv'
  <2> t \in Job /\ Target(t) \in File /\ Parent(t) \in Job /\ Task \subseteq Job /\ None \notin Task
    BY NilIsNoJob DEF Job
  <2>1. CASE StartLookup(t) \/ CheckMapped(t)
    <3>1. PICK label \in {"check", "lock", "open"} : pc' = [pc EXCEPT ![t] = label]
      BY <2>1 DEF StartLookup, CheckMapped, LocateRef, Goto
    <3>2. /\ pc[t] \in {"spawned", "check"}
          /\ UNCHANGED <<cache, processing, waiter, file, content, indexed,
                         complete, catalog, refLock, result, remoteErrors>>
      BY <2>1 DEF StartLookup, CheckMapped
    <3> QED BY <3>1, <3>2 DEF TypeOK, TreeInv, BeforeIndexing, PC
  <2>2. CASE LockRef(t)
    BY <2>2 DEF TypeOK, TreeInv, BeforeIndexing, PC, LockRef, Goto
  <2>3. CASE FindComponentInRoot(t)
    BY <2>3 DEF TypeOK, TreeInv, BeforeIndexing, PC, FindComponentInRoot, Goto, Return, UnlockRef
  <2>4. CASE OpenCached(t)
    BY <2>4 DEF TypeOK, TreeInv, BeforeIndexing, PC, OpenCached, Goto
  <2>5. CASE OpenDenied(t)
    BY <2>5 DEF TypeOK, TreeInv, BeforeIndexing, PC, OpenDenied, Goto, Return, UnlockRef
  <2>6. CASE OpenMiss(t)
    <3>1. CASE remoteErrors' = remoteErrors + 1 /\ Return(t, Missing)
      BY <2>6, <3>1 DEF TypeOK, TreeInv, BeforeIndexing, PC, OpenMiss, Goto, Return, UnlockRef
    <3>2. CASE Goto(t, "claim") /\ UNCHANGED <<refLock, result, remoteErrors>>
      BY <2>6, <3>2 DEF TypeOK, TreeInv, BeforeIndexing, PC, OpenMiss, Goto
    <3> QED BY <2>6, <3>1, <3>2 DEF OpenMiss
  <2>7. CASE ClaimFile(t)
    <3>1. /\ pc[t] = "claim"
          /\ (pc' = [pc EXCEPT ![t] = "extract"] \/ pc' = [pc EXCEPT ![t] = "waiting"])
      BY <2>7 DEF ClaimFile, Goto
    <3>2. CASE pc' = [pc EXCEPT ![t] = "extract"]
      BY <3>1, <3>2 DEF TypeOK, TreeInv, BeforeIndexing, PC
    <3>3. CASE pc' = [pc EXCEPT ![t] = "waiting"]
      BY <3>1, <3>3 DEF TypeOK, TreeInv, BeforeIndexing, PC
    <3> QED BY <3>1, <3>2, <3>3
  <2>8. CASE WaiterReleased(t)
    BY <2>8 DEF TypeOK, TreeInv, BeforeIndexing, PC, WaiterReleased, Goto, Return, UnlockRef
  <2>9. ASSUME NEW o \in Outcome[Target(t)], ExtractFails(t, o) PROVE TreeInv'
    BY <2>9 DEF TypeOK, TreeInv, BeforeIndexing, PC, ExtractFails, Goto, Return, UnlockRef, ReleaseWaiter
  <2>10. ASSUME NEW o \in Outcome[Target(t)], ExtractFile(t, o) PROVE TreeInv'
    BY <2>10 DEF TypeOK, TreeInv, BeforeIndexing, PC, ExtractFile, Goto
  <2>11. CASE StoreFile(t)
    BY <2>11 DEF TypeOK, TreeInv, BeforeIndexing, PC, StoreFile, Goto
  <2>12. CASE ReleaseFile(t)
    BY <2>12 DEF TypeOK, TreeInv, BeforeIndexing, PC, ReleaseFile, Goto, ReleaseWaiter
  <2>13. CASE BeginIndex(t)
    BY <2>13 DEF TypeOK, TreeInv, BeforeIndexing, PC, BeginIndex, Children
  <2>14. CASE StoreIndex(t)
    <3>1. CASE content[t] = "empty"
      BY <2>14, <3>1 DEF TypeOK, TreeInv, BeforeIndexing, PC, StoreIndex, Goto
    <3>2. CASE content[t] # "empty"
      BY <2>14, <3>2 DEF TypeOK, TreeInv, BeforeIndexing, PC, StoreIndex, Goto
    <3> QED BY <3>1, <3>2
  <2>15. CASE AddExternalIndex(t)
    BY <2>15 DEF TypeOK, TreeInv, BeforeIndexing, PC, AddExternalIndex, Goto
  <2>16. CASE SignalIndexingComplete(t)
    BY <2>16 DEF TypeOK, TreeInv, BeforeIndexing, PC, SignalIndexingComplete, Goto
  <2>17. CASE LoaderReturns(t)
    <3>1. /\ pc[t] = "return" /\ cache' = cache
          /\ (pc' = [pc EXCEPT ![t] = "lookup"] \/ pc' = [pc EXCEPT ![t] = "done"])
      BY <2>17 DEF LoaderReturns, Goto, Return
    <3>2. CASE pc' = [pc EXCEPT ![t] = "lookup"]
      BY <3>1, <3>2 DEF TypeOK, TreeInv, BeforeIndexing, PC
    <3>3. CASE pc' = [pc EXCEPT ![t] = "done"]
      BY <3>1, <3>3 DEF TypeOK, TreeInv, BeforeIndexing, PC
    <3> QED BY <3>1, <3>2, <3>3
  <2>18. CASE LookupRolodex(t)
    <3>1. /\ pc[t] = "lookup" /\ cache' = cache
          /\ (pc' = [pc EXCEPT ![t] = "blocked"] \/ pc' = [pc EXCEPT ![t] = "done"])
      BY <2>18 DEF LookupRolodex, Goto, Return
    <3>2. CASE pc' = [pc EXCEPT ![t] = "blocked"]
      BY <3>1, <3>2 DEF TypeOK, TreeInv, BeforeIndexing, PC
    <3>3. CASE pc' = [pc EXCEPT ![t] = "done"]
      BY <3>1, <3>3 DEF TypeOK, TreeInv, BeforeIndexing, PC
    <3> QED BY <3>1, <3>2, <3>3
  <2>19. CASE IndexingAwaited(t)
    <3>1. /\ pc[t] = "blocked" /\ cache' = cache
          /\ pc' = [pc EXCEPT ![t] = "done"]
      BY <2>19 DEF IndexingAwaited, Goto, Return
    <3> QED BY <3>1 DEF TypeOK, TreeInv, BeforeIndexing, PC
  <2> QED
    BY <1>t, <2>1, <2>2, <2>3, <2>4, <2>5, <2>6, <2>7, <2>8, <2>9, <2>10, <2>11, <2>12, <2>13, <2>14, <2>15, <2>16, <2>17, <2>18, <2>19 DEF TaskStep
<1> QED
  BY <1>r, <1>f, <1>u, <1>t DEF Next, RootStep, Terminated

\* Objects stay with their location.
LEMMA LocationStep == TypeOK /\ WaiterInv /\ LocationInv /\ [Next]_vars => LocationInv'
<1> SUFFICES ASSUME TypeOK, WaiterInv, LocationInv, [Next]_vars PROVE LocationInv'
  OBVIOUS
<1> USE TargetIsFile, ParentIsJob, NilIsNoJob, ConstantsAssumption
<1>r. CASE BeginIndex(RootJob)
  BY <1>r, TaskIsChain DEF TypeOK, WaiterInv, LocationInv, PC, BeginIndex, Children, Job
<1>f. CASE FinishRoot
  BY <1>f, TaskIsChain DEF TypeOK, WaiterInv, LocationInv, PC, FinishRoot, Goto, Job
<1>u. CASE UNCHANGED vars
  BY <1>u DEF TypeOK, WaiterInv, LocationInv, PC, vars
<1>t. ASSUME NEW t \in Task, TaskStep(t) PROVE LocationInv'
  <2> t \in Job /\ Target(t) \in File /\ Parent(t) \in Job /\ Task \subseteq Job /\ None \notin Task
    BY NilIsNoJob DEF Job
  <2>1. CASE StartLookup(t) \/ CheckMapped(t)
    BY <2>1 DEF TypeOK, WaiterInv, LocationInv, PC, StartLookup, CheckMapped, LocateRef, Goto
  <2>2. CASE LockRef(t)
    BY <2>2 DEF TypeOK, WaiterInv, LocationInv, PC, LockRef, Goto
  <2>3. CASE FindComponentInRoot(t)
    BY <2>3 DEF TypeOK, WaiterInv, LocationInv, PC, FindComponentInRoot, Goto, Return, UnlockRef
  <2>4. CASE OpenCached(t)
    BY <2>4 DEF TypeOK, WaiterInv, LocationInv, PC, OpenCached, Goto
  <2>5. CASE OpenDenied(t)
    BY <2>5 DEF TypeOK, WaiterInv, LocationInv, PC, OpenDenied, Goto, Return, UnlockRef
  <2>6. CASE OpenMiss(t)
    <3>1. CASE remoteErrors' = remoteErrors + 1 /\ Return(t, Missing)
      BY <2>6, <3>1 DEF TypeOK, WaiterInv, LocationInv, PC, OpenMiss, Goto, Return, UnlockRef
    <3>2. CASE Goto(t, "claim") /\ UNCHANGED <<refLock, result, remoteErrors>>
      BY <2>6, <3>2 DEF TypeOK, WaiterInv, LocationInv, PC, OpenMiss, Goto
    <3> QED BY <2>6, <3>1, <3>2 DEF OpenMiss
  <2>7. CASE ClaimFile(t)
    <3>1. CASE processing[Target(t)] = None
      BY <2>7, <3>1 DEF TypeOK, WaiterInv, LocationInv, PC, ClaimFile, Goto
    <3>2. CASE processing[Target(t)] # None
      <4>1. /\ pc' = [pc EXCEPT ![t] = "waiting"]
            /\ file' = [file EXCEPT ![t] = processing[Target(t)]]
            /\ cache' = cache /\ waiter' = waiter /\ content' = content
            /\ indexed' = indexed /\ result' = result
        BY <2>7, <3>2 DEF ClaimFile, Goto
      <4>2. processing[Target(t)] \in Task /\ Target(processing[Target(t)]) = Target(t)
        BY <3>2 DEF TypeOK, WaiterInv
      <4>3. \A s \in Task : file'[s] # None => Target(file'[s]) = Target(s)
        BY <4>1, <4>2 DEF TypeOK, LocationInv
      <4>4. \A f \in File : cache'[f] # None => Target(cache'[f]) = f
        BY <4>1 DEF LocationInv
      <4>5. \A s \in Task : pc'[s] \in {"waiting", "lookup", "blocked"} => file'[s] # None
        BY <4>1, <4>2, <3>2 DEF TypeOK, LocationInv
      <4> QED BY <4>3, <4>4, <4>5 DEF LocationInv
    <3> QED BY <3>1, <3>2
  <2>8. CASE WaiterReleased(t)
    BY <2>8 DEF TypeOK, WaiterInv, LocationInv, PC, WaiterReleased, Goto, Return, UnlockRef
  <2>9. ASSUME NEW o \in Outcome[Target(t)], ExtractFails(t, o) PROVE LocationInv'
    BY <2>9 DEF TypeOK, WaiterInv, LocationInv, PC, ExtractFails, Goto, Return, UnlockRef, ReleaseWaiter
  <2>10. ASSUME NEW o \in Outcome[Target(t)], ExtractFile(t, o) PROVE LocationInv'
    BY <2>10 DEF TypeOK, WaiterInv, LocationInv, PC, ExtractFile, Goto
  <2>11. CASE StoreFile(t)
    BY <2>11 DEF TypeOK, WaiterInv, LocationInv, PC, StoreFile, Goto
  <2>12. CASE ReleaseFile(t)
    BY <2>12 DEF TypeOK, WaiterInv, LocationInv, PC, ReleaseFile, Goto, ReleaseWaiter
  <2>13. CASE BeginIndex(t)
    BY <2>13 DEF TypeOK, WaiterInv, LocationInv, PC, BeginIndex, Children
  <2>14. CASE StoreIndex(t)
    <3>1. CASE content[t] = "empty"
      BY <2>14, <3>1 DEF TypeOK, WaiterInv, LocationInv, PC, StoreIndex, Goto
    <3>2. CASE content[t] # "empty"
      BY <2>14, <3>2 DEF TypeOK, WaiterInv, LocationInv, PC, StoreIndex, Goto
    <3> QED BY <3>1, <3>2
  <2>15. CASE AddExternalIndex(t)
    BY <2>15 DEF TypeOK, WaiterInv, LocationInv, PC, AddExternalIndex, Goto
  <2>16. CASE SignalIndexingComplete(t)
    BY <2>16 DEF TypeOK, WaiterInv, LocationInv, PC, SignalIndexingComplete, Goto
  <2>17. CASE LoaderReturns(t)
    BY <2>17 DEF TypeOK, WaiterInv, LocationInv, PC, LoaderReturns, Goto, Return, UnlockRef
  <2>18. CASE LookupRolodex(t)
    BY <2>18 DEF TypeOK, WaiterInv, LocationInv, PC, LookupRolodex, Goto, Return, UnlockRef
  <2>19. CASE IndexingAwaited(t)
    BY <2>19 DEF TypeOK, WaiterInv, LocationInv, PC, IndexingAwaited, Goto, Return, UnlockRef
  <2> QED
    BY <1>t, <2>1, <2>2, <2>3, <2>4, <2>5, <2>6, <2>7, <2>8, <2>9, <2>10, <2>11, <2>12, <2>13, <2>14, <2>15, <2>16, <2>17, <2>18, <2>19 DEF TaskStep
<1> QED
  BY <1>r, <1>f, <1>u, <1>t DEF Next, RootStep, Terminated

\* Objects that can be reached have been read.
LEMMA ContentStep == TypeOK /\ WaiterInv /\ LocationInv /\ TreeInv /\ ContentInv /\ [Next]_vars => ContentInv'
<1> SUFFICES ASSUME TypeOK, WaiterInv, LocationInv, TreeInv, ContentInv, [Next]_vars PROVE ContentInv'
  OBVIOUS
<1> USE TargetIsFile, ParentIsJob, NilIsNoJob, ConstantsAssumption
<1>r. CASE BeginIndex(RootJob)
  BY <1>r, TaskIsChain DEF TypeOK, WaiterInv, LocationInv, TreeInv, ContentInv, PC, Claiming, BeforeIndexing, BeginIndex, Children, Job
<1>f. CASE FinishRoot
  BY <1>f, TaskIsChain DEF TypeOK, WaiterInv, LocationInv, TreeInv, ContentInv, PC, Claiming, BeforeIndexing, FinishRoot, Goto, Job
<1>u. CASE UNCHANGED vars
  BY <1>u DEF TypeOK, WaiterInv, LocationInv, TreeInv, ContentInv, PC, Claiming, BeforeIndexing, vars
<1>t. ASSUME NEW t \in Task, TaskStep(t) PROVE ContentInv'
  <2> t \in Job /\ Target(t) \in File /\ Parent(t) \in Job /\ Task \subseteq Job /\ None \notin Task
    BY NilIsNoJob DEF Job
  <2>1. CASE StartLookup(t) \/ CheckMapped(t)
    BY <2>1 DEF TypeOK, WaiterInv, LocationInv, TreeInv, ContentInv, PC, Claiming, BeforeIndexing,
                StartLookup, CheckMapped, LocateRef, Goto
  <2>2. CASE LockRef(t)
    BY <2>2 DEF TypeOK, WaiterInv, LocationInv, TreeInv, ContentInv, PC, Claiming, BeforeIndexing, LockRef, Goto
  <2>3. CASE FindComponentInRoot(t)
    BY <2>3 DEF TypeOK, WaiterInv, LocationInv, TreeInv, ContentInv, PC, Claiming, BeforeIndexing, FindComponentInRoot, Goto, Return, UnlockRef
  <2>4. CASE OpenCached(t)
    BY <2>4 DEF TypeOK, WaiterInv, LocationInv, TreeInv, ContentInv, PC, Claiming, BeforeIndexing, OpenCached, Goto
  <2>5. CASE OpenDenied(t)
    BY <2>5 DEF TypeOK, WaiterInv, LocationInv, TreeInv, ContentInv, PC, Claiming, BeforeIndexing, OpenDenied, Goto, Return, UnlockRef
  <2>6. CASE OpenMiss(t)
    <3>1. CASE remoteErrors' = remoteErrors + 1 /\ Return(t, Missing)
      BY <2>6, <3>1 DEF TypeOK, WaiterInv, LocationInv, TreeInv, ContentInv, PC, Claiming, BeforeIndexing, OpenMiss, Goto, Return, UnlockRef
    <3>2. CASE Goto(t, "claim") /\ UNCHANGED <<refLock, result, remoteErrors>>
      BY <2>6, <3>2 DEF TypeOK, WaiterInv, LocationInv, TreeInv, ContentInv, PC, Claiming, BeforeIndexing, OpenMiss, Goto
    <3> QED BY <2>6, <3>1, <3>2 DEF OpenMiss
  <2>7. CASE ClaimFile(t)
    <3>1. CASE processing[Target(t)] = None
      BY <2>7, <3>1 DEF TypeOK, WaiterInv, LocationInv, TreeInv, ContentInv, PC, Claiming, BeforeIndexing, ClaimFile, Goto
    <3>2. CASE processing[Target(t)] # None
      <4>1. /\ pc' = [pc EXCEPT ![t] = "waiting"]
            /\ file' = [file EXCEPT ![t] = processing[Target(t)]]
            /\ cache' = cache /\ waiter' = waiter /\ content' = content
            /\ indexed' = indexed /\ result' = result
        BY <2>7, <3>2 DEF ClaimFile, Goto
      <4>2. \A s \in Task : s # t => pc'[s] = pc[s] /\ file'[s] = file[s]
        BY <4>1 DEF TypeOK
      <4>3. pc'[t] = "waiting"
        BY <4>1 DEF TypeOK
      <4> QED BY <4>1, <4>2, <4>3 DEF ContentInv
    <3> QED BY <3>1, <3>2
  <2>8. CASE WaiterReleased(t)
    BY <2>8 DEF TypeOK, WaiterInv, LocationInv, TreeInv, ContentInv, PC, Claiming, BeforeIndexing, WaiterReleased, Goto, Return, UnlockRef
  <2>9. ASSUME NEW o \in Outcome[Target(t)], ExtractFails(t, o) PROVE ContentInv'
    BY <2>9 DEF TypeOK, WaiterInv, LocationInv, TreeInv, ContentInv, PC, Claiming, BeforeIndexing, ExtractFails, Goto, Return, UnlockRef, ReleaseWaiter
  <2>10. ASSUME NEW o \in Outcome[Target(t)], ExtractFile(t, o) PROVE ContentInv'
    BY <2>10 DEF TypeOK, WaiterInv, LocationInv, TreeInv, ContentInv, PC, Claiming, BeforeIndexing, ExtractFile, Goto
  <2>11. CASE StoreFile(t)
    BY <2>11 DEF TypeOK, WaiterInv, LocationInv, TreeInv, ContentInv, PC, Claiming, BeforeIndexing, StoreFile, Goto
  <2>12. CASE ReleaseFile(t)
    BY <2>12 DEF TypeOK, WaiterInv, LocationInv, TreeInv, ContentInv, PC, Claiming, BeforeIndexing, ReleaseFile, Goto, ReleaseWaiter
  <2>13. CASE BeginIndex(t)
    BY <2>13 DEF TypeOK, WaiterInv, LocationInv, TreeInv, ContentInv, PC, Claiming, BeforeIndexing, BeginIndex, Children
  <2>14. CASE StoreIndex(t)
    <3>1. CASE content[t] = "empty"
      BY <2>14, <3>1 DEF TypeOK, WaiterInv, LocationInv, TreeInv, ContentInv, PC, Claiming, BeforeIndexing, StoreIndex, Goto
    <3>2. CASE content[t] # "empty"
      BY <2>14, <3>2 DEF TypeOK, WaiterInv, LocationInv, TreeInv, ContentInv, PC, Claiming, BeforeIndexing, StoreIndex, Goto
    <3> QED BY <3>1, <3>2
  <2>15. CASE AddExternalIndex(t)
    BY <2>15 DEF TypeOK, WaiterInv, LocationInv, TreeInv, ContentInv, PC, Claiming, BeforeIndexing, AddExternalIndex, Goto
  <2>16. CASE SignalIndexingComplete(t)
    BY <2>16 DEF TypeOK, WaiterInv, LocationInv, TreeInv, ContentInv, PC, Claiming, BeforeIndexing, SignalIndexingComplete, Goto
  <2>17. CASE LoaderReturns(t)
    BY <2>17 DEF TypeOK, WaiterInv, LocationInv, TreeInv, ContentInv, PC, Claiming, BeforeIndexing, LoaderReturns, Goto, Return, UnlockRef
  <2>18. CASE LookupRolodex(t)
    BY <2>18 DEF TypeOK, WaiterInv, LocationInv, TreeInv, ContentInv, PC, Claiming, BeforeIndexing, LookupRolodex, Goto, Return, UnlockRef
  <2>19. CASE IndexingAwaited(t)
    BY <2>19 DEF TypeOK, WaiterInv, LocationInv, TreeInv, ContentInv, PC, Claiming, BeforeIndexing, IndexingAwaited, Goto, Return, UnlockRef
  <2> QED
    BY <1>t, <2>1, <2>2, <2>3, <2>4, <2>5, <2>6, <2>7, <2>8, <2>9, <2>10, <2>11, <2>12, <2>13, <2>14, <2>15, <2>16, <2>17, <2>18, <2>19 DEF TaskStep
<1> QED
  BY <1>r, <1>f, <1>u, <1>t DEF Next, RootStep, Terminated

\* The channel is closed after the index is stored.
LEMMA SignalStep == TypeOK /\ ContentInv /\ SignalInv /\ [Next]_vars => SignalInv'
<1> SUFFICES ASSUME TypeOK, ContentInv, SignalInv, [Next]_vars PROVE SignalInv'
  OBVIOUS
<1> USE TargetIsFile, ParentIsJob, NilIsNoJob, ConstantsAssumption
<1>r. CASE BeginIndex(RootJob)
  BY <1>r, TaskIsChain DEF TypeOK, ContentInv, SignalInv, PC, BeginIndex, Children, Job
<1>f. CASE FinishRoot
  BY <1>f, TaskIsChain DEF TypeOK, ContentInv, SignalInv, PC, FinishRoot, Goto, Job
<1>u. CASE UNCHANGED vars
  BY <1>u DEF TypeOK, ContentInv, SignalInv, PC, vars
<1>t. ASSUME NEW t \in Task, TaskStep(t) PROVE SignalInv'
  <2> t \in Job /\ Target(t) \in File /\ Parent(t) \in Job /\ Task \subseteq Job /\ None \notin Task
    BY NilIsNoJob DEF Job
  <2>1. CASE StartLookup(t) \/ CheckMapped(t)
    BY <2>1 DEF TypeOK, ContentInv, SignalInv, PC, StartLookup, CheckMapped, LocateRef, Goto
  <2>2. CASE LockRef(t)
    BY <2>2 DEF TypeOK, ContentInv, SignalInv, PC, LockRef, Goto
  <2>3. CASE FindComponentInRoot(t)
    BY <2>3 DEF TypeOK, ContentInv, SignalInv, PC, FindComponentInRoot, Goto, Return, UnlockRef
  <2>4. CASE OpenCached(t)
    BY <2>4 DEF TypeOK, ContentInv, SignalInv, PC, OpenCached, Goto
  <2>5. CASE OpenDenied(t)
    BY <2>5 DEF TypeOK, ContentInv, SignalInv, PC, OpenDenied, Goto, Return, UnlockRef
  <2>6. CASE OpenMiss(t)
    <3>1. CASE remoteErrors' = remoteErrors + 1 /\ Return(t, Missing)
      BY <2>6, <3>1 DEF TypeOK, ContentInv, SignalInv, PC, OpenMiss, Goto, Return, UnlockRef
    <3>2. CASE Goto(t, "claim") /\ UNCHANGED <<refLock, result, remoteErrors>>
      BY <2>6, <3>2 DEF TypeOK, ContentInv, SignalInv, PC, OpenMiss, Goto
    <3> QED BY <2>6, <3>1, <3>2 DEF OpenMiss
  <2>7. CASE ClaimFile(t)
    <3>1. CASE processing[Target(t)] = None
      BY <2>7, <3>1 DEF TypeOK, ContentInv, SignalInv, PC, ClaimFile, Goto
    <3>2. CASE processing[Target(t)] # None
      BY <2>7, <3>2 DEF TypeOK, ContentInv, SignalInv, PC, ClaimFile, Goto
    <3> QED BY <3>1, <3>2
  <2>8. CASE WaiterReleased(t)
    BY <2>8 DEF TypeOK, ContentInv, SignalInv, PC, WaiterReleased, Goto, Return, UnlockRef
  <2>9. ASSUME NEW o \in Outcome[Target(t)], ExtractFails(t, o) PROVE SignalInv'
    BY <2>9 DEF TypeOK, ContentInv, SignalInv, PC, ExtractFails, Goto, Return, UnlockRef, ReleaseWaiter
  <2>10. ASSUME NEW o \in Outcome[Target(t)], ExtractFile(t, o) PROVE SignalInv'
    BY <2>10 DEF TypeOK, ContentInv, SignalInv, PC, ExtractFile, Goto
  <2>11. CASE StoreFile(t)
    BY <2>11 DEF TypeOK, ContentInv, SignalInv, PC, StoreFile, Goto
  <2>12. CASE ReleaseFile(t)
    BY <2>12 DEF TypeOK, ContentInv, SignalInv, PC, ReleaseFile, Goto, ReleaseWaiter
  <2>13. CASE BeginIndex(t)
    BY <2>13 DEF TypeOK, ContentInv, SignalInv, PC, BeginIndex, Children
  <2>14. CASE StoreIndex(t)
    <3>1. CASE content[t] = "empty"
      BY <2>14, <3>1 DEF TypeOK, ContentInv, SignalInv, PC, StoreIndex, Goto
    <3>2. CASE content[t] # "empty"
      BY <2>14, <3>2 DEF TypeOK, ContentInv, SignalInv, PC, StoreIndex, Goto
    <3> QED BY <3>1, <3>2
  <2>15. CASE AddExternalIndex(t)
    BY <2>15 DEF TypeOK, ContentInv, SignalInv, PC, AddExternalIndex, Goto
  <2>16. CASE SignalIndexingComplete(t)
    BY <2>16 DEF TypeOK, ContentInv, SignalInv, PC, SignalIndexingComplete, Goto
  <2>17. CASE LoaderReturns(t)
    BY <2>17 DEF TypeOK, ContentInv, SignalInv, PC, LoaderReturns, Goto, Return, UnlockRef
  <2>18. CASE LookupRolodex(t)
    BY <2>18 DEF TypeOK, ContentInv, SignalInv, PC, LookupRolodex, Goto, Return, UnlockRef
  <2>19. CASE IndexingAwaited(t)
    BY <2>19 DEF TypeOK, ContentInv, SignalInv, PC, IndexingAwaited, Goto, Return, UnlockRef
  <2> QED
    BY <1>t, <2>1, <2>2, <2>3, <2>4, <2>5, <2>6, <2>7, <2>8, <2>9, <2>10, <2>11, <2>12, <2>13, <2>14, <2>15, <2>16, <2>17, <2>18, <2>19 DEF TaskStep
<1> QED
  BY <1>r, <1>f, <1>u, <1>t DEF Next, RootStep, Terminated

\* Call chains stay cached and never repeat a file.
LEMMA ChainStep == TypeOK /\ ChainInv /\ [Next]_vars => ChainInv'
<1> SUFFICES ASSUME TypeOK, ChainInv, [Next]_vars PROVE ChainInv'
  OBVIOUS
<1> USE TargetIsFile, ParentIsJob, NilIsNoJob, ConstantsAssumption
<1>r. CASE BeginIndex(RootJob)
  <2>1. \A k \in Task : pc'[k] # "idle" => pc[k] # "idle" \/ Parent(k) = RootJob
    BY <1>r, TaskIsChain DEF TypeOK, BeginIndex, Children, Job
  <2>2. \A k \in Task : pc'[k] \in {"release", "index", "indexing", "claim", "waiting"} \cup Claiming
                            => pc[k] = pc'[k]
    BY <1>r, TaskIsChain DEF TypeOK, BeginIndex, Children, Job, Claiming
  <2>3. cache' = cache
    BY <1>r DEF BeginIndex
  <2>4. \A k \in Task : Parent(k) = RootJob => Ctx(k) = {}
    BY CtxOfChild
  <2>5. \A k \in Task : pc'[k] # "idle" => \A f \in Ctx(k) : cache'[f] # None
    BY <2>1, <2>3, <2>4 DEF ChainInv
  <2>6. \A k \in Task : pc'[k] \in {"release", "index", "indexing"} => cache'[Target(k)] # None
    BY <2>2, <2>3 DEF ChainInv
  <2>7. NoReload'
    BY <2>2, <2>3 DEF ChainInv, NoReload
  <2> QED BY <2>5, <2>6, <2>7 DEF ChainInv
<1>f. CASE FinishRoot
  BY <1>f, TaskIsChain DEF TypeOK, ChainInv, NoReload, Claiming, PC, FinishRoot, Goto, Job
<1>u. CASE UNCHANGED vars
  BY <1>u DEF TypeOK, ChainInv, NoReload, Claiming, PC, vars
<1>t. ASSUME NEW t \in Task, TaskStep(t) PROVE ChainInv'
  <2> t \in Job /\ Target(t) \in File /\ Parent(t) \in Job /\ Task \subseteq Job /\ None \notin Task
    BY NilIsNoJob DEF Job
  <2>1. CASE StartLookup(t) \/ CheckMapped(t)
    <3>1. PICK label \in {"check", "lock", "open"} : pc' = [pc EXCEPT ![t] = label]
      BY <2>1 DEF StartLookup, CheckMapped, LocateRef, Goto
    <3>2. /\ pc[t] \in {"spawned", "check"}
          /\ UNCHANGED <<cache, processing, waiter, file, content, indexed,
                         complete, catalog, refLock, result, remoteErrors>>
      BY <2>1 DEF StartLookup, CheckMapped
    <3> QED BY <3>1, <3>2 DEF TypeOK, ChainInv, NoReload, Claiming, PC
  <2>2. CASE LockRef(t)
    BY <2>2 DEF TypeOK, ChainInv, NoReload, Claiming, PC, LockRef, Goto
  <2>3. CASE FindComponentInRoot(t)
    BY <2>3 DEF TypeOK, ChainInv, NoReload, Claiming, PC, FindComponentInRoot, Goto, Return, UnlockRef
  <2>4. CASE OpenCached(t)
    BY <2>4 DEF TypeOK, ChainInv, NoReload, Claiming, PC, OpenCached, Goto
  <2>5. CASE OpenDenied(t)
    BY <2>5 DEF TypeOK, ChainInv, NoReload, Claiming, PC, OpenDenied, Goto, Return, UnlockRef
  <2>6. CASE OpenMiss(t)
    <3>1. CASE remoteErrors' = remoteErrors + 1 /\ Return(t, Missing)
      BY <2>6, <3>1 DEF TypeOK, ChainInv, NoReload, Claiming, PC, OpenMiss, Goto, Return, UnlockRef
    <3>2. CASE Goto(t, "claim") /\ UNCHANGED <<refLock, result, remoteErrors>>
      BY <2>6, <3>2 DEF TypeOK, ChainInv, NoReload, Claiming, PC, OpenMiss, Goto
    <3> QED BY <2>6, <3>1, <3>2 DEF OpenMiss
  <2>7. CASE ClaimFile(t)
    <3>1. CASE processing[Target(t)] = None
      BY <2>7, <3>1 DEF TypeOK, ChainInv, NoReload, Claiming, PC, ClaimFile, Goto
    <3>2. CASE processing[Target(t)] # None
      BY <2>7, <3>2 DEF TypeOK, ChainInv, NoReload, Claiming, PC, ClaimFile, Goto
    <3> QED BY <3>1, <3>2
  <2>8. CASE WaiterReleased(t)
    BY <2>8 DEF TypeOK, ChainInv, NoReload, Claiming, PC, WaiterReleased, Goto, Return, UnlockRef
  <2>9. ASSUME NEW o \in Outcome[Target(t)], ExtractFails(t, o) PROVE ChainInv'
    BY <2>9 DEF TypeOK, ChainInv, NoReload, Claiming, PC, ExtractFails, Goto, Return, UnlockRef, ReleaseWaiter
  <2>10. ASSUME NEW o \in Outcome[Target(t)], ExtractFile(t, o) PROVE ChainInv'
    BY <2>10 DEF TypeOK, ChainInv, NoReload, Claiming, PC, ExtractFile, Goto
  <2>11. CASE StoreFile(t)
    BY <2>11 DEF TypeOK, ChainInv, NoReload, Claiming, PC, StoreFile, Goto
  <2>12. CASE ReleaseFile(t)
    BY <2>12 DEF TypeOK, ChainInv, NoReload, Claiming, PC, ReleaseFile, Goto, ReleaseWaiter
  <2>13. CASE BeginIndex(t)
    <3>1. \A k \in Task : pc'[k] # "idle" => pc[k] # "idle" \/ Parent(k) = t
      BY <2>13 DEF TypeOK, BeginIndex, Children, Job
    <3>2. \A k \in Task : pc'[k] \in {"release", "index", "indexing", "claim", "waiting"} \cup Claiming
                              => pc[k] = pc'[k] \/ (k = t /\ pc[t] = "index")
      BY <2>13 DEF TypeOK, BeginIndex, Children, Job, Claiming
    <3>3. cache' = cache /\ pc[t] = "index"
      BY <2>13 DEF BeginIndex
    <3>4. \A k \in Task : Parent(k) = t => Ctx(k) = Ctx(t) \cup {Target(t)}
      BY CtxOfChild, TaskIsChain
    <3>5. \A k \in Task : pc'[k] # "idle" => \A f \in Ctx(k) : cache'[f] # None
      BY <3>1, <3>3, <3>4 DEF ChainInv
    <3>6. \A k \in Task : pc'[k] \in {"release", "index", "indexing"} => cache'[Target(k)] # None
      BY <3>2, <3>3 DEF ChainInv
    <3>7. NoReload'
      BY <3>2, <3>3 DEF ChainInv, NoReload
    <3> QED BY <3>5, <3>6, <3>7 DEF ChainInv
  <2>14. CASE StoreIndex(t)
    <3>1. CASE content[t] = "empty"
      BY <2>14, <3>1 DEF TypeOK, ChainInv, NoReload, Claiming, PC, StoreIndex, Goto
    <3>2. CASE content[t] # "empty"
      BY <2>14, <3>2 DEF TypeOK, ChainInv, NoReload, Claiming, PC, StoreIndex, Goto
    <3> QED BY <3>1, <3>2
  <2>15. CASE AddExternalIndex(t)
    BY <2>15 DEF TypeOK, ChainInv, NoReload, Claiming, PC, AddExternalIndex, Goto
  <2>16. CASE SignalIndexingComplete(t)
    BY <2>16 DEF TypeOK, ChainInv, NoReload, Claiming, PC, SignalIndexingComplete, Goto
  <2>17. CASE LoaderReturns(t)
    <3>1. /\ pc[t] = "return" /\ cache' = cache
          /\ (pc' = [pc EXCEPT ![t] = "lookup"] \/ pc' = [pc EXCEPT ![t] = "done"])
      BY <2>17 DEF LoaderReturns, Goto, Return
    <3>2. CASE pc' = [pc EXCEPT ![t] = "lookup"]
      BY <3>1, <3>2 DEF TypeOK, ChainInv, NoReload, Claiming, PC
    <3>3. CASE pc' = [pc EXCEPT ![t] = "done"]
      BY <3>1, <3>3 DEF TypeOK, ChainInv, NoReload, Claiming, PC
    <3> QED BY <3>1, <3>2, <3>3
  <2>18. CASE LookupRolodex(t)
    <3>1. /\ pc[t] = "lookup" /\ cache' = cache
          /\ (pc' = [pc EXCEPT ![t] = "blocked"] \/ pc' = [pc EXCEPT ![t] = "done"])
      BY <2>18 DEF LookupRolodex, Goto, Return
    <3>2. CASE pc' = [pc EXCEPT ![t] = "blocked"]
      BY <3>1, <3>2 DEF TypeOK, ChainInv, NoReload, Claiming, PC
    <3>3. CASE pc' = [pc EXCEPT ![t] = "done"]
      BY <3>1, <3>3 DEF TypeOK, ChainInv, NoReload, Claiming, PC
    <3> QED BY <3>1, <3>2, <3>3
  <2>19. CASE IndexingAwaited(t)
    <3>1. /\ pc[t] = "blocked" /\ cache' = cache
          /\ pc' = [pc EXCEPT ![t] = "done"]
      BY <2>19 DEF IndexingAwaited, Goto, Return
    <3> QED BY <3>1 DEF TypeOK, ChainInv, NoReload, Claiming, PC
  <2> QED
    BY <1>t, <2>1, <2>2, <2>3, <2>4, <2>5, <2>6, <2>7, <2>8, <2>9, <2>10, <2>11, <2>12, <2>13, <2>14, <2>15, <2>16, <2>17, <2>18, <2>19 DEF TaskStep
<1> QED
  BY <1>r, <1>f, <1>u, <1>t DEF Next, RootStep, Terminated

\* A result, once returned, keeps its meaning.
LEMMA ResultStep == TypeOK /\ LocationInv /\ ContentInv /\ SignalInv /\ ResultInv /\ [Next]_vars => ResultInv'
<1> SUFFICES ASSUME TypeOK, LocationInv, ContentInv, SignalInv, ResultInv, [Next]_vars PROVE ResultInv'
  OBVIOUS
<1> USE TargetIsFile, ParentIsJob, NilIsNoJob, ConstantsAssumption
<1>r. CASE BeginIndex(RootJob)
  BY <1>r, TaskIsChain DEF TypeOK, LocationInv, ContentInv, SignalInv, ResultInv, PC, BeginIndex, Children, Job
<1>f. CASE FinishRoot
  BY <1>f, TaskIsChain DEF TypeOK, LocationInv, ContentInv, SignalInv, ResultInv, PC, FinishRoot, Goto, Job
<1>u. CASE UNCHANGED vars
  BY <1>u DEF TypeOK, LocationInv, ContentInv, SignalInv, ResultInv, PC, vars
<1>t. ASSUME NEW t \in Task, TaskStep(t) PROVE ResultInv'
  <2> t \in Job /\ Target(t) \in File /\ Parent(t) \in Job /\ Task \subseteq Job /\ None \notin Task
    BY NilIsNoJob DEF Job
  <2>1. CASE StartLookup(t) \/ CheckMapped(t)
    BY <2>1 DEF TypeOK, LocationInv, ContentInv, SignalInv, ResultInv, PC, StartLookup, CheckMapped, LocateRef, Goto
  <2>2. CASE LockRef(t)
    BY <2>2 DEF TypeOK, LocationInv, ContentInv, SignalInv, ResultInv, PC, LockRef, Goto
  <2>3. CASE FindComponentInRoot(t)
    <3>1. IsFrag(t)
      BY <2>3 DEF FindComponentInRoot, InOwnDocument
    <3>2. \A s \in Task : s # t => pc'[s] = pc[s] /\ result'[s] = result[s]
      BY <2>3 DEF FindComponentInRoot, Return, Goto, TypeOK
    <3>3. file' = file /\ content' = content /\ indexed' = indexed
      BY <2>3 DEF FindComponentInRoot
    <3> QED BY <3>1, <3>2, <3>3 DEF ResultInv
  <2>4. CASE OpenCached(t)
    BY <2>4 DEF TypeOK, LocationInv, ContentInv, SignalInv, ResultInv, PC, OpenCached, Goto
  <2>5. CASE OpenDenied(t)
    BY <2>5 DEF TypeOK, LocationInv, ContentInv, SignalInv, ResultInv, PC, OpenDenied, Goto, Return, UnlockRef
  <2>6. CASE OpenMiss(t)
    <3>1. CASE remoteErrors' = remoteErrors + 1 /\ Return(t, Missing)
      BY <2>6, <3>1 DEF TypeOK, LocationInv, ContentInv, SignalInv, ResultInv, PC, OpenMiss, Goto, Return, UnlockRef
    <3>2. CASE Goto(t, "claim") /\ UNCHANGED <<refLock, result, remoteErrors>>
      BY <2>6, <3>2 DEF TypeOK, LocationInv, ContentInv, SignalInv, ResultInv, PC, OpenMiss, Goto
    <3> QED BY <2>6, <3>1, <3>2 DEF OpenMiss
  <2>7. CASE ClaimFile(t)
    <3>1. CASE processing[Target(t)] = None
      BY <2>7, <3>1 DEF TypeOK, LocationInv, ContentInv, SignalInv, ResultInv, PC, ClaimFile, Goto
    <3>2. CASE processing[Target(t)] # None
      <4>1. /\ pc' = [pc EXCEPT ![t] = "waiting"]
            /\ file' = [file EXCEPT ![t] = processing[Target(t)]]
            /\ cache' = cache /\ waiter' = waiter /\ content' = content
            /\ indexed' = indexed /\ result' = result
        BY <2>7, <3>2 DEF ClaimFile, Goto
      <4>2. \A s \in Task : s # t => pc'[s] = pc[s] /\ file'[s] = file[s]
        BY <4>1 DEF TypeOK
      <4>3. pc'[t] # "done"
        BY <4>1 DEF TypeOK
      <4> QED BY <4>1, <4>2, <4>3 DEF ResultInv, IsFileBeingIndexed
    <3> QED BY <3>1, <3>2
  <2>8. CASE WaiterReleased(t)
    BY <2>8 DEF TypeOK, LocationInv, ContentInv, SignalInv, ResultInv, PC, WaiterReleased, Goto, Return, UnlockRef
  <2>9. ASSUME NEW o \in Outcome[Target(t)], ExtractFails(t, o) PROVE ResultInv'
    BY <2>9 DEF TypeOK, LocationInv, ContentInv, SignalInv, ResultInv, PC, ExtractFails, Goto, Return, UnlockRef, ReleaseWaiter
  <2>10. ASSUME NEW o \in Outcome[Target(t)], ExtractFile(t, o) PROVE ResultInv'
    BY <2>10 DEF TypeOK, LocationInv, ContentInv, SignalInv, ResultInv, PC, ExtractFile, Goto
  <2>11. CASE StoreFile(t)
    BY <2>11 DEF TypeOK, LocationInv, ContentInv, SignalInv, ResultInv, PC, StoreFile, Goto
  <2>12. CASE ReleaseFile(t)
    BY <2>12 DEF TypeOK, LocationInv, ContentInv, SignalInv, ResultInv, PC, ReleaseFile, Goto, ReleaseWaiter
  <2>13. CASE BeginIndex(t)
    BY <2>13 DEF TypeOK, LocationInv, ContentInv, SignalInv, ResultInv, PC, BeginIndex, Children
  <2>14. CASE StoreIndex(t)
    <3>1. CASE content[t] = "empty"
      BY <2>14, <3>1 DEF TypeOK, LocationInv, ContentInv, SignalInv, ResultInv, PC, StoreIndex, Goto
    <3>2. CASE content[t] # "empty"
      BY <2>14, <3>2 DEF TypeOK, LocationInv, ContentInv, SignalInv, ResultInv, PC, StoreIndex, Goto
    <3> QED BY <3>1, <3>2
  <2>15. CASE AddExternalIndex(t)
    BY <2>15 DEF TypeOK, LocationInv, ContentInv, SignalInv, ResultInv, PC, AddExternalIndex, Goto
  <2>16. CASE SignalIndexingComplete(t)
    BY <2>16 DEF TypeOK, LocationInv, ContentInv, SignalInv, ResultInv, PC, SignalIndexingComplete, Goto
  <2>17. CASE LoaderReturns(t)
    BY <2>17 DEF TypeOK, LocationInv, ContentInv, SignalInv, ResultInv, PC, LoaderReturns, Goto, Return, UnlockRef
  <2>18. CASE LookupRolodex(t)
    BY <2>18 DEF TypeOK, LocationInv, ContentInv, SignalInv, ResultInv, PC, LookupRolodex, Goto, Return, UnlockRef, Located
  <2>19. CASE IndexingAwaited(t)
    BY <2>19 DEF TypeOK, LocationInv, ContentInv, SignalInv, ResultInv, PC, IndexingAwaited, Goto, Return, UnlockRef, Located
  <2> QED
    BY <1>t, <2>1, <2>2, <2>3, <2>4, <2>5, <2>6, <2>7, <2>8, <2>9, <2>10, <2>11, <2>12, <2>13, <2>14, <2>15, <2>16, <2>17, <2>18, <2>19 DEF TaskStep
<1> QED
  BY <1>r, <1>f, <1>u, <1>t DEF Next, RootStep, Terminated

----------------------------------------------------------------------------
(* The invariant and the theorems. *)

\* The initial state satisfies every part.
LEMMA IndInit == Init => IndInv
<1> SUFFICES ASSUME Init PROVE IndInv
  OBVIOUS
<1>0. \A t \in Task : t \in Job /\ pc[t] = "idle"
  BY TaskIsChain DEF Init, Job
<1>1. TypeOK
  BY <1>0 DEF Init, TypeOK, PC
<1>2. WaiterInv /\ LockInv
  BY <1>0 DEF Init, WaiterInv, LockInv, Claiming, Locked, PC
<1>3. LocationInv /\ ContentInv
  BY <1>0 DEF Init, LocationInv, ContentInv
<1>4. TreeInv /\ SignalInv
  BY <1>0 DEF Init, TreeInv, SignalInv
<1>5. ChainInv
  BY <1>0 DEF Init, ChainInv, NoReload, Claiming
<1>6. ResultInv
  BY <1>0 DEF Init, ResultInv
<1> QED BY <1>1, <1>2, <1>3, <1>4, <1>5, <1>6 DEF IndInv

\* The invariant holds in every reachable state.
THEOREM Invariance == Spec => []IndInv
<1>1. IndInv /\ [Next]_vars => IndInv'
  BY TypeStep, WaiterStep, LockStep, LocationStep, ContentStep, TreeStep,
     SignalStep, ChainStep, ResultStep DEF IndInv
<1> QED BY IndInit, <1>1, PTL DEF Spec

\* Every variable stays in its type.
THEOREM TypeCorrect == Spec => []TypeOK
<1>1. IndInv => TypeOK
  BY DEF IndInv
<1> QED BY Invariance, <1>1, PTL

\* A location is read by one task at a time, whose waiter is the stored one
\* (LoadOrStore on processingFiles).
THEOREM ReaderIsUnique == Spec => []OneReaderPerFile
<1>1. IndInv => OneReaderPerFile
  BY DEF IndInv, WaiterInv, OneReaderPerFile
<1> QED BY Invariance, <1>1, PTL

\* Fragment lookups of one index exclude each other (refLock in locateRef).
THEOREM FragmentLookupsAreExclusive == Spec => []FragmentLookupsExclude
<1>1. IndInv => FragmentLookupsExclude
  BY DEF IndInv, LockInv, FragmentLookupsExclude
<1> QED BY Invariance, <1>1, PTL

\* However documents refer to each other, no file is read again below its
\* own indexing: the recursion of the loader is bounded by the number of files.
THEOREM RecursionIsBounded == Spec => []NoReload
<1>1. IndInv => NoReload
  BY DEF IndInv, ChainInv
<1> QED BY Invariance, <1>1, PTL

\* A located whole-file reference off its own call chain carries the index
\* of the file it names (what WaitForIndexing in lookupRolodex is for).
THEOREM WholeFileIndexIsRight == Spec => []WholeFileCarriesItsIndex
<1>1. IndInv => WholeFileCarriesItsIndex
  BY DEF IndInv, ResultInv, LocationInv, WholeFileCarriesItsIndex
<1> QED BY Invariance, <1>1, PTL

----------------------------------------------------------------------------
(* What is listed stays listed, and in the end nothing is missing. *)

\* What the rolodex lists for a location is a stored index of it; a stored index is
\* listed or about to be.
CatalogInv ==
    /\ \A f \in File : catalog[f] # None => catalog[f] \in indexed /\ Target(catalog[f]) = f
    /\ \A t \in indexed : pc[t] = "publish" \/ catalog[Target(t)] # None

\* A lookup runs only while the document it is made for is being indexed.
RunInv == \A t \in Task : pc[Parent(t)] # "indexing" => pc[t] \in {"idle", "done"}

\* A step of a task other than the beginning of its indexing moves no other task, and a
\* task leaves the indexing of its file behind the lookups it has started.
LEMMA TaskMoves ==
    ASSUME TypeOK, NEW t \in Task, TaskStep(t), ~BeginIndex(t)
    PROVE  /\ \E label : pc' = [pc EXCEPT ![t] = label]
           /\ pc[t] \notin {"idle", "done"}
           /\ pc[t] = "indexing" => ChildrenDone(t)
<1>. USE DEF Goto, Return
<1>1. ASSUME StartLookup(t) \/ CheckMapped(t) \/ LockRef(t) \/ FindComponentInRoot(t)
             \/ OpenCached(t) \/ OpenDenied(t)
      PROVE  (\E label : pc' = [pc EXCEPT ![t] = label]) /\ pc[t] \notin {"idle", "done", "indexing"}
  BY <1>1 DEF StartLookup, CheckMapped, LocateRef, LockRef, FindComponentInRoot, OpenCached, OpenDenied
<1>2. ASSUME OpenMiss(t) \/ ClaimFile(t) \/ WaiterReleased(t)
      PROVE  (\E label : pc' = [pc EXCEPT ![t] = label]) /\ pc[t] \notin {"idle", "done", "indexing"}
  BY <1>2 DEF OpenMiss, ClaimFile, WaiterReleased
<1>3. ASSUME NEW o, ExtractFails(t, o) \/ ExtractFile(t, o)
      PROVE  (\E label : pc' = [pc EXCEPT ![t] = label]) /\ pc[t] \notin {"idle", "done", "indexing"}
  BY <1>3 DEF ExtractFails, ExtractFile
<1>4. ASSUME StoreFile(t) \/ ReleaseFile(t) \/ AddExternalIndex(t) \/ SignalIndexingComplete(t)
      PROVE  (\E label : pc' = [pc EXCEPT ![t] = label]) /\ pc[t] \notin {"idle", "done", "indexing"}
  BY <1>4 DEF StoreFile, ReleaseFile, AddExternalIndex, SignalIndexingComplete
<1>5. ASSUME LoaderReturns(t) \/ LookupRolodex(t) \/ IndexingAwaited(t)
      PROVE  (\E label : pc' = [pc EXCEPT ![t] = label]) /\ pc[t] \notin {"idle", "done", "indexing"}
  BY <1>5 DEF LoaderReturns, LookupRolodex, IndexingAwaited
<1>6. ASSUME StoreIndex(t)
      PROVE  (\E label : pc' = [pc EXCEPT ![t] = label]) /\ pc[t] = "indexing" /\ ChildrenDone(t)
  BY <1>6 DEF StoreIndex
<1>. QED
  BY <1>1, <1>2, <1>3, <1>4, <1>5, <1>6 DEF TaskStep

\* No lookup is made for itself.
LEMMA ParentIsAnother == \A t \in Task : Parent(t) # t
<1>. SUFFICES ASSUME NEW t \in Task PROVE Parent(t) # t
  OBVIOUS
<1>c. Cardinality(File) \in Nat
  BY ConstantsAssumption, FS_CardinalityType
<1>1. Len(t) \in Nat
  BY <1>c, TaskIsChain
<1>. QED
  BY <1>1, ParentIsPrefix

LEMMA RunStep == TypeOK /\ TreeInv /\ RunInv /\ [Next]_vars => RunInv'
<1>. SUFFICES ASSUME TypeOK, TreeInv, RunInv, [Next]_vars PROVE RunInv'
  OBVIOUS
<1>0. \A t \in Task : t \in Job /\ Parent(t) \in Job /\ Parent(t) # t
  BY ParentIsJob, ParentIsAnother DEF Job
<1>1. ASSUME NEW j \in Job, BeginIndex(j) PROVE RunInv'
  <2>0. /\ pc[j] = "index"
        /\ \A k \in Job : pc'[k] = CASE k = j -> "indexing"
                                     [] k # j /\ k \in Children(j) /\ ~(j \in Task /\ content[j] = "empty") -> "spawned"
                                     [] OTHER -> pc[k]
    BY <1>1 DEF BeginIndex
  <2>1. \A k \in Children(j) : pc[k] = "idle"
    BY <2>0 DEF TreeInv, BeforeIndexing, Children
  <2>. SUFFICES ASSUME NEW t \in Task, pc'[Parent(t)] # "indexing"
                PROVE  pc'[t] \in {"idle", "done"}
    BY DEF RunInv
  <2>2. Parent(t) # j
    BY <1>0, <2>0
  <2>3. t \notin Children(j)
    BY <2>2 DEF Children
  <2>4. pc[Parent(t)] # "indexing"
    <3>1. CASE Parent(t) \in Children(j)
      BY <2>1, <3>1
    <3>2. CASE Parent(t) \notin Children(j)
      BY <1>0, <2>0, <2>2, <3>2
    <3>. QED
      BY <3>1, <3>2
  <2>5. pc[t] \in {"idle", "done"} /\ t # j
    BY <2>0, <2>4 DEF RunInv
  <2>. QED
    BY <1>0, <2>0, <2>3, <2>5
<1>2. ASSUME NEW j \in Job, NEW label, pc' = [pc EXCEPT ![j] = label],
             pc[j] \notin {"idle", "done"}, pc[j] = "indexing" => ChildrenDone(j)
      PROVE  RunInv'
  <2>. SUFFICES ASSUME NEW t \in Task, pc'[Parent(t)] # "indexing"
                PROVE  pc'[t] \in {"idle", "done"}
    BY DEF RunInv
  <2>0. \A k \in Job : k # j => pc'[k] = pc[k]
    BY <1>2 DEF TypeOK
  <2>1. CASE Parent(t) = j
    <3>1. pc[t] \in {"idle", "done"}
      BY <1>2, <2>1 DEF RunInv, ChildrenDone, Children
    <3>. QED
      BY <1>0, <2>0, <2>1, <3>1
  <2>2. CASE Parent(t) # j
    <3>1. pc[t] \in {"idle", "done"}
      BY <1>0, <2>0, <2>2 DEF RunInv
    <3>. QED
      BY <1>0, <1>2, <2>0, <3>1
  <2>. QED
    BY <2>1, <2>2
<1>3. CASE FinishRoot
  BY <1>2, <1>3 DEF FinishRoot, Goto, Job
<1>4. ASSUME NEW t \in Task, TaskStep(t), ~BeginIndex(t) PROVE RunInv'
  BY <1>0, <1>2, <1>4, TaskMoves
<1>5. CASE UNCHANGED vars
  BY <1>5 DEF RunInv, vars
<1>. QED
  BY <1>0, <1>1, <1>3, <1>4, <1>5 DEF Next, RootStep, Terminated, Job

\* Of the steps only two touch the stored indexes and what is listed of them.
LEMMA CatalogMoves ==
    ASSUME NEW t \in Task, TaskStep(t)
    PROVE  \/ UNCHANGED <<indexed, catalog>> /\ pc[t] # "publish"
           \/ indexed' = indexed \cup {t} /\ catalog' = catalog /\ Goto(t, "publish") /\ pc[t] # "publish"
           \/ AddExternalIndex(t)
<1>1. ASSUME StartLookup(t) \/ CheckMapped(t) \/ LockRef(t) \/ FindComponentInRoot(t)
             \/ OpenCached(t) \/ OpenDenied(t)
             \/ OpenMiss(t) \/ ClaimFile(t) \/ WaiterReleased(t)
      PROVE  UNCHANGED <<indexed, catalog>> /\ pc[t] # "publish"
  BY <1>1 DEF StartLookup, CheckMapped, LocateRef, LockRef, FindComponentInRoot, OpenCached,
              OpenDenied, OpenMiss, ClaimFile, WaiterReleased
<1>2. ASSUME NEW o, ExtractFails(t, o) \/ ExtractFile(t, o)
      PROVE  UNCHANGED <<indexed, catalog>> /\ pc[t] # "publish"
  BY <1>2 DEF ExtractFails, ExtractFile
<1>3. ASSUME StoreFile(t) \/ ReleaseFile(t) \/ BeginIndex(t) \/ SignalIndexingComplete(t)
             \/ LoaderReturns(t) \/ LookupRolodex(t) \/ IndexingAwaited(t)
      PROVE  UNCHANGED <<indexed, catalog>> /\ pc[t] # "publish"
  BY <1>3 DEF StoreFile, ReleaseFile, BeginIndex, SignalIndexingComplete, LoaderReturns, LookupRolodex,
              IndexingAwaited
<1>4. ASSUME StoreIndex(t)
      PROVE  \/ UNCHANGED <<indexed, catalog>> /\ pc[t] # "publish"
             \/ indexed' = indexed \cup {t} /\ catalog' = catalog /\ Goto(t, "publish") /\ pc[t] # "publish"
  BY <1>4 DEF StoreIndex
<1>. QED
  BY <1>1, <1>2, <1>3, <1>4 DEF TaskStep

LEMMA CatalogStep == TypeOK /\ TreeInv /\ SignalInv /\ CatalogInv /\ [Next]_vars => CatalogInv'
<1>. SUFFICES ASSUME TypeOK, TreeInv, SignalInv, CatalogInv, [Next]_vars PROVE CatalogInv'
  OBVIOUS
<1>. USE TargetIsFile, NilIsNoJob
<1>0. None \notin Task /\ Task \subseteq Job
  BY DEF Job
<1>1. ASSUME NEW j \in Job, pc[j] # "publish",
             \A t \in Task : pc[t] = "publish" => pc'[t] = "publish",
             UNCHANGED <<indexed, catalog>>
      PROVE  CatalogInv'
  BY <1>1 DEF CatalogInv, TypeOK
<1>2. ASSUME NEW j \in Job, BeginIndex(j) PROVE CatalogInv'
  <2>1. \A k \in Children(j) : pc[k] = "idle"
    BY <1>2 DEF TreeInv, BeforeIndexing, Children, BeginIndex
  <2>2. \A t \in Task : pc[t] = "publish" => pc'[t] = "publish"
    BY <1>0, <1>2, <2>1 DEF BeginIndex, TypeOK
  <2>. QED
    BY <1>1, <1>2, <2>2 DEF BeginIndex
<1>3. CASE FinishRoot
  BY <1>0, <1>1, <1>3, TaskIsChain DEF FinishRoot, Goto, TypeOK, Job
<1>4. ASSUME NEW t \in Task, TaskStep(t), ~BeginIndex(t) PROVE CatalogInv'
  <2>0. PICK label : pc' = [pc EXCEPT ![t] = label]
    BY <1>4, TaskMoves
  <2>1. \A s \in Task : s # t => pc'[s] = pc[s]
    BY <1>0, <2>0 DEF TypeOK
  <2>2. CASE UNCHANGED <<indexed, catalog>> /\ pc[t] # "publish"
    BY <1>0, <1>1, <2>1, <2>2
  <2>3. CASE indexed' = indexed \cup {t} /\ catalog' = catalog /\ Goto(t, "publish") /\ pc[t] # "publish"
    <3>1. pc'[t] = "publish"
      BY <1>0, <2>3 DEF Goto, TypeOK
    <3>. QED
      BY <2>1, <2>3, <3>1 DEF CatalogInv, TypeOK
  <2>4. CASE AddExternalIndex(t)
    <3>1. /\ catalog' = [catalog EXCEPT ![Target(t)] = IF @ = None THEN t ELSE @]
          /\ indexed' = indexed /\ t \in indexed
      BY <2>4 DEF AddExternalIndex, SignalInv
    <3>2. \A f \in File : catalog'[f] = IF f = Target(t) /\ catalog[f] = None THEN t ELSE catalog[f]
      BY <3>1 DEF TypeOK
    <3>3. \A f \in File : catalog'[f] # None => catalog'[f] \in indexed' /\ Target(catalog'[f]) = f
      BY <3>1, <3>2 DEF CatalogInv
    <3>4. ASSUME NEW s \in indexed' PROVE pc'[s] = "publish" \/ catalog'[Target(s)] # None
      <4>1. CASE s = t
        BY <1>0, <3>2, <4>1
      <4>2. CASE s # t
        BY <1>0, <2>1, <3>1, <3>2, <4>2 DEF CatalogInv, TypeOK
      <4>. QED
        BY <4>1, <4>2
    <3>. QED
      BY <3>3, <3>4 DEF CatalogInv
  <2>. QED
    BY <1>4, <2>2, <2>3, <2>4, CatalogMoves
<1>5. CASE UNCHANGED vars
  BY <1>5 DEF CatalogInv, vars
<1>. QED
  BY <1>0, <1>2, <1>3, <1>4, <1>5 DEF Next, RootStep, Terminated, Job

PublishInv == IndInv /\ RunInv /\ CatalogInv

THEOREM PublishInvariance == Spec => []PublishInv
<1>1. Init => PublishInv
  <2>. SUFFICES ASSUME Init PROVE RunInv /\ CatalogInv
    BY IndInit DEF PublishInv
  <2>1. \A t \in Task : t \in Job /\ t # RootJob
    BY TaskIsChain DEF Job
  <2>. QED
    BY <2>1 DEF Init, RunInv, CatalogInv
<1>2. PublishInv /\ [Next]_vars => PublishInv'
  BY TypeStep, WaiterStep, LockStep, LocationStep, ContentStep, TreeStep, SignalStep, ChainStep,
     ResultStep, RunStep, CatalogStep DEF PublishInv, IndInv
<1>. QED
  BY <1>1, <1>2, PTL DEF Spec

\* A set of numbers has a least one.
LEMMA LeastNumber ==
    ASSUME NEW T, T \subseteq Nat, T # {}
    PROVE  \E n \in T : \A m \in T : n <= m
<1>. DEFINE Less == {p \in Nat \X Nat : p[1] < p[2]}
<1>1. Less = OpToRel(<, Nat)
  BY Zenon DEF OpToRel
<1>2. IsWellFoundedOn(Less, Nat)
  BY <1>1, NatLessThanWellFounded, Zenon
<1>3. PICK n \in T : \A m \in T : ~(<<m, n>> \in Less)
  <2>. HIDE DEF Less
  <2>. QED
    BY <1>2, WFMin
<1>4. ASSUME NEW m \in T PROVE ~(m < n)
  BY <1>3
<1>. QED
  BY <1>4

\* When the root document is indexed nothing runs any more: of the tasks that ran the
\* one with the shortest chain would have a parent that runs.
LEMMA NothingRunsInTheEnd ==
    ASSUME TypeOK, RunInv, pc[RootJob] = "done"
    PROVE  \A t \in Task : pc[t] \in {"idle", "done"}
<1>. DEFINE Run == {t \in Task : pc[t] \notin {"idle", "done"}}
            Lengths == {Len(t) : t \in Run}
<1>. SUFFICES ASSUME Run # {} PROVE FALSE
  OBVIOUS
<1>c. Cardinality(File) \in Nat
  BY ConstantsAssumption, FS_CardinalityType
<1>1. \A t \in Task : Len(t) \in Nat /\ Parent(t) \in Job /\ Len(Parent(t)) = Len(t) - 1
  BY <1>c, TaskIsChain, ParentIsJob, ParentIsPrefix
<1>2. Lengths \subseteq Nat /\ Lengths # {}
  BY <1>1
<1>3. PICK n \in Lengths : \A m \in Lengths : n <= m
  <2>. HIDE DEF Lengths
  <2>. QED
    BY <1>2, LeastNumber
<1>4. PICK t \in Run : Len(t) = n
  OBVIOUS
<1>5. pc[Parent(t)] = "indexing"
  BY <1>4 DEF RunInv
<1>6. Parent(t) \in Run /\ Len(Parent(t)) = n - 1
  BY <1>1, <1>4, <1>5 DEF Job
<1>. QED
  BY <1>1, <1>3, <1>4, <1>6

\* Every index that was stored is listed when the root document is indexed; what is
\* listed is never replaced, nor does a file leave the cache (AddExternalIndex, and
\* the Store into Files).
THEOREM PublishedStays == Spec => IndexesStayPublished
<1>1. PublishInv => AllAreListed
  <2>. SUFFICES ASSUME PublishInv, pc[RootJob] = "done", NEW t \in indexed
                PROVE  /\ catalog[Target(t)] \in indexed
                       /\ Target(catalog[Target(t)]) = Target(t)
    BY DEF AllAreListed
  <2>1. t \in Task /\ Target(t) \in File
    BY TargetIsFile DEF PublishInv, IndInv, TypeOK
  <2>2. pc[t] # "publish"
    BY <2>1, NothingRunsInTheEnd DEF PublishInv, IndInv
  <2>. QED
    BY <2>1, <2>2 DEF PublishInv, CatalogInv
<1>2. TypeOK /\ [Next]_vars => [NothingIsWithdrawn]_vars
  <2>. SUFFICES ASSUME TypeOK, Next PROVE NothingIsWithdrawn
    OBVIOUS
  <2>1. ASSUME NEW t \in Task, TaskStep(t)
        PROVE  \/ cache' = cache
               \/ cache' = [cache EXCEPT ![Target(t)] = t]
    BY <2>1 DEF TaskStep, StartLookup, CheckMapped, LockRef, FindComponentInRoot, OpenCached, OpenDenied, OpenMiss,
                ClaimFile, WaiterReleased, ExtractFails, ExtractFile, StoreFile, ReleaseFile, BeginIndex,
                StoreIndex, AddExternalIndex, SignalIndexingComplete, LoaderReturns, LookupRolodex,
                IndexingAwaited
  <2>2. ASSUME NEW t \in Task, TaskStep(t)
        PROVE  \/ catalog' = catalog
               \/ catalog' = [catalog EXCEPT ![Target(t)] = IF @ = None THEN t ELSE @]
    BY <2>2, CatalogMoves DEF AddExternalIndex
  <2>3. ASSUME NEW t \in Task, TaskStep(t), NEW f \in File
        PROVE  /\ cache[f] # None => cache'[f] # None
               /\ catalog[f] # None => catalog'[f] = catalog[f]
    BY <2>1, <2>2, <2>3, TargetIsFile, NilIsNoJob DEF TypeOK, Job
  <2>4. RootStep \/ UNCHANGED vars => UNCHANGED <<cache, catalog>>
    BY DEF RootStep, BeginIndex, FinishRoot, vars
  <2>. QED
    BY <2>3, <2>4 DEF Next, Terminated, NothingIsWithdrawn
<1>3. PublishInv => TypeOK
  BY DEF PublishInv, IndInv
<1>. QED
  BY <1>1, <1>2, <1>3, PublishInvariance, PTL DEF Spec, IndexesStayPublished
=============================================================================
