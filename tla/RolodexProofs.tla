--------------------------- MODULE RolodexProofs ----------------------------
(***************************************************************************)
(* Proofs about the two models of index/rolodex.go.                        *)
(*                                                                         *)
(* IndexTheRolodex, for every rolodex, whatever its file systems have read *)
(* and whatever is loaded on demand.  What is said of the fan-out needs    *)
(* file systems that are all of type RolodexFS.                            *)
(*                                                                         *)
(* What the rolodex reports of circular references, for every number of    *)
(* indexes and loops and every order of calls.                             *)
(***************************************************************************)
EXTENDS RolodexIndexing, RolodexCircular, FiniteSetTheorems, TLAPS

Gone == {s \in FileSystem : fs[s] = "gone"}

\* The count of the caller is that of the file systems that are done, and a
\* file system is done when its files are.
CollectInv ==
    /\ \A s \in FileSystem : fs[s] \in {"failing", "failed"} => s \in plain
    /\ plain = {} =>
        /\ completed = Cardinality(Gone)
        /\ \A s \in Gone : \A f \in Batch[s] : file[f] = "gone"
        /\ \A f \in Ready : file[f] = "gone" => f \in queue
        /\ caller # "collect" => queue = Ready /\ Gone = FileSystem

\* What is listed is built, or is still to be built by the caller.
BuildInv ==
    /\ loaded \subseteq built
    /\ indexes \subseteq loaded \cup queue
    /\ built \subseteq loaded \cup queue
    /\ caller = "collect" => built \cap queue = {}
    /\ avoidCheck \/ queue \cap built \subseteq checked
    /\ caller \in {"root", "returned"} => queue \subseteq built

IndexingInv == TypeOK /\ CollectInv /\ BuildInv

-----------------------------------------------------------------------------
LEMMA GoneIsFinite ==
    /\ IsFiniteSet(Gone) /\ Cardinality(Gone) \in Nat
    /\ Cardinality(Gone) = Total => Gone = FileSystem
<1>1. IsFiniteSet(Gone) /\ IsFiniteSet(FileSystem) /\ Gone \subseteq FileSystem
    BY IndexingAssumption, FS_Subset DEF Gone
<1>2. Cardinality(Gone) \in Nat
    BY <1>1, FS_CardinalityType
<1>3. Cardinality(Gone) = Cardinality(FileSystem) => Gone = FileSystem
    BY <1>1, FS_Subset
<1>. QED
    BY <1>1, <1>2, <1>3 DEF Total

LEMMA IndexingInitInv == Init => IndexingInv
<1>. SUFFICES ASSUME Init PROVE IndexingInv
    OBVIOUS
<1>1. Total \in Nat
    BY IndexingAssumption, FS_CardinalityType DEF Total
<1>2. TypeOK
    BY <1>1 DEF Init, TypeOK
<1>3. Gone = {}
    BY DEF Init, Gone
<1>4. CollectInv
    BY <1>3, FS_EmptySet DEF Init, CollectInv
<1>5. BuildInv
    BY DEF Init, BuildInv
<1>. QED
    BY <1>2, <1>4, <1>5 DEF IndexingInv

LEMMA IndexingStepInv ==
    ASSUME IndexingInv, [Next]_vars
    PROVE  IndexingInv'
<1>. USE IndexingAssumption DEF IndexingInv, TypeOK, phases, rolodex
<1>0. Total \in Nat
    BY FS_CardinalityType DEF Total
<1>1. ASSUME NEW s \in FileSystem, StartFS(s)
      PROVE  IndexingInv'
  <2>1. Gone' = Gone
    BY <1>1 DEF StartFS, Gone
  <2>2. \A t \in Gone : \A f \in Batch[t] : f \in Ready /\ f \notin Batch[s]
    BY <1>1 DEF StartFS, Gone, Ready
  <2>3. CollectInv'
    BY <1>1, <2>1, <2>2 DEF StartFS, CollectInv
  <2>. QED
    BY <1>1, <2>3 DEF StartFS, BuildInv
<1>2. ASSUME NEW f \in Ready, LoadLazy(f)
      PROVE  IndexingInv'
  <2>1. Gone' = Gone
    BY <1>2 DEF LoadLazy, Gone
  <2>2. CollectInv'
    BY <1>2, <2>1 DEF LoadLazy, CollectInv
  <2>3. PICK x \in Lazy[f] : Load(x)
    BY <1>2 DEF LoadLazy
  <2>4. x \in File \ Ready
    OBVIOUS
  <2>. QED
    BY <1>2, <2>2, <2>3, <2>4 DEF LoadLazy, Load, BuildInv
<1>3. ASSUME NEW f \in Ready, Indexed(f)
      PROVE  IndexingInv'
  <2>1. Gone' = Gone
    BY <1>3 DEF Indexed, Gone
  <2>2. CollectInv'
    BY <1>3, <2>1 DEF Indexed, CollectInv, Gone, Ready
  <2>. QED
    BY <1>3, <2>2 DEF Indexed, BuildInv
<1>4. ASSUME NEW f \in Ready, SendIndex(f)
      PROVE  IndexingInv'
  <2>1. Gone' = Gone
    BY <1>4 DEF SendIndex, Gone
  <2>2. CollectInv'
    BY <1>4, <2>1 DEF SendIndex, Collecting, CollectInv, Gone, Ready
  <2>3. built \cap queue' = {}
    BY <1>4 DEF SendIndex, Collecting, BuildInv, CollectInv
  <2>. QED
    BY <1>4, <2>2, <2>3 DEF SendIndex, Collecting, BuildInv
<1>5. ASSUME NEW s \in FileSystem, SendDone(s)
      PROVE  IndexingInv'
  <2>1. Gone' = Gone \cup {s} /\ s \notin Gone
    BY <1>5 DEF SendDone, Gone
  <2>2. ASSUME plain = {}
        PROVE  Cardinality(Gone') = completed + 1
    <3>1. completed = Cardinality(Gone)
      BY <2>2 DEF CollectInv
    <3>2. IsFiniteSet(Gone)
      BY GoneIsFinite
    <3>3. Cardinality(Gone \cup {s}) = Cardinality(Gone) + 1
      BY ONLY <2>1, <3>2, FS_AddElement
    <3>. QED
      BY ONLY <2>1, <3>1, <3>3
  <2>3. CollectInv'
    BY <1>5, <2>1, <2>2 DEF SendDone, Collecting, CollectInv
  <2>4. completed' \in 0..Total
    BY <1>0, <1>5 DEF SendDone, Collecting
  <2>. QED
    BY <1>5, <2>3, <2>4 DEF SendDone, BuildInv
<1>6. ASSUME NEW s \in FileSystem, SendError(s) \/ SendFailedDone(s)
      PROVE  IndexingInv'
  <2>1. plain # {} /\ plain' = plain
    BY <1>6 DEF SendError, SendFailedDone, CollectInv
  <2>2. TypeOK'
    BY <1>0, <1>6 DEF SendError, SendFailedDone, Collecting, CollectInv
  <2>3. BuildInv'
    BY <1>6 DEF SendError, SendFailedDone, BuildInv
  <2>. QED
    BY <1>6, <2>1, <2>2, <2>3 DEF SendError, SendFailedDone, CollectInv
<1>7. CASE Collected
  <2>1. Gone' = Gone
    BY <1>7 DEF Collected, Gone
  <2>2. plain = {} => Gone = FileSystem
    BY <1>7, GoneIsFinite DEF Collected, CollectInv
  <2>3. plain = {} => \A f \in Ready : f \in queue
    BY <2>2 DEF CollectInv, Ready
  <2>4. CollectInv'
    BY <1>7, <2>1, <2>2, <2>3 DEF Collected, CollectInv
  <2>5. indexes' \subseteq File
    BY <1>7 DEF Collected, Ready
  <2>. QED
    BY <1>7, <2>4, <2>5 DEF Collected, BuildInv
<1>8. CASE Build
  <2>1. Gone' = Gone
    BY <1>8 DEF Build, Gone
  <2>2. CollectInv'
    BY <1>8, <2>1 DEF Build, CollectInv
  <2>3. PICK f \in queue \ built : built' = built \cup {f} /\ Check(f)
    BY <1>8 DEF Build
  <2>4. f \in File
    BY DEF Ready
  <2>. QED
    BY <1>8, <2>2, <2>3, <2>4 DEF Build, Check, BuildInv
<1>9. CASE StartRoot
  <2>1. Gone' = Gone
    BY <1>9 DEF StartRoot, Gone
  <2>. QED
    BY <1>9, <2>1 DEF StartRoot, CollectInv, BuildInv
<1>10. CASE LoadForRoot
  <2>1. Gone' = Gone
    BY <1>10 DEF LoadForRoot, Gone
  <2>2. CollectInv'
    BY <1>10, <2>1 DEF LoadForRoot, CollectInv
  <2>3. PICK x \in RootLazy : Load(x)
    BY <1>10 DEF LoadForRoot
  <2>. QED
    BY <1>10, <2>2, <2>3 DEF LoadForRoot, Load, BuildInv
<1>11. CASE Return
  <2>1. Gone' = Gone
    BY <1>11 DEF Return, Gone
  <2>. QED
    BY <1>11, <2>1 DEF Return, CollectInv, BuildInv
<1>12. CASE UNCHANGED vars
  <2>1. Gone' = Gone
    BY <1>12 DEF vars, Gone
  <2>. QED
    BY <1>12, <2>1 DEF vars, CollectInv, BuildInv
<1>. QED
    BY <1>1, <1>2, <1>3, <1>4, <1>5, <1>6, <1>7, <1>8, <1>9, <1>10, <1>11, <1>12
    DEF Next, FSStep, FileStep, CallerStep, Again

THEOREM IndexingInvariance == Safety => []IndexingInv
<1>1. IndexingInv /\ [Next]_vars => IndexingInv'
    BY IndexingStepInv
<1>. QED
    BY <1>1, IndexingInitInv, PTL DEF Safety

\* Every variable keeps its type.
THEOREM IndexingTypeCorrect == Safety => []TypeOK
<1>1. IndexingInv => TypeOK
    BY DEF IndexingInv
<1>. QED
    BY <1>1, IndexingInvariance, PTL

\* Nothing is built before every file that was read in advance is indexed.
THEOREM BuildWaitsForAll == Safety => []AllFilesIndexed
<1>1. IndexingInv => AllFilesIndexed
    BY DEF IndexingInv, CollectInv, AllFilesIndexed, EveryFileIndexed
<1>. QED
    BY <1>1, IndexingInvariance, PTL

\* On return everything listed is built and checked, and no goroutine is left.
THEOREM NothingIsLeftOut == Safety => []ReturnsComplete
<1>1. IndexingInv => ReturnsComplete
    BY DEF IndexingInv, CollectInv, BuildInv, Gone, ReturnsComplete
<1>. QED
    BY <1>1, IndexingInvariance, PTL

-----------------------------------------------------------------------------
(* IndexTheRolodex comes to an end but for the scheduler: until it returns,  *)
(* the caller or one of its goroutines can go on, and whatever is done       *)
(* leaves less to do.  Here the file systems are of either kind.             *)

FSCan(s) ==
    \/ fs[s] = "start"
    \/ /\ Collecting
       /\ \/ fs[s] \in {"failing", "failed"}
          \/ fs[s] = "waiting" /\ \A f \in Batch[s] : file[f] = "gone"
FileCan(f) == file[f] = "indexing" \/ (file[f] = "sending" /\ Collecting)
CallerCan == caller \in {"build", "root"} \/ (caller = "collect" /\ completed = Total)

\* Nobody waits for one who waits: until the call has returned, its caller or
\* one of its goroutines is not blocked on a channel or a wait group.
IndexingNotStuck ==
    \/ caller = "returned" \/ CallerCan
    \/ \E s \in FileSystem : FSCan(s)
    \/ \E f \in Ready : FileCan(f)

\* The caller has counted every file system that is done, and the goroutines
\* of the files of a file system are started with it.
CountInv ==
    /\ Cardinality(Gone) <= completed
    /\ \A s \in FileSystem :
        /\ fs[s] = "start" => \A f \in Batch[s] : file[f] = "none"
        /\ fs[s] = "waiting" => \A f \in Batch[s] : file[f] # "none"

\* What a goroutine of a file system does to the count of those done.
LEMMA GoneGrows ==
    ASSUME IndexingInv, NEW s \in FileSystem, fs[s] # "gone", NEW at,
           fs' = [fs EXCEPT ![s] = at]
    PROVE  Cardinality(Gone') = IF at = "gone" THEN Cardinality(Gone) + 1 ELSE Cardinality(Gone)
<1>1. Gone' = (IF at = "gone" THEN Gone \cup {s} ELSE Gone) /\ s \notin Gone
    BY DEF Gone, IndexingInv, TypeOK
<1>. QED
    BY <1>1, GoneIsFinite, FS_AddElement

\* The count keeps up with the file systems, whatever step is taken.
LEMMA CountStep == IndexingInv /\ CountInv /\ [Next]_vars => CountInv'
<1>. SUFFICES ASSUME IndexingInv, CountInv, [Next]_vars PROVE CountInv'
    OBVIOUS
<1>. USE DEF phases, rolodex
<1>0. completed \in Nat /\ Cardinality(Gone) \in Nat /\ Cardinality(Gone) <= completed
    BY GoneIsFinite, IndexingAssumption, FS_CardinalityType DEF CountInv, IndexingInv, TypeOK, Total
<1>1. ASSUME NEW s \in FileSystem, StartFS(s)
      PROVE  CountInv'
  <2>1. Gone' = Gone
    BY <1>1 DEF StartFS, Gone, IndexingInv, TypeOK
  <2>2. \A t \in FileSystem \ {s} : \A f \in Batch[t] : f \in Ready /\ f \notin Batch[s]
    BY IndexingAssumption DEF Ready
  <2>. QED
    BY <1>1, <2>1, <2>2, IndexingAssumption DEF StartFS, CountInv, IndexingInv, TypeOK, Ready
<1>2. ASSUME NEW f \in Ready, FileStep(f)
      PROVE  CountInv'
  <2>1. Gone' = Gone /\ fs' = fs /\ completed' = completed
    BY <1>2 DEF FileStep, LoadLazy, Indexed, SendIndex, Gone
  <2>2. \A s \in FileSystem : \A g \in Batch[s] : g \in Ready
    BY DEF Ready
  <2>3. file[f] # "none" /\ \A g \in Ready : (file'[g] = "none") = (file[g] = "none")
    BY <1>2 DEF FileStep, LoadLazy, Indexed, SendIndex, IndexingInv, TypeOK
  <2>. QED
    BY <2>1, <2>2, <2>3 DEF CountInv
<1>3. ASSUME NEW s \in FileSystem, SendDone(s) \/ SendError(s) \/ SendFailedDone(s)
      PROVE  CountInv'
  <2>1. /\ completed' = completed + 1 /\ file' = file /\ fs[s] # "gone"
        /\ fs' = [fs EXCEPT ![s] = "gone"] \/ fs' = [fs EXCEPT ![s] = "failed"]
    BY <1>3 DEF SendDone, SendError, SendFailedDone
  <2>2. Cardinality(Gone') \in {Cardinality(Gone), Cardinality(Gone) + 1}
    BY <2>1, GoneGrows
  <2>3. Cardinality(Gone') <= completed'
    BY <1>0, <2>1, <2>2
  <2>. QED
    BY <2>1, <2>3 DEF CountInv, IndexingInv, TypeOK
<1>4. CASE CallerStep \/ UNCHANGED vars
  BY <1>4 DEF CallerStep, Collected, Build, StartRoot, LoadForRoot, Return, vars, CountInv, Gone
<1>. QED
    BY <1>1, <1>2, <1>3, <1>4 DEF Next, FSStep, Again

LEMMA CountInit == Init => CountInv
<1>. SUFFICES ASSUME Init PROVE CountInv
    OBVIOUS
<1>1. Gone = {} /\ \A s \in FileSystem : \A f \in Batch[s] : f \in Ready
    BY DEF Init, Gone, Ready
<1>. QED
    BY <1>1, FS_EmptySet DEF Init, CountInv

\* The caller, the file systems and the files never all wait for one another,
\* whatever the file systems are and have read.
THEOREM IndexingIsNeverStuck == Safety => []IndexingNotStuck
<1>1. IndexingInv /\ CountInv => IndexingNotStuck
  <2>. SUFFICES ASSUME IndexingInv, CountInv, caller # "returned", ~CallerCan,
                       \A s \in FileSystem : ~FSCan(s), \A f \in Ready : ~FileCan(f)
                PROVE  FALSE
    BY DEF IndexingNotStuck
  <2>1. Total \in Nat /\ Cardinality(Gone) \in Nat
    BY GoneIsFinite, IndexingAssumption, FS_CardinalityType DEF Total
  <2>2. Collecting
    BY <2>1 DEF CallerCan, Collecting, IndexingInv, TypeOK
  <2>3. Gone # FileSystem
    BY <2>1, <2>2 DEF CountInv, Collecting, IndexingInv, TypeOK, Total
  <2>4. PICK s \in FileSystem : fs[s] # "gone"
    BY <2>3 DEF Gone
  <2>5. fs[s] = "waiting"
    BY <2>2, <2>4 DEF FSCan, IndexingInv, TypeOK
  <2>6. PICK f \in Batch[s] : file[f] # "gone" /\ file[f] # "none"
    BY <2>2, <2>5 DEF FSCan, CountInv
  <2>7. f \in Ready
    BY DEF Ready
  <2>. QED
    BY <2>2, <2>6, <2>7 DEF FileCan, IndexingInv, TypeOK
<1>. QED
    BY <1>1, CountInit, CountStep, IndexingInitInv, IndexingStepInv, PTL DEF Safety

\* What is still to be done: file systems are started, waited for and done,
\* files are indexed and their indexes sent, documents are loaded on demand,
\* indexes are built and the caller goes on.
FSIn(states) == {s \in FileSystem : fs[s] \in states}
FileIn(states) == {f \in Ready : file[f] \in states}
ToServe ==
    Cardinality(FSIn({"start"})) + Cardinality(FSIn({"start", "waiting", "failing"}))
        + Cardinality(FSIn({"start", "waiting", "failing", "failed"}))
ToIndex ==
    Cardinality(FileIn({"none", "indexing"})) + Cardinality(FileIn({"none", "indexing", "sending"}))
ToLoad == Cardinality((File \ Ready) \ loaded)
ToBuild == Cardinality(Ready \ built)
ToReturn ==
    CASE caller = "collect" -> 3
      [] caller = "build" -> 2
      [] caller = "root" -> 1
      [] OTHER -> 0
IndexingWork == ToServe + ToIndex + ToLoad + ToBuild + ToReturn
LeavesLess == IndexingWork \in Nat /\ IndexingWork' < IndexingWork

LEMMA ReadyIsFinite == Ready \subseteq File /\ IsFiniteSet(Ready) /\ IsFiniteSet(File \ Ready)
<1>1. Ready \subseteq File
    BY IndexingAssumption DEF Ready
<1>. QED
    BY <1>1, IndexingAssumption, FS_Subset

\* What is counted are numbers, and one less is one less.
LEMMA CountsAreNat ==
    /\ \A states : IsFiniteSet(FSIn(states)) /\ Cardinality(FSIn(states)) \in Nat
    /\ \A states : IsFiniteSet(FileIn(states)) /\ Cardinality(FileIn(states)) \in Nat
    /\ IsFiniteSet((File \ Ready) \ loaded) /\ ToLoad \in Nat
    /\ IsFiniteSet(Ready \ built) /\ ToBuild \in Nat
    /\ ToServe \in Nat /\ ToIndex \in Nat /\ ToReturn \in Nat
<1>1. \A states : IsFiniteSet(FSIn(states)) /\ Cardinality(FSIn(states)) \in Nat
  <2>. SUFFICES ASSUME NEW states
                PROVE  IsFiniteSet(FSIn(states)) /\ Cardinality(FSIn(states)) \in Nat
    OBVIOUS
  <2>1. FSIn(states) \subseteq FileSystem
    BY DEF FSIn
  <2>. QED
    BY <2>1, IndexingAssumption, FS_Subset, FS_CardinalityType
<1>2. \A states : IsFiniteSet(FileIn(states)) /\ Cardinality(FileIn(states)) \in Nat
  <2>. SUFFICES ASSUME NEW states
                PROVE  IsFiniteSet(FileIn(states)) /\ Cardinality(FileIn(states)) \in Nat
    OBVIOUS
  <2>1. FileIn(states) \subseteq Ready
    BY DEF FileIn
  <2>. QED
    BY <2>1, ReadyIsFinite, FS_Subset, FS_CardinalityType
<1>3. IsFiniteSet((File \ Ready) \ loaded) /\ IsFiniteSet(Ready \ built)
    BY ReadyIsFinite, FS_Subset
<1>4. ToLoad \in Nat /\ ToBuild \in Nat
    BY <1>3, FS_CardinalityType DEF ToLoad, ToBuild
<1>. QED
    BY <1>1, <1>2, <1>3, <1>4 DEF ToServe, ToIndex, ToReturn

LEMMA OneMoreOneLess ==
    ASSUME NEW S, IsFiniteSet(S), NEW x
    PROVE  /\ Cardinality(S \cup {x}) = Cardinality(S) + (IF x \in S THEN 0 ELSE 1)
           /\ Cardinality(S \ {x}) = Cardinality(S) - (IF x \in S THEN 1 ELSE 0)
<1>1. Cardinality(S) \in Nat
    BY FS_CardinalityType
<1>2. /\ Cardinality(S \cup {x}) = IF x \in S THEN Cardinality(S) ELSE Cardinality(S) + 1
      /\ Cardinality(S \ {x}) = IF x \in S THEN Cardinality(S) - 1 ELSE Cardinality(S)
    BY ONLY IsFiniteSet(S), FS_AddElement, FS_RemoveElement
<1>. QED
    BY ONLY <1>1, <1>2

\* A goroutine of a file system or of a file leaves a state for another.
LEMMA FSMoves ==
    ASSUME IndexingInv, NEW s \in FileSystem, NEW at, fs' = [fs EXCEPT ![s] = at], NEW states
    PROVE  Cardinality(FSIn(states)') =
              Cardinality(FSIn(states)) + (IF at \in states THEN 1 ELSE 0)
                                        - (IF fs[s] \in states THEN 1 ELSE 0)
<1>1. FSIn(states)' = IF at \in states THEN FSIn(states) \cup {s} ELSE FSIn(states) \ {s}
    BY DEF FSIn, IndexingInv, TypeOK
<1>2. (s \in FSIn(states)) = (fs[s] \in states)
    BY DEF FSIn
<1>3. IsFiniteSet(FSIn(states)) /\ Cardinality(FSIn(states)) \in Nat
    BY CountsAreNat
<1>4. /\ Cardinality(FSIn(states) \cup {s}) =
            Cardinality(FSIn(states)) + (IF fs[s] \in states THEN 0 ELSE 1)
      /\ Cardinality(FSIn(states) \ {s}) =
            Cardinality(FSIn(states)) - (IF fs[s] \in states THEN 1 ELSE 0)
    BY <1>2, <1>3, OneMoreOneLess
<1>. QED
    BY <1>1, <1>3, <1>4

LEMMA FileMoves ==
    ASSUME IndexingInv, NEW f \in Ready, NEW at, file' = [file EXCEPT ![f] = at], NEW states
    PROVE  Cardinality(FileIn(states)') =
              Cardinality(FileIn(states)) + (IF at \in states THEN 1 ELSE 0)
                                          - (IF file[f] \in states THEN 1 ELSE 0)
<1>1. FileIn(states)' = IF at \in states THEN FileIn(states) \cup {f} ELSE FileIn(states) \ {f}
    BY DEF FileIn, IndexingInv, TypeOK
<1>2. (f \in FileIn(states)) = (file[f] \in states)
    BY DEF FileIn
<1>3. IsFiniteSet(FileIn(states)) /\ Cardinality(FileIn(states)) \in Nat
    BY CountsAreNat
<1>4. /\ Cardinality(FileIn(states) \cup {f}) =
            Cardinality(FileIn(states)) + (IF file[f] \in states THEN 0 ELSE 1)
      /\ Cardinality(FileIn(states) \ {f}) =
            Cardinality(FileIn(states)) - (IF file[f] \in states THEN 1 ELSE 0)
    BY <1>2, <1>3, OneMoreOneLess
<1>. QED
    BY <1>1, <1>3, <1>4

\* A document that is loaded on demand is one that was not loaded.
LEMMA LoadCounts ==
    ASSUME IndexingInv, NEW x \in File \ Ready, Load(x)
    PROVE  ToLoad' = ToLoad - 1 /\ ToBuild' = ToBuild
<1>1. (File \ Ready) \ loaded' = ((File \ Ready) \ loaded) \ {x} /\ x \in (File \ Ready) \ loaded
    BY DEF Load
<1>2. Ready \ built' = Ready \ built
    BY DEF Load
<1>3. Cardinality(((File \ Ready) \ loaded) \ {x}) = Cardinality((File \ Ready) \ loaded) - 1
    BY <1>1, CountsAreNat, FS_RemoveElement
<1>. QED
    BY <1>1, <1>2, <1>3 DEF ToLoad, ToBuild

\* Every step of IndexTheRolodex does a part of its work and none is done
\* twice: a call takes three steps for a file system, three for a file it has
\* read, one for a document that is loaded on demand and three more at most.
THEOREM IndexingWorksOff ==
    Safety =>
        /\ IndexingWork = 3 * Total + 3 * Cardinality(Ready) + Cardinality(File \ Ready) + 3
        /\ [][LeavesLess]_vars
<1>1. ASSUME IndexingInv, IndexingInv', CountInv, [Next]_vars
      PROVE  [LeavesLess]_vars
  <2>. USE DEF phases, rolodex
  <2>1. /\ ToServe \in Nat /\ ToIndex \in Nat /\ ToLoad \in Nat /\ ToBuild \in Nat
        /\ ToReturn \in Nat
    BY CountsAreNat
  <2>2. \A states : Cardinality(FSIn(states)) \in Nat /\ Cardinality(FileIn(states)) \in Nat
    BY CountsAreNat
  <2>3. UNCHANGED fs => ToServe' = ToServe
    BY DEF ToServe, FSIn
  <2>4. UNCHANGED file => ToIndex' = ToIndex
    BY DEF ToIndex, FileIn
  <2>5. /\ UNCHANGED loaded => ToLoad' = ToLoad
        /\ UNCHANGED built => ToBuild' = ToBuild
        /\ UNCHANGED caller => ToReturn' = ToReturn
    BY DEF ToLoad, ToBuild, ToReturn
  <2>6. ASSUME NEW s \in FileSystem, FSStep(s)
        PROVE  IndexingWork' < IndexingWork
    <3>1. ToLoad' = ToLoad /\ ToBuild' = ToBuild /\ ToReturn' = ToReturn
      BY <2>5, <2>6 DEF FSStep, StartFS, SendDone, SendError, SendFailedDone
    <3>2. ToIndex' = ToIndex
      <4>1. CASE StartFS(s)
        <5>1. \A f \in Ready : f \in Batch[s] => file[f] = "none"
          BY <1>1, <4>1 DEF StartFS, CountInv
        <5>2. /\ FileIn({"none", "indexing"})' = FileIn({"none", "indexing"})
              /\ FileIn({"none", "indexing", "sending"})' = FileIn({"none", "indexing", "sending"})
          BY <4>1, <5>1 DEF StartFS, FileIn
        <5>. QED
          BY <5>2 DEF ToIndex
      <4>. QED
        BY <2>4, <2>6, <4>1 DEF FSStep, SendDone, SendError, SendFailedDone
    <3>3. ToServe' = ToServe - 1 \/ ToServe' = ToServe - 2
      <4>1. PICK at \in {"waiting", "failing", "failed", "gone"} :
               fs' = [fs EXCEPT ![s] = at]
        BY <2>6 DEF FSStep, StartFS, SendDone, SendError, SendFailedDone
      <4>2. \/ fs[s] = "start" /\ at \in {"waiting", "failing"}
            \/ fs[s] = "failing" /\ at = "failed"
            \/ fs[s] \in {"waiting", "failed"} /\ at = "gone"
        BY <1>1, <2>6, <4>1 DEF FSStep, StartFS, SendDone, SendError, SendFailedDone,
           IndexingInv, TypeOK
      <4>3. \A states :
               Cardinality(FSIn(states)') =
                  Cardinality(FSIn(states)) + (IF at \in states THEN 1 ELSE 0)
                                            - (IF fs[s] \in states THEN 1 ELSE 0)
        BY <1>1, <4>1, FSMoves
      <4>. QED
        BY <2>2, <4>2, <4>3 DEF ToServe
    <3>. QED
      BY <2>1, <3>1, <3>2, <3>3 DEF IndexingWork
  <2>7. ASSUME NEW f \in Ready, FileStep(f)
        PROVE  IndexingWork' < IndexingWork
    <3>1. ToServe' = ToServe /\ ToReturn' = ToReturn
      BY <2>3, <2>5, <2>7 DEF FileStep, LoadLazy, Indexed, SendIndex
    <3>2. CASE LoadLazy(f)
      <4>1. ToLoad' = ToLoad - 1 /\ ToBuild' = ToBuild
        BY <1>1, <3>2, LoadCounts, IndexingAssumption DEF LoadLazy
      <4>2. ToIndex' = ToIndex
        BY <2>4, <3>2 DEF LoadLazy
      <4>. QED
        BY <2>1, <3>1, <4>1, <4>2 DEF IndexingWork
    <3>3. CASE Indexed(f) \/ SendIndex(f)
      <4>1. ToLoad' = ToLoad /\ ToBuild' = ToBuild
        BY <2>5, <3>3 DEF Indexed, SendIndex
      <4>2. PICK at : /\ file' = [file EXCEPT ![f] = at]
                      /\ \/ file[f] = "indexing" /\ at = "sending"
                         \/ file[f] = "sending" /\ at = "gone"
        BY <3>3 DEF Indexed, SendIndex
      <4>3. \A states :
               Cardinality(FileIn(states)') =
                  Cardinality(FileIn(states)) + (IF at \in states THEN 1 ELSE 0)
                                              - (IF file[f] \in states THEN 1 ELSE 0)
        BY <1>1, <4>2, FileMoves
      <4>4. ToIndex' = ToIndex - 1
        BY <2>2, <4>2, <4>3 DEF ToIndex
      <4>. QED
        BY <2>1, <3>1, <4>1, <4>4 DEF IndexingWork
    <3>. QED
      BY <2>7, <3>2, <3>3 DEF FileStep
  <2>8. ASSUME CallerStep
        PROVE  IndexingWork' < IndexingWork
    <3>1. ToServe' = ToServe /\ ToIndex' = ToIndex
      BY <2>3, <2>4, <2>8 DEF CallerStep, Collected, Build, StartRoot, LoadForRoot, Return
    <3>2. CASE Collected \/ StartRoot \/ Return
      <4>1. ToReturn' = ToReturn - 1 /\ ToLoad' = ToLoad /\ ToBuild' = ToBuild
        BY <2>5, <3>2 DEF Collected, StartRoot, Return, ToReturn
      <4>. QED
        BY <2>1, <3>1, <4>1 DEF IndexingWork
    <3>3. CASE Build
      <4>1. PICK f \in queue \ built : built' = built \cup {f}
        BY <3>3 DEF Build
      <4>2. Ready \ built' = (Ready \ built) \ {f} /\ f \in Ready \ built
        BY <1>1, <4>1 DEF IndexingInv, TypeOK
      <4>3. ToBuild' = ToBuild - 1
        BY <4>2, CountsAreNat, FS_RemoveElement DEF ToBuild
      <4>4. ToLoad' = ToLoad /\ ToReturn' = ToReturn
        BY <2>5, <3>3 DEF Build
      <4>. QED
        BY <2>1, <3>1, <4>3, <4>4 DEF IndexingWork
    <3>4. CASE LoadForRoot
      <4>1. ToLoad' = ToLoad - 1 /\ ToBuild' = ToBuild
        BY <1>1, <3>4, LoadCounts, IndexingAssumption DEF LoadForRoot
      <4>2. ToReturn' = ToReturn
        BY <2>5, <3>4 DEF LoadForRoot
      <4>. QED
        BY <2>1, <3>1, <4>1, <4>2 DEF IndexingWork
    <3>. QED
      BY <2>8, <3>2, <3>3, <3>4 DEF CallerStep
  <2>9. IndexingWork \in Nat
    BY <2>1 DEF IndexingWork
  <2>. QED
    BY <1>1, <2>6, <2>7, <2>8, <2>9 DEF Next, Again, LeavesLess
<1>2. ASSUME Init
      PROVE  IndexingWork = 3 * Total + 3 * Cardinality(Ready) + Cardinality(File \ Ready) + 3
  <2>1. /\ FSIn({"start"}) = FileSystem
        /\ FSIn({"start", "waiting", "failing"}) = FileSystem
        /\ FSIn({"start", "waiting", "failing", "failed"}) = FileSystem
    BY <1>2 DEF Init, FSIn
  <2>2. /\ FileIn({"none", "indexing"}) = Ready
        /\ FileIn({"none", "indexing", "sending"}) = Ready
    BY <1>2 DEF Init, FileIn
  <2>3. /\ Cardinality(FileSystem) \in Nat /\ Cardinality(Ready) \in Nat
        /\ Cardinality(File \ Ready) \in Nat
    BY ReadyIsFinite, IndexingAssumption, FS_CardinalityType
  <2>4. (File \ Ready) \ loaded = File \ Ready /\ Ready \ built = Ready /\ ToReturn = 3
    BY <1>2 DEF Init, ToReturn
  <2>5. ToServe = 3 * Total /\ ToIndex = 2 * Cardinality(Ready)
    BY <2>1, <2>2, <2>3 DEF ToServe, ToIndex, Total
  <2>6. ToLoad = Cardinality(File \ Ready) /\ ToBuild = Cardinality(Ready)
    BY <2>4 DEF ToLoad, ToBuild
  <2>. QED
    BY <2>3, <2>4, <2>5, <2>6 DEF IndexingWork, Total
<1>. QED
    BY <1>1, <1>2, CountInit, CountStep, IndexingInitInv, IndexingStepInv, PTL DEF Safety

-----------------------------------------------------------------------------
(* Circular references. *)

USE CircularAssumption DEF document

\* What is gathered covers what is found.  Of the safe loops that needs the
\* check to be left to CheckForCircularReferences.
Covers ==
    /\ FoundIn(found, Index, "ignored") \subseteq ignoredRefs
    /\ FoundIn(found, Index, "infinite") \subseteq caughtErrors
    /\ checkLater => FoundIn(found, Index, "safe") \subseteq safeRefs

\* A cached answer covers what is found too.
CachesCover ==
    /\ ignoredCache # NoCache => FoundIn(found, Index, "ignored") \subseteq ignoredCache
    /\ checkLater /\ safeCache # NoCache => FoundIn(found, Index, "safe") \subseteq safeCache

\* Only a visit finds anything, and nothing is ignored before the rolodex is
\* indexed.
FoundByVisits ==
    /\ \A i \in Index \ visited : found[i] = {}
    /\ ~indexed => ignoredRefs = {} /\ ignoredCache = NoCache

CircularInv == CircularTypeOK /\ Covers /\ CachesCover /\ FoundByVisits

\* What is found of a class, by everyone, after a visit of set: what was
\* found before and what set has found.
LEMMA VisitFinds ==
    ASSUME CircularTypeOK, FoundByVisits, NEW set \in SUBSET Index, Visit(set),
           NEW class
    PROVE  /\ found' \in [Index -> SUBSET Loop]
           /\ visited' \subseteq Index
           /\ \A i \in Index \ visited' : found'[i] = {}
           /\ FoundIn(found', Index, class) \subseteq
                 FoundIn(found, Index, class) \cup FoundIn(found', set, class)
  <1>1. PICK seen \in [set \ visited -> SUBSET Loop] :
           found' = [i \in Index |-> IF i \in set \ visited THEN seen[i] ELSE found[i]]
    BY DEF Visit
  <1>2. found' \in [Index -> SUBSET Loop]
    BY <1>1 DEF CircularTypeOK
  <1>3. visited' = visited \cup set /\ visited' \subseteq Index
    BY DEF Visit, CircularTypeOK
  <1>4. \A i \in Index \ visited' : found'[i] = {}
    BY <1>1, <1>3 DEF FoundByVisits
  <1>5. FoundIn(found', Index, class) \subseteq
           FoundIn(found, Index, class) \cup FoundIn(found', set, class)
    BY <1>1 DEF FoundIn
  <1> QED BY <1>2, <1>3, <1>4, <1>5

\* When every resolver outside set has found nothing, set has found it all.
LEMMA VisitFindsAll ==
    ASSUME NEW rec, NEW set \in SUBSET Index, NEW class,
           \A i \in Index \ set : rec[i] = {}
    PROVE  FoundIn(rec, Index, class) = FoundIn(rec, set, class)
  BY DEF FoundIn

LEMMA FoundAreLoops ==
    ASSUME NEW rec \in [Index -> SUBSET Loop], NEW set \in SUBSET Index, NEW class
    PROVE  FoundIn(rec, set, class) \subseteq Loop
  BY DEF FoundIn

LEMMA GatherKeeps ==
    ASSUME CircularInv, indexed, NEW set \in SUBSET Index, Gather(set),
           UNCHANGED checkLater
    PROVE  /\ found' \in [Index -> SUBSET Loop]
           /\ visited' \subseteq Index
           /\ \A i \in Index \ visited' : found'[i] = {}
           /\ safeRefs' \subseteq Loop /\ ignoredRefs' \subseteq Loop
           /\ caughtErrors' \subseteq Loop
           /\ Covers'
  <1> USE DEF CircularInv
  <1>0. Visit(set)
    BY DEF Gather
  <1>1. /\ found' \in [Index -> SUBSET Loop]
        /\ visited' \subseteq Index
        /\ \A i \in Index \ visited' : found'[i] = {}
    BY <1>0, VisitFinds
  <1>2. \A class : FoundIn(found', Index, class) \subseteq
                      FoundIn(found, Index, class) \cup FoundIn(found', set, class)
    BY <1>0, VisitFinds
  <1>3. \A class : FoundIn(found', set, class) \subseteq Loop
    BY <1>1, FoundAreLoops
  <1>4. safeRefs' \subseteq Loop /\ ignoredRefs' \subseteq Loop /\ caughtErrors' \subseteq Loop
    BY <1>3 DEF Gather, CircularTypeOK
  <1>5. Covers'
    BY <1>2 DEF Gather, Covers
  <1> QED BY <1>1, <1>4, <1>5

LEMMA CircularInitInv == CircularInit => CircularInv
  BY DEF CircularInit, CircularInv, CircularTypeOK, Covers, CachesCover, FoundByVisits,
     FoundIn, Index

LEMMA IndexTheRolodexInv == CircularInv /\ IndexTheRolodex => CircularInv'
  <1> SUFFICES ASSUME CircularInv, IndexTheRolodex PROVE CircularInv'
    OBVIOUS
  <1> USE DEF CircularInv
  <1>0. visited = {} /\ ignoredRefs = {} /\ ignoredCache = NoCache
    BY DEF IndexTheRolodex, CircularTypeOK, FoundByVisits
  <1>1. CASE checkLater
    <2>1. \A class : FoundIn(found, Index, class) = {}
      BY <1>0 DEF FoundByVisits, FoundIn
    <2> QED
      BY <1>1, <2>1 DEF IndexTheRolodex, CircularTypeOK, Covers, CachesCover, FoundByVisits,
         resolvers, caches
  <1>2. CASE ~checkLater
    <2> DEFINE set == Index \ Late
    <2>1. Visit(set) /\ set \in SUBSET Index
      BY <1>2 DEF IndexTheRolodex
    <2>2. /\ found' \in [Index -> SUBSET Loop]
          /\ visited' \subseteq Index
          /\ \A i \in Index \ visited' : found'[i] = {}
      BY <2>1, VisitFinds
    <2>3. visited' = set
      BY <1>0, <2>1 DEF Visit
    <2>4. \A class : FoundIn(found', Index, class) = FoundIn(found', set, class)
      BY <2>1, <2>2, <2>3, VisitFindsAll
    <2>5. \A class : FoundIn(found', set, class) \subseteq Loop
      BY <2>1, <2>2, FoundAreLoops
    <2>6. CircularTypeOK'
      BY <1>2, <2>2, <2>5 DEF IndexTheRolodex, CircularTypeOK, caches
    <2>7. Covers'
      BY <1>2, <2>4 DEF IndexTheRolodex, Covers
    <2>8. CachesCover'
      BY <1>0, <1>2 DEF IndexTheRolodex, CachesCover, caches
    <2>9. FoundByVisits'
      BY <2>2 DEF FoundByVisits, IndexTheRolodex
    <2> QED BY <2>6, <2>7, <2>8, <2>9
  <1> QED BY <1>1, <1>2

\* CheckForCircularReferences and Resolve gather from the resolvers of set
\* and invalidate the caches.
LEMMA GatheringInv ==
    ASSUME CircularInv, NEW set \in SUBSET Index,
           IF indexed THEN Gather(set) ELSE UNCHANGED <<resolvers, gathered>>,
           Invalidate, UNCHANGED <<document, indexed>>, circChecked' \in BOOLEAN
    PROVE  CircularInv'
  <1>1. CASE indexed
    BY <1>1, GatherKeeps DEF CircularInv, CircularTypeOK, CachesCover, FoundByVisits, Invalidate
  <1>2. CASE ~indexed
    BY <1>2 DEF CircularInv, CircularTypeOK, Covers, CachesCover, FoundByVisits, Invalidate,
       resolvers, gathered
  <1> QED BY <1>1, <1>2

LEMMA GetSafeInv == CircularInv /\ GetSafeCircularReferences => CircularInv'
  <1> SUFFICES ASSUME CircularInv, GetSafeCircularReferences PROVE CircularInv'
    OBVIOUS
  <1>1. SafeExtracted \subseteq Loop /\ safeRefs \subseteq SafeExtracted
    BY FoundAreLoops DEF CircularInv, CircularTypeOK, SafeExtracted
  <1> QED
    BY <1>1 DEF CircularInv, GetSafeCircularReferences, CircularTypeOK, Covers, CachesCover,
       FoundByVisits, resolvers

LEMMA GetIgnoredInv == CircularInv /\ GetIgnoredCircularReferences => CircularInv'
  BY DEF CircularInv, GetIgnoredCircularReferences, CircularTypeOK, Covers, CachesCover,
     FoundByVisits, resolvers, gathered

LEMMA CircularStepInv == CircularInv /\ [CircularNext]_circularVars => CircularInv'
  <1> SUFFICES ASSUME CircularInv, [CircularNext]_circularVars PROVE CircularInv'
    OBVIOUS
  <1>1. CASE IndexTheRolodex
    BY <1>1, IndexTheRolodexInv
  <1>2. CASE CheckForCircularReferences
    BY <1>2, GatheringInv DEF CheckForCircularReferences, Index
  <1>3. CASE Resolve
    BY <1>3, GatheringInv DEF Resolve, CircularInv, CircularTypeOK
  <1>4. CASE GetSafeCircularReferences
    BY <1>4, GetSafeInv
  <1>5. CASE GetIgnoredCircularReferences
    BY <1>5, GetIgnoredInv
  <1>6. CASE UNCHANGED circularVars
    BY <1>6 DEF circularVars, CircularInv, CircularTypeOK, Covers, CachesCover, FoundByVisits
  <1> QED BY <1>1, <1>2, <1>3, <1>4, <1>5, <1>6 DEF CircularNext

\* Every reachable state satisfies the invariant: what the rolodex has
\* gathered and cached covers what its resolvers have found.
THEOREM CircularInvariance == CircularSpec => []CircularInv
  BY CircularInitInv, CircularStepInv, PTL DEF CircularSpec

\* The rolodex's state is well formed and no resolver visits an index before
\* the rolodex is indexed (IndexTheRolodex makes the resolvers).
THEOREM CircularTypeCorrect == CircularSpec => []CircularTypeOK
  BY CircularInvariance, PTL DEF CircularInv

\* GetCaughtErrors has every infinite loop a resolver has found, after any
\* calls in any order.
THEOREM InfiniteLoopsAreNotLost == CircularSpec => []InfiniteLoopsAreErrors
  <1>1. CircularInv => InfiniteLoopsAreErrors
    BY DEF CircularInv, Covers, InfiniteLoopsAreErrors
  <1> QED BY <1>1, CircularInvariance, PTL

\* GetIgnoredCircularReferences has every loop a resolver has ignored.
THEOREM IgnoredLoopsAreNotLost == CircularSpec => []IgnoredLoopsAreReported
  <1>1. CircularInv => IgnoredLoopsAreReported
    BY DEF CircularInv, Covers, CachesCover, IgnoredLoopsAreReported, IgnoredAnswer
  <1> QED BY <1>1, CircularInvariance, PTL

\* When IndexTheRolodex leaves the check to CheckForCircularReferences, as
\* the documents' constructors have it, GetSafeCircularReferences has every
\* safe loop a resolver has found.
THEOREM SafeLoopsAreNotLost == CircularSpec => []DeferredLoopsAreReported
  <1>1. CircularInv => DeferredLoopsAreReported
    BY DEF CircularInv, Covers, CachesCover, DeferredLoopsAreReported, SafeLoopsAreReported,
       SafeAnswer, SafeExtracted
  <1> QED BY <1>1, CircularInvariance, PTL

\* An answer is cached only of what is gathered, and as long as the resolvers are
\* asked for safe loops nothing is found that is not gathered.
GatheredInv ==
    /\ safeCache # NoCache => safeCache \subseteq safeRefs
    /\ ignoredCache # NoCache => ignoredCache \subseteq ignoredRefs
    /\ ~circChecked => FoundIn(found, Index, "safe") \subseteq safeRefs

\* What is gathered is not given up again.
LEMMA GatheredGrows ==
    ASSUME CircularTypeOK, [CircularNext]_circularVars
    PROVE  safeRefs \subseteq safeRefs' /\ ignoredRefs \subseteq ignoredRefs'
  <1>1. CASE IndexTheRolodex
    BY <1>1 DEF IndexTheRolodex
  <1>2. CASE CheckForCircularReferences \/ Resolve
    BY <1>2 DEF CheckForCircularReferences, Resolve, Gather, gathered
  <1>3. CASE GetSafeCircularReferences \/ GetIgnoredCircularReferences
    BY <1>3 DEF GetSafeCircularReferences, GetIgnoredCircularReferences, SafeExtracted, gathered
  <1>4. CASE UNCHANGED circularVars
    BY <1>4 DEF circularVars
  <1> QED BY <1>1, <1>2, <1>3, <1>4 DEF CircularNext

LEMMA GatheredStep == CircularInv /\ GatheredInv /\ [CircularNext]_circularVars => GatheredInv'
  <1> SUFFICES ASSUME CircularInv, GatheredInv, [CircularNext]_circularVars PROVE GatheredInv'
    OBVIOUS
  <1>0. safeRefs \subseteq safeRefs' /\ ignoredRefs \subseteq ignoredRefs'
    BY GatheredGrows DEF CircularInv
  <1>1. CASE IndexTheRolodex
    <2>1. caches' = caches
      BY <1>1 DEF IndexTheRolodex
    <2>2. ~circChecked' => UNCHANGED <<found, circChecked>>
      BY <1>1 DEF IndexTheRolodex, resolvers
    <2> QED BY <1>0, <2>1, <2>2 DEF GatheredInv, caches
  <1>2. CASE CheckForCircularReferences
    BY <1>2 DEF CheckForCircularReferences, GatheredInv, Invalidate
  <1>3. CASE Resolve
    <2>1. Invalidate /\ circChecked' = circChecked
      BY <1>3 DEF Resolve
    <2>2. CASE indexed
      BY <1>3, <2>1, <2>2 DEF Resolve, Gather, GatheredInv, Invalidate
    <2>3. CASE ~indexed
      BY <1>3, <2>1, <2>3 DEF Resolve, GatheredInv, Invalidate, resolvers, gathered
    <2> QED BY <2>2, <2>3
  <1>4. CASE GetSafeCircularReferences
    BY <1>0, <1>4 DEF GetSafeCircularReferences, GatheredInv, resolvers
  <1>5. CASE GetIgnoredCircularReferences
    BY <1>5 DEF GetIgnoredCircularReferences, GatheredInv, resolvers, gathered
  <1>6. CASE UNCHANGED circularVars
    BY <1>6 DEF circularVars, GatheredInv
  <1> QED BY <1>1, <1>2, <1>3, <1>4, <1>5, <1>6 DEF CircularNext

\* No call makes the rolodex forget a loop that it has answered: neither a later
\* answer of GetSafeCircularReferences nor one of GetIgnoredCircularReferences lacks
\* a loop of an earlier one, although the calls between them drop the caches and stop
\* asking the resolvers.
THEOREM NoAnswerIsTakenBack == CircularSpec => AnswersGrow
  <1>1. CircularInit => GatheredInv
    BY DEF CircularInit, GatheredInv, FoundIn
  <1>2. CircularInv /\ GatheredInv /\ [CircularNext]_circularVars => GatheredInv'
    BY GatheredStep
  <1>3. CircularInv /\ GatheredInv /\ [CircularNext]_circularVars
        => [NothingIsForgotten]_circularVars
    <2> SUFFICES ASSUME CircularInv, GatheredInv, CircularNext PROVE NothingIsForgotten
      OBVIOUS
    <2>0. safeRefs \subseteq safeRefs' /\ ignoredRefs \subseteq ignoredRefs'
      BY GatheredGrows DEF CircularInv
    <2>1. CASE IndexTheRolodex
      BY <2>0, <2>1 DEF IndexTheRolodex, NothingIsForgotten, SafeAnswer,
         SafeExtracted, IgnoredAnswer, caches
    <2>2. CASE CheckForCircularReferences \/ Resolve
      <3>1. Invalidate
        BY <2>2 DEF CheckForCircularReferences, Resolve
      <3>2. SafeAnswer \subseteq safeRefs
        <4>1. SafeExtracted \subseteq safeRefs
          BY DEF GatheredInv, SafeExtracted
        <4> QED BY <4>1 DEF SafeAnswer, GatheredInv
      <3>3. IgnoredAnswer \subseteq ignoredRefs
        BY DEF IgnoredAnswer, GatheredInv
      <3>4. safeRefs' \subseteq SafeAnswer' /\ ignoredRefs' \subseteq IgnoredAnswer'
        BY <3>1 DEF Invalidate, SafeAnswer, SafeExtracted, IgnoredAnswer
      <3> QED BY <2>0, <3>2, <3>3, <3>4 DEF NothingIsForgotten
    <2>3. CASE GetSafeCircularReferences
      <3>1. SafeExtracted \subseteq Loop
        BY FoundAreLoops DEF CircularInv, CircularTypeOK, SafeExtracted
      <3> QED
        BY <2>3, <3>1 DEF GetSafeCircularReferences, NothingIsForgotten, SafeAnswer, IgnoredAnswer
    <2>4. CASE GetIgnoredCircularReferences
      BY <2>4 DEF GetIgnoredCircularReferences, NothingIsForgotten, SafeAnswer, SafeExtracted,
         IgnoredAnswer, resolvers, gathered, CircularInv, CircularTypeOK
    <2> QED BY <2>1, <2>2, <2>3, <2>4 DEF CircularNext
  <1> QED BY <1>1, <1>2, <1>3, CircularInvariance, PTL DEF CircularSpec, AnswersGrow
=============================================================================
