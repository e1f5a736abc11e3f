-------------------------- MODULE RolodexIndexing ---------------------------
(***************************************************************************)
(* IndexTheRolodex (index/rolodex.go): one goroutine per file system fans  *)
(* out one goroutine per file the file system already has; the caller      *)
(* collects the indexes, then builds them one by one, then indexes and     *)
(* builds the root document.  Indexing a document may load further ones on *)
(* demand, which register themselves with AddExternalIndex; how they are   *)
(* loaded is the subject of RolodexLoader.                                 *)
(***************************************************************************)
EXTENDS Naturals, FiniteSets

CONSTANTS
    FileSystem,  \* localFS and remoteFS
    File,        \* the locations of the documents there are
    Batch,       \* Batch[s]: GetFiles(), what s has read before indexing;
                 \* {} for an fs.FS without GetFiles
    Lazy,        \* Lazy[f]: what indexing f loads on demand
    RootLazy     \* what indexing the root document loads on demand

Ready == UNION {Batch[s] : s \in FileSystem}

ASSUME IndexingAssumption ==
    /\ IsFiniteSet(FileSystem) /\ IsFiniteSet(File)
    /\ Batch \in [FileSystem -> SUBSET File]
    /\ \A s, t \in FileSystem : s # t => Batch[s] \cap Batch[t] = {}
    /\ Lazy \in [Ready -> SUBSET (File \ Ready)]
    /\ RootLazy \subseteq File \ Ready

VARIABLES
    plain,      \* the file systems that are an fs.FS but not a RolodexFS
    avoidCheck, \* the configuration's AvoidCircularReferenceCheck
    fs,         \* the goroutine of each file system
    file,       \* the goroutine of each file
    completed,  \* indexingCompleted
    failed,     \* the file systems in caughtErrors
    queue,      \* indexBuildQueue
    loaded,     \* the files loaded on demand, each once
    indexes,    \* r.indexes
    built,      \* the indexes BuildIndex() has run on
    checked,    \* the indexes whose resolver has checked for circles
    caller      \* "collect", then "build", "root" and "returned"

rolodex == <<plain, avoidCheck>>
vars == <<rolodex, fs, file, completed, failed, queue, loaded, indexes, built, checked, caller>>

Total == Cardinality(FileSystem)

TypeOK ==
    /\ plain \subseteq FileSystem /\ avoidCheck \in BOOLEAN
    /\ fs \in [FileSystem -> {"start", "waiting", "failing", "failed", "gone"}]
    /\ file \in [Ready -> {"none", "indexing", "sending", "gone"}]
    /\ completed \in 0..Total
    /\ failed \subseteq plain
    /\ queue \subseteq Ready
    /\ loaded \subseteq File \ Ready
    /\ indexes \subseteq File
    /\ built \subseteq File
    /\ checked \subseteq built
    /\ caller \in {"collect", "build", "root", "returned"}

\* A rolodex with any of its file systems of either kind.
Init ==
    /\ plain \in SUBSET {s \in FileSystem : Batch[s] = {}}
    /\ avoidCheck \in BOOLEAN
    /\ fs = [s \in FileSystem |-> "start"]
    /\ file = [f \in Ready |-> "none"]
    /\ completed = 0
    /\ failed = {} /\ queue = {} /\ loaded = {} /\ indexes = {} /\ built = {} /\ checked = {}
    /\ caller = "collect"

phases == <<rolodex, queue, caller, checked>>

-----------------------------------------------------------------------------
(* The goroutines.  doneChan, errChan and indexChan are unbuffered: a send *)
(* is one step with the receive in the caller's select.                    *)

StartFS(s) ==
    /\ fs[s] = "start"
    /\ fs' = [fs EXCEPT ![s] = IF s \in plain THEN "failing" ELSE "waiting"]
    /\ file' = [f \in Ready |-> IF f \in Batch[s] THEN "indexing" ELSE file[f]]
    /\ UNCHANGED <<completed, failed, loaded, indexes, built, phases>>

\* A document is loaded, built and registered, unless it has been before.
Load(x) ==
    /\ x \notin loaded
    /\ loaded' = loaded \cup {x}
    /\ indexes' = indexes \cup {x}
    /\ built' = built \cup {x}

LoadLazy(f) ==
    /\ file[f] = "indexing"
    /\ \E x \in Lazy[f] : Load(x)
    /\ UNCHANGED <<fs, file, completed, failed, phases>>

IndexedNoDone(f) ==   \* mutant: no wg.Done() behind a failure
    /\ file[f] = "indexing"
    /\ file' = [file EXCEPT ![f] = "none"]
    /\ UNCHANGED <<fs, completed, failed, loaded, indexes, built, phases>>

\* idxFile.Index() returns; the index gets its resolver.
Indexed(f) ==
    /\ file[f] = "indexing"
    /\ Lazy[f] \subseteq loaded
    /\ file' = [file EXCEPT ![f] = "sending"]
    /\ UNCHANGED <<fs, completed, failed, loaded, indexes, built, phases>>

Collecting == caller = "collect" /\ completed < Total

SendIndex(f) ==
    /\ Collecting
    /\ file[f] = "sending"
    /\ file' = [file EXCEPT ![f] = "gone"]
    /\ queue' = queue \cup {f}
    /\ UNCHANGED <<rolodex, fs, completed, failed, loaded, indexes, built, caller, checked>>

SendDoneNoWait(s) ==   \* mutant: no wg.Wait()
    /\ Collecting
    /\ fs[s] = "waiting"
    /\ fs' = [fs EXCEPT ![s] = "gone"]
    /\ completed' = completed + 1
    /\ UNCHANGED <<file, failed, loaded, indexes, built, phases>>

\* wg.Wait(), then done.
SendDone(s) ==
    /\ Collecting
    /\ fs[s] = "waiting"
    /\ \A f \in Batch[s] : file[f] = "gone"
    /\ fs' = [fs EXCEPT ![s] = "gone"]
    /\ completed' = completed + 1
    /\ UNCHANGED <<file, failed, loaded, indexes, built, phases>>

\* A file system that is no RolodexFS sends an error and then done; the
\* caller counts both.
SendError(s) ==
    /\ Collecting
    /\ fs[s] = "failing"
    /\ fs' = [fs EXCEPT ![s] = "failed"]
    /\ failed' = failed \cup {s}
    /\ completed' = completed + 1
    /\ UNCHANGED <<file, loaded, indexes, built, phases>>

SendFailedDone(s) ==
    /\ Collecting
    /\ fs[s] = "failed"
    /\ fs' = [fs EXCEPT ![s] = "gone"]
    /\ completed' = completed + 1
    /\ UNCHANGED <<file, failed, loaded, indexes, built, phases>>

-----------------------------------------------------------------------------
(* The caller, when the select loop is over. *)

\* r.indexes = indexBuildQueue
Collected ==
    /\ caller = "collect"
    /\ completed = Total
    /\ indexes' = queue
    /\ caller' = "build"
    /\ UNCHANGED <<rolodex, fs, file, completed, failed, queue, loaded, built, checked>>

Check(f) == checked' = IF avoidCheck THEN checked ELSE checked \cup {f}

Build ==
    /\ caller = "build"
    /\ \E f \in queue \ built :
          /\ built' = built \cup {f}
          /\ Check(f)
    /\ UNCHANGED <<rolodex, fs, file, completed, failed, queue, loaded, indexes, caller>>

StartRootEarly ==   \* mutant: not every index is built
    /\ caller = "build"
    /\ caller' = "root"
    /\ UNCHANGED <<rolodex, fs, file, completed, failed, queue, loaded, indexes, built, checked>>

StartRoot ==
    /\ caller = "build"
    /\ queue \subseteq built
    /\ caller' = "root"
    /\ UNCHANGED <<rolodex, fs, file, completed, failed, queue, loaded, indexes, built, checked>>

LoadForRoot ==
    /\ caller = "root"
    /\ \E x \in RootLazy : Load(x)
    /\ UNCHANGED <<fs, file, completed, failed, phases>>

\* The root index is built and checked; r.indexed is set.
Return ==
    /\ caller = "root"
    /\ RootLazy \subseteq loaded
    /\ caller' = "returned"
    /\ UNCHANGED <<rolodex, fs, file, completed, failed, queue, loaded, indexes, built, checked>>

\* A later call returns at once.
Again ==
    /\ caller = "returned"
    /\ UNCHANGED vars

FileStep(f) == LoadLazy(f) \/ Indexed(f) \/ SendIndex(f)
FSStep(s) == StartFS(s) \/ SendDone(s) \/ SendError(s) \/ SendFailedDone(s)
CallerStep == Collected \/ Build \/ StartRoot \/ LoadForRoot \/ Return

Next ==
    \/ \E s \in FileSystem : FSStep(s)
    \/ \E f \in Ready : FileStep(f)
    \/ CallerStep
    \/ Again

Safety == Init /\ [][Next]_vars

\* The Go scheduler runs every goroutine that can run.
Fairness ==
    /\ \A s \in FileSystem : WF_vars(FSStep(s))
    /\ \A f \in Ready : WF_vars(FileStep(f))
    /\ WF_vars(CallerStep)

Spec == Safety /\ Fairness

-----------------------------------------------------------------------------
\* When the caller starts to build, every file of every RolodexFS has been
\* indexed and its index collected, in whatever order the goroutines ended:
\* "now that we have indexed all the files, we can build the index."
\* (rolodex.go:422).
EveryFileIndexed == caller # "collect" => queue = Ready

\* So it is in a rolodex whose file systems are all of type RolodexFS; one of
\* another type is counted twice (rolodex.go:390-391).
AllFilesIndexed == plain = {} => EveryFileIndexed

\* What has returned has built every index the rolodex lists and, unless the
\* configuration avoids it, checked each that was collected for circles; when
\* every file system is a RolodexFS no goroutine of the call is left behind blocked
\* on a channel nobody reads.
ReturnsComplete ==
    caller = "returned" =>
        /\ indexes \subseteq built
        /\ avoidCheck \/ queue \subseteq checked
        /\ plain = {} => \A s \in FileSystem : fs[s] = "gone"

\* IndexTheRolodex returns.
IndexingReturns == <>(caller = "returned")
=============================================================================
