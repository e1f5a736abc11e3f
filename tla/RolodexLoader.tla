--------------------------- MODULE RolodexLoader ---------------------------
(***************************************************************************)
(* The concurrent, recursive loading of referenced documents through the  *)
(* rolodex (index/rolodex_file_loader.go, index/rolodex_remote_loader.go, *)
(* index/extract_refs_lookup.go, index/find_component_external.go).        *)
(*                                                                         *)
(* Indexing a document looks up each of its external references.  A lookup *)
(* opens the referenced file; whoever opens a file first reads it, puts it *)
(* in the file cache and indexes it, which looks up that file's references *)
(* in turn.  Unless extraction is sequential the lookups of one document   *)
(* run in goroutines of their own, so two branches of the recursion may    *)
(* want the same file at the same time.                                    *)
(*                                                                         *)
(* A task is one lookup, named by the chain of references that leads to it *)
(* from the root document.  A task that reads its file gives its name to   *)
(* the file object it creates and to the index job of that object; the     *)
(* empty chain is the root document's job.                                 *)
(***************************************************************************)
EXTENDS Naturals, Sequences, FiniteSets

CONSTANTS
    File,            \* absolute locations of documents
    Root,            \* the root document
    Remote,          \* the locations that start with http
    Allowed,         \* the locations AllowFileLookup / AllowRemoteLookup permit
    Refs,            \* Refs[f]: the deduplicated external references of f, in order
    Outcome,         \* Outcome[f]: what reading f may yield
    BaseName,        \* BaseName[f]: the last path element of f
    Sequentially,    \* the configuration's ExtractRefsSequentially
    MaxConcurrency,  \* the capacity of the extraction semaphore
    Task,            \* the lookups, see TaskAssumption
    None,            \* nil
    Missing          \* a lookup that located nothing

Kind == {"whole", "frag"}            \* "file.yaml" against "file.yaml#/x"
Ref == [file : File, kind : Kind]

\* What LocalFS.extractFile and the remote handler may answer.
LocalOutcome == {"ok", "error", "unsupported"}
RemoteOutcome == {"ok", "empty", "error", "clienterr", "noresponse", "badtype"}

ASSUME ConstantsAssumption ==
    /\ IsFiniteSet(File)
    /\ Root \in File
    /\ Remote \subseteq File
    /\ Allowed \subseteq File
    /\ Refs \in [File -> Seq(Ref)]
    /\ Outcome \in [File -> SUBSET (LocalOutcome \cup RemoteOutcome)]
    /\ \A f \in File : Outcome[f] # {}
    /\ \A f \in File \ Remote : Outcome[f] \subseteq LocalOutcome
    /\ \A f \in Remote : Outcome[f] \subseteq RemoteOutcome
    /\ BaseName \in [File -> File]
    /\ Sequentially \in BOOLEAN
    /\ MaxConcurrency \in Nat \ {0}
    /\ None # Missing

\* createNewIndex drops references with a FullDefinition it has seen.
ASSUME RefsDeduplicated ==
    \A f \in File : \A i, k \in DOMAIN Refs[f] : Refs[f][i] = Refs[f][k] => i = k

----------------------------------------------------------------------------
(* The tasks. *)

UsedRef == UNION {{Refs[f][i] : i \in DOMAIN Refs[f]} : f \in File}

\* A task is a chain of references from the root document.  Task is declared,
\* and fixed by TaskAssumption, so that a configuration can enumerate it chain
\* by chain.
\* A chain of references from the root in which no file but the last repeats:
\* a file is read at most once along a chain (NoReload below).
IsChain(t) ==
    /\ \A i \in 1..Len(t) :
          LET from == IF i = 1 THEN Root ELSE t[i - 1].file
          IN  \E k \in DOMAIN Refs[from] : Refs[from][k] = t[i]
    /\ \A i, k \in 1..(Len(t) - 1) : t[i].file = t[k].file => i = k

ASSUME TaskAssumption ==
    Task = {t \in UNION {[1..n -> UsedRef] : n \in 1..(Cardinality(File) + 1)} : IsChain(t)}

RootJob == << >>
Job == Task \cup {RootJob}

ASSUME NilIsNoJob == None \notin Job /\ Missing \notin Job

Parent(t) == SubSeq(t, 1, Len(t) - 1)
Children(j) == {t \in Task : Parent(t) = j}
Target(t) == t[Len(t)].file
IsFrag(t) == t[Len(t)].kind = "frag"

\* The document a job indexes.
Document(j) == IF j = RootJob THEN Root ELSE Target(j)

\* AddIndexingFile: the files whose indexing is on the task's call chain.
Ctx(t) == {t[i].file : i \in 1..(Len(t) - 1)}

\* IsFileBeingIndexed: for URLs the last path element decides.
IsFileBeingIndexed(t) ==
    \/ Target(t) \in Ctx(t)
    \/ /\ Target(t) \in Remote
       /\ \E f \in Ctx(t) : BaseName[f] = BaseName[Target(t)]

\* Remote files are always indexed with ExtractRefsSequentially set.
IsSequential(j) == Sequentially \/ (j # RootJob /\ Document(j) \in Remote)

\* The position of a task's reference in its document.
Position(t) ==
    LET r == Refs[Document(Parent(t))]
    IN  CHOOSE i \in DOMAIN r : r[i] = t[Len(t)]

----------------------------------------------------------------------------
VARIABLES
    pc,            \* pc[j]: where a task, or the root job, is
    cache,         \* cache[f]: Files, the object stored for a location
    processing,    \* processing[f]: processingFiles, the task whose waiter is stored
    waiter,        \* waiter[t]: state of the waiter t stored when it claimed its file
    file,          \* file[t]: the object (or the waiter) t got for its location
    content,       \* content[t]: what t read
    indexed,       \* the objects whose index is stored
    complete,      \* the objects whose indexingComplete channel is closed
    catalog,       \* catalog[f]: the index the rolodex lists for a location
    refLock,       \* refLock[j]: the task holding the write lock of j's index
    result,        \* result[t]: the job whose index the located reference carries
    remoteErrors   \* the number of errors RemoteFS has collected

vars == <<pc, cache, processing, waiter, file, content, indexed, complete,
          catalog, refLock, result, remoteErrors>>

PC == {"idle", "spawned", "check", "lock", "open", "claim", "waiting", "extract",
       "store", "release", "index", "indexing", "publish", "signal", "return",
       "lookup", "blocked", "done"}

TypeOK ==
    /\ pc \in [Job -> PC]
    /\ cache \in [File -> Task \cup {None}]
    /\ processing \in [File -> Task \cup {None}]
    /\ waiter \in [Task -> {"none", "locked", "file", "nil", "error"}]
    /\ file \in [Task -> Task \cup {None}]
    /\ content \in [Task -> {"none", "ok", "empty"}]
    /\ indexed \subseteq Task
    /\ complete \subseteq Task
    /\ catalog \in [File -> Task \cup {None}]
    /\ refLock \in [Job -> Task \cup {None}]
    /\ result \in [Task -> Job \cup {None, Missing}]
    /\ remoteErrors \in Nat

Init ==
    /\ pc = [j \in Job |-> IF j = RootJob THEN "index" ELSE "idle"]
    /\ cache = [f \in File |-> None]
    /\ processing = [f \in File |-> None]
    /\ waiter = [t \in Task |-> "none"]
    /\ file = [t \in Task |-> None]
    /\ content = [t \in Task |-> "none"]
    /\ indexed = {}
    /\ complete = {}
    /\ catalog = [f \in File |-> None]
    /\ refLock = [j \in Job |-> None]
    /\ result = [t \in Task |-> None]
    /\ remoteErrors = 0

----------------------------------------------------------------------------
Goto(j, label) == pc' = [pc EXCEPT ![j] = label]

\* locateRef returns: a fragment lookup gives back the lock of its index.
UnlockRef(t) ==
    refLock' = IF IsFrag(t) THEN [refLock EXCEPT ![Parent(t)] = None] ELSE refLock

Return(t, r) ==
    /\ Goto(t, "done")
    /\ UnlockRef(t)
    /\ result' = [result EXCEPT ![t] = r]

Running(t) == pc[t] \notin {"idle", "spawned", "done"}

(***************************************************************************)
(* A lookup begins: in its turn when the job extracts sequentially, else   *)
(* once a semaphore slot is free.                                          *)
(***************************************************************************)
LocateRef(t) == Goto(t, IF IsFrag(t) THEN "lock" ELSE "open")

StartLookup(t) ==
    LET j == Parent(t)
    IN  /\ pc[t] = "spawned"
        /\ IF IsSequential(j)
             THEN /\ \A s \in Children(j) : Position(s) < Position(t) => pc[s] = "done"
                  /\ LocateRef(t)
             ELSE /\ Cardinality({s \in Children(j) : Running(s)}) < MaxConcurrency
                  /\ Goto(t, "check")
        /\ UNCHANGED <<cache, processing, waiter, file, content, indexed,
                       complete, catalog, refLock, result, remoteErrors>>

\* The look into allMappedRefs needs the read lock of the index.
CheckMapped(t) ==
    /\ pc[t] = "check"
    /\ refLock[Parent(t)] = None
    /\ LocateRef(t)
    /\ UNCHANGED <<cache, processing, waiter, file, content, indexed,
                   complete, catalog, refLock, result, remoteErrors>>

\* locateRef takes the index's write lock around a fragment lookup.
LockRef(t) ==
    /\ pc[t] = "lock"
    /\ refLock[Parent(t)] = None
    /\ refLock' = [refLock EXCEPT ![Parent(t)] = t]
    /\ Goto(t, "open")
    /\ UNCHANGED <<cache, processing, waiter, file, content, indexed,
                   complete, catalog, result, remoteErrors>>

\* FindComponent: a fragment of the index's own document needs no file.
InOwnDocument(t) == IsFrag(t) /\ Target(t) = Document(Parent(t))

FindComponentInRoot(t) ==
    /\ pc[t] = "open"
    /\ InOwnDocument(t)
    /\ Return(t, Parent(t))
    /\ UNCHANGED <<cache, processing, waiter, file, content, indexed,
                   complete, catalog, remoteErrors>>

\* OpenWithContext up to the look into Files.
OpenCached(t) ==
    /\ pc[t] = "open"
    /\ ~ InOwnDocument(t)
    /\ Target(t) \in Allowed
    /\ cache[Target(t)] # None
    /\ file' = [file EXCEPT ![t] = cache[Target(t)]]
    /\ Goto(t, "lookup")
    /\ UNCHANGED <<cache, processing, waiter, content, indexed, complete,
                   catalog, refLock, result, remoteErrors>>

OpenDenied(t) ==
    /\ pc[t] = "open"
    /\ ~ InOwnDocument(t)
    /\ Target(t) \notin Allowed
    /\ Return(t, Missing)
    /\ UNCHANGED <<cache, processing, waiter, file, content, indexed,
                   complete, catalog, remoteErrors>>

\* A miss; RemoteFS checks the file type before it claims the location.
OpenMiss(t) ==
    /\ pc[t] = "open"
    /\ ~ InOwnDocument(t)
    /\ Target(t) \in Allowed
    /\ cache[Target(t)] = None
    /\ \/ /\ "badtype" \in Outcome[Target(t)]
          /\ remoteErrors' = remoteErrors + 1
          /\ Return(t, Missing)
       \/ /\ Outcome[Target(t)] # {"badtype"}
          /\ Goto(t, "claim")
          /\ UNCHANGED <<refLock, result, remoteErrors>>
    /\ UNCHANGED <<cache, processing, waiter, file, content, indexed,
                   complete, catalog>>

\* Mutant: Store instead of LoadOrStore.
ClaimFileAlways(t) ==
    /\ pc[t] = "claim"
    /\ processing' = [processing EXCEPT ![Target(t)] = t]
    /\ waiter' = [waiter EXCEPT ![t] = "locked"]
    /\ Goto(t, "extract")
    /\ UNCHANGED <<cache, file, content, indexed, complete, catalog, refLock,
                   result, remoteErrors>>

(***************************************************************************)
(* LoadOrStore on processingFiles: the first claims the location, the      *)
(* others block on the mutex of the waiter that is stored there.           *)
(***************************************************************************)
ClaimFile(t) ==
    LET f == Target(t)
    IN  /\ pc[t] = "claim"
        /\ IF processing[f] = None
             THEN /\ processing' = [processing EXCEPT ![f] = t]
                  /\ waiter' = [waiter EXCEPT ![t] = "locked"]
                  /\ Goto(t, "extract")
                  /\ UNCHANGED file
             ELSE /\ file' = [file EXCEPT ![t] = processing[f]]
                  /\ Goto(t, "waiting")
                  /\ UNCHANGED <<processing, waiter>>
        /\ UNCHANGED <<cache, content, indexed, complete, catalog, refLock,
                       result, remoteErrors>>

\* A blocked opener gets the waiter's mutex and takes over file and error.
WaiterReleased(t) ==
    /\ pc[t] = "waiting"
    /\ waiter[file[t]] # "locked"
    /\ IF waiter[file[t]] = "file"
         THEN /\ Goto(t, "lookup")
              /\ UNCHANGED <<refLock, result>>
         ELSE Return(t, Missing)
    /\ UNCHANGED <<cache, processing, waiter, file, content, indexed,
                   complete, catalog, remoteErrors>>

ReleaseWaiter(t, state) ==
    /\ waiter' = [waiter EXCEPT ![t] = state]
    /\ processing' = [processing EXCEPT ![Target(t)] = None]

\* Mutant: the error path deletes the waiter but does not unlock it.
ExtractFailsLocked(t, o) ==
    /\ pc[t] = "extract"
    /\ o \in Outcome[Target(t)] \cap {"error", "unsupported", "clienterr", "noresponse"}
    /\ processing' = [processing EXCEPT ![Target(t)] = None]
    /\ Return(t, Missing)
    /\ UNCHANGED <<cache, waiter, file, content, indexed, complete, catalog, remoteErrors>>

\* Reading the file fails: the waiter is released with the outcome's error.
ExtractFails(t, o) ==
    /\ pc[t] = "extract"
    /\ o \in Outcome[Target(t)] \cap {"error", "unsupported", "clienterr", "noresponse"}
    /\ ReleaseWaiter(t, IF o = "error" THEN "error" ELSE "nil")
    /\ remoteErrors' = IF o = "clienterr" THEN remoteErrors + 1 ELSE remoteErrors
    /\ Return(t, Missing)
    /\ UNCHANGED <<cache, file, content, indexed, complete, catalog>>

ExtractFile(t, o) ==
    /\ pc[t] = "extract"
    /\ o \in Outcome[Target(t)] \cap {"ok", "empty"}
    /\ content' = [content EXCEPT ![t] = o]
    /\ Goto(t, "store")
    /\ UNCHANGED <<cache, processing, waiter, file, indexed, complete,
                   catalog, refLock, result, remoteErrors>>

\* Mutant: the file is not put in the cache before it is indexed.
StoreFileLater(t) ==
    /\ pc[t] = "store"
    /\ Goto(t, "release")
    /\ UNCHANGED <<cache, processing, waiter, file, content, indexed, complete,
                   catalog, refLock, result, remoteErrors>>

StoreFile(t) ==
    /\ pc[t] = "store"
    /\ cache' = [cache EXCEPT ![Target(t)] = t]
    /\ Goto(t, "release")
    /\ UNCHANGED <<processing, waiter, file, content, indexed, complete,
                   catalog, refLock, result, remoteErrors>>

\* The waiter is released before the file is indexed.
ReleaseFile(t) ==
    /\ pc[t] = "release"
    /\ ReleaseWaiter(t, "file")
    /\ Goto(t, "index")
    /\ UNCHANGED <<cache, file, content, indexed, complete, catalog, refLock,
                   result, remoteErrors>>

\* IndexWithContext: the references of the document become tasks.
BeginIndex(j) ==
    /\ pc[j] = "index"
    /\ pc' = [k \in Job |->
                 CASE k = j -> "indexing"
                   [] k # j /\ k \in Children(j) /\ ~ (j \in Task /\ content[j] = "empty") -> "spawned"
                   [] OTHER -> pc[k]]
    /\ UNCHANGED <<cache, processing, waiter, file, content, indexed,
                   complete, catalog, refLock, result, remoteErrors>>

ChildrenDone(j) == \A t \in Children(j) : pc[t] \in {"idle", "done"}

\* Extraction has finished: the index is stored in the file object.
StoreIndex(t) ==
    /\ t # RootJob
    /\ pc[t] = "indexing"
    /\ ChildrenDone(t)
    /\ IF content[t] = "empty"
         THEN /\ remoteErrors' = remoteErrors + 1
              /\ Goto(t, "signal")
              /\ UNCHANGED indexed
         ELSE /\ indexed' = indexed \cup {t}
              /\ Goto(t, "publish")
              /\ UNCHANGED remoteErrors
    /\ UNCHANGED <<cache, processing, waiter, file, content, complete,
                   catalog, refLock, result>>

FinishRoot ==
    /\ pc[RootJob] = "indexing"
    /\ ChildrenDone(RootJob)
    /\ Goto(RootJob, "done")
    /\ UNCHANGED <<cache, processing, waiter, file, content, indexed,
                   complete, catalog, refLock, result, remoteErrors>>

\* Mutant: the index replaces a listed one.
AddExternalIndexReplace(t) ==
    /\ pc[t] = "publish"
    /\ catalog' = [catalog EXCEPT ![Target(t)] = t]
    /\ Goto(t, "signal")
    /\ UNCHANGED <<cache, processing, waiter, file, content, indexed,
                   complete, refLock, result, remoteErrors>>

\* AddExternalIndex: an index whose location is listed already is dropped.
AddExternalIndex(t) ==
    /\ pc[t] = "publish"
    /\ catalog' = [catalog EXCEPT ![Target(t)] = IF @ = None THEN t ELSE @]
    /\ Goto(t, "signal")
    /\ UNCHANGED <<cache, processing, waiter, file, content, indexed,
                   complete, refLock, result, remoteErrors>>

SignalIndexingComplete(t) ==
    /\ pc[t] = "signal"
    /\ complete' = complete \cup {t}
    /\ Goto(t, "return")
    /\ UNCHANGED <<cache, processing, waiter, file, content, indexed,
                   catalog, refLock, result, remoteErrors>>

\* The loader returns its file; RemoteFS joins every error it ever collected
\* to the result, and the rolodex drops a file that comes with an error.
LoaderReturns(t) ==
    /\ pc[t] = "return"
    /\ file' = [file EXCEPT ![t] = t]
    /\ IF Target(t) \in Remote /\ remoteErrors > 0
         THEN Return(t, Missing)
         ELSE /\ Goto(t, "lookup")
              /\ UNCHANGED <<refLock, result>>
    /\ UNCHANGED <<cache, processing, waiter, content, indexed, complete,
                   catalog, remoteErrors>>

(***************************************************************************)
(* lookupRolodex with the opened file.  It waits for the file's index      *)
(* unless the file is on its own call chain; the reference to a whole file *)
(* carries the file's index, or the referring one when there is none yet;  *)
(* a fragment always carries the referring index.                          *)
(***************************************************************************)
Located(t) ==
    IF ~ IsFrag(t) /\ file[t] \in indexed THEN file[t] ELSE Parent(t)

\* Mutant: lookupRolodex does not wait for the index.
LookupRolodexNoWait(t) ==
    /\ pc[t] = "lookup"
    /\ Return(t, Located(t))
    /\ UNCHANGED <<cache, processing, waiter, file, content, indexed,
                   complete, catalog, remoteErrors>>

LookupRolodex(t) ==
    /\ pc[t] = "lookup"
    /\ IF file[t] \notin indexed /\ ~ IsFileBeingIndexed(t)
         THEN /\ Goto(t, "blocked")
              /\ UNCHANGED <<refLock, result>>
         ELSE Return(t, Located(t))
    /\ UNCHANGED <<cache, processing, waiter, file, content, indexed,
                   complete, catalog, remoteErrors>>

\* WaitForIndexing returns once the channel is closed.
IndexingAwaited(t) ==
    /\ pc[t] = "blocked"
    /\ file[t] \in complete
    /\ Return(t, Located(t))
    /\ UNCHANGED <<cache, processing, waiter, file, content, indexed,
                   complete, catalog, remoteErrors>>

TaskStep(t) ==
    \/ StartLookup(t)
    \/ CheckMapped(t)
    \/ LockRef(t)
    \/ FindComponentInRoot(t)
    \/ OpenCached(t)
    \/ OpenDenied(t)
    \/ OpenMiss(t)
    \/ ClaimFile(t)
    \/ WaiterReleased(t)
    \/ \E o \in Outcome[Target(t)] : ExtractFails(t, o)
    \/ \E o \in Outcome[Target(t)] : ExtractFile(t, o)
    \/ StoreFile(t)
    \/ ReleaseFile(t)
    \/ BeginIndex(t)
    \/ StoreIndex(t)
    \/ AddExternalIndex(t)
    \/ SignalIndexingComplete(t)
    \/ LoaderReturns(t)
    \/ LookupRolodex(t)
    \/ IndexingAwaited(t)

RootStep == BeginIndex(RootJob) \/ FinishRoot

\* Root indexing is over: nothing moves any more.
Terminated == pc[RootJob] = "done" /\ UNCHANGED vars

Next == RootStep \/ (\E t \in Task : TaskStep(t)) \/ Terminated

\* The Go scheduler runs some goroutine while one can run; no step is ever
\* undone, so that much is enough for every one of them to have its turn.
Fairness == WF_vars(Next)

Spec == Init /\ [][Next]_vars /\ Fairness

----------------------------------------------------------------------------
(* Properties. *)

\* The pcs at which a task has claimed its location and not released it.
Claiming == {"extract", "store", "release"}

\* The pcs at which a fragment lookup holds the write lock of its index.
Locked == PC \ {"idle", "spawned", "check", "lock", "done"}

\* At any time at most one task reads a location, and it is the one whose
\* waiter is stored: what LoadOrStore on processingFiles is for.
OneReaderPerFile ==
    \A s, t \in Task :
        /\ pc[s] \in Claiming => processing[Target(s)] = s /\ waiter[s] = "locked"
        /\ pc[s] \in Claiming /\ pc[t] \in Claiming /\ Target(s) = Target(t) => s = t

\* No two fragment lookups of one index are between Lock and Unlock of
\* locateRef, however deep the loads they start.
FragmentLookupsExclude ==
    \A s, t \in Task :
        (/\ IsFrag(s) /\ IsFrag(t) /\ Parent(s) = Parent(t)
         /\ pc[s] \in Locked /\ pc[t] \in Locked) => s = t

\* Recursion through circular documents ends: a lookup of a file that is on
\* its own call chain always finds it in the cache and never reads it again.
NoReload ==
    \A t \in Task : pc[t] \in Claiming \cup {"claim", "waiting", "index", "indexing"}
                       => Target(t) \notin Ctx(t)

\* What WaitForIndexing is for: a located whole-file reference whose file is
\* not on its own call chain carries an index of that file, never the index
\* of the referring document, whoever loaded the file and however late.
WholeFileCarriesItsIndex ==
    \A t \in Task :
        (/\ pc[t] = "done" /\ ~ IsFrag(t)
         /\ result[t] \notin {None, Missing}
         /\ ~ IsFileBeingIndexed(t)
         /\ content[file[t]] = "ok")
           => /\ result[t] \in indexed
              /\ Target(result[t]) = Target(t)

\* A lookup finds an index by its location, so every file that an index was stored
\* for is listed when the root document is indexed, with an index of this location;
\* what is listed is never replaced under the lookups that found it, nor does a
\* file leave the cache.
AllAreListed ==
    pc[RootJob] = "done" =>
        \A t \in indexed : catalog[Target(t)] \in indexed
                           /\ Target(catalog[Target(t)]) = Target(t)
NothingIsWithdrawn ==
    \A f \in File : /\ cache[f] # None => cache'[f] # None
                    /\ catalog[f] # None => catalog'[f] = catalog[f]
IndexesStayPublished == []AllAreListed /\ [][NothingIsWithdrawn]_vars

\* Indexing the root document ends: no waiter, lock or channel of the loader
\* blocks a goroutine for good.
IndexingCompletes == <>(pc[RootJob] = "done")

=============================================================================
