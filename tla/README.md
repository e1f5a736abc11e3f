# A verification project for libopenapi

libopenapi reads OpenAPI 2 and 3, Arazzo and Overlay documents, indexes them
with everything they refer to, builds a low-level and a high-level model of
them, and compares, bundles, changes or runs them.  This directory holds TLA+
models of the parts of it where order, concurrency, failure and the agreement of many parts matter, the TLC
runs that check them on small instances, and theorems about them that TLAPS
proves for all instances.

Paths below are relative to `src/`; `file.go:n` is a line of the modelled commit.

## 1. Inventory

| Component | State it keeps | Operations | What is hard about it |
|---|---|---|---|
| **Rolodex file loading** `index/rolodex_file_loader.go`, `rolodex_remote_loader.go`, `find_component_external.go`, `extract_refs_lookup.go` | per file system `Files`, `processingFiles` with a mutex per waiter, per file its index and the channel `indexingComplete`, per index the mutex `refLock`, remote errors, the rolodex's list of indexes | `OpenWithContext`, `IndexWithContext`, `WaitForIndexing`, `ExtractComponentsFromRefs`, `locateRef`, `lookupRolodex`, `AddExternalIndex` | lookups run in goroutines, recurse into the documents they load, meet at files from several branches, wait for each other, and any read may fail |
| **Rolodex indexing** `index/rolodex.go` | the file systems, indexes, errors, `indexed`, `built` | `IndexTheRolodex` | goroutines fan out over file systems and files, answer over three unbuffered channels and are counted |
| **Circular references of the rolodex** `index/rolodex.go`, `resolver_entry.go` | what resolvers found, `circChecked`, gathered loops and errors, two cached answers | `CheckForCircularReferences`, `Resolve`, `GetSafeCircularReferences`, `GetIgnoredCircularReferences` | the calls come in any order; flags and caches decide what is looked at |
| **Resolver** `index/resolver_*.go` | journeys, visited references, circular results | `VisitReference`, `extractRelatives`, `handleCircularJourneyRelative` | a walk of a cyclic graph with marks shared by all journeys |
| **Specification index** `index/extract_refs*.go`, `spec_index_*.go`, `find_component_*.go`, `schema_id_*.go` | references by kind, component maps, counts, caches, node map, `$id` registry | building, accessors, `FindComponent` | counts computed once behind mutexes; lookups that recurse into the loader; the node map is filled by a goroutine |
| **Parallel translation** `datamodel/translate.go` | channels, a wait group, pending results, the first error | `TranslateSliceParallel`, `TranslateMapParallel`, `TranslatePipeline` | answers out of order, first error, end of iteration, cancellation, who closes what |
| **Low-level core** `datamodel/low/` | hash caches, the model builder | `BuildModel`, `ExtractObject`, `HashObject` | global caches shared by all documents |
| **Schema proxy** `datamodel/low/base/schema_proxy.go` | the once, the rendered schema, the node map, the hash with its generation | `Schema`, `AddNode`, `Hash` | lock-free reads next to a build that runs once |
| **Low-level models** `datamodel/low/{base,v2,v3,arazzo,overlay}` | the built objects | `Build` and `Hash` of each object | sixty fields of an object that reflection, `Build`, `Hash`, the comparison and the constructor must each know; the parts of documents and v2 path items are built by goroutines over shared channels |
| **High-level models** `datamodel/high/` | copies of the low-level objects, inline flags and contexts of dynamic values, what a render context tracks | constructors, `MarshalYAML`, `MarshalYAMLInline`, `MarshalYAMLInlineWithContext` | what is empty depends on a model that edits leave behind; schemas in circles; goroutines that render one model and share its dynamic values |
| **Document** `document.go`, `cache.go` | configuration, rolodex, built model | `NewDocument`, `BuildV2Model`, `BuildV3Model`, `Render`, `RenderAndReload` | models are built once and reloaded after changes |
| **Document information** `datamodel/spec_info.go` | the parsed tree, version, JSON | extraction | lazy conversion to JSON |
| **What changed** `what-changed/` | change trees, global breaking rules | `CompareOpenAPIDocuments` and a comparison per object, three totals per report | objects whose hashes agree are skipped, and each report must look at and add up all of its parts: one field forgotten anywhere on the way to the root hides what changed below |
| **Bundler** `bundler/` | processed references, names | bundling, composition | names that collide, references rewritten through several documents |
| **Arazzo engine** `arazzo/engine.go`, `step.go`, `actions.go` | active workflows, results, retries and transitions | `RunAll`, `RunWorkflow`, `topologicalSort`, `executeStep` | workflows run each other; retries, gotos and cancellation |
| **Arazzo validation, resolution, criteria, expressions** `arazzo/` | none | pure functions | |
| **Overlay engine** `overlay/` | a tree and its parents | actions in order | updates and removals of nodes found before |
| **Renderer, generator** `renderer/`, `generator/golang/` | names given out | text | name collisions |
| **Ordered map, utilities** `orderedmap/`, `utils/`, `json/` | a wrapped map | iteration, YAML helpers | an iterator that is a goroutine; a query with a timeout |

How they interact: a `Document` builds a rolodex; indexing it opens and indexes
files through the loader, which indexes the references of those files in turn;
every index has a resolver that looks for circles; the model builders translate
the indexed tree, in parallel where it is large, and leave schemas as proxies
that are built when first asked for; the comparison, the renderer and the
bundler ask for them, concurrently, and compare by hash.  The Arazzo engine
works on a finished model and calls out to an executor.

What makes each correct is stated as properties where a module exists (section
3) and as the aim of the plan where not (section 2).  `PROJECT.json` lists the
hazards at their lines and which property covers each.

## 2. Plan

Built so far, in this order, each with its runs and, where marked, proofs:

1. `RolodexLoader` (proofs) - the loader is where the library deadlocks or
   hands out wrong indexes if it does.
2. `TranslateItems`, `TranslateSequential`, `TranslateParallel` (proofs) - the
   pool, shown to implement the inline loop, its abstract specification.
3. `TranslatePipeline` (proofs) - the pipeline between the goroutines of `Paths.Build`.
4. `RolodexIndexing` (proofs), `RolodexCircular` (proofs) - what the rolodex
   does around the loader.
5. `SchemaProxy` (proofs).
6. `ArazzoEngine` (proofs), and `ArazzoOrder` (proofs), shown to implement `DependencyOrder`.
7. `Shapes` and the tables `LowBase`, `LowV3`, `LowV2`, `ChangesBase`,
   `ChangesV3`, `ChangesV2`, `BreakingRules`; over them `WhatChanged` (proofs): the
   objects are one pattern repeated, and what goes wrong in them is that two of their
   functions disagree about a field.
8. `LowArazzo`, `Members` and the tables `HighBase`, `HighV3`, `HighV2`,
   `HighArazzo`; over all of them `Rendering` (proofs).
9. `InlineRendering` (proofs), the renders that follow references.

To come, most important first:

* `Resolver`: `VisitReference` with an explicit stack over small reference
  graphs, shown to find a loop on every cycle of the graph and, with
  `isInfiniteCircularDependency`, to call it infinite when every edge of it is
  required; then it replaces the nondeterministic visit of `RolodexCircular`.
* `SwaggerBuild` and `PathItemBuild`: the fan-outs of
  `datamodel/low/v2/swagger.go:253-280`, `path_item.go:146-179` and
  `definitions.go`; and `DocumentBuild` for `v3/create_document.go:347`.  Every
  part is extracted once, errors are reported, nobody is left on a channel.
* `RunAll`: `ArazzoOrder` composed with `ArazzoEngine` in one specification, so that the
  order the engine runs is the one the sort computes; the theorems about each already
  meet there (`OrderIsAPlan`, `DependenciesAreResolved`).
* `HashCaches`: the schema-hash cache of comparisons, cleared by one while
  another uses it, and the node map's goroutine.
* `ComponentLookup`: `FindComponent` with two documents of one name.
* `Bundler`: names given to composed components are unique and stable.
* `Overlay`, `DocumentLifecycle`, `OrderedMapIterator`, `NameRegistry`.

Runs stay small enough to finish in about a minute, so that every property can
be checked again with the code changed (section 3.11).

## 3. What is modelled

Each component has a module with its state and one action per step of a
goroutine that others can observe, and an `MC` module with the values of its
constants (`SchemaProxy` has them in its configuration).  A call that others cannot interrupt is one action; wherever the code
gives up a lock, sends, receives or calls back, a new one begins.  Where a
configuration flag decides what the code does, the flag is a variable that
`Init` chooses and no action changes: one run then covers every setting.

### 3.1 `RolodexLoader`

A *task* is one lookup, named by the chain of references that leads to it from
the root document.  That name is the code's `context`, which carries the files
being indexed down the recursion.  `pc` gives each task's place in
`locateRef` → `OpenWithContext` → `IndexWithContext` → `lookupRolodex`.

| state | code |
|---|---|
| `cache`, `processing`, `waiter` | `Files`, `processingFiles`, the waiter's mutex, file and error |
| `file`, `content`, `indexed`, `complete` | the file object, its data, its index, `indexingComplete` |
| `catalog` | `Rolodex.indexes` by location |
| `refLock` | `SpecIndex.refLock` |
| `result` | the index a located `Reference` carries |
| `remoteErrors` | `RemoteFS.remoteErrors` |

Local and remote file systems share the protocol and differ where the code does:
outcomes, extraction that is sequential in remote documents, the file type
checked before the claim, joined errors, and last path elements taken for
equality of URLs.

Run `loader_diamond` (162 thousand states): three branches meet in a remote
document that names itself; the root looks up two fragments under one lock; one
document is not allowed, another names itself by a fragment, and reads end in
every way the code knows.  A file on the chain is taken for one
that is being indexed, and not waited for; for a remote file the base name decides
(`index/search_index.go:65`), so the third of these says nothing of a remote file that has
the base name of another on its chain.  A semaphore of two is the least that lets lookups run
concurrently, and chains of three references are enough for a branch to
meet itself and another.  It shows that a location has one reader, no file is read again below its own indexing, a
whole-file reference off its call chain carries the right index, every index
that was stored is listed and stays what it is (`IndexesStayPublished`), and indexing
ends.

`IndexingCompletes` holds there because no two documents name each other.
Run `loader_deadlock` has two that do and finds the deadlock (section 5).

Fairness: some goroutine runs as long as one can (`WF_vars(Next)`), the least
the Go scheduler gives.  No step can be undone, so each gets its turn.

### 3.2 `TranslateParallel` and `TranslateSequential`

`TranslateSequential` is the loop the code runs inline for short inputs: the
abstract specification.  `TranslateParallel` is the pool: `Enqueue`, `CloseJobs`,
`CloseDone` are the producer, `TakeJob`, `Answer`, `Exit` a worker, `Receive`,
`Flush`, `Drain`, `Return` the calling goroutine.  An item is what its two
callbacks will answer: nil, `Continue`, `io.EOF` or another error.

Run `translate_slice`: four items, two workers, all inputs of which up to two do
not simply go on.  Four items exceed both channel and workers, so that results
wait out of order and the producer blocks.  It shows that the pool implements
the loop (same deliveries, same order, same verdict), that an answer always finds room in
an open channel (`AnswersCanBeSent`), nothing runs after the return, and the call
returns, for which producer, workers and caller must each be
scheduled when they can go on.

### 3.3 `TranslatePipeline`

`TranslatePipeline` with the two goroutines `Paths.Build` puts around it: `Feed`
and `CloseIn` send and stop when `done` closes, the reader's `Finish` ends the
call.  A worker that fails translates, stores its error and cancels in three steps, so that
the error of a later input may be stored first.  The channels' capacity is twice the
concurrency.  Run `pipeline_two_workers`,
five items (359 thousand states): results arrive in order, the returned error is the first
a worker stored although a full channel may have swallowed the answer, and all goroutines
finish.  Fairness as above, per goroutine.

### 3.4 `RolodexIndexing` and `RolodexCircular`

`RolodexIndexing` is `IndexTheRolodex`: `fs`, `file` are its goroutines; the
channels are unbuffered, so a send is one step with the receive in the caller's
`select`.  What the loader does during the indexing of a file appears as
`LoadLazy`.  `Init` chooses which file systems without files are a plain `fs.FS` and
whether circular checks are avoided.  Run `indexing_fan_out`: three file systems,
three files, a document that a file or the root loads and one that only the root
does.  When all file systems are of type `RolodexFS` the build starts behind the
last file and no goroutine is left; what is returned is built and checked; the
call returns in any case.  `AllFilesIndexed` speaks of those runs only: a plain
file system is counted twice (section 5).

`RolodexCircular` has the calls of a rolodex in any order.  A visit of the
resolver comes upon some of the loops of its index, and a loop that several
indexes share may be recorded by any of them, because a reference one resolver
has marked `Circular` is passed over by the others.  Run `circular_calls`: three
indexes, one of which joins late, and one loop of each class, checks made while
indexing or left to later.  Ignored and infinite loops are never lost, answers
only grow, and safe loops are answered when the check is left to later, as the
document constructors have it.  With the other setting they are not (section 5).  `RolodexProofs` extends both
modules, so the specification of this one has names of its own (`CircularInit`,
`CircularNext`, `CircularSpec`); `checkLater` is the flag `AvoidCircularReferenceCheck`.

### 3.5 `SchemaProxy`

`Schema`, `AddNode` and `Hash` of one proxy, called by any goroutine any number
of times (each adds one node at most: the bound).  `once`, `rendered`, `held`
and `schemaNodes` are `schemaOnce`, `rendered`, and the two node maps; `Range`
over a `sync.Map` visits what was there when it began and perhaps what came
later.  Run `proxy_schema`: two goroutines, every kind of proxy, a build that
works or fails.  Two are enough for one build, one wait, and one `AddNode` or
`Hash` across it.  `NodesAddedWhileCopyingArrive` leaves out the one order of
steps in which a node is lost (section 5).  Fairness: each goroutine goes on;
nobody has to call.

### 3.6 `ArazzoEngine`

`stack` is the Go call stack of `runWorkflow`, one frame per running workflow,
with its step, transitions and retries.  What executors, criteria and
expressions answer is a choice, and the context may end at any time.  Run
`engine_calls` has seven calls: `RunAll` over a chain of dependencies, over a
document with a missing dependency, over one whose steps run what others depend on, and
in the order that is accepted for a document with a repeated id (section 5);
`RunWorkflow` on three workflows that run each other and themselves.
`MaxDepth` 3 and `MaxTransitions` 3 stand for 32 and 1024; both limits are
reached.  `SummaryIsTruthful` and `DependenciesReported` judge what `RunAll` itself
reported; a result that a nested run overwrites (section 5) is outside both.

### 3.7 `ArazzoOrder`

`topologicalSort` with its queue and counts.  `document` is the list of workflows, each
with its id and the names in its `dependsOn`.  A count is the number of places where the
workflows of an id name one that is not in the order yet, so that a name given twice
counts twice and one that nothing bears never.

Two workflows may have one id: only `Validate` reports that
(`arazzo/validation.go:178-190`), and neither `NewEngine` nor `RunAll` calls it.  The counts
are by id, but the queue gets an entry for every workflow (379-387), and the length of
the order is compared with the number of different ids (402).  `RootsOnce` says that
workflows that depend on no other have their ids for themselves; where it fails the sort
may not be one (section 5).  Ids that others share do no harm, as their counts come down to
zero once.

`DependencyOrder` says what an order is; `TopologicalSort` is the refinement, for the
documents that satisfy `RootsOnce`, and that the sort ends, for all.  `ArazzoProofs`
extends this module and `ArazzoEngine`, so the specification has names of its own
(`SortInit`, `SortNext`, `SortSpec`).  Run `order_three` (52 thousand states): every
`dependsOn` of three workflows over these and an unknown name in which one workflow may
name anything twice, three being the least for a cycle that some workflow waits for
without being on it; and documents of four workflows, two or three of which have one id.

### 3.8 The tables, and `WhatChanged`

`Shapes` says how an object is described: a content for each field (one, a list or
a map of scalars or objects), what `BuildModel` reads by reflection, what a `Hash`
writes and how, what a `Compare` function makes of each field, and which reports its
totals go into.  `LowBase`, `LowV3`, `LowV2` and `LowArazzo` have the fields, builds
and hashes of every object, `ChangesBase`, `ChangesV3` and `ChangesV2` the
comparisons, one definition per Go type or function.

`WhatChanged` takes two documents that differ in one edit (a field filled, emptied or
modified, an entry added, removed or renamed, a value that moved to another field)
and follows it from the object that was edited to the root, by any chain of
objects that may hold one another.  `CompareEdited` is the comparison of the edited
object, `CompareField` and `CompareUnmatched` those of the objects that hold it;
`seen` is whether the hashes differ, `counted`, `listed` and `broken` are whether
`TotalChanges`, `GetAllChanges` and `TotalBreakingChanges` have the change.

`BreakingRules` has the rules that are built in, how a configuration is merged with
them (`Merge`), what `IsBreaking` answers, and which rules an object asks for a field
(`Asked`).  `Breaks` asks them of the edit: a change that no rule is asked for never
breaks (`calm`), always does (`bold`) or does by what the code says (`fixed`); a field
that is `overruled` judges the changes of its contents again, by its own rule.  `asked` is
the rules that decided last.  The run merges a configuration with the default that
makes some rules stricter and some milder.

Run `what_changed` (63 thousand states, under a minute) does so for all fields of all
objects of OpenAPI 3 and Swagger.  `WhatChangedMC` lists the edits, contents and breaks
that the code does not report, with the reason; `EditIsReported` says that all
others are, `GapsAreSilent` that the listed ones are not, so that the lists cannot
grow stale, and that the rules under `Unheeded` decide nothing that is reported.
`ObjectAgrees` also says that an object asks only for rules that are there and that
every rule but those is asked for; that an edit with a known gap is not made by its object,
or goes at most to the object that holds it (`GapsStaySilent`); and that whatever asks for
an unheeded rule is overruled by what holds it (`UnheededAreOverruled`).  The state space needs no bound: the types are finitely many, and
`broken` stops at two.  A comparison ends at the root, which nothing holds: deadlock is
not checked.  Nothing is said of liveness for the same reason: every chain that can
go on may.

### 3.9 `Rendering`

`Members` says how a high-level object is described: a kind for each member (which
decides what `NodeBuilder` takes for empty), what the constructor copies from where,
what a `MarshalYAML` writes itself.  `HighBase`, `HighV3`, `HighV2` and `HighArazzo`
have these tables.

`Rendering` loads an object (`Load`: `Build`, then the constructor), edits a member
(`Edit`), renders with references inlined or as they are (`RenderInline`, `Render`), and
loads what came of it.  It looks at one field at a time and at one other of the same
content, the one that it could be mistaken for.

| state | code |
|---|---|
| `said` | the text of the two fields |
| `low`, `high` | the low-level field and the member |
| `inlined` | `DynamicValue.inline` |
| `before`, `wanted` | the text and the model that were rendered, for the properties |

Run `rendering` (47 thousand states): every member of every OpenAPI 3, Arazzo and
overlay object, and the loading of those of Swagger, which have no `MarshalYAML`.
`LoadShowsDocument`: what a document says is in the model.  `RenderKeeps`: a document
that was not changed, or that the library has written itself, is rendered as it was.
`EditArrives`: what was set is there after `RenderAndReload`.  The exceptions are listed
in `RenderingMC`.  `FieldsAgree` says of every field what the lists have to say of it,
given what its build, its constructor, its tag and its `MarshalYAML` do: a list that names too
little or too much violates it, and the other three properties follow from it (section 4).
`Rounds` is 2: the second round is the first whose low-level model comes from a render, and
a third would begin as the second did.  The rounds are bounded, so deadlock is not
checked.  `RenderingProofs` extends this module and `InlineRendering`, hence `RenderingSpec`.

### 3.10 `InlineRendering`

Goroutines that render the schemas of one model, each with a context of its own,
without one, or not inline.  `stack` is the Go call stack of a render, one frame per
schema; `tracker`, `preservedReferenceNodes` and `preservedRefs` are the maps of the
contexts, which preserve references by node or by text; `told` is the context that a
`DynamicValue` was last told to inline with, which it keeps.  `MatchesLoop` compares a
reference with the circles that the resolver found: by identity where the context is
strict, and else by name, or by file if the loop point is a whole file.  `SetInline` and
`TellDynamic` are the two assignments that tell a dynamic value, which another
goroutine may come between.

Run `inline_rendering` (102 thousand states): two goroutines, seven documents - a
diamond, a list of itself, a circle in another file, a union with a discriminator,
two schemas of one name, a whole file on a circle with a bystander in it, references that
the program made - in five ways: default,
validation, as the bundler does, without a context, plain; with the circles known or
not.  Two goroutines are enough for one to store its context in a dynamic value
between the two steps of the other, and four schemas for a circle that is reached by
two ways.  `MaxDepth` 12 is never reached.

`CirclesAreReal`: a reference that is left for a circle closes one, unless its target has
the name of a loop point, or lies in a file that is one, and the context is not strict, or
the context came with a dynamic value (section 5).
`RenderIsWhole`: a render that reports no error has inlined what it should.
`TrackerIsTheStack`: a context tracks what is being rendered in it and nothing else.
`RendersReturn`: a render ends, however the schemas refer to each other; each
goroutine goes on, since nothing it does waits.  Renders end and are not repeated: deadlock
is not checked.

### 3.11 Mutants

Beside definitions stand variants marked as mutants: the code with a lost guard,
a missing reset, a swapped order or an off-by-one.  `PROJECT.json` names, for
every property, the one that violates it; no specification uses them.

`TypeOK` is checked by no run, since it is proved where it is stated (in `ArazzoOrder`,
`SortTypeOK`, as a part of the invariant `SortInv`).

## 4. What is proved

| Module | Theorem | Says |
|---|---|---|
| `RolodexLoaderProofs` | `TypeCorrect`, `ReaderIsUnique`, `FragmentLookupsAreExclusive`, `RecursionIsBounded`, `WholeFileIndexIsRight`, `PublishedStays` | for every document graph, outcome and semaphore |
| `TranslateParallelProofs` | `TypeCorrect`, `AnswersAreSent`, `NothingLeaks`, `PoolImplementsLoop`, `PoolIsNeverStuck`, `PoolWorksOff` | for every input, number of workers and capacity, of slices and maps, with a result callback or without |
| `TranslatePipelineProofs` | `TypeCorrect`, `OutputIsInOrder`, `CallerIsToldTheTruth`, `PipelineIsNeverStuck`, `PipelineWorksOff` | for every sequence of inputs and number of workers |
| `RolodexProofs` | `IndexingTypeCorrect`, `BuildWaitsForAll`, `NothingIsLeftOut`, `IndexingIsNeverStuck`, `IndexingWorksOff` | for every set of file systems and files |
| | `CircularTypeCorrect`, `InfiniteLoopsAreNotLost`, `IgnoredLoopsAreNotLost`, `SafeLoopsAreNotLost`, `NoAnswerIsTakenBack` | for every set of indexes and loops, in any order of calls |
| `SchemaProxyProofs` | `TypeCorrect`, `NoStaleHash`, `OnlyStraddlingNodesAreMissed`, `HashDoesNotDependOnTiming` | for every number of goroutines |
| `ArazzoProofs` | `TypeCorrect`, `ResultsAreComplete`, `DependenciesComeFirst`, `DependenciesAreResolved` | for all workflows, steps, dependencies, outcomes and limits |
| | `SortImplementsOrder`, `CyclesAreFound` | for every document in which workflows that depend on no other have their ids for themselves (`RootsOnce`), whatever else it repeats, names or lacks |
| | `OrderIsAPlan` | for every document; that no id comes twice, if `RootsOnce` |
| `WhatChangedProofs` | `EditReported`, `ChangesAgree`, `BreakingCounted`, `GapsSilent` | for all tables that agree, object by object, whatever the objects and however deep they nest |
| `RenderingProofs` | `TypeCorrect`, `ContextsTrackTheStack`, `StacksArePaths`, `CirclesFoundAreReal`, `RendersAreWhole` | for every document, way of rendering, number of goroutines and depth |
| | `DocumentsAreShown`, `RenderingKeeps`, `EditsArrive` | for all tables that agree, field by field, whatever is edited and however often it is rendered |

Assumptions are the named `ASSUME`s of the modules.  Most give the shapes and the
finiteness of the constants, or say that `nil` is no value.  These say something of what is
loaded, rendered or run:

* `RefsDeduplicated`: the references of a document are looked up once each, as
  extraction has it;
* `DocumentAssumption` of `InlineRendering`: a file and a name tell schemas apart (a map has
  one entry for a key), a use leads to a schema of the document, and the loop points that
  the resolver reports are on circles.  The last is `Resolver`'s to show, and
  `CirclesFoundAreReal` says what renders make of it;
* `CallAssumption` of `ArazzoEngine`: the plan of a call names workflows of the document,
  any of them as often as it likes; `OrderIsAPlan` proves that of what the sort returns.

`OrderAssumption` leaves documents as they come, with ids and names repeated or unknown.
`RootsOnce` is no assumption but a condition in `SortImplementsOrder`, in
`CyclesAreFound` and in the second half of `OrderIsAPlan`: without it the code does not do
what they say (section 5).

The theorems of `WhatChangedProofs` have the hypothesis
`TablesAgree`, which says of each object, and of those it holds, that its functions do
their parts; the run checks it of every object of the code (`ObjectAgrees`).  Likewise the
three theorems about `Rendering`, whose `TablesAgree` says of each field that the lists of
exceptions are what its build, constructor, tag and `MarshalYAML` lose, forget or make up;
the run checks it of every field of the code (`FieldsAgree`).

The arguments:

* *Loader.*  No property is inductive: that a location has one reader follows
  only if the stored waiter is tied to a claiming task (`WaiterInv`), exclusive
  lookups only if the lock names the place of its holder (`LockInv`).
  `NoReload` needs that every file on a chain is in the cache while anything
  below it runs, hence that the job of each ancestor is indexing;
  `WholeFileCarriesItsIndex` needs that a closed channel means a stored index or
  an empty file, and that a stored object belongs to its location.
  `IndexesStayPublished`: what is stored is listed or about to be (`CatalogInv`), and
  nothing is about to be when the root document is done, since a lookup runs only while
  the document it is made for is being indexed (`RunInv`): of the lookups that still ran,
  the one with the shortest chain would be made for one that runs, too.
* *Pool.*  `AnswersCanBeSent` counts: the answers in `doneChan`, those received
  and the jobs held together are the jobs taken, at most `N`.  The refinement
  maps the caller's `next`, `delivered` and `verdict` to the loop's; its
  invariant says that `pending` holds no index below `next`, so `Flush`
  is the loop's step and every other action a stutter.
* *Pipeline.*  The collector hands on the inputs before `nextSeq` (`DeliveryInv`).  That
  none of them is missing in the end needs to say where every input is (`NothingIsLost`: held,
  in a channel, with a worker, pending or handed on, unless a failure has cancelled the
  rest), and that the goroutines end one after the other behind a closed channel
  (`EndInv`).  `ReturnIsTruthful` needs that a stored error is that of an input that
  failed, and that whoever has gone on from a failure has stored one before it cancels
(`FailureInv`).
* *Indexing.*  `completed` equals the number of file systems that are gone, and
  such a one has no file left; so the count is full when all files are collected.
* *Coming to an end.*  Of the pool, the pipeline and the indexing of a rolodex two
  theorems each say what their safety has to do with it: until the call has returned some
  goroutine can go on (`...IsNeverStuck`), and each of its steps leaves less to do
  (`...WorksOff`), so that a call ends after at most `5 N` + workers + 3 steps of the pool,
  `6 N` + 3 workers + 7 of the pipeline and, of the indexing, three for a file
  system, three for a file read in advance, one for a document loaded on demand and three
  more, in every order of the goroutines.  Nobody can be blocked for ever in the pool
  since every answer has room; in the pipeline since the output is closed only
  behind the last result or for a failure (`ClosedForCause`), and a failure cancels
  everyone; while a rolodex is indexed since its caller never stops collecting before all
  are done: it has counted at least those that are (`CountInv`), one that is no
  `RolodexFS` too.  `FeederCan`, `WorkerCan`, `FSCan` and the like say when a goroutine
  can go on; on small instances TLC found them equivalent to `ENABLED` of its steps, which
  no run repeats.
* *Circular references.*  What is gathered covers what is found, and a cached
  answer covers it too; only a visit finds anything.  An answer that is computed again
  comes from gathered loops that only grew, of those it was computed from before
  (`GatheredInv`).
* *Proxy.*  At most one goroutine builds; a held node was held when the copying
  began or belongs to an `AddNode` under way then; the generation counts the nodes.
  A second invariant fixes the one answer `Hash` can give.
* *Comparison.*  One invariant per total, kept by every edge from an object to one
  that holds it: the change is counted and the hashes differ unless the objects on
  the way are compared in any case; it is listed unless an unlisted edge was passed; it
  is in the breaking total as often as the edges passed say.  Agreement of one object with
  those it holds is what an edge needs.  For the silence of the gaps: a silent edit
  goes at most to the holder of its object, which is no root (`GapInv`), a hidden one is
  never counted again (`HiddenInv`), and an unheeded rule that decided last is still to be
  overruled (`HeedInv`).
* *Inline renders.*  That the tracker is the stack is not inductive: a schema that is
  done takes its key away, and another with the same key would be left untracked.  So no
  two schemas that are being rendered have the same context and key.  Four lemmas
  say how a step may change a stack; every action is one of them.  A stack is a path
  of the document through schemas that were built, each in the context of its
  goroutine where that is its own (`PathInv`).  So a reference whose target is tracked in a
  private context closes a circle; a reference that a context preserves was marked for a
  reason that still holds (`MarkInv`); and every reference that was left had a reason, and its goroutine has met
  with an error if that was a circle outside the root document (`LeftInv`).
* *Arazzo.*  The outermost frame is the workflow of the plan whose turn it is, and all
  others are of workflows that some step or goto calls (`StackInv`); what is reported is the
  plan up to there (`ReportInv`).  So a workflow that nobody calls has a result
  only when it was reported with it, and such dependencies of the workflow whose turn it is were
  reported before it began (`DependencyInv`).  The frames below the top wait for it, and
  lemmas say how a step may change a stack (`GoingOn`), as for the renders.
  When a workflow of the plan has had its turn, it has a result, and no result is
  taken back (`PastInv`): in a plan with dependencies first, only what the document
  lacks can be missing.
* *Sort.*  A count is the number of mentions of what is not in the order yet, and the queue
  is the order with those whose count is zero (`QueueInv`).  So what is taken is
  ready, and when the queue is empty everything that remains waits for something that
  remains: that is the circle.  Conversely, each workflow of the order is behind those
  it depends on (`BehindInv`), and of a circle in it the first would have one before it.  An id is queued
once, though several workflows may have it, since under `RootsOnce` either it is one of
those queued first, or its count comes down to zero once.
* *Rendering.*  Between rendering and loading, the models are still those that were
  rendered, and the text is what the low-level model and the edited member make of
  it (`DocumentInv`).  What is loaded again is therefore a function of the text before and of the
  edit; lemmas, one per kind of text, say which, given agreement of the field.  After the
  first round nothing hides a member and nothing is told to inline (`ModelInv`), so
  that every round after it is like the second.

Only model-checked: liveness under fairness, which includes that the sort and the pool come
to an end (proved are the safety halves of both refinements).  Of the pool, the pipeline and
the indexing nothing of it is left to TLC but the fairness itself, that a goroutine that can
go on does.  Two more properties are not for all values but for those of the code,
`ObjectAgrees` and `FieldsAgree`: they enumerate its tables.  Induction over data, by the theorems of the library that take an
operator, is outside the prover's reach; where a chain had to be followed back, the least
of a set of numbers sufficed (`WFMin`).  Only proved: that fragment lookups of one index
exclude each other, that the stack of a render is a path of the document, and what
`CyclesAreFound`, `OrderIsAPlan` and `DependenciesAreResolved` say of Arazzo, and how many
steps a pool, a pipeline and an indexing take at most.

## 5. Findings

Disagreements of the code with what it says of itself.  The first has a run that ends
in it; the properties of the other runs exclude exactly these cases, by a condition
of the property or by the lists of the configuration.

Loading and indexing:

* `loader_deadlock` - two parallel lookups enter documents that name each other
  from both ends; each is off the other's call chain and waits for its index for
  ever (`find_component_external.go:56`).
* `indexing_fan_out` - a file system that is no `RolodexFS` is counted twice
  (`rolodex.go:390-391`), so indexes may be built before the others are done.
* `circular_calls` - `IndexTheRolodex` sets `circChecked` without gathering safe
  loops, and `GetSafeCircularReferences` no longer asks for them.
* `proxy_schema` - a node whose `AddNode` read `rendered` before the build and
  stored after the copying stays in the proxy.

Comparison (`what_changed`):

* a value that moves between fields that `Hash` writes one behind the other leaves
  the hash as it was, and is not reported (`what-changed/model/server.go:62`);
* changes of server variables are made and dropped (`server.go:83`);
* the rules of examples decide nothing: examples in maps are judged by the rule of
  the map (`comparison_functions.go:66-86`), single ones by that of the object they are
  in.  Nobody asks for `Schema.Example`, `Header.Schema` and `MediaType.ItemEncoding`
  either.  The changes of Swagger's types and bounds of parameters, headers and items
  always break, since there are no rules for them (`parameter.go:152-208`,
  `header.go:146-198`);
* breaking changes below `allOf` are counted twice (`schema.go:309`), those of
  extensions never (`document.go:112` and 25 others).

Rendering (`rendering`):

* the v2 header takes `Format` from `Type` and loses `ExclusiveMinimum` and
  `UniqueItems` (`datamodel/high/v2/header.go:48`);
* additional operations of a path item are built without nodes and taken for absent
  (`datamodel/low/v3/path_item.go:443`);
* a requirement with more scopes than its document has panics when it is rendered
  (`base/security_requirement.go:113`);
* FALSE and 0 behind pointers without `renderZero` are not rendered
  (`node_builder.go:633`);
* after an inline render, dynamic values never render as references again
  (`base/dynamic_value.go:120`).

Inline rendering (`inline_rendering`):

* a dynamic value keeps the context of the last render, so that one goroutine goes on
  in the context of another and refuses references that close no circle
  (`base/dynamic_value.go:119`);
* contexts that are not strict take schemas of one name in two files for one
  (`base/schema_proxy.go:1154`), and if a loop point is a whole file, everything in the
  file for the loop point (`base/schema_proxy.go:1125-1134`): a reference to a schema that
  is on no circle is left because the file that it is in is on one;
* renders without a context drop the errors of the node builder and return what is
  left (`shared.go:55`, `base/schema.go:639`).

Seen while modelling, present in the models, without a run of their own:

* a goroutine that missed the cache may claim and load a file again that another
  has just finished (`rolodex_file_loader.go:105`), against lines 99-101;
* a file is put in the cache before it is indexed (`rolodex_file_loader.go:140`),
  against lines 530-533;
* a remote file that loaded is returned with the errors of others and dropped
  (`rolodex_remote_loader.go:646`);
* indexes registered while files are collected are dropped when the list is
  replaced (`rolodex.go:429`);
* with `UseSchemaQuickHash` the hash of a reference depends on whether it has
  been built (`schema_proxy.go:331`);
* two workflows may share an id, since `RunAll` does not look for it, and if they depend
  on nothing the id is in the order twice (`arazzo/engine.go:379-387`).  The length of the
  order is compared with the number of ids (402): `login`, `list`, `login`, without
  dependencies, are reported as a cycle although there is none; if a fourth, `pay`,
  depends on itself the two errors make up for each other, the order is accepted, and
  `RunAll` reports success without having run `pay`;
* a step or a goto runs a workflow without looking at its `dependsOn`
  (`arazzo/step.go:54`), so `RunAll` may run it first; its later result is also
  the one that its dependents are judged by.  No property speaks of this: the two of the
  summary leave out dependencies that a step or goto runs;
* `$anchor`, `minContains`, `maxContains` and `$defs` of schemas, extensions of
  contacts and server variables, path items of components, defaults of v2 headers and
  items, and `$ref` of v2 path items are compared by nobody;
* hashes that write a map without its keys hide the renaming of a key, and those of
  `License` and the v2 `Response` leave out extensions and headers;
* lists of strings are compared as sets, whatever their case
  (`comparison_functions.go:773-850`); `path_item.go:639` of the comparison uses the
  index of one list for another;
* the comparisons of schemas (`schema.go:571-593`) and of components write shared
  fields from several goroutines, and `schema_proxy.go:1096` appends to the slice that
  the index returned, which may be shared;
* empty entries of an enumeration of server variables are dropped
  (`low/v3/server_variable.go:31`), an `OAuthFlow` without scopes is rendered with
  empty ones, and an empty `tags` or `servers` list is rendered once as `[]` and lost at
  the second render;
* references made by the program are inlined by no render: it reports an error unless
  they are preserved; circles of the root document are left as references without
  an error, in validation mode too.

Contracts left to the caller: `orderedmap/orderedmap.go:243` documents that an
iteration that is left early must be cancelled.

## 6. What is not modelled

Parsing, JSON, path and URL normalisation, mock data and generated text: data
without control.  Retries of remote fetches.  Torn reads of unlocked fields: a step
reads or writes a field at once.

* `SchemaProxy`: what a schema is hashed from.  `StaleHashNotCached` compares
  generations: no hash that is kept is older than the last `AddNode`.  It says nothing of
  its value, of which nodes are no part.
* `WhatChanged`: a field that is filled gets a value other than the zero of its type, so
  that an explicit `false` or `0` where there was nothing is not among the edits; the
  merge of `allOf` (`schema.go:1788-2005`), unions that are
  equivalent to a scalar (1783, 2008-2108), changes of `$ref` (400-485), the order of
  the goroutines of a comparison, the reading and checking of a configuration of
  breaking rules, and its replacement during a comparison.
* `Rendering`: the order of keys, how a scalar is spelt, references other than those of
  schemas, the `Reference` members of objects that a program makes, the rewriting of
  discriminator mappings, references that components preserve, the type of a criterion's
  expression, extensions of items and scopes.
* `InlineRendering`: references with siblings, the bundler's rewrites and the identities
  it prepares in a context, external references to what is no schema, and circles of
  required properties, which only the index that found them knows.

The builders of documents with goroutines of their own are in the plan.  The
components of section 1 without a module are `not_modelled` in `PROJECT.json`, with
the reason or the planned module.
