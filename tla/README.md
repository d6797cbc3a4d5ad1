# Universal Config Engine: specification, model checking and proofs

This directory specifies the parts of Universal Config Engine whose correctness depends on order,
timing, failure and budgets. It holds TLA+ modules translated from the TypeScript sources
(`packages/core`, `packages/node`), TLC configurations that check them on small instances, and
theorems that TLAPS proves for every instance. `PROJECT.json` relates each definition to the source
lines it models, each property to a run and to a mutated definition that breaks it, and each hazard
to the properties that watch it.

Contents: [the system](#the-system) · [modules](#modules) · [runs](#runs) ·
[fairness](#fairness) · [proofs](#proofs) · [abstractions](#abstractions) ·
[divergences found](#divergences-found) · [not modelled](#not-modelled) · [plan](#plan) ·
[reproducing](#reproducing)

## The system

The library turns *sources* (objects, files, environment, arguments) into one configuration with
the provenance of every value. It runs on one JavaScript thread. Concurrency is the interleaving of
promise continuations, timers, file-system callbacks and the application's own callbacks; the file
system changes under it; the application may abort at any moment; callbacks may throw, return
nonsense, or never settle. Nothing is persisted, so there is no crash recovery.

| Component | State | Operations | What is hard | What makes it correct |
|---|---|---|---|---|
| **Reloader** `node/reload.ts`, deadlines in `operation-deadline.ts` | snapshot, revision, active and queued request, notification in progress and parked event, terminal reason | `refresh`, `close`, `abort`, continuations of `perform`, of the task and of the observer; two deadlines | re-entrant calls from inside `load`, `onChange` and `onError`; callbacks that ignore their signal; a close between a settlement and its continuation | one load and one observer at a time; a refresh is answered by the next load, never by one that was already reading; closing answers everyone and silences the reloader |
| **Watcher** `node/watch.ts`, `watch-setup.ts`, `watch-config.ts` | handles per directory, debounce and maximum-wait timers, selected, pending and last-good dependencies | setup, selection and rebinding, event, error, flush, close, and the load that drives the selection | events between a read and its watch; partial failure while handles are exchanged; close during an await | every event leads to a later load; what is read is watched; last-good files stay watched; nothing leaks |
| **File reading** `node/file.ts`, `file-read-limiter.ts`, `file-source.ts` | leases of a shared limiter, one handle per read, bytes read | open, stat, realpath, identity, read in chunks, close, parse | other programs move, replace and grow files at any of seven awaits; aborts; failing closes | contents come from inside the root and within the limit; leases equal occupied files |
| **Inheritance** `node/pipeline/inheritance.ts`, `node/pipeline.ts` | visiting stack, seen and complete files, order, bytes | read, announce, look up, leave, compile | links and `extends` lists change during the traversal; diamonds and cycles; shared budgets | parents first and once; real cycles only; every read was announced |
| **Pipeline** `core/loader.ts`, `pipeline.ts`, `validation.ts`, `typed-pipeline.ts`, `operation.ts` | stage, current adapter, bounded diagnostics and events, captured output | call, settle, abort, next stage | the signal fires anywhere, adapters never settle, three nested bounds on diagnostics | a fault never ends in a good result; an abort ends the operation, once |
| **Merge** `core/merge.ts`, `merge-key-budget.ts`, `coercion.ts` | tree, owner of every leaf, displaced parents, key budget, issues, events | begin a source, write an entry, coerce, finish | parents and children replacing each other across sources and inside one | the entry-by-entry result is the deep merge with its ownership; budgets are exact; errors survive |
| **Path index** `core/resolved-path-index.ts` | a trie with counts | add, delete, related, owner | pruning after long sequences | queries equal their definition on the set of entries |
| **Declaration search and application loading** `node/discovery.ts`, `load-config.ts`, `pipeline/source-loading.ts`, `source-paths.ts` | candidate being looked at; loaded sources, cached canonical paths, issues and events so far | search; declare, announce, load each source, run the pipeline, create and run declared validators, validate the output | candidates come and go between `lstat`, `realpath` and `stat`; links move between announcement and opening; the signal at every stage; one budget for all stages | the nearest candidate decides; sources are announced before they are opened; no stage fails silently |
| **Declarations** `node/pipeline/declaration-validation.ts`, `declaration-normalization.ts`, `profile-validation.ts`, `node/profiles.ts` | issues found so far, ids and targets seen | check each field, source, mapping, rule, validator, limit and profile; select a profile; normalise | early returns, checks that depend on earlier ones, a bound on issues, checks repeated elsewhere | exactly the declarations the documented rules allow are accepted, with every profile; what is accepted can be loaded |
| **Environment and argument sources** `node/process-env-source.ts`, `argv-source.ts`, `core/mapping.ts` | position in the arguments, claimed targets | scan, split, match, parse, place | a value that looks like a flag, duplicates, empty values, targets inside one another | every mapped input reaches its target once, in its format |
| **Comparison, change policy, redaction** `core/inspection.ts`, `diff.ts`, `comparison.ts`, `change-policy.ts`, `path-intersection-index.ts`, `redaction.ts`, `compiled-redaction.ts` | the diff, the caches of the rule evaluator, violations | compile redaction, inspect both sides, compare, evaluate rules, report | secrets known to one side only; a secret that cannot be compared; failing reports; caches shared by rules | nothing secret is shown by either side; a policy passes exactly when its rules hold |
| File and dotenv parsers, CLI, schema adapters, scripts | – | – | – | see [not modelled](#not-modelled) |

Interactions: the CLI and the application find a declaration (*search*) and call `loadConfig`, which reads declarations
(*Inheritance*, through *File reading*), checks each (*Declarations*), announces and reads the declared sources (*File
reading* again, *Environment and arguments*), then runs the *Pipeline*, whose resolution is *Merge* over the *Path index*,
and the declared validators. Two results go to the *Change policy*. `watchConfig` wraps `loadConfig` in a *Reloader* and
feeds it from the *Watcher*; `onDependencies` is the callback through which the traversal tells the watcher what it is
about to read, and the read waits for it.

## Modules

| Module | Models | State and actions |
|---|---|---|
| `RefreshService` | the abstract promise of a reloader | requests wait, are served and answered; loads begin; a version is published; the service shuts |
| `Reload` | `createReloadState` | one variable per closure variable (`running`, `queued` as `wait`, `pendingNotification`, ...), `performAt` and `observerAt` for the awaits; each stretch of synchronous code is one action; the application's calls are enabled wherever it has control, inside callbacks too |
| `FileRead` | `readTextFileWithinLimit`, the limiter, `loadTextFileSource` | `at[r]` names the call that read `r` awaits; `IOReturns(r)` resumes it; `Retarget`, `Replace`, `Resize` are other programs |
| `Watch` | `watchConfigPathSet` with `watchConfig`'s load | `watch[d]` are the names a directory handle selects, timers count ticks, `loadAt` is where the load stands; the reloader appears as far as the watcher sees it |
| `ConfigPath`, `PathIndex` | path prefixes; `ResolvedPathIndex` | a trie as the set of its nodes and of those that hold an entry; insertion and deletion in any order |
| `Diagnostics` | `diagnostics.ts` | the bounded append and its overflow marker, shared by the next two |
| `Merge` | `resolveConfig` | the tree as a function from leaf paths to kinds, owners per leaf; one action per source, entry and coercion rule, `RefuseRules` for a list of rules that is too long |
| `Pipeline` | `runValidatedConfigPipeline` | `stage`, `index` and `step` locate the current `runAbortable`; `Settle`, `Deliver` and `SettleLate` are the adapter's side, `Abort` the signal |
| `Inheritance` | `loadDeclarationInheritance` | an explicit stack for the recursive `visit`; `Edit` is another program |
| `Discovery` | `discoverPipelineDeclaration` | the candidate, the call that is awaited; `ChangeEntry` is another program |
| `LoadConfig` | `loadConfig`, `loadValidatedConfig`, `loadDeclaredSources` | `phase` is the stage or the await; `Move` and `Abort` are the outside; stages modelled elsewhere are one step with any outcome those modules allow |
| `Application` | composition of the two | a declaration is named, or found and handed over |
| `PathTrie` | `addDeclarationPath` of `declaration-validation.ts`, `addMappingPath` of `core/mapping.ts` | conflict of a target with those before it |
| `Declaration` | validation of a declaration and of its profiles | the issues as a fold over the checks in their order; a document is its fields (absent, good, empty, wrong) |
| `Overrides` | environment and argument sources | recursive functions over the arguments; texts belong to the sets of formats they match |
| `DeclaredInput` | composition: declaration, profile, normalisation, sources | one step per stage, each recording what it decided |
| `Redaction` | `createPathRedactor`, `buildDiagnosticReport` | operators over results |
| `Comparison` | inspection of a result, diff of two | operators over results |
| `ChangePolicy` | `checkConfigChanges` | compare, one rule at a time with the two caches, report |
| `ReloadProofs`, `WatchProofs`, `ReadingProofs`, `MergeProofs`, `DiagnosticsProofs`, `PipelineProofs`, `ApplicationProofs`, `ChangePolicyProofs` | theorems | see [proofs](#proofs) |
| `MC*` | small instances | constants for TLC |

`Pipeline`, `Merge`, `LoadConfig` and `Declaration` extend `Diagnostics`; `Merge`, `PathIndex` and `Redaction` share
`ConfigPath`; `ChangePolicy` extends `Comparison`, which extends `Redaction`; `Application` extends `Discovery` and
`LoadConfig`; `DeclaredInput` builds on `Declaration` and `Overrides`; `Reload` instantiates `RefreshService`. The other
modules stand alone and are tied by interface: `Watch`
relies on one load at a time and one queued refresh, which `Reload` establishes (`NoOverlappingLoads`,
`NextLoadAnswers`), and on reads that are announced first, which `Inheritance` and `LoadConfig` establish
(`ReadsAnnounced`, `SourcesAnnounced`); both rely on `ContentsAsPromised` of `FileRead`; `LoadConfig` relies on
`FaultsFailTheResult` of `Pipeline`.

Definitions named `Bug_...` are not part of the model. Each is the mutated form of the definition
that follows it: a bug somebody could plausibly write there. Replacing the definition by it makes
TLC violate the property that `PROJECT.json` names, so that no property holds idly. Variables marked
*auxiliary* record history for the properties, and no guard reads them.

## Runs

| Run | Instance and bounds | Question |
|---|---|---|
| `reload` | 3 refreshes | overlap, answers, close and coalescing under all re-entrant calls; does `Reload` implement `RefreshService`; is every refresh answered and does the observer catch up, though promises never settle? |
| `file` | 2 reads, 1 lease, 2 foreign changes, 3 files of which two share an inode number and two a device, 2 bytes of which 1 is allowed | where do the contents come from, does the limiter count occupied files, does every read end? |
| `watch` | 3 paths, 2 directories, 2 layouts, debounce 1 and maximum wait 2 ticks | leaks, forgotten events, unwatched reads; does every event reach a load? |
| `watch_error_emitted` | 2 paths, 1 directory | does the documentation's claim about watch errors hold? It does not |
| `path_index` | all 15 paths of up to 3 segments over 2 keys | are trie queries exact, and does pruning leave exactly the nodes that lead to an entry? |
| `merge` | 3 sources, 2 priorities, 4 nested paths, budgets that can all overflow | is the incremental merge the deep merge? |
| `pipeline` | 2 loaders, 2 validators, 1 output validator, 2 issues, 4 events | faults and aborts at every await |
| `inheritance` | 4 files, a link, a place outside, budgets of 4 files and 7 bytes, 2 edits | order, cycles and announcements while files change |
| `application` | 3 directories of 2 names, at most 2 to search, 1 change; 5 declarations of up to 5 sources over 2 files, reached by their paths or by links, with 5 layouts, 2 moves, 3 events, 2 issues | who decides the search, what is opened, what makes a load fail |
| `declaration` | some 1250 declarations, one or two edits from a good one; 4 environments, 10 argument lists | are the verdict, the normalised declaration and the mapped inputs those of the reference? |
| `issues_omitted` | the declarations with too many issues | does the documentation's claim about omitted issues hold? It does not |
| `change_policy` | pairs of results over 2 keys and up to 5 nodes, 2 sources, secret objects on both sides and failed results without a tree included, 6 policies, 3 query paths, 4 selections, reports that fit or do not | is something secret shown, does a policy pass wrongly? |

Why the bounds are enough for what they ask. *Reload*: one request runs, one queues and all others
join the queued one, so the third is the first that meets every situation. *FileRead*: the
races need a place to lead elsewhere, or a file to be replaced or grown, after a check, and the second change
undoes the first or combines with it; the
limiter needs one read more than leases. *Watch*: a rebinding that
drops one path, keeps one and adds one, in the same directory or another, needs three paths and two
directories; one debounce restart plus the forced flush needs two ticks. *Merge*: displacement
involves a parent, two siblings and a grandchild, and three sources make one override an override.
*Pipeline*: a stage differs in its first, a middle and its last adapter only through what is left of
the two budgets, which two adapters and two issues exhaust. *Inheritance*: a diamond with a link to
its base contains chains, shared parents and cycles; two edits change a link and change it back, or a
link and a document. *Application*: a search passes a first, a middle and a last directory and its limit lies between;
a candidate can appear or vanish behind the search once, and each candidate is looked at by three calls. The sources come from
two declarations in different directories, and two moves change the workspace or a source and change it back.
*Declaration*: every check of the code is reached by a declaration one field from a good one; those that relate two fields
(ids, targets, limits of a profile) get all pairs; three issues fit, and up to four arise. *Change policy*: a secret value may be
above, at or below the path of a rule, and its owner on either side; the second rule reads the caches the first left.

In all runs but `path_index` deadlock checking is off because the system may really stop: a reloader
is closed, reads are done, a result is delivered.

What the properties say:

* `Reload`: `NoOverlappingLoads`, `NoOverlappingObservers` (abandoned calls included);
  `NextLoadAnswers` (a successful refresh carries the first load begun after it was asked);
  `CloseAnswersEverything`; `ObserverUpToDate`; `SilentAfterClose`; `CountRelativeToLastEvent`;
  `ImplementsService`; `EveryRefreshAnswered`; `ObserverCatchesUp`.
* `FileRead`: `ContentsAsPromised` (from inside the root, within the limit, not aborted, the file closed), `NoReadAfterAbort` (neither another
  call nor another chunk of a file is asked for once a read has seen the abort),
  `LeasesMatchFiles`, `EveryReadEnds`.
* `Watch`: `NothingLeaksAfterClose` (a start that failed included), `ReturnedAlive`, `NoEventForgotten`,
  `WatchedBeforeRead`, `GoodStaysWatched`, `EventsAreLoaded`.
* `PathIndex`: `RelatedIsExact` (with `NoDeadBranch`: the trie has just the nodes that its entries need), `OwnerIsNearest`.
* `Merge`: `MergeIsDeepMerge` (against `Overlaid`, the definition of a deep merge of the whole
  source with the ownership of every leaf), `KeyCountIsExact`, `ErrorsSurvive`. When there are more coercion rules
  than events allowed, `coercion.ts:37` answers with an empty tree and `merge.ts:147` takes it over while the owners stay
  (`docs/adr/0013` documents the empty configuration): tree and owners agree except in such a failed result (`GivenUp`).
* `Pipeline`: `FaultsFailTheResult`, `AbortReportedOnce`, `NoCallAfterAbort`, `AbortEndsTheOperation`.
* `Inheritance`: `ParentsFirst`, `CycleIsReal`, `ReadsAnnounced`.
* `Discovery`: `DiscoveryDecides` (a candidate that exists throughout is never passed over; in a quiet file system the first
  decides alone). `LoadConfig`: `SourcesAnnounced` (a file is opened under an announced name, or its declaration, which
  an announced path led to, has been moved during the load), `StagesFailTheResult`.
* `DeclaredInput`: `VerdictIsExact` (accepted exactly when the rules, written as a predicate over the whole declaration, hold),
  `NormalisedIsValid` (normalisation refuses nothing that validation accepted, and what a profile selects is valid again),
  `InputsAsMapped`.
* `ChangePolicy`: `NothingSecretShown`, `PassedRulesHold` (a policy passes exactly when `Holds` is true of every rule, which
  is defined without diffs, caches or indexes).

The type invariants of `Reload`, `Watch` and `FileRead` are theorems; those that `DiscoveryInv` and `StageInv` contain serve
`Application`. The other modules state theirs, where they do, as documentation.

## Fairness

Fairness is given only to what the runtime guarantees.

* `Reload`: synchronous callbacks return, resolved promises are continued, timers fire. No fairness
  for the application: promises returned by `load` and `onChange` may stay unsettled, and nobody has to
  call `refresh`. `EveryRefreshAnswered` therefore rests on the deadlines alone.
* `FileRead`: the operating system answers each call (with success or failure). Nothing else.
* `Watch`: the debounce and maximum-wait timers, the load's deadline and continuations. No event, I/O
  or observer has to happen; events may come for ever, and `Delay <= MaxWait` keeps them from postponing
  a load for ever.
* `Pipeline`: continuations and the synchronous stages. Adapters may never settle, and
  `AbortEndsTheOperation` holds nevertheless.

## Proofs

TLAPS checks the theorems listed in `PROJECT.json` over all values of the constants. Assumptions are the named `ASSUME`s of the
modules, which TLC evaluates in each run.

**`ReloadProofs`**, for any number of requests, with and without an observer. `TypeCorrect` is the type
invariant, joined with the fact that counted events exist only with an observer. Four
strengthenings follow, each proved by one case per action:

* `LoadInv`: a load that is live is the latest; an open reloader has one only while `perform` is in it, awaits it or
  is about to stop over its timeout. It yields `LoadsNeverOverlap`; the property alone is not inductive because it says nothing of
  where `perform` stands when the next load begins.
* `RequestInv`: who waits for which load, relative to the number of loads begun. It yields
  `FirstLaterLoadAnswers` and `CloseLeavesNobodyWaiting`.
* `ObserverInv`: the same for the observer and yields `ObserversNeverOverlap`; `ClosingIsFinal` is the
  action property `SilentAfterClose`.
* `ServiceInv`: what the mapped variables of the abstract service have to satisfy. With one simulation lemma
  per kind of step it yields `ReloadImplementsService`: every step of `Reload` is a step of
  `RefreshService` or a stutter, under the mapping at the end of `Reload`.
* `EventInv`: while the observer listens, the last accepted event is told or parked, at most without its count, and a parked
  count is relative to what was told last. It yields `ObserverIsUpToDate` and `CountsAreRelative`.

**`WatchProofs`**, for any paths, directories, layouts and delays. `TypeCorrect` first. `LifeInv` follows a watcher from its setup to
its close: a closed one has no timers, a closed reloader and only handles that refused to be released; before the reloader exists nothing is
loaded or remembered; a start whose watcher died meanwhile knows why (an error, an abort, a load that missed its deadline) and fails.
It yields `ClosingReleases`, `EventsAreRemembered` and `HandedOverAlive`, none of which is inductive alone, since a setup may be overtaken by a close at each of
its awaits. `GraphInv` relates the dependencies to the selection: what a rebinding in progress is about to select contains the
good and the pending files, and an open watcher watches the groups of what is selected. It yields `ReadsAreWatched` and `GoodIsWatched`.

**`ReadingProofs`**: files and the declarations in them. For any number of reads, leases, files and places, `HoldInv` says, for each call a read can be waiting for,
which handle and which lease it has; `LeaseInv` that the limiter's number is the cardinality of the leases held, which changes by one
element at a time. They yield `LeasesAlwaysMatch`; `AbortStopsReading` is an action property. `ContentInv` says what each await
already knows of its file: where it was found, and how many bytes it has given. `ContentsAreAsPromised` follows under the assumption that
every device is known: where a platform does not report one, equal inode numbers pass for the same file, in the code as in the model.

For any declarations, links, budgets and edits, three invariants follow the traversal of `Inheritance` on its explicit stack:

* `VisitedInv`: the places of a file in the order, on the stack and among the edges that were seen agree; every declaration that
  is complete is listed once, and whatever it was seen to extend stands before it. `ParentsFirst` alone is not inductive, since it
  speaks of results only. It yields `ParentsFirstHolds`.
* `CycleInv`: a reported cycle goes round along extensions that were seen. The way from the file met again to itself runs over the stack;
  that there is one from each frame to the next is induction along the stack, replaced by taking the least frame without
  a way (`LeastNumber`: each nonempty set of numbers has a least one). It yields `CycleIsRealHolds`.
* `AnnounceInv`: the parents of each declaration on the stack are announced before any of them is read. It yields `ReadsAnnouncedHolds`.

And of one declaration, from its document to the sources it declares, for any fields, ids, paths, limits and profiles, any bound on issues,
any environment and any arguments:

* `ValidationExact`: validation reports nothing of the declarations that are `WellFormed`, and of no other. A validation is a list of steps
  folded into a bounded list of issues; `ValidationQuiet` says that its result is empty exactly when every step is quiet. Whatever is cut off or
  ended early, the first step with an issue leaves one behind, and until then nothing ends. One lemma for each check says when it is quiet (`MappingEmpty`,
  `SourceEmpty`, `BodyQuiet`, `ProfileQuiet`), `TargetsUnique` that the tree of target paths finds a conflict exactly when two
  paths overlap. A fold is a function chosen over the sets of its places; that there is one is `FoldExists`, by `LeastNumber` again.
* `Normalised` and `NormalisedKept`: of a well formed declaration normalisation keeps every field and adds a list of sources to its profiles;
  doing it twice is doing it once. `CompiledSame`: a profile selected after it is the one the document has.
* `InputInv`: what is read, selected or loaded is well formed and normalised, and what is read comes from the document. It yields
  `NormalisedIsValidHolds` and, as an action property, `VerdictIsExactHolds`. `NormalisedIsValid` alone is not inductive: that nothing is reported
  of a declaration says nothing of it joined with a profile, until it is known to be well formed.
* `LoadedInv` adds that the sources are what the declaration, the environment and the arguments make them. What that is, two loops tell, each with an
  invariant over the items it has passed; a fold is taken apart into its rounds (`MappingsRun`, `ScanRun`, `RefusedRun`) by `FoldExists`. `Mapped`, of the mapping loop:
  the paths set are the targets of the mappings that apply, each code is for one of those that fail, and the tree of paths holds nothing but
  targets passed, so that no sound mapping meets a conflict (`NoConflict`). `Scanned`, of the scan: which token the next round skips is the one `takenIn`
  defines without a scan, and what is known of each name is a function of the places where it occurs (`StatusExact`).
  `MappedCount` puts them together: every mapping sets its path, is silent, is refused or is reported, and only one of these. It yields `InputsAsMappedHolds`.

Assumed (`InputConstants`) of a document is the shape of parsed JSON in the model: what stands beside the fields is empty where the field is absent. Of what a process
is given: an environment is a finite function, the arguments are a list, and an argument `name=value` contains `=`.

**`MergeProofs`**: the merge and the index of its resolved paths.

* `TrieInv` says of the index, however entries are set and deleted, that its map and its marks agree and that each node leads to an entry.
  It is inductive and yields `NoDeadBranchHolds`; `RelatedIsExactHolds` and `OwnerIsNearestHolds` are consequences: the deepest entry on
  the walk exists by `LeastNumber`, applied to the distances from the end of the path.
* `OverlayInv` is what lies between two entries of a source (`PartlyOverlaid`): the tree and its owners are those of the sources
  before, overlaid by the entries written so far, in whatever order they came, and the displaced parents are those of leaves above a written one.
  Once no entry is left this is `Overlaid`, so `MergeIsDeepMergeHolds`. After the sources, exactly the leaves have owners unless
  the tree is `Dropped` (too many coercion rules); then there is an error in the list for good (`DroppedIsGivenUp`). The property itself holds only between sources, where it says
  nothing of the entries to come.
* `ReportInv` and `WriteInv`: a failure is still an error in the bounded list; each write of the present priority still owns
  its leaf, as long as nothing failed, so that a second source that overlaps it finds that owner and reports the conflict. They yield
  `ErrorsSurviveHolds`.
* `CountInv`: the tree is a finite antichain and its nodes and array entries are as many as the count that is kept. `ProjectionIsExact` is the core:
  a write at a node takes away the nodes below it, a write elsewhere adds those segments of its path that are no nodes (`NewNodes`,
  `FewerNodes`), and an array in the way takes its entries with it (`WrittenArrays`); coercion hangs a tree in at a scalar
  (`ExpandedTree`). It yields `KeyCountIsExactHolds`. With `OverlayInv` it also yields `ResultAsDeclaredHolds`: a finished
  merge meets what `ChangePolicy` assumes of a tree and its owners, so that the theorems of both modules compose.

Assumed of the sources is what flattening a JSON object gives: finite trees whose leaves are not above one another, within the limits on
paths (`ContentsAreTrees`); the same, under relative paths and not empty, of what a string decodes to (`DecodedAreTrees`).

**`DiagnosticsProofs`**: `AppendKeepsErrors` says that the bounded append keeps its bound and loses no error, whatever it cuts off.

**`PipelineProofs`**, for any number of adapters, any reports and any bounds. `CutKeepsErrors` says of a validator's
report what `AppendKeepsErrors` says of the list.
`AdapterInv` says who may still run: the adapter waited for, or one given up. It is what makes
`NoCallAfterAbortHolds` inductive. `FaultInv` adds where an error is while validators run: in the result or in
their own list, which has not been combined yet. `FaultsFailTheResultHolds` follows, with one case per action. `AbortInv` follows the message of an abort: until the signal ends
the operation neither list has it, then exactly one of them reports it, or is full and says that something was lost, until the two are combined. It yields
`AbortReportedOnceHolds`: a combination that cuts the message off leaves the overflow marker.

**`ApplicationProofs`**, for any workspace, declarations, links and budgets: the three properties of a search and the load after it.

* `DiscoveryInv`: nothing that lasts lies before the candidate, and, as long as nothing has changed, the candidate is what
  the calls before found it to be (`QuietInv`). It yields `NearestDecides`; `QuietDecides` adds that there is only one nearest candidate.
* `AnnounceInv`: declarations are announced by the paths they are named by, links or not, and used by the canonical paths these led
  to. What a path has led to leads to itself (realpath is idempotent, an assumption of `LoadConfigConstants`) until it is moved
  (`UnmovedIsStill`), also through the cache of canonical paths, which outlives a move. It yields `OpenedWasAnnounced`.
* `StageInv`: where a failure is while the load goes on: in a source until the pipeline has run, in the issues from then on.
  It yields `StagesFailTheResultHolds`. The property alone is not inductive: it says nothing before the end.

**`ChangePolicyProofs`**, for any two results, options, policies and limits. `SecretIsRedacted` says that whatever the definition
of a secret names is redacted on either side: the leaves of a secret source of the other side through `SharedLeaves`, the rest through `SharedParts`.
`InspectedIsSafe`, `ReportIsSafe` and `DiffIsSafe` carry it through the walk, the messages and the diff, `SecretsStayHidden` through the
policy and a report that does not fit.

`PassedPoliciesHold` is the other direction: a policy passes exactly when each of its rules holds of the two configurations, with nothing
secret left uncompared. `PolicyInv` is inductive: the diff is good (`GoodDiff`), the caches of the evaluator hold what they would be filled with now
(`CacheInv`), and there are violations just when one of the rules so far does not hold (`RulesInv`). What makes it yield the property are facts about a good diff:
an entry is redacted exactly when its path is secret (`RedactedIsSecret`), so that a rule over secret leaves cannot pass
unseen; the entries of a side are its visible nodes (`EntriesAreVisible`); and owners that differ show as a change (`OwnersShow`): at the leaf
itself, at the nearest leaf above, or at the topmost secret object that hides both (`TopmostSecret`, by `LeastNumber`). `InputsAsDeclared` assumes that a result's tree
holds the nodes above each node, that no owned path is above another and that owners of a result that is ok belong to the tree; of a
failed result it does not assume that (its tree may have been given up). `ResultAsDeclaredHolds` proves this of what `Merge` ends
with (its arrays are leaves: their elements, below the owner, are only in the tree to compare).

Only model-checked:

* liveness (`EveryRefreshAnswered`, `ObserverCatchesUp`, `EveryReadEnds`, `EventsAreLoaded`, `AbortEndsTheOperation`): the prover has no rule for fairness and `ENABLED`.

Every invariant and every action property that a run checks is proved.

`ContentsAreTrees` and `DecodedAreTrees` were stated for these proofs; the runs' instances satisfied them all along.

## Abstractions

* `Reload`: the content of snapshots, freezing and the computation of the change count are left out; whether a
  count exists is a choice. A load is its number.
* `FileRead`: no allowed root is `Inside = Places`. `checkFileSize` (one `stat`, used elsewhere) is not modelled.
  Contents are the identity of the file and a number of bytes.
* `Watch`: handles have no identity, so a late error of a replaced handle does not appear. `resolveWatchGroups` is a
  choice of one layout when it settles. Selecting the same set again may return at once or resolve again. The
  reloader's microtasks between a load and its answer are one step; `Reload` has them in full. Time is a count of
  ticks.
* `Merge`: locations and their budget, the checks before the first source and coercion inside arrays are left out.
  The decoding of a string is a choice among small trees; whether a rule applies is a choice. Rules may go on
  after a rule ran out of budget locally.
* `Pipeline`: the signal is always given; a call without one is the run in which it never fires. Resolution is one step
  that adds any report and number of events (`Merge` has its detail), in the order of the loaders. What an adapter
  returns is a kind and a list of severities. The signal may fire also between a continuation and the next call,
  which the code runs in one stretch: more interleavings, not fewer.
* `Inheritance`: relative names are paths already. A read is one step; `FileRead` has its awaits. The fields of a
  declaration other than `extends`, `sources` and `limits.maxSources` are left out, their validation is a choice of
  failure. The selection of a profile is a flag of the document. The policy conflict between two roots, a check on constants,
  is left out.
* `Discovery`: an entry is what the three calls would say of it. The handed-over path is not looked at again before it is read.
* `LoadConfig`: the outcomes of the traversal, of a read, of the pipeline and of a validator are choices, restricted only by
  what `Inheritance`, `FileRead` and `Pipeline` show: the traversal announces the selected path as given and any set of parents as
  written, and names as declarations of sources only what an announced path has led to since the load began. A canonical path
  leads to itself, while it leads anywhere. Two moves per load. Redaction of sources and display paths are left out.
* `Declaration`, `DeclaredInput`: a field is absent, good, empty or of a wrong type; a path is valid or not by its unsafe
  segments; the checks, their order, their early returns and the bound on issues are those of the code.
* `Overrides`: a text is a member of the sets of formats that accept it (integer, decimal, finite number, boolean, JSON).
* `Redaction`: which of several reasons is told and the matching of names by parts are left out: a segment is a secret name
  or is not.
* `Comparison`, `ChangePolicy`: bytes fit or do not; previews of values are not cut; a query path that is too long stands for
  every invalid one, a malformed rule for every malformed policy. Locations are a line. Arrays hold scalars.

## Divergences found

`docs/adapters/reload.md:165` says that "a watch error emits `rejected/watch_failed` and closes the watcher". Run
`watch_error_emitted` shows a behaviour in which it is not emitted: while an asynchronous observer runs, the event is
only parked behind it, and the `close()` that follows drops it. `watcher.state()` still tells; `onChange` never does.

`docs/cli/configuration.md:95` says that "the final retained diagnostic is `resource-limit/max_diagnostics_exceeded` when
additional errors are omitted". Run `issues_omitted` shows a rejected declaration with an issue too many and no such marker:
validators or coercion rules that are no list are reported with `push`, past the bound (`declaration-validation.ts:81` and
`:118`), and the next append cuts the list back to its bound without a marker. The declaration is rejected all the same.

## Not modelled

* The parsers of files (JSON, JSONC, YAML, TOML, dotenv): their result is one of the outcomes the models enumerate.
* The matching of secret names by parts of a segment and the compiled automaton behind it (`compiled-redaction.ts:67-417`):
  `Redaction` has a set of names instead. The public report with its aliases is formatting.
* Ajv, Zod and Standard Schema adapters: `Pipeline` treats every adapter as arbitrary. Their own conversion of issues is data.
* The command line: options, output and exit codes around one call of the library. Scripts and release tooling are not the program.

Known limits of what is covered: late errors of replaced handles and the order of exchange under the handle limit
(`Watch`), the fan-out of location histories and coercion inside arrays (`Merge`), redaction of declared sources (`LoadConfig`).

## Plan

Done, with proofs of every safety property: `Reload` and `RefreshService`; `FileRead`; `Watch`; `PathIndex`; `Merge`; `Pipeline`;
`Inheritance`; `Discovery`, `LoadConfig` and `Application`; `Redaction`, `Comparison` and `ChangePolicy`; `Declaration`, `Overrides`
and `DeclaredInput`.

What is left to model, if the project grows: the matcher of secret names; locations of `Merge` with their budget.

## Reproducing

In this directory, `tlc -config MCReload.cfg MCReload.tla` runs a configuration (each `.cfg` belongs to the module
`PROJECT.json` names) and `tlapm ReloadProofs.tla` checks a module of proofs.
