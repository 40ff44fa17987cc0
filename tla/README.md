# Verification of netweevil

TLA+ models of netweevil, a routing engine in Rust: the state that requests, jobs,
processes and the simulation share, and the algorithms whose answers are hard to test.
TLC checks them on small instances; for the caches, the traffic service, the workspace,
the files, the simulation and the contraction hierarchies TLAPS proves the safety
properties for every instance.

Contents: [1 The system](#1-the-system) · [2 Modules](#2-modules-and-the-code-they-model)
· [3 Runs](#3-runs-what-they-show-and-their-bounds) · [4 Fairness](#4-fairness) · [5
Proofs](#5-proofs) · [6 Findings](#6-findings) · [7 Not modelled](#7-what-is-not-modelled)
· [8 What may follow](#8-what-may-follow) · [9 Running it](#9-running-it)

## 1. The system

netweevil imports street data (OSM, Overture, GeoPackage) into a *dataset* of bundle
files, compiles *profiles* into metrics on that dataset, answers routing requests over
HTTP or from the command line, and adds public transport, live and historical traffic, and
an agent-based traffic simulation.

### Parts, state and operations

| Part (crate) | State it keeps | Operations that change it | Hard about it |
| --- | --- | --- | --- |
| `api`: service runtime, workspace | the loaded `ServiceRuntime` behind a lock, `workspace.json`, the job registry | activate, reload, dataset update and deletion, feed build and removal, uploads and imports | jobs on blocking threads load from files that other jobs and the command line change; swap and save are two steps; crashes between them |
| `api`: dynamic profiles | LRU of prepared engines, map of waiting requests, one compile permit | resolve a profile given in a request | single flight, recheck, failing compiles, clients that disconnect |
| `api` + `query`: traffic | published live snapshot; per profile an LRU of engines in shared slots; queue and worker | post and delete live updates, prewarm, select an engine | keys with positions, coalescing, expiry while queued, two-phase publication |
| `persist` | bundles, manifests, packed sections | write atomically, read, prune; encode and decode columns | concurrent processes, killed writers; values at the ends of a width |
| `ingest` | a dataset's bundles, its retained OSM source and contraction order | import, update with change files or a newer extract | write order, base read long before the result is written; what an update carries over |
| `profile`, `query` (search) | prepared engines (immutable), scratch space | contraction, customization, shortest paths, matrices, service areas, times and budgets | exactness on restricted turns, rounding, time dependence, parallel and partial customization |
| `transit` | timetables, transfer tables, scenario documents | import GTFS, connection scans, edit and build scenarios | forward/backward symmetry, packed encodings, clock changes |
| `simulate` | agents, queues, occupancy, zones, published state, inbox | one engine thread per simulation; pause, resume, cancel, zones, spawn, delete from the API | running balances over thousands of ticks, commands at any moment, end of a run |
| `report`, `cli`, `core` | none | rendering, argument parsing, shared types | nothing a model would reach |
| web console, QGIS plugin | inputs, runs under way, saved settings | edits, runs, the live timer, benchmarks, reload | answers and timers that overtake one another |

### How they interact

* HTTP handlers take a clone of the `Arc<ServiceRuntime>` and keep it for the whole
  request. Activation, reload and dataset updates build a new one on a blocking thread and
  swap it in (`crates/api/src/workspace.rs`); requests under way finish on the old one,
  which a prune may have robbed of files.
* The same bundle files are written by the API and by the command line. There is no lock:
  safety rests on fresh names, on writing the manifest last and on `write_atomically`.
* Live traffic posts go through a queue to one worker thread per runtime
  (`crates/api/src/traffic.rs`), which shares the engine caches with all requests.
* A simulation runs on a thread of its own and shares a state with its callers: a
  published status, an inbox of commands and a cancel flag
  (`crates/simulate/src/control.rs`).
* A dataset's contraction order is fixed by `ingest`; every profile customizes the same
  hierarchy (`profile`), every search reads it (`query`), and an avoid set customizes it
  again in part.

### What makes each part correct

* Dynamic profiles: one compile at a time, none for a cached document, every waiter
  answered with an engine of its own document.
* Traffic: equal metric keys mean equal engines; queued batches behave as if applied one
  by one; a snapshot is published only when every profile is ready for it.
* Workspace: a runtime never mixes two builds; the saved selection can be loaded after any
  crash; what is served and what is saved agree; every call ends.
* Bundles and files: a reader sees one writer's whole file; builds do not disturb readers;
  updates accumulate; a prune that runs alone removes exactly the rest; what is read back
  is what was written, and a broken file is an error.
* Hierarchies and datasets: an updated dataset is what an import would build; weights and
  queries are those of cheapest walks after any customization.
* Searches: routes, matrices, areas, journeys and departures are those of all walks,
  drives or journeys listed one by one.
* Simulation: loads equal the agents on an edge, closures hold, routes stay connected, the
  summary loses no agent, every run ends with a result.
* Web console: the page comes to show the answer to its inputs.

The file `PROJECT.json` lists every component with its sources and every hazard of the
code at its line, with the properties that cover it.

## 2. Modules and the code they model

Identifiers keep the names of the code where TLA+ allows. In each module one action is one
critical section, one file operation, one settled label of a search or one step between
two points where another thread may be observed. Definitions that stand immediately before
another and differ from it in one respect (`InsertUnbounded` before `Insert`) are faulty
versions: no specification uses them; they serve to see that the properties notice the
fault. `MC*` modules hold the instances.

| Module | Extends | Code |
| --- | --- | --- |
| `DynamicProfileCache` | | `crates/api/src/dynamic_profiles.rs` |
| `LiveTrafficUpdates`, `LiveTrafficStore`, `TrafficService` | each the one before, the store by refinement | `crates/query/src/traffic.rs`, `traffic/router.rs`, `crates/api/src/traffic.rs` |
| `Workspace` | | `crates/api/src/workspace.rs`, `state.rs`, `jobs.rs`, `gtfs_editor.rs`, start of `lib.rs` |
| `AtomicWrite` | | `write_atomically` in `crates/persist/src/lib.rs` |
| `BundleStore` | | `crates/ingest/src/import.rs`, `update.rs`, `crates/cli/src/profile.rs`, `prune_bundle_cache` in `crates/persist/src/lib.rs` |
| `ColumnCodec`, `BundleFormat` | each the one before | `crates/persist/src/codec.rs`, `sectioned.rs` |
| `Simulation` | | `crates/simulate/src/engine.rs`, `control.rs`, `demand.rs`, `crates/api/src/simulation.rs` |
| `CchWeights`, `Hierarchy` | each the one before | `crates/core/src/metrics.rs`; contraction in `crates/ingest/src/acceleration.rs`, customization in `crates/profile/src/compile.rs`, `engine/recustomize.rs`, `engine/avoid_engine.rs`, query spaces in `engine/acceleration.rs` |
| `OsmSource`, `Topology`, `Dissection`, `DatasetUpdate` | each the one before; the last also `Hierarchy` | `crates/ingest/src/source.rs`, `osm_change.rs`, `scan.rs`, `restrictions.rs`, `topology.rs`, `acceleration.rs`, `update.rs` |
| `RestrictionAutomaton`, `RouteSearch`, `RouteBatch`, `ServiceArea` | each the one before | `crates/query/src/engine/`, `route.rs`, `batch.rs`, `service_area.rs` and `service_area/` |
| `TimeSearch` | `RestrictionAutomaton` | `crates/query/src/temporal.rs`, `pareto.rs` |
| `TransitSearch`, `TransitFeed`, `TransitTables` | each the one before | `crates/transit/src/router.rs`, `backward.rs`, `service_area.rs`; `gtfs.rs`, `timetable_time.rs`, `transfer_rules.rs`, `editor.rs`; `timetable_pack.rs`, `fusion.rs`, `transfer_pack.rs` |
| `WebConsole` | | `frontend/src/state/run.ts`, `store.ts` |
| `CollectionLemmas`, `*_proofs` | | lemmas and proofs, section 5 |

### DynamicProfileCache

A request chooses a document (`Keys`), looks it up (`entries`, least recently used first),
registers in `pending` and, as first waiter, spawns a task. The task queues for the one
compile permit, checks the cache again, compiles or fails, inserts and answers everyone
registered. A client may disconnect at any point; the task runs on. `built` is a history:
the document every finished compile was made from. The strengthening `IInv` used by the
proofs is in the same module.

### LiveTrafficUpdates, LiveTrafficStore, TrafficService

`LiveTrafficUpdates` has the pure part: validity and expiry of an update, how a batch
turns the entries of a snapshot into the next ones. `LiveTrafficStore` is the abstract
promise: a queue of accepted batches, applied in order, update by update, at an instant
between their acceptance and the present, or dropped in groups when engines cannot be
built or an update that still counts has expired. `TrafficService` is the code: metric keys (bucket class,
snapshot version, positions of active entries), one LRU per router with `OnceLock` slots
(`get_or_build`: look up or insert under the lock, initialize outside, remove on failure),
posting with and without waiting, the worker that merges a batch from the last replacing
job on, builds every router's engine for now and only then publishes, and prewarming
before bucket boundaries and expiries. An engine is what its metric was derived from;
which number a slot has is a choice, since memory is reused. The refinement mapping at the
end of `TrafficService` takes the worker's batch and the queue together as the abstract
queue, and the setup's own failing profiles as the reason to drop; `since` in a queued job
is a history of when it was accepted.

### Workspace

Files on disk are variables: dataset manifests, topology bundles, compiled-profile
manifests and metric bundles (one name per dataset and profile whatever the build), feeds,
`workspace.json`. A call has a program counter and goes through admission (handler
checks), spawn of its job, and the steps of `load_service_runtime`: read manifest and
topology, read the compiled manifests, load the metric or compile it, load feeds, carry
the live state, swap, save. Dataset updates, scenario builds, removals and deletions have
their own steps; the command line's update and compile run without the server. `Break`
lets any step of a runtime job or of the command line that touches a file fail, also the
save after a swap and the reload after an update's manifest is written. `Crash` kills the
server and loses its calls; `Start` loads the saved selection.

### AtomicWrite, BundleStore, ColumnCodec, BundleFormat

`AtomicWrite` has the names and inodes of one path: truncating create, flush by flush,
rename, removal of the temporary name on any error, death of a process with its temporary
file left behind. The temporary name carries the process number only, so that calls of one
process use one name, one after the other or at the same time, and so do processes that are
given the same number. `shared` is a history: the inodes that calls of one process had in
hand while they overlapped.

`BundleStore` has the bundles of one dataset (topology, names, acceleration, source), its
manifest and the compiled profile. Import and update write bundles of fresh names one by
one through partial files and repoint the manifest last; loading reads a manifest and then
each bundle, names much later; prune reads manifests, lists directories, deletes. A call
may be killed anywhere.

`ColumnCodec` has every column encoding as encode and decode over a byte of few values, so
that varints, narrow and wide integers meet their ends. `BundleFormat` composes columns to
the seven kinds of bundles with derived and explicit structures, writes them as sections
deflated in chunks, cuts files short or takes them for another kind, and reads them.

### Simulation

The engine thread is a program counter over its phases: dispatch fleets within the
horizon, drain the inbox, apply commands, spawn, move, reroute within the budget, end the
tick, build the result, publish, record. Every agent has its record (status, route,
position, trajectory, forced reroute, cooldown); occupancy and outflow are the arrays of
`EdgeDynamics`. Callers send a script of commands at any moment. How far an agent comes in
a tick and which detour is cheapest are choices, so what is checked does not depend on
speeds or costs.

### Hierarchy and datasets

`Hierarchy` contracts the turn graph in rank order, lets a metric be customized by tasks
that relax the triangles of their subtree of the elimination tree side by side, serves it,
and customizes it again in part after an avoid set, in any order of the queue that the
code's ranks allow. Queries climb from both ends and join. The reference is
`CheapestFrom`, the cheapest walk through a set of inner states.

`DatasetUpdate` composes it with the import: `OsmSource` scans objects, keeps them in a
snapshot and applies change files to what the snapshot restores; `Topology` builds nodes,
edges, restrictions as paths of edges and weak components; `Dissection` orders the states
or patches a carried-over order. A dataset is imported, updated up to twice and may then be
served by the hierarchy.

### Searches

`RouteSearch` chooses and runs one search for a query, one settled label per step:
two-sided (hierarchy, turns, banned edges) or with restriction states (penalties, A* with
hierarchy potentials, limits on illegal movements). `RouteBatch` adds the three ways to
route a matrix, `ServiceArea` the areas around origins. `TimeSearch` has the searches that
carry a clock or the consumption of a component, forward and back from a deadline.
`TransitSearch` has both connection scans with their journeys, `TransitFeed` the timetable
they run on from a GTFS feed or a drawn scenario, `TransitTables` its packed form; what is
read back is searched again. In all of them the answer is compared with a definition that
lists all walks, drives or journeys.

### WebConsole

One page: what is entered is one of `Contents`, a run has a key and a pool of requests
under way, the live timer captures what it will run, a response may break off. Runs are
started, cancelled, overtaken and benchmarked in any order; settings are saved by a timer
and read at a reload.

## 3. Runs: what they show and their bounds

The counts are distinct states; a run takes at most about four minutes on two workers.
Every property of a passing run is also seen to fail once one definition of the model is
replaced by a faulty version (`mutants` in `PROJECT.json`).

| Run | States | Shows |
| --- | --- | --- |
| `DynamicProfileCache` | 116 k | single flight (`OneCompile`, `WaitersHaveTask`), LRU shape, answers, every connected waiter answered |
| `TrafficService` | 276 k | an engine is the one the request's own snapshot asks for, whoever built it; the coalesced queue implements `LiveTrafficStore` and drops a batch for its two reasons only (`AppliesInOrder`); swaps find engines ready; waiting clients are answered |
| `Workspace` | 299 k | saved selections load after a crash anywhere; serial jobs leave service and disk in agreement, whatever fails, but for what a failed job had swapped in or written; no runtime mixes builds; every call ends |
| `AtomicWriteProcesses` | 1.2 M | readers see one writer's whole file; success means the data is in place; only files that overlapping calls of one process had in hand are excepted |
| `BundleStore` | 1.1 M | readers are undisturbed, builds are kept together, updates accumulate, a lone prune is exact; what is written in every kind of bundle is read back, and broken files are errors |
| `Simulation` | 787 k | loads, routes, closures, the summary and the end of runs |
| `Hierarchy` | 539 k | weights and queries are those of cheapest walks after every order of parallel tasks and of partial recomputation; an updated dataset is an import of the changed extract; a carried-over order keeps ranks |
| `RouteSearch` | 178 k | routes, matrices and service areas against all walks; what areas leave out is behind a point or within the rounding of a limit |
| `TransitSearch` | 418 k | journeys in both directions and areas against all journeys; timetables and their packed form, and exactly which packed tables are refused |
| `TimeSearch` | 120 k | drives, departures and the frontier of budgets against all drives, with the exact cases in which less is found |
| `OriginOnEdge` | violation | see finding 1 |
| `WebConsole` | 471 k | the page comes to show the answer to its inputs, unless a tool was left and come back to within the delay; settings are saved |

Bounds, and why they are enough to meet the interesting cases:

* **DynamicProfileCache.** Three requests, a cache of two, three documents and one that is
  preloaded: eviction, two waiters on one key while another key compiles, a leader that
  leaves, a task that finds the key inserted meanwhile.
* **TrafficService.** One request thread that asks again and again next to the worker and
  two clients, two features, two bucket classes, cache of two: a key of one snapshot names
  another feature in the next, slots are evicted while waited for, numbers of slots are
  reused. In the other setup two clients wait for four kinds of batches (several updates,
  a clear, a time to live that may expire in the queue, a replacing one) over two profiles
  of which one may be unable to derive engines; the clock (`MaxTime` 2, two ticks to the
  minute) passes one expiry.
* **Workspace.** Two datasets, two feeds, five scripts of up to four calls of different
  kinds, at most one crash. Races here are between pairs of calls and one crash between
  two steps; the scripts put each kind next to those that use the same files. A call is
  made once, in any order and overlap.
* **AtomicWriteProcesses.** Two processes, of which one makes three calls, after one
  another, at the same time or after a death under the same number, two of them with less
  to write; one reader. A partial file that was left behind is inherited and must be cut;
  two calls that overlap write into one file, and a third one may come alone after them.
* **BundleStore.** Combinations of three calls, one kill. Two builds at most, with a
  reader, a compile or a prune next to them; a third call sees what a kill left. Bundles
  of seven kinds with columns of zero to a few rows whose values reach the ends of their
  widths.
* **Simulation.** Five edges: two ways into a bottleneck and a detour around it, three
  agents (a ghost without collision, a truck of two units, a car of a fleet that is
  spawned by a command), four ticks (0 to 3), a check every second tick, one reroute per
  tick, six scripts of commands. Spawn blocked by a full edge, a red signal, a forced and
  a voluntary reroute, a failed dispatch, arrival, and a run that ends by time, by cancel
  or because all arrived all occur.
* **Hierarchy.** Five states, ranked in every order of three road maps, with costs that
  round to nothing and costs that saturate, task limits from one thread to subtrees of
  three, avoid sets of one or two states; extracts of up to six ways with every kind of
  change, updated twice.
* **RouteSearch.** Five roads ranked in three orders, restrictions of two to four edges
  that overlap, failure modes, bans, two candidates per point, matrices of two by two,
  areas with two limits; prices of whole ticks and others that the hierarchy rounds;
  reference walks of up to nine edges.
* **TransitSearch, TimeSearch.** Timetables of two lines with closed doors, walks and
  transfer rules; maps of five edges within a day of six minutes whose edges and turns
  open, close and change speed, all departures and deadlines of a horizon of a few
  minutes past the day. In `Fine` networks a tick is half a second, so that waits begin
  and end within one; a table of walks has more sets of cost names than the bytes of its
  smallest block; a last edge is shut for the cheaper of two ways (`Awaited`).
* **WebConsole.** Three tools of which two are live, two contents of which one is ready in
  one of the two only, one request in flight at a time, one older run that is still
  ending.

Properties are stated for what the code can be held to. Where nothing in the code excludes
an overlap (two updates of one dataset, a prune next to a build, two runtime jobs between
check and registration, two scenario builds), the property has a premise on the history
variables that record it (`met`, `overlapped`; `Tame` and `Serial` in `Workspace`), and
what happens outside the premise is an observation below. Where the code gives less than
its documentation promises, the property has the promise with the exact exception: it
names the states, files, positions or drives for which the promise fails (`shared`,
`SaveFailed`, `LoadFailed`, `BehindPoints`, `Rounding`, `tooMany`, `WaitsAreWhole`,
`FrontierIsKept`, `stray`), its comment says why, and each exception was seen to be needed:
without it the run finds a counterexample.

All configurations but `WebConsole` state `CHECK_DEADLOCK FALSE`: each instance makes
finitely many calls and may rest afterwards; that none rests too early is what the
liveness properties say.

## 4. Fairness

* `DynamicProfileCache`: weak fairness of a request's registration and of each key's task.
  Tokio runs a ready task eventually, and the compile permit is a FIFO semaphore, which
  the model's `slotQueue` is. Clients have no fairness: they may never ask, and may leave.
* `TrafficService`: weak fairness of each request's steps once it selects an engine, of
  the worker's steps within a job, and of its taking the next batch. The worker is a task
  of its own that blocks only on the queue and on slots that another caller is
  initializing. Clients and the clock are not fair.
* `Workspace`: weak fairness per call once it was taken up, since each runs on a blocking
  thread that waits for nothing but the file system; a failing step (`Break`) may always
  happen and is never relied on. Whether a call is made, the server is
  started or dies, is up to others; a crash ends a call as `lost`.
* `Simulation`: weak fairness of the engine's thread only. It follows that a run which is
  paused for good never ends, and `RunEnds` says so.
* `WebConsole`: weak fairness of timers, responses and the continuations of runs, which
  the browser's event loop runs once they are due. The user and the server's choice of
  answers are not fair.
* The other modules check safety only: their calls may die at any time, or a search is a
  sequential loop.

## 5. Proofs

All proofs are for every value of the constants that the named assumptions allow. None of
the properties is inductive alone; each module proves that one inductive invariant holds
initially, is kept by every step (one lemma per action, one step per conjunct the action
can disturb) and implies the properties. Each invariant was first checked by TLC on the
run of its module (that of the hierarchy on 72 of its 360 ranked networks).

**`DynamicProfileCache_proofs`** (capacity 1 to 16): `TypeCorrect`, `CacheShape`,
`SingleCompile`, `NoOrphanedWaiter`, `OwnEngine`, `SingleMiss` from

    IInv == TypeOK /\ CacheWellFormed /\ SlotInv /\ WaiterInv /\ EngineInv /\ MissInv

`insert` appends without looking, so that a document is cached once only because the
inserting task holds the permit and found the key absent after it got it (`SlotInv`). A
waiter is never stranded because registering and draining are both under the lock of
`pending`, so that a key has waiters exactly while a task for it is alive (`WaiterInv`).
An engine answers a request only through the result of its key's task or a cache entry of
its key (`EngineInv`). A compile is one request's miss because only the leader among its
waiters is told so and there is one leader per key (`MissInv`).

**`AtomicWrite_proofs`** (any writers, readers, processes and sizes, and any overlap of
calls): `WholeFiles`, `SuccessfulWrite`. Calls of one process under way together have
`shared` files (`SharedInv`); any other file in hand has been filled with its writer's data
only (`WriterInv`), no two processes have a file in common (`OwnInv`), no inode has two
names (`NameInv`), an inode yet to be created has none (`FreshInv`), and an inode someone
reads is whole, or shared, and never written again unless it was shared (`ReaderInv`). The
exception is the one thing the code leaves to its callers, see section 6.

**`BundleStore_proofs`** (any number of calls, kills and builds): `Invariant`,
`CompleteDataset`, `OneBuildLoads`, `SerialUpdatesAccumulate`, `PrunesAreExact`. The
invariant has twelve parts: which files each call has written, read or listed at its stage
and from which published build; that builds are published whole and in order; who met
whom; and what a lone prune has listed and spares. The meeting history makes the premise
inductive: two calls under way at once have each other in `met`.

**`TrafficService_proofs`** (any requests, clients, profiles, batches and capacity):
`Invariant`, `OwnEngine`, `WarmSwap`, `InOrder` from

    IInv == TypeOK /\ WorkerOK /\ VersionsDiffer /\ NobodyAhead /\ SlotInv
            /\ EnginesGood /\ KeysBehind /\ WarmSoFar

A version number names one snapshot among those in use, since only the worker is ever
ahead of the published one (`VersionsDiffer`, `NobodyAhead`); so a key, which holds
positions in a snapshot, is read by everyone who may use it as it was written
(`KeysBehind`, `EnginesGood`). A slot belongs to one key, has one builder, and is free
once no cache and no caller refers to it (`SlotInv`).

The last part of the module is the refinement: `InOrder` proves `Spec => AppliesInOrder`,
that the service implements `LiveTrafficStore`. Its invariant
adds to `IInv` that queue and batch are well-formed jobs, the batch empty exactly when the
worker has none (`JobsOK`), and that a swap under way holds the published snapshot with
the batch's updates (`SwapOK`), and that every job was accepted in the past. A post maps
to `Accept`, the clock to `Elapse`, a publication to `Apply` of as many jobs as the batch
has, at the instant its engines were built for. A failing `BeginApply` maps to `Drop`
because an update of a batch that no later one replaces has expired by then, an abandoned
swap because a profile of this service is among those that cannot build engines; everything
else is a stutter. That the merged batch does what its jobs do one by one is a
statement about folds over sequences of any length. The library's induction theorems
cannot be instantiated by the installed provers; `CollectionLemmas` derives a first-order
form instead: a set of numbers that contains 0 and the successor of each member contains
`Nat` (`StepByStep`, from the well-foundedness of `<`), and its variants for folds over
positions (`FoldInduction`, `FlattenSteps`).

**`Workspace_proofs`** (any datasets, feeds, calls and crashes): `Invariant`,
`OneBuildWeighed`, `StartNeverFails`, `JobsAgree` from

    IInv == TypeOK /\ Weighed /\ (Tame => TameInv) /\ (Serial => SerialInv)

What is loaded goes together (`Fits`, `Weighed`). `Tame` says that runtime jobs never
overlapped and that at most one scenario was built, whose feed no activation names; under
it the saved selection loads at any point (`Startable`), at most one job is under way
(`OneJob`), and each call has what its stage needs (`LoadOK`, `UpdateOK`, `ActivateOK`,
`BuildOK`), whichever steps have failed. Under `Serial` what a job leaves apart for a while is what it will put
together (`SavedAgrees`, `BuildAgrees`, `Current`).

**`Simulation_proofs`** (any network, fleets, sizes, zones, scripts and length):
`Invariant`, `LoadsMatch`, `RoutesStayWhole`, `EndsAddUp`, `ClosuresAreObeyed` from ten
parts: how far each agent has come on which route (`AllOnRoute`), that every waiting agent
is in one queue once (`InQueues`), what the loops over agents have in hand (`Underway`,
`InLoops`), which fleets are yet to be spawned (`Fresh`), and that the counters count
agents (`Counted`, `OccupancyMatches`, `Ending`, `SummaryAddsUp`).

**`Hierarchy_proofs`** (any network, ranking, metric, task limit, order of parallel tasks
and of the partial recomputation, any avoid set): `Invariant`, `SidesAreSettled`,
`ServedIsExact` from

    IInv == TypeOK /\ Filled /\ Together /\ InOrder /\ Settled /\ Weighed /\ Fitting

The one assumption beside types is `2 * (N * Overflow) < Infinity`: `Infinity` stands for
the infinity of floating-point numbers and is above every sum a query forms. The argument:

1. Contraction leaves no gap (`Filled`): what two arcs join over a contracted state is
   joined by an arc.
2. A task holds what is joined to its middles from below (`Together`, by the elimination
   tree: `TasksFollow`). So a triangle's sides are final when it is relaxed, whatever the
   other tasks do (`InOrder`, `RelaxedIsFinal`: this is `SidesAreFinal`), and a queued arc
   is recomputed from arcs that will not change (`Settled`).
3. Outside the queue every arc weighs what its turn and its lower triangles say
   (`Weighed`, with `Value` as the reference).
4. The reference is a walk: the cheapest walks of at most N - 1 steps satisfy the
   equations of a metric (`WalksAreMetric`, `CheapestIs`); by induction over the middles
   counted, partial weights are the cheapest walks through lower ranks, cut at the
   greatest storable cost (`PartialsAreShortest`).
5. The two search spaces hold the cheapest walks up and down (`SettledIsNear`,
   `ForwardSpaceIs`, `BackwardSpaceIs`); the cheapest walk between two states has a
   highest one, at which the spaces meet (`SpacesMeet`, `JoinIsShortest`).

The second half of the module is about `UpdateSpec`, in which the network that the
hierarchy is built for is no constant but what an import and its updates make of an
extract: `UpdatesKeepInvariant`, `DatasetsServedExactly`, `DatasetsSettleSides`,
`DatasetsAreOrdered`, `DatasetsKnowComponents`, `DatasetsKeepOrder`. Its invariant `UInv`
says that there is either a dataset whose topology, components, snapshot and order are
well-formed (`IsDataset`) and no hierarchy yet, or a hierarchy under `IInv`. It holds for any extracts, any change files and any cells of at
least one state (`UpdateAssumption`, `DissectionAssumption`: objects have a kind, an id and
what their kind needs, and nothing is said about their number, order, repetition, their
members or tags). The argument follows a build from end to end:

1. Scanning, applying files and renumbering keep states well-formed (`ScanIs`, `FilesAre`),
   and so does the way through the snapshot (`RestoredIsSettled`).
2. What is built from such a state is a topology: edges have their ends among the nodes,
   names of nodes ascend (`BuiltIs`).
3. Its components are what the edges join: while edges are united, the nodes hang in trees
   no deeper than there are nodes, so that climbing that often finds the root (`RootIs`);
   hanging one root below another, whichever has the higher rank, joins exactly the two
   classes (`TreesJoin`, `ClassesJoin`, `ForestIs`), and labels are given out in the order
   of the first nodes (`LabelsAre`, `ComponentsAre`).
4. The ranks carried over are claimed once each (`PreviousRanks`, `RanksAre`), although
   edges are matched by way and ends first and by ends alone after that. Where ways and
   ends tell the edges of the two builds apart (`TellsApart`), the rank an edge claims is
   that of the one edge it was (`RanksAreFormer`).
5. `PatchEdgeOrder` lists every edge once (`PatchLists`), and so does nested dissection
   (`DissectLists`, by induction over the size of the cell). No transition joins the sides
   of a split, since its separator is a vertex cut or the border of a half (`CellSplits`).
   The anchors that `PatchEdgeOrder` gives out in layers leave every ranked edge its rank,
   and give an edge next to a ranked one the highest rank beside it before any other layer
   could (`BegunIs`, `PlacedIs`, `AnchoredIs`); sorting by them keeps ranks
   (`AnchorsKeepRanks`, `RanksCarryOver`).
6. An order that lists every edge once makes a well-formed network of the topology
   (`NetworkIs`), whatever the restrictions are; from there on `IInv` holds as above.

The recursion of the dissection and the chains of folds in the import are written as
functions and folds, so that these modules can be proved about. Induction over them is
again first-order (`Stepwise`, `Follows` and the lemmas on folds in `CollectionLemmas`).

Only model-checked, and why:

* Liveness (`WaiterAnswered`, `ClientAnswered`, `CallsSettle`, `RunEnds` and
  `WebConsole`'s properties): fairness and `ENABLED` are out of the prover's reach.
* What recursive and folded definitions compute in the searches, imports, timetables and
  codecs (`AnswersAreRight`, `BatchAgrees`, `AreasAreExact`, `JourneysAreRight`,
  `AreaIsExact`, `TimetablesHold`, `DrivesHold`, `DeparturesAreRight`, `FrontierIsExact`,
  `FilesRoundTrip`): these modules use `RECURSIVE` operators, exponentiation or long chains
  of folds.
* `DatasetsAreImports` but for `SidesAreApart` and `ComponentsHold`: the equality of two
  builds and the paths of restrictions are compared as whole values.

`OrderIsKept` speaks of builds whose edges ways and ends tell apart. Without that
condition it is false, as the attempt to prove it showed: of the edges of a way drawn twice
between two nodes `PreviousRanks` keeps the n-th for the n-th, so that it takes their
number to say which edge one was. What holds of parallel edges too is the second half of
`DatasetsKeepOrder`: whatever rank an edge claims is kept, and no rank is claimed twice.

## 6. Findings

1. **OriginOnEdge** (`crates/query/src/temporal.rs:1546`). Towards a deadline, the label of
   the edge on which the origin lies is made from the times at which the whole edge can be
   entered, and only then cut to the part behind the origin. Where the edge has just
   opened, a drive from its middle that is in time is not found or a later departure is
   lost, although `docs/guides/multilayer-temporal-routing.md:407` says that the latest
   departure stays exact.

Observations without a run of their own, seen while modelling and proving:

Live traffic and workspace

* Updates are validated when they are received and again when the merged batch is applied:
  an update that expired in the queue fails the whole batch, valid updates of other
  clients included, although those had been accepted (`crates/api/src/traffic.rs`,
  `docs/guides/traffic.md:281`). `LiveTrafficStore` allows it (`Drop`), and nothing wider.
* An activation whose save fails ends as a failed job with the new runtime serving
  (`workspace.rs:1163-1168`); an update whose reload fails has repointed the manifest
  (`workspace.rs:1330-1346`). Service and disk then differ until a later job
  (`SerialJobsAgree` excepts exactly these).
* A boundary that was prepared is not prepared again when a newer snapshot is published
  before it. Live updates published between the copy of the live state and the swap are
  lost with the old runtime.
* Removing a feed leaves it in the runtime's `active` selection, from which a reload
  starts: later reloads ask for the deleted manifest and fail (`workspace.rs:1031`).
* `ensure_no_runtime_job` and the registration of a job are separate; `workspace.json` is
  read, edited and written by several threads without a lock. Two scenario builds, or a
  build and an activation of its feed, can leave `workspace.json` naming a feed that is
  gone, so that the next start fails (`workspace.rs:1031-1085`): `StartSucceeds` turned
  out false without the premise `Tame`.
* A metric bundle of another build than its manifest said fails the load; the comment
  there promises a fresh compile. A reload uses the selection of load time.
* Two threads of one process that write one path share the temporary file
  (`crates/persist/src/lib.rs:250`): their data may mix, and either may report success.
  The next write that is alone puts a whole file in place. A prune next to an update deletes bundles whose
  manifest is about to be written, and no later prune can restore them. Two updates that
  overlap lose one of the two. Deleting a dataset leaves its source snapshot and elevation
  bundles to a later prune.

Simulation

* Removing a spawn or attract zone can fail a whole run at the next dispatch; commands
  accepted after the last look at the inbox are never applied; an agent larger than the
  storage of an edge can never enter it; a forced reroute outlives the closure that asked
  for it; a panic of the engine leaves the simulation running forever in the registry.

Searches

* Dominance is not exact where a label that is behind in cost, component and arrival gets
  ahead later because the other one waits longer, or meets another speed or overlay; and
  arrivals are not first-in-first-out with closures and short waiting
  (`docs/guides/multilayer-temporal-routing.md:360-371`, `:529-533` claim exactness).
  Arrive-by component routes: a drive in time falls to a cheaper one that is late, because
  late ones are left out after the frontier is taken (`pareto.rs:419-434`). `FrontierIsExact`
  excepts exactly these (`FrontierIsKept`).
* A wait counts whole seconds to the next minute and keeps what the clock was behind the
  second (`temporal.rs:562-579`), so it may end up to a second after the minute. The search
  back takes the minute itself (`temporal.rs:2032-2046`): the drive it tries out may then be
  late, and is dropped, though an earlier one would be in time, against
  `docs/guides/multilayer-temporal-routing.md:407-408`. `DeparturesAreLatest` excepts windows
  in which a wait may begin within a second (`WaitsAreWhole`). Who asks at the minute is also
  let in before who has waited for it, so that such edges are not first-in-first-out.
* A destination behind the origin on the same edge gives a direct route that is not one.
* Service areas keep one label per edge: positions behind a point on its own edge are lost
  though one comes to them by going round (`docs/guides/service-areas.md:77` promises each
  position), and rounded costs move labels across a budget (`service_area.rs:1309`).
  `AreasAreExact` has every way in its reference and excepts exactly these positions
  (`BehindPoints`) and the sweep's distance from a limit (`Rounding`). Two
  origins with equal candidates share the first's id; a cut keeps one segment per edge.
* The comment in `acceleration.rs` that a state adjacent to both sides of a separator
  lands in it is false where it touches only interior states of both sides.
* A mode lifted under a general restriction key is not lifted by its own more specific
  key.

Transit and web console

* `transfer_pack.rs:358-361` reads the number of a key set as a length, which it bounds by
  the bytes of a block (`:871-881`), so a table with many distinct sets is written and then
  refused as damaged, although packing is said to be lossless for any input (`:22`). The
  model's reader refuses the same tables, and `TimetablesHold` says which. A line with the id of a base route answers for it. Connections
  that depart before they arrive at the same stop are accepted.
* With two live tools, switching A to B to A within the debounce runs what the stale timer
  captured, and the page keeps B's answer (`run.ts:317-322`; `PageSettles` excepts exactly
  this); a run is not cancelled when its inputs become incomplete; a response that
  breaks off ends a run without message; a save in the GTFS editor overwrites edits made
  while it was in flight; identifiers of points start anew after a reload.

## 7. What is not modelled

* Inside the modelled parts: progress texts, statistics, frames and bins, error wording;
  I/O errors in the deletion of datasets and the feeds' handlers, other than missing files;
  loss of power (nothing is
  synced); panics of job and engine threads; binding of traffic patterns to edges and
  speed arithmetic; uploads, imports over HTTP and profile files; background load of
  zones, seeds and sampling; in the import, the assembly of admin boundaries, lengths,
  heights and guidance, the conversion of positions, ten of thirteen restriction keys and
  ways that repeat a pair of nodes.
* Whole parts that may follow: opening hours and conditional access, access decisions by
  mode and direction, tours over waypoints.
* Whole parts that a model would not help: geometry and scoring (snapping, map matching,
  directions), readers of data formats, numeric profile costs, rendering of reports,
  command line parsing, the QGIS plugin.

## 8. What may follow

The safety part of `PageSettles` and the column codecs can be proved next; the searches,
whose answers are folds over all walks, are better kept with TLC. Parts worth a model:
opening hours and conditional access, access decisions by mode and direction, tours over
waypoints.

## 9. Running it

    tlc -workers 2 -config TrafficService.cfg MCTrafficService
    tlc -workers 2 -config Hierarchy.cfg MCDatasetUpdate
    tlapm Hierarchy_proofs.tla

`MC*` modules hold the constants of the instances and extend the module they instantiate;
`PROJECT.json` lists the module of each configuration.
