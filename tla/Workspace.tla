------------------------------- MODULE Workspace -------------------------------
(***************************************************************************)
(* The workspace behind the API: crates/api/src/workspace.rs, state.rs,    *)
(* jobs.rs, gtfs_editor.rs and the start of lib.rs.                        *)
(*                                                                         *)
(* Activation, reload and dataset updates load a selection from disk on a  *)
(* blocking thread and swap it in while requests keep using the previous   *)
(* runtime.  Feeds are added to and removed from the runtime in place.     *)
(* Every such call works on files that the other calls, and the command    *)
(* line of another process, change too.                                    *)
(*                                                                         *)
(* A request is served once; a process is its number.  A build of a        *)
(* dataset is named by the call that wrote it, as its UUID would, and so   *)
(* is a runtime (0 is the one loaded at the start).  One profile stands    *)
(* for all: they are loaded one after the other by the same code.          *)
(***************************************************************************)
EXTENDS Naturals, Sequences, FiniteSets

CONSTANTS
  Datasets,    \* dataset ids
  Feeds,       \* transit feed ids
  Calls,       \* the calls that may be made, numbered from 1
  Scenarios,   \* what they may be: functions from Calls to records [op, ...]
  Selected,    \* what the saved selection names at the beginning
  MaxCrashes   \* bound: how often the server dies

ASSUME SelectedAssumption ==
  Selected \in [dataset : Datasets, feeds : SUBSET Feeds]
ASSUME CallsAssumption == IsFiniteSet(Calls) /\ Calls \subseteq Nat \ {0}
ASSUME ScenariosAssumption ==
  Scenarios \subseteq [Calls ->
    [op : {"activate"}, dataset : Datasets, feeds : SUBSET Feeds]
    \cup [op : {"reload", "live", "none"}]
    \cup [op : {"update", "delete", "cli-update", "cli-compile"}, dataset : Datasets]
    \cup [op : {"remove", "build"}, feed : Feeds]]
ASSUME CrashAssumption == MaxCrashes \in Nat

FirstBuild == 1
NewBuild(c) == c + FirstBuild
Builds == {FirstBuild} \cup {NewBuild(c) : c \in Calls}
None == [dataset |-> "none"]
Absent == 0

VARIABLES
  manifest,   \* dataset -> build its manifest names, or Absent
  bundles,    \* the <<dataset, build>> whose topology bundle exists
  compiled,   \* dataset -> build its compiled-profile manifest names
  metric,     \* dataset -> build the metric bundle file was derived from
  feedFiles,  \* the feeds with manifest and bundle
  saved,      \* workspace.json: a selection or None
  server,     \* "down", "up", or "failed" when it could not start
  runtime,    \* the loaded runtime or None
  call,       \* call -> its progress
  job,        \* call -> state of its record in the job registry
  requests,   \* what the calls ask for, in no particular order of their making
  crashes,    \* how often the server died
  overlapped  \* history: two runtime jobs were under way at once

Op(c) == requests[c].op

disk == <<manifest, bundles, compiled, metric, feedFiles, saved>>
moving == <<manifest, bundles, compiled, metric, feedFiles, saved, server, runtime,
            call, job, crashes, overlapped>>
vars == <<moving, requests>>

Fresh == [pc |-> "new", sel |-> Selected, build |-> Absent, hit |-> FALSE,
          metric |-> Absent, target |-> 0, live |-> {}, config |-> None]

RuntimeKinds == {"activate", "reload", "update"}
Runtimes == {c \in Calls : Op(c) \in RuntimeKinds /\ job[c] = "running"}
Builders == {c \in Calls : Op(c) = "build" /\ job[c] = "running"}
ByCli(c) == Op(c) \in {"cli-update", "cli-compile"}
Ended == {"refused", "done", "failed", "unsaved", "lost"}
UnderWay == {c \in Calls : Op(c) \in RuntimeKinds /\ call[c].pc \notin Ended \cup {"new"}}

Loaded(id, sel, build, from, live) ==
  [id |-> id, active |-> sel, build |-> build, metric |-> from,
   feeds |-> sel.feeds, live |-> live]

-----------------------------------------------------------------------------

\* Both datasets imported, none compiled, every feed on disk; the server is
\* about to start.
Init ==
  /\ manifest = [d \in Datasets |-> FirstBuild]
  /\ bundles = Datasets \X {FirstBuild}
  /\ compiled = [d \in Datasets |-> Absent]
  /\ metric = [d \in Datasets |-> Absent]
  /\ feedFiles = Feeds
  /\ saved = Selected
  /\ server = "down"
  /\ runtime = None
  /\ call = [c \in Calls |-> Fresh]
  /\ job = [c \in Calls |-> "none"]
  /\ requests \in Scenarios
  /\ crashes = 0
  /\ overlapped = FALSE

\* A call at pc while the server runs; the command line needs no server.
At(c, pc) == call[c].pc = pc /\ (server = "up" \/ ByCli(c))
Goto(c, pc) == call' = [call EXCEPT ![c].pc = pc]

\* spawn_job's closing of the record; calls without a job only answer.
Close(c, outcome) ==
  job' = [job EXCEPT ![c] = IF @ = "running" THEN outcome ELSE @]
Fail(c) ==
  /\ Goto(c, "failed")
  /\ Close(c, "failed")
  /\ UNCHANGED <<disk, server, runtime, crashes, overlapped>>
\* A file of a runtime job or of the command line cannot be read or written, or
\* a profile cannot be compiled: the step ends the call with an error and has
\* written nothing.  An activation that fails to save has been swapped in by
\* then ("unsaved"), an update that fails to reload has written its manifest:
\* neither takes that back.
FileStages == {"base", "bundles", "manifest", "read", "compiled", "profile",
               "record", "feeds", "save", "source"}
Break(c) ==
  /\ \E pc \in FileStages : At(c, pc)
  /\ Goto(c, IF call[c].pc = "save" THEN "unsaved" ELSE "failed")
  /\ Close(c, "failed")
  /\ UNCHANGED <<disk, server, runtime, crashes, overlapped>>
Finish(c) ==
  /\ At(c, "finish")
  /\ Goto(c, "done")
  /\ Close(c, "done")
  /\ UNCHANGED <<disk, server, runtime, crashes, overlapped>>

-----------------------------------------------------------------------------
(* Admission: the handler checks, then spawns.                             *)

Admit(c, sel, ok) ==
  /\ At(c, "new")
  /\ call' = [call EXCEPT ![c].pc = IF ok THEN "admitted" ELSE "refused", ![c].sel = sel]
  /\ overlapped' = (overlapped \/ (ok /\ Op(c) \in RuntimeKinds /\ UnderWay # {}))
  /\ UNCHANGED <<disk, server, runtime, job, crashes>>

Activate(c) ==
  /\ Op(c) = "activate"
  /\ LET sel == [dataset |-> requests[c].dataset, feeds |-> requests[c].feeds] IN
     Admit(c, sel, /\ manifest[sel.dataset] # Absent
                   /\ sel.feeds \subseteq feedFiles
                   /\ Runtimes = {})

\* The selection the runtime was loaded from, else the saved one.
Reload(c) ==
  /\ Op(c) = "reload"
  /\ LET sel == IF runtime # None THEN runtime.active ELSE saved IN
     IF sel = None THEN Admit(c, Selected, FALSE) ELSE Admit(c, sel, Runtimes = {})

Update(c) ==
  /\ Op(c) = "update"
  /\ Admit(c, Selected, manifest[requests[c].dataset] # Absent /\ Runtimes = {})

BuildScenario(c) == Op(c) = "build" /\ Admit(c, Selected, Builders = {})

Stage(c) ==
  CASE Op(c) \in {"activate", "reload"} -> "read"
    [] Op(c) = "update" -> "base"
    [] OTHER -> "replace"
Spawn(c) ==
  /\ At(c, "admitted")
  /\ Goto(c, Stage(c))
  /\ job' = [job EXCEPT ![c] = "running"]
  /\ UNCHANGED <<disk, server, runtime, crashes, overlapped>>

-----------------------------------------------------------------------------
(* load_service_runtime and reload_runtime.                                *)

\* The manifest and the topology bundle it names.
ReadManifest(c) ==
  LET d == call[c].sel.dataset IN
  /\ At(c, "read")
  /\ IF <<d, manifest[d]>> \in bundles
     THEN /\ call' = [call EXCEPT ![c].pc = "compiled", ![c].build = manifest[d]]
          /\ UNCHANGED <<disk, server, runtime, job, crashes, overlapped>>
     ELSE Fail(c)

\* read_compiled_profile_manifests, once for all profiles.
ReadCompiled(c) ==
  /\ At(c, "compiled")
  /\ call' = [call EXCEPT ![c].pc = "profile",
                          ![c].hit = compiled[call[c].sel.dataset] = call[c].build]
  /\ UNCHANGED <<disk, server, runtime, job, crashes, overlapped>>

\* A cached bundle is whatever the file holds by now; the engine refuses one
\* that was not derived from the topology's build.
Reusable(c) == call[c].hit /\ metric[call[c].sel.dataset] # Absent
LoadCachedAny(c) ==
  LET from == metric[call[c].sel.dataset] IN
  /\ At(c, "profile") /\ Reusable(c)
  /\ call' = [call EXCEPT ![c].pc = "feeds", ![c].metric = from]
  /\ UNCHANGED <<disk, server, runtime, job, crashes, overlapped>>
LoadCached(c) ==
  LET from == metric[call[c].sel.dataset] IN
  /\ At(c, "profile") /\ Reusable(c)
  /\ IF from = call[c].build
     THEN /\ call' = [call EXCEPT ![c].pc = "feeds", ![c].metric = from]
          /\ UNCHANGED <<disk, server, runtime, job, crashes, overlapped>>
     ELSE Fail(c)

\* Otherwise it is compiled; bundle and manifest have one name per dataset
\* and profile, whatever the build.
Target(c) == IF Op(c) = "cli-compile" THEN requests[c].dataset ELSE call[c].sel.dataset
Compile(c) ==
  /\ At(c, "profile") /\ ~Reusable(c)
  /\ metric' = [metric EXCEPT ![Target(c)] = call[c].build]
  /\ call' = [call EXCEPT ![c].pc = "record", ![c].metric = call[c].build]
  /\ UNCHANGED <<manifest, bundles, compiled, feedFiles, saved, server, runtime,
                 job, crashes, overlapped>>
RecordCompiled(c) ==
  /\ At(c, "record")
  /\ compiled' = [compiled EXCEPT ![Target(c)] = call[c].build]
  /\ Goto(c, IF ByCli(c) THEN "finish" ELSE "feeds")
  /\ UNCHANGED <<manifest, bundles, metric, feedFiles, saved, server, runtime,
                 job, crashes, overlapped>>

LoadFeedsWaiting(c) ==
  /\ At(c, "feeds")
  /\ call[c].sel.feeds \subseteq feedFiles
  /\ Goto(c, "carry")
  /\ UNCHANGED <<disk, server, runtime, job, crashes, overlapped>>
LoadFeeds(c) ==
  /\ At(c, "feeds")
  /\ IF call[c].sel.feeds \subseteq feedFiles
     THEN /\ Goto(c, "carry")
          /\ UNCHANGED <<disk, server, runtime, job, crashes, overlapped>>
     ELSE Fail(c)

\* The live entries of the runtime to be replaced, as far as the dataset has
\* their features.
CarryLive(c) ==
  /\ At(c, "carry")
  /\ call' = [call EXCEPT ![c].pc = "swap",
       ![c].live = IF runtime # None /\ runtime.active.dataset = call[c].sel.dataset
                   THEN runtime.live ELSE {}]
  /\ UNCHANGED <<disk, server, runtime, job, crashes, overlapped>>

Swap(c) ==
  /\ At(c, "swap")
  /\ runtime' = Loaded(c, call[c].sel, call[c].build, call[c].metric, call[c].live)
  /\ Goto(c, IF Op(c) = "activate" THEN "save" ELSE "finish")
  /\ UNCHANGED <<disk, server, job, crashes, overlapped>>

SaveNothing(c) ==
  /\ At(c, "save")
  /\ Goto(c, "finish")
  /\ UNCHANGED <<disk, server, runtime, job, crashes, overlapped>>
Save(c) ==
  /\ At(c, "save")
  /\ saved' = call[c].sel
  /\ Goto(c, "finish")
  /\ UNCHANGED <<manifest, bundles, compiled, metric, feedFiles, server, runtime,
                 job, crashes, overlapped>>

Load(c) ==
  \/ ReadManifest(c) \/ ReadCompiled(c) \/ LoadCached(c) \/ Compile(c)
  \/ RecordCompiled(c) \/ LoadFeeds(c) \/ CarryLive(c) \/ Swap(c) \/ Save(c)

-----------------------------------------------------------------------------
(* Dataset updates, of the API and of `netweevil dataset update`.          *)

StartCli(c) ==
  /\ ByCli(c) /\ At(c, "new")
  /\ Goto(c, IF Op(c) = "cli-update" THEN "base" ELSE "source")
  /\ UNCHANGED <<disk, server, runtime, job, crashes, overlapped>>

\* The build the update starts from.
ReadBase(c) ==
  LET d == requests[c].dataset IN
  /\ At(c, "base")
  /\ IF <<d, manifest[d]>> \in bundles
     THEN /\ Goto(c, "bundles")
          /\ UNCHANGED <<disk, server, runtime, job, crashes, overlapped>>
     ELSE Fail(c)

WriteBundles(c) ==
  /\ At(c, "bundles")
  /\ bundles' = bundles \cup {<<requests[c].dataset, NewBuild(c)>>}
  /\ Goto(c, "manifest")
  /\ UNCHANGED <<manifest, compiled, metric, feedFiles, saved, server, runtime,
                 job, crashes, overlapped>>

WriteManifest(c) ==
  /\ At(c, "manifest")
  /\ manifest' = [manifest EXCEPT ![requests[c].dataset] = NewBuild(c)]
  /\ Goto(c, IF ByCli(c) THEN "finish" ELSE "pick")
  /\ UNCHANGED <<bundles, compiled, metric, feedFiles, saved, server, runtime,
                 job, crashes, overlapped>>

\* The update of the loaded dataset goes on as a reload of its selection.
PickLoaded(c) ==
  /\ At(c, "pick")
  /\ call' = IF runtime # None /\ runtime.active.dataset = requests[c].dataset
             THEN [call EXCEPT ![c].pc = "read", ![c].sel = runtime.active]
             ELSE [call EXCEPT ![c].pc = "finish"]
  /\ UNCHANGED <<disk, server, runtime, job, crashes, overlapped>>

\* `netweevil profile compile`: the topology it compiles for.
ReadSource(c) ==
  LET d == requests[c].dataset IN
  /\ At(c, "source")
  /\ IF <<d, manifest[d]>> \in bundles
     THEN /\ call' = [call EXCEPT ![c].pc = "profile", ![c].build = manifest[d]]
          /\ UNCHANGED <<disk, server, runtime, job, crashes, overlapped>>
     ELSE Fail(c)

Updating(c) ==
  \/ StartCli(c) \/ ReadBase(c) \/ WriteBundles(c) \/ WriteManifest(c)
  \/ PickLoaded(c) \/ ReadSource(c)

-----------------------------------------------------------------------------
(* delete_dataset.                                                         *)

Delete(c) ==
  /\ Op(c) = "delete" /\ At(c, "new")
  /\ Goto(c, IF runtime # None /\ runtime.active.dataset = requests[c].dataset
             THEN "refused" ELSE "erase")
  /\ UNCHANGED <<disk, server, runtime, job, crashes, overlapped>>

EraseBundles(c) ==
  LET d == requests[c].dataset IN
  /\ At(c, "erase")
  /\ IF manifest[d] = Absent THEN Fail(c)
     ELSE /\ bundles' = bundles \ {<<d, manifest[d]>>}
          /\ metric' = [metric EXCEPT ![d] = IF compiled[d] = Absent THEN @ ELSE Absent]
          /\ compiled' = [compiled EXCEPT ![d] = Absent]
          /\ Goto(c, "unlink")
          /\ UNCHANGED <<manifest, feedFiles, saved, server, runtime, job,
                         crashes, overlapped>>

EraseManifest(c) ==
  LET d == requests[c].dataset IN
  /\ At(c, "unlink")
  /\ IF manifest[d] = Absent THEN Fail(c)
     ELSE /\ manifest' = [manifest EXCEPT ![d] = Absent]
          /\ Goto(c, "lookup")
          /\ UNCHANGED <<bundles, compiled, metric, feedFiles, saved, server,
                         runtime, job, crashes, overlapped>>

\* The saved selection is read, then its file removed if it named d.
FindSaved(c) ==
  /\ At(c, "lookup")
  /\ Goto(c, IF saved.dataset = requests[c].dataset THEN "clear" ELSE "finish")
  /\ UNCHANGED <<disk, server, runtime, job, crashes, overlapped>>
ClearSaved(c) ==
  /\ At(c, "clear")
  /\ saved' = None
  /\ Goto(c, "finish")
  /\ UNCHANGED <<manifest, bundles, compiled, metric, feedFiles, server, runtime,
                 job, crashes, overlapped>>

Deleting(c) ==
  Delete(c) \/ EraseBundles(c) \/ EraseManifest(c) \/ FindSaved(c) \/ ClearSaved(c)

-----------------------------------------------------------------------------
(* remove_transit_feed, write_transit_feed and register_transit_feed.      *)

Remove(c) ==
  /\ Op(c) = "remove" /\ At(c, "new")
  /\ Goto(c, IF requests[c].feed \in feedFiles THEN "unload" ELSE "failed")
  /\ UNCHANGED <<disk, server, runtime, job, crashes, overlapped>>

\* A scenario build first removes what the scenario built before.
Replace(c) ==
  /\ At(c, "replace")
  /\ Goto(c, IF requests[c].feed \in feedFiles THEN "unload" ELSE "write")
  /\ UNCHANGED <<disk, server, runtime, job, crashes, overlapped>>

Unload(c) ==
  /\ At(c, "unload")
  /\ runtime' = IF runtime = None THEN None
                ELSE [runtime EXCEPT !.feeds = @ \ {requests[c].feed}]
  /\ Goto(c, "forget")
  /\ UNCHANGED <<disk, server, job, crashes, overlapped>>

\* workspace.json is read, edited and written back.
ReadConfig(c, pc, next) ==
  /\ At(c, pc)
  /\ call' = [call EXCEPT ![c].pc = next, ![c].config = saved]
  /\ UNCHANGED <<disk, server, runtime, job, crashes, overlapped>>
WriteConfig(c, pc, next, change, feeds) ==
  /\ At(c, pc)
  /\ saved' = IF change THEN [call[c].config EXCEPT !.feeds = feeds] ELSE saved
  /\ Goto(c, next)
  /\ UNCHANGED <<manifest, bundles, compiled, metric, feedFiles, server, runtime,
                 job, crashes, overlapped>>

ForgetSkipped(c) ==
  WriteConfig(c, "forgetting", "erasefeed", FALSE, {})
Forget(c) ==
  LET config == call[c].config
      f == requests[c].feed
  IN  WriteConfig(c, "forgetting", "erasefeed",
                  config # None /\ f \in config.feeds, config.feeds \ {f})

EraseFeed(c) ==
  /\ At(c, "erasefeed")
  /\ IF requests[c].feed \in feedFiles
     THEN /\ feedFiles' = feedFiles \ {requests[c].feed}
          /\ Goto(c, IF Op(c) = "build" THEN "write" ELSE "finish")
          /\ UNCHANGED <<manifest, bundles, compiled, metric, saved, server,
                         runtime, job, crashes, overlapped>>
     ELSE Fail(c)

WriteFeed(c) ==
  /\ At(c, "write")
  /\ feedFiles' = feedFiles \cup {requests[c].feed}
  /\ Goto(c, "register")
  /\ UNCHANGED <<manifest, bundles, compiled, metric, saved, server, runtime,
                 job, crashes, overlapped>>

\* The runtime of this moment gets the feed, whether or not it is still the
\* loaded one when the feed is read.
Register(c) ==
  /\ At(c, "register")
  /\ IF runtime = None
     THEN /\ Goto(c, "recall")
          /\ UNCHANGED <<disk, server, runtime, job, crashes, overlapped>>
     ELSE IF requests[c].feed \in feedFiles
     THEN /\ call' = [call EXCEPT ![c].pc = "insert", ![c].target = runtime.id]
          /\ UNCHANGED <<disk, server, runtime, job, crashes, overlapped>>
     ELSE Fail(c)

InsertFeed(c) ==
  /\ At(c, "insert")
  /\ runtime' = IF runtime.id = call[c].target
                THEN [runtime EXCEPT !.feeds = @ \cup {requests[c].feed}] ELSE runtime
  /\ Goto(c, "recall")
  /\ UNCHANGED <<disk, server, job, crashes, overlapped>>

Remember(c) ==
  LET config == call[c].config
      f == requests[c].feed
  IN  WriteConfig(c, "remember", "finish",
                  config # None /\ f \notin config.feeds, config.feeds \cup {f})

Feeding(c) ==
  \/ Remove(c) \/ Replace(c) \/ Unload(c) \/ ReadConfig(c, "forget", "forgetting")
  \/ Forget(c) \/ EraseFeed(c) \/ WriteFeed(c) \/ Register(c) \/ InsertFeed(c)
  \/ ReadConfig(c, "recall", "remember") \/ Remember(c)

-----------------------------------------------------------------------------
(* A live traffic update, queued at the runtime of its request.            *)

PostLive(c) ==
  /\ Op(c) = "live" /\ At(c, "new")
  /\ call' = [call EXCEPT ![c].pc = IF runtime = None THEN "refused" ELSE "queued",
                          ![c].target = IF runtime = None THEN 0 ELSE runtime.id]
  /\ UNCHANGED <<disk, server, runtime, job, crashes, overlapped>>
ApplyLive(c) ==
  /\ At(c, "queued")
  /\ runtime' = IF runtime.id = call[c].target
                THEN [runtime EXCEPT !.live = @ \cup {c}] ELSE runtime
  /\ Goto(c, "finish")
  /\ UNCHANGED <<disk, server, job, crashes, overlapped>>

-----------------------------------------------------------------------------
(* The server's start and its death.                                       *)

\* The load at the start, with the same rules as Load.
Loadable(sel) ==
  LET b == manifest[sel.dataset] IN
  /\ <<sel.dataset, b>> \in bundles
  /\ sel.feeds \subseteq feedFiles
  /\ compiled[sel.dataset] = b => metric[sel.dataset] \in {Absent, b}

StartEmpty ==
  /\ server = "down" /\ saved = None
  /\ server' = "up"
  /\ UNCHANGED <<disk, runtime, call, job, crashes, overlapped>>
Start ==
  LET d == saved.dataset IN
  /\ server = "down" /\ saved # None
  /\ IF Loadable(saved)
     THEN /\ server' = "up"
          /\ runtime' = Loaded(0, saved, manifest[d], manifest[d], {})
          /\ compiled' = [compiled EXCEPT ![d] = manifest[d]]
          /\ metric' = [metric EXCEPT ![d] = manifest[d]]
     ELSE /\ server' = "failed"
          /\ UNCHANGED <<runtime, compiled, metric>>
  /\ UNCHANGED <<manifest, bundles, feedFiles, saved, call, job, crashes, overlapped>>

\* Memory, the calls being served and the job registry are gone.
Crash ==
  /\ server = "up" /\ crashes < MaxCrashes
  /\ server' = "down" /\ runtime' = None
  /\ crashes' = crashes + 1
  /\ job' = [c \in Calls |-> "none"]
  /\ call' = [c \in Calls |->
       IF ByCli(c) \/ call[c].pc \in Ended \cup {"new"} THEN call[c]
       ELSE [call[c] EXCEPT !.pc = "lost"]]
  /\ UNCHANGED <<disk, overlapped>>

-----------------------------------------------------------------------------

Begin(c) == Activate(c) \/ Reload(c) \/ Update(c) \/ BuildScenario(c)
Advance(c) ==
  \/ Spawn(c) \/ Load(c) \/ Updating(c) \/ Deleting(c) \/ Feeding(c)
  \/ PostLive(c) \/ ApplyLive(c) \/ Finish(c)
Step(c) == Advance(c) \/ Break(c)

Next ==
  /\ UNCHANGED requests
  /\ \/ StartEmpty \/ Start \/ Crash
     \/ \E c \in Calls : Begin(c) \/ Step(c)

\* A thread that has begun runs on, and no failure need come to its help; whether
\* a call is made, and whether the server is started, is up to others.
Fairness == \A c \in Calls : WF_moving(call[c].pc # "new" /\ Advance(c))

Spec == Init /\ [][Next]_vars /\ Fairness

-----------------------------------------------------------------------------
(* What the workspace promises.                                            *)

Quiet == \A c \in Calls : call[c].pc \in Ended \cup {"new"}
Begun(c) == call[c].pc # "new"

\* Once runtime jobs that never overlapped have ended, well or badly, the
\* server serves the selection that the next start would load, in the build
\* its manifest names, whatever step failed and wherever the server crashed,
\* with two exceptions that the client is told of: the job that loaded this
\* selection failed to save it, or the job that wrote this build failed to load
\* it.  No job that reports success leaves them apart.  It takes that nothing
\* else edited workspace.json or the dataset meanwhile.
Serial ==
  /\ ~overlapped
  /\ \A c \in Calls : Begun(c) => Op(c) \in RuntimeKinds
SaveFailed(sel) == \E c \in Calls : call[c].pc = "unsaved" /\ call[c].sel = sel
LoadFailed(d, build) ==
  \E c \in Calls : /\ Op(c) = "update" /\ call[c].pc = "failed"
                   /\ requests[c].dataset = d /\ build = NewBuild(c)
SerialJobsAgree ==
  (Serial /\ server = "up" /\ runtime # None /\ Quiet) =>
    LET d == runtime.active.dataset IN
    /\ saved = runtime.active \/ SaveFailed(runtime.active)
    /\ runtime.build = manifest[d] \/ LoadFailed(d, manifest[d])

\* A runtime never weighs the edges of one build with the metrics of another,
\* whatever is written to the shared files while it is loaded.
MetricMatchesTopology == runtime # None => runtime.metric = runtime.build

\* The server starts again after a crash at any point of a dataset update, an
\* activation or a reload that did not overlap, with one scenario build running
\* next to them whose feed no activation asked for.  Two builds, or a build and
\* an activation of its feed, can leave a saved selection naming a feed that
\* is not there.
Tame ==
  /\ ~overlapped
  /\ \A c \in Calls : Begun(c) => Op(c) \in RuntimeKinds \cup {"build"}
  /\ \A b, c \in Calls : (Begun(b) /\ Op(b) = "build" /\ Begun(c)) =>
       /\ Op(c) = "build" => c = b
       /\ Op(c) = "activate" => requests[b].feed \notin requests[c].feeds
StartSucceeds == Tame => server # "failed"

\* Every call that is taken up is answered, and its job does not run forever.
CallsSettle ==
  \A c \in Calls : call[c].pc \notin Ended \cup {"new"} ~> call[c].pc \in Ended

===============================================================================
