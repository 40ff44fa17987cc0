------------------------------ MODULE BundleStore ------------------------------
(***************************************************************************)
(* The bundle files of one dataset and the calls that write, read and      *)
(* prune them: import and update (crates/ingest/src/import.rs, update.rs), *)
(* profile compilation (crates/cli/src/profile.rs), the load of the API    *)
(* (crates/api/src/state.rs) and `cache prune` (prune_bundle_cache of      *)
(* crates/persist/src/lib.rs).                                             *)
(*                                                                         *)
(* No lock is held on the files: a build writes files of fresh names and   *)
(* then repoints the manifest; prune deletes what no manifest names.  Each *)
(* call is a process or a thread of one and is made once.  A file's data   *)
(* is named by the build that wrote it.                                    *)
(***************************************************************************)
EXTENDS Naturals, Sequences, FiniteSets

CONSTANTS
  Calls,      \* the calls made, numbered from 1
  Scenarios,  \* what they may be: functions from Calls to operations
  MaxKills    \* bound: how many calls are killed

Operations == {"import", "update", "compile", "load", "prune"}
ASSUME CallsAssumption == IsFiniteSet(Calls) /\ Calls \subseteq Nat \ {0}
ASSUME ScenariosAssumption == Scenarios \subseteq [Calls -> Operations]
ASSUME KillsAssumption == MaxKills \in Nat

VARIABLES
  op,        \* call -> its operation
  manifest,  \* build the dataset manifest names
  file,      \* kind -> build id -> build whose data the bundle holds, or Absent
  compiled,  \* build the compiled-profile manifest names, or Absent
  metric,    \* build the metric bundle was derived from, or Absent
  partial,   \* call -> directory its temporary file lies in, or "none"
  call,      \* call -> its progress
  kills      \* how many calls were killed

moving == <<manifest, file, compiled, metric, partial, call, kills>>
vars == <<moving, op>>

Absent == 0
First == 1
Kinds == {"topology", "names", "acceleration", "source"}
Dirs == Kinds \cup {"metric"}

\* DatasetBundleRefs::new draws a fresh id for every build.
Data(c) == c + First
OneId(c) == First
BuildId(c) == Data(c)
Builds == {First} \cup {Data(c) : c \in Calls}

\* got: bundles read; has: updates whose changes the call's build includes;
\* met: history, the calls that were under way at the same time.
Fresh == [pc |-> "new", at |-> 0, build |-> Absent, got |-> {}, has |-> {},
          hit |-> FALSE, stale |-> FALSE, keep |-> {}, doomed |-> {}, met |-> {},
          mixed |-> FALSE]

Init ==
  /\ op \in Scenarios
  /\ manifest = First
  /\ file = [k \in Kinds |-> [b \in Builds |-> IF b = First THEN First ELSE Absent]]
  /\ compiled = Absent /\ metric = Absent
  /\ partial = [c \in Calls |-> "none"]
  /\ call = [c \in Calls |-> Fresh]
  /\ kills = 0

-----------------------------------------------------------------------------

At(c, pc) == call[c].pc = pc
Set(c, r) == call' = [call EXCEPT ![c] = r]
Goto(c, pc) == Set(c, [call[c] EXCEPT !.pc = pc])
Ended == {"done", "failed", "killed"}
UnderWay == {c \in Calls : call[c].pc \notin Ended \cup {"new"}}
disk == <<manifest, file, compiled, metric, partial>>
Fail(c) == Goto(c, "failed") /\ UNCHANGED <<disk, kills>>

Begin(c) ==
  /\ At(c, "new")
  /\ call' = [d \in Calls |->
       IF d = c THEN [Fresh EXCEPT !.pc = IF op[c] = "import" THEN "write" ELSE "manifest",
                                   !.met = UnderWay]
       ELSE IF d \in UnderWay THEN [call[d] EXCEPT !.met = @ \cup {c}]
       ELSE call[d]]
  /\ UNCHANGED <<disk, kills>>

-----------------------------------------------------------------------------
(* Reading: the manifest, then the bundles it names, one after the other.  *)

Reads(o) ==
  CASE o = "update" -> <<"topology", "acceleration", "source">>
    [] o = "prune" -> <<>>
    [] OTHER -> <<"topology", "acceleration">>
AfterReads(o) ==
  CASE o = "update" -> "write" [] o = "compile" -> "metric" [] OTHER -> "cached"

ReadManifest(c) ==
  /\ At(c, "manifest")
  /\ Set(c, [call[c] EXCEPT !.pc = IF op[c] = "prune" THEN "compiled" ELSE "read",
                            !.build = manifest])
  /\ UNCHANGED <<disk, kills>>

\* The updates that the data of a build includes.
Includes(b) == IF b = First THEN {} ELSE call[b - First].has

\* A bundle is whole or missing.
ReadImported(c) ==
  LET k == Reads(op[c])[call[c].at + 1]
      by == file[k][IF k = "source" THEN First ELSE call[c].build]
      last == call[c].at + 1 = Len(Reads(op[c]))
  IN  /\ At(c, "read")
      /\ IF by = Absent THEN Fail(c)
         ELSE /\ Set(c, [call[c] EXCEPT !.at = IF last THEN 0 ELSE @ + 1,
                                        !.pc = IF last THEN AfterReads(op[c]) ELSE @,
                                        !.got = @ \cup {<<k, by>>},
                                        !.has = IF k = "source" THEN Includes(by) \cup {c} ELSE @])
              /\ UNCHANGED <<disk, kills>>
ReadBundle(c) ==
  LET k == Reads(op[c])[call[c].at + 1]
      by == file[k][call[c].build]
      last == call[c].at + 1 = Len(Reads(op[c]))
  IN  /\ At(c, "read")
      /\ IF by = Absent THEN Fail(c)
         ELSE /\ Set(c, [call[c] EXCEPT !.at = IF last THEN 0 ELSE @ + 1,
                                        !.pc = IF last THEN AfterReads(op[c]) ELSE @,
                                        !.got = @ \cup {<<k, by>>},
                                        !.has = IF k = "source" THEN Includes(by) \cup {c} ELSE @])
              /\ UNCHANGED <<disk, kills>>

-----------------------------------------------------------------------------
(* write_dataset_bundles: every file is written beside its place and then  *)
(* renamed; the manifest is last.                                          *)

WriteOrder == <<"topology", "names", "acceleration", "source">>

BeginFile(c) ==
  /\ At(c, "write")
  /\ partial' = [partial EXCEPT ![c] = WriteOrder[call[c].at + 1]]
  /\ Goto(c, "rename")
  /\ UNCHANGED <<manifest, file, compiled, metric, kills>>
EndFile(c) ==
  LET k == partial[c]
      last == call[c].at + 1 = Len(WriteOrder)
  IN  /\ At(c, "rename")
      /\ IF k = "none" THEN Fail(c)
         ELSE /\ file' = [file EXCEPT ![k][BuildId(c)] = Data(c)]
              /\ partial' = [partial EXCEPT ![c] = "none"]
              /\ Set(c, [call[c] EXCEPT !.at = IF last THEN 0 ELSE @ + 1,
                                        !.pc = IF last THEN "repoint" ELSE "write"])
              /\ UNCHANGED <<manifest, compiled, metric, kills>>

WriteManifestCleaning(c) ==
  /\ At(c, "repoint")
  /\ manifest' = BuildId(c)
  /\ file' = [k \in Kinds |-> [file[k] EXCEPT ![manifest] = Absent]]
  /\ Goto(c, "done")
  /\ UNCHANGED <<compiled, metric, partial, kills>>
WriteManifest(c) ==
  /\ At(c, "repoint")
  /\ manifest' = BuildId(c)
  /\ Goto(c, "done")
  /\ UNCHANGED <<file, compiled, metric, partial, kills>>

-----------------------------------------------------------------------------
(* Compiling a profile: metric bundle, then its manifest, each under a     *)
(* name that does not depend on the build.                                 *)

BeginMetric(c) ==
  /\ At(c, "metric")
  /\ partial' = [partial EXCEPT ![c] = "metric"]
  /\ Goto(c, "metric-rename")
  /\ UNCHANGED <<manifest, file, compiled, metric, kills>>
EndMetric(c) ==
  /\ At(c, "metric-rename")
  /\ IF partial[c] = "none" THEN Fail(c)
     ELSE /\ metric' = call[c].build
          /\ partial' = [partial EXCEPT ![c] = "none"]
          /\ Goto(c, "record")
          /\ UNCHANGED <<manifest, file, compiled, kills>>
RecordCompiled(c) ==
  /\ At(c, "record")
  /\ compiled' = call[c].build
  /\ Goto(c, IF op[c] = "compile" THEN "done" ELSE "serving")
  /\ UNCHANGED <<manifest, file, metric, partial, kills>>

-----------------------------------------------------------------------------
(* The load of the API, and the names it reads when first asked for them.  *)

ReadCompiled(c) ==
  /\ At(c, "cached")
  /\ Set(c, [call[c] EXCEPT !.pc = "profile", !.hit = compiled = call[c].build])
  /\ UNCHANGED <<disk, kills>>
LoadProfile(c) ==
  /\ At(c, "profile")
  /\ Set(c, IF ~call[c].hit \/ metric = Absent THEN [call[c] EXCEPT !.pc = "metric"]
            ELSE IF metric = call[c].build THEN [call[c] EXCEPT !.pc = "serving"]
            ELSE [call[c] EXCEPT !.pc = "failed", !.mixed = TRUE])
  /\ UNCHANGED <<disk, kills>>
ReadNames(c) ==
  LET by == file["names"][call[c].build] IN
  /\ At(c, "serving")
  /\ IF by = Absent THEN Fail(c)
     ELSE /\ Set(c, [call[c] EXCEPT !.pc = "done", !.got = @ \cup {<<"names", by>>}])
          /\ UNCHANGED <<disk, kills>>

-----------------------------------------------------------------------------
(* prune_bundle_cache.                                                     *)

\* What is referenced by the manifests read, and which compiled one is stale.
JudgeForgetful(c) ==
  LET stale == compiled # Absent /\ (compiled # call[c].build \/ metric = Absent) IN
  /\ At(c, "compiled")
  /\ Set(c, [call[c] EXCEPT !.pc = "list", !.stale = stale,
       !.keep = {<<k, call[c].build>> : k \in Kinds \ {"acceleration"}}
                \cup (IF compiled = Absent \/ stale THEN {} ELSE {<<"metric", First>>})])
  /\ UNCHANGED <<disk, kills>>
JudgeCompiled(c) ==
  LET stale == compiled # Absent /\ (compiled # call[c].build \/ metric = Absent) IN
  /\ At(c, "compiled")
  /\ Set(c, [call[c] EXCEPT !.pc = "list", !.stale = stale,
       !.keep = {<<k, call[c].build>> : k \in Kinds}
                \cup (IF compiled = Absent \/ stale THEN {} ELSE {<<"metric", First>>})])
  /\ UNCHANGED <<disk, kills>>

ListOrder == <<"topology", "names", "acceleration", "source", "metric">>
PartialOf(d) == <<partial[d], Data(d), "partial">>
WholeInDir(k) ==
  IF k \in Kinds THEN {<<k, b>> : b \in {b \in Builds : file[k][b] # Absent}}
  ELSE IF metric = Absent THEN {} ELSE {<<"metric", First>>}
InDir(k) ==
  (IF k \in Kinds THEN {<<k, b>> : b \in {b \in Builds : file[k][b] # Absent}}
   ELSE IF metric = Absent THEN {} ELSE {<<"metric", First>>})
  \cup {PartialOf(d) : d \in {d \in Calls : partial[d] = k}}
ListDir(c) ==
  LET k == ListOrder[call[c].at + 1]
      last == call[c].at + 1 = Len(ListOrder)
  IN  /\ At(c, "list")
      /\ Set(c, [call[c] EXCEPT !.at = IF last THEN 0 ELSE @ + 1,
                                !.pc = IF last THEN "forget" ELSE @,
                                !.doomed = @ \cup (InDir(k) \ call[c].keep)])
      /\ UNCHANGED <<disk, kills>>

ForgetCompiled(c) ==
  /\ At(c, "forget")
  /\ IF call[c].stale /\ compiled = Absent THEN Fail(c)
     ELSE /\ compiled' = IF call[c].stale THEN Absent ELSE compiled
          /\ Goto(c, "unlink")
          /\ UNCHANGED <<manifest, file, metric, partial, kills>>

\* The files are removed one by one; a file that is gone ends the prune.
Unlink(c, f) ==
  /\ At(c, "unlink") /\ f \in call[c].doomed
  /\ IF f \notin InDir(f[1]) THEN Fail(c)
     ELSE /\ partial' = [d \in Calls |-> IF f = PartialOf(d) THEN "none" ELSE partial[d]]
          /\ metric' = IF f = <<"metric", First>> THEN Absent ELSE metric
          /\ file' = [k \in Kinds |-> [b \in Builds |->
                        IF f = <<k, b>> THEN Absent ELSE file[k][b]]]
          /\ Set(c, [call[c] EXCEPT !.doomed = @ \ {f}])
          /\ UNCHANGED <<manifest, compiled, kills>>
EndPrune(c) ==
  /\ At(c, "unlink") /\ call[c].doomed = {}
  /\ Goto(c, "done")
  /\ UNCHANGED <<disk, kills>>

-----------------------------------------------------------------------------

\* A process is killed; its temporary file stays behind.
Kill(c) ==
  /\ c \in UnderWay /\ kills < MaxKills
  /\ kills' = kills + 1
  /\ Goto(c, "killed")
  /\ UNCHANGED disk

Reading(c) == ReadManifest(c) \/ ReadBundle(c)
Building(c) == BeginFile(c) \/ EndFile(c) \/ WriteManifest(c)
Compiling(c) == BeginMetric(c) \/ EndMetric(c) \/ RecordCompiled(c)
Serving(c) == ReadCompiled(c) \/ LoadProfile(c) \/ ReadNames(c)
Pruning(c) ==
  \/ JudgeCompiled(c) \/ ListDir(c) \/ ForgetCompiled(c)
  \/ (\E f \in call[c].doomed : Unlink(c, f)) \/ EndPrune(c)

Next ==
  /\ UNCHANGED op
  /\ \E c \in Calls :
       Begin(c) \/ Reading(c) \/ Building(c) \/ Compiling(c) \/ Serving(c)
       \/ Pruning(c) \/ Kill(c)

Spec == Init /\ [][Next]_vars

-----------------------------------------------------------------------------
(* What makes the store correct.                                           *)

Writers == {c \in Calls : op[c] \in {"import", "update"}}
Prunes == {c \in Calls : op[c] = "prune"}

\* The manifest names files that exist, whatever was killed where, as long as
\* no prune ran next to a build.
DatasetComplete ==
  (\A c \in Writers : call[c].met \cap Prunes = {}) =>
    \A k \in Kinds : file[k][manifest] # Absent

\* "an update writes new files next to the ones a running API may still be
\* reading": whatever is loaded, compiled or updated from belongs to one
\* build, also when its parts are read long after each other.
LoadedTogether ==
  \A c \in Calls : \A f, g \in call[c].got : f[2] = g[2]

\* Builds never break a reader.  As long as prunes run alone, a call fails in
\* one case only: a profile is compiled for another build while it loads.
FailsOnlyByPrune ==
  (\A p \in Prunes : call[p].met = {}) =>
    \A c \in Calls : call[c].pc = "failed" => call[c].mixed

\* What is loaded is one build, and a load fails only then.
LoadsHold == LoadedTogether /\ FailsOnlyByPrune

\* An update that met no other build has its change in every later build.
UpdatesAccumulate ==
  (\A c \in Writers : op[c] = "update" /\ call[c].met \cap Writers = {}) =>
    \A c \in Writers : call[c].pc = "done" => c \in Includes(manifest)

\* A prune that runs alone removes nothing the manifests name and leaves
\* nothing else behind.
PruneIsExact ==
  [][\A c \in Prunes \cap UnderWay : call'[c].met = {} =>
       /\ \A k \in Kinds : file[k][manifest] # Absent => file'[k][manifest'] # Absent
       /\ call'[c].pc = "done" =>
            /\ \A k \in Kinds, b \in Builds : file'[k][b] # Absent => b = manifest'
            /\ metric' # Absent <=> compiled' # Absent
            /\ compiled' \in {Absent, manifest'}
            /\ \A d \in Calls : partial'[d] = "none"]_vars

===============================================================================
