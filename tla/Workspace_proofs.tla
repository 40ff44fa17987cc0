--------------------------- MODULE Workspace_proofs ---------------------------
(***************************************************************************)
(* The safety properties of Workspace, for any datasets, feeds and calls   *)
(* and any number of crashes.                                              *)
(***************************************************************************)
EXTENDS Workspace, TLAPS

-----------------------------------------------------------------------------
(* The inductive invariant.                                                *)

CallFields == {"pc", "sel", "build", "hit", "metric", "target", "live", "config"}
RuntimeFields == {"id", "active", "build", "metric", "feeds", "live"}

SelOK(sel) ==
  /\ sel = [dataset |-> sel.dataset, feeds |-> sel.feeds]
  /\ sel.dataset \in Datasets /\ sel.feeds \subseteq Feeds

\* The steps of the calls that change feeds, and who comes to a step.
BuildPcs == {"replace", "unload", "forget", "forgetting", "erasefeed", "write",
             "register", "insert", "recall", "remember"}
Fits(c, pc) ==
  /\ pc = "admitted" => Op(c) \in RuntimeKinds \cup {"build"}
  /\ pc \in BuildPcs => Op(c) \in {"build", "remove"}

TypeOK ==
  /\ requests \in Scenarios
  /\ manifest = [d \in Datasets |-> manifest[d]]
  /\ compiled = [d \in Datasets |-> compiled[d]]
  /\ metric = [d \in Datasets |-> metric[d]]
  /\ feedFiles \subseteq Feeds
  /\ saved # None => SelOK(saved)
  /\ runtime # None => /\ runtime = [f \in RuntimeFields |-> runtime[f]]
                       /\ SelOK(runtime.active)
  /\ call = [c \in Calls |-> call[c]]
  /\ \A c \in Calls : /\ call[c] = [f \in CallFields |-> call[c][f]]
                      /\ SelOK(call[c].sel)
                      /\ call[c].config # None => SelOK(call[c].config)
                      /\ Fits(c, call[c].pc)

\* What is loaded, or about to be, goes together.
Weighed ==
  /\ runtime # None => runtime.metric = runtime.build
  /\ \A c \in Calls : call[c].pc \in {"record", "feeds", "carry", "swap"} =>
       call[c].metric = call[c].build

LoadPcs == {"read", "compiled", "profile", "record", "feeds", "carry", "swap"}
Resting(c) == call[c].pc \in Ended \cup {"new"}
OnPath(c) ==
  \/ Resting(c)
  \/ Op(c) \in RuntimeKinds /\ call[c].pc \in LoadPcs \cup {"admitted", "finish"}
  \/ Op(c) = "activate" /\ call[c].pc = "save"
  \/ Op(c) = "update" /\ call[c].pc \in {"base", "bundles", "manifest", "pick"}
  \/ Op(c) = "build" /\ call[c].pc \in BuildPcs \cup {"admitted", "finish"}

\* The selection that is saved can be loaded.
Startable ==
  /\ server # "failed" /\ saved # None /\ saved.feeds \subseteq feedFiles
  /\ server = "up" \/ \A c \in Calls : Resting(c)
  /\ \A d \in Datasets : <<d, manifest[d]>> \in bundles
  /\ \A d \in Datasets : compiled[d] = manifest[d] => metric[d] \in {Absent, manifest[d]}

OneJob == \A c, d \in UnderWay : c = d

\* A runtime job loads the build its manifest names.
LoadOK(c) ==
  LET d == call[c].sel.dataset IN
  /\ call[c].pc \in LoadPcs \ {"read"} => call[c].build = manifest[d]
  /\ (call[c].pc = "profile" /\ call[c].hit) => compiled[d] = manifest[d]
  /\ call[c].pc = "record" => metric[d] = manifest[d]

\* An update writes a build that nothing names yet.
UpdateOK(c) ==
  /\ call[c].pc = "manifest" => <<requests[c].dataset, NewBuild(c)>> \in bundles
  /\ call[c].pc \in {"new", "admitted", "base", "bundles", "manifest"} =>
       \A d \in Datasets : manifest[d] # NewBuild(c) /\ compiled[d] # NewBuild(c)

ActivateOK(c) ==
  ~Resting(c) => call[c].sel.feeds = requests[c].feeds /\ call[c].sel.feeds \subseteq feedFiles

\* A scenario build forgets its feed before it erases it.
BuildOK(c) ==
  LET f == requests[c].feed IN
  /\ call[c].pc \in {"erasefeed", "write"} => f \notin saved.feeds
  /\ (call[c].pc \in {"forgetting", "remember"} /\ call[c].config # None) =>
       call[c].config.feeds \subseteq feedFiles
  /\ (call[c].pc = "forgetting" /\ (call[c].config = None \/ f \notin call[c].config.feeds)) =>
       f \notin saved.feeds
  /\ call[c].pc \in {"register", "insert", "recall", "remember"} => f \in feedFiles

CallInv(c) ==
  /\ OnPath(c)
  /\ Op(c) \in RuntimeKinds => LoadOK(c)
  /\ Op(c) = "update" => UpdateOK(c)
  /\ Op(c) = "activate" => ActivateOK(c)
  /\ Op(c) = "build" => BuildOK(c)

TameInv == Startable /\ OneJob /\ \A c \in Calls : CallInv(c)

\* What a job that is under way leaves apart for a while, or one that failed.
Selection == IF runtime # None THEN runtime.active ELSE saved
SavedAgrees ==
  runtime # None =>
    \/ saved = runtime.active \/ SaveFailed(runtime.active)
    \/ \E c \in Calls : call[c].pc = "save" /\ call[c].sel = runtime.active
Follows(c) ==
  Op(c) = "update" /\
    ((call[c].pc = "pick" /\ requests[c].dataset = runtime.active.dataset)
     \/ (call[c].pc \in LoadPcs /\ call[c].sel = runtime.active))
BuildAgrees ==
  runtime # None =>
    \/ runtime.build = manifest[runtime.active.dataset]
    \/ LoadFailed(runtime.active.dataset, manifest[runtime.active.dataset])
    \/ \E c \in Calls : Follows(c)
Current(c) ==
  /\ ((Op(c) = "reload" /\ call[c].pc \in LoadPcs \cup {"admitted"})
      \/ (Op(c) = "update" /\ call[c].pc \in LoadPcs)) => call[c].sel = Selection
  /\ (call[c].pc = "save" /\ runtime # None) => call[c].sel = runtime.active
  /\ (Op(c) = "update" /\ call[c].pc \in LoadPcs \cup {"pick"}) =>
       manifest[requests[c].dataset] = NewBuild(c)
  /\ (Op(c) = "update" /\ call[c].pc \in LoadPcs) =>
       call[c].sel.dataset = requests[c].dataset
SerialInv ==
  /\ feedFiles = Feeds /\ SavedAgrees /\ BuildAgrees
  /\ \A c \in Calls : Current(c)

IInv ==
  /\ TypeOK /\ Weighed
  /\ Tame => TameInv
  /\ Serial => SerialInv

-----------------------------------------------------------------------------
(* Requests and the progress of a call.                                    *)

LEMMA RequestsAre ==
  ASSUME TypeOK, NEW c \in Calls
  PROVE  /\ Op(c) = "activate" =>
              requests[c].dataset \in Datasets /\ requests[c].feeds \subseteq Feeds
         /\ Op(c) \in {"update", "delete", "cli-update", "cli-compile"} =>
              requests[c].dataset \in Datasets
         /\ Op(c) \in {"build", "remove"} => requests[c].feed \in Feeds
<1>1. requests[c] \in [op : {"activate"}, dataset : Datasets, feeds : SUBSET Feeds]
        \cup [op : {"reload", "live", "none"}]
        \cup [op : {"update", "delete", "cli-update", "cli-compile"}, dataset : Datasets]
        \cup [op : {"remove", "build"}, feed : Feeds]
  BY ScenariosAssumption DEF TypeOK
<1> QED BY <1>1 DEF Op

LEMMA NamesDiffer ==
  ASSUME NEW c \in Calls
  PROVE  /\ NewBuild(c) # FirstBuild /\ NewBuild(c) # Absent /\ FirstBuild # Absent
         /\ \A d \in Calls : NewBuild(c) = NewBuild(d) => c = d
BY CallsAssumption DEF NewBuild, FirstBuild, Absent

\* Call c goes to pc.
Moved(c, pc) ==
  /\ call' = [d \in Calls |-> call'[d]]
  /\ call'[c] = [f \in CallFields |-> call'[c][f]]
  /\ call'[c].pc = pc
  /\ \A d \in Calls : d # c => call'[d] = call[d]
KeptButMetric(c) ==
  /\ call'[c].sel = call[c].sel /\ call'[c].build = call[c].build
  /\ call'[c].hit = call[c].hit /\ call'[c].config = call[c].config
Kept(c) == KeptButMetric(c) /\ call'[c].metric = call[c].metric

LEMMA Goes ==
  ASSUME TypeOK, NEW c \in Calls, NEW p, call' = [call EXCEPT ![c].pc = p]
  PROVE  Moved(c, p) /\ Kept(c)
<1>1. call = [d \in Calls |-> call[d]] /\ call[c] = [f \in CallFields |-> call[c][f]]
  BY DEF TypeOK
<1>2. call'[c] = [call[c] EXCEPT !.pc = p] /\ call' = [d \in Calls |-> call'[d]]
      /\ \A d \in Calls : d # c => call'[d] = call[d]
  BY <1>1
<1> QED BY <1>1, <1>2 DEF Moved, Kept, KeptButMetric, CallFields

LEMMA GoesLive ==
  ASSUME TypeOK, NEW c \in Calls, NEW p, NEW v,
         call' = [call EXCEPT ![c].pc = p, ![c].live = v]
  PROVE  Moved(c, p) /\ Kept(c)
<1>1. call = [d \in Calls |-> call[d]] /\ call[c] = [f \in CallFields |-> call[c][f]]
  BY DEF TypeOK
<1>2. /\ call'[c] = [[call[c] EXCEPT !.pc = p] EXCEPT !.live = v]
      /\ call' = [d \in Calls |-> call'[d]]
      /\ \A d \in Calls : d # c => call'[d] = call[d]
  BY <1>1
<1> QED BY <1>1, <1>2 DEF Moved, Kept, KeptButMetric, CallFields

LEMMA GoesTarget ==
  ASSUME TypeOK, NEW c \in Calls, NEW p, NEW v,
         call' = [call EXCEPT ![c].pc = p, ![c].target = v]
  PROVE  Moved(c, p) /\ Kept(c)
<1>1. call = [d \in Calls |-> call[d]] /\ call[c] = [f \in CallFields |-> call[c][f]]
  BY DEF TypeOK
<1>2. /\ call'[c] = [[call[c] EXCEPT !.pc = p] EXCEPT !.target = v]
      /\ call' = [d \in Calls |-> call'[d]]
      /\ \A d \in Calls : d # c => call'[d] = call[d]
  BY <1>1
<1> QED BY <1>1, <1>2 DEF Moved, Kept, KeptButMetric, CallFields

LEMMA GoesMetric ==
  ASSUME TypeOK, NEW c \in Calls, NEW p, NEW v,
         call' = [call EXCEPT ![c].pc = p, ![c].metric = v]
  PROVE  Moved(c, p) /\ KeptButMetric(c) /\ call'[c].metric = v
<1>1. call = [d \in Calls |-> call[d]] /\ call[c] = [f \in CallFields |-> call[c][f]]
  BY DEF TypeOK
<1>2. /\ call'[c] = [[call[c] EXCEPT !.pc = p] EXCEPT !.metric = v]
      /\ call' = [d \in Calls |-> call'[d]]
      /\ \A d \in Calls : d # c => call'[d] = call[d]
  BY <1>1
<1> QED BY <1>1, <1>2 DEF Moved, Kept, KeptButMetric, CallFields

LEMMA GoesBuild ==
  ASSUME TypeOK, NEW c \in Calls, NEW p, NEW v,
         call' = [call EXCEPT ![c].pc = p, ![c].build = v]
  PROVE  /\ Moved(c, p) /\ call'[c].build = v /\ call'[c].sel = call[c].sel
         /\ call'[c].config = call[c].config
<1>1. call = [d \in Calls |-> call[d]] /\ call[c] = [f \in CallFields |-> call[c][f]]
  BY DEF TypeOK
<1>2. /\ call'[c] = [[call[c] EXCEPT !.pc = p] EXCEPT !.build = v]
      /\ call' = [d \in Calls |-> call'[d]]
      /\ \A d \in Calls : d # c => call'[d] = call[d]
  BY <1>1
<1> QED BY <1>1, <1>2 DEF Moved, Kept, KeptButMetric, CallFields

LEMMA GoesHit ==
  ASSUME TypeOK, NEW c \in Calls, NEW p, NEW v,
         call' = [call EXCEPT ![c].pc = p, ![c].hit = v]
  PROVE  /\ Moved(c, p) /\ call'[c].hit = v /\ call'[c].sel = call[c].sel
         /\ call'[c].build = call[c].build /\ call'[c].config = call[c].config
<1>1. call = [d \in Calls |-> call[d]] /\ call[c] = [f \in CallFields |-> call[c][f]]
  BY DEF TypeOK
<1>2. /\ call'[c] = [[call[c] EXCEPT !.pc = p] EXCEPT !.hit = v]
      /\ call' = [d \in Calls |-> call'[d]]
      /\ \A d \in Calls : d # c => call'[d] = call[d]
  BY <1>1
<1> QED BY <1>1, <1>2 DEF Moved, Kept, KeptButMetric, CallFields

LEMMA GoesSel ==
  ASSUME TypeOK, NEW c \in Calls, NEW p, NEW v,
         call' = [call EXCEPT ![c].pc = p, ![c].sel = v]
  PROVE  Moved(c, p) /\ call'[c].sel = v /\ call'[c].config = call[c].config
<1>1. call = [d \in Calls |-> call[d]] /\ call[c] = [f \in CallFields |-> call[c][f]]
  BY DEF TypeOK
<1>2. /\ call'[c] = [[call[c] EXCEPT !.pc = p] EXCEPT !.sel = v]
      /\ call' = [d \in Calls |-> call'[d]]
      /\ \A d \in Calls : d # c => call'[d] = call[d]
  BY <1>1
<1> QED BY <1>1, <1>2 DEF Moved, Kept, KeptButMetric, CallFields

LEMMA GoesConfig ==
  ASSUME TypeOK, NEW c \in Calls, NEW p, NEW v,
         call' = [call EXCEPT ![c].pc = p, ![c].config = v]
  PROVE  Moved(c, p) /\ call'[c].config = v /\ call'[c].sel = call[c].sel
<1>1. call = [d \in Calls |-> call[d]] /\ call[c] = [f \in CallFields |-> call[c][f]]
  BY DEF TypeOK
<1>2. /\ call'[c] = [[call[c] EXCEPT !.pc = p] EXCEPT !.config = v]
      /\ call' = [d \in Calls |-> call'[d]]
      /\ \A d \in Calls : d # c => call'[d] = call[d]
  BY <1>1
<1> QED BY <1>1, <1>2 DEF Moved, Kept, KeptButMetric, CallFields


-----------------------------------------------------------------------------
(* Steps in general.                                                       *)

\* What has been begun stays begun.
LEMMA TameBefore ==
  ASSUME requests' = requests, overlapped => overlapped',
         \A c \in Calls : Begun(c) => call'[c].pc # "new"
  PROVE  (Tame' => Tame) /\ (Serial' => Serial)
<1>1. \A c \in Calls : Op(c)' = Op(c)
  BY DEF Op
<1>2. ASSUME Tame' PROVE Tame
  <2>1. /\ ~overlapped'
        /\ \A c \in Calls : call'[c].pc # "new" => Op(c) \in RuntimeKinds \cup {"build"}
        /\ \A b, c \in Calls :
             (call'[b].pc # "new" /\ Op(b) = "build" /\ call'[c].pc # "new") =>
               /\ Op(c) = "build" => c = b
               /\ Op(c) = "activate" => requests[b].feed \notin requests[c].feeds
    BY <1>1, <1>2 DEF Tame, Begun
  <2> QED BY <2>1 DEF Tame
<1>3. ASSUME Serial' PROVE Serial
  <2>1. /\ ~overlapped'
        /\ \A c \in Calls : call'[c].pc # "new" => Op(c) \in RuntimeKinds
    BY <1>1, <1>3 DEF Serial, Begun
  <2> QED BY <2>1 DEF Serial
<1> QED BY <1>2, <1>3

LEMMA SerialIsTame == Serial => Tame
BY DEF Serial, Tame, RuntimeKinds

\* The call that moves has been begun.
LEMMA MovedBefore ==
  ASSUME TypeOK, requests' = requests, NEW c \in Calls, NEW p, Moved(c, p), p # "new",
         overlapped => overlapped'
  PROVE  /\ Tame' => Tame
         /\ Serial' => Serial
         /\ Serial' => Tame'
         /\ Tame' => Op(c) \in RuntimeKinds \cup {"build"}
         /\ Serial' => Op(c) \in RuntimeKinds
<1>1. \A d \in Calls : Begun(d) => call'[d].pc # "new"
  BY DEF Moved, Begun
<1>2. Serial' => Tame'
  BY SerialIsTame, PTL
<1>3. Op(c)' = Op(c) /\ call'[c].pc # "new"
  BY DEF Op, Moved
<1>4. Tame' => Op(c) \in RuntimeKinds \cup {"build"}
  BY <1>3 DEF Tame, Begun
<1>5. Serial' => Op(c) \in RuntimeKinds
  BY <1>3 DEF Serial, Begun
<1> QED BY <1>1, <1>2, <1>4, <1>5, TameBefore

\* Who is under way after a call has moved.
LEMMA OneJobStays ==
  ASSUME requests' = requests, NEW c \in Calls, NEW p, Moved(c, p), OneJob,
         (p \in Ended) \/ ~Resting(c) \/ UnderWay = {} \/ Op(c) \notin RuntimeKinds
  PROVE  OneJob'
<1>1. \A d : d \in UnderWay' <=>
        d \in Calls /\ Op(d) \in RuntimeKinds /\ call'[d].pc \notin Ended \cup {"new"}
  BY DEF UnderWay, Op
<1>2. \A d : d \in UnderWay <=>
        d \in Calls /\ Op(d) \in RuntimeKinds /\ call[d].pc \notin Ended \cup {"new"}
  BY DEF UnderWay
<1>3. \A d \in UnderWay' : d # c => d \in UnderWay
  BY <1>1, <1>2 DEF Moved
<1>4. c \in UnderWay' => c \in UnderWay \/ UnderWay = {}
  BY <1>1, <1>2 DEF Moved, Resting
<1> QED BY <1>3, <1>4 DEF OneJob

RuntimeAsBefore ==
  /\ runtime = None => runtime' = None
  /\ runtime # None => /\ runtime' # None
                       /\ runtime' = [f \in RuntimeFields |-> runtime'[f]]
                       /\ runtime'.active = runtime.active
                       /\ runtime'.build = runtime.build
                       /\ runtime'.metric = runtime.metric

LEMMA SameRuntime ==
  ASSUME TypeOK, runtime' = runtime
  PROVE  RuntimeAsBefore
BY DEF TypeOK, RuntimeAsBefore

LEMMA SelectionStays ==
  ASSUME saved' = saved, RuntimeAsBefore
  PROVE  Selection' = Selection
BY DEF Selection, RuntimeAsBefore

\* A job that goes on loading goes on loading what it was to load.
LEMMA CurrentStays ==
  ASSUME requests' = requests, NEW c \in Calls, Current(c),
         saved' = saved, manifest' = manifest, RuntimeAsBefore,
         call[c].pc \in LoadPcs \/ (call[c].pc = "admitted" /\ Op(c) # "update"),
         call'[c].pc \in LoadPcs, call'[c].sel = call[c].sel
  PROVE  Current(c)'
<1>1. Selection' = Selection /\ Op(c)' = Op(c)
  BY SelectionStays DEF Op
<1> QED BY <1>1 DEF Current, LoadPcs

\* What has failed stays so while a call moves that has not ended in failure.
LEMMA FailuresStay ==
  ASSUME NEW c \in Calls, NEW p, Moved(c, p), call[c].pc \notin {"unsaved", "failed"}
  PROVE  /\ \A sel : SaveFailed(sel) =>
              \E d \in Calls : call'[d].pc = "unsaved" /\ call'[d].sel = sel
         /\ \A e, b : LoadFailed(e, b) =>
              \E d \in Calls : /\ Op(d) = "update" /\ call'[d].pc = "failed"
                               /\ requests[d].dataset = e /\ b = NewBuild(d)
<1>1. \A d \in Calls : d # c => call'[d] = call[d]
  BY DEF Moved
<1> QED BY <1>1 DEF SaveFailed, LoadFailed

\* What a job had yet to put together it puts together, or fails for good.
HandsOn(c) ==
  /\ call[c].pc \notin {"unsaved", "failed"}
  /\ call[c].pc = "save" => call'[c].pc = "unsaved" /\ call'[c].sel = call[c].sel
  /\ (runtime # None /\ Follows(c)) =>
       \/ Follows(c)'
       \/ /\ call'[c].pc = "failed" /\ Op(c) = "update"
          /\ requests[c].dataset = runtime.active.dataset
          /\ manifest[requests[c].dataset] = NewBuild(c)

\* A call that moves leaves what holds for another as it is.
LEMMA OthersStay ==
  ASSUME requests' = requests, UNCHANGED disk, NEW c \in Calls, NEW p, Moved(c, p),
         NEW d \in Calls, d # c, CallInv(d)
  PROVE  CallInv(d)'
<1>1. call'[d] = call[d]
  BY DEF Moved
<1>2. /\ manifest' = manifest /\ bundles' = bundles /\ compiled' = compiled
      /\ metric' = metric /\ feedFiles' = feedFiles /\ saved' = saved
  BY DEF disk
<1>3. OnPath(d)' /\ (Resting(d)' <=> Resting(d)) /\ Op(d)' = Op(d)
  BY <1>1 DEF CallInv, OnPath, Resting, Op
<1>4. Op(d) \in RuntimeKinds => LoadOK(d)'
  BY <1>1, <1>2 DEF CallInv, LoadOK
<1>5. Op(d) = "update" => UpdateOK(d)'
  BY <1>1, <1>2 DEF CallInv, UpdateOK
<1>6. Op(d) = "activate" => ActivateOK(d)'
  BY <1>1, <1>2, <1>3 DEF CallInv, ActivateOK
<1>7. Op(d) = "build" => BuildOK(d)'
  BY <1>1, <1>2 DEF CallInv, BuildOK
<1> QED BY <1>3, <1>4, <1>5, <1>6, <1>7 DEF CallInv

\* Types are kept by whatever a call writes.
LEMMA TypesStay ==
  ASSUME TypeOK, Weighed, requests' = requests, NEW c \in Calls, NEW p, Moved(c, p),
         manifest' = [d \in Datasets |-> manifest'[d]],
         compiled' = [d \in Datasets |-> compiled'[d]],
         metric' = [d \in Datasets |-> metric'[d]],
         feedFiles' \subseteq Feeds, saved' # None => SelOK(saved'), RuntimeAsBefore,
         SelOK(call'[c].sel), call'[c].config # None => SelOK(call'[c].config),
         p \in {"record", "feeds", "carry", "swap"} => call'[c].metric = call'[c].build,
         Fits(c, p)
  PROVE  TypeOK' /\ Weighed'
<1>1. \A d \in Calls : d # c => call'[d] = call[d]
  BY DEF Moved
<1>2. TypeOK'
  <2>1. runtime' # None => /\ runtime' = [f \in RuntimeFields |-> runtime'[f]]
                           /\ SelOK(runtime'.active)
    BY DEF RuntimeAsBefore, TypeOK
  <2>2. ASSUME NEW d \in Calls
        PROVE  /\ call'[d] = [f \in CallFields |-> call'[d][f]]
               /\ SelOK(call'[d].sel)
               /\ call'[d].config # None => SelOK(call'[d].config)
               /\ Fits(d, call'[d].pc)
    BY <1>1 DEF TypeOK, Moved
  <2>3. call' = [d \in Calls |-> call'[d]] /\ requests' \in Scenarios
    BY DEF Moved, TypeOK
  <2>4. \A s : SelOK(s)' <=> SelOK(s)
    BY DEF SelOK
  <2>5. \A d, q : Fits(d, q)' <=> Fits(d, q)
    BY DEF Fits, Op
  <2> QED BY <2>1, <2>2, <2>3, <2>4, <2>5 DEF TypeOK
<1>3. Weighed'
  <2>1. runtime' # None => runtime'.metric = runtime'.build
    BY DEF RuntimeAsBefore, Weighed
  <2>2. \A d \in Calls : call'[d].pc \in {"record", "feeds", "carry", "swap"} =>
                           call'[d].metric = call'[d].build
    BY <1>1 DEF Moved, Weighed
  <2> QED BY <2>1, <2>2 DEF Weighed
<1> QED BY <1>2, <1>3

\* What the parts of the invariant need of a step in which one call moves.
LEMMA MovedStep ==
  ASSUME IInv, requests' = requests, NEW c \in Calls, NEW p, Moved(c, p), p # "new",
         overlapped => overlapped', TypeOK', Weighed',
         (Tame /\ TameInv /\ Tame' /\ Op(c) \in RuntimeKinds \cup {"build"}) =>
           /\ Startable'
           /\ \A d \in Calls : CallInv(d)'
           /\ (p \in Ended) \/ ~Resting(c) \/ UnderWay = {} \/ Op(c) \notin RuntimeKinds,
         (Tame /\ TameInv /\ SerialInv /\ Serial' /\ Op(c) \in RuntimeKinds) => SerialInv'
  PROVE  IInv'
<1>1. TypeOK
  BY DEF IInv
<1>2. /\ Tame' => Tame
      /\ Serial' => Serial
      /\ Serial' => Tame'
      /\ Tame' => Op(c) \in RuntimeKinds \cup {"build"}
      /\ Serial' => Op(c) \in RuntimeKinds
  BY <1>1, MovedBefore
<1>3. ASSUME Tame' PROVE TameInv'
  <2>1. Tame /\ TameInv /\ Op(c) \in RuntimeKinds \cup {"build"}
    BY <1>2, <1>3 DEF IInv
  <2>2. OneJob'
    BY <1>3, <2>1, OneJobStays DEF TameInv
  <2> QED BY <1>3, <2>1, <2>2 DEF TameInv
<1>4. ASSUME Serial' PROVE SerialInv'
  BY <1>2, <1>4 DEF IInv
<1> QED BY <1>3, <1>4 DEF IInv

\* A step that leaves the disk alone.
LEMMA DisklessStep ==
  ASSUME IInv, requests' = requests, NEW c \in Calls, NEW p, Moved(c, p), p # "new",
         overlapped => overlapped', UNCHANGED disk, server' = server, RuntimeAsBefore,
         SelOK(call'[c].sel), call'[c].config # None => SelOK(call'[c].config),
         p \in {"record", "feeds", "carry", "swap"} => call'[c].metric = call'[c].build,
         Fits(c, p), server = "up" \/ ByCli(c),
         (TameInv /\ Tame' /\ Op(c) \in RuntimeKinds \cup {"build"}) =>
           /\ CallInv(c)'
           /\ (p \in Ended) \/ ~Resting(c) \/ UnderWay = {} \/ Op(c) \notin RuntimeKinds,
         (TameInv /\ SerialInv /\ Serial' /\ Op(c) \in RuntimeKinds) =>
           Current(c)' /\ HandsOn(c)
  PROVE  IInv'
<1>1. /\ manifest' = manifest /\ bundles' = bundles /\ compiled' = compiled
      /\ metric' = metric /\ feedFiles' = feedFiles /\ saved' = saved
  BY DEF disk
<1>2. TypeOK /\ Weighed
  BY DEF IInv
<1>3. \A d \in Calls : d # c => call'[d] = call[d]
  BY DEF Moved
<1>4. TypeOK' /\ Weighed'
  <2>1. /\ manifest' = [d \in Datasets |-> manifest'[d]]
        /\ compiled' = [d \in Datasets |-> compiled'[d]]
        /\ metric' = [d \in Datasets |-> metric'[d]]
        /\ feedFiles' \subseteq Feeds
        /\ saved' # None => SelOK(saved')
    BY <1>1, <1>2 DEF TypeOK
  <2> QED BY <1>2, <2>1, TypesStay
<1>6. /\ Tame' => Tame
      /\ Serial' => Serial
      /\ Serial' => Tame'
      /\ Tame' => Op(c) \in RuntimeKinds \cup {"build"}
      /\ Serial' => Op(c) \in RuntimeKinds
  BY <1>2, MovedBefore
<1>7. ASSUME Tame' PROVE TameInv'
  <2>1. Tame /\ TameInv
    BY <1>6, <1>7 DEF IInv
  <2>2. OneJob'
    BY <1>6, <1>7, <2>1, OneJobStays DEF TameInv
  <2>3. server = "up"
    BY <1>6, <1>7 DEF ByCli, RuntimeKinds
  <2>4. Startable'
    BY <1>1, <2>1, <2>3 DEF TameInv, Startable
  <2>5. ASSUME NEW d \in Calls PROVE CallInv(d)'
    <3>1. CASE d = c
      BY <1>6, <1>7, <2>1, <3>1
    <3>2. CASE d # c
      BY <2>1, <3>2, OthersStay DEF TameInv
    <3> QED BY <3>1, <3>2
  <2> QED BY <2>2, <2>4, <2>5 DEF TameInv
<1>8. ASSUME Serial' PROVE SerialInv'
  <2>1. Tame /\ TameInv /\ SerialInv
    BY <1>6, <1>8 DEF IInv
  <2>2. Current(c)' /\ HandsOn(c) /\ call[c].pc \notin {"unsaved", "failed"}
    BY <1>6, <1>8, <2>1 DEF HandsOn
  <2>3. SavedAgrees'
    <3>1. SUFFICES ASSUME runtime' # None
                   PROVE  \/ saved = runtime.active
                          \/ \E d \in Calls : call'[d].pc \in {"save", "unsaved"}
                                             /\ call'[d].sel = runtime.active
      BY <1>1 DEF SavedAgrees, SaveFailed, RuntimeAsBefore
    <3>2. runtime # None
      BY <3>1 DEF RuntimeAsBefore
    <3>3. CASE SaveFailed(runtime.active)
      BY <2>2, <3>3, FailuresStay
    <3>4. ASSUME NEW d \in Calls, call[d].pc = "save", call[d].sel = runtime.active
          PROVE  call'[d].pc \in {"save", "unsaved"} /\ call'[d].sel = runtime.active
      BY <1>3, <2>2, <3>4 DEF HandsOn
    <3> QED BY <2>1, <3>2, <3>3, <3>4 DEF SerialInv, SavedAgrees
  <2>4. BuildAgrees'
    <3>1. SUFFICES ASSUME runtime' # None
                   PROVE  \/ runtime.build = manifest[runtime.active.dataset]
                          \/ \E d \in Calls :
                               /\ Op(d) = "update" /\ call'[d].pc = "failed"
                               /\ requests[d].dataset = runtime.active.dataset
                               /\ manifest[runtime.active.dataset] = NewBuild(d)
                          \/ \E d \in Calls : Follows(d)'
      BY <1>1 DEF BuildAgrees, LoadFailed, RuntimeAsBefore, Op
    <3>2. runtime # None /\ runtime'.active = runtime.active
      BY <3>1 DEF RuntimeAsBefore
    <3>3. CASE LoadFailed(runtime.active.dataset, manifest[runtime.active.dataset])
      BY <2>2, <3>3, FailuresStay
    <3>4. ASSUME NEW d \in Calls, Follows(d), d # c
          PROVE  Follows(d)'
      BY <1>3, <3>2, <3>4 DEF Follows, Op
    <3>5. ASSUME Follows(c)
          PROVE  \/ Follows(c)'
                 \/ /\ Op(c) = "update" /\ call'[c].pc = "failed"
                    /\ requests[c].dataset = runtime.active.dataset
                    /\ manifest[runtime.active.dataset] = NewBuild(c)
      BY <2>2, <3>2, <3>5 DEF HandsOn
    <3> QED BY <2>1, <3>2, <3>3, <3>4, <3>5 DEF SerialInv, BuildAgrees
  <2>5. ASSUME NEW d \in Calls PROVE Current(d)'
    <3>1. CASE d = c
      BY <2>2, <3>1
    <3>2. CASE d # c
      <4>1. /\ runtime' # None => runtime # None /\ runtime'.active = runtime.active
            /\ Selection' = Selection
        BY <1>1, SelectionStays DEF RuntimeAsBefore
      <4>2. Current(d) /\ call'[d] = call[d] /\ Op(d)' = Op(d)
        BY <1>3, <2>1, <3>2 DEF SerialInv, Op
      <4> QED BY <1>1, <4>1, <4>2 DEF Current
    <3> QED BY <3>1, <3>2
  <2> QED BY <1>1, <2>1, <2>3, <2>4, <2>5 DEF SerialInv
<1> QED BY <1>4, <1>7, <1>8 DEF IInv

LEMMA QuietStep ==
  ASSUME IInv, requests' = requests, NEW c \in Calls, NEW p, Moved(c, p), p # "new",
         overlapped => overlapped', UNCHANGED disk, server' = server, RuntimeAsBefore,
         SelOK(call'[c].sel), call'[c].config # None => SelOK(call'[c].config),
         p \in {"record", "feeds", "carry", "swap"} => call'[c].metric = call'[c].build,
         Fits(c, p), server = "up" \/ ByCli(c),
         (TameInv /\ Tame' /\ Op(c) \in RuntimeKinds \cup {"build"}) =>
           /\ CallInv(c)'
           /\ (p \in Ended) \/ ~Resting(c) \/ UnderWay = {} \/ Op(c) \notin RuntimeKinds,
         (TameInv /\ SerialInv /\ Serial' /\ Op(c) \in RuntimeKinds) =>
           /\ call[c].pc \notin {"save", "unsaved", "failed"} /\ Current(c)'
           /\ (runtime # None /\ Follows(c)) => Follows(c)'
  PROVE  IInv'
<1>1. (TameInv /\ SerialInv /\ Serial' /\ Op(c) \in RuntimeKinds) => Current(c)' /\ HandsOn(c)
  BY DEF HandsOn
<1> QED BY <1>1, DisklessStep

LEMMA GotoStep ==
  ASSUME IInv, requests' = requests, NEW c \in Calls, NEW p, Goto(c, p), p # "new",
         overlapped' = overlapped, UNCHANGED disk, server' = server, RuntimeAsBefore,
         p \in {"record", "feeds", "carry", "swap"} => call[c].metric = call[c].build,
         Fits(c, p), server = "up" \/ ByCli(c), ~Resting(c) \/ p \in Ended \/ Op(c) \notin RuntimeKinds,
         (TameInv /\ Tame' /\ Op(c) \in RuntimeKinds \cup {"build"}) => CallInv(c)',
         (TameInv /\ SerialInv /\ Serial' /\ Op(c) \in RuntimeKinds) =>
           /\ call[c].pc \notin {"save", "unsaved", "failed"} /\ Current(c)'
           /\ (runtime # None /\ Follows(c)) => Follows(c)'
  PROVE  IInv'
<1>1. TypeOK
  BY DEF IInv
<1>2. Moved(c, p) /\ Kept(c)
  BY <1>1, Goes DEF Goto
<1>3. SelOK(call'[c].sel) /\ (call'[c].config # None => SelOK(call'[c].config))
  BY <1>1, <1>2 DEF TypeOK, Kept, KeptButMetric
<1>4. p \in {"record", "feeds", "carry", "swap"} => call'[c].metric = call'[c].build
  BY <1>2 DEF Kept, KeptButMetric
<1> QED BY <1>2, <1>3, <1>4, QuietStep

LEMMA EndedInv ==
  ASSUME NEW c \in Calls, NEW p \in Ended, Moved(c, p)
  PROVE  CallInv(c)' /\ Current(c)'
<1>1. Resting(c)' /\ call'[c].pc \in Ended
  BY DEF Moved, Resting
<1>2. /\ OnPath(c)' /\ LoadOK(c)' /\ UpdateOK(c)' /\ ActivateOK(c)' /\ BuildOK(c)'
      /\ Current(c)'
  BY <1>1 DEF OnPath, BuildPcs, LoadOK, UpdateOK, ActivateOK, BuildOK, Current, Ended, LoadPcs
<1> QED BY <1>2 DEF CallInv

\* A failure is met only by jobs that something else has disturbed.
LEMMA FailStep ==
  ASSUME IInv, requests' = requests, NEW c \in Calls, Fail(c), server = "up" \/ ByCli(c),
         (TameInv /\ SerialInv /\ Serial' /\ Op(c) \in RuntimeKinds) =>
           call[c].pc \notin {"save", "unsaved", "failed"} /\ ~Follows(c)
  PROVE  IInv'
<1>1. TypeOK
  BY DEF IInv
<1>2. Moved(c, "failed")
  BY <1>1, Goes DEF Fail, Goto
<1>3. CallInv(c)' /\ Current(c)'
  BY <1>2, EndedInv DEF Ended
<1>4. RuntimeAsBefore
  BY <1>1, SameRuntime DEF Fail
<1> QED BY <1>3, <1>4, GotoStep DEF Fail, Ended, Fits, BuildPcs

\* A job that cannot go on leaves apart what it had yet to put together.
LEMMA BreakStep ==
  ASSUME IInv, requests' = requests, NEW c \in Calls, Break(c)
  PROVE  IInv'
<1>1. TypeOK
  BY DEF IInv
<1>2. PICK p : p = IF call[c].pc = "save" THEN "unsaved" ELSE "failed"
  OBVIOUS
<1>3. /\ call[c].pc \in FileStages /\ (server = "up" \/ ByCli(c)) /\ Goto(c, p)
      /\ overlapped' = overlapped /\ UNCHANGED <<disk, server, runtime>>
  BY <1>2 DEF Break, At
<1>4. Moved(c, p) /\ Kept(c) /\ p \in Ended
  BY <1>1, <1>2, <1>3, Goes DEF Goto, Ended
<1>5. CallInv(c)' /\ Current(c)'
  BY <1>4, EndedInv
<1>6. RuntimeAsBefore
  BY <1>1, <1>3, SameRuntime
<1>7. SelOK(call'[c].sel) /\ (call'[c].config # None => SelOK(call'[c].config))
  BY <1>1, <1>4 DEF TypeOK, Kept, KeptButMetric
<1>8. ASSUME SerialInv PROVE HandsOn(c)
  <2>1. call[c].pc \notin {"unsaved", "failed"}
    BY <1>3 DEF FileStages
  <2>2. call[c].pc = "save" => call'[c].pc = "unsaved" /\ call'[c].sel = call[c].sel
    BY <1>2, <1>4 DEF Moved, Kept, KeptButMetric
  <2>3. ASSUME runtime # None, Follows(c)
        PROVE  /\ call'[c].pc = "failed" /\ Op(c) = "update"
               /\ requests[c].dataset = runtime.active.dataset
               /\ manifest[requests[c].dataset] = NewBuild(c)
    <3>1. Op(c) = "update" /\ call[c].pc \in LoadPcs \cup {"pick"} /\ Current(c)
      BY <1>8, <2>3 DEF Follows, SerialInv
    <3>2. call'[c].pc = "failed"
      BY <1>2, <1>4, <3>1 DEF Moved, LoadPcs
    <3>3. requests[c].dataset = runtime.active.dataset
      BY <2>3, <3>1 DEF Follows, Current
    <3> QED BY <3>1, <3>2, <3>3 DEF Current
  <2> QED BY <2>1, <2>2, <2>3 DEF HandsOn
<1>9. p # "new" /\ p \notin {"record", "feeds", "carry", "swap"} /\ Fits(c, p)
  BY <1>2 DEF Fits, BuildPcs
<1> QED BY <1>3, <1>4, <1>5, <1>6, <1>7, <1>8, <1>9, DisklessStep

-----------------------------------------------------------------------------
(* Admission.                                                              *)

LEMMA AdmitStep ==
  ASSUME IInv, requests' = requests, NEW c \in Calls, NEW sel, SelOK(sel),
         NEW ok \in BOOLEAN, Admit(c, sel, ok), Op(c) \in RuntimeKinds \cup {"build"},
         (ok /\ Op(c) = "activate") => /\ sel.feeds = requests[c].feeds
                                       /\ sel.feeds \subseteq feedFiles,
         (ok /\ Op(c) = "reload") => sel = IF runtime # None THEN runtime.active ELSE saved
  PROVE  IInv'
<1>1. TypeOK
  BY DEF IInv
<1>2. PICK p : p = IF ok THEN "admitted" ELSE "refused"
  OBVIOUS
<1>3. Moved(c, p) /\ call'[c].sel = sel /\ call'[c].config = call[c].config
  <2>1. call' = [call EXCEPT ![c].pc = p, ![c].sel = sel]
    BY <1>2 DEF Admit
  <2> QED BY <1>1, <2>1, GoesSel
<1>4. /\ call[c].pc = "new" /\ UNCHANGED <<disk, server, runtime>>
      /\ overlapped' = (overlapped \/ (ok /\ Op(c) \in RuntimeKinds /\ UnderWay # {}))
      /\ server = "up" \/ ByCli(c)
  BY DEF Admit, At
<1>5. RuntimeAsBefore
  BY <1>1, <1>4, SameRuntime
<1>6. SelOK(call'[c].sel) /\ (call'[c].config # None => SelOK(call'[c].config))
  BY <1>1, <1>3 DEF TypeOK
<1>7. ASSUME TameInv, Tame'
      PROVE  CallInv(c)' /\ (p \in Ended \/ UnderWay = {} \/ Op(c) \notin RuntimeKinds)
  <2>1. CASE ~ok
    BY <1>2, <1>3, <2>1, EndedInv DEF Ended
  <2>2. CASE ok
    <3>1. ~overlapped' /\ call'[c].pc = "admitted"
      BY <1>2, <1>3, <1>7, <2>2 DEF Tame, Moved
    <3>2. UnderWay = {} \/ Op(c) \notin RuntimeKinds
      BY <1>4, <2>2, <3>1
    <3>3. manifest' = manifest /\ compiled' = compiled /\ feedFiles' = feedFiles
      BY <1>4 DEF disk
    <3>4. OnPath(c)' /\ LoadOK(c)' /\ BuildOK(c)'
      BY <3>1 DEF OnPath, BuildPcs, LoadOK, BuildOK, LoadPcs, Op
    <3>5. Op(c) = "activate" => ActivateOK(c)'
      BY <1>3, <2>2, <3>3 DEF ActivateOK
    <3>6. Op(c) = "update" => UpdateOK(c)'
      BY <1>4, <1>7, <3>1, <3>3 DEF TameInv, CallInv, UpdateOK
    <3> QED BY <3>2, <3>4, <3>5, <3>6 DEF CallInv, Op
  <2> QED BY <2>1, <2>2
<1>8. ASSUME TameInv, SerialInv, Serial', Op(c) \in RuntimeKinds
      PROVE  Current(c)'
  <2>1. CASE ~ok
    BY <1>2, <1>3, <2>1, EndedInv DEF Ended
  <2>2. CASE ok
    <3>1. ~overlapped' /\ call'[c].pc = "admitted"
      BY <1>2, <1>3, <1>8, <2>2 DEF Serial, Moved
    <3>2. Op(c) = "reload" => sel = Selection
      BY <2>2 DEF Selection
    <3>3. Selection' = Selection
      BY <1>4, <1>5, SelectionStays DEF disk
    <3> QED BY <1>3, <3>1, <3>2, <3>3 DEF Current, LoadPcs, Op
  <2> QED BY <2>1, <2>2
<1>9. call[c].pc \notin {"save", "unsaved", "failed"} /\ ~Follows(c)
  BY <1>4 DEF Follows, LoadPcs
<1>10. p # "new" /\ p \notin {"record", "feeds", "carry", "swap"} /\ Fits(c, p)
  BY <1>2 DEF Fits, BuildPcs
<1> QED BY <1>3, <1>4, <1>5, <1>6, <1>7, <1>8, <1>9, <1>10, QuietStep

LEMMA BeginStep ==
  ASSUME IInv, requests' = requests, NEW c \in Calls, Begin(c)
  PROVE  IInv'
<1>1. TypeOK
  BY DEF IInv
<1>2. CASE Activate(c)
  <2>1. PICK sel : sel = [dataset |-> requests[c].dataset, feeds |-> requests[c].feeds]
    OBVIOUS
  <2>2. SelOK(sel)
    BY <1>1, <1>2, <2>1, RequestsAre DEF Activate, SelOK
  <2>3. PICK ok \in BOOLEAN : ok = (/\ manifest[sel.dataset] # Absent
                                    /\ sel.feeds \subseteq feedFiles
                                    /\ Runtimes = {})
    OBVIOUS
  <2>4. Admit(c, sel, ok) /\ Op(c) = "activate"
    BY <1>2, <2>1, <2>3 DEF Activate
  <2> QED BY <2>1, <2>2, <2>3, <2>4, AdmitStep DEF RuntimeKinds
<1>3. CASE Reload(c)
  <2>1. PICK sel : sel = IF runtime # None THEN runtime.active ELSE saved
    OBVIOUS
  <2>2. Op(c) = "reload" /\ (IF sel = None THEN Admit(c, Selected, FALSE)
                             ELSE Admit(c, sel, Runtimes = {}))
    BY <1>3, <2>1 DEF Reload
  <2>3. CASE sel = None
    <3>1. SelOK(Selected)
      BY SelectedAssumption DEF SelOK
    <3> QED BY <2>2, <2>3, <3>1, AdmitStep DEF RuntimeKinds
  <2>4. CASE sel # None
    <3>1. SelOK(sel)
      BY <1>1, <2>1, <2>4 DEF TypeOK
    <3>2. PICK ok \in BOOLEAN : ok = (Runtimes = {})
      OBVIOUS
    <3> QED BY <2>1, <2>2, <2>4, <3>1, <3>2, AdmitStep DEF RuntimeKinds
  <2> QED BY <2>3, <2>4
<1>4. CASE Update(c) \/ BuildScenario(c)
  <2>1. SelOK(Selected)
    BY SelectedAssumption DEF SelOK
  <2>2. CASE Update(c)
    <3>1. PICK ok \in BOOLEAN :
            ok = (manifest[requests[c].dataset] # Absent /\ Runtimes = {})
      OBVIOUS
    <3> QED BY <2>1, <2>2, <3>1, AdmitStep DEF RuntimeKinds, Update
  <2>3. CASE BuildScenario(c)
    <3>1. PICK ok \in BOOLEAN : ok = (Builders = {})
      OBVIOUS
    <3> QED BY <2>1, <2>3, <3>1, AdmitStep DEF RuntimeKinds, BuildScenario
  <2> QED BY <1>4, <2>2, <2>3
<1> QED BY <1>2, <1>3, <1>4 DEF Begin

-----------------------------------------------------------------------------
(* Steps of a job that leave the disk alone.                               *)

LEMMA SpawnStep ==
  ASSUME IInv, requests' = requests, NEW c \in Calls, Spawn(c)
  PROVE  IInv'
<1>1. TypeOK
  BY DEF IInv
<1>2. PICK p : p = Stage(c)
  OBVIOUS
<1>3. p \in {"read", "base", "replace"} /\ Goto(c, p) /\ call[c].pc = "admitted"
  BY <1>2 DEF Spawn, Stage, At
<1>4. /\ UNCHANGED <<disk, server, runtime>> /\ overlapped' = overlapped
      /\ server = "up" \/ ByCli(c)
  BY DEF Spawn, At
<1>5. RuntimeAsBefore
  BY <1>1, <1>4, SameRuntime
<1>6. Moved(c, p) /\ Kept(c)
  BY <1>1, <1>3, Goes DEF Goto
<1>7. /\ call'[c].pc = p /\ call'[c].sel = call[c].sel /\ Op(c)' = Op(c)
      /\ manifest' = manifest /\ compiled' = compiled /\ feedFiles' = feedFiles
      /\ saved' = saved
  BY <1>4, <1>6 DEF Moved, Kept, KeptButMetric, disk, Op
<1>8. ASSUME TameInv, Op(c) \in RuntimeKinds \cup {"build"}
      PROVE  CallInv(c)'
  <2>1. CallInv(c)
    BY <1>8 DEF TameInv
  <2>2. OnPath(c)'
    BY <1>2, <1>7, <1>8 DEF OnPath, BuildPcs, LoadPcs, Stage, RuntimeKinds
  <2>3. LoadOK(c)' /\ BuildOK(c)'
    BY <1>3, <1>7 DEF LoadOK, LoadPcs, BuildOK
  <2>4. Op(c) = "update" => UpdateOK(c)'
    BY <1>3, <1>7, <2>1 DEF CallInv, UpdateOK
  <2>5. Op(c) = "activate" => ActivateOK(c)'
    BY <1>3, <1>7, <2>1 DEF CallInv, ActivateOK, Resting, Ended
  <2> QED BY <1>7, <2>2, <2>3, <2>4, <2>5 DEF CallInv
<1>9. ASSUME SerialInv PROVE Current(c)'
  <2>1. Current(c)
    BY <1>9 DEF SerialInv
  <2>2. CASE p = "read"
    <3>1. Op(c) # "update" /\ call'[c].pc \in LoadPcs
      BY <1>2, <1>7, <2>2 DEF Stage, LoadPcs
    <3> QED BY <1>3, <1>5, <1>7, <2>1, <3>1, CurrentStays
  <2>3. CASE p # "read"
    BY <1>3, <1>7, <2>3 DEF Current, LoadPcs
  <2> QED BY <2>2, <2>3
<1>10. ~Follows(c) /\ ~Resting(c)
  BY <1>3 DEF Follows, LoadPcs, Resting, Ended
<1>11. Fits(c, p)
  BY <1>1, <1>2, <1>3 DEF Stage, Fits, BuildPcs, TypeOK, RuntimeKinds
<1> QED BY <1>3, <1>4, <1>5, <1>8, <1>9, <1>10, <1>11, GotoStep

\* What Startable says of the dataset a call has selected.
LEMMA SelectedLoads ==
  ASSUME TypeOK, TameInv, NEW sel, SelOK(sel)
  PROVE  /\ <<sel.dataset, manifest[sel.dataset]>> \in bundles
         /\ compiled[sel.dataset] = manifest[sel.dataset] =>
              metric[sel.dataset] \in {Absent, manifest[sel.dataset]}
BY DEF TameInv, Startable, SelOK

LEMMA ReadManifestStep ==
  ASSUME IInv, requests' = requests, NEW c \in Calls, ReadManifest(c)
  PROVE  IInv'
<1>1. TypeOK
  BY DEF IInv
<1>2. PICK d, b : d = call[c].sel.dataset /\ b = manifest[d]
  OBVIOUS
<1>3. call[c].pc = "read" /\ (server = "up" \/ ByCli(c))
  BY DEF ReadManifest, At
<1>4. TameInv => <<d, b>> \in bundles
  BY <1>1, <1>2, SelectedLoads DEF TypeOK
<1>5. CASE <<d, b>> \notin bundles
  <2>1. Fail(c)
    BY <1>2, <1>5 DEF ReadManifest
  <2> QED BY <1>3, <1>4, <1>5, <2>1, FailStep
<1>6. CASE <<d, b>> \in bundles
  <2>1. /\ call' = [call EXCEPT ![c].pc = "compiled", ![c].build = b]
        /\ UNCHANGED <<disk, server, runtime>> /\ overlapped' = overlapped
    BY <1>2, <1>6 DEF ReadManifest
  <2>2. /\ Moved(c, "compiled") /\ call'[c].build = b
        /\ call'[c].sel = call[c].sel /\ call'[c].config = call[c].config
    <3>1. call = [e \in Calls |-> call[e]] /\ call[c] = [f \in CallFields |-> call[c][f]]
      BY <1>1 DEF TypeOK
    <3>2. /\ call'[c] = [[call[c] EXCEPT !.pc = "compiled"] EXCEPT !.build = b]
          /\ call' = [e \in Calls |-> call'[e]]
          /\ \A e \in Calls : e # c => call'[e] = call[e]
      BY <2>1, <3>1
    <3> QED BY <3>1, <3>2 DEF Moved, CallFields
  <2>3. RuntimeAsBefore
    BY <1>1, <2>1, SameRuntime
  <2>4. SelOK(call'[c].sel) /\ (call'[c].config # None => SelOK(call'[c].config))
    BY <1>1, <2>2 DEF TypeOK
  <2>5. /\ call'[c].pc = "compiled" /\ Op(c)' = Op(c)
        /\ manifest' = manifest /\ compiled' = compiled /\ feedFiles' = feedFiles
        /\ saved' = saved
    BY <2>1, <2>2 DEF Moved, disk, Op
  <2>6. ASSUME TameInv, Op(c) \in RuntimeKinds \cup {"build"}
        PROVE  CallInv(c)'
    <3>1. CallInv(c)
      BY <2>6 DEF TameInv
    <3>2. Op(c) \in RuntimeKinds
      BY <1>3, <3>1 DEF CallInv, OnPath, BuildPcs, LoadPcs, Resting, Ended, RuntimeKinds
    <3>3. OnPath(c)' /\ LoadOK(c)' /\ UpdateOK(c)'
      BY <1>2, <2>2, <2>5, <3>2 DEF OnPath, BuildPcs, LoadPcs, LoadOK, UpdateOK
    <3>4. Op(c) = "activate" => ActivateOK(c)'
      BY <1>3, <2>2, <2>5, <3>1 DEF CallInv, ActivateOK, Resting, Ended
    <3> QED BY <2>5, <3>2, <3>3, <3>4 DEF CallInv, RuntimeKinds
  <2>7. ASSUME SerialInv PROVE Current(c)' /\ ((runtime # None /\ Follows(c)) => Follows(c)')
    <3>1. Current(c)
      BY <2>7 DEF SerialInv
    <3>2. Current(c)'
      <4>1. call[c].pc \in LoadPcs /\ call'[c].pc \in LoadPcs
        BY <1>3, <2>5 DEF LoadPcs
      <4> QED BY <2>2, <2>3, <2>5, <3>1, <4>1, CurrentStays
    <3>3. Follows(c) => Follows(c)'
      BY <1>3, <2>1, <2>2, <2>5 DEF Follows, LoadPcs
    <3> QED BY <3>2, <3>3
  <2>8. ~Resting(c)
    BY <1>3 DEF Resting, Ended
  <2> QED BY <1>3, <2>1, <2>2, <2>3, <2>4, <2>6, <2>7, <2>8, QuietStep DEF Fits, BuildPcs
<1> QED BY <1>5, <1>6

LEMMA ReadCompiledStep ==
  ASSUME IInv, requests' = requests, NEW c \in Calls, ReadCompiled(c)
  PROVE  IInv'
<1>1. TypeOK
  BY DEF IInv
<1>2. PICK v : v = (compiled[call[c].sel.dataset] = call[c].build)
  OBVIOUS
<1>3. /\ call[c].pc = "compiled" /\ (server = "up" \/ ByCli(c))
      /\ call' = [call EXCEPT ![c].pc = "profile", ![c].hit = v]
      /\ UNCHANGED <<disk, server, runtime>> /\ overlapped' = overlapped
  BY <1>2 DEF ReadCompiled, At
<1>4. /\ Moved(c, "profile") /\ call'[c].hit = v /\ call'[c].sel = call[c].sel
      /\ call'[c].build = call[c].build /\ call'[c].config = call[c].config
  BY <1>1, <1>3, GoesHit
<1>5. RuntimeAsBefore
  BY <1>1, <1>3, SameRuntime
<1>6. SelOK(call'[c].sel) /\ (call'[c].config # None => SelOK(call'[c].config))
  BY <1>1, <1>4 DEF TypeOK
<1>7. /\ call'[c].pc = "profile" /\ Op(c)' = Op(c)
      /\ manifest' = manifest /\ compiled' = compiled /\ feedFiles' = feedFiles
      /\ saved' = saved
  BY <1>3, <1>4 DEF Moved, disk, Op
<1>8. ASSUME TameInv, Op(c) \in RuntimeKinds \cup {"build"}
      PROVE  CallInv(c)'
  <2>1. CallInv(c)
    BY <1>8 DEF TameInv
  <2>2. Op(c) \in RuntimeKinds
    BY <1>3, <2>1 DEF CallInv, OnPath, BuildPcs, LoadPcs, Resting, Ended, RuntimeKinds
  <2>3. call[c].build = manifest[call[c].sel.dataset]
    BY <1>3, <2>1, <2>2 DEF CallInv, LoadOK, LoadPcs
  <2>4. OnPath(c)' /\ LoadOK(c)' /\ UpdateOK(c)'
    BY <1>2, <1>4, <1>7, <2>2, <2>3 DEF OnPath, BuildPcs, LoadPcs, LoadOK, UpdateOK
  <2>5. Op(c) = "activate" => ActivateOK(c)'
    BY <1>3, <1>4, <1>7, <2>1 DEF CallInv, ActivateOK, Resting, Ended
  <2> QED BY <1>7, <2>2, <2>4, <2>5 DEF CallInv, RuntimeKinds
<1>9. ASSUME SerialInv PROVE Current(c)' /\ ((runtime # None /\ Follows(c)) => Follows(c)')
  <2>1. Current(c)
    BY <1>9 DEF SerialInv
  <2>2. Current(c)'
    <3>1. call[c].pc \in LoadPcs /\ call'[c].pc \in LoadPcs
      BY <1>3, <1>7 DEF LoadPcs
    <3> QED BY <1>4, <1>5, <1>7, <2>1, <3>1, CurrentStays
  <2>3. Follows(c) => Follows(c)'
    BY <1>3, <1>4, <1>7 DEF Follows, LoadPcs
  <2> QED BY <2>2, <2>3
<1>10. ~Resting(c)
  BY <1>3 DEF Resting, Ended
<1> QED BY <1>3, <1>4, <1>5, <1>6, <1>8, <1>9, <1>10, QuietStep DEF Fits, BuildPcs

\* Without a disturbance the bundle a job reuses is that of its build.
LEMMA LoadCachedStep ==
  ASSUME IInv, requests' = requests, NEW c \in Calls, LoadCached(c)
  PROVE  IInv'
<1>1. TypeOK
  BY DEF IInv
<1>2. PICK from : from = metric[call[c].sel.dataset]
  OBVIOUS
<1>3. /\ call[c].pc = "profile" /\ (server = "up" \/ ByCli(c))
      /\ call[c].hit /\ from # Absent
  BY <1>2 DEF LoadCached, At, Reusable
<1>4. ASSUME TameInv, Op(c) \in RuntimeKinds
      PROVE  /\ call[c].build = manifest[call[c].sel.dataset]
             /\ from = call[c].build
  <2>1. CallInv(c)
    BY <1>4 DEF TameInv
  <2>2. /\ call[c].build = manifest[call[c].sel.dataset]
        /\ compiled[call[c].sel.dataset] = manifest[call[c].sel.dataset]
    BY <1>3, <1>4, <2>1 DEF CallInv, LoadOK, LoadPcs
  <2>3. metric[call[c].sel.dataset] \in {Absent, manifest[call[c].sel.dataset]}
    BY <1>1, <1>4, <2>2, SelectedLoads DEF TypeOK
  <2> QED BY <1>2, <1>3, <2>2, <2>3
<1>5. CASE from # call[c].build
  <2>1. Fail(c)
    BY <1>2, <1>5 DEF LoadCached
  <2> QED BY <1>3, <1>4, <1>5, <2>1, FailStep
<1>6. CASE from = call[c].build
  <2>1. /\ call' = [call EXCEPT ![c].pc = "feeds", ![c].metric = from]
        /\ UNCHANGED <<disk, server, runtime>> /\ overlapped' = overlapped
    BY <1>2, <1>6 DEF LoadCached
  <2>2. Moved(c, "feeds") /\ KeptButMetric(c) /\ call'[c].metric = from
    BY <1>1, <2>1, GoesMetric
  <2>3. /\ call'[c].sel = call[c].sel /\ call'[c].build = call[c].build
        /\ call'[c].config = call[c].config /\ call'[c].metric = call'[c].build
    BY <1>6, <2>2 DEF KeptButMetric
  <2>4. RuntimeAsBefore
    BY <1>1, <2>1, SameRuntime
  <2>5. SelOK(call'[c].sel) /\ (call'[c].config # None => SelOK(call'[c].config))
    BY <1>1, <2>3 DEF TypeOK
  <2>6. /\ call'[c].pc = "feeds" /\ Op(c)' = Op(c)
        /\ manifest' = manifest /\ compiled' = compiled /\ feedFiles' = feedFiles
        /\ saved' = saved
    BY <2>1, <2>2 DEF Moved, disk, Op
  <2>7. ASSUME TameInv, Op(c) \in RuntimeKinds \cup {"build"}
        PROVE  CallInv(c)'
    <3>1. CallInv(c)
      BY <2>7 DEF TameInv
    <3>2. Op(c) \in RuntimeKinds
      BY <1>3, <3>1 DEF CallInv, OnPath, BuildPcs, LoadPcs, Resting, Ended, RuntimeKinds
    <3>3. OnPath(c)' /\ LoadOK(c)' /\ UpdateOK(c)'
      BY <1>4, <2>3, <2>6, <2>7, <3>2 DEF OnPath, BuildPcs, LoadPcs, LoadOK, UpdateOK
    <3>4. Op(c) = "activate" => ActivateOK(c)'
      BY <1>3, <2>3, <2>6, <3>1 DEF CallInv, ActivateOK, Resting, Ended
    <3> QED BY <2>6, <3>2, <3>3, <3>4 DEF CallInv, RuntimeKinds
  <2>8. ASSUME SerialInv PROVE Current(c)' /\ ((runtime # None /\ Follows(c)) => Follows(c)')
    <3>1. Current(c)
      BY <2>8 DEF SerialInv
    <3>2. Current(c)'
      <4>1. call[c].pc \in LoadPcs /\ call'[c].pc \in LoadPcs
        BY <1>3, <2>6 DEF LoadPcs
      <4> QED BY <2>3, <2>4, <2>6, <3>1, <4>1, CurrentStays
    <3>3. Follows(c) => Follows(c)'
      BY <1>3, <2>1, <2>3, <2>6 DEF Follows, LoadPcs
    <3> QED BY <3>2, <3>3
  <2>9. ~Resting(c)
    BY <1>3 DEF Resting, Ended
  <2> QED BY <1>3, <2>1, <2>2, <2>3, <2>4, <2>5, <2>7, <2>8, <2>9, QuietStep DEF Fits, BuildPcs
<1> QED BY <1>5, <1>6

LEMMA CarriedStep ==
  ASSUME IInv, requests' = requests, NEW c \in Calls, NEW p \in {"carry", "swap"},
         Moved(c, p), Kept(c), call[c].pc \in {"feeds", "carry"},
         server = "up" \/ ByCli(c), overlapped' = overlapped,
         UNCHANGED <<disk, server, runtime>>
  PROVE  IInv'
<1>1. TypeOK /\ Weighed
  BY DEF IInv
<1>2. RuntimeAsBefore
  BY <1>1, SameRuntime
<1>3. /\ call'[c].sel = call[c].sel /\ call'[c].build = call[c].build
      /\ call'[c].metric = call[c].metric /\ call'[c].config = call[c].config
      /\ call'[c].pc = p /\ Op(c)' = Op(c)
      /\ manifest' = manifest /\ feedFiles' = feedFiles /\ saved' = saved
  BY DEF Kept, KeptButMetric, Moved, disk, Op
<1>4. SelOK(call'[c].sel) /\ (call'[c].config # None => SelOK(call'[c].config))
  BY <1>1, <1>3 DEF TypeOK
<1>5. call'[c].metric = call'[c].build
  BY <1>1, <1>3 DEF Weighed
<1>6. ASSUME TameInv, Op(c) \in RuntimeKinds \cup {"build"}
      PROVE  CallInv(c)'
  <2>1. CallInv(c)
    BY <1>6 DEF TameInv
  <2>2. Op(c) \in RuntimeKinds
    BY <2>1, <1>6 DEF CallInv, OnPath, BuildPcs, LoadPcs, Resting, Ended, RuntimeKinds
  <2>3. OnPath(c)' /\ LoadOK(c)' /\ UpdateOK(c)'
    BY <1>3, <2>1, <2>2 DEF CallInv, OnPath, BuildPcs, LoadPcs, LoadOK, UpdateOK
  <2>4. Op(c) = "activate" => ActivateOK(c)'
    BY <1>3, <2>1 DEF CallInv, ActivateOK, Resting, Ended
  <2> QED BY <1>3, <2>2, <2>3, <2>4 DEF CallInv, RuntimeKinds
<1>7. ASSUME SerialInv PROVE Current(c)' /\ ((runtime # None /\ Follows(c)) => Follows(c)')
  <2>1. Current(c)
    BY <1>7 DEF SerialInv
  <2>2. Current(c)'
    <3>1. call[c].pc \in LoadPcs /\ call'[c].pc \in LoadPcs
      BY <1>3 DEF LoadPcs
    <3> QED BY <1>2, <1>3, <2>1, <3>1, CurrentStays
  <2>3. Follows(c) => Follows(c)'
    BY <1>3 DEF Follows, LoadPcs
  <2> QED BY <2>2, <2>3
<1>8. ~Resting(c)
  BY DEF Resting, Ended
<1> QED BY <1>2, <1>4, <1>5, <1>6, <1>7, <1>8, QuietStep DEF Fits, BuildPcs

LEMMA LoadFeedsStep ==
  ASSUME IInv, requests' = requests, NEW c \in Calls, LoadFeeds(c)
  PROVE  IInv'
<1>1. TypeOK
  BY DEF IInv
<1>2. call[c].pc = "feeds" /\ (server = "up" \/ ByCli(c))
  BY DEF LoadFeeds, At
<1>3. CASE call[c].sel.feeds \subseteq feedFiles
  <2>1. Goto(c, "carry") /\ overlapped' = overlapped /\ UNCHANGED <<disk, server, runtime>>
    BY <1>3 DEF LoadFeeds
  <2>2. Moved(c, "carry") /\ Kept(c)
    BY <1>1, <2>1, Goes DEF Goto
  <2> QED BY <1>2, <2>1, <2>2, CarriedStep
<1>4. CASE ~(call[c].sel.feeds \subseteq feedFiles)
  <2>1. Fail(c)
    BY <1>4 DEF LoadFeeds
  <2>2. ~SerialInv
    BY <1>1, <1>4 DEF SerialInv, TypeOK, SelOK
  <2> QED BY <1>2, <2>1, <2>2, FailStep
<1> QED BY <1>3, <1>4

LEMMA CarryLiveStep ==
  ASSUME IInv, requests' = requests, NEW c \in Calls, CarryLive(c)
  PROVE  IInv'
<1>1. TypeOK
  BY DEF IInv
<1>2. PICK v : v = IF runtime # None /\ runtime.active.dataset = call[c].sel.dataset
                   THEN runtime.live ELSE {}
  OBVIOUS
<1>3. /\ call[c].pc = "carry" /\ (server = "up" \/ ByCli(c))
      /\ call' = [call EXCEPT ![c].pc = "swap", ![c].live = v]
      /\ overlapped' = overlapped /\ UNCHANGED <<disk, server, runtime>>
  BY <1>2 DEF CarryLive, At
<1>4. Moved(c, "swap") /\ Kept(c)
  BY <1>1, <1>3, GoesLive
<1> QED BY <1>3, <1>4, CarriedStep

LEMMA ReadBaseStep ==
  ASSUME IInv, requests' = requests, NEW c \in Calls, ReadBase(c)
  PROVE  IInv'
<1>1. TypeOK
  BY DEF IInv
<1>2. call[c].pc = "base" /\ (server = "up" \/ ByCli(c))
  BY DEF ReadBase, At
<1>3. ~Follows(c) /\ ~Resting(c)
  BY <1>2 DEF Follows, LoadPcs, Resting, Ended
<1>4. CASE Fail(c)
  BY <1>2, <1>3, <1>4, FailStep
<1>5. CASE Goto(c, "bundles") /\ overlapped' = overlapped /\ UNCHANGED <<disk, server, runtime>>
  <2>1. Moved(c, "bundles") /\ Kept(c)
    BY <1>1, <1>5, Goes DEF Goto
  <2>2. /\ call'[c].pc = "bundles" /\ Op(c)' = Op(c)
        /\ manifest' = manifest /\ compiled' = compiled
    BY <1>5, <2>1 DEF Moved, disk, Op
  <2>3. ASSUME TameInv, Op(c) \in RuntimeKinds \cup {"build"}
        PROVE  CallInv(c)'
    <3>1. CallInv(c)
      BY <2>3 DEF TameInv
    <3>2. Op(c) = "update"
      BY <1>2, <2>3, <3>1 DEF CallInv, OnPath, BuildPcs, LoadPcs, Resting, Ended, RuntimeKinds
    <3>3. OnPath(c)' /\ LoadOK(c)'
      BY <2>2, <3>2 DEF OnPath, BuildPcs, LoadPcs, LoadOK
    <3>4. UpdateOK(c)'
      BY <1>2, <2>2, <3>1, <3>2 DEF CallInv, UpdateOK
    <3> QED BY <2>2, <3>2, <3>3, <3>4 DEF CallInv
  <2>4. Current(c)'
    BY <2>2 DEF Current, LoadPcs
  <2>5. RuntimeAsBefore
    BY <1>1, <1>5, SameRuntime
  <2> QED BY <1>2, <1>3, <1>5, <2>3, <2>4, <2>5, GotoStep DEF Fits, BuildPcs
<1> QED BY <1>4, <1>5 DEF ReadBase

\* A job that goes on with a reload takes the loaded selection.
LEMMA PickLoadedStep ==
  ASSUME IInv, requests' = requests, NEW c \in Calls, PickLoaded(c)
  PROVE  IInv'
<1>1. TypeOK
  BY DEF IInv
<1>2. /\ call[c].pc = "pick" /\ (server = "up" \/ ByCli(c))
      /\ overlapped' = overlapped /\ UNCHANGED <<disk, server, runtime>>
  BY DEF PickLoaded, At
<1>3. RuntimeAsBefore
  BY <1>1, <1>2, SameRuntime
<1>4. ~Resting(c)
  BY <1>2 DEF Resting, Ended
<1>5. (TameInv /\ Op(c) \in RuntimeKinds \cup {"build"}) => CallInv(c) /\ Op(c) = "update"
  BY <1>2 DEF TameInv, CallInv, OnPath, BuildPcs, LoadPcs, Resting, Ended, RuntimeKinds
<1>6. CASE runtime # None /\ runtime.active.dataset = requests[c].dataset
  <2>1. PICK sel : sel = runtime.active
    OBVIOUS
  <2>2. call' = [call EXCEPT ![c].pc = "read", ![c].sel = sel]
    BY <1>6, <2>1 DEF PickLoaded
  <2>3. Moved(c, "read") /\ call'[c].sel = sel /\ call'[c].config = call[c].config
    BY <1>1, <2>2, GoesSel
  <2>4. SelOK(call'[c].sel) /\ (call'[c].config # None => SelOK(call'[c].config))
    BY <1>1, <1>6, <2>1, <2>3 DEF TypeOK
  <2>5. call'[c].pc = "read" /\ Op(c)' = Op(c) /\ saved' = saved
    BY <1>2, <2>3 DEF Moved, disk, Op
  <2>6. ASSUME TameInv, Op(c) \in RuntimeKinds \cup {"build"}
        PROVE  CallInv(c)'
    <3>1. OnPath(c)' /\ LoadOK(c)' /\ UpdateOK(c)'
      BY <1>5, <2>5, <2>6 DEF OnPath, BuildPcs, LoadPcs, LoadOK, UpdateOK, RuntimeKinds
    <3> QED BY <1>5, <2>5, <2>6, <3>1 DEF CallInv
  <2>7. ASSUME TameInv, SerialInv, Op(c) \in RuntimeKinds
        PROVE  Current(c)' /\ Follows(c)'
    <3>1. Selection' = runtime.active
      BY <1>2, <1>6 DEF Selection
    <3>2. manifest'[requests'[c].dataset] = NewBuild(c)
      BY <1>2, <1>5, <2>7 DEF SerialInv, Current, disk
    <3>3. call'[c].sel.dataset = requests'[c].dataset
      BY <1>6, <2>1, <2>3
    <3>4. Follows(c)'
      BY <1>2, <1>5, <2>1, <2>3, <2>5, <2>7 DEF Follows, LoadPcs
    <3> QED BY <2>1, <2>3, <2>5, <3>1, <3>2, <3>3, <3>4 DEF Current
  <2> QED BY <1>2, <1>3, <1>4, <2>3, <2>4, <2>6, <2>7, QuietStep DEF Fits, BuildPcs
<1>7. CASE ~(runtime # None /\ runtime.active.dataset = requests[c].dataset)
  <2>1. Goto(c, "finish")
    BY <1>7 DEF PickLoaded, Goto
  <2>2. Moved(c, "finish") /\ Kept(c)
    BY <1>1, <2>1, Goes DEF Goto
  <2>3. call'[c].pc = "finish" /\ Op(c)' = Op(c)
    BY <2>2 DEF Moved, Op
  <2>4. ASSUME TameInv, Op(c) \in RuntimeKinds \cup {"build"}
        PROVE  CallInv(c)'
    <3>1. OnPath(c)' /\ LoadOK(c)' /\ UpdateOK(c)'
      BY <1>5, <2>3, <2>4 DEF OnPath, BuildPcs, LoadPcs, LoadOK, UpdateOK, RuntimeKinds
    <3> QED BY <1>5, <2>3, <2>4, <3>1 DEF CallInv
  <2>5. Current(c)'
    BY <2>3 DEF Current, LoadPcs
  <2>6. ~(runtime # None /\ Follows(c))
    BY <1>2, <1>7 DEF Follows, LoadPcs
  <2> QED BY <1>2, <1>3, <1>4, <2>1, <2>4, <2>5, <2>6, GotoStep DEF Fits, BuildPcs
<1> QED BY <1>6, <1>7

LEMMA FinishStep ==
  ASSUME IInv, requests' = requests, NEW c \in Calls, Finish(c)
  PROVE  IInv'
<1>1. TypeOK
  BY DEF IInv
<1>2. /\ call[c].pc = "finish" /\ (server = "up" \/ ByCli(c)) /\ Goto(c, "done")
      /\ overlapped' = overlapped /\ UNCHANGED <<disk, server, runtime>>
  BY DEF Finish, At
<1>3. Moved(c, "done")
  BY <1>1, <1>2, Goes DEF Goto
<1>4. CallInv(c)' /\ Current(c)'
  BY <1>3, EndedInv DEF Ended
<1>5. RuntimeAsBefore
  BY <1>1, <1>2, SameRuntime
<1>6. ~Follows(c) /\ "done" \in Ended /\ Fits(c, "done")
  BY <1>2 DEF Follows, LoadPcs, Ended, Fits, BuildPcs
<1> QED BY <1>2, <1>4, <1>5, <1>6, GotoStep

-----------------------------------------------------------------------------
(* Steps of other calls, which no promise is about.                        *)

Stray(c) ==
  \/ Op(c) \notin RuntimeKinds \cup {"build"}
  \/ call[c].pc \in {"source", "lookup", "queued", "erase", "unlink", "clear"}

LEMMA StrayIsOff ==
  ASSUME NEW c \in Calls, Stray(c), TameInv
  PROVE  Op(c) \notin RuntimeKinds \cup {"build"}
BY DEF TameInv, CallInv, OnPath, BuildPcs, Stray, Resting, Ended, LoadPcs

LEMMA StrayStep ==
  ASSUME IInv, requests' = requests, NEW c \in Calls, NEW p, Moved(c, p), p # "new",
         p \notin {"record", "feeds", "carry", "swap"}, overlapped' = overlapped,
         UNCHANGED disk, server' = server, RuntimeAsBefore,
         SelOK(call'[c].sel), call'[c].config # None => SelOK(call'[c].config),
         Fits(c, p), server = "up" \/ ByCli(c), Stray(c)
  PROVE  IInv'
<1>1. TameInv => Op(c) \notin RuntimeKinds \cup {"build"}
  BY StrayIsOff
<1> QED BY <1>1, QuietStep

LEMMA StrayGoto ==
  ASSUME IInv, requests' = requests, NEW c \in Calls, NEW p, Goto(c, p), p # "new",
         p \notin {"record", "feeds", "carry", "swap"}, overlapped' = overlapped,
         UNCHANGED disk, server' = server, RuntimeAsBefore,
         Fits(c, p), server = "up" \/ ByCli(c), Stray(c)
  PROVE  IInv'
<1>1. TypeOK
  BY DEF IInv
<1>2. Moved(c, p) /\ Kept(c)
  BY <1>1, Goes DEF Goto
<1>3. SelOK(call'[c].sel) /\ (call'[c].config # None => SelOK(call'[c].config))
  BY <1>1, <1>2 DEF TypeOK, Kept, KeptButMetric
<1> QED BY <1>2, <1>3, StrayStep

LEMMA StartCliStep ==
  ASSUME IInv, requests' = requests, NEW c \in Calls, StartCli(c)
  PROVE  IInv'
<1>1. TypeOK
  BY DEF IInv
<1>2. PICK p : p = IF Op(c) = "cli-update" THEN "base" ELSE "source"
  OBVIOUS
<1>3. Goto(c, p) /\ ByCli(c) /\ overlapped' = overlapped /\ UNCHANGED <<disk, server, runtime>>
  BY <1>2 DEF StartCli
<1>4. Stray(c)
  BY <1>3 DEF ByCli, Stray, RuntimeKinds
<1>5. RuntimeAsBefore
  BY <1>1, <1>3, SameRuntime
<1>6. p # "new" /\ p \notin {"record", "feeds", "carry", "swap"} /\ Fits(c, p)
  BY <1>2 DEF Fits, BuildPcs
<1> QED BY <1>3, <1>4, <1>5, <1>6, StrayGoto

LEMMA ReadSourceStep ==
  ASSUME IInv, requests' = requests, NEW c \in Calls, ReadSource(c)
  PROVE  IInv'
<1>1. TypeOK
  BY DEF IInv
<1>2. PICK b : b = manifest[requests[c].dataset]
  OBVIOUS
<1>3. call[c].pc = "source" /\ (server = "up" \/ ByCli(c))
  BY DEF ReadSource, At
<1>4. Stray(c)
  BY <1>3 DEF Stray
<1>5. CASE Fail(c)
  <2>1. TameInv => Op(c) \notin RuntimeKinds
    BY <1>4, StrayIsOff
  <2> QED BY <1>3, <1>5, <2>1, FailStep
<1>6. CASE /\ call' = [call EXCEPT ![c].pc = "profile", ![c].build = b]
           /\ overlapped' = overlapped /\ UNCHANGED <<disk, server, runtime>>
  <2>1. /\ Moved(c, "profile") /\ call'[c].sel = call[c].sel
        /\ call'[c].config = call[c].config
    BY <1>1, <1>6, GoesBuild
  <2>2. SelOK(call'[c].sel) /\ (call'[c].config # None => SelOK(call'[c].config))
    BY <1>1, <2>1 DEF TypeOK
  <2>3. RuntimeAsBefore
    BY <1>1, <1>6, SameRuntime
  <2> QED BY <1>3, <1>4, <1>6, <2>1, <2>2, <2>3, StrayStep DEF Fits, BuildPcs
<1> QED BY <1>2, <1>5, <1>6 DEF ReadSource

LEMMA DeleteStep ==
  ASSUME IInv, requests' = requests, NEW c \in Calls, Delete(c) \/ FindSaved(c) \/ Remove(c)
  PROVE  IInv'
<1>1. TypeOK
  BY DEF IInv
<1>2. PICK p \in {"refused", "erase", "clear", "finish", "unload", "failed"} :
        Goto(c, p) /\ Fits(c, p)
  BY DEF Delete, FindSaved, Remove, Fits, BuildPcs
<1>3. /\ overlapped' = overlapped /\ UNCHANGED <<disk, server, runtime>>
      /\ (server = "up" \/ ByCli(c))
  BY DEF Delete, FindSaved, Remove, At
<1>4. Stray(c)
  BY DEF Delete, FindSaved, Remove, At, Stray, RuntimeKinds
<1>5. RuntimeAsBefore
  BY <1>1, <1>3, SameRuntime
<1> QED BY <1>2, <1>3, <1>4, <1>5, StrayGoto

\* What is written into the runtime in place leaves what it was loaded from.
LEMMA InPlace ==
  ASSUME TypeOK, NEW v
  PROVE  /\ runtime' = [runtime EXCEPT !.feeds = v] => RuntimeAsBefore
         /\ runtime' = [runtime EXCEPT !.live = v] => RuntimeAsBefore
<1>1. CASE runtime = None
  <2>1. [None EXCEPT !.feeds = v] = None /\ [None EXCEPT !.live = v] = None
    BY DEF None
  <2> QED BY <1>1, <2>1 DEF RuntimeAsBefore
<1>2. CASE runtime # None
  <2>1. runtime = [f \in RuntimeFields |-> runtime[f]]
    BY <1>2 DEF TypeOK
  <2>2. ASSUME runtime' = [runtime EXCEPT !.feeds = v] \/ runtime' = [runtime EXCEPT !.live = v]
        PROVE  /\ runtime' = [f \in RuntimeFields |-> runtime'[f]]
               /\ runtime'.active = runtime.active
               /\ runtime'.build = runtime.build
               /\ runtime'.metric = runtime.metric
    BY <2>1, <2>2 DEF RuntimeFields
  <2>3. ASSUME NEW r, r = [f \in RuntimeFields |-> r[f]]
        PROVE  r # None
    <3>1. DOMAIN r = RuntimeFields /\ DOMAIN None = {"dataset"}
      BY <2>3 DEF None
    <3> QED BY <3>1 DEF RuntimeFields
  <2> QED BY <1>2, <2>2, <2>3 DEF RuntimeAsBefore
<1> QED BY <1>1, <1>2

LEMMA LiveStep ==
  ASSUME IInv, requests' = requests, NEW c \in Calls, PostLive(c) \/ ApplyLive(c)
  PROVE  IInv'
<1>1. TypeOK
  BY DEF IInv
<1>2. (server = "up" \/ ByCli(c)) /\ Stray(c)
  BY DEF PostLive, ApplyLive, At, Stray, RuntimeKinds
<1>3. CASE PostLive(c)
  <2>1. PICK p, v : /\ p = IF runtime = None THEN "refused" ELSE "queued"
                    /\ v = IF runtime = None THEN 0 ELSE runtime.id
    OBVIOUS
  <2>2. /\ call' = [call EXCEPT ![c].pc = p, ![c].target = v]
        /\ overlapped' = overlapped /\ UNCHANGED <<disk, server, runtime>>
    BY <1>3, <2>1 DEF PostLive
  <2>3. Moved(c, p) /\ Kept(c)
    BY <1>1, <2>2, GoesTarget
  <2>4. SelOK(call'[c].sel) /\ (call'[c].config # None => SelOK(call'[c].config))
    BY <1>1, <2>3 DEF TypeOK, Kept, KeptButMetric
  <2>5. RuntimeAsBefore
    BY <1>1, <2>2, SameRuntime
  <2>6. p # "new" /\ p \notin {"record", "feeds", "carry", "swap"} /\ Fits(c, p)
    BY <2>1 DEF Fits, BuildPcs
  <2> QED BY <1>2, <2>2, <2>3, <2>4, <2>5, <2>6, StrayStep
<1>4. CASE ApplyLive(c)
  <2>1. PICK v : v = runtime.live \cup {c}
    OBVIOUS
  <2>2. runtime' = [runtime EXCEPT !.live = v] \/ runtime' = runtime
    BY <1>4, <2>1 DEF ApplyLive
  <2>3. RuntimeAsBefore
    BY <1>1, <2>2, SameRuntime, InPlace
  <2>4. Goto(c, "finish") /\ overlapped' = overlapped /\ UNCHANGED <<disk, server>>
    BY <1>4 DEF ApplyLive
  <2> QED BY <1>2, <2>3, <2>4, StrayGoto DEF Fits, BuildPcs
<1> QED BY <1>3, <1>4

-----------------------------------------------------------------------------
(* Steps of a scenario build that leave the disk alone.                    *)

LEMMA OnlyBuilds ==
  ASSUME NEW c \in Calls, call[c].pc \in BuildPcs, TameInv,
         Op(c) \in RuntimeKinds \cup {"build"}
  PROVE  Op(c) = "build" /\ CallInv(c) /\ BuildOK(c)
BY DEF TameInv, CallInv, OnPath, Resting, Ended, LoadPcs, BuildPcs, RuntimeKinds

LEMMA FeedStep ==
  ASSUME IInv, requests' = requests, NEW c \in Calls, NEW p \in BuildPcs, Moved(c, p),
         overlapped' = overlapped, UNCHANGED disk, server' = server, RuntimeAsBefore,
         SelOK(call'[c].sel), call'[c].config # None => SelOK(call'[c].config),
         server = "up" \/ ByCli(c), call[c].pc \in BuildPcs,
         (TameInv /\ BuildOK(c) /\ Op(c) = "build") => BuildOK(c)'
  PROVE  IInv'
<1>1. ASSUME TameInv, Op(c) \in RuntimeKinds \cup {"build"}
      PROVE  CallInv(c)' /\ Op(c) \notin RuntimeKinds
  <2>1. Op(c) = "build" /\ BuildOK(c)
    BY <1>1, OnlyBuilds
  <2>2. Op(c)' = Op(c) /\ call'[c].pc = p
    BY DEF Moved, Op
  <2>3. OnPath(c)'
    BY <2>1, <2>2 DEF OnPath, BuildPcs
  <2> QED BY <1>1, <2>1, <2>2, <2>3 DEF CallInv, RuntimeKinds
<1>2. p # "new" /\ p \notin {"record", "feeds", "carry", "swap"}
  BY DEF BuildPcs
<1>3. Fits(c, p)
  BY DEF IInv, TypeOK, Fits, BuildPcs
<1> QED BY <1>1, <1>2, <1>3, QuietStep

LEMMA FeedGoto ==
  ASSUME IInv, requests' = requests, NEW c \in Calls, NEW p \in BuildPcs, Goto(c, p),
         overlapped' = overlapped, UNCHANGED disk, server' = server, RuntimeAsBefore,
         server = "up" \/ ByCli(c), call[c].pc \in BuildPcs,
         (TameInv /\ BuildOK(c) /\ Op(c) = "build" /\ Moved(c, p)) => BuildOK(c)'
  PROVE  IInv'
<1>1. TypeOK
  BY DEF IInv
<1>2. Moved(c, p) /\ Kept(c)
  BY <1>1, Goes DEF Goto
<1>3. SelOK(call'[c].sel) /\ (call'[c].config # None => SelOK(call'[c].config))
  BY <1>1, <1>2 DEF TypeOK, Kept, KeptButMetric
<1> QED BY <1>2, <1>3, FeedStep

LEMMA FeedFail ==
  ASSUME IInv, requests' = requests, NEW c \in Calls, Fail(c), server = "up" \/ ByCli(c),
         call[c].pc \in BuildPcs
  PROVE  IInv'
<1>1. TameInv => Op(c) \notin RuntimeKinds
  BY OnlyBuilds DEF RuntimeKinds
<1> QED BY <1>1, FailStep

\* What is not on disk is not saved either.
LEMMA ReplaceStep ==
  ASSUME IInv, requests' = requests, NEW c \in Calls, Replace(c)
  PROVE  IInv'
<1>1. TypeOK
  BY DEF IInv
<1>2. PICK p : p = IF requests[c].feed \in feedFiles THEN "unload" ELSE "write"
  OBVIOUS
<1>3. /\ call[c].pc = "replace" /\ (server = "up" \/ ByCli(c)) /\ Goto(c, p)
      /\ overlapped' = overlapped /\ UNCHANGED <<disk, server, runtime>>
  BY <1>2 DEF Replace, At
<1>4. ASSUME TameInv, Moved(c, p)
      PROVE  BuildOK(c)'
  <2>1. call'[c].pc = p /\ saved' = saved
    BY <1>3, <1>4 DEF Moved, disk
  <2>2. p = "write" => requests[c].feed \notin saved.feeds
    BY <1>2, <1>4 DEF TameInv, Startable
  <2> QED BY <1>2, <2>1, <2>2 DEF BuildOK
<1>5. RuntimeAsBefore
  BY <1>1, <1>3, SameRuntime
<1>6. p \in BuildPcs /\ call[c].pc \in BuildPcs
  BY <1>2, <1>3 DEF BuildPcs
<1> QED BY <1>3, <1>4, <1>5, <1>6, FeedGoto

LEMMA UnloadStep ==
  ASSUME IInv, requests' = requests, NEW c \in Calls, Unload(c)
  PROVE  IInv'
<1>1. TypeOK
  BY DEF IInv
<1>2. /\ call[c].pc = "unload" /\ (server = "up" \/ ByCli(c)) /\ Goto(c, "forget")
      /\ overlapped' = overlapped /\ UNCHANGED <<disk, server>>
  BY DEF Unload, At
<1>3. PICK v : v = runtime.feeds \ {requests[c].feed}
  OBVIOUS
<1>4. RuntimeAsBefore
  <2>1. runtime' = runtime \/ runtime' = [runtime EXCEPT !.feeds = v]
    BY <1>3 DEF Unload
  <2> QED BY <1>1, <2>1, SameRuntime, InPlace
<1>5. Moved(c, "forget") => BuildOK(c)'
  BY DEF Moved, BuildOK
<1>6. "forget" \in BuildPcs /\ call[c].pc \in BuildPcs
  BY <1>2 DEF BuildPcs
<1> QED BY <1>2, <1>4, <1>5, <1>6, FeedGoto

\* The selection that is read names only feeds on disk.
LEMMA ReadConfigStep ==
  ASSUME IInv, requests' = requests, NEW c \in Calls, NEW q, NEW p, ReadConfig(c, q, p),
         (q = "forget" /\ p = "forgetting") \/ (q = "recall" /\ p = "remember")
  PROVE  IInv'
<1>1. TypeOK
  BY DEF IInv
<1>2. PICK v : v = saved
  OBVIOUS
<1>3. /\ call[c].pc = q /\ (server = "up" \/ ByCli(c))
      /\ call' = [call EXCEPT ![c].pc = p, ![c].config = v]
      /\ overlapped' = overlapped /\ UNCHANGED <<disk, server, runtime>>
  BY <1>2 DEF ReadConfig, At
<1>4. Moved(c, p) /\ call'[c].config = v /\ call'[c].sel = call[c].sel
  BY <1>1, <1>3, GoesConfig
<1>5. SelOK(call'[c].sel) /\ (call'[c].config # None => SelOK(call'[c].config))
  BY <1>1, <1>2, <1>4 DEF TypeOK
<1>6. ASSUME TameInv, BuildOK(c)
      PROVE  BuildOK(c)'
  <2>1. saved # None /\ saved.feeds \subseteq feedFiles
    BY <1>6 DEF TameInv, Startable
  <2>2. call'[c].pc = p /\ saved' = saved /\ feedFiles' = feedFiles
    BY <1>3, <1>4 DEF Moved, disk
  <2>3. p = "remember" => requests[c].feed \in feedFiles
    BY <1>3, <1>6 DEF BuildOK
  <2> QED BY <1>2, <1>4, <2>1, <2>2, <2>3 DEF BuildOK
<1>7. RuntimeAsBefore
  BY <1>1, <1>3, SameRuntime
<1>8. p \in BuildPcs /\ call[c].pc \in BuildPcs
  BY <1>3 DEF BuildPcs
<1> QED BY <1>3, <1>4, <1>5, <1>6, <1>7, <1>8, FeedStep

LEMMA RegisterStep ==
  ASSUME IInv, requests' = requests, NEW c \in Calls, Register(c)
  PROVE  IInv'
<1>1. TypeOK
  BY DEF IInv
<1>2. call[c].pc = "register" /\ call[c].pc \in BuildPcs /\ (server = "up" \/ ByCli(c))
  BY DEF Register, At, BuildPcs
<1>3. ASSUME NEW p \in {"recall", "insert"}, BuildOK(c), feedFiles' = feedFiles, Moved(c, p)
      PROVE  BuildOK(c)'
  BY <1>2, <1>3 DEF Moved, BuildOK
<1>4. CASE runtime = None
  <2>1. /\ Goto(c, "recall") /\ overlapped' = overlapped /\ UNCHANGED <<disk, server, runtime>>
    BY <1>4 DEF Register
  <2>2. RuntimeAsBefore /\ feedFiles' = feedFiles /\ "recall" \in BuildPcs
    BY <1>1, <2>1, SameRuntime DEF disk, BuildPcs
  <2>3. (BuildOK(c) /\ Moved(c, "recall")) => BuildOK(c)'
    BY <1>3, <2>2
  <2> QED BY <1>2, <2>1, <2>2, <2>3, FeedGoto
<1>5. CASE runtime # None /\ requests[c].feed \in feedFiles
  <2>1. PICK v : v = runtime.id
    OBVIOUS
  <2>2. /\ call' = [call EXCEPT ![c].pc = "insert", ![c].target = v]
        /\ overlapped' = overlapped /\ UNCHANGED <<disk, server, runtime>>
    BY <1>5, <2>1 DEF Register
  <2>3. Moved(c, "insert") /\ Kept(c)
    BY <1>1, <2>2, GoesTarget
  <2>4. SelOK(call'[c].sel) /\ (call'[c].config # None => SelOK(call'[c].config))
    BY <1>1, <2>3 DEF TypeOK, Kept, KeptButMetric
  <2>5. RuntimeAsBefore /\ feedFiles' = feedFiles /\ "insert" \in BuildPcs
    BY <1>1, <2>2, SameRuntime DEF disk, BuildPcs
  <2>6. BuildOK(c) => BuildOK(c)'
    BY <1>3, <2>3, <2>5
  <2> QED BY <1>2, <2>2, <2>3, <2>4, <2>5, <2>6, FeedStep
<1>6. CASE runtime # None /\ requests[c].feed \notin feedFiles
  <2>1. Fail(c)
    BY <1>6 DEF Register
  <2> QED BY <1>2, <2>1, FeedFail
<1> QED BY <1>4, <1>5, <1>6

LEMMA InsertFeedStep ==
  ASSUME IInv, requests' = requests, NEW c \in Calls, InsertFeed(c)
  PROVE  IInv'
<1>1. TypeOK
  BY DEF IInv
<1>2. /\ call[c].pc = "insert" /\ (server = "up" \/ ByCli(c)) /\ Goto(c, "recall")
      /\ overlapped' = overlapped /\ UNCHANGED <<disk, server>>
  BY DEF InsertFeed, At
<1>3. PICK v : v = runtime.feeds \cup {requests[c].feed}
  OBVIOUS
<1>4. RuntimeAsBefore
  <2>1. runtime' = runtime \/ runtime' = [runtime EXCEPT !.feeds = v]
    BY <1>3 DEF InsertFeed
  <2> QED BY <1>1, <2>1, SameRuntime, InPlace
<1>5. (BuildOK(c) /\ Moved(c, "recall")) => BuildOK(c)'
  BY <1>2 DEF Moved, BuildOK, disk
<1>6. "recall" \in BuildPcs /\ call[c].pc \in BuildPcs
  BY <1>2 DEF BuildPcs
<1> QED BY <1>2, <1>4, <1>5, <1>6, FeedGoto

-----------------------------------------------------------------------------
(* Steps of a runtime job that write what others read.                     *)

\* Alone among the runtime jobs, a job that writes leaves the rest in order.
LEMMA OthersOfJob ==
  ASSUME TameInv, requests' = requests, NEW c \in UnderWay, NEW p, Moved(c, p),
         feedFiles' = feedFiles, saved' = saved,
         \A d \in Calls : (d # c /\ Op(d) = "update" /\ call[d].pc = "new") =>
           \A e \in Datasets : manifest'[e] # NewBuild(d) /\ compiled'[e] # NewBuild(d)
  PROVE  \A d \in Calls : d # c => CallInv(d)'
<1>1. SUFFICES ASSUME NEW d \in Calls, d # c PROVE CallInv(d)'
  OBVIOUS
<1>2. CallInv(d) /\ call'[d] = call[d] /\ Op(d)' = Op(d) /\ c \in Calls
  BY <1>1 DEF TameInv, Moved, Op, UnderWay
<1>3. Op(d) \in RuntimeKinds => Resting(d)
  BY <1>1 DEF TameInv, OneJob, UnderWay, Resting
<1>4. OnPath(d)' /\ (Resting(d)' <=> Resting(d))
  BY <1>2 DEF CallInv, OnPath, BuildPcs, Resting
<1>5. Op(d) \in RuntimeKinds => LoadOK(d)' /\ ActivateOK(d)'
  BY <1>2, <1>3, <1>4 DEF LoadOK, ActivateOK, Resting, Ended, LoadPcs
<1>6. Op(d) = "update" => UpdateOK(d)'
  BY <1>1, <1>2, <1>3 DEF UpdateOK, Resting, Ended, RuntimeKinds
<1>7. Op(d) = "build" => BuildOK(d)'
  BY <1>2 DEF CallInv, BuildOK
<1> QED BY <1>2, <1>4, <1>5, <1>6, <1>7 DEF CallInv, RuntimeKinds

\* Whom a serial job finds.
LEMMA AloneInJob ==
  ASSUME TameInv, NEW c \in UnderWay
  PROVE  \A d \in Calls : d # c =>
           call[d].pc # "save" /\ ~Follows(d) /\ (call[d].pc \in LoadPcs => Op(d) \notin RuntimeKinds)
<1>1. SUFFICES ASSUME NEW d \in Calls, d # c
               PROVE  /\ call[d].pc # "save" /\ ~Follows(d)
                      /\ call[d].pc \in LoadPcs => Op(d) \notin RuntimeKinds
  OBVIOUS
<1>2. Op(d) \in RuntimeKinds => Resting(d)
  BY <1>1 DEF TameInv, OneJob, UnderWay, Resting
<1>3. OnPath(d)
  BY DEF TameInv, CallInv
<1> QED BY <1>2, <1>3 DEF OnPath, BuildPcs, Follows, Resting, Ended, LoadPcs, RuntimeKinds

\* A job at one of its own steps is under way.
LEMMA JobAt ==
  ASSUME NEW c \in Calls, TameInv, Op(c) \in RuntimeKinds \cup {"build"},
         call[c].pc \in LoadPcs \cup {"save", "bundles", "manifest"}
  PROVE  /\ c \in UnderWay /\ Op(c) \in RuntimeKinds /\ CallInv(c) /\ LoadOK(c) /\ ~Resting(c)
         /\ call[c].pc = "save" => Op(c) = "activate"
         /\ call[c].pc \in {"bundles", "manifest"} => Op(c) = "update"
<1>1. OnPath(c) /\ CallInv(c) /\ ~Resting(c) /\ call[c].pc \notin Ended \cup {"new"}
  BY DEF TameInv, CallInv, Resting, Ended, LoadPcs
<1>2. Op(c) \in RuntimeKinds
  BY <1>1 DEF OnPath, BuildPcs, LoadPcs, RuntimeKinds
<1> QED BY <1>1, <1>2 DEF OnPath, BuildPcs, UnderWay, CallInv, LoadPcs, RuntimeKinds

\* Jobs that follow one another go on agreeing with what is saved.
LEMMA SerialStays ==
  ASSUME SerialInv, requests' = requests, NEW c \in Calls, NEW p, Moved(c, p),
         UNCHANGED <<manifest, feedFiles, saved, runtime>>,
         call[c].pc \notin {"save", "unsaved", "failed"}, Current(c)',
         (runtime # None /\ Follows(c)) => Follows(c)'
  PROVE  SerialInv'
<1>1. \A d \in Calls : d # c => call'[d] = call[d]
  BY DEF Moved
<1>2. SavedAgrees'
  BY <1>1, FailuresStay DEF SerialInv, SavedAgrees, SaveFailed
<1>3. ASSUME NEW d \in Calls, runtime # None, Follows(d) PROVE Follows(d)'
  <2>1. CASE d = c
    BY <1>3, <2>1
  <2>2. CASE d # c
    BY <1>1, <1>3, <2>2 DEF Follows, Op
  <2> QED BY <2>1, <2>2
<1>4. ASSUME NEW d \in Calls PROVE Current(d)'
  <2>1. CASE d = c
    BY <2>1
  <2>2. CASE d # c
    BY <1>1, <2>2 DEF SerialInv, Current, Selection, Op
  <2> QED BY <2>1, <2>2
<1>5. BuildAgrees'
  <2>1. SUFFICES ASSUME runtime # None
                 PROVE  \/ runtime.build = manifest[runtime.active.dataset]
                        \/ \E d \in Calls :
                             /\ Op(d) = "update" /\ call'[d].pc = "failed"
                             /\ requests[d].dataset = runtime.active.dataset
                             /\ manifest[runtime.active.dataset] = NewBuild(d)
                        \/ \E d \in Calls : Follows(d)'
    BY DEF BuildAgrees, LoadFailed, Op
  <2>2. CASE LoadFailed(runtime.active.dataset, manifest[runtime.active.dataset])
    BY <2>2, FailuresStay
  <2> QED BY <1>3, <2>1, <2>2 DEF SerialInv, BuildAgrees
<1> QED BY <1>2, <1>4, <1>5 DEF SerialInv

LEMMA CompileStep ==
  ASSUME IInv, requests' = requests, NEW c \in Calls, Compile(c)
  PROVE  IInv'
<1>1. TypeOK /\ Weighed
  BY DEF IInv
<1>2. PICK b, t : b = call[c].build /\ t = Target(c)
  OBVIOUS
<1>3. /\ call[c].pc = "profile" /\ (server = "up" \/ ByCli(c))
      /\ metric' = [metric EXCEPT ![t] = b]
      /\ call' = [call EXCEPT ![c].pc = "record", ![c].metric = b]
      /\ UNCHANGED <<manifest, bundles, compiled, feedFiles, saved, server, runtime>>
      /\ overlapped' = overlapped
  BY <1>2 DEF Compile, At
<1>4. Moved(c, "record") /\ KeptButMetric(c) /\ call'[c].metric = b
  BY <1>1, <1>3, GoesMetric
<1>5. /\ call'[c].sel = call[c].sel /\ call'[c].build = call[c].build
      /\ call'[c].config = call[c].config /\ call'[c].metric = call'[c].build
      /\ call'[c].pc = "record" /\ Op(c)' = Op(c)
  BY <1>2, <1>4 DEF KeptButMetric, Moved, Op
<1>6. TypeOK' /\ Weighed'
  <2>1. SelOK(call'[c].sel) /\ (call'[c].config # None => SelOK(call'[c].config))
    BY <1>1, <1>5 DEF TypeOK
  <2>2. RuntimeAsBefore
    BY <1>1, <1>3, SameRuntime
  <2>3. metric' = [d \in Datasets |-> metric'[d]]
    BY <1>1, <1>3 DEF TypeOK
  <2>4. /\ manifest' = [d \in Datasets |-> manifest'[d]]
        /\ compiled' = [d \in Datasets |-> compiled'[d]]
        /\ feedFiles' \subseteq Feeds
        /\ saved' # None => SelOK(saved')
    BY <1>1, <1>3 DEF TypeOK
  <2> QED BY <1>1, <1>4, <1>5, <2>1, <2>2, <2>3, <2>4, TypesStay DEF Fits, BuildPcs
<1>7. ASSUME TameInv, Op(c) \in RuntimeKinds \cup {"build"}
      PROVE  Startable' /\ (\A d \in Calls : CallInv(d)') /\ ~Resting(c)
  <2>1. c \in UnderWay /\ Op(c) \in RuntimeKinds /\ CallInv(c) /\ LoadOK(c) /\ ~Resting(c)
    BY <1>3, <1>7, JobAt DEF LoadPcs
  <2>2. t = call[c].sel.dataset /\ t \in Datasets
    BY <1>1, <1>2, <2>1 DEF Target, RuntimeKinds, TypeOK, SelOK
  <2>3. b = manifest[t]
    BY <1>2, <1>3, <2>1, <2>2 DEF LoadOK, LoadPcs
  <2>4. metric'[t] = manifest[t] /\ \A d \in Datasets : d # t => metric'[d] = metric[d]
    BY <1>1, <1>3, <2>2, <2>3 DEF TypeOK
  <2>5. Startable'
    <3>1. server = "up"
      BY <1>3, <2>1 DEF ByCli, RuntimeKinds
    <3>2. \A d \in Datasets : compiled[d] = manifest[d] => metric'[d] \in {Absent, manifest[d]}
      BY <1>7, <2>4 DEF TameInv, Startable
    <3> QED BY <1>3, <1>7, <3>1, <3>2 DEF TameInv, Startable
  <2>6. CallInv(c)'
    <3>1. OnPath(c)' /\ LoadOK(c)' /\ UpdateOK(c)'
      BY <1>2, <1>3, <1>5, <2>1, <2>2, <2>3, <2>4 DEF OnPath, BuildPcs, LoadPcs, LoadOK, UpdateOK
    <3>2. Op(c) = "activate" => ActivateOK(c)'
      BY <1>3, <1>5, <2>1 DEF CallInv, ActivateOK, Resting, Ended
    <3> QED BY <1>5, <2>1, <3>1, <3>2 DEF CallInv, RuntimeKinds
  <2>7. \A d \in Calls : d # c => CallInv(d)'
    <3>1. \A d \in Calls : (Op(d) = "update" /\ call[d].pc = "new") =>
            \A e \in Datasets : manifest'[e] # NewBuild(d) /\ compiled'[e] # NewBuild(d)
      BY <1>3, <1>7 DEF TameInv, CallInv, UpdateOK
    <3> QED BY <1>3, <1>4, <1>7, <2>1, <3>1, OthersOfJob
  <2> QED BY <2>1, <2>5, <2>6, <2>7
<1>8. ASSUME SerialInv PROVE SerialInv'
  <2>1. Current(c)'
    <3>1. call[c].pc \in LoadPcs /\ call'[c].pc \in LoadPcs /\ Current(c) /\ RuntimeAsBefore
      BY <1>1, <1>3, <1>5, <1>8, SameRuntime DEF LoadPcs, SerialInv
    <3> QED BY <1>3, <1>5, <3>1, CurrentStays
  <2>2. Follows(c) => Follows(c)'
    BY <1>3, <1>5 DEF Follows, LoadPcs
  <2> QED BY <1>3, <1>4, <1>8, <2>1, <2>2, SerialStays
<1> QED BY <1>3, <1>4, <1>6, <1>7, <1>8, MovedStep

LEMMA RecordCompiledStep ==
  ASSUME IInv, requests' = requests, NEW c \in Calls, RecordCompiled(c)
  PROVE  IInv'
<1>1. TypeOK /\ Weighed
  BY DEF IInv
<1>2. PICK b, t, p : /\ b = call[c].build /\ t = Target(c)
                     /\ p = IF ByCli(c) THEN "finish" ELSE "feeds"
  OBVIOUS
<1>3. /\ call[c].pc = "record" /\ (server = "up" \/ ByCli(c))
      /\ compiled' = [compiled EXCEPT ![t] = b] /\ Goto(c, p)
      /\ UNCHANGED <<manifest, bundles, metric, feedFiles, saved, server, runtime>>
      /\ overlapped' = overlapped
  BY <1>2 DEF RecordCompiled, At
<1>4. Moved(c, p) /\ Kept(c)
  BY <1>1, <1>3, Goes DEF Goto
<1>5. /\ call'[c].sel = call[c].sel /\ call'[c].build = call[c].build
      /\ call'[c].config = call[c].config /\ call'[c].metric = call'[c].build
      /\ call'[c].pc = p /\ Op(c)' = Op(c)
  BY <1>1, <1>3, <1>4 DEF Kept, KeptButMetric, Moved, Op, Weighed
<1>6. TypeOK' /\ Weighed'
  <2>1. SelOK(call'[c].sel) /\ (call'[c].config # None => SelOK(call'[c].config))
    BY <1>1, <1>5 DEF TypeOK
  <2>2. RuntimeAsBefore
    BY <1>1, <1>3, SameRuntime
  <2>3. compiled' = [d \in Datasets |-> compiled'[d]]
    BY <1>1, <1>3 DEF TypeOK
  <2>4. /\ manifest' = [d \in Datasets |-> manifest'[d]]
        /\ metric' = [d \in Datasets |-> metric'[d]]
        /\ feedFiles' \subseteq Feeds
        /\ saved' # None => SelOK(saved')
    BY <1>1, <1>3 DEF TypeOK
  <2> QED BY <1>1, <1>2, <1>4, <1>5, <2>1, <2>2, <2>3, <2>4, TypesStay DEF Fits, BuildPcs
<1>7. ASSUME TameInv, Op(c) \in RuntimeKinds \cup {"build"}
      PROVE  Startable' /\ (\A d \in Calls : CallInv(d)') /\ ~Resting(c)
  <2>1. c \in UnderWay /\ Op(c) \in RuntimeKinds /\ CallInv(c) /\ LoadOK(c) /\ ~Resting(c)
    BY <1>3, <1>7, JobAt DEF LoadPcs
  <2>2. t = call[c].sel.dataset /\ t \in Datasets /\ p = "feeds"
    BY <1>1, <1>2, <2>1 DEF Target, RuntimeKinds, TypeOK, SelOK, ByCli
  <2>3. b = manifest[t] /\ metric[t] = manifest[t]
    BY <1>2, <1>3, <2>1, <2>2 DEF LoadOK, LoadPcs
  <2>4. compiled'[t] = manifest[t] /\ \A d \in Datasets : d # t => compiled'[d] = compiled[d]
    BY <1>1, <1>3, <2>2, <2>3 DEF TypeOK
  <2>5. Startable'
    <3>1. server = "up"
      BY <1>3, <2>1 DEF ByCli, RuntimeKinds
    <3>2. \A d \in Datasets : compiled'[d] = manifest[d] => metric[d] \in {Absent, manifest[d]}
      BY <1>7, <2>3, <2>4 DEF TameInv, Startable
    <3> QED BY <1>3, <1>7, <3>1, <3>2 DEF TameInv, Startable
  <2>6. CallInv(c)'
    <3>1. OnPath(c)' /\ LoadOK(c)' /\ UpdateOK(c)'
      BY <1>2, <1>3, <1>5, <2>1, <2>2, <2>3 DEF OnPath, BuildPcs, LoadPcs, LoadOK, UpdateOK
    <3>2. Op(c) = "activate" => ActivateOK(c)'
      BY <1>3, <1>5, <2>1 DEF CallInv, ActivateOK, Resting, Ended
    <3> QED BY <1>5, <2>1, <3>1, <3>2 DEF CallInv, RuntimeKinds
  <2>7. \A d \in Calls : d # c => CallInv(d)'
    <3>1. \A d \in Calls : (Op(d) = "update" /\ call[d].pc = "new") =>
            \A e \in Datasets : manifest'[e] # NewBuild(d) /\ compiled'[e] # NewBuild(d)
      <4>1. \A d \in Calls : (Op(d) = "update" /\ call[d].pc = "new") =>
              \A e \in Datasets : manifest[e] # NewBuild(d) /\ compiled[e] # NewBuild(d)
        BY <1>7 DEF TameInv, CallInv, UpdateOK
      <4> QED BY <1>3, <2>2, <2>4, <4>1
    <3> QED BY <1>3, <1>4, <1>7, <2>1, <3>1, OthersOfJob
  <2> QED BY <2>1, <2>5, <2>6, <2>7
<1>8. ASSUME TameInv, SerialInv, Op(c) \in RuntimeKinds PROVE SerialInv'
  <2>1. p = "feeds"
    BY <1>2, <1>8 DEF ByCli, RuntimeKinds
  <2>2. Current(c)'
    <3>1. call[c].pc \in LoadPcs /\ call'[c].pc \in LoadPcs /\ Current(c) /\ RuntimeAsBefore
      BY <1>1, <1>3, <1>5, <1>8, <2>1, SameRuntime DEF LoadPcs, SerialInv
    <3> QED BY <1>3, <1>5, <3>1, CurrentStays
  <2>3. Follows(c) => Follows(c)'
    BY <1>3, <1>5, <2>1 DEF Follows, LoadPcs
  <2> QED BY <1>3, <1>4, <1>8, <2>2, <2>3, SerialStays
<1>9. p # "new"
  BY <1>2
<1> QED BY <1>3, <1>4, <1>6, <1>7, <1>8, <1>9, MovedStep

\* The runtime that is swapped in is the selection's, in the build on disk.
LEMMA SwapStep ==
  ASSUME IInv, requests' = requests, NEW c \in Calls, Swap(c)
  PROVE  IInv'
<1>1. TypeOK /\ Weighed
  BY DEF IInv
<1>2. PICK p : p = IF Op(c) = "activate" THEN "save" ELSE "finish"
  OBVIOUS
<1>3. /\ call[c].pc = "swap" /\ (server = "up" \/ ByCli(c)) /\ Goto(c, p)
      /\ runtime' = Loaded(c, call[c].sel, call[c].build, call[c].metric, call[c].live)
      /\ UNCHANGED <<disk, server>> /\ overlapped' = overlapped
  BY <1>2 DEF Swap, At
<1>4. Moved(c, p) /\ Kept(c)
  BY <1>1, <1>3, Goes DEF Goto
<1>5. /\ call'[c].sel = call[c].sel /\ call'[c].config = call[c].config
      /\ call'[c].pc = p /\ Op(c)' = Op(c)
      /\ manifest' = manifest /\ bundles' = bundles /\ compiled' = compiled
      /\ metric' = metric /\ feedFiles' = feedFiles /\ saved' = saved
      /\ \A d \in Calls : d # c => call'[d] = call[d]
  BY <1>3, <1>4 DEF Kept, KeptButMetric, Moved, Op, disk
<1>6. /\ runtime' # None /\ runtime' = [f \in RuntimeFields |-> runtime'[f]]
      /\ runtime'.active = call[c].sel /\ runtime'.build = call[c].build
      /\ runtime'.metric = runtime'.build
  <2>1. call[c].metric = call[c].build
    BY <1>1, <1>3 DEF Weighed
  <2>2. /\ runtime' = [f \in RuntimeFields |-> runtime'[f]]
        /\ runtime'.active = call[c].sel /\ runtime'.build = call[c].build
        /\ runtime'.metric = call[c].metric
    BY <1>3 DEF Loaded, RuntimeFields
  <2>3. DOMAIN runtime' = RuntimeFields /\ DOMAIN None = {"dataset"}
    BY <2>2 DEF None
  <2> QED BY <2>1, <2>2, <2>3 DEF RuntimeFields
<1>7. TypeOK' /\ Weighed'
  <2>1. TypeOK'
    <3>1. \A s : SelOK(s)' <=> SelOK(s)
      BY DEF SelOK
    <3>2. ASSUME NEW d \in Calls
          PROVE  /\ call'[d] = [f \in CallFields |-> call'[d][f]]
                 /\ SelOK(call'[d].sel)
                 /\ call'[d].config # None => SelOK(call'[d].config)
                 /\ Fits(d, call'[d].pc)
      BY <1>1, <1>2, <1>4, <1>5 DEF TypeOK, Moved, Fits, BuildPcs
    <3>3. SelOK(runtime'.active) /\ call' = [d \in Calls |-> call'[d]]
      BY <1>1, <1>4, <1>6 DEF TypeOK, Moved
    <3>4. requests' \in Scenarios
      BY <1>1 DEF TypeOK
    <3>5. \A d, q : Fits(d, q)' <=> Fits(d, q)
      BY DEF Fits, Op
    <3> QED BY <1>1, <1>5, <1>6, <3>1, <3>2, <3>3, <3>4, <3>5 DEF TypeOK
  <2>2. \A d \in Calls : call'[d].pc \in {"record", "feeds", "carry", "swap"} =>
                           call'[d].metric = call'[d].build
    BY <1>1, <1>2, <1>5 DEF Weighed
  <2> QED BY <1>6, <2>1, <2>2 DEF Weighed
<1>8. ASSUME TameInv, Op(c) \in RuntimeKinds \cup {"build"}
      PROVE  Startable' /\ (\A d \in Calls : CallInv(d)') /\ ~Resting(c)
  <2>1. c \in UnderWay /\ Op(c) \in RuntimeKinds /\ CallInv(c) /\ LoadOK(c) /\ ~Resting(c)
    BY <1>3, <1>8, JobAt DEF LoadPcs
  <2>2. Startable'
    <3>1. server = "up"
      BY <1>3, <2>1 DEF ByCli, RuntimeKinds
    <3> QED BY <1>3, <1>5, <1>8, <3>1 DEF TameInv, Startable
  <2>3. CallInv(c)'
    <3>1. OnPath(c)' /\ LoadOK(c)' /\ UpdateOK(c)'
      BY <1>2, <1>5, <2>1 DEF OnPath, BuildPcs, LoadPcs, LoadOK, UpdateOK
    <3>2. Op(c) = "activate" => ActivateOK(c)'
      BY <1>3, <1>5, <2>1 DEF CallInv, ActivateOK, Resting, Ended
    <3> QED BY <1>5, <2>1, <3>1, <3>2 DEF CallInv, RuntimeKinds
  <2>4. \A d \in Calls : d # c => CallInv(d)'
    <3>1. UNCHANGED disk
      BY <1>3
    <3> QED BY <1>4, <1>8, <3>1, OthersStay DEF TameInv
  <2> QED BY <2>1, <2>2, <2>3, <2>4
<1>9. ASSUME TameInv, SerialInv, Op(c) \in RuntimeKinds PROVE SerialInv'
  <2>1. c \in UnderWay /\ LoadOK(c)
    BY <1>3, <1>9, JobAt DEF LoadPcs
  <2>2. \A d \in Calls : d # c =>
          call[d].pc # "save" /\ (call[d].pc \in LoadPcs => Op(d) \notin RuntimeKinds)
    BY <1>9, <2>1, AloneInJob
  <2>3. call[c].build = manifest[call[c].sel.dataset]
    BY <1>3, <2>1 DEF LoadOK, LoadPcs
  <2>4. BuildAgrees'
    BY <1>5, <1>6, <2>3 DEF BuildAgrees
  <2>5. SavedAgrees'
    <3>1. CASE Op(c) = "activate"
      BY <1>2, <1>5, <1>6, <3>1 DEF SavedAgrees
    <3>2. CASE Op(c) \in {"reload", "update"}
      <4>1. call[c].sel = Selection
        BY <1>3, <1>9, <3>2 DEF SerialInv, Current, LoadPcs
      <4>2. saved = call[c].sel \/ SaveFailed(call[c].sel)
        BY <1>3, <1>9, <2>2, <4>1 DEF SerialInv, SavedAgrees, Selection
      <4>3. SaveFailed(call[c].sel) =>
              \E d \in Calls : call'[d].pc = "unsaved" /\ call'[d].sel = call[c].sel
        BY <1>3, <1>4, FailuresStay
      <4> QED BY <1>5, <1>6, <4>2, <4>3 DEF SavedAgrees, SaveFailed
    <3> QED BY <1>9, <3>1, <3>2 DEF RuntimeKinds
  <2>6. \A d \in Calls : Current(d)'
    <3>1. TAKE d \in Calls
    <3>2. CASE d = c
      BY <1>2, <1>5, <1>6, <3>2 DEF Current, LoadPcs
    <3>3. CASE d # c
      <4>1. Resting(d) \/ Op(d) \notin RuntimeKinds
        BY <1>9, <2>1, <3>3 DEF TameInv, OneJob, UnderWay, Resting
      <4>2. call[d].pc # "save" /\ call'[d] = call[d] /\ Op(d)' = Op(d)
        BY <1>5, <2>2, <3>3 DEF Op
      <4> QED BY <4>1, <4>2 DEF Current, Resting, Ended, LoadPcs, RuntimeKinds
    <3> QED BY <3>2, <3>3
  <2> QED BY <1>5, <1>9, <2>4, <2>5, <2>6 DEF SerialInv
<1>10. p # "new"
  BY <1>2
<1> QED BY <1>3, <1>4, <1>7, <1>8, <1>9, <1>10, MovedStep

\* What is saved is what the activation checked, and no scenario erases it.
LEMMA SaveStep ==
  ASSUME IInv, requests' = requests, NEW c \in Calls, Save(c)
  PROVE  IInv'
<1>1. TypeOK /\ Weighed
  BY DEF IInv
<1>2. /\ call[c].pc = "save" /\ (server = "up" \/ ByCli(c)) /\ Goto(c, "finish")
      /\ saved' = call[c].sel
      /\ UNCHANGED <<manifest, bundles, compiled, metric, feedFiles, server, runtime>>
      /\ overlapped' = overlapped
  BY DEF Save, At
<1>3. Moved(c, "finish") /\ Kept(c)
  BY <1>1, <1>2, Goes DEF Goto
<1>4. /\ call'[c].sel = call[c].sel /\ call'[c].config = call[c].config
      /\ call'[c].pc = "finish" /\ Op(c)' = Op(c)
      /\ \A d \in Calls : d # c => call'[d] = call[d]
  BY <1>3 DEF Kept, KeptButMetric, Moved, Op
<1>5. TypeOK' /\ Weighed'
  <2>1. SelOK(call'[c].sel) /\ (call'[c].config # None => SelOK(call'[c].config))
        /\ SelOK(saved')
    BY <1>1, <1>2, <1>4 DEF TypeOK
  <2>2. RuntimeAsBefore
    BY <1>1, <1>2, SameRuntime
  <2>3. /\ manifest' = [d \in Datasets |-> manifest'[d]]
        /\ compiled' = [d \in Datasets |-> compiled'[d]]
        /\ metric' = [d \in Datasets |-> metric'[d]]
        /\ feedFiles' \subseteq Feeds
    BY <1>1, <1>2 DEF TypeOK
  <2> QED BY <1>1, <1>3, <2>1, <2>2, <2>3, TypesStay DEF Fits, BuildPcs
<1>6. ASSUME Tame, TameInv, Op(c) \in RuntimeKinds \cup {"build"}
      PROVE  Startable' /\ (\A d \in Calls : CallInv(d)') /\ ~Resting(c)
  <2>1. c \in UnderWay /\ Op(c) = "activate" /\ CallInv(c) /\ ~Resting(c)
    BY <1>2, <1>6, JobAt
  <2>2. call[c].sel.feeds = requests[c].feeds /\ call[c].sel.feeds \subseteq feedFiles
    BY <2>1 DEF CallInv, ActivateOK
  <2>3. Startable'
    <3>1. server = "up"
      BY <1>2, <2>1 DEF ByCli
    <3>2. saved' # None
      <4>1. call[c].sel = [dataset |-> call[c].sel.dataset, feeds |-> call[c].sel.feeds]
        BY <1>1 DEF TypeOK, SelOK
      <4>2. DOMAIN call[c].sel = {"dataset", "feeds"} /\ DOMAIN None = {"dataset"}
        BY <4>1 DEF None
      <4> QED BY <1>2, <4>2
    <3> QED BY <1>2, <1>6, <2>2, <3>1, <3>2 DEF TameInv, Startable
  <2>4. CallInv(c)'
    <3>1. OnPath(c)' /\ ActivateOK(c)' /\ LoadOK(c)'
      BY <1>2, <1>4, <2>1, <2>2 DEF OnPath, BuildPcs, ActivateOK, RuntimeKinds, LoadOK, LoadPcs
    <3> QED BY <1>4, <2>1, <3>1 DEF CallInv
  <2>5. ASSUME NEW d \in Calls, d # c PROVE CallInv(d)'
    <3>1. CallInv(d) /\ call'[d] = call[d] /\ Op(d)' = Op(d)
      BY <1>4, <1>6, <2>5 DEF TameInv, Op
    <3>2. OnPath(d)' /\ (Resting(d)' <=> Resting(d))
      BY <3>1 DEF CallInv, OnPath, BuildPcs, Resting
    <3>3. Op(d) \in RuntimeKinds => LoadOK(d)'
      BY <1>2, <3>1 DEF CallInv, LoadOK
    <3>4. /\ Op(d) = "update" => UpdateOK(d)'
          /\ Op(d) = "activate" => ActivateOK(d)'
      BY <1>2, <3>1, <3>2 DEF CallInv, UpdateOK, ActivateOK
    <3>5. Op(d) = "build" => BuildOK(d)'
      <4>1. (Op(d) = "build" /\ Begun(d)) => requests[d].feed \notin saved'.feeds
        BY <1>2, <1>6, <2>1, <2>2 DEF Tame, Begun
      <4> QED BY <1>2, <3>1, <4>1 DEF CallInv, BuildOK, Begun
    <3> QED BY <3>1, <3>2, <3>3, <3>4, <3>5 DEF CallInv
  <2> QED BY <2>1, <2>3, <2>4, <2>5
<1>7. ASSUME TameInv, SerialInv, Op(c) \in RuntimeKinds PROVE SerialInv'
  <2>1. c \in UnderWay /\ Op(c) = "activate" /\ OnPath(c)
    BY <1>2, <1>7, JobAt DEF CallInv
  <2>2. \A d \in Calls : d # c =>
          /\ call[d].pc # "save" /\ ~Follows(d)
          /\ call[d].pc \in LoadPcs => Op(d) \notin RuntimeKinds
    BY <1>7, <2>1, AloneInJob
  <2>3. runtime # None => call[c].sel = runtime.active
    BY <1>2, <1>7 DEF SerialInv, Current
  <2>4. SavedAgrees'
    BY <1>2, <2>3 DEF SavedAgrees
  <2>5. BuildAgrees'
    <3>1. ~Follows(c)
      BY <2>1 DEF Follows
    <3>2. runtime # None =>
            \/ runtime.build = manifest[runtime.active.dataset]
            \/ LoadFailed(runtime.active.dataset, manifest[runtime.active.dataset])
      BY <1>7, <2>2, <3>1 DEF SerialInv, BuildAgrees
    <3>3. LoadFailed(runtime.active.dataset, manifest[runtime.active.dataset]) =>
            \E d \in Calls : /\ Op(d) = "update" /\ call'[d].pc = "failed"
                             /\ requests[d].dataset = runtime.active.dataset
                             /\ manifest[runtime.active.dataset] = NewBuild(d)
      BY <1>2, <1>3, FailuresStay
    <3> QED BY <1>2, <3>2, <3>3 DEF BuildAgrees, LoadFailed, Op
  <2>6. ASSUME NEW d \in Calls PROVE Current(d)'
    <3>1. CASE d = c
      BY <1>4, <3>1 DEF Current, LoadPcs
    <3>2. CASE d # c
      <4>1. Resting(d) \/ Op(d) \notin RuntimeKinds
        BY <1>7, <2>1, <3>2 DEF TameInv, OneJob, UnderWay, Resting
      <4>2. call'[d] = call[d] /\ Op(d)' = Op(d) /\ call[d].pc # "save"
        BY <1>4, <2>2, <3>2 DEF Op
      <4> QED BY <4>1, <4>2 DEF Current, Resting, Ended, LoadPcs, RuntimeKinds
    <3> QED BY <3>1, <3>2
  <2> QED BY <1>2, <1>7, <2>4, <2>5, <2>6 DEF SerialInv
<1> QED BY <1>2, <1>3, <1>5, <1>6, <1>7, MovedStep

LEMMA WriteBundlesStep ==
  ASSUME IInv, requests' = requests, NEW c \in Calls, WriteBundles(c)
  PROVE  IInv'
<1>1. TypeOK /\ Weighed
  BY DEF IInv
<1>2. /\ call[c].pc = "bundles" /\ (server = "up" \/ ByCli(c)) /\ Goto(c, "manifest")
      /\ bundles' = bundles \cup {<<requests[c].dataset, NewBuild(c)>>}
      /\ UNCHANGED <<manifest, compiled, metric, feedFiles, saved, server, runtime>>
      /\ overlapped' = overlapped
  BY DEF WriteBundles, At
<1>3. Moved(c, "manifest") /\ Kept(c)
  BY <1>1, <1>2, Goes DEF Goto
<1>4. /\ call'[c].sel = call[c].sel /\ call'[c].config = call[c].config
      /\ call'[c].pc = "manifest" /\ Op(c)' = Op(c)
  BY <1>3 DEF Kept, KeptButMetric, Moved, Op
<1>5. TypeOK' /\ Weighed'
  <2>1. SelOK(call'[c].sel) /\ (call'[c].config # None => SelOK(call'[c].config))
    BY <1>1, <1>4 DEF TypeOK
  <2>2. RuntimeAsBefore
    BY <1>1, <1>2, SameRuntime
  <2>3. /\ manifest' = [d \in Datasets |-> manifest'[d]]
        /\ compiled' = [d \in Datasets |-> compiled'[d]]
        /\ metric' = [d \in Datasets |-> metric'[d]]
        /\ feedFiles' \subseteq Feeds
        /\ saved' # None => SelOK(saved')
    BY <1>1, <1>2 DEF TypeOK
  <2> QED BY <1>1, <1>3, <2>1, <2>2, <2>3, TypesStay DEF Fits, BuildPcs
<1>6. ASSUME TameInv, Op(c) \in RuntimeKinds \cup {"build"}
      PROVE  Startable' /\ (\A d \in Calls : CallInv(d)') /\ ~Resting(c)
  <2>1. c \in UnderWay /\ Op(c) = "update" /\ CallInv(c) /\ ~Resting(c)
    BY <1>2, <1>6, JobAt
  <2>2. Startable'
    <3>1. server = "up"
      BY <1>2, <2>1 DEF ByCli
    <3> QED BY <1>2, <1>6, <3>1 DEF TameInv, Startable
  <2>3. CallInv(c)'
    <3>1. OnPath(c)' /\ LoadOK(c)'
      BY <1>4, <2>1 DEF OnPath, BuildPcs, LoadOK, LoadPcs
    <3>2. UpdateOK(c)'
      BY <1>2, <1>4, <2>1 DEF CallInv, UpdateOK, NewBuild
    <3> QED BY <1>4, <2>1, <3>1, <3>2 DEF CallInv
  <2>4. \A d \in Calls : d # c => CallInv(d)'
    <3>1. \A d \in Calls : (Op(d) = "update" /\ call[d].pc = "new") =>
            \A e \in Datasets : manifest'[e] # NewBuild(d) /\ compiled'[e] # NewBuild(d)
      BY <1>2, <1>6 DEF TameInv, CallInv, UpdateOK
    <3> QED BY <1>2, <1>3, <1>6, <2>1, <3>1, OthersOfJob
  <2> QED BY <2>1, <2>2, <2>3, <2>4
<1>7. ASSUME SerialInv PROVE SerialInv'
  <2>1. Current(c)'
    BY <1>4 DEF Current, LoadPcs
  <2>2. ~Follows(c)
    BY <1>2 DEF Follows, LoadPcs
  <2> QED BY <1>2, <1>3, <1>7, <2>1, <2>2, SerialStays
<1> QED BY <1>2, <1>3, <1>5, <1>6, <1>7, MovedStep

\* The manifest names a build whose bundles are in place and whose name no
\* other file holds; the runtime of the dataset is about to follow.
LEMMA WriteManifestStep ==
  ASSUME IInv, requests' = requests, NEW c \in Calls, WriteManifest(c)
  PROVE  IInv'
<1>1. TypeOK /\ Weighed
  BY DEF IInv
<1>2. PICK p, t : p = (IF ByCli(c) THEN "finish" ELSE "pick") /\ t = requests[c].dataset
  OBVIOUS
<1>3. /\ call[c].pc = "manifest" /\ (server = "up" \/ ByCli(c)) /\ Goto(c, p)
      /\ manifest' = [manifest EXCEPT ![t] = NewBuild(c)]
      /\ UNCHANGED <<bundles, compiled, metric, feedFiles, saved, server, runtime>>
      /\ overlapped' = overlapped
  BY <1>2 DEF WriteManifest, At
<1>4. Moved(c, p) /\ Kept(c)
  BY <1>1, <1>3, Goes DEF Goto
<1>5. /\ call'[c].sel = call[c].sel /\ call'[c].config = call[c].config
      /\ call'[c].pc = p /\ Op(c)' = Op(c)
      /\ \A d \in Calls : d # c => call'[d] = call[d]
  BY <1>4 DEF Kept, KeptButMetric, Moved, Op
<1>6. TypeOK' /\ Weighed'
  <2>1. SelOK(call'[c].sel) /\ (call'[c].config # None => SelOK(call'[c].config))
    BY <1>1, <1>5 DEF TypeOK
  <2>2. RuntimeAsBefore
    BY <1>1, <1>3, SameRuntime
  <2>3. manifest' = [d \in Datasets |-> manifest'[d]]
    BY <1>1, <1>3 DEF TypeOK
  <2>4. /\ compiled' = [d \in Datasets |-> compiled'[d]]
        /\ metric' = [d \in Datasets |-> metric'[d]]
        /\ feedFiles' \subseteq Feeds
        /\ saved' # None => SelOK(saved')
    BY <1>1, <1>3 DEF TypeOK
  <2>5. p \notin {"record", "feeds", "carry", "swap"} /\ Fits(c, p)
    BY <1>2 DEF Fits, BuildPcs
  <2> QED BY <1>1, <1>4, <2>1, <2>2, <2>3, <2>4, <2>5, TypesStay
<1>7. (TameInv /\ Op(c) \in RuntimeKinds \cup {"build"}) =>
        /\ c \in UnderWay /\ Op(c) = "update" /\ CallInv(c) /\ ~Resting(c) /\ p = "pick"
        /\ t \in Datasets /\ manifest'[t] = NewBuild(c)
        /\ \A d \in Datasets : d # t => manifest'[d] = manifest[d]
  <2>1. SUFFICES ASSUME TameInv, Op(c) \in RuntimeKinds \cup {"build"}
                 PROVE  /\ c \in UnderWay /\ Op(c) = "update" /\ CallInv(c) /\ ~Resting(c)
                        /\ p = "pick" /\ t \in Datasets /\ manifest'[t] = NewBuild(c)
                        /\ \A d \in Datasets : d # t => manifest'[d] = manifest[d]
    OBVIOUS
  <2>2. c \in UnderWay /\ Op(c) = "update" /\ CallInv(c) /\ ~Resting(c)
    BY <1>3, <2>1, JobAt
  <2>3. p = "pick" /\ t \in Datasets
    BY <1>1, <1>2, <2>2, RequestsAre DEF ByCli
  <2>4. manifest'[t] = NewBuild(c) /\ \A d \in Datasets : d # t => manifest'[d] = manifest[d]
    BY <1>1, <1>3, <2>3 DEF TypeOK
  <2> QED BY <2>2, <2>3, <2>4
<1>8. ASSUME TameInv, Op(c) \in RuntimeKinds \cup {"build"}
      PROVE  Startable' /\ (\A d \in Calls : CallInv(d)') /\ ~Resting(c)
  <2>1. /\ <<t, NewBuild(c)>> \in bundles
        /\ \A d \in Datasets : manifest[d] # NewBuild(c) /\ compiled[d] # NewBuild(c)
    BY <1>2, <1>3, <1>7, <1>8 DEF CallInv, UpdateOK
  <2>2. Startable'
    <3>1. server = "up"
      BY <1>3, <1>7, <1>8 DEF ByCli
    <3>2. \A d \in Datasets : <<d, manifest'[d]>> \in bundles
      BY <1>7, <1>8, <2>1 DEF TameInv, Startable
    <3>3. \A d \in Datasets : compiled[d] = manifest'[d] => metric[d] \in {Absent, manifest'[d]}
      BY <1>7, <1>8, <2>1 DEF TameInv, Startable
    <3> QED BY <1>3, <1>8, <3>1, <3>2, <3>3 DEF TameInv, Startable
  <2>3. CallInv(c)'
    <3>1. OnPath(c)' /\ LoadOK(c)' /\ UpdateOK(c)'
      BY <1>5, <1>7, <1>8 DEF OnPath, BuildPcs, LoadOK, LoadPcs, UpdateOK
    <3> QED BY <1>5, <1>7, <1>8, <3>1 DEF CallInv
  <2>4. \A d \in Calls : d # c => CallInv(d)'
    <3>1. \A d \in Calls : (d # c /\ Op(d) = "update" /\ call[d].pc = "new") =>
            \A e \in Datasets : manifest'[e] # NewBuild(d) /\ compiled'[e] # NewBuild(d)
      <4>1. \A d \in Calls : (Op(d) = "update" /\ call[d].pc = "new") =>
              \A e \in Datasets : manifest[e] # NewBuild(d) /\ compiled[e] # NewBuild(d)
        BY <1>8 DEF TameInv, CallInv, UpdateOK
      <4>2. \A d \in Calls : d # c => NewBuild(c) # NewBuild(d)
        BY NamesDiffer
      <4> QED BY <1>3, <1>7, <1>8, <4>1, <4>2
    <3> QED BY <1>3, <1>4, <1>7, <1>8, <3>1, OthersOfJob
  <2> QED BY <1>7, <1>8, <2>2, <2>3, <2>4
<1>9. ASSUME TameInv, SerialInv, Op(c) \in RuntimeKinds PROVE SerialInv'
  <2>1. \A d \in Calls : d # c => call[d].pc # "save" /\ ~Follows(d)
    BY <1>7, <1>9, AloneInJob
  <2>2. SavedAgrees'
    <3>1. SaveFailed(runtime.active) =>
            \E d \in Calls : call'[d].pc = "unsaved" /\ call'[d].sel = runtime.active
      BY <1>3, <1>4, FailuresStay
    <3> QED BY <1>3, <1>5, <1>9, <3>1 DEF SerialInv, SavedAgrees, SaveFailed
  <2>3. BuildAgrees'
    <3>1. SUFFICES ASSUME runtime # None
                   PROVE  \/ runtime.build = manifest'[runtime.active.dataset]
                          \/ \E d \in Calls :
                               /\ Op(d) = "update" /\ call'[d].pc = "failed"
                               /\ requests[d].dataset = runtime.active.dataset
                               /\ manifest'[runtime.active.dataset] = NewBuild(d)
                          \/ \E d \in Calls : Follows(d)'
      BY <1>3 DEF BuildAgrees, LoadFailed, Op
    <3>2. runtime.active.dataset \in Datasets
      BY <1>1, <3>1 DEF TypeOK, SelOK
    <3>3. CASE runtime.active.dataset = t
      <4>1. Follows(c)'
        BY <1>2, <1>3, <1>5, <1>7, <1>9, <3>3 DEF Follows
      <4> QED BY <4>1
    <3>4. CASE runtime.active.dataset # t
      <4>1. ~Follows(c)
        BY <1>3 DEF Follows, LoadPcs
      <4>2. \/ runtime.build = manifest[runtime.active.dataset]
            \/ LoadFailed(runtime.active.dataset, manifest[runtime.active.dataset])
        BY <1>9, <2>1, <3>1, <4>1 DEF SerialInv, BuildAgrees
      <4>3. LoadFailed(runtime.active.dataset, manifest[runtime.active.dataset]) =>
              \E d \in Calls : /\ Op(d) = "update" /\ call'[d].pc = "failed"
                               /\ requests[d].dataset = runtime.active.dataset
                               /\ manifest[runtime.active.dataset] = NewBuild(d)
        BY <1>3, <1>4, FailuresStay
      <4> QED BY <1>7, <1>9, <3>2, <3>4, <4>2, <4>3
    <3> QED BY <3>3, <3>4
  <2>4. ASSUME NEW d \in Calls PROVE Current(d)'
    <3>1. CASE d = c
      BY <1>2, <1>5, <1>7, <1>9, <3>1 DEF Current, LoadPcs
    <3>2. CASE d # c
      <4>1. Resting(d) \/ Op(d) \notin RuntimeKinds
        BY <1>7, <1>9, <3>2 DEF TameInv, OneJob, UnderWay, Resting
      <4>2. call'[d] = call[d] /\ Op(d)' = Op(d) /\ call[d].pc # "save"
        BY <1>5, <2>1, <3>2 DEF Op
      <4> QED BY <4>1, <4>2 DEF Current, Resting, Ended, LoadPcs, RuntimeKinds
    <3> QED BY <3>1, <3>2
  <2> QED BY <1>3, <1>9, <2>2, <2>3, <2>4 DEF SerialInv
<1>10. p # "new"
  BY <1>2
<1> QED BY <1>3, <1>4, <1>6, <1>8, <1>9, <1>10, MovedStep

-----------------------------------------------------------------------------
(* A deletion: no promise is about what it meets.                          *)

LEMMA EraseStep ==
  ASSUME IInv, requests' = requests, NEW c \in Calls,
         EraseBundles(c) \/ EraseManifest(c) \/ ClearSaved(c)
  PROVE  IInv'
<1>1. TypeOK /\ Weighed
  BY DEF IInv
<1>2. call[c].pc \in {"erase", "unlink", "clear"} /\ (server = "up" \/ ByCli(c))
  BY DEF EraseBundles, EraseManifest, ClearSaved, At
<1>3. TameInv => Op(c) \notin RuntimeKinds \cup {"build"}
  BY <1>2, StrayIsOff DEF Stray
<1>4. CASE Fail(c)
  BY <1>2, <1>3, <1>4, FailStep
<1>5. CASE ~Fail(c)
  <2>1. PICK p \in {"unlink", "lookup", "finish"} : Goto(c, p)
    BY <1>5 DEF EraseBundles, EraseManifest, ClearSaved
  <2>2. Moved(c, p) /\ Kept(c)
    BY <1>1, <2>1, Goes DEF Goto
  <2>3. SelOK(call'[c].sel) /\ (call'[c].config # None => SelOK(call'[c].config))
    BY <1>1, <2>2 DEF TypeOK, Kept, KeptButMetric
  <2>4. runtime' = runtime /\ overlapped' = overlapped /\ feedFiles' = feedFiles
        /\ (saved' = saved \/ saved' = None)
    BY <1>5 DEF EraseBundles, EraseManifest, ClearSaved
  <2>5. /\ manifest' = [d \in Datasets |-> manifest'[d]]
        /\ compiled' = [d \in Datasets |-> compiled'[d]]
        /\ metric' = [d \in Datasets |-> metric'[d]]
    BY <1>1, <1>5 DEF EraseBundles, EraseManifest, ClearSaved, TypeOK
  <2>6. feedFiles' \subseteq Feeds /\ (saved' # None => SelOK(saved'))
    BY <1>1, <2>4 DEF TypeOK
  <2>7. RuntimeAsBefore
    BY <1>1, <2>4, SameRuntime
  <2>8. TypeOK' /\ Weighed'
    BY <1>1, <2>2, <2>3, <2>5, <2>6, <2>7, TypesStay DEF Fits, BuildPcs
  <2> QED BY <1>3, <2>2, <2>4, <2>8, MovedStep
<1> QED BY <1>4, <1>5

-----------------------------------------------------------------------------
(* A scenario build on disk.                                               *)

\* What is left to show of a step of the one scenario build.
LEMMA FeedDiskStep ==
  ASSUME IInv, requests' = requests, NEW c \in Calls, NEW p \in BuildPcs \cup {"finish"},
         Goto(c, p), overlapped' = overlapped, server = "up" \/ ByCli(c),
         call[c].pc \in BuildPcs,
         UNCHANGED <<manifest, bundles, compiled, metric, server, runtime>>,
         feedFiles' \subseteq Feeds, saved' # None => SelOK(saved'),
         (TameInv /\ BuildOK(c) /\ Op(c) = "build" /\ Moved(c, p) /\ Kept(c)) =>
           /\ saved' # None /\ saved'.feeds \subseteq feedFiles'
           /\ BuildOK(c)'
           /\ feedFiles \ {requests[c].feed} \subseteq feedFiles'
  PROVE  IInv'
<1>1. TypeOK /\ Weighed
  BY DEF IInv
<1>2. Moved(c, p) /\ Kept(c)
  BY <1>1, Goes DEF Goto
<1>3. TypeOK' /\ Weighed'
  <2>1. SelOK(call'[c].sel) /\ (call'[c].config # None => SelOK(call'[c].config))
    BY <1>1, <1>2 DEF TypeOK, Kept, KeptButMetric
  <2>2. RuntimeAsBefore
    BY <1>1, SameRuntime
  <2>3. /\ manifest' = [d \in Datasets |-> manifest'[d]]
        /\ compiled' = [d \in Datasets |-> compiled'[d]]
        /\ metric' = [d \in Datasets |-> metric'[d]]
    BY <1>1 DEF TypeOK
  <2>4. p \notin {"record", "feeds", "carry", "swap"} /\ Fits(c, p)
    BY <1>1 DEF BuildPcs, TypeOK, Fits
  <2> QED BY <1>1, <1>2, <2>1, <2>2, <2>3, <2>4, TypesStay
<1>4. ASSUME Tame, TameInv, Op(c) \in RuntimeKinds \cup {"build"}
      PROVE  Startable' /\ (\A d \in Calls : CallInv(d)') /\ Op(c) \notin RuntimeKinds
  <2>1. Op(c) = "build" /\ BuildOK(c)
    BY <1>4, OnlyBuilds
  <2>2. /\ saved' # None /\ saved'.feeds \subseteq feedFiles' /\ BuildOK(c)'
        /\ feedFiles \ {requests[c].feed} \subseteq feedFiles'
    BY <1>2, <1>4, <2>1
  <2>3. Startable'
    <3>1. server = "up"
      BY <2>1 DEF ByCli
    <3> QED BY <1>4, <2>2, <3>1 DEF TameInv, Startable
  <2>4. CallInv(c)'
    <3>1. call'[c].pc = p /\ Op(c)' = Op(c)
      BY <1>2 DEF Moved, Op
    <3>2. OnPath(c)'
      BY <2>1, <3>1 DEF OnPath, BuildPcs
    <3> QED BY <2>1, <2>2, <3>1, <3>2 DEF CallInv, RuntimeKinds
  <2>5. ASSUME NEW d \in Calls, d # c PROVE CallInv(d)'
    <3>1. CallInv(d) /\ call'[d] = call[d] /\ Op(d)' = Op(d)
      BY <1>2, <1>4, <2>5 DEF TameInv, Moved, Op
    <3>2. OnPath(d)' /\ (Resting(d)' <=> Resting(d))
      BY <3>1 DEF CallInv, OnPath, BuildPcs, Resting
    <3>3. Begun(c)
      BY DEF Begun, BuildPcs
    <3>4. Op(d) \in RuntimeKinds => LoadOK(d)'
      BY <3>1 DEF CallInv, LoadOK
    <3>5. Op(d) = "update" => UpdateOK(d)'
      BY <3>1 DEF CallInv, UpdateOK
    <3>6. Op(d) = "activate" => ActivateOK(d)'
      <4>1. (Op(d) = "activate" /\ ~Resting(d)) =>
              requests[c].feed \notin call[d].sel.feeds /\ call[d].sel.feeds \subseteq feedFiles
        BY <1>4, <2>1, <3>1, <3>3 DEF Tame, Begun, Resting, CallInv, ActivateOK
      <4> QED BY <2>2, <3>1, <3>2, <4>1 DEF CallInv, ActivateOK
    <3>7. Op(d) = "build" => BuildOK(d)'
      <4>1. Op(d) = "build" => call[d].pc = "new"
        BY <1>4, <2>1, <2>5, <3>3 DEF Tame, Begun
      <4> QED BY <3>1, <4>1 DEF BuildOK
    <3> QED BY <3>1, <3>2, <3>4, <3>5, <3>6, <3>7 DEF CallInv
  <2> QED BY <2>1, <2>3, <2>4, <2>5 DEF RuntimeKinds
<1>5. (TameInv /\ Op(c) \in RuntimeKinds) => FALSE
  BY OnlyBuilds DEF RuntimeKinds
<1>6. p # "new"
  BY DEF BuildPcs
<1> QED BY <1>2, <1>3, <1>4, <1>5, <1>6, MovedStep

\* A selection whose feeds are exchanged is one still.
LEMMA Edited ==
  ASSUME NEW s, SelOK(s), NEW v \in SUBSET Feeds
  PROVE  /\ SelOK([s EXCEPT !.feeds = v]) /\ [s EXCEPT !.feeds = v].feeds = v
         /\ [s EXCEPT !.feeds = v] # None
<1>1. s = [dataset |-> s.dataset, feeds |-> s.feeds] /\ s.dataset \in Datasets
  BY DEF SelOK
<1>2. [s EXCEPT !.feeds = v] = [dataset |-> s.dataset, feeds |-> v]
  BY <1>1
<1>3. PICK t : t = [s EXCEPT !.feeds = v]
  OBVIOUS
<1>4. t = [dataset |-> s.dataset, feeds |-> v]
  BY <1>2, <1>3
<1>5. t.dataset = s.dataset /\ t.feeds = v /\ SelOK(t)
  BY <1>1, <1>4 DEF SelOK
<1>6. t # None
  <2>1. DOMAIN t = {"dataset", "feeds"} /\ DOMAIN None = {"dataset"}
    BY <1>4 DEF None
  <2> QED BY <2>1
<1> QED BY <1>3, <1>5, <1>6

LEMMA ForgetStep ==
  ASSUME IInv, requests' = requests, NEW c \in Calls, Forget(c)
  PROVE  IInv'
<1>1. TypeOK
  BY DEF IInv
<1>2. PICK config, f : config = call[c].config /\ f = requests[c].feed
  OBVIOUS
<1>3. /\ call[c].pc = "forgetting" /\ (server = "up" \/ ByCli(c)) /\ Goto(c, "erasefeed")
      /\ saved' = IF config # None /\ f \in config.feeds
                  THEN [config EXCEPT !.feeds = config.feeds \ {f}] ELSE saved
      /\ UNCHANGED <<manifest, bundles, compiled, metric, feedFiles, server, runtime>>
      /\ overlapped' = overlapped
  BY <1>2 DEF Forget, WriteConfig, At
<1>4. CASE config # None /\ f \in config.feeds
  <2>1. PICK v : v = config.feeds \ {f}
    OBVIOUS
  <2>2. SelOK(config) /\ v \in SUBSET Feeds
    BY <1>1, <1>2, <1>4, <2>1 DEF TypeOK, SelOK
  <2>3. SelOK(saved') /\ saved'.feeds = v /\ saved' # None
    BY <1>3, <1>4, <2>1, <2>2, Edited
  <2>4. ASSUME BuildOK(c), Moved(c, "erasefeed")
        PROVE  saved'.feeds \subseteq feedFiles' /\ BuildOK(c)'
    <3>1. config.feeds \subseteq feedFiles
      BY <1>2, <1>3, <1>4, <2>4 DEF BuildOK
    <3>2. BuildOK(c)'
      BY <1>2, <2>1, <2>3, <2>4 DEF BuildOK, Moved
    <3> QED BY <1>3, <2>1, <2>3, <3>1, <3>2
  <2>5. feedFiles' \subseteq Feeds
    BY <1>1, <1>3 DEF TypeOK
  <2> QED BY <1>3, <2>3, <2>4, <2>5, FeedDiskStep DEF BuildPcs
<1>5. CASE ~(config # None /\ f \in config.feeds)
  <2>1. saved' = saved /\ feedFiles' = feedFiles
    BY <1>3, <1>5
  <2>2. ASSUME TameInv, BuildOK(c), Moved(c, "erasefeed")
        PROVE  saved' # None /\ saved'.feeds \subseteq feedFiles' /\ BuildOK(c)'
    <3>1. f \notin saved.feeds
      BY <1>2, <1>3, <1>5, <2>2 DEF BuildOK
    <3>2. BuildOK(c)'
      BY <1>2, <2>1, <2>2, <3>1 DEF BuildOK, Moved
    <3> QED BY <2>1, <2>2, <3>2 DEF TameInv, Startable
  <2>3. feedFiles' \subseteq Feeds /\ (saved' # None => SelOK(saved'))
    BY <1>1, <2>1 DEF TypeOK
  <2> QED BY <1>3, <2>1, <2>2, <2>3, FeedDiskStep DEF BuildPcs
<1> QED BY <1>4, <1>5

\* Erased is a feed that neither the saved selection nor an activation names.
LEMMA EraseFeedStep ==
  ASSUME IInv, requests' = requests, NEW c \in Calls, EraseFeed(c)
  PROVE  IInv'
<1>1. TypeOK
  BY DEF IInv
<1>2. call[c].pc = "erasefeed" /\ call[c].pc \in BuildPcs /\ (server = "up" \/ ByCli(c))
  BY DEF EraseFeed, At, BuildPcs
<1>3. CASE requests[c].feed \notin feedFiles
  <2>1. Fail(c)
    BY <1>3 DEF EraseFeed
  <2> QED BY <1>2, <2>1, FeedFail
<1>4. CASE requests[c].feed \in feedFiles
  <2>1. PICK p \in {"write", "finish"} : p = IF Op(c) = "build" THEN "write" ELSE "finish"
    OBVIOUS
  <2>2. /\ feedFiles' = feedFiles \ {requests[c].feed} /\ Goto(c, p)
        /\ UNCHANGED <<manifest, bundles, compiled, metric, saved, server, runtime>>
        /\ overlapped' = overlapped
    BY <1>4, <2>1 DEF EraseFeed
  <2>3. ASSUME TameInv, BuildOK(c), Op(c) = "build", Moved(c, p)
        PROVE  saved' # None /\ saved'.feeds \subseteq feedFiles' /\ BuildOK(c)'
    <3>1. requests[c].feed \notin saved.feeds
      BY <1>2, <2>3 DEF BuildOK
    <3>2. saved # None /\ saved.feeds \subseteq feedFiles
      BY <2>3 DEF TameInv, Startable
    <3>3. BuildOK(c)'
      BY <2>1, <2>2, <2>3, <3>1 DEF BuildOK, Moved
    <3> QED BY <2>2, <3>1, <3>2, <3>3
  <2>4. feedFiles' \subseteq Feeds /\ (saved' # None => SelOK(saved'))
    BY <1>1, <2>2 DEF TypeOK
  <2>5. p \in BuildPcs \cup {"finish"}
    BY <2>1 DEF BuildPcs
  <2> QED BY <1>2, <2>2, <2>3, <2>4, <2>5, FeedDiskStep
<1> QED BY <1>3, <1>4

LEMMA WriteFeedStep ==
  ASSUME IInv, requests' = requests, NEW c \in Calls, WriteFeed(c)
  PROVE  IInv'
<1>1. TypeOK
  BY DEF IInv
<1>2. /\ call[c].pc = "write" /\ (server = "up" \/ ByCli(c)) /\ Goto(c, "register")
      /\ feedFiles' = feedFiles \cup {requests[c].feed}
      /\ UNCHANGED <<manifest, bundles, compiled, metric, saved, server, runtime>>
      /\ overlapped' = overlapped
  BY DEF WriteFeed, At
<1>3. ASSUME TameInv, Moved(c, "register")
      PROVE  saved' # None /\ saved'.feeds \subseteq feedFiles' /\ BuildOK(c)'
  <2>1. saved # None /\ saved.feeds \subseteq feedFiles
    BY <1>3 DEF TameInv, Startable
  <2>2. BuildOK(c)'
    BY <1>2, <1>3 DEF BuildOK, Moved
  <2> QED BY <1>2, <2>1, <2>2
<1>4. feedFiles' \subseteq Feeds /\ (saved' # None => SelOK(saved'))
  <2>1. Op(c) \in {"build", "remove"}
    BY <1>1, <1>2 DEF TypeOK, Fits, BuildPcs
  <2> QED BY <1>1, <1>2, <2>1, RequestsAre DEF TypeOK
<1>5. /\ call[c].pc \in BuildPcs /\ "register" \in BuildPcs
      /\ feedFiles \ {requests[c].feed} \subseteq feedFiles'
  BY <1>2 DEF BuildPcs
<1> QED BY <1>2, <1>3, <1>4, <1>5, FeedDiskStep

LEMMA RememberStep ==
  ASSUME IInv, requests' = requests, NEW c \in Calls, Remember(c)
  PROVE  IInv'
<1>1. TypeOK
  BY DEF IInv
<1>2. PICK config, f : config = call[c].config /\ f = requests[c].feed
  OBVIOUS
<1>3. /\ call[c].pc = "remember" /\ (server = "up" \/ ByCli(c)) /\ Goto(c, "finish")
      /\ saved' = IF config # None /\ f \notin config.feeds
                  THEN [config EXCEPT !.feeds = config.feeds \cup {f}] ELSE saved
      /\ UNCHANGED <<manifest, bundles, compiled, metric, feedFiles, server, runtime>>
      /\ overlapped' = overlapped
  BY <1>2 DEF Remember, WriteConfig, At
<1>4. f \in Feeds /\ feedFiles' \subseteq Feeds
  <2>1. Op(c) \in {"build", "remove"}
    BY <1>1, <1>3 DEF TypeOK, Fits, BuildPcs
  <2> QED BY <1>1, <1>2, <1>3, <2>1, RequestsAre DEF TypeOK
<1>5. CASE config # None /\ f \notin config.feeds
  <2>1. PICK v : v = config.feeds \cup {f}
    OBVIOUS
  <2>2. SelOK(config) /\ v \in SUBSET Feeds
    BY <1>1, <1>2, <1>4, <1>5, <2>1 DEF TypeOK, SelOK
  <2>3. SelOK(saved') /\ saved'.feeds = v /\ saved' # None
    BY <1>3, <1>5, <2>1, <2>2, Edited
  <2>4. ASSUME BuildOK(c), Moved(c, "finish")
        PROVE  saved'.feeds \subseteq feedFiles' /\ BuildOK(c)'
    <3>1. config.feeds \subseteq feedFiles /\ f \in feedFiles
      BY <1>2, <1>3, <1>5, <2>4 DEF BuildOK
    <3>2. BuildOK(c)'
      BY <2>4 DEF BuildOK, Moved
    <3> QED BY <1>3, <2>1, <2>3, <3>1, <3>2
  <2> QED BY <1>3, <1>4, <2>3, <2>4, FeedDiskStep DEF BuildPcs
<1>6. CASE ~(config # None /\ f \notin config.feeds)
  <2>1. saved' = saved /\ feedFiles' = feedFiles
    BY <1>3, <1>6
  <2>2. ASSUME TameInv, Moved(c, "finish")
        PROVE  saved' # None /\ saved'.feeds \subseteq feedFiles' /\ BuildOK(c)'
    <3>1. BuildOK(c)'
      BY <2>2 DEF BuildOK, Moved
    <3> QED BY <2>1, <2>2, <3>1 DEF TameInv, Startable
  <2>3. saved' # None => SelOK(saved')
    BY <1>1, <2>1 DEF TypeOK
  <2> QED BY <1>3, <1>4, <2>1, <2>2, <2>3, FeedDiskStep DEF BuildPcs
<1> QED BY <1>5, <1>6

-----------------------------------------------------------------------------
(* The server's start and its death.                                       *)

LEMMA CallsAsBefore ==
  ASSUME requests' = requests, call' = call, overlapped' = overlapped
  PROVE  (Tame' <=> Tame) /\ (Serial' <=> Serial)
<1>1. \A c \in Calls : Op(c)' = Op(c) /\ (Begun(c)' <=> Begun(c))
  BY DEF Op, Begun
<1>2. Tame' <=> Tame
  BY DEF Tame, Op, Begun
<1>3. Serial' <=> Serial
  BY DEF Serial, Op, Begun
<1> QED BY <1>2, <1>3

\* What a start leaves of the types.
LEMMA StartTypes ==
  ASSUME TypeOK, Weighed, requests' = requests, call' = call,
         manifest' = manifest, feedFiles' = feedFiles, saved' = saved,
         compiled' = [d \in Datasets |-> compiled'[d]],
         metric' = [d \in Datasets |-> metric'[d]],
         runtime' # None =>
           \/ runtime' = runtime
           \/ /\ runtime' = [f \in RuntimeFields |-> runtime'[f]]
              /\ SelOK(runtime'.active) /\ runtime'.metric = runtime'.build
  PROVE  TypeOK' /\ Weighed'
<1>1. (\A s : SelOK(s)' <=> SelOK(s)) /\ (\A d, q : Fits(d, q)' <=> Fits(d, q))
  BY DEF SelOK, Fits, Op
<1>2. runtime' # None => /\ runtime' = [f \in RuntimeFields |-> runtime'[f]]
                         /\ SelOK(runtime'.active)
  BY DEF TypeOK
<1>3. /\ requests' \in Scenarios /\ manifest' = [d \in Datasets |-> manifest'[d]]
      /\ feedFiles' \subseteq Feeds
  BY DEF TypeOK
<1>4. saved' # None => SelOK(saved')
  BY DEF TypeOK
<1>5. call' = [c \in Calls |-> call'[c]]
  BY DEF TypeOK
<1>6. \A c \in Calls : /\ call'[c] = [f \in CallFields |-> call'[c][f]]
                       /\ SelOK(call'[c].sel)
                       /\ call'[c].config # None => SelOK(call'[c].config)
                       /\ Fits(c, call'[c].pc)
  BY DEF TypeOK
<1>7. TypeOK'
  BY <1>1, <1>2, <1>3, <1>4, <1>5, <1>6 DEF TypeOK
<1>8. Weighed'
  BY DEF Weighed
<1> QED BY <1>7, <1>8

LEMMA StartEmptyStep ==
  ASSUME IInv, requests' = requests, StartEmpty
  PROVE  IInv'
<1>1. /\ saved = None /\ call' = call /\ overlapped' = overlapped
      /\ manifest' = manifest /\ compiled' = compiled /\ metric' = metric
      /\ feedFiles' = feedFiles /\ saved' = saved /\ runtime' = runtime
  BY DEF StartEmpty, disk
<1>2. TypeOK /\ Weighed
  BY DEF IInv
<1>3. TypeOK' /\ Weighed'
  <2>1. /\ compiled' = [d \in Datasets |-> compiled'[d]]
        /\ metric' = [d \in Datasets |-> metric'[d]]
    BY <1>1, <1>2 DEF TypeOK
  <2> QED BY <1>1, <1>2, <2>1, StartTypes
<1>4. ~Tame
  BY <1>1 DEF IInv, TameInv, Startable
<1>5. ~Tame' /\ ~Serial'
  BY <1>1, <1>4, CallsAsBefore, SerialIsTame
<1> QED BY <1>3, <1>5 DEF IInv

\* The saved selection loads, and nothing is under way.
LEMMA StartStep ==
  ASSUME IInv, requests' = requests, Start
  PROVE  IInv'
<1>1. TypeOK /\ Weighed
  BY DEF IInv
<1>2. PICK t, b : t = saved.dataset /\ b = manifest[t]
  OBVIOUS
<1>3. /\ server = "down" /\ saved # None /\ call' = call /\ overlapped' = overlapped
      /\ UNCHANGED <<manifest, bundles, feedFiles, saved>>
  BY DEF Start
<1>4. SelOK(saved) /\ t \in Datasets
  BY <1>1, <1>2, <1>3 DEF TypeOK, SelOK
<1>5. Loadable(saved) => /\ server' = "up"
                         /\ runtime' = Loaded(0, saved, b, b, {})
                         /\ compiled' = [compiled EXCEPT ![t] = b]
                         /\ metric' = [metric EXCEPT ![t] = b]
  BY <1>2 DEF Start
<1>6. ~Loadable(saved) => UNCHANGED <<runtime, compiled, metric>>
  BY DEF Start
<1>7. Loadable(saved) => /\ runtime' = [f \in RuntimeFields |-> runtime'[f]]
                         /\ runtime'.active = saved /\ runtime'.build = b
                         /\ runtime'.metric = b
  BY <1>5 DEF Loaded, RuntimeFields
<1>8. TypeOK' /\ Weighed'
  <2>1. /\ compiled' = [d \in Datasets |-> compiled'[d]]
        /\ metric' = [d \in Datasets |-> metric'[d]]
    BY <1>1, <1>5, <1>6 DEF TypeOK
  <2>2. runtime' # None =>
          \/ runtime' = runtime
          \/ /\ runtime' = [f \in RuntimeFields |-> runtime'[f]]
             /\ SelOK(runtime'.active) /\ runtime'.metric = runtime'.build
    BY <1>4, <1>6, <1>7
  <2> QED BY <1>1, <1>3, <2>1, <2>2, StartTypes
<1>9. (Tame' <=> Tame) /\ (Serial' <=> Serial)
  BY <1>3, CallsAsBefore
<1>10. ASSUME Tame
       PROVE  /\ TameInv /\ Loadable(saved) /\ (\A c \in Calls : Resting(c))
              /\ compiled'[t] = b /\ metric'[t] = b /\ server' = "up"
              /\ \A d \in Datasets : d # t => compiled'[d] = compiled[d] /\ metric'[d] = metric[d]
  <2>1. TameInv
    BY <1>10 DEF IInv
  <2>2. Loadable(saved) /\ \A c \in Calls : Resting(c)
    BY <1>2, <1>3, <1>4, <2>1 DEF TameInv, Startable, Loadable
  <2>3. compiled' = [compiled EXCEPT ![t] = b] /\ metric' = [metric EXCEPT ![t] = b]
    BY <1>5, <2>2
  <2>4. /\ compiled'[t] = b /\ metric'[t] = b
        /\ \A d \in Datasets : d # t => compiled'[d] = compiled[d] /\ metric'[d] = metric[d]
    BY <1>1, <1>4, <2>3 DEF TypeOK
  <2> QED BY <1>5, <2>1, <2>2, <2>4
<1>11. ASSUME Tame PROVE TameInv'
  <2>1. TameInv
    BY <1>10, <1>11
  <2>2. Startable'
    <3>1. \A d \in Datasets : compiled'[d] = manifest[d] => metric'[d] \in {Absent, manifest[d]}
      BY <1>2, <1>10, <1>11 DEF TameInv, Startable
    <3> QED BY <1>3, <1>10, <1>11, <3>1 DEF TameInv, Startable
  <2>3. OneJob'
    BY <1>3, <2>1 DEF TameInv, OneJob, UnderWay, Op
  <2>4. ASSUME NEW c \in Calls PROVE CallInv(c)'
    <3>1. CallInv(c) /\ Resting(c) /\ call'[c] = call[c] /\ Op(c)' = Op(c)
      BY <1>3, <1>10, <1>11, <2>1 DEF TameInv, Op
    <3>2. OnPath(c)' /\ LoadOK(c)' /\ ActivateOK(c)' /\ BuildOK(c)'
      BY <3>1 DEF OnPath, LoadOK, ActivateOK, BuildOK, Resting, Ended, LoadPcs
    <3>3. Op(c) = "update" => UpdateOK(c)'
      <4>1. (Op(c) = "update" /\ call[c].pc = "new") =>
              \A d \in Datasets : manifest[d] # NewBuild(c) /\ compiled[d] # NewBuild(c)
        BY <3>1 DEF CallInv, UpdateOK
      <4>2. (Op(c) = "update" /\ call[c].pc = "new") =>
              \A d \in Datasets : manifest[d] # NewBuild(c) /\ compiled'[d] # NewBuild(c)
        BY <1>2, <1>4, <1>10, <1>11, <4>1
      <4> QED BY <1>3, <3>1, <4>2 DEF UpdateOK, Resting, Ended
    <3> QED BY <3>1, <3>2, <3>3 DEF CallInv
  <2> QED BY <2>2, <2>3, <2>4 DEF TameInv
<1>12. ASSUME Serial PROVE SerialInv'
  <2>1. Tame /\ SerialInv
    BY <1>12, SerialIsTame DEF IInv
  <2>2. runtime'.active = saved /\ runtime'.build = manifest[saved.dataset]
    BY <1>2, <1>7, <1>10, <2>1
  <2>3. SavedAgrees' /\ BuildAgrees'
    BY <1>3, <2>2 DEF SavedAgrees, BuildAgrees
  <2>4. \A c \in Calls : Current(c)'
    BY <1>3, <1>10, <2>1 DEF Current, Resting, Ended, LoadPcs
  <2> QED BY <1>3, <2>1, <2>3, <2>4 DEF SerialInv
<1> QED BY <1>8, <1>9, <1>11, <1>12 DEF IInv

\* A death leaves the disk as it is, and nobody at work on it.
LEMMA CrashStep ==
  ASSUME IInv, requests' = requests, Crash
  PROVE  IInv'
<1>1. TypeOK /\ Weighed
  BY DEF IInv
<1>2. /\ server' = "down" /\ runtime' = None /\ overlapped' = overlapped
      /\ manifest' = manifest /\ bundles' = bundles /\ compiled' = compiled
      /\ metric' = metric /\ feedFiles' = feedFiles /\ saved' = saved
  BY DEF Crash, disk
<1>3. call' = [c \in Calls |-> call'[c]]
  BY DEF Crash
<1>4. ASSUME NEW c \in Calls
      PROVE  /\ call'[c] = [f \in CallFields |-> call'[c][f]]
             /\ call'[c].sel = call[c].sel /\ call'[c].config = call[c].config
             /\ call'[c].metric = call[c].metric /\ call'[c].build = call[c].build
             /\ IF ByCli(c) \/ Resting(c) THEN call'[c] = call[c] ELSE call'[c].pc = "lost"
  <2>1. call[c] = [f \in CallFields |-> call[c][f]]
    BY <1>1 DEF TypeOK
  <2>2. call'[c] = IF ByCli(c) \/ Resting(c) THEN call[c] ELSE [call[c] EXCEPT !.pc = "lost"]
    BY DEF Crash, Resting
  <2>3. CASE ByCli(c) \/ Resting(c)
    BY <2>1, <2>2, <2>3
  <2>4. CASE ~(ByCli(c) \/ Resting(c))
    <3>1. call'[c] = [call[c] EXCEPT !.pc = "lost"]
      BY <2>2, <2>4
    <3> QED BY <2>1, <2>4, <3>1 DEF CallFields
  <2> QED BY <2>3, <2>4
<1>5. TypeOK'
  <2>1. (\A s : SelOK(s)' <=> SelOK(s)) /\ (\A d, q : Fits(d, q)' <=> Fits(d, q))
    BY DEF SelOK, Fits, Op
  <2>2. ASSUME NEW c \in Calls
        PROVE  /\ SelOK(call'[c].sel)
               /\ call'[c].config # None => SelOK(call'[c].config)
               /\ Fits(c, call'[c].pc)
    BY <1>1, <1>4 DEF TypeOK, Fits, BuildPcs
  <2>3. /\ requests' \in Scenarios /\ manifest' = [d \in Datasets |-> manifest'[d]]
        /\ compiled' = [d \in Datasets |-> compiled'[d]]
        /\ metric' = [d \in Datasets |-> metric'[d]] /\ feedFiles' \subseteq Feeds
    BY <1>1, <1>2 DEF TypeOK
  <2>4. saved' # None => SelOK(saved')
    BY <1>1, <1>2 DEF TypeOK
  <2> QED BY <1>2, <1>3, <1>4, <2>1, <2>2, <2>3, <2>4 DEF TypeOK
<1>6. Weighed'
  <2>1. ASSUME NEW c \in Calls, call'[c].pc \in {"record", "feeds", "carry", "swap"}
        PROVE  call'[c].metric = call'[c].build
    BY <1>1, <1>4, <2>1 DEF Weighed
  <2> QED BY <1>2, <2>1 DEF Weighed
<1>7. (Tame' => Tame) /\ (Serial' => Serial) /\ (Serial' => Tame')
  <2>1. \A c \in Calls : Begun(c) => call'[c].pc # "new"
    BY <1>4 DEF Begun
  <2>2. Serial' => Tame'
    BY SerialIsTame, PTL
  <2> QED BY <1>2, <2>1, <2>2, TameBefore
<1>8. ASSUME Tame'
      PROVE  \A c \in Calls : Resting(c)' /\ (call'[c].pc = "new" => call'[c] = call[c])
  <2>1. TAKE c \in Calls
  <2>2. Tame
    BY <1>7, <1>8
  <2>3. ~Begun(c) \/ ~ByCli(c)
    BY <2>2 DEF Tame, ByCli, RuntimeKinds
  <2>4. ~Begun(c) => Resting(c)
    BY DEF Begun, Resting
  <2> QED BY <1>4, <2>3, <2>4 DEF Resting, Ended
<1>9. ASSUME Tame' PROVE TameInv'
  <2>1. TameInv
    BY <1>7, <1>9 DEF IInv
  <2>2. Startable'
    BY <1>2, <1>8, <1>9, <2>1 DEF TameInv, Startable
  <2>3. OneJob'
    BY <1>8, <1>9 DEF OneJob, UnderWay, Resting
  <2>4. ASSUME NEW c \in Calls PROVE CallInv(c)'
    <3>1. CallInv(c) /\ Resting(c)' /\ Op(c)' = Op(c)
      BY <1>8, <1>9, <2>1 DEF TameInv, Op
    <3>2. OnPath(c)' /\ LoadOK(c)' /\ ActivateOK(c)' /\ BuildOK(c)'
      BY <3>1 DEF OnPath, LoadOK, ActivateOK, BuildOK, Resting, Ended, LoadPcs
    <3>3. Op(c) = "update" => UpdateOK(c)'
      BY <1>2, <1>8, <1>9, <3>1 DEF CallInv, UpdateOK, Resting, Ended
    <3> QED BY <3>1, <3>2, <3>3 DEF CallInv
  <2> QED BY <2>2, <2>3, <2>4 DEF TameInv
<1>10. ASSUME Serial' PROVE SerialInv'
  <2>1. SerialInv
    BY <1>7, <1>10 DEF IInv
  <2>2. \A c \in Calls : Current(c)'
    BY <1>2, <1>7, <1>8, <1>10 DEF Current, Resting, Ended, LoadPcs
  <2> QED BY <1>2, <2>1, <2>2 DEF SerialInv, SavedAgrees, BuildAgrees
<1> QED BY <1>5, <1>6, <1>9, <1>10 DEF IInv

-----------------------------------------------------------------------------
(* The invariant.                                                          *)

LEMMA InitHolds == Init => IInv
<1>1. SUFFICES ASSUME Init PROVE IInv
  OBVIOUS
<1>2. SelOK(Selected) /\ Selected # None
  <2>1. Selected = [dataset |-> Selected.dataset, feeds |-> Selected.feeds] /\ SelOK(Selected)
    BY SelectedAssumption DEF SelOK
  <2>2. DOMAIN Selected = {"dataset", "feeds"} /\ DOMAIN None = {"dataset"}
    BY <2>1 DEF None
  <2> QED BY <2>1, <2>2
<1>3. \A c \in Calls : /\ call[c] = Fresh /\ call[c].pc = "new" /\ call[c].sel = Selected
                       /\ call[c].config = None /\ Resting(c)
  BY <1>1 DEF Init, Fresh, Resting
<1>4. TypeOK
  <2>1. \A c \in Calls : /\ call[c] = [f \in CallFields |-> call[c][f]]
                         /\ SelOK(call[c].sel)
                         /\ call[c].config # None => SelOK(call[c].config)
                         /\ Fits(c, call[c].pc)
    BY <1>2, <1>3 DEF Fresh, CallFields, Fits, BuildPcs
  <2>2. /\ manifest = [d \in Datasets |-> manifest[d]]
        /\ compiled = [d \in Datasets |-> compiled[d]]
        /\ metric = [d \in Datasets |-> metric[d]]
        /\ call = [c \in Calls |-> call[c]]
    BY <1>1 DEF Init
  <2>3. requests \in Scenarios /\ feedFiles \subseteq Feeds /\ saved = Selected /\ runtime = None
    BY <1>1 DEF Init
  <2> QED BY <1>2, <2>1, <2>2, <2>3 DEF TypeOK
<1>5. Weighed
  BY <1>1, <1>3 DEF Weighed, Init
<1>6. TameInv
  <2>1. Startable
    <3>1. saved.feeds \subseteq feedFiles
      BY <1>1, <1>2 DEF Init, SelOK
    <3>2. \A d \in Datasets : <<d, manifest[d]>> \in bundles
      BY <1>1 DEF Init
    <3>3. \A d \in Datasets : metric[d] = Absent
      BY <1>1 DEF Init
    <3>4. saved # None /\ server # "failed"
      BY <1>1, <1>2 DEF Init
    <3> QED BY <1>3, <3>1, <3>2, <3>3, <3>4 DEF Startable
  <2>2. OneJob
    BY <1>3 DEF OneJob, UnderWay
  <2>3. ASSUME NEW c \in Calls PROVE CallInv(c)
    <3>1. OnPath(c) /\ LoadOK(c) /\ ActivateOK(c) /\ BuildOK(c)
      BY <1>3 DEF OnPath, LoadOK, ActivateOK, BuildOK, LoadPcs
    <3>2. UpdateOK(c)
      <4>1. \A d \in Datasets : manifest[d] = FirstBuild /\ compiled[d] = Absent
        BY <1>1 DEF Init
      <4> QED BY <1>3, <4>1, NamesDiffer DEF UpdateOK
    <3> QED BY <3>1, <3>2 DEF CallInv
  <2> QED BY <2>1, <2>2, <2>3 DEF TameInv
<1>7. SerialInv
  BY <1>1, <1>3 DEF SerialInv, SavedAgrees, BuildAgrees, Current, LoadPcs, Init
<1> QED BY <1>4, <1>5, <1>6, <1>7 DEF IInv

LEMMA CallStep ==
  ASSUME IInv, requests' = requests, NEW c \in Calls, Begin(c) \/ Step(c)
  PROVE  IInv'
<1>1. CASE Begin(c)
  BY <1>1, BeginStep
<1>2. CASE Spawn(c) \/ Finish(c) \/ Break(c) \/ PostLive(c) \/ ApplyLive(c)
  BY <1>2, SpawnStep, FinishStep, BreakStep, LiveStep
<1>3. CASE Load(c)
  BY <1>3, ReadManifestStep, ReadCompiledStep, LoadCachedStep, CompileStep,
     RecordCompiledStep, LoadFeedsStep, CarryLiveStep, SwapStep, SaveStep DEF Load
<1>4. CASE Updating(c)
  BY <1>4, StartCliStep, ReadBaseStep, WriteBundlesStep, WriteManifestStep,
     PickLoadedStep, ReadSourceStep DEF Updating
<1>5. CASE Deleting(c)
  BY <1>5, DeleteStep, EraseStep DEF Deleting
<1>6. CASE Feeding(c)
  <2>1. CASE ReadConfig(c, "forget", "forgetting") \/ ReadConfig(c, "recall", "remember")
    BY <2>1, ReadConfigStep
  <2>2. CASE Remove(c) \/ Replace(c) \/ Unload(c) \/ Forget(c) \/ EraseFeed(c)
    BY <2>2, DeleteStep, ReplaceStep, UnloadStep, ForgetStep, EraseFeedStep
  <2>3. CASE WriteFeed(c) \/ Register(c) \/ InsertFeed(c) \/ Remember(c)
    BY <2>3, WriteFeedStep, RegisterStep, InsertFeedStep, RememberStep
  <2> QED BY <1>6, <2>1, <2>2, <2>3 DEF Feeding
<1> QED BY <1>1, <1>2, <1>3, <1>4, <1>5, <1>6 DEF Step, Advance

LEMMA NextHolds == IInv /\ [Next]_vars => IInv'
<1>1. SUFFICES ASSUME IInv, [Next]_vars PROVE IInv'
  OBVIOUS
<1>2. CASE UNCHANGED vars
  <2>1. \A c, q : Op(c)' = Op(c) /\ (Fits(c, q)' <=> Fits(c, q))
    BY <1>2 DEF vars, Op, Fits
  <2>2. /\ requests' = requests /\ call' = call /\ overlapped' = overlapped
        /\ UNCHANGED disk /\ runtime' = runtime /\ server' = server
    BY <1>2 DEF vars, moving, disk
  <2>3. (Tame' <=> Tame) /\ (Serial' <=> Serial)
    BY <2>2, CallsAsBefore
  <2>4. TypeOK' /\ Weighed'
    BY <1>1, <2>1, <2>2 DEF IInv, TypeOK, Weighed, SelOK, disk
  <2>5. (\A c \in Calls : CallInv(c) => CallInv(c)') /\ (TameInv => TameInv')
    <3>1. \A c \in Calls : Resting(c)' <=> Resting(c)
      BY <2>2 DEF Resting
    <3>2. ASSUME NEW c \in Calls, CallInv(c) PROVE CallInv(c)'
      <4>1. /\ OnPath(c)' /\ (LoadOK(c)' <=> LoadOK(c)) /\ (UpdateOK(c)' <=> UpdateOK(c))
        BY <2>1, <2>2, <3>1, <3>2 DEF CallInv, OnPath, LoadOK, UpdateOK, disk
      <4>2. (ActivateOK(c)' <=> ActivateOK(c)) /\ (BuildOK(c)' <=> BuildOK(c))
        BY <2>2, <3>1 DEF ActivateOK, BuildOK, disk
      <4> QED BY <2>1, <3>2, <4>1, <4>2 DEF CallInv
    <3>3. Startable => Startable'
      BY <2>2, <3>1 DEF Startable, disk
    <3>4. OneJob => OneJob'
      BY <2>1, <2>2 DEF OneJob, UnderWay
    <3> QED BY <3>2, <3>3, <3>4 DEF TameInv
  <2>6. SerialInv => SerialInv'
    BY <2>1, <2>2 DEF SerialInv, SavedAgrees, SaveFailed, BuildAgrees, LoadFailed, Follows,
                        Current, Selection, disk
  <2> QED BY <1>1, <2>3, <2>4, <2>5, <2>6 DEF IInv
<1>3. CASE Next
  <2>1. requests' = requests
    BY <1>3 DEF Next
  <2>2. CASE StartEmpty \/ Start \/ Crash
    BY <1>1, <2>1, <2>2, StartEmptyStep, StartStep, CrashStep
  <2>3. CASE \E c \in Calls : Begin(c) \/ Step(c)
    BY <1>1, <2>1, <2>3, CallStep
  <2> QED BY <1>3, <2>2, <2>3 DEF Next
<1> QED BY <1>1, <1>2, <1>3

\* The inductive invariant: types, what is loaded goes together, and, while the
\* calls are tame or serial, what keeps the next start and the selection right.
THEOREM Invariant == Spec => []IInv
BY InitHolds, NextHolds, PTL DEF Spec

\* MetricMatchesTopology: the engine never weighs the edges of one build with
\* the metrics of another.
THEOREM OneBuildWeighed == Spec => []MetricMatchesTopology
<1>1. IInv => MetricMatchesTopology
  BY DEF IInv, Weighed, MetricMatchesTopology
<1> QED BY <1>1, Invariant, PTL

\* StartSucceeds: whatever the point of a crash, the saved selection loads.
THEOREM StartNeverFails == Spec => []StartSucceeds
<1>1. IInv => StartSucceeds
  BY DEF IInv, TameInv, Startable, StartSucceeds
<1> QED BY <1>1, Invariant, PTL

\* SerialJobsAgree: runtime jobs that follow one another leave the service and
\* the next start in agreement, whichever of their steps failed, unless the job
\* that loaded the selection failed to save it or the one that wrote the build
\* failed to load it.
THEOREM JobsAgree == Spec => []SerialJobsAgree
<1>1. IInv => SerialJobsAgree
  <2>1. SUFFICES ASSUME IInv, Serial, server = "up", runtime # None, Quiet
                 PROVE  /\ saved = runtime.active \/ SaveFailed(runtime.active)
                        /\ \/ runtime.build = manifest[runtime.active.dataset]
                           \/ LoadFailed(runtime.active.dataset,
                                         manifest[runtime.active.dataset])
    BY DEF SerialJobsAgree
  <2>2. SavedAgrees /\ BuildAgrees
    BY <2>1 DEF IInv, SerialInv
  <2>3. \A c \in Calls : call[c].pc # "save" /\ ~Follows(c)
    BY <2>1 DEF Quiet, Ended, Follows, LoadPcs
  <2> QED BY <2>1, <2>2, <2>3 DEF SavedAgrees, BuildAgrees
<1> QED BY <1>1, Invariant, PTL

===============================================================================
