--------------------------- MODULE BundleStore_proofs ---------------------------
(***************************************************************************)
(* Proofs about BundleStore, for any number of calls and kills and for any *)
(* operations they may be: what is loaded is one build, builds and kills   *)
(* break no reader, serial updates accumulate, and a prune that runs alone *)
(* is exact.                                                               *)
(***************************************************************************)
EXTENDS BundleStore, TLAPS

Stages == [import |-> {"write", "rename", "repoint"},
           update |-> {"manifest", "read", "write", "rename", "repoint"},
           compile |-> {"manifest", "read", "metric", "metric-rename", "record"},
           load |-> {"manifest", "read", "cached", "profile", "metric", "metric-rename", "record", "serving"},
           prune |-> {"manifest", "compiled", "list", "forget", "unlink"}]
Pcs == {"new", "manifest", "read", "write", "rename", "repoint", "metric", "metric-rename", "record",
        "cached", "profile", "serving", "compiled", "list", "forget", "unlink", "done", "failed", "killed"}

Files == (Dirs \X Builds) \cup (Dirs \X Builds \X {"partial"})
Progress ==
  [pc : Pcs, at : Nat, build : Builds \cup {Absent}, got : SUBSET (Kinds \X Builds), has : SUBSET Calls,
   hit : BOOLEAN, stale : BOOLEAN, keep : SUBSET Files, doomed : SUBSET Files, met : SUBSET Calls,
   mixed : BOOLEAN]

TypeOK ==
  /\ op \in [Calls -> Operations]
  /\ manifest \in Builds
  /\ file \in [Kinds -> [Builds -> Builds \cup {Absent}]]
  /\ compiled \in Builds \cup {Absent} /\ metric \in Builds \cup {Absent}
  /\ partial \in [Calls -> Dirs \cup {"none"}]
  /\ call \in [Calls -> Progress]
  /\ kills \in Nat

\* Where a call may stand, by its operation.
StageOf(c) ==
  /\ call[c].pc \in Stages[op[c]] \cup Ended \cup {"new"}
  /\ call[c].pc = "new" => call[c] = Fresh
  /\ call[c].pc \in {"manifest", "compiled"} => call[c].at = 0 /\ call[c].doomed = {}
  /\ call[c].pc = "manifest" => call[c].got = {}
  /\ call[c].pc = "read" => call[c].at < Len(Reads(op[c]))
  /\ call[c].pc \in {"write", "rename"} => call[c].at < 4
  /\ call[c].pc = "rename" => partial[c] \in {WriteOrder[call[c].at + 1], "none"}
  /\ call[c].pc = "list" => call[c].at < 5
StageInv == \A c \in Calls : StageOf(c)

\* A bundle holds the data of the build it is named after.
OwnData == \A k \in Kinds, b \in Builds : file[k][b] \in {Absent, b}

\* What a call has read is of the build its manifest named.
GotInv == \A c \in Calls : \A f \in call[c].got : f[2] = call[c].build

\* The call works from the build it read in the manifest.
Based(c) == call[c].pc \notin Ended \cup {"new", "manifest"} /\ op[c] # "import"

\* A manifest once named b: it is the first build or one that is finished.
Published(b) == b = First \/ \E d \in Writers : b = Data(d) /\ call[d].pc = "done"
PublishedInv ==
  /\ Published(manifest)
  /\ \A c \in Calls : Based(c) => Published(call[c].build)

\* An update that writes has the changes of the build it started from.
HasInv ==
  \A c \in Calls :
    op[c] = "update" /\ call[c].pc \in {"write", "rename", "repoint"} =>
      c \in call[c].has /\ Includes(call[c].build) \subseteq call[c].has

\* Calls that are under way together have met, each the other.
MetInv ==
  /\ \A c, d \in Calls : d \in call[c].met => c \in call[d].met
  /\ \A c, d \in UnderWay : c # d => d \in call[c].met

SerialUpdates == \A c \in Writers : op[c] = "update" /\ call[c].met \cap Writers = {}
AccumulateInv ==
  SerialUpdates => \A c \in Writers :
    /\ call[c].pc = "done" => c \in Includes(manifest)
    /\ Based(c) => call[c].build = manifest

BuildsApart == \A c \in Writers : call[c].met \cap Prunes = {}
\* The bundles that a build in progress has written.
Written(c) ==
  CASE call[c].pc \in {"write", "rename"} -> {WriteOrder[i] : i \in 1..call[c].at}
    [] call[c].pc = "repoint" -> Kinds
    [] OTHER -> {}
WrittenInv ==
  BuildsApart =>
    /\ \A k \in Kinds : file[k][manifest] # Absent
    /\ \A c \in Writers : \A k \in Written(c) : file[k][BuildId(c)] # Absent

\* A prune spares what its manifest names, and as long as no build runs next
\* to it, that is what the manifest still names.
Judged == {"list", "forget", "unlink"}
PruneInv ==
  \A p \in Prunes :
    /\ call[p].pc \in Judged => \A k \in Kinds : <<k, call[p].build>> \in call[p].keep
    /\ call[p].keep \cap call[p].doomed = {}
    /\ Based(p) /\ call[p].met \cap Writers = {} => call[p].build = manifest

Metric == <<"metric", First>>
Listed(p) ==
  CASE call[p].pc = "list" -> {ListOrder[i] : i \in 1..call[p].at}
    [] call[p].pc \in {"forget", "unlink"} -> Dirs
    [] OTHER -> {}
\* A prune that is alone knows what the directories hold.
AloneInv ==
  \A p \in Prunes : call[p].met = {} /\ call[p].pc \in Judged =>
    /\ call[p].keep \subseteq {<<k, call[p].build>> : k \in Kinds} \cup {Metric}
    /\ \A k \in Listed(p) : InDir(k) \subseteq call[p].keep \cup call[p].doomed
    /\ \A f \in call[p].doomed : f[1] \in Dirs /\ f \in InDir(f[1])
    /\ Metric \in call[p].keep <=> compiled # Absent /\ ~call[p].stale
    /\ Metric \in call[p].keep => compiled = call[p].build /\ metric # Absent
    /\ call[p].pc # "unlink" /\ call[p].stale => compiled # Absent
    /\ call[p].pc = "unlink" /\ call[p].stale => compiled = Absent

PrunesAlone == \A p \in Prunes : call[p].met = {}
\* Then whoever reads finds its files, whoever renames its temporary file.
KeptInv ==
  PrunesAlone => \A c \in Calls :
    /\ Based(c) => \A k \in Kinds : file[k][call[c].build] # Absent
    /\ call[c].pc \in {"rename", "metric-rename"} => partial[c] # "none"
    /\ call[c].pc = "failed" => call[c].mixed

IInv ==
  /\ TypeOK /\ StageInv /\ OwnData /\ GotInv /\ PublishedInv /\ HasInv /\ MetInv
  /\ AccumulateInv /\ WrittenInv /\ PruneInv /\ AloneInv /\ KeptInv

-----------------------------------------------------------------------------

LEMMA Numbers ==
  /\ \A c \in Calls : c \in Nat /\ c # 0 /\ Data(c) \in Builds /\ Data(c) - First = c /\ Data(c) # First /\ Data(c) # Absent
  /\ First \in Builds /\ Absent \notin Builds
  /\ \A c, d \in Calls : Data(c) = Data(d) => c = d
BY CallsAssumption DEF Data, First, Absent, Builds

LEMMA InDirIsFiles ==
  ASSUME TypeOK, NEW k \in Dirs
  PROVE  InDir(k) \in SUBSET Files
<1> SUFFICES ASSUME NEW f \in InDir(k) PROVE f \in Files
  OBVIOUS
<1>1. CASE f \in {PartialOf(d) : d \in {d \in Calls : partial[d] = k}}
  <2> PICK d \in Calls : partial[d] = k /\ f = PartialOf(d)
    BY <1>1
  <2> QED BY Numbers DEF PartialOf, Files
<1>2. CASE k \in Kinds /\ f \in {<<k, b>> : b \in {b \in Builds : file[k][b] # Absent}}
  BY <1>2 DEF Files
<1>3. CASE k \notin Kinds /\ f = <<"metric", First>>
  BY <1>3, Numbers DEF Files, Dirs
<1> QED BY <1>1, <1>2, <1>3 DEF InDir

LEMMA InitInv == Init => IInv
<1> SUFFICES ASSUME Init PROVE IInv
  OBVIOUS
<1>0. \A c \in Calls : call[c] = Fresh
  BY DEF Init
<1>1. TypeOK
  <2>1. Fresh \in Progress
    BY DEF Fresh, Progress, Pcs
  <2> QED BY <2>1, Numbers, ScenariosAssumption, KillsAssumption DEF Init, TypeOK
<1>2. StageInv /\ GotInv /\ PublishedInv /\ HasInv /\ MetInv
  BY <1>0 DEF Init, Fresh, StageInv, StageOf, GotInv, PublishedInv, Published, Based, HasInv, MetInv, UnderWay, Ended
<1>3. OwnData
  BY <1>1 DEF Init, OwnData
<1>4. AccumulateInv /\ PruneInv /\ AloneInv /\ KeptInv
  BY <1>0 DEF Fresh, AccumulateInv, PruneInv, AloneInv, KeptInv, Based, Writers, Prunes, Ended, Judged
<1>5. WrittenInv
  <2>1. \A k \in Kinds : file[k][manifest] # Absent
    BY Numbers DEF Init
  <2>2. \A c \in Calls : Written(c) = {}
    BY <1>0 DEF Fresh, Written
  <2> QED BY <2>1, <2>2 DEF WrittenInv, Writers
<1> QED BY <1>1, <1>2, <1>3, <1>4, <1>5 DEF IInv

-----------------------------------------------------------------------------
(* The calls but one stay as they were, except for those it meets.         *)

\* What every step does.
Acts(c) ==
  \/ Begin(c) \/ ReadManifest(c) \/ ReadBundle(c) \/ BeginFile(c) \/ EndFile(c) \/ WriteManifest(c)
  \/ BeginMetric(c) \/ EndMetric(c) \/ RecordCompiled(c) \/ ReadCompiled(c) \/ LoadProfile(c) \/ ReadNames(c)
  \/ JudgeCompiled(c) \/ ListDir(c) \/ ForgetCompiled(c) \/ (\E f \in call[c].doomed : Unlink(c, f)) \/ EndPrune(c)
  \/ Kill(c)

LEMMA StepActs == Next => UNCHANGED op /\ \E c \in Calls : Acts(c)
BY DEF Next, Acts, Reading, Building, Compiling, Serving, Pruning

-----------------------------------------------------------------------------
(* What a step does to the calls.                                          *)

SameReads(q, p) == q.build = p.build /\ q.got = p.got /\ q.has = p.has
SamePrune(q, p) == q.stale = p.stale /\ q.keep = p.keep /\ q.doomed = p.doomed
SameMeeting(q, p) == q.met = p.met /\ q.mixed = p.mixed
Others(c) == \A d \in Calls \ {c} : call'[d] = call[d]

\* Only c moves, to pc.
Moves(c, pc) ==
  /\ call' \in [Calls -> Progress] /\ Others(c)
  /\ call'[c].pc = pc /\ call'[c].met = call[c].met

LEMMA SetIs ==
  ASSUME TypeOK, NEW c \in Calls, NEW r \in Progress, Set(c, r)
  PROVE  call' \in [Calls -> Progress] /\ call'[c] = r /\ Others(c)
BY DEF Set, Others, TypeOK

LEMMA CallIs == ASSUME TypeOK, NEW c \in Calls PROVE call[c] \in Progress
BY DEF TypeOK

LEMMA GotoIs ==
  ASSUME TypeOK, NEW c \in Calls, NEW pc \in Pcs, Goto(c, pc)
  PROVE  /\ Moves(c, pc) /\ call'[c].at = call[c].at
         /\ SameReads(call'[c], call[c]) /\ SamePrune(call'[c], call[c]) /\ call'[c].mixed = call[c].mixed
<1> DEFINE q == [call[c] EXCEPT !.pc = pc]
<1>1. /\ q \in Progress /\ q.pc = pc /\ q.at = call[c].at
      /\ SameReads(q, call[c]) /\ SamePrune(q, call[c]) /\ SameMeeting(q, call[c])
  BY CallIs DEF Progress, SameReads, SamePrune, SameMeeting
<1> QED BY <1>1, SetIs DEF Goto, Moves, SameMeeting

LEMMA FailIs ==
  ASSUME TypeOK, NEW c \in Calls, Fail(c)
  PROVE  /\ Moves(c, "failed") /\ UNCHANGED <<manifest, file, compiled, metric, partial, kills>>
         /\ SameReads(call'[c], call[c]) /\ SamePrune(call'[c], call[c]) /\ call'[c].mixed = call[c].mixed
BY GotoIs DEF Fail, disk, Pcs

LEMMA BeginIs ==
  ASSUME TypeOK, StageInv, NEW c \in Calls, Begin(c)
  PROVE  /\ call[c] = Fresh /\ UNCHANGED <<manifest, file, compiled, metric, partial, kills>>
         /\ call' \in [Calls -> Progress]
         /\ call'[c].pc = IF op[c] = "import" THEN "write" ELSE "manifest"
         /\ call'[c].at = 0 /\ call'[c].met = UnderWay /\ call'[c].mixed = FALSE
         /\ SameReads(call'[c], Fresh) /\ SamePrune(call'[c], Fresh)
         /\ \A d \in Calls \ {c} :
              /\ call'[d].pc = call[d].pc /\ call'[d].at = call[d].at /\ call'[d].mixed = call[d].mixed
              /\ SameReads(call'[d], call[d]) /\ SamePrune(call'[d], call[d])
              /\ call'[d].met = IF d \in UnderWay THEN call[d].met \cup {c} ELSE call[d].met
              /\ d \notin UnderWay => call'[d] = call[d]
<1> DEFINE q == [Fresh EXCEPT !.pc = IF op[c] = "import" THEN "write" ELSE "manifest", !.met = UnderWay]
<1>1. Fresh \in Progress /\ Fresh.at = 0 /\ ~Fresh.mixed
  BY Numbers DEF Fresh, Progress, Pcs
<1>2. (IF op[c] = "import" THEN "write" ELSE "manifest") \in Pcs
  BY DEF Pcs
<1>3. UnderWay \in SUBSET Calls
  BY DEF UnderWay
<1> HIDE DEF Fresh
<1>4. /\ q \in Progress /\ q.pc = IF op[c] = "import" THEN "write" ELSE "manifest"
      /\ q.at = Fresh.at /\ q.met = UnderWay /\ q.mixed = Fresh.mixed
      /\ SameReads(q, Fresh) /\ SamePrune(q, Fresh)
  BY <1>1, <1>2, <1>3 DEF Progress, SameReads, SamePrune
<1>5. call'[c] = q /\ call[c] = Fresh
  BY DEF Begin, StageInv, StageOf, At
<1>6. ASSUME NEW d \in Calls \ {c}
      PROVE  /\ call'[d] \in Progress
             /\ call'[d].pc = call[d].pc /\ call'[d].at = call[d].at /\ call'[d].mixed = call[d].mixed
             /\ SameReads(call'[d], call[d]) /\ SamePrune(call'[d], call[d])
             /\ call'[d].met = IF d \in UnderWay THEN call[d].met \cup {c} ELSE call[d].met
             /\ d \notin UnderWay => call'[d] = call[d]
  <2>1. CASE d \in UnderWay
    <3>1. call'[d] = [call[d] EXCEPT !.met = call[d].met \cup {c}]
      BY <2>1 DEF Begin
    <3>2. call[d] \in Progress /\ call[d].met \cup {c} \in SUBSET Calls
      BY CallIs DEF Progress
    <3> QED BY <2>1, <3>1, <3>2 DEF Progress, SameReads, SamePrune
  <2>2. CASE d \notin UnderWay
    <3>1. call'[d] = call[d]
      BY <2>2 DEF Begin
    <3> QED BY <2>2, <3>1, CallIs DEF SameReads, SamePrune
  <2> QED BY <2>1, <2>2
<1>7. call' \in [Calls -> Progress]
  <2>1. \A d \in Calls : call'[d] \in Progress
    BY <1>4, <1>5, <1>6
  <2> QED BY <2>1 DEF Begin
<1>8. UNCHANGED <<manifest, file, compiled, metric, partial, kills>>
  BY DEF Begin, disk
<1> HIDE DEF q
<1> QED BY <1>1, <1>4, <1>5, <1>6, <1>7, <1>8

LEMMA ReadManifestIs ==
  ASSUME TypeOK, NEW c \in Calls, ReadManifest(c)
  PROVE  /\ Moves(c, IF op[c] = "prune" THEN "compiled" ELSE "read")
         /\ call'[c].at = call[c].at /\ call'[c].build = manifest
         /\ call'[c].got = call[c].got /\ call'[c].has = call[c].has
         /\ SamePrune(call'[c], call[c]) /\ call'[c].mixed = call[c].mixed
         /\ UNCHANGED <<manifest, file, compiled, metric, partial, kills>>
<1> DEFINE pc == IF op[c] = "prune" THEN "compiled" ELSE "read"
           q == [call[c] EXCEPT !.pc = pc, !.build = manifest]
<1>1. pc \in Pcs /\ manifest \in Builds \cup {Absent} /\ call[c] \in Progress
  BY CallIs DEF Pcs, TypeOK
<1> HIDE DEF pc
<1>2. /\ q \in Progress /\ q.pc = pc /\ q.at = call[c].at /\ q.build = manifest
      /\ q.got = call[c].got /\ q.has = call[c].has
      /\ SamePrune(q, call[c]) /\ SameMeeting(q, call[c])
  BY <1>1 DEF Progress, SamePrune, SameMeeting
<1>3. Set(c, q)
  BY DEF ReadManifest, pc
<1> HIDE DEF q
<1> QED BY <1>2, <1>3, SetIs DEF ReadManifest, Moves, SameMeeting, disk, pc

\* The bundle that a call reads next, and whether it is the last one.
Next1(c) == Reads(op[c])[call[c].at + 1]
LastRead(c) == call[c].at + 1 = Len(Reads(op[c]))

\* A call that reads has a manifest's build and is an update, a compilation or
\* a load; only an update reads the source, and reads it last.
LEMMA ReadingIs ==
  ASSUME TypeOK, StageInv, PublishedInv, NEW c \in Calls, call[c].pc = "read"
  PROVE  /\ op[c] \in {"update", "compile", "load"} /\ Based(c) /\ call[c].build \in Builds
         /\ Next1(c) \in Kinds /\ AfterReads(op[c]) \in {"write", "metric", "cached"}
         /\ op[c] = "update" => AfterReads(op[c]) = "write" /\ (LastRead(c) <=> Next1(c) = "source")
         /\ op[c] # "update" => AfterReads(op[c]) # "write" /\ Next1(c) # "source"
         /\ AfterReads(op[c]) \in Stages[op[c]]
<1>1. op[c] \in Operations
  BY DEF TypeOK
<1>2. op[c] \in {"update", "compile", "load"}
  <2>1. "read" \in Stages[op[c]]
    BY DEF StageInv, StageOf, Ended
  <2> QED BY <1>1, <2>1 DEF Operations, Stages
<1>3. Based(c)
  BY <1>2 DEF Based, Ended
<1>4. call[c].build \in Builds
  BY <1>3, Numbers DEF PublishedInv, Published, Writers
<1>5. call[c].at \in Nat /\ call[c].at < Len(Reads(op[c]))
  BY CallIs DEF StageInv, StageOf, Progress
<1>6. CASE op[c] = "update"
  <2>1. Reads(op[c]) = <<"topology", "acceleration", "source">>
    BY <1>6 DEF Reads
  <2>2. call[c].at \in {0, 1, 2}
    BY <1>5, <2>1
  <2>3. Next1(c) = "source" <=> call[c].at = 2
    BY <2>1, <2>2 DEF Next1
  <2>4. Next1(c) \in Kinds
    BY <2>1, <2>2 DEF Next1, Kinds
  <2>5. LastRead(c) <=> call[c].at = 2
    BY <2>1, <2>2 DEF LastRead
  <2> QED BY <1>2, <1>3, <1>4, <1>6, <2>3, <2>4, <2>5 DEF AfterReads, Stages
<1>7. CASE op[c] # "update"
  <2>1. Reads(op[c]) = <<"topology", "acceleration">>
    BY <1>2, <1>7 DEF Reads
  <2>2. call[c].at \in {0, 1}
    BY <1>5, <2>1
  <2>3. Next1(c) \in {"topology", "acceleration"}
    BY <2>1, <2>2 DEF Next1
  <2> QED BY <1>2, <1>3, <1>4, <1>7, <2>3 DEF AfterReads, Stages, Kinds
<1> QED BY <1>6, <1>7

LEMMA IncludesIs == ASSUME TypeOK, NEW b \in Builds PROVE Includes(b) \in SUBSET Calls
<1>1. CASE b = First
  BY <1>1 DEF Includes
<1>2. CASE b # First
  <2>1. b - First \in Calls
    BY <1>2, Numbers DEF Builds
  <2> QED BY <1>2, <2>1, CallIs DEF Includes, Progress
<1> QED BY <1>1, <1>2

\* What it finds there.
Found(c) == file[Next1(c)][call[c].build]

LEMMA ReadBundleIs ==
  ASSUME TypeOK, StageInv, PublishedInv, NEW c \in Calls, ReadBundle(c), Found(c) # Absent
  PROVE  /\ call[c].pc = "read" /\ Found(c) \in Builds
         /\ Moves(c, IF LastRead(c) THEN AfterReads(op[c]) ELSE "read")
         /\ call'[c].at = IF LastRead(c) THEN 0 ELSE call[c].at + 1
         /\ call'[c].build = call[c].build /\ call'[c].got = call[c].got \cup {<<Next1(c), Found(c)>>}
         /\ call'[c].has = IF Next1(c) = "source" THEN Includes(Found(c)) \cup {c} ELSE call[c].has
         /\ SamePrune(call'[c], call[c]) /\ call'[c].mixed = call[c].mixed
         /\ UNCHANGED <<manifest, file, compiled, metric, partial, kills>>
<1> DEFINE at == IF LastRead(c) THEN 0 ELSE call[c].at + 1
           pc == IF LastRead(c) THEN AfterReads(op[c]) ELSE call[c].pc
           got == call[c].got \cup {<<Next1(c), Found(c)>>}
           has == IF Next1(c) = "source" THEN Includes(Found(c)) \cup {c} ELSE call[c].has
           q == [call[c] EXCEPT !.at = at, !.pc = pc, !.got = got, !.has = has]
<1>1. call[c].pc = "read"
  BY DEF ReadBundle, At
<1>2. call[c] \in Progress /\ call[c].at \in Nat /\ call[c].got \in SUBSET (Kinds \X Builds) /\ call[c].has \in SUBSET Calls
  BY CallIs DEF Progress
<1>3. Found(c) \in Builds
  BY <1>1, ReadingIs DEF TypeOK, Found
<1>4. at \in Nat /\ got \in SUBSET (Kinds \X Builds) /\ has \in SUBSET Calls
  BY <1>1, <1>2, <1>3, ReadingIs, IncludesIs
<1>5. pc \in Pcs
  BY <1>1, ReadingIs DEF Pcs
<1>6. Set(c, q) /\ UNCHANGED <<disk, kills>>
  BY DEF ReadBundle, LastRead, Next1, Found
<1> HIDE DEF at, pc, got, has
<1>7. /\ q \in Progress /\ q.pc = pc /\ q.at = at /\ q.build = call[c].build /\ q.got = got /\ q.has = has
      /\ SamePrune(q, call[c]) /\ SameMeeting(q, call[c])
  BY <1>2, <1>4, <1>5 DEF Progress, SamePrune, SameMeeting
<1> HIDE DEF q
<1>8. Moves(c, pc) /\ call'[c] = q
  BY <1>6, <1>7, SetIs DEF Moves, SameMeeting
<1>9. pc = IF LastRead(c) THEN AfterReads(op[c]) ELSE "read"
  BY <1>1 DEF pc
<1>10. UNCHANGED <<manifest, file, compiled, metric, partial, kills>>
  BY <1>6 DEF disk
<1> QED BY <1>1, <1>3, <1>7, <1>8, <1>9, <1>10 DEF at, got, has, SameMeeting

LEMMA EndFileIs ==
  ASSUME TypeOK, StageInv, NEW c \in Calls, EndFile(c), partial[c] # "none"
  PROVE  LET k == partial[c]
             last == call[c].at + 1 = 4
         IN  /\ k = WriteOrder[call[c].at + 1] /\ k \in Kinds
             /\ Moves(c, IF last THEN "repoint" ELSE "write")
             /\ call'[c].at = IF last THEN 0 ELSE call[c].at + 1
             /\ SameReads(call'[c], call[c]) /\ SamePrune(call'[c], call[c]) /\ call'[c].mixed = call[c].mixed
             /\ file' = [file EXCEPT ![k][BuildId(c)] = Data(c)]
             /\ partial' = [partial EXCEPT ![c] = "none"]
             /\ UNCHANGED <<manifest, compiled, metric, kills>>
<1> DEFINE last == call[c].at + 1 = Len(WriteOrder)
           at == IF last THEN 0 ELSE call[c].at + 1
           pc == IF last THEN "repoint" ELSE "write"
           q == [call[c] EXCEPT !.at = at, !.pc = pc]
<1>0. Len(WriteOrder) = 4 /\ call[c].pc = "rename"
  BY DEF WriteOrder, EndFile, At
<1>1. call[c] \in Progress /\ call[c].at \in Nat
  BY CallIs DEF Progress
<1>2. at \in Nat /\ pc \in Pcs
  BY <1>1 DEF Pcs
<1>3. /\ Set(c, q) /\ file' = [file EXCEPT ![partial[c]][BuildId(c)] = Data(c)]
      /\ partial' = [partial EXCEPT ![c] = "none"] /\ UNCHANGED <<manifest, compiled, metric, kills>>
  BY DEF EndFile
<1>4. partial[c] = WriteOrder[call[c].at + 1] /\ call[c].at < 4
  BY <1>0 DEF StageInv, StageOf
<1>5. partial[c] \in Kinds
  BY <1>1, <1>4 DEF WriteOrder, Kinds
<1> HIDE DEF at, pc
<1>6. /\ q \in Progress /\ q.pc = pc /\ q.at = at
      /\ SameReads(q, call[c]) /\ SamePrune(q, call[c]) /\ SameMeeting(q, call[c])
  BY <1>1, <1>2 DEF Progress, SameReads, SamePrune, SameMeeting
<1> HIDE DEF q
<1>7. Moves(c, pc) /\ call'[c] = q
  BY <1>3, <1>6, SetIs DEF Moves, SameMeeting
<1> QED BY <1>0, <1>3, <1>4, <1>5, <1>6, <1>7 DEF at, pc, SameMeeting

LEMMA ReadCompiledIs ==
  ASSUME TypeOK, NEW c \in Calls, ReadCompiled(c)
  PROVE  /\ Moves(c, "profile") /\ call'[c].at = call[c].at
         /\ SameReads(call'[c], call[c]) /\ SamePrune(call'[c], call[c]) /\ call'[c].mixed = call[c].mixed
         /\ UNCHANGED <<manifest, file, compiled, metric, partial, kills>>
<1> DEFINE hit == compiled = call[c].build
           q == [call[c] EXCEPT !.pc = "profile", !.hit = hit]
<1>1. "profile" \in Pcs /\ hit \in BOOLEAN /\ call[c] \in Progress
  BY CallIs DEF Pcs
<1>2. Set(c, q) /\ UNCHANGED <<disk, kills>>
  BY DEF ReadCompiled
<1> HIDE DEF hit
<1>3. /\ q \in Progress /\ q.pc = "profile" /\ q.at = call[c].at
      /\ SameReads(q, call[c]) /\ SamePrune(q, call[c]) /\ SameMeeting(q, call[c])
  BY <1>1 DEF Progress, SameReads, SamePrune, SameMeeting
<1> HIDE DEF q
<1> QED BY <1>2, <1>3, SetIs DEF Moves, SameMeeting, disk

LEMMA LoadProfileIs ==
  ASSUME TypeOK, NEW c \in Calls, LoadProfile(c)
  PROVE  /\ \E pc \in {"metric", "serving", "failed"} : Moves(c, pc)
         /\ call'[c].at = call[c].at /\ SameReads(call'[c], call[c]) /\ SamePrune(call'[c], call[c])
         /\ call'[c].pc = "failed" => call'[c].mixed
         /\ UNCHANGED <<manifest, file, compiled, metric, partial, kills>>
<1>1. UNCHANGED <<manifest, file, compiled, metric, partial, kills>>
  BY DEF LoadProfile, disk
<1>2. CASE ~call[c].hit \/ metric = Absent
  <2>1. Goto(c, "metric")
    BY <1>2 DEF LoadProfile, Set, Goto
  <2> QED BY <1>1, <2>1, GotoIs DEF Pcs, Moves
<1>3. CASE call[c].hit /\ metric # Absent /\ metric = call[c].build
  <2>1. Goto(c, "serving")
    BY <1>3 DEF LoadProfile, Set, Goto
  <2> QED BY <1>1, <2>1, GotoIs DEF Pcs, Moves
<1>4. CASE call[c].hit /\ metric # Absent /\ metric # call[c].build
  <2> DEFINE q == [call[c] EXCEPT !.pc = "failed", !.mixed = TRUE]
  <2>1. Set(c, q)
    BY <1>4 DEF LoadProfile
  <2>2. call[c] \in Progress /\ "failed" \in Pcs
    BY CallIs DEF Pcs
  <2>3. /\ q \in Progress /\ q.pc = "failed" /\ q.at = call[c].at /\ q.mixed = TRUE
        /\ SameReads(q, call[c]) /\ SamePrune(q, call[c]) /\ q.met = call[c].met
    BY <2>2 DEF Progress, SameReads, SamePrune
  <2> HIDE DEF q
  <2> QED BY <1>1, <2>1, <2>3, SetIs DEF Moves
<1> QED BY <1>2, <1>3, <1>4

LEMMA ReadNamesIs ==
  ASSUME TypeOK, StageInv, PublishedInv, NEW c \in Calls, ReadNames(c),
         NEW by, by = file["names"][call[c].build], by # Absent
  PROVE  /\ Based(c) /\ call[c].build \in Builds /\ by \in Builds /\ op[c] = "load"
         /\ Moves(c, "done") /\ call'[c].at = call[c].at /\ call'[c].build = call[c].build
         /\ call'[c].got = call[c].got \cup {<<"names", by>>} /\ call'[c].has = call[c].has
         /\ SamePrune(call'[c], call[c]) /\ call'[c].mixed = call[c].mixed
         /\ UNCHANGED <<manifest, file, compiled, metric, partial, kills>>
<1> DEFINE got == call[c].got \cup {<<"names", by>>}
           q == [call[c] EXCEPT !.pc = "done", !.got = got]
<1>1. op[c] = "load" /\ Based(c)
  <2>1. op[c] \in Operations /\ call[c].pc = "serving" /\ call[c].pc \in Stages[op[c]]
    BY DEF TypeOK, ReadNames, At, StageInv, StageOf, Ended
  <2> QED BY <2>1 DEF Operations, Stages, Based, Ended
<1>2. call[c].build \in Builds
  BY <1>1, Numbers DEF PublishedInv, Published, Writers
<1>3. call[c] \in Progress /\ call[c].got \in SUBSET (Kinds \X Builds) /\ "done" \in Pcs
  BY CallIs DEF Progress, Pcs
<1>4. by \in Builds
  BY <1>2 DEF TypeOK, Kinds
<1>5. got \in SUBSET (Kinds \X Builds)
  BY <1>3, <1>4 DEF Kinds
<1>6. Set(c, q) /\ UNCHANGED <<disk, kills>>
  BY DEF ReadNames
<1> HIDE DEF got
<1>7. /\ q \in Progress /\ q.pc = "done" /\ q.at = call[c].at /\ q.build = call[c].build /\ q.got = got
      /\ q.has = call[c].has /\ SamePrune(q, call[c]) /\ SameMeeting(q, call[c])
  BY <1>3, <1>5 DEF Progress, SamePrune, SameMeeting
<1> HIDE DEF q
<1>8. Moves(c, "done") /\ call'[c] = q
  BY <1>6, <1>7, SetIs DEF Moves, SameMeeting
<1>9. UNCHANGED <<manifest, file, compiled, metric, partial, kills>>
  BY <1>6 DEF disk
<1> QED BY <1>1, <1>2, <1>4, <1>7, <1>8, <1>9 DEF got, SameMeeting

LEMMA JudgeIs ==
  ASSUME TypeOK, NEW c \in Calls, JudgeCompiled(c), call[c].build \in Builds,
         NEW stale, stale = (compiled # Absent /\ (compiled # call[c].build \/ metric = Absent))
  PROVE  /\ Moves(c, "list") /\ call'[c].at = call[c].at /\ SameReads(call'[c], call[c])
         /\ call'[c].stale = stale /\ call'[c].doomed = call[c].doomed /\ call'[c].mixed = call[c].mixed
         /\ call'[c].keep = {<<k, call[c].build>> : k \in Kinds}
                            \cup (IF compiled = Absent \/ stale THEN {} ELSE {Metric})
         /\ UNCHANGED <<manifest, file, compiled, metric, partial, kills>>
<1> DEFINE keep == {<<k, call[c].build>> : k \in Kinds} \cup (IF compiled = Absent \/ stale THEN {} ELSE {Metric})
           q == [call[c] EXCEPT !.pc = "list", !.stale = stale, !.keep = keep]
<1>1. call[c] \in Progress /\ stale \in BOOLEAN /\ "list" \in Pcs
  BY CallIs DEF Pcs
<1>2. keep \in SUBSET Files
  BY Numbers DEF Files, Metric, Dirs
<1>3. Set(c, q) /\ UNCHANGED <<disk, kills>>
  BY DEF JudgeCompiled, Metric
<1> HIDE DEF keep
<1>4. /\ q \in Progress /\ q.pc = "list" /\ q.at = call[c].at /\ q.stale = stale /\ q.keep = keep
      /\ q.doomed = call[c].doomed /\ SameReads(q, call[c]) /\ SameMeeting(q, call[c])
  BY <1>1, <1>2 DEF Progress, SameReads, SameMeeting
<1> HIDE DEF q
<1>5. Moves(c, "list") /\ call'[c] = q
  BY <1>3, <1>4, SetIs DEF Moves, SameMeeting
<1>6. UNCHANGED <<manifest, file, compiled, metric, partial, kills>>
  BY <1>3 DEF disk
<1> QED BY <1>4, <1>5, <1>6 DEF keep, SameMeeting

LEMMA ListIs ==
  ASSUME TypeOK, StageInv, NEW c \in Calls, ListDir(c)
  PROVE  LET k == ListOrder[call[c].at + 1]
             last == call[c].at + 1 = 5
         IN  /\ k \in Dirs /\ Moves(c, IF last THEN "forget" ELSE "list")
             /\ call'[c].at = IF last THEN 0 ELSE call[c].at + 1
             /\ SameReads(call'[c], call[c]) /\ call'[c].mixed = call[c].mixed
             /\ call'[c].stale = call[c].stale /\ call'[c].keep = call[c].keep
             /\ call'[c].doomed = call[c].doomed \cup (InDir(k) \ call[c].keep)
             /\ UNCHANGED <<manifest, file, compiled, metric, partial, kills>>
<1> DEFINE k == ListOrder[call[c].at + 1]
           last == call[c].at + 1 = Len(ListOrder)
           at == IF last THEN 0 ELSE call[c].at + 1
           pc == IF last THEN "forget" ELSE call[c].pc
           doomed == call[c].doomed \cup (InDir(k) \ call[c].keep)
           q == [call[c] EXCEPT !.at = at, !.pc = pc, !.doomed = doomed]
<1>0. Len(ListOrder) = 5 /\ call[c].pc = "list"
  BY DEF ListOrder, ListDir, At
<1>1. call[c] \in Progress /\ call[c].at \in Nat /\ call[c].doomed \in SUBSET Files
  BY CallIs DEF Progress
<1>2. k \in Dirs
  <2>1. call[c].at \in {0, 1, 2, 3, 4}
    BY <1>0, <1>1 DEF StageInv, StageOf
  <2> QED BY <2>1 DEF ListOrder, Dirs, Kinds
<1>3. doomed \in SUBSET Files
  BY <1>1, <1>2, InDirIsFiles
<1>4. at \in Nat /\ pc \in Pcs
  BY <1>0, <1>1 DEF Pcs
<1>5. Set(c, q) /\ UNCHANGED <<disk, kills>>
  BY DEF ListDir
<1> HIDE DEF at, pc, doomed
<1>6. /\ q \in Progress /\ q.pc = pc /\ q.at = at /\ q.doomed = doomed /\ q.stale = call[c].stale
      /\ q.keep = call[c].keep /\ SameReads(q, call[c]) /\ SameMeeting(q, call[c])
  BY <1>1, <1>3, <1>4 DEF Progress, SameReads, SameMeeting
<1> HIDE DEF q
<1>7. Moves(c, pc) /\ call'[c] = q
  BY <1>5, <1>6, SetIs DEF Moves, SameMeeting
<1>8. UNCHANGED <<manifest, file, compiled, metric, partial, kills>>
  BY <1>5 DEF disk
<1> QED BY <1>0, <1>2, <1>6, <1>7, <1>8 DEF at, pc, doomed, SameMeeting

LEMMA UnlinkIs ==
  ASSUME TypeOK, NEW c \in Calls, NEW f \in call[c].doomed, Unlink(c, f), f \in InDir(f[1])
  PROVE  /\ Moves(c, "unlink") /\ call'[c].at = call[c].at /\ SameReads(call'[c], call[c])
         /\ call'[c].mixed = call[c].mixed /\ call'[c].stale = call[c].stale /\ call'[c].keep = call[c].keep
         /\ call'[c].doomed = call[c].doomed \ {f}
         /\ partial' = [d \in Calls |-> IF f = PartialOf(d) THEN "none" ELSE partial[d]]
         /\ metric' = IF f = Metric THEN Absent ELSE metric
         /\ file' = [k \in Kinds |-> [b \in Builds |-> IF f = <<k, b>> THEN Absent ELSE file[k][b]]]
         /\ UNCHANGED <<manifest, compiled, kills>>
<1> DEFINE doomed == call[c].doomed \ {f}
           q == [call[c] EXCEPT !.doomed = doomed]
<1>1. call[c] \in Progress /\ doomed \in SUBSET Files /\ call[c].pc = "unlink"
  BY CallIs DEF Progress, Unlink, At
<1>2. Set(c, q)
  BY DEF Unlink
<1> HIDE DEF doomed
<1>3. /\ q \in Progress /\ q.pc = "unlink" /\ q.at = call[c].at /\ q.doomed = doomed /\ q.stale = call[c].stale
      /\ q.keep = call[c].keep /\ SameReads(q, call[c]) /\ SameMeeting(q, call[c])
  BY <1>1 DEF Progress, SameReads, SameMeeting
<1> HIDE DEF q
<1>4. Moves(c, "unlink") /\ call'[c] = q
  BY <1>2, <1>3, SetIs DEF Moves, SameMeeting
<1>5. /\ partial' = [d \in Calls |-> IF f = PartialOf(d) THEN "none" ELSE partial[d]]
      /\ metric' = IF f = Metric THEN Absent ELSE metric
      /\ file' = [k \in Kinds |-> [b \in Builds |-> IF f = <<k, b>> THEN Absent ELSE file[k][b]]]
      /\ UNCHANGED <<manifest, compiled, kills>>
  BY DEF Unlink, Metric
<1> QED BY <1>3, <1>4, <1>5 DEF doomed, SameMeeting

\* A file is not a temporary one.
LEMMA Kinds2 ==
  /\ \A d \in Calls : \A k, b : PartialOf(d) # <<k, b>>
  /\ \A k \in Kinds : \A b : <<k, b>> # Metric
  /\ \A k \in Kinds : k # "none" /\ k # "metric"
<1>1. ASSUME NEW d \in Calls, NEW k, NEW b PROVE PartialOf(d) # <<k, b>>
  <2>1. Len(PartialOf(d)) = 3 /\ Len(<<k, b>>) = 2
    BY DEF PartialOf
  <2> QED BY <2>1
<1> QED BY <1>1 DEF Kinds, Metric

\* Where a call stands tells what it is.
LEMMA StageIs ==
  ASSUME TypeOK, StageInv, NEW c \in Calls
  PROVE  /\ call[c].pc \in {"compiled", "list", "forget", "unlink"} => op[c] = "prune"
         /\ call[c].pc \in {"write", "rename", "repoint"} => op[c] \in {"import", "update"}
         /\ call[c].pc \in {"metric", "metric-rename", "record"} => op[c] \in {"compile", "load"}
         /\ call[c].pc \in {"cached", "profile", "serving"} => op[c] = "load"
         /\ call[c].pc = "manifest" => op[c] # "import"
         /\ op[c] \in Operations
<1>1. op[c] \in Operations
  BY DEF TypeOK
<1>2. call[c].pc \in Stages[op[c]] \cup Ended \cup {"new"}
  BY DEF StageInv, StageOf
<1> QED BY <1>1, <1>2 DEF Operations, Stages, Ended

-----------------------------------------------------------------------------
(* Types and stages.                                                       *)

LEMMA BasedBuild ==
  ASSUME TypeOK, PublishedInv, NEW c \in Calls, Based(c)
  PROVE  call[c].build \in Builds
BY Numbers DEF PublishedInv, Published, Writers

LEMMA TypeStep ==
  ASSUME TypeOK, StageInv, PublishedInv, NEW c \in Calls, Acts(c), UNCHANGED op
  PROVE  TypeOK'
<1>1. CASE Begin(c)
  BY <1>1, BeginIs DEF TypeOK
<1>2. CASE ReadManifest(c)
  BY <1>2, ReadManifestIs DEF TypeOK, Moves
<1>3. CASE ReadBundle(c)
  <2>1. CASE Found(c) = Absent
    <3>1. Fail(c)
      BY <1>3, <2>1 DEF ReadBundle, Found, Next1
    <3> QED BY <3>1, FailIs DEF TypeOK, Moves
  <2>2. CASE Found(c) # Absent
    <3>1. call' \in [Calls -> Progress] /\ UNCHANGED <<manifest, file, compiled, metric, partial, kills>>
      BY <1>3, <2>2, ReadBundleIs DEF Moves
    <3> QED BY <3>1 DEF TypeOK
  <2> QED BY <2>1, <2>2
<1>4. CASE BeginFile(c)
  <2>1. Moves(c, "rename") /\ UNCHANGED <<manifest, file, compiled, metric, kills>>
    BY <1>4, GotoIs DEF BeginFile, Pcs
  <2>2. WriteOrder[call[c].at + 1] \in Dirs
    <3>1. call[c].at \in {0, 1, 2, 3}
      BY <1>4, CallIs DEF BeginFile, At, StageInv, StageOf, Progress
    <3> QED BY <3>1 DEF WriteOrder, Dirs, Kinds
  <2>3. partial' \in [Calls -> Dirs \cup {"none"}]
    BY <1>4, <2>2 DEF BeginFile, TypeOK
  <2> QED BY <2>1, <2>3 DEF TypeOK, Moves
<1>5. CASE EndFile(c)
  <2>1. CASE partial[c] = "none"
    <3>1. Fail(c)
      BY <1>5, <2>1 DEF EndFile
    <3> QED BY <3>1, FailIs DEF TypeOK, Moves
  <2>2. CASE partial[c] # "none"
    <3> DEFINE k == partial[c]
    <3>1. /\ k \in Kinds /\ file' = [file EXCEPT ![k][BuildId(c)] = Data(c)]
          /\ partial' = [partial EXCEPT ![c] = "none"] /\ call' \in [Calls -> Progress]
          /\ UNCHANGED <<manifest, compiled, metric, kills>>
      BY <1>5, <2>2, EndFileIs DEF Moves
    <3>2. file' \in [Kinds -> [Builds -> Builds \cup {Absent}]]
      BY <3>1, Numbers DEF TypeOK, BuildId
    <3>3. partial' \in [Calls -> Dirs \cup {"none"}]
      BY <3>1 DEF TypeOK
    <3> QED BY <3>1, <3>2, <3>3 DEF TypeOK
  <2> QED BY <2>1, <2>2
<1>6. CASE WriteManifest(c)
  BY <1>6, GotoIs, Numbers DEF WriteManifest, TypeOK, Pcs, Moves, BuildId
<1>7. CASE BeginMetric(c)
  <2>1. partial' \in [Calls -> Dirs \cup {"none"}]
    BY <1>7 DEF BeginMetric, TypeOK, Dirs
  <2> QED BY <1>7, <2>1, GotoIs DEF BeginMetric, TypeOK, Pcs, Moves
<1>8. CASE EndMetric(c)
  <2>1. CASE partial[c] = "none"
    <3>1. Fail(c)
      BY <1>8, <2>1 DEF EndMetric
    <3> QED BY <3>1, FailIs DEF TypeOK, Moves
  <2>2. CASE partial[c] # "none"
    <3>1. /\ metric' = call[c].build /\ partial' = [partial EXCEPT ![c] = "none"]
          /\ Goto(c, "record") /\ UNCHANGED <<manifest, file, compiled, kills>>
      BY <1>8, <2>2 DEF EndMetric
    <3>2. partial' \in [Calls -> Dirs \cup {"none"}]
      BY <3>1 DEF TypeOK
    <3>3. call[c].build \in Builds \cup {Absent}
      BY CallIs DEF Progress
    <3> QED BY <3>1, <3>2, <3>3, GotoIs DEF TypeOK, Pcs, Moves
  <2> QED BY <2>1, <2>2
<1>9. CASE RecordCompiled(c)
  <2>1. call[c].build \in Builds \cup {Absent}
    BY CallIs DEF Progress
  <2>2. (IF op[c] = "compile" THEN "done" ELSE "serving") \in Pcs
    BY DEF Pcs
  <2> QED BY <1>9, <2>1, <2>2, GotoIs DEF RecordCompiled, TypeOK, Moves
<1>10. CASE ReadCompiled(c)
  BY <1>10, ReadCompiledIs DEF TypeOK, Moves
<1>11. CASE LoadProfile(c)
  BY <1>11, LoadProfileIs DEF TypeOK, Moves
<1>12. CASE ReadNames(c)
  <2>1. CASE file["names"][call[c].build] = Absent
    <3>1. Fail(c)
      BY <1>12, <2>1 DEF ReadNames
    <3> QED BY <3>1, FailIs DEF TypeOK, Moves
  <2>2. CASE file["names"][call[c].build] # Absent
    BY <1>12, <2>2, ReadNamesIs DEF TypeOK, Moves
  <2> QED BY <2>1, <2>2
<1>13. CASE JudgeCompiled(c)
  <2>1. call[c].build \in Builds
    BY <1>13, StageIs, BasedBuild DEF JudgeCompiled, At, Based, Ended
  <2> QED BY <1>13, <2>1, JudgeIs DEF TypeOK, Moves
<1>14. CASE ListDir(c)
  BY <1>14, ListIs DEF TypeOK, Moves
<1>15. CASE ForgetCompiled(c)
  <2>1. CASE call[c].stale /\ compiled = Absent
    <3>1. Fail(c)
      BY <1>15, <2>1 DEF ForgetCompiled
    <3> QED BY <3>1, FailIs DEF TypeOK, Moves
  <2>2. CASE ~(call[c].stale /\ compiled = Absent)
    BY <1>15, <2>2, GotoIs DEF ForgetCompiled, TypeOK, Pcs, Moves
  <2> QED BY <2>1, <2>2
<1>16. ASSUME NEW f \in call[c].doomed, Unlink(c, f)
       PROVE  TypeOK'
  <2>1. CASE f \notin InDir(f[1])
    <3>1. Fail(c)
      BY <1>16, <2>1 DEF Unlink
    <3> QED BY <3>1, FailIs DEF TypeOK, Moves
  <2>2. CASE f \in InDir(f[1])
    <3>1. /\ partial' = [d \in Calls |-> IF f = PartialOf(d) THEN "none" ELSE partial[d]]
          /\ metric' = IF f = Metric THEN Absent ELSE metric
          /\ file' = [k \in Kinds |-> [b \in Builds |-> IF f = <<k, b>> THEN Absent ELSE file[k][b]]]
          /\ UNCHANGED <<manifest, compiled, kills>> /\ call' \in [Calls -> Progress]
      BY <1>16, <2>2, UnlinkIs DEF Moves
    <3>2. partial' \in [Calls -> Dirs \cup {"none"}]
      BY <3>1 DEF TypeOK
    <3>3. file' \in [Kinds -> [Builds -> Builds \cup {Absent}]]
      BY <3>1 DEF TypeOK
    <3> QED BY <3>1, <3>2, <3>3 DEF TypeOK
  <2> QED BY <2>1, <2>2
<1>17. CASE EndPrune(c)
  BY <1>17, GotoIs DEF EndPrune, TypeOK, Pcs, Moves, disk
<1>18. CASE Kill(c)
  BY <1>18, GotoIs DEF Kill, TypeOK, Pcs, Moves, disk
<1> QED BY <1>1, <1>2, <1>3, <1>4, <1>5, <1>6, <1>7, <1>8, <1>9, <1>10, <1>11, <1>12, <1>13, <1>14,
           <1>15, <1>16, <1>17, <1>18 DEF Acts

LEMMA StageOthers ==
  ASSUME TypeOK, StageInv, NEW c \in Calls, UNCHANGED op, Others(c),
         \A d \in Calls \ {c} : partial'[d] \in {partial[d], "none"}
  PROVE  StageInv' <=> StageOf(c)'
<1> SUFFICES ASSUME NEW d \in Calls \ {c} PROVE StageOf(d)'
  BY DEF StageInv
<1>1. StageOf(d) /\ call'[d] = call[d] /\ op'[d] = op[d] /\ partial'[d] \in {partial[d], "none"}
  BY DEF StageInv, Others
<1> QED BY <1>1 DEF StageOf

LEMMA StageFails ==
  ASSUME TypeOK, StageInv, NEW c \in Calls, UNCHANGED op, Fail(c)
  PROVE  StageInv'
<1>1. Others(c) /\ call'[c].pc = "failed" /\ partial' = partial
  BY FailIs DEF Moves
<1> QED BY <1>1, StageOthers DEF StageOf, Ended

LEMMA StageStep ==
  ASSUME TypeOK, StageInv, PublishedInv, NEW c \in Calls, Acts(c), UNCHANGED op
  PROVE  StageInv'
<1>0. op[c] \in Operations /\ call[c].at \in Nat /\ StageOf(c)
  BY StageIs, CallIs DEF Progress, StageInv
<1>1. CASE Begin(c)
  <2>1. StageOf(c)'
    <3>1. call'[c].at = 0 /\ call'[c].doomed = {} /\ call'[c].got = {}
      BY <1>1, BeginIs DEF SameReads, SamePrune, Fresh
    <3>2. IF op[c] = "import" THEN call'[c].pc = "write" ELSE call'[c].pc = "manifest"
      BY <1>1, BeginIs
    <3> QED BY <1>0, <3>1, <3>2 DEF StageOf, Stages, Operations
  <2>2. ASSUME NEW d \in Calls \ {c} PROVE StageOf(d)'
    <3>1. /\ call'[d].pc = call[d].pc /\ call'[d].at = call[d].at
          /\ partial' = partial /\ SameReads(call'[d], call[d]) /\ SamePrune(call'[d], call[d])
          /\ d \notin UnderWay => call'[d] = call[d]
      <4>1. partial' = partial
        BY <1>1, BeginIs
      <4>2. \A b \in Calls \ {c} :
              /\ call'[b].pc = call[b].pc /\ call'[b].at = call[b].at
              /\ SameReads(call'[b], call[b]) /\ SamePrune(call'[b], call[b])
              /\ b \notin UnderWay => call'[b] = call[b]
        BY <1>1, BeginIs
      <4> QED BY <4>1, <4>2
    <3>2. call'[d].doomed = call[d].doomed /\ call'[d].got = call[d].got
      BY <3>1 DEF SameReads, SamePrune
    <3>3. call[d].pc = "new" => call'[d] = call[d]
      BY <3>1 DEF UnderWay
    <3> QED BY <3>1, <3>2, <3>3 DEF StageOf, StageInv
  <2> QED BY <2>1, <2>2 DEF StageInv
<1>2. CASE ReadManifest(c)
  <2>1. /\ Others(c) /\ partial' = partial /\ call[c].pc = "manifest" /\ call'[c].doomed = call[c].doomed
        /\ call'[c].pc = (IF op[c] = "prune" THEN "compiled" ELSE "read") /\ call'[c].at = call[c].at
    BY <1>2, ReadManifestIs DEF Moves, SamePrune, ReadManifest, At
  <2>2. 0 < Len(Reads(op[c]))  \/ op[c] = "prune"
    BY <1>0 DEF Reads, Operations
  <2>3. op[c] # "import"
    BY <2>1, StageIs
  <2>4. StageOf(c)'
    BY <1>0, <2>1, <2>2, <2>3 DEF StageOf, Stages, Operations
  <2> QED BY <2>1, <2>4, StageOthers
<1>3. CASE ReadBundle(c)
  <2>1. CASE Found(c) = Absent
    <3>1. Fail(c)
      BY <1>3, <2>1 DEF ReadBundle, Found, Next1
    <3> QED BY <3>1, StageFails
  <2>2. CASE Found(c) # Absent
    <3>1. /\ Others(c) /\ partial' = partial
          /\ call'[c].pc = (IF LastRead(c) THEN AfterReads(op[c]) ELSE "read")
          /\ call'[c].at = (IF LastRead(c) THEN 0 ELSE call[c].at + 1)
      BY <1>3, <2>2, ReadBundleIs DEF Moves
    <3>2. call[c].pc = "read" /\ call[c].at < Len(Reads(op[c])) /\ Len(Reads(op[c])) \in Nat
      BY <1>0, <1>3 DEF ReadBundle, At, StageOf, Reads, Operations
    <3>3. AfterReads(op[c]) \in {"write", "metric", "cached"} /\ AfterReads(op[c]) \in Stages[op[c]]
      BY <3>2, ReadingIs
    <3>4. CASE LastRead(c)
      BY <3>1, <3>3, <3>4, StageOthers DEF StageOf
    <3>5. CASE ~LastRead(c)
      <4>1. call[c].at + 1 < Len(Reads(op[c]))
        BY <1>0, <3>2, <3>5 DEF LastRead
      <4>2. "read" \in Stages[op[c]]
        BY <1>0, <3>2 DEF StageOf, Ended
      <4> QED BY <3>1, <3>5, <4>1, <4>2, StageOthers DEF StageOf
    <3> QED BY <3>4, <3>5
  <2> QED BY <2>1, <2>2
<1>4. CASE BeginFile(c)
  <2>1. /\ Others(c) /\ call'[c].pc = "rename" /\ call'[c].at = call[c].at /\ call[c].pc = "write"
        /\ partial' = [partial EXCEPT ![c] = WriteOrder[call[c].at + 1]]
    BY <1>4, GotoIs DEF BeginFile, Moves, Pcs, At
  <2>2. /\ partial'[c] = WriteOrder[call[c].at + 1]
        /\ \A d \in Calls \ {c} : partial'[d] = partial[d]
    BY <2>1 DEF TypeOK
  <2>3. op[c] \in {"import", "update"}
    BY <2>1, StageIs
  <2>4. StageOf(c)'
    BY <1>0, <2>1, <2>2, <2>3 DEF StageOf, Stages
  <2> QED BY <2>1, <2>2, <2>4, StageOthers
<1>5. CASE EndFile(c)
  <2>1. CASE partial[c] = "none"
    <3>1. Fail(c)
      BY <1>5, <2>1 DEF EndFile
    <3> QED BY <3>1, StageFails
  <2>2. CASE partial[c] # "none"
    <3>1. /\ Others(c) /\ partial' = [partial EXCEPT ![c] = "none"]
          /\ call'[c].pc = (IF call[c].at + 1 = 4 THEN "repoint" ELSE "write")
          /\ call'[c].at = (IF call[c].at + 1 = 4 THEN 0 ELSE call[c].at + 1)
      BY <1>5, <2>2, EndFileIs DEF Moves
    <3>2. call[c].pc = "rename" /\ call[c].at < 4 /\ op[c] \in {"import", "update"}
      BY <1>0, <1>5, StageIs DEF EndFile, At, StageOf
    <3>3. \A d \in Calls \ {c} : partial'[d] = partial[d]
      BY <3>1 DEF TypeOK
    <3>4. StageOf(c)'
      BY <1>0, <3>1, <3>2 DEF StageOf, Stages
    <3> QED BY <3>1, <3>3, <3>4, StageOthers
  <2> QED BY <2>1, <2>2
<1>6. CASE WriteManifest(c) \/ EndPrune(c) \/ Kill(c)
  <2>1. Others(c) /\ call'[c].pc \in Ended /\ partial' = partial
    BY <1>6, GotoIs DEF WriteManifest, EndPrune, Kill, Moves, Pcs, Ended, disk
  <2>2. StageOf(c)'
    BY <2>1 DEF StageOf, Ended
  <2> QED BY <2>1, <2>2, StageOthers
<1>7. CASE BeginMetric(c)
  <2>1. /\ Others(c) /\ call'[c].pc = "metric-rename" /\ call[c].pc = "metric"
        /\ partial' = [partial EXCEPT ![c] = "metric"]
    BY <1>7, GotoIs DEF BeginMetric, Moves, Pcs, At
  <2>2. \A d \in Calls \ {c} : partial'[d] = partial[d]
    BY <2>1 DEF TypeOK
  <2>3. StageOf(c)'
    BY <2>1, StageIs DEF StageOf, Stages
  <2> QED BY <2>1, <2>2, <2>3, StageOthers
<1>8. CASE EndMetric(c)
  <2>1. CASE partial[c] = "none"
    <3>1. Fail(c)
      BY <1>8, <2>1 DEF EndMetric
    <3> QED BY <3>1, StageFails
  <2>2. CASE partial[c] # "none"
    <3>1. /\ Others(c) /\ partial' = [partial EXCEPT ![c] = "none"]
          /\ call'[c].pc = "record" /\ call[c].pc = "metric-rename"
      BY <1>8, <2>2, GotoIs DEF EndMetric, Moves, Pcs, At
    <3>2. \A d \in Calls \ {c} : partial'[d] = partial[d]
      BY <3>1 DEF TypeOK
    <3>3. StageOf(c)'
      BY <3>1, StageIs DEF StageOf, Stages
    <3> QED BY <3>1, <3>2, <3>3, StageOthers
  <2> QED BY <2>1, <2>2
<1>9. CASE RecordCompiled(c)
  <2>1. /\ Others(c) /\ partial' = partial /\ call[c].pc = "record"
        /\ call'[c].pc = (IF op[c] = "compile" THEN "done" ELSE "serving")
    <3>1. (IF op[c] = "compile" THEN "done" ELSE "serving") \in Pcs
      BY DEF Pcs
    <3> QED BY <1>9, <3>1, GotoIs DEF RecordCompiled, Moves, At
  <2>2. StageOf(c)'
    BY <2>1, StageIs DEF StageOf, Stages, Ended
  <2> QED BY <2>1, <2>2, StageOthers
<1>10. CASE ReadCompiled(c)
  <2>1. Others(c) /\ partial' = partial /\ call'[c].pc = "profile" /\ call[c].pc = "cached"
    BY <1>10, ReadCompiledIs DEF Moves, ReadCompiled, At
  <2> QED BY <2>1, StageIs, StageOthers DEF StageOf, Stages
<1>11. CASE LoadProfile(c)
  <2>1. Others(c) /\ partial' = partial /\ call'[c].pc \in {"metric", "serving", "failed"} /\ call[c].pc = "profile"
    BY <1>11, LoadProfileIs DEF Moves, LoadProfile, At
  <2> QED BY <2>1, StageIs, StageOthers DEF StageOf, Stages, Ended
<1>12. CASE ReadNames(c)
  <2>1. CASE file["names"][call[c].build] = Absent
    <3>1. Fail(c)
      BY <1>12, <2>1 DEF ReadNames
    <3> QED BY <3>1, StageFails
  <2>2. CASE file["names"][call[c].build] # Absent
    <3>1. Others(c) /\ partial' = partial /\ call'[c].pc = "done"
      BY <1>12, <2>2, ReadNamesIs DEF Moves
    <3> QED BY <3>1, StageOthers DEF StageOf, Ended
  <2> QED BY <2>1, <2>2
<1>13. CASE JudgeCompiled(c)
  <2>1. call[c].pc = "compiled"
    BY <1>13 DEF JudgeCompiled, At
  <2>2. call[c].build \in Builds
    BY <2>1, StageIs, BasedBuild DEF Based, Ended
  <2>3. Others(c) /\ partial' = partial /\ call'[c].pc = "list" /\ call'[c].at = call[c].at
    BY <1>13, <2>2, JudgeIs DEF Moves
  <2> QED BY <1>0, <2>1, <2>3, StageIs, StageOthers DEF StageOf, Stages
<1>14. CASE ListDir(c)
  <2>1. /\ Others(c) /\ partial' = partial /\ call[c].pc = "list"
        /\ call'[c].pc = (IF call[c].at + 1 = 5 THEN "forget" ELSE "list")
        /\ call'[c].at = (IF call[c].at + 1 = 5 THEN 0 ELSE call[c].at + 1)
    BY <1>14, ListIs DEF Moves, ListDir, At
  <2> QED BY <1>0, <2>1, StageIs, StageOthers DEF StageOf, Stages
<1>15. CASE ForgetCompiled(c)
  <2>1. CASE call[c].stale /\ compiled = Absent
    <3>1. Fail(c)
      BY <1>15, <2>1 DEF ForgetCompiled
    <3> QED BY <3>1, StageFails
  <2>2. CASE ~(call[c].stale /\ compiled = Absent)
    <3>1. Others(c) /\ partial' = partial /\ call'[c].pc = "unlink" /\ call[c].pc = "forget"
      BY <1>15, <2>2, GotoIs DEF ForgetCompiled, Pcs, Moves, At
    <3> QED BY <3>1, StageIs, StageOthers DEF StageOf, Stages
  <2> QED BY <2>1, <2>2
<1>16. ASSUME NEW f \in call[c].doomed, Unlink(c, f)
       PROVE  StageInv'
  <2>1. CASE f \notin InDir(f[1])
    <3>1. Fail(c)
      BY <1>16, <2>1 DEF Unlink
    <3> QED BY <3>1, StageFails
  <2>2. CASE f \in InDir(f[1])
    <3>1. /\ Others(c) /\ call'[c].pc = "unlink" /\ call[c].pc = "unlink"
          /\ partial' = [d \in Calls |-> IF f = PartialOf(d) THEN "none" ELSE partial[d]]
      BY <1>16, <2>2, UnlinkIs DEF Moves, Unlink, At
    <3>2. \A d \in Calls : partial'[d] \in {partial[d], "none"}
      BY <3>1
    <3> QED BY <3>1, <3>2, StageIs, StageOthers DEF StageOf, Stages
  <2> QED BY <2>1, <2>2
<1> QED BY <1>1, <1>2, <1>3, <1>4, <1>5, <1>6, <1>7, <1>8, <1>9, <1>10, <1>11, <1>12, <1>13, <1>14,
           <1>15, <1>16 DEF Acts


-----------------------------------------------------------------------------
(* A step begins a call, reads, writes or removes a bundle, changes the    *)
(* manifest, judges or lists what to prune, or does none of that.          *)

Loading == {"metric", "metric-rename", "record", "cached", "profile", "serving"}

\* A step of c that touches neither a dataset's files nor what was read or judged.
Quiet(c) ==
  /\ c \in UnderWay /\ Others(c) /\ call'[c].met = call[c].met
  /\ SameReads(call'[c], call[c]) /\ SamePrune(call'[c], call[c]) /\ UNCHANGED <<manifest, file>>
  /\ \/ call'[c].pc \in Ended /\ (call'[c].pc = "done" => c \notin Writers)
     \/ call[c].pc = "write" /\ call'[c].pc = "rename" /\ call'[c].at = call[c].at
     \/ call[c].pc = "forget" /\ call'[c].pc = "unlink"
     \/ call[c].pc \in Loading /\ call'[c].pc \in Loading

GetsBundle(c) == ReadBundle(c) /\ Found(c) # Absent
GetsNames(c) == ReadNames(c) /\ file["names"][call[c].build] # Absent
PutsFile(c) == EndFile(c) /\ partial[c] # "none"
Removes(c, f) == f \in call[c].doomed /\ Unlink(c, f) /\ f \in InDir(f[1])

LEMMA FailIsQuiet ==
  ASSUME TypeOK, NEW c \in UnderWay, Fail(c)
  PROVE  Quiet(c)
<1>1. c \in Calls
  BY DEF UnderWay
<1>2. Moves(c, "failed") /\ UNCHANGED <<manifest, file>> /\ SameReads(call'[c], call[c]) /\ SamePrune(call'[c], call[c])
  BY <1>1, FailIs
<1> QED BY <1>2 DEF Quiet, Moves, Ended

LEMMA StepIs ==
  ASSUME TypeOK, StageInv, PublishedInv, NEW c \in Calls, Acts(c), UNCHANGED op
  PROVE  \/ Begin(c) \/ ReadManifest(c) \/ GetsBundle(c) \/ GetsNames(c) \/ PutsFile(c) \/ WriteManifest(c)
         \/ JudgeCompiled(c) \/ ListDir(c) \/ (\E f : Removes(c, f)) \/ Quiet(c)
<1>1. CASE ReadBundle(c) /\ Found(c) = Absent
  <2>1. Fail(c) /\ c \in UnderWay
    BY <1>1 DEF ReadBundle, Found, Next1, UnderWay, At, Ended
  <2> QED BY <2>1, FailIsQuiet
<1>2. CASE ReadNames(c) /\ file["names"][call[c].build] = Absent
  <2>1. Fail(c) /\ c \in UnderWay
    BY <1>2 DEF ReadNames, UnderWay, At, Ended
  <2> QED BY <2>1, FailIsQuiet
<1>3. CASE EndFile(c) /\ partial[c] = "none"
  <2>1. Fail(c) /\ c \in UnderWay
    BY <1>3 DEF EndFile, UnderWay, At, Ended
  <2> QED BY <2>1, FailIsQuiet
<1>4. CASE BeginFile(c)
  BY <1>4, GotoIs DEF BeginFile, Pcs, At, UnderWay, Ended, Quiet, Moves
<1>5. CASE BeginMetric(c)
  BY <1>5, GotoIs DEF BeginMetric, Pcs, At, UnderWay, Ended, Quiet, Moves, Loading
<1>6. CASE EndMetric(c)
  <2>1. c \in UnderWay /\ call[c].pc = "metric-rename"
    BY <1>6 DEF EndMetric, UnderWay, At, Ended
  <2>2. CASE partial[c] = "none"
    <3>1. Fail(c)
      BY <1>6, <2>2 DEF EndMetric
    <3> QED BY <2>1, <3>1, FailIsQuiet
  <2>3. CASE partial[c] # "none"
    BY <1>6, <2>1, <2>3, GotoIs DEF EndMetric, Pcs, Quiet, Moves, Loading
  <2> QED BY <2>2, <2>3
<1>7. CASE RecordCompiled(c)
  <2>1. c \in UnderWay /\ call[c].pc = "record"
    BY <1>7 DEF RecordCompiled, UnderWay, At, Ended
  <2> DEFINE pc == IF op[c] = "compile" THEN "done" ELSE "serving"
  <2>2. pc \in Pcs /\ Goto(c, pc) /\ UNCHANGED <<manifest, file>>
    BY <1>7 DEF RecordCompiled, Pcs
  <2>3. Moves(c, pc) /\ SameReads(call'[c], call[c]) /\ SamePrune(call'[c], call[c])
    BY <2>2, GotoIs
  <2>4. c \notin Writers /\ (pc = "done" \/ pc = "serving")
    BY <2>1, StageIs DEF Writers
  <2> HIDE DEF pc
  <2> QED BY <2>1, <2>2, <2>3, <2>4 DEF Quiet, Moves, Loading, Ended
<1>8. CASE ReadCompiled(c)
  BY <1>8, ReadCompiledIs DEF ReadCompiled, At, UnderWay, Ended, Quiet, Moves, Loading
<1>9. CASE LoadProfile(c)
  BY <1>9, LoadProfileIs DEF LoadProfile, At, UnderWay, Ended, Quiet, Moves, Loading
<1>10. CASE ForgetCompiled(c)
  <2>1. c \in UnderWay /\ call[c].pc = "forget"
    BY <1>10 DEF ForgetCompiled, UnderWay, At, Ended
  <2>2. CASE call[c].stale /\ compiled = Absent
    <3>1. Fail(c)
      BY <1>10, <2>2 DEF ForgetCompiled
    <3> QED BY <2>1, <3>1, FailIsQuiet
  <2>3. CASE ~(call[c].stale /\ compiled = Absent)
    BY <1>10, <2>1, <2>3, GotoIs DEF ForgetCompiled, Pcs, Quiet, Moves
  <2> QED BY <2>2, <2>3
<1>11. ASSUME NEW f \in call[c].doomed, Unlink(c, f), f \notin InDir(f[1])
       PROVE  Quiet(c)
  <2>1. Fail(c) /\ c \in UnderWay
    BY <1>11 DEF Unlink, UnderWay, At, Ended
  <2> QED BY <2>1, FailIsQuiet
<1>12. CASE EndPrune(c)
  <2>1. c \in UnderWay /\ c \notin Writers
    BY <1>12, StageIs DEF EndPrune, At, UnderWay, Ended, Writers
  <2> QED BY <1>12, <2>1, GotoIs DEF EndPrune, Pcs, Quiet, Moves, Ended, disk
<1>13. CASE Kill(c)
  BY <1>13, GotoIs DEF Kill, Pcs, Quiet, Moves, Ended, disk
<1> QED BY <1>1, <1>2, <1>3, <1>4, <1>5, <1>6, <1>7, <1>8, <1>9, <1>10, <1>11, <1>12, <1>13
        DEF Acts, GetsBundle, GetsNames, PutsFile, Removes

\* Only a call that is under way moves; no call returns to its start.
LEMMA StepMoves ==
  ASSUME TypeOK, StageInv, PublishedInv, NEW c \in Calls, Acts(c), UNCHANGED op, ~Begin(c)
  PROVE  /\ c \in UnderWay /\ Others(c) /\ call'[c].met = call[c].met
         /\ call'[c].pc \notin {"new", "manifest"}
<1>1. CASE ReadManifest(c)
  BY <1>1, ReadManifestIs DEF Moves, ReadManifest, At, UnderWay, Ended
<1>2. CASE GetsBundle(c)
  <2>1. call[c].pc = "read" /\ Moves(c, IF LastRead(c) THEN AfterReads(op[c]) ELSE "read")
    BY <1>2, ReadBundleIs DEF GetsBundle
  <2>2. AfterReads(op[c]) \in {"write", "metric", "cached"}
    BY <2>1, ReadingIs
  <2> QED BY <2>1, <2>2 DEF Moves, UnderWay, Ended
<1>3. CASE GetsNames(c)
  BY <1>3, ReadNamesIs DEF Moves, GetsNames, ReadNames, At, UnderWay, Ended
<1>4. CASE PutsFile(c)
  BY <1>4, EndFileIs DEF Moves, PutsFile, EndFile, At, UnderWay, Ended
<1>5. CASE WriteManifest(c)
  BY <1>5, GotoIs DEF Moves, WriteManifest, At, UnderWay, Ended, Pcs
<1>6. CASE JudgeCompiled(c)
  <2>1. call[c].pc = "compiled"
    BY <1>6 DEF JudgeCompiled, At
  <2>2. call[c].build \in Builds
    BY <2>1, StageIs, BasedBuild DEF Based, Ended
  <2> QED BY <1>6, <2>1, <2>2, JudgeIs DEF Moves, UnderWay, Ended
<1>7. CASE ListDir(c)
  BY <1>7, ListIs DEF Moves, ListDir, At, UnderWay, Ended
<1>8. ASSUME NEW f, Removes(c, f)
      PROVE  c \in UnderWay /\ Others(c) /\ call'[c].met = call[c].met /\ call'[c].pc = "unlink"
  BY <1>8, UnlinkIs DEF Moves, Removes, Unlink, At, UnderWay, Ended
<1>9. CASE Quiet(c)
  BY <1>9 DEF Quiet, Ended, Loading
<1> QED BY <1>1, <1>2, <1>3, <1>4, <1>5, <1>6, <1>7, <1>8, <1>9, StepIs

-----------------------------------------------------------------------------
(* The parts of the invariant.                                             *)

LEMMA OwnDataStep ==
  ASSUME TypeOK, StageInv, PublishedInv, OwnData, NEW c \in Calls, Acts(c), UNCHANGED op
  PROVE  OwnData'
<1>1. CASE PutsFile(c)
  <2> DEFINE k == partial[c]
  <2>1. file' = [file EXCEPT ![k][BuildId(c)] = Data(c)] /\ k \in Kinds
    BY <1>1, EndFileIs DEF PutsFile
  <2> HIDE DEF k
  <2>2. ASSUME NEW l \in Kinds, NEW b \in Builds
        PROVE  file'[l][b] = file[l][b] \/ (l = k /\ b = Data(c) /\ file'[l][b] = Data(c))
    BY <2>1 DEF TypeOK, BuildId
  <2> QED BY <2>2 DEF OwnData
<1>2. ASSUME NEW f, Removes(c, f)
      PROVE  OwnData'
  <2>1. file' = [k \in Kinds |-> [b \in Builds |-> IF f = <<k, b>> THEN Absent ELSE file[k][b]]]
    BY <1>2, UnlinkIs DEF Removes
  <2> QED BY <2>1 DEF OwnData
<1>3. CASE file' = file
  BY <1>3 DEF OwnData
<1>4. CASE JudgeCompiled(c)
  BY <1>3, <1>4 DEF JudgeCompiled, disk
<1> QED BY <1>1, <1>2, <1>3, <1>4, StepIs, BeginIs, ReadManifestIs, ReadBundleIs, ReadNamesIs, ListIs
        DEF WriteManifest, GetsBundle, GetsNames, Quiet

\* A call whose build and readings stay, or that starts.
LEMMA GotStep ==
  ASSUME TypeOK, StageInv, PublishedInv, OwnData, GotInv, NEW c \in Calls, Acts(c), UNCHANGED op
  PROVE  GotInv'
<1> DEFINE Good(p) == \A f \in p.got : f[2] = p.build
<1>0. \A d \in Calls : Good(call[d])
  BY DEF GotInv
<1>1. CASE Begin(c)
  <2>1. Good(call'[c])
    BY <1>1, BeginIs DEF SameReads, Fresh
  <2>2. ASSUME NEW d \in Calls \ {c} PROVE Good(call'[d])
    <3>1. SameReads(call'[d], call[d])
      BY <1>1, BeginIs
    <3> QED BY <1>0, <3>1 DEF SameReads
  <2> QED BY <2>1, <2>2 DEF GotInv
<1>2. CASE ~Begin(c)
  <2>1. \A d \in Calls \ {c} : Good(call'[d])
    BY <1>0, <1>2, StepMoves DEF Others
  <2>2. CASE SameReads(call'[c], call[c])
    BY <1>0, <2>1, <2>2 DEF GotInv, SameReads
  <2>3. CASE ReadManifest(c)
    <3>1. call'[c].got = {}
      BY <2>3, ReadManifestIs DEF ReadManifest, At, StageInv, StageOf
    <3> QED BY <2>1, <3>1 DEF GotInv
  <2>4. CASE GetsBundle(c)
    <3>1. call[c].pc = "read"
      BY <2>4, ReadBundleIs DEF GetsBundle
    <3>2. Found(c) = call[c].build
      BY <2>4, <3>1, ReadingIs DEF GetsBundle, OwnData, Found
    <3>3. call'[c].build = call[c].build /\ call'[c].got = call[c].got \cup {<<Next1(c), Found(c)>>}
      BY <2>4, ReadBundleIs DEF GetsBundle
    <3>4. Good(call'[c])
      BY <1>0, <3>2, <3>3
    <3> QED BY <2>1, <3>4 DEF GotInv
  <2>5. CASE GetsNames(c)
    <3> DEFINE by == file["names"][call[c].build]
    <3>1. by # Absent /\ ReadNames(c)
      BY <2>5 DEF GetsNames
    <3>2. call[c].build \in Builds /\ call'[c].build = call[c].build /\ call'[c].got = call[c].got \cup {<<"names", by>>}
      BY <3>1, ReadNamesIs
    <3>3. by = call[c].build
      BY <3>1, <3>2 DEF OwnData, Kinds
    <3>4. Good(call'[c])
      BY <1>0, <3>2, <3>3
    <3> QED BY <2>1, <3>4 DEF GotInv
  <2>6. CASE JudgeCompiled(c)
    <3>1. call[c].build \in Builds
      BY <2>6, StageIs, BasedBuild DEF JudgeCompiled, At, Based, Ended
    <3> QED BY <2>2, <2>6, <3>1, JudgeIs
  <2>7. ASSUME NEW f, Removes(c, f) PROVE SameReads(call'[c], call[c])
    BY <2>7, UnlinkIs DEF Removes
  <2>8. CASE WriteManifest(c)
    BY <2>2, <2>8, GotoIs DEF WriteManifest, Pcs
  <2> QED BY <1>2, <2>2, <2>3, <2>4, <2>5, <2>6, <2>7, <2>8, StepIs, EndFileIs, ListIs DEF PutsFile, Quiet
<1> QED BY <1>1, <1>2

\* What is done stays as it is.
LEMMA DoneStays ==
  ASSUME TypeOK, StageInv, PublishedInv, NEW c \in Calls, Acts(c), UNCHANGED op,
         NEW d \in Calls, call[d].pc \in Ended
  PROVE  call'[d] = call[d]
<1>1. d \notin UnderWay /\ call[d].pc # "new"
  BY DEF UnderWay, Ended
<1>2. CASE Begin(c)
  <2>1. d # c
    BY <1>1, <1>2 DEF Begin, At
  <2> QED BY <1>1, <1>2, <2>1, BeginIs
<1>3. CASE ~Begin(c)
  BY <1>1, <1>3, StepMoves DEF Others
<1> QED BY <1>2, <1>3

LEMMA PublishedStays ==
  ASSUME TypeOK, StageInv, PublishedInv, NEW c \in Calls, Acts(c), UNCHANGED op, NEW b, Published(b)
  PROVE  Published(b)' /\ Includes(b)' = Includes(b)
<1>1. CASE b = First
  BY <1>1 DEF Published, Includes
<1>2. CASE b # First
  <2>1. PICK d \in Writers : b = Data(d) /\ call[d].pc = "done"
    BY <1>2 DEF Published
  <2>2. d \in Calls /\ call'[d] = call[d] /\ b - First = d
    BY <2>1, DoneStays, Numbers DEF Ended, Writers
  <2> QED BY <1>2, <2>1, <2>2 DEF Published, Writers, Includes
<1> QED BY <1>1, <1>2

\* A call that works from a build has just read the manifest or did so before.
LEMMA BasedStep ==
  ASSUME TypeOK, StageInv, PublishedInv, NEW c \in Calls, Acts(c), UNCHANGED op, NEW d \in Calls, Based(d)'
  PROVE  \/ d = c /\ ReadManifest(c) /\ call'[d].build = manifest
         \/ Based(d) /\ call'[d].build = call[d].build /\ ~(d = c /\ ReadManifest(c))
<1>1. CASE Begin(c)
  <2>1. d # c
    BY <1>1, BeginIs DEF Based
  <2>2. call'[d].pc = call[d].pc /\ call'[d].build = call[d].build
    <3>1. SameReads(call'[d], call[d]) /\ call'[d].pc = call[d].pc
      BY <1>1, <2>1, BeginIs
    <3> QED BY <3>1 DEF SameReads
  <2> QED BY <2>1, <2>2 DEF Based
<1>2. CASE ~Begin(c) /\ d # c
  BY <1>2, StepMoves DEF Others, Based
<1>3. CASE ~Begin(c) /\ d = c
  <2>1. CASE ReadManifest(c)
    BY <1>3, <2>1, ReadManifestIs
  <2>2. CASE ~ReadManifest(c)
    <3>1. c \in UnderWay /\ op[c] # "import"
      BY <1>3, StepMoves DEF Based
    <3>2. call'[c].build = call[c].build
      <4>1. CASE JudgeCompiled(c)
        <5>1. call[c].build \in Builds
          BY <4>1, StageIs, BasedBuild DEF JudgeCompiled, At, Based, Ended
        <5> QED BY <4>1, <5>1, JudgeIs DEF SameReads
      <4>2. ASSUME NEW f, Removes(c, f) PROVE call'[c].build = call[c].build
        BY <4>2, UnlinkIs DEF Removes, SameReads
      <4>3. CASE WriteManifest(c)
        BY <4>3, GotoIs DEF WriteManifest, Pcs, SameReads
      <4>4. CASE GetsNames(c)
        BY <4>4, ReadNamesIs DEF GetsNames
      <4> QED BY <1>3, <2>2, <4>1, <4>2, <4>3, <4>4, StepIs, ReadBundleIs, EndFileIs, ListIs
              DEF GetsBundle, PutsFile, Quiet, SameReads
    <3>3. call[c].pc # "manifest"
      <4>1. CASE Quiet(c)
        BY <1>3, <4>1 DEF Quiet, Based, Loading
      <4>2. CASE GetsBundle(c) \/ GetsNames(c) \/ PutsFile(c) \/ WriteManifest(c) \/ JudgeCompiled(c) \/ ListDir(c)
        BY <4>2 DEF GetsBundle, GetsNames, PutsFile, ReadBundle, ReadNames, EndFile, WriteManifest, JudgeCompiled, ListDir, At
      <4>3. ASSUME NEW f, Removes(c, f) PROVE call[c].pc # "manifest"
        BY <4>3 DEF Removes, Unlink, At
      <4> QED BY <1>3, <2>2, <4>1, <4>2, <4>3, StepIs
    <3> QED BY <1>3, <2>2, <3>1, <3>2, <3>3 DEF Based, UnderWay
  <2> QED BY <2>1, <2>2
<1> QED BY <1>1, <1>2, <1>3

\* The manifest changes when a build ends.
LEMMA ManifestStep ==
  ASSUME TypeOK, StageInv, PublishedInv, NEW c \in Calls, Acts(c), UNCHANGED op
  PROVE  IF WriteManifest(c) THEN manifest' = Data(c) /\ c \in Writers /\ Moves(c, "done") /\ UNCHANGED file
         ELSE manifest' = manifest
<1>1. CASE WriteManifest(c)
  <2>1. Goto(c, "done") /\ manifest' = Data(c) /\ UNCHANGED file /\ call[c].pc = "repoint"
    BY <1>1 DEF WriteManifest, BuildId, At
  <2>2. c \in Writers
    BY <2>1, StageIs DEF Writers
  <2> QED BY <1>1, <2>1, <2>2, GotoIs DEF Pcs
<1>2. CASE JudgeCompiled(c)
  BY <1>2 DEF JudgeCompiled, WriteManifest, At, disk
<1>3. ASSUME NEW f, Removes(c, f) PROVE manifest' = manifest
  BY <1>3, UnlinkIs DEF Removes
<1>4. CASE GetsNames(c)
  BY <1>4 DEF GetsNames, ReadNames, WriteManifest, At, disk
<1> QED BY <1>1, <1>2, <1>3, <1>4, StepIs, BeginIs, ReadManifestIs, ReadBundleIs, EndFileIs, ListIs
        DEF GetsBundle, PutsFile, Quiet

LEMMA PublishedStep ==
  ASSUME TypeOK, StageInv, PublishedInv, NEW c \in Calls, Acts(c), UNCHANGED op
  PROVE  PublishedInv'
<1>1. Published(manifest)'
  <2>1. CASE WriteManifest(c)
    <3>1. manifest' = Data(c) /\ c \in Writers /\ call'[c].pc = "done"
      BY <2>1, ManifestStep DEF Moves
    <3> QED BY <3>1 DEF Published, Writers
  <2>2. CASE ~WriteManifest(c)
    <3>1. manifest' = manifest
      BY <2>2, ManifestStep
    <3>2. Published(manifest)
      BY DEF PublishedInv
    <3>3. \A b : Published(b) => Published(b)'
      BY PublishedStays
    <3> QED BY <3>1, <3>2, <3>3 DEF Published
  <2> QED BY <2>1, <2>2
<1>2. ASSUME NEW d \in Calls, Based(d)'
      PROVE  Published(call[d].build)'
  <2>1. call'[d].build = manifest \/ (Based(d) /\ call'[d].build = call[d].build)
    BY <1>2, BasedStep
  <2>2. Published(call'[d].build)
    BY <2>1 DEF PublishedInv
  <2>3. ASSUME NEW b, Published(b) PROVE Published(b)'
    BY <2>3, PublishedStays
  <2> QED BY <2>2, <2>3 DEF Published
<1> QED BY <1>1, <1>2 DEF PublishedInv

LEMMA HasStep ==
  ASSUME TypeOK, StageInv, PublishedInv, OwnData, HasInv, NEW c \in Calls, Acts(c), UNCHANGED op
  PROVE  HasInv'
<1> DEFINE Writing(p) == p.pc \in {"write", "rename", "repoint"}
<1> SUFFICES ASSUME NEW d \in Calls, op[d] = "update", Writing(call'[d])
             PROVE  d \in call'[d].has /\ Includes(call[d].build)' \subseteq call'[d].has
  BY DEF HasInv
<1>1. Based(d)'
  BY DEF Based, Ended
\* What the build that the call works from includes is settled.
<1>2. ASSUME Published(call[d].build), call'[d].build = call[d].build
      PROVE  Includes(call[d].build)' = Includes(call[d].build)
  <2> PICK b : b = call[d].build
    OBVIOUS
  <2>1. Includes(b)' = Includes(b)
    BY <1>2, PublishedStays
  <2> QED BY <1>2, <2>1 DEF Includes
<1>3. CASE SameReads(call'[d], call[d]) /\ Writing(call[d])
  <2>1. Published(call[d].build)
    BY <1>3 DEF PublishedInv, Based, Ended
  <2>2. d \in call[d].has /\ Includes(call[d].build) \subseteq call[d].has
    BY <1>3 DEF HasInv
  <2> QED BY <1>2, <1>3, <2>1, <2>2 DEF SameReads
<1>4. CASE Begin(c)
  <2>1. d # c
    BY <1>4, BeginIs
  <2>2. SameReads(call'[d], call[d]) /\ call'[d].pc = call[d].pc
    BY <1>4, <2>1, BeginIs
  <2> QED BY <1>3, <2>2
<1>5. CASE ~Begin(c) /\ d # c
  <2>1. call'[d] = call[d]
    BY <1>5, StepMoves DEF Others
  <2> QED BY <1>3, <2>1 DEF SameReads
<1>6. CASE ~Begin(c) /\ d = c
  <2>1. CASE GetsBundle(c)
    <3>1. call[c].pc = "read" /\ call'[c].build = call[c].build
      BY <2>1, ReadBundleIs DEF GetsBundle
    <3>2. call'[c].pc = IF LastRead(c) THEN AfterReads(op[c]) ELSE "read"
      BY <2>1, ReadBundleIs DEF GetsBundle, Moves
    <3>3. Next1(c) = "source"
      BY <1>6, <3>1, <3>2, ReadingIs
    <3>4. call'[c].has = Includes(Found(c)) \cup {c}
      BY <2>1, <3>3, ReadBundleIs DEF GetsBundle
    <3>5. Found(c) = call[c].build /\ Based(c)
      BY <2>1, <3>1, ReadingIs DEF GetsBundle, OwnData, Found
    <3>6. Published(call[c].build)
      BY <3>5 DEF PublishedInv
    <3> QED BY <1>2, <1>6, <3>1, <3>4, <3>5, <3>6
  <2>2. CASE PutsFile(c)
    BY <1>3, <1>6, <2>2, EndFileIs DEF PutsFile, EndFile, At
  <2>3. CASE Quiet(c)
    BY <1>3, <1>6, <2>3 DEF Quiet, Ended, Loading
  <2>4. CASE ReadManifest(c) \/ ListDir(c) \/ GetsNames(c)
    BY <1>6, <2>4, ReadManifestIs, ListIs, ReadNamesIs DEF Moves, GetsNames
  <2>5. CASE WriteManifest(c)
    BY <1>6, <2>5, ManifestStep DEF Moves
  <2>6. CASE JudgeCompiled(c)
    <3>1. call[c].build \in Builds
      BY <2>6, StageIs, BasedBuild DEF JudgeCompiled, At, Based, Ended
    <3> QED BY <1>6, <2>6, <3>1, JudgeIs DEF Moves
  <2>7. ASSUME NEW f, Removes(c, f) PROVE FALSE
    BY <1>6, <2>7, UnlinkIs DEF Removes, Moves
  <2> QED BY <1>6, <2>1, <2>2, <2>3, <2>4, <2>5, <2>6, <2>7, StepIs
<1> QED BY <1>4, <1>5, <1>6

LEMMA MetStep ==
  ASSUME TypeOK, StageInv, PublishedInv, MetInv, NEW c \in Calls, Acts(c), UNCHANGED op
  PROVE  MetInv'
<1>1. CASE Begin(c)
  <2>0. call[c] = Fresh
    BY <1>1, BeginIs
  <2>1. call[c].met = {} /\ c \notin UnderWay
    BY <2>0 DEF Fresh, UnderWay
  <2>2. /\ call'[c].met = UnderWay
        /\ \A d \in Calls \ {c} : call'[d].met = IF d \in UnderWay THEN call[d].met \cup {c} ELSE call[d].met
        /\ \A d \in Calls \ {c} : call'[d].pc = call[d].pc
    BY <1>1, BeginIs
  <2>3. UnderWay' \subseteq UnderWay \cup {c}
    BY <2>2 DEF UnderWay
  <2>4. \A d \in Calls : c \notin call[d].met
    BY <2>1 DEF MetInv
  <2>5. ASSUME NEW d \in Calls, NEW e \in Calls, e \in call'[d].met
        PROVE  d \in call'[e].met
    <3>1. CASE d = c
      BY <2>1, <2>2, <2>5, <3>1
    <3>2. CASE d # c /\ e = c
      BY <2>2, <2>4, <2>5, <3>2
    <3>3. CASE d # c /\ e # c
      <4>1. e \in call[d].met
        BY <2>2, <2>5, <3>3
      <4>2. d \in call[e].met
        BY <4>1 DEF MetInv
      <4> QED BY <2>2, <3>3, <4>2
    <3> QED BY <3>1, <3>2, <3>3
  <2>6. ASSUME NEW d \in UnderWay', NEW e \in UnderWay', d # e
        PROVE  e \in call'[d].met
    <3>1. d \in Calls /\ e \in Calls
      BY DEF UnderWay
    <3>2. CASE d = c
      BY <2>2, <2>3, <2>6, <3>2
    <3>3. CASE d # c /\ e = c
      BY <2>2, <2>3, <3>1, <3>3
    <3>4. CASE d # c /\ e # c
      <4>1. e \in call[d].met
        BY <2>3, <2>6, <3>4 DEF MetInv
      <4> QED BY <2>2, <3>1, <3>4, <4>1
    <3> QED BY <3>2, <3>3, <3>4
  <2> QED BY <2>5, <2>6 DEF MetInv
<1>2. CASE ~Begin(c)
  <2>1. \A d \in Calls : call'[d].met = call[d].met
    BY <1>2, StepMoves DEF Others
  <2>2. UnderWay' \subseteq UnderWay
    BY <1>2, StepMoves DEF Others, UnderWay
  <2>3. \A d, e \in Calls : d \in call'[e].met => e \in call'[d].met
    BY <2>1 DEF MetInv
  <2>4. \A d, e \in UnderWay' : d # e => e \in call'[d].met
    <3>1. UnderWay \subseteq Calls
      BY DEF UnderWay
    <3> QED BY <2>1, <2>2, <3>1 DEF MetInv
  <2> QED BY <2>3, <2>4 DEF MetInv
<1> QED BY <1>1, <1>2

-----------------------------------------------------------------------------
(* What a call met it has met: hypotheses about it held before the step.   *)

LEMMA MetGrows ==
  ASSUME TypeOK, StageInv, PublishedInv, NEW c \in Calls, Acts(c), UNCHANGED op, NEW d \in Calls
  PROVE  call[d].met \subseteq call'[d].met
<1>1. CASE Begin(c) /\ d = c
  <2>1. call[c] = Fresh
    BY <1>1, BeginIs
  <2> QED BY <1>1, <2>1 DEF Fresh
<1>2. CASE Begin(c) /\ d # c
  <2>1. call'[d].met = IF d \in UnderWay THEN call[d].met \cup {c} ELSE call[d].met
    BY <1>2, BeginIs
  <2> QED BY <2>1
<1>3. CASE ~Begin(c)
  BY <1>3, StepMoves DEF Others
<1> QED BY <1>1, <1>2, <1>3

\* A build is done when it has written its manifest.
LEMMA DoneStep ==
  ASSUME TypeOK, StageInv, PublishedInv, NEW c \in Calls, Acts(c), UNCHANGED op,
         NEW d \in Writers, call'[d].pc = "done", ~WriteManifest(c)
  PROVE  call[d].pc = "done"
<1>0. d \in Calls /\ op[d] \in {"import", "update"}
  BY DEF Writers
<1>1. CASE Begin(c)
  BY <1>0, <1>1, BeginIs
<1>2. CASE ~Begin(c) /\ d # c
  BY <1>0, <1>2, StepMoves DEF Others
<1>3. CASE ~Begin(c) /\ d = c
  <2>1. CASE Quiet(c)
    BY <1>3, <2>1 DEF Quiet, Ended, Loading
  <2>2. CASE GetsBundle(c)
    <3>1. AfterReads(op[c]) \in {"write", "metric", "cached"}
      BY <2>2, ReadingIs DEF GetsBundle, ReadBundle, At
    <3>2. call'[c].pc = IF LastRead(c) THEN AfterReads(op[c]) ELSE "read"
      BY <2>2, ReadBundleIs DEF GetsBundle, Moves
    <3> QED BY <1>3, <3>1, <3>2
  <2>3. CASE GetsNames(c)
    BY <1>0, <1>3, <2>3, ReadNamesIs DEF GetsNames
  <2>4. CASE ReadManifest(c) \/ PutsFile(c) \/ ListDir(c)
    BY <1>3, <2>4, ReadManifestIs, EndFileIs, ListIs DEF Moves, PutsFile
  <2>5. CASE JudgeCompiled(c)
    BY <1>0, <1>3, <2>5, StageIs DEF JudgeCompiled, At
  <2>6. ASSUME NEW f, Removes(c, f) PROVE FALSE
    BY <1>3, <2>6, UnlinkIs DEF Removes, Moves
  <2> QED BY <1>3, <2>1, <2>2, <2>3, <2>4, <2>5, <2>6, StepIs
<1> QED BY <1>1, <1>2, <1>3

LEMMA AccumulateStep ==
  ASSUME TypeOK, StageInv, PublishedInv, HasInv, MetInv, AccumulateInv, NEW c \in Calls, Acts(c), UNCHANGED op
  PROVE  AccumulateInv'
<1> SUFFICES ASSUME SerialUpdates', NEW d \in Writers
             PROVE  /\ call'[d].pc = "done" => d \in Includes(manifest)'
                    /\ Based(d)' => call'[d].build = manifest'
  BY DEF AccumulateInv, Writers
<1>0. d \in Calls
  BY DEF Writers
<1>1. \A e \in Writers : op[e] = "update" /\ call[e].met \cap Writers = {}
  <2>1. ASSUME NEW e \in Writers PROVE op[e] = "update" /\ call[e].met \cap Writers = {}
    <3>1. op[e] = "update" /\ call'[e].met \cap Writers = {} /\ e \in Calls
      BY DEF SerialUpdates, Writers
    <3> QED BY <3>1, MetGrows
  <2> QED BY <2>1
<1>2. \A e \in Writers : /\ call[e].pc = "done" => e \in Includes(manifest)
                         /\ Based(e) => call[e].build = manifest
  BY <1>1 DEF AccumulateInv, SerialUpdates
<1>3. CASE WriteManifest(c)
  <2>1. manifest' = Data(c) /\ c \in Writers /\ Others(c) /\ call'[c].pc = "done"
    BY <1>3, ManifestStep DEF Moves
  <2>2. call[c].pc = "repoint"
    BY <1>3 DEF WriteManifest, At
  <2>3. call'[c].has = call[c].has
    BY <1>3, GotoIs DEF WriteManifest, Pcs, SameReads
  <2>4. Based(c) /\ c \in UnderWay
    BY <1>1, <2>1, <2>2 DEF Based, Ended, UnderWay
  <2>5. c \in call[c].has /\ Includes(manifest) \subseteq call[c].has
    BY <1>1, <1>2, <2>1, <2>2, <2>4 DEF HasInv
  <2>6. Includes(manifest)' = call[c].has
    BY <2>1, <2>3, Numbers DEF Includes
  <2>7. ~Based(d)'
    <3>1. CASE d = c
      BY <2>1, <3>1 DEF Based, Ended
    <3>2. CASE d # c
      <4>1. call'[d] = call[d]
        BY <1>0, <2>1, <3>2 DEF Others
      <4>2. d \notin UnderWay
        BY <1>1, <2>1, <2>4, <3>2 DEF MetInv
      <4> QED BY <1>0, <4>1, <4>2 DEF Based, UnderWay
    <3> QED BY <3>1, <3>2
  <2>8. ASSUME call'[d].pc = "done" PROVE d \in Includes(manifest)'
    <3>1. CASE d = c
      BY <2>5, <2>6, <3>1
    <3>2. CASE d # c
      <4>1. call'[d] = call[d]
        BY <1>0, <2>1, <3>2 DEF Others
      <4> QED BY <1>2, <2>5, <2>6, <2>8, <4>1
    <3> QED BY <3>1, <3>2
  <2> QED BY <2>7, <2>8
<1>4. CASE ~WriteManifest(c)
  <2>1. manifest' = manifest
    BY <1>4, ManifestStep
  <2>2. Includes(manifest)' = Includes(manifest)
    <3> PICK b : b = manifest
      OBVIOUS
    <3>1. Includes(b)' = Includes(b)
      BY PublishedStays DEF PublishedInv
    <3> QED BY <2>1, <3>1 DEF Includes
  <2>3. ASSUME call'[d].pc = "done" PROVE d \in Includes(manifest)'
    BY <1>2, <1>4, <2>2, <2>3, DoneStep
  <2>4. ASSUME Based(d)' PROVE call'[d].build = manifest'
    BY <1>0, <1>2, <2>1, <2>4, BasedStep
  <2> QED BY <2>3, <2>4
<1> QED BY <1>3, <1>4

-----------------------------------------------------------------------------
(* The files of the dataset, as long as no prune runs next to a build.     *)

\* Only PutsFile adds to what a build has written.
LEMMA WrittenStays ==
  ASSUME TypeOK, StageInv, PublishedInv, NEW c \in Calls, Acts(c), UNCHANGED op, ~PutsFile(c), NEW d \in Calls
  PROVE  Written(d)' \subseteq Written(d)
<1>1. CASE call'[d].pc = call[d].pc /\ call'[d].at = call[d].at
  BY <1>1 DEF Written
<1>2. CASE call'[d].pc \notin {"write", "rename", "repoint"}
  BY <1>2 DEF Written
<1>3. CASE call'[d].pc \in {"write", "rename"} /\ call'[d].at = 0
  BY <1>3 DEF Written
<1>4. CASE Begin(c)
  BY <1>1, <1>2, <1>3, <1>4, BeginIs
<1>5. CASE ~Begin(c) /\ d # c
  BY <1>1, <1>5, StepMoves DEF Others
<1>6. CASE ~Begin(c) /\ d = c
  <2>1. CASE Quiet(c)
    <3>1. CASE call[c].pc = "write" /\ call'[c].pc = "rename" /\ call'[c].at = call[c].at
      BY <1>6, <3>1 DEF Written
    <3> QED BY <1>2, <1>6, <2>1, <3>1 DEF Quiet, Ended, Loading
  <2>2. CASE GetsBundle(c)
    <3>1. AfterReads(op[c]) \in {"write", "metric", "cached"}
      BY <2>2, ReadingIs DEF GetsBundle, ReadBundle, At
    <3>2. /\ call'[c].pc = IF LastRead(c) THEN AfterReads(op[c]) ELSE "read"
          /\ call'[c].at = IF LastRead(c) THEN 0 ELSE call[c].at + 1
      BY <2>2, ReadBundleIs DEF GetsBundle, Moves
    <3> QED BY <1>2, <1>3, <1>6, <3>1, <3>2
  <2>3. CASE GetsNames(c)
    BY <1>2, <1>6, <2>3, ReadNamesIs DEF GetsNames, Moves
  <2>4. CASE ReadManifest(c) \/ ListDir(c)
    BY <1>2, <1>6, <2>4, ReadManifestIs, ListIs DEF Moves
  <2>5. CASE JudgeCompiled(c)
    <3>1. call[c].build \in Builds
      BY <2>5, StageIs, BasedBuild DEF JudgeCompiled, At, Based, Ended
    <3> QED BY <1>2, <1>6, <2>5, <3>1, JudgeIs DEF Moves
  <2>6. ASSUME NEW f, Removes(c, f) PROVE call'[c].pc = "unlink"
    BY <2>6, UnlinkIs DEF Removes, Moves
  <2>7. CASE WriteManifest(c)
    BY <1>2, <1>6, <2>7, ManifestStep DEF Moves
  <2> QED BY <1>2, <1>6, <2>1, <2>2, <2>3, <2>4, <2>5, <2>6, <2>7, StepIs
<1> QED BY <1>4, <1>5, <1>6

\* What a build has written with one file more.
LEMMA PutIsWritten ==
  ASSUME TypeOK, StageInv, NEW c \in Calls, PutsFile(c)
  PROVE  Written(c)' \subseteq Written(c) \cup {partial[c]}
<1>1. /\ partial[c] = WriteOrder[call[c].at + 1]
      /\ call'[c].pc = IF call[c].at + 1 = 4 THEN "repoint" ELSE "write"
      /\ call'[c].at = IF call[c].at + 1 = 4 THEN 0 ELSE call[c].at + 1
  BY EndFileIs DEF PutsFile, Moves
<1>2. call[c].pc = "rename" /\ call[c].at \in {0, 1, 2, 3}
  BY CallIs DEF PutsFile, EndFile, At, StageInv, StageOf, Progress
<1>3. CASE call[c].at = 3
  <2>1. Written(c)' = Kinds
    BY <1>1, <1>3 DEF Written
  <2>2. Written(c) = {WriteOrder[i] : i \in 1..3}
    BY <1>2, <1>3 DEF Written
  <2>3. 1 \in 1..3 /\ 2 \in 1..3 /\ 3 \in 1..3
    OBVIOUS
  <2>4. Kinds = {WriteOrder[1], WriteOrder[2], WriteOrder[3], WriteOrder[4]}
    BY DEF WriteOrder, Kinds
  <2> QED BY <1>1, <1>3, <2>1, <2>2, <2>3, <2>4
<1>4. CASE call[c].at # 3
  <2>1. Written(c)' = {WriteOrder[i] : i \in 1..(call[c].at + 1)}
    BY <1>1, <1>2, <1>4 DEF Written
  <2>2. Written(c) = {WriteOrder[i] : i \in 1..call[c].at}
    BY <1>2 DEF Written
  <2>3. \A i \in 1..(call[c].at + 1) : i \in 1..call[c].at \/ i = call[c].at + 1
    BY <1>2
  <2> QED BY <1>1, <2>1, <2>2, <2>3
<1> QED BY <1>3, <1>4

LEMMA WrittenStep ==
  ASSUME TypeOK, StageInv, PublishedInv, MetInv, PruneInv, WrittenInv, NEW c \in Calls, Acts(c), UNCHANGED op
  PROVE  WrittenInv'
<1> DEFINE Has(k, b) == file[k][b] # Absent
<1> SUFFICES ASSUME BuildsApart'
             PROVE  /\ \A k \in Kinds : file'[k][manifest'] # Absent
                    /\ \A d \in Writers : \A k \in Written(d)' : file'[k][Data(d)] # Absent
  BY DEF WrittenInv, Writers, BuildsApart, BuildId, Data
<1>0. Writers \subseteq Calls /\ Prunes \subseteq Calls /\ \A d : d \in Writers => d \notin Prunes
  BY DEF Writers, Prunes
<1>1. \A d \in Writers : call[d].met \cap Prunes = {}
  <2>1. ASSUME NEW d \in Writers PROVE call[d].met \cap Prunes = {}
    <3>1. call'[d].met \cap Prunes = {}
      BY DEF BuildsApart, Writers, Prunes
    <3> QED BY <1>0, <3>1, MetGrows
  <2> QED BY <2>1
<1>2. /\ \A k \in Kinds : file[k][manifest] # Absent
      /\ \A d \in Writers : \A k \in Written(d) : file[k][Data(d)] # Absent
  BY <1>1 DEF WrittenInv, BuildsApart, BuildId
<1>3. \A d \in Calls : Written(d) \subseteq Kinds
  <2>1. ASSUME NEW d \in Calls PROVE Written(d) \subseteq Kinds
    <3>1. CASE call[d].pc \in {"write", "rename"}
      <4>1. call[d].at \in {0, 1, 2, 3}
        BY <3>1, CallIs DEF StageInv, StageOf, Progress
      <4>2. \A i \in 1..call[d].at : i \in {1, 2, 3}
        BY <4>1
      <4>3. \A i \in {1, 2, 3} : WriteOrder[i] \in Kinds
        BY DEF WriteOrder, Kinds
      <4> QED BY <3>1, <4>2, <4>3 DEF Written
    <3> QED BY <3>1 DEF Written
  <2> QED BY <2>1
<1>4. ASSUME NEW f, Removes(c, f)
      PROVE  /\ \A k \in Kinds : file'[k][manifest'] # Absent
             /\ \A d \in Writers : \A k \in Written(d)' : file'[k][Data(d)] # Absent
  <2>1. /\ call[c].pc = "unlink" /\ f \in call[c].doomed /\ manifest' = manifest
        /\ file' = [k \in Kinds |-> [b \in Builds |-> IF f = <<k, b>> THEN Absent ELSE file[k][b]]]
    BY <1>4, UnlinkIs DEF Removes, Unlink, At
  <2>2. c \in Prunes /\ Based(c) /\ c \in UnderWay
    BY <2>1, StageIs DEF Prunes, Based, Ended, UnderWay
  <2>3. call[c].met \cap Writers = {}
    BY <1>0, <1>1, <2>2 DEF MetInv
  <2>4. \A k \in Kinds : f # <<k, manifest>>
    BY <2>1, <2>2, <2>3 DEF PruneInv, Judged
  <2>5. manifest \in Builds
    BY DEF TypeOK
  <2>6. \A k \in Kinds : file'[k][manifest'] # Absent
    BY <1>2, <2>1, <2>4, <2>5
  <2>7. ASSUME NEW d \in Writers PROVE Written(d)' = {}
    <3>1. d \notin UnderWay
      BY <1>0, <1>1, <2>2 DEF MetInv
    <3>2. Written(d) = {}
      BY <1>0, <3>1 DEF Written, UnderWay, Ended
    <3>3. ~PutsFile(c)
      BY <2>1 DEF PutsFile, EndFile, At
    <3> QED BY <1>0, <3>2, <3>3, WrittenStays
  <2> QED BY <2>6, <2>7
<1>5. CASE PutsFile(c)
  <2> DEFINE k == partial[c]
  <2>1. file' = [file EXCEPT ![k][Data(c)] = Data(c)] /\ k \in Kinds /\ manifest' = manifest /\ Others(c)
    BY <1>5, EndFileIs DEF PutsFile, BuildId, Moves
  <2>2. ASSUME NEW l \in Kinds, NEW b \in Builds
        PROVE  (file[l][b] # Absent \/ (l = k /\ b = Data(c))) => file'[l][b] # Absent
    <3>1. Data(c) # Absent
      BY Numbers
    <3> HIDE DEF k
    <3> QED BY <2>1, <3>1 DEF TypeOK
  <2>3. manifest \in Builds /\ \A d \in Calls : Data(d) \in Builds
    BY Numbers DEF TypeOK
  <2>4. ASSUME NEW d \in Writers, NEW l \in Written(d)' PROVE file'[l][Data(d)] # Absent
    <3>1. CASE d = c
      <4>1. l \in Written(c) \/ l = k
        BY <1>5, <3>1, PutIsWritten
      <4>2. l \in Kinds
        BY <1>3, <2>1, <4>1
      <4> QED BY <1>2, <2>2, <2>3, <3>1, <4>1, <4>2
    <3>2. CASE d # c
      <4>1. call'[d] = call[d] /\ d \in Calls
        BY <1>0, <2>1, <3>2 DEF Others
      <4>2. l \in Written(d)
        BY <4>1 DEF Written
      <4> QED BY <1>2, <1>3, <2>2, <2>3, <4>1, <4>2
    <3> QED BY <3>1, <3>2
  <2>5. \A l \in Kinds : file'[l][manifest'] # Absent
    BY <1>2, <2>1, <2>2, <2>3
  <2> QED BY <2>4, <2>5
<1>6. CASE ~PutsFile(c) /\ ~(\E f : Removes(c, f))
  <2>1. file' = file
    <3>1. CASE JudgeCompiled(c)
      BY <3>1 DEF JudgeCompiled, disk
    <3>2. CASE GetsNames(c)
      BY <3>2 DEF GetsNames, ReadNames, disk
    <3> QED BY <1>6, <3>1, <3>2, StepIs, BeginIs, ReadManifestIs, ReadBundleIs, ListIs
            DEF WriteManifest, GetsBundle, Quiet
  <2>2. \A d \in Writers : \A k \in Written(d)' : file'[k][Data(d)] # Absent
    BY <1>0, <1>2, <1>6, <2>1, WrittenStays
  <2>3. \A k \in Kinds : file'[k][manifest'] # Absent
    <3>1. CASE WriteManifest(c)
      <4>1. manifest' = Data(c) /\ c \in Writers /\ call[c].pc = "repoint"
        BY <3>1, ManifestStep DEF WriteManifest, At
      <4>2. Written(c) = Kinds
        BY <4>1 DEF Written
      <4> QED BY <1>2, <2>1, <4>1, <4>2
    <3>2. CASE ~WriteManifest(c)
      BY <1>2, <2>1, <3>2, ManifestStep
    <3> QED BY <3>1, <3>2
  <2> QED BY <2>2, <2>3
<1> QED BY <1>4, <1>5, <1>6

-----------------------------------------------------------------------------
(* Prunes.                                                                 *)

LEMMA PruneStep ==
  ASSUME TypeOK, StageInv, PublishedInv, MetInv, PruneInv, NEW c \in Calls, Acts(c), UNCHANGED op
  PROVE  PruneInv'
<1> SUFFICES ASSUME NEW p \in Prunes
             PROVE  /\ call'[p].pc \in Judged => \A k \in Kinds : <<k, call'[p].build>> \in call'[p].keep
                    /\ call'[p].keep \cap call'[p].doomed = {}
                    /\ Based(p)' /\ call'[p].met \cap Writers = {} => call'[p].build = manifest'
  BY DEF PruneInv, Prunes, Writers
<1>0. p \in Calls /\ op[p] = "prune" /\ p \notin Writers
  BY DEF Prunes, Writers
<1>1. /\ call[p].pc \in Judged => \A k \in Kinds : <<k, call[p].build>> \in call[p].keep
      /\ call[p].keep \cap call[p].doomed = {}
      /\ Based(p) /\ call[p].met \cap Writers = {} => call[p].build = manifest
  BY DEF PruneInv
<1>2. ASSUME Based(p)', call'[p].met \cap Writers = {} PROVE call'[p].build = manifest'
  <2>1. CASE p = c /\ ReadManifest(c) /\ call'[p].build = manifest
    BY <2>1, ManifestStep DEF ReadManifest, WriteManifest, At
  <2>2. CASE Based(p) /\ call'[p].build = call[p].build
    <3>1. call[p].met \cap Writers = {}
      BY <1>0, <1>2, MetGrows
    <3>2. ~WriteManifest(c)
      <4>1. p \in UnderWay
        BY <1>0, <2>2 DEF Based, UnderWay
      <4>2. WriteManifest(c) => c \in UnderWay /\ c \in Writers
        BY ManifestStep DEF WriteManifest, At, UnderWay, Ended
      <4> QED BY <1>0, <3>1, <4>1, <4>2 DEF MetInv
    <3> QED BY <1>1, <2>2, <3>1, <3>2, ManifestStep
  <2> QED BY <1>0, <1>2, <2>1, <2>2, BasedStep
<1> DEFINE Spares == /\ call'[p].pc \in Judged => \A k \in Kinds : <<k, call'[p].build>> \in call'[p].keep
                     /\ call'[p].keep \cap call'[p].doomed = {}
<1> SUFFICES Spares
  BY <1>2
<1>3. CASE /\ SameReads(call'[p], call[p]) /\ SamePrune(call'[p], call[p])
           /\ call'[p].pc \in Judged => call[p].pc \in Judged
  BY <1>1, <1>3 DEF SameReads, SamePrune
<1>4. CASE Begin(c) /\ p = c
  BY <1>0, <1>4, BeginIs DEF SamePrune, Fresh, Judged
<1>5. CASE Begin(c) /\ p # c
  <2>1. ASSUME NEW d \in Calls \ {c}
        PROVE  SameReads(call'[d], call[d]) /\ SamePrune(call'[d], call[d]) /\ call'[d].pc = call[d].pc
    BY <1>5, BeginIs
  <2> QED BY <1>0, <1>3, <1>5, <2>1
<1>6. CASE ~Begin(c) /\ p # c
  <2>1. call'[p] = call[p]
    BY <1>0, <1>6, StepMoves DEF Others
  <2> QED BY <1>3, <2>1 DEF SameReads, SamePrune
<1>7. CASE ~Begin(c) /\ p = c
  <2>1. CASE Quiet(c)
    <3>1. call'[c].pc \in Judged => call[c].pc \in Judged
      BY <2>1 DEF Quiet, Ended, Loading, Judged
    <3> QED BY <1>3, <1>7, <2>1, <3>1 DEF Quiet
  <2>2. CASE ReadManifest(c)
    <3>1. call'[c].pc = "compiled" /\ SamePrune(call'[c], call[c])
      BY <1>0, <1>7, <2>2, ReadManifestIs DEF Moves
    <3> QED BY <1>1, <1>7, <3>1 DEF SamePrune, Judged
  <2>3. CASE JudgeCompiled(c)
    <3>1. call[c].pc = "compiled"
      BY <2>3 DEF JudgeCompiled, At
    <3>2. call[c].build \in Builds /\ call[c].doomed = {}
      BY <3>1, StageIs, BasedBuild DEF Based, Ended, StageInv, StageOf
    <3>3. /\ call'[c].doomed = {} /\ call'[c].build = call[c].build
          /\ \A k \in Kinds : <<k, call[c].build>> \in call'[c].keep
      BY <2>3, <3>2, JudgeIs DEF SameReads
    <3> QED BY <1>7, <3>3
  <2>4. CASE ListDir(c)
    <3>1. /\ call'[c].keep = call[c].keep /\ call'[c].build = call[c].build
          /\ call'[c].doomed \cap call[c].keep = call[c].doomed \cap call[c].keep
      BY <2>4, ListIs DEF SameReads
    <3>2. call[c].pc \in Judged
      BY <2>4 DEF ListDir, At, Judged
    <3> QED BY <1>1, <1>7, <3>1, <3>2
  <2>5. ASSUME NEW f, Removes(c, f) PROVE Spares
    <3>1. /\ call'[c].keep = call[c].keep /\ call'[c].build = call[c].build
          /\ call'[c].doomed \subseteq call[c].doomed /\ call[c].pc \in Judged
      BY <2>5, UnlinkIs DEF Removes, SameReads, Unlink, At, Judged
    <3> QED BY <1>1, <1>7, <3>1
  <2>6. ~GetsBundle(c) /\ ~GetsNames(c) /\ ~PutsFile(c) /\ ~WriteManifest(c)
    BY <1>0, <1>7, StageIs, ReadingIs DEF GetsBundle, GetsNames, PutsFile, ReadBundle, ReadNames, EndFile, WriteManifest, At
  <2> QED BY <1>7, <2>1, <2>2, <2>3, <2>4, <2>5, <2>6, StepIs
<1> QED BY <1>4, <1>5, <1>6, <1>7

\* A prune that meets nobody is the only one to act.
LEMMA AloneActs ==
  ASSUME TypeOK, StageInv, PublishedInv, MetInv, NEW c \in Calls, Acts(c), UNCHANGED op,
         NEW p \in UnderWay, call'[p].met = {}
  PROVE  c = p /\ call[p].met = {} /\ ~Begin(c)
<1>0. p \in Calls
  BY DEF UnderWay
<1>1. call[p].met = {}
  BY <1>0, MetGrows
<1>2. CASE Begin(c)
  <2>1. p # c
    BY <1>2 DEF Begin, At, UnderWay
  <2>2. p \in Calls \ {c}
    BY <1>0, <2>1
  <2>3. call'[p].met = IF p \in UnderWay THEN call[p].met \cup {c} ELSE call[p].met
    BY <1>2, <2>2, BeginIs
  <2> QED BY <2>3
<1>3. CASE ~Begin(c)
  BY <1>1, <1>3, StepMoves DEF MetInv
<1> QED BY <1>1, <1>2, <1>3

LEMMA InDirFirst ==
  ASSUME TypeOK, NEW k \in Dirs, NEW f \in InDir(k)
  PROVE  f[1] = k
<1>1. CASE f \in {PartialOf(d) : d \in {d \in Calls : partial[d] = k}}
  <2> PICK d \in Calls : partial[d] = k /\ f = PartialOf(d)
    BY <1>1
  <2> QED BY DEF PartialOf
<1>2. CASE k \in Kinds /\ f \in {<<k, b>> : b \in {b \in Builds : file[k][b] # Absent}}
  BY <1>2
<1>3. CASE k \notin Kinds /\ f = <<"metric", First>>
  BY <1>3 DEF Dirs
<1> QED BY <1>1, <1>2, <1>3 DEF InDir

\* Only the file itself goes.
LEMMA RemovedIs ==
  ASSUME TypeOK, NEW c \in Calls, NEW f, Removes(c, f), NEW k \in Dirs
  PROVE  InDir(k)' = InDir(k) \ {f}
<1>1. /\ partial' = [d \in Calls |-> IF f = PartialOf(d) THEN "none" ELSE partial[d]]
      /\ metric' = IF f = Metric THEN Absent ELSE metric
      /\ file' = [l \in Kinds |-> [b \in Builds |-> IF f = <<l, b>> THEN Absent ELSE file[l][b]]]
  BY UnlinkIs DEF Removes
<1>2. k # "none"
  BY DEF Dirs, Kinds
<1> DEFINE Temps == {PartialOf(d) : d \in {d \in Calls : partial[d] = k}}
           Whole == {<<k, b>> : b \in {b \in Builds : file[k][b] # Absent}}
           Metrics == IF metric = Absent THEN {} ELSE {Metric}
<1>3. Temps' = Temps \ {f}
  <2>1. ASSUME NEW d \in Calls PROVE partial'[d] = k <=> partial[d] = k /\ f # PartialOf(d)
    BY <1>1, <1>2
  <2>2. \A d \in Calls : partial'[d] = k => PartialOf(d)' = PartialOf(d)
    BY <2>1 DEF PartialOf
  <2>3. Temps' = {PartialOf(d) : d \in {d \in Calls : partial[d] = k /\ f # PartialOf(d)}}
    BY <2>1, <2>2
  <2> QED BY <2>3
<1>4. ASSUME k \in Kinds PROVE Whole' = Whole \ {f}
  BY <1>1, <1>4
<1>5. Metrics' = Metrics \ {f}
  BY <1>1 DEF Metric
<1>6. InDir(k) = (IF k \in Kinds THEN Whole ELSE Metrics) \cup Temps
  BY DEF InDir, Metric
<1>7. InDir(k)' = (IF k \in Kinds THEN Whole' ELSE Metrics') \cup Temps'
  BY DEF InDir, Metric
<1> HIDE DEF Temps, Whole, Metrics
<1> QED BY <1>3, <1>4, <1>5, <1>6, <1>7

\* What AloneInv says of one prune.
Alone(p) ==
  /\ call[p].keep \subseteq {<<k, call[p].build>> : k \in Kinds} \cup {Metric}
  /\ \A k \in Listed(p) : InDir(k) \subseteq call[p].keep \cup call[p].doomed
  /\ \A f \in call[p].doomed : f[1] \in Dirs /\ f \in InDir(f[1])
  /\ Metric \in call[p].keep <=> compiled # Absent /\ ~call[p].stale
  /\ Metric \in call[p].keep => compiled = call[p].build /\ metric # Absent
  /\ call[p].pc # "unlink" /\ call[p].stale => compiled # Absent
  /\ call[p].pc = "unlink" /\ call[p].stale => compiled = Absent

LEMMA JudgeAlone ==
  ASSUME TypeOK, StageInv, PublishedInv, NEW c \in Calls, JudgeCompiled(c)
  PROVE  Alone(c)'
<1>1. call[c].pc = "compiled"
  BY DEF JudgeCompiled, At
<1>2. call[c].build \in Builds /\ call[c].doomed = {} /\ call[c].at = 0
  BY <1>1, StageIs, BasedBuild DEF Based, Ended, StageInv, StageOf
<1> DEFINE stale == compiled # Absent /\ (compiled # call[c].build \/ metric = Absent)
           keep == {<<k, call[c].build>> : k \in Kinds} \cup (IF compiled = Absent \/ stale THEN {} ELSE {Metric})
<1>3. /\ call'[c].pc = "list" /\ call'[c].at = 0 /\ call'[c].build = call[c].build
      /\ call'[c].stale = stale /\ call'[c].doomed = {} /\ call'[c].keep = keep
      /\ UNCHANGED <<file, compiled, metric, partial>>
  <2>1. \A s : s = stale =>
          /\ call'[c].pc = "list" /\ call'[c].at = call[c].at /\ SameReads(call'[c], call[c])
          /\ call'[c].stale = s /\ call'[c].doomed = call[c].doomed
          /\ call'[c].keep = {<<k, call[c].build>> : k \in Kinds}
                             \cup (IF compiled = Absent \/ s THEN {} ELSE {Metric})
          /\ UNCHANGED <<file, compiled, metric, partial>>
    BY <1>2, JudgeIs DEF Moves
  <2> QED BY <1>2, <2>1 DEF SameReads
<1>4. Metric \in keep <=> compiled # Absent /\ ~stale
  BY Kinds2
<1>5. Listed(c)' = {}
  BY <1>3 DEF Listed
<1> HIDE DEF keep
<1>6. keep \subseteq {<<k, call[c].build>> : k \in Kinds} \cup {Metric}
  BY DEF keep
<1> QED BY <1>3, <1>4, <1>5, <1>6 DEF Alone

LEMMA ListAlone ==
  ASSUME TypeOK, StageInv, NEW c \in Calls, ListDir(c), Alone(c)
  PROVE  Alone(c)'
<1> DEFINE k == ListOrder[call[c].at + 1]
<1>1. /\ k \in Dirs /\ call'[c].pc = IF call[c].at + 1 = 5 THEN "forget" ELSE "list"
      /\ call'[c].at = IF call[c].at + 1 = 5 THEN 0 ELSE call[c].at + 1
      /\ call'[c].build = call[c].build /\ call'[c].stale = call[c].stale /\ call'[c].keep = call[c].keep
      /\ call'[c].doomed = call[c].doomed \cup (InDir(k) \ call[c].keep)
      /\ UNCHANGED <<file, compiled, metric, partial>>
  BY ListIs DEF SameReads, Moves
<1>2. call[c].pc = "list" /\ call[c].at \in {0, 1, 2, 3, 4}
  BY CallIs DEF ListDir, At, StageInv, StageOf, Progress
<1>3. \A l : InDir(l)' = InDir(l)
  BY <1>1 DEF InDir, PartialOf
<1>4. Listed(c) = {ListOrder[i] : i \in 1..call[c].at}
  BY <1>2 DEF Listed
<1>5. Listed(c)' \subseteq Listed(c) \cup {k}
  <2>1. CASE call[c].at = 4
    <3>1. Listed(c)' = Dirs
      BY <1>1, <2>1 DEF Listed
    <3>2. 1 \in 1..4 /\ 2 \in 1..4 /\ 3 \in 1..4 /\ 4 \in 1..4
      OBVIOUS
    <3>3. Dirs = {ListOrder[1], ListOrder[2], ListOrder[3], ListOrder[4], ListOrder[5]}
      BY DEF ListOrder, Dirs, Kinds
    <3> QED BY <1>4, <2>1, <3>1, <3>2, <3>3
  <2>2. CASE call[c].at # 4
    <3>1. Listed(c)' = {ListOrder[i] : i \in 1..(call[c].at + 1)}
      BY <1>1, <1>2, <2>2 DEF Listed
    <3>2. \A i \in 1..(call[c].at + 1) : i \in 1..call[c].at \/ i = call[c].at + 1
      BY <1>2
    <3> QED BY <1>4, <3>1, <3>2
  <2> QED BY <2>1, <2>2
<1> HIDE DEF k
<1>6. \A l \in Listed(c)' : InDir(l)' \subseteq call'[c].keep \cup call'[c].doomed
  <2>1. \A l \in Listed(c) : InDir(l) \subseteq call[c].keep \cup call[c].doomed
    BY DEF Alone
  <2>2. call[c].doomed \subseteq call'[c].doomed /\ InDir(k) \subseteq call[c].keep \cup call'[c].doomed
    BY <1>1
  <2>3. ASSUME NEW l \in Listed(c)' PROVE InDir(l) \subseteq call[c].keep \cup call'[c].doomed
    BY <1>5, <2>1, <2>2
  <2> QED BY <1>1, <1>3, <2>3
<1>7. \A f \in call'[c].doomed : f[1] \in Dirs /\ f \in InDir(f[1])'
  <2>1. ASSUME NEW f \in call'[c].doomed PROVE f[1] \in Dirs /\ f \in InDir(f[1])
    <3>1. CASE f \in call[c].doomed
      BY <3>1 DEF Alone
    <3>2. CASE f \in InDir(k)
      <4>1. f[1] = k
        BY <1>1, <3>2, InDirFirst
      <4> QED BY <1>1, <3>2, <4>1
    <3> QED BY <1>1, <3>1, <3>2
  <2> QED BY <1>3, <2>1
<1>8. /\ call[c].keep \subseteq {<<l, call[c].build>> : l \in Kinds} \cup {Metric}
      /\ Metric \in call[c].keep <=> compiled # Absent /\ ~call[c].stale
      /\ Metric \in call[c].keep => compiled = call[c].build /\ metric # Absent
      /\ call[c].stale => compiled # Absent
  BY <1>2 DEF Alone
<1>9. call'[c].pc # "unlink"
  BY <1>1
<1> QED BY <1>1, <1>6, <1>7, <1>8, <1>9 DEF Alone

LEMMA ForgetAlone ==
  ASSUME TypeOK, NEW c \in Calls, ForgetCompiled(c), ~(call[c].stale /\ compiled = Absent), Alone(c)
  PROVE  Alone(c)'
<1>1. /\ call[c].pc = "forget" /\ compiled' = IF call[c].stale THEN Absent ELSE compiled
      /\ Goto(c, "unlink") /\ UNCHANGED <<file, metric, partial>>
  BY DEF ForgetCompiled, At
<1>2. /\ call'[c].pc = "unlink" /\ call'[c].build = call[c].build /\ call'[c].stale = call[c].stale
      /\ call'[c].keep = call[c].keep /\ call'[c].doomed = call[c].doomed
  BY <1>1, GotoIs DEF Moves, Pcs, SameReads, SamePrune
<1>3. \A l : InDir(l)' = InDir(l)
  BY <1>1 DEF InDir, PartialOf
<1>4. Listed(c)' = Listed(c)
  BY <1>1, <1>2 DEF Listed
<1>5. /\ call[c].keep \subseteq {<<l, call[c].build>> : l \in Kinds} \cup {Metric}
      /\ Metric \in call[c].keep <=> compiled # Absent /\ ~call[c].stale
      /\ Metric \in call[c].keep => compiled = call[c].build /\ metric # Absent
      /\ call[c].stale => compiled # Absent
  BY <1>1 DEF Alone
<1>6. \A l \in Listed(c)' : InDir(l)' \subseteq call'[c].keep \cup call'[c].doomed
  BY <1>2, <1>3, <1>4 DEF Alone
<1>7. \A f \in call'[c].doomed : f[1] \in Dirs /\ f \in InDir(f[1])'
  BY <1>2, <1>3 DEF Alone
<1> QED BY <1>1, <1>2, <1>5, <1>6, <1>7 DEF Alone

LEMMA RemoveAlone ==
  ASSUME TypeOK, StageInv, PruneInv, NEW c \in Prunes, NEW f, Removes(c, f), Alone(c)
  PROVE  Alone(c)'
<1>0. c \in Calls
  BY DEF Prunes
<1>1. /\ call[c].pc = "unlink" /\ call'[c].pc = "unlink" /\ call'[c].build = call[c].build
      /\ call'[c].stale = call[c].stale /\ call'[c].keep = call[c].keep /\ call'[c].doomed = call[c].doomed \ {f}
      /\ metric' = (IF f = Metric THEN Absent ELSE metric) /\ compiled' = compiled
  BY <1>0, UnlinkIs DEF Removes, Unlink, At, SameReads, Moves
<1>2. f \in call[c].doomed /\ f \notin call[c].keep
  BY DEF Removes, PruneInv
<1>3. \A l \in Dirs : InDir(l)' = InDir(l) \ {f}
  BY <1>0, RemovedIs
<1>4. Listed(c) = Dirs /\ Listed(c)' = Dirs
  BY <1>1 DEF Listed
<1>5. /\ call[c].keep \subseteq {<<l, call[c].build>> : l \in Kinds} \cup {Metric}
      /\ Metric \in call[c].keep <=> compiled # Absent /\ ~call[c].stale
      /\ Metric \in call[c].keep => compiled = call[c].build /\ metric # Absent
      /\ call[c].stale => compiled = Absent
  BY <1>1 DEF Alone
<1>6. \A l \in Listed(c)' : InDir(l)' \subseteq call'[c].keep \cup call'[c].doomed
  <2>1. \A l \in Dirs : InDir(l) \subseteq call[c].keep \cup call[c].doomed
    BY <1>4 DEF Alone
  <2> QED BY <1>1, <1>3, <1>4, <2>1
<1>7. ASSUME NEW g \in call'[c].doomed PROVE g[1] \in Dirs /\ g \in InDir(g[1])'
  <2>1. g \in call[c].doomed /\ g # f
    BY <1>1
  <2>2. g[1] \in Dirs /\ g \in InDir(g[1])
    BY <2>1 DEF Alone
  <2> PICK l : l = g[1]
    OBVIOUS
  <2> QED BY <1>3, <2>1, <2>2
<1>8. Metric \in call[c].keep => metric' # Absent
  BY <1>1, <1>2, <1>5
<1> QED BY <1>1, <1>5, <1>6, <1>7, <1>8 DEF Alone

LEMMA AloneStep ==
  ASSUME TypeOK, StageInv, PublishedInv, MetInv, PruneInv, AloneInv, NEW c \in Calls, Acts(c), UNCHANGED op
  PROVE  AloneInv'
<1> SUFFICES ASSUME NEW p \in Prunes, call'[p].met = {}, call'[p].pc \in Judged
             PROVE  Alone(p)'
  BY DEF AloneInv, Alone, Prunes
<1>0. p \in Calls /\ op[p] = "prune"
  BY DEF Prunes
<1>1. c = p /\ call[p].met = {} /\ ~Begin(c)
  <2>1. CASE Begin(c)
    <3>1. p # c
      BY <1>0, <2>1, BeginIs DEF Judged
    <3>2. call'[p].pc = call[p].pc
      BY <1>0, <2>1, <3>1, BeginIs
    <3>3. p \in UnderWay
      BY <1>0, <3>2 DEF UnderWay, Judged, Ended
    <3> QED BY <3>3, AloneActs
  <2>2. CASE ~Begin(c)
    <3>1. c # p => call'[p] = call[p]
      BY <1>0, <2>2, StepMoves DEF Others
    <3>2. p \in UnderWay
      BY <1>0, <2>2, <3>1, StepMoves DEF UnderWay, Judged, Ended
    <3> QED BY <3>2, AloneActs
  <2> QED BY <2>1, <2>2
<1>2. call[c].pc \in Judged => Alone(c)
  BY <1>1 DEF AloneInv, Alone
<1>3. CASE JudgeCompiled(c)
  BY <1>1, <1>3, JudgeAlone
<1>4. CASE ListDir(c)
  BY <1>1, <1>2, <1>4, ListAlone DEF ListDir, At, Judged
<1>5. CASE ForgetCompiled(c)
  <2>1. ~(call[c].stale /\ compiled = Absent)
    <3>1. Fail(c) => call'[c].pc = "failed"
      BY FailIs DEF Moves
    <3> QED BY <1>1, <1>5, <3>1 DEF ForgetCompiled, Judged
  <2> QED BY <1>1, <1>2, <1>5, <2>1, ForgetAlone DEF ForgetCompiled, At, Judged
<1>6. ASSUME NEW f, Removes(c, f) PROVE Alone(p)'
  BY <1>1, <1>2, <1>6, RemoveAlone DEF Removes, Unlink, At, Judged
<1>7. CASE Quiet(c) /\ ~ForgetCompiled(c)
  <2>1. call[c].pc = "forget" /\ call'[c].pc = "unlink"
    BY <1>1, <1>7 DEF Quiet, Judged, Ended, Loading
  <2>2. CASE Kill(c)
    BY <2>1, <2>2, GotoIs DEF Kill, Pcs, Moves
  <2>3. ~Kill(c) => ForgetCompiled(c)
    BY <1>1, <2>1 DEF Acts, At, ReadManifest, ReadBundle, BeginFile, EndFile, WriteManifest, BeginMetric, EndMetric,
       RecordCompiled, ReadCompiled, LoadProfile, ReadNames, JudgeCompiled, ListDir, Unlink, EndPrune
  <2> QED BY <1>7, <2>2, <2>3
<1>8. CASE ReadManifest(c)
  BY <1>0, <1>1, <1>8, ReadManifestIs DEF Moves, Judged
<1>9. ~GetsBundle(c) /\ ~GetsNames(c) /\ ~PutsFile(c) /\ ~WriteManifest(c)
  BY <1>0, <1>1, StageIs, ReadingIs DEF GetsBundle, GetsNames, PutsFile, ReadBundle, ReadNames, EndFile, WriteManifest, At
<1> QED BY <1>1, <1>3, <1>4, <1>5, <1>6, <1>7, <1>8, <1>9, StepIs

-----------------------------------------------------------------------------
(* Readers and builders, as long as prunes run alone.                      *)

\* A step fails only for what is not there.
LEMMA FailStep ==
  ASSUME TypeOK, StageInv, PublishedInv, AloneInv, NEW c \in Calls, Acts(c), UNCHANGED op, ~Begin(c),
         call'[c].pc = "failed",
         Based(c) => \A k \in Kinds : file[k][call[c].build] # Absent,
         call[c].pc \in {"rename", "metric-rename"} => partial[c] # "none",
         c \in Prunes => call[c].met = {}
  PROVE  call'[c].mixed
<1>1. CASE ReadManifest(c) \/ ReadCompiled(c) \/ ListDir(c)
  BY <1>1, ReadManifestIs, ReadCompiledIs, ListIs DEF Moves
<1>2. CASE ReadBundle(c)
  <2>1. call[c].pc = "read" /\ Based(c)
    BY <1>2, ReadingIs DEF ReadBundle, At
  <2>2. Found(c) # Absent
    BY <2>1, ReadingIs DEF Found
  <2>3. call'[c].pc = IF LastRead(c) THEN AfterReads(op[c]) ELSE "read"
    BY <1>2, <2>2, ReadBundleIs DEF Moves
  <2>4. AfterReads(op[c]) \in {"write", "metric", "cached"}
    BY <2>1, ReadingIs
  <2> QED BY <2>3, <2>4
<1>3. CASE BeginFile(c) \/ WriteManifest(c) \/ BeginMetric(c) \/ EndPrune(c) \/ Kill(c)
  BY <1>3, GotoIs DEF BeginFile, WriteManifest, BeginMetric, EndPrune, Kill, Moves, Pcs
<1>4. CASE EndFile(c)
  BY <1>4, EndFileIs DEF EndFile, At, Moves
<1>5. CASE EndMetric(c)
  BY <1>5, GotoIs DEF EndMetric, At, Moves, Pcs
<1>6. CASE RecordCompiled(c)
  <2> DEFINE pc == IF op[c] = "compile" THEN "done" ELSE "serving"
  <2>1. pc \in Pcs /\ pc # "failed" /\ Goto(c, pc)
    BY <1>6 DEF RecordCompiled, Pcs
  <2> HIDE DEF pc
  <2> QED BY <2>1, GotoIs DEF Moves
<1>7. CASE LoadProfile(c)
  BY <1>7, LoadProfileIs
<1>8. CASE ReadNames(c)
  <2>1. Based(c)
    BY <1>8, StageIs DEF ReadNames, At, Based, Ended
  <2>2. file["names"][call[c].build] # Absent
    BY <2>1 DEF Kinds
  <2> QED BY <1>8, <2>2, ReadNamesIs DEF Moves
<1>9. CASE JudgeCompiled(c)
  <2>1. call[c].build \in Builds
    BY <1>9, StageIs, BasedBuild DEF JudgeCompiled, At, Based, Ended
  <2> QED BY <1>9, <2>1, JudgeIs DEF Moves
<1>10. ASSUME call[c].pc \in Judged PROVE Alone(c)
  <2>1. c \in Prunes
    BY <1>10, StageIs DEF Judged, Prunes
  <2> QED BY <1>10, <2>1 DEF AloneInv, Alone
<1>11. CASE ForgetCompiled(c)
  <2>1. call[c].pc = "forget"
    BY <1>11 DEF ForgetCompiled, At
  <2>2. ~(call[c].stale /\ compiled = Absent)
    BY <1>10, <2>1 DEF Alone, Judged
  <2>3. Goto(c, "unlink")
    BY <1>11, <2>2 DEF ForgetCompiled
  <2> QED BY <2>3, GotoIs DEF Moves, Pcs
<1>12. ASSUME NEW f \in call[c].doomed, Unlink(c, f) PROVE FALSE
  <2>1. call[c].pc = "unlink"
    BY <1>12 DEF Unlink, At
  <2>2. f \in InDir(f[1])
    BY <1>10, <2>1 DEF Alone, Judged
  <2> QED BY <1>12, <2>2, UnlinkIs DEF Moves
<1> QED BY <1>1, <1>2, <1>3, <1>4, <1>5, <1>6, <1>7, <1>8, <1>9, <1>11, <1>12 DEF Acts

\* Only the call itself and a prune touch its temporary file.
LEMMA PartialStep ==
  ASSUME TypeOK, StageInv, PublishedInv, NEW c \in Calls, Acts(c), UNCHANGED op, NEW d \in Calls, d # c
  PROVE  partial'[d] = partial[d] \/ (c \in Prunes /\ c \in UnderWay)
<1>1. ASSUME NEW x, partial' = [partial EXCEPT ![c] = x] PROVE partial'[d] = partial[d]
  BY <1>1 DEF TypeOK
<1>2. CASE BeginFile(c) \/ BeginMetric(c)
  BY <1>1, <1>2 DEF BeginFile, BeginMetric
<1>3. CASE EndFile(c) \/ EndMetric(c)
  <2>1. Fail(c) => partial' = partial
    BY FailIs
  <2> QED BY <1>1, <1>3, <2>1 DEF EndFile, EndMetric
<1>4. CASE Begin(c) \/ ReadManifest(c) \/ ReadCompiled(c) \/ LoadProfile(c) \/ ListDir(c)
  BY <1>4, BeginIs, ReadManifestIs, ReadCompiledIs, LoadProfileIs, ListIs
<1>5. CASE ReadBundle(c)
  <2>1. Fail(c) => partial' = partial
    BY FailIs
  <2> QED BY <1>5, <2>1, ReadBundleIs DEF ReadBundle, Found, Next1
<1>6. CASE ReadNames(c)
  <2>1. Fail(c) => partial' = partial
    BY FailIs
  <2> QED BY <1>6, <2>1 DEF ReadNames, disk
<1>7. CASE JudgeCompiled(c) \/ EndPrune(c) \/ Kill(c)
  BY <1>7 DEF JudgeCompiled, EndPrune, Kill, disk
<1>8. CASE WriteManifest(c) \/ RecordCompiled(c)
  BY <1>8 DEF WriteManifest, RecordCompiled
<1>9. CASE ForgetCompiled(c)
  <2>1. Fail(c) => partial' = partial
    BY FailIs
  <2> QED BY <1>9, <2>1 DEF ForgetCompiled
<1>10. ASSUME NEW f \in call[c].doomed, Unlink(c, f) PROVE c \in Prunes /\ c \in UnderWay
  BY <1>10, StageIs DEF Unlink, At, UnderWay, Ended, Prunes
<1> QED BY <1>2, <1>3, <1>4, <1>5, <1>6, <1>7, <1>8, <1>9, <1>10 DEF Acts

\* A call waits for a rename once it has written a temporary file.
LEMMA WaitStep ==
  ASSUME TypeOK, StageInv, PublishedInv, NEW c \in Calls, Acts(c), ~BeginFile(c), ~BeginMetric(c)
  PROVE  call'[c].pc \notin {"rename", "metric-rename"}
<1> DEFINE Waits == call'[c].pc \in {"rename", "metric-rename"}
<1> SUFFICES ~Waits
  OBVIOUS
<1>0. Fail(c) => ~Waits
  BY FailIs DEF Moves
<1>1. CASE Begin(c) \/ ReadManifest(c) \/ ReadCompiled(c) \/ ListDir(c)
  BY <1>1, BeginIs, ReadManifestIs, ReadCompiledIs, ListIs DEF Moves
<1>2. CASE ReadBundle(c)
  <2>1. AfterReads(op[c]) \in {"write", "metric", "cached"}
    BY <1>2, ReadingIs DEF ReadBundle, At
  <2>2. CASE Found(c) # Absent
    <3>1. call'[c].pc = IF LastRead(c) THEN AfterReads(op[c]) ELSE "read"
      BY <1>2, <2>2, ReadBundleIs DEF Moves
    <3> QED BY <2>1, <3>1
  <2> QED BY <1>0, <1>2, <2>2 DEF ReadBundle, Found, Next1
<1>3. CASE EndFile(c)
  BY <1>0, <1>3, EndFileIs DEF EndFile, Moves
<1>4. CASE EndMetric(c)
  BY <1>0, <1>4, GotoIs DEF EndMetric, Moves, Pcs
<1>5. CASE RecordCompiled(c)
  <2>1. (op[c] = "compile" /\ Goto(c, "done")) \/ (op[c] # "compile" /\ Goto(c, "serving"))
    BY <1>5 DEF RecordCompiled
  <2> QED BY <2>1, GotoIs DEF Moves, Pcs
<1>6. CASE LoadProfile(c)
  BY <1>6, LoadProfileIs DEF Moves
<1>7. CASE ReadNames(c)
  BY <1>0, <1>7, ReadNamesIs DEF ReadNames, Moves
<1>8. CASE JudgeCompiled(c)
  <2>1. call[c].build \in Builds
    BY <1>8, StageIs, BasedBuild DEF JudgeCompiled, At, Based, Ended
  <2> QED BY <1>8, <2>1, JudgeIs DEF Moves
<1>9. CASE ForgetCompiled(c)
  BY <1>0, <1>9, GotoIs DEF ForgetCompiled, Moves, Pcs
<1>10. ASSUME NEW f \in call[c].doomed, Unlink(c, f) PROVE ~Waits
  BY <1>0, <1>10, UnlinkIs DEF Unlink, Moves
<1>11. CASE WriteManifest(c) \/ EndPrune(c) \/ Kill(c)
  BY <1>11, GotoIs DEF WriteManifest, EndPrune, Kill, Moves, Pcs
<1> QED BY <1>1, <1>2, <1>3, <1>4, <1>5, <1>6, <1>7, <1>8, <1>9, <1>10, <1>11 DEF Acts

LEMMA ApartOfAlone == ASSUME MetInv, PrunesAlone PROVE BuildsApart
BY DEF MetInv, PrunesAlone, BuildsApart, Writers, Prunes

LEMMA KeptStep ==
  ASSUME TypeOK, StageInv, PublishedInv, OwnData, MetInv, WrittenInv, PruneInv, AloneInv, KeptInv,
         NEW c \in Calls, Acts(c), UNCHANGED op
  PROVE  KeptInv'
<1> SUFFICES ASSUME PrunesAlone', NEW d \in Calls
             PROVE  /\ Based(d)' => \A k \in Kinds : file'[k][call'[d].build] # Absent
                    /\ call'[d].pc \in {"rename", "metric-rename"} => partial'[d] # "none"
                    /\ call'[d].pc = "failed" => call'[d].mixed
  BY DEF KeptInv
<1>0. Prunes \subseteq Calls /\ Writers \subseteq Calls
  BY DEF Prunes, Writers
<1>1. PrunesAlone
  <2>1. \A p \in Prunes : call'[p].met = {}
    BY DEF PrunesAlone, Prunes
  <2> QED BY <1>0, <2>1, MetGrows DEF PrunesAlone
<1>2. ASSUME NEW e \in Calls
      PROVE  /\ Based(e) => \A k \in Kinds : file[k][call[e].build] # Absent
             /\ call[e].pc \in {"rename", "metric-rename"} => partial[e] # "none"
             /\ call[e].pc = "failed" => call[e].mixed
  BY <1>1 DEF KeptInv
<1>3. \A k \in Kinds : file[k][manifest] # Absent
  BY <1>1, ApartOfAlone DEF WrittenInv
\* A prune that acts is alone.
<1>4. ASSUME c \in Prunes, c \in UnderWay, d \in UnderWay PROVE d = c
  BY <1>1, <1>4 DEF MetInv, PrunesAlone
<1>5. ASSUME Based(d)', NEW k \in Kinds PROVE file'[k][call'[d].build] # Absent
  <2> DEFINE b == call'[d].build
  <2>1. file[k][b] # Absent
    BY <1>2, <1>3, <1>5, BasedStep
  <2>2. b \in Builds
    <3>1. b = manifest \/ (Based(d) /\ b = call[d].build)
      BY <1>5, BasedStep
    <3> QED BY <3>1, BasedBuild DEF TypeOK
  <2> SUFFICES file'[k][b] # Absent
    OBVIOUS
  <2> HIDE DEF b
  <2>3. CASE PutsFile(c)
    <3>1. file' = [file EXCEPT ![partial[c]][Data(c)] = Data(c)] /\ partial[c] \in Kinds
      BY <2>3, EndFileIs DEF PutsFile, BuildId
    <3>2. Data(c) # Absent
      BY Numbers
    <3> QED BY <2>1, <2>2, <3>1, <3>2 DEF TypeOK, b
  <2>4. ASSUME NEW f, Removes(c, f) PROVE file'[k][b] # Absent
    <3>1. /\ call[c].pc = "unlink" /\ f \in call[c].doomed
          /\ file' = [l \in Kinds |-> [x \in Builds |-> IF f = <<l, x>> THEN Absent ELSE file[l][x]]]
          /\ call'[c].build = call[c].build
      BY <2>4, UnlinkIs DEF Removes, Unlink, At, SameReads
    <3>2. c \in Prunes /\ c \in UnderWay
      BY <3>1, StageIs DEF Prunes, UnderWay, Ended
    <3>3. ~(d = c /\ ReadManifest(c)) /\ ~ReadManifest(c)
      BY <3>1 DEF ReadManifest, At
    <3>4. Based(d)
      BY <1>5, <3>3, BasedStep
    <3>5. d = c
      BY <1>4, <3>2, <3>4 DEF Based, UnderWay
    <3>6. f # <<k, b>>
      BY <3>1, <3>2, <3>5 DEF PruneInv, Judged, b
    <3> QED BY <2>1, <2>2, <3>1, <3>6
  <2>5. CASE file' = file
    BY <2>1, <2>5
  <2>6. CASE JudgeCompiled(c)
    BY <2>5, <2>6 DEF JudgeCompiled, disk
  <2>7. CASE GetsNames(c)
    BY <2>5, <2>7 DEF GetsNames, ReadNames, disk
  <2> QED BY <2>3, <2>4, <2>5, <2>6, <2>7, StepIs, BeginIs, ReadManifestIs, ReadBundleIs, ListIs
          DEF WriteManifest, GetsBundle, Quiet
<1>6. CASE d # c
  <2>1. /\ call'[d].pc = call[d].pc /\ call'[d].mixed = call[d].mixed
    <3>1. CASE Begin(c)
      BY <1>6, <3>1, BeginIs
    <3>2. CASE ~Begin(c)
      BY <1>6, <3>2, StepMoves DEF Others
    <3> QED BY <3>1, <3>2
  <2>2. ASSUME call[d].pc \in {"rename", "metric-rename"} PROVE partial'[d] # "none"
    <3>1. d \in UnderWay
      BY <2>2 DEF UnderWay, Ended
    <3>2. partial'[d] = partial[d]
      BY <1>4, <1>6, <3>1, PartialStep
    <3> QED BY <1>2, <2>2, <3>2
  <2> QED BY <1>2, <1>5, <2>1, <2>2
<1>7. CASE d = c
  <2>1. call'[c].pc = "failed" => call'[c].mixed
    <3>1. CASE Begin(c)
      BY <3>1, BeginIs
    <3>2. CASE ~Begin(c)
      BY <1>1, <1>2, <3>2, FailStep DEF PrunesAlone
    <3> QED BY <3>1, <3>2
  <2>2. CASE BeginFile(c)
    <3>1. call[c].at \in {0, 1, 2, 3}
      BY <2>2, CallIs DEF BeginFile, At, StageInv, StageOf, Progress
    <3>2. WriteOrder[call[c].at + 1] \in Kinds
      BY <3>1 DEF WriteOrder, Kinds
    <3>3. partial'[c] \in Kinds
      BY <2>2, <3>2 DEF BeginFile, TypeOK
    <3> QED BY <1>5, <1>7, <2>1, <3>3, Kinds2
  <2>3. CASE BeginMetric(c)
    <3>1. partial'[c] = "metric"
      BY <2>3 DEF BeginMetric, TypeOK
    <3> QED BY <1>5, <1>7, <2>1, <3>1
  <2>4. CASE ~BeginFile(c) /\ ~BeginMetric(c)
    <3>1. call'[c].pc \notin {"rename", "metric-rename"}
      BY <2>4, WaitStep
    <3> QED BY <1>5, <1>7, <2>1, <3>1
  <2> QED BY <2>2, <2>3, <2>4
<1> QED BY <1>6, <1>7

-----------------------------------------------------------------------------

LEMMA Stutters == ASSUME IInv, UNCHANGED vars PROVE IInv'
<1>1. UNCHANGED <<op, manifest, file, compiled, metric, partial, call, kills>>
  BY DEF vars, moving
<1>2. TypeOK' /\ OwnData' /\ GotInv' /\ KeptInv' /\ PruneInv'
  BY <1>1 DEF IInv, TypeOK, OwnData, GotInv, KeptInv, PrunesAlone, Prunes, Writers, PruneInv, Based
<1>3. StageInv' /\ HasInv'
  BY <1>1 DEF IInv, StageInv, StageOf, HasInv, Includes
<1>4. PublishedInv' /\ MetInv' /\ AccumulateInv'
  BY <1>1 DEF IInv, PublishedInv, Published, Based, Writers, MetInv, UnderWay, AccumulateInv, SerialUpdates, Includes
<1>5. WrittenInv'
  BY <1>1 DEF IInv, WrittenInv, BuildsApart, Writers, Prunes, Written
<1>6. AloneInv'
  BY <1>1 DEF IInv, AloneInv, Prunes, Listed, InDir, PartialOf
<1> QED BY <1>2, <1>3, <1>4, <1>5, <1>6 DEF IInv

\* The invariant is inductive.
LEMMA Inductive == ASSUME IInv, [Next]_vars PROVE IInv'
<1>1. CASE UNCHANGED vars
  BY <1>1, Stutters
<1>2. CASE Next
  <2>1. PICK c \in Calls : Acts(c) /\ UNCHANGED op
    BY <1>2, StepActs
  <2>2. TypeOK /\ StageInv /\ OwnData /\ GotInv /\ PublishedInv /\ HasInv /\ MetInv
        /\ AccumulateInv /\ WrittenInv /\ PruneInv /\ AloneInv /\ KeptInv
    BY DEF IInv
  <2>3. TypeOK' /\ StageInv' /\ PublishedInv'
    BY <2>1, <2>2, TypeStep, StageStep, PublishedStep
  <2>4. OwnData' /\ GotInv' /\ HasInv' /\ MetInv'
    BY <2>1, <2>2, OwnDataStep, GotStep, HasStep, MetStep
  <2>5. AccumulateInv' /\ WrittenInv' /\ PruneInv'
    BY <2>1, <2>2, AccumulateStep, WrittenStep, PruneStep
  <2>6. AloneInv' /\ KeptInv'
    BY <2>1, <2>2, AloneStep, KeptStep
  <2> QED BY <2>3, <2>4, <2>5, <2>6 DEF IInv
<1> QED BY <1>1, <1>2

\* Everything below at once, for any number of calls of import, update, profile
\* compilation, load and `cache prune`, and any number of kills.
THEOREM Invariant == Spec => []IInv
BY InitInv, Inductive, PTL DEF Spec

\* write_dataset_bundles: whatever was killed where, as long as no prune ran
\* next to a build, the dataset manifest names files that exist.
THEOREM CompleteDataset == Spec => []DatasetComplete
<1>1. IInv => DatasetComplete
  BY DEF IInv, WrittenInv, BuildsApart, DatasetComplete
<1> QED BY <1>1, Invariant, PTL

\* Loads, compilations and updates never mix the files of two builds, and as
\* long as prune_bundle_cache runs alone nothing that another call does makes
\* one fail, but a compilation for another build between the reads of a load.
THEOREM OneBuildLoads == Spec => []LoadsHold
<1>1. IInv => LoadsHold
  BY DEF IInv, GotInv, KeptInv, PrunesAlone, LoadsHold, LoadedTogether, FailsOnlyByPrune
<1> QED BY <1>1, Invariant, PTL

\* update.rs starts from the source state of the build the manifest names:
\* updates that meet no other build lose no change.
THEOREM SerialUpdatesAccumulate == Spec => []UpdatesAccumulate
<1>1. IInv => UpdatesAccumulate
  BY DEF IInv, AccumulateInv, SerialUpdates, UpdatesAccumulate
<1> QED BY <1>1, Invariant, PTL

\* A prune that meets nobody spares what the manifest names and, when it ends,
\* has left nothing else.
LEMMA ExactStep ==
  ASSUME IInv, [Next]_vars, NEW c \in Prunes \cap UnderWay, call'[c].met = {}
  PROVE  /\ \A k \in Kinds : file[k][manifest] # Absent => file'[k][manifest'] # Absent
         /\ call'[c].pc = "done" =>
              /\ \A k \in Kinds, b \in Builds : file'[k][b] # Absent => b = manifest'
              /\ metric' # Absent <=> compiled' # Absent
              /\ compiled' \in {Absent, manifest'}
              /\ \A d \in Calls : partial'[d] = "none"
<1>0. /\ TypeOK /\ StageInv /\ PublishedInv /\ MetInv /\ PruneInv /\ AloneInv
      /\ c \in Calls /\ op[c] = "prune"
  BY DEF IInv, Prunes
<1>1. CASE UNCHANGED vars
  BY <1>1 DEF vars, moving, UnderWay, Ended
<1>2. CASE Next
  <2>1. PICK a \in Calls : Acts(a) /\ UNCHANGED op
    BY <1>2, StepActs
  <2>2. a = c /\ call[c].met = {} /\ ~Begin(c)
    BY <1>0, <2>1, AloneActs
  <2>3. Acts(c)
    BY <2>1, <2>2
  <2>4. ~GetsBundle(c) /\ ~GetsNames(c) /\ ~PutsFile(c) /\ ~WriteManifest(c)
    BY <1>0, StageIs, ReadingIs DEF GetsBundle, GetsNames, PutsFile, ReadBundle, ReadNames, EndFile, WriteManifest, At
  <2>5. manifest' = manifest /\ manifest \in Builds
    BY <1>0, <2>1, <2>3, <2>4, ManifestStep DEF TypeOK
  <2>6. ASSUME call[c].pc \in Judged PROVE Alone(c) /\ call[c].build = manifest
    BY <1>0, <2>2, <2>6 DEF AloneInv, Alone, PruneInv, Based, Judged, Ended
  <2>7. \A k \in Kinds : file[k][manifest] # Absent => file'[k][manifest'] # Absent
    <3>1. ASSUME NEW f, Removes(c, f), NEW k \in Kinds, file[k][manifest] # Absent
          PROVE  file'[k][manifest] # Absent
      <4>1. /\ call[c].pc = "unlink" /\ f \in call[c].doomed
            /\ file' = [l \in Kinds |-> [b \in Builds |-> IF f = <<l, b>> THEN Absent ELSE file[l][b]]]
        BY <1>0, <3>1, UnlinkIs DEF Removes, Unlink, At
      <4>2. f # <<k, manifest>>
        BY <1>0, <2>6, <4>1 DEF PruneInv, Judged
      <4> QED BY <2>5, <3>1, <4>1, <4>2
    <3>2. CASE JudgeCompiled(c)
      BY <2>5, <3>2 DEF JudgeCompiled, disk
    <3> QED BY <1>0, <2>1, <2>2, <2>3, <2>4, <2>5, <3>1, <3>2, StepIs, ReadManifestIs, ListIs DEF Quiet
  <2>8. ASSUME call'[c].pc = "done"
        PROVE  /\ \A k \in Kinds, b \in Builds : file'[k][b] # Absent => b = manifest'
               /\ metric' # Absent <=> compiled' # Absent
               /\ compiled' \in {Absent, manifest'}
               /\ \A d \in Calls : partial'[d] = "none"
    <3>1. EndPrune(c)
      <4>1. call[c].pc \in {"manifest", "compiled", "list", "forget", "unlink"}
        BY <1>0 DEF StageInv, StageOf, Stages, UnderWay
      <4>2. Fail(c) => call'[c].pc # "done"
        BY <1>0, FailIs DEF Moves
      <4>3. ~ReadManifest(c) /\ ~ListDir(c)
        BY <1>0, <2>8, ReadManifestIs, ListIs DEF Moves
      <4>4. ~JudgeCompiled(c)
        <5>1. JudgeCompiled(c) => call[c].build \in Builds
          BY <1>0, BasedBuild DEF JudgeCompiled, At, Based, Ended
        <5> QED BY <1>0, <2>8, <5>1, JudgeIs DEF Moves
      <4>5. ~ForgetCompiled(c)
        BY <1>0, <2>8, <4>2, GotoIs DEF ForgetCompiled, Moves, Pcs
      <4>6. ~Kill(c)
        BY <1>0, <2>8, GotoIs DEF Kill, Moves, Pcs
      <4>7. ASSUME NEW f \in call[c].doomed, Unlink(c, f) PROVE FALSE
        BY <1>0, <2>8, <4>2, <4>7, UnlinkIs DEF Unlink, Moves
      <4> QED BY <2>2, <2>3, <4>1, <4>3, <4>4, <4>5, <4>6, <4>7 DEF Acts, At, ReadBundle, BeginFile, EndFile, WriteManifest,
              BeginMetric, EndMetric, RecordCompiled, ReadCompiled, LoadProfile, ReadNames
    <3>2. call[c].pc = "unlink" /\ call[c].doomed = {} /\ UNCHANGED <<manifest, file, compiled, metric, partial>>
      BY <3>1 DEF EndPrune, At, disk
    <3>3. Alone(c) /\ call[c].build = manifest
      BY <2>6, <3>2 DEF Judged
    <3>4. \A k \in Dirs : \A f \in InDir(k) : f = Metric \/ \E l \in Kinds : f = <<l, manifest>>
      BY <3>2, <3>3 DEF Alone, Listed
    <3>5. \A k \in Dirs : \A f \in InDir(k) : f \in call[c].keep
      BY <3>2, <3>3 DEF Alone, Listed
    <3>6. ASSUME NEW k \in Kinds, NEW b \in Builds, file[k][b] # Absent PROVE b = manifest
      <4>1. <<k, b>> \in InDir(k) /\ k \in Dirs
        BY <3>6 DEF InDir, Dirs
      <4>2. <<k, b>> # Metric
        BY Kinds2
      <4> QED BY <3>4, <4>1, <4>2
    <3>7. ASSUME NEW d \in Calls PROVE partial[d] = "none"
      <4> SUFFICES ASSUME partial[d] # "none" PROVE FALSE
        OBVIOUS
      <4>1. partial[d] \in Dirs
        BY <1>0 DEF TypeOK
      <4>2. PartialOf(d) \in InDir(partial[d])
        BY DEF InDir
      <4> QED BY <3>4, <4>1, <4>2, Kinds2 DEF Metric
    <3>8. metric # Absent => Metric \in call[c].keep
      <4>1. metric # Absent => Metric \in InDir("metric")
        BY Kinds2 DEF InDir, Metric
      <4> QED BY <3>5, <4>1 DEF Dirs
    <3>9. /\ Metric \in call[c].keep <=> compiled # Absent /\ ~call[c].stale
          /\ Metric \in call[c].keep => compiled = manifest /\ metric # Absent
          /\ call[c].stale => compiled = Absent
      BY <3>2, <3>3 DEF Alone
    <3> QED BY <3>2, <3>6, <3>7, <3>8, <3>9
  <2> QED BY <2>7, <2>8
<1> QED BY <1>1, <1>2

\* prune_bundle_cache, when nothing runs beside it, deletes nothing the
\* manifests name and leaves nothing else in the directories of the store.
THEOREM PrunesAreExact == Spec => PruneIsExact
<1>1. IInv /\ [Next]_vars =>
        [\A c \in Prunes \cap UnderWay : call'[c].met = {} =>
           /\ \A k \in Kinds : file[k][manifest] # Absent => file'[k][manifest'] # Absent
           /\ call'[c].pc = "done" =>
                /\ \A k \in Kinds, b \in Builds : file'[k][b] # Absent => b = manifest'
                /\ metric' # Absent <=> compiled' # Absent
                /\ compiled' \in {Absent, manifest'}
                /\ \A d \in Calls : partial'[d] = "none"]_vars
  BY ExactStep
<1> QED BY <1>1, Invariant, PTL DEF Spec, PruneIsExact

=============================================================================
