------------------------- MODULE DynamicProfileCache -------------------------
(***************************************************************************)
(* The in-memory cache of request-defined street profiles, from            *)
(* crates/api/src/dynamic_profiles.rs.  Requests race for an LRU of        *)
(* prepared engines.  The first request to register as waiter of a missing *)
(* key spawns a compile task, which takes the single compile permit,       *)
(* rechecks the cache, compiles, inserts, and answers every waiter.        *)
(*                                                                         *)
(* A key stands for a serialized profile document; an engine is the number *)
(* of the build that made it, built[e] the key it was compiled from.       *)
(***************************************************************************)
EXTENDS Naturals, SequencesExt

CONSTANTS
  Requests,   \* HTTP requests, each resolving one profile once
  Keys,       \* serialized profile documents
  Preloaded,  \* the keys equal to a named profile of the runtime
  Capacity    \* NETWEEVIL_DYNAMIC_PROFILE_CACHE_ENTRIES

\* from_env refuses any other capacity.
ASSUME CapacityAssumption == Capacity \in 1..16
ASSUME PreloadedAssumption == Preloaded \subseteq Keys

VARIABLES
  entries,    \* LRU order, least recently used first: [key, engine]
  pending,    \* key -> requests waiting; absent from the code's map when {}
  task,       \* key -> progress of the compile task of that key
  result,     \* key -> what the task will send: [engine, compiled]
  slotQueue,  \* keys in the order of acquire; the head holds the permit
  built,      \* build number -> key, a history of all finished compiles
  pc,         \* request -> where it stands
  want,       \* request -> the key it asks for
  leader,     \* request -> it was the first waiter of its key
  answer      \* request -> [engine, status] it returned

vars == <<entries, pending, task, result, slotQueue, built,
          pc, want, leader, answer>>
taskVars == <<task, result, slotQueue, built>>
requestVars == <<pc, want, leader, answer>>

NoEngine == 0   \* stands for the Err(ApiError) of a failed compile
NoResult == [engine |-> NoEngine, compiled |-> FALSE]
NoAnswer == [engine |-> NoEngine, status |-> "none"]
TaskState == {"none", "spawned", "queued", "compiling", "finished"}
RequestState == {"new", "missed", "waiting", "done", "gone"}
Status == {"none", "preloaded", "hit", "miss", "error"}

\* The shape of the state.  What is cached was compiled, so a failed compile
\* is not remembered, and a named profile never takes a slot of the cache.
TypeOK ==
  /\ entries \in Seq([key: Keys \ Preloaded, engine: 1..Len(built)])
  /\ pending \in [Keys -> SUBSET Requests]
  /\ task \in [Keys -> TaskState]
  /\ result \in [Keys -> [engine: Nat, compiled: BOOLEAN]]
  /\ slotQueue \in Seq(Keys)
  /\ built \in Seq(Keys)
  /\ pc \in [Requests -> RequestState]
  /\ want \in [Requests -> Keys]
  /\ leader \in [Requests -> BOOLEAN]
  /\ answer \in [Requests -> [engine: Nat, status: Status]]

Init ==
  /\ entries = <<>>
  /\ pending = [k \in Keys |-> {}]
  /\ task = [k \in Keys |-> "none"]
  /\ result = [k \in Keys |-> NoResult]
  /\ slotQueue = <<>>
  /\ built = <<>>
  /\ pc = [r \in Requests |-> "new"]
  /\ want \in [Requests -> Keys]
  /\ leader = [r \in Requests |-> FALSE]
  /\ answer = [r \in Requests |-> NoAnswer]

-----------------------------------------------------------------------------
(* The LRU.                                                                *)

Cached(k) == \E i \in DOMAIN entries : entries[i].key = k
LastIndex(k) == Len(entries)
IndexOf(k) == CHOOSE i \in DOMAIN entries : entries[i].key = k

\* get: a hit moves the entry to the back.
Touch(k) == Append(RemoveAt(entries, IndexOf(k)), entries[IndexOf(k)])
\* insert: a full cache drops its front entry.
InsertUnbounded(k, e) == Append(entries, [key |-> k, engine |-> e])
Insert(k, e) ==
  Append(IF Len(entries) = Capacity THEN Tail(entries) ELSE entries,
         [key |-> k, engine |-> e])

-----------------------------------------------------------------------------
(* Requests.                                                               *)

Reply(r, e, status) ==
  /\ pc' = [pc EXCEPT ![r] = "done"]
  /\ answer' = [answer EXCEPT ![r] = [engine |-> e, status |-> status]]

\* A document equal to a named profile never touches the cache.
ServePreloaded(r) ==
  /\ pc[r] = "new"
  /\ want[r] \in Preloaded
  /\ Reply(r, NoEngine, "preloaded")
  /\ UNCHANGED <<entries, pending, taskVars, want, leader>>

ServeHit(r) ==
  /\ pc[r] = "new"
  /\ want[r] \notin Preloaded
  /\ Cached(want[r])
  /\ entries' = Touch(want[r])
  /\ Reply(r, entries[IndexOf(want[r])].engine, "hit")
  /\ UNCHANGED <<pending, taskVars, want, leader>>

Miss(r) ==
  /\ pc[r] = "new"
  /\ want[r] \notin Preloaded
  /\ ~Cached(want[r])
  /\ pc' = [pc EXCEPT ![r] = "missed"]
  /\ UNCHANGED <<entries, pending, taskVars, want, leader, answer>>

\* Registration happens under the pending lock, after the cache lock was
\* released.  Only a first waiter spawns the compile task.
JoinAlwaysLead(r) ==
  /\ pc[r] = "missed"
  /\ pc' = [pc EXCEPT ![r] = "waiting"]
  /\ pending' = [pending EXCEPT ![want[r]] = @ \cup {r}]
  /\ leader' = [leader EXCEPT ![r] = TRUE]
  /\ task' = [task EXCEPT ![want[r]] = IF @ = "none" THEN "spawned" ELSE @]
  /\ UNCHANGED <<entries, result, slotQueue, built, want, answer>>

Join(r) ==
  LET leads == pending[want[r]] = {} IN
  /\ pc[r] = "missed"
  /\ pc' = [pc EXCEPT ![r] = "waiting"]
  /\ pending' = [pending EXCEPT ![want[r]] = @ \cup {r}]
  /\ leader' = [leader EXCEPT ![r] = leads]
  /\ task' = [task EXCEPT ![want[r]] = IF leads THEN "spawned" ELSE @]
  /\ UNCHANGED <<entries, result, slotQueue, built, want, answer>>

\* The HTTP client goes away: its receiver is dropped, the sender stays in
\* the pending map and the task keeps running.
DisconnectReleases(r) ==
  /\ pc[r] = "waiting"
  /\ pc' = [pc EXCEPT ![r] = "gone"]
  /\ task' = [task EXCEPT ![want[r]] =
                IF leader[r] /\ @ = "spawned" THEN "none" ELSE @]
  /\ UNCHANGED <<entries, pending, result, slotQueue, built, want, leader,
                 answer>>

Disconnect(r) ==
  /\ pc[r] = "waiting"
  /\ pc' = [pc EXCEPT ![r] = "gone"]
  /\ UNCHANGED <<entries, pending, taskVars, want, leader, answer>>

-----------------------------------------------------------------------------
(* The compile task of a key.                                              *)

HoldsSlot(k) == slotQueue # <<>> /\ Head(slotQueue) = k

\* tokio's semaphore hands its permit out in acquisition order.
QueueForSlot(k) ==
  /\ task[k] = "spawned"
  /\ task' = [task EXCEPT ![k] = "queued"]
  /\ slotQueue' = Append(slotQueue, k)
  /\ UNCHANGED <<entries, pending, result, built, requestVars>>

\* The permit is dropped when the blocking job returns or unwinds.
Finish(k, e, compiled) ==
  /\ task' = [task EXCEPT ![k] = "finished"]
  /\ result' = [result EXCEPT ![k] = [engine |-> e, compiled |-> compiled]]
  /\ slotQueue' = Tail(slotQueue)

\* The recheck: an earlier task of this key may have inserted it between
\* this key's miss and this task's turn.
RecheckHit(k) ==
  /\ task[k] = "queued"
  /\ HoldsSlot(k)
  /\ Cached(k)
  /\ entries' = Touch(k)
  /\ Finish(k, entries[IndexOf(k)].engine, FALSE)
  /\ UNCHANGED <<pending, built, requestVars>>

RecheckMissUnchecked(k) ==
  /\ task[k] = "queued"
  /\ HoldsSlot(k)
  /\ task' = [task EXCEPT ![k] = "compiling"]
  /\ UNCHANGED <<entries, pending, result, slotQueue, built, requestVars>>

RecheckMiss(k) ==
  /\ task[k] = "queued"
  /\ HoldsSlot(k)
  /\ ~Cached(k)
  /\ task' = [task EXCEPT ![k] = "compiling"]
  /\ UNCHANGED <<entries, pending, result, slotQueue, built, requestVars>>

Compiled(k) ==
  /\ task[k] = "compiling"
  /\ built' = Append(built, k)
  /\ entries' = Insert(k, Len(built) + 1)
  /\ Finish(k, Len(built) + 1, TRUE)
  /\ UNCHANGED <<pending, requestVars>>

CacheFailure(k) ==
  /\ task[k] = "compiling"
  /\ entries' = Insert(k, NoEngine)
  /\ Finish(k, NoEngine, FALSE)
  /\ UNCHANGED <<pending, built, requestVars>>

\* The compile returns an error or panics (the JoinError becomes one).
CompileFailed(k) ==
  /\ task[k] = "compiling"
  /\ Finish(k, NoEngine, FALSE)
  /\ UNCHANGED <<entries, pending, built, requestVars>>

ReplyOf(r, res) ==
  [engine |-> res.engine,
   status |-> IF res.engine = NoEngine THEN "error"
              ELSE IF leader[r] /\ res.compiled THEN "miss" ELSE "hit"]

\* Removing the waiters from the map and sending to them is one step: no
\* one else can see the removed list.
DeliverToLeader(k) ==
  LET served == {r \in pending[k] : pc[r] = "waiting" /\ leader[r]} IN
  /\ task[k] = "finished"
  /\ task' = [task EXCEPT ![k] = "none"]
  /\ pending' = [pending EXCEPT ![k] = {}]
  /\ pc' = [r \in Requests |-> IF r \in served THEN "done" ELSE pc[r]]
  /\ answer' = [r \in Requests |->
                  IF r \in served THEN ReplyOf(r, result[k]) ELSE answer[r]]
  /\ result' = [result EXCEPT ![k] = NoResult]
  /\ UNCHANGED <<entries, slotQueue, built, want, leader>>

Deliver(k) ==
  LET served == {r \in pending[k] : pc[r] = "waiting"} IN
  /\ task[k] = "finished"
  /\ task' = [task EXCEPT ![k] = "none"]
  /\ pending' = [pending EXCEPT ![k] = {}]
  /\ pc' = [r \in Requests |-> IF r \in served THEN "done" ELSE pc[r]]
  /\ answer' = [r \in Requests |->
                  IF r \in served THEN ReplyOf(r, result[k]) ELSE answer[r]]
  /\ result' = [result EXCEPT ![k] = NoResult]
  /\ UNCHANGED <<entries, slotQueue, built, want, leader>>

-----------------------------------------------------------------------------

RequestStep(r) ==
  ServePreloaded(r) \/ ServeHit(r) \/ Miss(r) \/ Join(r) \/ Disconnect(r)

TaskStep(k) ==
  \/ QueueForSlot(k) \/ RecheckHit(k) \/ RecheckMiss(k)
  \/ Compiled(k) \/ CompileFailed(k) \/ Deliver(k)

Next == (\E r \in Requests : RequestStep(r)) \/ (\E k \in Keys : TaskStep(k))

\* Tasks are polled and blocking jobs run to an end; a request that missed
\* reaches the pending lock without awaiting.  Nothing makes a client
\* arrive or leave.
Fairness ==
  /\ \A r \in Requests : WF_vars(Join(r))
  /\ \A k \in Keys : WF_vars(TaskStep(k))

Spec == Init /\ [][Next]_vars /\ Fairness

-----------------------------------------------------------------------------
(* What makes the cache correct.                                           *)

\* The cache never holds two engines for one document and never more than
\* its capacity: insert itself looks for neither the key nor a length
\* beyond the capacity, so this rests on the permit and the recheck.
CacheWellFormed ==
  /\ Len(entries) <= Capacity
  /\ \A i, j \in DOMAIN entries : entries[i].key = entries[j].key => i = j

\* Compiles are large; at most one runs at a time, and never for a document
\* that already has an engine in the cache.
OneCompile ==
  \A k \in Keys : task[k] = "compiling" =>
    /\ ~Cached(k)
    /\ \A other \in Keys : task[other] = "compiling" => other = k

\* No waiter is stranded: a key has waiters exactly while a task that will
\* drain them is alive.
WaitersHaveTask == \A k \in Keys : pending[k] # {} <=> task[k] # "none"

\* Every answer carries an engine compiled from the document asked for,
\* even when that engine has been evicted since.
AnswersOwnProfile ==
  \A r \in Requests : answer[r].status \in {"hit", "miss"} =>
    /\ answer[r].engine \in 1..Len(built)
    /\ built[answer[r].engine] = want[r]

\* A compile is reported as a "miss" by at most one request, the one that
\* caused it; everyone sharing its engine reports a "hit".
OneMissPerCompile ==
  \A r, s \in Requests :
    (/\ answer[r].status = "miss" /\ answer[s].status = "miss"
     /\ answer[r].engine = answer[s].engine) => r = s

\* Every waiter still connected is answered, whatever compile fails and
\* whichever other client disconnects.
WaiterAnswered ==
  \A r \in Requests : pc[r] = "waiting" ~> pc[r] \in {"done", "gone"}

-----------------------------------------------------------------------------
(* The inductive strengthening of the safety properties.                   *)

\* The permit queue holds exactly the tasks between acquire and release,
\* once each, and a compiling task is its head.
SlotInv ==
  /\ \A i, j \in DOMAIN slotQueue : slotQueue[i] = slotQueue[j] => i = j
  /\ \A k \in Keys : task[k] \in {"queued", "compiling"}
                       <=> \E i \in DOMAIN slotQueue : slotQueue[i] = k
  /\ \A k \in Keys : task[k] = "compiling" => HoldsSlot(k) /\ ~Cached(k)

\* A waiting request is registered under its own key, which is not a named
\* profile, and each key has at most one leader among its waiters.
WaiterInv ==
  /\ WaitersHaveTask
  /\ \A r \in Requests : pc[r] = "waiting" => r \in pending[want[r]]
  /\ \A k \in Keys : \A r \in pending[k] :
       want[r] = k /\ pc[r] \in {"waiting", "gone"}
  /\ \A k \in Keys : \A r, s \in pending[k] : leader[r] /\ leader[s] => r = s
  /\ \A r \in Requests :
       pc[r] \in {"missed", "waiting", "gone"} => want[r] \notin Preloaded

\* Engines in the cache, in results and in answers belong to their key.
EngineOf(builds, e, k) == e \in 1..Len(builds) /\ builds[e] = k
EngineInv ==
  /\ \A i \in DOMAIN entries : built[entries[i].engine] = entries[i].key
  /\ \A k \in Keys : result[k].engine # NoEngine => EngineOf(built, result[k].engine, k)
  /\ \A k \in Keys : task[k] # "finished" => result[k] = NoResult
  /\ AnswersOwnProfile

\* The engine of an undelivered compile has not been reported as a miss.
MissInv ==
  /\ OneMissPerCompile
  /\ \A k \in Keys : \A r \in Requests :
       (result[k].compiled /\ answer[r].status = "miss")
         => answer[r].engine # result[k].engine

IInv == TypeOK /\ CacheWellFormed /\ SlotInv /\ WaiterInv /\ EngineInv /\ MissInv
=============================================================================
