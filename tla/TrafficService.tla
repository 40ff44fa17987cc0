---------------------------- MODULE TrafficService ----------------------------
(***************************************************************************)
(* Traffic-aware engines: crates/query/src/traffic/router.rs with the live *)
(* queue and its worker from crates/api/src/traffic.rs.                    *)
(*                                                                         *)
(* Requests select, per profile, an engine customized for the bucket of    *)
(* their departure and the live entries valid then; each router keeps an   *)
(* LRU of such engines.  One worker merges queued live batches, builds     *)
(* every router's engine for the current instant, and only then publishes  *)
(* the new snapshot.  Between batches it prepares engines ahead of bucket  *)
(* boundaries and live expiries.                                           *)
(*                                                                         *)
(* An engine is abstracted to what its metric was derived from: the bucket *)
(* class and the set of live values baked in.  A slot is the OnceLock that *)
(* callers of one key share; a number stands for its address and is reused *)
(* once nothing refers to it, as Arc memory is.                            *)
(***************************************************************************)
EXTENDS LiveTrafficUpdates

CONSTANTS
  Requests,     \* threads serving routing requests, one after the other
  Clients,      \* clients posting one live batch each
  Worker,       \* the live worker
  Setups,       \* bound: the services considered, records of
                \*   departures: the times routes are asked for
                \*   posts: client -> the batches it may post, [updates, replace]
                \*   wait: whether clients use ?wait
                \*   routers: number of motorized profiles, in the order of their ids
                \*   ticks: ticks per time-of-week bucket
                \*   failing: the routers whose engines cannot be derived
  MaxRouters,   \* bound on routers
  Capacity,     \* NETWEEVIL_TRAFFIC_CACHE_ENTRIES
  BucketClass,  \* <<class of bucket 0, class of bucket 1, ...>>
  Lead,         \* PREWARM_LEAD in ticks
  MaxTime       \* bound: the clock stops here

ASSUME WorkerAssumption == Worker \notin Requests /\ IsFiniteSet(Requests)
ASSUME SetupAssumption ==
  /\ Capacity \in 1..64 /\ MaxRouters \in Nat
  /\ \A s \in Setups : /\ s.routers \in 1..MaxRouters /\ s.failing \subseteq 1..s.routers
                       /\ s.departures \subseteq Nat /\ s.wait \in BOOLEAN
                       /\ DOMAIN s.posts = Clients
                       /\ s.ticks \in Nat \ {0}
\* What parsing a request body leaves: well-formed updates.
ASSUME PostsAssumption ==
  \A s \in Setups : \A c \in Clients : \A job \in s.posts[c] :
    /\ job.replace \in BOOLEAN /\ job.updates \in Seq(Range(job.updates))
    /\ \A u \in Range(job.updates) : u.feature \in Features /\ u.ttl \in BOOLEAN /\ u.t \in Nat
ASSUME ClockAssumption ==
  /\ Lead \in Nat /\ MaxTime \in Nat
  /\ BucketClass \in Seq(Nat) /\ BucketClass # <<>>

VARIABLES
  now,      \* the clock
  live,     \* the published snapshot: [version, entries]
  cache,    \* router -> LRU of [key, slot], least recently used first
  slots,    \* slot -> [state, engine]
  call,     \* caller -> its progress through get_or_build
  queue,    \* jobs sent to the worker: [updates, replace, client, since], since
            \* a history of when each was accepted
  client,   \* client -> [status, job, wait]
  worker,   \* the worker's loop and the job it is on
  setup     \* the service that runs: what never changes

moving == <<now, live, cache, slots, call, queue, client, worker>>
vars == <<moving, setup>>

Routers == setup.routers
BucketTicks == setup.ticks

Callers == Requests \cup {Worker}
SlotIds == 1..(Capacity * MaxRouters + Cardinality(Callers))
NoSlot == 0
NoEngine == [class |-> 0, live |-> {}]
EmptySlot == [state |-> "empty", engine |-> NoEngine]
NoSnapshot == [version |-> 0, entries |-> NoEntries]
NoCall == [pc |-> "none", router |-> 1, dep |-> 0, snap |-> NoSnapshot,
           slot |-> NoSlot]
NoJob == [updates |-> <<>>, replace |-> FALSE]

-----------------------------------------------------------------------------
(* Metrics and their keys.                                                 *)

ClassAt(t) == BucketClass[((t \div BucketTicks) % Len(BucketClass)) + 1]
NextBoundary(t) == (t \div BucketTicks + 1) * BucketTicks

\* Position of a feature in the snapshot's sorted list of entries.
IndexIn(es, f) == Cardinality({g \in DOMAIN es : g < f})
ActiveIndices(t, es) == {IndexIn(es, f) : f \in ActiveFeatures(t, es)}

KeyOnStatic(t, snap) ==
  [class |-> ClassAt(t), version |-> 0, active |-> ActiveIndices(t, snap.entries)]
Key(t, snap) ==
  LET active == ActiveIndices(t, snap.entries) IN
  [class |-> ClassAt(t),
   version |-> IF active = {} THEN 0 ELSE snap.version,
   active |-> active]

\* The engine a build for that key bakes: the live values at the key's
\* positions of the builder's snapshot.
EngineFor(key, snap) ==
  LET baked == {f \in DOMAIN snap.entries : IndexIn(snap.entries, f) \in key.active}
  IN  [class |-> key.class, live |-> {<<f, snap.entries[f].value>> : f \in baked}]

-----------------------------------------------------------------------------

Init ==
  /\ setup \in Setups
  /\ now = 0
  /\ live = NoSnapshot
  /\ cache = [r \in 1..Routers |-> <<>>]
  /\ slots = [s \in SlotIds |-> EmptySlot]
  /\ call = [c \in Callers |-> NoCall]
  /\ queue = <<>>
  /\ client = [c \in Clients |-> [status |-> "idle", job |-> NoJob]]
  /\ worker = [pc |-> "off", batch |-> <<>>, next |-> NoSnapshot, at |-> 0,
               event |-> 0, until |-> 0, report |-> "none"]

\* Wall clock; UNCHANGED for everyone else.
Tick ==
  /\ now < MaxTime
  /\ now' = now + 1
  /\ UNCHANGED <<live, cache, slots, call, queue, client, worker>>

\* The first traffic activity starts the worker.  Each turn of its loop
\* computes the next event it will prepare for, after now and after the last
\* one it prepared; a worker that has prepared none starts from now.
Loop(until, snap) ==
  LET from == IF until > now THEN until ELSE now IN
  [worker EXCEPT !.pc = "idle", !.batch = <<>>, !.next = NoSnapshot,
                 !.at = 0, !.report = "none", !.until = until,
                 !.event = Min({NextBoundary(from)} \cup ChangesAfter(from, snap.entries))]
StartWorker == worker' = IF worker.pc = "off" THEN Loop(0, live) ELSE worker

-----------------------------------------------------------------------------
(* EngineCache::get_or_build, in the steps its locks and the OnceLock       *)
(* separate.  Callers are requests and the worker.                          *)

Held(caches, calls) ==
  (UNION {{e.slot : e \in Range(caches[r])} : r \in 1..Routers})
  \cup {calls[c].slot : c \in Callers}

\* What no Arc refers to any more is freed.
Collect(caches, calls, heap) ==
  [s \in SlotIds |-> IF s \in Held(caches, calls) THEN heap[s] ELSE EmptySlot]

Fresh == Min(SlotIds \ Held(cache, call))
Positions(r, key) == {i \in DOMAIN cache[r] : cache[r][i].key = key}

Lookup(c) ==
  LET r == call[c].router
      key == Key(call[c].dep, call[c].snap)
      hits == Positions(r, key)
      slot == IF hits # {} THEN cache[r][Min(hits)].slot ELSE Fresh
      kept == IF hits # {} THEN RemoveAt(cache[r], Min(hits))
              ELSE IF Len(cache[r]) >= Capacity THEN Tail(cache[r])
              ELSE cache[r]
  IN  /\ call[c].pc = "lookup"
      /\ call' = [call EXCEPT ![c].pc = "get", ![c].slot = slot]
      /\ cache' = [cache EXCEPT ![r] = Append(kept, [key |-> key, slot |-> slot])]
      /\ slots' = Collect(cache', call', slots)
      /\ UNCHANGED <<now, live, queue, client, worker>>

BeginBuild(c) ==
  /\ call[c].pc = "get"
  /\ slots[call[c].slot].state = "empty"
  /\ slots' = [slots EXCEPT ![call[c].slot].state = "building"]
  /\ call' = [call EXCEPT ![c].pc = "building"]
  /\ UNCHANGED <<now, live, cache, queue, client, worker>>

EndBuild(c) ==
  LET key == Key(call[c].dep, call[c].snap) IN
  /\ call[c].pc = "building"
  /\ slots' = [slots EXCEPT ![call[c].slot] =
       IF call[c].router \in setup.failing
       THEN [state |-> "failed", engine |-> NoEngine]
       ELSE [state |-> "ready", engine |-> EngineFor(key, call[c].snap)]]
  /\ call' = [call EXCEPT ![c].pc = "get"]
  /\ UNCHANGED <<now, live, cache, queue, client, worker>>

Settled(c) ==
  call[c].pc = "get" /\ slots[call[c].slot].state \in {"ready", "failed"}
Succeeded(c) == slots[call[c].slot].state = "ready"

\* A failed slot leaves the cache, wherever its entry stands by then.
ForgetFailure(c) ==
  LET r == call[c].router
      places == {i \in DOMAIN cache[r] : cache[r][i].slot = call[c].slot}
  IN  cache' = [cache EXCEPT ![r] =
        IF Succeeded(c) \/ places = {} THEN @ ELSE RemoveAt(@, Min(places))]

-----------------------------------------------------------------------------
(* Requests.                                                               *)

\* The snapshot is read once; departures may lie in the past or the future.
StartRequest(r) ==
  /\ call[r].pc = "none"
  /\ \E router \in 1..Routers, dep \in setup.departures, snap \in {NoSnapshot, live} :
       call' = [call EXCEPT ![r] = [NoCall EXCEPT
                  !.pc = "lookup", !.router = router, !.dep = dep, !.snap = snap]]
  /\ StartWorker
  /\ UNCHANGED <<now, live, cache, slots, queue, client>>

FinishRequest(r) ==
  /\ Settled(r)
  /\ call' = [call EXCEPT ![r] = NoCall]
  /\ ForgetFailure(r)
  /\ slots' = Collect(cache', call', slots)
  /\ UNCHANGED <<now, live, queue, client, worker>>

-----------------------------------------------------------------------------
(* Clients of the live endpoint.                                           *)

\* post_live_traffic validates at receipt, then queues.  With wait the
\* client is answered after publication, otherwise at once.
Post(c, job, wait) ==
  /\ client[c].status = "idle"
  /\ IF \A u \in Range(job.updates) : Valid(u, now)
     THEN /\ queue' = Append(queue, [updates |-> job.updates, replace |-> job.replace,
                                     client |-> c, since |-> now])
          /\ client' = [client EXCEPT ![c] =
               [status |-> IF wait THEN "waiting" ELSE "accepted", job |-> job]]
          /\ StartWorker
     ELSE /\ client' = [client EXCEPT ![c].status = "rejected"]
          /\ UNCHANGED <<queue, worker>>
  /\ UNCHANGED <<now, live, cache, slots, call>>

-----------------------------------------------------------------------------
(* The worker.                                                             *)

\* Everything queued is taken at once.
TakeBatch ==
  /\ worker.pc = "idle"
  /\ queue # <<>>
  /\ worker' = [worker EXCEPT !.pc = "taken", !.batch = queue]
  /\ queue' = <<>>
  /\ UNCHANGED <<now, live, cache, slots, call, client>>

\* A replacing job discards everything queued before it.
Replacing == {i \in DOMAIN worker.batch : worker.batch[i].replace}
FirstReplacing ==
  IF Replacing = {} THEN worker.batch
  ELSE SubSeq(worker.batch, Min(Replacing), Len(worker.batch))
Effective ==
  IF Replacing = {} THEN worker.batch
  ELSE SubSeq(worker.batch, Max(Replacing), Len(worker.batch))
Updates == FlattenSeq([i \in DOMAIN Effective |-> Effective[i].updates])

Prepare(router, at, snap) ==
  call' = [call EXCEPT ![Worker] = [NoCall EXCEPT
             !.pc = "lookup", !.router = router, !.dep = at, !.snap = snap]]

NextSnapshot ==
  [version |-> live.version + 1,
   entries |-> NextEntries(now, live.entries, Updates, Replacing # {})]

\* apply_live up to its first engine.
BeginApply ==
  /\ worker.pc = "taken"
  /\ IF \A u \in Range(Updates) : Valid(u, now)
     THEN /\ worker' = [worker EXCEPT !.pc = "applying", !.next = NextSnapshot, !.at = now]
          /\ Prepare(1, now, NextSnapshot)
     ELSE /\ worker' = [worker EXCEPT !.pc = "replying", !.report = "failed"]
          /\ UNCHANGED call
  /\ UNCHANGED <<now, live, cache, slots, queue, client>>

\* The engine of one router is there: on to the next router.
NextRouter ==
  /\ worker.pc \in {"applying", "prewarming"}
  /\ Settled(Worker) /\ Succeeded(Worker)
  /\ call[Worker].router < Routers
  /\ Prepare(call[Worker].router + 1, call[Worker].dep, call[Worker].snap)
  /\ slots' = Collect(cache, call', slots)
  /\ UNCHANGED <<now, live, cache, queue, client, worker>>

PublishEarly ==
  /\ worker.pc = "applying"
  /\ Settled(Worker) /\ Succeeded(Worker)
  /\ live' = worker.next
  /\ call' = [call EXCEPT ![Worker] = NoCall]
  /\ slots' = Collect(cache, call', slots)
  /\ worker' = [worker EXCEPT !.pc = "replying", !.report = "ok"]
  /\ UNCHANGED <<now, cache, queue, client>>

\* Publication waits for the last router.
Publish ==
  /\ worker.pc = "applying"
  /\ Settled(Worker) /\ Succeeded(Worker)
  /\ call[Worker].router = Routers
  /\ live' = worker.next
  /\ call' = [call EXCEPT ![Worker] = NoCall]
  /\ slots' = Collect(cache, call', slots)
  /\ worker' = [worker EXCEPT !.pc = "replying", !.report = "ok"]
  /\ UNCHANGED <<now, cache, queue, client>>

\* A router's engine could not be built: nothing is published.
AbandonApply ==
  /\ worker.pc = "applying"
  /\ Settled(Worker) /\ ~Succeeded(Worker)
  /\ ForgetFailure(Worker)
  /\ call' = [call EXCEPT ![Worker] = NoCall]
  /\ slots' = Collect(cache', call', slots)
  /\ worker' = [worker EXCEPT !.pc = "replying", !.report = "failed"]
  /\ UNCHANGED <<now, live, queue, client>>

\* One result for every job of the batch, the discarded ones included.
ReplyToEffective ==
  LET served == {Effective[i].client : i \in DOMAIN Effective} IN
  /\ worker.pc = "replying"
  /\ client' = [c \in Clients |->
       IF c \in served /\ client[c].status = "waiting"
       THEN [client[c] EXCEPT !.status = worker.report] ELSE client[c]]
  /\ worker' = Loop(worker.until, live)
  /\ UNCHANGED <<now, live, cache, slots, call, queue>>

Reply ==
  LET served == {worker.batch[i].client : i \in DOMAIN worker.batch} IN
  /\ worker.pc = "replying"
  /\ client' = [c \in Clients |->
       IF c \in served /\ client[c].status = "waiting"
       THEN [client[c] EXCEPT !.status = worker.report] ELSE client[c]]
  /\ worker' = Loop(worker.until, live)
  /\ UNCHANGED <<now, live, cache, slots, call, queue>>

\* The sleep of the loop ends Lead before the event, never before now.
BeginPrewarm ==
  /\ worker.pc = "idle"
  /\ now + Lead >= worker.event
  /\ worker' = [worker EXCEPT !.pc = "prewarming"]
  /\ Prepare(1, worker.event, live)
  /\ UNCHANGED <<now, live, cache, slots, queue, client>>

\* The event counts as prepared even if a router failed.
EndPrewarm ==
  /\ worker.pc = "prewarming"
  /\ Settled(Worker)
  /\ Succeeded(Worker) => call[Worker].router = Routers
  /\ ForgetFailure(Worker)
  /\ call' = [call EXCEPT ![Worker] = NoCall]
  /\ slots' = Collect(cache', call', slots)
  /\ worker' = Loop(worker.event, live)
  /\ UNCHANGED <<now, live, queue, client>>

-----------------------------------------------------------------------------

CallStep(c) == Lookup(c) \/ BeginBuild(c) \/ EndBuild(c)

RequestStep(r) == StartRequest(r) \/ CallStep(r) \/ FinishRequest(r)

Applying ==
  \/ TakeBatch \/ BeginApply \/ NextRouter \/ Publish \/ AbandonApply
  \/ Reply \/ BeginPrewarm \/ EndPrewarm

Next ==
  /\ \/ Tick
     \/ \E r \in Requests : RequestStep(r)
     \/ \E c \in Clients : \E job \in setup.posts[c] : Post(c, job, setup.wait)
     \/ Applying
     \/ CallStep(Worker)
  /\ UNCHANGED setup

\* Threads that hold work finish it, and a worker with jobs takes them:
\* select picks the queue eventually, since it prepares each event once.
Fairness ==
  /\ \A r \in Requests : WF_moving(CallStep(r) \/ FinishRequest(r))
  /\ WF_moving(CallStep(Worker) \/ NextRouter \/ BeginApply \/ Publish
             \/ AbandonApply \/ Reply \/ EndPrewarm)
  /\ WF_moving(TakeBatch)

Spec == Init /\ [][Next]_vars /\ Fairness

-----------------------------------------------------------------------------
(* What makes the service correct.                                         *)

\* The engine a caller obtains holds exactly the class of its departure's
\* bucket and the live values its own snapshot has active then, whoever
\* built it, under whichever snapshot and however often it was evicted:
\* equal keys identify equal engines.  Where one router's engines cannot be
\* derived, those that the others built for an abandoned swap stay under its
\* version; no snapshot is ever published then.
EngineMatchesRequest ==
  setup.failing = {} => \A c \in Callers : (Settled(c) /\ Succeeded(c)) =>
    LET es == call[c].snap.entries IN
    slots[call[c].slot].engine =
      [class |-> ClassAt(call[c].dep),
       live |-> {<<f, es[f].value>> : f \in ActiveFeatures(call[c].dep, es)}]

\* When a snapshot is published, every profile has a ready engine for the
\* instant it was applied at, so that no request pays for the swap; a cache
\* that is full may have evicted it already.
SwapStep ==
  live' # live =>
    \A r \in 1..Routers :
      \/ Len(cache[r]) = Capacity
      \/ \E i \in DOMAIN cache[r] :
           /\ cache[r][i].key = Key(worker.at, live')
           /\ slots[cache[r][i].slot].state = "ready"
SwapIsWarm == [][SwapStep]_vars

\* The queue, coalesced and applied in the background, behaves as if the
\* accepted batches were applied one after the other, each after it was
\* accepted.  None is lost unless this service's own engines cannot be built or
\* an update that still counts has expired when the worker decides.
Store == INSTANCE LiveTrafficStore WITH
  jobs <- (IF worker.pc = "replying" THEN <<>> ELSE worker.batch) \o queue,
  entries <- live.entries,
  version <- live.version,
  broken <- setup.failing # {}
AppliesInOrder == Store!StoreSpec

\* Every client that waits is answered.
ClientAnswered ==
  \A c \in Clients : client[c].status = "waiting" ~> client[c].status \in {"ok", "failed"}

===============================================================================
