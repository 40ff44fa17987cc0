--------------------------- MODULE LiveTrafficStore ---------------------------
(***************************************************************************)
(* What the live traffic queue promises: a batch whose updates are valid   *)
(* is accepted, and accepted batches take effect in the order they were    *)
(* accepted, one after the other, at an instant between the acceptance of  *)
(* the batch and the present.  A group of consecutive batches may be       *)
(* dropped as a whole for two reasons: some profile's engine cannot be     *)
(* built, or an update that was valid when it was accepted has expired by  *)
(* now.  What a later batch of the group replaces is no reason.            *)
(***************************************************************************)
EXTENDS LiveTrafficUpdates

VARIABLES
  jobs,      \* the accepted batches not yet decided on: [updates, replace, since, ...]
  entries,   \* the live entries in effect
  version,   \* how often they have been replaced
  now,       \* the present
  broken     \* some profile's engine cannot be built

storeVars == <<jobs, entries, version, now, broken>>

StoreInit == jobs = <<>> /\ entries = NoEntries /\ version = 0

Accept(job) ==
  /\ job.since = now
  /\ \A u \in Range(job.updates) : Valid(u, now)
  /\ jobs' = Append(jobs, job)
  /\ UNCHANGED <<entries, version, now, broken>>

\* One update, and one batch, update by update.
ApplyUpdate(at, es, u) ==
  IF u.value = Clear \/ u.feature \notin WithEdges
  THEN Restrict(es, DOMAIN es \ {u.feature})
  ELSE [f \in DOMAIN es \cup {u.feature} |->
          IF f = u.feature
          THEN [value |-> u.value, from |-> at, until |-> RoundUp(Expiry(u, at))]
          ELSE es[f]]
ApplyJob(at, es, job) ==
  FoldLeft(LAMBDA acc, u : ApplyUpdate(at, acc, u),
           IF job.replace THEN NoEntries ELSE Unexpired(at, es), job.updates)

Taken(n) == SubSeq(jobs, 1, n)

Apply(n, at) ==
  /\ ~broken
  /\ \A i \in 1..n : jobs[i].since <= at
  /\ at <= now
  /\ jobs' = SubSeq(jobs, n + 1, Len(jobs))
  /\ entries' = FoldLeft(LAMBDA es, job : ApplyJob(at, es, job), entries, Taken(n))
  /\ \A f \in DOMAIN entries' : entries'[f].until > at
  /\ version' = version + 1
  /\ UNCHANGED <<now, broken>>

\* A batch counts unless a later one of the group replaces everything.
Counts(i, n) == \A k \in (i + 1)..n : ~jobs[k].replace

Drop(n) ==
  /\ \/ broken
     \/ \E i \in 1..n : /\ Counts(i, n)
                        /\ \E u \in Range(jobs[i].updates) : ~Valid(u, now)
  /\ jobs' = SubSeq(jobs, n + 1, Len(jobs))
  /\ UNCHANGED <<entries, version, now, broken>>

Elapse ==
  /\ now' > now
  /\ UNCHANGED <<jobs, entries, version, broken>>

StoreNext ==
  \/ jobs' # <<>> /\ Accept(Last(jobs'))
  \/ \E n \in 1..Len(jobs) : Drop(n) \/ \E at \in 0..now : Apply(n, at)
  \/ Elapse

StoreSpec == StoreInit /\ [][StoreNext]_storeVars
===============================================================================
