--------------------------- MODULE MCTrafficService ---------------------------
(* Constants for model-checking TrafficService.                            *)
EXTENDS TrafficService
CONSTANTS c1, c2

Set(f, v, t) == [feature |-> f, value |-> v, ttl |-> FALSE, t |-> t]
Ttl(f, v, t) == [feature |-> f, value |-> v, ttl |-> TRUE, t |-> t]
Drops(f) == [feature |-> f, value |-> Clear, ttl |-> TRUE, t |-> 0]
Batch(updates) == [updates |-> updates, replace |-> FALSE]
Replaces(updates) == [updates |-> updates, replace |-> TRUE]

TwoFeatures == {1, 2}

\* One client posts a short closure, the other replaces everything by another
\* speed; a request routes across a boundary of buckets.
Short == Batch(<<Ttl(1, "closed", 2)>>)
Other == Replaces(<<Set(2, "slow", 3)>>)
Routing == [departures |-> {2}, posts |-> c1 :> {Short}  @@ c2 :> {Other},
            wait |-> FALSE, routers |-> 1, failing |-> {}, ticks |-> 2]

\* Two clients that wait, each with any batch, two profiles of which one may
\* be unable to derive engines; the last batch is the DELETE request.
OrderJobs == {Batch(<<Set(1, "slow", 2), Ttl(2, "closed", 2)>>),
              Batch(<<Drops(1), Set(2, "slow", 4)>>),
              Replaces(<<Ttl(1, "closed", 1)>>), Replaces(<<>>)}
Waiting(jobs, routers, broken) ==
  [departures |-> {}, posts |-> [c \in Clients |-> jobs], wait |-> TRUE,
   routers |-> routers, failing |-> broken, ticks |-> 4]

BothServices == {Routing} \cup {Waiting(OrderJobs, 2, broken) : broken \in {{}, {2}}}
Poisoned == {Waiting({Batch(<<Set(1, "slow", 1)>>), Batch(<<Ttl(2, "closed", 2)>>)}, 1, {})}

TwoBuckets == <<1, 2>>
===============================================================================
