----------------------------- MODULE RouteBatch -----------------------------
(***************************************************************************)
(* Matrices and lists of origin-destination pairs (query, batch.rs and     *)
(* engine/many_to_many.rs): equal sets of snapped candidates are routed    *)
(* once, and a batch picks one of three ways to route them.                *)
(*                                                                         *)
(*   pairwise       one route request per pair of sets                     *)
(*   single source  one exhaustive tree per origin                         *)
(*   many to many   complete search spaces of every endpoint, joined, and  *)
(*                  paths summarized arc by arc instead of unpacked        *)
(*                                                                         *)
(* A query asks "batch": origins and destinations are sequences of sets of *)
(* candidates, each a sequence of points with a place, the distance to it  *)
(* and its weakly connected component; << >> is a point that did not snap. *)
(***************************************************************************)
EXTENDS RouteSearch

CONSTANTS ManyToManyFrom,   \* destinations per origin from which each way
          SingleSourceFrom, \* is taken
          TrapLimit,        \* edges up to which an origin counts as trapped
          SnapLimit         \* distance a point may snap over without a hop

-----------------------------------------------------------------------------
(* The pair of candidates that answers for a pair of sets.                 *)

HopAllowed(o, d) ==
  LET originHops == o.away > SnapLimit
      destinationHops == d.away > SnapLimit
  IN  /\ originHops => o.away <= q.hopLimit
      /\ destinationHops => d.away <= q.hopLimit
      /\ CASE q.policy \in {"strict", "ignore"} -> ~originHops /\ ~destinationHops
           [] q.policy = "hop_origin" -> ~destinationHops
           [] q.policy = "hop_destination" -> ~originHops
           [] q.policy = "hop_either" -> ~(originHops /\ destinationHops)

\* Two candidates on the directions of one road, or at one node.
SamePhysicalAttachment(l, r) == l.place = r.place

Unrouted == [status |-> "failed", cost |-> Infinity, of |-> <<0, 0>>]

\* The first pair that can be routed fixes where both points attach; the
\* other directions there compete with it.  cost is what routing each costs.
Chosen(os, ds, cost) ==
  LET pairs == [n \in 1 .. Len(os) * Len(ds) |-> <<1 + ((n - 1) \div Len(ds)), 1 + ((n - 1) % Len(ds))>>]
      competes(a, held) == \/ held.status = "failed"
                           \/ /\ SamePhysicalAttachment(os[a[1]], os[held.of[1]])
                              /\ SamePhysicalAttachment(ds[a[2]], ds[held.of[2]])
      routable(a) == /\ ~SameEdgeReverse(os[a[1]], ds[a[2]])
                     /\ HopAllowed(os[a[1]], ds[a[2]])
                     /\ cost[a] < Infinity
      better(held, a) ==
        IF competes(a, held) /\ routable(a) /\ cost[a] < held.cost
        THEN [status |-> "found", cost |-> cost[a], of |-> a] ELSE held
  IN  FoldLeft(better, Unrouted, pairs)

Components(set) == {c.component : c \in Range(set)}

\* A cell for two sets, once every pair of candidates has its cost.
Cell(os, ds, cost) ==
  LET chosen == Chosen(os, ds, cost)
      disconnected == Components(os) \cap Components(ds) = {} /\ q.policy = "strict"
  IN  CASE << >> \in {os, ds} -> Unrouted
        [] << >> \notin {os, ds} /\ ~disconnected /\ chosen.status = "found" -> chosen
        [] OTHER -> [Unrouted EXCEPT !.status = IF q.policy = "ignore" THEN "ignored" ELSE "failed"]

-----------------------------------------------------------------------------
(* Pairwise: the searches of the module RouteSearch, by their answer; and  *)
(* one exhaustive tree per origin, which carries no restriction state.     *)

\* Costs spread from start along the steps, each round from what it lowered.
Spread(vertices, start, step) ==
  LET after[n \in 0 .. Cardinality(vertices)] ==
        IF n = 0 THEN [dist |-> Tabulated(start), fresh |-> {v \in vertices : start[v] < Infinity}]
        ELSE LET held == after[n - 1]
                 lower(v) == Least({held.dist[v]} \cup {Plus(held.dist[u], step[<<u, v>>]) : u \in held.fresh})
                 dist == Tabulated([v \in vertices |-> lower(v)])
             IN  IF held.fresh = {} THEN held
                 ELSE [dist |-> dist, fresh |-> {v \in vertices : dist[v] < held.dist[v]}]
  IN  after[Cardinality(vertices)].dist

SeedAt(seeds, e) == Least({Infinity} \cup {s.cost : s \in {s \in seeds : s.edge = e}})

\* Cheapest way from the seeds to every edge, whatever the sequences say.
EdgeTree(seeds) == Spread(Edges, [e \in Edges |-> SeedAt(seeds, e)], graph.turn)

\* Turns between edges in the restriction states they are reached in.
RestrictedSteps ==
  [a \in Keys \X Keys |->
     IF /\ graph.aut.transition[<<a[1][2], a[2][1]>>] = a[2][2]
        /\ graph.aut.prohibited[<<a[1][2], a[2][1]>>] = 0
     THEN graph.turn[<<a[1][1], a[2][1]>>] ELSE Infinity]

RestrictedTree(seeds, steps) ==
  LET start == [k \in Keys |-> IF k[2] = graph.aut.transition[<<Root, k[1]>>] THEN SeedAt(seeds, k[1]) ELSE Infinity]
      reached == Spread(Keys, start, steps)
  IN  [e \in Edges |-> Least({reached[k] : k \in {e} \X graph.aut.states})]

BestFromTree(tr, o, d) ==
  Least({DirectPath(net, o, d).cost} \cup {Plus(tr[t.edge], t.cost) : t \in DestinationSeeds(net, d)})

-----------------------------------------------------------------------------
(* Many to many.                                                           *)

\* The complete space of the states above an endpoint, with the state each
\* was reached from; up from an origin, against the arcs to a destination.
Space(seeds, outward) ==
  LET arc(m, e) == graph.weight[IF outward THEN <<m, e>> ELSE <<e, m>>]
      here(e) == Least({Infinity} \cup {s.cost : s \in {s \in seeds : s.edge = e}})
      ticks(w) == IF w < Infinity THEN Tick * w ELSE Infinity
      dist[e \in Edges] == Least({here(e)} \cup {Plus(dist[m], ticks(arc(m, e))) : m \in 1 .. e - 1})
  IN  [dist |-> Tabulated(dist),
       from |-> [e \in Edges |-> IF dist[e] = here(e) THEN NoEdge
                  ELSE CHOOSE m \in 1 .. e - 1 : Plus(dist[m], ticks(arc(m, e))) = dist[e]]]

\* Where two spaces meet cheapest, the lowest state first.
JoinSpaces(f, b) ==
  LET cost(e) == Plus(f.dist[e], b.dist[e])
      least == Least({cost(e) : e \in Edges})
  IN  [cost |-> least, at |-> Least({e \in Edges : cost(e) = least})]

\* Edges reachable from an origin; when they are few they prove what is not.
TrappedReach(o) ==
  LET seeds == {s.edge : s \in OriginSeeds(net, o)}
      reach[n \in 0 .. NEdges] ==
        IF n = 0 THEN seeds
        ELSE reach[n - 1] \cup {e \in Edges : \E m \in reach[n - 1] : graph.turn[<<m, e>>] < Infinity}
  IN  IF Cardinality(reach[NEdges]) > TrapLimit THEN Edges ELSE reach[NEdges]

Reachable(o, d) ==
  /\ o.component = d.component
  /\ \E t \in DestinationSeeds(net, d) : t.edge \in TrappedReach(o)

\* Restriction edges at both ends of a run of edges, and whether a forbidden
\* sequence lies inside it.
LongestSequence == Max({Len(s) : s \in Sequences(net)} \cup {0})
Window == Max({LongestSequence - 1, 1})
Relevant == UNION {Range(s) : s \in Sequences(net)}
Clean == [whole |-> FALSE, broken |-> FALSE, prefix |-> << >>, suffix |-> << >>]

SingleRun(e) == IF e \in Relevant THEN [whole |-> TRUE, broken |-> FALSE, prefix |-> <<e>>, suffix |-> <<e>>] ELSE Clean

LastOf(s) == IF Len(s) > Window THEN SubSeq(s, Len(s) - Window + 1, Len(s)) ELSE s
FirstOf(s) == SubSeq(s, 1, Least({Len(s), Window}))

\* As if a whole run on the right hid the run before it.
CombinedShort(l, r) ==
  [whole  |-> l.whole /\ r.whole,
   broken |-> \/ l.broken \/ r.broken
              \/ l.suffix # << >> /\ r.prefix # << >> /\ ~RespectsSequences(l.suffix \o r.prefix),
   prefix |-> IF l.whole THEN FirstOf(l.prefix \o r.prefix) ELSE l.prefix,
   suffix |-> r.suffix]

Combined(l, r) ==
  [whole  |-> l.whole /\ r.whole,
   broken |-> \/ l.broken \/ r.broken
              \/ l.suffix # << >> /\ r.prefix # << >> /\ ~RespectsSequences(l.suffix \o r.prefix),
   prefix |-> IF l.whole THEN FirstOf(l.prefix \o r.prefix) ELSE l.prefix,
   suffix |-> IF r.whole THEN LastOf(l.suffix \o r.suffix) ELSE r.suffix]

\* What an arc unpacks to, without its tail; the tail of the run of a turn is
\* its head edge.
ArcSummaries ==
  LET summary[a \in Pairs] ==
        LET middles == {m \in 1 .. Lower(a) - 1 :
              Plus(graph.weight[<<a[1], m>>], graph.weight[<<m, a[2]>>]) = graph.weight[a]}
            l == summary[<<a[1], Least(middles)>>]
            r == summary[<<Least(middles), a[2]>>]
        IN  IF middles = {} THEN [cost |-> graph.turn[a], run |-> SingleRun(a[2])]
            ELSE [cost |-> Plus(l.cost, r.cost), run |-> Combined(l.run, r.run)]
  IN  Tabulated(summary)

\* The states of the path through a meeting state, from end to end.
Chain(f, b, at) ==
  LET climb[e \in Edges] == IF f.from[e] = NoEdge THEN <<e>> ELSE Append(climb[f.from[e]], e)
      descend[e \in Edges] == IF b.from[e] = NoEdge THEN << >> ELSE <<b.from[e]>> \o descend[b.from[e]]
  IN  climb[at] \o descend[at]

ArcsOf(chain) == [n \in 1 .. Len(chain) - 1 |-> <<chain[n], chain[n + 1]>>]

\* Cost and restriction run of the path over a chain of arcs; a path of one
\* edge and a path that breaks a sequence are left to unpacking.
SummarizedPath(chain, summaries, o, d) ==
  LET add(sum, a) == [cost |-> sum.cost + summaries[a].cost, run |-> Combined(sum.run, summaries[a].run)]
  IN  FoldLeft(add, [cost |-> SeedAt(OriginSeeds(net, o), chain[1])
                              + SeedAt(DestinationSeeds(net, d), Last(chain)),
                     run |-> SingleRun(chain[1])], ArcsOf(chain))

UnpackedPath(chain) == FoldLeft(LAMBDA path, a : path \o Unpacked[a], <<chain[1]>>, ArcsOf(chain))

\* A candidate that breaks a sequence is put off to a second pass, which
\* searches with restriction states.
ManyToManyCost(o, d, f, b, summaries, steps) ==
  LET direct == DirectPath(net, o, d).cost
      joined == IF Reachable(o, d) THEN JoinSpaces(f, b) ELSE [cost |-> Infinity, at |-> NoEdge]
      chain == Chain(f, b, joined.at)
      summary == SummarizedPath(chain, summaries, o, d)
      restricted == BestFromTree(RestrictedTree(OriginSeeds(net, o), steps), o, d)
  IN  CASE joined.cost >= direct -> direct
        [] joined.cost < direct /\ q.summaryOnly /\ Len(chain) > 1 /\ ~summary.run.broken -> summary.cost
        [] OTHER -> IF RespectsSequences(UnpackedPath(chain)) THEN joined.cost ELSE restricted

-----------------------------------------------------------------------------
(* The batch.                                                              *)

Sets(points) == Range(points) \ {<< >>}

\* Pairs of sets to route: a matrix counts all of them.
SetPairs == {<<q.origins[a[1]], q.destinations[a[2]]>> : a \in q.pairs}
UniquePairs ==
  IF q.matrix THEN Sets(q.origins) \X Sets(q.destinations)
  ELSE {p \in SetPairs : << >> \notin {p[1], p[2]}}

Strategy ==
  LET origins == Cardinality(Sets(q.origins))
      average == (Cardinality(UniquePairs) + origins - 1) \div origins
  IN  CASE origins = 0 -> "pairwise"
        [] origins > 0 /\ Accelerated(net) /\ average >= ManyToManyFrom -> "many to many"
        [] origins > 0 /\ ~Accelerated(net) /\ ~HasSequences /\ average >= SingleSourceFrom -> "single source"
        [] OTHER -> "pairwise"

Batchable == ~q.alternative /\ ~FailureModes(net)

\* What routing from a candidate to another costs, the way the batch takes.
CostBetween ==
  LET origins == UNION {Range(s) : s \in Sets(q.origins)}
      destinations == UNION {Range(s) : s \in Sets(q.destinations)}
      way == IF Batchable THEN Strategy ELSE "pairwise"
      forward == Tabulated([o \in origins |-> Space(OriginSeeds(net, o), TRUE)])
      backward == Tabulated([d \in destinations |-> Space(DestinationSeeds(net, d), FALSE)])
      steps == Tabulated(RestrictedSteps)
      summaries == ArcSummaries
      trees == Tabulated([o \in origins |->
                 IF way = "single source" THEN EdgeTree(OriginSeeds(net, o))
                 ELSE RestrictedTree(OriginSeeds(net, o), steps)])
  IN  [a \in origins \X destinations |->
         IF way = "many to many" THEN ManyToManyCost(a[1], a[2], forward[a[1]], backward[a[2]], summaries, steps)
         ELSE BestFromTree(trees[a[1]], a[1], a[2])]

AnswerBatch ==
  /\ phase = "batch"
  /\ \E between \in {Tabulated(CostBetween)} :
       LET cell(os, ds) == Cell(os, ds, [a \in (1 .. Len(os)) \X (1 .. Len(ds)) |-> between[<<os[a[1]], ds[a[2]]>>]])
       IN  route' = Tabulated([a \in q.pairs |-> cell(q.origins[a[1]], q.destinations[a[2]])])
  /\ phase' = "answered"
  /\ UNCHANGED <<net, q, graph, destination, kind, fwd, bwd, tree, open, closed, best, meet>>

-----------------------------------------------------------------------------
(* Property.                                                               *)

\* The cheapest walk from o to each edge that completes no restriction.
WalkCosts(o) ==
  LET walks == WalksFrom({[tail |-> <<s.edge>>, cost |-> s.cost, metres |-> 0, turns |-> 0] :
                            s \in OriginSeeds(net, o)})
  IN  [e \in Edges |-> Least({Infinity} \cup {l.cost : l \in {l \in walks : Last(l.tail) = e}})]

(* Whatever way a batch takes - shared trees, joined spaces, summaries of     *)
(* arcs with windows of restriction edges, cells put off to a second pass -   *)
(* each cell says what a request for that pair alone would: it is routed if   *)
(* any allowed pair of candidates has a way, from where the first such pair   *)
(* attaches, at the cost of the cheapest walk between the directions there.   *)
BatchAgrees ==
  phase = "answered" =>
    LET walks == Tabulated([o \in UNION {Range(s) : s \in Sets(q.origins)} |-> WalkCosts(o)])
    IN  \A a \in q.pairs :
          LET os == q.origins[a[1]]
              ds == q.destinations[a[2]]
              optimum(p) == BestFromTree(walks[os[p[1]]], os[p[1]], ds[p[2]])
              routable == {p \in (DOMAIN os) \X (DOMAIN ds) :
                             /\ HopAllowed(os[p[1]], ds[p[2]]) /\ ~SameEdgeReverse(os[p[1]], ds[p[2]])
                             /\ optimum(p) < Infinity
                             /\ q.policy = "strict" => Components(os) \cap Components(ds) # {}}
              first == CHOOSE p \in routable : \A r \in routable : p[1] < r[1] \/ (p[1] = r[1] /\ p[2] <= r[2])
              rivals == {p \in routable : /\ os[p[1]].place = os[first[1]].place
                                          /\ ds[p[2]].place = ds[first[2]].place}
          IN  IF routable = {}
              THEN route[a].status = IF q.policy = "ignore" /\ << >> \notin {os, ds} THEN "ignored" ELSE "failed"
              ELSE /\ route[a].status = "found" /\ route[a].of \in rivals
                   /\ route[a].cost = optimum(route[a].of)
                   /\ \A p \in rivals : route[a].cost <= optimum(p)
=============================================================================
