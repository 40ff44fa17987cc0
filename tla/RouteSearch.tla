---------------------------- MODULE RouteSearch ----------------------------
(***************************************************************************)
(* One query for a route between two snapped points (query, engine): the   *)
(* choice of the search, the searches themselves one settled label at a    *)
(* time, and the answer.  Edges of the road network are the vertices of    *)
(* every search and are named by their rank in the contraction order.      *)
(*                                                                         *)
(*   two-sided   the hierarchy query, the bidirectional search on turns,   *)
(*               and the latter with banned edges for alternatives         *)
(*   stateful    the searches that carry a restriction state: Dijkstra     *)
(*               with penalties, A* with hierarchy potentials, and the one *)
(*               with banned edges                                         *)
(*   limited     labels that count illegal metres and illegal turns        *)
(*                                                                         *)
(* The weights of the hierarchy are those the module Hierarchy shows it to *)
(* have.                                                                   *)
(***************************************************************************)
EXTENDS RestrictionAutomaton

CONSTANTS NEdges,     \* number of directed edges
          Networks,   \* road networks with restrictions and failure modes
          QueriesOn(_),  \* the queries asked of each
          UturnCost,  \* cost of turning back
          Penalty,    \* cost of each kind of illegal movement
          Length      \* metres of an edge that is a reversed one-way street

Edges  == 1 .. NEdges
Pairs  == Edges \X Edges
NoEdge == 0
Parts  == 4            \* an edge is cut into this many parts to snap to

ASSUME PartsAreWhole == \A e \in Edges, x \in Networks : x.cost[e] % Parts = 0

VARIABLES net,         \* the network
          q,           \* the query
          graph,       \* turn costs, automaton, weights of the hierarchy
          destination, \* where to
          phase, kind,
          fwd, bwd,    \* both sides of a two-sided search
          tree,        \* labels of a stateful search
          open, closed,\* labels of a limited search
          best, meet,  \* cheapest cost known, and where it was met
          route        \* the answer, with its cost
vars == <<net, q, graph, destination, phase, kind, fwd, bwd, tree, open, closed, best, meet, route>>

-----------------------------------------------------------------------------
(* The routing graph of the query.                                         *)

FailureModes(x) == x.relax # {}

IsUturn(x, a) == x.roads[a[1]] = <<x.roads[a[2]][2], x.roads[a[2]][1]>>

\* Reversed one-way streets exist only in graphs that may use them.
Routable(x, e) == e \notin x.virtual \/ "reverse" \in x.relax

\* Pairwise restrictions cut the turn itself, unless failure modes may relax them.
TurnCost(x, a) ==
  IF /\ a[1] # a[2] /\ x.roads[a[1]][2] = x.roads[a[2]][1]
     /\ Routable(x, a[1]) /\ Routable(x, a[2])
     /\ FailureModes(x) \/ a \notin x.restrictions
  THEN x.cost[a[2]] + (IF IsUturn(x, a) THEN UturnCost ELSE 0)
  ELSE Infinity

Sequences(x) == {s \in x.restrictions : FailureModes(x) \/ Len(s) > 2}

EdgePenalty(x, e) == IF e \in x.virtual THEN Penalty["reverse"] ELSE 0

\* What relaxing a restriction of length n at the turn a costs.
RelaxPenalty(x, n, a) ==
  CASE n = 0 -> 0
    [] n > 0 /\ "ignore" \in x.relax -> Penalty["ignore"]
    [] n = 2 /\ "ignore" \notin x.relax /\ "uturn" \in x.relax /\ IsUturn(x, a) -> Penalty["uturn"]
    [] n = 2 /\ "turn" \in x.relax /\ "ignore" \notin x.relax
             /\ ~("uturn" \in x.relax /\ IsUturn(x, a)) -> Penalty["turn"]
    [] OTHER -> Infinity

\* Failure modes keep a hierarchy only when their penalties depend on one turn.
Accelerated(x) ==
  x.hierarchy /\ (FailureModes(x) => /\ "reverse" \notin x.relax
                                     /\ \A s \in x.restrictions : Len(s) = 2)

Lower(a) == Least({a[1], a[2]})

\* The weight of every arc of a hierarchy customized for base.
HierarchyWeights(base) ==
  LET through == Tabulated([v \in 0 .. NEdges - 1 |->
                   Tabulated([x \in Edges |-> CheapestFrom(Edges, base, 1 .. v, x)])])
  IN  Tabulated([a \in Pairs |-> IF a[1] = a[2] THEN Infinity
                                 ELSE through[Lower(a) - 1][a[1]][a[2]]])

Ticks(c) == IF c >= Infinity THEN Infinity ELSE EncodeWeight(c)
TicksBelow(c) == IF c >= Infinity THEN Infinity ELSE c \div Tick

GraphOf(x) ==
  LET aut   == Automaton(Sequences(x), Edges)
      turn  == Tabulated([a \in Pairs |-> TurnCost(x, a)])
      pays(a) == Plus(turn[a], RelaxPenalty(x, aut.prohibited[<<aut.transition[<<Root, a[1]>>], a[2]>>], a))
  IN  [turn |-> turn, aut |-> aut,
       weight |-> IF ~Accelerated(x) THEN << >>
                  ELSE HierarchyWeights(Tabulated([a \in Pairs |->
                         Ticks(IF FailureModes(x) THEN pays(a) ELSE turn[a])])),
       lowerBound |-> IF ~Accelerated(x) \/ FailureModes(x) THEN << >>
                      ELSE Tabulated([a \in Pairs |-> TicksBelow(turn[a])])]

HasSequences == graph.aut.states # {Root}

-----------------------------------------------------------------------------
(* Snapped points: on an edge, a number of parts along it, or at a node.   *)

OriginSeeds(x, p) ==
  IF p.edge # NoEdge
  THEN {[edge |-> e, cost |-> (x.cost[e] * (Parts - p.part)) \div Parts] :
          e \in {e \in {p.edge} : Routable(x, e)}}
  ELSE {[edge |-> e, cost |-> x.cost[e]] : e \in {e \in Edges : Routable(x, e) /\ x.roads[e][1] = p.node}}

\* The part of the last edge beyond the point is given back.
DestinationSeeds(x, p) ==
  IF p.edge # NoEdge
  THEN {[edge |-> e, cost |-> (x.cost[e] * p.part) \div Parts - x.cost[e]] :
          e \in {e \in {p.edge} : Routable(x, e)}}
  ELSE {[edge |-> e, cost |-> 0] : e \in {e \in Edges : Routable(x, e) /\ x.roads[e][2] = p.node}}

SameEdgeReverse(o, d) == o.edge # NoEdge /\ o.edge = d.edge /\ o.part > d.part

NoRoute == [edges |-> << >>, cost |-> Infinity]

DirectPath(x, o, d) ==
  CASE o.edge = NoEdge /\ d.edge = NoEdge /\ o.node = d.node -> [edges |-> << >>, cost |-> 0]
    [] o.edge # NoEdge /\ o.edge = d.edge /\ o.part <= d.part /\ Routable(x, o.edge)
         -> [edges |-> <<o.edge>>, cost |-> (x.cost[o.edge] * (d.part - o.part)) \div Parts]
    [] OTHER -> NoRoute

MinimumSeed(seeds) == Least({0} \cup {s.cost : s \in seeds})

\* The search for alternatives drops what touches a banned edge.
Unbanned(seeds) == {s \in seeds : s.edge \notin q.banned}
Sources == Unbanned(OriginSeeds(net, q.origin))
Targets == Unbanned(DestinationSeeds(net, destination))
Direct  == LET p == DirectPath(net, q.origin, destination)
           IN  IF Range(p.edges) \cap q.banned # {} \/ p.cost > q.maxCost THEN NoRoute ELSE p

-----------------------------------------------------------------------------
(* Starting a search.                                                      *)

Side(seeds) ==
  [dist |-> Tabulated([e \in Edges |-> Least({Infinity} \cup {s.cost : s \in {s \in seeds : s.edge = e}})]),
   from |-> Tabulated([e \in Edges |-> NoEdge]),
   heap |-> seeds]

NoSide == Side({})

NoKey == <<NoEdge, Root>>
Keys  == Edges \X graph.aut.states

\* Lower bound on what is left to pay from an edge: from the hierarchy for A*,
\* otherwise what the destination may give back at most.
Potential(how) ==
  IF how = "astar"
  THEN LET toGo == [e \in Edges |-> CheapestFrom(Edges, graph.lowerBound, Edges, e)]
       IN  Tabulated([e \in Edges |->
             Least({Infinity} \cup {IF t.edge = e THEN t.cost
                                    ELSE Plus(Tick * toGo[e][t.edge], t.cost) :
                                    t \in {t \in Targets : t.edge = e \/ toGo[e][t.edge] < Infinity}})])
  ELSE [e \in Edges |-> MinimumSeed(Targets)]

\* The labels of the origin seeds, in the state each edge leads to.
Tree(how) ==
  LET potential == Potential(how)
      seeds == {[edge |-> s.edge, state |-> graph.aut.transition[<<Root, s.edge>>],
                 cost |-> s.cost + EdgePenalty(net, s.edge)] :
                   s \in {s \in Sources : potential[s.edge] < Infinity}}
  IN  [dist |-> Tabulated([k \in Keys |-> Least({Infinity} \cup
                  {s.cost : s \in {s \in seeds : <<s.edge, s.state>> = k}})]),
       from |-> Tabulated([k \in Keys |-> NoKey]),
       heap |-> seeds,
       settled |-> Tabulated([e \in Edges |-> NoKey]),
       potential |-> potential]

NoTree == [dist |-> << >>, from |-> << >>, heap |-> {}, settled |-> << >>, potential |-> << >>]

TwoSided == {"cch", "turns", "banned"}
Stateful == {"dijkstra", "astar", "bannedstates"}

FirstSearch ==
  CASE q.alternative -> IF FailureModes(net) THEN "bannedstates" ELSE "banned"
    [] ~q.alternative /\ Accelerated(net) -> "cch"
    [] OTHER -> IF FailureModes(net) THEN "dijkstra" ELSE "turns"

\* best and route start from the direct path, or from the cap of an alternative.
StartFrom(how) ==
  /\ kind' = how
  /\ route' = Direct
  /\ best' = IF Direct = NoRoute THEN q.maxCost ELSE Direct.cost
  /\ meet' = IF how \in Stateful THEN NoKey ELSE NoEdge
  /\ phase' = "search"
  /\ open' = {} /\ closed' = {}
  /\ IF how \in TwoSided
     THEN fwd' = Side(Sources) /\ bwd' = Side(Targets) /\ tree' = NoTree
     ELSE fwd' = NoSide /\ bwd' = NoSide /\ tree' = Tree(how)

Init ==
  /\ net \in Networks
  /\ graph = GraphOf(net)
  /\ q \in QueriesOn(net)
  /\ destination = q.destination
  /\ phase = (IF q.ask = "route" THEN "start" ELSE q.ask) /\ kind = "none"
  /\ fwd = NoSide /\ bwd = NoSide /\ tree = NoTree /\ open = {} /\ closed = {}
  /\ best = Infinity /\ meet = NoEdge /\ route = NoRoute

Start ==
  /\ phase = "start"
  /\ IF SameEdgeReverse(q.origin, destination)
     THEN phase' = "done" /\ UNCHANGED <<kind, fwd, bwd, tree, open, closed, best, meet, route>>
     ELSE StartFrom(FirstSearch)
  /\ UNCHANGED <<net, q, graph, destination>>

-----------------------------------------------------------------------------
(* Two-sided searches.                                                     *)

LeastKey(heap) == Least({Infinity} \cup {l.cost : l \in heap})

ForwardActive  == Plus(LeastKey(fwd.heap), MinimumSeed(Targets)) < best
BackwardActive == Plus(LeastKey(bwd.heap), MinimumSeed(Sources)) < best

StoppedOnTheSum == {} \in {fwd.heap, bwd.heap} \/ LeastKey(fwd.heap) + LeastKey(bwd.heap) >= best

\* Neither side of the hierarchy sees the arcs of the other, so each runs to
\* its own bound; on turns the two frontiers add up.
Stopped ==
  IF kind = "cch" THEN ~ForwardActive /\ ~BackwardActive
  ELSE {} \in {fwd.heap, bwd.heap} \/ LeastKey(fwd.heap) + LeastKey(bwd.heap) >= best

TurnForward ==
  IF kind = "cch"
  THEN ForwardActive /\ (LeastKey(fwd.heap) <= LeastKey(bwd.heap) \/ ~BackwardActive)
  ELSE LeastKey(fwd.heap) <= LeastKey(bwd.heap)

\* Cost of stepping along a, on the side that climbs or descends.
StepCost(a, climbing) ==
  IF kind = "cch"
  THEN IF (a[1] < a[2]) = climbing /\ graph.weight[a] < Infinity THEN Tick * graph.weight[a] ELSE Infinity
  ELSE graph.turn[a]

Expands(cost, other, bound) ==
  CASE kind = "cch" -> TRUE
    [] kind = "turns" -> cost + MinimumSeed(other) <= bound
    [] kind = "banned" -> cost <= bound

\* One side after it settles label l, where costs are those of the steps from
\* it and bound is the best cost then known.
Settled(side, l, costs, other, bound) ==
  LET better == IF ~Expands(l.cost, other, bound) THEN {}
                ELSE {e \in Edges \ q.banned :
                        /\ Plus(l.cost, costs[e]) < side.dist[e]
                        /\ kind = "banned" => l.cost + costs[e] < bound}
  IN  [dist |-> Tabulated([e \in Edges |-> IF e \in better THEN l.cost + costs[e] ELSE side.dist[e]]),
       from |-> Tabulated([e \in Edges |-> IF e \in better THEN l.edge ELSE side.from[e]]),
       heap |-> (side.heap \ {l}) \cup {[edge |-> e, cost |-> l.cost + costs[e]] : e \in better}]

Meet(l, otherDist) ==
  IF otherDist < Infinity /\ l.cost + otherDist < best
  THEN best' = l.cost + otherDist /\ meet' = l.edge
  ELSE UNCHANGED <<best, meet>>

SettleForward ==
  /\ phase = "search" /\ kind \in TwoSided /\ ~Stopped /\ TurnForward
  /\ \E l \in fwd.heap :
       /\ l.cost = LeastKey(fwd.heap)
       /\ IF l.cost > fwd.dist[l.edge]
          THEN fwd' = [fwd EXCEPT !.heap = @ \ {l}] /\ UNCHANGED <<best, meet>>
          ELSE /\ Meet(l, bwd.dist[l.edge])
               /\ fwd' = Settled(fwd, l, [e \in Edges |-> StepCost(<<l.edge, e>>, TRUE)], Targets, best')
  /\ UNCHANGED <<net, q, graph, destination, phase, kind, bwd, tree, open, closed, route>>

SettleBackward ==
  /\ phase = "search" /\ kind \in TwoSided /\ ~Stopped /\ ~TurnForward
  /\ \E l \in bwd.heap :
       /\ l.cost = LeastKey(bwd.heap)
       /\ IF l.cost > bwd.dist[l.edge]
          THEN bwd' = [bwd EXCEPT !.heap = @ \ {l}] /\ UNCHANGED <<best, meet>>
          ELSE /\ Meet(l, fwd.dist[l.edge])
               /\ bwd' = Settled(bwd, l, [e \in Edges |-> StepCost(<<e, l.edge>>, FALSE)], Sources, best')
  /\ UNCHANGED <<net, q, graph, destination, phase, kind, fwd, tree, open, closed, route>>

\* The edges an arc runs over, without its tail: the first lower triangle that
\* adds up to the arc, taken apart again.
Unpacked ==
  LET run[a \in Pairs] ==
        LET middles == {m \in 1 .. Lower(a) - 1 :
              Plus(graph.weight[<<a[1], m>>], graph.weight[<<m, a[2]>>]) = graph.weight[a]}
            m == Least(middles)
        IN  IF middles = {} THEN <<a[2]>> ELSE run[<<a[1], m>>] \o run[<<m, a[2]>>]
  IN  run

Run(x, y) == IF kind = "cch" THEN Unpacked[<<x, y>>] ELSE <<y>>

MetPath ==
  LET climb[e \in Edges] == IF fwd.from[e] = NoEdge THEN <<e>>
                            ELSE climb[fwd.from[e]] \o Run(fwd.from[e], e)
      descend[e \in Edges] == IF bwd.from[e] = NoEdge THEN << >>
                              ELSE Run(e, bwd.from[e]) \o descend[bwd.from[e]]
  IN  climb[meet] \o descend[meet]

RespectsSequencesAtOnce(edges) ==
  \A n \in 1 .. Len(edges) : graph.aut.prohibited[<<Root, edges[n]>>] = 0

RespectsSequences(edges) ==
  LET state[n \in 0 .. Len(edges)] ==
        IF n = 0 THEN Root ELSE graph.aut.transition[<<state[n - 1], edges[n]>>]
  IN  \A n \in 1 .. Len(edges) : graph.aut.prohibited[<<state[n - 1], edges[n]>>] = 0

\* A candidate that ignored the sequences is kept if it respects them; else,
\* and for an alternative also without a candidate, a stateful search decides.
FinishTwoSided ==
  /\ phase = "search" /\ kind \in TwoSided /\ Stopped
  /\ LET found == IF meet = NoEdge THEN route ELSE [edges |-> MetPath, cost |-> best]
         accepted == \/ FailureModes(net) \/ ~HasSequences
                     \/ IF found = NoRoute THEN kind # "banned" ELSE RespectsSequences(found.edges)
     IN  IF accepted
         THEN /\ route' = found /\ phase' = "found"
              /\ UNCHANGED <<kind, fwd, bwd, tree, open, closed, best, meet>>
         ELSE StartFrom(CASE kind = "banned" -> "bannedstates"
                          [] kind = "cch" -> "astar"
                          [] kind = "turns" -> "dijkstra")
  /\ UNCHANGED <<net, q, graph, destination>>

-----------------------------------------------------------------------------
(* Stateful searches.                                                      *)

Bound(l) == l.cost + tree.potential[l.edge]

Exhausted ==
  IF kind = "bannedstates" THEN tree.heap = {}
  ELSE \A l \in tree.heap : Bound(l) >= best

SettleState ==
  /\ phase = "search" /\ kind \in Stateful /\ ~Exhausted
  /\ \E l \in tree.heap :
       /\ \A other \in tree.heap : Bound(l) <= Bound(other)
       /\ LET key == <<l.edge, l.state>>
              gives == {t.cost : t \in {t \in Targets : t.edge = l.edge}}
              here  == l.cost + Least({Infinity} \cup gives)
              known == Least({best, here})
              reach(e) == Plus(Plus(l.cost, graph.turn[<<l.edge, e>>]),
                               Plus(RelaxPenalty(net, graph.aut.prohibited[<<l.state, e>>], <<l.edge, e>>),
                                    EdgePenalty(net, e)))
              to(e) == <<e, graph.aut.transition[<<l.state, e>>]>>
              better == {e \in Edges \ q.banned :
                           /\ kind = "bannedstates" => l.cost < known
                           /\ reach(e) < tree.dist[to(e)]
                           /\ tree.potential[e] < Infinity}
              settled == IF tree.settled[l.edge] = NoKey
                         THEN [tree.settled EXCEPT ![l.edge] = key] ELSE tree.settled
          IN  IF l.cost > tree.dist[key]
              THEN tree' = [tree EXCEPT !.heap = @ \ {l}] /\ UNCHANGED <<best, meet>>
              ELSE /\ IF here < best THEN best' = here /\ meet' = key ELSE UNCHANGED <<best, meet>>
                   /\ tree' = [dist |-> Tabulated([k \in Keys |->
                                  IF k[1] \in better /\ k = to(k[1]) THEN reach(k[1]) ELSE tree.dist[k]]),
                               from |-> Tabulated([k \in Keys |->
                                  IF k[1] \in better /\ k = to(k[1]) THEN key ELSE tree.from[k]]),
                               heap |-> (tree.heap \ {l}) \cup
                                  {[edge |-> e, state |-> to(e)[2], cost |-> reach(e)] : e \in better},
                               settled |-> settled,
                               potential |-> tree.potential]
  /\ UNCHANGED <<net, q, graph, destination, phase, kind, fwd, bwd, open, closed, route>>

FinishStateful ==
  /\ phase = "search" /\ kind \in Stateful /\ Exhausted
  /\ LET back[k \in Keys] == IF tree.from[k] = NoKey THEN <<k[1]>>
                             ELSE Append(back[tree.from[k]], k[1])
     IN  route' = IF meet = NoKey THEN route ELSE [edges |-> back[meet], cost |-> best]
  /\ phase' = "found"
  /\ UNCHANGED <<net, q, graph, destination, kind, fwd, bwd, tree, open, closed, best, meet>>

\* A matrix asks the frontier of one origin for another destination: what was
\* settled before is looked up, the rest of the heap waits unexpanded.
NextDestination(d) ==
  /\ phase = "done" /\ kind = "dijkstra" /\ ~FailureModes(net)
  /\ ~SameEdgeReverse(q.origin, d) /\ d # destination
  /\ UNCHANGED <<net, q, graph, kind, fwd, bwd, open, closed>>
  /\ destination' = d
  /\ tree' = [tree EXCEPT !.potential = [e \in Edges |-> MinimumSeed(Targets')]]
  /\ LET met(t) == IF tree.settled[t.edge] = NoKey THEN Infinity
                   ELSE tree.dist[tree.settled[t.edge]] + t.cost
         cheapest == Least({Infinity} \cup {met(t) : t \in Targets'})
     IN  /\ route' = Direct'
         /\ best' = Least({Direct'.cost, cheapest})
         /\ IF cheapest < Direct'.cost
            THEN \E t \in Targets' : met(t) = cheapest /\ meet' = tree.settled[t.edge]
            ELSE meet' = NoKey
  /\ phase' = "search"

-----------------------------------------------------------------------------
(* Limits on illegal movements.                                            *)

IllegalLength(e) == IF e \in net.virtual THEN Length ELSE 0

\* Parts of the n-th of several edges that are travelled.
Travelled(edges, n) ==
  Parts - (IF n = 1 /\ edges[n] = q.origin.edge THEN q.origin.part ELSE 0)
        - (IF n = Len(edges) /\ edges[n] = destination.edge THEN Parts - destination.part ELSE 0)

IllegalMetres(edges) ==
  MapThenSumSet(LAMBDA n : (IllegalLength(edges[n]) * Travelled(edges, n)) \div Parts, DOMAIN edges)

\* The restrictions a walk completes, by the lengths the automaton reports.
Completed(edges) ==
  LET state[n \in 0 .. Len(edges)] ==
        IF n = 0 THEN Root ELSE graph.aut.transition[<<state[n - 1], edges[n]>>]
  IN  [n \in DOMAIN edges |-> graph.aut.prohibited[<<state[n - 1], edges[n]>>]]

WithinLimits(edges) ==
  /\ IllegalMetres(edges) <= q.maxMetres
  /\ Cardinality({n \in DOMAIN edges : Completed(edges)[n] > 0}) <= q.maxTurns

Limited == FailureModes(net) /\ {q.maxMetres, q.maxTurns} # {Infinity} /\ ~q.alternative

\* The direct path with the penalties it pays, if it keeps within the limits.
LimitedDirect ==
  IF Direct = NoRoute \/ ~WithinLimits(Direct.edges) THEN NoRoute
  ELSE [Direct EXCEPT !.cost = @ + MapThenSumSet(LAMBDA n : EdgePenalty(net, Direct.edges[n]),
                                                 DOMAIN Direct.edges)]

Over(l) == l.metres > q.maxMetres \/ l.turns > q.maxTurns
IsTarget(e) == \E t \in Targets : t.edge = e

\* A label over a limit is kept only to be looked at on its last edge.
Pushed(labels) == {l \in labels : l.cost < Infinity /\ (Over(l) => IsTarget(l.edge))}

\* Illegal metres on the first edge, and those of the last that are not driven.
FirstMetres(e) ==
  (IllegalLength(e) * (Parts - (IF e = q.origin.edge THEN q.origin.part ELSE 0))) \div Parts

UnusedMetres(e) ==
  IF e = destination.edge THEN (IllegalLength(e) * (Parts - destination.part)) \div Parts ELSE 0

StartLabels ==
  Pushed({[edge |-> s.edge, state |-> graph.aut.transition[<<Root, s.edge>>],
           cost |-> s.cost + EdgePenalty(net, s.edge), turns |-> 0,
           metres |-> FirstMetres(s.edge),
           route |-> <<s.edge>>] : s \in Sources})

CheckLimits ==
  /\ phase = "found"
  /\ IF Limited /\ route # NoRoute /\ ~WithinLimits(route.edges)
     THEN /\ phase' = "search" /\ kind' = "limited"
          /\ route' = LimitedDirect /\ best' = LimitedDirect.cost /\ meet' = << >>
          /\ open' = StartLabels /\ closed' = {}
          /\ fwd' = NoSide /\ bwd' = NoSide /\ tree' = NoTree
     ELSE phase' = "done" /\ UNCHANGED <<kind, fwd, bwd, tree, open, closed, best, meet, route>>
  /\ UNCHANGED <<net, q, graph, destination>>

\* A settled label is no dearer; it rules l out if it broke no more rules.
DominatedOnMetres(settled, l) ==
  \E k \in settled : k.edge = l.edge /\ k.state = l.state /\ k.metres <= l.metres

Dominated(settled, l) ==
  \E k \in settled : /\ k.edge = l.edge /\ k.state = l.state
                     /\ k.metres <= l.metres /\ k.turns <= l.turns

LabelsLeft == \E l \in open : l.cost + MinimumSeed(Targets) < best

SettleLabel ==
  /\ phase = "search" /\ kind = "limited" /\ LabelsLeft
  /\ \E l \in open :
       /\ l.cost = LeastKey(open)
       /\ LET ends   == IF l.metres - UnusedMetres(l.edge) <= q.maxMetres /\ l.turns <= q.maxTurns
                        THEN {t.cost : t \in {t \in Targets : t.edge = l.edge}} ELSE {}
              here   == l.cost + Least({Infinity} \cup ends)
              known  == Least({best, here})
              prohibited(e) == graph.aut.prohibited[<<l.state, e>>]
              next(e) == [edge |-> e, state |-> graph.aut.transition[<<l.state, e>>],
                          cost |-> Plus(Plus(l.cost, graph.turn[<<l.edge, e>>]),
                                        Plus(RelaxPenalty(net, prohibited(e), <<l.edge, e>>),
                                             EdgePenalty(net, e))),
                          metres |-> l.metres + IllegalLength(e),
                          turns |-> l.turns + (IF prohibited(e) > 0 THEN 1 ELSE 0),
                          route |-> Append(l.route, e)]
              new == IF Over(l) THEN {}
                     ELSE {n \in {next(e) : e \in Edges} : n.cost < known /\ ~Dominated(closed \cup {l}, n)}
          IN  IF Dominated(closed, l)
              THEN open' = open \ {l} /\ UNCHANGED <<closed, best, meet>>
              ELSE /\ closed' = closed \cup {l}
                   /\ open' = (open \ {l}) \cup Pushed(new)
                   /\ IF here < best THEN best' = here /\ meet' = l.route ELSE UNCHANGED <<best, meet>>
  /\ UNCHANGED <<net, q, graph, destination, phase, kind, fwd, bwd, tree, route>>

FinishLimited ==
  /\ phase = "search" /\ kind = "limited" /\ ~LabelsLeft
  /\ route' = IF meet = << >> THEN route ELSE [edges |-> meet, cost |-> best]
  /\ phase' = "done"
  /\ UNCHANGED <<net, q, graph, destination, kind, fwd, bwd, tree, open, closed, best, meet>>

-----------------------------------------------------------------------------
Next ==
  \/ Start
  \/ SettleForward \/ SettleBackward \/ FinishTwoSided
  \/ SettleState \/ FinishStateful
  \/ CheckLimits \/ SettleLabel \/ FinishLimited
  \/ \E d \in q.later : NextDestination(d)

Spec == Init /\ [][Next]_vars

-----------------------------------------------------------------------------
(* Reference: every walk of at most Longest edges, by what its future      *)
(* depends on, judged by the restrictions themselves.                      *)

CONSTANT Longest

\* What the step to the last edge of a walk costs; the walk ends in at least
\* as many edges as the longest restriction has.
Completes(walk) == Max({0} \cup {Len(s) : s \in {s \in Sequences(net) : IsSuffix(s, walk)}})

StepPays(walk) ==
  LET n == Len(walk)
      a == <<walk[n - 1], walk[n]>>
  IN  Plus(Plus(TurnCost(net, a), RelaxPenalty(net, Completes(walk), a)), EdgePenalty(net, walk[n]))

Quantized(c) == IF kind = "cch" /\ c < Infinity THEN Tick * EncodeWeight(c) ELSE c

Step(l, e) ==
  LET walk == Append(l.tail, e)
  IN  [tail   |-> IF Len(walk) > 3 THEN Tail(walk) ELSE walk,
       cost   |-> Plus(l.cost, Quantized(StepPays(walk))),
       metres |-> l.metres + IllegalLength(e),
       turns  |-> l.turns + (IF Completes(walk) > 0 THEN 1 ELSE 0)]

FirstSteps == {[tail |-> <<s.edge>>, cost |-> s.cost + EdgePenalty(net, s.edge),
                metres |-> FirstMetres(s.edge), turns |-> 0] : s \in Sources}

WalksFrom(first) ==
  LET worthwhile(labels) == {l \in labels : ~\E k \in labels :
        /\ k.tail = l.tail /\ k.cost < l.cost /\ k.metres <= l.metres /\ k.turns <= l.turns}
      walks[n \in 1 .. Longest] ==
        IF n = 1 THEN first
        ELSE LET shorter == walks[n - 1]
             IN  worthwhile(shorter \cup {l \in {Step(l, e) : l \in shorter, e \in Edges \ q.banned} :
                                            l.cost < Infinity})
  IN  walks[Longest]

Walks == WalksFrom(FirstSteps)

\* The cost of the cheapest walk between the points within the limits.
Optimum ==
  LET legal(l) == Limited => /\ l.metres - UnusedMetres(Last(l.tail)) <= q.maxMetres
                             /\ l.turns <= q.maxTurns
      ends == {Plus(l.cost, Least({Infinity} \cup {t.cost : t \in {t \in Targets : t.edge = Last(l.tail)}})) :
                 l \in {l \in Walks : legal(l)}}
      direct == IF kind = "limited" THEN LimitedDirect ELSE Direct
  IN  Least({Infinity, direct.cost} \cup ends)

-----------------------------------------------------------------------------
(* Properties.                                                             *)

Answered == phase = "done" /\ ~SameEdgeReverse(q.origin, destination)

(* Whichever search answers, no walk between the points is cheaper than its   *)
(* answer: neither rounding of weights, negative costs of destinations, early *)
(* stops, lower bounds, restriction states, dominance nor the frontier of an  *)
(* earlier destination lose the optimum.  An alternative is the cheapest that *)
(* stays below its cap.                                                       *)
AnswersAreCheapest ==
  Answered =>
    LET optimum == Optimum
    IN  \/ route.cost = optimum /\ optimum <= q.maxCost
        \/ route = NoRoute /\ optimum >= q.maxCost

(* The edges of an answer make up the cost it reports, turn by turn, from     *)
(* the origin to the destination; it completes no restriction that is not     *)
(* relaxed, uses no banned edge and stays within the limits.                  *)
RoutesAreWalkable ==
  Answered /\ route \notin {NoRoute, Direct, LimitedDirect} =>
    LET edges == route.edges
        steps == [n \in 2 .. Len(edges) |-> Quantized(StepPays(SubSeq(edges, Max({1, n - 3}), n)))]
    IN  /\ \A n \in DOMAIN steps : steps[n] < Infinity
        /\ Range(edges) \cap q.banned = {}
        /\ \E s \in Sources, t \in Targets :
             /\ s.edge = edges[1] /\ t.edge = Last(edges)
             /\ route.cost = s.cost + EdgePenalty(net, s.edge) + t.cost
                             + MapThenSumSet(LAMBDA n : steps[n], DOMAIN steps)
        /\ Limited => WithinLimits(edges)

(* Every answer is cheapest and can be walked.                                *)
AnswersAreRight == AnswersAreCheapest /\ RoutesAreWalkable

=============================================================================
