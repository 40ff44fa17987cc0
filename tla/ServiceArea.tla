---------------------------- MODULE ServiceArea ----------------------------
(***************************************************************************)
(* Service areas (query, service_area.rs and service_area/): the positions *)
(* of the network within limits of travel time from origins, or to them.   *)
(* The edges carry one label each, found by a search with restriction      *)
(* states or, once that grows too large, by a sweep over the hierarchy; a  *)
(* limit cuts the labels into spans, and the spans of several origins are  *)
(* kept apart, merged, or cut so that every edge has one owner.            *)
(*                                                                         *)
(* A query asks "area".  A position on an edge is an offset in units of    *)
(* its cost (an edge without cost has one unit that costs nothing), so a   *)
(* span covers the units from .. to - 1.                                   *)
(***************************************************************************)
EXTENDS RouteBatch

CONSTANT SettleLimit   \* edges a search settles before the sweep takes over

Width(e) == Max({net.cost[e], 1})
Offset(p) == (Width(p.edge) * p.part) \div Parts
Inbound == q.direction = "in"

\* The automaton that reads a walk from its end.
SearchAutomaton ==
  IF Inbound THEN Automaton({Reverse(s) : s \in Sequences(net)}, Edges) ELSE graph.aut

\* Turning and driving the edge that comes next in the direction of search.
AreaStep(u, v) ==
  IF ~Inbound THEN graph.turn[<<u, v>>]
  ELSE Plus(graph.turn[<<v, u>>], net.cost[v] - net.cost[u])

-----------------------------------------------------------------------------
(* The candidates an origin starts from, and their seeds.                  *)

Nearest(candidates, limit) ==
  LET inside == {c \in Range(candidates) : c.away <= limit}
  IN  {c \in inside : \A other \in inside : c.away <= other.away}

StartingPoints(candidates) ==
  LET strict == Nearest(candidates, SnapLimit)
  IN  IF strict = {} /\ q.policy \in {"hop_origin", "hop_either"}
      THEN Nearest(candidates, q.hopLimit) ELSE strict

\* near is paid at the offset at, far at the other end that is searched on.
AreaSeeds(c) ==
  CASE c.edge # NoEdge /\ Inbound ->
         {[edge |-> c.edge, near |-> 0, far |-> (net.cost[c.edge] * c.part) \div Parts, at |-> Offset(c)]}
    [] c.edge # NoEdge /\ ~Inbound ->
         {s \in {[edge |-> c.edge, near |-> 0, far |-> (net.cost[c.edge] * (Parts - c.part)) \div Parts,
                  at |-> Offset(c)]} : s.far > 0}
    [] c.edge = NoEdge /\ Inbound ->
         {[edge |-> e, near |-> 0, far |-> net.cost[e], at |-> Width(e)] : e \in {e \in Edges : net.roads[e][2] = c.node}}
    [] c.edge = NoEdge /\ ~Inbound ->
         {s \in {[edge |-> e, near |-> 0, far |-> net.cost[e], at |-> 0] :
                   e \in {e \in Edges : net.roads[e][1] = c.node}} : s.far > 0}

-----------------------------------------------------------------------------
(* Labels.                                                                 *)

\* Cheapest far ends by a search that carries restriction states.
SearchedEnds(seeds) ==
  LET aut == SearchAutomaton
      keys == Edges \X aut.states
      steps == [a \in keys \X keys |->
                  IF /\ aut.transition[<<a[1][2], a[2][1]>>] = a[2][2]
                     /\ aut.prohibited[<<a[1][2], a[2][1]>>] = 0
                  THEN AreaStep(a[1][1], a[2][1]) ELSE Infinity]
      costs(e) == {s.far : s \in {s \in seeds : s.edge = e}}
      start == [k \in keys |-> IF k[2] = aut.transition[<<Root, k[1]>>]
                               THEN Least({Infinity} \cup costs(k[1])) ELSE Infinity]
      reached == Spread(keys, start, Tabulated(steps))
  IN  Tabulated([e \in Edges |-> Least({reached[k] : k \in {e} \X aut.states})])

\* As if the sweep went down before it had climbed.
SweptInRankOrder(seeds, limit) ==
  LET weight(u, v) == LET w == graph.weight[IF Inbound THEN <<v, u>> ELSE <<u, v>>]
                      IN  IF w < Infinity THEN Tick * w ELSE Infinity
      given(e) == IF Inbound THEN net.cost[e] ELSE 0
      start(e) == Least({Infinity} \cup {s.far - given(e) : s \in {s \in seeds : s.edge = e}})
      swept[e \in Edges] == Least({start(e)} \cup
                             {Plus(swept[h], weight(h, e)) : h \in {h \in e + 1 .. NEdges : swept[h] <= limit}})
  IN  Tabulated([e \in Edges |-> Plus(swept[e], given(e))])

\* Up the hierarchy from the seeds, then down it in the order of ranks.  The
\* weight of an arc holds the cost of its head, so a sweep towards the origin
\* counts from the end of each edge.
SweptEnds(seeds, limit) ==
  LET weight(u, v) == LET w == graph.weight[IF Inbound THEN <<v, u>> ELSE <<u, v>>]
                      IN  IF w < Infinity THEN Tick * w ELSE Infinity
      given(e) == IF Inbound THEN net.cost[e] ELSE 0
      start(e) == Least({Infinity} \cup {s.far - given(e) : s \in {s \in seeds : s.edge = e}})
      up[e \in Edges] == Least({start(e)} \cup {Plus(up[m], weight(m, e)) : m \in {m \in 1 .. e - 1 : up[m] <= limit}})
      climbed == Tabulated(up)
      down[e \in Edges] == Least({climbed[e]} \cup
                             {Plus(down[h], weight(h, e)) : h \in {h \in e + 1 .. NEdges : down[h] <= limit}})
  IN  Tabulated([e \in Edges |-> Plus(down[e], given(e))])

\* The cheapest far ends, by the way that suits the size of the area.
FarEnds(seeds, limit) ==
  LET settled(searched) == Cardinality({e \in Edges : searched[e] <= limit})
      sweeps(searched) == Accelerated(net) /\ ~HasSequences /\ ~q.components /\ settled(searched) > SettleLimit
  IN  CHOOSE ends \in {IF sweeps(searched) THEN SweptEnds(seeds, limit) ELSE searched :
                         searched \in {SearchedEnds(seeds)}} : TRUE

\* One label per edge, the one with the cheaper far end: its seed if it has one.
Labels(seeds, limit, ends) ==
  LET near(e) == Max({0, ends[e] - net.cost[e]})
      whole == {[edge |-> e, near |-> near(e), far |-> ends[e], at |-> IF Inbound THEN Width(e) ELSE 0] :
                  e \in {e \in Edges : ends[e] < Infinity /\ near(e) <= limit}}
      first(e) == {s \in seeds : s.edge = e /\ \A t \in seeds : t.edge = e => s.far <= t.far}
  IN  {l \in whole : ~\E s \in seeds : s.edge = l.edge /\ s.far <= l.far}
      \cup {CHOOSE s \in first(e) : TRUE : e \in {e \in Edges : \E s \in first(e) : s.far <= ends[e]}}

-----------------------------------------------------------------------------
(* Spans.                                                                  *)

Along(e, units) == IF net.cost[e] = 0 THEN 0 ELSE units

\* The part of a label within a limit, or all of it if whole edges are kept.
Span(l, limit) ==
  LET cut == q.cutAtBoundary /\ limit < l.far
      from == IF ~Inbound THEN l.at ELSE IF cut THEN Max({0, l.at - (limit - l.near)}) ELSE 0
      to == IF Inbound THEN l.at ELSE IF cut THEN l.at + (limit - l.near) ELSE Width(l.edge)
      rest == l.near + Along(l.edge, to - from)
  IN  [edge |-> l.edge, from |-> from, to |-> to,
       start |-> IF Inbound THEN rest ELSE l.near, end |-> IF Inbound THEN l.near ELSE rest]

Spans(labels, limit) == {s \in {Span(l, limit) : l \in {l \in labels : l.near < limit}} : s.from < s.to}

\* The spans of current without those of previous; costs run evenly along a span.
Difference(current, previous) ==
  LET at(s, o) == s.start + ((s.end - s.start) * (o - s.from)) \div (s.to - s.from)
      piece(s, from, to) == [edge |-> s.edge, from |-> from, to |-> to, start |-> at(s, from), end |-> at(s, to)]
      pieces(s) ==
        LET cuts == {p \in previous : p.edge = s.edge}
        IN  IF cuts = {} THEN {s}
            ELSE UNION {{piece(s, s.from, Least({s.to, p.from})), piece(s, Max({s.from, p.to}), s.to)} : p \in cuts}
  IN  {p \in UNION {pieces(s) : s \in current} : p.from < p.to}

\* Spans of an edge that touch become one.
Normalized(spans) ==
  LET joins(s, t) == [s EXCEPT !.to = t.to, !.end = t.end]
      reaches(s, x) == s.from <= x /\ x < s.to
      runs(here) == {joins(s, t) : s \in here, t \in here}
      maximal(r, here) ==
        /\ r.from < r.to
        /\ \A t \in here : t.from <= r.to => t.to <= r.to
        /\ \A t \in here : t.to >= r.from => t.from >= r.from
        /\ \A t \in here : r.from <= t.to /\ t.to < r.to => \E u \in here : reaches(u, t.to)
  IN  UNION {LET here == {s \in spans : s.edge = e} IN {r \in runs(here) : maximal(r, here)} : e \in Edges}

-----------------------------------------------------------------------------
(* Bands: what an origin reaches within each limit, and several origins.   *)

Expansion(candidates) ==
  LET seeds == UNION {AreaSeeds(c) : c \in StartingPoints(candidates)}
  IN  UNION {Labels(seeds, Last(q.limits), ends) : ends \in {FarEnds(seeds, Last(q.limits))}}

\* Origins that snap alike share what was found for the first of them.
SharedName(n) == q.areas[Least({m \in DOMAIN q.areas : q.areas[m].candidates = q.areas[n].candidates})].name

BandsOf(n) ==
  LET band(over, limit, spans) == [origin |-> SharedName(n), over |-> over, limit |-> limit, spans |-> spans]
      before(k) == IF k = 1 THEN 0 ELSE q.limits[k - 1]
      within == CHOOSE w \in {[k \in DOMAIN q.limits |-> Spans(labels, q.limits[k])] :
                                labels \in {Expansion(q.areas[n].candidates)}} : TRUE
  IN  CASE q.bands = "unbanded" -> {band(0, Last(q.limits), within[Len(q.limits)])}
        [] q.bands = "cumulative" -> {band(before(k), q.limits[k], within[k]) : k \in DOMAIN q.limits}
        [] q.bands = "ring" -> {band(before(k), q.limits[k],
               IF k = 1 THEN within[1] ELSE Difference(within[k], within[k - 1])) : k \in DOMAIN q.limits}

Groups(bands) == {{b \in bands : b.over = a.over /\ b.limit = a.limit} : a \in bands}

Merged(bands) ==
  {LET any == CHOOSE b \in group : TRUE
   IN  [any EXCEPT !.origin = "all", !.spans = Normalized(UNION {b.spans : b \in group})] : group \in Groups(bands)}

\* The origin whose span is cheapest at its middle owns the edge.
Cut(bands) ==
  LET rank(name) == CHOOSE n \in DOMAIN q.areas : q.areas[n].name = name
      made(group, e) == UNION {{[origin |-> b.origin, span |-> s] : s \in {s \in b.spans : s.edge = e}} : b \in group}
      middle(o) == o.span.start + o.span.end
      wins(o, all) == \A other \in all : \/ middle(o) < middle(other)
                                         \/ middle(o) = middle(other) /\ rank(o.origin) <= rank(other.origin)
      owned(group, origin) == {o.span : o \in {o \in UNION {made(group, e) : e \in Edges} :
                                  o.origin = origin /\ wins(o, made(group, o.span.edge))}}
  IN  UNION {{[b EXCEPT !.spans = owned(group, b.origin)] : b \in group} : group \in Groups(bands)}

Processed == {n \in DOMAIN q.areas : StartingPoints(q.areas[n].candidates) # {}}

Bands ==
  LET bands == UNION {BandsOf(n) : n \in Processed}
  IN  CASE q.combine = "overlap" -> bands
        [] q.combine = "merge" -> Merged(bands)
        [] q.combine = "cut" -> Cut(bands)

Outcome ==
  LET hopped == {n \in Processed : \A c \in StartingPoints(q.areas[n].candidates) : c.away > SnapLimit}
  IN  CASE Processed = {} -> "unreachable"
        [] Processed # {} /\ Processed # DOMAIN q.areas -> "partial"
        [] Processed = DOMAIN q.areas /\ hopped # {} -> "degraded"
        [] OTHER -> "legal"

-----------------------------------------------------------------------------
(* Areas that begin with time already spent, as around the stops of a      *)
(* transit search: every visit leaves its span.                            *)

SeededStarts(c) ==
  IF c.edge # NoEdge THEN {[edge |-> c.edge, at |-> Offset(c)]}
  ELSE {[edge |-> e, at |-> IF Inbound THEN Width(e) ELSE 0] :
          e \in {e \in Edges : net.roads[e][IF Inbound THEN 2 ELSE 1] = c.node}}

\* What a visit at an offset covers, with the cost of the end it runs to.
Visit(e, at, before) ==
  [edge |-> e, near |-> before, at |-> at,
   far |-> Plus(before, Along(e, IF Inbound THEN at ELSE Width(e) - at))]

SeededSpans(limit) ==
  LET aut == SearchAutomaton
      seeds == UNION {{Visit(s.edge, s.at, c.spent) : s \in SeededStarts(c)} : c \in q.seeded}
      keys == Edges \X aut.states
      allowed(k, e) == aut.prohibited[<<k[2], e>>] = 0
      to(k, e) == <<e, aut.transition[<<k[2], e>>]>>
      steps == [a \in keys \X keys |-> IF allowed(a[1], a[2][1]) /\ to(a[1], a[2][1]) = a[2]
                                       THEN AreaStep(a[1][1], a[2][1]) ELSE Infinity]
      start == [k \in keys |-> Least({Infinity} \cup {s.far : s \in {s \in seeds : k = to(<<k[1], Root>>, s.edge)}})]
      visits(reached) ==
        UNION {{Visit(e, IF Inbound THEN Width(e) ELSE 0, Plus(reached[k], AreaStep(k[1], e) - net.cost[e])) :
                  e \in {e \in Edges : allowed(k, e) /\ AreaStep(k[1], e) < Infinity}} :
                 k \in {k \in keys : reached[k] <= limit}}
      inside(s) == s.near < limit \/ (s.near = limit /\ net.cost[s.edge] = 0)
  IN  Normalized(UNION {{Span(s, limit) : s \in {s \in seeds \cup visits(reached) : inside(s)}} :
                          reached \in {Spread(keys, start, Tabulated(steps))}})

-----------------------------------------------------------------------------
\* A request that may not skip an origin fails with it.
AnswerArea ==
  /\ phase = "area"
  /\ route' = IF q.seeded # {}
              THEN [outcome |-> "legal",
                    bands |-> {[origin |-> "seeds", over |-> 0, limit |-> Last(q.limits), spans |-> SeededSpans(Last(q.limits))]}]
              ELSE IF Processed # DOMAIN q.areas /\ q.policy # "ignore" THEN [outcome |-> "error", bands |-> {}]
              ELSE [outcome |-> Outcome, bands |-> Bands]
  /\ phase' = "mapped"
  /\ UNCHANGED <<net, q, graph, destination, kind, fwd, bwd, tree, open, closed, best, meet>>

-----------------------------------------------------------------------------
(* Property.                                                               *)

\* The ways from the points of an area to an edge, or to it: from the point
\* itself, or by the cheapest walks over other edges.
OwnWays(c, spent) == {[edge |-> s.edge, at |-> s.at, near |-> spent] : s \in SeededStarts(c)}

Whole(e) == [tail |-> <<e>>, cost |-> net.cost[e], metres |-> 0, turns |-> 0]

OtherWays(c, spent) ==
  LET further(labels) == {l \in labels : Len(l.tail) > 1 /\ l.cost < Infinity}
      from == {[Whole(s.edge) EXCEPT !.cost = s.cost] : s \in OriginSeeds(net, c)}
  IN  IF Inbound
      THEN UNION {UNION {{[edge |-> e, at |-> Width(e), near |-> spent + l.cost + t.cost - net.cost[e]] :
                            t \in {t \in DestinationSeeds(net, c) : t.edge = Last(l.tail)}} :
                           l \in further(WalksFrom({Whole(e)}))} : e \in Edges}
      ELSE {[edge |-> Last(l.tail), at |-> 0, near |-> spent + l.cost - net.cost[Last(l.tail)]] :
              l \in further(WalksFrom(from))}

\* The cost at which a way reaches the unit u of its edge.
CostAt(w, u) ==
  CASE ~Inbound /\ u >= w.at -> w.near + Along(w.edge, u - w.at)
    [] Inbound /\ u < w.at -> w.near + Along(w.edge, w.at - 1 - u)
    [] OTHER -> Infinity

UnitsOf(e) == 0 .. Width(e) - 1
Units == UNION {{<<e, u>> : u \in UnitsOf(e)} : e \in Edges}
Covered(spans) == UNION {{<<s.edge, u>> : u \in s.from .. s.to - 1} : s \in spans}

\* What each unit costs from the points given with the time spent there, by
\* whatever way it is reached.
UnitCosts(points) ==
  CHOOSE costs \in
    {Tabulated([x \in Units |-> Least({Infinity} \cup {CostAt(w, x[2]) : w \in {w \in ways : w.edge = x[1]}})]) :
       ways \in {UNION {OwnWays(p[1], p[2]) \cup OtherWays(p[1], p[2]) : p \in points}}} : TRUE

\* The positions that an area leaves out: those behind a point on its own edge
\* - inbound, beyond it -, however cheaply one comes to them round the network.
\* The edge carries one label, and that is the point's.
BehindPoints(points) ==
  LET own == UNION {OwnWays(p[1], p[2]) : p \in points}
  IN  {x \in Units : /\ \E w \in own : w.edge = x[1]
                     /\ \A w \in own : w.edge = x[1] => CostAt(w, x[2]) = Infinity}

\* What a sweep may be off by: half a tick for every edge on the way, and
\* nothing if all costs are whole ticks.
Rounding ==
  IF ~Accelerated(net) \/ \A a \in Pairs : graph.turn[a] < Infinity => graph.turn[a] % Tick = 0
  THEN 0 ELSE (NEdges - 1) * (Tick \div 2)

(* The guide: "each position that reaches an origin within the thresholds".   *)
(* A position of the network lies in the area of an origin for a limit if its *)
(* cheapest legal walk from the origin's points - or to them - is within the  *)
(* limit, and no other does, whether a search or a sweep found it, with whole *)
(* edges or edges cut at the limit; rings leave nothing out and share         *)
(* nothing; merging adds the areas up; in a cut every edge that some origin   *)
(* reaches has one owner, who keeps what of it he reaches.  With exactly two  *)
(* exceptions.  What lies behind a point on the point's own edge is never in  *)
(* the area, though a walk round the network leads there (areas that begin    *)
(* with time spent do keep it).  And where the costs are not whole ticks, a   *)
(* sweep is right only for positions further than its rounding from a limit.  *)
AreasAreExact ==
  phase = "mapped" /\ route.outcome # "error" =>
    LET points(n) == {<<c, 0>> : c \in StartingPoints(q.areas[n].candidates)}
        costs == Tabulated([n \in Processed |-> UnitCosts(points(n))])
        kept(cost, x) == IF q.cutAtBoundary \/ cost[x] = Infinity THEN cost[x]
                         ELSE Least({cost[<<x[1], u>>] : u \in UnitsOf(x[1])})
        inside(n, b, off) ==
          {x \in Units \ BehindPoints(points(n)) :
             /\ kept(costs[n], x) + off < b.limit
             /\ q.bands = "ring" /\ b.over > 0 => kept(costs[n], x) >= b.over + off}
        of(b) == CHOOSE n \in Processed : q.areas[n].name = b.origin
        between(set, names, b) == /\ UNION {inside(n, b, Rounding) : n \in names} \subseteq set
                                  /\ set \subseteq UNION {inside(n, b, -Rounding) : n \in names}
        peers(b) == {other \in route.bands : other.limit = b.limit}
    IN  CASE q.seeded # {} ->
               LET cost == UnitCosts({<<c, c.spent>> : c \in q.seeded})
               IN  \A b \in route.bands : Covered(b.spans) = {x \in Units : cost[x] < b.limit}
          [] q.seeded = {} /\ q.combine = "overlap" ->
               \A b \in route.bands : between(Covered(b.spans), {of(b)}, b)
          [] q.seeded = {} /\ q.combine = "merge" ->
               \A b \in route.bands : between(Covered(b.spans), Processed, b)
          [] q.seeded = {} /\ q.combine = "cut" ->
               \A b \in route.bands : \A e \in Edges :
                 LET on(set) == {x \in set : x[1] = e}
                     owners == {p \in peers(b) : on(Covered(p.spans)) # {}}
                 IN  /\ Cardinality(owners) <= 1
                     /\ \A p \in owners : /\ on(inside(of(p), p, Rounding)) \subseteq on(Covered(p.spans))
                                          /\ on(Covered(p.spans)) \subseteq on(inside(of(p), p, -Rounding))
                     /\ owners = {} => on(UNION {inside(n, b, Rounding) : n \in Processed}) = {}
=============================================================================
