----------------------------- MODULE Dissection -----------------------------
(***************************************************************************)
(* The order in which edge states are contracted (ingest:                  *)
(* acceleration.rs): by nested dissection, or patched from the order of a  *)
(* previous build.  A cell is a set of edges of a graph [linked, at]: who  *)
(* continues into whom, either way round, and twice the middle of an edge. *)
(***************************************************************************)
EXTENDS Topology

CONSTANT LeafStates   \* largest cell that is not split

ASSUME DissectionAssumption == LeafStates \in Nat \ {0}

GraphOf(topology) ==
  LET edges == topology.edges
      steps == {t \in TransitionsOf(edges) : t[1] # t[2]}
      sum(p, q) == <<p[1] + q[1], p[2] + q[2]>>
  IN  [linked |-> steps \cup {<<t[2], t[1]>> : t \in steps},
       at |-> [e \in DOMAIN edges |-> sum(topology.places[edges[e].from], topology.places[edges[e].to])]]

Near(graph, e) == {f \in DOMAIN graph.at : <<e, f>> \in graph.linked}

\* What is reached from some states of a cell without leaving it.
ReachedIn(graph, cell, from) ==
  LET beside(states) == cell \cap UNION {Near(graph, e) : e \in states}
      reached[n \in 0 .. Cardinality(cell)] ==
        IF n = 0 THEN from ELSE LET before == reached[n - 1] IN before \cup beside(before)
  IN  reached[Cardinality(cell)]

\* By a value and then by id.
Ranking(cell, value) ==
  Arranged(cell, LAMBDA a, b : value[a] < value[b] \/ (value[a] = value[b] /\ a < b))

-----------------------------------------------------------------------------
(* Splitting a cell.                                                       *)

\* Whole components, the largest first into the lighter group; nothing for a
\* connected cell.
SplitComponents(graph, cell) ==
  LET parts == {ReachedIn(graph, cell, {e}) : e \in cell}
      order == Arranged(parts, LAMBDA p, q : \/ Cardinality(p) > Cardinality(q)
                                             \/ Cardinality(p) = Cardinality(q) /\ Min(p) < Min(q))
      add(two, p) == IF Cardinality(two[2]) < Cardinality(two[1]) THEN <<two[1], two[2] \cup p>> ELSE <<two[1] \cup p, two[2]>>
  IN  IF Cardinality(parts) < 2 THEN {} ELSE {FoldLeft(add, <<{}, {}>>, order)}

\* The smallest vertex cut between sources and sinks that lies nearest to the
\* sources, which is what the residual network of a maximum flow shows;
\* nothing if it is not below the limit.
FlowSplit(graph, cell, sources, sinks, limit) ==
  LET inner == cell \ (sources \cup sinks)
      side(cut) == ReachedIn(graph, cell \ cut, sources)
      cuts == {cut \in SUBSET inner : Cardinality(cut) < limit /\ side(cut) \cap sinks = {}}
      least == {cut \in cuts : \A other \in cuts : Cardinality(cut) <= Cardinality(other)}
      cut == CHOOSE c \in least : \A other \in least : side(other) \subseteq side(c) => side(other) = side(c)
  IN  IF cuts = {} THEN {} ELSE {[a |-> side(cut), b |-> cell \ (side(cut) \cup cut), separator |-> cut]}

Directions == <<<<1, 0>>, <<0, 1>>, <<1, 1>>, <<1, -1>>>>

\* A quarter of the cell lies on either side; the smallest separator of four
\* directions, the first of them on a tie.
InertialFlowSplit(graph, cell) ==
  LET quarter == Cardinality(cell) \div 4
      try(best, d) ==
        LET order == Ranking(cell, [e \in cell |-> d[1] * graph.at[e][1] + d[2] * graph.at[e][2]])
            limit == IF best = {} THEN Cardinality(cell) + 1 ELSE Cardinality(One(best).separator)
            split == FlowSplit(graph, cell, Range(SubSeq(order, 1, quarter)),
                               Range(SubSeq(order, Len(order) - quarter + 1, Len(order))), limit)
        IN  IF split = {} THEN best ELSE split
  IN  IF quarter = 0 \/ 2 * quarter >= Cardinality(cell) THEN {} ELSE FoldLeft(try, {}, Directions)

SplitWithoutBorder(graph, cell) ==
  LET order == Ranking(cell, [e \in cell |-> graph.at[e][1]])
      lower == Range(SubSeq(order, 1, Len(order) \div 2))
      border == {e \in lower : \A f \in cell \ lower : f \in Near(graph, e)}
  IN  [a |-> lower \ border, b |-> cell \ lower, separator |-> border]

\* At the median of the wider axis, with the boundary of the lower half.
CoordinateSplit(graph, cell) ==
  LET values(axis) == {graph.at[e][axis] : e \in cell}
      axis  == IF Max(values(1)) - Min(values(1)) >= Max(values(2)) - Min(values(2)) THEN 1 ELSE 2
      order == Ranking(cell, [e \in cell |-> graph.at[e][axis]])
      lower == Range(SubSeq(order, 1, Len(order) \div 2))
      border == {e \in lower : Near(graph, e) \cap (cell \ lower) # {}}
  IN  [a |-> lower \ border, b |-> cell \ lower, separator |-> border]

SplitOf(graph, cell) ==
  LET flow == InertialFlowSplit(graph, cell) IN IF flow = {} THEN CoordinateSplit(graph, cell) ELSE One(flow)

\* The state of fewest neighbours goes next, and links the ones it had.
MinimumDegreeOrder(graph, cell) ==
  LET of(c, e) == {f \in c.left : <<e, f>> \in c.linked}
      degree(c, e) == Cardinality(of(c, e))
      next(c) == CHOOSE e \in c.left : \A f \in c.left : degree(c, e) < degree(c, f) \/ (degree(c, e) = degree(c, f) /\ e <= f)
      taken(c, e) == [order |-> Append(c.order, e), left |-> c.left \ {e},
                      linked |-> c.linked \cup {p \in of(c, e) \X of(c, e) : p[1] # p[2]}]
      after[n \in 0 .. Cardinality(cell)] ==
        IF n = 0 THEN [order |-> << >>, left |-> cell, linked |-> graph.linked]
        ELSE LET c == after[n - 1] IN taken(c, next(c))
  IN  after[Cardinality(cell)].order

\* Groups of whole components, or two sides and what keeps them apart.
PartsOf(graph, cell) ==
  LET groups == SplitComponents(graph, cell)
  IN  IF groups # {} THEN groups ELSE {<<s.a, s.b, s.separator>> : s \in {SplitOf(graph, cell)}}

\* What keeps the sides apart comes last.
Dissect(graph, cell) ==
  LET order[part \in SUBSET cell] ==
        IF Cardinality(part) <= LeafStates THEN MinimumDegreeOrder(graph, part)
        ELSE One({FlattenSeq([n \in DOMAIN parts |-> order[parts[n]]]) : parts \in PartsOf(graph, part)})
  IN  order[cell]

-----------------------------------------------------------------------------
(* Carrying an order over: ranks gives every edge its previous rank, None  *)
(* for a new one.                                                          *)

\* First what leaves the head, then what enters the tail.
NeighboursOf(edges, e) ==
  LET near == Leaving(edges, edges[e].to) \o Sorted({f \in DOMAIN edges : edges[f].to = edges[e].from})
  IN  Picked(near, {n \in DOMAIN near : near[n] # e})

\* Layer by layer, a new state takes the highest anchor next to it.
Anchored(edges, ranks) ==
  LET near(e) == NeighboursOf(edges, e)
      place(c) ==
        LET anchor(e) == Max({c.anchor[f] : f \in Range(near(e))})
            anchors == [e \in DOMAIN edges |-> IF e \in Range(c.layer) THEN anchor(e) ELSE c.anchor[e]]
            met == FlattenSeq([n \in DOMAIN c.layer |-> near(c.layer[n])])
        IN  [anchor |-> anchors, came |-> c.came \o c.layer,
             layer |-> Picked(met, {n \in DOMAIN met : anchors[met[n]] = None /\ \A m \in 1 .. n - 1 : met[m] # met[n]})]
      first == Sorted({e \in DOMAIN edges : ranks[e] = None /\ \E f \in Range(near(e)) : ranks[f] # None})
      after[n \in 0 .. Len(edges)] ==
        IF n = 0 THEN [anchor |-> ranks, came |-> << >>, layer |-> first]
        ELSE LET c == after[n - 1] IN IF c.layer = << >> THEN c ELSE place(c)
  IN  after[Len(edges)]

\* New components go first, and a new state right behind its anchor.
Inserted(graph, edges, ranks, c) ==
  LET since(e) == IF ranks[e] # None THEN 0 ELSE CHOOSE n \in DOMAIN c.came : c.came[n] = e
      behind == Arranged({e \in DOMAIN edges : c.anchor[e] # None},
                         LAMBDA a, b : c.anchor[a] < c.anchor[b] \/ (c.anchor[a] = c.anchor[b] /\ since(a) < since(b)))
  IN  Dissect(graph, {e \in DOMAIN edges : c.anchor[e] = None}) \o behind

PatchEdgeOrder(topology, ranks) ==
  One({Inserted(graph, topology.edges, ranks, c) : graph \in {GraphOf(topology)}, c \in {Anchored(topology.edges, ranks)}})

=============================================================================
