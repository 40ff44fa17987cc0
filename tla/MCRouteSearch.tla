--------------------------- MODULE MCRouteSearch ---------------------------
EXTENDS ServiceArea

\* Two maps of five roads.  A street with a way back over its middle and a
\* dearer parallel to it; a fork whose longer branch has more, cheaper turns
\* and whose ends are joined again.  The restrictions of a map overlap: one
\* begins inside another, ends inside it or lies inside it.
Street ==
  [roads |-> [a |-> <<1, 2>>, b |-> <<2, 3>>, c |-> <<3, 4>>, d |-> <<3, 2>>, e |-> <<2, 3>>],
   price |-> [a |-> 4, b |-> 8, c |-> 12, d |-> 0, e |-> 32], twin |-> <<"b", "d">>, second |-> {},
   rules |-> {{}, {<<"a", "b">>}, {<<"b", "d">>}, {<<"d", "b">>, <<"a", "e">>}, {<<"a", "b", "c">>},
              {<<"a", "b", "c">>, <<"b", "d">>}, {<<"a", "b", "c">>, <<"d", "b", "c">>},
              {<<"a", "b", "d">>, <<"b", "c">>}, {<<"a", "b", "d", "b">>, <<"b", "c">>, <<"d", "e">>}}]
Fork ==
  [roads |-> [a |-> <<1, 2>>, b |-> <<2, 4>>, c |-> <<2, 3>>, d |-> <<3, 4>>, e |-> <<4, 2>>],
   price |-> [a |-> 8, b |-> 12, c |-> 4, d |-> 4, e |-> 8], twin |-> <<"b", "e">>, second |-> {},
   rules |-> {{}, {<<"a", "c">>}, {<<"a", "c", "d">>}, {<<"a", "c", "d">>, <<"e", "c">>},
              {<<"a", "c", "d">>, <<"c", "d", "e">>}, {<<"a", "b", "e">>, <<"c", "d">>}}]

Orders == {<<"a", "b", "c", "d", "e">>, <<"c", "e", "a", "d", "b">>, <<"b", "d", "a", "e", "c">>}

Rank(order, road) == CHOOSE n \in 1 .. 5 : order[n] = road

\* A network without failure modes.
Exact(map) ==
  {[order |-> order, roads |-> [n \in 1 .. 5 |-> map.roads[order[n]]],
    cost |-> [n \in 1 .. 5 |-> map.price[order[n]]],
    restrictions |-> {[n \in DOMAIN s |-> Rank(order, s[n])] : s \in rules},
    virtual |-> {}, relax |-> {}, hierarchy |-> h, ask |-> "route",
    twin |-> map.twin, second |-> map.second] :
     order \in Orders, rules \in map.rules, h \in BOOLEAN}

\* Failure modes; a reversed street exists only if it may be used.
Relaxed(map) ==
  {[x EXCEPT !.relax = relax] : x \in Exact(map), relax \in {{"ignore"}, {"turn"}, {"uturn", "turn"}}}
  \cup {[x EXCEPT !.virtual = {Rank(x.order, road) : road \in roads}, !.relax = relax] :
          x \in {x \in Exact(map) : ~x.hierarchy},
          roads \in {{"d"}, {"d", "b"}}, relax \in {{"turn", "reverse"}, {"ignore", "reverse"}}}

\* Two parts of a network that no road joins.
Islands ==
  [roads |-> [a |-> <<1, 2>>, b |-> <<2, 1>>, c |-> <<3, 4>>, d |-> <<4, 5>>, e |-> <<5, 3>>],
   price |-> [a |-> 4, b |-> 8, c |-> 4, d |-> 8, e |-> 4], twin |-> <<"a", "b">>, second |-> {"c", "d", "e"},
   rules |-> {{}, {<<"c", "d", "e">>}}]

\* Prices of whole ticks: what a batch adds up is what its requests do.
InTicks(x, ask) == [x EXCEPT !.cost = [n \in Edges |-> Tick * x.cost[n]], !.ask = ask]

MCBatchNetworks ==
  {InTicks(x, "batch") : x \in {x \in UNION {Exact(map) : map \in {Street, Fork, Islands}} : x.order[1] # "c"}}

\* Ranks matter to the sweep alone, which leaves restrictions to the search.
MCAreaNetworks ==
  LET exact == UNION {Exact(map) : map \in {Street, Fork}}
  IN  {InTicks(x, "area") : x \in {x \in exact : IF x.restrictions = {} THEN x.order[1] # "c"
                                                  ELSE x.order[1] = "a" /\ ~x.hierarchy}}

\* Prices a little above or below a whole tick: a sweep rounds each of them.
MCRoundedNetworks ==
  {[x EXCEPT !.cost = [n \in Edges |-> IF x.cost[n] = 0 THEN 0 ELSE x.cost[n] - off]] :
     x \in {x \in MCAreaNetworks : x.hierarchy}, off \in {8, 12}}

MCNetworks == UNION {Exact(map) \cup Relaxed(map) : map \in {Street, Fork}} \cup MCBatchNetworks
              \cup MCAreaNetworks \cup MCRoundedNetworks

On(network, road, part) == [edge |-> Rank(network.order, road), part |-> part, node |-> 0]
At(node) == [edge |-> NoEdge, part |-> 0, node |-> node]

Plain(o, d) == [ask |-> "route", origin |-> o, destination |-> d, later |-> {}, alternative |-> FALSE, banned |-> {},
                maxCost |-> Infinity, maxMetres |-> Infinity, maxTurns |-> Infinity]

\* A candidate for a point of a batch: place, distance and component.
Snapped(point, place, away, component) ==
  [edge |-> point.edge, part |-> point.part, node |-> point.node,
   place |-> place, away |-> away, component |-> component]

\* A road seen from both directions, a point far away, one at a node, one
\* that did not snap, and on islands one of each.
BatchesOn(network) ==
  LET on(road, part, place, away) ==
        Snapped(On(network, road, part), place, away, IF road \in network.second THEN 2 ELSE 1)
      there == network.twin[1]
      back  == network.twin[2]
      both == <<on(there, 1, "x", 1), on(back, 3, "x", 1), on("c", 2, "y", 2)>>
      starts == <<<<on("a", 1, "s", 1)>>, both, <<on("d", 3, "f", 4), on("c", 1, "g", 1)>>,
                  <<Snapped(At(2), "n", 1, 1)>>, << >>>>
      ends == <<<<on("c", 3, "t", 1)>>, <<on(back, 2, "z", 1), on(there, 2, "z", 1)>>, <<on("e", 2, "u", 1)>>,
                <<on("a", 3, "v", 1), on("d", 1, "w", 6)>>, << >>>>
      base == [origins |-> starts, destinations |-> ends, pairs |-> (1 .. 5) \X (1 .. 5), matrix |-> TRUE,
               policy |-> "strict", hopLimit |-> 5, summaryOnly |-> TRUE, ask |-> "batch"]
             @@ Plain(At(2), At(4))
  IN  {[base EXCEPT !.policy = policy, !.summaryOnly = only] :
          policy \in {"strict", "ignore", "hop_origin", "hop_either"}, only \in BOOLEAN}
      \cup {[base EXCEPT !.pairs = pairs, !.matrix = FALSE, !.policy = "hop_destination"] :
               pairs \in {{<<1, 1>>, <<2, 2>>, <<3, 4>>}, {<<2, 1>>, <<2, 2>>, <<2, 3>>, <<2, 4>>, <<5, 5>>}}}

\* Areas around a road, around both directions of one or a node, and around
\* points that are far away or nowhere; out and back in.
AreasOn(network) ==
  LET on(road, part, away) == Snapped(On(network, road, part), road, away, 1)
      back == network.twin[2]
      twin == <<on(network.twin[1], 1, 1), on(back, 3, 1), on("e", 2, 2)>>
      one(name, candidates) == [name |-> name, candidates |-> candidates]
      middle == IF network.cost[Rank(network.order, back)] = 0 THEN <<Snapped(At(2), "n", 1, 1)>> ELSE twin
      two == <<one("A", <<on("a", 1, 1)>>), one("B", middle)>>
      more == <<one("A", <<on("c", 2, 4)>>), one("B", middle), one("C", << >>)>>
      base == [areas |-> two, limits |-> <<25, 70>>, bands |-> "ring", combine |-> "overlap", cutAtBoundary |-> TRUE,
               direction |-> "out", policy |-> "ignore", hopLimit |-> 5, components |-> FALSE, seeded |-> {},
               ask |-> "area"] @@ Plain(At(2), At(4))
      spent(p, s) == [edge |-> p.edge, part |-> p.part, node |-> p.node, spent |-> s]
      modes == {[base EXCEPT !.bands = b, !.combine = c, !.cutAtBoundary = cut] :
                  b \in {"unbanded", "cumulative", "ring"}, c \in {"overlap", "merge", "cut"}, cut \in BOOLEAN}
      others == {[base EXCEPT !.areas = more, !.policy = policy] : policy \in {"strict", "ignore"}}
                \cup {[base EXCEPT !.areas = Front(more), !.policy = "hop_either"],
                      [base EXCEPT !.components = TRUE],
                      [base EXCEPT !.seeded = {spent(on("a", 1, 1), 0), spent(on("c", 2, 1), 15), spent(At(2), 40)}],
                      [base EXCEPT !.seeded = {spent(on("b", 3, 1), 10), spent(on("b", 1, 1), 20)}, !.limits = <<90>>]}
  IN  UNION {{x, [x EXCEPT !.direction = "in"]} :
               x \in others \cup (IF network.restrictions = {} THEN modes ELSE {base})}

RoutesOn(network) ==
  LET points(part) == {On(network, road, part) : road \in {"a", "b", "c", "d"}} \cup {At(2), At(4)}
      some == {Plain(o, d) : o \in {On(network, "a", 1), At(2)}, d \in {On(network, "c", 3), On(network, "d", 1)}}
              \cup {Plain(On(network, "b", 3), On(network, "b", 1)), Plain(On(network, "d", 3), At(4))}
      detours == {[x EXCEPT !.alternative = TRUE, !.banned = {Rank(network.order, road)}, !.maxCost = cap] :
                    x \in some, road \in {"b", "e"}, cap \in {14, 40}}
  IN  IF network.relax = {}
      THEN {Plain(o, d) : o \in points(1), d \in points(3)} \cup detours
           \cup {[x EXCEPT !.later = {On(network, "c", 1), At(4), On(network, "b", 3)}] : x \in some}
      ELSE some \cup detours
           \cup {[x EXCEPT !.maxMetres = limits[1], !.maxTurns = limits[2]] :
                   x \in some, limits \in {<<Infinity, 0>>, <<4, 1>>, <<6, Infinity>>}}

MCQueriesOn(network) ==
  CASE network.ask = "route" -> RoutesOn(network)
    [] network.ask = "batch" -> BatchesOn(network)
    [] network.ask = "area" -> AreasOn(network)

MCNext == Next \/ AnswerBatch \/ AnswerArea
MCSpec == Init /\ [][MCNext]_vars

MCPenalty == [ignore |-> 24, uturn |-> 6, turn |-> 10, reverse |-> 16]
=============================================================================
