--------------------------- MODULE TransitTables ---------------------------
(***************************************************************************)
(* How timetables and transfers are kept (transit, timetable_pack.rs,      *)
(* fusion.rs, transfer_pack.rs): connections as patterns and runs, walks   *)
(* between stops with their street paths as tries.  A file is a sequence   *)
(* of numbers, each of one or more bytes.  What is read back is searched.  *)
(***************************************************************************)
EXTENDS TransitFeed

\* A number read beyond the end; the end is checked after all is read.
At(stream, n) == IF n \in DOMAIN stream THEN stream[n] ELSE 0

Zigzag(n) == IF n >= 0 THEN 2 * n ELSE -2 * n - 1
Unzigzag(u) == IF u % 2 = 0 THEN u \div 2 ELSE -((u + 1) \div 2)

Added(seq, x) == IF x \in Range(seq) THEN seq ELSE Append(seq, x)

UpTo(n) == [k \in 1 .. n |-> k]

-----------------------------------------------------------------------------
(* Connections.  Runs that share their stops and relative times share a    *)
(* pattern; the order of the timetable is restored by one stable sort.     *)

\* As if departures alone had to be in order.
ListedByDeparture(connections) ==
  \A n \in 1 .. Len(connections) - 1 : connections[n].dep <= connections[n + 1].dep

ListedInOrder(connections) ==
  \A n \in 1 .. Len(connections) - 1 :
    LET c == connections[n]
        d == connections[n + 1]
    IN  c.dep < d.dep \/ (c.dep = d.dep /\ c.run <= d.run)

RunsApart(connections) ==
  LET runs == Ascending({c.run : c \in Range(connections)})
  IN  [r \in DOMAIN runs |-> SelectSeq(connections, LAMBDA c : c.run = runs[r])] @@ << >>

OneTrip(hops) == \A n \in DOMAIN hops : hops[n].trip = hops[1].trip /\ hops[n].route = hops[1].route

PatternOf(hops) ==
  [trip |-> hops[1].trip, route |-> hops[1].route,
   steps |-> [n \in DOMAIN hops |->
     [from |-> hops[n].from, to |-> hops[n].to, pickup |-> hops[n].pickup, drop |-> hops[n].drop,
      offset |-> hops[n].dep - hops[1].dep, travel |-> hops[n].arr - hops[n].dep]]]

Bit(b) == IF b THEN 1 ELSE 0

\* A step says where it starts only when that is not where the last one ended.
EncodedStep(steps, n) ==
  LET s == steps[n]
      chained == n > 1 /\ steps[n - 1].to = s.from
      arrived == IF n = 1 THEN 0 ELSE steps[n - 1].offset + steps[n - 1].travel
  IN  <<8 * Zigzag(s.to - s.from) + 4 * Bit(~chained) + 2 * Bit(s.pickup) + Bit(s.drop)>>
      \o (IF chained THEN << >> ELSE <<s.from>>)
      \o <<Zigzag(s.offset - arrived), Zigzag(s.travel)>>

EncodedPattern(p) ==
  <<p.trip, p.route, Len(p.steps)>> \o FlattenSeq([n \in DOMAIN p.steps |-> EncodedStep(p.steps, n)])

EncodedRuns(runs, patterns) ==
  LET entry(n) == <<runs[n][1].run, PositionOf(patterns, PatternOf(runs[n])) - 1, runs[n][1].dep>>
      last(n) == IF n = 1 THEN <<0, 0, 0>> ELSE entry(n - 1)
  IN  FlattenSeq([n \in DOMAIN runs |-> [i \in 1 .. 3 |-> Zigzag(entry(n)[i] - last(n)[i])]])

\* Another order, or a run that changes its trip, is kept as it is.
Encoded(connections) ==
  LET packed(runs, patterns) ==
        [kind |-> "patterns",
         stream |-> <<Len(connections), Len(patterns)>>
                    \o FlattenSeq([n \in DOMAIN patterns |-> EncodedPattern(patterns[n])])
                    \o <<Len(runs)>> \o EncodedRuns(runs, patterns)]
      runs == RunsApart(connections)
  IN  IF ListedInOrder(connections) /\ \A n \in DOMAIN runs : OneTrip(runs[n])
      THEN The({packed(runs, patterns) : patterns \in {Distinct([n \in DOMAIN runs |-> PatternOf(runs[n])])}})
      ELSE [kind |-> "plain", stream |-> connections]

DecodedStep(stream, c) ==
  LET head == At(stream, c.at)
      next == c.at + 1 + ((head \div 4) % 2)
      from == IF (head \div 4) % 2 = 1 THEN At(stream, c.at + 1) ELSE c.to
      to == from + Unzigzag(head \div 8)
      offset == c.arrived + Unzigzag(At(stream, next))
      travel == Unzigzag(At(stream, next + 1))
  IN  [at |-> next + 2, to |-> to, arrived |-> offset + travel,
       steps |-> Append(c.steps, [from |-> from, to |-> to, pickup |-> (head \div 2) % 2 = 1, drop |-> head % 2 = 1,
                                  offset |-> offset, travel |-> travel])]

DecodedPatterns(stream) ==
  FoldLeft(LAMBDA done, k :
             LET c == FoldLeft(LAMBDA c, n : DecodedStep(stream, c),
                               [at |-> done.at + 3, to |-> 0, arrived |-> 0, steps |-> << >>],
                               UpTo(At(stream, done.at + 2)))
             IN  [at |-> c.at, patterns |-> Append(done.patterns, [trip |-> At(stream, done.at), route |-> At(stream, done.at + 1),
                                                                   steps |-> c.steps])],
           [at |-> 3, patterns |-> << >>], UpTo(At(stream, 2)))

DecodedRuns(stream, read) ==
  FoldLeft(LAMBDA done, k :
             [at |-> done.at + 3,
              runs |-> Append(done.runs, LET last == IF done.runs = << >> THEN <<0, 0, 0>> ELSE Last(done.runs)
                                         IN  [i \in 1 .. 3 |-> last[i] + Unzigzag(At(stream, done.at + i - 1))])],
           [at |-> read.at + 1, runs |-> << >>], UpTo(At(stream, read.at)))

Expanded(read, runs) ==
  FlattenSeq([r \in DOMAIN runs |->
    LET p == read.patterns[runs[r][2] + 1]
    IN  [n \in DOMAIN p.steps |->
          LET s == p.steps[n]
          IN  [run |-> runs[r][1], trip |-> p.trip, route |-> p.route, from |-> s.from, to |-> s.to,
               dep |-> runs[r][3] + s.offset, arr |-> runs[r][3] + s.offset + s.travel,
               pickup |-> s.pickup, drop |-> s.drop]]])

Decoded(file) ==
  LET expanded(read, all) ==
        IF \/ all.at # Len(file.stream) + 1
           \/ \E n \in DOMAIN all.runs : all.runs[n][2] + 1 \notin DOMAIN read.patterns
        THEN Failed
        ELSE The({IF Len(cs) = file.stream[1] THEN [failed |-> FALSE, connections |-> ByDeparture(cs)] ELSE Failed :
                    cs \in {Expanded(read, all.runs)}})
  IN  IF file.kind = "plain" THEN [failed |-> FALSE, connections |-> file.stream]
      ELSE The({The({expanded(read, all) : all \in {DecodedRuns(file.stream, read)}}) : read \in {DecodedPatterns(file.stream)}})

-----------------------------------------------------------------------------
(* Walks between stops.  A path is the time, a distance that may be        *)
(* missing, the edges, the points and named costs.  Stops lie on a line.   *)

Away(streets, a, b) == IF streets.place[a] > streets.place[b] THEN streets.place[a] - streets.place[b]
                       ELSE streets.place[b] - streets.place[a]

\* The nearest stops within reach, the lower index first of two as near; those
\* the street reaches, by distance and then by name.
WalksFrom(bundle, streets, a) ==
  LET stop(n) == bundle.stops[n]
      near == {n \in DOMAIN bundle.stops : stop(n) # a /\ Away(streets, a, stop(n)) <= streets.reach}
      nearest == SetToSortSeq(near, LAMBDA m, n : \/ Away(streets, a, stop(m)) < Away(streets, a, stop(n))
                                                  \/ (Away(streets, a, stop(m)) = Away(streets, a, stop(n)) /\ m < n))
      tried == SubSeq(nearest, 1, Min({streets.most, Len(nearest)}))
      reached == {stop(n) : n \in {n \in Range(tried) : <<a, stop(n)>> \in DOMAIN streets.path}}
      order == SetToSortSeq(reached, LAMBDA b, c : \/ Away(streets, a, b) < Away(streets, a, c)
                                                   \/ /\ Away(streets, a, b) = Away(streets, a, c)
                                                      /\ PositionOf(streets.names, b) < PositionOf(streets.names, c))
  IN  [n \in DOMAIN order |-> [from |-> a, to |-> order[n], away |-> Away(streets, a, order[n]), path |-> streets.path[<<a, order[n]>>]]]

\* Origins by name.
TransferTable(bundle, streets) ==
  LET origins == SelectSeq(streets.names, LAMBDA name : name \in Range(bundle.stops))
  IN  FlattenSeq([n \in DOMAIN origins |-> WalksFrom(bundle, streets, origins[n])])

\* Values in the shortest form that gives them back, two forms to a number.
TagOf(values, n) ==
  CASE values[n].kind = "none" -> 5
    [] values[n].kind = "whole" /\ values[n].of = 0 -> 0
    [] \E m \in 1 .. n - 1 : values[m] = values[n] -> 4
    [] OTHER -> CASE values[n].kind = "whole" -> 1 [] values[n].kind = "single" -> 2 [] values[n].kind = "double" -> 3

\* Floats are kept as their bytes, all else as one number.
PayloadLength(tag) == CASE tag \in {0, 5} -> 0 [] tag = 2 -> 4 [] tag = 3 -> 8 [] OTHER -> 1

EncodedValues(values) ==
  LET tag(n) == IF n \in DOMAIN values THEN TagOf(values, n) ELSE 0
      payload(n) == CASE tag(n) \in {0, 5} -> << >>
                      [] tag(n) = 4 -> <<PositionOf(values, values[n]) - 1>>
                      [] OTHER -> [k \in 1 .. PayloadLength(tag(n)) |-> IF k = 1 THEN values[n].of ELSE 0]
  IN  [n \in 1 .. (Len(values) + 1) \div 2 |-> tag(2 * n - 1) + 16 * tag(2 * n)]
      \o FlattenSeq([n \in DOMAIN values |-> payload(n)])

\* As if equal beginnings were looked for among all nodes of an edge.
TrieByEdge(nodes, path, points) ==
  FoldLeft(LAMBDA t, n :
             LET same == {m \in DOMAIN t.nodes : t.nodes[m][2] = path.edges[n]}
                 node == <<t.at, path.edges[n], PositionOf(points, path.points[n + 1]) - 1>>
                 kept == IF same = {} THEN Append(t.nodes, node) ELSE t.nodes
             IN  [nodes |-> kept, at |-> IF same = {} THEN Len(kept) ELSE Min(same)],
           [nodes |-> nodes, at |-> 0], UpTo(Len(path.edges)))

\* A node is its parent, an edge and the point after it; equal beginnings of
\* paths share their nodes.
Trie(nodes, path, points) ==
  FoldLeft(LAMBDA t, n :
             LET node == <<t.at, path.edges[n], PositionOf(points, path.points[n + 1]) - 1>>
             IN  [nodes |-> Added(t.nodes, node), at |-> PositionOf(Added(t.nodes, node), node)],
           [nodes |-> nodes, at |-> 0], UpTo(Len(path.edges)))

Deltas(seq) == [n \in DOMAIN seq |-> Zigzag(seq[n] - IF n = 1 THEN 0 ELSE seq[n - 1])]

Fits(path) == path.points # << >> /\ Len(path.points) = Len(path.edges) + 1

\* A path joins the pool of points, the sets of keys and the block of its origin.
WithPath(b, path) ==
  LET points == FoldLeft(Added, b.points, path.points)
      ids == [n \in DOMAIN path.points |-> PositionOf(points, path.points[n]) - 1]
      keys == [n \in DOMAIN path.costs |-> path.costs[n].key]
      keySets == Added(b.keySets, keys)
      values == <<path.distance>> \o [n \in DOMAIN path.costs |-> path.costs[n].value]
      tail == <<PositionOf(keySets, keys) - 1>> \o EncodedValues(values)
      trie == IF Fits(path) THEN Trie(b.nodes, path, points) ELSE [nodes |-> b.nodes, at |-> 0]
      shape == IF Fits(path) THEN <<trie.at + 1, Zigzag(ids[1] - b.first)>>
               ELSE <<0, Len(path.edges)>> \o Deltas(path.edges) \o <<Len(ids)>> \o Deltas(ids)
  IN  [points |-> points, keySets |-> keySets, nodes |-> trie.nodes,
       first |-> IF Fits(path) THEN ids[1] ELSE b.first, records |-> b.records \o shape \o tail]

EncodedNodes(nodes) ==
  LET code(n) ==
        LET node == nodes[n]
            parent == IF node[1] = 0 THEN <<0, 0, 0>> ELSE nodes[node[1]]
            back == IF node[1] = 0 THEN 0 ELSE n - node[1]
            fresh == parent[3] + 1 = node[3]
        IN  <<4 * Zigzag(node[2] - parent[2]) + 2 * Bit(~fresh) + Bit(back # 1)>>
            \o (IF back = 1 THEN << >> ELSE <<back>>)
            \o (IF fresh THEN << >> ELSE <<Zigzag(node[3] - parent[3])>>)
  IN  <<Len(nodes)>> \o FlattenSeq([n \in DOMAIN nodes |-> code(n)])

WithGroup(table, walks) ==
  LET b == FoldLeft(LAMBDA done, w : WithPath(done, w.path),
                    [points |-> table.points, keySets |-> table.keySets, nodes |-> << >>, first |-> 0, records |-> << >>], walks)
  IN  [points |-> b.points, keySets |-> b.keySets,
       groups |-> Append(table.groups, [from |-> walks[1].from, to |-> [n \in DOMAIN walks |-> walks[n].to],
                                        away |-> [n \in DOMAIN walks |-> walks[n].away],
                                        time |-> [n \in DOMAIN walks |-> walks[n].path.time],
                                        block |-> EncodedNodes(b.nodes) \o b.records])]

\* Origins as they first appear, their walks in the order given.
Packed(walks) ==
  LET origins == Distinct([n \in DOMAIN walks |-> walks[n].from])
  IN  FoldLeft(LAMBDA table, from : WithGroup(table, SelectSeq(walks, LAMBDA w : w.from = from)),
               [points |-> << >>, keySets |-> << >>, groups |-> << >>], origins)

\* A length or number that exceeds the bytes of the block is taken for damage.
VarintBytes(n) == CHOOSE k \in 1 .. 4 : n < 128 ^ k /\ (k > 1 => n >= 128 ^ (k - 1))
BytesOf(block) == FoldLeft(LAMBDA sum, n : sum + VarintBytes(n), 0, block)
Impossible(block, at) == At(block, at) > BytesOf(block)

DecodedNodes(block) ==
  FoldLeft(LAMBDA done, n :
             LET head == At(block, done.at)
                 back == IF head % 2 = 1 THEN At(block, done.at + 1) ELSE 1
                 parent == IF back = 0 \/ back >= n THEN 0 ELSE n - back
                 base == IF parent = 0 THEN <<0, 0, 0>> ELSE done.nodes[parent]
                 after == done.at + 1 + (head % 2)
                 moved == (head \div 2) % 2
                 point == IF moved = 1 THEN base[3] + Unzigzag(At(block, after)) ELSE base[3] + 1
             IN  [at |-> after + moved, nodes |-> Append(done.nodes, <<parent, base[2] + Unzigzag(head \div 4), point>>)],
           [at |-> 2, nodes |-> << >>], UpTo(At(block, 1)))

DecodedValues(block, at, count) ==
  LET tag(n) == (At(block, at + (n - 1) \div 2) \div (IF n % 2 = 1 THEN 1 ELSE 16)) % 16
      value(done, n) ==
        LET of == At(block, done.at)
        IN  CASE tag(n) = 5 -> [kind |-> "none", of |-> 0]
              [] tag(n) = 0 -> [kind |-> "whole", of |-> 0]
              [] tag(n) = 1 -> [kind |-> "whole", of |-> of]
              [] tag(n) = 2 -> [kind |-> "single", of |-> of]
              [] tag(n) = 3 -> [kind |-> "double", of |-> of]
              [] tag(n) = 4 -> done.values[of + 1]
  IN  FoldLeft(LAMBDA done, n : [at |-> done.at + PayloadLength(tag(n)), values |-> Append(done.values, value(done, n))],
               [at |-> at + (count + 1) \div 2, values |-> << >>], UpTo(count))

Undelta(block, at, count) == FoldLeft(LAMBDA seq, n : Append(seq, (IF n = 1 THEN 0 ELSE Last(seq)) + Unzigzag(At(block, at + n - 1))),
                                      << >>, UpTo(count))

\* Up the trie from a leaf.
Branch(nodes, leaf) ==
  LET branch[n \in 0 .. Len(nodes)] == IF n = 0 THEN << >> ELSE Append(branch[nodes[n][1]], n)
  IN  branch[leaf]

DecodedPath(table, block, nodes, c, time) ==
  LET code == At(block, c.at)
      edgeCount == At(block, c.at + 1)
      pointCount == At(block, c.at + 2 + edgeCount)
      first == c.first + Unzigzag(At(block, c.at + 1))
      branch == Branch(nodes, code - 1)
      point(k) == table.points[k + 1]
      shape == IF code = 0
               THEN [at |-> c.at + 3 + edgeCount + pointCount, first |-> c.first,
                     edges |-> Undelta(block, c.at + 2, edgeCount),
                     points |-> LET ids == Undelta(block, c.at + 3 + edgeCount, pointCount)
                                IN  [n \in DOMAIN ids |-> point(ids[n])]]
               ELSE [at |-> c.at + 2, first |-> first, edges |-> [n \in DOMAIN branch |-> nodes[branch[n]][2]],
                     points |-> <<point(first)>> \o [n \in DOMAIN branch |-> point(nodes[branch[n]][3])]]
      refused == \/ c.refused \/ Impossible(block, shape.at) \/ At(block, shape.at) >= Len(table.keySets)
                 \/ code = 0 /\ (Impossible(block, c.at + 1) \/ Impossible(block, c.at + 2 + edgeCount))
      keys == IF refused THEN << >> ELSE table.keySets[At(block, shape.at) + 1]
      read == DecodedValues(block, shape.at + 1, Len(keys) + 1)
  IN  [at |-> read.at, first |-> shape.first, refused |-> refused,
       paths |-> Append(c.paths, [time |-> time[Len(c.paths) + 1], distance |-> read.values[1], edges |-> shape.edges, points |-> shape.points,
                                  costs |-> [n \in DOMAIN keys |-> [key |-> keys[n], value |-> read.values[n + 1]]]])]

DecodedGroup(table, group) ==
  LET nodes == DecodedNodes(group.block)
  IN  FoldLeft(LAMBDA c, n : DecodedPath(table, group.block, nodes.nodes, c, group.time),
               [at |-> nodes.at, first |-> 0, refused |-> Impossible(group.block, 1), paths |-> << >>], UpTo(Len(group.to)))

\* A table is read whole or refused.
Unpacked(table) ==
  LET walks(group, read) ==
        [n \in DOMAIN group.to |-> [from |-> group.from, to |-> group.to[n], away |-> group.away[n], path |-> read.paths[n]]]
      whole(group, read) == ~read.refused /\ read.at = Len(group.block) + 1
  IN  The({IF \A g \in DOMAIN reads : whole(table.groups[g], reads[g])
           THEN [failed |-> FALSE, walks |-> FlattenSeq([g \in DOMAIN reads |-> walks(table.groups[g], reads[g])])]
           ELSE Failed : reads \in {[g \in DOMAIN table.groups |-> DecodedGroup(table, table.groups[g])]}})

\* What the router takes from the table: the stops and times, not the paths.
TransferWalks(bundle, table) ==
  UNION {{[from |-> PositionOf(bundle.stops, g.from), to |-> PositionOf(bundle.stops, g.to[n]), time |-> g.time[n]] :
            n \in DOMAIN g.to} : g \in Range(table.groups)}

-----------------------------------------------------------------------------
\* The feed is written and read, the walks between its stops are worked out; a
\* table of walks that is refused leaves no router to ask.
StoreFeed ==
  /\ phase = "built" /\ ~net.failed
  /\ \E table \in {Packed(TransferTable(net, request.streets))} :
       /\ ~Unpacked(table).failed
       /\ net' \in {[net EXCEPT !.connections = Decoded(Encoded(net.connections)).connections,
                                !.walks = TransferWalks(net, table)]}
  /\ index' \in {RunLinks'}
  /\ phase' = "stored"
  /\ UNCHANGED <<request, scan, found, answer>>

\* What was read back is asked for journeys like any timetable.
AskStored ==
  /\ phase = "stored"
  /\ request' \in RequestsOn(net)
  /\ phase' = "start"
  /\ UNCHANGED <<net, index, scan, found, answer>>

TransitNext == BuildFeed \/ StoreFeed \/ AskStored \/ Next

TransitSpec == (Init \/ FeedInit) /\ [][TransitNext]_vars

-----------------------------------------------------------------------------
(* A timetable and a table of walks read back are the ones that were       *)
(* written, whatever their order, with every path; a file cut short is     *)
(* refused.  Walks lead from each stop to those of its nearest that the    *)
(* street reaches.  transfer_pack.rs: "packing is lossless for any input." *)
(* One kind of table is not read back, but refused as a whole, and never   *)
(* read wrongly: where the number of a path's set of cost names is greater *)
(* than the bytes of the block of its origin, for the reader takes such a  *)
(* number for damage.                                                      *)
TablesRoundTrip ==
  phase = "built" /\ ~net.failed =>
    /\ \E turned \in {ByDeparture(Reverse(net.connections))} : \A list \in {net.connections, turned} :
         \E file \in {Encoded(list)} :
           /\ Decoded(file) = [failed |-> FALSE, connections |-> list]
           /\ file.kind = "patterns" =>
                \A k \in {1, 2, Len(file.stream) \div 2, Len(file.stream) - 1} :
                  k < Len(file.stream) => Decoded([file EXCEPT !.stream = SubSeq(@, 1, k)]).failed
    /\ \E walks \in {TransferTable(net, request.streets)} :
         /\ \A listed \in {walks, Reverse(walks)} :
              \E table \in {Packed(listed)} : \E read \in {Unpacked(table)} :
                LET origins == [n \in DOMAIN listed |-> listed[n].from]
                    names(w) == [n \in DOMAIN w.path.costs |-> w.path.costs[n].key]
                    block(w) == The({g.block : g \in {g \in Range(table.groups) : g.from = w.from}})
                    tooMany == \E w \in Range(listed) : PositionOf(table.keySets, names(w)) - 1 > BytesOf(block(w))
                IN  /\ read.failed <=> tooMany
                    /\ ~read.failed =>
                         read.walks = FlattenSeq([n \in DOMAIN Distinct(origins) |->
                                        SelectSeq(listed, LAMBDA w : w.from = Distinct(origins)[n])])
         /\ \A m, n \in DOMAIN net.stops :
              LET a == net.stops[m]
                  b == net.stops[n]
                  closer == {k \in DOMAIN net.stops \ {m, n} : Away(request.streets, a, net.stops[k]) <= Away(request.streets, a, b)}
                  listed == \E w \in Range(walks) : w.from = a /\ w.to = b /\ w.path = request.streets.path[<<a, b>>]
                  wanted == m # n /\ <<a, b>> \in DOMAIN request.streets.path /\ Away(request.streets, a, b) <= request.streets.reach
              IN  /\ listed => wanted
                  /\ wanted /\ Cardinality(closer) < request.streets.most => listed

(* A timetable is what its feed and scenario plan, before it is stored and    *)
(* when it is read back; tables of walks come back as they were written or,   *)
(* when too many sets of cost names make small blocks look damaged, not at    *)
(* all.                                                                       *)
TimetablesHold == BuiltAsPlanned /\ TablesRoundTrip

=============================================================================
