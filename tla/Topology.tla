------------------------------ MODULE Topology ------------------------------
(***************************************************************************)
(* The road graph that is built from a scan (ingest: topology.rs,          *)
(* restrictions.rs; core: graph.rs): nodes in the order of their ids, the  *)
(* directed edges of every way, turn restrictions as paths of edges,       *)
(* transitions and weak components.  Lengths, heights and what the edges   *)
(* merely carry along are left out.                                        *)
(***************************************************************************)
EXTENDS OsmSource

IndexOf(nodes, id) == CHOOSE n \in DOMAIN nodes : nodes[n].id = id
Known(nodes, id)   == \E n \in DOMAIN nodes : nodes[n].id = id

\* Names in their order.
NameIndex(ways, name) ==
  IF name = None THEN None ELSE Cardinality({w.name : w \in {w \in Range(ways) : w.name # None /\ w.name <= name}})

Segments(w, nodes) ==
  LET pairs == [n \in 1 .. Len(w.nodes) - 1 |-> <<w.nodes[n], w.nodes[n + 1]>>]
      drawn(s) == s[1] # s[2] /\ Known(nodes, s[1]) /\ Known(nodes, s[2])
  IN  Picked(pairs, {n \in DOMAIN pairs : drawn(pairs[n])})

\* One edge per direction that some mode may use, at some time at least.
EdgesOfWay(w, scan) ==
  LET edge(from, to, modes, rule) ==
        IF modes = {} THEN << >>
        ELSE <<[from |-> IndexOf(scan.nodes, from), to |-> IndexOf(scan.nodes, to), way |-> w.id, modes |-> modes,
                rule |-> rule, signal |-> to \in scan.signals, name |-> NameIndex(scan.ways, w.name),
                junction |-> IF from \in DOMAIN scan.junctions THEN scan.junctions[from] ELSE None]>>
      both(s) == edge(s[1], s[2], w.forward, w.forwardRule) \o edge(s[2], s[1], w.reverse, w.reverseRule)
      segments == Segments(w, scan.nodes)
  IN  FlattenSeq([n \in DOMAIN segments |-> both(segments[n])])

EdgesOf(scan) == FlattenSeq([n \in DOMAIN scan.ways |-> EdgesOfWay(scan.ways[n], scan)])

\* Every edge continues into every edge that leaves its head, u-turns included.
TransitionsOf(edges) == {t \in (DOMAIN edges) \X (DOMAIN edges) : edges[t[1]].to = edges[t[2]].from}

-----------------------------------------------------------------------------
(* Turn restrictions: the paths of edges that may not be driven.           *)

Entering(edges, way, node) == Sorted({e \in DOMAIN edges : edges[e].way = way /\ edges[e].to = node})
Leaving(edges, node)       == Sorted({e \in DOMAIN edges : edges[e].from = node})

SharedNodes(v, w) == Range(v.nodes) \cap Range(w.nodes)

\* The edges along way w from one of its nodes to another, by the shortest
\* stretch; the last edge of the way stands for a repeated pair of nodes.
EdgesBetween(w, start, end, scan, edges) ==
  LET edge(n, step) ==
        LET pair == {e \in DOMAIN edges : /\ edges[e].way = w.id /\ Known(scan.nodes, w.nodes[n]) /\ Known(scan.nodes, w.nodes[n + step])
                                          /\ edges[e].from = IndexOf(scan.nodes, w.nodes[n])
                                          /\ edges[e].to = IndexOf(scan.nodes, w.nodes[n + step])}
        IN  IF pair = {} THEN None ELSE Max(pair)
      stretch(i, j) == IF i < j THEN [k \in 1 .. j - i |-> edge(i + k - 1, 1)] ELSE [k \in 1 .. i - j |-> edge(i - k + 1, -1)]
      found == {stretch(i, j) : i \in {n \in DOMAIN w.nodes : w.nodes[n] = start}, j \in {n \in DOMAIN w.nodes : w.nodes[n] = end}}
      whole == {s \in found : None \notin Range(s)}
  IN  IF start = end \/ whole = {} THEN << >> ELSE CHOOSE s \in whole : \A r \in whole : Len(s) <= Len(r)

\* The edges that enter the via, the edges along it and the edges that may
\* follow; nothing if a member is missing or does not meet the next one.
Resolved(c, scan, edges) ==
  LET way(id) == {w \in Range(scan.ways) : w.id = id}
      chain   == <<way(c.from)>> \o [n \in DOMAIN c.ways |-> way(c.ways[n])] \o <<way(c.to)>>
      shared  == [n \in 1 .. Len(chain) - 1 |-> SharedNodes(One(chain[n]), One(chain[n + 1]))]
      met     == {} \notin Range(chain) /\ \A n \in DOMAIN shared : Cardinality(shared[n]) = 1
      at      == IF c.ways = << >> THEN <<c.node, c.node>> ELSE [n \in DOMAIN shared |-> One(shared[n])]
      via     == IF c.ways = << >> THEN << >>
                 ELSE [n \in DOMAIN c.ways |-> EdgesBetween(One(chain[n + 1]), at[n], at[n + 1], scan, edges)]
      entry   == IndexOf(scan.nodes, Head(at))
      exit    == IndexOf(scan.nodes, Last(at))
      in      == Entering(edges, c.from, entry)
      out     == SelectSeq(Leaving(edges, exit), LAMBDA e : edges[e].way = c.to)
  IN  CASE c.ways # << >> /\ ~met -> {}
        [] ~Known(scan.nodes, Head(at)) \/ ~Known(scan.nodes, Last(at)) -> {}
        [] in = << >> \/ out = << >> \/ << >> \in Range(via) -> {}
        [] OTHER -> {[in |-> in, via |-> FlattenSeq(via), out |-> out, entry |-> entry, exit |-> exit]}

PathsAtTheEnd(c, r, edges) ==
  LET others == SelectSeq(Leaving(edges, r.exit), LAMBDA e : e \notin Range(r.out))
      crossed(tails) == FlattenSeq([n \in DOMAIN r.in |-> [m \in DOMAIN tails |-> <<r.in[n]>> \o r.via \o <<tails[m]>>]])
  IN  crossed(IF c.kind = "no" THEN r.out ELSE others)

\* A prohibited turn is one path per pair of ends.  A mandatory one is every
\* other way on: at the end of the via, and then at every edge of it.
PathsOf(c, r, edges) ==
  LET others(node, allowed) == SelectSeq(Leaving(edges, node), LAMBDA e : e \notin Range(allowed))
      crossed(heads, middle, tails) == FlattenSeq([n \in DOMAIN heads |-> [m \in DOMAIN tails |-> <<heads[n]>> \o middle \o <<tails[m]>>]])
      node(n) == IF n = 1 THEN r.entry ELSE edges[r.via[n - 1]].to
      early(from) == FlattenSeq([n \in DOMAIN r.via |-> crossed(<<from>>, SubSeq(r.via, 1, n - 1), others(node(n), <<r.via[n]>>))])
  IN  IF c.kind = "no" THEN crossed(r.in, r.via, r.out)
      ELSE crossed(r.in, r.via, others(r.exit, r.out)) \o FlattenSeq([n \in DOMAIN r.in |-> early(r.in[n])])

\* The bits of some modes, in their order.
ModeBits(modes) == MapThenSumSet(LAMBDA m : [car |-> 1, hgv |-> 2, bicycle |-> 4][m], modes)

\* Each path once per modes and condition, in the order of its ends.
TurnRestrictions(scan, edges) ==
  LET found(c) ==
        LET said(paths) == [n \in DOMAIN paths |-> [path |-> paths[n], relation |-> c.relation, kind |-> c.kind,
                                                    modes |-> c.modes, rule |-> c.rule, always |-> c.always]]
        IN  FlattenSeq(SetToSeq({said(PathsOf(c, r, edges)) : r \in Resolved(c, scan, edges)}))
      same(a, b) == a.path = b.path /\ a.modes = b.modes /\ a.rule = b.rule /\ a.always = b.always
      once(all) == SelectSeq([n \in DOMAIN all |-> <<n, all[n]>>], LAMBDA a : \A m \in 1 .. a[1] - 1 : ~same(all[m], a[2]))
      key(a) == <<Head(a[2].path), Len(a[2].path), Last(a[2].path), ModeBits(a[2].modes), a[2].relation, a[1]>>
      less(k, l) == \E n \in DOMAIN k : k[n] < l[n] /\ \A m \in 1 .. n - 1 : k[m] = l[m]
      sorted(all) == SortSeq(once(all), LAMBDA a, b : less(key(a), key(b)))
  IN  One({[n \in DOMAIN kept |-> kept[n][2]] :
             kept \in {sorted(all) : all \in {FlattenSeq([n \in DOMAIN scan.candidates |-> found(scan.candidates[n])])}}})

-----------------------------------------------------------------------------
(* Weak components by union-find, labelled in the order of their nodes.    *)

RootOf(parent, n) ==
  LET up[k \in 0 .. Cardinality(DOMAIN parent)] == IF k = 0 THEN n ELSE parent[up[k - 1]]
  IN  up[Cardinality(DOMAIN parent)]

\* The shallower tree goes below the deeper one, the later below the earlier.
United(forest, l, r) ==
  LET left == RootOf(forest.parent, l)
      right == RootOf(forest.parent, r)
      rank == forest.rank
      below == IF rank[left] < rank[right] \/ (rank[left] = rank[right] /\ right < left) THEN left ELSE right
      above == IF below = left THEN right ELSE left
  IN  IF left = right THEN forest
      ELSE [parent |-> [forest.parent EXCEPT ![below] = above],
            rank |-> IF rank[left] = rank[right] THEN [rank EXCEPT ![above] = @ + 1] ELSE rank]

ComponentsOf(count, edges) ==
  LET forest == FoldLeft(LAMBDA f, e : United(f, e.from, e.to),
                         [parent |-> [n \in 1 .. count |-> n], rank |-> [n \in 1 .. count |-> 0]], edges)
      root   == [n \in 1 .. count |-> RootOf(forest.parent, n)]
      labels == FoldLeft(Interned, << >>, root)
  IN  [n \in 1 .. count |-> NumberOf(labels, root[n])]

BuildTopology(scan) ==
  LET ids == [n \in DOMAIN scan.nodes |-> scan.nodes[n].id]
      built(edges) == [nodes |-> ids, places |-> [n \in DOMAIN scan.nodes |-> scan.nodes[n].place], edges |-> edges,
                       restrictions |-> TurnRestrictions(scan, edges), components |-> ComponentsOf(Len(ids), edges),
                       rules |-> scan.rules]
  IN  One({built(edges) : edges \in {EdgesOf(scan)}})

=============================================================================
