--------------------------- MODULE DatasetUpdate ---------------------------
(***************************************************************************)
(* A dataset is imported from an OSM extract and updated from change files *)
(* or from a newer extract (ingest: import.rs, update.rs): the scanned     *)
(* objects are restored from the snapshot of the previous build, changed,  *)
(* built again, and contracted in the order carried over from that build   *)
(* unless the fill has grown.  What is built is served by the hierarchy.   *)
(***************************************************************************)
EXTENDS Hierarchy, Dissection

CONSTANTS Extracts,     \* extracts: sequences of objects
          ChangeFiles,  \* the change files of an update: sequences of files
          MaxUpdates,   \* bound: updates of a dataset
          Policies,     \* when an update orders from scratch
          MaxGrowth     \* growth of the fill, in hundredths, that reorders

ASSUME UpdateAssumption ==
  /\ \A objects \in Extracts : AreObjects(objects)
  /\ \A files \in ChangeFiles : files \in Seq(Range(files)) /\ \A file \in Range(files) : AreChanges(file)

VARIABLES extract,      \* what the area's objects are by now
          data,         \* the dataset: the bundles of its last build
          updates       \* how often it was updated
dataset == <<extract, data, updates>>

NoNetwork == [steps |-> {}, turn |-> << >>, forbidden |-> {}]
NoData    == << >>

\* An extract lists its nodes, ways and relations, each kind by id.
Objects(table) ==
  LET keys == Arranged(DOMAIN table, KeyBefore) IN [n \in DOMAIN keys |-> table[keys[n]]]

\* The objects, each in the form its last mention gives it.
TableOf(objects) == FoldLeft(LAMBDA table, o : With(table, KeyOf(o), o), << >>, objects)

\* What a change file makes of them.
Changed(table, changes) ==
  LET step(t, n) == IF changes[n].action = "delete" THEN Without(t, KeyOf(changes[n].object))
                    ELSE With(t, KeyOf(changes[n].object), changes[n].object)
      newest == {n \in DOMAIN changes : \A m \in DOMAIN changes : KeyOf(changes[m].object) = KeyOf(changes[n].object) =>
                   \/ changes[m].version < changes[n].version
                   \/ changes[m].version = changes[n].version /\ m <= n}
  IN  FoldSet(LAMBDA n, t : step(t, n), table, newest)

-----------------------------------------------------------------------------
(* Building.                                                               *)

\* Shortcuts that contracting in this order adds to the transitions.
ShortcutCount(topology, order) ==
  LET rank(e) == CHOOSE n \in DOMAIN order : order[n] = e
      steps == {<<rank(t[1]), rank(t[2])>> : t \in {t \in TransitionsOf(topology.edges) : t[1] # t[2]}}
      contract(known, v) == known \cup {<<a[1], b[2]>> : a \in {a \in known : a[1] > v /\ a[2] = v}, b \in {b \in known : b[1] = v /\ b[2] > v}}
  IN  Cardinality({a \in FoldLeft(contract, steps, [v \in DOMAIN order |-> v]) : a[1] # a[2]}) - Cardinality(steps)

\* Shortcuts against those of as many states ordered afresh.
GrownBeyond(ordering, edges, shortcuts) ==
  LET most == MaxGrowth * ordering.shortcuts * edges
  IN  IF most <= 0 THEN shortcuts > 0 ELSE 100 * shortcuts * Max({ordering.edges, 1}) > most

RanksByEnds(previous, topology) ==
  LET old == previous.topology
      ends(t, e) == <<t.nodes[t.edges[e].from], t.nodes[t.edges[e].to]>>
      key(t, e)  == <<ends(t, e), Cardinality({f \in 1 .. e : ends(t, f) = ends(t, e)})>>
      twin(e)    == {f \in DOMAIN old.edges : key(old, f) = key(topology, e)}
      rank(f)    == CHOOSE n \in DOMAIN previous.order : previous.order[n] = f
  IN  [e \in DOMAIN topology.edges |-> IF twin(e) = {} THEN None ELSE rank(One(twin(e)))]

\* The rank of every edge in the previous build, by way and ends, and if the
\* way is another one now, by ends alone; a previous rank is claimed once.
PreviousRanks(previous, topology) ==
  LET old == previous.topology
      key(t, e) == <<t.edges[e].way, t.nodes[t.edges[e].from], t.nodes[t.edges[e].to],
                     Cardinality({f \in 1 .. e : /\ t.edges[f].way = t.edges[e].way
                                                 /\ t.edges[f].from = t.edges[e].from /\ t.edges[f].to = t.edges[e].to})>>
      twin(e)   == {f \in DOMAIN old.edges : key(old, f) = key(topology, e)}
      claimed   == UNION {twin(e) : e \in DOMAIN topology.edges}
      ends(t, e) == <<key(t, e)[2], key(t, e)[3]>>
      free(e)   == Sorted({f \in (DOMAIN old.edges) \ claimed : ends(old, f) = ends(topology, e)})
      turn(e)   == Cardinality({f \in 1 .. e : twin(f) = {} /\ ends(topology, f) = ends(topology, e)})
      rank(f)   == CHOOSE n \in DOMAIN previous.order : previous.order[n] = f
  IN  [e \in DOMAIN topology.edges |->
         CASE twin(e) # {} -> rank(One(twin(e)))
           [] twin(e) = {} /\ turn(e) <= Len(free(e)) -> rank(free(e)[turn(e)])
           [] OTHER -> None]

NestedDissectionOrder(topology) == One({Dissect(graph, DOMAIN topology.edges) : graph \in {GraphOf(topology)}})

OrderingOf(topology, order) == [edges |-> Len(order), shortcuts |-> ShortcutCount(topology, order), patched |-> 0]

\* A dataset made of a state, a topology and an order.
Built(s, topology, order, ordering) ==
  [snapshot |-> ToSnapshot(s, topology.nodes), topology |-> topology, order |-> order, ordering |-> ordering]

Import(objects) ==
  \E s \in {ScanPbf(objects)} : \E topology \in {BuildTopology(ScanOutput(s))} :
    \E order \in {NestedDissectionOrder(topology)} : data = Built(s, topology, order, OrderingOf(topology, order))

\* In the order carried over, or afresh.
Rebuild(s, policy) ==
  \E topology \in {BuildTopology(ScanOutput(s))} :
  \E patched \in {PatchEdgeOrder(topology, ranks) : ranks \in {PreviousRanks(data, topology)}} :
    LET grown == GrownBeyond(data.ordering, Len(patched), ShortcutCount(topology, patched))
    IN  \/ /\ policy = "always" \/ (policy = "auto" /\ grown)
           /\ \E order \in {NestedDissectionOrder(topology)} : data' = Built(s, topology, order, OrderingOf(topology, order))
        \/ /\ policy = "never" \/ (policy = "auto" /\ ~grown)
           /\ data' = Built(s, topology, patched, [data.ordering EXCEPT !.patched = @ + 1])

-----------------------------------------------------------------------------
UpdateInit ==
  \/ Init /\ extract = << >> /\ data = NoData /\ updates = 0
  \/ /\ \E objects \in Extracts : extract = TableOf(objects) /\ Import(objects)
     /\ updates = 0 /\ phase = "dataset" /\ net = NoNetwork
     /\ cost = << >> /\ contracted = 0 /\ pending = {} /\ arcs = {} /\ task = << >>
     /\ weight = << >> /\ relaxed = {} /\ queue = {} /\ queued = {}

\* The files are applied in the order in which they are given.
UpdateFromChanges(files, policy) ==
  /\ phase = "dataset" /\ updates < MaxUpdates
  /\ \E s \in FromSnapshot(data.snapshot, data.topology.places) :
       \E changed \in {FoldLeft(LAMBDA c, file : ApplyChanges(c, EffectiveChanges(file)), s, files)} : Rebuild(changed, policy)
  /\ extract' = FoldLeft(Changed, extract, files)
  /\ updates' = updates + 1
  /\ UNCHANGED vars

UpdateFromSource(objects, policy) ==
  /\ phase = "dataset" /\ updates < MaxUpdates
  /\ \E s \in {ScanPbf(objects)} : Rebuild(s, policy)
  /\ extract' = TableOf(objects)
  /\ updates' = updates + 1
  /\ UNCHANGED vars

\* Two-edge paths that cars may never drive are forbidden turns; a u-turn costs.
NetworkOf(topology, order) ==
  LET rank(e) == CHOOSE n \in DOMAIN order : order[n] = e
      ranked(ts) == {<<rank(t[1]), rank(t[2])>> : t \in ts}
      edges == topology.edges
      steps == {t \in TransitionsOf(edges) : t[1] # t[2]}
      back  == ranked({t \in steps : edges[t[1]].from = edges[t[2]].to})
      paths == {r.path : r \in {r \in Range(topology.restrictions) : Len(r.path) = 2 /\ "car" \in r.modes /\ r.always}}
  IN  [steps |-> ranked(steps), turn |-> [a \in ranked(steps) |-> IF a \in back THEN 3 ELSE 0],
       forbidden |-> ranked(steps \cap paths)]

Serve ==
  /\ phase = "dataset" /\ Len(data.order) = N
  /\ net' = NetworkOf(data.topology, data.order)
  /\ pending' = net'.steps /\ phase' = "contract"
  /\ extract' = << >> /\ data' = NoData /\ updates' = 0
  /\ UNCHANGED <<cost, task, contracted, arcs, weight, relaxed, queue, queued>>

UpdateNext ==
  \/ Next /\ UNCHANGED dataset
  \/ \E files \in ChangeFiles, policy \in Policies : UpdateFromChanges(files, policy)
  \/ \E objects \in Extracts, policy \in Policies : UpdateFromSource(objects, policy)
  \/ Serve

UpdateSpec == UpdateInit /\ [][UpdateNext]_<<vars, dataset>>

-----------------------------------------------------------------------------
(* Properties.                                                             *)

HasDataset == phase = "dataset"

\* After any updates a dataset holds what a full import of the changed extract
\* would build: its topology, its restrictions and numbered rules, and the
\* snapshot that the next update starts from (source.rs: "an incremental
\* update builds the topology a full import of the changed extract would").
UpdateIsImport ==
  HasDataset =>
    \E s \in {ScanPbf(Objects(extract))} : \E topology \in {BuildTopology(ScanOutput(s))} :
      data.topology = topology /\ data.snapshot = ToSnapshot(s, topology.nodes)

Edges == DOMAIN data.topology.edges
EdgeAt(e) == data.topology.edges[e]

\* The paths a driver could take, of up to LongestPath edges.
LongestPath == 4
Walks ==
  LET walks[n \in 1 .. LongestPath] ==
        IF n = 1 THEN {<<e>> : e \in Edges}
        ELSE UNION {{Append(w, f) : f \in {f \in Edges : EdgeAt(f).from = EdgeAt(Last(w)).to}} : w \in walks[n - 1]}
  IN  UNION {walks[n] : n \in 2 .. LongestPath}

Between(walk) == SubSeq(walk, 2, Len(walk) - 1)
ComesBack(walk) == \E m, n \in DOMAIN walk : m <= n /\ EdgeAt(walk[n]).to = EdgeAt(walk[m]).from

\* The ways of a walk, each as often as it is entered.
WaysOf(walk) ==
  FoldLeft(LAMBDA ways, e : IF ways # << >> /\ Last(ways) = EdgeAt(e).way THEN ways ELSE Append(ways, EdgeAt(e).way), << >>, walk)

\* Ways between which one can tell where to go over.
MeetOnce(ways) ==
  \A n \in 2 .. Len(ways) : Cardinality(Range(extract[<<1, ways[n - 1]>>].nodes) \cap Range(extract[<<1, ways[n]>>].nodes)) = 1

\* What a relation names: from its first way to its last by what lies between.
Prescribed(c, walks) ==
  {w \in walks : /\ EdgeAt(Head(w)).way = c.from /\ EdgeAt(Last(w)).way = c.to
                 /\ WaysOf(Between(w)) = c.ways /\ ~ComesBack(Between(w))
                 /\ c.ways = << >> => data.topology.nodes[EdgeAt(Head(w)).to] = c.node
                 /\ c.ways # << >> => MeetOnce(<<c.from>> \o c.ways \o <<c.to>>)}

\* Who has to follow it may not leave it; who may not follow it may do all else.
Banned(c, walks) ==
  LET named == Prescribed(c, walks)
      leaves(w) == /\ \E p \in named : IsStrictPrefix(Front(w), p)
                   /\ ~\E p \in named : IsPrefix(w, p)
  IN  IF c.kind = "no" THEN named ELSE {w \in walks : leaves(w)}

\* The paths kept for the router are the walks that the relations of the
\* extract ban, for the same modes and at the same times, each once
\* (restrictions.rs, build_turn_restrictions).
RestrictionsHold ==
  LET walks == Walks
      kept  == data.topology.restrictions
      said(r) == <<r.modes, r.rule, r.always>>
  IN  /\ {<<r.path, said(r)>> : r \in Range(kept)} =
           UNION {{<<w, said(c)>> : w \in Banned(c, walks)} : c \in Range(data.snapshot.restrictions)}
      /\ \A m, n \in DOMAIN kept : m # n => <<kept[m].path, said(kept[m])>> # <<kept[n].path, said(kept[n])>>

\* Two nodes have one label if and only if roads join them, and labels are
\* given out in the order of the nodes (topology.rs, label_weak_components).
ComponentsHold ==
  LET label == data.topology.components
      class(k) == {n \in DOMAIN label : label[n] = k}
      ends(e)  == {EdgeAt(e).from, EdgeAt(e).to}
  IN  /\ \A e \in Edges : Cardinality({label[n] : n \in ends(e)}) = 1
      /\ \A k \in Range(label) : \A part \in (SUBSET class(k)) \ {{}, class(k)} :
           \E e \in Edges : ends(e) \cap part # {} /\ ends(e) \ part # {}
      /\ \A n \in DOMAIN label : label[n] \in 1 .. 1 + Max({label[m] : m \in 1 .. n - 1} \cup {0})

\* Whatever cell is split, a separator and two sides that no transition joins
\* make it up, a quarter of it on either side where the flow splits it, and
\* the order of a cell names each of its states once (acceleration.rs).
SidesAreApart ==
  \E graph \in {GraphOf(data.topology)} :
    \A cell \in SUBSET Edges :
      /\ \E order \in {Dissect(graph, cell)} : Range(order) = cell /\ Len(order) = Cardinality(cell)
      /\ Cardinality(cell) > LeafStates =>
           \E s \in {SplitOf(graph, cell)} :
             /\ s.a \cup s.b \cup s.separator = cell
             /\ Cardinality(s.a) + Cardinality(s.b) + Cardinality(s.separator) = Cardinality(cell)
             /\ graph.linked \cap (s.a \X s.b) = {}
             /\ \/ InertialFlowSplit(graph, cell) = {}
                \/ \A side \in {s.a, s.b} : Cardinality(side) >= Cardinality(cell) \div 4

DatasetHolds ==
  HasDataset => RestrictionsHold /\ ComponentsHold /\ (updates = 0 => SidesAreApart)

\* What a state was in the build before: the one of the same way between the
\* same nodes, or one between these that is not the same as another's.
EndsOf(t, e) == <<t.nodes[t.edges[e].from], t.nodes[t.edges[e].to]>>
Same(old, new, e) == {f \in DOMAIN old.edges : EndsOf(old, f) = EndsOf(new, e) /\ old.edges[f].way = new.edges[e].way}
Freed(old, new, e) ==
  {f \in DOMAIN old.edges : EndsOf(old, f) = EndsOf(new, e)} \ UNION {Same(old, new, g) : g \in DOMAIN new.edges}
Former(old, new, e) == IF Same(old, new, e) # {} THEN Same(old, new, e) ELSE Freed(old, new, e)

\* Ways and ends tell the states of two builds apart: each was one at most, and
\* no two were the same. Of parallel states of a way, as of one drawn twice
\* between two nodes, they say only how many there are.
TellsApart(old, new) ==
  \A e, f \in DOMAIN new.edges : \A x \in Former(old, new, e), y \in Former(old, new, f) : x = y <=> e = f

\* An order that is carried over ranks the states that both builds have as it
\* did, and a new state behind the highest of those next to it, before the
\* next of them; what no old state is next to comes in its turn (update.rs,
\* previous_ranks; acceleration.rs, patch_edge_order).
CarriedOver(old, new) ==
  LET edges(d)   == DOMAIN d.topology.edges
      rank(d, e) == CHOOSE n \in DOMAIN d.order : d.order[n] = e
      former(e)  == Former(old.topology, new.topology, e)
      kept       == {e \in edges(new) : former(e) # {}}
      was(e)     == rank(old, One(former(e)))
      beside(e)  == {f \in kept : \/ new.topology.edges[e].to = new.topology.edges[f].from
                                  \/ new.topology.edges[f].to = new.topology.edges[e].from}
  IN  /\ Range(new.order) = edges(new) /\ Len(new.order) = Cardinality(edges(new))
      /\ \A e, f \in kept : was(e) < was(f) => rank(new, e) < rank(new, f)
      /\ \A e \in edges(new) \ kept : beside(e) # {} =>
           LET anchor == CHOOSE f \in beside(e) : \A g \in beside(e) : was(g) <= was(f)
           IN  /\ rank(new, anchor) < rank(new, e)
               /\ \A g \in kept : rank(new, g) < rank(new, e) => rank(new, g) <= rank(new, anchor)

OrderIsKept ==
  [][HasDataset /\ HasDataset' /\ data'.ordering.patched > 0 /\ TellsApart(data.topology, data'.topology) =>
       CarriedOver(data, data')]_data

\* A dataset, imported or updated, is what its extract says and holds together.
DatasetsAreImports == UpdateIsImport /\ DatasetHolds

=============================================================================
