----------------------------- MODULE OsmSource -----------------------------
(***************************************************************************)
(* What a dataset keeps of its OSM extract (ingest: source.rs,             *)
(* osm_change.rs, scan.rs, restrictions.rs): scanned once, kept beside     *)
(* the topology as a snapshot, restored and changed by change files.       *)
(* An object is a record [kind, id, ...]; tags are what they classify to.  *)
(***************************************************************************)
EXTENDS Integers, SequencesExt, FiniteSetsExt, TLC

None == 0

One(S) == CHOOSE x \in S : TRUE

\* The elements of a set in a strict order, and those of a list at some positions.
Arranged(S, before(_, _)) ==
  [n \in 1 .. Cardinality(S) |-> CHOOSE x \in S : Cardinality({y \in S : before(y, x)}) = n - 1]
Sorted(ids) == Arranged(ids, LAMBDA i, j : i < j)
Picked(list, positions) ==
  LET order == Sorted(positions) IN [n \in DOMAIN order |-> list[order[n]]]

Only(f, S)         == [x \in DOMAIN f \cap S |-> f[x]]
Without(f, id)     == Only(f, DOMAIN f \ {id})
With(f, id, value) == [x \in DOMAIN f \cup {id} |-> IF x = id THEN value ELSE f[x]]
ById(f)            == [n \in 1 .. Cardinality(DOMAIN f) |-> f[Sorted(DOMAIN f)[n]]]

\* Lists laid end to end, and the n-th list again.
Starts(counts) == [n \in DOMAIN counts |-> FoldLeft(LAMBDA sum, c : sum + c, 0, SubSeq(counts, 1, n - 1))]
Slice(flat, counts, n) == SubSeq(flat, Starts(counts)[n] + 1, Starts(counts)[n] + counts[n])

-----------------------------------------------------------------------------
(* Rule sets and names are kept once and named by their position.          *)

Interned(kept, value) == IF value \in Range(kept) THEN kept ELSE Append(kept, value)

\* No rules, no rule set.
WithRules(sets, rules) == IF rules = << >> THEN sets ELSE Interned(sets, rules)
NumberOf(kept, value) ==
  IF value \in Range(kept) THEN CHOOSE n \in DOMAIN kept : kept[n] = value ELSE None

-----------------------------------------------------------------------------
(* What the keys of a restriction relation say of the modes they bind.     *)

\* Three of the thirteen keys.
RestrictionKeys == << [key |-> "restriction", modes |-> {"car", "hgv"}],
                      [key |-> "restriction:hgv", modes |-> {"hgv"}],
                      [key |-> "restriction:bicycle", modes |-> {"bicycle"}] >>

Keyed(values) == {n \in DOMAIN RestrictionKeys : RestrictionKeys[n].key \in DOMAIN values}

\* The conditions that are understood; those of one kind on the same modes
\* are one.
Conditionals(tags) ==
  LET said(n) == IF n \notin Keyed(tags.sometimes) THEN << >>
                 ELSE SelectSeq(tags.sometimes[RestrictionKeys[n].key], LAMBDA e : "odd" \notin {e.value, e.rule})
      entries == FlattenSeq([n \in DOMAIN RestrictionKeys |->
                   LET modes == RestrictionKeys[n].modes \ tags.except
                   IN  [m \in DOMAIN said(n) |-> [modes |-> modes, kind |-> said(n)[m].value, rules |-> <<said(n)[m].rule>>]]])
      join(found, e) ==
        LET same == {n \in DOMAIN found : found[n].modes = e.modes /\ found[n].kind = e.kind}
        IN  IF same = {} THEN Append(found, e) ELSE [found EXCEPT ![Min(same)].rules = @ \o e.rules]
  IN  FoldLeft(join, << >>, entries)

\* A condition that lifts the restriction takes its modes from the one that
\* always holds; the first to lift a mode keeps it.
RestrictionRules(tags) ==
  LET kinds == {tags.always[RestrictionKeys[n].key] : n \in Keyed(tags.always)}
      modes == UNION {RestrictionKeys[n].modes : n \in Keyed(tags.always)} \ tags.except
      kind  == IF modes = {} THEN {} ELSE kinds
      rule(k, ms, rules, always) == [kind |-> k, modes |-> ms, rules |-> rules, always |-> always]
      apply(c, e) ==
        LET lifted == e.modes \cap c.unlifted
            gained == IF kind = {e.kind} THEN e.modes \ modes ELSE e.modes
        IN  CASE e.kind = "none" /\ lifted # {} ->
                   [unlifted |-> c.unlifted \ lifted, found |-> Append(c.found, rule(One(kind), lifted, e.rules, TRUE))]
              [] e.kind # "none" /\ gained # {} ->
                   [c EXCEPT !.found = Append(@, rule(e.kind, gained, e.rules, FALSE))]
              [] OTHER -> c
      all == FoldLeft(apply, [unlifted |-> modes, found |-> << >>], Conditionals(tags))
  IN  CASE "odd" \in kinds \/ Cardinality(kinds) > 1 -> << >>
        [] all.unlifted # {} -> <<rule(One(kind), all.unlifted, << >>, TRUE)>> \o all.found
        [] OTHER -> all.found

MembersOf(relation, role, kind) ==
  SelectSeq(relation.members, LAMBDA m : m.role = role /\ m.kind = kind)
IdsOf(members) == [n \in DOMAIN members |-> members[n].id]

\* One way from, one way to, and one node or some ways between them.
RestrictionMembers(relation) ==
  LET from == Range(IdsOf(MembersOf(relation, "from", "way")))
      to   == Range(IdsOf(MembersOf(relation, "to", "way")))
      node == Range(IdsOf(MembersOf(relation, "via", "node")))
      ways == IdsOf(MembersOf(relation, "via", "way"))
  IN  IF Cardinality(from) = 1 /\ Cardinality(to) = 1 /\ Cardinality(node) <= 1 /\ (node = {}) = (ways # << >>)
      THEN {[from |-> One(from), to |-> One(to), node |-> IF node = {} THEN None ELSE One(node), ways |-> ways]}
      ELSE {}

Candidates(relation) ==
  LET members == RestrictionMembers(relation)
      rules   == RestrictionRules(relation.tags)
  IN  IF relation.tags.type # "restriction" \/ members = {} THEN << >>
      ELSE [n \in DOMAIN rules |-> [relation |-> relation.id, rule |-> None] @@ rules[n] @@ One(members)]

\* The candidates with their rules in the sets, and the sets.
WithCandidates(sets, found) ==
  LET more == FoldLeft(LAMBDA kept, c : WithRules(kept, c.rules), sets, found)
      named(c) == [relation |-> c.relation, from |-> c.from, to |-> c.to, node |-> c.node, ways |-> c.ways,
                   kind |-> c.kind, modes |-> c.modes, rule |-> NumberOf(more, c.rules), always |-> c.always]
  IN  [sets |-> more, list |-> [n \in DOMAIN found |-> named(found[n])]]

-----------------------------------------------------------------------------
(* The scanned objects of an extract.                                      *)

NothingScanned ==
  [nodes |-> << >>, signals |-> {}, junctions |-> << >>, ways |-> << >>, others |-> << >>, structures |-> {},
   restrictions |-> << >>, rules |-> << >>, admin |-> << >>, otherRelations |-> {}]

Untagged == [signal |-> FALSE, junction |-> None]

SetNodeTags(s, id, tags) ==
  [s EXCEPT !.signals = IF tags.signal THEN @ \cup {id} ELSE @ \ {id},
            !.junctions = IF tags.junction = None THEN Without(@, id) ELSE With(@, id, tags.junction)]

UpsertWay(s, w) ==
  LET one  == WithRules(s.rules, w.tags.forwardRules)
      both == WithRules(one, w.tags.reverseRules)
      way  == [id |-> w.id, nodes |-> w.nodes, name |-> w.tags.name,
               forward |-> w.tags.forward, reverse |-> w.tags.reverse,
               forwardRule |-> NumberOf(both, w.tags.forwardRules), reverseRule |-> NumberOf(both, w.tags.reverseRules)]
  IN  IF w.tags.routable /\ Len(w.nodes) >= 2
      THEN [s EXCEPT !.rules = both, !.ways = With(@, w.id, way), !.others = Without(@, w.id),
                     !.structures = IF w.tags.structure THEN @ \cup {w.id} ELSE @ \ {w.id}]
      ELSE [s EXCEPT !.ways = Without(@, w.id), !.structures = @ \ {w.id}, !.others = With(@, w.id, w.nodes)]

DeleteWay(s, id) ==
  [s EXCEPT !.ways = Without(@, id), !.others = Without(@, id), !.structures = @ \ {id}]

UpsertRelation(s, r) ==
  LET found == WithCandidates(s.rules, Candidates(r))
  IN  IF found.list = << >>
      THEN [s EXCEPT !.restrictions = Without(@, r.id), !.otherRelations = @ \cup {r.id},
                     !.admin = IF r.tags.type = "boundary" THEN With(@, r.id, IdsOf(r.members)) ELSE Without(@, r.id)]
      ELSE [s EXCEPT !.restrictions = With(@, r.id, found.list), !.rules = found.sets,
                     !.otherRelations = @ \ {r.id}, !.admin = Without(@, r.id)]

DeleteRelation(s, id) ==
  [s EXCEPT !.restrictions = Without(@, id), !.otherRelations = @ \ {id}, !.admin = Without(@, id)]

\* The rule sets in another order, and their references as before.
Renumbered(s, sets) ==
  LET new(old) == IF old = None THEN None ELSE NumberOf(sets, s.rules[old])
  IN  [s EXCEPT !.rules = sets,
                !.ways = [id \in DOMAIN s.ways |-> [s.ways[id] EXCEPT !.forwardRule = new(@), !.reverseRule = new(@)]],
                !.restrictions = [id \in DOMAIN s.restrictions |->
                                    [n \in DOMAIN s.restrictions[id] |-> [s.restrictions[id][n] EXCEPT !.rule = new(@)]]]]

\* Numbers the rule sets as a full import would: ways by id, forward before
\* reverse, then relations by id.  What nothing refers to is dropped.
RenumberRuleSets(s) ==
  LET ways  == ById(s.ways)
      found == FlattenSeq(ById(s.restrictions))
      used  == FlattenSeq([n \in DOMAIN ways |-> <<ways[n].forwardRule, ways[n].reverseRule>>])
               \o [n \in DOMAIN found |-> found[n].rule]
  IN  Renumbered(s, FoldLeft(LAMBDA kept, old : IF old = None THEN kept ELSE Interned(kept, s.rules[old]), << >>, used))

Ascending(nodes) == \A n \in 2 .. Len(nodes) : nodes[n - 1].id < nodes[n].id

\* By id, the last of a repeated id.
NormalizeNodes(nodes) ==
  LET last(id) == Max({n \in DOMAIN nodes : nodes[n].id = id})
      ids      == Sorted({nodes[n].id : n \in DOMAIN nodes})
  IN  IF Ascending(nodes) THEN nodes ELSE [n \in DOMAIN ids |-> nodes[last(ids[n])]]

InsertScanned(s, o) ==
  CASE o.kind = "node" -> [SetNodeTags(s, o.id, o.tags) EXCEPT !.nodes = Append(@, [id |-> o.id, place |-> o.place])]
    [] o.kind = "way" -> UpsertWay(s, o)
    [] o.kind = "relation" -> UpsertRelation(s, o)

ScanPbf(objects) ==
  RenumberRuleSets([FoldLeft(InsertScanned, NothingScanned, objects) EXCEPT !.nodes = NormalizeNodes(@)])

-----------------------------------------------------------------------------
(* Change files.  A change is [action, version, object].                   *)

KindRank == [node |-> 0, way |-> 1, relation |-> 2]
Kinds    == {"node", "way", "relation"}
KeyOf(o) == <<KindRank[o.kind], o.id>>
KeyBefore(k, l) == k[1] < l[1] \/ (k[1] = l[1] /\ k[2] < l[2])

\* What of an object and a change a dataset depends on; a deletion names an object.
IsObject(o) ==
  /\ o.kind \in Kinds /\ o.id \in Int
  /\ o.kind = "node" => o.place \in Int \X Int
  /\ o.kind = "way" => o.nodes \in Seq(Int)
IsChange(c) ==
  /\ c.version \in Int /\ c.object.kind \in Kinds /\ c.object.id \in Int
  /\ c.action # "delete" => IsObject(c.object)
AreObjects(objects) == objects \in Seq(Range(objects)) /\ \A o \in Range(objects) : IsObject(o)
AreChanges(changes) == changes \in Seq(Range(changes)) /\ \A c \in Range(changes) : IsChange(c)

\* The newest version of every object, the later one on equal versions.
EffectiveChanges(changes) ==
  LET newest(n) == \A m \in DOMAIN changes : KeyOf(changes[m].object) = KeyOf(changes[n].object) =>
                     \/ changes[m].version < changes[n].version
                     \/ changes[m].version = changes[n].version /\ m <= n
      kept == {n \in DOMAIN changes : newest(n)}
      order == Arranged(kept, LAMBDA m, n : KeyBefore(KeyOf(changes[m].object), KeyOf(changes[n].object)))
  IN  [n \in DOMAIN order |-> changes[order[n]]]

\* updates gives for an id the new node, or nothing.
MergeNodeUpdates(nodes, updates) ==
  LET of(id) == IF id \in DOMAIN updates THEN updates[id]
                ELSE {nodes[n] : n \in {n \in DOMAIN nodes : nodes[n].id = id}}
      ids == Sorted({id \in DOMAIN updates \cup {nodes[n].id : n \in DOMAIN nodes} : of(id) # {}})
  IN  [n \in DOMAIN ids |-> One(of(ids[n]))]

ApplyChange(c, change) ==
  LET o == change.object
      deleted == change.action = "delete"
  IN  CASE o.kind = "node" ->
             [state |-> SetNodeTags(c.state, o.id, IF deleted THEN Untagged ELSE o.tags),
              updates |-> With(c.updates, o.id, IF deleted THEN {} ELSE {[id |-> o.id, place |-> o.place]})]
        [] o.kind = "way" -> [c EXCEPT !.state = IF deleted THEN DeleteWay(@, o.id) ELSE UpsertWay(@, o)]
        [] o.kind = "relation" -> [c EXCEPT !.state = IF deleted THEN DeleteRelation(@, o.id) ELSE UpsertRelation(@, o)]

ChangesApplied(s, changes) ==
  LET c == FoldLeft(ApplyChange, [state |-> s, updates |-> << >>], changes)
  IN  [c.state EXCEPT !.nodes = MergeNodeUpdates(@, c.updates)]

ApplyChanges(s, changes) ==
  LET c == FoldLeft(ApplyChange, [state |-> s, updates |-> << >>], changes)
  IN  RenumberRuleSets([c.state EXCEPT !.nodes = MergeNodeUpdates(@, c.updates)])

-----------------------------------------------------------------------------
(* What the topology is built from, and the snapshot kept beside it.       *)

\* The nodes that ways and via nodes name, as far as the extract has them.
ScanOutput(s) ==
  LET ways   == ById(s.ways)
      found  == FlattenSeq(ById(s.restrictions))
      needed == UNION {Range(ways[n].nodes) : n \in DOMAIN ways} \cup ({found[n].node : n \in DOMAIN found} \ {None})
      nodes  == Picked(s.nodes, {n \in DOMAIN s.nodes : s.nodes[n].id \in needed})
  IN  [ways |-> ways, candidates |-> found, nodes |-> nodes, signals |-> s.signals,
       junctions |-> Only(s.junctions, needed), rules |-> s.rules]

\* topologyIds ascend: a node that is not the next of them is kept here.
ToSnapshot(s, topologyIds) ==
  LET step(c, node) == IF c.left # << >> /\ Head(c.left) = node.id
                       THEN [c EXCEPT !.left = Tail(@)] ELSE [c EXCEPT !.others = Append(@, node)]
      ways   == ById(s.ways)
      names  == FoldLeft(LAMBDA kept, w : IF w.name = None THEN kept ELSE Interned(kept, w.name), << >>, ways)
      others == ById(s.others)
  IN  [topologyIds |-> topologyIds,
       otherNodes |-> FoldLeft(step, [left |-> topologyIds, others |-> << >>], s.nodes).others,
       signals |-> Sorted(s.signals), names |-> names,
       wayIds |-> Sorted(DOMAIN s.ways), wayNodeCounts |-> [n \in DOMAIN ways |-> Len(ways[n].nodes)],
       wayNodes |-> FlattenSeq([n \in DOMAIN ways |-> ways[n].nodes]),
       wayNames |-> [n \in DOMAIN ways |-> NumberOf(names, ways[n].name)],
       wayAttributes |-> [n \in DOMAIN ways |-> [ways[n] EXCEPT !.id = None, !.nodes = << >>, !.name = None]],
       restrictions |-> FlattenSeq(ById(s.restrictions)),
       otherWayIds |-> Sorted(DOMAIN s.others), otherWayCounts |-> [n \in DOMAIN others |-> Len(others[n])],
       otherWayNodes |-> FlattenSeq(others), otherRelations |-> Sorted(s.otherRelations),
       junctions |-> s.junctions, rules |-> s.rules, structures |-> Sorted(s.structures), admin |-> s.admin]

\* Takes the topology's nodes up to each other one, and the rest at the end.
MergedNodes(topology, others) ==
  LET step(c, node) ==
        LET stop == Min({n \in DOMAIN c.left : c.left[n].id >= node.id} \cup {Len(c.left) + 1})
        IN  [nodes |-> c.nodes \o SubSeq(c.left, 1, stop - 1) \o <<node>>, left |-> SubSeq(c.left, stop, Len(c.left))]
      c == FoldLeft(step, [nodes |-> << >>, left |-> topology], others)
  IN  c.nodes \o c.left

\* places: of the topology's nodes.  Nothing, if the snapshot is not one of
\* this topology.
FromSnapshot(snap, places) ==
  LET nodes  == MergedNodes([n \in DOMAIN places |-> [id |-> snap.topologyIds[n], place |-> places[n]]], snap.otherNodes)
      at(id) == CHOOSE n \in DOMAIN snap.wayIds : snap.wayIds[n] = id
      way(n) == [snap.wayAttributes[n] EXCEPT !.id = snap.wayIds[n], !.nodes = Slice(snap.wayNodes, snap.wayNodeCounts, n),
                                              !.name = IF snap.wayNames[n] = None THEN None ELSE snap.names[snap.wayNames[n]]]
      other(id) == CHOOSE n \in DOMAIN snap.otherWayIds : snap.otherWayIds[n] = id
  IN  IF Len(places) # Len(snap.topologyIds) \/ ~Ascending(nodes) \/ ~IsInjective(snap.rules) THEN {}
      ELSE {[nodes |-> nodes, signals |-> Range(snap.signals), junctions |-> snap.junctions,
             ways |-> [id \in Range(snap.wayIds) |-> way(at(id))],
             others |-> [id \in Range(snap.otherWayIds) |-> Slice(snap.otherWayNodes, snap.otherWayCounts, other(id))],
             structures |-> Range(snap.structures),
             restrictions |-> [id \in {r.relation : r \in Range(snap.restrictions)} |->
                                 SelectSeq(snap.restrictions, LAMBDA r : r.relation = id)],
             rules |-> snap.rules, admin |-> snap.admin, otherRelations |-> Range(snap.otherRelations)]}

=============================================================================
