----------------------------- MODULE MCBundleStore -----------------------------
(* Constants for model-checking BundleStore and, next to it, BundleFormat. *)
EXTENDS BundleStore, BundleFormat

\* Two builds, a reader of either kind and a prune, in any order and overlap.
Together == {<<"update", "update", "load">>, <<"import", "load", "prune">>,
             <<"update", "compile", "load">>, <<"update", "load", "prune">>,
             <<"compile", "prune", "update">>, <<"prune", "prune", "compile">>}

-----------------------------------------------------------------------------
(* Bundles that differ from a plain one in a column or two.                *)

Ints == SeqOf({0, 1, 2, Narrow - 1}, 3)
Longs == SeqOf({-(Wide \div 2), -1, 0, 1, 5, Wide \div 2 - 1}, 2) \cup SeqOf({-(Wide \div 2), 1, Wide \div 2 - 1}, 3)
Doubles == SeqOf({NaN, 0, 4, -8, 3, 6, 2, 62, 64, 5, Wide \div 2 - 1}, 2) \cup SeqOf({NaN, 4, -8, 6}, 3)
Singles == SeqOf({NaN, 0, 4, -8, 2, 62, -62}, 2) \cup {<<4, 0, 4>>, <<NaN, 4, 4>>}
\* 2 leads a character of two bytes.
Texts == SeqOf({<< >>, <<1>>, <<2, 5>>, <<2, 6>>, <<2, 5, 1>>, <<1, 2, 5>>}, 2) \cup {<<<<1, 2, 5>>, <<1, 2, 5, 2, 6>>, <<1, 2, 6>>>>}
Optional == SeqOf({{}, {0}, {1}, {Narrow - 1}}, 2)
RowHeads(first) == SeqOf({0, 1, Narrow - 1}, Last(first)) \cap [1 .. Last(first) -> Nat]

With(base, name, values) == {[base EXCEPT ![name] = v] : v \in values}
Of(kind, all) == {[kind |-> kind, columns |-> b] : b \in all}

Hierarchy0 == [order |-> <<1, 0, 2>>, rank |-> <<1, 0, 2>>, upFirst |-> <<0, 1, 1>>, up |-> <<2>>, downFirst |-> <<0>>, down |-> << >>]
Hierarchies ==
  With(Hierarchy0, "order", Ints) \cup {[Hierarchy0 EXCEPT !.order = o, !.rank = r] : o \in {<<1, 2, 0>>, <<0, 1>>, << >>}, r \in {<<2, 0, 1>>, <<0, 1>>, << >>}}
  \cup UNION {With([Hierarchy0 EXCEPT !.upFirst = first], "up", RowHeads(first)) : first \in {<<0, 2>>, <<0, 1, 3>>, <<0, 0, 2, 3>>}}

Names0 == [names |-> <<<<1>>>>, strings |-> <<<<3>>, <<1>>>>, reference |-> <<{1}, {}>>, exit |-> <<{}, {0}>>, edgeGuidance |-> <<1, 0, 0>>]
NameTables == With(Names0, "names", Texts) \cup With(Names0, "edgeGuidance", SeqOf({0, 1}, 3))
              \cup {[Names0 EXCEPT !.reference = r, !.exit = <<{0}, {0}>>] : r \in {<<{}, {}>>, <<{0}, {1}>>}}

Profile0 == [positions |-> <<0, 1>>, metrics |-> <<3, 3>>, component |-> <<1, 2>>, ruleEdges |-> <<1>>, edgeRules |-> <<0>>]
Profiles == With(Profile0, "metrics", [1 .. 2 -> {0, 7}]) \cup With(Profile0, "edgeRules", SeqOf({0, 1, Narrow - 1}, 1) \cap [1 .. 1 -> Nat])
            \cup {[positions |-> [n \in 1 .. k |-> n - 1], metrics |-> [n \in 1 .. k |-> n % 2], component |-> [n \in 1 .. k |-> 2],
                   ruleEdges |-> << >>, edgeRules |-> << >>] : k \in {0, 1, 40}}

Snapshot0 == [topologyNodes |-> <<3>>, otherNodes |-> <<5, 9>>, otherLon |-> <<-4, 4>>, ways |-> <<7, 8>>, wayCounts |-> <<2, 1>>,
              wayNodes |-> <<3, 5, 3>>, wayNames |-> <<{}, {1}>>, attributes |-> <<2, 2>>]
Snapshots == With(Snapshot0, "topologyNodes", Longs) \cup With(Snapshot0, "wayNames", Optional \cap [1 .. 2 -> SUBSET Nat])

Topology0 == [lon |-> <<4, 8>>, z |-> <<NaN, NaN>>, from |-> <<0, 1>>, to |-> <<1, 0>>, way |-> <<9, 9>>, ascent |-> <<0, 0>>,
              rule |-> <<{}, {}>>, attributes |-> <<1, 1>>,
              transitions |-> [nodeFirst |-> <<0, 1, 2>>, nodeEdges |-> <<0, 1>>, edgeFirst |-> <<0, 1, 2>>, edgeNext |-> <<1, 0>>],
              nodeComponents |-> <<0, 0>>, edgeComponents |-> <<0, 0>>, feature |-> <<{}, {5}>>, measure |-> <<{2}, {}>>, area |-> << >>]
Derived(b) == [[b EXCEPT !.transitions = CHOOSE t \in Derive("transitions", b) : TRUE] EXCEPT
                 !.edgeComponents = CHOOSE c \in Derive("edgeComponents", b) : TRUE]
Topologies ==
  With(Topology0, "lon", Doubles \cap [1 .. 2 -> Int]) \cup With(Topology0, "z", {<<NaN, 4>>, <<3, NaN>>, <<62, 5>>})
  \cup With(Topology0, "ascent", Singles \cap [1 .. 2 -> Int])
  \cup {Derived([Topology0 EXCEPT !.from = f, !.to = t, !.nodeComponents = c]) :
          f \in [1 .. 2 -> {0, 1}], t \in [1 .. 2 -> {0, 1}], c \in {<<0, 0>>, <<0, 1>>}}
  \cup {[Topology0 EXCEPT !.transitions.edgeNext = <<1, 1>>], [Topology0 EXCEPT !.transitions.nodeEdges = <<1, 0>>],
        [Topology0 EXCEPT !.edgeComponents = <<1, 0>>], [Topology0 EXCEPT !.edgeComponents = <<0>>], [Topology0 EXCEPT !.area = <<0, 1>>]}
  \cup With(Topology0, "measure", SeqOf({{}, {2}, {NaN}}, 3))

Speeds0 == [speeds |-> <<50, 52, 52>>, features |-> <<-6, 4>>, backward |-> <<0, 1>>, patterns |-> <<2, 0>>]
SpeedTables == With(Speeds0, "speeds", {s \in Ints : Len(s) = 3}) \cup With(Speeds0, "features", {<<-1, 5>>, <<5, 5>>})

Heights0 == [tile |-> <<4, 8, NaN>>, tile2 |-> <<NaN, NaN, NaN>>]
Rasters == With(Heights0, "tile", {h \in Doubles : Len(h) = 3})

Plain == Of("acceleration", {Hierarchy0}) \cup Of("names", {Names0}) \cup Of("profile", {Profile0}) \cup Of("snapshot", {Snapshot0})
         \cup Of("topology", {Topology0, [Topology0 EXCEPT !.edgeComponents = <<1, 0>>]}) \cup Of("traffic", {Speeds0}) \cup Of("elevation", {Heights0})
MCBundles ==
  Plain \cup Of("acceleration", Hierarchies) \cup Of("names", NameTables) \cup Of("profile", Profiles) \cup Of("snapshot", Snapshots)
  \cup Of("topology", Topologies) \cup Of("traffic", SpeedTables) \cup Of("elevation", Rasters)

\* Files are looked at apart from the store.
StoreRests == \A c \in Calls : call[c].pc = "new" /\ op = CHOOSE o \in Scenarios : TRUE
StorageInit == Init /\ FormatInit
StorageNext == \/ bundle = Idle /\ Next /\ UNCHANGED formatVars
               \/ StoreRests /\ FormatNext /\ UNCHANGED vars
StorageSpec == StorageInit /\ [][StorageNext]_<<vars, formatVars>>
===============================================================================
