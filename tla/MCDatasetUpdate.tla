-------------------------- MODULE MCDatasetUpdate --------------------------
(* Small extracts with the edits of a change feed.                         *)
EXTENDS DatasetUpdate, MCHierarchy

-----------------------------------------------------------------------------
Node(id, place) == [kind |-> "node", id |-> id, place |-> place, tags |-> Untagged]
Signal(id, place) == [Node(id, place) EXCEPT !.tags.signal = TRUE]
Exit(id, place, number) == [Node(id, place) EXCEPT !.tags.junction = number]

Road == [routable |-> TRUE, forward |-> {"car", "hgv", "bicycle"}, reverse |-> {}, forwardRules |-> << >>,
         reverseRules |-> << >>, structure |-> FALSE, name |-> None]
TwoWay == [Road EXCEPT !.reverse = {"car", "bicycle"}]
Wall   == [Road EXCEPT !.routable = FALSE]

Way(id, on, tags) == [kind |-> "way", id |-> id, nodes |-> on, tags |-> tags]

From(id) == [role |-> "from", kind |-> "way", id |-> id]
Onto(id) == [role |-> "to", kind |-> "way", id |-> id]
ViaNode(id) == [role |-> "via", kind |-> "node", id |-> id]
ViaWay(id) == [role |-> "via", kind |-> "way", id |-> id]

Says(always, sometimes, except) == [type |-> "restriction", always |-> always, sometimes |-> sometimes, except |-> except]
Plain(value) == Says("restriction" :> value, << >>, {})
When(value, rule) == [value |-> value, rule |-> rule]

Relation(id, members, tags) == [kind |-> "relation", id |-> id, members |-> members, tags |-> tags]
Boundary(id, ways) == Relation(id, [n \in DOMAIN ways |-> [role |-> "outer", kind |-> "way", id |-> ways[n]]],
                               [Plain("no") EXCEPT !.type = "boundary"])

\* A block with one two-way street, five edges.
Block == << Node(1, <<0, 0>>), Node(2, <<1, 0>>), Signal(3, <<2, 0>>), Node(4, <<2, 2>>),
            Way(11, <<1, 2, 3>>, [Road EXCEPT !.name = 7, !.forwardRules = <<"night", "bus">>]),
            Way(12, <<3, 4>>, [TwoWay EXCEPT !.name = 5, !.reverseRules = <<"night">>]), Way(13, <<4, 1>>, [Road EXCEPT !.name = 7]),
            Relation(21, <<From(12), ViaNode(4), Onto(12)>>, Says("restriction" :> "no", "restriction" :> <<When("none", "day")>>, {"hgv"})) >>

\* A fork behind a way that both turns go through; node 4 comes last and twice.
Fork == << Node(1, <<0, 0>>), Exit(2, <<2, 0>>, 4), Node(3, <<4, 0>>), Node(5, <<6, -1>>), Node(6, <<9, 9>>), Node(4, <<0, 9>>), Node(4, <<6, 1>>),
           Way(11, <<1, 2>>, TwoWay), Way(12, <<2, 3>>, [Road EXCEPT !.structure = TRUE]), Way(13, <<3, 4>>, [TwoWay EXCEPT !.name = 5]),
           Way(14, <<3, 5>>, Road), Way(15, <<5, 2>>, Road), Way(16, <<5, 6>>, Wall),
           Relation(21, <<From(11), ViaWay(12), Onto(13)>>,
                    Says("restriction" :> "only", "restriction:hgv" :> <<When("none", "night"), When("odd", "day")>>, {})),
           Relation(22, <<From(11), ViaNode(2), Onto(11)>>, Says(<< >>, "restriction:bicycle" :> <<When("no", "day"), When("no", "bus")>>, {})),
           Boundary(23, <<11, 16>>) >>

\* Two roads apart.
Islands == << Node(1, <<0, 0>>), Node(2, <<3, 0>>), Node(3, <<9, 5>>), Node(4, <<9, 8>>),
              Way(12, <<3, 4>>, TwoWay), Way(11, <<1, 2>>, TwoWay), Way(15, <<1>>, Road),
              Relation(21, <<From(12), ViaNode(3), Onto(11)>>, Plain("no")) >>

\* Two blocks side by side, with a turn ban over a way that is drawn twice round.
Blocks == << Node(1, <<0, 0>>), Node(2, <<4, 0>>), Node(3, <<8, 1>>), Node(4, <<8, 4>>), Signal(5, <<4, 5>>), Node(6, <<0, 4>>),
             Way(11, <<1, 2, 3>>, Road), Way(12, <<3, 4, 5>>, Road), Way(13, <<5, 6, 1>>, [Road EXCEPT !.forwardRules = <<"bus">>]),
             Way(14, <<2, 5>>, TwoWay),
             Relation(21, <<From(11), ViaWay(14), Onto(13)>>, Plain("no")),
             Relation(22, <<From(12), ViaNode(5), Onto(13)>>, Says("restriction:bicycle" :> "only", "restriction" :> <<When("only", "night")>>, {})) >>

SomeExtracts == {Block, Fork, Islands, Blocks}

Make(o, version) == [action |-> "create", version |-> version, object |-> o]
Edit(o, version) == [action |-> "modify", version |-> version, object |-> o]
Drop(o, version) == [action |-> "delete", version |-> version, object |-> o]

\* The first way is cut in two where it meets a new one.
SplitWay == << Edit(Way(11, <<1, 2>>, Road), 2), Make(Node(7, <<1, 5>>), 1),
               Make(Way(17, <<2, 3>>, [Road EXCEPT !.name = 7, !.forwardRules = <<"bus">>]), 1), Make(Way(18, <<2, 7>>, TwoWay), 1) >>
\* A node goes while a way still names it, and a way that the older version of another edit drops.
LoseNode == << Drop(Node(3, <<0, 0>>), 3), Edit(Way(12, <<1, 4>>, TwoWay), 4), Drop(Way(12, << >>, Road), 3) >>
\* A relation is no restriction any more, and the rules of a way come up first.
EditRules == << Edit(Relation(21, <<From(12), ViaNode(4), Onto(12)>>, Plain("odd")), 2),
                Edit(Way(13, <<4, 1>>, [Road EXCEPT !.forwardRules = <<"day">>]), 2),
                Edit(Way(11, <<1, 2, 3>>, [TwoWay EXCEPT !.reverseRules = <<"night">>, !.name = 6]), 2) >>
\* A street far off, between nodes given after it; a road is built over.
NewStreet == << Make(Way(19, <<8, 9>>, TwoWay), 0), Make(Node(9, <<7, 7>>), 0), Make(Node(8, <<5, 7>>), 0), Edit(Way(13, <<4, 1>>, Wall), 5) >>
\* The same relation twice, the later one of one version, and its way restored.
NewRelation == << Make(Relation(24, <<From(11), ViaNode(2), Onto(12)>>, Plain("no")), 1),
                  Make(Relation(24, <<From(11), ViaWay(12), Onto(13)>>, Plain("only")), 1),
                  Edit(Way(12, <<2, 3>>, Road), 1), Edit(Way(13, <<3, 4>>, TwoWay), 1),
                  Drop(Relation(22, << >>, Plain("no")), 2), Edit(Node(2, <<2, 1>>), 2) >>

SomeChanges == {<<SplitWay>>, <<LoseNode>>, <<EditRules>>, <<NewStreet>>, <<NewRelation>>, <<NewStreet, SplitWay>>}
=============================================================================
