-------------------------- MODULE MCTransitSearch --------------------------
EXTENDS TransitTables

C(run, from, to, dep, arr) ==
  [run |-> run, trip |-> IF run = 3 THEN 2 ELSE run, route |-> IF run = 1 THEN "slow" ELSE "fast",
   from |-> from, to |-> to, dep |-> dep, arr |-> arr, pickup |-> TRUE, drop |-> TRUE]

\* A slow line with a fast one that leaves it, twice; and a line that comes
\* through one stop twice, not listed in order, with a connection of no length.
Fork == <<C(1, 1, 2, 1, 3), C(1, 2, 3, 4, 6), C(1, 3, 4, 6, 9), C(2, 2, 4, 5, 7), C(3, 3, 4, 7, 8), C(2, 4, 3, 8, 10)>>
Loop == <<C(1, 2, 4, 6, 8), C(1, 1, 2, 1, 2), C(1, 2, 3, 2, 2), C(1, 3, 2, 3, 4), C(2, 2, 4, 4, 6), C(3, 3, 4, 4, 9)>>

Footpaths == {[from |-> 2, to |-> 3, time |-> 1], [from |-> 4, to |-> 3, time |-> 1], [from |-> 3, to |-> 4, time |-> 4]}

Rule(from, to, first, second, forbidden, minimum) ==
  [from |-> from, to |-> to, first |-> first, second |-> second, forbidden |-> forbidden, minimum |-> minimum]
Whole == <<"any">>
Trip(n) == <<"trip", n>>
Route(r) == <<"route", r>>

RuleSets ==
  {{},
   {Rule(2, 2, Whole, Whole, TRUE, 0)},
   {Rule(2, 2, Whole, Whole, TRUE, 0), Rule(2, 2, Trip(1), Route("fast"), FALSE, 2), Rule(2, 3, Whole, Whole, TRUE, 0)},
   {Rule(2, 3, Trip(1), Whole, FALSE, 5), Rule(3, 3, Whole, Whole, FALSE, 2)},
   {Rule(2, 2, Route("slow"), Trip(2), TRUE, 0), Rule(2, 2, Trip(1), Route("fast"), FALSE, 0)}}

Flagged(connections, c, pickup, drop) ==
  [connections EXCEPT ![c] = [@ EXCEPT !.pickup = pickup, !.drop = drop]]

MCTimetables ==
  {[connections |-> connections, walks |-> walks, rules |-> rules] :
     connections \in {Fork, Loop} \cup {Flagged(table, c, FALSE, TRUE) : table \in {Fork, Loop}, c \in {2, 4}}
                     \cup {Flagged(table, c, TRUE, FALSE) : table \in {Fork, Loop}, c \in {2, 4}},
     walks \in {{}, Footpaths}, rules \in RuleSets}

Base == [access |-> (1 :> 0), egress |-> (4 :> 0), window |-> 20, boardSlack |-> 0, transferSlack |-> 0,
         maxTransfers |-> 2, routes |-> {"slow", "fast"}, minimum |-> 0, maxRoutes |-> 1, ratio |-> 2,
         extra |-> 3, area |-> None]

Asked ==
  {[[Base EXCEPT !.boardSlack = slack[1]] EXCEPT !.transferSlack = slack[2]] : slack \in {<<0, 0>>, <<0, 1>>, <<1, 0>>}}
  \cup {[Base EXCEPT !.access = (1 :> 1) @@ (2 :> 2), !.egress = (3 :> 1) @@ (4 :> 3)]}
  \cup {[Base EXCEPT !.maxTransfers = m] : m \in {0, 1}}
  \cup {[Base EXCEPT !.window = 4], [Base EXCEPT !.routes = {"slow"}]}
  \cup {[Base EXCEPT !.minimum = 3, !.maxRoutes = n] : n \in {1, 3}}
  \cup {[Base EXCEPT !.maxRoutes = 3], [Base EXCEPT !.maxRoutes = 2, !.extra = 1, !.transferSlack = 1]}
  \cup {[Base EXCEPT !.area = a, !.transferSlack = 1, !.access = (1 :> 0) @@ (3 :> 1), !.egress = (4 :> 0) @@ (3 :> 1)] : a \in {5, 9}}

\* What is built is asked about as far as its journeys can be listed.
OnBuilt(bundle) ==
  {r \in {[[time |-> time, arriveBy |-> arriveBy] @@ Base EXCEPT !.egress = (3 :> 1), !.routes = DOMAIN bundle.routes, !.maxRoutes = n] :
             time \in {0, 30, 55}, arriveBy \in BOOLEAN, n \in {1, 3}} : Len(bundle.connections) <= 8}

MCRequestsOn(table) ==
  IF "failed" \in DOMAIN table THEN OnBuilt(table)
  ELSE {[time |-> 0, arriveBy |-> FALSE] @@ r : r \in Asked}
       \cup {[time |-> time, arriveBy |-> TRUE] @@ r : r \in Asked, time \in {9, 11}}

-----------------------------------------------------------------------------
Row(trip, stop, sequence, arr, dep) ==
  [trip |-> trip, stop |-> stop, sequence |-> sequence, arr |-> arr, dep |-> dep, pickup |-> TRUE, drop |-> TRUE]

\* Three days, the clocks go forward in the second night.  One trip with blanks
\* and a hop that takes no time, one by headway, one of a service that has gone.
City ==
  [first |-> 5, days |-> 3, noon |-> (5 :> 12) @@ (6 :> 36) @@ (7 :> 59), midnight |-> 0,
   stops |-> <<"a", "b", "c">>, parent |-> [stop \in {"a", "b", "c", "x"} |-> IF stop \in {"b", "c"} THEN "hub" ELSE "none"],
   routes |-> <<"slow", "fast">>,
   trips |-> <<[id |-> <<"t">>, route |-> "slow", service |-> "week"], [id |-> <<"gone">>, route |-> "slow", service |-> "past"],
               [id |-> <<"h">>, route |-> "fast", service |-> "extra"]>>,
   calendar |-> <<[service |-> "week", weekdays |-> {5, 6}, from |-> 0, to |-> 9],
                  [service |-> "past", weekdays |-> {5}, from |-> 0, to |-> 4]>>,
   exceptions |-> <<[service |-> "extra", day |-> 7, kind |-> 2], [service |-> "extra", day |-> 7, kind |-> 1],
                    [service |-> "week", day |-> 6, kind |-> 2], [service |-> "week", day |-> 9, kind |-> 1]>>,
   stopTimes |-> <<Row(<<"t">>, "c", 9, 8, Blank), [Row(<<"t">>, "b", 4, Blank, Blank) EXCEPT !.pickup = FALSE], Row(<<"t">>, "a", 1, 0, 1),
                   Row(<<"t">>, "b", 11, 8, 8), Row(<<"gone">>, "a", 1, 1, 1), Row(<<"gone">>, "b", 2, 2, 2),
                   Row(<<"h">>, "b", 1, 2, 2), [Row(<<"h">>, "c", 2, 3, 4) EXCEPT !.drop = FALSE]>>,
   frequencies |-> <<[trip |-> <<"h">>, from |-> 3, to |-> 7, headway |-> 3], [trip |-> <<"h">>, from |-> 6, to |-> 7, headway |-> 1],
                     [trip |-> <<"t">>, from |-> 4, to |-> 4, headway |-> 1]>>,
   transfers |-> << >>]

Transfer(from, to, first, second, forbidden, minimum) ==
  [from |-> from, to |-> to, first |-> first, second |-> second, forbidden |-> forbidden, minimum |-> minimum, inSeat |-> FALSE]

AnySide == <<"any">>

Feeds ==
  {City,
   [City EXCEPT !.transfers = <<Transfer("hub", "hub", AnySide, AnySide, TRUE, 0), Transfer("b", "b", <<"route", "slow">>, AnySide, FALSE, 2),
                                Transfer("b", "b", <<"trip", <<"gone">>>>, <<"trip", <<"h">>>>, TRUE, 0),
                                Transfer("c", "b", AnySide, <<"trip", <<"h">>>>, FALSE, 1), Transfer("b", "b", AnySide, <<"route", "fast">>, TRUE, 0)>>],
   [City EXCEPT !.transfers = <<Transfer("hub", "b", AnySide, AnySide, TRUE, 0), Transfer("c", "hub", AnySide, AnySide, FALSE, 2)>>],
   [City EXCEPT !.transfers = <<Transfer("b", "b", <<"trip", <<"t">>, "slow">>, AnySide, TRUE, 0)>>],
   [City EXCEPT !.stopTimes = Append(@, Row(<<"t">>, "b", 10, Blank, Blank)), !.calendar[2].to = 6],
   [City EXCEPT !.stopTimes = Append(@, Row(<<"t">>, "c", 12, Blank, Blank))],
   [City EXCEPT !.stopTimes = Append(@, Row(<<"t">>, "c", 2, 0, 9))]}

\* An in-seat transfer, a stop and a route that are not there, a trip of another
\* route.
RefusedFeeds ==
  {[City EXCEPT !.transfers = <<row>>] :
     row \in {[Transfer("b", "b", AnySide, AnySide, FALSE, 0) EXCEPT !.inSeat = TRUE], Transfer("y", "b", AnySide, AnySide, TRUE, 0),
              Transfer("b", "b", <<"route", "none">>, AnySide, TRUE, 0), Transfer("b", "b", AnySide, <<"trip", <<"none">>>>, TRUE, 0),
              Transfer("b", "b", <<"trip", <<"t">>, "fast">>, AnySide, TRUE, 0)}}

Stop(name, travel, dwell) == [stop |-> name, travel |-> travel, dwell |-> dwell]

Daily(windows, departures) == [weekdays |-> {4, 5, 6, 0}, windows |-> windows, departures |-> departures]

Line(id, stops, both, services) == [id |-> id, stops |-> stops, both |-> both, services |-> services]

Express == Line("x1", <<Stop("a", Blank, 5), Stop("x", 2, 1), Stop("b", Blank, 0), Stop("c", 0, 7)>>, TRUE,
                <<Daily(<<[from |-> 1, to |-> 5, headway |-> 2]>>, <<5, 2>>), [Daily(<< >>, <<26>>) EXCEPT !.weekdays = {6}]>>)

Shuttle == Line("x2", <<Stop("b", Blank, 0), Stop("a", 1, 0)>>, FALSE, <<Daily(<< >>, <<8, 8>>)>>)

Scenario(lines, removed, alone) ==
  [stops |-> IF alone THEN <<"x", "a", "b", "c">> ELSE <<"x">>, lines |-> lines, removed |-> removed, alone |-> alone,
   ride |-> [pair \in SUBSET {"a", "b", "c", "x"} |-> 3]]

Count(n) == [kind |-> "whole", of |-> n]
Real(n) == [kind |-> "double", of |-> n]

Path(time, distance, edges, points, costs) ==
  [time |-> time, distance |-> distance, edges |-> edges, points |-> points, costs |-> costs]

Cost(key, value) == [key |-> key, value |-> value]

\* Two paths that begin alike, one that comes back to an edge by another way, one
\* of a single point and one without.
Streets(reach, most) ==
  [names |-> <<"a", "b", "c", "x">>, place |-> ("a" :> 0) @@ ("b" :> 3) @@ ("c" :> 4) @@ ("x" :> 7), reach |-> reach, most |-> most,
   path |-> (<<"a", "b">> :> Path(4, Real(3), <<7, 2>>, <<"p", "q", "r">>, <<Cost("stairs", Count(0)), Cost("slope", Real(3))>>))
         @@ (<<"a", "c">> :> Path(2, [kind |-> "none", of |-> 0], <<7, 2, 9>>, <<"p", "q", "s", "r">>, << >>))
         @@ (<<"b", "c">> :> Path(1, Count(1), <<2, 7, 2>>, <<"r", "s", "q", "r">>, <<Cost("stairs", Count(5))>>))
         @@ (<<"b", "a">> :> Path(5, Count(200), <<9>>, << >>, <<Cost("slope", [kind |-> "single", of |-> 2])>>))
         @@ (<<"b", "x">> :> Path(1, Count(0), << >>, <<"q">>, <<Cost("slope", Count(0)), Cost("steps", Count(0))>>))
         @@ (<<"c", "b">> :> Path(0, Count(1), <<4, 4>>, <<"s", "r">>, << >>))]

\* Walks that each name other costs, from the last stop a single short one.
Varied(reach, most, last) ==
  LET keys == <<"k1", "k2", "k3", "k4", "k5", "k6", "k7">>
      pairs == <<<<"a", "b">>, <<"a", "c">>, <<"a", "x">>, <<"b", "a">>, <<"b", "c">>, <<"b", "x">>, <<"c", last>>>>
  IN  [Streets(reach, most) EXCEPT !.path =
         [pair \in Range(pairs) |->
            Path(1, Count(0), << >>, <<"p">>, <<Cost(keys[PositionOf(pairs, pair)], Count(0))>>)]]

Empty == [City EXCEPT !.stops = << >>, !.routes = << >>, !.trips = << >>, !.calendar = << >>, !.exceptions = << >>,
                      !.stopTimes = << >>, !.frequencies = << >>]

MCSources ==
  {[streets |-> Streets(9, 3)] @@ s : s \in
     {[feed |-> feed, scenario |-> << >>] : feed \in Feeds \cup RefusedFeeds}
     \cup {[feed |-> feed, scenario |-> <<Scenario(lines, removed, FALSE)>>] :
             feed \in Feeds, lines \in {<<Express>>, <<Shuttle, Express>>},
             removed \in {{}, {"slow"}, {"fast"}, {"none"}}}
     \cup {[feed |-> Empty, scenario |-> <<Scenario(lines, removed, TRUE)>>] :
             lines \in {<<Express, Shuttle>>, <<Shuttle, Shuttle>>}, removed \in {{}, {"slow"}}}}
  \cup {[streets |-> Varied(9, 3, last), feed |-> City, scenario |-> <<Scenario(<<Express>>, {}, FALSE)>>] :
           last \in {"b", "x"}}
  \cup {[streets |-> Streets(reach, most), feed |-> City, scenario |-> << >>] : reach \in {3, 4}, most \in {1, 2}}
=============================================================================
