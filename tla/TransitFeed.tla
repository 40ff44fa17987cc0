---------------------------- MODULE TransitFeed ----------------------------
(***************************************************************************)
(* Where a timetable comes from: the import of a GTFS feed (transit,       *)
(* gtfs.rs, timetable_time.rs, transfer_rules.rs), and scenarios drawn in  *)
(* the editor, which are written as GTFS, imported and merged with a base  *)
(* feed (editor.rs).  What is built is searched by TransitSearch.          *)
(***************************************************************************)
EXTENDS TransitSearch

CONSTANT Sources     \* what is imported or built: a feed, or at most one scenario on it

Blank == -1          \* no time, or no travel time, is given

\* The value of a set of one: such a set is worked out once.
The(S) == CHOOSE x \in S : TRUE

\* As if equal keys could come in any order.
OrderedLoosely(keys) ==
  LET tagged == [n \in DOMAIN keys |-> <<keys[n], n>>]
      before(a, b) == a[1] < b[1] \/ (a[1] = b[1] /\ a[2] > b[2])
  IN  The({[n \in DOMAIN s |-> s[n][2]] @@ << >> : s \in {SortSeq(tagged, before)}})

\* Positions in order of their keys, equal keys in order of position.
Ordered(keys) ==
  LET tagged == [n \in DOMAIN keys |-> <<keys[n], n>>]
      before(a, b) == a[1] < b[1] \/ (a[1] = b[1] /\ a[2] < b[2])
  IN  The({[n \in DOMAIN s |-> s[n][2]] @@ << >> : s \in {SortSeq(tagged, before)}})

Ascending(S) == [n \in 1 .. Cardinality(S) |-> CHOOSE x \in S : Cardinality({y \in S : y < x}) = n - 1]

\* Stable, as the sort of the program.
ByDeparture(connections) ==
  LET order == Ordered([n \in DOMAIN connections |-> connections[n].dep])
  IN  The({[n \in DOMAIN o |-> connections[o[n]]] @@ << >> : o \in {order}})

PositionOf(seq, x) == Min({n \in DOMAIN seq : seq[n] = x})

-----------------------------------------------------------------------------
(* Days.  GTFS counts from twelve hours before local noon.                 *)

HalfDay == 12

Anchor(feed, day) == feed.noon[day] - HalfDay

TimeOrigin(feed) == Min({feed.midnight, Anchor(feed, feed.first)})

DayOffset(feed, day) == Anchor(feed, day) - TimeOrigin(feed)

ServiceDates(feed) == feed.first .. feed.first + feed.days - 1

Weekday(day) == day % 7

\* Days on which each service runs: the calendar, then row by row exceptions.
ActiveServices(feed) ==
  LET regular(service) ==
        {day \in ServiceDates(feed) :
           \E row \in Range(feed.calendar) : /\ row.service = service /\ row.from <= day /\ day <= row.to
                                             /\ Weekday(day) \in row.weekdays}
      services == {row.service : row \in Range(feed.calendar) \cup Range(feed.exceptions)}
  IN  FoldLeft(LAMBDA active, row :
                 CASE row.day \notin ServiceDates(feed) -> active
                   [] row.day \in ServiceDates(feed) /\ row.kind = 1 -> [active EXCEPT ![row.service] = @ \cup {row.day}]
                   [] row.day \in ServiceDates(feed) /\ row.kind = 2 -> [active EXCEPT ![row.service] = @ \ {row.day}],
               [s \in services |-> regular(s)], feed.exceptions)

-----------------------------------------------------------------------------
(* Vehicles.                                                               *)

\* Trips that run and whose route is known, in the order of the file.
ParsedTrips(feed, active) ==
  SelectSeq(feed.trips, LAMBDA trip : /\ trip.service \in DOMAIN active /\ active[trip.service] # {}
                                      /\ trip.route \in Range(feed.routes))

StopTimes(feed, trip) ==
  LET rows == SelectSeq(feed.stopTimes, LAMBDA row : row.trip = trip /\ row.stop \in Range(feed.stops))
      order == Ordered([n \in DOMAIN rows |-> rows[n].sequence])
      filled(row) == [row EXCEPT !.arr = IF row.arr = Blank THEN row.dep ELSE row.arr,
                                 !.dep = IF row.dep = Blank THEN row.arr ELSE row.dep]
  IN  [n \in DOMAIN order |-> filled(rows[order[n]])]

TimingPoints(rows) == {n \in DOMAIN rows : rows[n].arr # Blank}

\* Blanks between timing points get the nearest second of a steady drive.
Interpolated(rows) ==
  LET at(n) ==
        LET a == Max({m \in TimingPoints(rows) : m < n})
            b == Min({m \in TimingPoints(rows) : m > n})
            duration == rows[b].arr - rows[a].dep
        IN  rows[a].dep + (duration * (n - a) + ((b - a) \div 2)) \div (b - a)
  IN  [n \in DOMAIN rows |-> IF n \in TimingPoints(rows) THEN rows[n]
                             ELSE [rows[n] EXCEPT !.arr = at(n), !.dep = at(n)]]

\* What refuses a feed: blanks at an end, times that go back between timing
\* points or between the stops of a vehicle.
RowsFail(rows) ==
  /\ rows # << >>
  /\ \/ {1, Len(rows)} \ TimingPoints(rows) # {}
     \/ \E a, b \in TimingPoints(rows) :
          /\ a < b /\ \A n \in a + 1 .. b - 1 : n \notin TimingPoints(rows)
          /\ rows[b].arr < rows[a].dep

FrequencyWindows(feed, trip) ==
  SelectSeq(feed.frequencies, LAMBDA w : w.trip = trip /\ w.headway > 0 /\ w.from < w.to)

\* When a trip leaves its first stop on a day.
Starts(feed, trip, rows) ==
  LET windows == FrequencyWindows(feed, trip)
      every(w) == [n \in 1 .. ((w.to - w.from - 1) \div w.headway) + 1 |-> w.from + (n - 1) * w.headway]
  IN  IF windows = << >> THEN <<rows[1].dep>>
      ELSE FlattenSeq([n \in DOMAIN windows |-> every(windows[n])])

\* One run for each trip, day and start, numbered in that order.
VehicleRuns(feed, trips, active, rows) ==
  FlattenSeq([t \in DOMAIN trips |->
    IF rows[t] = << >> THEN << >>
    ELSE LET days == Ascending(active[trips[t].service])
             starts == Starts(feed, trips[t].id, rows[t])
         IN  FlattenSeq([d \in DOMAIN days |->
               [n \in DOMAIN starts |-> [trip |-> t, day |-> days[d], start |-> starts[n]]]])])

ConnectionsOf(feed, trips, rows, runs) ==
  LET hops(n) ==
        LET run == runs[n]
            stops == rows[run.trip]
            at(t) == DayOffset(feed, run.day) + run.start + Max({0, t - stops[1].dep})
        IN  [k \in 1 .. Len(stops) - 1 |->
               [run |-> n, trip |-> run.trip, route |-> PositionOf(feed.routes, trips[run.trip].route),
                from |-> PositionOf(feed.stops, stops[k].stop), to |-> PositionOf(feed.stops, stops[k + 1].stop),
                dep |-> at(stops[k].dep), arr |-> at(stops[k + 1].arr),
                pickup |-> stops[k].pickup, drop |-> stops[k + 1].drop]]
  IN  The({ByDeparture(all) : all \in {FlattenSeq([n \in DOMAIN runs |-> hops(n)])}})

-----------------------------------------------------------------------------
(* Rules of transfers.  A row names stops or stations, and for each side a *)
(* trip, a route or any vehicle; it stands for a rule per pair of stops.   *)

StopsNamed(feed, name) ==
  {n \in DOMAIN feed.stops : feed.stops[n] = name \/ feed.parent[feed.stops[n]] = name}

\* Rows of in-seat transfers, of stops, routes and trips that the feed has not,
\* and of a trip beside a route that is not its own refuse the feed.
RowRefused(feed, row) ==
  LET known(name) == StopsNamed(feed, name) # {} \/ name \in {feed.parent[stop] : stop \in DOMAIN feed.parent} \ {"none"}
      named(side) == CASE side[1] = "any" -> TRUE
                       [] side[1] = "route" -> side[2] \in Range(feed.routes)
                       [] side[1] = "trip" ->
                            \E t \in Range(feed.trips) : t.id = side[2] /\ (Len(side) = 3 => t.route = side[3])
  IN  row.inSeat \/ ~known(row.from) \/ ~known(row.to) \/ ~named(row.first) \/ ~named(row.second)

\* A trip that does not run makes its row void.
SideChosen(feed, trips, side) ==
  CASE side[1] = "any" -> side
    [] side[1] = "route" -> <<"route", PositionOf(feed.routes, side[2])>>
    [] side[1] = "trip" -> IF side[2] \in {trips[t].id : t \in DOMAIN trips}
                           THEN <<"trip", PositionOf([t \in DOMAIN trips |-> trips[t].id], side[2])>>
                           ELSE <<"void">>

RulesOfRow(feed, trips, row) ==
  LET first == SideChosen(feed, trips, row.first)
      second == SideChosen(feed, trips, row.second)
  IN  IF <<"void">> \in {first, second} THEN {}
      ELSE {[from |-> a, to |-> b, first |-> first, second |-> second,
             forbidden |-> row.forbidden, minimum |-> row.minimum] :
              a \in StopsNamed(feed, row.from), b \in StopsNamed(feed, row.to)}

Scope(rule) == <<rule.from, rule.to, rule.first, rule.second>>

TransferRules(feed, trips) == UNION {RulesOfRow(feed, trips, row) : row \in Range(feed.transfers)}

RulesFail(feed, trips) ==
  \/ \E row \in Range(feed.transfers) : RowRefused(feed, row)
  \/ \E m, n \in DOMAIN feed.transfers :
       m # n /\ \E a \in RulesOfRow(feed, trips, feed.transfers[m]), b \in RulesOfRow(feed, trips, feed.transfers[n]) :
         Scope(a) = Scope(b)

-----------------------------------------------------------------------------
(* The import.                                                             *)

Failed == [failed |-> TRUE]

Assembled(feed, trips, rows, runs) ==
  [failed |-> FALSE, origin |-> TimeOrigin(feed), stops |-> feed.stops, routes |-> feed.routes,
   trips |-> [t \in DOMAIN trips |-> [id |-> trips[t].id, route |-> PositionOf(feed.routes, trips[t].route)]],
   connections |-> ConnectionsOf(feed, trips, rows, runs),
   rules |-> TransferRules(feed, trips), walks |-> {}]

Scheduled(feed, active, trips, given) ==
  IF (\E t \in DOMAIN trips : RowsFail(given[t])) \/ RulesFail(feed, trips) THEN Failed
  ELSE The({The({Assembled(feed, trips, rows, runs) : runs \in {VehicleRuns(feed, trips, active, rows)}}) :
              rows \in {[t \in DOMAIN trips |-> Interpolated(given[t])] @@ << >>}})

Imported(feed) ==
  The({The({Scheduled(feed, active, trips, [t \in DOMAIN trips |-> StopTimes(feed, trips[t].id)] @@ << >>) :
              trips \in {ParsedTrips(feed, active)}}) : active \in {ActiveServices(feed)}})

-----------------------------------------------------------------------------
(* Scenarios.  A line gives for each stop the ride from the stop before,   *)
(* estimated from the distance when blank, and how long vehicles dwell.    *)

Distinct(seq) == FoldLeft(LAMBDA done, x : IF x \in Range(done) THEN done ELSE Append(done, x), << >>, seq)

Valid(scenario, base) ==
  LET known == Range(scenario.stops) \cup Range(base)
  IN  /\ IsInjective(scenario.stops) /\ Range(scenario.stops) \cap Range(base) = {}
      /\ IsInjective([n \in DOMAIN scenario.lines |-> scenario.lines[n].id])
      /\ \A line \in Range(scenario.lines) :
           /\ Len(line.stops) >= 2 /\ line.services # << >>
           /\ \A n \in DOMAIN line.stops : line.stops[n].stop \in known
           /\ \A n \in 1 .. Len(line.stops) - 1 : line.stops[n].stop # line.stops[n + 1].stop
           /\ \A service \in Range(line.services) :
                /\ service.weekdays # {} /\ (service.windows # << >> \/ service.departures # << >>)
                /\ \A w \in Range(service.windows) : w.headway > 0 /\ w.from <= w.to
      /\ scenario.alone => scenario.removed = {}

SegmentTravel(scenario, line, n) ==
  IF line.stops[n].travel # Blank THEN line.stops[n].travel
  ELSE scenario.ride[{line.stops[n - 1].stop, line.stops[n].stop}]

\* Times since the first departure, listed direction; terminals do not dwell.
LineTiming(scenario, line) ==
  LET last == Len(line.stops)
      timed[n \in 1 .. last] ==
        LET arr == IF n = 1 THEN 0 ELSE timed[n - 1].dep + SegmentTravel(scenario, line, n)
        IN  [stop |-> line.stops[n].stop, arr |-> arr, dep |-> arr + IF n \in {1, last} THEN 0 ELSE line.stops[n].dwell]
  IN  timed

\* The other direction: the same rides and dwells from the end.
ReverseTiming(forward) ==
  LET last == Len(forward)
      timed[n \in 1 .. last] ==
        LET m == last + 1 - n
            arr == IF n = 1 THEN 0 ELSE timed[n - 1].dep + forward[m + 1].arr - forward[m].dep
        IN  [stop |-> forward[m].stop, arr |-> arr,
             dep |-> arr + IF n \in {1, last} THEN 0 ELSE forward[m].dep - forward[m].arr]
  IN  timed

Directions(scenario, line) ==
  LET forward == [n \in DOMAIN line.stops |-> LineTiming(scenario, line)[n]] @@ << >>
  IN  IF line.both THEN <<forward, ReverseTiming(forward)>> ELSE <<forward>>

ServiceDepartures(service) ==
  Ascending(Range(service.departures)
            \cup UNION {{w.from + k * w.headway : k \in 0 .. (w.to - w.from) \div w.headway} : w \in Range(service.windows)})

\* The scenario as a feed, in the days of the base.
GtfsFiles(scenario, feed) ==
  LET lines == scenario.lines
      named(l, s) == <<lines[l].id, s>>
      tripsOf(l, s, d) ==
        [k \in DOMAIN ServiceDepartures(lines[l].services[s]) |->
           [id |-> <<lines[l].id, s, d, k>>, route |-> lines[l].id, service |-> named(l, s)]]
      timesOf(l, s, d) ==
        LET timed == Directions(scenario, lines[l])[d]
            departures == ServiceDepartures(lines[l].services[s])
        IN  FlattenSeq([k \in DOMAIN departures |->
              [n \in DOMAIN timed |->
                 [trip |-> <<lines[l].id, s, d, k>>, stop |-> timed[n].stop, sequence |-> n,
                  arr |-> departures[k] + timed[n].arr, dep |-> departures[k] + timed[n].dep,
                  pickup |-> TRUE, drop |-> TRUE]]])
      each(what(_, _, _)) ==
        FlattenSeq([l \in DOMAIN lines |->
          FlattenSeq([s \in DOMAIN lines[l].services |->
            FlattenSeq([d \in DOMAIN Directions(scenario, lines[l]) |-> what(l, s, d)])])])
  IN  [first |-> feed.first, days |-> feed.days, noon |-> feed.noon, midnight |-> feed.midnight,
       stops |-> Distinct(FlattenSeq([l \in DOMAIN lines |-> [n \in DOMAIN lines[l].stops |-> lines[l].stops[n].stop]])
                          \o scenario.stops),
       routes |-> [l \in DOMAIN lines |-> lines[l].id],
       calendar |-> FlattenSeq([l \in DOMAIN lines |->
                      [s \in DOMAIN lines[l].services |->
                         [service |-> named(l, s), weekdays |-> lines[l].services[s].weekdays,
                          from |-> feed.first, to |-> feed.first + feed.days - 1]]]),
       parent |-> [stop \in Range(feed.stops) \cup Range(scenario.stops) |-> None],
       exceptions |-> << >>, trips |-> each(tripsOf), stopTimes |-> each(timesOf),
       frequencies |-> << >>, transfers |-> << >>]

\* Runs of removed routes go, runs of the overlay come after all of the base.
MergedConnections(base, overlay, stopMap, removed, offset) ==
  LET kept == SelectSeq(base.connections, LAMBDA c : base.routes[c.route] \notin removed)
      added == [n \in DOMAIN overlay.connections |->
                  LET c == overlay.connections[n]
                  IN  [c EXCEPT !.run = @ + offset, !.trip = @ + Len(base.trips), !.route = @ + Len(base.routes),
                                !.from = stopMap[@], !.to = stopMap[@]]]
  IN  The({ByDeparture(all) : all \in {kept \o added}})

LastRun(base) == Max({0} \cup {c.run : c \in Range(base.connections)})

\* As if the runs that stay were counted.
MergedRunsOver(base, overlay, removed) ==
  LET new == SelectSeq(overlay.stops, LAMBDA stop : stop \notin Range(base.stops))
      stops == base.stops \o new
      stopMap == [n \in DOMAIN overlay.stops |-> PositionOf(stops, overlay.stops[n])]
      stays == {c.run : c \in {c \in Range(base.connections) : base.routes[c.route] \notin removed}}
  IN  [failed |-> FALSE, origin |-> base.origin, stops |-> stops, routes |-> base.routes \o overlay.routes,
       trips |-> base.trips \o [n \in DOMAIN overlay.trips |-> [overlay.trips[n] EXCEPT !.route = @ + Len(base.routes)]],
       connections |-> MergedConnections(base, overlay, stopMap, removed, Cardinality(stays)),
       rules |-> base.rules, walks |-> base.walks]

MergedOverlay(base, overlay, removed) ==
  LET new == SelectSeq(overlay.stops, LAMBDA stop : stop \notin Range(base.stops))
      stops == base.stops \o new
      stopMap == [n \in DOMAIN overlay.stops |-> PositionOf(stops, overlay.stops[n])]
  IN  [failed |-> FALSE, origin |-> base.origin, stops |-> stops, routes |-> base.routes \o overlay.routes,
       trips |-> base.trips \o [n \in DOMAIN overlay.trips |-> [overlay.trips[n] EXCEPT !.route = @ + Len(base.routes)]],
       connections |-> MergedConnections(base, overlay, stopMap, removed, LastRun(base)),
       rules |-> base.rules, walks |-> base.walks]

\* A scenario that stands alone has no base: its feed is empty but for the days.
ScenarioBundle(scenario, feed) ==
  LET built(base, overlay) ==
        CASE base.failed \/ overlay.failed -> Failed
          [] ~base.failed /\ ~overlay.failed /\ scenario.alone -> overlay
          [] OTHER -> IF ~scenario.removed \subseteq Range(feed.routes) THEN Failed
                      ELSE MergedOverlay(base, overlay, scenario.removed)
  IN  IF ~Valid(scenario, feed.stops) THEN Failed
      ELSE The({built(base, overlay) : base \in {Imported(feed)},
                                overlay \in {Imported(files) : files \in {GtfsFiles(scenario, feed)}}})

-----------------------------------------------------------------------------
(* Patterns: the stop sequences of a route, with the times of their first  *)
(* run and how many runs they have.                                        *)

RunsOn(bundle, route) ==
  IF route \notin Range(bundle.routes) THEN {}
  ELSE {c.run : c \in {c \in Range(bundle.connections) : c.route = PositionOf(bundle.routes, route)}}

HopsOf(bundle, run) == SelectSeq(bundle.connections, LAMBDA c : c.run = run)

StopsOf(hops) == <<hops[1].from>> \o [n \in DOMAIN hops |-> hops[n].to]

RoutePatterns(bundle, route) ==
  LET runs == RunsOn(bundle, route)
      pattern(stops) ==
        LET same == {r \in runs : StopsOf(HopsOf(bundle, r)) = stops}
            hops == HopsOf(bundle, Min(same))
            offset(t) == t - hops[1].dep
        IN  [count |-> Cardinality(same),
             stops |-> [n \in 1 .. Len(hops) + 1 |->
               [stop |-> bundle.stops[stops[n]],
                arr |-> IF n = 1 THEN 0 ELSE offset(hops[n - 1].arr),
                dep |-> IF n = Len(hops) + 1 THEN offset(hops[n - 1].arr) ELSE offset(hops[n].dep)]]]
  IN  {pattern(stops) : stops \in {StopsOf(HopsOf(bundle, r)) : r \in runs}}

-----------------------------------------------------------------------------
FeedInit ==
  /\ request \in Sources
  /\ net = None /\ index = None
  /\ phase = "feed"
  /\ scan = NoScan /\ found = << >> /\ answer = << >>

BuildFeed ==
  /\ phase = "feed"
  /\ net' \in {IF request.scenario = << >> THEN Imported(request.feed)
               ELSE ScenarioBundle(request.scenario[1], request.feed)}
  /\ index' \in {IF net'.failed THEN None ELSE RunLinks'}
  /\ phase' = "built"
  /\ UNCHANGED <<request, scan, found, answer>>

-----------------------------------------------------------------------------
(* Reference: what the files and the drawing say, run by run.              *)

\* The last exception of a day, else the calendar.
RunsOnDay(feed, service, day) ==
  LET said == SelectSeq(feed.exceptions, LAMBDA row : row.service = service /\ row.day = day /\ row.kind \in {1, 2})
  IN  IF said # << >> THEN Last(said).kind = 1
      ELSE \E row \in Range(feed.calendar) : /\ row.service = service /\ row.from <= day /\ day <= row.to
                                             /\ Weekday(day) \in row.weekdays

RowsOf(feed, trip) ==
  SetToSortSeq({row \in Range(feed.stopTimes) : row.trip = trip /\ row.stop \in Range(feed.stops)},
               LAMBDA a, b : a.sequence < b.sequence)

\* start is when the first stop is left, counted from noon less half a day.
FilePlans(feed) ==
  LET starts(trip) ==
        IF \E w \in Range(feed.frequencies) : w.trip = trip /\ w.headway > 0 /\ w.from < w.to
        THEN {<<n, t>> \in (DOMAIN feed.frequencies) \X (0 .. Infinity) :
                LET w == feed.frequencies[n]
                IN  w.trip = trip /\ w.headway > 0 /\ w.from <= t /\ t < w.to /\ (t - w.from) % w.headway = 0}
        ELSE {<<0, RowsOf(feed, trip)[1].dep>>}
  IN  UNION {{[trip |-> trip.id, route |-> trip.route, rows |-> RowsOf(feed, trip.id), day |-> day, start |-> start] :
                start \in starts(trip.id)} :
              <<trip, day>> \in {<<trip, day>> \in Range(feed.trips) \X ServiceDates(feed) :
                 /\ RunsOnDay(feed, trip.service, day) /\ trip.route \in Range(feed.routes)
                 /\ Len(RowsOf(feed, trip.id)) > 1}}

Sum(f, S) == MapThenSumSet(LAMBDA x : f[x], S)

\* A line in one direction: rides and dwells added up along the way.
DrawnRows(scenario, line, reversed) ==
  LET last == Len(line.stops)
      place(n) == IF reversed THEN last + 1 - n ELSE n
      ride == [n \in 2 .. last |-> SegmentTravel(scenario, line, IF reversed THEN last + 2 - n ELSE n)] @@ << >>
      dwell == [n \in 2 .. last - 1 |-> line.stops[place(n)].dwell]
      arr(n) == Sum(ride, 2 .. n) + Sum(dwell, 2 .. n - 1)
  IN  [n \in 1 .. last |-> [stop |-> line.stops[place(n)].stop, arr |-> arr(n), pickup |-> TRUE, drop |-> TRUE,
                            dep |-> arr(n) + IF n \in {1, last} THEN 0 ELSE dwell[n]]]

DrawnPlans(scenario, feed) ==
  UNION {LET line == scenario.lines[l]
             service == line.services[s]
             leaves == {t \in 0 .. Infinity :
                          \/ t \in Range(service.departures)
                          \/ \E w \in Range(service.windows) : w.from <= t /\ t <= w.to /\ (t - w.from) % w.headway = 0}
             ways == IF line.both THEN {FALSE, TRUE} ELSE {FALSE}
         IN  {[trip |-> <<line.id, s, IF way THEN 2 ELSE 1>>, route |-> line.id, day |-> day, start |-> <<0, t>>,
               rows |-> DrawnRows(scenario, line, way)] :
                t \in leaves, way \in ways, day \in {d \in ServiceDates(feed) : Weekday(d) \in service.weekdays}} :
           <<l, s>> \in {<<l, s>> \in (DOMAIN scenario.lines) \X (1 .. 3) : s \in DOMAIN scenario.lines[l].services}}

Plans ==
  IF request.scenario = << >> THEN FilePlans(request.feed)
  ELSE DrawnPlans(request.scenario[1], request.feed)
       \cup {plan \in FilePlans(request.feed) : plan.route \notin request.scenario[1].removed}

ArrOf(row) == IF row.arr = Blank THEN row.dep ELSE row.arr
DepOf(row) == IF row.dep = Blank THEN row.arr ELSE row.dep

\* t is when a row arrives (or departs); blanks are driven steadily, to the
\* nearest second.
Timed(rows, n, t, given) ==
  IF given # Blank THEN t = given
  ELSE LET known == {m \in DOMAIN rows : ArrOf(rows[m]) # Blank}
           a == Max({m \in known : m < n})
           b == Min({m \in known : m > n})
           from == DepOf(rows[a])
           to == ArrOf(rows[b])
           off == 2 * ((t - from) * (b - a) - (to - from) * (n - a))
       IN  -(b - a) <= off /\ off <= b - a

\* A vehicle of the timetable, hop by hop as its run is linked.
Vehicle ==
  LET hops[c \in Connections] == IF index.next[c] = None THEN <<c>> ELSE <<c>> \o hops[index.next[c]]
  IN  [c \in {c \in Connections : index.previous[c] = None} |-> hops[c]] @@ << >>

Drives(hops, plan) ==
  LET rows == plan.rows
      first == DepOf(rows[1])
      day == request.feed.noon[plan.day] - HalfDay - net.origin
      fileTime(t) == t - day - plan.start[2] + first
  IN  /\ Len(hops) = Len(rows) - 1
      /\ net.routes[Conn(hops[1]).route] = plan.route
      /\ Conn(hops[1]).dep = day + plan.start[2]
      /\ \A n \in DOMAIN hops :
           LET c == Conn(hops[n])
           IN  /\ net.stops[c.from] = rows[n].stop /\ net.stops[c.to] = rows[n + 1].stop
               /\ c.pickup = rows[n].pickup /\ c.drop = rows[n + 1].drop
               /\ Timed(rows, n, fileTime(c.dep), DepOf(rows[n])) /\ Timed(rows, n + 1, fileTime(c.arr), ArrOf(rows[n + 1]))
      /\ \A n \in DOMAIN hops : Conn(hops[n]).run = Conn(hops[1]).run

\* What a row of transfers says of a change between two vehicles.
RowApplies(row, c, d) ==
  LET stopFits(name, stop) == net.stops[stop] = name \/ request.feed.parent[net.stops[stop]] = name
      sideFits(side, b) == CASE side[1] = "any" -> TRUE
                             [] side[1] = "route" -> net.routes[Conn(b).route] = side[2]
                             [] side[1] = "trip" -> net.trips[Conn(b).trip].id = side[2]
  IN  /\ stopFits(row.from, Conn(c).to) /\ stopFits(row.to, Conn(d).from)
      /\ sideFits(row.first, c) /\ sideFits(row.second, d)

(* The timetable that is built drives each vehicle that the files, or the     *)
(* drawing on top of the routes kept of its base, say once for every day and  *)
(* start, at their times and as one chain of connections, and nothing else;   *)
(* the patterns of a drawn line are the lines drawn; a change is allowed as   *)
(* the most specific row of transfers says.                                   *)
BuiltAsPlanned ==
  phase = "built" /\ ~net.failed =>
    \E vehicle \in {Vehicle} : \E plans \in {Plans} :
      /\ Cardinality({Conn(c).run : c \in DOMAIN vehicle}) = Cardinality(DOMAIN vehicle)
      /\ Cardinality(DOMAIN vehicle) = Cardinality(plans)
      /\ \A plan \in plans :
           LET same == {p \in plans : p.trip = plan.trip /\ p.day = plan.day /\ p.start[2] = plan.start[2]}
           IN  Cardinality({c \in DOMAIN vehicle : Drives(vehicle[c], plan)}) >= Cardinality(same)
      /\ \A c \in DOMAIN vehicle : \E plan \in plans : Drives(vehicle[c], plan)
      /\ request.scenario # << >> =>
           \A line \in Range(request.scenario[1].lines) : \A way \in {FALSE} \cup {line.both} :
             LET rows == DrawnRows(request.scenario[1], line, way)
             IN  line.id \notin Range(request.feed.routes) =>
                   \/ ~\E plan \in plans : plan.route = line.id
                   \/ \E pattern \in RoutePatterns(net, line.id) :
                     /\ pattern.stops = [n \in DOMAIN rows |-> [stop |-> rows[n].stop, arr |-> rows[n].arr, dep |-> rows[n].dep]]
                     /\ pattern.count = Cardinality({plan \in plans : plan.route = line.id /\ plan.rows = rows})
      /\ \A c, d \in Connections :
           LET rows == {n \in DOMAIN request.feed.transfers : RowApplies(request.feed.transfers[n], c, d)}
               rank(n) == Specificity(request.feed.transfers[n])
               best == {n \in rows : \A m \in rows : rank(m) <= rank(n)}
           IN  /\ Ambiguous(c, d) <=> Cardinality(best) > 1
               /\ Allows(c, d) <=> \A n \in best :
                    ~request.feed.transfers[n].forbidden /\ Conn(d).dep - Conn(c).arr >= request.feed.transfers[n].minimum
=============================================================================
