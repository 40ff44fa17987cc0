----------------------------- MODULE TimeSearch -----------------------------
(***************************************************************************)
(* Routes whose edges open, close and change their speed with the clock    *)
(* (query, temporal.rs), and routes within budgets of a cost component     *)
(* (query, pareto.rs), one settled label at a time.                        *)
(*                                                                         *)
(*   earliest    the first arrival; its route is the one to beat           *)
(*   cheapest    labels of cost and arrival, departing at a given time     *)
(*   latest      windows of entry times searched back from a deadline      *)
(*   components  labels of cost and a component, with or without a clock;  *)
(*               towards a deadline repeated for one departure after the   *)
(*               other, the newest first                                   *)
(*                                                                         *)
(* Time is counted in ticks of which Minute make a minute, and a network's *)
(* `second` a second: rules change with the minute, a departure or the     *)
(* duration of an edge may end within a second, and a wait counts whole    *)
(* seconds.  A tick also stands for the nanosecond before or after.        *)
(***************************************************************************)
EXTENDS RestrictionAutomaton

CONSTANTS Minute,        \* ticks in a minute
          Day,           \* ticks in a day
          Horizon,       \* the last tick of the instance
          Networks, QueriesOn(_),
          Longest        \* edges of the longest walk of the reference

Parts == 2               \* an edge is cut into this many parts to snap to
NoEdge == 0
Shut  == 99              \* not an octave: an edge that cannot be entered

VARIABLES net,           \* the network, its rules and its profile
          regime,        \* the octave of speed of every edge at every tick
          aut, reverse,  \* the automata of forbidden sequences, both ways
          q, phase, kind,
          labels, open,  \* labels kept, and those of them not settled
          best,          \* best route known, or None
          segments,      \* what entering an edge leads to, within the window searched
          found,         \* routes that reached the destination
          departures     \* departures still to be tried
vars == <<net, regime, aut, reverse, q, phase, kind, labels, open, best, found, segments, departures>>

Edges == DOMAIN net.roads
Ticks == 0 .. Horizon
None  == [route |-> << >>, cost |-> Infinity, departure |-> 0, arrival |-> Infinity, value |-> 0]

-----------------------------------------------------------------------------
(* Rules of opening and speed.                                             *)

\* A holiday counts as one, unless the rule keeps it a day of the week too.
DayMatches(rule, d) ==
  /\ d \in rule.dates
  /\ IF d \in net.holidays /\ ~rule.keepsWeekday THEN rule.onHolidays
     ELSE d % net.week \in rule.weekdays \/ (d \in net.holidays /\ rule.onHolidays)

RuleActiveToday(rule, t) ==
  LET today == t \div Day
      clock == t % Day
  IN  \/ rule.intervals = {} /\ DayMatches(rule, today)
      \/ \E i \in rule.intervals :
           /\ DayMatches(rule, today)
           /\ IF i[1] <= i[2] THEN clock \in i[1] .. i[2] - 1 ELSE clock >= i[1] \/ clock < i[2]

\* An interval over midnight belongs to the day on which it starts.
RuleActive(rule, t) ==
  LET today == t \div Day
      clock == t % Day
  IN  \/ rule.intervals = {} /\ DayMatches(rule, today)
      \/ \E i \in rule.intervals :
           IF i[1] <= i[2] THEN DayMatches(rule, today) /\ clock \in i[1] .. i[2] - 1
           ELSE \/ clock >= i[1] /\ DayMatches(rule, today)
                \/ clock < i[2] /\ DayMatches(rule, today - 1)

TimeVarying(rule) == rule.varies

EffectiveRules(e) ==
  (IF net.scenario[e].replaces THEN {} ELSE net.rules[e]) \cup net.scenario[e].rules

\* A rule that closes the edge, or its direction; outside of every opening;
\* otherwise the factors of speed multiply, so that their octaves add up.
EvaluateRules(rules, forward, base, t) ==
  LET active == {r \in rules : RuleActive(r, t)}
      is(effect) == {r \in active : r.effect = effect}
  IN  IF \/ is("closed") # {}
         \/ is("forwardOnly") # {} /\ ~forward
         \/ is("backwardOnly") # {} /\ forward
         \/ is("openOnly") = {} /\ \E r \in rules : r.effect = "openOnly"
      THEN Shut
      ELSE base + MapThenSumSet(LAMBDA r : r.octave, is("speed"))

\* Directions that exist only for scenarios need one that turns traffic round.
EnablesDirection(s) == s.opens \/ \E r \in s.rules : r.effect \in {"forwardOnly", "backwardOnly"}

Regime(e, t) ==
  LET s == net.scenario[e]
  IN  IF s.closes \/ (e \in net.materialized /\ ~EnablesDirection(s)) THEN Shut
      ELSE IF s.opens THEN s.octave
      ELSE EvaluateRules(EffectiveRules(e), net.forward[e], s.octave, t)

VaryingRules(e) == ~net.scenario[e].opens /\ \E r \in EffectiveRules(e) : TimeVarying(r)
VaryingSpeed(e) == ~net.scenario[e].opens /\ \E r \in EffectiveRules(e) : TimeVarying(r) /\ r.effect = "speed"

\* Vehicles do not wait at a junction for a restriction to lift.
TurnRestricted(e, f, t) ==
  \E turn \in net.turns : turn.from = e /\ turn.to = f /\ EvaluateRules(turn.rules, TRUE, 0, t) = Shut

-----------------------------------------------------------------------------
(* One edge.                                                               *)

Share(amount, part) == (amount * part) \div Parts

Scaled(n, octave) == IF octave >= 0 THEN n \div 2 ^ octave ELSE n * 2 ^ (-octave)

Duration(e, part, t) == Scaled(Share(net.time[e], part), regime[<<e, t>>])
IsOpen(e, t) == regime[<<e, t>>] # Shut

\* Until when a later entry may be chosen: while waiting is allowed, else until
\* an immediate entry would have left the edge.
EntriesUntil(e, t, part) ==
  IF IsOpen(e, t) /\ ~VaryingSpeed(e) THEN t
  ELSE IF net.maxWait > 0 /\ VaryingRules(e) THEN t + net.maxWait
  ELSE IF IsOpen(e, t) THEN t + Duration(e, part, t)
  ELSE t

\* At once or in a later minute, whichever leaves the edge first.  The wait for
\* a minute is a number of whole seconds: it ends as far behind the minute as
\* it began behind its second.
Entry(e, t, part) ==
  LET last    == IF t \in Ticks THEN Least({EntriesUntil(e, t, part), Horizon}) ELSE t - 1
      entries == {m \in t .. last :
                    (m = t \/ m % Minute = t % net.second) /\ IsOpen(e, m)}
      exit(m) == m + Duration(e, part, m)
  IN  {m \in entries : \A n \in entries : exit(m) < exit(n) \/ (exit(m) = exit(n) /\ m <= n)}

\* An overlay's value is 0 or 1 for each minute; without a clock it is 0.
OverlayFactor(e, t) ==
  CASE net.overlay = "none" -> 1
    [] net.overlay = "plain" -> IF <<e, t \div Minute>> \in net.overlaid THEN 1 ELSE 0
    [] net.overlay = "inverted" -> IF <<e, t \div Minute>> \in net.overlaid THEN 0 ELSE 1
StaticFactor == IF net.overlay = "plain" THEN 0 ELSE 1

\* The ways to go along e from t on: one, or none.
Traversals(e, t, part) ==
  {LET usual  == Share(net.time[e], part)
       travel == Duration(e, part, m)
       static == Share(net.value[e], part)
       value  == OverlayFactor(e, m) * (IF net.scales THEN Scaled(static, regime[<<e, m>>]) ELSE static)
   IN  [exit  |-> m + travel, value |-> value,
        cost  |-> Share(net.cost[e], part) + net.timeWeight * (travel - usual + m - t)
                  + net.valueWeight * (value - StaticFactor * static)] :
     m \in Entry(e, t, part)}

\* The same for a request without a time, which ignores the clock.
StaticTraversals(e, t, part) ==
  {[exit |-> t, value |-> StaticFactor * Share(net.value[e], part), cost |-> Share(net.cost[e], part)]}

Ways(e, t, part) == IF q.mode = "static" THEN StaticTraversals(e, t, part) ELSE Traversals(e, t, part)

-----------------------------------------------------------------------------
(* Labels.                                                                 *)

NoPart == -1

\* The part of the edge up to the destination, if it ends there.
DestinationPart(e) ==
  IF q.destination.edge # NoEdge
  THEN IF e = q.destination.edge THEN q.destination.part ELSE NoPart
  ELSE IF net.roads[e][2] = q.destination.node THEN Parts ELSE NoPart

IsTarget(e) == DestinationPart(e) # NoPart
TargetPart(e, otherwise) == IF IsTarget(e) THEN DestinationPart(e) ELSE otherwise

OriginParts ==
  IF q.origin.edge # NoEdge THEN {<<q.origin.edge, Parts - q.origin.part>>}
  ELSE {<<e, Parts>> : e \in {e \in Edges : net.roads[e][1] = q.origin.node}}

Label(e, state, x, before) ==
  [edge |-> e, state |-> state, arrival |-> x.exit, cost |-> before.cost + x.cost,
   value |-> before.value + x.value, route |-> Append(before.route, e)]

Nothing == [cost |-> 0, value |-> 0, route |-> << >>]

FirstLabels(e, departure, part) ==
  {Label(e, aut.transition[<<Root, e>>], x, Nothing) : x \in Ways(e, departure, part)}

\* The labels one edge further, along that part of it.
Onward(l, e, part) ==
  LET turn  == <<l.edge, e>>
      until == [l EXCEPT !.cost = @ + net.timeWeight * net.turnTime[turn] + net.gate[turn]]
  IN  {Label(e, aut.transition[<<l.state, e>>], x, until) :
         x \in IF q.mode = "static" THEN StaticTraversals(e, l.arrival, part)
               ELSE IF TurnRestricted(l.edge, e, l.arrival) THEN {}
               ELSE Traversals(e, l.arrival + net.turnTime[turn], part)}

Seeds(departure) == UNION {FirstLabels(s[1], departure, TargetPart(s[1], s[2])) : s \in OriginParts}

FollowFreely(l) ==
  UNION {Onward(l, e, TargetPart(e, Parts)) : e \in {e \in Edges : <<l.edge, e>> \in DOMAIN net.turnTime}}

Follow(l) ==
  UNION {Onward(l, e, TargetPart(e, Parts)) :
           e \in {e \in Edges : <<l.edge, e>> \in DOMAIN net.turnTime /\ aut.prohibited[<<l.state, e>>] = 0}}

-----------------------------------------------------------------------------
(* Searches that depart.                                                   *)

Sooner(k, l) == k.arrival < l.arrival \/ (k.arrival = l.arrival /\ k.cost < l.cost)

CoversOnCost(k, l) ==
  CASE kind = "earliest"   -> ~Sooner(l, k)
    [] kind = "cheapest"   -> k.cost <= l.cost /\ k.arrival <= l.arrival
    [] kind = "components" -> k.cost <= l.cost

CoversOnArrival(k, l) ==
  CASE kind = "earliest"   -> ~Sooner(l, k)
    [] kind = "cheapest"   -> k.arrival <= l.arrival
    [] kind = "components" -> FALSE

\* What may be forgotten because of k.
Covers(k, l) ==
  CASE kind = "earliest"   -> ~Sooner(l, k)
    [] kind = "cheapest"   -> k.cost <= l.cost /\ k.arrival <= l.arrival
    [] kind = "components" -> /\ k.cost <= l.cost /\ k.value <= l.value
                              /\ q.mode # "static" => k.arrival <= l.arrival

Better(k, l) == IF kind = "earliest" THEN Sooner(k, l) ELSE k.cost < l.cost

\* Keeps a label unless it is covered; full once a state has too many.
Kept(l, known) ==
  LET same  == {k \in known.labels : k.edge = l.edge /\ k.state = l.state}
      stale == {k \in same : Covers(l, k)}
  IN  IF \E k \in same : Covers(k, l) THEN known
      ELSE [labels |-> (known.labels \ stale) \cup {l},
            open   |-> (known.open \ stale) \cup {l},
            full   |-> known.full \/ (kind # "earliest" /\ Cardinality(same \ stale) >= q.maxLabels)]

Route(l, departure) ==
  [route |-> l.route, cost |-> l.cost, departure |-> departure, arrival |-> l.arrival, value |-> l.value]

\* New labels, and those already known: the first within the budget, the best
\* of them that ends at the destination, and the rest that is not too dear.
Absorb(new, oldLabels, oldOpen, departure) ==
  LET within == {l \in new : l.value <= q.budget}
      ends   == {Route(l, departure) : l \in {l \in within : IsTarget(l.edge)}}
  IN  /\ best' \in {b \in ends \cup {best} :
                      \A c \in ends \cup {best} : ~Better(c, b) /\ (b # best => Better(b, best))}
      /\ found' = IF kind = "components" THEN found \cup ends ELSE found
      /\ LET onward == {l \in within : ~IsTarget(l.edge) /\ (kind = "cheapest" => l.cost < best'.cost)}
             known  == FoldSet(Kept, [labels |-> oldLabels, open |-> oldOpen, full |-> FALSE], onward)
         IN  /\ labels' = known.labels /\ open' = known.open
             /\ phase' = IF known.full THEN "full" ELSE "search"

Identical == q.origin.edge = NoEdge /\ q.destination.edge = NoEdge /\ q.origin.node = q.destination.node
SameEdge  == q.origin.edge # NoEdge /\ q.origin.edge = q.destination.edge /\ q.origin.part <= q.destination.part
Between   == q.destination.part - q.origin.part

Standing(t) == [None EXCEPT !.cost = 0, !.departure = t, !.arrival = t]

DirectRoutes(departure) == {Route(l, departure) : l \in FirstLabels(q.origin.edge, departure, Between)}

Departure == Max(departures)
Departing == {"earliest", "cheapest", "components"}

Begin ==
  /\ phase = "begin" /\ kind \in Departing
  /\ IF Identical \/ SameEdge
     THEN LET routes == IF Identical THEN {Standing(Departure)}
                        ELSE {r \in DirectRoutes(Departure) : r.value <= q.budget}
          IN  /\ best' = IF routes = {} THEN None ELSE CHOOSE r \in routes : TRUE
              /\ found' = routes /\ labels' = {} /\ open' = {} /\ phase' = "search"
     ELSE Absorb(Seeds(Departure), {}, {}, Departure)
  /\ UNCHANGED <<net, regime, aut, reverse, q, kind, segments, departures>>

Key(l) == IF kind = "earliest" THEN l.arrival ELSE l.cost

Useful(l) ==
  CASE kind = "earliest"   -> l.arrival < best.arrival
    [] kind = "cheapest"   -> l.cost < best.cost
    [] kind = "components" -> TRUE

Settle ==
  /\ phase = "search" /\ kind \in Departing
  /\ \E l \in open : /\ \A k \in open : Key(l) <= Key(k)
                     /\ Useful(l)
                     /\ Absorb(Follow(l), labels, open \ {l}, Departure)
  /\ UNCHANGED <<net, regime, aut, reverse, q, kind, segments, departures>>

\* A route falls to one that is cheaper, or has less of the component for no
\* more cost where the frontier of both is asked for.
Frontier(routes) ==
  {r \in routes : ~\E o \in routes :
     /\ o.cost <= r.cost /\ (q.pareto => o.value <= r.value)
     /\ o.cost < r.cost \/ (q.pareto /\ o.value < r.value)}

\* Of a departure towards a deadline only what arrives in time counts.
InTime == {r \in Frontier(found) : q.mode = "arrive" => r.arrival <= q.time}

Finish ==
  /\ phase = "search" /\ kind \in Departing /\ ~\E l \in open : Useful(l)
  /\ \/ /\ kind = "earliest"
        /\ kind' = "cheapest" /\ phase' = IF best = None THEN "done" ELSE "begin"
        /\ UNCHANGED <<found, departures>>
     \/ /\ kind = "cheapest"
        /\ phase' = "done"
        /\ UNCHANGED <<kind, found, departures>>
     \/ /\ kind = "components" /\ (q.mode # "arrive" \/ InTime # {} \/ departures = {Departure})
        /\ found' = InTime /\ phase' = "done"
        /\ UNCHANGED <<kind, departures>>
     \/ /\ kind = "components" /\ q.mode = "arrive" /\ InTime = {} /\ departures # {Departure}
        /\ found' = {} /\ departures' = departures \ {Departure} /\ phase' = "begin"
        /\ UNCHANGED kind
  /\ labels' = {} /\ open' = {}
  /\ UNCHANGED <<net, regime, aut, reverse, q, segments, best>>

-----------------------------------------------------------------------------
(* The search back from a deadline.                                        *)

Window == q.time - q.lookback .. q.time

\* The intervals a set of ticks is made of.
Intervals(S) ==
  {w \in {from .. to : from \in {t \in S : t - 1 \notin S}, to \in {t \in S : t + 1 \notin S}} :
     w # {} /\ w \subseteq S}

\* Entries that leave the edge after a fixed time, or all at one time, having
\* entered it at entry.
Affine(entries, duration)      == [entries |-> entries, affine |-> TRUE, by |-> duration, entry |-> NoPart]
Constant(entries, entry, exit) == [entries |-> entries, affine |-> FALSE, by |-> exit, entry |-> entry]

Minutes     == {m \in Min(Window) - Minute + 1 .. Max(Window) : m % Minute = 0}
OfMinute(m) == (m .. m + Minute - 1) \cap Window
OpenMinutes(e) == {m \in Minutes : IsOpen(e, m)}

SteadySegments(e, part) ==
  IF IsOpen(e, Min(Window)) THEN {Affine(Window, Duration(e, part, Min(Window)))} ELSE {}

\* A closed minute waits for the next that is open.
OpeningSegments(e, part) ==
  LET waits(m) == {Constant(OfMinute(m) \cap (n - net.maxWait .. n), n, n + Duration(e, part, n)) :
                     n \in {n \in OpenMinutes(e) : n > m /\ \A o \in OpenMinutes(e) : o > m => n <= o}}
  IN  {Affine(OfMinute(m), Duration(e, part, m)) : m \in OpenMinutes(e)}
      \cup IF net.maxWait = 0 THEN {}
           ELSE UNION {waits(m) : m \in Minutes \ OpenMinutes(e)}

\* A minute is cut wherever another choice among going at once and the later
\* minutes becomes the first to leave.
SpeedSegments(e, part) ==
  LET ofMinute(m) ==
        LET here == OfMinute(m)
            end  == Max(here) + 1
            lag  == IF IsOpen(e, m) THEN Duration(e, part, m) ELSE 0
            horizon == IF net.maxWait > 0 THEN net.maxWait ELSE lag
            all     == IF net.maxWait = 0 /\ ~IsOpen(e, m) THEN {}
                       ELSE {[eligible |-> here \cap (n - horizon .. n), entry |-> n, exit |-> n + Duration(e, part, n)] :
                               n \in OpenMinutes(e)}
            options == {o \in all : o.eligible # {}}
            cuts == {Min(here), end} \cup {Min(o.eligible) : o \in options} \cup {Max(o.eligible) + 1 : o \in options}
                    \cup {c \in {o.exit - lag + 1 : o \in options} : IsOpen(e, m) /\ c \in Min(here) + 1 .. end - 1}
            pieces == {c .. d - 1 : c \in cuts, d \in cuts} \ {{}}
            whole(p) == \A c \in cuts : c \notin Min(p) + 1 .. Max(p)
            waits(p) == {o \in options : Min(p) \in o.eligible}
            first(p) == {o \in waits(p) : \A w \in waits(p) : o.exit < w.exit \/ (o.exit = w.exit /\ o.entry <= w.entry)}
            segment(p) == IF IsOpen(e, m) /\ \A o \in waits(p) : Min(p) + lag <= o.exit
                          THEN {Affine(p, lag)}
                          ELSE {Constant(p, o.entry, o.exit) : o \in first(p)}
        IN  UNION {segment(p) : p \in {p \in pieces : whole(p)}}
  IN  UNION {ofMinute(m) : m \in Minutes}

SegmentsOf(e, part) ==
  IF ~VaryingRules(e) THEN SteadySegments(e, part)
  ELSE IF VaryingSpeed(e) THEN SpeedSegments(e, part)
  ELSE OpeningSegments(e, part)

\* When to enter an edge to leave it within exits.
EntryWindows(e, part, exits) ==
  Intervals(UNION {IF s.affine THEN s.entries \cap {t - s.by : t \in exits}
                   ELSE IF s.by \in exits THEN s.entries ELSE {} : s \in segments[<<e, part>>]})

\* The parts of a window in which a turn is allowed, minute by minute.
AllowedExits(e, f, exits) ==
  {w \cap exits : w \in Intervals({t \in Window : ~TurnRestricted(e, f, (t \div Minute) * Minute)})} \ {{}}

WindowLabel(e, state, window, exits, after) ==
  [edge |-> e, state |-> state, window |-> window, exits |-> exits, route |-> <<e>> \o after.route, via |-> after.window]

DestinationLabels ==
  UNION {{WindowLabel(e, reverse.transition[<<Root, e>>], w, Window, [route |-> << >>, window |-> {}]) :
            w \in EntryWindows(e, DestinationPart(e), Window)} : e \in {e \in Edges : IsTarget(e)}}

Precede(l) ==
  LET before(e) == LET exits == {t - net.turnTime[<<e, l.edge>>] : t \in l.window}
                   IN  IF \E turn \in net.turns : turn.from = e /\ turn.to = l.edge
                       THEN AllowedExits(e, l.edge, exits) ELSE {exits}
      labelsAt(e) == UNION {{WindowLabel(e, reverse.transition[<<l.state, e>>], w, exits, l) :
                               w \in EntryWindows(e, Parts, exits)} : exits \in before(e)}
  IN  UNION {labelsAt(e) : e \in {e \in Edges : /\ <<e, l.edge>> \in DOMAIN net.turnTime
                                                /\ reverse.prohibited[<<l.state, e>>] = 0}}

KeptWindowOfState(l, known) ==
  LET state == {k \in known.labels : k.edge = l.edge /\ k.state = l.state}
      stale == {k \in state : k.window \subseteq l.window}
  IN  IF \E k \in state : l.window \subseteq k.window THEN known
      ELSE [labels |-> (known.labels \ stale) \cup {l},
            open   |-> (known.open \ stale) \cup {l},
            full   |-> known.full \/ Cardinality(state \ stale) >= q.maxLabels]

\* Only windows of the same way to the destination are compared: another way
\* may cost less.
KeptWindow(l, known) ==
  LET state == {k \in known.labels : k.edge = l.edge /\ k.state = l.state}
      same  == {k \in state : k.route = l.route /\ k.via = l.via}
      stale == {k \in same : k.window \subseteq l.window}
  IN  IF \E k \in same : l.window \subseteq k.window THEN known
      ELSE [labels |-> (known.labels \ stale) \cup {l},
            open   |-> (known.open \ stale) \cup {l},
            full   |-> known.full \/ Cardinality(state \ stale) >= q.maxLabels]

KeepWindows(new, oldLabels, oldOpen) ==
  LET known == FoldSet(KeptWindow, [labels |-> oldLabels, open |-> oldOpen, full |-> FALSE], new)
  IN  /\ labels' = known.labels /\ open' = known.open
      /\ phase' = IF known.full THEN "full" ELSE "search"

\* A way to the destination driven at a time of departure, if it can be.
Replayed(route, firstPart, departure) ==
  LET part(n) == IF n = 1 THEN firstPart ELSE TargetPart(route[n], Parts)
      after[n \in 1 .. Len(route)] ==
        IF n = 1 THEN FirstLabels(route[1], departure, firstPart)
        ELSE UNION {Onward(l, route[n], part(n)) : l \in after[n - 1]}
  IN  {r \in {Route(l, departure) : l \in after[Len(route)]} : r.arrival <= q.time}

\* The windows in which the origin can be left along a label.
OriginWindows(l) ==
  IF q.origin.edge # NoEdge
  THEN IF l.edge = q.origin.edge THEN EntryWindows(l.edge, Parts - q.origin.part, l.exits) ELSE {}
  ELSE IF net.roads[l.edge][1] = q.origin.node THEN {l.window} ELSE {}

FirstPart(l) == IF q.origin.edge # NoEdge THEN Parts - q.origin.part ELSE TargetPart(l.edge, Parts)

Later(r, o) == r.departure > o.departure \/ (r.departure = o.departure /\ r.cost < o.cost)

\* None departs before every route.
BestOf(routes) ==
  {r \in routes : \A o \in routes : ~Later(o, r)}

\* Entries into the edges of a route at which the value of an overlay changes,
\* on either side of the change, brought back to times of departure.
OverlayDepartures(route, firstPart, window) ==
  LET part(n) == IF n = 1 THEN firstPart ELSE TargetPart(route[n], Parts)
      overlaid(e, m) == <<e, m \div Minute>> \in net.overlaid
      changes(e) == {m \in Window : m > 0 /\ overlaid(e, m) # overlaid(e, m - 1)}
      entered(s, t) == IF s.affine THEN t ELSE s.entry
      side(n, m, earlier) == UNION {{t \in s.entries : (entered(s, t) < m) = earlier} : s \in segments[<<route[n], part(n)>>]}
      lastEntries(n, m) == {Max(w) : w \in Intervals(side(n, m, TRUE)) \cup Intervals(side(n, m, FALSE))}
      before(ticks, n) ==
        LET exits == {t - net.turnTime[<<route[n - 1], route[n]>>] : t \in ticks}
        IN  UNION UNION {EntryWindows(route[n - 1], part(n - 1), w) :
                           w \in UNION {AllowedExits(route[n - 1], route[n], x) : x \in Intervals(exits)}}
      back(n, t) == FoldLeft(before, {t}, [i \in 1 .. n - 1 |-> n + 1 - i])
      reached == UNION {Intervals(back(x[1], x[2])) :
                          x \in UNION {UNION {{n} \X lastEntries(n, m) : m \in changes(route[n])} : n \in DOMAIN route}}
  IN  IF net.overlay = "none" THEN {}
      ELSE {Max(w \cap window) : w \in {w \in reached : w \cap window # {}}}

\* Departures are tried later only for routes within a budget or on a frontier.
ForComponents == q.components

Depart(l, firstPart, windows) ==
  /\ best' \in BestOf({best} \cup UNION {Replayed(l.route, firstPart, Max(w)) : w \in windows})
  /\ departures' = IF ForComponents
                   THEN departures \cup {Max(w) : w \in windows}
                        \cup UNION {OverlayDepartures(l.route, firstPart, w) : w \in windows}
                   ELSE departures

BeginLatest ==
  /\ phase = "begin" /\ kind = "latest"
  /\ IF Identical
     THEN /\ best' = Standing(q.time) /\ departures' = {q.time}
          /\ phase' = "search" /\ UNCHANGED <<labels, open>>
     ELSE /\ IF SameEdge
             THEN Depart([route |-> <<q.origin.edge>>], Between, EntryWindows(q.origin.edge, Between, Window))
             ELSE UNCHANGED <<best, departures>>
          /\ KeepWindows(DestinationLabels, {}, {})
  /\ UNCHANGED <<net, regime, aut, reverse, q, kind, found, segments>>

UpperBound(l) == IF l.edge = q.origin.edge THEN Max(l.exits) ELSE Max(l.window)

Promising(l) == ForComponents \/ best = None \/ UpperBound(l) >= best.departure

\* A label at the origin leaves no reason to begin before it.
SettleWindow ==
  /\ phase = "search" /\ kind = "latest"
  /\ \E l \in open :
       /\ \A k \in open : UpperBound(l) >= UpperBound(k)
       /\ Promising(l)
       /\ Depart(l, FirstPart(l), OriginWindows(l))
       /\ KeepWindows(IF OriginWindows(l) # {} THEN {} ELSE Precede(l), labels, open \ {l})
  /\ UNCHANGED <<net, regime, aut, reverse, q, kind, found, segments>>

FinishLatest ==
  /\ phase = "search" /\ kind = "latest" /\ ~\E l \in open : Promising(l)
  /\ IF ForComponents /\ departures # {}
     THEN kind' = "components" /\ phase' = "begin" /\ best' = None
     ELSE phase' = "done" /\ UNCHANGED <<kind, best>>
  /\ labels' = {} /\ open' = {}
  /\ UNCHANGED <<net, regime, aut, reverse, q, found, segments, departures>>

-----------------------------------------------------------------------------
Init ==
  /\ net \in Networks
  /\ q \in QueriesOn(net)
  /\ regime = Tabulated([x \in Edges \X Ticks |-> Regime(x[1], x[2])])
  /\ aut = Automaton(net.sequences, Edges)
  /\ reverse = Automaton({Reverse(s) : s \in net.sequences}, Edges)
  /\ phase = "start" /\ kind = "none"
  /\ labels = {} /\ open = {} /\ best = None /\ found = {} /\ segments = << >> /\ departures = {}

\* Entering later for the sake of speed would change what an overlay counts.
SpeedsAreOverlaid ==
  \E e \in Edges : /\ VaryingSpeed(e) /\ net.value[e] # 0
                    /\ net.overlay # "none" /\ \E m \in 0 .. Horizon \div Minute : <<e, m>> \in net.overlaid

Refuse ==
  /\ phase = "start" /\ q.mode # "static" /\ SpeedsAreOverlaid
  /\ phase' = "refused"
  /\ UNCHANGED <<net, regime, aut, reverse, q, kind, labels, open, best, found, segments, departures>>

Start ==
  /\ phase = "start" /\ (q.mode = "static" \/ ~SpeedsAreOverlaid)
  /\ phase' = "begin"
  /\ kind' = CASE q.mode = "arrive" -> "latest"
               [] q.mode # "arrive" /\ q.components -> "components"
               [] OTHER -> "earliest"
  /\ IF q.mode = "arrive"
     THEN departures' = {} /\ segments' = Tabulated([x \in Edges \X (0 .. Parts) |-> SegmentsOf(x[1], x[2])])
     ELSE departures' = {q.time} /\ UNCHANGED segments
  /\ UNCHANGED <<net, regime, aut, reverse, q, labels, open, best, found>>

Next == Refuse \/ Start \/ Begin \/ Settle \/ Finish \/ BeginLatest \/ SettleWindow \/ FinishLatest

Spec == Init /\ [][Next]_vars

-----------------------------------------------------------------------------
(* Reference: all walks of at most Longest edges, driven one by one.       *)

Respects(route) ==
  \A s \in net.sequences : ~\E i \in 1 .. Len(route) - Len(s) + 1 : SubSeq(route, i, i + Len(s) - 1) = s

Following(e) == {f \in Edges : <<e, f>> \in DOMAIN net.turnTime}

Begun(departure) ==
  LET through[n \in 1 .. Longest] ==
        IF n = 1 THEN UNION {FirstLabels(s[1], departure, s[2]) : s \in OriginParts}
        ELSE through[n - 1] \cup
             UNION {UNION {Onward(l, e, Parts) : e \in Following(l.edge)} :
                      l \in {l \in through[n - 1] : Len(l.route) = n - 1 /\ l.arrival <= Horizon}}
  IN  through[Longest]

Walks(departure) ==
  LET last == UNION {UNION {Onward(l, e, DestinationPart(e)) : e \in {e \in Following(l.edge) : IsTarget(e)}} :
                       l \in Begun(departure)}
      single == IF q.origin.edge = NoEdge
                THEN UNION {FirstLabels(s[1], departure, DestinationPart(s[1])) : s \in {s \in OriginParts : IsTarget(s[1])}}
                ELSE IF SameEdge THEN FirstLabels(q.origin.edge, departure, Between) ELSE {}
  IN  IF Identical THEN {Standing(departure)}
      ELSE {r \in {Route(l, departure) : l \in last \cup single} : Respects(r.route)}

Allowed(departure) == {r \in Walks(departure) : r.value <= q.budget /\ (q.mode = "arrive" => r.arrival <= q.time)}

-----------------------------------------------------------------------------
(* Networks on which arriving earlier is never worse.                      *)

\* No edge is left earlier for having been entered later, or only then.
NetworkIsFifo ==
  /\ net.turns = {}
  /\ \A e \in Edges, part \in 1 .. Parts, t \in Ticks \ {0} :
       \A y \in Traversals(e, t, part) : \E x \in Traversals(e, t - 1, part) : x.exit <= y.exit

NothingVaries == net.turns = {} /\ net.overlay # "plain" /\ net.overlaid = {} /\ \A e \in Edges : ~VaryingRules(e)

CostIsTime ==
  /\ net.valueWeight = 0
  /\ \A e \in Edges : net.cost[e] = net.timeWeight * net.time[e]
  /\ \A a \in DOMAIN net.gate : net.gate[a] = 0

\* Nowhere in the window is a wait considered that begins within a second.
WaitsAreWhole ==
  \A e \in Edges, part \in 1 .. Parts, t \in Window : t % net.second = 0 \/ EntriesUntil(e, t, part) = t

-----------------------------------------------------------------------------
(* Where the labels of a budget or a frontier lose nothing.                *)

\* Who is nowhere behind another at an edge is nowhere behind further on.
NoneGetsAhead(departure) ==
  LET ahead(k, l) == k.cost <= l.cost /\ k.value <= l.value /\ k.arrival <= l.arrival
      known == Begun(departure)
  IN  \A k, l \in known : k # l /\ k.edge = l.edge /\ k.state = l.state /\ ahead(k, l) =>
        \A e \in Following(k.edge) : \A part \in {Parts, TargetPart(e, Parts)} :
          \A y \in Onward(l, e, part) : \E x \in Onward(k, e, part) : ahead(x, y)

\* No drive in time falls to one that is too late.
NoneFallsToALateOne(departure) ==
  LET affordable == {r \in Walks(departure) : r.value <= q.budget}
  IN  Frontier({r \in affordable : r.arrival <= q.time}) \subseteq Frontier(affordable)

FrontierIsKept(departure) ==
  /\ NoneGetsAhead(departure)
  /\ q.mode = "arrive" =>
       /\ NoneFallsToALateOne(departure)
       /\ q.origin.edge = NoEdge \/ SameEdge
       /\ WaitsAreWhole
       /\ net.scales => \A e \in Edges : ~VaryingSpeed(e)

-----------------------------------------------------------------------------
(* Properties.                                                             *)

Answers == IF phase # "done" THEN {} ELSE IF kind = "components" THEN found ELSE {best} \ {None}

(* A route of an answer can be driven as it says: no turn or sequence is      *)
(* forbidden, every edge is open when it is entered or waited for no longer   *)
(* than allowed, its cost, its component and its arrival are those of the     *)
(* drive, within the budget and before the deadline.                          *)
RoutesHold == \A r \in Answers : r \in Allowed(r.departure)

(* The rules are in force exactly when their days and hours say, counted      *)
(* from the start of the day on which an interval begins.                     *)
RulesFollowTheCalendar ==
  LET inForce(rule, t) ==
        \E d \in -1 .. Horizon \div Day :
          /\ DayMatches(rule, d)
          /\ \/ rule.intervals = {} /\ t \in d * Day .. (d + 1) * Day - 1
             \/ \E i \in rule.intervals :
                  t \in d * Day + i[1] .. d * Day + i[2] + (IF i[1] > i[2] THEN Day ELSE 0) - 1
  IN  \A e \in Edges : \A rule \in EffectiveRules(e), t \in Ticks : RuleActive(rule, t) <=> inForce(rule, t)

(* For a time of departure no drive is cheaper than the answer where time is  *)
(* all that costs and no one gains by being late, or where nothing varies;    *)
(* and where no one gains by being late every destination that can be reached *)
(* is.  (A wait that begins within a second makes one gain: who asks at the   *)
(* minute is let in before who has waited for it.)                            *)
DeparturesAreBest ==
  phase = "done" /\ kind = "cheapest" =>
    LET walks == Walks(q.time)
    IN  /\ NetworkIsFifo \/ NothingVaries => (best = None <=> walks = {})
        /\ (NetworkIsFifo /\ CostIsTime) \/ NothingVaries => \A r \in walks : best.cost <= r.cost

InTimeDrives == UNION {Allowed(t) : t \in Window}

\* The search knows an edge the origin lies on only by drives along all of it.
DrivenFromItsStart(r) ==
  q.origin.edge # NoEdge /\ ~SameEdge =>
    \E l \in FirstLabels(q.origin.edge, r.departure, Parts - q.origin.part), t \in Window :
      \E k \in FirstLabels(q.origin.edge, t, Parts) : k.arrival = l.arrival

(* "Arrive-by searches split their exit windows at the minutes when a         *)
(* restriction starts and ends.  Thus the latest departure stays exact."      *)
(* Towards a deadline no drive departs later than the answer and is in time,  *)
(* and none that departs at the same time is cheaper, whatever opens, closes, *)
(* changes its speed or restricts a turn on the way.  The two exceptions are  *)
(* exact: a drive from the middle of an edge that it would have been too late *)
(* to drive from its start; and a window in which a wait may begin within a   *)
(* second.  Such a wait ends up to a second after the minute, where the       *)
(* search back takes the minute itself: the drive it then tries out is late   *)
(* and dropped, though an earlier one would be in time.                       *)
DeparturesAreLatest ==
  phase = "done" /\ kind = "latest" =>
    /\ best # None => InTimeDrives # {}
    /\ WaitsAreWhole => \A r \in InTimeDrives : DrivenFromItsStart(r) => best # None /\ ~Later(r, best)

(* The same wherever the origin lies.                                         *)
LatestDepartureStaysExact ==
  phase = "done" /\ kind = "latest" /\ WaitsAreWhole => \A r \in InTimeDrives : best # None /\ ~Later(r, best)

(* "Component constraints and Pareto routing use exact nondominated           *)
(* label-setting.  They work for static routes and for temporal               *)
(* departure_time or arrive_by requests."  The routes are the cheapest within *)
(* a budget, or the frontier of cost and component, among all drives; towards *)
(* a deadline, among those of the latest departure that has one in time.      *)
(* Exactly these cases are excepted, in each of which the code returns less   *)
(* than it promises:                                                          *)
(*   - a label that is behind in cost, component and arrival would get ahead  *)
(*     later, because the other one then waits, or meets another speed or     *)
(*     overlay: it has been forgotten by then;                                *)
(*   - towards a deadline, a drive in time falls to a cheaper one that is     *)
(*     late, because the late ones are left out after the frontier is taken;  *)
(*   - towards a deadline, the departure may not be among those tried: the    *)
(*     origin lies on an edge, a wait may begin within a second, or the       *)
(*     component changes with the speed.                                      *)
FrontierIsExact ==
  LET worth(routes) == {<<r.cost, IF q.pareto THEN r.value ELSE 0>> : r \in routes}
      last == {t \in (IF q.mode = "arrive" THEN Window ELSE {q.time}) : Allowed(t) # {}}
  IN  phase = "done" /\ q.components =>
        IF last = {} THEN Answers = {}
        ELSE FrontierIsKept(Max(last)) => worth(Answers) = worth(Frontier(Allowed(Max(last))))

(* A route can be driven as it says under rules that follow the calendar.     *)
DrivesHold == RoutesHold /\ RulesFollowTheCalendar

(* No drive is cheaper from its departure nor leaves later for its deadline.  *)
DeparturesAreRight == DeparturesAreBest /\ DeparturesAreLatest

=============================================================================
