--------------------------- MODULE TransitSearch ---------------------------
(***************************************************************************)
(* Journeys by scheduled vehicles (transit, router.rs, backward.rs,        *)
(* service_area.rs): the forward scan settles states by earliest arrival,  *)
(* the backward scan by latest departure, each one label at a time; both   *)
(* answer a route with alternatives or the stops of a service area.        *)
(***************************************************************************)
EXTENDS Integers, SequencesExt, FiniteSetsExt, TLC

CONSTANTS Timetables,     \* connections, walks between stops and transfer rules
          RequestsOn(_),  \* what is asked of each
          WindowTail            \* time a scan goes on beyond the search window

None     == 0             \* no connection
Infinity == 1000

VARIABLES net, request,
          phase,          \* "start", "scan", "failed" or "done"
          index,          \* the connections linked along each run
          scan,           \* per state its time and the step to it; labels not settled yet
          found,          \* finished journeys in the order they were met
          answer          \* journeys returned, or stops with their times
vars == <<net, index, request, phase, scan, found, answer>>

-----------------------------------------------------------------------------
(* The timetable.                                                          *)

Conn(c) == net.connections[c]
Connections == DOMAIN net.connections

Run(c) == {d \in Connections : Conn(d).run = Conn(c).run}

\* Connections of a run in order of departure, then of the timetable; two are
\* linked when the vehicle really stays at the stop.
Earlier(c, d) == Conn(c).dep < Conn(d).dep \/ (Conn(c).dep = Conn(d).dep /\ c < d)

NextConnection(c) ==
  LET later == {d \in Run(c) : Earlier(c, d)}
      next  == {d \in later : \A e \in later \ {d} : Earlier(d, e)}
      linked == {d \in next : Conn(d).from = Conn(c).to /\ Conn(c).arr <= Conn(d).dep}
  IN  IF linked = {} THEN None ELSE CHOOSE d \in linked : TRUE

RunLinks ==
  LET links(next) ==
        [next |-> next,
         previous |-> [d \in Connections |->
            LET linked == {c \in Connections : next[c] = d}
            IN  IF linked = {} THEN None ELSE CHOOSE c \in linked : TRUE] @@ << >>]
  IN  CHOOSE l \in {links(next) : next \in {[c \in Connections |-> NextConnection(c)] @@ << >>}} : TRUE

\* A rule names a stop on each side and there any vehicle, a route or a trip.
Selects(side, c) ==
  CASE side[1] = "any" -> TRUE
    [] side[1] = "route" -> side[2] = Conn(c).route
    [] side[1] = "trip" -> side[2] = Conn(c).trip

Rank(side) == CASE side[1] = "any" -> 0 [] side[1] = "route" -> 1 [] side[1] = "trip" -> 2

Specificity(rule) ==
  LET ranks == {Rank(rule.first), Rank(rule.second)}
  IN  CASE ranks = {2} -> 6 [] ranks = {1, 2} -> 5 [] ranks = {0, 2} -> 4
        [] ranks = {1} -> 3 [] ranks = {0, 1} -> 2 [] ranks = {0} -> 1

Matching(c, d) ==
  {rule \in net.rules : /\ rule.from = Conn(c).to /\ rule.to = Conn(d).from
                        /\ Selects(rule.first, c) /\ Selects(rule.second, d)}

Decisive(c, d) ==
  {rule \in Matching(c, d) : \A other \in Matching(c, d) : Specificity(other) <= Specificity(rule)}

\* Two rules that decide alike make the whole request fail.
Ambiguous(c, d) == c # None /\ d # None /\ Cardinality(Decisive(c, d)) > 1

Allows(c, d) ==
  c # None /\ d # None =>
    \A rule \in Decisive(c, d) : ~rule.forbidden /\ Conn(d).dep - Conn(c).arr >= rule.minimum

HasOrigin(c)      == \E rule \in net.rules : rule.from = Conn(c).to
HasDestination(d) == \E rule \in net.rules : rule.to = Conn(d).from

-----------------------------------------------------------------------------
(* Labels.                                                                 *)

Reached == DOMAIN scan.time

Improves(order, t, u) == IF order = "before" THEN t < u ELSE t > u

\* new is a set of [state, time, step] with one element per state; order says
\* whether earlier or later times are better.
Relaxed(labels, new, order) ==
  LET kept == {l \in new : l.state \notin DOMAIN labels.time \/ Improves(order, l.time, labels.time[l.state])}
      of(s) == CHOOSE l \in kept : l.state = s
      states == {l.state : l \in kept}
  IN  [time |-> [s \in states |-> of(s).time] @@ labels.time,
       step |-> [s \in states |-> of(s).step] @@ labels.step,
       heap |-> labels.heap \cup {[state |-> l.state, time |-> l.time] : l \in kept}]

Without(l) == [scan EXCEPT !.heap = @ \ {l}]

NoScan == [time |-> << >>, step |-> << >>, heap |-> {}]

WindowEnd   == request.time + request.window
WindowStart == Max({0, request.time - request.window})
AreaEnd     == request.time + request.area
AreaStart   == Max({0, request.time - request.area})
ForArea     == request.area # None

-----------------------------------------------------------------------------
(* The forward scan.  A state is a stop, the boardings so far and how one  *)
(* is there: on a connection, or on foot with the connection one alighted  *)
(* from as far as rules may ask for it.                                    *)

OnFoot(stop, boardings, from) ==
  [stop |-> stop, boardings |-> boardings, conn |-> None, alight |-> FALSE, from |-> from]
Arrived(c, boardings) ==
  [stop |-> Conn(c).to, boardings |-> boardings, conn |-> c, alight |-> Conn(c).drop, from |-> None]

Alighted(s) == s.boardings > 0 /\ s.alight

BoardingSlackOnBoard(s, sameRun) ==
  IF Alighted(s) THEN request.boardSlack + request.transferSlack ELSE request.boardSlack

BoardingSlack(s, sameRun) ==
  CASE sameRun -> 0
    [] ~sameRun /\ Alighted(s) -> request.boardSlack + request.transferSlack
    [] OTHER -> request.boardSlack

ForwardStart ==
  LET seeds == {[state |-> OnFoot(stop, 0, None), time |-> request.time + request.access[stop],
                 step |-> [kind |-> "access", prev |-> None, conn |-> None]] :
                   stop \in DOMAIN request.access}
  IN  Relaxed(NoScan, {l \in seeds : ForArea => l.time <= AreaEnd}, "before")

\* Candidates are compared by arrival; the first of the best is kept.
Earliest == Min({Infinity} \cup {f.time : f \in Range(found)})

ArrivalLimit(first) ==
  Min({request.time + request.ratio * Max({1, first - request.time}), first + request.extra})

ForwardPruned(l) ==
  IF ForArea THEN l.time > AreaEnd
  ELSE \/ l.time > WindowEnd + WindowTail
       \/ /\ request.minimum = 0 /\ found # << >>
          /\ IF request.maxRoutes > 1 THEN l.time > ArrivalLimit(Earliest) ELSE l.time >= Earliest

Walks(s, time) ==
  {[state |-> OnFoot(w.to, s.boardings, IF HasOrigin(s.conn) THEN s.conn ELSE None),
    time |-> time + request.transferSlack + w.time,
    step |-> [kind |-> "transfer", prev |-> s, conn |-> None]] :
     w \in {w \in net.walks : Alighted(s) /\ w.from = s.stop /\ w.to # s.stop}}

Boardable(s, time) ==
  LET sameRun(c) == s.conn # None /\ index.next[s.conn] = c
  IN  {c \in Connections :
         /\ Conn(c).from = s.stop /\ Conn(c).dep <= WindowEnd
         /\ ForArea => Conn(c).arr <= AreaEnd
         /\ Conn(c).route \in request.routes
         /\ Conn(c).dep >= time + BoardingSlack(s, sameRun(c))
         /\ sameRun(c) \/ (Conn(c).pickup /\ (s.conn # None => s.alight))}

Rides(s, time) ==
  LET cameFrom == IF s.conn = None THEN s.from ELSE s.conn
      sameRun(c) == s.conn # None /\ index.next[s.conn] = c
      boardings(c) == s.boardings + (IF sameRun(c) THEN 0 ELSE 1)
  IN  {[state |-> Arrived(c, boardings(c)), time |-> Conn(c).arr,
        step |-> [kind |-> "transit", prev |-> s, conn |-> c]] :
         c \in {c \in Boardable(s, time) : /\ sameRun(c) \/ Allows(cameFrom, c)
                                           /\ boardings(c) <= request.maxTransfers + 1}}

\* The rules are asked only about vehicles one could otherwise board.
ForwardFails(s, time) ==
  LET cameFrom == IF s.conn = None THEN s.from ELSE s.conn
  IN  \E c \in Boardable(s, time) : /\ ~(s.conn # None /\ index.next[s.conn] = c)
                                    /\ Ambiguous(cameFrom, c)

SettleForward ==
  /\ phase = "scan" /\ ~request.arriveBy
  /\ \E l \in scan.heap :
       /\ \A other \in scan.heap : l.time <= other.time
       /\ LET s == l.state
              stale == scan.time[s] < l.time \/ ForwardPruned(l)
          IN  IF stale THEN scan' = Without(l) /\ UNCHANGED <<phase, found>>
              ELSE IF ForwardFails(s, l.time)
              THEN phase' = "failed" /\ UNCHANGED <<scan, found>>
              ELSE /\ found' = IF ~ForArea /\ Alighted(s) /\ s.stop \in DOMAIN request.egress
                               THEN Append(found, [time |-> l.time + request.egress[s.stop], state |-> s])
                               ELSE found
                   /\ scan' = Relaxed(Without(l),
                                      {w \in Walks(s, l.time) : ForArea => w.time <= AreaEnd}
                                      \cup Rides(s, l.time), "before")
                   /\ UNCHANGED phase
  /\ UNCHANGED <<net, index, request, answer>>

-----------------------------------------------------------------------------
(* The backward scan.  A state is a stop, the boardings still to come and  *)
(* a stance: on foot one may only board, alighted one has left a vehicle,  *)
(* aboard one sits in a connection.                                        *)

Standing(stance, stop, boardings, to) ==
  [stop |-> stop, boardings |-> boardings, stance |-> stance, conn |-> None, to |-> to]
Aboard(c, boardings) ==
  [stop |-> Conn(c).from, boardings |-> boardings, stance |-> "aboard", conn |-> c, to |-> None]

BackwardStart ==
  LET seeds == {[state |-> Standing("alighted", stop, 0, None), time |-> request.time - request.egress[stop],
                 step |-> [kind |-> "egress", next |-> None, conn |-> None]] :
                   stop \in DOMAIN request.egress}
  IN  Relaxed(NoScan, {l \in seeds : l.time >= IF ForArea THEN AreaStart ELSE 0}, "after")

Latest == Max({-1} \cup {f.time : f \in Range(found)})

DepartureLimit(first) ==
  Max({request.time - request.ratio * Max({1, request.time - first}), first - request.extra})

BackwardPruned(l) ==
  IF ForArea THEN l.time < AreaStart
  ELSE \/ l.time + WindowTail < WindowStart
       \/ /\ request.minimum = 0 /\ found # << >>
          /\ IF request.maxRoutes > 1 THEN l.time < DepartureLimit(Latest) ELSE l.time <= Latest

WalksTo(s, time) ==
  {[state |-> Standing("alighted", w.from, s.boardings, s.to),
    time |-> time - w.time - request.transferSlack,
    step |-> [kind |-> "transfer", next |-> s, conn |-> None]] :
     w \in {w \in net.walks : w.to = s.stop /\ w.from # s.stop}}

\* The connections that could bring one to a stop by a time.
Bringing(s, time) ==
  IF s.boardings + 1 > request.maxTransfers + 1 THEN {}
  ELSE {c \in Connections : /\ Conn(c).to = s.stop /\ Conn(c).arr <= time
                            /\ Conn(c).arr >= WindowStart
                            /\ ForArea => Conn(c).dep >= AreaStart}

RidesTo(s, time) ==
  {[state |-> Aboard(c, s.boardings + 1), time |-> Conn(c).dep,
    step |-> [kind |-> "ride", next |-> s, conn |-> c]] :
     c \in {c \in Bringing(s, time) : /\ Allows(c, s.to) /\ Conn(c).drop
                                      /\ Conn(c).route \in request.routes}}

BoardsAnywhere(s, time) ==
  LET ready == time - request.boardSlack
      board == [kind |-> "board", next |-> s, conn |-> None]
  IN  IF ~Conn(s.conn).pickup \/ (ForArea /\ ready < AreaStart) THEN {}
      ELSE {[state |-> Standing("foot", s.stop, s.boardings, None), time |-> ready, step |-> board],
            [state |-> Standing("alighted", s.stop, s.boardings, s.conn),
             time |-> ready - request.transferSlack, step |-> board]}

\* Boarding where one sits: from there on foot, or after another vehicle.
Boards(s, time) ==
  LET context == IF HasDestination(s.conn) THEN s.conn ELSE None
      ready   == time - request.boardSlack
      board   == [kind |-> "board", next |-> s, conn |-> None]
  IN  IF ~Conn(s.conn).pickup \/ (ForArea /\ ready < AreaStart) THEN {}
      ELSE {[state |-> Standing("foot", s.stop, s.boardings, context), time |-> ready, step |-> board],
            [state |-> Standing("alighted", s.stop, s.boardings, context),
             time |-> ready - request.transferSlack, step |-> board]}

Stays(s) ==
  LET c == index.previous[s.conn]
  IN  IF c = None \/ Conn(c).arr < WindowStart \/ (ForArea /\ Conn(c).dep < AreaStart) THEN {}
      ELSE {[state |-> Aboard(c, s.boardings), time |-> Conn(c).dep,
             step |-> [kind |-> "ride", next |-> s, conn |-> c]]}

BackwardNew(s, time) ==
  {l \in CASE s.stance = "foot" -> WalksTo(s, time)
           [] s.stance = "alighted" -> RidesTo(s, time)
           [] s.stance = "aboard" -> Boards(s, time) \cup Stays(s) :
     l.time >= 0 /\ (ForArea /\ s.stance = "foot" => l.time >= AreaStart)}

\* Journeys that may start with the connection one sits in.
Starting(s, time) ==
  LET departure == time - request.boardSlack - request.access[s.stop]
  IN  IF ~ForArea /\ s.stance = "aboard" /\ Conn(s.conn).pickup /\ s.stop \in DOMAIN request.access /\ departure >= 0
      THEN <<[time |-> departure, state |-> s]>> ELSE << >>

SettleBackward ==
  /\ phase = "scan" /\ request.arriveBy
  /\ \E l \in scan.heap :
       /\ \A other \in scan.heap : l.time >= other.time
       /\ LET s == l.state
              stale == scan.time[s] > l.time \/ BackwardPruned(l)
          IN  IF stale THEN scan' = Without(l) /\ UNCHANGED <<phase, found>>
              ELSE IF s.stance = "alighted" /\ \E c \in Bringing(s, l.time) : Ambiguous(c, s.to)
              THEN phase' = "failed" /\ UNCHANGED <<scan, found>>
              ELSE /\ found' = found \o Starting(s, l.time)
                   /\ scan' = Relaxed(Without(l), BackwardNew(s, l.time), "after")
                   /\ UNCHANGED phase
  /\ UNCHANGED <<net, index, request, answer>>

-----------------------------------------------------------------------------
(* Legs.  The points off the timetable are the stop None.                  *)

Leg(kind, from, to, dep, arr, c) ==
  [kind |-> kind, from |-> from, to |-> to, dep |-> dep, arr |-> arr,
   run |-> IF c = None THEN None ELSE Conn(c).run, trip |-> IF c = None THEN None ELSE Conn(c).trip]
TransitLeg(c) == Leg("transit", Conn(c).from, Conn(c).to, Conn(c).dep, Conn(c).arr, c)

ForwardLegs(final) ==
  LET legs[s \in Reached] ==
        LET by == scan.step[s]
        IN  CASE by.kind = "access" ->
                   <<Leg("access", None, s.stop, request.time, request.time + request.access[s.stop], None)>>
              [] by.kind = "transfer" ->
                   Append(legs[by.prev],
                          LET left == scan.time[by.prev] + request.transferSlack
                              walk == CHOOSE w \in net.walks : w.from = by.prev.stop /\ w.to = s.stop
                          IN  Leg("transfer", by.prev.stop, s.stop, left, left + walk.time, None))
              [] by.kind = "transit" -> Append(legs[by.prev], TransitLeg(by.conn))
  IN  Append(legs[final.state],
             Leg("egress", final.state.stop, None, final.time - request.egress[final.state.stop],
                 final.time, None))

\* Legs from s on, for one who is there at a time.
BackwardLegs(final) ==
  LET legs[a \in Reached \X (0 .. Infinity)] ==
        LET s  == a[1]
            by == scan.step[s]
        IN  CASE by.kind = "egress" ->
                   <<Leg("egress", s.stop, None, a[2], a[2] + request.egress[s.stop], None)>>
              [] by.kind = "board" -> legs[<<by.next, a[2]>>]
              [] by.kind = "ride" -> <<TransitLeg(by.conn)>> \o legs[<<by.next, Conn(by.conn).arr>>]
              [] by.kind = "transfer" ->
                   LET left == a[2] + request.transferSlack
                       walk == CHOOSE w \in net.walks : w.from = s.stop /\ w.to = by.next.stop
                   IN  <<Leg("transfer", s.stop, by.next.stop, left, left + walk.time, None)>>
                       \o legs[<<by.next, left + walk.time>>]
      there == final.time + request.access[final.state.stop]
  IN  <<Leg("access", None, final.state.stop, final.time, there, None)>> \o legs[<<final.state, there>>]

\* Legs of one run that meet at a stop are shown as one.
Coalesced(legs) ==
  FoldLeft(LAMBDA done, leg :
             IF /\ done # << >> /\ Last(done).kind = "transit" /\ leg.kind = "transit"
                /\ Last(done).run = leg.run /\ Last(done).to = leg.from
             THEN Append(Front(done), [Last(done) EXCEPT !.to = leg.to, !.arr = leg.arr])
             ELSE Append(done, leg),
           << >>, legs)

SatisfiesMinimum(legs) ==
  \A n \in DOMAIN legs : legs[n].kind = "transit" => legs[n].arr - legs[n].dep >= request.minimum

Signature(legs) == [n \in DOMAIN legs |-> <<legs[n].kind, legs[n].from, legs[n].to, legs[n].trip>>]

Legs(final) == Coalesced(IF request.arriveBy THEN BackwardLegs(final) ELSE ForwardLegs(final))

-----------------------------------------------------------------------------
(* Answers.                                                                *)

\* The better time first, then the fewer boardings, then what was found first.
Ranked ==
  LET worse(t) == IF request.arriveBy THEN -t ELSE t
      key(n) == <<worse(found[n].time), found[n].state.boardings, n>>
      less(m, n) == \E i \in 1 .. 3 : /\ key(m)[i] < key(n)[i]
                                      /\ \A j \in 1 .. i - 1 : key(m)[j] = key(n)[j]
      order == SetToSortSeq(DOMAIN found, less)
  IN  [n \in DOMAIN order |-> found[order[n]]]

\* Without a minimum the first of the best journeys, else the first that holds it.
Chosen ==
  LET first == IF request.arriveBy THEN Latest ELSE Earliest
      times == SelectSeq(found, LAMBDA f : f.time = first)
  IN  IF request.minimum = 0 THEN IF found = << >> THEN << >> ELSE <<times[1]>>
      ELSE LET fit == SelectSeq(Ranked, LAMBDA f : SatisfiesMinimum(Legs(f)))
           IN  IF fit = << >> THEN << >> ELSE <<fit[1]>>

Within(f, first) ==
  IF request.arriveBy THEN f.time >= DepartureLimit(first) ELSE f.time <= ArrivalLimit(first)

WithShortLegs(first) ==
  FoldLeft(LAMBDA chosen, f :
             IF /\ Len(chosen) < request.maxRoutes /\ Within(f, first.time)
                /\ \A n \in DOMAIN chosen : Signature(chosen[n].legs) # Signature(Legs(f))
             THEN Append(chosen, [time |-> f.time, legs |-> Legs(f)]) ELSE chosen,
           <<[time |-> first.time, legs |-> Legs(first)]>>, Ranked)

\* Other journeys, as long as they differ in their legs from those before.
WithAlternatives(first) ==
  FoldLeft(LAMBDA chosen, f :
             IF /\ Len(chosen) < request.maxRoutes /\ Within(f, first.time)
                /\ SatisfiesMinimum(Legs(f))
                /\ \A n \in DOMAIN chosen : Signature(chosen[n].legs) # Signature(Legs(f))
             THEN Append(chosen, [time |-> f.time, legs |-> Legs(f)]) ELSE chosen,
           <<[time |-> first.time, legs |-> Legs(first)]>>, Ranked)

FinishRoute ==
  /\ phase = "scan" /\ ~ForArea /\ scan.heap = {}
  /\ answer' = IF Chosen = << >> THEN << >> ELSE WithAlternatives(Chosen[1])
  /\ phase' = "done" /\ scan' = NoScan /\ found' = << >>
  /\ UNCHANGED <<net, index, request>>

StatesOnTheWay ==
  IF request.arriveBy THEN {s \in Reached : scan.time[s] >= AreaStart}
  ELSE {s \in Reached : scan.time[s] <= AreaEnd}

\* Where one can be by foot or after alighting, with the time to be there.
AreaStates ==
  IF request.arriveBy THEN {s \in Reached : s.stance # "aboard" /\ scan.time[s] >= AreaStart}
  ELSE {s \in Reached : (s.conn = None \/ s.alight) /\ scan.time[s] <= AreaEnd}

FinishArea ==
  /\ phase = "scan" /\ ForArea /\ scan.heap = {}
  /\ answer' = [stop \in {s.stop : s \in AreaStates} |->
                  LET times == {scan.time[s] : s \in {s \in AreaStates : s.stop = stop}}
                  IN  IF request.arriveBy THEN Max(times) ELSE Min(times)]
  /\ phase' = "done" /\ scan' = NoScan
  /\ UNCHANGED <<net, index, request, found>>

-----------------------------------------------------------------------------
Init ==
  /\ net \in Timetables
  /\ index = RunLinks
  /\ request \in RequestsOn(net)
  /\ phase = "start"
  /\ scan = NoScan /\ found = << >> /\ answer = << >>

Start ==
  /\ phase = "start"
  /\ phase' = "scan"
  /\ scan' = IF request.arriveBy THEN BackwardStart ELSE ForwardStart
  /\ UNCHANGED <<net, index, request, found, answer>>

Next == Start \/ SettleForward \/ SettleBackward \/ FinishRoute \/ FinishArea

Spec == Init /\ [][Next]_vars

-----------------------------------------------------------------------------
(* Reference: journeys as sequences of connections.                        *)

Walk(from, to) == {w.time : w \in {w \in net.walks : w.from = from /\ w.to = to /\ from # to}}
                  \cup (IF from = to THEN {0} ELSE {})

\* Connection d can follow c: the vehicle goes on, or one changes.
Changes(c, d) ==
  /\ Conn(c).drop /\ Conn(d).pickup
  /\ \E t \in Walk(Conn(c).to, Conn(d).from) :
       Conn(d).dep >= Conn(c).arr + request.transferSlack + request.boardSlack + t
  /\ Allows(c, d)

Usable == {c \in Connections : /\ Conn(c).route \in request.routes
                               /\ IF request.arriveBy THEN Conn(c).arr >= WindowStart
                                  ELSE Conn(c).dep <= WindowEnd}

Stay(c, d) ==
  /\ Conn(c).run = Conn(d).run /\ Conn(c).to = Conn(d).from /\ Conn(c).arr <= Conn(d).dep
  /\ Earlier(c, d) /\ ~\E e \in Run(c) : Earlier(c, e) /\ Earlier(e, d)

\* Every journey on the timetable with its number of boardings.
Journeys ==
  LET start == {[run |-> <<c>>, boardings |-> 1] : c \in {c \in Usable : Conn(c).pickup}}
      longer(j) == {[run |-> Append(j.run, d), boardings |-> j.boardings] :
                      d \in {d \in Usable : Stay(Last(j.run), d)}}
                   \cup {[run |-> Append(j.run, d), boardings |-> j.boardings + 1] :
                      d \in {d \in Usable : Changes(Last(j.run), d) /\ j.boardings <= request.maxTransfers}}
      upTo[n \in 1 .. Cardinality(Connections)] ==
        IF n = 1 THEN start ELSE LET shorter == upTo[n - 1] IN shorter \cup UNION {longer(j) : j \in shorter}
  IN  upTo[Cardinality(Connections)]

FirstOf(j) == Conn(j.run[1])
LastOf(j)  == Conn(Last(j.run))

InTime(j) ==
  /\ FirstOf(j).from \in DOMAIN request.access /\ LastOf(j).to \in DOMAIN request.egress /\ LastOf(j).drop
  /\ IF request.arriveBy THEN LastOf(j).arr + request.egress[LastOf(j).to] <= request.time
     ELSE FirstOf(j).dep >= request.time + request.access[FirstOf(j).from] + request.boardSlack

-----------------------------------------------------------------------------
(* Properties.                                                             *)

(* The forward scan finds the earliest arrival and the backward scan the      *)
(* latest departure of all journeys that keep the slacks, the rules of        *)
(* transfers, the flags of the stops and the limit of boardings, so that both *)
(* directions obey one set of constraints (backward.rs: "an arrive-by journey *)
(* obeys exactly the transfer and boarding constraints a depart-after journey *)
(* does").                                                                    *)
RoutesAreOptimal ==
  phase = "done" /\ ~ForArea /\ request.minimum = 0 =>
    LET journeys == {j \in Journeys : InTime(j)}
        times == IF request.arriveBy
                 THEN {FirstOf(j).dep - request.boardSlack - request.access[FirstOf(j).from] : j \in journeys}
                 ELSE {LastOf(j).arr + request.egress[LastOf(j).to] : j \in journeys}
        usable == {t \in times : t >= 0}
    IN  IF usable = {} THEN answer = << >>
        ELSE answer # << >> /\ answer[1].time = IF request.arriveBy THEN Max(usable) ELSE Min(usable)

(* Every journey returned, the alternatives too, can be travelled: its legs   *)
(* join in space and time, its vehicles are those of one journey of the       *)
(* timetable, each leg keeps the minimum, no two journeys look the same.      *)
JourneysHold ==
  phase = "done" /\ ~ForArea /\ answer # << >> =>
    LET parts(legs) == SelectSeq(legs, LAMBDA leg : leg.kind = "transit")
        possible == {Coalesced([n \in DOMAIN j.run |-> TransitLeg(j.run[n])]) :
                       j \in {j \in Journeys : InTime(j)}}
    IN  /\ \A n \in DOMAIN answer :
             LET legs == answer[n].legs
             IN  /\ parts(legs) \in possible
                 /\ SatisfiesMinimum(legs)
                 /\ \A i \in 1 .. Len(legs) - 1 : legs[i].to = legs[i + 1].from /\ legs[i].arr <= legs[i + 1].dep
                 /\ \A i \in DOMAIN legs : legs[i].dep <= legs[i].arr
                 /\ IF request.arriveBy
                    THEN legs[1].dep = answer[n].time /\ Last(legs).arr <= request.time
                    ELSE legs[1].dep = request.time /\ Last(legs).arr = answer[n].time
        /\ Len(answer) <= request.maxRoutes
        /\ \A m, n \in DOMAIN answer : m # n => Signature(answer[m].legs) # Signature(answer[n].legs)

(* A service area reports a stop when, and at the time that, a journey of the *)
(* timetable reaches it within the limit, on a vehicle or by one walk after.  *)
AreaIsExact ==
  phase = "done" /\ ForArea =>
    LET stops == UNION {{Conn(c).from, Conn(c).to} : c \in Connections}
                 \cup DOMAIN request.access \cup DOMAIN request.egress
        boarded == {j \in Journeys : /\ FirstOf(j).from \in DOMAIN request.access
                                     /\ LastOf(j).drop
                                     /\ FirstOf(j).dep >= request.time + request.access[FirstOf(j).from]
                                                          + request.boardSlack}
        arriving == {j \in Journeys : /\ LastOf(j).to \in DOMAIN request.egress /\ LastOf(j).drop
                                      /\ LastOf(j).arr + request.egress[LastOf(j).to] <= request.time}
        forward(stop) ==
          {request.access[s] + request.time : s \in {stop} \cap DOMAIN request.access}
          \cup {LastOf(j).arr : j \in {j \in boarded : LastOf(j).to = stop}}
          \cup UNION {{LastOf(j).arr + request.transferSlack + t : t \in Walk(LastOf(j).to, stop)} :
                        j \in {j \in boarded : LastOf(j).to # stop}}
        backward(stop) ==
          {request.time - request.egress[s] : s \in {stop} \cap DOMAIN request.egress}
          \cup {FirstOf(j).dep - request.boardSlack : j \in {j \in arriving : FirstOf(j).from = stop}}
          \cup UNION {{FirstOf(j).dep - request.boardSlack - request.transferSlack - t :
                         t \in Walk(stop, FirstOf(j).from)} : j \in {j \in arriving : FirstOf(j).from # stop}}
        reached == [stop \in stops |->
                      IF request.arriveBy THEN {t \in backward(stop) : t >= AreaStart}
                      ELSE {t \in forward(stop) : t <= AreaEnd}]
    IN  answer = [stop \in {stop \in stops : reached[stop] # {}} |->
                    IF request.arriveBy THEN Max(reached[stop]) ELSE Min(reached[stop])]

(* Every answer is optimal, and it and its alternatives can be travelled.     *)
JourneysAreRight == RoutesAreOptimal /\ JourneysHold

=============================================================================
