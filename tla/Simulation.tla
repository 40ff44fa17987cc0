------------------------------- MODULE Simulation -------------------------------
(***************************************************************************)
(* One agent-based traffic simulation: the engine's thread                 *)
(* (crates/simulate/src/engine.rs), the state it shares with its callers   *)
(* (control.rs) and the API that creates, steers and deletes it            *)
(* (crates/api/src/simulation.rs).                                         *)
(*                                                                         *)
(* Time is the tick.  Speeds, lengths and costs only decide how far an     *)
(* agent comes in a tick and which detour is cheapest: both are choices    *)
(* here.  Loads are in passenger-car units, whole ones; standing           *)
(* background load is part of Storage.                                     *)
(***************************************************************************)
EXTENDS Integers, Sequences, FiniteSets, SequencesExt

CONSTANTS
  Agents,         \* every agent of every fleet
  Fleet,          \* agent -> its fleet
  Depart,         \* agent -> tick it wants to leave at, from its fleet's start
  Pcu,            \* agent -> its size
  Ghosts,         \* the agents with no_collision off
  Obedient,       \* the agents that stop at red
  Routes,         \* agent -> routes its dispatch may find, <<>> for a failure
  Fleets,         \* the fleets of the scenario, in order
  Sampled,        \* fleet -> zone id its endpoints are drawn from, or "none"
  Edges,
  Transitions,    \* edge -> edges an agent may turn into
  Storage,        \* edge -> units that fit
  Flow,           \* edge -> units that may leave in one tick
  Signals,        \* edges that end at a traffic signal
  StartZones,     \* the zones of the scenario
  Scripts,        \* the sequences of commands callers may send; bounds their number
  TotalTicks, CheckTicks, Horizon, Interval, Budget, ForcedRetry, Cooldown,
  StopWhenAllArrived

\* Every step of a route is a turn the network allows.
Driveable(r) == \A i \in 1..(Len(r) - 1) : r[i + 1] \in Transitions[r[i]]

ASSUME SizeAssumption ==
  /\ IsFiniteSet(Agents) /\ IsFiniteSet(Edges)
  /\ Pcu \in [Agents -> Nat \ {0}]
  /\ Storage \in [Edges -> Nat \ {0}] /\ Flow \in [Edges -> Nat]
  /\ Transitions \in [Edges -> SUBSET Edges]
ASSUME TimeAssumption ==
  /\ {CheckTicks, Budget, Interval} \subseteq Nat \ {0}
  /\ {TotalTicks, Horizon, ForcedRetry, Cooldown} \subseteq Nat
  /\ Depart \in [Agents -> Nat]
\* Routes come from searches on the network.
ASSUME RouteAssumption ==
  \A a \in Agents : \A r \in Routes[a] : r \in Seq(Edges) /\ Driveable(r)
\* The agents of a fleet come into being once: with the scenario, or by the
\* one command that spawns the fleet.
ASSUME ScriptAssumption ==
  /\ Fleets \in Seq(Range(Fleets))
  /\ \A s \in Scripts :
       /\ s \in Seq(Range(s))
       /\ \A i, j \in 1..Len(s) :
            s[i].do = "spawn" =>
              /\ s[i].fleet \notin Range(Fleets)
              /\ s[j].do = "spawn" /\ s[j].fleet = s[i].fleet => j = i

Never == -1000   \* f64::NEG_INFINITY of last_reroute_s
NoSummary == [total |-> 0]

VARIABLES
  state,      \* the published SimRunState
  cancelled,  \* the flag of SharedSimState
  inbox,      \* commands not taken yet
  listed,     \* the registry still has the simulation
  script,     \* what the callers still send
  outcome,    \* the OnceLock of the registry's entry: "none", "ok", "err"
  zones,      \* the zones in force
  agent,      \* agent -> record of engine.rs
  pending,    \* dispatched agents, not due yet
  retry,      \* due agents the network had no place for
  active,     \* agents under way, in order
  occupancy,  \* edge -> units on it
  exits,      \* edge -> units that left it in this tick
  report,     \* counters: planned agents, failed dispatches, arrivals
  at,         \* where the engine's thread is
  tick, nextDispatch,
  todo,       \* what the current loop of the engine has left
  candidates, \* agents that may be rerouted this tick
  summary     \* of the result

traffic == <<agent, pending, retry, active, occupancy, exits, report>>
shared == <<state, cancelled, inbox>>
api == <<listed, script, outcome>>
clock == <<tick, nextDispatch>>
vars == <<shared, api, zones, traffic, clock, at, todo, candidates, summary>>

Planned == {a \in Agents : agent[a].status = "planned"}
OfFleets(fs) == {a \in Agents : \E i \in 1..Len(fs) : fs[i] = Fleet[a]}
\* The units of road the agents of a set take up.
Units(S) == UNION {{a} \X (1..Pcu[a]) : a \in S}
Load(S) == Cardinality(Units(S))

\* current_edge and on_last_edge.
Edge(a) == agent[a].route[agent[a].pos]
OnLastEdge(a) == agent[a].pos >= Len(agent[a].route)
Ahead(a) == agent[a].route[agent[a].pos + 1]
Goal(a) == Last(agent[a].route)

\* effects_at, for the edges inside: closures per fleet, capacity cut in half.
Closed(f, e) == \E z \in zones : z.effect = "no_access" /\ e \in z.edges /\ f \in z.fleets
Cut(n, e) ==
  n \div 2 ^ Cardinality({z \in zones : z.effect = "capacity" /\ e \in z.edges})
HasRoom(a, e) == a \in Ghosts \/ occupancy[e] + Pcu[a] <= Cut(Storage[e], e)
MayEnterShut(a, e) == HasRoom(a, e)
MayEnter(a, e) == ~Closed(Fleet[a], e) /\ HasRoom(a, e)
MayLeave(a, e) ==
  LET cap == Cut(Flow[e], e) IN
  exits[e] + Pcu[a] <= IF cap > Pcu[a] THEN cap ELSE Pcu[a]

\* The paths astar_route may return: it never settles an edge twice.
Paths == {p \in SetToAllKPermutations(Edges) : p # <<>> /\ Driveable(p)}
Detours(a) ==
  {p \in Paths : /\ p[1] = Edge(a) /\ Last(p) = Goal(a)
                 /\ \A i \in 2..Len(p) : ~Closed(Fleet[a], p[i])}

NewAgent(status) == [status |-> status, depart |-> 0, route |-> <<>>, pos |-> 0,
                     end |-> FALSE, force |-> FALSE, last |-> Never, traj |-> <<>>]

Init ==
  /\ state = "Pending" /\ cancelled = FALSE /\ inbox = <<>>
  /\ listed = TRUE /\ script \in Scripts /\ outcome = "none"
  /\ zones = StartZones
  /\ agent = [a \in Agents |-> NewAgent("unknown")]
  /\ pending = {} /\ retry = <<>> /\ active = <<>>
  /\ occupancy = [e \in Edges |-> 0]
  /\ exits = [e \in Edges |-> 0]
  /\ report = [planned |-> 0, failed |-> 0, arrived |-> 0]
  /\ at = "start" /\ tick = 0 /\ nextDispatch = 0
  /\ todo = <<>> /\ candidates = <<>>
  /\ summary = NoSummary

-----------------------------------------------------------------------------
(* The callers.                                                            *)

\* send: a cancel also raises the flag, ahead of the commands in the inbox.
Send(c) ==
  /\ inbox' = Append(inbox, c)
  /\ cancelled' = (cancelled \/ c.do = "cancel")

Finished == state \in {"Completed", "Cancelled", "Failed"}
Asks(kind) == listed /\ script # <<>> /\ (Head(script).do = "delete" <=> kind = "delete")

\* control_simulation refuses all but a cancel once the run is over.
Control ==
  /\ Asks("command")
  /\ IF Finished /\ Head(script).do # "cancel" THEN UNCHANGED <<inbox, cancelled>>
     ELSE Send(Head(script))
  /\ script' = Tail(script)
  /\ UNCHANGED <<state, listed, outcome, zones, traffic, clock, at, todo, candidates, summary>>

Delete ==
  /\ Asks("delete")
  /\ Send([do |-> "cancel"])
  /\ listed' = FALSE
  /\ script' = Tail(script)
  /\ UNCHANGED <<state, outcome, zones, traffic, clock, at, todo, candidates, summary>>

-----------------------------------------------------------------------------
(* Dispatch: planned agents are routed a window of departures ahead.       *)

\* plan_fleet of every fleet.
Plan ==
  /\ at = "start"
  /\ at' = "dispatch"
  /\ state' = "Dispatching"
  /\ agent' = [a \in Agents |->
       IF a \in OfFleets(Fleets) THEN [NewAgent("planned") EXCEPT !.depart = Depart[a]]
       ELSE agent[a]]
  /\ report' = [report EXCEPT !.planned = Cardinality(OfFleets(Fleets))]
  /\ todo' = Fleets
  /\ UNCHANGED <<cancelled, inbox, api, zones, pending, retry, active, occupancy, exits,
                 clock, candidates, summary>>

Window(f) == {a \in Planned : Fleet[a] = f /\ agent[a].depart <= tick + Horizon}
\* prepare_distribution: a fleet drawn from a zone needs the zone.
CanSample(f) == Sampled[f] = "none" \/ \E z \in zones : z.id = Sampled[f]

\* route_drafts: each agent gets one of its routes or fails.
RouteDrafts(S, from, added) ==
  \E found \in [S -> UNION {Routes[a] : a \in S}] :
    LET routed == {a \in S : found[a] # <<>>} IN
    /\ \A a \in S : found[a] \in Routes[a]
    /\ agent' = [a \in Agents |->
         IF a \in routed
         THEN [NewAgent("pending") EXCEPT !.depart = from + Depart[a], !.route = found[a]]
         ELSE IF a \in S THEN NewAgent("failed") ELSE agent[a]]
    /\ pending' = pending \cup routed
    /\ report' = [report EXCEPT !.planned = @ + added, !.failed = @ + Cardinality(S \ routed)]

\* One round of dispatch_window's loop.
DispatchFleet ==
  /\ at = "dispatch" /\ todo # <<>>
  /\ \/ cancelled /\ todo' = <<>> /\ UNCHANGED <<at, state, traffic>>
     \/ /\ ~cancelled /\ Window(Head(todo)) = {}
        /\ todo' = Tail(todo)
        /\ UNCHANGED <<at, state, traffic>>
     \/ /\ ~cancelled /\ Window(Head(todo)) # {} /\ CanSample(Head(todo))
        /\ RouteDrafts(Window(Head(todo)), 0, 0)
        /\ todo' = Tail(todo)
        /\ UNCHANGED <<at, state, retry, active, occupancy, exits>>
     \/ /\ ~cancelled /\ Window(Head(todo)) # {} /\ ~CanSample(Head(todo))
        /\ state' = "Failed"
        /\ at' = "record" /\ todo' = <<>>
        /\ UNCHANGED traffic
  /\ UNCHANGED <<cancelled, inbox, api, zones, clock, candidates, summary>>

\* Retries come first, then the agents that are due, the earliest first;
\* ties are settled by position in the code, by any order here.
Due == {a \in pending : agent[a].depart <= tick}
EarliestFirst(order) ==
  \A i, j \in 1..Len(order) : i < j => agent[order[i]].depart <= agent[order[j]].depart
StartSpawning ==
  /\ at' = "spawn"
  /\ \E order \in SetToSeqs(Due) : EarliestFirst(order) /\ todo' = retry \o order
  /\ retry' = <<>>
  /\ pending' = pending \ Due

EndDispatch ==
  /\ at = "dispatch" /\ todo = <<>>
  /\ nextDispatch' = tick + Interval
  /\ \/ /\ state = "Dispatching"
        /\ state' = "Running"
        /\ at' = "drain"
        /\ UNCHANGED <<todo, retry, pending>>
     \/ state # "Dispatching" /\ StartSpawning /\ UNCHANGED state
  /\ UNCHANGED <<cancelled, inbox, api, zones, agent, active, occupancy, exits, report, tick,
                 candidates, summary>>

-----------------------------------------------------------------------------
(* Commands.                                                               *)

TakeInbox ==
  /\ at = "drain"
  /\ at' = "apply"
  /\ todo' = inbox /\ inbox' = <<>>
  /\ UNCHANGED <<state, cancelled, api, zones, traffic, clock, candidates, summary>>

Pause(c) ==
  /\ c.do = "pause"
  /\ state' = IF state = "Running" THEN "Paused" ELSE state
  /\ UNCHANGED <<cancelled, zones, traffic>>
Resume(c) ==
  /\ c.do = "resume"
  /\ state' = IF state = "Paused" THEN "Running" ELSE state
  /\ UNCHANGED <<cancelled, zones, traffic>>
Cancel(c) ==
  /\ c.do = "cancel"
  /\ cancelled' = TRUE
  /\ UNCHANGED <<state, zones, traffic>>
AddZone(c) ==
  /\ c.do = "add"
  /\ zones' = {z \in zones : z.id # c.zone.id} \cup {c.zone}
  /\ UNCHANGED <<state, cancelled, traffic>>
RemoveZone(c) ==
  /\ c.do = "remove"
  /\ zones' = {z \in zones : z.id # c.id}
  /\ UNCHANGED <<state, cancelled, traffic>>
\* The whole fleet is planned and routed at once and added to the published
\* total; without its zone the command only leaves a message.
SpawnFleet(c) ==
  LET S == OfFleets(<<c.fleet>>) IN
  /\ c.do = "spawn"
  /\ \/ CanSample(c.fleet) /\ RouteDrafts(S, tick, Cardinality(S))
     \/ ~CanSample(c.fleet) /\ UNCHANGED <<agent, pending, report>>
  /\ UNCHANGED <<state, cancelled, zones, retry, active, occupancy, exits>>

Apply ==
  /\ at = "apply" /\ todo # <<>>
  /\ LET c == Head(todo) IN
     Pause(c) \/ Resume(c) \/ Cancel(c) \/ AddZone(c) \/ RemoveZone(c) \/ SpawnFleet(c)
  /\ todo' = Tail(todo)
  /\ UNCHANGED <<inbox, api, clock, at, candidates, summary>>

MustEndRunning == cancelled /\ state # "Paused"
MustEnd == cancelled
Held == state = "Paused"

\* Out of the drain loop, round it again while paused, or on with the tick.
Proceed ==
  /\ at = "apply" /\ todo = <<>>
  /\ \/ MustEnd /\ at' = "finish" /\ UNCHANGED <<todo, retry, pending>>
     \/ ~MustEnd /\ Held /\ at' = "drain" /\ UNCHANGED <<todo, retry, pending>>
     \/ /\ ~MustEnd /\ ~Held /\ tick >= nextDispatch /\ Planned # {}
        /\ at' = "dispatch" /\ todo' = Fleets
        /\ UNCHANGED <<retry, pending>>
     \/ /\ ~MustEnd /\ ~Held /\ (tick < nextDispatch \/ Planned = {})
        /\ StartSpawning
  /\ UNCHANGED <<shared, api, zones, agent, active, occupancy, exits, report, clock,
                 candidates, summary>>

-----------------------------------------------------------------------------
(* A tick: departures, moves, reroutes.                                    *)

\* try_spawn.  Routes are never empty: candidate_paths leaves those out.
TrySpawn ==
  /\ at = "spawn" /\ todo # <<>>
  /\ LET a == Head(todo)  e == agent[a].route[1] IN
     \/ /\ ~MayEnter(a, e)
        /\ retry' = Append(retry, a)
        /\ UNCHANGED <<agent, active, occupancy>>
     \/ /\ MayEnter(a, e)
        /\ occupancy' = [occupancy EXCEPT ![e] = @ + Pcu[a]]
        /\ agent' = [agent EXCEPT ![a].status = "active", ![a].pos = 1, ![a].traj = <<e>>]
        /\ active' = Append(active, a)
        /\ UNCHANGED retry
  /\ todo' = Tail(todo)
  /\ UNCHANGED <<shared, api, zones, pending, exits, report, clock, at, candidates, summary>>

StartMoving ==
  /\ at = "spawn" /\ todo = <<>>
  /\ at' = "move"
  /\ todo' = active
  /\ exits' = [e \in Edges |-> 0]
  /\ candidates' = <<>>
  /\ UNCHANGED <<shared, api, zones, agent, pending, retry, active, occupancy, report, clock,
                 summary>>

Moving(a) == at = "move" /\ todo # <<>> /\ a = Head(todo)

\* The end of move_agent.  A forced reroute only waits for its back-off; any
\* other depends on the jam, the wait and the agent's eagerness.
Judge(a, force) ==
  LET check == tick % CheckTicks = 0 /\ ~OnLastEdge(a)
      ready == force /\ tick - agent[a].last >= ForcedRetry
      may == ~force /\ tick - agent[a].last >= Cooldown IN
  /\ todo' = Tail(todo)
  /\ \/ check /\ (ready \/ may) /\ candidates' = Append(candidates, a)
     \/ ~(check /\ ready) /\ UNCHANGED candidates

\* The tick ends on the edge.  An agent that waits at its end is at it at
\* once in the next tick: it never stops short again.
Stop(a) ==
  /\ Moving(a) /\ ~agent[a].end
  /\ Judge(a, agent[a].force)
  /\ UNCHANGED <<shared, api, zones, traffic, clock, at, summary>>

\* The end of the last edge.
Arrive(a) ==
  /\ Moving(a) /\ OnLastEdge(a)
  /\ occupancy' = [occupancy EXCEPT ![Edge(a)] = @ - Pcu[a]]
  /\ agent' = [agent EXCEPT ![a].status = "arrived"]
  /\ \E i \in 1..Len(active) : active[i] = a /\ active' = RemoveAt(active, i)
  /\ report' = [report EXCEPT !.arrived = @ + 1]
  /\ todo' = Tail(todo)
  /\ UNCHANGED <<shared, api, zones, pending, retry, exits, clock, at, candidates, summary>>

\* The end of an edge it cannot leave: the next one is closed, the light is
\* red, the edge has let out what it can, or the next one is full.
Wait(a) ==
  /\ Moving(a) /\ ~OnLastEdge(a)
  /\ LET shut == Closed(Fleet[a], Ahead(a))
         force == agent[a].force \/ shut IN
     /\ \/ shut
        \/ a \in Obedient /\ Edge(a) \in Signals
        \/ ~MayLeave(a, Edge(a))
        \/ ~HasRoom(a, Ahead(a))
     /\ agent' = [agent EXCEPT ![a].end = TRUE, ![a].force = force]
     /\ Judge(a, force)
  /\ UNCHANGED <<shared, api, zones, pending, retry, active, occupancy, exits, report, clock,
                 at, summary>>

CrossKeeping(a) ==
  /\ Moving(a) /\ ~OnLastEdge(a)
  /\ MayEnter(a, Ahead(a)) /\ MayLeave(a, Edge(a))
  /\ occupancy' = [occupancy EXCEPT ![Ahead(a)] = @ + Pcu[a]]
  /\ exits' = [exits EXCEPT ![Edge(a)] = @ + Pcu[a]]
  /\ agent' = [agent EXCEPT ![a].pos = @ + 1, ![a].end = FALSE,
                            ![a].traj = Append(@, Ahead(a))]
  /\ UNCHANGED <<shared, api, zones, pending, retry, active, report, clock, at, todo,
                 candidates, summary>>

\* Over to the next edge; the light, if there is one, is green.
Cross(a) ==
  /\ Moving(a) /\ ~OnLastEdge(a)
  /\ MayEnter(a, Ahead(a)) /\ MayLeave(a, Edge(a))
  /\ occupancy' = [[occupancy EXCEPT ![Edge(a)] = @ - Pcu[a]] EXCEPT ![Ahead(a)] = @ + Pcu[a]]
  /\ exits' = [exits EXCEPT ![Edge(a)] = @ + Pcu[a]]
  /\ agent' = [agent EXCEPT ![a].pos = @ + 1, ![a].end = FALSE,
                            ![a].traj = Append(@, Ahead(a))]
  /\ UNCHANGED <<shared, api, zones, pending, retry, active, report, clock, at, todo,
                 candidates, summary>>

\* Only so many are rerouted; the others ask again at the next check.
StartRerouting ==
  /\ at = "move" /\ todo = <<>>
  /\ at' = "reroute"
  /\ todo' = SubSeq(candidates, 1, IF Len(candidates) < Budget THEN Len(candidates) ELSE Budget)
  /\ candidates' = <<>>
  /\ UNCHANGED <<shared, api, zones, traffic, clock, summary>>

SpliceTwice(a, path) == SubSeq(agent[a].route, 1, agent[a].pos) \o path
Splice(a, path) == SubSeq(agent[a].route, 1, agent[a].pos - 1) \o path

\* process_reroutes, for one agent: no path, a search given up, or no gain
\* leave it its route.
Reroute ==
  /\ at = "reroute" /\ todo # <<>>
  /\ LET a == Head(todo) IN
     \E route \in {agent[a].route} \cup {Splice(a, p) : p \in Detours(a)} :
       agent' = [agent EXCEPT ![a].force = FALSE, ![a].last = tick, ![a].route = route]
  /\ todo' = Tail(todo)
  /\ UNCHANGED <<shared, api, zones, pending, retry, active, occupancy, exits, report, clock,
                 at, candidates, summary>>

EndTick ==
  /\ at = "reroute" /\ todo = <<>>
  /\ \/ /\ StopWhenAllArrived /\ tick > 0
        /\ active = <<>> /\ pending = {} /\ retry = <<>> /\ Planned = {}
        /\ at' = "finish"
        /\ UNCHANGED tick
     \/ /\ ~(StopWhenAllArrived /\ tick > 0 /\ active = <<>> /\ pending = {} /\ retry = <<>>
             /\ Planned = {})
        /\ tick' = tick + 1
        /\ at' = IF tick' <= TotalTicks THEN "drain" ELSE "finish"
  /\ UNCHANGED <<shared, api, zones, traffic, nextDispatch, todo, candidates, summary>>

-----------------------------------------------------------------------------
(* The end of a run.                                                       *)

\* The agents of every queue that is not empty.
LeftNoRetry == pending \cup Planned
Left == pending \cup Range(retry) \cup Planned

\* build_result.
Finish ==
  /\ at = "finish"
  /\ at' = "publish"
  /\ LET never == Left IN
     /\ agent' = [a \in Agents |->
          IF a \in never THEN [agent[a] EXCEPT !.status = "never"] ELSE agent[a]]
     /\ summary' = [total |-> Cardinality({a \in Agents :
                                agent'[a].status \notin {"unknown", "failed"}}),
                    arrived |-> report.arrived,
                    unfinished |-> Len(active), failed |-> report.failed,
                    never |-> Cardinality({a \in Agents : agent'[a].status = "never"}),
                    cancelled |-> cancelled]
  /\ UNCHANGED <<shared, api, zones, pending, retry, active, occupancy, exits, report, clock,
                 todo, candidates>>

PublishLatest ==
  /\ at = "publish"
  /\ at' = "record"
  /\ state' = IF cancelled THEN "Cancelled" ELSE "Completed"
  /\ UNCHANGED <<cancelled, inbox, api, zones, traffic, clock, todo, candidates, summary>>
Publish ==
  /\ at = "publish"
  /\ at' = "record"
  /\ state' = IF summary.cancelled THEN "Cancelled" ELSE "Completed"
  /\ UNCHANGED <<cancelled, inbox, api, zones, traffic, clock, todo, candidates, summary>>

\* The task around the engine puts the result where callers find it.
Record ==
  /\ at = "record"
  /\ at' = "done"
  /\ outcome' = IF state = "Failed" THEN "err" ELSE "ok"
  /\ UNCHANGED <<shared, listed, script, zones, traffic, clock, todo, candidates, summary>>

Move == \E a \in Agents : Stop(a) \/ Arrive(a) \/ Wait(a) \/ Cross(a)
Engine ==
  \/ Plan \/ DispatchFleet \/ EndDispatch
  \/ TakeInbox \/ Apply \/ Proceed
  \/ TrySpawn \/ StartMoving \/ Move \/ StartRerouting \/ Reroute \/ EndTick
  \/ Finish \/ Publish \/ Record
Next == Engine \/ Control \/ Delete

\* The engine has a thread of its own.
Spec == Init /\ [][Next]_vars /\ WF_vars(Engine)

-----------------------------------------------------------------------------

\* The load of every edge is the size of the agents on it: spawning, crossing
\* and arriving keep the occupancy array of EdgeDynamics in step with the
\* agents, whatever becomes of their routes meanwhile.
OccupancyMatches ==
  \A e \in Edges :
    occupancy[e] = Load({a \in Agents : agent[a].status = "active" /\ Edge(a) = e})

\* A reroute changes only the way ahead: the recorded trajectory is the part
\* of the route that was driven, every step of a route is a turn the network
\* allows, and it ends where the first route of the agent ended.
RoutesHold ==
  \A a \in Agents :
    LET r == agent[a].route IN
    /\ agent[a].traj = SubSeq(r, 1, agent[a].pos)
    /\ Driveable(r)
    /\ r # <<>> => \E first \in Routes[a] : first # <<>> /\ Last(first) = Goal(a)

\* The summary loses no agent: what the engine planned and what it was asked
\* to spawn has arrived, is still under way, never departed or found no
\* route, however the run ended.
SummaryAddsUp ==
  summary # NoSummary =>
    /\ summary.arrived + summary.unfinished + summary.never = summary.total
    /\ summary.total + summary.failed = report.planned

\* The published state and the stored result tell the same story, although
\* the cancel flag may go up between any two steps of the end of a run.
OutcomeAgrees ==
  /\ outcome = "ok" => state = IF summary.cancelled THEN "Cancelled" ELSE "Completed"
  /\ outcome = "err" => state = "Failed"
  /\ Finished => at \in {"record", "done"}

\* A no_access zone keeps agents of its fleets from coming onto its edges: by
\* their departure, by their route, or by a reroute.
ClosuresHold ==
  [][\A a \in Agents :
       agent'[a].traj # agent[a].traj => ~Closed(Fleet[a], Last(agent'[a].traj))]_vars

\* Every run ends and leaves a result, cancelled or failed runs too, unless it
\* is paused for good.
RunEnds == <>(outcome # "none") \/ <>[](state = "Paused" /\ ~cancelled)

\* However a run ends, its summary adds up and agrees with what is published.
EndAddsUp == SummaryAddsUp /\ OutcomeAgrees

===============================================================================
