------------------------------ MODULE MCSimulation ------------------------------
(* A small road network for model-checking Simulation.                     *)
EXTENDS Simulation

\* Two ways in, "a" and "b", meet in the narrow "main"; "side" leads round it
\* and both end in "out".
Roads == {"a", "b", "main", "side", "out"}
Turns == [e \in Roads |-> CASE e = "a" -> {"main", "side"} [] e = "b" -> {"main"}
                            [] e \in {"main", "side"} -> {"out"} [] e = "out" -> {}]
Fits == [e \in Roads |-> CASE e = "main" -> 2 [] e = "out" -> 3 [] OTHER -> 2]
LetsOut == [e \in Roads |-> 1]

\* A car that is a ghost, a truck of two units drawn from the depot, and a car
\* of a fleet that may come later and starts where the truck does.
Three == 1..3
FleetOf == <<"cars", "trucks", "extra">>
Leaves == <<0, 1, 0>>
Size == <<1, 2, 1>>
Ways == <<{<<"a", "main", "out">>}, {<<"b", "main", "out">>, <<>>}, {<<"b", "main", "out">>}>>
Scenario == <<"cars", "trucks">>
Areas == [f \in {"cars", "trucks", "extra"} |-> IF f = "cars" THEN "none" ELSE "depot"]

Depot == [id |-> "depot", effect |-> "spawn", edges |-> {"b"}, fleets |-> {}]
Works == [id |-> "works", effect |-> "no_access", edges |-> {"b", "main"},
          fleets |-> {"cars", "extra"}]
Narrow == [id |-> "works", effect |-> "capacity", edges |-> {"main", "out"}, fleets |-> {}]
Zones == {Depot}

Open == [do |-> "remove", id |-> "works"]
Say(what) == [do |-> what]
Shut == [do |-> "add", zone |-> Works]
Tighten == [do |-> "add", zone |-> Narrow]
Raze == [do |-> "remove", id |-> "depot"]
More == [do |-> "spawn", fleet |-> "extra"]
Steering ==
  {<<Say("pause"), Say("resume")>>, <<Say("pause"), Say("delete")>>,
   <<Shut, Open>>, <<Shut, More, Say("cancel")>>, <<More, Tighten>>, <<Raze, More>>}
===============================================================================
