---------------------------- MODULE MCTimeSearch ----------------------------
EXTENDS TimeSearch

Always == [dates |-> -1 .. 3, weekdays |-> 0 .. 1, onHolidays |-> TRUE, keepsWeekday |-> FALSE, octave |-> 0]
Rule(effect, intervals) == [effect |-> effect, intervals |-> intervals, varies |-> TRUE] @@ Always
Fast(intervals) == [Rule("speed", intervals) EXCEPT !.octave = 1]
Slow(intervals) == [Rule("speed", intervals) EXCEPT !.octave = -1]

NoScenario == [closes |-> FALSE, opens |-> FALSE, replaces |-> FALSE, rules |-> {}, octave |-> 0]

\* A bridge beside a detour that meets it again, and one way with a way back.
Diamond == [roads |-> <<<<1, 2>>, <<2, 3>>, <<2, 3>>, <<3, 5>>, <<5, 4>>>>, time |-> <<2, 4, 6, 2, 2>>, toll |-> <<0, 0, 0, 2, 0>>, value |-> <<2, 6, 2, 2, 0>>]
Line    == [roads |-> <<<<1, 2>>, <<2, 3>>, <<3, 4>>, <<4, 2>>>>, time |-> <<2, 4, 2, 2>>, toll |-> <<0, 2, 2, 0>>, value |-> <<2, 4, 2, 2>>]

Base(map) ==
  LET edges == DOMAIN map.roads
      turns == {a \in edges \X edges : a[1] # a[2] /\ map.roads[a[1]][2] = map.roads[a[2]][1]}
  IN  [roads |-> map.roads, time |-> map.time, cost |-> map.time, value |-> map.value, toll |-> map.toll,
       forward |-> [e \in edges |-> e # 4], rules |-> [e \in edges |-> {}], scenario |-> [e \in edges |-> NoScenario],
       materialized |-> {}, holidays |-> {}, week |-> 2, turns |-> {}, sequences |-> {},
       turnTime |-> [a \in turns |-> IF a = <<1, 2>> THEN 1 ELSE 0], gate |-> [a \in turns |-> 0],
       second |-> 1, maxWait |-> 0, timeWeight |-> 1, valueWeight |-> 0, scales |-> FALSE, overlay |-> "none", overlaid |-> {}]

Tolled(x) == [x EXCEPT !.cost = [e \in DOMAIN x.time |-> x.time[e] + x.toll[e]], !.gate = [a \in DOMAIN @ |-> IF a = <<2, 4>> THEN 6 ELSE 0]]

\* What may hold on the second edge, the bridge.
Schedules ==
  {{Rule("openOnly", {<<6, 10>>})}, {Rule("openOnly", {<<8, 2>>})}, {Rule("closed", {<<2, 6>>})},
   {Fast({<<4, 8>>})}, {Slow({<<0, 4>>}), Fast({<<6, 10>>})}, {Rule("closed", {<<4, 6>>}), Fast({<<6, 12>>})},
   {[Rule("openOnly", {<<10, 4>>}) EXCEPT !.weekdays = {0}], Slow({<<2, 4>>})}}

Scheduled == {[Base(map) EXCEPT !.rules[2] = rules, !.maxWait = wait] :
                map \in {Diamond, Line}, rules \in Schedules, wait \in {0, 2, 12}}

Opened == {[Base(map) EXCEPT !.rules[1] = {Rule("openOnly", {<<8, 12>>})}, !.maxWait = wait] : map \in {Diamond, Line}, wait \in {0, 2}}

Some == {x \in Scheduled : x.maxWait # 2 /\ \E r \in x.rules[2] : r.effect # "closed" /\ r.octave # -1}

\* Turns forbidden for a while, sequences for ever, a public holiday, and what
\* a scenario does to the bridge.
Restricted ==
  {[x EXCEPT !.turns = {[from |-> 1, to |-> 2, rules |-> {Rule("closed", {<<2, 8>>})}],
                        [from |-> 2, to |-> 3, rules |-> {Rule("closed", {<<4, 6>>})}],
                        [from |-> 2, to |-> 4, rules |-> {Rule("closed", {<<6, 10>>})}]}] : x \in Some}
  \cup {[x EXCEPT !.sequences = s] : x \in Some, s \in {{<<1, 2, 4>>}, {<<2, 3>>, <<3, 4, 2>>}, {<<1, 2>>}}}
Special ==
  {[x EXCEPT !.holidays = {0}, !.rules[2] = {[r EXCEPT !.onHolidays = FALSE, !.keepsWeekday = keep] : r \in @}] :
     x \in Some, keep \in BOOLEAN}
  \cup {[x EXCEPT !.scenario[2] = s, !.materialized = {4}] : x \in Some, s \in
          {[NoScenario EXCEPT !.closes = TRUE], [NoScenario EXCEPT !.opens = TRUE, !.octave = 1],
           [NoScenario EXCEPT !.replaces = TRUE, !.rules = {Rule("closed", {<<8, 10>>})}]}}
  \cup {[x EXCEPT !.scenario[4].rules = {Rule("backwardOnly", {<<0, 6>>}), Rule("forwardOnly", {<<8, 10>>})},
                  !.materialized = {4}] : x \in Some}
Weighed == {[[Tolled(x) EXCEPT !.scales = TRUE] EXCEPT !.valueWeight = 1] : x \in Some}
Overlaid ==
  {[x EXCEPT !.overlay = o, !.overlaid = minutes] : x \in Some \cup {Base(map) : map \in {Diamond, Line}}, o \in {"plain", "inverted"},
     minutes \in {{<<2, 1>>, <<2, 2>>, <<3, 4>>}, {<<2, m>> : m \in 3 .. 6} \cup {<<4, m>> : m \in 4 .. 6}}}

\* Departures and durations that end within a second.
Fine ==
  {[x EXCEPT !.second = 2] : x \in Some \cup Opened
     \cup {[Base(Line) EXCEPT !.rules[1] = {Rule("openOnly", {<<0, 8>>})}, !.rules[2] = {Rule("closed", {<<4, 12>>})},
                              !.time[1] = 3, !.cost[1] = 3, !.maxWait = 12]}}

\* The cheaper way leads to the last edge while it is shut.
Awaited == {[Base(Diamond) EXCEPT !.rules[5] = {Rule("closed", {<<8, 12>>})}, !.maxWait = 12, !.cost[3] = 5, !.value[2] = 2]}

Unchanging == {Base(map) : map \in {Diamond, Line}} \cup {Tolled(Base(map)) : map \in {Diamond, Line}}

MCNetworks == Scheduled \cup Opened \cup {Tolled(x) : x \in Some} \cup Restricted \cup Special \cup Weighed \cup Overlaid
              \cup Fine \cup Awaited \cup Unchanging

At(node) == [edge |-> NoEdge, part |-> 0, node |-> node]
On(edge, part) == [edge |-> edge, part |-> part, node |-> 0]
Ask(mode, time, o, d) == [mode |-> mode, time |-> time, lookback |-> 12, origin |-> o, destination |-> d, components |-> FALSE,
                          budget |-> Infinity, pareto |-> FALSE, maxLabels |-> 16]

Plain == {Ask("depart", t, At(1), At(4)) : t \in {1, 4}} \cup {Ask("arrive", t, At(1), At(4)) : t \in {13, 18}}
         \cup {Ask(m, 15, On(1, 1), On(3, 1)) : m \in {"depart", "arrive"}}
         \cup {Ask(m, 14, On(2, o), On(2, 2)) : m \in {"depart", "arrive"}, o \in {0, 1}}
         \cup {Ask(m, 14, At(2), At(2)) : m \in {"depart", "arrive"}}
Bounded == {[x EXCEPT !.components = TRUE, !.budget = b, !.pareto = p] : x \in Plain, b \in {4, 8, 20}, p \in BOOLEAN}

MCQueriesOn(x) ==
  IF x \in Weighed \cup Overlaid THEN Bounded
  ELSE Plain \cup {[Ask("static", 0, At(1), At(4)) EXCEPT !.components = TRUE, !.budget = b, !.pareto = TRUE] : b \in {4, 6, 20}}
       \cup IF x \in Scheduled \cup Fine \cup Awaited \cup Unchanging THEN Bounded ELSE {}
=============================================================================
