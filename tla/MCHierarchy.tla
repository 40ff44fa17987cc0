---------------------------- MODULE MCHierarchy ----------------------------
(* Small road networks, ranked in every order.                            *)
EXTENDS Hierarchy

\* The junctions every road runs between.
TwoWayTriangle == <<<<1, 2>>, <<2, 1>>, <<2, 3>>, <<3, 2>>, <<3, 1>>>>
Diamond        == <<<<1, 2>>, <<1, 3>>, <<2, 4>>, <<3, 4>>, <<4, 1>>>>
TwoRoads       == <<<<1, 2>>, <<1, 2>>, <<2, 1>>, <<2, 3>>, <<3, 1>>>>

Turns(roads) == {a \in (1 .. 5) \X (1 .. 5) : a[1] # a[2] /\ roads[a[1]][2] = roads[a[2]][1]}
IsUturn(roads, a) == roads[a[1]][1] = roads[a[2]][2]

\* The network with road r ranked order[r].
Ranked(roads, order, forbidden) ==
  LET at == Tabulated([i \in 1 .. 5 |-> roads[CHOOSE r \in 1 .. 5 : order[r] = i]])
  IN  [steps |-> Turns(at),
       turn |-> Tabulated([a \in Turns(at) |-> IF IsUturn(at, a) THEN 3 ELSE 0]),
       forbidden |-> {<<order[f[1]], order[f[2]]>> : f \in forbidden}]

Orders == {f \in [1 .. 5 -> 1 .. 5] : \A i, j \in 1 .. 5 : i # j => f[i] # f[j]}

AllNetworks == {Ranked(TwoWayTriangle, o, f) : o \in Orders, f \in {{}, {<<1, 3>>}}}
               \cup {Ranked(roads, o, {}) : roads \in {Diamond, TwoRoads}, o \in Orders}
\* From costs that round to nothing to one that saturates.
SomeCosts == {<<1, 5, 2, 9, 0>>, <<30, 2, 26, 3, 20>>}
=============================================================================
