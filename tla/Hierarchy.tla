----------------------------- MODULE Hierarchy -----------------------------
(***************************************************************************)
(* The contraction hierarchy over the states of the router, which are the  *)
(* directed edges of the road network: it is built once per dataset        *)
(* (ingest, acceleration.rs), customized for a metric by tasks that run in *)
(* parallel (profile, compile.rs), customized again in part when an avoid  *)
(* set raises or closes edges (query, recustomize.rs), and asked for       *)
(* cheapest walks and for the edges they run over (acceleration.rs).       *)
(*                                                                         *)
(* A state is named by its rank in the contraction order, so a pair <<x,   *)
(* y>> is an upward arc when x < y and a downward one otherwise, and an    *)
(* instance varies the order by varying the network.                       *)
(***************************************************************************)
EXTENDS CchWeights, Sequences

CONSTANTS N,           \* number of states
          Networks,    \* networks: the turns, their costs, the forbidden ones
          Costs,       \* costs of the states a profile may compile to
          TaskLimits,  \* largest subtree customized as one task; 0: one thread
          MaxChanged,  \* bound: states an avoid set names
          Raise        \* what an avoid set adds to the cost of a state

States == 1 .. N
Pairs  == States \X States
Closed == -1           \* a state the mode cannot use

IsNetwork(n) ==
  /\ n.steps \subseteq {a \in Pairs : a[1] # a[2]}
  /\ n.turn \in [n.steps -> Nat]
  /\ n.forbidden \subseteq n.steps

ASSUME HierarchyAssumption ==
  /\ N \in Nat \ {0} /\ Raise \in Nat /\ TaskLimits \subseteq Nat
  /\ 2 * (N * Overflow) < Infinity
  /\ \A n \in Networks : IsNetwork(n)
  /\ \A c \in Costs : c \in [States -> Nat \cup {Closed}]

VARIABLES net,         \* the network of this dataset
          cost,        \* cost of every state under the metric being served
          task,        \* the task that relaxes each middle, NoState: the top
          phase,
          contracted,  \* states contracted so far, in rank order
          pending,     \* arcs known and not yet emitted
          arcs,        \* arcs emitted: the hierarchy
          weight,      \* weight of every arc
          relaxed,     \* middles whose triangles were relaxed
          queue,       \* arcs waiting to be recomputed
          queued       \* arcs that were ever put into the queue
vars == <<net, cost, task, phase, contracted, pending, arcs, weight, relaxed,
          queue, queued>>
hierarchy == <<net, contracted, pending, arcs>>

Lower(a)    == Least({a[1], a[2]})
Upward(a)   == a[1] < a[2]
Downward(a) == a[2] < a[1]

BaseWeight(c, a) ==
  IF a \in net.steps \ net.forbidden /\ Closed \notin {c[a[1]], c[a[2]]}
  THEN EncodeWeight(c[a[2]] + net.turn[a])
  ELSE Infinity

Init ==
  /\ net \in Networks /\ cost = << >>
  /\ phase = "contract" /\ contracted = 0
  /\ pending = net.steps /\ arcs = {}
  /\ task = << >> /\ weight = << >> /\ relaxed = {}
  /\ queue = {} /\ queued = {}

-----------------------------------------------------------------------------
(* Contraction: every arc is owned by its lower endpoint, which emits it   *)
(* when it is contracted and proposes the arcs that keep its neighbours    *)
(* joined without it.                                                      *)

Contract ==
  /\ phase = "contract" /\ contracted < N
  /\ LET v     == contracted + 1
         owned == {a \in pending : Lower(a) = v}
         tails == {x \in States : <<x, v>> \in owned}
         heads == {y \in States : <<v, y>> \in owned}
     IN  /\ pending' = (pending \ owned) \cup {a \in tails \X heads : a[1] # a[2]}
         /\ arcs' = arcs \cup owned
         /\ contracted' = v
  /\ UNCHANGED <<net, cost, task, phase, weight, relaxed, queue, queued>>

-----------------------------------------------------------------------------
(* Customization.  Middles are split along the elimination tree: a subtree *)
(* of at most limit middles is a task, tasks run side by side, each in     *)
(* rank order, and the middles above all tasks follow in rank order.       *)

LowerTails(v) == {u \in 1 .. v - 1 : <<u, v>> \in arcs}

LowerNeighbours(v) == {u \in 1 .. v - 1 : <<u, v>> \in arcs \/ <<v, u>> \in arcs}

NoState == 0

\* The elimination tree as parents: v adopts the root above each lower neighbour.
EliminationParent ==
  LET forest[v \in 0 .. N] ==
        IF v = 0 THEN [root |-> [u \in States |-> u], parent |-> [u \in States |-> NoState]]
        ELSE LET old     == forest[v - 1]
                 adopted == {old.root[w] : w \in LowerNeighbours(v)}
             IN  [root   |-> [u \in States |-> IF old.root[u] \in adopted THEN v ELSE old.root[u]],
                  parent |-> [u \in States |-> IF u \in adopted THEN v ELSE old.parent[u]]]
  IN  forest[N].parent

\* The states below each in the tree, itself included: a state is added to
\* its parent once those below it were added to it.
SubtreeSize(parent) ==
  LET size[v \in 0 .. N] ==
        IF v = 0 THEN [u \in States |-> 1]
        ELSE [u \in States |-> IF u = parent[v] THEN size[v - 1][u] + size[v - 1][v]
                               ELSE size[v - 1][u]]
  IN  size[N]

\* The middle whose task each middle runs in, NoState for the top middles: from
\* the top, a subtree of at most limit middles joins the task above it, if any.
Tasks(limit) ==
  LET parent == EliminationParent
      size   == SubtreeSize(parent)
      cut[n \in 0 .. N] ==
        IF n = 0 THEN [u \in States |-> NoState]
        ELSE LET above == cut[n - 1]
                 v     == N + 1 - n
             IN  [u \in States |->
                    IF u # v THEN above[u]
                    ELSE IF size[v] > limit THEN NoState
                    ELSE IF parent[v] # NoState /\ above[parent[v]] # NoState THEN above[parent[v]]
                    ELSE v]
  IN  IF limit = 0 THEN [v \in States |-> NoState] ELSE cut[N]

\* The middles that must be finished before v is relaxed.
Before(v) ==
  IF task[v] = NoState
  THEN {u \in States : task[u] # NoState \/ u < v}
  ELSE {u \in 1 .. v - 1 : task[u] = task[v]}

CustomizeBase(c, limit) ==
  /\ phase = "contract" /\ contracted = N
  /\ cost' = c /\ task' = Tasks(limit)
  /\ weight' = [a \in arcs |-> BaseWeight(c, a)]
  /\ phase' = "relax"
  /\ UNCHANGED <<hierarchy, relaxed, queue, queued>>

\* Every triangle over the middle v.  Its incoming arcs may run side by side:
\* each writes the row of its own tail.
RelaxMiddle(v) ==
  /\ phase = "relax"
  /\ v \notin relaxed /\ Before(v) \subseteq relaxed
  /\ weight' = [a \in arcs |->
                  IF v < Lower(a) /\ <<a[1], v>> \in arcs /\ <<v, a[2]>> \in arcs
                  THEN Least({weight[a], AddWeights(weight[<<a[1], v>>], weight[<<v, a[2]>>])})
                  ELSE weight[a]]
  /\ relaxed' = relaxed \cup {v}
  /\ UNCHANGED <<hierarchy, cost, task, phase, queue, queued>>

\* A metric with an overflowing arc is served by exact search instead.
Finished == IF \E a \in arcs : weight[a] = Overflow THEN "exact" ELSE "ready"

FinishCustomization ==
  /\ phase = "relax" /\ relaxed = States
  /\ phase' = Finished
  /\ task' = << >> /\ relaxed' = {}
  /\ UNCHANGED <<hierarchy, cost, weight, queue, queued>>

-----------------------------------------------------------------------------
(* An avoid set raises the cost of a few states or closes them; the        *)
(* weights are then recomputed from the served ones.                       *)

Avoid(changed) ==
  /\ phase = "ready"
  /\ \A x \in changed : cost[x] # Closed
  /\ \E closed \in SUBSET changed :
       cost' = [x \in States |-> CASE x \in closed -> Closed
                                   [] x \in changed \ closed -> cost[x] + Raise
                                   [] OTHER -> cost[x]]
  /\ queue' = {a \in arcs \cap net.steps : \/ a[2] \in changed /\ cost[a[1]] # Closed
                                           \/ a[1] \in changed}
  /\ queued' = queue'
  /\ phase' = "recustomize"
  /\ UNCHANGED <<hierarchy, task, weight, relaxed>>

LowerTriangles(a) ==
  {m \in 1 .. Lower(a) - 1 : <<a[1], m>> \in arcs /\ <<m, a[2]>> \in arcs}

ParentsOfLeft(a) ==
  {b \in arcs : b[1] = a[1] /\ b[2] > a[2] /\ <<a[2], b[2]>> \in arcs}

\* The arcs that have a as the left or right side of a triangle.
Parents(a) ==
  IF Downward(a)
  THEN {b \in arcs : b[1] = a[1] /\ b[2] > a[2] /\ <<a[2], b[2]>> \in arcs}
  ELSE {b \in arcs : b[2] = a[2] /\ b[1] > a[1] /\ <<b[1], a[1]>> \in arcs}

Recompute(a) ==
  /\ phase = "recustomize"
  /\ a \in queue /\ \A b \in queue : Lower(a) <= Lower(b)
  /\ LET value == Least({BaseWeight(cost, a)} \cup
                        {AddWeights(weight[<<a[1], m>>], weight[<<m, a[2]>>]) :
                           m \in LowerTriangles(a)})
         next  == IF value = weight[a] THEN {} ELSE Parents(a) \ queued
     IN  /\ weight' = [weight EXCEPT ![a] = value]
         /\ queue' = (queue \ {a}) \cup next
         /\ queued' = queued \cup next
  /\ UNCHANGED <<hierarchy, cost, task, phase, relaxed>>

FinishRecustomization ==
  /\ phase = "recustomize" /\ queue = {}
  /\ phase' = IF Finished = "ready" THEN "avoiding" ELSE "exact"
  /\ queued' = {}
  /\ UNCHANGED <<hierarchy, cost, task, weight, relaxed, queue>>

-----------------------------------------------------------------------------
Next ==
  \/ Contract
  \/ \E c \in Costs, limit \in TaskLimits : CustomizeBase(c, limit)
  \/ \E v \in States : RelaxMiddle(v)
  \/ FinishCustomization
  \/ \E changed \in kSubset(1, States) \cup kSubset(MaxChanged, States) : Avoid(changed)
  \/ \E a \in arcs : Recompute(a)
  \/ FinishRecustomization

Spec == Init /\ [][Next]_vars

-----------------------------------------------------------------------------
(* Queries on a served hierarchy.                                          *)

Served == phase \in {"ready", "avoiding"}

ForwardSpaceLast(s) ==
  LET space[v \in 0 .. N] ==
        IF v = 0 THEN [y \in States |-> IF y = s THEN 0 ELSE Infinity]
        ELSE LET dist == space[v - 1]
             IN  Tabulated([y \in States |->
                    IF v < y /\ <<v, y>> \in arcs
                    THEN Plus(dist[v], weight[<<v, y>>]) ELSE dist[y]])
  IN  space[N]

\* Costs of climbing from s along upward arcs, from a seed of cost zero: no
\* arc leads down, so the search settles the states in the order of their rank.
ForwardSpace(s) ==
  LET space[v \in 0 .. N] ==
        IF v = 0 THEN [y \in States |-> IF y = s THEN 0 ELSE Infinity]
        ELSE LET dist == space[v - 1]
             IN  Tabulated([y \in States |->
                    IF v < y /\ <<v, y>> \in arcs
                    THEN Least({dist[y], Plus(dist[v], weight[<<v, y>>])}) ELSE dist[y]])
  IN  space[N]

\* Costs of descending to t along downward arcs.
BackwardSpace(t) ==
  LET space[v \in 0 .. N] ==
        IF v = 0 THEN [x \in States |-> IF x = t THEN 0 ELSE Infinity]
        ELSE LET dist == space[v - 1]
             IN  Tabulated([x \in States |->
                    IF v < x /\ <<x, v>> \in arcs
                    THEN Least({dist[x], Plus(weight[<<x, v>>], dist[v])}) ELSE dist[x]])
  IN  space[N]

Join(up, down) == Least({Plus(up[m], down[m]) : m \in States})

WitnessesBelow(a) ==
  {m \in LowerTriangles(a) : /\ weight[<<a[1], m>>] < weight[a] /\ weight[<<m, a[2]>>] < weight[a]
                             /\ AddWeights(weight[<<a[1], m>>], weight[<<m, a[2]>>]) = weight[a]}

\* The lower triangles whose sides add up to the arc; the first is unpacked.
Witnesses(a) ==
  {m \in LowerTriangles(a) : AddWeights(weight[<<a[1], m>>], weight[<<m, a[2]>>]) = weight[a]}

-----------------------------------------------------------------------------
(* Properties.                                                             *)

\* The turns as a graph, and the base weights as steps of it.
Base == Tabulated([a \in Pairs |-> BaseWeight(cost, a)])

\* Once the weights are served, an arc weighs what the cheapest walk between
\* its ends through lower-ranked states weighs under the served metric, or is
\* saturated: after the parallel customization and after the partial one,
\* which must equal a customization from scratch (compile.rs, customize;
\* recustomize.rs, recustomize_changed_edges).
WeightsAreShortest ==
  phase \in {"ready", "avoiding", "exact"} =>
    \A a \in arcs :
      LET c == CheapestFrom(States, Base, 1 .. Lower(a) - 1, a[1])[a[2]]
      IN  weight[a] = IF c = Infinity THEN Infinity ELSE Least({c, Overflow})

\* The cost a query reads off the two search spaces is the cost of the
\* cheapest walk over open states and allowed turns, and it unpacks to one: an
\* arc that no lower triangle explains is one turn of the network with that
\* weight (acceleration.rs, build_forward_cch_space, build_backward_cch_space,
\* join_cch_spaces, find_unpack_witness).
QueriesAreExact ==
  Served =>
    LET down == [t \in States |-> BackwardSpace(t)]
    IN  /\ \A s \in States :
             LET cheapest == CheapestFrom(States, Base, States, s)
                 up       == ForwardSpace(s)
             IN  \A t \in States \ {s} : Join(up, down[t]) = cheapest[t]
        /\ \A a \in arcs : weight[a] < Overflow /\ Witnesses(a) = {} => weight[a] = BaseWeight(cost, a)

\* What a triangle was computed from is final: while tasks run side by side,
\* no arc changes after a triangle that has it as a side was relaxed
\* (compile.rs: "both child arcs of a triangle are final before its middle
\* runs"), and the partial customization settles each arc once.
SidesAreFinal ==
  [][\A a \in arcs :
       phase \in {"relax", "recustomize"} /\ weight'[a] # weight[a] =>
         /\ phase = "relax" => Lower(a) \notin relaxed
         /\ Parents(a) \cap (queued \ queue) = {}]_weight

\* What is served is exact: the weights and what queries read off them.
HierarchyIsExact == WeightsAreShortest /\ QueriesAreExact

=============================================================================
